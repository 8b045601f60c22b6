SPECIFICATION Spec
CONSTANTS
  h1 = h1
  h2 = h2
  cr = cr
  bot2 = bot2
  NoCommit = NoCommit
  Commits = {h1, h2}
  Bots = {cr, bot2}
  Required = {cr}
  Entries <- MCEntries
  GitStates <- MCGit
  CIStatuses = {"missing", "success", "failure"}
  Merges = {"missing", "clean", "blocked"}
  GateStatuses = {"pass", "missing"}
SYMMETRY Sym
INVARIANTS StateMatchesGuard EveryPositionIsMapped BotTroubleFirst OpenWorkIsAddressed
