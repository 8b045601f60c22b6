SPECIFICATION Spec
CONSTANTS
  c1 = c1
  c2 = c2
  own = own
  NoCommit = NoCommit
  Commits = {c1, c2, own}
  Worlds <- MCWorlds
  Requests <- MCRequests
  Conclusions = {"queued", "success", "failure"}
  PageSize = 1
  MaxPages = 2
  MaxBackPages = 1
  RunPage = 1
  MaxThreads = 3
  MaxRuns = 2
  MaxMoves = 2
INVARIANTS TypeOK OneHead ScopedCINeverLocal NoThreadMissed SuccessWasGreen NoSilentGap
CHECK_DEADLOCK FALSE
