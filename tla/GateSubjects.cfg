SPECIFICATION SubjectsSpec
CONSTANTS
  GateIds <- MCGateIds
  Branches = {main, dev}
  Commits = {c1, c2}
  Detached = Detached
  Procedures <- MCProcedures
  CheckIds <- MCCheckIds
  Procs = {p1, p2}
  TempNames = {t1, t2}
  NoTemp = NoTemp
  RoleConfigs <- MCRelaxedOnly
  Calls <- MCCoreCalls
  NoCall = NoCall
  MaxCalls = 3
SYMMETRY Sym
INVARIANTS SubjectWasBranchHead
