SPECIFICATION Spec
CONSTANTS
  GateIds <- MCGateIds
  Branches = {main}
  Commits = {c1, c2}
  Detached = Detached
  Procedures <- MCProcedures
  CheckIds <- MCCheckIds
  Procs = {p1, p2}
  TempNames = {t1, t2}
  NoTemp = NoTemp
  RoleConfigs <- MCBothRoles
  Calls <- MCCoreCalls
  NoCall = NoCall
  MaxCalls = 3
SYMMETRY Sym
INVARIANTS
  TypeOK StoredMetContract PassIsBacked ReportedPassIsBacked FreshPassMeetsRoles
PROPERTIES NeverTorn CommitInvalidates ImplementsLedger
