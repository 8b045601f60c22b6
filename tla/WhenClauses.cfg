SPECIFICATION Spec
CONSTANTS
  Atoms <- MCAtoms
  Partners <- MCPartners
  Paths <- MCPaths
  ValuesOf <- MCValuesOf
  MaxDepth = 3
INVARIANTS LoadedNeverFails OrderOnlyHidesErrors AllIsNotAnyNot
PROPERTY LossNeverMatches
