SPECIFICATION Spec
CONSTANTS
  Agents = {"ann", "bob"}
  Labels = {"feat", "fix", "bug"}
  TypeLabels = {"feat", "fix"}
  Titles = {"fix", "feat", "untyped"}
  Commands <- MCCommands
  Pulls <- MCPulls
  Declared <- MCDeclared
  Sorted <- MCSorted
  FirstPulls <- MCFirstPulls
  FirstLooks <- MCFirstLooks
  ListLimit = 2
  MaxEdits = 2
INVARIANTS LabelsConform PullsConform
PROPERTIES PeoplesWorkKept ConformingLeftAlone
