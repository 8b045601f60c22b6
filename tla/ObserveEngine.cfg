SPECIFICATION Spec
CONSTANTS
  MaxAttempts = 4
  Windows = {8}
  Enough = 4
  Facts <- MCFacts
  Commands <- MCCommands
INVARIANT PatienceIsEnough
PROPERTIES ImplementsPromise EveryCommandEnds
