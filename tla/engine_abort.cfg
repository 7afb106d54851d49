SPECIFICATION Spec
CONSTANTS
  Steps <- SmallSteps
  Definitions <- SmallDefinitions
  MaxParallelism = 2
  Budget <- SmallBudget
  OutputCap = 2
  MaxStepLogs = 4
  MaxItems = 2
INVARIANT AbortsAreNotSwallowed
