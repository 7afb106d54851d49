SPECIFICATION FairSpec
CONSTANTS
  Steps <- SmallSteps
  Definitions <- SmallDefinitions
  MaxParallelism = 2
  Budget <- SmallBudget
  OutputCap = 2
  MaxStepLogs = 4
  MaxItems = 2
INVARIANTS
  BudgetHeld
  StatusIsEarned
PROPERTIES
  RunEnds
