SPECIFICATION FairSpec
CONSTANTS
  MaxUtterances = 2
  MaxStops = 0
  MaxStarts = 1
  MaxPosts = 1
  MaxFaults = 1
  QueueCap = 1
  Length = 1
  PromptCleanup = TRUE
PROPERTY TurnsGoOn
