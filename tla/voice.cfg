SPECIFICATION Spec
CONSTANTS
  MaxUtterances = 2
  MaxStops = 1
  MaxStarts = 2
  MaxPosts = 0
  MaxFaults = 1
  QueueCap = 1
  Length = 1
  PromptCleanup = TRUE
INVARIANTS
  
  MarksAreTrue
  EverythingIsHeld
  StopAborts
