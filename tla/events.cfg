\* A conversation in which nothing happens any more is at rest.
SPECIFICATION FairSpec
CONSTANTS
  Clients = {c1}
  Handlers = {h1, h2}
  BufCap = 1
  MaxLog = 3
  MaxDeltas = 1
  MaxFaults = 1
  MaxDrops = 1
  NoHandler = NoHandler
INVARIANTS
  StreamContinues
PROPERTIES
  ImplementsFeed
  
CHECK_DEADLOCK FALSE
