SPECIFICATION FairUpSpec
CONSTANTS
  Autos = {1, 2}
  Users = {"u1"}
  Owner <- OneUser
  Defs <- SkipDefs
  Runs = {r1, r2}
  Tokens = {t1, t2}
  Handlers = {h1}
  MaxParallel = 1
  MaxRunsPerUser = 0
  MaxConcurrentRuns = 1
  MaxEnabledPerUser = 0
  MaxTime = 2
  MaxGen = 2
  MaxTriggers = 0
  MaxFaults = 0
  MaxCrashes = 1
  NoToken = NoToken
  NoRun = NoRun
PROPERTIES
  ImplementsLedger
  
  StopEventuallyReturns
