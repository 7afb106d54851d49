SPECIFICATION UpSpec
CONSTANTS
  Autos = {1}
  Users = {"u1"}
  Owner <- OneUser
  Defs <- QueueDefs
  Runs = {r1, r2, r3}
  Tokens = {t1, t2}
  Handlers = {h1}
  MaxParallel = 1
  MaxRunsPerUser = 0
  MaxConcurrentRuns = 1
  MaxEnabledPerUser = 0
  MaxTime = 3
  MaxGen = 2
  MaxTriggers = 0
  MaxFaults = 0
  MaxCrashes = 0
  NoToken = NoToken
  NoRun = NoRun
SYMMETRY Symmetry
INVARIANTS
  QueuedRunsOnce
