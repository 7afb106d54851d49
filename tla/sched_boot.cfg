SPECIFICATION Spec
CONSTANTS
  Autos = {1, 2}
  Users = {"u1"}
  Owner <- OneUser
  Defs <- SkipManualDefs
  Runs = {r1, r2}
  Tokens = {t1, t2}
  Handlers = {h1, h2}
  MaxParallel = 1
  MaxRunsPerUser = 0
  MaxConcurrentRuns = 1
  MaxEnabledPerUser = 1
  MaxTime = 2
  MaxGen = 2
  MaxTriggers = 0
  MaxFaults = 1
  MaxCrashes = 1
  NoToken = NoToken
  NoRun = NoRun
SYMMETRY Symmetry
INVARIANTS
  EffectsHaveRecord
  TablesAreTrue
