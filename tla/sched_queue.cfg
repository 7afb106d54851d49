SPECIFICATION UpSpec
CONSTANTS
  Autos = {1}
  Users = {"u1"}
  Owner <- OneUser
  Defs <- MixDefs
  Runs = {r1, r2, r3}
  Tokens = {t1, t2}
  Handlers = {h1}
  MaxParallel = 2
  MaxRunsPerUser = 2
  MaxConcurrentRuns = 2
  MaxEnabledPerUser = 0
  MaxTime = 2
  MaxGen = 3
  MaxTriggers = 1
  MaxFaults = 1
  MaxCrashes = 0
  NoToken = NoToken
  NoRun = NoRun
SYMMETRY Symmetry
INVARIANTS
  PendingIsDurable
  StaleRunsAreCancelled
  AdmissionIsLawful
PROPERTIES TokenConsumedIntoRecord
