SPECIFICATION FairSpec
CONSTANTS
  Callers = {c1, c2, c3}
  Bundles = {b1, b2}
  Timers = {k1, k2}
  IdleTTL = 1
  MaxFailures = 1
  MaxCancels = 1
  NoBundle = NoBundle
  NoTimer = NoTimer
INVARIANTS
  NothingLeaked
PROPERTIES
  ImplementsLease
  AcquireReturns
  CloseFreesAll
