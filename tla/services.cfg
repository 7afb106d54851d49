\* A service with nothing more to do is at rest.
SPECIFICATION Spec
CONSTANTS
  Nobody = Nobody
  NoBlob = NoBlob
  Runs = {r1}
  Logins = {l1}
  Values = {a, b}
  Calls = {c1, c2}
  Secrets = {s1}
  Sessions = {o1, o2}
  Pulls = {p1, p2}
  MaxWrites = 2
  MaxEra = 1
  MaxCrashes = 1
  Policies <- SmallPolicies
  Quota = 0
  MaxEdits = 2
  MaxFaults = 1
  MaxGen = 3
  MaxLost = 1
  Speaks = {"k1", "k2"}
  MaxModes = 2
  List <- SmallList
  Archived = {"lib"}
  ByPath = {"lib", "enc"}
  Attempts = 2
  Ids = {1, 2, 3, 4}
\* The durations of the code, to scale: 22, 22, 8 and 15 windows where it has 4, 4, 3 and 3.
  MinSpeech = 3
  MaxDuration = 9
  DefaultSilence = 4
  MaxSilence = 5
  DefaultPadding = 1
  MaxPadding = 2
  BaseSilence = 3
  MaxWait = 5
  BargeInConfirm = 4
  LoginRequests = {"q1", "q2"}
  Tickets = {"k1", "k2"}
  Passwords = {"first", "other"}
  Bootstrap = "first"
  MaxChanges = 2
  WrittenDefinitions <- SmallDefinitions
  Configs <- SmallConfigs
  WrittenTriggers <- SmallTriggers
  Ranges <- SmallRanges
  Calendar <- SmallCalendar
\* Half minutes, intervals of a minute and more, a horizon of 7 minutes and 3 missed fires.
  Minute = 2
  MinInterval = 2
  Horizon = 7
  Backlog = 3
  MaxNow = 22
INVARIANTS
  RevokedRunsAreCancelled
  NoResurrection
  RowMatchesBlob
  
  RunsAsPermitted
  NothingQuoted
  NothingOrphaned
  SegmentsHonest
  SpeechInOrder
  PinnedBytesOnly
  ReferencesResolve
  TurnsAreKept
  OldSessionsDie
  GatesAgree
  SlotIsNext
PROPERTY CallIsKept
SYMMETRY Symmetry
CHECK_DEADLOCK FALSE
