SPECIFICATION PartsSpec
CONSTANTS
  MaxCommands = 2
  MaxInner = 2
  Item = {i1, i2}
  Request = {r1, r2}
  AutoId = auto
  NoItem = noItem
  MaxRuns = 1
  MaxAuto = 1
  MaxTimers = 1
  Dialog = {q1, q2, q3}
  Answer = {yes, no}
  Cancel = cancel
  Default = default
  MaxReceipts = 1
  Op = {o1, o2}
  None = none
  MaxRestarts = 1
  MaxDeaths = 1
  Session = {s1, s2, s3}
  Stored = {s1, s2}
  MaxWrappers = 2
  MaxChanges = 2
  Save = {e1, e2, m1}
  Change = {m1}
  Process = {p1, p2}
  Outside = outside
  NoSave = noSave
  MaxVersions = 3
  Conversation = {c1}
  NoName = noName
  MaxNames = 2
  MaxScans = 2
  Key = {k1, k2}
  Arguments = {x, y}
  MaxEntries = 1
  Ttl = 2
  MaxTime = 4
  MaxForks = 3
  MaxConnections = 2
  MaxEvents = 2
  Panel = {w1, w2}
  Debounced = {w2}
  MaxRetries = 1
  MaxWrites = 2
INVARIANTS
  StopIsHonoured
  AdmissionIsHeld
  RunIsShown
  QueueIsServed
  CompactionIsShown
  OnceOrExplained
  AcceptedIsReturned
  HelperHoldsLock
  OneRoute
  NoSaveLost
  OwnChangesStay
  ForkOnce
  ConnectionsAreOwned
  CacheServes
PROPERTIES
  VerdictStands
CHECK_DEADLOCK FALSE
