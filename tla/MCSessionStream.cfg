SPECIFICATION Spec
CONSTANTS
  MaxEvents = 2
  MaxSid = 2
  MaxRuntimes = 2
  MaxPending = 1
  MaxSeq = 2
  MaxFaults = 1
  MaxForced = 1
  Emitted = {"update"}
INVARIANTS
  QuietMeansCurrent
  DeltasDecode
PROPERTIES
  FeedSpec
CHECK_DEADLOCK FALSE
