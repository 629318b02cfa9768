SPECIFICATION FairSpec
CONSTANTS
  MaxEvents = 2
  MaxSid = 2
  MaxRuntimes = 2
  MaxPending = 1
  MaxSeq = 2
  MaxFaults = 1
  MaxForced = 1
  Emitted = {}
PROPERTIES
  CatchesUp
CHECK_DEADLOCK FALSE
