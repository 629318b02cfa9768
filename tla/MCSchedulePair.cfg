SPECIFICATION FairSpec
CONSTANTS
  s1 = s1
  s2 = s2
  d1 = d1
  d2 = d2
  Null = Null
  Period = 2
  Grace = 0
  MaxTimer = 3
  Schedules = {s1, s2}
  MaxRuns = 1
  Dialogs = {}
  MaxTime = 3
  MaxManual = 0
  MaxCreated = 2
  MaxEdits = 0
  MaxRestarts = 1
INVARIANTS
  LastStatusHonest
PROPERTIES
  DueIsHandled
  RunEnds
CHECK_DEADLOCK FALSE
