SPECIFICATION Spec
CONSTANTS
  s1 = s1
  s2 = s2
  d1 = d1
  d2 = d2
  Null = Null
  Period = 2
  Grace = 1
  MaxTimer = 3
  Schedules = {s1}
  MaxRuns = 2
  Dialogs = {d1, d2}
  MaxTime = 4
  MaxManual = 1
  MaxCreated = 4
  MaxEdits = 1
  MaxRestarts = 1
INVARIANTS
  OneActiveRecord
  ActiveRecordIsLive
  OccurrenceOnce
  TimerCoversStore
PROPERTIES
  FinishedForGood
  MissedAreSkipped
CHECK_DEADLOCK FALSE
