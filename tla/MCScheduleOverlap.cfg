SPECIFICATION Spec
CONSTANTS
  s1 = s1
  s2 = s2
  d1 = d1
  d2 = d2
  Null = Null
  Period = 2
  Grace = 1
  MaxTimer = 3
  Schedules = {s1}
  MaxRuns = 2
  Dialogs = {}
  MaxTime = 6
  MaxManual = 1
  MaxCreated = 4
  MaxEdits = 0
  MaxRestarts = 0
INVARIANTS
  NoOverlap
CHECK_DEADLOCK FALSE
