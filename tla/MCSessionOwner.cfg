SPECIFICATION Spec
CONSTANTS
  Session = {s1, s2}
  Stored = {s1, s2}
  None = none
  MaxWrappers = 2
  MaxChanges = 1
INVARIANTS
  OneRuntimePerSession
CHECK_DEADLOCK FALSE
