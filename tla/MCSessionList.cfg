SPECIFICATION Spec
CONSTANTS
  Session = {c1}
  NoName = noName
  MaxNames = 1
  MaxScans = 2
INVARIANTS
  CommittedRenameShown
CHECK_DEADLOCK FALSE
