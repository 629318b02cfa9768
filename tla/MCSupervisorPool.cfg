SPECIFICATION Spec
CONSTANTS
  d2 = d2
  d1 = d1
  g1 = g1
  MaxCreated = 3
  MaxRuns = 2
  MaxLimit = 2
  InitialLimit = 1
  Groups = {}
  NoGroup = NoGroup
  GroupChoices = {NoGroup}
  InitialCap = 1
  MaxCap = 1
  TurnCosts = {0}
  MaxCost = 0
  Dialogs = {}
  TimeoutChoices = {FALSE}
  WaitChoices = {FALSE}
  MaxCancels = 1
  MaxRejected = 0
  MaxRestarts = 0
INVARIANTS
  WorkConserving
PROPERTIES
  StartsInOrderWithinLimit
  PoolSpec
CHECK_DEADLOCK FALSE
