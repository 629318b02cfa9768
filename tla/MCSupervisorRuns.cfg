SPECIFICATION FairSpec
CONSTANTS
  g1 = g1
  d1 = d1
  d2 = d2
  MaxCreated = 2
  MaxRuns = 2
  MaxLimit = 1
  InitialLimit = 1
  Groups = {}
  NoGroup = NoGroup
  GroupChoices = {NoGroup}
  InitialCap = 1
  MaxCap = 1
  TurnCosts = {0}
  MaxCost = 0
  Dialogs = {d1, d2}
  TimeoutChoices = {FALSE, TRUE}
  WaitChoices = {TRUE}
  MaxCancels = 2
  MaxRejected = 1
  MaxRestarts = 1
INVARIANTS
  ActiveStatusTracked
  FinishedLetsGo
  DialogStatus
  TimersTracked
PROPERTIES
  TerminalForGood
  QueuedRunLeaves
  SlotIsFreed
CHECK_DEADLOCK FALSE
