SPECIFICATION BudgetSpec
CONSTANTS
  d2 = d2
  d1 = d1
  g1 = g1
  MaxSubmitted = 3
  MaxCreated = 4
  MaxRuns = 2
  MaxLimit = 2
  InitialLimit = 1
  Groups = {g1}
  NoGroup = NoGroup
  GroupChoices = {g1}
  InitialCap = 1
  MaxCap = 2
  TurnCosts = {1}
  MaxCost = 2
  Dialogs = {}
  TimeoutChoices = {FALSE}
  WaitChoices = {FALSE}
  MaxCancels = 0
  MaxRejected = 0
  MaxRestarts = 0
INVARIANTS
  BudgetIsShared
PROPERTIES
  DrainIsTheLoop
CHECK_DEADLOCK FALSE
