SPECIFICATION FairSpec
CONSTANTS
  Procs = {p, q}
  MaxClients = 2
  MaxOps = 3
  MaxChanges = 2
  MaxFaults = 1
INVARIANTS
  ListedIsRunning
  AnswerMatches
PROPERTIES
  RefreshAbsorbsNothing
  OperationsReturn
CHECK_DEADLOCK FALSE
