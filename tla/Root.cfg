CONSTANTS
  Procs = {p, q}
  NoProc = NoProc
  Outcomes = {"completed", "cancelled", "waiting_input"}
  MaxTurns = 2
  MaxInvocations = 2
  MaxCrashes = 1
SPECIFICATION FairSpec
INVARIANTS
  OneDriverPerTurn
PROPERTIES
  ImplementsTurnHistory
  ThreadFreed
  ProjectionRepaired
CHECK_DEADLOCK FALSE
