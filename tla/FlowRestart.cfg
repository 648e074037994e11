SPECIFICATION Spec
CONSTANTS
  Nodes <- MCNodes
  Kind <- MCKind
  ParallelSafe = {2, 4}
  EntryNodes = {1, 3}
  Edges <- MCEdges
  ErrorRoute <- MCErrorRoute
  MaxNodeExecutions = 4
  ReviewRequired = TRUE
  MaxInterrupts = 1
  Drivers = {d1, d2}
INVARIANT
  RestartSucceeds
CHECK_DEADLOCK FALSE
