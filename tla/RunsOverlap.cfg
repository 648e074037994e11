CONSTANTS
  a1 = a1
  a2 = a2
  s1 = s1
  s2 = s2
  w1 = w1
  Sessions = {s1, s2}
  Workspaces = {w1}
  NoWorkspace = NoWorkspace
  NoTask = NoTask
  Agents = {a1}
  session_of <- TwoSessions
  workspace_of <- Isolated
  GlobalSlots = 2
  SessionSlots = 2
  Cancellable = {}
  WaitKinds = {"waiting_input", "waiting_action"}
  RepositoryFaults = TRUE
  Tasks = {1, 2, 3}
  MaxTurns = 2
  MaxInvocations = 2
  MaxCrashes = 1
SPECIFICATION Spec
INVARIANTS
  OneDriverPerTurn
  EntriesMatchRuns
PROPERTIES
  ImplementsTurnHistory
CHECK_DEADLOCK FALSE
