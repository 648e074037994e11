CONSTANTS
  a1 = a1
  a2 = a2
  s1 = s1
  s2 = s2
  w1 = w1
  Sessions = {s1, s2}
  Workspaces = {w1}
  NoWorkspace = NoWorkspace
  NoTask = NoTask
  Agents = {a1, a2}
  session_of <- TwoSessions
  workspace_of <- Shared
  GlobalSlots = 2
  SessionSlots = 1
  Cancellable = {a1, a2}
  WaitKinds = {}
  RepositoryFaults = FALSE
  Tasks = {1, 2}
  MaxTurns = 1
  MaxInvocations = 2
  MaxCrashes = 1
SPECIFICATION FairSpec
INVARIANTS AdmissionWithinLimits QueuedHasOneStart
PROPERTIES QueuedTurnLeaves
CHECK_DEADLOCK FALSE
