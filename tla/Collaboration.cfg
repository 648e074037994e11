CONSTANTS
  Agents = {r, a, b, c}
  Root = r
  NoAgent = NoAgent
  TaskNames = {x}
  SpawnPolicies <- MCPolicies
  MaxAgents = 3
  SessionMaxDepth = 3
  CallIds = {k}
  MailLimit = 1
  RecordedStatuses = {"completed", "waiting_input"}
  MaxTurns = 2
  MaxInvocations = 2
  MaxMail = 2
SPECIFICATION Spec
SYMMETRY AgentSymmetry
INVARIANTS
  CompletionDurable
  NoDuplicateMessage
  DeliveredInOrder
  SpawnsWithinAuthority
PROPERTIES
  ImplementsTurnHistory
  MailNeverRewritten
