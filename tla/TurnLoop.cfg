SPECIFICATION FairSpec
CONSTANTS
  Calls <- MCCalls
  Tool <- MCTools
  Messages = {m1}
  Steers = {s1}
  MAX_ROLLOUT_MODEL_ROUNDS = 2
  MAX_FINALIZATION_GUARD_ACTIVATIONS = 1
  MAX_PARALLEL_TOOL_CALLS = 3
  MaxIssued = 2
  MaxCrashes = 1
INVARIANTS
  LedgerComplete
  EffectOnce
  NoUnapprovedEffect
PROPERTIES
  TurnReturns
CHECK_DEADLOCK FALSE
