SPECIFICATION FairCasesSpec
CONSTANTS
  Worker = w
  Requests = {r1}
  RequestKeys = {0}
  Inputs = {"schedule", "other"}
  Revisions = {1, 2}
  Reviewed = {2}
  MaxTime = 1
  MaxCrashes = 1
INVARIANTS
  EventRunsOnce
  OrderStands

  
CHECK_DEADLOCK FALSE
