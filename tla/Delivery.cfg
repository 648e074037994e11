SPECIFICATION FairSpec
CONSTANTS
  Worker = w
  Requests = {r1, r2}
  MaxAttempts = 3
  MaxCrashes = 2
INVARIANTS
  DeliveredWithConsent
PROPERTIES
  SettledStays
  PendingSettles
CHECK_DEADLOCK FALSE
