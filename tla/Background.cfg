SPECIFICATION FairJobsSpec
CONSTANTS
  Jobs = {j}
  max_jobs_per_agent = 1
  max_buffered_bytes = 2
  MaxOutput = 3
  MaxReads = 2
  MaxRounds = 2
  MaxStoreFaults = 1
INVARIANTS
  OutputToldOnce
  
PROPERTIES
  JobsSettle
CHECK_DEADLOCK FALSE
