SPECIFICATION Spec
CONSTANTS
  number_of_jobs_ = 2
  FirstMayFail = TRUE
  MaxStarts = 2
INVARIANTS
  FailedStartRunsNothing
CHECK_DEADLOCK FALSE
