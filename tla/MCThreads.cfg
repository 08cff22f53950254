SPECIFICATION ThreadsSpec
CONSTANTS
  Threads = {t1, t2, t3}
  InitialCount = 1
  MaxCount = 2
  number_of_jobs_ = 3
  FirstMayFail = FALSE
  MaxStarts = 2
  Callers = {a, b, c}
  threads_number = 2
  WaitBesideActivate = FALSE
  MaxActivations = 3
INVARIANTS
  MutualExclusion WakeupsKept FailedStartRunsNothing StartedThreadsRun WorksWhileActive
PROPERTIES
  Implements ImplementsActiveObject WaitsEnd
CHECK_DEADLOCK FALSE
