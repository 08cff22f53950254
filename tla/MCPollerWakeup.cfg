SPECIFICATION Spec
CONSTANTS
  acceptor = acceptor
  c1 = c1
  c2 = c2
  stop_pipe = stop_pipe
  Threads = {t1, t2}
  Handlers = {stop_pipe, acceptor, c1}
  StopPipe = stop_pipe
  Reads <- BriefReads
  Writes <- BriefWrites
  Acceptors = {acceptor}
  ReadyAtStart <- MCReadyAtStart
  Arrives <- MCArrives
  MaxArrivals = 1
  MaxWakeups = 1
SYMMETRY ThreadSymmetry
INVARIANTS
  NoEventSwallowed
PROPERTIES
  CallsGuarded
CHECK_DEADLOCK FALSE
