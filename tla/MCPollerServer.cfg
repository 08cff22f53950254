SPECIFICATION Spec
CONSTANTS
  acceptor = acceptor
  c1 = c1
  c2 = c2
  stop_pipe = stop_pipe
  Threads = {t1, t2}
  Handlers = {stop_pipe, acceptor, c1}
  StopPipe = stop_pipe
  Reads <- ServerReads
  Writes <- ServerWrites
  Acceptors = {acceptor}
  ReadyAtStart <- MCReadyAtStart
  Arrives <- MCArrives
  MaxArrivals = 2
  MaxWakeups = 0
SYMMETRY ThreadSymmetry
INVARIANTS
  OneOwner
  ArmedAsWanted
  NoFault
  LostForGood
CHECK_DEADLOCK FALSE
