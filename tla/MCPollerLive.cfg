SPECIFICATION LiveSpec
CONSTANTS
  acceptor = acceptor
  c1 = c1
  c2 = c2
  stop_pipe = stop_pipe
  Threads = {t1, t2}
  Handlers = {stop_pipe, c1}
  StopPipe = stop_pipe
  Reads <- ServerReads
  Writes <- ServerWrites
  Acceptors = {}
  ReadyAtStart <- MCReadyAtStart
  Arrives <- MCArrives
  MaxArrivals = 1
  MaxWakeups = 0
PROPERTIES
  Served
  ShutdownCompletes
CHECK_DEADLOCK FALSE
