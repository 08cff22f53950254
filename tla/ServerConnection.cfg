SPECIFICATION LiveSpec
CONSTANTS
  ResponseSize = 3
  MSG_MAXIOVLEN = 2
  READ_BLOCK_SIZE_ = 2
  SHRINK_READ_SIZE_ = 1
  SendSpace = 4
  MayReset = TRUE
  MaxInput = 5
INVARIANTS
  LineAnswered
  QueueConsistent
  InOrderUnlessCutTwice
  OutputArmed
  RemovedWhenSent
PROPERTIES
  ResponsesSent
CHECK_DEADLOCK FALSE
