SPECIFICATION Spec
CONSTANTS
  ResponseSize = 3
  MSG_MAXIOVLEN = 2
  READ_BLOCK_SIZE_ = 2
  SHRINK_READ_SIZE_ = 1
  SendSpace = 4
  MayReset = FALSE
  MaxInput = 2
INVARIANTS
  ResponsesInOrder
CHECK_DEADLOCK FALSE
