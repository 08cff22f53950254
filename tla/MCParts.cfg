CONSTANTS
  USEC_MAX = 5
  Operands <- MCOperands
  Numbers <- MCNumbers
  TimeBound = 60
  INT32 = 6
  Adders = {a1, a2}
  Popper = popper
  Timer = timer
  max_size_ = 3
  Portion = 2
  MessageBound = 4
  CountBound = 5
  Senders = {s1, s2, s3}
  max_out_sockets_ = 3
  SendBound = 2
  FailureBound = 1
  BufferThreads = {t1, t2, t3}
  Addresses = {x1, x2}
  PollerNumber = 2
  AdderThreads = {d1, d2}
  HandlerBound = 4
  Users = {u1, u2, u3}
  Owner = owner
  LogThreads = {g1, g2}
  Loggers = {l1, l2}
  Levels = {1, 2}
  NoLogger = NoLogger
  N = 3
  Objects = {o1}
  StaticBuffers = {b1, b2}
  HeapBuffers = {h1}
  NoBuffer = NoBuffer
  Chars = {1, 2}
  FirstSize = 2
  SIZE = 4
  TextLimit = 5
  Memories <- MCMemories
  SIZES = 16
  Starts <- MCStarts
  Stops = {1500, 11400, 24820}
  TimesOfDay = {0, 3661, 86399}
  Formats <- MCFormats
  Overflows = {0, 1, 31}
  Alphabets <- MCAlphabets
  TextBound <- MCTextBound
SPECIFICATION PartsSpec
INVARIANTS
  ReadsAsNumber CalendarRight SubStringRight TextRight TextKept StreamIsFile BuffersKept
  MessagesAccounted PoolRight HoldersAccounted RegistryRight NoneReachesGone LogRight
PROPERTIES
  FreeIsFreed
CHECK_DEADLOCK FALSE
