SPECIFICATION Spec
CONSTANTS
  Thread = {t1, t2}
  s1 = s1
  Sink = {s1}
  FATAL = 3
  LogBufLevel = 0
  StderrThreshold = 2
  MayFail = {}
  Call <- OrdinaryCalls
  MaxOps = 2
  MaxFlush = 2
  SinkOps <- OneSink
  MinLogLevel = 1
  LogToStderr = FALSE
  UnitTestFail = FALSE
  StartsInitialized = TRUE
  NoThread = NoThread
  NoTarget = NoTarget
  Out = Out
  Exclusive = Exclusive
  Shared = Shared
SYMMETRY ThreadSymmetry
INVARIANTS
  TypeOK
  FilesAgree
  TextIntact
  WaitedUnlessRemoved
  CountsMessages
PROPERTIES
  SinksStable
