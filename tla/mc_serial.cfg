SPECIFICATION Spec
CONSTANTS
  Thread = {t1, t2}
  s1 = s1
  Sink = {s1}
  FATAL = 1
  LogBufLevel = 0
  StderrThreshold = 1
  MayFail = {1}
  Call <- SerialCalls
  MaxOps = 2
  MaxFlush = 2
  SinkOps <- OneSink
  MinLogLevel = 0
  LogToStderr = FALSE
  UnitTestFail = FALSE
  StartsInitialized = FALSE
  NoThread = NoThread
  NoTarget = NoTarget
  Out = Out
  Exclusive = Exclusive
  Shared = Shared
INVARIANTS
  FirstFatalPreserved
  FatalIsOnDisk
  WaitsUnlocked
PROPERTIES
  DeliversSerially
