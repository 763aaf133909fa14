SPECIFICATION FairSpec
CONSTANTS
  Thread = {t1, t2}
  s1 = s1
  Sink = {s1}
  FATAL = 1
  LogBufLevel = 0
  StderrThreshold = 1
  MayFail = {}
  Call <- FatalCalls
  MaxOps = 2
  MaxFlush = 1
  SinkOps <- OneSink
  MinLogLevel = 0
  LogToStderr = TRUE
  UnitTestFail = TRUE
  StartsInitialized = TRUE
  NoThread = NoThread
  NoTarget = NoTarget
  Out = Out
  Exclusive = Exclusive
  Shared = Shared
INVARIANTS
  MutualExclusion
PROPERTIES
  MessageEnds
