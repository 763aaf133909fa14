SPECIFICATION WaitingSpec
CONSTANTS
  client = client
  writer = writer
  Thread = {client, writer, t3}
  sink = sink
  s2 = s2
  Sink = {sink, s2}
  Messages = 2
  OtherOps = 1
  FATAL = 1
  LogBufLevel = 0
  StderrThreshold = 1
  MayFail = {}
  Call <- WaitingCalls
  MaxOps = 4
  MaxFlush = 1
  SinkOps <- OtherSink
  MinLogLevel = 0
  LogToStderr = TRUE
  UnitTestFail = FALSE
  StartsInitialized = TRUE
  NoThread = NoThread
  NoTarget = NoTarget
  Out = Out
  Exclusive = Exclusive
  Shared = Shared
INVARIANTS
  NothingLeft
  DestroyedUnused
PROPERTIES
  TestEnds
