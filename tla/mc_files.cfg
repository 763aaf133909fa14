SPECIFICATION Spec
CONSTANTS
  Process = {p1}
  Parent = p1
  Object = {o1}
  Dirs <- TwoDirs
  Basename = {NoName, b1}
  Extension = {NoName, e1}
  NoName = NoName
  Frequency = 3
  MaxLength = 3
  LengthModulus = 16
  HeaderLen = 1
  FlushBytes = 5
  LogBufSecs = 2
  StopIfFull = FALSE
  StdioBuffer = 3
  MessageLen = {1, 3}
  MaxMessages = 4
  MaxTime = 2
  MaxEvents = 2
INVARIANTS
  InOrder
  NothingLost
  SizeBound
  RetryBound
