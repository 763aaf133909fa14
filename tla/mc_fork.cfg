SPECIFICATION Spec
CONSTANTS
  Process = {p1, p2}
  Parent = p1
  Object = {o1, o2}
  Dirs <- OneDir
  Basename <- NoNames
  Extension <- NoNames
  NoName = NoName
  Frequency = 3
  MaxLength = 6
  LengthModulus = 32
  HeaderLen = 3
  FlushBytes = 4
  LogBufSecs = 1
  StopIfFull = TRUE
  StdioBuffer = 3
  MessageLen = {1}
  MaxMessages = 3
  MaxTime = 2
  MaxEvents = 2
INVARIANTS
  BufferSpan
PROPERTIES
  ForkNoticed
  FatalReachesDisk
SYMMETRY ObjectSymmetry
