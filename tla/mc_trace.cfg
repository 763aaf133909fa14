SPECIFICATION FairSpec
CONSTANTS
  Maps <- AllMaps
  File <- Files
  Entry = 2
  HeadersInBuf = 3
  SymbolsInBuf = 2
  LineBuf = 4
  DemangledBuf = 8
  Callback = 1
  MaxErrors = 1
  NoFile = NoFile
  Unknown = Unknown
  Stacks <- AllStacks
  MaxDepth = 3
  SkipCount = 1
  Word = 2
  MaxFrame = 2
  Room = 5
INVARIANTS
  NamesTheCaller
  CallersInOrder
  LinesInOrder
  AbortsForAReason
PROPERTIES
  TraceEnds
