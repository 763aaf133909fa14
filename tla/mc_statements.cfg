SPECIFICATION Spec
CONSTANTS
  Thread = {t1, t2}
  Severity = {0, 1, 2}
  FATAL = 2
  StderrThreshold = 1
  UnitTestFail = TRUE
  BufSize = 6
  Prefix = 2
  Notice = 3
  Length = {2, 3, 4, 5}
  Site <- Sites
  RAW_LOG = RAW_LOG
  MaxOps = 3
  NoOne = NoOne
INVARIANTS
  
  CountsRaw
  ReasonOfOne
  LogsTheRightOnes
  NeverFewer
SYMMETRY ThreadSymmetry
