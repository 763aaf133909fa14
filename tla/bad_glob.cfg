SPECIFICATION Spec
CONSTANTS
  Thread = {t1, t2}
  NoThread = NoThread
  Site <- Sites
  File <- GlobFile
  Flag <- GlobFlag
  SetPattern <- Patterns
  Level = {0, 1}
  MaxCalls = 5
INVARIANTS
  GlobHonoured
