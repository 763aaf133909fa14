SPECIFICATION Spec
CONSTANTS
  Thread = {t1, t2}
  NoThread = NoThread
  Site <- Sites
  File <- Files
  Flag <- Flags
  SetPattern <- Patterns
  Level = {0, 1}
  MaxCalls = 5
INVARIANTS
  FlagApplies
PROPERTIES
  SilentForAReason
  ExactPatternReaches
SYMMETRY ThreadSymmetry
