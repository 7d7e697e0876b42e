SPECIFICATION Spec
CONSTANTS
  Option <- UsualOnly
  MaxOut = 1
  MayKill = FALSE
CHECK_DEADLOCK FALSE
INVARIANTS OutputComplete
