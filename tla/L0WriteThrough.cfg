CONSTANTS
  MaxUnits = 1
  Lines = 2
  LineSize = 2
  Tags = {t1, t2}
  Values = {1}
  Sizes = {1, 2}
  MaxAccesses = 4
  MaxInits = 1
  NULL = NULL
SPECIFICATION Spec
INVARIANT HitReturnsLastWrite
CHECK_DEADLOCK FALSE
