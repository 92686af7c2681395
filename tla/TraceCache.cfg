CONSTANTS
  r1 = r1
  r2 = r2
  x1 = x1
  x2 = x2
  CPUs = {c1, c2}
  Rips = {r1, r2}
  Contexts = {x1, x2}
  Buckets = 2
  Hash <- MCHash
  MaxEntries = 2
  SafeSlots = 4
  FirstDepth = 2
  V71Depth = 3
  V72Depth = 4
  KernelBlocks <- MCKernelBlocks
  MaxLru = 5
  PinModulus = 4
  LruModulus = 4
  NONE = NONE
SYMMETRY CPUSymmetry
SPECIFICATION Spec
INVARIANTS TypeOK UniqueTranslation CountCoversValid
PROPERTIES EvictionByPins RecentSurvives
CHECK_DEADLOCK FALSE
