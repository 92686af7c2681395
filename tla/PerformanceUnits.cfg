CONSTANTS
  Units = {"l0", "interrupt", "governor", "compressor", "tage", "fusion"}
  MaxUnits = 2
  Lines = 2
  LineSize = 2
  Tags = {t1, t2}
  Values = {1}
  Sizes = {1, 2}
  MaxAccesses = 2
  MaxInits = 1
  NULL = NULL
  Vectors = {v1, v2}
  PostedVector = v2
  Slots = 3
  Window = 2
  FastLimit = 1
  MaxTime = 3
  MaxTotal = 4
  MaxIdle = 1
  ThreadCounts = {2, 3}
  Peaks = {0, 2}
  DefaultPeak = 1
  DefaultThreads = 84
  Counts = {0, 2, 5}
  MaxTransactions = 30
  MaxPrefetches = 1
  LinkLine = 64
  TargetRatios = {5, 22, 40}
  PhysicalBw = 64
  Transfers = {63, 64}
  MaxBytes = 127
  Tables = 2
  Entries = 2
  TagBits = 5
  BtbEntries = 2
  MaxUseful = 3
  Rips = {0, 1, 32}
  Targets = {2, 40}
  Kernels <- MCKernels
  MaxUpdates = 4
  v1 = base
  v71 = v71
  Version = {base, v71}
  Base = base
  V71 = v71
  MaxPairs <- MCMaxPairs
  BufferSize <- MCBufferSize
  Pairs <- MCPairs
  Regions <- MCRegions
  MaxAttempts = 3
  MaxExecutions = 1
SPECIFICATION Spec
INVARIANTS TypeOK L0KeepsApart InterruptsAccounted GovernorLevels CompressorReports BranchesLearned FusionFound
PROPERTIES NothingLost
CHECK_DEADLOCK FALSE
