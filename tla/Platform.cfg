CONSTANTS
  Parts = {"boot", "exits", "apic", "msr", "smm", "legacy"}
  NULL = NULL
  WIDE = WIDE
  HvBase = 100
  HvLast = 107
  ExtBase = 200
  HvLeaves = 9
  MaxOverrides = 32
  VcpuIds = {0, 1}
  MaxPages = 3
  ControlBits = {0, 1, 2}
  MustBeOne = {0}
  MayBeOne = {0, 1}
  Requested = {1, 2}
  ByteValues = 16
  Machines <- MCMachines
  PcdBemiBootMode = 1
  MaxBoots = 2
  MaxInits = 1
  W = 8
  Gprs = {0, 1, 2, 3, 8}
  Files <- MCFiles
  Leaves <- MCLeaves
  MaxLeaf = 5
  VmxBit = 2
  HvBit = 4
  Crs = {0, 3}
  Protected = {2}
  Lengths = {2}
  Window = 3
  Regs = 2
  RegBits = 2
  MinTimerVector = 1
  TimerVectors = {2}
  MaxCount = 2
  Rows <- MCRows
  Ranges <- MCRanges
  Others = {}
  Values = {0, 1}
  MaxShadowMsrs = 4
  TicksPerUs = 2
  BudgetUs = 1
  MaxTime = 7
  MaxSmis = 2
  Disks <- MCDisks
  MemoryMaps <- MCMemoryMaps
  Capacities = {1, 3}
SPECIFICATION Spec
INVARIANTS TypeOK BootStateSound HypervisorReady GuestProcessor TablesAgree  ApicSound ShadowRegisters SmmBudget ServicesSound
PROPERTIES  HighestFirst
CHECK_DEADLOCK FALSE
