CONSTANTS
  MainEntries = 3
  ExtBanks = 2
  ExtEntries = 2
  MaxAllocations = 9
  MaxRetirements = 6
  MaxStalls = 1
  MaxInits = 2
  NULL = NULL
SPECIFICATION Spec
INVARIANTS TypeOK RingsConsistent UnspilledMetadata
CHECK_DEADLOCK FALSE
