CONSTANTS
  MainEntries = 2
  ExtBanks = 1
  ExtEntries = 2
  MaxAllocations = 4
  MaxRetirements = 2
  MaxStalls = 0
  MaxInits = 1
  NULL = NULL
SPECIFICATION Spec
INVARIANT MetadataPerActiveEntry
CHECK_DEADLOCK FALSE
