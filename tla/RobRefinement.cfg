CONSTANTS
  RobBanks = 2
  RobEntriesPerBank = 3
  MaxAllocations = 8
  MaxStalls = 1
  MaxCycles = 1
SPECIFICATION Spec
INVARIANTS TypeOK WindowInv HeadPending ProgramOrder RetireAccounting OccupancyReported
PROPERTIES StallsOnlyWhenFull ImplementsQueues
