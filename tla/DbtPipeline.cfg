CONSTANTS
  Width = 2
  SlotBytes = 1
  Registers = {"RAX", "RCX", "RSP"}
  NoneCode = 255
  NONE = NONE
  Instructions <- MCInstructions
  LateInstructions <- MCLate
  Starts <- MCStarts
  MaxOps = 3
  MaxInstructions = 4
SPECIFICATION Spec
INVARIANTS TypeOK OptimizedSame LostOnlyWhenFull MachineExact
CHECK_DEADLOCK FALSE
