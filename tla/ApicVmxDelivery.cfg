CONSTANTS
  Regs = 2
  RegBits = 2
  MinTimerVector = 1
  TimerVectors = {2}
  MaxCount = 2
  NONE = NONE
SPECIFICATION Spec
PROPERTY DeliveredIfInterruptible
