SPECIFICATION IrqSpec
CONSTANTS
  N = 2
  W = 4
  Unhandled = {1}
INVARIANTS
  IrqTypeOK
  ChainsToOriginal
  CountExact
  HandlersRestored
PROPERTIES
  
  SampleWithinCarry
CHECK_DEADLOCK FALSE
