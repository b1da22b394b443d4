SPECIFICATION IrqSpec
CONSTANTS
  N = 2
  W = 2
  Unhandled = {1}
INVARIANT HookedWhileRunning
CHECK_DEADLOCK FALSE
