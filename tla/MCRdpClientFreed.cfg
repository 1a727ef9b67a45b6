SPECIFICATION Spec
CONSTANTS
  Sessions = {b1, b2}
  None = None
  MaxFrames = 1
INVARIANT
  ContextOutlivesCalls
CHECK_DEADLOCK FALSE
