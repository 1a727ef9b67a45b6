SPECIFICATION Spec
CONSTANTS
  Sessions = {b1, b2}
  None = None
  MaxFrames = 1
PROPERTY
  EndSparesSuccessor
CHECK_DEADLOCK FALSE
