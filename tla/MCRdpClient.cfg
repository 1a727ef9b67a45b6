SPECIFICATION Spec
CONSTANTS
  Sessions = {b1, b2}
  None = None
  MaxFrames = 1
INVARIANTS
  TypeOK
  ShownIsBacked
PROPERTY
  ThreadsSettle
CHECK_DEADLOCK FALSE
