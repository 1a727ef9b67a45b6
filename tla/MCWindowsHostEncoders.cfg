SPECIFICATION Spec
CONSTANTS
  Clients = {c1, c2}
  Captures = {k1}
  Encoders = {e1, e2}
  None = None
INVARIANTS
  TypeOK
  OnlyCurrentClientOpen
PROPERTY
  EndsForCause
CHECK_DEADLOCK FALSE
