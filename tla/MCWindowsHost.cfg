SPECIFICATION Spec
CONSTANTS
  Clients = {c1, c2}
  Captures = {k1}
  Encoders = {e1}
  None = None
INVARIANTS
  TypeOK
  OnlyCurrentClientOpen
PROPERTIES
  EndsForCause
  ClientsTurnOver
CHECK_DEADLOCK FALSE
