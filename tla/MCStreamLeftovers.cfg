SPECIFICATION Spec
CONSTANTS
  Conns = {c1, c2}
  None = None
  Window = 1
  MaxUnsent = 2
  MaxTeardowns = 2
  MaxLate = 1
  MaxMain = 2
PROPERTY
  LeftoversSpareNewClient
