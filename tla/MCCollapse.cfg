SPECIFICATION Spec
CONSTANTS
  Physical = {p1, p2}
  VirtualIDs = {v1, v2}
  Gens = {c1, c2}
  None = None
  MaxCreateAttempts <- MCMaxCreateAttempts
  MaxMirrorAttempts <- MCMaxMirrorAttempts
  MaxTerminations <- MCMaxTerminations
  MaxPasses <- MCMaxPasses
INVARIANTS
  TypeOK
  CollapsingHasWork
  AssertionsOnlyWhileCollapsed
  DisplayAFollowsState
  IdleUnmirrored
  WindowsComeHome
PROPERTIES
  RefinesLifecycle
