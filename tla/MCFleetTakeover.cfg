SPECIFICATION Spec
CONSTANTS
  p = p
  v = v
  w = w
  Fleets = {f1, f2}
  Rounds = {r1, r2}
  Topologies <- MCDual
  Virtual = {v, w}
  None = None
  MaxClears = 1
INVARIANT
  VirtualDisplaysTakeOver
