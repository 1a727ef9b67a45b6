SPECIFICATION Spec
CONSTANTS
  p = p
  v = v
  w = w
  Fleets = {f1, f2}
  Rounds = {r1, r2}
  Topologies <- MCTopologies
  Virtual = {v}
  None = None
  MaxClears = 1
INVARIANT
  PortsAreReleased
