CONSTANTS
  p1 = p1
  p2 = p2
  Procs = {p1, p2}
  Breakers = {p1, p2}
  MaxFaults = 0
  MaxCrashes = 0
  Modes = {"Lock"}
SPECIFICATION Spec
INVARIANT UnlockMovesOwn
