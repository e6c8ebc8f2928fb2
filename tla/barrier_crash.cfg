\* Two workers, one of which may die once and be relaunched.
CONSTANTS
  p1 = p1  p2 = p2  p3 = p3  g = g  h = h
  Procs = {p1, p2}
  Names = {g, h}
  NWorker = 2
  Prog <- MCProg
  MaxCrashes = 1
SPECIFICATION SpecCrash
INVARIANT BarrierSafe
