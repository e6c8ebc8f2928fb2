\* Three workers run the program without dying.
CONSTANTS
  p1 = p1  p2 = p2  p3 = p3  g = g  h = h
  Procs = {p1, p2, p3}
  Names = {g, h}
  NWorker = 3
  Prog <- MCProg
  MaxCrashes = 0
SPECIFICATION Spec
INVARIANTS TypeOK BarrierSafe CounterCountsWaiters
PROPERTIES BarrierRefinement BarrierCompletes
