\* Two running workers, p3 joins with restart (n_new_worker = 1); every
\* worker sends two commands.  The join can stall the world for good
\* (run start_elastic_stall), so deadlock is not checked here.
CONSTANTS
  p1 = p1  p2 = p2  p3 = p3  h1 = h1  h2 = h2
  Procs = {p1, p2, p3}
  Joiners = {p3}
  Hosts = {h1, h2}
  HostOf <- MCHostOf
  NInit = 2
  MaxStarts = 2
  HasInvertDict = TRUE
SPECIFICATION Spec
INVARIANTS RanksDistinct
CHECK_DEADLOCK FALSE
