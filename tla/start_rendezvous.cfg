\* Fixed world of two workers, each sending start three times.
CONSTANTS
  p1 = p1  p2 = p2  p3 = p3  h1 = h1  h2 = h2
  Procs = {p1, p2}
  Joiners = {}
  Hosts = {h1, h2}
  HostOf <- MCHostOf
  NInit = 2
  MaxStarts = 3
  HasInvertDict = TRUE
SPECIFICATION Spec
INVARIANT StartRendezvous
