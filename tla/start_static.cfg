\* Fixed world of three workers, each sending start twice.
CONSTANTS
  p1 = p1  p2 = p2  p3 = p3  h1 = h1  h2 = h2
  Procs = {p1, p2, p3}
  Joiners = {}
  Hosts = {h1, h2}
  HostOf <- MCHostOf
  NInit = 3
  MaxStarts = 2
  HasInvertDict = TRUE
SPECIFICATION Spec
INVARIANTS TypeOK StartReplyComplete RanksDistinct RanksExact
