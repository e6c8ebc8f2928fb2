\* One worker that may die once and be relaunched, sending up to two
\* commands.  A worker that waits for a reply forever is the client's
\* business, so deadlock is not checked.
CONSTANTS
  w1 = w1  b1 = b1  b2 = b2  nb = nb
  Procs = {w1}
  Blobs = {b1}
  NoBlob = nb
  MaxCmds = 2
  MaxCrashes = 1
SPECIFICATION Spec
PROPERTY HandlerEndsOnClose
CHECK_DEADLOCK FALSE
