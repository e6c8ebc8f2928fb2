\* One worker with two blobs that may die once and be relaunched, sending
\* up to three commands over its incarnations.  A worker waiting for a
\* reply that never comes is a deadlock of the client, so deadlock is not
\* checked.
CONSTANTS
  w1 = w1  b1 = b1  b2 = b2  nb = nb
  Procs = {w1}
  Blobs = {b1, b2}
  NoBlob = nb
  MaxCmds = 3
  MaxCrashes = 1
SPECIFICATION Spec
INVARIANT CheckpointRoundTrip
CHECK_DEADLOCK FALSE
