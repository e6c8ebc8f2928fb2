-------------------------- MODULE MCTrackerStart --------------------------
(* Model values and small worlds for TrackerStart.                        *)
EXTENDS TrackerStart

CONSTANTS p1, p2, p3, h1, h2

\* Three workers on two hosts, p1 and p2 sharing h1.
MCHostOf == [p \in Procs |-> IF p = p3 THEN h2 ELSE h1]
=============================================================================
