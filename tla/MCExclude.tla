----------------------------- MODULE MCExclude -----------------------------
EXTENDS Exclude, TLC

CONSTANTS p1, p2, p3, p4, a, b, c

\* Two groups: a with two workers, b with one.
MCGroup == [p \in Procs |-> IF p = p3 THEN b ELSE a]

\* Spec scenario 3: groups a and b of two workers each.
MCGroup4 == [p \in Procs |-> IF p \in {p1, p2} THEN a ELSE b]

\* Three groups of one worker each.
MCGroup3 == (p1 :> a) @@ (p2 :> b) @@ (p3 :> c)

=============================================================================
