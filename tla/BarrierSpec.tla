---------------------------- MODULE BarrierSpec ----------------------------
(***************************************************************************)
(* What `barrier(name)` promises (spec 4.E.3, 5): an N-party barrier per   *)
(* name.  inside[n] is the set of workers that have arrived at barrier n   *)
(* and not yet been released; the N-th distinct worker to arrive releases *)
(* all of them at once, and nobody can arrive twice in one epoch.          *)
(***************************************************************************)
EXTENDS Integers, FiniteSets

CONSTANTS Procs, Names, N

VARIABLE inside

Init == inside = [n \in Names |-> {}]

Arrive(p, n) ==
  /\ p \notin inside[n]
  /\ inside' = [inside EXCEPT ![n] = IF Cardinality(@) + 1 = N
                                     THEN {} ELSE @ \cup {p}]

Next == \E p \in Procs, n \in Names : Arrive(p, n)

Spec == Init /\ [][Next]_inside

=============================================================================
