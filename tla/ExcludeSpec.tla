----------------------------- MODULE ExcludeSpec -----------------------------
(***************************************************************************)
(* What exclude / unexclude promise (spec 4.E.4, scenario 3), without the *)
(* pending queue or the counter: a lock over group names.  A free lock    *)
(* may be taken by any name; only workers of the holding name are inside  *)
(* their critical section; a worker's attempt ends when it arrives at the *)
(* unexclude rendezvous, and only when every worker has arrived may the   *)
(* lock pass to another name, or be freed.                                *)
(***************************************************************************)
CONSTANTS Procs, Group, None

Names == {Group[p] : p \in Procs}

VARIABLES
  holder,    \* the name holding the lock, or None
  inside,    \* workers in their critical section
  arrived    \* workers that arrived at this round's rendezvous

vars == <<holder, inside, arrived>>

Init ==
  /\ holder = None
  /\ inside = {}
  /\ arrived = {}

\* A free lock is taken by a name.
Take(n) ==
  /\ holder = None
  /\ holder' = n
  /\ UNCHANGED <<inside, arrived>>

\* A worker of the holding name enters its critical section.
Enter(p) ==
  /\ holder = Group[p] /\ p \notin inside \cup arrived
  /\ inside' = inside \cup {p}
  /\ UNCHANGED <<holder, arrived>>

\* A worker leaves its critical section.
Leave(p) ==
  /\ p \in inside
  /\ inside' = inside \ {p}
  /\ UNCHANGED <<holder, arrived>>

(* A worker outside arrives at the rendezvous.  The last arrival ends the *)
(* round, and the lock passes to any name, or is freed.                  *)
Arrive(p) ==
  /\ p \notin inside \cup arrived
  /\ UNCHANGED inside
  /\ IF arrived \cup {p} = Procs
       THEN /\ arrived' = {}
            /\ holder' \in Names \cup {None}
       ELSE /\ arrived' = arrived \cup {p}
            /\ UNCHANGED holder

Next ==
  \/ \E n \in Names : Take(n)
  \/ \E p \in Procs : Enter(p) \/ Leave(p) \/ Arrive(p)

Spec == Init /\ [][Next]_vars

=============================================================================
