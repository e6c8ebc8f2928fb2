------------------------------ MODULE Exclude ------------------------------
(***************************************************************************)
(* `exclude` / `unexclude` of the thread-based tracker                     *)
(* (src/tracker/tracker.py, handle_exclude, handle_unexclude): a lock over *)
(* named groups.  One name, last_comm, holds it; workers of that name go  *)
(* into their critical section, the others are told exclude_undone and   *)
(* queued in pending_comms.  unexclude is an nworker-party rendezvous on  *)
(* comm_cond whose last arrival hands the lock to a pending name.         *)
(*                                                                         *)
(* The client side lives in the native library, which the repository does *)
(* not contain; it is taken from spec 4.E.4 and scenario 3: every worker  *)
(* loops exclude(its group); critical section if told exclude_done;       *)
(* unexclude(its group) in either case, then again.                       *)
(***************************************************************************)
EXTENDS Integers, FiniteSets

CONSTANTS
  Procs,       \* workers; tracker.nworker = Cardinality(Procs)
  Group,       \* the group name each worker locks with
  None         \* last_comm = None

Names == {Group[p] : p \in Procs}

ASSUME None \notin Names

NWorker == Cardinality(Procs)

VARIABLES
  last_comm,       \* Tracker.last_comm
  pending_comms,   \* Tracker.pending_comms
  comm_added,      \* Tracker.comm_added
  lock_counter,    \* Tracker.lock_counter
  pc               \* where each worker and its handler thread are

vars == <<last_comm, pending_comms, comm_added, lock_counter, pc>>

PCs == {"idle", "exclude", "cs", "retry", "unexclude", "unexclude_wait",
        "unexclude_reply"}

Init ==
  /\ last_comm = None
  /\ pending_comms = {}
  /\ comm_added = [n \in Names |-> FALSE]
  /\ lock_counter = 0
  /\ pc = [p \in Procs |-> "idle"]

-----------------------------------------------------------------------------
\* The worker asks for its group's lock (client, spec 4.E.4).
RequestLock(p) ==
  /\ pc[p] = "idle"
  /\ pc' = [pc EXCEPT ![p] = "exclude"]
  /\ UNCHANGED <<last_comm, pending_comms, comm_added, lock_counter>>

\* Mutation of Exclude: a held lock of another name is dropped, not kept.
ExcludeDropLock(p) ==
  LET n    == Group[p]
      done == last_comm = n
  IN
  /\ pc[p] = "exclude"
  /\ last_comm' = IF last_comm = None THEN n
                  ELSE IF done THEN last_comm ELSE None
  /\ IF last_comm \notin {n, None} /\ ~comm_added[n]
       THEN /\ pending_comms' = pending_comms \cup {n}
            /\ comm_added' = [comm_added EXCEPT ![n] = TRUE]
       ELSE UNCHANGED <<pending_comms, comm_added>>
  /\ pc' = [pc EXCEPT ![p] = IF done THEN "cs" ELSE "retry"]
  /\ UNCHANGED lock_counter

(* handle_exclude: under comm_lock.  A held lock of another name queues   *)
(* this one, once per comm_added flag; a free lock is taken.  Only a     *)
(* lock already held by the caller's name answers exclude_done.           *)
Exclude(p) ==
  LET n    == Group[p]
      done == last_comm = n
  IN
  /\ pc[p] = "exclude"
  /\ last_comm' = IF last_comm = None THEN n ELSE last_comm
  /\ IF last_comm \notin {n, None} /\ ~comm_added[n]
       THEN /\ pending_comms' = pending_comms \cup {n}
            /\ comm_added' = [comm_added EXCEPT ![n] = TRUE]
       ELSE UNCHANGED <<pending_comms, comm_added>>
  /\ pc' = [pc EXCEPT ![p] = IF done THEN "cs" ELSE "retry"]
  /\ UNCHANGED lock_counter

\* The worker leaves its critical section, or gives up this attempt, and
\* joins the unexclude rendezvous (client, spec 4.E.4, scenario 3).
SendUnexclude(p) ==
  /\ pc[p] \in {"cs", "retry"}
  /\ pc' = [pc EXCEPT ![p] = "unexclude"]
  /\ UNCHANGED <<last_comm, pending_comms, comm_added, lock_counter>>

\* Mutation of HandOver: the lock is freed and nobody pending is handed it.
HandOverNone ==
  /\ last_comm' = None
  /\ UNCHANGED <<pending_comms, comm_added>>

\* Who gets the lock at the end of a round: any pending name (set.pop),
\* or nobody.
HandOver ==
  IF pending_comms = {}
    THEN /\ last_comm' = None
         /\ UNCHANGED <<pending_comms, comm_added>>
    ELSE \E n \in pending_comms :
           /\ last_comm' = n
           /\ pending_comms' = pending_comms \ {n}
           /\ UNCHANGED comm_added

\* Mutation of UnexcludeSync: the last arrival does not reset lock_counter.
UnexcludeSyncNoReset(p) ==
  /\ pc[p] = "unexclude"
  /\ lock_counter' = lock_counter + 1
  /\ IF lock_counter + 1 # NWorker
       THEN /\ pc' = [pc EXCEPT ![p] = "unexclude_wait"]
            /\ UNCHANGED <<last_comm, pending_comms, comm_added>>
       ELSE /\ HandOver
            /\ pc' = [q \in Procs |->
                       IF q = p \/ pc[q] = "unexclude_wait"
                       THEN "unexclude_reply" ELSE pc[q]]

\* Mutation of UnexcludeSync: the round ends one arrival early.
UnexcludeSyncEarly(p) ==
  /\ pc[p] = "unexclude"
  /\ IF lock_counter + 2 # NWorker
       THEN /\ lock_counter' = lock_counter + 1
            /\ pc' = [pc EXCEPT ![p] = "unexclude_wait"]
            /\ UNCHANGED <<last_comm, pending_comms, comm_added>>
       ELSE /\ lock_counter' = 0
            /\ HandOver
            /\ pc' = [q \in Procs |->
                       IF q = p \/ pc[q] = "unexclude_wait"
                       THEN "unexclude_reply" ELSE pc[q]]

\* Mutation of UnexcludeSync: the last arrival does not notify_all.
UnexcludeSyncNoNotify(p) ==
  /\ pc[p] = "unexclude"
  /\ IF lock_counter + 1 # NWorker
       THEN /\ lock_counter' = lock_counter + 1
            /\ pc' = [pc EXCEPT ![p] = "unexclude_wait"]
            /\ UNCHANGED <<last_comm, pending_comms, comm_added>>
       ELSE /\ lock_counter' = 0
            /\ HandOver
            /\ pc' = [pc EXCEPT ![p] = "unexclude_reply"]

(* handle_unexclude: under comm_cond, count in; wait, or reset the        *)
(* counter, hand the lock over under comm_lock and wake every waiter.     *)
UnexcludeSync(p) ==
  /\ pc[p] = "unexclude"
  /\ IF lock_counter + 1 # NWorker
       THEN /\ lock_counter' = lock_counter + 1
            /\ pc' = [pc EXCEPT ![p] = "unexclude_wait"]
            /\ UNCHANGED <<last_comm, pending_comms, comm_added>>
       ELSE /\ lock_counter' = 0
            /\ HandOver
            /\ pc' = [q \in Procs |->
                       IF q = p \/ pc[q] = "unexclude_wait"
                       THEN "unexclude_reply" ELSE pc[q]]

\* sendstr('unexclude_done'); the worker starts its next attempt.
UnexcludeReply(p) ==
  /\ pc[p] = "unexclude_reply"
  /\ pc' = [pc EXCEPT ![p] = "idle"]
  /\ UNCHANGED <<last_comm, pending_comms, comm_added, lock_counter>>

Thread(p) == Exclude(p) \/ UnexcludeSync(p) \/ UnexcludeReply(p)

Client(p) == RequestLock(p) \/ SendUnexclude(p)

Next == \E p \in Procs : Thread(p) \/ Client(p)

\* Handler threads get the GIL in turn, and every worker keeps running its
\* loop.  Nothing makes the scheduler favour one worker's exclude.
Spec == Init /\ [][Next]_vars /\ \A p \in Procs : WF_vars(Thread(p) \/ Client(p))

-----------------------------------------------------------------------------
TypeOK ==
  /\ last_comm \in Names \cup {None}
  /\ pending_comms \subseteq Names
  /\ comm_added \in [Names -> BOOLEAN]
  /\ lock_counter \in 0..(NWorker - 1)
  /\ pc \in [Procs -> PCs]

(* Spec 4.E.4: at most one name holds the lock, and only its workers are  *)
(* inside their critical sections: last_comm cannot move while a worker  *)
(* that was told exclude_done has not yet arrived at unexclude.           *)
MutualExclusion ==
  \A p \in Procs : pc[p] = "cs" => last_comm = Group[p]

(* The abstract group lock of ExcludeSpec, seen through last_comm: the    *)
(* workers told exclude_done are inside, the threads blocked in          *)
(* comm_cond.wait() have arrived.                                        *)
Abs == INSTANCE ExcludeSpec WITH
         holder <- last_comm,
         inside <- {p \in Procs : pc[p] = "cs"},
         arrived <- {p \in Procs : pc[p] = "unexclude_wait"}

(* Spec 4.E.4 and scenario 3: handle_exclude and handle_unexclude         *)
(* implement the group lock: last_comm is taken only when None, moves    *)
(* only at the nworker-th arrival at comm_cond (with nobody inside), and *)
(* lock_counter stays the number of threads waiting in the round.        *)
ExcludeRefinement == Abs!Spec

(* Spec 5: every unexclude returns unexclude_done: the nworker-th         *)
(* arrival at comm_cond wakes every waiter.                               *)
UnexcludeCompletes ==
  \A p \in Procs : pc[p] = "unexclude" ~> pc[p] = "idle"

(* Spec 4.E.4 ("a fair mutual-exclusion protocol"): under every schedule *)
(* fair to the threads, each worker that keeps asking for its group's     *)
(* lock is told exclude_done again and again (handle_exclude's reply).    *)
ExcludeProgress ==
  \A p \in Procs : []<>(pc[p] = "cs")

=============================================================================
