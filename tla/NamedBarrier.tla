---------------------------- MODULE NamedBarrier ----------------------------
(***************************************************************************)
(* `register` and `barrier` of the thread-based tracker                    *)
(* (src/tracker/tracker.py, handle_register, handle_barrier), with the     *)
(* workers that drive them and the keepalive loop of the launchers that    *)
(* relaunches a worker after it dies.                                      *)
(*                                                                         *)
(* Workers run one program, Prog, a sequence of register/barrier calls on *)
(* named groups.  This module has no deaths: the connection state (inc,   *)
(* up, crashes) is what NamedBarrierCrash changes when a worker dies and  *)
(* the keepalive loop relaunches it.                                      *)
(***************************************************************************)
EXTENDS Integers, FiniteSets, Sequences

CONSTANTS
  Procs,       \* worker processes
  Names,       \* group names the program uses
  NWorker,     \* tracker.nworker (no restart in this module)
  Prog,        \* the workers' program: <<[op, name], ...>>
  MaxCrashes   \* bound: worker deaths in a behaviour

ASSUME /\ NWorker = Cardinality(Procs)
       /\ Prog \in Seq([op : {"register", "barrier"}, name : Names])
       /\ MaxCrashes \in Nat

\* A connection is a worker and the number of times it was relaunched.
Conns == Procs \X (0..MaxCrashes)
Owner(c) == c[1]

VARIABLES
  names,                    \* Tracker.names
  name_to_ranks,            \* Tracker.name_to_ranks (keys: names)
  name_to_barrier_counter,  \* Tracker.name_to_barrier_counter
  comm_added,               \* Tracker.comm_added (set up by register)
  tpc,                      \* handler thread of each connection
  tname,                    \* the name argument the thread read
  tpos,                     \* the program step that issued the call
  inc,                      \* current incarnation of each worker
  up,                       \* the worker process is running
  pos,                      \* next program step of each worker
  crashes,                  \* deaths so far
  arrived                   \* history: steps whose barrier p counted in

vars == <<names, name_to_ranks, name_to_barrier_counter, comm_added, tpc,
          tname, tpos, inc, up, pos, crashes, arrived>>

TPCs == {"none", "idle", "register", "barrier", "barrier_wait",
         "barrier_reply", "gone"}

\* The connection the worker currently talks through.
Current(p) == <<p, inc[p]>>
Live(c) == up[Owner(c)] /\ c = Current(Owner(c))

Init ==
  /\ names = {}
  /\ name_to_ranks = [n \in Names |-> {}]
  /\ name_to_barrier_counter = [n \in Names |-> 0]
  /\ comm_added = [n \in Names |-> FALSE]
  /\ tpc = [c \in Conns |-> IF c[2] = 0 THEN "idle" ELSE "none"]
  /\ tname = [c \in Conns |-> CHOOSE n \in Names : TRUE]
  /\ tpos = [c \in Conns |-> 0]
  /\ inc = [p \in Procs |-> 0]
  /\ up = [p \in Procs |-> TRUE]
  /\ pos = [p \in Procs |-> 1]
  /\ crashes = 0
  /\ arrived = [p \in Procs |-> {}]

-----------------------------------------------------------------------------
(* handle() in state FIN reads the next command of the program and its    *)
(* name.  `register` sends no reply, so the worker moves on at once.      *)
SendCmd(p) ==
  LET c == Current(p) IN
  /\ up[p] /\ tpc[c] = "idle"
  /\ pos[p] <= Len(Prog)
  /\ tpc' = [tpc EXCEPT ![c] = Prog[pos[p]].op]
  /\ tname' = [tname EXCEPT ![c] = Prog[pos[p]].name]
  /\ tpos' = [tpos EXCEPT ![c] = pos[p]]
  /\ pos' = [pos EXCEPT ![p] = IF Prog[pos[p]].op = "register" THEN @ + 1
                                                               ELSE @]
  /\ UNCHANGED <<names, name_to_ranks, name_to_barrier_counter, comm_added,
                 inc, up, crashes, arrived>>

\* Mutation of Register: the `if name not in names` guard is lost, so
\* every register re-creates the name's counter.
RegisterAlwaysInit(c) ==
  LET n == tname[c] IN
  /\ tpc[c] = "register"
  /\ names' = names \cup {n}
  /\ name_to_ranks' = [name_to_ranks EXCEPT ![n] = {Owner(c)}]
  /\ name_to_barrier_counter' = [name_to_barrier_counter EXCEPT ![n] = 0]
  /\ comm_added' = [comm_added EXCEPT ![n] = FALSE]
  /\ tpc' = [tpc EXCEPT ![c] = "idle"]
  /\ UNCHANGED <<tname, tpos, inc, up, pos, crashes, arrived>>

\* handle_register: with register_lock, create the name on first use,
\* then add the caller's rank.
Register(c) ==
  LET n == tname[c] IN
  /\ tpc[c] = "register"
  /\ names' = names \cup {n}
  /\ name_to_ranks' = [name_to_ranks EXCEPT ![n] =
                         (IF n \in names THEN @ ELSE {}) \cup {Owner(c)}]
  /\ name_to_barrier_counter' = [name_to_barrier_counter EXCEPT ![n] =
                                   IF n \in names THEN @ ELSE 0]
  /\ comm_added' = [comm_added EXCEPT ![n] = IF n \in names THEN @ ELSE FALSE]
  /\ tpc' = [tpc EXCEPT ![c] = "idle"]
  /\ UNCHANGED <<tname, tpos, inc, up, pos, crashes, arrived>>

\* Mutation of BarrierSync: released one arrival early (off by one).
BarrierSyncEarly(c) ==
  LET n == tname[c] IN
  /\ tpc[c] = "barrier"
  /\ n \in names
  /\ arrived' = [arrived EXCEPT ![Owner(c)] = @ \cup {tpos[c]}]
  /\ IF name_to_barrier_counter[n] + 2 # NWorker
       THEN /\ name_to_barrier_counter' =
                 [name_to_barrier_counter EXCEPT ![n] = @ + 1]
            /\ tpc' = [tpc EXCEPT ![c] = "barrier_wait"]
       ELSE /\ name_to_barrier_counter' =
                 [name_to_barrier_counter EXCEPT ![n] = 0]
            /\ tpc' = [d \in Conns |->
                         IF d = c \/ (tpc[d] = "barrier_wait" /\ tname[d] = n)
                         THEN "barrier_reply" ELSE tpc[d]]
  /\ UNCHANGED <<names, name_to_ranks, comm_added, tname, tpos, inc, up,
                 pos, crashes>>

\* Mutation of BarrierSync: the last arrival does not reset the counter.
BarrierSyncNoReset(c) ==
  LET n == tname[c] IN
  /\ tpc[c] = "barrier"
  /\ n \in names
  /\ arrived' = [arrived EXCEPT ![Owner(c)] = @ \cup {tpos[c]}]
  /\ name_to_barrier_counter' = [name_to_barrier_counter EXCEPT ![n] = @ + 1]
  /\ tpc' = IF name_to_barrier_counter[n] + 1 # NWorker
            THEN [tpc EXCEPT ![c] = "barrier_wait"]
            ELSE [d \in Conns |->
                    IF d = c \/ (tpc[d] = "barrier_wait" /\ tname[d] = n)
                    THEN "barrier_reply" ELSE tpc[d]]
  /\ UNCHANGED <<names, name_to_ranks, comm_added, tname, tpos, inc, up,
                 pos, crashes>>

\* Mutation of BarrierSync: the last arrival leaves without notify_all.
BarrierSyncNoWake(c) ==
  LET n == tname[c] IN
  /\ tpc[c] = "barrier"
  /\ n \in names
  /\ arrived' = [arrived EXCEPT ![Owner(c)] = @ \cup {tpos[c]}]
  /\ IF name_to_barrier_counter[n] + 1 # NWorker
       THEN /\ name_to_barrier_counter' =
                 [name_to_barrier_counter EXCEPT ![n] = @ + 1]
            /\ tpc' = [tpc EXCEPT ![c] = "barrier_wait"]
       ELSE /\ name_to_barrier_counter' =
                 [name_to_barrier_counter EXCEPT ![n] = 0]
            /\ tpc' = [tpc EXCEPT ![c] = "barrier_reply"]
  /\ UNCHANGED <<names, name_to_ranks, comm_added, tname, tpos, inc, up,
                 pos, crashes>>

(* handle_barrier: with name_to_barrier_cond[name], count in; the         *)
(* nworker-th arrival resets the counter and wakes the waiters of this   *)
(* name.  An unregistered name raises KeyError and ends the thread.      *)
BarrierSync(c) ==
  LET n == tname[c] IN
  /\ tpc[c] = "barrier"
  /\ IF n \notin names
       THEN /\ tpc' = [tpc EXCEPT ![c] = "gone"]
            /\ UNCHANGED <<name_to_barrier_counter, arrived>>
       ELSE
         /\ arrived' = [arrived EXCEPT ![Owner(c)] = @ \cup {tpos[c]}]
         /\ IF name_to_barrier_counter[n] + 1 # NWorker
              THEN /\ name_to_barrier_counter' =
                        [name_to_barrier_counter EXCEPT ![n] = @ + 1]
                   /\ tpc' = [tpc EXCEPT ![c] = "barrier_wait"]
              ELSE /\ name_to_barrier_counter' =
                        [name_to_barrier_counter EXCEPT ![n] = 0]
                   /\ tpc' = [d \in Conns |->
                                IF d = c \/ (tpc[d] = "barrier_wait"
                                             /\ tname[d] = n)
                                THEN "barrier_reply" ELSE tpc[d]]
  /\ UNCHANGED <<names, name_to_ranks, comm_added, tname, tpos, inc, up,
                 pos, crashes>>

\* sendstr("barrier_done"): the worker goes on with its program; on a
\* closed connection the send raises and the thread ends.
BarrierReply(c) ==
  /\ tpc[c] = "barrier_reply"
  /\ IF Live(c)
       THEN /\ tpc' = [tpc EXCEPT ![c] = "idle"]
            /\ pos' = [pos EXCEPT ![Owner(c)] = @ + 1]
       ELSE /\ tpc' = [tpc EXCEPT ![c] = "gone"]
            /\ UNCHANGED pos
  /\ UNCHANGED <<names, name_to_ranks, name_to_barrier_counter, comm_added,
                 tname, tpos, inc, up, crashes, arrived>>

Finished == \A p \in Procs : up[p] /\ pos[p] = Len(Prog) + 1

Terminating == Finished /\ UNCHANGED vars

Thread(c) == Register(c) \/ BarrierSync(c) \/ BarrierReply(c)

\* Without deaths (NamedBarrierCrash adds them).
Next ==
  \/ \E c \in Conns : Thread(c)
  \/ \E p \in Procs : SendCmd(p)
  \/ Terminating

\* Handler threads get the GIL in turn; every worker runs its program.
Fairness ==
  /\ \A c \in Conns : WF_vars(Thread(c))
  /\ \A p \in Procs : WF_vars(SendCmd(p))

Spec == Init /\ [][Next]_vars /\ Fairness

-----------------------------------------------------------------------------
(* Type invariant; also every barrier counter stays below nworker (the    *)
(* arrival that reaches it resets it).                                    *)
TypeOK ==
  /\ names \subseteq Names
  /\ name_to_ranks \in [Names -> SUBSET Procs]
  /\ name_to_barrier_counter \in [Names -> 0..(NWorker - 1)]
  /\ comm_added \in [Names -> BOOLEAN]
  /\ tpc \in [Conns -> TPCs]
  /\ inc \in [Procs -> 0..MaxCrashes] /\ up \in [Procs -> BOOLEAN]
  /\ pos \in [Procs -> 1..(Len(Prog) + 1)]
  /\ crashes \in 0..MaxCrashes

(* Spec 8, invariant 2: a name's barrier counter is the number of its    *)
(* arrivals still waiting: the counter is reset exactly when the waiters  *)
(* are woken, and a register of a name that exists, by a worker arriving  *)
(* later than others already waiting, leaves it alone.                    *)
CounterCountsWaiters ==
  \A n \in names :
    name_to_barrier_counter[n] =
      Cardinality({c \in Conns : tpc[c] = "barrier_wait" /\ tname[c] = n})

\* Worker q has entered the barrier of program step k.
Entered(q, k) == k \in arrived[q] \/ pos[q] > k

(* Spec 5: after barrier(n) returns to a member, every member has entered *)
(* that barrier.  A live handler thread that is sending barrier_done for  *)
(* step k of the program only does so once every worker has counted      *)
(* itself in at step k (handle_barrier's counter, reset and notify_all).  *)
BarrierSafe ==
  \A c \in Conns :
    tpc[c] = "barrier_reply" /\ Live(c) =>
      \A q \in Procs : Entered(q, tpos[c])

\* The workers of name n the abstract barrier sees inside: those whose
\* handler thread is blocked in the wait of handle_barrier.
Inside == [n \in Names |-> {Owner(c) : c \in {d \in Conns :
                             tpc[d] = "barrier_wait" /\ tname[d] = n}}]

Abstract == INSTANCE BarrierSpec WITH inside <- Inside, N <- NWorker

(* handle_barrier implements the N-party barrier of BarrierSpec: its      *)
(* counter, reset and notify_all release a name's waiters exactly when    *)
(* the nworker-th distinct worker arrives.                                *)
BarrierRefinement == Abstract!Spec

(* Spec 5: with no worker dying, every barrier a worker enters returns    *)
(* barrier_done to it: the nworker-th arrival wakes every waiter of the   *)
(* name, and nothing else ever wakes them.                                *)
BarrierCompletes ==
  \A c \in Conns : tpc[c] \in {"barrier", "barrier_wait"} ~> tpc[c] = "idle"

=============================================================================
