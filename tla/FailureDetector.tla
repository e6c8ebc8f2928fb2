-------------------------- MODULE FailureDetector --------------------------
(***************************************************************************)
(* The heartbeat failure detector of the thread-based tracker              *)
(* (src/tracker/tracker.py): handle_heartbeat stamps                       *)
(* last_heartbeat_timepoint[worker_id] with time.time() (seconds); the     *)
(* deamon thread of each connection sleeps HEARTBEAT_INTERVAL_MS / 1000    *)
(* seconds, then compares now - last with 2 * HEARTBEAT_INTERVAL_MS and,   *)
(* when it is over, calls dead_nodes.add(rank).  dead_nodes is a list,     *)
(* which has no add: the call raises and the deamon thread ends.           *)
(*                                                                         *)
(* Time is discrete, in seconds.  Every timed step (a deamon waking, a     *)
(* worker's heartbeat) happens at its second before time moves on.  The   *)
(* worker side is the native client: it sends a heartbeat every           *)
(* RDC_HEARTBEAT_INTERVAL until it dies (spec 4.F).                       *)
(***************************************************************************)
EXTENDS Integers

CONSTANTS
  Procs,        \* workers, one connection each; ranks are process names
  Period,       \* HEARTBEAT_INTERVAL_MS / 1000: the deamon's sleep, s
  Limit,        \* 2 * HEARTBEAT_INTERVAL_MS: the deamon's threshold
  MaxTime       \* bound: seconds of model time

VARIABLES
  now,          \* time.time()
  last,         \* Tracker.last_heartbeat_timepoint
  dead_nodes,   \* Tracker.dead_nodes
  wake,         \* when each deamon's sleep ends
  deamon,       \* "run", or "raised" once its thread ended on an exception
  up,           \* the worker process is alive and heartbeating
  hb            \* when the worker sends its next heartbeat

vars == <<now, last, dead_nodes, wake, deamon, up, hb>>

\* TrackerHandler.__init__ stamps the connection and starts the deamon.
Init ==
  /\ now = 0
  /\ last = [p \in Procs |-> 0]
  /\ dead_nodes = {}
  /\ wake = [p \in Procs |-> Period]
  /\ deamon = [p \in Procs |-> "run"]
  /\ up = [p \in Procs |-> TRUE]
  /\ hb = [p \in Procs |-> Period]

-----------------------------------------------------------------------------
(* handle_heartbeat: stamp the connection with now under self.lock; the   *)
(* replies (heartbeat_done, the dead set, pending_nodes) change no state. *)
Heartbeat(p) ==
  /\ up[p] /\ hb[p] = now
  /\ last' = [last EXCEPT ![p] = now]
  /\ hb' = [hb EXCEPT ![p] = now + Period]
  /\ UNCHANGED <<now, dead_nodes, wake, deamon, up>>

(* deamon: after its sleep, read the stamp under self.lock and compare    *)
(* the elapsed seconds with 2 * HEARTBEAT_INTERVAL_MS.  Over it,          *)
(* dead_nodes.add raises AttributeError on the list, and the thread ends. *)
DeamonWake(p) ==
  /\ deamon[p] = "run" /\ wake[p] = now
  /\ IF now - last[p] > Limit
       THEN /\ deamon' = [deamon EXCEPT ![p] = "raised"]
            /\ UNCHANGED wake
       ELSE /\ wake' = [wake EXCEPT ![p] = now + Period]
            /\ UNCHANGED deamon
  /\ UNCHANGED <<now, last, dead_nodes, up, hb>>

\* The worker process dies and sends no more heartbeats; its connection
\* and deamon stay.
Crash(p) ==
  /\ up[p]
  /\ up' = [up EXCEPT ![p] = FALSE]
  /\ UNCHANGED <<now, last, dead_nodes, wake, deamon, hb>>

\* A second passes once everything due at this second has happened.
Due(p) == (up[p] /\ hb[p] = now) \/ (deamon[p] = "run" /\ wake[p] = now)

Tick ==
  /\ now < MaxTime
  /\ \A p \in Procs : ~Due(p)
  /\ now' = now + 1
  /\ UNCHANGED <<last, dead_nodes, wake, deamon, up, hb>>

Next ==
  \/ Tick
  \/ \E p \in Procs : Heartbeat(p) \/ DeamonWake(p) \/ Crash(p)

Spec == Init /\ [][Next]_vars

-----------------------------------------------------------------------------
TypeOK ==
  /\ now \in 0..MaxTime
  /\ last \in [Procs -> 0..MaxTime]
  /\ dead_nodes \subseteq Procs
  /\ deamon \in [Procs -> {"run", "raised"}]
  /\ up \in [Procs -> BOOLEAN]

(* Spec 4.F: a worker whose last heartbeat is more than 2 x 5 s old is    *)
(* put in dead_nodes by its connection's deamon, which checks every 5 s:  *)
(* no worker stays silent for more than 3 x 5 s without being reported.  *)
DetectedInTime ==
  \A p \in Procs : now - last[p] > 3 * Period => p \in dead_nodes

=============================================================================
