-------------------------- MODULE NamedBarrierCrash --------------------------
(***************************************************************************)
(* NamedBarrier with worker deaths and the launchers' keepalive loop.      *)
(*                                                                         *)
(* A worker may die (at most MaxCrashes times in all).  Its connection is  *)
(* closed but its handler thread lives on: blocked in a barrier wait it   *)
(* stays counted, and back in FIN it spins in recvall on the closed socket *)
(* and never reads another command.  The relaunched worker opens a new    *)
(* connection (a new handler thread) and redoes the call it had not       *)
(* finished.  The `start` it sends first is abstracted: it gets its old   *)
(* rank back; ranks are process identities here.                          *)
(***************************************************************************)
EXTENDS NamedBarrier

\* The worker process dies; its socket closes, its handler thread stays.
Crash(p) ==
  /\ up[p] /\ crashes < MaxCrashes
  /\ up' = [up EXCEPT ![p] = FALSE]
  /\ crashes' = crashes + 1
  /\ UNCHANGED <<names, name_to_ranks, name_to_barrier_counter, comm_added,
                 tpc, tname, tpos, inc, pos, arrived>>

\* The launcher's keepalive loop runs the worker again (exit code 254);
\* the tracker accepts its new connection and starts a handler thread.
Relaunch(p) ==
  /\ ~up[p]
  /\ up' = [up EXCEPT ![p] = TRUE]
  /\ inc' = [inc EXCEPT ![p] = @ + 1]
  /\ tpc' = [tpc EXCEPT ![<<p, inc[p] + 1>>] = "idle"]
  /\ UNCHANGED <<names, name_to_ranks, name_to_barrier_counter, comm_added,
                 tname, tpos, pos, crashes, arrived>>

NextCrash ==
  \/ Next
  \/ \E p \in Procs : Crash(p) \/ Relaunch(p)

\* The keepalive loop always relaunches a dead worker.  Deaths are not
\* fair: a worker need never die.
SpecCrash ==
  Init /\ [][NextCrash]_vars /\ Fairness /\ \A p \in Procs : WF_vars(Relaunch(p))

=============================================================================
