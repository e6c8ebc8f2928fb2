----------------------------- MODULE Connection -----------------------------
(***************************************************************************)
(* One worker connection of the thread-based tracker                       *)
(* (src/tracker/tracker.py): the listen loop accepts it and starts a       *)
(* thread that runs handler.handle() until it returns False; the handler   *)
(* starts a deamon thread; ExSocket reads framed values with recvall.      *)
(* The commands modelled are those that concern the connection itself:    *)
(* heartbeat, print, checkpoint, load_checkpoint and shutdown.  start,    *)
(* register, barrier and exclude are the other modules; the rank a        *)
(* connection uses is its worker's (its start is abstracted).             *)
(*                                                                         *)
(* The wire from worker to tracker is a sequence of framed values; a      *)
(* length-prefixed string or blob is one value.  A worker that dies closes *)
(* its end: what it sent is still delivered, then recv returns b''.       *)
(* Time is left out: the deamon's comparison of the heartbeat age with    *)
(* its threshold may come out either way (FailureDetector models it).     *)
(*                                                                         *)
(* The worker side is the native client, not in the repository; it is    *)
(* taken from the command table of spec 4.C/4.D: it sends one command and *)
(* its payload, waits for the reply of a command that has one, and exits  *)
(* after shutdown.  The launchers' keepalive loop relaunches a dead       *)
(* worker, which connects again.                                          *)
(***************************************************************************)
EXTENDS Integers, Sequences

CONSTANTS
  Procs,        \* worker processes; a worker's rank is the process
  Blobs,        \* checkpoint blobs a worker may store
  NoBlob,       \* no entry in Tracker.checkpoints
  MaxCmds,      \* bound: commands a worker sends before its shutdown
  MaxCrashes    \* bound: worker deaths in a behaviour

ASSUME NoBlob \notin Blobs

Cmds == {"heartbeat", "print", "checkpoint", "load_checkpoint", "shutdown"}

\* Commands whose reply the worker waits for.
Answered == {"heartbeat", "load_checkpoint"}

\* A connection is a worker and the number of times it was relaunched.
Conns == Procs \X (0..MaxCrashes)
Owner(c) == c[1]

VARIABLES
  wire,         \* values sent on each connection and not yet read
  closed,       \* the worker's end of each connection is closed
  hpc,          \* handler thread of each connection
  cmd,          \* TrackerHandler.cmd
  shutdown,     \* TrackerHandler.shutdown
  dpc,          \* deamon thread of each connection
  checkpoints,  \* Tracker.checkpoints
  up,           \* the worker process is running
  inc,          \* current incarnation of each worker
  wpc,          \* the worker: ready, sending a payload, waiting, or done
  rest,         \* the payload values the worker has still to write
  sent,         \* commands each worker has sent
  crashes,      \* deaths so far
  mine,         \* blob of the rank's last checkpoint whose payload was written
  got           \* blob of the rank's last load_checkpoint reply since then

vars == <<wire, closed, hpc, cmd, shutdown, dpc, checkpoints, up, inc, wpc,
          rest, sent, crashes, mine, got>>

HPCs == {"none", "fin", "cmd", "spin", "join", "ended"}

Current(p) == <<p, inc[p]>>

\* Tracker.__init__ (checkpoints is empty); the listen loop has accepted
\* each worker's first connection, whose handler started its deamon.
Init ==
  /\ wire = [c \in Conns |-> <<>>]
  /\ closed = [c \in Conns |-> FALSE]
  /\ hpc = [c \in Conns |-> IF c[2] = 0 THEN "fin" ELSE "none"]
  /\ cmd = [c \in Conns |-> "none"]
  /\ shutdown = [c \in Conns |-> FALSE]
  /\ dpc = [c \in Conns |-> IF c[2] = 0 THEN "run" ELSE "none"]
  /\ checkpoints = [p \in Procs |-> NoBlob]
  /\ up = [p \in Procs |-> TRUE]
  /\ inc = [p \in Procs |-> 0]
  /\ wpc = [p \in Procs |-> "ready"]
  /\ rest = [p \in Procs |-> <<>>]
  /\ sent = [p \in Procs |-> 0]
  /\ crashes = 0
  /\ mine = [p \in Procs |-> NoBlob]
  /\ got = [p \in Procs |-> NoBlob]

-----------------------------------------------------------------------------
(* Worker side.                                                            *)

\* The values the worker writes for command k (spec 4.C/4.D).
Payloads(k) ==
  CASE k = "print"      -> {<<k, "msg">>}
    [] k = "checkpoint" -> {<<k, b>> : b \in Blobs}
    [] OTHER            -> {<<k>>}

(* The worker writes a command string; its payload, if any, is a later   *)
(* write.  After shutdown it exits, closing its end.                      *)
SendCommand(p) ==
  LET c == Current(p) IN
  /\ up[p] /\ wpc[p] = "ready"
  /\ \E k \in Cmds : \E m \in Payloads(k) :
       /\ k = "shutdown" \/ sent[p] < MaxCmds
       /\ wire' = [wire EXCEPT ![c] = Append(@, k)]
       /\ rest' = [rest EXCEPT ![p] = Tail(m)]
       /\ wpc' = [wpc EXCEPT ![p] = CASE Tail(m) # <<>> -> "sending"
                                      [] k \in Answered -> "wait"
                                      [] k = "shutdown" -> "done"
                                      [] OTHER          -> "ready"]
       /\ closed' = [closed EXCEPT ![c] = (k = "shutdown")]
  /\ sent' = [sent EXCEPT ![p] = @ + 1]
  /\ UNCHANGED <<hpc, cmd, shutdown, dpc, checkpoints, up, inc, crashes, mine,
                 got>>

(* The worker writes the payload of print or checkpoint (no reply).  A   *)
(* checkpoint is complete for the worker once its blob is written.       *)
SendPayload(p) ==
  LET c == Current(p)
      v == Head(rest[p])
  IN
  /\ up[p] /\ wpc[p] = "sending"
  /\ wire' = [wire EXCEPT ![c] = @ \o rest[p]]
  /\ rest' = [rest EXCEPT ![p] = <<>>]
  /\ wpc' = [wpc EXCEPT ![p] = "ready"]
  /\ IF v \in Blobs
       THEN /\ mine' = [mine EXCEPT ![p] = v]
            /\ got' = [got EXCEPT ![p] = NoBlob]
       ELSE UNCHANGED <<mine, got>>
  /\ UNCHANGED <<closed, hpc, cmd, shutdown, dpc, checkpoints, up, inc, sent,
                 crashes>>

\* The worker process dies; the kernel closes its end of the connection.
Crash(p) ==
  /\ up[p] /\ wpc[p] # "done" /\ crashes < MaxCrashes
  /\ up' = [up EXCEPT ![p] = FALSE]
  /\ closed' = [closed EXCEPT ![Current(p)] = TRUE]
  /\ crashes' = crashes + 1
  /\ UNCHANGED <<wire, hpc, cmd, shutdown, dpc, checkpoints, inc, wpc, rest,
                 sent, mine, got>>

(* The keepalive loop runs the worker again; Tracker.listen accepts the   *)
(* new connection and its thread builds a TrackerHandler, whose __init__  *)
(* starts the deamon.                                                     *)
Relaunch(p) ==
  LET c == <<p, inc[p] + 1>> IN
  /\ ~up[p]
  /\ up' = [up EXCEPT ![p] = TRUE]
  /\ inc' = [inc EXCEPT ![p] = @ + 1]
  /\ wpc' = [wpc EXCEPT ![p] = "ready"]
  /\ rest' = [rest EXCEPT ![p] = <<>>]
  /\ hpc' = [hpc EXCEPT ![c] = "fin"]
  /\ dpc' = [dpc EXCEPT ![c] = "run"]
  /\ UNCHANGED <<wire, closed, cmd, shutdown, checkpoints, sent, crashes, mine, got>>

-----------------------------------------------------------------------------
(* Tracker side.                                                           *)

\* The end of a dispatch in handle(): state back to FIN, cmd to None.
ToFin(c) ==
  /\ hpc' = [hpc EXCEPT ![c] = "fin"]
  /\ cmd' = [cmd EXCEPT ![c] = "none"]

\* A reply the worker waits for, then the end of the dispatch.  On a
\* connection the worker has closed, sock.send may raise (BrokenPipe,
\* reset), which ends the thread, or may still be accepted by the kernel.
Reply(c) ==
  IF closed[c]
    THEN \/ /\ hpc' = [hpc EXCEPT ![c] = "ended"]
            /\ UNCHANGED <<cmd, wpc>>
         \/ /\ ToFin(c)
            /\ UNCHANGED wpc
    ELSE /\ ToFin(c)
         /\ wpc' = [wpc EXCEPT ![Owner(c)] = "ready"]

\* handle() in state FIN: recvstr reads the command; state becomes CMD.
RecvCmd(c) ==
  /\ hpc[c] = "fin" /\ wire[c] # <<>>
  /\ cmd' = [cmd EXCEPT ![c] = Head(wire[c])]
  /\ wire' = [wire EXCEPT ![c] = Tail(@)]
  /\ hpc' = [hpc EXCEPT ![c] = "cmd"]
  /\ UNCHANGED <<closed, shutdown, dpc, checkpoints, up, inc, wpc, rest, sent,
                 crashes, mine, got>>

\* A read that needs a value: recvstr in FIN, and the payload of print
\* and checkpoint.
Reading(c) ==
  hpc[c] = "fin" \/ (hpc[c] = "cmd" /\ cmd[c] \in {"print", "checkpoint"})

(* recvall on a closed, drained connection: sock.recv returns b'' at once *)
(* and nread never grows, so the loop runs forever.                      *)
RecvClosed(c) ==
  /\ Reading(c) /\ wire[c] = <<>> /\ closed[c]
  /\ hpc' = [hpc EXCEPT ![c] = "spin"]
  /\ UNCHANGED <<wire, closed, cmd, shutdown, dpc, checkpoints, up, inc, wpc,
                 rest, sent, crashes, mine, got>>

\* handle_print: recvstr and log.
HandlePrint(c) ==
  /\ hpc[c] = "cmd" /\ cmd[c] = "print" /\ wire[c] # <<>>
  /\ wire' = [wire EXCEPT ![c] = Tail(@)]
  /\ ToFin(c)
  /\ UNCHANGED <<closed, shutdown, dpc, checkpoints, up, inc, wpc, rest, sent,
                 crashes, mine, got>>

\* handle_checkpoint: recvbytes, stored under the connection's rank; no
\* reply.
HandleCheckpoint(c) ==
  /\ hpc[c] = "cmd" /\ cmd[c] = "checkpoint" /\ wire[c] # <<>>
  /\ checkpoints' = [checkpoints EXCEPT ![Owner(c)] = Head(wire[c])]
  /\ wire' = [wire EXCEPT ![c] = Tail(@)]
  /\ ToFin(c)
  /\ UNCHANGED <<closed, shutdown, dpc, up, inc, wpc, rest, sent, crashes, mine, got>>

\* handle_heartbeat: stamp the connection (time is left out), then send
\* heartbeat_done, the dead set and pending_nodes.
HandleHeartbeat(c) ==
  /\ hpc[c] = "cmd" /\ cmd[c] = "heartbeat"
  /\ Reply(c)
  /\ UNCHANGED <<wire, closed, shutdown, dpc, checkpoints, up, inc, rest, sent,
                 crashes, mine, got>>

(* handle_load_checkpoint: send the rank's blob if there is one, which a *)
(* worker still connected receives; else log a warning and send nothing. *)
HandleLoadCheckpoint(c) ==
  LET p == Owner(c) IN
  /\ hpc[c] = "cmd" /\ cmd[c] = "load_checkpoint"
  /\ IF checkpoints[p] # NoBlob
       THEN /\ Reply(c)
            /\ got' = IF closed[c] THEN got
                      ELSE [got EXCEPT ![p] = checkpoints[p]]
       ELSE /\ ToFin(c)
            /\ UNCHANGED <<wpc, got>>
  /\ UNCHANGED <<wire, closed, shutdown, dpc, checkpoints, up, inc, rest, sent,
                 crashes, mine>>

\* shutdown: set the flag, then join the deamon thread.
HandleShutdown(c) ==
  /\ hpc[c] = "cmd" /\ cmd[c] = "shutdown"
  /\ shutdown' = [shutdown EXCEPT ![c] = TRUE]
  /\ hpc' = [hpc EXCEPT ![c] = "join"]
  /\ UNCHANGED <<wire, closed, cmd, dpc, checkpoints, up, inc, wpc, rest,
                 sent, crashes, mine, got>>

\* deamon_thrd.join() returns; handle() returns False and the thread's
\* loop in Tracker.listen ends.
Join(c) ==
  /\ hpc[c] = "join" /\ dpc[c] = "ended"
  /\ hpc' = [hpc EXCEPT ![c] = "ended"]
  /\ UNCHANGED <<wire, closed, cmd, shutdown, dpc, checkpoints, up, inc, wpc,
                 rest, sent, crashes, mine, got>>

(* One turn of the deamon loop: sleep, compare the heartbeat age with the *)
(* threshold; over it, dead_nodes.add raises on the list and the thread   *)
(* ends; otherwise the loop ends once shutdown is set.                    *)
DeamonTurn(c) ==
  /\ dpc[c] = "run"
  /\ \E over \in BOOLEAN :
       dpc' = [dpc EXCEPT ![c] = IF over \/ shutdown[c] THEN "ended" ELSE "run"]
  /\ UNCHANGED <<wire, closed, hpc, cmd, shutdown, checkpoints, up, inc, wpc,
                 rest, sent, crashes, mine, got>>

Handler(c) ==
  \/ RecvCmd(c) \/ RecvClosed(c) \/ HandlePrint(c) \/ HandleCheckpoint(c)
  \/ HandleHeartbeat(c) \/ HandleLoadCheckpoint(c) \/ HandleShutdown(c)
  \/ Join(c)

Next ==
  \/ \E c \in Conns : Handler(c) \/ DeamonTurn(c)
  \/ \E p \in Procs : SendCommand(p) \/ SendPayload(p) \/ Crash(p)
                      \/ Relaunch(p)

\* Handler and deamon threads get the GIL in turn, and the keepalive loop
\* always relaunches a dead worker.  Workers and their deaths are not fair.
Spec ==
  /\ Init /\ [][Next]_vars
  /\ \A c \in Conns : WF_vars(Handler(c)) /\ WF_vars(DeamonTurn(c))
  /\ \A p \in Procs : WF_vars(Relaunch(p))

-----------------------------------------------------------------------------
TypeOK ==
  /\ closed \in [Conns -> BOOLEAN]
  /\ hpc \in [Conns -> HPCs]
  /\ cmd \in [Conns -> Cmds \cup {"none"}]
  /\ dpc \in [Conns -> {"none", "run", "ended"}]
  /\ checkpoints \in [Procs -> Blobs \cup {NoBlob}]
  /\ wpc \in [Procs -> {"ready", "sending", "wait", "done"}]
  /\ sent \in [Procs -> 0..(MaxCmds + 1)]
  /\ mine \in [Procs -> Blobs \cup {NoBlob}]
  /\ got \in [Procs -> Blobs \cup {NoBlob}]

(* Spec 3 and 4.A: a handler lives until its connection is torn down: a  *)
(* short read is EOF, and the handler is destroyed on disconnect.  Every  *)
(* connection the worker has closed, by shutdown or by dying, eventually *)
(* has its handler thread ended.                                          *)
HandlerEndsOnClose ==
  \A c \in Conns : closed[c] ~> hpc[c] = "ended"

(* Spec 8, invariant 5: after checkpoint(blob) and then load_checkpoint  *)
(* from the same rank, with no checkpoint in between, the blob returned  *)
(* is blob.  handle_checkpoint stores whatever blob its connection reads *)
(* last, and load_checkpoint returns the store as it is when read, so a  *)
(* blob still unread on a dead worker's connection, or read late, breaks *)
(* this across a relaunch.                                               *)
CheckpointRoundTrip ==
  \A p \in Procs : got[p] # NoBlob => got[p] = mine[p]

=============================================================================
