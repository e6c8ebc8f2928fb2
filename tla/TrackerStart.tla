--------------------------- MODULE TrackerStart ---------------------------
(***************************************************************************)
(* The `start` / `restart` commands of the thread-based tracker            *)
(* (src/tracker/tracker.py, TrackerHandler.handle_start and                *)
(* Tracker.realloc_ranks).                                                 *)
(*                                                                         *)
(* One handler thread per worker connection.  A `start` runs through two   *)
(* rendezvous that share ONE condition variable, rank_cond:                *)
(*   phase 1: rank_counter counts arrivals; the nworker-th arrival         *)
(*            reallocates the ranks of workers that sent -1 and wakes all; *)
(*   phase 2: each thread writes addrs[rank]; the thread that makes        *)
(*            |addrs| = nworker rebuilds addr_to_ranks and wakes all.      *)
(* Both waits are `if ... wait()`, never re-checked, so a notify_all of    *)
(* one phase releases the waiters of the other.  A `restart` (elastic      *)
(* join) first meets the other joiners on restart_cond, and the last of    *)
(* them bumps nworker.                                                     *)
(*                                                                         *)
(* A thread's pc names the point of handle_start it has reached; every     *)
(* action is one lock-protected section (or one read made outside a lock) *)
(* of the code.  Addresses are abstracted to the worker's host; the value *)
(* stored in addrs is the process that wrote it, so a stale entry is      *)
(* visible.  A connection is a process here: workers do not crash.        *)
(***************************************************************************)
EXTENDS Integers, FiniteSets, Functions, TLC

CONSTANTS
  Procs,         \* worker processes, one connection (worker_id) each
  Joiners,       \* processes that join the running job with `restart`
  Hosts,         \* host addresses a worker may declare
  HostOf,        \* HostOf[p]: the address p sends with start
  NInit,         \* nworker given to Tracker(...)
  MaxStarts,     \* bound: start/restart commands per process
  HasInvertDict  \* whether utils.invert_dict exists (it does not in src/)

ASSUME /\ Joiners \subseteq Procs
       /\ HostOf \in [Procs -> Hosts]
       /\ NInit = Cardinality(Procs \ Joiners)
       /\ MaxStarts \in Nat \ {0}
       /\ HasInvertDict \in BOOLEAN

\* n_new_worker sent by every joiner: the number of joiners.
NNew == Cardinality(Joiners)

NoReply == [rank |-> -1, world |-> 0, peers |-> {}, same |-> {}]

VARIABLES
  nworker,             \* Tracker.nworker
  worker_id_to_ranks,  \* Tracker.worker_id_to_ranks (domain grows)
  rank_counter,        \* Tracker.rank_counter  (phase 1 arrivals)
  new_node_counter,    \* Tracker.new_node_counter (restart arrivals)
  pending_nodes,       \* Tracker.pending_nodes
  addrs,               \* Tracker.addrs: rank -> process that wrote it
  addr_to_ranks,       \* Tracker.addr_to_ranks: host -> set of ranks
  pc,                  \* point of handle_start each thread has reached
  rank,                \* TrackerHandler.rank (-1 before the first start)
  starts,              \* commands issued per process (bounded)
  reply,               \* the start reply being sent / last sent
  rankRound,           \* history: phase-1 rendezvous completed so far
  joinedRound          \* history: rankRound when p entered phase 1

vars == <<nworker, worker_id_to_ranks, rank_counter, new_node_counter,
          pending_nodes, addrs, addr_to_ranks, pc, rank, starts, reply,
          rankRound, joinedRound>>

PCs == {"idle", "restart", "restart_wait", "set_rank", "rank_sync",
        "rank_wait", "read_rank", "addr_sync", "addr_wait", "reply_world",
        "reply_peers", "dead"}

\* Condition.notify_all on rank_cond: every waiter, of either phase, leaves
\* its `if` and goes on with the statement after it.
WakeRankCond(pcf) ==
  [p \in Procs |-> CASE pcf[p] = "rank_wait" -> "read_rank"
                     [] pcf[p] = "addr_wait" -> "reply_world"
                     [] OTHER               -> pcf[p]]

\* Mutation of ReallocRanks: `last_rank += 1` after an assignment is lost,
\* so every -1 entry may receive the same free rank.
ReallocRanksNoIncrement(w) ==
  LET U        == {q \in DOMAIN w : w[q] = -1}
      existing == {w[q] : q \in DOMAIN w} \ {-1}
      free     == {i \in 0..(Cardinality(DOMAIN w)) : i \notin existing}
      lowest   == {i \in free : Cardinality({j \in free : j < i})
                                  < Cardinality(U)}
  IN { [q \in DOMAIN w |-> IF q \in U THEN f[q] ELSE w[q]]
         : f \in [U -> lowest] }

\* Mutation of ReallocRanks: last_rank starts at 1, so rank 0 is skipped.
ReallocRanksFromOne(w) ==
  LET U        == {q \in DOMAIN w : w[q] = -1}
      existing == {w[q] : q \in DOMAIN w} \ {-1}
      free     == {i \in 1..(Cardinality(DOMAIN w)) : i \notin existing}
      lowest   == {i \in free : Cardinality({j \in free : j < i})
                                  < Cardinality(U)}
  IN { [q \in DOMAIN w |-> IF q \in U THEN f[q] ELSE w[q]]
         : f \in Bijection(U, lowest) }

(***************************************************************************)
(* Tracker.realloc_ranks: every entry -1 gets the smallest non-negative   *)
(* integer not yet taken, entries visited in dict insertion order (which  *)
(* the model does not track: any order is allowed).                       *)
(***************************************************************************)
ReallocRanks(w) ==
  LET U        == {q \in DOMAIN w : w[q] = -1}
      existing == {w[q] : q \in DOMAIN w} \ {-1}
      free     == {i \in 0..(Cardinality(DOMAIN w)) : i \notin existing}
      lowest   == {i \in free : Cardinality({j \in free : j < i})
                                  < Cardinality(U)}
  IN { [q \in DOMAIN w |-> IF q \in U THEN f[q] ELSE w[q]]
         : f \in Bijection(U, lowest) }

\* utils.invert_dict(addrs): host -> ranks registered from that host.
InvertAddrs(a) == [h \in Hosts |-> {r \in DOMAIN a : HostOf[a[r]] = h}]

Init ==
  /\ nworker = NInit
  /\ worker_id_to_ranks = [q \in {} |-> -1]
  /\ rank_counter = 0
  /\ new_node_counter = 0
  /\ pending_nodes = 0
  /\ addrs = [r \in {} |-> CHOOSE q \in Procs : TRUE]
  /\ addr_to_ranks = [h \in Hosts |-> {}]
  /\ pc = [p \in Procs |-> "idle"]
  /\ rank = [p \in Procs |-> -1]
  /\ starts = [p \in Procs |-> 0]
  /\ reply = [p \in Procs |-> NoReply]
  /\ rankRound = 0
  /\ joinedRound = [p \in Procs |-> 0]

-----------------------------------------------------------------------------
(* handle() in state FIN reads the command; handle_start reads the rank.  *)
(* A worker sends -1 until it has been given a rank, then that rank.  A   *)
(* joiner's first command is `restart`; every other one is `start`.       *)
RecvStart(p) ==
  /\ pc[p] = "idle"
  /\ starts[p] < MaxStarts
  /\ pc' = [pc EXCEPT ![p] = IF p \in Joiners /\ starts[p] = 0
                             THEN "restart" ELSE "set_rank"]
  /\ starts' = [starts EXCEPT ![p] = @ + 1]
  /\ UNCHANGED <<nworker, worker_id_to_ranks, rank_counter, new_node_counter,
                 pending_nodes, addrs, addr_to_ranks, rank, reply,
                 rankRound, joinedRound>>

\* with restart_cond: the NNew-th joiner bumps nworker and wakes the others.
RestartSync(p) ==
  /\ pc[p] = "restart"
  /\ IF new_node_counter + 1 # NNew
       THEN /\ new_node_counter' = new_node_counter + 1
            /\ pc' = [pc EXCEPT ![p] = "restart_wait"]
            /\ UNCHANGED <<nworker, pending_nodes>>
       ELSE /\ new_node_counter' = 0
            /\ nworker' = nworker + NNew
            /\ pending_nodes' = NNew
            /\ pc' = [q \in Procs |-> IF q = p \/ pc[q] = "restart_wait"
                                      THEN "set_rank" ELSE pc[q]]
  /\ UNCHANGED <<worker_id_to_ranks, rank_counter, addrs, addr_to_ranks,
                 rank, starts, reply, rankRound, joinedRound>>

\* with tracker_lock: worker_id_to_ranks[worker_id] = rank; addr = recvstr()
SetRank(p) ==
  /\ pc[p] = "set_rank"
  /\ worker_id_to_ranks' = (p :> reply[p].rank) @@ worker_id_to_ranks
  /\ pc' = [pc EXCEPT ![p] = "rank_sync"]
  /\ UNCHANGED <<nworker, rank_counter, new_node_counter, pending_nodes,
                 addrs, addr_to_ranks, rank, starts, reply,
                 rankRound, joinedRound>>

\* Mutation of RankSync: the last arrival does not reset rank_counter.
RankSyncNoReset(p) ==
  /\ pc[p] = "rank_sync"
  /\ joinedRound' = [joinedRound EXCEPT ![p] = rankRound]
  /\ rank_counter' = rank_counter + 1
  /\ IF rank_counter + 1 # nworker
       THEN /\ pc' = [pc EXCEPT ![p] = "rank_wait"]
            /\ UNCHANGED <<worker_id_to_ranks, pending_nodes, rankRound>>
       ELSE /\ worker_id_to_ranks' \in ReallocRanks(worker_id_to_ranks)
            /\ pending_nodes' = 0
            /\ rankRound' = rankRound + 1
            /\ pc' = [WakeRankCond(pc) EXCEPT ![p] = "read_rank"]
  /\ UNCHANGED <<nworker, new_node_counter, addrs, addr_to_ranks, rank,
                 starts, reply>>

(* with rank_cond: phase 1.  The nworker-th arrival resets the counter,   *)
(* reallocates ranks, clears pending_nodes and wakes every waiter.        *)
RankSync(p) ==
  /\ pc[p] = "rank_sync"
  /\ joinedRound' = [joinedRound EXCEPT ![p] = rankRound]
  /\ IF rank_counter + 1 # nworker
       THEN /\ rank_counter' = rank_counter + 1
            /\ pc' = [pc EXCEPT ![p] = "rank_wait"]
            /\ UNCHANGED <<worker_id_to_ranks, pending_nodes, rankRound>>
       ELSE /\ rank_counter' = 0
            /\ worker_id_to_ranks' \in ReallocRanks(worker_id_to_ranks)
            /\ pending_nodes' = 0
            /\ rankRound' = rankRound + 1
            /\ pc' = [WakeRankCond(pc) EXCEPT ![p] = "read_rank"]
  /\ UNCHANGED <<nworker, new_node_counter, addrs, addr_to_ranks, rank,
                 starts, reply>>

\* self.rank = worker_id_to_ranks[worker_id], read outside any lock.
ReadRank(p) ==
  /\ pc[p] = "read_rank"
  /\ rank' = [rank EXCEPT ![p] = worker_id_to_ranks[p]]
  /\ pc' = [pc EXCEPT ![p] = "addr_sync"]
  /\ UNCHANGED <<nworker, worker_id_to_ranks, rank_counter, new_node_counter,
                 pending_nodes, addrs, addr_to_ranks, starts, reply,
                 rankRound, joinedRound>>

\* Mutation of AddrSync: phase 2 never waits for the table to fill.
AddrSyncNoWait(p) ==
  /\ pc[p] = "addr_sync"
  /\ addrs' = (rank[p] :> p) @@ addrs
  /\ addr_to_ranks' = InvertAddrs(addrs')
  /\ pc' = [WakeRankCond(pc) EXCEPT ![p] = "reply_world"]
  /\ UNCHANGED <<nworker, worker_id_to_ranks, rank_counter, new_node_counter,
                 pending_nodes, rank, starts, reply, rankRound, joinedRound>>

(* with rank_cond: phase 2.  addrs[rank] = addr; the thread that finds    *)
(* |addrs| = nworker rebuilds addr_to_ranks with utils.invert_dict and    *)
(* wakes every waiter.  Without invert_dict that call raises and the      *)
(* thread dies, leaving the lock but waking nobody.                       *)
AddrSync(p) ==
  /\ pc[p] = "addr_sync"
  /\ addrs' = (rank[p] :> p) @@ addrs
  /\ IF Cardinality(DOMAIN addrs') # nworker
       THEN /\ pc' = [pc EXCEPT ![p] = "addr_wait"]
            /\ UNCHANGED addr_to_ranks
       ELSE IF HasInvertDict
              THEN /\ addr_to_ranks' = InvertAddrs(addrs')
                   /\ pc' = [WakeRankCond(pc) EXCEPT ![p] = "reply_world"]
              ELSE /\ pc' = [pc EXCEPT ![p] = "dead"]
                   /\ UNCHANGED addr_to_ranks
  /\ UNCHANGED <<nworker, worker_id_to_ranks, rank_counter, new_node_counter,
                 pending_nodes, rank, starts, reply, rankRound, joinedRound>>

\* send the peers on the same host (addr_to_ranks[addr]) and nworker, both
\* read outside any lock.
ReplyWorld(p) ==
  /\ pc[p] = "reply_world"
  /\ reply' = [reply EXCEPT ![p] = [rank |-> -1, world |-> nworker, peers |-> {},
                                     same |-> addr_to_ranks[HostOf[p]]]]
  /\ pc' = [pc EXCEPT ![p] = "reply_peers"]
  /\ UNCHANGED <<nworker, worker_id_to_ranks, rank_counter, new_node_counter,
                 pending_nodes, addrs, addr_to_ranks, rank, starts,
                 rankRound, joinedRound>>

\* with tracker_lock: send rank, then the ranks of addrs below it (to
\* connect to) and above it (to accept from).
ReplyPeers(p) ==
  /\ pc[p] = "reply_peers"
  /\ reply' = [reply EXCEPT ![p].rank = rank[p],
                            ![p].peers = DOMAIN addrs \ {rank[p]}]
  /\ pc' = [pc EXCEPT ![p] = "idle"]
  /\ UNCHANGED <<nworker, worker_id_to_ranks, rank_counter, new_node_counter,
                 pending_nodes, addrs, addr_to_ranks, rank, starts,
                 rankRound, joinedRound>>

\* Every process has used its commands and every thread is back in FIN:
\* the job is over.
Finished == \A p \in Procs : pc[p] = "idle" /\ starts[p] = MaxStarts

Terminating == Finished /\ UNCHANGED vars

Handler(p) ==
  \/ RestartSync(p) \/ SetRank(p) \/ RankSync(p) \/ ReadRank(p)
  \/ AddrSync(p) \/ ReplyWorld(p) \/ ReplyPeers(p)

Next ==
  \/ \E p \in Procs : RecvStart(p) \/ Handler(p)
  \/ Terminating

\* Each handler thread is runnable whenever it is not blocked on a
\* condition; CPython hands the GIL to every runnable thread in turn.  The
\* workers run one program, so each sends its MaxStarts commands.
Fairness == \A p \in Procs : WF_vars(Handler(p)) /\ WF_vars(RecvStart(p))

Spec == Init /\ [][Next]_vars /\ Fairness

-----------------------------------------------------------------------------
(* Type invariant; also the rendezvous counters of handle_start stay     *)
(* below their targets (each is reset by the arrival that reaches it).    *)
TypeOK ==
  /\ nworker \in Nat
  /\ DOMAIN worker_id_to_ranks \subseteq Procs
  /\ \A q \in DOMAIN worker_id_to_ranks : worker_id_to_ranks[q] \in Int
  /\ rank_counter \in 0..(nworker - 1)
  /\ new_node_counter \in 0..(NNew - 1) \cup {0}
  /\ pending_nodes \in Nat
  /\ \A r \in DOMAIN addrs : addrs[r] \in Procs
  /\ addr_to_ranks \in [Hosts -> SUBSET Int]
  /\ pc \in [Procs -> PCs]
  /\ rank \in [Procs -> Int]
  /\ starts \in [Procs -> 0..MaxStarts]
  /\ rankRound \in Nat /\ joinedRound \in [Procs -> Nat]


\* A start is finished once its thread is back in FIN after a reply.
Replied(p) == pc[p] = "idle" /\ reply[p].world > 0

(* Spec 5, ordering guarantee of `start`: a worker that completes start   *)
(* is told a rank in [0, world) and a peer list holding every other rank  *)
(* of the world.  It is broken if a thread leaves a rank_cond wait before *)
(* its rendezvous is complete (handle_start's `if ... wait()`), or reads  *)
(* nworker and addrs at different moments of an elastic restart.         *)
StartReplyComplete ==
  \A p \in Procs : Replied(p) =>
    /\ reply[p].rank \in 0..(reply[p].world - 1)
    /\ reply[p].peers = (0..(reply[p].world - 1)) \ {reply[p].rank}

(* Spec 8.1: the ranks handed out are distinct: no two handler threads   *)
(* hold the same rank (self.rank, read from worker_id_to_ranks after      *)
(* realloc_ranks has filled in the workers that sent -1).                 *)
RanksDistinct ==
  \A p, q \in Procs :
    p # q /\ rank[p] # -1 /\ rank[q] # -1 => rank[p] # rank[q]

(* Spec 8.1: after a start rendezvous, the assigned ranks are 0..N-1,   *)
(* each exactly once.  When a thread reads its rank from                 *)
(* worker_id_to_ranks after phase 1, the table maps nworker workers onto *)
(* 0..nworker-1: realloc_ranks leaves no gap, no duplicate and no rank    *)
(* out of range.                                                         *)
RanksExact ==
  \A p \in Procs : pc[p] = "read_rank" =>
    /\ Cardinality(DOMAIN worker_id_to_ranks) = nworker
    /\ Range(worker_id_to_ranks) = 0..(nworker - 1)

(* Spec 4.E.1 and 5: start is an N-party rendezvous: a thread gets past   *)
(* phase 1 of handle_start only once the round it joined has been         *)
(* completed by the nworker-th arrival.                                   *)
StartRendezvous ==
  \A p \in Procs :
    pc[p] \in {"read_rank", "addr_sync", "addr_wait", "reply_world",
               "reply_peers"}
      => joinedRound[p] < rankRound

(* Every start or restart a worker sends is eventually answered and its   *)
(* handler thread returns to FIN (no thread is left in a rank_cond or     *)
(* restart_cond wait, and none dies).                                     *)
StartCompletes == \A p \in Procs : pc[p] # "idle" ~> pc[p] = "idle"

=============================================================================
