# TLA+ models of the RDC tracker

These modules model the coordination server ("tracker") of RDC,
`src/tracker/tracker.py`, and the pieces around it. The models are
written from the code. `spec.md` is used only to state what the code
promises. Every definition that models code is listed, with its source
lines, in `PROJECT.json` under `map`.

## 1. Inventory

### Components

| Component | Source | State it keeps | Operations |
|---|---|---|---|
| Framed-message codec `ExSocket` | tracker.py 38-77 | none (a socket) | `recvall`, `recvint/str/bytes`, `sendint/str/bytes` |
| Topology builder `TopoHelper` | topo.py | none (pure) | `get_neighbor`, `get_tree`, `find_share_ring` (recursive DFS), `get_ring`, `get_link_map` (relabel in ring order) |
| Job state `Tracker` | tracker.py 335-395 | `nworker`, `worker_id_to_ranks`, `rank_counter`, `addrs`, `addr_to_ranks`, `names`, `name_to_ranks`, `name_to_barrier_counter/cond`, `last_comm`, `pending_comms`, `comm_added`, `lock_counter`, `last_heartbeat_timepoint`, `dead_nodes`, `pending_nodes`, `new_node_counter`, `checkpoints`; locks `tracker_lock`, `rank_cond`, `restart_cond`, `node_lock`, `register_lock`, `comm_lock`, `comm_cond` | `realloc_ranks` |
| Server loop | tracker.py 397-415 | next `worker_id` | accept a connection; spawn a handler thread that calls `handle()` until it returns False |
| Dispatcher `TrackerHandler.handle` | tracker.py 103-135 | `state` (FIN/CMD), `cmd` | read a command word, then run its handler |
| start / restart | tracker.py 137-213 | see job state | restart_cond rendezvous of the joiners and the `nworker` bump; phase 1 on `rank_cond` (count, `realloc_ranks`, wake all); phase 2 on `rank_cond` (fill `addrs`, rebuild `addr_to_ranks`, wake all); reply |
| register / barrier | tracker.py 256-279 | per-name counter and condition | lazy creation of a name; N-party barrier per name |
| exclude / unexclude | tracker.py 225-254 | `last_comm`, `pending_comms`, `comm_added`, `lock_counter` | take or queue the named lock; N-party rendezvous that hands the lock to a pending name |
| Failure detector | tracker.py 283-314 | `last_heartbeat_timepoint`, `dead_nodes` | `heartbeat` updates the time stamp; the `deamon` thread of every connection checks it every 5 s |
| Checkpoint store | tracker.py 295-303 | `checkpoints` | `checkpoint` overwrites; `load_checkpoint` replies only if present |
| Bootstrap / env | tracker.py 440-483, utils.py | none | pick host and port, build the launcher environment |
| Launchers | launcher_local/ssh/tmux.py | retry counter | run workers in a `keepalive` loop that relaunches on exit 254 |
| Async tracker | tracker_aio.py | as the tracker | an incomplete variant (spec 9 says ignore it) |
| Client bindings | src/rdc/*.py | handles | ctypes wrappers over the native library (not in the repository) |

### How they interact

One handler thread runs per connection, and one `deamon` thread runs
per connection. All of them share the `Tracker` object. A command
handler takes a lock or a condition, mutates shared fields, and either
waits or calls `notify_all`. It sends its replies outside the lock.
The rendezvous commands (`start`, `restart`, `barrier`, `unexclude`)
are N-party meetings: every thread counts itself in, and the N-th
thread resets the counter and wakes the others. `N` is
`tracker.nworker`, which a `restart` can raise at any time. The
`deamon` threads write `dead_nodes`. `heartbeat` and `start` read it.
Workers are relaunched by the launcher's keepalive loop. A relaunched
worker opens a new connection, so it gets a new `worker_id`, while the
old handler thread may still be blocked in a wait.

### What is hard

* Condition waits are written `if cond: wait()`, never re-checked.
  `start` waits on the same `rank_cond` in two different phases.
* `nworker`, `addrs`, `addr_to_ranks` and `pending_nodes` are read
  outside the lock that guards them.
* `restart` changes `nworker` while other rendezvous are in progress.
* Worker crashes: a dead worker's thread stays counted in a
  rendezvous, its `worker_id_to_ranks` entry stays, and its socket
  makes `recvall` spin.
* Timing: the heartbeat deadline and the `deamon` period.
* Fairness of the named lock: `pending_comms` is an unordered set,
  and `comm_added` is never cleared.

### What makes each component correct (spec 3, 5 and 8)

* start: after a completed start, the ranks are `{0..N-1}`, each
  given once. Every worker receives its rank, the world size and all
  other ranks. No worker leaves a rendezvous before all N have
  arrived. Every start is answered.
* barrier: no worker leaves `barrier(n)` before all N have entered this
  epoch. The counter is back at 0 between epochs. Every barrier
  completes once all N have entered.
* exclude: at most one name holds the lock. Two workers of different
  names are never both inside their critical sections. A queued name
  eventually gets the lock.
* failure detector: `dead_nodes` only grows. A worker that stops
  heartbeating is eventually reported dead. A worker that keeps
  heartbeating is never reported dead.
* checkpoint: a load after a checkpoint returns that checkpoint.
* topology: the ring is a Hamiltonian cycle on `0..N-1`. Tree plus
  parent form a tree rooted at 0 with N-1 edges, and the relabelling
  is a bijection.

## 2. Plan

Modules, in order of importance. Their status is in brackets.

1. `TrackerStart` + `MCTrackerStart` [done]: `handle_start`, the
   restart bump and `realloc_ranks`, with a thread per worker, in a
   fixed world and with an elastic join.
2. `NamedBarrier` [done]: `register` and `barrier`, with the
   abstract `BarrierSpec` (an N-party barrier in the style of an
   abstract barrier: all enter, then all leave) and a refinement
   mapping. The refinement is a PROPERTY of the crash-free runs.
3. `Exclude` [done]: `exclude` / `unexclude`, checked for mutual exclusion of
   critical sections, completion of `unexclude`, refinement of the
   abstract group lock `ExcludeSpec`, and starvation (liveness).
4. `FailureDetector` [done]: `heartbeat` and the `deamon` loop with
   discrete time in seconds, modelling the unit mismatch and the
   `list.add` failure. Checked against the spec's detection deadline.
5. `Connection` [done]: one worker's connection over `ExSocket`
   framing: the dispatcher, `print`, `heartbeat`, `checkpoint`,
   `load_checkpoint` and `shutdown`, the deamon thread, worker deaths and
   relaunches. It shows the `recvall` spin on a closed socket, and the
   loss of a checkpoint across a relaunch.
6. `Topo` [done]: `TopoHelper` as RECURSIVE operators, with every
   order of the `cset` iteration allowed, checked for N = 1..12
   against a reference ring and tree.
7. Deaths and relaunches [partly]: `NamedBarrierCrash` and
   `Connection` model connections separate from processes. A dead
   worker's thread stays blocked or spins in `recvall`, and the
   keepalive loop relaunches the worker on a new connection. Still
   open: deaths in `TrackerStart`, for the stale `worker_id_to_ranks`
   entry (`tracker.py:419`), whose effect `RanksExact` states.
8. `Tracker` [open]: composition of start, barrier and exclude sharing
   `nworker`, to check a restart bump against waiting barriers.

Bounds are three workers (two for the rendezvous-escape run, four for
`exclude`, as in scenario 3) and at most two or three commands per
worker. Three workers are the smallest
world where a joiner meets two running workers, and where realloc has
two -1 entries to order. A third start per worker is what lets a
round's phase-2 wake reach the next round's phase-1 waiter.

## 3. Modules

### TrackerStart (`TrackerStart.tla`, `MCTrackerStart.tla`)

**State.** Variables carry the names of the `Tracker` fields:
`nworker`, `worker_id_to_ranks`, `rank_counter`, `new_node_counter`,
`pending_nodes`, `addrs` and `addr_to_ranks`. `pc[p]` is the point of
`handle_start` that the thread of worker `p` has reached. `rank[p]` is
`self.rank`, and `reply[p]` is what the worker has been sent. Two
history variables, `rankRound` and `joinedRound`, record the
phase-1 rounds so that the rendezvous property can be stated. A
connection is a process, because workers do not crash in this module.

**Actions.** Each action is one lock section of the code, or one read
made outside a lock:

* `RecvStart`: `handle` reads `start` or `restart` and the rank. A
  worker sends -1 until it has a rank, then that rank.
* `RestartSync`: the `restart_cond` section.
* `SetRank`: the `tracker_lock` section.
* `RankSync`: phase 1, including `realloc_ranks` and `notify_all`.
* `ReadRank`: `self.rank = worker_id_to_ranks[...]`, read outside any
  lock.
* `AddrSync`: phase 2, including the `invert_dict` call.
* `ReplyWorld`: the same-host peers and `nworker`, read outside any
  lock.
* `ReplyPeers`: the `tracker_lock` section that sends the rank and
  the peers.

A `notify_all` moves every waiter on `rank_cond`, of either phase, past
its `if` (`WakeRankCond`). `realloc_ranks` visits entries in dict
insertion order, which the model does not track, so any order is
allowed (`ReallocRanks`). `HasInvertDict` selects between the code as
it is (the call raises) and the evident intent.

**Fairness.** Weak fairness of every handler thread: CPython gives
the GIL to every runnable thread. Weak fairness of each worker's next
command, because the workers run the same program.

**Runs.**

| run | expect | shows |
|---|---|---|
| start_static | pass | N=3 with two starts each: replies are complete, ranks distinct, and the rank table maps the world onto 0..N-1 exactly once (`RanksExact`, spec 8.1) |
| start_elastic_ranks | pass | one joiner: ranks stay distinct |
| start_rendezvous | violation | N=2, three starts: a phase-2 `notify_all` frees a phase-1 waiter of the next start |
| start_elastic | violation | a running worker is told world 3 with one peer |
| start_elastic_stall | violation | the join can deadlock the world |

`RanksExact` is checked only in the fixed world. With a joiner it
fails: the restart bump raises `nworker` while threads of the running
round are about to read a two-entry table. That is the race
`start_elastic` shows through the reply. An off-by-one in
`realloc_ranks` (`last_rank` starting at 1) leaves the ranks distinct
but not 0..N-1, so `RanksExact` catches it and `RanksDistinct` does not.

All runs set `HasInvertDict = TRUE`. They check the code as if
`utils.invert_dict(addrs)` existed, with its evident meaning of host
to ranks. `src/tracker/utils.py` does not define it. With
`HasInvertDict = FALSE` the first start already deadlocks: the thread
that completes the address table dies before its `notify_all`. TLC
reaches that deadlock from `start_static.cfg` with the flag set to
FALSE. For that reason no passing run states that every start is
answered: such a property would hold only for the code with the call
fixed. `StartCompletes` is checked only in `start_elastic_stall`, whose
deadlock comes before line 184 and so holds for the code as it is.

### NamedBarrier (`NamedBarrier.tla`, `NamedBarrierCrash.tla`, `BarrierSpec.tla`, `MCNamedBarrier.tla`)

**State.** `names`, `name_to_ranks`, `name_to_barrier_counter` and
`comm_added` are the `Tracker` fields that `register` creates. A
connection is a pair of a worker and its incarnation. `tpc[c]` is the
point its handler thread has reached. `tname[c]` and `tpos[c]` are the
name it read and the program step that issued the call. `up`, `inc`
and `pos` are the worker process. The workers run one program `Prog`
of `register` and `barrier` calls (`MCProg`: register g, barrier g
twice, register h, barrier h). `arrived` is a history variable that
records the barrier steps each worker has counted itself in at.

**Actions.**

* `SendCmd`: `handle` in FIN reads the command and name.
* `Register`: the `register_lock` section. It does not reply, so the
  worker moves on at once.
* `BarrierSync`: the `name_to_barrier_cond[name]` section. It counts
  in, then waits, or resets and `notify_all`s. A name that was never
  registered raises KeyError, and the thread ends.
* `BarrierReply`: `sendstr("barrier_done")`. On a dead connection the
  send raises and the thread ends.
`NamedBarrier` has no deaths. `NamedBarrierCrash` extends it with the
two actions below, `NextCrash` and `SpecCrash`:

* `Crash`: a worker process exits. Its socket closes, but its handler
  thread stays where it is. A blocked thread stays blocked and
  counted. An idle one spins in `recvall` and never reads a command.
* `Relaunch`: the keepalive loop of `launcher_local.py` runs the
  worker again. It connects anew and redoes the call it had not
  finished.

**Abstraction.** The `start` a relaunched worker sends first is not
modelled (see TrackerStart). The worker is assumed to get its old rank
back, so ranks are process identities here.

**Refinement.** `BarrierSpec` is what `barrier(name)` promises: per
name, a set `inside` of workers that have arrived. The N-th distinct
arrival empties the set. `NamedBarrier` maps to it with `inside[n]`
being the owners of threads blocked in the barrier wait of `n`, and
`N` being `nworker`. `BarrierRefinement` is checked as a PROPERTY.

**Fairness.** Weak fairness of every handler thread, of each live
worker's next command and of `Relaunch`, because the keepalive loop
always relaunches a worker that exits with 254. `Crash` has no
fairness: a worker need never die.

**Runs.**

| run | expect | shows |
|---|---|---|
| barrier | pass | 3 workers, no deaths (`Spec`): barrier safety, each name's counter equals its number of waiting threads, refinement of BarrierSpec, every barrier returns |
| barrier_crash | violation | with deaths (`SpecCrash`): a worker dies in a barrier wait; its relaunch counts in again and releases the barrier early |

### Exclude (`Exclude.tla`, `ExcludeSpec.tla`, `MCExclude.tla`)

**State.** `last_comm`, `pending_comms`, `comm_added` and
`lock_counter` are the `Tracker` fields. `pc[p]` combines worker `p`
with its handler thread.

**Client.** The code that calls `exclude` lives in the native library,
which is not in the repository. The worker loop is taken from spec
4.E.4 and scenario 3, and is marked spec-modelled in the map:

* `RequestLock`: send `exclude(group)`.
* `SendUnexclude`: after `exclude_done` and the critical section, or
  after `exclude_undone`, send `unexclude`. Then start over.

**Actions.**

* `Exclude`: the `comm_lock` section of `handle_exclude`.
* `UnexcludeSync`: the `comm_cond` section, including `HandOver`,
  the `comm_lock` section that pops any pending name.
* `UnexcludeReply`: `sendstr('unexclude_done')`.

**Refinement.** `ExcludeSpec` is what the protocol promises (spec
4.E.4 and scenario 3), without the queue or the counter:
* A lock `holder` that a name may take when it is free.
* A set `inside` of workers in their critical section, who must be of
  the holder's name.
* A set `arrived` of workers at the `unexclude` rendezvous. Only the
  last of all nworker arrivals may move the lock, to any name or to
  none.

`Exclude` maps to it as follows: `holder` is `last_comm`, `inside` is
the workers in `cs`, and `arrived` is the threads blocked in
`comm_cond.wait()`. `ExcludeRefinement` is checked as a PROPERTY. It
says more than `MutualExclusion`. `last_comm` may change only when it
is None, or at the nworker-th arrival with nobody inside, and
`lock_counter` must count the waiting threads for that arrival to
come at the right time.

**Fairness.** Weak fairness of each worker together with its thread.
Nothing favours one worker's `exclude` over another's, and `set.pop`
may pick any element.

**Runs.**

| run | expect | shows |
|---|---|---|
| exclude | pass | scenario 3, groups a,a,b,b: only last_comm's workers are ever in a critical section; every unexclude returns; the code refines `ExcludeSpec` |
| exclude_starvation | violation | groups a,a,b: a schedule fair to every thread in which, once each group was queued, a worker never gets `exclude_done` again |

The starvation has two causes in the code, and TLC's trace shows both.
First, the taker of a free lock is told `exclude_undone` (line 235),
where spec 4.E.4 says `exclude_done`. Second, `comm_added` is never
cleared (line 232). When only one cause is fixed, the model still
shows a way to starve:

* Taker told `exclude_done`, `comm_added` never cleared: a group that
  was queued once can lose every race for the free lock.
* `comm_added` cleared, taker told `exclude_undone`: a one-worker job
  takes the lock and frees it again, forever.

With both fixed, two groups always alternate. With three groups,
`set.pop` can pass over one queued group forever, which spec 4.E.4
leaves as an open question.

### Topo (`Topo.tla`, `MCTopo.tla`)

`TopoHelper` is pure, so `Topo` is a set of operators. The state
`(n, lst)` is fixed at Init, and `Next` leaves it unchanged.

* `GetNeighbor`, `TreeMap` and `ParentMap` are `get_neighbor` and
  `get_tree`: the binary heap over ranks `0..n-1`.
* `ShareRings` and `SubtreeLists` are `find_share_ring`, mutually
  RECURSIVE. The code iterates over a Python `set` of children, whose
  order follows the hash table: for children 7 and 8 CPython visits 8
  first. `ShareRings` therefore returns the set of lists the code
  returns for every order of each `cset`, using `SetToSeqs`.
* `GetRing` and `LastIndex` are `get_ring`. A dict built in list
  order keeps the last value written for each key.
* `RingWalk`, `RMap`, `RelabelTree`, `RelabelParent`, `RelabelRing`
  and `LinkMap` are `get_link_map`: walk the ring from 0, then
  relabel every map by place in the walk.

Init takes every `n` in `1..MaxN` and every list `ShareRings` can
return, so one run checks every iteration order of every world size
up to 12. The order of a node's children changes the ring from
`n = 3` on. Sizes up to 12 give trees of four levels, where the
reversal of nested subtree lists meets every order of their
children; the run takes seconds.

| run | expect | shows |
|---|---|---|
| topo | pass | the share ring is a permutation; the relabelled ring is `i -> (i-1, i+1) mod n`; the relabelled parent map is a tree rooted at 0 whose `tree_map_` agrees with it; at least `n div 2 + 1` ring links are tree links |

The last property states the comment of `find_share_ring` ("a ring
that tends to share nodes with the tree"). Without the reversal of
the last child's list it fails already at `n = 4`.

### FailureDetector (`FailureDetector.tla`, `MCFailureDetector.tla`)

**State.** `last` is `last_heartbeat_timepoint` and `dead_nodes` is
the `Tracker` field. For each connection, `wake` is the end of its
deamon's sleep, and `deamon` says whether the deamon thread is still
running. For each worker, `up` and `hb` are its liveness and next
heartbeat. `now` is `time.time()` in whole seconds.

**Actions.**

* `Init`: `TrackerHandler.__init__` stamps the connection and starts
  the deamon.
* `Heartbeat`: `handle_heartbeat` stamps the connection. Its replies
  change no state.
* `DeamonWake`: one turn of the `deamon` loop. It compares
  `now - last` with `2 * HEARTBEAT_INTERVAL_MS`, a millisecond
  constant (10000), and over it `dead_nodes.add` raises on the list
  and ends the thread.
* `Crash`: a worker stops heartbeating.
* `Tick`: a second passes once every heartbeat and deamon wake due at
  this second has happened.

The client's heartbeat period is `RDC_HEARTBEAT_INTERVAL`, which
`submit` sets to `HEARTBEAT_INTERVAL_MS` (5 s). `MaxTime` bounds time
to 25 s, enough for the spec's deadline (10 s plus one 5 s check).
Time stops at the bound, so the run does not check deadlock.

| run | expect | shows |
|---|---|---|
| detector | violation | a worker silent for 16 s is still not in `dead_nodes` |

The deamon reports a worker only after 10000 s, not 10 s. Even then
`dead_nodes.add` raises, so no worker is ever reported dead.

### Connection (`Connection.tla`, `MCConnection.tla`)

**State.** A connection is a worker and its incarnation, as in
`NamedBarrierCrash`. `wire[c]` holds the framed values sent on `c` and
not yet read. A length-prefixed string or blob is one value, and bytes
are not modelled. `closed[c]` says the worker's end is closed. `hpc[c]` is where
the handler thread is: in FIN, in CMD with `cmd[c]` read, spinning in
`recvall`, joining the deamon, or ended. `shutdown[c]` and `dpc[c]`
are the handler's flag and its deamon thread. `checkpoints` is the
`Tracker` store. On the worker side, `wpc` is ready, sending a
payload, waiting for a reply, or done, and `rest` is the payload still
to be written. `mine` and `got` are history variables: the blob of the
rank's last completed checkpoint, and the blob its last
`load_checkpoint` reply returned since then.

**Actions.** The tracker side follows `TrackerHandler.handle`, one
action per branch:
* `RecvCmd` is the FIN read. `HandlePrint`, `HandleCheckpoint`,
  `HandleHeartbeat`, `HandleLoadCheckpoint` and `HandleShutdown` are the
  CMD branches, each ending with `ToFin`, the reset to FIN with `cmd`
  set to None.
* `Join` is the return of `deamon_thrd.join()`, after which the thread's
  loop in `Tracker.listen.run` ends.
* `RecvClosed` is `recvall` on a closed, drained socket. There `recv`
  returns `b''` forever and the handler spins.
* `Reply` is a send. On a closed socket it either raises, which ends
  the thread, or is accepted by the kernel.
* `DeamonTurn` is one pass of the `deamon` loop.

The worker side is the native client, modelled from spec 4.C/4.D
(`SendCommand`, `SendPayload`). The client writes a command and its
payload separately, so a worker can die between them. `Crash` is a
worker exiting with 254. The kernel closes its socket, and what it
wrote is still delivered. `Relaunch` is the keepalive loop running it
again, and `Tracker.listen` accepting the new connection.

**Abstraction.** The deamon's comparison of the heartbeat age with its
threshold is a free choice: time is `FailureDetector`'s concern. A
connection's rank is its worker, because `start` is `TrackerStart`'s
concern.

**Fairness.** Weak fairness of every handler thread and deamon thread
(the GIL hands each runnable thread its turn), and of `Relaunch` (the
keepalive loop). Workers need not send anything, and need not die.

| run | expect | shows |
|---|---|---|
| connection_close | violation | a worker dies while its handler waits in FIN; the handler spins in `recvall` forever and never ends |

`connection_close.cfg` has one worker that may die once, with two
commands. Deadlock is not checked there, because a worker waiting
forever for a reply to `load_checkpoint` is a real end state (see
Not modelled).

`connection_checkpoint.cfg` checks `CheckpointRoundTrip` (spec 8,
invariant 5) with two blobs and three commands, and TLC finds it
violated in 12 steps:
1. The worker stores b1.
2. It writes `checkpoint` and b2.
3. It dies before its old handler reads them.
4. The relaunched worker's `load_checkpoint` returns b1.

This configuration is not one of the
project's registered runs. The hazard at `tracker.py:296` in
`PROJECT.json` records it.

## 4. Not modelled

* The data plane and the native client library, which are not in the
  repository. The Python bindings in `src/rdc` (`core.py`, `comm.py`,
  `base.py`, `env.py`, `buffer.py`) are ctypes calls into that library
  and hold no state of their own.
* The Python entry points of the launchers, and the bootstrap in
  `tracker.submit` and `Tracker.join`. As written, they fail before any
  concurrent state exists:
  `LocalLauncher.run` reads `args.new_worker`, `args.host_ip` and
  `args.port`, and `TmuxLauncher.run` reads `args.new_worker`;
  `args.parse_args` defines none of them. `SSHLauncher.__init__` unpacks the two results of
  `parse_config_file` into three names. `submit` passes `host_ip` as
  the `nworker` argument of `utils.basic_tracker_config`, so
  `RDC_NUM_WORKERS` would be the host string. `Tracker.join` calls
  `Thread.isAlive`, which Python 3.9 removed, and waits for a listen
  thread that never ends. A model of them would be a model of their
  first exception. The part that does run, the `keepalive` shell loop
  that relaunches a worker exiting with 254, is the `Crash`/`Relaunch`
  pair of `NamedBarrierCrash` and `Connection`.
* Logging and CLI parsing.
* The async tracker variant (`tracker_aio.py`). Its `Tracker.start`,
  `_accept_worker` and `realloc_ranks` are defined inside `__init__`,
  so `submit` fails on `tracker.start`. Its handlers mix `yield from`
  with plain calls, and spec 9 says to ignore it.
* A `load_checkpoint` for a rank with no blob. The handler sends
  nothing, so the worker and its handler wait for each other forever
  (in `Connection`, the worker stays in `wait` and the handler in FIN).
  Spec 7 prescribes exactly this omission and lists it as an open
  question, so no property claims a reply.
* The sends of `dead_nodes` and `pending_nodes` in `start`. They change
  no state, so they are left out of `TrackerStart`.
