# instancy: specifications, model checking and proofs

`instancy` is a Rust library for timely dataflow on Tokio. A dataflow is a graph
of operators. Each worker runs a copy of the graph (or of the part of it that the
physical plan places there), the workers of a process share a pool of threads,
and the processes of a cluster are connected by framed byte streams. Nothing in
the system has a global view: whether an operator may still receive records of a
time, whether a worker is finished and whether a cluster dataflow succeeded are
all decided from local views assembled out of messages.

This directory holds TLA+ models of the parts where that is hard to get right,
the TLC configurations that check them on small instances, and TLAPS proofs of
what can be stated for every instance. Paths below are relative to
`src/instancy/src/` unless they start with `src/`.

## Contents

| File | What it is |
| --- | --- |
| `SpscRing.tla` | the lock-free single-producer single-consumer ring of an in-process edge |
| `BoundedFifo.tla` | what a ring promises: a bounded queue with a close |
| `SpscRingProofs.tla` | the inductive invariant of the ring, for every capacity and index width |
| `WorkerPool.tla`, `MCWorkerPool.tla` | executor tasks, their wake-ups, and the threads that poll them |
| `Progress.tla`, `MCProgress.tla` | distributed progress tracking of one scope, from the operator's ledger to the worker's outcome |
| `*.cfg` | one configuration per run |
| `PROJECT.json` | components, runs, mutants, map from definitions to source lines, findings, hazards, theorems |

## The system, part by part

Each entry says what the part's state is, what changes it, whom it interacts
with, what is hard about it and what it should guarantee. The status in brackets
is that of its model.

**SPSC ring** (`dataflow/channels/spsc.rs`) [modelled: `SpscRing`]. State: a slot
array, `head`, `tail`, `closed`; each end caches the other's index. Operations:
`push`, `try_push`, `pull`, `drain_into`, `close`, `is_exhausted`, drop of either
end, drop of the ring. Hard: no lock, indices that wrap, cached indices that are
stale by design, and wake-ups that the other side may have missed. Guarantees: no
slot is written while full or read while empty, the edge is a bounded FIFO, and a
refused or starved side is always owed a wake-up.

**Worker pool and executor tasks** (`worker_pool.rs`, `executor_task.rs`,
`wake.rs`, `poll_sweeps` of `dataflow/executor.rs`) [modelled: `WorkerPool`].
State: a task's IDLE/QUEUED/POLLING/DONE word, its future and its completion, the
ready queue, the injector of one-shot jobs, the threads and the park mutex.
Operations: register, submit, notify, wake, poll, park, idle exit, spawn,
shutdown, `abort_all`. Hard: a wake that races the end of a poll, work enqueued
while a thread goes to wait, shutdown against both. Guarantees: one carrier per
runnable task, no lost wake-up, completions last and once.

**Progress** (`progress/`, `dataflow/shell/`, `dataflow/plan.rs`,
`run_one_sweep_inner` of `dataflow/executor.rs`) [one scope modelled: `Progress`].
State: per worker a ledger of uncommitted changes, a tracker's counts per
pointstamp, the lanes to its peers, seals, and the decisions taken from them.
Operations: a logic call, the drop of a capability (possibly on another thread),
commit, receive, apply, shut an operator down, seal, succeed. Hard: commits of
different workers are applied in different orders by different workers, a large
commit is split over frames, and every decision is final. Guarantees: no frontier
passes outstanding work, none retreats, nothing reaches an operator that was shut
down, the seal is the last word, a success is global, and everybody succeeds.
Not yet: `ChildScope` and `LoopScope`, lanes closed by a peer that stopped.

**Operator shell** (`dataflow/shell/mod.rs`) [in part, in `Progress`]. Counts what
an operator takes and emits, checks that an output is justified, latches
exhaustion. Not yet: the retry of refused deliveries and watermark forwarding.

**Executor** (`dataflow/executor.rs`) [in part, in `Progress` and `WorkerPool`].
Not yet: cancellation and drain with their deadline, the grace given to a stopped
peer, fused stages and stage tasks.

**Exchange and broadcast channels** (`dataflow/channels/exchange_channel.rs`)
[planned]. State: per producer a pending envelope and the set of targets it is
still owed to; per consumer the watermark of each producer. Operations: `push`,
`try_push`, `close`, drop, `pull`. Hard: a batch that some targets accept and
others refuse is retried. Guarantees: each record reaches its target once and in
order, a close comes after everything, the aggregated watermark never retreats.

**Network channels and progress lanes** (`dataflow/channels/network.rs`,
`progress/network_progress.rs`, `communication/peer_link.rs`) [splitting of
commits modelled in `Progress`; the rest planned]. State: per peer link a retired
flag under an admission lock, an outbox, bridges that move received frames to the
workers. Operations: send, close sentinel, end-of-stream, acknowledgement, seal,
abandon, receive, drop of a pull end with records still on their way. Guarantee:
a record that was accepted is delivered or reported as lost.

**Cluster lifecycle** (`runtime/cluster_lifecycle.rs`) [planned]. State: a phase
(Running, Draining, Finished), what is known of each peer, losses noticed,
announcements made. Operations: a worker finishes, a peer says goodbye,
acknowledges, cancels, or its channels end; local cancellation; timers. Hard:
every pair of these can race, and a node must neither report success for records
that were lost nor wait for a peer that left. Guarantees: success on every node
means every record was delivered; every node's lifecycle ends.

**Control protocol** (`communication/control_protocol.rs`) [planned]. Handshake,
ready barrier, cancel announcements.

**Transports** (`communication/transport_session.rs`, `transport.rs`,
`shared_transport.rs`, `sequencing.rs`, `shared_pool.rs`) [planned]. One payload
FIFO per peer with control frames overtaking; in shared mode, lanes of several
dataflows pinned to pooled connections, sequence numbers, frames that arrive
before their dataflow is registered, connections that fail under several lanes.

**Connection pool** (`communication/connection.rs`) [planned]. Checkout,
return, idle timeout, health check.

**Cancellation** (`cancellation.rs`) [planned]. A tree of tokens; registration of
wake handles racing a cancel; the first reason wins; escalation of a requested
stop to a failure.

**Runtime** (`runtime.rs`, `execute.rs`) [planned in part]. Spawning, completion
handles, their drop.

**Reachability, antichains, change batches** (`progress/reachability.rs`,
`progress/frontier.rs`, `mutable_antichain.rs`, `change_batch.rs`,
`timestamp.rs`) [planned as pure algorithms with reference definitions].

**Notificator and probes** [planned]: a requested notification is delivered
exactly once; a waiting probe is woken.

**Bounded channel, tee, allocator; asynchronous input and output** [planned]:
fan-out with partial acceptance; close and drop of senders and receivers.

**Scheduler and batching** [planned, low priority]: a stand-alone facility that
`RuntimeHandle` does not use.

**Not modelled, and why.** The graph builder: sequential construction whose
results are the constants of the models. The operator library: user-level logic
over the same handles; in `Progress` an operator is *any* logic that obeys them.
Codecs: pure encodings. Checker, trace, metrics and errors: observation only. The
older inter-process layer: `spawn_cluster` does not use it. The integration
harness (`src/instancy-integration`): processes and a relay for tests.

## How the models correspond to the code

### `SpscRing`

Variables carry the names of the code's fields (`slots`, `head`, `tail`,
`closed`, `cached_head`, `cached_tail`). A call is a sequence of steps, one per
load or store of a shared location; `ppc` and `cpc` say where each end is.

* Memory. A Release store becomes visible to the other side's Acquire loads at
  some later moment, in program order. `seenHead` is what the producer's load of
  `head` returns; `seenTail` and `seenClosed` are what the consumer's loads
  return. `ShowHead` and `ShowTail` let them catch up. Taking a notification
  synchronizes with the notify, so it also shows the stores made before it.
* Width. Indices are taken modulo `W` (2^64 in the code), slots modulo `Size`.
* `PStart, PTry, PRefresh, PWrite, PPublish, PNotify` are `push`/`try_push`;
  `PPark`, `PWake` the worker's reaction to a refusal; `PClose`, `PCloseNotify`
  `close` and the drop of `SpscPush`. `CPull, CRefresh, CRead, CAdvance, CFreed`
  are `pull`; `CDrain` starts `drain_into`; `CLoadClosed, CLoadTail` are
  `is_exhausted`; `CDrop`, `DropRing` the drops.

`BoundedFifo` is the abstract edge: a sequence of at most `Capacity` envelopes, a
close flag, and an end-of-input answer. `ImplementsFifo` maps the ring to it: the
queue is what a pull in progress has moved out, followed by the occupied slots.

### `WorkerPool`

A dataflow is abstracted to a count of events `posted` to it and `handled` by its
sweeps. Every compare-and-swap, flag store, queue operation and acquisition of
the park mutex is a step. The senders stand for any thread that notifies,
registers or submits. A sweep may complete (or fail, or panic), continue, exhaust
the poll budget or run out of input. `Init` starts `MinThreads` threads, as the
pool does. `BeginShutdown` excludes senders inside `submit`, since the pool is
dropped through an owning handle.

A job that is submitted while shutdown runs may be left in the injector and
dropped with it. Nothing in the documentation promises otherwise, so no property
is stated about it.

### `Progress`

The counted things (records on their way, capabilities held) are *units*. A
tracker's count at a pointstamp is the number of units it has seen appear there
minus the number it has seen go; identities exist only for the properties. One
`Call` is one logic call with at most one record taken and one thing created;
calls that do more are several calls without a commit in between. `Sweep` is one
`run_one_sweep_inner`: commit, send, receive any prefix of each lane, apply, shut
down, seal, decide; a `Retained` dropped on another thread between the commit and
the decision is the `late` set. `Frames` is the splitting of an oversized commit.
Channels, retry queues and input buffers are one place: a record counts from the
call that emits it to the call that takes it, whichever of them holds it.

## Runs

| Run | Instance | Shows |
| --- | --- | --- |
| `spsc_ring` | capacity 2 of 4 slots, indices modulo 8, two envelopes | slot safety, exact drop, owed wake-ups, refinement of `BoundedFifo`, `IInv` |
| `spsc_ring_live` | capacity 2, indices modulo 4, one envelope | refused pushes are accepted, closes are seen |
| `worker_pool` | 2 threads, 2 senders, 1 task, 2 events, 1 job | one carrier, nothing overlooked, completion order, shutdown complete, DONE final |
| `worker_pool_live` | 2 threads, 2 senders, 1 task, 1 event | every event handled without a timeout; shutdown ends |
| `worker_pool_min` | 2 threads, minimum 1 | *violation*: two idle threads leave together and the pool drops below `min_threads` |
| `progress` | 2 workers, source (broadcast), operator, sink; 3 units, 1 time | frontier safety, nothing after shutdown, seal last, no residual, success global |
| `progress_times` | as above with exchanges, 2 units, 2 times | frontier safety and monotonicity with delayed and downgraded capabilities |
| `progress_live` | as above, 2 units, 1 time | every worker eventually succeeds |

### Bounds, and why they are enough

* Ring. With capacity 2 the ring is empty, partly filled and full; four slots for
  two usable ones is the only case in which a full ring and its slots differ; with
  `W` = 8 the indices wrap twice as slowly as the slots, so every alignment of
  the two wraps occurs. Two distinct envelopes are enough to see a reordering of
  neighbours. The proof removes these bounds for slot safety.
* Pool. Two threads are needed for a poll by one and a park by the other, two
  senders for two wakes of one task. A second event lets a task be woken after it
  rested. `MaxEvents` also ends the dataflow. Threads and senders are
  interchangeable, hence the symmetry.
* Progress. Two workers are the least that give the commits of one record's
  production and consumption to different lanes; the uneven placement (the source
  and the sink on one worker only) makes scopes differ. Three units are a
  broadcast record's two copies and what is made of one of them. The second time
  is checked in a run of its own, with exchanges. Units not yet created are
  interchangeable.

Deadlock is not checked for the ring and the pool: both come to rest when nobody
pushes, closes or posts. In `Progress` it is checked, with an explicit `Ended`
step once every worker has an outcome.

### Fairness, and why the code justifies it

* Ring: the worker of each end keeps running what it started and what it was
  woken for (the pool model shows that wake-ups reach the executor), and stores
  become visible. `Pull` needs strong fairness because the operator may ask
  `is_exhausted` any number of times before it pulls. Nobody must push or close.
* Pool: the operating system runs runnable threads, and nobody waits for ever
  for a mutex released again and again (strong fairness). No timeout is assumed
  to fire.
* Progress: executors keep sweeping while there is something to apply, lanes
  deliver, and the user's logic takes its input and eventually drops what it
  holds. The last is an assumption about the user, not the library.

## Proofs

`SpscRingProofs` proves, for every capacity, every allocated size and every index
width that is a multiple of it:

* `Inductive`: `Spec => []IInv`;
* `TypeCorrect`: `Spec => []TypeOK`;
* `SlotsAreSafe`: `Spec => []SlotSafety`.

Slot safety is not inductive: whether the producer may write depends on how stale
`cached_head` is, and whether the consumer may read on how stale `cached_tail`
is. `IInv` adds the order of the seven indices, measured from `cached_head`
around the wrap and never more than the capacity long (`IndexOrder`); what each
end knows in the middle of a call (`AtEachStep`); and that the occupied slots are
exactly those of the window from the first envelope not moved out up to `tail`
(`SlotsHold`). The assumptions are those of `SpscRing`: positive capacity, size
larger than the capacity, width a multiple of the size. That the size is the
smallest sufficient power of two (`SizeAssumption`) is not used. The lemmas on
modular distance (what an increment does to a distance, when two indices share a
slot) are proved first and cited by every action.

Only model-checked: the refinement of `BoundedFifo` (it needs an induction over
the queue), the wake-up invariants, all liveness properties (they need ENABLED),
and everything about the pool and progress so far.

## A disagreement between code and documentation

`WorkerPoolConfig::min_threads` is documented as "Minimum number of worker
threads (always kept alive)". An idle thread compares `thread_count` with the
minimum under the park mutex but leaves the count only as it exits, after
releasing the mutex; two threads can pass the test one after the other and both
leave. The comment at the test expects "one extra thread" to exit and "new
submits" to respawn it, but a task that is woken is enqueued without spawning.
`worker_pool_min` shows the pool without any thread.

## Plan

In order of what would hurt most if it were wrong; each module is written so that
its safety can be proved (recursive functions or folds, no RECURSIVE operators).

1. `ClusterLifecycle`: `LifecycleMachine`, its driver, the peer link, network
   channel ends and progress markers, two nodes with a connection that may fail.
   Properties: a success on every node means every accepted record was delivered;
   nothing is enqueued behind the acknowledgement; a loss is never reported as
   success; every lifecycle ends. It composes with `Progress` through "a worker
   finished", which `Progress` shows to be global.
2. `ExchangeChannel` over `BoundedFifo` endpoints: partial acceptance, retry,
   close and drop, watermark aggregation; refinement of one FIFO per producer and
   consumer. With it the shell's owed deliveries and `TeePush`.
3. `Cancellation` with the executor's drain: wake registration against cancel,
   first reason, escalation, deadline, stopped peers.
4. `SharedTransport` and `TransportSession`: lanes, sequence check, early frames,
   control priority, fail-stop; an abstract lane (a prefix of what was sent is
   delivered, in order) that both implement and that `ClusterLifecycle` uses.
5. Control protocol handshake and ready barrier; connection pool.
6. Loop scopes in `Progress`; reachability, antichains and change batches as pure
   functions compared with their reference definitions.

Theorems, in order: `FrontierSafe` and `SealIsLast` of `Progress` (view plus what
is under way equals the truth; every pending batch justifies its negative changes
before it makes them; a minimal-pointstamp argument); `OneCarrier` of
`WorkerPool`; delivery of `ClusterLifecycle`; the step simulation of the lane
refinement. Liveness stays with TLC.
