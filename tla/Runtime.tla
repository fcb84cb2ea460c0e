------------------------------- MODULE Runtime -------------------------------
(* A RuntimeHandle of runtime.rs, with a SimpleRuntime beside it: the calls  *)
(* that spawn dataflows and what they undo when a phase fails, the results   *)
(* of the workers and the futures that wait for them, the count behind       *)
(* wait_idle, user tokens, and the registry through which the failure of a   *)
(* peer stops the cluster dataflows that need it.                            *)
(*                                                                           *)
(* A worker's executor is abstracted to its result.  The phases of a spawn   *)
(* are kept with what each acquires; the wiring itself is data.  A phase     *)
(* fails where the scenario says so.                                         *)
EXTENDS Naturals, Sequences, FiniteSets, SequencesExt

CONSTANTS Flows,        \* dataflows, each spawned once
          Peers,        \* other nodes
          Reporters,    \* threads that report nodes; Listener is one of them
          Listener,     \* the task of the membership listener
          MaxDownPeers, \* MAX_DOWN_PEERS
          MaxWorkers,   \* bound: workers of a dataflow
          Plans         \* the scenarios: see Init

ASSUME MaxDownAssumption == MaxDownPeers \in Nat \ {0}

Worker == 0 .. MaxWorkers - 1

VARIABLES plan,     \* the scenario
          spawn,    \* per dataflow: the call that spawns it and its guards
          work,     \* per worker: executor, completion, source pump
          token,    \* cancellation tokens
          registry, \* PeerRegistry, live topology
          report,   \* per reporter: what it has to report, whom to cancel
          idle,     \* active_count, idle_notify and a caller of shutdown_async
          join      \* per dataflow: its handle, then its completion future

vars == <<plan, spawn, work, token, registry, report, idle, join>>

Kind(f) == plan.kind[f]
W(f) == 0 .. plan.workers[f] - 1
Cluster(f) == Kind(f) = "cluster"

(* spawn, or spawn_multi of one worker: no token for the dataflow.           *)
OneToken(f) == Kind(f) \in {"single", "multi"} /\ plan.workers[f] = 1

Init ==
    /\ plan \in Plans
    /\ spawn = [f \in Flows |-> [pc |-> "new", at |-> 0, held |-> {}, target |-> "Nobody",
                                 tasks |-> {}, told |-> FALSE, known |-> FALSE,
                                 bridge |-> "none", lifecycle |-> "none"]]
    /\ work = [f \in Flows |-> [w \in Worker |-> [st |-> "none", res |-> "none",
                                                  waker |-> FALSE, pump |-> FALSE]]]
    /\ token = [runtime |-> FALSE, flow |-> {}, worker |-> [f \in Flows |-> {}],
                bridge |-> {}, user |-> {}]
    /\ registry = [entries |-> [p \in Peers |-> {}], down |-> <<>>, topology |-> Peers]
    /\ report = [r \in Reporters |-> [script |-> plan.script[r], cancel |-> {}]]
    /\ idle = [active |-> 0, version |-> 0, seen |-> 0, saw |-> {},
               pc |-> IF plan.waits = "no" THEN "returned" ELSE "new"]
    /\ join = [f \in Flows |-> [pc |-> "none", at |-> 0, resolved |-> {}, error |-> "none",
                                woken |-> FALSE]]

----------------------------------------------------------------------------
(* Cancellation tokens: runtime, dataflow, worker. *)

FlowCancelled(f) == f \in token.flow \/ (Kind(f) # "simple" /\ token.runtime)
Cancelled(f, w) == FlowCancelled(f) \/ w \in token.worker[f]

CancelWorkers(t, f, ws) == [t EXCEPT !.worker[f] = @ \cup ws]

(* The token of the whole dataflow. *)
CancelFlow(t, f) ==
    IF OneToken(f) THEN CancelWorkers(t, f, W(f)) ELSE [t EXCEPT !.flow = @ \cup {f}]

(* ClusterCancelHandle. *)
CancelHandle(t, f) == [CancelWorkers(CancelFlow(t, f), f, W(f)) EXCEPT !.bridge = @ \cup {f}]

HandleCancelled(f) == f \in token.bridge \/ Cancelled(f, 0)

----------------------------------------------------------------------------
(* Spawning: the parts that all kinds share. *)

At(f, pc) == spawn[f].pc = pc
Fails(f, pc) == plan.fail[f] = pc

(* The call is made; some scenarios spawn one dataflow after the other.      *)
Begins(f) == At(f, "new") /\ \A g \in plan.after[f] : spawn[g].pc \in {"ok", "err"}
Goto(f, pc) == [spawn EXCEPT ![f].pc = pc]

(* Workers that the call has materialized. *)
Prepared(f) == {w \in W(f) : work[f][w].st = "ready"}

(* The call returns an error: materialized workers are dropped with their    *)
(* handles (which cancels their tokens) and notifiers (which cancels the     *)
(* token of the dataflow).                                                   *)
Undo(f, started) ==
    /\ work' = [work EXCEPT ![f] = [w \in Worker |->
          [@[w] EXCEPT !.st = "none", !.pump = @ \/ w \in started]]]
    /\ token' = IF Prepared(f) \cup started = {} THEN token
                ELSE CancelWorkers(CancelFlow(token, f), f, Prepared(f) \cup started)

Step(f, here, there) ==
    /\ spawn' = Goto(f, IF Fails(f, here) THEN "err" ELSE there)
    /\ UNCHANGED <<plan, work, token, registry, report, idle, join>>

(* spawn: one worker, planned and prepared. *)
Spawn(f) == Begins(f) /\ Kind(f) = "single" /\ Step(f, "build", "prepare")

(* spawn_multi: the dataflow is built and validated. *)
SpawnMulti(f) == Begins(f) /\ Kind(f) = "multi" /\ Step(f, "build", "wire")

(* spawn_planned: exchange edges, progress and control channels; nothing     *)
(* runs yet.                                                                 *)
SpawnPlanned(f) == At(f, "wire") /\ Step(f, "wire", "prepare")

(* prepare_worker_deferred for the next worker: ports wired, executor        *)
(* materialized.  Unless the dataflow is a cluster's, its source pumps start *)
(* at once.                                                                  *)
Prepare(f) ==
    LET w == spawn[f].at
        last == w + 1 = plan.workers[f]
    IN /\ At(f, "prepare") /\ Kind(f) # "simple"
       /\ ~(last /\ (Fails(f, "prepare") \/ Fails(f, "pump")))
       /\ work' = [work EXCEPT ![f][w].st = "ready", ![f][w].pump = ~Cluster(f) /\ plan.pumps]
       /\ spawn' = [spawn EXCEPT ![f].at = w + 1,
             ![f].pc = IF ~last THEN @ ELSE IF Cluster(f) THEN "barrier" ELSE "track"]
       /\ UNCHANGED <<plan, token, registry, report, idle, join>>

(* The last worker cannot be materialized, or the second of its pumps cannot *)
(* start: the workers before it are cancelled and dropped.                   *)
PrepareFails(f) ==
    LET w == spawn[f].at IN
    /\ At(f, "prepare") /\ Kind(f) \in {"single", "multi"}
    /\ w + 1 = plan.workers[f]
    /\ Fails(f, "prepare") \/ Fails(f, "pump")
    /\ Undo(f, IF Fails(f, "pump") THEN {w} ELSE {})
    /\ spawn' = Goto(f, "err")
    /\ UNCHANGED <<plan, registry, report, idle, join>>

(* Faulty variant: a dataflow counts once, however many workers it has.      *)
TrackOnce(f) ==
    /\ At(f, "track")
    /\ idle' = [idle EXCEPT !.active = @ + 1]
    /\ spawn' = [spawn EXCEPT ![f].pc = "register", ![f].at = 0]
    /\ UNCHANGED <<plan, work, token, registry, report, join>>

(* track_completion: all workers are counted before any can run.             *)
Track(f) ==
    /\ At(f, "track")
    /\ idle' = [idle EXCEPT !.active = @ + plan.workers[f]]
    /\ spawn' = [spawn EXCEPT ![f].pc = "register", ![f].at = 0]
    /\ UNCHANGED <<plan, work, token, registry, report, join>>

(* The registry takes a worker, which may run from now on.                   *)
Register(f) ==
    LET w == spawn[f].at
        last == w + 1 = plan.workers[f]
    IN /\ At(f, "register")
       /\ work' = [work EXCEPT ![f][w].st = "running"]
       /\ spawn' = [spawn EXCEPT ![f].at = w + 1,
             ![f].pc = IF ~last THEN @ ELSE IF Cluster(f) THEN "peers" ELSE "bridge"]
       /\ UNCHANGED <<plan, token, registry, report, idle, join>>

(* bridge_external_cancel, and the call returns the handle.                  *)
Return(f) ==
    /\ At(f, "bridge")
    /\ spawn' = [spawn EXCEPT ![f].pc = "ok", ![f].bridge = IF plan.user[f] THEN "on" ELSE "none"]
    /\ join' = [join EXCEPT ![f].pc = "held"]
    /\ UNCHANGED <<plan, work, token, registry, report, idle>>

(* The task behind a user's token. *)
Bridge(f) ==
    /\ spawn[f].bridge = "on"
    /\ \/ f \in token.user /\ token' = CancelFlow(token, f)
       \/ /\ \/ IF OneToken(f) THEN Cancelled(f, 0) ELSE FlowCancelled(f)
             \/ \A w \in W(f) : work[f][w].st = "gone"
          /\ UNCHANGED token
    /\ spawn' = [spawn EXCEPT ![f].bridge = "off"]
    /\ UNCHANGED <<plan, work, registry, report, idle, join>>

----------------------------------------------------------------------------
(* SimpleRuntime: a thread per worker, which runs as soon as it is spawned.  *)

SimpleBuild(f) == Begins(f) /\ Kind(f) = "simple" /\ Step(f, "build", "prepare")

SimpleSpawn(f) ==
    LET w == spawn[f].at
        last == w + 1 = plan.workers[f]
    IN /\ At(f, "prepare") /\ Kind(f) = "simple"
       /\ ~(last /\ Fails(f, "prepare"))
       /\ work' = [work EXCEPT ![f][w].st = "running", ![f][w].pump = plan.pumps]
       /\ spawn' = [spawn EXCEPT ![f].at = w + 1, ![f].pc = IF last THEN "ok" ELSE @]
       /\ join' = IF last THEN [join EXCEPT ![f].pc = "held"] ELSE join
       /\ UNCHANGED <<plan, token, registry, report, idle>>

(* Its workers are cancelled and then joined, before the error is returned.  *)
SimpleFails(f) ==
    /\ At(f, "prepare") /\ Kind(f) = "simple"
    /\ spawn[f].at + 1 = plan.workers[f] /\ Fails(f, "prepare")
    /\ token' = CancelWorkers(token, f, 0 .. spawn[f].at - 1)
    /\ spawn' = Goto(f, "joining")
    /\ UNCHANGED <<plan, work, registry, report, idle, join>>

SimpleJoined(f) ==
    /\ At(f, "joining")
    /\ \A w \in 0 .. spawn[f].at - 1 : work[f][w].st = "gone"
    /\ spawn' = Goto(f, "err")
    /\ UNCHANGED <<plan, work, token, registry, report, idle, join>>

----------------------------------------------------------------------------
(* spawn_cluster_async, phase by phase.  The spawn owns its id once it holds *)
(* the claims (shared transport) or a session (dedicated): from then on its  *)
(* peers may wait for it.                                                    *)

Shared(f) == plan.shared[f]

Advance(f, here, there) ==
    /\ At(f, here) /\ Cluster(f) /\ ~Fails(f, here)
    /\ spawn' = Goto(f, there)
    /\ UNCHANGED <<plan, work, token, registry, report, idle, join>>

(* Claims with every peer manager. *)
Claim(f) ==
    /\ Begins(f) /\ Cluster(f) /\ ~Fails(f, "claim")
    /\ spawn' = [spawn EXCEPT ![f].pc = "validate",
          ![f].held = IF Shared(f) THEN {"managers", "claims"} ELSE {},
          ![f].target = IF Shared(f) THEN "Managers" ELSE "Nobody",
          ![f].known = Shared(f)]
    /\ UNCHANGED <<plan, work, token, registry, report, idle, join>>

(* Another run holds the id: the abort guard drops this spawn's claims, is   *)
(* disarmed, and only lets the managers go.                                  *)
Refused(f) ==
    /\ Begins(f) /\ Cluster(f) /\ Fails(f, "claim")
    /\ spawn' = [spawn EXCEPT ![f].pc = "err", ![f].held = {"managers"}, ![f].tasks = {"release"}]
    /\ UNCHANGED <<plan, work, token, registry, report, idle, join>>

Validate(f) == Advance(f, "validate", "build")

BuildCluster(f) == Advance(f, "build", "session")

(* TransportSession::new over the connections of the peers. *)
OpenDedicated(f) ==
    /\ At(f, "session") /\ ~Shared(f) /\ ~Fails(f, "session")
    /\ spawn' = [spawn EXCEPT ![f].pc = "handshake", ![f].held = @ \cup {"session"},
                              ![f].target = "Transport", ![f].known = TRUE]
    /\ UNCHANGED <<plan, work, token, registry, report, idle, join>>

(* Registration with the peer managers takes over the claims. *)
OpenShared(f) ==
    /\ At(f, "session") /\ Shared(f) /\ ~Fails(f, "session")
    /\ spawn' = [spawn EXCEPT ![f].pc = "handshake",
                              ![f].held = (@ \ {"claims"}) \cup {"registration"},
                              ![f].target = "Transport"]
    /\ UNCHANGED <<plan, work, token, registry, report, idle, join>>

Handshake(f) == Advance(f, "handshake", "lanes")

(* Outboxes, exchange edges. *)
WireLanes(f) == Advance(f, "lanes", "progress")

(* Progress channels; the token of the dataflow. *)
WireProgress(f) == Advance(f, "progress", "prepare")

ReadyBarrier(f) == Advance(f, "barrier", "track")

(* Faulty variant: only an open transport is used to tell the peers.         *)
AbortSilently(f, pc) ==
    /\ spawn' = [spawn EXCEPT ![f].pc = "err",
          ![f].tasks = (IF spawn[f].target = "Transport" THEN {"tell"} ELSE {})
             \cup (IF Shared(f) /\ pc \notin {"validate", "build"} THEN {"unregister"} ELSE {})
             \cup (IF Shared(f) THEN {"release"} ELSE {}),
          ![f].held = @ \ {"claims"}]
    /\ Undo(f, {})

(* The spawn fails at pc, or its future is dropped there.  SpawnAbortGuard   *)
(* retires the claims at once and leaves a task that tells the peers;        *)
(* SharedRegistrationCleanup leaves one that unregisters (it is armed when   *)
(* the registration is tried).                                               *)
Abort(f, pc) ==
    /\ spawn' = [spawn EXCEPT ![f].pc = "err",
          ![f].tasks = (IF spawn[f].target # "Nobody" THEN {"tell"} ELSE {})
             \cup (IF Shared(f) /\ pc \notin {"validate", "build"} THEN {"unregister"} ELSE {})
             \cup (IF Shared(f) THEN {"release"} ELSE {}),
          ![f].held = @ \ {"claims"}]
    /\ Undo(f, {})

ClusterPhases == {"validate", "build", "session", "handshake", "lanes", "progress", "barrier"}

ClusterFails(f) ==
    /\ Cluster(f)
    /\ \/ spawn[f].pc \in ClusterPhases /\ Fails(f, spawn[f].pc)
       \/ At(f, "prepare") /\ Fails(f, "prepare") /\ spawn[f].at + 1 = plan.workers[f]
    /\ Abort(f, spawn[f].pc)
    /\ UNCHANGED <<plan, registry, report, idle, join>>

(* The guards' tasks: Cancel to every peer, then the dedicated session goes; *)
(* unregistration; and the managers go when neither task holds them.         *)
Tell(f) ==
    /\ "tell" \in spawn[f].tasks
    /\ spawn' = [spawn EXCEPT ![f].tasks = @ \ {"tell"}, ![f].told = TRUE,
                              ![f].held = @ \ {"session"}]
    /\ UNCHANGED <<plan, work, token, registry, report, idle, join>>

Unregister(f) ==
    /\ "unregister" \in spawn[f].tasks
    /\ spawn' = [spawn EXCEPT ![f].tasks = @ \ {"unregister"}, ![f].held = @ \ {"registration"}]
    /\ UNCHANGED <<plan, work, token, registry, report, idle, join>>

ReleaseManagers(f) ==
    /\ spawn[f].tasks = {"release"}
    /\ spawn' = [spawn EXCEPT ![f].tasks = {}, ![f].held = @ \ {"managers"}]
    /\ UNCHANGED <<plan, work, token, registry, report, idle, join>>

(* The lifecycle coordinator takes over everything; the guards are disarmed. *)
HandOver(f) ==
    /\ At(f, "handover")
    /\ spawn' = [spawn EXCEPT ![f].pc = "pumps", ![f].lifecycle = "on", ![f].target = "Nobody"]
    /\ UNCHANGED <<plan, work, token, registry, report, idle, join>>

(* Source pumps start last.  If one cannot, the dataflow is cancelled and    *)
(* the handles of its workers are dropped; the coordinator cleans up.        *)
StartPumps(f) ==
    /\ At(f, "pumps")
    /\ IF Fails(f, "pumps")
       THEN /\ spawn' = Goto(f, "err")
            /\ token' = CancelWorkers(CancelFlow(token, f), f, W(f))
            /\ UNCHANGED work
       ELSE /\ spawn' = Goto(f, "bridge")
            /\ work' = [work EXCEPT ![f] = [w \in Worker |->
                  [@[w] EXCEPT !.pump = plan.pumps /\ w \in W(f)]]]
            /\ UNCHANGED token
    /\ UNCHANGED <<plan, registry, report, idle, join>>

(* ClusterLifecycle, as far as the runtime sees it: once all workers have    *)
(* reported, it announces a failure, leaves the registry and releases all.   *)
LifecycleEnds(f) ==
    /\ spawn[f].lifecycle = "on"
    /\ \A w \in W(f) : work[f][w].st \in {"over", "published", "counted", "gone"}
    /\ spawn' = [spawn EXCEPT ![f].lifecycle = "done", ![f].held = {},
          ![f].told = \E w \in W(f) : work[f][w].res # "ok"]
    /\ registry' = [registry EXCEPT !.entries = [p \in Peers |-> @[p] \ {f}]]
    /\ token' = [token EXCEPT !.bridge = @ \cup {f}]
    /\ UNCHANGED <<plan, work, report, idle, join>>

----------------------------------------------------------------------------
(* PeerRegistry.  The lock is held for one step; runs are cancelled after it *)
(* is released, by the thread that collected them.                           *)

Down == ToSet(registry.down)

(* Faulty variant: peers that are down already are not looked at.            *)
RegisterBlindly(f) ==
    /\ At(f, "peers")
    /\ registry' = [registry EXCEPT !.entries = [p \in Peers |->
                        IF p \in plan.peers[f] THEN @[p] \cup {f} ELSE @[p]]]
    /\ spawn' = Goto(f, "handover")
    /\ UNCHANGED <<plan, work, token, report, idle, join>>

(* register: a spawn that names a peer already down is told so.              *)
RegisterPeers(f) ==
    LET dead == plan.peers[f] \cap Down # {} IN
    /\ At(f, "peers")
    /\ registry' = IF dead THEN registry
                   ELSE [registry EXCEPT !.entries = [p \in Peers |->
                            IF p \in plan.peers[f] THEN @[p] \cup {f} ELSE @[p]]]
    /\ spawn' = Goto(f, IF dead THEN "stop" ELSE "handover")
    /\ UNCHANGED <<plan, work, token, report, idle, join>>

(* ... and cancels itself outside the lock. *)
StopAtOnce(f) ==
    /\ At(f, "stop")
    /\ token' = CancelHandle(token, f)
    /\ spawn' = Goto(f, "handover")
    /\ UNCHANGED <<plan, work, registry, report, idle, join>>

(* The oldest peers are forgotten when too many are down. *)
MarkDown(down, p) ==
    IF p \in ToSet(down) THEN down
    ELSE LET d == Append(down, p) IN
         IF Len(d) > MaxDownPeers THEN Tail(d) ELSE d

NextReport(r) == Head(report[r].script)
Reported(r) == [report EXCEPT ![r].script = Tail(@)]
Reports(r, what) == report[r].script # <<>> /\ report[r].cancel = {} /\ NextReport(r).what = what

(* The listener, not a direct report, also keeps the live topology.  It does *)
(* so before it takes its next event.                                        *)
NodeLeft(r, topology, p) == IF r = Listener THEN topology \ {p} ELSE topology
NodeJoined(r, topology, p) == IF r = Listener THEN topology \cup {p} ELSE topology

(* report_peer_down: the runs of the peer leave the registry altogether, and *)
(* so do runs that are cancelled already.                                    *)
ReportPeerDown(r) ==
    LET p == NextReport(r).peer
        hit == registry.entries[p]
    IN /\ Reports(r, "down") /\ (r = Listener => ~token.runtime)
       /\ registry' = [registry EXCEPT
             !.down = MarkDown(@, p),
             !.entries = [q \in Peers |-> {f \in @[q] \ hit : ~HandleCancelled(f)}],
             !.topology = NodeLeft(r, @, p)]
       /\ report' = [Reported(r) EXCEPT ![r].cancel = {f \in hit : ~HandleCancelled(f)}]
       /\ UNCHANGED <<plan, spawn, work, token, idle, join>>

CancelReported(r, f) ==
    /\ f \in report[r].cancel
    /\ token' = CancelHandle(token, f)
    /\ report' = [report EXCEPT ![r].cancel = @ \ {f}]
    /\ UNCHANGED <<plan, spawn, work, registry, idle, join>>

(* report_peer_recovered. *)
ReportPeerRecovered(r) ==
    LET p == NextReport(r).peer IN
    /\ Reports(r, "up") /\ (r = Listener => ~token.runtime)
    /\ registry' = [registry EXCEPT !.down = SelectSeq(@, LAMBDA q : q # p),
                                    !.topology = NodeJoined(r, @, p)]
    /\ report' = Reported(r)
    /\ UNCHANGED <<plan, spawn, work, token, idle, join>>

(* The listener's task ends with the runtime. *)
ListenerStops ==
    /\ token.runtime /\ report[Listener].script # <<>> /\ report[Listener].cancel = {}
    /\ report' = [report EXCEPT ![Listener].script = <<>>]
    /\ UNCHANGED <<plan, spawn, work, token, registry, idle, join>>

----------------------------------------------------------------------------
(* Workers: CompletionNotifier::complete after the executor has ended.       *)

(* How an executor may end.  None succeeds if a sibling fails, or if the     *)
(* pump of a source never starts: such a source does not end.                *)
Ends(f, w, res) ==
    \/ /\ res = "ok" /\ plan.finite[f] /\ ~Fails(f, "pumps")
       /\ ~\E v \in W(f) : <<f, v>> \in plan.crash
    \/ res = "failed" /\ <<f, w>> \in plan.crash
    \/ res = "cancelled" /\ Cancelled(f, w)

(* The failure cancels the whole dataflow, before anybody can see it.        *)
Finish(f, w) ==
    /\ work[f][w].st = "running"
    /\ \E res \in {"ok", "failed", "cancelled"} :
          /\ Ends(f, w, res)
          /\ work' = [work EXCEPT ![f][w].st = "over", ![f][w].res = res]
          /\ token' = IF res = "ok" THEN token ELSE CancelFlow(token, f)
    /\ UNCHANGED <<plan, spawn, registry, report, idle, join>>

(* Faulty variant: the waiter's waker is left where it is.                   *)
PublishSilently(f, w) ==
    /\ work[f][w].st = "over"
    /\ work' = [work EXCEPT ![f][w].st = IF Kind(f) = "simple" THEN "gone" ELSE "published"]
    /\ UNCHANGED <<plan, spawn, token, registry, report, idle, join>>

(* The result is stored and its waiter woken, under the completion's lock.   *)
Publish(f, w) ==
    /\ work[f][w].st = "over"
    /\ work' = [work EXCEPT ![f][w].waker = FALSE,
          ![f][w].st = IF Kind(f) = "simple" THEN "gone" ELSE "published"]
    /\ join' = IF work[f][w].waker THEN [join EXCEPT ![f].woken = TRUE] ELSE join
    /\ UNCHANGED <<plan, spawn, token, registry, report, idle>>

(* on_complete: the count, and then the notification by who made it zero.    *)
CountDown(f, w) ==
    /\ work[f][w].st = "published"
    /\ idle' = [idle EXCEPT !.active = @ - 1]
    /\ work' = [work EXCEPT ![f][w].st = IF idle.active = 1 THEN "counted" ELSE "gone"]
    /\ UNCHANGED <<plan, spawn, token, registry, report, join>>

NotifyIdle(f, w) ==
    /\ work[f][w].st = "counted"
    /\ idle' = [idle EXCEPT !.version = @ + 1]
    /\ work' = [work EXCEPT ![f][w].st = "gone"]
    /\ UNCHANGED <<plan, spawn, token, registry, report, join>>

(* A source pump ends with its source or at the next look at its token.      *)
PumpEnds(f, w) ==
    /\ work[f][w].pump
    /\ plan.finite[f] \/ Cancelled(f, w)
    /\ work' = [work EXCEPT ![f][w].pump = FALSE]
    /\ UNCHANGED <<plan, spawn, token, registry, report, idle, join>>

----------------------------------------------------------------------------
(* The owner of the handles. *)

UserCancels(f) ==
    /\ plan.user[f] /\ f \notin token.user
    /\ token' = [token EXCEPT !.user = @ \cup {f}]
    /\ UNCHANGED <<plan, spawn, work, registry, report, idle, join>>

(* cancel of the handle: the token of a cluster's dataflow, else the workers *)
CancelByHandle(f) == IF Cluster(f) THEN CancelFlow(token, f) ELSE CancelWorkers(token, f, W(f))

(* The handle is cancelled, if the scenario says so, and joined.             *)
Join(f) ==
    /\ join[f].pc = "held" /\ plan.handle[f] # "drop"
    /\ token' = IF plan.handle[f] = "cancel" THEN CancelByHandle(f) ELSE token
    /\ join' = [join EXCEPT ![f].pc = "poll"]
    /\ UNCHANGED <<plan, spawn, work, registry, report, idle>>

(* A handle that is dropped cancels what it stands for.                      *)
DropHandle(f) ==
    /\ join[f].pc = "held" /\ plan.handle[f] = "drop"
    /\ token' = CancelByHandle(f)
    /\ join' = [join EXCEPT ![f].pc = "dropped"]
    /\ UNCHANGED <<plan, spawn, work, registry, report, idle>>

(* Faulty variant: the first error that is seen is reported.                 *)
FirstError(old, new) == IF new = "ok" \/ old # "none" THEN old ELSE new

(* The error to report: one that is not a cancellation replaces one that is. *)
Worse(old, new) == IF new = "ok" \/ old = "failed" THEN old ELSE new

(* MultiDataflowCompletion::poll takes the results that are there and leaves *)
(* its waker with the others.  The first error cancels the unresolved ones.  *)
PollWorker(f) ==
    LET w == join[f].at
        res == work[f][w].res
        taken == join[f].resolved \cup {w}
    IN /\ join[f].pc = "poll" /\ w < plan.workers[f]
       /\ \/ /\ w \in join[f].resolved
             /\ join' = [join EXCEPT ![f].at = w + 1]
             /\ UNCHANGED <<work, token>>
          \/ /\ w \notin join[f].resolved
             /\ work[f][w].st \in {"published", "counted", "gone"}
             /\ join' = [join EXCEPT ![f].at = w + 1, ![f].resolved = taken,
                                     ![f].error = Worse(@, res)]
             /\ token' = IF res = "ok" \/ join[f].error # "none" THEN token
                          ELSE CancelWorkers(token, f, W(f) \ taken)
             /\ UNCHANGED work
          \/ /\ w \notin join[f].resolved
             /\ work[f][w].st \in {"ready", "running", "over"}
             /\ join' = [join EXCEPT ![f].at = w + 1]
             /\ work' = [work EXCEPT ![f][w].waker = TRUE]
             /\ UNCHANGED token
       /\ UNCHANGED <<plan, spawn, registry, report, idle>>

(* The end of a poll.  A cluster's completion then waits for the teardown.   *)
PollEnds(f) ==
    /\ join[f].pc = "poll" /\ join[f].at = plan.workers[f]
    /\ join' = [join EXCEPT ![f].at = 0,
          ![f].pc = IF join[f].resolved # W(f) THEN "parked"
                    ELSE IF Cluster(f) THEN "teardown" ELSE "done"]
    /\ UNCHANGED <<plan, spawn, work, token, registry, report, idle>>

(* A wake-up is kept until the waiter parks: a permit of the thread or task. *)
PollAgain(f) ==
    /\ join[f].pc = "parked" /\ join[f].woken
    /\ join' = [join EXCEPT ![f].pc = "poll", ![f].woken = FALSE]
    /\ UNCHANGED <<plan, spawn, work, token, registry, report, idle>>

TornDown(f) ==
    /\ join[f].pc = "teardown" /\ spawn[f].lifecycle = "done"
    /\ join' = [join EXCEPT ![f].pc = "done"]
    /\ UNCHANGED <<plan, spawn, work, token, registry, report, idle>>

(* shutdown_async, or wait_idle alone. *)
Shutdown ==
    /\ idle.pc = "new"
    /\ token' = IF plan.waits = "shutdown" THEN [token EXCEPT !.runtime = TRUE] ELSE token
    /\ idle' = [idle EXCEPT !.pc = "notified",
          !.saw = {f \in Flows : spawn[f].pc = "ok" /\ Kind(f) # "simple"}]
    /\ UNCHANGED <<plan, spawn, work, registry, report, join>>

(* notified() is created before the count is read. *)
Notified ==
    /\ idle.pc = "notified"
    /\ idle' = [idle EXCEPT !.pc = "load", !.seen = idle.version]
    /\ UNCHANGED <<plan, spawn, work, token, registry, report, join>>

LoadActive ==
    /\ idle.pc = "load"
    /\ idle' = [idle EXCEPT !.pc = IF idle.active = 0 THEN "returned" ELSE "wait"]
    /\ UNCHANGED <<plan, spawn, work, token, registry, report, join>>

AwaitIdle ==
    /\ idle.pc = "wait" /\ idle.version # idle.seen
    /\ idle' = [idle EXCEPT !.pc = "notified"]
    /\ UNCHANGED <<plan, spawn, work, token, registry, report, join>>

----------------------------------------------------------------------------

SpawnStep(f) ==
    \/ Spawn(f) \/ SpawnMulti(f) \/ SpawnPlanned(f) \/ SimpleBuild(f)
    \/ Prepare(f) \/ PrepareFails(f) \/ Track(f) \/ Register(f) \/ Return(f)
    \/ SimpleSpawn(f) \/ SimpleFails(f) \/ SimpleJoined(f)
    \/ Claim(f) \/ Refused(f) \/ Validate(f) \/ BuildCluster(f) \/ OpenDedicated(f)
    \/ OpenShared(f) \/ Handshake(f) \/ WireLanes(f) \/ WireProgress(f) \/ ReadyBarrier(f)
    \/ ClusterFails(f) \/ RegisterPeers(f) \/ StopAtOnce(f) \/ HandOver(f) \/ StartPumps(f)

WorkerStep(f, w) ==
    Finish(f, w) \/ Publish(f, w) \/ CountDown(f, w) \/ NotifyIdle(f, w)

JoinStep(f) == PollWorker(f) \/ PollEnds(f) \/ PollAgain(f) \/ TornDown(f)

OwnerStep(f) == Join(f) \/ DropHandle(f)

IdleStep == Notified \/ LoadActive \/ AwaitIdle

ReportStep(r) ==
    ReportPeerDown(r) \/ ReportPeerRecovered(r) \/ \E f \in Flows : CancelReported(r, f)

Next ==
    \/ \E f \in Flows :
          \/ SpawnStep(f) \/ Bridge(f) \/ Tell(f) \/ Unregister(f) \/ ReleaseManagers(f)
          \/ LifecycleEnds(f) \/ UserCancels(f) \/ OwnerStep(f) \/ JoinStep(f)
    \/ \E f \in Flows, w \in Worker : WorkerStep(f, w) \/ PumpEnds(f, w)
    \/ \E r \in Reporters : ReportStep(r)
    \/ ListenerStops \/ Shutdown \/ IdleStep

(* Threads and tasks that can go on do; the scenario's owner makes its calls *)
(* and its token is cancelled.  Reports need not come, but a reporter that   *)
(* has runs to cancel cancels them.                                          *)
Fairness ==
    /\ \A f \in Flows :
          /\ WF_vars(SpawnStep(f)) /\ WF_vars(Bridge(f))
          /\ WF_vars(Tell(f)) /\ WF_vars(Unregister(f)) /\ WF_vars(ReleaseManagers(f))
          /\ WF_vars(LifecycleEnds(f)) /\ WF_vars(UserCancels(f))
          /\ WF_vars(OwnerStep(f)) /\ WF_vars(JoinStep(f))
          /\ \A w \in Worker : WF_vars(WorkerStep(f, w)) /\ WF_vars(PumpEnds(f, w))
          /\ \A r \in Reporters : WF_vars(CancelReported(r, f))
    /\ WF_vars(Shutdown) /\ WF_vars(IdleStep)

FairSpec == Init /\ [][Next]_vars /\ Fairness

----------------------------------------------------------------------------

(* A worker that may still do something is under a cancelled token. *)
Stopping(f, w) == (work[f][w].st = "running" \/ work[f][w].pump) => Cancelled(f, w)

(* A run that names a peer known to be down is cancelled, about to be        *)
(* cancelled by the reporter that found it, or over: between registration    *)
(* and report under the registry's lock, no order of the two lets a run go   *)
(* on without its peer.                                                      *)
NoRunOutlivesItsPeer ==
    \A f \in Flows :
        Cluster(f) /\ spawn[f].pc \in {"handover", "pumps", "bridge", "ok"}
                   /\ plan.peers[f] \cap Down # {}
        => \/ HandleCancelled(f)
           \/ \E r \in Reporters : f \in report[r].cancel
           \/ spawn[f].lifecycle = "done"

(* What join reports: success only if every worker succeeded, and the        *)
(* failure that started it all rather than the cancellations it caused,      *)
(* whatever the order in which the workers' results are taken.               *)
JoinTellsOrigin ==
    \A f \in Flows : join[f].pc = "done" =>
        /\ (join[f].error = "none") <=> \A w \in W(f) : work[f][w].res = "ok"
        /\ (\E w \in W(f) : work[f][w].res = "failed") => join[f].error = "failed"

(* A spawn that returned an error leaves nothing behind: what runs of it is  *)
(* being stopped (a SimpleRuntime has even joined it); once its guards'      *)
(* tasks and its coordinator are done it holds nothing, no peer registry     *)
(* lists it, and the peers have been told if, and only if, they could have   *)
(* known of it.                                                              *)
FailedSpawnIsUndone ==
    \A f \in Flows : At(f, "err") =>
        /\ \A w \in W(f) : Stopping(f, w) /\ (Kind(f) = "simple" => work[f][w].st # "running")
        /\ spawn[f].tasks = {} /\ spawn[f].lifecycle # "on" =>
              /\ spawn[f].held = {} /\ spawn[f].told = spawn[f].known
              /\ \A p \in Peers : f \notin registry.entries[p]

(* wait_idle returns only after every worker of every dataflow spawned       *)
(* before the call has published its result.                                 *)
IdleMeansDone ==
    idle.pc = "returned" =>
        \A f \in idle.saw : \A w \in W(f) : work[f][w].st \in {"published", "counted", "gone"}

(* Every call returns and every task ends: spawns, joins, wait_idle, bridges *)
(* of user tokens, guards, coordinators, workers and pumps.                  *)
Quiet ==
    /\ idle.pc = "returned"
    /\ \A f \in Flows :
          /\ spawn[f].pc \in {"ok", "err"} /\ spawn[f].tasks = {} /\ spawn[f].lifecycle # "on"
          /\ spawn[f].bridge # "on" /\ join[f].pc \in {"none", "done", "dropped"}
          /\ \A w \in Worker : work[f][w].st \in {"none", "gone"} /\ ~work[f][w].pump

EverythingReturns == <>Quiet

=============================================================================
