-------------------------- MODULE ClusterLifecycle --------------------------
(***************************************************************************)
(* The end of a cluster dataflow: on every node a lifecycle coordinator    *)
(* (runtime/cluster_lifecycle.rs, ClusterLifecycle) drives a               *)
(* LifecycleMachine, while the node's workers push and pull records, its   *)
(* outboxes forward frames, its bridges receive them and its control       *)
(* dispatcher listens for Cancel (communication/peer_link.rs,              *)
(* dataflow/channels/network.rs, progress/network_progress.rs,             *)
(* communication/control_protocol.rs).                                     *)
(*                                                                         *)
(* A link <<n, p>> carries frames from n to p.  wire is what n has sent and *)
(* no task of p has taken: the lane of the outbox, the transport's queue   *)
(* and the connection in one FIFO (the admission lock of the link keeps    *)
(* records, which bypass the lane, in its order); its first arr frames     *)
(* have reached p for certain.  ctl is the control channel.  The receiver  *)
(* demultiplexes the wire: the data channel and each progress channel take *)
(* their own frames, in order.                                             *)
(*                                                                         *)
(* Progress is abstracted to what completion needs: a worker that sends no *)
(* more records says how many it sent ("fin"), a worker that consumed them *)
(* says so ("eaten"), and a worker succeeds once every count is settled,   *)
(* which is what module Progress shows of the progress protocol.  Worker 1 *)
(* of each node owns the data channels; the others only finish.            *)
(***************************************************************************)
EXTENDS LifecycleMachine, FiniteSets, SequencesExt

CONSTANTS Nodes,        \* the two nodes of the cluster
          Workers,      \* the workers the nodes may have: a set of [Nodes -> Nat]
          MaxRecords,   \* the input of each node, in records: [Nodes -> Nat]
          Scenarios,    \* bound: sets of faults that may happen together, for
                        \* each of Workers
          MaxQueue,     \* bound: events a running coordinator has not taken
          Modes         \* transports: TRUE for shared, FALSE for dedicated

FaultKinds == {"stop", "crash", "cut", "write", "early", "corrupt", "garble",
               "leave"}

ASSUME ClusterAssumption ==
  /\ IsFiniteSet(Nodes) /\ Cardinality(Nodes) = 2
  /\ Workers \subseteq [Nodes -> Nat \ {0}]
  /\ MaxRecords \in [Nodes -> Nat] /\ MaxQueue \in Nat \ {0}
  /\ Scenarios \in [Workers -> SUBSET SUBSET FaultKinds]
  /\ Modes \subseteq BOOLEAN

Links == {l \in Nodes \X Nodes : l[1] # l[2]}
Peer(n) == CHOOSE p \in Nodes : p # n

VARIABLES
  mach,     \* mach[n]: the LifecycleMachine of n
  drv,      \* drv[n]: the rest of the coordinator task of n
  token,    \* token[n]: the dataflow's cancellation token on n
  events,   \* events[n]: the coordinator's queue
  work,     \* work[n]: the workers of n
  tx, rx,   \* tx[l], rx[l]: the two ends of link l
  up,       \* the connection between the nodes is up
  shared,   \* it is pooled, and outlives the dataflow
  faults    \* the faults that have happened

vars == <<mach, drv, token, events, work, tx, rx, up, shared, faults>>

\* The workers of a node, and the progress channels between two nodes, one per
\* pair of workers; the worker with the data, and every acknowledgement, uses
\* the first.
WorkersOf(n) == DOMAIN work[n].st
NumChannels(n, p) == Len(work[n].st) * Len(work[p].st)

Frame(kind, arg) == [kind |-> kind, arg |-> arg]

\* The channel a frame belongs to: 0 for data, or a progress channel.
Channel(f) == CASE f.kind \in {"rec", "badrec", "close"} -> 0
                [] f.kind \in {"fin", "eaten", "ack"} -> 1
                [] f.kind \in {"eos", "badprog"} -> f.arg

------------------------------------------------------------------------------
(* Initial state.                                                           *)

NewDriver == [cancel_seen |-> FALSE, bridge_cancel |-> FALSE, soft_deadlines |-> {},
              failure_announced |-> FALSE, unfinished_announced |-> FALSE,
              worker_failure |-> FALSE, pc |-> "run"]

NewToken == [reason |-> "none", escalation |-> FALSE]

\* st: what each worker is doing; drop_* is between dropping its
\* executor and reporting its result.  due: the records announced by the
\* peer, -1 until it has.
NewWork(workers) == [st |-> [w \in 1..workers |-> "run"], sent |-> 0,
               pushing |-> FALSE, fin |-> FALSE, got |-> 0, due |-> -1,
               failed |-> FALSE, eaten_sent |-> FALSE, eaten_got |-> 0]

NewTx == [wire |-> << >>, arr |-> 0, ctl |-> << >>, queue |-> "open",
          forwarder |-> "on", reported |-> FALSE]

NewRx(channels) == [eof |-> FALSE, closed |-> FALSE, ended |-> FALSE, lost |-> FALSE,
             corrupt |-> FALSE, control |-> TRUE,
             lanes |-> [c \in 1..channels |-> "open"]]

Init ==
  /\ \E workers \in Workers :
       LET channels == [l \in Links |-> workers[l[1]] * workers[l[2]]]
       IN  /\ mach = [n \in Nodes |-> new(workers[n], {Peer(n)},
                                          [p \in {Peer(n)} |-> channels[<<p, n>>]])]
           /\ work = [n \in Nodes |-> NewWork(workers[n])]
           /\ rx = [l \in Links |-> NewRx(channels[l])]
  /\ drv = [n \in Nodes |-> NewDriver]
  /\ token = [n \in Nodes |-> NewToken]
  /\ events = [n \in Nodes |-> << >>]
  /\ tx = [l \in Links |-> NewTx]
  /\ up = TRUE
  /\ shared \in Modes
  /\ faults = {}

------------------------------------------------------------------------------
(* Helpers.                                                                 *)

Gone(n) == drv[n].pc = "gone"

LinkEvent(kind, p, failure) == [kind |-> kind, peer |-> p, failure |-> failure]

\* Report events to the coordinator of n, while it listens.  MaxQueue bounds how
\* far a running coordinator falls behind; the channel itself is unbounded.
Notify(n, es) ==
  /\ es # << >> /\ drv[n].pc = "run" => Len(events[n]) < MaxQueue
  /\ events' = IF Gone(n) THEN events ELSE [events EXCEPT ![n] = @ \o es]

report(n, kind, failure) == Notify(n, <<LinkEvent(kind, Peer(n), failure)>>)

\* CancellationToken: the first reason wins, and a failure that comes after a
\* requested stop is kept beside it.
cancel_with_reason(t, failure) ==
  IF t.reason # "none" THEN t
  ELSE [t EXCEPT !.reason = IF failure THEN "failure" ELSE "stop"]

escalate(t, failure) ==
  LET c == cancel_with_reason(t, failure)
  IN  [c EXCEPT !.escalation = @ \/ (failure /\ c.reason = "stop")]

\* Hand frames to the transport's payload queue.  Once the connection is down
\* they are lost, and the write fails.
Enqueue(t, fs) ==
  CASE t.queue # "open" \/ fs = << >> -> t
    [] t.queue = "open" /\ fs # << >> /\ up -> [t EXCEPT !.wire = @ \o fs]
    [] t.queue = "open" /\ fs # << >> /\ ~up -> [t EXCEPT !.queue = "failing"]

\* PeerOutbox::send and run_forwarder.  A frame the transport refuses ends the
\* forwarder, and later frames are dropped.
OutboxSend(t, fs) ==
  CASE t.forwarder # "on" \/ fs = << >> -> t
    [] t.forwarder = "on" /\ fs # << >> /\ t.queue = "closed" ->
         [t EXCEPT !.forwarder = "refused"]
    [] t.forwarder = "on" /\ fs # << >> /\ t.queue # "closed" -> Enqueue(t, fs)

\* The same for a Cancel on the control queue.
SendCancel(t, reason) ==
  CASE t.queue # "open" -> t
    [] t.queue = "open" /\ up -> [t EXCEPT !.ctl = Append(@, reason)]
    [] t.queue = "open" /\ ~up -> [t EXCEPT !.queue = "failing"]

\* The receiver of a link takes the next frame of channel c.  What came before
\* it has arrived.
NextFrame(t, c) == SelectInSeq(t.wire, LAMBDA f : Channel(f) = c)
HasFrame(t, c) == NextFrame(t, c) # 0
Take(t, c) == LET i == NextFrame(t, c) IN
  [t EXCEPT !.wire = RemoveAt(@, i), !.arr = (IF @ > i THEN @ ELSE i) - 1]

\* A fault of this kind happens.  All but a premature completion, which each
\* worker may decide on, happen once.
Fail(kind) ==
  /\ kind \in faults => kind = "early"
  /\ \E s \in Scenarios[[n \in Nodes |-> Len(work[n].st)]] : faults \cup {kind} \subseteq s
  /\ faults' = faults \cup {kind}

------------------------------------------------------------------------------
(* The workers of n.                                                        *)

\* The progress of worker 1.  Progress for a retired peer is discarded.
Progress(n, fs) == IF mach[n].peers[Peer(n)].link_retired THEN << >> ELSE fs

\* What worker 1 still owes when it succeeds: nothing, unless it is too early.
Parting(n) ==
  (IF work[n].fin THEN << >>
   ELSE <<Frame("close", 0)>> \o Progress(n, <<Frame("fin", work[n].sent)>>))
  \o (IF work[n].eaten_sent \/ work[n].got = 0 THEN << >>
      ELSE Progress(n, <<Frame("eaten", work[n].got)>>))

\* Worker w of n stops: its executor is dropped.  Worker 1 drops its input,
\* reporting what the bridge had already handed it (the first k data frames)
\* and it never consumed; if it succeeded its output is closed.  A worker
\* error cancels the dataflow when the node has several workers.
DropExecutor(n, w, how) ==
  LET in == <<Peer(n), n>>
      held == SelectSeq(tx[in].wire, LAMBDA f : Channel(f) = 0)
      lost(k) == {held[i].kind : i \in 1..k}
      reports(k) ==
        (IF "badrec" \in lost(k) THEN <<LinkEvent("DataChannelEnded", Peer(n), "Decode")>>
         ELSE << >>) \o
        (IF "rec" \in lost(k) THEN <<LinkEvent("InboundDataLost", Peer(n), "none")>>
         ELSE << >>)
      parting == IF w = 1 /\ how = "drop_ok" THEN Parting(n) ELSE << >>
  IN  /\ work[n].st[w] = "run"
      /\ work' = [work EXCEPT ![n].st[w] = how,
                              ![n].fin = @ \/ parting # << >>]
      /\ token' = IF how = "drop_error" /\ Len(work[n].st) > 1
                  THEN [token EXCEPT ![n] = cancel_with_reason(@, TRUE)] ELSE token
      /\ IF w # 1 THEN UNCHANGED <<rx, tx, events>> ELSE
           \E k \in IF rx[in].ended THEN {Len(held)} ELSE 0..Len(held) :
             /\ rx' = [rx EXCEPT ![in].closed = @ \/ "close" \in lost(k)]
             /\ tx' = [tx EXCEPT ![<<n, Peer(n)>>] = OutboxSend(@, parting),
                                 ![in] = FoldLeft(LAMBDA t, i : Take(t, 0), @,
                                                  [i \in 1..k |-> i])]
             /\ Notify(n, reports(k))

\* NetworkPush::try_push of one record.  A closed queue to a peer that has not
\* finished holds the worker up; a finished peer fails it.
SendRecord(n) ==
  LET l == <<n, Peer(n)>> IN
  /\ work[n].st[1] = "run" /\ ~work[n].fin
  /\ work[n].pushing \/ work[n].sent < MaxRecords[n]
  /\ \/ /\ mach[n].peers[Peer(n)].link_retired
        /\ DropExecutor(n, 1, "drop_error")
        /\ UNCHANGED mach
     \/ /\ ~mach[n].peers[Peer(n)].link_retired
        /\ tx[l].queue # "closed"
        /\ work' = [work EXCEPT ![n].sent = @ + 1, ![n].pushing = FALSE]
        /\ tx' = [tx EXCEPT ![l] = Enqueue(@, <<Frame("rec", 0)>>)]
        /\ UNCHANGED <<mach, token, events, rx>>
     \/ /\ ~mach[n].peers[Peer(n)].link_retired
        /\ tx[l].queue = "closed" /\ ~tx[l].reported
        /\ work' = [work EXCEPT ![n].pushing = TRUE]
        /\ mach' = [mach EXCEPT ![n].peers[Peer(n)].push_blocked = TRUE]
        /\ tx' = [tx EXCEPT ![l].reported = TRUE]
        /\ report(n, "OutboundFailed", "SendFailed")
        /\ UNCHANGED <<token, rx>>
  /\ UNCHANGED <<drv, up, shared, faults>>

\* Worker 1 will send no more, because its input has ended or a drain closed it:
\* it closes its output, and its progress says how many records it sent.
EndOfInput(n) ==
  LET fin == Progress(n, <<Frame("fin", work[n].sent)>>) IN
  /\ work[n].st[1] = "run" /\ ~work[n].fin /\ ~work[n].pushing
  /\ work[n].sent = MaxRecords[n] \/ token[n].reason = "stop"
  /\ work' = [work EXCEPT ![n].fin = TRUE]
  /\ tx' = [tx EXCEPT ![<<n, Peer(n)>>] = OutboxSend(@, <<Frame("close", 0)>> \o fin)]
  /\ UNCHANGED <<mach, drv, token, events, rx, up, shared, faults>>

\* NetworkPull::pull.  A frame that does not decode ends the input.
Pull(n) ==
  LET in == <<Peer(n), n>>
      kind == tx[in].wire[NextFrame(tx[in], 0)].kind
  IN
  /\ work[n].st[1] = "run" /\ ~work[n].failed /\ HasFrame(tx[in], 0)
  /\ tx' = [tx EXCEPT ![in] = Take(@, 0)]
  /\ rx' = [rx EXCEPT ![in].closed = @ \/ kind = "close"]
  /\ work' = [work EXCEPT ![n].got = @ + (IF kind = "rec" THEN 1 ELSE 0),
                          ![n].failed = (kind = "badrec")]
  /\ IF kind = "badrec" THEN report(n, "DataChannelEnded", "Decode")
     ELSE UNCHANGED events
  /\ UNCHANGED <<mach, drv, token, up, shared, faults>>

\* Worker 1 has consumed every record the peer announced, and says so.
ReportEaten(n) ==
  /\ work[n].st[1] = "run" /\ ~work[n].eaten_sent
  /\ work[n].due > 0 /\ work[n].got = work[n].due
  /\ work' = [work EXCEPT ![n].eaten_sent = TRUE]
  /\ tx' = [tx EXCEPT ![<<n, Peer(n)>>] =
              OutboxSend(@, Progress(n, <<Frame("eaten", work[n].got)>>))]
  /\ UNCHANGED <<mach, drv, token, events, rx, up, shared, faults>>

\* Nothing is left to do anywhere in the dataflow, as far as n knows.
Complete(n) ==
  /\ work[n].fin /\ work[n].got = work[n].due
  /\ work[n].due > 0 => work[n].eaten_sent
  /\ work[n].eaten_got = work[n].sent

\* A worker stops: it has finished, its token is cancelled (a drain may be cut
\* short at any time), it fails, or it finishes too early.
WorkerSucceeds(n, w) ==
  /\ Complete(n) /\ DropExecutor(n, w, "drop_ok")
  /\ UNCHANGED <<mach, drv, up, shared, faults>>

WorkerCancelled(n, w) ==
  /\ token[n].reason # "none" /\ DropExecutor(n, w, "drop_cancelled")
  /\ UNCHANGED <<mach, drv, up, shared, faults>>

WorkerFails(n, w) ==
  /\ Fail("crash") /\ DropExecutor(n, w, "drop_error")
  /\ UNCHANGED <<mach, drv, up, shared>>

WorkerEndsEarly(n, w) ==
  /\ Fail("early") /\ ~Complete(n) /\ DropExecutor(n, w, "drop_ok")
  /\ UNCHANGED <<mach, drv, up, shared>>

\* The executor is gone: the result reaches the coordinator.
ReportResult(n, w) ==
  LET ok == work[n].st[w] = "drop_ok" IN
  /\ work[n].st[w] \in {"drop_ok", "drop_cancelled", "drop_error"}
  /\ work' = [work EXCEPT ![n].st[w] = IF ok THEN "ok" ELSE "bad"]
  /\ Notify(n, <<[kind |-> "WorkerFinished", success |-> ok,
                   failure |-> work[n].st[w] = "drop_error"]>>)
  /\ UNCHANGED <<mach, drv, token, tx, rx, up, shared, faults>>

------------------------------------------------------------------------------
(* The network.                                                             *)

\* run_forwarder exits on a refused frame, and reports it unless the link is
\* retired.
ForwarderStops(l) ==
  /\ tx[l].forwarder = "refused"
  /\ tx' = [tx EXCEPT ![l].forwarder = "off"]
  /\ IF mach[l[1]].peers[l[2]].link_retired THEN UNCHANGED events
     ELSE report(l[1], "OutboundFailed", "SendFailed")
  /\ UNCHANGED <<mach, drv, token, work, rx, up, shared, faults>>

\* data_recv_bridge once the operator has dropped its input: it checks what it
\* can no longer deliver, and reports records, each once.
DropFrame(l) ==
  LET n == l[2]
      kind == tx[l].wire[NextFrame(tx[l], 0)].kind
      corrupt == kind = "badrec" /\ ~rx[l].corrupt
      lost == kind = "rec" /\ ~rx[l].lost
  IN
  /\ ~Gone(n) /\ work[n].st[1] # "run" /\ HasFrame(tx[l], 0)
  /\ tx' = [tx EXCEPT ![l] = Take(@, 0)]
  /\ rx' = [rx EXCEPT ![l].closed = @ \/ kind = "close",
                      ![l].corrupt = @ \/ corrupt, ![l].lost = @ \/ lost]
  /\ IF corrupt THEN report(n, "DataChannelEnded", "Decode")
     ELSE IF lost THEN report(n, "InboundDataLost", "none") ELSE UNCHANGED events
  /\ UNCHANGED <<mach, drv, token, work, up, shared, faults>>

\* progress_recv_bridge of channel c, and watch_after_end_of_stream behind the
\* marker.
ReceiveProgress(l, c) ==
  LET n == l[2]
      f == tx[l].wire[NextFrame(tx[l], c)]
      lane == rx[l].lanes[c]
  IN
  /\ ~drv[n].bridge_cancel /\ HasFrame(tx[l], c)
  /\ tx' = [tx EXCEPT ![l] = Take(@, c)]
  /\ rx' = [rx EXCEPT ![l].lanes[c] =
              CASE lane = "open" /\ f.kind = "eos" -> "eos"
                [] lane = "open" /\ f.kind = "badprog" -> "ended"
                [] lane = "eos" /\ f.kind # "ack" -> "reported"
                [] OTHER -> lane]
  /\ work' = IF lane = "open"
             THEN [work EXCEPT ![n].due = IF f.kind = "fin" THEN f.arg ELSE @,
                               ![n].eaten_got = IF f.kind = "eaten" THEN f.arg ELSE @]
             ELSE work
  /\ CASE \/ lane = "ended" \/ (lane = "reported" /\ f.kind # "ack")
          \/ lane = "open" /\ f.kind \in {"fin", "eaten"} -> UNCHANGED events
       [] lane # "ended" /\ f.kind = "ack" -> report(n, "AckReceived", "none")
       [] lane = "open" /\ f.kind = "eos" -> report(n, "ProgressEndOfStream", "none")
       [] lane = "open" /\ f.kind = "badprog" -> report(n, "ProgressChannelEnded", "Decode")
       [] lane = "eos" /\ f.kind # "ack" ->
            report(n, "ProgressChannelEnded", "ProtocolViolation")
  /\ UNCHANGED <<mach, drv, token, up, shared, faults>>

\* The control dispatcher applies a Cancel of the peer.
DispatchCancel(l) ==
  LET n == l[2] IN
  /\ ~Gone(n) /\ tx[l].ctl # << >>
  /\ tx' = [tx EXCEPT ![l].ctl = Tail(@)]
  /\ IF Head(tx[l].ctl) = "bad"
     THEN report(n, "ControlUndecodable", "none") /\ UNCHANGED token
     ELSE /\ token' = [token EXCEPT ![n] = escalate(@, Head(tx[l].ctl) = "failure")]
          /\ report(n, "CancelReceived", "none")
  /\ UNCHANGED <<mach, drv, work, rx, up, shared, faults>>

\* The connection from the peer ends, a dedicated one when the peer has left
\* and its last push is dropped: the coordinator is told before any of the
\* peer's channels closes (PeerIoNotice).
ConnectionEnds(l) ==
  /\ ~Gone(l[2]) /\ ~rx[l].eof
  /\ \/ ~up
     \/ ~shared /\ Gone(l[1]) /\ work[l[1]].st[1] # "run"
  /\ rx' = [rx EXCEPT ![l].eof = TRUE]
  /\ tx' = [tx EXCEPT ![l].arr = Len(tx[l].wire)]
  /\ report(l[2], "ConnectionFailed", "Transport")
  /\ UNCHANGED <<mach, drv, token, work, up, shared, faults>>

\* Then each channel closes behind the frames queued on it: the data channel
\* without a report if its close marker has passed,
DataChannelEnds(l) ==
  /\ ~Gone(l[2]) /\ rx[l].eof /\ ~rx[l].ended
  /\ work[l[2]].st[1] = "run" \/ ~HasFrame(tx[l], 0)
  /\ rx' = [rx EXCEPT ![l].ended = TRUE]
  /\ IF rx[l].closed \/ \E i \in DOMAIN tx[l].wire : tx[l].wire[i].kind = "close"
     THEN UNCHANGED events
     ELSE report(l[2], "DataChannelEnded", "ChannelClosed")
  /\ UNCHANGED <<mach, drv, token, work, tx, up, shared, faults>>

\* a progress channel without one if its end-of-stream has,
ProgressChannelEnds(l, c) ==
  /\ ~drv[l[2]].bridge_cancel /\ rx[l].eof /\ ~HasFrame(tx[l], c)
  /\ rx[l].lanes[c] = "open"
  /\ rx' = [rx EXCEPT ![l].lanes[c] = "ended"]
  /\ report(l[2], "ProgressChannelEnded", "ChannelClosed")
  /\ UNCHANGED <<mach, drv, token, work, tx, up, shared, faults>>

\* and the control channel always with one.
ControlChannelEnds(l) ==
  /\ ~drv[l[2]].bridge_cancel /\ rx[l].eof /\ rx[l].control /\ tx[l].ctl = << >>
  /\ rx' = [rx EXCEPT ![l].control = FALSE]
  /\ report(l[2], "ControlClosed", "none")
  /\ UNCHANGED <<mach, drv, token, work, tx, up, shared, faults>>

\* bridge_task: a write has failed.  A dedicated session refuses every later
\* frame, a shared manager drops them.
WriteFails(l) ==
  /\ ~Gone(l[1]) /\ tx[l].queue = "failing"
  /\ tx' = [tx EXCEPT ![l].queue = IF shared THEN "void" ELSE "closed"]
  /\ report(l[1], "OutboundFailed", "SendFailed")
  /\ UNCHANGED <<mach, drv, token, work, rx, up, shared, faults>>

\* The peer has left: what reaches it is discarded, or, once a dedicated peer
\* has stopped reading, cannot be written.  It reads for DEMUX_LINGER, long
\* enough for this node to read all that it sent.
Discard(l) ==
  LET read == rx[<<l[2], l[1]>>].eof /\ tx[<<l[2], l[1]>>].ctl = << >>
              /\ tx[<<l[2], l[1]>>].wire = << >>
  IN
  /\ Gone(l[2]) /\ tx[l].wire # << >>
  /\ \E failing \in {FALSE, ~shared /\ ~Gone(l[1]) /\ tx[l].queue = "open" /\ read} :
       tx' = [tx EXCEPT ![l].wire = << >>, ![l].arr = 0,
                        ![l].queue = IF failing THEN "failing" ELSE @]
  /\ UNCHANGED <<mach, drv, token, events, work, rx, up, shared, faults>>

------------------------------------------------------------------------------
(* The coordinator of n (ClusterLifecycle::run).                            *)

\* It waits for its next input once it has performed every action of the last.
\* Inputs are polled in order: the token, the bridges, events, deadlines.
Waiting(n) == drv[n].pc = "run" /\ mach[n].out = << >>
CancelPending(n) == token[n].reason # "none" /\ ~drv[n].cancel_seen

apply(m, e, cancelled) ==
  CASE e.kind = "WorkerFinished" -> on_worker_finished(m, e.success)
    [] e.kind = "InboundDataLost" -> on_inbound_data_lost(m, cancelled)
    [] e.kind \notin {"WorkerFinished", "InboundDataLost"} ->
         apply_link_event(m, e.peer, e)

WorkerFailure(e) == e.kind = "WorkerFinished" /\ e.failure

\* The token was cancelled: the queued events are applied first.
SeeCancel(n) ==
  LET cancelled == token[n].reason # "none" IN
  /\ Waiting(n) /\ CancelPending(n)
  /\ mach' = [mach EXCEPT ![n] = on_dataflow_cancelled(
       FoldLeft(LAMBDA m, e : apply(m, e, cancelled), @, events[n]),
       token[n].reason = "failure")]
  /\ drv' = [drv EXCEPT ![n].cancel_seen = TRUE,
       ![n].worker_failure = @ \/ \E i \in DOMAIN events[n] : WorkerFailure(events[n][i])]
  /\ events' = [events EXCEPT ![n] = << >>]
  /\ UNCHANGED <<token, work, tx, rx, up, shared, faults>>

SeeBridgeCancel(n) ==
  /\ Waiting(n) /\ ~CancelPending(n) /\ drv[n].bridge_cancel
  /\ mach' = [mach EXCEPT ![n] = on_external_abort(@)]
  /\ UNCHANGED <<drv, token, events, work, tx, rx, up, shared, faults>>

HandleEvent(n) ==
  /\ Waiting(n) /\ ~CancelPending(n) /\ ~drv[n].bridge_cancel /\ events[n] # << >>
  /\ mach' = [mach EXCEPT ![n] =
                apply(@, Head(events[n]), token[n].reason # "none")]
  /\ drv' = [drv EXCEPT ![n].worker_failure = @ \/ WorkerFailure(Head(events[n]))]
  /\ events' = [events EXCEPT ![n] = Tail(@)]
  /\ UNCHANGED <<token, work, tx, rx, up, shared, faults>>

\* A grace period is long enough to read what has arrived, and all that a peer
\* which has left had sent.
GraceExpires(n, p) ==
  /\ Waiting(n) /\ ~CancelPending(n) /\ ~drv[n].bridge_cancel /\ events[n] = << >>
  /\ p \in drv[n].soft_deadlines
  /\ LET t == tx[<<p, n>>] IN
       IF Gone(p) \/ ~up THEN t.ctl = << >> /\ \A i \in DOMAIN t.wire : Channel(t.wire[i]) = 0
       ELSE \A i \in 1..t.arr : Channel(t.wire[i]) = 0
  /\ drv' = [drv EXCEPT ![n].soft_deadlines = @ \ {p}]
  /\ mach' = [mach EXCEPT ![n] = on_soft_failure_expired(@, p)]
  /\ UNCHANGED <<token, events, work, tx, rx, up, shared, faults>>

\* What a Cancel of n says, as its receiver classifies it.  A token that is
\* not cancelled stands for a node that abandons a running dataflow.
cancel_broadcast_reason(n) ==
  IF token[n].reason = "stop" /\ ~token[n].escalation THEN "stop" ELSE "failure"

unfinished_reason(n) ==
  IF drv[n].worker_failure THEN "failure" ELSE cancel_broadcast_reason(n)

broadcast_cancel(n, reason) ==
  tx' = [tx EXCEPT ![<<n, Peer(n)>>] = SendCancel(@, reason)]

\* perform: the next action of the machine.
Perform(n, name) ==
  drv[n].pc = "run" /\ mach[n].out # << >> /\ Head(mach[n].out).name = name

Performs(n) == mach' = [mach EXCEPT ![n].out = Tail(@)]

SendAck(n) ==
  /\ Perform(n, "SendAck") /\ Performs(n)
  /\ tx' = [tx EXCEPT ![<<n, Head(mach[n].out).peer>>] = OutboxSend(@, <<Frame("ack", 0)>>)]
  /\ UNCHANGED <<drv, token, events, work, rx, up, shared, faults>>

BroadcastCancel(n) ==
  LET reason == cancel_broadcast_reason(n) IN
  /\ Perform(n, "BroadcastCancel") /\ Performs(n)
  /\ drv' = [drv EXCEPT ![n].failure_announced = @ \/ reason = "failure"]
  /\ broadcast_cancel(n, reason)
  /\ UNCHANGED <<token, events, work, rx, up, shared, faults>>

AnnounceUnfinished(n) ==
  LET reason == unfinished_reason(n) IN
  /\ Perform(n, "AnnounceUnfinished") /\ Performs(n)
  /\ IF drv[n].failure_announced \/ drv[n].unfinished_announced
     THEN UNCHANGED <<drv, tx>>
     ELSE /\ drv' = [drv EXCEPT ![n].unfinished_announced = TRUE,
                                ![n].failure_announced = @ \/ reason = "failure"]
          /\ broadcast_cancel(n, reason)
  /\ UNCHANGED <<token, events, work, rx, up, shared, faults>>

\* CancelDataflow, LinkFailed and AbortDrain all carry a failure.
EscalateToken(n) ==
  /\ \E name \in {"CancelDataflow", "LinkFailed", "AbortDrain"} : Perform(n, name)
  /\ Performs(n)
  /\ token' = [token EXCEPT ![n] = escalate(@, TRUE)]
  /\ UNCHANGED <<drv, events, work, tx, rx, up, shared, faults>>

SendGoodbyeAhead(n) ==
  LET l == <<n, Peer(n)>>
      markers == [c \in 1..NumChannels(n, Peer(n)) |-> Frame("eos", c)]
      arrived == SubSeq(tx[l].wire, 1, tx[l].arr)
      rest == SubSeq(tx[l].wire, tx[l].arr + 1, Len(tx[l].wire))
  IN
  /\ Perform(n, "SendGoodbye") /\ Performs(n)
  /\ tx' = [tx EXCEPT ![l] = IF up THEN [@ EXCEPT !.wire = arrived \o markers \o rest]
                             ELSE OutboxSend(@, markers)]
  /\ UNCHANGED <<drv, token, events, work, rx, up, shared, faults>>

SendGoodbye(n) ==
  LET markers == [c \in 1..NumChannels(n, Peer(n)) |-> Frame("eos", c)] IN
  /\ Perform(n, "SendGoodbye") /\ Performs(n)
  /\ tx' = [tx EXCEPT ![<<n, Peer(n)>>] = OutboxSend(@, markers)]
  /\ UNCHANGED <<drv, token, events, work, rx, up, shared, faults>>

ArmSoftFailureTimer(n) ==
  /\ Perform(n, "ArmSoftFailureTimer") /\ Performs(n)
  /\ drv' = [drv EXCEPT ![n].soft_deadlines = @ \cup {Head(mach[n].out).peer}]
  /\ UNCHANGED <<token, events, work, tx, rx, up, shared, faults>>

\* teardown, up to the waits: the bridges are cancelled and, unless it is
\* graceful, so are the forwarders.
Teardown(n) ==
  LET graceful == Perform(n, "TeardownGraceful") IN
  /\ graceful \/ Perform(n, "TeardownAbort")
  /\ mach' = [mach EXCEPT ![n].out = << >>]
  /\ drv' = [drv EXCEPT ![n].pc = "flush", ![n].bridge_cancel = TRUE]
  /\ tx' = IF graceful THEN tx ELSE [tx EXCEPT ![<<n, Peer(n)>>].forwarder = "aborted"]
  /\ UNCHANGED <<token, events, work, rx, up, shared, faults>>


\* A loss that no peer has been told of.
Unannounced(n, m) ==
  m.data_loss /\ ~(m.cancel_broadcast /\ drv[n].failure_announced)

\* The rest of it, once the lanes are flushed and, if no worker is left to read
\* them, the inbound data bridges are idle: the losses and corruption still
\* queued are recorded and announced, and the transport is released.  An abort
\* drops what the lane holds, and a shared manager what it has not sent.
Release(n) ==
  LET l == <<n, Peer(n)>>
      in == <<Peer(n), n>>
      drain_inbound == mach[n].workers_remaining = 0
      counts(e) == \/ drain_inbound /\ e.kind = "InboundDataLost"
                   \/ is_corruption_event(e)
      final == FoldLeft(LAMBDA m, e : apply(m, e, FALSE), mach[n],
                        SelectSeq(events[n], counts))
      announce == Unannounced(n, final)
      told == IF announce THEN SendCancel(tx[l], "failure") ELSE tx[l]
  IN
  /\ drv[n].pc = "flush" /\ tx[l].forwarder # "refused"
  /\ drain_inbound => \A i \in 1..tx[in].arr : Channel(tx[in].wire[i]) # 0
  /\ mach' = [mach EXCEPT ![n] = [final EXCEPT
                 !.cancel_broadcast = @ \/ final.data_loss, !.out = << >>]]
  /\ drv' = [drv EXCEPT ![n].pc = "gone", ![n].soft_deadlines = {},
                        ![n].failure_announced = @ \/ announce]
  /\ events' = [events EXCEPT ![n] = << >>]
  /\ \E k \in told.arr..Len(told.wire) :
       /\ k = Len(told.wire) \/ told.forwarder = "aborted"
       /\ shared \/ \A i \in (k + 1)..Len(told.wire) : told.wire[i].kind # "rec"
       /\ tx' = [tx EXCEPT ![l] = [told EXCEPT !.wire = SubSeq(@, 1, k),
                   !.forwarder = "off", !.queue = IF shared THEN "void" ELSE @]]
  /\ UNCHANGED <<token, work, rx, up, shared, faults>>

------------------------------------------------------------------------------
(* Faults.                                                                  *)

\* The user stops the dataflow on n.
Stop(n) ==
  /\ Fail("stop") /\ token[n].reason = "none"
  /\ token' = [token EXCEPT ![n] = cancel_with_reason(@, FALSE)]
  /\ UNCHANGED <<mach, drv, events, work, tx, rx, up, shared>>

\* n is told that its peer has left (ClusterCancelHandle).
NodeLeaves(n) ==
  /\ Fail("leave") /\ drv[n].pc = "run"
  /\ token' = [token EXCEPT ![n] = cancel_with_reason(@, TRUE)]
  /\ drv' = [drv EXCEPT ![n].bridge_cancel = TRUE]
  /\ UNCHANGED <<mach, events, work, tx, rx, up, shared>>

\* The connection breaks: of what has not arrived for certain any part is lost,
\* and so is what is sent from now on.
Cut ==
  LET After(l) == {[tx[l] EXCEPT !.wire = SubSeq(@, 1, k), !.arr = k,
                      !.ctl = SubSeq(@, 1, h),
                      !.queue = IF @ = "open" /\ (shared \/ k < Len(tx[l].wire)
                                                 \/ h < Len(tx[l].ctl))
                                THEN "failing" ELSE @] :
                   k \in tx[l].arr..Len(tx[l].wire), h \in 0..Len(tx[l].ctl)}
  IN
  /\ Fail("cut") /\ up /\ up' = FALSE
  /\ tx' \in {t \in [Links -> UNION {After(l) : l \in Links}] :
              \A l \in Links : t[l] \in After(l)}
  /\ UNCHANGED <<mach, drv, token, events, work, rx, shared>>

\* A write to a dedicated connection fails, while it stays open for reading.
WriteBreaks(l) ==
  /\ Fail("write") /\ ~shared /\ up /\ tx[l].queue = "open"
  /\ \E k \in tx[l].arr..(Len(tx[l].wire) - 1), j \in 0..Len(tx[l].ctl) :
       tx' = [tx EXCEPT ![l].wire = SubSeq(@, 1, k), ![l].ctl = SubSeq(@, 1, j),
                        ![l].queue = "failing"]
  /\ UNCHANGED <<mach, drv, token, events, work, rx, up, shared>>

\* A frame is damaged on its way, on a data or progress channel, or on the
\* control channel.
Corrupt(l) ==
  /\ Fail("corrupt")
  /\ \E i \in (tx[l].arr + 1)..Len(tx[l].wire) :
       LET c == Channel(tx[l].wire[i]) IN
       tx' = [tx EXCEPT ![l].wire[i] =
               IF c = 0 THEN Frame("badrec", 0) ELSE Frame("badprog", c)]
  /\ UNCHANGED <<mach, drv, token, events, work, rx, up, shared>>

Garble(l) ==
  /\ Fail("garble") /\ tx[l].ctl # << >>
  /\ tx' = [tx EXCEPT ![l].ctl[1] = "bad"]
  /\ UNCHANGED <<mach, drv, token, events, work, rx, up, shared>>

------------------------------------------------------------------------------
(* The specification.                                                       *)

WorkerStep(n) ==
  \/ SendRecord(n) \/ EndOfInput(n) \/ Pull(n) \/ ReportEaten(n)
  \/ \E w \in WorkersOf(n) : \/ WorkerSucceeds(n, w) \/ WorkerCancelled(n, w)
                              \/ ReportResult(n, w)

NetworkStep(l) ==
  \/ ForwarderStops(l) \/ DropFrame(l) \/ Discard(l) \/ DispatchCancel(l)
  \/ ConnectionEnds(l) \/ DataChannelEnds(l) \/ ControlChannelEnds(l) \/ WriteFails(l)
  \/ \E c \in DOMAIN rx[l].lanes : ReceiveProgress(l, c) \/ ProgressChannelEnds(l, c)

CoordinatorStep(n) ==
  \/ SeeCancel(n) \/ SeeBridgeCancel(n) \/ HandleEvent(n) \/ GraceExpires(n, Peer(n))
  \/ SendAck(n) \/ BroadcastCancel(n) \/ AnnounceUnfinished(n) \/ EscalateToken(n)
  \/ SendGoodbye(n) \/ ArmSoftFailureTimer(n) \/ Teardown(n) \/ Release(n)

FaultStep ==
  \/ Cut
  \/ \E l \in Links : WriteBreaks(l) \/ Corrupt(l) \/ Garble(l)
  \/ \E n \in Nodes : \/ Stop(n) \/ NodeLeaves(n)
                      \/ \E w \in WorkersOf(n) : WorkerFails(n, w) \/ WorkerEndsEarly(n, w)

\* A node has returned its result: its workers have reported, and its teardown
\* is complete (merge_data_loss).
Done(n) == Gone(n) /\ \A w \in WorkersOf(n) : work[n].st[w] \in {"ok", "bad"}
Ok(n) == Done(n) /\ (\A w \in WorkersOf(n) : work[n].st[w] = "ok") /\ ~mach[n].data_loss

Terminated == (\A n \in Nodes : Done(n)) /\ UNCHANGED vars

Next ==
  \/ \E n \in Nodes : WorkerStep(n) \/ CoordinatorStep(n)
  \/ \E l \in Links : NetworkStep(l)
  \/ FaultStep
  \/ Terminated

Spec == Init /\ [][Next]_vars

\* Tasks are scheduled, timers fire and drains have a deadline; no fault need
\* happen.
WorkerIds == UNION {1..k[n] : k \in Workers, n \in Nodes}
ChannelIds == UNION {1..(k[l[1]] * k[l[2]]) : k \in Workers, l \in Links}

Fairness ==
  /\ \A n \in Nodes :
       /\ WF_vars(SendRecord(n))
       /\ WF_vars(EndOfInput(n)) /\ WF_vars(Pull(n)) /\ WF_vars(ReportEaten(n))
       /\ \A w \in WorkerIds :
            /\ WF_vars(w \in WorkersOf(n) /\ WorkerSucceeds(n, w))
            /\ WF_vars(w \in WorkersOf(n) /\ WorkerCancelled(n, w))
            /\ WF_vars(w \in WorkersOf(n) /\ ReportResult(n, w))
       /\ WF_vars(CoordinatorStep(n))
  /\ \A l \in Links :
       /\ WF_vars(ForwarderStops(l)) /\ WF_vars(DropFrame(l)) /\ WF_vars(Discard(l))
       /\ WF_vars(DispatchCancel(l)) /\ WF_vars(ConnectionEnds(l))
       /\ WF_vars(DataChannelEnds(l)) /\ WF_vars(ControlChannelEnds(l))
       /\ WF_vars(WriteFails(l))
       /\ \A c \in ChannelIds :
            /\ WF_vars(c \in DOMAIN rx[l].lanes /\ ReceiveProgress(l, c))
            /\ WF_vars(c \in DOMAIN rx[l].lanes /\ ProgressChannelEnds(l, c))

LiveSpec == Spec /\ Fairness

------------------------------------------------------------------------------
(* Properties.                                                              *)

\* All that is left of the stream of link l has arrived, but for an
\* acknowledgement.
OnlyAckUnderWay(l) ==
  \A i \in (tx[l].arr + 1)..Len(tx[l].wire) : tx[l].wire[i].kind \in {"ack", "badprog"}

\* When every node returns Ok, every record that was sent was consumed: workers
\* that complete too early, on both nodes, while records are still under way
\* cannot leave all nodes with success and one of them without its records.
OkMeansDelivered ==
  (\A n \in Nodes : Ok(n)) => \A n \in Nodes : work[n].got = work[Peer(n)].sent

\* Without faults and without a requested stop the end is quiet: a peer that
\* finishes first and closes its connection is never taken for a lost one.  No
\* node cancels, records a loss or gives a peer up.
OrderlyEndIsClean ==
  faults = {} => \A n \in Nodes :
    /\ token[n].reason = "none" /\ ~mach[n].cancel_broadcast /\ ~mach[n].data_loss
    /\ ~mach[n].peers[Peer(n)].lost

\* A goodbye is complete and final: when n counts p as having finished
\* (goodbye_received), all workers of p have succeeded, and all that p sent
\* has arrived, with nothing behind it but the acknowledgement.
GoodbyeIsFinal ==
  \A n \in Nodes : mach[n].peers[Peer(n)].goodbye_received =>
    /\ \A w \in WorkersOf(Peer(n)) : work[Peer(n)].st[w] = "ok"
    /\ OnlyAckUnderWay(<<Peer(n), n>>)

\* An acknowledgement means arrival: once n has the ack of p, p holds the whole
\* stream of n, so that n may tear the link down without losing a frame.
AckMeansArrived ==
  \A n \in Nodes : mach[n].peers[Peer(n)].ack_received =>
    mach[Peer(n)].peers[n].goodbye_received /\ OnlyAckUnderWay(<<n, Peer(n)>>)


\* A requested stop alone is never reported as lost data, however the stop
\* races with the draining workers and the peer's end.
StopLosesNothing ==
  faults \subseteq {"stop"} => \A n \in Nodes : ~mach[n].data_loss

\* Every node returns: whatever fails, no node waits for ever for a goodbye, an
\* acknowledgement, a stuck push or a peer that has gone.
EveryNodeEnds == <>(\A n \in Nodes : Done(n))

==============================================================================
