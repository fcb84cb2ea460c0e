-------------------------- MODULE LifecycleMachine --------------------------
(***************************************************************************)
(* The decision logic of the cluster lifecycle coordinator                 *)
(* (runtime/cluster_lifecycle.rs, LifecycleMachine): a pure state machine  *)
(* that is fed worker results and link events and answers with actions for *)
(* the driver to perform.                                                  *)
(*                                                                         *)
(* A machine is a record m.  A handler is an operator from a machine to a  *)
(* machine; the Vec<Action> the Rust handlers return is the field m.out,   *)
(* to which every handler appends in the order in which the code extends   *)
(* its vector.  A recorded loss is modelled by the fact that there is one: *)
(* the peer and the wording of a DataLoss decide nothing.                  *)
(***************************************************************************)
EXTENDS Naturals, Sequences

\* What went wrong with a link (LinkFailure).  "Corrupt" is a transport error
\* that only corrupt traffic causes, "Transport" is any other one.
LinkFailures == {"ChannelClosed", "Decode", "ProtocolViolation", "LockPoisoned",
                 "SendFailed", "Encode", "Transport", "Corrupt"}

\* The failures that mean corrupt traffic was received from the peer.
is_inbound_corruption(failure) ==
  failure \in {"Decode", "ProtocolViolation", "Corrupt"}

\* The events of a link (LinkEvent): a kind, and a failure where it carries one.
is_corruption_event(e) ==
  \/ e.kind \in {"DataChannelEnded", "ProgressChannelEnded", "ConnectionFailed"}
     /\ is_inbound_corruption(e.failure)
  \/ e.kind = "ControlUndecodable"

------------------------------------------------------------------------------
(* PeerState: what the machine knows of one peer.  link_retired and         *)
(* push_blocked are the two flags of the shared PeerLinkState, which the    *)
(* network pushes of the local workers read and set.                        *)

NewPeer(expected) ==
  [expected_end_of_stream |-> expected, end_of_stream |-> 0,
   progress_channels_ended |-> 0, goodbye_received |-> FALSE,
   ack_received |-> FALSE, control_closed |-> FALSE, lost |-> FALSE,
   soft_failure |-> "none", unclean_data_channel |-> FALSE,
   cancel_received |-> FALSE, stopped |-> FALSE,
   link_retired |-> FALSE, push_blocked |-> FALSE]

retired(peer) == peer.goodbye_received \/ peer.ack_received

\* Frames this node owed the peer were dropped by a send that failed.
unsent(peer) == peer.soft_failure = "SendFailed"

resolved(peer) == (retired(peer) \/ peer.lost) /\ ~unsent(peer)

fully_closed(peer) ==
  peer.control_closed /\ peer.progress_channels_ended >= peer.expected_end_of_stream

stopped_after_cancel(peer, hard) ==
  peer.cancel_received /\ ~peer.goodbye_received /\ (hard \/ fully_closed(peer))

------------------------------------------------------------------------------
(* LifecycleMachine.                                                        *)

new(num_local_workers, peers, expected) ==
  [phase |-> "Running", workers_remaining |-> num_local_workers,
   all_workers_ok |-> TRUE, goodbye_sent |-> FALSE, cancel_broadcast |-> FALSE,
   requested_stop |-> FALSE, drain_aborted |-> FALSE, data_loss |-> FALSE,
   pending_loss |-> FALSE, deferred_loss |-> FALSE, workers_succeeded |-> 0,
   peers |-> [p \in peers |-> NewPeer(expected[p])], out |-> << >>]

Act(m, action) == [m EXCEPT !.out = Append(@, action)]

\* Teardown is never followed by another action, and every other one has no
\* parameter but the peer.
PerformedOn(name, p) == [name |-> name, peer |-> p]
Performed(name) == [name |-> name]

\* Stop waiting for the peers whose links are not retired.
LoseUnretired(m) ==
  [m EXCEPT !.peers = [p \in DOMAIN @ |->
     [@[p] EXCEPT !.lost = @ \/ ~retired(m.peers[p])]]]

finish_if_resolved(m) ==
  IF m.phase = "Draining" /\ \A p \in DOMAIN m.peers : resolved(m.peers[p])
  THEN Act([m EXCEPT !.phase = "Finished"], Performed("TeardownGraceful"))
  ELSE m

\* Stop a drain that can no longer complete, once.
abort_drain(m) ==
  IF m.phase # "Running" \/ ~m.requested_stop \/ m.drain_aborted
  THEN m
  ELSE Act([m EXCEPT !.drain_aborted = TRUE], Performed("AbortDrain"))

abort_drain_without(m, p) ==
  IF m.peers[p].push_blocked THEN abort_drain(m) ELSE m

\* Announce the cancellation unless it was announced before.
BroadcastOnce(m) ==
  IF m.cancel_broadcast THEN m
  ELSE Act([m EXCEPT !.cancel_broadcast = TRUE], Performed("BroadcastCancel"))

abandon_after_data_loss(m) ==
  LET cancelled == Act(m, Performed("CancelDataflow"))
      told == IF ~m.cancel_broadcast THEN BroadcastOnce(cancelled)
              ELSE IF m.requested_stop
                   THEN Act(cancelled, Performed("AnnounceUnfinished"))
                   ELSE cancelled
  IN  [LoseUnretired(told) EXCEPT !.peers =
         [p \in DOMAIN @ |-> [@[p] EXCEPT !.soft_failure = "none"]]]

\* Records the running workers need can no longer arrive.
fail_running_with_data_loss(m) ==
  BroadcastOnce(Act([m EXCEPT !.data_loss = TRUE], Performed("CancelDataflow")))

\* The workers are being stopped.  cancelled: the local token is cancelled,
\* which the machine may not have been told yet.
Stopping(m, cancelled) == cancelled \/ m.cancel_broadcast

LossIgnored(m, cancelled) == m

\* Records for this node, or frames it owed a peer, were lost.
on_inbound_data_lost(m, cancelled) ==
  IF ~m.all_workers_ok \/ m.data_loss THEN m ELSE
  CASE m.phase = "Running" /\ Stopping(m, cancelled) ->
         [m EXCEPT !.pending_loss = TRUE]
    [] m.phase = "Running" /\ ~Stopping(m, cancelled) ->
         IF m.workers_succeeded = 0 THEN [m EXCEPT !.deferred_loss = TRUE]
         ELSE fail_running_with_data_loss(m)
    [] m.phase = "Draining" ->
         finish_if_resolved(abandon_after_data_loss([m EXCEPT !.data_loss = TRUE]))
    [] m.phase = "Finished" -> [m EXCEPT !.data_loss = TRUE]

\* A peer that said goodbye has a data channel without its close marker.
missing_close_marker(m) ==
  IF m.phase # "Running" THEN m
  ELSE IF m.cancel_broadcast
       THEN abort_drain([m EXCEPT !.pending_loss = TRUE])
       ELSE fail_running_with_data_loss(m)

on_corruption(m, p) ==
  LET known == [m EXCEPT !.data_loss = TRUE]
      blamed == [known EXCEPT !.peers[p].lost = @ \/ ~retired(m.peers[p]),
                              !.peers[p].soft_failure = "none"]
  IN  CASE m.phase = "Finished" -> known
        [] m.phase = "Running" ->
             IF m.cancel_broadcast THEN abort_drain(blamed)
             ELSE BroadcastOnce(Act(blamed, Performed("LinkFailed")))
        [] m.phase = "Draining" -> abandon_after_data_loss(blamed)

DeferWithoutTimer(m, p, failure) ==
  IF m.peers[p].soft_failure # "none" THEN m
  ELSE [m EXCEPT !.peers[p].soft_failure = failure]

defer_soft_failure(m, p, failure) ==
  IF m.peers[p].soft_failure # "none" THEN m
  ELSE Act([m EXCEPT !.peers[p].soft_failure = failure],
           PerformedOn("ArmSoftFailureTimer", p))

\* A link that is not resolved, and owes the peer nothing, ended.
UnresolvedFailure(m, p, failure, hard) ==
  LET final == hard \/ fully_closed(m.peers[p])
      lost == [m EXCEPT !.peers[p].lost = TRUE]
  IN  CASE m.phase = "Finished" -> m
        [] m.phase = "Running" /\ m.cancel_broadcast /\ ~m.requested_stop -> lost
        [] m.phase = "Running" /\ m.cancel_broadcast /\ m.requested_stop ->
             IF ~final THEN defer_soft_failure(m, p, failure)
             ELSE abort_drain_without([lost EXCEPT !.peers[p].stopped = TRUE], p)
        [] m.phase = "Running" /\ ~m.cancel_broadcast ->
             IF ~final THEN defer_soft_failure(m, p, failure)
             ELSE BroadcastOnce(Act(lost, Performed("LinkFailed")))
        [] m.phase = "Draining" ->
             IF ~final THEN defer_soft_failure(m, p, failure) ELSE lost

\* What a send that failed while the workers ran means, once no Cancel of the
\* peer can excuse it any more: its link has ended (closed), or it stayed open
\* for the whole grace period.
settle_unsent(m, p, closed) ==
  LET peer == m.peers[p]
      taken == [m EXCEPT !.peers[p].soft_failure = "none"]
  IN  CASE unsent(peer) /\ retired(peer) ->
             IF closed THEN taken ELSE on_inbound_data_lost(taken, FALSE)
        [] unsent(peer) /\ ~retired(peer) ->
             IF m.phase = "Running" /\ ~peer.lost
             THEN UnresolvedFailure(taken, p, "SendFailed", TRUE)
             ELSE on_inbound_data_lost([taken EXCEPT !.peers[p].lost = TRUE], FALSE)

OnLinkFailureUnresolved(m, p, failure, hard) ==
  UnresolvedFailure(m, p, failure, hard)

on_link_failure(m, p, failure, hard) ==
  LET peer == m.peers[p] IN
  CASE resolved(peer) ->
         IF peer.stopped \/ stopped_after_cancel(peer, hard)
         THEN abort_drain_without([m EXCEPT !.peers[p].stopped = TRUE], p)
         ELSE m
    [] ~resolved(peer) /\ unsent(peer) /\ (hard \/ fully_closed(peer)) ->
         settle_unsent(m, p, TRUE)
    [] OTHER -> UnresolvedFailure(m, p, failure, hard)

------------------------------------------------------------------------------
(* The inputs of the machine.                                               *)

PendingAlwaysCounts(m) == m.pending_loss

\* Records lost while the workers were being stopped matter only if all of
\* them drained to completion.
PendingCounts(m) == m.all_workers_ok /\ m.pending_loss

\* The last worker has reported: say goodbye, or give up.
AllWorkersFinished(m) ==
  LET loss == m.data_loss \/ PendingCounts(m)
      taken == [m EXCEPT !.pending_loss = FALSE, !.data_loss = loss]
      goodbye == Act([taken EXCEPT !.phase = "Draining", !.goodbye_sent = TRUE],
                     Performed("SendGoodbye"))
      unfinished(t) == Act(t, Performed("AnnounceUnfinished"))
      told == CASE m.all_workers_ok -> abandon_after_data_loss(taken)
                [] ~m.all_workers_ok /\ ~m.cancel_broadcast ->
                     unfinished(BroadcastOnce(taken))
                [] ~m.all_workers_ok /\ m.cancel_broadcast ->
                     IF m.requested_stop THEN unfinished(taken) ELSE taken
  IN  IF m.all_workers_ok /\ ~loss
      THEN finish_if_resolved(IF m.cancel_broadcast THEN LoseUnretired(goodbye)
                              ELSE goodbye)
      ELSE Act([told EXCEPT !.phase = "Finished"], Performed("TeardownAbort"))

\* A loss reported by a worker as it finished counts only if it succeeded.
SettleDeferred(m) ==
  LET counts == /\ m.deferred_loss /\ m.all_workers_ok /\ ~m.data_loss
                /\ m.phase = "Running"
      taken == [m EXCEPT !.deferred_loss = FALSE]
  IN  CASE ~counts -> taken
        [] counts /\ m.cancel_broadcast -> [taken EXCEPT !.pending_loss = TRUE]
        [] counts /\ ~m.cancel_broadcast ->
             IF m.workers_remaining > 0 THEN fail_running_with_data_loss(taken)
             ELSE [taken EXCEPT !.data_loss = TRUE]

on_worker_finished(m, success) ==
  IF m.workers_remaining = 0 THEN m ELSE
  LET counted == [m EXCEPT !.workers_remaining = @ - 1,
                           !.all_workers_ok = @ /\ success,
                           !.workers_succeeded = @ + (IF success THEN 1 ELSE 0)]
      settled == SettleDeferred(counted)
  IN  IF settled.workers_remaining > 0 \/ settled.phase # "Running" THEN settled
      ELSE AllWorkersFinished(settled)

\* The local token was cancelled.  failure: not by a requested stop.
on_dataflow_cancelled(m, failure) ==
  IF m.phase # "Running" \/ m.cancel_broadcast THEN m ELSE
  LET told == BroadcastOnce([m EXCEPT !.requested_stop = ~failure])
      blocked == \E p \in DOMAIN m.peers : m.peers[p].stopped /\ m.peers[p].push_blocked
  IN  IF blocked THEN abort_drain(told) ELSE told

\* The network bridges were cancelled from outside.
on_external_abort(m) ==
  LET finished == [m EXCEPT !.phase = "Finished"] IN
  CASE m.phase = "Finished" -> m
    [] m.phase = "Draining" ->
         Act(LoseUnretired(finished), Performed("TeardownGraceful"))
    [] m.phase = "Running" -> Act(BroadcastOnce(finished), Performed("TeardownAbort"))

\* The goodbye of p is complete: acknowledge it.
Farewell(m, p) ==
  LET bye == [m EXCEPT !.peers[p].goodbye_received = TRUE, !.peers[p].link_retired = TRUE]
      acked == IF m.phase = "Finished" THEN bye
               ELSE Act(bye, PerformedOn("SendAck", p))
  IN  IF m.peers[p].unclean_data_channel THEN missing_close_marker(acked) ELSE acked

GoodbyeOnFirstMarker(m, p) == m.peers[p].end_of_stream = 1

\* Every progress channel of p has ended with its marker.
GoodbyeComplete(m, p) == m.peers[p].end_of_stream = m.peers[p].expected_end_of_stream

\* A protocol violation is reported behind the marker, which has counted.
EndsChannel(failure) == failure # "ProtocolViolation"

\* One event of the link to p (apply_link_event), up to its last check.
LinkStep(m, p, e) ==
  LET peer == m.peers[p] IN
  CASE e.kind = "ProgressEndOfStream" ->
         LET eos == [m EXCEPT !.peers[p].end_of_stream = @ + 1,
                              !.peers[p].progress_channels_ended = @ + 1]
         IN  IF GoodbyeComplete(eos, p) /\ ~peer.goodbye_received
             THEN Farewell(eos, p) ELSE eos
    [] e.kind = "AckReceived" ->
         IF m.goodbye_sent
         THEN [m EXCEPT !.peers[p].ack_received = TRUE, !.peers[p].link_retired = TRUE]
         ELSE on_corruption(m, p)
    [] e.kind = "CancelReceived" ->
         LET gone == [m EXCEPT !.peers[p].lost = @ \/ ~retired(peer),
                               !.peers[p].soft_failure = "none"]
         IN  IF peer.cancel_received /\ ~peer.goodbye_received
             THEN abort_drain_without([gone EXCEPT !.peers[p].stopped = TRUE], p)
             ELSE [gone EXCEPT !.peers[p].cancel_received = TRUE]
    [] e.kind = "ControlClosed" ->
         LET closed == [m EXCEPT !.peers[p].control_closed = TRUE]
             now == closed.peers[p]
         IN  IF fully_closed(now) /\ (~resolved(now) \/ stopped_after_cancel(now, FALSE))
             THEN on_link_failure(closed, p, "ChannelClosed", TRUE)
             ELSE closed
    [] e.kind = "ControlUndecodable" -> on_corruption(m, p)
    [] e.kind = "ProgressChannelEnded" ->
         LET ended == IF ~EndsChannel(e.failure) THEN m
                      ELSE [m EXCEPT !.peers[p].progress_channels_ended = @ + 1]
         IN  IF is_inbound_corruption(e.failure) THEN on_corruption(ended, p)
             ELSE on_link_failure(ended, p, e.failure, e.failure # "ChannelClosed")
    [] e.kind = "DataChannelEnded" ->
         LET unclean == [m EXCEPT !.peers[p].unclean_data_channel = TRUE] IN
         IF is_inbound_corruption(e.failure) THEN on_corruption(m, p)
         ELSE IF peer.goodbye_received THEN missing_close_marker(unclean)
              ELSE on_link_failure(unclean, p, e.failure, FALSE)
    [] e.kind = "ConnectionFailed" ->
         IF is_inbound_corruption(e.failure) THEN on_corruption(m, p)
         ELSE on_link_failure(m, p, e.failure, FALSE)
    [] e.kind = "OutboundFailed" ->
         on_link_failure(m, p, e.failure,
                         ~(m.phase = "Running" /\ e.failure = "SendFailed"))

apply_link_event(m, p, e) == finish_if_resolved(LinkStep(m, p, e))

\* The grace period of a soft failure of the link to p ran out.
on_soft_failure_expired(m, p) ==
  LET peer == m.peers[p]
      taken == [m EXCEPT !.peers[p].soft_failure = "none"]
  IN  CASE unsent(peer) -> finish_if_resolved(settle_unsent(m, p, FALSE))
        [] peer.soft_failure = "none" -> m
        [] ~unsent(peer) /\ peer.soft_failure # "none" ->
             finish_if_resolved(on_link_failure(taken, p, peer.soft_failure, TRUE))

==============================================================================
