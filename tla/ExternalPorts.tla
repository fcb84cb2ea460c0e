----------------------------- MODULE ExternalPorts -----------------------------
(* How a running dataflow meets the outside (dataflow/channel_operators): user  *)
(* threads or the pump of an async source send events through an admission gate *)
(* into a bounded channel; the channel source of the worker reads it; the       *)
(* channel sink hands results to a bounded channel of which the user takes      *)
(* them.  The worker's executor sweeps over both, parks, drains after a         *)
(* cancellation, and ends with a result (dataflow/executor, runtime).  What lies *)
(* between source and sink runs on the worker's own thread and is one queue.    *)
EXTENDS Naturals, Sequences, FiniteSets, SequencesExt

CONSTANTS Plans,        \* how the dataflow may be used: see MCExternalPorts
          InCapacity, OutCapacity,
          Budget,       \* ACTIVATION_BUDGET: data events per call of the source
          MaxIdleSweeps \* idle sweeps in a row after which the worker parks

ASSUME PortsAssumption ==
    {InCapacity, OutCapacity, Budget, MaxIdleSweeps} \subseteq Nat \ {0}

VARIABLES
    plan,       \* mode (sync, async, pump), drain_on_cancel, scripts of the senders
    sender,     \* per InputSender: where it is, and the events it has left
    gate,       \* InputGate: closed, and the number of senders inside
    input,      \* the input channel: its events, and whether its receiver refuses
    outcome,    \* ProducerOutcome of an async source
    producer,   \* the pump: running, or how its producer returned
    notified,   \* the worker's WakeHandle
    cancel,     \* the CancellationToken: none, stop or failure
    source,     \* ChannelSourceLogic
    inner,      \* between source and sink
    sink,       \* ChannelSinkLogic: pending_send and receiver_dropped
    output,     \* the output channel: its events, and whether its receiver is there
    exec,       \* the executor: where its thread is, and its drain
    result,     \* what the completion was told
    accepted,   \* the events whose send succeeded
    received    \* what the user took from the output, in order

portVars == <<sender, gate, input>>
pumpVars == <<outcome, producer>>
outVars == <<sink, output, received>>
execVars == <<source, inner, exec, result>>
vars == <<plan, portVars, pumpVars, outVars, execVars, notified, cancel, accepted>>

Senders == DOMAIN plan.scripts
Async == plan.mode # "sync"

Init ==
    /\ plan \in Plans
    /\ sender = [s \in Senders |-> [at |-> "idle", todo |-> plan.scripts[s]]]
    /\ gate = [closed |-> FALSE, inFlight |-> 0]
    /\ input = [events |-> <<>>, refuses |-> FALSE]
    /\ outcome = "pending"
    /\ producer = IF plan.mode = "pump" THEN "running" ELSE "published"
    /\ notified = TRUE
    /\ cancel = "none"
    /\ source = [finished |-> FALSE, externalClosed |-> FALSE, failure |-> FALSE,
                 current |-> 0]
    /\ inner = <<>>
    /\ sink = [pending |-> <<>>, dropped |-> FALSE]
    /\ output = [events |-> <<>>, open |-> TRUE]
    /\ exec = [at |-> "rest", active |-> FALSE, events |-> 0, final |-> FALSE,
               idle |-> 0, draining |-> FALSE, expired |-> FALSE]
    /\ result = "none"
    /\ accepted = {}
    /\ received = <<>>
--------------------------------------------------------------------------------
(* InputSender and AsyncInputSender: enqueue one event.                         *)

\* InputGate::enter counts the sender in before it looks whether the gate closed.
Enter(s) ==
    /\ sender[s].at = "idle" /\ sender[s].todo # <<>> /\ producer # "failing"
    /\ gate' = [gate EXCEPT !.inFlight = @ + 1]
    /\ sender' = [sender EXCEPT ![s].at = "entered"]
    /\ UNCHANGED <<input, pumpVars, outVars, execVars, notified, cancel, accepted>>

CheckGate(s) ==
    /\ sender[s].at = "entered"
    /\ IF gate.closed
       THEN /\ gate' = [gate EXCEPT !.inFlight = @ - 1]
            /\ sender' = [sender EXCEPT ![s] = [at |-> "idle", todo |-> Tail(@.todo)]]
       ELSE /\ sender' = [sender EXCEPT ![s].at = "admitted"]
            /\ gate' = gate
    /\ UNCHANGED <<input, pumpVars, outVars, execVars, notified, cancel, accepted>>

\* The channel's send: it waits for room, or fails once the receiver refuses.
Enqueue(s) ==
    /\ sender[s].at = "admitted"
    /\ \/ /\ ~input.refuses /\ Len(input.events) < InCapacity
          /\ input' = [input EXCEPT !.events = Append(@, Head(sender[s].todo))]
          /\ accepted' = accepted \cup {Head(sender[s].todo)}
       \/ input.refuses /\ UNCHANGED <<input, accepted>>
    /\ sender' = [sender EXCEPT ![s].at = "leaving"]
    /\ UNCHANGED <<gate, pumpVars, outVars, execVars, notified, cancel>>

\* The future of a send that waits for room is dropped: nothing is enqueued.
GiveUp(s) ==
    /\ Async /\ plan.mode # "pump"
    /\ sender[s].at = "admitted" /\ Len(input.events) = InCapacity
    /\ sender' = [sender EXCEPT ![s].at = "leaving"]
    /\ UNCHANGED <<gate, input, pumpVars, outVars, execVars, notified, cancel, accepted>>

\* Admission::drop leaves the gate, then wakes the worker.
Leave(s) ==
    /\ sender[s].at = "leaving"
    /\ gate' = [gate EXCEPT !.inFlight = @ - 1]
    /\ sender' = [sender EXCEPT ![s] = [at |-> "left", todo |-> Tail(@.todo)]]
    /\ UNCHANGED <<input, pumpVars, outVars, execVars, notified, cancel, accepted>>

\* The sender is dropped: its end of the channel first, then the wake-up.
DropSender(s) ==
    /\ sender[s].at = "idle"
    /\ sender[s].todo = <<>> \/ producer = "failing"
    /\ sender' = [sender EXCEPT ![s] = [at |-> "dropped", todo |-> <<>>]]
    /\ UNCHANGED <<gate, input, pumpVars, outVars, execVars, notified, cancel, accepted>>

\* Faulty variant: dropping a sender does not wake the worker.
WakeForgotten(s) ==
    /\ sender[s].at \in {"left", "dropped"}
    /\ sender' = [sender EXCEPT ![s].at = IF @ = "left" THEN "idle" ELSE "gone"]
    /\ notified' = (notified \/ sender[s].at = "left")
    /\ UNCHANGED <<gate, input, pumpVars, outVars, execVars, cancel, accepted>>

\* Admission::drop and WakeOnDrop notify the worker last.
Wake(s) ==
    /\ sender[s].at \in {"left", "dropped"}
    /\ sender' = [sender EXCEPT ![s].at = IF @ = "left" THEN "idle" ELSE "gone"]
    /\ notified' = TRUE
    /\ UNCHANGED <<gate, input, pumpVars, outVars, execVars, cancel, accepted>>

Disconnected == \A s \in Senders : sender[s].at \in {"dropped", "gone"}
--------------------------------------------------------------------------------
(* The pump of an async source: it runs the producer, which owns the sender.    *)

\* The producer decides to return an error in the middle of its work.
ProducerFails ==
    /\ producer = "running"
    /\ \E s \in Senders : sender[s].at = "idle" /\ sender[s].todo # <<>>
    /\ producer' = "failing"
    /\ UNCHANGED <<portVars, outcome, outVars, execVars, notified, cancel, accepted>>

\* The producer returns; its sender is gone by then.
ProducerReturns ==
    /\ producer \in {"running", "failing"} /\ Disconnected
    /\ producer' = IF producer = "running" THEN "ok" ELSE "err"
    /\ UNCHANGED <<portVars, outcome, outVars, execVars, notified, cancel, accepted>>

\* The pump looks at the token first each time it runs the producer, and then
\* drops it where it waits (outside a send, or in one that waits for room).
ProducerCut ==
    /\ producer \in {"running", "failing"} /\ cancel # "none"
    /\ \E s \in Senders :
          \/ sender[s].at = "gone" /\ UNCHANGED <<gate, sender>>
          \/ /\ \/ sender[s].at = "idle" /\ gate' = gate
                \/ sender[s].at = "admitted" /\ gate' = [gate EXCEPT !.inFlight = @ - 1]
             /\ sender' = [sender EXCEPT ![s] = [at |-> "dropped", todo |-> <<>>]]
    /\ producer' = "cut"
    /\ UNCHANGED <<input, outcome, outVars, execVars, notified, cancel, accepted>>

\* How the producer ended, for the source to see: an error counts as the
\* cancellation's doing if there is one by now.
Publish ==
    /\ producer \in {"ok", "err", "cut"} /\ outcome = "pending"
    /\ outcome' = CASE producer = "ok" -> "completed"
                    [] producer = "err" /\ cancel = "none" -> "failed"
                    [] OTHER -> IF plan.drain THEN "completed" ELSE "abandoned"
    /\ UNCHANGED <<producer, portVars, outVars, execVars, notified, cancel, accepted>>

PumpWakes ==
    /\ producer \in {"ok", "err", "cut"} /\ outcome # "pending"
    /\ producer' = "published"
    /\ notified' = TRUE
    /\ UNCHANGED <<outcome, portVars, outVars, execVars, cancel, accepted>>
--------------------------------------------------------------------------------
(* The user cancels, and takes what the dataflow puts out.                      *)

\* The token is cancelled, which wakes the worker; a failure may follow a stop.
Cancel(reason) ==
    /\ cancel = "none" \/ (cancel = "stop" /\ reason = "failure")
    /\ reason \in plan.cancels /\ result = "none"
    /\ cancel' = reason
    /\ notified' = TRUE
    /\ UNCHANGED <<portVars, pumpVars, outVars, execVars, accepted>>

\* OutputReceiver::recv; only the async receiver wakes the worker.
Receive ==
    /\ output.open /\ output.events # <<>>
    /\ received' = Append(received, Head(output.events))
    /\ output' = [output EXCEPT !.events = Tail(@)]
    /\ notified' = (notified \/ Async)
    /\ UNCHANGED <<portVars, pumpVars, sink, execVars, cancel, accepted>>

\* The user drops the receiver.
DropReceiver ==
    /\ plan.abandons /\ output.open
    /\ output' = [events |-> <<>>, open |-> FALSE]
    /\ notified' = TRUE
    /\ UNCHANGED <<portVars, pumpVars, sink, received, execVars, cancel, accepted>>
--------------------------------------------------------------------------------
(* The worker.  `at` is where its thread is in a sweep: check the cancellation, *)
(* call the source (take its failures, then receive), call the sink, decide.    *)

\* The executor is dropped with its operators and its completion is told; a
\* failure cancels the token, which stops a pump.
End(r) ==
    /\ result' = r
    /\ exec' = [exec EXCEPT !.at = "done"]
    /\ input' = [events |-> <<>>, refuses |-> TRUE]
    /\ cancel' = IF r # "ok" /\ cancel = "none" THEN "failure" ELSE cancel

\* A notification has the future of the parked worker polled again.
WakeUp ==
    /\ exec.at = "rest" /\ notified
    /\ exec' = [exec EXCEPT !.at = "check"]
    /\ UNCHANGED <<portVars, pumpVars, outVars, source, inner, result, notified, cancel,
                   accepted>>

\* Faulty variant: the source is not told that its input was closed.
ExternalLeftOpen ==
    /\ source' = source
    /\ gate' = [gate EXCEPT !.closed = TRUE]
    /\ input' = [input EXCEPT !.refuses = Async]

\* close_external_input: later sends fail, what was enqueued stays.
ExternalClosed ==
    /\ source' = [source EXCEPT !.externalClosed = TRUE]
    /\ gate' = [gate EXCEPT !.closed = TRUE]
    /\ input' = [input EXCEPT !.refuses = Async]

\* Not cancelled, or draining without a reason to stop: the sweep goes on.
CheckPasses ==
    /\ exec.at = "check"
    /\ cancel = "none" \/ (exec.draining /\ cancel = "stop" /\ ~exec.expired)
    /\ exec' = [exec EXCEPT !.at = "call", !.active = FALSE, !.events = 0, !.final = FALSE]
    /\ UNCHANGED <<portVars, pumpVars, outVars, source, inner, result, notified, cancel,
                   accepted>>

\* A requested stop starts a drain, if one is configured.
CheckDrains ==
    /\ exec.at = "check" /\ ~exec.draining
    /\ cancel = "stop" /\ plan.drain
    /\ exec' = [exec EXCEPT !.draining = TRUE]
    /\ IF source.finished \/ source.externalClosed
       THEN UNCHANGED <<source, gate, input>> ELSE ExternalClosed
    /\ UNCHANGED <<sender, pumpVars, outVars, inner, result, notified, cancel, accepted>>

\* Any other cancellation, and an escalated or expired drain, ends the run.
CheckFails ==
    /\ exec.at = "check"
    /\ \/ cancel = "failure"
       \/ cancel = "stop" /\ ~exec.draining /\ ~plan.drain
       \/ exec.draining /\ exec.expired
    /\ End("cancelled")
    /\ UNCHANGED <<sender, gate, pumpVars, outVars, source, inner, notified, accepted>>

\* The drain's deadline passes.
Expire ==
    /\ exec.draining /\ ~exec.expired /\ exec.at # "done" /\ plan.expires
    /\ exec' = [exec EXCEPT !.expired = TRUE]
    /\ UNCHANGED <<portVars, pumpVars, outVars, source, inner, result, notified, cancel,
                   accepted>>

\* ChannelSourceLogic::call: a failure found before, or the producer's, is raised.
CallRaises ==
    /\ exec.at = "call" /\ (source.failure \/ (~source.finished /\ outcome = "failed"))
    /\ End("failed")
    /\ UNCHANGED <<sender, gate, pumpVars, outVars, source, inner, notified, accepted>>

Call ==
    /\ exec.at = "call" /\ ~source.failure /\ (source.finished \/ outcome # "failed")
    /\ exec' = [exec EXCEPT !.at = IF source.finished THEN "sink" ELSE "recv"]
    /\ UNCHANGED <<portVars, pumpVars, outVars, source, inner, result, notified, cancel,
                   accepted>>

\* An event is received.  One behind the input's frontier, or a frontier that
\* retreats, becomes a failure to be raised once what precedes it is committed.
RecvEvent ==
    LET event == Head(input.events)
    IN  /\ exec.at = "recv" /\ exec.events < Budget /\ input.events # <<>>
        /\ input' = [input EXCEPT !.events = Tail(@)]
        /\ \/ /\ event.time < source.current
              /\ source' = [source EXCEPT !.failure = TRUE]
              /\ exec' = [exec EXCEPT !.at = "sink"]
              /\ inner' = inner
           \/ /\ event.time >= source.current /\ event.kind = "data"
              /\ inner' = Append(inner, event)
              /\ exec' = [exec EXCEPT !.events = @ + 1, !.active = TRUE]
              /\ source' = source
           \/ /\ event.time >= source.current /\ event.kind = "frontier"
              /\ source' = [source EXCEPT !.current = event.time]
              /\ exec' = [exec EXCEPT !.active = TRUE]
              /\ inner' = inner
        /\ UNCHANGED <<sender, gate, pumpVars, outVars, result, notified, cancel, accepted>>

\* Faulty variant: an input ends with its channel unless it is known to have failed.
InputEndsWithChannel(drained) == outcome # "failed"

\* ProducerOutcome::input_end, for an async source.
InputEnds(drained) ==
    \/ plan.mode # "pump"
    \/ outcome = "completed"
    \/ outcome = "abandoned" /\ drained

\* The channel is empty and stays so: its senders are gone, or the gate is closed
\* and was seen empty before this receive.
InputIsFinal ==
    /\ exec.at = "recv" /\ exec.events < Budget /\ input.events = <<>>
    /\ Disconnected \/ (source.externalClosed /\ exec.final)

\* finish: no more events, the capability is released.
Finish ==
    /\ InputIsFinal /\ InputEnds(~Disconnected)
    /\ source' = [source EXCEPT !.finished = TRUE]
    /\ gate' = [gate EXCEPT !.closed = TRUE]
    /\ input' = [input EXCEPT !.refuses = @ \/ Async]
    /\ exec' = [exec EXCEPT !.at = "sink", !.active = TRUE]
    /\ UNCHANGED <<sender, pumpVars, outVars, inner, result, notified, cancel, accepted>>

\* A producer's failure seen here is raised now, or after this call's events.
FinishFails ==
    /\ InputIsFinal /\ plan.mode = "pump" /\ outcome = "failed"
    /\ IF exec.active
       THEN /\ source' = [source EXCEPT !.failure = TRUE]
            /\ exec' = [exec EXCEPT !.at = "sink"]
            /\ UNCHANGED <<input, result, cancel>>
       ELSE End("failed") /\ source' = source
    /\ UNCHANGED <<sender, gate, pumpVars, outVars, inner, notified, accepted>>

\* Faulty variant: the senders inside the gate are not waited for.
DrainedInputsPresumedFinal ==
    /\ exec.at = "recv" /\ exec.events < Budget /\ input.events = <<>> /\ ~Disconnected
    /\ source.externalClosed /\ ~exec.final
    /\ exec' = [exec EXCEPT !.final = TRUE]
    /\ UNCHANGED <<portVars, pumpVars, outVars, source, inner, result, notified, cancel,
                   accepted>>

\* The gate is closed and empty: one more receive collects what was enqueued.
DrainedInputsFinal ==
    /\ exec.at = "recv" /\ exec.events < Budget /\ input.events = <<>> /\ ~Disconnected
    /\ source.externalClosed /\ ~exec.final /\ gate.inFlight = 0
    /\ exec' = [exec EXCEPT !.final = TRUE]
    /\ UNCHANGED <<portVars, pumpVars, outVars, source, inner, result, notified, cancel,
                   accepted>>

\* Nothing (more) to receive in this call.
RecvNothing ==
    /\ exec.at = "recv"
    /\ \/ exec.events = Budget
       \/ /\ input.events = <<>> /\ ~Disconnected
          /\ ~source.externalClosed \/ (~exec.final /\ gate.inFlight > 0)
       \/ InputIsFinal /\ ~InputEnds(~Disconnected) /\ outcome # "failed"
    /\ exec' = [exec EXCEPT !.at = "sink"]
    /\ UNCHANGED <<portVars, pumpVars, outVars, source, inner, result, notified, cancel,
                   accepted>>
--------------------------------------------------------------------------------
(* ChannelSinkLogic::call and the end of the sweep.                             *)

\* The event to forward next: the one the full channel refused, then the input's.
SinkWork == sink.pending \o inner

\* ChannelSinkLogic::forward, of the next event.  A full channel ends the call
\* with the event kept; a missing receiver makes the sink discard.
Forward ==
    /\ exec.at = "sink" /\ SinkWork # <<>>
    /\ \/ /\ sink.dropped \/ ~output.open
          /\ sink' = [pending |-> <<>>, dropped |-> TRUE]
          /\ output' = output
       \/ /\ ~sink.dropped /\ output.open /\ Len(output.events) < OutCapacity
          /\ output' = [output EXCEPT !.events = Append(@, Head(SinkWork))]
          /\ sink' = [sink EXCEPT !.pending = <<>>]
    /\ inner' = Tail(SinkWork)
    /\ exec' = [exec EXCEPT !.active = TRUE]
    /\ UNCHANGED <<portVars, pumpVars, received, source, result, notified, cancel, accepted>>

\* A blocked operator is activated again: the sweep counts as active.
SinkBlocks ==
    /\ exec.at = "sink" /\ SinkWork # <<>>
    /\ ~sink.dropped /\ output.open /\ Len(output.events) = OutCapacity
    /\ sink' = [sink EXCEPT !.pending = <<Head(SinkWork)>>]
    /\ inner' = Tail(SinkWork)
    /\ exec' = [exec EXCEPT !.at = "decide", !.active = TRUE]
    /\ UNCHANGED <<portVars, pumpVars, output, received, source, result, notified, cancel,
                   accepted>>

SinkIsDone ==
    /\ exec.at = "sink" /\ SinkWork = <<>>
    /\ exec' = [exec EXCEPT !.at = "decide"]
    /\ UNCHANGED <<portVars, pumpVars, outVars, source, inner, result, notified, cancel,
                   accepted>>

\* decide on committed state: nothing holds work and no capability is left.
Succeeds == source.finished /\ ~source.failure /\ SinkWork = <<>>

Complete ==
    /\ exec.at = "decide" /\ Succeeds
    /\ End("ok")
    /\ UNCHANGED <<sender, gate, pumpVars, outVars, source, inner, notified, accepted>>

\* An idle sweep that does not end the run counts; enough of them in a row, and
\* no drain, let the worker park.
IdleNow == IF exec.active THEN 0 ELSE exec.idle + 1

Decide ==
    /\ exec.at = "decide" /\ ~Succeeds
    /\ IdleNow < MaxIdleSweeps \/ exec.draining
    /\ exec' = [exec EXCEPT !.at = "check",
                            !.idle = IF IdleNow < MaxIdleSweeps THEN IdleNow ELSE 0]
    /\ UNCHANGED <<portVars, pumpVars, outVars, source, inner, result, notified, cancel,
                   accepted>>

\* poll_sweeps: with its waker registered the worker takes the notification, and
\* sweeps again if there was one.
Park ==
    /\ exec.at = "decide" /\ ~Succeeds
    /\ IdleNow >= MaxIdleSweeps /\ ~exec.draining
    /\ notified' = FALSE
    /\ exec' = [exec EXCEPT !.at = IF notified THEN "check" ELSE "rest", !.idle = 0]
    /\ UNCHANGED <<portVars, pumpVars, outVars, source, inner, result, cancel, accepted>>
--------------------------------------------------------------------------------
SenderStep(s) == Enter(s) \/ CheckGate(s) \/ Enqueue(s) \/ Leave(s) \/ Wake(s)

SenderEnds(s) == DropSender(s) \/ GiveUp(s)

Pump == ProducerReturns \/ Publish \/ PumpWakes

SourceStep == CallRaises \/ Call \/ RecvEvent \/ Finish \/ FinishFails
                \/ DrainedInputsFinal \/ RecvNothing

Worker == WakeUp \/ CheckPasses \/ CheckDrains \/ CheckFails \/ SourceStep
            \/ Forward \/ SinkBlocks \/ SinkIsDone \/ Complete \/ Decide \/ Park

Next ==
    /\ \/ \E s \in Senders : SenderStep(s) \/ SenderEnds(s)
       \/ Pump \/ ProducerFails \/ ProducerCut
       \/ Worker \/ Expire
       \/ \E r \in {"stop", "failure"} : Cancel(r)
       \/ Receive \/ DropReceiver
    /\ UNCHANGED plan

Spec == Init /\ [][Next]_vars

\* The threads of the worker, of the pump and of a sender that is inside a send
\* run on; a cancelled pump is cut.  A user need not send, drop a sender, give
\* up, cancel or receive, and no deadline is relied on.
Fairness ==
    /\ WF_vars(Worker /\ UNCHANGED plan)
    /\ WF_vars(Pump /\ UNCHANGED plan)
    /\ WF_vars(ProducerCut /\ UNCHANGED plan)
    /\ \A s \in 1..2 : WF_vars(s \in Senders /\ sender[s].at # "idle"
                                 /\ SenderStep(s) /\ UNCHANGED plan)

LiveSpec == Spec /\ Fairness
--------------------------------------------------------------------------------
\* What the senders were told is accepted, in the order of each sender's sends.
AcceptedOf(s) ==
    SelectSeq(plan.scripts[s], LAMBDA e : e.kind = "data" /\ e \in accepted)

\* What went, or is in the channel on its way, to the user.
Delivered == received \o output.events

\* When the dataflow completes with success, whatever a sender was told was
\* accepted has been handed over, once and in the sender's order, unless the
\* receiver was dropped: neither a drain that closes the gate while senders are
\* inside it, nor a full output, nor a frontier failure, loses an event silently.
AcceptedIsDelivered ==
    result = "ok" /\ output.open =>
        \A s \in Senders :
            SelectSeq(Delivered, LAMBDA e : e.from = s) = AcceptedOf(s)

\* Success means that the input was whole: a producer's error is never lost, and
\* without a drain to shorten it every event of every sender was accepted, even
\* though a producer drops its sender before it returns or is cut off.
OkMeansProduced ==
    result = "ok" =>
        /\ outcome # "failed"
        /\ plan.mode = "pump" => outcome = "completed"
        /\ (cancel = "none" \/ ~plan.drain) /\ plan.mode # "async" =>
              \A s \in Senders : \A e \in ToSet(plan.scripts[s]) : e \in accepted

\* A cancelled dataflow ends by itself, even if the user keeps a sender and a
\* pump's producer hangs, and without the drain's deadline, unless the user leaves
\* the output full.
CancelEndsRun == (cancel # "none") ~> (result # "none" \/ SinkWork # <<>>)

\* Once every sender is dropped the dataflow ends by itself, unless the user leaves
\* the output full: neither the last event nor a failure found in it is left
\* behind by a worker that parks.
ClosedInputsEnd == Disconnected ~> (result # "none" \/ SinkWork # <<>>)
================================================================================
