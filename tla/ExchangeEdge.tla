----------------------------- MODULE ExchangeEdge -----------------------------
(* The edges between the workers of one process (dataflow/channels: tee,       *)
(* exchange_channel) with the ports that drive them (dataflow/shell).  Every   *)
(* worker runs a producer, whose output feeds one or more edges through a tee, *)
(* and one consumer per edge.  An edge is exchanged (every record goes to the  *)
(* worker its routing function names) or broadcast (every worker gets a copy); *)
(* each pair of workers is connected by a bounded ring of its own, which here  *)
(* is the queue SpscRing implements.  A worker is one thread: it sweeps over   *)
(* its operators and rests when nothing was done and nobody notified it.       *)
EXTENDS Naturals, Sequences, FiniteSets, SequencesExt

CONSTANTS Workers,          \* 1..N: the workers, each a source and a target
          Plans,            \* the dataflows: the kind of each edge, in tee order, and
                            \* per worker what each call of its producer emits
          Capacity,         \* of every ring
          Times, Minimum,   \* the timestamps
          LessEqual(_, _),  \* their partial order
          MaxFailures       \* how many workers may fail on their own

ASSUME EdgeAssumption ==
    /\ Workers = 1..Cardinality(Workers)
    /\ \A p \in Plans : p.kinds \in Seq({"exchange", "broadcast"}) /\ p.kinds # <<>>
    /\ Capacity \in Nat \ {0}
    /\ Minimum \in Times

N == Cardinality(Workers)

VARIABLES
    plan,       \* the dataflow that runs
    script,     \* the calls a producer's logic has left
    retry,      \* CountedOutput::retry: output not yet in its channel
    retryFrom,  \* TeePush::retry_from (0 is None)
    pusher,     \* per edge and source: the state of its push end
    ring,       \* per edge, source and target: the envelopes in the ring
    ended,      \* per edge and source: the rings were closed
    puller,     \* per edge and target: the state of its pull end
    wakes,      \* per worker: its handle is registered, and was notified
    at,         \* per worker: where its thread is
    shut,       \* shut_down of the producer's shell
    exhausted,  \* per edge and target: the input handle was marked exhausted
    got,        \* per edge, target and source: the records handed over
    marks       \* per edge and target: the watermarks handed over

outputVars == <<script, retry, retryFrom, shut>>
inputVars == <<puller, exhausted, got, marks>>
vars == <<plan, outputVars, inputVars, pusher, ring, ended, wakes, at>>

Kinds == plan.kinds
Calls == plan.calls
EdgeIds == DOMAIN Kinds
-------------------------------------------------------------------------------
\* Envelope: a batch of records at one time, or a watermark.
Data(time, records) == [kind |-> "data", time |-> time, records |-> records]
Watermark(time) == [kind |-> "watermark", time |-> time, records |-> <<>>]

\* PendingEnvelope: what is remembered of a partly delivered envelope.
PendingOf(env) == [kind |-> env.kind, time |-> env.time, len |-> Len(env.records)]

None == [kind |-> "none", time |-> Minimum, len |-> 0]

NoRecords == [t \in Workers |-> <<>>]
Nobody == [t \in Workers |-> FALSE]
Everybody == [t \in Workers |-> TRUE]

\* The thread of a worker between two operations: `step` says what it does
\* next, on which edge and with which peer.
Step(step, edge, peer) ==
    [step |-> step, edge |-> edge, peer |-> peer,
     refused |-> FALSE, left |-> 0, absorbed |-> FALSE,
     called |-> FALSE, active |-> FALSE]

Init ==
    /\ plan \in Plans
    /\ script = Calls
    /\ retry = [w \in Workers |-> <<>>]
    /\ retryFrom = [w \in Workers |-> 0]
    /\ pusher = [e \in EdgeIds |-> [w \in Workers |->
                    [pending |-> None, buckets |-> NoRecords, owed |-> Nobody]]]
    /\ ring = [e \in EdgeIds |-> [s \in Workers |-> [t \in Workers |-> <<>>]]]
    /\ ended = [e \in EdgeIds |-> [w \in Workers |-> FALSE]]
    /\ puller = [e \in EdgeIds |-> [w \in Workers |->
                    [next |-> 1, perSource |-> [s \in Workers |-> Minimum],
                     pending |-> <<>>]]]
    /\ wakes = [w \in Workers |-> [registered |-> FALSE, notified |-> FALSE]]
    /\ at = [w \in Workers |-> Step("unbuilt", 0, 0)]
    /\ shut = [w \in Workers |-> FALSE]
    /\ exhausted = [e \in EdgeIds |-> [w \in Workers |-> FALSE]]
    /\ got = [e \in EdgeIds |-> [t \in Workers |-> [s \in Workers |-> <<>>]]]
    /\ marks = [e \in EdgeIds |-> [w \in Workers |-> {}]]
-------------------------------------------------------------------------------
\* SharedWakeRegistry::wake and wake_all: nothing happens for a worker that has
\* not registered its handle yet.
Notify(ws) ==
    [w \in Workers |->
        IF w \in ws /\ wakes[w].registered
        THEN [wakes[w] EXCEPT !.notified = TRUE] ELSE wakes[w]]

\* A worker materializes its ends of the edges.  It registers its handle before
\* it takes them, and its executor starts with a sweep.
Materialize(w) ==
    /\ at[w].step = "unbuilt"
    /\ wakes' = [wakes EXCEPT ![w] = [registered |-> TRUE, notified |-> TRUE]]
    /\ at' = [at EXCEPT ![w] = Step("rest", 0, 0)]
    /\ UNCHANGED <<outputVars, inputVars, pusher, ring, ended>>

\* The executor takes the notification and sweeps over its operators, the
\* producer first.
Sweep(w) ==
    /\ at[w].step = "rest" /\ wakes[w].notified
    /\ wakes' = [wakes EXCEPT ![w].notified = FALSE]
    /\ at' = [at EXCEPT ![w] = Step("flush", 0, 0)]
    /\ UNCHANGED <<outputVars, inputVars, pusher, ring, ended>>
-------------------------------------------------------------------------------
(* OperatorShell::activate of the producer.  Output that did not fit goes     *)
(* first; the logic is called only when none is left, and its output is       *)
(* queued and flushed.                                                        *)

\* run_call and take_session.
Call(w) ==
    /\ at[w].step = "flush" /\ ~at[w].called
    /\ retry[w] = <<>> /\ script[w] # <<>>
    /\ retry' = [retry EXCEPT ![w] = Head(script[w])]
    /\ script' = [script EXCEPT ![w] = Tail(@)]
    /\ at' = [at EXCEPT ![w].called = TRUE, ![w].active = TRUE]
    /\ UNCHANGED <<retryFrom, shut, inputVars, pusher, ring, ended, wakes>>

\* The next thing the thread of w does is to pull the consumer's edge e.
PullFrom(w, e) == [Step("pull", e, 0) EXCEPT !.left = N, !.active = at[w].active]

\* The producer has nothing (more) to hand over: its activation ends, and the
\* consumers' follow.
Flushed(w) ==
    /\ at[w].step = "flush"
    /\ retry[w] = <<>> /\ (at[w].called \/ script[w] = <<>>)
    /\ at' = [at EXCEPT ![w] = PullFrom(w, 1)]
    /\ UNCHANGED <<outputVars, inputVars, pusher, ring, ended, wakes>>

\* Mutant: every attempt starts over.
ResumingNever(e, w) == FALSE

\* `resuming`: the envelope is the partly delivered one.
Resuming(e, w) == pusher[e][w].pending = PendingOf(Head(retry[w]))

\* The records of a batch that `route` sends to t, in their order.
Bucket(env, route, t) ==
    LET mine == SetToSortSeq({i \in DOMAIN env.records : route[i] = t}, <)
    IN  [k \in DOMAIN mine |-> env.records[mine[k]]]

\* A fresh envelope in ExchangePush::try_push: a batch is partitioned (the routing
\* function may keep state, so any target may come out), a control signal is owed
\* to every target.
ExchangeFresh(env) ==
    IF env.kind = "data"
    THEN {[pending |-> None, owed |-> Nobody,
           buckets |-> [t \in Workers |-> Bucket(env, route, t)]] :
              route \in [DOMAIN env.records -> Workers]}
    ELSE {[pending |-> None, owed |-> Everybody, buckets |-> NoRecords]}

\* A fresh envelope in BroadcastPush::try_push is owed to every target.
BroadcastFresh(env) == {[pending |-> None, owed |-> Everybody, buckets |-> NoRecords]}

Fresh(e, env) ==
    IF Kinds[e] = "exchange" THEN ExchangeFresh(env) ELSE BroadcastFresh(env)

\* The first target after t that is owed something (N + 1: none is left).
NextOwed(push, t) ==
    LET owing == {u \in Workers : u > t /\ (push.owed[u] \/ push.buckets[u] # <<>>)}
    IN  Min(owing \cup {N + 1})

\* CountedOutput::flush hands the next envelope to TeePush::try_push, which starts
\* with the branch that refused it; ExchangePush::try_push and
\* BroadcastPush::try_push up to their loop over the targets.
TryPush(w) ==
    LET e == IF at[w].step = "push" THEN at[w].edge
             ELSE IF retryFrom[w] = 0 THEN 1 ELSE retryFrom[w]
    IN  /\ at[w].step = "push" \/ (at[w].step = "flush" /\ retry[w] # <<>>)
        /\ \E push \in IF Resuming(e, w) THEN {pusher[e][w]}
                       ELSE Fresh(e, Head(retry[w])) :
              /\ pusher' = [pusher EXCEPT ![e][w] = push]
              /\ at' = [at EXCEPT ![w].step = "offer", ![w].edge = e,
                                  ![w].refused = FALSE,
                                  ![w].peer = NextOwed(push, 0)]
        /\ UNCHANGED <<outputVars, inputVars, ring, ended, wakes>>

\* The part of the envelope in delivery that target t is owed.
Part(e, w, t) ==
    LET env == Head(retry[w])
    IN  IF pusher[e][w].owed[t] THEN env ELSE Data(env.time, pusher[e][w].buckets[t])

\* deliver_buckets and deliver_to_owed at one target: it accepts its part ...
Accept(w) ==
    LET e == at[w].edge
        t == at[w].peer
    IN  /\ at[w].step = "offer" /\ t \in Workers
        /\ Len(ring[e][w][t]) < Capacity
        /\ ring' = [ring EXCEPT ![e][w][t] = Append(@, Part(e, w, t))]
        /\ pusher' = [pusher EXCEPT ![e][w].owed[t] = FALSE,
                                    ![e][w].buckets[t] = <<>>]
        /\ at' = [at EXCEPT ![w].step = "tell"]
        /\ UNCHANGED <<outputVars, inputVars, ended, wakes>>

\* ... and is woken,
Tell(w) ==
    LET e == at[w].edge
        t == at[w].peer
    IN  /\ at[w].step = "tell"
        /\ wakes' = Notify({t})
        /\ at' = [at EXCEPT ![w].step = "offer", ![w].peer = NextOwed(pusher[e][w], t)]
        /\ UNCHANGED <<outputVars, inputVars, pusher, ring, ended>>

\* or it pushes back and the others are still offered theirs.
Refuse(w) ==
    LET e == at[w].edge
        t == at[w].peer
    IN  /\ at[w].step = "offer" /\ t \in Workers
        /\ Len(ring[e][w][t]) = Capacity
        /\ at' = [at EXCEPT ![w].refused = TRUE, ![w].peer = NextOwed(pusher[e][w], t)]
        /\ UNCHANGED <<outputVars, inputVars, pusher, ring, ended, wakes>>

\* try_push returns Ok: the tee goes on with its next branch, and after the last
\* one the envelope has left the retry queue.
Delivered(w) ==
    LET e == at[w].edge
    IN  /\ at[w].step = "offer" /\ at[w].peer = N + 1 /\ ~at[w].refused
        /\ pusher' = [pusher EXCEPT ![e][w].pending = None]
        /\ IF e < Len(Kinds)
           THEN /\ at' = [at EXCEPT ![w].step = "push", ![w].edge = e + 1, ![w].peer = 0]
                /\ UNCHANGED <<retry, retryFrom>>
           ELSE /\ at' = [at EXCEPT ![w].step = "flush", ![w].edge = 0, ![w].peer = 0]
                /\ retry' = [retry EXCEPT ![w] = Tail(@)]
                /\ retryFrom' = [retryFrom EXCEPT ![w] = 0]
        /\ UNCHANGED <<script, shut, inputVars, ring, ended, wakes>>

\* try_push returns Backpressure: the envelope is kept for the retry, the tee
\* remembers the branch and the activation is blocked.  A blocked activation
\* counts as progress of the sweep, so the worker does not rest.
Blocked(w) ==
    LET e == at[w].edge
    IN  /\ at[w].step = "offer" /\ at[w].peer = N + 1 /\ at[w].refused
        /\ pusher' = [pusher EXCEPT ![e][w].pending = PendingOf(Head(retry[w]))]
        /\ retryFrom' = [retryFrom EXCEPT ![w] = e]
        /\ at' = [at EXCEPT ![w] = [PullFrom(w, 1) EXCEPT !.active = TRUE]]
        /\ UNCHANGED <<script, retry, shut, inputVars, ring, ended, wakes>>
-------------------------------------------------------------------------------
(* OperatorShell::activate of the consumers: CountedInput::pull takes          *)
(* everything ExchangePull::pull has, which visits the sources in turn.        *)

Minimal(S) == {t \in S : \A u \in S : LessEqual(u, t) => u = t}

\* Mutant: a source's watermark is passed on as it comes.
AggregatorForwards(perSource, s, time) == {time} \ {perSource[s]}

\* FrontierAggregator::update: the times that enter the aggregated frontier when
\* the watermark of one source becomes `time`.
AggregatorUpdate(perSource, s, time) ==
    LET after == [perSource EXCEPT ![s] = time]
    IN  Minimal(Range(after)) \ Minimal(Range(perSource))

\* One source of ExchangePull::pull's round robin has an envelope: its worker is
\* woken, data is returned, and a watermark is returned or absorbed.
PullSource(w) ==
    LET e == at[w].edge
        p == puller[e][w]
        s == p.next
        env == Head(ring[e][s][w])
        new == SetToSeq(AggregatorUpdate(p.perSource, s, env.time))
        turn == (s % N) + 1
    IN  /\ at[w].step = "pull" /\ p.pending = <<>> /\ at[w].left > 0
        /\ ring[e][s][w] # <<>>
        /\ ring' = [ring EXCEPT ![e][s][w] = Tail(@)]
        /\ wakes' = Notify({s})
        /\ \/ /\ env.kind = "data"
              /\ got' = [got EXCEPT ![e][w][s] = @ \o env.records]
              /\ puller' = [puller EXCEPT ![e][w].next = turn]
              /\ at' = [at EXCEPT ![w].left = N, ![w].absorbed = FALSE,
                                  ![w].active = TRUE]
           \/ /\ env.kind = "watermark"
              /\ puller' = [puller EXCEPT ![e][w] =
                    [next |-> turn, perSource |-> [p.perSource EXCEPT ![s] = env.time],
                     pending |-> new]]
              /\ at' = [at EXCEPT ![w].left = @ - 1,
                                  ![w].absorbed = @ \/ new = <<>>]
              /\ got' = got
        /\ UNCHANGED <<outputVars, exhausted, marks, pusher, ended>>

\* The source has none: the next one is tried.
PullNothing(w) ==
    LET e == at[w].edge
        s == puller[e][w].next
    IN  /\ at[w].step = "pull" /\ puller[e][w].pending = <<>> /\ at[w].left > 0
        /\ ring[e][s][w] = <<>>
        /\ puller' = [puller EXCEPT ![e][w].next = (s % N) + 1]
        /\ at' = [at EXCEPT ![w].left = @ - 1]
        /\ UNCHANGED <<outputVars, exhausted, got, marks, pusher, ring, ended, wakes>>

\* An aggregated watermark is returned before anything else is pulled.
PullWatermark(w) ==
    LET e == at[w].edge
        p == puller[e][w]
    IN  /\ at[w].step = "pull" /\ p.pending # <<>>
        /\ marks' = [marks EXCEPT ![e][w] = @ \cup {Head(p.pending)}]
        /\ puller' = [puller EXCEPT ![e][w].pending = Tail(@)]
        /\ at' = [at EXCEPT ![w].left = N, ![w].absorbed = FALSE]
        /\ UNCHANGED <<outputVars, exhausted, got, pusher, ring, ended, wakes>>

\* Every source was visited: data may follow an absorbed watermark, so the scan
\* is repeated then.
Rescan(w) ==
    /\ at[w].step = "pull" /\ puller[at[w].edge][w].pending = <<>>
    /\ at[w].left = 0 /\ at[w].absorbed
    /\ at' = [at EXCEPT ![w].left = N, ![w].absorbed = FALSE]
    /\ UNCHANGED <<outputVars, inputVars, pusher, ring, ended, wakes>>

\* ExchangePull::is_exhausted.
IsExhausted(e, w) == \A s \in Workers : ended[e][s] /\ ring[e][s][w] = <<>>

\* pull returns None: the port looks for the end of its edge, and the next
\* operator is activated.
Pulled(w) ==
    LET e == at[w].edge
    IN  /\ at[w].step = "pull" /\ puller[e][w].pending = <<>>
        /\ at[w].left = 0 /\ ~at[w].absorbed
        /\ exhausted' = [exhausted EXCEPT ![e][w] = @ \/ IsExhausted(e, w)]
        /\ at' = [at EXCEPT ![w] = IF e < Len(Kinds) THEN PullFrom(w, e + 1)
                                   ELSE [Step("decide", 0, 0) EXCEPT
                                             !.active = at[w].active]]
        /\ UNCHANGED <<outputVars, puller, got, marks, pusher, ring, ended, wakes>>
-------------------------------------------------------------------------------
\* can_shut_down of the producer's shell: it holds nothing.
CanShutDown(w) == script[w] = <<>> /\ retry[w] = <<>>

\* The producer shuts down at the end of a sweep: the tee closes its branches in
\* turn, each closes its rings ...
Close(w) ==
    LET e == at[w].edge + 1
    IN  /\ \/ at[w].step = "decide" /\ ~shut[w] /\ CanShutDown(w)
           \/ at[w].step = "close"
        /\ e \in EdgeIds
        /\ ended' = [ended EXCEPT ![e][w] = TRUE]
        /\ retryFrom' = [retryFrom EXCEPT ![w] = 0]
        /\ at' = [at EXCEPT ![w].step = "tellAll", ![w].edge = e, ![w].active = TRUE]
        /\ UNCHANGED <<script, retry, shut, inputVars, pusher, ring, wakes>>

\* Mutant: a close wakes nobody.
TellNobody(w) ==
    /\ at[w].step = "tellAll"
    /\ at' = [at EXCEPT ![w].step = IF at[w].edge = Len(Kinds) THEN "rested" ELSE "close"]
    /\ shut' = [shut EXCEPT ![w] = at[w].edge = Len(Kinds)]
    /\ UNCHANGED <<script, retry, retryFrom, inputVars, pusher, ring, ended, wakes>>

\* ... and wakes every worker.
TellAll(w) ==
    /\ at[w].step = "tellAll"
    /\ wakes' = Notify(Workers)
    /\ at' = [at EXCEPT ![w].step = IF at[w].edge = Len(Kinds) THEN "rested" ELSE "close"]
    /\ shut' = [shut EXCEPT ![w] = at[w].edge = Len(Kinds)]
    /\ UNCHANGED <<script, retry, retryFrom, inputVars, pusher, ring, ended>>

\* The end of a sweep: the executor sweeps again if something was done.
EndSweep(w) ==
    /\ \/ at[w].step = "decide" /\ (shut[w] \/ ~CanShutDown(w))
       \/ at[w].step = "rested"
    /\ wakes' = [wakes EXCEPT ![w].notified = @ \/ at[w].active]
    /\ at' = [at EXCEPT ![w] = Step("rest", 0, 0)]
    /\ UNCHANGED <<outputVars, inputVars, pusher, ring, ended>>
-------------------------------------------------------------------------------
Gone == {w \in Workers : at[w].step = "gone"}

\* The operators of a worker are dropped: the push ends close their rings as
\* `close` does, and what the retry queue and the buckets hold is lost.
DropAll(w) ==
    /\ at' = [at EXCEPT ![w] = Step("gone", 0, 0)]
    /\ ended' = [e \in EdgeIds |-> [ended[e] EXCEPT ![w] = TRUE]]
    /\ wakes' = Notify(Workers)
    /\ UNCHANGED <<outputVars, inputVars, pusher, ring>>

\* The producer's logic fails in its call.
Fail(w) ==
    /\ at[w].step = "flush" /\ ~at[w].called /\ retry[w] = <<>> /\ script[w] # <<>>
    /\ Cardinality(Gone) < MaxFailures
    /\ DropAll(w)

\* Another worker failed: this one is cancelled before its next sweep.
Cancelled(w) ==
    /\ at[w].step = "rest" /\ Gone # {}
    /\ DropAll(w)

WorkerStep(w) ==
    \/ Materialize(w) \/ Sweep(w) \/ Call(w) \/ Flushed(w)
    \/ TryPush(w) \/ Accept(w) \/ Tell(w) \/ Refuse(w) \/ Delivered(w) \/ Blocked(w)
    \/ PullSource(w) \/ PullNothing(w) \/ PullWatermark(w) \/ Rescan(w) \/ Pulled(w)
    \/ Close(w) \/ TellAll(w) \/ EndSweep(w)

Next ==
    /\ \E w \in Workers : WorkerStep(w) \/ Fail(w) \/ Cancelled(w)
    /\ UNCHANGED plan

Spec == Init /\ [][Next]_vars

\* A worker's thread runs: its executor is polled as long as it is notified, and
\* a cancelled worker is polled once more.
Fairness == \A w \in Workers : 
    /\ WF_vars(WorkerStep(w) /\ UNCHANGED plan)
    /\ SF_vars(Cancelled(w) /\ UNCHANGED plan)

LiveSpec == Spec /\ Fairness
-------------------------------------------------------------------------------
\* The records of a sequence of envelopes, and of a sequence of calls.
Records(envs) == FlattenSeq([i \in DOMAIN envs |-> envs[i].records])
All(s) == Records(FlattenSeq(Calls[s]))
Left(s) == Records(retry[s] \o FlattenSeq(script[s]))
Handed(s) == SubSeq(All(s), 1, Len(All(s)) - Len(Left(s)))

\* What has reached target t from source s on edge e.
Sent(e, s, t) == got[e][t][s] \o Records(ring[e][s][t])

Increasing(q) == \A i, j \in DOMAIN q : i < j => q[i] < q[j]

\* Whatever mixture of accepting and refusing targets and branches an envelope
\* meets, and however often it is retried: on an exchanged edge every record
\* reaches one target, on a broadcast edge every target, once and in the order
\* in which its producer emitted it.  (`retry_from`, `pending`, `buckets` and
\* `owed` together.)  A consumer that is told its edge has ended has everything:
\* a shell closes its output only when nothing waits for a retry, and an end is
\* not seen before what precedes it.  A failed worker's stream may be cut short.
ExactlyOnceInOrder ==
    \A e \in EdgeIds, s \in Workers :
        /\ \A t \in Workers : Increasing(Sent(e, s, t))
        /\ LET targets(r) == {t \in Workers : r \in Range(Sent(e, s, t))}
           IN  IF Kinds[e] = "broadcast"
               THEN \A r \in Range(Handed(s)) : targets(r) = Workers
               ELSE /\ \A r \in Range(All(s)) : Cardinality(targets(r)) <= 1
                    /\ \A r \in Range(Handed(s)) : targets(r) # {}
        /\ \A t \in Workers : exhausted[e][t] /\ s \notin Gone =>
              Left(s) = <<>> /\ ring[e][s][t] = <<>>

\* A watermark handed to a consumer is the truth for all sources: no batch with
\* an earlier time is in a ring to it or still to come.
MarksAreHonest ==
    \A e \in EdgeIds, s, t \in Workers :
        LET coming == ring[e][s][t] \o retry[s] \o FlattenSeq(script[s])
        IN  \A m \in marks[e][t], i \in DOMAIN coming :
                coming[i].kind = "data" =>
                    ~(LessEqual(coming[i].time, m) /\ coming[i].time # m)

\* Every consumer sees the end of its edge, unless workers failed and all are
\* gone: nobody rests while a ring to it holds an envelope or its end.  Rests on
\* `wake` after a push, `wake_all` after a close, the registration before the
\* first sweep, and the repeated scan behind absorbed watermarks.
EveryEdgeEnds ==
    <>(\/ Gone = Workers
       \/ \A w \in Workers : shut[w] /\ \A e \in EdgeIds : exhausted[e][w])
===============================================================================
