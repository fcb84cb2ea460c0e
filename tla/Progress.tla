------------------------------ MODULE Progress ------------------------------
(***************************************************************************)
(* Distributed progress tracking of one dataflow scope: the operator       *)
(* shell's accounting (dataflow/shell/mod.rs, progress/operate.rs,         *)
(* progress/capability.rs), each worker's ProgressTracker                  *)
(* (progress/subgraph.rs), the lanes between the trackers                  *)
(* (progress/progress_channel.rs, and the frame splitting of               *)
(* progress/network_progress.rs) and the executor's decision module        *)
(* (dataflow/executor.rs).                                                 *)
(*                                                                         *)
(* Every worker hosts a copy of some of the operators of one graph.  A     *)
(* "unit" is one thing the trackers count: a record on its way to an input *)
(* (a Target pointstamp of the code) or a capability held at an output (a  *)
(* Source pointstamp).  The code keeps, per location and time, the number  *)
(* of units acquired or produced minus the number released or consumed;    *)
(* the model keeps the two sets of units and takes the difference of their *)
(* cardinalities, so that "which record is this -1 about" can be asked in  *)
(* the properties although no tracker knows it.                            *)
(*                                                                         *)
(* A record is counted from the logic call that emits it until the logic   *)
(* call that takes it, wherever it is in between (retry queue, channel,    *)
(* input buffer); these places are one here, and a call may take any       *)
(* record addressed to it.                                                 *)
(***************************************************************************)
EXTENDS Integers, Sequences, FiniteSets

CONSTANTS
    Workers,     \* the dataflow's workers
    Ops,         \* its operators
    Inputs,      \* input ports (Target locations)
    Outputs,     \* output ports (Source locations)
    Op,          \* the operator of each port
    Edges,       \* data edges <<output, input>>
    Hosts,       \* the workers that run each operator (the physical plan)
    Initial,     \* outputs with a declared initial capability (input sources)
    Reaches,     \* reachability between locations, feedback-free
    Plans,       \* bound: how the edges deliver (pipeline, exchange or
                 \* broadcast), the timestamps, the number of units to create
    Fresh,       \* the units a run may create
    Free         \* marks a unit not created yet

Locations == Inputs \cup Outputs

\* Every declared capability is one unit per worker that runs the operator.
Seeds == {s \in Workers \X Initial : s[1] \in Hosts[Op[s[2]]]}

Units == Seeds \cup Fresh

ASSUME GraphAssumption ==
    /\ Inputs \cap Outputs = {}
    /\ Op \in [Locations -> Ops]
    /\ Edges \subseteq Outputs \X Inputs
    /\ Hosts \in [Ops -> SUBSET Workers]
    /\ Initial \subseteq Outputs
    /\ IsFiniteSet(Workers) /\ IsFiniteSet(Locations) /\ IsFiniteSet(Fresh)
    /\ Free \notin [loc : Locations, time : Nat, at : Workers]
    /\ \A p \in Plans :
          /\ p.routing \in [Edges -> {"pipeline", "exchange", "broadcast"}]
          /\ \A e \in Edges : p.routing[e] = "pipeline" =>
                Hosts[Op[e[1]]] \subseteq Hosts[Op[e[2]]]
          /\ p.times \subseteq Nat /\ 0 \in p.times
          /\ p.units \in 0..Cardinality(Fresh)

\* The path summaries of one scope are identities, so that a pointstamp
\* could result in another iff its location reaches the other's and its time
\* is not later.
ASSUME ReachesAssumption ==
    /\ Reaches \subseteq Locations \X Locations
    /\ \A l \in Locations : <<l, l>> \in Reaches
    /\ Edges \subseteq Reaches
    /\ \A i \in Inputs, p \in Outputs : Op[i] = Op[p] => <<i, p>> \in Reaches
    /\ \A a, b, c \in Locations :
          <<a, b>> \in Reaches /\ <<b, c>> \in Reaches => <<a, c>> \in Reaches
    /\ \A a, b \in Locations :
          <<a, b>> \in Reaches /\ <<b, a>> \in Reaches => a = b

VARIABLES
    plan,        \* which of Plans this is
    stamp,       \* location, time and worker of each unit, or Free
    live,        \* units not yet released or consumed
    ledger,      \* each worker's changes since its last commit
    lane,        \* batches between each ordered pair of workers
    view,        \* the changes each worker's tracker has applied
    sealed,      \* workers that sealed their progress stream
    peer_sealed, \* per worker, the peers whose seal it has applied
    done,        \* per worker, the operators it shut down
    exhausted,   \* per worker, the operators that latched exhaustion (R39)
    outcome      \* each worker: running, succeeded or failed with a residual

vars == <<plan, stamp, live, ledger, lane, view, sealed, peer_sealed, done,
          exhausted, outcome>>

shell == <<stamp, live, ledger>>
tracker == <<lane, view, peer_sealed>>
decision == <<sealed, done, exhausted, outcome>>

-----------------------------------------------------------------------------
(* Batches of changes: the units that appeared and those that went away. A  *)
(* seal is the marker that follows a worker's last batch on every lane.     *)

Batch(p, m) == [plus |-> p, minus |-> m, seal |-> FALSE]
Nothing == Batch({}, {})
Seal == [plus |-> {}, minus |-> {}, seal |-> TRUE]

Bijections(S, T) ==
    {f \in [S -> T] : \A y \in T : \E x \in S : \A z \in S : f[z] = y <=> z = x}

Orders(S) == Bijections(1..Cardinality(S), S)

Positive(q) == [k \in DOMAIN q |-> Batch({q[k]}, {})]
Negative(q) == [k \in DOMAIN q |-> Batch({}, {q[k]})]

\* Faulty variant: the fragments of a split commit keep no order.
FramesUnordered(b) ==
    IF b = Nothing
    THEN {<<>>}
    ELSE {<<b>>} \cup {Negative(n) \o Positive(p) : p \in Orders(b.plus), n \in Orders(b.minus)}

\* Faulty variant: a commit that only takes away is not worth a frame.
FramesPositiveOnly(b) == IF b.plus = {} THEN {<<>>} ELSE {<<b>>}

\* A commit is sent as one batch, or not at all when nothing changed.  One
\* too large for a network frame is split, every positive change before any
\* negative one.  The receiver applies the frames as they arrive, any number
\* of them at once, so that frames of one change stand for every size.
Frames(b) ==
    IF b = Nothing
    THEN {<<>>}
    ELSE {<<b>>} \cup {Positive(p) \o Negative(n) : p \in Orders(b.plus), n \in Orders(b.minus)}

-----------------------------------------------------------------------------
(* A worker's view: counts, frontiers, exact zero over its scope.           *)

At(units, l, t) ==
    {u \in units : stamp[u] # Free /\ stamp[u].loc = l /\ stamp[u].time = t}

\* The tracker's raw count of a pointstamp; it may be negative, when a
\* consumer's -1 overtakes the producer's +1 on another lane.
Count(w, l, t) ==
    Cardinality(At(view[w].plus, l, t)) - Cardinality(At(view[w].minus, l, t))

\* The frontier of location l in w's view has passed t: no pointstamp with a
\* positive count could result in it.
Passed(w, l, t) ==
    ~ \E u \in view[w].plus :
          /\ <<stamp[u].loc, l>> \in Reaches
          /\ stamp[u].time <= t
          /\ Count(w, stamp[u].loc, stamp[u].time) > 0

\* Faulty variant: a frontier is taken for empty when the location's own
\* counts are.
InputsEmptyLocal(w, o) ==
    \A i \in Inputs, t \in plan.times : Op[i] = o => Count(w, i, t) <= 0

\* Every input frontier of o is empty in w's view.
inputs_empty(w, o) ==
    ~ \E u \in view[w].plus :
          /\ \E i \in Inputs : Op[i] = o /\ <<stamp[u].loc, i>> \in Reaches
          /\ Count(w, stamp[u].loc, stamp[u].time) > 0

\* The locations from which one that w hosts can be reached (S2b(c)).
Scope ==
    [w \in Workers |->
        {l \in Locations :
            \E k \in Locations : w \in Hosts[Op[k]] /\ <<l, k>> \in Reaches}]

\* Every count in w's scope is exactly zero, pointstamp by pointstamp.
scope_is_zero(w) ==
    \A u \in view[w].plus \cup view[w].minus :
        stamp[u].loc \in Scope[w] => Count(w, stamp[u].loc, stamp[u].time) = 0

-----------------------------------------------------------------------------
(* The operator shell.                                                      *)

Running(w) == outcome[w] = "running"

Records(w, o) ==
    {u \in live : /\ stamp[u].loc \in Inputs
                  /\ Op[stamp[u].loc] = o
                  /\ stamp[u].at = w}

Held(w, p) == {u \in live : stamp[u].loc = p /\ stamp[u].at = w}

HoldsCapability(w, o) == \E p \in Outputs : Op[p] = o /\ Held(w, p) # {}

\* Faulty variant: any time is accepted.
Unjustified(w, p, t, taken) == TRUE

\* V3: an output or a new capability at t is at or after a capability the
\* output holds, or a batch taken in the same call.
Justified(w, p, t, taken) ==
    \E u \in taken \cup Held(w, p) : stamp[u].time <= t

\* Where one record emitted on edge e by worker w may go: the sets of
\* workers it is delivered to.
Delivery(w, e) ==
    LET hosts == Hosts[Op[e[2]]]
    IN  CASE plan.routing[e] = "pipeline"  -> {{w}}
          [] plan.routing[e] = "exchange"  -> {{v} : v \in hosts}
          [] plan.routing[e] = "broadcast" -> {hosts}

\* The deliveries of one record emitted at output p: a copy on every edge
\* from it, as <<input, worker>> places.
Deliveries(w, p) ==
    LET out == {e \in Edges : e[1] = p}
    IN  {UNION {{e[2]} \X f[e] : e \in out} :
            f \in {g \in [out -> SUBSET Workers] :
                      \A e \in out : g[e] \in Delivery(w, e)}}

\* What one logic call may create at output p: a capability (retain) or a
\* record.  A call that creates several things has the effect of several
\* calls without a commit between them.
Places(w, p) == {{<<p, w>>}} \cup Deliveries(w, p)

\* The units created at a set of places, at time t.
Create(places, t, new) ==
    \E f \in Bijections(new, places) :
        stamp' = [u \in Units |->
                     IF u \in new
                     THEN [loc |-> f[u][1], time |-> t, at |-> f[u][2]]
                     ELSE stamp[u]]

\* What a call took and created, absorbed by the worker's ledgers.
Account(w, new, taken) ==
    ledger' = [ledger EXCEPT ![w].plus = @ \cup new, ![w].minus = @ \cup taken]

\* One logic call (run_call): at most one record is taken, at most one thing
\* is created, and the ledgers absorb both once the call returned.
Call(w, o) ==
    /\ Running(w)
    /\ w \in Hosts[o]
    /\ o \notin done[w]
    /\ \E taken \in {{}} \cup {{u} : u \in Records(w, o)} :
          \/ /\ taken # {}
             /\ live' = live \ taken
             /\ Account(w, {}, taken)
             /\ UNCHANGED stamp
          \/ \E p \in {q \in Outputs : Op[q] = o}, t \in plan.times :
                /\ Justified(w, p, t, taken)
                /\ \E places \in Places(w, p) :
                   \E new \in SUBSET {u \in Fresh : stamp[u] = Free} :
                      /\ Cardinality(new) = Cardinality(places)
                      /\ Cardinality({u \in Fresh : stamp[u] # Free} \cup new) <= plan.units
                      /\ Create(places, t, new)
                      /\ live' = (live \ taken) \cup new
                      /\ Account(w, new, taken)
    /\ UNCHANGED <<plan, tracker, decision>>

\* A capability is dropped: by the logic, or (a Retained) on any thread, at
\* any point of the executor's sweep.
Release(u) ==
    /\ u \in live
    /\ stamp[u].loc \in Outputs
    /\ LET w == stamp[u].at
       IN  /\ Running(w)
           /\ live' = live \ {u}
           /\ ledger' = [ledger EXCEPT ![w].minus = @ \cup {u}]
    /\ UNCHANGED <<plan, stamp, tracker, decision>>

\* An input's channels have ended: every producer that feeds it closed its
\* output, and what they sent was taken.
Feeders(w, e) ==
    IF plan.routing[e] = "pipeline" THEN {w} ELSE Hosts[Op[e[1]]]

InputsEnded(w, o) ==
    /\ Records(w, o) = {}
    /\ \A e \in Edges : Op[e[2]] = o =>
          \A v \in Feeders(w, e) : Op[e[1]] \in done[v]

\* An activation of the shell finds every input ended and nothing held.
Exhaust(w, o) ==
    /\ Running(w)
    /\ w \in Hosts[o]
    /\ o \notin exhausted[w]
    /\ InputsEnded(w, o)
    /\ ~HoldsCapability(w, o)
    /\ exhausted' = [exhausted EXCEPT ![w] = @ \cup {o}]
    /\ UNCHANGED <<plan, shell, tracker, sealed, done, outcome>>

-----------------------------------------------------------------------------
(* One sweep's commit and decision (run_one_sweep_inner): the tracker       *)
(* commits, sends, receives and applies (propagate); right after it, the    *)
(* decision module shuts operators down, seals and ends the worker          *)
(* (decide).  Nothing another worker does between the two changes what they *)
(* read, so they are one step; but a Retained may be dropped on another     *)
(* thread after the commit and before the decision ("late").                *)

Peers(w) == Workers \ {w}

Hosted == [w \in Workers |-> {o \in Ops : w \in Hosts[o]}]

\* How many batches each lane to w delivers: any prefix of what was sent.
Arrivals(w) ==
    {n \in [Peers(w) -> UNION {0..Len(lane[<<v, w>>]) : v \in Peers(w)}] :
        \A v \in Peers(w) : n[v] <= Len(lane[<<v, w>>])}

Received(w, n) == [v \in Peers(w) |-> SubSeq(lane[<<v, w>>], 1, n[v])]

\* The capabilities worker w holds that other threads may drop.
Droppable(w) == {u \in live : stamp[u].at = w /\ stamp[u].loc \in Outputs}

\* propagate: w's commit and the received batches are applied to its view; a
\* seal counts once the batches before it are.
Propagate(w, n) ==
    LET got == Received(w, n)
        all == {ledger[w]} \cup UNION {{got[v][k] : k \in 1..n[v]} : v \in Peers(w)}
    IN  /\ view' = [view EXCEPT
                       ![w].plus = @ \cup UNION {b.plus : b \in all},
                       ![w].minus = @ \cup UNION {b.minus : b \in all}]
        /\ peer_sealed' = [peer_sealed EXCEPT
                              ![w] = @ \cup {v \in Peers(w) :
                                                \E k \in 1..n[v] : got[v][k].seal}]

\* S2a: the operators whose input frontiers are empty in the new view and
\* that hold no capability.  (One that still has input to take or output to
\* push does not shut down in the code either; the frontier alone must
\* already rule that out.)
ShutDown(w) ==
    {o \in Hosted[w] : ~HoldsCapability(w, o)' /\ inputs_empty(w, o)'}

\* Faulty variant: the seal follows the commit whatever was released since.
SealUncollected(w, late) ==
    /\ w \notin sealed
    /\ Hosted[w] \subseteq done'[w] \cup exhausted[w]

\* Faulty variant: an operator that was shut down before its channels ended
\* still counts as unfinished.
SealExhausted(w, late) ==
    /\ w \notin sealed
    /\ Hosted[w] \subseteq exhausted[w]
    /\ late = {}

\* Every hosted operator is shut down or exhausted (R39), so that nothing
\* more will be reported, and nothing was released since the commit.
SealNow(w, late) ==
    /\ w \notin sealed
    /\ Hosted[w] \subseteq done'[w] \cup exhausted[w]
    /\ late = {}

all_sealed(w) == w \in sealed' /\ Peers(w) \subseteq peer_sealed'[w]

\* S2b: success once every hosted operator is shut down and the scope is
\* exactly zero; a non-zero count with every seal applied is a residual.
Outcome(w) ==
    CASE Hosted[w] \subseteq done'[w] /\ scope_is_zero(w)' -> "succeeded"
      [] ~scope_is_zero(w)' /\ all_sealed(w) -> "residual"
      [] OTHER -> "running"

SweepWith(w, n, late) ==
    /\ Running(w)
    /\ UNCHANGED <<plan, stamp, exhausted>>
    /\ Propagate(w, n)
    /\ live' = live \ late
    /\ ledger' = [ledger EXCEPT ![w] = Batch({}, late)]
    /\ done' = [done EXCEPT ![w] = @ \cup ShutDown(w)]
    /\ sealed' = IF SealNow(w, late) THEN sealed \cup {w} ELSE sealed
    /\ \E frames \in Frames(ledger[w]) :
          lane' = [c \in DOMAIN lane |->
                      IF c[1] = w
                      THEN lane[c] \o frames \o
                           IF SealNow(w, late) THEN <<Seal>> ELSE <<>>
                      ELSE IF c[2] = w
                           THEN SubSeq(lane[c], n[c[1]] + 1, Len(lane[c]))
                           ELSE lane[c]]
    /\ outcome' = [outcome EXCEPT ![w] = Outcome(w)]

Sweep(w) ==
    \E n \in Arrivals(w), late \in SUBSET Droppable(w) : SweepWith(w, n, late)

-----------------------------------------------------------------------------

Init ==
    /\ plan \in Plans
    /\ stamp = [u \in Units |->
                   IF u \in Seeds
                   THEN [loc |-> u[2], time |-> 0, at |-> u[1]]
                   ELSE Free]
    /\ live = Seeds
    /\ ledger = [w \in Workers |-> Nothing]
    /\ lane = [c \in {d \in Workers \X Workers : d[1] # d[2]} |-> <<>>]
    /\ view = [w \in Workers |-> Batch(Seeds, {})]
    /\ sealed = {}
    /\ peer_sealed = [w \in Workers |-> {}]
    /\ done = [w \in Workers |-> {}]
    /\ exhausted = [w \in Workers |-> {}]
    /\ outcome = [w \in Workers |-> "running"]

\* Every worker has ended: nothing is left to do.
Ended ==
    /\ \A w \in Workers : ~Running(w)
    /\ UNCHANGED vars

Next ==
    \/ \E w \in Workers, o \in Ops : Call(w, o) \/ Exhaust(w, o)
    \/ \E u \in Units : Release(u)
    \/ \E w \in Workers : Sweep(w)
    \/ Ended

Spec == Init /\ [][Next]_vars

\* What makes every worker finish: the executors keep sweeping (a change on a
\* lane or a dropped Retained wakes them), lanes deliver what was sent, and
\* the user's logic takes its input, ends its input sources and drops what it
\* retained.
Take(u) ==
    /\ u \in live
    /\ stamp[u].loc \in Inputs
    /\ Call(stamp[u].at, Op[stamp[u].loc])
    /\ u \notin live'

SweepAll(w) == SweepWith(w, [v \in Peers(w) |-> Len(lane[<<v, w>>])], {})

Fairness ==
    /\ \A u \in Units : WF_vars(Take(u)) /\ WF_vars(Release(u))
    /\ \A w \in Workers : WF_vars(SweepAll(w))
    /\ \A w \in Workers, o \in Ops : WF_vars(Exhaust(w, o))

FairSpec == Spec /\ Fairness

-----------------------------------------------------------------------------

\* The promise of progress tracking: no worker's frontier passes a record
\* that is still on its way, or a capability still held, on any worker,
\* although commits of several workers reach it in any relative order (a
\* consumption before the production it is about) and split over frames.
FrontierSafe ==
    \A w \in Workers : \A u \in live : ~Passed(w, stamp[u].loc, stamp[u].time)

\* A frontier never retreats: a pointstamp that a worker's new view counts
\* was not passed in the view before, whatever commits it applied
\* (notifications are delivered once).
FrontierMonotone ==
    [][\A w \in Workers : \A u \in view'[w].plus :
          LET l == stamp[u].loc
              t == stamp[u].time
          IN  Count(w, l, t)' > 0 => ~Passed(w, l, t)]_vars

\* S3: no record is ever on its way to an operator that was shut down
\* (check_after_shutdown would fail the dataflow), and a shut-down operator
\* holds no capability.
NothingAfterShutdown ==
    \A w \in Workers : \A o \in done[w] :
        Records(w, o) = {} /\ ~HoldsCapability(w, o)

\* The seal is the last word of a worker: once it sealed, it has nothing to
\* commit and nothing that could give rise to another change (the debug
\* assertion of ProgressTracker::collect).
SealIsLast ==
    \A w \in sealed :
        /\ ledger[w] = Nothing
        /\ \A u \in live : stamp[u].at # w

\* A worker that reports success has sealed, and nothing that could still
\* reach one of its operators exists anywhere in the dataflow.
SuccessIsGlobal ==
    \A w \in Workers : outcome[w] = "succeeded" =>
        /\ w \in sealed
        /\ \A u \in live : stamp[u].loc \notin Scope[w]

\* Every worker of a dataflow whose sources end and whose logic lets go of
\* what it holds reports success: no seal, count or frontier keeps one
\* waiting for another for ever.
AllSucceed == <>(\A w \in Workers : outcome[w] = "succeeded")
=============================================================================
