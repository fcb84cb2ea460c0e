---------------------------- MODULE MCExternalPorts ----------------------------
(* A few ways to use one input and one output port of a dataflow.               *)
EXTENDS ExternalPorts

Data(s, n, t) == [kind |-> "data", from |-> s, nr |-> n, time |-> t]
Frontier(s, t) == [kind |-> "frontier", from |-> s, nr |-> 0, time |-> t]

MCPlans == {
    \* Two clones of a sync sender, a drain, and a user who leaves.
    [mode |-> "sync", drain |-> TRUE, cancels |-> {"stop"}, abandons |-> TRUE,
     expires |-> FALSE,
     scripts |-> <<<<Data(1, 1, 0)>>, <<Data(2, 1, 0)>>>>],
    \* One clone advances the frontier while the other still sends before it.
    [mode |-> "async", drain |-> TRUE, cancels |-> {"stop", "failure"}, abandons |-> FALSE,
     expires |-> TRUE,
     scripts |-> <<<<Frontier(1, 1)>>, <<Data(2, 1, 0)>>>>],
    \* An async source, stopped with and without a drain.
    [mode |-> "pump", drain |-> TRUE, cancels |-> {"stop"}, abandons |-> FALSE,
     expires |-> FALSE,
     scripts |-> <<<<Data(1, 1, 0), Frontier(1, 1), Data(1, 2, 1)>>>>],
    [mode |-> "pump", drain |-> FALSE, cancels |-> {"stop"}, abandons |-> FALSE,
     expires |-> FALSE,
     scripts |-> <<<<Data(1, 1, 0), Frontier(1, 1), Frontier(1, 0), Data(1, 2, 1)>>>>] }

\* The worker's steps that touch nothing another thread can see come first: they
\* commute with every step of the others.
WorkerIsPrivate ==
    \/ exec.at = "decide" /\ ~Succeeds /\ (IdleNow < MaxIdleSweeps \/ exec.draining)
    \/ exec.at = "sink" /\ SinkWork = <<>>
    \/ exec.at = "recv" /\ exec.events = Budget

LocalFirst == WorkerIsPrivate => exec' # exec /\ UNCHANGED <<portVars, cancel, outcome>>
================================================================================
