------------------------- MODULE MCCancellationTokens -------------------------
(* Instances of CancellationTokens: the runtime's root token, the token of a     *)
(* dataflow, and those of two workers of it.                                    *)
EXTENDS CancellationTokens

CONSTANTS root, dataflow, w1, w2, p1, p2, p3

MCTokens == {root, dataflow, w1, w2}
MCThreads == {p1, p2, p3}

MCParent == [t \in MCTokens |-> CASE t = root -> NoToken
                                  [] t = dataflow -> root
                                  [] OTHER -> dataflow]

MCUp == [t \in MCTokens |-> CASE t = root -> {root}
                              [] t = dataflow -> {root, dataflow}
                              [] OTHER -> {root, dataflow, t}]

Call(k, t, r) == [kind |-> k, on |-> t, why |-> r]

Read(t) == Call("read", t, NoReason)
Worker(t) == <<Call("register", t, NoReason), Call("run", t, NoReason)>>

Each(a, b, c) == [p \in MCThreads |-> CASE p = p1 -> a [] p = p2 -> b [] p = p3 -> c]

\* Every level is cancelled for a reason of its own while the lowest is read.
Reasons ==
    [calls |-> Each(<<Call("cancel", w1, "worker"), Read(w1)>>,
                    <<Call("cancel", dataflow, "user"), Read(w1), Read(dataflow)>>,
                    <<Call("cancel", root, "shutdown"), Read(w1)>>),
     notified |-> {}]

\* A failure of the dataflow overtakes a worker's drain, around a stop from anywhere.
Overtaken(t) ==
    [calls |-> Each(Worker(w1), <<Call("cancel", t, "user")>>,
                    <<Call("escalate", dataflow, "network"), Call("escalate", dataflow, "worker")>>),
     notified |-> {}]

\* The stop and the failures are escalated, in any order.
Failing ==
    [calls |-> Each(Worker(w1), <<Call("escalate", root, "shutdown"),
                                  Call("escalate", dataflow, "worker")>>,
                    <<Call("escalate", dataflow, "network")>>),
     notified |-> {p1}]

\* A task waits for a cancellation above it, more than once.
Waiting(t) ==
    [calls |-> Each(<<Call("wait", w1, NoReason), Call("wait", w1, NoReason)>>,
                    <<Call("cancel", t, "user")>>, <<Call("cancel", root, "shutdown"), Read(w1)>>),
     notified |-> {}]

\* Workers come and go: their handles are pruned from the tokens above them.
Pruned ==
    [calls |-> Each(Worker(w1), Worker(w2),
                    <<Call("cancel", w1, "user"), Call("cancel", root, "shutdown")>>),
     notified |-> {}]

MCPlans == {Reasons, Failing, Pruned} \cup {Overtaken(t) : t \in {root, dataflow, w1}}
             \cup {Waiting(t) : t \in {dataflow, w1}}
================================================================================
