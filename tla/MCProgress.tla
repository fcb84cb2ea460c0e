----------------------------- MODULE MCProgress -----------------------------
(* Instances of Progress: a source, an operator and a sink.  The source's   *)
(* output is broadcast or exchanged, the operator's exchanged, so that      *)
(* records cross the workers in both directions.  The first worker hosts    *)
(* everything, the second one only the operator.                            *)
EXTENDS Progress, TLC

CONSTANTS w1, w2

MCOps == {"src", "mid", "sink"}
MCInputs == {"mid.in", "sink.in"}
MCOutputs == {"src.out", "mid.out"}
MCOp == [l \in MCInputs \cup MCOutputs |->
            CASE l = "src.out" -> "src"
              [] l \in {"mid.in", "mid.out"} -> "mid"
              [] l = "sink.in" -> "sink"]
MCEdges == {<<"src.out", "mid.in">>, <<"mid.out", "sink.in">>}
MCReaches ==
    LET order == <<"src.out", "mid.in", "mid.out", "sink.in">>
    IN  {<<order[i], order[j]>> : <<i, j>> \in {p \in (1..4) \X (1..4) : p[1] <= p[2]}}

Exchanged == [e \in MCEdges |-> "exchange"]
Broadcast ==
    [e \in MCEdges |-> IF e[1] = "src.out" THEN "broadcast" ELSE "exchange"]
Uneven == [o \in MCOps |-> IF o = "mid" THEN {w1, w2} ELSE {w1}]
MCInitial == {"src.out"}

\* The source broadcasts, so that three units are one record's two copies and what
\* is made of one of them.  One time: accounting, not frontiers' order.
OneTime == [routing |-> Broadcast, times |-> {0}, units |-> 3]

\* Two times and exchanges only: capabilities are delayed and downgraded, and
\* records of both times overtake each other.
TwoTimes == [routing |-> Exchanged, times |-> {0, 1}, units |-> 2]

\* For liveness.
Small == [routing |-> Exchanged, times |-> {0}, units |-> 2]

SafetyPlans == {OneTime, TwoTimes}
LivePlans == {Small}

Symmetry == Permutations(Fresh)
=============================================================================
