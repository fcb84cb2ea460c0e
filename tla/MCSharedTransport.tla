-------------------------- MODULE MCSharedTransport --------------------------
(* SharedTransport on small pools: one dataflow that exchanges frames under  *)
(* every fault, two spawns that compete for an id, and two dataflows that    *)
(* share a pool of two connections of which one fails.                       *)
EXTENDS SharedTransport

CONSTANTS na, nb, ra, rx, rb, sa, sb, id1, id2

RunNode == [r \in Runs |-> IF r \in {ra, rx, sa} THEN na ELSE nb]
RunId == [r \in Runs |-> IF r \in {sa, sb} THEN id2 ELSE id1]

(* A run sends at least one frame, its end of stream.  In every plan but one *)
(* the nodes are alike, and a read or a write may as well fail on na.        *)
Plan(runs, sends, conns, per_job, fails, faults) ==
    [after |-> [r \in Runs |-> IF r \in {ra, rb} THEN runs \cap {sa, sb} ELSE {}],
     runs |-> runs, node |-> RunNode, id |-> RunId,
     sends |-> [r \in Runs |-> IF r \in DOMAIN sends THEN sends[r] ELSE 1],
     connections |-> conns, per_job |-> per_job, at |-> {na}, fails |-> fails, faults |-> faults]

(* One dataflow whose managers are released.                                 *)
Exchanging ==
    {Plan({ra, rb}, <<>>, 1, TRUE, {}, f) : f \in {{}, {"write"}, {"read"}, {"break"}, {"dial"}}}
        \cup {Plan({ra, rb}, ra :> 2, 1, TRUE, {}, {"tamper"})}

(* Two spawns on one node under the same id, of which one may fail.          *)
Rivals ==
    {Plan({ra, rx, rb}, <<>>, 1, FALSE, f, {}) : f \in {{}, {ra}, {rb}}}

(* Two dataflows on the two connections of a pool, of which one fails.       *)
Lanes == {Plan({ra, rb, sa, sb}, (sa :> 0 @@ sb :> 0), 2, FALSE, {}, {"read"})}

MCPlans == Exchanging \cup Rivals \cup Lanes
=============================================================================
