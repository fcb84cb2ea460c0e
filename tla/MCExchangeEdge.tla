---------------------------- MODULE MCExchangeEdge ----------------------------
(* Instances of ExchangeEdge: two workers, an exchanged and a broadcast edge   *)
(* behind one output, rings of one slot, and timestamps that are pairs.        *)
EXTENDS ExchangeEdge

Pairs == {<<0, 0>>, <<0, 1>>, <<1, 0>>}
MCMinimum == <<0, 0>>
PairLeq(a, b) == a[1] <= b[1] /\ a[2] <= b[2]

\* An output with an exchanged and a broadcast consumer.  The first worker emits
\* two batches, so that rings of one slot refuse parts of the second; the other
\* one's producer has nothing to say.
Fan == [kinds |-> <<"exchange", "broadcast">>,
        calls |-> << << <<Data(<<0, 0>>, <<1, 2>>)>>, <<Data(<<0, 0>>, <<3>>)>> >>,
                     << >> >>]

\* One exchanged edge; each worker advances its watermark along a coordinate of
\* its own, between its batches.
Marked == [kinds |-> <<"exchange">>,
           calls |-> << << <<Data(<<0, 0>>, <<1>>), Watermark(<<1, 0>>)>>,
                           <<Data(<<1, 0>>, <<2>>)>> >>,
                        << <<Watermark(<<0, 1>>), Data(<<0, 1>>, <<1>>)>> >> >>]

MCPlans == {Fan, Marked}

\* The next step of w touches nothing another worker reads or writes.
Local(w) ==
    \/ at[w].step \in {"flush", "push", "rested"}
    \/ at[w].step = "offer" /\ at[w].peer = N + 1
    \/ at[w].step = "decide" /\ (shut[w] \/ ~CanShutDown(w))
    \/ at[w].step = "pull" /\ (\/ puller[at[w].edge][w].pending # <<>>
                               \/ at[w].left = 0 /\ at[w].absorbed)

\* Such a step commutes with every step of the others, so it is taken first.
LocalFirst ==
    LET ready == {w \in Workers : Local(w)}
    IN  ready # {} => at'[Min(ready)] # at[Min(ready)]

==============================================================================
