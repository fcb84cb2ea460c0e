------------------------- MODULE MCClusterLifecycle -------------------------
(* Instances of ClusterLifecycle for TLC.                                   *)
EXTENDS ClusterLifecycle, TLC

CONSTANTS a, b

OneWorkerEach == a :> 1 @@ b :> 1
TwoWorkersOnA == a :> 2 @@ b :> 1
One == {OneWorkerEach}
Both == {OneWorkerEach, TwoWorkersOnA}
OneFromA == a :> 1 @@ b :> 0
TwoFromA == a :> 2 @@ b :> 0

WriteFaults == OneWorkerEach :> {{"write"}}
AllFaults == OneWorkerEach :> {{"stop"}, {"corrupt"}, {"leave"}, {"cut"}}
               @@ TwoWorkersOnA :> {{"early"}, {"crash", "garble"}}

\* Once the connection is down the nodes can no longer influence each other:
\* it is enough to let a end before b goes on.
Later(n) ==
  /\ UNCHANGED <<mach[n], drv[n], token[n], events[n], work[n], rx[<<Peer(n), n>>]>>
  /\ tx'[<<n, Peer(n)>>].queue = tx[<<n, Peer(n)>>].queue
  /\ tx'[<<n, Peer(n)>>].forwarder = tx[<<n, Peer(n)>>].forwarder
  /\ tx'[<<Peer(n), n>>].wire = tx[<<Peer(n), n>>].wire
  /\ tx'[<<Peer(n), n>>].ctl = tx[<<Peer(n), n>>].ctl

OneAtATime == up \/ Done(a) \/ Later(b)

\* What a coordinator has decided it does next.  Its actions append to the
\* node's own queues or set flags that others only read, so nothing is missed by
\* not letting the others step in between.
Busy == {n \in Nodes : mach[n].out # << >>}
Promptly == Busy # {} => \E n \in Busy : mach'[n].out # mach[n].out
=============================================================================
