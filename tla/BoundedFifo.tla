------------------------------ MODULE BoundedFifo ------------------------------
(* What one edge between two operators promises (the Push and Pull traits of   *)
(* dataflow/channels/pushpull.rs): a bounded first-in first-out queue that the *)
(* producing side closes once, and whose end the consuming side observes only *)
(* when nothing is left.  SpscRing implements it.                              *)
EXTENDS Naturals, Sequences

CONSTANTS Items,        \* the envelopes that may be pushed
          Capacity      \* how many of them the edge holds

VARIABLES queue,        \* accepted, not yet delivered
          closed,       \* the producer closed its end
          out,          \* what the last pull or drain delivered
          eof           \* is_exhausted returned true

fifoVars == <<queue, closed, out, eof>>

FifoInit == queue = <<>> /\ closed = FALSE /\ out = <<>> /\ eof = FALSE

\* Push::push and Push::try_push returning Ok.
FifoPush(v) ==
    /\ ~closed
    /\ Len(queue) < Capacity
    /\ queue' = Append(queue, v)
    /\ UNCHANGED <<closed, out, eof>>

\* Pull::pull (one envelope) and Pull::drain_into (several).
FifoTake(n) ==
    /\ out' = SubSeq(queue, 1, n)
    /\ queue' = SubSeq(queue, n + 1, Len(queue))
    /\ UNCHANGED <<closed, eof>>

FifoClose ==
    /\ closed' = TRUE
    /\ UNCHANGED <<queue, out, eof>>

\* Pull::is_exhausted returning true.
FifoEnd ==
    /\ closed /\ queue = <<>>
    /\ eof' = TRUE
    /\ UNCHANGED <<queue, closed, out>>

\* Both ends are gone: what was never delivered is dropped with the buffer.
FifoDiscard ==
    /\ closed
    /\ queue' = <<>>
    /\ UNCHANGED <<closed, out, eof>>

FifoNext ==
    \/ \E v \in Items : FifoPush(v)
    \/ \E n \in 1..Len(queue) : FifoTake(n)
    \/ FifoClose
    \/ FifoEnd
    \/ FifoDiscard

FifoSpec == FifoInit /\ [][FifoNext]_fifoVars
================================================================================
