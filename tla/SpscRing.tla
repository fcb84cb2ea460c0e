-------------------------------- MODULE SpscRing --------------------------------
(* The lock-free ring of dataflow/channels/spsc.rs: one producer, one          *)
(* consumer, two wrapping indices, a close flag, and an index of the other     *)
(* side cached by each.                                                        *)
(*                                                                             *)
(* Every load and store of a shared location is a step.  A Release store       *)
(* becomes visible to the other side's Acquire loads some time later, each     *)
(* side's stores in order: seenHead is what the producer's loads of head       *)
(* return, <<seenTail, seenClosed>> what the consumer's loads of tail and      *)
(* closed return.  A wake (WakeHandle::notify, called by the ring or, on an    *)
(* exchange edge, by ExchangePush and ExchangePull after the call) is a flag   *)
(* of the worker that runs the other side; taking it is a read-modify-write    *)
(* that synchronizes with the notify, so it also shows the stores before it.   *)
EXTENDS Integers, Sequences, FiniteSets

CONSTANTS Items,      \* the envelopes
          Capacity,   \* usable slots
          Size,       \* allocated slots
          W,          \* number of values of an index (2^64 in the code)
          Uninit      \* the content of a slot that holds no envelope

\* RingBuffer::new: the smallest power of two that is at least capacity + 1.
RingSize(capacity) ==
    CHOOSE s \in {2^k : k \in 0..capacity} :
        /\ s >= capacity + 1
        /\ \A k \in 0..capacity : 2^k >= capacity + 1 => s <= 2^k

ASSUME CapacityAssumption ==
    Capacity \in Nat /\ Capacity > 0 /\ Size \in Nat /\ Capacity < Size
ASSUME SizeAssumption == Size = RingSize(Capacity)
ASSUME WidthAssumption == W \in Nat /\ W >= Size /\ W % Size = 0
ASSUME UninitAssumption == Uninit \notin Items

VARIABLES
    slots, head, tail, closed,          \* the shared ring
    ppc, item, cached_head, seenHead,   \* the producer (SpscPush)
    cpc, want, taken, cached_tail,      \* the consumer (SpscPull)
    seenTail, seenClosed,
    wakeP, wakeC,                       \* the two workers' wake flags
    out, eof                            \* what the consumer's caller got

ring == <<slots, head, tail, closed>>
producer == <<ppc, item, cached_head>>
consumer == <<cpc, want, taken, cached_tail, out, eof>>
views == <<seenHead, seenTail, seenClosed>>
wakes == <<wakeP, wakeC>>
vars == <<ring, producer, consumer, views, wakes>>

Index == 0..(W - 1)
Slots == 0..(Size - 1)
ProducerAt == {"idle", "try", "refresh", "refused", "parked", "write",
               "publish", "notify", "closing", "done"}
ConsumerAt == {"idle", "refresh", "read", "advance", "freed", "empty",
               "ending", "waiting", "parked", "done", "gone", "dropped"}

\* wrap, wrapping_add and len_from on indices of limited width.
wrap(i) == i % Size
Add(i, n) == (i + n) % W
len_from(from, to) == (to - from) % W

Init ==
    /\ slots = [s \in Slots |-> Uninit]
    /\ head = 0 /\ tail = 0 /\ closed = FALSE
    /\ ppc = "idle" /\ item = Uninit /\ cached_head = 0 /\ seenHead = 0
    /\ cpc = "idle" /\ want = 0 /\ taken = <<>> /\ cached_tail = 0
    /\ seenTail = 0 /\ seenClosed = FALSE
    /\ wakeP = TRUE /\ wakeC = TRUE
    /\ out = <<>> /\ eof = FALSE
--------------------------------------------------------------------------------
(* The producer. *)

\* The caller submits an envelope to an open channel (a closed one answers
\* ChannelClosed and nothing changes: only this side ever closes).
PStart(v) ==
    /\ ppc = "idle" /\ ~closed
    /\ item' = v
    /\ ppc' = "try"
    /\ UNCHANGED <<ring, cached_head, consumer, views, wakes>>

\* The capacity test against the cached head.
PTry ==
    /\ ppc = "try"
    /\ ppc' = IF len_from(cached_head, tail) >= Capacity THEN "refresh" ELSE "write"
    /\ UNCHANGED <<ring, item, cached_head, consumer, views, wakes>>

\* Faulty variant: the refreshed head is not tested.
PRefreshUnchecked ==
    /\ ppc = "refresh"
    /\ cached_head' = seenHead
    /\ ppc' = "write"
    /\ UNCHANGED <<ring, item, consumer, views, wakes>>

\* The ring looked full: load head and test again.
PRefresh ==
    /\ ppc = "refresh"
    /\ cached_head' = seenHead
    /\ ppc' = IF len_from(seenHead, tail) >= Capacity THEN "refused" ELSE "write"
    /\ UNCHANGED <<ring, item, consumer, views, wakes>>

PWrite ==
    /\ ppc = "write"
    /\ slots' = [slots EXCEPT ![wrap(tail)] = item]
    /\ ppc' = "publish"
    /\ UNCHANGED <<head, tail, closed, item, cached_head, consumer, views, wakes>>

PPublish ==
    /\ ppc = "publish"
    /\ tail' = Add(tail, 1)
    /\ ppc' = "notify"
    /\ UNCHANGED <<slots, head, closed, item, cached_head, consumer, views, wakes>>

PNotify ==
    /\ ppc = "notify"
    /\ wakeC' = TRUE
    /\ item' = Uninit
    /\ ppc' = "idle"
    /\ UNCHANGED <<ring, cached_head, consumer, views, wakeP>>

\* What the producer sees once it took a notification: every store the
\* consumer made before its last notify.
NotifiedHead ==
    IF cpc = "freed" /\ seenHead # head THEN Add(head, -Len(out)) ELSE head

\* The worker whose push was refused goes to park: it takes a pending
\* notification and tries again, or yields.
PPark ==
    /\ ppc = "refused"
    /\ IF wakeP
       THEN wakeP' = FALSE /\ seenHead' = NotifiedHead /\ ppc' = "try"
       ELSE ppc' = "parked" /\ UNCHANGED <<wakeP, seenHead>>
    /\ UNCHANGED <<ring, item, cached_head, consumer, seenTail, seenClosed, wakeC>>

\* A notify finds the parked worker's waker; the next sweep retries the push.
PWake ==
    /\ ppc = "parked" /\ wakeP
    /\ ppc' = "try"
    /\ seenHead' = NotifiedHead
    /\ UNCHANGED <<ring, item, cached_head, consumer, seenTail, seenClosed, wakes>>

\* close, or the drop of SpscPush (a refused envelope is dropped with it).
PClose ==
    /\ ppc \in {"idle", "refused", "parked"} /\ ~closed
    /\ closed' = TRUE
    /\ item' = Uninit
    /\ ppc' = "closing"
    /\ UNCHANGED <<slots, head, tail, cached_head, consumer, views, wakes>>

PCloseNotify ==
    /\ ppc = "closing"
    /\ wakeC' = TRUE
    /\ ppc' = "done"
    /\ UNCHANGED <<ring, item, cached_head, consumer, views, wakeP>>
--------------------------------------------------------------------------------
(* The consumer. *)

\* pull: test head against the cached tail.
CPull ==
    /\ cpc = "idle"
    /\ want' = 1
    /\ cpc' = IF head = cached_tail THEN "refresh" ELSE "read"
    /\ UNCHANGED <<ring, producer, taken, cached_tail, out, eof, views, wakes>>

\* pull: the ring looked empty, so load tail and test again.
CRefresh ==
    /\ cpc = "refresh"
    /\ cached_tail' = seenTail
    /\ cpc' = IF head = seenTail THEN "empty" ELSE "read"
    /\ UNCHANGED <<ring, producer, want, taken, out, eof, views, wakes>>

\* drain_into: load tail and take everything up to it.
CDrain ==
    /\ cpc = "idle"
    /\ cached_tail' = seenTail
    /\ want' = len_from(head, seenTail)
    /\ cpc' = IF head = seenTail THEN "empty" ELSE "read"
    /\ UNCHANGED <<ring, producer, taken, out, eof, views, wakes>>

\* One slot is moved out (assume_init_read leaves it uninitialized).
CRead ==
    /\ cpc = "read"
    /\ LET s == wrap(Add(head, Len(taken)))
       IN  /\ taken' = Append(taken, slots[s])
           /\ slots' = [slots EXCEPT ![s] = Uninit]
    /\ cpc' = IF Len(taken) + 1 = want THEN "advance" ELSE "read"
    /\ UNCHANGED <<head, tail, closed, producer, want, cached_tail, out, eof,
                   views, wakes>>

CAdvance ==
    /\ cpc = "advance"
    /\ head' = Add(head, want)
    /\ out' = taken
    /\ taken' = <<>>
    /\ cpc' = "freed"
    /\ UNCHANGED <<slots, tail, closed, producer, want, cached_tail, eof, views, wakes>>

\* Faulty variant: notify only when the ring was last seen full.
CFreedWhenFull ==
    /\ cpc = "freed"
    /\ wakeP' = (wakeP \/ len_from(Add(head, -Len(out)), cached_tail) >= Capacity)
    /\ cpc' = "idle"
    /\ UNCHANGED <<ring, producer, want, taken, cached_tail, out, eof, views, wakeC>>

\* freed: every pull and every non-empty drain notifies the producer's worker.
CFreed ==
    /\ cpc = "freed"
    /\ wakeP' = TRUE
    /\ cpc' = "idle"
    /\ UNCHANGED <<ring, producer, want, taken, cached_tail, out, eof, views, wakeC>>

\* is_exhausted, first load: closed.
CLoadClosed ==
    /\ cpc \in {"idle", "empty"}
    /\ cpc' = CASE seenClosed -> "ending"
                [] ~seenClosed /\ cpc = "empty" -> "waiting"
                [] OTHER -> "idle"
    /\ UNCHANGED <<ring, producer, want, taken, cached_tail, out, eof, views, wakes>>

\* Faulty variant: is_exhausted trusts the cached tail.
CLoadTailCached ==
    /\ cpc = "ending"
    /\ eof' = (head = cached_tail)
    /\ cpc' = IF head = cached_tail THEN "done" ELSE "idle"
    /\ UNCHANGED <<ring, producer, want, taken, cached_tail, out, views, wakes>>

\* is_exhausted, second load: tail.
CLoadTail ==
    /\ cpc = "ending"
    /\ eof' = (head = seenTail)
    /\ cpc' = IF head = seenTail THEN "done" ELSE "idle"
    /\ UNCHANGED <<ring, producer, want, taken, cached_tail, out, views, wakes>>

\* What the consumer sees once it took a notification: every store the
\* producer made before its last notify.
NotifiedTail ==
    IF ppc = "notify" /\ seenTail # tail THEN Add(tail, -1) ELSE tail
NotifiedClosed == closed /\ (ppc = "closing" => seenClosed)

\* The worker that found the ring empty goes to park.
CPark ==
    /\ cpc = "waiting"
    /\ IF wakeC
       THEN /\ wakeC' = FALSE /\ cpc' = "idle"
            /\ seenTail' = NotifiedTail /\ seenClosed' = NotifiedClosed
       ELSE cpc' = "parked" /\ UNCHANGED <<wakeC, seenTail, seenClosed>>
    /\ UNCHANGED <<ring, producer, want, taken, cached_tail, out, eof, seenHead, wakeP>>

CWake ==
    /\ cpc = "parked" /\ wakeC
    /\ cpc' = "idle"
    /\ seenTail' = NotifiedTail /\ seenClosed' = NotifiedClosed
    /\ UNCHANGED <<ring, producer, want, taken, cached_tail, out, eof, seenHead, wakes>>

\* Another channel of the same dataflow wakes the consumer's worker.
CSpurious ==
    /\ cpc = "parked"
    /\ cpc' = "idle"
    /\ UNCHANGED <<ring, producer, want, taken, cached_tail, out, eof, views, wakes>>

\* SpscPull is dropped: it tells nobody.
CDrop ==
    /\ cpc \in {"idle", "empty", "parked", "done"}
    /\ cpc' = "gone"
    /\ UNCHANGED <<ring, producer, want, taken, cached_tail, out, eof, views, wakes>>

\* Faulty variant: the range ignores the wrap.
OccupiedUnwrapped == {wrap(i) : i \in head..(tail - 1)}

\* The slots from head up to tail.
Occupied == {wrap(Add(head, i)) : i \in {j \in 0..(Size - 1) : j < len_from(head, tail)}}

\* Drop for RingBuffer, run by whichever end goes last: it drops the envelopes
\* from head to tail.
DropRing ==
    /\ ppc = "done" /\ cpc = "gone"
    /\ slots' = [s \in Slots |-> IF s \in Occupied THEN Uninit ELSE slots[s]]
    /\ cpc' = "dropped"
    /\ UNCHANGED <<head, tail, closed, producer, want, taken, cached_tail, out, eof, views, wakes>>
--------------------------------------------------------------------------------
\* The memory system shows one side the other side's latest stores.
ShowHead ==
    /\ seenHead # head
    /\ seenHead' = head
    /\ UNCHANGED <<ring, producer, consumer, seenTail, seenClosed, wakes>>

ShowTail ==
    /\ <<seenTail, seenClosed>> # <<tail, closed>>
    /\ seenTail' = tail /\ seenClosed' = closed
    /\ UNCHANGED <<ring, producer, consumer, seenHead, wakes>>

PushStep == PTry \/ PRefresh \/ PWrite \/ PPublish \/ PNotify \/ PPark \/ PWake
            \/ PCloseNotify
PullStep == CRefresh \/ CRead \/ CAdvance \/ CFreed \/ CLoadTail \/ CPark \/ CWake
Pull == CPull \/ CDrain

Next ==
    \/ \E v \in Items : PStart(v)
    \/ PushStep \/ PClose
    \/ Pull \/ PullStep \/ CLoadClosed \/ CSpurious \/ CDrop \/ DropRing
    \/ ShowHead \/ ShowTail

Spec == Init /\ [][Next]_vars

\* A worker that runs keeps stepping: a started push and a started pull go on,
\* an operator that was woken pulls (strong fairness: it may ask is_exhausted any
\* number of times in between) and, finding nothing, asks whether its input
\* ended, and stores become visible.  Nobody is obliged to push, close or drop.
Fairness ==
    /\ WF_vars(PushStep)
    /\ SF_vars(Pull) /\ WF_vars(PullStep)
    /\ WF_vars(cpc = "empty" /\ CLoadClosed)
    /\ WF_vars(ShowHead) /\ WF_vars(ShowTail)

FairSpec == Spec /\ Fairness
--------------------------------------------------------------------------------
(* Properties. *)

RingTypeOK ==
    /\ slots \in [Slots -> Items \cup {Uninit}]
    /\ head \in Index /\ tail \in Index
    /\ cached_head \in Index /\ seenHead \in Index
    /\ cached_tail \in Index /\ seenTail \in Index
    /\ want \in 0..(W - 1)
    /\ item \in Items \cup {Uninit}
    /\ taken \in Seq(Items \cup {Uninit}) /\ out \in Seq(Items \cup {Uninit})
    /\ ppc \in ProducerAt /\ cpc \in ConsumerAt
FlagTypeOK ==
    /\ closed \in BOOLEAN /\ seenClosed \in BOOLEAN /\ eof \in BOOLEAN
    /\ wakeP \in BOOLEAN /\ wakeC \in BOOLEAN
\* Every variable has its type; in particular the indices stay in the index
\* type through wrapping_add and the cached indices are indices.
TypeOK == RingTypeOK /\ FlagTypeOK

\* The "Safety" comments on the slot accesses of push, pull and drain_into: the
\* producer only writes a slot that holds nothing (an envelope is never
\* overwritten, nor leaked), the consumer only moves out a slot that holds an
\* envelope, and the two never access the same slot at the same time, however
\* stale the cached indices are and wherever they wrap.
SlotSafety ==
    /\ ppc = "write" => slots[wrap(tail)] = Uninit
    /\ cpc = "read" => slots[wrap(Add(head, Len(taken)))] # Uninit
    /\ ppc = "write" /\ cpc = "read" => wrap(tail) # wrap(Add(head, Len(taken)))

\* Drop for RingBuffer drops each remaining envelope exactly once: when it has
\* run no slot still holds an envelope, and before it runs every slot between
\* head and tail holds one.
DropExact ==
    /\ cpc = "dropped" => \A s \in Slots : slots[s] = Uninit
    /\ cpc = "gone" /\ ppc = "done" => \A s \in Occupied : slots[s] # Uninit

(* The inductive invariant behind SlotSafety.  Going round from cached_head,   *)
(* the indices keep this order, and no more than Capacity apart:               *)
(*   cached_head, seenHead, head, (what a pull in progress moved out),         *)
(*   cached_tail, seenTail, tail.                                              *)
Ahead(i) == len_from(cached_head, i)

IndexOrder ==
    /\ Ahead(seenHead) <= Ahead(head)
    /\ Ahead(head) + Len(taken) <= Ahead(cached_tail)
    /\ Ahead(cached_tail) <= Ahead(seenTail)
    /\ Ahead(seenTail) <= Ahead(tail)
    /\ Ahead(tail) <= Capacity

\* What each side knows in the middle of an operation.
AtEachStep ==
    /\ ppc \in {"try", "refresh", "refused", "parked", "write"} => item \in Items
    /\ ppc \in {"write", "publish"} => Ahead(tail) < Capacity
    /\ cpc = "dropped" => ppc = "done"
    /\ cpc = "refresh" => want = 1
    /\ cpc \in {"read", "advance"} =>
          want > 0 /\ Ahead(head) + want <= Ahead(cached_tail)
    /\ cpc = "read" => Len(taken) < want
    /\ cpc = "advance" => Len(taken) = want
    /\ cpc \notin {"read", "advance"} => taken = <<>>
    /\ cpc = "freed" => \/ seenHead = head
                        \/ Ahead(seenHead) + Len(out) <= Ahead(head)

\* The slots that hold an envelope are the ones of the indices from the first
\* one not moved out to tail (and that of tail between its write and its
\* publication).
Lo == Add(head, Len(taken))
Held == len_from(Lo, tail) + (IF ppc = "publish" THEN 1 ELSE 0)
Window == {i \in Index : len_from(Lo, i) < Held}

SlotsHold ==
    cpc # "dropped" =>
        \A s \in Slots : slots[s] # Uninit <=> \E i \in Window : wrap(i) = s

\* The inductive invariant: push, pull and drain_into keep the indices in order
\* and exactly the slots between them occupied.
IInv == TypeOK /\ IndexOrder /\ AtEachStep /\ SlotsHold

\* The ring as a bounded queue: what was moved out of the ring by a pull or a
\* drain still under way, then the slots up to tail.
Queue ==
    LET left == IF cpc = "dropped" THEN 0 ELSE len_from(head, tail) - Len(taken)
    IN  taken \o [i \in 1..left |-> slots[wrap(Add(head, Len(taken) + i - 1))]]

Fifo == INSTANCE BoundedFifo WITH queue <- Queue

\* The ring implements the edge it stands for: nothing is lost, duplicated or
\* reordered, no more than Capacity envelopes are held, and is_exhausted is true
\* only when the producer closed and nothing is left (its load of closed comes
\* before its load of tail).
ImplementsFifo == Fifo!FifoSpec

\* No wake-up of either side is lost.  A refused push is retried until it is
\* accepted, unless its channel is closed or its consumer is gone (freed wakes
\* the producer), and the end that close announces is seen, behind every envelope
\* pushed before it (push and close wake a consumer parked on an empty ring).
NobodyIsForgotten ==
    /\ ppc \in {"refused", "parked"} ~> (ppc = "notify" \/ closed \/ cpc = "gone")
    /\ closed ~> (eof \/ cpc \in {"gone", "dropped"})
================================================================================
