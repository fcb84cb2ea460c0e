---------------------------- MODULE SpscRingProofs ----------------------------
(* For every capacity, ring size and index width the code can use: the slot   *)
(* accesses of SpscRing are safe, dropping the ring releases exactly what was  *)
(* left in it, and the ring is a bounded FIFO queue.                           *)
EXTENDS SpscRing, SequenceTheorems, TLAPS

\* What len_from computes on indices: wrapping_sub.
LEMMA LenFrom ==
    ASSUME NEW a \in Index, NEW b \in Index
    PROVE  len_from(a, b) = IF a <= b THEN b - a ELSE b - a + W
BY CapacityAssumption, WidthAssumption DEF len_from, Index

\* What wrapping_add computes on an index.
LEMMA AddUp ==
    ASSUME NEW a \in Index, NEW n \in 0..(W - 1)
    PROVE  Add(a, n) = IF a + n < W THEN a + n ELSE a + n - W
BY CapacityAssumption, WidthAssumption DEF Add, Index

\* Adding a negative amount undoes an addition.
LEMMA AddDown ==
    ASSUME NEW a \in Index, NEW n \in 0..(W - 1)
    PROVE  Add(a, -n) = IF n <= a THEN a - n ELSE a - n + W
BY CapacityAssumption, WidthAssumption DEF Add, Index

\* Indices less than Size apart never share a slot: Size divides W, so wrap is
\* the same before and after an index wraps.
LEMMA DistinctSlots ==
    ASSUME NEW a \in Index, NEW b \in Index,
           0 < len_from(a, b), len_from(a, b) < Size
    PROVE  wrap(a) # wrap(b)
<1> DEFINE qa == a \div Size
           qb == b \div Size
           qw == W \div Size
<1>1. /\ Size \in Nat /\ Size > 0 /\ W \in Nat
      /\ a \in Int /\ b \in Int
  BY CapacityAssumption, WidthAssumption DEF Index
<1>2. /\ qa \in Int /\ qb \in Int /\ qw \in Int
      /\ a = Size * qa + wrap(a)
      /\ b = Size * qb + wrap(b)
      /\ W = Size * qw
      /\ wrap(a) \in Int /\ wrap(b) \in Int
  BY <1>1, WidthAssumption DEF wrap
<1>3. \A k \in Int : Size * k <= 0 \/ Size * k >= Size
  BY <1>1
<1>4. SUFFICES ASSUME wrap(a) = wrap(b) PROVE FALSE
  OBVIOUS
<1>5. b - a = Size * (qb - qa) /\ b - a + W = Size * (qb - qa + qw)
  BY <1>1, <1>2, <1>4
<1>6. len_from(a, b) = Size * (qb - qa) \/ len_from(a, b) = Size * (qb - qa + qw)
  BY <1>5, LenFrom
<1> QED
  BY <1>1, <1>2, <1>3, <1>6

\* Facts about indices that every step uses.
LEMMA IndexFacts ==
    /\ W \in Nat /\ Size \in Nat /\ Capacity \in Nat
    /\ 0 < Capacity /\ Capacity < Size /\ Size <= W
    /\ 0 \in Index
    /\ \A a \in Index, b \in Index : len_from(a, b) \in 0..(W - 1)
    /\ \A a \in Index, n \in 0..(W - 1) : Add(a, n) \in Index /\ Add(a, -n) \in Index
    /\ \A a \in Index : wrap(a) \in Slots
BY CapacityAssumption, WidthAssumption DEF len_from, Add, wrap, Index, Slots

\* The initial ring is empty and idle.
LEMMA InitIInv == Init => IInv
<1> SUFFICES ASSUME Init PROVE IInv
  OBVIOUS
<1>1. TypeOK
  <2>1. taken \in Seq(Items \cup {Uninit}) /\ out \in Seq(Items \cup {Uninit})
    BY DEF Init
  <2>2. RingTypeOK
    BY <2>1, IndexFacts DEF Init, RingTypeOK, Index, ProducerAt, ConsumerAt
  <2>3. FlagTypeOK
    BY Zenon DEF Init, FlagTypeOK
  <2> QED
    BY <2>2, <2>3 DEF TypeOK
<1>2. \A i \in Index : len_from(0, i) = i
  BY LenFrom, IndexFacts DEF Index
<1>3. /\ head = 0 /\ tail = 0 /\ cached_head = 0 /\ seenHead = 0
      /\ cached_tail = 0 /\ seenTail = 0 /\ Len(taken) = 0 /\ taken = <<>>
      /\ ppc = "idle" /\ cpc = "idle"
  BY DEF Init
<1>4. IndexOrder
  <2>1. len_from(0, 0) = 0
    BY <1>2, IndexFacts
  <2> QED
    BY <1>3, <2>1, CapacityAssumption DEF IndexOrder, Ahead
<1>5. AtEachStep
  BY <1>3 DEF AtEachStep
<1>6. Add(0, 0) = 0
  BY AddUp, IndexFacts DEF Index
<1>7. Lo = 0 /\ Held = 0
  BY <1>2, <1>3, <1>6, IndexFacts DEF Lo, Held
<1>8. Window = {}
  BY <1>2, <1>7 DEF Window, Index
<1>9. SlotsHold
  <2>1. \A s \in Slots : slots[s] = Uninit
    BY DEF Init
  <2> QED
    BY <1>8, <2>1 DEF SlotsHold
<1> QED
  BY <1>1, <1>4, <1>5, <1>9 DEF IInv

\* A step that leaves the ring's content and the window alone keeps SlotsHold.
LEMMA SameWindow ==
    ASSUME SlotsHold, UNCHANGED <<slots, head, tail, taken>>,
           (ppc' = "publish") = (ppc = "publish"),
           cpc = "dropped" => cpc' = "dropped"
    PROVE  SlotsHold'
BY DEF SlotsHold, Window, Held, Lo

\* Distances measured from another index on the way.
LEMMA Rebase ==
    ASSUME NEW c \in Index, NEW a \in Index, NEW b \in Index,
           len_from(c, a) <= len_from(c, b)
    PROVE  len_from(a, b) = len_from(c, b) - len_from(c, a)
<1>1. /\ len_from(a, b) = IF a <= b THEN b - a ELSE b - a + W
      /\ len_from(c, a) = IF c <= a THEN a - c ELSE a - c + W
      /\ len_from(c, b) = IF c <= b THEN b - c ELSE b - c + W
  BY LenFrom
<1>2. W \in Nat /\ a \in 0..(W - 1) /\ b \in 0..(W - 1) /\ c \in 0..(W - 1)
  BY IndexFacts DEF Index
<1> QED
  BY <1>1, <1>2

\* Moving an index forward within one turn of the ring.
LEMMA Forward ==
    ASSUME NEW c \in Index, NEW a \in Index, NEW n \in Nat, len_from(c, a) + n < W
    PROVE  /\ Add(a, n) \in Index
           /\ len_from(c, Add(a, n)) = len_from(c, a) + n
<1>1. W \in Nat /\ a \in 0..(W - 1) /\ c \in 0..(W - 1) /\ len_from(c, a) \in Nat
  BY IndexFacts DEF Index
<1>2. n \in 0..(W - 1)
  BY <1>1
<1>3. Add(a, n) \in Index /\ Add(a, n) = IF a + n < W THEN a + n ELSE a + n - W
  BY <1>2, AddUp, IndexFacts
<1> DEFINE b == Add(a, n)
<1>4. /\ len_from(c, a) = IF c <= a THEN a - c ELSE a - c + W
      /\ len_from(c, b) = IF c <= b THEN b - c ELSE b - c + W
  BY <1>3, LenFrom
<1>5. b \in 0..(W - 1) /\ b = IF a + n < W THEN a + n ELSE a + n - W
  BY <1>3 DEF Index
<1> HIDE DEF b
<1>6. len_from(c, b) = len_from(c, a) + n
  BY <1>1, <1>2, <1>4, <1>5
<1> QED
  BY <1>3, <1>6 DEF b

\* Moving an index backward within one turn of the ring.
LEMMA Backward ==
    ASSUME NEW c \in Index, NEW a \in Index, NEW n \in Nat, n <= len_from(c, a)
    PROVE  /\ Add(a, -n) \in Index
           /\ len_from(c, Add(a, -n)) = len_from(c, a) - n
<1>1. /\ W \in Nat /\ a \in 0..(W - 1) /\ c \in 0..(W - 1)
      /\ len_from(c, a) \in 0..(W - 1)
  BY IndexFacts DEF Index
<1>2. n \in 0..(W - 1)
  BY <1>1
<1>3. Add(a, -n) \in Index /\ Add(a, -n) = IF n <= a THEN a - n ELSE a - n + W
  BY <1>2, AddDown, IndexFacts
<1> DEFINE b == Add(a, -n)
<1>4. /\ len_from(c, a) = IF c <= a THEN a - c ELSE a - c + W
      /\ len_from(c, b) = IF c <= b THEN b - c ELSE b - c + W
  BY <1>3, LenFrom
<1>5. b \in 0..(W - 1) /\ b = IF n <= a THEN a - n ELSE a - n + W
  BY <1>3 DEF Index
<1> HIDE DEF b
<1>6. len_from(c, b) = len_from(c, a) - n
  BY <1>1, <1>2, <1>4, <1>5
<1> QED
  BY <1>3, <1>6 DEF b

\* A step that moves no index keeps their order.
LEMMA SameOrder ==
    ASSUME IndexOrder,
           UNCHANGED <<cached_head, seenHead, head, taken, cached_tail, seenTail, tail>>
    PROVE  IndexOrder'
BY DEF IndexOrder, Ahead

\* The numbers a step compares.
LEMMA Numbers ==
    ASSUME IInv
    PROVE  /\ cached_head \in Index /\ seenHead \in Index /\ head \in Index
           /\ cached_tail \in Index /\ seenTail \in Index /\ tail \in Index
           /\ Ahead(seenHead) \in Nat /\ Ahead(head) \in Nat
           /\ Ahead(cached_tail) \in Nat /\ Ahead(seenTail) \in Nat
           /\ Ahead(tail) \in Nat
           /\ want \in Nat /\ Len(taken) \in Nat /\ Len(out) \in Nat
<1>1. /\ cached_head \in Index /\ seenHead \in Index /\ head \in Index
      /\ cached_tail \in Index /\ seenTail \in Index /\ tail \in Index
      /\ want \in 0..(W - 1)
  BY DEF IInv, TypeOK, RingTypeOK
<1>2. \A i \in Index : Ahead(i) \in Nat
  BY <1>1, IndexFacts DEF Ahead
<1>3. Len(taken) \in Nat /\ Len(out) \in Nat
  BY DEF IInv, TypeOK, RingTypeOK
<1> QED
  BY <1>1, <1>2, <1>3, IndexFacts

\* Different indices are at different distances.
LEMMA Injective ==
    ASSUME NEW c \in Index, NEW a \in Index, NEW b \in Index,
           len_from(c, a) = len_from(c, b)
    PROVE  a = b
<1>1. /\ W \in Nat /\ a \in 0..(W - 1) /\ b \in 0..(W - 1)
      /\ len_from(c, a) \in Int /\ len_from(c, b) \in Int
  BY IndexFacts DEF Index
<1>2. len_from(a, b) = 0
  <2>1. len_from(a, b) = len_from(c, b) - len_from(c, a)
    BY <1>1, Rebase
  <2> QED
    BY <1>1, <2>1
<1>3. len_from(a, b) = IF a <= b THEN b - a ELSE b - a + W
  BY LenFrom
<1> QED
  BY <1>1, <1>2, <1>3

\* The first index not moved out, and the length of the window.
LEMMA LoFacts ==
    ASSUME IInv
    PROVE  /\ Lo \in Index
           /\ Ahead(Lo) = Ahead(head) + Len(taken)
           /\ len_from(Lo, tail) = Ahead(tail) - Ahead(Lo)
           /\ len_from(Lo, tail) \in 0..Capacity
           /\ ppc \in {"write", "publish"} => len_from(Lo, tail) < Capacity
           /\ Held \in 0..Capacity
<1>1. Ahead(head) + Len(taken) <= Ahead(tail) /\ Ahead(tail) <= Capacity
  BY Numbers, CapacityAssumption DEF IInv, IndexOrder
<1>2. Ahead(head) + Len(taken) < W
  BY SMTT(30), <1>1, Numbers, IndexFacts
<1>3. Lo \in Index /\ Ahead(Lo) = Ahead(head) + Len(taken)
  BY <1>2, Numbers, Forward DEF Lo, Ahead
<1>4. len_from(Lo, tail) = Ahead(tail) - Ahead(Lo)
  BY <1>1, <1>3, Numbers, Rebase DEF Ahead
<1>5. ppc \in {"write", "publish"} => Ahead(tail) < Capacity
  BY DEF IInv, AtEachStep
<1>6. len_from(Lo, tail) \in Nat /\ len_from(Lo, tail) <= Ahead(tail)
  <2>1. Ahead(tail) \in Nat /\ Ahead(head) + Len(taken) \in Nat
    BY Numbers
  <2> QED
    BY <1>1, <1>3, <1>4, <2>1
<1>7. Capacity \in Nat /\ Ahead(tail) \in Nat
  BY Numbers, IndexFacts
<1>8. len_from(Lo, tail) \in 0..Capacity
  BY <1>1, <1>6, <1>7
<1>9. ppc \in {"write", "publish"} => len_from(Lo, tail) < Capacity
  BY <1>5, <1>6, <1>7
<1>10. Held \in 0..Capacity
  BY <1>7, <1>8, <1>9 DEF Held
<1> QED
  BY <1>3, <1>4, <1>8, <1>9, <1>10

\* What a notification shows of head: no older than what was seen.
LEMMA NotifiedHeadFacts ==
    ASSUME IInv
    PROVE  /\ NotifiedHead \in Index
           /\ Ahead(NotifiedHead) \in Nat
           /\ Ahead(NotifiedHead) <= Ahead(head)
           /\ cpc = "freed" => \/ NotifiedHead = head
                               \/ Ahead(NotifiedHead) + Len(out) <= Ahead(head)
<1>1. CASE cpc = "freed" /\ seenHead # head
  <2>1. Ahead(seenHead) + Len(out) <= Ahead(head)
    BY <1>1 DEF IInv, AtEachStep
  <2>2. Len(out) <= Ahead(head)
    BY <2>1, Numbers
  <2>3. /\ Add(head, -Len(out)) \in Index
        /\ Ahead(Add(head, -Len(out))) = Ahead(head) - Len(out)
    BY <2>2, Numbers, Backward DEF Ahead
  <2>4. NotifiedHead = Add(head, -Len(out))
    BY <1>1 DEF NotifiedHead
  <2> QED
    BY SMTT(30), <2>2, <2>3, <2>4, Numbers
<1>2. CASE ~(cpc = "freed" /\ seenHead # head)
  BY <1>2, Numbers DEF NotifiedHead
<1> QED
  BY <1>1, <1>2

\* What a notification shows of tail: no older than what was seen.
LEMMA NotifiedTailFacts ==
    ASSUME IInv
    PROVE  /\ NotifiedTail \in Index
           /\ Ahead(NotifiedTail) \in Nat
           /\ Ahead(seenTail) <= Ahead(NotifiedTail)
           /\ Ahead(NotifiedTail) <= Ahead(tail)
<1>0. Ahead(seenTail) <= Ahead(tail)
  BY DEF IInv, IndexOrder
<1>1. CASE ppc = "notify" /\ seenTail # tail
  <2>1. Ahead(seenTail) # Ahead(tail)
    BY <1>1, Numbers, Injective DEF Ahead
  <2>2. 1 <= Ahead(tail) /\ Ahead(seenTail) <= Ahead(tail) - 1
    BY <1>0, <2>1, Numbers
  <2>3. /\ Add(tail, -1) \in Index
        /\ Ahead(Add(tail, -1)) = Ahead(tail) - 1
    BY <2>2, Numbers, Backward DEF Ahead
  <2>4. NotifiedTail = Add(tail, -1)
    BY <1>1 DEF NotifiedTail
  <2> QED
    BY <2>2, <2>3, <2>4, Numbers
<1>2. CASE ~(ppc = "notify" /\ seenTail # tail)
  BY SMTT(30), <1>0, <1>2, Numbers DEF NotifiedTail
<1> QED
  BY <1>1, <1>2

\* Every step keeps the invariant.
LEMMA NextIInv == IInv /\ [Next]_vars => IInv'
<1> SUFFICES ASSUME IInv, [Next]_vars PROVE IInv'
  OBVIOUS
<1> USE DEF IInv
<1>PStart. CASE \E v \in Items : PStart(v)
  <2>1. RingTypeOK'
    BY <1>PStart, IndexFacts DEF PStart, ring, producer, consumer, views, wakes, TypeOK, RingTypeOK, ProducerAt
  <2>2. FlagTypeOK'
    BY <1>PStart DEF PStart, ring, producer, consumer, views, wakes, TypeOK, FlagTypeOK
  <2>3. IndexOrder'
    BY <1>PStart, SameOrder DEF PStart, ring, producer, consumer, views, wakes
  <2>4. AtEachStep'
    BY <1>PStart, Numbers, CapacityAssumption DEF PStart, ring, producer, consumer, views, wakes, AtEachStep, Ahead
  <2>5. SlotsHold'
    BY <1>PStart, SameWindow DEF PStart, ring, producer, consumer, views, wakes
  <2> QED
    BY <2>1, <2>2, <2>3, <2>4, <2>5 DEF TypeOK
<1>PTry. CASE PTry
  <2>1. RingTypeOK'
    BY <1>PTry, IndexFacts DEF PTry, ring, producer, consumer, views, wakes, TypeOK, RingTypeOK, ProducerAt
  <2>2. FlagTypeOK'
    BY <1>PTry DEF PTry, ring, producer, consumer, views, wakes, TypeOK, FlagTypeOK
  <2>3. IndexOrder'
    BY <1>PTry, SameOrder DEF PTry, ring, producer, consumer, views, wakes
  <2>4. AtEachStep'
    BY <1>PTry, Numbers, CapacityAssumption DEF PTry, ring, producer, consumer, views, wakes, AtEachStep, Ahead
  <2>5. SlotsHold'
    BY <1>PTry, SameWindow DEF PTry, ring, producer, consumer, views, wakes
  <2> QED
    BY <2>1, <2>2, <2>3, <2>4, <2>5 DEF TypeOK
<1>PNotify. CASE PNotify
  <2>1. RingTypeOK'
    BY <1>PNotify, IndexFacts DEF PNotify, ring, producer, consumer, views, wakes, TypeOK, RingTypeOK, ProducerAt
  <2>2. FlagTypeOK'
    BY <1>PNotify DEF PNotify, ring, producer, consumer, views, wakes, TypeOK, FlagTypeOK
  <2>3. IndexOrder'
    BY <1>PNotify, SameOrder DEF PNotify, ring, producer, consumer, views, wakes
  <2>4. AtEachStep'
    BY <1>PNotify, Numbers, CapacityAssumption DEF PNotify, ring, producer, consumer, views, wakes, AtEachStep, Ahead
  <2>5. SlotsHold'
    BY SMTT(30), <1>PNotify, SameWindow DEF PNotify, ring, producer, consumer, views, wakes
  <2> QED
    BY <2>1, <2>2, <2>3, <2>4, <2>5 DEF TypeOK
<1>PClose. CASE PClose
  <2>1. RingTypeOK'
    BY <1>PClose, IndexFacts DEF PClose, ring, producer, consumer, views, wakes, TypeOK, RingTypeOK, ProducerAt
  <2>2. FlagTypeOK'
    BY <1>PClose DEF PClose, ring, producer, consumer, views, wakes, TypeOK, FlagTypeOK
  <2>3. IndexOrder'
    BY <1>PClose, SameOrder DEF PClose, ring, producer, consumer, views, wakes
  <2>4. AtEachStep'
    BY <1>PClose, Numbers, CapacityAssumption DEF PClose, ring, producer, consumer, views, wakes, AtEachStep, Ahead
  <2>5. SlotsHold'
    BY <1>PClose, SameWindow DEF PClose, ring, producer, consumer, views, wakes
  <2> QED
    BY <2>1, <2>2, <2>3, <2>4, <2>5 DEF TypeOK
<1>PCloseNotify. CASE PCloseNotify
  <2>1. RingTypeOK'
    BY <1>PCloseNotify, IndexFacts DEF PCloseNotify, ring, producer, consumer, views, wakes, TypeOK, RingTypeOK, ProducerAt
  <2>2. FlagTypeOK'
    BY <1>PCloseNotify DEF PCloseNotify, ring, producer, consumer, views, wakes, TypeOK, FlagTypeOK
  <2>3. IndexOrder'
    BY SMTT(30), <1>PCloseNotify, SameOrder DEF PCloseNotify, ring, producer, consumer, views, wakes
  <2>4. AtEachStep'
    BY <1>PCloseNotify, Numbers, CapacityAssumption DEF PCloseNotify, ring, producer, consumer, views, wakes, AtEachStep, Ahead
  <2>5. SlotsHold'
    BY <1>PCloseNotify, SameWindow DEF PCloseNotify, ring, producer, consumer, views, wakes
  <2> QED
    BY <2>1, <2>2, <2>3, <2>4, <2>5 DEF TypeOK
<1>PRefresh. CASE PRefresh
  <2>1. RingTypeOK'
    BY <1>PRefresh DEF PRefresh, ring, producer, consumer, views, wakes, TypeOK, RingTypeOK, ProducerAt
  <2>2. FlagTypeOK'
    BY <1>PRefresh DEF PRefresh, ring, producer, consumer, views, wakes, TypeOK, FlagTypeOK
  <2>3. /\ cached_head' = seenHead
        /\ UNCHANGED <<seenHead, head, taken, cached_tail, seenTail, tail>>
    BY <1>PRefresh DEF PRefresh, ring, producer, consumer, views, wakes
  <2>4. \A i \in Index : Ahead(seenHead) <= Ahead(i)
                         => len_from(seenHead, i) = Ahead(i) - Ahead(seenHead)
    BY Rebase, Numbers DEF Ahead
  <2>5. /\ Ahead(seenHead)' = 0
        /\ Ahead(head)' = Ahead(head) - Ahead(seenHead)
        /\ Ahead(cached_tail)' = Ahead(cached_tail) - Ahead(seenHead)
        /\ Ahead(seenTail)' = Ahead(seenTail) - Ahead(seenHead)
        /\ Ahead(tail)' = Ahead(tail) - Ahead(seenHead)
    <3>1. /\ Ahead(seenHead)' = len_from(seenHead, seenHead)
          /\ Ahead(head)' = len_from(seenHead, head)
          /\ Ahead(cached_tail)' = len_from(seenHead, cached_tail)
          /\ Ahead(seenTail)' = len_from(seenHead, seenTail)
          /\ Ahead(tail)' = len_from(seenHead, tail)
      BY <2>3 DEF Ahead
    <3>2. /\ Ahead(seenHead) <= Ahead(head) /\ Ahead(seenHead) <= Ahead(cached_tail)
          /\ Ahead(seenHead) <= Ahead(seenTail) /\ Ahead(seenHead) <= Ahead(tail)
      BY Numbers DEF IndexOrder
    <3> QED
      BY SMTT(30), <2>4, <3>1, <3>2, Numbers
  <2>6. IndexOrder'
    <3>1. Len(taken)' = Len(taken)
      BY <2>3
    <3> QED
      BY SMTT(30), <2>5, <3>1, Numbers, CapacityAssumption DEF IndexOrder
  <2>7. AtEachStep'
    <3>1. ppc' = "write" => Ahead(tail)' < Capacity
      BY SMTT(30), <1>PRefresh, <2>3, <2>5, Numbers, CapacityAssumption DEF PRefresh, Ahead
    <3>2. ppc' \in {"refused", "write"} /\ item' \in Items /\ cpc # "dropped"
      BY <1>PRefresh DEF PRefresh, ring, producer, consumer, views, wakes, AtEachStep
    <3>3. UNCHANGED <<cpc, want, taken, head, seenHead, out>>
      BY <1>PRefresh DEF PRefresh, ring, producer, consumer, views, wakes
    <3> QED
      BY SMTT(30), <2>5, <3>1, <3>2, <3>3, Numbers DEF AtEachStep
  <2>8. SlotsHold'
    BY SMTT(30), <1>PRefresh, SameWindow DEF PRefresh, ring, producer, consumer, views, wakes
  <2> QED
    BY <2>1, <2>2, <2>6, <2>7, <2>8 DEF TypeOK
<1>PWrite. CASE PWrite
  <2>1. RingTypeOK'
    BY Zenon, <1>PWrite DEF PWrite, ring, producer, consumer, views, wakes, TypeOK, RingTypeOK, ProducerAt
  <2>2. FlagTypeOK'
    BY <1>PWrite DEF PWrite, ring, producer, consumer, views, wakes, TypeOK, FlagTypeOK
  <2>3. IndexOrder'
    BY <1>PWrite, SameOrder DEF PWrite, ring, producer, consumer, views, wakes
  <2>4. AtEachStep'
    BY <1>PWrite, Numbers DEF PWrite, ring, producer, consumer, views, wakes, AtEachStep, Ahead
  <2>5. SlotsHold'
    <3>1. SUFFICES ASSUME cpc' # "dropped", NEW s \in Slots
                   PROVE  slots'[s] # Uninit <=> \E i \in Window' : wrap(i) = s
      BY DEF SlotsHold
    <3>2. /\ ppc = "write" /\ ppc' = "publish" /\ cpc = cpc'
          /\ Lo' = Lo /\ tail' = tail
          /\ slots' = [slots EXCEPT ![wrap(tail)] = item]
      BY <1>PWrite DEF PWrite, ring, producer, consumer, views, wakes, Lo
    <3>3. item # Uninit
      BY <3>2, UninitAssumption DEF AtEachStep
    <3>4. Held = len_from(Lo, tail) /\ Held' = len_from(Lo, tail) + 1
      BY <3>2, LoFacts DEF Held
    <3>5. \A i \in Index : i \in Window' <=> i \in Window \/ i = tail
      <4>1. \A i \in Index : len_from(Lo, i) \in Nat
        BY LoFacts, IndexFacts
      <4>2. \A i \in Index : len_from(Lo, i) = len_from(Lo, tail) => i = tail
        BY LoFacts, Numbers, Injective
      <4>3. tail \in Index /\ len_from(Lo, tail) \in Nat
        BY LoFacts, Numbers
      <4>4. /\ \A i \in Index : i \in Window <=> len_from(Lo, i) < len_from(Lo, tail)
            /\ \A i \in Index : i \in Window' <=> len_from(Lo, i) < len_from(Lo, tail) + 1
        BY <3>2, <3>4 DEF Window
      <4>5. \A i \in Index : len_from(Lo, i) < len_from(Lo, tail) + 1
                              <=> \/ len_from(Lo, i) < len_from(Lo, tail)
                                  \/ len_from(Lo, i) = len_from(Lo, tail)
        BY <4>1, <4>3
      <4> QED
        BY <4>2, <4>4, <4>5
    <3>6. \A i \in Window : i \in Index /\ wrap(i) # wrap(tail)
      <4>1. SUFFICES ASSUME NEW i \in Index, len_from(Lo, i) < len_from(Lo, tail)
                     PROVE  wrap(i) # wrap(tail)
        BY <3>4 DEF Window
      <4>2. /\ Lo \in Index /\ tail \in Index /\ len_from(Lo, i) \in Nat
            /\ len_from(Lo, tail) \in Nat /\ len_from(Lo, tail) <= Capacity
        BY LoFacts, Numbers, IndexFacts
      <4>3. len_from(i, tail) = len_from(Lo, tail) - len_from(Lo, i)
        BY <4>1, <4>2, Rebase
      <4>4. 0 < len_from(i, tail) /\ len_from(i, tail) < Size
        BY <4>1, <4>2, <4>3, CapacityAssumption
      <4> QED
        BY <4>4, Numbers, DistinctSlots
    <3>7. slots[s] # Uninit <=> \E i \in Window : wrap(i) = s
      BY <3>1, <3>2 DEF SlotsHold
    <3>8. slots \in [Slots -> Items \cup {Uninit}] /\ wrap(tail) \in Slots
      BY Numbers, IndexFacts DEF TypeOK, RingTypeOK
    <3>9. CASE s = wrap(tail)
      BY <3>2, <3>3, <3>5, <3>8, <3>9, Numbers
    <3>10. CASE s # wrap(tail)
      <4>1. slots'[s] = slots[s]
        BY <3>2, <3>8, <3>10
      <4>2. \A i \in Window' : i \in Index
        BY DEF Window
      <4> QED
        BY <3>5, <3>6, <3>7, <3>10, <4>1, <4>2
    <3> QED
      BY <3>9, <3>10
  <2> QED
    BY <2>1, <2>2, <2>3, <2>4, <2>5 DEF TypeOK
<1>PPublish. CASE PPublish
  <2>1. /\ ppc = "publish" /\ ppc' = "notify" /\ tail' = Add(tail, 1)
        /\ UNCHANGED <<cached_head, seenHead, head, taken, cached_tail, seenTail,
                       cpc, want, out, item, slots>>
    BY <1>PPublish DEF PPublish, ring, producer, consumer, views, wakes
  <2>2. Ahead(tail) + 1 <= Capacity
    BY <2>1, Numbers, CapacityAssumption DEF AtEachStep
  <2>3. tail' \in Index /\ Ahead(tail)' = Ahead(tail) + 1
    <3>1. Add(tail, 1) \in Index /\ len_from(cached_head, Add(tail, 1)) = Ahead(tail) + 1
      <4>1. len_from(cached_head, tail) + 1 < W
        BY SMTT(30), <2>2, Numbers, IndexFacts DEF Ahead
      <4> QED
        BY <4>1, Numbers, Forward DEF Ahead
    <3> QED
      BY <2>1, <3>1 DEF Ahead
  <2>4. RingTypeOK'
    BY <1>PPublish, <2>3 DEF PPublish, ring, producer, consumer, views, wakes, TypeOK, RingTypeOK, ProducerAt
  <2>5. FlagTypeOK'
    BY <1>PPublish DEF PPublish, ring, producer, consumer, views, wakes, TypeOK, FlagTypeOK
  <2>6. IndexOrder'
    <3>1. /\ Ahead(seenHead)' = Ahead(seenHead) /\ Ahead(head)' = Ahead(head)
          /\ Ahead(cached_tail)' = Ahead(cached_tail)
          /\ Ahead(seenTail)' = Ahead(seenTail) /\ Len(taken)' = Len(taken)
      BY <2>1 DEF Ahead
    <3> QED
      BY SMTT(30), <2>2, <2>3, <3>1, Numbers, CapacityAssumption DEF IndexOrder
  <2>7. AtEachStep'
    BY <2>1 DEF AtEachStep, Ahead
  <2>8. SlotsHold'
    <3>1. Lo' = Lo
      BY <2>1 DEF Lo
    <3>2. len_from(Lo, tail) + 1 < W
      BY SMTT(30), <2>1, LoFacts, IndexFacts
    <3>3. len_from(Lo, Add(tail, 1)) = len_from(Lo, tail) + 1
      BY <3>2, LoFacts, Numbers, Forward
    <3>4. Held' = Held
      BY <2>1, <3>1, <3>3, LoFacts DEF Held
    <3> QED
      BY <2>1, <3>1, <3>4 DEF SlotsHold, Window
  <2> QED
    BY <2>4, <2>5, <2>6, <2>7, <2>8 DEF TypeOK
<1>PPark. CASE PPark
  <2>1. /\ ppc \in {"refused", "parked"} /\ ppc' \in {"try", "parked"}
        /\ seenHead' = NotifiedHead \/ seenHead' = seenHead
        /\ UNCHANGED <<ring, item, cached_head, consumer, seenTail, seenClosed, wakeC>>
    BY <1>PPark DEF PPark, wakes
  <2>2. /\ seenHead' \in Index
        /\ Ahead(seenHead)' \in Nat /\ Ahead(seenHead)' <= Ahead(head)
        /\ cpc = "freed" => \/ seenHead' = head
                            \/ Ahead(seenHead)' + Len(out) <= Ahead(head)
    <3>1. CASE seenHead' = NotifiedHead
      <4>1. Ahead(seenHead)' = Ahead(NotifiedHead)
        BY SMTT(30), <2>1, <3>1 DEF Ahead
      <4> QED
        BY <3>1, <4>1, NotifiedHeadFacts
    <3>2. CASE seenHead' = seenHead
      <4>1. Ahead(seenHead)' = Ahead(seenHead)
        BY <2>1, <3>2 DEF Ahead
      <4> QED
        BY <3>2, <4>1, Numbers DEF AtEachStep, IndexOrder
    <3> QED
      BY <2>1, <3>1, <3>2
  <2>3. RingTypeOK'
    BY <2>1, <2>2 DEF ring, consumer, TypeOK, RingTypeOK, ProducerAt
  <2>4. FlagTypeOK'
    BY Zenon, <1>PPark DEF PPark, ring, producer, consumer, views, wakes, TypeOK, FlagTypeOK
  <2>5. /\ Ahead(head)' = Ahead(head) /\ Ahead(tail)' = Ahead(tail)
        /\ Ahead(cached_tail)' = Ahead(cached_tail)
        /\ Ahead(seenTail)' = Ahead(seenTail) /\ Len(taken)' = Len(taken)
    BY <2>1 DEF ring, consumer, Ahead
  <2>6. IndexOrder'
    BY <2>2, <2>5 DEF IndexOrder
  <2>7. AtEachStep'
    <3>1. UNCHANGED <<cpc, want, taken, head, out, item>>
      BY <2>1 DEF ring, consumer
    <3>2. item \in Items
      BY <2>1 DEF AtEachStep
    <3> QED
      BY <2>1, <2>2, <2>5, <3>1, <3>2 DEF AtEachStep
  <2>8. SlotsHold'
    BY <2>1, SameWindow DEF ring, consumer
  <2> QED
    BY <2>3, <2>4, <2>6, <2>7, <2>8 DEF TypeOK
<1>PWake. CASE PWake
  <2>1. /\ ppc \in {"refused", "parked"} /\ ppc' \in {"try", "parked"}
        /\ seenHead' = NotifiedHead \/ seenHead' = seenHead
        /\ UNCHANGED <<ring, item, cached_head, consumer, seenTail, seenClosed, wakeC>>
    BY <1>PWake DEF PWake, wakes
  <2>2. /\ seenHead' \in Index
        /\ Ahead(seenHead)' \in Nat /\ Ahead(seenHead)' <= Ahead(head)
        /\ cpc = "freed" => \/ seenHead' = head
                            \/ Ahead(seenHead)' + Len(out) <= Ahead(head)
    <3>1. CASE seenHead' = NotifiedHead
      <4>1. Ahead(seenHead)' = Ahead(NotifiedHead)
        BY SMTT(30), <2>1, <3>1 DEF Ahead
      <4> QED
        BY <3>1, <4>1, NotifiedHeadFacts
    <3>2. CASE seenHead' = seenHead
      <4>1. Ahead(seenHead)' = Ahead(seenHead)
        BY <2>1, <3>2 DEF Ahead
      <4> QED
        BY <3>2, <4>1, Numbers DEF AtEachStep, IndexOrder
    <3> QED
      BY <2>1, <3>1, <3>2
  <2>3. RingTypeOK'
    BY <2>1, <2>2 DEF ring, consumer, TypeOK, RingTypeOK, ProducerAt
  <2>4. FlagTypeOK'
    BY <1>PWake DEF PWake, ring, producer, consumer, views, wakes, TypeOK, FlagTypeOK
  <2>5. /\ Ahead(head)' = Ahead(head) /\ Ahead(tail)' = Ahead(tail)
        /\ Ahead(cached_tail)' = Ahead(cached_tail)
        /\ Ahead(seenTail)' = Ahead(seenTail) /\ Len(taken)' = Len(taken)
    BY <2>1 DEF ring, consumer, Ahead
  <2>6. IndexOrder'
    BY <2>2, <2>5 DEF IndexOrder
  <2>7. AtEachStep'
    <3>1. UNCHANGED <<cpc, want, taken, head, out, item>>
      BY <2>1 DEF ring, consumer
    <3>2. item \in Items
      BY <2>1 DEF AtEachStep
    <3> QED
      BY <2>1, <2>2, <2>5, <3>1, <3>2 DEF AtEachStep
  <2>8. SlotsHold'
    BY <2>1, SameWindow DEF ring, consumer
  <2> QED
    BY <2>3, <2>4, <2>6, <2>7, <2>8 DEF TypeOK
<1>CFreed. CASE CFreed
  <2>1. RingTypeOK'
    BY <1>CFreed, IndexFacts DEF CFreed, ring, producer, consumer, views, wakes, TypeOK, RingTypeOK, ConsumerAt
  <2>2. FlagTypeOK'
    BY <1>CFreed DEF CFreed, ring, producer, consumer, views, wakes, TypeOK, FlagTypeOK
  <2>3. IndexOrder'
    BY SMTT(30), <1>CFreed, SameOrder DEF CFreed, ring, producer, consumer, views, wakes
  <2>4. AtEachStep'
    BY <1>CFreed, Numbers, CapacityAssumption DEF CFreed, ring, producer, consumer, views, wakes, AtEachStep, Ahead
  <2>5. SlotsHold'
    BY <1>CFreed, SameWindow DEF CFreed, ring, producer, consumer, views, wakes
  <2> QED
    BY <2>1, <2>2, <2>3, <2>4, <2>5 DEF TypeOK
<1>CLoadClosed. CASE CLoadClosed
  <2>1. RingTypeOK'
    BY <1>CLoadClosed, IndexFacts DEF CLoadClosed, ring, producer, consumer, views, wakes, TypeOK, RingTypeOK, ConsumerAt
  <2>2. FlagTypeOK'
    BY <1>CLoadClosed DEF CLoadClosed, ring, producer, consumer, views, wakes, TypeOK, FlagTypeOK
  <2>3. IndexOrder'
    BY <1>CLoadClosed, SameOrder DEF CLoadClosed, ring, producer, consumer, views, wakes
  <2>4. AtEachStep'
    BY SMTT(30), <1>CLoadClosed, Numbers, CapacityAssumption DEF CLoadClosed, ring, producer, consumer, views, wakes, AtEachStep, Ahead
  <2>5. SlotsHold'
    BY <1>CLoadClosed, SameWindow DEF CLoadClosed, ring, producer, consumer, views, wakes
  <2> QED
    BY <2>1, <2>2, <2>3, <2>4, <2>5 DEF TypeOK
<1>CLoadTail. CASE CLoadTail
  <2>1. RingTypeOK'
    BY <1>CLoadTail, IndexFacts DEF CLoadTail, ring, producer, consumer, views, wakes, TypeOK, RingTypeOK, ConsumerAt
  <2>2. FlagTypeOK'
    BY <1>CLoadTail DEF CLoadTail, ring, producer, consumer, views, wakes, TypeOK, FlagTypeOK
  <2>3. IndexOrder'
    BY SMTT(30), <1>CLoadTail, SameOrder DEF CLoadTail, ring, producer, consumer, views, wakes
  <2>4. AtEachStep'
    BY <1>CLoadTail, Numbers, CapacityAssumption DEF CLoadTail, ring, producer, consumer, views, wakes, AtEachStep, Ahead
  <2>5. SlotsHold'
    BY SMTT(30), <1>CLoadTail, SameWindow DEF CLoadTail, ring, producer, consumer, views, wakes
  <2> QED
    BY <2>1, <2>2, <2>3, <2>4, <2>5 DEF TypeOK
<1>CSpurious. CASE CSpurious
  <2>1. RingTypeOK'
    BY <1>CSpurious, IndexFacts DEF CSpurious, ring, producer, consumer, views, wakes, TypeOK, RingTypeOK, ConsumerAt
  <2>2. FlagTypeOK'
    BY <1>CSpurious DEF CSpurious, ring, producer, consumer, views, wakes, TypeOK, FlagTypeOK
  <2>3. IndexOrder'
    BY SMTT(30), <1>CSpurious, SameOrder DEF CSpurious, ring, producer, consumer, views, wakes
  <2>4. AtEachStep'
    BY <1>CSpurious, Numbers, CapacityAssumption DEF CSpurious, ring, producer, consumer, views, wakes, AtEachStep, Ahead
  <2>5. SlotsHold'
    BY SMTT(30), <1>CSpurious, SameWindow DEF CSpurious, ring, producer, consumer, views, wakes
  <2> QED
    BY <2>1, <2>2, <2>3, <2>4, <2>5 DEF TypeOK
<1>CDrop. CASE CDrop
  <2>1. RingTypeOK'
    BY <1>CDrop, IndexFacts DEF CDrop, ring, producer, consumer, views, wakes, TypeOK, RingTypeOK, ConsumerAt
  <2>2. FlagTypeOK'
    BY <1>CDrop DEF CDrop, ring, producer, consumer, views, wakes, TypeOK, FlagTypeOK
  <2>3. IndexOrder'
    BY SMTT(30), <1>CDrop, SameOrder DEF CDrop, ring, producer, consumer, views, wakes
  <2>4. AtEachStep'
    BY <1>CDrop, Numbers, CapacityAssumption DEF CDrop, ring, producer, consumer, views, wakes, AtEachStep, Ahead
  <2>5. SlotsHold'
    BY SMTT(30), <1>CDrop, SameWindow DEF CDrop, ring, producer, consumer, views, wakes
  <2> QED
    BY <2>1, <2>2, <2>3, <2>4, <2>5 DEF TypeOK
<1>CPull. CASE CPull
  <2>1. RingTypeOK'
    BY <1>CPull, IndexFacts DEF CPull, ring, producer, consumer, views, wakes, TypeOK, RingTypeOK, ConsumerAt
  <2>2. FlagTypeOK'
    BY <1>CPull DEF CPull, ring, producer, consumer, views, wakes, TypeOK, FlagTypeOK
  <2>3. IndexOrder'
    BY SMTT(30), <1>CPull, SameOrder DEF CPull, ring, producer, consumer, views, wakes
  <2>4. AtEachStep'
    <3>1. /\ cpc = "idle" /\ want' = 1 /\ taken = <<>> /\ Len(taken) = 0
          /\ cpc' \in {"refresh", "read"}
          /\ cpc' = "read" => head # cached_tail
          /\ UNCHANGED <<cached_head, seenHead, head, taken, cached_tail, seenTail, tail,
                         ppc, item, out>>
      BY <1>CPull DEF CPull, ring, producer, consumer, views, wakes, AtEachStep
    <3>2. cpc' = "read" => Ahead(head) + 1 <= Ahead(cached_tail)
      <4>1. Ahead(head) <= Ahead(cached_tail)
        BY <3>1, Numbers DEF IndexOrder
      <4>2. head # cached_tail => Ahead(head) # Ahead(cached_tail)
        BY Numbers, Injective DEF Ahead
      <4> QED
        BY SMTT(30), <3>1, <4>1, <4>2, Numbers
    <3> QED
      BY SMTT(30), <3>1, <3>2 DEF AtEachStep, Ahead
  <2>5. SlotsHold'
    BY SMTT(30), <1>CPull, SameWindow DEF CPull, ring, producer, consumer, views, wakes
  <2> QED
    BY <2>1, <2>2, <2>3, <2>4, <2>5 DEF TypeOK
<1>CRefresh. CASE CRefresh
  <2>1. /\ cpc' \in {"empty", "read"} /\ cached_tail' = seenTail
        /\ cpc \in {"idle", "refresh"} /\ taken = <<>> /\ Len(taken) = 0
        /\ cpc' = "read" => head # seenTail
        /\ UNCHANGED <<cached_head, seenHead, head, taken, seenTail, tail, ppc, item, out>>
    BY SMTT(30), <1>CRefresh DEF CRefresh, ring, producer, consumer, views, wakes, AtEachStep
  <2>2. Ahead(head) <= Ahead(seenTail)
    BY <2>1, Numbers DEF IndexOrder
  <2>3. cpc' = "read" => Ahead(head) + 1 <= Ahead(seenTail)
    <3>1. head # seenTail => Ahead(head) # Ahead(seenTail)
      BY Numbers, Injective DEF Ahead
    <3> QED
      BY <2>1, <2>2, <3>1, Numbers
  <2>4. cpc' = "read" => want' > 0 /\ Ahead(head) + want' <= Ahead(seenTail)
    BY SMTT(30), <1>CRefresh, <2>3 DEF CRefresh, AtEachStep
  <2>5. RingTypeOK'
    BY <1>CRefresh, IndexFacts DEF CRefresh, ring, producer, consumer, views, wakes, TypeOK, RingTypeOK, ConsumerAt
  <2>6. FlagTypeOK'
    BY <1>CRefresh DEF CRefresh, ring, producer, consumer, views, wakes, TypeOK, FlagTypeOK
  <2>7. /\ Ahead(seenHead)' = Ahead(seenHead) /\ Ahead(head)' = Ahead(head)
        /\ Ahead(cached_tail)' = Ahead(seenTail) /\ Ahead(tail)' = Ahead(tail)
        /\ Ahead(seenTail)' = Ahead(seenTail) /\ Len(taken)' = 0
    BY SMTT(30), <2>1 DEF Ahead
  <2>8. IndexOrder'
    BY SMTT(30), <2>2, <2>7, Numbers DEF IndexOrder
  <2>9. AtEachStep'
    BY SMTT(30), <2>1, <2>4, <2>7 DEF AtEachStep
  <2>10. SlotsHold'
    BY SMTT(30), <1>CRefresh, SameWindow DEF CRefresh, ring, producer, consumer, views, wakes
  <2> QED
    BY <2>5, <2>6, <2>8, <2>9, <2>10 DEF TypeOK
<1>CDrain. CASE CDrain
  <2>1. /\ cpc' \in {"empty", "read"} /\ cached_tail' = seenTail
        /\ cpc \in {"idle", "refresh"} /\ taken = <<>> /\ Len(taken) = 0
        /\ cpc' = "read" => head # seenTail
        /\ UNCHANGED <<cached_head, seenHead, head, taken, seenTail, tail, ppc, item, out>>
    BY <1>CDrain DEF CDrain, ring, producer, consumer, views, wakes, AtEachStep
  <2>2. Ahead(head) <= Ahead(seenTail)
    BY <2>1, Numbers DEF IndexOrder
  <2>3. cpc' = "read" => Ahead(head) + 1 <= Ahead(seenTail)
    <3>1. head # seenTail => Ahead(head) # Ahead(seenTail)
      BY Numbers, Injective DEF Ahead
    <3> QED
      BY <2>1, <2>2, <3>1, Numbers
  <2>4. cpc' = "read" => want' > 0 /\ Ahead(head) + want' <= Ahead(seenTail)
    <3>1. want' = Ahead(seenTail) - Ahead(head)
      <4>1. len_from(head, seenTail) = Ahead(seenTail) - Ahead(head)
        BY SMTT(30), <2>2, Numbers, Rebase DEF Ahead
      <4> QED
        BY <1>CDrain, <4>1 DEF CDrain
    <3> QED
      BY SMTT(30), <2>3, <3>1, Numbers
  <2>5. RingTypeOK'
    BY Zenon, <1>CDrain, IndexFacts DEF CDrain, ring, producer, consumer, views, wakes, TypeOK, RingTypeOK, ConsumerAt
  <2>6. FlagTypeOK'
    BY <1>CDrain DEF CDrain, ring, producer, consumer, views, wakes, TypeOK, FlagTypeOK
  <2>7. /\ Ahead(seenHead)' = Ahead(seenHead) /\ Ahead(head)' = Ahead(head)
        /\ Ahead(cached_tail)' = Ahead(seenTail) /\ Ahead(tail)' = Ahead(tail)
        /\ Ahead(seenTail)' = Ahead(seenTail) /\ Len(taken)' = 0
    BY SMTT(30), <2>1 DEF Ahead
  <2>8. IndexOrder'
    BY SMTT(30), <2>2, <2>7, Numbers DEF IndexOrder
  <2>9. AtEachStep'
    BY SMTT(30), <2>1, <2>4, <2>7 DEF AtEachStep
  <2>10. SlotsHold'
    BY <1>CDrain, SameWindow DEF CDrain, ring, producer, consumer, views, wakes
  <2> QED
    BY <2>5, <2>6, <2>8, <2>9, <2>10 DEF TypeOK
<1>CRead. CASE CRead
  <2> DEFINE s0 == wrap(Lo)
  <2>1. /\ cpc = "read" /\ cpc' \in {"read", "advance"}
        /\ taken' = Append(taken, slots[s0])
        /\ slots' = [slots EXCEPT ![s0] = Uninit]
        /\ UNCHANGED <<cached_head, seenHead, head, cached_tail, seenTail, tail, ppc,
                       item, want, out>>
    BY <1>CRead DEF CRead, ring, producer, consumer, views, wakes, Lo
  <2>2. /\ slots \in [Slots -> Items \cup {Uninit}] /\ s0 \in Slots
        /\ taken \in Seq(Items \cup {Uninit})
    BY Zenon, LoFacts, IndexFacts DEF TypeOK, RingTypeOK
  <2>3. Len(taken)' = Len(taken) + 1 /\ taken' \in Seq(Items \cup {Uninit})
    BY <2>1, <2>2
  <2>4. Len(taken) + 1 <= want /\ Ahead(head) + want <= Ahead(cached_tail)
    BY <2>1, Numbers DEF AtEachStep
  <2>5. RingTypeOK'
    <3>1. slots' \in [Slots -> Items \cup {Uninit}]
      BY <2>1, <2>2
    <3>2. UNCHANGED <<head, tail, cached_head, seenHead, cached_tail, seenTail, want,
                      item, out, ppc>>
      BY <2>1
    <3> QED
      BY <2>1, <2>3, <3>1, <3>2 DEF TypeOK, RingTypeOK, ConsumerAt
  <2>6. FlagTypeOK'
    BY <1>CRead DEF CRead, ring, producer, consumer, views, wakes, TypeOK, FlagTypeOK
  <2>7. /\ Ahead(seenHead)' = Ahead(seenHead) /\ Ahead(head)' = Ahead(head)
        /\ Ahead(cached_tail)' = Ahead(cached_tail) /\ Ahead(tail)' = Ahead(tail)
        /\ Ahead(seenTail)' = Ahead(seenTail)
    BY <2>1 DEF Ahead
  <2>8. IndexOrder'
    <3>1. Ahead(head) + (Len(taken) + 1) <= Ahead(cached_tail)
      BY SMTT(30), <2>4, Numbers
    <3> QED
      BY <2>3, <2>7, <3>1 DEF IndexOrder
  <2>9. AtEachStep'
    <3>1. /\ cpc' = "read" => Len(taken)' < want
          /\ cpc' = "advance" => Len(taken)' = want
      BY <1>CRead, <2>3, <2>4, Numbers DEF CRead
    <3> QED
      BY SMTT(30), <2>1, <2>7, <3>1 DEF AtEachStep
  <2>10. SlotsHold'
    <3>1. SUFFICES ASSUME NEW s \in Slots
                   PROVE  slots'[s] # Uninit <=> \E i \in Window' : wrap(i) = s
      BY DEF SlotsHold
    <3>2. slots[s] # Uninit <=> \E i \in Window : wrap(i) = s
      BY <2>1 DEF SlotsHold
    <3>3. 1 <= len_from(Lo, tail)
      <4>1. Ahead(head) + Len(taken) + 1 <= Ahead(tail)
        BY SMTT(30), <2>4, Numbers DEF IndexOrder
      <4> QED
        BY SMTT(30), <4>1, LoFacts, Numbers
    <3>4. Lo' \in Index /\ len_from(Lo, Lo') = 1 /\ len_from(Lo, Lo) = 0
      <4>1. Lo' = Add(head, Len(taken) + 1)
        BY <2>1, <2>3 DEF Lo
      <4>2. Ahead(head) + (Len(taken) + 1) < W
        <5>1. Ahead(cached_tail) < W /\ W \in Nat
          BY Numbers, IndexFacts DEF Ahead
        <5> QED
          BY SMTT(30), <2>4, <5>1, Numbers
      <4>3. Lo' \in Index /\ Ahead(Lo') = Ahead(head) + (Len(taken) + 1)
        BY <4>1, <4>2, Numbers, Forward DEF Ahead
      <4>4. Ahead(Lo) <= Ahead(Lo')
        BY SMTT(30), <4>3, LoFacts, Numbers
      <4>5. len_from(Lo, Lo') = Ahead(Lo') - Ahead(Lo)
        BY SMTT(30), <4>3, <4>4, LoFacts, Numbers, Rebase DEF Ahead
      <4>6. len_from(Lo, Lo) = 0
        BY SMTT(30), LoFacts, IndexFacts, LenFrom DEF Index
      <4> QED
        BY SMTT(30), <4>3, <4>5, <4>6, LoFacts, Numbers
    <3>5. \A i \in Index : len_from(Lo, i) \in Nat /\ len_from(Lo', i) \in Nat
      BY SMTT(30), <3>4, LoFacts, IndexFacts
    <3>6. \A i \in Index : 1 <= len_from(Lo, i)
                            => len_from(Lo', i) = len_from(Lo, i) - 1
      BY SMTT(30), <3>4, LoFacts, Rebase
    <3>7. Held' = Held - 1 /\ Held \in Nat /\ Held <= Capacity
      <4>1. len_from(Lo', tail) = len_from(Lo, tail) - 1
        BY <3>3, <3>6, Numbers
      <4>2. tail' = tail /\ ppc' = ppc
        BY <2>1
      <4> QED
        BY <4>1, <4>2, LoFacts, CapacityAssumption DEF Held
    <3>8. len_from(Lo', Lo) = W - 1
      <4> DEFINE a == Lo
                 b == Lo'
      <4>1. a \in 0..(W - 1) /\ b \in 0..(W - 1) /\ W \in Nat /\ W > 1
        BY <3>4, LoFacts, IndexFacts, CapacityAssumption DEF Index
      <4>2. /\ len_from(a, b) = IF a <= b THEN b - a ELSE b - a + W
            /\ len_from(b, a) = IF b <= a THEN a - b ELSE a - b + W
        BY <3>4, LoFacts, LenFrom
      <4>3. len_from(a, b) = 1
        BY <3>4
      <4> HIDE DEF a, b
      <4>4. len_from(b, a) = W - 1
        BY <4>1, <4>2, <4>3
      <4> QED
        BY <4>4 DEF a, b
    <3>9. \A i \in Index : i \in Window' <=> i \in Window /\ i # Lo
      <4>1. TAKE i \in Index
      <4>2. CASE i = Lo
        BY <3>7, <3>8, <4>2, IndexFacts DEF Window
      <4>3. CASE i # Lo
        <5>1. 1 <= len_from(Lo, i)
          BY SMTT(30), <3>4, <3>5, <4>3, LoFacts, Injective
        <5> QED
          BY <3>5, <3>6, <3>7, <4>3, <5>1 DEF Window
      <4> QED
        BY <4>2, <4>3
    <3>10. Lo \in Window
      <4>1. Held >= 1
        BY <3>3, LoFacts DEF Held
      <4> QED
        BY <3>4, <4>1, LoFacts DEF Window
    <3>11. \A i \in Window : i # Lo => wrap(i) # s0
      <4>1. SUFFICES ASSUME NEW i \in Index, len_from(Lo, i) < Held, i # Lo
                     PROVE  wrap(i) # wrap(Lo)
        BY DEF Window
      <4>2. 0 < len_from(Lo, i)
        BY <3>4, <3>5, <4>1, LoFacts, Injective
      <4>3. len_from(Lo, i) < Size
        BY <3>5, <3>7, <4>1, CapacityAssumption
      <4> QED
        BY <4>2, <4>3, LoFacts, DistinctSlots
    <3>12. \A i : i \in Window' \/ i \in Window => i \in Index
      BY DEF Window
    <3> HIDE DEF s0
    <3>13. CASE s = s0
      BY SMTT(30), <2>1, <2>2, <3>9, <3>11, <3>12, <3>13
    <3>14. CASE s # s0
      <4>1. slots'[s] = slots[s]
        BY <2>1, <2>2, <3>14
      <4>2. wrap(Lo) # s
        BY SMTT(30), <3>14 DEF s0
      <4> QED
        BY SMTT(30), <3>2, <3>9, <3>12, <4>1, <4>2
    <3> QED
      BY <3>13, <3>14
  <2> QED
    BY <2>5, <2>6, <2>8, <2>9, <2>10 DEF TypeOK
<1>CAdvance. CASE CAdvance
  <2>1. /\ cpc = "advance" /\ cpc' = "freed"
        /\ head' = Add(head, want) /\ out' = taken /\ taken' = <<>> /\ Len(taken)' = 0
        /\ want = Len(taken)
        /\ UNCHANGED <<slots, cached_head, seenHead, cached_tail, seenTail, tail, ppc,
                       item, want>>
    BY <1>CAdvance DEF CAdvance, ring, producer, consumer, views, wakes, AtEachStep
  <2>2. head' = Lo
    BY <2>1 DEF Lo
  <2>3. /\ head' \in Index /\ Ahead(head)' = Ahead(head) + Len(taken)
        /\ Ahead(seenHead)' = Ahead(seenHead)
        /\ Ahead(cached_tail)' = Ahead(cached_tail) /\ Ahead(tail)' = Ahead(tail)
        /\ Ahead(seenTail)' = Ahead(seenTail)
    BY SMTT(30), <2>1, <2>2, LoFacts DEF Ahead
  <2>4. RingTypeOK'
    BY <1>CAdvance, <2>3 DEF CAdvance, ring, producer, consumer, views, wakes, TypeOK, RingTypeOK, ConsumerAt
  <2>5. FlagTypeOK'
    BY SMTT(30), <1>CAdvance DEF CAdvance, ring, producer, consumer, views, wakes, TypeOK, FlagTypeOK
  <2>6. IndexOrder'
    BY SMTT(30), <2>1, <2>3, Numbers DEF IndexOrder
  <2>7. AtEachStep'
    <3>1. Ahead(seenHead)' + Len(out)' <= Ahead(head)'
      BY <2>1, <2>3, Numbers DEF IndexOrder
    <3> QED
      BY SMTT(30), <2>1, <2>3, <3>1 DEF AtEachStep
  <2>8. SlotsHold'
    <3>1. Lo' = Lo
      <4>1. \A i \in Index : Add(i, 0) = i
        BY AddUp, IndexFacts DEF Index
      <4> QED
        BY <2>1, <2>2, <4>1, LoFacts DEF Lo
    <3> QED
      BY <2>1, <3>1 DEF SlotsHold, Window, Held
  <2> QED
    BY <2>4, <2>5, <2>6, <2>7, <2>8 DEF TypeOK
<1>CPark. CASE CPark
  <2>1. /\ cpc \in {"waiting", "parked"} /\ cpc' \in {"idle", "parked"}
        /\ seenTail' = NotifiedTail \/ seenTail' = seenTail
        /\ UNCHANGED <<ring, producer, want, taken, cached_tail, out, eof, seenHead, wakeP>>
    BY <1>CPark DEF CPark, wakes
  <2>2. /\ seenTail' \in Index /\ Ahead(seenTail)' \in Nat
        /\ Ahead(seenTail) <= Ahead(seenTail)' /\ Ahead(seenTail)' <= Ahead(tail)
    <3>1. CASE seenTail' = NotifiedTail
      <4>1. Ahead(seenTail)' = Ahead(NotifiedTail)
        BY SMTT(30), <2>1, <3>1 DEF producer, Ahead
      <4> QED
        BY <3>1, <4>1, NotifiedTailFacts
    <3>2. CASE seenTail' = seenTail
      <4>1. Ahead(seenTail)' = Ahead(seenTail)
        BY SMTT(30), <2>1, <3>2 DEF producer, Ahead
      <4> QED
        BY <3>2, <4>1, Numbers DEF IndexOrder
    <3> QED
      BY <2>1, <3>1, <3>2
  <2>3. RingTypeOK'
    BY <2>1, <2>2 DEF ring, producer, TypeOK, RingTypeOK, ConsumerAt
  <2>4. FlagTypeOK'
    <3>1. NotifiedClosed \in BOOLEAN
      BY DEF NotifiedClosed
    <3>2. /\ wakeC' \in BOOLEAN
          /\ seenClosed' = NotifiedClosed \/ seenClosed' = seenClosed
      BY Zenon, <1>CPark DEF CPark, ring, producer, consumer, views, wakes, TypeOK, FlagTypeOK
    <3>3. UNCHANGED <<closed, eof, wakeP>>
      BY <1>CPark DEF CPark, ring, producer, consumer, views, wakes
    <3> QED
      BY <3>1, <3>2, <3>3 DEF TypeOK, FlagTypeOK
  <2>5. /\ Ahead(head)' = Ahead(head) /\ Ahead(tail)' = Ahead(tail)
        /\ Ahead(cached_tail)' = Ahead(cached_tail)
        /\ Ahead(seenHead)' = Ahead(seenHead) /\ Len(taken)' = Len(taken)
    BY <2>1 DEF ring, producer, Ahead
  <2>6. IndexOrder'
    BY <2>2, <2>5, Numbers DEF IndexOrder
  <2>7. AtEachStep'
    <3>1. UNCHANGED <<ppc, want, taken, head, out, item>>
      BY <2>1 DEF ring, producer
    <3> QED
      BY <2>1, <2>5, <3>1 DEF AtEachStep
  <2>8. SlotsHold'
    BY <2>1, SameWindow DEF ring, producer
  <2> QED
    BY <2>3, <2>4, <2>6, <2>7, <2>8 DEF TypeOK
<1>CWake. CASE CWake
  <2>1. /\ cpc \in {"waiting", "parked"} /\ cpc' \in {"idle", "parked"}
        /\ seenTail' = NotifiedTail \/ seenTail' = seenTail
        /\ UNCHANGED <<ring, producer, want, taken, cached_tail, out, eof, seenHead, wakeP>>
    BY <1>CWake DEF CWake, wakes
  <2>2. /\ seenTail' \in Index /\ Ahead(seenTail)' \in Nat
        /\ Ahead(seenTail) <= Ahead(seenTail)' /\ Ahead(seenTail)' <= Ahead(tail)
    <3>1. CASE seenTail' = NotifiedTail
      <4>1. Ahead(seenTail)' = Ahead(NotifiedTail)
        BY SMTT(30), <2>1, <3>1 DEF producer, Ahead
      <4> QED
        BY <3>1, <4>1, NotifiedTailFacts
    <3>2. CASE seenTail' = seenTail
      <4>1. Ahead(seenTail)' = Ahead(seenTail)
        BY SMTT(30), <2>1, <3>2 DEF producer, Ahead
      <4> QED
        BY <3>2, <4>1, Numbers DEF IndexOrder
    <3> QED
      BY <2>1, <3>1, <3>2
  <2>3. RingTypeOK'
    BY <2>1, <2>2 DEF ring, producer, TypeOK, RingTypeOK, ConsumerAt
  <2>4. FlagTypeOK'
    <3>1. NotifiedClosed \in BOOLEAN
      BY DEF NotifiedClosed
    <3>2. /\ wakeC' \in BOOLEAN
          /\ seenClosed' = NotifiedClosed \/ seenClosed' = seenClosed
      BY <1>CWake DEF CWake, ring, producer, consumer, views, wakes, TypeOK, FlagTypeOK
    <3>3. UNCHANGED <<closed, eof, wakeP>>
      BY <1>CWake DEF CWake, ring, producer, consumer, views, wakes
    <3> QED
      BY <3>1, <3>2, <3>3 DEF TypeOK, FlagTypeOK
  <2>5. /\ Ahead(head)' = Ahead(head) /\ Ahead(tail)' = Ahead(tail)
        /\ Ahead(cached_tail)' = Ahead(cached_tail)
        /\ Ahead(seenHead)' = Ahead(seenHead) /\ Len(taken)' = Len(taken)
    BY <2>1 DEF ring, producer, Ahead
  <2>6. IndexOrder'
    BY <2>2, <2>5, Numbers DEF IndexOrder
  <2>7. AtEachStep'
    <3>1. UNCHANGED <<ppc, want, taken, head, out, item>>
      BY <2>1 DEF ring, producer
    <3> QED
      BY <2>1, <2>5, <3>1 DEF AtEachStep
  <2>8. SlotsHold'
    BY <2>1, SameWindow DEF ring, producer
  <2> QED
    BY <2>3, <2>4, <2>6, <2>7, <2>8 DEF TypeOK
<1>DropRing. CASE DropRing
  <2>1. RingTypeOK'
    BY <1>DropRing DEF DropRing, ring, producer, consumer, views, wakes, TypeOK, RingTypeOK, ConsumerAt
  <2>2. FlagTypeOK'
    BY <1>DropRing DEF DropRing, ring, producer, consumer, views, wakes, TypeOK, FlagTypeOK
  <2>3. IndexOrder'
    BY SMTT(30), <1>DropRing, SameOrder DEF DropRing, ring, producer, consumer, views, wakes
  <2>4. AtEachStep'
    BY <1>DropRing DEF DropRing, ring, producer, consumer, views, wakes, AtEachStep
  <2>5. SlotsHold'
    BY SMTT(30), <1>DropRing DEF DropRing, SlotsHold
  <2> QED
    BY <2>1, <2>2, <2>3, <2>4, <2>5 DEF TypeOK
<1>ShowHead. CASE ShowHead
  <2>1. RingTypeOK'
    BY <1>ShowHead DEF ShowHead, ring, producer, consumer, views, wakes, TypeOK, RingTypeOK
  <2>2. FlagTypeOK'
    BY <1>ShowHead DEF ShowHead, ring, producer, consumer, views, wakes, TypeOK, FlagTypeOK
  <2>3. /\ seenHead' = head
        /\ UNCHANGED <<ppc, item, cpc, want, out, cached_head, head, taken, cached_tail,
                       seenTail, tail>>
    BY SMTT(30), <1>ShowHead DEF ShowHead, ring, producer, consumer, views, wakes
  <2>4. IndexOrder'
    BY SMTT(30), <2>3, Numbers DEF IndexOrder, Ahead
  <2>5. AtEachStep'
    BY <2>3 DEF AtEachStep, Ahead
  <2>6. SlotsHold'
    BY SMTT(30), <1>ShowHead, SameWindow DEF ShowHead, ring, producer, consumer, views, wakes
  <2> QED
    BY <2>1, <2>2, <2>4, <2>5, <2>6 DEF TypeOK
<1>ShowTail. CASE ShowTail
  <2>1. RingTypeOK'
    BY <1>ShowTail DEF ShowTail, ring, producer, consumer, views, wakes, TypeOK, RingTypeOK
  <2>2. FlagTypeOK'
    BY <1>ShowTail DEF ShowTail, ring, producer, consumer, views, wakes, TypeOK, FlagTypeOK
  <2>3. /\ seenTail' = tail
        /\ UNCHANGED <<ppc, item, cpc, want, out, cached_head, seenHead, head, taken,
                       cached_tail, tail>>
    BY SMTT(30), <1>ShowTail DEF ShowTail, ring, producer, consumer, views, wakes
  <2>4. IndexOrder'
    <3>1. /\ Ahead(seenHead)' = Ahead(seenHead) /\ Ahead(head)' = Ahead(head)
          /\ Ahead(cached_tail)' = Ahead(cached_tail) /\ Ahead(tail)' = Ahead(tail)
          /\ Ahead(seenTail)' = Ahead(tail) /\ Len(taken)' = Len(taken)
      BY SMTT(30), <2>3 DEF Ahead
    <3> QED
      BY <3>1, Numbers DEF IndexOrder
  <2>5. AtEachStep'
    BY <2>3 DEF AtEachStep, Ahead
  <2>6. SlotsHold'
    BY <1>ShowTail, SameWindow DEF ShowTail, ring, producer, consumer, views, wakes
  <2> QED
    BY <2>1, <2>2, <2>4, <2>5, <2>6 DEF TypeOK
<1>stutter. CASE UNCHANGED vars
  <2>1. RingTypeOK' /\ FlagTypeOK'
    BY SMTT(30), <1>stutter DEF vars, ring, producer, consumer, views, wakes, TypeOK, RingTypeOK, FlagTypeOK
  <2>2. IndexOrder'
    BY SMTT(30), <1>stutter, SameOrder DEF vars, ring, producer, consumer, views, wakes
  <2>3. AtEachStep'
    BY <1>stutter DEF vars, ring, producer, consumer, views, wakes, AtEachStep, Ahead
  <2>4. SlotsHold'
    BY <1>stutter, SameWindow DEF vars, ring, producer, consumer, views, wakes
  <2> QED
    BY SMTT(30), <2>1, <2>2, <2>3, <2>4 DEF TypeOK
<1> QED
  BY SMTT(30), <1>PStart, <1>PTry, <1>PNotify, <1>PClose, <1>PCloseNotify,
     <1>PRefresh, <1>PWrite, <1>PPublish, <1>PPark, <1>PWake, <1>CFreed,
     <1>CLoadClosed, <1>CLoadTail, <1>CSpurious, <1>CDrop, <1>CPull,
     <1>CRefresh, <1>CDrain, <1>CRead, <1>CAdvance, <1>CPark, <1>CWake,
     <1>DropRing, <1>ShowHead, <1>ShowTail, <1>stutter
     DEF Next, PushStep, PullStep, Pull

\* In every state the invariant admits, the slot accesses are safe.
LEMMA IInvSlotSafety == IInv => SlotSafety
<1> SUFFICES ASSUME IInv PROVE SlotSafety
  OBVIOUS
<1>1. ppc = "write" => slots[wrap(tail)] = Uninit
  <2>1. SUFFICES ASSUME ppc = "write" PROVE slots[wrap(tail)] = Uninit
    OBVIOUS
  <2>2. \A i \in Window : wrap(i) # wrap(tail)
    <3>1. SUFFICES ASSUME NEW i \in Index, len_from(Lo, i) < len_from(Lo, tail)
                   PROVE  wrap(i) # wrap(tail)
      BY SMTT(30), <2>1, LoFacts DEF Window, Held
    <3>2. /\ Lo \in Index /\ tail \in Index /\ len_from(Lo, i) \in Nat
          /\ len_from(Lo, tail) \in Nat /\ len_from(Lo, tail) <= Capacity
      BY LoFacts, Numbers, IndexFacts
    <3>3. len_from(i, tail) = len_from(Lo, tail) - len_from(Lo, i)
      BY <3>1, <3>2, Rebase
    <3>4. 0 < len_from(i, tail) /\ len_from(i, tail) < Size
      BY SMTT(30), <3>1, <3>2, <3>3, CapacityAssumption
    <3> QED
      BY <3>2, <3>4, DistinctSlots
  <2>3. wrap(tail) \in Slots /\ cpc # "dropped"
    BY <2>1, Numbers, IndexFacts DEF IInv, AtEachStep
  <2> QED
    BY <2>2, <2>3 DEF IInv, SlotsHold
<1>2. cpc = "read" => slots[wrap(Lo)] # Uninit
  <2>1. SUFFICES ASSUME cpc = "read" PROVE slots[wrap(Lo)] # Uninit
    OBVIOUS
  <2>2. 0 < len_from(Lo, tail)
    <3>1. Ahead(head) + Len(taken) < Ahead(tail)
      BY SMTT(30), <2>1, Numbers DEF IInv, AtEachStep, IndexOrder
    <3> QED
      BY SMTT(30), <3>1, LoFacts, Numbers
  <2>3. len_from(Lo, Lo) = 0
    BY SMTT(30), LoFacts, LenFrom, IndexFacts DEF Index
  <2>4. Lo \in Window
    BY <2>2, <2>3, LoFacts DEF Window, Held
  <2>5. wrap(Lo) \in Slots
    BY LoFacts, IndexFacts
  <2> QED
    BY <2>1, <2>4, <2>5 DEF IInv, SlotsHold
<1> QED
  BY <1>1, <1>2 DEF SlotSafety, Lo

\* spsc.rs: the index order and the slot contents hold in every reachable state.
THEOREM Inductive == Spec => []IInv
BY InitIInv, NextIInv, PTL DEF Spec

\* spsc.rs: every variable keeps its type; the indices stay in the index type.
THEOREM TypeCorrect == Spec => []TypeOK
<1>1. IInv => TypeOK
  BY DEF IInv
<1> QED
  BY <1>1, Inductive, PTL

\* spsc.rs, the unsafe slot accesses of push, pull and drain_into: for every
\* capacity, ring size and index width, no envelope is overwritten, no slot is
\* read uninitialized, and the two sides never touch the same slot.
THEOREM SlotsAreSafe == Spec => []SlotSafety
BY Inductive, IInvSlotSafety, PTL

--------------------------------------------------------------------------------
\* How the end of the stream is told: what the consumer's two loads show, what
\* the producer still does after close, and what is left when both ends are gone.
Written == ppc = "publish" => item \in Items /\ slots[wrap(tail)] = item
ClosedOnce == closed <=> ppc \in {"closing", "done"}
EndIsSeenLast == seenClosed => closed /\ seenTail = tail
EndFollows ==
    /\ cpc = "ending" => seenClosed
    /\ eof => cpc \in {"done", "gone", "dropped"}
AllDropped == cpc = "dropped" => \A s \in Slots : slots[s] = Uninit

EndOrder == Written /\ ClosedOnce /\ EndIsSeenLast /\ EndFollows /\ AllDropped
RingInv == IInv /\ EndOrder

\* The index k places behind head, and the slots it does not share.
LEMMA FromHead ==
    ASSUME IInv, NEW k \in Nat, k <= len_from(head, tail)
    PROVE  /\ len_from(head, tail) = Ahead(tail) - Ahead(head)
           /\ len_from(head, tail) \in 0..Capacity
           /\ Len(taken) <= len_from(head, tail)
           /\ Add(head, k) \in Index
           /\ len_from(head, Add(head, k)) = k
<1>1. Ahead(head) + Len(taken) <= Ahead(tail) /\ Ahead(tail) <= Capacity
  BY Numbers, CapacityAssumption DEF IInv, IndexOrder
<1>2. /\ Ahead(head) \in Nat /\ Ahead(tail) \in Nat /\ Len(taken) \in Nat
      /\ head \in Index /\ tail \in Index /\ cached_head \in Index
  BY Numbers
<1>3. len_from(head, tail) = Ahead(tail) - Ahead(head)
  BY <1>1, <1>2, Rebase DEF Ahead
<1>4. len_from(head, tail) \in 0..Capacity /\ Len(taken) <= len_from(head, tail)
  BY <1>1, <1>2, <1>3, CapacityAssumption
<1>5. len_from(head, head) = 0
  BY <1>2, LenFrom DEF Index
<1>6. len_from(head, head) + k < W
  BY <1>4, <1>5, IndexFacts
<1>7. Add(head, k) \in Index /\ len_from(head, Add(head, k)) = len_from(head, head) + k
  BY <1>2, <1>6, Forward
<1> QED BY <1>3, <1>4, <1>5, <1>7

\* Places behind head up to tail are slots of their own.
LEMMA Apart ==
    ASSUME IInv, NEW j \in Nat, NEW k \in Nat, j < k, k <= len_from(head, tail)
    PROVE  wrap(Add(head, j)) # wrap(Add(head, k))
<1>1. /\ Add(head, j) \in Index /\ len_from(head, Add(head, j)) = j
      /\ len_from(head, tail) \in 0..Capacity
  BY FromHead
<1>2. Add(head, k) \in Index /\ len_from(head, Add(head, k)) = k
  BY FromHead
<1>3. len_from(Add(head, j), Add(head, k)) = k - j
  BY <1>1, <1>2, Numbers, Rebase
<1>4. 0 < k - j /\ k - j < Size
  BY <1>1, CapacityAssumption
<1> QED BY <1>1, <1>2, <1>3, <1>4, DistinctSlots

\* An index between head and tail is that many places behind head.
LEMMA PlaceOf ==
    ASSUME IInv, NEW i \in Index, len_from(head, i) <= len_from(head, tail)
    PROVE  len_from(head, i) \in Nat /\ Add(head, len_from(head, i)) = i
<1>1. len_from(head, i) \in Nat
  BY Numbers, IndexFacts
<1>2. /\ Add(head, len_from(head, i)) \in Index
      /\ len_from(head, Add(head, len_from(head, i))) = len_from(head, i)
  BY <1>1, FromHead
<1> QED BY <1>1, <1>2, Numbers, Injective

\* The queue the ring stands for, place by place.
QueueShape ==
    /\ Queue \in Seq(Items \cup {Uninit})
    /\ cpc = "dropped" => Queue = <<>>
    /\ cpc # "dropped" => Len(Queue) = len_from(head, tail)
    /\ Len(Queue) \in Nat /\ Len(Queue) <= len_from(head, tail)
    /\ \A i \in 1..Len(Queue) :
          Queue[i] = IF i <= Len(taken) THEN taken[i] ELSE slots[wrap(Add(head, i - 1))]

\* Queue, the mapping of the ring to the abstract edge, has this shape.
LEMMA QueueIs == IInv => QueueShape
<1> SUFFICES ASSUME IInv PROVE QueueShape
  OBVIOUS
<1> DEFINE S == Items \cup {Uninit}
           left == IF cpc = "dropped" THEN 0 ELSE len_from(head, tail) - Len(taken)
           rest == [i \in 1..left |-> slots[wrap(Add(head, Len(taken) + i - 1))]]
<1>1. /\ taken \in Seq(S) /\ slots \in [Slots -> S] /\ Len(taken) \in Nat
      /\ cpc = "dropped" => taken = <<>> /\ Len(taken) = 0
  BY DEF IInv, TypeOK, RingTypeOK, AtEachStep
<1>2. len_from(head, tail) \in Nat /\ Len(taken) <= len_from(head, tail)
  <2>1. 0 \in Nat /\ 0 <= len_from(head, tail)
    BY Numbers, IndexFacts
  <2> QED BY <2>1, FromHead
<1>3. left \in Nat /\ Len(taken) + left <= len_from(head, tail)
  BY <1>1, <1>2
<1>4. \A i \in 1..left : slots[wrap(Add(head, Len(taken) + i - 1))] \in S
  <2> SUFFICES ASSUME NEW i \in 1..left PROVE slots[wrap(Add(head, Len(taken) + i - 1))] \in S
    OBVIOUS
  <2>1. Len(taken) + i - 1 \in Nat /\ Len(taken) + i - 1 <= len_from(head, tail)
    BY <1>1, <1>2, <1>3
  <2>2. Add(head, Len(taken) + i - 1) \in Index
    BY <2>1, FromHead
  <2> QED BY <1>1, <2>2, IndexFacts
<1> HIDE DEF left
<1>5. rest \in Seq(S) /\ Len(rest) = left
  BY <1>3, <1>4
<1>6. Queue = taken \o rest
  BY DEF Queue, left
<1> HIDE DEF rest, S
<1>7. /\ Queue \in Seq(S) /\ Len(Queue) = Len(taken) + left
      /\ \A i \in 1..(Len(taken) + left) :
            Queue[i] = IF i <= Len(taken) THEN taken[i] ELSE rest[i - Len(taken)]
  <2>1. taken \in Seq(S) /\ rest \in Seq(S)
    BY <1>1, <1>5
  <2>2. /\ taken \o rest \in Seq(S) /\ Len(taken \o rest) = Len(taken) + Len(rest)
        /\ \A i \in 1..(Len(taken) + Len(rest)) :
              (taken \o rest)[i] = IF i <= Len(taken) THEN taken[i] ELSE rest[i - Len(taken)]
    BY <2>1, ConcatProperties, Zenon
  <2> QED BY <1>5, <1>6, <2>2, Zenon
<1>8. ASSUME NEW i \in 1..(Len(taken) + left), ~(i <= Len(taken))
      PROVE  rest[i - Len(taken)] = slots[wrap(Add(head, i - 1))]
  <2>1. i - Len(taken) \in 1..left /\ Len(taken) + (i - Len(taken)) - 1 = i - 1
    BY <1>1, <1>3, <1>8
  <2> QED BY <2>1 DEF rest
<1>9. cpc = "dropped" => Queue = <<>>
  <2>1. cpc = "dropped" => Len(Queue) = 0
    BY <1>1, <1>7 DEF left
  <2> QED BY <1>7, <2>1, EmptySeq
<1>10. cpc # "dropped" => Len(Queue) = len_from(head, tail)
  BY <1>1, <1>2, <1>7 DEF left
<1>11. Len(Queue) \in Nat /\ Len(Queue) <= len_from(head, tail)
  BY <1>1, <1>3, <1>7
<1> QED BY <1>7, <1>8, <1>9, <1>10, <1>11 DEF S, QueueShape

\* So it has after a step of the ring.
LEMMA QueueIsNext == IInv' => QueueShape'
BY QueueIs, PTL

\* The initial ring has nobody at its end.
LEMMA InitEndOrder == Init => EndOrder
BY DEF Init, EndOrder, Written, ClosedOnce, EndIsSeenLast, EndFollows, AllDropped

\* What has yet to be published or read lies in a slot of its own.
LEMMA TailIsApart ==
    ASSUME IInv
    PROVE  /\ tail = Add(head, len_from(head, tail)) /\ len_from(head, tail) \in Nat
           /\ wrap(tail) \in Slots
           /\ \A k \in Nat : k < len_from(head, tail) => wrap(Add(head, k)) # wrap(tail)
           /\ cpc = "read" => Len(taken) < len_from(head, tail)
<1>1. len_from(head, tail) \in Nat
  BY Numbers, IndexFacts
<1>2. tail = Add(head, len_from(head, tail))
  BY <1>1, Numbers, PlaceOf
<1>3. wrap(tail) \in Slots
  BY Numbers, IndexFacts
<1>4. ASSUME NEW k \in Nat, k < len_from(head, tail)
      PROVE  wrap(Add(head, k)) # wrap(tail)
  BY <1>1, <1>2, <1>4, Apart
<1>5. cpc = "read" => Len(taken) < len_from(head, tail)
  <2>1. len_from(head, tail) = Ahead(tail) - Ahead(head)
    BY <1>1, FromHead
  <2>2. cpc = "read" => Ahead(head) + Len(taken) < Ahead(tail)
    BY Numbers DEF IInv, AtEachStep, IndexOrder
  <2> QED BY <2>1, <2>2, Numbers
<1> QED BY <1>1, <1>2, <1>3, <1>4, <1>5

\* What Drop for RingBuffer drops is all there is.
LEMMA DropIsExact ==
    ASSUME IInv, cpc = "gone", ppc = "done"
    PROVE  \A s \in Slots : s \in Occupied <=> slots[s] # Uninit
<1>1. taken = <<>> /\ Len(taken) = 0
  BY DEF IInv, AtEachStep
<1>2. Lo = head
  <2>1. \A i \in Index : Add(i, 0) = i
    BY AddUp, IndexFacts DEF Index
  <2> QED BY <1>1, <2>1, Numbers DEF Lo
<1>3. Held = len_from(head, tail)
  BY <1>2, TailIsApart DEF Held
<1>4. /\ \A i \in Index : i \in Window <=> len_from(head, i) < len_from(head, tail)
      /\ Window \subseteq Index
  BY <1>2, <1>3 DEF Window
<1>5. len_from(head, tail) \in 0..Capacity
  BY TailIsApart, FromHead
<1>6. ASSUME NEW i \in Window
      PROVE  wrap(i) \in Occupied
  <2>1. i \in Index /\ len_from(head, i) \in Nat /\ len_from(head, i) < len_from(head, tail)
    BY <1>4, Numbers, IndexFacts
  <2>2. len_from(head, i) \in 0..(Size - 1)
    BY <1>5, <2>1, CapacityAssumption
  <2>3. Add(head, len_from(head, i)) = i
    BY <1>5, <2>1, PlaceOf
  <2> QED BY <2>1, <2>2, <2>3 DEF Occupied
<1>7. ASSUME NEW s \in Occupied
      PROVE  \E i \in Window : wrap(i) = s
  <2> PICK j \in 0..(Size - 1) : j < len_from(head, tail) /\ s = wrap(Add(head, j))
    BY DEF Occupied
  <2>1. Add(head, j) \in Index /\ len_from(head, Add(head, j)) = j
    BY <1>5, FromHead
  <2> QED BY <1>4, <2>1
<1>8. \A s \in Slots : slots[s] # Uninit <=> \E i \in Window : wrap(i) = s
  BY DEF IInv, SlotsHold
<1> QED BY <1>6, <1>7, <1>8

\* Most steps leave the queue alone: they move a side from one test to the next,
\* or show it what the other side stored.
Ended == {"done", "gone", "dropped"}
Still ==
    /\ UNCHANGED <<slots, head, tail, taken, closed, out, eof>>
    /\ ppc' = "publish" => ppc = "publish" /\ item' = item
    /\ ppc' \in {"closing", "done"} <=> ppc \in {"closing", "done"}
    /\ seenClosed => seenClosed'
    /\ seenClosed' => (seenClosed /\ seenTail' = seenTail) \/ (closed /\ seenTail' = tail)
    /\ cpc' = "ending" => cpc = "ending" \/ seenClosed
    /\ cpc' = "dropped" <=> cpc = "dropped"
    /\ cpc \in Ended => cpc' \in Ended

\* The steps that are still.
LEMMA StillSteps ==
    ASSUME TypeOK, EndOrder,
           \/ \E v \in Items : PStart(v)
           \/ PTry \/ PRefresh \/ PNotify \/ PPark \/ PWake \/ PCloseNotify
           \/ CPull \/ CDrain \/ CRefresh \/ CFreed \/ CPark \/ CWake
           \/ CLoadClosed \/ CSpurious \/ CDrop \/ ShowHead \/ ShowTail \/ UNCHANGED vars
    PROVE  Still
<1> USE DEF ring, producer, consumer, views, wakes, Still, Ended
<1>1. /\ closed \in BOOLEAN /\ seenClosed \in BOOLEAN
      /\ seenClosed => closed /\ seenTail = tail
      /\ closed <=> ppc \in {"closing", "done"}
  BY DEF TypeOK, FlagTypeOK, EndOrder, EndIsSeenLast, ClosedOnce
<1>PStart. CASE \E v \in Items : PStart(v)
  BY <1>1, <1>PStart DEF PStart
<1>PTry. CASE PTry
  BY <1>1, <1>PTry DEF PTry
<1>PRefresh. CASE PRefresh
  BY <1>1, <1>PRefresh DEF PRefresh
<1>PNotify. CASE PNotify
  BY <1>1, <1>PNotify DEF PNotify
<1>PPark. CASE PPark
  BY <1>1, <1>PPark DEF PPark
<1>PWake. CASE PWake
  BY <1>1, <1>PWake DEF PWake
<1>PCloseNotify. CASE PCloseNotify
  BY <1>1, <1>PCloseNotify DEF PCloseNotify
<1>CPull. CASE CPull
  BY <1>1, <1>CPull DEF CPull
<1>CRefresh. CASE CRefresh
  BY <1>1, <1>CRefresh DEF CRefresh
<1>CDrain. CASE CDrain
  BY <1>1, <1>CDrain DEF CDrain
<1>CFreed. CASE CFreed
  BY <1>1, <1>CFreed DEF CFreed
<1>CLoadClosed. CASE CLoadClosed
  BY <1>1, <1>CLoadClosed DEF CLoadClosed
<1>CPark. CASE CPark
  BY <1>1, <1>CPark DEF CPark, NotifiedTail, NotifiedClosed
<1>CWake. CASE CWake
  BY <1>1, <1>CWake DEF CWake, NotifiedTail, NotifiedClosed
<1>CSpurious. CASE CSpurious
  BY <1>1, <1>CSpurious DEF CSpurious
<1>CDrop. CASE CDrop
  BY <1>1, <1>CDrop DEF CDrop
<1>ShowHead. CASE ShowHead
  BY <1>1, <1>ShowHead DEF ShowHead
<1>ShowTail. CASE ShowTail
  BY <1>1, <1>ShowTail DEF ShowTail
<1>stutter. CASE UNCHANGED vars
  BY <1>1, <1>stutter DEF vars
<1> QED
  BY <1>PStart, <1>PTry, <1>PRefresh, <1>PNotify, <1>PPark, <1>PWake, <1>PCloseNotify,
     <1>CPull, <1>CRefresh, <1>CDrain, <1>CFreed, <1>CLoadClosed, <1>CPark, <1>CWake, <1>CSpurious, <1>CDrop,
     <1>ShowHead, <1>ShowTail, <1>stutter, Zenon

\* A still step keeps the order of the end and the queue.
LEMMA StillKeeps ==
    ASSUME EndOrder, Still
    PROVE  EndOrder' /\ UNCHANGED Fifo!fifoVars
<1>1. Written' /\ ClosedOnce' /\ EndIsSeenLast' /\ EndFollows' /\ AllDropped'
  <2>1. Written'
    BY DEF Still, EndOrder, Written
  <2>2. ClosedOnce'
    BY DEF Still, EndOrder, ClosedOnce
  <2>3. EndIsSeenLast'
    BY DEF Still, EndOrder, EndIsSeenLast
  <2>4. EndFollows'
    BY DEF Still, EndOrder, EndFollows, Ended
  <2>5. AllDropped'
    BY DEF Still, EndOrder, AllDropped
  <2> QED BY <2>1, <2>2, <2>3, <2>4, <2>5
<1>2. Queue' = Queue
  BY Zenon DEF Still, Queue
<1>3. UNCHANGED <<closed, out, eof>>
  BY DEF Still
<1> QED BY <1>1, <1>2, <1>3 DEF EndOrder, Fifo!fifoVars

\* push writes a slot outside the queue.
LEMMA WriteStep ==
    ASSUME IInv, EndOrder, IInv', PWrite
    PROVE  EndOrder' /\ UNCHANGED Fifo!fifoVars
<1>1. /\ UNCHANGED <<head, tail, taken, cpc, closed, out, eof, item, seenTail, seenClosed>>
      /\ slots' = [slots EXCEPT ![wrap(tail)] = item]
      /\ ppc = "write" /\ ppc' = "publish"
  BY DEF PWrite, consumer, views
<1>2. slots \in [Slots -> Items \cup {Uninit}] /\ item \in Items /\ cpc # "dropped"
  BY <1>1 DEF IInv, TypeOK, RingTypeOK, AtEachStep
<1>3. EndOrder'
  BY <1>1, <1>2, TailIsApart DEF EndOrder, Written, ClosedOnce, EndIsSeenLast, EndFollows, AllDropped
<1>4. QueueShape /\ QueueShape'
  BY QueueIs, QueueIsNext
<1>5. /\ Queue \in Seq(Items \cup {Uninit}) /\ Queue' \in Seq(Items \cup {Uninit})
      /\ Len(Queue) = len_from(head, tail) /\ Len(Queue') = len_from(head, tail)
      /\ len_from(head, tail) \in Nat
  BY <1>1, <1>2, <1>4, TailIsApart, SMTT(20) DEF QueueShape
<1>6. ASSUME NEW i \in 1..Len(Queue)
      PROVE  Queue'[i] = Queue[i]
  <2>1. /\ Queue[i] = IF i <= Len(taken) THEN taken[i] ELSE slots[wrap(Add(head, i - 1))]
        /\ Queue'[i] = IF i <= Len(taken) THEN taken[i] ELSE slots'[wrap(Add(head, i - 1))]
    BY <1>1, <1>4, <1>5 DEF QueueShape
  <2>2. i - 1 \in Nat /\ i - 1 < len_from(head, tail)
    BY <1>5
  <2>3. wrap(Add(head, i - 1)) # wrap(tail) /\ wrap(Add(head, i - 1)) \in Slots
    BY <2>2, TailIsApart, FromHead, IndexFacts
  <2>4. slots'[wrap(Add(head, i - 1))] = slots[wrap(Add(head, i - 1))]
    BY <1>1, <1>2, <2>3
  <2> QED BY <2>1, <2>4
<1>7. Queue' = Queue
  BY <1>5, <1>6, SeqEqual
<1> QED BY <1>1, <1>3, <1>7 DEF Fifo!fifoVars

\* A pull moves the next place of the queue out of its slot.
LEMMA ReadStep ==
    ASSUME IInv, EndOrder, IInv', CRead
    PROVE  EndOrder' /\ UNCHANGED Fifo!fifoVars
<1> DEFINE n == Len(taken)
           s == wrap(Add(head, n))
<1>1. /\ UNCHANGED <<head, tail, ppc, closed, out, eof, item, seenTail, seenClosed>>
      /\ taken' = Append(taken, slots[s])
      /\ slots' = [slots EXCEPT ![s] = Uninit]
      /\ cpc = "read" /\ cpc' \in {"read", "advance"}
  BY DEF CRead, producer, views
<1>2. /\ slots \in [Slots -> Items \cup {Uninit}] /\ taken \in Seq(Items \cup {Uninit})
      /\ n \in Nat
  BY DEF IInv, TypeOK, RingTypeOK
<1>3. n < len_from(head, tail) /\ s # wrap(tail) /\ s \in Slots /\ wrap(tail) \in Slots
  BY <1>1, <1>2, TailIsApart, FromHead, IndexFacts
<1>4. EndOrder'
  <2>1. slots'[wrap(tail)] = slots[wrap(tail)]
    BY <1>1, <1>2, <1>3
  <2> QED
    BY <1>1, <2>1, SMTT(20) DEF EndOrder, Written, ClosedOnce, EndIsSeenLast, EndFollows, AllDropped
<1>5. QueueShape /\ QueueShape'
  BY QueueIs, QueueIsNext
<1>6. /\ Queue \in Seq(Items \cup {Uninit}) /\ Queue' \in Seq(Items \cup {Uninit})
      /\ Len(Queue) = len_from(head, tail) /\ Len(Queue') = len_from(head, tail)
      /\ len_from(head, tail) \in Nat
  <2>1. head' = head /\ tail' = tail /\ cpc # "dropped" /\ cpc' # "dropped"
    BY <1>1
  <2>2. len_from(head, tail) \in Nat
    BY TailIsApart
  <2> QED BY <1>5, <2>1, <2>2, SMTT(20) DEF QueueShape
<1>7. /\ Len(taken') = n + 1 /\ taken'[n + 1] = slots[s]
      /\ \A i \in 1..n : taken'[i] = taken[i]
  BY <1>1, <1>2, SMTT(20)
<1>8. ASSUME NEW i \in 1..Len(Queue)
      PROVE  Queue'[i] = Queue[i]
  <2>1. /\ Queue[i] = IF i <= n THEN taken[i] ELSE slots[wrap(Add(head, i - 1))]
        /\ Queue'[i] = IF i <= n + 1 THEN taken'[i] ELSE slots'[wrap(Add(head, i - 1))]
    BY <1>1, <1>5, <1>6, <1>7 DEF QueueShape
  <2>2. i \in Nat /\ 1 <= i /\ i <= len_from(head, tail)
    BY <1>6
  <2> HIDE DEF s
  <2>3. CASE i <= n
    <3>1. i \in 1..n /\ i <= n + 1
      BY <1>2, <2>2, <2>3
    <3>2. taken'[i] = taken[i]
      BY <1>7, <3>1
    <3> HIDE DEF n
    <3> QED BY <2>1, <2>3, <3>1, <3>2
  <2>4. CASE i = n + 1
    <3>1. i - 1 = n /\ ~(i <= n)
      BY <1>2, <2>4
    <3>2. i <= n + 1 /\ taken'[i] = slots[wrap(Add(head, i - 1))]
      BY <1>2, <1>7, <2>4, <3>1 DEF s
    <3> HIDE DEF n
    <3> QED BY <2>1, <3>1, <3>2, Zenon
  <2>5. CASE i > n + 1
    <3>1. i - 1 \in Nat /\ n < i - 1 /\ i - 1 <= len_from(head, tail)
      BY <1>2, <1>6, <2>2, <2>5
    <3>2. wrap(Add(head, i - 1)) # s
      BY <1>2, <3>1, Apart DEF s
    <3>3. wrap(Add(head, i - 1)) \in Slots
      BY <3>1, FromHead, IndexFacts
    <3>4. slots'[wrap(Add(head, i - 1))] = slots[wrap(Add(head, i - 1))]
      BY <1>1, <1>2, <3>2, <3>3
    <3>5. ~(i <= n) /\ ~(i <= n + 1)
      BY <1>2, <2>2, <2>5
    <3> HIDE DEF n
    <3> QED BY <2>1, <3>4, <3>5
  <2> QED BY <1>2, <2>2, <2>3, <2>4, <2>5
<1>9. Queue' = Queue
  BY <1>6, <1>8, SeqEqual
<1> QED BY <1>1, <1>4, <1>9 DEF Fifo!fifoVars

\* push publishes what it wrote: the queue grows by it at its end.
LEMMA PublishStep ==
    ASSUME IInv, EndOrder, IInv', PPublish
    PROVE  EndOrder' /\ Fifo!FifoNext
<1> DEFINE n == len_from(head, tail)
<1>1. /\ UNCHANGED <<slots, head, taken, cpc, closed, out, eof, item, seenTail, seenClosed>>
      /\ ppc = "publish" /\ ppc' = "notify" /\ tail' = Add(tail, 1)
  BY DEF PPublish, consumer, views
<1>2. /\ item \in Items /\ slots[wrap(tail)] = item /\ cpc # "dropped" /\ ~closed /\ ~seenClosed
  BY <1>1 DEF IInv, AtEachStep, EndOrder, Written, ClosedOnce, EndIsSeenLast
<1>3. EndOrder'
  BY <1>1, <1>2 DEF EndOrder, Written, ClosedOnce, EndIsSeenLast, EndFollows, AllDropped
<1>4. n \in Nat /\ tail = Add(head, n) /\ n < Capacity
  <2>1. Ahead(tail) < Capacity
    BY <1>1 DEF IInv, AtEachStep
  <2>2. n \in Nat /\ n = Ahead(tail) - Ahead(head) /\ tail = Add(head, n)
    BY TailIsApart, FromHead
  <2> QED BY <2>1, <2>2, Numbers, CapacityAssumption
<1>5. len_from(head, tail') = n + 1
  <2>1. len_from(head, tail) + 1 < W
    BY <1>4, IndexFacts
  <2> QED BY <1>1, <2>1, Numbers, Forward
<1>6. QueueShape /\ QueueShape'
  BY QueueIs, QueueIsNext
<1>7. /\ Queue \in Seq(Items \cup {Uninit}) /\ Queue' \in Seq(Items \cup {Uninit})
      /\ Len(Queue) = n /\ Len(Queue') = n + 1
  BY <1>1, <1>2, <1>5, <1>6 DEF QueueShape
<1>8. Len(taken) \in Nat /\ Len(taken) <= n
  BY <1>4, Numbers, FromHead
<1>9. ASSUME NEW i \in 1..(n + 1)
      PROVE  Queue'[i] = Append(Queue, item)[i]
  <2>0. i \in 1..n \/ i = n + 1
    BY <1>4
  <2> HIDE DEF n
  <2>1. Queue'[i] = IF i <= Len(taken) THEN taken[i] ELSE slots[wrap(Add(head, i - 1))]
    BY <1>1, <1>6, <1>7 DEF QueueShape
  <2>2. CASE i \in 1..n
    <3>1. Queue[i] = IF i <= Len(taken) THEN taken[i] ELSE slots[wrap(Add(head, i - 1))]
      BY <1>6, <1>7, <2>2 DEF QueueShape
    <3>2. Append(Queue, item)[i] = Queue[i]
      BY <1>4, <1>7, <2>2
    <3> QED BY <2>1, <3>1, <3>2
  <2>3. CASE i = n + 1
    <3>1. i - 1 = n /\ ~(i <= Len(taken))
      BY <1>4, <1>8, <2>3
    <3>2. Append(Queue, item)[i] = item
      BY <1>4, <1>7, <2>3
    <3>3. Add(head, i - 1) = tail
      BY <1>4, <3>1
    <3>4. Queue'[i] = slots[wrap(Add(head, i - 1))]
      BY <2>1, <3>1
    <3> QED BY <1>2, <3>2, <3>3, <3>4
  <2> QED BY <2>0, <2>2, <2>3, Zenon
<1> HIDE DEF n
<1>10. Queue' = Append(Queue, item)
  <2>1. Append(Queue, item) \in Seq(Items \cup {Uninit}) /\ Len(Append(Queue, item)) = n + 1
    BY <1>2, <1>7
  <2> QED BY <1>7, <1>9, <2>1, SeqEqual
<1>11. Fifo!FifoPush(item)
  BY <1>1, <1>2, <1>4, <1>7, <1>10 DEF Fifo!FifoPush
<1> QED BY <1>2, <1>3, <1>11 DEF Fifo!FifoNext

\* A pull or a drain hands over what it moved out: the first places of the queue.
LEMMA AdvanceStep ==
    ASSUME IInv, EndOrder, IInv', CAdvance
    PROVE  EndOrder' /\ Fifo!FifoNext
<1> DEFINE n == len_from(head, tail)
           k == Len(taken)
<1>1. /\ UNCHANGED <<slots, tail, ppc, closed, eof, item, seenTail, seenClosed>>
      /\ cpc = "advance" /\ cpc' = "freed" /\ head' = Add(head, want)
      /\ out' = taken /\ taken' = <<>> /\ Len(taken') = 0
  BY DEF CAdvance, producer, views
<1>2. EndOrder'
  BY <1>1, SMTT(20) DEF EndOrder, Written, ClosedOnce, EndIsSeenLast, EndFollows, AllDropped
<1>3. want = k /\ k > 0 /\ k \in Nat /\ taken \in Seq(Items \cup {Uninit})
  BY <1>1, Numbers DEF IInv, AtEachStep, TypeOK, RingTypeOK
<1>4. n \in Nat /\ k <= n /\ n <= Capacity
  BY <1>3, TailIsApart, FromHead, CapacityAssumption
<1>5. head' \in Index /\ len_from(head, head') = k
  BY <1>1, <1>3, <1>4, FromHead
<1>6. len_from(head', tail) = n - k
  BY <1>4, <1>5, Numbers, Rebase
<1>7. QueueShape /\ QueueShape'
  BY QueueIs, QueueIsNext
<1>8. /\ Queue \in Seq(Items \cup {Uninit}) /\ Queue' \in Seq(Items \cup {Uninit})
      /\ Len(Queue) = n /\ Len(Queue') = n - k
  BY <1>1, <1>6, <1>7 DEF QueueShape
<1>15. \A j \in 1..n : Queue[j] = IF j <= k THEN taken[j] ELSE slots[wrap(Add(head, j - 1))]
  <2>1. \A j \in 1..Len(Queue) :
           Queue[j] = IF j <= Len(taken) THEN taken[j] ELSE slots[wrap(Add(head, j - 1))]
    BY <1>7, Zenon DEF QueueShape
  <2>2. Len(Queue) = n
    BY <1>8, Zenon
  <2> QED BY <2>1, <2>2, Zenon DEF k
<1>9. ASSUME NEW i \in 1..(n - k)
      PROVE  Queue'[i] = Queue[k + i]
  <2> HIDE DEF n, k
  <2>1. i \in Nat /\ i - 1 \in Nat /\ ~(i <= 0) /\ k + i \in 1..n /\ ~(k + i <= k)
        /\ k + i - 1 \in Nat /\ k + i - 1 <= n /\ k + i - 1 = k + (i - 1)
    BY <1>3, <1>4
  <2>2. Queue'[i] = slots[wrap(Add(head', i - 1))]
    BY <1>1, <1>7, <1>8, <2>1 DEF QueueShape
  <2>3. Queue[k + i] = slots[wrap(Add(head, k + i - 1))]
    <3>1. Queue[k + i] = IF k + i <= k THEN taken[k + i] ELSE slots[wrap(Add(head, (k + i) - 1))]
      BY <1>15, <2>1, Zenon
    <3> QED BY <1>3, <2>1, <3>1
  <2>4. /\ Add(head', i - 1) \in Index
        /\ len_from(head, Add(head', i - 1)) = k + (i - 1)
    <3>1. len_from(head, head') + (i - 1) < W
      BY <1>3, <1>4, <1>5, IndexFacts, <2>1
    <3> QED BY <1>5, <2>1, <3>1, Numbers, Forward
  <2>5. Add(head, k + i - 1) \in Index /\ len_from(head, Add(head, k + i - 1)) = k + i - 1
    BY <2>1, FromHead DEF n
  <2>6. Add(head', i - 1) = Add(head, k + i - 1)
    BY <2>1, <2>4, <2>5, Numbers, Injective
  <2> HIDE DEF k
  <2> QED BY <2>2, <2>3, <2>6, SMTT(20)
<1>10. ASSUME NEW i \in 1..k
       PROVE  taken[i] = Queue[i]
  <2> HIDE DEF n, k
  <2>1. i \in 1..n /\ i <= k
    BY <1>3, <1>4
  <2>2. Queue[i] = IF i <= k THEN taken[i] ELSE slots[wrap(Add(head, i - 1))]
    BY <1>15, <2>1, Zenon
  <2> QED BY <2>1, <2>2
<1> HIDE DEF n, k
<1>11. \A i \in 1..n : Queue[i] \in Items \cup {Uninit}
  BY <1>8
<1>12. out' = SubSeq(Queue, 1, k)
  <2>1. \A i \in 1..k : Queue[i] \in Items \cup {Uninit}
    BY <1>3, <1>4, <1>11
  <2>2. /\ SubSeq(Queue, 1, k) \in Seq(Items \cup {Uninit}) /\ Len(SubSeq(Queue, 1, k)) = k
        /\ \A i \in 1..k : SubSeq(Queue, 1, k)[i] = Queue[i]
    BY <1>3, <1>4, <1>8, <2>1, SMTT(20)
  <2>3. Len(taken) = k
    BY DEF k
  <2>4. taken = SubSeq(Queue, 1, k)
    BY <1>3, <1>10, <2>2, <2>3, SeqEqual
  <2> QED BY <1>1, <2>4
<1>13. Queue' = SubSeq(Queue, k + 1, Len(Queue))
  <2>1. /\ SubSeq(Queue, k + 1, n) \in Seq(Items \cup {Uninit})
        /\ Len(SubSeq(Queue, k + 1, n)) = n - k
        /\ \A i \in 1..(n - k) : SubSeq(Queue, k + 1, n)[i] = Queue[k + i]
    BY <1>3, <1>4, <1>8, <1>11
  <2>2. Queue' = SubSeq(Queue, k + 1, n)
    BY <1>8, <1>9, <2>1, SeqEqual, Zenon
  <2> QED BY <1>8, <2>2
<1>14. Fifo!FifoTake(k) /\ k \in 1..Len(Queue)
  <2>1. k \in 1..Len(Queue)
    BY <1>3, <1>4, <1>8
  <2> QED BY <1>1, <1>12, <1>13, <2>1 DEF Fifo!FifoTake
<1> QED BY <1>2, <1>14 DEF Fifo!FifoNext

\* close, the end as is_exhausted sees it, and the drop of what is left.
LEMMA EndSteps ==
    ASSUME IInv, EndOrder, IInv', PClose \/ CLoadTail \/ DropRing
    PROVE  EndOrder' /\ (Fifo!FifoNext \/ UNCHANGED Fifo!fifoVars)
<1> USE DEF EndOrder, Written, ClosedOnce, EndIsSeenLast, EndFollows, AllDropped
<1>1. CASE PClose
  <2>1. /\ UNCHANGED <<slots, head, tail, taken, cpc, out, eof, seenTail, seenClosed>>
        /\ closed' = TRUE /\ ~closed /\ ppc' = "closing"
    BY <1>1 DEF PClose, consumer, views
  <2>2. EndOrder'
    BY <2>1
  <2>3. Queue' = Queue
    BY <2>1 DEF Queue
  <2>4. Fifo!FifoClose
    BY <2>1, <2>3 DEF Fifo!FifoClose
  <2> QED BY <2>2, <2>4 DEF Fifo!FifoNext
<1>2. CASE CLoadTail
  <2>1. /\ UNCHANGED <<slots, head, tail, taken, ppc, item, closed, out, seenTail, seenClosed>>
        /\ cpc = "ending" /\ eof' = (head = seenTail)
        /\ cpc' = IF head = seenTail THEN "done" ELSE "idle"
    BY <1>2 DEF CLoadTail, ring, producer, views
  <2>2. closed /\ seenTail = tail /\ seenClosed /\ ~eof
    BY <2>1
  <2>3. EndOrder'
    BY <2>1, <2>2, Zenon
  <2>4. Queue' = Queue
    BY <2>1, Zenon DEF Queue
  <2>5. CASE head = seenTail
    <3>1. Len(Queue) = 0 /\ Queue \in Seq(Items \cup {Uninit})
      <4>1. len_from(head, head) = 0
        BY Numbers, LenFrom DEF Index
      <4> QED BY <2>1, <2>2, <2>5, <4>1, QueueIs DEF QueueShape
    <3>2. Queue = <<>>
      BY <3>1, EmptySeq
    <3>3. Fifo!FifoEnd
      BY <2>1, <2>2, <2>4, <2>5, <3>2, Zenon DEF Fifo!FifoEnd
    <3> QED BY <2>3, <3>3 DEF Fifo!FifoNext
  <2>6. CASE head # seenTail
    <3>1. eof' = eof
      <4>1. eof \in BOOLEAN
        BY DEF IInv, TypeOK, FlagTypeOK
      <4> QED BY <2>1, <2>2, <2>6, <4>1
    <3> QED BY <2>1, <2>3, <2>4, <3>1 DEF Fifo!fifoVars
  <2> QED BY <2>5, <2>6
<1>3. CASE DropRing
  <2>1. /\ UNCHANGED <<head, tail, taken, ppc, item, closed, out, eof, seenTail, seenClosed>>
        /\ ppc = "done" /\ cpc = "gone" /\ cpc' = "dropped"
        /\ slots' = [s \in Slots |-> IF s \in Occupied THEN Uninit ELSE slots[s]]
    BY <1>3 DEF DropRing, producer, views
  <2>2. \A s \in Slots : slots'[s] = Uninit
    BY <2>1, DropIsExact
  <2>3. EndOrder'
    BY <2>1, <2>2
  <2>4. Queue' = <<>>
    BY <2>1, QueueIsNext DEF QueueShape
  <2>5. Fifo!FifoDiscard
    BY <2>1, <2>4 DEF Fifo!FifoDiscard
  <2> QED BY <2>3, <2>5 DEF Fifo!FifoNext
<1> QED BY <1>1, <1>2, <1>3, Zenon

\* Every step of the ring keeps the invariant and is a step of the edge or none.
LEMMA NextRingInv ==
    RingInv /\ [Next]_vars => RingInv' /\ [Fifo!FifoNext]_(Fifo!fifoVars)
<1> SUFFICES ASSUME RingInv, [Next]_vars
             PROVE  RingInv' /\ (Fifo!FifoNext \/ UNCHANGED Fifo!fifoVars)
  OBVIOUS
<1>1. IInv /\ EndOrder /\ TypeOK
  BY DEF RingInv, IInv
<1>2. IInv'
  BY <1>1, NextIInv
<1>3. CASE \/ \E v \in Items : PStart(v)
           \/ PTry \/ PRefresh \/ PNotify \/ PPark \/ PWake \/ PCloseNotify
           \/ CPull \/ CDrain \/ CRefresh \/ CFreed \/ CPark \/ CWake
           \/ CLoadClosed \/ CSpurious \/ CDrop \/ ShowHead \/ ShowTail \/ UNCHANGED vars
  <2>1. Still
    BY <1>1, <1>3, StillSteps, Zenon
  <2> QED BY <1>1, <1>2, <2>1, StillKeeps, Zenon DEF RingInv
<1>4. CASE PWrite
  BY <1>1, <1>2, <1>4, WriteStep, Zenon DEF RingInv
<1>5. CASE CRead
  BY <1>1, <1>2, <1>5, ReadStep, Zenon DEF RingInv
<1>6. CASE PPublish
  BY <1>1, <1>2, <1>6, PublishStep, Zenon DEF RingInv
<1>7. CASE CAdvance
  BY <1>1, <1>2, <1>7, AdvanceStep, Zenon DEF RingInv
<1>8. CASE PClose \/ CLoadTail \/ DropRing
  BY <1>1, <1>2, <1>8, EndSteps, Zenon DEF RingInv
<1> QED
  BY <1>3, <1>4, <1>5, <1>6, <1>7, <1>8, Zenon DEF Next, PushStep, PullStep, Pull

\* The initial ring maps to the initial edge.
LEMMA InitRingInv == Init => RingInv /\ Fifo!FifoInit
<1> SUFFICES ASSUME Init PROVE RingInv /\ Fifo!FifoInit
  OBVIOUS
<1>1. RingInv
  BY InitIInv, InitEndOrder DEF RingInv
<1>2. Queue = <<>>
  <2>1. Len(Queue) = 0 /\ Queue \in Seq(Items \cup {Uninit})
    <3>1. head = 0 /\ tail = 0 /\ cpc # "dropped"
      BY DEF Init
    <3>2. len_from(0, 0) = 0
      BY LenFrom, IndexFacts
    <3> QED BY <1>1, <3>1, <3>2, QueueIs DEF RingInv, QueueShape
  <2> QED BY <2>1, EmptySeq
<1>3. closed = FALSE /\ out = <<>> /\ eof = FALSE
  BY DEF Init
<1> QED BY <1>1, <1>2, <1>3 DEF Fifo!FifoInit

\* spsc.rs: in every reachable state the end of the stream is where the
\* consumer's loads of closed and tail put it.
LEMMA RingInvHolds == Spec => []RingInv
BY InitRingInv, NextRingInv, PTL DEF Spec

\* spsc.rs, Drop for RingBuffer: whichever end goes last drops each envelope
\* still in the ring exactly once, for every capacity and index width.
THEOREM DropsAreExact == Spec => []DropExact
<1>1. RingInv => DropExact
  <2> SUFFICES ASSUME RingInv PROVE DropExact
    OBVIOUS
  <2>1. cpc = "gone" /\ ppc = "done" => \A s \in Occupied : s \in Slots /\ slots[s] # Uninit
    <3>1. Occupied \subseteq Slots
      <4> SUFFICES ASSUME NEW j \in 0..(Size - 1) PROVE wrap(Add(head, j)) \in Slots
        BY DEF Occupied
      <4>1. j \in 0..(W - 1) /\ head \in Index
        BY Numbers, IndexFacts DEF RingInv
      <4> QED BY <4>1, IndexFacts
    <3> QED BY <3>1, DropIsExact DEF RingInv
  <2> QED BY <2>1 DEF DropExact, RingInv, EndOrder, AllDropped
<1> QED BY <1>1, RingInvHolds, PTL

\* spsc.rs: the ring is a bounded queue.  Every envelope pushed is pulled once
\* and in order, never more than Capacity are held, and is_exhausted answers
\* true only once the producer closed and nothing is left.
THEOREM RingIsFifo == Spec => ImplementsFifo
BY InitRingInv, NextRingInv, RingInvHolds, PTL DEF Spec, ImplementsFifo, Fifo!FifoSpec
======
