------------------------- MODULE ProgressFrontiers --------------------------
(***************************************************************************)
(* What the workers say to each other keeps the cuts of module             *)
(* ProgressCuts sound; so no frontier passes work that still exists, and   *)
(* none retreats.                                                          *)
(***************************************************************************)
EXTENDS ProgressCuts

\* A sweep takes cuts to cuts: what the new state allows to be seen, the old
\* one allowed too.
LEMMA SweepKeepsCutInv ==
    ASSUME CutInv, TypeOK', NEW w \in Workers, NEW n, NEW late, NEW frames \in Seq(Batches),
           SweepEffect(w, n, late, frames), stamp' = stamp
    PROVE  CutInv'
<1> USE DEF CutInv
<1>1. /\ \A u \in late : u \in live /\ stamp[u].at = w
      /\ live' = live \ late
      /\ \A v \in Workers : v # w => ledger'[v] = ledger[v]
      /\ ledger'[w].plus = {} /\ ledger'[w].minus = late
  BY Zenon DEF SweepEffect, TypeOK, Batch
<1>2. Created' = Created /\ live \subseteq Created
  BY DEF Created, OnlyCreated
<1>3. \A v \in Peers(w) : v \in Workers /\ <<v, w>> \in Pairs /\ <<w, v>> \in Pairs
  BY DEF Peers, Pairs
<1>4. \A c \in Pairs : /\ c = <<c[1], c[2]>> /\ c[1] \in Workers /\ c[2] \in Workers
                       /\ c[1] = w => c[2] \in Peers(w)
                       /\ c[2] = w => c[1] \in Peers(w)
  BY DEF Peers, Pairs
<1>5. \A c \in Pairs : Len(lane[c]) \in Nat /\ Len(lane'[c]) \in Nat
  BY DEF TypeOK
<1>6. Len(frames) \in Nat
  OBVIOUS
<1>7. ASSUME NEW c \in Pairs, NEW i \in 1..Len(lane'[c])
      PROVE  \/ c[2] = w /\ n[c[1]] \in Nat /\ n[c[1]] + i \in 1..Len(lane[c])
                /\ lane'[c][i] = lane[c][n[c[1]] + i]
             \/ i \in 1..Len(lane[c]) /\ lane'[c][i] = lane[c][i] /\ c[2] # w
             \/ c[1] = w /\ i - Len(lane[c]) \in 1..Len(frames)
                /\ lane'[c][i] = frames[i - Len(lane[c])] /\ c[2] # w
             \/ lane'[c][i].plus = {} /\ lane'[c][i].minus = {}
  <2>1. CASE c[2] = w
    <3> DEFINE v == c[1]
               d == <<v, w>>
    <3>1. v \in Peers(w) /\ c = d /\ d \in Pairs
      BY <1>4, <2>1
    <3>2. /\ n[v] \in 0..Len(lane[d])
          /\ Len(lane'[d]) = Len(lane[d]) - n[v]
          /\ \A k \in 1..Len(lane'[d]) : lane'[d][k] = lane[d][n[v] + k]
      BY <3>1, Zenon DEF SweepEffect
    <3>3. Len(lane[d]) \in Nat /\ i \in 1..Len(lane'[d])
      BY <1>5, <1>7, <3>1
    <3>4. /\ n[v] \in Nat /\ n[v] + i \in 1..Len(lane[d])
          /\ lane'[d][i] = lane[d][n[v] + i]
      <4> DEFINE m == n[v]
                 L == Len(lane[d])
                 K == Len(lane'[d])
      <4>1. m \in 0..L /\ K = L - m /\ L \in Nat /\ i \in 1..K
        BY <3>2, <3>3
      <4>2. m \in Nat /\ m + i \in 1..L
        <5> HIDE DEF m, L, K
        <5> QED BY <4>1
      <4> QED BY <3>2, <3>3, <4>2, Zenon
    <3> QED BY <2>1, <3>1, <3>4, Zenon
  <2>2. CASE c[1] # w /\ c[2] # w
    BY <1>7, <2>2 DEF SweepEffect
  <2>3. CASE c[1] = w
    <3> DEFINE v == c[2]
               d == <<w, v>>
               len == Len(lane[d])
    <3>1. v \in Peers(w) /\ c = d /\ c[2] # w /\ d \in Pairs
      BY <1>4, <2>3 DEF Peers
    <3>2. /\ \A k \in 1..len : lane'[d][k] = lane[d][k]
          /\ \A k \in 1..Len(frames) : lane'[d][len + k] = frames[k]
          /\ \A k \in 1..Len(lane'[d]) : \/ k <= len
                                          \/ k - len \in 1..Len(frames)
                                          \/ lane'[d][k] = Seal
      BY <3>1, Zenon DEF SweepEffect
    <3>3. len \in Nat /\ i \in 1..Len(lane'[d]) /\ Len(lane'[d]) \in Nat
      BY <1>5, <1>7, <3>1
    <3>4. Seal.plus = {} /\ Seal.minus = {}
      BY DEF Seal
    <3>5. \/ i \in 1..len /\ lane'[d][i] = lane[d][i]
          \/ i - len \in 1..Len(frames) /\ lane'[d][i] = frames[i - len]
          \/ lane'[d][i].plus = {} /\ lane'[d][i].minus = {}
      <4> HIDE DEF d, len
      <4>1. CASE i - len \in 1..Len(frames)
        <5>1. lane'[d][len + (i - len)] = frames[i - len]
          BY <3>2, <4>1
        <5>2. len + (i - len) = i
          BY <3>3
        <5> QED BY <4>1, <5>1, <5>2
      <4> QED BY <3>2, <3>3, <3>4, <4>1
    <3> QED BY <2>3, <3>1, <3>5, Zenon
  <2> QED BY <2>1, <2>2, <2>3
<1>8. /\ \A i \in 1..Len(frames) : /\ frames[i].plus \subseteq ledger[w].plus
                                  /\ frames[i].minus \subseteq ledger[w].minus
      /\ \A u \in ledger[w].plus : \E i \in 1..Len(frames) : u \in frames[i].plus
      /\ \A m \in ledger[w].minus : \E j \in 1..Len(frames) :
            /\ m \in frames[j].minus
            /\ \A u \in ledger[w].plus : \E i \in 1..j : u \in frames[i].plus
      /\ \A i, j \in 1..Len(frames) :
            \A m \in frames[i].minus : m \in frames[j].minus => i = j
  BY DEF SweepEffect, FramesInOrder
<1>9. \A v \in Peers(w) : n[v] \in 0..Len(lane[<<v, w>>])
  BY Zenon DEF SweepEffect
<1>10. OnlyCreated'
  <2>1. live' \subseteq Created'
    BY <1>1, <1>2
  <2>2. \A v \in Workers : ledger'[v].plus \subseteq Created' /\ ledger'[v].minus \subseteq Created'
    BY <1>1, <1>2 DEF OnlyCreated
  <2>3. ASSUME NEW v \in Workers
        PROVE  view'[v].plus \subseteq Created' /\ view'[v].minus \subseteq Created'
    <3>1. CASE v # w
      BY <1>2, <3>1 DEF OnlyCreated, SweepEffect
    <3>2. CASE v = w
      <4>1. ASSUME NEW x \in Peers(w), NEW k \in 1..n[x]
            PROVE  /\ lane[<<x, w>>][k].plus \subseteq Created
                   /\ lane[<<x, w>>][k].minus \subseteq Created
        <5>1. k \in 1..Len(lane[<<x, w>>]) /\ <<x, w>> \in Pairs
          <6> DEFINE m == n[x]
                     L == Len(lane[<<x, w>>])
          <6>1. <<x, w>> \in Pairs
            BY <1>3, Zenon
          <6>2. m \in 0..L /\ L \in Nat /\ k \in 1..m
            BY <1>5, <1>9, <6>1
          <6>3. k \in 1..L
            <7> HIDE DEF m, L
            <7> QED BY <6>2
          <6> QED BY <6>1, <6>3
        <5> QED BY <5>1 DEF OnlyCreated
      <4>2. /\ view[w].plus \subseteq Created /\ view[w].minus \subseteq Created
            /\ ledger[w].plus \subseteq Created /\ ledger[w].minus \subseteq Created
        BY DEF OnlyCreated
      <4>3. /\ \A u : u \in view'[w].plus <=>
                 \/ u \in view[w].plus \/ u \in ledger[w].plus
                 \/ \E x \in Peers(w) : \E k \in 1..n[x] : u \in lane[<<x, w>>][k].plus
            /\ \A u : u \in view'[w].minus <=>
                 \/ u \in view[w].minus \/ u \in ledger[w].minus
                 \/ \E x \in Peers(w) : \E k \in 1..n[x] : u \in lane[<<x, w>>][k].minus
        BY Zenon DEF SweepEffect
      <4> QED BY <1>2, <3>2, <4>1, <4>2, <4>3, Zenon
    <3> QED BY <3>1, <3>2
  <2>4. ASSUME NEW c \in Pairs, NEW i \in 1..Len(lane'[c])
        PROVE  lane'[c][i].plus \subseteq Created' /\ lane'[c][i].minus \subseteq Created'
    <3>1. /\ \A k \in 1..Len(lane[c]) :
                lane[c][k].plus \subseteq Created /\ lane[c][k].minus \subseteq Created
          /\ \A k \in 1..Len(frames) :
                frames[k].plus \subseteq Created /\ frames[k].minus \subseteq Created
      BY <1>8 DEF OnlyCreated
    <3>2. \/ \E k \in 1..Len(lane[c]) : lane'[c][i] = lane[c][k]
          \/ \E k \in 1..Len(frames) : lane'[c][i] = frames[k]
          \/ lane'[c][i].plus = {} /\ lane'[c][i].minus = {}
      BY <1>7, <2>4, Zenon
    <3> QED BY <1>2, <3>1, <3>2
  <2>5. \A v \in Workers : Seeds \subseteq view'[v].plus
    <3>1. \A v \in Workers : view[v].plus \subseteq view'[v].plus
      BY DEF SweepEffect
    <3> QED BY <3>1 DEF OnlyCreated
  <2> QED BY <2>1, <2>2, <2>3, <2>4, <2>5 DEF OnlyCreated
<1>11. ASSUME NEW c \in Pairs, NEW i \in 1..Len(lane'[c]), NEW u \in lane'[c][i].minus
       PROVE  \/ /\ c[2] = w
                 /\ n[c[1]] \in Nat /\ n[c[1]] + i \in 1..Len(lane[c])
                 /\ u \in lane[c][n[c[1]] + i].minus
              \/ /\ c[2] # w
                 /\ i \in 1..Len(lane[c])
                 /\ u \in lane[c][i].minus
              \/ /\ c[2] # w /\ c[1] = w
                 /\ i - Len(lane[c]) \in 1..Len(frames)
                 /\ u \in frames[i - Len(lane[c])].minus
                 /\ u \in ledger[w].minus
  BY <1>7, <1>8, <1>11, Zenon
<1>12. ASSUME NEW v \in Workers, NEW u \in view'[v].minus
       PROVE  \/ u \in view[v].minus
              \/ u \in ledger[w].minus /\ v = w
              \/ v = w /\ \E x \in Peers(w) : <<x, w>> \in Pairs
                   /\ \E k \in 1..Len(lane[<<x, w>>]) : k <= n[x] /\ u \in lane[<<x, w>>][k].minus
  <2>1. CASE v # w
    BY <1>12, <2>1 DEF SweepEffect
  <2>2. CASE v = w
    <3>1. \/ u \in view[w].minus \/ u \in ledger[w].minus
          \/ \E x \in Peers(w) : \E k \in 1..n[x] : u \in lane[<<x, w>>][k].minus
      BY <1>12, <2>2, Zenon DEF SweepEffect
    <3>2. ASSUME NEW x \in Peers(w), NEW k \in 1..n[x]
          PROVE  <<x, w>> \in Pairs /\ k \in 1..Len(lane[<<x, w>>]) /\ k <= n[x]
      <4> DEFINE m == n[x]
                 L == Len(lane[<<x, w>>])
      <4>1. <<x, w>> \in Pairs
        BY <1>3, Zenon
      <4>2. m \in 0..L /\ L \in Nat /\ k \in 1..m
        BY <1>5, <1>9, <4>1
      <4>3. k \in 1..L /\ k <= m
        <5> HIDE DEF m, L
        <5> QED BY <4>2
      <4> QED BY <4>1, <4>3
    <3> QED BY <2>2, <3>1, <3>2
  <2> QED BY <2>1, <2>2, Zenon
<1>13. EndsOnce'
  <2>1. ASSUME NEW u \in live'
        PROVE  /\ \A v \in Workers : u \notin ledger'[v].minus /\ u \notin view'[v].minus
               /\ \A c \in Pairs : \A i \in 1..Len(lane'[c]) : u \notin lane'[c][i].minus
    <3>1. u \in live /\ u \notin late
      BY <1>1, <2>1
    <3>2. /\ \A v \in Workers : u \notin ledger[v].minus /\ u \notin view[v].minus
          /\ \A c \in Pairs : \A i \in 1..Len(lane[c]) : u \notin lane[c][i].minus
      BY <3>1 DEF EndsOnce
    <3>3. \A v \in Workers : u \notin ledger'[v].minus
      BY <1>1, <3>1, <3>2
    <3>4. \A v \in Workers : u \notin view'[v].minus
      BY <1>12, <3>2, Zenon
    <3>5. \A c \in Pairs : \A i \in 1..Len(lane'[c]) : u \notin lane'[c][i].minus
      BY <1>11, <3>2
    <3> QED BY <3>3, <3>4, <3>5
  <2>2. ASSUME NEW v \in Workers, NEW u \in ledger'[v].minus
        PROVE  /\ stamp'[u].at = v
               /\ \A x \in Workers : u \notin view'[x].minus
               /\ \A c \in Pairs : \A i \in 1..Len(lane'[c]) : u \notin lane'[c][i].minus
    <3>1. CASE v = w
      <4>1. u \in late
        BY <1>1, <2>2, <3>1
      <4>2. u \in live /\ stamp[u].at = w
        BY <1>1, <4>1
      <4>3. /\ \A x \in Workers : u \notin ledger[x].minus /\ u \notin view[x].minus
            /\ \A c \in Pairs : \A i \in 1..Len(lane[c]) : u \notin lane[c][i].minus
        BY <4>2 DEF EndsOnce
      <4>4. \A x \in Workers : u \notin view'[x].minus
        BY <1>12, <4>3, Zenon
      <4>5. \A c \in Pairs : \A i \in 1..Len(lane'[c]) : u \notin lane'[c][i].minus
        BY <1>11, <4>3, Zenon
      <4> QED BY <3>1, <4>2, <4>4, <4>5
    <3>2. CASE v # w
      <4>1. u \in ledger[v].minus
        BY <1>1, <2>2, <3>2
      <4>2. /\ stamp[u].at = v
            /\ \A x \in Workers : u \notin view[x].minus
            /\ \A c \in Pairs : \A i \in 1..Len(lane[c]) : u \notin lane[c][i].minus
        BY <4>1 DEF EndsOnce
      <4>3. u \notin ledger[w].minus
        BY <3>2, <4>2 DEF EndsOnce
      <4>4. \A x \in Workers : u \notin view'[x].minus
        BY <1>12, <4>2, <4>3, Zenon
      <4>5. \A c \in Pairs : \A i \in 1..Len(lane'[c]) : u \notin lane'[c][i].minus
        BY <1>11, <4>2, <4>3, Zenon
      <4> QED BY <4>2, <4>4, <4>5
    <3> QED BY <3>1, <3>2
  <2>3. ASSUME NEW c \in Pairs, NEW i \in 1..Len(lane'[c]), NEW u \in lane'[c][i].minus
        PROVE  /\ stamp'[u].at = c[1]
               /\ u \notin view'[c[2]].minus
               /\ \A j \in 1..Len(lane'[c]) : u \in lane'[c][j].minus => j = i
    <3> DEFINE L == Len(lane[c])
               L1 == Len(lane'[c])
               k0 == n[c[1]]
    <3>0. L \in Nat /\ L1 \in Nat /\ i \in 1..L1
      BY <1>5, <2>3
    <3>1. CASE c[2] = w
      <4>1. k0 \in Nat /\ k0 + i \in 1..L /\ u \in lane[c][k0 + i].minus
        BY <1>11, <2>3, <3>1
      <4>2. /\ stamp[u].at = c[1] /\ u \notin view[w].minus
            /\ \A j \in 1..L : u \in lane[c][j].minus => j = k0 + i
        BY <3>1, <4>1 DEF EndsOnce
      <4>3. u \notin ledger[w].minus
        BY <4>1 DEF EndsOnce
      <4>4. ASSUME NEW x \in Peers(w), <<x, w>> \in Pairs, NEW k \in 1..Len(lane[<<x, w>>]),
                   k <= n[x], u \in lane[<<x, w>>][k].minus
            PROVE  FALSE
        <5>1. stamp[u].at = <<x, w>>[1]
          BY <4>4 DEF EndsOnce
        <5>2. c = <<x, w>> /\ x = c[1]
          BY <1>4, <3>1, <4>2, <5>1, Zenon
        <5>3. k = k0 + i /\ k <= k0
          BY <4>2, <4>4, <5>2, Zenon
        <5>4. i >= 1 /\ i \in Nat
          BY <3>0
        <5> HIDE DEF k0
        <5> QED BY <4>1, <5>3, <5>4
      <4>5. u \notin view'[w].minus
        BY <1>12, <4>2, <4>3, <4>4, Zenon
      <4>6. ASSUME NEW j \in 1..L1, u \in lane'[c][j].minus
            PROVE  j = i
        <5>1. k0 + j \in 1..L /\ u \in lane[c][k0 + j].minus
          BY <1>11, <3>1, <4>6
        <5>2. k0 + j = k0 + i
          BY <4>2, <5>1
        <5> HIDE DEF k0, L1
        <5> QED BY <3>0, <4>1, <4>6, <5>2
      <4> QED BY <3>1, <4>2, <4>5, <4>6
    <3>2. CASE c[2] # w /\ i \in 1..L /\ u \in lane[c][i].minus
      <4>1. /\ stamp[u].at = c[1] /\ u \notin view[c[2]].minus
            /\ \A j \in 1..L : u \in lane[c][j].minus => j = i
            /\ u \notin ledger[w].minus
        BY <3>2 DEF EndsOnce
      <4>2. u \notin view'[c[2]].minus
        BY <1>4, <1>12, <3>2, <4>1
      <4>3. \A j \in 1..L1 : u \in lane'[c][j].minus => j = i
        BY <1>11, <3>2, <4>1
      <4> QED BY <4>1, <4>2, <4>3
    <3>3. CASE /\ c[2] # w /\ c[1] = w
               /\ i - L \in 1..Len(frames)
               /\ u \in frames[i - L].minus
               /\ u \in ledger[w].minus
      <4>1. /\ stamp[u].at = w /\ u \notin view[c[2]].minus
            /\ \A j \in 1..L : u \notin lane[c][j].minus
        BY <1>4, <3>3 DEF EndsOnce
      <4>2. u \notin view'[c[2]].minus
        BY <1>4, <1>12, <3>3, <4>1
      <4>3. ASSUME NEW j \in 1..L1, u \in lane'[c][j].minus
            PROVE  j = i
        <5>1. j - L \in 1..Len(frames) /\ u \in frames[j - L].minus
          BY <1>11, <3>3, <4>1, <4>3, Zenon
        <5>2. j - L = i - L
          BY <1>8, <3>3, <5>1
        <5> HIDE DEF L, L1
        <5> QED BY <3>0, <4>3, <5>2
      <4> QED BY <3>3, <4>1, <4>2, <4>3
    <3> QED BY <1>11, <2>3, <3>1, <3>2, <3>3
  <2> QED BY <2>1, <2>2, <2>3 DEF EndsOnce
<1>14. ASSUME NEW x \in Workers, NEW P \in SUBSET Created, NEW M \in SUBSET Created, Cut(x, P, M)'
       PROVE  Cut(x, P, M)
  <2>1. view'[x].plus \subseteq P /\ view'[x].minus \subseteq M
    BY <1>14 DEF Cut
  <2>2. \A v \in Peers(x) : \A j \in 1..Len(lane'[<<v, x>>]) :
            lane'[<<v, x>>][j].minus \cap M # {} =>
                \A i \in 1..j : lane'[<<v, x>>][i].plus \subseteq P
    BY <1>14 DEF Cut
  <2>3. \A v \in Workers :
            (\E m \in M : m \in ledger'[v].minus \/ (m \in live' /\ stamp[m].at = v)) =>
                /\ ledger'[v].plus \subseteq P
                /\ v # x => \A i \in 1..Len(lane'[<<v, x>>]) : lane'[<<v, x>>][i].plus \subseteq P
    BY <1>14 DEF Cut
  <2>4. view[x].plus \subseteq P /\ view[x].minus \subseteq M
    <3>1. view[x].plus \subseteq view'[x].plus /\ view[x].minus \subseteq view'[x].minus
      BY DEF SweepEffect
    <3> QED BY <2>1, <3>1
  <2>5. x = w => ledger[w].plus \subseteq P
    BY <2>1 DEF SweepEffect
  <2>6. ASSUME x = w, NEW v \in Peers(w), NEW i \in 1..Len(lane[<<v, w>>]), i <= n[v]
        PROVE  lane[<<v, w>>][i].plus \subseteq P
    <3>1. i \in 1..n[v]
      BY <1>3, <1>5, <1>9, <2>6
    <3>2. lane[<<v, w>>][i].plus \subseteq view'[w].plus
      BY <3>1, Zenon DEF SweepEffect
    <3> QED BY <2>1, <2>6, <3>2
  <2>7. ASSUME NEW v \in Peers(w), NEW i \in 1..Len(lane[<<v, w>>]), ~(i <= n[v])
        PROVE  /\ i - n[v] \in 1..Len(lane'[<<v, w>>])
               /\ lane'[<<v, w>>][i - n[v]] = lane[<<v, w>>][i]
    <3> DEFINE d == <<v, w>>
               m == n[v]
               L == Len(lane[d])
               L1 == Len(lane'[d])
    <3>1. /\ m \in 0..L /\ L1 = L - m
          /\ \A k \in 1..L1 : lane'[d][k] = lane[d][m + k]
      BY Zenon DEF SweepEffect
    <3>2. L \in Nat /\ i \in 1..L /\ ~(i <= m)
      BY <1>3, <1>5, <2>7
    <3>3. i - m \in 1..L1 /\ m + (i - m) = i
      <4>1. m \in 0..L /\ L1 = L - m
        BY <3>1
      <4> HIDE DEF m, L, L1
      <4> QED BY <3>2, <4>1
    <3>4. lane'[d][i - m] = lane[d][m + (i - m)]
      BY <3>1, <3>3, Zenon
    <3> QED BY <3>3, <3>4
  <2>8. ASSUME NEW v \in Peers(x), NEW j \in 1..Len(lane[<<v, x>>]),
               lane[<<v, x>>][j].minus \cap M # {}, NEW i \in 1..j
        PROVE  lane[<<v, x>>][i].plus \subseteq P
    <3>0. <<v, x>> \in Pairs /\ v \in Workers /\ Len(lane[<<v, x>>]) \in Nat
      BY <1>5 DEF Peers, Pairs
    <3>00. i \in 1..Len(lane[<<v, x>>])
      BY <2>8, <3>0
    <3>1. CASE x = w
      <4> DEFINE m == n[v]
      <4>1. CASE i <= m
        BY <2>6, <3>1, <3>00, <4>1
      <4>2. CASE ~(i <= m)
        <5>1. m \in Nat
          BY <1>9, <3>0, <3>1
        <5>2. ~(j <= m) /\ i - m \in 1..(j - m)
          <6> HIDE DEF m
          <6> QED BY <2>8, <3>0, <4>2, <5>1
        <5>3. /\ j - m \in 1..Len(lane'[<<v, w>>])
              /\ lane'[<<v, w>>][j - m] = lane[<<v, w>>][j]
          BY <2>7, <2>8, <3>1, <5>2
        <5>4. lane'[<<v, w>>][i - m] = lane[<<v, w>>][i]
          BY <2>7, <2>8, <3>1, <3>00, <4>2
        <5>5. lane'[<<v, w>>][j - m].minus \cap M # {}
          BY <2>8, <3>1, <5>3, Zenon
        <5>6. lane'[<<v, w>>][i - m].plus \subseteq P
          BY <2>2, <3>1, <5>2, <5>3, <5>5, Zenon
        <5> QED BY <3>1, <5>4, <5>6
      <4> QED BY <4>1, <4>2
    <3>2. CASE x # w /\ v = w
      <4>1. x \in Peers(w)
        BY <3>2 DEF Peers
      <4>2. /\ Len(lane[<<w, x>>]) + Len(frames) <= Len(lane'[<<w, x>>])
            /\ \A k \in 1..Len(lane[<<w, x>>]) : lane'[<<w, x>>][k] = lane[<<w, x>>][k]
        BY <4>1, Zenon DEF SweepEffect
      <4>3. Len(lane'[<<w, x>>]) \in Nat
        BY <1>3, <1>5, <4>1
      <4>4. j \in 1..Len(lane'[<<w, x>>])
        BY <1>6, <2>8, <3>0, <3>2, <4>2, <4>3
      <4>5. lane'[<<w, x>>][j] = lane[<<w, x>>][j] /\ lane'[<<w, x>>][i] = lane[<<w, x>>][i]
        BY <2>8, <3>2, <3>00, <4>2
      <4> QED BY <2>2, <2>8, <3>2, <4>4, <4>5
    <3>3. CASE x # w /\ v # w
      <4>1. lane'[<<v, x>>] = lane[<<v, x>>]
        BY <3>0, <3>3 DEF SweepEffect
      <4> QED BY <2>2, <2>8, <4>1
    <3> QED BY <3>1, <3>2, <3>3
  <2>9. ASSUME NEW v \in Workers, NEW m \in M,
               m \in ledger[v].minus \/ (m \in live /\ stamp[m].at = v)
        PROVE  /\ ledger[v].plus \subseteq P
               /\ v # x => \A i \in 1..Len(lane[<<v, x>>]) : lane[<<v, x>>][i].plus \subseteq P
    <3>1. CASE v = w /\ x = w
      BY <2>5, <3>1
    <3>2. CASE v = w /\ x # w
      <4> DEFINE d == <<w, x>>
                 L == Len(lane[d])
                 L1 == Len(lane'[d])
      <4>1. x \in Peers(w) /\ d \in Pairs
        BY <3>2 DEF Peers, Pairs
      <4>2. /\ L + Len(frames) <= L1
            /\ \A k \in 1..L : lane'[d][k] = lane[d][k]
            /\ \A k \in 1..Len(frames) : lane'[d][L + k] = frames[k]
        BY <4>1, Zenon DEF SweepEffect
      <4>3. L \in Nat /\ L1 \in Nat
        BY <1>5, <4>1
      <4>4. CASE m \in ledger[w].minus
        <5>1. PICK j \in 1..Len(frames) :
                  /\ m \in frames[j].minus
                  /\ \A u \in ledger[w].plus : \E i \in 1..j : u \in frames[i].plus
          BY <1>8, <4>4
        <5>2. L + j \in 1..L1 /\ \A k \in 1..j : L + k \in 1..(L + j)
          <6>1. L + Len(frames) <= L1
            BY <4>2
          <6> HIDE DEF L, L1
          <6> QED BY <1>6, <4>3, <6>1
        <5>3. lane'[d][L + j].minus \cap M # {}
          BY <4>2, <5>1, Zenon
        <5>4. \A i \in 1..(L + j) : lane'[d][i].plus \subseteq P
          BY <2>2, <3>2, <5>2, <5>3, <4>1, Zenon DEF Peers
        <5>5. ledger[w].plus \subseteq P
          <6>1. ASSUME NEW k \in 1..j
                PROVE  frames[k].plus \subseteq P
            <7>1. k \in 1..Len(frames)
              BY <1>6
            <7>2. lane'[d][L + k] = frames[k]
              BY <4>2, <7>1, Zenon
            <7>3. L + k \in 1..(L + j)
              BY <5>2
            <7>4. lane'[d][L + k].plus \subseteq P
              BY <5>4, <7>3
            <7> QED BY <7>2, <7>4
          <6> QED BY <5>1, <6>1
        <5>6. \A i \in 1..L : lane[d][i].plus \subseteq P
          <6>1. \A i \in 1..L : i \in 1..(L + j)
            <7> HIDE DEF L
            <7> QED BY <4>3
          <6> QED BY <4>2, <5>4, <6>1, Zenon
        <5> QED BY <3>2, <5>5, <5>6
      <4>5. CASE m \in live /\ stamp[m].at = w
        <5>1. m \in ledger'[w].minus \/ (m \in live' /\ stamp[m].at = w)
          BY <1>1, <4>5
        <5>2. \A i \in 1..L1 : lane'[d][i].plus \subseteq P
          BY <2>3, <3>2, <5>1
        <5>3. ledger[w].plus \subseteq P
          <6>1. \A k \in 1..Len(frames) : L + k \in 1..L1
            <7>1. L + Len(frames) <= L1
              BY <4>2
            <7> HIDE DEF L, L1
            <7> QED BY <1>6, <4>3, <7>1
          <6>2. \A k \in 1..Len(frames) : frames[k].plus \subseteq P
            BY <4>2, <5>2, <6>1, Zenon
          <6> QED BY <1>8, <6>2
        <5>4. \A i \in 1..L : lane[d][i].plus \subseteq P
          <6>1. \A i \in 1..L : i \in 1..L1
            <7>1. L + Len(frames) <= L1
              BY <4>2
            <7> HIDE DEF L, L1
            <7> QED BY <1>6, <4>3, <7>1
          <6> QED BY <4>2, <5>2, <6>1
        <5> QED BY <3>2, <5>3, <5>4
      <4> QED BY <2>9, <3>2, <4>4, <4>5
    <3>3. CASE v # w
      <4>1. m \in ledger'[v].minus \/ (m \in live' /\ stamp[m].at = v)
        BY <1>1, <2>9, <3>3
      <4>2. /\ ledger[v].plus \subseteq P
            /\ v # x => \A i \in 1..Len(lane'[<<v, x>>]) : lane'[<<v, x>>][i].plus \subseteq P
        BY <1>1, <2>3, <3>3, <4>1
      <4>3. ASSUME v # x, NEW i \in 1..Len(lane[<<v, x>>])
            PROVE  lane[<<v, x>>][i].plus \subseteq P
        <5>1. CASE x = w
          <6>1. v \in Peers(w)
            BY <3>3 DEF Peers
          <6>2. CASE i <= n[v]
            BY <2>6, <4>3, <5>1, <6>1, <6>2
          <6>3. CASE ~(i <= n[v])
            BY <2>7, <4>2, <4>3, <5>1, <6>1, <6>3, Zenon
          <6> QED BY <6>2, <6>3
        <5>2. CASE x # w
          <6>1. <<v, x>> \in Pairs
            BY <4>3 DEF Pairs
          <6>2. lane'[<<v, x>>] = lane[<<v, x>>]
            BY <3>3, <5>2, <6>1 DEF SweepEffect
          <6> QED BY <4>2, <4>3, <6>2
        <5> QED BY <5>1, <5>2
      <4> QED BY <4>2, <4>3
    <3> QED BY <3>1, <3>2, <3>3
  <2> QED BY <2>4, <2>8, <2>9 DEF Cut
<1>15. CutsAreSound'
  <2> SUFFICES ASSUME NEW x \in Workers, NEW P \in SUBSET Created', NEW M \in SUBSET Created',
                      Cut(x, P, M)'
               PROVE  /\ \A u \in Created' \ P : \E a \in P \ M : Precedes(a, u)'
                      /\ \A u \in M : stamp'[u].loc \in Outputs => u \in P
    BY DEF CutsAreSound
  <2>1. Cut(x, P, M)
    BY <1>2, <1>14
  <2>2. \A a, u : Precedes(a, u)' <=> Precedes(a, u)
    BY DEF Precedes
  <2> QED BY <1>2, <2>1, <2>2 DEF CutsAreSound
<1> QED BY <1>10, <1>13, <1>15

-----------------------------------------------------------------------------
(* Frontiers.                                                               *)

\* At the start every worker knows of the declared capabilities, and of
\* nothing else, as their operators' hosts do.
LEMMA InitCutInv == Init => CutInv
<1> SUFFICES ASSUME Init PROVE CutInv
  OBVIOUS
<1>1. \A s \in Seeds : s \in Workers \X Initial
  BY DEF Seeds
<1>2. \A s \in Seeds : [loc |-> s[2], time |-> 0, at |-> s[1]] \in Stamps
  BY <1>1, GraphAssumption DEF Stamps, Locations
<1>3. Seeds \subseteq Units
  BY DEF Units
<1>4. Created = Seeds
  <2>1. \A u \in Units : u \notin Seeds => stamp[u] = Free
    BY DEF Init
  <2>2. \A u \in Seeds : stamp[u] = [loc |-> u[2], time |-> 0, at |-> u[1]]
    BY <1>3 DEF Init
  <2>3. \A u \in Seeds : stamp[u] # Free
    <3>1. Free \notin Stamps
      BY GraphAssumption DEF Stamps
    <3> QED BY <1>2, <2>2, <3>1, Zenon
  <2> QED BY <1>3, <2>1, <2>3 DEF Created
<1>5. TypeOK
  <2>1. stamp \in [Units -> Stamps \cup {Free}]
    BY <1>2 DEF Init
  <2>2. Nothing \in Batches /\ Batch(Seeds, {}) \in Batches
    BY <1>3 DEF Nothing, Batch, Batches
  <2>3. lane \in [Pairs -> Seq(Batches)]
    BY DEF Init, Pairs
  <2>4. ledger \in [Workers -> Batches] /\ view \in [Workers -> Batches]
    BY <2>2 DEF Init
  <2>5. /\ plan \in Plans /\ live \subseteq Units /\ sealed \subseteq Workers
        /\ peer_sealed \in [Workers -> SUBSET Workers]
        /\ done \in [Workers -> SUBSET Ops]
        /\ exhausted \in [Workers -> SUBSET Ops]
        /\ outcome \in [Workers -> {"running", "succeeded", "residual"}]
    BY <1>3 DEF Init
  <2> QED BY <2>1, <2>3, <2>4, <2>5 DEF TypeOK
<1>6. /\ \A v \in Workers : ledger[v].plus = {} /\ ledger[v].minus = {}
      /\ \A v \in Workers : view[v].plus = Seeds /\ view[v].minus = {}
  BY DEF Init, Nothing, Batch
<1>7. \A c \in Pairs : Len(lane[c]) = 0
  BY DEF Init, Pairs
<1>8. OnlyCreated
  <2>1. live = Seeds
    BY DEF Init
  <2>2. \A c \in Pairs : 1..Len(lane[c]) = {}
    BY <1>7
  <2> QED BY <1>4, <1>6, <2>1, <2>2 DEF OnlyCreated
<1>9. EndsOnce
  <2>1. \A c \in Pairs : 1..Len(lane[c]) = {}
    BY <1>7
  <2>2. \A c \in Pairs : ~ \E i \in 1..Len(lane[c]) : TRUE
    BY <2>1
  <2> QED BY <1>6, <2>2 DEF EndsOnce
<1>10. CutsAreSound
  BY <1>4, <1>6 DEF CutsAreSound, Cut
<1> QED BY <1>5, <1>8, <1>9, <1>10 DEF CutInv

\* A sweep, whatever arrived and whatever was dropped during it.
LEMMA SweepCutInv ==
    ASSUME CutInv, NEW w \in Workers, Sweep(w)
    PROVE  CutInv'
<1>1. PICK n \in Arrivals(w), late \in SUBSET Droppable(w) : SweepWith(w, n, late)
  BY DEF Sweep
<1>2. /\ \E frames \in Seq(Batches) : SweepEffect(w, n, late, frames)
      /\ TypeOK' /\ stamp' = stamp
  BY <1>1, SweepHasEffect DEF CutInv
<1> QED BY <1>2, SweepKeepsCutInv

\* A step that says and hears nothing leaves the cuts as they are.
LEMMA CutsStay ==
    ASSUME CutsAreSound, UNCHANGED <<stamp, live, ledger, lane, view>>
    PROVE  CutsAreSound'
<1>1. Created' = Created
  BY DEF Created
<1>2. \A x, P, M : Cut(x, P, M)' <=> Cut(x, P, M)
  BY DEF Cut
<1>3. \A a, u : Precedes(a, u)' <=> Precedes(a, u)
  BY DEF Precedes
<1> QED BY <1>1, <1>2, <1>3 DEF CutsAreSound

\* The inductive step: logic calls, drops, sweeps and latches.
LEMMA NextCutInv == CutInv /\ [Next]_vars => CutInv'
<1> SUFFICES ASSUME CutInv, [Next]_vars PROVE CutInv'
  OBVIOUS
<1>1. ASSUME NEW w \in Workers, NEW o \in Ops, Call(w, o)
      PROVE  CutInv'
  BY <1>1, CallHasEffect, EffectKeepsCutInv DEF CutInv
<1>2. ASSUME NEW w \in Workers, NEW o \in Ops, Exhaust(w, o)
      PROVE  CutInv'
  <2>1. /\ UNCHANGED <<plan, stamp, live, ledger, lane, view, peer_sealed, sealed, done, outcome>>
        /\ exhausted' = [exhausted EXCEPT ![w] = @ \cup {o}]
    BY <1>2 DEF Exhaust, shell, tracker
  <2>2. exhausted' \in [Workers -> SUBSET Ops]
    BY <2>1 DEF CutInv, TypeOK
  <2>3. TypeOK'
    BY <2>1, <2>2 DEF CutInv, TypeOK
  <2>4. OnlyCreated' /\ EndsOnce'
    <3>1. Created' = Created
      BY <2>1 DEF Created
    <3>2. OnlyCreated'
      BY <2>1, <3>1 DEF CutInv, OnlyCreated
    <3>3. EndsOnce'
      BY <2>1 DEF CutInv, EndsOnce
    <3> QED BY <3>2, <3>3
  <2>5. CutsAreSound'
    BY <2>1, CutsStay DEF CutInv
  <2> QED BY <2>3, <2>4, <2>5 DEF CutInv
<1>3. ASSUME NEW u \in Units, Release(u)
      PROVE  CutInv'
  <2>1. /\ stamp[u].at \in Workers
        /\ CallEffect(stamp[u].at, Op[stamp[u].loc], {u}, {})
        /\ stamp' \in [Units -> Stamps \cup {Free}]
        /\ UNCHANGED <<plan, lane, view, peer_sealed, sealed, done, exhausted, outcome>>
    BY <1>3, ReleaseHasEffect DEF CutInv
  <2>2. {u} \in SUBSET Units /\ {} \in SUBSET Units
    OBVIOUS
  <2> QED BY <2>1, <2>2, EffectKeepsCutInv
<1>4. CASE UNCHANGED vars
  <2>0. UNCHANGED <<plan, stamp, live, ledger, lane, view, sealed, peer_sealed, done,
                    exhausted, outcome>>
    BY <1>4 DEF vars
  <2>1. TypeOK' /\ OnlyCreated' /\ EndsOnce'
    <3>1. Created' = Created
      BY <2>0 DEF Created
    <3>2. TypeOK'
      BY <2>0 DEF CutInv, TypeOK
    <3>3. OnlyCreated'
      BY <2>0, <3>1 DEF CutInv, OnlyCreated
    <3>4. EndsOnce'
      BY <2>0 DEF CutInv, EndsOnce
    <3> QED BY <3>2, <3>3, <3>4
  <2>2. CutsAreSound'
    BY <2>0, CutsStay DEF CutInv
  <2> QED BY <2>1, <2>2 DEF CutInv
<1>5. CASE Ended
  BY <1>4, <1>5 DEF Ended
<1> QED BY <1>1, <1>2, <1>3, <1>4, <1>5, SweepCutInv DEF Next

\* What the workers have said, in every reachable state.
LEMMA CutsStaySound == Spec => []CutInv
<1> QED BY InitCutInv, NextCutInv, PTL DEF Spec

\* No frontier of any worker's tracker passes a record on its way or a
\* capability still held, on any worker: however the commits of the workers
\* interleave, are split over frames and arrive.
THEOREM FrontiersAreSafe == Spec => []FrontierSafe
<1> QED BY CutsStaySound, CutInvFrontierSafe, PTL

\* A positive count is one unit's: seen to appear, not to go away.
LEMMA CountedUnit ==
    ASSUME NEW P \in SUBSET Units, NEW M \in SUBSET Units,
           Cardinality(P) - Cardinality(M) > 0
    PROVE  \E x \in P : x \notin M
<1>1. IsFiniteSet(P) /\ IsFiniteSet(M)
  BY FiniteUnits, FS_Subset
<1>2. Cardinality(P) \in Nat /\ Cardinality(M) \in Nat
  BY <1>1, FS_CardinalityType
<1>3. P \subseteq M => Cardinality(P) <= Cardinality(M)
  BY <1>1, FS_Subset
<1> QED BY <1>2, <1>3

\* What a view that learnt more counts, the view before had not passed.
LEMMA NothingPassedIsCounted ==
    ASSUME CutInv, NEW w \in Workers, view'[w].plus \subseteq Created,
           view[w].minus \subseteq view'[w].minus, view'[w].minus \subseteq Units,
           \A x \in Created : stamp'[x] = stamp[x],
           NEW u \in view'[w].plus, Count(w, stamp[u].loc, stamp[u].time)' > 0
    PROVE  ~Passed(w, stamp[u].loc, stamp[u].time)
<1> DEFINE l == stamp[u].loc
           t == stamp[u].time
           P == At(view[w].plus, l, t)'
           M == At(view[w].minus, l, t)'
<1>1. u \in Created /\ stamp'[u] = stamp[u]
  OBVIOUS
<1>2. P \subseteq view'[w].plus /\ M \subseteq view'[w].minus
  BY DEF At
<1>3. P \in SUBSET Units /\ M \in SUBSET Units
  BY <1>2 DEF Created
<1>4. Cardinality(P) - Cardinality(M) > 0
  BY DEF Count
<1>5. PICK x \in P : x \notin M
  <2> HIDE DEF P, M
  <2> QED BY <1>3, <1>4, CountedUnit
<1>6. x \in Created /\ stamp'[x].loc = stamp'[u].loc /\ stamp'[x].time = stamp'[u].time
  BY <1>2, <1>5 DEF At
<1>7. x \notin view'[w].minus
  BY <1>5, <1>6 DEF At, Created
<1>8. x \notin view[w].minus /\ stamp[x].loc = l /\ stamp[x].time = t
  BY <1>1, <1>6, <1>7
<1>9. \E a \in view[w].plus : /\ <<stamp[a].loc, l>> \in Reaches
                              /\ stamp[a].time <= t
                              /\ Count(w, stamp[a].loc, stamp[a].time) > 0
  BY <1>6, <1>8, StillCounted
<1> QED BY <1>9 DEF Passed

\* No frontier retreats: what a worker's tracker counts after a step, its
\* view before the step had not passed, whatever it applied in between.
THEOREM FrontiersAdvance == Spec => FrontierMonotone
<1> DEFINE A == \A w \in Workers : \A u \in view'[w].plus :
                   LET l == stamp[u].loc
                       t == stamp[u].time
                   IN  Count(w, l, t)' > 0 => ~Passed(w, l, t)
<1>1. ASSUME CutInv, CutInv', [Next]_vars
      PROVE  [A]_vars
  <2>1. ASSUME NEW v \in Workers, Sweep(v), NEW w \in Workers
        PROVE  /\ view'[w].plus \subseteq Created
               /\ view[w].minus \subseteq view'[w].minus
               /\ \A x \in Created : stamp'[x] = stamp[x]
    <3>1. PICK n \in Arrivals(v), late \in SUBSET Droppable(v) : SweepWith(v, n, late)
      BY <2>1 DEF Sweep
    <3>2. PICK frames \in Seq(Batches) : SweepEffect(v, n, late, frames)
      BY <1>1, <3>1, SweepHasEffect DEF CutInv
    <3>3. stamp' = stamp
      BY <3>1 DEF SweepWith
    <3>4. view[w].minus \subseteq view'[w].minus
      BY <3>2, Zenon DEF SweepEffect
    <3>5. view'[w].plus \subseteq Created'
      BY <1>1 DEF CutInv, OnlyCreated
    <3> QED BY <3>3, <3>4, <3>5 DEF Created
  <2>2. ASSUME view' = view, \A x \in Created : stamp'[x] = stamp[x], NEW w \in Workers
        PROVE  /\ view'[w].plus \subseteq Created
               /\ view[w].minus \subseteq view'[w].minus
    BY <1>1, <2>2 DEF CutInv, OnlyCreated
  <2>3. ASSUME NEW w \in Workers, NEW o \in Ops, Call(w, o)
        PROVE  view' = view /\ \A x \in Created : stamp'[x] = stamp[x]
    BY <1>1, <2>3, CallHasEffect, EffectFacts DEF CutInv
  <2>5. \A w \in Workers : view'[w].minus \subseteq Units
    BY <1>1 DEF CutInv, OnlyCreated, Created
  <2>6. ASSUME Next, NEW w \in Workers
        PROVE  /\ view'[w].plus \subseteq Created
               /\ view[w].minus \subseteq view'[w].minus
               /\ \A x \in Created : stamp'[x] = stamp[x]
    <3>1. CASE \E v \in Workers : Sweep(v)
      BY <2>1, <3>1
    <3>2. CASE \E v \in Workers, o \in Ops : Call(v, o)
      BY <2>2, <2>3, <3>2
    <3>3. CASE \/ \E v \in Workers, o \in Ops : Exhaust(v, o)
               \/ \E u \in Units : Release(u)
               \/ Ended
      <4>1. view' = view /\ stamp' = stamp
        BY <3>3, Zenon DEF Exhaust, Release, Ended, shell, tracker, vars
      <4> QED BY <2>2, <4>1
    <3> QED BY <2>6, <3>1, <3>2, <3>3 DEF Next
  <2>7. ASSUME Next, NEW w \in Workers, NEW u \in view'[w].plus,
               Count(w, stamp[u].loc, stamp[u].time)' > 0
        PROVE  ~Passed(w, stamp[u].loc, stamp[u].time)
    BY <1>1, <2>5, <2>6, <2>7, NothingPassedIsCounted
  <2> QED BY <1>1, <2>7
<1>2. Spec => []CutInv
  BY CutsStaySound
<1>3. CutInv /\ CutInv' /\ [Next]_vars => [A]_vars
  BY <1>1
<1> QED BY <1>2, <1>3, PTL DEF Spec, FrontierMonotone
=============================================================================
