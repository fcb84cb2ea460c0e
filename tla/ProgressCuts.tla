---------------------------- MODULE ProgressCuts ----------------------------
(***************************************************************************)
(* Proofs about module Progress, for every graph without feedback, every   *)
(* number of workers, every placement of the operators and every plan: no  *)
(* frontier passes work that still exists, none retreats, nothing reaches  *)
(* an operator that was shut down, a seal is a worker's last word, and a   *)
(* worker's success is the truth about the whole dataflow.                 *)
(*                                                                         *)
(* The argument looks at the cuts of what the workers have said: a worker  *)
(* says that a unit went away only after it said what it made of it, and   *)
(* no lane and no split of a commit puts the two out of order.  So a view  *)
(* that does not know of a unit still counts one that precedes it.         *)
(***************************************************************************)
EXTENDS Progress, FiniteSetTheorems, WellFoundedInduction, TLAPS

Stamps == [loc : Locations, time : Nat, at : Workers]
Batches == [plus : SUBSET Units, minus : SUBSET Units, seal : BOOLEAN]
Pairs == {d \in Workers \X Workers : d[1] # d[2]}

\* The units that exist or existed.
Created == {u \in Units : stamp[u] # Free}

TypeOK ==
    /\ plan \in Plans
    /\ stamp \in [Units -> Stamps \cup {Free}]
    /\ live \subseteq Units
    /\ ledger \in [Workers -> Batches]
    /\ lane \in [Pairs -> Seq(Batches)]
    /\ view \in [Workers -> Batches]
    /\ sealed \subseteq Workers
    /\ peer_sealed \in [Workers -> SUBSET Workers]
    /\ done \in [Workers -> SUBSET Ops]
    /\ exhausted \in [Workers -> SUBSET Ops]
    /\ outcome \in [Workers -> {"running", "succeeded", "residual"}]

\* Only units that were created are live or spoken of.
OnlyCreated ==
    /\ live \subseteq Created
    /\ \A v \in Workers : ledger[v].plus \subseteq Created /\ ledger[v].minus \subseteq Created
    /\ \A v \in Workers : view[v].plus \subseteq Created /\ view[v].minus \subseteq Created
    /\ \A c \in Pairs : \A i \in 1..Len(lane[c]) :
          lane[c][i].plus \subseteq Created /\ lane[c][i].minus \subseteq Created
    /\ \A v \in Workers : Seeds \subseteq view[v].plus

\* The end of a unit is said once, by the worker where it ended: what is live
\* is in nobody's ledger, lane or view as gone, what is in a ledger in no
\* lane or view, what is in a lane neither in another batch of it nor in the
\* view at its end.
EndsOnce ==
    /\ \A u \in live :
          /\ \A v \in Workers : u \notin ledger[v].minus /\ u \notin view[v].minus
          /\ \A c \in Pairs : \A i \in 1..Len(lane[c]) : u \notin lane[c][i].minus
    /\ \A v \in Workers : \A u \in ledger[v].minus :
          /\ stamp[u].at = v
          /\ \A w \in Workers : u \notin view[w].minus
          /\ \A c \in Pairs : \A i \in 1..Len(lane[c]) : u \notin lane[c][i].minus
    /\ \A c \in Pairs : \A i \in 1..Len(lane[c]) : \A u \in lane[c][i].minus :
          /\ stamp[u].at = c[1]
          /\ u \notin view[c[2]].minus
          /\ \A j \in 1..Len(lane[c]) : u \in lane[c][j].minus => j = i

\* Unit a could result in u, and is somewhere else if u is a record.
Precedes(a, u) ==
    /\ <<stamp[a].loc, stamp[u].loc>> \in Reaches
    /\ stamp[a].time <= stamp[u].time
    /\ stamp[u].loc \in Inputs => stamp[a].loc # stamp[u].loc

\* The units P have been seen to appear and the units M to go away, from where
\* worker w is: at least what its view says; and with the end of a unit (said,
\* still to be said, or still to come) everything its worker said before it.
Cut(w, P, M) ==
    /\ view[w].plus \subseteq P
    /\ view[w].minus \subseteq M
    /\ \A v \in Peers(w) : \A j \in 1..Len(lane[<<v, w>>]) :
          lane[<<v, w>>][j].minus \cap M # {} =>
              \A i \in 1..j : lane[<<v, w>>][i].plus \subseteq P
    /\ \A v \in Workers :
          (\E m \in M : m \in ledger[v].minus \/ (m \in live /\ stamp[m].at = v)) =>
              /\ ledger[v].plus \subseteq P
              /\ v # w => \A i \in 1..Len(lane[<<v, w>>]) : lane[<<v, w>>][i].plus \subseteq P

\* In a cut, a unit not seen to appear is preceded by one that was seen to
\* appear and not to go; and no capability goes unseen.
CutsAreSound ==
    \A w \in Workers : \A P, M \in SUBSET Created :
        Cut(w, P, M) =>
            /\ \A u \in Created \ P : \E a \in P \ M : Precedes(a, u)
            /\ \A u \in M : stamp[u].loc \in Outputs => u \in P

CutInv == TypeOK /\ OnlyCreated /\ EndsOnce /\ CutsAreSound

\* Units are where their operator runs.
WellPlaced == \A u \in Created : stamp[u].at \in Hosts[Op[stamp[u].loc]]

\* An operator was shut down because nothing reaches its inputs any more.
Retired ==
    \A w \in Workers : \A o \in done[w] :
        /\ \A u \in live, i \in Inputs : Op[i] = o => <<stamp[u].loc, i>> \notin Reaches
        /\ ~HoldsCapability(w, o)

\* An exhausted operator stays so.
StaysExhausted ==
    \A w \in Workers : \A o \in exhausted[w] : InputsEnded(w, o) /\ ~HoldsCapability(w, o)

\* A sealed worker's operators are all at their end.
SealedAtEnd ==
    \A w \in sealed : Hosted[w] \subseteq done[w] \cup exhausted[w] /\ ledger[w] = Nothing

EndInv == WellPlaced /\ Retired /\ StaysExhausted /\ SealedAtEnd /\ SuccessIsGlobal
-----------------------------------------------------------------------------
(* Facts about the graph and about counting.                                *)

\* Among any locations there is one that no other of them reaches.
LEMMA EarliestLocation ==
    ASSUME NEW L \in SUBSET Locations, L # {}
    PROVE  \E l \in L : \A k \in L : <<k, l>> \in Reaches => k = l
<1> DEFINE Up(l) == {k \in Locations : <<k, l>> \in Reaches}
           T == {Up(l) : l \in L}
           R == StrictSubsetOrdering(Locations)
<1>1. IsWellFoundedOn(R, SUBSET Locations)
  <2>1. FiniteSubsetsOf(Locations) = SUBSET Locations
    BY FS_FiniteSubsetsOfFinite, GraphAssumption
  <2>2. IsWellFoundedOn(R, FiniteSubsetsOf(Locations))
    BY FS_StrictSubsetOrderingWellFounded, Zenon
  <2> QED BY <2>1, <2>2, Zenon
<1>2. T \subseteq SUBSET Locations /\ T # {}
  BY Zenon
<1>3. \E x \in T : \A y \in T : ~ (<<y, x>> \in R)
  <2> HIDE DEF T, R
  <2> QED BY <1>1, <1>2, WFMin
<1>4. PICK l \in L : \A y \in T : ~ (<<y, Up(l)>> \in R)
  BY <1>3, Zenon
<1>5. ASSUME NEW k \in L, <<k, l>> \in Reaches
      PROVE  k = l
  <2>1. Up(k) \subseteq Up(l)
    BY <1>5, ReachesAssumption
  <2>2. Up(k) = Up(l)
    <3>1. <<Up(k), Up(l)>> \notin R
      BY <1>4
    <3>2. <<Up(k), Up(l)>> \in (SUBSET Locations) \X (SUBSET Locations)
      BY Zenon
    <3> HIDE DEF Up
    <3> QED BY <2>1, <3>1, <3>2 DEF StrictSubsetOrdering
  <2>3. l \in Up(k)
    BY <2>2, ReachesAssumption, Zenon
  <2> QED BY <1>5, <2>3, ReachesAssumption
<1> QED BY <1>5

\* There are finitely many units.
LEMMA FiniteUnits == IsFiniteSet(Units)
<1>1. IsFiniteSet(Initial)
  BY FS_Subset, GraphAssumption DEF Locations
<1>2. IsFiniteSet(Workers \X Initial)
  BY <1>1, FS_Product, GraphAssumption
<1>3. IsFiniteSet(Seeds)
  BY <1>2, FS_Subset DEF Seeds
<1> QED BY <1>3, FS_Union, GraphAssumption, Zenon DEF Units

\* A pointstamp counts when a unit of it was seen to appear and not to go, and
\* every unit of it that was seen to go was seen to appear.
LEMMA CountsPositive ==
    ASSUME TypeOK, NEW w \in Workers, NEW l, NEW t,
           NEW a \in At(view[w].plus, l, t), a \notin view[w].minus,
           At(view[w].minus, l, t) \subseteq view[w].plus
    PROVE  Count(w, l, t) > 0
<1> DEFINE Plus == At(view[w].plus, l, t)
           Minus == At(view[w].minus, l, t)
<1>1. view[w].plus \subseteq Units
  BY DEF TypeOK, Batches
<1>2. IsFiniteSet(Plus)
  BY <1>1, FiniteUnits, FS_Subset DEF At
<1>3. Minus \subseteq Plus /\ Minus # Plus
  BY DEF At
<1>4. IsFiniteSet(Minus) /\ Cardinality(Minus) <= Cardinality(Plus) /\ Cardinality(Minus) # Cardinality(Plus)
  <2> HIDE DEF Plus, Minus
  <2> QED BY <1>2, <1>3, FS_Subset
<1>5. Cardinality(Plus) \in Nat /\ Cardinality(Minus) \in Nat
  <2> HIDE DEF Plus, Minus
  <2> QED BY <1>2, <1>4, FS_CardinalityType
<1>6. Count(w, l, t) = Cardinality(Plus) - Cardinality(Minus)
  BY DEF Count
<1> HIDE DEF Plus, Minus
<1> QED BY <1>4, <1>5, <1>6

\* The stamp of a created unit.
LEMMA StampOfCreated ==
    ASSUME TypeOK, NEW u \in Created
    PROVE  u \in Units /\ stamp[u] # Free /\ stamp[u].loc \in Locations
             /\ stamp[u].time \in Nat /\ stamp[u].at \in Workers
BY DEF TypeOK, Created, Stamps

\* What a view says is a cut.
LEMMA ViewIsCut ==
    ASSUME CutInv, NEW w \in Workers
    PROVE  Cut(w, view[w].plus, view[w].minus)
<1>1. \A v \in Peers(w) : <<v, w>> \in Pairs
  BY DEF Peers, Pairs
<1>2. ASSUME NEW v \in Peers(w), NEW j \in 1..Len(lane[<<v, w>>])
      PROVE  lane[<<v, w>>][j].minus \cap view[w].minus = {}
  BY <1>1, <1>2 DEF CutInv, EndsOnce
<1>3. ASSUME NEW v \in Workers, NEW m \in view[w].minus
      PROVE  ~(m \in ledger[v].minus \/ (m \in live /\ stamp[m].at = v))
  BY <1>3 DEF CutInv, EndsOnce
<1> QED BY <1>2, <1>3 DEF Cut

\* A view counts something that could result in u, unless it saw u come and go.
LEMMA StillCounted ==
    ASSUME CutInv, NEW w \in Workers, NEW u \in Created,
           u \notin view[w].plus \/ u \notin view[w].minus
    PROVE  \E a \in view[w].plus :
              /\ <<stamp[a].loc, stamp[u].loc>> \in Reaches
              /\ stamp[a].time <= stamp[u].time
              /\ Count(w, stamp[a].loc, stamp[a].time) > 0
<1> DEFINE P == view[w].plus
           M == view[w].minus
           A == {a \in P \ M : /\ <<stamp[a].loc, stamp[u].loc>> \in Reaches
                               /\ stamp[a].time <= stamp[u].time}
           L == {stamp[a].loc : a \in A}
<1>1. P \subseteq Created /\ M \subseteq Created
  BY DEF CutInv, OnlyCreated
<1>2. /\ \A x \in Created \ P : \E a \in P \ M : Precedes(a, x)
      /\ \A x \in M : stamp[x].loc \in Outputs => x \in P
  BY <1>1, ViewIsCut DEF CutInv, CutsAreSound
<1>3. A # {}
  <2>1. CASE u \in P \ M
    <3>1. u \in A
      BY <2>1, StampOfCreated, ReachesAssumption DEF CutInv
    <3> QED BY <3>1
  <2>2. CASE u \notin P
    BY <1>2, <2>2, Zenon DEF Precedes
  <2> QED BY <2>1, <2>2, Zenon
<1>4. L \subseteq Locations /\ L # {}
  BY <1>1, <1>3, StampOfCreated, Zenon DEF CutInv
<1>5. PICK a \in A : \A k \in L : <<k, stamp[a].loc>> \in Reaches => k = stamp[a].loc
  <2> HIDE DEF A
  <2> QED BY <1>4, EarliestLocation, Zenon
<1>6. ASSUME NEW b \in At(M, stamp[a].loc, stamp[a].time), b \notin P
      PROVE  FALSE
  <2>1. b \in Created /\ stamp[b].loc = stamp[a].loc /\ stamp[b].time = stamp[a].time /\ b \in M
    BY <1>1, <1>6 DEF At
  <2>2. stamp[b].loc \in Inputs
    BY <1>2, <1>6, <2>1, StampOfCreated DEF CutInv, Locations
  <2>3. PICK c \in P \ M : Precedes(c, b)
    BY <1>2, <1>6, <2>1
  <2>4. /\ c \in Created /\ a \in Created
        /\ stamp[c].loc \in Locations /\ stamp[a].loc \in Locations /\ stamp[u].loc \in Locations
        /\ stamp[c].time \in Nat /\ stamp[a].time \in Nat /\ stamp[u].time \in Nat
    BY <1>1, StampOfCreated DEF CutInv
  <2>5. <<stamp[c].loc, stamp[u].loc>> \in Reaches /\ stamp[c].time <= stamp[u].time
    BY <2>1, <2>3, <2>4, ReachesAssumption DEF Precedes
  <2>6. stamp[c].loc \in L
    BY <2>5
  <2> QED BY <1>5, <2>1, <2>2, <2>3, <2>6 DEF Precedes
<1>7. a \in At(P, stamp[a].loc, stamp[a].time)
  BY <1>1, StampOfCreated DEF At, CutInv
<1>8. Count(w, stamp[a].loc, stamp[a].time) > 0
  BY <1>6, <1>7, CountsPositive DEF CutInv
<1> QED BY <1>8

\* The promise of progress tracking, from the invariant.
LEMMA CutInvFrontierSafe == CutInv => FrontierSafe
<1> SUFFICES ASSUME CutInv, NEW w \in Workers, NEW u \in live
             PROVE  ~Passed(w, stamp[u].loc, stamp[u].time)
  BY DEF FrontierSafe
<1>1. u \in Created /\ u \notin view[w].minus
  BY DEF CutInv, OnlyCreated, EndsOnce
<1> QED BY <1>1, StillCounted DEF Passed
-----------------------------------------------------------------------------
(* What a logic call does.                                                  *)

\* A thing created at output p is a capability held there, or a record on an
\* edge from p, for a worker that runs the edge's target.
LEMMA PlaceFacts ==
    ASSUME plan \in Plans, NEW w \in Workers, NEW p \in Outputs, w \in Hosts[Op[p]],
           NEW places \in Places(w, p), NEW x \in places
    PROVE  /\ x[1] \in Locations /\ x[2] \in Workers /\ x[2] \in Hosts[Op[x[1]]]
           /\ \/ x[1] = p /\ x[2] = w
              \/ /\ <<p, x[1]>> \in Edges /\ x[1] \in Inputs
                 /\ plan.routing[<<p, x[1]>>] = "pipeline" => x[2] = w
<1>1. CASE x = <<p, w>>
  BY <1>1 DEF Locations
<1>2. CASE places \in Deliveries(w, p)
  <2> DEFINE out == {e \in Edges : e[1] = p}
  <2>1. PICK g \in [out -> SUBSET Workers] :
           /\ \A e \in out : g[e] \in Delivery(w, e)
           /\ places = UNION {{e[2]} \X g[e] : e \in out}
    BY <1>2, Zenon DEF Deliveries
  <2>2. PICK e \in out : x \in {e[2]} \X g[e]
    BY <2>1
  <2>3. x[1] = e[2] /\ x[2] \in g[e] /\ e[2] \in Inputs /\ e \in Edges /\ e = <<p, e[2]>>
    BY <2>2, GraphAssumption
  <2>4. /\ plan.routing[e] \in {"pipeline", "exchange", "broadcast"}
        /\ plan.routing[e] = "pipeline" => Hosts[Op[e[1]]] \subseteq Hosts[Op[e[2]]]
    BY <2>3, GraphAssumption, Zenon
  <2>5. /\ x[2] \in Hosts[Op[e[2]]]
        /\ plan.routing[e] = "pipeline" => x[2] = w
    BY <2>1, <2>2, <2>3, <2>4, Zenon DEF Delivery
  <2> QED BY <2>1, <2>2, <2>3, <2>5 DEF Locations
<1> QED BY <1>1, <1>2 DEF Places

\* The effect of a call of o on worker w that takes `taken` and creates `new`:
\* every unit created has a cause, a unit of w at this operator that was live.
Caused(w, o, u) ==
    \E c \in live :
        /\ stamp[c].at = w /\ Op[stamp[c].loc] = o
        /\ <<stamp[c].loc, stamp'[u].loc>> \in Reaches
        /\ stamp[c].time <= stamp'[u].time
        /\ stamp'[u].loc \in Inputs => stamp[c].loc # stamp'[u].loc

CallEffect(w, o, taken, new) ==
    /\ \A u \in taken : u \in live /\ stamp[u].at = w
    /\ new \cap Created = {}
    /\ live' = (live \ taken) \cup new
    /\ ledger' = [ledger EXCEPT ![w].plus = @ \cup new, ![w].minus = @ \cup taken]
    /\ \A u \in Units \ new : stamp'[u] = stamp[u]
    /\ \A u \in new :
          /\ stamp'[u] \in Stamps
          /\ stamp'[u].at \in Hosts[Op[stamp'[u].loc]]
          /\ \/ /\ stamp'[u].loc \in Outputs /\ Op[stamp'[u].loc] = o /\ stamp'[u].at = w
             \/ \E p \in Outputs :
                   /\ stamp'[u].loc \in Inputs /\ Op[p] = o /\ <<p, stamp'[u].loc>> \in Edges
                   /\ plan.routing[<<p, stamp'[u].loc>>] = "pipeline" => stamp'[u].at = w
          /\ Caused(w, o, u)

\* run_call, in these terms: what it took was the worker's own, what it made
\* has a cause there.
LEMMA CallHasEffect ==
    ASSUME TypeOK, OnlyCreated, NEW w \in Workers, NEW o \in Ops, Call(w, o)
    PROVE  /\ \E taken, new \in SUBSET Units : CallEffect(w, o, taken, new)
           /\ stamp' \in [Units -> Stamps \cup {Free}]
           /\ w \in Hosts[o] /\ o \notin done[w] /\ Running(w)
           /\ UNCHANGED <<plan, lane, view, peer_sealed, sealed, done, exhausted, outcome>>
<1>1. /\ w \in Hosts[o] /\ o \notin done[w] /\ Running(w)
      /\ UNCHANGED <<plan, lane, view, peer_sealed, sealed, done, exhausted, outcome>>
  BY DEF Call, tracker, decision
<1>2. PICK taken \in {{}} \cup {{u} : u \in Records(w, o)} :
          \/ /\ taken # {}
             /\ live' = live \ taken
             /\ Account(w, {}, taken)
             /\ UNCHANGED stamp
          \/ \E p \in {q \in Outputs : Op[q] = o}, t \in plan.times :
                /\ Justified(w, p, t, taken)
                /\ \E places \in Places(w, p) :
                   \E new \in SUBSET {u \in Fresh : stamp[u] = Free} :
                      /\ Cardinality(new) = Cardinality(places)
                      /\ Cardinality({u \in Fresh : stamp[u] # Free} \cup new) <= plan.units
                      /\ Create(places, t, new)
                      /\ live' = (live \ taken) \cup new
                      /\ Account(w, new, taken)
  BY Zenon DEF Call
<1>3. /\ taken \in SUBSET Units
      /\ \A u \in taken : /\ u \in live /\ u \in Created /\ stamp[u].at = w
                          /\ stamp[u].loc \in Inputs /\ Op[stamp[u].loc] = o
  BY DEF Records, OnlyCreated, Created
<1>4. CASE /\ live' = live \ taken
           /\ Account(w, {}, taken)
           /\ UNCHANGED stamp
  <2>1. CallEffect(w, o, taken, {})
    BY <1>3, <1>4 DEF CallEffect, Account
  <2>2. stamp' \in [Units -> Stamps \cup {Free}]
    BY <1>4 DEF TypeOK
  <2> QED BY <1>1, <1>3, <2>1, <2>2
<1>5. ASSUME NEW p \in Outputs, Op[p] = o, NEW t \in plan.times,
             Justified(w, p, t, taken),
             NEW places \in Places(w, p),
             NEW new \in SUBSET {u \in Fresh : stamp[u] = Free},
             Create(places, t, new),
             live' = (live \ taken) \cup new,
             Account(w, new, taken)
      PROVE  /\ CallEffect(w, o, taken, new)
             /\ stamp' \in [Units -> Stamps \cup {Free}]
             /\ new \in SUBSET Units
  <2>1. PICK f \in [new -> places] :
          stamp' = [u \in Units |->
                     IF u \in new
                     THEN [loc |-> f[u][1], time |-> t, at |-> f[u][2]]
                     ELSE stamp[u]]
    BY <1>5 DEF Create, Bijections
  <2>2. t \in Nat /\ plan \in Plans
    BY GraphAssumption DEF TypeOK
  <2>3. new \subseteq Units /\ new \cap Created = {}
    BY DEF Units, Created
  <2>4. PICK c \in live : /\ stamp[c].at = w /\ Op[stamp[c].loc] = o /\ stamp[c].time <= t
                          /\ stamp[c].loc = p \/ stamp[c].loc \in Inputs
    BY <1>3, <1>5 DEF Justified, Held
  <2>5. c \in Created /\ stamp[c].loc \in Locations
    BY StampOfCreated DEF OnlyCreated
  <2>6. <<stamp[c].loc, p>> \in Reaches
    BY <1>5, <2>4, <2>5, ReachesAssumption DEF Locations
  <2>7. ASSUME NEW u \in new
        PROVE  /\ stamp'[u] \in Stamps
               /\ stamp'[u].at \in Hosts[Op[stamp'[u].loc]]
               /\ \/ /\ stamp'[u].loc \in Outputs /\ Op[stamp'[u].loc] = o /\ stamp'[u].at = w
                  \/ \E q \in Outputs :
                       /\ stamp'[u].loc \in Inputs /\ Op[q] = o /\ <<q, stamp'[u].loc>> \in Edges
                       /\ plan.routing[<<q, stamp'[u].loc>>] = "pipeline" => stamp'[u].at = w
               /\ Caused(w, o, u)
    <3>1. stamp'[u] = [loc |-> f[u][1], time |-> t, at |-> f[u][2]] /\ f[u] \in places
      BY <2>1, <2>3
    <3>2. /\ f[u][1] \in Locations /\ f[u][2] \in Workers /\ f[u][2] \in Hosts[Op[f[u][1]]]
          /\ \/ f[u][1] = p /\ f[u][2] = w
             \/ /\ <<p, f[u][1]>> \in Edges /\ f[u][1] \in Inputs
                /\ plan.routing[<<p, f[u][1]>>] = "pipeline" => f[u][2] = w
      BY <1>1, <1>5, <2>2, <3>1, PlaceFacts
    <3>3. stamp'[u] \in Stamps
      BY <2>2, <3>1, <3>2 DEF Stamps
    <3>4. CASE f[u][1] = p /\ f[u][2] = w
      <4>1. p \notin Inputs /\ stamp'[u].loc = p /\ stamp'[u].time = t
        BY <3>1, <3>4, GraphAssumption
      <4>2. Caused(w, o, u)
        BY <2>4, <2>6, <4>1 DEF Caused
      <4> QED BY <1>5, <3>1, <3>2, <3>3, <3>4, <4>2
    <3>5. CASE /\ <<p, f[u][1]>> \in Edges /\ f[u][1] \in Inputs
               /\ plan.routing[<<p, f[u][1]>>] = "pipeline" => f[u][2] = w
      <4>1. <<p, f[u][1]>> \in Reaches /\ p # f[u][1] /\ p \in Locations
        BY <3>5, ReachesAssumption, GraphAssumption DEF Locations
      <4>2. <<stamp[c].loc, f[u][1]>> \in Reaches
        BY <2>5, <2>6, <3>2, <4>1, ReachesAssumption
      <4>3. stamp[c].loc # f[u][1]
        BY <2>5, <2>6, <3>2, <4>1, ReachesAssumption
      <4>4. Caused(w, o, u)
        BY <2>4, <3>1, <4>2, <4>3 DEF Caused
      <4> QED BY <1>5, <3>1, <3>2, <3>3, <3>5, <4>4
    <3> QED BY <3>2, <3>4, <3>5
  <2>8. stamp' \in [Units -> Stamps \cup {Free}]
    BY <2>1, <2>7, Zenon DEF TypeOK
  <2>9. CallEffect(w, o, taken, new)
    BY <1>3, <1>5, <2>1, <2>3, <2>7, Zenon DEF CallEffect, Account
  <2> QED BY <2>3, <2>8, <2>9
<1>6. CASE \E p \in {q \in Outputs : Op[q] = o}, t \in plan.times :
                /\ Justified(w, p, t, taken)
                /\ \E places \in Places(w, p) :
                   \E new \in SUBSET {u \in Fresh : stamp[u] = Free} :
                      /\ Cardinality(new) = Cardinality(places)
                      /\ Cardinality({u \in Fresh : stamp[u] # Free} \cup new) <= plan.units
                      /\ Create(places, t, new)
                      /\ live' = (live \ taken) \cup new
                      /\ Account(w, new, taken)
  BY <1>1, <1>3, <1>5, <1>6
<1> QED BY <1>2, <1>4, <1>6, Zenon

\* Dropping a capability is the call that takes it and creates nothing.
LEMMA ReleaseHasEffect ==
    ASSUME TypeOK, OnlyCreated, NEW u \in Units, Release(u)
    PROVE  /\ stamp[u].at \in Workers /\ Running(stamp[u].at)
           /\ CallEffect(stamp[u].at, Op[stamp[u].loc], {u}, {})
           /\ stamp' \in [Units -> Stamps \cup {Free}]
           /\ UNCHANGED <<plan, lane, view, peer_sealed, sealed, done, exhausted, outcome>>
<1> DEFINE w == stamp[u].at
<1>1. /\ u \in live /\ w \in Workers /\ Running(w) /\ live' = live \ {u} /\ stamp' = stamp
      /\ ledger' = [ledger EXCEPT ![w].minus = @ \cup {u}]
      /\ UNCHANGED <<plan, lane, view, peer_sealed, sealed, done, exhausted, outcome>>
  BY StampOfCreated DEF Release, OnlyCreated, tracker, decision
<1>2. ledger' = [ledger EXCEPT ![w].plus = @ \cup {}, ![w].minus = @ \cup {u}]
  BY <1>1, Zenon DEF TypeOK, Batches
<1>3. stamp' \in [Units -> Stamps \cup {Free}]
  BY <1>1 DEF TypeOK
<1>4. CallEffect(w, Op[stamp[u].loc], {u}, {})
  BY <1>1, <1>2, Zenon DEF CallEffect
<1> QED BY <1>1, <1>3, <1>4

\* The facts about an effect that the invariant needs.
LEMMA EffectFacts ==
    ASSUME TypeOK, OnlyCreated, NEW w \in Workers, NEW o, NEW taken \in SUBSET Units,
           NEW new \in SUBSET Units, CallEffect(w, o, taken, new)
    PROVE  /\ Created' = Created \cup new
           /\ \A u \in Created : stamp'[u] = stamp[u]
           /\ \A v \in Workers : v # w => ledger'[v] = ledger[v]
           /\ ledger'[w].plus = ledger[w].plus \cup new
           /\ ledger'[w].minus = ledger[w].minus \cup taken
           /\ ledger' \in [Workers -> Batches]
           /\ taken \subseteq live
           /\ new \cap live = {}
<1>1. \A u \in new : stamp'[u] # Free /\ stamp'[u] \in Stamps
  BY GraphAssumption DEF CallEffect, Stamps
<1>2. Created' = Created \cup new
  BY <1>1 DEF CallEffect, Created
<1>3. \A u \in Created : stamp'[u] = stamp[u]
  BY DEF CallEffect, Created
<1>4. ledger \in [Workers -> Batches]
  BY DEF TypeOK
<1>5. /\ \A v \in Workers : v # w => ledger'[v] = ledger[v]
      /\ ledger'[w].plus = ledger[w].plus \cup new
      /\ ledger'[w].minus = ledger[w].minus \cup taken
      /\ ledger' \in [Workers -> Batches]
  BY <1>4, Zenon DEF CallEffect, Batches
<1> QED BY <1>2, <1>3, <1>5 DEF CallEffect, OnlyCreated

\* A logic call or a drop keeps every cut sound: its units are said together
\* with, or after, their causes.
LEMMA EffectKeepsCutInv ==
    ASSUME CutInv, NEW w \in Workers, NEW o, NEW taken \in SUBSET Units,
           NEW new \in SUBSET Units, CallEffect(w, o, taken, new),
           stamp' \in [Units -> Stamps \cup {Free}],
           UNCHANGED <<plan, lane, view, peer_sealed, sealed, done, exhausted, outcome>>
    PROVE  CutInv'
<1> USE DEF CutInv
<1>1. /\ Created' = Created \cup new
      /\ \A u \in Created : stamp'[u] = stamp[u]
      /\ \A v \in Workers : v # w => ledger'[v] = ledger[v]
      /\ ledger'[w].plus = ledger[w].plus \cup new
      /\ ledger'[w].minus = ledger[w].minus \cup taken
      /\ ledger' \in [Workers -> Batches]
      /\ taken \subseteq live
      /\ new \cap live = {}
      /\ live' = (live \ taken) \cup new
      /\ new \cap Created = {}
      /\ \A u \in taken : stamp[u].at = w
  <2>1. /\ live' = (live \ taken) \cup new
        /\ new \cap Created = {}
        /\ \A u \in taken : stamp[u].at = w
    BY DEF CallEffect
  <2> QED BY <2>1, EffectFacts
<1>2. /\ lane' = lane /\ view' = view /\ plan' = plan /\ peer_sealed' = peer_sealed
      /\ sealed' = sealed /\ done' = done /\ exhausted' = exhausted /\ outcome' = outcome
  OBVIOUS
<1>3. live \subseteq Created /\ Created \subseteq Units
  BY DEF OnlyCreated, Created
<1>4. TypeOK'
  BY <1>1, <1>2 DEF TypeOK
<1>5. OnlyCreated'
  BY <1>1, <1>2, <1>3 DEF OnlyCreated
<1>6. EndsOnce'
  <2>1. ASSUME NEW u \in live'
        PROVE  /\ \A v \in Workers : u \notin ledger'[v].minus /\ u \notin view'[v].minus
               /\ \A c \in Pairs : \A i \in 1..Len(lane'[c]) : u \notin lane'[c][i].minus
    <3>1. CASE u \in live \ taken
      BY <1>1, <1>2, <3>1 DEF EndsOnce
    <3>2. CASE u \in new
      <4>1. u \notin Created /\ u \notin taken
        BY <1>1, <3>2
      <4>2. \A v \in Workers : u \notin ledger[v].minus /\ u \notin view[v].minus
        BY <4>1 DEF OnlyCreated
      <4>3. \A c \in Pairs : \A i \in 1..Len(lane[c]) : u \notin lane[c][i].minus
        BY <4>1 DEF OnlyCreated
      <4> QED BY <1>1, <1>2, <4>1, <4>2, <4>3
    <3> QED BY <1>1, <2>1, <3>1, <3>2
  <2>2. ASSUME NEW v \in Workers, NEW u \in ledger'[v].minus
        PROVE  /\ stamp'[u].at = v
               /\ \A x \in Workers : u \notin view'[x].minus
               /\ \A c \in Pairs : \A i \in 1..Len(lane'[c]) : u \notin lane'[c][i].minus
    <3>1. CASE u \in ledger[v].minus
      <4>1. /\ stamp[u].at = v
            /\ \A x \in Workers : u \notin view[x].minus
            /\ \A c \in Pairs : \A i \in 1..Len(lane[c]) : u \notin lane[c][i].minus
        BY <3>1 DEF EndsOnce
      <4>2. u \in Created
        BY <3>1 DEF OnlyCreated
      <4> QED BY <1>1, <1>2, <4>1, <4>2
    <3>2. CASE v = w /\ u \in taken
      BY <1>1, <1>2, <1>3, <3>2 DEF EndsOnce
    <3> QED BY <1>1, <2>2, <3>1, <3>2
  <2>3. ASSUME NEW c \in Pairs, NEW i \in 1..Len(lane'[c]), NEW u \in lane'[c][i].minus
        PROVE  /\ stamp'[u].at = c[1]
               /\ u \notin view'[c[2]].minus
               /\ \A j \in 1..Len(lane'[c]) : u \in lane'[c][j].minus => j = i
    BY <1>1, <1>2, <2>3 DEF EndsOnce, OnlyCreated
  <2> QED BY <2>1, <2>2, <2>3 DEF EndsOnce
<1>7. CutsAreSound'
  <2> SUFFICES ASSUME NEW x \in Workers, NEW P \in SUBSET Created', NEW M \in SUBSET Created',
                      Cut(x, P, M)'
               PROVE  /\ \A u \in Created' \ P : \E a \in P \ M : Precedes(a, u)'
                      /\ \A u \in M : stamp'[u].loc \in Outputs => u \in P
    BY DEF CutsAreSound
  <2> DEFINE Q == P \ new
             N == M \ new
  <2>1. Q \in SUBSET Created /\ N \in SUBSET Created
    BY <1>1
  <2>2. ASSUME NEW v \in Workers,
               \E m \in M : m \in ledger'[v].minus \/ (m \in live' /\ stamp'[m].at = v)
        PROVE  /\ ledger'[v].plus \subseteq P
               /\ v # x => \A i \in 1..Len(lane[<<v, x>>]) : lane[<<v, x>>][i].plus \subseteq P
    BY <1>2, <2>2, Zenon DEF Cut
  <2>3. Cut(x, Q, N)
    <3>1. view[x].plus \subseteq Q /\ view[x].minus \subseteq N
      BY <1>1, <1>2 DEF Cut, OnlyCreated
    <3>2. ASSUME NEW v \in Peers(x), NEW j \in 1..Len(lane[<<v, x>>]),
                 lane[<<v, x>>][j].minus \cap N # {},
                 NEW i \in 1..j
          PROVE  lane[<<v, x>>][i].plus \subseteq Q
      <4>1. lane[<<v, x>>][i].plus \subseteq P
        BY <1>2, <3>2 DEF Cut
      <4>2. <<v, x>> \in Pairs /\ i \in 1..Len(lane[<<v, x>>])
        BY <3>2 DEF Peers, Pairs, TypeOK
      <4> QED BY <1>1, <4>1, <4>2, Zenon DEF OnlyCreated
    <3>3. ASSUME NEW v \in Workers,
                 NEW m \in N, m \in ledger[v].minus \/ (m \in live /\ stamp[m].at = v)
          PROVE  /\ ledger[v].plus \subseteq Q
                 /\ v # x => \A i \in 1..Len(lane[<<v, x>>]) : lane[<<v, x>>][i].plus \subseteq Q
      <4>1. m \in ledger'[v].minus \/ (m \in live' /\ stamp'[m].at = v)
        <5>1. m \in Created
          BY <2>1
        <5>2. CASE m \in taken
          BY <1>1, <3>3, <5>2 DEF EndsOnce
        <5>3. CASE m \notin taken
          BY <1>1, <3>3, <5>1, <5>3
        <5> QED BY <5>2, <5>3
      <4>2. /\ ledger'[v].plus \subseteq P
            /\ v # x => \A i \in 1..Len(lane[<<v, x>>]) : lane[<<v, x>>][i].plus \subseteq P
        BY <2>2, <4>1
      <4>3. ledger[v].plus \subseteq Q
        BY <1>1, <4>2 DEF OnlyCreated
      <4>4. v # x => <<v, x>> \in Pairs
        BY DEF Pairs
      <4> QED BY <1>1, <4>2, <4>3, <4>4 DEF OnlyCreated
    <3> QED BY <3>1, <3>2, <3>3 DEF Cut
  <2>4. /\ \A u \in Created \ Q : \E a \in Q \ N : Precedes(a, u)
        /\ \A u \in N : stamp[u].loc \in Outputs => u \in Q
    <3> HIDE DEF Q, N
    <3> QED BY <2>1, <2>3 DEF CutsAreSound
  <2>5. ASSUME NEW u \in Created, u \notin P
        PROVE  \E a \in P \ M : Precedes(a, u)'
    <3>1. PICK a \in Q \ N : Precedes(a, u)
      BY <2>4, <2>5
    <3>2. a \in Created /\ a \in P \ M
      BY <2>1
    <3> QED BY <1>1, <3>1, <3>2, Zenon DEF Precedes
  <2>6. ASSUME NEW u \in new, u \notin P
        PROVE  \E a \in P \ M : Precedes(a, u)'
    <3>1. PICK c \in live :
             /\ stamp[c].at = w
             /\ <<stamp[c].loc, stamp'[u].loc>> \in Reaches
             /\ stamp[c].time <= stamp'[u].time
             /\ stamp'[u].loc \in Inputs => stamp[c].loc # stamp'[u].loc
      BY DEF CallEffect, Caused
    <3>2. c \in Created /\ stamp'[c] = stamp[c]
      BY <1>1, <1>3
    <3>3. c \notin M
      <4>1. c \in ledger'[w].minus \/ (c \in live' /\ stamp'[c].at = w)
        BY <1>1, <3>1, <3>2
      <4> QED BY <1>1, <2>2, <2>6, <4>1, Zenon
    <3>4. CASE c \in P
      BY <3>1, <3>2, <3>3, <3>4, Zenon DEF Precedes
    <3>5. CASE c \notin P
      <4>1. PICK a \in P \ M : Precedes(a, c)'
        BY <2>5, <3>2, <3>5
      <4>2. a \in Created'
        OBVIOUS
      <4>3. /\ stamp'[a].loc \in Locations /\ stamp'[c].loc \in Locations
            /\ stamp'[u].loc \in Locations
            /\ stamp'[a].time \in Nat /\ stamp'[c].time \in Nat /\ stamp'[u].time \in Nat
        <5>1. a \in Units /\ stamp'[a] # Free /\ c \in Units /\ stamp'[c] # Free
          BY <3>2, <4>2 DEF Created
        <5>2. stamp'[a] \in Stamps /\ stamp'[c] \in Stamps
          BY <1>4, <5>1 DEF TypeOK
        <5>3. stamp'[u] \in Stamps
          BY DEF CallEffect
        <5> QED BY <5>2, <5>3 DEF Stamps
      <4>4. <<stamp'[a].loc, stamp'[u].loc>> \in Reaches /\ stamp'[a].time <= stamp'[u].time
        BY <3>1, <3>2, <4>1, <4>3, ReachesAssumption DEF Precedes
      <4>5. stamp'[u].loc \in Inputs => stamp'[a].loc # stamp'[u].loc
        BY <3>1, <3>2, <4>1, <4>3, ReachesAssumption DEF Precedes
      <4> QED BY <4>4, <4>5, Zenon DEF Precedes
    <3> QED BY <3>4, <3>5
  <2>7. ASSUME NEW u \in M, stamp'[u].loc \in Outputs
        PROVE  u \in P
    <3>1. CASE u \in N
      BY <1>1, <2>1, <2>4, <2>7, <3>1
    <3>2. CASE u \in new
      <4>1. stamp'[u].at = w
        BY <2>7, <3>2, GraphAssumption, Zenon DEF CallEffect
      <4> QED BY <1>1, <2>2, <3>2, <4>1, Zenon
    <3> QED BY <3>1, <3>2
  <2> QED BY <1>1, <2>5, <2>6, <2>7
<1> QED BY <1>4, <1>5, <1>6, <1>7
-----------------------------------------------------------------------------
(* What a sweep does.                                                       *)

\* The order of a split commit: everything that appeared comes before anything
\* that went away, and each is said once.
FramesInOrder(b, frames) ==
    /\ frames \in Seq(Batches)
    /\ \A i \in 1..Len(frames) : frames[i].plus \subseteq b.plus /\ frames[i].minus \subseteq b.minus
    /\ \A u \in b.plus : \E i \in 1..Len(frames) : u \in frames[i].plus
    /\ \A m \in b.minus : \E j \in 1..Len(frames) :
          /\ m \in frames[j].minus
          /\ \A u \in b.plus : \E i \in 1..j : u \in frames[i].plus
    /\ \A i, j \in 1..Len(frames) : \A m \in frames[i].minus : m \in frames[j].minus => i = j
    /\ \A i \in 1..Len(frames) : frames[i].seal => b.seal

\* The elements of two sequences put together.
LEMMA ConcatIndex ==
    ASSUME NEW S, NEW s \in Seq(S), NEW t \in Seq(S)
    PROVE  /\ s \o t \in Seq(S)
           /\ Len(s \o t) = Len(s) + Len(t)
           /\ \A i \in 1..Len(s) : (s \o t)[i] = s[i]
           /\ \A i \in 1..Len(t) : (s \o t)[Len(s) + i] = t[i]
OBVIOUS

\* A commit, sent whole or split by the network lane, keeps that order.
LEMMA FramesKeepOrder ==
    ASSUME NEW b \in Batches, NEW frames \in Frames(b)
    PROVE  FramesInOrder(b, frames)
<1>1. CASE b = Nothing
  <2>1. frames = <<>> /\ b.plus = {} /\ b.minus = {}
    BY <1>1 DEF Frames, Nothing, Batch
  <2> QED BY <2>1 DEF FramesInOrder
<1>2. CASE frames = <<b>>
  BY <1>2 DEF FramesInOrder, Batches
<1>3. ASSUME NEW p \in Orders(b.plus), NEW q \in Orders(b.minus),
             frames = Positive(p) \o Negative(q)
      PROVE  FramesInOrder(b, frames)
  <2> DEFINE k == Cardinality(b.plus)
             l == Cardinality(b.minus)
  <2>1. k \in Nat /\ l \in Nat
    BY FiniteUnits, FS_Subset, FS_CardinalityType DEF Batches
  <2>2. /\ p \in [1..k -> b.plus] /\ q \in [1..l -> b.minus]
        /\ \A u \in b.plus : \E i \in 1..k : p[i] = u
        /\ \A u \in b.minus : \E i \in 1..l : q[i] = u
        /\ \A i, j \in 1..l : q[i] = q[j] => i = j
    BY DEF Orders, Bijections
  <2> HIDE DEF k, l
  <2>3. Positive(p) \in Seq(Batches) /\ Len(Positive(p)) = k
    BY <2>1, <2>2 DEF Positive, Batches, Batch
  <2>4. Negative(q) \in Seq(Batches) /\ Len(Negative(q)) = l
    BY <2>1, <2>2 DEF Negative, Batches, Batch
  <2>5. /\ \A i \in 1..k : Positive(p)[i].plus = {p[i]} /\ Positive(p)[i].minus = {}
        /\ \A i \in 1..l : Negative(q)[i].plus = {} /\ Negative(q)[i].minus = {q[i]}
    BY <2>1, <2>2 DEF Positive, Negative, Batch
  <2>6. /\ frames \in Seq(Batches) /\ Len(frames) = k + l
        /\ \A i \in 1..k : frames[i] = Positive(p)[i]
        /\ \A i \in 1..l : frames[k + i] = Negative(q)[i]
    <3> DEFINE P == Positive(p)
               N == Negative(q)
    <3>1. P \in Seq(Batches) /\ N \in Seq(Batches)
      BY <2>3, <2>4
    <3> HIDE DEF P, N
    <3>2. /\ P \o N \in Seq(Batches)
          /\ Len(P \o N) = Len(P) + Len(N)
          /\ \A i \in 1..Len(P) : (P \o N)[i] = P[i]
          /\ \A i \in 1..Len(N) : (P \o N)[Len(P) + i] = N[i]
      BY <3>1, ConcatIndex
    <3> QED BY <1>3, <2>3, <2>4, <3>2 DEF P, N
  <2>7. ASSUME NEW i \in 1..Len(frames)
        PROVE  \/ i \in 1..k /\ frames[i].plus = {p[i]} /\ frames[i].minus = {}
               \/ i - k \in 1..l /\ frames[i].plus = {} /\ frames[i].minus = {q[i - k]}
    <3>1. CASE i <= k
      BY <2>1, <2>5, <2>6, <3>1
    <3>2. CASE i > k
      <4>1. i - k \in 1..l /\ i = k + (i - k)
        BY <2>1, <2>6, <3>2
      <4> QED BY <2>5, <2>6, <4>1
    <3> QED BY <2>1, <3>1, <3>2
  <2>8. \A i \in 1..Len(frames) : frames[i].plus \subseteq b.plus /\ frames[i].minus \subseteq b.minus
    BY <2>2, <2>7
  <2>9. \A u \in b.plus : \E i \in 1..k : u \in frames[i].plus
    BY <2>2, <2>5, <2>6
  <2>10. ASSUME NEW m \in b.minus
         PROVE  \E j \in 1..Len(frames) :
                   /\ m \in frames[j].minus
                   /\ \A u \in b.plus : \E i \in 1..j : u \in frames[i].plus
    <3>1. PICK i \in 1..l : q[i] = m
      BY <2>2
    <3>2. k + i \in 1..Len(frames) /\ m \in frames[k + i].minus
      BY <2>1, <2>5, <2>6, <3>1
    <3>3. \A u \in b.plus : \E h \in 1..(k + i) : u \in frames[h].plus
      BY <2>1, <2>9
    <3> QED BY <3>2, <3>3
  <2>11. ASSUME NEW i \in 1..Len(frames), NEW j \in 1..Len(frames),
                NEW m \in frames[i].minus, m \in frames[j].minus
         PROVE  i = j
    <3>1. /\ i - k \in 1..l /\ m = q[i - k]
          /\ j - k \in 1..l /\ m = q[j - k]
      BY <2>7, <2>11
    <3>2. i - k = j - k
      BY <2>2, <3>1, Zenon
    <3> QED BY <2>1, <3>2
  <2>12. \A u \in b.plus : \E i \in 1..Len(frames) : u \in frames[i].plus
    BY <2>1, <2>6, <2>9
  <2>13. \A i \in 1..Len(frames) : ~frames[i].seal
    <3>1. /\ \A i \in 1..k : ~Positive(p)[i].seal
          /\ \A i \in 1..l : ~Negative(q)[i].seal
      BY <2>1, <2>2 DEF Positive, Negative, Batch
    <3>2. ASSUME NEW i \in 1..Len(frames)
          PROVE  i \in 1..k \/ (i - k \in 1..l /\ i = k + (i - k))
      BY <2>1, <2>6
    <3> QED BY <2>6, <3>1, <3>2
  <2> QED BY <2>6, <2>8, <2>10, <2>11, <2>12, <2>13 DEF FramesInOrder
<1> QED BY <1>1, <1>2, <1>3 DEF Frames

\* The effect of a sweep of w that receives n batches, while the capabilities
\* `late` are dropped and w's commit is sent as `frames`.
SweepEffect(w, n, late, frames) ==
    /\ \A u \in late : u \in live /\ stamp[u].at = w /\ stamp[u].loc \in Outputs
    /\ FramesInOrder(ledger[w], frames)
    /\ live' = live \ late
    /\ ledger' = [ledger EXCEPT ![w] = Batch({}, late)]
    /\ \A v \in Workers : v # w => view'[v] = view[v]
    /\ \A u : u \in view'[w].plus <=>
          \/ u \in view[w].plus \/ u \in ledger[w].plus
          \/ \E v \in Peers(w) : \E k \in 1..n[v] : u \in lane[<<v, w>>][k].plus
    /\ \A u : u \in view'[w].minus <=>
          \/ u \in view[w].minus \/ u \in ledger[w].minus
          \/ \E v \in Peers(w) : \E k \in 1..n[v] : u \in lane[<<v, w>>][k].minus
    /\ \A v \in Peers(w) :
          /\ n[v] \in 0..Len(lane[<<v, w>>])
          /\ Len(lane'[<<v, w>>]) = Len(lane[<<v, w>>]) - n[v]
          /\ \A i \in 1..Len(lane'[<<v, w>>]) : lane'[<<v, w>>][i] = lane[<<v, w>>][n[v] + i]
          /\ Len(lane[<<w, v>>]) + Len(frames) <= Len(lane'[<<w, v>>])
          /\ \A i \in 1..Len(lane[<<w, v>>]) : lane'[<<w, v>>][i] = lane[<<w, v>>][i]
          /\ \A i \in 1..Len(frames) : lane'[<<w, v>>][Len(lane[<<w, v>>]) + i] = frames[i]
          /\ \A i \in 1..Len(lane'[<<w, v>>]) :
                \/ i <= Len(lane[<<w, v>>])
                \/ i - Len(lane[<<w, v>>]) \in 1..Len(frames)
                \/ lane'[<<w, v>>][i] = Seal
    /\ \A c \in Pairs : c[1] # w /\ c[2] # w => lane'[c] = lane[c]

\* What the received batches add to a view.
LEMMA PropagateFacts ==
    ASSUME TypeOK, NEW w \in Workers, NEW n \in Arrivals(w), Propagate(w, n)
    PROVE  /\ view' \in [Workers -> Batches]
           /\ peer_sealed' \in [Workers -> SUBSET Workers]
           /\ \A v \in Peers(w) : n[v] \in 0..Len(lane[<<v, w>>])
           /\ \A v \in Workers : v # w => view'[v] = view[v]
           /\ \A u : u \in view'[w].plus <=>
                \/ u \in view[w].plus \/ u \in ledger[w].plus
                \/ \E v \in Peers(w) : \E k \in 1..n[v] : u \in lane[<<v, w>>][k].plus
           /\ \A u : u \in view'[w].minus <=>
                \/ u \in view[w].minus \/ u \in ledger[w].minus
                \/ \E v \in Peers(w) : \E k \in 1..n[v] : u \in lane[<<v, w>>][k].minus
<1> DEFINE got == Received(w, n)
           all == {ledger[w]} \cup UNION {{got[v][k] : k \in 1..n[v]} : v \in Peers(w)}
           plus == UNION {b.plus : b \in all}
           minus == UNION {b.minus : b \in all}
<1>1. \A v \in Peers(w) : <<v, w>> \in Pairs /\ lane[<<v, w>>] \in Seq(Batches)
  BY DEF Peers, Pairs, TypeOK
<1>2. \A v \in Peers(w) : n[v] \in 0..Len(lane[<<v, w>>])
  <2> SUFFICES ASSUME NEW v \in Peers(w)
               PROVE  n[v] \in 0..Len(lane[<<v, w>>])
    OBVIOUS
  <2>1. PICK x \in Peers(w) : n[v] \in 0..Len(lane[<<x, w>>])
    BY DEF Arrivals
  <2>2. n[v] <= Len(lane[<<v, w>>])
    BY DEF Arrivals
  <2> QED BY <1>1, <2>1, <2>2
<1>3. \A v \in Peers(w) : \A k \in 1..n[v] :
         got[v][k] = lane[<<v, w>>][k] /\ got[v][k] \in Batches
  <2> SUFFICES ASSUME NEW v \in Peers(w), NEW k \in 1..n[v]
               PROVE  got[v][k] = lane[<<v, w>>][k] /\ got[v][k] \in Batches
    OBVIOUS
  <2>1. got[v] = SubSeq(lane[<<v, w>>], 1, n[v])
    BY Zenon DEF Received
  <2> QED BY <1>1, <1>2, <2>1
<1>4. /\ ledger[w] \in all
      /\ \A v \in Peers(w) : \A k \in 1..n[v] : lane[<<v, w>>][k] \in all
  <2>1. ASSUME NEW v \in Peers(w), NEW k \in 1..n[v]
        PROVE  got[v][k] \in all
    OBVIOUS
  <2> QED BY <1>3, <2>1
<1>5. ASSUME NEW b \in all, b # ledger[w]
      PROVE  \E v \in Peers(w) : \E k \in 1..n[v] : b = lane[<<v, w>>][k]
  <2>1. PICK v \in Peers(w) : b \in {got[v][k] : k \in 1..n[v]}
    BY <1>5
  <2>2. PICK k \in 1..n[v] : b = got[v][k]
    BY <2>1
  <2> QED BY <1>3, <2>2
<1> HIDE DEF all
<1>6. /\ \A u : u \in plus <=> \E b \in all : u \in b.plus
      /\ \A u : u \in minus <=> \E b \in all : u \in b.minus
  OBVIOUS
<1> HIDE DEF plus, minus
<1>7. ASSUME NEW u
      PROVE  u \in plus <=>
                \/ u \in ledger[w].plus
                \/ \E v \in Peers(w) : \E k \in 1..n[v] : u \in lane[<<v, w>>][k].plus
  <2>1. ASSUME u \in plus, u \notin ledger[w].plus
        PROVE  \E v \in Peers(w) : \E k \in 1..n[v] : u \in lane[<<v, w>>][k].plus
    <3>1. PICK b \in all : u \in b.plus
      BY <1>6, <2>1
    <3> QED BY <1>5, <2>1, <3>1
  <2>2. ASSUME NEW v \in Peers(w), NEW k \in 1..n[v], u \in lane[<<v, w>>][k].plus
        PROVE  u \in plus
    BY <1>4, <1>6, <2>2
  <2>3. u \in ledger[w].plus => u \in plus
    BY <1>4, <1>6
  <2> QED BY <2>1, <2>2, <2>3, Zenon
<1>8. ASSUME NEW u
      PROVE  u \in minus <=>
                \/ u \in ledger[w].minus
                \/ \E v \in Peers(w) : \E k \in 1..n[v] : u \in lane[<<v, w>>][k].minus
  <2>1. ASSUME u \in minus, u \notin ledger[w].minus
        PROVE  \E v \in Peers(w) : \E k \in 1..n[v] : u \in lane[<<v, w>>][k].minus
    <3>1. PICK b \in all : u \in b.minus
      BY <1>6, <2>1
    <3> QED BY <1>5, <2>1, <3>1
  <2>2. ASSUME NEW v \in Peers(w), NEW k \in 1..n[v], u \in lane[<<v, w>>][k].minus
        PROVE  u \in minus
    BY <1>4, <1>6, <2>2
  <2>3. u \in ledger[w].minus => u \in minus
    BY <1>4, <1>6
  <2> QED BY <2>1, <2>2, <2>3, Zenon
<1>9. plus \subseteq Units /\ minus \subseteq Units
  <2>1. ledger[w] \in Batches
    BY DEF TypeOK
  <2>2. \A v \in Peers(w) : \A k \in 1..n[v] : lane[<<v, w>>][k] \in Batches
    BY <1>3
  <2> QED BY <1>7, <1>8, <2>1, <2>2, Zenon DEF Batches
<1>10. /\ view' = [view EXCEPT ![w].plus = @ \cup plus, ![w].minus = @ \cup minus]
       /\ peer_sealed' = [peer_sealed EXCEPT
                             ![w] = @ \cup {v \in Peers(w) : \E k \in 1..n[v] : got[v][k].seal}]
  BY DEF Propagate, all, plus, minus
<1>11. view \in [Workers -> Batches] /\ peer_sealed \in [Workers -> SUBSET Workers]
  BY DEF TypeOK
<1>12. peer_sealed' \in [Workers -> SUBSET Workers]
  BY <1>10, <1>11 DEF Peers
<1>13. /\ view' \in [Workers -> Batches]
       /\ \A v \in Workers : v # w => view'[v] = view[v]
       /\ view'[w].plus = view[w].plus \cup plus
       /\ view'[w].minus = view[w].minus \cup minus
  BY <1>9, <1>10, <1>11, Zenon DEF Batches
<1> QED BY <1>2, <1>7, <1>8, <1>12, <1>13, Zenon

\* How a sweep leaves the lanes.
LEMMA LaneFacts ==
    ASSUME TypeOK, NEW w \in Workers, NEW n, NEW frames \in Seq(Batches), NEW tail \in {<<>>, <<Seal>>},
           \A v \in Peers(w) : n[v] \in 0..Len(lane[<<v, w>>]),
           lane' = [c \in DOMAIN lane |->
                      IF c[1] = w
                      THEN lane[c] \o frames \o tail
                      ELSE IF c[2] = w
                           THEN SubSeq(lane[c], n[c[1]] + 1, Len(lane[c]))
                           ELSE lane[c]]
    PROVE  /\ lane' \in [Pairs -> Seq(Batches)]
           /\ \A v \in Peers(w) :
                /\ Len(lane'[<<v, w>>]) = Len(lane[<<v, w>>]) - n[v]
                /\ \A i \in 1..Len(lane'[<<v, w>>]) : lane'[<<v, w>>][i] = lane[<<v, w>>][n[v] + i]
                /\ Len(lane'[<<w, v>>]) = Len(lane[<<w, v>>]) + Len(frames) + Len(tail)
                /\ Len(lane[<<w, v>>]) + Len(frames) <= Len(lane'[<<w, v>>])
                /\ \A i \in 1..Len(lane[<<w, v>>]) : lane'[<<w, v>>][i] = lane[<<w, v>>][i]
                /\ \A i \in 1..Len(frames) : lane'[<<w, v>>][Len(lane[<<w, v>>]) + i] = frames[i]
                /\ \A i \in 1..Len(lane'[<<w, v>>]) :
                      \/ i <= Len(lane[<<w, v>>])
                      \/ i - Len(lane[<<w, v>>]) \in 1..Len(frames)
                      \/ lane'[<<w, v>>][i] = Seal
           /\ \A c \in Pairs : c[1] # w /\ c[2] # w => lane'[c] = lane[c]
<1>1. DOMAIN lane = Pairs /\ \A c \in Pairs : lane[c] \in Seq(Batches)
  BY DEF TypeOK
<1>2. tail \in Seq(Batches) /\ Len(tail) <= 1 /\ Len(tail) \in Nat /\ \A i \in 1..Len(tail) : tail[i] = Seal
  <2>1. Seal \in Batches
    BY DEF Seal, Batches
  <2>2. CASE tail = <<>>
    BY <2>2
  <2>3. CASE tail = <<Seal>>
    BY <2>1, <2>3
  <2> QED BY <2>2, <2>3
<1>3. ASSUME NEW v \in Peers(w)
      PROVE  /\ <<v, w>> \in Pairs /\ <<w, v>> \in Pairs
             /\ lane'[<<v, w>>] = SubSeq(lane[<<v, w>>], n[v] + 1, Len(lane[<<v, w>>]))
             /\ lane'[<<w, v>>] = lane[<<w, v>>] \o frames \o tail
  BY <1>1, Zenon DEF Peers, Pairs
<1>4. ASSUME NEW v \in Peers(w)
      PROVE  /\ lane'[<<v, w>>] \in Seq(Batches)
             /\ Len(lane'[<<v, w>>]) = Len(lane[<<v, w>>]) - n[v]
             /\ \A i \in 1..Len(lane'[<<v, w>>]) : lane'[<<v, w>>][i] = lane[<<v, w>>][n[v] + i]
  <2> DEFINE q == lane[<<v, w>>]
             k == n[v]
  <2>1. q \in Seq(Batches) /\ k \in 0..Len(q)
    BY <1>1, <1>3, Zenon
  <2> HIDE DEF q, k
  <2>2. /\ SubSeq(q, k + 1, Len(q)) \in Seq(Batches)
        /\ Len(SubSeq(q, k + 1, Len(q))) = Len(q) - k
        /\ \A i \in 1..(Len(q) - k) : SubSeq(q, k + 1, Len(q))[i] = q[k + i]
    BY <2>1
  <2> QED BY <1>3, <2>2, Zenon DEF q, k
<1>5. ASSUME NEW v \in Peers(w)
      PROVE  /\ lane'[<<w, v>>] \in Seq(Batches)
             /\ Len(lane'[<<w, v>>]) = Len(lane[<<w, v>>]) + Len(frames) + Len(tail)
             /\ Len(lane[<<w, v>>]) + Len(frames) <= Len(lane'[<<w, v>>])
             /\ \A i \in 1..Len(lane[<<w, v>>]) : lane'[<<w, v>>][i] = lane[<<w, v>>][i]
             /\ \A i \in 1..Len(frames) : lane'[<<w, v>>][Len(lane[<<w, v>>]) + i] = frames[i]
             /\ \A i \in 1..Len(lane'[<<w, v>>]) :
                   \/ i <= Len(lane[<<w, v>>])
                   \/ i - Len(lane[<<w, v>>]) \in 1..Len(frames)
                   \/ lane'[<<w, v>>][i] = Seal
  <2> DEFINE q == lane[<<w, v>>]
             r == q \o frames
             s == r \o tail
  <2>1. q \in Seq(Batches) /\ s = lane'[<<w, v>>]
    BY <1>1, <1>3, Zenon
  <2> HIDE DEF q
  <2>2. /\ r \in Seq(Batches)
        /\ Len(r) = Len(q) + Len(frames)
        /\ \A i \in 1..Len(q) : r[i] = q[i]
        /\ \A i \in 1..Len(frames) : r[Len(q) + i] = frames[i]
    BY <2>1, ConcatIndex
  <2> HIDE DEF r
  <2>3. /\ s \in Seq(Batches)
        /\ Len(s) = Len(r) + Len(tail)
        /\ \A i \in 1..Len(r) : s[i] = r[i]
        /\ \A i \in 1..Len(tail) : s[Len(r) + i] = tail[i]
    BY <1>2, <2>2, ConcatIndex
  <2> HIDE DEF s
  <2>4. Len(q) \in Nat /\ Len(frames) \in Nat /\ Len(tail) \in Nat
    BY <1>2, <2>1
  <2>5. \A i \in 1..Len(q) : s[i] = q[i]
    BY <2>2, <2>3, <2>4
  <2>6. \A i \in 1..Len(frames) : s[Len(q) + i] = frames[i]
    <3> SUFFICES ASSUME NEW i \in 1..Len(frames)
                 PROVE  s[Len(q) + i] = frames[i]
      OBVIOUS
    <3>1. Len(q) + i \in 1..Len(r)
      BY <2>2, <2>4
    <3> QED BY <2>2, <2>3, <3>1
  <2>7. ASSUME NEW i \in 1..Len(s), i > Len(q), i - Len(q) \notin 1..Len(frames)
        PROVE  s[i] = Seal
    <3>1. i - Len(r) \in 1..Len(tail) /\ i = Len(r) + (i - Len(r))
      BY <2>2, <2>3, <2>4, <2>7
    <3> QED BY <1>2, <2>3, <3>1
  <2>8. \A i \in 1..Len(s) : i <= Len(q) \/ i - Len(q) \in 1..Len(frames) \/ s[i] = Seal
    BY <2>3, <2>4, <2>7
  <2>9. Len(q) + Len(frames) <= Len(s)
    BY <2>2, <2>3, <2>4
  <2>10. Len(s) = Len(q) + Len(frames) + Len(tail)
    BY <2>2, <2>3, <2>4
  <2> QED BY <2>1, <2>3, <2>5, <2>6, <2>8, <2>9, <2>10, Zenon DEF q
<1>6. \A c \in Pairs : c[1] # w /\ c[2] # w => lane'[c] = lane[c]
  BY <1>1
<1>7. lane' \in [Pairs -> Seq(Batches)]
  <2>1. DOMAIN lane' = Pairs /\ lane' = [c \in Pairs |-> lane'[c]]
    BY <1>1
  <2>2. ASSUME NEW c \in Pairs
        PROVE  lane'[c] \in Seq(Batches)
    <3>1. c = <<c[1], c[2]>> /\ c[1] \in Workers /\ c[2] \in Workers /\ c[1] # c[2]
      BY DEF Pairs
    <3>2. CASE c[1] = w
      BY <1>5, <3>1, <3>2, Zenon DEF Peers
    <3>3. CASE c[2] = w
      BY <1>4, <3>1, <3>3, Zenon DEF Peers
    <3>4. CASE c[1] # w /\ c[2] # w
      BY <1>1, <1>6, <3>4
    <3> QED BY <3>2, <3>3, <3>4
  <2> QED BY <2>1, <2>2
<1> QED BY <1>4, <1>5, <1>6, <1>7, Zenon

\* One sweep of the executor, in these terms.
LEMMA SweepHasEffect ==
    ASSUME TypeOK, NEW w \in Workers, NEW n \in Arrivals(w), NEW late \in SUBSET Droppable(w),
           SweepWith(w, n, late)
    PROVE  /\ \E frames \in Seq(Batches) : SweepEffect(w, n, late, frames)
           /\ TypeOK'
           /\ UNCHANGED <<plan, stamp, exhausted>>
<1>1. /\ UNCHANGED <<plan, stamp, exhausted>>
      /\ Propagate(w, n)
      /\ live' = live \ late
      /\ ledger' = [ledger EXCEPT ![w] = Batch({}, late)]
      /\ done' = [done EXCEPT ![w] = @ \cup ShutDown(w)]
      /\ sealed' = IF SealNow(w, late) THEN sealed \cup {w} ELSE sealed
      /\ outcome' = [outcome EXCEPT ![w] = Outcome(w)]
  BY DEF SweepWith
<1>2. PICK frames \in Frames(ledger[w]) :
          lane' = [c \in DOMAIN lane |->
                      IF c[1] = w
                      THEN lane[c] \o frames \o
                           IF SealNow(w, late) THEN <<Seal>> ELSE <<>>
                      ELSE IF c[2] = w
                           THEN SubSeq(lane[c], n[c[1]] + 1, Len(lane[c]))
                           ELSE lane[c]]
  BY DEF SweepWith
<1>3. FramesInOrder(ledger[w], frames) /\ frames \in Seq(Batches)
  <2>1. ledger[w] \in Batches
    BY DEF TypeOK
  <2>2. FramesInOrder(ledger[w], frames)
    BY <2>1, FramesKeepOrder
  <2> QED BY <2>2 DEF FramesInOrder
<1>4. /\ view' \in [Workers -> Batches]
      /\ peer_sealed' \in [Workers -> SUBSET Workers]
      /\ \A v \in Peers(w) : n[v] \in 0..Len(lane[<<v, w>>])
      /\ \A v \in Workers : v # w => view'[v] = view[v]
      /\ \A u : u \in view'[w].plus <=>
           \/ u \in view[w].plus \/ u \in ledger[w].plus
           \/ \E v \in Peers(w) : \E k \in 1..n[v] : u \in lane[<<v, w>>][k].plus
      /\ \A u : u \in view'[w].minus <=>
           \/ u \in view[w].minus \/ u \in ledger[w].minus
           \/ \E v \in Peers(w) : \E k \in 1..n[v] : u \in lane[<<v, w>>][k].minus
  BY <1>1, PropagateFacts, Zenon
<1> DEFINE tail == IF SealNow(w, late) THEN <<Seal>> ELSE <<>>
<1>5. tail \in {<<>>, <<Seal>>}
  OBVIOUS
<1>6. lane' = [c \in DOMAIN lane |->
                  IF c[1] = w
                  THEN lane[c] \o frames \o tail
                  ELSE IF c[2] = w
                       THEN SubSeq(lane[c], n[c[1]] + 1, Len(lane[c]))
                       ELSE lane[c]]
  BY <1>2
<1> HIDE DEF tail
<1>7. /\ lane' \in [Pairs -> Seq(Batches)]
      /\ \A v \in Peers(w) :
           /\ Len(lane'[<<v, w>>]) = Len(lane[<<v, w>>]) - n[v]
           /\ \A i \in 1..Len(lane'[<<v, w>>]) : lane'[<<v, w>>][i] = lane[<<v, w>>][n[v] + i]
           /\ Len(lane'[<<w, v>>]) = Len(lane[<<w, v>>]) + Len(frames) + Len(tail)
           /\ Len(lane[<<w, v>>]) + Len(frames) <= Len(lane'[<<w, v>>])
           /\ \A i \in 1..Len(lane[<<w, v>>]) : lane'[<<w, v>>][i] = lane[<<w, v>>][i]
           /\ \A i \in 1..Len(frames) : lane'[<<w, v>>][Len(lane[<<w, v>>]) + i] = frames[i]
           /\ \A i \in 1..Len(lane'[<<w, v>>]) :
                 \/ i <= Len(lane[<<w, v>>])
                 \/ i - Len(lane[<<w, v>>]) \in 1..Len(frames)
                 \/ lane'[<<w, v>>][i] = Seal
      /\ \A c \in Pairs : c[1] # w /\ c[2] # w => lane'[c] = lane[c]
  BY <1>3, <1>4, <1>5, <1>6, LaneFacts, Zenon
<1>8. \A u \in late : u \in live /\ stamp[u].at = w /\ stamp[u].loc \in Outputs
  BY DEF Droppable
<1>9. SweepEffect(w, n, late, frames)
  BY <1>1, <1>3, <1>4, <1>7, <1>8, Zenon DEF SweepEffect
<1>10. live' \subseteq Units /\ ledger' \in [Workers -> Batches]
  BY <1>1, <1>8, Zenon DEF TypeOK, Batch, Batches
<1>11. done' \in [Workers -> SUBSET Ops] /\ sealed' \subseteq Workers
  <2>1. ShutDown(w) \subseteq Ops
    BY Zenon DEF ShutDown, Hosted
  <2> QED BY <1>1, <2>1 DEF TypeOK
<1>12. outcome' \in [Workers -> {"running", "succeeded", "residual"}]
  <2>1. Outcome(w) \in {"running", "succeeded", "residual"}
    BY DEF Outcome
  <2> QED BY <1>1, <2>1 DEF TypeOK
<1>13. TypeOK'
  BY <1>1, <1>4, <1>7, <1>10, <1>11, <1>12, Zenon DEF TypeOK
<1> QED BY <1>1, <1>3, <1>9, <1>13
=============================================================================
