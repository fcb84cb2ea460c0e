---------------------------- MODULE ProgressEnds ----------------------------
(***************************************************************************)
(* What a worker concludes from its own view is the truth about all        *)
(* workers: nothing reaches an operator that was shut down, a seal is a    *)
(* worker's last word, and success means that the dataflow is over.        *)
(***************************************************************************)
EXTENDS ProgressFrontiers

-----------------------------------------------------------------------------
(* Shutting down, sealing and ending.                                       *)

\* A view still counts something before every unit it has not seen go.
CountsWhatRemains ==
    \A w \in Workers : \A u \in Created : u \notin view[w].minus =>
        \E a \in view[w].plus :
            /\ <<stamp[a].loc, stamp[u].loc>> \in Reaches
            /\ Count(w, stamp[a].loc, stamp[a].time) > 0

\* StillCounted, as one formula.
LEMMA CutInvCounts == CutInv => CountsWhatRemains
<1> QED BY StillCounted DEF CountsWhatRemains

\* The locations of created units, and what they reach.
LEMMA LocOfCreated ==
    ASSUME TypeOK, NEW u \in Created
    PROVE  /\ stamp[u].loc \in Locations /\ stamp[u].at \in Workers
           /\ stamp[u].loc \in Inputs \/ stamp[u].loc \in Outputs
           /\ Op[stamp[u].loc] \in Ops
<1>1. stamp[u] \in Stamps
  BY DEF TypeOK, Created
<1> QED BY <1>1, GraphAssumption DEF Stamps, Locations

\* A sealed worker has no record to take and no capability to use.
LEMMA SealedHasNoUnits ==
    ASSUME CutInv, WellPlaced, Retired, StaysExhausted, SealedAtEnd,
           NEW w \in sealed, NEW u \in live
    PROVE  stamp[u].at # w
<1> SUFFICES ASSUME stamp[u].at = w PROVE FALSE
  OBVIOUS
<1> DEFINE l == stamp[u].loc
           o == Op[l]
<1>1. u \in Created /\ w \in Workers
  BY DEF CutInv, OnlyCreated, TypeOK
<1>2. l \in Locations /\ (l \in Inputs \/ l \in Outputs) /\ o \in Ops
  BY <1>1, LocOfCreated DEF CutInv
<1>3. o \in Hosted[w]
  BY <1>1, <1>2 DEF WellPlaced, Hosted
<1>4. l \in Inputs => Records(w, o) # {}
  BY DEF Records
<1>5. l \in Outputs => HoldsCapability(w, o)
  BY DEF HoldsCapability, Held
<1>6. CASE o \in done[w]
  <2>1. /\ \A i \in Inputs : Op[i] = o => <<l, i>> \notin Reaches
        /\ ~HoldsCapability(w, o)
    BY <1>1, <1>6 DEF Retired
  <2>2. <<l, l>> \in Reaches
    BY <1>2, ReachesAssumption
  <2> QED BY <1>2, <1>5, <2>1, <2>2
<1>7. CASE o \in exhausted[w]
  BY <1>1, <1>2, <1>4, <1>5, <1>7 DEF StaysExhausted, InputsEnded
<1> QED BY <1>3, <1>6, <1>7 DEF SealedAtEnd

\* What reaches a place in a worker's scope is in its scope.
LEMMA ScopeIsClosed ==
    ASSUME NEW w \in Workers, NEW l \in Locations, NEW k \in Scope[w], <<l, k>> \in Reaches
    PROVE  l \in Scope[w]
<1>1. k \in Locations /\ \E m \in Locations : w \in Hosts[Op[m]] /\ <<k, m>> \in Reaches
  BY DEF Scope
<1>2. PICK m \in Locations : w \in Hosts[Op[m]] /\ <<k, m>> \in Reaches
  BY <1>1
<1>3. <<l, m>> \in Reaches
  BY <1>1, <1>2, ReachesAssumption
<1> QED BY <1>2, <1>3 DEF Scope

\* Logic calls and drops revive no operator that was shut down or exhausted,
\* and give a sealed worker nothing to say.
LEMMA EffectKeepsEndInv ==
    ASSUME CutInv, EndInv, NEW w \in Workers, NEW o \in Ops, NEW taken \in SUBSET Units,
           NEW new \in SUBSET Units, CallEffect(w, o, taken, new),
           new # {} => o \notin done[w] /\ w \in Hosts[o],
           UNCHANGED <<plan, lane, view, peer_sealed, sealed, done, exhausted, outcome>>
    PROVE  EndInv'
<1> USE DEF EndInv
<1>0. TypeOK /\ OnlyCreated
  BY DEF CutInv
<1>a. /\ Created' = Created \cup new
      /\ \A u \in Created : stamp'[u] = stamp[u]
      /\ \A v \in Workers : v # w => ledger'[v] = ledger[v]
      /\ taken \subseteq live
  BY <1>0, EffectFacts, Zenon
<1>1. /\ Created' = Created \cup new
      /\ \A u \in Created : stamp'[u] = stamp[u]
      /\ taken \subseteq live /\ live \subseteq Created
      /\ live' = (live \ taken) \cup new
  BY <1>0, <1>a DEF OnlyCreated, CallEffect
<1>2. ASSUME NEW u \in new
      PROVE  /\ stamp'[u].loc \in Locations /\ stamp'[u].at \in Workers
             /\ stamp'[u].at \in Hosts[Op[stamp'[u].loc]]
             /\ \/ stamp'[u].loc \in Outputs /\ Op[stamp'[u].loc] = o /\ stamp'[u].at = w
                \/ \E p \in Outputs :
                     /\ stamp'[u].loc \in Inputs /\ Op[p] = o /\ <<p, stamp'[u].loc>> \in Edges
                     /\ plan.routing[<<p, stamp'[u].loc>>] = "pipeline" => stamp'[u].at = w
  BY DEF CallEffect, Stamps
<1>3. ASSUME NEW u \in new
      PROVE  \E c \in live : /\ stamp[c].at = w /\ Op[stamp[c].loc] = o
                             /\ <<stamp[c].loc, stamp'[u].loc>> \in Reaches
                             /\ stamp[c].loc \in Locations
                             /\ stamp[c].loc \in Inputs \/ stamp[c].loc \in Outputs
  <2>1. PICK c \in live : /\ stamp[c].at = w /\ Op[stamp[c].loc] = o
                          /\ <<stamp[c].loc, stamp'[u].loc>> \in Reaches
    BY DEF CallEffect, Caused
  <2>2. c \in Created
    BY <1>1
  <2> QED BY <2>1, <2>2, LocOfCreated DEF CutInv
<1>4. WellPlaced'
  BY <1>1, <1>2 DEF WellPlaced
<1>5. Retired'
  <2> SUFFICES ASSUME NEW v \in Workers, NEW q \in done[v]
               PROVE  /\ \A u \in live', i \in Inputs : Op[i] = q => <<stamp'[u].loc, i>> \notin Reaches
                      /\ ~HoldsCapability(v, q)'
    BY DEF Retired
  <2>1. /\ \A u \in live, i \in Inputs : Op[i] = q => <<stamp[u].loc, i>> \notin Reaches
        /\ ~HoldsCapability(v, q)
    BY DEF Retired
  <2>2. ASSUME NEW u \in live', NEW i \in Inputs, Op[i] = q, <<stamp'[u].loc, i>> \in Reaches
        PROVE  FALSE
    <3>1. CASE u \in live
      BY <1>1, <2>1, <2>2, <3>1
    <3>2. CASE u \in new
      <4>1. PICK c \in live : /\ <<stamp[c].loc, stamp'[u].loc>> \in Reaches
                              /\ stamp[c].loc \in Locations
        BY <1>3, <3>2
      <4>2. stamp'[u].loc \in Locations /\ i \in Locations
        BY <1>2, <3>2 DEF Locations
      <4>3. <<stamp[c].loc, i>> \in Reaches
        BY <2>2, <4>1, <4>2, ReachesAssumption
      <4> QED BY <2>1, <2>2, <4>3
    <3> QED BY <1>1, <3>1, <3>2
  <2>3. ASSUME HoldsCapability(v, q)'
        PROVE  FALSE
    <3>1. PICK p \in Outputs, u \in live' : Op[p] = q /\ stamp'[u].loc = p /\ stamp'[u].at = v
      BY <2>3 DEF HoldsCapability, Held
    <3>2. CASE u \in live
      BY <1>1, <2>1, <3>1, <3>2 DEF HoldsCapability, Held
    <3>3. CASE u \in new
      BY <1>2, <3>1, <3>3, GraphAssumption, Zenon
    <3> QED BY <1>1, <3>1, <3>2, <3>3
  <2> QED BY <2>2, <2>3
<1>6. StaysExhausted'
  <2> SUFFICES ASSUME NEW v \in Workers, NEW q \in exhausted[v]
               PROVE  InputsEnded(v, q)' /\ ~HoldsCapability(v, q)'
    BY DEF StaysExhausted
  <2>1. /\ Records(v, q) = {}
        /\ \A e \in Edges : Op[e[2]] = q => \A x \in Feeders(v, e) : Op[e[1]] \in done[x]
        /\ ~HoldsCapability(v, q)
    BY DEF StaysExhausted, InputsEnded
  <2>2. ASSUME NEW u \in Records(v, q)'
        PROVE  FALSE
    <3>1. u \in live' /\ stamp'[u].loc \in Inputs /\ Op[stamp'[u].loc] = q /\ stamp'[u].at = v
      BY <2>2 DEF Records
    <3>2. CASE u \in live
      BY <1>1, <2>1, <3>1, <3>2 DEF Records
    <3>3. CASE u \in new
      <4>1. PICK p \in Outputs :
                /\ Op[p] = o /\ <<p, stamp'[u].loc>> \in Edges
                /\ plan.routing[<<p, stamp'[u].loc>>] = "pipeline" => stamp'[u].at = w
        BY <1>2, <3>1, <3>3, GraphAssumption, Zenon
      <4>2. w \in Feeders(v, <<p, stamp'[u].loc>>)
        BY <3>1, <3>3, <4>1 DEF Feeders
      <4>3. o \in done[w]
        BY <2>1, <3>1, <4>1, <4>2
      <4> QED BY <3>3, <4>3
    <3> QED BY <1>1, <3>1, <3>2, <3>3
  <2>3. \A e : Feeders(v, e)' = Feeders(v, e)
    BY DEF Feeders
  <2>4. InputsEnded(v, q)'
    BY <2>1, <2>2, <2>3 DEF InputsEnded
  <2>5. ASSUME HoldsCapability(v, q)'
        PROVE  FALSE
    <3>1. PICK p \in Outputs, u \in live' : Op[p] = q /\ stamp'[u].loc = p /\ stamp'[u].at = v
      BY <2>5 DEF HoldsCapability, Held
    <3>2. CASE u \in live
      BY <1>1, <2>1, <3>1, <3>2 DEF HoldsCapability, Held
    <3>3. CASE u \in new
      <4>1. q = o /\ v = w
        BY <1>2, <3>1, <3>3, GraphAssumption, Zenon
      <4>2. PICK c \in live : /\ stamp[c].at = w /\ Op[stamp[c].loc] = o
                              /\ stamp[c].loc \in Inputs \/ stamp[c].loc \in Outputs
        BY <1>3, <3>3, Zenon
      <4>3. Records(w, o) # {} \/ HoldsCapability(w, o)
        BY <4>2 DEF Records, HoldsCapability, Held
      <4> QED BY <2>1, <4>1, <4>3
    <3> QED BY <1>1, <3>1, <3>2, <3>3
  <2> QED BY <2>4, <2>5
<1>7. SealedAtEnd'
  <2> SUFFICES ASSUME NEW v \in sealed
               PROVE  ledger'[v] = Nothing
    BY DEF SealedAtEnd
  <2>1. v \in Workers /\ ledger[v] = Nothing
    BY DEF SealedAtEnd, CutInv, TypeOK
  <2>2. CASE v # w
    BY <1>a, <2>1, <2>2
  <2>3. CASE v = w
    <3>1. \A u \in live : stamp[u].at # w
      BY <2>3, SealedHasNoUnits
    <3>2. taken = {} /\ new = {}
      BY <1>3, <3>1, Zenon DEF CallEffect
    <3>3. ledger' = [ledger EXCEPT ![w].plus = @ \cup {}, ![w].minus = @ \cup {}]
      BY <3>2 DEF CallEffect
    <3>4. ledger'[w] = ledger[w]
      BY <3>3, Zenon DEF CutInv, TypeOK, Batches
    <3> QED BY <2>1, <2>3, <3>4
  <2> QED BY <2>2, <2>3
<1>8. SuccessIsGlobal'
  <2> SUFFICES ASSUME NEW v \in Workers, outcome[v] = "succeeded", NEW u \in live',
                      stamp'[u].loc \in Scope[v]
               PROVE  FALSE
    BY DEF SuccessIsGlobal
  <2>1. \A x \in live : stamp[x].loc \notin Scope[v]
    BY DEF SuccessIsGlobal
  <2>2. CASE u \in live
    BY <1>1, <2>1, <2>2
  <2>3. CASE u \in new
    BY <1>3, <2>1, <2>3, ScopeIsClosed, Zenon
  <2> QED BY <1>1, <2>2, <2>3
<1> QED BY <1>4, <1>5, <1>6, <1>7, <1>8

\* What a sweep decides from its own view is true of all workers.
LEMMA SweepKeepsEndInv ==
    ASSUME CutInv, CutInv', CountsWhatRemains', EndInv, NEW w \in Workers,
           NEW n \in Arrivals(w), NEW late \in SUBSET Droppable(w), SweepWith(w, n, late)
    PROVE  EndInv'
<1> USE DEF EndInv
<1>1. /\ stamp' = stamp /\ plan' = plan /\ exhausted' = exhausted
      /\ live' = live \ late
      /\ ledger' = [ledger EXCEPT ![w] = Batch({}, late)]
      /\ done' = [done EXCEPT ![w] = @ \cup ShutDown(w)]
      /\ sealed' = IF SealNow(w, late) THEN sealed \cup {w} ELSE sealed
      /\ outcome' = [outcome EXCEPT ![w] = Outcome(w)]
  BY DEF SweepWith
<1>2. Created' = Created /\ live \subseteq Created
  BY <1>1 DEF Created, CutInv, OnlyCreated
<1>3. \A u \in late : u \in live /\ stamp[u].at = w /\ stamp[u].loc \in Outputs
  BY DEF Droppable
<1>4. /\ \A v \in Workers : v # w => /\ done'[v] = done[v]
                                     /\ ledger'[v] = ledger[v]
                                     /\ outcome'[v] = outcome[v]
      /\ done'[w] = done[w] \cup ShutDown(w)
      /\ ledger'[w] = Batch({}, late)
      /\ outcome'[w] = Outcome(w)
  BY <1>1 DEF CutInv, TypeOK
<1>5. \A u \in live' \cup late : u \in Created /\ u \notin view'[w].minus
  <2>1. \A u \in live' : u \notin view'[w].minus
    BY DEF CutInv, EndsOnce
  <2>2. \A u \in ledger'[w].minus : u \notin view'[w].minus
    BY DEF CutInv, EndsOnce
  <2>3. ledger'[w].minus = late
    BY <1>4 DEF Batch
  <2> QED BY <1>1, <1>2, <1>3, <2>1, <2>2, <2>3
<1>6. ASSUME NEW u \in live' \cup late
      PROVE  \E a \in view'[w].plus :
                /\ <<stamp[a].loc, stamp[u].loc>> \in Reaches
                /\ Count(w, stamp[a].loc, stamp[a].time)' > 0
                /\ a \in Created /\ stamp[a].loc \in Locations
  <2>1. PICK a \in view'[w].plus :
                /\ <<stamp'[a].loc, stamp'[u].loc>> \in Reaches
                /\ Count(w, stamp[a].loc, stamp[a].time)' > 0
    BY <1>2, <1>5 DEF CountsWhatRemains
  <2>2. a \in Created
    BY <1>2 DEF CutInv, OnlyCreated
  <2>3. stamp[a].loc \in Locations
    BY <2>2, LocOfCreated DEF CutInv
  <2> QED BY <1>1, <2>1, <2>2, <2>3
<1>7. \A u \in live' \cup late : stamp[u].loc \in Locations
  BY <1>5, LocOfCreated DEF CutInv
<1>8. WellPlaced'
  BY <1>1, <1>2 DEF WellPlaced
<1>9. \A v, o : HoldsCapability(v, o)' => HoldsCapability(v, o)
  BY <1>1 DEF HoldsCapability, Held
<1>10. Retired'
  <2> SUFFICES ASSUME NEW v \in Workers, NEW o \in done'[v]
               PROVE  /\ \A u \in live', i \in Inputs : Op[i] = o => <<stamp[u].loc, i>> \notin Reaches
                      /\ ~HoldsCapability(v, o)'
    BY <1>1 DEF Retired
  <2>1. CASE o \in done[v]
    BY <1>1, <1>9, <2>1 DEF Retired
  <2>2. CASE v = w /\ o \in ShutDown(w)
    <3>1. ~HoldsCapability(w, o)' /\ inputs_empty(w, o)'
      BY <2>2 DEF ShutDown
    <3>2. ASSUME NEW u \in live', NEW i \in Inputs, Op[i] = o, <<stamp[u].loc, i>> \in Reaches
          PROVE  FALSE
      <4>1. PICK a \in view'[w].plus :
                /\ <<stamp[a].loc, stamp[u].loc>> \in Reaches
                /\ Count(w, stamp[a].loc, stamp[a].time)' > 0
                /\ stamp[a].loc \in Locations
        BY <1>6
      <4>2. <<stamp[a].loc, i>> \in Reaches
        BY <1>7, <3>2, <4>1, ReachesAssumption DEF Locations
      <4> QED BY <1>1, <3>1, <3>2, <4>1, <4>2 DEF inputs_empty
    <3> QED BY <2>2, <3>1, <3>2
  <2> QED BY <1>4, <2>1, <2>2
<1>11. StaysExhausted'
  <2> SUFFICES ASSUME NEW v \in Workers, NEW o \in exhausted[v]
               PROVE  InputsEnded(v, o)' /\ ~HoldsCapability(v, o)'
    BY <1>1 DEF StaysExhausted
  <2>1. /\ Records(v, o) = {}
        /\ \A e \in Edges : Op[e[2]] = o => \A x \in Feeders(v, e) : Op[e[1]] \in done[x]
        /\ ~HoldsCapability(v, o)
    BY DEF StaysExhausted, InputsEnded
  <2>2. Records(v, o)' = {}
    BY <1>1, <2>1 DEF Records
  <2>3. \A e \in Edges : Feeders(v, e)' = Feeders(v, e) /\ Feeders(v, e) \subseteq Workers
    BY <1>1, GraphAssumption DEF Feeders, Locations
  <2>4. \A x \in Workers : done[x] \subseteq done'[x]
    BY <1>4
  <2>5. InputsEnded(v, o)'
    BY <2>1, <2>2, <2>3, <2>4 DEF InputsEnded
  <2> QED BY <1>9, <2>1, <2>5
<1>12. w \in sealed => late = {}
  BY <1>3, SealedHasNoUnits
<1>13. SealedAtEnd'
  <2> SUFFICES ASSUME NEW v \in sealed'
               PROVE  Hosted[v] \subseteq done'[v] \cup exhausted[v] /\ ledger'[v] = Nothing
    BY <1>1 DEF SealedAtEnd
  <2>1. CASE v \in sealed
    <3>1. v \in Workers /\ Hosted[v] \subseteq done[v] \cup exhausted[v] /\ ledger[v] = Nothing
      BY <2>1 DEF SealedAtEnd, CutInv, TypeOK
    <3>2. CASE v = w
      BY <1>4, <1>12, <2>1, <3>1, <3>2 DEF Nothing
    <3>3. CASE v # w
      BY <1>4, <3>1, <3>3
    <3> QED BY <3>2, <3>3
  <2>2. CASE v = w /\ SealNow(w, late)
    BY <1>4, <2>2 DEF SealNow, Nothing
  <2> QED BY <1>1, <2>1, <2>2
<1>14. SuccessIsGlobal'
  <2> SUFFICES ASSUME NEW v \in Workers, outcome'[v] = "succeeded"
               PROVE  v \in sealed' /\ \A u \in live' : stamp[u].loc \notin Scope[v]
    BY <1>1 DEF SuccessIsGlobal
  <2>1. CASE v # w
    <3>1. outcome[v] = "succeeded"
      BY <1>4, <2>1
    <3>2. v \in sealed /\ \A u \in live : stamp[u].loc \notin Scope[v]
      BY <3>1 DEF SuccessIsGlobal
    <3> QED BY <1>1, <3>2
  <2>2. CASE v = w
    <3>1. Hosted[w] \subseteq done'[w] /\ scope_is_zero(w)'
      BY <1>4, <2>2 DEF Outcome
    <3>2. ASSUME NEW u \in live' \cup late, stamp[u].loc \in Scope[w]
          PROVE  FALSE
      <4>1. PICK a \in view'[w].plus :
                /\ <<stamp[a].loc, stamp[u].loc>> \in Reaches
                /\ Count(w, stamp[a].loc, stamp[a].time)' > 0
                /\ stamp[a].loc \in Locations
        BY <1>6
      <4>2. stamp[a].loc \in Scope[w]
        BY <3>2, <4>1, ScopeIsClosed
      <4>3. Count(w, stamp[a].loc, stamp[a].time)' = 0
        BY <1>1, <3>1, <4>2 DEF scope_is_zero
      <4> QED BY <4>1, <4>3
    <3>3. late = {}
      <4> SUFFICES ASSUME NEW u \in late PROVE FALSE
        OBVIOUS
      <4>1. stamp[u].loc \in Locations /\ w \in Hosts[Op[stamp[u].loc]]
        BY <1>2, <1>3, <1>7 DEF WellPlaced
      <4>2. stamp[u].loc \in Scope[w]
        BY <4>1, ReachesAssumption DEF Scope
      <4> QED BY <3>2, <4>2
    <3>4. w \in sealed'
      BY <1>1, <3>1, <3>3 DEF SealNow
    <3> QED BY <2>2, <3>2, <3>4
  <2> QED BY <2>1, <2>2
<1> QED BY <1>8, <1>10, <1>11, <1>13, <1>14

\* At the start nothing was shut down, latched, sealed or ended.
LEMMA InitEndInv == Init => EndInv
<1> SUFFICES ASSUME Init PROVE EndInv
  OBVIOUS
<1>1. \A w \in Workers : done[w] = {} /\ exhausted[w] = {} /\ outcome[w] = "running"
  BY DEF Init
<1>2. WellPlaced
  <2> SUFFICES ASSUME NEW u \in Created
               PROVE  stamp[u].at \in Hosts[Op[stamp[u].loc]]
    BY DEF WellPlaced
  <2>1. u \in Units /\ u \in Seeds
    BY DEF Init, Created
  <2>2. stamp[u] = [loc |-> u[2], time |-> 0, at |-> u[1]]
    BY <2>1 DEF Init
  <2>3. u[1] \in Hosts[Op[u[2]]]
    BY <2>1 DEF Seeds
  <2> QED BY <2>2, <2>3
<1>3. Retired /\ StaysExhausted
  BY <1>1 DEF Retired, StaysExhausted
<1>4. SealedAtEnd
  BY DEF SealedAtEnd, Init
<1>5. SuccessIsGlobal
  BY <1>1 DEF SuccessIsGlobal
<1> QED BY <1>2, <1>3, <1>4, <1>5 DEF EndInv

\* The inductive step, on top of what the views count.
LEMMA NextEndInv ==
    CutInv /\ CutInv' /\ CountsWhatRemains' /\ EndInv /\ [Next]_vars => EndInv'
<1> SUFFICES ASSUME CutInv, CutInv', CountsWhatRemains', EndInv, [Next]_vars
             PROVE  EndInv'
  OBVIOUS
<1>1. ASSUME NEW w \in Workers, NEW o \in Ops, Call(w, o)
      PROVE  EndInv'
  <2>1. /\ \E taken, new \in SUBSET Units : CallEffect(w, o, taken, new)
        /\ w \in Hosts[o] /\ o \notin done[w]
        /\ UNCHANGED <<plan, lane, view, peer_sealed, sealed, done, exhausted, outcome>>
    BY <1>1, CallHasEffect DEF CutInv
  <2> QED BY <2>1, EffectKeepsEndInv
<1>2. ASSUME NEW w \in Workers, NEW o \in Ops, Exhaust(w, o)
      PROVE  EndInv'
  <2>1. /\ UNCHANGED <<plan, stamp, live, ledger, lane, view, peer_sealed, sealed, done, outcome>>
        /\ exhausted' = [exhausted EXCEPT ![w] = @ \cup {o}]
        /\ InputsEnded(w, o) /\ ~HoldsCapability(w, o)
    BY <1>2 DEF Exhaust, shell, tracker
  <2>2. /\ \A v \in Workers : exhausted[v] \subseteq exhausted'[v]
        /\ \A v \in Workers : \A q \in exhausted'[v] : q \in exhausted[v] \/ (v = w /\ q = o)
    BY <2>1 DEF CutInv, TypeOK
  <2>3. WellPlaced' /\ Retired' /\ SuccessIsGlobal'
    BY <2>1 DEF EndInv, WellPlaced, Retired, SuccessIsGlobal, Created, HoldsCapability, Held
  <2>4. \A v, q : /\ InputsEnded(v, q)' <=> InputsEnded(v, q)
                  /\ HoldsCapability(v, q)' <=> HoldsCapability(v, q)
    BY <2>1 DEF InputsEnded, Records, Feeders, HoldsCapability, Held
  <2>5. StaysExhausted'
    BY <2>1, <2>2, <2>4 DEF EndInv, StaysExhausted
  <2>6. SealedAtEnd'
    BY <2>1, <2>2 DEF EndInv, SealedAtEnd, CutInv, TypeOK
  <2> QED BY <2>3, <2>5, <2>6 DEF EndInv
<1>3. ASSUME NEW u \in Units, Release(u)
      PROVE  EndInv'
  <2>1. /\ stamp[u].at \in Workers
        /\ CallEffect(stamp[u].at, Op[stamp[u].loc], {u}, {})
        /\ UNCHANGED <<plan, lane, view, peer_sealed, sealed, done, exhausted, outcome>>
    BY <1>3, ReleaseHasEffect, Zenon DEF CutInv
  <2>2. {u} \in SUBSET Units /\ {} \in SUBSET Units
    OBVIOUS
  <2>3. Op[stamp[u].loc] \in Ops
    BY <1>3, LocOfCreated DEF Release, CutInv, OnlyCreated
  <2> QED BY <2>1, <2>2, <2>3, EffectKeepsEndInv
<1>4. ASSUME NEW w \in Workers, Sweep(w)
      PROVE  EndInv'
  BY <1>4, SweepKeepsEndInv DEF Sweep
<1>5. CASE UNCHANGED vars
  <2>1. \A v, q : /\ InputsEnded(v, q)' <=> InputsEnded(v, q)
                  /\ HoldsCapability(v, q)' <=> HoldsCapability(v, q)
    BY <1>5 DEF vars, InputsEnded, Records, Feeders, HoldsCapability, Held
  <2>2. WellPlaced' /\ Retired' /\ SuccessIsGlobal'
    BY <1>5, <2>1, Zenon DEF vars, EndInv, WellPlaced, Retired, SuccessIsGlobal, Created
  <2>3. StaysExhausted' /\ SealedAtEnd'
    BY <1>5, <2>1 DEF vars, EndInv, StaysExhausted, SealedAtEnd
  <2> QED BY <2>2, <2>3 DEF EndInv
<1>6. CASE Ended
  BY <1>5, <1>6 DEF Ended
<1> QED BY <1>1, <1>2, <1>3, <1>4, <1>5, <1>6 DEF Next

\* How the workers' decisions stand to the truth, in every reachable state.
LEMMA EndsStayTrue == Spec => []EndInv
<1> QED BY InitEndInv, NextEndInv, CutsStaySound, CutInvCounts, PTL DEF Spec

\* An operator that was shut down holds no capability, and no record is on its
\* way to it: check_after_shutdown never fails a dataflow.
THEOREM ShutdownIsSafe == Spec => []NothingAfterShutdown
<1>1. CutInv /\ EndInv => NothingAfterShutdown
  <2> SUFFICES ASSUME CutInv, EndInv, NEW w \in Workers, NEW o \in done[w]
               PROVE  Records(w, o) = {} /\ ~HoldsCapability(w, o)
    BY DEF NothingAfterShutdown
  <2>1. /\ \A u \in live, i \in Inputs : Op[i] = o => <<stamp[u].loc, i>> \notin Reaches
        /\ ~HoldsCapability(w, o)
    BY DEF EndInv, Retired
  <2>2. \A i \in Inputs : <<i, i>> \in Reaches
    BY ReachesAssumption, Zenon DEF Locations
  <2> QED BY <2>1, <2>2, Zenon DEF Records
<1> QED BY <1>1, CutsStaySound, EndsStayTrue, PTL

\* A worker that sealed its progress stream has nothing left to commit, and
\* nothing that could give it something: the seal is its last batch.
THEOREM SealsAreLast == Spec => []SealIsLast
<1>1. CutInv /\ EndInv => SealIsLast
  BY SealedHasNoUnits DEF EndInv, SealIsLast, SealedAtEnd
<1> QED BY <1>1, CutsStaySound, EndsStayTrue, PTL

\* A worker that reports success sealed its stream, and nothing anywhere in
\* the dataflow could still reach one of its operators.
THEOREM SuccessIsTrue == Spec => []SuccessIsGlobal
<1>1. EndInv => SuccessIsGlobal
  BY DEF EndInv
<1> QED BY <1>1, EndsStayTrue, PTL

-----------------------------------------------------------------------------
(* No worker is left with a residual.                                       *)

\* Every change a unit made is in a view, on the way to it, or to be sent.
Told(w, u) ==
    \/ u \in view[w].plus
    \/ \E v \in Peers(w) : \E i \in 1..Len(lane[<<v, w>>]) : u \in lane[<<v, w>>][i].plus
    \/ \E v \in Workers : u \in ledger[v].plus

ToldGone(w, u) ==
    \/ u \in view[w].minus
    \/ \E v \in Peers(w) : \E i \in 1..Len(lane[<<v, w>>]) : u \in lane[<<v, w>>][i].minus
    \/ \E v \in Workers : u \in ledger[v].minus

NothingIsLost ==
    \A w \in Workers : \A u \in Created : Told(w, u) /\ (u \in live \/ ToldGone(w, u))

\* A seal is the last thing on its lane, and nothing is sent after it.
SealsInOrder ==
    /\ \A v \in Workers : ~ledger[v].seal
    /\ \A c \in Pairs : \A i \in 1..Len(lane[c]) :
          lane[c][i].seal => c[1] \in sealed /\ i = Len(lane[c])
    /\ \A w \in Workers : \A v \in peer_sealed[w] :
          v \in Peers(w) /\ v \in sealed /\ Len(lane[<<v, w>>]) = 0

\* S2b: "residual" is the outcome of a worker that has applied every seal and
\* still counts something.
NoResidual == \A w \in Workers : outcome[w] # "residual"

\* What was sent is received or still on its way, what is to be sent is sent.
LEMMA SweepMovesBatches ==
    ASSUME TypeOK, TypeOK', NEW w \in Workers, NEW n, NEW late, NEW frames \in Seq(Batches),
           SweepEffect(w, n, late, frames)
    PROVE  /\ \A x \in Workers : \A v \in Peers(x) : \A i \in 1..Len(lane[<<v, x>>]) :
                \/ x = w /\ i \in 1..n[v]
                \/ \E j \in 1..Len(lane'[<<v, x>>]) : lane'[<<v, x>>][j] = lane[<<v, x>>][i]
           /\ \A x \in Peers(w) : \A i \in 1..Len(frames) :
                \E j \in 1..Len(lane'[<<w, x>>]) : lane'[<<w, x>>][j] = frames[i]
<1>1. \A c \in Pairs : Len(lane[c]) \in Nat /\ Len(lane'[c]) \in Nat
  BY DEF TypeOK
<1>2. Len(frames) \in Nat
  OBVIOUS
<1>3. ASSUME NEW x \in Peers(w)
      PROVE  /\ <<w, x>> \in Pairs
             /\ Len(lane[<<w, x>>]) + Len(frames) <= Len(lane'[<<w, x>>])
             /\ \A i \in 1..Len(lane[<<w, x>>]) : lane'[<<w, x>>][i] = lane[<<w, x>>][i]
             /\ \A i \in 1..Len(frames) : lane'[<<w, x>>][Len(lane[<<w, x>>]) + i] = frames[i]
  <2>1. <<w, x>> \in Pairs
    BY DEF Peers, Pairs
  <2> QED BY <2>1, Zenon DEF SweepEffect
<1>4. ASSUME NEW x \in Workers, NEW v \in Peers(x), NEW i \in 1..Len(lane[<<v, x>>])
      PROVE  \/ x = w /\ i \in 1..n[v]
             \/ \E j \in 1..Len(lane'[<<v, x>>]) : lane'[<<v, x>>][j] = lane[<<v, x>>][i]
  <2> DEFINE d == <<v, x>>
             L == Len(lane[d])
             L1 == Len(lane'[d])
  <2>1. d \in Pairs /\ v \in Workers /\ v # x
    BY DEF Peers, Pairs
  <2>2. L \in Nat /\ L1 \in Nat /\ i \in 1..L
    BY <1>1, <1>4, <2>1
  <2>3. CASE x = w
    <3> DEFINE m == n[v]
    <3>1. /\ m \in 0..L /\ L1 = L - m
          /\ \A k \in 1..L1 : lane'[d][k] = lane[d][m + k]
      BY <2>3, Zenon DEF SweepEffect
    <3>2. i \in 1..m \/ (i - m \in 1..L1 /\ m + (i - m) = i)
      <4>1. m \in 0..L /\ L1 = L - m
        BY <3>1
      <4> HIDE DEF m, L, L1
      <4> QED BY <2>2, <4>1
    <3>3. ASSUME i - m \in 1..L1, m + (i - m) = i
          PROVE  lane'[d][i - m] = lane[d][i]
      <4>1. lane'[d][i - m] = lane[d][m + (i - m)]
        BY <3>1, <3>3, Zenon
      <4> QED BY <3>3, <4>1
    <3> HIDE DEF L1
    <3> QED BY <2>3, <3>2, <3>3 DEF L1
  <2>4. CASE x # w /\ v = w
    <3>1. /\ L + Len(frames) <= L1
          /\ \A k \in 1..L : lane'[d][k] = lane[d][k]
      BY <1>3, <2>4, Zenon DEF Peers
    <3>2. i \in 1..L1
      <4>1. L + Len(frames) <= L1
        BY <3>1
      <4> HIDE DEF L, L1
      <4> QED BY <1>2, <2>2, <4>1
    <3> QED BY <2>2, <3>1, <3>2, Zenon
  <2>5. CASE x # w /\ v # w
    <3>1. lane'[d] = lane[d]
      BY <2>1, <2>5 DEF SweepEffect
    <3> QED BY <2>2, <3>1
  <2> QED BY <2>3, <2>4, <2>5
<1>5. ASSUME NEW x \in Peers(w), NEW i \in 1..Len(frames)
      PROVE  \E j \in 1..Len(lane'[<<w, x>>]) : lane'[<<w, x>>][j] = frames[i]
  <2> DEFINE L == Len(lane[<<w, x>>])
             L1 == Len(lane'[<<w, x>>])
  <2>1. L \in Nat /\ L1 \in Nat /\ L + Len(frames) <= L1
    BY <1>1, <1>3
  <2>2. L + i \in 1..L1
    <3> HIDE DEF L, L1
    <3> QED BY <1>2, <2>1
  <2> QED BY <1>3, <2>2
<1> QED BY <1>4, <1>5, Zenon

\* A sweep forgets nothing: its commit goes to its own view and on every lane.
LEMMA SweepLosesNothing ==
    ASSUME CutInv, CutInv', NothingIsLost, NEW w \in Workers, NEW n, NEW late,
           NEW frames \in Seq(Batches), SweepEffect(w, n, late, frames), stamp' = stamp
    PROVE  NothingIsLost'
<1> DEFINE Kept(x, v, i) ==
        \E j \in 1..Len(lane'[<<v, x>>]) : lane'[<<v, x>>][j] = lane[<<v, x>>][i]
<1>1. /\ \A x \in Workers : \A v \in Peers(x) : \A i \in 1..Len(lane[<<v, x>>]) :
           (x = w /\ i \in 1..n[v]) \/ Kept(x, v, i)
      /\ \A x \in Peers(w) : \A i \in 1..Len(frames) :
           \E j \in 1..Len(lane'[<<w, x>>]) : lane'[<<w, x>>][j] = frames[i]
  BY SweepMovesBatches, Zenon DEF CutInv
<1>2. Created' = Created
  BY DEF Created
<1>3. /\ \A x \in Workers : view[x].plus \subseteq view'[x].plus
      /\ \A x \in Workers : view[x].minus \subseteq view'[x].minus
      /\ ledger[w].plus \subseteq view'[w].plus /\ ledger[w].minus \subseteq view'[w].minus
      /\ \A v \in Peers(w) : \A i \in 1..n[v] :
            /\ lane[<<v, w>>][i].plus \subseteq view'[w].plus
            /\ lane[<<v, w>>][i].minus \subseteq view'[w].minus
  BY Zenon DEF SweepEffect
<1>4. /\ \A v \in Workers : v # w => ledger'[v] = ledger[v]
      /\ ledger'[w].minus = late /\ live' = live \ late
  BY Zenon DEF SweepEffect, CutInv, TypeOK, Batch
<1>5. /\ \A u \in ledger[w].plus : \E i \in 1..Len(frames) : u \in frames[i].plus
      /\ \A u \in ledger[w].minus : \E i \in 1..Len(frames) : u \in frames[i].minus
  BY DEF SweepEffect, FramesInOrder
<1>6. ASSUME NEW x \in Workers, NEW u, Told(x, u)
      PROVE  Told(x, u)'
  <2>1. CASE u \in view[x].plus
    BY <1>3, <2>1 DEF Told
  <2>2. CASE \E v \in Peers(x) : \E i \in 1..Len(lane[<<v, x>>]) : u \in lane[<<v, x>>][i].plus
    <3>0. PICK v \in Peers(x) :
            \E i \in 1..Len(lane[<<v, x>>]) : u \in lane[<<v, x>>][i].plus
      BY <2>2
    <3>1. PICK i \in 1..Len(lane[<<v, x>>]) : u \in lane[<<v, x>>][i].plus
      BY <3>0
    <3>2. CASE x = w /\ i \in 1..n[v]
      <4>1. u \in view'[x].plus
        BY <1>3, <3>1, <3>2
      <4> QED BY <4>1 DEF Told
    <3>3. CASE Kept(x, v, i)
      <4>1. \E j \in 1..Len(lane'[<<v, x>>]) : u \in lane'[<<v, x>>][j].plus
        BY <3>1, <3>3
      <4> QED BY <4>1, Zenon DEF Told
    <3> QED BY <1>1, <3>1, <3>2, <3>3
  <2>3. CASE \E v \in Workers : u \in ledger[v].plus
    <3>1. PICK v \in Workers : u \in ledger[v].plus
      BY <2>3
    <3>2. CASE v # w
      BY <1>4, <3>1, <3>2 DEF Told
    <3>3. CASE v = w /\ x = w
      BY <1>3, <3>1, <3>3 DEF Told
    <3>4. CASE v = w /\ x # w
      <4>1. PICK i \in 1..Len(frames) : u \in frames[i].plus
        BY <1>5, <3>1, <3>4
      <4>2. x \in Peers(w) /\ w \in Peers(x)
        BY <3>4 DEF Peers
      <4>3. \E j \in 1..Len(lane'[<<w, x>>]) : u \in lane'[<<w, x>>][j].plus
        BY <1>1, <4>1, <4>2
      <4> QED BY <4>2, <4>3 DEF Told
    <3> QED BY <3>2, <3>3, <3>4
  <2> QED BY <1>6, <2>1, <2>2, <2>3, Zenon DEF Told
<1>7. ASSUME NEW x \in Workers, NEW u, ToldGone(x, u)
      PROVE  ToldGone(x, u)'
  <2>1. CASE u \in view[x].minus
    BY <1>3, <2>1 DEF ToldGone
  <2>2. CASE \E v \in Peers(x) : \E i \in 1..Len(lane[<<v, x>>]) : u \in lane[<<v, x>>][i].minus
    <3>0. PICK v \in Peers(x) :
            \E i \in 1..Len(lane[<<v, x>>]) : u \in lane[<<v, x>>][i].minus
      BY <2>2
    <3>1. PICK i \in 1..Len(lane[<<v, x>>]) : u \in lane[<<v, x>>][i].minus
      BY <3>0
    <3>2. CASE x = w /\ i \in 1..n[v]
      <4>1. u \in view'[x].minus
        BY <1>3, <3>1, <3>2
      <4> QED BY <4>1 DEF ToldGone
    <3>3. CASE Kept(x, v, i)
      <4>1. \E j \in 1..Len(lane'[<<v, x>>]) : u \in lane'[<<v, x>>][j].minus
        BY <3>1, <3>3
      <4> QED BY <4>1, Zenon DEF ToldGone
    <3> QED BY <1>1, <3>1, <3>2, <3>3
  <2>3. CASE \E v \in Workers : u \in ledger[v].minus
    <3>1. PICK v \in Workers : u \in ledger[v].minus
      BY <2>3
    <3>2. CASE v # w
      BY <1>4, <3>1, <3>2 DEF ToldGone
    <3>3. CASE v = w /\ x = w
      BY <1>3, <3>1, <3>3 DEF ToldGone
    <3>4. CASE v = w /\ x # w
      <4>1. PICK i \in 1..Len(frames) : u \in frames[i].minus
        BY <1>5, <3>1, <3>4
      <4>2. x \in Peers(w) /\ w \in Peers(x)
        BY <3>4 DEF Peers
      <4>3. \E j \in 1..Len(lane'[<<w, x>>]) : u \in lane'[<<w, x>>][j].minus
        BY <1>1, <4>1, <4>2
      <4> QED BY <4>2, <4>3 DEF ToldGone
    <3> QED BY <3>2, <3>3, <3>4
  <2> QED BY <1>7, <2>1, <2>2, <2>3, Zenon DEF ToldGone
<1>8. ASSUME NEW x \in Workers, NEW u \in live, u \notin live'
      PROVE  ToldGone(x, u)'
  BY <1>4, <1>8 DEF ToldGone
<1> HIDE DEF Kept
<1> QED BY <1>2, <1>6, <1>7, <1>8 DEF NothingIsLost

\* A sweep seals after all it sent, and counts a peer as sealed once it has
\* applied all that the peer sent.
LEMMA SweepKeepsSeals ==
    ASSUME CutInv, EndInv, SealsInOrder, NEW w \in Workers,
           NEW n \in Arrivals(w), NEW late \in SUBSET Droppable(w), SweepWith(w, n, late)
    PROVE  SealsInOrder'
<1>1. /\ Propagate(w, n)
      /\ ledger' = [ledger EXCEPT ![w] = Batch({}, late)]
      /\ sealed' = IF SealNow(w, late) THEN sealed \cup {w} ELSE sealed
  BY DEF SweepWith
<1>2. PICK frames \in Frames(ledger[w]) :
          lane' = [c \in DOMAIN lane |->
                      IF c[1] = w
                      THEN lane[c] \o frames \o
                           IF SealNow(w, late) THEN <<Seal>> ELSE <<>>
                      ELSE IF c[2] = w
                           THEN SubSeq(lane[c], n[c[1]] + 1, Len(lane[c]))
                           ELSE lane[c]]
  BY DEF SweepWith
<1>3. TypeOK /\ ledger[w] \in Batches
  BY DEF CutInv, TypeOK
<1>4. /\ frames \in Seq(Batches) /\ Len(frames) \in Nat
      /\ \A i \in 1..Len(frames) : ~frames[i].seal
  <2>1. FramesInOrder(ledger[w], frames)
    BY <1>3, FramesKeepOrder
  <2>2. ~ledger[w].seal
    BY DEF SealsInOrder
  <2>3. frames \in Seq(Batches) /\ \A i \in 1..Len(frames) : ~frames[i].seal
    BY <2>1, <2>2, Zenon DEF FramesInOrder
  <2> QED BY <2>3
<1>5. \A v \in Peers(w) : n[v] \in 0..Len(lane[<<v, w>>])
  BY <1>1, <1>3, PropagateFacts, Zenon
<1> DEFINE tail == IF SealNow(w, late) THEN <<Seal>> ELSE <<>>
<1>6. /\ tail \in {<<>>, <<Seal>>}
      /\ Len(tail) \in {0, 1}
      /\ Len(tail) = 1 => w \in sealed'
      /\ w \in sealed => Len(tail) = 0
  BY <1>1 DEF SealNow
<1>l. lane' = [c \in DOMAIN lane |->
                  IF c[1] = w
                  THEN lane[c] \o frames \o tail
                  ELSE IF c[2] = w
                       THEN SubSeq(lane[c], n[c[1]] + 1, Len(lane[c]))
                       ELSE lane[c]]
  BY <1>2
<1> HIDE DEF tail
<1>t. tail \in {<<>>, <<Seal>>}
  BY <1>6
<1>7. /\ lane' \in [Pairs -> Seq(Batches)]
      /\ \A v \in Peers(w) :
           /\ Len(lane'[<<v, w>>]) = Len(lane[<<v, w>>]) - n[v]
           /\ \A i \in 1..Len(lane'[<<v, w>>]) : lane'[<<v, w>>][i] = lane[<<v, w>>][n[v] + i]
           /\ Len(lane'[<<w, v>>]) = Len(lane[<<w, v>>]) + Len(frames) + Len(tail)
           /\ Len(lane[<<w, v>>]) + Len(frames) <= Len(lane'[<<w, v>>])
           /\ \A i \in 1..Len(lane[<<w, v>>]) : lane'[<<w, v>>][i] = lane[<<w, v>>][i]
           /\ \A i \in 1..Len(frames) : lane'[<<w, v>>][Len(lane[<<w, v>>]) + i] = frames[i]
           /\ \A i \in 1..Len(lane'[<<w, v>>]) :
                 \/ i <= Len(lane[<<w, v>>])
                 \/ i - Len(lane[<<w, v>>]) \in 1..Len(frames)
                 \/ lane'[<<w, v>>][i] = Seal
      /\ \A c \in Pairs : c[1] # w /\ c[2] # w => lane'[c] = lane[c]
  BY <1>3, <1>4, <1>5, <1>l, <1>t, LaneFacts, Zenon
<1>8. \A c \in Pairs : Len(lane[c]) \in Nat
  BY <1>3 DEF TypeOK
<1>9. w \in sealed => Len(frames) = 0
  BY <1>2 DEF EndInv, SealedAtEnd, Frames
<1>10. sealed \subseteq sealed'
  BY <1>1
<1>11. \A v \in Workers : ~ledger'[v].seal
  BY <1>1, <1>3 DEF SealsInOrder, TypeOK, Batch
<1>12. ASSUME NEW c \in Pairs, NEW i \in 1..Len(lane'[c]), lane'[c][i].seal
       PROVE  c[1] \in sealed' /\ i = Len(lane'[c])
  <2>1. PICK v \in Workers, x \in Workers : c = <<v, x>> /\ v # x
    BY DEF Pairs
  <2> DEFINE d == <<v, x>>
             L == Len(lane[d])
             L1 == Len(lane'[d])
             K == Len(frames)
             m == n[v]
  <2>2. d \in Pairs /\ L \in Nat /\ i \in 1..L1 /\ lane'[d][i].seal
    BY <1>8, <1>12, <2>1
  <2>3. \A k \in 1..L : lane[d][k].seal => v \in sealed /\ k = L
    BY <2>2 DEF SealsInOrder
  <2>4. CASE x = w
    <3>1. v \in Peers(w)
      BY <2>1, <2>4 DEF Peers
    <3>2. m \in 0..L /\ L1 = L - m /\ lane'[d][i] = lane[d][m + i]
      BY <1>5, <1>7, <2>2, <2>4, <3>1, Zenon
    <3>3. m + i \in 1..L /\ L1 \in Nat
      <4>1. m \in 0..L /\ L1 = L - m /\ L \in Nat /\ i \in 1..L1
        BY <2>2, <3>2
      <4> HIDE DEF L, L1, m
      <4> QED BY <4>1
    <3>4. v \in sealed /\ m + i = L
      BY <2>2, <2>3, <3>2, <3>3, Zenon
    <3>5. i = L1
      <4>1. m \in 0..L /\ L1 = L - m /\ L \in Nat /\ i \in 1..L1 /\ m + i = L
        BY <2>2, <3>2, <3>4
      <4> HIDE DEF L, L1, m
      <4> QED BY <4>1
    <3> QED BY <1>10, <2>1, <3>4, <3>5
  <2>5. CASE v = w
    <3>1. x \in Peers(w)
      BY <2>1, <2>5 DEF Peers
    <3>2. /\ L1 = L + K + Len(tail)
          /\ \A k \in 1..L : lane'[d][k] = lane[d][k]
          /\ \A k \in 1..K : lane'[d][L + k] = frames[k]
      BY <1>7, <2>5, <3>1, Zenon
    <3>3. CASE w \in sealed
      <4>1. L1 = L
        <5>1. K = 0 /\ Len(tail) = 0 /\ L \in Nat /\ L1 = L + K + Len(tail)
          BY <1>6, <1>9, <2>2, <3>2, <3>3
        <5> HIDE DEF L, L1, K
        <5> QED BY <5>1
      <4>2. i = L
        BY <2>2, <2>3, <3>2, <4>1, Zenon
      <4> QED BY <1>10, <2>1, <2>5, <3>3, <4>1, <4>2
    <3>4. CASE w \notin sealed
      <4>1. i \notin 1..L
        BY <2>2, <2>3, <2>5, <3>2, <3>4
      <4>2. i - L \notin 1..K
        <5> SUFFICES ASSUME i - L \in 1..K PROVE FALSE
          OBVIOUS
        <5>1. L + (i - L) = i
          <6>1. L \in Nat /\ i \in Int
            BY <2>2
          <6> HIDE DEF L
          <6> QED BY <6>1
        <5>2. lane'[d][L + (i - L)] = frames[i - L]
          BY <3>2, Zenon
        <5> QED BY <1>4, <2>2, <5>1, <5>2
      <4>3. Len(tail) = 1 /\ i = L1
        <5> DEFINE T == Len(tail)
        <5>1. K \in Nat /\ L1 = L + K + T /\ i \in 1..L1 /\ L \in Nat /\ T \in {0, 1}
          BY <1>4, <1>6, <2>2, <3>2
        <5> HIDE DEF L, L1, K, T
        <5>2. T = 1 /\ i = L1
          BY <4>1, <4>2, <5>1
        <5> QED BY <5>2 DEF T
      <4> QED BY <1>6, <2>1, <2>5, <4>3
    <3> QED BY <3>3, <3>4
  <2>6. CASE v # w /\ x # w
    <3>1. lane'[d] = lane[d]
      BY <1>7, <2>2, <2>6
    <3> QED BY <1>10, <2>1, <2>2, <2>3, <3>1
  <2> QED BY <2>4, <2>5, <2>6
<1>13. \A k \in Peers(w) : \A j \in 1..n[k] : Received(w, n)[k][j] = lane[<<k, w>>][j]
  <2> SUFFICES ASSUME NEW k \in Peers(w), NEW j \in 1..n[k]
               PROVE  Received(w, n)[k][j] = lane[<<k, w>>][j]
    OBVIOUS
  <2>1. Received(w, n)[k] = SubSeq(lane[<<k, w>>], 1, n[k])
    BY Zenon DEF Received
  <2> DEFINE s == lane[<<k, w>>]
             m == n[k]
  <2>2. s \in Seq(Batches)
    BY <1>3 DEF Peers, Pairs, TypeOK
  <2>3. m \in 0..Len(s) /\ j \in 1..m
    BY <1>5
  <2>4. SubSeq(s, 1, m)[j] = s[j]
    <3> HIDE DEF s, m
    <3> QED BY <2>2, <2>3
  <2> QED BY <2>1, <2>4, Zenon
<1>14. /\ \A x \in Workers : x # w => peer_sealed'[x] = peer_sealed[x]
       /\ \A v \in peer_sealed'[w] :
             v \in peer_sealed[w] \/ (v \in Peers(w) /\ \E k \in 1..n[v] : lane[<<v, w>>][k].seal)
  <2>1. peer_sealed' = [peer_sealed EXCEPT
                           ![w] = @ \cup {v \in Peers(w) :
                                             \E k \in 1..n[v] : Received(w, n)[v][k].seal}]
    BY <1>1, Zenon DEF Propagate
  <2>2. peer_sealed \in [Workers -> SUBSET Workers]
    BY <1>3 DEF TypeOK
  <2> QED BY <1>13, <2>1, <2>2
<1>15. ASSUME NEW x \in Workers, NEW v \in peer_sealed'[x]
       PROVE  v \in Peers(x) /\ v \in sealed' /\ Len(lane'[<<v, x>>]) = 0
  <2> DEFINE L == Len(lane[<<v, x>>])
             L1 == Len(lane'[<<v, x>>])
  <2>1. CASE v \in peer_sealed[x]
    <3>1. v \in Peers(x) /\ v \in sealed /\ L = 0 /\ v \in Workers /\ v # x
      BY <2>1 DEF SealsInOrder, Peers
    <3>2. CASE x = w
      <4>1. n[v] \in 0..0 /\ L1 = L - n[v]
        BY <1>5, <1>7, <3>1, <3>2, Zenon
      <4> QED BY <1>10, <3>1, <4>1
    <3>3. CASE v = w
      <4>1. x \in Peers(w)
        BY <3>1, <3>3 DEF Peers
      <4>2. L1 = L + Len(frames) + Len(tail)
        BY <1>7, <3>3, <4>1, Zenon
      <4> QED BY <1>6, <1>9, <1>10, <3>1, <3>3, <4>2
    <3>4. CASE v # w /\ x # w
      <4>1. lane'[<<v, x>>] = lane[<<v, x>>]
        BY <1>7, <3>1, <3>4 DEF Pairs
      <4> QED BY <1>10, <3>1, <4>1
    <3> QED BY <3>2, <3>3, <3>4
  <2>2. CASE v \notin peer_sealed[x]
    <3>1. x = w /\ v \in Peers(w) /\ \E k \in 1..n[v] : lane[<<v, w>>][k].seal
      BY <1>14, <2>2
    <3>2. PICK k \in 1..n[v] : lane[<<v, w>>][k].seal
      BY <3>1
    <3> DEFINE m == n[v]
    <3>3. <<v, w>> \in Pairs /\ L \in Nat /\ m \in 0..L /\ L1 = L - m
      BY <1>5, <1>7, <1>8, <3>1, Zenon DEF Peers, Pairs
    <3>4. k \in 1..L
      <4>1. k \in 1..m /\ m \in 0..L /\ L \in Nat
        BY <3>2, <3>3
      <4>2. \A a \in Nat : \A b \in 0..a : 1..b \subseteq 1..a
        OBVIOUS
      <4> HIDE DEF L, m
      <4> QED BY <4>1, <4>2, Zenon
    <3>5. v \in sealed /\ k = L
      BY <3>1, <3>2, <3>3, <3>4 DEF SealsInOrder
    <3>6. L1 = 0
      <4>1. k \in 1..m /\ m \in 0..L /\ L \in Nat /\ L1 = L - m /\ k = L
        BY <3>2, <3>3, <3>5
      <4> HIDE DEF L, L1, m
      <4> QED BY <4>1
    <3> QED BY <1>10, <3>1, <3>5, <3>6
  <2> QED BY <2>1, <2>2
<1> QED BY <1>11, <1>12, <1>15 DEF SealsInOrder

\* A logic call and a drop commit what they change.
LEMMA EffectLosesNothing ==
    ASSUME CutInv, NothingIsLost, SealsInOrder, NEW w \in Workers, NEW o, NEW taken \in SUBSET Units,
           NEW new \in SUBSET Units, CallEffect(w, o, taken, new),
           UNCHANGED <<lane, view, peer_sealed, sealed>>
    PROVE  NothingIsLost' /\ SealsInOrder'
<1>1. /\ \A v \in Workers : ledger[v].plus \subseteq ledger'[v].plus
      /\ \A v \in Workers : ledger[v].minus \subseteq ledger'[v].minus
      /\ new \subseteq ledger'[w].plus /\ taken \subseteq ledger'[w].minus
      /\ \A v \in Workers : ledger'[v].seal = ledger[v].seal
  BY DEF CallEffect, CutInv, TypeOK, Batches
<1>2. \A u \in Created' : u \in new \/ u \in Created
  BY DEF CallEffect, Created
<1>3. \A x \in Workers : \A u : (Told(x, u) => Told(x, u)') /\ (ToldGone(x, u) => ToldGone(x, u)')
  BY <1>1, Zenon DEF Told, ToldGone
<1>4. \A x \in Workers : (\A u \in new : Told(x, u)') /\ (\A u \in taken : ToldGone(x, u)')
  BY <1>1 DEF Told, ToldGone
<1>5. new \subseteq live' /\ \A u \in live : u \in live' \/ u \in taken
  BY DEF CallEffect
<1>6. NothingIsLost'
  BY <1>2, <1>3, <1>4, <1>5 DEF NothingIsLost
<1>7. SealsInOrder'
  BY <1>1 DEF SealsInOrder
<1> QED BY <1>6, <1>7

\* Nothing is on its way when a dataflow starts: the seeds are in every view.
LEMMA InitSeals == Init => NothingIsLost /\ SealsInOrder
<1> SUFFICES ASSUME Init PROVE NothingIsLost /\ SealsInOrder
  OBVIOUS
<1>1. \A u \in Created : u \in Seeds
  BY DEF Init, Created
<1>2. NothingIsLost
  BY <1>1 DEF Init, NothingIsLost, Told, Batch
<1>3. SealsInOrder
  BY DEF Init, SealsInOrder, Nothing, Batch, Pairs
<1> QED BY <1>2, <1>3

\* No step loses a change or sends one after a seal.
LEMMA NextSeals ==
    CutInv /\ CutInv' /\ EndInv /\ NothingIsLost /\ SealsInOrder /\ [Next]_vars
        => NothingIsLost' /\ SealsInOrder'
<1> SUFFICES ASSUME CutInv, CutInv', EndInv, NothingIsLost, SealsInOrder, [Next]_vars
             PROVE  NothingIsLost' /\ SealsInOrder'
  OBVIOUS
<1>1. ASSUME UNCHANGED <<stamp, live, ledger, lane, view, peer_sealed, sealed>>
      PROVE  NothingIsLost' /\ SealsInOrder'
  <2>1. \A x, u : (Told(x, u)' <=> Told(x, u)) /\ (ToldGone(x, u)' <=> ToldGone(x, u))
    BY <1>1 DEF Told, ToldGone
  <2>2. NothingIsLost'
    BY <1>1, <2>1 DEF NothingIsLost, Created
  <2> QED BY <1>1, <2>2 DEF SealsInOrder
<1>2. ASSUME NEW w \in Workers, NEW o \in Ops, Call(w, o)
      PROVE  NothingIsLost' /\ SealsInOrder'
  <2>1. /\ \E taken, new \in SUBSET Units : CallEffect(w, o, taken, new)
        /\ UNCHANGED <<lane, view, peer_sealed, sealed>>
    BY <1>2, CallHasEffect DEF CutInv
  <2> QED BY <2>1, EffectLosesNothing
<1>3. ASSUME NEW w \in Workers, NEW o \in Ops, Exhaust(w, o)
      PROVE  NothingIsLost' /\ SealsInOrder'
  BY <1>1, <1>3 DEF Exhaust, shell, tracker
<1>4. ASSUME NEW u \in Units, Release(u)
      PROVE  NothingIsLost' /\ SealsInOrder'
  <2>1. /\ stamp[u].at \in Workers
        /\ CallEffect(stamp[u].at, Op[stamp[u].loc], {u}, {})
        /\ UNCHANGED <<lane, view, peer_sealed, sealed>>
    BY <1>4, ReleaseHasEffect, Zenon DEF CutInv
  <2>2. {u} \in SUBSET Units /\ {} \in SUBSET Units
    OBVIOUS
  <2> QED BY <2>1, <2>2, EffectLosesNothing
<1>5. ASSUME NEW w \in Workers, Sweep(w)
      PROVE  NothingIsLost' /\ SealsInOrder'
  <2>1. PICK n \in Arrivals(w), late \in SUBSET Droppable(w) : SweepWith(w, n, late)
    BY <1>5 DEF Sweep
  <2>2. SealsInOrder'
    BY <2>1, SweepKeepsSeals
  <2>3. stamp' = stamp /\ \E frames \in Seq(Batches) : SweepEffect(w, n, late, frames)
    BY <2>1, SweepHasEffect DEF CutInv
  <2>4. NothingIsLost'
    BY <2>3, SweepLosesNothing
  <2> QED BY <2>2, <2>4
<1>6. CASE UNCHANGED vars
  BY <1>1, <1>6 DEF vars
<1>7. CASE Ended
  BY <1>6, <1>7 DEF Ended
<1> QED BY <1>2, <1>3, <1>4, <1>5, <1>6, <1>7 DEF Next

\* Every change reaches every view, and no seal overtakes one.
LEMMA SealsStayInOrder == Spec => [](NothingIsLost /\ SealsInOrder)
<1> QED BY InitSeals, NextSeals, CutsStaySound, EndsStayTrue, PTL DEF Spec

\* A worker that sealed its stream and has every peer's seal counts nothing.
SealsAddUp ==
    \A w \in Workers : w \in sealed /\ Peers(w) \subseteq peer_sealed[w] => scope_is_zero(w)

\* Behind every seal nothing is on its way, so the view has all there was:
\* each unit's beginning and its end.
LEMMA AllSealsAddUp == CutInv /\ EndInv /\ NothingIsLost /\ SealsInOrder => SealsAddUp
<1> SUFFICES ASSUME CutInv, EndInv, NothingIsLost, SealsInOrder, NEW w \in Workers,
                    w \in sealed, Peers(w) \subseteq peer_sealed[w]
             PROVE  scope_is_zero(w)
  BY DEF SealsAddUp
<1>1. Workers \subseteq sealed
  BY Zenon DEF Peers, SealsInOrder
<1>2. live = {}
  <2> SUFFICES ASSUME NEW u \in live PROVE FALSE
    OBVIOUS
  <2>1. u \in Created
    BY DEF CutInv, OnlyCreated
  <2>2. stamp[u].at \in sealed
    BY <1>1, <2>1, LocOfCreated DEF CutInv
  <2> QED BY <2>2, SealedHasNoUnits DEF EndInv
<1>3. \A v \in Workers : ledger[v].plus = {} /\ ledger[v].minus = {}
  BY <1>1 DEF EndInv, SealedAtEnd, Nothing, Batch
<1>4. \A v \in Peers(w) : Len(lane[<<v, w>>]) = 0
  BY DEF SealsInOrder
<1>5. \A u \in Created : u \in view[w].plus /\ u \in view[w].minus
  <2> SUFFICES ASSUME NEW u \in Created
               PROVE  u \in view[w].plus /\ u \in view[w].minus
    OBVIOUS
  <2>1. Told(w, u) /\ ToldGone(w, u)
    BY <1>2 DEF NothingIsLost
  <2>2. \A v \in Peers(w) : 1..Len(lane[<<v, w>>]) = {}
    BY <1>4
  <2>3. u \in view[w].plus
    BY <1>3, <2>1, <2>2, Zenon DEF Told
  <2>4. u \in view[w].minus
    BY <1>3, <2>1, <2>2, Zenon DEF ToldGone
  <2> QED BY <2>3, <2>4
<1>6. view[w].plus = Created /\ view[w].minus = Created
  BY <1>5, Zenon DEF CutInv, OnlyCreated
<1>7. \A l, t : Count(w, l, t) = 0
  <2> SUFFICES ASSUME NEW l, NEW t PROVE Count(w, l, t) = 0
    OBVIOUS
  <2>1. IsFiniteSet(At(Created, l, t))
    BY FiniteUnits, FS_Subset DEF At, Created
  <2>2. Cardinality(At(Created, l, t)) \in Nat
    BY <2>1, FS_CardinalityType
  <2> QED BY <1>6, <2>2 DEF Count
<1> QED BY <1>7 DEF scope_is_zero

\* A sweep reports a residual only where the seals do not add up.
LEMMA NextNoResidual == NoResidual /\ CutInv /\ SealsAddUp' /\ [Next]_vars => NoResidual'
<1> SUFFICES ASSUME NoResidual, CutInv, SealsAddUp', [Next]_vars
             PROVE  NoResidual'
  OBVIOUS
<1>1. ASSUME NEW w \in Workers, Sweep(w)
      PROVE  NoResidual'
  <2>1. outcome' = [outcome EXCEPT ![w] = Outcome(w)]
    BY <1>1, Zenon DEF Sweep, SweepWith
  <2>2. all_sealed(w) => scope_is_zero(w)'
    BY DEF SealsAddUp, all_sealed
  <2>3. Outcome(w) # "residual"
    BY <2>2 DEF Outcome
  <2> HIDE DEF Outcome
  <2> QED BY <2>1, <2>3 DEF NoResidual, CutInv, TypeOK
<1>2. ASSUME outcome' = outcome
      PROVE  NoResidual'
  BY <1>2 DEF NoResidual
<1>3. ASSUME NEW w \in Workers, NEW o \in Ops, Call(w, o)
      PROVE  NoResidual'
  BY <1>2, <1>3, CallHasEffect, Zenon DEF CutInv
<1>4. ASSUME NEW w \in Workers, NEW o \in Ops, Exhaust(w, o)
      PROVE  NoResidual'
  BY <1>2, <1>4, Zenon DEF Exhaust, tracker, shell
<1>5. ASSUME NEW u \in Units, Release(u)
      PROVE  NoResidual'
  BY <1>2, <1>5 DEF Release, decision
<1> QED BY <1>1, <1>2, <1>3, <1>4, <1>5 DEF Next, Ended, vars

\* No worker ever ends with a residual: when it has every seal, its counts
\* are all zero, whatever the order in which the commits reached it.
THEOREM NeverResidual == Spec => []NoResidual
<1>1. Init => NoResidual
  BY DEF Init, NoResidual
<1> QED BY <1>1, NextNoResidual, AllSealsAddUp, SealsStayInOrder, CutsStaySound,
           EndsStayTrue, PTL DEF Spec
=============================================================================
