----------------------- MODULE CancellationTokensProofs -----------------------
(* Whoever reads why a token was cancelled reads the same reason, for every     *)
(* tree of tokens, number of threads and sequence of calls.                     *)
EXTENDS CancellationTokens, TLAPS

Why == Stops \cup Failures \cup {NoReason}

\* The labels that the invariant says something about, and the others.
Watched == {"fast", "lock", "locked", "unlock", "store", "swap", "reason"}

Quiet == {"idle", "again", "check", "recheck", "enable", "enabled", "climb", "climbed", "ready",
          "asleep", "registered", "push", "pushed", "parked", "drain", "set", "collect",
          "recollect", "notify", "renotify"}

Kinds == {"none", "cancel", "escalate", "wait", "read", "register", "run"}

Types ==
    /\ cancelled \in [Tokens -> BOOLEAN]
    /\ reason \in [Tokens -> Why]
    /\ holder \in [Tokens -> Threads \cup {NoThread}]
    /\ observed \in [Tokens -> SUBSET Why]
    /\ todo \in [Threads -> Seq(Calls)]
    /\ op \in [Threads -> [kind : Kinds, on : Tokens, why : Why]]
    /\ pc \in [Threads -> Watched \cup Quiet]
    /\ cursor \in [Threads -> Tokens]

\* A thread in the critical section of a token holds its lock, and a walk goes up
\* from the token of the call.
Placed(p) ==
    /\ cursor[p] \in Up[On(p)]
    /\ pc[p] \in {"locked", "unlock", "store"} => holder[On(p)] = p
    /\ pc[p] \in {"lock", "locked", "unlock", "store"} => op[p].why # NoReason
    /\ pc[p] = "fast" /\ op[p].kind # "wait" => op[p].why # NoReason
    /\ pc[p] = "swap" => reason[On(p)] # NoReason

Places == \A p \in Threads : Placed(p)

\* A token that was cancelled by a call on itself, rather than by an ancestor.
Origin(a) == cancelled[a] /\ reason[a] # NoReason

Settled(t) == \E a \in Up[t] : Origin(a)

\* Every flag that is set goes back to such a token.
Origins == \A t \in Tokens : cancelled[t] => Settled(t)

\* The token never gets a reason of its own: it is cancelled from above, and a
\* thread in its critical section is bound to find that out.
Closed(m) ==
    /\ reason[m] = NoReason
    /\ Settled(m)
    /\ \A c \in Threads :
          pc[c] \in {"locked", "store"} /\ On(c) = m =>
              pc[c] = "locked" /\ \E a \in Up[cursor[c]] : cancelled[a]

\* A reader of a token's reason has passed closed tokens only.
Readers ==
    \A p \in Threads :
        pc[p] = "reason" => /\ Settled(On(p))
                            /\ \A m \in Up[On(p)] \ Up[cursor[p]] : Closed(m)

\* What a reader was given is the reason of the lowest token that will have one.
Answers ==
    \A t \in Tokens : \A r \in observed[t] :
        /\ r # NoReason
        /\ \E n \in Up[t] : reason[n] = r /\ \A m \in Up[t] \ Up[n] : Closed(m)

TokenInv == Types /\ Places /\ Origins /\ Readers /\ Answers

\* The steps that leave flags, reasons and locks alone and lead to a quiet label.
Inert(p) ==
    /\ UNCHANGED <<cancelled, reason, holder, observed, op, todo>>
    /\ \E l \in Quiet : pc' = [pc EXCEPT ![p] = l]
    /\ \E t \in Up[On(p)] : cursor' = [cursor EXCEPT ![p] = t]
--------------------------------------------------------------------------------
\* The ancestors of a token, one step up.
LEMMA UpFacts ==
    ASSUME NEW t \in Tokens
    PROVE  /\ Up[t] \subseteq Tokens
           /\ t \in Up[t]
           /\ \A a \in Up[t] : Up[a] \subseteq Up[t]
           /\ Parent[t] # NoToken => /\ Parent[t] \in Tokens
                                     /\ Parent[t] \in Up[t]
                                     /\ Up[t] = {t} \cup Up[Parent[t]]
           /\ Parent[t] = NoToken => Up[t] = {t}
<1>1. /\ Up[t] \subseteq Tokens
      /\ Up[t] = {t} \cup (IF Parent[t] = NoToken THEN {} ELSE Up[Parent[t]])
      /\ Parent[t] \in Tokens \cup {NoToken}
      /\ \A a \in Up[t] : Up[a] \subseteq Up[t]
  BY TreeAssumption
<1>2. Parent[t] # NoToken => Parent[t] \in Up[Parent[t]]
  BY <1>1, TreeAssumption
<1> QED
  BY <1>1, <1>2

\* Of two ancestors of a token, one is strictly above the other.
LEMMA UpLinear ==
    ASSUME NEW t \in Tokens, NEW a \in Up[t], NEW b \in Up[t], a # b
    PROVE  a \notin Up[b] \/ b \notin Up[a]
<1> SUFFICES ASSUME a \in Up[b], b \in Up[a] PROVE FALSE
  OBVIOUS
<1>1. a \in Tokens /\ b \in Tokens
  BY UpFacts
<1>2. Parent[a] # NoToken /\ Parent[a] \in Tokens /\ b \in Up[Parent[a]]
  BY <1>1, UpFacts
<1>3. Up[b] \subseteq Up[Parent[a]]
  BY <1>2, UpFacts
<1>4. a \notin Up[Parent[a]]
  BY <1>1, <1>2, TreeAssumption
<1> QED
  BY <1>3, <1>4
--------------------------------------------------------------------------------
\* Most operations of a call are inert.
LEMMA InertSteps ==
    ASSUME Types, Places, NEW p \in Threads,
           \/ Collect(p) \/ Notify(p) \/ NotifyWaiters(p) \/ Escalate(p)
           \/ Push(p) \/ CheckNode(p) \/ Enable(p) \/ CheckAncestor(p) \/ Awake(p)
           \/ Poll(p) \/ Drain(p) \/ DrainEnds(p)
    PROVE  Inert(p)
<1> DEFINE Goes == \E l \in Quiet : pc' = [pc EXCEPT ![p] = l]
           Climbs == \E t \in Up[On(p)] : cursor' = [cursor EXCEPT ![p] = t]
<1>1. /\ On(p) \in Tokens /\ cursor[p] \in Tokens /\ cursor[p] \in Up[On(p)]
      /\ On(p) \in Up[On(p)] /\ Up[cursor[p]] \subseteq Up[On(p)]
      /\ cursor \in [Threads -> Tokens] /\ pc \in [Threads -> Watched \cup Quiet]
  BY UpFacts DEF Types, Places, Placed, On
<1>2. ~AtTop(p) => Parent[cursor[p]] \in Up[On(p)]
  BY <1>1, UpFacts DEF AtTop
<1>3. ASSUME NEW l \in Quiet, Goto(p, l) PROVE Goes /\ Climbs
  BY Zenon, <1>1, <1>3 DEF Goto
<1>4. ASSUME NEW l \in Quiet, ~AtTop(p), Climb(p, l) PROVE Goes /\ Climbs
  BY Zenon, <1>2, <1>4 DEF Climb
<1>5. AfterCancel(p) \in Quiet
  BY DEF AfterCancel, Quiet
<1>6. UNCHANGED <<cancelled, reason, holder, observed, op, todo>>
  BY DEF Collect, Notify, NotifyWaiters, Escalate, Push, CheckNode, Enable, CheckAncestor,
         Awake, Poll, Drain, DrainEnds, tokenVars, callVars, history
<1>7. CASE Collect(p)
  BY <1>3, <1>6, <1>7 DEF Collect, Inert, Quiet
<1>8. CASE Notify(p)
  BY <1>1, <1>6, <1>8 DEF Notify, Inert, Quiet
<1>9. CASE NotifyWaiters(p)
  BY Zenon, <1>3, <1>5, <1>6, <1>9 DEF NotifyWaiters, Inert, Quiet
<1>10. CASE Escalate(p)
  BY Zenon, <1>3, <1>6, <1>10 DEF Escalate, Inert, Quiet
<1>11. CASE Push(p)
  BY Zenon, <1>1, <1>6, <1>11 DEF Push, Inert, Quiet
<1>12. CASE CheckNode(p)
  BY Zenon, <1>3, <1>4, <1>6, <1>12 DEF CheckNode, Inert, Quiet
<1>13. CASE Enable(p)
  BY Zenon, <1>1, <1>6, <1>13 DEF Enable, Inert, Quiet
<1>14. CASE CheckAncestor(p)
  BY Zenon, <1>3, <1>4, <1>6, <1>14 DEF CheckAncestor, Inert, Quiet
<1>15. CASE Awake(p)
  BY Zenon, <1>3, <1>6, <1>15 DEF Awake, Inert, Quiet
<1>16. CASE Poll(p)
  BY Zenon, <1>3, <1>6, <1>16 DEF Poll, Inert, Quiet
<1>17. CASE Drain(p)
  BY Zenon, <1>3, <1>4, <1>6, <1>17 DEF Drain, Inert, Quiet
<1>18. CASE DrainEnds(p)
  BY <1>3, <1>6, <1>18 DEF DrainEnds, Inert, Quiet
<1> QED
  BY <1>7, <1>8, <1>9, <1>10, <1>11, <1>12, <1>13, <1>14, <1>15, <1>16, <1>17, <1>18

\* A step of thread p, as far as the invariant is concerned.
CoreStep(p) ==
    \/ Begin(p) \/ FindCancelled(p) \/ LookHigher(p) \/ FindNone(p)
    \/ Lock(p) \/ Unlock(p) \/ Store(p) \/ Swap(p)
    \/ ReasonHere(p) \/ ReasonHigher(p) \/ Inert(p)

\* Every step of the specification is such a step, or changes nothing of interest.
LEMMA NextIsCore ==
    ASSUME Types, Places, Next
    PROVE  \E p \in Threads : CoreStep(p)
BY InertSteps DEF Next, Step, CoreStep

\* Facts about a thread that every case uses.
LEMMA ThreadFacts ==
    ASSUME Types, Places, NEW p \in Threads
    PROVE  /\ On(p) \in Tokens /\ cursor[p] \in Tokens /\ cursor[p] \in Up[On(p)]
           /\ On(p) \in Up[On(p)] /\ Up[cursor[p]] \subseteq Up[On(p)]
           /\ Parent[cursor[p]] # NoToken => /\ Parent[cursor[p]] \in Tokens
                                             /\ Parent[cursor[p]] \in Up[On(p)]
           /\ Parent[On(p)] # NoToken => /\ Parent[On(p)] \in Tokens
                                         /\ Parent[On(p)] \in Up[On(p)]
           /\ op[p].why \in Why
BY UpFacts DEF Types, Places, Placed, On

\* The labels that control flow chooses.
LEMMA LabelFacts ==
    ASSUME NEW p \in Threads
    PROVE  /\ AfterCancel(p) \in {"again", "idle"}
           /\ IfCancelled(p) \in Quiet \cup {"unlock", "reason"}
           /\ IfCancelled(p) = "unlock" => pc[p] = "locked"
           /\ IfCancelled(p) = "reason" => pc[p] = "again"
           /\ IfNot(p) \in Quiet \cup {"lock", "store"}
           /\ IfNot(p) = "lock" => pc[p] = "fast" /\ op[p].kind # "wait"
           /\ IfNot(p) = "store" => pc[p] = "locked"
           /\ IfNot(p) = "climb" => Parent[On(p)] # NoToken
           /\ \A why : Given(p, why) \in Quiet
           /\ \A call : Entry(call) \in Quiet \cup {"fast"}
BY DEF AfterCancel, IfCancelled, IfNot, Given, Entry, Quiet

\* The call a thread begins.
LEMMA HeadFacts ==
    ASSUME Types, NEW p \in Threads, todo[p] # <<>>
    PROVE  /\ Head(todo[p]) \in Calls /\ Tail(todo[p]) \in Seq(Calls)
           /\ Head(todo[p]) \in [kind : Kinds, on : Tokens, why : Why]
           /\ Entry(Head(todo[p])) = "fast" /\ Head(todo[p]).kind # "wait"
                => Head(todo[p]).why # NoReason
<1>1. Head(todo[p]) \in Calls /\ Tail(todo[p]) \in Seq(Calls)
  BY SMTT(30) DEF Types
<1> QED
  BY Zenon, <1>1 DEF Calls, Kinds, Why, Entry

\* The types are kept.
LEMMA TypesStep ==
    ASSUME Types, Places, NEW p \in Threads, CoreStep(p)
    PROVE  Types'
<1> USE ThreadFacts, LabelFacts, TreeAssumption DEF Types
<1>1. CASE Begin(p)
  BY Zenon, <1>1, HeadFacts DEF Begin, tokenVars, wakeVars, Watched, Quiet
<1>2. CASE FindCancelled(p)
  BY Zenon, <1>2 DEF FindCancelled, Goto, callVars, history, Watched, Quiet
<1>3. CASE LookHigher(p)
  BY Zenon, <1>3 DEF LookHigher, Climb, AtTop, tokenVars, callVars, history, Watched, Quiet
<1>4. CASE FindNone(p)
  <2>1. UNCHANGED <<cancelled, reason, holder, observed, todo, op>>
    BY <1>4 DEF FindNone, tokenVars, callVars, history
  <2>2. /\ pc' = [pc EXCEPT ![p] = IfNot(p)]
        /\ \E t \in Tokens : cursor' = [cursor EXCEPT ![p] = t]
    BY Zenon, <1>4 DEF FindNone, Goto
  <2>3. pc' \in [Threads -> Watched \cup Quiet]
    BY Zenon, <2>2 DEF Watched
  <2> QED
    BY SMTT(30), <2>1, <2>2, <2>3
<1>5. CASE Lock(p)
  BY Zenon, <1>5 DEF Lock, Goto, callVars, history, Watched, Quiet
<1>6. CASE Unlock(p)
  BY Zenon, <1>6 DEF Unlock, Goto, callVars, history, Watched, Quiet
<1>7. CASE Store(p)
  BY Zenon, <1>7 DEF Store, Goto, callVars, history, Watched, Quiet
<1>8. CASE Swap(p)
  BY Zenon, <1>8 DEF Swap, Goto, callVars, history, Watched, Quiet
<1>9. CASE ReasonHere(p)
  BY SMTT(30), <1>9 DEF ReasonHere, Goto, tokenVars, callVars, Watched, Quiet
<1>10. CASE ReasonHigher(p)
  BY SMTT(30), <1>10 DEF ReasonHigher, AtTop, tokenVars, callVars, Watched, Quiet
<1>11. CASE Inert(p)
  BY SMTT(30), <1>11 DEF Inert, Watched, Quiet
<1> QED
  BY Zenon, <1>1, <1>2, <1>3, <1>4, <1>5, <1>6, <1>7, <1>8, <1>9, <1>10, <1>11 DEF CoreStep

\* A step of one thread leaves the others where they are, sets no flag back and
\* replaces no reason.
LEMMA Frame ==
    ASSUME Types, Places, NEW p \in Threads, CoreStep(p)
    PROVE  /\ \A c \in Threads \ {p} : /\ pc'[c] = pc[c] /\ cursor'[c] = cursor[c]
                                        /\ op'[c] = op[c]
           /\ \A t \in Tokens : cancelled[t] => cancelled'[t]
           /\ \A t \in Tokens : reason[t] # NoReason => reason'[t] = reason[t]
<1> USE ThreadFacts DEF Types
<1>1. CASE Begin(p)
  BY Zenon, <1>1 DEF Begin, tokenVars, wakeVars
<1>2. CASE FindCancelled(p)
  BY Zenon, <1>2 DEF FindCancelled, Goto, callVars, history
<1>3. CASE LookHigher(p)
  BY Zenon, <1>3 DEF LookHigher, Climb, AtTop, tokenVars, callVars, history
<1>4. CASE FindNone(p)
  BY Zenon, <1>4 DEF FindNone, Goto, tokenVars, callVars, history
<1>5. CASE Lock(p)
  BY Zenon, <1>5 DEF Lock, Goto, callVars, history
<1>6. CASE Unlock(p)
  BY Zenon, <1>6 DEF Unlock, Goto, callVars, history
<1>7. CASE Store(p)
  BY Zenon, <1>7 DEF Store, Goto, callVars, history
<1>8. CASE Swap(p)
  BY Zenon, <1>8 DEF Swap, Goto, callVars, history
<1>9. CASE ReasonHere(p)
  BY Zenon, <1>9 DEF ReasonHere, Goto, tokenVars, callVars
<1>10. CASE ReasonHigher(p)
  BY Zenon, <1>10 DEF ReasonHigher, AtTop, tokenVars, callVars
<1>11. CASE Inert(p)
  BY <1>11 DEF Inert
<1> QED
  BY Zenon, <1>1, <1>2, <1>3, <1>4, <1>5, <1>6, <1>7, <1>8, <1>9, <1>10, <1>11 DEF CoreStep

\* Locks stay with their holders, and walks on their way up.
LEMMA PlacesStep ==
    ASSUME Types, Places, NEW p \in Threads, CoreStep(p)
    PROVE  Places'
<1>1. ASSUME NEW c \in Threads \ {p} PROVE Placed(c)'
  <2>0. On(c) \in Tokens
    BY <1>1, ThreadFacts
  <2>1. /\ pc'[c] = pc[c] /\ cursor'[c] = cursor[c] /\ op'[c] = op[c]
    BY <1>1, Frame
  <2>10. \A t \in Tokens : reason[t] # NoReason => reason'[t] = reason[t]
    BY Zenon, Frame
  <2>2. holder[On(c)] = c => holder'[On(c)] = c
    <3>1. holder' = holder \/ Lock(p) \/ Unlock(p) \/ Store(p)
      BY Zenon DEF CoreStep, Begin, FindCancelled, LookHigher, FindNone, Swap, ReasonHere,
             ReasonHigher, Inert, tokenVars
    <3>2. CASE Lock(p)
      BY SMTT(30), <1>1, <3>2, <2>0, ThreadFacts, TreeAssumption DEF Lock, Types
    <3>3. CASE Unlock(p) \/ Store(p)
      <4>1. holder[On(p)] = p
        BY Zenon, <3>3 DEF Unlock, Store, Places, Placed
      <4> QED
        BY Zenon, <1>1, <4>1, <3>3, <2>0, ThreadFacts DEF Unlock, Store, Types
    <3> QED
      BY Zenon, <3>1, <3>2, <3>3
  <2>3. Placed(c)
    BY Zenon, <1>1 DEF Places
  <2> QED
    BY <2>0, <2>1, <2>10, <2>2, <2>3 DEF Placed, On
<1>2. Placed(p)'
  <2>0. Placed(p)
    BY Zenon DEF Places
  <2>1. CASE Begin(p)
    <3>1. /\ op'[p] = Head(todo[p]) /\ pc'[p] = Entry(Head(todo[p]))
          /\ cursor'[p] = Head(todo[p]).on /\ todo[p] # <<>>
      BY Zenon, <2>1 DEF Begin, Types
    <3>2. Head(todo[p]).on \in Up[Head(todo[p]).on]
      BY Zenon, <3>1, HeadFacts, UpFacts
    <3> QED
      BY Zenon, <3>1, <3>2, HeadFacts, LabelFacts DEF Placed, On, Quiet
  <2> USE <2>0, ThreadFacts, LabelFacts DEF Types, Placed, On
  <2>2. CASE FindCancelled(p)
    BY Zenon, <2>2 DEF FindCancelled, Goto, callVars, history, Quiet
  <2>3. CASE LookHigher(p)
    BY SMTT(30), <2>3, UpFacts DEF LookHigher, Climb, AtTop, tokenVars, callVars, history, Quiet
  <2>4. CASE FindNone(p)
    BY Zenon, <2>4 DEF FindNone, Goto, tokenVars, callVars, history, Quiet
  <2>5. CASE Lock(p)
    BY SMTT(30), <2>5, TreeAssumption DEF Lock, Goto, callVars, history, Quiet
  <2>6. CASE Unlock(p)
    BY Zenon, <2>6 DEF Unlock, Goto, callVars, history, Quiet
  <2>7. CASE Store(p)
    BY SMTT(30), <2>7, TreeAssumption DEF Store, Goto, callVars, history, Quiet
  <2>8. CASE Swap(p)
    BY Zenon, <2>8 DEF Swap, Goto, callVars, history, Quiet
  <2>9. CASE ReasonHere(p)
    BY Zenon, <2>9 DEF ReasonHere, Goto, tokenVars, callVars, Quiet
  <2>10. CASE ReasonHigher(p)
    BY Zenon, <2>10 DEF ReasonHigher, AtTop, tokenVars, callVars, Quiet
  <2>11. CASE Inert(p)
    BY <2>11 DEF Inert, Quiet
  <2> QED
    BY Zenon, <2>1, <2>2, <2>3, <2>4, <2>5, <2>6, <2>7, <2>8, <2>9, <2>10, <2>11 DEF CoreStep
<1> QED
  BY Zenon, <1>1, <1>2 DEF Places

\* A token cancelled from itself or from above stays so.
LEMMA KeepSettled ==
    ASSUME Types, Places, NEW p \in Threads, CoreStep(p), NEW t \in Tokens, Settled(t)
    PROVE  Settled(t)'
<1>1. PICK a \in Up[t] : cancelled[a] /\ reason[a] # NoReason
  BY DEF Settled, Origin
<1>2. a \in Tokens
  BY UpFacts
<1>3. cancelled'[a] /\ reason'[a] # NoReason
  BY <1>1, <1>2, Frame
<1> QED
  BY <1>1, <1>3 DEF Settled, Origin

\* What is settled for an ancestor is settled for the token.
LEMMA SettledBelow ==
    ASSUME NEW t \in Tokens, NEW a \in Up[t], Settled(a)
    PROVE  Settled(t)
BY UpFacts DEF Settled

\* A flag is set by the cancellation that gave the reason, or after an ancestor's.
LEMMA OriginsStep ==
    ASSUME Types, Places, Origins, NEW p \in Threads, CoreStep(p)
    PROVE  Origins'
<1> SUFFICES ASSUME NEW t \in Tokens, cancelled'[t] PROVE Settled(t)'
  BY DEF Origins
<1>1. CASE cancelled[t]
  BY <1>1, KeepSettled DEF Origins
<1>2. CASE ~cancelled[t]
  <2>1. \/ FindCancelled(p) /\ t = On(p)
        \/ Swap(p) /\ t = On(p)
    BY Zenon, <1>2, ThreadFacts DEF CoreStep, Begin, FindCancelled, LookHigher, FindNone, Lock,
       Unlock, Store, Swap, ReasonHere, ReasonHigher, Inert, tokenVars, Types
  <2>2. CASE FindCancelled(p) /\ t = On(p)
    <3>1. Settled(cursor[p])
      BY Zenon, <2>2, ThreadFacts DEF FindCancelled, Origins
    <3> QED
      BY Zenon, <2>2, <3>1, ThreadFacts, SettledBelow, KeepSettled
  <2>3. CASE Swap(p) /\ t = On(p)
    <3>1. reason[t] # NoReason /\ reason' = reason
      BY Zenon, <2>3 DEF Swap, Places, Placed
    <3> QED
      BY Zenon, <3>1, UpFacts DEF Settled, Origin
  <2> QED
    BY Zenon, <2>1, <2>2, <2>3
<1> QED
  BY <1>1, <1>2

\* Where a step can lead into the critical section of a cancellation, or to the
\* walk that reads reasons.
LEMMA Arrivals ==
    ASSUME Types, Places, NEW p \in Threads, CoreStep(p)
    PROVE  /\ pc'[p] \in {"locked", "store"} =>
                 \/ LookHigher(p) /\ pc[p] = "locked" /\ pc'[p] = "locked"
                 \/ FindNone(p) /\ pc[p] = "locked"
                 \/ Lock(p) /\ pc'[p] = "locked"
           /\ pc'[p] = "reason" =>
                 \/ FindCancelled(p) /\ cursor'[p] = On(p)
                 \/ ReasonHigher(p) /\ ~AtTop(p) /\ cursor'[p] = Parent[cursor[p]]
<1> USE LabelFacts DEF Types, Quiet
<1>1. CASE Begin(p)
  BY Zenon, <1>1 DEF Begin
<1>2. CASE FindCancelled(p)
  BY Zenon, <1>2 DEF FindCancelled, Goto
<1>3. CASE LookHigher(p)
  BY Zenon, <1>3 DEF LookHigher, Climb, Walking
<1>4. CASE FindNone(p)
  BY Zenon, <1>4 DEF FindNone, Goto
<1>5. CASE Lock(p)
  BY Zenon, <1>5 DEF Lock, Goto
<1>6. CASE Unlock(p)
  BY Zenon, <1>6 DEF Unlock, Goto
<1>7. CASE Store(p)
  BY Zenon, <1>7 DEF Store, Goto
<1>8. CASE Swap(p)
  BY Zenon, <1>8 DEF Swap, Goto
<1>9. CASE ReasonHere(p)
  BY Zenon, <1>9 DEF ReasonHere, Goto
<1>10. CASE ReasonHigher(p)
  BY Zenon, <1>10 DEF ReasonHigher
<1>11. CASE Inert(p)
  BY Zenon, <1>11 DEF Inert
<1> QED
  BY Zenon, <1>1, <1>2, <1>3, <1>4, <1>5, <1>6, <1>7, <1>8, <1>9, <1>10, <1>11 DEF CoreStep

\* A closed token stays closed: a cancellation that locks it later looks again,
\* and one that is looking still has the set flag ahead of it.
LEMMA KeepClosed ==
    ASSUME Types, Places, NEW p \in Threads, CoreStep(p), NEW m \in Tokens, Closed(m)
    PROVE  Closed(m)'
<1>1. reason'[m] = NoReason
  <2>1. \/ reason' = reason
        \/ /\ pc[p] = "store"
           /\ reason' = [reason EXCEPT ![On(p)] = IF @ = NoReason THEN op[p].why ELSE @]
    BY Zenon DEF CoreStep, Begin, FindCancelled, LookHigher, FindNone, Lock, Unlock, Store, Swap,
       ReasonHere, ReasonHigher, Inert, tokenVars
  <2>2. pc[p] = "store" => On(p) # m
    BY Zenon DEF Closed
  <2> QED
    BY Zenon, <2>1, <2>2 DEF Closed, Types
<1>2. Settled(m)'
  BY Zenon, KeepSettled DEF Closed
<1>3. ASSUME NEW c \in Threads, pc'[c] \in {"locked", "store"}, op'[c].on = m
      PROVE  pc'[c] = "locked" /\ \E a \in Up[cursor'[c]] : cancelled'[a]
  <2>0. \A t \in Tokens : Up[t] \subseteq Tokens
    BY Zenon, UpFacts
  <2>1. CASE c # p
    <3>1. pc'[c] = pc[c] /\ cursor'[c] = cursor[c] /\ op'[c] = op[c]
      BY Zenon, <2>1, Frame
    <3>2. pc[c] = "locked" /\ \E a \in Up[cursor[c]] : cancelled[a]
      BY Zenon, <1>3, <3>1 DEF Closed, On
    <3>3. cursor[c] \in Tokens
      BY Zenon, ThreadFacts
    <3>4. PICK a \in Up[cursor[c]] : cancelled[a]
      BY <3>2
    <3>5. a \in Tokens
      BY Zenon, <2>0, <3>3
    <3>6. cancelled'[a]
      BY Zenon, <3>4, <3>5, Frame
    <3> QED
      BY <3>1, <3>2, <3>6
  <2>2. CASE c = p
    <3>1. CASE LookHigher(p) /\ pc[p] = "locked" /\ pc'[p] = "locked"
      <4>1. /\ ~cancelled[cursor[p]] /\ Parent[cursor[p]] # NoToken
            /\ cursor'[p] = Parent[cursor[p]] /\ op' = op /\ cancelled' = cancelled
        BY Zenon, <3>1, ThreadFacts DEF LookHigher, Climb, AtTop, callVars, tokenVars, Types
      <4>2. \E a \in Up[cursor[p]] : cancelled[a]
        BY Zenon, <1>3, <2>2, <3>1, <4>1 DEF Closed, On
      <4>3. cursor[p] \in Tokens
        BY ThreadFacts
      <4>4. Up[cursor[p]] = {cursor[p]} \cup Up[Parent[cursor[p]]]
        BY Zenon, <4>1, <4>3, UpFacts
      <4> QED
        BY Zenon, <2>2, <3>1, <4>1, <4>2, <4>4
    <3>2. CASE FindNone(p) /\ pc[p] = "locked"
      <4>1. ~cancelled[cursor[p]] /\ Parent[cursor[p]] = NoToken /\ op' = op
        BY Zenon, <3>2 DEF FindNone, AtTop, callVars
      <4>2. \E a \in Up[cursor[p]] : cancelled[a]
        BY Zenon, <1>3, <2>2, <3>2, <4>1 DEF Closed, On
      <4>3. Up[cursor[p]] = {cursor[p]}
        BY Zenon, <4>1, UpFacts, ThreadFacts
      <4> QED
        BY Zenon, <4>1, <4>2, <4>3
    <3>3. CASE Lock(p) /\ pc'[p] = "locked"
      <4>1. cursor'[p] = On(p) /\ On(p) = m /\ cancelled' = cancelled
        BY Zenon, <1>3, <2>2, <3>3, ThreadFacts DEF Lock, Goto, callVars, Types, On
      <4>2. \E a \in Up[m] : cancelled[a]
        BY Zenon DEF Closed, Settled, Origin
      <4> QED
        BY Zenon, <2>2, <3>3, <4>1, <4>2
    <3> QED
      BY Zenon, <1>3, <2>2, <3>1, <3>2, <3>3, Arrivals
  <2> QED
    BY Zenon, <2>1, <2>2
<1> QED
  BY Zenon, <1>1, <1>2, <1>3 DEF Closed, On

\* A reader has a token with a reason ahead of it: those it passed have none.
LEMMA ReasonAhead ==
    ASSUME Types, Places, Readers, NEW p \in Threads, pc[p] = "reason"
    PROVE  Settled(cursor[p])
<1>1. PICK a \in Up[On(p)] : Origin(a)
  BY Zenon DEF Readers, Settled
<1>2. a \in Up[cursor[p]]
  BY Zenon, <1>1 DEF Readers, Closed, Origin
<1> QED
  BY Zenon, <1>1, <1>2 DEF Settled

\* A reader that goes past a token without a reason, whose lock was free, leaves it
\* closed.
LEMMA ReadersStep ==
    ASSUME Types, Places, Origins, Readers, NEW p \in Threads, CoreStep(p)
    PROVE  Readers'
<1> SUFFICES ASSUME NEW q \in Threads, pc'[q] = "reason", NEW t, t = op'[q].on
             PROVE  Settled(t)' /\ \A m \in Up[t] \ Up[cursor'[q]] : Closed(m)'
  BY Zenon DEF Readers, Settled, On
<1>1. CASE q # p
  <2>1. pc'[q] = pc[q] /\ cursor'[q] = cursor[q] /\ t = On(q)
    BY Zenon, <1>1, Frame DEF On
  <2>2. t \in Tokens /\ Up[t] \subseteq Tokens
    BY Zenon, <2>1, ThreadFacts, UpFacts
  <2>3. Settled(t) /\ \A m \in Up[t] \ Up[cursor[q]] : Closed(m)
    BY Zenon, <2>1 DEF Readers
  <2>4. Settled(t)'
    BY Zenon, <2>2, <2>3, KeepSettled
  <2>5. \A m \in Up[t] \ Up[cursor[q]] : Closed(m)'
    BY Zenon, <2>2, <2>3, KeepClosed
  <2> QED
    BY Zenon, <2>1, <2>4, <2>5
<1>2. CASE q = p
  <2>0. ASSUME op' = op PROVE t = On(p) /\ t \in Tokens /\ Up[t] \subseteq Tokens
    BY SMTT(30), <1>2, <2>0, ThreadFacts, UpFacts DEF On
  <2>1. CASE FindCancelled(p) /\ cursor'[p] = On(p)
    <3>1. op' = op /\ cancelled[cursor[p]]
      BY Zenon, <2>1 DEF FindCancelled, callVars
    <3>2. Settled(cursor[p])
      BY Zenon, <3>1, ThreadFacts DEF Origins
    <3>3. Settled(t)
      BY Zenon, <2>0, <3>1, <3>2, ThreadFacts, SettledBelow
    <3>4. Settled(t)'
      BY Zenon, <2>0, <3>1, <3>3, KeepSettled
    <3> QED
      BY Zenon, <1>2, <2>0, <2>1, <3>1, <3>4
  <2>2. CASE ReasonHigher(p) /\ ~AtTop(p) /\ cursor'[p] = Parent[cursor[p]]
    <3>1. /\ op' = op /\ pc[p] = "reason" /\ reason[cursor[p]] = NoReason
          /\ holder[cursor[p]] = NoThread /\ Parent[cursor[p]] # NoToken
      BY Zenon, <2>2 DEF ReasonHigher, callVars, AtTop
    <3>2. cursor[p] \in Tokens
      BY Zenon, ThreadFacts
    <3>3. ASSUME NEW c \in Threads, pc[c] \in {"locked", "store"}, On(c) = cursor[p]
          PROVE  FALSE
      <4>1. holder[On(c)] = c
        BY Zenon, <3>3 DEF Places, Placed
      <4> QED
        BY SMTT(30), <3>1, <3>3, <4>1, TreeAssumption
    <3>4. Closed(cursor[p])
      BY Zenon, <3>1, <3>3, ReasonAhead DEF Closed
    <3>5. Up[cursor[p]] = {cursor[p]} \cup Up[Parent[cursor[p]]]
      BY Zenon, <3>1, <3>2, UpFacts
    <3>6. Settled(t) /\ \A m \in Up[t] \ Up[Parent[cursor[p]]] : Closed(m)
      BY Zenon, <2>0, <3>1, <3>4, <3>5 DEF Readers
    <3>7. Settled(t)'
      BY Zenon, <2>0, <3>1, <3>6, KeepSettled
    <3>8. \A m \in Up[t] \ Up[Parent[cursor[p]]] : Closed(m)'
      BY <2>0, <3>1, <3>6, KeepClosed
    <3> QED
      BY Zenon, <1>2, <2>2, <3>7, <3>8
  <2> QED
    BY Zenon, <1>2, <2>1, <2>2, Arrivals
<1> QED
  BY Zenon, <1>1, <1>2

\* A reason that was given stays the one of the lowest token that will have any.
LEMMA AnswersStep ==
    ASSUME Types, Places, Origins, Readers, Answers, NEW p \in Threads, CoreStep(p)
    PROVE  Answers'
<1> SUFFICES ASSUME NEW t \in Tokens, NEW r \in observed'[t]
             PROVE  /\ r # NoReason
                    /\ \E n \in Up[t] : /\ reason'[n] = r
                                          /\ \A m \in Up[t] \ Up[n] : Closed(m)'
  BY Zenon DEF Answers
<1>1. r # NoReason /\ \E n \in Up[t] : reason[n] = r /\ \A m \in Up[t] \ Up[n] : Closed(m)
  <2>1. CASE r \in observed[t]
    BY Zenon, <2>1 DEF Answers
  <2>2. CASE ReasonHere(p) /\ t = On(p) /\ r = reason[cursor[p]]
    BY Zenon, <2>2, ThreadFacts DEF ReasonHere, Readers
  <2>3. CASE ReasonHigher(p) /\ AtTop(p)
    <3>1. pc[p] = "reason" /\ reason[cursor[p]] = NoReason /\ Parent[cursor[p]] = NoToken
      BY Zenon, <2>3 DEF ReasonHigher, AtTop
    <3>2. Up[cursor[p]] = {cursor[p]}
      BY Zenon, <3>1, UpFacts, ThreadFacts
    <3> QED
      BY Zenon, <3>1, <3>2, ReasonAhead DEF Settled, Origin
  <2>4. \/ r \in observed[t]
        \/ ReasonHere(p) /\ t = On(p) /\ r = reason[cursor[p]]
        \/ ReasonHigher(p) /\ AtTop(p)
    <3>1. observed' = observed \/ ReasonHere(p) \/ ReasonHigher(p)
      BY Zenon DEF CoreStep, Begin, FindCancelled, LookHigher, FindNone, Lock, Unlock, Store, Swap,
             Inert, history, tokenVars, callVars
    <3>2. CASE ReasonHere(p)
      BY Zenon, <3>2, ThreadFacts DEF ReasonHere, Types
    <3>3. CASE ReasonHigher(p)
      BY Zenon, <3>3, ThreadFacts DEF ReasonHigher, Types
    <3> QED
      BY Zenon, <3>1, <3>2, <3>3
  <2> QED
    BY Zenon, <2>1, <2>2, <2>3, <2>4
<1>2. PICK n \in Up[t] : reason[n] = r /\ \A m \in Up[t] \ Up[n] : Closed(m)
  BY Zenon, <1>1
<1>3. Up[t] \subseteq Tokens
  BY Zenon, UpFacts
<1>4. reason'[n] = r
  BY <1>1, <1>2, <1>3, Frame
<1>5. \A m \in Up[t] \ Up[n] : Closed(m)'
  BY Zenon, <1>2, <1>3, KeepClosed
<1> QED
  BY Zenon, <1>1, <1>2, <1>4, <1>5

\* Before the first call nothing is cancelled.
LEMMA InitInv ==
    ASSUME Init
    PROVE  TokenInv
<1>1. Types
  <2>1. todo \in [Threads -> Seq(Calls)]
    BY Zenon, PlansAssumption DEF Init
  <2>2. op \in [Threads -> [kind : Kinds, on : Tokens, why : Why]]
    BY SMTT(30) DEF Init, Kinds, Why
  <2> QED
    BY Zenon, <2>1, <2>2 DEF Init, Types, Watched, Quiet, Why, On
<1>2. Places
  <2>1. ASSUME NEW p \in Threads PROVE pc[p] = "idle" /\ cursor[p] = On(p) /\ On(p) \in Tokens
    BY Zenon, <1>1 DEF Init, Types, On
  <2> QED
    BY Zenon, <2>1, UpFacts DEF Places, Placed
<1>3. Origins /\ Readers /\ Answers
  BY DEF Init, Origins, Readers, Answers
<1> QED
  BY Zenon, <1>1, <1>2, <1>3 DEF TokenInv

\* The invariant is inductive.
LEMMA NextInv ==
    ASSUME TokenInv, [Next]_vars
    PROVE  TokenInv'
<1>1. CASE Next
  <2>1. PICK p \in Threads : CoreStep(p)
    BY <1>1, NextIsCore DEF TokenInv
  <2> QED
    BY <2>1, TypesStep, PlacesStep, OriginsStep, ReadersStep, AnswersStep DEF TokenInv
<1>2. CASE UNCHANGED vars
  <2>1. UNCHANGED <<cancelled, reason, holder, observed, todo, op, pc, cursor>>
    BY Zenon, <1>2 DEF vars, tokenVars, callVars, history
  <2>2. Types'
    BY Zenon, <2>1 DEF TokenInv, Types, Watched, Quiet
  <2>3. Places'
    BY <2>1 DEF TokenInv, Places, Placed, On
  <2>4. Origins'
    BY Zenon, <2>1 DEF TokenInv, Origins, Settled, Origin
  <2>5. \A m : Settled(m)' = Settled(m) /\ Closed(m)' = Closed(m)
    BY Zenon, <2>1 DEF Settled, Origin, Closed, On
  <2>6. Readers'
    BY Zenon, <2>1, <2>5 DEF TokenInv, Readers, On
  <2>7. Answers'
    BY Zenon, <2>1, <2>5 DEF TokenInv, Answers
  <2> QED
    BY Zenon, <2>2, <2>3, <2>4, <2>6, <2>7 DEF TokenInv
<1> QED
  BY <1>1, <1>2

\* Two answers for a token come from the same ancestor.
LEMMA InvIsStable ==
    ASSUME TokenInv
    PROVE  ReasonIsStable
<1> SUFFICES ASSUME NEW t \in Tokens, NEW r \in observed[t], NEW s \in observed[t]
             PROVE  r = s /\ r # NoReason
  BY Zenon DEF ReasonIsStable
<1>1. r # NoReason /\ s # NoReason
  BY Zenon DEF TokenInv, Answers
<1>2. PICK a \in Up[t] : reason[a] = r /\ \A m \in Up[t] \ Up[a] : Closed(m)
  BY DEF TokenInv, Answers
<1>3. PICK b \in Up[t] : reason[b] = s /\ \A m \in Up[t] \ Up[b] : Closed(m)
  BY Zenon DEF TokenInv, Answers
<1>4. a \in Up[b] /\ b \in Up[a]
  BY <1>1, <1>2, <1>3 DEF Closed
<1>5. a = b
  BY <1>4, UpLinear
<1> QED
  BY Zenon, <1>1, <1>2, <1>3, <1>5

\* Whatever the tree, the threads and the calls they make: all who ask a token why
\* it was cancelled are told the same reason, and there is one (reason,
\* cancel_with_reason).
THEOREM ReasonStable == Spec => []ReasonIsStable
<1>1. Spec => []TokenInv
  BY InitInv, NextInv, PTL DEF Spec
<1> QED
  BY <1>1, InvIsStable, PTL
================================================================================
