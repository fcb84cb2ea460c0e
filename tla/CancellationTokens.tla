-------------------------- MODULE CancellationTokens --------------------------
(* The tree of cancellation tokens of a runtime (cancellation): threads cancel  *)
(* and escalate tokens, read why they were cancelled, register wake handles and *)
(* wait for a cancellation, all at once; an executor sleeps on its handle and,  *)
(* once cancelled for a requested stop, drains until a failure overtakes it.    *)
(* A step is one access of an atomic, one critical section or one call of       *)
(* tokio's Notify.                                                              *)
EXTENDS Naturals, Sequences

CONSTANTS Tokens, NoToken,
          Parent,           \* the parent of a token, or NoToken
          Up,               \* a token and its ancestors
          Threads, NoThread,
          Stops, Failures,  \* reasons, by is_failure
          NoReason,
          MinPruneAt,       \* WakeRegistrations::MIN_PRUNE_AT
          Plans             \* what the threads call, and the handles' first state

\* The parents of a token form a chain.
ASSUME TreeAssumption ==
    /\ NoToken \notin Tokens /\ NoReason \notin Stops \cup Failures /\ NoThread \notin Threads
    /\ Parent \in [Tokens -> Tokens \cup {NoToken}]
    /\ Up \in [Tokens -> SUBSET Tokens]
    /\ \A t \in Tokens :
          /\ Up[t] = {t} \cup (IF Parent[t] = NoToken THEN {} ELSE Up[Parent[t]])
          /\ Parent[t] # NoToken => t \notin Up[Parent[t]]
          /\ \A a \in Up[t] : Up[a] \subseteq Up[t]

\* A call of an operation on a token; a cancellation gives its reason.
Calls ==
    {c \in [kind : {"cancel", "escalate", "wait", "read", "register", "run"}, on : Tokens,
            why : Stops \cup Failures \cup {NoReason}] :
        c.kind \in {"cancel", "escalate"} => c.why # NoReason}

ASSUME PlansAssumption == \A plan \in Plans : plan.calls \in [Threads -> Seq(Calls)]

VARIABLES
    cancelled,  \* TokenInner of each token: the flag,
    reason,     \* ... why it was cancelled,
    holder,     \* ... who holds the lock of reason,
    handles,    \* ... the registered wake handles, named by their executors,
    pruneAt,    \* ... when to prune them,
    escalation, \* ... the failure that overtook a requested stop,
    waiters,    \* ... and the waits enabled on its Notify
    todo,       \* the calls a thread has yet to make
    op,         \* the one it is in
    pc,         \* where it is in it
    cursor,     \* the token its walk up the tree has come to
    batch,      \* the handles it is about to notify
    notified,   \* the wake handles with a notification
    woken,      \* the threads whose wait was notified
    observed,   \* what reason() has returned, for each token
    overtaken   \* the tokens on which a failure was escalated

tokenVars == <<cancelled, reason, holder, handles, pruneAt, escalation, waiters>>
callVars == <<todo, op>>
wakeVars == <<batch, notified, woken>>
history == <<observed, overtaken>>
vars == <<tokenVars, callVars, pc, cursor, wakeVars, history>>

On(p) == op[p].on

Init ==
    /\ cancelled = [t \in Tokens |-> FALSE]
    /\ reason = [t \in Tokens |-> NoReason]
    /\ holder = [t \in Tokens |-> NoThread]
    /\ handles = [t \in Tokens |-> <<>>]
    /\ pruneAt = [t \in Tokens |-> 0]
    /\ escalation = [t \in Tokens |-> NoReason]
    /\ waiters = [t \in Tokens |-> {}]
    /\ \E plan \in Plans : todo = plan.calls /\ notified = plan.notified
    /\ op \in [Threads -> {[kind |-> "none", on |-> t, why |-> NoReason] :
                             t \in {t \in Tokens : Parent[t] = NoToken}}]
    /\ pc = [p \in Threads |-> "idle"]
    /\ cursor = [p \in Threads |-> On(p)]
    /\ batch = [p \in Threads |-> {}]
    /\ woken = {}
    /\ observed = [t \in Tokens |-> {}]
    /\ overtaken = {}
--------------------------------------------------------------------------------
(* Control: every label starts its walk at the token of the call.               *)

\* The next label of p, or "idle" when its call returns.
Goto(p, label) ==
    /\ pc' = [pc EXCEPT ![p] = label]
    /\ cursor' = [cursor EXCEPT ![p] = On(p)]

\* The same label, one token further up.
Climb(p, label) ==
    /\ pc' = [pc EXCEPT ![p] = label]
    /\ cursor' = [cursor EXCEPT ![p] = Parent[cursor[p]]]

AtTop(p) == Parent[cursor[p]] = NoToken

Entry(call) ==
    CASE call.kind = "read" -> "check"
      [] call.kind = "register" -> "push"
      [] call.kind = "run" -> "parked"
      [] OTHER -> "fast"

\* A thread makes its next call.
Begin(p) ==
    /\ pc[p] = "idle" /\ todo[p] # <<>>
    /\ op' = [op EXCEPT ![p] = Head(todo[p])]
    /\ todo' = [todo EXCEPT ![p] = Tail(@)]
    /\ pc' = [pc EXCEPT ![p] = Entry(Head(todo[p]))]
    /\ cursor' = [cursor EXCEPT ![p] = Head(todo[p]).on]
    /\ overtaken' = overtaken \cup (IF Head(todo[p]).kind = "escalate"
                                       /\ Head(todo[p]).why \in Failures
                                    THEN {Head(todo[p]).on} ELSE {})
    /\ UNCHANGED <<tokenVars, wakeVars, observed>>

\* Faulty variant: an escalation is a cancellation and no more.
CancelIsAll(p) == "idle"

\* Where escalate goes on when its cancel_with_reason is through.
AfterCancel(p) ==
    IF op[p].kind = "escalate" /\ op[p].why \in Failures THEN "again" ELSE "idle"
--------------------------------------------------------------------------------
(* is_cancelled, at the places that call it: a walk up the flags.               *)

Walking == {"fast", "locked", "again", "check", "enabled", "recheck", "registered"}

\* Faulty variant: the look under the lock is ignored.
IfCancelledBefore(p) ==
    CASE pc[p] = "fast" -> IF op[p].kind = "wait" THEN "idle" ELSE AfterCancel(p)
      [] pc[p] = "locked" -> "store"
      [] pc[p] = "again" -> "reason"
      [] pc[p] = "check" -> "again"
      [] OTHER -> "idle"

\* Where a walk that found a flag set goes on ...
IfCancelled(p) ==
    CASE pc[p] = "fast" -> IF op[p].kind = "wait" THEN "idle" ELSE AfterCancel(p)
      [] pc[p] = "locked" -> "unlock"
      [] pc[p] = "again" -> "reason"
      [] pc[p] = "check" -> "again"
      [] OTHER -> "idle"

\* ... and one that found none.
IfNot(p) ==
    CASE pc[p] = "fast" -> IF op[p].kind = "wait" THEN "enable" ELSE "lock"
      [] pc[p] = "locked" -> "store"
      [] pc[p] = "check" -> IF op[p].kind = "run" THEN "parked" ELSE "idle"
      [] pc[p] = "enabled" -> IF Parent[On(p)] = NoToken THEN "asleep" ELSE "climb"
      [] pc[p] = "recheck" -> "enable"
      [] OTHER -> "idle"

\* An ancestor's cancellation is cached.  The store follows the load that saw the
\* ancestor's flag, which stays set: nothing is lost by taking them as one step.
\* A wait that returns drops what it enabled.
FindCancelled(p) ==
    /\ pc[p] \in Walking /\ cancelled[cursor[p]]
    /\ cancelled' = [cancelled EXCEPT ![On(p)] = TRUE]
    /\ Goto(p, IfCancelled(p))
    /\ notified' = IF pc[p] = "registered" THEN notified \cup {p} ELSE notified
    /\ waiters' = [t \in Tokens |-> waiters[t] \ {p}]
    /\ woken' = woken \ {p}
    /\ UNCHANGED <<reason, holder, handles, pruneAt, escalation, callVars, batch, history>>

LookHigher(p) ==
    /\ pc[p] \in Walking /\ ~cancelled[cursor[p]] /\ ~AtTop(p)
    /\ Climb(p, pc[p])
    /\ UNCHANGED <<tokenVars, callVars, wakeVars, history>>

\* reason() is only called for a token seen cancelled: its walk finds a flag.
FindNone(p) ==
    /\ pc[p] \in Walking \ {"again"} /\ ~cancelled[cursor[p]] /\ AtTop(p)
    /\ IF IfNot(p) = "climb"
       THEN /\ pc' = [pc EXCEPT ![p] = "climb"]
            /\ cursor' = [cursor EXCEPT ![p] = Parent[On(p)]]
       ELSE Goto(p, IfNot(p))
    /\ UNCHANGED <<tokenVars, callVars, wakeVars, history>>
--------------------------------------------------------------------------------
(* cancel_with_reason and escalate.                                             *)

Lock(p) ==
    /\ pc[p] = "lock" /\ holder[On(p)] = NoThread
    /\ holder' = [holder EXCEPT ![On(p)] = p]
    /\ Goto(p, "locked")
    /\ UNCHANGED <<cancelled, reason, handles, pruneAt, escalation, waiters, callVars,
                   wakeVars, history>>

\* An ancestor was cancelled since the first look: its reason stays.
Unlock(p) ==
    /\ pc[p] = "unlock"
    /\ holder' = [holder EXCEPT ![On(p)] = NoThread]
    /\ Goto(p, AfterCancel(p))
    /\ UNCHANGED <<cancelled, reason, handles, pruneAt, escalation, waiters, callVars,
                   wakeVars, history>>

\* The first reason stays; the lock is released.
Store(p) ==
    /\ pc[p] = "store"
    /\ reason' = [reason EXCEPT ![On(p)] = IF @ = NoReason THEN op[p].why ELSE @]
    /\ holder' = [holder EXCEPT ![On(p)] = NoThread]
    /\ Goto(p, "swap")
    /\ UNCHANGED <<cancelled, handles, pruneAt, escalation, waiters, callVars, wakeVars,
                   history>>

\* Only the first to set the flag notifies.
Swap(p) ==
    /\ pc[p] = "swap"
    /\ cancelled' = [cancelled EXCEPT ![On(p)] = TRUE]
    /\ Goto(p, IF cancelled[On(p)] THEN AfterCancel(p) ELSE "collect")
    /\ UNCHANGED <<reason, holder, handles, pruneAt, escalation, waiters, callVars, wakeVars,
                   history>>

\* A weak handle lives as long as its executor.
Live(h) == pc[h] # "idle" \/ todo[h] # <<>>

Collect(p) ==
    /\ pc[p] \in {"collect", "recollect"}
    /\ batch' = [batch EXCEPT ![p] = {h \in Threads : Live(h)
                                        /\ \E i \in DOMAIN handles[On(p)] : handles[On(p)][i] = h}]
    /\ Goto(p, IF pc[p] = "collect" THEN "notify" ELSE "renotify")
    /\ UNCHANGED <<tokenVars, callVars, notified, woken, history>>

Notify(p) ==
    /\ pc[p] \in {"notify", "renotify"}
    /\ \E h \in batch[p] :
          /\ notified' = notified \cup {h}
          /\ batch' = [batch EXCEPT ![p] = @ \ {h}]
    /\ UNCHANGED <<tokenVars, callVars, pc, cursor, woken, history>>

\* Notify::notify_waiters.
NotifyWaiters(p) ==
    /\ pc[p] \in {"notify", "renotify"} /\ batch[p] = {}
    /\ woken' = woken \cup waiters[On(p)]
    /\ waiters' = [waiters EXCEPT ![On(p)] = {}]
    /\ Goto(p, IF pc[p] = "notify" THEN AfterCancel(p) ELSE "idle")
    /\ UNCHANGED <<cancelled, reason, holder, handles, pruneAt, escalation, callVars, batch,
                   notified, history>>

\* escalate, on a token cancelled for a requested stop; the first one notifies.
Escalate(p) ==
    /\ pc[p] = "set"
    /\ escalation' = [escalation EXCEPT ![On(p)] = IF @ = NoReason THEN op[p].why ELSE @]
    /\ Goto(p, IF escalation[On(p)] = NoReason THEN "recollect" ELSE "idle")
    /\ UNCHANGED <<cancelled, reason, holder, handles, pruneAt, waiters, callVars, wakeVars,
                   history>>
--------------------------------------------------------------------------------
(* reason(), called by check, by escalate and by an executor that is cancelled. *)

\* What the caller does with the reason: an executor ends on a failure, and
\* drains otherwise; escalate has nothing to stop after a failure.
Given(p, why) ==
    CASE op[p].kind = "escalate" -> IF why \in Failures THEN "idle" ELSE "set"
      [] op[p].kind = "run" -> IF why \in Failures THEN "idle" ELSE "drain"
      [] OTHER -> "idle"

\* The lock of each token on the way is taken to read its reason.
ReasonHere(p) ==
    /\ pc[p] = "reason" /\ holder[cursor[p]] = NoThread
    /\ reason[cursor[p]] # NoReason
    /\ observed' = [observed EXCEPT ![On(p)] = @ \cup {reason[cursor[p]]}]
    /\ Goto(p, Given(p, reason[cursor[p]]))
    /\ UNCHANGED <<tokenVars, callVars, wakeVars, overtaken>>

ReasonHigher(p) ==
    /\ pc[p] = "reason" /\ holder[cursor[p]] = NoThread
    /\ reason[cursor[p]] = NoReason
    /\ observed' = [observed EXCEPT ![On(p)] = @ \cup (IF AtTop(p) THEN {NoReason} ELSE {})]
    /\ pc' = [pc EXCEPT ![p] = IF AtTop(p) THEN Given(p, NoReason) ELSE "reason"]
    /\ cursor' = [cursor EXCEPT ![p] = IF AtTop(p) THEN On(p) ELSE Parent[cursor[p]]]
    /\ UNCHANGED <<tokenVars, callVars, wakeVars, overtaken>>
--------------------------------------------------------------------------------
(* register: the handle goes to the token and to each of its ancestors.         *)

\* WakeRegistrations::push, which first drops dead handles when there are many.
Pushed(p) ==
    LET most == IF pruneAt[cursor[p]] > MinPruneAt THEN pruneAt[cursor[p]] ELSE MinPruneAt
        live == SelectSeq(handles[cursor[p]], Live)
    IN  IF Len(handles[cursor[p]]) >= most
        THEN /\ handles' = [handles EXCEPT ![cursor[p]] = Append(live, p)]
             /\ pruneAt' = [pruneAt EXCEPT ![cursor[p]] = 2 * Len(live)]
        ELSE /\ handles' = [handles EXCEPT ![cursor[p]] = Append(@, p)]
             /\ pruneAt' = pruneAt

Push(p) ==
    /\ pc[p] = "push"
    /\ Pushed(p)
    /\ pc' = [pc EXCEPT ![p] = "pushed"]
    /\ UNCHANGED <<cancelled, reason, holder, escalation, waiters, callVars, cursor, wakeVars,
                   history>>

CheckNode(p) ==
    /\ pc[p] = "pushed"
    /\ notified' = IF cancelled[cursor[p]] THEN notified \cup {p} ELSE notified
    /\ IF AtTop(p) THEN Goto(p, "registered") ELSE Climb(p, "push")
    /\ UNCHANGED <<tokenVars, callVars, batch, woken, history>>
--------------------------------------------------------------------------------
(* cancelled_async: enable the wait on the token, look, then on each ancestor.  *)

\* Notified::enable.
Enable(p) ==
    /\ pc[p] \in {"enable", "climb"}
    /\ waiters' = [waiters EXCEPT ![cursor[p]] = @ \cup {p}]
    /\ pc' = [pc EXCEPT ![p] = IF @ = "enable" THEN "enabled" ELSE "climbed"]
    /\ UNCHANGED <<cancelled, reason, holder, handles, pruneAt, escalation, callVars, cursor,
                   wakeVars, history>>

\* Faulty variant: an ancestor cancelled before the wait was enabled is missed.
AncestorUnchecked(p) ==
    /\ pc[p] = "climbed"
    /\ IF AtTop(p) THEN Goto(p, "asleep") ELSE Climb(p, "climb")
    /\ UNCHANGED <<tokenVars, callVars, wakeVars, history>>

\* await_ancestor_notify: a cancelled ancestor ends the wait.
CheckAncestor(p) ==
    /\ pc[p] = "climbed"
    /\ IF cancelled[cursor[p]] THEN Goto(p, "ready")
       ELSE IF AtTop(p) THEN Goto(p, "asleep") ELSE Climb(p, "climb")
    /\ UNCHANGED <<tokenVars, callVars, wakeVars, history>>

\* The wait ends, and with it what was enabled for it.
Awake(p) ==
    /\ pc[p] = "ready" \/ (pc[p] = "asleep" /\ p \in woken)
    /\ waiters' = [t \in Tokens |-> waiters[t] \ {p}]
    /\ woken' = woken \ {p}
    /\ Goto(p, "recheck")
    /\ UNCHANGED <<cancelled, reason, holder, handles, pruneAt, escalation, callVars, batch,
                   notified, history>>
--------------------------------------------------------------------------------
(* An executor (dataflow/executor): parked until its handle is notified, then   *)
(* it looks at the token; a drain looks for a failure in every sweep.           *)

Poll(p) ==
    /\ pc[p] = "parked" /\ p \in notified
    /\ notified' = notified \ {p}
    /\ Goto(p, "check")
    /\ UNCHANGED <<tokenVars, callVars, batch, woken, history>>

\* escalation(): of the token or the next ancestor that has one.
Drain(p) ==
    /\ pc[p] = "drain"
    /\ IF escalation[cursor[p]] # NoReason THEN Goto(p, "idle")
       ELSE IF AtTop(p) THEN Goto(p, "drain") ELSE Climb(p, "drain")
    /\ UNCHANGED <<tokenVars, callVars, wakeVars, history>>

DrainEnds(p) ==
    /\ pc[p] = "drain" /\ cursor[p] = On(p)
    /\ Goto(p, "idle")
    /\ UNCHANGED <<tokenVars, callVars, wakeVars, history>>
--------------------------------------------------------------------------------
Step(p) ==
    \/ FindCancelled(p) \/ LookHigher(p) \/ FindNone(p)
    \/ Lock(p) \/ Unlock(p) \/ Store(p) \/ Swap(p) \/ Collect(p) \/ Notify(p)
    \/ NotifyWaiters(p) \/ Escalate(p) \/ ReasonHere(p) \/ ReasonHigher(p)
    \/ Push(p) \/ CheckNode(p) \/ Enable(p) \/ CheckAncestor(p) \/ Awake(p)
    \/ Poll(p) \/ Drain(p)

Next == \E p \in Threads : Begin(p) \/ Step(p) \/ DrainEnds(p)

Spec == Init /\ [][Next]_vars

\* A thread inside a call, and an executor that can run, are scheduled; nobody
\* need make a call, and a drain need not end by itself.
Fairness == \A p \in Threads : WF_vars(Step(p))

LiveSpec == Spec /\ Fairness
--------------------------------------------------------------------------------
IsCancelled(t) == \E a \in Up[t] : cancelled[a]

\* A cancelled token has a reason, and whoever reads it, at whatever moment of
\* cancellations of the token and its ancestors for different reasons, reads the
\* same one: what a reader saw first is what everyone sees.
ReasonIsStable ==
    \A t \in Tokens : \A r, s \in observed[t] : r = s /\ r # NoReason

\* An executor parked on a registered handle and a task in cancelled_async, on a
\* token that is or becomes cancelled at any height, get to run: neither a
\* registration nor a wait that races the cancellation misses it.
CancelIsNoticed ==
    \A p \in Threads :
        (pc[p] \in {"parked", "asleep"} /\ IsCancelled(On(p))) ~> pc[p] \notin {"parked", "asleep"}

\* A failure escalated on a token ends a drain below it, if the drain's requested
\* stop came from that token or from above it: whether the stop or the failure
\* came first, the drain does not go on as if nothing had failed.
FailureStopsDrain ==
    \A p \in Threads :
        ( /\ pc[p] = "drain"
          /\ \E a \in overtaken \cap Up[On(p)] :
                \A b \in Up[On(p)] \ Up[a] : reason[b] = NoReason ) ~> pc[p] = "idle"
================================================================================
