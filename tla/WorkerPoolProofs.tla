-------------------------- MODULE WorkerPoolProofs --------------------------
(***************************************************************************)
(* Proofs about module WorkerPool, for every number of tasks, threads and  *)
(* senders: a task is carried by one queue entry, thread or sender at a    *)
(* time, an outcome is published after the future is gone, and a shutdown  *)
(* that returned completed every task.                                     *)
(***************************************************************************)
EXTENDS WorkerPool, FiniteSetTheorems, TLAPS

States == {"new", "QUEUED", "POLLING", "IDLE", "DONE"}
Aborting == {"abort", "done"}

\* Where a thread has a task in its hands, before, during and after the poll.
Bound == {"claim", "reenqueue"}
Polls == {"sweep", "register", "recheck", "pending", "finish"}
Ends == {"drop", "complete"}
Carrying == Bound \cup Polls \cup Ends

TypeOK ==
    /\ state \in [Tasks -> States]
    /\ future \in [Tasks -> BOOLEAN] /\ waker \in [Tasks -> BOOLEAN]
    /\ completion \in [Tasks -> {"none", "result", "shutdown"}]
    /\ live_tasks \subseteq Tasks
    /\ ready_queue \in Seq(Tasks)
    /\ cur \in [Threads -> Tasks \cup {None}]
    /\ target \in [Senders -> Tasks \cup {None}]
    /\ DOMAIN pc = Threads /\ DOMAIN spc = Senders /\ DOMAIN seen = Senders
    /\ \A w \in Threads : pc[w] \in Carrying => cur[w] \in Tasks
    /\ \A s \in Senders : spc[s] \in {"flag", "waker", "cas", "retry", "push"} => target[s] \in Tasks

\* No two queue entries, threads or senders carry the same task.
QueuedOnce == \A i, j \in DOMAIN ready_queue : ready_queue[i] = ready_queue[j] => i = j
HandledOnce ==
    \A v, w \in Threads : pc[v] \in Carrying /\ pc[w] \in Carrying /\ cur[v] = cur[w] => v = w
PushedOnce ==
    \A r, s \in Senders : spc[r] = "push" /\ spc[s] = "push" /\ target[r] = target[s] => r = s
QueuedNotHandled ==
    \A i \in DOMAIN ready_queue : \A w \in Threads : pc[w] \in Carrying => cur[w] # ready_queue[i]
QueuedNotPushed ==
    \A i \in DOMAIN ready_queue : \A s \in Senders : spc[s] = "push" => target[s] # ready_queue[i]
HandledNotPushed ==
    \A w \in Threads : \A s \in Senders : pc[w] \in Carrying /\ spc[s] = "push" => cur[w] # target[s]

NoTwo == /\ QueuedOnce /\ HandledOnce /\ PushedOnce
         /\ QueuedNotHandled /\ QueuedNotPushed /\ HandledNotPushed

\* What carries a task says in which state it is.
Waits(t) == state[t] = "QUEUED" \/ (state[t] = "DONE" /\ shut \in Aborting)

QueuedWaits == \A i \in DOMAIN ready_queue : Waits(ready_queue[i])
PushedWaits == \A s \in Senders : spc[s] = "push" => Waits(target[s])
HandledFits ==
    \A w \in Threads :
        /\ pc[w] \in Bound => state[cur[w]] = "QUEUED"
        /\ pc[w] \in Polls => state[cur[w]] \in {"POLLING", "QUEUED"}
        /\ pc[w] \in Ends => state[cur[w]] = "DONE" /\ completion[cur[w]] = "none"
        /\ pc[w] = "complete" => ~future[cur[w]] /\ ~waker[cur[w]]

StateOfCarried == QueuedWaits /\ PushedWaits /\ HandledFits

\* The state of a task says what carries it.
CarriedBy(t) ==
    \/ \E i \in DOMAIN ready_queue : ready_queue[i] = t
    \/ \E w \in Threads : pc[w] \in Carrying /\ cur[w] = t
    \/ \E s \in Senders : spc[s] = "push" /\ target[s] = t

QueuedIsCarried == \A t \in Tasks : state[t] = "QUEUED" /\ shut \notin Aborting => CarriedBy(t)
PollingIsHandled ==
    \A t \in Tasks : state[t] = "POLLING" => \E w \in Threads : pc[w] \in Polls /\ cur[w] = t
DoneIsSaid ==
    \A t \in Tasks : state[t] = "DONE" => \/ completion[t] # "none"
                                          \/ \E w \in Threads : pc[w] \in Ends /\ cur[w] = t

CarrierOfState == QueuedIsCarried /\ PollingIsHandled /\ DoneIsSaid

\* A task that may still be polled is listed; an outcome is the last thing.
TasksAccounted ==
    \A t \in Tasks :
        /\ state[t] \notin {"new", "DONE"} => t \in live_tasks
        /\ completion[t] # "none" => state[t] = "DONE" /\ ~future[t] /\ ~waker[t]

\* Once the threads are joined there are none.
StopOrder ==
    /\ shut \in Aborting => \A w \in Threads : pc[w] \in {"absent", "exited"}
    /\ shut # "no" => \A s \in Senders : spc[s] # "spawn"
    /\ shut = "done" => live_tasks = {}

PoolInv == TypeOK /\ NoTwo /\ StateOfCarried /\ CarrierOfState /\ TasksAccounted /\ StopOrder

-----------------------------------------------------------------------------
(* Types.                                                                   *)

\* The senders' steps keep every variable in its type.
LEMMA SenderTypes ==
    ASSUME TypeOK, NEW s \in Senders,
           (\E t \in Tasks : Post(s, t) \/ Register(s, t)) \/ Submit(s) \/ Notify(s)
    PROVE  TypeOK'
<1> USE DEF TypeOK, States, Carrying, Bound, Polls, Ends, Goto, SGoto, Return, 
            task, wake, queues, pool, sender
<1>1. ASSUME NEW t \in Tasks, Post(s, t)
      PROVE  TypeOK'
  BY <1>1 DEF Post
<1>2. ASSUME NEW t \in Tasks, Register(s, t)
      PROVE  TypeOK'
  BY <1>2 DEF Register
<1>3. CASE Submit(s)
  BY <1>3 DEF Submit
<1>4. CASE SetFlag(s)
  BY <1>4 DEF SetFlag
<1>5. CASE ReadWaker(s)
  BY <1>5 DEF ReadWaker
<1>6. CASE TryWake(s)
  BY <1>6 DEF TryWake
<1>7. CASE TryWakeAgain(s)
  BY <1>7 DEF TryWakeAgain
<1>8. CASE Push(s)
  BY <1>8 DEF Push
<1>9. CASE Signal(s)
  BY <1>9 DEF Signal, NotifyOne, Waiting
<1>10. CASE Spawn(s)
  BY <1>10 DEF Spawn, Live
<1> QED BY <1>1, <1>2, <1>3, <1>4, <1>5, <1>6, <1>7, <1>8, <1>9, <1>10 DEF Notify

\* So do the threads' steps ...
LEMMA ThreadTypes ==
    ASSUME TypeOK, NEW w \in Threads, Thread(w) \/ WaitEnds(w)
    PROVE  TypeOK'
<1> USE DEF TypeOK, States, Carrying, Bound, Polls, Ends, Goto, 
            task, wake, queues, pool, sender
<1>1. CASE Steal(w)
  BY <1>1 DEF Steal
<1>2. CASE RunJob(w)
  BY <1>2 DEF RunJob
<1>3. CASE Dequeue(w)
  <2>1. CASE ready_queue = <<>>
    BY <1>3, <2>1 DEF Dequeue
  <2>2. CASE ready_queue # <<>>
    <3>1. Head(ready_queue) \in Tasks /\ Tail(ready_queue) \in Seq(Tasks)
      BY <2>2
    <3> QED BY <1>3, <2>2, <3>1, Zenon DEF Dequeue
  <2> QED BY <2>1, <2>2
<1>4. CASE StartPoll(w)
  BY <1>4 DEF StartPoll
<1>5. CASE Sweep(w)
  BY <1>5, Zenon DEF Sweep
<1>6. CASE RegisterWaker(w)
  BY <1>6 DEF RegisterWaker
<1>7. CASE Recheck(w)
  BY <1>7 DEF Recheck
<1>8. CASE Pending(w)
  BY <1>8 DEF Pending
<1>9. CASE Reenqueue(w)
  BY <1>9 DEF Reenqueue
<1>10. CASE ThreadSignal(w)
  BY <1>10 DEF ThreadSignal, NotifyOne, Waiting
<1>11. CASE Finish(w)
  BY <1>11 DEF Finish
<1>12. CASE DropFuture(w)
  BY <1>12 DEF DropFuture
<1>13. CASE Complete(w)
  BY <1>13 DEF Complete
<1>14. CASE PreparePark(w)
  BY <1>14 DEF PreparePark
<1>15. CASE CheckQueues(w)
  BY <1>15 DEF CheckQueues
<1>16. CASE Wait(w)
  BY <1>16 DEF Wait
<1>17. CASE Awake(w)
  BY <1>17 DEF Awake
<1>18. CASE IdleExit(w)
  BY <1>18 DEF IdleExit
<1>19. CASE Exit(w)
  BY <1>19 DEF Exit
<1>20. CASE WaitEnds(w)
  BY <1>20 DEF WaitEnds
<1> QED
  BY <1>1, <1>2, <1>3, <1>4, <1>5, <1>6, <1>7, <1>8, <1>9, <1>10, <1>11, <1>12, <1>13,
     <1>14, <1>15, <1>16, <1>17, <1>18, <1>19, <1>20 DEF Thread

\* ... and those of the shutdown.
LEMMA StopTypes ==
    ASSUME TypeOK, BeginShutdown \/ Stop
    PROVE  TypeOK'
<1> USE DEF TypeOK, States, Carrying, Bound, Polls, Ends, task, wake, queues, pool, sender
<1>1. CASE BeginShutdown
  BY <1>1 DEF BeginShutdown
<1>2. CASE NotifyAll
  BY <1>2 DEF NotifyAll
<1>3. CASE Join
  BY <1>3 DEF Join
<1>4. ASSUME NEW t \in Tasks, Abort(t)
      PROVE  TypeOK'
  BY <1>4, ZenonT(30) DEF Abort
<1>5. CASE EndShutdown
  BY <1>5 DEF EndShutdown
<1> QED BY <1>1, <1>2, <1>3, <1>4, <1>5 DEF Stop

\* Who carries a task carries one that exists.
LEMMA CarriedAreTasks ==
    ASSUME TypeOK
    PROVE  /\ \A i \in DOMAIN ready_queue : ready_queue[i] \in Tasks
           /\ \A w \in Threads : pc[w] \in Carrying => cur[w] \in Tasks
           /\ \A s \in Senders : spc[s] = "push" => target[s] \in Tasks
<1>1. \A i \in DOMAIN ready_queue : ready_queue[i] \in Tasks
  <2>1. ready_queue \in Seq(Tasks)
    BY DEF TypeOK
  <2> QED BY <2>1
<1>2. \A w \in Threads : pc[w] \in Carrying => cur[w] \in Tasks
  BY Zenon DEF TypeOK
<1>3. \A s \in Senders : spc[s] = "push" => target[s] \in Tasks
  <2>1. \A s \in Senders : spc[s] \in {"flag", "waker", "cas", "retry", "push"} => target[s] \in Tasks
    BY Zenon DEF TypeOK
  <2> QED BY <2>1
<1> QED BY <1>1, <1>2, <1>3

\* The places of a thread that has a task in its hands, and some where it has
\* none.
LEMMA ThreadPlaces ==
    /\ Bound \subseteq Carrying /\ Polls \subseteq Carrying /\ Ends \subseteq Carrying
    /\ {"claim", "reenqueue"} \subseteq Bound /\ "complete" \in Ends
    /\ \A p \in Bound : p \notin Polls \cup Ends
    /\ "dequeue" \notin Carrying /\ "signal" \notin Carrying
BY DEF Carrying, Bound, Polls, Ends

-----------------------------------------------------------------------------
(* Steps that carry every task on as it was carried.                        *)

\* No task changes hands; at most a wake marks one that is being polled.
Quiet ==
    /\ UNCHANGED <<future, completion, live_tasks, ready_queue>>
    /\ shut' \in Aborting <=> shut \in Aborting
    /\ \A t \in Tasks : \/ state'[t] = state[t]
                        \/ state[t] = "POLLING" /\ state'[t] = "QUEUED"
    /\ \A t \in Tasks : waker'[t] => waker[t] \/ state[t] \in {"POLLING", "QUEUED"}
    /\ \A w \in Threads :
          \/ pc[w] \notin Carrying /\ pc'[w] \notin Carrying
          \/ cur'[w] = cur[w] /\ (pc'[w] = pc[w] \/ (pc[w] \in Polls /\ pc'[w] \in Polls))
    /\ \A s \in Senders :
          \/ spc[s] # "push" /\ spc'[s] # "push"
          \/ spc'[s] = spc[s] /\ target'[s] = target[s]

\* A quiet step disturbs none of what is said about the carriers.
LEMMA QuietKeeps ==
    ASSUME TypeOK, TypeOK', NoTwo, StateOfCarried, CarrierOfState, TasksAccounted, Quiet
    PROVE  NoTwo' /\ StateOfCarried' /\ CarrierOfState' /\ TasksAccounted'
<1>1. /\ \A w \in Threads : pc'[w] \in Carrying <=> pc[w] \in Carrying
      /\ \A w \in Threads : pc'[w] \in Carrying => cur'[w] = cur[w]
      /\ \A w \in Threads : pc'[w] \in Polls <=> pc[w] \in Polls
      /\ \A w \in Threads : pc'[w] \in Bound <=> pc[w] \in Bound
      /\ \A w \in Threads : pc'[w] \in Ends <=> pc[w] \in Ends
      /\ \A w \in Threads : pc'[w] = "complete" <=> pc[w] = "complete"
  BY DEF Quiet, Carrying, Bound, Polls, Ends
<1>2. /\ \A s \in Senders : spc'[s] = "push" <=> spc[s] = "push"
      /\ \A s \in Senders : spc'[s] = "push" => target'[s] = target[s]
  BY DEF Quiet
<1>3. ready_queue' = ready_queue /\ \A i \in DOMAIN ready_queue : ready_queue[i] \in Tasks
  BY DEF Quiet, TypeOK
<1>4. \A w \in Threads : pc[w] \in Carrying => cur[w] \in Tasks
  BY DEF TypeOK
<1>5. \A s \in Senders : spc[s] = "push" => target[s] \in Tasks
  BY DEF TypeOK
<1>6. NoTwo'
  <2>1. QueuedOnce'
    BY <1>1, <1>2, <1>3 DEF NoTwo, QueuedOnce
  <2>2. HandledOnce'
    BY <1>1, <1>2, <1>3 DEF NoTwo, HandledOnce
  <2>3. PushedOnce'
    BY <1>1, <1>2, <1>3 DEF NoTwo, PushedOnce
  <2>4. QueuedNotHandled'
    BY <1>1, <1>2, <1>3 DEF NoTwo, QueuedNotHandled
  <2>5. QueuedNotPushed'
    BY <1>1, <1>2, <1>3 DEF NoTwo, QueuedNotPushed
  <2>6. HandledNotPushed'
    BY <1>1, <1>2, <1>3 DEF NoTwo, HandledNotPushed
  <2> QED BY <2>1, <2>2, <2>3, <2>4, <2>5, <2>6 DEF NoTwo
<1>7. StateOfCarried'
  <2>1. QueuedWaits'
    BY <1>1, <1>2, <1>3, <1>4, <1>5 DEF StateOfCarried, QueuedWaits, Waits, Quiet, Carrying
  <2>2. PushedWaits'
    BY <1>1, <1>2, <1>3, <1>4, <1>5 DEF StateOfCarried, PushedWaits, Waits, Quiet, Carrying
  <2>3. HandledFits'
    BY <1>1, <1>2, <1>3, <1>4, <1>5 DEF StateOfCarried, HandledFits, Quiet, Carrying, Ends
  <2> QED BY <2>1, <2>2, <2>3 DEF StateOfCarried
<1>8. CarrierOfState'
  <2>1. QueuedIsCarried'
    <3> SUFFICES ASSUME NEW t \in Tasks, state'[t] = "QUEUED", shut' \notin Aborting
                 PROVE  CarriedBy(t)'
      BY DEF QueuedIsCarried
    <3>1. CarriedBy(t)
      BY DEF CarrierOfState, QueuedIsCarried, PollingIsHandled, CarriedBy, Quiet, Carrying
    <3> QED BY <1>1, <1>2, <1>3, <3>1, Zenon DEF CarriedBy
  <2>2. PollingIsHandled'
    BY <1>1, <1>2, <1>3 DEF CarrierOfState, PollingIsHandled, Quiet, Carrying
  <2>3. DoneIsSaid'
    BY <1>1, <1>2, <1>3 DEF CarrierOfState, DoneIsSaid, Quiet, Carrying
  <2> QED BY <2>1, <2>2, <2>3 DEF CarrierOfState
<1>9. TasksAccounted'
  BY DEF TasksAccounted, Quiet
<1> QED BY <1>6, <1>7, <1>8, <1>9

\* The threads' steps between two polls, and those within one.
LEMMA ThreadQuiet ==
    ASSUME TypeOK, StateOfCarried, NEW w \in Threads,
           \/ Steal(w) \/ RunJob(w) \/ ThreadSignal(w) \/ PreparePark(w) \/ CheckQueues(w)
           \/ Wait(w) \/ WaitEnds(w) \/ Awake(w) \/ IdleExit(w) \/ Exit(w)
           \/ Sweep(w) \/ RegisterWaker(w) \/ Recheck(w)
    PROVE  Quiet
<1> USE DEF Quiet, TypeOK, Carrying, Bound, Polls, Ends, Goto, task, wake, queues, pool, sender
<1>1. CASE Steal(w)
  BY <1>1 DEF Steal
<1>2. CASE RunJob(w)
  BY <1>2, Zenon DEF RunJob
<1>3. CASE ThreadSignal(w)
  BY <1>3 DEF ThreadSignal, NotifyOne, Waiting
<1>4. CASE PreparePark(w)
  BY <1>4 DEF PreparePark
<1>5. CASE CheckQueues(w)
  BY <1>5 DEF CheckQueues
<1>6. CASE Wait(w)
  BY <1>6, Zenon DEF Wait
<1>7. CASE WaitEnds(w)
  BY <1>7 DEF WaitEnds
<1>8. CASE Awake(w)
  BY <1>8, Zenon DEF Awake
<1>9. CASE IdleExit(w)
  BY <1>9, Zenon DEF IdleExit
<1>10. CASE Exit(w)
  BY <1>10 DEF Exit
<1>11. CASE Sweep(w)
  <2>1. cur[w] \in Tasks /\ state[cur[w]] \in {"POLLING", "QUEUED"}
    BY <1>11, Zenon DEF Sweep, StateOfCarried, HandledFits
  <2>2. /\ UNCHANGED <<future, completion, live_tasks, ready_queue, cur, spc, target, shut>>
        /\ pc[w] = "sweep"
        /\ \E at \in Polls : pc' = [pc EXCEPT ![w] = at]
        /\ state' = state \/ state' = [state EXCEPT ![cur[w]] = "QUEUED"]
        /\ waker' = waker \/ \E b \in BOOLEAN : waker' = [waker EXCEPT ![cur[w]] = b]
    BY <1>11, Zenon DEF Sweep
  <2> QED BY <2>1, <2>2
<1>12. CASE RegisterWaker(w)
  BY <1>12, Zenon DEF RegisterWaker, StateOfCarried, QueuedWaits, PushedWaits, HandledFits
<1>13. CASE Recheck(w)
  BY <1>13 DEF Recheck
<1> QED
  BY <1>1, <1>2, <1>3, <1>4, <1>5, <1>6, <1>7, <1>8, <1>9, <1>10, <1>11, <1>12, <1>13, Zenon

\* The senders' steps that wake no idle task.
LEMMA SenderQuiet ==
    ASSUME TypeOK, NEW s \in Senders,
           \/ (\E t \in Tasks : Post(s, t)) \/ Submit(s) \/ SetFlag(s) \/ ReadWaker(s) \/ Signal(s) \/ Spawn(s)
           \/ TryWake(s) /\ state[target[s]] # "IDLE"
           \/ TryWakeAgain(s) /\ (state[target[s]] # "IDLE" \/ UNCHANGED state)
    PROVE  Quiet
<1> USE DEF Quiet, TypeOK, Carrying, Bound, Polls, Ends, Aborting, Goto, SGoto, Return, 
            task, wake, queues, pool, sender
<1>1. ASSUME NEW t \in Tasks, Post(s, t)
      PROVE  Quiet
  BY <1>1, Zenon DEF Post
<1>2. CASE Submit(s)
  BY <1>2, Zenon DEF Submit
<1>3. CASE SetFlag(s)
  BY <1>3 DEF SetFlag
<1>4. CASE ReadWaker(s)
  BY <1>4 DEF ReadWaker
<1>5. CASE Signal(s)
  BY <1>5 DEF Signal, NotifyOne, Waiting
<1>6. CASE Spawn(s)
  BY <1>6 DEF Spawn, Live
<1>7. CASE TryWake(s) /\ state[target[s]] # "IDLE"
  BY <1>7 DEF TryWake
<1>8. CASE TryWakeAgain(s) /\ state[target[s]] # "IDLE"
  BY <1>8 DEF TryWakeAgain
<1>9. CASE TryWakeAgain(s) /\ UNCHANGED state
  BY <1>9 DEF TryWakeAgain
<1> QED BY <1>1, <1>2, <1>3, <1>4, <1>5, <1>6, <1>7, <1>8, <1>9, Zenon

\* The beginning of a shutdown and its end.
LEMMA StopQuiet ==
    ASSUME TypeOK, BeginShutdown \/ NotifyAll \/ EndShutdown
    PROVE  Quiet
<1> USE DEF Quiet, TypeOK, Carrying, Bound, Polls, Ends, Aborting, task, wake, queues, pool, sender
<1>1. CASE BeginShutdown
  BY <1>1 DEF BeginShutdown
<1>2. CASE NotifyAll
  BY <1>2 DEF NotifyAll
<1>3. CASE EndShutdown
  BY <1>3 DEF EndShutdown
<1> QED BY <1>1, <1>2, <1>3, Zenon

-----------------------------------------------------------------------------
(* Steps at which a task changes hands.                                     *)

\* A sender takes up a task that nobody carries: a wake of an idle one, or the
\* registration of a new one.
Claims(s, t) ==
    /\ state[t] \in {"new", "IDLE"} /\ state' = [state EXCEPT ![t] = "QUEUED"]
    /\ spc[s] # "push" /\ spc' = [spc EXCEPT ![s] = "push"]
    /\ target' = [target EXCEPT ![s] = t]
    /\ \A u \in Tasks : u # t => future'[u] = future[u]
    /\ \A u \in Tasks : state[u] \notin {"new", "DONE"} \/ u = t => u \in live_tasks'
    /\ UNCHANGED <<completion, waker, ready_queue, pc, cur, shut>>

\* try_wake and register claim only what is idle or new.
LEMMA SenderClaims ==
    ASSUME TypeOK, TasksAccounted, NEW s \in Senders, NEW t \in Tasks,
           \/ Register(s, t)
           \/ t = target[s] /\ state[t] = "IDLE" /\ TryWake(s)
           \/ t = target[s] /\ state[t] = "IDLE" /\ TryWakeAgain(s) /\ state' # state
    PROVE  Claims(s, t)
<1> USE DEF Claims, TypeOK, TasksAccounted, SGoto, Return, task, wake, queues, pool, sender
<1>1. CASE Register(s, t)
  BY <1>1 DEF Register
<1>2. CASE t = target[s] /\ state[t] = "IDLE" /\ TryWake(s)
  BY <1>2 DEF TryWake
<1>3. CASE t = target[s] /\ state[t] = "IDLE" /\ TryWakeAgain(s) /\ state' # state
  BY <1>3 DEF TryWakeAgain
<1> QED BY <1>1, <1>2, <1>3

\* What nobody carried has one carrier then.
LEMMA ClaimKeeps ==
    ASSUME TypeOK, NoTwo, StateOfCarried, CarrierOfState, TasksAccounted,
           NEW s \in Senders, NEW t \in Tasks, Claims(s, t)
    PROVE  NoTwo' /\ StateOfCarried' /\ CarrierOfState' /\ TasksAccounted'
<1>1. /\ \A u \in Tasks : u # t => state'[u] = state[u] /\ future'[u] = future[u]
      /\ state'[t] = "QUEUED" /\ state[t] \in {"new", "IDLE"}
      /\ \A r \in Senders : r # s => spc'[r] = spc[r] /\ target'[r] = target[r]
      /\ spc'[s] = "push" /\ target'[s] = t /\ spc[s] # "push"
      /\ UNCHANGED <<completion, waker, ready_queue, pc, cur, shut>>
  BY DEF Claims, TypeOK
<1>2. /\ \A i \in DOMAIN ready_queue : ready_queue[i] \in Tasks /\ ready_queue[i] # t
      /\ \A w \in Threads : pc[w] \in Carrying => cur[w] \in Tasks /\ cur[w] # t
      /\ \A r \in Senders : spc[r] = "push" => target[r] \in Tasks /\ target[r] # t
  <2>1. \A i \in DOMAIN ready_queue : ready_queue[i] \in Tasks /\ ready_queue[i] # t
    BY <1>1, CarriedAreTasks DEF StateOfCarried, QueuedWaits, Waits
  <2>2. \A w \in Threads : pc[w] \in Carrying => cur[w] \in Tasks /\ cur[w] # t
    BY <1>1, CarriedAreTasks DEF StateOfCarried, HandledFits, Carrying
  <2>3. \A r \in Senders : spc[r] = "push" => target[r] \in Tasks /\ target[r] # t
    BY <1>1, CarriedAreTasks DEF StateOfCarried, PushedWaits, Waits
  <2> QED BY <2>1, <2>2, <2>3
<1>3. NoTwo'
  <2>1. QueuedOnce'
    BY <1>1, <1>2 DEF NoTwo, QueuedOnce
  <2>2. HandledOnce'
    BY <1>1, <1>2 DEF NoTwo, HandledOnce
  <2>3. PushedOnce'
    BY <1>1, <1>2 DEF NoTwo, PushedOnce
  <2>4. QueuedNotHandled'
    BY <1>1, <1>2 DEF NoTwo, QueuedNotHandled
  <2>5. QueuedNotPushed'
    BY <1>1, <1>2 DEF NoTwo, QueuedNotPushed
  <2>6. HandledNotPushed'
    BY <1>1, <1>2 DEF NoTwo, HandledNotPushed
  <2> QED BY <2>1, <2>2, <2>3, <2>4, <2>5, <2>6 DEF NoTwo
<1>4. StateOfCarried'
  <2>1. QueuedWaits'
    BY <1>1, <1>2 DEF StateOfCarried, QueuedWaits, Waits, Carrying
  <2>2. PushedWaits'
    BY <1>1, <1>2 DEF StateOfCarried, PushedWaits, Waits, Carrying
  <2>3. HandledFits'
    BY <1>1, <1>2 DEF StateOfCarried, HandledFits, Carrying, Ends
  <2> QED BY <2>1, <2>2, <2>3 DEF StateOfCarried
<1>5. CarrierOfState'
  <2>1. QueuedIsCarried'
    BY <1>1, <1>2 DEF CarrierOfState, QueuedIsCarried, CarriedBy, Carrying
  <2>2. PollingIsHandled'
    BY <1>1, <1>2, Zenon DEF CarrierOfState, PollingIsHandled, Carrying
  <2>3. DoneIsSaid'
    BY <1>1, <1>2 DEF CarrierOfState, DoneIsSaid, Carrying
  <2> QED BY <2>1, <2>2, <2>3 DEF CarrierOfState
<1>6. TasksAccounted'
  BY <1>1, SMTT(20) DEF TasksAccounted, Claims
<1> QED BY <1>3, <1>4, <1>5, <1>6

\* The back of the queue.
LEMMA AppendFacts ==
    ASSUME NEW q \in Seq(Tasks), NEW t \in Tasks, NEW r, r = Append(q, t)
    PROVE  \E n : /\ n \notin DOMAIN q /\ DOMAIN r = DOMAIN q \cup {n} /\ r[n] = t
                  /\ \A i \in DOMAIN q : r[i] = q[i] /\ q[i] \in Tasks
<1>1. Len(q) + 1 \notin DOMAIN q /\ DOMAIN r = DOMAIN q \cup {Len(q) + 1}
  OBVIOUS
<1>2. r[Len(q) + 1] = t /\ \A i \in DOMAIN q : r[i] = q[i] /\ q[i] \in Tasks
  OBVIOUS
<1> QED BY <1>1, <1>2

\* Push: the sender hands its task to the queue.
LEMMA PushKeeps ==
    ASSUME TypeOK, NoTwo, StateOfCarried, CarrierOfState, TasksAccounted,
           NEW s \in Senders, Push(s)
    PROVE  NoTwo' /\ StateOfCarried' /\ CarrierOfState' /\ TasksAccounted'
<1> DEFINE t == target[s]
<1>1. /\ spc[s] = "push" /\ spc'[s] = "signal" /\ t \in Tasks
      /\ \A r \in Senders : r # s => spc'[r] = spc[r]
      /\ UNCHANGED <<state, future, completion, live_tasks, waker, pc, cur, shut, target>>
  BY DEF Push, SGoto, TypeOK, task, wake, pool
<1>2. PICK n : /\ n \notin DOMAIN ready_queue
               /\ DOMAIN ready_queue' = DOMAIN ready_queue \cup {n} /\ ready_queue'[n] = t
               /\ \A i \in DOMAIN ready_queue : ready_queue'[i] = ready_queue[i] /\ ready_queue[i] \in Tasks
  <2>1. ready_queue \in Seq(Tasks) /\ ready_queue' = Append(ready_queue, t)
    BY DEF Push, TypeOK
  <2>2. t \in Tasks
    BY <1>1
  <2> HIDE DEF t
  <2> QED BY <2>1, <2>2, AppendFacts
<1> HIDE DEF t
<1>3. /\ \A i \in DOMAIN ready_queue : ready_queue[i] # t
      /\ \A w \in Threads : pc[w] \in Carrying => cur[w] # t
      /\ \A r \in Senders : r # s /\ spc[r] = "push" => target[r] # t
      /\ Waits(t)
  <2>1. \A i \in DOMAIN ready_queue : ready_queue[i] # t
    BY <1>1 DEF NoTwo, QueuedNotPushed, t
  <2>2. \A w \in Threads : pc[w] \in Carrying => cur[w] # t
    BY <1>1 DEF NoTwo, HandledNotPushed, t
  <2>3. \A r \in Senders : r # s /\ spc[r] = "push" => target[r] # t
    BY <1>1 DEF NoTwo, PushedOnce, t
  <2>4. Waits(t)
    BY <1>1 DEF StateOfCarried, PushedWaits, t
  <2> QED BY <2>1, <2>2, <2>3, <2>4
<1>4. NoTwo'
  <2>1. QueuedOnce'
    BY <1>1, <1>2, <1>3 DEF NoTwo, QueuedOnce
  <2>2. HandledOnce'
    BY <1>1, <1>2, <1>3 DEF NoTwo, HandledOnce
  <2>3. PushedOnce'
    BY <1>1, <1>2, <1>3 DEF NoTwo, PushedOnce
  <2>4. QueuedNotHandled'
    BY <1>1, <1>2, <1>3 DEF NoTwo, QueuedNotHandled
  <2>5. QueuedNotPushed'
    BY <1>1, <1>2, <1>3 DEF NoTwo, QueuedNotPushed
  <2>6. HandledNotPushed'
    BY <1>1, <1>2, <1>3 DEF NoTwo, HandledNotPushed
  <2> QED BY <2>1, <2>2, <2>3, <2>4, <2>5, <2>6 DEF NoTwo
<1>5. StateOfCarried'
  <2>1. QueuedWaits'
    BY <1>1, <1>2, <1>3 DEF StateOfCarried, QueuedWaits, Waits
  <2>2. PushedWaits'
    BY <1>1, <1>2, <1>3 DEF StateOfCarried, PushedWaits, Waits
  <2>3. HandledFits'
    BY <1>1, <1>2, <1>3 DEF StateOfCarried, HandledFits
  <2> QED BY <2>1, <2>2, <2>3 DEF StateOfCarried
<1>6. CarrierOfState'
  <2>1. QueuedIsCarried'
    <3>1. \A u \in Tasks : CarriedBy(u) => CarriedBy(u)'
      BY <1>1, <1>2 DEF CarriedBy, t
    <3> QED BY <1>1, <3>1 DEF CarrierOfState, QueuedIsCarried
  <2>2. PollingIsHandled'
    BY <1>1, <1>2 DEF CarrierOfState, PollingIsHandled, t
  <2>3. DoneIsSaid'
    BY <1>1, <1>2 DEF CarrierOfState, DoneIsSaid, t
  <2> QED BY <2>1, <2>2, <2>3 DEF CarrierOfState
<1>7. TasksAccounted'
  BY <1>1 DEF TasksAccounted
<1> QED BY <1>4, <1>5, <1>6, <1>7

\* Reenqueue: the polling thread hands a task that was woken to the queue.
LEMMA ReenqueueKeeps ==
    ASSUME TypeOK, NoTwo, StateOfCarried, CarrierOfState, TasksAccounted,
           NEW w \in Threads, Reenqueue(w)
    PROVE  NoTwo' /\ StateOfCarried' /\ CarrierOfState' /\ TasksAccounted'
<1> USE ThreadPlaces
<1> DEFINE t == cur[w]
<1>1. /\ pc[w] = "reenqueue" /\ pc'[w] = "signal" /\ t \in Tasks
      /\ \A v \in Threads : v # w => pc'[v] = pc[v] /\ cur'[v] = cur[v]
      /\ UNCHANGED <<state, future, completion, live_tasks, waker, spc, target, shut>>
  BY DEF Reenqueue, Goto, TypeOK, task, wake, sender
<1>2. PICK n : /\ n \notin DOMAIN ready_queue
               /\ DOMAIN ready_queue' = DOMAIN ready_queue \cup {n} /\ ready_queue'[n] = t
               /\ \A i \in DOMAIN ready_queue : ready_queue'[i] = ready_queue[i] /\ ready_queue[i] \in Tasks
  <2>1. ready_queue \in Seq(Tasks) /\ ready_queue' = Append(ready_queue, t)
    BY DEF Reenqueue, TypeOK
  <2>2. t \in Tasks
    BY <1>1
  <2> HIDE DEF t
  <2> QED BY <2>1, <2>2, AppendFacts
<1>3. /\ \A i \in DOMAIN ready_queue : ready_queue[i] # t
      /\ \A v \in Threads : v # w /\ pc[v] \in Carrying => cur[v] # t
      /\ \A r \in Senders : spc[r] = "push" => target[r] # t
      /\ state[t] = "QUEUED"
  <2>1. \A i \in DOMAIN ready_queue : ready_queue[i] # t
    BY <1>1, Zenon DEF NoTwo, QueuedNotHandled
  <2>2. \A v \in Threads : v # w /\ pc[v] \in Carrying => cur[v] # t
    BY <1>1 DEF NoTwo, HandledOnce
  <2>3. \A r \in Senders : spc[r] = "push" => target[r] # t
    BY <1>1 DEF NoTwo, HandledNotPushed
  <2>4. state[t] = "QUEUED"
    BY <1>1 DEF StateOfCarried, HandledFits
  <2> QED BY <2>1, <2>2, <2>3, <2>4
<1> HIDE DEF t
<1>4. NoTwo'
  <2>1. QueuedOnce'
    BY <1>1, <1>2, <1>3 DEF NoTwo, QueuedOnce
  <2>2. HandledOnce'
    BY <1>1, <1>2, <1>3 DEF NoTwo, HandledOnce
  <2>3. PushedOnce'
    BY <1>1, <1>2, <1>3 DEF NoTwo, PushedOnce
  <2>4. QueuedNotHandled'
    BY <1>1, <1>2, <1>3 DEF NoTwo, QueuedNotHandled
  <2>5. QueuedNotPushed'
    BY <1>1, <1>2, <1>3 DEF NoTwo, QueuedNotPushed
  <2>6. HandledNotPushed'
    BY <1>1, <1>2, <1>3 DEF NoTwo, HandledNotPushed
  <2> QED BY <2>1, <2>2, <2>3, <2>4, <2>5, <2>6 DEF NoTwo
<1>5. StateOfCarried'
  <2>1. QueuedWaits'
    BY <1>1, <1>2, <1>3 DEF StateOfCarried, QueuedWaits, Waits
  <2>2. PushedWaits'
    BY <1>1, <1>2, <1>3 DEF StateOfCarried, PushedWaits, Waits
  <2>3. HandledFits'
    BY <1>1, <1>2, <1>3 DEF StateOfCarried, HandledFits
  <2> QED BY <2>1, <2>2, <2>3 DEF StateOfCarried
<1>6. CarrierOfState'
  <2>1. QueuedIsCarried'
    <3>1. \A u \in Tasks : CarriedBy(u) => CarriedBy(u)'
      BY <1>1, <1>2, Zenon DEF CarriedBy, t
    <3> QED BY <1>1, <3>1, Zenon DEF CarrierOfState, QueuedIsCarried
  <2>4. \A v \in Threads : pc[v] \in Polls \cup Ends => pc'[v] = pc[v] /\ cur'[v] = cur[v]
    BY <1>1, Zenon
  <2>5. UNCHANGED <<state, completion>>
    BY <1>1
  <2>2. PollingIsHandled'
    BY <2>4, <2>5, Zenon DEF CarrierOfState, PollingIsHandled
  <2>3. DoneIsSaid'
    BY <2>4, <2>5 DEF CarrierOfState, DoneIsSaid
  <2> QED BY <2>1, <2>2, <2>3 DEF CarrierOfState
<1>7. TasksAccounted'
  BY <1>1 DEF TasksAccounted
<1> QED BY <1>4, <1>5, <1>6, <1>7

\* Dequeue: a thread takes the task at the front of the queue.
LEMMA DequeueKeeps ==
    ASSUME TypeOK, NoTwo, StateOfCarried, CarrierOfState, TasksAccounted, StopOrder,
           NEW w \in Threads, Dequeue(w)
    PROVE  NoTwo' /\ StateOfCarried' /\ CarrierOfState' /\ TasksAccounted'
<1>1. CASE ready_queue = <<>>
  <2>1. Quiet
    BY <1>1 DEF Dequeue, Quiet, Goto, TypeOK, Carrying, Bound, Polls, Ends, task, wake, sender
  <2>2. TypeOK'
    BY ThreadTypes DEF Thread
  <2> QED BY <2>1, <2>2, QuietKeeps
<1>2. CASE ready_queue # <<>>
  <2> USE ThreadPlaces
  <2> DEFINE t == ready_queue[1]
  <2>1. /\ cur' = [cur EXCEPT ![w] = Head(ready_queue)]
        /\ ready_queue' = Tail(ready_queue)
        /\ pc[w] = "dequeue" /\ pc' = [pc EXCEPT ![w] = "claim"]
        /\ UNCHANGED <<state, future, completion, live_tasks, waker, spc, target, shut>>
    BY <1>2 DEF Dequeue, Goto, task, wake, sender
  <2>2. ready_queue \in Seq(Tasks) /\ Len(ready_queue) \in Nat /\ 1 \in DOMAIN ready_queue
    BY <1>2 DEF TypeOK
  <2>3. /\ t \in Tasks /\ Head(ready_queue) = t
        /\ DOMAIN ready_queue = 1..Len(ready_queue)
        /\ DOMAIN ready_queue' = 1..(Len(ready_queue) - 1)
        /\ \A i \in DOMAIN ready_queue' : ready_queue'[i] = ready_queue[i + 1]
    BY <1>2, <2>1, <2>2
  <2>4. /\ \A i \in DOMAIN ready_queue' : i \in Nat /\ i + 1 \in DOMAIN ready_queue /\ i + 1 # 1
        /\ \A j \in DOMAIN ready_queue : j # 1 => j - 1 \in DOMAIN ready_queue' /\ ready_queue'[j - 1] = ready_queue[j]
    BY <2>2, <2>3
  <2>5. /\ pc'[w] = "claim" /\ cur'[w] = t
        /\ \A v \in Threads : v # w => pc'[v] = pc[v] /\ cur'[v] = cur[v]
    BY <2>1, <2>3 DEF TypeOK
  <2>6. state[t] = "QUEUED"
    BY <2>1, <2>2, Zenon DEF StateOfCarried, QueuedWaits, Waits, StopOrder
  <2>7. /\ \A j \in DOMAIN ready_queue : j # 1 => ready_queue[j] # t
        /\ \A v \in Threads : pc[v] \in Carrying => cur[v] # t
        /\ \A r \in Senders : spc[r] = "push" => target[r] # t
    <3>1. \A j \in DOMAIN ready_queue : j # 1 => ready_queue[j] # t
      BY <2>2, Zenon DEF NoTwo, QueuedOnce
    <3>2. \A v \in Threads : pc[v] \in Carrying => cur[v] # t
      BY <2>2, Zenon DEF NoTwo, QueuedNotHandled
    <3>3. \A r \in Senders : spc[r] = "push" => target[r] # t
      BY <2>2, Zenon DEF NoTwo, QueuedNotPushed
    <3> QED BY <3>1, <3>2, <3>3, Zenon
  <2>8. \A i \in DOMAIN ready_queue' : ready_queue'[i] # t
    <3>1. \A i \in DOMAIN ready_queue' : ready_queue'[i] = ready_queue[i + 1]
      BY <2>3
    <3>2. \A i \in DOMAIN ready_queue' : i + 1 \in DOMAIN ready_queue /\ i + 1 # 1
      BY <2>4
    <3> QED BY <2>7, <3>1, <3>2, Zenon
  <2> HIDE DEF t
  <2>9. NoTwo'
    <3>1. QueuedOnce'
      <4> SUFFICES ASSUME NEW i \in DOMAIN ready_queue', NEW j \in DOMAIN ready_queue',
                          ready_queue'[i] = ready_queue'[j]
                   PROVE  i = j
        BY DEF QueuedOnce
      <4>1. i + 1 = j + 1
        BY <2>3, <2>4 DEF NoTwo, QueuedOnce
      <4> QED BY <2>4, <4>1
    <3>2. QueuedNotHandled'
      BY <2>3, <2>4, <2>5, <2>8 DEF NoTwo, QueuedNotHandled
    <3>3. QueuedNotPushed'
      BY <2>1, <2>3, <2>4 DEF NoTwo, QueuedNotPushed
    <3>4. HandledOnce'
      BY <2>5, <2>7 DEF NoTwo, HandledOnce
    <3>5. HandledNotPushed'
      BY <2>1, <2>5, <2>7 DEF NoTwo, HandledNotPushed
    <3>6. PushedOnce'
      BY <2>1 DEF NoTwo, PushedOnce
    <3> QED BY <3>1, <3>2, <3>3, <3>4, <3>5, <3>6 DEF NoTwo
  <2>10. StateOfCarried'
    <3>1. QueuedWaits'
      BY <2>1, <2>3, <2>4, <2>5, <2>6 DEF StateOfCarried, QueuedWaits, Waits
    <3>2. PushedWaits'
      BY <2>1, <2>3, <2>4, <2>5, <2>6 DEF StateOfCarried, PushedWaits, Waits
    <3>3. HandledFits'
      <4>1. UNCHANGED <<state, future, completion, waker>>
        BY <2>1
      <4>2. \A v \in Threads : v # w => pc'[v] = pc[v] /\ cur'[v] = cur[v]
        BY <2>5
      <4>3. pc'[w] \in Bound /\ pc'[w] \notin Polls \cup Ends /\ pc'[w] # "complete" /\ state[cur'[w]] = "QUEUED"
        BY <2>5, <2>6
      <4> QED BY <4>1, <4>2, <4>3 DEF StateOfCarried, HandledFits
    <3> QED BY <3>1, <3>2, <3>3 DEF StateOfCarried
  <2>11. CarrierOfState'
    <3>1. ASSUME NEW u \in Tasks, CarriedBy(u)
          PROVE  CarriedBy(u)'
      <4>1. CASE \E i \in DOMAIN ready_queue : ready_queue[i] = u
        <5> PICK i \in DOMAIN ready_queue : ready_queue[i] = u
          BY <4>1
        <5>1. CASE u = t
          BY <2>5, <5>1 DEF CarriedBy
        <5>2. CASE u # t
          <6>1. i # 1 /\ i \in 1..Len(ready_queue)
            BY <2>4, <5>2 DEF t
          <6>2. i - 1 \in DOMAIN ready_queue' /\ ready_queue'[i - 1] = ready_queue[(i - 1) + 1]
            BY <2>4, <6>1
          <6>3. (i - 1) + 1 = i
            BY <6>1
          <6> QED BY <6>2, <6>3 DEF CarriedBy
        <5> QED BY <5>1, <5>2
      <4>2. CASE \E v \in Threads : pc[v] \in Carrying /\ cur[v] = u
        <5> PICK v \in Threads : pc[v] \in Carrying /\ cur[v] = u
          BY <4>2
        <5>1. v # w
          BY <2>1
        <5> QED BY <2>5, <5>1 DEF CarriedBy
      <4>3. CASE \E r \in Senders : spc[r] = "push" /\ target[r] = u
        BY <2>1, <4>3 DEF CarriedBy
      <4> QED BY <3>1, <4>1, <4>2, <4>3 DEF CarriedBy
    <3>2. \A v \in Threads : pc[v] \in Polls \cup Ends => pc'[v] = pc[v] /\ cur'[v] = cur[v]
      BY <2>1, <2>5
    <3>3. QueuedIsCarried'
      BY <2>1, <3>1 DEF CarrierOfState, QueuedIsCarried
    <3>4. PollingIsHandled'
      BY <2>1, <3>2 DEF CarrierOfState, PollingIsHandled
    <3>5. DoneIsSaid'
      BY <2>1, <3>2 DEF CarrierOfState, DoneIsSaid
    <3> QED BY <3>3, <3>4, <3>5 DEF CarrierOfState
  <2>12. TasksAccounted'
    BY <2>1 DEF TasksAccounted
  <2> QED BY <2>9, <2>10, <2>11, <2>12
<1> QED BY <1>1, <1>2

\* A step of the thread that carries t, and of t alone.
Handles(w, t) ==
    /\ pc[w] \in Carrying /\ cur[w] = t
    /\ \A u \in Tasks : u # t => /\ state'[u] = state[u] /\ future'[u] = future[u]
                                 /\ completion'[u] = completion[u] /\ waker'[u] = waker[u]
    /\ \A v \in Threads : v # w => pc'[v] = pc[v] /\ cur'[v] = cur[v]
    /\ UNCHANGED <<live_tasks, ready_queue, spc, target, shut>>
    /\ pc'[w] \in Carrying => cur'[w] = t

\* What another carrier carries is another task, and stays as it was.
LEMMA OthersUntouched ==
    ASSUME TypeOK, NoTwo, NEW w \in Threads, NEW t \in Tasks, Handles(w, t)
    PROVE  /\ \A i \in DOMAIN ready_queue : ready_queue[i] \in Tasks /\ ready_queue[i] # t
           /\ \A v \in Threads : v # w /\ pc[v] \in Carrying => cur[v] \in Tasks /\ cur[v] # t
           /\ \A r \in Senders : spc[r] = "push" => target[r] \in Tasks /\ target[r] # t
           /\ NoTwo'
<1>0. /\ pc[w] \in Carrying /\ cur[w] = t
      /\ \A v \in Threads : v # w => pc'[v] = pc[v] /\ cur'[v] = cur[v]
      /\ UNCHANGED <<ready_queue, spc, target>>
      /\ pc'[w] \in Carrying => cur'[w] = t
  BY Zenon DEF Handles
<1>1. /\ \A i \in DOMAIN ready_queue : ready_queue[i] \in Tasks /\ ready_queue[i] # t
      /\ \A v \in Threads : v # w /\ pc[v] \in Carrying => cur[v] \in Tasks /\ cur[v] # t
      /\ \A r \in Senders : spc[r] = "push" => target[r] \in Tasks /\ target[r] # t
  <2>1. \A i \in DOMAIN ready_queue : ready_queue[i] \in Tasks /\ ready_queue[i] # t
    BY <1>0, CarriedAreTasks, Zenon DEF NoTwo, QueuedNotHandled
  <2>2. \A v \in Threads : v # w /\ pc[v] \in Carrying => cur[v] \in Tasks /\ cur[v] # t
    BY <1>0, CarriedAreTasks, Zenon DEF NoTwo, HandledOnce
  <2>3. \A r \in Senders : spc[r] = "push" => target[r] \in Tasks /\ target[r] # t
    BY <1>0, CarriedAreTasks DEF NoTwo, HandledNotPushed
  <2> QED BY <2>1, <2>2, <2>3
<1>2. NoTwo'
  <2>1. QueuedOnce'
    BY <1>0, <1>1 DEF NoTwo, QueuedOnce
  <2>2. HandledOnce'
    BY <1>0, <1>1 DEF NoTwo, HandledOnce
  <2>3. PushedOnce'
    BY <1>0, <1>1 DEF NoTwo, PushedOnce
  <2>4. QueuedNotHandled'
    BY <1>0, <1>1 DEF NoTwo, QueuedNotHandled
  <2>5. QueuedNotPushed'
    BY <1>0, <1>1 DEF NoTwo, QueuedNotPushed
  <2>6. HandledNotPushed'
    BY <1>0, <1>1 DEF NoTwo, HandledNotPushed
  <2> QED BY <2>1, <2>2, <2>3, <2>4, <2>5, <2>6 DEF NoTwo
<1> QED BY <1>1, <1>2

\* The poll of a task from its claim to the publication of its outcome.
LEMMA HandlingKeeps ==
    ASSUME TypeOK, NoTwo, StateOfCarried, CarrierOfState, TasksAccounted, NEW w \in Threads,
           StartPoll(w) \/ Pending(w) \/ Finish(w) \/ DropFuture(w) \/ Complete(w)
    PROVE  NoTwo' /\ StateOfCarried' /\ CarrierOfState' /\ TasksAccounted'
<1> DEFINE t == cur[w]
<1>1. t \in Tasks /\ Handles(w, t)
  <2> USE DEF Carrying, Bound, Polls, Ends, Handles, TypeOK, Goto, task, wake, queues, pool, sender
  <2>1. CASE StartPoll(w)
    BY <2>1, Zenon DEF StartPoll
  <2>2. CASE Pending(w)
    BY <2>2, Zenon DEF Pending
  <2>3. CASE Finish(w)
    BY <2>3, Zenon DEF Finish
  <2>4. CASE DropFuture(w)
    BY <2>4, Zenon DEF DropFuture
  <2>5. CASE Complete(w)
    BY <2>5, Zenon DEF Complete
  <2> QED BY <2>1, <2>2, <2>3, <2>4, <2>5, Zenon
<1> DEFINE Fits ==
        /\ pc'[w] \in Carrying => cur'[w] = t
        /\ pc'[w] \in Bound => state'[t] = "QUEUED"
        /\ pc'[w] \in Polls => state'[t] \in {"POLLING", "QUEUED"}
        /\ pc'[w] \in Ends => state'[t] = "DONE" /\ completion'[t] = "none"
        /\ pc'[w] = "complete" => ~future'[t] /\ ~waker'[t]
        /\ state'[t] = "QUEUED" => pc'[w] \in Carrying
        /\ state'[t] = "POLLING" => pc'[w] \in Polls
        /\ state'[t] = "DONE" => completion'[t] # "none" \/ pc'[w] \in Ends
        /\ state'[t] \notin {"new", "DONE"} => t \in live_tasks
        /\ completion'[t] # "none" => state'[t] = "DONE" /\ ~future'[t] /\ ~waker'[t]
<1>2. Fits
  <2>1. /\ pc[w] \in Bound => state[t] = "QUEUED"
        /\ pc[w] \in Polls => state[t] \in {"POLLING", "QUEUED"}
        /\ pc[w] \in Ends => state[t] = "DONE" /\ completion[t] = "none"
        /\ pc[w] = "complete" => ~future[t] /\ ~waker[t]
        /\ state[t] \notin {"new", "DONE"} => t \in live_tasks
        /\ completion[t] # "none" => state[t] = "DONE" /\ ~future[t] /\ ~waker[t]
    BY <1>1, Zenon DEF StateOfCarried, QueuedWaits, PushedWaits, HandledFits, TasksAccounted
  <2> USE DEF Carrying, Bound, Polls, Ends, TypeOK, Goto, task, wake, queues, pool, sender
  <2>2. CASE StartPoll(w)
    BY <1>1, <2>1, <2>2, Zenon DEF StartPoll
  <2>3. CASE Pending(w)
    BY <1>1, <2>1, <2>3, Zenon DEF Pending
  <2>4. CASE Finish(w)
    BY <1>1, <2>1, <2>4, Zenon DEF Finish
  <2>5. CASE DropFuture(w)
    BY <1>1, <2>1, <2>5, Zenon DEF DropFuture
  <2>6. CASE Complete(w)
    BY <1>1, <2>1, <2>6, Zenon DEF Complete
  <2> QED BY <2>2, <2>3, <2>4, <2>5, <2>6, Zenon
<1> HIDE DEF t
<1>3. /\ \A i \in DOMAIN ready_queue : ready_queue[i] \in Tasks /\ ready_queue[i] # t
      /\ \A v \in Threads : v # w /\ pc[v] \in Carrying => cur[v] \in Tasks /\ cur[v] # t
      /\ \A r \in Senders : spc[r] = "push" => target[r] \in Tasks /\ target[r] # t
      /\ NoTwo'
  BY <1>1, OthersUntouched, Zenon
<1>4. Bound \subseteq Carrying /\ Polls \subseteq Carrying /\ Ends \subseteq Carrying /\ "complete" \in Ends
  BY DEF Carrying, Bound, Polls, Ends
<1>5. StateOfCarried'
  <2>0. \A u \in Tasks : u # t /\ Waits(u) => Waits(u)'
    BY <1>1 DEF Waits, Handles
  <2>1. QueuedWaits'
    <3>1. ready_queue' = ready_queue
      BY <1>1, Zenon DEF Handles
    <3>2. \A i \in DOMAIN ready_queue : Waits(ready_queue[i])'
      BY <1>3, <2>0, <3>1, Zenon DEF StateOfCarried, QueuedWaits, Waits
    <3> QED BY <3>1, <3>2 DEF QueuedWaits, Waits
  <2>2. PushedWaits'
    <3>1. UNCHANGED <<spc, target>>
      BY <1>1, Zenon DEF Handles
    <3>2. \A r \in Senders : spc[r] = "push" => Waits(target[r])'
      BY <1>3, <2>0, <3>1, Zenon DEF StateOfCarried, PushedWaits, Waits
    <3> QED BY <3>1, <3>2, Zenon DEF PushedWaits, Waits
  <2>3. ASSUME NEW v \in Threads
        PROVE  /\ pc'[v] \in Bound => state'[cur'[v]] = "QUEUED"
               /\ pc'[v] \in Polls => state'[cur'[v]] \in {"POLLING", "QUEUED"}
               /\ pc'[v] \in Ends => state'[cur'[v]] = "DONE" /\ completion'[cur'[v]] = "none"
               /\ pc'[v] = "complete" => ~future'[cur'[v]] /\ ~waker'[cur'[v]]
    <3>1. CASE v = w
      BY <1>2, <1>4, <3>1
    <3>2. CASE v # w
      <4>1. pc'[v] = pc[v] /\ cur'[v] = cur[v]
        BY <1>1, <3>2, Zenon DEF Handles
      <4>2. CASE pc[v] \notin Carrying
        BY <1>4, <4>1, <4>2, Zenon
      <4>3. CASE pc[v] \in Carrying
        <5> DEFINE u == cur[v]
        <5>1. u \in Tasks /\ u # t
          BY <1>3, <3>2, <4>3
        <5>2. /\ state'[u] = state[u] /\ future'[u] = future[u]
              /\ completion'[u] = completion[u] /\ waker'[u] = waker[u]
          BY <1>1, <5>1 DEF Handles
        <5> QED BY <4>1, <5>2 DEF StateOfCarried, HandledFits
      <4> QED BY <4>2, <4>3, Zenon
    <3> QED BY <3>1, <3>2
  <2>4. HandledFits'
    BY <2>3 DEF HandledFits
  <2> QED BY <2>1, <2>2, <2>4 DEF StateOfCarried
<1>6. CarrierOfState'
  <2>1. ASSUME NEW u \in Tasks, u # t
        PROVE  /\ CarriedBy(u) => CarriedBy(u)'
               /\ state'[u] = state[u] /\ completion'[u] = completion[u] /\ shut' = shut
               /\ \A v \in Threads : pc[v] \in Carrying /\ cur[v] = u => pc'[v] = pc[v] /\ cur'[v] = u
    <3>1. \A v \in Threads : pc[v] \in Carrying /\ cur[v] = u => pc'[v] = pc[v] /\ cur'[v] = u
      BY <1>1, <2>1, Zenon DEF Handles
    <3>2. CarriedBy(u) => CarriedBy(u)'
      BY <1>1, <3>1, Zenon DEF CarriedBy, Handles
    <3> QED BY <1>1, <2>1, <3>1, <3>2 DEF Handles
  <2>2. QueuedIsCarried'
    <3> SUFFICES ASSUME NEW u \in Tasks, state'[u] = "QUEUED", shut' \notin Aborting
                 PROVE  CarriedBy(u)'
      BY DEF QueuedIsCarried
    <3>1. CASE u = t
      BY <1>2, <3>1, Zenon DEF CarriedBy
    <3>2. CASE u # t
      BY <2>1, <3>2, Zenon DEF CarrierOfState, QueuedIsCarried
    <3> QED BY <3>1, <3>2
  <2>3. PollingIsHandled'
    <3> SUFFICES ASSUME NEW u \in Tasks, state'[u] = "POLLING"
                 PROVE  \E v \in Threads : pc'[v] \in Polls /\ cur'[v] = u
      BY DEF PollingIsHandled
    <3>1. CASE u = t
      BY <1>2, <1>4, <3>1, Zenon
    <3>2. CASE u # t
      BY <1>4, <2>1, <3>2, Zenon DEF CarrierOfState, PollingIsHandled
    <3> QED BY <3>1, <3>2
  <2>4. DoneIsSaid'
    <3> SUFFICES ASSUME NEW u \in Tasks, state'[u] = "DONE"
                 PROVE  completion'[u] # "none" \/ \E v \in Threads : pc'[v] \in Ends /\ cur'[v] = u
      BY DEF DoneIsSaid
    <3>1. CASE u = t
      BY <1>2, <1>4, <3>1
    <3>2. CASE u # t
      BY <1>4, <2>1, <3>2, Zenon DEF CarrierOfState, DoneIsSaid
    <3> QED BY <3>1, <3>2, Zenon
  <2> QED BY <2>2, <2>3, <2>4 DEF CarrierOfState
<1>7. TasksAccounted'
  BY <1>1, <1>2, Zenon DEF TasksAccounted, Handles
<1> QED BY <1>3, <1>5, <1>6, <1>7

-----------------------------------------------------------------------------
(* Shutdown.                                                                *)

\* Join: the threads are gone, and the queue is emptied.
LEMMA JoinKeeps ==
    ASSUME TypeOK, NoTwo, StateOfCarried, CarrierOfState, TasksAccounted, Join
    PROVE  NoTwo' /\ StateOfCarried' /\ CarrierOfState' /\ TasksAccounted'
<1>1. /\ ready_queue' = <<>> /\ shut' \in Aborting
      /\ UNCHANGED <<state, future, completion, live_tasks, waker, pc, cur, spc, target>>
  BY DEF Join, Aborting, task, wake, pool, sender
<1>2. DOMAIN ready_queue' = {}
  BY <1>1
<1>3. NoTwo'
  <2>1. QueuedOnce'
    BY <1>1, <1>2 DEF NoTwo, QueuedOnce
  <2>2. HandledOnce'
    BY <1>1, <1>2 DEF NoTwo, HandledOnce
  <2>3. PushedOnce'
    BY <1>1, <1>2 DEF NoTwo, PushedOnce
  <2>4. QueuedNotHandled'
    BY <1>1, <1>2 DEF NoTwo, QueuedNotHandled
  <2>5. QueuedNotPushed'
    BY <1>1, <1>2 DEF NoTwo, QueuedNotPushed
  <2>6. HandledNotPushed'
    BY <1>1, <1>2 DEF NoTwo, HandledNotPushed
  <2> QED BY <2>1, <2>2, <2>3, <2>4, <2>5, <2>6 DEF NoTwo
<1>4. StateOfCarried'
  <2>1. QueuedWaits'
    BY <1>1, <1>2 DEF StateOfCarried, QueuedWaits, Waits
  <2>2. PushedWaits'
    BY <1>1, <1>2 DEF StateOfCarried, PushedWaits, Waits
  <2>3. HandledFits'
    BY <1>1, <1>2 DEF StateOfCarried, HandledFits
  <2> QED BY <2>1, <2>2, <2>3 DEF StateOfCarried
<1>5. CarrierOfState' /\ TasksAccounted'
  BY <1>1 DEF CarrierOfState, QueuedIsCarried, PollingIsHandled, DoneIsSaid, TasksAccounted
<1> QED BY <1>3, <1>4, <1>5

\* Abort: no thread polls any more, so what is listed is completed or was done.
LEMMA AbortKeeps ==
    ASSUME TypeOK, NoTwo, StateOfCarried, CarrierOfState, TasksAccounted, StopOrder,
           NEW t \in Tasks, Abort(t)
    PROVE  NoTwo' /\ StateOfCarried' /\ CarrierOfState' /\ TasksAccounted'
<1> USE DEF Carrying, Bound, Polls, Ends
<1>1. /\ shut \in Aborting /\ live_tasks' = live_tasks \ {t}
      /\ UNCHANGED <<ready_queue, pc, cur, spc, target, shut>>
  BY DEF Abort, Aborting, queues, pool, sender
<1>2. \A w \in Threads : pc[w] \notin Carrying
  BY <1>1 DEF StopOrder
<1>3. state[t] # "POLLING"
  BY <1>2 DEF CarrierOfState, QueuedIsCarried, PollingIsHandled, DoneIsSaid
<1>4. \/ UNCHANGED <<state, future, waker, completion>> /\ state[t] = "DONE"
      \/ /\ state' = [state EXCEPT ![t] = "DONE"]
         /\ future' = [future EXCEPT ![t] = FALSE]
         /\ waker' = [waker EXCEPT ![t] = FALSE]
         /\ completion' = [completion EXCEPT ![t] = "shutdown"]
  BY <1>3 DEF Abort
<1>5. /\ \A u \in Tasks : u # t => /\ state'[u] = state[u] /\ future'[u] = future[u]
                                   /\ completion'[u] = completion[u] /\ waker'[u] = waker[u]
      /\ state'[t] = "DONE" /\ completion'[t] # "none" /\ ~future'[t] /\ ~waker'[t]
  BY <1>2, <1>4, Zenon DEF TypeOK, CarrierOfState, QueuedIsCarried, PollingIsHandled, DoneIsSaid, TasksAccounted
<1>6. NoTwo'
  <2>1. QueuedOnce'
    BY <1>1 DEF NoTwo, QueuedOnce
  <2>2. HandledOnce'
    BY <1>1 DEF NoTwo, HandledOnce
  <2>3. PushedOnce'
    BY <1>1 DEF NoTwo, PushedOnce
  <2>4. QueuedNotHandled'
    BY <1>1 DEF NoTwo, QueuedNotHandled
  <2>5. QueuedNotPushed'
    BY <1>1 DEF NoTwo, QueuedNotPushed
  <2>6. HandledNotPushed'
    BY <1>1 DEF NoTwo, HandledNotPushed
  <2> QED BY <2>1, <2>2, <2>3, <2>4, <2>5, <2>6 DEF NoTwo
<1>7. StateOfCarried'
  <2>1. \A u \in Tasks : Waits(u) => Waits(u)'
    BY <1>1, <1>5 DEF Waits
  <2>2. /\ \A i \in DOMAIN ready_queue : ready_queue[i] \in Tasks
        /\ \A s \in Senders : spc[s] = "push" => target[s] \in Tasks
    BY CarriedAreTasks
  <2>3. (\A i \in DOMAIN ready_queue : Waits(ready_queue[i]))'
    BY <1>1, <2>1, <2>2 DEF StateOfCarried, QueuedWaits, PushedWaits, HandledFits, Waits
  <2>4. (\A s \in Senders : spc[s] = "push" => Waits(target[s]))'
    BY <1>1, <2>1, <2>2 DEF StateOfCarried, QueuedWaits, PushedWaits, HandledFits, Waits
  <2> QED BY <1>1, <1>2, <2>3, <2>4 DEF StateOfCarried, QueuedWaits, PushedWaits, HandledFits
<1>8. CarrierOfState'
  <2>1. QueuedIsCarried'
    BY <1>1, <1>2, <1>5, Zenon DEF CarrierOfState, QueuedIsCarried
  <2>2. PollingIsHandled'
    BY <1>1, <1>2, <1>5, Zenon DEF CarrierOfState, PollingIsHandled
  <2>3. DoneIsSaid'
    BY <1>1, <1>2, <1>5, Zenon DEF CarrierOfState, DoneIsSaid
  <2> QED BY <2>1, <2>2, <2>3 DEF CarrierOfState
<1>9. TasksAccounted'
  BY <1>1, <1>5 DEF TasksAccounted
<1> QED BY <1>6, <1>7, <1>8, <1>9

\* The stages of a shutdown stay in order: no thread starts once it has begun,
\* and what comes after the join finds none.
LEMMA NextStopOrder ==
    ASSUME TypeOK, StopOrder, Next
    PROVE  StopOrder'
<1> USE DEF StopOrder, Aborting
<1>1. ASSUME NEW s \in Senders, NEW t \in Tasks, Post(s, t) \/ Register(s, t)
      PROVE  StopOrder'
  <2>1. CASE Post(s, t)
    BY <2>1 DEF Post, SGoto, TypeOK, task, pool
  <2>2. CASE Register(s, t)
    BY <2>2 DEF Register, SGoto, Shutdown, TypeOK, pool
  <2> QED BY <1>1, <2>1, <2>2, Zenon
<1>2. ASSUME NEW s \in Senders, Submit(s) \/ Notify(s)
      PROVE  StopOrder'
  <2> USE DEF TypeOK, SGoto, Return, Goto, task, wake, queues, pool, sender
  <2>1. CASE Submit(s)
    BY <2>1, Zenon DEF Submit, Shutdown
  <2>2. CASE SetFlag(s) \/ ReadWaker(s) \/ TryWake(s) \/ TryWakeAgain(s)
    <3>1. UNCHANGED <<shut, pc, live_tasks>>
      BY <2>2, Zenon DEF SetFlag, ReadWaker, TryWake, TryWakeAgain
    <3>2. CASE TryWakeAgain(s) /\ UNCHANGED spc
      BY <3>1, <3>2, Zenon
    <3>3. CASE ~(TryWakeAgain(s) /\ UNCHANGED spc)
      <4>1. \E p \in {"waker", "cas", "retry", "push", "idle"} : spc' = [spc EXCEPT ![s] = p]
        BY <2>2, <3>3, Zenon DEF SetFlag, ReadWaker, TryWake, TryWakeAgain
      <4> QED BY <3>1, <4>1
    <3> QED BY <3>2, <3>3, Zenon
  <2>4. CASE Push(s)
    BY <2>4, Zenon DEF Push
  <2>5. CASE Signal(s)
    BY <2>5, Zenon DEF Signal, NotifyOne, Waiting
  <2>6. CASE Spawn(s)
    BY <2>6, Zenon DEF Spawn
  <2> QED BY <1>2, <2>1, <2>2, <2>4, <2>5, <2>6, Zenon DEF Notify
<1>3. ASSUME NEW w \in Threads, Thread(w) \/ WaitEnds(w)
      PROVE  StopOrder'
  <2>1. pc[w] \notin {"absent", "exited"} /\ UNCHANGED <<shut, spc, live_tasks>>
    BY <1>3, Zenon DEF Thread, Steal, RunJob, Dequeue, StartPoll, Sweep, RegisterWaker, Recheck, Pending, 
                Reenqueue, ThreadSignal, Finish, DropFuture, Complete, PreparePark, CheckQueues,
                Wait, Awake, IdleExit, Exit, WaitEnds, task, sender
  <2> QED BY <2>1
<1>4. CASE BeginShutdown
  BY <1>4 DEF BeginShutdown, task, pool, sender
<1>5. CASE NotifyAll
  BY <1>5 DEF NotifyAll, task, sender
<1>6. CASE Join
  BY <1>6 DEF Join, Live, task, pool, sender
<1>7. ASSUME NEW t \in Tasks, Abort(t)
      PROVE  StopOrder'
  BY <1>7 DEF Abort, pool, sender
<1>8. CASE EndShutdown
  BY <1>8 DEF EndShutdown, task, pool, sender
<1> QED BY <1>1, <1>2, <1>3, <1>4, <1>5, <1>6, <1>7, <1>8, Zenon DEF Next, Stop

-----------------------------------------------------------------------------
(* The invariant, and what follows from it.                                 *)

\* Nothing is registered when the pool starts.
LEMMA InitPoolInv == Init => PoolInv
<1> SUFFICES ASSUME Init PROVE PoolInv
  OBVIOUS
<1> USE DEF Init, Carrying, Bound, Polls, Ends
<1>0. /\ \A w \in Threads : pc[w] \in {"top", "absent"}
      /\ DOMAIN pc = Threads /\ DOMAIN ready_queue = {}
  OBVIOUS
<1>1. TypeOK
  BY <1>0 DEF TypeOK, States
<1>2. NoTwo /\ StateOfCarried /\ CarrierOfState /\ TasksAccounted
  <2>1. NoTwo
    BY <1>0 DEF NoTwo, QueuedOnce, HandledOnce, PushedOnce, 
               QueuedNotHandled, QueuedNotPushed, HandledNotPushed
  <2>2. StateOfCarried
    BY <1>0 DEF StateOfCarried, QueuedWaits, PushedWaits, HandledFits
  <2>3. CarrierOfState /\ TasksAccounted
    BY <1>0 DEF CarrierOfState, QueuedIsCarried, PollingIsHandled, DoneIsSaid, TasksAccounted
  <2> QED BY <2>1, <2>2, <2>3
<1>3. StopOrder
  BY <1>0 DEF StopOrder, Aborting
<1> QED BY <1>1, <1>2, <1>3 DEF PoolInv

\* Every step of a sender, of a thread and of the shutdown keeps it.
LEMMA NextPoolInv == PoolInv /\ [Next]_vars => PoolInv'
<1> SUFFICES ASSUME PoolInv, [Next]_vars
             PROVE  PoolInv'
  OBVIOUS
<1> USE DEF PoolInv
<1>1. ASSUME NEW s \in Senders, NEW t \in Tasks, Post(s, t) \/ Register(s, t)
      PROVE  PoolInv'
  <2>1. TypeOK' /\ StopOrder'
    BY <1>1, SenderTypes, NextStopOrder DEF Next
  <2>2. CASE Post(s, t)
    BY <2>1, <2>2, SenderQuiet, QuietKeeps
  <2>3. CASE Register(s, t)
    BY <2>1, <2>3, SenderClaims, ClaimKeeps, Zenon
  <2> QED BY <1>1, <2>2, <2>3
<1>2. ASSUME NEW s \in Senders, Submit(s) \/ Notify(s)
      PROVE  PoolInv'
  <2>1. TypeOK' /\ StopOrder'
    BY <1>2, SenderTypes, NextStopOrder DEF Next
  <2>2. CASE Submit(s) \/ SetFlag(s) \/ ReadWaker(s) \/ Signal(s) \/ Spawn(s)
    BY <2>1, <2>2, SenderQuiet, QuietKeeps
  <2>3. CASE Push(s)
    BY <2>1, <2>3, PushKeeps
  <2>4. CASE TryWake(s)
    <3>1. CASE state[target[s]] = "IDLE"
      <4>1. target[s] \in Tasks
        BY <2>4 DEF TryWake, TypeOK
      <4> QED BY <2>1, <2>4, <3>1, <4>1, SenderClaims, ClaimKeeps
    <3> QED BY <2>1, <2>4, <3>1, SenderQuiet, QuietKeeps, Zenon
  <2>5. CASE TryWakeAgain(s)
    <3>1. CASE state[target[s]] = "IDLE" /\ state' # state
      <4>1. target[s] \in Tasks
        BY <2>5 DEF TryWakeAgain, TypeOK
      <4> QED BY <2>1, <2>5, <3>1, <4>1, SenderClaims, ClaimKeeps, Zenon
    <3> QED BY <2>1, <2>5, <3>1, SenderQuiet, QuietKeeps, Zenon
  <2> QED BY <1>2, <2>2, <2>3, <2>4, <2>5 DEF Notify
<1>3. ASSUME NEW w \in Threads, Thread(w) \/ WaitEnds(w)
      PROVE  PoolInv'
  <2>1. TypeOK' /\ StopOrder'
    BY <1>3, ThreadTypes, NextStopOrder DEF Next
  <2>2. CASE Dequeue(w)
    BY <2>1, <2>2, DequeueKeeps
  <2>3. CASE Reenqueue(w)
    BY <2>1, <2>3, ReenqueueKeeps
  <2>4. CASE StartPoll(w) \/ Pending(w) \/ Finish(w) \/ DropFuture(w) \/ Complete(w)
    BY <2>1, <2>4, HandlingKeeps
  <2>5. CASE \/ Steal(w) \/ RunJob(w) \/ ThreadSignal(w) \/ PreparePark(w) \/ CheckQueues(w)
             \/ Wait(w) \/ WaitEnds(w) \/ Awake(w) \/ IdleExit(w) \/ Exit(w)
             \/ Sweep(w) \/ RegisterWaker(w) \/ Recheck(w)
    BY <2>1, <2>5, ThreadQuiet, QuietKeeps
  <2> QED BY <1>3, <2>2, <2>3, <2>4, <2>5 DEF Thread
<1>4. CASE BeginShutdown \/ Stop
  <2>1. TypeOK' /\ StopOrder'
    BY <1>4, StopTypes, NextStopOrder DEF Next
  <2>2. CASE BeginShutdown \/ NotifyAll \/ EndShutdown
    BY <2>1, <2>2, StopQuiet, QuietKeeps
  <2>3. CASE Join
    BY <2>1, <2>3, JoinKeeps
  <2>4. ASSUME NEW t \in Tasks, Abort(t)
        PROVE  PoolInv'
    BY <2>1, <2>4, AbortKeeps
  <2> QED BY <1>4, <2>2, <2>3, <2>4 DEF Stop
<1>5. CASE UNCHANGED vars
  <2> USE <1>5 DEF vars, task, wake, queues, pool, sender
  <2>1. TypeOK' /\ StopOrder'
    BY Zenon DEF TypeOK, StopOrder
  <2>2. Quiet
    BY DEF Quiet
  <2> QED BY <2>1, <2>2, QuietKeeps
<1> QED BY <1>1, <1>2, <1>3, <1>4, <1>5 DEF Next

\* The invariant of the pool.
LEMMA PoolInvHolds == Spec => []PoolInv
<1> QED BY InitPoolInv, NextPoolInv, PTL DEF Spec

\* The carriers of a task, one kind at a time.
LEMMA CarriersAre ==
    ASSUME NEW t \in Tasks, NEW c
    PROVE  c \in Carriers(t) <=>
              \/ \E i \in DOMAIN ready_queue : ready_queue[i] = t /\ c = <<"queue", i>>
              \/ \E w \in Threads : pc[w] \in Carrying /\ cur[w] = t /\ c = <<"thread", w>>
              \/ \E s \in Senders : spc[s] = "push" /\ target[s] = t /\ c = <<"sender", s>>
<1>1. PollingAt \cup {"claim", "reenqueue"} = Carrying
  BY DEF PollingAt, Carrying, Bound, Polls, Ends
<1> QED BY <1>1, Zenon DEF Carriers

\* No task is queued twice or polled by two threads, and no wake is forgotten:
\* what is queued or being polled has one carrier, what is idle has none.
THEOREM TasksHaveOneCarrier == Spec => []OneCarrier
<1>1. PoolInv => OneCarrier
  <2> SUFFICES ASSUME PoolInv, NEW t \in Tasks
               PROVE  /\ Cardinality(Carriers(t)) <= 1
                      /\ state[t] \in {"QUEUED", "POLLING"} /\ shut \notin Aborting
                            => Cardinality(Carriers(t)) = 1
                      /\ state[t] \in {"new", "IDLE"} => Carriers(t) = {}
    BY DEF OneCarrier, Aborting
  <2>1. ASSUME NEW c \in Carriers(t), NEW d \in Carriers(t)
        PROVE  c = d
    <3> DEFINE Q(x, i) == ready_queue[i] = t /\ x = <<"queue", i>>
               T(x, w) == pc[w] \in Carrying /\ cur[w] = t /\ x = <<"thread", w>>
               S(x, r) == spc[r] = "push" /\ target[r] = t /\ x = <<"sender", r>>
    <3>1. /\ \/ \E i \in DOMAIN ready_queue : Q(c, i)
             \/ \E w \in Threads : T(c, w)
             \/ \E r \in Senders : S(c, r)
          /\ \/ \E i \in DOMAIN ready_queue : Q(d, i)
             \/ \E w \in Threads : T(d, w)
             \/ \E r \in Senders : S(d, r)
      BY CarriersAre, Zenon
    <3>2. \A i, j \in DOMAIN ready_queue : Q(c, i) /\ Q(d, j) => c = d
      BY Zenon DEF PoolInv, NoTwo, QueuedOnce
    <3>3. \A v, w \in Threads : T(c, v) /\ T(d, w) => c = d
      BY Zenon DEF PoolInv, NoTwo, HandledOnce
    <3>4. \A q, r \in Senders : S(c, q) /\ S(d, r) => c = d
      BY Zenon DEF PoolInv, NoTwo, PushedOnce
    <3>5. \A i \in DOMAIN ready_queue, w \in Threads : ~(Q(c, i) /\ T(d, w)) /\ ~(Q(d, i) /\ T(c, w))
      BY Zenon DEF PoolInv, NoTwo, QueuedNotHandled
    <3>6. \A i \in DOMAIN ready_queue, r \in Senders : ~(Q(c, i) /\ S(d, r)) /\ ~(Q(d, i) /\ S(c, r))
      BY Zenon DEF PoolInv, NoTwo, QueuedNotPushed
    <3>7. \A w \in Threads, r \in Senders : ~(T(c, w) /\ S(d, r)) /\ ~(T(d, w) /\ S(c, r))
      BY Zenon DEF PoolInv, NoTwo, HandledNotPushed
    <3> HIDE DEF Q, T, S
    <3> QED BY <3>1, <3>2, <3>3, <3>4, <3>5, <3>6, <3>7, Zenon
  <2>2. Carriers(t) = {} \/ \E c : Carriers(t) = {c}
    BY <2>1
  <2>3. /\ Carriers(t) = {} => Cardinality(Carriers(t)) = 0
        /\ Carriers(t) # {} => Cardinality(Carriers(t)) = 1
    BY <2>2, FS_EmptySet, FS_Singleton
  <2>4. state[t] \in {"QUEUED", "POLLING"} /\ shut \notin Aborting => Carriers(t) # {}
    <3>1. CarriedBy(t) => \E c : c \in Carriers(t)
      BY CarriersAre, Zenon DEF CarriedBy
    <3>2. state[t] \in {"QUEUED", "POLLING"} /\ shut \notin Aborting => CarriedBy(t)
      BY Zenon DEF PoolInv, CarrierOfState, QueuedIsCarried, PollingIsHandled, DoneIsSaid, CarriedBy, Carrying
    <3> QED BY <3>1, <3>2
  <2>5. state[t] \in {"new", "IDLE"} => Carriers(t) = {}
    <3> SUFFICES ASSUME state[t] \in {"new", "IDLE"}, NEW c \in Carriers(t)
                 PROVE  FALSE
      OBVIOUS
    <3>1. CarriedBy(t)
      BY CarriersAre, Zenon DEF CarriedBy
    <3> QED BY <3>1 DEF CarriedBy, PoolInv, StateOfCarried, QueuedWaits, PushedWaits,
                        HandledFits, Waits, Carrying
  <2> QED BY <2>3, <2>4, <2>5
<1> QED BY <1>1, PoolInvHolds, PTL

\* A caller that observes a task's outcome finds its future, and with it its
\* channel endpoints, gone.
THEOREM OutcomeComesLast == Spec => []DropsBeforeCompletes
<1>1. PoolInv => DropsBeforeCompletes
  BY DEF PoolInv, TasksAccounted, DropsBeforeCompletes
<1> QED BY <1>1, PoolInvHolds, PTL

\* When shutdown returns, every task that was ever registered has an outcome.
THEOREM ShutdownLeavesNothing == Spec => []ShutdownCompletesAll
<1>1. PoolInv => ShutdownCompletesAll
  <2> SUFFICES ASSUME PoolInv, shut = "done", NEW t \in Tasks, state[t] # "new"
               PROVE  completion[t] # "none" /\ ~future[t]
    BY DEF ShutdownCompletesAll
  <2>1. state[t] = "DONE"
    BY DEF PoolInv, TasksAccounted, StopOrder
  <2>2. \A w \in Threads : pc[w] \notin Ends
    BY DEF PoolInv, StopOrder, Aborting, Ends
  <2> QED BY <2>1, <2>2 DEF PoolInv, CarrierOfState, DoneIsSaid, TasksAccounted
<1> QED BY <1>1, PoolInvHolds, PTL
=============================================================================
