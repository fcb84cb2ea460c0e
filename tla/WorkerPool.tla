------------------------------- MODULE WorkerPool -------------------------------
(* Cooperative execution of dataflows on a shared pool of threads:              *)
(* executor_task.rs (the task state machine, PoolWaker, the registry),          *)
(* worker_pool.rs (the threads, their park and wake, shutdown), wake.rs (the    *)
(* WakeHandle of a dataflow) and DataflowExecutor::poll_sweeps.                 *)
(*                                                                              *)
(* What a dataflow does is abstracted to handling events: a sender posts one    *)
(* (pushes, closes, frees capacity, cancels) and then notifies the dataflow's   *)
(* WakeHandle; a sweep handles every event posted before it.  Every atomic      *)
(* operation, every acquisition of the park mutex and every queue operation is  *)
(* a step of its own.                                                           *)
EXTENDS Integers, Sequences, FiniteSets

CONSTANTS Tasks,        \* the executor tasks that may be registered
          Threads,      \* the pool never has more threads than these: max_threads
          MinThreads,   \* WorkerPoolConfig::min_threads
          Senders,      \* threads outside the pool that notify, register, submit
          MaxEvents,    \* bound: a dataflow completes after this many events
          MaxJobs,      \* bound: one-shot tasks submitted to the injector
          None          \* no thread, no task

ASSUME PoolAssumption ==
    /\ IsFiniteSet(Threads) /\ MinThreads \in 1..Cardinality(Threads)
    /\ MaxEvents \in Nat /\ MaxJobs \in Nat
    /\ None \notin Threads \cup Tasks

VARIABLES
    state, future, completion,         \* ExecutorTask
    live_tasks,                        \* the registry's list of tasks
    posted, handled, notified, waker,  \* the dataflow's events and its WakeHandle
    ready_queue, injector, jobs,       \* the two queues; jobs submitted so far
    pc, cur, thread_count, park,       \* the pool's threads; the park mutex
    spc, target, seen,                 \* the senders
    shut                               \* the thread that shuts the pool down

task == <<state, future, completion, live_tasks>>
wake == <<posted, handled, notified, waker>>
queues == <<ready_queue, injector, jobs>>
pool == <<pc, cur, thread_count, park>>
sender == <<spc, target, seen>>
vars == <<task, wake, queues, pool, sender, shut>>

Live == {w \in Threads : pc[w] \notin {"absent", "exited"}}
Waiting == {w \in Threads : pc[w] = "waiting"}
ActiveCount == Cardinality({w \in Threads : pc[w] \in
    {"job", "sweep", "register", "recheck", "pending", "finish", "drop", "complete"}})
Shutdown == shut # "no"

Init ==
    /\ state = [t \in Tasks |-> "new"] /\ future = [t \in Tasks |-> FALSE]
    /\ completion = [t \in Tasks |-> "none"] /\ live_tasks = {}
    /\ posted = [t \in Tasks |-> 0] /\ handled = [t \in Tasks |-> 0]
    /\ notified = [t \in Tasks |-> TRUE] /\ waker = [t \in Tasks |-> FALSE]
    /\ ready_queue = <<>> /\ injector = 0 /\ jobs = 0
    /\ \E first \in SUBSET Threads :
          /\ Cardinality(first) = MinThreads
          /\ pc = [w \in Threads |-> IF w \in first THEN "top" ELSE "absent"]
    /\ cur = [w \in Threads |-> None]
    /\ thread_count = MinThreads /\ park = None
    /\ spc = [s \in Senders |-> "idle"] /\ target = [s \in Senders |-> None]
    /\ seen = [s \in Senders |-> "IDLE"]
    /\ shut = "no"

Goto(w, at) == pc' = [pc EXCEPT ![w] = at]
SGoto(s, at) == spc' = [spc EXCEPT ![s] = at]

\* The sender's call returns and its locals are gone.
Return(s) ==
    /\ SGoto(s, "idle")
    /\ target' = [target EXCEPT ![s] = None] /\ seen' = [seen EXCEPT ![s] = "IDLE"]

\* Faulty variant: the notification takes no lock.
NotifyOneUnlocked(before) ==
    \/ /\ Waiting = {} /\ pc' = before
    \/ \E v \in Waiting : pc' = [before EXCEPT ![v] = "woken"]

\* notify_one under the park mutex: one waiter, if there is one, is woken.
NotifyOne(before) ==
    /\ park = None
    /\ \/ /\ Waiting = {} /\ pc' = before
       \/ \E v \in Waiting : pc' = [before EXCEPT ![v] = "woken"]
--------------------------------------------------------------------------------
(* Senders: WakeHandle::notify, PoolWaker::wake, register and submit. *)

\* A channel transition, a cancellation or a timer makes the dataflow runnable.
Post(s, t) ==
    /\ spc[s] = "idle" /\ state[t] # "new" /\ posted[t] < MaxEvents
    /\ posted' = [posted EXCEPT ![t] = @ + 1]
    /\ target' = [target EXCEPT ![s] = t]
    /\ SGoto(s, "flag")
    /\ UNCHANGED <<task, handled, notified, waker, queues, pool, seen, shut>>

\* notify: the flag is stored first ...
SetFlag(s) ==
    /\ spc[s] = "flag"
    /\ notified' = [notified EXCEPT ![target[s]] = TRUE]
    /\ SGoto(s, "waker")
    /\ UNCHANGED <<task, posted, handled, waker, queues, pool, target, seen, shut>>

\* ... then the registered waker, if any, is cloned under its lock and called.
ReadWaker(s) ==
    /\ spc[s] = "waker"
    /\ \/ waker[target[s]] /\ SGoto(s, "cas") /\ UNCHANGED <<target, seen>>
       \/ ~waker[target[s]] /\ Return(s)
    /\ UNCHANGED <<task, wake, queues, pool, shut>>

\* try_wake, the first compare_exchange: IDLE to QUEUED.
TryWake(s) ==
    LET t == target[s]
    IN  /\ spc[s] = "cas"
        /\ seen' = [seen EXCEPT ![s] = state[t]]
        /\ \/ /\ state[t] = "IDLE"
              /\ state' = [state EXCEPT ![t] = "QUEUED"] /\ SGoto(s, "push")
           \/ /\ state[t] # "IDLE"
              /\ UNCHANGED state /\ SGoto(s, "retry")
        /\ UNCHANGED <<future, completion, live_tasks, wake, queues, pool, target, shut>>

\* Faulty variant: a wake of a task being polled enqueues it as well.
TryWakeEnqueues(s) ==
    /\ spc[s] = "retry"
    /\ \/ /\ state[target[s]] \in {"IDLE", "POLLING"}
          /\ state' = [state EXCEPT ![target[s]] = "QUEUED"] /\ SGoto(s, "push")
          /\ UNCHANGED <<target, seen>>
       \/ /\ state[target[s]] \notin {"IDLE", "POLLING"}
          /\ UNCHANGED state /\ Return(s)
    /\ UNCHANGED <<future, completion, live_tasks, wake, queues, pool, shut>>

\* try_wake, its loop: the state may change between two attempts.
TryWakeAgain(s) ==
    LET t == target[s]
    IN  /\ spc[s] = "retry"
        /\ \/ /\ seen[s] \notin {"IDLE", "POLLING"}
              /\ UNCHANGED state /\ Return(s)
           \/ /\ seen[s] = "POLLING" /\ state[t] = "POLLING"
              /\ state' = [state EXCEPT ![t] = "QUEUED"] /\ Return(s)
           \/ /\ seen[s] = "IDLE" /\ state[t] = "IDLE"
              /\ state' = [state EXCEPT ![t] = "QUEUED"] /\ SGoto(s, "push")
              /\ UNCHANGED <<target, seen>>
           \/ /\ seen[s] \in {"IDLE", "POLLING"} /\ state[t] # seen[s]
              /\ seen' = [seen EXCEPT ![s] = state[t]]
              /\ UNCHANGED <<state, spc, target>>
        /\ UNCHANGED <<future, completion, live_tasks, wake, queues, pool, shut>>

\* enqueue: the task goes to the back of the ready queue ...
Push(s) ==
    /\ spc[s] = "push"
    /\ ready_queue' = Append(ready_queue, target[s])
    /\ SGoto(s, "signal")
    /\ UNCHANGED <<task, wake, injector, jobs, pool, target, seen, shut>>

\* ... and a parked thread is notified.
Signal(s) ==
    /\ spc[s] = "signal"
    /\ NotifyOne(pc)
    /\ Return(s)
    /\ UNCHANGED <<task, wake, queues, cur, thread_count, park, shut>>

\* register: the task is created QUEUED, listed (the list may be pruned of
\* tasks that are done) and enqueued.
Register(s, t) ==
    /\ spc[s] = "idle" /\ state[t] = "new" /\ ~Shutdown
    /\ state' = [state EXCEPT ![t] = "QUEUED"]
    /\ future' = [future EXCEPT ![t] = TRUE]
    /\ target' = [target EXCEPT ![s] = t]
    /\ \E old \in {live_tasks, {u \in live_tasks : state[u] # "DONE"}} :
          live_tasks' = old \cup {t}
    /\ SGoto(s, "push")
    /\ UNCHANGED <<completion, wake, queues, pool, seen, shut>>

\* submit: a one-shot task goes to the injector ...
Submit(s) ==
    /\ spc[s] = "idle" /\ ~Shutdown /\ jobs < MaxJobs
    /\ jobs' = jobs + 1 /\ injector' = injector + 1
    /\ SGoto(s, "spawn")
    /\ UNCHANGED <<task, wake, ready_queue, pool, target, seen, shut>>

\* ... and when every thread is busy, try_spawn_thread reserves a slot below
\* max_threads and starts a thread (the operating system may refuse).
Spawn(s) ==
    /\ spc[s] = "spawn"
    /\ SGoto(s, "signal")
    /\ \/ /\ ActiveCount >= thread_count /\ thread_count < Cardinality(Threads)
          /\ \E w \in Threads \ Live :
                /\ Goto(w, "top")
                /\ thread_count' = thread_count + 1
       \/ UNCHANGED <<pc, thread_count>>
    /\ UNCHANGED <<task, wake, queues, cur, park, target, seen, shut>>
--------------------------------------------------------------------------------
(* A thread of the pool: worker_thread_loop. *)

\* The top of the loop: leave on shutdown, else try the injector.
Steal(w) ==
    /\ pc[w] = "top"
    /\ \/ Shutdown /\ Goto(w, "exiting") /\ UNCHANGED injector
       \/ ~Shutdown /\ injector > 0 /\ injector' = injector - 1 /\ Goto(w, "job")
       \/ ~Shutdown /\ injector = 0 /\ UNCHANGED injector /\ Goto(w, "dequeue")
    /\ UNCHANGED <<task, wake, ready_queue, jobs, cur, thread_count, park, sender, shut>>

\* A one-shot task runs to its end (or panics).
RunJob(w) ==
    /\ pc[w] = "job"
    /\ Goto(w, "top")
    /\ UNCHANGED <<task, wake, queues, cur, thread_count, park, sender, shut>>

\* Try the ready queue.  A thread that finds nothing spins and yields a number
\* of times (it comes back here) before it goes to park.
Dequeue(w) ==
    /\ pc[w] = "dequeue"
    /\ \/ /\ ready_queue # <<>>
          /\ cur' = [cur EXCEPT ![w] = Head(ready_queue)]
          /\ ready_queue' = Tail(ready_queue)
          /\ Goto(w, "claim")
       \/ /\ ready_queue = <<>>
          /\ UNCHANGED <<cur, ready_queue>>
          /\ Goto(w, "top") \/ Goto(w, "prepark")
    /\ UNCHANGED <<task, wake, injector, jobs, thread_count, park, sender, shut>>

\* try_start_poll.
StartPoll(w) ==
    LET t == cur[w]
    IN  /\ pc[w] = "claim"
        /\ \/ /\ state[t] = "QUEUED"
              /\ state' = [state EXCEPT ![t] = "POLLING"] /\ Goto(w, "sweep")
           \/ /\ state[t] # "QUEUED"
              /\ UNCHANGED state /\ Goto(w, "prepark")
        /\ UNCHANGED <<future, completion, live_tasks, wake, queues, cur, thread_count, park, sender, shut>>

\* poll_sweeps: one sweep, which handles what was posted.  It completes, fails
\* or panics (the waker is cleared), goes on, uses up the poll budget (the
\* executor registers its waker and notifies itself), or waits for input.
Sweep(w) ==
    LET t == cur[w]
    IN  /\ pc[w] = "sweep"
        /\ handled' = [handled EXCEPT ![t] = posted[t]]
        /\ \/ /\ Goto(w, "finish")
              /\ waker' = [waker EXCEPT ![t] = FALSE] /\ UNCHANGED <<notified, state>>
           \/ /\ posted[t] < MaxEvents /\ handled[t] # posted[t]
              /\ Goto(w, "sweep") /\ UNCHANGED <<waker, notified, state>>
           \/ /\ posted[t] < MaxEvents /\ Goto(w, "pending")
              /\ waker' = [waker EXCEPT ![t] = TRUE]
              /\ notified' = [notified EXCEPT ![t] = TRUE]
              /\ state' = [state EXCEPT ![t] = "QUEUED"]
           \/ /\ posted[t] < MaxEvents /\ handled[t] = posted[t]
              /\ Goto(w, "register") /\ UNCHANGED <<waker, notified, state>>
        /\ UNCHANGED <<future, completion, live_tasks, posted, queues, cur, thread_count, park,
                       sender, shut>>

\* Before yielding the executor registers its waker ...
RegisterWaker(w) ==
    /\ pc[w] = "register"
    /\ waker' = [waker EXCEPT ![cur[w]] = TRUE]
    /\ Goto(w, "recheck")
    /\ UNCHANGED <<task, posted, handled, notified, queues, cur, thread_count, park,
                   sender, shut>>

\* ... and takes a notification that came in between: then it sweeps again.
Recheck(w) ==
    LET t == cur[w]
    IN  /\ pc[w] = "recheck"
        /\ notified' = [notified EXCEPT ![t] = FALSE]
        /\ Goto(w, IF notified[t] THEN "sweep" ELSE "pending")
        /\ UNCHANGED <<task, posted, handled, waker, queues, cur, thread_count, park,
                       sender, shut>>

\* poll returned Pending: POLLING to IDLE, unless a wake came during the poll.
Pending(w) ==
    LET t == cur[w]
    IN  /\ pc[w] = "pending"
        /\ \/ /\ state[t] = "POLLING"
              /\ state' = [state EXCEPT ![t] = "IDLE"]
              /\ cur' = [cur EXCEPT ![w] = None] /\ Goto(w, "top")
           \/ /\ state[t] # "POLLING"
              /\ UNCHANGED <<state, cur>> /\ Goto(w, "reenqueue")
        /\ UNCHANGED <<future, completion, live_tasks, wake, queues, thread_count, park, sender, shut>>

\* PendingNeedsReenqueue: the polling thread enqueues the task.
Reenqueue(w) ==
    /\ pc[w] = "reenqueue"
    /\ ready_queue' = Append(ready_queue, cur[w])
    /\ cur' = [cur EXCEPT ![w] = None]
    /\ Goto(w, "signal")
    /\ UNCHANGED <<task, wake, injector, jobs, thread_count, park, sender, shut>>

ThreadSignal(w) ==
    /\ pc[w] = "signal"
    /\ NotifyOne([pc EXCEPT ![w] = "top"])
    /\ UNCHANGED <<task, wake, queues, cur, thread_count, park, sender, shut>>

\* finish: DONE is stored ...
Finish(w) ==
    /\ pc[w] = "finish"
    /\ state' = [state EXCEPT ![cur[w]] = "DONE"]
    /\ Goto(w, "drop")
    /\ UNCHANGED <<future, completion, live_tasks, wake, queues, cur, thread_count, park, sender, shut>>

\* Faulty variant: the completion is published before the future is dropped.
CompleteFirst(w) ==
    /\ pc[w] = "drop"
    /\ completion' = [completion EXCEPT ![cur[w]] = "result"]
    /\ Goto(w, "complete")
    /\ UNCHANGED <<state, future, live_tasks, wake, queues, cur, thread_count, park, sender, shut>>

\* ... release drops the future, and with it every channel endpoint ...
DropFuture(w) ==
    /\ pc[w] = "drop"
    /\ future' = [future EXCEPT ![cur[w]] = FALSE]
    /\ waker' = [waker EXCEPT ![cur[w]] = FALSE]
    /\ Goto(w, "complete")
    /\ UNCHANGED <<state, completion, live_tasks, posted, handled, notified, queues, cur, thread_count,
                   park, sender, shut>>

\* ... and publishes the outcome.
Complete(w) ==
    /\ pc[w] = "complete"
    /\ completion' = [completion EXCEPT ![cur[w]] = "result"]
    /\ cur' = [cur EXCEPT ![w] = None] /\ Goto(w, "top")
    /\ UNCHANGED <<state, future, live_tasks, wake, queues, thread_count, park, sender, shut>>

\* Nothing to do: leave on shutdown, or lock the park mutex.
PreparePark(w) ==
    /\ pc[w] = "prepark"
    /\ cur' = [cur EXCEPT ![w] = None]
    /\ \/ Shutdown /\ Goto(w, "exiting") /\ UNCHANGED park
       \/ ~Shutdown /\ park = None /\ park' = w /\ Goto(w, "check")
    /\ UNCHANGED <<task, wake, queues, thread_count, sender, shut>>

\* Under the park mutex: leave on shutdown, go back to work if there is some.
CheckQueues(w) ==
    /\ pc[w] = "check"
    /\ \/ Shutdown /\ park' = None /\ Goto(w, "exiting")
       \/ ~Shutdown /\ (injector > 0 \/ ready_queue # <<>>) /\ park' = None /\ Goto(w, "top")
       \/ ~Shutdown /\ injector = 0 /\ ready_queue = <<>> /\ UNCHANGED park /\ Goto(w, "towait")
    /\ UNCHANGED <<task, wake, queues, cur, thread_count, sender, shut>>

\* wait_timeout releases the mutex and waits.
Wait(w) ==
    /\ pc[w] = "towait"
    /\ park' = None /\ Goto(w, "waiting")
    /\ UNCHANGED <<task, wake, queues, cur, thread_count, sender, shut>>

\* idle_shutdown elapses, or the wait returns spuriously.
WaitEnds(w) ==
    /\ pc[w] = "waiting"
    /\ Goto(w, "woken")
    /\ UNCHANGED <<task, wake, queues, cur, thread_count, park, sender, shut>>

\* After the wait, with the mutex again: leave on shutdown; go back to work; or
\* consider leaving.
Awake(w) ==
    /\ pc[w] = "woken" /\ park = None
    /\ \/ Shutdown /\ UNCHANGED park /\ Goto(w, "exiting")
       \/ ~Shutdown /\ (injector > 0 \/ ready_queue # <<>>) /\ UNCHANGED park /\ Goto(w, "top")
       \/ ~Shutdown /\ injector = 0 /\ ready_queue = <<>> /\ park' = w /\ Goto(w, "idle")
    /\ UNCHANGED <<task, wake, queues, cur, thread_count, sender, shut>>

\* A thread that waited for idle_shutdown leaves if there are more than
\* min_threads: it releases the mutex and, as the last thing it does, leaves the
\* count.
IdleExit(w) ==
    /\ pc[w] = "idle"
    /\ park' = None
    /\ \/ Goto(w, "top")
       \/ thread_count > MinThreads /\ Goto(w, "exiting")
    /\ UNCHANGED <<task, wake, queues, cur, thread_count, sender, shut>>

\* The thread's guard leaves the count, on every way out.
Exit(w) ==
    /\ pc[w] = "exiting"
    /\ thread_count' = thread_count - 1
    /\ Goto(w, "exited")
    /\ UNCHANGED <<task, wake, queues, cur, park, sender, shut>>
--------------------------------------------------------------------------------
(* Shutdown: the pool is dropped, so no register or submit is under way. *)

\* The shutdown flag is set.
BeginShutdown ==
    /\ shut = "no"
    /\ \A s \in Senders : spc[s] # "spawn"
    /\ shut' = "notify"
    /\ UNCHANGED <<task, wake, queues, pool, sender>>

\* Every waiter is woken, under the park mutex, to see the flag.
NotifyAll ==
    /\ shut = "notify" /\ park = None
    /\ pc' = [w \in Threads |-> IF pc[w] = "waiting" THEN "woken" ELSE pc[w]]
    /\ shut' = "join"
    /\ UNCHANGED <<task, wake, queues, cur, thread_count, park, sender>>

\* Every thread was joined; abort_all first empties the ready queue.
Join ==
    /\ shut = "join" /\ Live = {}
    /\ ready_queue' = <<>>
    /\ shut' = "abort"
    /\ UNCHANGED <<task, wake, injector, jobs, pool, sender>>

\* Faulty variant: only queued tasks are aborted.
AbortQueued(t) ==
    /\ shut = "abort" /\ t \in live_tasks
    /\ live_tasks' = live_tasks \ {t}
    /\ \/ /\ state[t] = "QUEUED"
          /\ state' = [state EXCEPT ![t] = "DONE"]
          /\ future' = [future EXCEPT ![t] = FALSE]
          /\ waker' = [waker EXCEPT ![t] = FALSE]
          /\ completion' = [completion EXCEPT ![t] = "shutdown"]
       \/ state[t] # "QUEUED" /\ UNCHANGED <<state, future, waker, completion>>
    /\ UNCHANGED <<posted, handled, notified, queues, pool, sender, shut>>

\* abort, of one listed task after the other: one that is neither finished nor
\* being polled is completed, its future dropped.
Abort(t) ==
    /\ shut = "abort" /\ t \in live_tasks
    /\ live_tasks' = live_tasks \ {t}
    /\ \/ /\ state[t] \notin {"DONE", "POLLING"}
          /\ state' = [state EXCEPT ![t] = "DONE"]
          /\ future' = [future EXCEPT ![t] = FALSE]
          /\ waker' = [waker EXCEPT ![t] = FALSE]
          /\ completion' = [completion EXCEPT ![t] = "shutdown"]
       \/ /\ state[t] \in {"DONE", "POLLING"}
          /\ UNCHANGED <<state, future, waker, completion>>
    /\ UNCHANGED <<posted, handled, notified, queues, pool, sender, shut>>

\* shutdown returns.
EndShutdown ==
    /\ shut = "abort" /\ live_tasks = {}
    /\ shut' = "done"
    /\ UNCHANGED <<task, wake, queues, pool, sender>>
--------------------------------------------------------------------------------
Notify(s) == SetFlag(s) \/ ReadWaker(s) \/ TryWake(s) \/ TryWakeAgain(s) \/ Push(s)
             \/ Signal(s) \/ Spawn(s)

Thread(w) ==
    \/ Steal(w) \/ RunJob(w) \/ Dequeue(w) \/ StartPoll(w)
    \/ Sweep(w) \/ RegisterWaker(w) \/ Recheck(w) \/ Pending(w)
    \/ Reenqueue(w) \/ ThreadSignal(w)
    \/ Finish(w) \/ DropFuture(w) \/ Complete(w)
    \/ PreparePark(w) \/ CheckQueues(w) \/ Wait(w) \/ Awake(w) \/ IdleExit(w) \/ Exit(w)

Stop == NotifyAll \/ Join \/ (\E t \in Tasks : Abort(t)) \/ EndShutdown

Next ==
    \/ \E s \in Senders, t \in Tasks : Post(s, t) \/ Register(s, t)
    \/ \E s \in Senders : Submit(s) \/ Notify(s)
    \/ \E w \in Threads : Thread(w) \/ WaitEnds(w)
    \/ BeginShutdown \/ Stop

Spec == Init /\ [][Next]_vars

\* The operating system runs every thread that can run and no thread waits
\* forever for a mutex that is released again and again.  Nobody has to post,
\* register, submit or shut down, and no wait has to time out.
Fairness ==
    /\ \A s \in Senders : SF_vars(Notify(s))
    /\ \A w \in Threads : SF_vars(Thread(w))
    /\ WF_vars(Stop)

FairSpec == Spec /\ Fairness
--------------------------------------------------------------------------------
(* Properties. *)

PollingAt == {"sweep", "register", "recheck", "pending", "finish", "drop", "complete"}

\* Who is answerable for the next poll of a task: the places of the ready queue
\* that hold it, and the threads and senders about to put it there or poll it.
Carriers(t) ==
    {<<"queue", i>> : i \in {j \in DOMAIN ready_queue : ready_queue[j] = t}}
    \cup {<<"thread", w>> : w \in {v \in Threads : cur[v] = t /\ pc[v] \in PollingAt \cup {"claim", "reenqueue"}}}
    \cup {<<"sender", s>> : s \in {r \in Senders : target[r] = t /\ spc[r] = "push"}}

\* executor_task.rs, "The CAS-based transitions guarantee": no duplicate enqueue
\* and no concurrent poll.  A task that is not idle is carried by exactly one
\* queue entry, thread or sender, and an idle one by none.
OneCarrier ==
    \A t \in Tasks :
        /\ Cardinality(Carriers(t)) <= 1
        /\ state[t] \in {"QUEUED", "POLLING"} /\ shut \notin {"abort", "done"}
              => Cardinality(Carriers(t)) = 1
        /\ state[t] \in {"new", "IDLE"} => Carriers(t) = {}

\* finish: "a caller observing the result also observes closed I/O channels".
DropsBeforeCompletes ==
    \A t \in Tasks : completion[t] # "none" => ~future[t] /\ ~waker[t]

\* abort_all: once shutdown returns, every registered task is completed and its
\* future released.
ShutdownCompletesAll ==
    shut = "done" =>
        \A t \in Tasks : state[t] # "new" => completion[t] # "none" /\ ~future[t]

\* Nothing stays undone: every event is handled, unless the dataflow ends first
\* or the pool has lost all its threads, and a shutdown wakes, joins and aborts
\* all.  No wake-up is lost on the way from notify to the sweep, and no queued
\* work or shutdown flag by a thread on its way to wait.
Settled ==
    /\ \A t \in Tasks : handled[t] = posted[t] \/ state[t] = "DONE" \/ Live = {}
    /\ shut \in {"no", "done"}

AlwaysSettles == []<>Settled
================================================================================
