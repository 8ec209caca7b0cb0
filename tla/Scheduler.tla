----------------------------- MODULE Scheduler ------------------------------
(***************************************************************************)
(* CScheduler and SingleThreadedSchedulerClient (src/src/scheduler.cpp):   *)
(* threads that run tasks when their time has come, and a client on top of *)
(* them that runs callbacks one at a time and in order, whatever thread    *)
(* they come to.  At shutdown the threads are stopped or interrupted and   *)
(* joined, and the main thread runs the callbacks that are left.           *)
(*                                                                         *)
(* What is done under a mutex is one step.  newTaskMutex is free while a   *)
(* thread sleeps, waits or runs a task, and schedule notifies after it has *)
(* left it.                                                                *)
(***************************************************************************)
EXTENDS Integers, FiniteSets, Sequences

CONSTANTS
    Thread,       \* threads in serviceQueue
    Caller,       \* other threads that schedule jobs and add callbacks
    Main,         \* the thread that shuts the node down
    Job,          \* tasks other than ProcessQueue
    Delay,        \* [Job -> Nat], how far ahead a job is scheduled
    Repeating,    \* jobs scheduled with scheduleEvery
    ProcessQueue, \* the task that runs a callback
    MaxTime,      \* bound on the clock
    MaxCalls      \* bound on the jobs scheduled and callbacks added by callers

Actor == Thread \cup Caller \cup {Main}

ASSUME SchedulerAssumption ==
    /\ IsFiniteSet(Thread) /\ IsFiniteSet(Job)
    /\ Thread \cap Caller = {} /\ Main \notin Thread \cup Caller
    /\ Delay \in [Job -> Nat] /\ Repeating \subseteq Job /\ ProcessQueue \notin Job
    /\ MaxTime \in Nat /\ MaxCalls \in Nat

VARIABLES
    clock,
    taskQueue,               \* by time, tasks of the same time in the order they came
    nThreadsServicingQueue,
    stopRequested,
    stopWhenEmpty,
    interrupted,             \* interrupt_all has been called
    m_callbacks_pending,     \* callbacks, numbered in the order they were added
    m_are_callbacks_running,
    created,                 \* the threads that were created: the node has one, the tests several
    pc,                      \* where each actor is
    task,                    \* the task an actor runs, or is about to insert
    deadline,                \* what a thread has given to wait_until
    threw,                   \* threads whose callback was left by an exception
    started,                 \* history: the callbacks that were begun, in order
    scheduled                \* history: the jobs that were given to schedule

schedVars == <<taskQueue, nThreadsServicingQueue, stopRequested, stopWhenEmpty>>
clientVars == <<m_callbacks_pending, m_are_callbacks_running, started>>
actorVars == <<pc, task, deadline, threw>>
histVars == <<scheduled, created>>
vars == <<clock, schedVars, interrupted, clientVars, actorVars, histVars>>

Task == [time : Nat, f : Job \cup {ProcessQueue}]
Place == {"out", "sleep", "waiting", "awake", "timed", "notified", "expired", "run", "top", "dead",
          "callback", "maybe", "insert", "notify",
          "idle", "up", "stop", "stopping", "emptying", "check", "emptied"}

NoTask == [time |-> 0, f |-> ProcessQueue]

Init ==
    /\ clock = 0
    /\ taskQueue = <<>>
    /\ nThreadsServicingQueue = 0
    /\ stopRequested = FALSE /\ stopWhenEmpty = FALSE
    /\ interrupted = FALSE
    /\ m_callbacks_pending = <<>> /\ m_are_callbacks_running = FALSE
    /\ created \in SUBSET Thread \ {{}}
    /\ pc = [a \in Actor |-> CASE a \in created -> "out"
                              [] a \in Thread \ created -> "dead"
                              [] a = Main -> "up"
                              [] OTHER -> "idle"]
    /\ task = [a \in Actor |-> NoTask]
    /\ deadline = [t \in Thread |-> 0]
    /\ threw = {}
    /\ started = <<>>
    /\ scheduled = {}

-----------------------------------------------------------------------------
(* The condition variable newTaskScheduled.                                *)

Waiting == {t \in Thread : pc[t] \in {"waiting", "timed"}}
NotifyOne(S) == IF S = {} THEN {{}} ELSE {{t} : t \in S}

\* The actors in S are woken up; they still need the mutex.
WakeUp(S) ==
    [a \in Actor |-> IF a \notin S THEN pc[a]
                     ELSE IF pc[a] = "waiting" THEN "awake" ELSE "notified"]

Spurious(t) ==
    /\ t \in Waiting
    /\ pc' = WakeUp({t})
    /\ UNCHANGED <<clock, schedVars, interrupted, clientVars, task, deadline, threw, histVars>>

-----------------------------------------------------------------------------
(* serviceQueue.  A wait of an interrupted thread ends by an exception;    *)
(* RandAddSeedSleep is no interruption point.                              *)

shouldStop == stopRequested \/ (stopWhenEmpty /\ taskQueue = <<>>)

\* The end of serviceQueue.
Leave(t, n) ==
    /\ nThreadsServicingQueue' = n - 1
    /\ \E S \in NotifyOne(Waiting \ {t}) : pc' = [WakeUp(S) EXCEPT ![t] = "dead"]

\* From a test of shouldStop to the place where the mutex is next released; n
\* is nThreadsServicingQueue, and an empty queue leads to idle.
Proceed(t, n, idle) ==
    \/ /\ shouldStop
       /\ Leave(t, n)
       /\ deadline' = [deadline EXCEPT ![t] = 0]
    \/ /\ ~shouldStop
       /\ taskQueue = <<>>
       /\ pc' = [pc EXCEPT ![t] = idle]
       /\ nThreadsServicingQueue' = n
       /\ deadline' = [deadline EXCEPT ![t] = 0]
    \/ /\ ~shouldStop
       /\ taskQueue # <<>>
       /\ pc' = [pc EXCEPT ![t] = "timed"]
       /\ deadline' = [deadline EXCEPT ![t] = Head(taskQueue).time]
       /\ nThreadsServicingQueue' = n

serviceQueue(t) ==
    \/ pc[t] = "out" /\ Proceed(t, nThreadsServicingQueue + 1, "sleep")
    \/ pc[t] = "top" /\ t \notin threw /\ Proceed(t, nThreadsServicingQueue, "sleep")
    \/ pc[t] = "sleep" /\ Proceed(t, nThreadsServicingQueue, "waiting")
    \/ pc[t] = "awake" /\ ~interrupted /\ Proceed(t, nThreadsServicingQueue, "waiting")
    \/ pc[t] = "notified" /\ ~interrupted /\ Proceed(t, nThreadsServicingQueue, "sleep")
    \/ /\ pc[t] = "expired" /\ ~interrupted
       /\ shouldStop \/ taskQueue = <<>>
       /\ Proceed(t, nThreadsServicingQueue, "sleep")

Service(t) ==
    /\ serviceQueue(t)
    /\ UNCHANGED <<clock, taskQueue, stopRequested, stopWhenEmpty, interrupted, clientVars, task,
                   threw, histVars>>

\* Mutant: every end of wait_until counts as a timeout.
ExpireWoken(t) ==
    /\ \/ pc[t] = "timed" /\ clock >= deadline[t]
       \/ pc[t] = "notified"
    /\ pc' = [pc EXCEPT ![t] = "expired"]
    /\ UNCHANGED <<clock, schedVars, interrupted, clientVars, task, deadline, threw, histVars>>

\* wait_until times out; the thread still needs the mutex.
Expire(t) ==
    /\ pc[t] = "timed"
    /\ clock >= deadline[t]
    /\ pc' = [pc EXCEPT ![t] = "expired"]
    /\ UNCHANGED <<clock, schedVars, interrupted, clientVars, task, deadline, threw, histVars>>

\* Takes the first task there is now, and releases the mutex to run it.
Take(t) ==
    /\ pc[t] = "expired" /\ ~interrupted
    /\ ~shouldStop /\ taskQueue # <<>>
    /\ task' = [task EXCEPT ![t] = Head(taskQueue)]
    /\ taskQueue' = Tail(taskQueue)
    /\ pc' = [pc EXCEPT ![t] = "run"]
    /\ UNCHANGED <<clock, nThreadsServicingQueue, stopRequested, stopWhenEmpty, interrupted,
                   clientVars, deadline, threw, histVars>>

\* Mutant: the catch clause only rethrows.
RethrowOnly(t) ==
    /\ \/ interrupted /\ pc[t] \in {"waiting", "awake", "timed", "notified", "expired"}
       \/ pc[t] = "top" /\ t \in threw
    /\ pc' = [pc EXCEPT ![t] = "dead"]
    /\ UNCHANGED <<clock, schedVars, interrupted, clientVars, task, deadline, threw, histVars>>

\* The catch clause: an interrupted wait, or a task left by an exception.
Rethrow(t) ==
    /\ \/ interrupted /\ pc[t] \in {"waiting", "awake", "timed", "notified", "expired"}
       \/ pc[t] = "top" /\ t \in threw
    /\ nThreadsServicingQueue' = nThreadsServicingQueue - 1
    /\ pc' = [pc EXCEPT ![t] = "dead"]
    /\ UNCHANGED <<clock, taskQueue, stopRequested, stopWhenEmpty, interrupted, clientVars, task,
                   deadline, threw, histVars>>

\* A job that is not ProcessQueue; Repeat schedules it once more, unless an
\* interruption point of the job ends it.
Run(t) ==
    /\ pc[t] = "run"
    /\ task[t].f \in Job
    /\ \/ /\ task[t].f \in Repeating
          /\ pc' = [pc EXCEPT ![t] = "insert"]
          /\ task' = [task EXCEPT ![t].time = clock + Delay[task[t].f]]
          /\ UNCHANGED threw
       \/ /\ task[t].f \notin Repeating
          /\ pc' = [pc EXCEPT ![t] = "top"]
          /\ task' = [task EXCEPT ![t] = NoTask]
          /\ UNCHANGED threw
       \/ /\ interrupted
          /\ threw' = threw \cup {t}
          /\ pc' = [pc EXCEPT ![t] = "top"]
          /\ task' = [task EXCEPT ![t] = NoTask]
    /\ UNCHANGED <<clock, schedVars, interrupted, clientVars, deadline, histVars>>

-----------------------------------------------------------------------------
(* schedule, called with a task and its time.                              *)

\* Where an actor goes on after a call.
Returned(a) ==
    IF a \in Thread THEN "top" ELSE IF a \in Caller THEN "idle" ELSE "check"

\* multimap::insert: behind the tasks of the same time.
Insert(a) ==
    /\ pc[a] = "insert"
    /\ \E k \in 0..Len(taskQueue) :
         /\ \A i \in 1..k : taskQueue[i].time <= task[a].time
         /\ \A i \in (k + 1)..Len(taskQueue) : taskQueue[i].time > task[a].time
         /\ taskQueue' = SubSeq(taskQueue, 1, k) \o <<task[a]>>
                             \o SubSeq(taskQueue, k + 1, Len(taskQueue))
    /\ task' = [task EXCEPT ![a] = NoTask]
    /\ pc' = [pc EXCEPT ![a] = "notify"]
    /\ UNCHANGED <<clock, nThreadsServicingQueue, stopRequested, stopWhenEmpty, interrupted,
                   clientVars, deadline, threw, histVars>>

\* Mutant: a task is queued and nobody is told.
NotifyNobody(a) ==
    /\ pc[a] = "notify"
    /\ pc' = [pc EXCEPT ![a] = Returned(a)]
    /\ UNCHANGED <<clock, schedVars, interrupted, clientVars, task, deadline, threw, histVars>>

Notify(a) ==
    /\ pc[a] = "notify"
    /\ \E S \in NotifyOne(Waiting) : pc' = [WakeUp(S) EXCEPT ![a] = Returned(a)]
    /\ UNCHANGED <<clock, schedVars, interrupted, clientVars, task, deadline, threw, histVars>>

added == Len(started) + Len(m_callbacks_pending)
CanCall(a) ==
    /\ pc[a] = "idle" /\ pc[Main] \in {"up", "stop", "stopping"}
    /\ added + Cardinality(scheduled) < MaxCalls

\* schedule, scheduleFromNow and scheduleEvery, up to the mutex.
Schedule(a, j) ==
    /\ CanCall(a)
    /\ j \notin scheduled
    /\ clock + Delay[j] <= MaxTime
    /\ scheduled' = scheduled \cup {j}
    /\ task' = [task EXCEPT ![a] = [time |-> clock + Delay[j], f |-> j]]
    /\ pc' = [pc EXCEPT ![a] = "insert"]
    /\ UNCHANGED <<clock, schedVars, interrupted, clientVars, deadline, threw, created>>

-----------------------------------------------------------------------------
(* SingleThreadedSchedulerClient                                           *)

\* Up to the call of schedule; m_cs_callbacks_pending is not held there.
MaybeScheduleProcessQueue(a) ==
    /\ pc[a] = "maybe"
    /\ IF m_are_callbacks_running \/ m_callbacks_pending = <<>>
         THEN /\ pc' = [pc EXCEPT ![a] = Returned(a)]
              /\ UNCHANGED task
         ELSE /\ pc' = [pc EXCEPT ![a] = "insert"]
              /\ task' = [task EXCEPT ![a] = [time |-> clock, f |-> ProcessQueue]]
    /\ UNCHANGED <<clock, schedVars, interrupted, clientVars, deadline, threw, histVars>>

AddToProcessQueue(a) ==
    /\ CanCall(a)
    /\ m_callbacks_pending' = Append(m_callbacks_pending, added + 1)
    /\ pc' = [pc EXCEPT ![a] = "maybe"]
    /\ UNCHANGED <<clock, schedVars, interrupted, m_are_callbacks_running, started, task, deadline,
                   threw, histVars>>

InProcessQueue(a) == \/ a \in Thread /\ pc[a] = "run" /\ task[a].f = ProcessQueue
                     \/ a = Main /\ pc[a] = "emptying"

\* Mutant: a callback that runs does not keep others away.
BeginAnyway(a) ==
    /\ InProcessQueue(a)
    /\ IF m_callbacks_pending = <<>>
         THEN /\ pc' = [pc EXCEPT ![a] = Returned(a)]
              /\ UNCHANGED clientVars
         ELSE /\ m_are_callbacks_running' = TRUE
              /\ started' = Append(started, Head(m_callbacks_pending))
              /\ m_callbacks_pending' = Tail(m_callbacks_pending)
              /\ pc' = [pc EXCEPT ![a] = "callback"]
    /\ task' = [task EXCEPT ![a] = NoTask]
    /\ UNCHANGED <<clock, schedVars, interrupted, deadline, threw, histVars>>

\* ProcessQueue up to the callback.
BeginCallback(a) ==
    /\ InProcessQueue(a)
    /\ IF m_are_callbacks_running \/ m_callbacks_pending = <<>>
         THEN /\ pc' = [pc EXCEPT ![a] = Returned(a)]
              /\ UNCHANGED clientVars
         ELSE /\ m_are_callbacks_running' = TRUE
              /\ started' = Append(started, Head(m_callbacks_pending))
              /\ m_callbacks_pending' = Tail(m_callbacks_pending)
              /\ pc' = [pc EXCEPT ![a] = "callback"]
    /\ task' = [task EXCEPT ![a] = NoTask]
    /\ UNCHANGED <<clock, schedVars, interrupted, deadline, threw, histVars>>

\* Mutant: an exception leaves m_are_callbacks_running as it is.
EndUnguarded(a) ==
    /\ pc[a] = "callback"
    /\ pc' = [pc EXCEPT ![a] = "maybe"]
    /\ \/ threw' = threw /\ m_are_callbacks_running' = FALSE
       \/ interrupted /\ a \in Thread /\ threw' = threw \cup {a} /\ UNCHANGED m_are_callbacks_running
    /\ UNCHANGED <<clock, schedVars, interrupted, m_callbacks_pending, started, task, deadline,
                   histVars>>

\* The callback returns, or is left by an interruption; ~RAIICallbacksRunning
\* resets the flag in both cases.
EndCallback(a) ==
    /\ pc[a] = "callback"
    /\ m_are_callbacks_running' = FALSE
    /\ pc' = [pc EXCEPT ![a] = "maybe"]
    /\ \/ threw' = threw
       \/ interrupted /\ a \in Thread /\ threw' = threw \cup {a}
    /\ UNCHANGED <<clock, schedVars, interrupted, m_callbacks_pending, started, task, deadline,
                   histVars>>

-----------------------------------------------------------------------------
(* Shutdown                                                                *)

stop(drain) ==
    /\ pc[Main] = "up"
    /\ IF drain THEN stopWhenEmpty' = TRUE /\ UNCHANGED stopRequested
                ELSE stopRequested' = TRUE /\ UNCHANGED stopWhenEmpty
    /\ pc' = [pc EXCEPT ![Main] = "stop"]
    /\ UNCHANGED <<clock, taskQueue, nThreadsServicingQueue, interrupted, clientVars, task,
                   deadline, threw, histVars>>

\* Mutant: stop only sets its flag.
StopUntold ==
    /\ pc[Main] = "stop"
    /\ pc' = [pc EXCEPT ![Main] = "stopping"]
    /\ UNCHANGED <<clock, schedVars, interrupted, clientVars, task, deadline, threw, histVars>>

NotifyAll ==
    /\ pc[Main] = "stop"
    /\ pc' = [WakeUp(Waiting) EXCEPT ![Main] = "stopping"]
    /\ UNCHANGED <<clock, schedVars, interrupted, clientVars, task, deadline, threw, histVars>>

\* threadGroup.interrupt_all()
Interrupt ==
    /\ pc[Main] = "up"
    /\ interrupted' = TRUE
    /\ pc' = [pc EXCEPT ![Main] = "stopping"]
    /\ UNCHANGED <<clock, schedVars, clientVars, task, deadline, threw, histVars>>

\* threadGroup.join_all(); when EmptyQueue is called nobody else uses the client.
Join ==
    /\ pc[Main] = "stopping"
    /\ \A t \in Thread : pc[t] = "dead"
    /\ \A a \in Caller : pc[a] = "idle"
    /\ pc' = [pc EXCEPT ![Main] = "emptying"]
    /\ UNCHANGED <<clock, schedVars, interrupted, clientVars, task, deadline, threw, histVars>>

\* EmptyQueue goes on while callbacks are pending.
EmptyQueue ==
    /\ pc[Main] = "check"
    /\ pc' = [pc EXCEPT ![Main] = IF m_callbacks_pending = <<>> THEN "emptied" ELSE "emptying"]
    /\ UNCHANGED <<clock, schedVars, interrupted, clientVars, task, deadline, threw, histVars>>

Tick ==
    /\ clock < MaxTime
    /\ clock' = clock + 1
    /\ UNCHANGED <<schedVars, interrupted, clientVars, actorVars, histVars>>

\* Nothing is left to do once the queue has been emptied.
Over == pc[Main] = "emptied" /\ UNCHANGED vars

-----------------------------------------------------------------------------

ThreadStep(t) == Service(t) \/ Take(t) \/ Rethrow(t) \/ Run(t)

MainStep == NotifyAll \/ Join \/ EmptyQueue

\* What an actor does of its own once it has been called.
Step(a) ==
    \/ Insert(a)
    \/ Notify(a)
    \/ MaybeScheduleProcessQueue(a)
    \/ BeginCallback(a)
    \/ EndCallback(a)
    \/ a \in Thread /\ ThreadStep(a)
    \/ a = Main /\ MainStep

Next ==
    \/ \E a \in Actor : Step(a)
    \/ \E t \in Thread : Expire(t) \/ Spurious(t)
    \/ \E a \in Caller : AddToProcessQueue(a) \/ \E j \in Job : Schedule(a, j)
    \/ \E drain \in BOOLEAN : stop(drain)
    \/ Interrupt
    \/ Tick
    \/ Over

Spec == Init /\ [][Next]_vars

\* Actors that can go on do; a wait whose time has passed is not woken up
\* spuriously for ever; time passes.  Nobody has to call anything.
FairSpec ==
    /\ Spec
    /\ \A a \in Actor : WF_vars(Step(a))
    /\ \A t \in Thread : SF_vars(Expire(t))
    /\ WF_vars(Tick)

-----------------------------------------------------------------------------
(* Properties                                                              *)

\* Types; in particular nThreadsServicingQueue, which serviceQueue decrements
\* on every way out, never falls below zero.
TypeOK ==
    /\ clock \in 0..MaxTime
    /\ taskQueue \in Seq(Task)
    /\ nThreadsServicingQueue \in Nat
    /\ stopRequested \in BOOLEAN /\ stopWhenEmpty \in BOOLEAN /\ interrupted \in BOOLEAN
    /\ m_callbacks_pending \in Seq(1..MaxCalls)
    /\ m_are_callbacks_running \in BOOLEAN
    /\ created \in SUBSET Thread \ {{}}
    /\ pc \in [Actor -> Place]
    /\ task \in [Actor -> Task]
    /\ deadline \in [Thread -> Nat]
    /\ threw \subseteq Thread
    /\ started \in Seq(1..MaxCalls)
    /\ scheduled \subseteq Job

\* "no two jobs will be executed at the same time", and they run in the order
\* in which AddToProcessQueue was called, although any number of ProcessQueue
\* tasks may be queued and every thread may run one.
SerialInOrder ==
    /\ \A a, b \in Actor : pc[a] = "callback" /\ pc[b] = "callback" => a = b
    /\ \A i \in 1..Len(started) : started[i] = i
    /\ \A i \in 1..Len(m_callbacks_pending) : m_callbacks_pending[i] = Len(started) + i

\* A pending callback is never forgotten: unless one is running, whose end looks
\* at the queue again, a ProcessQueue task is queued, or an actor is on its way
\* to queue or to run one.
NotForgotten ==
    m_callbacks_pending # <<>> /\ ~m_are_callbacks_running =>
        \/ \E i \in 1..Len(taskQueue) : taskQueue[i].f = ProcessQueue
        \/ \E a \in Actor : \/ pc[a] = "maybe"
                            \/ pc[a] \in {"insert", "run"} /\ task[a].f = ProcessQueue
        \/ pc[Main] \in {"emptying", "check"}

\* nThreadsServicingQueue counts the threads in the loop on every way out of it,
\* so the assertions of EmptyQueue and of ~CScheduler hold after the join.
ThreadsExact ==
    nThreadsServicingQueue = Cardinality({t \in Thread : pc[t] \notin {"out", "dead"}})

\* "Call func at/after time t" (scheduler.h:46).
NeverEarly == \A t \in Thread : pc[t] = "run" => task[t].time <= clock

\* With one thread in serviceQueue, as the node has, it is so: the head of the
\* queue that the thread takes after its timeout is due.  With two it need not
\* be, since another thread may have taken the task that was waited for.
NeverEarlyAlone == (\A t, u \in created : t = u) => NeverEarly

\* The queue of callbacks always becomes empty again: every callback that was
\* added is run, by a thread or, after a stop or an interruption at any moment,
\* by EmptyQueue.
CallbacksRun == []<>(m_callbacks_pending = <<>>)

\* Job j is queued for a time that the clock reaches.
Queued(j) == \E i \in 1..Len(taskQueue) : taskQueue[i].f = j /\ taskQueue[i].time <= MaxTime

\* A task queued while the scheduler is up is taken, also when the scheduler is
\* then told to stop once the queue is empty: no order of schedule, notify_one
\* and the waits loses it.
JobsTaken ==
    \A j \in Job : (Queued(j) /\ pc[Main] = "up") ~> (~Queued(j) \/ stopRequested \/ interrupted)

\* A stop and an interruption at any moment end every thread, and shutdown gets
\* past the join and EmptyQueue.  Only stop(true) waits for ever, for a job that
\* schedules itself again and again.
ShutsDown ==
    pc[Main] \in {"stop", "stopping"} ~>
        \/ pc[Main] = "emptied"
        \/ stopWhenEmpty /\ scheduled \cap Repeating # {}
=============================================================================
