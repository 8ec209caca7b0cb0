----------------------------- MODULE CheckQueue -----------------------------
(***************************************************************************)
(* CCheckQueue and CCheckQueueControl (src/src/checkqueue.h): the pool of  *)
(* script verification threads.  A master pushes batches of checks, then   *)
(* joins the workers until all checks are done and takes the result.  What *)
(* is done under the mutex is one step; waiting on a condition variable    *)
(* ends a step, and evaluating a batch is a step without the mutex.        *)
(***************************************************************************)
EXTENDS Integers, FiniteSets

CONSTANTS
    Worker,     \* threads running Thread()
    Master,     \* threads that may construct a CCheckQueueControl
    Check,      \* verifications
    Bad,        \* the verifications that return false
    nBatchSize,
    None        \* nobody holds ControlMutex

ASSUME CheckQueueAssumption ==
    /\ IsFiniteSet(Worker) /\ IsFiniteSet(Master) /\ IsFiniteSet(Check)
    /\ Worker \cap Master = {}
    /\ Bad \subseteq Check
    /\ nBatchSize \in Nat \ {0}
    /\ None \notin Master

Thread == Worker \cup Master

\* Where a thread is: outside the queue, adding checks, about to take the
\* mutex in Loop, waiting on its condition variable, woken up but without the
\* mutex, evaluating its batch, back from Loop, interrupted.
Place == {"out", "adding", "enter", "waiting", "woken", "working", "done", "dead"}

VARIABLES
    queue,   \* checks that no thread has taken; their order does not matter
    nIdle,
    nTotal,
    fAllOk,
    nTodo,
    control, \* the master that holds ControlMutex, or None
    pc,      \* where each thread is
    batch,   \* vChecks of each thread, kept until its clean-up (nNow is its size)
    fOk,     \* fOk of each thread
    ret,     \* what Loop returned to each master
    added    \* history: the checks added under the present control

queueVars == <<queue, nIdle, nTotal, fAllOk, nTodo>>
vars == <<queueVars, control, pc, batch, fOk, ret, added>>

Min(a, b) == IF a < b THEN a ELSE b
Max(a, b) == IF a > b THEN a ELSE b

Init ==
    /\ queue = {}
    /\ nIdle = 0
    /\ nTotal = 0
    /\ fAllOk = TRUE
    /\ nTodo = 0
    /\ control = None
    /\ pc = [t \in Thread |-> IF t \in Worker THEN "enter" ELSE "out"]
    /\ batch = [t \in Thread |-> {}]
    /\ fOk = [t \in Thread |-> TRUE]
    /\ ret = [m \in Master |-> TRUE]
    /\ added = {}

-----------------------------------------------------------------------------
(* The master's side.                                                      *)

\* The constructor of CCheckQueueControl takes ControlMutex.
Construct(m) ==
    /\ pc[m] = "out"
    /\ control = None
    /\ control' = m
    /\ pc' = [pc EXCEPT ![m] = "adding"]
    /\ added' = {}
    /\ UNCHANGED <<queueVars, batch, fOk, ret>>

\* Threads that notify_one, notify_all may wake up among those that wait on a
\* condition variable: it wakes one, if there is one.
NotifyOne(waiters) == IF waiters = {} THEN {{}} ELSE {{t} : t \in waiters}
Waiting(S) == {t \in S : pc[t] = "waiting"}
WakeUp(S) == [t \in Thread |-> IF t \in S THEN "woken" ELSE pc[t]]

\* Add: one more check wakes one worker, several wake all of them.
Add(m, vChecks) ==
    /\ pc[m] = "adding"
    /\ queue' = queue \cup vChecks
    /\ nTodo' = nTodo + Cardinality(vChecks)
    /\ \E S \in CASE vChecks = {} -> {{}}
                  [] Cardinality(vChecks) = 1 -> NotifyOne(Waiting(Worker))
                  [] OTHER -> {Waiting(Worker)} :
          pc' = WakeUp(S)
    /\ added' = added \cup vChecks
    /\ UNCHANGED <<nIdle, nTotal, fAllOk, control, batch, fOk, ret>>

\* Wait, called by the owner or by the destructor of CCheckQueueControl.
Wait(m) ==
    /\ pc[m] = "adding"
    /\ pc' = [pc EXCEPT ![m] = "enter"]
    /\ fOk' = [fOk EXCEPT ![m] = TRUE]
    /\ UNCHANGED <<queueVars, control, batch, ret, added>>

\* The destructor leaves ControlMutex.
Destruct(m) ==
    /\ pc[m] = "done"
    /\ control' = None
    /\ pc' = [pc EXCEPT ![m] = "out"]
    /\ UNCHANGED <<queueVars, batch, fOk, ret, added>>

-----------------------------------------------------------------------------
(* Loop.                                                                   *)

\* Mutant: the master leaves when the queue is empty.
MayReturnEarly(t, todo) == t \in Master

\* fQuit is never set.
MayReturn(t, todo) == t \in Master /\ todo = 0

\* The while loop and the taking of a batch, with the mutex held, from given
\* values of the fields: return, wait, or take nNow checks.
Decide(t, ok, todo, total, idle, awake) ==
    IF queue = {}
      THEN IF MayReturn(t, todo)
             THEN /\ nTotal' = total - 1
                  /\ ret' = [ret EXCEPT ![t] = ok]
                  /\ fAllOk' = TRUE
                  /\ nIdle' = idle
                  /\ pc' = [awake EXCEPT ![t] = "done"]
                  /\ batch' = [batch EXCEPT ![t] = {}]
                  /\ UNCHANGED <<queue, fOk>>
             ELSE /\ nTotal' = total
                  /\ nIdle' = idle + 1
                  /\ fAllOk' = ok
                  /\ pc' = [awake EXCEPT ![t] = "waiting"]
                  /\ batch' = [batch EXCEPT ![t] = {}]
                  /\ UNCHANGED <<queue, fOk, ret>>
      ELSE \E S \in SUBSET queue :
             /\ Cardinality(S) =
                   Max(1, Min(nBatchSize, Cardinality(queue) \div (total + idle + 1)))
             /\ queue' = queue \ S
             /\ batch' = [batch EXCEPT ![t] = S]
             /\ fOk' = [fOk EXCEPT ![t] = ok]
             /\ fAllOk' = ok
             /\ nTotal' = total
             /\ nIdle' = idle
             /\ pc' = [awake EXCEPT ![t] = "working"]
             /\ UNCHANGED ret

\* The first iteration.
Enter(t) ==
    /\ pc[t] = "enter"
    /\ nTodo' = nTodo
    /\ Decide(t, fAllOk, nTodo, nTotal + 1, nIdle, pc)
    /\ UNCHANGED <<control, added>>

\* Mutants: one good check is enough; a batch counts for one; the master is
\* not told.
EvaluatedAny(t) == fOk[t] /\ ~(batch[t] \subseteq Bad)
DoneOne(t) == 1
ToldNobody(t, todo) == {{}}

\* The evaluation of a batch stops at the first check that fails.
Evaluated(t) == fOk[t] /\ batch[t] \cap Bad = {}

\* nNow.
Done(t) == Cardinality(batch[t])

\* The last check done by a worker wakes the master.
Told(t, todo) == IF todo = 0 /\ t \in Worker THEN NotifyOne(Waiting(Master)) ELSE {{}}

\* The batch is evaluated; the next iteration starts with the clean-up.
CleanUp(t) ==
    /\ pc[t] = "working"
    /\ nTodo' = nTodo - Done(t)
    /\ \E S \in Told(t, nTodo') :
          Decide(t, fAllOk /\ Evaluated(t), nTodo', nTotal, nIdle, WakeUp(S))
    /\ UNCHANGED <<control, added>>

\* cond.wait returns, after a notification or spuriously, with the mutex.
Resume(t) ==
    /\ pc[t] = "woken"
    /\ nTodo' = nTodo
    /\ Decide(t, fAllOk, nTodo, nTotal, nIdle - 1, pc)
    /\ UNCHANGED <<control, added>>

Spurious(t) ==
    /\ pc[t] = "waiting"
    /\ pc' = [pc EXCEPT ![t] = "woken"]
    /\ UNCHANGED <<queueVars, control, batch, fOk, ret, added>>

\* Interrupt() in init.cpp interrupts the workers' threads: cond.wait throws
\* and Loop is left with nIdle and nTotal as they are.
Interrupted(t) ==
    /\ t \in Worker
    /\ pc[t] \in {"waiting", "woken"}
    /\ pc' = [pc EXCEPT ![t] = "dead"]
    /\ UNCHANGED <<queueVars, control, batch, fOk, ret, added>>

-----------------------------------------------------------------------------
LoopStep(t) == Enter(t) \/ CleanUp(t) \/ Resume(t)

Next ==
    \/ \E m \in Master :
          \/ Construct(m)
          \/ \E vChecks \in SUBSET (Check \ added) : Add(m, vChecks)
          \/ Wait(m)
          \/ Destruct(m)
    \/ \E t \in Thread : LoopStep(t) \/ Spurious(t) \/ Interrupted(t)

Spec == Init /\ [][Next]_vars

\* Threads that can take the mutex and go on eventually do, and so does a
\* master that is adding checks; nothing forces spurious wake-ups.
Fairness ==
    /\ \A t \in Thread : WF_vars(LoopStep(t))
    /\ \A m \in Master : WF_vars(Wait(m)) /\ WF_vars(Destruct(m))

FairSpec == Spec /\ Fairness

-----------------------------------------------------------------------------
(* Properties.                                                             *)

\* Every variable keeps its type; in particular the unsigned counters of the
\* queue never go below zero (Add, and the clean-up in Loop).
TypeOK ==
    /\ queue \subseteq Check
    /\ nIdle \in Nat /\ nTotal \in Nat /\ nTodo \in Nat
    /\ fAllOk \in BOOLEAN
    /\ control \in Master \cup {None}
    /\ pc \in [Thread -> Place]
    /\ batch \in [Thread -> SUBSET Check]
    /\ fOk \in [Thread -> BOOLEAN]
    /\ ret \in [Master -> BOOLEAN]
    /\ added \subseteq Check

\* Checks that are not done: queued, or in the batch of a thread.
Outstanding == queue \cup UNION {batch[t] : t \in Thread}

\* nTodo is the number of checks that are queued or in some thread's batch.
TodoExact == nTodo = Cardinality(Outstanding)

\* The guarantee of CCheckQueueControl: when it has left ControlMutex, no check
\* of it is queued or being evaluated, and the status is reset, so the next
\* control starts from a clean queue.
FinishedBeforeContinuing ==
    control = None => Outstanding = {} /\ nTodo = 0 /\ fAllOk

\* What Wait returns is whether all checks added under this control are good,
\* although a thread skips the rest of its batch once some check has failed.
ResultExact == \A m \in Master : pc[m] = "done" => (ret[m] <=> added \cap Bad = {})

\* The unsigned counters of the queue.  nTodo, which decides when the master
\* may leave, counts the checks that are queued or in a batch: none is lost or
\* counted twice on its way between threads.  nTotal and nIdle, from which the
\* size of a batch is computed, count the threads in Loop and those that wait
\* in it; an interrupted worker stays counted in both.
CountersExact ==
    /\ TodoExact
    /\ nTotal = Cardinality({t \in Thread : pc[t] \in {"waiting", "woken", "working", "dead"}})
    /\ nIdle = Cardinality({t \in Thread : pc[t] \in {"waiting", "woken", "dead"}})

\* A master that has started to wait gets its result, whatever the workers do:
\* they may all be asleep or interrupted.
WaitReturns == \A m \in Master : pc[m] = "enter" ~> pc[m] = "done"
=============================================================================
