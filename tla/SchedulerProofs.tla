-------------------------- MODULE SchedulerProofs ---------------------------
(* Safety of Scheduler, for every number of threads, callers and jobs.     *)
EXTENDS Scheduler, FiniteSetTheorems, TLAPS

\* The types of the variables other than the counter of threads.
Typed ==
    /\ clock \in 0..MaxTime
    /\ taskQueue \in Seq(Task)
    /\ stopRequested \in BOOLEAN /\ stopWhenEmpty \in BOOLEAN /\ interrupted \in BOOLEAN
    /\ m_callbacks_pending \in Seq(1..MaxCalls)
    /\ m_are_callbacks_running \in BOOLEAN
    /\ created \in SUBSET Thread \ {{}}
    /\ pc \in [Actor -> Place]
    /\ task \in [Actor -> Task]
    /\ deadline \in [Thread -> Nat]
    /\ threw \subseteq Thread
    /\ started \in Seq(1..MaxCalls)
    /\ scheduled \subseteq Job

-----------------------------------------------------------------------------
(* What the steps do to the places of the actors.                          *)

\* The sets of actors do not overlap.
LEMMA Actors ==
    /\ Main \in Actor /\ Main \notin Thread /\ Main \notin Caller
    /\ \A t \in Thread : t \in Actor /\ t \notin Caller
    /\ \A a \in Caller : a \in Actor
  BY SchedulerAssumption DEF Actor

\* A notification moves threads from the two waits, and nobody else.
LEMMA Woken ==
    ASSUME pc \in [Actor -> Place], NEW S \in SUBSET Waiting
    PROVE  /\ WakeUp(S) \in [Actor -> Place]
           /\ \A a \in Actor \ S : WakeUp(S)[a] = pc[a]
           /\ \A a \in S : a \in Thread /\ pc[a] \in {"waiting", "timed"}
                           /\ WakeUp(S)[a] \in {"awake", "notified"}
<1>1. \A a \in S : a \in Actor /\ a \in Thread /\ pc[a] \in {"waiting", "timed"}
  BY Actors DEF Waiting
<1>. QED
  BY <1>1 DEF WakeUp, Place

\* The set that notify_one picks.
LEMMA Picked ==
    ASSUME NEW W, NEW S \in NotifyOne(W)
    PROVE  S \subseteq W
  BY DEF NotifyOne

\* The first task of a queue, and the rest.
LEMMA TakeFirst ==
    ASSUME NEW T, NEW s \in Seq(T), s # <<>>
    PROVE  /\ Head(s) \in T /\ Tail(s) \in Seq(T)
           /\ Head(s) = s[1]
           /\ Len(s) \in Nat /\ Len(s) > 0 /\ Len(Tail(s)) = Len(s) - 1
           /\ \A i \in 1..(Len(s) - 1) : Tail(s)[i] = s[i + 1]
  OBVIOUS

\* The length of a sequence, and two sequences joined.
LEMMA LenNat == ASSUME NEW T, NEW s \in Seq(T) PROVE Len(s) \in Nat
  OBVIOUS

LEMMA Joined ==
    ASSUME NEW T, NEW a \in Seq(T), NEW b \in Seq(T)
    PROVE  /\ a \o b \in Seq(T) /\ Len(a \o b) = Len(a) + Len(b)
           /\ \A i \in 1..(Len(a) + Len(b)) :
                 (a \o b)[i] = IF i <= Len(a) THEN a[i] ELSE b[i - Len(a)]
  OBVIOUS

\* Sequence s with e behind its first k members.
Inserting(s, k, e) == SubSeq(s, 1, k) \o <<e>> \o SubSeq(s, k + 1, Len(s))

\* Sequence d has e among its members, and all members of s.
Extended(d, s, e) ==
    /\ \E j \in 1..Len(d) : d[j] = e
    /\ \A i \in 1..Len(s) : \E j \in 1..Len(d) : d[j] = s[i]

\* A task that is inserted is in the queue, and so are the others.
LEMMA Inserted ==
    ASSUME NEW T, NEW s \in Seq(T), NEW k \in 0..Len(s), NEW e \in T
    PROVE  /\ Inserting(s, k, e) \in Seq(T)
           /\ Extended(Inserting(s, k, e), s, e)
<1>. DEFINE a == SubSeq(s, 1, k)
            b == SubSeq(s, k + 1, Len(s))
<1>0. Len(s) \in Nat /\ k \in Nat /\ k <= Len(s) /\ \A i \in 1..Len(s) : s[i] \in T
  OBVIOUS
<1>1. /\ a \in Seq(T) /\ Len(a) = k /\ \A i \in 1..k : a[i] = s[i]
  BY <1>0
<1>2. /\ b \in Seq(T) /\ Len(b) = Len(s) - k /\ \A i \in 1..(Len(s) - k) : b[i] = s[k + i]
  BY <1>0
<1>3. Inserting(s, k, e) = (a \o <<e>>) \o b
  BY DEF Inserting
<1>. HIDE DEF a, b
<1>4. <<e>> \in Seq(T) /\ Len(<<e>>) = 1 /\ <<e>>[1] = e
  OBVIOUS
<1>5. PICK c : c = a \o <<e>>
  BY Zenon
<1>6. /\ c \in Seq(T) /\ Len(c) = k + 1
      /\ \A i \in 1..(k + 1) : c[i] = IF i <= k THEN a[i] ELSE e
  <2>1. /\ c \in Seq(T) /\ Len(c) = k + 1
        /\ \A i \in 1..(k + 1) : c[i] = IF i <= k THEN a[i] ELSE <<e>>[i - k]
    BY <1>1, <1>4, <1>5, Joined
  <2>2. \A i \in 1..(k + 1) : ~(i <= k) => i - k = 1
    BY <1>0
  <2>. QED
    BY <1>4, <2>1, <2>2
<1>7. PICK d : d = c \o b
  BY Zenon
<1>8. /\ d \in Seq(T) /\ Len(d) = Len(c) + Len(b)
      /\ \A i \in 1..(Len(c) + Len(b)) : d[i] = IF i <= Len(c) THEN c[i] ELSE b[i - Len(c)]
  BY <1>2, <1>6, <1>7, Joined, Zenon
<1>9. d = Inserting(s, k, e)
  BY <1>3, <1>5, <1>7
<1>10. /\ d \in Seq(T) /\ Len(d) = Len(s) + 1 /\ d[k + 1] = e
       /\ \A i \in 1..k : d[i] = s[i]
       /\ \A i \in (k + 1)..Len(s) : d[i + 1] = s[i]
  <2>0. Len(c) + Len(b) = Len(s) + 1
    BY <1>0, <1>2, <1>6
  <2>1. Len(d) = Len(s) + 1 /\ d[k + 1] = e
    <3>1. k + 1 \in 1..(Len(c) + Len(b)) /\ k + 1 <= Len(c) /\ ~(k + 1 <= k) /\ k + 1 \in 1..(k + 1)
      BY <1>0, <1>6, <2>0
    <3>. QED
      BY <1>6, <1>8, <2>0, <3>1
  <2>2. ASSUME NEW i \in 1..k PROVE d[i] = s[i]
    <3>1. i \in 1..(Len(c) + Len(b)) /\ i <= Len(c) /\ i <= k /\ i \in 1..(k + 1)
      BY <1>0, <1>6, <2>0
    <3>. QED
      BY <1>1, <1>6, <1>8, <3>1
  <2>3. ASSUME NEW i \in (k + 1)..Len(s) PROVE d[i + 1] = s[i]
    <3>1. i + 1 \in 1..(Len(c) + Len(b)) /\ ~(i + 1 <= Len(c)) /\ i + 1 - Len(c) = i - k
      BY <1>0, <1>2, <1>6
    <3>2. d[i + 1] = b[i - k]
      BY <1>8, <3>1
    <3>3. i - k \in 1..(Len(s) - k) /\ k + (i - k) = i
      BY <1>0
    <3>. QED
      BY <1>2, <3>2, <3>3
  <2>. QED
    BY <1>8, <2>1, <2>2, <2>3
<1>11. k + 1 \in 1..Len(d)
  BY <1>0, <1>10
<1>12. ASSUME NEW i \in 1..Len(s) PROVE \E j \in 1..Len(d) : d[j] = s[i]
  <2>1. i \in 1..k \/ i \in (k + 1)..Len(s)
    BY <1>0
  <2>2. i \in 1..Len(d) /\ i + 1 \in 1..Len(d)
    BY <1>0, <1>10
  <2>. QED
    BY <1>10, <2>1, <2>2
<1>13. d \in Seq(T) /\ \E j \in 1..Len(d) : d[j] = e
  BY <1>10, <1>11
<1>. QED
  BY <1>9, <1>12, <1>13 DEF Extended

-----------------------------------------------------------------------------
(* Types.                                                                  *)

\* The task that is queued first has a time.
LEMMA HeadTime ==
    ASSUME Typed, taskQueue # <<>>
    PROVE  Head(taskQueue) \in Task /\ Tail(taskQueue) \in Seq(Task) /\ Head(taskQueue).time \in Nat
<1>1. Head(taskQueue) \in Task /\ Tail(taskQueue) \in Seq(Task)
  BY TakeFirst DEF Typed
<1>. QED
  BY <1>1 DEF Task

\* A thread in serviceQueue goes to a place and sets its deadline.
LEMMA ProceedTyped ==
    ASSUME Typed, NEW t \in Thread, NEW n, NEW idle \in {"sleep", "waiting"}, Proceed(t, n, idle)
    PROVE  pc' \in [Actor -> Place] /\ deadline' \in [Thread -> Nat]
<1>1. /\ pc \in [Actor -> Place] /\ deadline \in [Thread -> Nat] /\ t \in Actor
      /\ {"dead", "timed", "sleep", "waiting"} \subseteq Place
  BY Actors DEF Typed, Place
<1>2. ASSUME Leave(t, n) PROVE pc' \in [Actor -> Place]
  <2>1. PICK S \in NotifyOne(Waiting \ {t}) : pc' = [WakeUp(S) EXCEPT ![t] = "dead"]
    BY <1>2, Zenon DEF Leave
  <2>2. S \subseteq Waiting
    BY Picked
  <2>3. WakeUp(S) \in [Actor -> Place]
    BY <1>1, <2>2, Woken
  <2>. QED
    BY <1>1, <2>1, <2>3
<1>. QED
  BY <1>1, <1>2, HeadTime DEF Proceed

\* The types hold at first.
LEMMA TypedInit == Init => Typed
<1>. SUFFICES ASSUME Init PROVE Typed
  OBVIOUS
<1>1. NoTask \in Task
  BY DEF NoTask, Task
<1>2. pc \in [Actor -> Place]
  BY DEF Init, Place
<1>3. /\ clock \in 0..MaxTime /\ task \in [Actor -> Task] /\ deadline \in [Thread -> Nat]
      /\ created \in SUBSET Thread \ {{}}
  BY <1>1, SchedulerAssumption DEF Init
<1>4. <<>> \in Seq(Task) /\ <<>> \in Seq(1..MaxCalls)
  OBVIOUS
<1>. QED
  BY <1>2, <1>3, <1>4, Zenon DEF Init, Typed

\* Every step keeps the types.
LEMMA TypedStep == Typed /\ [Next]_vars => Typed'
<1>. SUFFICES ASSUME Typed, [Next]_vars PROVE Typed'
  OBVIOUS
<1>. USE DEF schedVars, clientVars, actorVars, histVars
<1>0. /\ NoTask \in Task
      /\ \A a \in Actor : Returned(a) \in Place
      /\ {"dead", "timed", "expired", "run", "insert", "top", "notify", "maybe", "callback", "stop",
          "stopping", "emptying", "emptied"} \subseteq Place
  BY DEF NoTask, Task, Returned, Place
<1>1. ASSUME NEW a \in Actor, Insert(a) PROVE Typed'
  <2>1. task[a] \in Task
    BY DEF Typed
  <2>2. taskQueue' \in Seq(Task)
    <3>1. PICK k \in 0..Len(taskQueue) : taskQueue' = Inserting(taskQueue, k, task[a])
      BY <1>1, Zenon DEF Insert, Inserting
    <3>. QED
      BY <2>1, <3>1, Inserted DEF Typed
  <2>3. pc' \in [Actor -> Place] /\ task' \in [Actor -> Task]
    BY <1>0, <1>1 DEF Insert, Typed
  <2>. QED
    BY <1>1, <2>2, <2>3 DEF Insert, Typed
<1>2. ASSUME NEW a \in Actor, Notify(a) PROVE Typed'
  <2>1. PICK S \in NotifyOne(Waiting) : pc' = [WakeUp(S) EXCEPT ![a] = Returned(a)]
    BY <1>2, Zenon DEF Notify
  <2>2. WakeUp(S) \in [Actor -> Place]
    BY Picked, Woken DEF Typed
  <2>3. pc' \in [Actor -> Place]
    BY <1>0, <2>1, <2>2
  <2>. QED
    BY <1>2, <2>3 DEF Notify, Typed
<1>3. ASSUME NEW a \in Actor, MaybeScheduleProcessQueue(a) PROVE Typed'
  <2>1. [time |-> clock, f |-> ProcessQueue] \in Task
    BY SchedulerAssumption DEF Typed, Task
  <2>2. pc' \in [Actor -> Place] /\ task' \in [Actor -> Task]
    BY <1>0, <1>3, <2>1, Zenon DEF MaybeScheduleProcessQueue, Typed
  <2>. QED
    BY <1>3, <2>2 DEF MaybeScheduleProcessQueue, Typed
<1>4. ASSUME NEW a \in Actor, BeginCallback(a) PROVE Typed'
  <2>1. pc' \in [Actor -> Place] /\ task' \in [Actor -> Task]
    BY <1>0, <1>4, Zenon DEF BeginCallback, Typed
  <2>2. ASSUME m_callbacks_pending # <<>>
        PROVE  /\ Append(started, Head(m_callbacks_pending)) \in Seq(1..MaxCalls)
               /\ Tail(m_callbacks_pending) \in Seq(1..MaxCalls)
    <3>1. /\ Head(m_callbacks_pending) \in 1..MaxCalls
          /\ Tail(m_callbacks_pending) \in Seq(1..MaxCalls)
      BY <2>2, TakeFirst, Zenon DEF Typed
    <3>. QED
      BY <3>1 DEF Typed
  <2>3. /\ started' \in Seq(1..MaxCalls) /\ m_callbacks_pending' \in Seq(1..MaxCalls)
        /\ m_are_callbacks_running' \in BOOLEAN
    BY <1>4, <2>2, Zenon DEF BeginCallback, Typed
  <2>. QED
    BY <1>4, <2>1, <2>3 DEF BeginCallback, Typed
<1>5. ASSUME NEW a \in Actor, EndCallback(a) PROVE Typed'
  <2>1. pc' \in [Actor -> Place] /\ threw' \subseteq Thread
    BY <1>0, <1>5 DEF EndCallback, Typed
  <2>. QED
    BY <1>5, <2>1, Zenon DEF EndCallback, Typed
<1>6. ASSUME NEW t \in Thread, Service(t) PROVE Typed'
  <2>1. \E n : \E idle \in {"sleep", "waiting"} : Proceed(t, n, idle)
    BY <1>6 DEF Service, serviceQueue
  <2>2. pc' \in [Actor -> Place] /\ deadline' \in [Thread -> Nat]
    BY <2>1, ProceedTyped
  <2>. QED
    BY <1>6, <2>2 DEF Service, Typed
<1>7. ASSUME NEW t \in Thread, Take(t) PROVE Typed'
  <2>1. taskQueue' \in Seq(Task) /\ Head(taskQueue) \in Task
    BY <1>7, HeadTime DEF Take
  <2>2. pc' \in [Actor -> Place] /\ task' \in [Actor -> Task]
    BY <1>0, <1>7, <2>1, Actors DEF Take, Typed
  <2>. QED
    BY <1>7, <2>1, <2>2 DEF Take, Typed
<1>8. ASSUME NEW t \in Thread, Rethrow(t) PROVE Typed'
  <2>1. pc' \in [Actor -> Place]
    BY <1>0, <1>8, Actors DEF Rethrow, Typed
  <2>. QED
    BY <1>8, <2>1 DEF Rethrow, Typed
<1>9. ASSUME NEW t \in Thread, Run(t) PROVE Typed'
  <2>1. pc' \in [Actor -> Place] /\ threw' \subseteq Thread
    <3>1. pc' = [pc EXCEPT ![t] = "insert"] \/ pc' = [pc EXCEPT ![t] = "top"]
      BY <1>9 DEF Run
    <3>2. threw' = threw \/ threw' = threw \cup {t}
      BY <1>9 DEF Run
    <3>. QED
      BY <1>0, <3>1, <3>2, Actors, SMTT(30) DEF Typed
  <2>2. t \in Actor /\ task[t] \in Task
    BY Actors DEF Typed
  <2>3. clock + Delay[task[t].f] \in Nat
    BY <1>9, SchedulerAssumption DEF Run, Typed
  <2>4. [task[t] EXCEPT !.time = clock + Delay[task[t].f]] \in Task
    BY <2>2, <2>3 DEF Task
  <2>5. task' \in [Actor -> Task]
    BY <1>0, <1>9, <2>2, <2>4, Zenon DEF Run, Typed
  <2>. QED
    BY <1>9, <2>1, <2>5 DEF Run, Typed
<1>10. ASSUME NotifyAll PROVE Typed'
  <2>1. WakeUp(Waiting) \in [Actor -> Place]
    BY Woken DEF Typed
  <2>2. pc' \in [Actor -> Place]
    BY <1>0, <1>10, <2>1, Actors DEF NotifyAll
  <2>. QED
    BY <1>10, <2>2 DEF NotifyAll, Typed
<1>11. ASSUME Join \/ EmptyQueue \/ Interrupt \/ \E drain \in BOOLEAN : stop(drain) PROVE Typed'
  <2>1. pc' \in [Actor -> Place]
    BY <1>0, <1>11, Actors, ZenonT(30) DEF Join, EmptyQueue, Interrupt, stop, Typed
  <2>. QED
    BY <1>11, <2>1, Zenon DEF Join, EmptyQueue, Interrupt, stop, Typed
<1>12. ASSUME NEW t \in Thread, Expire(t) PROVE Typed'
  <2>1. pc' \in [Actor -> Place]
    BY <1>0, <1>12, Actors DEF Expire, Typed
  <2>. QED
    BY <1>12, <2>1 DEF Expire, Typed
<1>13. ASSUME NEW t \in Thread, Spurious(t) PROVE Typed'
  <2>1. {t} \in SUBSET Waiting
    BY <1>13 DEF Spurious
  <2>2. pc' \in [Actor -> Place]
    BY <1>13, <2>1, Woken, Zenon DEF Spurious, Typed
  <2>. QED
    BY <1>13, <2>2, Zenon DEF Spurious, Typed
<1>14. ASSUME NEW a \in Caller, AddToProcessQueue(a) PROVE Typed'
  <2>1. pc' \in [Actor -> Place]
    BY <1>0, <1>14, Actors DEF AddToProcessQueue, Typed
  <2>2. Cardinality(scheduled) \in Nat
    BY SchedulerAssumption, FS_Subset, FS_CardinalityType DEF Typed
  <2>3. Len(started) \in Nat /\ Len(m_callbacks_pending) \in Nat
    BY DEF Typed
  <2>4. added + 1 \in 1..MaxCalls
    BY <1>14, <2>2, <2>3, SchedulerAssumption DEF AddToProcessQueue, CanCall, added
  <2>5. m_callbacks_pending' \in Seq(1..MaxCalls)
    BY <1>14, <2>4 DEF AddToProcessQueue, Typed
  <2>. QED
    BY <1>14, <2>1, <2>5 DEF AddToProcessQueue, Typed
<1>15. ASSUME NEW a \in Caller, NEW j \in Job, Schedule(a, j) PROVE Typed'
  <2>1. [time |-> clock + Delay[j], f |-> j] \in Task
    BY SchedulerAssumption DEF Typed, Task
  <2>2. pc' \in [Actor -> Place] /\ task' \in [Actor -> Task] /\ scheduled' \subseteq Job
    BY <1>0, <1>15, <2>1, Actors DEF Schedule, Typed
  <2>. QED
    BY <1>15, <2>2 DEF Schedule, Typed
<1>16. ASSUME Tick PROVE Typed'
  BY <1>16, SchedulerAssumption DEF Tick, Typed
<1>17. ASSUME UNCHANGED vars PROVE Typed'
  BY <1>17 DEF vars, Typed
<1>. QED
  BY <1>1, <1>2, <1>3, <1>4, <1>5, <1>6, <1>7, <1>8, <1>9, <1>10, <1>11, <1>12, <1>13, <1>14, <1>15,
     <1>16, <1>17 DEF Next, Step, ThreadStep, MainStep, Over

-----------------------------------------------------------------------------
(* One actor moves at a time; threads that wait may be woken up with it.   *)

Outside == {"out", "dead"}

OthersStay(a) ==
    \A b \in Actor \ {a} : \/ pc'[b] = pc[b]
                           \/ /\ b \in Thread /\ pc[b] \in {"waiting", "timed"}
                              /\ pc'[b] \in {"awake", "notified"}

\* What actor a, according to p, contributes to the counter of threads.
Share(p, a) == IF a \in Thread /\ p[a] \notin Outside THEN 1 ELSE 0

Counted(a) == nThreadsServicingQueue' = nThreadsServicingQueue - Share(pc, a) + Share(pc', a)

Begins(a) ==
    /\ pc[a] # "callback" /\ pc'[a] = "callback"
    /\ ~m_are_callbacks_running /\ m_are_callbacks_running'
    /\ m_callbacks_pending # <<>>
    /\ started' = Append(started, Head(m_callbacks_pending))
    /\ m_callbacks_pending' = Tail(m_callbacks_pending)

Ends(a) ==
    /\ pc[a] = "callback" /\ pc'[a] # "callback"
    /\ ~m_are_callbacks_running'
    /\ UNCHANGED <<started, m_callbacks_pending>>

Elsewhere(a) ==
    /\ pc[a] = "callback" <=> pc'[a] = "callback"
    /\ UNCHANGED <<started, m_are_callbacks_running>>
    /\ \/ UNCHANGED m_callbacks_pending
       \/ m_callbacks_pending' = Append(m_callbacks_pending, added + 1)

Moved(a) == OthersStay(a) /\ Counted(a) /\ (Begins(a) \/ Ends(a) \/ Elsewhere(a))

\* An actor that moves alone between two places.
LEMMA MovesAlone ==
    ASSUME Typed, NEW a \in Actor, NEW x, pc' = [pc EXCEPT ![a] = x]
    PROVE  OthersStay(a) /\ pc'[a] = x
  BY DEF OthersStay, Typed

\* An actor that moves while threads are woken up.
LEMMA MovesWaking ==
    ASSUME Typed, NEW a \in Actor, NEW x, NEW S \in SUBSET Waiting, a \notin S,
           pc' = [WakeUp(S) EXCEPT ![a] = x]
    PROVE  OthersStay(a) /\ pc'[a] = x
<1>1. /\ WakeUp(S) \in [Actor -> Place]
      /\ \A b \in Actor \ S : WakeUp(S)[b] = pc[b]
      /\ \A b \in S : b \in Thread /\ pc[b] \in {"waiting", "timed"}
                      /\ WakeUp(S)[b] \in {"awake", "notified"}
  BY Woken DEF Typed
<1>. QED
  BY <1>1 DEF OthersStay

\* Moves of a thread within serviceQueue, into it and out of it.
LEMMA ProceedMoves ==
    ASSUME Typed, nThreadsServicingQueue \in Int, NEW t \in Thread, NEW n,
           NEW idle \in {"sleep", "waiting"}, Proceed(t, n, idle),
           pc[t] # "dead", pc[t] # "callback",
           n = nThreadsServicingQueue + (IF pc[t] = "out" THEN 1 ELSE 0)
    PROVE  OthersStay(t) /\ Counted(t) /\ pc'[t] # "callback"
<1>. t \in Actor
  BY Actors
<1>1. CASE Leave(t, n)
  <2>1. PICK S \in NotifyOne(Waiting \ {t}) : pc' = [WakeUp(S) EXCEPT ![t] = "dead"]
    BY <1>1, Zenon DEF Leave
  <2>2. S \subseteq Waiting /\ t \notin S
    <3>1. S \subseteq Waiting \ {t}
      BY Picked
    <3>. QED
      BY <3>1
  <2>3. OthersStay(t) /\ pc'[t] = "dead"
    BY <2>1, <2>2, MovesWaking, Zenon
  <2>. QED
    BY <1>1, <2>3 DEF Leave, Counted, Share, Outside
<1>2. ASSUME NEW x \in {"sleep", "waiting", "timed"}, pc' = [pc EXCEPT ![t] = x],
             nThreadsServicingQueue' = n
      PROVE  OthersStay(t) /\ Counted(t) /\ pc'[t] # "callback"
  <2>1. OthersStay(t) /\ pc'[t] = x
    BY <1>2, MovesAlone, Zenon
  <2>. QED
    BY <1>2, <2>1 DEF Counted, Share, Outside
<1>3. Leave(t, n) \/ \E x \in {"sleep", "waiting", "timed"} :
                        pc' = [pc EXCEPT ![t] = x] /\ nThreadsServicingQueue' = n
  BY DEF Proceed
<1>. QED
  BY <1>1, <1>2, <1>3

\* Every step moves one actor.
LEMMA Moves ==
    ASSUME Typed, nThreadsServicingQueue \in Int, Next
    PROVE  \E a \in Actor : Moved(a)
<1>. USE DEF schedVars, clientVars, actorVars, histVars
<1>0. \A a \in Actor : /\ Returned(a) \notin Outside /\ Returned(a) # "callback"
                       /\ a \in Waiting => a \in Thread /\ pc[a] \in {"waiting", "timed"}
  BY DEF Returned, Outside, Waiting
\* A move between two places inside, or of an actor that is no thread.
<1>q. ASSUME NEW a \in Actor, NEW x, OthersStay(a), pc'[a] = x,
             a \in Thread => pc[a] \notin Outside /\ x \notin Outside,
             UNCHANGED nThreadsServicingQueue,
             Begins(a) \/ Ends(a) \/ Elsewhere(a)
      PROVE  Moved(a)
  BY <1>q DEF Moved, Counted, Share
<1>1. ASSUME NEW a \in Actor, Insert(a) PROVE Moved(a)
  <2>1. OthersStay(a) /\ pc'[a] = "notify"
    BY <1>1, MovesAlone, Zenon DEF Insert
  <2>2. Elsewhere(a)
    BY <1>1, <2>1 DEF Insert, Elsewhere
  <2>. QED
    BY <1>1, <1>q, <2>1, <2>2 DEF Insert, Outside
<1>2. ASSUME NEW a \in Actor, Notify(a) PROVE Moved(a)
  <2>1. PICK S \in NotifyOne(Waiting) : pc' = [WakeUp(S) EXCEPT ![a] = Returned(a)]
    BY <1>2, Zenon DEF Notify
  <2>2. S \in SUBSET Waiting /\ a \notin S
    BY <1>0, <1>2, Picked DEF Notify
  <2>3. OthersStay(a) /\ pc'[a] = Returned(a)
    BY <2>1, <2>2, MovesWaking, Zenon
  <2>4. Elsewhere(a)
    BY <1>0, <1>2, <2>3 DEF Notify, Elsewhere
  <2>. QED
    BY <1>0, <1>2, <1>q, <2>3, <2>4 DEF Notify, Outside
<1>3. ASSUME NEW a \in Actor, MaybeScheduleProcessQueue(a) PROVE Moved(a)
  <2>1. PICK x \in {Returned(a), "insert"} : pc' = [pc EXCEPT ![a] = x]
    BY <1>3 DEF MaybeScheduleProcessQueue
  <2>2. OthersStay(a) /\ pc'[a] = x
    BY <2>1, MovesAlone, Zenon
  <2>3. Elsewhere(a)
    BY <1>0, <1>3, <2>2 DEF MaybeScheduleProcessQueue, Elsewhere
  <2>. QED
    BY <1>0, <1>3, <1>q, <2>2, <2>3 DEF MaybeScheduleProcessQueue, Outside
<1>4. ASSUME NEW a \in Actor, BeginCallback(a) PROVE Moved(a)
  <2>0. pc[a] \in {"run", "emptying"}
    BY <1>4 DEF BeginCallback, InProcessQueue
  <2>1. CASE m_are_callbacks_running \/ m_callbacks_pending = <<>>
    <3>1. OthersStay(a) /\ pc'[a] = Returned(a)
      BY <1>4, <2>1, MovesAlone, Zenon DEF BeginCallback
    <3>2. Elsewhere(a)
      BY <1>0, <1>4, <2>0, <2>1, <3>1 DEF BeginCallback, Elsewhere
    <3>. QED
      BY <1>0, <1>4, <1>q, <2>0, <3>1, <3>2 DEF BeginCallback, Outside
  <2>2. CASE ~(m_are_callbacks_running \/ m_callbacks_pending = <<>>)
    <3>1. OthersStay(a) /\ pc'[a] = "callback"
      BY <1>4, <2>2, MovesAlone, Zenon DEF BeginCallback
    <3>2. Begins(a)
      BY <1>4, <2>0, <2>2, <3>1 DEF BeginCallback, Begins
    <3>. QED
      BY <1>4, <1>q, <2>0, <3>1, <3>2 DEF BeginCallback, Outside
  <2>. QED
    BY <2>1, <2>2
<1>5. ASSUME NEW a \in Actor, EndCallback(a) PROVE Moved(a)
  <2>1. OthersStay(a) /\ pc'[a] = "maybe"
    BY <1>5, MovesAlone, Zenon DEF EndCallback
  <2>2. Ends(a)
    BY <1>5, <2>1 DEF EndCallback, Ends
  <2>. QED
    BY <1>5, <1>q, <2>1, <2>2 DEF EndCallback, Outside
<1>6. ASSUME NEW t \in Thread, Service(t) PROVE Moved(t)
  <2>1. \E idle \in {"sleep", "waiting"} :
           Proceed(t, nThreadsServicingQueue + (IF pc[t] = "out" THEN 1 ELSE 0), idle)
    BY <1>6 DEF Service, serviceQueue
  <2>2. pc[t] # "dead" /\ pc[t] # "callback"
    BY <1>6 DEF Service, serviceQueue
  <2>3. OthersStay(t) /\ Counted(t) /\ pc'[t] # "callback"
    BY <2>1, <2>2, ProceedMoves
  <2>4. Elsewhere(t)
    BY <1>6, <2>2, <2>3 DEF Service, Elsewhere
  <2>. QED
    BY <2>3, <2>4 DEF Moved
<1>7. ASSUME NEW t \in Thread, Take(t) PROVE Moved(t)
  <2>1. OthersStay(t) /\ pc'[t] = "run"
    BY <1>7, MovesAlone, Actors, Zenon DEF Take
  <2>2. Elsewhere(t)
    BY <1>7, <2>1 DEF Take, Elsewhere
  <2>. QED
    BY <1>7, <1>q, <2>1, <2>2, Actors DEF Take, Outside
<1>8. ASSUME NEW t \in Thread, Rethrow(t) PROVE Moved(t)
  <2>1. OthersStay(t) /\ pc'[t] = "dead"
    BY <1>8, MovesAlone, Actors, Zenon DEF Rethrow
  <2>2. pc[t] \in {"waiting", "awake", "timed", "notified", "expired", "top"}
    BY <1>8 DEF Rethrow
  <2>3. Elsewhere(t)
    BY <1>8, <2>1, <2>2 DEF Rethrow, Elsewhere
  <2>4. Counted(t)
    BY <1>8, <2>1, <2>2 DEF Rethrow, Counted, Share, Outside
  <2>. QED
    BY <2>1, <2>3, <2>4 DEF Moved
<1>9. ASSUME NEW t \in Thread, Run(t) PROVE Moved(t)
  <2>1. PICK x \in {"insert", "top"} : pc' = [pc EXCEPT ![t] = x]
    BY <1>9 DEF Run
  <2>2. OthersStay(t) /\ pc'[t] = x
    BY <2>1, MovesAlone, Actors, Zenon
  <2>3. pc[t] = "run" /\ UNCHANGED <<nThreadsServicingQueue, clientVars>>
    BY <1>9 DEF Run
  <2>4. Elsewhere(t)
    BY <2>2, <2>3 DEF Elsewhere
  <2>. QED
    BY <1>q, <2>2, <2>3, <2>4, Actors DEF Outside
<1>10. ASSUME NotifyAll PROVE Moved(Main)
  <2>1. OthersStay(Main) /\ pc'[Main] = "stopping"
    BY <1>10, MovesWaking, Actors, ZenonT(30) DEF NotifyAll, Waiting
  <2>2. Elsewhere(Main)
    BY <1>10, <2>1 DEF NotifyAll, Elsewhere
  <2>. QED
    BY <1>10, <1>q, <2>1, <2>2, Actors DEF NotifyAll
<1>11. ASSUME Join \/ EmptyQueue \/ Interrupt \/ \E drain \in BOOLEAN : stop(drain)
       PROVE  Moved(Main)
  <2>1. PICK x \in {"emptying", "emptied", "stopping", "stop"} : pc' = [pc EXCEPT ![Main] = x]
    BY <1>11 DEF Join, EmptyQueue, Interrupt, stop
  <2>2. OthersStay(Main) /\ pc'[Main] = x
    BY <2>1, MovesAlone, Actors, Zenon
  <2>3. /\ pc[Main] \in {"stopping", "check", "up"}
        /\ UNCHANGED <<nThreadsServicingQueue, clientVars>>
    BY <1>11 DEF Join, EmptyQueue, Interrupt, stop
  <2>4. Elsewhere(Main)
    BY <2>2, <2>3 DEF Elsewhere
  <2>. QED
    BY <1>q, <2>2, <2>3, <2>4, Actors
<1>12. ASSUME NEW t \in Thread, Expire(t) PROVE Moved(t)
  <2>1. OthersStay(t) /\ pc'[t] = "expired"
    BY <1>12, MovesAlone, Actors, ZenonT(30) DEF Expire
  <2>2. Elsewhere(t)
    BY <1>12, <2>1 DEF Expire, Elsewhere
  <2>. QED
    BY <1>12, <1>q, <2>1, <2>2, Actors DEF Expire, Outside
<1>13. ASSUME NEW t \in Thread, Spurious(t) PROVE Moved(t)
  <2>1. {t} \in SUBSET Waiting
    BY <1>13 DEF Spurious
  <2>2. /\ \A b \in Actor \ {t} : pc'[b] = pc[b]
        /\ pc[t] \in {"waiting", "timed"} /\ pc'[t] \in {"awake", "notified"}
    BY <1>13, <2>1, Woken, SMTT(30) DEF Spurious, Typed
  <2>3. OthersStay(t)
    BY <2>2 DEF OthersStay
  <2>4. Elsewhere(t)
    BY <1>13, <2>2 DEF Spurious, Elsewhere
  <2>. QED
    BY <1>13, <1>q, <2>2, <2>3, <2>4, Actors DEF Spurious, Outside
<1>14. ASSUME NEW a \in Caller, AddToProcessQueue(a) PROVE Moved(a)
  <2>1. OthersStay(a) /\ pc'[a] = "maybe"
    BY <1>14, MovesAlone, Actors, Zenon DEF AddToProcessQueue
  <2>2. Elsewhere(a)
    BY <1>14, <2>1 DEF AddToProcessQueue, CanCall, Elsewhere
  <2>. QED
    BY <1>14, <1>q, <2>1, <2>2, Actors DEF AddToProcessQueue
<1>15. ASSUME NEW a \in Caller, NEW j \in Job, Schedule(a, j) PROVE Moved(a)
  <2>1. OthersStay(a) /\ pc'[a] = "insert"
    BY <1>15, MovesAlone, Actors, Zenon DEF Schedule
  <2>2. Elsewhere(a)
    BY <1>15, <2>1 DEF Schedule, CanCall, Elsewhere
  <2>. QED
    BY <1>15, <1>q, <2>1, <2>2, Actors DEF Schedule
<1>16. ASSUME Tick \/ Over PROVE Moved(Main)
  BY <1>16, Actors DEF Tick, Over, vars, Moved, OthersStay, Counted, Share, Elsewhere
<1>. QED
  BY <1>1, <1>2, <1>3, <1>4, <1>5, <1>6, <1>7, <1>8, <1>9, <1>10, <1>11, <1>12, <1>13, <1>14, <1>15,
     <1>16, Actors DEF Next, Step, ThreadStep, MainStep

-----------------------------------------------------------------------------
(* The threads in serviceQueue are counted.                                *)

InQueue(p) == {t \in Thread : p[t] \notin Outside}

\* There are finitely many threads to count.
LEMMA InQueueFinite ==
    ASSUME NEW p
    PROVE  IsFiniteSet(InQueue(p)) /\ Cardinality(InQueue(p)) \in Nat
<1>1. IsFiniteSet(InQueue(p))
  BY FS_Subset, SchedulerAssumption DEF InQueue
<1>. QED
  BY <1>1, FS_CardinalityType

\* One actor moves: the number of threads changes by its share.
LEMMA CountStep ==
    ASSUME NEW p, NEW q, NEW a \in Actor,
           \A b \in Thread \ {a} : q[b] \in Outside <=> p[b] \in Outside
    PROVE  Cardinality(InQueue(q)) = Cardinality(InQueue(p)) - Share(p, a) + Share(q, a)
<1>1. CASE a \notin Thread
  <2>1. InQueue(q) = InQueue(p)
    BY <1>1 DEF InQueue
  <2>. QED
    BY <1>1, <2>1, InQueueFinite DEF Share
<1>2. CASE a \in Thread
  <2>. DEFINE S == InQueue(p) \ {a}
  <2>1. /\ InQueue(p) = IF p[a] \in Outside THEN S ELSE S \cup {a}
        /\ InQueue(q) = IF q[a] \in Outside THEN S ELSE S \cup {a}
    BY <1>2 DEF InQueue
  <2>2. IsFiniteSet(S) /\ a \notin S
    BY InQueueFinite, FS_Subset
  <2>. HIDE DEF S
  <2>3. Cardinality(S) \in Nat /\ Cardinality(S \cup {a}) = Cardinality(S) + 1
    BY <2>2, FS_CardinalityType, FS_AddElement
  <2>. QED
    BY <1>2, <2>1, <2>3 DEF Share
<1>. QED
  BY <1>1, <1>2

\* Every step keeps the counter exact.
LEMMA ThreadsStep == Typed /\ ThreadsExact /\ [Next]_vars => ThreadsExact'
<1>. SUFFICES ASSUME Typed, ThreadsExact, [Next]_vars PROVE ThreadsExact'
  OBVIOUS
<1>1. nThreadsServicingQueue = Cardinality(InQueue(pc)) /\ nThreadsServicingQueue \in Nat
  BY InQueueFinite DEF ThreadsExact, InQueue, Outside
<1>2. CASE Next
  <2>1. PICK a \in Actor : OthersStay(a) /\ Counted(a)
    BY <1>1, <1>2, Moves DEF Moved
  <2>2. \A b \in Thread \ {a} : pc'[b] \in Outside <=> pc[b] \in Outside
    BY <2>1, Actors DEF OthersStay, Outside
  <2>3. Cardinality(InQueue(pc')) = Cardinality(InQueue(pc)) - Share(pc, a) + Share(pc', a)
    BY <2>2, CountStep
  <2>4. nThreadsServicingQueue' = Cardinality(InQueue(pc'))
    BY <1>1, <2>1, <2>3 DEF Counted
  <2>. QED
    BY <2>4 DEF ThreadsExact, InQueue, Outside
<1>3. CASE UNCHANGED vars
  BY <1>3 DEF vars, schedVars, actorVars, ThreadsExact
<1>. QED
  BY <1>2, <1>3

-----------------------------------------------------------------------------
(* Callbacks are run one at a time and in order.                           *)

\* The flag m_are_callbacks_running is set while an actor runs a callback.
Guarded == \A a \in Actor : pc[a] = "callback" => m_are_callbacks_running

\* Every step keeps callbacks apart, and the numbers in order.
LEMMA SerialStep ==
    Typed /\ ThreadsExact /\ Guarded /\ SerialInOrder /\ [Next]_vars => Guarded' /\ SerialInOrder'
<1>. SUFFICES ASSUME Typed, ThreadsExact, Guarded, SerialInOrder, [Next]_vars
              PROVE  Guarded' /\ SerialInOrder'
  OBVIOUS
<1>. DEFINE T == 1..MaxCalls
            InOrder == /\ \A i \in 1..Len(started) : started[i] = i
                       /\ \A i \in 1..Len(m_callbacks_pending) :
                             m_callbacks_pending[i] = Len(started) + i
            Apart == \A a, b \in Actor : pc[a] = "callback" /\ pc[b] = "callback" => a = b
<1>1. InOrder /\ Apart
  BY DEF SerialInOrder
<1>2. /\ started \in Seq(T) /\ m_callbacks_pending \in Seq(T)
      /\ Len(started) \in Nat /\ Len(m_callbacks_pending) \in Nat
  BY DEF Typed
<1>3. CASE Next
  <2>1. PICK a \in Actor : OthersStay(a) /\ (Begins(a) \/ Ends(a) \/ Elsewhere(a))
    <3>1. nThreadsServicingQueue \in Nat
      BY InQueueFinite DEF ThreadsExact, InQueue, Outside
    <3>. QED
      BY <1>3, <3>1, Moves DEF Moved
  <2>2. \A b \in Actor \ {a} : pc'[b] = "callback" <=> pc[b] = "callback"
    BY <2>1 DEF OthersStay
  <2>3. CASE Begins(a)
    <3>1. Guarded' /\ Apart'
      BY <2>2, <2>3 DEF Begins, Guarded
    <3>. DEFINE h == Head(m_callbacks_pending)
    <3>2. /\ h \in T /\ h = m_callbacks_pending[1] /\ Len(m_callbacks_pending) > 0
          /\ Len(Tail(m_callbacks_pending)) = Len(m_callbacks_pending) - 1
          /\ \A i \in 1..(Len(m_callbacks_pending) - 1) :
                Tail(m_callbacks_pending)[i] = m_callbacks_pending[i + 1]
      BY <1>2, <2>3, TakeFirst, ZenonT(30) DEF Begins
    <3>3. h = Len(started) + 1
      BY <1>1, <1>2, <3>2
    <3>4. /\ Len(Append(started, h)) = Len(started) + 1
          /\ \A i \in 1..Len(started) : Append(started, h)[i] = started[i]
          /\ Append(started, h)[Len(started) + 1] = h
      BY <1>2, <3>2
    <3>5. started' = Append(started, h) /\ m_callbacks_pending' = Tail(m_callbacks_pending)
      BY <2>3 DEF Begins
    <3>. HIDE DEF h
    <3>6. \A i \in 1..Len(started') : started'[i] = i
      BY <1>1, <1>2, <3>3, <3>4, <3>5
    <3>7. \A i \in 1..Len(m_callbacks_pending') : m_callbacks_pending'[i] = Len(started') + i
      BY <1>1, <1>2, <3>2, <3>4, <3>5
    <3>. QED
      BY <3>1, <3>6, <3>7 DEF SerialInOrder
  <2>4. CASE Ends(a)
    <3>1. Guarded' /\ Apart'
      BY <1>1, <2>2, <2>4 DEF Ends, Guarded
    <3>2. InOrder'
      BY <1>1, <2>4 DEF Ends
    <3>. QED
      BY <3>1, <3>2 DEF SerialInOrder
  <2>5. CASE Elsewhere(a)
    <3>1. Guarded' /\ Apart'
      BY <1>1, <2>2, <2>5 DEF Elsewhere, Guarded
    <3>2. CASE m_callbacks_pending' = Append(m_callbacks_pending, added + 1)
      <4>. DEFINE s == m_callbacks_pending
                  e == added + 1
      <4>1. e = Len(started) + Len(s) + 1 /\ e \in Nat /\ s \in Seq(Nat)
        BY <1>2, SchedulerAssumption DEF added
      <4>. HIDE DEF e
      <4>2. /\ Len(Append(s, e)) = Len(s) + 1
            /\ \A i \in 1..Len(s) : Append(s, e)[i] = s[i]
            /\ Append(s, e)[Len(s) + 1] = e
        BY <4>1
      <4>3. m_callbacks_pending' = Append(s, e) /\ started' = started
        BY <2>5, <3>2 DEF Elsewhere, e
      <4>. HIDE DEF s
      <4>4. \A i \in 1..Len(started') : started'[i] = i
        BY <1>1, <4>3
      <4>5. ASSUME NEW i \in 1..(Len(s) + 1) PROVE Append(s, e)[i] = Len(started) + i
        <5>1. CASE i = Len(s) + 1
          BY <1>2, <4>1, <4>2, <5>1 DEF s
        <5>2. CASE i # Len(s) + 1
          <6>1. i \in 1..Len(s)
            BY <1>2, <5>2 DEF s
          <6>. QED
            BY <1>1, <4>2, <6>1 DEF s
        <5>. QED
          BY <5>1, <5>2
      <4>6. \A i \in 1..Len(m_callbacks_pending') : m_callbacks_pending'[i] = Len(started') + i
        BY <4>2, <4>3, <4>5
      <4>. QED
        BY <3>1, <4>4, <4>6 DEF SerialInOrder
    <3>3. CASE UNCHANGED m_callbacks_pending
      <4>1. InOrder'
        BY <1>1, <2>5, <3>3 DEF Elsewhere
      <4>. QED
        BY <3>1, <4>1 DEF SerialInOrder
    <3>. QED
      BY <2>5, <3>2, <3>3 DEF Elsewhere
  <2>. QED
    BY <2>1, <2>3, <2>4, <2>5
<1>4. CASE UNCHANGED vars
  BY <1>4 DEF vars, clientVars, actorVars, Guarded, SerialInOrder
<1>. QED
  BY <1>3, <1>4

-----------------------------------------------------------------------------
(* Pending callbacks are not forgotten.                                    *)

QueuedProcessQueue == \E i \in 1..Len(taskQueue) : taskQueue[i].f = ProcessQueue
OnItsWay(a) == pc[a] = "maybe" \/ (pc[a] \in {"insert", "run"} /\ task[a].f = ProcessQueue)
Emptying == pc[Main] \in {"emptying", "check"}
Covered == QueuedProcessQueue \/ (\E a \in Actor : OnItsWay(a)) \/ Emptying

\* If actor a moves, what the others are about to do stays; so it is enough to
\* look at the queue and at a itself.
LEMMA CoveredStep ==
    ASSUME Typed, NotForgotten, NEW a \in Actor, OthersStay(a),
           \A b \in Actor \ {a} : task'[b] = task[b],
           QueuedProcessQueue => Covered',
           OnItsWay(a) => Covered',
           a = Main /\ Emptying => Covered',
           Covered' \/ UNCHANGED <<m_callbacks_pending, m_are_callbacks_running>>
    PROVE  NotForgotten'
<1>. SUFFICES ASSUME m_callbacks_pending' # <<>>, ~m_are_callbacks_running' PROVE Covered'
  BY DEF NotForgotten, Covered, QueuedProcessQueue, OnItsWay, Emptying
<1>1. CASE UNCHANGED <<m_callbacks_pending, m_are_callbacks_running>>
  <2>1. Covered
    BY <1>1, ZenonT(30) DEF NotForgotten, Covered, QueuedProcessQueue, OnItsWay, Emptying
  <2>2. ASSUME NEW b \in Actor \ {a}, OnItsWay(b) PROVE OnItsWay(b)'
    BY <2>2 DEF OnItsWay, OthersStay
  <2>3. ASSUME a # Main, Emptying PROVE Emptying'
    BY <2>3, Actors DEF Emptying, OthersStay
  <2>4. (\E b \in Actor : OnItsWay(b)) => Covered'
    BY <2>2 DEF Covered
  <2>5. Emptying => Covered'
    BY <2>3 DEF Covered
  <2>. QED
    BY <2>1, <2>4, <2>5 DEF Covered
<1>. QED
  BY <1>1

\* A move between places from which nothing is owed to the callbacks.
LEMMA IdleStep ==
    ASSUME Typed, NotForgotten, NEW a \in Actor, OthersStay(a),
           pc[a] \notin {"maybe", "insert", "run"}, a = Main => ~Emptying,
           UNCHANGED <<taskQueue, m_callbacks_pending, m_are_callbacks_running>>,
           \A b \in Actor \ {a} : task'[b] = task[b]
    PROVE  NotForgotten'
<1>1. QueuedProcessQueue => Covered'
  BY DEF QueuedProcessQueue, Covered
<1>2. ~OnItsWay(a)
  BY DEF OnItsWay
<1>. QED
  BY <1>1, <1>2, CoveredStep

\* Every step keeps the pending callbacks covered.
LEMMA NotForgottenStep ==
    Typed /\ ThreadsExact /\ NotForgotten /\ [Next]_vars => NotForgotten'
<1>. SUFFICES ASSUME Typed, ThreadsExact, NotForgotten, [Next]_vars PROVE NotForgotten'
  OBVIOUS
<1>. USE DEF schedVars, clientVars, actorVars, histVars
<1>0. /\ task \in [Actor -> Task] /\ pc \in [Actor -> Place] /\ taskQueue \in Seq(Task)
      /\ Len(taskQueue) \in Nat /\ nThreadsServicingQueue \in Nat
  BY LenNat, InQueueFinite, Zenon DEF Typed, ThreadsExact, InQueue, Outside
<1>1. ASSUME NEW a \in Actor, Insert(a) PROVE NotForgotten'
  <2>1. OthersStay(a) /\ \A b \in Actor \ {a} : task'[b] = task[b]
    BY <1>0, <1>1, MovesAlone, Zenon DEF Insert
  <2>2. PICK k \in 0..Len(taskQueue) : taskQueue' = Inserting(taskQueue, k, task[a])
    BY <1>1, Zenon DEF Insert, Inserting
  <2>3. /\ \E j \in 1..Len(taskQueue') : taskQueue'[j] = task[a]
        /\ \A i \in 1..Len(taskQueue) :
              \E j \in 1..Len(taskQueue') : taskQueue'[j] = taskQueue[i]
    <3>1. task[a] \in Task
      BY <1>0
    <3>2. Extended(taskQueue', taskQueue, task[a])
      BY <1>0, <2>2, <3>1, Inserted
    <3>. QED
      BY <3>2 DEF Extended
  <2>4. QueuedProcessQueue => QueuedProcessQueue'
    BY <2>3, Zenon DEF QueuedProcessQueue
  <2>5. OnItsWay(a) => QueuedProcessQueue'
    BY <1>1, <2>3, Zenon DEF Insert, OnItsWay, QueuedProcessQueue
  <2>6. a = Main => ~Emptying
    BY <1>1 DEF Insert, Emptying
  <2>7. UNCHANGED <<m_callbacks_pending, m_are_callbacks_running>>
    BY <1>1 DEF Insert
  <2>8. QueuedProcessQueue' => Covered'
    BY DEF Covered
  <2>. QED
    BY <2>1, <2>4, <2>5, <2>6, <2>7, <2>8, CoveredStep
<1>2. ASSUME NEW a \in Actor, Notify(a) PROVE NotForgotten'
  <2>1. PICK S \in NotifyOne(Waiting) : pc' = [WakeUp(S) EXCEPT ![a] = Returned(a)]
    BY <1>2, Zenon DEF Notify
  <2>2. S \in SUBSET Waiting /\ a \notin S
    BY <1>2, Picked DEF Notify, Waiting
  <2>3. OthersStay(a)
    BY <2>1, <2>2, MovesWaking, ZenonT(30)
  <2>4. pc[a] = "notify" /\ UNCHANGED <<taskQueue, m_callbacks_pending, m_are_callbacks_running, task>>
    BY <1>2 DEF Notify
  <2>. QED
    BY <2>3, <2>4, IdleStep DEF Emptying
<1>3. ASSUME NEW a \in Actor, MaybeScheduleProcessQueue(a) PROVE NotForgotten'
  <2>1. CASE m_are_callbacks_running \/ m_callbacks_pending = <<>>
    BY <1>3, <2>1 DEF MaybeScheduleProcessQueue, NotForgotten
  <2>2. CASE ~(m_are_callbacks_running \/ m_callbacks_pending = <<>>)
    <3>1. pc'[a] = "insert" /\ task'[a].f = ProcessQueue
      BY <1>0, <1>3, <2>2 DEF MaybeScheduleProcessQueue
    <3>. QED
      BY <3>1 DEF NotForgotten
  <2>. QED
    BY <2>1, <2>2
<1>4. ASSUME NEW a \in Actor, BeginCallback(a) PROVE NotForgotten'
  BY <1>4 DEF BeginCallback, NotForgotten
<1>5. ASSUME NEW a \in Actor, EndCallback(a) PROVE NotForgotten'
  <2>1. pc'[a] = "maybe"
    BY <1>0, <1>5 DEF EndCallback
  <2>. QED
    BY <2>1 DEF NotForgotten
<1>6. ASSUME NEW t \in Thread, Service(t) PROVE NotForgotten'
  <2>1. \E idle \in {"sleep", "waiting"} :
           Proceed(t, nThreadsServicingQueue + (IF pc[t] = "out" THEN 1 ELSE 0), idle)
    BY <1>0, <1>6 DEF Service, serviceQueue
  <2>2. pc[t] \in {"out", "top", "sleep", "awake", "notified", "expired"}
    BY <1>6 DEF Service, serviceQueue
  <2>3. OthersStay(t)
    BY <1>0, <2>1, <2>2, ProceedMoves
  <2>4. UNCHANGED <<taskQueue, m_callbacks_pending, m_are_callbacks_running, task>>
    BY <1>6 DEF Service
  <2>. QED
    BY <2>2, <2>3, <2>4, IdleStep, Actors
<1>7. ASSUME NEW t \in Thread, Take(t) PROVE NotForgotten'
  <2>. t \in Actor /\ t # Main
    BY Actors
  <2>1. OthersStay(t) /\ pc'[t] = "run" /\ \A b \in Actor \ {t} : task'[b] = task[b]
    BY <1>0, <1>7, MovesAlone, Zenon DEF Take
  <2>2. task'[t] = taskQueue[1]
    BY <1>0, <1>7, TakeFirst DEF Take
  <2>3. /\ Len(taskQueue') = Len(taskQueue) - 1
        /\ \A i \in 1..(Len(taskQueue) - 1) : taskQueue'[i] = taskQueue[i + 1]
    BY <1>0, <1>7, TakeFirst DEF Take
  <2>4. ASSUME QueuedProcessQueue PROVE Covered'
    <3>1. PICK i \in 1..Len(taskQueue) : taskQueue[i].f = ProcessQueue
      BY <2>4 DEF QueuedProcessQueue
    <3>2. CASE i = 1
      BY <2>1, <2>2, <3>1, <3>2 DEF Covered, OnItsWay
    <3>3. CASE i # 1
      <4>1. i - 1 \in 1..(Len(taskQueue) - 1) /\ (i - 1) + 1 = i
        BY <1>0, <3>3
      <4>2. taskQueue'[i - 1].f = ProcessQueue /\ i - 1 \in 1..Len(taskQueue')
        BY <2>3, <3>1, <4>1
      <4>. QED
        BY <4>2 DEF Covered, QueuedProcessQueue
    <3>. QED
      BY <3>2, <3>3
  <2>5. ~OnItsWay(t) /\ UNCHANGED <<m_callbacks_pending, m_are_callbacks_running>>
    BY <1>7 DEF Take, OnItsWay
  <2>. QED
    BY <2>1, <2>4, <2>5, CoveredStep
<1>8. ASSUME NEW t \in Thread, Rethrow(t) \/ Expire(t) PROVE NotForgotten'
  <2>1. \E x : pc' = [pc EXCEPT ![t] = x]
    BY <1>8 DEF Rethrow, Expire
  <2>2. OthersStay(t)
    BY <2>1, MovesAlone, Actors, Zenon
  <2>3. /\ pc[t] \notin {"maybe", "insert", "run"}
        /\ UNCHANGED <<taskQueue, m_callbacks_pending, m_are_callbacks_running, task>>
    BY <1>8 DEF Rethrow, Expire
  <2>. QED
    BY <2>2, <2>3, IdleStep, Actors
<1>9. ASSUME NEW t \in Thread, Run(t) PROVE NotForgotten'
  <2>. t \in Actor /\ t # Main
    BY Actors
  <2>1. \E x : pc' = [pc EXCEPT ![t] = x]
    BY <1>9 DEF Run
  <2>2. OthersStay(t)
    BY <2>1, MovesAlone, Zenon
  <2>3. \A b \in Actor \ {t} : task'[b] = task[b]
    BY <1>0, <1>9 DEF Run
  <2>4. pc[t] = "run" /\ task[t].f \in Job
        /\ UNCHANGED <<taskQueue, m_callbacks_pending, m_are_callbacks_running>>
    BY <1>9 DEF Run
  <2>5. ~OnItsWay(t)
    BY <2>4, SchedulerAssumption DEF OnItsWay
  <2>6. QueuedProcessQueue => Covered'
    BY <2>4 DEF QueuedProcessQueue, Covered
  <2>. QED
    BY <2>2, <2>3, <2>4, <2>5, <2>6, CoveredStep
<1>10. ASSUME NotifyAll PROVE NotForgotten'
  <2>1. OthersStay(Main)
    BY <1>10, MovesWaking, Actors, ZenonT(30) DEF NotifyAll, Waiting
  <2>2. pc[Main] = "stop"
        /\ UNCHANGED <<taskQueue, m_callbacks_pending, m_are_callbacks_running, task>>
    BY <1>10 DEF NotifyAll
  <2>. QED
    BY <2>1, <2>2, IdleStep, Actors DEF Emptying
<1>11. ASSUME Join \/ EmptyQueue PROVE NotForgotten'
  BY <1>0, <1>11, Actors DEF Join, EmptyQueue, NotForgotten
<1>12. ASSUME Interrupt \/ \E drain \in BOOLEAN : stop(drain) PROVE NotForgotten'
  <2>1. \E x : pc' = [pc EXCEPT ![Main] = x]
    BY <1>12 DEF Interrupt, stop
  <2>2. OthersStay(Main)
    BY <2>1, MovesAlone, Actors, ZenonT(30)
  <2>3. pc[Main] = "up"
        /\ UNCHANGED <<taskQueue, m_callbacks_pending, m_are_callbacks_running, task>>
    BY <1>12 DEF Interrupt, stop
  <2>. QED
    BY <2>2, <2>3, IdleStep, Actors DEF Emptying
<1>13. ASSUME NEW t \in Thread, Spurious(t) PROVE NotForgotten'
  <2>1. {t} \in SUBSET Waiting
    BY <1>13 DEF Spurious
  <2>2. \A b \in Actor \ {t} : pc'[b] = pc[b]
    BY <1>0, <1>13, <2>1, Woken DEF Spurious
  <2>3. OthersStay(t)
    BY <2>2 DEF OthersStay
  <2>4. pc[t] \in {"waiting", "timed"}
        /\ UNCHANGED <<taskQueue, m_callbacks_pending, m_are_callbacks_running, task>>
    BY <1>13 DEF Spurious, Waiting
  <2>. QED
    BY <2>3, <2>4, IdleStep, Actors
<1>14. ASSUME NEW a \in Caller, AddToProcessQueue(a) PROVE NotForgotten'
  <2>1. a \in Actor /\ pc'[a] = "maybe"
    BY <1>0, <1>14, Actors DEF AddToProcessQueue
  <2>. QED
    BY <2>1 DEF NotForgotten
<1>15. ASSUME NEW a \in Caller, NEW j \in Job, Schedule(a, j) PROVE NotForgotten'
  <2>1. OthersStay(a) /\ \A b \in Actor \ {a} : task'[b] = task[b]
    BY <1>0, <1>15, MovesAlone, Actors, Zenon DEF Schedule
  <2>2. pc[a] = "idle" /\ UNCHANGED <<taskQueue, m_callbacks_pending, m_are_callbacks_running>>
    BY <1>15 DEF Schedule, CanCall
  <2>. QED
    BY <2>1, <2>2, IdleStep, Actors
<1>16. ASSUME Tick \/ UNCHANGED vars PROVE NotForgotten'
  BY <1>16 DEF Tick, vars, NotForgotten
<1>. QED
  BY <1>1, <1>2, <1>3, <1>4, <1>5, <1>6, <1>7, <1>8, <1>9, <1>10, <1>11, <1>12, <1>13, <1>14, <1>15,
     <1>16 DEF Next, Step, ThreadStep, MainStep, Over

-----------------------------------------------------------------------------
(* The theorems.                                                           *)

IInv == Typed /\ ThreadsExact /\ Guarded /\ SerialInOrder /\ NotForgotten

\* At first nobody is in serviceQueue and nothing is pending.
LEMMA InvInit == Init => IInv
<1>. SUFFICES ASSUME Init PROVE IInv
  OBVIOUS
<1>1. Typed
  BY TypedInit
<1>2. \A a \in Actor : pc[a] # "callback" /\ (a \in Thread => pc[a] \in Outside)
  BY SchedulerAssumption DEF Init, Actor, Outside
<1>3. ThreadsExact
  <2>1. {t \in Thread : pc[t] \notin {"out", "dead"}} = {}
    BY <1>2, Actors DEF Outside
  <2>. QED
    BY <2>1, FS_EmptySet, Zenon DEF Init, ThreadsExact
<1>4. Guarded /\ NotForgotten
  BY <1>2 DEF Init, Guarded, NotForgotten
<1>5. SerialInOrder
  BY <1>2 DEF Init, SerialInOrder
<1>. QED
  BY <1>1, <1>3, <1>4, <1>5 DEF IInv

\* The invariant holds in every reachable state.
LEMMA Invariance == Spec => []IInv
<1>1. IInv /\ [Next]_vars => IInv'
  BY TypedStep, ThreadsStep, SerialStep, NotForgottenStep DEF IInv
<1>. QED
  BY <1>1, InvInit, PTL DEF Spec

\* Callbacks of the SingleThreadedSchedulerClient run one at a time and in the
\* order of AddToProcessQueue, for any number of threads and calls.
THEOREM SerialCorrect == Spec => []SerialInOrder
<1>1. IInv => SerialInOrder
  BY DEF IInv
<1>. QED
  BY <1>1, Invariance, PTL

\* nThreadsServicingQueue is exact on every way out of serviceQueue.
THEOREM ThreadsCorrect == Spec => []ThreadsExact
<1>1. IInv => ThreadsExact
  BY DEF IInv
<1>. QED
  BY <1>1, Invariance, PTL

\* Between the locks of MaybeScheduleProcessQueue, schedule and ProcessQueue no
\* pending callback is left without a task, or an actor, that will run it.
THEOREM NeverForgotten == Spec => []NotForgotten
<1>1. IInv => NotForgotten
  BY DEF IInv
<1>. QED
  BY <1>1, Invariance, PTL

\* The types of the scheduler's state; its counter of threads is never negative.
THEOREM TypeCorrect == Spec => []TypeOK
<1>1. ASSUME IInv PROVE TypeOK
  <2>1. nThreadsServicingQueue \in Nat
    BY <1>1, InQueueFinite DEF IInv, ThreadsExact, InQueue, Outside
  <2>. QED
    BY <1>1, <2>1 DEF IInv, Typed, TypeOK
<1>. QED
  BY <1>1, Invariance, PTL
=============================================================================
