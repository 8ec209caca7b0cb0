-------------------------- MODULE CheckQueueProofs --------------------------
(* Safety of CheckQueue, for every number of workers, masters and checks.  *)
EXTENDS CheckQueue, FiniteSetTheorems, TLAPS

\* The types of the variables other than the counters.
Typed ==
    /\ queue \subseteq Check
    /\ fAllOk \in BOOLEAN
    /\ control \in Master \cup {None}
    /\ pc \in [Thread -> Place]
    /\ batch \in [Thread -> SUBSET Check]
    /\ fOk \in [Thread -> BOOLEAN]
    /\ ret \in [Master -> BOOLEAN]
    /\ added \subseteq Check

\* A check is in one place: in the queue or in the batch of one thread, which
\* then evaluates it; and it was added under the present control.
Batches ==
    /\ \A t \in Thread : pc[t] = "working" <=> batch[t] # {}
    /\ \A t \in Thread : batch[t] \cap queue = {} /\ batch[t] \subseteq added
    /\ \A t, u \in Thread : t # u => batch[t] \cap batch[u] = {}
    /\ queue \subseteq added

\* The master that holds ControlMutex is the one that is not outside.
Owned == \A m \in Master : pc[m] # "out" <=> control = m

\* No master is between the constructor and the return of Wait.
Finished == \A m \in Master : pc[m] \in {"out", "done"}

\* The status speaks of the checks that are done: it is good exactly if they
\* are, and no thread keeps a bad status that the queue does not have.
Status ==
    /\ Finished => Outstanding = {} /\ fAllOk
    /\ ~Finished => /\ fAllOk => (added \ Outstanding) \cap Bad = {}
                    /\ ~fAllOk => added \cap Bad # {}
    /\ \A t \in Thread : pc[t] = "working" /\ ~fOk[t] => ~fAllOk

Inv == Typed /\ Batches /\ Owned /\ Status /\ TodoExact /\ ResultExact

-----------------------------------------------------------------------------
(* What is outstanding.                                                    *)

\* A check is outstanding if it is queued or in the batch of a thread.
LEMMA OutstandingMember ==
    \A x : x \in Outstanding <=> x \in queue \/ \E t \in Thread : x \in batch[t]
  BY DEF Outstanding

\* The checks that stay outstanding when thread t gives up its batch.
Others(t) == queue \cup UNION {batch[u] : u \in Thread \ {t}}

\* The same of what thread t leaves.
LEMMA OthersMember ==
    ASSUME NEW t \in Thread
    PROVE  \A x : x \in Others(t) <=> x \in queue \/ \E u \in Thread \ {t} : x \in batch[u]
  BY DEF Others

\* There are finitely many outstanding checks.
LEMMA OutstandingFinite ==
    ASSUME Typed
    PROVE  /\ Outstanding \subseteq Check
           /\ IsFiniteSet(Outstanding)
<1>1. Outstanding \subseteq Check
  BY OutstandingMember DEF Typed
<1>. QED
  BY <1>1, FS_Subset, CheckQueueAssumption

\* Giving up a batch takes its checks off what is outstanding, and no others.
LEMMA GiveUp ==
    ASSUME Typed, Batches, NEW t \in Thread
    PROVE  /\ Others(t) = Outstanding \ batch[t]
           /\ Cardinality(Others(t)) = Cardinality(Outstanding) - Cardinality(batch[t])
<1>1. Others(t) = Outstanding \ batch[t]
  BY OutstandingMember, OthersMember DEF Batches
<1>2. Outstanding \cap batch[t] = batch[t]
  BY OutstandingMember
<1>. QED
  BY <1>1, <1>2, OutstandingFinite, FS_Difference, SMTT(30)

-----------------------------------------------------------------------------
(* The counters of threads.                                                *)

\* The number of threads that are at one of the places in P, according to p.
Count(P, p) == Cardinality({t \in Thread : p[t] \in P})

InLoop == {"waiting", "woken", "working", "dead"}
Idling == {"waiting", "woken", "dead"}

ThreadCounters ==
    /\ pc \in [Thread -> Place]
    /\ nTotal = Count(InLoop, pc)
    /\ nIdle = Count(Idling, pc)

\* Thread t moves from p[t] to q[t].
LEMMA CountMoved ==
    ASSUME NEW P, NEW p \in [Thread -> Place], NEW q \in [Thread -> Place], NEW t \in Thread,
           \A u \in Thread \ {t} : q[u] = p[u]
    PROVE  /\ Count(P, p) \in Nat
           /\ Count(P, q) =
                Count(P, p) - (IF p[t] \in P THEN 1 ELSE 0) + (IF q[t] \in P THEN 1 ELSE 0)
<1>. DEFINE S == {u \in Thread : p[u] \in P}
            T == {u \in Thread : q[u] \in P}
<1>0. /\ t \in S <=> p[t] \in P
      /\ T = IF q[t] \in P THEN (S \ {t}) \cup {t} ELSE S \ {t}
  OBVIOUS
<1>1. IsFiniteSet(S)
  <2>1. IsFiniteSet(Thread)
    BY CheckQueueAssumption, FS_Union, Zenon DEF Thread
  <2>. QED
    BY <2>1, FS_Subset
<1>. HIDE DEF S, T
<1>2. /\ IsFiniteSet(S \ {t}) /\ Cardinality(S) \in Nat /\ Cardinality(S \ {t}) \in Nat
      /\ Cardinality(S \ {t}) = IF t \in S THEN Cardinality(S) - 1 ELSE Cardinality(S)
  BY <1>1, FS_RemoveElement, FS_CardinalityType
<1>3. Cardinality((S \ {t}) \cup {t}) = Cardinality(S \ {t}) + 1
  BY <1>2, FS_AddElement
<1>4. Cardinality(T) = Cardinality(S \ {t}) + (IF q[t] \in P THEN 1 ELSE 0)
  BY <1>0, <1>2, <1>3
<1>5. /\ Cardinality(S) \in Nat
      /\ Cardinality(T) =
           Cardinality(S) - (IF p[t] \in P THEN 1 ELSE 0) + (IF q[t] \in P THEN 1 ELSE 0)
  BY <1>0, <1>2, <1>4
<1>. QED
  BY <1>5 DEF Count, S, T

\* Waking up threads that wait moves none of them out of Loop.
LEMMA CountWoken ==
    ASSUME pc \in [Thread -> Place], NEW S \in SUBSET Waiting(Thread)
    PROVE  /\ WakeUp(S) \in [Thread -> Place]
           /\ Count(InLoop, WakeUp(S)) = Count(InLoop, pc)
           /\ Count(Idling, WakeUp(S)) = Count(Idling, pc)
           /\ \A t \in Thread : pc[t] # "waiting" => WakeUp(S)[t] = pc[t]
<1>1. WakeUp(S) \in [Thread -> Place]
  BY DEF WakeUp, Place
<1>2. \A t \in Thread : /\ WakeUp(S)[t] \in InLoop <=> pc[t] \in InLoop
                        /\ WakeUp(S)[t] \in Idling <=> pc[t] \in Idling
                        /\ pc[t] # "waiting" => WakeUp(S)[t] = pc[t]
  BY DEF WakeUp, Waiting, InLoop, Idling
<1>3. /\ {t \in Thread : WakeUp(S)[t] \in InLoop} = {t \in Thread : pc[t] \in InLoop}
      /\ {t \in Thread : WakeUp(S)[t] \in Idling} = {t \in Thread : pc[t] \in Idling}
  BY <1>2
<1>. QED
  BY <1>1, <1>2, <1>3, Zenon DEF Count

\* Where Decide leaves a thread, and what it does to the counters.
LEMMA DecideMoves ==
    ASSUME NEW t \in Thread, NEW ok, NEW todo, NEW total, NEW idle, NEW awake,
           Decide(t, ok, todo, total, idle, awake)
    PROVE  \E x \in {"done", "waiting", "working"} :
              /\ pc' = [awake EXCEPT ![t] = x]
              /\ nTotal' = IF x = "done" THEN total - 1 ELSE total
              /\ nIdle' = IF x = "waiting" THEN idle + 1 ELSE idle
  BY DEF Decide

\* At first no thread is in Loop.
LEMMA CountersInit == Init => ThreadCounters
<1>. SUFFICES ASSUME Init PROVE ThreadCounters
  OBVIOUS
<1>1. /\ {t \in Thread : pc[t] \in InLoop} = {}
      /\ {t \in Thread : pc[t] \in Idling} = {}
  BY DEF Init, InLoop, Idling
<1>2. pc \in [Thread -> Place]
  BY DEF Init, Place
<1>. QED
  BY <1>1, <1>2, FS_EmptySet DEF Init, ThreadCounters, Count

\* The counters follow the threads: one step per action that moves a thread.
LEMMA CountersStep == ThreadCounters /\ [Next]_vars => ThreadCounters'
<1>. SUFFICES ASSUME ThreadCounters, [Next]_vars PROVE ThreadCounters'
  OBVIOUS
<1>. /\ pc \in [Thread -> Place]
     /\ nTotal = Count(InLoop, pc) /\ nIdle = Count(Idling, pc)
  BY DEF ThreadCounters
<1>. \A m \in Master : m \in Thread
  BY DEF Thread
<1>1. ASSUME NEW t \in Thread, NEW x \in Place, pc' = [pc EXCEPT ![t] = x],
             UNCHANGED <<nTotal, nIdle>>,
             x \in InLoop <=> pc[t] \in InLoop, x \in Idling <=> pc[t] \in Idling
      PROVE  ThreadCounters'
  <2>1. pc' \in [Thread -> Place]
    BY <1>1
  <2>2. /\ pc'[t] = x /\ \A u \in Thread \ {t} : pc'[u] = pc[u]
        /\ Count(InLoop, pc) \in Nat /\ Count(Idling, pc) \in Nat
    BY <1>1, <2>1, CountMoved
  <2>3. Count(InLoop, pc') = Count(InLoop, pc)
             - (IF pc[t] \in InLoop THEN 1 ELSE 0) + (IF pc'[t] \in InLoop THEN 1 ELSE 0)
    BY <2>1, <2>2, CountMoved
  <2>4. Count(Idling, pc') = Count(Idling, pc)
             - (IF pc[t] \in Idling THEN 1 ELSE 0) + (IF pc'[t] \in Idling THEN 1 ELSE 0)
    BY <2>1, <2>2, CountMoved
  <2>5. Count(InLoop, pc') = Count(InLoop, pc) /\ Count(Idling, pc') = Count(Idling, pc)
    BY <1>1, <2>2, <2>3, <2>4
  <2>. QED
    BY <1>1, <2>1, <2>5 DEF ThreadCounters
<1>2. ASSUME NEW m \in Master, Construct(m) \/ Wait(m) \/ Destruct(m)
      PROVE  ThreadCounters'
  <2>1. /\ UNCHANGED <<nTotal, nIdle>>
        /\ pc[m] \in {"out", "adding", "done"}
        /\ \E x \in {"adding", "enter", "out"} : pc' = [pc EXCEPT ![m] = x]
    BY <1>2 DEF Construct, Wait, Destruct, queueVars
  <2>2. PICK x \in {"adding", "enter", "out"} : pc' = [pc EXCEPT ![m] = x]
    BY <2>1, Zenon
  <2>3. x \in Place /\ x \notin InLoop \cup Idling /\ pc[m] \notin InLoop \cup Idling
    BY <2>1, <2>2 DEF Place, InLoop, Idling
  <2>. QED
    BY <1>1, <2>1, <2>2, <2>3, Zenon
<1>3. ASSUME NEW m \in Master, NEW vChecks \in SUBSET (Check \ added), Add(m, vChecks)
      PROVE  ThreadCounters'
  <2>1. PICK S \in SUBSET Waiting(Worker) : pc' = WakeUp(S)
    BY <1>3 DEF Add, NotifyOne
  <2>2. S \in SUBSET Waiting(Thread)
    BY <2>1 DEF Waiting, Thread
  <2>3. nTotal' = nTotal /\ nIdle' = nIdle
    BY <1>3 DEF Add
  <2>. QED
    BY <2>1, <2>2, <2>3, CountWoken DEF ThreadCounters
<1>4. ASSUME NEW t \in Thread, NEW ok, NEW todo, NEW total, NEW idle,
             NEW awake \in [Thread -> Place], awake[t] = pc[t],
             Count(InLoop, awake) = nTotal, Count(Idling, awake) = nIdle,
             Decide(t, ok, todo, total, idle, awake),
             total = nTotal + (IF pc[t] \in InLoop THEN 0 ELSE 1),
             idle = nIdle - (IF pc[t] \in Idling THEN 1 ELSE 0)
      PROVE  ThreadCounters'
  <2>1. PICK x \in {"done", "waiting", "working"} :
              /\ pc' = [awake EXCEPT ![t] = x]
              /\ nTotal' = IF x = "done" THEN total - 1 ELSE total
              /\ nIdle' = IF x = "waiting" THEN idle + 1 ELSE idle
    BY <1>4, DecideMoves
  <2>2. /\ x \in Place
        /\ x \in InLoop <=> x # "done"
        /\ x \in Idling <=> x = "waiting"
    BY <2>1 DEF Place, InLoop, Idling
  <2>3. pc' \in [Thread -> Place]
    BY <2>1, <2>2
  <2>4. pc'[t] = x /\ \A u \in Thread \ {t} : pc'[u] = awake[u]
    BY <1>4, <2>1, <2>3
  <2>5. /\ Count(InLoop, awake) \in Nat
        /\ Count(InLoop, pc') = Count(InLoop, awake)
             - (IF awake[t] \in InLoop THEN 1 ELSE 0) + (IF pc'[t] \in InLoop THEN 1 ELSE 0)
    BY <1>4, <2>3, <2>4, CountMoved
  <2>6. /\ Count(Idling, awake) \in Nat
        /\ Count(Idling, pc') = Count(Idling, awake)
             - (IF awake[t] \in Idling THEN 1 ELSE 0) + (IF pc'[t] \in Idling THEN 1 ELSE 0)
    BY <1>4, <2>3, <2>4, CountMoved
  <2>7. nTotal' = Count(InLoop, pc')
    BY <1>4, <2>1, <2>2, <2>4, <2>5
  <2>8. nIdle' = Count(Idling, pc')
    BY <1>4, <2>1, <2>2, <2>4, <2>6
  <2>. QED
    BY <2>3, <2>7, <2>8 DEF ThreadCounters
<1>. nTotal \in Nat /\ nIdle \in Nat
  <2>1. IsFiniteSet(Thread)
    BY CheckQueueAssumption, FS_Union, Zenon DEF Thread
  <2>. QED
    BY <2>1, FS_Subset, FS_CardinalityType DEF Count
<1>5. ASSUME NEW t \in Thread, Enter(t)
      PROVE  ThreadCounters'
  <2>1. Decide(t, fAllOk, nTodo, nTotal + 1, nIdle, pc) /\ pc[t] \notin InLoop \cup Idling
    BY <1>5 DEF Enter, InLoop, Idling
  <2>. QED
    BY <1>4, <2>1
<1>6. ASSUME NEW t \in Thread, CleanUp(t)
      PROVE  ThreadCounters'
  <2>1. PICK S \in Told(t, nTodo') :
           Decide(t, fAllOk /\ Evaluated(t), nTodo', nTotal, nIdle, WakeUp(S))
    BY <1>6 DEF CleanUp
  <2>2. S \in SUBSET Waiting(Thread)
    BY <2>1 DEF Told, NotifyOne, Waiting, Thread
  <2>3. pc[t] = "working"
    BY <1>6 DEF CleanUp
  <2>4. pc[t] \in InLoop /\ pc[t] \notin Idling /\ WakeUp(S)[t] = pc[t]
    BY <2>2, <2>3, CountWoken DEF InLoop, Idling
  <2>. QED
    BY <1>4, <2>1, <2>2, <2>4, CountWoken
<1>7. ASSUME NEW t \in Thread, Resume(t)
      PROVE  ThreadCounters'
  <2>1. Decide(t, fAllOk, nTodo, nTotal, nIdle - 1, pc) /\ pc[t] \in InLoop \cap Idling
    BY <1>7 DEF Resume, InLoop, Idling
  <2>. QED
    BY <1>4, <2>1
<1>8. ASSUME NEW t \in Thread, Spurious(t) \/ Interrupted(t)
      PROVE  ThreadCounters'
  <2>1. /\ UNCHANGED <<nTotal, nIdle>>
        /\ pc[t] \in {"waiting", "woken"}
        /\ \E x \in {"woken", "dead"} : pc' = [pc EXCEPT ![t] = x]
    BY <1>8 DEF Spurious, Interrupted, queueVars
  <2>2. PICK x \in {"woken", "dead"} : pc' = [pc EXCEPT ![t] = x]
    BY <2>1, Zenon
  <2>3. x \in Place /\ x \in InLoop \cap Idling /\ pc[t] \in InLoop \cap Idling
    BY <2>1, <2>2 DEF Place, InLoop, Idling
  <2>. QED
    BY <1>1, <2>1, <2>2, <2>3, Zenon
<1>9. CASE UNCHANGED vars
  BY <1>9 DEF vars, queueVars, ThreadCounters
<1>. QED
  BY <1>2, <1>3, <1>5, <1>6, <1>7, <1>8, <1>9 DEF Next, LoopStep

-----------------------------------------------------------------------------
(* Decide moves checks from the queue to a batch, and nothing else.        *)

\* nNow is at least one.
LEMMA BatchNotEmpty ==
    ASSUME NEW n \in Nat, NEW total \in Nat, NEW idle \in Nat
    PROVE  Max(1, Min(nBatchSize, n \div (total + idle + 1))) > 0
<1>1. n \div (total + idle + 1) \in Int
  OBVIOUS
<1>. QED
  BY <1>1, CheckQueueAssumption DEF Max, Min

\* The three ways out of Decide, without the counters of threads.
Returns(t, ok, awake) ==
    /\ t \in Master /\ queue = {}
    /\ ret' = [ret EXCEPT ![t] = ok] /\ fAllOk' = TRUE
    /\ pc' = [awake EXCEPT ![t] = "done"]
    /\ batch' = [batch EXCEPT ![t] = {}]
    /\ queue' = queue /\ fOk' = fOk

Waits(t, ok, awake) ==
    /\ queue = {}
    /\ ret' = ret /\ fAllOk' = ok
    /\ pc' = [awake EXCEPT ![t] = "waiting"]
    /\ batch' = [batch EXCEPT ![t] = {}]
    /\ queue' = queue /\ fOk' = fOk

Takes(t, ok, awake, S) ==
    /\ S # {} /\ S \subseteq queue
    /\ ret' = ret /\ fAllOk' = ok
    /\ pc' = [awake EXCEPT ![t] = "working"]
    /\ batch' = [batch EXCEPT ![t] = S]
    /\ queue' = queue \ S /\ fOk' = [fOk EXCEPT ![t] = ok]

\* The three ways out of Decide.
LEMMA DecideCases ==
    ASSUME Typed, NEW t \in Thread, NEW ok, NEW todo, NEW total \in Nat, NEW idle \in Nat,
           NEW awake, Decide(t, ok, todo, total, idle, awake)
    PROVE  \/ todo = 0 /\ Returns(t, ok, awake)
           \/ Waits(t, ok, awake)
           \/ \E S \in SUBSET queue : Takes(t, ok, awake, S)
<1>1. CASE queue = {}
  BY <1>1 DEF Decide, MayReturn, Returns, Waits
<1>2. CASE queue # {}
  <2>1. PICK S \in SUBSET queue :
             /\ Cardinality(S) =
                   Max(1, Min(nBatchSize, Cardinality(queue) \div (total + idle + 1)))
             /\ queue' = queue \ S
             /\ batch' = [batch EXCEPT ![t] = S]
             /\ fOk' = [fOk EXCEPT ![t] = ok]
             /\ fAllOk' = ok
             /\ pc' = [awake EXCEPT ![t] = "working"]
             /\ UNCHANGED ret
    BY <1>2 DEF Decide
  <2>2. Cardinality(queue) \in Nat
    BY FS_Subset, FS_CardinalityType, CheckQueueAssumption DEF Typed
  <2>3. Cardinality(S) # 0
    BY <2>1, <2>2, BatchNotEmpty
  <2>4. S # {}
    BY <2>3, FS_EmptySet
  <2>. QED
    BY <2>1, <2>4, Zenon DEF Takes
<1>. QED
  BY <1>1, <1>2

\* Threads may have been woken up, and are otherwise where they were.
Stirred(awake) ==
    /\ awake \in [Thread -> Place]
    /\ \A u \in Thread : IF pc[u] = "waiting" THEN awake[u] \in {"waiting", "woken"}
                                              ELSE awake[u] = pc[u]

\* Wherever Decide ends, the checks of thread t are gone from what is
\* outstanding, and every other check is still in one place.
LEMMA DecideKeeps ==
    ASSUME Typed, Batches, NEW t \in Thread, NEW ok \in BOOLEAN, NEW awake, Stirred(awake),
           \/ Returns(t, ok, awake)
           \/ Waits(t, ok, awake)
           \/ \E S \in SUBSET queue : Takes(t, ok, awake, S),
           control' = control, added' = added
    PROVE  /\ Typed' /\ Batches'
           /\ Outstanding' = Others(t)
<1>. DEFINE Ends(x, S) == /\ pc' = [awake EXCEPT ![t] = x]
                          /\ batch' = [batch EXCEPT ![t] = S]
                          /\ queue' = queue \ S
                          /\ x = "working" <=> S # {}
<1>1. PICK x \in {"done", "waiting", "working"}, S \in SUBSET queue : Ends(x, S)
  <2>1. CASE Returns(t, ok, awake)
    <3>1. Ends("done", {})
      BY <2>1 DEF Returns
    <3>. QED
      BY <3>1, Zenon
  <2>2. CASE Waits(t, ok, awake)
    <3>1. Ends("waiting", {})
      BY <2>2 DEF Waits
    <3>. QED
      BY <3>1, Zenon
  <2>3. ASSUME NEW S \in SUBSET queue, Takes(t, ok, awake, S)
        PROVE  \E x \in {"done", "waiting", "working"} : Ends(x, S)
    <3>1. Ends("working", S)
      BY <2>3 DEF Takes
    <3>. QED
      BY <3>1
  <2>. QED
    BY <2>1, <2>2, <2>3, Zenon
<1>2. Typed'
  <2>1. queue' \subseteq Check /\ batch' \in [Thread -> SUBSET Check]
    BY <1>1 DEF Typed
  <2>2. pc' \in [Thread -> Place]
    BY <1>1 DEF Stirred, Place
  <2>3. fAllOk' \in BOOLEAN /\ fOk' \in [Thread -> BOOLEAN] /\ ret' \in [Master -> BOOLEAN]
    BY Zenon DEF Typed, Returns, Waits, Takes
  <2>. QED
    BY <2>1, <2>2, <2>3 DEF Typed
<1>3. /\ \A u \in Thread \ {t} : batch'[u] = batch[u]
      /\ batch'[t] = S
  BY <1>1 DEF Typed
<1>4. Batches'
  <2>1. \A u \in Thread : pc'[u] = "working" <=> batch'[u] # {}
    BY <1>1, <1>3 DEF Stirred, Batches, Typed
  <2>2. \A u \in Thread : batch'[u] \cap queue' = {} /\ batch'[u] \subseteq added'
    BY <1>1, <1>3 DEF Batches
  <2>3. \A u, w \in Thread : u # w => batch'[u] \cap batch'[w] = {}
    BY <1>1, <1>3 DEF Batches
  <2>4. queue' \subseteq added'
    BY <1>1 DEF Batches
  <2>. QED
    BY <2>1, <2>2, <2>3, <2>4 DEF Batches
<1>5. Outstanding' = Others(t)
  <2>1. \A y : y \in Outstanding' <=> y \in queue' \/ \E u \in Thread : y \in batch'[u]
    BY DEF Outstanding
  <2>. QED
    BY <1>1, <1>3, <2>1, OthersMember, Zenon
<1>. QED
  BY <1>2, <1>4, <1>5

-----------------------------------------------------------------------------
(* Every step keeps Inv.                                                   *)

\* A turn of Loop: thread t gives up a batch (an empty one unless it was
\* working) and merges the result of it into the status.
LEMMA LoopKeeps ==
    ASSUME Inv, NEW t \in Thread, NEW ok \in BOOLEAN, NEW todo,
           NEW total \in Nat, NEW idle \in Nat, NEW awake, Stirred(awake),
           Decide(t, ok, todo, total, idle, awake),
           pc[t] \in {"enter", "working", "woken"},
           nTodo' = todo, todo = nTodo - Cardinality(batch[t]),
           ok <=> fAllOk /\ batch[t] \cap Bad = {},
           control' = control, added' = added
    PROVE  Inv'
<1>0. Typed /\ Batches
  BY DEF Inv
<1>1. \/ todo = 0 /\ Returns(t, ok, awake)
      \/ Waits(t, ok, awake)
      \/ \E S \in SUBSET queue : Takes(t, ok, awake, S)
  BY <1>0, DecideCases
<1>2. Typed' /\ Batches' /\ Outstanding' = Others(t)
  BY <1>0, <1>1, DecideKeeps
<1>3. /\ Others(t) = Outstanding \ batch[t]
      /\ todo = Cardinality(Others(t))
  BY <1>0, GiveUp DEF Inv, TodoExact
<1>4. TodoExact'
  BY <1>2, <1>3 DEF TodoExact
<1>5. /\ Outstanding \subseteq added
      /\ batch[t] \subseteq Outstanding
  BY OutstandingMember DEF Inv, Batches
<1>6. \A m \in Master : m \in Thread
  BY DEF Thread
<1>7. /\ \A m \in Master \ {t} : pc'[m] = "out" <=> pc[m] = "out"
      /\ \A m \in Master \ {t} : pc'[m] = "done" <=> pc[m] = "done"
      /\ pc'[t] \in {"done", "waiting", "working"}
  BY <1>1, <1>6 DEF Returns, Waits, Takes, Stirred
<1>8. Owned'
  BY <1>6, <1>7 DEF Inv, Owned
<1>9. t \in Master => \A m \in Master \ {t} : pc[m] = "out"
  BY DEF Inv, Owned
<1>10. \A u \in Thread : pc'[u] = "working" /\ ~fOk'[u] => ~fAllOk'
  <2>1. CASE todo = 0 /\ Returns(t, ok, awake)
    <3>1. IsFiniteSet(Others(t))
      BY <1>0, <1>3, OutstandingFinite, FS_Difference, ZenonT(30)
    <3>2. Outstanding' = {}
      BY <1>2, <1>3, <2>1, <3>1, FS_EmptySet, Zenon
    <3>3. \A u \in Thread : batch'[u] = {}
      BY <3>2 DEF Outstanding
    <3>. QED
      BY <1>2, <3>3 DEF Batches
  <2>2. CASE Waits(t, ok, awake)
    BY <2>2 DEF Waits, Stirred, Inv, Status, Typed
  <2>3. CASE \E S \in SUBSET queue : Takes(t, ok, awake, S)
    BY <2>3 DEF Takes, Stirred, Inv, Status, Typed
  <2>. QED
    BY <1>1, <2>1, <2>2, <2>3
<1>11. CASE todo = 0 /\ Returns(t, ok, awake)
  <2>1. t \in Master /\ fAllOk' = TRUE /\ pc'[t] = "done" /\ ret'[t] = ok
    BY <1>11 DEF Returns, Stirred, Inv, Typed
  <2>2. Others(t) = {}
    <3>1. IsFiniteSet(Others(t))
      BY <1>3, OutstandingFinite, FS_Difference, ZenonT(30) DEF Inv
    <3>. QED
      BY <1>3, <1>11, <3>1, FS_EmptySet, Zenon
  <2>3. ~Finished
    BY <2>1 DEF Finished
  <2>4. ok <=> added \cap Bad = {}
    BY <1>3, <1>5, <2>2, <2>3 DEF Inv, Status
  <2>5. Finished'
    BY <1>7, <1>9, <2>1 DEF Finished
  <2>6. Status'
    BY <1>2, <1>10, <2>1, <2>2, <2>5 DEF Status
  <2>7. ResultExact'
    BY <1>7, <1>9, <2>1, <2>4 DEF ResultExact
  <2>. QED
    BY <1>2, <1>4, <1>8, <2>6, <2>7 DEF Inv
<1>12. CASE \/ Waits(t, ok, awake)
            \/ \E S \in SUBSET queue : Takes(t, ok, awake, S)
  <2>1. fAllOk' = ok /\ ret' = ret /\ pc'[t] \in {"waiting", "working"}
    BY <1>12 DEF Waits, Takes, Stirred
  <2>2. Finished' <=> Finished
    BY <1>7, <2>1 DEF Finished
  <2>3. ASSUME Finished PROVE Status'
    BY <1>2, <1>3, <1>5, <1>10, <2>1, <2>2, <2>3 DEF Inv, Status
  <2>4. ASSUME ~Finished PROVE Status'
    <3>1. ok => (added \ Others(t)) \cap Bad = {}
      BY <1>3, <2>4 DEF Inv, Status
    <3>2. ~ok => added \cap Bad # {}
      BY <1>5, <2>4 DEF Inv, Status
    <3>. QED
      BY <1>2, <1>10, <2>1, <2>2, <2>4, <3>1, <3>2 DEF Status
  <2>5. Status'
    BY <2>3, <2>4
  <2>6. ResultExact'
    BY <1>7, <2>1 DEF Inv, ResultExact
  <2>. QED
    BY <1>2, <1>4, <1>8, <2>5, <2>6 DEF Inv
<1>. QED
  BY <1>1, <1>11, <1>12

\* The invariant holds before any thread has entered Loop.
LEMMA InvInit == Init => Inv
<1>. SUFFICES ASSUME Init PROVE Inv
  OBVIOUS
<1>1. Typed
  BY DEF Init, Typed, Place
<1>2. Outstanding = {}
  BY DEF Init, Outstanding
<1>3. /\ \A t \in Thread : pc[t] # "working" /\ batch[t] = {}
      /\ \A m \in Master : pc[m] = "out"
  BY CheckQueueAssumption DEF Init, Thread
<1>4. Batches
  BY <1>3 DEF Init, Batches
<1>5. Owned /\ Finished
  BY <1>3, CheckQueueAssumption DEF Init, Owned, Finished
<1>6. Status /\ ResultExact
  BY <1>2, <1>3, <1>5 DEF Init, Status, ResultExact
<1>7. TodoExact
  BY <1>2, FS_EmptySet DEF Init, TodoExact
<1>. QED
  BY <1>1, <1>4, <1>5, <1>6, <1>7 DEF Inv

\* A step that only moves a thread outside the queue, or among those that wait.
LEMMA MoveKeeps ==
    ASSUME Inv, NEW t \in Thread, NEW x \in Place, pc' = [pc EXCEPT ![t] = x],
           pc[t] # "working", x # "working", queue' = queue, batch' = batch, fAllOk' = fAllOk,
           nTodo' = nTodo, ret' = ret, added' = added,
           control' \in Master \cup {None}, Owned',
           \A u \in Thread \ {t} : fOk'[u] = fOk[u],
           fOk' \in [Thread -> BOOLEAN],
           Finished' <=> Finished, x # "done"
    PROVE  Inv'
<1>1. Typed'
  BY Zenon DEF Inv, Typed
<1>2. Batches'
  BY DEF Inv, Batches, Typed
<1>3. Outstanding' = Outstanding
  BY DEF Outstanding
<1>4. \A u \in Thread : pc'[u] = "working" => pc[u] = "working" /\ fOk'[u] = fOk[u]
  BY DEF Inv, Typed
<1>5. Status'
  BY <1>3, <1>4 DEF Inv, Status
<1>6. \A m \in Master : pc'[m] = "done" => pc[m] = "done"
  BY DEF Inv, Typed, Thread
<1>7. ResultExact'
  BY <1>6 DEF Inv, ResultExact
<1>8. TodoExact'
  BY <1>3 DEF Inv, TodoExact
<1>. QED
  BY <1>1, <1>2, <1>5, <1>7, <1>8 DEF Inv

\* A new control finds the queue as the last one left it.
LEMMA ConstructKeeps ==
    ASSUME Inv, NEW m \in Master, Construct(m)
    PROVE  Inv'
<1>. USE DEF Construct, queueVars
<1>. m \in Thread /\ m # None /\ "adding" \in Place
  BY CheckQueueAssumption DEF Thread, Place
<1>1. Finished /\ \A k \in Master : pc[k] = "out"
  BY CheckQueueAssumption DEF Inv, Owned, Finished
<1>2. Outstanding = {} /\ fAllOk /\ Outstanding' = Outstanding
  BY <1>1 DEF Inv, Status, Outstanding
<1>3. queue = {} /\ \A t \in Thread : batch[t] = {} /\ pc[t] # "working"
  BY <1>2 DEF Outstanding, Inv, Batches
<1>4. pc' \in [Thread -> Place] /\ pc'[m] = "adding" /\ \A t \in Thread \ {m} : pc'[t] = pc[t]
  BY DEF Inv, Typed
<1>5. Typed'
  BY <1>4 DEF Inv, Typed
<1>6. Batches'
  BY <1>3, <1>4 DEF Batches
<1>7. Owned'
  BY <1>1, <1>4 DEF Owned, Thread
<1>8. ~Finished'
  BY <1>4 DEF Finished
<1>9. Status'
  BY <1>2, <1>3, <1>4, <1>8 DEF Status
<1>10. ResultExact'
  BY <1>1, <1>4 DEF ResultExact, Thread
<1>11. TodoExact'
  BY <1>2 DEF Inv, TodoExact
<1>. QED
  BY <1>5, <1>6, <1>7, <1>9, <1>10, <1>11 DEF Inv

\* New checks are in no other place, so Add counts each of them once.
LEMMA AddKeeps ==
    ASSUME Inv, NEW m \in Master, NEW vChecks \in SUBSET (Check \ added), Add(m, vChecks)
    PROVE  Inv'
<1>0. /\ pc[m] = "adding"
      /\ queue' = queue \cup vChecks /\ added' = added \cup vChecks
      /\ nTodo' = nTodo + Cardinality(vChecks)
      /\ UNCHANGED <<fAllOk, control, batch, fOk, ret>>
  BY DEF Add
<1>. m \in Thread /\ \A k \in Master : k \in Thread
  BY DEF Thread
<1>1. PICK S \in SUBSET Waiting(Worker) : pc' = WakeUp(S)
  BY DEF Add, NotifyOne
<1>2. /\ pc' \in [Thread -> Place]
      /\ \A t \in Thread : IF pc[t] = "waiting" THEN pc'[t] \in {"waiting", "woken"}
                                                ELSE pc'[t] = pc[t]
  BY <1>1 DEF WakeUp, Waiting, Inv, Typed, Place
<1>3. Outstanding' = Outstanding \cup vChecks
  BY <1>0 DEF Outstanding
<1>4. Outstanding \subseteq added
  BY OutstandingMember DEF Inv, Batches
<1>5. Typed'
  BY <1>0, <1>2 DEF Inv, Typed
<1>6. Batches'
  <2>1. \A t \in Thread : pc'[t] = "working" <=> batch'[t] # {}
    BY <1>0, <1>2 DEF Inv, Batches
  <2>. QED
    BY <1>0, <2>1 DEF Inv, Batches
<1>7. Owned'
  BY <1>0, <1>2 DEF Inv, Owned
<1>8. ~Finished /\ ~Finished'
  BY <1>0, <1>2 DEF Finished
<1>9. Status'
  BY <1>0, <1>2, <1>3, <1>4, <1>8 DEF Inv, Status
<1>10. ResultExact'
  BY <1>0, <1>2 DEF Inv, Owned, ResultExact
<1>11. TodoExact'
  <2>1. IsFiniteSet(vChecks) /\ IsFiniteSet(Outstanding)
    BY OutstandingFinite, FS_Subset, CheckQueueAssumption DEF Inv
  <2>2. Outstanding \cap vChecks = {}
    BY <1>4
  <2>3. /\ Cardinality(Outstanding) \in Nat /\ Cardinality(vChecks) \in Nat
        /\ Cardinality(Outstanding \cap vChecks) = 0
    BY <2>1, <2>2, FS_CardinalityType, FS_EmptySet, Zenon
  <2>4. Cardinality(Outstanding \cup vChecks) =
          Cardinality(Outstanding) + Cardinality(vChecks) - Cardinality(Outstanding \cap vChecks)
    BY <2>1, FS_Union
  <2>. QED
    BY <1>0, <1>3, <2>3, <2>4 DEF Inv, TodoExact
<1>. QED
  BY <1>5, <1>6, <1>7, <1>9, <1>10, <1>11 DEF Inv

\* A thread that is woken up is counted.
LEMMA IdlePositive ==
    ASSUME ThreadCounters, NEW t \in Thread, pc[t] = "woken"
    PROVE  nIdle - 1 \in Nat
<1>. DEFINE q == [pc EXCEPT ![t] = "out"]
<1>1. q \in [Thread -> Place] /\ q[t] = "out" /\ \A u \in Thread \ {t} : q[u] = pc[u]
  BY DEF ThreadCounters, Place
<1>. HIDE DEF q
<1>2. /\ Count(Idling, pc) \in Nat
      /\ Count(Idling, q) = Count(Idling, pc)
             - (IF pc[t] \in Idling THEN 1 ELSE 0) + (IF q[t] \in Idling THEN 1 ELSE 0)
      /\ Count(Idling, q) \in Nat
  BY <1>1, CountMoved DEF ThreadCounters
<1>. QED
  BY <1>1, <1>2 DEF ThreadCounters, Idling

\* The counters of threads are natural numbers.
LEMMA CountersNat ==
    ASSUME ThreadCounters
    PROVE  nTotal \in Nat /\ nIdle \in Nat
<1>1. IsFiniteSet(Thread)
  BY CheckQueueAssumption, FS_Union, Zenon DEF Thread
<1>2. \A P : IsFiniteSet({t \in Thread : pc[t] \in P})
  BY <1>1, FS_Subset
<1>3. Count(InLoop, pc) \in Nat /\ Count(Idling, pc) \in Nat
  BY <1>2, FS_CardinalityType, Zenon DEF Count
<1>. QED
  BY <1>3 DEF ThreadCounters

\* Every action keeps the invariant.
LEMMA InvStep == Inv /\ ThreadCounters /\ [Next]_vars => Inv'
<1>. SUFFICES ASSUME Inv, ThreadCounters, [Next]_vars PROVE Inv'
  OBVIOUS
<1>. \A m \in Master : m \in Thread /\ m \notin Worker /\ m # None
  BY CheckQueueAssumption DEF Thread
<1>0. /\ Stirred(pc)
      /\ nTodo \in Nat /\ nTotal \in Nat /\ nIdle \in Nat
      /\ fAllOk \in BOOLEAN
  <2>1. Typed /\ TodoExact
    BY DEF Inv
  <2>2. nTodo \in Nat
    BY <2>1, OutstandingFinite, FS_CardinalityType DEF TodoExact
  <2>. QED
    BY <2>1, <2>2, CountersNat DEF Stirred, Typed
<1>1. ASSUME NEW m \in Master, Construct(m) PROVE Inv'
  BY <1>1, ConstructKeeps
<1>2. ASSUME NEW m \in Master, NEW vChecks \in SUBSET (Check \ added), Add(m, vChecks)
      PROVE  Inv'
  BY <1>2, AddKeeps
<1>3. ASSUME NEW m \in Master, Wait(m) PROVE Inv'
  <2>. USE <1>3 DEF Wait, queueVars
  <2>1. pc' \in [Thread -> Place] /\ pc'[m] = "enter" /\ \A t \in Thread \ {m} : pc'[t] = pc[t]
    BY DEF Inv, Typed, Place
  <2>2. ~Finished /\ ~Finished'
    BY <2>1 DEF Finished
  <2>3. Owned'
    BY <2>1 DEF Inv, Owned
  <2>4. fOk' \in [Thread -> BOOLEAN] /\ \A u \in Thread \ {m} : fOk'[u] = fOk[u]
    BY DEF Inv, Typed
  <2>5. control' \in Master \cup {None} /\ "enter" \in Place
    BY DEF Inv, Typed, Place
  <2>. QED
    BY <2>2, <2>3, <2>4, <2>5, MoveKeeps, Zenon
<1>4. ASSUME NEW m \in Master, Destruct(m) PROVE Inv'
  <2>. USE <1>4 DEF Destruct, queueVars
  <2>1. pc' \in [Thread -> Place] /\ pc'[m] = "out" /\ \A t \in Thread \ {m} : pc'[t] = pc[t]
    BY DEF Inv, Typed, Place
  <2>2. \A k \in Master : k # m => pc[k] = "out"
    BY DEF Inv, Owned
  <2>3. Finished /\ Finished'
    BY <2>1, <2>2 DEF Finished
  <2>4. Owned'
    BY <2>1, <2>2 DEF Owned
  <2>5. /\ fOk' \in [Thread -> BOOLEAN] /\ fOk' = fOk
        /\ control' \in Master \cup {None} /\ "out" \in Place
    BY DEF Inv, Typed, Place
  <2>. QED
    BY <2>3, <2>4, <2>5, MoveKeeps, Zenon
<1>5. ASSUME NEW t \in Thread, Enter(t) PROVE Inv'
  <2>1. batch[t] = {}
    BY <1>5 DEF Enter, Inv, Batches
  <2>2. nTodo = nTodo - Cardinality(batch[t])
    BY <1>0, <2>1, FS_EmptySet
  <2>3. /\ Decide(t, fAllOk, nTodo, nTotal + 1, nIdle, pc) /\ nTotal + 1 \in Nat
        /\ pc[t] = "enter" /\ nTodo' = nTodo /\ control' = control /\ added' = added
    BY <1>0, <1>5 DEF Enter
  <2>. QED
    BY <1>0, <2>1, <2>2, <2>3, LoopKeeps, Zenon
<1>6. ASSUME NEW t \in Thread, Resume(t) PROVE Inv'
  <2>1. batch[t] = {} /\ nIdle - 1 \in Nat
    BY <1>6, IdlePositive DEF Resume, Inv, Batches
  <2>2. nTodo = nTodo - Cardinality(batch[t])
    BY <1>0, <2>1, FS_EmptySet
  <2>3. /\ Decide(t, fAllOk, nTodo, nTotal, nIdle - 1, pc)
        /\ pc[t] = "woken" /\ nTodo' = nTodo /\ control' = control /\ added' = added
    BY <1>6 DEF Resume
  <2>. QED
    BY <1>0, <2>1, <2>2, <2>3, LoopKeeps, Zenon
<1>7. ASSUME NEW t \in Thread, CleanUp(t) PROVE Inv'
  <2>. DEFINE ok == fAllOk /\ Evaluated(t)
  <2>1. PICK S \in Told(t, nTodo') :
          Decide(t, ok, nTodo', nTotal, nIdle, WakeUp(S))
    BY <1>7 DEF CleanUp
  <2>2. /\ pc[t] = "working" /\ nTodo' = nTodo - Cardinality(batch[t])
        /\ control' = control /\ added' = added
    BY <1>7 DEF CleanUp, Done
  <2>3. Stirred(WakeUp(S))
    <3>1. S \subseteq Waiting(Thread)
      BY DEF Told, NotifyOne, Waiting, Thread
    <3>. QED
      BY <3>1 DEF Stirred, WakeUp, Waiting, Inv, Typed, Place
  <2>4. ok \in BOOLEAN /\ (ok <=> fAllOk /\ batch[t] \cap Bad = {})
    BY <2>2 DEF Evaluated, Inv, Status
  <2>. HIDE DEF ok
  <2>. QED
    BY <1>0, <2>1, <2>2, <2>3, <2>4, LoopKeeps, Zenon
<1>8. ASSUME NEW t \in Thread, NEW x \in {"woken", "dead"}, pc[t] \in {"waiting", "woken"},
             x = "dead" => t \in Worker, pc' = [pc EXCEPT ![t] = x],
             UNCHANGED <<queueVars, control, batch, fOk, ret, added>>
      PROVE  Inv'
  <2>. USE <1>8 DEF queueVars
  <2>1. pc' \in [Thread -> Place] /\ pc'[t] = x /\ \A u \in Thread \ {t} : pc'[u] = pc[u]
    BY DEF Inv, Typed, Place
  <2>2. \A m \in Master : pc'[m] \in {"out", "done"} <=> pc[m] \in {"out", "done"}
    BY <2>1
  <2>3. Finished' <=> Finished
    BY <2>2 DEF Finished
  <2>4. Owned'
    BY <2>1 DEF Inv, Owned
  <2>5. fOk' \in [Thread -> BOOLEAN] /\ control' \in Master \cup {None} /\ x \in Place
    BY DEF Inv, Typed, Place
  <2>. QED
    BY <2>3, <2>4, <2>5, MoveKeeps, ZenonT(30)
<1>9. ASSUME NEW t \in Thread, Spurious(t) \/ Interrupted(t) PROVE Inv'
  BY <1>8, <1>9 DEF Spurious, Interrupted
<1>10. ASSUME UNCHANGED vars PROVE Inv'
  BY <1>10 DEF vars, queueVars, Inv, Typed, Batches, Owned, Finished, Status, TodoExact,
     ResultExact, Outstanding
<1>. QED
  BY <1>1, <1>2, <1>3, <1>4, <1>5, <1>6, <1>7, <1>9, <1>10 DEF Next, LoopStep

\* The invariant holds in every reachable state.
LEMMA Invariance == Spec => [](Inv /\ ThreadCounters)
<1>1. Init => Inv /\ ThreadCounters
  BY InvInit, CountersInit
<1>2. Inv /\ ThreadCounters /\ [Next]_vars => (Inv /\ ThreadCounters)'
  BY InvStep, CountersStep
<1>. QED
  BY <1>1, <1>2, PTL DEF Spec

-----------------------------------------------------------------------------
(* The theorems.                                                           *)

\* The counters of CCheckQueue are exact in every reachable state: no check is
\* lost or counted twice between Add and the clean-up of Loop, and no thread
\* leaves or waits uncounted.
THEOREM CountersCorrect == Spec => []CountersExact
<1>1. Inv /\ ThreadCounters => CountersExact
  BY DEF Inv, ThreadCounters, Count, InLoop, Idling, CountersExact
<1>. QED
  BY <1>1, Invariance, PTL

\* When CCheckQueueControl has left ControlMutex, its checks are done and the
\* queue is clean, however the threads of Loop interleaved.
THEOREM FinishedCorrect == Spec => []FinishedBeforeContinuing
<1>1. ASSUME Inv PROVE FinishedBeforeContinuing
  <2>. SUFFICES ASSUME control = None PROVE Outstanding = {} /\ nTodo = 0 /\ fAllOk
    BY DEF FinishedBeforeContinuing
  <2>1. Finished
    BY <1>1, CheckQueueAssumption DEF Inv, Owned, Finished
  <2>2. Outstanding = {} /\ fAllOk
    BY <1>1, <2>1 DEF Inv, Status
  <2>. QED
    BY <1>1, <2>2, FS_EmptySet DEF Inv, TodoExact
<1>. QED
  BY <1>1, Invariance, PTL

\* Wait returns whether all checks of the control are good, for any division
\* of the checks into batches.
THEOREM ResultCorrect == Spec => []ResultExact
<1>1. Inv => ResultExact
  BY DEF Inv
<1>. QED
  BY <1>1, Invariance, PTL

\* The types of the state of the queue; the unsigned counters do not wrap.
THEOREM TypeCorrect == Spec => []TypeOK
<1>1. ASSUME Inv, ThreadCounters PROVE TypeOK
  <2>1. Typed /\ TodoExact
    BY <1>1 DEF Inv
  <2>2. nTodo \in Nat
    BY <2>1, OutstandingFinite, FS_CardinalityType DEF TodoExact
  <2>. QED
    BY <1>1, <2>1, <2>2, CountersNat DEF Typed, TypeOK
<1>. QED
  BY <1>1, Invariance, PTL
=============================================================================
