------------------------- MODULE ThreadPoolTheorems -------------------------
(***************************************************************************)
(* Proofs about the thread pool alone, for every number of workers and     *)
(* tasks: it keeps its types, it is work-conserving, and stop(true) runs   *)
(* what was pushed before it.                                              *)
(***************************************************************************)
EXTENDS ThreadPool, FiniteSetTheorems, TLAPS

\* The pool as constructed has its types.
LEMMA PoolTypeInit == PoolInit => PoolTypeOK
<1> SUFFICES ASSUME PoolInit PROVE PoolTypeOK
  OBVIOUS
<1> USE NoneAssumption, BoundsAssumption
    DEF PoolInit, Poppers, WorkerPC, ControllerPC, Calls, InMonitor
<1>1. fate \in [Tasks -> Fates] /\ seen \in [Poppers -> SUBSET Tasks]
  BY DEF Fates
<1>2. pc \in [Poppers -> WorkerPC \cup ControllerPC] /\ pc[Controller] \in ControllerPC
  OBVIOUS
<1>3. \A w \in Workers : pc[w] \in {"pop", "unborn"}
  OBVIOUS
<1>4. \A w \in threads : pc[w] # "unborn"
  OBVIOUS
<1>5. \A w \in Workers : pc[w] \in WorkerPC /\ (pc[w] \in InMonitor <=> mutex = w)
  BY <1>3
<1>6. func \in [Workers -> Tasks \cup {None}] /\ \A w \in Workers : pc[w] = "run" <=> func[w] # None
  BY <1>3
<1>7. /\ pushing \subseteq Tasks /\ threads \subseteq Workers /\ flagged \subseteq Workers
      /\ early \subseteq Tasks
  OBVIOUS
<1>8. calls \in 0..MaxCalls /\ spurious \in 0..MaxSpurious
  OBVIOUS
<1>9. /\ isDone \in BOOLEAN /\ isStop \in BOOLEAN /\ blinded \in BOOLEAN
      /\ mutex \in Workers \cup {None} /\ call \in Calls
  BY Zenon
<1> HIDE DEF PoolInit, Poppers, WorkerPC, ControllerPC, Calls, InMonitor
<1> QED
  BY <1>1, <1>2, <1>4, <1>5, <1>6, <1>7, <1>8, <1>9 DEF PoolTypeOK

\* A step of a worker or of a push keeps them.
LEMMA PoolTypeWorker ==
  ASSUME PoolTypeOK,
         \/ \E k \in Tasks : Enqueue(k) \/ NotifyOne(k)
         \/ \E w \in Workers : WorkerStep(w) \/ SpuriousWakeup(w) \/ EndTask(w)
  PROVE  PoolTypeOK'
<1> USE NoneAssumption, BoundsAssumption
    DEF PoolTypeOK, Fates, Poppers, WorkerPC, ControllerPC, InMonitor, Goto, BeginPop, queue,
        stopVars, bounds, history
<1>1. ASSUME NEW k \in Tasks, Enqueue(k) PROVE PoolTypeOK'
  BY <1>1 DEF Enqueue
<1>2. ASSUME NEW k \in Tasks, NotifyOne(k) PROVE PoolTypeOK'
  BY <1>2 DEF NotifyOne, Asleep
<1>3. ASSUME NEW w \in Workers, Pop(w) PROVE PoolTypeOK'
  BY <1>3 DEF Pop, MutexAfterPop, MayBeHidden
<1>4. ASSUME NEW w \in Workers, PopDoomed(w) PROVE PoolTypeOK'
  BY <1>4 DEF PopDoomed
<1>5. ASSUME NEW w \in Workers, PopFails(w) PROVE PoolTypeOK'
  BY <1>5 DEF PopFails, MayBeHidden
<1>6. ASSUME NEW w \in Workers, ReadFlag(w) PROVE PoolTypeOK'
  BY <1>6 DEF ReadFlag
<1>7. ASSUME NEW w \in Workers, Lock(w) PROVE PoolTypeOK'
  BY <1>7 DEF Lock, AfterLock
<1>8. ASSUME NEW w \in Workers, Decide(w) PROVE PoolTypeOK'
  BY <1>8 DEF Decide
<1>9. ASSUME NEW w \in Workers, SpuriousWakeup(w) PROVE PoolTypeOK'
  BY <1>9 DEF SpuriousWakeup
<1>10. ASSUME NEW w \in Workers, EndTask(w) PROVE PoolTypeOK'
  BY <1>10 DEF EndTask
<1> QED
  BY <1>1, <1>2, <1>3, <1>4, <1>5, <1>6, <1>7, <1>8, <1>9, <1>10 DEF WorkerStep

\* So does a step of the controller.
LEMMA PoolTypeController ==
  ASSUME PoolTypeOK, ControllerStep \/ ControllerCall \/ Destroy
  PROVE  PoolTypeOK'
<1> USE NoneAssumption, BoundsAssumption
    DEF PoolTypeOK, Fates, Poppers, WorkerPC, ControllerPC, Calls, InMonitor, Goto, BeginPop,
        queue, stopVars, bounds, history
<1>1. CASE NotifyAll
  BY <1>1 DEF NotifyAll, Asleep
<1>2. CASE ControllerPop
  BY <1>2 DEF ControllerPop, MayBeHidden
<1>3. CASE ControllerDoomed
  BY <1>3 DEF ControllerDoomed
<1>4. CASE ControllerFails
  BY <1>4 DEF ControllerFails, MayBeHidden
<1>5. CASE SetFlags
  BY <1>5 DEF SetFlags
<1>6. CASE Join
  BY <1>6 DEF Join
<1>7. CASE Destroy
  BY <1>7 DEF Destroy
<1>8. CASE ControllerCall
  <2>0. calls' \in 0..MaxCalls
    BY <1>8 DEF ControllerCall
  <2>1. ASSUME NEW w \in Workers, Grow(w) PROVE PoolTypeOK'
    BY <2>0, <2>1 DEF Grow
  <2>2. ASSUME NEW S \in SUBSET threads, Shrink(S) PROVE PoolTypeOK'
    BY <2>0, <2>2 DEF Shrink
  <2>3. ASSUME NEW which \in {"pop", "clear_queue"}, CallPop(which) PROVE PoolTypeOK'
    BY <2>0, <2>3 DEF CallPop
  <2>4. CASE StopNow
    BY <2>0, <2>4 DEF StopNow
  <2>5. CASE StopWhenDone
    BY <2>0, <2>5 DEF StopWhenDone
  <2> QED
    BY <1>8, <2>1, <2>2, <2>3, <2>4, <2>5 DEF ControllerCall
<1> QED
  BY <1>1, <1>2, <1>3, <1>4, <1>5, <1>6, <1>7, <1>8 DEF ControllerStep

-----------------------------------------------------------------------------
(* The inductive invariant beside the types.                               *)

\* Queued tasks that a notify_one has told the workers about.
Announced == queue \ pushing

Failing == {w \in Workers : pc[w] \in {"try_doomed", "decide"}}
Outside == {w \in Workers : pc[w] \in {"pop", "doomed"}}
Locking == {w \in Workers : pc[w] = "lock"}
Gone == {w \in Workers : pc[w] = "gone"}
Working == {w \in Workers : pc[w] \in {"run", "ran"}}

\* A worker that evaluates the predicate of cv.wait is sure to see every announced task but
\* those that a worker which waits for the mutex has hidden: one each.
PredicateSees ==
  ~blinded =>
    \A w \in Workers : pc[w] = "try" => Cardinality(Announced \ seen[w]) <= Cardinality(Locking)

\* While a worker sleeps, or is about to since the predicate has failed, every queued task has
\* a worker on the way or a push that will notify.
Conserved ==
  ~blinded /\ Asleep \cup Failing # {} =>
    Cardinality(queue) <= Cardinality(OnTheWay) + Cardinality(pushing)

\* The controller is inside stop(true), before the join.
Finishing == isDone /\ ~isStop /\ pc[Controller] \in {"notify", "join"}
NotYetJoined == ~isStop /\ (isDone => Finishing)

\* What the controller's step says of its call and of the flags, and that a worker that no
\* resize has detached is in the vector until stop clears it.
ControllerOK ==
  /\ pc[Controller] \in {"pop", "doomed"} <=> call # "none"
  /\ call = "stop" \/ pc[Controller] = "flag" => isStop
  /\ ~isDone /\ ~isStop =>
       /\ pc[Controller] \in {"idle", "pop", "doomed", "shrunk"}
       /\ call # "rest"
  /\ flagged = {} /\ NotYetJoined => \A w \in Workers : pc[w] # "unborn" => w \in threads

\* A task that was popped is run.
PoppedAreRun == \A k \in Tasks : fate[k] = "popped" => \E w \in Workers : func[w] = k

\* The tasks that have to be run before the workers may leave.
Due == IF isDone THEN early \cap queue ELSE Announced

\* If nobody was detached, there are as many workers as tasks to be run before the join even
\* if somebody sleeps, leaves or is about to.
DueHaveWorkers ==
  ~blinded /\ flagged = {} /\ NotYetJoined /\ Asleep \cup Failing \cup Gone # {} =>
    Cardinality(Due) <= Cardinality(OnTheWay \cup Working)

\* What stop(true) has to run is run, or will be by somebody before the join ends.
EarlyOK ==
  /\ early \cap pushing = {}
  /\ \A k \in early \cup pushing : fate[k] # "new"
  /\ flagged = {} /\ ~isDone => Gone = {}
  /\ isDone /\ ~blinded /\ flagged = {} =>
       IF Finishing
       THEN /\ \A k \in early : fate[k] \in {"queued", "popped", "done"}
            /\ threads = {} => early = {}
       ELSE \A k \in early : fate[k] = "done"

Counting == PredicateSees /\ Conserved /\ DueHaveWorkers

\* The inductive invariant.
PoolInv == PoolTypeOK /\ Counting /\ ControllerOK /\ PoppedAreRun /\ EarlyOK

-----------------------------------------------------------------------------
(* Counting tasks and workers.                                             *)

\* Sets of tasks or workers are finite, and a part has no more elements than the whole.
LEMMA Parts ==
  ASSUME NEW U \in {Tasks, Workers}, NEW S \in SUBSET U, NEW T \in SUBSET S
  PROVE  /\ IsFiniteSet(S) /\ IsFiniteSet(T)
         /\ Cardinality(S) \in Nat /\ Cardinality(T) \in Nat /\ Cardinality(T) <= Cardinality(S)
<1>1. IsFiniteSet(U)
  BY SizeAssumption
<1>2. IsFiniteSet(S)
  BY <1>1, FS_Subset
<1> QED
  BY <1>2, FS_Subset, FS_CardinalityType

\* A set that is covered by two others has no more elements than they have together.
LEMMA Covered ==
  ASSUME NEW U \in {Tasks, Workers}, NEW S \in SUBSET U, NEW A \in SUBSET U, NEW B \in SUBSET U,
         S \subseteq A \cup B
  PROVE  Cardinality(S) <= Cardinality(A) + Cardinality(B)
<1>1. /\ IsFiniteSet(A) /\ IsFiniteSet(B) /\ Cardinality(A) \in Nat /\ Cardinality(B) \in Nat
      /\ Cardinality(A \cap B) \in Nat
  <2>1. IsFiniteSet(A) /\ Cardinality(A) \in Nat
    BY Parts
  <2>2. IsFiniteSet(B) /\ Cardinality(B) \in Nat
    BY Parts
  <2>3. A \cap B \in SUBSET A
    OBVIOUS
  <2> QED
    BY <2>1, <2>2, <2>3, Parts
<1>2. Cardinality(A \cup B) = Cardinality(A) + Cardinality(B) - Cardinality(A \cap B)
  BY <1>1, FS_Union
<1>3. Cardinality(S) <= Cardinality(A \cup B) /\ Cardinality(S) \in Nat
  <2>1. A \cup B \in SUBSET U /\ S \in SUBSET (A \cup B)
    OBVIOUS
  <2> QED
    BY <2>1, Parts
<1> QED
  BY <1>1, <1>2, <1>3

-----------------------------------------------------------------------------
(* The three invariants that count.                                        *)

\* All the sets that the invariants count, in a state and in the next.
LEMMA Numbers ==
  ASSUME PoolTypeOK
  PROVE  /\ queue \in SUBSET Tasks /\ pushing \in SUBSET Tasks
         /\ Announced \in SUBSET Tasks /\ Due \in SUBSET Tasks
         /\ \A w \in Workers : seen[w] \in SUBSET Tasks
         /\ OnTheWay \in SUBSET Workers /\ OnTheWay \cup Working \in SUBSET Workers
         /\ Locking \in SUBSET Workers /\ Outside \in SUBSET Workers
BY DEF PoolTypeOK, queue, Announced, Due, OnTheWay, Working, Locking, Outside, Poppers

\* A step with which no worker begins to evaluate the predicate or loses sight of a task, and
\* none leaves the wait for the mutex.
LEMMA SeesFrame ==
  ASSUME PoolTypeOK, PredicateSees, blinded => blinded', Locking \subseteq Locking',
         ~blinded' => \A w \in Workers :
           pc'[w] = "try" => pc[w] = "try" /\ Announced' \ seen'[w] \subseteq Announced \ seen[w]
  PROVE  PredicateSees'
<1> SUFFICES ASSUME ~blinded', NEW w \in Workers, pc'[w] = "try"
             PROVE  Cardinality(Announced' \ seen'[w]) <= Cardinality(Locking')
  BY DEF PredicateSees
<1>1. pc[w] = "try" /\ Announced' \ seen'[w] \subseteq Announced \ seen[w] /\ ~blinded
  OBVIOUS
<1>2. Cardinality(Announced \ seen[w]) <= Cardinality(Locking)
  BY <1>1 DEF PredicateSees
<1>3. /\ Cardinality(Announced' \ seen'[w]) <= Cardinality(Announced \ seen[w])
      /\ Cardinality(Announced' \ seen'[w]) \in Nat /\ Cardinality(Announced \ seen[w]) \in Nat
  <2>1. Announced \ seen[w] \in SUBSET Tasks
    BY Numbers
  <2> QED
    BY <1>1, <2>1, Parts
<1>4. /\ Cardinality(Locking) <= Cardinality(Locking')
      /\ Cardinality(Locking) \in Nat /\ Cardinality(Locking') \in Nat
  <2>1. Locking' \in SUBSET Workers
    BY DEF Locking
  <2> QED
    BY <2>1, Parts
<1> QED
  BY <1>2, <1>3, <1>4

\* A step after which no more is queued and no fewer are on the way.
LEMMA ConservedFrame ==
  ASSUME PoolTypeOK, Conserved, blinded => blinded', queue' \subseteq queue, UNCHANGED pushing,
         OnTheWay \subseteq OnTheWay',
         (Asleep \cup Failing)' # {} => Asleep \cup Failing # {}
  PROVE  Conserved'
<1> SUFFICES ASSUME ~blinded', (Asleep \cup Failing)' # {}
             PROVE  Cardinality(queue') <= Cardinality(OnTheWay') + Cardinality(pushing')
  BY DEF Conserved
<1>1. Cardinality(queue) <= Cardinality(OnTheWay) + Cardinality(pushing)
  BY DEF Conserved
<1>2. /\ Cardinality(queue') <= Cardinality(queue)
      /\ Cardinality(queue) \in Nat /\ Cardinality(queue') \in Nat
  BY Numbers, Parts
<1>3. /\ Cardinality(OnTheWay) <= Cardinality(OnTheWay')
      /\ Cardinality(OnTheWay) \in Nat /\ Cardinality(OnTheWay') \in Nat
  <2>1. OnTheWay' \in SUBSET Workers
    BY DEF OnTheWay
  <2> QED
    BY <2>1, Parts
<1>4. Cardinality(pushing) \in Nat
  BY Numbers, Parts
<1> QED
  BY <1>1, <1>2, <1>3, <1>4

\* A step after which no more is due and no fewer work.
LEMMA DueFrame ==
  ASSUME PoolTypeOK, DueHaveWorkers, blinded => blinded',
         ~blinded' /\ flagged' = {} /\ NotYetJoined' /\ (Asleep \cup Failing \cup Gone)' # {} =>
           /\ flagged = {} /\ NotYetJoined /\ Asleep \cup Failing \cup Gone # {}
           /\ Due' \subseteq Due
           /\ OnTheWay \cup Working \subseteq OnTheWay' \cup Working'
  PROVE  DueHaveWorkers'
<1> SUFFICES ASSUME ~blinded', flagged' = {}, NotYetJoined', (Asleep \cup Failing \cup Gone)' # {}
             PROVE  Cardinality(Due') <= Cardinality((OnTheWay \cup Working)')
  BY DEF DueHaveWorkers
<1>1. Cardinality(Due) <= Cardinality(OnTheWay \cup Working)
  BY DEF DueHaveWorkers
<1>2. /\ Cardinality(Due') <= Cardinality(Due)
      /\ Cardinality(Due) \in Nat /\ Cardinality(Due') \in Nat
  <2>1. Due \in SUBSET Tasks /\ Due' \subseteq Due
    BY Numbers
  <2> QED
    BY <2>1, Parts
<1>3. /\ Cardinality(OnTheWay \cup Working) <= Cardinality((OnTheWay \cup Working)')
      /\ Cardinality(OnTheWay \cup Working) \in Nat
      /\ Cardinality((OnTheWay \cup Working)') \in Nat
  <2>1. (OnTheWay \cup Working)' \in SUBSET Workers
    BY DEF OnTheWay, Working
  <2>2. OnTheWay \cup Working \in SUBSET (OnTheWay \cup Working)'
    OBVIOUS
  <2> QED
    BY <2>1, <2>2, Parts
<1> QED
  BY <1>1, <1>2, <1>3

\* The worker that evaluates the predicate holds the mutex, so that no other is in the monitor.
LEMMA Monitor ==
  ASSUME PoolTypeOK
  PROVE  /\ mutex = None => Failing = {} /\ \A w \in Workers : pc[w] # "try"
         /\ \A v, w \in Workers : pc[v] \in InMonitor /\ pc[w] \in InMonitor => v = w
BY NoneAssumption DEF PoolTypeOK, Failing, InMonitor

\* Who is where does not change when no worker moves.
LEMMA NobodyMoves ==
  ASSUME \A w \in Workers : pc'[w] = pc[w]
  PROVE  /\ Asleep' = Asleep /\ Failing' = Failing /\ Gone' = Gone /\ Locking' = Locking
         /\ OnTheWay' = OnTheWay /\ Working' = Working
BY DEF Asleep, Failing, Gone, Locking, OnTheWay, Working

\* A pushed task is counted with its push.
LEMMA CountEnqueue ==
  ASSUME PoolInv, PoolTypeOK', NEW k \in Tasks, Enqueue(k)
  PROVE  Counting'
<1>1. /\ UNCHANGED <<pc, seen, flagged, isDone, isStop, blinded, early>>
      /\ queue' = queue \cup {k} /\ k \notin queue
      /\ pushing' = pushing \cup {k} /\ k \notin pushing /\ k \notin early
  BY DEF Enqueue, stopVars, history, queue, PoolInv, PoolTypeOK, EarlyOK
<1>2. /\ Asleep' = Asleep /\ Failing' = Failing /\ Gone' = Gone /\ Locking' = Locking
      /\ OnTheWay' = OnTheWay /\ Working' = Working
  BY <1>1, NobodyMoves
<1>3. Announced' = Announced /\ Due' = Due
  BY <1>1 DEF Announced, Due
<1>4. PredicateSees'
  BY <1>1, <1>2, <1>3 DEF PoolInv, Counting, PredicateSees
<1>5. DueHaveWorkers'
  BY <1>1, <1>2, <1>3 DEF PoolInv, Counting, DueHaveWorkers, NotYetJoined, Finishing
<1>6. Conserved'
  <2>1. /\ Cardinality(queue') = Cardinality(queue) + 1 /\ Cardinality(queue) \in Nat
        /\ Cardinality(pushing') = Cardinality(pushing) + 1 /\ Cardinality(pushing) \in Nat
    <3>1. /\ IsFiniteSet(queue) /\ IsFiniteSet(pushing)
          /\ Cardinality(queue) \in Nat /\ Cardinality(pushing) \in Nat
      BY Numbers, Parts DEF PoolInv
    <3> QED
      BY <1>1, <3>1, FS_AddElement
  <2>2. Cardinality(OnTheWay) \in Nat
    BY Numbers, Parts DEF PoolInv
  <2> QED
    BY <1>1, <1>2, <2>1, <2>2 DEF PoolInv, Counting, Conserved
<1> QED
  BY <1>4, <1>5, <1>6 DEF Counting

\* A push that notifies wakes a sleeper, if there is any, and nobody is in the monitor.
LEMMA CountNotify ==
  ASSUME PoolInv, PoolTypeOK', NEW k \in Tasks, NotifyOne(k)
  PROVE  Counting'
<1>1. /\ mutex = None /\ k \in pushing /\ pushing' = pushing \ {k}
      /\ UNCHANGED <<fate, seen, flagged, isDone, isStop, blinded, early>>
      /\ queue' = queue
  BY DEF NotifyOne, NotifyNeeds, stopVars, history, queue
<1>2. Failing = {} /\ \A w \in Workers : pc[w] # "try"
  BY <1>1, Monitor DEF PoolInv
<1>3. Announced' \subseteq Announced \cup {k}
  BY <1>1 DEF Announced
<1>4. isDone => Due' = Due
  BY <1>1 DEF Due
<1>5. CASE Asleep = {}
  <2>1. pc' = pc
    BY <1>5 DEF NotifyOne
  <2>2. /\ Asleep' = Asleep /\ Failing' = Failing /\ Gone' = Gone /\ Locking' = Locking
        /\ OnTheWay' = OnTheWay /\ Working' = Working
    BY <2>1, NobodyMoves
  <2>3. PredicateSees' /\ Conserved'
    BY <1>2, <1>5, <2>1, <2>2 DEF PredicateSees, Conserved
  <2>4. DueHaveWorkers'
    <3> SUFFICES ASSUME ~blinded, flagged = {}, NotYetJoined', Gone # {}
                 PROVE  Cardinality(Due') <= Cardinality((OnTheWay \cup Working)')
      BY <1>1, <1>2, <1>5, <2>2 DEF DueHaveWorkers
    <3>1. isDone
      BY DEF PoolInv, EarlyOK
    <3>2. NotYetJoined
      BY <1>1, <2>1 DEF NotYetJoined, Finishing
    <3> QED
      BY <1>4, <2>2, <3>1, <3>2 DEF PoolInv, Counting, DueHaveWorkers
  <2> QED
    BY <2>3, <2>4 DEF Counting
<1>6. CASE Asleep # {}
  <2>1. PICK w \in Asleep : pc' = [pc EXCEPT ![w] = "lock"]
    BY <1>6 DEF NotifyOne, Goto
  <2>2. w \in Workers /\ w \in Poppers /\ pc[w] = "asleep" /\ w # Controller
    BY <2>1, NoneAssumption DEF Asleep, Poppers
  <2>3. pc \in [Poppers -> WorkerPC \cup ControllerPC]
    BY DEF PoolInv, PoolTypeOK
  <2>4. /\ OnTheWay' = OnTheWay \cup {w} /\ w \notin OnTheWay
        /\ Working' = Working /\ w \notin Working
        /\ Failing' = {} /\ Gone' = Gone /\ \A v \in Workers : pc'[v] # "try"
    BY <1>2, <2>1, <2>2, <2>3 DEF OnTheWay, Working, Failing, Gone, Poppers
  <2>5. /\ Cardinality(OnTheWay') = Cardinality(OnTheWay) + 1 /\ Cardinality(OnTheWay) \in Nat
        /\ Cardinality((OnTheWay \cup Working)') = Cardinality(OnTheWay \cup Working) + 1
        /\ Cardinality(OnTheWay \cup Working) \in Nat
    <3>1. /\ IsFiniteSet(OnTheWay) /\ Cardinality(OnTheWay) \in Nat
          /\ IsFiniteSet(OnTheWay \cup Working) /\ Cardinality(OnTheWay \cup Working) \in Nat
      BY Numbers, Parts DEF PoolInv
    <3>2. (OnTheWay \cup Working)' = (OnTheWay \cup Working) \cup {w} /\ w \notin OnTheWay \cup Working
      BY <2>4
    <3> QED
      BY <2>4, <3>1, <3>2, FS_AddElement
  <2>6. PredicateSees'
    BY <2>4 DEF PredicateSees
  <2>7. Conserved'
    <3>1. Cardinality(pushing') = Cardinality(pushing) - 1 /\ Cardinality(pushing) \in Nat
      <4>1. IsFiniteSet(pushing) /\ Cardinality(pushing) \in Nat
        BY Numbers, Parts DEF PoolInv
      <4> QED
        BY <1>1, <4>1, FS_RemoveElement
    <3>2. Cardinality(queue) \in Nat
      BY Numbers, Parts DEF PoolInv
    <3>3. ~blinded => Cardinality(queue) <= Cardinality(OnTheWay) + Cardinality(pushing)
      BY <1>6 DEF PoolInv, Counting, Conserved
    <3> QED
      BY <1>1, <2>5, <3>1, <3>2, <3>3 DEF Conserved
  <2>8. DueHaveWorkers'
    <3> SUFFICES ASSUME ~blinded, flagged = {}, NotYetJoined'
                 PROVE  Cardinality(Due') <= Cardinality((OnTheWay \cup Working)')
      BY <1>1 DEF DueHaveWorkers
    <3>1. NotYetJoined
      BY <1>1, <2>1, <2>2, <2>3 DEF NotYetJoined, Finishing, Poppers
    <3>2. Cardinality(Due) <= Cardinality(OnTheWay \cup Working) /\ Cardinality(Due) \in Nat
      BY <1>6, <3>1, Numbers, Parts DEF PoolInv, Counting, DueHaveWorkers
    <3>3. Due' \subseteq Due \cup {k}
      BY <1>1, <1>3, <1>4 DEF Due
    <3>4. Cardinality(Due') <= Cardinality(Due) + 1 /\ Cardinality(Due') \in Nat
      <4>1. Due \in SUBSET Tasks /\ {k} \in SUBSET Tasks /\ Due' \in SUBSET Tasks
        BY <3>3, Numbers DEF PoolInv
      <4>2. Cardinality({k}) = 1
        BY FS_Singleton
      <4>3. Cardinality(Due') <= Cardinality(Due) + Cardinality({k})
        BY <3>3, <4>1, Covered
      <4> QED
        BY <4>1, <4>2, <4>3, Parts
    <3> QED
      BY <2>5, <3>2, <3>4
  <2> QED
    BY <2>6, <2>7, <2>8 DEF Counting
<1> QED
  BY <1>5, <1>6

\* A worker that pops a task takes it from the queue and itself from the way.
LEMMA CountPop ==
  ASSUME PoolInv, NEW w \in Workers, Pop(w)
  PROVE  Counting'
<1>1. PICK k \in queue, hidden \in MayBeHidden(w) :
        /\ fate' = [fate EXCEPT ![k] = "popped"]
        /\ seen' = [p \in Poppers |-> IF p = w THEN {} ELSE seen[p] \ ({k} \cup hidden)]
        /\ blinded' = (blinded \/ hidden # {})
  BY DEF Pop
<1>2. /\ pc[w] \in {"pop", "try"} /\ pc' = [pc EXCEPT ![w] = "run"]
      /\ UNCHANGED <<pushing, flagged, isDone, isStop, early>>
  BY DEF Pop, Goto, stopVars
<1>3. /\ w # Controller /\ w \in Poppers /\ pc \in [Poppers -> WorkerPC \cup ControllerPC]
      /\ fate \in [Tasks -> Fates]
  BY NoneAssumption DEF Poppers, PoolInv, PoolTypeOK
<1>4. queue' = queue \ {k}
  BY <1>1, <1>3 DEF queue
<1>5. Due' \subseteq Due /\ Announced' = Announced \ {k}
  BY <1>2, <1>4 DEF Due, Announced
<1>6. /\ Asleep' = Asleep /\ Failing' = Failing /\ Gone' = Gone /\ Locking' = Locking
      /\ w \in OnTheWay /\ OnTheWay' = OnTheWay \ {w}
      /\ OnTheWay' \cup Working' = OnTheWay \cup Working
  BY <1>2, <1>3
  DEF Asleep, Failing, Gone, Locking, OnTheWay, Working, Poppers
<1>7. PredicateSees'
  <2>1. ASSUME ~blinded', NEW v \in Workers, pc'[v] = "try"
        PROVE  pc[v] = "try" /\ Announced' \ seen'[v] \subseteq Announced \ seen[v]
    <3>1. v # w /\ pc[v] = "try" /\ v \in Poppers
      BY <1>2, <1>3, <2>1 DEF Poppers
    <3>2. seen'[v] = seen[v] \ {k}
      BY <1>1, <2>1, <3>1
    <3> QED
      BY <1>5, <3>1, <3>2
  <2> QED
    BY <1>1, <1>6, <2>1, SeesFrame DEF PoolInv, Counting
<1>8. Conserved'
  <2> SUFFICES ASSUME ~blinded, Asleep \cup Failing # {}
               PROVE  Cardinality(queue') <= Cardinality(OnTheWay') + Cardinality(pushing)
    BY <1>1, <1>2, <1>6 DEF Conserved
  <2>1. Cardinality(queue) <= Cardinality(OnTheWay) + Cardinality(pushing)
    BY DEF PoolInv, Counting, Conserved
  <2>2. /\ IsFiniteSet(queue) /\ Cardinality(queue) \in Nat
        /\ IsFiniteSet(OnTheWay) /\ Cardinality(OnTheWay) \in Nat /\ Cardinality(pushing) \in Nat
    BY Numbers, Parts DEF PoolInv
  <2>3. Cardinality(queue') = Cardinality(queue) - 1
    BY <1>4, <2>2, FS_RemoveElement
  <2>4. Cardinality(OnTheWay') = Cardinality(OnTheWay) - 1
    BY <1>6, <2>2, FS_RemoveElement
  <2> QED
    BY <2>1, <2>2, <2>3, <2>4
<1>9. DueHaveWorkers'
  <2>1. NotYetJoined' <=> NotYetJoined
    BY <1>2, <1>3 DEF NotYetJoined, Finishing, Poppers
  <2> QED
    BY <1>1, <1>2, <1>5, <1>6, <2>1, DueFrame DEF PoolInv, Counting
<1> QED
  BY <1>7, <1>8, <1>9 DEF Counting

\* A pop outside the monitor that is doomed changes nothing that counts; one in the predicate
\* overlooks no more tasks than there are pops outside and workers that wait for the mutex.
LEMMA CountDoomed ==
  ASSUME PoolInv, NEW w \in Workers, PopDoomed(w)
  PROVE  Counting'
<1>1. /\ pc[w] \in {"pop", "try"}
      /\ pc' = [pc EXCEPT ![w] = IF pc[w] = "pop" THEN "doomed" ELSE "try_doomed"]
      /\ blinded' = (blinded \/ Cardinality(seen[w]) > Cardinality(Popping \ {w, Controller}))
      /\ seen' = [seen EXCEPT ![w] = {}]
      /\ UNCHANGED <<fate, pushing, flagged, isDone, isStop, early>>
  BY DEF PopDoomed, Goto, stopVars
<1>2. /\ w # Controller /\ w \in Poppers /\ pc \in [Poppers -> WorkerPC \cup ControllerPC]
      /\ seen \in [Poppers -> SUBSET Tasks]
  BY NoneAssumption DEF Poppers, PoolInv, PoolTypeOK
<1>3. queue' = queue /\ Announced' = Announced /\ Due' = Due
  BY <1>1 DEF queue, Announced, Due
<1>4. NotYetJoined' <=> NotYetJoined
  BY <1>1, <1>2 DEF NotYetJoined, Finishing, Poppers
<1>5. CASE pc[w] = "pop"
  <2>1. /\ Asleep' = Asleep /\ Failing' = Failing /\ Gone' = Gone /\ Locking' = Locking
        /\ OnTheWay' = OnTheWay /\ Working' = Working
    BY <1>1, <1>2, <1>5 DEF Asleep, Failing, Gone, Locking, OnTheWay, Working, Poppers
  <2>2. \A v \in Workers : pc'[v] = "try" => pc[v] = "try" /\ seen'[v] = seen[v]
    BY <1>1, <1>2, <1>5 DEF Poppers
  <2>3. PredicateSees'
    BY <1>1, <1>3, <2>1, <2>2, SeesFrame DEF PoolInv, Counting
  <2>4. Conserved'
    BY <1>1, <1>3, <2>1, ConservedFrame DEF PoolInv, Counting
  <2>5. DueHaveWorkers'
    BY <1>1, <1>3, <1>4, <2>1, DueFrame DEF PoolInv, Counting
  <2> QED
    BY <2>3, <2>4, <2>5 DEF Counting
<1>6. CASE pc[w] = "try"
  <2>1. \A v \in Workers : v # w => pc'[v] = pc[v] /\ pc[v] \notin InMonitor
    <3>1. pc[w] \in InMonitor
      BY <1>6 DEF InMonitor
    <3> QED
      BY <1>1, <1>2, <3>1, Monitor DEF PoolInv, Poppers
  <2>2. pc'[w] = "try_doomed"
    BY <1>1, <1>2, <1>6
  <2>3. PredicateSees'
    BY <2>1, <2>2 DEF PredicateSees, InMonitor
  <2>4. /\ Outside \subseteq OnTheWay' /\ Locking \subseteq OnTheWay'
        /\ Outside \cap Locking = {}
        /\ Popping \ {w, Controller} \subseteq Outside
    BY <1>6, <2>1, <2>2
    DEF Outside, Locking, OnTheWay, Popping, Poppers, InMonitor
  <2>5. Cardinality(Outside) + Cardinality(Locking) <= Cardinality(OnTheWay')
    <3>1. Outside \cup Locking \in SUBSET OnTheWay' /\ OnTheWay' \in SUBSET Workers
      BY <2>4 DEF OnTheWay
    <3>2. Cardinality(Outside \cup Locking) <= Cardinality(OnTheWay')
      BY <3>1, Parts
    <3>3. /\ IsFiniteSet(Outside) /\ IsFiniteSet(Locking)
          /\ Cardinality(Outside) \in Nat /\ Cardinality(Locking) \in Nat
      BY Numbers, Parts DEF PoolInv
    <3>4. Cardinality(Outside \cup Locking) =
            Cardinality(Outside) + Cardinality(Locking) - Cardinality(Outside \cap Locking)
      BY <3>3, FS_Union
    <3>5. Cardinality(Outside \cap Locking) = 0
      BY <2>4, FS_EmptySet
    <3> QED
      BY <3>2, <3>3, <3>4, <3>5
  <2>6. ASSUME ~blinded', NEW S \in SUBSET Announced
        PROVE  /\ Cardinality(S) <= Cardinality(OnTheWay')
               /\ Cardinality(S) \in Nat /\ Cardinality(OnTheWay') \in Nat
    <3>1. /\ Announced \in SUBSET Tasks /\ seen[w] \in SUBSET Tasks /\ OnTheWay' \in SUBSET Workers
          /\ Outside \in SUBSET Workers /\ Locking \in SUBSET Workers
      BY Numbers DEF PoolInv, OnTheWay
    <3>2. /\ Cardinality(S) \in Nat /\ Cardinality(OnTheWay') \in Nat
          /\ Cardinality(Announced \ seen[w]) \in Nat /\ Cardinality(seen[w]) \in Nat
          /\ Cardinality(Outside) \in Nat /\ Cardinality(Locking) \in Nat
          /\ Cardinality(Popping \ {w, Controller}) <= Cardinality(Outside)
          /\ Cardinality(Popping \ {w, Controller}) \in Nat
      <4>1. S \in SUBSET Tasks /\ Announced \ seen[w] \in SUBSET Tasks
        BY <3>1
      <4>2. Cardinality(S) \in Nat /\ Cardinality(Announced \ seen[w]) \in Nat
        BY <4>1, Parts
      <4>3. Cardinality(seen[w]) \in Nat
        BY <3>1, Parts
      <4>4. /\ Cardinality(OnTheWay') \in Nat /\ Cardinality(Outside) \in Nat
            /\ Cardinality(Locking) \in Nat
        BY <3>1, Parts
      <4>5. /\ Cardinality(Popping \ {w, Controller}) <= Cardinality(Outside)
            /\ Cardinality(Popping \ {w, Controller}) \in Nat
        BY <2>4, <3>1, Parts
      <4> QED
        BY <4>2, <4>3, <4>4, <4>5
    <3>3. Cardinality(seen[w]) <= Cardinality(Outside)
      <4>1. ~(Cardinality(seen[w]) > Cardinality(Popping \ {w, Controller}))
        BY <1>1, <2>6, Zenon
      <4> QED
        BY <3>2, <4>1
    <3>4. Cardinality(Announced \ seen[w]) <= Cardinality(Locking)
      BY <1>1, <1>6, <2>6 DEF PoolInv, Counting, PredicateSees
    <3>5. Cardinality(S) <= Cardinality(Announced \ seen[w]) + Cardinality(seen[w])
      <4>1. /\ S \in SUBSET Tasks /\ Announced \ seen[w] \in SUBSET Tasks
            /\ S \subseteq (Announced \ seen[w]) \cup seen[w]
        BY <3>1
      <4> QED
        BY <3>1, <4>1, Covered
    <3>6. Cardinality(S) <= Cardinality(Outside) + Cardinality(Locking)
      BY <3>2, <3>3, <3>4, <3>5
    <3> QED
      BY <2>5, <3>2, <3>6
  <2>7. Conserved'
    <3> SUFFICES ASSUME ~blinded'
                 PROVE  Cardinality(queue) <= Cardinality(OnTheWay') + Cardinality(pushing)
      BY <1>1, <1>3 DEF Conserved
    <3>1. /\ Announced \in SUBSET Announced /\ Announced \in SUBSET Tasks /\ pushing \in SUBSET Tasks
          /\ queue \in SUBSET Tasks /\ queue \subseteq Announced \cup pushing
      BY Numbers DEF PoolInv, Announced
    <3>2. Cardinality(queue) <= Cardinality(Announced) + Cardinality(pushing)
      BY <3>1, Covered
    <3>3. /\ Cardinality(Announced) <= Cardinality(OnTheWay')
          /\ Cardinality(Announced) \in Nat /\ Cardinality(OnTheWay') \in Nat
      BY <2>6, <3>1
    <3>4. Cardinality(queue) \in Nat /\ Cardinality(pushing) \in Nat
      BY <3>1, Parts
    <3> QED
      BY <3>2, <3>3, <3>4
  <2>8. DueHaveWorkers'
    <3> SUFFICES ASSUME ~blinded'
                 PROVE  Cardinality(Due) <= Cardinality((OnTheWay \cup Working)')
      BY <1>3 DEF DueHaveWorkers
    <3>1. Due \in SUBSET Announced
      BY DEF Due, Announced, PoolInv, EarlyOK
    <3>2. /\ Cardinality(Due) <= Cardinality(OnTheWay')
          /\ Cardinality(Due) \in Nat /\ Cardinality(OnTheWay') \in Nat
      BY <2>6, <3>1
    <3>3. /\ Cardinality(OnTheWay') <= Cardinality((OnTheWay \cup Working)')
          /\ Cardinality((OnTheWay \cup Working)') \in Nat
      <4>1. /\ (OnTheWay \cup Working)' \in SUBSET Workers
            /\ OnTheWay' \in SUBSET (OnTheWay \cup Working)'
        BY DEF OnTheWay, Working
      <4> QED
        BY <4>1, Parts
    <3> QED
      BY <3>2, <3>3
  <2> QED
    BY <2>3, <2>7, <2>8 DEF Counting
<1> QED
  BY <1>1, <1>5, <1>6

\* A pop that fails outside the monitor hides one task at most, and its worker goes to wait for
\* the mutex.
LEMMA CountFails ==
  ASSUME PoolInv, NEW w \in Workers, PopFails(w)
  PROVE  Counting'
<1>1. /\ pc[w] \in {"doomed", "try_doomed"}
      /\ pc' = [pc EXCEPT ![w] = IF pc[w] = "doomed" THEN "lock" ELSE "decide"]
      /\ UNCHANGED <<fate, pushing, flagged, isDone, isStop, early>>
  BY DEF PopFails, Goto, stopVars
<1>2. PICK hidden \in MayBeHidden(w) :
        /\ seen' = [p \in Poppers |-> seen[p] \ hidden]
        /\ blinded' = (blinded \/ Cardinality(hidden) > 1)
  BY DEF PopFails
<1>3. /\ w # Controller /\ w \in Poppers /\ pc \in [Poppers -> WorkerPC \cup ControllerPC]
      /\ seen \in [Poppers -> SUBSET Tasks]
  BY NoneAssumption DEF Poppers, PoolInv, PoolTypeOK
<1>4. queue' = queue /\ Announced' = Announced /\ Due' = Due
  BY <1>1 DEF queue, Announced, Due
<1>5. NotYetJoined' <=> NotYetJoined
  BY <1>1, <1>3 DEF NotYetJoined, Finishing, Poppers
<1>6. /\ Asleep' = Asleep /\ Gone' = Gone /\ Failing' = Failing
      /\ OnTheWay' = OnTheWay /\ Working' = Working
  BY <1>1, <1>3 DEF Asleep, Failing, Gone, OnTheWay, Working, Poppers
<1>7. PredicateSees'
  <2> SUFFICES ASSUME ~blinded', NEW v \in Workers, pc'[v] = "try"
               PROVE  Cardinality(Announced \ seen'[v]) <= Cardinality(Locking')
    BY <1>4 DEF PredicateSees
  <2>1. v # w /\ pc[v] = "try" /\ v \in Poppers
    BY <1>1, <1>3 DEF Poppers
  <2>2. pc[w] = "doomed"
    <3>1. pc[v] \in InMonitor
      BY <2>1 DEF InMonitor
    <3>2. pc[w] \notin InMonitor
      BY <2>1, <3>1, Monitor DEF PoolInv
    <3> QED
      BY <1>1, <3>2 DEF InMonitor
  <2>3. Cardinality(Locking') = Cardinality(Locking) + 1 /\ Cardinality(Locking) \in Nat
    <3>1. Locking' = Locking \cup {w} /\ w \notin Locking
      BY <1>1, <1>3, <2>2 DEF Locking, Poppers
    <3>2. IsFiniteSet(Locking) /\ Cardinality(Locking) \in Nat
      BY Numbers, Parts DEF PoolInv
    <3> QED
      BY <3>1, <3>2, FS_AddElement
  <2>4. hidden \in SUBSET Tasks
    BY <1>2, <1>3 DEF MayBeHidden
  <2>5. Cardinality(hidden) <= 1 /\ Cardinality(hidden) \in Nat
    <3>1. Cardinality(hidden) \in Nat
      BY <2>4, Parts
    <3>2. ~(Cardinality(hidden) > 1)
      BY <1>2, Zenon
    <3> QED
      BY <3>1, <3>2
  <2>6. Cardinality(Announced \ seen[v]) <= Cardinality(Locking)
    <3>1. ~blinded
      BY <1>2, Zenon
    <3> QED
      BY <2>1, <3>1 DEF PoolInv, Counting, PredicateSees
  <2>7. /\ Announced \ seen'[v] \in SUBSET Tasks /\ Announced \ seen[v] \in SUBSET Tasks
        /\ Announced \ seen'[v] \subseteq (Announced \ seen[v]) \cup hidden
    BY <1>2, <2>1, Numbers DEF PoolInv
  <2>8. Cardinality(Announced \ seen'[v]) <= Cardinality(Announced \ seen[v]) + Cardinality(hidden)
    BY <2>4, <2>7, Covered
  <2>9. Cardinality(Announced \ seen'[v]) \in Nat /\ Cardinality(Announced \ seen[v]) \in Nat
    BY <2>7, Parts
  <2> QED
    BY <2>3, <2>5, <2>6, <2>8, <2>9
<1>8. blinded => blinded'
  BY <1>2
<1>9. Conserved'
  BY <1>1, <1>4, <1>6, <1>8, ConservedFrame DEF PoolInv, Counting
<1>10. DueHaveWorkers'
  BY <1>1, <1>4, <1>5, <1>6, <1>8, DueFrame DEF PoolInv, Counting
<1> QED
  BY <1>7, <1>9, <1>10 DEF Counting

\* A worker that takes the mutex looks at the queue as it is, and is alone in the monitor.
LEMMA CountLock ==
  ASSUME PoolInv, NEW w \in Workers, Lock(w)
  PROVE  Counting'
<1>1. /\ pc[w] = "lock" /\ mutex = None /\ pc' = [pc EXCEPT ![w] = "try"]
      /\ seen' = [seen EXCEPT ![w] = queue]
      /\ UNCHANGED <<fate, pushing, flagged, isDone, isStop, blinded, early>>
  BY DEF Lock, BeginPop, AfterLock, Goto, stopVars, history
<1>2. /\ w # Controller /\ w \in Poppers /\ pc \in [Poppers -> WorkerPC \cup ControllerPC]
      /\ seen \in [Poppers -> SUBSET Tasks]
  BY NoneAssumption DEF Poppers, PoolInv, PoolTypeOK
<1>3. queue' = queue /\ Announced' = Announced /\ Due' = Due
  BY <1>1 DEF queue, Announced, Due
<1>4. NotYetJoined' <=> NotYetJoined
  BY <1>1, <1>2 DEF NotYetJoined, Finishing, Poppers
<1>5. /\ Asleep' = Asleep /\ Gone' = Gone /\ Failing' = Failing
      /\ OnTheWay' = OnTheWay /\ Working' = Working
  BY <1>1, <1>2 DEF Asleep, Failing, Gone, OnTheWay, Working, Poppers
<1>6. PredicateSees'
  <2> SUFFICES ASSUME NEW v \in Workers, pc'[v] = "try"
               PROVE  Cardinality(Announced \ seen'[v]) <= Cardinality(Locking')
    BY <1>3 DEF PredicateSees
  <2>1. v = w
    BY <1>1, <1>2, Monitor DEF PoolInv, Poppers
  <2>2. Announced \ seen'[v] = {}
    BY <1>1, <1>2, <2>1 DEF Announced
  <2>3. Cardinality(Locking') \in Nat
    <3>1. Locking' \in SUBSET Workers
      BY DEF Locking
    <3> QED
      BY <3>1, Parts
  <2> QED
    BY <2>2, <2>3, FS_EmptySet
<1>7. Conserved'
  BY <1>1, <1>3, <1>5, ConservedFrame DEF PoolInv, Counting
<1>8. DueHaveWorkers'
  BY <1>1, <1>3, <1>4, <1>5, DueFrame DEF PoolInv, Counting
<1> QED
  BY <1>6, <1>7, <1>8 DEF Counting

\* The other steps of a worker.  One that falls asleep or leaves without a flag decides so after
\* its predicate has failed.
LEMMA CountWorker ==
  ASSUME PoolInv, NEW w \in Workers,
         EndTask(w) \/ ReadFlag(w) \/ Decide(w) \/ SpuriousWakeup(w)
  PROVE  Counting'
<1>1. /\ UNCHANGED <<pushing, flagged, isDone, isStop, blinded, early>>
      /\ \A p \in Poppers \ {w} : pc'[p] = pc[p] /\ seen'[p] = seen[p]
  BY DEF EndTask, ReadFlag, Decide, SpuriousWakeup, BeginPop, Goto, stopVars, history, PoolInv,
         PoolTypeOK, Poppers
<1>2. /\ w # Controller /\ w \in Poppers /\ Controller \in Poppers
      /\ \A v \in Workers : v \in Poppers
  BY NoneAssumption DEF Poppers
<1>3. /\ pc[w] \in {"run", "ran", "decide", "asleep"}
      /\ pc'[w] \in {"ran", "pop", "gone", "lock", "asleep"}
      /\ pc[w] = "run" => pc'[w] = "ran"
      /\ pc[w] = "ran" => pc'[w] = "pop" \/ (pc'[w] = "gone" /\ w \in flagged)
      /\ pc[w] = "decide" => pc'[w] \in {"gone", "asleep"}
      /\ pc[w] = "asleep" => pc'[w] = "lock"
  BY <1>2
  DEF EndTask, ReadFlag, Decide, SpuriousWakeup, BeginPop, Goto, PoolInv, PoolTypeOK
<1>4. queue' \subseteq queue
  <2>1. CASE EndTask(w)
    BY <2>1 DEF EndTask, queue, PoolInv, PoolTypeOK
  <2>2. CASE ~EndTask(w)
    BY <2>2 DEF ReadFlag, Decide, SpuriousWakeup, queue
  <2> QED
    BY <2>1, <2>2
<1>5. Announced' \subseteq Announced /\ Due' \subseteq Due
  BY <1>1, <1>4 DEF Announced, Due
<1>6. NotYetJoined' <=> NotYetJoined
  BY <1>1, <1>2 DEF NotYetJoined, Finishing
<1>7. /\ Locking \subseteq Locking' /\ OnTheWay \subseteq OnTheWay'
      /\ (Asleep \cup Failing)' # {} => Asleep \cup Failing # {}
  BY <1>1, <1>2, <1>3 DEF Asleep, Failing, Locking, OnTheWay
<1>8. flagged = {} => /\ OnTheWay \cup Working \subseteq OnTheWay' \cup Working'
                      /\ (Asleep \cup Failing \cup Gone)' # {} => Asleep \cup Failing \cup Gone # {}
  BY <1>1, <1>2, <1>3 DEF Asleep, Failing, Gone, OnTheWay, Working
<1>9. \A v \in Workers : pc'[v] = "try" => pc[v] = "try" /\ seen'[v] = seen[v]
  BY <1>1, <1>2, <1>3
<1>10. PredicateSees'
  BY <1>1, <1>5, <1>7, <1>9, SeesFrame DEF PoolInv, Counting
<1>11. Conserved'
  BY <1>1, <1>4, <1>7, ConservedFrame DEF PoolInv, Counting
<1>12. DueHaveWorkers'
  BY <1>1, <1>5, <1>6, <1>8, DueFrame DEF PoolInv, Counting
<1> QED
  BY <1>10, <1>11, <1>12 DEF Counting

\* A step of the controller that moves no worker.
LEMMA CountStill ==
  ASSUME PoolInv, \A w \in Workers : pc'[w] = pc[w],
         UNCHANGED <<pushing, isDone, early>>, queue' \subseteq queue, blinded => blinded',
         ~blinded' => \A w \in Workers : Announced' \ seen'[w] \subseteq Announced \ seen[w],
         flagged \subseteq flagged', isStop => isStop', Finishing' => Finishing
  PROVE  Counting'
<1>1. /\ Asleep' = Asleep /\ Failing' = Failing /\ Gone' = Gone /\ Locking' = Locking
      /\ OnTheWay' = OnTheWay /\ Working' = Working
  BY NobodyMoves
<1>2. Due' \subseteq Due
  BY DEF Due, Announced
<1>3. NotYetJoined' => NotYetJoined
  BY DEF NotYetJoined
<1>4. PredicateSees'
  BY <1>1, SeesFrame DEF PoolInv, Counting
<1>5. Conserved'
  BY <1>1, ConservedFrame DEF PoolInv, Counting
<1>6. DueHaveWorkers'
  BY <1>1, <1>2, <1>3, DueFrame DEF PoolInv, Counting
<1> QED
  BY <1>4, <1>5, <1>6 DEF Counting

\* The steps of the controller but those that start or wake workers.
LEMMA CountController ==
  ASSUME PoolInv,
         \/ \E S \in SUBSET threads : Shrink(S)
         \/ \E which \in {"pop", "clear_queue"} : CallPop(which)
         \/ ControllerPop \/ ControllerDoomed \/ ControllerFails \/ StopNow \/ SetFlags \/ Join
         \/ Destroy
  PROVE  Counting'
<1> USE DEF stopVars, history, bounds
<1>1. /\ Controller \in Poppers /\ \A w \in Workers : w \in Poppers /\ w # Controller
      /\ pc \in [Poppers -> WorkerPC \cup ControllerPC] /\ seen \in [Poppers -> SUBSET Tasks]
      /\ fate \in [Tasks -> Fates]
  BY NoneAssumption DEF Poppers, PoolInv, PoolTypeOK
<1>2. CASE \E S \in SUBSET threads : Shrink(S)
  <2>1. PICK S \in SUBSET threads : Shrink(S)
    BY <1>2
  <2>2. /\ UNCHANGED <<fate, pushing, isDone, isStop, seen, blinded, early>>
        /\ flagged \subseteq flagged' /\ pc' = [pc EXCEPT ![Controller] = "shrunk"]
    BY <2>1 DEF Shrink, Goto
  <2>3. queue' = queue /\ Announced' = Announced /\ ~Finishing'
    BY <1>1, <2>2 DEF queue, Announced, Finishing
  <2> QED
    BY <1>1, <2>2, <2>3, CountStill
<1>3. ASSUME UNCHANGED <<fate, pushing, flagged, isDone, blinded, early>>, isStop => isStop',
             NEW label \in {"pop", "doomed", "flag", "destroyed"},
             pc' = [pc EXCEPT ![Controller] = label], \A w \in Workers : seen'[w] = seen[w]
      PROVE  Counting'
  <2>1. queue' = queue /\ Announced' = Announced /\ ~Finishing'
    BY <1>1, <1>3 DEF queue, Announced, Finishing
  <2> QED
    BY <1>1, <1>3, <2>1, CountStill
<1>4. CASE \E which \in {"pop", "clear_queue"} : CallPop(which)
  BY <1>1, <1>3, <1>4 DEF CallPop, BeginPop, Goto
<1>5. CASE ControllerDoomed
  BY <1>1, <1>3, <1>5 DEF ControllerDoomed, Goto
<1>6. CASE StopNow
  BY <1>1, <1>3, <1>6 DEF StopNow, Goto
<1>7. CASE Join
  BY <1>1, <1>3, <1>7 DEF Join, BeginPop, Goto
<1>8. CASE Destroy
  BY <1>1, <1>3, <1>8 DEF Destroy, Goto
<1>9. CASE SetFlags
  <2>1. /\ UNCHANGED <<fate, pushing, isDone, isStop, blinded, early>>
        /\ flagged \subseteq flagged' /\ pc' = [pc EXCEPT ![Controller] = "pop"]
        /\ \A w \in Workers : seen'[w] = seen[w]
    BY <1>1, <1>9 DEF SetFlags, BeginPop, Goto
  <2>2. queue' = queue /\ Announced' = Announced /\ ~Finishing'
    BY <1>1, <2>1 DEF queue, Announced, Finishing
  <2> QED
    BY <1>1, <2>1, <2>2, CountStill
<1>10. CASE ControllerFails
  <2>1. PICK hidden \in MayBeHidden(Controller) :
          /\ seen' = [p \in Poppers |-> seen[p] \ hidden]
          /\ blinded' = (blinded \/ hidden # {})
    BY <1>10 DEF ControllerFails
  <2>2. /\ UNCHANGED <<fate, pushing, flagged, isDone, isStop, early>>
        /\ pc' = [pc EXCEPT ![Controller] = IF call = "stop" THEN "notify" ELSE "idle"]
    BY <1>10 DEF ControllerFails, Goto
  <2>3. queue' = queue /\ Announced' = Announced
    BY <2>2 DEF queue, Announced
  <2>4. ~Finishing'
    BY <1>1, <2>2 DEF Finishing, PoolInv, ControllerOK
  <2>5. ~blinded' => \A w \in Workers : seen'[w] = seen[w]
    BY <1>1, <2>1
  <2> QED
    BY <1>1, <2>1, <2>2, <2>3, <2>4, <2>5, CountStill
<1>11. CASE ControllerPop
  <2>1. PICK k \in queue, hidden \in MayBeHidden(Controller) :
          /\ fate' = [fate EXCEPT ![k] = IF call = "pop" THEN "taken" ELSE "deleted"]
          /\ seen' = [p \in Poppers |->
                       IF p # Controller THEN seen[p] \ ({k} \cup hidden)
                       ELSE IF call = "pop" THEN {} ELSE queue \ {k}]
          /\ blinded' = (blinded \/ hidden # {})
    BY <1>11 DEF ControllerPop
  <2>2. /\ UNCHANGED <<pushing, flagged, isDone, isStop, early>> /\ pc[Controller] = "pop"
        /\ pc' = [pc EXCEPT ![Controller] = "idle"] \/ pc' = pc
    BY <1>11 DEF ControllerPop, Goto
  <2>3. queue' = queue \ {k}
    BY <1>1, <2>1 DEF queue
  <2>4. ~Finishing' /\ \A w \in Workers : pc'[w] = pc[w]
    BY <1>1, <2>2 DEF Finishing
  <2>5. ~blinded' => \A w \in Workers : seen'[w] = seen[w] \ {k}
    BY <1>1, <2>1
  <2>6. ~blinded' => \A w \in Workers : Announced' \ seen'[w] \subseteq Announced \ seen[w]
    BY <2>2, <2>3, <2>5 DEF Announced
  <2> QED
    BY <2>1, <2>2, <2>3, <2>4, <2>6, CountStill
<1> QED
  BY <1>2, <1>4, <1>5, <1>6, <1>7, <1>8, <1>9, <1>10, <1>11

\* A worker that is started works; notify_all leaves nobody asleep.
LEMMA CountGrow ==
  ASSUME PoolInv, NotifyAll \/ \E w \in Workers : Grow(w)
  PROVE  Counting'
<1>1. /\ Controller \in Poppers /\ \A w \in Workers : w \in Poppers /\ w # Controller
      /\ pc \in [Poppers -> WorkerPC \cup ControllerPC] /\ seen \in [Poppers -> SUBSET Tasks]
  BY NoneAssumption DEF Poppers, PoolInv, PoolTypeOK
<1>2. UNCHANGED <<fate, pushing, flagged, isDone, isStop, blinded, early>>
  BY DEF NotifyAll, Grow, stopVars, history
<1>3. queue' = queue /\ Announced' = Announced /\ Due' = Due
  BY <1>2 DEF queue, Announced, Due
<1>4. ASSUME NEW w \in Workers,
             \/ pc[w] = "unborn" /\ pc'[w] = "pop"
             \/ pc[w] = "asleep" /\ pc'[w] = "lock"
             \/ pc'[w] = pc[w] /\ seen'[w] = seen[w]
      PROVE  /\ w \in Locking => w \in Locking'
             /\ w \in OnTheWay => w \in OnTheWay'
             /\ w \in Working => w \in Working'
             /\ w \in (Asleep \cup Failing)' => w \in Asleep \cup Failing
             /\ w \in Gone' => w \in Gone
             /\ pc'[w] = "try" => pc[w] = "try" /\ seen'[w] = seen[w]
  BY <1>4 DEF Locking, OnTheWay, Working, Asleep, Failing, Gone
<1>5. \A w \in Workers : \/ pc[w] = "unborn" /\ pc'[w] = "pop"
                         \/ pc[w] = "asleep" /\ pc'[w] = "lock"
                         \/ pc'[w] = pc[w] /\ seen'[w] = seen[w]
  <2>1. CASE NotifyAll
    BY <1>1, <2>1 DEF NotifyAll, Asleep
  <2>2. CASE \E w \in Workers : Grow(w)
    BY <1>1, <2>2 DEF Grow, BeginPop, Goto
  <2> QED
    BY <2>1, <2>2
<1>6. Finishing' => Finishing
  <2>1. CASE NotifyAll
    BY <1>1, <1>2, <2>1 DEF NotifyAll, Finishing, PoolInv
  <2>2. CASE \E w \in Workers : Grow(w)
    BY <1>1, <1>2, <2>2 DEF Grow, Finishing, BeginPop, Goto
  <2> QED
    BY <2>1, <2>2
<1>7. NotYetJoined' => NotYetJoined
  BY <1>2, <1>6 DEF NotYetJoined
<1>8. /\ Locking \subseteq Locking' /\ OnTheWay \subseteq OnTheWay' /\ Working \subseteq Working'
      /\ (Asleep \cup Failing)' \subseteq Asleep \cup Failing /\ Gone' \subseteq Gone
  BY <1>4, <1>5 DEF Locking, OnTheWay, Working, Asleep, Failing, Gone
<1>9. \A w \in Workers : pc'[w] = "try" => pc[w] = "try" /\ seen'[w] = seen[w]
  BY <1>4, <1>5
<1>10. PredicateSees'
  BY <1>2, <1>3, <1>8, <1>9, SeesFrame DEF PoolInv, Counting
<1>11. Conserved'
  BY <1>2, <1>3, <1>8, ConservedFrame DEF PoolInv, Counting
<1>12. DueHaveWorkers'
  BY <1>2, <1>3, <1>7, <1>8, DueFrame DEF PoolInv, Counting
<1> QED
  BY <1>10, <1>11, <1>12 DEF Counting

\* stop(true): what is due are from now on the tasks that are announced.
LEMMA CountStop ==
  ASSUME PoolInv, StopWhenDone
  PROVE  Counting'
<1>1. /\ ~isDone /\ ~isStop /\ isDone' = TRUE
      /\ early' = IF threads = {} THEN {} ELSE queue \ pushing
      /\ pc' = [pc EXCEPT ![Controller] = "notify"]
      /\ UNCHANGED <<fate, pushing, flagged, isStop, seen, blinded>>
  BY DEF StopWhenDone, Goto
<1>2. \A w \in Workers : pc'[w] = pc[w]
  BY <1>1, NoneAssumption DEF PoolInv, PoolTypeOK, Poppers
<1>3. /\ Asleep' = Asleep /\ Failing' = Failing /\ Gone' = Gone /\ Locking' = Locking
      /\ OnTheWay' = OnTheWay /\ Working' = Working
  BY <1>2, NobodyMoves
<1>4. queue' = queue /\ Announced' = Announced /\ Due' \subseteq Due
  BY <1>1 DEF queue, Announced, Due
<1>5. PredicateSees'
  BY <1>1, <1>2, <1>3, <1>4, SeesFrame DEF PoolInv, Counting
<1>6. Conserved'
  BY <1>1, <1>3, <1>4, ConservedFrame DEF PoolInv, Counting
<1>7. NotYetJoined
  BY <1>1 DEF NotYetJoined
<1>8. DueHaveWorkers'
  BY <1>1, <1>3, <1>4, <1>7, DueFrame DEF PoolInv, Counting
<1> QED
  BY <1>5, <1>6, <1>8 DEF Counting

-----------------------------------------------------------------------------
(* The invariants that do not count.                                       *)

\* A step of a worker or of a push leaves the controller where it is.
WorkerOrPush ==
  \/ \E k \in Tasks : Enqueue(k) \/ NotifyOne(k)
  \/ \E w \in Workers : WorkerStep(w) \/ SpuriousWakeup(w) \/ EndTask(w)

LEMMA ControllerWaits ==
  ASSUME PoolTypeOK, WorkerOrPush
  PROVE  /\ UNCHANGED <<threads, flagged, isDone, isStop, call, early>>
         /\ pc'[Controller] = pc[Controller] /\ (blinded => blinded')
         /\ \A w \in Workers : pc[w] = "unborn" => pc'[w] = "unborn"
         /\ \A w \in Workers : pc'[w] = "gone" /\ pc[w] # "gone" => isDone \/ w \in flagged
<1> USE NoneAssumption DEF PoolTypeOK, Poppers, Goto, BeginPop, stopVars, bounds, history
<1>1. ASSUME NEW k \in Tasks, Enqueue(k) \/ NotifyOne(k)
      PROVE  /\ UNCHANGED <<threads, flagged, isDone, isStop, call, early, blinded>>
             /\ pc'[Controller] = pc[Controller]
             /\ \A w \in Workers : pc'[w] = pc[w] \/ (pc[w] = "asleep" /\ pc'[w] = "lock")
  BY <1>1 DEF Enqueue, NotifyOne, Asleep
<1>2. ASSUME NEW v \in Workers, WorkerStep(v) \/ SpuriousWakeup(v) \/ EndTask(v)
      PROVE  /\ UNCHANGED <<threads, flagged, isDone, isStop, call, early>>
             /\ pc'[Controller] = pc[Controller] /\ (blinded => blinded')
             /\ pc[v] # "unborn" /\ \A w \in Workers \ {v} : pc'[w] = pc[w]
             /\ pc'[v] = "gone" => isDone \/ v \in flagged
  <2>1. CASE Pop(v)
    BY <2>1 DEF Pop
  <2>2. CASE PopDoomed(v)
    BY <2>2 DEF PopDoomed
  <2>3. CASE PopFails(v)
    BY <2>3 DEF PopFails
  <2>4. CASE ReadFlag(v)
    BY <2>4 DEF ReadFlag
  <2>5. CASE Lock(v)
    BY <2>5 DEF Lock, AfterLock
  <2>6. CASE Decide(v)
    BY <2>6 DEF Decide, Leaves
  <2>7. CASE SpuriousWakeup(v)
    BY <2>7 DEF SpuriousWakeup
  <2>8. CASE EndTask(v)
    BY <2>8 DEF EndTask
  <2> QED
    BY <1>2, <2>1, <2>2, <2>3, <2>4, <2>5, <2>6, <2>7, <2>8 DEF WorkerStep
<1> QED
  BY <1>1, <1>2 DEF WorkerOrPush

\* Every step keeps what the controller's step says of the flags and of the vector.
LEMMA ControllerKept ==
  ASSUME PoolInv, PoolNext
  PROVE  ControllerOK'
<1>1. /\ Controller \in Poppers /\ \A w \in Workers : w \in Poppers /\ w # Controller
      /\ pc \in [Poppers -> WorkerPC \cup ControllerPC] /\ pc[Controller] \in ControllerPC
      /\ call \in Calls
  BY NoneAssumption DEF Poppers, PoolInv, PoolTypeOK
<1>2. ControllerOK
  BY DEF PoolInv
<1>3. CASE WorkerOrPush
  <2>1. /\ UNCHANGED <<threads, flagged, isDone, isStop, call>>
        /\ pc'[Controller] = pc[Controller]
        /\ \A w \in Workers : pc[w] = "unborn" => pc'[w] = "unborn"
    BY <1>3, ControllerWaits DEF PoolInv
  <2> QED
    BY <1>2, <2>1 DEF ControllerOK, NotYetJoined, Finishing
<1> USE DEF stopVars, history, bounds, Goto, BeginPop, ControllerOK, NotYetJoined, Finishing
<1>4. CASE NotifyAll
  BY <1>1, <1>2, <1>4 DEF NotifyAll, Asleep
<1>5. CASE ControllerPop
  BY <1>1, <1>2, <1>5 DEF ControllerPop
<1>6. CASE ControllerDoomed
  BY <1>1, <1>2, <1>6 DEF ControllerDoomed
<1>7. CASE ControllerFails
  BY <1>1, <1>2, <1>7 DEF ControllerFails
<1>8. CASE SetFlags
  BY <1>1, <1>2, <1>8 DEF SetFlags
<1>9. CASE Join
  BY <1>1, <1>2, <1>9 DEF Join
<1>10. CASE Destroy
  BY <1>1, <1>2, <1>10 DEF Destroy
<1>11. ASSUME NEW w \in Workers, Grow(w) PROVE ControllerOK'
  BY <1>1, <1>2, <1>11 DEF Grow
<1>12. ASSUME NEW S \in SUBSET threads, Shrink(S) PROVE ControllerOK'
  BY <1>1, <1>2, <1>12 DEF Shrink
<1>13. ASSUME NEW which \in {"pop", "clear_queue"}, CallPop(which) PROVE ControllerOK'
  BY <1>1, <1>2, <1>13 DEF CallPop
<1>14. CASE StopNow
  BY <1>1, <1>2, <1>14 DEF StopNow
<1>15. CASE StopWhenDone
  BY <1>1, <1>2, <1>15 DEF StopWhenDone
<1> QED
  BY <1>3, <1>4, <1>5, <1>6, <1>7, <1>8, <1>9, <1>10, <1>11, <1>12, <1>13, <1>14, <1>15
  DEF PoolNext, PoolStep, ControllerStep, ControllerCall, WorkerOrPush

\* What becomes of a task in a step.
LEMMA Fate ==
  ASSUME PoolInv, PoolNext
  PROVE  /\ fate' \in [Tasks -> Fates]
         /\ \A k \in Tasks :
              \/ fate'[k] = fate[k]
              \/ fate[k] = "new" /\ fate'[k] = "queued"
              \/ fate[k] = "queued" /\ fate'[k] = "popped"
              \/ fate[k] = "queued" /\ pc[Controller] = "pop"
              \/ fate'[k] = "done" /\ \E w \in Workers : func[w] = k
         /\ \A k \in Tasks : fate'[k] = "new" => fate[k] = "new"
<1> USE DEF PoolInv, PoolTypeOK, Fates
<1>1. ASSUME NEW k \in Tasks, Enqueue(k) \/ NotifyOne(k)
      PROVE  fate' = fate \/ (fate[k] = "new" /\ fate' = [fate EXCEPT ![k] = "queued"])
  BY <1>1 DEF Enqueue, NotifyOne
<1>2. ASSUME NEW w \in Workers, WorkerStep(w) \/ SpuriousWakeup(w)
      PROVE  fate' = fate \/ \E k \in queue : fate' = [fate EXCEPT ![k] = "popped"]
  BY <1>2 DEF WorkerStep, Pop, PopDoomed, PopFails, ReadFlag, Lock, Decide, SpuriousWakeup
<1>3. ASSUME NEW w \in Workers, EndTask(w)
      PROVE  func[w] \in Tasks /\ fate' = [fate EXCEPT ![func[w]] = "done"]
  BY <1>3 DEF EndTask
<1>4. CASE ControllerPop
  BY <1>4 DEF ControllerPop, queue
<1>5. CASE Destroy \/ ControllerCall \/ (ControllerStep /\ ~ControllerPop)
  <2>1. fate' = fate
    BY <1>5
    DEF Destroy, ControllerCall, Grow, Shrink, CallPop, StopNow, StopWhenDone, ControllerStep,
        NotifyAll, ControllerDoomed, ControllerFails, SetFlags, Join
  <2> QED
    BY <2>1
<1> QED
  BY <1>1, <1>2, <1>3, <1>4, <1>5 DEF PoolNext, PoolStep, ControllerStep, queue

\* A task that is popped from the queue is run by the worker that popped it.
LEMMA PoppedKept ==
  ASSUME PoolInv, PoolNext
  PROVE  PoppedAreRun'
<1> USE DEF PoolInv, PoolTypeOK
<1>1. ASSUME UNCHANGED func, \A k \in Tasks : fate'[k] = "popped" => fate[k] = "popped"
      PROVE  PoppedAreRun'
  BY <1>1 DEF PoppedAreRun
<1>2. ASSUME NEW w \in Workers, Pop(w) PROVE PoppedAreRun'
  <2>1. PICK k \in queue : /\ fate' = [fate EXCEPT ![k] = "popped"]
                           /\ func' = [func EXCEPT ![w] = k]
    BY <1>2 DEF Pop
  <2>2. func[w] = None
    BY <1>2 DEF Pop
  <2> QED
    BY <2>1, <2>2, NoneAssumption DEF PoppedAreRun, queue
<1>3. ASSUME NEW w \in Workers, EndTask(w) PROVE PoppedAreRun'
  BY <1>3, NoneAssumption DEF PoppedAreRun, EndTask
<1>4. ASSUME NEW k \in Tasks, Enqueue(k) \/ NotifyOne(k) PROVE PoppedAreRun'
  BY <1>1, <1>4 DEF Enqueue, NotifyOne
<1>5. ASSUME NEW w \in Workers, (WorkerStep(w) /\ ~Pop(w)) \/ SpuriousWakeup(w)
      PROVE  PoppedAreRun'
  BY <1>1, <1>5 DEF WorkerStep, PopDoomed, PopFails, ReadFlag, Lock, Decide, SpuriousWakeup
<1>6. CASE ControllerPop
  BY <1>1, <1>6 DEF ControllerPop, Fates
<1>7. CASE Destroy \/ ControllerCall \/ (ControllerStep /\ ~ControllerPop)
  <2>1. fate' = fate /\ func' = func
    BY <1>7
    DEF Destroy, ControllerCall, Grow, Shrink, CallPop, StopNow, StopWhenDone, ControllerStep,
        NotifyAll, ControllerDoomed, ControllerFails, SetFlags, Join
  <2> QED
    BY <1>1, <2>1
<1> QED
  BY <1>2, <1>3, <1>4, <1>5, <1>6, <1>7 DEF PoolNext, PoolStep

\* What a step of the controller but stop(true) and the join leaves as it was.
LEMMA ControllerMoves ==
  ASSUME PoolInv, ControllerStep \/ ControllerCall \/ Destroy
  PROVE  /\ UNCHANGED pushing /\ Gone' \subseteq Gone
         /\ flagged' = {} => flagged = {}
         /\ isStop => isStop'
         /\ ~StopWhenDone => UNCHANGED <<isDone, early>>
         /\ ~StopWhenDone /\ ~Join /\ Finishing => Finishing' /\ UNCHANGED threads
         /\ ~StopWhenDone /\ Finishing' => Finishing
         /\ blinded => blinded'
<1>1. /\ Controller \in Poppers /\ \A w \in Workers : w \in Poppers /\ w # Controller
      /\ pc \in [Poppers -> WorkerPC \cup ControllerPC] /\ ControllerOK
      /\ flagged \subseteq Workers
  BY NoneAssumption DEF Poppers, PoolInv, PoolTypeOK
<1> USE DEF stopVars, history, bounds, Goto, BeginPop, Gone, Finishing, ControllerOK
<1>2. CASE NotifyAll
  BY <1>1, <1>2 DEF NotifyAll, Asleep, StopWhenDone
<1>3. CASE ControllerPop
  BY <1>1, <1>3 DEF ControllerPop, StopWhenDone
<1>4. CASE ControllerDoomed
  BY <1>1, <1>4 DEF ControllerDoomed, StopWhenDone
<1>5. CASE ControllerFails
  BY <1>1, <1>5 DEF ControllerFails, StopWhenDone
<1>6. CASE SetFlags
  BY <1>1, <1>6 DEF SetFlags, StopWhenDone
<1>7. CASE Join
  BY <1>1, <1>7 DEF Join, StopWhenDone
<1>8. CASE Destroy
  BY <1>1, <1>8 DEF Destroy, StopWhenDone
<1>9. CASE ControllerCall
  BY <1>1, <1>9 DEF ControllerCall, Grow, Shrink, CallPop, StopNow, StopWhenDone
<1> QED
  BY <1>2, <1>3, <1>4, <1>5, <1>6, <1>7, <1>8, <1>9 DEF ControllerStep

\* When the threads are joined, all that stop(true) has to run is run.
LEMMA JoinedAreDone ==
  ASSUME PoolInv, Join, Finishing, ~blinded, flagged = {}, NEW k \in early
  PROVE  fate[k] = "done"
<1>1. /\ JoinEnds /\ isDone /\ NotYetJoined /\ k \in Tasks
      /\ \A x \in early : fate[x] \in {"queued", "popped", "done"}
      /\ threads # {} /\ threads \subseteq Workers
  BY DEF Join, Finishing, NotYetJoined, PoolInv, EarlyOK, PoolTypeOK
<1>2. \A w \in Workers : pc[w] \in {"unborn", "gone"}
  BY <1>1 DEF JoinEnds, PoolInv, ControllerOK
<1>3. Gone # {} /\ OnTheWay \cup Working = {}
  BY <1>1, <1>2 DEF JoinEnds, Gone, OnTheWay, Working
<1>4. k \notin queue
  <2>1. Cardinality(Due) <= Cardinality(OnTheWay \cup Working)
    BY <1>1, <1>3 DEF PoolInv, Counting, DueHaveWorkers
  <2>2. Cardinality(Due) \in Nat /\ IsFiniteSet(Due)
    BY Numbers, Parts DEF PoolInv
  <2>3. Cardinality(Due) = 0
    BY <1>3, <2>1, <2>2, FS_EmptySet
  <2>4. Due = {}
    BY <2>2, <2>3, FS_EmptySet
  <2> QED
    BY <1>1, <2>4 DEF Due
<1>5. fate[k] # "popped"
  <2> SUFFICES ASSUME fate[k] = "popped" PROVE FALSE
    OBVIOUS
  <2>1. PICK w \in Workers : func[w] = k
    BY <1>1 DEF PoolInv, PoppedAreRun
  <2> QED
    BY <1>1, <1>2, <2>1, NoneAssumption DEF PoolInv, PoolTypeOK
<1> QED
  BY <1>1, <1>4, <1>5 DEF queue

\* Every step keeps the promise of stop(true).
LEMMA EarlyKept ==
  ASSUME PoolInv, PoolNext
  PROVE  EarlyOK'
<1>1. /\ early \subseteq Tasks /\ pushing \subseteq Tasks /\ fate \in [Tasks -> Fates]
      /\ early \cap pushing = {} /\ \A k \in early \cup pushing : fate[k] # "new"
  BY DEF PoolInv, PoolTypeOK, EarlyOK
<1>2. \A k \in Tasks : fate[k] # "new" => fate'[k] # "new"
  BY Fate
<1>3. \A k \in early : fate[k] = "done" => fate'[k] = "done"
  BY <1>1, Fate
<1>4. ASSUME Finishing, NEW k \in early, fate[k] \in {"queued", "popped", "done"}
      PROVE  fate'[k] \in {"queued", "popped", "done"}
  <2>1. pc[Controller] # "pop"
    BY <1>4 DEF Finishing
  <2> QED
    BY <1>1, <1>4, <2>1, Fate
<1>5. CASE WorkerOrPush
  <2>1. /\ UNCHANGED <<threads, flagged, isDone, isStop, early>>
        /\ pc'[Controller] = pc[Controller] /\ (blinded => blinded')
        /\ \A w \in Workers : pc'[w] = "gone" /\ pc[w] # "gone" => isDone \/ w \in flagged
    BY <1>5, ControllerWaits DEF PoolInv
  <2>2. Finishing' <=> Finishing
    BY <2>1 DEF Finishing
  <2>3. \/ pushing' \subseteq pushing
        \/ \E k \in Tasks : fate[k] = "new" /\ fate'[k] # "new" /\ pushing' = pushing \cup {k}
    BY <1>1, <1>5
    DEF WorkerOrPush, Enqueue, NotifyOne, WorkerStep, Pop, PopDoomed, PopFails, ReadFlag, Lock,
        Decide, SpuriousWakeup, EndTask
  <2>4. early' \cap pushing' = {} /\ \A k \in early' \cup pushing' : fate'[k] # "new"
    BY <1>1, <1>2, <2>1, <2>3
  <2>5. flagged' = {} /\ ~isDone' => Gone' = {}
    BY <2>1 DEF Gone, PoolInv, EarlyOK
  <2> QED
    BY <1>3, <1>4, <2>1, <2>2, <2>4, <2>5 DEF PoolInv, EarlyOK
<1>6. CASE StopWhenDone
  <2>1. /\ ~isDone /\ ~isStop /\ isDone' = TRUE /\ pc' = [pc EXCEPT ![Controller] = "notify"]
        /\ early' = IF threads = {} THEN {} ELSE queue \ pushing
        /\ UNCHANGED <<fate, pushing, flagged, isStop, threads>>
    BY <1>6 DEF StopWhenDone, Goto
  <2>2. Finishing'
    BY <2>1 DEF Finishing, PoolInv, PoolTypeOK, Poppers
  <2> QED
    BY <1>1, <2>1, <2>2 DEF EarlyOK, queue
<1>7. CASE (ControllerStep \/ ControllerCall \/ Destroy) /\ ~StopWhenDone
  <2>1. /\ UNCHANGED <<pushing, isDone, early>> /\ Gone' \subseteq Gone
        /\ flagged' = {} => flagged = {}
        /\ ~Join /\ Finishing => Finishing' /\ UNCHANGED threads
        /\ Finishing' => Finishing
        /\ blinded => blinded'
    BY <1>7, ControllerMoves
  <2>2. early' \cap pushing' = {} /\ \A k \in early' \cup pushing' : fate'[k] # "new"
    BY <1>1, <1>2, <2>1
  <2>3. flagged' = {} /\ ~isDone' => Gone' = {}
    BY <2>1 DEF PoolInv, EarlyOK
  <2>4. ASSUME isDone, ~blinded, flagged = {}, ~Finishing' PROVE \A k \in early : fate'[k] = "done"
    <3>1. CASE Finishing
      BY <1>3, <2>1, <2>4, <3>1, JoinedAreDone
    <3>2. CASE ~Finishing
      BY <1>3, <2>4, <3>2 DEF PoolInv, EarlyOK
    <3> QED
      BY <3>1, <3>2
  <2>5. ASSUME isDone, ~blinded, flagged = {}, Finishing'
        PROVE  /\ \A k \in early : fate'[k] \in {"queued", "popped", "done"}
               /\ threads' = {} => early = {}
    <3>1. Finishing /\ ~Join
      BY <2>1, <2>5, NoneAssumption
      DEF Finishing, Join, BeginPop, Goto, PoolInv, PoolTypeOK, Poppers
    <3> QED
      BY <1>4, <2>1, <2>5, <3>1 DEF PoolInv, EarlyOK
  <2> QED
    BY <2>1, <2>2, <2>3, <2>4, <2>5 DEF EarlyOK
<1> QED
  BY <1>5, <1>6, <1>7 DEF PoolNext, PoolStep, WorkerOrPush

-----------------------------------------------------------------------------
(* The theorems.                                                           *)

\* The pool as constructed satisfies the invariant.
LEMMA PoolInvInit == PoolInit => PoolInv
<1> SUFFICES ASSUME PoolInit PROVE PoolInv
  OBVIOUS
<1>1. PoolTypeOK
  BY PoolTypeInit
<1>2. \A w \in Workers : pc[w] \in {"pop", "unborn"}
  BY NoneAssumption DEF PoolInit, Poppers
<1>3. Asleep = {} /\ Failing = {} /\ Gone = {}
  BY <1>2 DEF Asleep, Failing, Gone
<1>4. Counting
  BY <1>2, <1>3 DEF Counting, PredicateSees, Conserved, DueHaveWorkers
<1>5. ControllerOK
  BY NoneAssumption DEF PoolInit, ControllerOK, Poppers
<1>6. PoppedAreRun /\ EarlyOK
  BY <1>3 DEF PoolInit, PoppedAreRun, EarlyOK
<1> QED
  BY <1>1, <1>4, <1>5, <1>6 DEF PoolInv

\* Every step keeps it.
LEMMA PoolInvStep == PoolInv /\ [PoolNext]_poolVars => PoolInv'
<1> SUFFICES ASSUME PoolInv, [PoolNext]_poolVars PROVE PoolInv'
  OBVIOUS
<1>1. CASE UNCHANGED poolVars
  BY <1>1
  DEF poolVars, stopVars, bounds, history, PoolInv, PoolTypeOK, Counting, PredicateSees, Conserved,
      DueHaveWorkers, ControllerOK, PoppedAreRun, EarlyOK, Announced, Failing, Locking, Gone,
      Working, Finishing, NotYetJoined, Due, queue, Asleep, OnTheWay
<1>2. CASE PoolNext
  <2>1. PoolTypeOK'
    BY <1>2, PoolTypeWorker, PoolTypeController DEF PoolInv, PoolNext, PoolStep
  <2>2. Counting'
    BY <1>2, <2>1, CountEnqueue, CountNotify, CountPop, CountDoomed, CountFails, CountLock,
       CountWorker, CountController, CountGrow, CountStop
    DEF PoolNext, PoolStep, WorkerStep, ControllerStep, ControllerCall
  <2> QED
    BY <1>2, <2>1, <2>2, ControllerKept, PoppedKept, EarlyKept DEF PoolInv
<1> QED
  BY <1>1, <1>2

\* The invariant holds in every state of the pool.
THEOREM PoolInvariance == PoolSpec => []PoolInv
BY PoolInvInit, PoolInvStep, PTL DEF PoolSpec

\* The pool is work-conserving: while a worker sleeps, every queued task has a worker that is
\* about to pop, unless a push has yet to notify or a pop of the controller hid the task.
THEOREM WorkConserved == PoolSpec => []QueuedTaskIsSeen
<1>1. PoolInv => QueuedTaskIsSeen
  <2> SUFFICES ASSUME PoolInv, Asleep # {}, pushing = {}, ~blinded
               PROVE  Cardinality(queue) <= Cardinality(OnTheWay)
    BY DEF QueuedTaskIsSeen
  <2>1. Cardinality(queue) <= Cardinality(OnTheWay) + Cardinality(pushing)
    BY DEF PoolInv, Counting, Conserved
  <2>2. Cardinality(pushing) = 0 /\ Cardinality(OnTheWay) \in Nat
    BY Numbers, Parts, FS_EmptySet DEF PoolInv
  <2> QED
    BY <2>1, <2>2
<1> QED
  BY <1>1, PoolInvariance, PTL

\* stop(true) runs every task whose push had returned before it, if there are threads and
\* resize has detached none.
THEOREM StopRunsWhatWasPushed == PoolSpec => []StopRunsAll
<1>1. PoolInv => StopRunsAll
  BY DEF PoolInv, EarlyOK, ControllerOK, Finishing, StopRunsAll
<1> QED
  BY <1>1, PoolInvariance, PTL

=============================================================================
