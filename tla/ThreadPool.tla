----------------------------- MODULE ThreadPool -----------------------------
(***************************************************************************)
(* ctpl::thread_pool.  Clients push tasks into a ConcurrentQueue and then  *)
(* notify under the mutex; a worker pops outside the mutex when it starts  *)
(* and after each task, and under it in the predicate of cv.wait.  One     *)
(* controller calls resize, stop, pop, clear_queue and the destructor (a   *)
(* comment of the code asks for that).  Workers differ only in name, so    *)
(* the vector of threads is a set.                                         *)
(*                                                                         *)
(* What a pop of the queue promises: it may give any task that is queued,  *)
(* and it may fail although tasks are queued.  It surely sees a task that  *)
(* is queued from its beginning to its end, except that another pop that   *)
(* goes on meanwhile can hide tasks from it: one in each sub-queue (each   *)
(* pushing thread has its own) where that pop has a reservation or loses   *)
(* it (FailureIsExplained of ImplicitProducer).  So a pop that fails takes *)
(* two steps: it is doomed, and it returns.                                *)
(***************************************************************************)
EXTENDS Integers, FiniteSets

CONSTANTS
  Workers,     \* threads; every std::thread is a new one
  Tasks,
  Controller,
  InitialSizes,\* values of nThreads in the constructor
  MaxCalls,    \* bound on the calls of the controller (a turn of resize's loop counts as one)
  MaxSpurious, \* bound on the spurious wakeups
  None         \* no task, no thread

ASSUME NoneAssumption == Controller \notin Workers /\ None \notin Workers /\ None \notin Tasks
ASSUME SizeAssumption == InitialSizes \subseteq Nat /\ IsFiniteSet(Workers) /\ IsFiniteSet(Tasks)
ASSUME BoundsAssumption == MaxCalls \in Nat /\ MaxSpurious \in Nat

VARIABLES
  fate,     \* task -> what has become of it
  pushing,  \* tasks that are in q and whose push has not notified yet
  threads,  \* the threads in the vector
  flagged,  \* threads whose flag is true
  isDone, isStop,
  mutex,    \* the worker that holds the mutex
  pc,       \* worker or controller -> its next step
  seen,     \* worker or controller -> tasks that its pop is sure to see
  func,     \* worker -> the task it has popped
  call,     \* what the controller pops for
  calls,    \* calls of the controller so far
  spurious, \* spurious wakeups so far
  blinded,  \* history: a task was hidden by a pop of the controller, or of a worker that found
            \* a task or hid two, which takes several sub-queues
  early     \* history: tasks whose push had returned when stop(true) began

poolVars == <<fate, pushing, threads, flagged, isDone, isStop, mutex, pc, seen, func, call, calls,
              spurious, blinded, early>>
stopVars == <<flagged, isDone, isStop>>
bounds == <<calls, spurious>>
history == <<blinded, early>>

Fates == {"new", "queued", "popped", "done", "deleted", "taken"}
Poppers == Workers \cup {Controller}
WorkerPC == {"unborn", "pop", "doomed", "run", "ran", "lock", "try", "try_doomed", "decide",
             "asleep", "gone"}
ControllerPC == {"idle", "pop", "doomed", "shrunk", "flag", "notify", "join", "destroyed"}
Calls == {"none", "pop", "clear_queue", "stop", "rest"}
InMonitor == {"try", "try_doomed", "decide"}

queue == {k \in Tasks : fate[k] = "queued"}
Asleep == {w \in Workers : pc[w] = "asleep"}
Popping == {p \in Poppers : pc[p] \in {"pop", "doomed", "try", "try_doomed"}}

PoolTypeOK ==
  /\ fate \in [Tasks -> Fates] /\ pushing \subseteq Tasks
  /\ threads \subseteq Workers /\ flagged \subseteq Workers
  /\ isDone \in BOOLEAN /\ isStop \in BOOLEAN
  /\ mutex \in Workers \cup {None}
  /\ pc \in [Poppers -> WorkerPC \cup ControllerPC]
  /\ pc[Controller] \in ControllerPC
  /\ \A w \in Workers : pc[w] \in WorkerPC /\ (pc[w] \in InMonitor <=> mutex = w)
  /\ seen \in [Poppers -> SUBSET Tasks]
  /\ func \in [Workers -> Tasks \cup {None}]
  /\ \A w \in Workers : pc[w] = "run" <=> func[w] # None
  /\ \A w \in threads : pc[w] # "unborn"
  /\ call \in Calls /\ calls \in 0..MaxCalls /\ spurious \in 0..MaxSpurious
  /\ blinded \in BOOLEAN /\ early \subseteq Tasks

\* The first workers are started by the constructor's resize.
PoolInit ==
  /\ fate = [k \in Tasks |-> "new"] /\ pushing = {}
  /\ threads \in SUBSET Workers /\ Cardinality(threads) \in InitialSizes
  /\ flagged = {} /\ isDone = FALSE /\ isStop = FALSE /\ mutex = None
  /\ pc = [p \in Poppers |-> IF p = Controller THEN "idle"
                             ELSE IF p \in threads THEN "pop" ELSE "unborn"]
  /\ seen = [p \in Poppers |-> {}]
  /\ func = [w \in Workers |-> None]
  /\ call = "none" /\ calls = 0 /\ spurious = 0 /\ blinded = FALSE /\ early = {}

Goto(p, label) == pc' = [pc EXCEPT ![p] = label]

\* A pop begins.
BeginPop(p, label) ==
  /\ Goto(p, label)
  /\ seen' = [seen EXCEPT ![p] = queue]

MayFail(p) == seen[p] = {} \/ Popping \ {p} # {}

\* What the pop of p, when it returns, may have hidden from the others.
MayBeHidden(p) == SUBSET UNION {seen[q] : q \in Poppers \ {p}}

-----------------------------------------------------------------------------
(* push: enqueue, and then notify_one under the mutex, which sends a       *)
(* sleeper to lock the mutex again.                                        *)

Enqueue(k) ==
  /\ fate[k] = "new" /\ pc[Controller] # "destroyed"
  /\ fate' = [fate EXCEPT ![k] = "queued"]
  /\ pushing' = pushing \cup {k}
  /\ UNCHANGED <<threads, stopVars, mutex, pc, seen, func, call, bounds, history>>

\* Mutant of NotifyNeeds: push does not take the mutex.
NoLock == TRUE
NotifyNeeds == mutex = None

NotifyOne(k) ==
  /\ k \in pushing /\ NotifyNeeds
  /\ pushing' = pushing \ {k}
  /\ IF Asleep = {} THEN UNCHANGED pc ELSE \E w \in Asleep : Goto(w, "lock")
  /\ UNCHANGED <<fate, threads, stopVars, mutex, seen, func, call, bounds, history>>

-----------------------------------------------------------------------------
(* The function of a worker.                                               *)

\* Mutant of MutexAfterPop: a task is run under the mutex.
MutexKept(w) == mutex
\* cv.wait has returned, and the lock goes out of scope before the task is run.
MutexAfterPop(w) == IF mutex = w THEN None ELSE mutex

\* A worker's pop, outside the mutex or in the predicate, gives a task.
Pop(w) ==
  /\ pc[w] \in {"pop", "try"}
  /\ \E k \in queue, hidden \in MayBeHidden(w) :
       /\ k \notin hidden
       /\ fate' = [fate EXCEPT ![k] = "popped"]
       /\ func' = [func EXCEPT ![w] = k]
       /\ seen' = [p \in Poppers |-> IF p = w THEN {} ELSE seen[p] \ ({k} \cup hidden)]
       /\ blinded' = (blinded \/ hidden # {})
  /\ mutex' = MutexAfterPop(w)
  /\ Goto(w, "run")
  /\ UNCHANGED <<pushing, threads, stopVars, call, bounds, early>>

PopDoomed(w) ==
  /\ pc[w] \in {"pop", "try"} /\ MayFail(w)
  /\ Goto(w, IF pc[w] = "pop" THEN "doomed" ELSE "try_doomed")
  /\ blinded' = (blinded \/ Cardinality(seen[w]) > Cardinality(Popping \ {w, Controller}))
  /\ seen' = [seen EXCEPT ![w] = {}]
  /\ UNCHANGED <<fate, pushing, threads, stopVars, mutex, func, call, bounds, early>>

PopFails(w) ==
  /\ pc[w] \in {"doomed", "try_doomed"}
  /\ Goto(w, IF pc[w] = "doomed" THEN "lock" ELSE "decide")
  /\ \E hidden \in MayBeHidden(w) :
       /\ seen' = [p \in Poppers |-> seen[p] \ hidden]
       /\ blinded' = (blinded \/ Cardinality(hidden) > 1)
  /\ UNCHANGED <<fate, pushing, threads, stopVars, mutex, func, call, bounds, early>>

\* The task returns (a packaged_task keeps an exception) and is deleted.
EndTask(w) ==
  /\ pc[w] = "run"
  /\ fate' = [fate EXCEPT ![func[w]] = "done"]
  /\ func' = [func EXCEPT ![w] = None]
  /\ Goto(w, "ran")
  /\ UNCHANGED <<pushing, threads, stopVars, mutex, seen, call, bounds, history>>

ReadFlag(w) ==
  /\ pc[w] = "ran"
  /\ IF w \in flagged THEN Goto(w, "gone") /\ UNCHANGED seen ELSE BeginPop(w, "pop")
  /\ UNCHANGED <<fate, pushing, threads, stopVars, mutex, func, call, bounds, history>>

\* Mutant of AfterLock: a worker that was woken does not pop again.
AfterLockDecide == "decide"
AfterLock == "try"

Lock(w) ==
  /\ pc[w] = "lock" /\ mutex = None
  /\ mutex' = w
  /\ BeginPop(w, AfterLock)
  /\ UNCHANGED <<fate, pushing, threads, stopVars, func, call, bounds, history>>

Leaves(w) == isDone \/ w \in flagged

\* The rest of the predicate, and what follows it: the worker leaves or sleeps, and has
\* unlocked the mutex in both cases.
Decide(w) ==
  /\ pc[w] = "decide"
  /\ mutex' = None
  /\ Goto(w, IF Leaves(w) THEN "gone" ELSE "asleep")
  /\ seen' = [seen EXCEPT ![w] = {}]
  /\ UNCHANGED <<fate, pushing, threads, stopVars, func, call, bounds, history>>

SpuriousWakeup(w) ==
  /\ pc[w] = "asleep" /\ spurious < MaxSpurious
  /\ spurious' = spurious + 1
  /\ Goto(w, "lock")
  /\ UNCHANGED <<fate, pushing, threads, stopVars, mutex, seen, func, call, calls, history>>

-----------------------------------------------------------------------------
(* The controller: resize, pop, clear_queue, stop, the destructor.         *)

\* resize to more threads, one turn of the loop.
Grow(w) ==
  /\ pc[Controller] = "idle" /\ ~isStop /\ ~isDone /\ pc[w] = "unborn"
  /\ threads' = threads \cup {w}
  /\ BeginPop(w, "pop")
  /\ UNCHANGED <<fate, pushing, stopVars, mutex, func, call, spurious, history>>

\* resize to fewer: the threads of S are flagged and detached.  A flag is read by its own
\* thread only, so that they are set one after the other makes no difference.
Shrink(S) ==
  /\ pc[Controller] = "idle" /\ ~isStop /\ ~isDone /\ S # {}
  /\ flagged' = flagged \cup S
  /\ threads' = threads \ S
  /\ Goto(Controller, "shrunk")
  /\ UNCHANGED <<fate, pushing, isDone, isStop, mutex, seen, func, call, spurious, history>>

\* notify_all under the mutex, after resize and in stop.
NotifyAll ==
  /\ pc[Controller] \in {"shrunk", "notify"} /\ mutex = None
  /\ pc' = [p \in Poppers |->
              IF p = Controller THEN IF pc[p] = "shrunk" THEN "idle" ELSE "join"
              ELSE IF p \in Asleep THEN "lock" ELSE pc[p]]
  /\ UNCHANGED <<fate, pushing, threads, stopVars, mutex, seen, func, call, bounds,
                 history>>

CallPop(which) ==
  /\ pc[Controller] = "idle"
  /\ call' = which
  /\ BeginPop(Controller, "pop")
  /\ UNCHANGED <<fate, pushing, threads, stopVars, mutex, func, spurious, history>>

\* clear_queue deletes the task and pops again; pop() gives a copy to its caller.
ControllerPop ==
  /\ pc[Controller] = "pop"
  /\ \E k \in queue, hidden \in MayBeHidden(Controller) :
       /\ k \notin hidden
       /\ fate' = [fate EXCEPT ![k] = IF call = "pop" THEN "taken" ELSE "deleted"]
       /\ seen' = [p \in Poppers |->
                    IF p # Controller THEN seen[p] \ ({k} \cup hidden)
                    ELSE IF call = "pop" THEN {} ELSE queue \ {k}]
       /\ blinded' = (blinded \/ hidden # {})
  /\ IF call = "pop" THEN call' = "none" /\ Goto(Controller, "idle") ELSE UNCHANGED <<call, pc>>
  /\ UNCHANGED <<pushing, threads, stopVars, mutex, func, bounds, early>>

ControllerDoomed ==
  /\ pc[Controller] = "pop" /\ MayFail(Controller)
  /\ Goto(Controller, "doomed")
  /\ seen' = [seen EXCEPT ![Controller] = {}]
  /\ UNCHANGED <<fate, pushing, threads, stopVars, mutex, func, call, bounds, history>>

\* The pop returns false.  The last clear_queue of stop is followed by threads.clear().
ControllerFails ==
  /\ pc[Controller] = "doomed"
  /\ \E hidden \in MayBeHidden(Controller) :
       /\ seen' = [p \in Poppers |-> seen[p] \ hidden]
       /\ blinded' = (blinded \/ hidden # {})
  /\ Goto(Controller, IF call = "stop" THEN "notify" ELSE "idle")
  /\ threads' = IF call = "rest" THEN {} ELSE threads
  /\ call' = "none"
  /\ UNCHANGED <<fate, pushing, stopVars, mutex, func, bounds, early>>

\* stop(false) orders the threads to stop, and then clears the queue.
StopNow ==
  /\ pc[Controller] = "idle" /\ ~isStop
  /\ isStop' = TRUE
  /\ Goto(Controller, "flag")
  /\ UNCHANGED <<fate, pushing, threads, flagged, isDone, mutex, seen, func, call,
                 spurious, history>>

SetFlags ==
  /\ pc[Controller] = "flag"
  /\ flagged' = flagged \cup threads
  /\ call' = "stop"
  /\ BeginPop(Controller, "pop")
  /\ UNCHANGED <<fate, pushing, threads, isDone, isStop, mutex, func, bounds, history>>

\* stop(true), also from the destructor.
StopWhenDone ==
  /\ pc[Controller] = "idle" /\ ~isDone /\ ~isStop
  /\ isDone' = TRUE
  /\ early' = IF threads = {} THEN {} ELSE queue \ pushing
  /\ Goto(Controller, "notify")
  /\ UNCHANGED <<fate, pushing, threads, flagged, isStop, mutex, seen, func, call,
                 spurious, blinded>>

\* Mutant of JoinEnds: stop does not wait for the threads.
NoJoin == TRUE
JoinEnds == \A w \in threads : pc[w] = "gone"

Join ==
  /\ pc[Controller] = "join" /\ JoinEnds
  /\ call' = "rest"
  /\ BeginPop(Controller, "pop")
  /\ UNCHANGED <<fate, pushing, threads, stopVars, mutex, func, bounds, history>>

\* The destructor, once stop(true) has returned; no push is going on.
Destroy ==
  /\ pc[Controller] = "idle" /\ (isDone \/ isStop) /\ pushing = {}
  /\ Goto(Controller, "destroyed")
  /\ UNCHANGED <<fate, pushing, threads, stopVars, mutex, seen, func, call, bounds,
                 history>>

ControllerStep ==
  NotifyAll \/ ControllerPop \/ ControllerDoomed \/ ControllerFails \/ SetFlags \/ Join

ControllerCall ==
  /\ calls < MaxCalls /\ calls' = calls + 1
  /\ \/ \E w \in Workers : Grow(w)
     \/ \E S \in SUBSET threads : Shrink(S)
     \/ \E which \in {"pop", "clear_queue"} : CallPop(which)
     \/ StopNow \/ StopWhenDone

\* Every step of a worker but the end of its task.
WorkerStep(w) ==
  Pop(w) \/ PopDoomed(w) \/ PopFails(w) \/ ReadFlag(w) \/ Lock(w) \/ Decide(w)

\* Every step of the pool but the end of a task.
PoolStep ==
  \/ \E k \in Tasks : Enqueue(k) \/ NotifyOne(k)
  \/ \E w \in Workers : WorkerStep(w) \/ SpuriousWakeup(w)
  \/ ControllerStep \/ ControllerCall \/ Destroy

PoolNext == PoolStep \/ \E w \in Workers : EndTask(w)

PoolSpec == PoolInit /\ [][PoolNext]_poolVars

-----------------------------------------------------------------------------
(* Properties.                                                             *)

OnTheWay == {w \in Workers : pc[w] \in {"pop", "doomed", "lock", "try"}}

\* The pool is work-conserving: while a worker sleeps, each queued task has a worker that is
\* about to pop, not one that may be running something long or has been flagged to leave,
\* unless a push has yet to notify or a pop of the controller hid the task.  It is what
\* notify_one under the mutex and the pop in the predicate of cv.wait are for.
QueuedTaskIsSeen ==
  Asleep # {} => \/ Cardinality(queue) <= Cardinality(OnTheWay)
                 \/ pushing # {} \/ blinded

\* stop(true) runs the functions that were pushed before it (line 130), when there are
\* threads and resize has detached none.
StopRunsAll ==
  (call = "rest" \/ pc[Controller] = "destroyed") /\ isDone /\ ~blinded
    => flagged # {} \/ \A k \in early : fate[k] = "done"

=============================================================================
