--------------------------- MODULE BlockingQueue ---------------------------
(***************************************************************************)
(* BlockingConcurrentQueue: entries in the inner queue, permits in its     *)
(* LightweightSemaphore.  Producers enqueue first and signal then; a       *)
(* consumer that has got permits calls the inner queue until it has as     *)
(* many entries.  The entries are a number: only how many there are        *)
(* matters here.                                                           *)
(***************************************************************************)
EXTENDS LightweightSemaphore

CONSTANTS
  Producers,
  MaxBatch,   \* bound on the size of an enqueue_bulk
  MaxEntries  \* bound on the entries enqueued in a behaviour

ASSUME ProducersAssumption == IsFiniteSet(Producers)
ASSUME BatchAssumption == MaxBatch \in Nat \ {0} /\ MaxEntries \in Nat

VARIABLES
  entries,  \* entries in inner
  enqueued, \* history: how many entries were ever enqueued
  batch     \* producer -> entries it has enqueued and not signalled yet

queueVars == <<entries, enqueued, batch>>
vars == <<semaVars, queueVars>>

TypeOK ==
  /\ SemaTypeOK
  /\ entries \in Nat /\ enqueued \in 0 .. MaxEntries
  /\ batch \in [Producers -> 0 .. MaxBatch]

Init ==
  /\ SemaInit
  /\ entries = 0 /\ enqueued = 0
  /\ batch = [p \in Producers |-> 0]

\* enqueue, try_enqueue and their bulk forms; one that returns false changes nothing.
Enqueue(p, n) ==
  /\ batch[p] = 0 /\ enqueued + n <= MaxEntries
  /\ entries' = entries + n
  /\ enqueued' = enqueued + n
  /\ batch' = [batch EXCEPT ![p] = n]
  /\ UNCHANGED semaVars

\* Mutant of Signalled: the bulk forms signal as often as the others.
SignalledOnce(p) == 1
Signalled(p) == batch[p]

SignalBatch(p) ==
  /\ batch[p] > 0
  /\ Signal(Signalled(p))
  /\ batch' = [batch EXCEPT ![p] = 0]
  /\ UNCHANGED <<entries, enqueued>>

\* The inner queue gives n of the entries the call has permits for.
Fetch(t) ==
  /\ pc[t] = "return"
  /\ \E n \in 1 .. LeastOf(got[t], entries) :
       /\ entries' = entries - n
       /\ got' = [got EXCEPT ![t] = @ - n]
  /\ UNCHANGED <<count, kernel, posts, pc, timeout, max, phantoms, enqueued, batch>>

Return(t) ==
  /\ pc[t] = "return" /\ got[t] = 0
  /\ max' = [max EXCEPT ![t] = 0]
  /\ timeout' = [timeout EXCEPT ![t] = "none"]
  /\ Goto(t, "idle")
  /\ UNCHANGED <<count, kernel, posts, got, phantoms, queueVars>>

\* try_dequeue, wait_dequeue, wait_dequeue_timed and their bulk forms.
Dequeue(t) ==
  \E kind \in {"none", "timed", "forever"}, n \in 1 .. MaxBulk :
    Call(t, kind, n) /\ UNCHANGED queueVars

Step(t) ==
  \/ SemaStep(t) /\ UNCHANGED queueVars
  \/ Fetch(t) \/ Return(t)

Deliver == Post /\ UNCHANGED queueVars

Next ==
  \/ \E p \in Producers : SignalBatch(p) \/ \E n \in 1 .. MaxBatch : Enqueue(p, n)
  \/ \E t \in Threads : Dequeue(t) \/ Step(t)
  \/ Deliver

Spec == Init /\ [][Next]_vars

\* An operation that has begun is scheduled until it ends; no call need ever begin.
FairSpec ==
  /\ Spec
  /\ \A p \in Producers : WF_vars(SignalBatch(p))
  /\ \A t \in Threads : WF_vars(Step(t))
  /\ WF_vars(Deliver)

-----------------------------------------------------------------------------
\* One pair for each unit of what f counts, at most most for each element of S.
Units(f, S, most) == {u \in S \X (1 .. most) : u[2] <= f[u[1]]}

Available == IF count > 0 THEN count ELSE 0
Obtained == Cardinality(Units(got, Threads, MaxBulk))
Unsignalled == Cardinality(Units(batch, Producers, MaxBatch))

\* Permits that can be had, permits that calls have got and batches about to be
\* signalled stand for exactly the entries of the inner queue, so the loops around
\* inner.try_dequeue end; every refused wait is one permit too many.
EntriesBacked == Available + kernel + posts + Obtained + Unsignalled = entries + phantoms

\* The semaphore inside the queue keeps its contract as long as no wait was refused.
SemaphoreKept == Abstract!Init /\ [][phantoms' = 0 => [Abstract!Next]_(Abstract!vars)]_vars

\* Every call returns, unless a wait was refused: only wait_dequeue may stay for ever,
\* asleep beside an empty inner queue.  A timed wait gets past its correction of count.
CallsReturn ==
  \A t \in Threads :
    []<>( \/ pc[t] = "idle"
          \/ pc[t] = "asleep" /\ timeout[t] = "forever" /\ entries = 0
          \/ phantoms > 0 )
=============================================================================
