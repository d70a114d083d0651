------------------------ MODULE BlockingQueueTheorems ------------------------
(***************************************************************************)
(* Proofs about BlockingQueue and the LightweightSemaphore in it, for      *)
(* every number of threads, producers and entries.                         *)
(***************************************************************************)
EXTENDS BlockingQueue, FiniteSetTheorems, TLAPS

\* The inductive invariant.
IInv == TypeOK /\ Balance /\ EntriesBacked

\* Waiting is finite, so that its cardinality is a number.
LEMMA WaitingFinite == IsFiniteSet(Waiting) /\ Cardinality(Waiting) \in Nat
PROOF
  <1>1. Waiting \in SUBSET Threads BY DEF Waiting
  <1>2. IsFiniteSet(Waiting) BY <1>1, ThreadsAssumption, FS_Subset
  <1> QED BY <1>2, FS_CardinalityType

\* The empty set has no elements to count.
LEMMA WaitingNonempty == ASSUME NEW t \in Waiting PROVE Cardinality(Waiting) > 0
PROOF
  <1>1. Cardinality(Waiting) # 0 BY WaitingFinite, FS_EmptySet
  <1> QED BY <1>1, WaitingFinite

\* A thread that goes to one of the steps where it waits joins Waiting.
LEMMA Joins ==
  ASSUME TypeOK, NEW t \in Threads, t \notin Waiting, pc' = [pc EXCEPT ![t] = "asleep"]
  PROVE  Waiting' = Waiting \cup {t} /\ Cardinality(Waiting') = Cardinality(Waiting) + 1
PROOF
  <1>1. Waiting' = Waiting \cup {t} BY DEF Waiting, TypeOK, SemaTypeOK
  <1> QED BY <1>1, WaitingFinite, FS_AddElement

\* A thread that leaves these steps leaves Waiting.
LEMMA Leaves ==
  ASSUME TypeOK, NEW t \in Threads, t \in Waiting, NEW label \in PC,
         label \notin {"asleep", "timed_out", "reclaim"}, pc' = [pc EXCEPT ![t] = label]
  PROVE  Waiting' = Waiting \ {t} /\ Cardinality(Waiting') = Cardinality(Waiting) - 1
PROOF
  <1>1. Waiting' = Waiting \ {t} BY DEF Waiting, TypeOK, SemaTypeOK
  <1> QED BY <1>1, WaitingFinite, FS_RemoveElement

\* There are finitely many units.
LEMMA UnitsFinite ==
  ASSUME NEW S, IsFiniteSet(S), NEW most \in Nat, NEW f
  PROVE  IsFiniteSet(Units(f, S, most)) /\ Cardinality(Units(f, S, most)) \in Nat
PROOF
  <1>1. IsFiniteSet(1 .. most) BY FS_Interval
  <1>2. IsFiniteSet(S \X (1 .. most)) BY <1>1, FS_Product
  <1>3. Units(f, S, most) \subseteq S \X (1 .. most) BY DEF Units
  <1>4. IsFiniteSet(Units(f, S, most)) BY <1>2, <1>3, FS_Subset
  <1> QED BY <1>4, FS_CardinalityType

\* The units grow by what the count of one element grows by.
LEMMA UnitsGrow ==
  ASSUME NEW S, IsFiniteSet(S), NEW most \in Nat, NEW f \in [S -> 0 .. most],
         NEW g \in [S -> 0 .. most], NEW x \in S, \A y \in S \ {x} : g[y] = f[y], f[x] <= g[x]
  PROVE  Cardinality(Units(g, S, most)) = Cardinality(Units(f, S, most)) + g[x] - f[x]
PROOF
  <1> DEFINE D == {x} \X (f[x] + 1 .. g[x])
  <1>1. f[x] \in Nat /\ g[x] \in Nat /\ g[x] <= most OBVIOUS
  <1>2. Units(g, S, most) = Units(f, S, most) \cup D
    <2>1. ASSUME NEW y \in S, NEW n \in 1 .. most
          PROVE  n <= g[y] <=> n <= f[y] \/ (y = x /\ n \in f[x] + 1 .. g[x])
      BY <1>1
    <2>2. D \subseteq S \X (1 .. most) BY <1>1
    <2> QED BY <2>1, <2>2 DEF Units
  <1>3. Units(f, S, most) \cap D = {} BY <1>1 DEF Units
  <1>4. IsFiniteSet(D) /\ Cardinality(D) = g[x] - f[x]
    <2>1. IsFiniteSet(f[x] + 1 .. g[x]) /\ Cardinality(f[x] + 1 .. g[x]) = g[x] - f[x]
      <3> DEFINE a == f[x] + 1  b == g[x]
      <3>1. a \in Int /\ b \in Int /\ b - a + 1 = g[x] - f[x] /\ (a > b => g[x] - f[x] = 0)
        BY <1>1
      <3> HIDE DEF a, b
      <3>2. IsFiniteSet(a .. b) /\ Cardinality(a .. b) = IF a > b THEN 0 ELSE b - a + 1
        BY <3>1, FS_Interval
      <3>3. IsFiniteSet(a .. b) /\ Cardinality(a .. b) = g[x] - f[x] BY <3>1, <3>2
      <3> QED BY <3>3 DEF a, b
    <2>2. IsFiniteSet({x}) /\ Cardinality({x}) = 1 BY FS_Singleton
    <2>3. IsFiniteSet(D) /\ Cardinality(D) = 1 * (g[x] - f[x]) BY <2>1, <2>2, FS_Product
    <2> QED BY <1>1, <2>3
  <1> HIDE DEF D
  <1>5. Cardinality(Units(g, S, most)) =
          Cardinality(Units(f, S, most)) + Cardinality(D) - Cardinality({})
    BY <1>2, <1>3, <1>4, UnitsFinite, FS_Union
  <1> QED BY <1>1, <1>4, <1>5, UnitsFinite, FS_EmptySet

\* The units follow the count of one element.
LEMMA UnitsChange ==
  ASSUME NEW S, IsFiniteSet(S), NEW most \in Nat, NEW f \in [S -> 0 .. most],
         NEW g \in [S -> 0 .. most], NEW x \in S, \A y \in S \ {x} : g[y] = f[y]
  PROVE  Cardinality(Units(g, S, most)) = Cardinality(Units(f, S, most)) + g[x] - f[x]
PROOF
  <1>1. f[x] \in Nat /\ g[x] \in Nat OBVIOUS
  <1>2. CASE f[x] <= g[x] BY <1>2, UnitsGrow
  <1>3. CASE g[x] <= f[x]
    <2>1. Cardinality(Units(f, S, most)) = Cardinality(Units(g, S, most)) + f[x] - g[x]
      BY <1>3, UnitsGrow
    <2> QED BY <1>1, <2>1, UnitsFinite
  <1> QED BY <1>1, <1>2, <1>3

\* Where nothing is counted there are no units.
LEMMA NoUnits ==
  ASSUME NEW S, NEW most \in Nat
  PROVE  Cardinality(Units([x \in S |-> 0], S, most)) = 0
PROOF
  <1>1. Units([x \in S |-> 0], S, most) = {} BY DEF Units
  <1> QED BY <1>1, FS_EmptySet

\* The queue as constructed satisfies the invariant.
LEMMA InitIInv == Init => IInv
PROOF
  <1> SUFFICES ASSUME Init PROVE IInv OBVIOUS
  <1>1. TypeOK
    BY MaxBulkAssumption, BatchAssumption DEF Init, SemaInit, TypeOK, SemaTypeOK, PC, Waiting
  <1>2. Waiting = {} BY DEF Init, SemaInit, Waiting
  <1>3. Cardinality(Waiting) = 0 BY <1>2, FS_EmptySet
  <1>4. EntriesBacked
    BY NoUnits, MaxBulkAssumption, BatchAssumption
    DEF Init, SemaInit, EntriesBacked, Available, Obtained, Unsignalled
  <1> QED BY <1>1, <1>3, <1>4 DEF IInv, Balance, Init, SemaInit, LeastOf

\* Every step keeps the types and the locals of calls consistent with their place.
LEMMA TypeStep == TypeOK /\ [Next]_vars => TypeOK'
PROOF
  <1> SUFFICES ASSUME TypeOK, [Next]_vars PROVE TypeOK' OBVIOUS
  <1> USE MaxBulkAssumption, BatchAssumption
      DEF TypeOK, SemaTypeOK, PC, Waiting, semaVars, queueVars, Goto, Acquire, LeastOf, Then
  <1>1. ASSUME NEW p \in Producers, SignalBatch(p) PROVE TypeOK'
    BY <1>1 DEF SignalBatch, Signalled, Signal, ToRelease
  <1>2. ASSUME NEW p \in Producers, NEW n \in 1 .. MaxBatch, Enqueue(p, n) PROVE TypeOK'
    BY <1>2 DEF Enqueue
  <1>3. ASSUME NEW t \in Threads, Dequeue(t) PROVE TypeOK' BY <1>3 DEF Dequeue, Call
  <1>4. ASSUME NEW t \in Threads, TakeAvailable(t), UNCHANGED queueVars PROVE TypeOK'
    BY <1>4 DEF TakeAvailable
  <1>5. ASSUME NEW t \in Threads, FindsNone(t), UNCHANGED queueVars PROVE TypeOK'
    BY <1>5 DEF FindsNone
  <1>6. ASSUME NEW t \in Threads, Decrement(t), UNCHANGED queueVars PROVE TypeOK'
    <2>1. CASE count > 0 BY <1>6, <2>1 DEF Decrement
    <2>2. CASE ~(count > 0)
      <3>1. UNCHANGED <<kernel, posts, timeout, phantoms, max, got, queueVars>>
        BY <1>6, <2>2 DEF Decrement
      <3>2. pc[t] = "spin" /\ pc' = [pc EXCEPT ![t] = "asleep"] /\ count' \in Int
        BY <1>6, <2>2 DEF Decrement
      <3> QED BY <3>1, <3>2
    <2> QED BY <2>1, <2>2
  <1>7. ASSUME NEW t \in Threads, Woken(t), UNCHANGED queueVars PROVE TypeOK'
    BY <1>7 DEF Woken
  <1>8. ASSUME NEW t \in Threads, Refused(t), UNCHANGED queueVars PROVE TypeOK'
    BY <1>8 DEF Refused
  <1>9. ASSUME NEW t \in Threads, TimesOut(t), UNCHANGED queueVars PROVE TypeOK'
    BY <1>9 DEF TimesOut
  <1>10. ASSUME NEW t \in Threads, SeesGrant(t), UNCHANGED queueVars PROVE TypeOK'
    BY <1>10 DEF SeesGrant
  <1>11. ASSUME NEW t \in Threads, Reclaim(t), UNCHANGED queueVars PROVE TypeOK'
    <2>1. CASE kernel > 0 BY <1>11, <2>1 DEF Reclaim
    <2>2. CASE ~(kernel > 0) BY <1>11, <2>2 DEF Reclaim
    <2> QED BY <2>1, <2>2
  <1>12. ASSUME NEW t \in Threads, GiveBack(t), UNCHANGED queueVars PROVE TypeOK'
    BY <1>12 DEF GiveBack, Readjusted
  <1>13. ASSUME NEW t \in Threads, Fetch(t) PROVE TypeOK' BY <1>13 DEF Fetch
  <1>14. ASSUME NEW t \in Threads, Return(t) PROVE TypeOK' BY <1>14 DEF Return
  <1>15. CASE Deliver BY <1>15 DEF Deliver, Post
  <1>16. CASE UNCHANGED vars BY <1>16 DEF vars
  <1> QED BY <1>1, <1>2, <1>3, <1>4, <1>5, <1>6, <1>7, <1>8, <1>9, <1>10, <1>11, <1>12, <1>13,
             <1>14, <1>15, <1>16
          DEF Next, Step, SemaStep

\* Every step keeps count, the kernel semaphore and the posts under way in balance with
\* the threads that wait.
LEMMA BalanceStep == IInv /\ [Next]_vars => Balance'
PROOF
  <1> SUFFICES ASSUME IInv, [Next]_vars PROVE Balance' OBVIOUS
  <1> USE MaxBulkAssumption, WaitingFinite
      DEF IInv, TypeOK, SemaTypeOK, Balance, PC, semaVars, queueVars, Goto, LeastOf
  <1>0. ASSUME UNCHANGED <<count, kernel, posts, phantoms>>, Waiting' = Waiting
        PROVE  Balance'
    BY <1>0
  <1>1. ASSUME NEW p \in Producers, SignalBatch(p) PROVE Balance'
    <2>1. Waiting' = Waiting BY <1>1 DEF SignalBatch, Signal, Waiting
    <2>2. batch[p] \in Nat /\ batch[p] > 0 BY <1>1 DEF SignalBatch
    <2>3. /\ count' = count + batch[p] /\ UNCHANGED <<kernel, phantoms>>
          /\ posts' = IF ToRelease(batch[p]) > 0 THEN posts + ToRelease(batch[p]) ELSE posts
      BY <1>1 DEF SignalBatch, Signalled, Signal
    <2>4. CASE count >= 0 BY <2>1, <2>2, <2>3, <2>4 DEF ToRelease
    <2>5. CASE count < 0 /\ -count < batch[p]
      <3>1. posts' = posts - count BY <2>2, <2>3, <2>5 DEF ToRelease
      <3>2. LeastOf(count', 0) = 0 BY <2>2, <2>3, <2>5
      <3> QED BY <2>1, <2>2, <2>3, <2>5, <3>1, <3>2
    <2>6. CASE count < 0 /\ -count >= batch[p]
      <3>1. posts' = posts + batch[p] BY <2>2, <2>3, <2>6 DEF ToRelease
      <3>2. LeastOf(count', 0) = count + batch[p] BY <2>2, <2>3, <2>6
      <3> QED BY <2>1, <2>2, <2>3, <2>6, <3>1, <3>2
    <2> QED BY <2>2, <2>4, <2>5, <2>6
  <1>2. ASSUME NEW p \in Producers, NEW n \in 1 .. MaxBatch, Enqueue(p, n) PROVE Balance'
    BY <1>2, <1>0 DEF Enqueue, Waiting
  <1>3. ASSUME NEW t \in Threads, Dequeue(t) PROVE Balance'
    <2>1. Waiting' = Waiting BY <1>3 DEF Dequeue, Call, Waiting
    <2> QED BY <1>3, <2>1, <1>0 DEF Dequeue, Call
  <1>4. ASSUME NEW t \in Threads, TakeAvailable(t) PROVE Balance'
    <2>1. Waiting' = Waiting BY <1>4 DEF TakeAvailable, Acquire, Waiting
    <2>2. LeastOf(count, 0) = 0 /\ LeastOf(count', 0) = 0 BY <1>4 DEF TakeAvailable
    <2> QED BY <1>4, <2>1, <2>2 DEF TakeAvailable
  <1>5. ASSUME NEW t \in Threads, FindsNone(t) PROVE Balance'
    <2>1. Waiting' = Waiting BY <1>5 DEF FindsNone, Waiting
    <2> QED BY <1>5, <2>1, <1>0 DEF FindsNone
  <1>6. ASSUME NEW t \in Threads, Decrement(t) PROVE Balance'
    <2>1. CASE count > 0
      <3>1. Waiting' = Waiting BY <1>6, <2>1 DEF Decrement, Acquire, Then, Waiting
      <3> QED BY <1>6, <2>1, <3>1 DEF Decrement
    <2>2. CASE ~(count > 0)
      <3>1. pc' = [pc EXCEPT ![t] = "asleep"] /\ t \notin Waiting
        BY <1>6, <2>2 DEF Decrement, Waiting
      <3>2. Cardinality(Waiting') = Cardinality(Waiting) + 1 BY <3>1, Joins
      <3> QED BY <1>6, <2>2, <3>2 DEF Decrement
    <2> QED BY <2>1, <2>2
  <1>7. ASSUME NEW t \in Threads, Woken(t) PROVE Balance'
    <2>1. pc' = [pc EXCEPT ![t] = Then(t)] /\ t \in Waiting
      BY <1>7 DEF Woken, Acquire, Waiting
    <2>2. Cardinality(Waiting') = Cardinality(Waiting) - 1 BY <2>1, Leaves DEF Then
    <2> QED BY <1>7, <2>2 DEF Woken
  <1>8. ASSUME NEW t \in Threads, Refused(t) PROVE Balance'
    <2>1. pc' = [pc EXCEPT ![t] = Then(t)] /\ t \in Waiting
      BY <1>8 DEF Refused, Acquire, Waiting
    <2>2. Cardinality(Waiting') = Cardinality(Waiting) - 1 BY <2>1, Leaves DEF Then
    <2> QED BY <1>8, <2>2 DEF Refused
  <1>9. ASSUME NEW t \in Threads, TimesOut(t) PROVE Balance'
    <2>1. Waiting' = Waiting BY <1>9 DEF TimesOut, Waiting
    <2> QED BY <1>9, <2>1, <1>0 DEF TimesOut
  <1>10. ASSUME NEW t \in Threads, SeesGrant(t) PROVE Balance'
    <2>1. Waiting' = Waiting BY <1>10 DEF SeesGrant, Waiting
    <2> QED BY <1>10, <2>1, <1>0 DEF SeesGrant
  <1>11. ASSUME NEW t \in Threads, Reclaim(t) PROVE Balance'
    <2>1. CASE kernel > 0
      <3>1. pc' = [pc EXCEPT ![t] = Then(t)] /\ t \in Waiting
        BY <1>11, <2>1 DEF Reclaim, Acquire, Waiting
      <3>2. Cardinality(Waiting') = Cardinality(Waiting) - 1 BY <3>1, Leaves DEF Then
      <3> QED BY <1>11, <2>1, <3>2 DEF Reclaim
    <2>2. CASE ~(kernel > 0)
      <3>1. Waiting' = Waiting BY <1>11, <2>2 DEF Reclaim, Waiting
      <3> QED BY <1>11, <2>2, <3>1, <1>0 DEF Reclaim
    <2> QED BY <2>1, <2>2
  <1>12. ASSUME NEW t \in Threads, GiveBack(t) PROVE Balance'
    <2>1. pc' = [pc EXCEPT ![t] = "return"] /\ t \in Waiting BY <1>12 DEF GiveBack, Waiting
    <2>2. Cardinality(Waiting') = Cardinality(Waiting) - 1 BY <2>1, Leaves
    <2> QED BY <1>12, <2>2 DEF GiveBack, Readjusted
  <1>13. ASSUME NEW t \in Threads, Fetch(t) PROVE Balance'
    BY <1>13, <1>0 DEF Fetch, Waiting
  <1>14. ASSUME NEW t \in Threads, Return(t) PROVE Balance'
    <2>1. Waiting' = Waiting BY <1>14 DEF Return, Waiting
    <2> QED BY <1>14, <2>1, <1>0 DEF Return
  <1>15. CASE Deliver
    <2>1. Waiting' = Waiting BY <1>15 DEF Deliver, Post, Waiting
    <2> QED BY <1>15, <2>1 DEF Deliver, Post
  <1>16. CASE UNCHANGED vars
    <2>1. Waiting' = Waiting BY <1>16 DEF vars, Waiting
    <2> QED BY <1>16, <2>1, <1>0 DEF vars
  <1> QED BY <1>1, <1>2, <1>3, <1>4, <1>5, <1>6, <1>7, <1>8, <1>9, <1>10, <1>11, <1>12, <1>13,
             <1>14, <1>15, <1>16
          DEF Next, Step, SemaStep

\* What is counted is a number.
LEMMA Counted ==
  ASSUME TypeOK
  PROVE  /\ count \in Int /\ kernel \in Nat /\ posts \in Nat /\ phantoms \in Nat
         /\ entries \in Nat /\ Available \in Nat /\ Obtained \in Nat /\ Unsignalled \in Nat
         /\ \A t \in Threads :
              got[t] \in Nat /\ max[t] \in Nat /\ got[t] + max[t] <= MaxBulk
PROOF
  <1>1. Obtained \in Nat
    BY ThreadsAssumption, MaxBulkAssumption, UnitsFinite DEF Obtained
  <1>2. Unsignalled \in Nat
    BY ProducersAssumption, BatchAssumption, UnitsFinite DEF Unsignalled
  <1>3. count \in Int /\ Available \in Nat BY DEF TypeOK, SemaTypeOK, Available
  <1>4. \A t \in Threads : got[t] \in Nat /\ max[t] \in Nat /\ got[t] + max[t] <= MaxBulk
    BY DEF TypeOK, SemaTypeOK
  <1> QED BY <1>1, <1>2, <1>3, <1>4 DEF TypeOK, SemaTypeOK

\* What a call gets adds to Obtained, and what it fetches is taken away.
LEMMA ObtainedChange ==
  ASSUME TypeOK, NEW t \in Threads, NEW k \in 0 .. MaxBulk, got' = [got EXCEPT ![t] = k]
  PROVE  Obtained' = Obtained + k - got[t]
PROOF
  <1>1. /\ got \in [Threads -> 0 .. MaxBulk] /\ got' \in [Threads -> 0 .. MaxBulk]
        /\ got'[t] = k /\ \A s \in Threads \ {t} : got'[s] = got[s]
    BY DEF TypeOK, SemaTypeOK
  <1>2. ASSUME NEW f \in [Threads -> 0 .. MaxBulk], NEW g \in [Threads -> 0 .. MaxBulk],
               \A s \in Threads \ {t} : g[s] = f[s]
        PROVE  Cardinality(Units(g, Threads, MaxBulk)) =
                 Cardinality(Units(f, Threads, MaxBulk)) + g[t] - f[t]
    BY <1>2, ThreadsAssumption, MaxBulkAssumption, UnitsChange
  <1>3. Cardinality(Units(got', Threads, MaxBulk)) =
          Cardinality(Units(got, Threads, MaxBulk)) + got'[t] - got[t]
    BY <1>1, <1>2
  <1> QED BY <1>1, <1>3 DEF Obtained

\* Entries that are not signalled count for their batch.
LEMMA UnsignalledChange ==
  ASSUME TypeOK, NEW p \in Producers, NEW k \in 0 .. MaxBatch, batch' = [batch EXCEPT ![p] = k]
  PROVE  Unsignalled' = Unsignalled + k - batch[p]
PROOF
  <1>1. /\ batch \in [Producers -> 0 .. MaxBatch] /\ batch' \in [Producers -> 0 .. MaxBatch]
        /\ batch'[p] = k /\ \A q \in Producers \ {p} : batch'[q] = batch[q]
    BY DEF TypeOK
  <1>2. ASSUME NEW f \in [Producers -> 0 .. MaxBatch], NEW g \in [Producers -> 0 .. MaxBatch],
               \A q \in Producers \ {p} : g[q] = f[q]
        PROVE  Cardinality(Units(g, Producers, MaxBatch)) =
                 Cardinality(Units(f, Producers, MaxBatch)) + g[p] - f[p]
    BY <1>2, ProducersAssumption, BatchAssumption, UnitsChange
  <1>3. Cardinality(Units(batch', Producers, MaxBatch)) =
          Cardinality(Units(batch, Producers, MaxBatch)) + batch'[p] - batch[p]
    BY <1>1, <1>2
  <1> QED BY <1>1, <1>3 DEF Unsignalled

\* A call that gets n permits: they come from count, from the kernel semaphore, or from
\* nowhere if its wait was refused.
LEMMA PermitsMove ==
  ASSUME TypeOK, EntriesBacked, NEW t \in Threads, NEW n \in 1 .. max[t],
         got' = [got EXCEPT ![t] = @ + n], UNCHANGED <<entries, batch, posts>>,
         \/ UNCHANGED <<kernel, phantoms>> /\ count >= n /\ count' = count - n
         \/ UNCHANGED <<count, phantoms>> /\ kernel' = kernel - n
         \/ UNCHANGED <<count, kernel>> /\ phantoms' = phantoms + n
  PROVE  EntriesBacked'
PROOF
  <1>1. got[t] \in Nat /\ max[t] \in Nat /\ got[t] + max[t] <= MaxBulk BY Counted
  <1>2. n \in Nat /\ n > 0 BY <1>1
  <1>3. got[t] + n \in 0 .. MaxBulk BY <1>1, <1>2, MaxBulkAssumption
  <1>4. Obtained' = Obtained + n
    <2>1. Obtained' = Obtained + (got[t] + n) - got[t] BY <1>3, ObtainedChange
    <2> QED BY <2>1, <1>1, <1>2, Counted
  <1>5. UNCHANGED Unsignalled BY DEF Unsignalled
  <1>6. CASE UNCHANGED <<kernel, phantoms>> /\ count >= n /\ count' = count - n
    <2>1. Available' = Available - n BY <1>2, <1>6, Counted DEF Available
    <2> QED BY <1>2, <1>4, <1>5, <1>6, <2>1, Counted DEF EntriesBacked
  <1>7. CASE UNCHANGED <<count, phantoms>> /\ kernel' = kernel - n
    <2>1. UNCHANGED Available BY <1>7 DEF Available
    <2> QED BY <1>2, <1>4, <1>5, <1>7, <2>1, Counted DEF EntriesBacked
  <1>8. CASE UNCHANGED <<count, kernel>> /\ phantoms' = phantoms + n
    <2>1. UNCHANGED Available BY <1>8 DEF Available
    <2> QED BY <1>2, <1>4, <1>5, <1>8, <2>1, Counted DEF EntriesBacked
  <1> QED BY <1>6, <1>7, <1>8

\* Steps that move nothing.
LEMMA NothingMoves ==
  ASSUME EntriesBacked, UNCHANGED <<Available, kernel, posts, got, batch, entries, phantoms>>
  PROVE  EntriesBacked'
PROOF
  <1>1. UNCHANGED Obtained /\ UNCHANGED Unsignalled BY DEF Obtained, Unsignalled
  <1> QED BY <1>1 DEF EntriesBacked

\* Every step keeps as many permits as entries, but for a refused wait.
LEMMA BackedStep == TypeOK /\ EntriesBacked /\ [Next]_vars => EntriesBacked'
PROOF
  <1> SUFFICES ASSUME TypeOK, EntriesBacked, [Next]_vars PROVE EntriesBacked' OBVIOUS
  <1>1. ASSUME NEW p \in Producers, NEW n \in 1 .. MaxBatch, Enqueue(p, n)
        PROVE  EntriesBacked'
    <2>1. /\ batch' = [batch EXCEPT ![p] = n] /\ batch[p] = 0 /\ entries' = entries + n
          /\ n \in 0 .. MaxBatch /\ UNCHANGED <<count, kernel, posts, got, phantoms>>
      BY <1>1 DEF Enqueue, semaVars
    <2>2. Unsignalled' = Unsignalled + n - 0 BY <2>1, UnsignalledChange
    <2>3. UNCHANGED Available /\ UNCHANGED Obtained BY <2>1 DEF Available, Obtained
    <2> QED BY <2>1, <2>2, <2>3, Counted DEF EntriesBacked
  <1>2. ASSUME NEW p \in Producers, SignalBatch(p) PROVE EntriesBacked'
    <2>1. batch[p] \in Nat /\ batch[p] > 0 BY <1>2 DEF SignalBatch, TypeOK
    <2>2. Unsignalled' = Unsignalled + 0 - batch[p]
      <3>1. batch' = [batch EXCEPT ![p] = 0] /\ 0 \in 0 .. MaxBatch
        BY <1>2, BatchAssumption DEF SignalBatch
      <3> QED BY <3>1, UnsignalledChange
    <2>3. /\ count' = count + batch[p] /\ UNCHANGED <<kernel, got, phantoms, entries>>
          /\ posts' = IF ToRelease(batch[p]) > 0 THEN posts + ToRelease(batch[p]) ELSE posts
      BY <1>2 DEF SignalBatch, Signalled, Signal
    <2>4. Available' + posts' = Available + posts + batch[p] /\ Available' \in Nat /\ posts' \in Nat
      <3>1. CASE count >= 0
        <4>1. ToRelease(batch[p]) <= 0 BY <2>1, <3>1, Counted DEF ToRelease, LeastOf
        <4>2. posts' = posts BY <2>3, <4>1, <2>1, <3>1, Counted DEF ToRelease, LeastOf
        <4> QED BY <2>1, <2>3, <3>1, <4>2, Counted DEF Available
      <3>2. CASE count < 0 /\ -count < batch[p]
        <4>1. ToRelease(batch[p]) = -count BY <2>1, <3>2, Counted DEF ToRelease, LeastOf
        <4>2. posts' = posts - count BY <2>3, <4>1, <3>2, Counted
        <4> QED BY <2>1, <2>3, <3>2, <4>2, Counted DEF Available
      <3>3. CASE count < 0 /\ ~(-count < batch[p])
        <4>1. ToRelease(batch[p]) = batch[p] BY <2>1, <3>3, Counted DEF ToRelease, LeastOf
        <4>2. posts' = posts + batch[p] BY <2>1, <2>3, <4>1, Counted
        <4> QED BY <2>1, <2>3, <3>3, <4>2, Counted DEF Available
      <3> QED BY <3>1, <3>2, <3>3, Counted
    <2>5. UNCHANGED Obtained BY <2>3 DEF Obtained
    <2> QED BY <2>1, <2>2, <2>3, <2>4, <2>5, Counted DEF EntriesBacked
  <1>3. ASSUME NEW t \in Threads, TakeAvailable(t), UNCHANGED queueVars PROVE EntriesBacked'
    <2> DEFINE n == LeastOf(count, max[t])
    <2>1. count > 0 /\ max[t] > 0 BY <1>3 DEF TakeAvailable, TypeOK, SemaTypeOK
    <2>2. n \in 1 .. max[t] /\ count >= n BY <2>1, Counted DEF LeastOf
    <2>3. /\ count' = count - n /\ got' = [got EXCEPT ![t] = @ + n]
          /\ UNCHANGED <<kernel, posts, phantoms, entries, batch>>
      BY <1>3 DEF TakeAvailable, Acquire, queueVars
    <2> HIDE DEF n
    <2> QED BY <2>2, <2>3, PermitsMove
  <1>4. ASSUME NEW t \in Threads, Decrement(t), UNCHANGED queueVars PROVE EntriesBacked'
    <2>1. 1 \in 1 .. max[t] BY <1>4, Counted DEF Decrement, TypeOK, SemaTypeOK
    <2>2. CASE count > 0
      <3>1. /\ count' = count - 1 /\ got' = [got EXCEPT ![t] = @ + 1]
            /\ UNCHANGED <<kernel, posts, phantoms, entries, batch>>
        BY <1>4, <2>2 DEF Decrement, Acquire, queueVars
      <3>2. count >= 1 BY <2>2, Counted
      <3> QED BY <2>1, <3>1, <3>2, PermitsMove
    <2>3. CASE ~(count > 0)
      <3>1. count' = count - 1 /\ UNCHANGED <<kernel, posts, got, phantoms, entries, batch>>
        BY <1>4, <2>3 DEF Decrement, queueVars
      <3>2. UNCHANGED Available BY <2>3, <3>1, Counted DEF Available
      <3> QED BY <3>1, <3>2, NothingMoves
    <2> QED BY <2>2, <2>3
  <1>5. ASSUME NEW t \in Threads, Woken(t) \/ (Reclaim(t) /\ kernel > 0), UNCHANGED queueVars
        PROVE  EntriesBacked'
    <2>1. 1 \in 1 .. max[t] BY <1>5, Counted DEF Woken, Reclaim, TypeOK, SemaTypeOK
    <2>2. /\ kernel' = kernel - 1 /\ got' = [got EXCEPT ![t] = @ + 1]
          /\ UNCHANGED <<count, posts, phantoms, entries, batch>>
      BY <1>5 DEF Woken, Reclaim, Acquire, queueVars
    <2> QED BY <2>1, <2>2, PermitsMove
  <1>6. ASSUME NEW t \in Threads, Refused(t), UNCHANGED queueVars PROVE EntriesBacked'
    <2>1. 1 \in 1 .. max[t] BY <1>6, Counted DEF Refused, TypeOK, SemaTypeOK
    <2>2. /\ phantoms' = phantoms + 1 /\ got' = [got EXCEPT ![t] = @ + 1]
          /\ UNCHANGED <<count, kernel, posts, entries, batch>>
      BY <1>6 DEF Refused, Acquire, queueVars
    <2> QED BY <2>1, <2>2, PermitsMove
  <1>7. ASSUME NEW t \in Threads, GiveBack(t), UNCHANGED queueVars PROVE EntriesBacked'
    <2>1. /\ count < 0 /\ count' = count + 1
          /\ UNCHANGED <<kernel, posts, got, phantoms, entries, batch>>
      BY <1>7 DEF GiveBack, Readjusted, queueVars
    <2>2. UNCHANGED Available BY <2>1, Counted DEF Available
    <2> QED BY <2>1, <2>2, NothingMoves
  <1>8. ASSUME NEW t \in Threads, Fetch(t) PROVE EntriesBacked'
    <2>1. PICK n \in 1 .. LeastOf(got[t], entries) :
            entries' = entries - n /\ got' = [got EXCEPT ![t] = @ - n]
      BY <1>8 DEF Fetch
    <2>2. /\ n \in Nat /\ n <= entries /\ got[t] \in Nat /\ n <= got[t] /\ got[t] <= MaxBulk
          /\ MaxBulk \in Nat
      BY Counted, MaxBulkAssumption DEF LeastOf
    <2>3. got[t] - n \in 0 .. MaxBulk BY <2>2
    <2>4. Obtained' = Obtained + (got[t] - n) - got[t] BY <2>1, <2>3, ObtainedChange
    <2>5. UNCHANGED <<count, kernel, posts, phantoms, batch>> BY <1>8 DEF Fetch
    <2>6. UNCHANGED Available /\ UNCHANGED Unsignalled BY <2>5 DEF Available, Unsignalled
    <2> QED BY <2>1, <2>2, <2>4, <2>5, <2>6, Counted DEF EntriesBacked
  <1>9. CASE Deliver
    <2>1. /\ posts' = posts - 1 /\ kernel' = kernel + 1
          /\ UNCHANGED <<count, got, phantoms, entries, batch>>
      BY <1>9 DEF Deliver, Post, queueVars
    <2>2. UNCHANGED Available /\ UNCHANGED Obtained /\ UNCHANGED Unsignalled
      BY <2>1 DEF Available, Obtained, Unsignalled
    <2> QED BY <2>1, <2>2, Counted DEF EntriesBacked
  <1>10. ASSUME UNCHANGED <<count, kernel, posts, got, batch, entries, phantoms>>
         PROVE  EntriesBacked'
    <2>1. UNCHANGED Available BY <1>10 DEF Available
    <2> QED BY <1>10, <2>1, NothingMoves
  <1>11. ASSUME NEW t \in Threads, UNCHANGED queueVars,
                \/ FindsNone(t) \/ TimesOut(t) \/ SeesGrant(t) \/ (Reclaim(t) /\ ~(kernel > 0))
         PROVE  EntriesBacked'
    BY <1>10, <1>11 DEF FindsNone, TimesOut, SeesGrant, Reclaim, queueVars
  <1>12. ASSUME NEW t \in Threads, Dequeue(t) \/ Return(t) PROVE EntriesBacked'
    BY <1>10, <1>12 DEF Dequeue, Call, Return, queueVars
  <1>13. CASE UNCHANGED vars BY <1>10, <1>13 DEF vars, semaVars, queueVars
  <1>14. ASSUME NEW t \in Threads, SemaStep(t), UNCHANGED queueVars PROVE EntriesBacked'
    BY <1>3, <1>4, <1>5, <1>6, <1>7, <1>11, <1>14 DEF SemaStep
  <1> QED BY <1>1, <1>2, <1>8, <1>9, <1>12, <1>13, <1>14 DEF Next, Step

\* The invariant of the proofs holds in every state of the queue.
THEOREM Invariance == Spec => []IInv
PROOF
  <1>1. IInv /\ [Next]_vars => IInv' BY TypeStep, BalanceStep, BackedStep DEF IInv
  <1> QED BY InitIInv, <1>1, PTL DEF Spec

\* Type correctness: no call gets more permits than it asked for, and only timed calls
\* correct count.
THEOREM TypeCorrect == Spec => []TypeOK
PROOF
  <1>1. IInv => TypeOK BY DEF IInv
  <1> QED BY Invariance, <1>1, PTL

\* No wakeup of LightweightSemaphore is lost, and none is left over except those that
\* refused waits left behind.
THEOREM WakeupsBalance == Spec => []Balance
PROOF
  <1>1. IInv => Balance BY DEF IInv
  <1> QED BY Invariance, <1>1, PTL

\* Each permit that can be had, is about to be given or has been got stands for an entry, so
\* that the loops around inner.try_dequeue end, but for permits of refused waits.
THEOREM PermitsStandForEntries == Spec => []EntriesBacked
PROOF
  <1>1. IInv => EntriesBacked BY DEF IInv
  <1> QED BY Invariance, <1>1, PTL

\* Permits that somebody waits for exist as soon as the kernel semaphore is positive.
LEMMA KernelBacked ==
  ASSUME IInv, kernel > 0, phantoms = 0 PROVE Permits \in Nat \ {0}
PROOF
  <1> USE WaitingFinite DEF IInv, TypeOK, SemaTypeOK, Balance, LeastOf, Permits
  <1>1. CASE count < 0 BY <1>1
  <1>2. CASE count >= 0 BY <1>2
  <1> QED BY <1>1, <1>2

\* The permits are never negative, as long as no wait was refused.
LEMMA PermitsNatural == ASSUME IInv, phantoms = 0 PROVE Permits \in Nat
PROOF
  <1> USE WaitingFinite DEF IInv, TypeOK, SemaTypeOK, Balance, LeastOf, Permits
  <1>1. CASE count < 0 BY <1>1
  <1>2. CASE count >= 0 BY <1>2
  <1> QED BY <1>1, <1>2

\* The instance of CountingSemaphore counts as this module does.
LEMMA SameCardinality == ASSUME NEW S PROVE Abstract!Cardinality(S) = Cardinality(S)
PROOF
  BY DEF Abstract!Cardinality, Cardinality

\* Which changes of count and Waiting are steps of CountingSemaphore.
LEMMA MapsToSignal ==
  ASSUME count \in Int, Permits \in Nat, NEW n \in Nat \ {0}, count' = count + n,
         UNCHANGED Waiting
  PROVE  Abstract!Signal
PROOF
  BY WaitingFinite DEF Abstract!Signal, Permits

LEMMA MapsToTake ==
  ASSUME count \in Int, count' \in Nat, count' < count, UNCHANGED Waiting
  PROVE  Abstract!Take
PROOF
  BY WaitingFinite, SameCardinality DEF Abstract!Take, Permits

LEMMA MapsToJoin ==
  ASSUME count \in Int, NEW t \in Threads, t \notin Waiting, count <= 0, count' = count - 1,
         Waiting' = Waiting \cup {t}, Cardinality(Waiting') = Cardinality(Waiting) + 1
  PROVE  Abstract!Join(t)
PROOF
  <1>1. UNCHANGED Permits BY WaitingFinite DEF Permits
  <1>2. Permits - Cardinality(Waiting) <= 0 BY WaitingFinite DEF Permits
  <1> QED BY <1>1, <1>2, SameCardinality DEF Abstract!Join, Abstract!Unclaimed

LEMMA MapsToGiveUp ==
  ASSUME count \in Int, NEW t \in Threads, t \in Waiting, count < 0, count' = count + 1,
         Waiting' = Waiting \ {t}, Cardinality(Waiting') = Cardinality(Waiting) - 1
  PROVE  Abstract!GiveUp(t)
PROOF
  <1>1. UNCHANGED Permits BY WaitingFinite DEF Permits
  <1>2. Permits - Cardinality(Waiting) < 0 BY WaitingFinite DEF Permits
  <1> QED BY <1>1, <1>2, SameCardinality DEF Abstract!GiveUp, Abstract!Unclaimed

LEMMA MapsToTakeWaiting ==
  ASSUME count \in Int, NEW t \in Threads, t \in Waiting, Permits > 0, UNCHANGED count,
         Waiting' = Waiting \ {t}, Cardinality(Waiting') = Cardinality(Waiting) - 1
  PROVE  Abstract!TakeWaiting(t)
PROOF
  <1>1. Permits' = Permits - 1 BY WaitingFinite DEF Permits
  <1> QED BY <1>1 DEF Abstract!TakeWaiting

\* A call that looks for permits still wants some.
LEMMA MoreWanted ==
  ASSUME TypeOK, NEW t \in Threads, pc[t] \in {"try", "spin", "more"}
  PROVE  max[t] > 0
PROOF
  BY DEF TypeOK, SemaTypeOK

\* Every step that is not a refused wait, nor comes after one, is a step of
\* CountingSemaphore or leaves its variables alone.
LEMMA ContractStep ==
  IInv /\ [Next]_vars => [phantoms' = 0 => [Abstract!Next]_(Abstract!vars)]_vars
PROOF
  <1> SUFFICES ASSUME IInv, [Next]_vars, phantoms' = 0
               PROVE  [Abstract!Next]_(Abstract!vars)
    OBVIOUS
  <1> USE WaitingFinite
      DEF IInv, TypeOK, SemaTypeOK, PC, semaVars, queueVars, Goto, LeastOf
  <1>0. ASSUME UNCHANGED count, Waiting' = Waiting PROVE [Abstract!Next]_(Abstract!vars)
    BY <1>0 DEF Abstract!vars, Permits
  <1>1. ASSUME NEW p \in Producers, SignalBatch(p) PROVE Abstract!Next
    <2>1. Waiting' = Waiting BY <1>1 DEF SignalBatch, Signal, Waiting
    <2>2. batch[p] \in Nat /\ batch[p] > 0 BY <1>1 DEF SignalBatch
    <2>3. count' = count + batch[p] BY <1>1 DEF SignalBatch, Signalled, Signal
    <2>4. phantoms = 0 BY <1>1 DEF SignalBatch, Signal
    <2>5. Abstract!Signal BY <2>1, <2>2, <2>3, <2>4, PermitsNatural, MapsToSignal
    <2> QED BY <2>5 DEF Abstract!Next
  <1>2. ASSUME NEW p \in Producers, NEW n \in 1 .. MaxBatch, Enqueue(p, n)
        PROVE  [Abstract!Next]_(Abstract!vars)
    BY <1>2, <1>0 DEF Enqueue, Waiting
  <1>3. ASSUME NEW t \in Threads, Dequeue(t) PROVE [Abstract!Next]_(Abstract!vars)
    <2>1. Waiting' = Waiting BY <1>3 DEF Dequeue, Call, Waiting
    <2> QED BY <1>3, <2>1, <1>0 DEF Dequeue, Call
  <1>4. ASSUME NEW t \in Threads, TakeAvailable(t) PROVE Abstract!Next
    <2>1. Waiting' = Waiting BY <1>4 DEF TakeAvailable, Acquire, Waiting
    <2>2. max[t] > 0 /\ count > 0 BY <1>4, MoreWanted DEF TakeAvailable
    <2>3. count' < count /\ count' >= 0 /\ count' \in Int BY <1>4, <2>2 DEF TakeAvailable
    <2>4. Abstract!Take BY <2>1, <2>3, MapsToTake
    <2> QED BY <2>4 DEF Abstract!Next
  <1>5. ASSUME NEW t \in Threads, FindsNone(t) PROVE [Abstract!Next]_(Abstract!vars)
    <2>1. Waiting' = Waiting BY <1>5 DEF FindsNone, Waiting
    <2> QED BY <1>5, <2>1, <1>0 DEF FindsNone
  <1>6. ASSUME NEW t \in Threads, Decrement(t) PROVE Abstract!Next
    <2>1. CASE count > 0
      <3>1. Waiting' = Waiting BY <1>6, <2>1 DEF Decrement, Acquire, Then, Waiting
      <3>2. Abstract!Take BY <1>6, <2>1, <3>1, MapsToTake DEF Decrement
      <3> QED BY <3>2 DEF Abstract!Next
    <2>2. CASE ~(count > 0)
      <3>1. pc' = [pc EXCEPT ![t] = "asleep"] /\ t \notin Waiting
        BY <1>6, <2>2 DEF Decrement, Waiting
      <3>2. Waiting' = Waiting \cup {t} /\ Cardinality(Waiting') = Cardinality(Waiting) + 1
        BY <3>1, Joins
      <3>3. count <= 0 /\ count' = count - 1 BY <1>6, <2>2 DEF Decrement
      <3>4. Abstract!Join(t) BY <3>1, <3>2, <3>3, MapsToJoin
      <3> QED BY <3>4 DEF Abstract!Next
    <2> QED BY <2>1, <2>2
  <1>7. ASSUME NEW t \in Threads, Waiting' = Waiting \ {t}, t \in Waiting, kernel > 0,
               phantoms = 0, UNCHANGED count,
               Cardinality(Waiting') = Cardinality(Waiting) - 1
        PROVE  Abstract!Next
    <2>1. Permits \in Nat /\ Permits > 0 BY <1>7, KernelBacked
    <2>2. Abstract!TakeWaiting(t) BY <1>7, <2>1, MapsToTakeWaiting
    <2> QED BY <2>2 DEF Abstract!Next
  <1>8. ASSUME NEW t \in Threads, Woken(t) PROVE Abstract!Next
    <2>1. pc' = [pc EXCEPT ![t] = Then(t)] /\ t \in Waiting
      BY <1>8 DEF Woken, Acquire, Waiting
    <2>2. Waiting' = Waiting \ {t} /\ Cardinality(Waiting') = Cardinality(Waiting) - 1
      BY <2>1, Leaves DEF Then
    <2> QED BY <1>7, <1>8, <2>1, <2>2 DEF Woken
  <1>9. ASSUME NEW t \in Threads, Refused(t) PROVE FALSE BY <1>9 DEF Refused
  <1>10. ASSUME NEW t \in Threads, TimesOut(t) PROVE [Abstract!Next]_(Abstract!vars)
    <2>1. Waiting' = Waiting BY <1>10 DEF TimesOut, Waiting
    <2> QED BY <1>10, <2>1, <1>0 DEF TimesOut
  <1>11. ASSUME NEW t \in Threads, SeesGrant(t) PROVE [Abstract!Next]_(Abstract!vars)
    <2>1. Waiting' = Waiting BY <1>11 DEF SeesGrant, Waiting
    <2> QED BY <1>11, <2>1, <1>0 DEF SeesGrant
  <1>12. ASSUME NEW t \in Threads, Reclaim(t) PROVE [Abstract!Next]_(Abstract!vars)
    <2>1. CASE kernel > 0
      <3>1. pc' = [pc EXCEPT ![t] = Then(t)] /\ t \in Waiting
        BY <1>12, <2>1 DEF Reclaim, Acquire, Waiting
      <3>2. Waiting' = Waiting \ {t} /\ Cardinality(Waiting') = Cardinality(Waiting) - 1
        BY <3>1, Leaves DEF Then
      <3> QED BY <1>7, <1>12, <2>1, <3>1, <3>2 DEF Reclaim
    <2>2. CASE ~(kernel > 0)
      <3>1. Waiting' = Waiting BY <1>12, <2>2 DEF Reclaim, Waiting
      <3> QED BY <1>12, <2>2, <3>1, <1>0 DEF Reclaim
    <2> QED BY <2>1, <2>2
  <1>13. ASSUME NEW t \in Threads, GiveBack(t) PROVE Abstract!Next
    <2>1. pc' = [pc EXCEPT ![t] = "return"] /\ t \in Waiting BY <1>13 DEF GiveBack, Waiting
    <2>2. Waiting' = Waiting \ {t} /\ Cardinality(Waiting') = Cardinality(Waiting) - 1
      BY <2>1, Leaves
    <2>3. Abstract!GiveUp(t) BY <1>13, <2>1, <2>2, MapsToGiveUp DEF GiveBack, Readjusted
    <2> QED BY <2>3 DEF Abstract!Next
  <1>14. ASSUME NEW t \in Threads, Fetch(t) PROVE [Abstract!Next]_(Abstract!vars)
    BY <1>14, <1>0 DEF Fetch, Waiting
  <1>15. ASSUME NEW t \in Threads, Return(t) PROVE [Abstract!Next]_(Abstract!vars)
    <2>1. Waiting' = Waiting BY <1>15 DEF Return, Waiting
    <2> QED BY <1>15, <2>1, <1>0 DEF Return
  <1>16. CASE Deliver
    <2>1. Waiting' = Waiting BY <1>16 DEF Deliver, Post, Waiting
    <2> QED BY <1>16, <2>1, <1>0 DEF Deliver, Post
  <1>17. CASE UNCHANGED vars
    <2>1. Waiting' = Waiting BY <1>17 DEF vars, Waiting
    <2> QED BY <1>17, <2>1, <1>0 DEF vars
  <1> QED BY <1>1, <1>2, <1>3, <1>4, <1>5, <1>6, <1>8, <1>9, <1>10, <1>11, <1>12, <1>13,
             <1>14, <1>15, <1>16, <1>17
          DEF Next, Step, SemaStep

\* Until the first refused wait, LightweightSemaphore inside the queue implements
\* CountingSemaphore: a timed wait fails only while permits are short, and permits that
\* waiters have a claim on are not taken by others.
THEOREM Implements == Spec => SemaphoreKept
PROOF
  <1>1. Init => Abstract!Init
    <2> SUFFICES ASSUME Init PROVE Abstract!Init OBVIOUS
    <2>1. Waiting = {} BY DEF Init, SemaInit, Waiting
    <2> QED BY <2>1, FS_EmptySet DEF Init, SemaInit, Abstract!Init, Permits
  <1> QED BY <1>1, ContractStep, Invariance, PTL DEF Spec, SemaphoreKept
=============================================================================
