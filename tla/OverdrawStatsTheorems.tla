----------------------- MODULE OverdrawStatsTheorems -----------------------
(***************************************************************************)
(* Proofs about OverdrawStats for every number of rentals and              *)
(* constructions: what the statistics may be trusted for although          *)
(* constructors overlap, and for what only when they do not.               *)
(***************************************************************************)
EXTENDS OverdrawStats, FiniteSetTheorems, TLAPS

Out == {o \in Overdrawns : pc[o] # "gone"}
Uncounted == {o \in Overdrawns : pc[o] = "add_sum"} \* in the number and not yet in the sum

Types ==
  /\ overdrawnCount \in Nat /\ maxOverdraw \in Nat
  /\ numberOverdraws \in Nat /\ sumOverdraws \in Nat
  /\ pc \in [Overdrawns -> Building \cup {"gone", "alive"}]
  /\ overBy \in [Overdrawns -> Nat] /\ cand \in [Overdrawns -> Nat]
  /\ peak \in Nat /\ overlapped \in BOOLEAN

\* overdrawn_count counts the rentals that are out, and no value of over_by passes its peak.
CountRight ==
  /\ overdrawnCount = Cardinality(Out) /\ overdrawnCount <= peak
  /\ \A o \in Overdrawns : pc[o] \in Building => overBy[o] >= 1 /\ overBy[o] <= peak

\* The sum is bounded by the rentals that have added to it.
SumRight ==
  LET added == numberOverdraws - Cardinality(Uncounted)
  IN added >= 0 /\ added <= sumOverdraws /\ sumOverdraws <= added * peak

\* Without overlap the one constructor that runs is about to bring the maximum to the peak,
\* or has.
MaxRight ==
  ~overlapped =>
    /\ \A o, q \in Overdrawns : pc[o] \in Building /\ pc[q] \in Building => o = q
    /\ maxOverdraw <= peak
    /\ Settled => maxOverdraw = peak
    /\ \A o \in Overdrawns :
         /\ pc[o] = "check_max" => maxOverdraw = peak \/ overBy[o] = peak
         /\ pc[o] = "load" => overBy[o] = peak
         /\ pc[o] = "exchange" => overBy[o] = peak /\ cand[o] = maxOverdraw
         /\ pc[o] \in {"count", "add_sum"} => maxOverdraw = peak

\* The inductive invariant.
IInv == Types /\ CountRight /\ SumRight /\ MaxRight

\* The sets that are counted are finite.
LEMMA Finite ==
  /\ IsFiniteSet(Out) /\ IsFiniteSet(Uncounted)
  /\ Cardinality(Out) \in Nat /\ Cardinality(Uncounted) \in Nat
  /\ Cardinality(Out) <= Cardinality(Overdrawns)
BY OverdrawnsAssumption, FS_Subset, FS_CardinalityType DEF Out, Uncounted

\* A larger peak bounds what a smaller one does.
LEMMA Monotone ==
  ASSUME NEW n \in Nat, NEW p \in Nat, NEW q \in Nat, p <= q
  PROVE  n * p <= n * q
<1>1. PICK d \in Nat : q = p + d
  <2>1. q - p \in Nat /\ q = p + (q - p)
    OBVIOUS
  <2> QED
    BY <2>1
<1>2. n * q = n * p + n * d /\ n * d \in Nat /\ n * p \in Nat
  BY <1>1
<1> QED
  BY <1>2

\* The statistics of a new pool satisfy the invariant.
LEMMA InvInit == Init => IInv
<1> SUFFICES ASSUME Init PROVE IInv
  OBVIOUS
<1>1. Out = {} /\ Uncounted = {}
  BY DEF Init, Out, Uncounted
<1>2. Cardinality(Out) = 0 /\ Cardinality(Uncounted) = 0
  BY <1>1, FS_EmptySet
<1>3. Types
  BY DEF Init, Types
<1>4. CountRight /\ MaxRight
  BY <1>2 DEF Init, CountRight, MaxRight, Settled, Building
<1>5. SumRight
  BY <1>2 DEF Init, SumRight
<1> QED
  BY <1>3, <1>4, <1>5 DEF IInv

\* Beginning a constructor keeps it.
LEMMA InvCountUp == ASSUME IInv, NEW o \in Overdrawns, CountUp(o) PROVE IInv'
<1> USE DEF Building
<1>1. Types'
  BY DEF CountUp, Goto, PreIncrement, IInv, Types
<1>2. /\ pc' = [pc EXCEPT ![o] = "check_max"] /\ pc[o] = "gone"
      /\ overdrawnCount' = overdrawnCount + 1 /\ overBy' = [overBy EXCEPT ![o] = overdrawnCount + 1]
      /\ UNCHANGED <<maxOverdraw, numberOverdraws, sumOverdraws, cand>>
  BY DEF CountUp, Goto, PreIncrement
<1>3. /\ peak' \in Nat /\ peak <= peak' /\ overdrawnCount' <= peak'
      /\ peak' = peak \/ overdrawnCount' = peak'
  BY <1>1, <1>2 DEF CountUp, IInv, Types
<1>4. Out' = Out \cup {o} /\ o \notin Out /\ Uncounted' = Uncounted
  BY <1>2 DEF IInv, Types, Out, Uncounted
<1>5. Cardinality(Out') = Cardinality(Out) + 1
  BY <1>4, Finite, FS_AddElement
<1>6. CountRight'
  BY <1>2, <1>3, <1>5 DEF IInv, Types, CountRight
<1>7. SumRight'
  <2> DEFINE added == numberOverdraws - Cardinality(Uncounted)
  <2>1. added \in Nat /\ added <= sumOverdraws /\ sumOverdraws <= added * peak
    BY Finite DEF IInv, Types, SumRight
  <2>2. added * peak <= added * peak'
    BY <2>1, <1>3, Monotone DEF IInv, Types
  <2>3. added * peak \in Nat /\ added * peak' \in Nat /\ sumOverdraws \in Nat
    BY <2>1, <1>3 DEF IInv, Types
  <2>4. sumOverdraws <= added * peak'
    BY <2>1, <2>2, <2>3
  <2>5. added' = added
    BY <1>2, <1>4
  <2> QED
    BY <1>2, <2>1, <2>4, <2>5 DEF SumRight
<1>8. MaxRight'
  <2> SUFFICES ASSUME ~overlapped' PROVE MaxRight'
    BY DEF MaxRight
  <2>1. ~overlapped /\ \A q \in Overdrawns : pc[q] \notin Building
    BY DEF CountUp, IInv, Types
  <2>2. maxOverdraw = peak
    BY <2>1 DEF IInv, MaxRight, Settled
  <2>3. \A q \in Overdrawns : q # o => pc'[q] \notin Building
    BY <1>2, <2>1 DEF IInv, Types
  <2>4. pc'[o] = "check_max" /\ overBy'[o] = overdrawnCount'
    BY <1>2 DEF IInv, Types
  <2>5. ~Settled'
    BY <2>4 DEF Settled
  <2>6. maxOverdraw' = peak' \/ overBy'[o] = peak'
    BY <1>2, <1>3, <2>2, <2>4
  <2>7. maxOverdraw' <= peak'
    BY <1>2, <1>3, <2>2 DEF IInv, Types
  <2> QED
    BY <2>3, <2>4, <2>5, <2>6, <2>7 DEF MaxRight
<1> QED
  BY <1>1, <1>6, <1>7, <1>8 DEF IInv

\* The compare-exchange loop keeps it: it changes the maximum only.
LEMMA InvLoop ==
  ASSUME IInv, NEW o \in Overdrawns, CheckMax(o) \/ LoadCand(o) \/ ExchangeMax(o)
  PROVE  IInv'
<1> USE DEF Building
<1>1. Types'
  BY DEF CheckMax, LoadCand, ExchangeMax, Goto, RetryAt, IInv, Types, counters, history
<1>2. /\ UNCHANGED <<overdrawnCount, numberOverdraws, sumOverdraws, overBy, history>>
      /\ \A q \in Overdrawns \ {o} : pc'[q] = pc[q] /\ cand'[q] = cand[q]
      /\ pc[o] \in {"check_max", "load", "exchange"}
      /\ pc'[o] \in {"check_max", "load", "exchange", "count"}
  BY DEF CheckMax, LoadCand, ExchangeMax, Goto, RetryAt, IInv, Types, counters
<1>3. Out' = Out /\ Uncounted' = Uncounted
  BY <1>2 DEF Out, Uncounted
<1>4. CountRight' /\ SumRight'
  BY <1>2, <1>3 DEF IInv, CountRight, SumRight, history
<1>5. MaxRight'
  <2> SUFFICES ASSUME ~overlapped PROVE MaxRight'
    BY <1>2 DEF MaxRight, history
  <2>1. MaxRight /\ ~Settled /\ overBy[o] <= peak
    BY <1>2 DEF IInv, CountRight, Settled
  <2>2. /\ \A q \in Overdrawns \ {o} : pc[q] \notin Building
        /\ \A q \in Overdrawns \ {o} : pc'[q] \notin Building
    BY <1>2, <2>1 DEF MaxRight
  <2>3. ~Settled'
    BY <1>2 DEF Settled
  <2>4. /\ maxOverdraw' <= peak
        /\ pc'[o] = "check_max" => maxOverdraw' = peak \/ overBy[o] = peak
        /\ pc'[o] = "load" => overBy[o] = peak
        /\ pc'[o] = "exchange" => overBy[o] = peak /\ cand'[o] = maxOverdraw'
        /\ pc'[o] = "count" => maxOverdraw' = peak
    <3>1. CASE CheckMax(o)
      BY <2>1, <3>1 DEF CheckMax, Surpassed, Goto, IInv, Types, MaxRight, counters, history
    <3>2. CASE LoadCand(o)
      BY <2>1, <3>2 DEF LoadCand, Goto, IInv, Types, MaxRight, counters, history
    <3>3. CASE ExchangeMax(o)
      BY <2>1, <3>3 DEF ExchangeMax, RetryAt, Goto, IInv, Types, MaxRight, counters, history
    <3> QED
      BY <3>1, <3>2, <3>3
  <2> QED
    BY <1>2, <2>2, <2>3, <2>4 DEF MaxRight, history
<1> QED
  BY <1>1, <1>4, <1>5 DEF IInv

\* Counting the overdraw keeps it.
LEMMA InvCountOverdraw == ASSUME IInv, NEW o \in Overdrawns, CountOverdraw(o) PROVE IInv'
<1> USE DEF Building
<1>1. /\ pc[o] = "count" /\ pc' = [pc EXCEPT ![o] = "add_sum"]
      /\ numberOverdraws' = numberOverdraws + 1
      /\ UNCHANGED <<overdrawnCount, maxOverdraw, sumOverdraws, overBy, cand, peak, overlapped>>
  BY DEF CountOverdraw, Goto, history
<1>2. Types'
  BY <1>1 DEF IInv, Types
<1>3. Out' = Out /\ Uncounted' = Uncounted \cup {o} /\ o \notin Uncounted
  BY <1>1 DEF Out, Uncounted, IInv, Types
<1>4. Cardinality(Uncounted') = Cardinality(Uncounted) + 1
  BY <1>3, Finite, FS_AddElement
<1>5. (numberOverdraws - Cardinality(Uncounted))' = numberOverdraws - Cardinality(Uncounted)
  BY <1>1, <1>4, Finite DEF IInv, Types
<1>6. CountRight' /\ SumRight'
  BY <1>1, <1>3, <1>5 DEF IInv, Types, CountRight, SumRight
<1>7. MaxRight'
  BY <1>1 DEF IInv, Types, MaxRight, Settled
<1> QED
  BY <1>2, <1>6, <1>7 DEF IInv

\* Adding to the sum keeps it.
LEMMA InvAddSum == ASSUME IInv, NEW o \in Overdrawns, AddSum(o) PROVE IInv'
<1> USE DEF Building
<1>1. /\ pc[o] = "add_sum" /\ pc' = [pc EXCEPT ![o] = "alive"]
      /\ sumOverdraws' = sumOverdraws + overBy[o]
      /\ UNCHANGED <<overdrawnCount, maxOverdraw, numberOverdraws, overBy, cand, peak, overlapped>>
  BY DEF AddSum, Goto, history
<1>2. Types'
  BY <1>1 DEF IInv, Types
<1>3. Out' = Out /\ Uncounted' = Uncounted \ {o} /\ o \in Uncounted
  BY <1>1 DEF Out, Uncounted, IInv, Types
<1>4. Cardinality(Uncounted') = Cardinality(Uncounted) - 1
  BY <1>3, Finite, FS_RemoveElement
<1>5. CountRight'
  BY <1>1, <1>3 DEF IInv, Types, CountRight
<1>6. SumRight'
  <2> DEFINE added == numberOverdraws - Cardinality(Uncounted)
  <2>1. added \in Nat /\ added <= sumOverdraws /\ sumOverdraws <= added * peak
    BY Finite DEF IInv, Types, SumRight
  <2>2. added' = added + 1
    BY <1>1, <1>4, Finite DEF IInv, Types
  <2>3. overBy[o] >= 1 /\ overBy[o] <= peak /\ overBy[o] \in Nat /\ peak \in Nat
    BY <1>1 DEF IInv, Types, CountRight
  <2>4. (added + 1) * peak = added * peak + peak /\ added * peak \in Nat
    BY <2>1, <2>3
  <2>5. sumOverdraws \in Nat
    BY DEF IInv, Types
  <2> HIDE DEF added
  <2>6. added + 1 <= sumOverdraws' /\ sumOverdraws' <= (added + 1) * peak
    BY <1>1, <2>1, <2>3, <2>4, <2>5
  <2> QED
    BY <1>1, <2>1, <2>2, <2>6 DEF SumRight, added
<1>7. MaxRight'
  BY <1>1 DEF IInv, Types, MaxRight, Settled
<1> QED
  BY <1>2, <1>5, <1>6, <1>7 DEF IInv

\* The destructor keeps it.
LEMMA InvCountDown == ASSUME IInv, NEW o \in Overdrawns, CountDown(o) PROVE IInv'
<1> USE DEF Building
<1>1. /\ pc[o] = "alive" /\ pc' = [pc EXCEPT ![o] = "gone"]
      /\ overdrawnCount' = overdrawnCount - 1
      /\ UNCHANGED <<maxOverdraw, numberOverdraws, sumOverdraws, overBy, cand, peak, overlapped>>
  BY DEF CountDown, Decremented, Goto, history
<1>2. Out' = Out \ {o} /\ o \in Out /\ Uncounted' = Uncounted
  BY <1>1 DEF Out, Uncounted, IInv, Types
<1>3. Cardinality(Out') = Cardinality(Out) - 1 /\ Cardinality(Out') \in Nat
  BY <1>2, Finite, FS_RemoveElement, FS_CardinalityType
<1>4. Types'
  BY <1>1, <1>3 DEF IInv, Types, CountRight
<1>5. CountRight' /\ SumRight'
  BY <1>1, <1>2, <1>3, <1>4 DEF IInv, Types, CountRight, SumRight
<1>6. MaxRight'
  BY <1>1 DEF IInv, Types, MaxRight, Settled
<1> QED
  BY <1>4, <1>5, <1>6 DEF IInv

\* The invariant holds of every reachable state.
THEOREM Invariance == Spec => []IInv
<1>1. IInv /\ [Next]_vars => IInv'
  <2> SUFFICES ASSUME IInv, [Next]_vars PROVE IInv'
    OBVIOUS
  <2>1. CASE UNCHANGED vars
    <3>1. Out' = Out /\ Uncounted' = Uncounted
      BY <2>1 DEF vars, Out, Uncounted
    <3> QED
      BY <2>1, <3>1
         DEF vars, counters, history, IInv, Types, CountRight, SumRight, MaxRight, Settled
  <2>2. CASE Next
    BY <2>2, InvCountUp, InvLoop, InvCountOverdraw, InvAddSum, InvCountDown DEF Next, Construct
  <2> QED
    BY <2>1, <2>2
<1> QED
  BY <1>1, InvInit, PTL DEF Spec

\* Type correctness; overdrawn_count never passes the number of rentals or falls below zero.
THEOREM TypeCorrect == Spec => []TypeOK
<1>1. IInv => TypeOK
  BY Finite, OverdrawnsAssumption, FS_CardinalityType DEF IInv, Types, CountRight, TypeOK
<1> QED
  BY <1>1, Invariance, PTL

\* The loop is a correct maximum as long as constructors do not overlap.
THEOREM MaximumRight == Spec => []MaxRightWithoutOverlap
<1>1. IInv => MaxRightWithoutOverlap
  BY DEF IInv, MaxRight, MaxRightWithoutOverlap
<1> QED
  BY <1>1, Invariance, PTL

\* The printed average lies between 1 and the peak, however constructors interleave.
THEOREM SumBounded == Spec => []SumWithinBounds
<1>1. IInv => SumWithinBounds
  <2> SUFFICES ASSUME IInv, Settled PROVE SumWithinBounds
    BY DEF SumWithinBounds
  <2>1. Uncounted = {}
    BY DEF Settled, Uncounted, Building
  <2>2. numberOverdraws - Cardinality(Uncounted) = numberOverdraws
    BY <2>1, FS_EmptySet DEF IInv, Types
  <2> QED
    BY <2>2 DEF IInv, SumRight, SumWithinBounds
<1> QED
  BY <1>1, Invariance, PTL
=============================================================================
