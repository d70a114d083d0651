---------------------------- MODULE OverdrawStats ----------------------------
(***************************************************************************)
(* The statistics that overdrawn rentals keep in the pool's state and that *)
(* ~ResourcePool prints: constructors and destructors of several rentals   *)
(* interleave at every access to the four atomic counters.  The counters   *)
(* decide nothing in the pool, so ResourcePool leaves them to this module. *)
(***************************************************************************)
EXTENDS Integers, FiniteSets

CONSTANTS
  Overdrawns, \* names for overdrawn rentals; a name is reused once its rental is gone
  MaxBuilt    \* bound on the number of constructions

ASSUME BoundAssumption == MaxBuilt \in Nat
ASSUME OverdrawnsAssumption == IsFiniteSet(Overdrawns)

VARIABLES
  overdrawnCount, maxOverdraw, numberOverdraws, sumOverdraws, \* the atomics
  pc,        \* rental -> next step of its constructor or destructor
  overBy,    \* rental -> over_by
  cand,      \* rental -> cand
  peak,      \* history: the largest value overdrawn_count ever had
  overlapped \* history: two constructors have run at the same time

counters == <<overdrawnCount, maxOverdraw, numberOverdraws, sumOverdraws>>
history  == <<peak, overlapped>>
vars     == <<counters, pc, overBy, cand, history>>

Building == {"check_max", "load", "exchange", "count", "add_sum"}

TypeOK ==
  /\ overdrawnCount \in 0 .. Cardinality(Overdrawns) /\ maxOverdraw \in Nat
  /\ numberOverdraws \in Nat /\ sumOverdraws \in Nat
  /\ pc \in [Overdrawns -> Building \cup {"gone", "alive"}]
  /\ overBy \in [Overdrawns -> Nat] /\ cand \in [Overdrawns -> Nat]
  /\ peak \in Nat /\ overlapped \in BOOLEAN

Init ==
  /\ overdrawnCount = 0 /\ maxOverdraw = 0 /\ numberOverdraws = 0 /\ sumOverdraws = 0
  /\ pc = [o \in Overdrawns |-> "gone"]
  /\ overBy = [o \in Overdrawns |-> 0] /\ cand = [o \in Overdrawns |-> 0]
  /\ peak = 0 /\ overlapped = FALSE

Goto(o, label) == pc' = [pc EXCEPT ![o] = label]

BuiltSoFar == numberOverdraws + Cardinality({o \in Overdrawns : pc[o] \in Building \ {"add_sum"}})

\* What over_by becomes when overdrawn_count had the value n.
PostIncrement(n) == n \* mutant of PreIncrement: the constructor does not count itself
PreIncrement(n) == n + 1

\* over_by = ++overdrawn_count.
CountUp(o) ==
  /\ pc[o] = "gone" /\ BuiltSoFar < MaxBuilt
  /\ overdrawnCount' = overdrawnCount + 1
  /\ overBy' = [overBy EXCEPT ![o] = PreIncrement(overdrawnCount)]
  /\ peak' = IF overdrawnCount' > peak THEN overdrawnCount' ELSE peak
  /\ overlapped' = (overlapped \/ \E q \in Overdrawns : pc[q] \in Building)
  /\ Goto(o, "check_max")
  /\ UNCHANGED <<maxOverdraw, numberOverdraws, sumOverdraws, cand>>

\* Mutant of Surpassed: off by one.
SurpassedByTwo(o) == maxOverdraw + 1 < overBy[o]
Surpassed(o) == maxOverdraw < overBy[o]

\* The condition of the while loop.
CheckMax(o) ==
  /\ pc[o] = "check_max"
  /\ Goto(o, IF Surpassed(o) THEN "load" ELSE "count")
  /\ UNCHANGED <<counters, overBy, cand, history>>

LoadCand(o) ==
  /\ pc[o] = "load"
  /\ cand' = [cand EXCEPT ![o] = maxOverdraw]
  /\ Goto(o, "exchange")
  /\ UNCHANGED <<counters, overBy, history>>

\* Mutant of RetryAt: cand is not loaded again after a failed exchange.
RetryExchange == "exchange"
RetryAt == "check_max"

\* compare_exchange_strong: that cand < over_by is not part of the comparison.
ExchangeMax(o) ==
  /\ pc[o] = "exchange"
  /\ IF maxOverdraw = cand[o]
     THEN maxOverdraw' = overBy[o] /\ Goto(o, "count")
     ELSE UNCHANGED maxOverdraw /\ Goto(o, RetryAt)
  /\ UNCHANGED <<overdrawnCount, numberOverdraws, sumOverdraws, overBy, cand, history>>

CountOverdraw(o) ==
  /\ pc[o] = "count"
  /\ numberOverdraws' = numberOverdraws + 1
  /\ Goto(o, "add_sum")
  /\ UNCHANGED <<overdrawnCount, maxOverdraw, sumOverdraws, overBy, cand, history>>

AddSum(o) ==
  /\ pc[o] = "add_sum"
  /\ sumOverdraws' = sumOverdraws + overBy[o]
  /\ Goto(o, "alive")
  /\ UNCHANGED <<overdrawnCount, maxOverdraw, numberOverdraws, overBy, cand, history>>

\* Mutant of Decremented: the destructor forgets to count down.
NotDecremented(n) == n
Decremented(n) == n - 1

\* ~overdrawn, after before_delete.
CountDown(o) ==
  /\ pc[o] = "alive"
  /\ overdrawnCount' = Decremented(overdrawnCount)
  /\ Goto(o, "gone")
  /\ UNCHANGED <<maxOverdraw, numberOverdraws, sumOverdraws, overBy, cand, history>>

Construct(o) ==
  CheckMax(o) \/ LoadCand(o) \/ ExchangeMax(o) \/ CountOverdraw(o) \/ AddSum(o)

Next == \E o \in Overdrawns : CountUp(o) \/ Construct(o) \/ CountDown(o)

Spec == Init /\ [][Next]_vars

\* A constructor that has begun is scheduled until it ends.
FairSpec == Spec /\ \A o \in Overdrawns : WF_vars(Construct(o))

-----------------------------------------------------------------------------
\* No constructor is running.
Settled == \A o \in Overdrawns : pc[o] \notin Building

\* The maximum and the count are right as long as constructors did not overlap: the
\* loop of overdrawn's constructor is a correct sequential maximum, and no destructor
\* that runs beside a constructor disturbs it.
MaxRightWithoutOverlap == ~overlapped /\ Settled => maxOverdraw = peak

\* What the average printed by ~ResourcePool relies on: each construction has added
\* between 1 and the peak to sum_overdraws, however constructors interleaved.
SumWithinBounds ==
  Settled => numberOverdraws <= sumOverdraws /\ sumOverdraws <= numberOverdraws * peak

\* The compare-exchange loop ends although other constructors raise and lower
\* max_overdraw under it.
ConstructorsFinish == \A o \in Overdrawns : pc[o] = "check_max" ~> pc[o] = "alive"

\* What "Max overdraw" says in the statistics of ~ResourcePool
\* (resource_pool_impl_resource_pool.hpp:30): the most that were out at once.
MaxIsPeak == Settled => maxOverdraw = peak
=============================================================================
