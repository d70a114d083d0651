------------------- MODULE GloballyBackedExecutorTheorems -------------------
(***************************************************************************)
(* Proofs that the executor runs the pool, so that the theorems about it   *)
(* hold here, and keeps its types and its cells, for every number of       *)
(* workers, tasks and cells.                                               *)
(***************************************************************************)
EXTENDS GloballyBackedExecutor, ThreadPoolTheorems

\* The call of increase_mem that is going on is at the last cell, or before the next.
GrowthInStep ==
  /\ mem_count \in Nat /\ i \in 0..MaxCells /\ max \in 0..MaxCells
  /\ step \in {"idle", "init", "add"}
  /\ step = "init" => i = mem_count /\ i < max
  /\ step = "add" => mem_count = i + 1
  /\ mem_count <= MaxCells
  /\ inited = 0..(mem_count - 1)

\* The inductive invariant.
IInv == GrowthInStep /\ cell \in [Workers -> Cells \cup {NoCell}] /\ CellsKept

\* The cells that may be held or free.
Offered == inited \ {x \in {i} : step = "add"}

LEMMA HeldAre == \A w \in Workers : cell[w] # NoCell => cell[w] \in Held
BY DEF Held

\* The constructor's state satisfies the invariant.
LEMMA InvInit == Init => IInv
<1> SUFFICES ASSUME Init PROVE IInv
  OBVIOUS
<1>1. GrowthInStep
  BY CellsAssumption DEF Init, GrowthInStep
<1>2. cell \in [Workers -> Cells \cup {NoCell}]
  BY DEF Init
<1>3. Held = {}
  BY DEF Init, Held
<1>4. CellsKept
  BY <1>3 DEF Init, CellsKept
<1> QED
  BY <1>1, <1>2, <1>4 DEF IInv

\* A step that only concerns the pool keeps it.
LEMMA InvPool == IInv /\ UNCHANGED execVars => IInv'
BY DEF IInv, GrowthInStep, CellsKept, Held, execVars, cellVars, growVars, Cells, NoCell

\* increase_mem keeps it.
LEMMA InvGrow ==
  ASSUME IInv, Grows \/ \E howmuch \in 1..MaxCells : IncreaseMem(howmuch)
  PROVE  IInv'
<1> USE CellsAssumption
<1>1. cell' = cell /\ Held' = Held
  BY DEF Grows, InitCell, AddIndex, IncreaseMem, cellVars, Held
<1>2. GrowthInStep'
  <2>1. CASE \E howmuch \in 1..MaxCells : IncreaseMem(howmuch)
    BY <2>1 DEF IInv, GrowthInStep, IncreaseMem, cellVars
  <2>2. CASE InitCell
    BY <2>2 DEF IInv, GrowthInStep, InitCell
  <2>3. CASE AddIndex
    BY <2>3 DEF IInv, GrowthInStep, AddIndex
  <2> QED
    BY <2>1, <2>2, <2>3 DEF Grows
<1>3. (Held \cap indices = {})' /\ (Held \cup indices = Offered)'
  <2>1. CASE \E howmuch \in 1..MaxCells : IncreaseMem(howmuch)
    BY <1>1, <2>1 DEF IInv, CellsKept, Offered, IncreaseMem, cellVars
  <2>2. CASE InitCell
    <3>1. Held \cap indices = {} /\ Held \cup indices = inited
      BY <2>2 DEF IInv, CellsKept, InitCell
    <3>2. i \notin inited
      BY <2>2 DEF IInv, GrowthInStep, InitCell
    <3>3. Offered' = inited
      BY <2>2, <3>2 DEF Offered, InitCell
    <3> QED
      BY <1>1, <2>2, <3>1, <3>3 DEF InitCell
  <2>3. CASE AddIndex
    <3>1. Held \cap indices = {} /\ Held \cup indices = inited \ {i}
      BY <2>3 DEF IInv, CellsKept, AddIndex
    <3>2. i \in inited
      BY <2>3 DEF IInv, GrowthInStep, AddIndex
    <3>3. Offered' = inited
      BY <2>3 DEF Offered, AddIndex
    <3> QED
      BY <1>1, <2>3, <3>1, <3>2, <3>3 DEF AddIndex
  <2> QED
    BY <2>1, <2>2, <2>3 DEF Grows
<1>4. CellsKept'
  <2>1. (inited \subseteq 0..(mem_count - 1))'
    BY <1>2 DEF GrowthInStep
  <2> QED
    BY <1>1, <1>3, <2>1 DEF IInv, CellsKept, Offered
<1> QED
  BY <1>1, <1>2, <1>4 DEF IInv

\* Taking an index keeps it.
LEMMA InvTake == ASSUME IInv, NEW w \in Workers, TakeCell(w) PROVE IInv'
<1>1. PICK x \in indices : cell' = [cell EXCEPT ![w] = x] /\ indices' = indices \ {x}
  BY DEF TakeCell
<1>2. cell[w] = NoCell /\ UNCHANGED <<mem_count, inited, step, i, max>>
  BY DEF TakeCell, growVars
<1>3. x \notin Held /\ x \in Cells /\ x # NoCell
  BY CellsAssumption DEF IInv, CellsKept, GrowthInStep, Cells, NoCell
<1>4. cell' \in [Workers -> Cells \cup {NoCell}]
  BY <1>1, <1>3 DEF IInv
<1>5. \A v \in Workers : cell'[v] = IF v = w THEN x ELSE cell[v]
  BY <1>1 DEF IInv
<1>6. Held' = Held \cup {x}
  BY <1>2, <1>3, <1>5 DEF Held
<1>7. CellsKept'
  <2>1. \A u, v \in Workers : u # v /\ cell'[u] # NoCell => cell'[u] # cell'[v]
    BY <1>3, <1>5, HeldAre DEF IInv, CellsKept
  <2>2. Held' \cap indices' = {} /\ Held' \cup indices' = Held \cup indices
    BY <1>1, <1>6 DEF IInv, CellsKept
  <2> QED
    BY <1>2, <2>1, <2>2 DEF IInv, CellsKept
<1> QED
  BY <1>2, <1>4, <1>7 DEF IInv, GrowthInStep

\* Giving it back keeps it.
LEMMA InvEnd == ASSUME IInv, NEW w \in Workers, EndLaunch(w) PROVE IInv'
<1> DEFINE x == cell[w]
<1>1. /\ x # NoCell /\ cell' = [cell EXCEPT ![w] = NoCell] /\ indices' = indices \cup {x}
      /\ UNCHANGED <<mem_count, inited, step, i, max>>
  BY DEF EndLaunch, GivenBack, growVars
<1>2. cell' \in [Workers -> Cells \cup {NoCell}]
  BY <1>1 DEF IInv
<1>3. \A v \in Workers : cell'[v] = IF v = w THEN NoCell ELSE cell[v]
  BY <1>1 DEF IInv
<1>4. x \in Held /\ \A v \in Workers : v # w => cell[v] # x
  BY <1>1, HeldAre DEF IInv, CellsKept
<1>5. Held' = Held \ {x}
  BY <1>3, <1>4 DEF Held
<1>6. CellsKept'
  <2>1. \A u, v \in Workers : u # v /\ cell'[u] # NoCell => cell'[u] # cell'[v]
    BY <1>3 DEF IInv, CellsKept
  <2>2. Held' \cap indices' = {} /\ Held' \cup indices' = Held \cup indices
    BY <1>1, <1>4, <1>5 DEF IInv, CellsKept
  <2> QED
    BY <1>1, <2>1, <2>2 DEF IInv, CellsKept
<1> QED
  BY <1>1, <1>2, <1>6 DEF IInv, GrowthInStep

\* The invariant holds of every reachable state.
THEOREM Invariance == Spec => []IInv
<1>1. IInv /\ [Next]_vars => IInv'
  <2> SUFFICES ASSUME IInv, [Next]_vars PROVE IInv'
    OBVIOUS
  <2>1. CASE UNCHANGED execVars
    BY <2>1, InvPool
  <2>2. CASE Grows \/ \E howmuch \in 1..MaxCells : IncreaseMem(howmuch)
    BY <2>2, InvGrow
  <2>3. CASE \E w \in Workers : TakeCell(w) \/ EndLaunch(w)
    BY <2>3, InvTake, InvEnd
  <2> QED
    BY <2>1, <2>2, <2>3 DEF Next, vars
<1> QED
  BY <1>1, InvInit, PTL DEF Spec

\* The executor runs the pool: a step of it is one of the pool, in which a task ends only with
\* its cell given back, or leaves the pool alone.
THEOREM RunsThePool == Spec => PoolSpec
<1>1. Init => PoolInit
  BY DEF Init
<1>2. [Next]_vars => [PoolNext]_poolVars
  <2> SUFFICES ASSUME [Next]_vars PROVE [PoolNext]_poolVars
    OBVIOUS
  <2>1. CASE PoolStep
    BY <2>1 DEF PoolNext
  <2>2. ASSUME NEW w \in Workers, TakeCell(w) \/ EndLaunch(w) PROVE [PoolNext]_poolVars
    BY <2>2 DEF TakeCell, EndLaunch, PoolNext
  <2>3. CASE Grows \/ \E howmuch \in 1..MaxCells : IncreaseMem(howmuch)
    BY <2>3 DEF Grows, InitCell, AddIndex, IncreaseMem
  <2>4. CASE UNCHANGED vars
    BY <2>4 DEF vars
  <2> QED
    BY <2>1, <2>2, <2>3, <2>4 DEF Next
<1> QED
  BY <1>1, <1>2, PTL DEF Spec, PoolSpec

\* The types of the pool and of the executor; in particular the mutex is held by exactly the
\* worker that evaluates the predicate of cv.wait.
THEOREM TypeCorrect == Spec => []TypeOK
<1>1. PoolInv /\ IInv => TypeOK
  <2> SUFFICES ASSUME PoolInv, IInv PROVE TypeOK
    OBVIOUS
  <2>1. inited \subseteq Cells /\ indices \subseteq Cells
    BY CellsAssumption DEF IInv, GrowthInStep, CellsKept, Cells
  <2> QED
    BY <2>1, CellsAssumption DEF PoolInv, IInv, GrowthInStep, TypeOK
<1> QED
  BY <1>1, RunsThePool, PoolInvariance, Invariance, PTL

\* A cell belongs to one task, is initialised before its first task, and is never lost.
THEOREM CellsAreKept == Spec => []CellsKept
BY Invariance, PTL DEF IInv

=============================================================================
