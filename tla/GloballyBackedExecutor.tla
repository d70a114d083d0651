----------------------- MODULE GloballyBackedExecutor -----------------------
(***************************************************************************)
(* GloballyBackedExecutor_impl on the thread pool of GlobalPool.  launch   *)
(* pushes a function that takes the index of a memory cell, waits while    *)
(* there is none, runs a behaviour on the cell, and gives the index back   *)
(* when its scope ends, however it ends.  increase_mem adds cells to       *)
(* remember_these one by one, initialises them, and adds their indices; it *)
(* is not safe for two callers at once, so there is one (overlapping calls *)
(* would take the same index for two cells).  A cell is named by its index *)
(* and an element of remember_these by its position, which are the same.   *)
(***************************************************************************)
EXTENDS ThreadPool

CONSTANT
  MaxCells  \* bound on mem_count

ASSUME CellsAssumption == MaxCells \in Nat

VARIABLES
  mem_count, \* remember_these.size()
  inited,    \* cells that init has been called on
  indices,   \* the SafeSet
  cell,      \* worker -> the index its task holds
  step,      \* the next step of increase_mem
  i, max     \* its locals

cellVars == <<mem_count, inited, indices, cell>>
growVars == <<step, i, max>>
execVars == <<cellVars, growVars>>
vars == <<poolVars, execVars>>

Cells == 0..(MaxCells - 1)
NoCell == -1
Held == {cell[w] : w \in Workers} \ {NoCell}

TypeOK ==
  /\ PoolTypeOK
  /\ mem_count \in 0..MaxCells
  /\ inited \subseteq Cells /\ indices \subseteq Cells
  /\ cell \in [Workers -> Cells \cup {NoCell}]
  /\ step \in {"idle", "init", "add"}
  /\ i \in 0..MaxCells /\ max \in 0..MaxCells

Init ==
  /\ PoolInit
  /\ mem_count = 0 /\ inited = {} /\ indices = {}
  /\ cell = [w \in Workers |-> NoCell]
  /\ step = "idle" /\ i = 0 /\ max = 0

-----------------------------------------------------------------------------
(* increase_mem (set_mem_to calls it with the difference).                 *)

IncreaseMem(howmuch) ==
  /\ step = "idle" /\ mem_count + howmuch <= MaxCells
  /\ i' = mem_count /\ max' = mem_count + howmuch
  /\ step' = "init"
  /\ UNCHANGED <<poolVars, cellVars>>

\* remember_these.emplace_back(new Mem(i)), which only this call reads, and init(i, ...).
InitCell ==
  /\ step = "init"
  /\ mem_count' = mem_count + 1
  /\ inited' = inited \cup {i}
  /\ step' = "add"
  /\ UNCHANGED <<poolVars, indices, cell, i, max>>

\* The index is offered, and the loop goes on or ends.
AddIndex ==
  /\ step = "add"
  /\ indices' = indices \cup {i}
  /\ i' = i + 1
  /\ step' = IF i' < max THEN "init" ELSE "idle"
  /\ UNCHANGED <<poolVars, mem_count, inited, cell, max>>

-----------------------------------------------------------------------------
(* The function that launch pushes, on a worker of the pool.               *)

\* indices.pop() blocks while the set is empty.
TakeCell(w) ==
  /\ pc[w] = "run" /\ cell[w] = NoCell
  /\ \E x \in indices :
       /\ cell' = [cell EXCEPT ![w] = x]
       /\ indices' = indices \ {x}
  /\ UNCHANGED <<poolVars, mem_count, inited, growVars>>

\* Mutant of GivenBack: an exception that onException throws on skips the end of the scope.
GivenBackOnReturn(x, thrown) == IF thrown THEN {} ELSE {x}
GivenBack(x, thrown) == {x}

\* The behaviour and, after an exception, onException have ended, the latter perhaps with an
\* exception of its own.  The index is back before the future is ready.
EndLaunch(w) ==
  /\ cell[w] # NoCell /\ EndTask(w)
  /\ \E thrown \in BOOLEAN : indices' = indices \cup GivenBack(cell[w], thrown)
  /\ cell' = [cell EXCEPT ![w] = NoCell]
  /\ UNCHANGED <<mem_count, inited, growVars>>

-----------------------------------------------------------------------------

Grows == InitCell \/ AddIndex

\* What a worker's thread does next.
Works(w) == (WorkerStep(w) /\ UNCHANGED execVars) \/ TakeCell(w) \/ EndLaunch(w)

Next ==
  \/ PoolStep /\ UNCHANGED execVars
  \/ \E w \in Workers : TakeCell(w) \/ EndLaunch(w)
  \/ Grows \/ \E howmuch \in 1..MaxCells : IncreaseMem(howmuch)

Spec == Init /\ [][Next]_vars

\* Threads are scheduled, behaviours end, and a mutex that stays free is taken in the end.  A
\* client need not launch or add cells, and the controller need not call.
FairSpec ==
  /\ Spec
  /\ \A k \in Tasks : WF_vars(NotifyOne(k) /\ UNCHANGED execVars)
  /\ \A w \in Workers : WF_vars(Works(w))
  /\ WF_vars(ControllerStep /\ UNCHANGED execVars)
  /\ WF_vars(Grows)

-----------------------------------------------------------------------------
(* Properties.                                                             *)

\* A cell belongs to one task at a time, is initialised before the first one sees it, and is
\* never lost: every cell that was offered is either free or held, also after exceptions.
CellsKept ==
  /\ \A v, w \in Workers : v # w /\ cell[v] # NoCell => cell[v] # cell[w]
  /\ Held \cap indices = {}
  /\ Held \cup indices = inited \ {x \in {i} : step = "add"}
  /\ inited \subseteq 0..(mem_count - 1)

\* Once there is a cell, what is launched ends: tasks that hold every worker while they wait
\* for an index are no deadlock, and no cell is lost.  It does not when every thread of the
\* pool has left, or when the controller's pop hid it.
LaunchesEnd ==
  \A k \in Tasks :
    fate[k] \in {"queued", "popped"} /\ mem_count > 0 ~>
      \/ fate[k] \in {"done", "deleted", "taken"}
      \/ blinded \/ \A w \in threads : pc[w] = "gone"

=============================================================================
