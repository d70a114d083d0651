---------------------------- MODULE ResourcePool ----------------------------
(***************************************************************************)
(* mutils::ResourcePool: threads acquire, re-lock, share and drop handles  *)
(* to pooled resources.  A thread's way through acquire_new_preference,    *)
(* acquire_with_preference, acquire_no_preference and the destructors is   *)
(* cut wherever another thread can see or change what it reads next: at    *)
(* each atomic read or write, each SafeSet call, each queue operation and  *)
(* each critical section of a pack's mutex.                                *)
(*                                                                         *)
(* Packs.  A preferred_resource is named by its index, a spare_resource by *)
(* a model value.  A rented_resource lives while its pack is out, so it    *)
(* bears the name of its pack; an overdrawn one is a name of Overdrawns.   *)
(* Sets stand for the boolean members of the packs.                        *)
(***************************************************************************)
EXTENDS Integers, FiniteSets

CONSTANTS
  Threads,         \* client threads
  Lockeds,         \* LockedResource variables of the clients
  Weaks,           \* WeakResource variables of the clients
  MaxResources,    \* max_resources: number of preferred packs
  Spares,          \* the spare packs; max_spares is their number
  Overdrawns,      \* names for overdrawn rentals: bounds those alive at once
  AllowOverdraws,  \* allow_overdraws
  BuilderMayThrow, \* the client's builder may throw
  None             \* the null pointer

Preferred == 0 .. MaxResources - 1
Packs == Preferred \cup Spares
Rentals == Packs \cup Overdrawns

ASSUME ThreadsAssumption == IsFiniteSet(Threads)
ASSUME SizeAssumption == MaxResources \in Nat
ASSUME NamesAssumption ==
  /\ IsFiniteSet(Spares)
  /\ Spares \cap Nat = {} /\ Overdrawns \cap Nat = {}
  /\ Spares \cap Overdrawns = {}
  /\ None \notin Rentals \cup Nat \cup Lockeds \cup Weaks
ASSUME FlagsAssumption == AllowOverdraws \in BOOLEAN /\ BuilderMayThrow \in BOOLEAN

VARIABLES
  currentMaxIndex, \* next index never handed out, saturating at MaxResources
  recycledIndices, \* SafeSet of indices whose index_owner is gone
  initialized,     \* packs whose resource has been built
  resource,        \* packs whose unique_ptr resource is not null
  inFreeList,      \* preferred packs whose in_free_list is set
  whoOwnsMe,       \* preferred packs whose who_owns_me is not null
  freeResources,   \* the queue inside free_resources: entries of each pack
  sema,            \* the permits of the semaphore of free_resources
  held,            \* packs whose T is between onAcquire and onRelease
  locked,          \* LockedResource -> its index_preference and rsource
  weak,            \* WeakResource -> its index_preference and live rsource
  pc,              \* thread -> next step of the call it is in
  dqType,          \* thread -> which dequeue acquire_no_preference is using
  lh, wh,          \* thread -> handles its call fills or uses
  pref,            \* thread -> index_owner its call holds
  pack             \* thread -> pack dequeued, or rental being destroyed

poolVars   == <<currentMaxIndex, recycledIndices, initialized, resource,
                inFreeList, whoOwnsMe, freeResources, sema, held>>
handleVars == <<locked, weak>>
vars       == <<poolVars, handleVars, pc, dqType, lh, wh, pref, pack>>

PC == {"idle", "preferred_full", "check_recycled", "choose_index", "build_or_pop",
       "fetch_add", "with_preference", "dequeue", "take", "unlist", "borrow",
       "overdraw", "on_release", "give_back", "enqueue", "signal", "return", "recycle"}

Handle == [pref : Preferred \cup {None}, rsource : Rentals \cup {None}]
Nothing == [pref |-> None, rsource |-> None]

TypeOK ==
  /\ currentMaxIndex \in 0 .. MaxResources
  /\ recycledIndices \subseteq Preferred
  /\ initialized \subseteq Packs /\ resource \subseteq Packs
  /\ inFreeList \subseteq Preferred /\ whoOwnsMe \subseteq Preferred
  /\ freeResources \in [Packs -> Nat] /\ sema \in Nat
  /\ held \subseteq Packs
  /\ locked \in [Lockeds -> Handle]
  /\ weak \in [Weaks -> Handle]
  /\ pc \in [Threads -> PC]
  /\ dqType \in [Threads -> {"try_dequeue", "wait_dequeue"}]
  /\ lh \in [Threads -> Lockeds \cup {None}]
  /\ wh \in [Threads -> Weaks \cup {None}]
  /\ pref \in [Threads -> Preferred \cup {None}]
  /\ pack \in [Threads -> Rentals \cup {None}]

(***************************************************************************)
(* The constructor: packs empty and unbuilt, every spare pack enqueued.  A *)
(* WeakResource variable starts as acquire_weak returns it.                *)
(***************************************************************************)
Init ==
  /\ currentMaxIndex = 0
  /\ recycledIndices = {}
  /\ initialized = {} /\ resource = {} /\ inFreeList = {} /\ whoOwnsMe = {}
  /\ freeResources = [p \in Packs |-> IF p \in Spares THEN 1 ELSE 0]
  /\ sema = Cardinality(Spares)
  /\ held = {}
  /\ locked = [h \in Lockeds |-> Nothing]
  /\ weak = [w \in Weaks |-> Nothing]
  /\ pc = [t \in Threads |-> "idle"]
  /\ dqType = [t \in Threads |-> "try_dequeue"]
  /\ lh = [t \in Threads |-> None]
  /\ wh = [t \in Threads |-> None]
  /\ pref = [t \in Threads |-> None]
  /\ pack = [t \in Threads |-> None]

-----------------------------------------------------------------------------
(* What reference counts and mutexes decide.                               *)

\* Handles are not thread safe: a client uses one from one call at a time.
BusyLocked(h) == \E t \in Threads : lh[t] = h
BusyWeak(w)   == \E t \in Threads : wh[t] = w
Empty(h)      == locked[h].rsource = None /\ ~BusyLocked(h)
Full(h)       == locked[h].rsource # None /\ ~BusyLocked(h)

\* The index_owner of i is owned by a handle or by a call of these threads.
IndexOwned(i, threads) ==
  \/ \E h \in Lockeds : locked[h].pref = i
  \/ \E w \in Weaks : weak[w].pref = i
  \/ \E t \in threads : pref[t] = i

\* The rented_resource r is constructed and its T not yet given back.
Rented(r) ==
  \/ \E h \in Lockeds : locked[h].rsource = r
  \/ \E t \in Threads : pc[t] \in {"on_release", "give_back"} /\ pack[t] = r

\* The mutex of a preferred pack: ~rented_preferred enqueues inside it.
MutexHeld(p) ==
  p \in Preferred /\ \E t \in Threads : pc[t] \in {"enqueue", "signal"} /\ pack[t] = p

Goto(t, label) == pc' = [pc EXCEPT ![t] = label]

-----------------------------------------------------------------------------
(* Calls a client makes.                                                   *)

\* ResourcePool::acquire.
Acquire(t, h) ==
  /\ pc[t] = "idle" /\ Empty(h)
  /\ lh' = [lh EXCEPT ![t] = h]
  /\ Goto(t, "preferred_full")
  /\ UNCHANGED <<poolVars, handleVars, dqType, wh, pref, pack>>

\* WeakResource::lock and acquire_if_locked when the weak_ptr still has its rental.
LockLive(t, w, h) ==
  /\ pc[t] = "idle" /\ Empty(h) /\ ~BusyWeak(w)
  /\ weak[w].rsource # None
  /\ locked' = [locked EXCEPT ![h] = weak[w]]
  /\ UNCHANGED <<poolVars, weak, pc, dqType, lh, wh, pref, pack>>

\* WeakResource::lock when the weak_ptr has expired (or never had a rental).
LockExpired(t, w, h) ==
  /\ pc[t] = "idle" /\ Empty(h) /\ ~BusyWeak(w)
  /\ weak[w].rsource = None
  /\ lh' = [lh EXCEPT ![t] = h]
  /\ wh' = [wh EXCEPT ![t] = w]
  /\ pref' = [pref EXCEPT ![t] = weak[w].pref]
  /\ Goto(t, IF weak[w].pref = None THEN "preferred_full" ELSE "with_preference")
  /\ UNCHANGED <<poolVars, handleVars, dqType, pack>>

\* LockedResource::clone, lock and acquire_if_locked: one more owner of both pointers.
Clone(t, h, g) ==
  /\ pc[t] = "idle" /\ Full(h) /\ Empty(g)
  /\ locked' = [locked EXCEPT ![g] = locked[h]]
  /\ UNCHANGED <<poolVars, weak, pc, dqType, lh, wh, pref, pack>>

\* WeakResource's constructor and operator= from a LockedResource; the owner of
\* the overwritten index_preference goes away.
AssignWeak(t, w, h) ==
  /\ pc[t] = "idle" /\ Full(h) /\ ~BusyWeak(w)
  /\ weak' = [weak EXCEPT ![w] = locked[h]]
  /\ pref' = [pref EXCEPT ![t] = weak[w].pref]
  /\ Goto(t, "return")
  /\ UNCHANGED <<poolVars, locked, dqType, lh, wh, pack>>

\* ~WeakResource; the variable is then as acquire_weak would make it.
DropWeak(t, w) ==
  /\ pc[t] = "idle" /\ ~BusyWeak(w) /\ weak[w] # Nothing
  /\ weak' = [weak EXCEPT ![w] = Nothing]
  /\ pref' = [pref EXCEPT ![t] = weak[w].pref]
  /\ Goto(t, "return")
  /\ UNCHANGED <<poolVars, locked, dqType, lh, wh, pack>>

\* ~LockedResource: rsource first; its last owner runs the rental's destructor
\* and every weak_ptr to it expires.  index_preference goes after it.
DropLocked(t, h) ==
  LET r == locked[h].rsource
      last == \A g \in Lockeds \ {h} : locked[g].rsource # r
  IN /\ pc[t] = "idle" /\ Full(h)
     /\ locked' = [locked EXCEPT ![h] = Nothing]
     /\ pref' = [pref EXCEPT ![t] = locked[h].pref]
     /\ IF last
        THEN /\ weak' = [w \in Weaks |-> IF weak[w].rsource = r
                                         THEN [weak[w] EXCEPT !.rsource = None]
                                         ELSE weak[w]]
             /\ pack' = [pack EXCEPT ![t] = r]
             /\ Goto(t, "on_release")
        ELSE /\ Goto(t, "return")
             /\ UNCHANGED <<weak, pack>>
     /\ UNCHANGED <<poolVars, dqType, lh, wh>>

-----------------------------------------------------------------------------
(* acquire_new_preference: find an index to own.                           *)

\* preferred_full, first operand: an index was never handed out.
CheckMaxIndex(t) ==
  /\ pc[t] = "preferred_full"
  /\ Goto(t, IF currentMaxIndex < MaxResources THEN "choose_index" ELSE "check_recycled")
  /\ UNCHANGED <<poolVars, handleVars, dqType, lh, wh, pref, pack>>

\* preferred_full, second operand.
CheckRecycled(t) ==
  /\ pc[t] = "check_recycled"
  /\ Goto(t, IF recycledIndices = {} THEN "dequeue" ELSE "choose_index")
  /\ UNCHANGED <<poolVars, handleVars, dqType, lh, wh, pref, pack>>

\* The condition that chooses between recycling an index and a new one.
ChooseIndex(t) ==
  /\ pc[t] = "choose_index"
  /\ Goto(t, IF recycledIndices # {} THEN "build_or_pop" ELSE "fetch_add")
  /\ UNCHANGED <<poolVars, handleVars, dqType, lh, wh, pref, pack>>

\* SafeSet::build_or_pop on a set that still has an element.
PopIndex(t) ==
  /\ pc[t] = "build_or_pop"
  /\ \E i \in recycledIndices :
       /\ recycledIndices' = recycledIndices \ {i}
       /\ pref' = [pref EXCEPT ![t] = i]
  /\ Goto(t, "with_preference")
  /\ UNCHANGED <<currentMaxIndex, initialized, resource, inFreeList, whoOwnsMe,
                 freeResources, sema, held, handleVars, dqType, lh, wh, pack>>

\* my_preference is an index of a preferred pack.
WinsAtLimit(i) == i <= MaxResources \* mutant of Wins: one index too many
Wins(i) == i < MaxResources

\* fetch_add, also as build_or_pop's builder when the set has been emptied meanwhile.
\* A value past MaxResources wins nothing whatever it is, hence the saturation.
FetchIndex(t) ==
  /\ \/ pc[t] = "fetch_add"
     \/ pc[t] = "build_or_pop" /\ recycledIndices = {}
  /\ IF Wins(currentMaxIndex)
     THEN /\ currentMaxIndex' = currentMaxIndex + 1
          /\ pref' = [pref EXCEPT ![t] = currentMaxIndex]
          /\ Goto(t, "with_preference")
     ELSE /\ Goto(t, "dequeue")
          /\ UNCHANGED <<currentMaxIndex, pref>>
  /\ UNCHANGED <<recycledIndices, initialized, resource, inFreeList, whoOwnsMe,
                 freeResources, sema, held, handleVars, dqType, lh, wh, pack>>

-----------------------------------------------------------------------------
(* Borrowing a pack, under its mutex.                                      *)

\* Mutant of TakeOut: the rental does not register itself in who_owns_me.
TakeOutUnregistered(p) ==
  /\ initialized' = initialized \cup {p}
  /\ resource' = resource \ {p}
  /\ held' = held \cup {p}
  /\ UNCHANGED whoOwnsMe

\* Mutant of TakeOut: the T is copied into the rental and not moved.
TakeCopy(p) ==
  /\ initialized' = initialized \cup {p}
  /\ resource' = resource \cup {p}
  /\ whoOwnsMe' = whoOwnsMe \cup ({p} \cap Preferred)
  /\ held' = held \cup {p}

\* initialize_if_needed, then the rental is constructed around the T: onAcquire
\* runs and, for a preferred pack, who_owns_me points to the rental.
TakeOut(p) ==
  /\ initialized' = initialized \cup {p}
  /\ resource' = resource \ {p}
  /\ whoOwnsMe' = whoOwnsMe \cup ({p} \cap Preferred)
  /\ held' = held \cup {p}

\* The result fills the caller's handle; WeakResource::lock also keeps it, under
\* its own index_preference if it has one.
Deliver(t, i, r) ==
  /\ locked' = [locked EXCEPT ![lh[t]] = [pref |-> i, rsource |-> r]]
  /\ weak' = IF wh[t] = None THEN weak
             ELSE [weak EXCEPT ![wh[t]] =
                     [pref |-> IF @.pref = None THEN i ELSE @.pref, rsource |-> r]]
  /\ Goto(t, "return")

\* What borrow does not find: a T built earlier and out with some rental.
NeverOut(p) == FALSE \* mutant of IsOut: borrow does not look whether resource is null
IsOut(p) == p \in initialized /\ p \notin resource

\* acquire_with_preference: the preferred pack of the index is at home.
BorrowPreferred(t) ==
  LET p == pref[t]
  IN /\ pc[t] = "with_preference" /\ ~MutexHeld(p) /\ ~IsOut(p)
     /\ TakeOut(p)
     /\ Deliver(t, p, p)
     /\ UNCHANGED <<currentMaxIndex, recycledIndices, inFreeList, freeResources, sema,
                    dqType, lh, wh, pref, pack>>

\* ResourceInvalidException: somebody else has it; go to acquire_no_preference.
PreferredIsOut(t) ==
  /\ pc[t] = "with_preference" /\ ~MutexHeld(pref[t]) /\ IsOut(pref[t])
  /\ Goto(t, "dequeue")
  /\ UNCHANGED <<poolVars, handleVars, dqType, lh, wh, pref, pack>>

-----------------------------------------------------------------------------
(* acquire_no_preference.                                                  *)

\* try_dequeue and wait_dequeue first take a permit of the semaphore.
Dequeue(t) ==
  /\ pc[t] = "dequeue" /\ sema > 0
  /\ sema' = sema - 1
  /\ Goto(t, "take")
  /\ UNCHANGED <<currentMaxIndex, recycledIndices, initialized, resource, inFreeList,
                 whoOwnsMe, freeResources, held, handleVars, dqType, lh, wh, pref, pack>>

\* No permit: try_dequeue fails; wait_dequeue blocks, so that nothing happens.
DequeueFails(t) ==
  /\ pc[t] = "dequeue" /\ dqType[t] = "try_dequeue" /\ sema = 0
  /\ IF AllowOverdraws
     THEN Goto(t, "overdraw") /\ UNCHANGED dqType
     ELSE dqType' = [dqType EXCEPT ![t] = "wait_dequeue"] /\ UNCHANGED pc
  /\ UNCHANGED <<poolVars, handleVars, lh, wh, pref, pack>>

\* With a permit, inner.try_dequeue is repeated until it yields a candidate.  The
\* queue keeps order only among one producer's entries, so any queued pack may come.
Take(t) ==
  /\ pc[t] = "take"
  /\ \E p \in Packs :
       /\ freeResources[p] > 0
       /\ freeResources' = [freeResources EXCEPT ![p] = @ - 1]
       /\ pack' = [pack EXCEPT ![t] = p]
  /\ Goto(t, "unlist")
  /\ UNCHANGED <<currentMaxIndex, recycledIndices, initialized, resource, inFreeList,
                 whoOwnsMe, sema, held, handleVars, dqType, lh, wh, pref>>

\* remove_from_free_list: without the mutex, and nothing for a spare.
RemoveFromFreeList(t) ==
  /\ pc[t] = "unlist"
  /\ inFreeList' = inFreeList \ {pack[t]}
  /\ Goto(t, "borrow")
  /\ UNCHANGED <<currentMaxIndex, recycledIndices, initialized, resource, whoOwnsMe,
                 freeResources, sema, held, handleVars, dqType, lh, wh, pref, pack>>

\* The candidate's T is at home: the result has no index_preference.
BorrowCandidate(t) ==
  LET p == pack[t]
  IN /\ pc[t] = "borrow" /\ ~MutexHeld(p) /\ ~IsOut(p)
     /\ TakeOut(p)
     /\ Deliver(t, None, p)
     /\ UNCHANGED <<currentMaxIndex, recycledIndices, inFreeList, freeResources, sema,
                    dqType, lh, wh, pref, pack>>

\* ResourceInvalidException: the index owner was faster; dequeue another.
CandidateIsOut(t) ==
  /\ pc[t] = "borrow" /\ pack[t] \in Preferred
  /\ ~MutexHeld(pack[t]) /\ IsOut(pack[t])
  /\ pack' = [pack EXCEPT ![t] = None]
  /\ Goto(t, "dequeue")
  /\ UNCHANGED <<poolVars, handleVars, dqType, lh, wh, pref>>

\* A one-off resource that no pack owns.
Overdraw(t) ==
  /\ pc[t] = "overdraw"
  /\ \E o \in Overdrawns : ~Rented(o) /\ Deliver(t, None, o)
  /\ UNCHANGED <<poolVars, dqType, lh, wh, pref, pack>>

\* The builder throws through acquire: nothing is delivered, a dequeued spare
\* is not put back, and the call's temporaries are destroyed.
BuilderThrows(t) ==
  /\ BuilderMayThrow
  /\ \/ pc[t] = "with_preference" /\ pref[t] \notin initialized /\ ~MutexHeld(pref[t])
     \/ pc[t] = "borrow" /\ pack[t] \notin initialized /\ ~MutexHeld(pack[t])
     \/ pc[t] = "overdraw"
  /\ Goto(t, "return")
  /\ UNCHANGED <<poolVars, handleVars, dqType, lh, wh, pref, pack>>

-----------------------------------------------------------------------------
(* The destructors ~rented_preferred, ~rented_spare and ~overdrawn.        *)

\* Mutant of AfterOnRelease: ~rented_spare does not call before_delete.
HeldPastRelease(p) == held \ ({p} \cap Preferred)
\* before_delete: onRelease runs outside the mutex.
AfterOnRelease(p) == held \ {p}

OnRelease(t) ==
  /\ pc[t] = "on_release"
  /\ held' = AfterOnRelease(pack[t])
  /\ Goto(t, IF pack[t] \in Packs THEN "give_back" ELSE "return")
  /\ UNCHANGED <<currentMaxIndex, recycledIndices, initialized, resource, inFreeList,
                 whoOwnsMe, freeResources, sema, handleVars, dqType, lh, wh, pref, pack>>

\* Mutants of NeedsEntry: a preferred pack is enqueued although it is listed, or never.
AlwaysEnqueue(p) == TRUE
EnqueueSparesOnly(p) == p \in Spares
\* A preferred pack that is in the free list gets no second entry.
NeedsEntry(p) == p \notin inFreeList

\* The T goes home.
GiveBack(t) ==
  LET p == pack[t]
  IN /\ pc[t] = "give_back" /\ ~MutexHeld(p)
     /\ whoOwnsMe' = whoOwnsMe \ {p}
     /\ resource' = resource \cup {p}
     /\ inFreeList' = inFreeList \cup ({p} \cap Preferred)
     /\ Goto(t, IF NeedsEntry(p) THEN "enqueue" ELSE "return")
     /\ UNCHANGED <<currentMaxIndex, recycledIndices, initialized, freeResources, sema,
                    held, handleVars, dqType, lh, wh, pref, pack>>

\* free_resources.enqueue: the entry first, then the permit for it.
Enqueue(t) ==
  /\ pc[t] = "enqueue"
  /\ freeResources' = [freeResources EXCEPT ![pack[t]] = @ + 1]
  /\ Goto(t, "signal")
  /\ UNCHANGED <<currentMaxIndex, recycledIndices, initialized, resource, inFreeList,
                 whoOwnsMe, sema, held, handleVars, dqType, lh, wh, pref, pack>>

\* Mutant of Signal: the permit is forgotten.
NoSignal(t) ==
  /\ pc[t] = "signal"
  /\ Goto(t, "return")
  /\ UNCHANGED <<poolVars, handleVars, dqType, lh, wh, pref, pack>>

Signal(t) ==
  /\ pc[t] = "signal"
  /\ sema' = sema + 1
  /\ Goto(t, "return")
  /\ UNCHANGED <<currentMaxIndex, recycledIndices, initialized, resource, inFreeList,
                 whoOwnsMe, freeResources, held, handleVars, dqType, lh, wh, pref, pack>>

-----------------------------------------------------------------------------
(* Every call ends by releasing the index_owner it still holds.            *)

\* Mutant of LastIndexOwner: every destroyed owner recycles the index.
AnyIndexOwner(t) == pref[t] # None
\* The call drops the last shared_ptr to its index_owner.
LastIndexOwner(t) == pref[t] # None /\ ~IndexOwned(pref[t], Threads \ {t})

Return(t) ==
  /\ pc[t] = "return"
  /\ IF LastIndexOwner(t)
     THEN UNCHANGED pref /\ Goto(t, "recycle")
     ELSE pref' = [pref EXCEPT ![t] = None] /\ Goto(t, "idle")
  /\ lh' = [lh EXCEPT ![t] = None]
  /\ wh' = [wh EXCEPT ![t] = None]
  /\ pack' = [pack EXCEPT ![t] = None]
  /\ dqType' = [dqType EXCEPT ![t] = "try_dequeue"]
  /\ UNCHANGED <<poolVars, handleVars>>

\* ~index_owner, run by the index_owner's last owner.
Recycle(t) ==
  /\ pc[t] = "recycle"
  /\ recycledIndices' = recycledIndices \cup {pref[t]}
  /\ pref' = [pref EXCEPT ![t] = None]
  /\ Goto(t, "idle")
  /\ UNCHANGED <<currentMaxIndex, initialized, resource, inFreeList, whoOwnsMe,
                 freeResources, sema, held, handleVars, dqType, lh, wh, pack>>

-----------------------------------------------------------------------------
\* A client makes a call that is not the drop of a handle.
NewCall(t) ==
  \/ \E h \in Lockeds : Acquire(t, h)
  \/ \E w \in Weaks : DropWeak(t, w)
  \/ \E h \in Lockeds, w \in Weaks :
       LockLive(t, w, h) \/ LockExpired(t, w, h) \/ AssignWeak(t, w, h)
  \/ \E h, g \in Lockeds : Clone(t, h, g)

Call(t) == NewCall(t) \/ \E h \in Lockeds : DropLocked(t, h)

FindIndex(t) ==
  \/ CheckMaxIndex(t) \/ CheckRecycled(t) \/ ChooseIndex(t) \/ PopIndex(t) \/ FetchIndex(t)

Borrow(t) ==
  \/ BorrowPreferred(t) \/ PreferredIsOut(t)
  \/ Dequeue(t) \/ DequeueFails(t) \/ Take(t) \/ RemoveFromFreeList(t)
  \/ BorrowCandidate(t) \/ CandidateIsOut(t) \/ Overdraw(t)

Destroy(t) ==
  \/ OnRelease(t) \/ GiveBack(t) \/ Enqueue(t) \/ Signal(t) \/ Return(t) \/ Recycle(t)

\* A thread inside a call.
Step(t) == FindIndex(t) \/ Borrow(t) \/ BuilderThrows(t) \/ Destroy(t)

Next == \E t \in Threads : Call(t) \/ Step(t)

Spec == Init /\ [][Next]_vars

\* The scheduler runs every thread that can take a step inside its call, and the
\* clients drop every handle they keep; no client has to make any other call.
Fairness ==
  /\ \A t \in Threads : WF_vars(Step(t))
  /\ \A h \in Lockeds : WF_vars(\E t \in Threads : DropLocked(t, h))

FairSpec == Spec /\ Fairness

-----------------------------------------------------------------------------
(* Properties.                                                             *)

Holder(h, p) == locked[h].rsource = p

\* t is in the destructor of the rental pack[t], whose T is not yet back.
Destroying(t) == pc[t] \in {"on_release", "give_back"}

\* The unique_ptr of a built T is in exactly one place: its pack, or one rental,
\* which is either shared by handles or in the hands of the one thread that
\* destroys it (the moves of borrow and ~rented_preferred, ~rented_spare).
ExclusiveRental ==
  /\ \A p \in Packs : Rented(p) <=> IsOut(p)
  /\ \A t \in Threads : Destroying(t) =>
       /\ \A h \in Lockeds : ~Holder(h, pack[t])
       /\ \A u \in Threads \ {t} : ~(Destroying(u) /\ pack[u] = pack[t])

\* onAcquire and onRelease of a T alternate: it is held exactly from the borrow
\* until before_delete (the assertions of Incrementor in test_resource_pool.cpp).
CallbacksAlternate ==
  \A p \in Packs :
    p \in held <=> \/ \E h \in Lockeds : Holder(h, p)
                   \/ \E t \in Threads : pc[t] = "on_release" /\ pack[t] = p

\* t took the entry of p out of the queue and has not yet cleared its in_free_list.
Popped(t, p) == pc[t] = "unlist" /\ pack[t] = p
\* t is about to queue p.
Queueing(t, p) == pc[t] = "enqueue" /\ pack[t] = p

\* in_free_list is set exactly while the pack has one entry, in the queue or in the
\* hands of one thread, although remove_from_free_list clears it without the mutex.
ListedOnce ==
  \A p \in Packs :
    /\ freeResources[p] <= 1
    /\ \A t \in Threads : Popped(t, p) \/ Queueing(t, p) =>
         /\ freeResources[p] = 0
         /\ \A u \in Threads \ {t} : ~Popped(u, p) /\ ~Queueing(u, p)
    /\ p \in Preferred =>
         ( p \in inFreeList <=> \/ freeResources[p] = 1
                                \/ \E t \in Threads : Popped(t, p) \/ Queueing(t, p) )

\* A T that is at home can be found: its pack is queued, about to be, or with a
\* thread that dequeued it and will try to borrow it.  Otherwise a wait_dequeue
\* could sleep beside a free resource.
NoResourceStranded ==
  \A p \in resource :
    \/ freeResources[p] > 0
    \/ \E t \in Threads : Queueing(t, p) \/ (pc[t] \in {"unlist", "borrow"} /\ pack[t] = p)

\* The assertions of borrow: a preferred pack without its T has a registered rental
\* (impl_resource_pack.hpp:49), a dequeued spare pack has its T (impl_spare_resource.hpp:20).
BorrowAssertions ==
  \A t \in Threads :
    /\ pc[t] = "with_preference" /\ IsOut(pref[t]) => pref[t] \in whoOwnsMe
    /\ pc[t] = "borrow" /\ IsOut(pack[t]) => pack[t] \in whoOwnsMe

\* Every index ever handed out is either owned or recycled, never both, so that no
\* two WeakResources prefer the same pack unless they share one index_owner; and
\* ~index_owner runs once, when nobody has the index any more.
IndexConserved ==
  /\ \A i \in Preferred :
       /\ i < currentMaxIndex <=> i \in recycledIndices \/ IndexOwned(i, Threads)
       /\ ~(i \in recycledIndices /\ IndexOwned(i, Threads))
  /\ \A t \in Threads : pc[t] = "recycle" => ~IndexOwned(pref[t], Threads \ {t})

\* The entries of the queue, those of one pack numbered, and the threads at a step.
Entries == UNION {{p} \X (1 .. freeResources[p]) : p \in Packs}
At(label) == {t \in Threads : pc[t] = label}

\* Every permit of the semaphore stands for an entry of the queue: the loop of
\* try_dequeue and wait_dequeue after the semaphore always finds its entry.
PermitsBacked ==
  Cardinality(Entries) = sema + Cardinality(At("take")) + Cardinality(At("signal"))

Contract == INSTANCE RentalContract WITH
  Handles <- Lockeds, Rentable <- Rentals,
  holds <- [h \in Lockeds |-> locked[h].rsource],
  returning <- {r \in Rentals : \E t \in Threads : Destroying(t) /\ pack[t] = r}

\* The pool implements the contract: no T is ever with two clients that do not
\* share it, and WeakResource::lock revives no rental whose last handle is gone.
ContractKept == Contract!Spec

\* Once clients start nothing new and only drop what they have, every call returns:
\* no waiter of wait_dequeue is forgotten.
CallsReturn ==
  <>[][\A t \in Threads : ~NewCall(t)]_vars => <>[](\A t \in Threads : pc[t] = "idle")
=============================================================================
