------------------------- MODULE ResourcePoolTheorems -------------------------
(***************************************************************************)
(* What holds of ResourcePool for every number of threads, handles, packs  *)
(* and indices.  Its inductive invariant IInv has one conjunct per section *)
(* below, each followed by the lemma that every step keeps it: types and   *)
(* the locals of the calls, what the handles hold, who owns the indices,   *)
(* where the T of a pack is, where its entry in the free list is, and      *)
(* that no T is stranded.  The safety properties, the balance of permits   *)
(* and entries, and the implementation of RentalContract follow.           *)
(***************************************************************************)
EXTENDS ResourcePool, FiniteSetTheorems, TLAPS

-----------------------------------------------------------------------------
(* Types and calls.                                                        *)

\* A call that has not yet an index of its own, and one that has not yet a rental.
Searching == {"preferred_full", "check_recycled", "choose_index", "build_or_pop", "fetch_add"}
Acquiring == Searching \cup {"with_preference", "dequeue", "take", "unlist", "borrow", "overdraw"}

\* What a thread's step says of the locals of its call.
CallOK ==
  \A t \in Threads :
    /\ pc[t] = "idle" => lh[t] = None /\ wh[t] = None /\ pref[t] = None
    /\ pc[t] \in Acquiring => lh[t] \in Lockeds
    /\ lh[t] # None \/ wh[t] # None => pc[t] \in Acquiring \cup {"return"}
    /\ pc[t] \in Searching => pref[t] = None
    /\ pc[t] \in {"with_preference", "recycle"} => pref[t] \in Preferred
    /\ pc[t] \in {"unlist", "borrow", "give_back", "enqueue", "signal"} => pack[t] \in Packs
    /\ pc[t] = "on_release" => pack[t] \in Rentals

Typed == TypeOK /\ CallOK

\* Consequences of NamesAssumption.
LEMMA Names ==
  /\ None \notin Lockeds /\ None \notin Weaks /\ None \notin Rentals /\ None \notin Packs
  /\ None \notin Preferred /\ Preferred \cap Spares = {} /\ Packs \cap Overdrawns = {}
  BY NamesAssumption, SizeAssumption DEF Rentals, Packs, Preferred

\* The constructor's state is well typed and every thread is idle.
LEMMA TypedInit == Init => Typed
PROOF
  <1> SUFFICES ASSUME Init PROVE Typed OBVIOUS
  <1>1. Cardinality(Spares) \in Nat BY NamesAssumption, FS_CardinalityType
  <1> QED BY <1>1, SizeAssumption
          DEF Init, TypeOK, Packs, Preferred, PC, Handle, Nothing, Typed, CallOK, Searching,
              Acquiring

\* Every step of the pool keeps the types and the locals of the calls.
LEMMA TypedStep == Typed /\ [Next]_vars => Typed'
PROOF
  <1> SUFFICES ASSUME Typed, [Next]_vars PROVE Typed' OBVIOUS
  <1>1. ASSUME NEW t \in Threads, NEW h \in Lockeds, Acquire(t, h) PROVE Typed'
    BY <1>1, Names, SizeAssumption
    DEF Typed, TypeOK, CallOK, Acquiring, Searching, Goto, PC, Empty, poolVars, handleVars,
        Acquire
  <1>2. ASSUME NEW t \in Threads, NEW w \in Weaks, NEW h \in Lockeds, LockLive(t, w, h) PROVE Typed'
    BY <1>2, Names, SizeAssumption
    DEF Typed, TypeOK, CallOK, Acquiring, Searching, Packs, Rentals, Preferred, Handle, Nothing,
        Empty, poolVars, LockLive
  <1>3. ASSUME NEW t \in Threads, NEW w \in Weaks, NEW h \in Lockeds, LockExpired(t, w, h)
        PROVE Typed'
    BY <1>3, Names, SizeAssumption
    DEF Typed, TypeOK, CallOK, Acquiring, Searching, Goto, PC, Packs, Rentals, Preferred, Handle,
        Nothing, Empty, poolVars, handleVars, LockExpired
  <1>4. ASSUME NEW t \in Threads, NEW h \in Lockeds, NEW g \in Lockeds, Clone(t, h, g) PROVE Typed'
    BY <1>4, Names, SizeAssumption
    DEF Typed, TypeOK, CallOK, Acquiring, Searching, Packs, Rentals, Preferred, Handle, Nothing,
        Empty, Full, poolVars, Clone
  <1>5. ASSUME NEW t \in Threads, NEW w \in Weaks, NEW h \in Lockeds, AssignWeak(t, w, h)
        PROVE Typed'
    BY <1>5, Names, SizeAssumption
    DEF Typed, TypeOK, CallOK, Acquiring, Searching, Goto, PC, Packs, Rentals, Preferred, Handle,
        Nothing, Full, poolVars, AssignWeak
  <1>6. ASSUME NEW t \in Threads, NEW w \in Weaks, DropWeak(t, w) PROVE Typed'
    BY <1>6, Names, SizeAssumption
    DEF Typed, TypeOK, CallOK, Acquiring, Searching, Goto, PC, Packs, Rentals, Preferred, Handle,
        Nothing, poolVars, DropWeak
  <1>7. ASSUME NEW t \in Threads, NEW h \in Lockeds, DropLocked(t, h) PROVE Typed'
    <2>1. TypeOK'
      <3>1. Nothing \in Handle BY DEF Nothing, Handle
      <3>2. /\ locked' \in [Lockeds -> Handle]
            /\ locked[h].rsource \in Rentals /\ locked[h].pref \in Preferred \cup {None}
        BY <1>7, <3>1 DEF Typed, TypeOK, DropLocked, Full, Handle
      <3>3. weak' \in [Weaks -> Handle]
        BY <1>7 DEF Typed, TypeOK, DropLocked, Handle
      <3>4. pc' \in [Threads -> PC] /\ pack' \in [Threads -> Rentals \cup {None}]
        BY <1>7, <3>2 DEF Typed, TypeOK, DropLocked, Goto, PC
      <3> QED BY <1>7, <3>2, <3>3, <3>4 DEF Typed, TypeOK, DropLocked, poolVars
    <2>2. CallOK'
      BY <1>7, Names
      DEF Typed, TypeOK, CallOK, Acquiring, Searching, Goto, Handle, Nothing, Full, poolVars,
          DropLocked
    <2> QED BY <2>1, <2>2 DEF Typed
  <1>8. ASSUME NEW t \in Threads, CheckMaxIndex(t) PROVE Typed'
    BY <1>8, Names, SizeAssumption
    DEF Typed, TypeOK, CallOK, Acquiring, Searching, Goto, PC, poolVars, handleVars, CheckMaxIndex
  <1>9. ASSUME NEW t \in Threads, CheckRecycled(t) PROVE Typed'
    BY <1>9, Names, SizeAssumption
    DEF Typed, TypeOK, CallOK, Acquiring, Searching, Goto, PC, poolVars, handleVars, CheckRecycled
  <1>10. ASSUME NEW t \in Threads, ChooseIndex(t) PROVE Typed'
    BY <1>10, Names, SizeAssumption
    DEF Typed, TypeOK, CallOK, Acquiring, Searching, Goto, PC, poolVars, handleVars, ChooseIndex
  <1>11. ASSUME NEW t \in Threads, PopIndex(t) PROVE Typed'
    BY <1>11, Names, SizeAssumption
    DEF Typed, TypeOK, CallOK, Acquiring, Searching, Goto, PC, Preferred, handleVars, PopIndex
  <1>12. ASSUME NEW t \in Threads, FetchIndex(t) PROVE Typed'
    BY <1>12, Names, SizeAssumption
    DEF Typed, TypeOK, CallOK, Acquiring, Searching, Goto, PC, Preferred, handleVars, FetchIndex,
        Wins
  <1>13. ASSUME NEW t \in Threads, BorrowPreferred(t) PROVE Typed'
    <2>1. TypeOK'
      <3>1. pref[t] \in Preferred /\ lh[t] \in Lockeds
        BY <1>13 DEF Typed, TypeOK, CallOK, Acquiring, BorrowPreferred
      <3>2. [pref |-> pref[t], rsource |-> pref[t]] \in Handle
        BY <3>1 DEF Handle, Rentals, Packs
      <3>3. locked' \in [Lockeds -> Handle]
        BY <1>13, <3>1, <3>2 DEF Typed, TypeOK, BorrowPreferred, Deliver
      <3>4. weak' \in [Weaks -> Handle]
        BY <1>13, <3>1, <3>2 DEF Typed, TypeOK, Handle, BorrowPreferred, Deliver
      <3>5. pc' \in [Threads -> PC]
        BY <1>13 DEF Typed, TypeOK, BorrowPreferred, Deliver, Goto, PC
      <3>6. /\ initialized' \subseteq Packs /\ resource' \subseteq Packs
            /\ whoOwnsMe' \subseteq Preferred /\ held' \subseteq Packs
        BY <1>13, <3>1 DEF Typed, TypeOK, Packs, BorrowPreferred, TakeOut
      <3> QED BY <1>13, <3>3, <3>4, <3>5, <3>6 DEF Typed, TypeOK, BorrowPreferred
    <2>2. CallOK'
      BY <1>13, Names
      DEF Typed, TypeOK, CallOK, Acquiring, Searching, Goto, Handle, Nothing, BorrowPreferred,
          TakeOut, Deliver
    <2> QED BY <2>1, <2>2 DEF Typed
  <1>14. ASSUME NEW t \in Threads, PreferredIsOut(t) PROVE Typed'
    BY <1>14, Names, SizeAssumption
    DEF Typed, TypeOK, CallOK, Acquiring, Searching, Goto, PC, poolVars, handleVars,
        PreferredIsOut
  <1>15. ASSUME NEW t \in Threads, Dequeue(t) PROVE Typed'
    BY <1>15, Names, SizeAssumption
    DEF Typed, TypeOK, CallOK, Acquiring, Searching, Goto, PC, handleVars, Dequeue
  <1>16. ASSUME NEW t \in Threads, DequeueFails(t) PROVE Typed'
    <2>1. TypeOK'
      BY <1>16, Names, SizeAssumption
      DEF Typed, TypeOK, CallOK, Goto, PC, poolVars, handleVars, DequeueFails
    <2>2. CallOK'
      BY <1>16, Names
      DEF Typed, TypeOK, CallOK, Acquiring, Searching, Goto, poolVars, handleVars, DequeueFails
    <2> QED BY <2>1, <2>2 DEF Typed
  <1>17. ASSUME NEW t \in Threads, Take(t) PROVE Typed'
    BY <1>17, Names, SizeAssumption
    DEF Typed, TypeOK, CallOK, Acquiring, Searching, Goto, PC, Packs, Rentals, Preferred,
        handleVars, Take
  <1>18. ASSUME NEW t \in Threads, RemoveFromFreeList(t) PROVE Typed'
    <2>1. TypeOK'
      BY <1>18 DEF Typed, TypeOK, Goto, PC, handleVars, RemoveFromFreeList
    <2>2. CallOK'
      BY <1>18, Names
      DEF Typed, TypeOK, CallOK, Acquiring, Searching, Goto, handleVars, RemoveFromFreeList
    <2> QED BY <2>1, <2>2 DEF Typed
  <1>19. ASSUME NEW t \in Threads, BorrowCandidate(t) PROVE Typed'
    <2>1. TypeOK'
      <3>1. pack[t] \in Packs /\ lh[t] \in Lockeds
        BY <1>19 DEF Typed, CallOK, Acquiring, BorrowCandidate
      <3>2. /\ initialized' \subseteq Packs /\ resource' \subseteq Packs
            /\ whoOwnsMe' \subseteq Preferred /\ held' \subseteq Packs
        BY <1>19, <3>1 DEF Typed, TypeOK, BorrowCandidate, TakeOut
      <3>3. pack[t] \in Rentals BY <3>1 DEF Rentals
      <3>4. locked' \in [Lockeds -> Handle] /\ weak' \in [Weaks -> Handle]
        BY <1>19, <3>3 DEF Typed, TypeOK, BorrowCandidate, Deliver, Handle
      <3> QED BY <1>19, <3>2, <3>4 DEF Typed, TypeOK, BorrowCandidate, Deliver, Goto, PC
    <2>2. CallOK'
      BY <1>19, Names
      DEF Typed, TypeOK, CallOK, Acquiring, Searching, Goto, Handle, Nothing, BorrowCandidate,
          TakeOut, Deliver
    <2> QED BY <2>1, <2>2 DEF Typed
  <1>20. ASSUME NEW t \in Threads, CandidateIsOut(t) PROVE Typed'
    BY <1>20, Names, SizeAssumption
    DEF Typed, TypeOK, CallOK, Acquiring, Searching, Goto, PC, Packs, Rentals, Preferred,
        poolVars, handleVars, CandidateIsOut
  <1>21. ASSUME NEW t \in Threads, Overdraw(t) PROVE Typed'
    BY <1>21, Names, SizeAssumption
    DEF Typed, TypeOK, CallOK, Acquiring, Searching, Goto, PC, Packs, Rentals, Preferred, Handle,
        Nothing, poolVars, Overdraw, Deliver
  <1>22. ASSUME NEW t \in Threads, BuilderThrows(t) PROVE Typed'
    BY <1>22, Names, SizeAssumption
    DEF Typed, TypeOK, CallOK, Acquiring, Searching, Goto, PC, poolVars, handleVars, BuilderThrows
  <1>23. ASSUME NEW t \in Threads, OnRelease(t) PROVE Typed'
    <2>1. TypeOK'
      BY <1>23, Names, SizeAssumption
      DEF Typed, TypeOK, CallOK, Goto, PC, Packs, Rentals, handleVars, OnRelease, AfterOnRelease
    <2>2. CallOK'
      BY <1>23, Names
      DEF Typed, TypeOK, CallOK, Acquiring, Searching, Goto, handleVars, OnRelease, AfterOnRelease
    <2> QED BY <2>1, <2>2 DEF Typed
  <1>24. ASSUME NEW t \in Threads, GiveBack(t) PROVE Typed'
    <2>1. TypeOK'
      <3>1. pack[t] \in Packs
        BY <1>24 DEF Typed, CallOK, GiveBack
      <3>2. /\ resource' \subseteq Packs /\ inFreeList' \subseteq Preferred
            /\ whoOwnsMe' \subseteq Preferred
        BY <1>24, <3>1 DEF Typed, TypeOK, GiveBack
      <3>3. pc' \in [Threads -> PC]
        BY <1>24 DEF Typed, TypeOK, GiveBack, Goto, PC
      <3> QED BY <1>24, <3>2, <3>3 DEF Typed, TypeOK, GiveBack, handleVars
    <2>2. CallOK'
      BY <1>24, Names DEF Typed, TypeOK, CallOK, Acquiring, Searching, Goto, handleVars, GiveBack
    <2> QED BY <2>1, <2>2 DEF Typed
  <1>25. ASSUME NEW t \in Threads, Enqueue(t) PROVE Typed'
    BY <1>25, Names, SizeAssumption
    DEF Typed, TypeOK, CallOK, Acquiring, Searching, Goto, PC, Packs, Rentals, handleVars, Enqueue
  <1>26. ASSUME NEW t \in Threads, Signal(t) PROVE Typed'
    BY <1>26, Names, SizeAssumption
    DEF Typed, TypeOK, CallOK, Acquiring, Searching, Goto, PC, handleVars, Signal
  <1>27. ASSUME NEW t \in Threads, Return(t) PROVE Typed'
    <2>1. TypeOK'
      BY <1>27, Names, SizeAssumption
      DEF Typed, TypeOK, CallOK, Goto, PC, Packs, Rentals, Preferred, poolVars, handleVars, Return
    <2>2. CallOK'
      <3>1. /\ pc'[t] = "idle" \/ (pc'[t] = "recycle" /\ pref[t] # None /\ pref'[t] = pref[t])
            /\ lh'[t] = None /\ wh'[t] = None
            /\ pc'[t] = "idle" => pref'[t] = None
            /\ \A u \in Threads : u # t =>
                 /\ pc'[u] = pc[u] /\ lh'[u] = lh[u] /\ wh'[u] = wh[u]
                 /\ pref'[u] = pref[u] /\ pack'[u] = pack[u]
        BY <1>27 DEF Typed, TypeOK, Return, LastIndexOwner, Goto
      <3>2. pref[t] \in Preferred \cup {None} BY DEF Typed, TypeOK
      <3> QED BY <3>1, <3>2 DEF Typed, CallOK, Acquiring, Searching
    <2> QED BY <2>1, <2>2 DEF Typed
  <1>28. ASSUME NEW t \in Threads, Recycle(t) PROVE Typed'
    <2>1. TypeOK'
      BY <1>28, Names, SizeAssumption
      DEF Typed, TypeOK, CallOK, Goto, PC, Preferred, handleVars, Recycle
    <2>2. CallOK'
      BY <1>28, Names DEF Typed, TypeOK, CallOK, Acquiring, Searching, Goto, handleVars, Recycle
    <2> QED BY <2>1, <2>2 DEF Typed
  <1>29. CASE UNCHANGED vars
    BY <1>29 DEF Typed, TypeOK, CallOK, vars, poolVars, handleVars
  <1> QED
    BY <1>1, <1>2, <1>3, <1>4, <1>5, <1>6, <1>7, <1>8, <1>9, <1>10, <1>11, <1>12, <1>13, <1>14,
       <1>15, <1>16, <1>17, <1>18, <1>19, <1>20, <1>21, <1>22, <1>23, <1>24, <1>25, <1>26, <1>27,
       <1>28, <1>29
    DEF Next, Call, NewCall, Step, FindIndex, Borrow, Destroy

-----------------------------------------------------------------------------
(* Handles.                                                                *)

\* Calls use different handles, a call that acquires fills an empty one, and a
\* WeakResource that has not expired shares its rental with a LockedResource.
HandlesOK ==
  /\ \A t, u \in Threads : lh[t] = lh[u] /\ lh[u] # None => t = u
  /\ \A t, u \in Threads : wh[t] = wh[u] /\ wh[u] # None => t = u
  /\ \A t \in Threads : pc[t] \in Acquiring =>
       /\ locked[lh[t]] = Nothing
       /\ wh[t] # None => weak[wh[t]].rsource = None
  /\ \A h \in Lockeds : locked[h].rsource = None => locked[h] = Nothing
  /\ \A w \in Weaks : weak[w].rsource # None =>
    \E h \in Lockeds : locked[h].rsource = weak[w].rsource

\* What Deliver does to the handles, one by one.
Delivered(t, i, r) ==
  /\ lh[t] \in Lockeds
  /\ locked[lh[t]] = Nothing
  /\ locked'[lh[t]] = [pref |-> i, rsource |-> r]
  /\ \A h \in Lockeds : h # lh[t] => locked'[h] = locked[h]
  /\ \A w \in Weaks : w # wh[t] => weak'[w] = weak[w]
  /\ \A w \in Weaks : w = wh[t] =>
       /\ weak'[w].rsource = r
       /\ weak'[w].pref = IF weak[w].pref = None THEN i ELSE weak[w].pref
  /\ pc'[t] = "return"
  /\ \A u \in Threads : u # t => pc'[u] = pc[u]

\* Deliver fills the caller's empty handle, and the WeakResource it was called on
\* with a rental that this handle holds.
LEMMA DeliverEffect ==
  ASSUME Typed, HandlesOK, NEW t \in Threads, pc[t] \in Acquiring,
         NEW i \in Preferred \cup {None}, NEW r \in Rentals, Deliver(t, i, r)
  PROVE  Delivered(t, i, r)
PROOF
  <1>1. lh[t] \in Lockeds /\ locked[lh[t]] = Nothing
    BY DEF Typed, CallOK, HandlesOK
  <1>2. /\ locked'[lh[t]] = [pref |-> i, rsource |-> r]
        /\ \A h \in Lockeds : h # lh[t] => locked'[h] = locked[h]
    BY <1>1 DEF Typed, TypeOK, Deliver
  <1>3. wh[t] \in Weaks \cup {None}
    BY DEF Typed, TypeOK
  <1>4. /\ pc'[t] = "return"
        /\ \A u \in Threads : u # t => pc'[u] = pc[u]
    BY DEF Typed, TypeOK, Deliver, Goto
  <1>5. CASE wh[t] = None
    BY <1>1, <1>2, <1>4, <1>5, Names DEF Deliver, Delivered
  <1>6. CASE wh[t] \in Weaks
    BY <1>1, <1>2, <1>4, <1>6, Names DEF Typed, TypeOK, Deliver, Handle, Delivered
  <1> QED BY <1>3, <1>5, <1>6

\* Handing a rental to the caller keeps the handles consistent.
LEMMA DeliverHandles ==
  ASSUME Typed, HandlesOK, NEW t \in Threads, pc[t] \in Acquiring,
         NEW i \in Preferred \cup {None}, NEW r \in Rentals, Deliver(t, i, r),
         UNCHANGED <<lh, wh>>
  PROVE  HandlesOK'
PROOF
  <1>1. Delivered(t, i, r) BY DeliverEffect
  <1>2. r # None BY Names
  <1>3. ASSUME NEW u \in Threads, u # t, pc[u] \in Acquiring
        PROVE  /\ lh[u] # lh[t] /\ lh[u] \in Lockeds
               /\ wh[u] # None => wh[u] # wh[t] /\ wh[u] \in Weaks
    <2>1. lh[u] \in Lockeds /\ lh[u] # None BY <1>3, Names DEF Typed, CallOK
    <2>2. wh[u] # None => wh[u] \in Weaks BY DEF Typed, TypeOK
    <2> QED BY <1>3, <2>1, <2>2 DEF HandlesOK
  <1>4. (\A u \in Threads : pc[u] \in Acquiring =>
           /\ locked[lh[u]] = Nothing
           /\ wh[u] # None => weak[wh[u]].rsource = None)'
    BY <1>1, <1>3 DEF Delivered, HandlesOK, Acquiring, Searching
  <1>5. (\A h \in Lockeds : locked[h].rsource = None => locked[h] = Nothing)'
    BY <1>1, <1>2 DEF Delivered, HandlesOK
  <1>6. (\A w \in Weaks : weak[w].rsource # None =>
           \E h \in Lockeds : locked[h].rsource = weak[w].rsource)'
    <2> SUFFICES ASSUME NEW w \in Weaks, weak'[w].rsource # None
                 PROVE  \E h \in Lockeds : locked'[h].rsource = weak'[w].rsource
      OBVIOUS
    <2>1. CASE w = wh[t]
      BY <1>1, <2>1 DEF Delivered
    <2>2. CASE w # wh[t]
      <3>1. PICK h \in Lockeds : locked[h].rsource = weak[w].rsource
        BY <1>1, <2>2 DEF Delivered, HandlesOK
      <3>2. h # lh[t] BY <1>1, <2>2, <3>1 DEF Delivered, Nothing
      <3> QED BY <1>1, <2>2, <3>1, <3>2 DEF Delivered
    <2> QED BY <2>1, <2>2
  <1> QED BY <1>4, <1>5, <1>6 DEF HandlesOK

\* Every step keeps the handles consistent.
LEMMA HandlesStep == Typed /\ HandlesOK /\ [Next]_vars => HandlesOK'
  <1> SUFFICES ASSUME Typed, HandlesOK, [Next]_vars PROVE HandlesOK'
    OBVIOUS
  <1>1. ASSUME NEW t \in Threads, NEW h \in Lockeds, Acquire(t, h) PROVE HandlesOK'
    BY <1>1, Names
    DEF Typed, TypeOK, CallOK, HandlesOK, Acquiring, Searching, Goto, Empty, BusyLocked, poolVars,
        handleVars, Acquire
  <1>2. ASSUME NEW t \in Threads, NEW w \in Weaks, NEW h \in Lockeds, LockLive(t, w, h)
        PROVE HandlesOK'
    BY <1>2, Names
    DEF Typed, TypeOK, CallOK, HandlesOK, Acquiring, Searching, Packs, Rentals, Preferred, Handle,
        Nothing, Empty, BusyLocked, BusyWeak, poolVars, LockLive
  <1>3. ASSUME NEW t \in Threads, NEW w \in Weaks, NEW h \in Lockeds, LockExpired(t, w, h)
        PROVE HandlesOK'
    BY <1>3, Names
    DEF Typed, TypeOK, CallOK, HandlesOK, Acquiring, Searching, Goto, Preferred, Empty,
        BusyLocked, BusyWeak, poolVars, handleVars, LockExpired
  <1>4. ASSUME NEW t \in Threads, NEW h \in Lockeds, NEW g \in Lockeds, Clone(t, h, g)
        PROVE HandlesOK'
    BY <1>4, Names
    DEF Typed, TypeOK, CallOK, HandlesOK, Acquiring, Searching, Packs, Rentals, Preferred, Handle,
        Nothing, Empty, Full, BusyLocked, poolVars, Clone
  <1>5. ASSUME NEW t \in Threads, NEW w \in Weaks, NEW h \in Lockeds, AssignWeak(t, w, h)
        PROVE HandlesOK'
    BY <1>5, Names
    DEF Typed, TypeOK, CallOK, HandlesOK, Acquiring, Searching, Goto, Packs, Rentals, Preferred,
        Handle, Nothing, Full, BusyLocked, BusyWeak, poolVars, AssignWeak
  <1>6. ASSUME NEW t \in Threads, NEW w \in Weaks, DropWeak(t, w) PROVE HandlesOK'
    BY <1>6, Names
    DEF Typed, TypeOK, CallOK, HandlesOK, Acquiring, Searching, Goto, Packs, Rentals, Preferred,
        Handle, Nothing, BusyWeak, poolVars, DropWeak
  <1>7. ASSUME NEW t \in Threads, NEW h \in Lockeds, DropLocked(t, h) PROVE HandlesOK'
    BY <1>7, Names
    DEF Typed, TypeOK, CallOK, HandlesOK, Acquiring, Searching, Goto, Packs, Rentals, Preferred,
        Handle, Nothing, Full, BusyLocked, poolVars, DropLocked
  <1>8. ASSUME NEW t \in Threads, CheckMaxIndex(t) PROVE HandlesOK'
    BY <1>8, Names
    DEF Typed, TypeOK, CallOK, HandlesOK, Acquiring, Searching, Goto, poolVars, handleVars,
        CheckMaxIndex
  <1>9. ASSUME NEW t \in Threads, CheckRecycled(t) PROVE HandlesOK'
    BY <1>9, Names
    DEF Typed, TypeOK, CallOK, HandlesOK, Acquiring, Searching, Goto, poolVars, handleVars,
        CheckRecycled
  <1>10. ASSUME NEW t \in Threads, ChooseIndex(t) PROVE HandlesOK'
    BY <1>10, Names
    DEF Typed, TypeOK, CallOK, HandlesOK, Acquiring, Searching, Goto, poolVars, handleVars,
        ChooseIndex
  <1>11. ASSUME NEW t \in Threads, PopIndex(t) PROVE HandlesOK'
    BY <1>11, Names
    DEF Typed, TypeOK, CallOK, HandlesOK, Acquiring, Searching, Goto, Preferred, handleVars,
        PopIndex
  <1>12. ASSUME NEW t \in Threads, FetchIndex(t) PROVE HandlesOK'
    BY <1>12, Names
    DEF Typed, TypeOK, CallOK, HandlesOK, Acquiring, Searching, Goto, Preferred, handleVars,
        FetchIndex
  <1>13. ASSUME NEW t \in Threads, BorrowPreferred(t) PROVE HandlesOK'
    <2>1. pc[t] \in Acquiring /\ pref[t] \in Packs /\ pref[t] \in Preferred \cup {None}
      BY <1>13 DEF BorrowPreferred, Acquiring, Typed, TypeOK, CallOK, Packs
    <2> QED BY <1>13, <2>1, DeliverHandles DEF BorrowPreferred, Rentals
  <1>14. ASSUME NEW t \in Threads, PreferredIsOut(t) PROVE HandlesOK'
    BY <1>14, Names
    DEF Typed, TypeOK, CallOK, HandlesOK, Acquiring, Searching, Goto, poolVars, handleVars,
        PreferredIsOut
  <1>15. ASSUME NEW t \in Threads, Dequeue(t) PROVE HandlesOK'
    BY <1>15, Names
    DEF Typed, TypeOK, CallOK, HandlesOK, Acquiring, Searching, Goto, handleVars, Dequeue
  <1>16. ASSUME NEW t \in Threads, DequeueFails(t) PROVE HandlesOK'
    BY <1>16, Names
    DEF Typed, TypeOK, CallOK, HandlesOK, Acquiring, Searching, Goto, poolVars, handleVars,
        DequeueFails
  <1>17. ASSUME NEW t \in Threads, Take(t) PROVE HandlesOK'
    BY <1>17, Names
    DEF Typed, TypeOK, CallOK, HandlesOK, Acquiring, Searching, Goto, Packs, Rentals, Preferred,
        handleVars, Take
  <1>18. ASSUME NEW t \in Threads, RemoveFromFreeList(t) PROVE HandlesOK'
    BY <1>18, Names
    DEF Typed, TypeOK, CallOK, HandlesOK, Acquiring, Searching, Goto, Preferred, handleVars,
        RemoveFromFreeList
  <1>19. ASSUME NEW t \in Threads, BorrowCandidate(t) PROVE HandlesOK'
    <2>1. pc[t] \in Acquiring /\ pack[t] \in Packs /\ None \in Preferred \cup {None}
      BY <1>19 DEF BorrowCandidate, Acquiring, Typed, TypeOK, CallOK, Packs
    <2> QED BY <1>19, <2>1, DeliverHandles DEF BorrowCandidate, Rentals
  <1>20. ASSUME NEW t \in Threads, CandidateIsOut(t) PROVE HandlesOK'
    BY <1>20, Names
    DEF Typed, TypeOK, CallOK, HandlesOK, Acquiring, Searching, Goto, Packs, Rentals, Preferred,
        poolVars, handleVars, CandidateIsOut
  <1>21. ASSUME NEW t \in Threads, Overdraw(t) PROVE HandlesOK'
    <2>1. PICK o \in Overdrawns : Deliver(t, None, o) BY <1>21 DEF Overdraw
    <2>2. pc[t] \in Acquiring BY <1>21 DEF Overdraw, Acquiring
    <2> QED BY <1>21, <2>1, <2>2, DeliverHandles DEF Overdraw, Rentals
  <1>22. ASSUME NEW t \in Threads, BuilderThrows(t) PROVE HandlesOK'
    BY <1>22, Names
    DEF Typed, TypeOK, CallOK, HandlesOK, Acquiring, Searching, Goto, poolVars, handleVars,
        BuilderThrows
  <1>23. ASSUME NEW t \in Threads, OnRelease(t) PROVE HandlesOK'
    BY <1>23, Names
    DEF Typed, TypeOK, CallOK, HandlesOK, Acquiring, Searching, Goto, Packs, Rentals, handleVars,
        OnRelease
  <1>24. ASSUME NEW t \in Threads, GiveBack(t) PROVE HandlesOK'
    BY <1>24, Names
    DEF Typed, TypeOK, CallOK, HandlesOK, Acquiring, Searching, Goto, Packs, Rentals, Preferred,
        handleVars, GiveBack
  <1>25. ASSUME NEW t \in Threads, Enqueue(t) PROVE HandlesOK'
    BY <1>25, Names
    DEF Typed, TypeOK, CallOK, HandlesOK, Acquiring, Searching, Goto, Packs, Rentals, handleVars,
        Enqueue
  <1>26. ASSUME NEW t \in Threads, Signal(t) PROVE HandlesOK'
    BY <1>26, Names
    DEF Typed, TypeOK, CallOK, HandlesOK, Acquiring, Searching, Goto, handleVars, Signal
  <1>27. ASSUME NEW t \in Threads, Return(t) PROVE HandlesOK'
    BY <1>27, Names
    DEF Typed, TypeOK, CallOK, HandlesOK, Acquiring, Searching, Goto, Packs, Rentals, Preferred,
        poolVars, handleVars, Return
  <1>28. ASSUME NEW t \in Threads, Recycle(t) PROVE HandlesOK'
    BY <1>28, Names
    DEF Typed, TypeOK, CallOK, HandlesOK, Acquiring, Searching, Goto, Preferred, handleVars,
        Recycle
  <1>29. CASE UNCHANGED vars
    BY <1>29
    DEF Typed, TypeOK, CallOK, HandlesOK, Acquiring, Searching, Goto, Packs, Rentals, Preferred,
        Handle, Nothing, Empty, Full, BusyLocked, BusyWeak, poolVars, handleVars, vars
  <1> QED
    BY <1>1, <1>2, <1>3, <1>4, <1>5, <1>6, <1>7, <1>8, <1>9, <1>10, <1>11, <1>12, <1>13, <1>14,
       <1>15, <1>16, <1>17, <1>18, <1>19, <1>20, <1>21, <1>22, <1>23, <1>24, <1>25, <1>26, <1>27,
       <1>28, <1>29
    DEF Next, Call, NewCall, Step, FindIndex, Borrow, Destroy

-----------------------------------------------------------------------------
(* Indices.                                                                *)

\* A step that moves no owner of an index keeps IndexConserved.
LEMMA IndexFrame ==
  ASSUME IndexConserved, UNCHANGED <<currentMaxIndex, recycledIndices, locked, weak, pref>>,
         \A u \in Threads : pc'[u] = "recycle" => pc[u] = "recycle"
  PROVE  IndexConserved'
  BY DEF IndexConserved, IndexOwned

\* So does one that passes ownership on, as long as no index gains or loses its last
\* owner and nobody shares the index of a running ~index_owner.
LEMMA OwnersKept ==
  ASSUME IndexConserved, UNCHANGED <<currentMaxIndex, recycledIndices>>,
         \A i \in Preferred : IndexOwned(i, Threads)' <=> IndexOwned(i, Threads),
         \A u \in Threads : pc'[u] = "recycle" =>
           /\ pc[u] = "recycle" /\ pref'[u] = pref[u]
           /\ IndexOwned(pref[u], Threads \ {u})' => IndexOwned(pref[u], Threads \ {u})
  PROVE  IndexConserved'
PROOF
  <1>1. (\A i \in Preferred :
           /\ i < currentMaxIndex <=> i \in recycledIndices \/ IndexOwned(i, Threads)
           /\ ~(i \in recycledIndices /\ IndexOwned(i, Threads)))'
    BY DEF IndexConserved
  <1>2. (\A t \in Threads : pc[t] = "recycle" => ~IndexOwned(pref[t], Threads \ {t}))'
    <2> SUFFICES ASSUME NEW u \in Threads, pc'[u] = "recycle"
                 PROVE  ~IndexOwned(pref[u], Threads \ {u})'
      OBVIOUS
    <2>1. pref'[u] = pref[u] /\ ~IndexOwned(pref[u], Threads \ {u})
      BY DEF IndexConserved
    <2> QED BY <2>1 DEF IndexOwned
  <1> QED BY <1>1, <1>2 DEF IndexConserved

\* Handing a rental to the caller makes nobody the first or last owner of an index.
LEMMA DeliverIndex ==
  ASSUME Typed, HandlesOK, IndexConserved, NEW t \in Threads, pc[t] \in Acquiring,
         NEW i \in {None, pref[t]}, NEW r \in Rentals, Deliver(t, i, r),
         UNCHANGED <<currentMaxIndex, recycledIndices, pref>>
  PROVE  IndexConserved'
PROOF
  <1>0. i \in Preferred \cup {None} BY DEF Typed, TypeOK
  <1>1. Delivered(t, i, r) BY <1>0, DeliverEffect
  <1>2. \A j \in Preferred : IndexOwned(j, Threads)' <=> IndexOwned(j, Threads)
    <2> SUFFICES ASSUME NEW j \in Preferred
                 PROVE  IndexOwned(j, Threads)' <=> IndexOwned(j, Threads)
      OBVIOUS
    <2>1. j # None BY Names
    <2>2. ASSUME IndexOwned(j, Threads) PROVE IndexOwned(j, Threads)'
      BY <1>1, <2>1, <2>2 DEF Delivered, Nothing, IndexOwned
    <2>3. ASSUME IndexOwned(j, Threads)' PROVE IndexOwned(j, Threads)
      BY <1>1, <2>1, <2>3 DEF Delivered, IndexOwned
    <2> QED BY <2>2, <2>3
  <1>3. ASSUME NEW u \in Threads, pc'[u] = "recycle"
        PROVE  /\ pc[u] = "recycle" /\ pref'[u] = pref[u]
               /\ IndexOwned(pref[u], Threads \ {u})' => IndexOwned(pref[u], Threads \ {u})
    <2>1. u # t /\ pc[u] = "recycle" BY <1>1, <1>3 DEF Delivered
    <2>2. pref[u] \in Preferred /\ pref[u] # None BY <2>1, Names DEF Typed, CallOK
    <2>3. ASSUME IndexOwned(pref[u], Threads \ {u})' PROVE IndexOwned(pref[u], Threads \ {u})
      BY <1>1, <2>1, <2>2, <2>3 DEF Delivered, IndexOwned
    <2> QED BY <2>1, <2>3
  <1> QED BY <1>2, <1>3, OwnersKept

\* Every step conserves the indices.
LEMMA IndexStep == Typed /\ HandlesOK /\ IndexConserved /\ [Next]_vars => IndexConserved'
PROOF
  <1> SUFFICES ASSUME Typed, HandlesOK, IndexConserved, [Next]_vars PROVE IndexConserved'
    OBVIOUS
  <1>1. ASSUME NEW t \in Threads, NEW h \in Lockeds, Acquire(t, h) PROVE IndexConserved'
    BY <1>1, IndexFrame DEF Acquire, Goto, Typed, TypeOK, poolVars, handleVars
  <1>2. ASSUME NEW t \in Threads, NEW w \in Weaks, NEW h \in Lockeds, LockLive(t, w, h)
        PROVE IndexConserved'
    <2>1. \A i \in Preferred : IndexOwned(i, Threads)' <=> IndexOwned(i, Threads)
      BY <1>2, Names DEF LockLive, Empty, HandlesOK, Nothing, Typed, TypeOK, CallOK, IndexOwned
    <2>2. \A u \in Threads : pc'[u] = "recycle" =>
            /\ pc[u] = "recycle" /\ pref'[u] = pref[u]
            /\ IndexOwned(pref[u], Threads \ {u})' => IndexOwned(pref[u], Threads \ {u})
      BY <1>2, Names DEF LockLive, Empty, HandlesOK, Nothing, Typed, TypeOK, CallOK, IndexOwned
    <2> QED BY <1>2, <2>1, <2>2, OwnersKept DEF LockLive, poolVars
  <1>3. ASSUME NEW t \in Threads, NEW w \in Weaks, NEW h \in Lockeds, LockExpired(t, w, h)
        PROVE IndexConserved'
    <2>0. /\ pref[t] = None /\ pref'[t] = weak[w].pref /\ pc'[t] # "recycle"
          /\ \A u \in Threads : u # t => pref'[u] = pref[u] /\ pc'[u] = pc[u]
          /\ UNCHANGED <<locked, weak>>
      BY <1>3 DEF LockExpired, Goto, Typed, TypeOK, CallOK, handleVars
    <2>1. \A i \in Preferred : IndexOwned(i, Threads)' <=> IndexOwned(i, Threads)
      BY <2>0, Names DEF IndexOwned
    <2>2. \A u \in Threads : pc'[u] = "recycle" =>
            /\ pc[u] = "recycle" /\ pref'[u] = pref[u]
            /\ IndexOwned(pref[u], Threads \ {u})' => IndexOwned(pref[u], Threads \ {u})
      BY <2>0, Names DEF Typed, CallOK, IndexOwned
    <2> QED BY <1>3, <2>1, <2>2, OwnersKept DEF LockExpired, poolVars
  <1>4. ASSUME NEW t \in Threads, NEW h \in Lockeds, NEW g \in Lockeds, Clone(t, h, g)
        PROVE IndexConserved'
    <2>1. \A i \in Preferred : IndexOwned(i, Threads)' <=> IndexOwned(i, Threads)
      BY <1>4, Names DEF Clone, Empty, HandlesOK, Nothing, Typed, TypeOK, CallOK, IndexOwned
    <2>2. \A u \in Threads : pc'[u] = "recycle" =>
            /\ pc[u] = "recycle" /\ pref'[u] = pref[u]
            /\ IndexOwned(pref[u], Threads \ {u})' => IndexOwned(pref[u], Threads \ {u})
      BY <1>4, Names DEF Clone, Empty, HandlesOK, Nothing, Typed, TypeOK, CallOK, IndexOwned
    <2> QED BY <1>4, <2>1, <2>2, OwnersKept DEF Clone, poolVars
  <1>5. ASSUME NEW t \in Threads, NEW w \in Weaks, NEW h \in Lockeds, AssignWeak(t, w, h)
        PROVE IndexConserved'
    <2>1. \A i \in Preferred : IndexOwned(i, Threads)' <=> IndexOwned(i, Threads)
      BY <1>5, Names DEF AssignWeak, Handle, Typed, TypeOK, CallOK, IndexOwned
    <2>2. \A u \in Threads : pc'[u] = "recycle" =>
            /\ pc[u] = "recycle" /\ pref'[u] = pref[u]
            /\ IndexOwned(pref[u], Threads \ {u})' => IndexOwned(pref[u], Threads \ {u})
      BY <1>5, Names DEF AssignWeak, Handle, Typed, TypeOK, CallOK, IndexOwned, Goto
    <2> QED BY <1>5, <2>1, <2>2, OwnersKept DEF AssignWeak, poolVars
  <1>6. ASSUME NEW t \in Threads, NEW w \in Weaks, DropWeak(t, w) PROVE IndexConserved'
    <2>1. \A i \in Preferred : IndexOwned(i, Threads)' <=> IndexOwned(i, Threads)
      BY <1>6, Names DEF DropWeak, Handle, Nothing, Typed, TypeOK, CallOK, IndexOwned
    <2>2. \A u \in Threads : pc'[u] = "recycle" =>
            /\ pc[u] = "recycle" /\ pref'[u] = pref[u]
            /\ IndexOwned(pref[u], Threads \ {u})' => IndexOwned(pref[u], Threads \ {u})
      BY <1>6, Names DEF DropWeak, Handle, Nothing, Typed, TypeOK, CallOK, IndexOwned, Goto
    <2> QED BY <1>6, <2>1, <2>2, OwnersKept DEF DropWeak, poolVars
  <1>7. ASSUME NEW t \in Threads, NEW h \in Lockeds, DropLocked(t, h) PROVE IndexConserved'
    <2>0. /\ pref[t] = None /\ pref'[t] = locked[h].pref /\ pc'[t] # "recycle"
          /\ \A u \in Threads : u # t => pref'[u] = pref[u] /\ pc'[u] = pc[u]
          /\ locked'[h].pref = None
          /\ \A g \in Lockeds : g # h => locked'[g] = locked[g]
          /\ \A w \in Weaks : weak'[w].pref = weak[w].pref
      BY <1>7 DEF DropLocked, Goto, Typed, TypeOK, CallOK, Handle, Nothing
    <2>1. \A i \in Preferred : IndexOwned(i, Threads)' <=> IndexOwned(i, Threads)
      BY <2>0, Names DEF IndexOwned
    <2>2. \A u \in Threads : pc'[u] = "recycle" =>
            /\ pc[u] = "recycle" /\ pref'[u] = pref[u]
            /\ IndexOwned(pref[u], Threads \ {u})' => IndexOwned(pref[u], Threads \ {u})
      BY <2>0, Names DEF Typed, CallOK, IndexOwned
    <2> QED BY <1>7, <2>1, <2>2, OwnersKept DEF DropLocked, poolVars
  <1>8. ASSUME NEW t \in Threads, CheckMaxIndex(t) PROVE IndexConserved'
    BY <1>8, IndexFrame DEF CheckMaxIndex, Goto, Typed, TypeOK, poolVars, handleVars
  <1>9. ASSUME NEW t \in Threads, CheckRecycled(t) PROVE IndexConserved'
    BY <1>9, IndexFrame DEF CheckRecycled, Goto, Typed, TypeOK, poolVars, handleVars
  <1>10. ASSUME NEW t \in Threads, ChooseIndex(t) PROVE IndexConserved'
    BY <1>10, IndexFrame DEF ChooseIndex, Goto, Typed, TypeOK, poolVars, handleVars
  <1>11. ASSUME NEW t \in Threads, PopIndex(t) PROVE IndexConserved'
    BY <1>11, Names, SizeAssumption
    DEF Typed, TypeOK, CallOK, HandlesOK, IndexConserved, IndexOwned, Searching, Goto, Preferred,
        handleVars, PopIndex
  <1>12. ASSUME NEW t \in Threads, FetchIndex(t) PROVE IndexConserved'
    <2>1. pref[t] = None BY <1>12 DEF FetchIndex, Typed, CallOK, Searching
    <2>2. CASE currentMaxIndex < MaxResources
      <3>1. /\ currentMaxIndex' = currentMaxIndex + 1 /\ pref'[t] = currentMaxIndex
            /\ pc'[t] = "with_preference"
            /\ \A u \in Threads : u # t => pref'[u] = pref[u] /\ pc'[u] = pc[u]
            /\ UNCHANGED <<recycledIndices, locked, weak>>
        BY <1>12, <2>2 DEF FetchIndex, Wins, Goto, Typed, TypeOK, handleVars
      <3>2. \A i \in Preferred : IndexOwned(i, Threads)' <=>
                                   IndexOwned(i, Threads) \/ i = currentMaxIndex
        BY <2>1, <3>1, Names DEF IndexOwned
      <3>3. currentMaxIndex \in Preferred /\ \A i \in Preferred : i < currentMaxIndex' <=>
              i < currentMaxIndex \/ i = currentMaxIndex
        BY <2>2, <3>1, SizeAssumption DEF Typed, TypeOK, Preferred
      <3>4. (\A i \in Preferred :
               /\ i < currentMaxIndex <=> i \in recycledIndices \/ IndexOwned(i, Threads)
               /\ ~(i \in recycledIndices /\ IndexOwned(i, Threads)))'
        <4>1. ~(currentMaxIndex < currentMaxIndex) BY SizeAssumption DEF Typed, TypeOK
        <4> QED BY <3>1, <3>2, <3>3, <4>1 DEF IndexConserved
      <3>5. (\A u \in Threads : pc[u] = "recycle" => ~IndexOwned(pref[u], Threads \ {u}))'
        <4> SUFFICES ASSUME NEW u \in Threads, pc'[u] = "recycle"
                     PROVE  ~IndexOwned(pref[u], Threads \ {u})'
          OBVIOUS
        <4>1. u # t /\ pc[u] = "recycle" /\ pref'[u] = pref[u] BY <3>1
        <4>2. pref[u] \in Preferred BY <4>1 DEF Typed, CallOK
        <4>3. pref[u] # currentMaxIndex
          BY <3>3, <4>1, <4>2, SizeAssumption DEF IndexConserved, IndexOwned, Typed, TypeOK
        <4> QED BY <3>1, <4>1, <4>3 DEF IndexConserved, IndexOwned
      <3> QED BY <3>4, <3>5 DEF IndexConserved
    <2>3. CASE ~(currentMaxIndex < MaxResources)
      BY <1>12, <2>3, IndexFrame DEF FetchIndex, Wins, Goto, Typed, TypeOK, handleVars
    <2> QED BY <2>2, <2>3
  <1>13. ASSUME NEW t \in Threads, BorrowPreferred(t) PROVE IndexConserved'
    <2>1. pc[t] \in Acquiring /\ pref[t] \in Rentals
      BY <1>13 DEF BorrowPreferred, Acquiring, Typed, CallOK, Rentals, Packs
    <2> QED BY <1>13, <2>1, DeliverIndex DEF BorrowPreferred
  <1>14. ASSUME NEW t \in Threads, PreferredIsOut(t) PROVE IndexConserved'
    BY <1>14, IndexFrame DEF PreferredIsOut, Goto, Typed, TypeOK, poolVars, handleVars
  <1>15. ASSUME NEW t \in Threads, Dequeue(t) PROVE IndexConserved'
    BY <1>15, IndexFrame DEF Dequeue, Goto, Typed, TypeOK, handleVars
  <1>16. ASSUME NEW t \in Threads, DequeueFails(t) PROVE IndexConserved'
    BY <1>16, IndexFrame DEF DequeueFails, Goto, Typed, TypeOK, poolVars, handleVars
  <1>17. ASSUME NEW t \in Threads, Take(t) PROVE IndexConserved'
    BY <1>17, IndexFrame DEF Take, Goto, Typed, TypeOK, handleVars
  <1>18. ASSUME NEW t \in Threads, RemoveFromFreeList(t) PROVE IndexConserved'
    BY <1>18, IndexFrame DEF RemoveFromFreeList, Goto, Typed, TypeOK, handleVars
  <1>19. ASSUME NEW t \in Threads, BorrowCandidate(t) PROVE IndexConserved'
    <2>1. pc[t] \in Acquiring /\ pack[t] \in Rentals
      BY <1>19 DEF BorrowCandidate, Acquiring, Typed, CallOK, Rentals
    <2> QED BY <1>19, <2>1, DeliverIndex DEF BorrowCandidate
  <1>20. ASSUME NEW t \in Threads, CandidateIsOut(t) PROVE IndexConserved'
    BY <1>20, IndexFrame DEF CandidateIsOut, Goto, Typed, TypeOK, poolVars, handleVars
  <1>21. ASSUME NEW t \in Threads, Overdraw(t) PROVE IndexConserved'
    <2>1. PICK o \in Overdrawns : Deliver(t, None, o) BY <1>21 DEF Overdraw
    <2>2. pc[t] \in Acquiring /\ o \in Rentals BY <1>21 DEF Overdraw, Acquiring, Rentals
    <2> QED BY <1>21, <2>1, <2>2, DeliverIndex DEF Overdraw, poolVars
  <1>22. ASSUME NEW t \in Threads, BuilderThrows(t) PROVE IndexConserved'
    BY <1>22, IndexFrame DEF BuilderThrows, Goto, Typed, TypeOK, poolVars, handleVars
  <1>23. ASSUME NEW t \in Threads, OnRelease(t) PROVE IndexConserved'
    BY <1>23, IndexFrame DEF OnRelease, Goto, Typed, TypeOK, handleVars
  <1>24. ASSUME NEW t \in Threads, GiveBack(t) PROVE IndexConserved'
    BY <1>24, IndexFrame DEF GiveBack, Goto, Typed, TypeOK, handleVars
  <1>25. ASSUME NEW t \in Threads, Enqueue(t) PROVE IndexConserved'
    BY <1>25, IndexFrame DEF Enqueue, Goto, Typed, TypeOK, handleVars
  <1>26. ASSUME NEW t \in Threads, Signal(t) PROVE IndexConserved'
    BY <1>26, IndexFrame DEF Signal, Goto, Typed, TypeOK, handleVars
  <1>27. ASSUME NEW t \in Threads, Return(t) PROVE IndexConserved'
    <2>1. /\ \A u \in Threads : u # t => pref'[u] = pref[u] /\ pc'[u] = pc[u]
          /\ UNCHANGED <<currentMaxIndex, recycledIndices, locked, weak>>
      BY <1>27 DEF Return, Goto, Typed, TypeOK, poolVars, handleVars
    <2>2. CASE LastIndexOwner(t)
      <3>1. pref' = pref BY <1>27, <2>2 DEF Return
      <3>2. \A u \in Threads : ~IndexOwned(pref[u], Threads \ {u}) =>
                                 ~IndexOwned(pref[u], Threads \ {u})'
        BY <2>1, <3>1 DEF IndexOwned
      <3>3. \A i \in Preferred : IndexOwned(i, Threads)' <=> IndexOwned(i, Threads)
        BY <2>1, <3>1 DEF IndexOwned
      <3>4. (\A u \in Threads : pc[u] = "recycle" => ~IndexOwned(pref[u], Threads \ {u}))'
        BY <2>1, <2>2, <3>1, <3>2 DEF LastIndexOwner, IndexConserved, IndexOwned
      <3> QED BY <2>1, <3>3, <3>4 DEF IndexConserved
    <2>3. CASE ~LastIndexOwner(t)
      <3>1. pref'[t] = None /\ pc'[t] = "idle"
        BY <1>27, <2>3 DEF Return, Goto, Typed, TypeOK
      <3>2. \A i \in Preferred : IndexOwned(i, Threads)' <=> IndexOwned(i, Threads)
        BY <2>1, <2>3, <3>1, Names DEF LastIndexOwner, IndexOwned
      <3>3. \A u \in Threads : pc'[u] = "recycle" =>
              /\ pc[u] = "recycle" /\ pref'[u] = pref[u]
              /\ IndexOwned(pref[u], Threads \ {u})' => IndexOwned(pref[u], Threads \ {u})
        BY <2>1, <3>1, Names DEF Typed, CallOK, IndexOwned
      <3> QED BY <2>1, <3>2, <3>3, OwnersKept
    <2> QED BY <2>2, <2>3
  <1>28. ASSUME NEW t \in Threads, Recycle(t) PROVE IndexConserved'
    <2>1. /\ pref[t] \in Preferred /\ ~IndexOwned(pref[t], Threads \ {t})
          /\ recycledIndices' = recycledIndices \cup {pref[t]}
          /\ pref'[t] = None /\ pc'[t] = "idle"
          /\ \A u \in Threads : u # t => pref'[u] = pref[u] /\ pc'[u] = pc[u]
          /\ UNCHANGED <<currentMaxIndex, locked, weak>>
      BY <1>28 DEF Recycle, Goto, Typed, TypeOK, CallOK, IndexConserved, handleVars
    <2>2. \A i \in Preferred : IndexOwned(i, Threads)' <=> IndexOwned(i, Threads) /\ i # pref[t]
      BY <2>1, Names DEF IndexOwned
    <2>3. (\A i \in Preferred :
             /\ i < currentMaxIndex <=> i \in recycledIndices \/ IndexOwned(i, Threads)
             /\ ~(i \in recycledIndices /\ IndexOwned(i, Threads)))'
      <3>1. IndexOwned(pref[t], Threads) BY DEF IndexOwned
      <3> QED BY <2>1, <2>2, <3>1 DEF IndexConserved
    <2>4. (\A u \in Threads : pc[u] = "recycle" => ~IndexOwned(pref[u], Threads \ {u}))'
      BY <2>1, Names DEF IndexConserved, IndexOwned, Typed, CallOK
    <2> QED BY <2>3, <2>4 DEF IndexConserved
  <1>29. CASE UNCHANGED vars
    BY <1>29
    DEF Typed, TypeOK, CallOK, HandlesOK, IndexConserved, IndexOwned, Searching, Goto, Preferred,
        Handle, Nothing, Empty, Full, poolVars, handleVars, vars
  <1> QED
    BY <1>1, <1>2, <1>3, <1>4, <1>5, <1>6, <1>7, <1>8, <1>9, <1>10, <1>11, <1>12, <1>13, <1>14,
       <1>15, <1>16, <1>17, <1>18, <1>19, <1>20, <1>21, <1>22, <1>23, <1>24, <1>25, <1>26, <1>27,
       <1>28, <1>29
    DEF Next, Call, NewCall, Step, FindIndex, Borrow, Destroy

-----------------------------------------------------------------------------
(* Rentals.                                                                *)

\* Some LockedResource holds r.
InHandle(r) == \E h \in Lockeds : locked[h].rsource = r

\* The T of a pack is at home or in one rental, which is registered.
RentalsOK ==
  /\ ExclusiveRental
  /\ CallbacksAlternate
  /\ whoOwnsMe = {p \in Preferred : Rented(p)}
  /\ resource \subseteq initialized

\* A rental lives in a handle or in its destructor.
LEMMA RentedCases ==
  ASSUME NEW r
  PROVE  Rented(r) <=> InHandle(r) \/ \E t \in Threads : Destroying(t) /\ pack[t] = r
  BY DEF Rented, InHandle, Destroying

\* A step that neither starts nor ends a rental, nor a phase of its destructor.
LEMMA RentalFrame ==
  ASSUME RentalsOK, UNCHANGED <<initialized, resource, whoOwnsMe, held>>,
         \A r \in Rentals : InHandle(r)' <=> InHandle(r),
         \A u \in Threads : Destroying(u)' \/ Destroying(u) => pc'[u] = pc[u] /\ pack'[u] = pack[u],
         \A u \in Threads : Destroying(u) => pack[u] \in Rentals
  PROVE  RentalsOK'
PROOF
  <1>1. \A p \in Rentals : Rented(p)' <=> Rented(p)
    BY DEF Rented, Destroying, InHandle
  <1>2. Packs \subseteq Rentals /\ Preferred \subseteq Rentals BY DEF Rentals, Packs
  <1>3. (\A p \in Packs : Rented(p) <=> IsOut(p))'
    BY <1>1, <1>2 DEF RentalsOK, ExclusiveRental, IsOut
  <1>4. ASSUME NEW t \in Threads, Destroying(t)'
        PROVE  /\ \A h \in Lockeds : ~Holder(h, pack[t])'
               /\ \A u \in Threads \ {t} : ~(Destroying(u) /\ pack[u] = pack[t])'
    <2>1. Destroying(t) /\ pack'[t] = pack[t] /\ pack[t] \in Rentals
      BY <1>4 DEF Destroying
    <2>2. \A h \in Lockeds : ~Holder(h, pack[t])'
      BY <2>1 DEF RentalsOK, ExclusiveRental, Holder, InHandle
    <2>3. \A u \in Threads \ {t} : ~(Destroying(u) /\ pack[u] = pack[t])'
      BY <2>1 DEF RentalsOK, ExclusiveRental, Destroying
    <2> QED BY <2>2, <2>3
  <1>5. CallbacksAlternate'
    BY <1>2 DEF RentalsOK, CallbacksAlternate, Holder, InHandle, Destroying
  <1>6. ExclusiveRental' BY <1>3, <1>4 DEF ExclusiveRental
  <1> QED BY <1>1, <1>2, <1>5, <1>6 DEF RentalsOK

\* A resource that is not out is taken out and delivered to an empty handle.
LEMMA TakeOutRental ==
  ASSUME Typed, HandlesOK, RentalsOK, NEW t \in Threads, pc[t] \in Acquiring,
         NEW i \in Preferred \cup {None}, NEW p \in Packs, ~IsOut(p), TakeOut(p),
         Deliver(t, i, p), UNCHANGED pack
  PROVE  RentalsOK'
PROOF
  <1>1. p \in Rentals BY DEF Rentals
  <1>2. Delivered(t, i, p) BY <1>1, DeliverEffect
  <1>3. \A q : q # None => (InHandle(q)' <=> InHandle(q) \/ q = p)
    BY <1>2 DEF Delivered, InHandle, Nothing
  <1>4. \A u \in Threads : /\ Destroying(u)' <=> Destroying(u)
                           /\ pc'[u] = "on_release" <=> pc[u] = "on_release"
    BY <1>2 DEF Delivered, Destroying, Acquiring, Searching
  <1>5. ~Rented(p) BY DEF RentalsOK, ExclusiveRental
  <1>6. \A q \in Packs : Rented(q)' <=> Rented(q) \/ q = p
    BY <1>3, <1>4, RentedCases, Names DEF Rented, InHandle, Destroying
  <1>7. (\A q \in Packs : Rented(q) <=> IsOut(q))'
    BY <1>6 DEF RentalsOK, ExclusiveRental, IsOut, TakeOut
  <1>8. ASSUME NEW u \in Threads, Destroying(u)'
        PROVE  /\ \A h \in Lockeds : ~Holder(h, pack[u])'
               /\ \A v \in Threads \ {u} : ~(Destroying(v) /\ pack[v] = pack[u])'
    <2>1. Destroying(u) BY <1>4, <1>8
    <2>2. pack[u] # p BY <1>5, <2>1, RentedCases
    <2>3. \A h \in Lockeds : ~Holder(h, pack[u])'
      BY <1>2, <2>1, <2>2 DEF Delivered, Holder, RentalsOK, ExclusiveRental
    <2>4. \A v \in Threads \ {u} : ~(Destroying(v) /\ pack[v] = pack[u])'
      BY <1>4, <2>1 DEF RentalsOK, ExclusiveRental, Destroying
    <2> QED BY <2>3, <2>4
  <1>9. CallbacksAlternate'
    <2> SUFFICES ASSUME NEW q \in Packs
                 PROVE  (q \in held <=>
                        InHandle(q) \/ \E u \in Threads : pc[u] = "on_release" /\ pack[u] = q)'
      BY DEF CallbacksAlternate, Holder, InHandle
    <2>1. q # None BY Names
    <2> QED BY <1>3, <1>4, <2>1 DEF RentalsOK, CallbacksAlternate, Holder, InHandle, TakeOut
  <1>10. whoOwnsMe' = {q \in Preferred : Rented(q)'}
    BY <1>6 DEF RentalsOK, TakeOut, Packs
  <1>11. resource' \subseteq initialized' BY DEF RentalsOK, TakeOut
  <1>12. ExclusiveRental' BY <1>7, <1>8 DEF ExclusiveRental
  <1> QED BY <1>9, <1>10, <1>11, <1>12 DEF RentalsOK

\* Every step keeps the rentals exclusive.
LEMMA RentalStep == Typed /\ HandlesOK /\ RentalsOK /\ [Next]_vars => RentalsOK'
PROOF
  <1> SUFFICES ASSUME Typed, HandlesOK, RentalsOK, [Next]_vars PROVE RentalsOK'
    OBVIOUS
  <1>0. \A u \in Threads : Destroying(u) => pack[u] \in Rentals
    BY DEF Destroying, Typed, CallOK, Rentals
  <1>1. ASSUME NEW t \in Threads, NEW h \in Lockeds, Acquire(t, h) PROVE RentalsOK'
    BY <1>1, <1>0, RentalFrame
    DEF Acquire, Goto, Typed, TypeOK, CallOK, Destroying, InHandle, poolVars, handleVars
  <1>2. ASSUME NEW t \in Threads, NEW w \in Weaks, NEW h \in Lockeds, LockLive(t, w, h)
        PROVE RentalsOK'
    <2>1. \A r \in Rentals : InHandle(r)' <=> InHandle(r)
      BY <1>2, Names DEF LockLive, Empty, InHandle, HandlesOK, Nothing, Typed, TypeOK
    <2> QED BY <1>2, <2>1, <1>0, RentalFrame DEF LockLive, poolVars
  <1>3. ASSUME NEW t \in Threads, NEW w \in Weaks, NEW h \in Lockeds, LockExpired(t, w, h)
        PROVE RentalsOK'
    BY <1>3, <1>0, RentalFrame
    DEF LockExpired, Goto, Typed, TypeOK, CallOK, Destroying, InHandle, poolVars, handleVars
  <1>4. ASSUME NEW t \in Threads, NEW h \in Lockeds, NEW g \in Lockeds, Clone(t, h, g)
        PROVE RentalsOK'
    <2>1. \A r \in Rentals : InHandle(r)' <=> InHandle(r)
      BY <1>4, Names DEF Clone, Empty, Full, InHandle, HandlesOK, Nothing, Typed, TypeOK
    <2> QED BY <1>4, <2>1, <1>0, RentalFrame DEF Clone, poolVars
  <1>5. ASSUME NEW t \in Threads, NEW w \in Weaks, NEW h \in Lockeds, AssignWeak(t, w, h)
        PROVE RentalsOK'
    BY <1>5, <1>0, RentalFrame
    DEF AssignWeak, Goto, Typed, TypeOK, CallOK, Destroying, InHandle, poolVars
  <1>6. ASSUME NEW t \in Threads, NEW w \in Weaks, DropWeak(t, w) PROVE RentalsOK'
    BY <1>6, <1>0, RentalFrame
    DEF DropWeak, Goto, Typed, TypeOK, CallOK, Destroying, InHandle, poolVars
  <1>7. ASSUME NEW t \in Threads, NEW h \in Lockeds, DropLocked(t, h) PROVE RentalsOK'
    <2> DEFINE r == locked[h].rsource
    <2>1. /\ r # None /\ r \in Rentals /\ InHandle(r) /\ pc[t] = "idle"
          /\ locked'[h].rsource = None
          /\ \A g \in Lockeds : g # h => locked'[g] = locked[g]
          /\ UNCHANGED poolVars
      BY <1>7 DEF DropLocked, Full, Typed, TypeOK, Handle, Nothing, InHandle
    <2>2. CASE \A g \in Lockeds \ {h} : locked[g].rsource # r
      <3>1. /\ pc'[t] = "on_release" /\ pack'[t] = r
            /\ \A u \in Threads : u # t => pc'[u] = pc[u] /\ pack'[u] = pack[u]
        BY <1>7, <2>2 DEF DropLocked, Goto, Typed, TypeOK
      <3>2. \A q \in Rentals : InHandle(q)' <=> InHandle(q) /\ q # r
        BY <2>1, <2>2, Names DEF InHandle
      <3>3. \A u \in Threads : Destroying(u) => pack[u] # r
        BY <1>0, <2>1 DEF RentalsOK, ExclusiveRental, Holder
      <3>4. \A q \in Rentals : Rented(q)' <=> Rented(q)
        BY <2>1, <3>1, <3>2 DEF Rented, InHandle
      <3>5. (\A p \in Packs : Rented(p) <=> IsOut(p))'
        BY <2>1, <3>4 DEF RentalsOK, ExclusiveRental, IsOut, poolVars, Rentals
      <3>6. ASSUME NEW u \in Threads, Destroying(u)'
            PROVE  /\ \A g \in Lockeds : ~Holder(g, pack[u])'
                   /\ \A v \in Threads \ {u} : ~(Destroying(v) /\ pack[v] = pack[u])'
        <4>1. CASE u = t
          BY <2>1, <2>2, <3>1, <3>3, <4>1 DEF Holder, Destroying
        <4>2. CASE u # t
          <5>1. Destroying(u) /\ pack'[u] = pack[u] /\ pack[u] # r /\ pack[u] \in Rentals
            BY <1>0, <3>1, <3>3, <3>6, <4>2 DEF Destroying
          <5>2. \A g \in Lockeds : ~Holder(g, pack[u])'
            BY <2>1, <5>1, Names DEF Holder, RentalsOK, ExclusiveRental
          <5>3. \A v \in Threads \ {u} : ~(Destroying(v) /\ pack[v] = pack[u])'
            BY <3>1, <5>1 DEF RentalsOK, ExclusiveRental, Destroying
          <5> QED BY <5>2, <5>3
        <4> QED BY <4>1, <4>2
      <3>7. CallbacksAlternate'
        <4> SUFFICES ASSUME NEW q \in Packs
                     PROVE  (q \in held <=>
                        InHandle(q) \/ \E u \in Threads : pc[u] = "on_release" /\ pack[u] = q)'
          BY DEF CallbacksAlternate, Holder, InHandle
        <4>1. q \in Rentals BY DEF Rentals
        <4> QED BY <2>1, <3>1, <3>2, <4>1
                DEF RentalsOK, CallbacksAlternate, Holder, InHandle, poolVars
      <3>8. whoOwnsMe' = {p \in Preferred : Rented(p)'}
        BY <2>1, <3>4 DEF RentalsOK, poolVars, Packs, Rentals
      <3> QED BY <2>1, <3>5, <3>6, <3>7, <3>8 DEF RentalsOK, ExclusiveRental, poolVars
    <2>3. CASE ~\A g \in Lockeds \ {h} : locked[g].rsource # r
      <3>1. /\ pc'[t] = "return" /\ UNCHANGED pack
            /\ \A u \in Threads : u # t => pc'[u] = pc[u]
        BY <1>7, <2>3 DEF DropLocked, Goto, Typed, TypeOK
      <3>2. \A q \in Rentals : InHandle(q)' <=> InHandle(q)
        BY <2>1, <2>3, Names DEF InHandle
      <3>3. \A u \in Threads : Destroying(u)' \/ Destroying(u) =>
                                 pc'[u] = pc[u] /\ pack'[u] = pack[u]
        BY <2>1, <3>1 DEF Destroying
      <3> QED BY <1>0, <2>1, <3>2, <3>3, RentalFrame DEF poolVars
    <2> QED BY <2>2, <2>3
  <1>8. ASSUME NEW t \in Threads, CheckMaxIndex(t) PROVE RentalsOK'
    BY <1>8, <1>0, RentalFrame
    DEF CheckMaxIndex, Goto, Typed, TypeOK, CallOK, Destroying, InHandle, poolVars, handleVars
  <1>9. ASSUME NEW t \in Threads, CheckRecycled(t) PROVE RentalsOK'
    BY <1>9, <1>0, RentalFrame
    DEF CheckRecycled, Goto, Typed, TypeOK, CallOK, Destroying, InHandle, poolVars, handleVars
  <1>10. ASSUME NEW t \in Threads, ChooseIndex(t) PROVE RentalsOK'
    BY <1>10, <1>0, RentalFrame
    DEF ChooseIndex, Goto, Typed, TypeOK, CallOK, Destroying, InHandle, poolVars, handleVars
  <1>11. ASSUME NEW t \in Threads, PopIndex(t) PROVE RentalsOK'
    BY <1>11, <1>0, RentalFrame
    DEF PopIndex, Goto, Typed, TypeOK, CallOK, Destroying, InHandle, handleVars
  <1>12. ASSUME NEW t \in Threads, FetchIndex(t) PROVE RentalsOK'
    BY <1>12, <1>0, RentalFrame
    DEF FetchIndex, Goto, Typed, TypeOK, CallOK, Destroying, InHandle, handleVars, Wins
  <1>13. ASSUME NEW t \in Threads, BorrowPreferred(t) PROVE RentalsOK'
    <2>1. pc[t] \in Acquiring /\ pref[t] \in Packs /\ pref[t] \in Preferred \cup {None}
      BY <1>13 DEF BorrowPreferred, Acquiring, Typed, TypeOK, CallOK, Packs
    <2> QED BY <1>13, <2>1, TakeOutRental DEF BorrowPreferred
  <1>14. ASSUME NEW t \in Threads, PreferredIsOut(t) PROVE RentalsOK'
    BY <1>14, <1>0, RentalFrame
    DEF PreferredIsOut, Goto, Typed, TypeOK, CallOK, Destroying, InHandle, poolVars, handleVars
  <1>15. ASSUME NEW t \in Threads, Dequeue(t) PROVE RentalsOK'
    BY <1>15, <1>0, RentalFrame
    DEF Dequeue, Goto, Typed, TypeOK, CallOK, Destroying, InHandle, handleVars
  <1>16. ASSUME NEW t \in Threads, DequeueFails(t) PROVE RentalsOK'
    BY <1>16, <1>0, RentalFrame
    DEF DequeueFails, Goto, Typed, TypeOK, CallOK, Destroying, InHandle, poolVars, handleVars
  <1>17. ASSUME NEW t \in Threads, Take(t) PROVE RentalsOK'
    BY <1>17, <1>0, RentalFrame
    DEF Take, Goto, Typed, TypeOK, CallOK, Destroying, InHandle, handleVars
  <1>18. ASSUME NEW t \in Threads, RemoveFromFreeList(t) PROVE RentalsOK'
    BY <1>18, <1>0, RentalFrame
    DEF RemoveFromFreeList, Goto, Typed, TypeOK, CallOK, Destroying, InHandle, handleVars
  <1>19. ASSUME NEW t \in Threads, BorrowCandidate(t) PROVE RentalsOK'
    <2>1. pc[t] \in Acquiring /\ pack[t] \in Packs /\ None \in Preferred \cup {None}
      BY <1>19 DEF BorrowCandidate, Acquiring, Typed, TypeOK, CallOK, Packs
    <2> QED BY <1>19, <2>1, TakeOutRental DEF BorrowCandidate
  <1>20. ASSUME NEW t \in Threads, CandidateIsOut(t) PROVE RentalsOK'
    BY <1>20, <1>0, RentalFrame
    DEF CandidateIsOut, Goto, Typed, TypeOK, CallOK, Destroying, InHandle, poolVars, handleVars
  <1>21. ASSUME NEW t \in Threads, Overdraw(t) PROVE RentalsOK'
    <2>1. PICK o \in Overdrawns : ~Rented(o) /\ Deliver(t, None, o) BY <1>21 DEF Overdraw
    <2>2. pc[t] \in Acquiring /\ o \in Rentals BY <1>21 DEF Overdraw, Acquiring, Rentals
    <2>3. Delivered(t, None, o) BY <2>1, <2>2, DeliverEffect
    <2>4. \A q : q # None => (InHandle(q)' <=> InHandle(q) \/ q = o)
      BY <2>3 DEF Delivered, InHandle, Nothing
    <2>5. \A u \in Threads : /\ Destroying(u)' <=> Destroying(u)
                             /\ pc'[u] = "on_release" <=> pc[u] = "on_release"
      BY <2>2, <2>3 DEF Delivered, Destroying, Acquiring, Searching
    <2>6. UNCHANGED <<initialized, resource, whoOwnsMe, held, pack>> BY <1>21 DEF Overdraw, poolVars
    <2>7. \A q \in Packs : q # o /\ q # None BY Names
    <2>8. \A q \in Packs : Rented(q)' <=> Rented(q)
      BY <2>4, <2>5, <2>6, <2>7 DEF Rented, InHandle, Destroying
    <2>9. (\A q \in Packs : Rented(q) <=> IsOut(q))'
      BY <2>6, <2>8 DEF RentalsOK, ExclusiveRental, IsOut
    <2>10. ASSUME NEW u \in Threads, Destroying(u)'
           PROVE  /\ \A h \in Lockeds : ~Holder(h, pack[u])'
                  /\ \A v \in Threads \ {u} : ~(Destroying(v) /\ pack[v] = pack[u])'
      <3>1. Destroying(u) BY <2>5, <2>10
      <3>2. pack[u] # o BY <2>1, <3>1, RentedCases
      <3>3. \A h \in Lockeds : ~Holder(h, pack[u])'
        BY <2>3, <2>6, <3>1, <3>2 DEF Delivered, Holder, RentalsOK, ExclusiveRental
      <3>4. \A v \in Threads \ {u} : ~(Destroying(v) /\ pack[v] = pack[u])'
        BY <2>5, <2>6, <3>1 DEF RentalsOK, ExclusiveRental, Destroying
      <3> QED BY <3>3, <3>4
    <2>11. CallbacksAlternate'
      <3> SUFFICES ASSUME NEW q \in Packs
                   PROVE  (q \in held <=>
                        InHandle(q) \/ \E u \in Threads : pc[u] = "on_release" /\ pack[u] = q)'
        BY DEF CallbacksAlternate, Holder, InHandle
      <3> QED BY <2>4, <2>5, <2>6, <2>7 DEF RentalsOK, CallbacksAlternate, Holder, InHandle
    <2>12. whoOwnsMe' = {q \in Preferred : Rented(q)'}
      BY <2>6, <2>8 DEF RentalsOK, Packs
    <2> QED BY <2>6, <2>9, <2>10, <2>11, <2>12 DEF RentalsOK, ExclusiveRental
  <1>22. ASSUME NEW t \in Threads, BuilderThrows(t) PROVE RentalsOK'
    BY <1>22, <1>0, RentalFrame
    DEF BuilderThrows, Goto, Typed, TypeOK, CallOK, Destroying, InHandle, poolVars, handleVars
  <1>23. ASSUME NEW t \in Threads, OnRelease(t) PROVE RentalsOK'
    <2>1. /\ pc[t] = "on_release" /\ pack[t] \in Rentals /\ held' = held \ {pack[t]}
          /\ pc'[t] = IF pack[t] \in Packs THEN "give_back" ELSE "return"
          /\ \A u \in Threads : u # t => pc'[u] = pc[u]
          /\ UNCHANGED <<initialized, resource, whoOwnsMe, locked, pack>>
      BY <1>23 DEF OnRelease, AfterOnRelease, Goto, Typed, TypeOK, CallOK, handleVars
    <2>2. \A q \in Packs : Rented(q)' <=> Rented(q)
      BY <2>1 DEF Rented
    <2>3. (\A q \in Packs : Rented(q) <=> IsOut(q))'
      BY <2>1, <2>2 DEF RentalsOK, ExclusiveRental, IsOut
    <2>4. \A u \in Threads : Destroying(u)' => Destroying(u)
      BY <2>1 DEF Destroying
    <2>5. ASSUME NEW u \in Threads, Destroying(u)'
          PROVE  /\ \A h \in Lockeds : ~Holder(h, pack[u])'
                 /\ \A v \in Threads \ {u} : ~(Destroying(v) /\ pack[v] = pack[u])'
      BY <2>1, <2>4, <2>5 DEF RentalsOK, ExclusiveRental, Holder
    <2>6. CallbacksAlternate'
      <3> SUFFICES ASSUME NEW q \in Packs
                   PROVE  (q \in held <=>
                        InHandle(q) \/ \E u \in Threads : pc[u] = "on_release" /\ pack[u] = q)'
        BY DEF CallbacksAlternate, Holder, InHandle
      <3>1. Destroying(t) BY <2>1 DEF Destroying
      <3>2. CASE q = pack[t]
        BY <2>1, <3>1, <3>2 DEF RentalsOK, ExclusiveRental, Holder, InHandle, Destroying
      <3>3. CASE q # pack[t]
        BY <2>1, <3>3 DEF RentalsOK, CallbacksAlternate, Holder, InHandle
      <3> QED BY <3>2, <3>3
    <2>7. whoOwnsMe' = {q \in Preferred : Rented(q)'}
      BY <2>1, <2>2 DEF RentalsOK, Packs
    <2> QED BY <2>1, <2>3, <2>5, <2>6, <2>7 DEF RentalsOK, ExclusiveRental
  <1>24. ASSUME NEW t \in Threads, GiveBack(t) PROVE RentalsOK'
    <2> DEFINE p == pack[t]
    <2>1. /\ pc[t] = "give_back" /\ p \in Packs
          /\ whoOwnsMe' = whoOwnsMe \ {p} /\ resource' = resource \cup {p}
          /\ pc'[t] \in {"enqueue", "return"}
          /\ \A u \in Threads : u # t => pc'[u] = pc[u]
          /\ UNCHANGED <<initialized, held, locked, pack>>
      BY <1>24 DEF GiveBack, Goto, Typed, TypeOK, CallOK, handleVars
    <2>2. Destroying(t) /\ ~Destroying(t)' BY <2>1 DEF Destroying
    <2>3. Rented(p) /\ ~Rented(p)'
      BY <2>1, <2>2 DEF RentalsOK, ExclusiveRental, Rented, Holder, Destroying
    <2>4. \A q \in Packs : Rented(q)' <=> Rented(q) /\ q # p
      BY <2>1, <2>3 DEF Rented
    <2>5. p \in initialized BY <2>1, <2>3 DEF RentalsOK, ExclusiveRental, IsOut
    <2>6. (\A q \in Packs : Rented(q) <=> IsOut(q))'
      BY <2>1, <2>4 DEF RentalsOK, ExclusiveRental, IsOut
    <2>7. \A u \in Threads : Destroying(u)' => Destroying(u)
      BY <2>1 DEF Destroying
    <2>8. ASSUME NEW u \in Threads, Destroying(u)'
          PROVE  /\ \A h \in Lockeds : ~Holder(h, pack[u])'
                 /\ \A v \in Threads \ {u} : ~(Destroying(v) /\ pack[v] = pack[u])'
      BY <2>1, <2>7, <2>8 DEF RentalsOK, ExclusiveRental, Holder
    <2>9. CallbacksAlternate'
      <3>1. \A u \in Threads : pc'[u] = "on_release" <=> pc[u] = "on_release" BY <2>1
      <3> QED BY <2>1, <3>1 DEF RentalsOK, CallbacksAlternate, Holder
    <2>10. whoOwnsMe' = {q \in Preferred : Rented(q)'}
      BY <2>1, <2>4 DEF RentalsOK, Packs
    <2> QED BY <2>1, <2>5, <2>6, <2>8, <2>9, <2>10 DEF RentalsOK, ExclusiveRental
  <1>25. ASSUME NEW t \in Threads, Enqueue(t) PROVE RentalsOK'
    BY <1>25, <1>0, RentalFrame
    DEF Enqueue, Goto, Typed, TypeOK, CallOK, Destroying, InHandle, handleVars
  <1>26. ASSUME NEW t \in Threads, Signal(t) PROVE RentalsOK'
    BY <1>26, <1>0, RentalFrame
    DEF Signal, Goto, Typed, TypeOK, CallOK, Destroying, InHandle, handleVars
  <1>27. ASSUME NEW t \in Threads, Return(t) PROVE RentalsOK'
    BY <1>27, <1>0, RentalFrame
    DEF Return, Goto, Typed, TypeOK, CallOK, Destroying, InHandle, poolVars, handleVars
  <1>28. ASSUME NEW t \in Threads, Recycle(t) PROVE RentalsOK'
    BY <1>28, <1>0, RentalFrame
    DEF Recycle, Goto, Typed, TypeOK, CallOK, Destroying, InHandle, handleVars
  <1>29. CASE UNCHANGED vars
    BY <1>0, <1>29, RentalFrame DEF Destroying, InHandle, vars, poolVars, handleVars
  <1> QED
    BY <1>1, <1>2, <1>3, <1>4, <1>5, <1>6, <1>7, <1>8, <1>9, <1>10, <1>11, <1>12, <1>13, <1>14,
       <1>15, <1>16, <1>17, <1>18, <1>19, <1>20, <1>21, <1>22, <1>23, <1>24, <1>25, <1>26, <1>27,
       <1>28, <1>29
    DEF Next, Call, NewCall, Step, FindIndex, Borrow, Destroy

-----------------------------------------------------------------------------
(* The free list.                                                          *)

\* t is between taking the entry of p and borrowing p, or about to queue p.
Token(t, p) == pc[t] \in {"unlist", "borrow", "enqueue"} /\ pack[t] = p

\* A spare pack is in the queue, with one such thread, or rented, but never two of these.
SparesOnce ==
  \A s \in Spares :
    /\ Rented(s) => freeResources[s] = 0 /\ \A t \in Threads : ~Token(t, s)
    /\ \A t \in Threads : Token(t, s) =>
         freeResources[s] = 0 /\ \A u \in Threads \ {t} : ~Token(u, s)

\* The free list as the code keeps it, for both kinds of packs.
QueueOK == ListedOnce /\ SparesOnce

\* A step that moves no entry and no token, and rents no spare pack.
LEMMA QueueFrame ==
  ASSUME QueueOK, UNCHANGED <<freeResources, inFreeList>>,
         \A u \in Threads : \/ pc'[u] = pc[u] /\ pack'[u] = pack[u]
                            \/ {pc[u], pc'[u]} \cap {"unlist", "borrow", "enqueue"} = {},
         \A s \in Spares : Rented(s)' => Rented(s)
  PROVE  QueueOK'
PROOF
  <1>1. \A u \in Threads : \A p : /\ Token(u, p)' <=> Token(u, p)
                                  /\ Popped(u, p)' <=> Popped(u, p)
                                  /\ Queueing(u, p)' <=> Queueing(u, p)
    BY DEF Token, Popped, Queueing
  <1>2. ListedOnce' BY <1>1 DEF QueueOK, ListedOnce
  <1>3. SparesOnce' BY <1>1 DEF QueueOK, SparesOnce
  <1> QED BY <1>2, <1>3 DEF QueueOK

\* What becomes rented when Deliver hands out r.
LEMMA DeliverRents ==
  ASSUME Typed, HandlesOK, NEW t \in Threads, pc[t] \in Acquiring,
         NEW i \in Preferred \cup {None}, NEW r \in Rentals, Deliver(t, i, r), UNCHANGED pack
  PROVE  \A q \in Rentals : Rented(q)' => Rented(q) \/ q = r
PROOF
  <1>1. Delivered(t, i, r) BY DeliverEffect
  <1> QED BY <1>1 DEF Delivered, Rented

\* A thread gives up the pack it took from the queue: no token of it remains there.
LEMMA TokenGone ==
  ASSUME QueueOK, UNCHANGED <<freeResources, inFreeList>>, NEW t \in Threads, pc[t] = "borrow",
         pc'[t] \in {"return", "dequeue"},
         \A u \in Threads : u # t => pc'[u] = pc[u] /\ pack'[u] = pack[u],
         \A s \in Spares : Rented(s)' => Rented(s) \/ s = pack[t]
  PROVE  QueueOK'
PROOF
  <1>1. \A u \in Threads : \A p : /\ Token(u, p)' <=> Token(u, p) /\ u # t
                                  /\ Popped(u, p)' <=> Popped(u, p)
                                  /\ Queueing(u, p)' <=> Queueing(u, p)
    BY DEF Token, Popped, Queueing
  <1>2. Token(t, pack[t]) BY DEF Token
  <1>3. ListedOnce' BY <1>1 DEF QueueOK, ListedOnce
  <1>4. SparesOnce' BY <1>1, <1>2 DEF QueueOK, SparesOnce
  <1> QED BY <1>3, <1>4 DEF QueueOK

\* Every step keeps one entry per pack.
LEMMA QueueStep == Typed /\ HandlesOK /\ RentalsOK /\ QueueOK /\ [Next]_vars => QueueOK'
PROOF
  <1> SUFFICES ASSUME Typed, HandlesOK, RentalsOK, QueueOK, [Next]_vars PROVE QueueOK'
    OBVIOUS
  <1>1. ASSUME NEW t \in Threads, NEW h \in Lockeds, Acquire(t, h) PROVE QueueOK'
    <2>1. \A r \in Rentals : Rented(r)' => Rented(r)
      BY <1>1 DEF Acquire, Goto, Typed, TypeOK, CallOK, Rented, handleVars
    <2> QED BY <1>1, <2>1, QueueFrame DEF Acquire, Goto, Typed, TypeOK, poolVars, Rentals, Packs
  <1>2. ASSUME NEW t \in Threads, NEW w \in Weaks, NEW h \in Lockeds, LockLive(t, w, h)
        PROVE QueueOK'
    <2>1. \A r \in Rentals : Rented(r)' => Rented(r)
      BY <1>2, Names DEF LockLive, Empty, Rented, HandlesOK, Nothing, Typed, TypeOK
    <2> QED BY <1>2, <2>1, QueueFrame DEF LockLive, poolVars, Rentals, Packs
  <1>3. ASSUME NEW t \in Threads, NEW w \in Weaks, NEW h \in Lockeds, LockExpired(t, w, h)
        PROVE QueueOK'
    <2>1. \A r \in Rentals : Rented(r)' => Rented(r)
      BY <1>3 DEF LockExpired, Goto, Typed, TypeOK, CallOK, Rented, handleVars
    <2> QED BY <1>3, <2>1, QueueFrame DEF LockExpired, Goto, Typed, TypeOK, poolVars, Rentals, Packs
  <1>4. ASSUME NEW t \in Threads, NEW h \in Lockeds, NEW g \in Lockeds, Clone(t, h, g)
        PROVE QueueOK'
    <2>1. \A r \in Rentals : Rented(r)' => Rented(r)
      BY <1>4, Names DEF Clone, Empty, Full, Rented, HandlesOK, Nothing, Typed, TypeOK
    <2> QED BY <1>4, <2>1, QueueFrame DEF Clone, poolVars, Rentals, Packs
  <1>5. ASSUME NEW t \in Threads, NEW w \in Weaks, NEW h \in Lockeds, AssignWeak(t, w, h)
        PROVE QueueOK'
    <2>1. \A r \in Rentals : Rented(r)' => Rented(r)
      BY <1>5 DEF AssignWeak, Goto, Typed, TypeOK, CallOK, Rented
    <2> QED BY <1>5, <2>1, QueueFrame DEF AssignWeak, Goto, Typed, TypeOK, poolVars, Rentals, Packs
  <1>6. ASSUME NEW t \in Threads, NEW w \in Weaks, DropWeak(t, w) PROVE QueueOK'
    <2>1. \A r \in Rentals : Rented(r)' => Rented(r)
      BY <1>6 DEF DropWeak, Goto, Typed, TypeOK, CallOK, Rented
    <2> QED BY <1>6, <2>1, QueueFrame DEF DropWeak, Goto, Typed, TypeOK, poolVars, Rentals, Packs
  <1>7. ASSUME NEW t \in Threads, NEW h \in Lockeds, DropLocked(t, h) PROVE QueueOK'
    <2>1. /\ pc[t] = "idle" /\ pc'[t] \in {"on_release", "return"}
          /\ \A u \in Threads : u # t => pc'[u] = pc[u] /\ pack'[u] = pack[u]
          /\ UNCHANGED <<freeResources, inFreeList>>
          /\ locked[h].rsource # None
          /\ locked'[h].rsource = None /\ \A g \in Lockeds : g # h => locked'[g] = locked[g]
          /\ pc'[t] = "on_release" => pack'[t] = locked[h].rsource
      BY <1>7 DEF DropLocked, Full, Goto, Typed, TypeOK, Nothing, poolVars
    <2>2. \A r \in Rentals : Rented(r)' => Rented(r)
      BY <2>1, Names DEF Rented
    <2> QED BY <2>1, <2>2, QueueFrame DEF Rentals, Packs
  <1>8. ASSUME NEW t \in Threads, CheckMaxIndex(t) PROVE QueueOK'
    <2>1. \A r \in Rentals : Rented(r)' => Rented(r)
      BY <1>8 DEF CheckMaxIndex, Goto, Typed, TypeOK, CallOK, Rented, handleVars
    <2> QED BY <1>8, <2>1, QueueFrame
            DEF CheckMaxIndex, Goto, Typed, TypeOK, poolVars, Rentals, Packs
  <1>9. ASSUME NEW t \in Threads, CheckRecycled(t) PROVE QueueOK'
    <2>1. \A r \in Rentals : Rented(r)' => Rented(r)
      BY <1>9 DEF CheckRecycled, Goto, Typed, TypeOK, CallOK, Rented, handleVars
    <2> QED BY <1>9, <2>1, QueueFrame
            DEF CheckRecycled, Goto, Typed, TypeOK, poolVars, Rentals, Packs
  <1>10. ASSUME NEW t \in Threads, ChooseIndex(t) PROVE QueueOK'
    <2>1. \A r \in Rentals : Rented(r)' => Rented(r)
      BY <1>10 DEF ChooseIndex, Goto, Typed, TypeOK, CallOK, Rented, handleVars
    <2> QED BY <1>10, <2>1, QueueFrame
            DEF ChooseIndex, Goto, Typed, TypeOK, poolVars, Rentals, Packs
  <1>11. ASSUME NEW t \in Threads, PopIndex(t) PROVE QueueOK'
    <2>1. \A r \in Rentals : Rented(r)' => Rented(r)
      BY <1>11 DEF PopIndex, Goto, Typed, TypeOK, CallOK, Rented, handleVars
    <2> QED BY <1>11, <2>1, QueueFrame DEF PopIndex, Goto, Typed, TypeOK, Rentals, Packs
  <1>12. ASSUME NEW t \in Threads, FetchIndex(t) PROVE QueueOK'
    <2>1. \A r \in Rentals : Rented(r)' => Rented(r)
      BY <1>12 DEF FetchIndex, Goto, Typed, TypeOK, CallOK, Rented, handleVars, Wins
    <2> QED BY <1>12, <2>1, QueueFrame DEF FetchIndex, Goto, Typed, TypeOK, Rentals, Packs, Wins
  <1>13. ASSUME NEW t \in Threads, BorrowPreferred(t) PROVE QueueOK'
    <2>1. pc[t] \in Acquiring /\ pref[t] \in Preferred /\ pref[t] \in Rentals
      BY <1>13 DEF BorrowPreferred, Acquiring, Typed, TypeOK, CallOK, Packs, Rentals
    <2>2. \A s \in Spares : Rented(s)' => Rented(s)
      BY <1>13, <2>1, Names, DeliverRents DEF BorrowPreferred, Rentals, Packs
    <2> QED BY <1>13, <2>2, QueueFrame DEF BorrowPreferred, Deliver, Goto, Typed, TypeOK
  <1>14. ASSUME NEW t \in Threads, PreferredIsOut(t) PROVE QueueOK'
    <2>1. \A r \in Rentals : Rented(r)' => Rented(r)
      BY <1>14 DEF PreferredIsOut, Goto, Typed, TypeOK, CallOK, Rented, handleVars
    <2> QED BY <1>14, <2>1, QueueFrame
            DEF PreferredIsOut, Goto, Typed, TypeOK, poolVars, Rentals, Packs
  <1>15. ASSUME NEW t \in Threads, Dequeue(t) PROVE QueueOK'
    <2>1. \A r \in Rentals : Rented(r)' => Rented(r)
      BY <1>15 DEF Dequeue, Goto, Typed, TypeOK, CallOK, Rented, handleVars
    <2> QED BY <1>15, <2>1, QueueFrame DEF Dequeue, Goto, Typed, TypeOK, Rentals, Packs
  <1>16. ASSUME NEW t \in Threads, DequeueFails(t) PROVE QueueOK'
    <2>1. \A r \in Rentals : Rented(r)' => Rented(r)
      BY <1>16 DEF DequeueFails, Goto, Typed, TypeOK, CallOK, Rented, handleVars
    <2> QED BY <1>16, <2>1, QueueFrame
            DEF DequeueFails, Goto, Typed, TypeOK, poolVars, Rentals, Packs
  <1>17. ASSUME NEW t \in Threads, Take(t) PROVE QueueOK'
    <2>1. PICK p \in Packs : /\ freeResources[p] > 0
                            /\ freeResources' = [freeResources EXCEPT ![p] = @ - 1]
                            /\ pack' = [pack EXCEPT ![t] = p]
      BY <1>17 DEF Take
    <2>2. /\ freeResources[p] = 1 /\ freeResources'[p] = 0
          /\ \A q \in Packs : q # p => freeResources'[q] = freeResources[q]
      BY <2>1 DEF QueueOK, ListedOnce, Typed, TypeOK
    <2>3. /\ pc[t] = "take" /\ pc'[t] = "unlist" /\ pack'[t] = p
          /\ \A u \in Threads : u # t => pc'[u] = pc[u] /\ pack'[u] = pack[u]
          /\ UNCHANGED <<locked, inFreeList>>
      BY <1>17, <2>1 DEF Take, Goto, Typed, TypeOK, handleVars
    <2>4. \A u \in Threads : \A q :
            /\ Token(u, q)' <=> Token(u, q) \/ (u = t /\ q = p)
            /\ Popped(u, q)' <=> Popped(u, q) \/ (u = t /\ q = p)
            /\ Queueing(u, q)' <=> Queueing(u, q)
      BY <2>3 DEF Token, Popped, Queueing
    <2>5. \A q \in Packs : freeResources[q] \in Nat BY DEF Typed, TypeOK
    <2>6. ListedOnce' BY <2>1, <2>2, <2>3, <2>4, <2>5 DEF QueueOK, ListedOnce
    <2>7. \A r \in Rentals : Rented(r)' <=> Rented(r) BY <2>3 DEF Rented
    <2>8. SparesOnce' BY <2>1, <2>2, <2>4, <2>7 DEF QueueOK, SparesOnce, Packs, Rentals
    <2> QED BY <2>6, <2>8 DEF QueueOK
  <1>18. ASSUME NEW t \in Threads, RemoveFromFreeList(t) PROVE QueueOK'
    <2> DEFINE p == pack[t]
    <2>1. /\ pc[t] = "unlist" /\ pc'[t] = "borrow" /\ p \in Packs
          /\ inFreeList' = inFreeList \ {p}
          /\ \A u \in Threads : u # t => pc'[u] = pc[u]
          /\ UNCHANGED <<locked, pack, freeResources>>
      BY <1>18 DEF RemoveFromFreeList, Goto, Typed, TypeOK, CallOK, handleVars
    <2>2. \A u \in Threads : \A q :
            /\ Token(u, q)' <=> Token(u, q)
            /\ Popped(u, q)' <=> Popped(u, q) /\ u # t
            /\ Queueing(u, q)' <=> Queueing(u, q)
      BY <2>1 DEF Token, Popped, Queueing
    <2>3. Popped(t, p) BY <2>1 DEF Popped
    <2>4. \A q : Popped(t, q) => q = p BY DEF Popped
    <2>5. ListedOnce'
      <3> SUFFICES ASSUME NEW q \in Packs
                   PROVE  (/\ freeResources[q] <= 1
                           /\ \A u \in Threads : Popped(u, q) \/ Queueing(u, q) =>
                                /\ freeResources[q] = 0
                                /\ \A v \in Threads \ {u} : ~Popped(v, q) /\ ~Queueing(v, q)
                           /\ q \in Preferred =>
                                (q \in inFreeList <=>
                                    \/ freeResources[q] = 1
                                    \/ \E u \in Threads : Popped(u, q) \/ Queueing(u, q)))'
        BY DEF ListedOnce
      <3>1. CASE q = p BY <2>1, <2>2, <2>3, <3>1 DEF QueueOK, ListedOnce, Queueing
      <3>2. CASE q # p BY <2>1, <2>2, <2>4, <3>2 DEF QueueOK, ListedOnce
      <3> QED BY <3>1, <3>2
    <2>6. \A r \in Rentals : Rented(r)' <=> Rented(r) BY <2>1 DEF Rented
    <2>7. SparesOnce' BY <2>1, <2>2, <2>6 DEF QueueOK, SparesOnce, Rentals, Packs
    <2> QED BY <2>5, <2>7 DEF QueueOK
  <1>19. ASSUME NEW t \in Threads, BorrowCandidate(t) PROVE QueueOK'
    <2>1. pc[t] \in Acquiring /\ pack[t] \in Rentals /\ pc[t] = "borrow" /\ UNCHANGED pack
      BY <1>19 DEF BorrowCandidate, Acquiring, Typed, CallOK, Rentals
    <2>2. \A s \in Spares : Rented(s)' => Rented(s) \/ s = pack[t]
      BY <1>19, <2>1, DeliverRents DEF BorrowCandidate, Rentals, Packs
    <2> QED BY <1>19, <2>1, <2>2, TokenGone DEF BorrowCandidate, Deliver, Goto, Typed, TypeOK
  <1>20. ASSUME NEW t \in Threads, CandidateIsOut(t) PROVE QueueOK'
    <2>1. \A r \in Rentals : Rented(r)' => Rented(r)
      BY <1>20 DEF CandidateIsOut, Goto, Typed, TypeOK, Rented, handleVars
    <2> QED BY <1>20, <2>1, TokenGone
            DEF CandidateIsOut, Goto, Typed, TypeOK, poolVars, Rentals, Packs
  <1>21. ASSUME NEW t \in Threads, Overdraw(t) PROVE QueueOK'
    <2>1. PICK o \in Overdrawns : Deliver(t, None, o) BY <1>21 DEF Overdraw
    <2>2. pc[t] \in Acquiring /\ o \in Rentals /\ UNCHANGED <<pack, freeResources, inFreeList>>
      BY <1>21 DEF Overdraw, Acquiring, Rentals, poolVars
    <2>3. \A s \in Spares : Rented(s)' => Rented(s)
      BY <2>1, <2>2, Names, DeliverRents DEF Rentals, Packs
    <2>4. \A u \in Threads : \/ pc'[u] = pc[u] /\ pack'[u] = pack[u]
                             \/ {pc[u], pc'[u]} \cap {"unlist", "borrow", "enqueue"} = {}
      BY <1>21, <2>1, <2>2 DEF Overdraw, Deliver, Goto, Typed, TypeOK
    <2> QED BY <2>2, <2>3, <2>4, QueueFrame
  <1>22. ASSUME NEW t \in Threads, BuilderThrows(t) PROVE QueueOK'
    <2>1. \A r \in Rentals : Rented(r)' => Rented(r)
      BY <1>22 DEF BuilderThrows, Goto, Typed, TypeOK, Rented, handleVars
    <2>2. /\ pc[t] \in {"with_preference", "borrow", "overdraw"} /\ pc'[t] = "return"
          /\ \A u \in Threads : u # t => pc'[u] = pc[u]
          /\ UNCHANGED <<pack, freeResources, inFreeList>>
      BY <1>22 DEF BuilderThrows, Goto, Typed, TypeOK, poolVars
    <2>3. CASE pc[t] = "borrow" BY <2>1, <2>2, <2>3, TokenGone DEF Rentals, Packs
    <2>4. CASE pc[t] # "borrow" BY <2>1, <2>2, <2>4, QueueFrame DEF Rentals, Packs
    <2> QED BY <2>3, <2>4
  <1>23. ASSUME NEW t \in Threads, OnRelease(t) PROVE QueueOK'
    <2>1. \A q \in Packs : Rented(q)' => Rented(q)
      BY <1>23 DEF OnRelease, Goto, Typed, TypeOK, Rented, handleVars
    <2> QED BY <1>23, <2>1, QueueFrame DEF OnRelease, Goto, Typed, TypeOK, Packs
  <1>24. ASSUME NEW t \in Threads, GiveBack(t) PROVE QueueOK'
    <2> DEFINE p == pack[t]
    <2>1. /\ pc[t] = "give_back" /\ p \in Packs
          /\ inFreeList' = inFreeList \cup ({p} \cap Preferred)
          /\ pc'[t] = IF p \notin inFreeList THEN "enqueue" ELSE "return"
          /\ \A u \in Threads : u # t => pc'[u] = pc[u]
          /\ UNCHANGED <<locked, pack, freeResources>>
      BY <1>24 DEF GiveBack, NeedsEntry, Goto, Typed, TypeOK, CallOK, handleVars
    <2>2. Rented(p) BY <2>1 DEF Rented
    <2>3. \A q \in Packs : Rented(q)' => Rented(q) BY <2>1 DEF Rented
    <2>4. CASE p \in inFreeList
      <3>1. inFreeList' = inFreeList BY <2>1, <2>4
      <3> QED BY <2>1, <2>3, <2>4, <3>1, QueueFrame DEF Packs
    <2>5. CASE p \notin inFreeList
      <3>1. \A u \in Threads : \A q :
              /\ Token(u, q)' <=> Token(u, q) \/ (u = t /\ q = p)
              /\ Popped(u, q)' <=> Popped(u, q)
              /\ Queueing(u, q)' <=> Queueing(u, q) \/ (u = t /\ q = p)
        BY <2>1, <2>5 DEF Token, Popped, Queueing
      <3>2. freeResources[p] \in Nat /\ freeResources[p] <= 1
        BY <2>1 DEF QueueOK, ListedOnce, Typed, TypeOK
      <3>3. /\ freeResources[p] = 0
            /\ \A u \in Threads : ~Popped(u, p) /\ ~Queueing(u, p)
        <4>1. CASE p \in Preferred BY <2>1, <2>5, <3>2, <4>1 DEF QueueOK, ListedOnce
        <4>2. CASE p \in Spares BY <2>2, <4>2 DEF QueueOK, SparesOnce, Token, Popped, Queueing
        <4> QED BY <2>1, <4>1, <4>2 DEF Packs
      <3>4. ListedOnce' BY <2>1, <3>1, <3>3 DEF QueueOK, ListedOnce
      <3>5. ~Rented(p)'
        BY <2>1, <2>5 DEF RentalsOK, ExclusiveRental, Rented, Holder, Destroying
      <3>6. SparesOnce' BY <2>1, <2>2, <2>3, <3>1, <3>5 DEF QueueOK, SparesOnce, Packs
      <3> QED BY <3>4, <3>6 DEF QueueOK
    <2> QED BY <2>4, <2>5
  <1>25. ASSUME NEW t \in Threads, Enqueue(t) PROVE QueueOK'
    <2> DEFINE p == pack[t]
    <2>1. /\ pc[t] = "enqueue" /\ pc'[t] = "signal" /\ p \in Packs
          /\ freeResources'[p] = freeResources[p] + 1
          /\ \A q \in Packs : q # p => freeResources'[q] = freeResources[q]
          /\ \A u \in Threads : u # t => pc'[u] = pc[u]
          /\ UNCHANGED <<locked, pack, inFreeList>>
      BY <1>25 DEF Enqueue, Goto, Typed, TypeOK, CallOK, handleVars
    <2>2. \A u \in Threads : \A q :
            /\ Token(u, q)' <=> Token(u, q) /\ u # t
            /\ Popped(u, q)' <=> Popped(u, q)
            /\ Queueing(u, q)' <=> Queueing(u, q) /\ u # t
      BY <2>1 DEF Token, Popped, Queueing
    <2>3. Queueing(t, p) /\ Token(t, p) BY <2>1 DEF Queueing, Token
    <2>4. \A q : Queueing(t, q) => q = p BY DEF Queueing
    <2>5. freeResources[p] = 0 /\ freeResources'[p] = 1 BY <2>1, <2>3 DEF QueueOK, ListedOnce
    <2>6. ListedOnce'
      <3> SUFFICES ASSUME NEW q \in Packs
                   PROVE  (/\ freeResources[q] <= 1
                           /\ \A u \in Threads : Popped(u, q) \/ Queueing(u, q) =>
                                /\ freeResources[q] = 0
                                /\ \A v \in Threads \ {u} : ~Popped(v, q) /\ ~Queueing(v, q)
                           /\ q \in Preferred =>
                                (q \in inFreeList <=>
                                    \/ freeResources[q] = 1
                                    \/ \E u \in Threads : Popped(u, q) \/ Queueing(u, q)))'
        BY DEF ListedOnce
      <3>1. CASE q = p BY <2>1, <2>2, <2>3, <2>5, <3>1 DEF QueueOK, ListedOnce, Popped, Queueing
      <3>2. CASE q # p BY <2>1, <2>2, <2>4, <3>2 DEF QueueOK, ListedOnce, Popped
      <3> QED BY <3>1, <3>2
    <2>7. \A r \in Rentals : Rented(r)' <=> Rented(r) BY <2>1 DEF Rented
    <2>8. SparesOnce' BY <2>1, <2>2, <2>3, <2>7 DEF QueueOK, SparesOnce, Token, Rentals, Packs
    <2> QED BY <2>6, <2>8 DEF QueueOK
  <1>26. ASSUME NEW t \in Threads, Signal(t) PROVE QueueOK'
    <2>1. \A r \in Rentals : Rented(r)' => Rented(r)
      BY <1>26 DEF Signal, Goto, Typed, TypeOK, CallOK, Rented, handleVars
    <2> QED BY <1>26, <2>1, QueueFrame DEF Signal, Goto, Typed, TypeOK, Rentals, Packs
  <1>27. ASSUME NEW t \in Threads, Return(t) PROVE QueueOK'
    <2>1. \A r \in Rentals : Rented(r)' => Rented(r)
      BY <1>27 DEF Return, Goto, Typed, TypeOK, CallOK, Rented, handleVars
    <2> QED BY <1>27, <2>1, QueueFrame DEF Return, Goto, Typed, TypeOK, poolVars, Rentals, Packs
  <1>28. ASSUME NEW t \in Threads, Recycle(t) PROVE QueueOK'
    <2>1. \A r \in Rentals : Rented(r)' => Rented(r)
      BY <1>28 DEF Recycle, Goto, Typed, TypeOK, CallOK, Rented, handleVars
    <2> QED BY <1>28, <2>1, QueueFrame DEF Recycle, Goto, Typed, TypeOK, Rentals, Packs
  <1>29. CASE UNCHANGED vars
    BY <1>29, QueueFrame DEF Rented, vars, poolVars, handleVars
  <1> QED
    BY <1>1, <1>2, <1>3, <1>4, <1>5, <1>6, <1>7, <1>8, <1>9, <1>10, <1>11, <1>12, <1>13, <1>14,
       <1>15, <1>16, <1>17, <1>18, <1>19, <1>20, <1>21, <1>22, <1>23, <1>24, <1>25, <1>26, <1>27,
       <1>28, <1>29
    DEF Next, Call, NewCall, Step, FindIndex, Borrow, Destroy

\* A step that makes no T come home and takes no entry or token of a T at home.
LEMMA StrandedFrame ==
  ASSUME NoResourceStranded, resource' \subseteq resource, UNCHANGED freeResources,
         \A u \in Threads : \A p \in resource' : Token(u, p) => Token(u, p)'
  PROVE  NoResourceStranded'
PROOF
  <1>1. \A p \in resource' : freeResources'[p] > 0 \/ \E u \in Threads : Token(u, p)'
    BY DEF NoResourceStranded, Token, Queueing
  <1> QED BY <1>1 DEF NoResourceStranded, Token, Queueing

\* No step strands a resource.
LEMMA StrandedStep ==
  Typed /\ RentalsOK /\ QueueOK /\ NoResourceStranded /\ [Next]_vars => NoResourceStranded'
PROOF
  <1> SUFFICES ASSUME Typed, RentalsOK, QueueOK, NoResourceStranded, [Next]_vars
               PROVE NoResourceStranded'
    OBVIOUS
  <1>1. ASSUME NEW t \in Threads, NEW h \in Lockeds, Acquire(t, h) PROVE NoResourceStranded'
    BY <1>1, StrandedFrame DEF Acquire, Token, Goto, Typed, TypeOK, CallOK, poolVars, handleVars
  <1>2. ASSUME NEW t \in Threads, NEW w \in Weaks, NEW h \in Lockeds, LockLive(t, w, h)
        PROVE NoResourceStranded'
    BY <1>2, StrandedFrame DEF LockLive, Token, Typed, TypeOK, CallOK, poolVars
  <1>3. ASSUME NEW t \in Threads, NEW w \in Weaks, NEW h \in Lockeds, LockExpired(t, w, h)
        PROVE NoResourceStranded'
    BY <1>3, StrandedFrame DEF LockExpired, Token, Goto, Typed, TypeOK, CallOK, poolVars, handleVars
  <1>4. ASSUME NEW t \in Threads, NEW h \in Lockeds, NEW g \in Lockeds, Clone(t, h, g)
        PROVE NoResourceStranded'
    BY <1>4, StrandedFrame DEF Clone, Token, Typed, TypeOK, CallOK, poolVars
  <1>5. ASSUME NEW t \in Threads, NEW w \in Weaks, NEW h \in Lockeds, AssignWeak(t, w, h)
        PROVE NoResourceStranded'
    BY <1>5, StrandedFrame DEF AssignWeak, Token, Goto, Typed, TypeOK, CallOK, poolVars
  <1>6. ASSUME NEW t \in Threads, NEW w \in Weaks, DropWeak(t, w) PROVE NoResourceStranded'
    BY <1>6, StrandedFrame DEF DropWeak, Token, Goto, Typed, TypeOK, CallOK, poolVars
  <1>7. ASSUME NEW t \in Threads, NEW h \in Lockeds, DropLocked(t, h) PROVE NoResourceStranded'
    BY <1>7, StrandedFrame DEF DropLocked, Token, Goto, Typed, TypeOK, CallOK, poolVars
  <1>8. ASSUME NEW t \in Threads, CheckMaxIndex(t) PROVE NoResourceStranded'
    BY <1>8, StrandedFrame
    DEF CheckMaxIndex, Token, Goto, Typed, TypeOK, CallOK, poolVars, handleVars
  <1>9. ASSUME NEW t \in Threads, CheckRecycled(t) PROVE NoResourceStranded'
    BY <1>9, StrandedFrame
    DEF CheckRecycled, Token, Goto, Typed, TypeOK, CallOK, poolVars, handleVars
  <1>10. ASSUME NEW t \in Threads, ChooseIndex(t) PROVE NoResourceStranded'
    BY <1>10, StrandedFrame
    DEF ChooseIndex, Token, Goto, Typed, TypeOK, CallOK, poolVars, handleVars
  <1>11. ASSUME NEW t \in Threads, PopIndex(t) PROVE NoResourceStranded'
    BY <1>11, StrandedFrame DEF PopIndex, Token, Goto, Typed, TypeOK, CallOK, handleVars
  <1>12. ASSUME NEW t \in Threads, FetchIndex(t) PROVE NoResourceStranded'
    BY <1>12, StrandedFrame DEF FetchIndex, Token, Goto, Typed, TypeOK, CallOK, handleVars, Wins
  <1>13. ASSUME NEW t \in Threads, BorrowPreferred(t) PROVE NoResourceStranded'
    BY <1>13, StrandedFrame
    DEF BorrowPreferred, Token, Goto, Typed, TypeOK, CallOK, TakeOut, Deliver
  <1>14. ASSUME NEW t \in Threads, PreferredIsOut(t) PROVE NoResourceStranded'
    BY <1>14, StrandedFrame
    DEF PreferredIsOut, Token, Goto, Typed, TypeOK, CallOK, poolVars, handleVars
  <1>15. ASSUME NEW t \in Threads, Dequeue(t) PROVE NoResourceStranded'
    BY <1>15, StrandedFrame DEF Dequeue, Token, Goto, Typed, TypeOK, CallOK, handleVars
  <1>16. ASSUME NEW t \in Threads, DequeueFails(t) PROVE NoResourceStranded'
    BY <1>16, StrandedFrame
    DEF DequeueFails, Token, Goto, Typed, TypeOK, CallOK, poolVars, handleVars
  <1>17. ASSUME NEW t \in Threads, Take(t) PROVE NoResourceStranded'
    <2>1. PICK p \in Packs : /\ freeResources' = [freeResources EXCEPT ![p] = @ - 1]
                            /\ pack' = [pack EXCEPT ![t] = p]
      BY <1>17 DEF Take
    <2>2. /\ pc[t] = "take" /\ pc'[t] = "unlist" /\ pack'[t] = p /\ UNCHANGED resource
          /\ \A u \in Threads : u # t => pc'[u] = pc[u] /\ pack'[u] = pack[u]
      BY <1>17, <2>1 DEF Take, Goto, Typed, TypeOK
    <2>3. ASSUME NEW q \in resource
           PROVE  (\/ freeResources[q] > 0
                   \/ \E u \in Threads :
                        Queueing(u, q) \/ (pc[u] \in {"unlist", "borrow"} /\ pack[u] = q))'
      <3>1. CASE q = p BY <2>2, <3>1
      <3>2. CASE q # p
        <4>1. freeResources'[q] = freeResources[q] BY <2>1, <3>2 DEF Typed, TypeOK
        <4> QED BY <2>2, <4>1 DEF NoResourceStranded, Queueing
      <3> QED BY <3>1, <3>2
    <2> QED BY <2>2, <2>3 DEF NoResourceStranded
  <1>18. ASSUME NEW t \in Threads, RemoveFromFreeList(t) PROVE NoResourceStranded'
    BY <1>18, StrandedFrame DEF RemoveFromFreeList, Token, Goto, Typed, TypeOK, CallOK, handleVars
  <1>19. ASSUME NEW t \in Threads, BorrowCandidate(t) PROVE NoResourceStranded'
    <2>1. /\ resource' = resource \ {pack[t]}
          /\ \A u \in Threads : u # t => pc'[u] = pc[u]
          /\ UNCHANGED <<pack, freeResources>>
      BY <1>19 DEF BorrowCandidate, TakeOut, Deliver, Goto, Typed, TypeOK
    <2>2. \A p \in resource' : ~Token(t, p) BY <2>1 DEF Token
    <2> QED BY <2>1, <2>2, StrandedFrame DEF Token
  <1>20. ASSUME NEW t \in Threads, CandidateIsOut(t) PROVE NoResourceStranded'
    <2>1. /\ pc'[t] = "dequeue" /\ pc[t] = "borrow" /\ pack[t] \notin resource
          /\ \A u \in Threads : u # t => pc'[u] = pc[u] /\ pack'[u] = pack[u]
          /\ UNCHANGED <<resource, freeResources>>
      BY <1>20 DEF CandidateIsOut, IsOut, Goto, Typed, TypeOK, poolVars
    <2>2. \A p \in resource : ~Token(t, p) BY <2>1 DEF Token
    <2> QED BY <2>1, <2>2, StrandedFrame DEF Token
  <1>21. ASSUME NEW t \in Threads, Overdraw(t) PROVE NoResourceStranded'
    BY <1>21, StrandedFrame DEF Overdraw, Token, Goto, Typed, TypeOK, CallOK, poolVars, Deliver
  <1>22. ASSUME NEW t \in Threads, BuilderThrows(t) PROVE NoResourceStranded'
    <2>1. /\ pc'[t] = "return" /\ pc[t] \in {"with_preference", "borrow", "overdraw"}
          /\ \A u \in Threads : u # t => pc'[u] = pc[u]
          /\ UNCHANGED <<resource, freeResources, pack>>
          /\ pc[t] = "borrow" => pack[t] \notin initialized
      BY <1>22 DEF BuilderThrows, Goto, Typed, TypeOK, poolVars
    <2>2. \A p \in resource : ~Token(t, p) BY <2>1 DEF Token, RentalsOK
    <2> QED BY <2>1, <2>2, StrandedFrame DEF Token
  <1>23. ASSUME NEW t \in Threads, OnRelease(t) PROVE NoResourceStranded'
    BY <1>23, StrandedFrame DEF OnRelease, Token, Goto, Typed, TypeOK, CallOK, handleVars
  <1>24. ASSUME NEW t \in Threads, GiveBack(t) PROVE NoResourceStranded'
    <2> DEFINE p == pack[t]
    <2>1. /\ pc[t] = "give_back" /\ p \in Packs
          /\ resource' = resource \cup {p}
          /\ pc'[t] = IF p \notin inFreeList THEN "enqueue" ELSE "return"
          /\ \A u \in Threads : u # t => pc'[u] = pc[u]
          /\ UNCHANGED <<pack, freeResources>>
      BY <1>24 DEF GiveBack, NeedsEntry, Goto, Typed, TypeOK, CallOK
    <2>2. \A u \in Threads : \A q : Token(u, q) => Token(u, q)' BY <2>1 DEF Token
    <2>3. freeResources[p] > 0 \/ \E u \in Threads : Token(u, p)'
      <3>1. CASE p \notin inFreeList BY <2>1, <3>1 DEF Token
      <3>2. CASE p \in inFreeList
        <4>1. p \in Preferred BY <3>2 DEF Typed, TypeOK
        <4>2. freeResources[p] = 1 \/ \E u \in Threads : Popped(u, p) \/ Queueing(u, p)
          BY <2>1, <3>2, <4>1 DEF QueueOK, ListedOnce
        <4>3. \A u \in Threads : Popped(u, p) \/ Queueing(u, p) => Token(u, p)
          BY DEF Popped, Queueing, Token
        <4> QED BY <2>1, <2>2, <4>2, <4>3 DEF Token
      <3> QED BY <3>1, <3>2
    <2>4. \A q \in resource' : freeResources'[q] > 0 \/ \E u \in Threads : Token(u, q)'
      BY <2>1, <2>2, <2>3 DEF NoResourceStranded, Token, Queueing
    <2> QED BY <2>4 DEF NoResourceStranded, Token, Queueing
  <1>25. ASSUME NEW t \in Threads, Enqueue(t) PROVE NoResourceStranded'
    <2> DEFINE p == pack[t]
    <2>1. /\ pc[t] = "enqueue" /\ p \in Packs
          /\ freeResources'[p] = freeResources[p] + 1
          /\ \A q \in Packs : q # p => freeResources'[q] = freeResources[q]
          /\ \A u \in Threads : u # t => pc'[u] = pc[u]
          /\ UNCHANGED <<pack, resource>>
      BY <1>25 DEF Enqueue, Goto, Typed, TypeOK, CallOK
    <2>2. \A q \in Packs : freeResources[q] \in Nat BY DEF Typed, TypeOK
    <2>3. \A q \in resource : q \in Packs BY DEF Typed, TypeOK
    <2>4. \A q \in resource : freeResources'[q] > 0 \/ \E u \in Threads : Token(u, q)'
      BY <2>1, <2>2, <2>3 DEF NoResourceStranded, Token, Queueing
    <2> QED BY <2>1, <2>4 DEF NoResourceStranded, Token, Queueing
  <1>26. ASSUME NEW t \in Threads, Signal(t) PROVE NoResourceStranded'
    BY <1>26, StrandedFrame DEF Signal, Token, Goto, Typed, TypeOK, CallOK, handleVars
  <1>27. ASSUME NEW t \in Threads, Return(t) PROVE NoResourceStranded'
    BY <1>27, StrandedFrame DEF Return, Token, Goto, Typed, TypeOK, CallOK, poolVars, handleVars
  <1>28. ASSUME NEW t \in Threads, Recycle(t) PROVE NoResourceStranded'
    BY <1>28, StrandedFrame DEF Recycle, Token, Goto, Typed, TypeOK, CallOK, handleVars
  <1>29. CASE UNCHANGED vars
    BY <1>29, StrandedFrame DEF Token, vars, poolVars
  <1> QED
    BY <1>1, <1>2, <1>3, <1>4, <1>5, <1>6, <1>7, <1>8, <1>9, <1>10, <1>11, <1>12, <1>13, <1>14,
       <1>15, <1>16, <1>17, <1>18, <1>19, <1>20, <1>21, <1>22, <1>23, <1>24, <1>25, <1>26, <1>27,
       <1>28, <1>29
    DEF Next, Call, NewCall, Step, FindIndex, Borrow, Destroy

-----------------------------------------------------------------------------
(* The invariant and the theorems.                                         *)

\* The inductive invariant.
IInv ==
  /\ Typed /\ HandlesOK
  /\ IndexConserved
  /\ RentalsOK
  /\ QueueOK
  /\ NoResourceStranded

\* The state the constructor leaves satisfies the invariant.
LEMMA InitIInv == Init => IInv
PROOF
  <1> SUFFICES ASSUME Init PROVE IInv OBVIOUS
  <1>1. Typed BY TypedInit
  <1>2. HandlesOK BY DEF Init, HandlesOK, Nothing, Acquiring, Searching
  <1>3. IndexConserved
    BY Names, SizeAssumption DEF Init, IndexConserved, IndexOwned, Nothing, Preferred
  <1>4. \A r \in Rentals : ~Rented(r) BY Names DEF Init, Rented, Nothing
  <1>5. RentalsOK
    BY <1>4, Names
    DEF Init, RentalsOK, ExclusiveRental, CallbacksAlternate, Destroying, Holder, IsOut, Nothing,
        Rentals, Packs
  <1>6. ListedOnce
    BY Names DEF Init, ListedOnce, Popped, Queueing
  <1>7. SparesOnce
    BY <1>4 DEF Init, SparesOnce, Token, Rentals, Packs
  <1>8. NoResourceStranded BY DEF Init, NoResourceStranded
  <1> QED BY <1>1, <1>2, <1>3, <1>5, <1>6, <1>7, <1>8 DEF IInv, QueueOK

\* IInv is an invariant of the specification.
THEOREM Invariance == Spec => []IInv
PROOF
  <1>1. IInv /\ [Next]_vars => IInv'
    BY TypedStep, HandlesStep, IndexStep, RentalStep, QueueStep, StrandedStep DEF IInv
  <1> QED BY <1>1, InitIInv, PTL DEF Spec

\* Every variable of the pool keeps its type, whatever the clients do.
THEOREM TypeCorrect == Spec => []TypeOK
PROOF
  <1>1. IInv => TypeOK BY DEF IInv, Typed
  <1> QED BY <1>1, Invariance, PTL

\* No T is ever in two rentals, or in a rental and in its pack.
THEOREM RentalsExclusive == Spec => []ExclusiveRental
PROOF
  <1>1. IInv => ExclusiveRental BY DEF IInv, RentalsOK
  <1> QED BY <1>1, Invariance, PTL

\* onAcquire and onRelease of a T alternate.
THEOREM Callbacks == Spec => []CallbacksAlternate
PROOF
  <1>1. IInv => CallbacksAlternate BY DEF IInv, RentalsOK
  <1> QED BY <1>1, Invariance, PTL

\* in_free_list tells the truth although it is cleared without the mutex.
THEOREM FreeListExact == Spec => []ListedOnce
PROOF
  <1>1. IInv => ListedOnce BY DEF IInv, QueueOK
  <1> QED BY <1>1, Invariance, PTL

\* A resource at home can always be found through the queue or a thread that has it.
THEOREM NothingStranded == Spec => []NoResourceStranded
PROOF
  <1>1. IInv => NoResourceStranded BY DEF IInv
  <1> QED BY <1>1, Invariance, PTL

\* Indices are neither lost nor granted twice, and ~index_owner runs once for each.
THEOREM IndicesConserved == Spec => []IndexConserved
PROOF
  <1>1. IInv => IndexConserved BY DEF IInv
  <1> QED BY <1>1, Invariance, PTL

\* The assertions of borrow in impl_resource_pack.hpp and impl_spare_resource.hpp hold.
THEOREM AssertionsHold == Spec => []BorrowAssertions
PROOF
  <1>1. IInv => BorrowAssertions
    <2> SUFFICES ASSUME IInv, NEW t \in Threads
                 PROVE  /\ pc[t] = "with_preference" /\ IsOut(pref[t]) => pref[t] \in whoOwnsMe
                        /\ pc[t] = "borrow" /\ IsOut(pack[t]) => pack[t] \in whoOwnsMe
      BY DEF BorrowAssertions
    <2>1. ASSUME pc[t] = "with_preference", IsOut(pref[t]) PROVE pref[t] \in whoOwnsMe
      BY <2>1 DEF IInv, Typed, CallOK, RentalsOK, ExclusiveRental, Packs
    <2>2. ASSUME pc[t] = "borrow", IsOut(pack[t]) PROVE pack[t] \in whoOwnsMe
      <3>1. pack[t] \in Packs /\ Rented(pack[t])
        BY <2>2 DEF IInv, Typed, CallOK, RentalsOK, ExclusiveRental
      <3>2. Token(t, pack[t]) BY <2>2 DEF Token
      <3>3. pack[t] \notin Spares BY <3>1, <3>2 DEF IInv, QueueOK, SparesOnce
      <3> QED BY <3>1, <3>3 DEF IInv, RentalsOK, Packs
    <2> QED BY <2>1, <2>2
  <1> QED BY <1>1, Invariance, PTL

-----------------------------------------------------------------------------
(* The permits of the semaphore of free_resources.                         *)

Backed == IsFiniteSet(Entries) /\ PermitsBacked

\* What is counted is finite.
LEMMA AtFinite == \A label : IsFiniteSet(At(label)) /\ Cardinality(At(label)) \in Nat
PROOF
  <1> SUFFICES ASSUME NEW label
               PROVE  IsFiniteSet(At(label)) /\ Cardinality(At(label)) \in Nat
    OBVIOUS
  <1>1. At(label) \subseteq Threads BY DEF At
  <1> QED BY <1>1, ThreadsAssumption, FS_Subset, FS_CardinalityType

\* One thread comes to a step, or leaves it.
LEMMA Arrives ==
  ASSUME NEW label, NEW t \in Threads, pc[t] # label, pc'[t] = label,
         \A u \in Threads : u # t => pc'[u] = pc[u]
  PROVE  Cardinality(At(label)') = Cardinality(At(label)) + 1
PROOF
  <1>1. At(label)' = At(label) \cup {t} /\ t \notin At(label) BY DEF At
  <1> QED BY <1>1, AtFinite, FS_AddElement

LEMMA Leaves ==
  ASSUME NEW label, NEW t \in Threads, pc[t] = label, pc'[t] # label,
         \A u \in Threads : u # t => pc'[u] = pc[u]
  PROVE  Cardinality(At(label)') = Cardinality(At(label)) - 1
PROOF
  <1>1. At(label)' = At(label) \ {t} /\ t \in At(label) BY DEF At
  <1> QED BY <1>1, AtFinite, FS_RemoveElement

LEMMA Elsewhere ==
  ASSUME NEW label, NEW t \in Threads, pc[t] # label, pc'[t] # label,
         \A u \in Threads : u # t => pc'[u] = pc[u]
  PROVE  At(label)' = At(label)
  BY DEF At

\* A step that neither moves an entry nor a permit.
LEMMA BackedFrame ==
  ASSUME Typed, Backed, UNCHANGED <<freeResources, sema>>, NEW t \in Threads,
         {pc[t], pc'[t]} \cap {"take", "signal"} = {},
         \A u \in Threads : u # t => pc'[u] = pc[u]
  PROVE  Backed'
PROOF
  <1>1. At("take")' = At("take") BY Elsewhere
  <1>2. At("signal")' = At("signal") BY Elsewhere
  <1>3. Entries' = Entries BY DEF Entries
  <1> QED BY <1>1, <1>2, <1>3 DEF Backed, PermitsBacked

\* The entries of a pack are as many as its counter says.
LEMMA EntryOf ==
  \A p, n : <<p, n>> \in Entries <=> p \in Packs /\ n \in 1 .. freeResources[p]
  BY DEF Entries

LEMMA EntryOfNext ==
  \A p, n : <<p, n>> \in Entries' <=> p \in Packs /\ n \in 1 .. freeResources'[p]
  BY DEF Entries

LEMMA EntriesArePairs ==
  /\ \A e \in Entries : \E p, n : e = <<p, n>>
  /\ \A e \in Entries' : \E p, n : e = <<p, n>>
  BY DEF Entries

\* Queueing a pack adds its next entry, taking it out removes its last one.
LEMMA EntryAdded ==
  ASSUME Typed, Backed, NEW p \in Packs, freeResources'[p] = freeResources[p] + 1,
         \A q \in Packs : q # p => freeResources'[q] = freeResources[q]
  PROVE  IsFiniteSet(Entries') /\ Cardinality(Entries') = Cardinality(Entries) + 1
PROOF
  <1> DEFINE e == <<p, freeResources[p] + 1>>
  <1>1. \A q \in Packs : freeResources[q] \in Nat BY DEF Typed, TypeOK
  <1>2. e \notin Entries BY <1>1, EntryOf
  <1>3. ASSUME NEW q, NEW n PROVE <<q, n>> \in Entries' <=> <<q, n>> \in Entries \/ <<q, n>> = e
    <2>1. <<q, n>> \in Entries <=> q \in Packs /\ n \in 1 .. freeResources[q] BY EntryOf
    <2>2. <<q, n>> \in Entries' <=> q \in Packs /\ n \in 1 .. freeResources'[q] BY EntryOfNext
    <2>3. CASE q = p
      <3>1. n \in 1 .. freeResources[p] + 1 <=>
              n \in 1 .. freeResources[p] \/ n = freeResources[p] + 1
        BY <1>1
      <3> QED BY <2>1, <2>2, <2>3, <3>1
    <2>4. CASE q # p BY <2>1, <2>2, <2>4
    <2> QED BY <2>3, <2>4
  <1> HIDE DEF e
  <1>4. Entries' = Entries \cup {e}
    BY <1>3, EntriesArePairs DEF e
  <1> QED BY <1>2, <1>4, FS_AddElement DEF Backed

LEMMA EntryRemoved ==
  ASSUME Typed, Backed, NEW p \in Packs, freeResources[p] > 0,
         freeResources'[p] = freeResources[p] - 1,
         \A q \in Packs : q # p => freeResources'[q] = freeResources[q]
  PROVE  IsFiniteSet(Entries') /\ Cardinality(Entries') = Cardinality(Entries) - 1
PROOF
  <1> DEFINE e == <<p, freeResources[p]>>
  <1>1. \A q \in Packs : freeResources[q] \in Nat BY DEF Typed, TypeOK
  <1>2. e \in Entries BY <1>1, EntryOf
  <1>3. ASSUME NEW q, NEW n PROVE <<q, n>> \in Entries' <=> <<q, n>> \in Entries /\ <<q, n>> # e
    <2>1. <<q, n>> \in Entries <=> q \in Packs /\ n \in 1 .. freeResources[q] BY EntryOf
    <2>2. <<q, n>> \in Entries' <=> q \in Packs /\ n \in 1 .. freeResources'[q] BY EntryOfNext
    <2>3. CASE q = p
      <3>1. n \in 1 .. freeResources[p] - 1 <=>
              n \in 1 .. freeResources[p] /\ n # freeResources[p]
        BY <1>1
      <3> QED BY <2>1, <2>2, <2>3, <3>1
    <2>4. CASE q # p BY <2>1, <2>2, <2>4
    <2> QED BY <2>3, <2>4
  <1> HIDE DEF e
  <1>4. Entries' = Entries \ {e}
    BY <1>3, EntriesArePairs DEF e
  <1> QED BY <1>2, <1>4, FS_RemoveElement DEF Backed

\* The constructor queues every spare pack and counts it.
LEMMA BackedInit == Init => Backed
PROOF
  <1> SUFFICES ASSUME Init PROVE Backed OBVIOUS
  <1>1. Entries = Spares \X {1}
    <2>1. \A p, n : <<p, n>> \in Entries <=> p \in Spares /\ n = 1
      <3>1. ASSUME NEW p \in Packs, NEW n
            PROVE  n \in 1 .. freeResources[p] <=> p \in Spares /\ n = 1
        <4>1. freeResources[p] = IF p \in Spares THEN 1 ELSE 0 BY DEF Init
        <4> QED BY <4>1
      <3> QED BY <3>1, EntryOf DEF Packs
    <2> QED BY <2>1, EntriesArePairs
  <1>2. IsFiniteSet({1}) /\ Cardinality({1}) = 1 BY FS_Singleton
  <1>3. IsFiniteSet(Entries) /\ Cardinality(Entries) = Cardinality(Spares) * 1
    BY <1>1, <1>2, NamesAssumption, FS_Product
  <1>4. Cardinality(Spares) \in Nat BY NamesAssumption, FS_CardinalityType
  <1>5. At("take") = {} /\ At("signal") = {} BY DEF Init, At
  <1>6. Cardinality(At("take")) = 0 /\ Cardinality(At("signal")) = 0 BY <1>5, FS_EmptySet
  <1>7. sema = Cardinality(Spares) BY DEF Init
  <1> QED BY <1>3, <1>4, <1>6, <1>7 DEF Backed, PermitsBacked

\* Every step keeps entries and permits in balance.
LEMMA BackedStep == Typed /\ Backed /\ [Next]_vars => Backed'
PROOF
  <1> SUFFICES ASSUME Typed, Backed, [Next]_vars PROVE Backed' OBVIOUS
  <1> USE DEF Goto
  <1>1. ASSUME NEW t \in Threads, NEW h \in Lockeds, Acquire(t, h) PROVE Backed'
    BY <1>1, BackedFrame DEF Acquire, Typed, TypeOK, poolVars
  <1>2. ASSUME NEW t \in Threads, NEW w \in Weaks, NEW h \in Lockeds, LockLive(t, w, h)
        PROVE Backed'
    BY <1>2, BackedFrame DEF LockLive, Typed, TypeOK, poolVars
  <1>3. ASSUME NEW t \in Threads, NEW w \in Weaks, NEW h \in Lockeds, LockExpired(t, w, h)
        PROVE Backed'
    BY <1>3, BackedFrame DEF LockExpired, Typed, TypeOK, poolVars
  <1>4. ASSUME NEW t \in Threads, NEW h \in Lockeds, NEW g \in Lockeds, Clone(t, h, g) PROVE Backed'
    BY <1>4, BackedFrame DEF Clone, Typed, TypeOK, poolVars
  <1>5. ASSUME NEW t \in Threads, NEW w \in Weaks, NEW h \in Lockeds, AssignWeak(t, w, h)
        PROVE Backed'
    BY <1>5, BackedFrame DEF AssignWeak, Typed, TypeOK, poolVars
  <1>6. ASSUME NEW t \in Threads, NEW w \in Weaks, DropWeak(t, w) PROVE Backed'
    BY <1>6, BackedFrame DEF DropWeak, Typed, TypeOK, poolVars
  <1>7. ASSUME NEW t \in Threads, NEW h \in Lockeds, DropLocked(t, h) PROVE Backed'
    BY <1>7, BackedFrame DEF DropLocked, Typed, TypeOK, poolVars
  <1>8. ASSUME NEW t \in Threads, CheckMaxIndex(t) PROVE Backed'
    BY <1>8, BackedFrame DEF CheckMaxIndex, Typed, TypeOK, poolVars
  <1>9. ASSUME NEW t \in Threads, CheckRecycled(t) PROVE Backed'
    BY <1>9, BackedFrame DEF CheckRecycled, Typed, TypeOK, poolVars
  <1>10. ASSUME NEW t \in Threads, ChooseIndex(t) PROVE Backed'
    BY <1>10, BackedFrame DEF ChooseIndex, Typed, TypeOK, poolVars
  <1>11. ASSUME NEW t \in Threads, PopIndex(t) PROVE Backed'
    BY <1>11, BackedFrame DEF PopIndex, Typed, TypeOK, poolVars
  <1>12. ASSUME NEW t \in Threads, FetchIndex(t) PROVE Backed'
    BY <1>12, BackedFrame DEF FetchIndex, Typed, TypeOK, poolVars
  <1>13. ASSUME NEW t \in Threads, BorrowPreferred(t) PROVE Backed'
    BY <1>13, BackedFrame DEF BorrowPreferred, Typed, TypeOK, poolVars, Deliver
  <1>14. ASSUME NEW t \in Threads, PreferredIsOut(t) PROVE Backed'
    BY <1>14, BackedFrame DEF PreferredIsOut, Typed, TypeOK, poolVars
  <1>15. ASSUME NEW t \in Threads, Dequeue(t) PROVE Backed'
    <2>1. /\ sema \in Nat /\ sema' = sema - 1 /\ UNCHANGED freeResources
          /\ pc[t] = "dequeue" /\ pc'[t] = "take"
          /\ \A u \in Threads : u # t => pc'[u] = pc[u]
      BY <1>15 DEF Dequeue, Typed, TypeOK
    <2>2. Cardinality(At("take")') = Cardinality(At("take")) + 1 BY <2>1, Arrives
    <2>3. At("signal")' = At("signal") BY <2>1, Elsewhere
    <2>4. Entries' = Entries BY <2>1 DEF Entries
    <2> QED BY <2>1, <2>2, <2>3, <2>4, AtFinite DEF Backed, PermitsBacked
  <1>16. ASSUME NEW t \in Threads, DequeueFails(t) PROVE Backed'
    BY <1>16, BackedFrame DEF DequeueFails, Typed, TypeOK, poolVars
  <1>17. ASSUME NEW t \in Threads, Take(t) PROVE Backed'
    <2>1. /\ sema \in Nat /\ sema' = sema
          /\ pc[t] = "take" /\ pc'[t] = "unlist"
          /\ \A u \in Threads : u # t => pc'[u] = pc[u]
      BY <1>17 DEF Take, Typed, TypeOK
    <2>2. PICK p \in Packs : /\ freeResources[p] > 0
                             /\ freeResources' = [freeResources EXCEPT ![p] = @ - 1]
      BY <1>17 DEF Take
    <2>3. /\ freeResources'[p] = freeResources[p] - 1
          /\ \A q \in Packs : q # p => freeResources'[q] = freeResources[q]
      BY <2>2 DEF Typed, TypeOK
    <2>4. IsFiniteSet(Entries') /\ Cardinality(Entries') = Cardinality(Entries) - 1
      BY <2>2, <2>3, EntryRemoved
    <2>5. Cardinality(At("take")') = Cardinality(At("take")) - 1 BY <2>1, Leaves
    <2>6. At("signal")' = At("signal") BY <2>1, Elsewhere
    <2> QED BY <2>1, <2>4, <2>5, <2>6, AtFinite DEF Backed, PermitsBacked
  <1>18. ASSUME NEW t \in Threads, RemoveFromFreeList(t) PROVE Backed'
    BY <1>18, BackedFrame DEF RemoveFromFreeList, Typed, TypeOK, poolVars
  <1>19. ASSUME NEW t \in Threads, BorrowCandidate(t) PROVE Backed'
    BY <1>19, BackedFrame DEF BorrowCandidate, Typed, TypeOK, poolVars, Deliver
  <1>20. ASSUME NEW t \in Threads, CandidateIsOut(t) PROVE Backed'
    BY <1>20, BackedFrame DEF CandidateIsOut, Typed, TypeOK, poolVars
  <1>21. ASSUME NEW t \in Threads, Overdraw(t) PROVE Backed'
    BY <1>21, BackedFrame DEF Overdraw, Typed, TypeOK, poolVars, Deliver
  <1>22. ASSUME NEW t \in Threads, BuilderThrows(t) PROVE Backed'
    BY <1>22, BackedFrame DEF BuilderThrows, Typed, TypeOK, poolVars
  <1>23. ASSUME NEW t \in Threads, OnRelease(t) PROVE Backed'
    BY <1>23, BackedFrame DEF OnRelease, Typed, TypeOK, poolVars
  <1>24. ASSUME NEW t \in Threads, GiveBack(t) PROVE Backed'
    BY <1>24, BackedFrame DEF GiveBack, Typed, TypeOK, poolVars
  <1>25. ASSUME NEW t \in Threads, Enqueue(t) PROVE Backed'
    <2>1. /\ sema \in Nat /\ sema' = sema
          /\ pc[t] = "enqueue" /\ pc'[t] = "signal"
          /\ \A u \in Threads : u # t => pc'[u] = pc[u]
          /\ pack[t] \in Packs
          /\ freeResources' = [freeResources EXCEPT ![pack[t]] = @ + 1]
      BY <1>25 DEF Enqueue, Typed, TypeOK, CallOK
    <2>2. /\ freeResources'[pack[t]] = freeResources[pack[t]] + 1
          /\ \A q \in Packs : q # pack[t] => freeResources'[q] = freeResources[q]
      BY <2>1 DEF Typed, TypeOK
    <2>3. IsFiniteSet(Entries') /\ Cardinality(Entries') = Cardinality(Entries) + 1
      BY <2>1, <2>2, EntryAdded
    <2>4. Cardinality(At("signal")') = Cardinality(At("signal")) + 1 BY <2>1, Arrives
    <2>5. At("take")' = At("take") BY <2>1, Elsewhere
    <2> QED BY <2>1, <2>3, <2>4, <2>5, AtFinite DEF Backed, PermitsBacked
  <1>26. ASSUME NEW t \in Threads, Signal(t) PROVE Backed'
    <2>1. /\ sema \in Nat /\ sema' = sema + 1 /\ UNCHANGED freeResources
          /\ pc[t] = "signal" /\ pc'[t] = "return"
          /\ \A u \in Threads : u # t => pc'[u] = pc[u]
      BY <1>26 DEF Signal, Typed, TypeOK
    <2>2. Cardinality(At("signal")') = Cardinality(At("signal")) - 1 BY <2>1, Leaves
    <2>3. At("take")' = At("take") BY <2>1, Elsewhere
    <2>4. Entries' = Entries BY <2>1 DEF Entries
    <2> QED BY <2>1, <2>2, <2>3, <2>4, AtFinite DEF Backed, PermitsBacked
  <1>27. ASSUME NEW t \in Threads, Return(t) PROVE Backed'
    BY <1>27, BackedFrame DEF Return, Typed, TypeOK, poolVars
  <1>28. ASSUME NEW t \in Threads, Recycle(t) PROVE Backed'
    BY <1>28, BackedFrame DEF Recycle, Typed, TypeOK, poolVars
  <1>29. CASE UNCHANGED vars
    BY <1>29 DEF Backed, PermitsBacked, Entries, At, vars, poolVars
  <1> QED
    BY <1>1, <1>2, <1>3, <1>4, <1>5, <1>6, <1>7, <1>8, <1>9, <1>10, <1>11, <1>12, <1>13, <1>14,
       <1>15, <1>16, <1>17, <1>18, <1>19, <1>20, <1>21, <1>22, <1>23, <1>24, <1>25, <1>26, <1>27,
       <1>28, <1>29
    DEF Next, Call, NewCall, Step, FindIndex, Borrow, Destroy

\* Every permit stands for an entry: after the semaphore a dequeue finds a pack.
THEOREM PermitsStandForPacks == Spec => []PermitsBacked
PROOF
  <1>1. IInv => Typed BY DEF IInv
  <1>2. Backed => PermitsBacked BY DEF Backed
  <1> QED BY <1>1, <1>2, BackedInit, BackedStep, Invariance, PTL DEF Spec

-----------------------------------------------------------------------------
(* The pool implements RentalContract.                                     *)

\* A step that changes neither what the handles hold nor what is being destroyed.
LEMMA ContractFrame ==
  ASSUME \A h \in Lockeds : locked'[h].rsource = locked[h].rsource,
         \A u \in Threads : /\ Destroying(u)' <=> Destroying(u)
                            /\ Destroying(u) => pack'[u] = pack[u]
  PROVE  UNCHANGED Contract!contractVars
PROOF
  <1>1. [h \in Lockeds |-> locked[h].rsource]' = [h \in Lockeds |-> locked[h].rsource]
    OBVIOUS
  <1>2. {r \in Rentals : \E t \in Threads : Destroying(t) /\ pack[t] = r}'
          = {r \in Rentals : \E t \in Threads : Destroying(t) /\ pack[t] = r}
    OBVIOUS
  <1> QED BY <1>1, <1>2 DEF Contract!contractVars

\* Deliver is a Grant of the contract.
LEMMA ContractGrant ==
  ASSUME Typed, HandlesOK, NEW t \in Threads, pc[t] \in Acquiring,
         NEW i \in Preferred \cup {None}, NEW r \in Rentals, Deliver(t, i, r),
         ~Rented(r), UNCHANGED pack
  PROVE  Contract!Next
PROOF
  <1> DEFINE returning == {q \in Rentals : \E u \in Threads : Destroying(u) /\ pack[u] = q}
  <1>1. Delivered(t, i, r) BY DeliverEffect
  <1>2. \A u \in Threads : Destroying(u)' <=> Destroying(u)
    BY <1>1 DEF Delivered, Destroying, Acquiring, Searching
  <1>3. returning' = returning BY <1>2
  <1>4. r \notin returning /\ \A h \in Lockeds : locked[h].rsource # r
    BY RentedCases DEF InHandle
  <1>5. [h \in Lockeds |-> locked[h].rsource]'
          = [[h \in Lockeds |-> locked[h].rsource] EXCEPT ![lh[t]] = r]
    <2>1. locked'[lh[t]].rsource = r BY <1>1 DEF Delivered
    <2>2. \A h \in Lockeds : h # lh[t] => locked'[h].rsource = locked[h].rsource
      BY <1>1 DEF Delivered
    <2> QED BY <2>1, <2>2
  <1>6. locked[lh[t]].rsource = None /\ lh[t] \in Lockeds BY <1>1 DEF Delivered, Nothing
  <1>7. Contract!Grant(lh[t], r)
    BY <1>3, <1>4, <1>5, <1>6 DEF Contract!Grant, Contract!Free
  <1> QED BY <1>6, <1>7 DEF Contract!Next

\* The end of a destructor is a GiveBack of the contract.
LEMMA ContractGiveBack ==
  ASSUME Typed, RentalsOK, NEW t \in Threads, UNCHANGED <<locked, pack>>,
         Destroying(t), ~Destroying(t)', pack[t] \in Rentals,
         \A u \in Threads : u # t => (Destroying(u)' <=> Destroying(u))
  PROVE  [Contract!Next]_Contract!contractVars
PROOF
  <1> DEFINE returning == {q \in Rentals : \E u \in Threads : Destroying(u) /\ pack[u] = q}
  <1>1. returning' = returning \ {pack[t]}
    BY DEF RentalsOK, ExclusiveRental
  <1>2. pack[t] \in returning OBVIOUS
  <1>3. PICK r \in Rentals : r = pack[t] OBVIOUS
  <1>4. Contract!GiveBack(r)
    BY <1>1, <1>2, <1>3 DEF Contract!GiveBack
  <1>5. Contract!Next BY <1>4 DEF Contract!Next
  <1> QED BY <1>5

\* Every step of the pool is a step of the contract or leaves it alone.
LEMMA ContractStep ==
  Typed /\ HandlesOK /\ RentalsOK /\ [Next]_vars => [Contract!Next]_Contract!contractVars
PROOF
  <1> SUFFICES ASSUME Typed, HandlesOK, RentalsOK, [Next]_vars
               PROVE [Contract!Next]_Contract!contractVars
    OBVIOUS
  <1>1. ASSUME NEW t \in Threads, NEW h \in Lockeds, Acquire(t, h)
        PROVE [Contract!Next]_Contract!contractVars
    BY <1>1, ContractFrame DEF Acquire, Destroying, Goto, Typed, TypeOK, CallOK, handleVars
  <1>2. ASSUME NEW t \in Threads, NEW w \in Weaks, NEW h \in Lockeds, LockLive(t, w, h)
        PROVE [Contract!Next]_Contract!contractVars
    <2> DEFINE returning == {q \in Rentals : \E u \in Threads : Destroying(u) /\ pack[u] = q}
    <2> DEFINE holds == [k \in Lockeds |-> locked[k].rsource]
    <2>1. PICK g \in Lockeds : locked[g].rsource = weak[w].rsource
      BY <1>2 DEF LockLive, HandlesOK
    <2>2. locked[g].rsource # None /\ locked[h].rsource = None
      BY <1>2, <2>1 DEF LockLive, Empty
    <2>3. holds' = [holds EXCEPT ![h] = holds[g]]
      BY <1>2, <2>1 DEF LockLive, Typed, TypeOK
    <2>4. returning' = returning BY <1>2 DEF LockLive, Destroying
    <2>5. Contract!Share(g, h) BY <2>2, <2>3, <2>4 DEF Contract!Share
    <2> QED BY <2>5 DEF Contract!Next
  <1>3. ASSUME NEW t \in Threads, NEW w \in Weaks, NEW h \in Lockeds, LockExpired(t, w, h)
        PROVE [Contract!Next]_Contract!contractVars
    BY <1>3, ContractFrame DEF LockExpired, Destroying, Goto, Typed, TypeOK, CallOK, handleVars
  <1>4. ASSUME NEW t \in Threads, NEW h \in Lockeds, NEW g \in Lockeds, Clone(t, h, g)
        PROVE [Contract!Next]_Contract!contractVars
    <2> DEFINE returning == {q \in Rentals : \E u \in Threads : Destroying(u) /\ pack[u] = q}
    <2> DEFINE holds == [k \in Lockeds |-> locked[k].rsource]
    <2>1. locked[h].rsource # None /\ locked[g].rsource = None
      BY <1>4 DEF Clone, Full, Empty
    <2>2. holds' = [holds EXCEPT ![g] = holds[h]]
      BY <1>4 DEF Clone, Typed, TypeOK
    <2>3. returning' = returning BY <1>4 DEF Clone, Destroying
    <2>4. Contract!Share(h, g) BY <2>1, <2>2, <2>3 DEF Contract!Share
    <2> QED BY <2>4 DEF Contract!Next
  <1>5. ASSUME NEW t \in Threads, NEW w \in Weaks, NEW h \in Lockeds, AssignWeak(t, w, h)
        PROVE [Contract!Next]_Contract!contractVars
    BY <1>5, ContractFrame DEF AssignWeak, Destroying, Goto, Typed, TypeOK, CallOK
  <1>6. ASSUME NEW t \in Threads, NEW w \in Weaks, DropWeak(t, w)
        PROVE [Contract!Next]_Contract!contractVars
    BY <1>6, ContractFrame DEF DropWeak, Destroying, Goto, Typed, TypeOK, CallOK
  <1>7. ASSUME NEW t \in Threads, NEW h \in Lockeds, DropLocked(t, h)
        PROVE [Contract!Next]_Contract!contractVars
    <2> DEFINE r == locked[h].rsource
    <2> DEFINE returning == {q \in Rentals : \E u \in Threads : Destroying(u) /\ pack[u] = q}
    <2> DEFINE holds == [k \in Lockeds |-> locked[k].rsource]
    <2>1. /\ pc[t] = "idle" /\ r # None /\ r \in Rentals
          /\ locked'[h].rsource = None
          /\ \A g \in Lockeds : g # h => locked'[g] = locked[g]
          /\ \A u \in Threads : u # t => pc'[u] = pc[u] /\ pack'[u] = pack[u]
      BY <1>7 DEF DropLocked, Full, Goto, Typed, TypeOK, Handle, Nothing
    <2>2. holds' = [holds EXCEPT ![h] = None] BY <2>1
    <2>3. CASE \A g \in Lockeds \ {h} : locked[g].rsource # r
      <3>1. pc'[t] = "on_release" /\ pack'[t] = r
        BY <1>7, <2>3 DEF DropLocked, Goto, Typed, TypeOK
      <3>2. returning' = returning \cup {r} BY <2>1, <3>1 DEF Destroying
      <3>3. Contract!Drop(h) BY <2>1, <2>2, <2>3, <3>2 DEF Contract!Drop
      <3> QED BY <3>3 DEF Contract!Next
    <2>4. CASE ~\A g \in Lockeds \ {h} : locked[g].rsource # r
      <3>1. pc'[t] = "return"
        BY <1>7, <2>4 DEF DropLocked, Goto, Typed, TypeOK
      <3>2. returning' = returning BY <2>1, <3>1 DEF Destroying
      <3>3. Contract!Drop(h) BY <2>1, <2>2, <2>4, <3>2 DEF Contract!Drop
      <3> QED BY <3>3 DEF Contract!Next
    <2> QED BY <2>3, <2>4
  <1>8. ASSUME NEW t \in Threads, CheckMaxIndex(t) PROVE [Contract!Next]_Contract!contractVars
    BY <1>8, ContractFrame DEF CheckMaxIndex, Destroying, Goto, Typed, TypeOK, CallOK, handleVars
  <1>9. ASSUME NEW t \in Threads, CheckRecycled(t) PROVE [Contract!Next]_Contract!contractVars
    BY <1>9, ContractFrame DEF CheckRecycled, Destroying, Goto, Typed, TypeOK, CallOK, handleVars
  <1>10. ASSUME NEW t \in Threads, ChooseIndex(t) PROVE [Contract!Next]_Contract!contractVars
    BY <1>10, ContractFrame DEF ChooseIndex, Destroying, Goto, Typed, TypeOK, CallOK, handleVars
  <1>11. ASSUME NEW t \in Threads, PopIndex(t) PROVE [Contract!Next]_Contract!contractVars
    BY <1>11, ContractFrame DEF PopIndex, Destroying, Goto, Typed, TypeOK, CallOK, handleVars
  <1>12. ASSUME NEW t \in Threads, FetchIndex(t) PROVE [Contract!Next]_Contract!contractVars
    BY <1>12, ContractFrame
    DEF FetchIndex, Destroying, Goto, Typed, TypeOK, CallOK, handleVars, Wins
  <1>13. ASSUME NEW t \in Threads, BorrowPreferred(t) PROVE [Contract!Next]_Contract!contractVars
    <2>1. /\ pc[t] \in Acquiring /\ pref[t] \in Packs /\ pref[t] \in Rentals
          /\ pref[t] \in Preferred \cup {None}
      BY <1>13 DEF BorrowPreferred, Acquiring, Typed, TypeOK, CallOK, Packs, Rentals
    <2>2. ~Rented(pref[t]) BY <1>13, <2>1 DEF BorrowPreferred, RentalsOK, ExclusiveRental
    <2>3. Contract!Next BY <1>13, <2>1, <2>2, ContractGrant DEF BorrowPreferred
    <2> QED BY <2>3
  <1>14. ASSUME NEW t \in Threads, PreferredIsOut(t) PROVE [Contract!Next]_Contract!contractVars
    BY <1>14, ContractFrame DEF PreferredIsOut, Destroying, Goto, Typed, TypeOK, CallOK, handleVars
  <1>15. ASSUME NEW t \in Threads, Dequeue(t) PROVE [Contract!Next]_Contract!contractVars
    BY <1>15, ContractFrame DEF Dequeue, Destroying, Goto, Typed, TypeOK, CallOK, handleVars
  <1>16. ASSUME NEW t \in Threads, DequeueFails(t) PROVE [Contract!Next]_Contract!contractVars
    BY <1>16, ContractFrame DEF DequeueFails, Destroying, Goto, Typed, TypeOK, CallOK, handleVars
  <1>17. ASSUME NEW t \in Threads, Take(t) PROVE [Contract!Next]_Contract!contractVars
    BY <1>17, ContractFrame DEF Take, Destroying, Goto, Typed, TypeOK, CallOK, handleVars
  <1>18. ASSUME NEW t \in Threads, RemoveFromFreeList(t) PROVE [Contract!Next]_Contract!contractVars
    BY <1>18, ContractFrame
    DEF RemoveFromFreeList, Destroying, Goto, Typed, TypeOK, CallOK, handleVars
  <1>19. ASSUME NEW t \in Threads, BorrowCandidate(t) PROVE [Contract!Next]_Contract!contractVars
    <2>1. /\ pc[t] \in Acquiring /\ pack[t] \in Packs /\ pack[t] \in Rentals
          /\ None \in Preferred \cup {None}
      BY <1>19 DEF BorrowCandidate, Acquiring, Typed, TypeOK, CallOK, Packs, Rentals
    <2>2. ~Rented(pack[t]) BY <1>19, <2>1 DEF BorrowCandidate, RentalsOK, ExclusiveRental
    <2>3. Contract!Next BY <1>19, <2>1, <2>2, ContractGrant DEF BorrowCandidate
    <2> QED BY <2>3
  <1>20. ASSUME NEW t \in Threads, CandidateIsOut(t) PROVE [Contract!Next]_Contract!contractVars
    BY <1>20, ContractFrame DEF CandidateIsOut, Destroying, Goto, Typed, TypeOK, CallOK, handleVars
  <1>21. ASSUME NEW t \in Threads, Overdraw(t) PROVE [Contract!Next]_Contract!contractVars
    <2>1. PICK o \in Overdrawns : ~Rented(o) /\ Deliver(t, None, o) BY <1>21 DEF Overdraw
    <2>2. pc[t] \in Acquiring /\ o \in Rentals /\ UNCHANGED pack
      BY <1>21 DEF Overdraw, Acquiring, Rentals
    <2>3. Contract!Next BY <2>1, <2>2, ContractGrant
    <2> QED BY <2>3
  <1>22. ASSUME NEW t \in Threads, BuilderThrows(t) PROVE [Contract!Next]_Contract!contractVars
    BY <1>22, ContractFrame DEF BuilderThrows, Destroying, Goto, Typed, TypeOK, CallOK, handleVars
  <1>23. ASSUME NEW t \in Threads, OnRelease(t) PROVE [Contract!Next]_Contract!contractVars
    <2>1. /\ pc[t] = "on_release" /\ pack[t] \in Rentals
          /\ pc'[t] = IF pack[t] \in Packs THEN "give_back" ELSE "return"
          /\ \A u \in Threads : u # t => pc'[u] = pc[u]
          /\ UNCHANGED <<locked, pack>>
      BY <1>23 DEF OnRelease, Goto, Typed, TypeOK, CallOK, handleVars
    <2>2. CASE pack[t] \in Packs BY <2>1, <2>2, ContractFrame DEF Destroying
    <2>3. CASE pack[t] \notin Packs
      <3>1. Destroying(t) /\ ~Destroying(t)' BY <2>1, <2>3 DEF Destroying
      <3>2. \A u \in Threads : u # t => (Destroying(u)' <=> Destroying(u)) BY <2>1 DEF Destroying
      <3> QED BY <2>1, <3>1, <3>2, ContractGiveBack
    <2> QED BY <2>2, <2>3
  <1>24. ASSUME NEW t \in Threads, GiveBack(t) PROVE [Contract!Next]_Contract!contractVars
    <2>1. /\ pc[t] = "give_back" /\ pack[t] \in Rentals /\ pc'[t] \in {"enqueue", "return"}
          /\ \A u \in Threads : u # t => pc'[u] = pc[u]
          /\ UNCHANGED <<locked, pack>>
      BY <1>24 DEF GiveBack, Goto, Typed, TypeOK, CallOK, Rentals, handleVars
    <2>2. Destroying(t) /\ ~Destroying(t)' BY <2>1 DEF Destroying
    <2>3. \A u \in Threads : u # t => (Destroying(u)' <=> Destroying(u)) BY <2>1 DEF Destroying
    <2> QED BY <2>1, <2>2, <2>3, ContractGiveBack
  <1>25. ASSUME NEW t \in Threads, Enqueue(t) PROVE [Contract!Next]_Contract!contractVars
    BY <1>25, ContractFrame DEF Enqueue, Destroying, Goto, Typed, TypeOK, CallOK, handleVars
  <1>26. ASSUME NEW t \in Threads, Signal(t) PROVE [Contract!Next]_Contract!contractVars
    BY <1>26, ContractFrame DEF Signal, Destroying, Goto, Typed, TypeOK, CallOK, handleVars
  <1>27. ASSUME NEW t \in Threads, Return(t) PROVE [Contract!Next]_Contract!contractVars
    BY <1>27, ContractFrame DEF Return, Destroying, Goto, Typed, TypeOK, CallOK, handleVars
  <1>28. ASSUME NEW t \in Threads, Recycle(t) PROVE [Contract!Next]_Contract!contractVars
    BY <1>28, ContractFrame DEF Recycle, Destroying, Goto, Typed, TypeOK, CallOK, handleVars
  <1>29. CASE UNCHANGED vars
    BY <1>29, ContractFrame DEF Destroying, vars, handleVars
  <1> QED
    BY <1>1, <1>2, <1>3, <1>4, <1>5, <1>6, <1>7, <1>8, <1>9, <1>10, <1>11, <1>12, <1>13, <1>14,
       <1>15, <1>16, <1>17, <1>18, <1>19, <1>20, <1>21, <1>22, <1>23, <1>24, <1>25, <1>26, <1>27,
       <1>28, <1>29
    DEF Next, Call, NewCall, Step, FindIndex, Borrow, Destroy

\* The pool keeps the contract it has with its clients.
THEOREM Implements == Spec => ContractKept
PROOF
  <1>1. Init => Contract!Init
    BY DEF Init, Contract!Init, Nothing, Destroying
  <1>2. IInv /\ [Next]_vars => [Contract!Next]_Contract!contractVars
    BY ContractStep DEF IInv
  <1> QED BY <1>1, <1>2, Invariance, PTL DEF Spec, Contract!Spec, ContractKept
=============================================================================
