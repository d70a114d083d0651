----------------------- MODULE ImplicitProducerTheorems -----------------------
(***************************************************************************)
(* An ImplicitProducer, for every number of consumers and elements and     *)
(* every size of a block and of the block index.  The counters: nothing is *)
(* claimed that was not enqueued, and a try_dequeue that fails has an      *)
(* excuse.  The blocks: an element is found where its consumer looks for   *)
(* it, and no block is lost or in two places.                              *)
(***************************************************************************)
EXTENDS ImplicitProducer, FiniteSetTheorems, TLAPS

-----------------------------------------------------------------------------
(* Sums over the consumers.                                                *)

UnitsOf(f) == UNION {{c} \X (1 .. f[c]) : c \in Consumers}

LEMMA UnitOf ==
  ASSUME NEW f
  PROVE  \A u : u \in UnitsOf(f) <=> \E c \in Consumers : \E n \in 1 .. f[c] : u = <<c, n>>
  BY DEF UnitsOf

\* A sum is a number.
LEMMA UnitsFinite ==
  ASSUME NEW f \in [Consumers -> Nat]
  PROVE  IsFiniteSet(UnitsOf(f)) /\ SumOf(f) \in Nat
PROOF
  <1> DEFINE parts == {{c} \X (1 .. f[c]) : c \in Consumers}
             g == [c \in Consumers |-> {c} \X (1 .. f[c])]
  <1>1. IsFiniteSet(parts)
    <2>1. g \in Surjection(Consumers, parts) BY DEF Surjection
    <2> HIDE DEF parts, g
    <2> QED BY <2>1, ConsumersAssumption, FS_Surjection
  <1>2. ASSUME NEW T \in parts PROVE IsFiniteSet(T)
    <2>1. PICK c \in Consumers : T = {c} \X (1 .. f[c]) BY <1>2
    <2>2. f[c] \in Int OBVIOUS
    <2>3. IsFiniteSet(1 .. f[c]) BY <2>2, FS_Interval
    <2>4. IsFiniteSet({c}) BY FS_Singleton
    <2> QED BY <2>1, <2>3, <2>4, FS_Product
  <1> HIDE DEF parts
  <1>3. IsFiniteSet(UNION parts) BY <1>1, <1>2, FS_UNION
  <1>4. UnitsOf(f) = UNION parts BY DEF UnitsOf, parts
  <1>5. SumOf(f) = Cardinality(UnitsOf(f)) BY DEF SumOf, UnitsOf
  <1> QED BY <1>3, <1>4, <1>5, FS_CardinalityType

\* One term grows.
LEMMA SumGrows ==
  ASSUME NEW f \in [Consumers -> Nat], NEW g \in [Consumers -> Nat], NEW c \in Consumers,
         \A d \in Consumers : d # c => g[d] = f[d], f[c] <= g[c]
  PROVE  SumOf(g) = SumOf(f) + g[c] - f[c]
PROOF
  <1> DEFINE more == {c} \X (f[c] + 1 .. g[c])
  <1>1. f[c] \in Nat /\ g[c] \in Nat OBVIOUS
  <1>2. \A n : n \in 1 .. g[c] <=> n \in 1 .. f[c] \/ n \in f[c] + 1 .. g[c]
    BY <1>1
  <1>3. \A n : ~(n \in 1 .. f[c] /\ n \in f[c] + 1 .. g[c]) BY <1>1
  <1>4. \A u : u \in more <=> \E n \in f[c] + 1 .. g[c] : u = <<c, n>> OBVIOUS
  <1>5. IsFiniteSet(more) /\ Cardinality(more) = g[c] - f[c]
    <2> DEFINE a == f[c] + 1  b == g[c]
    <2>1. a \in Int /\ b \in Int /\ b - a + 1 = g[c] - f[c] /\ (a > b => g[c] - f[c] = 0)
      BY <1>1
    <2> HIDE DEF a, b
    <2>2. IsFiniteSet(a .. b) /\ Cardinality(a .. b) = IF a > b THEN 0 ELSE b - a + 1
      BY <2>1, FS_Interval
    <2>3. IsFiniteSet(a .. b) /\ Cardinality(a .. b) = g[c] - f[c] BY <2>1, <2>2
    <2>4. IsFiniteSet({c}) /\ Cardinality({c}) = 1 BY FS_Singleton
    <2> DEFINE I == a .. b  J == {c}
    <2>5. IsFiniteSet(I) /\ Cardinality(I) = g[c] - f[c] BY <2>3
    <2>6. IsFiniteSet(J) /\ Cardinality(J) = 1 BY <2>4
    <2>7. more = J \X I BY DEF a, b
    <2> HIDE DEF I, J, more
    <2>8. IsFiniteSet(J \X I) /\ Cardinality(J \X I) = Cardinality(J) * Cardinality(I)
      BY <2>5, <2>6, FS_Product
    <2>9. 1 * (g[c] - f[c]) = g[c] - f[c] BY <1>1
    <2> QED BY <2>5, <2>6, <2>7, <2>8, <2>9
  <1> HIDE DEF more
  <1>6. UnitsOf(g) = UnitsOf(f) \cup more
    <2>1. ASSUME NEW u PROVE u \in UnitsOf(g) <=> u \in UnitsOf(f) \/ u \in more
      <3>1. u \in UnitsOf(g) <=> \E d \in Consumers : \E n \in 1 .. g[d] : u = <<d, n>>
        BY UnitOf
      <3>2. u \in UnitsOf(f) <=> \E d \in Consumers : \E n \in 1 .. f[d] : u = <<d, n>>
        BY UnitOf
      <3>3. ASSUME u \in UnitsOf(g) PROVE u \in UnitsOf(f) \/ u \in more
        <4>1. PICK d \in Consumers : \E n \in 1 .. g[d] : u = <<d, n>> BY <3>1, <3>3
        <4>2. PICK n \in 1 .. g[d] : u = <<d, n>> BY <4>1
        <4>3. CASE d = c BY <1>2, <1>4, <3>2, <4>2, <4>3
        <4>4. CASE d # c BY <3>2, <4>1, <4>4
        <4> QED BY <4>3, <4>4
      <3>4. ASSUME u \in UnitsOf(f) PROVE u \in UnitsOf(g)
        <4>1. PICK d \in Consumers : \E n \in 1 .. f[d] : u = <<d, n>> BY <3>2, <3>4
        <4>2. PICK n \in 1 .. f[d] : u = <<d, n>> BY <4>1
        <4>3. n \in 1 .. g[d] BY <1>2, <4>2
        <4> QED BY <3>1, <4>2, <4>3
      <3>5. ASSUME u \in more PROVE u \in UnitsOf(g) BY <1>2, <1>4, <3>1, <3>5
      <3> QED BY <3>3, <3>4, <3>5
    <2> HIDE DEF UnitsOf
    <2> QED BY <2>1
  <1>7. UnitsOf(f) \cap more = {}
    <2>1. ASSUME NEW u \in UnitsOf(f) PROVE u \notin more
      BY <1>3, <1>4, UnitOf
    <2> QED BY <2>1
  <1>8. Cardinality(UnitsOf(g)) = Cardinality(UnitsOf(f)) + Cardinality(more) - 0
    BY <1>5, <1>6, <1>7, UnitsFinite, FS_Union, FS_EmptySet
  <1>9. SumOf(f) = Cardinality(UnitsOf(f)) /\ SumOf(g) = Cardinality(UnitsOf(g))
    BY DEF SumOf, UnitsOf
  <1>10. SumOf(f) \in Nat BY UnitsFinite
  <1> QED BY <1>1, <1>5, <1>8, <1>9, <1>10

\* One term changes.
LEMMA SumChanges ==
  ASSUME NEW f \in [Consumers -> Nat], NEW g \in [Consumers -> Nat], NEW c \in Consumers,
         \A d \in Consumers : d # c => g[d] = f[d]
  PROVE  SumOf(g) = SumOf(f) + g[c] - f[c]
PROOF
  <1>1. f[c] \in Nat /\ g[c] \in Nat OBVIOUS
  <1>2. SumOf(f) \in Nat /\ SumOf(g) \in Nat BY UnitsFinite
  <1>3. CASE f[c] <= g[c] BY <1>3, SumGrows
  <1>4. CASE g[c] <= f[c]
    <2>1. SumOf(f) = SumOf(g) + f[c] - g[c] BY <1>4, SumGrows
    <2> QED BY <1>1, <1>2, <2>1
  <1> QED BY <1>1, <1>3, <1>4

\* No term is larger.
LEMMA SumAtMost ==
  ASSUME NEW f \in [Consumers -> Nat], NEW g \in [Consumers -> Nat],
         \A c \in Consumers : f[c] <= g[c]
  PROVE  SumOf(f) <= SumOf(g)
PROOF
  <1>1. UnitsOf(f) \subseteq UnitsOf(g)
    <2>1. ASSUME NEW c \in Consumers PROVE \A n \in 1 .. f[c] : n \in 1 .. g[c]
      <3>1. f[c] \in Nat /\ g[c] \in Nat /\ f[c] <= g[c] OBVIOUS
      <3> QED BY <3>1
    <2> QED BY <2>1, UnitOf
  <1>2. Cardinality(UnitsOf(f)) <= Cardinality(UnitsOf(g)) BY <1>1, UnitsFinite, FS_Subset
  <1> QED BY <1>2 DEF SumOf, UnitsOf

\* There is nothing to add up.
LEMMA SumOfNothing ==
  ASSUME NEW f, \A c \in Consumers : f[c] = 0
  PROVE  SumOf(f) = 0
PROOF
  <1>1. \A n : n \notin 1 .. 0 OBVIOUS
  <1>2. UnitsOf(f) = {} BY <1>1, UnitOf
  <1> QED BY <1>2, FS_EmptySet DEF SumOf, UnitsOf

-----------------------------------------------------------------------------
(* The inductive invariant.                                                *)

\* The steps of a consumer up to its claim, and those of looking up and taking what it claimed.
Counting == {"idle", "size", "tail", "overcommit", "check", "reserve", "reload", "give_up",
             "lost_some", "claim"}
Finding == Looking \cup {"set_empty", "clear", "free"}

\* Until its claim a consumer has only counted.
Locals == [size_tail : Nat, tail : Nat, overcommit : Nat, count : Int, want : Nat, lost : Nat,
           index : {0}, header : {0}, slot : {0}, entry : {0}, block : {Null}]

Typed ==
  /\ tailIndex \in Nat /\ headIndex \in Nat
  /\ dequeueOptimisticCount \in Nat /\ dequeueOvercommit \in Nat
  /\ pc \in [Consumers -> Counting \cup Finding]
  /\ my = [c \in Consumers |-> my[c]]
  /\ \A c \in Consumers : pc[c] \in Counting => my[c] \in Locals
  /\ \A c \in Consumers : pc[c] = "idle" => my[c] = NoLocals
  /\ dooms \in [Consumers -> Nat]

Pending == SumOf([c \in Consumers |-> Reserved(c)])

\* Every reservation is claimed, made good, or still in somebody's hands.
Balanced == dequeueOptimisticCount = headIndex + dequeueOvercommit + Pending + Lost

\* What c could still claim if it loaded the tail k.
MayGet(c, k) ==
  IF pc[c] = "reload"
  THEN IF k > my[c].count THEN LeastOf(k - my[c].count, my[c].want) ELSE 0
  ELSE MayClaim(c)
Promised(k) == SumOf([c \in Consumers |-> MayGet(c, k)])

\* Whatever the tail will be, what was claimed and what could then be claimed is no more.
WithinTail == \A k \in Nat : tailIndex <= k => headIndex + Promised(k) <= k

\* What a consumer knows is old: how old is told by what others lost since.
Knows(c) ==
  /\ pc[c] \in {"size", "tail", "overcommit", "check", "reserve", "reload"} => my[c].want > 0
  /\ pc[c] \in {"check", "reserve"} => my[c].overcommit <= dequeueOvercommit
  /\ Dequeues(c) =>
       /\ my[c].size_tail <= tailIndex
       /\ pc[c] \in {"overcommit", "check"} => my[c].size_tail <= my[c].tail
       /\ pc[c] \in {"size", "tail", "overcommit"} => Lost <= dooms[c]
       /\ pc[c] \in {"check", "reserve"} =>
            dequeueOvercommit + Lost <= my[c].overcommit + dooms[c]
       /\ pc[c] = "reload" => my[c].count <= headIndex + ReservedByOthers(c) + dooms[c]

IInv == Typed /\ Balanced /\ WithinTail /\ \A c \in Consumers : Knows(c)

\* The terms of the sums are numbers.
LEMMA Terms ==
  ASSUME Typed, NEW c \in Consumers
  PROVE  /\ Reserved(c) \in Nat /\ Losses(c) \in Nat /\ MayClaim(c) \in Nat
         /\ \A k \in Nat : MayGet(c, k) \in Nat /\ MayGet(c, k) <= Reserved(c)
         /\ \A k \in Nat : MayClaim(c) <= MayGet(c, k)
PROOF
  <1>1. my[c] \in Locals \/ pc[c] \in Finding BY DEF Typed
  <1>2. pc[c] \in Finding => pc[c] \notin {"reload", "give_up", "lost_some", "claim"}
    BY DEF Finding, Looking
  <1>3. my[c] \in Locals => my[c].want \in Nat /\ my[c].lost \in Nat /\ my[c].count \in Int
    BY DEF Locals
  <1> QED BY <1>1, <1>2, <1>3 DEF Reserved, Losses, MayClaim, MayGet, LeastOf

LEMMA TermsNext ==
  ASSUME Typed', NEW c \in Consumers
  PROVE  /\ Reserved(c)' \in Nat /\ Losses(c)' \in Nat
         /\ \A k \in Nat : MayGet(c, k)' \in Nat /\ MayGet(c, k)' <= Reserved(c)'
PROOF
  <1>1. my'[c] \in Locals \/ pc'[c] \in Finding BY DEF Typed
  <1>2. pc'[c] \in Finding => pc'[c] \notin {"reload", "give_up", "lost_some", "claim"}
    BY DEF Finding, Looking
  <1>3. my'[c] \in Locals => my'[c].want \in Nat /\ my'[c].lost \in Nat /\ my'[c].count \in Int
    BY DEF Locals
  <1> QED BY <1>1, <1>2, <1>3 DEF Reserved, Losses, MayClaim, MayGet, LeastOf

\* So are the sums, and they relate as their terms do.
LEMMA SumsTyped ==
  ASSUME Typed
  PROVE  /\ Pending \in Nat /\ Lost \in Nat
         /\ \A k \in Nat : Promised(k) \in Nat /\ Promised(k) <= Pending
         /\ \A c \in Consumers :
              ReservedByOthers(c) \in Nat /\ Pending = ReservedByOthers(c) + Reserved(c)
PROOF
  <1> DEFINE r == [c \in Consumers |-> Reserved(c)]
  <1>1. r \in [Consumers -> Nat] BY Terms
  <1>2. [c \in Consumers |-> Losses(c)] \in [Consumers -> Nat] BY Terms
  <1>3. ASSUME NEW k \in Nat PROVE Promised(k) \in Nat /\ Promised(k) <= Pending
    <2> DEFINE p == [c \in Consumers |-> MayGet(c, k)]
    <2>1. p \in [Consumers -> Nat] BY Terms
    <2>2. \A c \in Consumers : p[c] <= r[c] BY Terms
    <2>3. Promised(k) = SumOf(p) /\ Pending = SumOf(r) BY DEF Promised, Pending
    <2> HIDE DEF p, r
    <2> QED BY <1>1, <2>1, <2>2, <2>3, UnitsFinite, SumAtMost
  <1>4. ASSUME NEW c \in Consumers
        PROVE  ReservedByOthers(c) \in Nat /\ Pending = ReservedByOthers(c) + Reserved(c)
    <2> DEFINE o == [d \in Consumers |-> IF d = c THEN 0 ELSE Reserved(d)]
    <2>1. o \in [Consumers -> Nat] BY Terms
    <2>2. (\A d \in Consumers : d # c => r[d] = o[d]) /\ o[c] = 0 /\ r[c] = Reserved(c) OBVIOUS
    <2>3. ReservedByOthers(c) = SumOf(o) /\ Pending = SumOf(r) BY DEF ReservedByOthers, Pending
    <2> HIDE DEF o, r
    <2>4. SumOf(r) = SumOf(o) + r[c] - o[c] BY <1>1, <2>1, <2>2, SumChanges
    <2>5. SumOf(o) \in Nat BY <2>1, UnitsFinite
    <2>6. Reserved(c) \in Nat BY Terms
    <2> QED BY <2>2, <2>3, <2>4, <2>5, <2>6
  <1>5. Pending \in Nat BY <1>1, UnitsFinite DEF Pending
  <1>6. Lost \in Nat BY <1>2, UnitsFinite DEF Lost
  <1> QED BY <1>3, <1>4, <1>5, <1>6

\* Only one consumer moves: each sum changes by its term.
OnlyMoves(c) == \A d \in Consumers : d # c => pc'[d] = pc[d] /\ my'[d] = my[d]

LEMMA OneMoves ==
  ASSUME Typed, Typed', NEW c \in Consumers, OnlyMoves(c)
  PROVE  /\ Pending' = Pending + Reserved(c)' - Reserved(c)
         /\ Lost' = Lost + Losses(c)' - Losses(c)
         /\ \A k \in Nat : Promised(k)' = Promised(k) + MayGet(c, k)' - MayGet(c, k)
         /\ ReservedByOthers(c)' = ReservedByOthers(c)
         /\ \A d \in Consumers : d # c =>
              ReservedByOthers(d)' = ReservedByOthers(d) + Reserved(c)' - Reserved(c)
PROOF
  <1>1. ASSUME NEW d \in Consumers, d # c
        PROVE  /\ Reserved(d)' = Reserved(d) /\ Losses(d)' = Losses(d)
               /\ \A k \in Nat : MayGet(d, k)' = MayGet(d, k)
    <2>1. pc'[d] = pc[d] /\ my'[d] = my[d] BY <1>1 DEF OnlyMoves
    <2> QED BY <2>1 DEF Reserved, Losses, MayGet, MayClaim
  <1>2. Pending' = Pending + Reserved(c)' - Reserved(c)
    <2> DEFINE f == [d \in Consumers |-> Reserved(d)]
               g == [d \in Consumers |-> Reserved(d)']
    <2>1. f \in [Consumers -> Nat] /\ g \in [Consumers -> Nat] BY Terms, TermsNext
    <2>2. \A d \in Consumers : d # c => g[d] = f[d] BY <1>1
    <2>3. f[c] = Reserved(c) /\ g[c] = Reserved(c)' OBVIOUS
    <2>4. Pending = SumOf(f) /\ Pending' = SumOf(g) BY DEF Pending, SumOf
    <2> HIDE DEF f, g
    <2>5. SumOf(g) = SumOf(f) + g[c] - f[c] BY <2>1, <2>2, SumChanges
    <2> QED BY <2>3, <2>4, <2>5
  <1>3. Lost' = Lost + Losses(c)' - Losses(c)
    <2> DEFINE f == [d \in Consumers |-> Losses(d)]
               g == [d \in Consumers |-> Losses(d)']
    <2>1. f \in [Consumers -> Nat] /\ g \in [Consumers -> Nat] BY Terms, TermsNext
    <2>2. \A d \in Consumers : d # c => g[d] = f[d] BY <1>1
    <2>3. f[c] = Losses(c) /\ g[c] = Losses(c)' OBVIOUS
    <2>4. Lost = SumOf(f) /\ Lost' = SumOf(g) BY DEF Lost, SumOf
    <2> HIDE DEF f, g
    <2>5. SumOf(g) = SumOf(f) + g[c] - f[c] BY <2>1, <2>2, SumChanges
    <2> QED BY <2>3, <2>4, <2>5
  <1>4. ASSUME NEW k \in Nat
        PROVE  Promised(k)' = Promised(k) + MayGet(c, k)' - MayGet(c, k)
    <2> DEFINE f == [d \in Consumers |-> MayGet(d, k)]
               g == [d \in Consumers |-> MayGet(d, k)']
    <2>1. f \in [Consumers -> Nat] /\ g \in [Consumers -> Nat] BY Terms, TermsNext
    <2>2. \A d \in Consumers : d # c => g[d] = f[d] BY <1>1
    <2>3. f[c] = MayGet(c, k) /\ g[c] = MayGet(c, k)' OBVIOUS
    <2>4. Promised(k) = SumOf(f) /\ Promised(k)' = SumOf(g) BY DEF Promised, SumOf
    <2> HIDE DEF f, g
    <2>5. SumOf(g) = SumOf(f) + g[c] - f[c] BY <2>1, <2>2, SumChanges
    <2> QED BY <2>3, <2>4, <2>5
  <1>5. ReservedByOthers(c)' = ReservedByOthers(c)
    <2>1. [d \in Consumers |-> IF d = c THEN 0 ELSE Reserved(d)'] =
            [d \in Consumers |-> IF d = c THEN 0 ELSE Reserved(d)]
      BY <1>1
    <2>2. ReservedByOthers(c)' = SumOf([d \in Consumers |-> IF d = c THEN 0 ELSE Reserved(d)'])
      BY DEF ReservedByOthers, SumOf
    <2> QED BY <2>1, <2>2 DEF ReservedByOthers
  <1>6. ASSUME NEW d \in Consumers, d # c
        PROVE  ReservedByOthers(d)' = ReservedByOthers(d) + Reserved(c)' - Reserved(c)
    <2> DEFINE f == [e \in Consumers |-> IF e = d THEN 0 ELSE Reserved(e)]
               g == [e \in Consumers |-> IF e = d THEN 0 ELSE Reserved(e)']
    <2>1. f \in [Consumers -> Nat] /\ g \in [Consumers -> Nat] BY Terms, TermsNext
    <2>2. \A e \in Consumers : e # c => g[e] = f[e] BY <1>1
    <2>3. f[c] = Reserved(c) /\ g[c] = Reserved(c)' BY <1>6
    <2>4. ReservedByOthers(d) = SumOf(f) /\ ReservedByOthers(d)' = SumOf(g)
      BY DEF ReservedByOthers, SumOf
    <2> HIDE DEF f, g
    <2>5. SumOf(g) = SumOf(f) + g[c] - f[c] BY <2>1, <2>2, SumChanges
    <2> QED BY <2>3, <2>4, <2>5
  <1> QED BY <1>2, <1>3, <1>4, <1>5, <1>6

-----------------------------------------------------------------------------
(* What the steps do to the counters.                                      *)

\* The producer only ever adds to the tail.
LEMMA ProducerEffect ==
  ASSUME ProducerStep
  PROVE  /\ UNCHANGED <<headIndex, dequeueOptimisticCount, dequeueOvercommit, consumerVars>>
         /\ tailIndex' = tailIndex \/ tailIndex' = tailIndex + 1
PROOF
  <1> USE DEF counters
  <1>1. CASE Enqueue BY <1>1 DEF Enqueue
  <1>2. CASE InsertKey BY <1>2 DEF InsertKey
  <1>3. CASE GrowIndex BY <1>3 DEF GrowIndex
  <1>4. CASE GrowthFails BY <1>4 DEF GrowthFails
  <1>5. CASE Advance BY <1>5 DEF Advance
  <1>6. CASE Requisition BY <1>6 DEF Requisition
  <1>7. CASE RequisitionFails BY <1>7 DEF RequisitionFails
  <1>8. CASE ConstructFirst BY <1>8 DEF ConstructFirst
  <1>9. CASE FirstThrows BY <1>9 DEF FirstThrows
  <1>10. CASE Rewind BY <1>10 DEF Rewind
  <1>11. CASE EmptyEntry BY <1>11 DEF EmptyEntry
  <1>12. CASE Publish BY <1>12 DEF Publish
  <1>13. CASE Construct BY <1>13 DEF Construct
  <1>14. CASE ConstructThrows BY <1>14 DEF ConstructThrows
  <1>15. CASE StoreTail BY <1>15 DEF StoreTail
  <1>16. CASE Destroy BY <1>16 DEF Destroy
  <1> QED BY <1>1, <1>2, <1>3, <1>4, <1>5, <1>6, <1>7, <1>8, <1>9, <1>10, <1>11, <1>12, <1>13,
             <1>14, <1>15, <1>16
          DEF ProducerStep

\* A consumer that looks up and takes what it claimed leaves the counters alone.
Finds(c) ==
  \/ LoadHeader(c) \/ LoadSlot(c) \/ FindEntry(c) \/ LoadValue(c) \/ Take(c)
  \/ SetEmpty(c) \/ ClearEntry(c) \/ FreeBlock(c)

\* Where NextBlock leads.
LEMMA NextBlockEffect ==
  ASSUME Typed, NEW c \in Consumers, NextBlock(c)
  PROVE  /\ pc' \in [Consumers -> Counting \cup Finding]
         /\ pc'[c] \in {"idle", "value"}
         /\ OnlyMoves(c)
         /\ my' = [d \in Consumers |-> my'[d]]
         /\ pc'[c] = "idle" => my'[c] = NoLocals
PROOF
  <1>1. CASE my[c].want - Here(c) = 0
    BY <1>1 DEF NextBlock, Typed, Goto, OnlyMoves, Counting, Finding, Looking
  <1>2. CASE my[c].want - Here(c) # 0
    <2>1. PICK l : Goto(c, "value") /\ my' = [my EXCEPT ![c] = l] BY <1>2 DEF NextBlock
    <2> QED BY <2>1 DEF Typed, Goto, OnlyMoves, Counting, Finding, Looking
  <1> QED BY <1>1, <1>2

LEMMA FindsEffect ==
  ASSUME Typed, NEW c \in Consumers, Finds(c)
  PROVE  /\ UNCHANGED <<counters, dooms>>
         /\ pc' \in [Consumers -> Counting \cup Finding]
         /\ pc[c] \in Finding /\ pc'[c] \in Finding \cup {"idle"}
         /\ OnlyMoves(c)
         /\ my' = [d \in Consumers |-> my'[d]]
         /\ pc'[c] = "idle" => my'[c] = NoLocals
PROOF
  <1> USE DEF Counting, Finding, Looking
  <1>1. CASE LoadHeader(c)
    <2>1. PICK l : my' = [my EXCEPT ![c] = l] BY <1>1 DEF LoadHeader
    <2> QED BY <1>1, <2>1 DEF LoadHeader, Typed, Goto, OnlyMoves
  <1>2. CASE LoadSlot(c)
    <2>1. PICK l : my' = [my EXCEPT ![c] = l] BY <1>2 DEF LoadSlot
    <2> QED BY <1>2, <2>1 DEF LoadSlot, Typed, Goto, OnlyMoves
  <1>3. CASE FindEntry(c)
    <2>1. PICK l : my' = [my EXCEPT ![c] = l] BY <1>3 DEF FindEntry
    <2> QED BY <1>3, <2>1 DEF FindEntry, Typed, Goto, OnlyMoves
  <1>4. CASE LoadValue(c)
    <2>1. PICK l : my' = [my EXCEPT ![c] = l] BY <1>4 DEF LoadValue
    <2> QED BY <1>4, <2>1 DEF LoadValue, Typed, Goto, OnlyMoves
  <1>5. CASE Take(c) BY <1>5 DEF Take, Typed, Goto, OnlyMoves
  <1>6. CASE SetEmpty(c)
    <2>1. pc[c] = "set_empty" /\ UNCHANGED <<counters, dooms>> BY <1>6 DEF SetEmpty
    <2>2. (Goto(c, "clear") /\ UNCHANGED my) \/ NextBlock(c) BY <1>6 DEF SetEmpty
    <2>3. CASE Goto(c, "clear") /\ UNCHANGED my BY <2>1, <2>3 DEF Typed, Goto, OnlyMoves
    <2>4. CASE NextBlock(c) BY <2>1, <2>4, NextBlockEffect
    <2> QED BY <2>2, <2>3, <2>4
  <1>7. CASE ClearEntry(c) BY <1>7 DEF ClearEntry, Typed, Goto, OnlyMoves
  <1>8. CASE FreeBlock(c) BY <1>8, NextBlockEffect DEF FreeBlock
  <1> QED BY <1>1, <1>2, <1>3, <1>4, <1>5, <1>6, <1>7, <1>8 DEF Finds

\* The consumers are idle and know nothing at first.
LEMMA InitIInv == Init => IInv
PROOF
  <1> SUFFICES ASSUME Init PROVE IInv OBVIOUS
  <1>1. Typed BY DEF Init, Typed, NoLocals, Locals, Counting
  <1>2. \A c \in Consumers : pc[c] = "idle" BY DEF Init
  <1>3. Pending = 0 BY <1>2, SumOfNothing DEF Pending, Reserved
  <1>4. Lost = 0 BY <1>2, SumOfNothing DEF Lost, Losses
  <1>5. Balanced BY <1>3, <1>4 DEF Balanced, Init
  <1>6. ASSUME NEW k \in Nat PROVE Promised(k) = 0
    BY <1>2, SumOfNothing DEF Promised, MayGet, MayClaim
  <1>7. WithinTail BY <1>6 DEF WithinTail, Init
  <1>8. \A c \in Consumers : Knows(c) BY <1>2 DEF Knows, Dequeues
  <1> QED BY <1>1, <1>5, <1>7, <1>8 DEF IInv

\* A step that moves no reservation and no counter.
LEMMA Quiet ==
  ASSUME IInv, Typed', NEW c \in Consumers, OnlyMoves(c), UNCHANGED counters,
         {pc[c], pc'[c]} \cap {"reload", "give_up", "lost_some", "claim"} = {},
         \A d \in Consumers : d # c => dooms'[d] = dooms[d]
  PROVE  /\ Balanced' /\ WithinTail' /\ Lost' = Lost /\ Pending' = Pending
         /\ \A d \in Consumers : d # c => Knows(d)'
PROOF
  <1> USE DEF IInv, counters
  <1>1. Reserved(c) = 0 /\ Reserved(c)' = 0 /\ Losses(c) = 0 /\ Losses(c)' = 0
    BY DEF Reserved, Losses
  <1>2. \A k \in Nat : MayGet(c, k) = 0 /\ MayGet(c, k)' = 0 BY DEF MayGet, MayClaim
  <1>3. Pending' = Pending /\ Lost' = Lost BY <1>1, OneMoves, SumsTyped
  <1>4. \A k \in Nat : Promised(k)' = Promised(k) BY <1>2, OneMoves, SumsTyped
  <1>5. \A d \in Consumers : d # c => ReservedByOthers(d)' = ReservedByOthers(d)
    BY <1>1, OneMoves, SumsTyped
  <1>6. Balanced' BY <1>3 DEF Balanced
  <1>7. WithinTail' BY <1>4 DEF WithinTail
  <1>8. ASSUME NEW d \in Consumers, d # c PROVE Knows(d)'
    <2>1. pc'[d] = pc[d] /\ my'[d] = my[d] /\ dooms'[d] = dooms[d] BY <1>8 DEF OnlyMoves
    <2> QED BY <1>3, <1>5, <1>8, <2>1 DEF Knows, Dequeues
  <1> QED BY <1>3, <1>6, <1>7, <1>8

\* A consumer that goes on counting, with the locals l.
LEMMA CountsOn ==
  ASSUME Typed, NEW c \in Consumers, NEW label \in Counting, NEW l \in Locals, Goto(c, label),
         my' = [my EXCEPT ![c] = l], label = "idle" => l = NoLocals,
         tailIndex' \in Nat, headIndex' \in Nat, dequeueOptimisticCount' \in Nat,
         dequeueOvercommit' \in Nat, dooms' \in [Consumers -> Nat]
  PROVE  Typed' /\ OnlyMoves(c) /\ pc'[c] = label /\ my'[c] = l
PROOF
  <1>1. pc'[c] = label /\ my'[c] = l /\ OnlyMoves(c) BY DEF Typed, Goto, OnlyMoves
  <1>2. pc' \in [Consumers -> Counting \cup Finding] BY DEF Typed, Goto
  <1>3. my' = [d \in Consumers |-> my'[d]] BY DEF Typed
  <1>4. ASSUME NEW d \in Consumers
        PROVE  /\ pc'[d] \in Counting => my'[d] \in Locals
               /\ pc'[d] = "idle" => my'[d] = NoLocals
    <2>1. CASE d = c BY <1>1, <2>1
    <2>2. CASE d # c BY <1>1, <2>2 DEF Typed, OnlyMoves
    <2> QED BY <2>1, <2>2
  <1> QED BY <1>1, <1>2, <1>3, <1>4 DEF Typed

LEMMA NoLocalsTyped == NoLocals \in Locals BY DEF NoLocals, Locals

LEMMA BeginStep == ASSUME IInv, NEW c \in Consumers, Begin(c) PROVE IInv'
PROOF
  <1> DEFINE l == [my[c] EXCEPT !.size_tail = tailIndex, !.want = 1]
  <1>1. pc[c] = "idle" /\ UNCHANGED counters BY DEF Begin
  <1>2. Typed /\ Lost \in Nat BY SumsTyped DEF IInv
  <1>3. my[c] = NoLocals BY <1>1, <1>2 DEF Typed
  <1>4. l \in Locals /\ l.size_tail = tailIndex /\ l.want = 1
    <2>1. my[c] \in Locals /\ tailIndex \in Nat BY <1>2, <1>3, NoLocalsTyped DEF Typed
    <2> QED BY <2>1 DEF Locals
  <1>5. my' = [my EXCEPT ![c] = l] BY DEF Begin
  <1>6. /\ dooms' \in [Consumers -> Nat] /\ dooms'[c] = Lost
        /\ \A d \in Consumers : d # c => dooms'[d] = dooms[d]
    BY <1>2 DEF Begin, Typed
  <1> HIDE DEF l
  <1>7. Typed' /\ OnlyMoves(c) /\ pc'[c] = "size" /\ my'[c] = l
    <2>1. Goto(c, "size") BY DEF Begin
    <2> QED BY <1>1, <1>2, <1>4, <1>5, <1>6, <2>1, CountsOn DEF Typed, counters, Counting
  <1>8. /\ Balanced' /\ WithinTail' /\ Lost' = Lost
        /\ \A d \in Consumers : d # c => Knows(d)'
    BY <1>1, <1>6, <1>7, Quiet
  <1>9. Knows(c)' BY <1>1, <1>2, <1>4, <1>6, <1>7, <1>8 DEF Knows, Dequeues, counters, Typed
  <1> QED BY <1>7, <1>8, <1>9 DEF IInv

LEMMA BeginBulkStep ==
  ASSUME IInv, NEW c \in Consumers, NEW max \in 2 .. MaxBulk, BeginBulk(c, max) PROVE IInv'
PROOF
  <1> DEFINE l == [my[c] EXCEPT !.want = max]
  <1>1. pc[c] = "idle" /\ UNCHANGED <<counters, dooms>> BY DEF BeginBulk
  <1>2. Typed BY DEF IInv
  <1>3. my[c] = NoLocals BY <1>1, <1>2 DEF Typed
  <1>4. l \in Locals /\ l.size_tail = 0 /\ l.want > 0
    BY <1>2, <1>3, BoundsAssumption DEF NoLocals, Locals, Typed
  <1>5. my' = [my EXCEPT ![c] = l] BY DEF BeginBulk
  <1> HIDE DEF l
  <1>6. Typed' /\ OnlyMoves(c) /\ pc'[c] = "tail" /\ my'[c] = l
    <2>1. Goto(c, "tail") BY DEF BeginBulk
    <2> QED BY <1>1, <1>2, <1>4, <1>5, <2>1, CountsOn DEF Typed, counters, Counting
  <1>7. Balanced' /\ WithinTail' /\ \A d \in Consumers : d # c => Knows(d)'
    BY <1>1, <1>6, Quiet
  <1>8. Knows(c)' BY <1>4, <1>6 DEF Knows, Dequeues
  <1> QED BY <1>6, <1>7, <1>8 DEF IInv

\* A dequeue that ends.
LEMMA FailStep ==
  ASSUME IInv, NEW c \in Consumers, pc[c] \in {"size", "check"}, Fail(c), UNCHANGED counters
  PROVE  IInv'
PROOF
  <1>1. Typed BY DEF IInv
  <1>2. /\ dooms' \in [Consumers -> Nat]
        /\ \A d \in Consumers : d # c => dooms'[d] = dooms[d]
    BY <1>1 DEF Fail, Typed
  <1>3. Typed' /\ OnlyMoves(c) /\ pc'[c] = "idle" /\ my'[c] = NoLocals
    <2>1. Goto(c, "idle") /\ my' = [my EXCEPT ![c] = NoLocals] BY DEF Fail
    <2> QED BY <1>1, <1>2, <2>1, NoLocalsTyped, CountsOn DEF Typed, counters, Counting
  <1>4. Balanced' /\ WithinTail' /\ \A d \in Consumers : d # c => Knows(d)'
    BY <1>2, <1>3, Quiet
  <1>5. Knows(c)' BY <1>3 DEF Knows, Dequeues
  <1> QED BY <1>3, <1>4, <1>5 DEF IInv

LEMMA LoadHeadStep == ASSUME IInv, NEW c \in Consumers, LoadHead(c) PROVE IInv'
PROOF
  <1>1. pc[c] = "size" /\ UNCHANGED counters BY DEF LoadHead
  <1>2. CASE Fail(c) BY <1>1, <1>2, FailStep
  <1>3. CASE Goto(c, "tail") /\ UNCHANGED <<my, dooms>>
    <2>1. Typed /\ my[c] \in Locals BY <1>1 DEF IInv, Typed, Counting
    <2>2. my' = [my EXCEPT ![c] = my[c]] BY <1>3, <2>1 DEF Typed
    <2>3. Typed' /\ OnlyMoves(c) /\ pc'[c] = "tail" /\ my'[c] = my[c]
      BY <1>1, <1>3, <2>1, <2>2, CountsOn DEF Typed, counters, Counting
    <2>4. /\ Balanced' /\ WithinTail' /\ Lost' = Lost
          /\ \A d \in Consumers : d # c => Knows(d)'
      BY <1>1, <1>3, <2>3, Quiet
    <2>5. Knows(c)' BY <1>1, <1>3, <2>3, <2>4 DEF Knows, Dequeues, IInv, counters
    <2> QED BY <2>3, <2>4, <2>5 DEF IInv
  <1> QED BY <1>2, <1>3 DEF LoadHead

LEMMA LoadTailStep == ASSUME IInv, NEW c \in Consumers, LoadTail(c) PROVE IInv'
PROOF
  <1> DEFINE l == [my[c] EXCEPT !.tail = tailIndex]
  <1>1. pc[c] = "tail" /\ UNCHANGED <<counters, dooms>> BY DEF LoadTail
  <1>2. Typed /\ my[c] \in Locals BY <1>1 DEF IInv, Typed, Counting
  <1>3. /\ l \in Locals /\ l.size_tail = my[c].size_tail /\ l.tail = tailIndex
        /\ l.want = my[c].want
    BY <1>2 DEF Locals, Typed
  <1>4. my' = [my EXCEPT ![c] = l] BY DEF LoadTail
  <1> HIDE DEF l
  <1>5. Typed' /\ OnlyMoves(c) /\ pc'[c] = "overcommit" /\ my'[c] = l
    <2>1. Goto(c, "overcommit") BY DEF LoadTail
    <2> QED BY <1>1, <1>2, <1>3, <1>4, <2>1, CountsOn DEF Typed, counters, Counting
  <1>6. Balanced' /\ WithinTail' /\ Lost' = Lost /\ \A d \in Consumers : d # c => Knows(d)'
    BY <1>1, <1>5, Quiet
  <1>7. Knows(c)' BY <1>1, <1>3, <1>5, <1>6 DEF Knows, Dequeues, IInv, counters
  <1> QED BY <1>5, <1>6, <1>7 DEF IInv

LEMMA LoadOvercommitStep == ASSUME IInv, NEW c \in Consumers, LoadOvercommit(c) PROVE IInv'
PROOF
  <1> DEFINE l == [my[c] EXCEPT !.overcommit = dequeueOvercommit]
  <1>1. pc[c] = "overcommit" /\ UNCHANGED <<counters, dooms>> BY DEF LoadOvercommit
  <1>2. Typed /\ my[c] \in Locals /\ Lost \in Nat BY <1>1, SumsTyped DEF IInv, Typed, Counting
  <1>3. /\ l \in Locals /\ l.size_tail = my[c].size_tail /\ l.tail = my[c].tail
        /\ l.overcommit = dequeueOvercommit /\ l.want = my[c].want
    BY <1>2 DEF Locals, Typed
  <1>4. my' = [my EXCEPT ![c] = l] BY DEF LoadOvercommit
  <1> HIDE DEF l
  <1>5. Typed' /\ OnlyMoves(c) /\ pc'[c] = "check" /\ my'[c] = l
    <2>1. Goto(c, "check") BY DEF LoadOvercommit
    <2> QED BY <1>1, <1>2, <1>3, <1>4, <2>1, CountsOn DEF Typed, counters, Counting
  <1>6. Balanced' /\ WithinTail' /\ Lost' = Lost /\ \A d \in Consumers : d # c => Knows(d)'
    BY <1>1, <1>5, Quiet
  <1>7. dequeueOvercommit \in Nat /\ dooms[c] \in Nat BY <1>2 DEF Typed
  <1>8. Knows(c)'
    BY <1>1, <1>2, <1>3, <1>5, <1>6, <1>7 DEF Knows, Dequeues, IInv, counters
  <1> QED BY <1>5, <1>6, <1>8 DEF IInv

LEMMA CheckStep == ASSUME IInv, NEW c \in Consumers, Check(c) PROVE IInv'
PROOF
  <1>1. pc[c] = "check" /\ UNCHANGED counters BY DEF Check
  <1>2. CASE Desired(c) > 0
    <2> DEFINE l == [my[c] EXCEPT !.want = LeastOf(Desired(c), @), !.tail = 0]
    <2>1. Typed /\ my[c] \in Locals /\ Lost \in Nat BY <1>1, SumsTyped DEF IInv, Typed, Counting
    <2>2. Desired(c) \in Int BY <2>1 DEF Desired, Locals, Typed
    <2>3. /\ l \in Locals /\ l.size_tail = my[c].size_tail
          /\ l.overcommit = my[c].overcommit /\ l.want > 0
      <3> DEFINE n == LeastOf(Desired(c), my[c].want)
      <3>1. n \in Nat /\ n > 0
        <4>1. my[c].want \in Nat /\ my[c].want > 0 BY <1>1, <2>1 DEF Locals, IInv, Knows
        <4> QED BY <1>2, <2>2, <4>1 DEF LeastOf
      <3>2. l = [my[c] EXCEPT !.want = n, !.tail = 0] BY <2>1 DEF Locals
      <3> HIDE DEF n, l
      <3> QED BY <2>1, <3>1, <3>2 DEF Locals
    <2>4. my' = [my EXCEPT ![c] = l] /\ UNCHANGED dooms /\ Goto(c, "reserve")
      BY <1>2 DEF Check
    <2> HIDE DEF l
    <2>5. Typed' /\ OnlyMoves(c) /\ pc'[c] = "reserve" /\ my'[c] = l
      BY <1>1, <2>1, <2>3, <2>4, CountsOn DEF Typed, counters, Counting
    <2>6. Balanced' /\ WithinTail' /\ Lost' = Lost /\ \A d \in Consumers : d # c => Knows(d)'
      BY <1>1, <2>4, <2>5, Quiet
    <2>7. Knows(c)'
      BY <1>1, <2>1, <2>3, <2>4, <2>5, <2>6 DEF Knows, Dequeues, IInv, counters
    <2> QED BY <2>5, <2>6, <2>7 DEF IInv
  <1>3. CASE ~(Desired(c) > 0) BY <1>1, <1>3, FailStep DEF Check
  <1> QED BY <1>2, <1>3

\* A reservation promises no more than its second check will allow.
LEMMA ReserveStep == ASSUME IInv, NEW c \in Consumers, Reserve(c) PROVE IInv'
PROOF
  <1> DEFINE l == [my[c] EXCEPT !.count = dequeueOptimisticCount - my[c].overcommit,
                                !.overcommit = 0]
             w == my[c].want
  <1>1. /\ pc[c] = "reserve" /\ UNCHANGED <<tailIndex, headIndex, dequeueOvercommit, dooms>>
        /\ dequeueOptimisticCount' = dequeueOptimisticCount + w
        /\ my' = [my EXCEPT ![c] = l] /\ Goto(c, "reload")
    BY DEF Reserve
  <1>2. Typed /\ my[c] \in Locals BY <1>1 DEF IInv, Typed, Counting
  <1>3. /\ tailIndex \in Nat /\ headIndex \in Nat /\ dequeueOptimisticCount \in Nat
        /\ dequeueOvercommit \in Nat /\ dooms[c] \in Nat /\ w \in Nat
        /\ my[c].overcommit \in Nat
    BY <1>2 DEF Typed, Locals
  <1>4. /\ l \in Locals /\ l.size_tail = my[c].size_tail /\ l.want = w
        /\ l.count = dequeueOptimisticCount - my[c].overcommit
    <2> DEFINE n == dequeueOptimisticCount - my[c].overcommit
    <2>1. n \in Int BY <1>3
    <2>2. l = [my[c] EXCEPT !.count = n, !.overcommit = 0] OBVIOUS
    <2> HIDE DEF n, l
    <2>3. l \in Locals /\ l.size_tail = my[c].size_tail /\ l.want = my[c].want /\ l.count = n
      BY <1>2, <2>1, <2>2 DEF Locals
    <2> QED BY <2>3 DEF n
  <1> HIDE DEF l, w
  <1>5. Typed' /\ OnlyMoves(c) /\ pc'[c] = "reload" /\ my'[c] = l
    <2>1. dequeueOptimisticCount' \in Nat BY <1>1, <1>3
    <2> QED BY <1>1, <1>2, <1>4, <2>1, CountsOn DEF Typed, Counting
  <1>6. /\ Reserved(c) = 0 /\ Reserved(c)' = w /\ Losses(c) = 0 /\ Losses(c)' = 0
        /\ \A k \in Nat : MayGet(c, k) = 0
    BY <1>1, <1>4, <1>5 DEF Reserved, Losses, MayGet, MayClaim
  <1>7. /\ Pending \in Nat /\ Lost \in Nat /\ ReservedByOthers(c) = Pending
        /\ \A k \in Nat : Promised(k) \in Nat /\ Promised(k) <= Pending
    BY <1>2, <1>6, SumsTyped
  <1>8. Pending' = Pending + w /\ Lost' = Lost /\ ReservedByOthers(c)' = ReservedByOthers(c)
    BY <1>2, <1>3, <1>5, <1>6, <1>7, OneMoves
  <1>9. Balanced /\ Knows(c) /\ WithinTail BY DEF IInv
  <1>10. dequeueOptimisticCount = headIndex + dequeueOvercommit + Pending + Lost
    BY <1>9 DEF Balanced
  <1>11. my[c].overcommit <= dequeueOvercommit BY <1>1, <1>9 DEF Knows
  <1>12. Balanced' BY <1>1, <1>3, <1>7, <1>8, <1>10 DEF Balanced
  <1>13. WithinTail'
    <2> SUFFICES ASSUME NEW k \in Nat, tailIndex <= k PROVE headIndex + Promised(k)' <= k
      BY <1>1 DEF WithinTail
    <2>1. Promised(k)' = Promised(k) + MayGet(c, k)' /\ MayGet(c, k)' \in Nat
      BY <1>2, <1>5, <1>6, <1>7, OneMoves, TermsNext
    <2>2. MayGet(c, k)' = IF k > l.count THEN LeastOf(k - l.count, l.want) ELSE 0
      BY <1>5 DEF MayGet
    <2>3. CASE k > l.count
      <3>1. MayGet(c, k)' <= k - l.count BY <1>3, <1>4, <2>2, <2>3 DEF LeastOf
      <3>2. headIndex + Promised(k) <= l.count BY <1>3, <1>4, <1>7, <1>10, <1>11
      <3> QED BY <1>3, <1>4, <1>7, <2>1, <3>1, <3>2
    <2>4. CASE ~(k > l.count)
      <3>1. Promised(k)' = Promised(k) BY <1>7, <2>1, <2>2, <2>4
      <3> QED BY <1>9, <3>1 DEF WithinTail
    <2> QED BY <2>3, <2>4
  <1>14. Knows(c)'
    <2> SUFFICES ASSUME Dequeues(c)'
                 PROVE  /\ my'[c].size_tail <= tailIndex
                        /\ my'[c].count <= headIndex + ReservedByOthers(c)' + dooms[c]
      <3>1. w > 0 BY <1>1, <1>9 DEF Knows, w
      <3> QED BY <1>1, <1>4, <1>5, <3>1 DEF Knows
    <2>1. Dequeues(c) BY <1>1, <1>4, <1>5 DEF Dequeues
    <2>2. my[c].size_tail <= tailIndex /\ dequeueOvercommit + Lost <= my[c].overcommit + dooms[c]
      BY <1>1, <1>9, <2>1 DEF Knows
    <2>3. l.count <= headIndex + Pending + dooms[c]
      BY <1>3, <1>4, <1>7, <1>10, <2>2
    <2> QED BY <1>4, <1>5, <1>7, <1>8, <2>2, <2>3
  <1>15. ASSUME NEW d \in Consumers, d # c PROVE Knows(d)'
    <2>1. pc'[d] = pc[d] /\ my'[d] = my[d] /\ dooms'[d] = dooms[d]
      BY <1>1, <1>5, <1>15 DEF OnlyMoves
    <2>2. ReservedByOthers(d)' = ReservedByOthers(d) + w /\ ReservedByOthers(d) \in Nat
      BY <1>2, <1>3, <1>5, <1>6, <1>15, OneMoves, SumsTyped
    <2>3. Knows(d) /\ dooms[d] \in Nat BY <1>2 DEF IInv, Typed
    <2>4. pc[d] = "reload" => my[d].count \in Int BY <1>2 DEF Typed, Locals, Counting
    <2>5. pc[d] = "reload" /\ my[d].count <= headIndex + ReservedByOthers(d) + dooms[d] =>
            my[d].count <= headIndex + ReservedByOthers(d)' + dooms[d]
      BY <1>3, <2>2, <2>3, <2>4
    <2> QED BY <1>1, <1>8, <2>1, <2>3, <2>5 DEF Knows, Dequeues
  <1> QED BY <1>5, <1>12, <1>13, <1>14, <1>15 DEF IInv

\* The second check keeps what it may claim and counts the rest as lost.
LEMMA ReloadStep == ASSUME IInv, NEW c \in Consumers, Reload(c) PROVE IInv'
PROOF
  <1> DEFINE a == Actual(c)
             w == my[c].want
             l == [NoLocals EXCEPT !.want = a, !.lost = w - a]
             label == IF a = 0 THEN "give_up" ELSE IF w - a > 0 THEN "lost_some" ELSE "claim"
  <1>1. /\ pc[c] = "reload" /\ UNCHANGED counters
        /\ my' = [my EXCEPT ![c] = l] /\ Goto(c, label)
        /\ dooms' = [d \in Consumers |-> IF d # c /\ Dequeues(d) THEN dooms[d] + (w - a) ELSE 0]
    BY DEF Reload
  <1>2. Typed /\ my[c] \in Locals BY <1>1 DEF IInv, Typed, Counting
  <1>3. /\ tailIndex \in Nat /\ headIndex \in Nat /\ dequeueOvercommit \in Nat
        /\ w \in Nat /\ my[c].count \in Int
    BY <1>2 DEF Typed, Locals
  <1>4. a \in Nat /\ a <= w /\ a = MayGet(c, tailIndex)
    BY <1>1, <1>3 DEF Actual, MayGet, LeastOf
  <1>5. \A k \in Nat : tailIndex <= k => a <= MayGet(c, k)
    BY <1>1, <1>3 DEF Actual, MayGet, LeastOf
  <1> HIDE DEF a, w
  <1>6. l \in Locals /\ l.size_tail = 0 /\ l.want = a /\ l.lost = w - a
    <2> DEFINE n == w - a
    <2>1. n \in Nat BY <1>3, <1>4
    <2>2. l = [NoLocals EXCEPT !.want = a, !.lost = n] OBVIOUS
    <2> HIDE DEF n, l
    <2>3. l \in Locals /\ l.size_tail = 0 /\ l.want = a /\ l.lost = n
      <3>1. NoLocals.size_tail = 0 BY DEF NoLocals
      <3> QED BY <1>4, <2>1, <2>2, <3>1, NoLocalsTyped DEF Locals
    <2> QED BY <2>3 DEF n
  <1>7. label \in Counting /\ label \in {"give_up", "lost_some", "claim"} BY DEF Counting
  <1>8. (label = "give_up" => a = 0) /\ (label = "claim" => w - a = 0) BY <1>3, <1>4
  <1> HIDE DEF l, label
  <1>9. dooms' \in [Consumers -> Nat]
    <2>1. w - a \in Nat BY <1>3, <1>4
    <2> QED BY <1>1, <1>2, <2>1 DEF Typed
  <1>10. Typed' /\ OnlyMoves(c) /\ pc'[c] = label /\ my'[c] = l
    <2>1. label # "idle" BY <1>7
    <2> QED BY <1>1, <1>2, <1>6, <1>7, <1>9, <2>1, CountsOn DEF Typed, counters
  <1>11. /\ Reserved(c) = w /\ Reserved(c)' = a /\ Losses(c) = 0 /\ Losses(c)' = w - a
         /\ \A k \in Nat : MayGet(c, k)' = a
    <2>1. Reserved(c) = w /\ Losses(c) = 0 BY <1>1 DEF Reserved, Losses, w
    <2>2. Reserved(c)' = a
      BY <1>6, <1>7, <1>8, <1>10 DEF Reserved
    <2>3. Losses(c)' = w - a
      BY <1>6, <1>7, <1>8, <1>10 DEF Losses
    <2>4. \A k \in Nat : MayGet(c, k)' = a
      BY <1>6, <1>7, <1>8, <1>10 DEF MayGet, MayClaim
    <2> QED BY <2>1, <2>2, <2>3, <2>4
  <1>12. /\ Pending \in Nat /\ Lost \in Nat
         /\ Pending' = Pending + a - w /\ Lost' = Lost + (w - a)
    BY <1>2, <1>3, <1>4, <1>10, <1>11, OneMoves, SumsTyped
  <1>13. Balanced'
    <2>1. dequeueOptimisticCount = headIndex + dequeueOvercommit + Pending + Lost
      BY DEF IInv, Balanced
    <2> QED BY <1>1, <1>3, <1>4, <1>12, <2>1 DEF Balanced, counters
  <1>14. WithinTail'
    <2> SUFFICES ASSUME NEW k \in Nat, tailIndex <= k PROVE headIndex + Promised(k)' <= k
      BY <1>1 DEF WithinTail, counters
    <2>1. Promised(k)' = Promised(k) + a - MayGet(c, k) /\ MayGet(c, k) \in Nat
      BY <1>2, <1>10, <1>11, OneMoves, Terms
    <2>2. headIndex + Promised(k) <= k /\ Promised(k) \in Nat
      BY <1>2, SumsTyped DEF IInv, WithinTail
    <2>3. a <= MayGet(c, k) BY <1>5
    <2> QED BY <1>3, <1>4, <2>1, <2>2, <2>3
  <1>15. Knows(c)' BY <1>6, <1>7, <1>10 DEF Knows, Dequeues
  <1>16. ASSUME NEW d \in Consumers, d # c PROVE Knows(d)'
    <2>1. pc'[d] = pc[d] /\ my'[d] = my[d] BY <1>10, <1>16 DEF OnlyMoves
    <2>2. Dequeues(d)' <=> Dequeues(d) BY <2>1 DEF Dequeues
    <2>3. Dequeues(d) => dooms'[d] = dooms[d] + (w - a) BY <1>1, <1>16
    <2>4. ReservedByOthers(d)' = ReservedByOthers(d) + a - w /\ ReservedByOthers(d) \in Nat
      BY <1>2, <1>10, <1>11, <1>16, OneMoves, SumsTyped
    <2>5. Knows(d) /\ dooms[d] \in Nat BY <1>2 DEF IInv, Typed
    <2>6. pc[d] \in Counting => my[d].count \in Int /\ my[d].overcommit \in Nat
      BY <1>2 DEF Typed, Locals
    <2>7. ASSUME Dequeues(d)
          PROVE  /\ pc[d] \in {"size", "tail", "overcommit"} => Lost' <= dooms'[d]
                 /\ pc[d] \in {"check", "reserve"} =>
                      dequeueOvercommit + Lost' <= my[d].overcommit + dooms'[d]
                 /\ pc[d] = "reload" =>
                      my[d].count <= headIndex + ReservedByOthers(d)' + dooms'[d]
      <3>1. CASE pc[d] \in {"size", "tail", "overcommit"}
        <4>1. Lost <= dooms[d] BY <2>5, <2>7, <3>1 DEF Knows
        <4> QED BY <1>3, <1>4, <1>12, <2>3, <2>5, <2>7, <3>1, <4>1
      <3>2. CASE pc[d] \in {"check", "reserve"}
        <4>1. dequeueOvercommit + Lost <= my[d].overcommit + dooms[d]
          BY <2>5, <2>7, <3>2 DEF Knows
        <4>2. my[d].overcommit \in Nat BY <2>6, <3>2 DEF Counting
        <4> QED BY <1>3, <1>4, <1>12, <2>3, <2>5, <2>7, <3>2, <4>1, <4>2
      <3>3. CASE pc[d] = "reload"
        <4>1. my[d].count <= headIndex + ReservedByOthers(d) + dooms[d]
          BY <2>5, <2>7, <3>3 DEF Knows
        <4>2. my[d].count \in Int BY <2>6, <3>3 DEF Counting
        <4> QED BY <1>3, <1>4, <2>3, <2>4, <2>5, <2>7, <3>3, <4>1, <4>2
      <3> QED BY <3>1, <3>2, <3>3
    <2> QED BY <1>1, <2>1, <2>2, <2>5, <2>7 DEF Knows, counters
  <1> QED BY <1>10, <1>13, <1>14, <1>15, <1>16 DEF IInv

\* What is lost becomes overcommitted.
LEMMA MakeGoodStep == ASSUME IInv, NEW c \in Consumers, MakeGood(c) PROVE IInv'
PROOF
  <1> DEFINE n == my[c].lost
             l == IF pc[c] = "give_up" THEN NoLocals ELSE [my[c] EXCEPT !.lost = 0]
             label == IF pc[c] = "give_up" THEN "idle" ELSE "claim"
  <1>1. /\ pc[c] \in {"give_up", "lost_some"}
        /\ UNCHANGED <<tailIndex, headIndex, dequeueOptimisticCount, dooms>>
        /\ dequeueOvercommit' = dequeueOvercommit + n
        /\ my' = [my EXCEPT ![c] = l] /\ Goto(c, label)
    <2>1. my' = [my EXCEPT ![c] = l] BY DEF MakeGood
    <2>2. Goto(c, label) BY DEF MakeGood
    <2>3. dequeueOvercommit' = dequeueOvercommit + n BY DEF MakeGood, MadeGood
    <2> HIDE DEF l, n, label
    <2> QED BY <2>1, <2>2, <2>3 DEF MakeGood
  <1>2. Typed /\ my[c] \in Locals BY <1>1 DEF IInv, Typed, Counting
  <1>3. /\ tailIndex \in Nat /\ headIndex \in Nat /\ dequeueOptimisticCount \in Nat
        /\ dequeueOvercommit \in Nat /\ n \in Nat
    BY <1>2 DEF Typed, Locals
  <1>4. /\ l \in Locals
        /\ label = "idle" => l = NoLocals
        /\ label = "claim" => l.want = my[c].want
    BY <1>2, NoLocalsTyped DEF Locals
  <1>5. (label = "idle" /\ pc[c] = "give_up") \/ (label = "claim" /\ pc[c] = "lost_some")
    BY <1>1
  <1> HIDE DEF l, n, label
  <1>6. Typed' /\ OnlyMoves(c) /\ pc'[c] = label /\ my'[c] = l
    <2>1. dequeueOvercommit' \in Nat BY <1>1, <1>3
    <2>2. label \in Counting BY <1>5 DEF Counting
    <2> QED BY <1>1, <1>2, <1>4, <2>1, <2>2, CountsOn DEF Typed
  <1>7. /\ Reserved(c)' = Reserved(c) /\ Losses(c) = n /\ Losses(c)' = 0
        /\ \A k \in Nat : MayGet(c, k)' = MayGet(c, k)
    BY <1>4, <1>5, <1>6 DEF Reserved, Losses, MayGet, MayClaim, n
  <1>8. /\ Pending' = Pending /\ Lost' = Lost - n /\ Pending \in Nat /\ Lost \in Nat
    BY <1>2, <1>3, <1>6, <1>7, OneMoves, SumsTyped, Terms
  <1>9. Balanced'
    <2>1. dequeueOptimisticCount = headIndex + dequeueOvercommit + Pending + Lost
      BY DEF IInv, Balanced
    <2> QED BY <1>1, <1>3, <1>8, <2>1 DEF Balanced
  <1>10. WithinTail'
    <2>1. \A k \in Nat : Promised(k)' = Promised(k)
      BY <1>2, <1>6, <1>7, OneMoves, SumsTyped, Terms
    <2> QED BY <1>1, <2>1 DEF IInv, WithinTail
  <1>11. Knows(c)' BY <1>5, <1>6 DEF Knows, Dequeues
  <1>12. ASSUME NEW d \in Consumers, d # c PROVE Knows(d)'
    <2>1. pc'[d] = pc[d] /\ my'[d] = my[d] /\ dooms'[d] = dooms[d]
      BY <1>1, <1>6, <1>12 DEF OnlyMoves
    <2>2. ReservedByOthers(d)' = ReservedByOthers(d)
      BY <1>2, <1>6, <1>7, <1>12, OneMoves, SumsTyped, Terms
    <2>3. Knows(d) /\ dooms[d] \in Nat BY <1>2 DEF IInv, Typed
    <2>4. pc[d] \in Counting => my[d].overcommit \in Nat BY <1>2 DEF Typed, Locals
    <2>5. /\ Lost <= dooms[d] => Lost' <= dooms[d]
          /\ dequeueOvercommit' + Lost' = dequeueOvercommit + Lost
      BY <1>1, <1>3, <1>8, <2>3
    <2>6. pc[d] \in {"check", "reserve"} /\ my[d].overcommit <= dequeueOvercommit =>
            my[d].overcommit <= dequeueOvercommit'
      BY <1>1, <1>3, <2>4 DEF Counting
    <2> QED BY <1>1, <2>1, <2>2, <2>3, <2>5, <2>6 DEF Knows, Dequeues
  <1> QED BY <1>6, <1>9, <1>10, <1>11, <1>12 DEF IInv

\* A claim turns what was promised into what is taken.
LEMMA ClaimStep == ASSUME IInv, NEW c \in Consumers, Claim(c) PROVE IInv'
PROOF
  <1> DEFINE w == my[c].want
  <1>1. /\ pc[c] = "claim" /\ Goto(c, "header")
        /\ UNCHANGED <<tailIndex, dequeueOptimisticCount, dequeueOvercommit, dooms>>
        /\ headIndex' = headIndex + w
    BY DEF Claim
  <1>2. Typed /\ my[c] \in Locals BY <1>1 DEF IInv, Typed, Counting
  <1>3. /\ tailIndex \in Nat /\ headIndex \in Nat /\ dequeueOptimisticCount \in Nat
        /\ dequeueOvercommit \in Nat /\ w \in Nat
    BY <1>2 DEF Typed, Locals
  <1> HIDE DEF w
  <1>4. Typed' /\ OnlyMoves(c) /\ pc'[c] = "header"
    <2>1. PICK l : my' = [my EXCEPT ![c] = l] BY DEF Claim
    <2>2. /\ pc' \in [Consumers -> Counting \cup Finding] /\ pc'[c] = "header"
          /\ OnlyMoves(c) /\ my' = [d \in Consumers |-> my'[d]]
      BY <1>1, <1>2, <2>1 DEF Typed, Goto, OnlyMoves, Finding, Looking
    <2>3. headIndex' \in Nat BY <1>1, <1>3
    <2>4. ASSUME NEW d \in Consumers
          PROVE  /\ pc'[d] \in Counting => my'[d] \in Locals
                 /\ pc'[d] = "idle" => my'[d] = NoLocals
      <3>1. CASE d = c BY <2>2, <3>1 DEF Counting
      <3>2. CASE d # c BY <1>2, <2>2, <3>2 DEF Typed, OnlyMoves
      <3> QED BY <3>1, <3>2
    <2> QED BY <1>1, <1>2, <2>2, <2>3, <2>4 DEF Typed
  <1>5. /\ Reserved(c) = w /\ Reserved(c)' = 0 /\ Losses(c) = 0 /\ Losses(c)' = 0
        /\ \A k \in Nat : MayGet(c, k) = w /\ MayGet(c, k)' = 0
    BY <1>1, <1>4 DEF Reserved, Losses, MayGet, MayClaim, w
  <1>6. /\ Pending' = Pending - w /\ Lost' = Lost /\ Pending \in Nat /\ Lost \in Nat
    BY <1>2, <1>3, <1>4, <1>5, OneMoves, SumsTyped
  <1>7. Balanced'
    <2>1. dequeueOptimisticCount = headIndex + dequeueOvercommit + Pending + Lost
      BY DEF IInv, Balanced
    <2> QED BY <1>1, <1>3, <1>6, <2>1 DEF Balanced
  <1>8. WithinTail'
    <2> SUFFICES ASSUME NEW k \in Nat, tailIndex <= k PROVE headIndex' + Promised(k)' <= k
      BY <1>1 DEF WithinTail
    <2>1. Promised(k)' = Promised(k) - w /\ Promised(k) \in Nat
      BY <1>2, <1>3, <1>4, <1>5, OneMoves, SumsTyped
    <2>2. headIndex + Promised(k) <= k BY DEF IInv, WithinTail
    <2> QED BY <1>1, <1>3, <2>1, <2>2
  <1>9. Knows(c)' BY <1>4 DEF Knows, Dequeues
  <1>10. ASSUME NEW d \in Consumers, d # c PROVE Knows(d)'
    <2>1. pc'[d] = pc[d] /\ my'[d] = my[d] /\ dooms'[d] = dooms[d]
      BY <1>1, <1>4, <1>10 DEF OnlyMoves
    <2>2. ReservedByOthers(d)' = ReservedByOthers(d) - w /\ ReservedByOthers(d) \in Nat
      BY <1>2, <1>3, <1>4, <1>5, <1>10, OneMoves, SumsTyped
    <2>3. headIndex' + ReservedByOthers(d)' = headIndex + ReservedByOthers(d)
      BY <1>1, <1>3, <2>2
    <2> QED BY <1>1, <1>6, <2>1, <2>3 DEF Knows, Dequeues, IInv
  <1> QED BY <1>4, <1>7, <1>8, <1>9, <1>10 DEF IInv

\* What was claimed is looked up and taken beside the counters.
LEMMA FindsStep == ASSUME IInv, NEW c \in Consumers, Finds(c) PROVE IInv'
PROOF
  <1>1. Typed BY DEF IInv
  <1>2. /\ UNCHANGED <<counters, dooms>>
        /\ pc' \in [Consumers -> Counting \cup Finding]
        /\ pc[c] \in Finding /\ pc'[c] \in Finding \cup {"idle"}
        /\ OnlyMoves(c)
        /\ my' = [d \in Consumers |-> my'[d]]
        /\ pc'[c] = "idle" => my'[c] = NoLocals
    BY <1>1, FindsEffect
  <1>3. Typed'
    <2>1. ASSUME NEW d \in Consumers
          PROVE  /\ pc'[d] \in Counting => my'[d] \in Locals
                 /\ pc'[d] = "idle" => my'[d] = NoLocals
      <3>1. CASE d = c BY <1>2, <3>1, NoLocalsTyped DEF Counting, Finding, Looking
      <3>2. CASE d # c BY <1>1, <1>2, <3>2 DEF Typed, OnlyMoves
      <3> QED BY <3>1, <3>2
    <2> QED BY <1>1, <1>2, <2>1 DEF Typed, counters
  <1>4. Balanced' /\ WithinTail' /\ \A d \in Consumers : d # c => Knows(d)'
    BY <1>2, <1>3, Quiet DEF Finding, Looking
  <1>5. Knows(c)' BY <1>2 DEF Knows, Dequeues, Finding, Looking
  <1> QED BY <1>3, <1>4, <1>5 DEF IInv

\* A larger tail only admits more.
LEMMA TailGrows ==
  ASSUME IInv,
         UNCHANGED <<headIndex, dequeueOptimisticCount, dequeueOvercommit, consumerVars>>,
         tailIndex' = tailIndex \/ tailIndex' = tailIndex + 1
  PROVE  IInv'
PROOF
  <1>1. /\ UNCHANGED <<headIndex, dequeueOptimisticCount, dequeueOvercommit, pc, my, dooms>>
        /\ tailIndex' = tailIndex \/ tailIndex' = tailIndex + 1
    BY DEF consumerVars
  <1>2. Typed /\ tailIndex \in Nat BY DEF IInv, Typed
  <1>3. tailIndex' \in Nat /\ tailIndex <= tailIndex' BY <1>1, <1>2
  <1>4. Typed' BY <1>1, <1>2, <1>3 DEF Typed
  <1>5. Pending' = Pending /\ Lost' = Lost
    BY <1>1 DEF Pending, Lost, Reserved, Losses, SumOf
  <1>6. \A k : Promised(k)' = Promised(k) BY <1>1 DEF Promised, MayGet, MayClaim, SumOf
  <1>7. \A c : ReservedByOthers(c)' = ReservedByOthers(c)
    BY <1>1 DEF ReservedByOthers, Reserved, SumOf
  <1>8. Balanced' BY <1>1, <1>5 DEF IInv, Balanced
  <1>9. WithinTail' BY <1>1, <1>2, <1>3, <1>6 DEF IInv, WithinTail
  <1>10. ASSUME NEW c \in Consumers PROVE Knows(c)'
    <2>1. Dequeues(c) /\ my[c].size_tail <= tailIndex => my[c].size_tail <= tailIndex'
      <3>1. Dequeues(c) => my[c].size_tail \in Nat
        BY <1>2 DEF Dequeues, Typed, Counting, Locals
      <3> QED BY <1>2, <1>3, <3>1
    <2> QED BY <1>1, <1>5, <1>7, <2>1 DEF IInv, Knows, Dequeues
  <1> QED BY <1>4, <1>8, <1>9, <1>10 DEF IInv

\* Every step keeps the invariant.
LEMMA Step == IInv /\ [Next]_vars => IInv'
PROOF
  <1> SUFFICES ASSUME IInv, [Next]_vars PROVE IInv' OBVIOUS
  <1>1. CASE ProducerStep BY <1>1, ProducerEffect, TailGrows
  <1>2. ASSUME NEW c \in Consumers, ConsumerStep(c) PROVE IInv'
    BY <1>2, BeginStep, BeginBulkStep, LoadHeadStep, LoadTailStep, LoadOvercommitStep, CheckStep,
       ReserveStep, ReloadStep, MakeGoodStep, ClaimStep, FindsStep
    DEF ConsumerStep, Finds
  <1>3. CASE UNCHANGED vars BY <1>3, TailGrows DEF vars, counters
  <1> QED BY <1>1, <1>2, <1>3 DEF Next

-----------------------------------------------------------------------------
(* The theorems about the counters.                                        *)

\* A step of a consumer moves that consumer, from the place the step belongs to.
LEMMA Guards ==
  ASSUME NEW c \in Consumers, ConsumerStep(c)
  PROVE  /\ \E label : pc' = [pc EXCEPT ![c] = label]
         /\ pc[c] = "size" => LoadHead(c)
         /\ pc[c] = "check" => Check(c)
         /\ pc[c] = "reload" => Reload(c)
PROOF
  <1> USE DEF Goto
  <1>1. CASE Begin(c) BY <1>1 DEF Begin
  <1>2. CASE LoadHead(c) BY <1>2 DEF LoadHead, Fail
  <1>3. CASE LoadTail(c) BY <1>3 DEF LoadTail
  <1>4. CASE LoadOvercommit(c) BY <1>4 DEF LoadOvercommit
  <1>5. CASE Check(c) BY <1>5 DEF Check, Fail
  <1>6. CASE Reserve(c) BY <1>6 DEF Reserve
  <1>7. CASE Reload(c) BY <1>7 DEF Reload
  <1>8. CASE MakeGood(c) BY <1>8 DEF MakeGood
  <1>9. CASE Claim(c) BY <1>9 DEF Claim
  <1>10. CASE LoadHeader(c) BY <1>10 DEF LoadHeader
  <1>11. CASE LoadSlot(c) BY <1>11 DEF LoadSlot
  <1>12. CASE FindEntry(c) BY <1>12 DEF FindEntry
  <1>13. CASE LoadValue(c) BY <1>13 DEF LoadValue
  <1>14. CASE Take(c) BY <1>14 DEF Take
  <1>15. CASE SetEmpty(c) BY <1>15 DEF SetEmpty, NextBlock
  <1>16. CASE ClearEntry(c) BY <1>16 DEF ClearEntry
  <1>17. CASE FreeBlock(c) BY <1>17 DEF FreeBlock, NextBlock
  <1>18. ASSUME NEW max \in 2 .. MaxBulk, BeginBulk(c, max)
         PROVE  pc[c] = "idle" /\ \E label : pc' = [pc EXCEPT ![c] = label]
    BY <1>18 DEF BeginBulk
  <1> QED BY <1>1, <1>2, <1>3, <1>4, <1>5, <1>6, <1>7, <1>8, <1>9, <1>10, <1>11, <1>12, <1>13,
             <1>14, <1>15, <1>16, <1>17, <1>18
          DEF ConsumerStep

LEMMA WhoMoves ==
  ASSUME Typed, Next, NEW c \in Consumers, pc'[c] # pc[c]
  PROVE  ConsumerStep(c)
PROOF
  <1>1. ~ProducerStep BY ProducerEffect DEF consumerVars
  <1>2. PICK d \in Consumers : ConsumerStep(d) BY <1>1 DEF Next
  <1>3. PICK label : pc' = [pc EXCEPT ![d] = label] BY <1>2, Guards
  <1>4. d = c BY <1>3 DEF Typed
  <1> QED BY <1>2, <1>4

\* IInv is an invariant of the specification.
THEOREM Invariance == Spec => []IInv
  BY InitIInv, Step, PTL DEF Spec

\* Nothing is claimed, or will be after its second check, that was not enqueued.
THEOREM NothingClaimedEarly == Spec => []ClaimsAreEnqueued
PROOF
  <1>1. IInv => ClaimsAreEnqueued
    <2> SUFFICES ASSUME IInv PROVE ClaimsAreEnqueued OBVIOUS
    <2> DEFINE f == [c \in Consumers |-> MayClaim(c)]
               g == [c \in Consumers |-> MayGet(c, tailIndex)]
    <2>1. Typed /\ tailIndex \in Nat /\ headIndex \in Nat BY DEF IInv, Typed
    <2>2. f \in [Consumers -> Nat] /\ g \in [Consumers -> Nat] BY <2>1, Terms
    <2>3. \A c \in Consumers : f[c] <= g[c] BY <2>1, Terms
    <2>4. Promised(tailIndex) = SumOf(g) BY DEF Promised
    <2> HIDE DEF f, g
    <2>5. SumOf(f) \in Nat /\ SumOf(g) \in Nat /\ SumOf(f) <= SumOf(g)
      BY <2>2, <2>3, UnitsFinite, SumAtMost
    <2>6. headIndex + SumOf(g) <= tailIndex BY <2>1, <2>4 DEF IInv, WithinTail
    <2>7. headIndex + SumOf(f) <= tailIndex BY <2>1, <2>5, <2>6
    <2>8. ASSUME NEW c \in Consumers, pc[c] = "reserve"
          PROVE  my[c].overcommit <= dequeueOptimisticCount
      <3>1. my[c].overcommit \in Nat /\ my[c].overcommit <= dequeueOvercommit
        BY <2>1, <2>8 DEF IInv, Knows, Typed, Counting, Locals
      <3>2. Pending \in Nat /\ Lost \in Nat BY <2>1, SumsTyped
      <3>3. dequeueOptimisticCount = headIndex + dequeueOvercommit + Pending + Lost
        BY DEF IInv, Balanced
      <3>4. dequeueOvercommit \in Nat BY <2>1 DEF Typed
      <3> QED BY <2>1, <3>1, <3>2, <3>3, <3>4
    <2> QED BY <2>7, <2>8 DEF ClaimsAreEnqueued, f
  <1> QED BY <1>1, Invariance, PTL

\* A try_dequeue fails only for as many elements as others reserved or lost meanwhile.
THEOREM FailuresExplained == Spec => FailureIsExplained
PROOF
  <1>1. IInv /\ [Next]_vars => [\A c \in Consumers : Excused(c)]_vars
    <2> SUFFICES ASSUME IInv, Next, NEW c \in Consumers,
                        pc[c] \in {"size", "check", "reload"}, pc'[c] \in {"idle", "give_up"}
                 PROVE  my[c].size_tail - headIndex <= ReservedByOthers(c) + dooms[c]
      BY DEF Excused
    <2>1. Typed /\ Knows(c) /\ my[c] \in Locals BY DEF IInv, Typed, Counting
    <2>2. /\ tailIndex \in Nat /\ headIndex \in Nat /\ dequeueOptimisticCount \in Nat
          /\ dequeueOvercommit \in Nat /\ dooms[c] \in Nat
          /\ my[c].size_tail \in Nat /\ my[c].tail \in Nat /\ my[c].overcommit \in Nat
          /\ my[c].count \in Int /\ my[c].want \in Nat
      BY <2>1 DEF Typed, Locals
    <2>3. ReservedByOthers(c) \in Nat /\ Pending = ReservedByOthers(c) + Reserved(c)
          /\ Pending \in Nat /\ Lost \in Nat
      BY <2>1, SumsTyped
    <2>4. ConsumerStep(c)
      <3>1. pc'[c] # pc[c] OBVIOUS
      <3> QED BY <2>1, <3>1, WhoMoves
    <2>5. CASE my[c].size_tail <= 0 BY <2>2, <2>3, <2>5
    <2>6. CASE my[c].size_tail > 0
      <3>1. Dequeues(c) BY <2>6 DEF Dequeues
      <3>2. CASE pc[c] = "size"
        <4>1. LoadHead(c) BY <2>4, <3>2, Guards
        <4>2. ~(headIndex < my[c].size_tail) BY <2>1, <4>1 DEF LoadHead, Goto, Typed
        <4> QED BY <2>2, <2>3, <4>2
      <3>3. CASE pc[c] = "check"
        <4>1. Check(c) BY <2>4, <3>3, Guards
        <4>2. ~(Desired(c) > 0) BY <2>1, <4>1 DEF Check, Goto, Typed
        <4>3. my[c].tail <= dequeueOptimisticCount - my[c].overcommit
          BY <2>2, <4>2 DEF Desired
        <4>4. /\ my[c].size_tail <= my[c].tail
              /\ dequeueOvercommit + Lost <= my[c].overcommit + dooms[c]
          BY <2>1, <3>1, <3>3 DEF Knows
        <4>5. dequeueOptimisticCount = headIndex + dequeueOvercommit + Pending + Lost
          BY DEF IInv, Balanced
        <4>6. Reserved(c) = 0 BY <3>3 DEF Reserved
        <4> QED BY <2>2, <2>3, <4>3, <4>4, <4>5, <4>6
      <3>4. CASE pc[c] = "reload"
        <4>1. Reload(c) BY <2>4, <3>4, Guards
        <4>2. Actual(c) = 0 BY <2>1, <3>4, <4>1 DEF Reload, Goto, Typed
        <4>3. my[c].want > 0 BY <2>1, <3>4 DEF Knows
        <4>4. tailIndex <= my[c].count BY <2>2, <4>2, <4>3 DEF Actual, LeastOf
        <4>5. /\ my[c].size_tail <= tailIndex
              /\ my[c].count <= headIndex + ReservedByOthers(c) + dooms[c]
          BY <2>1, <3>1, <3>4 DEF Knows
        <4> QED BY <2>2, <2>3, <4>4, <4>5
      <3> QED BY <3>2, <3>3, <3>4
    <2> QED BY <2>2, <2>5, <2>6
  <1> QED BY <1>1, Invariance, PTL DEF Spec, FailureIsExplained

-----------------------------------------------------------------------------
(* Block numbers: division by BLOCK_SIZE.                                  *)

\* The number of the block of the n-th element, counted from the first element.
BlockOf(n) == n \div BLOCK_SIZE

\* Equal up to a multiple of c: the slots of a ring of c.
Congruent(a, b, c) == \E q \in Int : a - b = q * c

\* Division with a remainder.
LEMMA DivMod ==
  ASSUME NEW x \in Int, NEW c \in Nat \ {0}
  PROVE  /\ x \div c \in Int /\ x % c \in 0 .. c - 1
         /\ x = c * (x \div c) + (x % c)
PROOF
  <1>1. x % c \in Int /\ 0 <= x % c /\ x % c < c OBVIOUS
  <1>2. x = c * (x \div c) + (x % c) OBVIOUS
  <1>3. x \div c \in Int OBVIOUS
  <1> QED BY <1>1, <1>2, <1>3

\* Only one quotient and remainder make the number up.
LEMMA DivUnique ==
  ASSUME NEW m \in Int, NEW r \in Int, NEW c \in Nat \ {0}, 0 <= r, r < c
  PROVE  (c * m + r) \div c = m /\ (c * m + r) % c = r
  OBVIOUS

\* A number is congruent to its remainder.
LEMMA CongruentMod ==
  ASSUME NEW x \in Int, NEW c \in Nat \ {0}
  PROVE  x % c \in 0 .. c - 1 /\ Congruent(x % c, x, c)
PROOF
  <1>1. /\ x \div c \in Int /\ x % c \in 0 .. c - 1
        /\ x = c * (x \div c) + (x % c)
    BY DivMod
  <1> DEFINE q == 0 - (x \div c)
  <1>2. q \in Int /\ (x % c) - x = q * c BY <1>1
  <1>3. x % c \in Int BY <1>1
  <1> HIDE DEF q
  <1> QED BY <1>1, <1>2, <1>3 DEF Congruent

\* Congruence is an equivalence that addition respects; its parts follow one by one.
LEMMA CongruentEq ==
  ASSUME NEW c \in Nat, NEW x \in Int, NEW y \in Int
  PROVE  /\ Congruent(x, x, c) /\ Congruent(x + c, x, c)
         /\ Congruent(x, y, c) => Congruent(y, x, c)
         /\ \A z \in Int : Congruent(x, y, c) /\ Congruent(y, z, c) => Congruent(x, z, c)
         /\ \A z \in Int : Congruent(x, y, c) => Congruent(x + z, y + z, c)
PROOF
  <1>1. Congruent(x, x, c) /\ Congruent(x + c, x, c)
    <2>1. x - x = 0 * c /\ (x + c) - x = 1 * c OBVIOUS
    <2> QED BY <2>1 DEF Congruent
  <1>2. ASSUME Congruent(x, y, c) PROVE Congruent(y, x, c)
    <2>1. PICK q \in Int : x - y = q * c BY <1>2 DEF Congruent
    <2>2. 0 - q \in Int /\ y - x = (0 - q) * c BY <2>1
    <2> QED BY <2>2 DEF Congruent
  <1>3. ASSUME NEW z \in Int, Congruent(x, y, c), Congruent(y, z, c) PROVE Congruent(x, z, c)
    <2>1. PICK q \in Int : x - y = q * c BY <1>3 DEF Congruent
    <2>2. PICK r \in Int : y - z = r * c BY <1>3 DEF Congruent
    <2>3. q + r \in Int /\ x - z = (q + r) * c BY <2>1, <2>2
    <2> QED BY <2>3 DEF Congruent
  <1>4. ASSUME NEW z \in Int, Congruent(x, y, c) PROVE Congruent(x + z, y + z, c)
    <2>1. PICK q \in Int : x - y = q * c BY <1>4 DEF Congruent
    <2>2. (x + z) - (y + z) = q * c BY <2>1
    <2> QED BY <2>2 DEF Congruent
  <1> QED BY <1>1, <1>2, <1>3, <1>4

\* Congruence is symmetric.
LEMMA CongruentSym ==
  ASSUME NEW c \in Nat, NEW x \in Int, NEW y \in Int, Congruent(x, y, c)
  PROVE  Congruent(y, x, c)
  BY CongruentEq

\* Congruence is transitive.
LEMMA CongruentTrans ==
  ASSUME NEW c \in Nat, NEW x \in Int, NEW y \in Int, NEW z \in Int,
         Congruent(x, y, c), Congruent(y, z, c)
  PROVE  Congruent(x, z, c)
  BY CongruentEq

\* Congruent numbers stay so when both are moved.
LEMMA CongruentAdd ==
  ASSUME NEW c \in Nat, NEW x \in Int, NEW y \in Int, NEW z \in Int, Congruent(x, y, c)
  PROVE  Congruent(x + z, y + z, c)
  BY CongruentEq

\* Congruent numbers that are less than c apart are equal.
LEMMA CongruentSame ==
  ASSUME NEW c \in Nat, NEW x \in Int, NEW y \in Int, Congruent(x, y, c), x - y < c, y - x < c
  PROVE x = y
PROOF
  <1>1. PICK q \in Int : x - y = q * c BY DEF Congruent
  <1>2. q = 0
    <2>1. CASE q >= 1
      <3>1. q * c = c + (q - 1) * c /\ (q - 1) * c >= 0 BY <2>1
      <3> QED BY <1>1, <3>1
    <2>2. CASE q <= 0 - 1
      <3>1. q * c = (q + 1) * c - c /\ (q + 1) * c <= 0 BY <2>2
      <3> QED BY <1>1, <3>1
    <2> QED BY <2>1, <2>2
  <1> QED BY <1>1, <1>2

\* Congruent for a multiple of d is congruent for d: a smaller ring fits in a larger one.
LEMMA CongruentFactor ==
  ASSUME NEW c \in Nat, NEW d \in Nat, NEW x \in Int, NEW y \in Int,
         Congruent(x, y, c), Congruent(c, 0, d)
  PROVE Congruent(x, y, d)
PROOF
  <1>1. PICK q \in Int : x - y = q * c BY DEF Congruent
  <1>2. PICK r \in Int : c - 0 = r * d BY DEF Congruent
  <1>3. q * r \in Int /\ x - y = (q * r) * d BY <1>1, <1>2
  <1> QED BY <1>3 DEF Congruent

\* The block of an index, and the indices of a block.
LEMMA BlockOfFacts ==
  ASSUME NEW n \in Nat
  PROVE  /\ BlockOf(n) \in Nat /\ n % BLOCK_SIZE \in Slots
         /\ n = BLOCK_SIZE * BlockOf(n) + (n % BLOCK_SIZE)
         /\ Base(n) = BLOCK_SIZE * BlockOf(n)
PROOF
  <1>1. BLOCK_SIZE \in Nat \ {0} BY SizeAssumption
  <1>2. /\ BlockOf(n) \in Int /\ n % BLOCK_SIZE \in 0 .. BLOCK_SIZE - 1
        /\ n = BLOCK_SIZE * BlockOf(n) + (n % BLOCK_SIZE)
    BY <1>1, DivMod DEF BlockOf
  <1>3. BlockOf(n) >= 0
    <2> DEFINE m == BlockOf(n)  r == n % BLOCK_SIZE
    <2> SUFFICES ASSUME m + 1 <= 0 PROVE FALSE BY <1>2
    <2>1. m \in Int /\ r \in 0 .. BLOCK_SIZE - 1 /\ n = BLOCK_SIZE * m + r BY <1>1, <1>2
    <2> HIDE DEF m, r
    <2>2. BLOCK_SIZE * (m + 1) <= 0 /\ BLOCK_SIZE * (m + 1) = BLOCK_SIZE * m + BLOCK_SIZE
      BY <1>1, <2>1
    <2> QED BY <1>1, <2>1, <2>2
  <1>4. Base(n) = BLOCK_SIZE * BlockOf(n)
    <2> DEFINE m == BlockOf(n)  r == n % BLOCK_SIZE
    <2>1. m \in Int /\ r \in Int /\ n = BLOCK_SIZE * m + r /\ Base(n) = n - r BY <1>1, <1>2 DEF Base
    <2> HIDE DEF m, r
    <2>2. BLOCK_SIZE * m \in Int BY <1>1, <2>1
    <2>3. n - r = BLOCK_SIZE * m BY <2>1, <2>2
    <2> QED BY <2>1, <2>3 DEF m
  <1> QED BY <1>2, <1>3, <1>4 DEF Slots

\* The block of the index before t.
Before(t) == IF t = 0 THEN -1 ELSE BlockOf(t - 1)

\* The elements of block m, and where they are in it.
LEMMA BlockOfMultiple ==
  ASSUME NEW m \in Nat
  PROVE  /\ BLOCK_SIZE * m \in Nat /\ BLOCK_SIZE * m # INVALID_BLOCK_BASE
         /\ \A r \in 0 .. BLOCK_SIZE - 1 :
              BlockOf(BLOCK_SIZE * m + r) = m /\ (BLOCK_SIZE * m + r) % BLOCK_SIZE = r
         /\ BlockOf(BLOCK_SIZE * m) = m /\ (BLOCK_SIZE * m) % BLOCK_SIZE = 0
PROOF
  <1>1. BLOCK_SIZE \in Nat \ {0} /\ BLOCK_SIZE >= 2 BY SizeAssumption
  <1>2. BLOCK_SIZE * m \in Nat BY <1>1
  <1>3. BLOCK_SIZE * m # 1
    <2>1. CASE m = 0 BY <1>1, <2>1
    <2>2. CASE m >= 1
      <3>1. BLOCK_SIZE * m = BLOCK_SIZE + BLOCK_SIZE * (m - 1) /\ BLOCK_SIZE * (m - 1) >= 0
        BY <1>1, <2>2
      <3> QED BY <1>1, <1>2, <3>1
    <2> QED BY <2>1, <2>2
  <1>4. ASSUME NEW r \in 0 .. BLOCK_SIZE - 1
        PROVE  BlockOf(BLOCK_SIZE * m + r) = m /\ (BLOCK_SIZE * m + r) % BLOCK_SIZE = r
    BY <1>1, <1>4, DivUnique DEF BlockOf
  <1>5. BlockOf(BLOCK_SIZE * m) = m /\ (BLOCK_SIZE * m) % BLOCK_SIZE = 0
    <2>1. 0 \in 0 .. BLOCK_SIZE - 1 /\ BLOCK_SIZE * m + 0 = BLOCK_SIZE * m BY <1>1, <1>2
    <2> QED BY <1>4, <2>1
  <1> QED BY <1>2, <1>3, <1>4, <1>5 DEF INVALID_BLOCK_BASE

\* Larger indices are in later blocks.
LEMMA BlockOfOrder ==
  ASSUME NEW n \in Nat, NEW t \in Nat
  PROVE  /\ n <= t => BlockOf(n) <= BlockOf(t)
         /\ n < t => BlockOf(n) <= Before(t)
         /\ n >= t /\ t % BLOCK_SIZE = 0 => BlockOf(n) > Before(t)
         /\ Before(t) \in Int /\ Before(t) >= 0 - 1 /\ Before(t + 1) = BlockOf(t)
         /\ t % BLOCK_SIZE = 0 => BlockOf(t) = Before(t) + 1 /\ t = BLOCK_SIZE * BlockOf(t)
         /\ t % BLOCK_SIZE # 0 => BlockOf(t) = Before(t)
         /\ Before(t) >= 0 => t # 0 /\ Before(t) = BlockOf(t - 1)
PROOF
  <1>1. BLOCK_SIZE \in Nat \ {0} BY SizeAssumption
  <1>2. ASSUME NEW i \in Nat, NEW j \in Nat, i <= j PROVE BlockOf(i) <= BlockOf(j)
    <2> DEFINE k == BlockOf(i)  l == BlockOf(j)  r == i % BLOCK_SIZE  s == j % BLOCK_SIZE
    <2>1. /\ k \in Nat /\ l \in Nat /\ r \in 0 .. BLOCK_SIZE - 1 /\ s \in 0 .. BLOCK_SIZE - 1
          /\ i = BLOCK_SIZE * k + r /\ j = BLOCK_SIZE * l + s
      BY <1>2, BlockOfFacts DEF Slots
    <2> HIDE DEF k, l, r, s
    <2>2. SUFFICES ASSUME k >= l + 1 PROVE FALSE BY <2>1 DEF k, l
    <2>3. BLOCK_SIZE * k = BLOCK_SIZE * l + BLOCK_SIZE * (k - l)
          /\ BLOCK_SIZE * (k - l) = BLOCK_SIZE + BLOCK_SIZE * (k - l - 1)
          /\ BLOCK_SIZE * (k - l - 1) >= 0 /\ BLOCK_SIZE * l \in Nat
      BY <1>1, <2>1, <2>2
    <2> QED BY <1>1, <1>2, <2>1, <2>3
  <1>3. ASSUME NEW i \in Nat PROVE BlockOf(i) \in Nat BY <1>3, BlockOfFacts
  <1>4. Before(t) \in Int /\ Before(t) >= 0 - 1 BY <1>3 DEF Before
  <1>5. Before(t + 1) = BlockOf(t)
    <2>1. t + 1 # 0 /\ (t + 1) - 1 = t OBVIOUS
    <2> QED BY <2>1 DEF Before
  <1>6. n < t => BlockOf(n) <= Before(t)
    <2> SUFFICES ASSUME n < t PROVE BlockOf(n) <= Before(t) OBVIOUS
    <2>1. t # 0 /\ t - 1 \in Nat /\ n <= t - 1 OBVIOUS
    <2> QED BY <1>2, <2>1 DEF Before
  <1>7. ASSUME t % BLOCK_SIZE = 0
        PROVE  BlockOf(t) = Before(t) + 1 /\ t = BLOCK_SIZE * BlockOf(t)
    <2> DEFINE k == BlockOf(t)
    <2>1. k \in Nat /\ t = BLOCK_SIZE * k + 0 BY <1>7, BlockOfFacts
    <2> HIDE DEF k
    <2>2. t = BLOCK_SIZE * k BY <1>1, <2>1
    <2>3. CASE k = 0
      <3>1. t = 0 BY <1>1, <2>2, <2>3
      <3> QED BY <2>2, <2>3, <3>1 DEF Before, k
    <2>4. CASE k # 0
      <3>1. k - 1 \in Nat /\ BLOCK_SIZE - 1 \in 0 .. BLOCK_SIZE - 1 BY <1>1, <2>1, <2>4
      <3>2. BLOCK_SIZE * k = BLOCK_SIZE * (k - 1) + BLOCK_SIZE /\ BLOCK_SIZE * (k - 1) \in Nat
        BY <1>1, <2>1, <3>1
      <3>3. t # 0 /\ t - 1 = BLOCK_SIZE * (k - 1) + (BLOCK_SIZE - 1) BY <1>1, <2>2, <3>2
      <3>4. BlockOf(t - 1) = k - 1 BY <3>1, <3>3, BlockOfMultiple
      <3> QED BY <2>1, <2>2, <3>3, <3>4 DEF Before, k
    <2> QED BY <2>3, <2>4
  <1>8. ASSUME t % BLOCK_SIZE # 0 PROVE BlockOf(t) = Before(t)
    <2> DEFINE k == BlockOf(t)  r == t % BLOCK_SIZE
    <2>1. k \in Nat /\ r \in 0 .. BLOCK_SIZE - 1 /\ r # 0 /\ t = BLOCK_SIZE * k + r
      BY <1>8, BlockOfFacts DEF Slots
    <2> HIDE DEF k, r
    <2>2. BLOCK_SIZE * k \in Nat BY <1>1, <2>1
    <2>3. t # 0 /\ t - 1 = BLOCK_SIZE * k + (r - 1) /\ r - 1 \in 0 .. BLOCK_SIZE - 1
      BY <1>1, <2>1, <2>2
    <2>4. BlockOf(t - 1) = k BY <2>1, <2>3, BlockOfMultiple
    <2> QED BY <2>3, <2>4 DEF Before, k
  <1>9. n >= t /\ t % BLOCK_SIZE = 0 => BlockOf(n) > Before(t)
    BY <1>2, <1>3, <1>4, <1>7
  <1>10. Before(t) >= 0 => t # 0 /\ Before(t) = BlockOf(t - 1) BY DEF Before
  <1> QED BY <1>2, <1>4, <1>5, <1>6, <1>7, <1>8, <1>9, <1>10

-----------------------------------------------------------------------------
(* The block index.                                                        *)

\* What the block index is made of.
Entries == 1 .. Len(entry)
EntryType == [key : Nat, value : Blocks \cup {Null, Garbage}]
HeaderType == [capacity : Nat, tail : Nat, slot : UNION {[0 .. n - 1 -> Nat] : n \in Nat}]

\* The block that an entry's key belongs to, if it has one, and whether the entry has a block.
Number(e) == IF entry[e].key = INVALID_BLOCK_BASE THEN -1 ELSE BlockOf(entry[e].key)

\* Whether the entry has a key, and whether it has a block.
Keyed(e) == Number(e) >= 0
Live(e) == entry[e].value \in Blocks

\* The labels at which the newest key has no block yet.
Speculative == {"requisition", "construct_first", "rewind", "publish"}

\* The last block that has elements, or is about to get its first, and the last one that has a key.
LastBlock == IF at \in {"construct", "store_tail"} THEN BlockOf(tailIndex) ELSE Before(tailIndex)
Newest == IF at \in Speculative THEN LastBlock + 1 ELSE LastBlock

\* The block index has at least two entries and one header.
IndexTyped ==
  /\ tailIndex \in Nat
  /\ entry \in Seq(EntryType) /\ Len(entry) >= 2
  /\ header \in Seq(HeaderType) /\ Len(header) >= 1

\* The entry of a slot of a header.
SlotsOf(h) == 0 .. header[h].capacity - 1
EntryAt(h, k) == header[h].slot[k]

\* The slots of a header number the blocks in their order, round the ring.  A header is replaced
\* when all its entries are used, and those that replace it are multiples of its size.
Aligned(h) ==
  \A k, l \in SlotsOf(h) :
    Keyed(EntryAt(h, k)) /\ Keyed(EntryAt(h, l)) =>
      Congruent(k - Number(EntryAt(h, k)), l - Number(EntryAt(h, l)), header[h].capacity)

\* A header: its slots have different entries, in the order of the block numbers round the ring;
\* one that was replaced is full of keys, and its size divides that of the present one.
HeaderOK(h) ==
  /\ header[h].capacity # 0 /\ header[h].tail \in SlotsOf(h)
  /\ \A k \in SlotsOf(h) : EntryAt(h, k) \in Entries
  /\ \A k, l \in SlotsOf(h) : EntryAt(h, k) = EntryAt(h, l) => k = l
  /\ Aligned(h)
  /\ h # blockIndex =>
       /\ \A k \in SlotsOf(h) : Keyed(EntryAt(h, k))
       /\ Congruent(header[blockIndex].capacity, 0, header[h].capacity)

\* The numbers of the entries run up to the newest block, none of them as old as the ring is
\* long.  Only the entry after the tail may be one ahead.
Ahead(e) ==
  /\ e = NewEntry /\ Number(e) = Newest + 1 /\ ~Live(e)
  /\ at \in {"idle", "insert", "advance", "empty_entry"} /\ tailIndex % BLOCK_SIZE = 0

\* An entry: it has the key of one of the newest blocks, no number is left out between it and the
\* newest, and it has no garbage but where the producer is about to write.
EntryOK(e) ==
  /\ Keyed(e) => entry[e].key = BLOCK_SIZE * Number(e)
  /\ ~Keyed(e) => ~Live(e)
  /\ Keyed(e) => Number(e) > Newest - Len(entry)
  /\ Number(e) <= Newest \/ Ahead(e)
  /\ Keyed(e) => \A m \in Int : Number(e) <= m /\ m <= Newest => \E f \in Entries : Number(f) = m
  /\ Keyed(e) /\ entry[e].value = Garbage =>
       \/ at \in {"advance", "empty_entry"} /\ e = NewEntry
       \/ at \in Speculative /\ e = TailEntry

\* The present header has every entry, and its tail has the newest block.
CurrentOK ==
  /\ header[blockIndex].capacity = Len(entry)
  /\ \A e \in Entries : \E k \in SlotsOf(blockIndex) : EntryAt(blockIndex, k) = e
  /\ LastBlock >= 0 => \E e \in Entries : Number(e) = LastBlock
  /\ Newest >= 0 => Number(TailEntry) = Newest

\* What the producer has done at each label.
StageOK ==
  /\ at \in {"advance", "empty_entry"} => Number(NewEntry) = Newest + 1
  /\ at \in Speculative => ~Live(TailEntry)
  /\ at \in Speculative \cup {"insert", "advance", "empty_entry"} => tailIndex % BLOCK_SIZE = 0
  /\ at = "construct" /\ ~noexcept => tailIndex % BLOCK_SIZE # 0

\* The block index.
IndexOK ==
  /\ IndexTyped
  /\ \A h \in 1 .. blockIndex : HeaderOK(h)
  /\ \A e \in Entries : EntryOK(e)
  /\ CurrentOK /\ StageOK

\* Numbers are integers.
LEMMA NumberTyped ==
  ASSUME IndexTyped, NEW e \in Entries
  PROVE  /\ Number(e) \in Int /\ Number(e) >= 0 - 1
         /\ entry[e].key \in Nat /\ entry[e].value \in Blocks \cup {Null, Garbage}
         /\ Keyed(e) <=> entry[e].key # INVALID_BLOCK_BASE
PROOF
  <1>1. entry[e] \in EntryType BY DEF IndexTyped, Entries
  <1>2. entry[e].key \in Nat /\ entry[e].value \in Blocks \cup {Null, Garbage}
    BY <1>1 DEF EntryType
  <1>3. BlockOf(entry[e].key) \in Nat BY <1>2, BlockOfFacts
  <1> QED BY <1>2, <1>3 DEF Number, Keyed

\* The numbers of the newest blocks are integers.
LEMMA NewestTyped ==
  ASSUME tailIndex \in Nat
  PROVE  LastBlock \in Int /\ LastBlock >= 0 - 1 /\ Newest \in Int /\ Newest >= LastBlock
PROOF
  <1>1. BlockOf(tailIndex) \in Nat BY BlockOfFacts
  <1>2. Before(tailIndex) \in Int /\ Before(tailIndex) >= 0 - 1 BY BlockOfOrder
  <1> QED BY <1>1, <1>2 DEF LastBlock, Newest

\* What a header in use has in its fields.
LEMMA HeaderTyped ==
  ASSUME IndexOK, NEW h \in 1 .. blockIndex
  PROVE  /\ header[h].capacity \in Nat \ {0} /\ header[h].tail \in SlotsOf(h)
         /\ \A k \in SlotsOf(h) : k \in Int /\ EntryAt(h, k) \in Entries
PROOF
  <1>1. header[h] \in HeaderType BY DEF IndexOK, IndexTyped, blockIndex
  <1>2. header[h].capacity \in Nat BY <1>1 DEF HeaderType
  <1> QED BY <1>2 DEF IndexOK, HeaderOK, SlotsOf

\* Which is the current header, and its two entries at the tail.
LEMMA Current ==
  ASSUME IndexOK
  PROVE  /\ blockIndex \in 1 .. blockIndex
         /\ SlotsOf(blockIndex) = 0 .. Len(entry) - 1 /\ Len(entry) \in Nat \ {0, 1}
         /\ header[blockIndex].capacity = Len(entry)
         /\ header[blockIndex].tail \in SlotsOf(blockIndex)
         /\ NewTail(blockIndex) \in SlotsOf(blockIndex)
         /\ NewTail(blockIndex) # header[blockIndex].tail
         /\ Congruent(NewTail(blockIndex), header[blockIndex].tail + 1, Len(entry))
         /\ TailEntry = EntryAt(blockIndex, header[blockIndex].tail) /\ TailEntry \in Entries
         /\ NewEntry = EntryAt(blockIndex, NewTail(blockIndex)) /\ NewEntry \in Entries
         /\ NewEntry # TailEntry
PROOF
  <1> DEFINE c == Len(entry)  t == header[blockIndex].tail
  <1>1. blockIndex \in 1 .. blockIndex BY DEF IndexOK, IndexTyped, blockIndex
  <1>2. c \in Nat /\ c >= 2 BY DEF IndexOK, IndexTyped
  <1>3. header[blockIndex].capacity = c BY DEF IndexOK, CurrentOK
  <1>4. SlotsOf(blockIndex) = 0 .. c - 1 BY <1>3 DEF SlotsOf
  <1>5. t \in 0 .. c - 1 BY <1>1, <1>4, HeaderTyped
  <1>6. NewTail(blockIndex) = (t + 1) % c BY <1>3 DEF NewTail
  <1> HIDE DEF c, t
  <1>7. (t + 1) % c \in 0 .. c - 1 /\ Congruent((t + 1) % c, t + 1, c)
    BY <1>2, <1>5, CongruentMod
  <1>8. (t + 1) % c # t
    <2>1. SUFFICES ASSUME Congruent(t, t + 1, c) PROVE FALSE BY <1>7
    <2>2. t \in Int /\ t + 1 \in Int /\ t - (t + 1) < c /\ (t + 1) - t < c /\ t # t + 1
      BY <1>2, <1>5
    <2> QED BY <1>2, <2>1, <2>2, CongruentSame
  <1>9. /\ TailEntry = EntryAt(blockIndex, t) /\ NewEntry = EntryAt(blockIndex, NewTail(blockIndex))
    BY DEF TailEntry, NewEntry, EntryAt, t
  <1>10. TailEntry \in Entries /\ NewEntry \in Entries
    BY <1>1, <1>4, <1>5, <1>6, <1>7, <1>9, HeaderTyped
  <1>11. NewEntry # TailEntry
    BY <1>1, <1>4, <1>5, <1>6, <1>7, <1>8, <1>9 DEF IndexOK, HeaderOK
  <1>12. c = Len(entry) /\ t = header[blockIndex].tail BY DEF c, t
  <1>13. c \in Nat \ {0, 1} BY <1>2
  <1> QED BY <1>1, <1>3, <1>4, <1>5, <1>6, <1>7, <1>8, <1>9, <1>10, <1>11, <1>12, <1>13

\* An entry that is d blocks later is d slots further round the ring, and the other way round.
LEMMA Offset ==
  ASSUME IndexOK, NEW h \in 1 .. blockIndex, NEW k \in SlotsOf(h), NEW l \in SlotsOf(h),
         Keyed(EntryAt(h, k)), Keyed(EntryAt(h, l)), NEW d \in Int
  PROVE  /\ Number(EntryAt(h, l)) = Number(EntryAt(h, k)) + d => l = (k + d) % header[h].capacity
         /\ Congruent(l, k + d, header[h].capacity) =>
              Congruent(Number(EntryAt(h, l)), Number(EntryAt(h, k)) + d, header[h].capacity)
PROOF
  <1> DEFINE c == header[h].capacity  m == Number(EntryAt(h, k))  n == Number(EntryAt(h, l))
  <1>1. c \in Nat \ {0} /\ k \in 0 .. c - 1 /\ l \in 0 .. c - 1 BY HeaderTyped DEF SlotsOf
  <1>2. m \in Int /\ n \in Int BY HeaderTyped, NumberTyped DEF IndexOK
  <1>3. Congruent(k - m, l - n, c) BY DEF IndexOK, HeaderOK, Aligned
  <1> HIDE DEF c, m, n
  <1>4. ASSUME n = m + d PROVE l = (k + d) % c
    <2>1. (k + d) % c \in 0 .. c - 1 /\ Congruent((k + d) % c, k + d, c)
      <3>1. k + d \in Int BY <1>1
      <3> QED BY <1>1, <3>1, CongruentMod
    <2>2. Congruent(k - m + n, l - n + n, c)
      <3>1. k - m \in Int /\ l - n \in Int BY <1>1, <1>2
      <3> QED BY <1>1, <1>2, <1>3, <3>1, CongruentEq
    <2>3. k - m + n = k + d /\ l - n + n = l BY <1>1, <1>2, <1>4
    <2>4. Congruent(k + d, l, c) BY <2>2, <2>3
    <2>5. Congruent((k + d) % c, l, c)
      <3>1. k + d \in Int /\ (k + d) % c \in Int /\ l \in Int BY <1>1, <2>1
      <3> QED BY <1>1, <2>1, <2>4, <3>1, CongruentEq
    <2>6. (k + d) % c \in Int /\ l \in Int /\ ((k + d) % c) - l < c /\ l - ((k + d) % c) < c
      BY <1>1, <2>1
    <2> QED BY <1>1, <2>5, <2>6, CongruentSame
  <1>5. ASSUME Congruent(l, k + d, c) PROVE Congruent(n, m + d, c)
    <2>1. /\ k - m \in Int /\ l - n \in Int /\ k + d \in Int /\ l \in Int
          /\ k - m + (n + m) = k + n /\ l - n + (n + m) = l + m
          /\ k + n \in Int /\ l + m \in Int
      BY <1>1, <1>2
    <2>2. Congruent(k + n, l + m, c)
      <3>1. n + m \in Int BY <1>2
      <3>2. Congruent(k - m + (n + m), l - n + (n + m), c)
        BY <1>1, <1>3, <2>1, <3>1, CongruentEq
      <3> QED BY <2>1, <3>2
    <2>3. Congruent(l + m, k + d + m, c) BY <1>1, <1>2, <1>5, <2>1, CongruentEq
    <2>4. Congruent(k + n, k + d + m, c)
      <3>1. k + d + m \in Int BY <1>1, <1>2
      <3> QED BY <1>1, <2>1, <2>2, <2>3, <3>1, CongruentEq
    <2>5. Congruent(k + n + (0 - k), k + d + m + (0 - k), c)
      <3>1. k + d + m \in Int /\ 0 - k \in Int BY <1>1, <1>2
      <3> QED BY <1>1, <2>1, <2>4, <3>1, CongruentEq
    <2>6. k + n + (0 - k) = n /\ k + d + m + (0 - k) = m + d BY <1>1, <1>2
    <2> QED BY <2>5, <2>6
  <1>6. c = header[h].capacity /\ m = Number(EntryAt(h, k)) /\ n = Number(EntryAt(h, l))
    BY DEF c, m, n
  <1> QED BY <1>4, <1>5, <1>6

\* No two entries have the same number.
LEMMA SameNumber ==
  ASSUME IndexOK, NEW e \in Entries, NEW f \in Entries, Keyed(e), Number(e) = Number(f)
  PROVE  e = f
PROOF
  <1>1. PICK k \in SlotsOf(blockIndex) : EntryAt(blockIndex, k) = e BY DEF IndexOK, CurrentOK
  <1>2. PICK l \in SlotsOf(blockIndex) : EntryAt(blockIndex, l) = f BY DEF IndexOK, CurrentOK
  <1>3. /\ blockIndex \in 1 .. blockIndex /\ k \in Int /\ l \in Int /\ 0 \in Int
        /\ k + 0 = k
    BY Current, HeaderTyped
  <1>4. Number(e) \in Int /\ Number(f) = Number(e) + 0 /\ Keyed(f) /\ Number(e) = Number(e) + 0
    BY NumberTyped DEF IndexOK, Keyed
  <1>5. l = (k + 0) % header[blockIndex].capacity /\ k = (k + 0) % header[blockIndex].capacity
    BY <1>1, <1>2, <1>3, <1>4, Offset
  <1> QED BY <1>1, <1>2, <1>5

\* The entry after the tail has no number, is the oldest in the ring, or one ahead.
LEMMA NewEntryNumber ==
  ASSUME IndexOK, Keyed(NewEntry)
  PROVE  Number(NewEntry) \in {Newest + 1, Newest + 1 - Len(entry)}
PROOF
  <1> DEFINE c == Len(entry)  n == Number(NewEntry)
  <1>1. /\ blockIndex \in 1 .. blockIndex /\ c \in Nat \ {0, 1}
        /\ header[blockIndex].capacity = c
        /\ header[blockIndex].tail \in SlotsOf(blockIndex)
        /\ NewTail(blockIndex) \in SlotsOf(blockIndex)
        /\ Congruent(NewTail(blockIndex), header[blockIndex].tail + 1, c)
        /\ TailEntry = EntryAt(blockIndex, header[blockIndex].tail) /\ TailEntry \in Entries
        /\ NewEntry = EntryAt(blockIndex, NewTail(blockIndex)) /\ NewEntry \in Entries
    BY Current
  <1>2. n \in Int /\ n >= 0 BY <1>1, NumberTyped DEF IndexOK, Keyed
  <1>3. n > Newest - c /\ (n <= Newest \/ n = Newest + 1) BY <1>1 DEF IndexOK, EntryOK, Ahead
  <1>4. Newest \in Int BY NewestTyped DEF IndexOK, IndexTyped
  <1>5. CASE n = Newest + 1 BY <1>5
  <1>6. CASE n <= Newest
    <2>1. Newest >= 0 BY <1>2, <1>4, <1>6
    <2>2. Number(TailEntry) = Newest /\ Keyed(TailEntry) BY <2>1 DEF IndexOK, CurrentOK, Keyed
    <2>3. Congruent(n, Newest + 1, c) BY <1>1, <2>2, Offset
    <2>4. /\ Newest + 1 - c \in Int /\ Newest + 1 \in Int /\ Newest + 1 - c + c = Newest + 1
          /\ n - (Newest + 1 - c) < c /\ (Newest + 1 - c) - n < c
      BY <1>1, <1>2, <1>3, <1>4, <1>6
    <2>5. Congruent(Newest + 1, Newest + 1 - c, c) BY <1>1, <2>4, CongruentEq
    <2>6. Congruent(n, Newest + 1 - c, c)
      <3> DEFINE x == Newest + 1  y == Newest + 1 - c
      <3>1. /\ c \in Nat /\ n \in Int /\ x \in Int /\ y \in Int
            /\ Congruent(n, x, c) /\ Congruent(x, y, c)
        BY <1>1, <1>2, <2>3, <2>4, <2>5
      <3> HIDE DEF c, n, x, y
      <3>2. Congruent(n, y, c) BY <3>1, CongruentTrans
      <3> QED BY <3>2 DEF y
    <2> QED BY <1>1, <1>2, <2>4, <2>6, CongruentSame
  <1> QED BY <1>3, <1>5, <1>6

-----------------------------------------------------------------------------
(* What the producer does to the block index.                              *)

\* Steps that leave the header, the keys and the newest block alone.
LEMMA IndexFrame ==
  ASSUME IndexOK, tailIndex' \in Nat, header' = header,
         entry' \in Seq(EntryType), Len(entry') = Len(entry),
         \A e \in Entries : entry'[e].key = entry[e].key,
         \A e \in Entries : entry'[e].value \in Blocks => Live(e) \/ (Keyed(e) /\ Number(e) <= Newest),
         \A e \in Entries : Keyed(e) /\ entry'[e].value = Garbage =>
           \/ at' \in {"advance", "empty_entry"} /\ e = NewEntry
           \/ at' \in Speculative /\ e = TailEntry,
         Newest' = Newest, LastBlock' \in {LastBlock, Newest},
         \A e \in Entries : Number(e) = Newest + 1 =>
           entry'[e].value \notin Blocks /\
           at' \in {"idle", "insert", "advance", "empty_entry"} /\ tailIndex' % BLOCK_SIZE = 0,
         StageOK'
  PROVE  IndexOK' /\ Entries' = Entries /\ \A e \in Entries : Number(e)' = Number(e)
PROOF
  <1>1. /\ Entries' = Entries /\ \A e \in Entries : Number(e)' = Number(e)
        /\ \A e \in Entries : Keyed(e)' <=> Keyed(e)
    BY DEF Entries, Number, Keyed
  <1>2. IndexTyped' BY DEF IndexOK, IndexTyped
  <1>3. /\ blockIndex' = blockIndex /\ \A h : SlotsOf(h)' = SlotsOf(h)
        /\ \A h, k : EntryAt(h, k)' = EntryAt(h, k)
    BY DEF blockIndex, SlotsOf, EntryAt
  <1>4. ASSUME NEW h \in 1 .. blockIndex PROVE HeaderOK(h)'
    <2>1. \A k \in SlotsOf(h) : EntryAt(h, k) \in Entries BY HeaderTyped
    <2>2. HeaderOK(h) BY DEF IndexOK
    <2>3. Aligned(h)' BY <1>1, <1>3, <2>1, <2>2 DEF HeaderOK, Aligned
    <2> QED BY <1>1, <1>3, <2>1, <2>2, <2>3 DEF HeaderOK
  <1>5. NewEntry' = NewEntry /\ TailEntry' = TailEntry BY DEF NewEntry, TailEntry, NewTail, blockIndex
  <1>6. ASSUME NEW e \in Entries PROVE EntryOK(e)'
    <2>1. EntryOK(e) BY DEF IndexOK
    <2>2. Number(e)' = Number(e) /\ (Keyed(e)' <=> Keyed(e)) /\ Entries' = Entries BY <1>1
    <2>3. Keyed(e)' => entry'[e].key = BLOCK_SIZE * Number(e)'
      BY <2>1, <2>2 DEF EntryOK
    <2>4. ~Keyed(e)' => ~Live(e)' BY <2>1, <2>2 DEF EntryOK, Live
    <2>5. Keyed(e)' => Number(e)' > Newest' - Len(entry') BY <2>1, <2>2 DEF EntryOK
    <2>6. (Number(e) <= Newest \/ Ahead(e))' BY <1>5, <2>1, <2>2 DEF EntryOK, Ahead, Live
    <2>7. Keyed(e)' => \A m \in Int : Number(e)' <= m /\ m <= Newest' =>
                         \E f \in Entries' : Number(f)' = m
      BY <1>1, <2>1, <2>2 DEF EntryOK
    <2>8. Keyed(e)' /\ entry'[e].value = Garbage =>
            \/ at' \in {"advance", "empty_entry"} /\ e = NewEntry'
            \/ at' \in Speculative /\ e = TailEntry'
      BY <1>5, <2>2
    <2> QED BY <2>3, <2>4, <2>5, <2>6, <2>7, <2>8 DEF EntryOK, Speculative
  <1>7. CurrentOK'
    <2>1. CurrentOK BY DEF IndexOK
    <2>2. header'[blockIndex'].capacity = Len(entry') BY <1>3, <2>1 DEF CurrentOK
    <2>3. \A e \in Entries' : \E k \in SlotsOf(blockIndex)' : EntryAt(blockIndex, k)' = e
      BY <1>1, <1>3, <2>1 DEF CurrentOK, blockIndex, SlotsOf, EntryAt
    <2>4. TailEntry \in Entries BY Current
    <2>5. Newest' >= 0 => Number(TailEntry)' = Newest'
      BY <1>1, <1>5, <2>1, <2>4 DEF CurrentOK, Number
    <2>6. LastBlock' >= 0 => \E e \in Entries' : Number(e)' = LastBlock'
      <3>1. CASE LastBlock' = LastBlock BY <1>1, <2>1, <3>1 DEF CurrentOK
      <3>2. CASE LastBlock' = Newest
        BY <1>1, <2>1, <2>4, <3>2 DEF CurrentOK
      <3> QED BY <3>1, <3>2
    <2> QED BY <2>2, <2>3, <2>5, <2>6 DEF CurrentOK
  <1> QED BY <1>1, <1>2, <1>3, <1>4, <1>6, <1>7 DEF IndexOK

\* What storing a key or a value in an entry does.
LEMMA KeyStored ==
  ASSUME IndexTyped, NEW e \in Entries, NEW n \in Nat, entry' = [entry EXCEPT ![e].key = n]
  PROVE  /\ entry' \in Seq(EntryType) /\ Len(entry') = Len(entry)
         /\ entry'[e].key = n /\ \A f \in Entries : f # e => entry'[f] = entry[f]
         /\ \A f \in Entries : entry'[f].value = entry[f].value
PROOF
  <1>1. entry[e] \in EntryType /\ entry \in Seq(EntryType) BY DEF IndexTyped, Entries
  <1> DEFINE r == [entry[e] EXCEPT !.key = n]
  <1>2. r \in EntryType /\ r.key = n /\ r.value = entry[e].value BY <1>1 DEF EntryType
  <1>3. entry' = [entry EXCEPT ![e] = r] OBVIOUS
  <1> HIDE DEF r
  <1>4. entry' \in Seq(EntryType) /\ Len(entry') = Len(entry) /\ entry'[e] = r
        /\ \A f \in Entries : f # e => entry'[f] = entry[f]
    BY <1>1, <1>2, <1>3 DEF Entries
  <1> QED BY <1>2, <1>4

\* What a store of a block in an entry leaves alone.
LEMMA ValueStored ==
  ASSUME IndexTyped, NEW e \in Entries, NEW v \in Blocks \cup {Null, Garbage},
         entry' = [entry EXCEPT ![e].value = v]
  PROVE  /\ entry' \in Seq(EntryType) /\ Len(entry') = Len(entry)
         /\ entry'[e].value = v /\ \A f \in Entries : f # e => entry'[f] = entry[f]
         /\ \A f \in Entries : entry'[f].key = entry[f].key
PROOF
  <1>1. entry[e] \in EntryType /\ entry \in Seq(EntryType) BY DEF IndexTyped, Entries
  <1> DEFINE r == [entry[e] EXCEPT !.value = v]
  <1>2. r \in EntryType /\ r.value = v /\ r.key = entry[e].key BY <1>1 DEF EntryType
  <1>3. entry' = [entry EXCEPT ![e] = r] OBVIOUS
  <1> HIDE DEF r
  <1>4. entry' \in Seq(EntryType) /\ Len(entry') = Len(entry) /\ entry'[e] = r
        /\ \A f \in Entries : f # e => entry'[f] = entry[f]
    BY <1>1, <1>2, <1>3 DEF Entries
  <1> QED BY <1>2, <1>4

\* The producer stores the key of its next block in the oldest entry.
LEMMA IndexInsertKey ==
  ASSUME IndexOK, InsertKey
  PROVE  /\ IndexOK' /\ Entries' = Entries /\ Number(NewEntry)' = Newest + 1 /\ ~Live(NewEntry)
         /\ \A e \in Entries : e # NewEntry => Number(e)' = Number(e)
         /\ \A e \in Entries : entry'[e].value = entry[e].value
         /\ Keyed(NewEntry) => Number(NewEntry) \in {Newest + 1, Newest + 1 - Len(entry)}
PROOF
  <1> DEFINE E == NewEntry  N == Newest  c == Len(entry)  t == header[blockIndex].tail
  <1>1. /\ at = "insert" /\ at' = "advance" /\ tailIndex' = tailIndex /\ header' = header
        /\ noexcept' = noexcept /\ HasRoom(E) /\ entry' = [entry EXCEPT ![E].key = tailIndex]
    BY DEF InsertKey, counters
  <1>2. /\ blockIndex \in 1 .. blockIndex /\ c \in Nat \ {0, 1}
        /\ SlotsOf(blockIndex) = 0 .. c - 1
        /\ header[blockIndex].capacity = c
        /\ t \in SlotsOf(blockIndex)
        /\ NewTail(blockIndex) \in SlotsOf(blockIndex)
        /\ Congruent(NewTail(blockIndex), t + 1, c)
        /\ TailEntry = EntryAt(blockIndex, t) /\ TailEntry \in Entries
        /\ E = EntryAt(blockIndex, NewTail(blockIndex)) /\ E \in Entries /\ E # TailEntry
    BY Current
  <1>3. IndexTyped /\ tailIndex \in Nat BY DEF IndexOK, IndexTyped
  <1>4. /\ entry' \in Seq(EntryType) /\ Len(entry') = c /\ entry'[E].key = tailIndex
        /\ \A f \in Entries : f # E => entry'[f] = entry[f]
        /\ \A f \in Entries : entry'[f].value = entry[f].value
    <2>1. Len(entry) = c OBVIOUS
    <2> HIDE DEF E, N, c, t
    <2>2. E \in Entries /\ tailIndex \in Nat /\ IndexTyped BY <1>2, <1>3
    <2>3. entry' = [entry EXCEPT ![E].key = tailIndex] BY <1>1
    <2> QED BY <2>1, <2>2, <2>3, KeyStored
  <1>5. tailIndex % BLOCK_SIZE = 0 BY <1>1 DEF IndexOK, StageOK
  <1>6. /\ N \in Int /\ N >= 0 - 1 /\ N = Before(tailIndex) /\ LastBlock = N
        /\ LastBlock' = N /\ Newest' = N
    BY <1>1, <1>3, NewestTyped DEF LastBlock, Newest, Speculative
  <1>7. BlockOf(tailIndex) = N + 1 /\ tailIndex = BLOCK_SIZE * (N + 1)
    BY <1>3, <1>5, <1>6, BlockOfOrder
  <1>8. Number(E)' = N + 1
    <2>1. tailIndex # INVALID_BLOCK_BASE BY <1>6, <1>7, BlockOfMultiple
    <2>2. E' = E BY <1>1 DEF NewEntry, NewTail, blockIndex
    <2> QED BY <1>4, <1>7, <2>1, <2>2 DEF Number
  <1>9. /\ Entries' = Entries /\ E' = E /\ TailEntry' = TailEntry
        /\ \A e \in Entries : e # E => Number(e)' = Number(e) /\ (Keyed(e)' <=> Keyed(e))
        /\ \A e \in Entries : Live(e)' <=> Live(e)
    <2>1. Entries' = Entries BY <1>4 DEF Entries
    <2>2. E' = E /\ TailEntry' = TailEntry BY <1>1 DEF NewEntry, TailEntry, NewTail, blockIndex
    <2>3. \A e \in Entries : e # E => Number(e)' = Number(e) /\ (Keyed(e)' <=> Keyed(e))
      BY <1>4 DEF Number, Keyed
    <2>4. \A e \in Entries : Live(e)' <=> Live(e) BY <1>4 DEF Live
    <2> QED BY <2>1, <2>2, <2>3, <2>4
  <1>10. ~Live(E)
    <2>1. CASE entry[E].key = INVALID_BLOCK_BASE
      BY <1>2, <1>3, <2>1, NumberTyped DEF IndexOK, EntryOK
    <2>2. CASE entry[E].value = Null BY <2>2, BlocksAssumption DEF Live
    <2> QED BY <1>1, <2>1, <2>2 DEF HasRoom
  <1>11. Keyed(E) => Number(E) \in {N + 1, N + 1 - c} BY NewEntryNumber
  <1>12. ASSUME NEW e \in Entries, e # E
         PROVE  Number(e) \in Int /\ Number(e) <= N /\ (Keyed(e) => Number(e) > N - c)
    BY <1>3, <1>12, NumberTyped DEF IndexOK, EntryOK, Ahead
  <1> HIDE DEF E, N, c, t
  <1>13. ASSUME NEW h \in 1 .. blockIndex PROVE HeaderOK(h)'
    <2> DEFINE d == header[h].capacity
    <2>1. HeaderOK(h) /\ d \in Nat \ {0} /\ \A k \in SlotsOf(h) : k \in Int /\ EntryAt(h, k) \in Entries
      BY HeaderTyped DEF IndexOK
    <2>2. /\ blockIndex' = blockIndex /\ SlotsOf(h)' = SlotsOf(h)
          /\ \A k : EntryAt(h, k)' = EntryAt(h, k)
      BY <1>1 DEF blockIndex, SlotsOf, EntryAt
    <2>3. ASSUME NEW k \in SlotsOf(h), NEW l \in SlotsOf(h), EntryAt(h, k) = E, l # k,
                 Keyed(EntryAt(h, l))
          PROVE  Congruent(k - (N + 1), l - Number(EntryAt(h, l)), d)
      <3> DEFINE m == Number(EntryAt(h, l))
      <3>1. EntryAt(h, l) # E BY <2>1, <2>3 DEF HeaderOK
      <3>2. m \in Int /\ m <= N /\ m > N - c /\ m >= 0 BY <1>12, <2>1, <2>3, <3>1 DEF Keyed
      <3>3. k \in Int /\ l \in Int /\ N \in Int BY <1>6, <2>1
      <3>4. CASE h = blockIndex
        <4>1. Keyed(TailEntry) /\ Number(TailEntry) = N
          BY <1>6, <3>2 DEF IndexOK, CurrentOK, Keyed, N
        <4>2. d = c /\ k = NewTail(blockIndex)
          BY <1>2, <2>1, <2>3, <3>4 DEF HeaderOK
        <4>3. Congruent(t - N, l - m, d)
          BY <1>2, <2>1, <2>3, <3>4, <4>1 DEF HeaderOK, Aligned
        <4>4. t \in Int /\ t + 1 \in Int /\ t - N \in Int /\ l - m \in Int /\ k - (N + 1) \in Int
              /\ 0 - (N + 1) \in Int /\ t + 1 + (0 - (N + 1)) = t - N
              /\ k + (0 - (N + 1)) = k - (N + 1)
          BY <1>2, <3>2, <3>3
        <4>5. Congruent(k, t + 1, d) BY <1>2, <4>2
        <4>6. Congruent(k + (0 - (N + 1)), t + 1 + (0 - (N + 1)), d)
          <5> DEFINE z == 0 - (N + 1)  u == t + 1
          <5>1. z \in Int /\ u \in Int /\ k \in Int /\ Congruent(k, u, d) BY <3>3, <4>4, <4>5
          <5> HIDE DEF z, u, d
          <5>2. Congruent(k + z, u + z, d) BY <2>1, <5>1, CongruentAdd
          <5> QED BY <5>2 DEF z, u
        <4>7. Congruent(k - (N + 1), t - N, d) BY <4>4, <4>6
        <4> QED
          <5> DEFINE u == k - (N + 1)  v == t - N  w == l - m
          <5>1. /\ u \in Int /\ v \in Int /\ w \in Int
                /\ Congruent(u, v, d) /\ Congruent(v, w, d)
            BY <4>3, <4>4, <4>7
          <5> HIDE DEF u, v, w, d
          <5>2. Congruent(u, w, d) BY <2>1, <5>1, CongruentTrans
          <5> QED BY <5>2 DEF u, w
      <3>5. CASE h # blockIndex
        <4>1. Keyed(E) /\ Congruent(header[blockIndex].capacity, 0, d)
          BY <2>1, <2>3, <3>5 DEF HeaderOK
        <4>2. Number(E) \in {N + 1, N + 1 - c} BY <1>11, <4>1
        <4>3. Congruent(k - Number(E), l - m, d) BY <2>1, <2>3, <4>1 DEF HeaderOK, Aligned
        <4>4. CASE Number(E) = N + 1 BY <4>3, <4>4
        <4>5. CASE Number(E) = N + 1 - c
          <5>1. Congruent(c, 0, d) BY <1>2, <4>1
          <5>2. /\ k - (N + 1) \in Int /\ k - (N + 1 - c) \in Int /\ c \in Nat
                /\ k - (N + 1) + c = k - (N + 1 - c) /\ l - m \in Int
            BY <1>2, <3>2, <3>3
          <5>3. Congruent(k - (N + 1) + c, k - (N + 1), c) BY <5>2, CongruentEq
          <5>4. Congruent(k - (N + 1 - c), k - (N + 1), d)
            BY <2>1, <5>1, <5>2, <5>3, CongruentFactor
          <5>5. Congruent(k - (N + 1 - c), l - m, d) BY <4>3, <4>5
          <5> DEFINE u == k - (N + 1)  v == k - (N + 1 - c)  w == l - m
          <5>6. /\ u \in Int /\ v \in Int /\ w \in Int
                /\ Congruent(v, u, d) /\ Congruent(v, w, d)
            BY <5>2, <5>4, <5>5
          <5> HIDE DEF u, v, w, d
          <5>7. Congruent(u, v, d) BY <2>1, <5>6, CongruentSym
          <5>8. Congruent(u, w, d) BY <2>1, <5>6, <5>7, CongruentTrans
          <5> QED BY <5>8 DEF u, w
        <4> QED BY <4>2, <4>4, <4>5
      <3> QED BY <3>4, <3>5
    <2>4. Aligned(h)'
      <3> SUFFICES ASSUME NEW k \in SlotsOf(h), NEW l \in SlotsOf(h),
                          Keyed(EntryAt(h, k))', Keyed(EntryAt(h, l))'
                   PROVE  Congruent(k - Number(EntryAt(h, k))', l - Number(EntryAt(h, l))', d)
        BY <1>1, <2>2 DEF Aligned
      <3>1. EntryAt(h, k) \in Entries /\ EntryAt(h, l) \in Entries BY <2>1
      <3>2. CASE EntryAt(h, k) # E /\ EntryAt(h, l) # E
        BY <1>9, <2>1, <2>2, <3>1, <3>2 DEF HeaderOK, Aligned
      <3>3. CASE EntryAt(h, k) = E /\ l # k
        BY <1>8, <1>9, <2>1, <2>2, <2>3, <3>1, <3>3 DEF HeaderOK
      <3>4. CASE EntryAt(h, l) = E /\ l # k
        <4>1. Congruent(l - (N + 1), k - Number(EntryAt(h, k)), d) /\ EntryAt(h, k) # E
          BY <1>9, <2>1, <2>2, <2>3, <3>1, <3>4 DEF HeaderOK
        <4>2. l - (N + 1) \in Int /\ k - Number(EntryAt(h, k)) \in Int
          BY <1>3, <1>6, <2>1, <3>1, NumberTyped
        <4>3. Number(EntryAt(h, k))' = Number(EntryAt(h, k)) BY <1>9, <2>2, <3>1, <4>1
        <4>4. Number(EntryAt(h, l))' = N + 1
          <5>1. EntryAt(h, l)' = E' BY <1>9, <2>2, <3>4
          <5> QED BY <1>8, <5>1 DEF Number
        <4> DEFINE u == l - (N + 1)  v == k - Number(EntryAt(h, k))
        <4>5. u \in Int /\ v \in Int /\ Congruent(u, v, d) BY <4>1, <4>2
        <4> HIDE DEF u, v, d
        <4>6. Congruent(v, u, d) BY <2>1, <4>5, CongruentSym
        <4> QED BY <4>3, <4>4, <4>6 DEF u, v
      <3>5. CASE l = k
        <4>1. Number(EntryAt(h, k))' \in Int
          BY <1>3, <1>6, <1>8, <1>9, <2>2, <3>1, NumberTyped
        <4>2. k - Number(EntryAt(h, k))' \in Int BY <2>1, <4>1
        <4> QED BY <2>1, <3>5, <4>2, CongruentEq
      <3> QED BY <3>2, <3>3, <3>4, <3>5
    <2>5. h # blockIndex => \A k \in SlotsOf(h) : Keyed(EntryAt(h, k))'
      <3> SUFFICES ASSUME h # blockIndex, NEW k \in SlotsOf(h) PROVE Keyed(EntryAt(h, k))'
        OBVIOUS
      <3>1. EntryAt(h, k) \in Entries /\ Keyed(EntryAt(h, k)) BY <2>1 DEF HeaderOK
      <3>2. CASE EntryAt(h, k) = E
        BY <1>6, <1>8, <1>9, <2>2, <3>2 DEF Keyed
      <3>3. CASE EntryAt(h, k) # E BY <1>9, <2>2, <3>1, <3>3 DEF Keyed
      <3> QED BY <3>2, <3>3
    <2> QED BY <1>1, <1>9, <2>1, <2>2, <2>4, <2>5 DEF HeaderOK
  <1>14. ASSUME NEW e \in Entries PROVE EntryOK(e)'
    <2>1. CASE e = E
      <3>1. Number(e)' = N + 1 /\ entry'[e].key = BLOCK_SIZE * Number(e)'
        BY <1>4, <1>7, <1>8, <1>9, <2>1
      <3>2. Ahead(e)' BY <1>1, <1>5, <1>6, <1>9, <1>10, <2>1, <3>1 DEF Ahead, E
      <3>3. Keyed(e)' BY <1>6, <3>1 DEF Keyed
      <3>4. Number(e)' > Newest' - Len(entry') BY <1>2, <1>4, <1>6, <3>1
      <3>5. \A m \in Int : Number(e)' <= m /\ m <= Newest' => FALSE BY <1>6, <3>1
      <3> QED BY <1>1, <1>9, <2>1, <3>1, <3>2, <3>3, <3>4, <3>5 DEF EntryOK, E
    <2>2. CASE e # E
      <3>1. EntryOK(e) BY DEF IndexOK
      <3>2. /\ Number(e)' = Number(e) /\ (Keyed(e)' <=> Keyed(e)) /\ entry'[e] = entry[e]
            /\ (Live(e)' <=> Live(e))
        BY <1>4, <1>9, <2>2
      <3>3. ASSUME Keyed(e), NEW m \in Int, Number(e) <= m, m <= N
            PROVE  \E f \in Entries' : Number(f)' = m
        <4>1. PICK f \in Entries : Number(f) = m BY <3>1, <3>3 DEF EntryOK, N
        <4>2. f # E
          <5> SUFFICES ASSUME f = E PROVE FALSE OBVIOUS
          <5>1. Keyed(E) /\ Number(E) = m BY <1>12, <2>2, <3>3, <4>1 DEF Keyed
          <5>2. Number(E) = N + 1 - c BY <1>2, <1>6, <1>11, <3>3, <5>1
          <5>3. Number(e) = Number(E)
            <6> DEFINE x == Number(e)
            <6>1. x \in Int /\ x > N - c /\ x <= m /\ m = N + 1 - c /\ c \in Int
              BY <1>2, <1>12, <2>2, <3>3, <5>1, <5>2
            <6> HIDE DEF x
            <6>2. x = N + 1 - c BY <1>6, <3>3, <6>1
            <6> QED BY <5>2, <6>2 DEF x
          <5> QED BY <1>2, <2>2, <3>3, <5>3, SameNumber
        <4> QED BY <1>9, <4>1, <4>2
      <3>4. Number(e)' <= Newest' BY <1>6, <1>12, <2>2, <3>2
      <3>5. Keyed(e)' => Number(e)' > Newest' - Len(entry') BY <1>4, <1>6, <1>12, <2>2, <3>2 DEF c
      <3>6. Keyed(e)' => \A m \in Int : Number(e)' <= m /\ m <= Newest' =>
                           \E f \in Entries' : Number(f)' = m
        BY <1>6, <3>2, <3>3
      <3>7. Keyed(e) => entry[e].value # Garbage
        BY <1>1, <2>2, <3>1 DEF EntryOK, Speculative
      <3> QED BY <3>1, <3>2, <3>4, <3>5, <3>6, <3>7 DEF EntryOK
    <2> QED BY <2>1, <2>2
  <1>15. CurrentOK'
    <2>1. CurrentOK BY DEF IndexOK
    <2>2. /\ blockIndex' = blockIndex /\ SlotsOf(blockIndex)' = SlotsOf(blockIndex)
          /\ \A k : EntryAt(blockIndex, k)' = EntryAt(blockIndex, k)
      BY <1>1 DEF blockIndex, SlotsOf, EntryAt
    <2>3. Newest' >= 0 => Number(TailEntry)' = Newest'
      <3>1. Number(TailEntry)' = Number(TailEntry) BY <1>2, <1>9
      <3> QED BY <1>6, <2>1, <3>1 DEF CurrentOK, N
    <2>4. LastBlock' >= 0 => \E e \in Entries' : Number(e)' = LastBlock'
      <3>1. LastBlock' = Newest' BY <1>6
      <3> QED BY <1>2, <1>9, <2>3, <3>1
    <2> QED BY <1>1, <1>2, <1>4, <1>9, <2>1, <2>2, <2>3, <2>4 DEF CurrentOK, c
  <1>16. StageOK' BY <1>1, <1>5, <1>6, <1>8 DEF StageOK, Speculative, E, N
  <1>17. IndexTyped' BY <1>1, <1>3, <1>4 DEF IndexTyped, c
  <1>18. IndexOK'
    <2>1. blockIndex' = blockIndex BY <1>1 DEF blockIndex
    <2> QED BY <1>9, <1>13, <1>14, <1>15, <1>16, <1>17, <2>1 DEF IndexOK
  <1> QED BY <1>4, <1>8, <1>9, <1>10, <1>11, <1>18 DEF E, N, c

\* Congruent numbers have the same remainder.
LEMMA CongruentMods ==
  ASSUME NEW c \in Nat \ {0}, NEW x \in Int, NEW y \in Int, Congruent(x, y, c)
  PROVE  x % c = y % c
PROOF
  <1> DEFINE u == x % c  v == y % c
  <1>1. u \in 0 .. c - 1 /\ Congruent(u, x, c) /\ v \in 0 .. c - 1 /\ Congruent(v, y, c)
    BY CongruentMod
  <1> HIDE DEF u, v
  <1>2. u \in Int /\ v \in Int /\ u - v < c /\ v - u < c BY <1>1
  <1>3. Congruent(y, v, c) BY <1>1, <1>2, CongruentSym
  <1>4. Congruent(u, y, c) BY <1>1, <1>2, CongruentTrans
  <1>5. Congruent(u, v, c) BY <1>2, <1>3, <1>4, CongruentTrans
  <1>6. u = v BY <1>2, <1>5, CongruentSame
  <1> QED BY <1>6 DEF u, v

\* A number less than c is its own remainder.
LEMMA ModSmall ==
  ASSUME NEW c \in Nat \ {0}, NEW x \in 0 .. c - 1
  PROVE  x % c = x
PROOF
  <1>1. x \in Int /\ x % c \in 0 .. c - 1 /\ Congruent(x % c, x, c) BY CongruentMod
  <1>2. x % c \in Int /\ (x % c) - x < c /\ x - (x % c) < c BY <1>1
  <1> QED BY <1>1, <1>2, CongruentSame

\* Steps that only move the tail of the current header.
LEMMA TailMoved ==
  ASSUME IndexOK, NEW k \in SlotsOf(blockIndex), header' = [header EXCEPT ![blockIndex].tail = k],
         entry' = entry
  PROVE  /\ blockIndex' = blockIndex /\ Entries' = Entries
         /\ \A e \in Entries : Number(e)' = Number(e)
         /\ \A h \in 1 .. blockIndex :
              /\ HeaderOK(h)' /\ SlotsOf(h)' = SlotsOf(h) /\ header'[h].slot = header[h].slot
              /\ header'[h].capacity = header[h].capacity
         /\ header' \in Seq(HeaderType) /\ Len(header') >= 1
         /\ header'[blockIndex].tail = k /\ TailEntry' = EntryAt(blockIndex, k)
PROOF
  <1> DEFINE r == [header[blockIndex] EXCEPT !.tail = k]
  <1>1. blockIndex \in 1 .. Len(header) /\ header \in Seq(HeaderType) /\ Len(header) >= 1
    BY Current DEF IndexOK, IndexTyped, blockIndex
  <1>2. header[blockIndex] \in HeaderType BY <1>1
  <1>3. k \in Nat BY Current
  <1>4. /\ r \in HeaderType /\ r.tail = k /\ r.slot = header[blockIndex].slot
        /\ r.capacity = header[blockIndex].capacity
    BY <1>2, <1>3 DEF HeaderType
  <1>5. header' = [header EXCEPT ![blockIndex] = r] OBVIOUS
  <1> HIDE DEF r
  <1>6. /\ header' \in Seq(HeaderType) /\ Len(header') = Len(header) /\ header'[blockIndex] = r
        /\ \A h \in 1 .. Len(header) : h # blockIndex => header'[h] = header[h]
    BY <1>1, <1>4, <1>5
  <1>7. blockIndex' = blockIndex BY <1>6 DEF blockIndex
  <1>8. Entries' = Entries /\ \A e \in Entries : Number(e)' = Number(e) /\ (Keyed(e)' <=> Keyed(e))
    BY DEF Entries, Number, Keyed
  <1>9. ASSUME NEW h \in 1 .. blockIndex
        PROVE  header'[h].slot = header[h].slot /\ header'[h].capacity = header[h].capacity
               /\ SlotsOf(h)' = SlotsOf(h) /\ header'[h].tail \in SlotsOf(h)
    <2>1. h \in 1 .. Len(header) BY DEF blockIndex
    <2>2. header[h].tail \in SlotsOf(h) BY HeaderTyped
    <2>3. CASE h = blockIndex BY <1>4, <1>6, <2>3 DEF SlotsOf
    <2>4. CASE h # blockIndex BY <1>6, <2>1, <2>2, <2>4 DEF SlotsOf
    <2> QED BY <2>3, <2>4
  <1>10. ASSUME NEW h \in 1 .. blockIndex PROVE HeaderOK(h)'
    <2>1. HeaderOK(h) BY DEF IndexOK
    <2>2. SlotsOf(h)' = SlotsOf(h) /\ \A l \in SlotsOf(h) : EntryAt(h, l)' = EntryAt(h, l)
      BY <1>9 DEF EntryAt
    <2>3. \A l \in SlotsOf(h) : EntryAt(h, l) \in Entries BY HeaderTyped
    <2>4. \A l \in SlotsOf(h) : /\ Number(EntryAt(h, l))' = Number(EntryAt(h, l))
                                /\ Keyed(EntryAt(h, l))' <=> Keyed(EntryAt(h, l))
      BY <1>8, <2>2, <2>3 DEF Number, Keyed
    <2>5. Aligned(h)' BY <1>9, <2>1, <2>2, <2>4 DEF HeaderOK, Aligned
    <2>6. header'[blockIndex].capacity = header[blockIndex].capacity BY <1>9, Current
    <2> QED BY <1>7, <1>8, <1>9, <2>1, <2>2, <2>3, <2>4, <2>5, <2>6 DEF HeaderOK
  <1>11. TailEntry' = EntryAt(blockIndex, k)
    BY <1>4, <1>6, <1>7 DEF TailEntry, EntryAt
  <1> QED BY <1>1, <1>4, <1>6, <1>7, <1>8, <1>9, <1>10, <1>11

\* The producer moves the tail on to the entry it has keyed.
LEMMA IndexAdvance ==
  ASSUME IndexOK, Advance
  PROVE  /\ IndexOK' /\ blockIndex' = blockIndex /\ Entries' = Entries
         /\ \A e \in Entries : Number(e)' = Number(e)
         /\ \A h \in 1 .. blockIndex : /\ header'[h].slot = header[h].slot
                                       /\ header'[h].capacity = header[h].capacity
         /\ LastBlock' = LastBlock
PROOF
  <1> DEFINE E == NewEntry  N == Newest  c == Len(entry)  t == NewTail(blockIndex)
  <1>1. /\ at = "advance" /\ at' = "requisition" /\ tailIndex' = tailIndex /\ entry' = entry
        /\ header' = [header EXCEPT ![blockIndex].tail = t]
    BY DEF Advance, counters
  <1>2. /\ t \in SlotsOf(blockIndex) /\ E = EntryAt(blockIndex, t) /\ E \in Entries
        /\ c \in Nat \ {0, 1} /\ SlotsOf(blockIndex) = 0 .. c - 1
        /\ header[blockIndex].capacity = c /\ blockIndex \in 1 .. blockIndex
    BY Current
  <1>3. /\ blockIndex' = blockIndex /\ Entries' = Entries
        /\ \A e \in Entries : Number(e)' = Number(e)
        /\ \A h \in 1 .. blockIndex :
             /\ HeaderOK(h)' /\ SlotsOf(h)' = SlotsOf(h) /\ header'[h].slot = header[h].slot
             /\ header'[h].capacity = header[h].capacity
        /\ header' \in Seq(HeaderType) /\ Len(header') >= 1
        /\ TailEntry' = E
    BY <1>1, <1>2, TailMoved
  <1>4. /\ N \in Int /\ N >= 0 - 1 /\ LastBlock = N /\ LastBlock' = N /\ Newest' = N + 1
    BY <1>1, NewestTyped DEF LastBlock, Newest, Speculative, IndexOK, IndexTyped
  <1>5. Number(E) = N + 1 /\ tailIndex % BLOCK_SIZE = 0 /\ Keyed(E)
    BY <1>1, <1>4 DEF IndexOK, StageOK, Keyed
  <1>6. ~Live(E) BY <1>2, <1>4, <1>5 DEF IndexOK, EntryOK, Ahead
  <1> HIDE DEF E, N, c, t
  <1>7. ASSUME NEW e \in Entries, Keyed(e) PROVE Number(e) # N + 1 - c
    <2> SUFFICES ASSUME Number(e) = N + 1 - c PROVE FALSE OBVIOUS
    <2>1. PICK l \in SlotsOf(blockIndex) : EntryAt(blockIndex, l) = e BY DEF IndexOK, CurrentOK
    <2> DEFINE d == 0 - c
    <2>2. d \in Int /\ Number(e) = Number(E) + d BY <1>2, <1>4, <1>5
    <2>3. l = (t + d) % c BY <1>2, <1>5, <1>7, <2>1, <2>2, Offset
    <2>4. t \in Int /\ t + d \in Int /\ c \in Nat \ {0} /\ t + d + c = t
      BY <1>2
    <2>5. Congruent(t, t + d, c)
      <3> HIDE DEF d
      <3>1. Congruent(t + d + c, t + d, c) BY <2>4, CongruentEq
      <3> QED BY <2>4, <3>1
    <2>6. t % c = l BY <2>3, <2>4, <2>5, CongruentMods
    <2>7. t % c = t BY <1>2, <2>4, ModSmall
    <2>8. e = E BY <1>2, <2>1, <2>6, <2>7
    <2> QED BY <1>2, <1>4, <1>5, <2>8
  <1>8. ASSUME NEW e \in Entries PROVE EntryOK(e)'
    <2>1. EntryOK(e) BY DEF IndexOK
    <2>2. Number(e)' = Number(e) /\ (Keyed(e)' <=> Keyed(e)) /\ (Live(e)' <=> Live(e))
      BY <1>1, <1>3 DEF Keyed, Live
    <2>3. Number(e) \in Int BY NumberTyped DEF IndexOK
    <2>4. Number(e) <= N + 1 BY <1>4, <2>1, <2>3 DEF EntryOK, Ahead, N
    <2>5. Keyed(e) => Number(e) > N + 1 - c
      <3>1. Keyed(e) => Number(e) > N - c BY <2>1 DEF EntryOK, N, c
      <3>2. Keyed(e) => Number(e) # N + 1 - c BY <1>7
      <3>3. c \in Int /\ N \in Int BY <1>2, <1>4
      <3> QED BY <2>3, <3>1, <3>2, <3>3
    <2>6. ASSUME Keyed(e), NEW m \in Int, Number(e) <= m, m <= N + 1
          PROVE  \E f \in Entries : Number(f) = m
      <3>1. CASE m = N + 1 BY <1>2, <1>5, <3>1
      <3>2. CASE m # N + 1
        <4>1. m <= Newest BY <1>4, <2>6, <3>2 DEF N
        <4> QED BY <2>1, <2>6, <4>1 DEF EntryOK
      <3> QED BY <3>1, <3>2
    <2>7. Keyed(e) /\ entry[e].value = Garbage => e = TailEntry'
      BY <1>1, <1>3, <2>1 DEF EntryOK, Speculative, E
    <2>8. Keyed(e)' => entry'[e].key = BLOCK_SIZE * Number(e)' BY <1>1, <2>1, <2>2 DEF EntryOK
    <2>9. ~Keyed(e)' => ~Live(e)' BY <2>1, <2>2 DEF EntryOK
    <2>10. Number(e)' <= Newest' BY <1>4, <2>2, <2>4
    <2>11. Keyed(e)' => Number(e)' > Newest' - Len(entry') BY <1>1, <1>4, <2>2, <2>5 DEF c
    <2>12. Keyed(e)' => \A m \in Int : Number(e)' <= m /\ m <= Newest' =>
                          \E f \in Entries' : Number(f)' = m
      BY <1>3, <1>4, <2>2, <2>6
    <2>13. Keyed(e)' /\ entry'[e].value = Garbage => at' \in Speculative /\ e = TailEntry'
      BY <1>1, <2>2, <2>7 DEF Speculative
    <2> QED BY <2>8, <2>9, <2>10, <2>11, <2>12, <2>13 DEF EntryOK, Speculative
  <1>9. CurrentOK'
    <2>1. CurrentOK BY DEF IndexOK
    <2>2. \A k : EntryAt(blockIndex, k)' = EntryAt(blockIndex, k)
      BY <1>2, <1>3 DEF EntryAt
    <2>3. header'[blockIndex].capacity = Len(entry') BY <1>1, <1>2, <1>3 DEF c
    <2>4. \A e \in Entries' : \E k \in SlotsOf(blockIndex)' : EntryAt(blockIndex, k)' = e
      BY <1>2, <1>3, <2>1, <2>2 DEF CurrentOK
    <2>5. \A e \in Entries : e = E => Number(e)' = Newest' BY <1>3, <1>4, <1>5
    <2>6. Number(TailEntry)' = Newest' BY <1>2, <1>3, <2>5 DEF Number
    <2>7. LastBlock' >= 0 => \E e \in Entries' : Number(e)' = LastBlock'
      BY <1>3, <1>4, <2>1 DEF CurrentOK
    <2> QED BY <1>2, <1>3, <2>2, <2>3, <2>4, <2>6, <2>7 DEF CurrentOK, SlotsOf, EntryAt
  <1>10. StageOK' BY <1>1, <1>3, <1>5, <1>6 DEF StageOK, Speculative, Live
  <1>11. IndexTyped' BY <1>1, <1>3 DEF IndexOK, IndexTyped
  <1>12. IndexOK' BY <1>3, <1>8, <1>9, <1>10, <1>11 DEF IndexOK
  <1> QED BY <1>3, <1>4, <1>12

\* The producer moves the tail back, to the entry before the one it had keyed.
LEMMA IndexRewind ==
  ASSUME IndexOK, Rewind
  PROVE  /\ IndexOK' /\ blockIndex' = blockIndex /\ Entries' = Entries
         /\ \A e \in Entries : Number(e)' = Number(e)
         /\ \A h \in 1 .. blockIndex : /\ header'[h].slot = header[h].slot
                                       /\ header'[h].capacity = header[h].capacity
         /\ LastBlock' = LastBlock
PROOF
  <1> DEFINE E == TailEntry  N == Newest  c == Len(entry)  t == header[blockIndex].tail
             s == (t - 1) % c
  <1>1. /\ at = "rewind" /\ at' = "empty_entry" /\ tailIndex' = tailIndex /\ entry' = entry
        /\ header' = [header EXCEPT ![blockIndex].tail = (t - 1) % header[blockIndex].capacity]
    BY DEF Rewind, counters
  <1>2. /\ t \in SlotsOf(blockIndex) /\ E = EntryAt(blockIndex, t) /\ E \in Entries
        /\ c \in Nat \ {0, 1} /\ SlotsOf(blockIndex) = 0 .. c - 1
        /\ header[blockIndex].capacity = c /\ blockIndex \in 1 .. blockIndex
    BY Current
  <1>3. t \in Int /\ t - 1 \in Int /\ s \in SlotsOf(blockIndex) /\ Congruent(s, t - 1, c)
    <2>1. t - 1 \in Int /\ t \in Int BY <1>2
    <2> QED BY <1>2, <2>1, CongruentMod
  <1>4. header' = [header EXCEPT ![blockIndex].tail = s] BY <1>1, <1>2
  <1>5. (s + 1) % c = t
    <2> HIDE DEF s, c, t
    <2>1. s \in Int /\ s + 1 \in Int /\ t - 1 + 1 = t /\ c \in Nat /\ 1 \in Int BY <1>2, <1>3
    <2>2. Congruent(s + 1, t - 1 + 1, c) BY <1>3, <2>1, CongruentAdd
    <2>3. (s + 1) % c = t % c BY <1>2, <1>3, <2>1, <2>2, CongruentMods
    <2> QED BY <1>2, <2>3, ModSmall
  <1>6. /\ N \in Int /\ N >= 0 /\ LastBlock = N - 1 /\ LastBlock' = N - 1 /\ Newest' = N - 1
    <2>1. LastBlock \in Int /\ LastBlock >= 0 - 1
      BY NewestTyped DEF IndexOK, IndexTyped
    <2>2. LastBlock' = LastBlock BY <1>1 DEF LastBlock
    <2>3. N = LastBlock + 1 BY <1>1 DEF Newest, Speculative
    <2>4. Newest' = LastBlock' BY <1>1 DEF Newest, Speculative
    <2> HIDE DEF N
    <2> QED BY <2>1, <2>2, <2>3, <2>4
  <1>7. Number(E) = N /\ tailIndex % BLOCK_SIZE = 0 /\ Keyed(E) /\ ~Live(E)
    BY <1>1, <1>6 DEF IndexOK, StageOK, CurrentOK, Keyed, Speculative
  <1> HIDE DEF E, N, c, t, s
  <1>8. /\ blockIndex' = blockIndex /\ Entries' = Entries
        /\ \A e \in Entries : Number(e)' = Number(e)
        /\ \A h \in 1 .. blockIndex :
             /\ HeaderOK(h)' /\ SlotsOf(h)' = SlotsOf(h) /\ header'[h].slot = header[h].slot
             /\ header'[h].capacity = header[h].capacity
        /\ header' \in Seq(HeaderType) /\ Len(header') >= 1
        /\ header'[blockIndex].tail = s /\ TailEntry' = EntryAt(blockIndex, s)
    BY <1>1, <1>3, <1>4, TailMoved
  <1>9. NewEntry' = E
    BY <1>2, <1>5, <1>8 DEF NewEntry, NewTail, EntryAt
  <1>10. ASSUME NEW e \in Entries PROVE EntryOK(e)'
    <2>1. EntryOK(e) BY DEF IndexOK
    <2>2. Number(e)' = Number(e) /\ (Keyed(e)' <=> Keyed(e)) /\ (Live(e)' <=> Live(e))
      BY <1>1, <1>8 DEF Keyed, Live
    <2>3. Number(e) \in Int BY NumberTyped DEF IndexOK
    <2>4. Number(e) <= N BY <1>1, <2>1 DEF EntryOK, Ahead, N
    <2>5. Number(e) = N => e = E BY <1>2, <1>7, SameNumber
    <2>6. (Number(e) <= Newest \/ Ahead(e))'
      <3>1. CASE Number(e) = N
        BY <1>1, <1>6, <1>7, <1>9, <2>2, <2>5, <3>1 DEF Ahead
      <3>2. CASE Number(e) # N BY <1>6, <2>2, <2>3, <2>4, <3>2
      <3> QED BY <3>1, <3>2
    <2>7. Keyed(e) => Number(e) > N - c BY <2>1 DEF EntryOK, N, c
    <2>8. Keyed(e)' => Number(e)' > Newest' - Len(entry')
      BY <1>1, <1>2, <1>6, <2>2, <2>3, <2>7 DEF c
    <2>9. Keyed(e)' => \A m \in Int : Number(e)' <= m /\ m <= Newest' =>
                         \E f \in Entries' : Number(f)' = m
      <3>1. \A m \in Int : m <= Newest' => m <= Newest BY <1>6 DEF N
      <3> QED BY <1>8, <2>1, <2>2, <3>1 DEF EntryOK
    <2>10. Keyed(e) /\ entry[e].value = Garbage => e = NewEntry'
      BY <1>1, <1>9, <2>1 DEF EntryOK, Speculative, E
    <2>11. Keyed(e)' => entry'[e].key = BLOCK_SIZE * Number(e)' BY <1>1, <2>1, <2>2 DEF EntryOK
    <2>12. ~Keyed(e)' => ~Live(e)' BY <2>1, <2>2 DEF EntryOK
    <2>13. Keyed(e)' /\ entry'[e].value = Garbage => at' = "empty_entry" /\ e = NewEntry'
      BY <1>1, <2>2, <2>10
    <2> QED BY <2>6, <2>8, <2>9, <2>11, <2>12, <2>13 DEF EntryOK
  <1>11. CurrentOK'
    <2>1. CurrentOK BY DEF IndexOK
    <2>2. \A k : EntryAt(blockIndex, k)' = EntryAt(blockIndex, k)
      BY <1>2, <1>8 DEF EntryAt
    <2>3. header'[blockIndex].capacity = Len(entry') BY <1>1, <1>2, <1>8 DEF c
    <2>4. \A e \in Entries' : \E k \in SlotsOf(blockIndex)' : EntryAt(blockIndex, k)' = e
      BY <1>2, <1>8, <2>1, <2>2 DEF CurrentOK
    <2>5. LastBlock' >= 0 => \E e \in Entries' : Number(e)' = LastBlock'
      BY <1>6, <1>8, <2>1 DEF CurrentOK
    <2>6. ASSUME Newest' >= 0 PROVE Number(TailEntry)' = Newest'
      <3>1. PICK e \in Entries : Number(e) = N - 1 BY <1>6, <2>1, <2>6 DEF CurrentOK
      <3>2. PICK l \in SlotsOf(blockIndex) : EntryAt(blockIndex, l) = e BY <2>1 DEF CurrentOK
      <3>3. Keyed(e) BY <1>6, <2>6, <3>1 DEF Keyed
      <3> DEFINE d == 0 - 1
      <3>4. d \in Int /\ Number(e) = Number(E) + d /\ t + d = t - 1 BY <1>3, <1>6, <1>7, <3>1
      <3> HIDE DEF d
      <3>5. l = (t + d) % c BY <1>2, <1>7, <3>2, <3>3, <3>4, Offset
      <3>6. l = s BY <3>4, <3>5 DEF s
      <3>7. TailEntry' = e BY <1>8, <3>2, <3>6
      <3>8. Number(e)' = Newest' BY <1>6, <1>8, <3>1
      <3> QED BY <3>7, <3>8 DEF Number
    <2> QED BY <1>2, <1>8, <2>2, <2>3, <2>4, <2>5, <2>6 DEF CurrentOK, SlotsOf, EntryAt
  <1>12. StageOK'
    <2>1. \A e \in Entries : e = E => Number(e)' = Newest' + 1 BY <1>6, <1>7, <1>8
    <2>2. Number(NewEntry)' = Newest' + 1 BY <1>2, <1>9, <2>1 DEF Number
    <2> QED BY <1>1, <1>7, <2>2 DEF StageOK, Speculative
  <1>13. IndexTyped' BY <1>1, <1>8 DEF IndexOK, IndexTyped
  <1>14. IndexOK' BY <1>8, <1>10, <1>11, <1>12, <1>13 DEF IndexOK
  <1> QED BY <1>6, <1>8, <1>14

\* A full index has the newest blocks, as many as it has entries, in the order of its slots
\* from the one after the tail.
LEMMA FullIndex ==
  ASSUME IndexOK, at = "insert", ~HasRoom(NewEntry)
  PROVE  /\ Newest >= Len(entry) - 1 /\ Newest \in Int
         /\ \A k \in 0 .. Len(entry) - 1 :
              LET l == (header[blockIndex].tail + 1 + k) % Len(entry)
              IN l \in SlotsOf(blockIndex)
                 /\ Number(EntryAt(blockIndex, l)) = Newest + 1 - Len(entry) + k
         /\ \A e \in Entries : \E k \in 0 .. Len(entry) - 1 :
              EntryAt(blockIndex, (header[blockIndex].tail + 1 + k) % Len(entry)) = e
         /\ \A e \in Entries : Keyed(e) /\ Number(e) <= Newest
PROOF
  <1> DEFINE E == NewEntry  N == Newest  c == Len(entry)  t == header[blockIndex].tail
             L(k) == (t + 1 + k) % c
  <1>1. /\ blockIndex \in 1 .. blockIndex /\ c \in Nat \ {0, 1}
        /\ SlotsOf(blockIndex) = 0 .. c - 1
        /\ header[blockIndex].capacity = c
        /\ t \in SlotsOf(blockIndex) /\ t \in Int
        /\ TailEntry = EntryAt(blockIndex, t) /\ TailEntry \in Entries
        /\ E \in Entries
    BY Current
  <1>2. N \in Int BY NewestTyped DEF IndexOK, IndexTyped
  <1>3. Keyed(E) /\ entry[E].value # Null
    BY <1>1, NumberTyped DEF HasRoom, IndexOK
  <1>4. Number(E) \in {N + 1, N + 1 - c} BY <1>3, NewEntryNumber
  <1>5. Number(E) = N + 1 - c
    <2> SUFFICES ASSUME Number(E) = N + 1 PROVE FALSE BY <1>4
    <2>1. EntryOK(E) BY <1>1 DEF IndexOK
    <2>2. ~Live(E)
      <3>1. ~(Number(E) <= Newest) BY <1>2
      <3> QED BY <2>1, <3>1 DEF EntryOK, Ahead
    <2>3. entry[E].value = Garbage
      BY <1>1, <1>3, <2>2, NumberTyped DEF IndexOK, Live
    <2> QED BY <1>3, <2>1, <2>3 DEF EntryOK, Speculative
  <1>6. Number(E) \in Int /\ Number(E) >= 0 BY <1>1, <1>3, NumberTyped DEF IndexOK, Keyed
  <1>7. N >= c - 1 /\ N >= 0 BY <1>1, <1>2, <1>5, <1>6
  <1>8. Number(TailEntry) = N /\ Keyed(TailEntry) BY <1>7 DEF IndexOK, CurrentOK, Keyed, N
  <1> HIDE DEF E, N, c, t
  <1>9. ASSUME NEW k \in 0 .. c - 1
        PROVE  L(k) \in SlotsOf(blockIndex) /\ Number(EntryAt(blockIndex, L(k))) = N + 1 - c + k
    <2> DEFINE m == N + 1 - c + k  d == 1 - c + k
    <2>1. m \in Int /\ d \in Int /\ m = N + d /\ k \in Int BY <1>1, <1>2
    <2>2. Number(E) <= m /\ m <= N BY <1>1, <1>2, <1>5
    <2>3. EntryOK(E) BY <1>1 DEF IndexOK
    <2>4. PICK f \in Entries : Number(f) = m
      <3>1. m \in Int /\ Number(E) <= m /\ m <= Newest BY <2>1, <2>2 DEF N
      <3> HIDE DEF m
      <3> QED BY <1>3, <2>3, <3>1 DEF EntryOK
    <2>5. PICK l \in SlotsOf(blockIndex) : EntryAt(blockIndex, l) = f BY DEF IndexOK, CurrentOK
    <2>6. Keyed(f) /\ Number(f) = Number(TailEntry) + d
      BY <1>1, <1>2, <1>6, <1>8, <2>1, <2>2, <2>4 DEF Keyed
    <2>7. l = (t + d) % c
      <3> HIDE DEF d
      <3> QED BY <1>1, <1>8, <2>1, <2>5, <2>6, Offset
    <2>8. L(k) = (t + d) % c
      <3> DEFINE x == t + 1 + k  y == t + d
      <3>1. x \in Int /\ y \in Int /\ x = y + c /\ c \in Nat BY <1>1, <2>1
      <3> HIDE DEF x, y
      <3>2. Congruent(x, y, c) BY <3>1, CongruentEq
      <3>3. x % c = y % c BY <1>1, <3>1, <3>2, CongruentMods
      <3> QED BY <3>3 DEF x, y
    <2> QED BY <2>4, <2>5, <2>7, <2>8
  <1>10. ASSUME NEW e \in Entries
         PROVE  \E k \in 0 .. c - 1 : EntryAt(blockIndex, L(k)) = e
    <2>1. PICK l \in SlotsOf(blockIndex) : EntryAt(blockIndex, l) = e BY DEF IndexOK, CurrentOK
    <2> DEFINE z == t + 1  y == l - z  k == y % c
    <2>2. l \in Int /\ z \in Int /\ y \in Int /\ y + z = l /\ l \in 0 .. c - 1 BY <1>1, <2>1
    <2> HIDE DEF z
    <2>3. k \in 0 .. c - 1 /\ Congruent(k, y, c)
      <3> HIDE DEF y
      <3> QED BY <1>1, <2>2, CongruentMod
    <2>4. Congruent(k + z, l, c)
      <3>1. k \in Int /\ c \in Nat BY <1>1, <2>3
      <3> HIDE DEF y, k
      <3>2. Congruent(k + z, y + z, c) BY <2>2, <2>3, <3>1, CongruentAdd
      <3> QED BY <2>2, <3>2
    <2>5. (k + z) % c = l
      <3>1. k \in Int /\ k + z \in Int BY <2>2, <2>3
      <3> HIDE DEF y, k
      <3>2. (k + z) % c = l % c BY <1>1, <2>2, <2>4, <3>1, CongruentMods
      <3> QED BY <1>1, <2>2, <3>2, ModSmall
    <2>6. L(k) = l
      <3>1. k + z = t + 1 + k BY <1>1, <2>3 DEF z
      <3> QED BY <2>5, <3>1
    <2> QED BY <2>1, <2>3, <2>6
  <1>11. ASSUME NEW e \in Entries PROVE Keyed(e) /\ Number(e) <= N
    <2>1. PICK k \in 0 .. c - 1 : EntryAt(blockIndex, L(k)) = e BY <1>10
    <2>2. Number(e) = N + 1 - c + k BY <1>9, <2>1
    <2>3. k \in Int /\ 0 <= k /\ k <= c - 1 BY <1>1
    <2> QED BY <1>1, <1>2, <1>7, <2>2, <2>3 DEF Keyed
  <1> QED BY <1>1, <1>2, <1>7, <1>9, <1>10, <1>11 DEF N, c, t

\* The elements of a concatenation.
LEMMA Concatenated ==
  ASSUME NEW S, NEW a \in Seq(S), NEW b \in Seq(S), NEW s, s = a \o b
  PROVE  /\ s \in Seq(S) /\ Len(s) = Len(a) + Len(b)
         /\ \A i \in 1 .. Len(a) : s[i] = a[i]
         /\ \A i \in 1 .. Len(b) : s[Len(a) + i] = b[i]
PROOF
  <1>1. s \in Seq(S) /\ Len(s) = Len(a) + Len(b) OBVIOUS
  <1>2. Len(a) \in Nat /\ Len(b) \in Nat OBVIOUS
  <1>3. \A i \in 1 .. Len(a) : s[i] = a[i] OBVIOUS
  <1>4. ASSUME NEW i \in 1 .. Len(b) PROVE s[Len(a) + i] = b[i]
    <2>1. PICK j \in 1 .. Len(a) + Len(b) : j = Len(a) + i BY <1>2
    <2>2. ~(j <= Len(a)) /\ j - Len(a) = i BY <1>2, <2>1
    <2>3. s[j] = b[j - Len(a)] BY <1>2, <2>2
    <2> QED BY <2>1, <2>2, <2>3
  <1> QED BY <1>1, <1>3, <1>4

\* The producer doubles the index: the blocks keep their entries and their numbers.
LEMMA IndexGrow ==
  ASSUME IndexOK, GrowIndex
  PROVE  /\ IndexOK' /\ blockIndex' = blockIndex + 1
         /\ Entries \subseteq Entries' /\ \A e \in Entries' : e \notin Entries => ~Live(e)'
         /\ \A e \in Entries : entry'[e] = entry[e]
         /\ \A h \in 1 .. blockIndex : header'[h] = header[h]
         /\ LastBlock' = LastBlock
PROOF
  <1> DEFINE N == Newest  c == Len(entry)  t == header[blockIndex].tail
             new == ExtendedIndex(header[blockIndex])  more == FreshEntries(c)
             L(k) == (t + 1 + k) % c
  <1>1. /\ blockIndex \in 1 .. blockIndex /\ c \in Nat \ {0, 1} /\ c \in Int
        /\ SlotsOf(blockIndex) = 0 .. c - 1
        /\ header[blockIndex].capacity = c
        /\ t \in SlotsOf(blockIndex) /\ blockIndex \in Nat
    BY Current DEF blockIndex, IndexOK, IndexTyped
  <1>2. /\ at = "insert" /\ at' = at /\ noexcept' = noexcept /\ tailIndex' = tailIndex
        /\ ~HasRoom(NewEntry)
        /\ header' = Append(header, new) /\ entry' = entry \o more
    BY <1>1 DEF GrowIndex, counters, producerVars
  <1>3. /\ N >= c - 1 /\ N \in Int
        /\ \A k \in 0 .. c - 1 :
              L(k) \in SlotsOf(blockIndex)
              /\ Number(EntryAt(blockIndex, L(k))) = N + 1 - c + k
        /\ \A e \in Entries : \E k \in 0 .. c - 1 : EntryAt(blockIndex, L(k)) = e
        /\ \A e \in Entries : Keyed(e) /\ Number(e) <= N
    BY <1>2, FullIndex
  <1>4. /\ Newest' = N /\ LastBlock' = LastBlock /\ LastBlock = N
    BY <1>2 DEF LastBlock, Newest, Speculative
  <1>5. /\ new.capacity = 2 * c /\ new.tail = c - 1
        /\ \A k \in 0 .. 2 * c - 1 :
             new.slot[k] = IF k < c THEN EntryAt(blockIndex, L(k)) ELSE c + 1 + k - c
        /\ new.slot = [k \in 0 .. 2 * c - 1 |-> new.slot[k]]
    BY <1>1 DEF ExtendedIndex, EntryAt
  <1>6. Garbage \notin Blocks /\ Garbage = -1 /\ INVALID_BLOCK_BASE = 1
    BY BlocksAssumption DEF Garbage, INVALID_BLOCK_BASE
  <1>7. /\ more \in Seq(EntryType) /\ Len(more) = c
        /\ \A i \in 1 .. c : more[i].key = INVALID_BLOCK_BASE /\ more[i].value = Garbage
    <2> DEFINE r == [key |-> INVALID_BLOCK_BASE, value |-> Garbage]
    <2>1. r \in EntryType BY <1>6 DEF EntryType
    <2>2. r.key = INVALID_BLOCK_BASE /\ r.value = Garbage OBVIOUS
    <2>3. more = [i \in 1 .. c |-> r] BY DEF FreshEntries
    <2> HIDE DEF r, more
    <2> QED BY <1>1, <2>1, <2>2, <2>3
  <1> HIDE DEF N, c, t, new, more, L
  <1>8. entry \in Seq(EntryType) /\ Len(entry) = c /\ Entries = 1 .. c /\ tailIndex \in Nat
        /\ header \in Seq(HeaderType) /\ Len(header) = blockIndex
    BY DEF IndexOK, IndexTyped, Entries, c, blockIndex
  <1>9. /\ entry' \in Seq(EntryType) /\ Len(entry') = c + c
        /\ \A e \in 1 .. c : entry'[e] = entry[e]
        /\ \A i \in 1 .. c : entry'[c + i] = more[i]
    <2>1. entry' = entry \o more BY <1>2
    <2>2. entry \in Seq(EntryType) /\ more \in Seq(EntryType) BY <1>7, <1>8
    <2>3. /\ entry' \in Seq(EntryType) /\ Len(entry') = Len(entry) + Len(more)
          /\ \A e \in 1 .. Len(entry) : entry'[e] = entry[e]
          /\ \A i \in 1 .. Len(more) : entry'[Len(entry) + i] = more[i]
      BY <2>1, <2>2, Concatenated
    <2> QED BY <1>7, <1>8, <2>3
  <1>10. /\ Entries' = 1 .. c + c
         /\ \A e \in Entries : /\ Number(e)' = Number(e) /\ (Keyed(e)' <=> Keyed(e))
                               /\ (Live(e)' <=> Live(e)) /\ e \in Entries'
    BY <1>1, <1>8, <1>9 DEF Entries, Number, Keyed, Live
  <1>11. ASSUME NEW e \in Entries', e \notin Entries
         PROVE  ~Live(e)' /\ Number(e)' = -1 /\ ~Keyed(e)'
    <2> DEFINE i == e - c
    <2>1. e \in Int /\ i \in 1 .. c /\ e = c + i BY <1>1, <1>8, <1>10, <1>11
    <2>2. entry'[e].key = INVALID_BLOCK_BASE /\ entry'[e].value = Garbage
      BY <1>7, <1>9, <2>1
    <2> QED BY <1>6, <2>2 DEF Live, Number, Keyed
  <1>12. ASSUME NEW k \in 0 .. c - 1
         PROVE  /\ new.slot[k] = EntryAt(blockIndex, L(k)) /\ new.slot[k] \in Entries
                /\ Number(new.slot[k]) = N + 1 - c + k
    <2>1. k \in 0 .. 2 * c - 1 /\ k < c BY <1>1
    <2>2. new.slot[k] = EntryAt(blockIndex, L(k)) BY <1>5, <2>1
    <2>3. PICK l \in SlotsOf(blockIndex) :
            l = L(k) /\ Number(EntryAt(blockIndex, l)) = N + 1 - c + k
      BY <1>3
    <2>4. EntryAt(blockIndex, l) \in Entries BY <1>1, HeaderTyped
    <2> QED BY <2>2, <2>3, <2>4
  <1>13. ASSUME NEW k \in 0 .. 2 * c - 1, ~(k < c)
         PROVE  new.slot[k] = k + 1 /\ k + 1 \in Entries' /\ k + 1 \notin Entries
    BY <1>1, <1>5, <1>8, <1>10, <1>13
  <1>14. new \in HeaderType
    <2>1. \A k \in 0 .. 2 * c - 1 : new.slot[k] \in Nat
      <3> SUFFICES ASSUME NEW k \in 0 .. 2 * c - 1 PROVE new.slot[k] \in Nat OBVIOUS
      <3>1. CASE k < c
        <4>1. k \in 0 .. c - 1 BY <1>1, <3>1
        <4> QED BY <1>8, <1>12, <4>1
      <3>2. CASE ~(k < c) BY <1>1, <1>13, <3>2
      <3> QED BY <3>1, <3>2
    <2>2. new.slot \in [0 .. 2 * c - 1 -> Nat] BY <1>5, <2>1
    <2>3. 2 * c \in Nat /\ c - 1 \in Nat BY <1>1
    <2>4. new.slot \in UNION {[0 .. n - 1 -> Nat] : n \in Nat}
      <3> DEFINE n == 2 * c
      <3>1. n \in Nat /\ new.slot \in [0 .. n - 1 -> Nat] BY <2>2, <2>3
      <3> HIDE DEF n
      <3> QED BY <3>1
    <2>5. new = [capacity |-> new.capacity, tail |-> new.tail, slot |-> new.slot]
      BY DEF new, ExtendedIndex
    <2> QED BY <1>5, <2>3, <2>4, <2>5 DEF HeaderType
  <1>15. /\ blockIndex' = blockIndex + 1
         /\ header' \in Seq(HeaderType) /\ Len(header') >= 1
         /\ header'[blockIndex + 1] = new
         /\ \A h \in 1 .. blockIndex : header'[h] = header[h]
    BY <1>1, <1>2, <1>8, <1>14 DEF blockIndex
  <1>16. IndexTyped' BY <1>1, <1>2, <1>8, <1>9, <1>15 DEF IndexTyped
  <1>17. Congruent(2 * c, 0, c)
    <2>1. 2 * c - 0 = 2 * c BY <1>1
    <2> QED BY <2>1 DEF Congruent
  <1>18. ASSUME NEW h \in 1 .. blockIndex PROVE HeaderOK(h)'
    <2>1. HeaderOK(h) /\ header[h].capacity \in Nat \ {0} BY HeaderTyped DEF IndexOK
    <2>2. /\ SlotsOf(h)' = SlotsOf(h) /\ \A l \in SlotsOf(h) : EntryAt(h, l)' = EntryAt(h, l)
          /\ header'[h] = header[h]
      BY <1>15 DEF EntryAt, SlotsOf
    <2>3. \A l \in SlotsOf(h) : EntryAt(h, l) \in Entries BY HeaderTyped
    <2>4. \A l \in SlotsOf(h) : /\ Number(EntryAt(h, l))' = Number(EntryAt(h, l))
                                /\ Keyed(EntryAt(h, l))' <=> Keyed(EntryAt(h, l))
                                /\ EntryAt(h, l)' \in Entries' /\ Keyed(EntryAt(h, l))'
      <3> SUFFICES ASSUME NEW l \in SlotsOf(h)
                   PROVE  /\ Number(EntryAt(h, l))' = Number(EntryAt(h, l))
                          /\ Keyed(EntryAt(h, l))' <=> Keyed(EntryAt(h, l))
                          /\ EntryAt(h, l)' \in Entries' /\ Keyed(EntryAt(h, l))'
        OBVIOUS
      <3>1. PICK e \in Entries : e = EntryAt(h, l) BY <2>3
      <3>2. EntryAt(h, l)' = e BY <2>2, <3>1
      <3>3. Number(e)' = Number(e) /\ Keyed(e)' /\ Keyed(e) /\ e \in Entries' BY <1>3, <1>10
      <3>4. Number(EntryAt(h, l))' = Number(e)' /\ (Keyed(EntryAt(h, l))' <=> Keyed(e)')
        BY <3>2 DEF Number, Keyed
      <3> QED BY <3>1, <3>2, <3>3, <3>4
    <2>5. Aligned(h)' BY <2>1, <2>2, <2>4 DEF HeaderOK, Aligned
    <2>6. Congruent(c, 0, header[h].capacity)
      <3>1. CASE h = blockIndex
        <4>1. c - 0 = 1 * c /\ 1 \in Int BY <1>1
        <4> QED BY <1>1, <3>1, <4>1 DEF Congruent
      <3>2. CASE h # blockIndex BY <1>1, <2>1, <3>2 DEF HeaderOK
      <3> QED BY <3>1, <3>2
    <2>7. Congruent(2 * c, 0, header[h].capacity)
      <3> DEFINE d == header[h].capacity  x == 2 * c
      <3>1. x \in Int /\ c \in Nat /\ d \in Nat /\ 0 \in Int /\ Congruent(x, 0, c)
            /\ Congruent(c, 0, d)
        BY <1>1, <1>17, <2>1, <2>6
      <3> HIDE DEF x, d
      <3>2. Congruent(x, 0, d) BY <3>1, CongruentFactor
      <3> QED BY <3>2 DEF x, d
    <2>8. Congruent(header'[blockIndex'].capacity, 0, header'[h].capacity)
      BY <1>5, <1>15, <2>2, <2>7
    <2> QED BY <2>1, <2>2, <2>3, <2>4, <2>5, <2>8 DEF HeaderOK
  <1>19. PICK slot : slot = new.slot OBVIOUS
  <1>20. ASSUME NEW k \in 0 .. c - 1
         PROVE  /\ slot[k] = EntryAt(blockIndex, L(k)) /\ slot[k] \in Entries /\ slot[k] \in Entries'
                /\ Number(slot[k])' = N + 1 - c + k /\ Keyed(slot[k])'
    <2>1. PICK e \in Entries : e = slot[k] BY <1>12, <1>19
    <2>2. Number(e) = N + 1 - c + k BY <1>12, <1>19, <2>1
    <2>3. Number(e)' = Number(e) /\ Keyed(e)' /\ e \in Entries' BY <1>3, <1>10
    <2> QED BY <1>12, <1>19, <2>1, <2>2, <2>3
  <1>21. ASSUME NEW k \in 0 .. 2 * c - 1, ~(k < c)
         PROVE  slot[k] = k + 1 /\ slot[k] \in Entries' /\ slot[k] \notin Entries /\ ~Keyed(slot[k])'
    <2>1. slot[k] = k + 1 /\ slot[k] \in Entries' /\ slot[k] \notin Entries BY <1>13, <1>19, <1>21
    <2>2. PICK e \in Entries' : e = slot[k] /\ e \notin Entries BY <2>1
    <2>3. ~Keyed(e)' BY <1>11, <2>2
    <2> QED BY <2>1, <2>2, <2>3
  <1>22. /\ blockIndex' \in 1 .. blockIndex' /\ header'[blockIndex'].capacity = 2 * c
         /\ SlotsOf(blockIndex)' = 0 .. 2 * c - 1 /\ header'[blockIndex'].tail = c - 1
         /\ \A k : EntryAt(blockIndex, k)' = slot[k]
    <2>1. blockIndex' \in 1 .. blockIndex' BY <1>1, <1>15
    <2>2. header'[blockIndex'] = new BY <1>15
    <2> QED BY <1>5, <1>19, <2>1, <2>2 DEF SlotsOf, EntryAt
  <1>23. HeaderOK(blockIndex)'
    <2>1. ASSUME NEW k \in 0 .. 2 * c - 1 PROVE k \in Int /\ (k < c => k \in 0 .. c - 1)
      BY <1>1
    <2>2. ASSUME NEW k \in 0 .. 2 * c - 1, NEW l \in 0 .. 2 * c - 1, slot[k] = slot[l]
          PROVE  k = l
      <3>1. CASE k < c /\ l < c
        <4>1. N + 1 - c + k = N + 1 - c + l BY <1>20, <2>1, <2>2, <3>1
        <4> QED BY <1>1, <1>3, <2>1, <4>1
      <3>2. CASE ~(k < c) /\ ~(l < c)
        <4>1. k + 1 = l + 1 BY <1>21, <2>2, <3>2
        <4> QED BY <2>1, <4>1
      <3>3. CASE k < c /\ ~(l < c) BY <1>20, <1>21, <2>1, <2>2, <3>3
      <3>4. CASE ~(k < c) /\ l < c BY <1>20, <1>21, <2>1, <2>2, <3>4
      <3> QED BY <3>1, <3>2, <3>3, <3>4
    <2>3. ASSUME NEW k \in 0 .. 2 * c - 1, NEW l \in 0 .. 2 * c - 1,
                 Keyed(slot[k])', Keyed(slot[l])'
          PROVE  Congruent(k - Number(slot[k])', l - Number(slot[l])', 2 * c)
      <3>1. k < c /\ l < c BY <1>21, <2>3
      <3>2. Number(slot[k])' = N + 1 - c + k /\ Number(slot[l])' = N + 1 - c + l
        BY <1>20, <2>1, <3>1
      <3> DEFINE x == k - (N + 1 - c + k)  y == l - (N + 1 - c + l)  d == 2 * c
      <3>3. x \in Int /\ y = x /\ d \in Nat BY <1>1, <1>3, <2>1
      <3> HIDE DEF x, y, d
      <3>4. Congruent(x, y, d) BY <3>3, CongruentEq
      <3> QED BY <3>2, <3>4 DEF x, y, d
    <2>4. \A k \in 0 .. 2 * c - 1 : slot[k] \in Entries' BY <1>20, <1>21, <2>1
    <2>5. Aligned(blockIndex)'
      <3> SUFFICES ASSUME NEW k \in 0 .. 2 * c - 1, NEW l \in 0 .. 2 * c - 1,
                          Keyed(EntryAt(blockIndex, k))', Keyed(EntryAt(blockIndex, l))'
                   PROVE  Congruent(k - Number(EntryAt(blockIndex, k))',
                                    l - Number(EntryAt(blockIndex, l))', 2 * c)
        BY <1>22 DEF Aligned
      <3>1. Keyed(slot[k])' /\ Keyed(slot[l])' BY <1>22 DEF Keyed, Number
      <3>2. Number(EntryAt(blockIndex, k))' = Number(slot[k])'
            /\ Number(EntryAt(blockIndex, l))' = Number(slot[l])'
        BY <1>22 DEF Number
      <3> QED BY <2>3, <3>1, <3>2
    <2>6. 2 * c # 0 /\ c - 1 \in 0 .. 2 * c - 1 BY <1>1
    <2> QED BY <1>22, <2>2, <2>4, <2>5, <2>6 DEF HeaderOK
  <1>24. ASSUME NEW e \in Entries' PROVE EntryOK(e)'
    <2>1. CASE e \in Entries
      <3>1. EntryOK(e) /\ Number(e)' = Number(e) /\ Number(e) \in Int /\ Number(e) <= N
            /\ entry'[e] = entry[e] /\ (Keyed(e)' <=> Keyed(e)) /\ Keyed(e)
        BY <1>3, <1>8, <1>9, <1>10, <1>16, <2>1, NumberTyped DEF IndexOK
      <3>2. Number(e)' > Newest' - Len(entry')
        <4>1. Number(e) > N - c BY <3>1 DEF EntryOK, N, c
        <4> QED BY <1>1, <1>3, <1>4, <1>9, <3>1, <4>1
      <3>3. \A m \in Int : Number(e)' <= m /\ m <= Newest' => \E f \in Entries' : Number(f)' = m
        <4> SUFFICES ASSUME NEW m \in Int, Number(e) <= m, m <= N
                     PROVE  \E f \in Entries' : Number(f)' = m
          BY <1>4, <3>1
        <4>1. PICK f \in Entries : Number(f) = m BY <3>1 DEF EntryOK, N
        <4> QED BY <1>10, <4>1
      <3>4. entry[e].value # Garbage BY <1>2, <3>1 DEF EntryOK, Speculative
      <3>5. Number(e)' <= Newest' BY <1>4, <3>1
      <3>6. Keyed(e)' => entry'[e].key = BLOCK_SIZE * Number(e)' BY <3>1 DEF EntryOK
      <3>7. entry'[e].value # Garbage BY <3>1, <3>4
      <3> QED BY <3>1, <3>2, <3>3, <3>5, <3>6, <3>7 DEF EntryOK
    <2>2. CASE e \notin Entries
      <3>1. ~Live(e)' /\ Number(e)' = -1 /\ ~Keyed(e)' BY <1>11, <2>2
      <3>2. -1 <= N BY <1>1, <1>3
      <3>3. Number(e)' <= Newest' BY <1>4, <3>1, <3>2
      <3> QED BY <3>1, <3>3 DEF EntryOK
    <2> QED BY <2>1, <2>2
  <1>25. CurrentOK'
    <2>1. ASSUME NEW e \in Entries' PROVE \E k \in 0 .. 2 * c - 1 : slot[k] = e
      <3>1. CASE e \in Entries
        <4>1. PICK k \in 0 .. c - 1 : EntryAt(blockIndex, L(k)) = e BY <1>3, <3>1
        <4>2. k \in 0 .. 2 * c - 1 BY <1>1
        <4> QED BY <1>20, <4>1, <4>2
      <3>2. CASE e \notin Entries
        <4> DEFINE k == e - 1
        <4>1. k \in 0 .. 2 * c - 1 /\ ~(k < c) /\ k + 1 = e BY <1>1, <1>8, <1>10, <3>2
        <4> HIDE DEF k
        <4> QED BY <1>21, <4>1
      <3> QED BY <3>1, <3>2
    <2>2. PICK j \in 0 .. c - 1 : j = c - 1 /\ N + 1 - c + j = N BY <1>1, <1>3
    <2>3. Number(slot[j])' = N BY <1>20, <2>2
    <2>4. TailEntry' = slot[j] BY <1>22, <2>2 DEF TailEntry, EntryAt
    <2>5. Number(TailEntry)' = Newest' BY <1>4, <2>3, <2>4 DEF Number
    <2>6. LastBlock' >= 0 => \E e \in Entries' : Number(e)' = LastBlock'
      BY <1>4, <1>20, <2>2, <2>3
    <2>7. header'[blockIndex'].capacity = Len(entry') BY <1>1, <1>9, <1>22
    <2>8. \A e \in Entries' : \E k \in SlotsOf(blockIndex)' : EntryAt(blockIndex, k)' = e
      BY <1>22, <2>1
    <2> QED BY <2>5, <2>6, <2>7, <2>8 DEF CurrentOK
  <1>26. StageOK' BY <1>2 DEF StageOK, Speculative, IndexOK
  <1>27. \A h \in 1 .. blockIndex' : HeaderOK(h)'
    <2> SUFFICES ASSUME NEW h \in 1 .. blockIndex' PROVE HeaderOK(h)' OBVIOUS
    <2>1. CASE h \in 1 .. blockIndex BY <1>18, <2>1
    <2>2. CASE h \notin 1 .. blockIndex
      <3>1. h = blockIndex' BY <1>1, <1>15, <2>2
      <3> QED BY <1>23, <3>1 DEF HeaderOK, Aligned, SlotsOf, EntryAt
    <2> QED BY <2>1, <2>2
  <1>28. IndexOK' BY <1>16, <1>24, <1>25, <1>26, <1>27 DEF IndexOK
  <1> QED BY <1>4, <1>8, <1>9, <1>10, <1>11, <1>15, <1>28

-----------------------------------------------------------------------------
(* The blocks.                                                             *)

\* The elements of a consumer that are not counted in elementsCompletelyDequeued yet.
Uncounted(c) ==
  (IF pc[c] \in Looking \cup {"set_empty"} THEN my[c].index
   ELSE IF pc[c] \in {"clear", "free"} THEN my[c].index + Here(c)
   ELSE my[c].index + my[c].want) .. (my[c].index + my[c].want - 1)

\* Elements that are not counted or not claimed yet, and those in a slot.
Open(n) == n >= headIndex \/ \E c \in Consumers : n \in Uncounted(c)

\* The elements that a block must hold.
Stored(n) == n \in Alive \/ (at = "store_tail" /\ n = tailIndex)

\* The k-th element of block m, and the places of the block whose elements are open.
Nth(m, k) == BLOCK_SIZE * m + k
OpenIn(m) == {k \in Slots : Open(Nth(m, k))}

\* The block of an entry has its elements, and counts those that are gone.
ContentOK(e) ==
  Live(e) =>
    /\ dequeued[entry[e].value] + Cardinality(OpenIn(Number(e))) = BLOCK_SIZE
    /\ \A k \in Slots : elements[entry[e].value][k] =
                          IF Stored(Nth(Number(e), k)) THEN Nth(Number(e), k) ELSE Null
    /\ OpenIn(Number(e)) # {} \/ \E c \in Consumers : pc[c] = "clear" /\ my[c].entry = e

\* Every block with open elements is in the index; the newest one is tailBlock.
ContentsOK ==
  /\ \A e \in Entries : ContentOK(e)
  /\ \A m \in Nat : m <= LastBlock /\ OpenIn(m) # {} => \E e \in Entries : Number(e) = m /\ Live(e)
  /\ \A e \in Entries : Live(e) /\ Number(e) = LastBlock => entry[e].value = tailBlock

\* A block is with the consumer that frees it, or in the block index.
Held(b) == \E c \in Consumers : pc[c] = "free" /\ my[c].block = b
InIndex(b) == \E e \in Entries : entry[e].value = b

\* A block that holds no element.
Blank(b) == \A k \in Slots : elements[b][k] = Null

\* A block is in one place.
Once(b) ==
  /\ b \in unused \/ b \in freeList \/ b = newBlock \/ Held(b) \/ InIndex(b)
  /\ b \in unused => b \notin freeList /\ b # newBlock /\ ~Held(b) /\ ~InIndex(b)
  /\ b \in freeList => b # newBlock /\ ~Held(b) /\ ~InIndex(b)
  /\ b = newBlock => ~Held(b) /\ ~InIndex(b)
  /\ Held(b) => ~InIndex(b)

\* Every block is in one place, in one entry if it is in the index, and blank outside the index.
KeptOK ==
  /\ unused \subseteq Blocks /\ freeList \subseteq Blocks /\ newBlock \in Blocks \cup {Null}
  /\ elements = [b \in Blocks |-> [k \in Slots |-> elements[b][k]]]
  /\ dequeued \in [Blocks -> Nat]
  /\ \A e, f \in Entries : Live(e) /\ entry[e].value = entry[f].value => e = f
  /\ \A b \in Blocks : Once(b)
  /\ \A b \in Blocks : b \in unused \/ b \in freeList \/ Held(b) => Blank(b)
  /\ newBlock # Null =>
       /\ at \in {"construct_first", "publish", "rewind", "empty_entry"}
       /\ \A k \in Slots : elements[newBlock][k] =
                             IF at = "publish" /\ ~noexcept /\ k = 0 THEN tailIndex ELSE Null
  /\ at \in {"construct_first", "publish"} => newBlock \in Blocks /\ dequeued[newBlock] = 0
  /\ at = "construct_first" => ~noexcept

\* The names of a consumer's locals.
Fields == {"size_tail", "tail", "overcommit", "count", "want", "lost", "index", "header", "slot",
           "entry", "block"}

\* The elements of a consumer in the blocks after the one it is at.
Rest(c) == (my[c].index + Here(c)) .. (my[c].index + my[c].want - 1)

\* The blocks of the elements of S are among the slots of header h.
Sees(h, S) ==
  /\ h \in 1 .. blockIndex
  /\ \A n \in S : \E k \in SlotsOf(h) : Number(EntryAt(h, k)) = BlockOf(n)

\* A consumer that goes on to another block finds it in the next slot of its header.
Ready(c) ==
  /\ Sees(my[c].header, Rest(c)) /\ my[c].slot \in SlotsOf(my[c].header)
  /\ Number(EntryAt(my[c].header, (my[c].slot + 1) % header[my[c].header].capacity)) =
       BlockOf(my[c].index + Here(c))

\* A consumer that has claimed its elements: what it loaded from the index still holds.
Reader(c) ==
  /\ pc[c] \in {"lost_some", "claim"} => my[c].want > 0
  /\ pc[c] \in Finding =>
       /\ DOMAIN my[c] = Fields
       /\ my[c].index \in Nat /\ my[c].want \in Nat \ {0} /\ my[c].index + my[c].want <= headIndex
  /\ pc[c] \in {"slot", "entry"} => Sees(my[c].header, Uncounted(c))
  /\ pc[c] = "entry" => /\ my[c].slot \in SlotsOf(my[c].header)
                        /\ Keyed(EntryAt(my[c].header, my[c].slot))
  /\ pc[c] \in {"value", "take", "set_empty", "clear"} =>
       /\ my[c].entry \in Entries /\ Live(my[c].entry)
       /\ Number(my[c].entry) = BlockOf(my[c].index)
  /\ pc[c] \in {"take", "set_empty", "clear"} => my[c].block = entry[my[c].entry].value
  /\ pc[c] \in {"value", "take", "set_empty", "clear", "free"} /\ my[c].want > Here(c) => Ready(c)
  /\ pc[c] = "clear" => dequeued[my[c].block] = BLOCK_SIZE
  /\ pc[c] = "free" => my[c].block \in Blocks

\* No element, and no block, is taken by two consumers.
Apart ==
  \A c, d \in Consumers : c # d =>
    /\ Uncounted(c) \cap Uncounted(d) = {}
    /\ pc[c] \in {"clear", "free"} /\ pc[d] \in {"clear", "free"} => my[c].block # my[d].block

\* The invariant of the blocks until the destructor has run.
ReadersOK == \A c \in Consumers : Reader(c)
IndexInv == IndexOK /\ ContentsOK /\ KeptOK /\ ReadersOK /\ Apart

\* The whole invariant of the blocks: the destructor runs when nobody dequeues, and leaves no index.
BInv ==
  IF at = "destroyed" THEN BlocksAreKept /\ \A c \in Consumers : pc[c] = "idle" ELSE IndexInv

\* What the counters and the locals are.
LEMMA Counters ==
  ASSUME IInv
  PROVE  /\ Typed /\ headIndex \in Nat /\ tailIndex \in Nat /\ headIndex <= tailIndex
         /\ LastBlock \in Int
         /\ \A n \in Nat : n < tailIndex => BlockOf(n) <= LastBlock
PROOF
  <1>1. Typed /\ headIndex \in Nat /\ tailIndex \in Nat BY DEF IInv, Typed
  <1>2. headIndex <= tailIndex
    <2>1. headIndex + Promised(tailIndex) <= tailIndex BY <1>1 DEF IInv, WithinTail
    <2>2. Promised(tailIndex) \in Nat BY <1>1, SumsTyped
    <2> QED BY <1>1, <2>1, <2>2
  <1>3. LastBlock \in Int BY <1>1, NewestTyped
  <1>4. ASSUME NEW n \in Nat, n < tailIndex PROVE BlockOf(n) <= LastBlock
    <2>1. BlockOf(n) <= Before(tailIndex) /\ BlockOf(n) <= BlockOf(tailIndex)
      BY <1>1, <1>4, BlockOfOrder
    <2> QED BY <2>1 DEF LastBlock
  <1> QED BY <1>1, <1>2, <1>3, <1>4

\* A consumer that only counts has no elements.
LEMMA Idle ==
  ASSUME Typed, NEW c \in Consumers, pc[c] \in Counting
  PROVE  Uncounted(c) = {} /\ Claimed(c) = {}
PROOF
  <1>1. my[c] \in Locals BY DEF Typed
  <1>2. my[c].index = 0 /\ my[c].want \in Nat BY <1>1 DEF Locals
  <1>3. pc[c] \notin Looking /\ pc[c] \notin {"set_empty", "clear", "free"}
    BY DEF Counting, Looking
  <1>4. /\ Uncounted(c) = (0 + my[c].want) .. (0 + my[c].want - 1)
        /\ Claimed(c) = (0 + my[c].want) .. (0 + my[c].want - 1)
    BY <1>2, <1>3 DEF Uncounted, Claimed
  <1> QED BY <1>2, <1>4

\* What a consumer with elements has, in numbers.
LEMMA Busy ==
  ASSUME NEW c \in Consumers, pc[c] \in Finding, headIndex \in Nat, Reader(c)
  PROVE  /\ my[c].index \in Nat /\ my[c].want \in Nat \ {0}
         /\ my[c].index + my[c].want <= headIndex
         /\ Here(c) \in 1 .. my[c].want /\ Here(c) <= BLOCK_SIZE
         /\ BlockOf(my[c].index) \in Nat /\ my[c].index % BLOCK_SIZE \in Slots
         /\ my[c].index = Nth(BlockOf(my[c].index), my[c].index % BLOCK_SIZE)
         /\ (my[c].index % BLOCK_SIZE) + Here(c) <= BLOCK_SIZE
         /\ my[c].want > Here(c) => (my[c].index % BLOCK_SIZE) + Here(c) = BLOCK_SIZE
         /\ Claimed(c) = IF pc[c] \in Looking THEN my[c].index .. (my[c].index + my[c].want - 1)
                                              ELSE Rest(c)
         /\ Uncounted(c) = IF pc[c] \in Looking \cup {"set_empty"}
                           THEN my[c].index .. (my[c].index + my[c].want - 1) ELSE Rest(c)
PROOF
  <1> DEFINE i == my[c].index  w == my[c].want  r == i % BLOCK_SIZE
  <1>1. i \in Nat /\ w \in Nat \ {0} /\ i + w <= headIndex BY DEF Reader
  <1>2. BLOCK_SIZE \in Nat \ {0, 1} BY SizeAssumption
  <1>3. BlockOf(i) \in Nat /\ r \in Slots /\ i = Nth(BlockOf(i), r) BY <1>1, BlockOfFacts DEF Nth
  <1>4. Here(c) = IF w < BLOCK_SIZE - r THEN w ELSE BLOCK_SIZE - r BY DEF Here, LeastOf
  <1>5. r \in Int /\ 0 <= r /\ r < BLOCK_SIZE BY <1>2, <1>3 DEF Slots
  <1>6. /\ Claimed(c) = IF pc[c] \in Looking THEN i .. (i + w - 1) ELSE Rest(c)
        /\ Uncounted(c) = IF pc[c] \in Looking \cup {"set_empty"} THEN i .. (i + w - 1) ELSE Rest(c)
    BY DEF Claimed, Uncounted, Finding, Rest
  <1> HIDE DEF i, w, r
  <1>7. /\ Here(c) \in 1 .. w /\ Here(c) <= BLOCK_SIZE /\ r + Here(c) <= BLOCK_SIZE
        /\ w > Here(c) => r + Here(c) = BLOCK_SIZE
    BY <1>1, <1>2, <1>4, <1>5
  <1> QED BY <1>1, <1>3, <1>6, <1>7 DEF i, w, r

\* The elements of a consumer were enqueued, and are before headIndex.
LEMMA Intervals ==
  ASSUME IInv, ReadersOK, NEW c \in Consumers
  PROVE  /\ Claimed(c) \subseteq Uncounted(c)
         /\ \A n \in Uncounted(c) : n \in Nat /\ n < headIndex /\ n < tailIndex
PROOF
  <1>1. Typed /\ headIndex \in Nat /\ tailIndex \in Nat /\ headIndex <= tailIndex BY Counters
  <1>2. CASE pc[c] \in Counting BY <1>1, <1>2, Idle
  <1>3. CASE pc[c] \in Finding
    <2> DEFINE i == my[c].index  w == my[c].want  h == Here(c)
    <2>1. /\ i \in Nat /\ w \in Nat \ {0} /\ i + w <= headIndex /\ h \in 1 .. w
          /\ Claimed(c) = IF pc[c] \in Looking THEN i .. (i + w - 1) ELSE (i + h) .. (i + w - 1)
          /\ Uncounted(c) = IF pc[c] \in Looking \cup {"set_empty"}
                            THEN i .. (i + w - 1) ELSE (i + h) .. (i + w - 1)
      BY <1>1, <1>3, Busy DEF ReadersOK, Rest
    <2> HIDE DEF i, w, h
    <2>2. Claimed(c) \subseteq Uncounted(c) BY <2>1
    <2>3. Uncounted(c) \subseteq i .. (i + w - 1) BY <2>1
    <2>4. \A n \in i .. (i + w - 1) : n \in Nat /\ n < headIndex /\ n < tailIndex BY <1>1, <2>1
    <2> QED BY <2>2, <2>3, <2>4
  <1> QED BY <1>1, <1>2, <1>3 DEF Typed

\* What is stored is open, and what is open and not beyond the last block has an entry.
LEMMA StoredIsOpen ==
  ASSUME IInv, ReadersOK, NEW n, Stored(n)
  PROVE  Open(n) /\ n \in Nat /\ n <= tailIndex
PROOF
  <1>1. headIndex \in Nat /\ tailIndex \in Nat /\ headIndex <= tailIndex BY Counters
  <1>2. CASE n \in headIndex .. (tailIndex - 1) BY <1>1, <1>2 DEF Open
  <1>3. ASSUME NEW c \in Consumers, n \in Claimed(c) PROVE Open(n) /\ n \in Nat /\ n <= tailIndex
    BY <1>1, <1>3, Intervals DEF Open
  <1>4. CASE n = tailIndex BY <1>1, <1>4 DEF Open
  <1> QED BY <1>2, <1>3, <1>4 DEF Stored, Alive

\* The block of an open element is in the index.
LEMMA OpenBlock ==
  ASSUME IndexOK, ContentsOK, NEW n \in Nat, Open(n), BlockOf(n) <= LastBlock
  PROVE  /\ \E e \in Entries : Number(e) = BlockOf(n) /\ Live(e)
         /\ \A e \in Entries : Number(e) = BlockOf(n) => Live(e)
PROOF
  <1>1. BlockOf(n) \in Nat /\ n % BLOCK_SIZE \in Slots /\ n = Nth(BlockOf(n), n % BLOCK_SIZE)
    BY BlockOfFacts DEF Nth
  <1>2. n % BLOCK_SIZE \in OpenIn(BlockOf(n)) BY <1>1 DEF OpenIn
  <1>3. PICK e \in Entries : Number(e) = BlockOf(n) /\ Live(e) BY <1>1, <1>2 DEF ContentsOK
  <1>4. Keyed(e) BY <1>1, <1>3 DEF Keyed
  <1> QED BY <1>3, <1>4, SameNumber

\* An entry with a block has a number, not beyond the last block.
LEMMA LiveNumber ==
  ASSUME IndexOK, NEW e \in Entries, Live(e)
  PROVE  /\ Keyed(e) /\ Number(e) \in Nat /\ Number(e) <= LastBlock
         /\ entry[e].key = BLOCK_SIZE * Number(e) /\ entry[e].value \in Blocks
PROOF
  <1>1. EntryOK(e) /\ IndexTyped /\ tailIndex \in Nat BY DEF IndexOK, IndexTyped
  <1>2. Keyed(e) /\ Number(e) \in Nat /\ entry[e].key = BLOCK_SIZE * Number(e)
    BY <1>1, NumberTyped DEF EntryOK, Keyed
  <1>3. Number(e) <= Newest BY <1>1 DEF EntryOK, Ahead
  <1>4. LastBlock \in Int /\ LastBlock >= 0 - 1 BY <1>1, NewestTyped
  <1>5. CASE at \in Speculative
    <2>1. Newest = LastBlock + 1 BY <1>5 DEF Newest
    <2>2. Number(TailEntry) = Newest /\ ~Live(TailEntry) /\ TailEntry \in Entries
      BY <1>4, <1>5, <2>1, Current DEF IndexOK, CurrentOK, StageOK
    <2>3. Number(e) # Newest BY <1>2, <2>2, SameNumber
    <2> QED BY <1>2, <1>3, <1>4, <2>1, <2>3 DEF Live
  <1>6. CASE at \notin Speculative
    <2>1. Newest = LastBlock BY <1>6 DEF Newest
    <2> QED BY <1>2, <1>3, <2>1 DEF Live
  <1> QED BY <1>5, <1>6

-----------------------------------------------------------------------------
(* What a step leaves alone.                                               *)

\* Steps leave the headers and the keys of the entries that are in use, or were.
IndexKept ==
  /\ blockIndex' \in Nat /\ blockIndex <= blockIndex'
  /\ \A h \in 1 .. blockIndex : header'[h].slot = header[h].slot
                                /\ header'[h].capacity = header[h].capacity
  /\ \A e \in Entries : e \in Entries' /\ (Keyed(e) => Keyed(e)')
                        /\ (Live(e) => Number(e)' = Number(e))

\* The slots of a header in use do not change.
LEMMA SlotsKept ==
  ASSUME IndexKept, NEW h \in 1 .. blockIndex
  PROVE  /\ h \in 1 .. blockIndex' /\ SlotsOf(h)' = SlotsOf(h)
         /\ \A k : EntryAt(h, k)' = EntryAt(h, k)
PROOF
  <1>1. blockIndex' \in Nat /\ blockIndex <= blockIndex' /\ header'[h].slot = header[h].slot
        /\ header'[h].capacity = header[h].capacity
    BY DEF IndexKept
  <1>2. h \in 1 .. blockIndex' BY <1>1 DEF blockIndex
  <1> QED BY <1>1, <1>2 DEF SlotsOf, EntryAt

\* What a header shows of blocks with elements stays.
LEMMA SeesKept ==
  ASSUME IndexOK, ContentsOK, IndexKept, NEW h, NEW S, Sees(h, S),
         \A n \in S : n \in Nat /\ Open(n) /\ BlockOf(n) <= LastBlock
  PROVE  Sees(h, S)'
PROOF
  <1>1. h \in 1 .. blockIndex BY DEF Sees
  <1>2. /\ h \in 1 .. blockIndex' /\ SlotsOf(h)' = SlotsOf(h)
        /\ \A k : EntryAt(h, k)' = EntryAt(h, k)
    BY <1>1, SlotsKept
  <1>3. ASSUME NEW n \in S
        PROVE  \E k \in SlotsOf(h) : Number(EntryAt(h, k))' = BlockOf(n)
    <2>1. PICK k \in SlotsOf(h) : Number(EntryAt(h, k)) = BlockOf(n) BY <1>3 DEF Sees
    <2>2. PICK e \in Entries : e = EntryAt(h, k) BY <1>1, HeaderTyped
    <2>3. Live(e) BY <1>3, <2>1, <2>2, OpenBlock
    <2>4. Number(e)' = BlockOf(n) BY <2>1, <2>2, <2>3 DEF IndexKept
    <2>5. EntryAt(h, k)' = e BY <1>2, <2>2
    <2>6. Number(EntryAt(h, k))' = Number(e)' BY <2>5 DEF Number
    <2> QED BY <2>1, <2>4, <2>6
  <1> QED BY <1>2, <1>3 DEF Sees

\* A consumer is not disturbed by the others.
LEMMA ReaderFrame ==
  ASSUME IInv, IndexOK, ContentsOK, ReadersOK, IndexKept,
         headIndex' \in Nat, headIndex <= headIndex',
         NEW c \in Consumers, pc'[c] = pc[c], my'[c] = my[c],
         pc[c] \in {"value", "take", "set_empty", "clear"} =>
           entry'[my[c].entry].value = entry[my[c].entry].value,
         pc[c] = "clear" => dequeued'[my[c].block] = dequeued[my[c].block]
  PROVE  Reader(c)' /\ Uncounted(c)' = Uncounted(c) /\ Claimed(c)' = Claimed(c) /\ Rest(c)' = Rest(c)
PROOF
  <1>1. Reader(c) /\ headIndex \in Nat BY Counters DEF ReadersOK
  <1>2. Here(c)' = Here(c) BY DEF Here
  <1>3. Uncounted(c)' = Uncounted(c) /\ Claimed(c)' = Claimed(c) /\ Rest(c)' = Rest(c)
    BY <1>2 DEF Uncounted, Claimed, Rest
  <1>4. ASSUME NEW n \in Uncounted(c) PROVE n \in Nat /\ Open(n) /\ BlockOf(n) <= LastBlock
    BY <1>4, Intervals, Counters DEF Open
  <1>5. pc[c] \in {"slot", "entry"} => Sees(my[c].header, Uncounted(c))'
    BY <1>1, <1>3, <1>4, SeesKept DEF Reader, Sees
  <1>6. pc[c] = "entry" => /\ my[c].slot \in SlotsOf(my[c].header)'
                           /\ Keyed(EntryAt(my[c].header, my[c].slot))'
    <2> SUFFICES ASSUME pc[c] = "entry" PROVE /\ my[c].slot \in SlotsOf(my[c].header)'
                                              /\ Keyed(EntryAt(my[c].header, my[c].slot))'
      OBVIOUS
    <2>1. PICK h : h = my[c].header OBVIOUS
    <2>2. PICK k : k = my[c].slot OBVIOUS
    <2>3. h \in 1 .. blockIndex /\ k \in SlotsOf(h) /\ Keyed(EntryAt(h, k))
      BY <1>1, <2>1, <2>2 DEF Reader, Sees
    <2>4. PICK e \in Entries : e = EntryAt(h, k) BY <2>3, HeaderTyped
    <2>5. Keyed(e)' BY <2>3, <2>4 DEF IndexKept
    <2>6. k \in SlotsOf(h)' /\ EntryAt(h, k)' = e BY <2>3, <2>4, SlotsKept
    <2>7. Keyed(EntryAt(h, k))' BY <2>5, <2>6 DEF Keyed, Number
    <2>8. my'[c].header = h /\ my'[c].slot = k BY <2>1, <2>2
    <2> QED BY <2>1, <2>2, <2>6, <2>7, <2>8 DEF SlotsOf, EntryAt, Keyed, Number
  <1>7. pc[c] \in {"value", "take", "set_empty", "clear"} =>
          /\ my[c].entry \in Entries' /\ Live(my[c].entry)'
          /\ Number(my[c].entry)' = BlockOf(my[c].index)
    <2> SUFFICES ASSUME pc[c] \in {"value", "take", "set_empty", "clear"}
                 PROVE  /\ my[c].entry \in Entries' /\ Live(my[c].entry)'
                        /\ Number(my[c].entry)' = BlockOf(my[c].index)
      OBVIOUS
    <2>1. PICK e : e = my[c].entry OBVIOUS
    <2>2. e \in Entries /\ Live(e) /\ Number(e) = BlockOf(my[c].index) BY <1>1, <2>1 DEF Reader
    <2>3. e \in Entries' /\ Number(e)' = BlockOf(my[c].index) BY <2>2 DEF IndexKept
    <2>4. Live(e)' BY <2>1, <2>2 DEF Live
    <2>5. my'[c].entry = e BY <2>1
    <2> QED BY <2>1, <2>3, <2>4, <2>5 DEF Live, Number
  <1>8. pc[c] \in {"value", "take", "set_empty", "clear", "free"} /\ my[c].want > Here(c) => Ready(c)'
    <2> SUFFICES ASSUME pc[c] \in {"value", "take", "set_empty", "clear", "free"},
                        my[c].want > Here(c)
                 PROVE  Ready(c)'
      OBVIOUS
    <2>1. Ready(c) /\ pc[c] \in Finding BY <1>1 DEF Reader, Finding, Looking
    <2> DEFINE n == my[c].index + Here(c)
    <2>2. n \in Rest(c) /\ Rest(c) \subseteq Uncounted(c)
      <3>1. /\ my[c].index \in Nat /\ my[c].want \in Nat \ {0} /\ Here(c) \in 1 .. my[c].want
            /\ Uncounted(c) = IF pc[c] \in Looking \cup {"set_empty"}
                           THEN my[c].index .. (my[c].index + my[c].want - 1) ELSE Rest(c)
        BY <1>1, <2>1, Busy
      <3> QED BY <3>1 DEF Rest
    <2>3. Sees(my[c].header, Rest(c))' BY <1>3, <1>4, <2>1, <2>2, SeesKept DEF Ready, Sees
    <2>4. PICK h : h = my[c].header /\ h \in 1 .. blockIndex BY <2>1 DEF Ready, Sees
    <2>5. PICK k : k = my[c].slot OBVIOUS
    <2>6. PICK l : l = (k + 1) % header[h].capacity OBVIOUS
    <2>7. k \in SlotsOf(h) /\ Number(EntryAt(h, l)) = BlockOf(n) BY <2>1, <2>4, <2>5, <2>6 DEF Ready
    <2>8. l \in SlotsOf(h)
      <3>1. header[h].capacity \in Nat \ {0} /\ k \in Int BY <2>4, <2>7, HeaderTyped
      <3>2. k + 1 \in Int BY <3>1
      <3> QED BY <2>6, <3>1, <3>2, CongruentMod DEF SlotsOf
    <2>9. PICK e \in Entries : e = EntryAt(h, l) BY <2>4, <2>8, HeaderTyped
    <2>10. Live(e) BY <1>4, <2>2, <2>7, <2>9, OpenBlock
    <2>11. Number(e)' = BlockOf(n) BY <2>7, <2>9, <2>10 DEF IndexKept
    <2>12. /\ h \in 1 .. blockIndex' /\ SlotsOf(h)' = SlotsOf(h) /\ EntryAt(h, l)' = e
           /\ header'[h].capacity = header[h].capacity
      BY <2>4, <2>9, SlotsKept DEF IndexKept
    <2>13. my'[c].header = h /\ my'[c].slot = k BY <2>4, <2>5
    <2>14. my[c].slot \in SlotsOf(my[c].header)' BY <2>4, <2>5, <2>7, <2>12, <2>13 DEF SlotsOf
    <2>15. Number(EntryAt(my[c].header, (my[c].slot + 1) % header[my[c].header].capacity))' = BlockOf(n)
      BY <2>6, <2>11, <2>12, <2>13 DEF EntryAt, Number
    <2>16. BlockOf(my[c].index + Here(c))' = BlockOf(n) BY <1>2 DEF BlockOf
    <2> HIDE DEF n
    <2> QED BY <2>3, <2>14, <2>15, <2>16 DEF Ready, SlotsOf
  <1>9. my[c].index + my[c].want <= headIndex' \/ pc[c] \notin Finding
    <2> SUFFICES ASSUME pc[c] \in Finding PROVE my[c].index + my[c].want <= headIndex' OBVIOUS
    <2>1. my[c].index \in Nat /\ my[c].want \in Nat /\ my[c].index + my[c].want <= headIndex
      BY <1>1 DEF Reader
    <2> QED BY <1>1, <2>1
  <1>10. Reader(c)'
    BY <1>1, <1>2, <1>5, <1>6, <1>7, <1>8, <1>9 DEF Reader
  <1> QED BY <1>3, <1>10

\* Indices are numbers.
LEMMA NthTyped ==
  ASSUME NEW m \in Nat, NEW k \in Slots
  PROVE  /\ Nth(m, k) \in Nat /\ BlockOf(Nth(m, k)) = m /\ Nth(m, k) % BLOCK_SIZE = k
PROOF
  <1>1. k \in 0 .. BLOCK_SIZE - 1 /\ k \in Nat BY SizeAssumption DEF Slots
  <1>2. BLOCK_SIZE * m \in Nat BY BlockOfMultiple
  <1>3. BLOCK_SIZE * m + k \in Nat BY <1>1, <1>2
  <1>4. BlockOf(BLOCK_SIZE * m + k) = m /\ (BLOCK_SIZE * m + k) % BLOCK_SIZE = k
    BY <1>1, BlockOfMultiple
  <1> QED BY <1>3, <1>4 DEF Nth

\* A block whose entry and elements are left alone.
LEMMA ContentFrame ==
  ASSUME NEW e \in Entries, NEW m \in Nat, ContentOK(e), Live(e), Number(e) = m, Number(e)' = m,
         entry'[e].value = entry[e].value,
         elements'[entry[e].value] = elements[entry[e].value],
         dequeued'[entry[e].value] = dequeued[entry[e].value],
         \A k \in Slots : /\ Open(Nth(m, k))' <=> Open(Nth(m, k))
                          /\ Stored(Nth(m, k))' <=> Stored(Nth(m, k)),
         \A c \in Consumers : pc[c] = "clear" /\ my[c].entry = e =>
                              pc'[c] = "clear" /\ my'[c].entry = e
  PROVE  ContentOK(e)'
PROOF
  <1>1. OpenIn(m)' = OpenIn(m) BY DEF OpenIn
  <1>2. OpenIn(Number(e))' = OpenIn(m) BY <1>1 DEF OpenIn
  <1>3. dequeued'[entry'[e].value] + Cardinality(OpenIn(Number(e)))' = BLOCK_SIZE
    BY <1>2 DEF ContentOK
  <1>4. \A k \in Slots : elements'[entry'[e].value][k] =
                            IF Stored(Nth(Number(e), k))' THEN Nth(Number(e), k)' ELSE Null
    <2> SUFFICES ASSUME NEW k \in Slots
                 PROVE  elements'[entry'[e].value][k] =
                          IF Stored(Nth(Number(e), k))' THEN Nth(Number(e), k)' ELSE Null
      OBVIOUS
    <2>1. PICK n \in Nat : n = Nth(m, k) BY NthTyped
    <2>2. Nth(Number(e), k)' = n BY <2>1 DEF Nth
    <2>3. Stored(Nth(Number(e), k))' <=> Stored(n)' BY <2>2 DEF Stored, Alive
    <2>4. Stored(n)' <=> Stored(n) BY <2>1
    <2>5. elements[entry[e].value][k] = IF Stored(n) THEN n ELSE Null BY <2>1 DEF ContentOK
    <2> QED BY <2>2, <2>3, <2>4, <2>5
  <1>5. OpenIn(Number(e))' # {} \/ \E c \in Consumers : pc'[c] = "clear" /\ my'[c].entry = e
    BY <1>2 DEF ContentOK
  <1> QED BY <1>3, <1>4, <1>5 DEF ContentOK

\* Steps that leave the entries with blocks, their contents, and the open elements alone.
LEMMA ContentsFrame ==
  ASSUME IndexOK, ContentsOK,
         \A e \in Entries' : Live(e)' => e \in Entries /\ Live(e) /\ Number(e)' = Number(e)
                                         /\ entry'[e].value = entry[e].value,
         \A e \in Entries : Live(e) =>
           /\ e \in Entries' /\ Live(e)'
           /\ elements'[entry[e].value] = elements[entry[e].value]
           /\ dequeued'[entry[e].value] = dequeued[entry[e].value],
         LastBlock' = LastBlock, tailBlock' = tailBlock,
         \A n \in Nat : (Open(n)' <=> Open(n)) /\ (Stored(n)' <=> Stored(n)),
         \A c \in Consumers : pc[c] = "clear" => pc'[c] = "clear" /\ my'[c].entry = my[c].entry
  PROVE  ContentsOK'
PROOF
  <1>1. ASSUME NEW e \in Entries' PROVE ContentOK(e)'
    <2> SUFFICES ASSUME Live(e)' PROVE ContentOK(e)' BY DEF ContentOK
    <2>1. /\ e \in Entries /\ Live(e) /\ entry'[e].value = entry[e].value
          /\ Number(e)' = Number(e) /\ Number(e) \in Nat /\ ContentOK(e)
      BY LiveNumber DEF ContentsOK
    <2>2. PICK m \in Nat : m = Number(e) BY <2>1
    <2>3. \A k \in Slots : /\ Open(Nth(m, k))' <=> Open(Nth(m, k))
                           /\ Stored(Nth(m, k))' <=> Stored(Nth(m, k))
      BY NthTyped DEF Nth
    <2> QED BY <2>1, <2>2, <2>3, ContentFrame
  <1>2. ASSUME NEW m \in Nat, m <= LastBlock', OpenIn(m)' # {}
        PROVE  \E e \in Entries' : Number(e)' = m /\ Live(e)'
    <2>1. OpenIn(m)' = OpenIn(m) BY NthTyped DEF OpenIn, Nth
    <2>2. PICK e \in Entries : Number(e) = m /\ Live(e) BY <1>2, <2>1 DEF ContentsOK
    <2> QED BY <2>2
  <1>3. ASSUME NEW e \in Entries', Live(e)', Number(e)' = LastBlock' PROVE entry'[e].value = tailBlock'
    BY <1>3 DEF ContentsOK
  <1> QED BY <1>1, <1>2, <1>3 DEF ContentsOK

\* Entries keep the blocks they have, and get no others.
LiveKept ==
  /\ \A e \in Entries' : Live(e)' => e \in Entries /\ Live(e)
  /\ \A e \in Entries : Live(e) => /\ e \in Entries' /\ entry'[e].value = entry[e].value
                                   /\ Number(e)' = Number(e)

\* Such steps leave the blocks of the index where they are.
LEMMA IndexBlocks ==
  ASSUME KeptOK, LiveKept
  PROVE  /\ \A e, f \in Entries' : Live(e)' /\ entry'[e].value = entry'[f].value => e = f
         /\ \A b \in Blocks : InIndex(b)' <=> InIndex(b)
PROOF
  <1>1. \A e \in Entries' : Live(e)' =>
          e \in Entries /\ Live(e) /\ entry'[e].value = entry[e].value
    BY DEF LiveKept
  <1>2. \A e, f \in Entries' : Live(e)' /\ entry'[e].value = entry'[f].value => e = f
    <2> SUFFICES ASSUME NEW e \in Entries', NEW f \in Entries', Live(e)',
                        entry'[e].value = entry'[f].value
                 PROVE  e = f
      OBVIOUS
    <2>1. Live(f)' BY DEF Live
    <2> QED BY <1>1, <2>1 DEF KeptOK
  <1>3. ASSUME NEW b \in Blocks PROVE InIndex(b)' <=> InIndex(b)
    <2>1. ASSUME InIndex(b)' PROVE InIndex(b)
      <3>1. PICK e \in Entries' : entry'[e].value = b BY <2>1 DEF InIndex
      <3>2. Live(e)' BY <3>1 DEF Live
      <3> QED BY <1>1, <3>1, <3>2 DEF InIndex
    <2>2. ASSUME InIndex(b) PROVE InIndex(b)'
      <3>1. PICK e \in Entries : entry[e].value = b BY <2>2 DEF InIndex
      <3>2. Live(e) BY <3>1 DEF Live
      <3> QED BY <3>1, <3>2 DEF InIndex, LiveKept
    <2> QED BY <2>1, <2>2
  <1> QED BY <1>2, <1>3

\* Steps that move no block.
LEMMA KeptFrame ==
  ASSUME KeptOK, LiveKept, UNCHANGED <<blockVars, newBlock, noexcept>>,
         \A b \in Blocks : Held(b)' <=> Held(b),
         newBlock # Null =>
           /\ at' \in {"construct_first", "publish", "rewind", "empty_entry"}
           /\ at' = "publish" <=> at = "publish"
           /\ tailIndex' = tailIndex,
         at' \in {"construct_first", "publish"} => at' = at
  PROVE  KeptOK'
PROOF
  <1>1. /\ unused' = unused /\ freeList' = freeList /\ newBlock' = newBlock /\ elements' = elements
        /\ dequeued' = dequeued /\ noexcept' = noexcept
    BY DEF blockVars
  <1>2. \A e \in Entries' : Live(e)' =>
          e \in Entries /\ Live(e) /\ entry'[e].value = entry[e].value
    BY DEF LiveKept
  <1>3. \A e, f \in Entries' : Live(e)' /\ entry'[e].value = entry'[f].value => e = f
    BY IndexBlocks
  <1>4. ASSUME NEW b \in Blocks PROVE InIndex(b)' <=> InIndex(b) BY IndexBlocks
  <1>5. ASSUME NEW b \in Blocks PROVE Once(b)'
    <2>1. Once(b) BY DEF KeptOK
    <2> QED BY <1>1, <1>4, <2>1 DEF Once
  <1>6. ASSUME NEW b \in Blocks, b \in unused' \/ b \in freeList' \/ Held(b)' PROVE Blank(b)'
    <2>1. Blank(b) BY <1>1, <1>6 DEF KeptOK
    <2> QED BY <1>1, <2>1 DEF Blank
  <1>7. newBlock' # Null =>
          /\ at' \in {"construct_first", "publish", "rewind", "empty_entry"}
          /\ \A k \in Slots : elements'[newBlock'][k] =
                IF at' = "publish" /\ ~noexcept' /\ k = 0 THEN tailIndex' ELSE Null
    BY <1>1 DEF KeptOK
  <1>8. /\ at' \in {"construct_first", "publish"} => newBlock' \in Blocks /\ dequeued'[newBlock'] = 0
        /\ at' = "construct_first" => ~noexcept'
    BY <1>1 DEF KeptOK
  <1>9. /\ unused' \subseteq Blocks /\ freeList' \subseteq Blocks /\ newBlock' \in Blocks \cup {Null}
        /\ elements' = [b \in Blocks |-> [k \in Slots |-> elements'[b][k]]]
        /\ dequeued' \in [Blocks -> Nat]
    BY <1>1 DEF KeptOK
  <1> QED BY <1>3, <1>5, <1>6, <1>7, <1>8, <1>9 DEF KeptOK

\* The blocks of the entries are the same, so nothing in them changes.
LEMMA QuietContents ==
  ASSUME IndexOK, ContentsOK, LiveKept, UNCHANGED <<elements, dequeued, tailBlock>>,
         LastBlock' = LastBlock,
         \A n \in Nat : (Open(n)' <=> Open(n)) /\ (Stored(n)' <=> Stored(n)),
         \A c \in Consumers : pc[c] = "clear" => pc'[c] = "clear" /\ my'[c].entry = my[c].entry
  PROVE  ContentsOK'
PROOF
  <1>1. \A e \in Entries' : Live(e)' => e \in Entries /\ Live(e) /\ Number(e)' = Number(e)
                                         /\ entry'[e].value = entry[e].value
    BY DEF LiveKept
  <1>2. \A e \in Entries : Live(e) =>
           /\ e \in Entries' /\ Live(e)'
           /\ elements'[entry[e].value] = elements[entry[e].value]
           /\ dequeued'[entry[e].value] = dequeued[entry[e].value]
    BY DEF LiveKept, Live
  <1> QED BY <1>1, <1>2, ContentsFrame

\* The producer moves no consumer.
LEMMA ProducerSets ==
  ASSUME IInv, UNCHANGED <<headIndex, pc, my>>
  PROVE  /\ \A n : Open(n)' <=> Open(n)
         /\ \A c \in Consumers : Uncounted(c)' = Uncounted(c) /\ Claimed(c)' = Claimed(c)
         /\ \A b : Held(b)' <=> Held(b)
         /\ Apart => Apart'
  BY DEF Open, Uncounted, Claimed, Here, Held, Apart

\* What the producer does to the elements: it only adds the one at the tail.
LEMMA ProducerStores ==
  ASSUME IInv, UNCHANGED <<headIndex, pc, my>>, at # "destroyed", at' # "destroyed",
         NEW n \in Nat
  PROVE  /\ tailIndex' = tailIndex =>
              (Stored(n)' <=> n \in Alive \/ (at' = "store_tail" /\ n = tailIndex))
         /\ tailIndex' = tailIndex + 1 /\ at = "store_tail" /\ at' # "store_tail" =>
              (Stored(n)' <=> Stored(n))
PROOF
  <1>1. headIndex \in Nat /\ tailIndex \in Nat /\ headIndex <= tailIndex BY Counters
  <1>2. \A c \in Consumers : Claimed(c)' = Claimed(c) BY ProducerSets
  <1>3. Alive = headIndex .. (tailIndex - 1) \cup UNION {Claimed(c) : c \in Consumers} BY DEF Alive
  <1>4. Alive' = headIndex .. (tailIndex' - 1) \cup UNION {Claimed(c) : c \in Consumers}
    BY <1>2 DEF Alive
  <1>5. ASSUME tailIndex' = tailIndex
        PROVE  Stored(n)' <=> n \in Alive \/ (at' = "store_tail" /\ n = tailIndex)
    <2>1. Alive' = Alive BY <1>3, <1>4, <1>5
    <2> QED BY <1>5, <2>1 DEF Stored
  <1>6. ASSUME tailIndex' = tailIndex + 1, at = "store_tail", at' # "store_tail"
        PROVE  Stored(n)' <=> Stored(n)
    <2>1. n \in headIndex .. (tailIndex' - 1) <=>
            n \in headIndex .. (tailIndex - 1) \/ n = tailIndex
      BY <1>1, <1>6
    <2>2. n \in Alive' <=> n \in Alive \/ n = tailIndex BY <1>3, <1>4, <2>1
    <2> QED BY <1>6, <2>2 DEF Stored
  <1> QED BY <1>5, <1>6

\* Steps of the producer that move no block and store no element.
LEMMA ProducerQuiet ==
  ASSUME IInv, IndexInv, IndexOK', IndexKept, LiveKept,
         UNCHANGED <<headIndex, blockVars, tailBlock, newBlock, noexcept, pc, my>>,
         LastBlock' = LastBlock, at # "destroyed", at' # "destroyed",
         \/ tailIndex' = tailIndex /\ at # "store_tail" /\ at' # "store_tail"
         \/ tailIndex' = tailIndex + 1 /\ at = "store_tail" /\ at' = "idle",
         newBlock # Null =>
           /\ at' \in {"construct_first", "publish", "rewind", "empty_entry"}
           /\ at' = "publish" <=> at = "publish"
           /\ tailIndex' = tailIndex,
         at' \in {"construct_first", "publish"} => at' = at
  PROVE  IndexInv'
PROOF
  <1>1. IndexOK /\ ContentsOK /\ KeptOK /\ ReadersOK /\ Apart BY DEF IndexInv
  <1>2. UNCHANGED <<headIndex, pc, my, elements, dequeued, tailBlock, newBlock, noexcept>>
    BY DEF blockVars
  <1>3. /\ \A n : Open(n)' <=> Open(n)
        /\ \A b : Held(b)' <=> Held(b)
        /\ Apart'
    BY <1>1, <1>2, ProducerSets
  <1>4. \A n \in Nat : Stored(n)' <=> Stored(n)
    BY <1>2, ProducerStores DEF Stored
  <1>5. ContentsOK' BY <1>1, <1>2, <1>3, <1>4, QuietContents
  <1>6. KeptOK' BY <1>1, <1>2, <1>3, KeptFrame
  <1>7. ASSUME NEW c \in Consumers PROVE Reader(c)'
    <2>1. headIndex' \in Nat /\ headIndex <= headIndex' BY <1>2, Counters
    <2>2. pc[c] \in {"value", "take", "set_empty", "clear"} =>
            entry'[my[c].entry].value = entry[my[c].entry].value
      BY <1>1 DEF ReadersOK, Reader, LiveKept
    <2> QED BY <1>1, <1>2, <2>1, <2>2, ReaderFrame
  <1> QED BY <1>3, <1>5, <1>6, <1>7 DEF IndexInv, ReadersOK

\* The index steps, as the others see them.
LEMMA IndexEffect ==
  ASSUME IndexOK, Entries \subseteq Entries', blockIndex' \in {blockIndex, blockIndex + 1},
         \A h \in 1 .. blockIndex : /\ header'[h].slot = header[h].slot
                                    /\ header'[h].capacity = header[h].capacity,
         \A e \in Entries : (Keyed(e) => Keyed(e)') /\ (Live(e) => Number(e)' = Number(e)),
         \A e \in Entries : entry'[e].value = entry[e].value,
         \A e \in Entries' : e \notin Entries => ~Live(e)'
  PROVE  IndexKept /\ LiveKept
PROOF
  <1>1. blockIndex \in Nat BY DEF IndexOK, IndexTyped, blockIndex
  <1>2. IndexKept BY <1>1 DEF IndexKept
  <1>3. LiveKept BY DEF LiveKept, Live
  <1> QED BY <1>2, <1>3

\* Steps that leave the index alone.
LEMMA SameIndex ==
  ASSUME IndexOK, entry' = entry, header' = header
  PROVE  IndexKept /\ LiveKept /\ Entries' = Entries /\ \A e : Number(e)' = Number(e)
PROOF
  <1>1. blockIndex' = blockIndex /\ Entries' = Entries /\ \A e : Number(e)' = Number(e)
    BY DEF blockIndex, Entries, Number
  <1>2. \A e \in Entries : Keyed(e)' <=> Keyed(e) BY <1>1 DEF Keyed
  <1> QED BY <1>1, <1>2, IndexEffect DEF blockIndex

-----------------------------------------------------------------------------
(* The steps of the producer and the blocks.                               *)

\* The producer goes on without a change of the index.
LEMMA AtMoves ==
  ASSUME IndexOK, entry' = entry, header' = header, tailIndex' \in Nat, LastBlock' = LastBlock,
         at \in Speculative <=> at' \in Speculative,
         at \notin {"advance", "empty_entry"},
         at \in {"idle", "insert"} /\ tailIndex % BLOCK_SIZE = 0 =>
           at' \in {"idle", "insert"} /\ tailIndex' % BLOCK_SIZE = 0,
         StageOK'
  PROVE  IndexOK' /\ IndexKept /\ LiveKept
PROOF
  <1>1. Newest' = Newest BY DEF Newest
  <1>2. entry' \in Seq(EntryType) BY DEF IndexOK, IndexTyped
  <1>3. ASSUME NEW e \in Entries
        PROVE  /\ entry'[e].value \in Blocks => Live(e) \/ (Keyed(e) /\ Number(e) <= Newest)
               /\ Keyed(e) /\ entry'[e].value = Garbage =>
                    \/ at' \in {"advance", "empty_entry"} /\ e = NewEntry
                    \/ at' \in Speculative /\ e = TailEntry
               /\ Number(e) = Newest + 1 =>
                    /\ entry'[e].value \notin Blocks /\ tailIndex' % BLOCK_SIZE = 0
                    /\ at' \in {"idle", "insert", "advance", "empty_entry"}
    <2>1. EntryOK(e) /\ Newest \in Int /\ Number(e) \in Int
      BY NewestTyped, NumberTyped DEF IndexOK, IndexTyped
    <2>2. entry'[e].value \in Blocks => Live(e) BY DEF Live
    <2>3. Keyed(e) /\ entry'[e].value = Garbage => at' \in Speculative /\ e = TailEntry
      BY <2>1 DEF EntryOK
    <2>4. ASSUME Number(e) = Newest + 1
          PROVE  /\ entry'[e].value \notin Blocks /\ tailIndex' % BLOCK_SIZE = 0
                 /\ at' \in {"idle", "insert"}
      <3>1. ~(Number(e) <= Newest) BY <2>1, <2>4
      <3>2. Ahead(e) BY <2>1, <3>1 DEF EntryOK
      <3> QED BY <3>2 DEF Ahead, Live
    <2> QED BY <2>2, <2>3, <2>4
  <1>4. IndexOK' BY <1>1, <1>2, <1>3, IndexFrame
  <1> QED BY <1>4, SameIndex

\* The next enqueue begins: nothing in the index changes.
LEMMA EnqueueQuiet == ASSUME IInv, IndexInv, Enqueue PROVE IndexInv'
PROOF
  <1>1. /\ at = "idle" /\ at' = IF tailIndex % BLOCK_SIZE = 0 THEN "insert" ELSE "construct"
        /\ UNCHANGED <<headIndex, tailIndex, entry, header, blockVars, tailBlock, newBlock, noexcept,
                       pc, my>>
    BY DEF Enqueue, counters, consumerVars
  <1>2. IndexOK /\ KeptOK /\ tailIndex \in Nat BY Counters DEF IndexInv
  <1>3. LastBlock' = LastBlock
    <2>1. tailIndex % BLOCK_SIZE # 0 => BlockOf(tailIndex) = Before(tailIndex) BY <1>2, BlockOfOrder
    <2> QED BY <1>1, <2>1 DEF LastBlock
  <1>4. StageOK' BY <1>1 DEF StageOK, Speculative
  <1>5. IndexOK' /\ IndexKept /\ LiveKept BY <1>1, <1>2, <1>3, <1>4, AtMoves DEF Speculative
  <1>6. newBlock = Null BY <1>1, <1>2 DEF KeptOK
  <1>7. /\ at # "destroyed" /\ at' # "destroyed" /\ at # "store_tail" /\ at' # "store_tail"
        /\ at' \notin {"construct_first", "publish"}
    BY <1>1
  <1> QED BY <1>1, <1>3, <1>5, <1>6, <1>7, ProducerQuiet

\* The key of the new block is stored in the slot after the tail.
LEMMA InsertKeyQuiet == ASSUME IInv, IndexInv, InsertKey PROVE IndexInv'
PROOF
  <1>1. /\ at = "insert" /\ at' = "advance" /\ entry' = [entry EXCEPT ![NewEntry].key = tailIndex]
        /\ UNCHANGED <<headIndex, tailIndex, header, blockVars, tailBlock, newBlock, noexcept, pc, my>>
    BY DEF InsertKey, counters, consumerVars
  <1>2. IndexOK /\ KeptOK /\ tailIndex \in Nat BY Counters DEF IndexInv
  <1>3. LastBlock' = LastBlock BY <1>1 DEF LastBlock
  <1>4. /\ IndexOK' /\ Entries' = Entries /\ Number(NewEntry)' = Newest + 1 /\ ~Live(NewEntry)
        /\ \A e \in Entries : e # NewEntry => Number(e)' = Number(e)
        /\ \A e \in Entries : entry'[e].value = entry[e].value
    BY <1>2, IndexInsertKey
  <1>5. \A e \in Entries : (Keyed(e) => Keyed(e)') /\ (Live(e) => Number(e)' = Number(e))
    <2> SUFFICES ASSUME NEW e \in Entries
                 PROVE  (Keyed(e) => Keyed(e)') /\ (Live(e) => Number(e)' = Number(e))
      OBVIOUS
    <2>1. CASE e = NewEntry
      <3>1. Newest \in Int /\ Newest >= 0 - 1 BY <1>2, NewestTyped
      <3>2. NewEntry' = NewEntry BY <1>1 DEF NewEntry, NewTail, blockIndex
      <3>3. Number(e)' = Newest + 1 BY <1>4, <2>1, <3>2 DEF Number
      <3> QED BY <1>4, <2>1, <3>1, <3>3 DEF Keyed, Live
    <2>2. CASE e # NewEntry BY <1>4, <2>2 DEF Keyed
    <2> QED BY <2>1, <2>2
  <1>6. IndexKept /\ LiveKept
    <2>1. blockIndex' = blockIndex BY <1>1 DEF blockIndex
    <2> QED BY <1>1, <1>2, <1>4, <1>5, <2>1, IndexEffect
  <1>7. newBlock = Null BY <1>1, <1>2 DEF KeptOK
  <1>8. /\ at # "destroyed" /\ at' # "destroyed" /\ at # "store_tail" /\ at' # "store_tail"
        /\ at' \notin {"construct_first", "publish"}
    BY <1>1
  <1> QED BY <1>1, <1>3, <1>4, <1>6, <1>7, <1>8, ProducerQuiet

\* A full index is replaced by one of twice the size.
LEMMA GrowIndexQuiet == ASSUME IInv, IndexInv, GrowIndex PROVE IndexInv'
PROOF
  <1>1. /\ at = "insert" /\ at' = at
        /\ UNCHANGED <<headIndex, tailIndex, blockVars, tailBlock, newBlock, noexcept, pc, my>>
    BY DEF GrowIndex, counters, consumerVars, producerVars
  <1>2. IndexOK /\ KeptOK BY DEF IndexInv
  <1>3. /\ IndexOK' /\ blockIndex' = blockIndex + 1
        /\ Entries \subseteq Entries' /\ \A e \in Entries' : e \notin Entries => ~Live(e)'
        /\ \A e \in Entries : entry'[e] = entry[e]
        /\ \A h \in 1 .. blockIndex : header'[h] = header[h]
        /\ LastBlock' = LastBlock
    BY <1>2, IndexGrow
  <1>4. \A e \in Entries : (Keyed(e)' <=> Keyed(e)) /\ Number(e)' = Number(e)
    <2>1. \A e \in Entries : Number(e)' = Number(e) BY <1>3 DEF Number
    <2> QED BY <2>1 DEF Keyed
  <1>5. IndexKept /\ LiveKept
    <2>1. /\ \A e \in Entries : entry'[e].value = entry[e].value
          /\ \A h \in 1 .. blockIndex : /\ header'[h].slot = header[h].slot
                                        /\ header'[h].capacity = header[h].capacity
      BY <1>3
    <2> QED BY <1>2, <1>3, <1>4, <2>1, IndexEffect
  <1>6. newBlock = Null BY <1>1, <1>2 DEF KeptOK
  <1>7. /\ at # "destroyed" /\ at' # "destroyed" /\ at # "store_tail" /\ at' # "store_tail"
        /\ at' \notin {"construct_first", "publish"}
    BY <1>1
  <1> QED BY <1>1, <1>3, <1>5, <1>6, <1>7, ProducerQuiet

\* The tail of the index is advanced to the new key, or rewound after a failure.
LEMMA TailMoveQuiet == ASSUME IInv, IndexInv, Advance \/ Rewind PROVE IndexInv'
PROOF
  <1>1. /\ \/ at = "advance" /\ at' = "requisition"
           \/ at = "rewind" /\ at' = "empty_entry"
        /\ entry' = entry
        /\ UNCHANGED <<headIndex, tailIndex, blockVars, tailBlock, newBlock, noexcept, pc, my>>
    BY DEF Advance, Rewind, counters, consumerVars
  <1>2. IndexOK /\ KeptOK BY DEF IndexInv
  <1>3. /\ IndexOK' /\ blockIndex' = blockIndex /\ Entries' = Entries
        /\ \A e \in Entries : Number(e)' = Number(e)
        /\ \A h \in 1 .. blockIndex : /\ header'[h].slot = header[h].slot
                                      /\ header'[h].capacity = header[h].capacity
        /\ LastBlock' = LastBlock
    BY <1>2, IndexAdvance, IndexRewind
  <1>4. \A e \in Entries : Keyed(e)' <=> Keyed(e) BY <1>3 DEF Keyed
  <1>5. IndexKept /\ LiveKept
    <2>1. \A e \in Entries : entry'[e].value = entry[e].value BY <1>1
    <2>2. /\ Entries \subseteq Entries' /\ blockIndex' \in {blockIndex, blockIndex + 1}
          /\ \A e \in Entries : (Keyed(e) => Keyed(e)') /\ (Live(e) => Number(e)' = Number(e))
          /\ \A e \in Entries' : e \notin Entries => ~Live(e)'
      BY <1>3, <1>4
    <2> QED BY <1>2, <1>3, <2>1, <2>2, IndexEffect
  <1>6. newBlock # Null => at = "rewind" BY <1>1, <1>2 DEF KeptOK
  <1>7. /\ at # "destroyed" /\ at' # "destroyed" /\ at # "store_tail" /\ at' # "store_tail"
        /\ at' \notin {"construct_first", "publish"} /\ at # "publish"
        /\ newBlock # Null => at' = "empty_entry"
    BY <1>1, <1>6
  <1> QED BY <1>1, <1>3, <1>5, <1>7, ProducerQuiet

\* The steps of an enqueue that fails, and its last one.
LEMMA FailureQuiet ==
  ASSUME IInv, IndexInv, GrowthFails \/ RequisitionFails \/ FirstThrows \/ ConstructThrows
  PROVE  IndexInv'
PROOF
  <1>1. /\ \/ at = "insert" /\ at' = "idle"
           \/ at \in {"requisition", "construct_first"} /\ at' = "rewind"
           \/ at = "construct" /\ ~noexcept /\ at' = "idle"
        /\ UNCHANGED <<headIndex, tailIndex, entry, header, blockVars, tailBlock, newBlock, noexcept,
                       pc, my>>
    BY DEF GrowthFails, RequisitionFails, FirstThrows, ConstructThrows, counters, consumerVars
  <1>2. IndexOK /\ KeptOK /\ tailIndex \in Nat BY Counters DEF IndexInv
  <1>3. at = "construct" => tailIndex % BLOCK_SIZE # 0 BY <1>1, <1>2 DEF IndexOK, StageOK
  <1>4. LastBlock' = LastBlock
    <2>1. tailIndex % BLOCK_SIZE # 0 => BlockOf(tailIndex) = Before(tailIndex) BY <1>2, BlockOfOrder
    <2> QED BY <1>1, <1>3, <2>1 DEF LastBlock
  <1>5. TailEntry' = TailEntry /\ \A e : Live(e)' <=> Live(e)
    BY <1>1 DEF TailEntry, blockIndex, Live
  <1>6. StageOK' BY <1>1, <1>2, <1>5 DEF IndexOK, StageOK, Speculative, Live
  <1>7. IndexOK' /\ IndexKept /\ LiveKept BY <1>1, <1>2, <1>4, <1>6, AtMoves DEF Speculative
  <1>8. newBlock # Null => at' = "rewind" BY <1>1, <1>2 DEF KeptOK
  <1>9. /\ at # "destroyed" /\ at' # "destroyed" /\ at # "store_tail" /\ at' # "store_tail"
        /\ at' \notin {"construct_first", "publish"} /\ at # "publish"
    BY <1>1
  <1> QED BY <1>1, <1>4, <1>7, <1>8, <1>9, ProducerQuiet

\* tailIndex is stored: the element is in the queue.
LEMMA StoreTailQuiet == ASSUME IInv, IndexInv, StoreTail PROVE IndexInv'
PROOF
  <1>1. /\ at = "store_tail" /\ at' = "idle" /\ tailIndex' = tailIndex + 1
        /\ UNCHANGED <<headIndex, entry, header, blockVars, tailBlock, newBlock, noexcept, pc, my>>
    BY DEF StoreTail, consumerVars
  <1>2. IndexOK /\ KeptOK /\ tailIndex \in Nat BY Counters DEF IndexInv
  <1>3. LastBlock' = LastBlock
    <2>1. Before(tailIndex + 1) = BlockOf(tailIndex) BY <1>2, BlockOfOrder
    <2> QED BY <1>1, <2>1 DEF LastBlock
  <1>4. StageOK' BY <1>1 DEF StageOK, Speculative
  <1>5. IndexOK' /\ IndexKept /\ LiveKept BY <1>1, <1>2, <1>3, <1>4, AtMoves DEF Speculative
  <1>6. newBlock = Null BY <1>1, <1>2 DEF KeptOK
  <1>7. /\ at # "destroyed" /\ at' # "destroyed" /\ at' \notin {"construct_first", "publish"}
    BY <1>1
  <1> QED BY <1>1, <1>3, <1>5, <1>6, <1>7, ProducerQuiet

\* The consumers, while the producer takes a step.
LEMMA ProducerReaders ==
  ASSUME IInv, IndexInv, IndexKept, UNCHANGED <<headIndex, pc, my>>,
         \A e \in Entries : Live(e) => /\ entry'[e].value = entry[e].value
                                       /\ dequeued'[entry[e].value] = dequeued[entry[e].value]
  PROVE  ReadersOK' /\ Apart'
PROOF
  <1>1. IndexOK /\ ContentsOK /\ ReadersOK /\ Apart BY DEF IndexInv
  <1>2. headIndex' \in Nat /\ headIndex <= headIndex' BY Counters
  <1>3. ASSUME NEW c \in Consumers PROVE Reader(c)'
    <2>1. Reader(c) BY <1>1 DEF ReadersOK
    <2>2. pc[c] \in {"value", "take", "set_empty", "clear"} =>
            entry'[my[c].entry].value = entry[my[c].entry].value
      BY <2>1 DEF Reader
    <2>3. pc[c] = "clear" => dequeued'[my[c].block] = dequeued[my[c].block]
      BY <2>1 DEF Reader
    <2> QED BY <1>1, <1>2, <2>2, <2>3, ReaderFrame
  <1> QED BY <1>1, <1>3, ProducerSets DEF ReadersOK

\* The producer goes on with the same new key.
LEMMA SpeculativeStage ==
  ASSUME IndexOK, entry' = entry, header' = header, tailIndex' = tailIndex,
         at \in Speculative, at' \in Speculative
  PROVE  StageOK'
PROOF
  <1>1. TailEntry' = TailEntry /\ \A e : Live(e)' <=> Live(e) BY DEF TailEntry, blockIndex, Live
  <1> QED BY <1>1 DEF IndexOK, StageOK, Speculative, Live

\* A block is taken for the entry.
LEMMA RequisitionStep == ASSUME IInv, IndexInv, Requisition PROVE IndexInv'
PROOF
  <1>1. PICK b \in unused \cup freeList :
          /\ newBlock' = b /\ unused' = unused \ {b} /\ freeList' = freeList \ {b}
          /\ dequeued' = [dequeued EXCEPT ![b] = 0]
    BY DEF Requisition
  <1>2. /\ at = "requisition" /\ at' = IF noexcept THEN "publish" ELSE "construct_first"
        /\ UNCHANGED <<headIndex, tailIndex, entry, header, elements, tailBlock, noexcept, pc, my>>
    BY DEF Requisition, counters, consumerVars
  <1>3. IndexOK /\ ContentsOK /\ KeptOK /\ ReadersOK /\ tailIndex \in Nat BY Counters DEF IndexInv
  <1>4. at \in Speculative /\ at' \in Speculative BY <1>2 DEF Speculative
  <1>5. LastBlock' = LastBlock BY <1>2 DEF LastBlock
  <1>6. StageOK' BY <1>2, <1>3, <1>4, SpeculativeStage
  <1>7. IndexOK' /\ IndexKept /\ LiveKept BY <1>2, <1>3, <1>4, <1>5, <1>6, AtMoves
  <1>8. b \in Blocks /\ Once(b) /\ ~InIndex(b) /\ Blank(b) /\ ~Held(b) /\ newBlock = Null
    BY <1>1, <1>2, <1>3 DEF KeptOK, Once
  <1>9. \A v \in Blocks : v # b => dequeued'[v] = dequeued[v] BY <1>1, <1>3 DEF KeptOK
  <1>10. \A e \in Entries : Live(e) => /\ entry'[e].value = entry[e].value /\ entry[e].value # b
                                       /\ dequeued'[entry[e].value] = dequeued[entry[e].value]
    BY <1>2, <1>8, <1>9 DEF InIndex, Live
  <1>11. \A n \in Nat : (Open(n)' <=> Open(n)) /\ (Stored(n)' <=> Stored(n))
    BY <1>2, ProducerSets, ProducerStores DEF Stored
  <1>12. ContentsOK'
    <2>1. \A e \in Entries' : Live(e)' => e \in Entries /\ Live(e) /\ Number(e)' = Number(e)
                                         /\ entry'[e].value = entry[e].value
      BY <1>7 DEF LiveKept
    <2>2. \A e \in Entries : Live(e) =>
           /\ e \in Entries' /\ Live(e)'
           /\ elements'[entry[e].value] = elements[entry[e].value]
           /\ dequeued'[entry[e].value] = dequeued[entry[e].value]
      BY <1>2, <1>7, <1>10 DEF LiveKept, Live
    <2> QED BY <1>2, <1>3, <1>5, <1>11, <2>1, <2>2, ContentsFrame
  <1>13. KeptOK'
    <2>1. \A x \in Blocks : (Held(x)' <=> Held(x)) /\ (InIndex(x)' <=> InIndex(x))
      BY <1>2, <1>3, <1>7, ProducerSets, IndexBlocks
    <2>2. ASSUME NEW x \in Blocks PROVE Once(x)'
      <3>1. Once(x) BY <1>3 DEF KeptOK
      <3>2. x # newBlock BY <1>8, BlocksAssumption
      <3>3. CASE x = b
        <4>1. x \notin unused' /\ x \notin freeList' /\ x = newBlock' BY <1>1, <3>3
        <4>2. ~Held(x)' /\ ~InIndex(x)' BY <1>8, <2>1, <3>3
        <4> QED BY <4>1, <4>2 DEF Once
      <3>4. CASE x # b
        <4>1. (x \in unused' <=> x \in unused) /\ (x \in freeList' <=> x \in freeList) /\ x # newBlock'
          BY <1>1, <3>4
        <4> QED BY <2>1, <3>1, <3>2, <4>1 DEF Once
      <3> QED BY <3>3, <3>4
    <2>3. ASSUME NEW x \in Blocks, x \in unused' \/ x \in freeList' \/ Held(x)' PROVE Blank(x)'
      <3>1. Blank(x) BY <1>1, <1>3, <2>1, <2>3 DEF KeptOK
      <3> QED BY <1>2, <3>1 DEF Blank
    <2>4. \A k \in Slots : elements'[newBlock'][k] = Null BY <1>1, <1>2, <1>8 DEF Blank
    <2>5. dequeued' \in [Blocks -> Nat] /\ dequeued'[newBlock'] = 0
      BY <1>1, <1>3, <1>8 DEF KeptOK
    <2>6. \A e, f \in Entries' : Live(e)' /\ entry'[e].value = entry'[f].value => e = f
      BY <1>3, <1>7, IndexBlocks
    <2>7. at' \in {"construct_first", "publish"} /\ (at' = "construct_first" => ~noexcept')
          /\ (at' = "publish" => noexcept')
      BY <1>2
    <2> QED BY <1>1, <1>2, <1>3, <1>8, <2>2, <2>3, <2>4, <2>5, <2>6, <2>7 DEF KeptOK
  <1>14. ReadersOK' /\ Apart' BY <1>2, <1>7, <1>10, ProducerReaders
  <1> QED BY <1>7, <1>12, <1>13, <1>14 DEF IndexInv

\* The first element is constructed in the block before it is published.
LEMMA ConstructFirstStep == ASSUME IInv, IndexInv, ConstructFirst PROVE IndexInv'
PROOF
  <1> DEFINE b == newBlock
  <1>1. /\ at = "construct_first" /\ at' = "publish"
        /\ elements' = [elements EXCEPT ![b][tailIndex % BLOCK_SIZE] = tailIndex]
        /\ UNCHANGED <<headIndex, tailIndex, entry, header, dequeued, freeList, unused, tailBlock,
                       newBlock, noexcept, pc, my>>
    BY DEF ConstructFirst, counters, consumerVars
  <1>2. IndexOK /\ ContentsOK /\ KeptOK /\ ReadersOK /\ tailIndex \in Nat BY Counters DEF IndexInv
  <1>3. at \in Speculative /\ at' \in Speculative BY <1>1 DEF Speculative
  <1>4. LastBlock' = LastBlock BY <1>1 DEF LastBlock
  <1>5. StageOK' BY <1>1, <1>2, <1>3, SpeculativeStage
  <1>6. IndexOK' /\ IndexKept /\ LiveKept BY <1>1, <1>2, <1>3, <1>4, <1>5, AtMoves
  <1>7. /\ b \in Blocks /\ b # Null /\ Once(b) /\ ~InIndex(b) /\ ~Held(b) /\ b \notin unused
        /\ b \notin freeList /\ ~noexcept /\ dequeued[b] = 0
        /\ \A k \in Slots : elements[b][k] = Null
    BY <1>1, <1>2, BlocksAssumption DEF KeptOK, Once
  <1>8. tailIndex % BLOCK_SIZE = 0 /\ 0 \in Slots
    BY <1>2, <1>3, SizeAssumption DEF IndexOK, StageOK, Slots
  <1>9. /\ elements' = [v \in Blocks |-> [k \in Slots |-> elements'[v][k]]]
        /\ \A v \in Blocks : v # b => elements'[v] = elements[v]
        /\ \A k \in Slots : elements'[b][k] = IF k = 0 THEN tailIndex ELSE Null
    <2>1. elements = [v \in Blocks |-> [k \in Slots |-> elements[v][k]]] BY <1>2 DEF KeptOK
    <2> QED BY <1>1, <1>7, <1>8, <2>1
  <1>10. \A e \in Entries : Live(e) => /\ entry'[e].value = entry[e].value /\ entry[e].value # b
                                       /\ entry[e].value \in Blocks
    BY <1>1, <1>7 DEF InIndex, Live
  <1>11. \A n \in Nat : (Open(n)' <=> Open(n)) /\ (Stored(n)' <=> Stored(n))
    BY <1>1, ProducerSets, ProducerStores DEF Stored
  <1>12. ContentsOK'
    <2>1. \A e \in Entries' : Live(e)' => e \in Entries /\ Live(e) /\ Number(e)' = Number(e)
                                         /\ entry'[e].value = entry[e].value
      BY <1>6 DEF LiveKept
    <2>2. \A e \in Entries : Live(e) =>
           /\ e \in Entries' /\ Live(e)'
           /\ elements'[entry[e].value] = elements[entry[e].value]
           /\ dequeued'[entry[e].value] = dequeued[entry[e].value]
      BY <1>1, <1>6, <1>9, <1>10 DEF LiveKept, Live
    <2> QED BY <1>1, <1>2, <1>4, <1>11, <2>1, <2>2, ContentsFrame
  <1>13. KeptOK'
    <2>1. \A x \in Blocks : (Held(x)' <=> Held(x)) /\ (InIndex(x)' <=> InIndex(x))
      BY <1>1, <1>2, <1>6, ProducerSets, IndexBlocks
    <2>2. ASSUME NEW x \in Blocks PROVE Once(x)'
      <3>1. Once(x) BY <1>2 DEF KeptOK
      <3> QED BY <1>1, <2>1, <3>1 DEF Once
    <2>3. ASSUME NEW x \in Blocks, x \in unused' \/ x \in freeList' \/ Held(x)' PROVE Blank(x)'
      <3>1. Blank(x) /\ x # b BY <1>1, <1>2, <1>7, <2>1, <2>3 DEF KeptOK
      <3> QED BY <1>9, <3>1 DEF Blank
    <2>4. \A e, f \in Entries' : Live(e)' /\ entry'[e].value = entry'[f].value => e = f
      BY <1>2, <1>6, IndexBlocks
    <2> QED BY <1>1, <1>2, <1>7, <1>9, <2>2, <2>3, <2>4 DEF KeptOK
  <1>14. ReadersOK' /\ Apart' BY <1>1, <1>6, <1>10, ProducerReaders
  <1> QED BY <1>6, <1>12, <1>13, <1>14 DEF IndexInv

\* The entry of the failed enqueue is emptied, and its block is given back.
LEMMA EmptyEntryStep == ASSUME IInv, IndexInv, EmptyEntry PROVE IndexInv'
PROOF
  <1> DEFINE b == newBlock  E == NewEntry
  <1>1. /\ at = "empty_entry" /\ at' = "idle" /\ newBlock' = Null
        /\ entry' = [entry EXCEPT ![E].value = Null]
        /\ freeList' = freeList \cup ({b} \ {Null})
        /\ UNCHANGED <<headIndex, tailIndex, header, elements, dequeued, unused, tailBlock,
                       noexcept, pc, my>>
    BY DEF EmptyEntry, GivenBack, counters, consumerVars
  <1>2. IndexOK /\ ContentsOK /\ KeptOK /\ ReadersOK /\ tailIndex \in Nat BY Counters DEF IndexInv
  <1>3. LastBlock' = LastBlock /\ Newest' = Newest /\ Newest \in Int
    BY <1>1, <1>2, NewestTyped DEF LastBlock, Newest, Speculative
  <1>4. /\ E \in Entries /\ Number(E) = Newest + 1 /\ tailIndex % BLOCK_SIZE = 0
    BY <1>1, <1>2, Current DEF IndexOK, StageOK
  <1>5. ~Live(E)
    <2>1. EntryOK(E) /\ ~(Number(E) <= Newest) BY <1>2, <1>3, <1>4 DEF IndexOK
    <2> QED BY <2>1 DEF EntryOK, Ahead
  <1>6. /\ entry' \in Seq(EntryType) /\ Len(entry') = Len(entry)
        /\ entry'[E].value = Null /\ \A f \in Entries : f # E => entry'[f] = entry[f]
        /\ \A f \in Entries : entry'[f].key = entry[f].key
    BY <1>1, <1>2, <1>4, ValueStored DEF IndexOK
  <1> HIDE DEF E
  <1>7. StageOK' BY <1>1 DEF StageOK, Speculative
  <1>8. ASSUME NEW e \in Entries
        PROVE  /\ entry'[e].value \in Blocks => Live(e)
               /\ ~(Keyed(e) /\ entry'[e].value = Garbage)
               /\ Number(e) = Newest + 1 => entry'[e].value \notin Blocks
    <2>1. EntryOK(e) BY <1>2 DEF IndexOK
    <2>2. Null \notin Blocks /\ Null # Garbage BY BlocksAssumption
    <2>3. CASE e = E BY <1>6, <2>2, <2>3
    <2>4. CASE e # E
      <3>1. entry'[e] = entry[e] BY <1>6, <2>4
      <3>2. ~(Keyed(e) /\ entry[e].value = Garbage)
        BY <1>1, <2>1, <2>4 DEF EntryOK, Speculative, E
      <3>3. Number(e) = Newest + 1 => entry[e].value \notin Blocks
        <4>1. Number(e) = Newest + 1 => ~(Number(e) <= Newest) BY <1>3
        <4> QED BY <2>1, <4>1 DEF EntryOK, Ahead, Live
      <3> QED BY <3>1, <3>2, <3>3 DEF Live
    <2> QED BY <2>3, <2>4
  <1>9. IndexOK' /\ Entries' = Entries /\ \A e \in Entries : Number(e)' = Number(e)
    BY <1>1, <1>2, <1>3, <1>4, <1>6, <1>7, <1>8, IndexFrame
  <1>10. \A e \in Entries : Live(e) => entry'[e].value = entry[e].value BY <1>5, <1>6
  <1>11. \A e \in Entries : Keyed(e)' <=> Keyed(e) BY <1>9 DEF Keyed
  <1>12. IndexKept
    <2>1. blockIndex' = blockIndex /\ blockIndex \in Nat
      BY <1>1, <1>2 DEF blockIndex, IndexOK, IndexTyped
    <2> QED BY <1>1, <1>9, <1>11, <2>1 DEF IndexKept
  <1>13. LiveKept BY <1>8, <1>9, <1>10 DEF LiveKept, Live
  <1>14. \A n \in Nat : (Open(n)' <=> Open(n)) /\ (Stored(n)' <=> Stored(n))
    BY <1>1, ProducerSets, ProducerStores DEF Stored
  <1>15. ContentsOK' BY <1>1, <1>2, <1>3, <1>13, <1>14, QuietContents
  <1>16. KeptOK'
    <2>1. \A x \in Blocks : (Held(x)' <=> Held(x)) /\ (InIndex(x)' <=> InIndex(x))
      BY <1>1, <1>2, <1>13, ProducerSets, IndexBlocks
    <2>2. ASSUME NEW x \in Blocks PROVE Once(x)'
      <3>1. Once(x) BY <1>2 DEF KeptOK
      <3>2. x \in freeList' <=> x \in freeList \/ x = b BY <1>1, BlocksAssumption
      <3>3. x # newBlock' BY <1>1, BlocksAssumption
      <3> QED BY <1>1, <2>1, <3>1, <3>2, <3>3 DEF Once
    <2>3. ASSUME NEW x \in Blocks, x \in unused' \/ x \in freeList' \/ Held(x)' PROVE Blank(x)'
      <3>1. CASE x = b
        <4>1. b # Null BY <3>1, BlocksAssumption
        <4>2. \A k \in Slots : elements[b][k] = Null BY <1>1, <1>2, <4>1 DEF KeptOK
        <4> QED BY <1>1, <3>1, <4>2 DEF Blank
      <3>2. CASE x # b
        <4>1. Blank(x) BY <1>1, <1>2, <2>1, <2>3, <3>2 DEF KeptOK
        <4> QED BY <1>1, <4>1 DEF Blank
      <3> QED BY <3>1, <3>2
    <2>4. \A e, f \in Entries' : Live(e)' /\ entry'[e].value = entry'[f].value => e = f
      BY <1>2, <1>13, IndexBlocks
    <2>5. freeList' \subseteq Blocks /\ unused' \subseteq Blocks BY <1>1, <1>2 DEF KeptOK
    <2> QED BY <1>1, <1>2, <2>2, <2>3, <2>4, <2>5 DEF KeptOK
  <1>17. ReadersOK' /\ Apart' BY <1>1, <1>10, <1>12, ProducerReaders
  <1> QED BY <1>9, <1>15, <1>16, <1>17 DEF IndexInv

\* The block is entered in the index: it has no elements, or the first one.
LEMMA PublishStep == ASSUME IInv, IndexInv, Publish PROVE IndexInv'
PROOF
  <1>1. PICK E : E = TailEntry OBVIOUS
  <1>2. PICK b : b = newBlock OBVIOUS
  <1>3. PICK m : m = BlockOf(tailIndex) OBVIOUS
  <1>4. /\ at = "publish" /\ at' = IF noexcept THEN "construct" ELSE "store_tail"
        /\ entry' = [entry EXCEPT ![E].value = b] /\ tailBlock' = b /\ newBlock' = Null
        /\ UNCHANGED <<headIndex, tailIndex, header, elements, dequeued, freeList, unused,
                       noexcept, pc, my>>
    BY <1>1, <1>2 DEF Publish, counters, consumerVars, blockVars
  <1>5. IndexOK /\ ContentsOK /\ KeptOK /\ ReadersOK BY DEF IndexInv
  <1>6. /\ headIndex \in Nat /\ tailIndex \in Nat /\ headIndex <= tailIndex /\ LastBlock \in Int
        /\ LastBlock >= 0 - 1
    BY Counters, NewestTyped
  <1>7. tailIndex % BLOCK_SIZE = 0 /\ ~Live(E)
    BY <1>1, <1>4, <1>5 DEF IndexOK, StageOK, Speculative
  <1>8. /\ m \in Nat /\ m = LastBlock + 1 /\ Newest = m /\ LastBlock' = m /\ Newest' = m
        /\ tailIndex = BLOCK_SIZE * m
    <2>1. /\ m \in Nat /\ m = Before(tailIndex) + 1 /\ tailIndex = BLOCK_SIZE * m
      BY <1>3, <1>6, <1>7, BlockOfFacts, BlockOfOrder
    <2>2. LastBlock = Before(tailIndex) BY <1>4 DEF LastBlock
    <2>3. Newest = LastBlock + 1 BY <1>4 DEF Newest, Speculative
    <2>4. LastBlock' = m BY <1>3, <1>4 DEF LastBlock
    <2>5. Newest' = LastBlock' BY <1>4 DEF Newest, Speculative
    <2> QED BY <2>1, <2>2, <2>3, <2>4, <2>5
  <1>9. E \in Entries /\ Number(E) = m /\ Keyed(E)
    BY <1>1, <1>5, <1>8, Current DEF IndexOK, CurrentOK, Keyed
  <1>10. /\ b \in Blocks /\ b # Null /\ Once(b) /\ ~InIndex(b) /\ ~Held(b) /\ dequeued[b] = 0
         /\ \A k \in Slots : elements[b][k] = IF ~noexcept /\ k = 0 THEN tailIndex ELSE Null
    BY <1>2, <1>4, <1>5, BlocksAssumption DEF KeptOK, Once
  <1>11. /\ entry' \in Seq(EntryType) /\ Len(entry') = Len(entry)
         /\ entry'[E].value = b /\ \A f \in Entries : f # E => entry'[f] = entry[f]
         /\ \A f \in Entries : entry'[f].key = entry[f].key
    BY <1>4, <1>5, <1>9, <1>10, ValueStored DEF IndexOK
  <1>12. StageOK' BY <1>4 DEF StageOK, Speculative
  <1>13. ASSUME NEW e \in Entries
         PROVE  /\ entry'[e].value \in Blocks => Live(e) \/ (Keyed(e) /\ Number(e) <= Newest)
                /\ ~(Keyed(e) /\ entry'[e].value = Garbage)
                /\ Number(e) # Newest + 1
    <2>1. EntryOK(e) /\ Number(e) \in Int BY <1>5, NumberTyped DEF IndexOK
    <2>2. Number(e) <= Newest BY <1>4, <2>1 DEF EntryOK, Ahead
    <2>3. CASE e = E BY <1>8, <1>9, <1>10, <1>11, <2>3, BlocksAssumption
    <2>4. CASE e # E
      <3>1. entry'[e] = entry[e] BY <1>11, <2>4
      <3>2. ~(Keyed(e) /\ entry[e].value = Garbage)
        BY <1>1, <1>4, <2>1, <2>4 DEF EntryOK, Speculative
      <3> QED BY <1>8, <2>1, <2>2, <3>1, <3>2 DEF Live
    <2> QED BY <2>3, <2>4
  <1>14. IndexOK' /\ Entries' = Entries /\ \A e \in Entries : Number(e)' = Number(e)
    BY <1>4, <1>5, <1>6, <1>8, <1>11, <1>12, <1>13, IndexFrame
  <1>15. ASSUME NEW e \in Entries, e # E
         PROVE  entry'[e].value = entry[e].value /\ (Live(e)' <=> Live(e)) /\ entry[e].value # b
    BY <1>10, <1>11, <1>15 DEF Live, InIndex
  <1>16. IndexKept
    <2>1. blockIndex' = blockIndex /\ blockIndex \in Nat
      BY <1>4, <1>5 DEF blockIndex, IndexOK, IndexTyped
    <2>2. \A e \in Entries : Keyed(e)' <=> Keyed(e) BY <1>14 DEF Keyed
    <2> QED BY <1>4, <1>14, <2>1, <2>2 DEF IndexKept
  <1>17. \A n \in Nat : /\ Open(n)' <=> Open(n)
                        /\ Stored(n)' <=> n \in Alive \/ (at' = "store_tail" /\ n = tailIndex)
                        /\ Stored(n) <=> n \in Alive
                        /\ n \in Alive => n < tailIndex
    <2> SUFFICES ASSUME NEW n \in Nat
                 PROVE  /\ Open(n)' <=> Open(n)
                        /\ Stored(n)' <=> n \in Alive \/ (at' = "store_tail" /\ n = tailIndex)
                        /\ Stored(n) <=> n \in Alive
                        /\ n \in Alive => n < tailIndex
      OBVIOUS
    <2>1. Open(n)' <=> Open(n) BY <1>4, ProducerSets
    <2>2. Stored(n)' <=> n \in Alive \/ (at' = "store_tail" /\ n = tailIndex)
      BY <1>4, ProducerStores
    <2>3. Stored(n) <=> n \in Alive BY <1>4 DEF Stored
    <2>4. ASSUME n \in Alive PROVE n < tailIndex
      <3>1. CASE n \in headIndex .. (tailIndex - 1) BY <1>6, <3>1
      <3>2. ASSUME NEW c \in Consumers, n \in Claimed(c) PROVE n < tailIndex
        BY <1>5, <3>2, Intervals
      <3> QED BY <2>4, <3>1, <3>2 DEF Alive
    <2> QED BY <2>1, <2>2, <2>3, <2>4
  <1>18. ASSUME NEW k \in Slots
         PROVE  /\ Nth(m, k) \in Nat /\ Nth(m, k) >= tailIndex /\ Open(Nth(m, k))
                /\ Nth(m, k) = tailIndex <=> k = 0
    <2>1. k \in Nat BY SizeAssumption DEF Slots
    <2>2. Nth(m, k) = tailIndex + k BY <1>8 DEF Nth
    <2> QED BY <1>6, <2>1, <2>2 DEF Open
  <1>19. ContentOK(E)'
    <2>1. OpenIn(m)' = Slots BY <1>17, <1>18 DEF OpenIn, Nth
    <2>2. Cardinality(Slots) = BLOCK_SIZE /\ Slots # {}
      <3>1. 0 \in Int /\ BLOCK_SIZE - 1 \in Int /\ ~(0 > BLOCK_SIZE - 1)
            /\ (BLOCK_SIZE - 1) - 0 + 1 = BLOCK_SIZE /\ 0 \in 0 .. BLOCK_SIZE - 1
        BY SizeAssumption
      <3> QED BY <3>1, FS_Interval DEF Slots
    <2>3. Number(E)' = m BY <1>9, <1>14
    <2>4. OpenIn(Number(E))' = Slots BY <2>1, <2>3 DEF OpenIn
    <2>5. dequeued'[entry'[E].value] + Cardinality(OpenIn(Number(E)))' = BLOCK_SIZE
      BY <1>4, <1>10, <1>11, <2>2, <2>4, SizeAssumption
    <2>6. ASSUME NEW k \in Slots
          PROVE  elements'[entry'[E].value][k] =
                   IF Stored(Nth(Number(E), k))' THEN Nth(Number(E), k)' ELSE Null
      <3>1. PICK n \in Nat : n = Nth(m, k) BY <1>18
      <3>2. Nth(Number(E), k)' = n BY <2>3, <3>1 DEF Nth
      <3>3. Stored(Nth(Number(E), k))' <=> Stored(n)' BY <3>2 DEF Stored, Alive
      <3>4. Stored(n)' <=> ~noexcept /\ k = 0
        <4>1. n \notin Alive BY <1>6, <1>17, <1>18, <3>1
        <4>2. at' = "store_tail" <=> ~noexcept BY <1>4
        <4> QED BY <1>17, <1>18, <3>1, <4>1, <4>2
      <3>5. k = 0 => n = tailIndex BY <1>18, <3>1
      <3> QED BY <1>4, <1>10, <1>11, <3>2, <3>3, <3>4, <3>5
    <2> QED BY <2>2, <2>4, <2>5, <2>6 DEF ContentOK
  <1>20. ASSUME NEW e \in Entries, e # E, Live(e)
         PROVE  ContentOK(e)' /\ Number(e) <= LastBlock
    <2>1. ContentOK(e) /\ Number(e) \in Nat /\ Number(e) <= LastBlock
      BY <1>5, <1>20, LiveNumber DEF ContentsOK
    <2>2. PICK x \in Nat : x = Number(e) BY <2>1
    <2>3. Number(e)' = x BY <1>14, <2>2
    <2>4. \A k \in Slots : /\ Open(Nth(x, k))' <=> Open(Nth(x, k))
                           /\ Stored(Nth(x, k))' <=> Stored(Nth(x, k))
      <3> SUFFICES ASSUME NEW k \in Slots
                   PROVE  /\ Open(Nth(x, k))' <=> Open(Nth(x, k))
                          /\ Stored(Nth(x, k))' <=> Stored(Nth(x, k))
        OBVIOUS
      <3>1. PICK n \in Nat : n = Nth(x, k) /\ BlockOf(n) = x BY NthTyped
      <3>2. n # tailIndex
        <4>1. x # m
          <5>1. LastBlock \in Int /\ x <= LastBlock /\ m = LastBlock + 1 BY <1>6, <1>8, <2>1, <2>2
          <5> QED BY <5>1
        <4> QED BY <1>3, <3>1, <4>1
      <3>3. (Open(n)' <=> Open(n)) /\ (Stored(n)' <=> Stored(n)) BY <1>17, <3>2
      <3> QED BY <3>1, <3>3 DEF Nth
    <2>5. ContentOK(e)' BY <1>4, <1>15, <1>20, <2>1, <2>2, <2>3, <2>4, ContentFrame
    <2> QED BY <2>1, <2>5
  <1>21. ContentsOK'
    <2>1. \A e \in Entries' : ContentOK(e)'
      BY <1>14, <1>15, <1>19, <1>20 DEF ContentOK
    <2>2. ASSUME NEW x \in Nat, x <= LastBlock', OpenIn(x)' # {}
          PROVE  \E e \in Entries' : Number(e)' = x /\ Live(e)'
      <3>1. CASE x = m BY <1>9, <1>10, <1>11, <1>14, <3>1 DEF Live
      <3>2. CASE x # m
        <4>1. x <= LastBlock BY <1>6, <1>8, <2>2, <3>2
        <4>2. OpenIn(x)' = OpenIn(x) BY <1>17, NthTyped DEF OpenIn, Nth
        <4>3. PICK e \in Entries : Number(e) = x /\ Live(e) BY <1>5, <2>2, <4>1, <4>2 DEF ContentsOK
        <4> QED BY <1>7, <1>14, <1>15, <4>3
      <3> QED BY <3>1, <3>2
    <2>3. ASSUME NEW e \in Entries', Live(e)', Number(e)' = LastBlock'
          PROVE  entry'[e].value = tailBlock'
      <3>1. e = E
        <4>1. Number(e) = m BY <1>8, <1>14, <2>3
        <4>2. CASE e # E BY <1>6, <1>8, <1>14, <1>15, <1>20, <2>3, <4>1, <4>2
        <4> QED BY <4>2
      <3> QED BY <1>4, <1>11, <3>1
    <2> QED BY <2>1, <2>2, <2>3 DEF ContentsOK
  <1>22. KeptOK'
    <2>1. ASSUME NEW x \in Blocks PROVE InIndex(x)' <=> InIndex(x) \/ x = b
      <3>1. ASSUME InIndex(x)' PROVE InIndex(x) \/ x = b
        <4>1. PICK e \in Entries : entry'[e].value = x BY <1>14, <3>1 DEF InIndex
        <4> QED BY <1>11, <1>15, <4>1 DEF InIndex
      <3>2. ASSUME InIndex(x) PROVE InIndex(x)'
        <4>1. PICK e \in Entries : entry[e].value = x BY <3>2 DEF InIndex
        <4>2. e # E BY <1>7, <4>1 DEF Live
        <4> QED BY <1>14, <1>15, <4>1, <4>2 DEF InIndex
      <3>3. ASSUME x = b PROVE InIndex(x)' BY <1>9, <1>11, <1>14, <3>3 DEF InIndex
      <3> QED BY <3>1, <3>2, <3>3
    <2>2. \A x \in Blocks : Held(x)' <=> Held(x) BY <1>4, ProducerSets
    <2>3. ASSUME NEW x \in Blocks PROVE Once(x)'
      <3>1. Once(x) /\ x # newBlock' BY <1>4, <1>5, BlocksAssumption DEF KeptOK
      <3>2. x = b => x = newBlock BY <1>2
      <3> QED BY <1>2, <1>4, <2>1, <2>2, <3>1, <3>2 DEF Once
    <2>4. ASSUME NEW x \in Blocks, x \in unused' \/ x \in freeList' \/ Held(x)' PROVE Blank(x)'
      <3>1. Blank(x) BY <1>4, <1>5, <2>2, <2>4 DEF KeptOK
      <3> QED BY <1>4, <3>1 DEF Blank
    <2>5. \A e, f \in Entries' : Live(e)' /\ entry'[e].value = entry'[f].value => e = f
      <3> SUFFICES ASSUME NEW e \in Entries, NEW f \in Entries, Live(e)',
                          entry'[e].value = entry'[f].value
                   PROVE  e = f
        BY <1>14
      <3>1. CASE e # E /\ f # E BY <1>5, <1>15, <3>1 DEF KeptOK
      <3>2. CASE e = E \/ f = E BY <1>11, <1>15, <3>2
      <3> QED BY <3>1, <3>2
    <2> QED BY <1>4, <1>5, <2>3, <2>4, <2>5 DEF KeptOK
  <1>23. ReadersOK' /\ Apart'
    <2>1. \A e \in Entries : Live(e) => e # E BY <1>7
    <2> QED BY <1>4, <1>15, <1>16, <2>1, ProducerReaders
  <1> QED BY <1>14, <1>21, <1>22, <1>23 DEF IndexInv

\* The element is constructed in the last block, in the slot of the tail.
LEMMA ConstructStep == ASSUME IInv, IndexInv, Construct PROVE IndexInv'
PROOF
  <1>1. PICK k0 : k0 = tailIndex % BLOCK_SIZE OBVIOUS
  <1>2. PICK b : b = tailBlock OBVIOUS
  <1>3. PICK m : m = BlockOf(tailIndex) OBVIOUS
  <1>4. /\ at = "construct" /\ at' = "store_tail"
        /\ elements' = [elements EXCEPT ![b][k0] = tailIndex]
        /\ UNCHANGED <<headIndex, tailIndex, entry, header, dequeued, freeList, unused, tailBlock,
                       newBlock, noexcept, pc, my>>
    BY <1>1, <1>2 DEF Construct, counters, consumerVars
  <1>5. IndexOK /\ ContentsOK /\ KeptOK /\ ReadersOK BY DEF IndexInv
  <1>6. /\ headIndex \in Nat /\ tailIndex \in Nat /\ headIndex <= tailIndex
        /\ LastBlock = m /\ LastBlock' = LastBlock
    BY <1>3, <1>4, Counters DEF LastBlock
  <1>7. StageOK' BY <1>4 DEF StageOK, Speculative
  <1>8. IndexOK' /\ IndexKept /\ LiveKept BY <1>4, <1>5, <1>6, <1>7, AtMoves DEF Speculative
  <1>9. m \in Nat /\ k0 \in Slots /\ tailIndex = Nth(m, k0) BY <1>1, <1>3, <1>6, BlockOfFacts DEF Nth
  <1>10. PICK E \in Entries : Number(E) = m /\ Live(E) /\ entry[E].value = b
    <2>1. Open(tailIndex) BY <1>6 DEF Open
    <2>2. PICK E \in Entries : Number(E) = m /\ Live(E) BY <1>3, <1>5, <1>6, <1>9, <2>1, OpenBlock
    <2> QED BY <1>2, <1>5, <1>6, <2>2 DEF ContentsOK
  <1>11. b \in Blocks /\ InIndex(b) BY <1>10 DEF Live, InIndex
  <1>12. /\ elements' = [v \in Blocks |-> [k \in Slots |-> elements'[v][k]]]
         /\ \A v \in Blocks : v # b => elements'[v] = elements[v]
         /\ \A k \in Slots : elements'[b][k] = IF k = k0 THEN tailIndex ELSE elements[b][k]
    <2>1. elements = [v \in Blocks |-> [k \in Slots |-> elements[v][k]]] BY <1>5 DEF KeptOK
    <2> QED BY <1>4, <1>9, <1>11, <2>1
  <1>13. \A n \in Nat : /\ Open(n)' <=> Open(n)
                        /\ Stored(n)' <=> Stored(n) \/ n = tailIndex
    BY <1>4, ProducerSets, ProducerStores DEF Stored
  <1>14. ASSUME NEW e \in Entries, Live(e) PROVE ContentOK(e)'
    <2>1. ContentOK(e) /\ Number(e) \in Nat BY <1>5, <1>14, LiveNumber DEF ContentsOK
    <2>2. PICK x \in Nat : x = Number(e) BY <2>1
    <2>3. Number(e)' = x /\ entry'[e].value = entry[e].value BY <1>4, <1>14, <2>2, <1>8 DEF LiveKept
    <2>4. CASE e = E
      <3>1. x = m BY <1>10, <2>2, <2>4
      <3>2. OpenIn(x)' = OpenIn(x) BY <1>13, NthTyped DEF OpenIn, Nth
      <3>3. OpenIn(Number(e))' = OpenIn(x) BY <2>3, <3>2 DEF OpenIn
      <3>4. ASSUME NEW k \in Slots
            PROVE  elements'[entry'[e].value][k] =
                     IF Stored(Nth(Number(e), k))' THEN Nth(Number(e), k)' ELSE Null
        <4>1. PICK n \in Nat : n = Nth(x, k) BY NthTyped
        <4>2. Nth(Number(e), k)' = n BY <2>3, <4>1 DEF Nth
        <4>3. Stored(Nth(Number(e), k))' <=> Stored(n)' BY <4>2 DEF Stored, Alive
        <4>4. elements[b][k] = IF Stored(n) THEN n ELSE Null
          BY <1>10, <1>14, <2>1, <2>2, <2>4, <4>1 DEF ContentOK
        <4>5. n = tailIndex <=> k = k0
          <5>1. n % BLOCK_SIZE = k BY <4>1, NthTyped
          <5> QED BY <1>1, <1>9, <3>1, <4>1, <5>1
        <4>6. elements'[b][k] = IF k = k0 THEN tailIndex ELSE elements[b][k] BY <1>12
        <4>7. Stored(n)' <=> Stored(n) \/ n = tailIndex BY <1>13
        <4> QED BY <1>10, <2>3, <2>4, <4>2, <4>3, <4>4, <4>5, <4>6, <4>7
      <3> QED BY <1>4, <2>1, <2>2, <2>3, <3>3, <3>4 DEF ContentOK, Live
    <2>5. CASE e # E
      <3>1. x # m BY <1>5, <1>10, <1>14, <2>2, <2>5, SameNumber, LiveNumber
      <3>2. entry[e].value # b /\ entry[e].value \in Blocks
        BY <1>5, <1>10, <1>14, <2>5 DEF KeptOK, Live
      <3>3. \A k \in Slots : /\ Open(Nth(x, k))' <=> Open(Nth(x, k))
                             /\ Stored(Nth(x, k))' <=> Stored(Nth(x, k))
        <4> SUFFICES ASSUME NEW k \in Slots
                     PROVE  /\ Open(Nth(x, k))' <=> Open(Nth(x, k))
                            /\ Stored(Nth(x, k))' <=> Stored(Nth(x, k))
          OBVIOUS
        <4>1. PICK n \in Nat : n = Nth(x, k) /\ BlockOf(n) = x BY NthTyped
        <4>2. n # tailIndex BY <1>3, <3>1, <4>1
        <4>3. (Open(n)' <=> Open(n)) /\ (Stored(n)' <=> Stored(n)) BY <1>13, <4>2
        <4> QED BY <4>1, <4>3 DEF Nth
      <3> QED BY <1>4, <1>12, <1>14, <2>1, <2>2, <2>3, <3>2, <3>3, ContentFrame
    <2> QED BY <2>4, <2>5
  <1>15. ContentsOK'
    <2>1. \A e \in Entries' : Live(e)' => e \in Entries /\ Live(e) /\ Number(e)' = Number(e)
                                          /\ entry'[e].value = entry[e].value
      BY <1>8 DEF LiveKept
    <2>2. \A e \in Entries' : ContentOK(e)' BY <1>14, <2>1 DEF ContentOK
    <2>3. ASSUME NEW x \in Nat, x <= LastBlock', OpenIn(x)' # {}
          PROVE  \E e \in Entries' : Number(e)' = x /\ Live(e)'
      <3>1. OpenIn(x)' = OpenIn(x) BY <1>13, NthTyped DEF OpenIn, Nth
      <3>2. PICK e \in Entries : Number(e) = x /\ Live(e) BY <1>5, <1>6, <2>3, <3>1 DEF ContentsOK
      <3> QED BY <1>4, <1>8, <3>2 DEF LiveKept, Live
    <2>4. ASSUME NEW e \in Entries', Live(e)', Number(e)' = LastBlock'
          PROVE  entry'[e].value = tailBlock'
      BY <1>4, <1>5, <1>6, <2>1, <2>4 DEF ContentsOK
    <2> QED BY <2>2, <2>3, <2>4 DEF ContentsOK
  <1>16. KeptOK'
    <2>1. \A x \in Blocks : (Held(x)' <=> Held(x)) /\ (InIndex(x)' <=> InIndex(x))
      BY <1>4, <1>5, <1>8, ProducerSets, IndexBlocks
    <2>2. newBlock = Null BY <1>4, <1>5 DEF KeptOK
    <2>3. ASSUME NEW x \in Blocks PROVE Once(x)'
      <3>1. Once(x) BY <1>5 DEF KeptOK
      <3> QED BY <1>4, <2>1, <3>1 DEF Once
    <2>4. ASSUME NEW x \in Blocks, x \in unused' \/ x \in freeList' \/ Held(x)' PROVE Blank(x)'
      <3>1. Blank(x) /\ Once(x) BY <1>4, <1>5, <2>1, <2>4 DEF KeptOK
      <3>2. x # b BY <1>4, <1>11, <2>1, <2>4, <3>1 DEF Once
      <3> QED BY <1>12, <3>1, <3>2 DEF Blank
    <2>5. \A e, f \in Entries' : Live(e)' /\ entry'[e].value = entry'[f].value => e = f
      BY <1>5, <1>8, IndexBlocks
    <2> QED BY <1>4, <1>5, <1>12, <2>2, <2>3, <2>4, <2>5 DEF KeptOK
  <1>17. ReadersOK' /\ Apart'
    BY <1>4, <1>8, ProducerReaders DEF LiveKept
  <1> QED BY <1>8, <1>15, <1>16, <1>17 DEF IndexInv

-----------------------------------------------------------------------------
(* The steps of the consumers and the blocks.                              *)

\* After a step, too, a consumer that only counts has no elements.
LEMMA IdleNext ==
  ASSUME Typed', NEW c \in Consumers, pc'[c] \in Counting
  PROVE  Uncounted(c)' = {} /\ Claimed(c)' = {}
PROOF
  <1>1. my'[c] \in Locals BY DEF Typed
  <1>2. my'[c].index = 0 /\ my'[c].want \in Nat BY <1>1 DEF Locals
  <1>3. pc'[c] \notin Looking /\ pc'[c] \notin {"set_empty", "clear", "free"}
    BY DEF Counting, Looking
  <1>4. /\ Uncounted(c)' = (0 + my'[c].want) .. (0 + my'[c].want - 1)
        /\ Claimed(c)' = (0 + my'[c].want) .. (0 + my'[c].want - 1)
    BY <1>2, <1>3 DEF Uncounted, Claimed
  <1> QED BY <1>2, <1>4

\* The consumers leave the stage of the producer.
ProducerWaits == UNCHANGED <<tailIndex, header, tailBlock, noexcept, at, newBlock>>

\* Steps that leave the producer and the entries alone leave the index right.
LEMMA IndexWaits ==
  ASSUME IndexOK, ProducerWaits, entry' = entry
  PROVE  IndexOK' /\ LastBlock' = LastBlock
PROOF
  <1>1. /\ tailIndex' = tailIndex /\ header' = header /\ at' = at /\ noexcept' = noexcept
        /\ entry' = entry
    BY DEF ProducerWaits
  <1>2. LastBlock' = LastBlock /\ Newest' = Newest BY <1>1 DEF LastBlock, Newest
  <1>3. TailEntry' = TailEntry /\ NewEntry' = NewEntry
    BY <1>1 DEF TailEntry, NewEntry, NewTail, blockIndex
  <1>4. \A e : (Live(e)' <=> Live(e)) /\ Number(e)' = Number(e) BY <1>1 DEF Live, Number
  <1>5. StageOK'
    <2>1. StageOK BY DEF IndexOK
    <2> QED BY <1>1, <1>2, <1>3, <1>4, <2>1 DEF StageOK, Number, Live
  <1>6. ASSUME NEW e \in Entries PROVE EntryOK(e) BY <1>6 DEF IndexOK
  <1>7. Newest \in Int /\ tailIndex' \in Nat /\ entry' \in Seq(EntryType)
    BY <1>1, NewestTyped DEF IndexOK, IndexTyped
  <1>8. \A e \in Entries :
          /\ entry'[e].value \in Blocks => Live(e)
          /\ Keyed(e) /\ entry'[e].value = Garbage =>
               \/ at' \in {"advance", "empty_entry"} /\ e = NewEntry
               \/ at' \in Speculative /\ e = TailEntry
    BY <1>1, <1>6 DEF Live, EntryOK
  <1>9. ASSUME NEW e \in Entries, Number(e) = Newest + 1
        PROVE  /\ entry'[e].value \notin Blocks
               /\ at' \in {"idle", "insert", "advance", "empty_entry"} /\ tailIndex' % BLOCK_SIZE = 0
    <2>1. ~(Number(e) <= Newest) BY <1>7, <1>9
    <2>2. Ahead(e) BY <1>6, <2>1 DEF EntryOK
    <2> QED BY <1>1, <2>2 DEF Ahead, Live
  <1> QED BY <1>1, <1>2, <1>5, <1>7, <1>8, <1>9, IndexFrame

\* The others, while c takes a step.
LEMMA Others ==
  ASSUME IInv, IndexInv, IndexKept, NEW c \in Consumers, OnlyMoves(c),
         headIndex' \in Nat, headIndex <= headIndex',
         \A d \in Consumers : d # c =>
           /\ pc[d] \in {"value", "take", "set_empty", "clear"} =>
                entry'[my[d].entry].value = entry[my[d].entry].value
           /\ pc[d] = "clear" => dequeued'[my[d].block] = dequeued[my[d].block]
  PROVE  \A d \in Consumers : d # c =>
           /\ Reader(d)' /\ Uncounted(d)' = Uncounted(d) /\ Claimed(d)' = Claimed(d)
           /\ pc'[d] = pc[d] /\ my'[d] = my[d]
  BY ReaderFrame DEF IndexInv, OnlyMoves

\* A step of c that moves no block.
LEMMA ConsumerQuiet ==
  ASSUME IInv, IndexInv, NEW c \in Consumers, OnlyMoves(c), ProducerWaits,
         UNCHANGED <<entry, blockVars>>, headIndex' \in Nat, headIndex <= headIndex',
         pc[c] \notin {"clear", "free"}, pc'[c] \notin {"clear", "free"},
         \A n \in Nat : (Open(n)' <=> Open(n)) /\ (Stored(n)' <=> Stored(n)),
         \A d \in Consumers : d # c => Uncounted(c)' \cap Uncounted(d) = {},
         Reader(c)'
  PROVE  IndexInv'
PROOF
  <1>1. IndexOK /\ ContentsOK /\ KeptOK /\ ReadersOK /\ Apart BY DEF IndexInv
  <1>2. /\ UNCHANGED <<tailIndex, header, entry, elements, dequeued, freeList, unused, tailBlock,
                       noexcept, at, newBlock>>
    BY DEF ProducerWaits, blockVars
  <1>3. IndexOK' /\ LastBlock' = LastBlock BY <1>1, IndexWaits
  <1>4. IndexKept /\ LiveKept /\ Entries' = Entries BY <1>1, <1>2, SameIndex
  <1>5. \A d \in Consumers : d # c =>
          /\ Reader(d)' /\ Uncounted(d)' = Uncounted(d)
          /\ pc'[d] = pc[d] /\ my'[d] = my[d]
    BY <1>2, <1>4, Others
  <1>6. \A d \in Consumers : pc[d] = "clear" => pc'[d] = "clear" /\ my'[d].entry = my[d].entry
    BY <1>5
  <1>7. ContentsOK' BY <1>1, <1>2, <1>3, <1>4, <1>6, QuietContents
  <1>8. ASSUME NEW b \in Blocks PROVE Held(b)' <=> Held(b) BY <1>5 DEF Held
  <1>9. KeptOK'
    <2>1. at' \in {"construct_first", "publish"} => at' = at BY <1>2
    <2>2. newBlock # Null => at' \in {"construct_first", "publish", "rewind", "empty_entry"}
      BY <1>1, <1>2 DEF KeptOK
    <2> QED BY <1>1, <1>2, <1>4, <1>8, <2>1, <2>2, KeptFrame
  <1>10. ReadersOK' BY <1>5 DEF ReadersOK
  <1>11. Apart'
    <2> SUFFICES ASSUME NEW x \in Consumers, NEW y \in Consumers, x # y
                 PROVE  /\ Uncounted(x)' \cap Uncounted(y)' = {}
                        /\ pc'[x] \in {"clear", "free"} /\ pc'[y] \in {"clear", "free"} =>
                             my'[x].block # my'[y].block
      BY DEF Apart
    <2>1. CASE x = c BY <1>5, <2>1
    <2>2. CASE y = c BY <1>5, <2>2
    <2>3. CASE x # c /\ y # c BY <1>1, <1>5, <2>3 DEF Apart
    <2> QED BY <2>1, <2>2, <2>3
  <1> QED BY <1>3, <1>7, <1>9, <1>10, <1>11 DEF IndexInv

\* As long as c looks for what it claimed, it has not taken it.
LEMMA SameSets ==
  ASSUME NEW c \in Consumers, OnlyMoves(c), ProducerWaits, headIndex' = headIndex,
         Uncounted(c)' = Uncounted(c), Claimed(c)' = Claimed(c)
  PROVE  \A n : (Open(n)' <=> Open(n)) /\ (Stored(n)' <=> Stored(n))
PROOF
  <1>1. ASSUME NEW d \in Consumers
        PROVE  Uncounted(d)' = Uncounted(d) /\ Claimed(d)' = Claimed(d)
    <2>1. CASE d = c BY <2>1
    <2>2. CASE d # c
      <3>1. pc'[d] = pc[d] /\ my'[d] = my[d] BY <2>2 DEF OnlyMoves
      <3> QED BY <3>1 DEF Uncounted, Claimed, Here
    <2> QED BY <2>1, <2>2
  <1>2. \A n : Open(n)' <=> Open(n) BY <1>1 DEF Open
  <1>3. Alive' = Alive
    <2>1. {n \in headIndex .. (tailIndex - 1) : at # "destroyed"}' =
            {n \in headIndex .. (tailIndex - 1) : at # "destroyed"}
      BY DEF ProducerWaits
    <2> QED BY <1>1, <2>1 DEF Alive
  <1>4. \A n : Stored(n)' <=> Stored(n) BY <1>3 DEF Stored, ProducerWaits
  <1> QED BY <1>2, <1>4

\* A consumer that only counts leaves the blocks right.
LEMMA CountingQuiet ==
  ASSUME IInv, IInv', IndexInv, NEW c \in Consumers, OnlyMoves(c), ProducerWaits,
         UNCHANGED <<entry, blockVars, headIndex>>, pc[c] \in Counting, pc'[c] \in Counting,
         pc'[c] \in {"lost_some", "claim"} => my'[c].want > 0
  PROVE  IndexInv'
PROOF
  <1>1. Uncounted(c) = {} /\ Claimed(c) = {} BY Idle DEF IInv
  <1>2. Uncounted(c)' = {} /\ Claimed(c)' = {} BY IdleNext DEF IInv
  <1>3. \A n : (Open(n)' <=> Open(n)) /\ (Stored(n)' <=> Stored(n)) BY <1>1, <1>2, SameSets
  <1>4. /\ pc'[c] \notin Finding /\ pc[c] \notin {"clear", "free"}
        /\ pc'[c] \notin {"header", "slot", "entry", "value", "take", "set_empty", "clear", "free"}
    BY DEF Counting, Finding, Looking
  <1>5. Reader(c)' BY <1>4 DEF Reader
  <1>6. headIndex' \in Nat /\ headIndex <= headIndex' BY Counters
  <1> QED BY <1>2, <1>3, <1>4, <1>5, <1>6, ConsumerQuiet

\* The steps up to the claim.
Counts(c) ==
  \/ Begin(c) \/ (\E max \in 2 .. MaxBulk : BeginBulk(c, max)) \/ LoadHead(c) \/ LoadTail(c)
  \/ LoadOvercommit(c) \/ Check(c) \/ Reserve(c) \/ Reload(c) \/ MakeGood(c)

\* A step that stores the label and the locals of one consumer.
LEMMA Moves ==
  ASSUME Typed, NEW c \in Consumers, NEW label, NEW l, pc' = [pc EXCEPT ![c] = label],
         my' = [my EXCEPT ![c] = l]
  PROVE  OnlyMoves(c) /\ pc'[c] = label /\ my'[c] = l
  BY DEF Typed, OnlyMoves

\* The steps of a consumer up to its claim, as it sees them.
LEMMA CountsEffect ==
  ASSUME IInv, IndexInv, NEW c \in Consumers, Counts(c)
  PROVE  /\ OnlyMoves(c) /\ ProducerWaits /\ UNCHANGED <<entry, blockVars, headIndex>>
         /\ pc[c] \in Counting /\ pc'[c] \in Counting
         /\ pc'[c] \in {"lost_some", "claim"} => my'[c].want > 0
PROOF
  <1> USE DEF Counting, ProducerWaits, producerVars, counters, Goto
  <1>0. Typed BY DEF IInv
  <1>1. CASE Begin(c)
    <2>1. PICK l : my' = [my EXCEPT ![c] = l] BY <1>1 DEF Begin
    <2>2. /\ pc[c] = "idle" /\ pc' = [pc EXCEPT ![c] = "size"] /\ ProducerWaits
          /\ UNCHANGED <<entry, blockVars, headIndex>>
      BY <1>1 DEF Begin
    <2>3. OnlyMoves(c) /\ pc'[c] = "size" BY <1>0, <2>1, <2>2, Moves
    <2> QED BY <2>2, <2>3
  <1>2. ASSUME NEW max \in 2 .. MaxBulk, BeginBulk(c, max)
        PROVE  /\ OnlyMoves(c) /\ ProducerWaits /\ UNCHANGED <<entry, blockVars, headIndex>>
               /\ pc[c] = "idle" /\ pc'[c] = "tail"
    <2>1. PICK l : my' = [my EXCEPT ![c] = l] BY <1>2 DEF BeginBulk
    <2> QED BY <1>0, <1>2, <2>1, Moves DEF BeginBulk
  <1>3. CASE LoadHead(c)
    <2>1. PICK l : my' = [my EXCEPT ![c] = l] BY <1>0, <1>3 DEF LoadHead, Fail, Typed
    <2>2. PICK label \in {"idle", "tail"} : pc' = [pc EXCEPT ![c] = label]
      BY <1>3 DEF LoadHead, Fail
    <2> QED BY <1>0, <1>3, <2>1, <2>2, Moves DEF LoadHead
  <1>4. CASE LoadTail(c)
    <2>1. PICK l : my' = [my EXCEPT ![c] = l] BY <1>4 DEF LoadTail
    <2>2. /\ pc[c] = "tail" /\ pc' = [pc EXCEPT ![c] = "overcommit"] /\ ProducerWaits
          /\ UNCHANGED <<entry, blockVars, headIndex>>
      BY <1>4 DEF LoadTail
    <2>3. OnlyMoves(c) /\ pc'[c] = "overcommit" BY <1>0, <2>1, <2>2, Moves
    <2> QED BY <2>2, <2>3
  <1>5. CASE LoadOvercommit(c)
    <2>1. PICK l : my' = [my EXCEPT ![c] = l] BY <1>5 DEF LoadOvercommit
    <2>2. /\ pc[c] = "overcommit" /\ pc' = [pc EXCEPT ![c] = "check"] /\ ProducerWaits
          /\ UNCHANGED <<entry, blockVars, headIndex>>
      BY <1>5 DEF LoadOvercommit
    <2>3. OnlyMoves(c) /\ pc'[c] = "check" BY <1>0, <2>1, <2>2, Moves
    <2> QED BY <2>2, <2>3
  <1>6. CASE Check(c)
    <2>1. PICK l : my' = [my EXCEPT ![c] = l] BY <1>6 DEF Check, Fail
    <2>2. PICK label \in {"idle", "reserve"} : pc' = [pc EXCEPT ![c] = label]
      BY <1>6 DEF Check, Fail
    <2> QED BY <1>0, <1>6, <2>1, <2>2, Moves DEF Check
  <1>7. CASE Reserve(c)
    <2>1. PICK l : my' = [my EXCEPT ![c] = l] BY <1>7 DEF Reserve
    <2>2. /\ pc[c] = "reserve" /\ pc' = [pc EXCEPT ![c] = "reload"] /\ ProducerWaits
          /\ UNCHANGED <<entry, blockVars, headIndex>>
      BY <1>7 DEF Reserve
    <2>3. OnlyMoves(c) /\ pc'[c] = "reload" BY <1>0, <2>1, <2>2, Moves
    <2> QED BY <2>2, <2>3
  <1>8. CASE Reload(c)
    <2>1. PICK a : a = Actual(c) OBVIOUS
    <2>2. PICK lost : lost = my[c].want - a OBVIOUS
    <2>3. PICK label : label = IF a = 0 THEN "give_up" ELSE IF lost > 0 THEN "lost_some" ELSE "claim"
      OBVIOUS
    <2>4. /\ pc[c] = "reload" /\ pc' = [pc EXCEPT ![c] = label]
          /\ my' = [my EXCEPT ![c] = [NoLocals EXCEPT !.want = a, !.lost = lost]]
      BY <1>8, <2>1, <2>2, <2>3 DEF Reload
    <2>5. a \in Nat
      <3>1. my[c] \in Locals /\ tailIndex \in Nat BY <1>0, <2>4 DEF Typed
      <3>2. my[c].want \in Nat /\ my[c].count \in Int BY <3>1 DEF Locals
      <3> QED BY <2>1, <3>1, <3>2 DEF Actual, LeastOf
    <2>6. OnlyMoves(c) /\ pc'[c] = label /\ my'[c] = [NoLocals EXCEPT !.want = a, !.lost = lost]
      BY <1>0, <2>4, Moves
    <2>7. my'[c].want = a BY <2>6 DEF NoLocals
    <2>8. label \in {"lost_some", "claim"} => a > 0 BY <2>3, <2>5
    <2> QED BY <1>8, <2>3, <2>4, <2>6, <2>7, <2>8 DEF Reload
  <1>9. CASE MakeGood(c)
    <2>1. CASE pc[c] = "give_up"
      <3>1. PICK l : my' = [my EXCEPT ![c] = l] BY <1>9, <2>1 DEF MakeGood
      <3> QED BY <1>0, <1>9, <2>1, <3>1, Moves DEF MakeGood
    <2>2. CASE pc[c] = "lost_some"
      <3>1. my' = [my EXCEPT ![c].lost = 0] /\ pc' = [pc EXCEPT ![c] = "claim"]
        BY <1>9, <2>2 DEF MakeGood
      <3>2. my[c] \in Locals /\ my[c].want > 0
        BY <1>0, <2>2 DEF Typed, IndexInv, ReadersOK, Reader
      <3>3. my' = [my EXCEPT ![c] = [my[c] EXCEPT !.lost = 0]] BY <3>1
      <3>4. OnlyMoves(c) /\ pc'[c] = "claim" /\ my'[c] = [my[c] EXCEPT !.lost = 0]
        BY <1>0, <3>1, <3>3, Moves
      <3>5. my'[c].want = my[c].want BY <3>2, <3>4 DEF Locals
      <3> QED BY <1>9, <2>2, <3>2, <3>4, <3>5 DEF MakeGood
    <2> QED BY <1>9, <2>1, <2>2 DEF MakeGood
  <1> QED BY <1>1, <1>2, <1>3, <1>4, <1>5, <1>6, <1>7, <1>8, <1>9 DEF Counts

\* The steps of a consumer up to its claim leave the blocks right.
LEMMA CountsBlocks == ASSUME IInv, IInv', IndexInv, NEW c \in Consumers, Counts(c) PROVE IndexInv'
  BY CountsEffect, CountingQuiet

\* What is claimed moves from the queue to the consumer.
LEMMA ClaimBlocks ==
  ASSUME IInv, IInv', IndexInv, at # "destroyed", NEW c \in Consumers, Claim(c)
  PROVE  IndexInv'
PROOF
  <1>1. PICK i : i = headIndex OBVIOUS
  <1>2. PICK w : w = my[c].want OBVIOUS
  <1>3. /\ pc[c] = "claim" /\ pc' = [pc EXCEPT ![c] = "header"]
        /\ my' = [my EXCEPT ![c].index = i] /\ headIndex' = i + w
        /\ ProducerWaits /\ UNCHANGED <<entry, blockVars>>
    BY <1>1, <1>2 DEF Claim, Goto, ProducerWaits, producerVars
  <1>4. Typed /\ my[c] \in Locals /\ i \in Nat BY <1>1, <1>3 DEF IInv, Typed, Counting
  <1>5. w \in Nat /\ w > 0 BY <1>2, <1>3, <1>4 DEF Locals, IndexInv, ReadersOK, Reader
  <1>6. /\ OnlyMoves(c) /\ pc'[c] = "header" /\ my'[c].index = i /\ my'[c].want = w
    <2>1. my' = [my EXCEPT ![c] = [my[c] EXCEPT !.index = i]] BY <1>3
    <2>2. OnlyMoves(c) /\ pc'[c] = "header" /\ my'[c] = [my[c] EXCEPT !.index = i]
      BY <1>3, <1>4, <2>1, Moves
    <2> QED BY <1>2, <1>4, <2>2 DEF Locals
  <1>7. Uncounted(c) = {} /\ Claimed(c) = {} BY <1>3, <1>4, Idle DEF Counting
  <1>8. Uncounted(c)' = i .. (i + w - 1) /\ Claimed(c)' = i .. (i + w - 1)
    BY <1>6 DEF Uncounted, Claimed, Looking
  <1>9. headIndex' <= tailIndex /\ headIndex' \in Nat /\ headIndex <= headIndex' /\ tailIndex \in Nat
    <2>1. /\ headIndex' \in Nat /\ tailIndex' \in Nat /\ tailIndex' = tailIndex /\ Typed'
      BY <1>3 DEF IInv, Typed, ProducerWaits
    <2>2. \A k \in Nat : tailIndex' <= k => headIndex' + Promised(k)' <= k
      BY DEF IInv, WithinTail
    <2>3. \A k \in Nat : Promised(k)' \in Nat
      <3> SUFFICES ASSUME NEW k \in Nat PROVE Promised(k)' \in Nat OBVIOUS
      <3> DEFINE f == [d \in Consumers |-> MayGet(d, k)']
      <3>1. f \in [Consumers -> Nat] BY <2>1, TermsNext
      <3>2. Promised(k)' = SumOf(f) BY DEF Promised, SumOf
      <3> HIDE DEF f
      <3> QED BY <3>1, <3>2, UnitsFinite
    <2>4. headIndex' + Promised(tailIndex)' <= tailIndex /\ Promised(tailIndex)' \in Nat
      <3>1. PICK k \in Nat : k = tailIndex BY <2>1
      <3>2. k = tailIndex' /\ tailIndex' <= k BY <2>1, <3>1
      <3>3. headIndex' + Promised(k)' <= k /\ Promised(k)' \in Nat BY <2>2, <2>3, <3>2
      <3>4. Promised(tailIndex)' = Promised(k)' BY <3>2 DEF Promised
      <3> QED BY <3>1, <3>3, <3>4
    <2> QED BY <1>1, <1>3, <1>4, <1>5, <2>1, <2>4
  <1>10. \A d \in Consumers : d # c => Uncounted(d)' = Uncounted(d) /\ Claimed(d)' = Claimed(d)
    BY <1>6 DEF OnlyMoves, Uncounted, Claimed, Here
  <1>11. \A n \in Nat : n >= i <=> n >= i + w \/ n \in i .. (i + w - 1) BY <1>4, <1>5
  <1>12. ASSUME NEW n \in Nat PROVE Open(n)' <=> Open(n)
    <2>1. Open(n)' <=> n >= i + w \/ \E d \in Consumers : n \in Uncounted(d)' BY <1>3 DEF Open
    <2>2. (\E d \in Consumers : n \in Uncounted(d)') <=>
            n \in i .. (i + w - 1) \/ \E d \in Consumers : n \in Uncounted(d)
      BY <1>7, <1>8, <1>10
    <2> QED BY <1>1, <1>11, <2>1, <2>2 DEF Open
  <1>13. ASSUME NEW n \in Nat PROVE Stored(n)' <=> Stored(n)
    <2>1. at' = at /\ tailIndex' = tailIndex BY <1>3 DEF ProducerWaits
    <2>2. n \in Alive' <=> n \in (i + w) .. (tailIndex - 1) \/ \E d \in Consumers : n \in Claimed(d)'
      BY <1>3, <2>1 DEF Alive
    <2>3. n \in Alive <=> n \in i .. (tailIndex - 1) \/ \E d \in Consumers : n \in Claimed(d)
      BY <1>1 DEF Alive
    <2>4. (\E d \in Consumers : n \in Claimed(d)') <=>
            n \in i .. (i + w - 1) \/ \E d \in Consumers : n \in Claimed(d)
      BY <1>7, <1>8, <1>10
    <2>5. n \in i .. (tailIndex - 1) <=> n \in (i + w) .. (tailIndex - 1) \/ n \in i .. (i + w - 1)
      BY <1>3, <1>4, <1>5, <1>9
    <2> QED BY <2>1, <2>2, <2>3, <2>4, <2>5 DEF Stored
  <1>14. ASSUME NEW d \in Consumers, d # c PROVE Uncounted(c)' \cap Uncounted(d) = {}
    <2>1. \A n \in Uncounted(d) : n \in Nat /\ n < i BY <1>1, Intervals DEF IndexInv
    <2>2. \A n \in i .. (i + w - 1) : ~(n < i) BY <1>4, <1>5
    <2> QED BY <1>8, <2>1, <2>2
  <1>15. Reader(c)'
    <2>1. DOMAIN my'[c] = Fields
      <3>1. my'[c] = [my[c] EXCEPT !.index = i] BY <1>3, <1>4 DEF Typed
      <3> QED BY <1>4, <3>1 DEF Locals, Fields
    <2> QED BY <1>3, <1>4, <1>5, <1>6, <2>1 DEF Reader
  <1> QED BY <1>3, <1>6, <1>9, <1>12, <1>13, <1>14, <1>15, ConsumerQuiet

\* What a lookup by the keys finds: the entry with the number of the block, if the header has it.
LEMMA Lookup ==
  ASSUME IndexOK, NEW h \in 1 .. blockIndex, NEW t \in SlotsOf(h), Keyed(EntryAt(h, t)),
         NEW k \in SlotsOf(h), NEW n \in Nat, Number(EntryAt(h, k)) = BlockOf(n)
  PROVE  SlotOf(n, header[h], t) = k /\ EntryOf(n, header[h], t) = EntryAt(h, k)
PROOF
  <1>1. PICK e \in Entries : e = EntryAt(h, t) BY HeaderTyped
  <1>2. PICK x \in Nat : x = Number(e) BY <1>1, NumberTyped DEF IndexOK, Keyed
  <1>3. PICK m \in Nat : m = BlockOf(n) /\ Base(n) = BLOCK_SIZE * m BY BlockOfFacts
  <1>4. entry[e].key = BLOCK_SIZE * x BY <1>1, <1>2 DEF IndexOK, EntryOK, Keyed
  <1>5. Base(n) - entry[e].key = BLOCK_SIZE * (m - x) + 0 /\ m - x \in Int
    <2>1. BLOCK_SIZE \in Nat BY SizeAssumption
    <2>2. BLOCK_SIZE * m - BLOCK_SIZE * x = BLOCK_SIZE * (m - x) + 0 BY <1>2, <1>3, <2>1
    <2> QED BY <1>2, <1>3, <1>4, <2>2
  <1>6. (Base(n) - entry[e].key) \div BLOCK_SIZE = m - x
    <2>1. BLOCK_SIZE \in Nat \ {0} /\ 0 \in Int /\ 0 <= 0 /\ 0 < BLOCK_SIZE BY SizeAssumption
    <2>2. (BLOCK_SIZE * (m - x) + 0) \div BLOCK_SIZE = m - x BY <1>5, <2>1, DivUnique
    <2> QED BY <1>5, <2>2
  <1>7. entry[header[h].slot[t]].key = entry[e].key BY <1>1 DEF EntryAt
  <1>8. SlotOf(n, header[h], t) = (t + (m - x)) % header[h].capacity BY <1>6, <1>7 DEF SlotOf
  <1>9. Number(EntryAt(h, k)) = Number(EntryAt(h, t)) + (m - x)
    <2>1. m = x + (m - x) BY <1>2, <1>3
    <2> QED BY <1>1, <1>2, <1>3, <2>1
  <1>10. Keyed(EntryAt(h, k)) BY <1>3 DEF Keyed
  <1>11. k = (t + (m - x)) % header[h].capacity BY <1>5, <1>9, <1>10, Offset
  <1>12. SlotOf(n, header[h], t) = k BY <1>8, <1>11
  <1> QED BY <1>12 DEF EntryOf, EntryAt

\* What a header shows stays when neither the headers nor the entries change.
LEMMA SeesStill ==
  ASSUME NEW c \in Consumers, NEW h, NEW S, Sees(h, S), my'[c].header = h,
         header' = header, entry' = entry
  PROVE  /\ my'[c].header \in 1 .. blockIndex'
         /\ \A n \in S : \E k \in SlotsOf(my[c].header)' :
              Number(EntryAt(my[c].header, k))' = BlockOf(n)
PROOF
  <1>1. blockIndex' = blockIndex BY DEF blockIndex
  <1>2. SlotsOf(my[c].header)' = SlotsOf(h) BY DEF SlotsOf
  <1>3. \A k : Number(EntryAt(my[c].header, k))' = Number(EntryAt(h, k)) BY DEF EntryAt, Number
  <1> QED BY <1>1, <1>2, <1>3 DEF Sees

\* A consumer that comes nearer to its block.
LEMMA LookQuiet ==
  ASSUME IInv, IndexInv, NEW c \in Consumers, NEW label \in {"slot", "entry", "value", "take"},
         NEW l, pc[c] \in {"header", "slot", "entry", "value"}, OnlyMoves(c), pc'[c] = label,
         my'[c] = l, ProducerWaits, UNCHANGED <<entry, blockVars, headIndex>>,
         l.index = my[c].index, l.want = my[c].want, DOMAIN l = Fields,
         label \in {"slot", "entry"} => Sees(l.header, Uncounted(c)),
         label = "entry" => l.slot \in SlotsOf(l.header) /\ Keyed(EntryAt(l.header, l.slot)),
         label \in {"value", "take"} =>
           l.entry \in Entries /\ Live(l.entry) /\ Number(l.entry) = BlockOf(l.index),
         label = "take" => l.block = entry[l.entry].value,
         label \in {"value", "take"} /\ l.want > Here(c) =>
           /\ Sees(l.header, Rest(c)) /\ l.slot \in SlotsOf(l.header)
           /\ Number(EntryAt(l.header, (l.slot + 1) % header[l.header].capacity)) =
                BlockOf(l.index + Here(c))
  PROVE  IndexInv'
PROOF
  <1>1. Typed /\ Reader(c) /\ headIndex \in Nat BY DEF IInv, Typed, IndexInv, ReadersOK
  <1>2. OnlyMoves(c) /\ pc'[c] = label /\ my'[c] = l OBVIOUS
  <1>3. pc[c] \in Looking /\ label \in Looking BY DEF Looking
  <1>4. Here(c)' = Here(c) BY <1>2 DEF Here
  <1>5. Uncounted(c)' = Uncounted(c) /\ Claimed(c)' = Claimed(c) /\ Rest(c)' = Rest(c)
    BY <1>2, <1>3, <1>4 DEF Uncounted, Claimed, Rest
  <1>6. \A n : (Open(n)' <=> Open(n)) /\ (Stored(n)' <=> Stored(n)) BY <1>2, <1>5, SameSets
  <1>7. \A d \in Consumers : d # c => Uncounted(c)' \cap Uncounted(d) = {}
    BY <1>5 DEF IndexInv, Apart
  <1>8. headIndex' = headIndex /\ headIndex' \in Nat /\ headIndex <= headIndex' BY <1>1
  <1>9. /\ DOMAIN l = Fields /\ l.index \in Nat /\ l.want \in Nat \ {0}
        /\ l.index + l.want <= headIndex
    BY <1>1 DEF Reader, Finding, Looking
  <1>10. header' = header /\ entry' = entry /\ blockIndex' = blockIndex /\ Entries' = Entries
    BY DEF ProducerWaits, blockIndex, Entries
  <1>11. label \in {"slot", "entry"} => Sees(my[c].header, Uncounted(c))'
    <2> SUFFICES ASSUME label \in {"slot", "entry"} PROVE Sees(my[c].header, Uncounted(c))' OBVIOUS
    <2>1. Sees(l.header, Uncounted(c)) /\ my'[c].header = l.header BY <1>2
    <2>2. /\ my'[c].header \in 1 .. blockIndex'
          /\ \A n \in Uncounted(c) : \E k \in SlotsOf(my[c].header)' :
               Number(EntryAt(my[c].header, k))' = BlockOf(n)
      BY <1>10, <2>1, SeesStill
    <2> QED BY <1>5, <2>2 DEF Sees, BlockOf
  <1>12. label = "entry" => /\ my'[c].slot \in SlotsOf(my[c].header)'
                            /\ Keyed(EntryAt(my[c].header, my[c].slot))'
    BY <1>2, <1>10 DEF SlotsOf, EntryAt, Number, Keyed
  <1>13. label \in {"value", "take"} =>
           /\ my'[c].entry \in Entries' /\ Live(my[c].entry)'
           /\ Number(my[c].entry)' = BlockOf(my[c].index)'
    BY <1>2, <1>10 DEF Live, Number, BlockOf
  <1>14. label = "take" => my'[c].block = entry'[my'[c].entry].value BY <1>2, <1>10
  <1>15. label \in {"value", "take"} /\ my'[c].want > Here(c)' => Ready(c)'
    <2> SUFFICES ASSUME label \in {"value", "take"}, my'[c].want > Here(c)' PROVE Ready(c)' OBVIOUS
    <2>1. l.want > Here(c) BY <1>2, <1>4
    <2>2. PICK s : s = (l.slot + 1) % header[l.header].capacity OBVIOUS
    <2>3. /\ Sees(l.header, Rest(c)) /\ l.slot \in SlotsOf(l.header)
          /\ Number(EntryAt(l.header, s)) = BlockOf(l.index + Here(c))
      BY <2>1, <2>2
    <2>4. Sees(my[c].header, Rest(c))' /\ my'[c].slot \in SlotsOf(my[c].header)'
      <3>1. Sees(l.header, Rest(c)) /\ my'[c].header = l.header BY <1>2, <2>3
      <3>2. /\ my'[c].header \in 1 .. blockIndex'
            /\ \A n \in Rest(c) : \E k \in SlotsOf(my[c].header)' :
                 Number(EntryAt(my[c].header, k))' = BlockOf(n)
        BY <1>10, <3>1, SeesStill
      <3>3. Sees(my[c].header, Rest(c))' BY <1>5, <3>2 DEF Sees, BlockOf
      <3>4. my'[c].slot \in SlotsOf(my[c].header)' BY <1>2, <1>10, <2>3 DEF SlotsOf
      <3> QED BY <3>3, <3>4
    <2>5. s = (my'[c].slot + 1) % header'[my'[c].header].capacity BY <1>2, <1>10, <2>2
    <2>6. Number(EntryAt(l.header, s))' = BlockOf(l.index + Here(c))
      BY <1>10, <2>3 DEF EntryAt, Number
    <2>7. BlockOf(my[c].index + Here(c))' = BlockOf(l.index + Here(c)) BY <1>2, <1>4 DEF BlockOf
    <2> QED BY <1>2, <2>4, <2>5, <2>6, <2>7 DEF Ready, EntryAt, Number
  <1>16. Reader(c)' BY <1>2, <1>3, <1>8, <1>9, <1>11, <1>12, <1>13, <1>14, <1>15 DEF Reader
  <1>17. pc[c] \notin {"clear", "free"} /\ pc'[c] \notin {"clear", "free"} BY <1>2
  <1> QED BY <1>2, <1>6, <1>7, <1>8, <1>16, <1>17, ConsumerQuiet

\* What a consumer has claimed and not counted is in blocks that are in the index.
LEMMA UncountedLive ==
  ASSUME IInv, IndexInv, NEW c \in Consumers, NEW n \in Uncounted(c)
  PROVE  /\ n \in Nat /\ BlockOf(n) \in Nat /\ BlockOf(n) <= LastBlock
         /\ \E e \in Entries : Number(e) = BlockOf(n) /\ Live(e)
         /\ \A e \in Entries : Number(e) = BlockOf(n) => Live(e)
PROOF
  <1>1. n \in Nat /\ n < tailIndex BY Intervals DEF IndexInv
  <1>2. BlockOf(n) \in Nat /\ BlockOf(n) <= LastBlock BY <1>1, Counters, BlockOfFacts
  <1>3. Open(n) BY DEF Open
  <1> QED BY <1>1, <1>2, <1>3, OpenBlock DEF IndexInv

\* A consumer loads the header: the blocks of its elements are among its slots.
LEMMA LoadHeaderBlocks == ASSUME IInv, IndexInv, NEW c \in Consumers, LoadHeader(c) PROVE IndexInv'
PROOF
  <1>1. PICK l : l = [my[c] EXCEPT !.header = blockIndex] OBVIOUS
  <1>2. /\ pc[c] = "header" /\ pc' = [pc EXCEPT ![c] = "slot"] /\ my' = [my EXCEPT ![c] = l]
        /\ ProducerWaits /\ UNCHANGED <<entry, blockVars, headIndex>>
    BY <1>1 DEF LoadHeader, Goto, ProducerWaits, producerVars, counters
  <1>3. DOMAIN my[c] = Fields BY <1>2 DEF IndexInv, ReadersOK, Reader, Finding, Looking
  <1>4. DOMAIN l = Fields /\ l.index = my[c].index /\ l.want = my[c].want /\ l.header = blockIndex
    BY <1>1, <1>3 DEF Fields
  <1>5. Sees(blockIndex, Uncounted(c))
    <2>1. blockIndex \in 1 .. blockIndex BY Current DEF IndexInv
    <2>2. ASSUME NEW n \in Uncounted(c)
          PROVE  \E k \in SlotsOf(blockIndex) : Number(EntryAt(blockIndex, k)) = BlockOf(n)
      <3>1. PICK e \in Entries : Number(e) = BlockOf(n) BY UncountedLive
      <3>2. PICK k \in SlotsOf(blockIndex) : EntryAt(blockIndex, k) = e
        BY DEF IndexInv, IndexOK, CurrentOK
      <3> QED BY <3>1, <3>2
    <2> QED BY <2>1, <2>2 DEF Sees
  <1>6. OnlyMoves(c) /\ pc'[c] = "slot" /\ my'[c] = l BY <1>2, Moves DEF IInv
  <1>7. Sees(l.header, Uncounted(c)) BY <1>4, <1>5
  <1> QED BY <1>2, <1>4, <1>6, <1>7, LookQuiet

\* A consumer loads the tail of the header: the slot has a key to reckon from.
LEMMA LoadSlotBlocks == ASSUME IInv, IndexInv, NEW c \in Consumers, LoadSlot(c) PROVE IndexInv'
PROOF
  <1>1. PICK h : h = my[c].header OBVIOUS
  <1>2. PICK t : t = header[h].tail OBVIOUS
  <1>3. PICK l : l = [my[c] EXCEPT !.slot = t] OBVIOUS
  <1>4. /\ pc[c] = "slot" /\ pc' = [pc EXCEPT ![c] = "entry"] /\ my' = [my EXCEPT ![c] = l]
        /\ ProducerWaits /\ UNCHANGED <<entry, blockVars, headIndex>>
    BY <1>1, <1>2, <1>3 DEF LoadSlot, Goto, ProducerWaits, producerVars, counters
  <1>5. Reader(c) /\ IndexOK /\ headIndex \in Nat /\ tailIndex \in Nat
    BY Counters DEF IndexInv, ReadersOK
  <1>6. DOMAIN my[c] = Fields /\ Sees(h, Uncounted(c))
    BY <1>1, <1>4, <1>5 DEF Reader, Finding, Looking
  <1>7. /\ DOMAIN l = Fields /\ l.index = my[c].index /\ l.want = my[c].want /\ l.header = h
        /\ l.slot = t
    BY <1>1, <1>3, <1>6 DEF Fields
  <1>8. h \in 1 .. blockIndex /\ t \in SlotsOf(h) BY <1>2, <1>5, <1>6, HeaderTyped DEF Sees
  <1>9. Keyed(EntryAt(h, t))
    <2>1. CASE h # blockIndex BY <1>5, <1>8, <2>1 DEF IndexOK, HeaderOK
    <2>2. CASE h = blockIndex
      <3>1. EntryAt(h, t) = TailEntry BY <1>2, <2>2 DEF EntryAt, TailEntry
      <3>2. my[c].index \in Uncounted(c)
        <4>1. my[c].index \in Nat /\ my[c].want \in Nat \ {0}
              /\ Uncounted(c) = my[c].index .. (my[c].index + my[c].want - 1)
          BY <1>4, <1>5, Busy DEF Finding, Looking
        <4> QED BY <4>1
      <3>3. BlockOf(my[c].index) \in Nat /\ BlockOf(my[c].index) <= LastBlock
        BY <3>2, UncountedLive
      <3>4. LastBlock \in Int /\ Newest \in Int /\ Newest >= LastBlock BY <1>5, NewestTyped
      <3>5. Newest >= 0 BY <3>3, <3>4
      <3>6. Number(TailEntry) = Newest BY <1>5, <3>5 DEF IndexOK, CurrentOK
      <3> QED BY <3>1, <3>5, <3>6 DEF Keyed
    <2> QED BY <2>1, <2>2
  <1>10. OnlyMoves(c) /\ pc'[c] = "entry" /\ my'[c] = l BY <1>4, Moves DEF IInv
  <1>11. /\ Sees(l.header, Uncounted(c)) /\ l.slot \in SlotsOf(l.header)
         /\ Keyed(EntryAt(l.header, l.slot))
    BY <1>6, <1>7, <1>8, <1>9
  <1> QED BY <1>4, <1>7, <1>10, <1>11, LookQuiet

\* A consumer loads the block of its entry.
LEMMA LoadValueBlocks == ASSUME IInv, IndexInv, NEW c \in Consumers, LoadValue(c) PROVE IndexInv'
PROOF
  <1>1. PICK e : e = my[c].entry OBVIOUS
  <1>2. PICK l : l = [my[c] EXCEPT !.block = entry[e].value] OBVIOUS
  <1>3. /\ pc[c] = "value" /\ pc' = [pc EXCEPT ![c] = "take"] /\ my' = [my EXCEPT ![c] = l]
        /\ ProducerWaits /\ UNCHANGED <<entry, blockVars, headIndex>>
    BY <1>1, <1>2 DEF LoadValue, Goto, ProducerWaits, producerVars, counters
  <1>4. Reader(c) BY DEF IndexInv, ReadersOK
  <1>5. DOMAIN my[c] = Fields BY <1>3, <1>4 DEF Reader, Finding, Looking
  <1>6. /\ DOMAIN l = Fields /\ l.index = my[c].index /\ l.want = my[c].want /\ l.entry = e
        /\ l.header = my[c].header /\ l.slot = my[c].slot /\ l.block = entry[e].value
    BY <1>1, <1>2, <1>5 DEF Fields
  <1>7. /\ e \in Entries /\ Live(e) /\ Number(e) = BlockOf(my[c].index)
        /\ my[c].want > Here(c) => Ready(c)
    BY <1>1, <1>3, <1>4 DEF Reader
  <1>8. OnlyMoves(c) /\ pc'[c] = "take" /\ my'[c] = l BY <1>3, Moves DEF IInv
  <1>9. /\ l.entry \in Entries /\ Live(l.entry) /\ Number(l.entry) = BlockOf(l.index)
        /\ l.block = entry[l.entry].value
    BY <1>6, <1>7
  <1>10. l.want > Here(c) =>
           /\ Sees(l.header, Rest(c)) /\ l.slot \in SlotsOf(l.header)
           /\ Number(EntryAt(l.header, (l.slot + 1) % header[l.header].capacity)) =
                BlockOf(l.index + Here(c))
    BY <1>6, <1>7 DEF Ready
  <1> QED BY <1>3, <1>6, <1>8, <1>9, <1>10, LookQuiet

\* The entry is where its key tells, and the next one in the next slot.
LEMMA FindEntryBlocks == ASSUME IInv, IndexInv, NEW c \in Consumers, FindEntry(c) PROVE IndexInv'
PROOF
  <1> DEFINE i == my[c].index  w == my[c].want
  <1>1. PICK h : h = my[c].header OBVIOUS
  <1>2. PICK t : t = my[c].slot OBVIOUS
  <1>3. pc[c] = "entry" BY DEF FindEntry
  <1>4. Reader(c) /\ IndexOK /\ headIndex \in Nat BY Counters DEF IndexInv, ReadersOK
  <1>5. /\ DOMAIN my[c] = Fields /\ Sees(h, Uncounted(c)) /\ h \in 1 .. blockIndex
        /\ t \in SlotsOf(h) /\ Keyed(EntryAt(h, t))
    BY <1>1, <1>2, <1>3, <1>4 DEF Reader, Finding, Looking, Sees
  <1>6. /\ i \in Nat /\ w \in Nat \ {0} /\ Here(c) \in 1 .. w /\ Here(c) <= BLOCK_SIZE
        /\ BlockOf(i) \in Nat /\ i % BLOCK_SIZE \in Slots
        /\ i = Nth(BlockOf(i), i % BLOCK_SIZE)
        /\ w > Here(c) => (i % BLOCK_SIZE) + Here(c) = BLOCK_SIZE
        /\ Uncounted(c) = i .. (i + w - 1)
    BY <1>3, <1>4, Busy DEF Finding, Looking
  <1> HIDE DEF i, w
  <1>7. i \in Uncounted(c) BY <1>6
  <1>8. PICK k \in SlotsOf(h) : Number(EntryAt(h, k)) = BlockOf(i) BY <1>5, <1>7 DEF Sees
  <1>9. SlotOf(i, header[h], t) = k /\ EntryOf(i, header[h], t) = EntryAt(h, k)
    BY <1>4, <1>5, <1>6, <1>8, Lookup
  <1>10. PICK e \in Entries : e = EntryAt(h, k) BY <1>4, <1>5, HeaderTyped
  <1>11. Live(e) /\ Number(e) = BlockOf(i) BY <1>7, <1>8, <1>10, UncountedLive
  <1>12. PICK l : l = [my[c] EXCEPT !.entry = e, !.header = IF w > Here(c) THEN @ ELSE 0,
                                    !.slot = IF w > Here(c) THEN k ELSE 0]
    OBVIOUS
  <1>13. /\ pc' = [pc EXCEPT ![c] = "value"] /\ my' = [my EXCEPT ![c] = l]
         /\ ProducerWaits /\ UNCHANGED <<entry, blockVars, headIndex>>
    <2>1. my' = [my EXCEPT ![c].entry = EntryOf(i, header[h], t),
                           ![c].header = IF w > Here(c) THEN @ ELSE 0,
                           ![c].slot = IF w > Here(c) THEN SlotOf(i, header[h], @) ELSE 0]
      BY <1>1, <1>2 DEF FindEntry, i, w
    <2>2. SlotOf(i, header[h], my[c].slot) = k BY <1>2, <1>9
    <2>3. my' = [my EXCEPT ![c] = l] BY <1>9, <1>10, <1>12, <2>1, <2>2
    <2> QED BY <2>3 DEF FindEntry, Goto, ProducerWaits, producerVars, counters
  <1>14. /\ DOMAIN l = Fields /\ l.index = i /\ l.want = w /\ l.entry = e
         /\ w > Here(c) => l.header = h /\ l.slot = k
    BY <1>1, <1>5, <1>12 DEF Fields, i, w
  <1>15. w > Here(c) =>
           /\ Sees(h, Rest(c))
           /\ Number(EntryAt(h, (k + 1) % header[h].capacity)) = BlockOf(i + Here(c))
    <2> SUFFICES ASSUME w > Here(c)
                 PROVE  /\ Sees(h, Rest(c))
                        /\ Number(EntryAt(h, (k + 1) % header[h].capacity)) = BlockOf(i + Here(c))
      OBVIOUS
    <2>1. PICK n : n = i + Here(c) OBVIOUS
    <2>2. n \in Uncounted(c) /\ Rest(c) \subseteq Uncounted(c) /\ n \in Nat
      <3>1. Rest(c) = (i + Here(c)) .. (i + w - 1) BY DEF Rest, i, w
      <3> QED BY <1>6, <2>1, <3>1
    <2>3. Sees(h, Rest(c)) BY <1>5, <2>2 DEF Sees
    <2>4. PICK k2 \in SlotsOf(h) : Number(EntryAt(h, k2)) = BlockOf(n) BY <1>5, <2>2 DEF Sees
    <2>5. BlockOf(n) = BlockOf(i) + 1
      <3>1. PICK m \in Nat : m = BlockOf(i) BY <1>6
      <3>2. PICK r : r = i % BLOCK_SIZE OBVIOUS
      <3>3. BLOCK_SIZE \in Nat BY SizeAssumption
      <3>4. r \in Int /\ Here(c) \in Int /\ r + Here(c) = BLOCK_SIZE /\ i = BLOCK_SIZE * m + r
        BY <1>6, <3>1, <3>2, <3>3 DEF Slots, Nth
      <3>5. BLOCK_SIZE * (m + 1) = BLOCK_SIZE * m + BLOCK_SIZE /\ BLOCK_SIZE * m \in Nat
        BY <3>1, <3>3
      <3>6. n = BLOCK_SIZE * (m + 1) /\ m + 1 \in Nat BY <2>1, <3>1, <3>3, <3>4, <3>5
      <3> QED BY <3>1, <3>6, BlockOfMultiple
    <2>6. Keyed(EntryAt(h, k)) /\ Keyed(EntryAt(h, k2)) BY <1>6, <1>8, <2>4, <2>5 DEF Keyed
    <2>7. k2 = (k + 1) % header[h].capacity
      <3>1. Number(EntryAt(h, k2)) = Number(EntryAt(h, k)) + 1 /\ 1 \in Int BY <1>8, <2>4, <2>5
      <3> QED BY <1>4, <1>5, <2>6, <3>1, Offset
    <2> QED BY <2>1, <2>3, <2>4, <2>7
  <1>16. OnlyMoves(c) /\ pc'[c] = "value" /\ my'[c] = l BY <1>13, Moves DEF IInv
  <1>17. l.entry \in Entries /\ Live(l.entry) /\ Number(l.entry) = BlockOf(l.index)
    BY <1>11, <1>14
  <1>18. l.want > Here(c) =>
           /\ Sees(l.header, Rest(c)) /\ l.slot \in SlotsOf(l.header)
           /\ Number(EntryAt(l.header, (l.slot + 1) % header[l.header].capacity)) =
                BlockOf(l.index + Here(c))
    BY <1>5, <1>14, <1>15
  <1>19. l.index = my[c].index /\ l.want = my[c].want BY <1>14 DEF i, w
  <1> QED BY <1>3, <1>13, <1>14, <1>16, <1>17, <1>18, <1>19, LookQuiet

\* The next block of a bulk begins where the last one ends, and is looked up in the next slot.
LEMMA NextReader ==
  ASSUME IInv, IInv', IndexInv, NEW c \in Consumers, pc[c] \in {"set_empty", "free"}, NextBlock(c),
         ProducerWaits, UNCHANGED <<entry, headIndex>>
  PROVE  /\ OnlyMoves(c) /\ pc'[c] \in {"idle", "value"} /\ Reader(c)'
         /\ Uncounted(c)' = Rest(c) /\ Claimed(c)' = Rest(c)
PROOF
  <1> DEFINE i == my[c].index  w == my[c].want
  <1>1. Typed /\ Reader(c) /\ IndexOK /\ headIndex \in Nat
    BY Counters DEF IndexInv, ReadersOK
  <1>2. /\ i \in Nat /\ w \in Nat \ {0} /\ i + w <= headIndex /\ Here(c) \in 1 .. w
        /\ BlockOf(i) \in Nat /\ i % BLOCK_SIZE \in Slots
        /\ i = Nth(BlockOf(i), i % BLOCK_SIZE)
        /\ w > Here(c) => (i % BLOCK_SIZE) + Here(c) = BLOCK_SIZE
        /\ Uncounted(c) = IF pc[c] \in Looking \cup {"set_empty"} THEN i .. (i + w - 1) ELSE Rest(c)
    BY <1>1, Busy DEF Finding, Looking
  <1>3. Rest(c) = (i + Here(c)) .. (i + w - 1) BY DEF Rest
  <1>4. DOMAIN my[c] = Fields BY <1>1 DEF Reader, Finding, Looking
  <1>5. PICK rest : rest = w - Here(c) OBVIOUS
  <1>6. PICK j : j = i + Here(c) OBVIOUS
  <1> HIDE DEF i, w
  <1>7. rest \in Nat /\ j \in Nat /\ Rest(c) = j .. (j + rest - 1) /\ j + rest <= headIndex
    <2>1. PICK h : h = Here(c) OBVIOUS
    <2>2. i \in Nat /\ w \in Nat /\ h \in Nat /\ h <= w /\ i + w <= headIndex BY <1>2, <2>1
    <2>3. rest = w - h /\ j = i + h BY <1>5, <1>6, <2>1
    <2>4. rest \in Nat /\ j \in Nat /\ j + rest = i + w BY <2>2, <2>3
    <2>5. i + w - 1 = j + rest - 1 BY <2>2, <2>4
    <2>6. Rest(c) = j .. (j + rest - 1) BY <1>3, <1>6, <2>5
    <2> QED BY <2>2, <2>4, <2>6
  <1>8. OnlyMoves(c) BY <1>1, NextBlockEffect
  <1>9. CASE rest = 0
    <2>1. pc' = [pc EXCEPT ![c] = "idle"] BY <1>5, <1>9 DEF NextBlock, Goto, w
    <2>2. pc'[c] = "idle" BY <1>1, <2>1 DEF Typed
    <2>3. Uncounted(c)' = {} /\ Claimed(c)' = {} BY <2>2, IdleNext DEF IInv, Counting
    <2>4. Rest(c) = {} BY <1>7, <1>9
    <2>5. Reader(c)' BY <2>2 DEF Reader, Finding, Looking
    <2> QED BY <1>8, <2>2, <2>3, <2>4, <2>5
  <1>10. CASE rest # 0
    <2>1. PICK h : h = my[c].header OBVIOUS
    <2>2. PICK s : s = (my[c].slot + 1) % header[h].capacity OBVIOUS
    <2>3. PICK more \in BOOLEAN : more <=> rest > BLOCK_SIZE OBVIOUS
    <2>4. PICK l : l = [my[c] EXCEPT !.want = rest, !.index = @ + Here(c),
                                     !.entry = header[h].slot[s], !.header = IF more THEN @ ELSE 0,
                                     !.slot = IF more THEN s ELSE 0, !.block = Null]
      OBVIOUS
    <2>5. pc' = [pc EXCEPT ![c] = "value"] /\ my'[c] = l
      <3>1. my' = [my EXCEPT ![c].want = rest, ![c].index = @ + Here(c),
                             ![c].entry = header[h].slot[s],
                             ![c].header = IF more THEN @ ELSE 0,
                             ![c].slot = IF more THEN s ELSE 0, ![c].block = Null]
        BY <1>5, <1>10, <2>1, <2>2, <2>3 DEF NextBlock, w
      <3>2. my' = [my EXCEPT ![c] = l] BY <2>4, <3>1
      <3>3. my'[c] = l BY <1>1, <3>2 DEF Typed
      <3> QED BY <1>5, <1>10, <3>3 DEF NextBlock, Goto, w
    <2>6. pc'[c] = "value" /\ my'[c] = l BY <1>1, <2>5 DEF Typed
    <2>7. /\ DOMAIN l = Fields /\ l.want = rest /\ l.index = j /\ l.entry = EntryAt(h, s)
          /\ more => l.header = h /\ l.slot = s
      BY <1>4, <1>6, <2>1, <2>4 DEF Fields, EntryAt, i
    <2>8. w > Here(c) /\ Ready(c)
      <3>1. w > Here(c) BY <1>2, <1>5, <1>10
      <3> QED BY <1>1, <3>1 DEF Reader, w
    <2>9. /\ h \in 1 .. blockIndex /\ my[c].slot \in SlotsOf(h) /\ Sees(h, Rest(c))
          /\ Number(EntryAt(h, s)) = BlockOf(j)
      BY <1>6, <2>1, <2>2, <2>8 DEF Ready, Sees, i
    <2>10. s \in SlotsOf(h)
      <3>1. header[h].capacity \in Nat \ {0} /\ my[c].slot \in Int BY <1>1, <2>9, HeaderTyped
      <3>2. my[c].slot + 1 \in Int BY <3>1
      <3> QED BY <2>2, <3>1, <3>2, CongruentMod DEF SlotsOf
    <2>11. PICK e \in Entries : e = EntryAt(h, s) BY <1>1, <2>9, <2>10, HeaderTyped
    <2>12. Rest(c) \subseteq Uncounted(c) BY <1>2, <1>3
    <2>13. j \in Rest(c) BY <1>7, <1>10
    <2>14. Live(e) /\ Number(e) = BlockOf(j) /\ BlockOf(j) \in Nat
      BY <2>9, <2>11, <2>12, <2>13, UncountedLive
    <2>15. j % BLOCK_SIZE = 0
      <3>1. PICK m \in Nat : m = BlockOf(i) BY <1>2
      <3>2. PICK r : r = i % BLOCK_SIZE OBVIOUS
      <3>3. BLOCK_SIZE \in Nat BY SizeAssumption
      <3>4. r \in Int /\ Here(c) \in Int /\ r + Here(c) = BLOCK_SIZE /\ i = BLOCK_SIZE * m + r
        BY <1>2, <2>8, <3>1, <3>2, <3>3 DEF Slots, Nth
      <3>5. BLOCK_SIZE * (m + 1) = BLOCK_SIZE * m + BLOCK_SIZE /\ BLOCK_SIZE * m \in Nat
        BY <3>1, <3>3
      <3>6. j = BLOCK_SIZE * (m + 1) /\ m + 1 \in Nat BY <1>6, <3>1, <3>3, <3>4, <3>5
      <3> QED BY <3>6, BlockOfMultiple
    <2>16. Here(c)' = LeastOf(rest, BLOCK_SIZE)
      <3>1. BLOCK_SIZE - 0 = BLOCK_SIZE BY SizeAssumption
      <3> QED BY <2>6, <2>7, <2>15, <3>1 DEF Here
    <2>17. rest > Here(c)' => more /\ Here(c)' = BLOCK_SIZE
      <3>1. BLOCK_SIZE \in Nat BY SizeAssumption
      <3>2. Here(c)' = IF rest < BLOCK_SIZE THEN rest ELSE BLOCK_SIZE BY <2>16 DEF LeastOf
      <3>3. rest > Here(c)' => rest > BLOCK_SIZE /\ Here(c)' = BLOCK_SIZE BY <1>7, <3>1, <3>2
      <3> QED BY <2>3, <3>3
    <2>18. Uncounted(c)' = Rest(c) /\ Claimed(c)' = Rest(c)
      BY <1>7, <2>6, <2>7 DEF Uncounted, Claimed, Looking
    <2>19. header' = header /\ entry' = entry /\ blockIndex' = blockIndex /\ Entries' = Entries
      BY DEF ProducerWaits, blockIndex, Entries
    <2>20. rest > Here(c)' => Ready(c)'
      <3> SUFFICES ASSUME rest > Here(c)' PROVE Ready(c)' OBVIOUS
      <3>1. l.header = h /\ l.slot = s /\ Here(c)' = BLOCK_SIZE BY <2>7, <2>17
      <3>2. PICK n : n = j + BLOCK_SIZE OBVIOUS
      <3>3. Rest(c)' = n .. (j + rest - 1) BY <2>6, <2>7, <3>1, <3>2 DEF Rest
      <3>4. n \in Rest(c) /\ Rest(c)' \subseteq Rest(c)
        <4>1. BLOCK_SIZE \in Nat \ {0} /\ rest > BLOCK_SIZE BY <3>1, SizeAssumption
        <4> QED BY <1>7, <3>2, <3>3, <4>1
      <3>5. Sees(h, Rest(c)') BY <2>9, <3>4 DEF Sees
      <3>6. Sees(my[c].header, Rest(c))'
        BY <2>6, <2>19, <3>1, <3>5 DEF Sees, SlotsOf, EntryAt, Number
      <3>7. PICK k \in SlotsOf(h) : Number(EntryAt(h, k)) = BlockOf(n) BY <2>9, <3>4 DEF Sees
      <3>8. BlockOf(n) = BlockOf(j) + 1
        <4>1. PICK m \in Nat : m = BlockOf(j) BY <2>14
        <4>2. BLOCK_SIZE \in Nat BY SizeAssumption
        <4>3. j = BLOCK_SIZE * m BY <1>7, <2>15, <4>1, BlockOfOrder
        <4>4. BLOCK_SIZE * (m + 1) = BLOCK_SIZE * m + BLOCK_SIZE BY <4>1, <4>2
        <4>5. n = BLOCK_SIZE * (m + 1) /\ m + 1 \in Nat BY <3>2, <4>1, <4>3, <4>4
        <4> QED BY <4>1, <4>5, BlockOfMultiple
      <3>9. Keyed(EntryAt(h, s)) /\ Keyed(EntryAt(h, k)) BY <2>9, <2>14, <3>7, <3>8 DEF Keyed
      <3>10. k = (s + 1) % header[h].capacity
        <4>1. Number(EntryAt(h, k)) = Number(EntryAt(h, s)) + 1 /\ 1 \in Int BY <2>9, <3>7, <3>8
        <4> QED BY <1>1, <2>9, <2>10, <3>9, <4>1, Offset
      <3>11. /\ my'[c].slot \in SlotsOf(my[c].header)'
             /\ Number(EntryAt(my[c].header, (my[c].slot + 1) % header[my[c].header].capacity))'
                  = BlockOf(n)
        BY <2>6, <2>10, <2>19, <3>1, <3>7, <3>10 DEF SlotsOf, EntryAt, Number
      <3>12. BlockOf(my[c].index + Here(c))' = BlockOf(n) BY <2>6, <2>7, <3>1, <3>2 DEF BlockOf
      <3> QED BY <3>6, <3>11, <3>12 DEF Ready
    <2>21. /\ my'[c].entry \in Entries' /\ Live(my[c].entry)'
           /\ Number(my[c].entry)' = BlockOf(my[c].index)'
      BY <2>6, <2>7, <2>11, <2>14, <2>19 DEF Live, Number, BlockOf
    <2>22. Reader(c)' BY <1>7, <1>10, <2>6, <2>7, <2>20, <2>21 DEF Reader
    <2> QED BY <1>8, <2>6, <2>18, <2>22
  <1> QED BY <1>9, <1>10

\* The block of a cleared entry is free again.
LEMMA FreeBlockBlocks == ASSUME IInv, IInv', IndexInv, NEW c \in Consumers, FreeBlock(c) PROVE IndexInv'
PROOF
  <1>1. PICK b : b = my[c].block OBVIOUS
  <1>2. /\ pc[c] = "free" /\ freeList' = freeList \cup {b} /\ NextBlock(c) /\ ProducerWaits
        /\ UNCHANGED <<tailIndex, headIndex, entry, header, elements, dequeued, unused, tailBlock,
                       noexcept, at, newBlock>>
    BY <1>1 DEF FreeBlock, ProducerWaits, producerVars, counters
  <1>3. IndexOK /\ ContentsOK /\ KeptOK /\ ReadersOK /\ Apart BY DEF IndexInv
  <1>4. b \in Blocks /\ Held(b) /\ headIndex \in Nat
    BY <1>1, <1>2, <1>3, Counters DEF ReadersOK, Reader, Held
  <1>5. /\ OnlyMoves(c) /\ pc'[c] \in {"idle", "value"} /\ Reader(c)'
        /\ Uncounted(c)' = Rest(c) /\ Claimed(c)' = Rest(c)
    BY <1>2, NextReader
  <1>6. Uncounted(c) = Rest(c) /\ Claimed(c) = Rest(c)
    BY <1>2, <1>3, <1>4, Busy DEF ReadersOK, Finding, Looking
  <1>7. \A n : (Open(n)' <=> Open(n)) /\ (Stored(n)' <=> Stored(n))
    BY <1>2, <1>5, <1>6, SameSets
  <1>8. IndexOK' /\ LastBlock' = LastBlock BY <1>2, <1>3, IndexWaits
  <1>9. IndexKept /\ LiveKept /\ Entries' = Entries BY <1>2, <1>3, SameIndex
  <1>10. \A d \in Consumers : d # c =>
           /\ Reader(d)' /\ Uncounted(d)' = Uncounted(d)
           /\ pc'[d] = pc[d] /\ my'[d] = my[d]
    <2>1. headIndex' \in Nat /\ headIndex <= headIndex' BY <1>2, <1>4
    <2> QED BY <1>2, <1>5, <1>9, <2>1, Others
  <1>11. ContentsOK'
    <2>1. \A d \in Consumers : pc[d] = "clear" => pc'[d] = "clear" /\ my'[d].entry = my[d].entry
      BY <1>2, <1>10
    <2> QED BY <1>2, <1>3, <1>7, <1>8, <1>9, <2>1, QuietContents
  <1>12. KeptOK'
    <2>1. ASSUME NEW x \in Blocks PROVE Held(x)' <=> Held(x) /\ x # b
      <3>1. \A d \in Consumers : d # c /\ pc[d] = "free" => my[d].block # b
        BY <1>1, <1>2, <1>3 DEF Apart
      <3> QED BY <1>1, <1>2, <1>5, <1>10, <3>1 DEF Held
    <2>2. \A x \in Blocks : InIndex(x)' <=> InIndex(x) BY <1>3, <1>9, IndexBlocks
    <2>3. ASSUME NEW x \in Blocks PROVE Once(x)'
      <3>1. Once(x) BY <1>3 DEF KeptOK
      <3>2. CASE x = b BY <1>2, <1>4, <2>1, <2>2, <3>1, <3>2 DEF Once
      <3>3. CASE x # b
        <4>1. x \in freeList' <=> x \in freeList BY <1>2, <3>3
        <4> QED BY <1>2, <2>1, <2>2, <3>1, <3>3, <4>1 DEF Once
      <3> QED BY <3>2, <3>3
    <2>4. ASSUME NEW x \in Blocks, x \in unused' \/ x \in freeList' \/ Held(x)' PROVE Blank(x)'
      <3>1. Blank(x) BY <1>2, <1>3, <1>4, <2>1, <2>4 DEF KeptOK
      <3> QED BY <1>2, <3>1 DEF Blank
    <2>5. \A e, f \in Entries' : Live(e)' /\ entry'[e].value = entry'[f].value => e = f
      BY <1>3, <1>9, IndexBlocks
    <2>6. freeList' \subseteq Blocks BY <1>2, <1>3, <1>4 DEF KeptOK
    <2> QED BY <1>2, <1>3, <2>3, <2>4, <2>5, <2>6 DEF KeptOK
  <1>13. ReadersOK' BY <1>5, <1>10 DEF ReadersOK
  <1>14. Apart'
    <2> SUFFICES ASSUME NEW x \in Consumers, NEW y \in Consumers, x # y
                 PROVE  /\ Uncounted(x)' \cap Uncounted(y)' = {}
                        /\ pc'[x] \in {"clear", "free"} /\ pc'[y] \in {"clear", "free"} =>
                             my'[x].block # my'[y].block
      BY DEF Apart
    <2>1. /\ Uncounted(x)' = Uncounted(x) /\ Uncounted(y)' = Uncounted(y)
      BY <1>5, <1>6, <1>10
    <2>2. CASE x = c BY <1>3, <1>5, <2>1, <2>2 DEF Apart
    <2>3. CASE y = c BY <1>3, <1>5, <2>1, <2>3 DEF Apart
    <2>4. CASE x # c /\ y # c BY <1>3, <1>10, <2>1, <2>4 DEF Apart
    <2> QED BY <2>2, <2>3, <2>4
  <1> QED BY <1>8, <1>11, <1>12, <1>13, <1>14 DEF IndexInv

\* The elements that a consumer takes from the block it has come to, and what others have there.
Taken(c) == my[c].index .. (my[c].index + Here(c) - 1)

\* The elements that a consumer takes are in its block, and nobody else's.
LEMMA TakenFacts ==
  ASSUME IInv, IndexInv, NEW c \in Consumers, pc[c] \in {"take", "set_empty"}
  PROVE  /\ my[c].entry \in Entries /\ Live(my[c].entry)
         /\ my[c].block = entry[my[c].entry].value /\ my[c].block \in Blocks
         /\ Number(my[c].entry) = BlockOf(my[c].index) /\ BlockOf(my[c].index) \in Nat
         /\ Here(c) \in Nat \ {0} /\ my[c].index % BLOCK_SIZE \in Slots
         /\ (my[c].index % BLOCK_SIZE) + Here(c) <= BLOCK_SIZE
         /\ \A n : n \in Uncounted(c) <=> n \in Taken(c) \/ n \in Rest(c)
         /\ \A n \in Taken(c) : /\ n \in Nat /\ n < headIndex /\ n < tailIndex
                                /\ n \notin Rest(c) /\ BlockOf(n) = BlockOf(my[c].index)
                                /\ \A d \in Consumers : d # c => n \notin Uncounted(d)
         /\ \A k \in Slots :
              k \in (my[c].index % BLOCK_SIZE) .. ((my[c].index % BLOCK_SIZE) + Here(c) - 1)
                <=> Nth(BlockOf(my[c].index), k) \in Taken(c)
PROOF
  <1> DEFINE i == my[c].index  w == my[c].want
  <1>1. PICK r : r = i % BLOCK_SIZE OBVIOUS
  <1>2. PICK m : m = BlockOf(i) OBVIOUS
  <1>3. PICK h : h = Here(c) OBVIOUS
  <1>4. IndexOK /\ ReadersOK /\ Reader(c) /\ Apart /\ headIndex \in Nat /\ tailIndex \in Nat
        /\ headIndex <= tailIndex
    BY Counters DEF IndexInv, ReadersOK
  <1>5. /\ my[c].entry \in Entries /\ Live(my[c].entry) /\ Number(my[c].entry) = BlockOf(i)
        /\ my[c].block = entry[my[c].entry].value /\ my[c].block \in Blocks
    BY <1>4 DEF Reader, Live
  <1>6. /\ i \in Nat /\ w \in Nat \ {0} /\ i + w <= headIndex /\ h \in 1 .. w
        /\ h \in Nat \ {0} /\ m \in Nat /\ r \in Slots /\ i = Nth(m, r) /\ r + h <= BLOCK_SIZE
        /\ Uncounted(c) = i .. (i + w - 1)
    BY <1>1, <1>2, <1>3, <1>4, Busy DEF Finding, Looking
  <1>7. Rest(c) = (i + h) .. (i + w - 1) /\ Taken(c) = i .. (i + h - 1)
    BY <1>3 DEF Rest, Taken
  <1> HIDE DEF i, w
  <1>8. \A n : n \in i .. (i + w - 1) <=> n \in i .. (i + h - 1) \/ n \in (i + h) .. (i + w - 1)
    BY <1>6
  <1>9. BLOCK_SIZE \in Nat /\ BLOCK_SIZE * m \in Nat /\ r \in 0 .. BLOCK_SIZE - 1
        /\ i = BLOCK_SIZE * m + r
    BY <1>6, SizeAssumption, BlockOfMultiple DEF Slots, Nth
  <1>10. ASSUME NEW n \in Taken(c)
         PROVE  /\ n \in Nat /\ n < headIndex /\ n < tailIndex /\ n \notin Rest(c)
                /\ BlockOf(n) = m /\ \A d \in Consumers : d # c => n \notin Uncounted(d)
    <2>1. n \in Nat /\ i <= n /\ n < i + h BY <1>6, <1>7
    <2>2. n < headIndex /\ n < tailIndex /\ n \notin Rest(c)
      <3>1. /\ i \in Nat /\ w \in Nat /\ h \in Nat /\ h <= w /\ i + w <= headIndex
            /\ headIndex \in Nat /\ tailIndex \in Nat /\ headIndex <= tailIndex
        BY <1>4, <1>6
      <3>2. n < headIndex /\ n < tailIndex BY <2>1, <3>1
      <3>3. n \notin (i + h) .. (i + w - 1) BY <2>1, <3>1
      <3> QED BY <1>7, <3>2, <3>3
    <2>3. BlockOf(n) = m
      <3>1. PICK b : b = BLOCK_SIZE * m OBVIOUS
      <3>2. PICK s : s = n - b OBVIOUS
      <3>3. s \in 0 .. BLOCK_SIZE - 1 /\ n = b + s BY <1>6, <1>9, <2>1, <3>1, <3>2
      <3> QED BY <1>6, <3>1, <3>3, BlockOfMultiple
    <2>4. n \in Uncounted(c) BY <1>6, <1>7, <1>8
    <2> QED BY <1>4, <2>1, <2>2, <2>3, <2>4 DEF Apart
  <1>11. ASSUME NEW k \in Slots PROVE k \in r .. (r + h - 1) <=> Nth(m, k) \in Taken(c)
    <2>1. PICK b : b = BLOCK_SIZE * m OBVIOUS
    <2>2. k \in Int /\ Nth(m, k) = b + k /\ i = b + r /\ b \in Nat /\ r \in Int /\ h \in Nat
      BY <1>6, <1>9, <2>1 DEF Nth, Slots
    <2> QED BY <1>7, <2>2
  <1> QED BY <1>1, <1>2, <1>3, <1>5, <1>6, <1>7, <1>8, <1>10, <1>11 DEF i

\* The elements are moved out: the slots are empty, as many as there were.
LEMMA TakeBlocks == ASSUME IInv, IndexInv, at # "destroyed", NEW c \in Consumers, Take(c) PROVE IndexInv'
PROOF
  <1>1. PICK b : b = my[c].block OBVIOUS
  <1>2. PICK r : r = my[c].index % BLOCK_SIZE OBVIOUS
  <1>3. PICK h : h = Here(c) OBVIOUS
  <1>4. PICK E : E = my[c].entry OBVIOUS
  <1>5. PICK x : x = BlockOf(my[c].index) OBVIOUS
  <1>6. /\ pc[c] = "take" /\ pc' = [pc EXCEPT ![c] = "set_empty"] /\ my' = my /\ ProducerWaits
        /\ elements' = [elements EXCEPT ![b] =
                          [k \in Slots |-> IF k \in r .. (r + h - 1) THEN Null ELSE @[k]]]
        /\ UNCHANGED <<tailIndex, headIndex, entry, header, dequeued, freeList, unused, tailBlock,
                       noexcept, at, newBlock>>
    BY <1>1, <1>2, <1>3 DEF Take, Goto, ProducerWaits, producerVars, counters
  <1>7. /\ Typed /\ IndexOK /\ ContentsOK /\ KeptOK /\ ReadersOK /\ Apart
        /\ headIndex \in Nat /\ tailIndex \in Nat /\ headIndex <= tailIndex
    BY Counters DEF IndexInv
  <1>8. /\ E \in Entries /\ Live(E) /\ b = entry[E].value /\ b \in Blocks
        /\ Number(E) = x /\ x \in Nat
        /\ \A n : n \in Uncounted(c) <=> n \in Taken(c) \/ n \in Rest(c)
        /\ \A n \in Taken(c) : /\ n \in Nat /\ n < headIndex /\ n < tailIndex /\ n \notin Rest(c)
                               /\ BlockOf(n) = x
                               /\ \A d \in Consumers : d # c => n \notin Uncounted(d)
        /\ \A k \in Slots : k \in r .. (r + h - 1) <=> Nth(x, k) \in Taken(c)
    BY <1>1, <1>2, <1>3, <1>4, <1>5, <1>6, TakenFacts
  <1>9. /\ elements' = [v \in Blocks |-> [k \in Slots |-> elements'[v][k]]]
        /\ \A v \in Blocks : v # b => elements'[v] = elements[v]
        /\ \A k \in Slots : elements'[b][k] =
                              IF Nth(x, k) \in Taken(c) THEN Null ELSE elements[b][k]
    <2>1. elements = [v \in Blocks |-> [k \in Slots |-> elements[v][k]]] BY <1>7 DEF KeptOK
    <2>2. elements' = [v \in Blocks |-> [k \in Slots |-> elements'[v][k]]]
      BY <1>6, <1>8, <2>1
    <2>3. \A v \in Blocks : v # b => elements'[v] = elements[v] BY <1>6, <2>1
    <2>4. elements'[b] = [k \in Slots |-> IF k \in r .. (r + h - 1) THEN Null ELSE elements[b][k]]
      BY <1>6, <1>8, <2>1
    <2> QED BY <1>8, <2>2, <2>3, <2>4
  <1>10. IndexOK' /\ LastBlock' = LastBlock BY <1>6, <1>7, IndexWaits
  <1>11. IndexKept /\ LiveKept /\ Entries' = Entries /\ \A e : Number(e)' = Number(e)
    BY <1>6, <1>7, SameIndex
  <1>12. OnlyMoves(c) /\ pc'[c] = "set_empty" BY <1>6, <1>7 DEF Typed, OnlyMoves
  <1>13. \A d \in Consumers : d # c =>
           /\ Reader(d)' /\ Uncounted(d)' = Uncounted(d) /\ Claimed(d)' = Claimed(d)
           /\ pc'[d] = pc[d] /\ my'[d] = my[d]
    <2>1. headIndex' \in Nat /\ headIndex <= headIndex' BY <1>6, <1>7
    <2> QED BY <1>6, <1>11, <1>12, <2>1, Others
  <1>14. /\ Uncounted(c)' = Uncounted(c) /\ Claimed(c)' = Rest(c)
         /\ Claimed(c) = Uncounted(c) /\ Here(c)' = Here(c) /\ Rest(c)' = Rest(c)
    BY <1>6, <1>12 DEF Uncounted, Claimed, Here, Rest, Looking
  <1>15. ASSUME NEW n \in Nat
         PROVE  /\ Open(n)' <=> Open(n)
                /\ Stored(n)' <=> Stored(n) /\ n \notin Taken(c)
    <2>1. Open(n)' <=> Open(n) BY <1>6, <1>13, <1>14 DEF Open
    <2>2. n \in Alive <=> n \in headIndex .. (tailIndex - 1) \/ \E d \in Consumers : n \in Claimed(d)
      BY DEF Alive
    <2>3. n \in Alive' <=> n \in headIndex .. (tailIndex - 1) \/ \E d \in Consumers : n \in Claimed(d)'
      BY <1>6 DEF Alive
    <2>4. CASE n \in Taken(c)
      <3>1. n \notin headIndex .. (tailIndex - 1) /\ n # tailIndex BY <1>7, <1>8, <2>4
      <3>2. \A d \in Consumers : d # c => n \notin Claimed(d) BY <1>7, <1>8, <2>4, Intervals
      <3>3. \A d \in Consumers : n \notin Claimed(d)' BY <1>8, <1>13, <1>14, <2>4, <3>2
      <3> QED BY <1>6, <2>1, <2>3, <2>4, <3>1, <3>3 DEF Stored
    <2>5. CASE n \notin Taken(c)
      <3>1. n \in Claimed(c)' <=> n \in Claimed(c) BY <1>8, <1>14, <2>5
      <3>2. n \in Alive' <=> n \in Alive BY <1>13, <2>2, <2>3, <3>1
      <3> QED BY <1>6, <2>1, <2>5, <3>2 DEF Stored
    <2> QED BY <2>4, <2>5
  <1>16. ASSUME NEW e \in Entries, Live(e) PROVE ContentOK(e)'
    <2>1. ContentOK(e) /\ Number(e) \in Nat BY <1>7, <1>16, LiveNumber DEF ContentsOK
    <2>2. PICK m \in Nat : m = Number(e) BY <2>1
    <2>3. Number(e)' = m /\ entry'[e].value = entry[e].value BY <1>6, <1>11, <2>2
    <2>4. CASE e = E
      <3>1. OpenIn(x)' = OpenIn(x) BY <1>8, <1>15, NthTyped DEF OpenIn, Nth
      <3>2. m = x BY <1>8, <2>2, <2>4
      <3>3. OpenIn(Number(e))' = OpenIn(x) BY <2>3, <3>1, <3>2 DEF OpenIn
      <3>4. ASSUME NEW k \in Slots
            PROVE  elements'[entry'[e].value][k] =
                     IF Stored(Nth(Number(e), k))' THEN Nth(Number(e), k)' ELSE Null
        <4>1. PICK n \in Nat : n = Nth(x, k) BY <1>8, NthTyped
        <4>2. Nth(Number(e), k)' = n BY <2>3, <3>2, <4>1 DEF Nth
        <4>3. Stored(Nth(Number(e), k))' <=> Stored(n)' BY <4>2 DEF Stored, Alive
        <4>4. elements[b][k] = IF Stored(n) THEN n ELSE Null
          BY <1>8, <1>16, <2>1, <2>4, <4>1 DEF ContentOK
        <4>5. elements'[b][k] = IF n \in Taken(c) THEN Null ELSE elements[b][k] BY <1>9, <4>1
        <4> QED BY <1>8, <1>15, <2>3, <2>4, <4>2, <4>3, <4>4, <4>5
      <3>5. \A d \in Consumers : pc[d] = "clear" => pc'[d] = "clear" /\ my'[d].entry = my[d].entry
        BY <1>6, <1>13
      <3> QED BY <1>6, <1>8, <1>16, <2>1, <2>3, <2>4, <3>3, <3>4, <3>5 DEF ContentOK
    <2>5. CASE e # E
      <3>1. m # x BY <1>7, <1>8, <1>16, <2>2, <2>5, SameNumber, LiveNumber
      <3>2. entry[e].value # b /\ entry[e].value \in Blocks
        BY <1>7, <1>8, <1>16, <2>5 DEF KeptOK, Live
      <3>3. \A k \in Slots : /\ Open(Nth(m, k))' <=> Open(Nth(m, k))
                             /\ Stored(Nth(m, k))' <=> Stored(Nth(m, k))
        <4> SUFFICES ASSUME NEW k \in Slots
                     PROVE  /\ Open(Nth(m, k))' <=> Open(Nth(m, k))
                            /\ Stored(Nth(m, k))' <=> Stored(Nth(m, k))
          OBVIOUS
        <4>1. PICK n \in Nat : n = Nth(m, k) /\ BlockOf(n) = m BY NthTyped
        <4>2. n \notin Taken(c) BY <1>8, <3>1, <4>1
        <4>3. (Open(n)' <=> Open(n)) /\ (Stored(n)' <=> Stored(n)) BY <1>15, <4>2
        <4> QED BY <4>1, <4>3 DEF Nth
      <3>4. \A d \in Consumers : pc[d] = "clear" => pc'[d] = "clear" /\ my'[d].entry = my[d].entry
        BY <1>6, <1>13
      <3> QED BY <1>6, <1>9, <1>16, <2>1, <2>2, <2>3, <3>2, <3>3, <3>4, ContentFrame
    <2> QED BY <2>4, <2>5
  <1>17. ContentsOK'
    <2>1. \A e \in Entries' : Live(e)' => e \in Entries /\ Live(e) /\ Number(e)' = Number(e)
                                          /\ entry'[e].value = entry[e].value
      BY <1>11 DEF LiveKept
    <2>2. \A e \in Entries' : ContentOK(e)' BY <1>16, <2>1 DEF ContentOK
    <2>3. ASSUME NEW m \in Nat, m <= LastBlock', OpenIn(m)' # {}
          PROVE  \E e \in Entries' : Number(e)' = m /\ Live(e)'
      <3>1. OpenIn(m)' = OpenIn(m) BY <1>15, NthTyped DEF OpenIn, Nth
      <3>2. PICK e \in Entries : Number(e) = m /\ Live(e) BY <1>7, <1>10, <2>3, <3>1 DEF ContentsOK
      <3> QED BY <1>6, <1>11, <3>2 DEF LiveKept, Live
    <2>4. ASSUME NEW e \in Entries', Live(e)', Number(e)' = LastBlock'
          PROVE  entry'[e].value = tailBlock'
      BY <1>6, <1>7, <1>10, <2>1, <2>4 DEF ContentsOK
    <2> QED BY <2>2, <2>3, <2>4 DEF ContentsOK
  <1>18. KeptOK'
    <2>1. ASSUME NEW v \in Blocks PROVE (Held(v)' <=> Held(v)) /\ (InIndex(v)' <=> InIndex(v))
      <3>1. Held(v)' <=> Held(v) BY <1>6, <1>12, <1>13 DEF Held
      <3> QED BY <1>7, <1>11, <3>1, IndexBlocks
    <2>2. InIndex(b) BY <1>8 DEF InIndex
    <2>3. ASSUME NEW v \in Blocks PROVE Once(v)'
      <3>1. Once(v) BY <1>7 DEF KeptOK
      <3> QED BY <1>6, <2>1, <3>1 DEF Once
    <2>4. ASSUME NEW v \in Blocks, v \in unused' \/ v \in freeList' \/ Held(v)' PROVE Blank(v)'
      <3>1. Blank(v) /\ Once(v) BY <1>6, <1>7, <2>1, <2>4 DEF KeptOK
      <3>2. v # b BY <1>6, <2>1, <2>2, <2>4, <3>1 DEF Once
      <3> QED BY <1>9, <3>1, <3>2 DEF Blank
    <2>5. \A e, f \in Entries' : Live(e)' /\ entry'[e].value = entry'[f].value => e = f
      BY <1>7, <1>11, IndexBlocks
    <2>6. newBlock # Null => newBlock # b /\ newBlock \in Blocks
      <3>1. Once(b) BY <1>7, <1>8 DEF KeptOK
      <3> QED BY <1>7, <2>2, <3>1 DEF KeptOK, Once
    <2>7. newBlock # Null => elements'[newBlock] = elements[newBlock] BY <1>9, <2>6
    <2> QED BY <1>6, <1>7, <1>9, <2>3, <2>4, <2>5, <2>7 DEF KeptOK
  <1>19. Reader(c)'
    <2>1. Reader(c) BY <1>7 DEF ReadersOK
    <2>2. DOMAIN my[c] = Fields /\ my[c].index \in Nat /\ my[c].want \in Nat \ {0}
          /\ my[c].index + my[c].want <= headIndex
      BY <1>6, <2>1 DEF Reader, Finding, Looking
    <2>3. /\ my'[c].entry \in Entries' /\ Live(my[c].entry)' /\ my'[c].block = entry'[my'[c].entry].value
          /\ Number(my[c].entry)' = BlockOf(my[c].index)'
      BY <1>1, <1>4, <1>5, <1>6, <1>8, <1>11 DEF Live, Number, BlockOf
    <2>4. my'[c].want > Here(c)' => Ready(c)'
      <3>1. blockIndex' = blockIndex BY <1>6 DEF blockIndex
      <3>2. my[c].want > Here(c) => Ready(c) BY <1>6, <2>1 DEF Reader
      <3> QED BY <1>6, <1>14, <3>1, <3>2 DEF Ready, Sees, SlotsOf, EntryAt, Number, BlockOf
    <2> QED BY <1>6, <1>12, <2>2, <2>3, <2>4 DEF Reader
  <1>20. ReadersOK' BY <1>13, <1>19 DEF ReadersOK
  <1>21. Apart'
    <2>1. \A d \in Consumers : Uncounted(d)' = Uncounted(d) /\ my'[d] = my[d] BY <1>6, <1>13, <1>14
    <2>2. \A d \in Consumers : pc'[d] \in {"clear", "free"} => pc[d] \in {"clear", "free"}
      BY <1>12, <1>13
    <2> QED BY <1>7, <2>1, <2>2 DEF Apart
  <1> QED BY <1>10, <1>17, <1>18, <1>20, <1>21 DEF IndexInv

\* A part of a block less.
LEMMA FewerSlots ==
  ASSUME NEW S, S \subseteq Slots, NEW r \in Slots, NEW h \in Nat \ {0}, r .. (r + h - 1) \subseteq S
  PROVE  /\ IsFiniteSet(S) /\ Cardinality(S) \in Nat
         /\ Cardinality(S \ (r .. (r + h - 1))) = Cardinality(S) - h
PROOF
  <1>1. r \in Int /\ BLOCK_SIZE \in Nat /\ r + h - 1 \in Int /\ ~(r > r + h - 1)
    BY SizeAssumption DEF Slots
  <1>2. IsFiniteSet(Slots) BY <1>1, FS_Interval DEF Slots
  <1>3. IsFiniteSet(S) BY <1>2, FS_Subset
  <1>4. Cardinality(S) \in Nat BY <1>3, FS_CardinalityType
  <1>5. Cardinality(r .. (r + h - 1)) = h
    <2>1. Cardinality(r .. (r + h - 1)) = (r + h - 1) - r + 1 BY <1>1, FS_Interval
    <2> QED BY <1>1, <2>1
  <1>6. S \cap (r .. (r + h - 1)) = r .. (r + h - 1) OBVIOUS
  <1>7. Cardinality(S \ (r .. (r + h - 1))) = Cardinality(S) - Cardinality(S \cap (r .. (r + h - 1)))
    BY <1>3, FS_Difference
  <1> QED BY <1>3, <1>4, <1>5, <1>6, <1>7

\* A consumer that clears an entry has counted all its elements; one that counts has not.
LEMMA NotCleared ==
  ASSUME IInv, IndexInv, NEW c \in Consumers, pc[c] = "set_empty",
         NEW d \in Consumers, d # c, pc[d] \in {"clear", "free"}
  PROVE  my[d].block # my[c].block
PROOF
  <1>1. PICK b : b = my[c].block OBVIOUS
  <1>2. PICK E : E = my[c].entry OBVIOUS
  <1>3. PICK x : x = BlockOf(my[c].index) OBVIOUS
  <1>4. PICK r \in Slots : r = my[c].index % BLOCK_SIZE BY TakenFacts
  <1>5. PICK h \in Nat \ {0} : h = Here(c) BY TakenFacts
  <1>6. IndexOK /\ ContentsOK /\ KeptOK /\ ReadersOK /\ Reader(d) BY DEF IndexInv, ReadersOK
  <1>7. /\ E \in Entries /\ Live(E) /\ b = entry[E].value /\ b \in Blocks /\ Number(E) = x
        /\ \A n : n \in Uncounted(c) <=> n \in Taken(c) \/ n \in Rest(c)
        /\ \A k \in Slots : k \in r .. (r + h - 1) <=> Nth(x, k) \in Taken(c)
    BY <1>1, <1>2, <1>3, <1>4, <1>5, TakenFacts
  <1>8. SUFFICES ASSUME my[d].block = b PROVE FALSE BY <1>1
  <1>9. InIndex(b) /\ Once(b) BY <1>6, <1>7 DEF InIndex, KeptOK
  <1>10. CASE pc[d] = "free" BY <1>8, <1>9, <1>10 DEF Held, Once
  <1>11. CASE pc[d] = "clear"
    <2>1. /\ my[d].entry \in Entries /\ Live(my[d].entry) /\ b = entry[my[d].entry].value
          /\ dequeued[b] = BLOCK_SIZE
      BY <1>6, <1>8, <1>11 DEF Reader
    <2>2. dequeued[b] + Cardinality(OpenIn(x)) = BLOCK_SIZE
      BY <1>6, <1>7 DEF ContentsOK, ContentOK
    <2>3. r \in r .. (r + h - 1)
      <3>1. r \in Int BY SizeAssumption DEF Slots
      <3> QED BY <3>1
    <2>4. r \in OpenIn(x) BY <1>4, <1>7, <2>3 DEF OpenIn, Open
    <2>5. OpenIn(x) \subseteq Slots BY DEF OpenIn
    <2>6. IsFiniteSet(OpenIn(x)) /\ Cardinality(OpenIn(x)) \in Nat
      <3>1. BLOCK_SIZE - 1 \in Int BY SizeAssumption
      <3>2. IsFiniteSet(Slots) BY <3>1, FS_Interval DEF Slots
      <3> QED BY <2>5, <3>2, FS_Subset, FS_CardinalityType
    <2>7. Cardinality(OpenIn(x)) = 0
      <3>1. BLOCK_SIZE \in Nat BY SizeAssumption
      <3> QED BY <2>1, <2>2, <2>6, <3>1
    <2> QED BY <2>4, <2>6, <2>7, FS_EmptySet
  <1> QED BY <1>10, <1>11

\* The elements that were taken are counted, and who counts the last one clears the entry.
LEMMA SetEmptyBlocks == ASSUME IInv, IInv', IndexInv, NEW c \in Consumers, SetEmpty(c) PROVE IndexInv'
PROOF
  <1>1. PICK b : b = my[c].block OBVIOUS
  <1>2. PICK E : E = my[c].entry OBVIOUS
  <1>3. PICK x : x = BlockOf(my[c].index) OBVIOUS
  <1>4. pc[c] = "set_empty" BY DEF SetEmpty
  <1>5. PICK r \in Slots : r = my[c].index % BLOCK_SIZE BY <1>4, TakenFacts
  <1>6. PICK h \in Nat \ {0} : h = Here(c) BY <1>4, TakenFacts
  <1>7. /\ dequeued' = [dequeued EXCEPT ![b] = @ + h] /\ ProducerWaits
        /\ \/ dequeued'[b] = BLOCK_SIZE /\ pc' = [pc EXCEPT ![c] = "clear"] /\ my' = my
           \/ dequeued'[b] # BLOCK_SIZE /\ NextBlock(c)
        /\ UNCHANGED <<tailIndex, headIndex, entry, header, elements, freeList, unused, tailBlock,
                       noexcept, at, newBlock>>
    BY <1>1, <1>6 DEF SetEmpty, IsEmptied, Goto, ProducerWaits, producerVars, counters
  <1>8. /\ Typed /\ IndexOK /\ ContentsOK /\ KeptOK /\ ReadersOK /\ Apart
        /\ headIndex \in Nat /\ tailIndex \in Nat /\ headIndex <= tailIndex
    BY Counters DEF IndexInv
  <1>9. /\ E \in Entries /\ Live(E) /\ b = entry[E].value /\ b \in Blocks
        /\ Number(E) = x /\ x \in Nat
        /\ \A n : n \in Uncounted(c) <=> n \in Taken(c) \/ n \in Rest(c)
        /\ \A n \in Taken(c) : /\ n \in Nat /\ n < headIndex /\ n < tailIndex /\ n \notin Rest(c)
                               /\ BlockOf(n) = x
                               /\ \A d \in Consumers : d # c => n \notin Uncounted(d)
        /\ \A k \in Slots : k \in r .. (r + h - 1) <=> Nth(x, k) \in Taken(c)
        /\ r + h <= BLOCK_SIZE
    BY <1>1, <1>2, <1>3, <1>4, <1>5, <1>6, TakenFacts
  <1>10. /\ dequeued' \in [Blocks -> Nat] /\ dequeued'[b] = dequeued[b] + h
         /\ \A v \in Blocks : v # b => dequeued'[v] = dequeued[v]
    BY <1>7, <1>8, <1>9 DEF KeptOK
  <1>11. IndexOK' /\ LastBlock' = LastBlock BY <1>7, <1>8, IndexWaits
  <1>12. IndexKept /\ LiveKept /\ Entries' = Entries /\ \A e : Number(e)' = Number(e)
    BY <1>7, <1>8, SameIndex
  <1>13. Reader(c) /\ Claimed(c) = Rest(c)
    <2>1. Reader(c) BY <1>8 DEF ReadersOK
    <2> QED BY <1>4, <1>8, <2>1, Busy DEF Finding, Looking
  <1>14. /\ OnlyMoves(c) /\ Reader(c)' /\ Uncounted(c)' = Rest(c) /\ Claimed(c)' = Rest(c)
         /\ \/ pc'[c] = "clear" /\ my'[c] = my[c] /\ dequeued'[b] = BLOCK_SIZE
            \/ pc'[c] \in {"idle", "value"} /\ dequeued'[b] # BLOCK_SIZE
    <2>1. CASE dequeued'[b] # BLOCK_SIZE BY <1>4, <1>7, <2>1, NextReader
    <2>2. CASE dequeued'[b] = BLOCK_SIZE
      <3>1. pc' = [pc EXCEPT ![c] = "clear"] /\ my' = my BY <1>7, <2>2
      <3>2. OnlyMoves(c) /\ pc'[c] = "clear" /\ my'[c] = my[c]
        BY <1>8, <3>1 DEF Typed, OnlyMoves
      <3>3. Here(c)' = Here(c) /\ Rest(c)' = Rest(c) BY <3>2 DEF Here, Rest
      <3>4. Uncounted(c)' = Rest(c) /\ Claimed(c)' = Rest(c)
        BY <3>2, <3>3 DEF Uncounted, Claimed, Rest, Looking
      <3>5. DOMAIN my[c] = Fields /\ my[c].index \in Nat /\ my[c].want \in Nat \ {0}
            /\ my[c].index + my[c].want <= headIndex
        BY <1>4, <1>13 DEF Reader, Finding, Looking
      <3>6. /\ my'[c].entry \in Entries' /\ Live(my[c].entry)' /\ my'[c].block = entry'[my'[c].entry].value
            /\ Number(my[c].entry)' = BlockOf(my[c].index)'
        BY <1>1, <1>2, <1>3, <1>7, <1>9, <1>12, <3>2 DEF Live, Number, BlockOf
      <3>7. my'[c].want > Here(c)' => Ready(c)'
        <4>1. blockIndex' = blockIndex BY <1>7 DEF blockIndex
        <4>2. my[c].want > Here(c) => Ready(c) BY <1>4, <1>13 DEF Reader
        <4> QED BY <1>7, <3>2, <3>3, <4>1, <4>2 DEF Ready, Sees, SlotsOf, EntryAt, Number, BlockOf
      <3>8. dequeued'[my'[c].block] = BLOCK_SIZE BY <1>1, <2>2, <3>2
      <3>9. Reader(c)' BY <1>7, <3>2, <3>5, <3>6, <3>7, <3>8 DEF Reader
      <3> QED BY <2>2, <3>2, <3>4, <3>9
    <2> QED BY <2>1, <2>2
  <1>15. \A d \in Consumers : d # c /\ pc[d] \in {"clear", "free"} => my[d].block # b
    BY <1>1, <1>4, NotCleared
  <1>16. \A d \in Consumers : d # c =>
           /\ Reader(d)' /\ Uncounted(d)' = Uncounted(d) /\ Claimed(d)' = Claimed(d)
           /\ pc'[d] = pc[d] /\ my'[d] = my[d]
    <2>1. headIndex' \in Nat /\ headIndex <= headIndex' BY <1>7, <1>8
    <2>2. \A d \in Consumers : d # c /\ pc[d] = "clear" =>
            dequeued'[my[d].block] = dequeued[my[d].block]
      <3>1. \A d \in Consumers : pc[d] = "clear" => my[d].block \in Blocks
        BY <1>8 DEF ReadersOK, Reader, Live
      <3> QED BY <1>10, <1>15, <3>1
    <2> QED BY <1>7, <1>12, <1>14, <2>1, <2>2, Others
  <1>17. ASSUME NEW n \in Nat
         PROVE  /\ Open(n)' <=> Open(n) /\ n \notin Taken(c)
                /\ Stored(n)' <=> Stored(n)
    <2>1. Open(n) <=> n >= headIndex \/ n \in Uncounted(c)
                      \/ \E d \in Consumers : d # c /\ n \in Uncounted(d)
      BY DEF Open
    <2>2. Open(n)' <=> n >= headIndex \/ n \in Rest(c)
                       \/ \E d \in Consumers : d # c /\ n \in Uncounted(d)
      <3>1. Open(n)' <=> n >= headIndex \/ \E d \in Consumers : n \in Uncounted(d)'
        BY <1>7 DEF Open
      <3> QED BY <1>14, <1>16, <3>1
    <2>3. n \in Taken(c) => ~(n >= headIndex) BY <1>8, <1>9
    <2>4. Open(n)' <=> Open(n) /\ n \notin Taken(c) BY <1>9, <2>1, <2>2, <2>3
    <2>5. \A d \in Consumers : Claimed(d)' = Claimed(d) BY <1>13, <1>14, <1>16
    <2>6. Alive' = Alive
      <3>1. {k \in headIndex .. (tailIndex - 1) : at # "destroyed"}' =
              {k \in headIndex .. (tailIndex - 1) : at # "destroyed"}
        BY <1>7
      <3> QED BY <2>5, <3>1 DEF Alive
    <2>7. Stored(n)' <=> Stored(n) BY <1>7, <2>6 DEF Stored
    <2> QED BY <2>4, <2>7
  <1>18. ASSUME NEW e \in Entries, Live(e) PROVE ContentOK(e)'
    <2>1. ContentOK(e) /\ Number(e) \in Nat BY <1>8, <1>18, LiveNumber DEF ContentsOK
    <2>2. PICK m \in Nat : m = Number(e) BY <2>1
    <2>3. Number(e)' = m /\ entry'[e].value = entry[e].value BY <1>7, <1>12, <2>2
    <2>4. CASE e = E
      <3>1. m = x BY <1>9, <2>2, <2>4
      <3>2. OpenIn(x)' = OpenIn(x) \ (r .. (r + h - 1))
        <4>1. \A k \in Slots : Open(Nth(x, k))' <=> Open(Nth(x, k)) /\ Nth(x, k) \notin Taken(c)
          <5> SUFFICES ASSUME NEW k \in Slots
                       PROVE Open(Nth(x, k))' <=> Open(Nth(x, k)) /\ Nth(x, k) \notin Taken(c)
            OBVIOUS
          <5>1. PICK n \in Nat : n = Nth(x, k) BY <1>9, NthTyped
          <5>2. Open(n)' <=> Open(n) /\ n \notin Taken(c) BY <1>17
          <5> QED BY <5>1, <5>2 DEF Nth
        <4>2. OpenIn(x)' = {k \in Slots : Open(Nth(x, k))'} BY DEF OpenIn
        <4> QED BY <1>9, <4>1, <4>2 DEF OpenIn
      <3>3. OpenIn(x) \subseteq Slots /\ r .. (r + h - 1) \subseteq OpenIn(x)
        <4>1. r .. (r + h - 1) \subseteq Slots
          <5>1. r \in Int /\ 0 <= r /\ BLOCK_SIZE \in Nat BY SizeAssumption DEF Slots
          <5> QED BY <1>9, <5>1 DEF Slots
        <4>2. ASSUME NEW k \in r .. (r + h - 1) PROVE Open(Nth(x, k))
          <5>1. Nth(x, k) \in Uncounted(c) BY <1>9, <4>1
          <5> QED BY <5>1 DEF Open
        <4> QED BY <4>1, <4>2 DEF OpenIn
      <3>4. /\ Cardinality(OpenIn(x)) \in Nat /\ IsFiniteSet(OpenIn(x))
            /\ Cardinality(OpenIn(x))' = Cardinality(OpenIn(x)) - h
        BY <3>2, <3>3, FewerSlots
      <3>5. OpenIn(Number(e))' = OpenIn(x)' BY <2>3, <3>1 DEF OpenIn
      <3>6. dequeued[b] + Cardinality(OpenIn(x)) = BLOCK_SIZE
        BY <1>9, <1>18, <2>1, <2>4 DEF ContentOK
      <3>7. dequeued'[b] + Cardinality(OpenIn(x))' = BLOCK_SIZE
        <4>1. dequeued[b] \in Nat BY <1>8, <1>9 DEF KeptOK
        <4> QED BY <1>10, <3>4, <3>6, <4>1
      <3>8. OpenIn(x)' # {} \/ (pc'[c] = "clear" /\ my'[c].entry = e)
        <4>1. CASE pc'[c] = "clear" BY <1>2, <1>14, <2>4, <4>1
        <4>2. CASE pc'[c] # "clear"
          <5>1. dequeued'[b] # BLOCK_SIZE /\ dequeued'[b] \in Nat BY <1>9, <1>10, <1>14, <4>2
          <5>2. OpenIn(x)' = {} => Cardinality(OpenIn(x))' = 0 BY FS_EmptySet
          <5> QED BY <3>7, <5>1, <5>2
        <4> QED BY <4>1, <4>2
      <3>9. ASSUME NEW k \in Slots
            PROVE  elements'[entry'[e].value][k] =
                     IF Stored(Nth(Number(e), k))' THEN Nth(Number(e), k)' ELSE Null
        <4>1. PICK n \in Nat : n = Nth(x, k) BY <1>9, NthTyped
        <4>2. Nth(Number(e), k)' = n BY <2>3, <3>1, <4>1 DEF Nth
        <4>3. Stored(Nth(Number(e), k))' <=> Stored(n)' BY <4>2 DEF Stored, Alive
        <4>4. elements[b][k] = IF Stored(n) THEN n ELSE Null
          BY <1>9, <1>18, <2>1, <2>4, <4>1 DEF ContentOK
        <4> QED BY <1>7, <1>9, <1>17, <2>3, <2>4, <4>2, <4>3, <4>4
      <3>10. entry'[e].value = b BY <1>9, <2>3, <2>4
      <3> QED BY <3>5, <3>7, <3>8, <3>9, <3>10 DEF ContentOK
    <2>5. CASE e # E
      <3>1. m # x BY <1>8, <1>9, <1>18, <2>2, <2>5, SameNumber, LiveNumber
      <3>2. entry[e].value # b /\ entry[e].value \in Blocks
        BY <1>8, <1>9, <1>18, <2>5 DEF KeptOK, Live
      <3>3. \A k \in Slots : /\ Open(Nth(m, k))' <=> Open(Nth(m, k))
                             /\ Stored(Nth(m, k))' <=> Stored(Nth(m, k))
        <4> SUFFICES ASSUME NEW k \in Slots
                     PROVE  /\ Open(Nth(m, k))' <=> Open(Nth(m, k))
                            /\ Stored(Nth(m, k))' <=> Stored(Nth(m, k))
          OBVIOUS
        <4>1. PICK n \in Nat : n = Nth(m, k) /\ BlockOf(n) = m BY NthTyped
        <4>2. n \notin Taken(c) BY <1>9, <3>1, <4>1
        <4>3. (Open(n)' <=> Open(n)) /\ (Stored(n)' <=> Stored(n)) BY <1>17, <4>2
        <4> QED BY <4>1, <4>3 DEF Nth
      <3>4. \A d \in Consumers : pc[d] = "clear" => pc'[d] = "clear" /\ my'[d].entry = my[d].entry
        BY <1>4, <1>16
      <3>5. elements' = elements /\ dequeued'[entry[e].value] = dequeued[entry[e].value]
        BY <1>7, <1>10, <3>2
      <3> QED BY <1>18, <2>1, <2>2, <2>3, <3>3, <3>4, <3>5, ContentFrame
    <2> QED BY <2>4, <2>5
  <1>19. ContentsOK'
    <2>1. \A e \in Entries' : Live(e)' => e \in Entries /\ Live(e) /\ Number(e)' = Number(e)
                                          /\ entry'[e].value = entry[e].value
      BY <1>12 DEF LiveKept
    <2>2. \A e \in Entries' : ContentOK(e)' BY <1>18, <2>1 DEF ContentOK
    <2>3. ASSUME NEW m \in Nat, m <= LastBlock', OpenIn(m)' # {}
          PROVE  \E e \in Entries' : Number(e)' = m /\ Live(e)'
      <3>1. PICK k \in Slots : Open(Nth(m, k))' BY <2>3 DEF OpenIn
      <3>2. PICK n \in Nat : n = Nth(m, k) BY NthTyped
      <3>3. Open(n)' BY <3>1, <3>2 DEF Nth
      <3>4. Open(n) BY <1>17, <3>3
      <3>5. OpenIn(m) # {} BY <3>2, <3>4 DEF OpenIn
      <3>6. PICK e \in Entries : Number(e) = m /\ Live(e) BY <1>8, <1>11, <2>3, <3>5 DEF ContentsOK
      <3> QED BY <1>7, <1>12, <3>6 DEF LiveKept, Live
    <2>4. ASSUME NEW e \in Entries', Live(e)', Number(e)' = LastBlock'
          PROVE  entry'[e].value = tailBlock'
      BY <1>7, <1>8, <1>11, <2>1, <2>4 DEF ContentsOK
    <2> QED BY <2>2, <2>3, <2>4 DEF ContentsOK
  <1>20. KeptOK'
    <2>1. ASSUME NEW v \in Blocks PROVE (Held(v)' <=> Held(v)) /\ (InIndex(v)' <=> InIndex(v))
      <3>1. pc'[c] # "free" /\ pc[c] # "free" BY <1>4, <1>14
      <3>2. Held(v)' <=> Held(v) BY <1>16, <3>1 DEF Held
      <3> QED BY <1>8, <1>12, <3>2, IndexBlocks
    <2>2. InIndex(b) BY <1>9 DEF InIndex
    <2>3. ASSUME NEW v \in Blocks PROVE Once(v)'
      <3>1. Once(v) BY <1>8 DEF KeptOK
      <3> QED BY <1>7, <2>1, <3>1 DEF Once
    <2>4. ASSUME NEW v \in Blocks, v \in unused' \/ v \in freeList' \/ Held(v)' PROVE Blank(v)'
      <3>1. Blank(v) BY <1>7, <1>8, <2>1, <2>4 DEF KeptOK
      <3> QED BY <1>7, <3>1 DEF Blank
    <2>5. \A e, f \in Entries' : Live(e)' /\ entry'[e].value = entry'[f].value => e = f
      BY <1>8, <1>12, IndexBlocks
    <2>6. newBlock \in Blocks => dequeued'[newBlock] = dequeued[newBlock]
      <3>1. Once(b) BY <1>8, <1>9 DEF KeptOK
      <3> QED BY <1>10, <2>2, <3>1 DEF Once
    <2>7. /\ unused' \subseteq Blocks /\ freeList' \subseteq Blocks
          /\ newBlock' \in Blocks \cup {Null}
          /\ elements' = [v \in Blocks |-> [k \in Slots |-> elements'[v][k]]]
      BY <1>7, <1>8 DEF KeptOK
    <2>8. dequeued' \in [Blocks -> Nat] BY <1>8, <1>10 DEF KeptOK
    <2>9. newBlock' # Null =>
            /\ at' \in {"construct_first", "publish", "rewind", "empty_entry"}
            /\ \A k \in Slots : elements'[newBlock'][k] =
                   IF at' = "publish" /\ ~noexcept' /\ k = 0 THEN tailIndex' ELSE Null
      BY <1>7, <1>8 DEF KeptOK
    <2>10. /\ at' \in {"construct_first", "publish"} =>
                newBlock' \in Blocks /\ dequeued'[newBlock'] = 0
           /\ at' = "construct_first" => ~noexcept'
      BY <1>7, <1>8, <2>6 DEF KeptOK
    <2> QED BY <2>3, <2>4, <2>5, <2>7, <2>8, <2>9, <2>10 DEF KeptOK
  <1>21. ReadersOK' BY <1>14, <1>16 DEF ReadersOK
  <1>22. Apart'
    <2> SUFFICES ASSUME NEW y \in Consumers, NEW z \in Consumers, y # z
                 PROVE  /\ Uncounted(y)' \cap Uncounted(z)' = {}
                        /\ pc'[y] \in {"clear", "free"} /\ pc'[z] \in {"clear", "free"} =>
                             my'[y].block # my'[z].block
      BY DEF Apart
    <2>1. \A d \in Consumers : Uncounted(d)' \subseteq Uncounted(d) BY <1>9, <1>14, <1>16
    <2>2. Uncounted(y)' \cap Uncounted(z)' = {} BY <1>8, <2>1 DEF Apart
    <2>3. pc'[c] \in {"clear", "free"} => my'[c].block = b BY <1>1, <1>14
    <2>4. CASE y = c BY <1>15, <1>16, <2>2, <2>3, <2>4
    <2>5. CASE z = c BY <1>15, <1>16, <2>2, <2>3, <2>5
    <2>6. CASE y # c /\ z # c BY <1>8, <1>16, <2>2, <2>6 DEF Apart
    <2> QED BY <2>4, <2>5, <2>6
  <1> QED BY <1>11, <1>19, <1>20, <1>21, <1>22 DEF IndexInv

\* The entry of a block whose elements are all gone is cleared; the block is in the consumer's hands.
LEMMA ClearEntryBlocks == ASSUME IInv, IndexInv, NEW c \in Consumers, ClearEntry(c) PROVE IndexInv'
PROOF
  <1>1. PICK b : b = my[c].block OBVIOUS
  <1>2. PICK E : E = my[c].entry OBVIOUS
  <1>3. /\ pc[c] = "clear" /\ pc' = [pc EXCEPT ![c] = "free"] /\ my' = my /\ ProducerWaits
        /\ entry' = [entry EXCEPT ![E].value = Null]
        /\ UNCHANGED <<tailIndex, headIndex, header, elements, dequeued, freeList, unused,
                       tailBlock, noexcept, at, newBlock>>
    BY <1>2 DEF ClearEntry, Goto, ProducerWaits, blockVars, producerVars, counters
  <1>4. /\ Typed /\ IndexOK /\ ContentsOK /\ KeptOK /\ ReadersOK /\ Apart /\ Reader(c)
        /\ headIndex \in Nat
    BY Counters DEF IndexInv, ReadersOK
  <1>5. PICK x \in Nat : x = BlockOf(my[c].index)
    BY <1>3, <1>4, Busy DEF Finding
  <1>6. /\ E \in Entries /\ Live(E) /\ b = entry[E].value /\ b \in Blocks
        /\ Number(E) = x /\ dequeued[b] = BLOCK_SIZE
    BY <1>1, <1>2, <1>3, <1>4, <1>5 DEF Reader, Live
  <1>7. OpenIn(x) = {}
    <2>1. dequeued[b] + Cardinality(OpenIn(x)) = BLOCK_SIZE
      BY <1>4, <1>6 DEF ContentsOK, ContentOK
    <2>2. IsFiniteSet(OpenIn(x)) /\ Cardinality(OpenIn(x)) \in Nat
      <3>1. BLOCK_SIZE - 1 \in Int BY SizeAssumption
      <3>2. IsFiniteSet(Slots) BY <3>1, FS_Interval DEF Slots
      <3>3. OpenIn(x) \subseteq Slots BY DEF OpenIn
      <3> QED BY <3>2, <3>3, FS_Subset, FS_CardinalityType
    <2>3. BLOCK_SIZE \in Nat BY SizeAssumption
    <2>4. Cardinality(OpenIn(x)) = 0 BY <1>6, <2>1, <2>2, <2>3
    <2> QED BY <2>2, <2>4, FS_EmptySet
  <1>8. \A n \in Nat : BlockOf(n) = x => ~Open(n)
    <2> SUFFICES ASSUME NEW n \in Nat, BlockOf(n) = x, Open(n) PROVE FALSE OBVIOUS
    <2>1. n % BLOCK_SIZE \in Slots /\ n = Nth(x, n % BLOCK_SIZE) BY BlockOfFacts DEF Nth
    <2>2. n % BLOCK_SIZE \in OpenIn(x) BY <2>1 DEF OpenIn
    <2> QED BY <1>7, <2>2
  <1>9. Blank(b)
    <2> SUFFICES ASSUME NEW k \in Slots PROVE elements[b][k] = Null BY DEF Blank
    <2>1. PICK n \in Nat : n = Nth(x, k) /\ BlockOf(n) = x BY NthTyped
    <2>2. elements[b][k] = IF Stored(n) THEN n ELSE Null
      BY <1>4, <1>6, <2>1 DEF ContentsOK, ContentOK
    <2>3. ~Stored(n) BY <1>4, <1>8, <2>1, StoredIsOpen
    <2> QED BY <2>2, <2>3
  <1>10. /\ entry' \in Seq(EntryType) /\ Len(entry') = Len(entry)
         /\ entry'[E].value = Null /\ \A f \in Entries : f # E => entry'[f] = entry[f]
         /\ \A f \in Entries : entry'[f].key = entry[f].key
    BY <1>3, <1>4, <1>6, ValueStored DEF IndexOK
  <1>11. /\ LastBlock' = LastBlock /\ Newest' = Newest /\ Newest \in Int /\ tailIndex' \in Nat
    BY <1>3, <1>4, NewestTyped DEF LastBlock, Newest, IndexOK, IndexTyped
  <1>12. \A e \in Entries : entry'[e].value \in Blocks => Live(e) /\ e # E
    BY <1>10, BlocksAssumption DEF Live
  <1>13. StageOK'
    <2>1. /\ TailEntry' = TailEntry /\ NewEntry' = NewEntry
          /\ TailEntry \in Entries /\ NewEntry \in Entries
      BY <1>3, <1>4, Current DEF TailEntry, NewEntry, NewTail, blockIndex
    <2>2. PICK T \in Entries : T = TailEntry BY <2>1
    <2>3. PICK N \in Entries : N = NewEntry BY <2>1
    <2>4. Number(N)' = Number(N) BY <1>10 DEF Number
    <2>5. Live(T)' => Live(T) BY <1>12 DEF Live
    <2>6. Number(NewEntry)' = Number(N)' BY <2>1, <2>3 DEF Number
    <2>7. Live(TailEntry)' <=> Live(T)' BY <2>1, <2>2 DEF Live
    <2>8. StageOK BY <1>4 DEF IndexOK
    <2> QED BY <1>3, <1>11, <2>2, <2>3, <2>4, <2>5, <2>6, <2>7, <2>8 DEF StageOK
  <1>14. ASSUME NEW e \in Entries
         PROVE  /\ entry'[e].value \in Blocks => Live(e)
                /\ Keyed(e) /\ entry'[e].value = Garbage =>
                     \/ at' \in {"advance", "empty_entry"} /\ e = NewEntry
                     \/ at' \in Speculative /\ e = TailEntry
                /\ Number(e) = Newest + 1 =>
                     /\ entry'[e].value \notin Blocks
                     /\ at' \in {"idle", "insert", "advance", "empty_entry"}
                     /\ tailIndex' % BLOCK_SIZE = 0
    <2>1. EntryOK(e) BY <1>4 DEF IndexOK
    <2>2. entry'[e].value = Garbage => entry[e].value = Garbage
      <3>1. Null # Garbage BY BlocksAssumption
      <3> QED BY <1>10, <3>1
    <2>3. Number(e) = Newest + 1 => Ahead(e)
      <3>1. Number(e) = Newest + 1 => ~(Number(e) <= Newest) BY <1>11
      <3> QED BY <2>1, <3>1 DEF EntryOK
    <2> QED BY <1>3, <1>12, <2>1, <2>2, <2>3 DEF EntryOK, Ahead
  <1>15. IndexOK' /\ Entries' = Entries /\ \A e \in Entries : Number(e)' = Number(e)
    BY <1>3, <1>4, <1>10, <1>11, <1>13, <1>14, IndexFrame
  <1>16. IndexKept
    <2>1. blockIndex' = blockIndex /\ blockIndex \in Nat
      BY <1>3, <1>4 DEF blockIndex, IndexOK, IndexTyped
    <2>2. \A e \in Entries : Keyed(e)' <=> Keyed(e) BY <1>15 DEF Keyed
    <2> QED BY <1>3, <1>15, <2>1, <2>2 DEF IndexKept
  <1>17. OnlyMoves(c) /\ pc'[c] = "free" /\ my'[c] = my[c] BY <1>3, <1>4 DEF Typed, OnlyMoves
  <1>18. /\ Uncounted(c) = Rest(c) /\ Claimed(c) = Rest(c)
         /\ Uncounted(c)' = Rest(c) /\ Claimed(c)' = Rest(c) /\ Here(c)' = Here(c) /\ Rest(c)' = Rest(c)
    BY <1>3, <1>17 DEF Uncounted, Claimed, Here, Rest, Looking
  <1>19. \A n : (Open(n)' <=> Open(n)) /\ (Stored(n)' <=> Stored(n))
    BY <1>3, <1>17, <1>18, SameSets
  <1>20. \A d \in Consumers : d # c =>
           /\ Reader(d)' /\ Uncounted(d)' = Uncounted(d) /\ Claimed(d)' = Claimed(d)
           /\ pc'[d] = pc[d] /\ my'[d] = my[d]
    <2>1. headIndex' \in Nat /\ headIndex <= headIndex' BY <1>3, <1>4
    <2>2. ASSUME NEW d \in Consumers, d # c, pc[d] \in {"value", "take", "set_empty", "clear"}
          PROVE  entry'[my[d].entry].value = entry[my[d].entry].value
      <3>1. Reader(d) /\ my[d].entry \in Entries /\ Number(my[d].entry) = BlockOf(my[d].index)
        BY <1>4, <2>2 DEF ReadersOK, Reader
      <3>2. my[d].entry # E
        <4>1. CASE pc[d] = "clear"
          <5>1. my[d].block # b /\ my[d].block = entry[my[d].entry].value
            BY <1>1, <1>3, <1>4, <2>2, <3>1, <4>1 DEF Apart, Reader
          <5> QED BY <1>6, <5>1
        <4>2. CASE pc[d] # "clear"
          <5>1. /\ my[d].index \in Nat /\ my[d].want \in Nat \ {0}
                /\ Uncounted(d) = my[d].index .. (my[d].index + my[d].want - 1)
            BY <1>4, <2>2, <3>1, <4>2, Busy DEF Finding, Looking
          <5>2. my[d].index \in Uncounted(d) BY <5>1
          <5>3. Open(my[d].index) BY <5>2 DEF Open
          <5>4. BlockOf(my[d].index) # x BY <1>8, <5>1, <5>3
          <5> QED BY <1>6, <3>1, <5>4
        <4> QED BY <4>1, <4>2
      <3> QED BY <1>10, <3>1, <3>2
    <2> QED BY <1>3, <1>16, <1>17, <2>1, <2>2, Others
  <1>21. ContentsOK'
    <2>1. \A e \in Entries' : Live(e)' => e \in Entries /\ Live(e) /\ e # E /\ Number(e)' = Number(e)
                                          /\ entry'[e].value = entry[e].value
      BY <1>10, <1>12, <1>15 DEF Live
    <2>2. ASSUME NEW e \in Entries, Live(e), e # E PROVE ContentOK(e)'
      <3>1. ContentOK(e) /\ Number(e) \in Nat BY <1>4, <2>2, LiveNumber DEF ContentsOK
      <3>2. PICK m \in Nat : m = Number(e) BY <3>1
      <3>3. Number(e)' = m /\ entry'[e].value = entry[e].value BY <1>10, <1>15, <2>2, <3>2
      <3>4. \A k \in Slots : /\ Open(Nth(m, k))' <=> Open(Nth(m, k))
                             /\ Stored(Nth(m, k))' <=> Stored(Nth(m, k))
        <4> SUFFICES ASSUME NEW k \in Slots
                     PROVE  /\ Open(Nth(m, k))' <=> Open(Nth(m, k))
                            /\ Stored(Nth(m, k))' <=> Stored(Nth(m, k))
          OBVIOUS
        <4>1. PICK n \in Nat : n = Nth(m, k) BY NthTyped
        <4>2. (Open(n)' <=> Open(n)) /\ (Stored(n)' <=> Stored(n)) BY <1>19
        <4> QED BY <4>1, <4>2 DEF Nth
      <3>5. \A d \in Consumers : pc[d] = "clear" /\ my[d].entry = e =>
                                 pc'[d] = "clear" /\ my'[d].entry = e
        BY <1>2, <1>20, <2>2
      <3>6. elements' = elements /\ dequeued' = dequeued BY <1>3
      <3> QED BY <2>2, <3>1, <3>2, <3>3, <3>4, <3>5, <3>6, ContentFrame
    <2>3. \A e \in Entries' : ContentOK(e)' BY <2>1, <2>2 DEF ContentOK
    <2>4. ASSUME NEW m \in Nat, m <= LastBlock', OpenIn(m)' # {}
          PROVE  \E e \in Entries' : Number(e)' = m /\ Live(e)'
      <3>1. PICK k \in Slots : Open(Nth(m, k))' BY <2>4 DEF OpenIn
      <3>2. PICK n \in Nat : n = Nth(m, k) /\ BlockOf(n) = m BY NthTyped
      <3>3. Open(n)' BY <3>1, <3>2 DEF Nth
      <3>4. Open(n) BY <1>19, <3>3
      <3>5. OpenIn(m) # {} /\ m # x BY <1>8, <3>2, <3>4 DEF OpenIn
      <3>6. PICK e \in Entries : Number(e) = m /\ Live(e) BY <1>4, <1>11, <2>4, <3>5 DEF ContentsOK
      <3>7. e # E BY <1>6, <3>5, <3>6
      <3>8. Live(e)' BY <1>10, <3>6, <3>7 DEF Live
      <3> QED BY <1>15, <3>6, <3>8
    <2>5. ASSUME NEW e \in Entries', Live(e)', Number(e)' = LastBlock'
          PROVE  entry'[e].value = tailBlock'
      BY <1>3, <1>4, <1>11, <2>1, <2>5 DEF ContentsOK
    <2> QED BY <2>3, <2>4, <2>5 DEF ContentsOK
  <1>22. KeptOK'
    <2>1. InIndex(b) /\ Once(b) BY <1>4, <1>6 DEF InIndex, KeptOK
    <2>2. ASSUME NEW v \in Blocks
          PROVE  /\ Held(v)' <=> Held(v) \/ v = b
                 /\ InIndex(v)' <=> InIndex(v) /\ v # b
      <3>1. Held(v)' <=> Held(v) \/ v = b BY <1>1, <1>3, <1>17, <1>20 DEF Held
      <3>2. ASSUME InIndex(v)' PROVE InIndex(v) /\ v # b
        <4>1. PICK e \in Entries : entry'[e].value = v BY <1>15, <3>2 DEF InIndex
        <4>2. Live(e) /\ e # E /\ entry[e].value = v BY <1>10, <1>12, <4>1
        <4> QED BY <1>4, <1>6, <4>2 DEF InIndex, KeptOK
      <3>3. ASSUME InIndex(v), v # b PROVE InIndex(v)'
        <4>1. PICK e \in Entries : entry[e].value = v BY <3>3 DEF InIndex
        <4>2. entry'[e].value = v BY <1>6, <1>10, <3>3, <4>1
        <4> QED BY <1>15, <4>2 DEF InIndex
      <3> QED BY <3>1, <3>2, <3>3
    <2>3. ASSUME NEW v \in Blocks PROVE Once(v)'
      <3>1. Once(v) BY <1>4 DEF KeptOK
      <3>2. CASE v = b BY <1>3, <2>1, <2>2, <3>2 DEF Once
      <3>3. CASE v # b BY <1>3, <2>2, <3>1, <3>3 DEF Once
      <3> QED BY <3>2, <3>3
    <2>4. ASSUME NEW v \in Blocks, v \in unused' \/ v \in freeList' \/ Held(v)' PROVE Blank(v)'
      <3>1. Blank(v) BY <1>3, <1>4, <1>9, <2>2, <2>4 DEF KeptOK
      <3> QED BY <1>3, <3>1 DEF Blank
    <2>5. \A e, f \in Entries' : Live(e)' /\ entry'[e].value = entry'[f].value => e = f
      <3> SUFFICES ASSUME NEW e \in Entries, NEW f \in Entries, Live(e)',
                          entry'[e].value = entry'[f].value
                   PROVE  e = f
        BY <1>15
      <3>1. entry'[e].value \in Blocks /\ entry'[f].value \in Blocks BY DEF Live
      <3>2. e # E /\ f # E /\ Live(e) BY <1>12, <3>1
      <3> QED BY <1>4, <1>10, <3>2 DEF KeptOK
    <2> QED BY <1>3, <1>4, <2>3, <2>4, <2>5 DEF KeptOK
  <1>23. Reader(c)'
    <2>1. DOMAIN my[c] = Fields /\ my[c].index \in Nat /\ my[c].want \in Nat \ {0}
          /\ my[c].index + my[c].want <= headIndex
      BY <1>3, <1>4 DEF Reader, Finding
    <2>2. my'[c].want > Here(c)' => Ready(c)'
      <3> SUFFICES ASSUME my[c].want > Here(c) PROVE Ready(c)' BY <1>17, <1>18
      <3>1. PICK h : h = my[c].header OBVIOUS
      <3>2. PICK s : s = (my[c].slot + 1) % header[h].capacity OBVIOUS
      <3>3. /\ Sees(h, Rest(c)) /\ h \in 1 .. blockIndex /\ my[c].slot \in SlotsOf(h)
            /\ Number(EntryAt(h, s)) = BlockOf(my[c].index + Here(c))
        BY <1>3, <1>4, <3>1, <3>2 DEF Reader, Ready, Sees
      <3>4. s \in SlotsOf(h)
        <4>1. header[h].capacity \in Nat \ {0} /\ my[c].slot \in Int BY <1>4, <3>3, HeaderTyped
        <4>2. my[c].slot + 1 \in Int BY <4>1
        <4> QED BY <3>2, <4>1, <4>2, CongruentMod DEF SlotsOf
      <3>5. \A k \in SlotsOf(h) : Number(EntryAt(h, k))' = Number(EntryAt(h, k))
        <4> SUFFICES ASSUME NEW k \in SlotsOf(h)
                     PROVE Number(EntryAt(h, k))' = Number(EntryAt(h, k))
          OBVIOUS
        <4>1. PICK e \in Entries : e = EntryAt(h, k) BY <1>4, <3>3, HeaderTyped
        <4>2. EntryAt(h, k)' = e BY <1>3, <4>1 DEF EntryAt
        <4>3. Number(e)' = Number(e) BY <1>15
        <4> QED BY <4>1, <4>2, <4>3 DEF Number
      <3>6. blockIndex' = blockIndex /\ SlotsOf(h)' = SlotsOf(h) BY <1>3 DEF blockIndex, SlotsOf
      <3>7. Sees(my[c].header, Rest(c))'
        <4>1. PICK S : S = Rest(c) OBVIOUS
        <4>2. \A n \in S : n \in Nat /\ Open(n) /\ BlockOf(n) <= LastBlock
          BY <1>18, <4>1, UncountedLive DEF Open
        <4>3. Sees(h, S)' BY <1>4, <1>16, <3>3, <4>1, <4>2, SeesKept
        <4>4. Rest(c)' = S /\ my'[c].header = h BY <1>17, <1>18, <3>1, <4>1
        <4> QED BY <4>3, <4>4 DEF Sees, SlotsOf, EntryAt, Number
      <3>8. my'[c].slot \in SlotsOf(my[c].header)' BY <1>17, <3>1, <3>3, <3>6 DEF SlotsOf
      <3>9. BlockOf(my[c].index + Here(c))' = BlockOf(my[c].index + Here(c))
        BY <1>17, <1>18 DEF BlockOf
      <3>10. s = (my'[c].slot + 1) % header'[my'[c].header].capacity BY <1>3, <1>17, <3>1, <3>2
      <3>11. Number(EntryAt(h, s))' = BlockOf(my[c].index + Here(c)) BY <3>3, <3>4, <3>5
      <3> QED BY <1>17, <3>1, <3>7, <3>8, <3>9, <3>10, <3>11 DEF Ready, EntryAt, Number
    <2>3. my'[c].block \in Blocks BY <1>1, <1>6, <1>17
    <2> QED BY <1>3, <1>17, <2>1, <2>2, <2>3 DEF Reader
  <1>24. ReadersOK' BY <1>20, <1>23 DEF ReadersOK
  <1>25. Apart'
    <2>1. \A d \in Consumers : Uncounted(d)' = Uncounted(d) /\ my'[d] = my[d]
      BY <1>17, <1>18, <1>20
    <2>2. \A d \in Consumers : pc'[d] \in {"clear", "free"} => pc[d] \in {"clear", "free"}
      BY <1>3, <1>17, <1>20
    <2> QED BY <1>4, <2>1, <2>2 DEF Apart
  <1> QED BY <1>15, <1>21, <1>22, <1>24, <1>25 DEF IndexInv

-----------------------------------------------------------------------------
(* The destructor and the blocks.                                          *)

\* When nobody dequeues, what is open is what is still in the queue or will be.
LEMMA AllIdle ==
  ASSUME IInv, IndexInv, \A c \in Consumers : pc[c] = "idle"
  PROVE  /\ \A c \in Consumers : Uncounted(c) = {} /\ Claimed(c) = {}
         /\ \A n : Open(n) <=> n >= headIndex
         /\ \A b : ~Held(b)
         /\ \A e \in Entries : Live(e) => OpenIn(Number(e)) # {}
PROOF
  <1>1. \A c \in Consumers : Uncounted(c) = {} /\ Claimed(c) = {}
    BY Idle DEF IInv, Counting
  <1>2. \A n : Open(n) <=> n >= headIndex BY <1>1 DEF Open
  <1>3. \A b : ~Held(b) BY DEF Held
  <1>4. \A e \in Entries : Live(e) => OpenIn(Number(e)) # {}
    BY DEF IndexInv, ContentsOK, ContentOK
  <1> QED BY <1>1, <1>2, <1>3, <1>4

\* The destructor finds the block of an element by the header and its tail.
LastFound(n) == EntryOf(n, header[blockIndex], header[blockIndex].tail)

\* The destructor finds the block of each element that is left.
LEMMA FoundLast ==
  ASSUME IInv, IndexInv, at = "idle", NEW n \in headIndex .. (tailIndex - 1)
  PROVE  /\ LastFound(n) \in Entries /\ Live(LastFound(n)) /\ Number(LastFound(n)) = BlockOf(n)
         /\ n \in Nat /\ n < tailIndex
PROOF
  <1>1. /\ IndexOK /\ ContentsOK /\ headIndex \in Nat /\ tailIndex \in Nat /\ LastBlock \in Int
        /\ n \in Nat /\ n >= headIndex /\ n < tailIndex
    BY Counters DEF IndexInv
  <1>2. BlockOf(n) \in Nat /\ BlockOf(n) <= LastBlock BY <1>1, Counters, BlockOfFacts
  <1>3. Open(n) BY <1>1 DEF Open
  <1>4. PICK e \in Entries : Number(e) = BlockOf(n) /\ Live(e) BY <1>1, <1>2, <1>3, OpenBlock
  <1>5. PICK k \in SlotsOf(blockIndex) : EntryAt(blockIndex, k) = e
    BY <1>1 DEF IndexOK, CurrentOK
  <1>6. PICK h \in 1 .. blockIndex : h = blockIndex BY <1>1, Current
  <1>7. PICK t \in SlotsOf(h) : t = header[h].tail BY <1>1, <1>6, HeaderTyped
  <1>8. Keyed(EntryAt(h, t))
    <2>1. Newest = LastBlock BY DEF Newest, Speculative
    <2>2. Newest >= 0 BY <1>1, <1>2, <2>1
    <2>3. Number(TailEntry) = Newest BY <1>1, <2>2 DEF IndexOK, CurrentOK
    <2> QED BY <1>6, <1>7, <2>2, <2>3 DEF Keyed, TailEntry, EntryAt
  <1>9. EntryOf(n, header[h], t) = e BY <1>1, <1>4, <1>5, <1>6, <1>7, <1>8, Lookup
  <1> QED BY <1>1, <1>4, <1>6, <1>7, <1>9 DEF LastFound

\* What the destructor frees.
Destroyed ==
  {entry[LastFound(n)].value : n \in {k \in headIndex .. (tailIndex - 1) : Base(k) # Base(tailIndex - 1)}}
    \cup (IF LastBlockLeft THEN {tailBlock} ELSE {})

\* It frees the blocks of the index: all but the last have elements left, and so has the last one
\* unless it is full and all of its elements are gone.
LEMMA FreesTheIndex ==
  ASSUME IInv, IndexInv, at = "idle", \A c \in Consumers : pc[c] = "idle"
  PROVE  Destroyed = {b \in Blocks : InIndex(b)}
PROOF
  <1>1. /\ IndexOK /\ ContentsOK /\ KeptOK /\ headIndex \in Nat /\ tailIndex \in Nat
        /\ headIndex <= tailIndex /\ LastBlock \in Int
    BY Counters DEF IndexInv
  <1>2. LastBlock = Before(tailIndex) BY DEF LastBlock
  <1>3. ASSUME NEW n \in headIndex .. (tailIndex - 1)
        PROVE  entry[LastFound(n)].value \in {b \in Blocks : InIndex(b)}
    BY <1>3, FoundLast DEF InIndex, Live
  <1>4. ASSUME LastBlockLeft PROVE tailBlock \in {b \in Blocks : InIndex(b)}
    <2>1. \E n \in Nat : n >= headIndex /\ BlockOf(n) = LastBlock
      <3>1. CASE tailIndex % BLOCK_SIZE # 0 BY <1>1, <1>2, <3>1, BlockOfOrder
      <3>2. CASE headIndex # tailIndex
        <4>1. tailIndex - 1 \in Nat /\ tailIndex - 1 >= headIndex /\ tailIndex # 0
          BY <1>1, <3>2
        <4>2. BlockOf(tailIndex - 1) = LastBlock BY <1>2, <4>1 DEF Before
        <4> QED BY <4>1, <4>2
      <3> QED BY <1>4, <3>1, <3>2 DEF LastBlockLeft
    <2>2. PICK n \in Nat : n >= headIndex /\ BlockOf(n) = LastBlock BY <2>1
    <2>3. Open(n) BY <2>2 DEF Open
    <2>4. BlockOf(n) <= LastBlock BY <1>1, <2>2
    <2>5. PICK e \in Entries : Number(e) = LastBlock /\ Live(e)
      BY <1>1, <2>2, <2>3, <2>4, OpenBlock
    <2>6. entry[e].value = tailBlock BY <1>1, <2>5 DEF ContentsOK
    <2> QED BY <2>5, <2>6 DEF InIndex, Live
  <1>5. ASSUME NEW b \in Blocks, InIndex(b) PROVE b \in Destroyed
    <2>1. PICK e \in Entries : entry[e].value = b BY <1>5 DEF InIndex
    <2>2. Live(e) BY <2>1 DEF Live
    <2>3. PICK m \in Nat : m = Number(e) /\ m <= LastBlock BY <1>1, <2>2, LiveNumber
    <2>4. PICK k \in Slots : Open(Nth(m, k)) BY <2>2, <2>3, AllIdle DEF OpenIn
    <2>5. PICK n \in Nat : n = Nth(m, k) /\ BlockOf(n) = m BY NthTyped
    <2>6. n >= headIndex BY <2>4, <2>5, AllIdle
    <2>7. CASE m < LastBlock
      <3>1. n < tailIndex
        <4>1. SUFFICES ASSUME tailIndex <= n PROVE FALSE BY <1>1
        <4>2. BlockOf(tailIndex) <= BlockOf(n) /\ BlockOf(tailIndex) \in Nat
          BY <1>1, <4>1, BlockOfOrder, BlockOfFacts
        <4>3. Before(tailIndex) <= BlockOf(tailIndex)
          <5>1. CASE tailIndex % BLOCK_SIZE = 0 BY <1>1, <1>2, <4>2, <5>1, BlockOfOrder
          <5>2. CASE tailIndex % BLOCK_SIZE # 0 BY <1>1, <1>2, <4>2, <5>2, BlockOfOrder
          <5> QED BY <5>1, <5>2
        <4> QED BY <1>1, <1>2, <2>3, <2>5, <2>7, <4>2, <4>3
      <3>2. n \in headIndex .. (tailIndex - 1) BY <1>1, <2>6, <3>1
      <3>3. Base(n) # Base(tailIndex - 1)
        <4>1. tailIndex - 1 \in Nat /\ tailIndex # 0 BY <1>1, <3>1
        <4>2. BlockOf(tailIndex - 1) = LastBlock BY <1>2, <4>1 DEF Before
        <4>3. PICK l \in Nat : l = LastBlock BY <1>1, <2>3, <2>7
        <4>4. Base(n) = BLOCK_SIZE * m /\ Base(tailIndex - 1) = BLOCK_SIZE * l
          BY <2>5, <4>1, <4>2, <4>3, BlockOfFacts
        <4>5. BlockOf(BLOCK_SIZE * m) = m /\ BlockOf(BLOCK_SIZE * l) = l BY BlockOfMultiple
        <4>6. m # l BY <2>3, <2>7, <4>3
        <4> QED BY <4>4, <4>5, <4>6
      <3>4. LastFound(n) = e
        <4>1. LastFound(n) \in Entries /\ Number(LastFound(n)) = m BY <2>5, <3>2, FoundLast
        <4>2. Keyed(e) BY <2>3 DEF Keyed
        <4> QED BY <1>1, <2>3, <4>1, <4>2, SameNumber
      <3> QED BY <2>1, <3>2, <3>3, <3>4 DEF Destroyed
    <2>8. CASE m = LastBlock
      <3>1. tailBlock = b BY <1>1, <2>1, <2>2, <2>3, <2>8 DEF ContentsOK
      <3>2. headIndex # tailIndex \/ tailIndex % BLOCK_SIZE # 0
        <4>1. SUFFICES ASSUME headIndex = tailIndex, tailIndex % BLOCK_SIZE = 0 PROVE FALSE OBVIOUS
        <4>2. BlockOf(n) > Before(tailIndex) BY <1>1, <2>6, <4>1, BlockOfOrder
        <4> QED BY <1>1, <1>2, <2>5, <2>8, <4>2
      <3>3. LastBlockLeft BY <3>1, <3>2, BlocksAssumption DEF LastBlockLeft
      <3> QED BY <3>1, <3>3 DEF Destroyed
    <2> QED BY <1>1, <2>3, <2>7, <2>8
  <1>6. Destroyed \subseteq {b \in Blocks : InIndex(b)} BY <1>3, <1>4 DEF Destroyed
  <1> QED BY <1>5, <1>6

\* The queue is destroyed: every block is free or was never used, and holds nothing.
LEMMA DestroyBlocks == ASSUME IInv, IndexInv, Destroy PROVE BInv'
PROOF
  <1>1. /\ at = "idle" /\ at' = "destroyed" /\ \A c \in Consumers : pc[c] = "idle"
        /\ freeList' = freeList \cup Destroyed
        /\ elements' = [b \in Blocks |->
                         [k \in Slots |-> IF \E n \in headIndex .. (tailIndex - 1) :
                                                entry[LastFound(n)].value = b /\ n % BLOCK_SIZE = k
                                          THEN Null ELSE elements[b][k]]]
        /\ UNCHANGED <<unused, newBlock, pc, my>>
    <2>1. freeList' = freeList \cup Destroyed BY DEF Destroy, Destroyed, LastFound
    <2>2. elements' = [b \in Blocks |->
                         [k \in Slots |-> IF \E n \in headIndex .. (tailIndex - 1) :
                                                entry[LastFound(n)].value = b /\ n % BLOCK_SIZE = k
                                          THEN Null ELSE elements[b][k]]]
      BY DEF Destroy, LastFound
    <2> QED BY <2>1, <2>2 DEF Destroy, consumerVars
  <1>2. /\ IndexOK /\ ContentsOK /\ KeptOK /\ headIndex \in Nat /\ tailIndex \in Nat
    BY Counters DEF IndexInv
  <1>3. newBlock = Null BY <1>1, <1>2 DEF KeptOK
  <1>4. \A b : ~Held(b) BY <1>1, AllIdle
  <1>5. freeList' = freeList \cup {b \in Blocks : InIndex(b)} BY <1>1, FreesTheIndex
  <1>6. \A b \in Blocks : /\ b \in unused \/ b \in freeList'
                          /\ b \in unused => b \notin freeList'
    <2> SUFFICES ASSUME NEW b \in Blocks
                 PROVE  /\ b \in unused \/ b \in freeList'
                        /\ b \in unused => b \notin freeList'
      OBVIOUS
    <2>1. Once(b) BY <1>2 DEF KeptOK
    <2>2. b # newBlock BY <1>3, BlocksAssumption
    <2> QED BY <1>4, <1>5, <2>1, <2>2 DEF Once
  <1>7. unused \subseteq Blocks /\ freeList' \subseteq Blocks BY <1>2, <1>5 DEF KeptOK
  <1>8. Published' = {} BY <1>1 DEF Published
  <1>9. InHand' = {}
    <2>1. {newBlock'} \cap Blocks = {} BY <1>1, <1>3, BlocksAssumption
    <2>2. {d \in Consumers : pc'[d] = "free"} = {} BY <1>1
    <2> QED BY <2>1, <2>2 DEF InHand
  <1>10. unused' \cup freeList' = Blocks /\ unused' \cap freeList' = {}
    BY <1>1, <1>6, <1>7
  <1>11. Cardinality(unused') + Cardinality(freeList') = Cardinality(Blocks)
    <2>1. IsFiniteSet(unused') /\ IsFiniteSet(freeList')
      BY <1>1, <1>7, BlocksAssumption, FS_Subset
    <2>2. /\ Cardinality(unused') \in Nat /\ Cardinality(freeList') \in Nat
          /\ Cardinality(unused' \cup freeList') =
               Cardinality(unused') + Cardinality(freeList') - Cardinality(unused' \cap freeList')
      BY <2>1, FS_Union, FS_CardinalityType
    <2>3. Cardinality(unused' \cap freeList') = 0 BY <1>10, FS_EmptySet
    <2>4. Cardinality(Blocks) =
            Cardinality(unused') + Cardinality(freeList') - Cardinality(unused' \cap freeList')
      BY <1>10, <2>2
    <2> QED BY <2>2, <2>3, <2>4
  <1>12. ASSUME NEW b \in freeList', NEW k \in Slots PROVE elements'[b][k] = Null
    <2>1. b \in Blocks BY <1>7
    <2>2. elements'[b][k] = IF \E n \in headIndex .. (tailIndex - 1) :
                                 entry[LastFound(n)].value = b /\ n % BLOCK_SIZE = k
                            THEN Null ELSE elements[b][k]
      BY <1>1, <2>1
    <2>3. CASE b \in freeList
      <3>1. elements[b][k] = Null BY <1>2, <2>1, <2>3 DEF KeptOK, Blank
      <3> QED BY <2>2, <3>1
    <2>4. CASE InIndex(b)
      <3>1. PICK e \in Entries : entry[e].value = b BY <2>4 DEF InIndex
      <3>2. Live(e) BY <2>1, <3>1 DEF Live
      <3>3. PICK m \in Nat : m = Number(e) BY <1>2, <3>2, LiveNumber
      <3>4. PICK n \in Nat : n = Nth(m, k) /\ BlockOf(n) = m /\ n % BLOCK_SIZE = k BY NthTyped
      <3>5. elements[b][k] = IF Stored(n) THEN n ELSE Null
        BY <1>2, <3>1, <3>2, <3>3, <3>4 DEF ContentsOK, ContentOK
      <3>6. ASSUME Stored(n)
            PROVE  n \in headIndex .. (tailIndex - 1) /\ entry[LastFound(n)].value = b
        <4>1. n \in headIndex .. (tailIndex - 1) BY <1>1, <3>6, AllIdle DEF Stored, Alive
        <4>2. LastFound(n) \in Entries /\ Number(LastFound(n)) = m BY <1>1, <3>4, <4>1, FoundLast
        <4>3. Keyed(e) BY <3>3 DEF Keyed
        <4>4. LastFound(n) = e BY <1>2, <3>3, <4>2, <4>3, SameNumber
        <4> QED BY <3>1, <4>1, <4>4
      <3> QED BY <2>2, <3>4, <3>5, <3>6
    <2> QED BY <1>5, <1>12, <2>3, <2>4
  <1>13. BlocksAreKept'
    <2>1. {entry'[header'[blockIndex'].slot[k]].value : k \in Published'} = {} BY <1>8
    <2>2. Cardinality(Published') = 0 /\ Cardinality(InHand') = 0 BY <1>8, <1>9, FS_EmptySet
    <2>3. Cardinality(unused') \in Nat /\ Cardinality(freeList') \in Nat
      BY <1>1, <1>7, BlocksAssumption, FS_Subset, FS_CardinalityType
    <2>4. Cardinality(unused') + Cardinality(freeList') + 0 + 0 = Cardinality(Blocks)
      BY <1>11, <2>3
    <2> QED BY <1>9, <1>10, <1>12, <2>1, <2>2, <2>4 DEF BlocksAreKept
  <1> QED BY <1>1, <1>13 DEF BInv

-----------------------------------------------------------------------------
(* The theorems about the blocks.                                          *)

\* At first no entry has a key, and no block was used.
LEMMA InitIndex == Init => IndexInv
PROOF
  <1> SUFFICES ASSUME Init PROVE IndexInv OBVIOUS
  <1> DEFINE S == IMPLICIT_INITIAL_INDEX_SIZE
             H == [capacity |-> S, tail |-> S - 1, slot |-> [k \in 0 .. (S - 1) |-> k + 1]]
             F == [key |-> INVALID_BLOCK_BASE, value |-> Garbage]
  <1>1. /\ tailIndex = 0 /\ headIndex = 0 /\ at = "idle" /\ newBlock = Null
        /\ entry = [k \in 1 .. S |-> F] /\ header = <<H>>
        /\ elements = [b \in Blocks |-> [k \in Slots |-> Null]]
        /\ dequeued = [b \in Blocks |-> 0] /\ freeList = {} /\ unused = Blocks
        /\ \A c \in Consumers : pc[c] = "idle"
    BY DEF Init, FreshEntries
  <1>2. S \in Nat /\ S >= 2 BY SizeAssumption
  <1>3. /\ H.capacity = S /\ H.tail = S - 1 /\ H.slot = [k \in 0 .. (S - 1) |-> k + 1]
        /\ F.key = INVALID_BLOCK_BASE /\ F.value = Garbage
    OBVIOUS
  <1>4. H \in HeaderType
    <2>1. H.slot \in [0 .. S - 1 -> Nat] BY <1>2
    <2>2. H.slot \in UNION {[0 .. n - 1 -> Nat] : n \in Nat} BY <1>2, <2>1
    <2>3. S - 1 \in Nat BY <1>2
    <2> QED BY <1>2, <1>3, <2>2, <2>3 DEF HeaderType
  <1>5. F \in EntryType BY DEF EntryType, INVALID_BLOCK_BASE
  <1> HIDE DEF S, H, F
  <1>6. /\ entry \in Seq(EntryType) /\ Len(entry) = S /\ Entries = 1 .. S
        /\ \A e \in Entries : entry[e] = F
    <2>1. entry \in [1 .. S -> EntryType] BY <1>1, <1>5
    <2>2. entry \in Seq(EntryType) BY <1>2, <2>1
    <2>3. Len(entry) = S BY <1>1, <1>2
    <2> QED BY <1>1, <2>2, <2>3 DEF Entries
  <1>7. header \in Seq(HeaderType) /\ Len(header) = 1 /\ blockIndex = 1 /\ header[1] = H
    BY <1>1, <1>4 DEF blockIndex
  <1>8. \A e \in Entries : Number(e) = -1 /\ ~Keyed(e) /\ ~Live(e) /\ entry[e].value \notin Blocks
    BY <1>3, <1>6, BlocksAssumption DEF Number, Keyed, Live
  <1>9. LastBlock = -1 /\ Newest = -1 BY <1>1 DEF LastBlock, Newest, Speculative, Before
  <1>10. /\ SlotsOf(1) = 0 .. S - 1
         /\ \A k \in SlotsOf(1) : EntryAt(1, k) = k + 1 /\ EntryAt(1, k) \in Entries
    <2>1. header[1].capacity = S /\ header[1].slot = [k \in 0 .. (S - 1) |-> k + 1]
      BY <1>3, <1>7
    <2>2. SlotsOf(1) = 0 .. S - 1 BY <2>1 DEF SlotsOf
    <2>3. ASSUME NEW k \in 0 .. S - 1 PROVE EntryAt(1, k) = k + 1 /\ k + 1 \in 1 .. S
      <3>1. EntryAt(1, k) = k + 1 BY <2>1 DEF EntryAt
      <3> QED BY <1>2, <3>1
    <2> QED BY <1>6, <2>2, <2>3
  <1>11. IndexOK
    <2>1. IndexTyped BY <1>1, <1>2, <1>6, <1>7 DEF IndexTyped
    <2>2. HeaderOK(1)
      <3>1. header[1].capacity # 0 /\ header[1].tail \in SlotsOf(1)
        BY <1>2, <1>3, <1>7, <1>10
      <3>2. \A k, l \in SlotsOf(1) : EntryAt(1, k) = EntryAt(1, l) => k = l BY <1>2, <1>10
      <3>3. Aligned(1) BY <1>8, <1>10 DEF Aligned
      <3> QED BY <1>7, <1>10, <3>1, <3>2, <3>3 DEF HeaderOK
    <2>3. \A h \in 1 .. blockIndex : HeaderOK(h)
      <3>1. \A h \in 1 .. blockIndex : h = 1 BY <1>7
      <3> QED BY <2>2, <3>1
    <2>4. ASSUME NEW e \in Entries PROVE EntryOK(e) BY <1>8, <1>9 DEF EntryOK
    <2>5. CurrentOK
      <3>1. ASSUME NEW e \in Entries PROVE \E k \in SlotsOf(1) : EntryAt(1, k) = e
        <4>1. e \in 1 .. S BY <1>6
        <4>2. e - 1 \in SlotsOf(1) /\ e - 1 + 1 = e BY <1>2, <1>10, <4>1
        <4> QED BY <1>10, <4>2
      <3> QED BY <1>3, <1>6, <1>7, <1>9, <3>1 DEF CurrentOK
    <2>6. StageOK BY <1>1 DEF StageOK, Speculative
    <2> QED BY <2>1, <2>3, <2>4, <2>5, <2>6 DEF IndexOK
  <1>12. ContentsOK
    <2>1. \A e \in Entries : ContentOK(e) BY <1>8 DEF ContentOK
    <2>2. \A m \in Nat : ~(m <= LastBlock) BY <1>9
    <2> QED BY <1>8, <2>1, <2>2 DEF ContentsOK
  <1>13. KeptOK
    <2>1. \A b \in Blocks : ~Held(b) /\ ~InIndex(b) BY <1>1, <1>8 DEF Held, InIndex
    <2>2. \A b \in Blocks : Once(b) BY <1>1, <2>1, BlocksAssumption DEF Once
    <2>3. \A b \in Blocks : Blank(b) BY <1>1 DEF Blank
    <2>4. elements = [b \in Blocks |-> [k \in Slots |-> elements[b][k]]] BY <1>1
    <2>5. dequeued \in [Blocks -> Nat] BY <1>1
    <2>6. \A e, f \in Entries : Live(e) /\ entry[e].value = entry[f].value => e = f BY <1>8
    <2> QED BY <1>1, <2>2, <2>3, <2>4, <2>5, <2>6 DEF KeptOK
  <1>14. ReadersOK BY <1>1 DEF ReadersOK, Reader, Finding, Looking
  <1>15. Apart
    <2>1. \A c \in Consumers : Uncounted(c) = {} BY <1>1, InitIInv, Idle DEF IInv, Counting
    <2> QED BY <1>1, <2>1 DEF Apart
  <1> QED BY <1>11, <1>12, <1>13, <1>14, <1>15 DEF IndexInv

\* Stuttering.
LEMMA StutterQuiet == ASSUME IInv, IndexInv, UNCHANGED vars PROVE IndexInv'
PROOF
  <1>1. UNCHANGED <<tailIndex, headIndex, entry, header, elements, dequeued, freeList, unused,
                    tailBlock, noexcept, at, newBlock, pc, my>>
    BY DEF vars, counters, blockVars, producerVars, consumerVars
  <1>2. IndexOK /\ ContentsOK /\ KeptOK /\ ReadersOK /\ Apart BY DEF IndexInv
  <1>3. UNCHANGED <<blockVars, newBlock, noexcept>> /\ ProducerWaits
    BY <1>1 DEF blockVars, ProducerWaits
  <1>4. IndexOK' /\ LastBlock' = LastBlock BY <1>1, <1>2, <1>3, IndexWaits
  <1>5. IndexKept /\ LiveKept BY <1>1, <1>2, SameIndex
  <1>6. /\ \A n : Open(n)' <=> Open(n)
        /\ \A c \in Consumers : Uncounted(c)' = Uncounted(c) /\ Claimed(c)' = Claimed(c)
        /\ \A b : Held(b)' <=> Held(b)
        /\ Apart'
    BY <1>1, <1>2, ProducerSets
  <1>7. \A n : Stored(n)' <=> Stored(n)
    <2>1. Alive' = Alive
      <3>1. {n \in headIndex .. (tailIndex - 1) : at # "destroyed"}' =
              {n \in headIndex .. (tailIndex - 1) : at # "destroyed"}
        BY <1>1
      <3> QED BY <1>6, <3>1 DEF Alive
    <2> QED BY <1>1, <2>1 DEF Stored
  <1>8. ContentsOK'
    <2>1. \A c \in Consumers : pc[c] = "clear" => pc'[c] = "clear" /\ my'[c].entry = my[c].entry
      BY <1>1
    <2> QED BY <1>1, <1>2, <1>4, <1>5, <1>6, <1>7, <2>1, QuietContents
  <1>9. KeptOK'
    <2>1. newBlock # Null =>
            /\ at' \in {"construct_first", "publish", "rewind", "empty_entry"}
            /\ at' = "publish" <=> at = "publish"
            /\ tailIndex' = tailIndex
      BY <1>1, <1>2 DEF KeptOK
    <2> QED BY <1>1, <1>2, <1>3, <1>5, <1>6, <2>1, KeptFrame
  <1>10. ReadersOK' BY <1>1, <1>5, ProducerReaders
  <1> QED BY <1>4, <1>6, <1>8, <1>9, <1>10 DEF IndexInv

\* Only the destructor destroys the queue.
LEMMA StillThere ==
  ASSUME at # "destroyed", Next, ~Destroy
  PROVE  at' # "destroyed"
PROOF
  <1>1. CASE ProducerStep
    BY <1>1 DEF ProducerStep, Enqueue, InsertKey, GrowIndex, GrowthFails, Advance, Requisition,
         RequisitionFails, ConstructFirst, FirstThrows, Rewind, EmptyEntry, Publish, Construct,
         ConstructThrows, StoreTail, producerVars
  <1>2. ASSUME NEW c \in Consumers, ConsumerStep(c) PROVE at' = at
    BY <1>2 DEF ConsumerStep, Begin, BeginBulk, LoadHead, LoadTail, LoadOvercommit, Check, Reserve,
         Reload, MakeGood, Claim, LoadHeader, LoadSlot, FindEntry, LoadValue, Take, SetEmpty,
         ClearEntry, FreeBlock, producerVars
  <1> QED BY <1>1, <1>2 DEF Next

\* After the destructor nothing happens.
LEMMA NothingAfter ==
  ASSUME at = "destroyed", \A c \in Consumers : pc[c] = "idle"
  PROVE  ~Next
PROOF
  <1>1. ~ProducerStep
    BY DEF ProducerStep, Enqueue, InsertKey, GrowIndex, GrowthFails, Advance, Requisition,
         RequisitionFails, ConstructFirst, FirstThrows, Rewind, EmptyEntry, Publish, Construct,
         ConstructThrows, StoreTail, Destroy
  <1>2. ASSUME NEW c \in Consumers, ConsumerStep(c) PROVE FALSE
    BY <1>2 DEF ConsumerStep, Begin, BeginBulk, LoadHead, LoadTail, LoadOvercommit, Check, Reserve,
         Reload, MakeGood, Claim, LoadHeader, LoadSlot, FindEntry, LoadValue, Take, SetEmpty,
         ClearEntry, FreeBlock
  <1> QED BY <1>1, <1>2 DEF Next

\* Every step keeps the blocks.
LEMMA BlocksStep == IInv /\ IInv' /\ BInv /\ [Next]_vars => BInv'
PROOF
  <1> SUFFICES ASSUME IInv, IInv', BInv, [Next]_vars PROVE BInv' OBVIOUS
  <1>1. CASE at = "destroyed"
    <2>1. BlocksAreKept /\ \A c \in Consumers : pc[c] = "idle" BY <1>1 DEF BInv
    <2>2. UNCHANGED vars BY <1>1, <2>1, NothingAfter
    <2>3. UNCHANGED <<entry, header, elements, freeList, unused, at, newBlock, pc, my>>
      BY <2>2 DEF vars, blockVars, producerVars, consumerVars
    <2>4. BlocksAreKept'
      <3>1. Published' = Published BY <2>3 DEF Published, blockIndex
      <3>2. InHand' = InHand BY <2>3 DEF InHand
      <3>3. {entry[header[blockIndex].slot[k]].value : k \in Published}'
              = {entry[header[blockIndex].slot[k]].value : k \in Published}
        BY <2>3, <3>1 DEF blockIndex
      <3> QED BY <2>1, <2>3, <3>1, <3>2, <3>3 DEF BlocksAreKept
    <2> QED BY <1>1, <2>1, <2>3, <2>4 DEF BInv
  <1>2. CASE at # "destroyed"
    <2>1. IndexInv BY <1>2 DEF BInv
    <2>2. CASE UNCHANGED vars
      <3>1. at' = at BY <2>2 DEF vars, producerVars
      <3> QED BY <1>2, <2>1, <2>2, <3>1, StutterQuiet DEF BInv
    <2>3. CASE Destroy BY <2>1, <2>3, DestroyBlocks
    <2>4. CASE ProducerStep /\ ~Destroy
      <3>1. IndexInv'
        BY <2>1, <2>4, EnqueueQuiet, InsertKeyQuiet, GrowIndexQuiet, TailMoveQuiet, FailureQuiet,
           StoreTailQuiet, RequisitionStep, ConstructFirstStep, EmptyEntryStep, PublishStep,
           ConstructStep
        DEF ProducerStep
      <3> QED BY <1>2, <2>4, <3>1, StillThere DEF BInv, Next
    <2>5. ASSUME NEW c \in Consumers, ConsumerStep(c), ~Destroy PROVE BInv'
      <3>1. IndexInv'
        BY <1>2, <2>1, <2>5, CountsBlocks, ClaimBlocks, LoadHeaderBlocks, LoadSlotBlocks,
           FindEntryBlocks, LoadValueBlocks, TakeBlocks, SetEmptyBlocks, ClearEntryBlocks,
           FreeBlockBlocks
        DEF ConsumerStep, Counts
      <3> QED BY <1>2, <2>5, <3>1, StillThere DEF BInv, Next
    <2> QED BY <2>2, <2>3, <2>4, <2>5 DEF Next
  <1> QED BY <1>1, <1>2

\* The blocks are where the invariant says, whatever the sizes.
THEOREM BlocksInvariance == Spec => [](IInv /\ BInv)
PROOF
  <1>1. Init => IInv /\ BInv
    <2>1. Init => at # "destroyed" BY DEF Init
    <2> QED BY <2>1, InitIInv, InitIndex DEF BInv
  <1>2. IInv /\ BInv /\ [Next]_vars => IInv' /\ BInv' BY Step, BlocksStep
  <1> QED BY <1>1, <1>2, PTL DEF Spec

\* An element that is alive is in the block of its entry.
LEMMA AliveFound ==
  ASSUME IInv, IndexInv, NEW n \in Alive
  PROVE  /\ n \in Nat /\ BlockOf(n) \in Nat
         /\ \E e \in Entries : Number(e) = BlockOf(n) /\ Live(e)
         /\ \A e \in Entries : Number(e) = BlockOf(n) =>
              /\ Live(e) /\ entry[e].key = Base(n) /\ elements[entry[e].value][n % BLOCK_SIZE] = n
PROOF
  <1>1. /\ IndexOK /\ ContentsOK /\ ReadersOK /\ headIndex \in Nat /\ tailIndex \in Nat
        /\ headIndex <= tailIndex
    BY Counters DEF IndexInv
  <1>2. Stored(n) BY DEF Stored
  <1>3. Open(n) /\ n \in Nat BY <1>1, <1>2, StoredIsOpen
  <1>4. n < tailIndex
    <2>1. CASE n \in headIndex .. (tailIndex - 1) BY <1>1, <2>1
    <2>2. ASSUME NEW c \in Consumers, n \in Claimed(c) PROVE n < tailIndex
      BY <1>1, <2>2, Intervals
    <2> QED BY <2>1, <2>2 DEF Alive
  <1>5. BlockOf(n) \in Nat /\ BlockOf(n) <= LastBlock BY <1>3, <1>4, Counters, BlockOfFacts
  <1>6. /\ \E e \in Entries : Number(e) = BlockOf(n) /\ Live(e)
        /\ \A e \in Entries : Number(e) = BlockOf(n) => Live(e)
    BY <1>1, <1>3, <1>5, OpenBlock
  <1>7. ASSUME NEW e \in Entries, Number(e) = BlockOf(n)
        PROVE  /\ Live(e) /\ entry[e].key = Base(n)
               /\ elements[entry[e].value][n % BLOCK_SIZE] = n
    <2>1. Live(e) BY <1>6, <1>7
    <2>2. entry[e].key = Base(n) BY <1>1, <1>3, <1>7, <2>1, LiveNumber, BlockOfFacts
    <2>3. PICK k \in Slots : k = n % BLOCK_SIZE BY <1>3, BlockOfFacts
    <2>4. n = Nth(Number(e), k) BY <1>3, <1>7, <2>3, BlockOfFacts DEF Nth
    <2>5. elements[entry[e].value][k] =
            IF Stored(Nth(Number(e), k)) THEN Nth(Number(e), k) ELSE Null
      BY <1>1, <2>1 DEF ContentsOK, ContentOK
    <2> QED BY <1>2, <2>1, <2>2, <2>3, <2>4, <2>5
  <1> QED BY <1>3, <1>5, <1>6, <1>7

\* Four parts of a set that share nothing.
LEMMA FourParts ==
  ASSUME NEW S, IsFiniteSet(S), NEW A, NEW B, NEW C, NEW D, A \cup B \cup C \cup D = S,
         A \cap B = {}, (A \cup B) \cap C = {}, (A \cup B \cup C) \cap D = {}
  PROVE  Cardinality(A) + Cardinality(B) + Cardinality(C) + Cardinality(D) = Cardinality(S)
PROOF
  <1>1. /\ A \subseteq S /\ B \subseteq S /\ C \subseteq S /\ D \subseteq S
        /\ (A \cup B) \subseteq S /\ (A \cup B \cup C) \subseteq S
    OBVIOUS
  <1>2. /\ IsFiniteSet(A) /\ IsFiniteSet(B) /\ IsFiniteSet(C) /\ IsFiniteSet(D)
        /\ IsFiniteSet(A \cup B) /\ IsFiniteSet(A \cup B \cup C)
    BY <1>1, FS_Subset
  <1>3. /\ Cardinality(A) \in Nat /\ Cardinality(B) \in Nat /\ Cardinality(C) \in Nat
        /\ Cardinality(D) \in Nat
    BY <1>2, FS_CardinalityType
  <1>4. Cardinality({}) = 0 BY FS_EmptySet
  <1>5. Cardinality(A \cup B) = Cardinality(A) + Cardinality(B)
    <2>1. Cardinality(A \cup B) = Cardinality(A) + Cardinality(B) - Cardinality(A \cap B)
      BY <1>2, FS_Union
    <2>2. Cardinality(A \cap B) = 0 BY <1>4
    <2> QED BY <1>3, <2>1, <2>2
  <1>6. Cardinality(A \cup B \cup C) = Cardinality(A) + Cardinality(B) + Cardinality(C)
    <2>1. Cardinality((A \cup B) \cup C) =
            Cardinality(A \cup B) + Cardinality(C) - Cardinality((A \cup B) \cap C)
      BY <1>2, FS_Union
    <2>2. Cardinality((A \cup B) \cap C) = 0 BY <1>4
    <2> QED BY <1>3, <1>5, <2>1, <2>2
  <1>7. Cardinality((A \cup B \cup C) \cup D) =
          Cardinality(A \cup B \cup C) + Cardinality(D) - Cardinality((A \cup B \cup C) \cap D)
    BY <1>2, FS_Union
  <1>8. Cardinality((A \cup B \cup C) \cap D) = 0 BY <1>4
  <1>9. Cardinality(S) = Cardinality(A \cup B \cup C) + Cardinality(D) - 0 BY <1>7, <1>8
  <1> QED BY <1>3, <1>6, <1>9

\* The blocks of the current header are those of the entries, each once.
Values == {entry[header[blockIndex].slot[k]].value : k \in Published}

\* The slots that have blocks are as many as the blocks in the index.
LEMMA PublishedBlocks ==
  ASSUME IndexInv, at # "destroyed"
  PROVE  /\ Values = {b \in Blocks : InIndex(b)}
         /\ Cardinality(Published) = Cardinality(Values)
PROOF
  <1>1. IndexOK /\ KeptOK BY DEF IndexInv
  <1>2. PICK h \in 1 .. blockIndex : h = blockIndex BY <1>1, Current
  <1>3. Published = {k \in SlotsOf(h) : Live(EntryAt(h, k))}
    BY <1>2 DEF Published, SlotsOf, EntryAt, Live
  <1>4. \A k \in SlotsOf(h) : EntryAt(h, k) \in Entries BY <1>1, HeaderTyped
  <1>5. Values = {entry[EntryAt(h, k)].value : k \in Published} BY <1>2 DEF Values, EntryAt
  <1>6. Values = {b \in Blocks : InIndex(b)}
    <2>1. ASSUME NEW b \in Values PROVE b \in Blocks /\ InIndex(b)
      BY <1>3, <1>4, <1>5, <2>1 DEF InIndex, Live
    <2>2. ASSUME NEW b \in Blocks, InIndex(b) PROVE b \in Values
      <3>1. PICK e \in Entries : entry[e].value = b BY <2>2 DEF InIndex
      <3>2. PICK k \in SlotsOf(h) : EntryAt(h, k) = e
        BY <1>1, <1>2 DEF IndexOK, CurrentOK
      <3>3. k \in Published BY <1>3, <2>2, <3>1, <3>2 DEF Live
      <3> QED BY <1>5, <3>1, <3>2, <3>3
    <2> QED BY <2>1, <2>2
  <1>7. IsFiniteSet(Published)
    <2>1. PICK m \in Int : m = header[h].capacity - 1 BY <1>1, HeaderTyped
    <2>2. IsFiniteSet(0 .. m) BY FS_Interval
    <2>3. IsFiniteSet(SlotsOf(h)) BY <2>1, <2>2 DEF SlotsOf
    <2> QED BY <1>3, <2>3, FS_Subset
  <1> DEFINE f == [k \in Published |-> entry[EntryAt(h, k)].value]
  <1>8. f \in Surjection(Published, Values) BY <1>5 DEF Surjection
  <1>9. \A k, l \in Published : f[k] = f[l] => k = l
    <2> SUFFICES ASSUME NEW k \in Published, NEW l \in Published, f[k] = f[l] PROVE k = l
      OBVIOUS
    <2>1. /\ k \in SlotsOf(h) /\ l \in SlotsOf(h) /\ Live(EntryAt(h, k))
          /\ EntryAt(h, k) \in Entries /\ EntryAt(h, l) \in Entries
      BY <1>3, <1>4
    <2>2. EntryAt(h, k) = EntryAt(h, l) BY <1>1, <2>1 DEF KeptOK
    <2> QED BY <1>1, <2>1, <2>2 DEF IndexOK, HeaderOK
  <1>10. f \in Injection(Published, Values) BY <1>8, <1>9 DEF Injection, Surjection, IsInjective
  <1> HIDE DEF f
  <1>11. Cardinality(Values) = Cardinality(Published) BY <1>7, <1>8, <1>10, FS_Surjection
  <1> QED BY <1>6, <1>11

\* An element in the queue is in the block that the index has under its base, until it is moved
\* out, and the consumer that claimed it finds it there, whatever the producer did to the index
\* since the consumer loaded its header: extended it, advanced or rewound its tail, gave an entry
\* to another block.
THEOREM ElementsFound == Spec => []ElementsAreFound
PROOF
  <1>1. IInv /\ BInv => ElementsAreFound
    <2> SUFFICES ASSUME IInv, BInv PROVE ElementsAreFound OBVIOUS
    <2>1. CASE at = "destroyed"
      <3>1. \A c \in Consumers : pc[c] = "idle" BY <2>1 DEF BInv
      <3>2. \A c \in Consumers : Claimed(c) = {} BY <3>1, Idle DEF IInv, Counting
      <3>3. Alive = {} BY <2>1, <3>2 DEF Alive
      <3> QED BY <3>1, <3>3 DEF ElementsAreFound
    <2>2. CASE at # "destroyed"
      <3>1. IndexInv BY <2>2 DEF BInv
      <3>2. IndexOK /\ ReadersOK BY <3>1 DEF IndexInv
      <3>3. ASSUME NEW n \in Alive
            PROVE  \E e \in 1 .. Len(entry) :
                     /\ entry[e].key = Base(n) /\ entry[e].value \in Blocks
                     /\ elements[entry[e].value][n % BLOCK_SIZE] = n
        BY <3>1, AliveFound DEF Entries, Live
      <3>4. ASSUME NEW c \in Consumers, pc[c] = "value"
            PROVE  entry[my[c].entry].key = Base(my[c].index)
        <4>1. /\ my[c].entry \in Entries /\ Live(my[c].entry)
              /\ Number(my[c].entry) = BlockOf(my[c].index) /\ my[c].index \in Nat
          BY <3>2, <3>4 DEF ReadersOK, Reader, Finding, Looking
        <4> QED BY <3>2, <4>1, LiveNumber, BlockOfFacts
      <3>5. ASSUME NEW c \in Consumers, pc[c] = "take"
            PROVE  /\ my[c].block \in Blocks
                   /\ \A n \in my[c].index .. (my[c].index + Here(c) - 1) :
                        elements[my[c].block][n % BLOCK_SIZE] = n
        <4>1. /\ my[c].entry \in Entries /\ my[c].block = entry[my[c].entry].value
              /\ my[c].block \in Blocks /\ Number(my[c].entry) = BlockOf(my[c].index)
              /\ \A n : n \in Uncounted(c) <=> n \in Taken(c) \/ n \in Rest(c)
              /\ \A n \in Taken(c) : BlockOf(n) = BlockOf(my[c].index)
          BY <3>1, <3>5, TakenFacts
        <4>2. Claimed(c) = Uncounted(c) BY <3>5 DEF Claimed, Uncounted, Looking
        <4>3. ASSUME NEW n \in Taken(c) PROVE elements[my[c].block][n % BLOCK_SIZE] = n
          <5>1. n \in Alive BY <4>1, <4>2 DEF Alive
          <5> QED BY <3>1, <4>1, <5>1, AliveFound
        <4> QED BY <4>1, <4>3 DEF Taken
      <3> QED BY <3>3, <3>4, <3>5 DEF ElementsAreFound
    <2> QED BY <2>1, <2>2
  <1> QED BY <1>1, BlocksInvariance, PTL

\* No block is lost, or in two places, or free while it holds an element; also when an enqueue
\* fails for want of a block or in the element's constructor.  The destructor frees each once.
THEOREM BlocksKept == Spec => []BlocksAreKept
PROOF
  <1>1. IInv /\ BInv => BlocksAreKept
    <2> SUFFICES ASSUME IInv, BInv, at # "destroyed" PROVE BlocksAreKept BY DEF BInv
    <2>1. IndexInv BY DEF BInv
    <2>2. KeptOK /\ ReadersOK BY <2>1 DEF IndexInv
    <2>3. /\ Values = {b \in Blocks : InIndex(b)}
          /\ Cardinality(Published) = Cardinality(Values)
      BY <2>1, PublishedBlocks
    <2>4. InHand = {b \in Blocks : b = newBlock \/ Held(b)}
      <3>1. \A c \in Consumers : pc[c] = "free" => my[c].block \in Blocks
        BY <2>2 DEF ReadersOK, Reader
      <3> QED BY <3>1 DEF InHand, Held
    <2>5. \A b \in Blocks : Once(b) BY <2>2 DEF KeptOK
    <2>6. unused \subseteq Blocks /\ freeList \subseteq Blocks BY <2>2 DEF KeptOK
    <2>7. /\ unused \cup freeList \cup InHand \cup Values = Blocks
          /\ unused \cap freeList = {} /\ (unused \cup freeList) \cap InHand = {}
          /\ (unused \cup freeList \cup InHand) \cap Values = {}
      BY <2>3, <2>4, <2>5, <2>6 DEF Once
    <2>8. Cardinality(unused) + Cardinality(freeList) + Cardinality(InHand) + Cardinality(Values)
            = Cardinality(Blocks)
      <3>1. IsFiniteSet(Blocks) BY BlocksAssumption
      <3>2. PICK V : V = Values OBVIOUS
      <3>3. PICK A : A = unused OBVIOUS
      <3>4. PICK B : B = freeList OBVIOUS
      <3>5. PICK C : C = InHand OBVIOUS
      <3>6. /\ A \cup B \cup C \cup V = Blocks
            /\ A \cap B = {} /\ (A \cup B) \cap C = {} /\ (A \cup B \cup C) \cap V = {}
        BY <2>7, <3>2, <3>3, <3>4, <3>5
      <3>7. Cardinality(A) + Cardinality(B) + Cardinality(C) + Cardinality(V) = Cardinality(Blocks)
        BY <3>1, <3>6, FourParts
      <3> QED BY <3>2, <3>3, <3>4, <3>5, <3>7
    <2>9. IsFiniteSet(InHand) /\ IsFiniteSet(Values) /\ IsFiniteSet(unused) /\ IsFiniteSet(freeList)
      BY <2>3, <2>4, <2>6, BlocksAssumption, FS_Subset
    <2>10. /\ Cardinality(InHand) \in Nat /\ Cardinality(Values) \in Nat
           /\ Cardinality(unused) \in Nat /\ Cardinality(freeList) \in Nat
      BY <2>9, FS_CardinalityType
    <2>11. Cardinality(unused) + Cardinality(freeList) + Cardinality(Published) + Cardinality(InHand)
             = Cardinality(Blocks)
      BY <2>3, <2>8, <2>10
    <2>12. \A b \in freeList, k \in Slots : elements[b][k] = Null BY <2>2, <2>6 DEF KeptOK, Blank
    <2> QED BY <2>7, <2>11, <2>12 DEF BlocksAreKept, Values
  <1> QED BY <1>1, BlocksInvariance, PTL
=============================================================================
