-------------------------- MODULE ImplicitProducer --------------------------
(***************************************************************************)
(* One ImplicitProducer of moodycamel::ConcurrentQueue: what enqueue,      *)
(* try_dequeue and try_dequeue_bulk without tokens come to when one thread *)
(* enqueues.  Elements are named by their index.  Every step reads or      *)
(* writes one shared variable, in the order of the code; the memory is     *)
(* sequentially consistent, and indices do not wrap around.                *)
(*                                                                         *)
(* A consumer reserves (dequeueOptimisticCount), checks again, makes good  *)
(* what it cannot have (dequeueOvercommit) and claims the rest             *)
(* (headIndex); dequeue is dequeue_bulk for one element.  It finds the     *)
(* blocks of its indices in the block index, which the producer extends    *)
(* and reuses meanwhile; who empties a block gives it back.                *)
(***************************************************************************)
EXTENDS Integers, FiniteSets, Sequences

CONSTANTS
  Consumers,
  Blocks,           \* blocks of the initial pool and of the heap
  BLOCK_SIZE,
  IMPLICIT_INITIAL_INDEX_SIZE,
  MaxElements,      \* bound on the elements enqueued
  MaxReserved,      \* bound on dequeueOptimisticCount
  MaxBulk,          \* bound on max of dequeue_bulk
  Null              \* nullptr, and a slot of a block without an element

ASSUME ConsumersAssumption == IsFiniteSet(Consumers)
ASSUME SizeAssumption == BLOCK_SIZE \in Nat \ {0, 1}
                         /\ IMPLICIT_INITIAL_INDEX_SIZE \in Nat \ {0, 1}
ASSUME BoundsAssumption == MaxElements \in Nat /\ MaxReserved \in Nat /\ MaxBulk \in Nat

VARIABLES
  tailIndex, headIndex, dequeueOptimisticCount, dequeueOvercommit,
  entry,     \* the BlockIndexEntry objects, in the order of their creation
  header,    \* the BlockIndexHeader objects; blockIndex points to the last one
  elements,  \* block -> slot -> element
  dequeued,  \* block -> elementsCompletelyDequeued
  freeList,  \* blocks on the free list
  unused,    \* blocks of the pool and the heap that were never taken
  tailBlock,
  noexcept,  \* whether constructing a T cannot throw
  at,        \* the producer's next step
  newBlock,  \* the producer's local
  pc,        \* consumer -> its next step
  my,        \* consumer -> its locals
  dooms      \* history: consumer -> reservations that others lost during its try_dequeue

counters == <<tailIndex, headIndex, dequeueOptimisticCount, dequeueOvercommit>>
blockVars == <<elements, dequeued, freeList, unused>>
producerVars == <<tailBlock, noexcept, at, newBlock>>
consumerVars == <<pc, my, dooms>>
vars == <<counters, entry, header, blockVars, producerVars, consumerVars>>

INVALID_BLOCK_BASE == 1
Garbage == -1 \* the value of a BlockIndexEntry that was never stored

ASSUME BlocksAssumption == /\ IsFiniteSet(Blocks) /\ Null \notin Blocks /\ Garbage \notin Blocks
                           /\ Null # Garbage

Slots == 0..(BLOCK_SIZE - 1)
Base(n) == n - (n % BLOCK_SIZE)
blockIndex == Len(header)

\* The locals of a consumer: tail of size_approx; tail, overcommit and, less that,
\* myDequeueCount; how many elements it wants, has reserved or has claimed, and how many of
\* its reservations it has lost; the index it has come to with the header, slot and entry it
\* looks that up with and the block it finds.  They are reset where they die.
NoLocals == [size_tail |-> 0, tail |-> 0, overcommit |-> 0, count |-> 0, want |-> 0, lost |-> 0,
             index |-> 0, header |-> 0, slot |-> 0, entry |-> 0, block |-> Null]

LeastOf(m, n) == IF m < n THEN m ELSE n

\* The old entries are copied from the oldest to the newest, and as many new ones follow.
ExtendedIndex(old) ==
  LET size == old.capacity
  IN [capacity |-> 2 * size,
      tail |-> size - 1,
      slot |-> [k \in 0..(2 * size - 1) |->
                  IF k < size THEN old.slot[(old.tail + 1 + k) % size]
                  ELSE Len(entry) + 1 + k - size]]

FreshEntries(count) == [k \in 1..count |-> [key |-> INVALID_BLOCK_BASE, value |-> Garbage]]

Init ==
  /\ tailIndex = 0 /\ headIndex = 0 /\ dequeueOptimisticCount = 0 /\ dequeueOvercommit = 0
  /\ entry = FreshEntries(IMPLICIT_INITIAL_INDEX_SIZE)
  /\ header = <<[capacity |-> IMPLICIT_INITIAL_INDEX_SIZE,
                 tail |-> IMPLICIT_INITIAL_INDEX_SIZE - 1,
                 slot |-> [k \in 0..(IMPLICIT_INITIAL_INDEX_SIZE - 1) |-> k + 1]]>>
  /\ elements = [b \in Blocks |-> [k \in Slots |-> Null]]
  /\ dequeued = [b \in Blocks |-> 0]
  /\ freeList = {} /\ unused = Blocks
  /\ tailBlock = Null /\ noexcept \in BOOLEAN
  /\ at = "idle" /\ newBlock = Null
  /\ pc = [c \in Consumers |-> "idle"]
  /\ my = [c \in Consumers |-> NoLocals] /\ dooms = [c \in Consumers |-> 0]

\* get_block_index_index_for_index: the entry of the block of n is as many blocks before the
\* entry in slot tail as the key of that one tells.
SlotOf(n, h, tail) ==
  LET tailBase == entry[h.slot[tail]].key
      offset == (Base(n) - tailBase) \div BLOCK_SIZE
  IN (tail + offset) % h.capacity

EntryOf(n, h, tail) == h.slot[SlotOf(n, h, tail)]

-----------------------------------------------------------------------------
(* The producer: enqueue, and its destructor.                              *)

NewTail(h) == (header[h].tail + 1) % header[h].capacity
NewEntry == header[blockIndex].slot[NewTail(blockIndex)]
TailEntry == header[blockIndex].slot[header[blockIndex].tail]

\* A new block begins at every multiple of BLOCK_SIZE.
Enqueue ==
  /\ at = "idle" /\ tailIndex < MaxElements
  /\ at' = IF tailIndex % BLOCK_SIZE = 0 THEN "insert" ELSE "construct"
  /\ UNCHANGED <<counters, entry, header, blockVars, tailBlock, noexcept, newBlock, consumerVars>>

\* Mutant of HasRoom: the oldest entry is reused while its block has elements.
AlwaysRoom(e) == TRUE
HasRoom(e) == entry[e].key = INVALID_BLOCK_BASE \/ entry[e].value = Null

\* insert_block_index_entry: the key of the next entry is stored if its block is gone.
InsertKey ==
  /\ at = "insert" /\ HasRoom(NewEntry)
  /\ entry' = [entry EXCEPT ![NewEntry].key = tailIndex]
  /\ at' = "advance"
  /\ UNCHANGED <<counters, header, blockVars, tailBlock, noexcept, newBlock, consumerVars>>

\* new_block_index doubles the index, or malloc fails and so does the enqueue.
GrowIndex ==
  /\ at = "insert" /\ ~HasRoom(NewEntry)
  /\ header' = Append(header, ExtendedIndex(header[blockIndex]))
  /\ entry' = entry \o FreshEntries(header[blockIndex].capacity)
  /\ UNCHANGED <<counters, blockVars, producerVars, consumerVars>>

GrowthFails ==
  /\ at = "insert" /\ ~HasRoom(NewEntry)
  /\ at' = "idle"
  /\ UNCHANGED <<counters, entry, header, blockVars, tailBlock, noexcept, newBlock, consumerVars>>

Advance ==
  /\ at = "advance"
  /\ header' = [header EXCEPT ![blockIndex].tail = NewTail(blockIndex)]
  /\ at' = "requisition"
  /\ UNCHANGED <<counters, entry, blockVars, tailBlock, noexcept, newBlock, consumerVars>>

\* requisition_block and reset_empty.  A T that may throw is constructed before the block is
\* published.
Requisition ==
  /\ at = "requisition"
  /\ \E b \in unused \cup freeList :
       /\ newBlock' = b
       /\ unused' = unused \ {b} /\ freeList' = freeList \ {b}
       /\ dequeued' = [dequeued EXCEPT ![b] = 0]
  /\ at' = IF noexcept THEN "publish" ELSE "construct_first"
  /\ UNCHANGED <<counters, entry, header, elements, tailBlock, noexcept, consumerVars>>

RequisitionFails ==
  /\ at = "requisition"
  /\ at' = "rewind"
  /\ UNCHANGED <<counters, entry, header, blockVars, tailBlock, noexcept, newBlock, consumerVars>>

ConstructFirst ==
  /\ at = "construct_first"
  /\ elements' = [elements EXCEPT ![newBlock][tailIndex % BLOCK_SIZE] = tailIndex]
  /\ at' = "publish"
  /\ UNCHANGED <<counters, entry, header, dequeued, freeList, unused, tailBlock, noexcept,
                 newBlock, consumerVars>>

FirstThrows ==
  /\ at = "construct_first"
  /\ at' = "rewind"
  /\ UNCHANGED <<counters, entry, header, blockVars, tailBlock, noexcept, newBlock, consumerVars>>

\* rewind_block_index_tail; the entry is emptied, and the block given back if there is one.
Rewind ==
  /\ at = "rewind"
  /\ header' = [header EXCEPT ![blockIndex].tail = (@ - 1) % header[blockIndex].capacity]
  /\ at' = "empty_entry"
  /\ UNCHANGED <<counters, entry, blockVars, tailBlock, noexcept, newBlock, consumerVars>>

\* Mutant of GivenBack: the block is forgotten when constructing the element throws.
NotGivenBack(b) == {}
GivenBack(b) == {b} \ {Null}

EmptyEntry ==
  /\ at = "empty_entry"
  /\ entry' = [entry EXCEPT ![NewEntry].value = Null]
  /\ freeList' = freeList \cup GivenBack(newBlock)
  /\ newBlock' = Null
  /\ at' = "idle"
  /\ UNCHANGED <<counters, header, elements, dequeued, unused, tailBlock, noexcept, consumerVars>>

Publish ==
  /\ at = "publish"
  /\ entry' = [entry EXCEPT ![TailEntry].value = newBlock]
  /\ tailBlock' = newBlock /\ newBlock' = Null
  /\ at' = IF noexcept THEN "construct" ELSE "store_tail"
  /\ UNCHANGED <<counters, header, blockVars, noexcept, consumerVars>>

Construct ==
  /\ at = "construct"
  /\ elements' = [elements EXCEPT ![tailBlock][tailIndex % BLOCK_SIZE] = tailIndex]
  /\ at' = "store_tail"
  /\ UNCHANGED <<counters, entry, header, dequeued, freeList, unused, tailBlock, noexcept,
                 newBlock, consumerVars>>

ConstructThrows ==
  /\ at = "construct" /\ ~noexcept
  /\ at' = "idle"
  /\ UNCHANGED <<counters, entry, header, blockVars, tailBlock, noexcept, newBlock, consumerVars>>

StoreTail ==
  /\ at = "store_tail"
  /\ tailIndex' = tailIndex + 1
  /\ at' = "idle"
  /\ UNCHANGED <<headIndex, dequeueOptimisticCount, dequeueOvercommit, entry, header, blockVars,
                 tailBlock, noexcept, newBlock, consumerVars>>

LastBlockLeft == tailBlock # Null /\ (headIndex # tailIndex \/ tailIndex % BLOCK_SIZE # 0)

\* ~ImplicitProducer, when nobody uses the queue: the elements that are left are destroyed.
\* Each block is freed when the next one is reached, and the last one after the loop.
Destroy ==
  /\ at = "idle" /\ \A c \in Consumers : pc[c] = "idle"
  /\ LET left == headIndex..(tailIndex - 1)
         last == header[blockIndex]
         Block(n) == entry[EntryOf(n, last, last.tail)].value
     IN /\ freeList' = freeList \cup {Block(n) : n \in {k \in left : Base(k) # Base(tailIndex - 1)}}
                          \cup (IF LastBlockLeft THEN {tailBlock} ELSE {})
        /\ elements' = [b \in Blocks |->
                          [k \in Slots |-> IF \E n \in left : Block(n) = b /\ n % BLOCK_SIZE = k
                                           THEN Null ELSE elements[b][k]]]
  /\ at' = "destroyed"
  /\ UNCHANGED <<counters, entry, header, dequeued, unused, tailBlock, noexcept, newBlock,
                 consumerVars>>

ProducerStep ==
  \/ Enqueue \/ InsertKey \/ GrowIndex \/ GrowthFails \/ Advance
  \/ Requisition \/ RequisitionFails \/ ConstructFirst \/ FirstThrows \/ Rewind \/ EmptyEntry
  \/ Publish \/ Construct \/ ConstructThrows \/ StoreTail \/ Destroy

-----------------------------------------------------------------------------
(* A consumer: try_dequeue, which looks at size_approx, and dequeue.       *)

Goto(c, label) == pc' = [pc EXCEPT ![c] = label]

\* The sum of f over the consumers: of each as many units as f says.
SumOf(f) == Cardinality(UNION {{c} \X (1 .. f[c]) : c \in Consumers})

\* Reservations that were lost and are not made good yet.
Losses(c) == IF pc[c] \in {"give_up", "lost_some"} THEN my[c].lost ELSE 0
Lost == SumOf([c \in Consumers |-> Losses(c)])

\* try_dequeue: size_approx loads the tail and then the head.  try_dequeue_bulk does not look
\* at it.
Begin(c) ==
  /\ pc[c] = "idle" /\ at # "destroyed"
  /\ my' = [my EXCEPT ![c].size_tail = tailIndex, ![c].want = 1]
  /\ dooms' = [dooms EXCEPT ![c] = Lost]
  /\ Goto(c, "size")
  /\ UNCHANGED <<counters, entry, header, blockVars, producerVars>>

BeginBulk(c, max) ==
  /\ pc[c] = "idle" /\ at # "destroyed"
  /\ my' = [my EXCEPT ![c].want = max]
  /\ Goto(c, "tail")
  /\ UNCHANGED <<counters, entry, header, blockVars, producerVars, dooms>>

\* A dequeue that finds nothing: the locals and the history end.
Fail(c) ==
  /\ Goto(c, "idle")
  /\ my' = [my EXCEPT ![c] = NoLocals]
  /\ dooms' = [dooms EXCEPT ![c] = 0]

LoadHead(c) ==
  /\ pc[c] = "size"
  /\ IF headIndex < my[c].size_tail THEN Goto(c, "tail") /\ UNCHANGED <<my, dooms>> ELSE Fail(c)
  /\ UNCHANGED <<counters, entry, header, blockVars, producerVars>>

LoadTail(c) ==
  /\ pc[c] = "tail"
  /\ my' = [my EXCEPT ![c].tail = tailIndex]
  /\ Goto(c, "overcommit")
  /\ UNCHANGED <<counters, entry, header, blockVars, producerVars, dooms>>

LoadOvercommit(c) ==
  /\ pc[c] = "overcommit"
  /\ my' = [my EXCEPT ![c].overcommit = dequeueOvercommit]
  /\ Goto(c, "check")
  /\ UNCHANGED <<counters, entry, header, blockVars, producerVars, dooms>>

\* desiredCount.
Desired(c) == my[c].tail - (dequeueOptimisticCount - my[c].overcommit)

Check(c) ==
  /\ pc[c] = "check"
  /\ IF Desired(c) > 0
       THEN /\ Goto(c, "reserve")
            /\ my' = [my EXCEPT ![c].want = LeastOf(Desired(c), @), ![c].tail = 0]
            /\ UNCHANGED dooms
       ELSE Fail(c)
  /\ UNCHANGED <<counters, entry, header, blockVars, producerVars>>

Reserve(c) ==
  /\ pc[c] = "reserve" /\ dequeueOptimisticCount + my[c].want <= MaxReserved
  /\ my' = [my EXCEPT ![c].count = dequeueOptimisticCount - my[c].overcommit, ![c].overcommit = 0]
  /\ dequeueOptimisticCount' = dequeueOptimisticCount + my[c].want
  /\ Goto(c, "reload")
  /\ UNCHANGED <<tailIndex, headIndex, dequeueOvercommit, entry, header, blockVars,
                 producerVars, dooms>>

\* Mutant of Actual: the tail is not loaded again.
ActualUnchecked(c) == my[c].want
\* actualCount: how many of its reservations it may claim, by the tail it loads again.
Actual(c) ==
  LET n == tailIndex - my[c].count
  IN IF n > 0 THEN LeastOf(n, my[c].want) ELSE 0

Dequeues(c) ==
  my[c].size_tail > 0 /\ pc[c] \in {"size", "tail", "overcommit", "check", "reserve", "reload"}

Reload(c) ==
  /\ pc[c] = "reload"
  /\ LET lost == my[c].want - Actual(c)
     IN /\ Goto(c, IF Actual(c) = 0 THEN "give_up" ELSE IF lost > 0 THEN "lost_some" ELSE "claim")
        /\ my' = [my EXCEPT ![c] = [NoLocals EXCEPT !.want = Actual(c), !.lost = lost]]
        /\ dooms' = [d \in Consumers |-> IF d # c /\ Dequeues(d) THEN dooms[d] + lost
                                          ELSE 0]
  /\ UNCHANGED <<counters, entry, header, blockVars, producerVars>>

\* Mutant of MadeGood: reservations that failed are not made good.
NotMadeGood(n) == 0
MadeGood(n) == n

MakeGood(c) ==
  /\ pc[c] \in {"give_up", "lost_some"}
  /\ dequeueOvercommit' = dequeueOvercommit + MadeGood(my[c].lost)
  /\ IF pc[c] = "give_up"
       THEN Goto(c, "idle") /\ my' = [my EXCEPT ![c] = NoLocals]
       ELSE Goto(c, "claim") /\ my' = [my EXCEPT ![c].lost = 0]
  /\ UNCHANGED <<tailIndex, headIndex, dequeueOptimisticCount, entry, header, blockVars,
                 producerVars, dooms>>

Claim(c) ==
  /\ pc[c] = "claim"
  /\ my' = [my EXCEPT ![c].index = headIndex]
  /\ headIndex' = headIndex + my[c].want
  /\ Goto(c, "header")
  /\ UNCHANGED <<tailIndex, dequeueOptimisticCount, dequeueOvercommit, entry, header, blockVars,
                 producerVars, dooms>>

\* get_block_index_index_for_index: the block index, its tail, and the entry.
LoadHeader(c) ==
  /\ pc[c] = "header"
  /\ my' = [my EXCEPT ![c].header = blockIndex]
  /\ Goto(c, "slot")
  /\ UNCHANGED <<counters, entry, header, blockVars, producerVars, dooms>>

LoadSlot(c) ==
  /\ pc[c] = "slot"
  /\ my' = [my EXCEPT ![c].slot = header[my[c].header].tail]
  /\ Goto(c, "entry")
  /\ UNCHANGED <<counters, entry, header, blockVars, producerVars, dooms>>

\* The elements it has claimed in the block it has come to.
Here(c) == LeastOf(my[c].want, BLOCK_SIZE - (my[c].index % BLOCK_SIZE))

FindEntry(c) ==
  /\ pc[c] = "entry"
  /\ LET h == header[my[c].header]
         more == my[c].want > Here(c)
     IN my' = [my EXCEPT ![c].entry = EntryOf(my[c].index, h, my[c].slot),
                         ![c].header = IF more THEN @ ELSE 0,
                         ![c].slot = IF more THEN SlotOf(my[c].index, h, @) ELSE 0]
  /\ Goto(c, "value")
  /\ UNCHANGED <<counters, entry, header, blockVars, producerVars, dooms>>

LoadValue(c) ==
  /\ pc[c] = "value"
  /\ my' = [my EXCEPT ![c].block = entry[my[c].entry].value]
  /\ Goto(c, "take")
  /\ UNCHANGED <<counters, entry, header, blockVars, producerVars, dooms>>

\* The elements, which are the consumer's alone, are moved out and destroyed, also those
\* behind one that throws.
Take(c) ==
  /\ pc[c] = "take"
  /\ LET first == my[c].index % BLOCK_SIZE
     IN elements' = [elements EXCEPT ![my[c].block] =
                       [k \in Slots |-> IF k \in first..(first + Here(c) - 1) THEN Null ELSE @[k]]]
  /\ Goto(c, "set_empty")
  /\ UNCHANGED <<counters, entry, header, dequeued, freeList, unused, producerVars, my, dooms>>

\* The next block of a bulk is in the next slot of the same header.
NextBlock(c) ==
  LET rest == my[c].want - Here(c)
      more == rest > BLOCK_SIZE
      h == header[my[c].header]
      slot == (my[c].slot + 1) % h.capacity
  IN IF rest = 0
     THEN Goto(c, "idle") /\ my' = [my EXCEPT ![c] = NoLocals]
     ELSE /\ Goto(c, "value")
          /\ my' = [my EXCEPT ![c].want = rest, ![c].index = @ + Here(c),
                              ![c].entry = h.slot[slot],
                              ![c].header = IF more THEN @ ELSE 0,
                              ![c].slot = IF more THEN slot ELSE 0, ![c].block = Null]

IsEmptied(count) == count = BLOCK_SIZE

\* set_empty, set_many_empty.
SetEmpty(c) ==
  /\ pc[c] = "set_empty"
  /\ dequeued' = [dequeued EXCEPT ![my[c].block] = @ + Here(c)]
  /\ IF IsEmptied(dequeued'[my[c].block]) THEN Goto(c, "clear") /\ UNCHANGED my ELSE NextBlock(c)
  /\ UNCHANGED <<counters, entry, header, elements, freeList, unused, producerVars, dooms>>

ClearEntry(c) ==
  /\ pc[c] = "clear"
  /\ entry' = [entry EXCEPT ![my[c].entry].value = Null]
  /\ Goto(c, "free")
  /\ UNCHANGED <<counters, header, blockVars, producerVars, my, dooms>>

FreeBlock(c) ==
  /\ pc[c] = "free"
  /\ freeList' = freeList \cup {my[c].block}
  /\ NextBlock(c)
  /\ UNCHANGED <<counters, entry, header, elements, dequeued, unused, producerVars, dooms>>

ConsumerStep(c) ==
  \/ Begin(c) \/ (\E max \in 2..MaxBulk : BeginBulk(c, max)) \/ LoadHead(c) \/ LoadTail(c) \/ LoadOvercommit(c) \/ Check(c) \/ Reserve(c)
  \/ Reload(c) \/ MakeGood(c) \/ Claim(c)
  \/ LoadHeader(c) \/ LoadSlot(c) \/ FindEntry(c) \/ LoadValue(c) \/ Take(c)
  \/ SetEmpty(c) \/ ClearEntry(c) \/ FreeBlock(c)

Next == ProducerStep \/ \E c \in Consumers : ConsumerStep(c)

Spec == Init /\ [][Next]_vars

-----------------------------------------------------------------------------
(* Properties.                                                             *)

Looking == {"header", "slot", "entry", "value", "take"}

\* Elements that are in the queue, or claimed by a consumer that has not moved them out yet.
Claimed(c) ==
  (IF pc[c] \in Looking THEN my[c].index
   ELSE IF pc[c] \in {"set_empty", "clear", "free"} THEN my[c].index + Here(c)
   ELSE my[c].index + my[c].want)..(my[c].index + my[c].want - 1)
Alive == {n \in headIndex..(tailIndex - 1) : at # "destroyed"}
         \cup UNION {Claimed(c) : c \in Consumers}

\* What consumers have claimed, and what they may still claim after their second check, has
\* been enqueued, whatever stale values they reserved by; and the assertion between the checks
\* holds (overcommit <= myDequeueCount).
MayClaim(c) == IF pc[c] \in {"lost_some", "claim"} THEN my[c].want ELSE 0
ClaimsAreEnqueued ==
  /\ headIndex + SumOf([c \in Consumers |-> MayClaim(c)]) <= tailIndex
  /\ \A c \in Consumers : pc[c] = "reserve" => my[c].overcommit <= dequeueOptimisticCount

\* An element stays where its consumer will find it: the block of each element is in the block
\* index under its base until the element is moved out, and the consumer looks it up there,
\* however the producer extends, rewinds and reuses the block index meanwhile (the code asserts
\* that key and value are right).
ElementsAreFound ==
  /\ \A n \in Alive :
       \E e \in 1..Len(entry) :
         /\ entry[e].key = Base(n) /\ entry[e].value \in Blocks
         /\ elements[entry[e].value][n % BLOCK_SIZE] = n
  /\ \A c \in Consumers :
       /\ pc[c] = "value" => entry[my[c].entry].key = Base(my[c].index)
       /\ pc[c] = "take" => /\ my[c].block \in Blocks
                            /\ \A n \in my[c].index..(my[c].index + Here(c) - 1) :
                                 elements[my[c].block][n % BLOCK_SIZE] = n

\* Entries of the block index, which the destructor destroys, that have a block.
Published ==
  {k \in 0..(header[blockIndex].capacity - 1) :
     at # "destroyed" /\ entry[header[blockIndex].slot[k]].value \in Blocks}
InHand == ({newBlock} \cap Blocks) \cup {my[c].block : c \in {d \in Consumers : pc[d] = "free"}}

\* No block is lost, used twice, or free while it holds an element: each is unused, free, in
\* the block index once, or in the hands of the thread that is moving it; also after malloc
\* or a constructor failed.  The destructor frees the blocks of the index, once each.
BlocksAreKept ==
  /\ unused \cup freeList \cup InHand
       \cup {entry[header[blockIndex].slot[k]].value : k \in Published} = Blocks
  /\ Cardinality(unused) + Cardinality(freeList) + Cardinality(Published) + Cardinality(InHand)
       = Cardinality(Blocks)
  /\ \A b \in freeList, k \in Slots : elements[b][k] = Null

\* A try_dequeue that fails beside elements has an excuse: of the elements that were there when
\* it began and are not claimed, there are at most as many as other consumers hold
\* reservations and lost them meanwhile.  ThreadPool relies on it.
Reserved(d) == IF pc[d] \in {"reload", "lost_some", "claim"} THEN my[d].want ELSE 0
ReservedByOthers(c) == SumOf([d \in Consumers |-> IF d = c THEN 0 ELSE Reserved(d)])
Excused(c) ==
  pc[c] \in {"size", "check", "reload"} /\ pc'[c] \in {"idle", "give_up"} =>
    my[c].size_tail - headIndex <= ReservedByOthers(c) + dooms[c]
FailureIsExplained == [][\A c \in Consumers : Excused(c)]_vars

=============================================================================
