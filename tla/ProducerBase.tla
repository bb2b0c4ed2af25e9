---------------------------- MODULE ProducerBase ----------------------------
(***************************************************************************)
(* What ExplicitProducer and ImplicitProducer share (struct ProducerBase   *)
(* and struct Block of concurrentqueue.h): one producing thread, consumers *)
(* that claim positions, and elements in the cells of blocks.  An element  *)
(* is named by its position.                                               *)
(***************************************************************************)
EXTENDS Claims, Sequences

CONSTANTS Blocks,     \* the blocks the queue can get (requisition_block)
          None,       \* null pointer, and an unconstructed element
          BlockSize,  \* BLOCK_SIZE
          FirstIndex, \* slots of the first block index: EXPLICIT_ or IMPLICIT_INITIAL_INDEX_SIZE
          BulkSizes,  \* counts enqueue_bulk is called with
          Throws,     \* TRUE: the element's constructor may throw
          BulkFails,  \* TRUE: an explicit bulk may find no more blocks after it took some
          Starts,     \* positions that came and went, one at a time, before a behaviour begins
          MaxPut,     \* bound: positions enqueued in a behaviour
          MaxFutile   \* bound: attempts beyond the positions there are

\* INVALID_BLOCK_BASE is no block's first position: those are multiples of BlockSize.
ASSUME NoneAssumption == None \notin Blocks /\ None \notin Int
ASSUME BlocksAssumption == IsFiniteSet(Blocks)
ASSUME BlockAssumption == BlockSize \in Nat \ {0, 1} /\ W % BlockSize = 0
ASSUME IndexAssumption == FirstIndex \in Nat \ {0, 1} /\ BulkSizes \subseteq Nat \ {0}
ASSUME FailureAssumption == Throws \in BOOLEAN /\ BulkFails \in BOOLEAN
ASSUME BoundAssumption == MaxPut \in Nat /\ MaxFutile \in Nat /\ \A s \in Starts : s \in Nat /\ s % BlockSize = 0

VARIABLES pool,      \* blocks this producer does not have
          tailBlock,
          cell,      \* [Blocks -> [offset -> element]]
          prod,      \* the producer's place in its call, and its locals
          hand,      \* [Consumers -> record]: a consumer's walk over the blocks
          taken,     \* elements moved out to callers (history)
          limit      \* bound: the last position of this behaviour

sharedVars == <<pool, tailBlock, cell, prod, hand, taken, limit>>

Offsets == 0 .. BlockSize - 1
Base(i) == i - (i % BlockSize)
Boundary(i) == i % BlockSize = 0
\* A difference of two index_t read as a signed number.
Signed(d) == ((d + W \div 2) % W) - W \div 2
\* Not enough leeway: the tail could meet the head, modulo W, before a block at base is full.
Full(base) == ~CircLess(headIndex, base + BlockSize)

NoCall == [at |-> "idle", n |-> 0, need |-> 0, first |-> None, start |-> None, front0 |-> 0, used0 |-> 0]
NoWalk == [at |-> "idle", idx |-> 0, pos |-> 0, i |-> 0]

SharedInit(s) ==
  /\ ClaimsInit(s)
  /\ limit = s + MaxPut /\ taken = 0 .. s - 1
  /\ prod = NoCall
  /\ hand = [c \in Consumers |-> NoWalk]

\* enqueue when there is room in the tail block: only the element is constructed.
EnqueueInBlock ==
  /\ prod.at = "idle" /\ tailIndex < limit /\ ~Boundary(tailIndex)
  /\ cell' = [cell EXCEPT ![tailBlock][tailIndex % BlockSize] = tailIndex]
  /\ prod' = [NoCall EXCEPT !.at = "publish", !.n = 1]
  /\ UNCHANGED <<claimVars, pool, tailBlock, hand, taken, limit>>

\* tailIndex.store: consumers may take the elements from now on.
Publish ==
  /\ prod.at = "publish"
  /\ Advance(prod.n)
  /\ prod' = NoCall
  /\ UNCHANGED <<pool, tailBlock, cell, hand, taken, limit>>

\* How many blocks n more elements need beyond the tail block, and where the next of them starts.
BlocksFor(n) == (tailIndex + n - 1) \div BlockSize - (tailIndex - 1) \div BlockSize
BulkBase == ((tailIndex + prod.n - 1) \div BlockSize - prod.need + 1) * BlockSize
BulkCells == tailIndex .. tailIndex + prod.n - 1

\* The cells once the elements of a bulk are constructed, blockOf(i) being the block of position i.
Filled(blockOf(_)) ==
  [b \in Blocks |-> [o \in Offsets |->
     IF \E i \in BulkCells : blockOf(i) = b /\ i % BlockSize = o
     THEN CHOOSE i \in BulkCells : blockOf(i) = b /\ i % BlockSize = o
     ELSE cell[b][o]]]

\* dequeue and dequeue_bulk up to headIndex.fetch_add.
Claim(c) ==
  /\ \/ optimistic < limit + MaxFutile /\ \E max \in 1 .. MaxTake : Look(c, max)
     \/ Reserve(c) \/ Confirm(c) \/ Refund(c) \/ Take(c)
  /\ hand' = IF claim'[c].at = "owner"
             THEN [hand EXCEPT ![c] = [NoWalk EXCEPT !.at = "index", !.i = headIndex]] ELSE hand
  /\ UNCHANGED <<pool, tailBlock, cell, prod, taken, limit>>

\* The consumer's positions that lie in the block it is at, and where the next block starts.
Here(c) == {i \in hand[c].i .. claim[c].k + claim[c].n - 1 : Base(i) = Base(hand[c].i)}
NextHere(c) == Base(hand[c].i) + BlockSize

\* The elements in one block b are moved out, before the cells are given up.
MoveOutOf(c, b) ==
  /\ hand[c].at = "move"
  /\ hand' = [hand EXCEPT ![c].at = "release"]
  /\ taken' = taken \cup {cell[b][i % BlockSize] : i \in Here(c)}
  /\ UNCHANGED <<claimVars, pool, tailBlock, cell, prod, limit>>

\* On to the next block, in the next slot of an index of the given size, or the call is over.
NextBlock(c, size) ==
  IF NextHere(c) < claim[c].k + claim[c].n
  THEN /\ hand' = [hand EXCEPT ![c].at = "move", ![c].i = NextHere(c), ![c].pos = (@ + 1) % size]
       /\ UNCHANGED claimVars
  ELSE hand' = [hand EXCEPT ![c] = NoWalk] /\ Done(c)

-----------------------------------------------------------------------------
SharedTypeOK ==
  /\ {tailIndex, headIndex, optimistic, overcommit, limit} \subseteq Nat /\ tailIndex <= limit
  /\ pool \subseteq Blocks /\ tailBlock \in Blocks \cup {None}
  /\ cell \in [Blocks -> [Offsets -> Int \cup {None}]]
  /\ taken \subseteq 0 .. limit - 1

\* Positions published and not yet moved out: what dequeue must still find.
Unmoved == {i \in 0 .. tailIndex - 1 : i \notin taken}

Quiet == prod.at = "idle" /\ \A c \in Consumers : claim[c].at = "idle"

\* A producer's queue gives its elements out in order, each once, each the very one asked for,
\* whatever the interleaving of consumers and producer (the contract of dequeue and dequeue_bulk).
SubQ == INSTANCE SubQueue WITH
  Takers <- Consumers, put <- tailIndex, given <- headIndex, taken <- taken,
  owed <- [c \in Consumers |->
    IF claim[c].at /= "owner" THEN {}
    ELSE {i \in hand[c].i .. claim[c].k + claim[c].n - 1 :
            hand[c].at \in {"index", "front", "offset", "move"} \/ i \notin Here(c)}]
ImplementsSubQueue == SubQ!Spec
=============================================================================
