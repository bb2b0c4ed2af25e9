--------------------------- MODULE ExplicitQueue ---------------------------
(***************************************************************************)
(* ConcurrentQueue::ExplicitProducer (concurrentqueue.h): the queue behind *)
(* one producer token.  The blocks form a ring; a circular index of (base, *)
(* block) entries, read by consumers without a lock, says which block      *)
(* holds which positions.                                                  *)
(***************************************************************************)
EXTENDS ProducerBase

VARIABLES ring,    \* [Blocks -> Blocks \cup {None}]: Block::next
          flags,   \* [Blocks -> SUBSET Offsets]: emptyFlags that are set
          indexes, \* every block index made; the last is blockIndex
          prFront, \* pr_blockIndexFront: next slot
          prUsed   \* pr_blockIndexSlotsUsed

indexVars == <<ring, indexes, prFront, prUsed>>
vars == <<claimVars, sharedVars, indexVars, flags>>

Cur == indexes[Len(indexes)]
EmptySlot == [base |-> 0, block |-> None]
NewIndex(size, front, entries) == [size |-> size, front |-> front, entries |-> entries]

\* A new producer, or one whose s elements were dequeued again: its block is empty and indexed.
InitAt(s, used) ==
  /\ SharedInit(s)
  /\ pool = Blocks \ used
  /\ tailBlock = IF s = 0 THEN None ELSE CHOOSE b \in used : TRUE
  /\ ring = [b \in Blocks |-> IF b \in used THEN b ELSE None]
  /\ flags = [b \in Blocks |-> IF b \in used THEN Offsets ELSE {}]
  /\ cell = [b \in Blocks |-> [o \in Offsets |-> IF b \in used THEN s - BlockSize + o ELSE None]]
  /\ prUsed = Cardinality(used) /\ prFront = Cardinality(used) % FirstIndex
  /\ indexes = <<NewIndex(FirstIndex, (prFront - 1) % FirstIndex, [i \in 0 .. FirstIndex - 1 |->
       IF i < prUsed THEN [base |-> s - BlockSize, block |-> tailBlock] ELSE EmptySlot])>>

Init == \E s \in Starts : IF s = 0 THEN InitAt(0, {}) ELSE \E b \in Blocks : InitAt(s, {b})

\* Block::is_empty, set_empty and set_many_empty, reset_empty on the flags.
IsEmpty(b) == flags[b] = Offsets
SetEmpty(b, os) == flags' = [flags EXCEPT ![b] = @ \cup os]
ResetEmpty(bs) == flags' = [b \in Blocks |-> IF b \in bs THEN {} ELSE flags[b]]

-----------------------------------------------------------------------------
(* The producer.  Its private steps up to a store that consumers read are one action. *)

\* The entry for the block that starts at position base, in slot front of the newest index.
PutEntry(ixs, front, base, b) ==
  [ixs EXCEPT ![Len(ixs)].entries[front] = [base |-> base, block |-> b]]

\* Mutant: the entries are copied from slot 0 on.
GrownFromZero(exposed) ==
  LET size == Cur.size
  IN  Append(indexes, NewIndex(2 * size, (exposed - 1) % (2 * size),
        [s \in 0 .. 2 * size - 1 |-> IF s < prUsed THEN Cur.entries[s] ELSE EmptySlot]))

\* new_block_index: twice the slots, the used entries copied from the oldest on, exposed ones first.
Grown(exposed) ==
  LET size == Cur.size
      old == [j \in 0 .. prUsed - 1 |-> Cur.entries[(prFront - prUsed + j) % size]]
  IN  Append(indexes, NewIndex(2 * size, (exposed - 1) % (2 * size),
        [s \in 0 .. 2 * size - 1 |-> IF s < prUsed THEN old[s] ELSE EmptySlot]))

\* The ring with b linked in behind the tail block.
Inject(b) ==
  IF tailBlock = None THEN [ring EXCEPT ![b] = b]
  ELSE [ring EXCEPT ![b] = ring[tailBlock], ![tailBlock] = b]

CanReuse == tailBlock /= None /\ IsEmpty(ring[tailBlock])

\* The element goes in the first cell of b, and b's entry in the index ixs, still unexposed.
StartIn(b, ixs, front, used) ==
  /\ cell' = [cell EXCEPT ![b][0] = tailIndex]
  /\ indexes' = PutEntry(ixs, front, tailIndex, b)
  /\ prFront' = (front + 1) % ixs[Len(ixs)].size
  /\ tailBlock' = b /\ prUsed' = used
  /\ prod' = [NoCall EXCEPT !.at = "expose", !.n = 1]

\* The constructor throws: the tail block and the count of used slots go back, the block stays.
ThrowIn(b, ixs, front) ==
  /\ Throws
  /\ tailBlock' = IF tailBlock = None THEN b ELSE tailBlock
  /\ indexes' = ixs /\ prFront' = front
  /\ UNCHANGED <<cell, prod, prUsed>>

EnqueueReuse ==
  /\ prod.at = "idle" /\ tailIndex < limit /\ Boundary(tailIndex)
  /\ CanReuse
  /\ LET b == ring[tailBlock]
     IN  /\ ResetEmpty({b})
         /\ StartIn(b, indexes, prFront, prUsed) \/ ThrowIn(b, indexes, prFront)
  /\ UNCHANGED <<claimVars, pool, ring, hand, taken, limit>>

\* A new block, and a larger index when the slots are used up.  When the parent has no block to give
\* (others may hold them, or malloc fail) the call returns false and keeps the larger index.
EnqueueNewBlock ==
  /\ prod.at = "idle" /\ tailIndex < limit /\ Boundary(tailIndex)
  /\ ~CanReuse /\ ~Full(tailIndex)
  /\ LET grow == prUsed = Cur.size
         ixs == IF grow THEN Grown(prUsed) ELSE indexes
         front == IF grow THEN prUsed ELSE prFront
     IN  \/ \E b \in pool :
              /\ pool' = pool \ {b} /\ ring' = Inject(b)
              /\ ResetEmpty({b})
              /\ StartIn(b, ixs, front, prUsed + 1) \/ ThrowIn(b, ixs, front)
         \/ /\ grow
            /\ indexes' = ixs /\ prFront' = front
            /\ UNCHANGED <<pool, ring, flags, cell, tailBlock, prUsed, prod>>
  /\ UNCHANGED <<claimVars, hand, taken, limit>>

\* blockIndex->front.store of the last slot filled.
Expose ==
  /\ prod.at = "expose"
  /\ indexes' = [indexes EXCEPT ![Len(indexes)].front = (prFront - 1) % Cur.size]
  /\ prod' = [prod EXCEPT !.at = "publish"]
  /\ UNCHANGED <<claimVars, pool, ring, tailBlock, prFront, prUsed, flags, cell, hand, taken, limit>>

\* enqueue_bulk first gets the blocks it will need.
BulkBegin(n) ==
  /\ prod.at = "idle" /\ tailIndex + n <= limit
  /\ prod' = [at |-> IF BlocksFor(n) = 0 THEN "fill" ELSE "blocks", n |-> n, need |-> BlocksFor(n),
              first |-> None, start |-> tailBlock, front0 |-> prFront, used0 |-> prUsed]
  /\ UNCHANGED <<claimVars, pool, tailBlock, cell, hand, taken, limit, indexVars, flags>>

\* Mutant: the next slot is not taken modulo the size of the index.
BulkAddUnwrapped(b, ixs, front) ==
  /\ tailBlock' = b
  /\ indexes' = PutEntry(ixs, front, BulkBase, b)
  /\ prFront' = front + 1
  /\ prod' = [prod EXCEPT !.need = @ - 1, !.first = IF @ = None THEN b ELSE @,
                          !.at = IF prod.need = 1 THEN "fill" ELSE "blocks",
                          !.front0 = IF ixs = indexes THEN @ ELSE prod.used0]

BulkAdd(b, ixs, front) ==
  /\ tailBlock' = b
  /\ indexes' = PutEntry(ixs, front, BulkBase, b)
  /\ prFront' = (front + 1) % ixs[Len(ixs)].size
  /\ prod' = [prod EXCEPT !.need = @ - 1, !.first = IF @ = None THEN b ELSE @,
                          !.at = IF prod.need = 1 THEN "fill" ELSE "blocks",
                          !.front0 = IF ixs = indexes THEN @ ELSE prod.used0]

\* A bulk that fails: its blocks stay in the ring, the index forgets them.
BulkUndo(ixs, front0) ==
  /\ tailBlock' = IF prod.start = None THEN prod.first ELSE prod.start
  /\ prFront' = front0 /\ prUsed' = prod.used0 /\ indexes' = ixs
  /\ prod' = NoCall

BulkCanReuse ==
  prod.used0 = prUsed /\ tailBlock /= None /\ ring[tailBlock] /= prod.first /\ IsEmpty(ring[tailBlock])

BulkReuse ==
  /\ prod.at = "blocks"
  /\ BulkCanReuse
  /\ BulkAdd(ring[tailBlock], indexes, prFront)
  /\ UNCHANGED <<claimVars, pool, ring, prUsed, flags, cell, hand, taken, limit>>

\* A block from the parent; none at the time, no leeway or no larger index ends the bulk with false.  An
\* index that was grown stays.
BulkNewBlock ==
  /\ prod.at = "blocks"
  /\ ~BulkCanReuse
  /\ LET grow == prUsed = Cur.size /\ ~Full(BulkBase)
         ixs == IF grow THEN Grown(prod.used0) ELSE indexes
         front == IF grow THEN prUsed ELSE prFront
     IN  \/ \E b \in pool :
              /\ ~Full(BulkBase)
              /\ pool' = pool \ {b} /\ ring' = Inject(b) /\ prUsed' = prUsed + 1
              /\ SetEmpty(b, Offsets)
              /\ BulkAdd(b, ixs, front)
         \/ /\ prod.first = None \/ BulkFails
            /\ BulkUndo(indexes, prod.front0) \/ (grow /\ BulkUndo(ixs, prod.used0))
            /\ UNCHANGED <<pool, ring, flags>>
  /\ UNCHANGED <<claimVars, cell, hand, taken, limit>>

\* The block that holds position i of the bulk, along the ring.
BulkBlock(i) ==
  LET k == i \div BlockSize - tailIndex \div BlockSize
      walk[j \in 0 .. k] == IF j > 0 THEN ring[walk[j - 1]]
                            ELSE IF Boundary(tailIndex) THEN prod.first ELSE prod.start
  IN  walk[k]

\* Mutant: the new blocks stay marked empty.
BulkFillStillEmpty ==
  /\ prod.at = "fill"
  /\ UNCHANGED flags
  /\ cell' = Filled(BulkBlock)
  /\ prod' = [NoCall EXCEPT !.at = IF prod.first = None THEN "publish" ELSE "expose", !.n = prod.n]
  /\ UNCHANGED <<tailBlock, prFront, prUsed, indexes>>
  /\ UNCHANGED <<claimVars, pool, ring, hand, taken, limit>>

\* The new blocks are marked in use and the elements constructed; an exception undoes the bulk.
BulkFill ==
  /\ prod.at = "fill"
  /\ ResetEmpty({BulkBlock(i) : i \in {j \in BulkCells : Boundary(j)}})
  /\ \/ /\ cell' = Filled(BulkBlock)
        /\ prod' = [NoCall EXCEPT !.at = IF prod.first = None THEN "publish" ELSE "expose", !.n = prod.n]
        /\ UNCHANGED <<tailBlock, prFront, prUsed, indexes>>
     \/ /\ Throws /\ BulkUndo(indexes, prod.front0) /\ UNCHANGED cell
  /\ UNCHANGED <<claimVars, pool, ring, hand, taken, limit>>

-----------------------------------------------------------------------------
(* A consumer that owns positions finds their blocks by the index. *)

LoadIndex(c) ==
  /\ hand[c].at = "index"
  /\ hand' = [hand EXCEPT ![c].at = "front", ![c].idx = Len(indexes)]
  /\ UNCHANGED <<claimVars, pool, tailBlock, cell, prod, taken, limit>>

LoadFront(c) ==
  /\ hand[c].at = "front"
  /\ hand' = [hand EXCEPT ![c].at = "offset", ![c].pos = indexes[hand[c].idx].front]
  /\ UNCHANGED <<claimVars, pool, tailBlock, cell, prod, taken, limit>>

\* The slot of position i, as many slots from the front as its block is from the front's base.
SlotOf(i, ix, front) == (front + Signed(Base(i) - ix.entries[front].base) \div BlockSize) % ix.size

FindSlot(c) ==
  /\ hand[c].at = "offset"
  /\ hand' = [hand EXCEPT ![c].at = "move", ![c].pos = SlotOf(hand[c].i, indexes[hand[c].idx], @)]
  /\ UNCHANGED <<claimVars, pool, tailBlock, cell, prod, taken, limit>>

BlockAt(c) == indexes[hand[c].idx].entries[hand[c].pos].block

MoveOut(c) == MoveOutOf(c, BlockAt(c))

\* The cells are marked empty: from here on the producer may use them again.
Release(c) ==
  /\ hand[c].at = "release"
  /\ SetEmpty(BlockAt(c), {i % BlockSize : i \in Here(c)})
  /\ NextBlock(c, indexes[hand[c].idx].size)
  /\ UNCHANGED <<pool, tailBlock, cell, prod, taken, limit, indexVars>>

-----------------------------------------------------------------------------
Producer ==
  \/ (EnqueueInBlock \/ Publish) /\ UNCHANGED <<indexVars, flags>>
  \/ EnqueueReuse \/ EnqueueNewBlock \/ Expose
  \/ \E n \in BulkSizes : BulkBegin(n)
  \/ BulkReuse \/ BulkNewBlock \/ BulkFill

Consumer(c) ==
  \/ (Claim(c) \/ LoadIndex(c) \/ LoadFront(c) \/ FindSlot(c) \/ MoveOut(c)) /\ UNCHANGED <<indexVars, flags>>
  \/ Release(c)

Next == Producer \/ \E c \in Consumers : Consumer(c)

Spec == Init /\ [][Next]_vars

-----------------------------------------------------------------------------
TypeOK ==
  /\ SharedTypeOK
  /\ ring \in [Blocks -> Blocks \cup {None}] /\ flags \in [Blocks -> SUBSET Offsets]
  /\ tailBlock \notin pool
  /\ prFront \in 0 .. Cur.size - 1 /\ prUsed \in 0 .. Cur.size

\* The block index leads to every element that is still in the queue, through the reuse of blocks
\* and slots, the growth of the index and calls that fail: "guaranteed to be room since we're
\* conceptually removing the last block from it first", says enqueue where it overwrites a slot.
IndexLeadsToElement ==
  \A i \in Unmoved :
    LET b == Cur.entries[SlotOf(i, Cur, Cur.front)].block
    IN  b /= None /\ cell[b][i % BlockSize] = i

\* ~ExplicitProducer, run when no call is in progress, destroys the elements left and nothing else
\* ("Destruct any elements not yet dequeued").
HalfDequeued ==
  LET slot(j) == Cur.entries[(prFront - prUsed + j) % Cur.size]
      past(j) == CircLess(slot(j).base + BlockSize, headIndex)
  IN  IF Boundary(headIndex) THEN None
      ELSE slot(CHOOSE j \in 0 .. Cur.size : ~past(j) /\ \A k \in 0 .. j - 1 : past(k)).block
InRing == IF tailBlock = None THEN {}
          ELSE LET walk[j \in 0 .. Cardinality(Blocks)] == IF j = 0 THEN tailBlock ELSE ring[walk[j - 1]]
               IN  {walk[j] : j \in 0 .. Cardinality(Blocks)}
DestroyedIn(b) ==
  LET from == IF b = HalfDequeued THEN headIndex % BlockSize ELSE 0
      to == IF b = tailBlock /\ ~Boundary(tailIndex) THEN tailIndex % BlockSize ELSE BlockSize
  IN  {cell[b][o] : o \in from .. to - 1}
Destroyed == UNION {DestroyedIn(b) : b \in {x \in InRing : ~IsEmpty(x)}}
DestroysWhatIsLeft == Quiet => Destroyed = headIndex .. tailIndex - 1
=============================================================================
