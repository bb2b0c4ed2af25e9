--------------------------- MODULE ImplicitQueue ---------------------------
(***************************************************************************)
(* ConcurrentQueue::ImplicitProducer (concurrentqueue.h): the queue behind *)
(* a thread without a token.  The consumer that empties a block gives it   *)
(* back at once; the index is a circular array of pointers to (key, value) *)
(* entries, which a larger index shares with the one it replaces.          *)
(***************************************************************************)
EXTENDS ProducerBase

VARIABLES count,   \* [Blocks -> Nat]: elementsCompletelyDequeued
          key,     \* <<k_1, ...>>: the key of every entry made, a position or None (INVALID_BLOCK_BASE)
          value,   \* <<b_1, ...>>: the block of every entry made, or None
          headers  \* every index made: its slots (numbers of entries) and its tail; the last is blockIndex

indexVars == <<key, value, headers>>
vars == <<claimVars, sharedVars, indexVars, count>>

Cur == headers[Len(headers)]
Capacity(h) == Len(h.slots)
\* Slots are counted from 0.
EntryAt(h, s) == h.slots[(s % Capacity(h)) + 1]

\* new_block_index in the constructor, and the entries as s positions left them.
InitAt(s) ==
  /\ SharedInit(s)
  /\ pool = Blocks
  /\ \E b \in Blocks : tailBlock = IF s = 0 THEN None ELSE b
  /\ cell = [b \in Blocks |-> [o \in Offsets |-> None]]
  /\ count = [b \in Blocks |-> BlockSize]
  /\ LET last == s \div BlockSize - 1
         lap(j) == last - ((last - j) % FirstIndex)
     IN  /\ key = [e \in 1 .. FirstIndex |-> IF lap(e - 1) < 0 THEN None ELSE lap(e - 1) * BlockSize]
         /\ headers = <<[slots |-> [e \in 1 .. FirstIndex |-> e], tail |-> last % FirstIndex]>>
  /\ value = [e \in 1 .. FirstIndex |-> None]

Init == \E s \in Starts : InitAt(s)

-----------------------------------------------------------------------------
(* The producer.  enqueue is an enqueue_bulk of one element. *)

\* A call for n elements; those of one element that fit in the tail block are EnqueueInBlock.
Begin(n) ==
  /\ prod.at = "idle" /\ tailIndex + n <= limit
  /\ prod' = [NoCall EXCEPT !.at = IF BlocksFor(n) = 0 THEN "fill" ELSE "entry",
                            !.n = n, !.need = BlocksFor(n), !.start = tailBlock]
  /\ UNCHANGED <<claimVars, pool, tailBlock, cell, hand, taken, limit>>

Enqueue == Boundary(tailIndex) /\ Begin(1)
EnqueueBulk == \E n \in BulkSizes : Begin(n)

\* Entries of the blocks the call has got so far.
Gotten == BlocksFor(prod.n) - prod.need
NewEntries(h) == {EntryAt(h, h.tail - j) : j \in 0 .. Gotten - 1}

\* Mutant: a call that fails keeps the blocks it got.
GiveUpKeeping(rewound) ==
  LET back == {EntryAt(Cur, Cur.tail - j) : j \in 0 .. Gotten + rewound - 1}
  IN  /\ value' = [e \in DOMAIN value |-> IF e \in back THEN None ELSE value[e]]
      /\ headers' = [headers EXCEPT ![Len(headers)].tail = (@ - Gotten - rewound) % Capacity(Cur)]
      /\ tailBlock' = prod.start
      /\ prod' = NoCall /\ UNCHANGED pool

\* A call that fails gives its blocks back, clears their entries and rewinds the tail over them;
\* rewound is 1 when an entry was inserted that has no block yet.
GiveUp(rewound) ==
  LET back == {EntryAt(Cur, Cur.tail - j) : j \in 0 .. Gotten + rewound - 1}
  IN  /\ value' = [e \in DOMAIN value |-> IF e \in back THEN None ELSE value[e]]
      /\ headers' = [headers EXCEPT ![Len(headers)].tail = (@ - Gotten - rewound) % Capacity(Cur)]
      /\ pool' = pool \cup ({value[e] : e \in back} \ {None})
      /\ tailBlock' = prod.start
      /\ prod' = NoCall

\* new_block_index: the old entries from the one after the tail on, then as many new ones.
Grown ==
  [slots |-> [s \in 1 .. 2 * Capacity(Cur) |->
                IF s <= Capacity(Cur) THEN EntryAt(Cur, Cur.tail + s) ELSE Len(key) + s - Capacity(Cur)],
   tail |-> Capacity(Cur) - 1]
Fresh(n) == [i \in 1 .. n |-> None]

\* insert_block_index_entry, then the store of the tail.  The slot after the tail is free when its
\* key is invalid or its block was given back; else the index grows, or the call fails.
InsertEntry ==
  /\ prod.at = "entry"
  /\ LET free == EntryAt(Cur, Cur.tail + 1)
         usable == key[free] = None \/ value[free] = None
         old == headers
         put(hs, ks, e) ==
           /\ headers' = [hs EXCEPT ![Len(hs)].tail = (@ + 1) % Capacity(hs[Len(hs)])]
           /\ key' = [ks EXCEPT ![e] = BulkBase]
           /\ prod' = [prod EXCEPT !.at = "block"]
           /\ UNCHANGED <<pool, tailBlock>>
     IN  \/ /\ ~Full(BulkBase) /\ usable
            /\ put(old, key, free) /\ UNCHANGED value
         \/ /\ ~Full(BulkBase) /\ ~usable
            /\ put(Append(old, Grown), key \o Fresh(Capacity(Cur)), Len(key) + 1)
            /\ value' = value \o Fresh(Capacity(Cur))
         \/ /\ Full(BulkBase) \/ ~usable
            /\ GiveUp(0) /\ UNCHANGED key
  /\ UNCHANGED <<claimVars, cell, hand, taken, limit, count>>

\* requisition_block: a block for the entry at the tail, or the call fails.
NewBlock ==
  /\ prod.at = "block"
  /\ \/ \E b \in pool :
          /\ pool' = pool \ {b} /\ tailBlock' = b
          /\ count' = [count EXCEPT ![b] = 0]
          /\ value' = [value EXCEPT ![EntryAt(Cur, Cur.tail)] = b]
          /\ prod' = [prod EXCEPT !.need = @ - 1, !.at = IF prod.need = 1 THEN "fill" ELSE "entry"]
          /\ UNCHANGED headers
     \/ GiveUp(1) /\ UNCHANGED count
  /\ UNCHANGED <<claimVars, cell, hand, taken, limit, key>>

\* The block of position i: the start block, or one of the blocks just got, in order.
BlockFor(i) ==
  LET back == (tailIndex + prod.n - 1) \div BlockSize - i \div BlockSize
  IN  IF back < Gotten THEN value[EntryAt(Cur, Cur.tail - back)] ELSE prod.start

\* The elements are constructed; an exception undoes the call.
Fill ==
  /\ prod.at = "fill"
  /\ \/ /\ cell' = Filled(BlockFor)
        /\ prod' = [NoCall EXCEPT !.at = "publish", !.n = prod.n]
        /\ UNCHANGED <<pool, tailBlock, value, headers>>
     \/ Throws /\ GiveUp(0) /\ UNCHANGED cell
  /\ UNCHANGED <<claimVars, hand, taken, limit, key, count>>

-----------------------------------------------------------------------------
(* A consumer that owns positions. *)

\* get_block_index_index_for_index: blockIndex, then its tail, then the key there are loaded.
LoadIndex(c) ==
  /\ hand[c].at = "index"
  /\ hand' = [hand EXCEPT ![c].at = "front", ![c].idx = Len(headers)]
  /\ UNCHANGED <<claimVars, pool, tailBlock, cell, prod, taken, limit>>

LoadTail(c) ==
  /\ hand[c].at = "front"
  /\ hand' = [hand EXCEPT ![c].at = "offset", ![c].pos = headers[hand[c].idx].tail]
  /\ UNCHANGED <<claimVars, pool, tailBlock, cell, prod, taken, limit>>

\* The slot of position i, as many slots from the tail as its block is from the tail's base.
SlotOf(i, h, tail) == (tail + Signed(Base(i) - key[EntryAt(h, tail)]) \div BlockSize) % Capacity(h)

FindSlot(c) ==
  /\ hand[c].at = "offset"
  /\ hand' = [hand EXCEPT ![c].at = "move", ![c].pos = SlotOf(hand[c].i, headers[hand[c].idx], @)]
  /\ UNCHANGED <<claimVars, pool, tailBlock, cell, prod, taken, limit>>

EntryOf(c) == EntryAt(headers[hand[c].idx], hand[c].pos)

MoveOut(c) == MoveOutOf(c, value[EntryOf(c)])

\* set_many_empty: the consumer that completes the count also unlinks the block.
Release(c) ==
  /\ hand[c].at = "release"
  /\ LET b == value[EntryOf(c)]
     IN  /\ count' = [count EXCEPT ![b] = @ + Cardinality(Here(c))]
         /\ IF count'[b] = BlockSize
            THEN hand' = [hand EXCEPT ![c].at = "unlink"] /\ UNCHANGED claimVars
            ELSE NextBlock(c, Capacity(headers[hand[c].idx]))
  /\ UNCHANGED <<pool, tailBlock, cell, prod, taken, limit, indexVars>>

\* The entry is cleared, which frees it for the producer, and then the block is given back.
Unlink(c) ==
  /\ hand[c].at = "unlink"
  /\ value' = [value EXCEPT ![EntryOf(c)] = None]
  /\ pool' = pool \cup {value[EntryOf(c)]}
  /\ NextBlock(c, Capacity(headers[hand[c].idx]))
  /\ UNCHANGED <<tailBlock, cell, prod, taken, limit, key, headers, count>>

-----------------------------------------------------------------------------
Producer ==
  \/ (EnqueueInBlock \/ Publish \/ Enqueue \/ EnqueueBulk) /\ UNCHANGED <<indexVars, count>>
  \/ InsertEntry \/ NewBlock \/ Fill

Consumer(c) ==
  \/ (Claim(c) \/ LoadIndex(c) \/ LoadTail(c) \/ FindSlot(c) \/ MoveOut(c)) /\ UNCHANGED <<indexVars, count>>
  \/ Release(c) \/ Unlink(c)

Next == Producer \/ \E c \in Consumers : Consumer(c)

Spec == Init /\ [][Next]_vars

-----------------------------------------------------------------------------
TypeOK ==
  /\ SharedTypeOK
  /\ count \in [Blocks -> 0 .. BlockSize]
  /\ DOMAIN key = DOMAIN value /\ \A e \in DOMAIN value : value[e] \in Blocks \cup {None}
  /\ Cur.tail \in 0 .. Capacity(Cur) - 1

\* The assertion of get_block_index_index_for_index, for every element still in the queue: the slot
\* computed from the tail holds the element's key and its block, with the element in it.
IndexLeadsToElement ==
  \A i \in Unmoved :
    LET e == EntryAt(Cur, SlotOf(i, Cur, Cur.tail))
    IN  key[e] = Base(i) /\ value[e] /= None /\ cell[value[e]][i % BlockSize] = i

\* No block is lost and none is in two places: when no call is in progress the blocks that are not
\* in the pool are those of the elements left and the one being filled, each in one entry.
InUse == {e \in DOMAIN value : value[e] /= None}
BlocksAccounted ==
  /\ \A e \in InUse : value[e] \notin pool
  /\ \A e, f \in InUse : value[e] = value[f] => e = f
  /\ Quiet => Blocks \ pool = {value[EntryAt(Cur, SlotOf(i, Cur, Cur.tail))] : i \in headIndex .. tailIndex - 1}
                               \cup IF Boundary(tailIndex) THEN {} ELSE {tailBlock}

\* ~ImplicitProducer frees every block it still has once: those the walk from the head leaves
\* behind, then the tail block if the walk ended in it or it is partly filled.
WalkFrees == {value[EntryAt(Cur, SlotOf(i, Cur, Cur.tail))] :
                i \in {j \in headIndex .. tailIndex - 1 : \E k \in j + 1 .. tailIndex - 1 : Boundary(k)}}
TailFrees == IF headIndex /= tailIndex \/ ~Boundary(tailIndex) THEN {tailBlock} ELSE {}
DestructorFreesAll ==
  Quiet => WalkFrees \cup TailFrees = Blocks \ pool /\ WalkFrees \cap TailFrees = {}
=============================================================================
