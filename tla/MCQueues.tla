------------------------------ MODULE MCQueues ------------------------------
(***************************************************************************)
(* ProducerBase::dequeue and its kin call the explicit or the implicit     *)
(* queue as isExplicit says: one instance of each with small words, blocks *)
(* and indexes.  The variables of the other kind are unused.               *)
(***************************************************************************)
EXTENDS ProducerBase, TLC

\* The counters of a behaviour stay within half the range of index_t of each other: with 64 bits, always so.
ASSUME RangeAssumption == MaxPut + MaxFutile + MaxTake * Cardinality(Consumers) + BlockSize < W \div 2

VARIABLES isExplicit,
          ring, flags, indexes, prFront, prUsed,  \* of an explicit producer
          count, key, value, headers              \* of an implicit producer

explicitVars == <<ring, flags, indexes, prFront, prUsed>>
implicitVars == <<count, key, value, headers>>
vars == <<claimVars, sharedVars, isExplicit, explicitVars, implicitVars>>

\* A constructor that throws and a bulk that fails half-way are left out here: ThrowIn and the run
\* explicit_bulk say what they break.
Explicit == INSTANCE ExplicitQueue WITH Throws <- FALSE, BulkFails <- FALSE
Implicit == INSTANCE ImplicitQueue

Init ==
  \/ /\ isExplicit = TRUE /\ Explicit!Init
     /\ count = None /\ key = None /\ value = None /\ headers = None
  \/ /\ isExplicit = FALSE /\ Implicit!Init
     /\ ring = None /\ flags = None /\ indexes = None /\ prFront = None /\ prUsed = None

Next ==
  /\ UNCHANGED isExplicit
  /\ \/ isExplicit /\ Explicit!Next /\ UNCHANGED implicitVars
     \/ ~isExplicit /\ Implicit!Next /\ UNCHANGED explicitVars

Spec == Init /\ [][Next]_vars

Symmetry == Permutations(Consumers) \cup Permutations(Blocks)

\* The types of the variables of the kind in use.
TypeOK == IF isExplicit THEN Explicit!TypeOK ELSE Implicit!TypeOK

\* Either block index leads a consumer to every element still in the queue.
IndexLeadsToElement == IF isExplicit THEN Explicit!IndexLeadsToElement ELSE Implicit!IndexLeadsToElement

\* An implicit producer's blocks are in the pool or in one entry of its index, none lost.
BlocksAccounted == isExplicit \/ Implicit!BlocksAccounted

\* The destructors destroy the elements left, and free every block, once.
DestructorCleansUp == IF isExplicit THEN Explicit!DestroysWhatIsLeft ELSE Implicit!DestructorFreesAll
=============================================================================
