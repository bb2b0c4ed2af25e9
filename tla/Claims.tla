------------------------------- MODULE Claims -------------------------------
(***************************************************************************)
(* How consumers claim elements of one producer's queue in                 *)
(* concurrentqueue.h: ExplicitProducer and ImplicitProducer both count the *)
(* attempts optimistically, give back what was not there (overcommit), and *)
(* take positions from headIndex only for what is certainly there.  The    *)
(* counters are index_t: their values are kept unwrapped here and every    *)
(* comparison and difference is taken modulo W, the range of index_t, as   *)
(* the code's unsigned arithmetic does.  Atomics are sequentially          *)
(* consistent.                                                             *)
(***************************************************************************)
EXTENDS Integers, FiniteSets

CONSTANTS Consumers,  \* threads that dequeue from this producer
          MaxTake,    \* most elements one dequeue_bulk asks for
          W           \* number of values of index_t: 2^64 in the code

ASSUME ConsumersAssumption == IsFiniteSet(Consumers)
ASSUME MaxTakeAssumption == MaxTake \in Nat \ {0}
ASSUME WAssumption == W \in Nat /\ W > 0 /\ W % 2 = 0

VARIABLES tailIndex, headIndex, optimistic, overcommit,
          claim  \* [Consumers -> record]: a consumer's place in dequeue and its locals

claimVars == <<tailIndex, headIndex, optimistic, overcommit, claim>>

\* details::circular_less_than: a is before b when a - b, unsigned, is past the half range.
CircLess(a, b) == (a - b) % W > W \div 2

Least(a, b) == IF a < b THEN a ELSE b

NoClaim == [at |-> "idle", over |-> 0, n |-> 0, k |-> 0, back |-> 0]

\* A queue whose first s positions have come and gone; s = 0 for a new one.
ClaimsInit(s) ==
  /\ tailIndex = s /\ headIndex = s /\ optimistic = s /\ overcommit = 0
  /\ claim = [c \in Consumers |-> NoClaim]

\* tail, overcommit and dequeueOptimisticCount are loaded and at most max elements asked for.
\* The three loads are one step: an older tail or a newer count only asks for less, and max is free.
Look(c, max) ==
  /\ claim[c].at = "idle"
  /\ CircLess(optimistic - overcommit, tailIndex)
  /\ claim' = [claim EXCEPT ![c] = [NoClaim EXCEPT
       !.at = "reserve", !.over = overcommit,
       !.n = Least((tailIndex - (optimistic - overcommit)) % W, max)]]
  /\ UNCHANGED <<tailIndex, headIndex, optimistic, overcommit>>

Reserve(c) ==
  /\ claim[c].at = "reserve"
  /\ claim' = [claim EXCEPT ![c].at = "confirm", ![c].k = optimistic]
  /\ optimistic' = optimistic + claim[c].n
  /\ UNCHANGED <<tailIndex, headIndex, overcommit>>

\* Mutant: the tail is not loaded again.
ActualTrusting(c) == claim[c].n

\* How many of the reserved elements there are, by the tail loaded again.
Actual(c) ==
  LET first == claim[c].k - claim[c].over
  IN  IF CircLess(first, tailIndex) THEN Least((tailIndex - first) % W, claim[c].n) ELSE 0

Confirm(c) ==
  /\ claim[c].at = "confirm"
  /\ claim' = [claim EXCEPT
       ![c].at = IF Actual(c) < claim[c].n THEN "refund" ELSE "take",
       ![c].n = Actual(c), ![c].back = claim[c].n - Actual(c)]
  /\ UNCHANGED <<tailIndex, headIndex, optimistic, overcommit>>

\* Mutant: only an attempt that got nothing is given back.
RefundFailed(c) ==
  /\ claim[c].at = "refund"
  /\ overcommit' = overcommit + (IF claim[c].n = 0 THEN claim[c].back ELSE 0)
  /\ claim' = [claim EXCEPT ![c] =
       IF claim[c].n = 0 THEN NoClaim ELSE [@ EXCEPT !.at = "take", !.back = 0]]
  /\ UNCHANGED <<tailIndex, headIndex, optimistic>>

\* dequeueOvercommit.fetch_add of what was reserved in vain.
Refund(c) ==
  /\ claim[c].at = "refund"
  /\ overcommit' = overcommit + claim[c].back
  /\ claim' = [claim EXCEPT ![c] =
       IF claim[c].n = 0 THEN NoClaim ELSE [@ EXCEPT !.at = "take", !.back = 0]]
  /\ UNCHANGED <<tailIndex, headIndex, optimistic>>

\* Mutant: dequeue_bulk moves the head as dequeue does.
TakeOne(c) ==
  /\ claim[c].at = "take"
  /\ headIndex' = headIndex + 1
  /\ claim' = [claim EXCEPT ![c].at = "owner", ![c].k = headIndex]
  /\ UNCHANGED <<tailIndex, optimistic, overcommit>>

\* headIndex.fetch_add: the consumer now owns the positions k .. k + n - 1.
Take(c) ==
  /\ claim[c].at = "take"
  /\ headIndex' = headIndex + claim[c].n
  /\ claim' = [claim EXCEPT ![c].at = "owner", ![c].k = headIndex]
  /\ UNCHANGED <<tailIndex, optimistic, overcommit>>

\* The elements are moved out, and the call returns their number.
Done(c) ==
  /\ claim[c].at = "owner"
  /\ claim' = [claim EXCEPT ![c] = NoClaim]
  /\ UNCHANGED <<tailIndex, headIndex, optimistic, overcommit>>

\* tailIndex.store of the producer, n elements later.
Advance(n) ==
  /\ tailIndex' = tailIndex + n
  /\ UNCHANGED <<headIndex, optimistic, overcommit, claim>>

ClaimsNext ==
  \/ \E n \in Nat \ {0} : Advance(n)
  \/ \E c \in Consumers : \/ \E max \in 1 .. MaxTake : Look(c, max)
                          \/ Reserve(c) \/ Confirm(c) \/ Refund(c) \/ Take(c) \/ Done(c)

ClaimsSpec == (\E s \in Nat : ClaimsInit(s)) /\ [][ClaimsNext]_claimVars

-----------------------------------------------------------------------------
\* A consumer never takes a position the producer has not published (dequeue's "guaranteed to be
\* at least one element"): the positions taken, and those granted and still to be taken, stay
\* behind the tail, whatever stale count each consumer decided from.
Granted == UNION {{c} \X (1 .. claim[c].n) : c \in {d \in Consumers : claim[d].at \in {"refund", "take"}}}
HeadBehindTail == headIndex + Cardinality(Granted) <= tailIndex

\* When no call is in progress the optimistic count less the overcommitted one is the head: an
\* attempt never given back would hide an element from every later dequeue.
CountersBalance ==
  (\A c \in Consumers : claim[c].at \in {"idle", "owner"}) => optimistic - overcommit = headIndex
=============================================================================
