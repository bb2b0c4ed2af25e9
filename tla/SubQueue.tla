------------------------------ MODULE SubQueue ------------------------------
(***************************************************************************)
(* What one producer's queue promises: the elements, named by the order in *)
(* which they were enqueued, are given out in that order, each to one      *)
(* consumer, and a consumer gets the very elements it was given.           *)
(***************************************************************************)
EXTENDS Integers

CONSTANT Takers
VARIABLES put,    \* number of elements enqueued
          given,  \* number of elements given out
          owed,   \* [Takers -> SUBSET Nat]: given to a consumer, not yet moved out
          taken   \* the elements moved out to callers

subQueueVars == <<put, given, owed, taken>>

\* Any number of elements may have come and gone.
Init == put \in Nat /\ given = put /\ owed = [c \in Takers |-> {}] /\ taken = 0 .. put - 1

Enqueue ==
  /\ put' > put
  /\ UNCHANGED <<given, owed, taken>>

Give(c) ==
  /\ owed[c] = {}
  /\ given' > given /\ given' <= put
  /\ owed' = [owed EXCEPT ![c] = given .. given' - 1]
  /\ UNCHANGED <<put, taken>>

MoveOut(c) ==
  \E n \in owed[c] :
    LET out == {i \in owed[c] : i <= n}
    IN  /\ owed' = [owed EXCEPT ![c] = @ \ out]
        /\ taken' = taken \cup out
        /\ UNCHANGED <<put, given>>

Next == Enqueue \/ \E c \in Takers : Give(c) \/ MoveOut(c)

Spec == Init /\ [][Next]_subQueueVars
=============================================================================
