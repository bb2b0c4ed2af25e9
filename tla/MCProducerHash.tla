--------------------------- MODULE MCProducerHash ---------------------------
(* Producer lookup by three threads, and the ones that follow with their ids, in a small first table. *)
EXTENDS ProducerHash, TLC

CONSTANTS t1, t2, t3

MCThreads == {t1, t2, t3}
\* Two probes start at one slot of the first tables and at two of a larger one.
MCHash == t1 :> 1 @@ t2 :> 5 @@ t3 :> 2
=============================================================================
