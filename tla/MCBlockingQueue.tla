-------------------------- MODULE MCBlockingQueue --------------------------
(* Two producers and two consumers, one of them with a consumer token. *)
EXTENDS BlockingQueue, TLC

CONSTANTS p1, p2, c1, c2

MCOffset == c1 :> 1 @@ c2 :> 0
=============================================================================
