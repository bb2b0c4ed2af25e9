------------------------------ MODULE MCDBPool ------------------------------
(***************************************************************************)
(* Small instances of DBPool for TLC.                                      *)
(***************************************************************************)
EXTENDS DBPool, TLC

Symmetric == Permutations(Threads \ {First})
=============================================================================
