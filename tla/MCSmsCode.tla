----------------------------- MODULE MCSmsCode -----------------------------
(***************************************************************************)
(* Small instances of SmsCode for TLC.                                     *)
(***************************************************************************)
EXTENDS SmsCode, TLC

Symmetric == Permutations(Requests) \cup Permutations(Phones) \cup Permutations(Codes)
=============================================================================
