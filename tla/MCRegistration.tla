--------------------------- MODULE MCRegistration ---------------------------
(***************************************************************************)
(* Small instances of Registration for TLC, and a statement of a comment   *)
(* of the repository that the handlers do not keep.                        *)
(***************************************************************************)
EXTENDS Registration

\* gmail.go:123 "check Redis for an unexpired code, to prevent duplicate
\* sending": no mail leaves for an address that has a live code.
NoDuplicateSend ==
    [][\A r \in Requests :
          pc[r] = "sendMail" /\ mailbox' # mailbox /\ pc'[r] # pc[r] => ~Live(email[r])]_vars
=============================================================================
