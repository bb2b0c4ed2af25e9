------------------------------ MODULE Accounts ------------------------------
(***************************************************************************)
(* What account registration promises, with no handler, cache or table in  *)
(* sight: an account appears whole and in one step, no two accounts share  *)
(* an address or a number, accounts stay, and a token pair is only ever    *)
(* granted to an account that exists.                                      *)
(***************************************************************************)
EXTENDS Naturals

CONSTANTS Emails,     \* mail addresses
          UserIds     \* the numbers a users row may carry

VARIABLES accounts,   \* the accounts that exist
          granted     \* the accounts a token pair was handed out for

vars == <<accounts, granted>>

Account == [id : UserIds, email : Emails]

Init ==
    /\ accounts = {}
    /\ granted = {}

Open(a) ==
    /\ \A b \in accounts : b.email # a.email /\ b.id # a.id
    /\ accounts' = accounts \cup {a}
    /\ UNCHANGED granted

Grant(a) ==
    /\ a \in accounts
    /\ granted' = granted \cup {a}
    /\ UNCHANGED accounts

Next == \E a \in Account : Open(a) \/ Grant(a)

Spec == Init /\ [][Next]_vars
=============================================================================
