------------------------------- MODULE Tokens -------------------------------
(***************************************************************************)
(* The tokens of AuthorVGroup/router/gmail.go: the pair a registration     *)
(* answers with and the access token /refresh_token (RefreshTokenHandler)  *)
(* gives for one of them.                                                  *)
(*                                                                         *)
(* Nothing stores a token: it is valid until its exp, so the state is the  *)
(* set of unexpired tokens clients hold.  A token is its user and the time *)
(* it has left; the clock is unbounded.  RefreshTokenHandler looks at the  *)
(* signature, the expiry and the claims, which both kinds of token have,   *)
(* so either kind renews.  A handler invocation is reused after its        *)
(* answer.                                                                 *)
(***************************************************************************)
EXTENDS Integers

CONSTANTS
    Requests,     \* handler invocations that run at once
    Users,        \* user_id values
    AccessTTL,    \* 15 minutes at gmail.go:345
    RefreshTTL    \* 7 days at gmail.go:356

ASSUME TokensAssumption ==
    /\ AccessTTL \in Nat \ {0}
    /\ RefreshTTL \in Nat
    /\ AccessTTL <= RefreshTTL

VARIABLES
    status,       \* the row of each user: none yet, is_active or not, deleted
    tokens,       \* unexpired tokens
    pc,           \* the next step of each handler
    user,         \* the user each handler works for
    reply,        \* the last answer of each handler
    late          \* handlers whose user was switched off after they had
                  \* found it active (no variable of the program)

vars == <<status, tokens, pc, user, reply, late>>

Token(u, t) == [user |-> u, left |-> t]

TypeOK ==
    /\ status \in [Users -> {"none", "active", "disabled", "deleted"}]
    /\ tokens \subseteq [user : Users, left : 1 .. RefreshTTL]
    /\ pc \in [Requests -> {"idle", "lookup", "sign", "regSign"}]
    /\ user \in [Requests -> Users]
    /\ reply \in [Requests -> {"none", "badRequest", "unauthorized", "error", "tokens"}]
    /\ late \subseteq Requests

Init ==
    /\ status = [u \in Users |-> "none"]
    /\ tokens = {}
    /\ pc = [r \in Requests |-> "idle"]
    /\ user \in [Requests -> Users]
    /\ reply = [r \in Requests |-> "none"]
    /\ late = {}
-----------------------------------------------------------------------------
\* Handler r answers a and serves another request.
Answer(r, a) ==
    /\ pc' = [pc EXCEPT ![r] = "idle"]
    /\ reply' = [reply EXCEPT ![r] = a]

\* EmailGmailRegister commits the account of u.
RegCommit(r, u) ==
    /\ pc[r] = "idle" /\ status[u] = "none"
    /\ status' = [status EXCEPT ![u] = "active"]
    /\ pc' = [pc EXCEPT ![r] = "regSign"]
    /\ user' = [user EXCEPT ![r] = u]
    /\ UNCHANGED <<tokens, reply, late>>

\* It signs both tokens and answers; when signing fails it answers without.
RegSign(r) ==
    /\ pc[r] = "regSign"
    /\ \/ /\ tokens' = tokens \cup {Token(user[r], AccessTTL), Token(user[r], RefreshTTL)}
          /\ Answer(r, "tokens")
       \/ Answer(r, "error") /\ UNCHANGED tokens
    /\ late' = late \ {r}
    /\ UNCHANGED <<status, user>>

\* An empty form field, or a token that is expired or none of ours.
RefreshRefuse(r) ==
    /\ pc[r] = "idle"
    /\ Answer(r, "badRequest") \/ Answer(r, "unauthorized")
    /\ UNCHANGED <<status, tokens, user, late>>

\* jwt.Parse accepts an unexpired token.
RefreshParse(r) ==
    /\ pc[r] = "idle"
    /\ \E t \in tokens : user' = [user EXCEPT ![r] = t.user]
    /\ pc' = [pc EXCEPT ![r] = "lookup"]
    /\ UNCHANGED <<status, tokens, reply, late>>

\* Mutant: the user is looked up, is_active is not looked at.
RefreshLookupAnyUser(r) ==
    /\ pc[r] = "lookup"
    /\ \/ /\ status[user[r]] \in {"active", "disabled"}
          /\ pc' = [pc EXCEPT ![r] = "sign"] /\ UNCHANGED reply
       \/ status[user[r]] \in {"none", "deleted"} /\ Answer(r, "unauthorized")
       \/ Answer(r, "error")
    /\ UNCHANGED <<status, tokens, user, late>>

\* The users lookup and the is_active check.
RefreshLookup(r) ==
    /\ pc[r] = "lookup"
    /\ \/ /\ status[user[r]] = "active"
          /\ pc' = [pc EXCEPT ![r] = "sign"] /\ UNCHANGED reply
       \/ status[user[r]] # "active" /\ Answer(r, "unauthorized")
       \/ Answer(r, "error")
    /\ UNCHANGED <<status, tokens, user, late>>

RefreshSign(r) ==
    /\ pc[r] = "sign"
    /\ \/ /\ tokens' = tokens \cup {Token(user[r], AccessTTL)}
          /\ Answer(r, "tokens")
       \/ Answer(r, "error") /\ UNCHANGED tokens
    /\ late' = late \ {r}
    /\ UNCHANGED <<status, user>>
-----------------------------------------------------------------------------
\* Mutant: an expired token is still accepted.
AgedKeepingExpired(T) == {Token(t.user, t.left - 1) : t \in T}

\* What is left of tokens T a unit of time later.
Aged(T) == {Token(t.user, t.left - 1) : t \in {s \in T : s.left > 1}}

Tick ==
    /\ tokens' = Aged(tokens)
    /\ UNCHANGED <<status, pc, user, reply, late>>

\* Handlers that have found u active and have not signed yet.
Signing(u) == {r \in Requests : pc[r] \in {"sign", "regSign"} /\ user[r] = u}

\* Somebody edits the users table: no handler writes is_active or deletes.
SwitchOff(u) ==
    /\ status[u] = "active"
    /\ \E s \in {"disabled", "deleted"} : status' = [status EXCEPT ![u] = s]
    /\ late' = late \cup Signing(u)
    /\ UNCHANGED <<tokens, pc, user, reply>>

SwitchOn(u) ==
    /\ status[u] = "disabled"
    /\ status' = [status EXCEPT ![u] = "active"]
    /\ UNCHANGED <<tokens, pc, user, reply, late>>
-----------------------------------------------------------------------------
Step(r) == RegSign(r) \/ RefreshLookup(r) \/ RefreshSign(r)

Next ==
    \/ \E r \in Requests :
          Step(r) \/ RefreshRefuse(r) \/ RefreshParse(r) \/ \E u \in Users : RegCommit(r, u)
    \/ \E u \in Users : SwitchOff(u) \/ SwitchOn(u)
    \/ Tick

Spec == Init /\ [][Next]_vars

\* A started handler runs on and time passes.  Clients and whoever edits the
\* table are free.
FairSpec == Spec /\ WF_vars(Tick) /\ \A r \in Requests : WF_vars(Step(r))
-----------------------------------------------------------------------------
(* Properties                                                              *)

TokensOf(u) == {t \in tokens : t.user = u}
Off(u) == status[u] # "active"

\* No token outlives those u's clients hold already, once u is off and the
\* handlers that had found u active before have answered.
NoYounger(u) ==
    Off(u) /\ (\A r \in late : user[r] # u) =>
        \A t \in TokensOf(u)' : \E s \in TokensOf(u) : t.left <= s.left

\* Renewing never prolongs the access of a disabled or deleted user, except
\* by the handlers caught between their is_active check and their signature
\* (gmail.go:323 and :328, or :249 and :256), however refreshes interleave.
\* A user whose registration is being committed becomes active in that step.
OffDwindles == [][\A u \in Users : NoYounger(u)]_vars

\* A user who is switched off for good is without any valid token at some
\* point: although each token can renew itself before it expires, the chain
\* of renewals ends.
CutOff ==
    \A u \in Users : <>[]Off(u) => <>[](TokensOf(u) = {})
=============================================================================
