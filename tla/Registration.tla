---------------------------- MODULE Registration ----------------------------
(***************************************************************************)
(* The two mail handlers of AuthorVGroup/router/gmail.go: /send_code       *)
(* (SendEmailGmail) and /email_register (EmailGmailRegister).              *)
(*                                                                         *)
(* gin runs every request in a goroutine of its own, so a step is one      *)
(* remote call of one handler (Redis, PostgreSQL, SMTP) together with the  *)
(* local code up to the next call.  A call may fail; a write may also fail *)
(* after it took effect (the answer was lost).  Redis, PostgreSQL and the  *)
(* mailboxes survive a crash of the Go process, handlers do not.           *)
(***************************************************************************)
EXTENDS UserTables

CONSTANTS
    Codes,        \* verification codes (six digits in the code)
    NoCode,       \* the code of a request that has none yet
    CodeTTL,      \* expiry of a stored code: 180 s at gmail.go:159
    MaxTime,      \* bound on the clock
    MaxCrashes    \* bound on crashes of the Go process

ASSUME RegistrationAssumption ==
    /\ NoCode \notin Codes
    /\ CodeTTL \in Nat \ {0}
    /\ MaxTime \in Nat
    /\ MaxCrashes \in Nat

VARIABLES
    pc,           \* the next call of each request's handler
    email,        \* the address in each request's form
    code,         \* the code in the form (register) or generated (send)
    uid,          \* newUser.UserID of a register handler, 0 before the INSERT
    reply,        \* what the handler answered
    store,        \* the Redis keys verify_code:<address>
    mailbox,      \* the codes that reached each address
    now,          \* the clock Redis expires keys by
    crashes       \* crashes so far

handlers == <<pc, email, code, uid, reply>>
vars == <<handlers, tables, store, mailbox, now, crashes>>

SendPcs == {"sendLookup", "sendMail", "sendSave"}
TxPcs   == {"regUser", "regIdentity", "regRisk", "regCommit"}
RegPcs  == {"regLookup", "regBegin", "regReply"} \cup TxPcs
InFlight(r) == pc[r] \in SendPcs \cup RegPcs

Replies == {"none", "sent", "badRequest", "tooMany", "registered",
            "expired", "wrong", "error", "tokens", "lost"}

TypeOK ==
    /\ TablesTypeOK
    /\ pc \in [Requests -> SendPcs \cup RegPcs \cup {"idle", "done"}]
    /\ email \in [Requests -> Emails]
    /\ code \in [Requests -> Codes \cup {NoCode}]
    /\ uid \in [Requests -> UserIds \cup {0}]
    /\ reply \in [Requests -> Replies]
    /\ store \in [Emails -> [code : Codes \cup {NoCode}, exp : Nat]]
    /\ mailbox \in [Emails -> SUBSET Codes]
    /\ now \in Nat
    /\ crashes \in Nat

Init ==
    /\ TablesInit
    /\ pc = [r \in Requests |-> "idle"]
    /\ email \in [Requests -> Emails]
    /\ code = [r \in Requests |-> NoCode]
    /\ uid = [r \in Requests |-> 0]
    /\ reply = [r \in Requests |-> "none"]
    /\ store = [e \in Emails |-> [code |-> NoCode, exp |-> 0]]
    /\ mailbox = [e \in Emails |-> {}]
    /\ now = 0
    /\ crashes = 0
-----------------------------------------------------------------------------
\* The key is in Redis and has not expired.
Live(e) == now < store[e].exp

Goto(r, p) ==
    /\ pc' = [pc EXCEPT ![r] = p]
    /\ UNCHANGED reply

Answer(r, a) ==
    /\ pc' = [pc EXCEPT ![r] = "done"]
    /\ reply' = [reply EXCEPT ![r] = a]

world == <<store, mailbox, now, crashes>>

\* Either handler: an empty form field is refused before any call.
Refuse(r) ==
    /\ pc[r] = "idle"
    /\ Answer(r, "badRequest")
    /\ UNCHANGED <<email, code, uid, tables, world>>
-----------------------------------------------------------------------------
(* SendEmailGmail                                                          *)

\* Redis EXISTS.
SendCheck(r) ==
    /\ pc[r] = "idle"
    /\ \/ Live(email[r]) /\ Answer(r, "tooMany")
       \/ ~Live(email[r]) /\ Goto(r, "sendLookup")
       \/ Answer(r, "error")
    /\ UNCHANGED <<email, code, uid, tables, world>>

\* The users lookup; a free address gets a fresh code.
SendLookup(r) ==
    /\ pc[r] = "sendLookup"
    /\ ConnFree
    /\ \/ /\ Registered(email[r])
          /\ Answer(r, "registered")
          /\ UNCHANGED code
       \/ /\ ~Registered(email[r])
          /\ \E c \in Codes : code' = [code EXCEPT ![r] = c]
          /\ Goto(r, "sendMail")
       \/ /\ Answer(r, "error")
          /\ UNCHANGED code
    /\ UNCHANGED <<email, uid, tables, world>>

\* Mutant: the error of the SMTP dialogue is not looked at.
SendMailUnchecked(r) ==
    /\ pc[r] = "sendMail"
    /\ \/ mailbox' = [mailbox EXCEPT ![email[r]] = @ \cup {code[r]}]
       \/ UNCHANGED mailbox
    /\ Goto(r, "sendSave")
    /\ UNCHANGED <<email, code, uid, tables, store, now, crashes>>

\* The SMTP dialogue.  It can fail after the server accepted the message.
SendMail(r) ==
    /\ pc[r] = "sendMail"
    /\ \/ /\ mailbox' = [mailbox EXCEPT ![email[r]] = @ \cup {code[r]}]
          /\ Goto(r, "sendSave") \/ Answer(r, "error")
       \/ /\ UNCHANGED mailbox
          /\ Answer(r, "error")
    /\ UNCHANGED <<email, code, uid, tables, store, now, crashes>>

\* Redis SET with the expiry.  It can fail after Redis executed it.
SendSave(r) ==
    /\ pc[r] = "sendSave"
    /\ \/ /\ store' = [store EXCEPT ![email[r]] =
                          [code |-> code[r], exp |-> now + CodeTTL]]
          /\ Answer(r, "sent") \/ Answer(r, "error")
       \/ /\ UNCHANGED store
          /\ Answer(r, "error")
    /\ UNCHANGED <<email, code, uid, tables, mailbox, now, crashes>>
-----------------------------------------------------------------------------
(* EmailGmailRegister                                                      *)

\* Redis GET and the comparison with the code c of the form.
RegGet(r) ==
    /\ pc[r] = "idle"
    /\ \E c \in Codes :
          /\ code' = [code EXCEPT ![r] = c]
          /\ \/ ~Live(email[r]) /\ Answer(r, "expired")
             \/ Live(email[r]) /\ store[email[r]].code # c /\ Answer(r, "wrong")
             \/ Live(email[r]) /\ store[email[r]].code = c /\ Goto(r, "regLookup")
             \/ Answer(r, "error")
    /\ UNCHANGED <<email, uid, tables, world>>

RegLookup(r) ==
    /\ pc[r] = "regLookup"
    /\ ConnFree
    /\ \/ Registered(email[r]) /\ Answer(r, "registered")
       \/ ~Registered(email[r]) /\ Goto(r, "regBegin")
       \/ Answer(r, "error")
    /\ UNCHANGED <<email, code, uid, tables, world>>

RegBegin(r) ==
    /\ pc[r] = "regBegin"
    /\ \/ Begin(r) /\ Goto(r, "regUser")
       \/ ConnFree /\ Answer(r, "error") /\ UNCHANGED tables
    /\ UNCHANGED <<email, code, uid, world>>

\* Mutant: a failed statement returns without rolling back.
RollbackForgotten(r) ==
    /\ UNCHANGED <<users, identities, risks, tx, inTx>>
    /\ Answer(r, "error")

\* A statement failed: gorm rolls back and the handler answers 500.
Rollback(r) ==
    /\ DropRows(r)
    /\ Answer(r, "error")

\* INSERT INTO users.  A duplicate address is an error that still consumed
\* the sequence value it was going to use; so may any other failed INSERT.
\* A statement that waits for another transaction's key does not fail while
\* it waits: no timeout is configured.
RegUser(r) ==
    /\ pc[r] = "regUser"
    /\ ~UserKeyHeld(r, email[r])
    /\ \/ /\ CreateUser(r, email[r])
          /\ uid' = [uid EXCEPT ![r] = nextId]
          /\ Goto(r, "regIdentity")
       \/ /\ Rollback(r)
          /\ nextId \in UserIds /\ nextId' = nextId + 1
          /\ UNCHANGED uid
       \/ /\ Rollback(r)
          /\ UNCHANGED <<uid, nextId>>
    /\ UNCHANGED <<email, code, world>>

RegIdentity(r) ==
    /\ pc[r] = "regIdentity"
    /\ ~IdentityKeyHeld(r, email[r])
    /\ \/ CreateIdentity(r, uid[r], email[r]) /\ Goto(r, "regRisk")
       \/ Rollback(r) /\ UNCHANGED nextId
    /\ UNCHANGED <<email, code, uid, world>>

\* Mutant: the error of tx.Create(&risk) is not returned to Transaction.
RegRiskUnchecked(r) ==
    /\ pc[r] = "regRisk"
    /\ CreateRisk(r, uid[r]) \/ UNCHANGED tables
    /\ Goto(r, "regCommit")
    /\ UNCHANGED <<email, code, uid, world>>

\* Mutant: the tokens are answered from inside the transaction.
RegRiskAnswering(r) ==
    /\ pc[r] = "regRisk"
    /\ CreateRisk(r, uid[r])
    /\ Goto(r, "regReply")
    /\ UNCHANGED <<email, code, uid, world>>

RegRisk(r) ==
    /\ pc[r] = "regRisk"
    /\ \/ CreateRisk(r, uid[r]) /\ Goto(r, "regCommit")
       \/ Rollback(r) /\ UNCHANGED nextId
    /\ UNCHANGED <<email, code, uid, world>>

\* Mutant: the error of Transaction is not looked at.
RegCommitUnchecked(r) ==
    /\ pc[r] = "regCommit"
    /\ CommitRows(r) \/ (DropRows(r) /\ UNCHANGED nextId)
    /\ Goto(r, "regReply")
    /\ UNCHANGED <<email, code, uid, world>>

\* COMMIT.  The transaction may be committed although the call failed.
RegCommit(r) ==
    /\ pc[r] = "regCommit"
    /\ \/ CommitRows(r) /\ (Goto(r, "regReply") \/ Answer(r, "error"))
       \/ Rollback(r) /\ UNCHANGED nextId
    /\ UNCHANGED <<email, code, uid, world>>

\* Both tokens are signed and the reply is written.
RegReply(r) ==
    /\ pc[r] = "regReply"
    /\ Answer(r, "tokens") \/ Answer(r, "error")
    /\ UNCHANGED <<email, code, uid, tables, world>>
-----------------------------------------------------------------------------
\* The Go process dies and is restarted: its handlers never answer.
Crash ==
    /\ crashes < MaxCrashes
    /\ crashes' = crashes + 1
    /\ pc' = [r \in Requests |-> IF InFlight(r) THEN "done" ELSE pc[r]]
    /\ reply' = [r \in Requests |-> IF InFlight(r) THEN "lost" ELSE reply[r]]
    /\ DropAllRows
    /\ UNCHANGED <<email, code, uid, store, mailbox, now>>

Tick ==
    /\ now < MaxTime
    /\ now' = now + 1
    /\ UNCHANGED <<handlers, tables, store, mailbox, crashes>>

Enter(r) == Refuse(r) \/ SendCheck(r) \/ RegGet(r)

Step(r) ==
    \/ SendLookup(r) \/ SendMail(r) \/ SendSave(r)
    \/ RegLookup(r) \/ RegBegin(r) \/ RegUser(r) \/ RegIdentity(r)
    \/ RegRisk(r) \/ RegCommit(r) \/ RegReply(r)

Next == (\E r \in Requests : Enter(r) \/ Step(r)) \/ Crash \/ Tick

Spec == Init /\ [][Next]_vars

\* Every call returns (or fails) at some point and the Go scheduler runs the
\* handler on; whether clients call, the clock moves or the process dies is
\* left open.
FairSpec == Spec /\ \A r \in Requests : WF_vars(Step(r))
-----------------------------------------------------------------------------
(* Properties                                                              *)

\* Whatever handlers ran into one another, failed half-way or died, the
\* committed tables hold whole accounts only: one users row per address and
\* per number, with its identity and its risk row, and no row of another
\* table without its user (EmailGmailRegister's transaction).
AccountIntegrity ==
    /\ \A u, v \in users : u.id = v.id \/ u.email = v.email => u = v
    /\ identities = {[user |-> u.id, kind |-> "email", identifier |-> u.email] : u \in users}
    /\ risks = {u.id : u \in users}

\* The INSERT into identities is never the one that conflicts: whoever holds
\* or has committed the users row for an address keeps every other handler
\* out of that address's identity, although the two unique keys are checked
\* by separate statements.
NoIdentityClash ==
    \A r \in Requests : pc[r] = "regIdentity" =>
        ~IdentityTaken(email[r]) /\ ~IdentityKeyHeld(r, email[r])

\* An address is registered, or about to be, only after a code was mailed to
\* it: a handler past the comparison holds a code its address received, and
\* Redis never holds a code that did not go out first.
OwnershipProved ==
    /\ \A e \in Emails : store[e].code # NoCode => store[e].code \in mailbox[e]
    /\ \A r \in Requests : pc[r] \in RegPcs => code[r] \in mailbox[email[r]]
    /\ \A u \in users : mailbox[u.email] # {}

\* At most one client ever gets tokens for an address, and they name the
\* account that is in the table, also when several clients register the
\* address at once, with the same code.
TokensMatchAccount ==
    \A r \in Requests : reply[r] = "tokens" =>
        /\ [id |-> uid[r], email |-> email[r]] \in users
        /\ \A q \in Requests \ {r} : reply[q] = "tokens" => email[q] # email[r]

\* Every handler that made its first call answers, or dies with the process:
\* waiting for a pooled connection and for another transaction's key never
\* closes a cycle.
Answered == \A r \in Requests : InFlight(r) ~> pc[r] = "done"

\* Registration implements the abstract service: the accounts are the users
\* rows that have both companions, the grants the token answers.
WholeUsers ==
    {u \in users : /\ [user |-> u.id, kind |-> "email", identifier |-> u.email] \in identities
                   /\ u.id \in risks}
Granted ==
    {[id |-> uid[r], email |-> email[r]] : r \in {q \in Requests : reply[q] = "tokens"}}

Abstract == INSTANCE Accounts WITH accounts <- WholeUsers, granted <- Granted

ImplementsAccounts == Abstract!Spec
=============================================================================
