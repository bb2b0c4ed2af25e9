----------------------------- MODULE UserTables -----------------------------
(***************************************************************************)
(* The three PostgreSQL tables of AuthorVGroup/users.sql as the handlers   *)
(* see them: committed rows, the rows each open gorm transaction has       *)
(* inserted but not committed, the SERIAL behind users.user_id, and the    *)
(* bounded database/sql connection pool of models.InitDB.                  *)
(*                                                                         *)
(* A statement is one step.  An INSERT waits while another open            *)
(* transaction holds a row with the same unique key (the unique index      *)
(* makes the second inserter wait for the first one's outcome), and fails  *)
(* when a committed row has it.  Reads see committed rows only.            *)
(***************************************************************************)
EXTENDS Integers, FiniteSets

CONSTANTS
    Requests,     \* handler invocations; each one runs in its own goroutine
    Emails,       \* mail addresses
    MaxConns,     \* SetMaxOpenConns: 50 in models.InitDB
    MaxUserId     \* largest value of the SERIAL column: 2^31 - 1

ASSUME TablesAssumption ==
    /\ MaxConns \in Nat \ {0}
    /\ MaxUserId \in Nat

VARIABLES
    users,        \* committed rows of users
    identities,   \* committed rows of identities
    risks,        \* user_id of the committed rows of user_risks
    tx,           \* tx[r]: rows r's open transaction has inserted
    inTx,         \* requests with an open transaction (each holds a connection)
    nextId        \* next value of the users.user_id sequence

tables == <<users, identities, risks, tx, inTx, nextId>>

UserIds  == 1 .. MaxUserId
User     == [id : UserIds, email : Emails]
Identity == [user : UserIds, kind : {"email"}, identifier : Emails]
Rows     == [users : SUBSET User, identities : SUBSET Identity, risks : SUBSET UserIds]

NoRows == [users |-> {}, identities |-> {}, risks |-> {}]

TablesTypeOK ==
    /\ users \subseteq User
    /\ identities \subseteq Identity
    /\ risks \subseteq UserIds
    /\ tx \in [Requests -> Rows]
    /\ inTx \subseteq Requests
    /\ nextId \in Nat \ {0}

TablesInit ==
    /\ users = {}
    /\ identities = {}
    /\ risks = {}
    /\ tx = [r \in Requests |-> NoRows]
    /\ inTx = {}
    /\ nextId = 1
-----------------------------------------------------------------------------
\* A pooled connection is available; a statement outside a transaction takes
\* one and gives it back in the same step, an open transaction keeps its own.
ConnFree == Cardinality(inTx) < MaxConns

\* SELECT ... FROM users WHERE email = e finds a row.
Registered(e) == \E u \in users : u.email = e

Begin(r) ==
    /\ ConnFree
    /\ inTx' = inTx \cup {r}
    /\ UNCHANGED <<users, identities, risks, tx, nextId>>

\* Another open transaction has inserted the unique key this INSERT needs.
UserKeyHeld(r, e)     == \E q \in inTx \ {r} : \E u \in tx[q].users : u.email = e
IdentityKeyHeld(r, e) == \E q \in inTx \ {r} : \E i \in tx[q].identities : i.identifier = e
IdentityTaken(e)      == \E i \in identities : i.identifier = e

\* Mutant: the UNIQUE on users.email is missing from the schema.
CreateUserShared(r, e) ==
    /\ nextId \in UserIds
    /\ tx' = [tx EXCEPT ![r].users = @ \cup {[id |-> nextId, email |-> e]}]
    /\ nextId' = nextId + 1
    /\ UNCHANGED <<users, identities, risks, inTx>>

\* Mutant: the sequence counts from 0.
CreateUserFromZero(r, e) ==
    /\ ~UserKeyHeld(r, e)
    /\ ~Registered(e)
    /\ nextId \in UserIds
    /\ tx' = [tx EXCEPT ![r].users = @ \cup {[id |-> nextId - 1, email |-> e]}]
    /\ nextId' = nextId + 1
    /\ UNCHANGED <<users, identities, risks, inTx>>

\* The INSERT into users that succeeds; it takes the next sequence value.
CreateUser(r, e) ==
    /\ ~UserKeyHeld(r, e)
    /\ ~Registered(e)
    /\ nextId \in UserIds
    /\ tx' = [tx EXCEPT ![r].users = @ \cup {[id |-> nextId, email |-> e]}]
    /\ nextId' = nextId + 1
    /\ UNCHANGED <<users, identities, risks, inTx>>

CreateIdentity(r, u, e) ==
    /\ ~IdentityKeyHeld(r, e)
    /\ ~IdentityTaken(e)
    /\ tx' = [tx EXCEPT ![r].identities =
                  @ \cup {[user |-> u, kind |-> "email", identifier |-> e]}]
    /\ UNCHANGED <<users, identities, risks, inTx, nextId>>

CreateRisk(r, u) ==
    /\ tx' = [tx EXCEPT ![r].risks = @ \cup {u}]
    /\ UNCHANGED <<users, identities, risks, inTx, nextId>>

\* COMMIT publishes the rows, ROLLBACK drops them; both free the connection.
CommitRows(r) ==
    /\ users' = users \cup tx[r].users
    /\ identities' = identities \cup tx[r].identities
    /\ risks' = risks \cup tx[r].risks
    /\ tx' = [tx EXCEPT ![r] = NoRows]
    /\ inTx' = inTx \ {r}
    /\ UNCHANGED nextId

DropRows(r) ==
    /\ tx' = [tx EXCEPT ![r] = NoRows]
    /\ inTx' = inTx \ {r}
    /\ UNCHANGED <<users, identities, risks>>

\* The server closes the sessions of a dead client: every open transaction
\* rolls back.
DropAllRows ==
    /\ tx' = [r \in Requests |-> NoRows]
    /\ inTx' = {}
    /\ UNCHANGED <<users, identities, risks, nextId>>
=============================================================================
