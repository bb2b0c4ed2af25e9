------------------------- MODULE RegistrationProofs -------------------------
(***************************************************************************)
(* Proofs about Registration for every number of requests, addresses,      *)
(* codes, connections and crashes.                                         *)
(***************************************************************************)
EXTENDS Registration, TLAPS

(***************************************************************************)
(* Type correctness.  The type invariant alone is not inductive: a handler *)
(* that writes the companions of its users row needs that row's number,    *)
(* and one that mails a code must have generated it.                       *)
(***************************************************************************)

HasUser(r) == pc[r] \in {"regIdentity", "regRisk", "regCommit"}

TypeInv ==
    /\ TypeOK
    /\ \A r \in Requests : HasUser(r) => uid[r] \in UserIds
    /\ \A r \in Requests : pc[r] = "sendMail" => code[r] \in Codes

\* The empty tables, cache and mailboxes are typed.
LEMMA InitTyped == Init => TypeInv
  BY RegistrationAssumption
     DEF Init, TypeInv, TypeOK, TablesInit, TablesTypeOK, NoRows, Rows, Replies, HasUser

\* The operations on the tables keep them typed.
LEMMA TablesTyped ==
    ASSUME TablesTypeOK, NEW r \in Requests
    PROVE  /\ Begin(r) => TablesTypeOK'
           /\ \A e \in Emails : CreateUser(r, e) => TablesTypeOK'
           /\ \A e \in Emails, u \in UserIds : CreateIdentity(r, u, e) => TablesTypeOK'
           /\ \A u \in UserIds : CreateRisk(r, u) => TablesTypeOK'
           /\ CommitRows(r) => TablesTypeOK'
           /\ DropRows(r) /\ nextId' \in Nat \ {0} => TablesTypeOK'
  <1> USE DEF TablesTypeOK, Rows, NoRows
  <1>1. Begin(r) => TablesTypeOK'
    BY DEF Begin
  <1>2. ASSUME NEW e \in Emails PROVE CreateUser(r, e) => TablesTypeOK'
    BY DEF CreateUser, User, UserIds
  <1>3. ASSUME NEW e \in Emails, NEW u \in UserIds
        PROVE  CreateIdentity(r, u, e) => TablesTypeOK'
    BY DEF CreateIdentity, Identity
  <1>4. ASSUME NEW u \in UserIds PROVE CreateRisk(r, u) => TablesTypeOK'
    BY DEF CreateRisk
  <1>5. CommitRows(r) => TablesTypeOK'
    BY DEF CommitRows
  <1>6. DropRows(r) /\ nextId' \in Nat \ {0} => TablesTypeOK'
    BY DEF DropRows
  <1> QED BY <1>1, <1>2, <1>3, <1>4, <1>5, <1>6

\* Every step keeps every variable in its type.
LEMMA StepTyped == TypeInv /\ [Next]_vars => TypeInv'
  <1> SUFFICES ASSUME TypeInv, [Next]_vars PROVE TypeInv'
    OBVIOUS
  <1> USE DEF TypeInv, TypeOK, SendPcs, RegPcs, TxPcs, Replies, HasUser,
              Goto, Answer, world, handlers
  <1>1. UNCHANGED tables => TablesTypeOK'
    BY DEF tables, TablesTypeOK, Rows
  <1>2. ASSUME NEW r \in Requests, Refuse(r) PROVE TypeInv'
    BY <1>2, <1>1 DEF Refuse
  <1>3. ASSUME NEW r \in Requests, SendCheck(r) PROVE TypeInv'
    BY <1>3, <1>1 DEF SendCheck
  <1>4. ASSUME NEW r \in Requests, SendLookup(r) PROVE TypeInv'
    <2>0. \/ code' = code /\ pc'[r] = "done"
          \/ \E c \in Codes : code' = [code EXCEPT ![r] = c]
      BY <1>4 DEF SendLookup
    <2>1. code' \in [Requests -> Codes \cup {NoCode}] /\ (code'[r] \in Codes \/ pc'[r] = "done")
          /\ \A q \in Requests \ {r} : code'[q] = code[q]
      <3>1. code \in [Requests -> Codes \cup {NoCode}]
        OBVIOUS
      <3> HIDE DEF TypeInv, TypeOK, Goto, Answer, world, handlers
      <3> QED BY <2>0, <3>1
    <2>2. pc'[r] \in {"sendMail", "done"} /\ \A q \in Requests \ {r} : pc'[q] = pc[q]
      BY <1>4 DEF SendLookup
    <2>7. /\ UNCHANGED <<email, uid, tables, world>>
          /\ \E p \in {"sendMail", "done"}, a \in Replies :
                pc' = [pc EXCEPT ![r] = p] /\ reply' \in {reply, [reply EXCEPT ![r] = a]}
      BY <1>4 DEF SendLookup
    <2>8. pc' \in [Requests -> SendPcs \cup RegPcs \cup {"idle", "done"}] /\ reply' \in [Requests -> Replies]
      BY <2>7
    <2>3. TypeOK'
      BY <1>1, <2>1, <2>7, <2>8
    <2>4. \A q \in Requests : HasUser(q)' => HasUser(q) /\ uid'[q] = uid[q]
      BY <1>4, <2>2 DEF SendLookup
    <2>5. \A q \in Requests : pc'[q] = "sendMail" => code'[q] \in Codes
      BY <2>1, <2>2
    <2>6. \A q \in Requests : HasUser(q) => uid[q] \in UserIds
      OBVIOUS
    <2> HIDE DEF TypeOK, HasUser, Goto, Answer, world, handlers
    <2> QED BY <2>3, <2>4, <2>5, <2>6
  <1>5. ASSUME NEW r \in Requests, SendMail(r) PROVE TypeInv'
    <2>1. mailbox[email[r]] \cup {code[r]} \in SUBSET Codes
      BY <1>5 DEF SendMail
    <2>2. mailbox' \in [Emails -> SUBSET Codes]
      BY <1>5, <2>1 DEF SendMail
    <2>3. /\ UNCHANGED <<email, code, uid, tables, store, now, crashes>>
          /\ \E p \in {"sendSave", "done"}, a \in Replies :
                pc' = [pc EXCEPT ![r] = p] /\ reply' \in {reply, [reply EXCEPT ![r] = a]}
      BY <1>5 DEF SendMail
    <2>4. pc' \in [Requests -> SendPcs \cup RegPcs \cup {"idle", "done"}] /\ reply' \in [Requests -> Replies]
      BY <2>3
    <2>5. \A q \in Requests : HasUser(q)' => HasUser(q)
      BY <2>3
    <2>6. \A q \in Requests : pc'[q] = "sendMail" => pc[q] = "sendMail"
      BY <2>3
    <2> QED BY <1>1, <2>2, <2>3, <2>4, <2>5, <2>6
  <1>6. ASSUME NEW r \in Requests, SendSave(r) PROVE TypeInv'
    <2>1. now + CodeTTL \in Nat
      BY RegistrationAssumption
    <2>2. store' \in [Emails -> [code : Codes \cup {NoCode}, exp : Nat]]
      BY <1>6, <2>1 DEF SendSave
    <2> QED BY <1>6, <1>1, <2>2 DEF SendSave
  <1>7. ASSUME NEW r \in Requests, RegGet(r) PROVE TypeInv'
    <2>1. /\ UNCHANGED <<email, uid, tables, world>>
          /\ \E c \in Codes : code' = [code EXCEPT ![r] = c]
      BY <1>7 DEF RegGet
    <2>2. PICK p \in {"done", "regLookup"} : pc' = [pc EXCEPT ![r] = p]
      BY <1>7 DEF RegGet
    <2>3. code' \in [Requests -> Codes \cup {NoCode}] /\ reply' \in [Requests -> Replies]
      BY <1>7, <2>1 DEF RegGet
    <2>4. \A q \in Requests : pc'[q] = "sendMail" => pc[q] = "sendMail" /\ code'[q] = code[q]
      BY <2>1, <2>2
    <2> QED BY <2>1, <2>2, <2>3, <2>4, <1>1
  <1>8. ASSUME NEW r \in Requests, RegLookup(r) PROVE TypeInv'
    BY <1>8, <1>1 DEF RegLookup
  <1>9. ASSUME NEW r \in Requests, RegBegin(r) PROVE TypeInv'
    <2>1. TablesTypeOK'
      BY <1>9, <1>1, TablesTyped DEF RegBegin
    <2> QED BY <1>9, <2>1 DEF RegBegin
  <1>10. ASSUME NEW r \in Requests, RegUser(r) PROVE TypeInv'
    <2>1. TablesTypeOK'
      <3>1. CASE CreateUser(r, email[r])
        BY <3>1, TablesTyped
      <3>2. CASE DropRows(r) /\ (nextId' = nextId \/ nextId' = nextId + 1)
        <4>1. nextId' \in Nat \ {0}
          BY <3>2 DEF TablesTypeOK
        <4> QED BY <3>2, <4>1, TablesTyped
      <3> QED BY <1>10, <3>1, <3>2 DEF RegUser, Rollback
    <2>2. /\ uid' \in [Requests -> UserIds \cup {0}]
          /\ pc'[r] = "regIdentity" => uid'[r] \in UserIds
      BY <1>10 DEF RegUser, CreateUser, Rollback
    <2>3. \A q \in Requests \ {r} : uid'[q] = uid[q] /\ pc'[q] = pc[q]
      BY <1>10 DEF RegUser, Rollback
    <2> QED BY <1>10, <2>1, <2>2, <2>3 DEF RegUser, Rollback
  <1>11. ASSUME NEW r \in Requests, RegIdentity(r) PROVE TypeInv'
    <2>1. TablesTypeOK'
      BY <1>11, TablesTyped DEF RegIdentity, Rollback, TablesTypeOK
    <2> QED BY <1>11, <2>1 DEF RegIdentity, Rollback
  <1>12. ASSUME NEW r \in Requests, RegRisk(r) PROVE TypeInv'
    <2>1. TablesTypeOK'
      BY <1>12, TablesTyped DEF RegRisk, Rollback, TablesTypeOK
    <2> QED BY <1>12, <2>1 DEF RegRisk, Rollback
  <1>13. ASSUME NEW r \in Requests, RegCommit(r) PROVE TypeInv'
    <2>1. TablesTypeOK'
      BY <1>13, TablesTyped DEF RegCommit, Rollback, TablesTypeOK
    <2> QED BY <1>13, <2>1 DEF RegCommit, Rollback
  <1>14. ASSUME NEW r \in Requests, RegReply(r) PROVE TypeInv'
    BY <1>14, <1>1 DEF RegReply
  <1>15. CASE Crash
    <2>1. TablesTypeOK'
      BY <1>15 DEF Crash, DropAllRows, TablesTypeOK, Rows, NoRows
    <2> QED BY <1>15, <2>1 DEF Crash, InFlight
  <1>16. CASE Tick
    BY <1>16, <1>1 DEF Tick
  <1>17. CASE UNCHANGED vars
    BY <1>17, <1>1 DEF vars
  <1> QED
    BY <1>2, <1>3, <1>4, <1>5, <1>6, <1>7, <1>8, <1>9, <1>10, <1>11, <1>12,
       <1>13, <1>14, <1>15, <1>16, <1>17 DEF Next, Enter, Step

\* Spec keeps TypeOK: every handler, table, cache and mailbox variable stays
\* in its type, whatever the bounds of the instance.
THEOREM TypeCorrect == Spec => []TypeOK
  <1>1. Spec => []TypeInv
    BY InitTyped, StepTyped, PTL DEF Spec
  <1>2. TypeInv => TypeOK
    BY DEF TypeInv
  <1> QED BY <1>1, <1>2, PTL
-----------------------------------------------------------------------------
(***************************************************************************)
(* The inductive invariant behind the safety properties.                   *)
(***************************************************************************)

UserRow(r)     == [id |-> uid[r], email |-> email[r]]
IdentityRow(r) == [user |-> uid[r], kind |-> "email", identifier |-> email[r]]
IdentityOf(u)  == [user |-> u.id, kind |-> "email", identifier |-> u.email]
Won(r)         == pc[r] = "regReply" \/ reply[r] = "tokens"

\* What an open transaction has inserted is what its handler has reached.
PendingRowsOf(r) ==
    /\ tx[r].users = IF HasUser(r) THEN {UserRow(r)} ELSE {}
    /\ tx[r].identities = IF pc[r] \in {"regRisk", "regCommit"} THEN {IdentityRow(r)} ELSE {}
    /\ tx[r].risks = IF pc[r] = "regCommit" THEN {uid[r]} ELSE {}
    /\ pc[r] \in TxPcs => r \in inTx

PendingRows == \A r \in Requests : PendingRowsOf(r)

\* No pending account shares its address or number with another pending or
\* committed one, and the sequence is ahead of them all.
KeysApart ==
    /\ \A r \in Requests : HasUser(r) =>
          /\ uid[r] < nextId
          /\ \A u \in users : u.email # email[r] /\ u.id # uid[r]
          /\ \A q \in Requests \ {r} : HasUser(q) => email[q] # email[r] /\ uid[q] # uid[r]
    /\ \A u \in users : u.id < nextId

\* A handler that committed, or answered tokens, has its users row in the
\* table, and no two have the same address.
Winners ==
    /\ \A r \in Requests : reply[r] = "tokens" => pc[r] = "done"
    /\ \A r \in Requests : Won(r) => UserRow(r) \in users
    /\ \A r, q \in Requests : Won(r) /\ Won(q) /\ r # q => email[r] # email[q]

\* A code is saved, accepted and registered with only after it was mailed.
CodesMailed ==
    /\ \A e \in Emails : store[e].code # NoCode => store[e].code \in mailbox[e]
    /\ \A r \in Requests : pc[r] \in {"sendSave"} \cup RegPcs => code[r] \in mailbox[email[r]]
    /\ \A u \in users : mailbox[u.email] # {}

IInv ==
    /\ TypeInv
    /\ PendingRows
    /\ KeysApart
    /\ AccountIntegrity
    /\ Winners
    /\ CodesMailed

\* The part of the invariant that speaks of rows, numbers and answers.
Tables == PendingRows /\ KeysApart /\ AccountIntegrity /\ Winners

\* Nothing is registered, pending or mailed at the start.
LEMMA InitInvariant == Init => IInv
  <1> SUFFICES ASSUME Init PROVE IInv
    OBVIOUS
  <1>1. TypeInv
    BY InitTyped
  <1>2. PendingRows /\ KeysApart /\ AccountIntegrity
    BY DEF Init, TablesInit, NoRows, PendingRows, PendingRowsOf, TxPcs, KeysApart, AccountIntegrity, HasUser
  <1>3. Winners
    BY DEF Init, Winners, Won
  <1>4. CodesMailed
    BY DEF Init, TablesInit, CodesMailed, RegPcs, TxPcs
  <1> QED BY <1>1, <1>2, <1>3, <1>4 DEF IInv

\* A step of a handler without rows of its own that touches no row.
QuietMove(r) ==
    /\ UNCHANGED <<users, identities, risks, tx, nextId, email, uid>>
    /\ inTx \subseteq inTx'
    /\ \A q \in Requests \ {r} : pc'[q] = pc[q] /\ reply'[q] = reply[q]
    /\ ~HasUser(r) /\ pc[r] \notin {"regReply", "done"}
    /\ ~HasUser(r)' /\ pc'[r] # "regReply" /\ reply'[r] # "tokens"
    /\ pc'[r] = "regUser" => r \in inTx'

\* Such a step keeps the invariant about rows.
LEMMA QuietKeeps ==
    ASSUME IInv, TypeInv', NEW r \in Requests, QuietMove(r)
    PROVE  Tables'
  <1> USE DEF IInv, QuietMove
  <1>1. PendingRows'
    BY DEF PendingRows, PendingRowsOf, HasUser, TxPcs, UserRow, IdentityRow
  <1>2. KeysApart'
    BY DEF KeysApart, HasUser
  <1>3. AccountIntegrity'
    BY DEF AccountIntegrity
  <1>4. Winners'
    BY DEF Winners, Won, UserRow
  <1> QED BY <1>1, <1>2, <1>3, <1>4 DEF Tables

\* A failed statement drops the handler's rows and may skip a number.
LEMMA RollbackKeeps ==
    ASSUME IInv, TypeInv', NEW r \in Requests, pc[r] \in TxPcs, Rollback(r),
           nextId' = nextId \/ nextId' = nextId + 1, UNCHANGED <<email, uid>>
    PROVE  Tables'
  <1> USE DEF IInv, Rollback, Answer, DropRows, TypeInv, TypeOK, TablesTypeOK, TxPcs
  <1>1. \A q \in Requests \ {r} :
           pc'[q] = pc[q] /\ reply'[q] = reply[q] /\ tx'[q] = tx[q] /\ (q \in inTx <=> q \in inTx')
    OBVIOUS
  <1>2. pc'[r] = "done" /\ reply'[r] = "error" /\ tx'[r] = NoRows
    OBVIOUS
  <1>3. PendingRows'
    <2>1. uid' = uid /\ email' = email
      OBVIOUS
    <2>2. PendingRowsOf(r)'
      BY <1>2 DEF PendingRowsOf, HasUser, NoRows
    <2>3. ASSUME NEW q \in Requests \ {r} PROVE PendingRowsOf(q)'
      <3>1. PendingRowsOf(q)
        BY DEF PendingRows
      <3> QED BY <1>1, <2>1, <3>1 DEF PendingRowsOf, HasUser, UserRow, IdentityRow
    <2> QED BY <2>2, <2>3 DEF PendingRows
  <1>4. KeysApart'
    <2>1. \A n \in Nat : n < nextId => n < nextId'
      OBVIOUS
    <2>2. \A u \in users : u.id \in Nat
      BY DEF User, UserIds
    <2>3. \A q \in Requests : HasUser(q) => uid[q] \in Nat
      BY DEF UserIds
    <2> QED BY <1>1, <1>2, <2>1, <2>2, <2>3 DEF KeysApart, HasUser
  <1>5. AccountIntegrity'
    BY DEF AccountIntegrity
  <1>6. Winners'
    BY <1>1, <1>2 DEF Winners, Won, UserRow
  <1> QED BY <1>3, <1>4, <1>5, <1>6 DEF Tables

\* Only handler r moved: the others keep their pending rows.
LEMMA OneHandler ==
    ASSUME PendingRows, NEW r \in Requests, UNCHANGED email,
           \A q \in Requests \ {r} :
               /\ pc'[q] = pc[q] /\ tx'[q] = tx[q] /\ uid'[q] = uid[q]
               /\ q \in inTx => q \in inTx',
           PendingRowsOf(r)'
    PROVE  PendingRows'
  BY DEF PendingRows, PendingRowsOf, HasUser, UserRow, IdentityRow

\* INSERT INTO users: the address is free and the number is new.
LEMMA UserInserted ==
    ASSUME IInv, TypeInv', NEW r \in Requests, pc[r] = "regUser",
           CreateUser(r, email[r]), uid' = [uid EXCEPT ![r] = nextId],
           Goto(r, "regIdentity"), UNCHANGED email
    PROVE  Tables'
  <1> USE DEF IInv, CreateUser, Goto, TypeInv, TypeOK, TablesTypeOK
  <1>1. \A q \in Requests \ {r} :
           pc'[q] = pc[q] /\ tx'[q] = tx[q] /\ uid'[q] = uid[q]
    OBVIOUS
  <1>2. ~HasUser(r) /\ HasUser(r)' /\ uid'[r] = nextId /\ pc'[r] = "regIdentity"
    BY DEF HasUser
  <1>3. /\ tx'[r].users = tx[r].users \cup {[id |-> nextId, email |-> email[r]]}
        /\ tx'[r].identities = tx[r].identities
        /\ tx'[r].risks = tx[r].risks
    BY DEF Rows
  <1>4. PendingRows'
    <2>1. r \in inTx'
      BY DEF PendingRows, PendingRowsOf, TxPcs
    <2>2. tx[r].users = {} /\ tx[r].identities = {} /\ tx[r].risks = {}
      BY <1>2 DEF PendingRows, PendingRowsOf
    <2>3. tx'[r].users = {UserRow(r)'} /\ tx'[r].identities = {} /\ tx'[r].risks = {}
      BY <1>2, <1>3, <2>2 DEF UserRow
    <2>4. PendingRowsOf(r)'
      BY <1>2, <2>1, <2>3 DEF PendingRowsOf
    <2> QED BY <1>1, <2>1, <2>4, OneHandler
  <1>5. KeysApart'
    <2>1. \A q \in Requests \ {r} : HasUser(q) => email[q] # email[r]
      <3> SUFFICES ASSUME NEW q \in Requests \ {r}, HasUser(q), email[q] = email[r]
                   PROVE  FALSE
        OBVIOUS
      <3>1. q \in inTx \ {r} /\ UserRow(q) \in tx[q].users
        <4>1. PendingRowsOf(q)
          BY DEF PendingRows
        <4>2. pc[q] \in TxPcs
          BY DEF HasUser, TxPcs
        <4> QED BY <4>1, <4>2 DEF PendingRowsOf
      <3>2. UserRow(q).email = email[r]
        BY DEF UserRow
      <3> QED BY <3>1, <3>2 DEF UserKeyHeld
    <2>2. \A u \in users : u.email # email[r]
      BY DEF Registered
    <2>3. \A u \in users : u.id \in Nat
      BY DEF User, UserIds
    <2>4. \A q \in Requests : HasUser(q) => uid[q] \in Nat
      BY DEF UserIds
    <2>5. ASSUME NEW q \in Requests, HasUser(q)'
          PROVE  /\ uid'[q] < nextId'
                 /\ \A u \in users' : u.email # email'[q] /\ u.id # uid'[q]
                 /\ \A p \in Requests \ {q} : HasUser(p)' =>
                        email'[p] # email'[q] /\ uid'[p] # uid'[q]
      <3>1. CASE q = r
        BY <3>1, <1>1, <1>2, <2>1, <2>2, <2>3, <2>4 DEF KeysApart, HasUser
      <3>2. CASE q # r
        <4>1. HasUser(q) /\ uid'[q] = uid[q] /\ uid[q] \in Nat
          BY <3>2, <2>5, <1>1, <2>4 DEF HasUser
        <4> QED BY <3>2, <4>1, <1>1, <1>2, <2>1, <2>3, <2>4 DEF KeysApart, HasUser
      <3> QED BY <3>1, <3>2
    <2>6. \A u \in users' : u.id < nextId'
      BY <2>3 DEF KeysApart
    <2> QED BY <2>5, <2>6 DEF KeysApart
  <1>6. AccountIntegrity'
    BY DEF AccountIntegrity
  <1>7. Winners'
    BY <1>1, <1>2 DEF Winners, Won, UserRow
  <1> QED BY <1>4, <1>5, <1>6, <1>7 DEF Tables

\* The companions of the users row.
LEMMA IdentityInserted ==
    ASSUME IInv, TypeInv', NEW r \in Requests, pc[r] = "regIdentity",
           CreateIdentity(r, uid[r], email[r]),
           Goto(r, "regRisk"), UNCHANGED <<email, uid>>
    PROVE  Tables'
  <1> USE DEF IInv, CreateIdentity, Goto, TypeInv, TypeOK, TablesTypeOK
  <1>1. \A q \in Requests \ {r} : pc'[q] = pc[q] /\ tx'[q] = tx[q]
    OBVIOUS
  <1>2. pc'[r] = "regRisk"
    OBVIOUS
  <1>3. /\ tx'[r].users = tx[r].users
        /\ tx'[r].identities = tx[r].identities \cup {IdentityRow(r)}
        /\ tx'[r].risks = tx[r].risks
    BY DEF Rows, IdentityRow
  <1>4. PendingRows'
    <2>1. /\ tx[r].users = {UserRow(r)} /\ tx[r].identities = {} /\ tx[r].risks = {}
          /\ r \in inTx
      BY DEF PendingRows, PendingRowsOf, HasUser, TxPcs
    <2>2. UserRow(r)' = UserRow(r) /\ IdentityRow(r)' = IdentityRow(r) /\ r \in inTx'
      BY <2>1 DEF UserRow, IdentityRow
    <2>3. PendingRowsOf(r)'
      BY <1>2, <1>3, <2>1, <2>2 DEF PendingRowsOf, HasUser
    <2> QED BY <1>1, <2>3, OneHandler
  <1>5. KeysApart'
    BY <1>1, <1>2 DEF KeysApart, HasUser
  <1>6. AccountIntegrity'
    BY DEF AccountIntegrity
  <1>7. Winners'
    BY <1>1, <1>2 DEF Winners, Won, UserRow
  <1> QED BY <1>4, <1>5, <1>6, <1>7 DEF Tables

\* The last companion: from here on the pending rows are a whole account.
LEMMA RiskInserted ==
    ASSUME IInv, TypeInv', NEW r \in Requests, pc[r] = "regRisk",
           CreateRisk(r, uid[r]), Goto(r, "regCommit"), UNCHANGED <<email, uid>>
    PROVE  Tables'
  <1> USE DEF IInv, CreateRisk, Goto, TypeInv, TypeOK, TablesTypeOK
  <1>1. \A q \in Requests \ {r} : pc'[q] = pc[q] /\ tx'[q] = tx[q]
    OBVIOUS
  <1>2. pc'[r] = "regCommit"
    OBVIOUS
  <1>3. /\ tx'[r].users = tx[r].users
        /\ tx'[r].identities = tx[r].identities
        /\ tx'[r].risks = tx[r].risks \cup {uid[r]}
    BY DEF Rows
  <1>4. PendingRows'
    <2>1. /\ tx[r].users = {UserRow(r)} /\ tx[r].identities = {IdentityRow(r)} /\ tx[r].risks = {}
          /\ r \in inTx
      BY DEF PendingRows, PendingRowsOf, HasUser, TxPcs
    <2>2. UserRow(r)' = UserRow(r) /\ IdentityRow(r)' = IdentityRow(r) /\ r \in inTx'
      BY <2>1 DEF UserRow, IdentityRow
    <2>3. PendingRowsOf(r)'
      BY <1>2, <1>3, <2>1, <2>2 DEF PendingRowsOf, HasUser
    <2> QED BY <1>1, <2>3, OneHandler
  <1>5. KeysApart'
    BY <1>1, <1>2 DEF KeysApart, HasUser
  <1>6. AccountIntegrity'
    BY DEF AccountIntegrity
  <1>7. Winners'
    BY <1>1, <1>2 DEF Winners, Won, UserRow
  <1> QED BY <1>4, <1>5, <1>6, <1>7 DEF Tables

\* COMMIT publishes one whole account with a fresh address and number.
LEMMA Committed ==
    ASSUME IInv, TypeInv', NEW r \in Requests, pc[r] = "regCommit",
           CommitRows(r), Goto(r, "regReply") \/ Answer(r, "error"),
           UNCHANGED <<email, uid>>
    PROVE  Tables' /\ users' = users \cup {UserRow(r)}
  <1> USE DEF IInv, CommitRows, Goto, Answer, TypeInv, TypeOK, TablesTypeOK
  <1>1. \A q \in Requests \ {r} :
           pc'[q] = pc[q] /\ tx'[q] = tx[q] /\ reply'[q] = reply[q] /\ (q \in inTx => q \in inTx')
    OBVIOUS
  <1>2. /\ pc'[r] \in {"regReply", "done"} /\ tx'[r] = NoRows
        /\ reply'[r] = "tokens" => pc'[r] = "done"
        /\ reply'[r] # "tokens"
    BY DEF Winners
  <1>3. HasUser(r) /\ ~HasUser(r)'
    BY <1>2 DEF HasUser
  <1>4. /\ users' = users \cup {UserRow(r)}
        /\ identities' = identities \cup {IdentityRow(r)}
        /\ risks' = risks \cup {uid[r]}
    BY <1>3 DEF PendingRows, PendingRowsOf
  <1>5. PendingRows'
    <2>1. PendingRowsOf(r)'
      BY <1>2, <1>3 DEF PendingRowsOf, HasUser, TxPcs, NoRows
    <2> QED BY <1>1, <2>1, OneHandler
  <1>6. KeysApart'
    BY <1>1, <1>2, <1>3, <1>4 DEF KeysApart, HasUser, UserRow
  <1>7. AccountIntegrity'
    <2>1. \A u, v \in users' : u.id = v.id \/ u.email = v.email => u = v
      BY <1>3, <1>4 DEF AccountIntegrity, KeysApart, UserRow
    <2>2. identities' = {IdentityOf(u) : u \in users'}
      <3>1. identities = {IdentityOf(u) : u \in users}
        BY DEF AccountIntegrity, IdentityOf
      <3>2. IdentityOf(UserRow(r)) = IdentityRow(r)
        BY DEF IdentityOf, UserRow, IdentityRow
      <3>3. {IdentityOf(u) : u \in users \cup {UserRow(r)}}
              = {IdentityOf(u) : u \in users} \cup {IdentityOf(UserRow(r))}
        OBVIOUS
      <3> QED BY <1>4, <3>1, <3>2, <3>3
    <2>3. risks' = {u.id : u \in users'}
      <3>1. UserRow(r).id = uid[r]
        BY DEF UserRow
      <3>2. {u.id : u \in users \cup {UserRow(r)}} = {u.id : u \in users} \cup {UserRow(r).id}
        OBVIOUS
      <3> QED BY <1>4, <3>1, <3>2 DEF AccountIntegrity
    <2> QED BY <2>1, <2>2, <2>3 DEF AccountIntegrity, IdentityOf
  <1>8. Winners'
    <2>1. \A q \in Requests \ {r} : Won(q) => email[q] # email[r]
      <3>1. ASSUME NEW q \in Requests, Won(q) PROVE \E u \in users : u.email = email[q]
        <4>1. UserRow(q) \in users /\ UserRow(q).email = email[q]
          BY <3>1 DEF Winners, UserRow
        <4> QED BY <4>1
      <3>2. \A u \in users : u.email # email[r]
        BY <1>3 DEF KeysApart
      <3> HIDE DEF IInv, TypeInv, TypeOK, TablesTypeOK
      <3> QED BY <3>1, <3>2
    <2>2. \A q \in Requests : UserRow(q)' = UserRow(q)
      BY DEF UserRow
    <2>3. \A q \in Requests \ {r} : Won(q)' <=> Won(q)
      BY <1>1 DEF Won
    <2>4. \A q \in Requests : Won(q)' => UserRow(q)' \in users'
      BY <1>4, <2>2, <2>3 DEF Winners
    <2>5. \A q \in Requests : reply'[q] = "tokens" => pc'[q] = "done"
      BY <1>1, <1>2 DEF Winners
    <2>6. \A p, q \in Requests : Won(p)' /\ Won(q)' /\ p # q => email'[p] # email'[q]
      BY <2>1, <2>3 DEF Winners
    <2> QED BY <2>4, <2>5, <2>6 DEF Winners
  <1> QED BY <1>4, <1>5, <1>6, <1>7, <1>8 DEF Tables

\* The process dies: every pending row goes, no committed one does.
LEMMA CrashKeeps == IInv /\ TypeInv' /\ Crash => Tables'
  <1> SUFFICES ASSUME IInv, TypeInv', Crash PROVE Tables'
    OBVIOUS
  <1> USE DEF IInv, Crash, DropAllRows, TypeInv, TypeOK, TablesTypeOK
  <1>1. \A q \in Requests : ~HasUser(q)' /\ tx'[q] = NoRows /\ pc'[q] \notin TxPcs \cup {"regReply"}
    BY DEF HasUser, InFlight, SendPcs, RegPcs, TxPcs
  <1>2. \A q \in Requests : reply'[q] = "tokens" => reply[q] = "tokens" /\ pc'[q] = pc[q]
    BY DEF InFlight, SendPcs, RegPcs, TxPcs, Winners
  <1>3. PendingRows'
    BY <1>1 DEF PendingRows, PendingRowsOf, NoRows, HasUser
  <1>4. KeysApart'
    BY <1>1 DEF KeysApart
  <1>5. AccountIntegrity'
    BY DEF AccountIntegrity
  <1>6. Winners'
    BY <1>1, <1>2 DEF Winners, Won, UserRow
  <1> QED BY <1>3, <1>4, <1>5, <1>6 DEF Tables

\* The answer of a committed handler.
LEMMA AnsweredKeeps ==
    ASSUME IInv, TypeInv', NEW r \in Requests, RegReply(r)
    PROVE  Tables'
  <1> USE DEF IInv, RegReply, Answer, TypeInv, TypeOK, tables
  <1>1. /\ \A q \in Requests \ {r} : pc'[q] = pc[q] /\ reply'[q] = reply[q]
        /\ pc[r] = "regReply" /\ pc'[r] = "done"
    OBVIOUS
  <1>2. PendingRows'
    <2>1. PendingRowsOf(r)'
      BY <1>1 DEF PendingRows, PendingRowsOf, HasUser, TxPcs
    <2> QED BY <1>1, <2>1, OneHandler
  <1>3. KeysApart'
    BY <1>1 DEF KeysApart, HasUser
  <1>4. AccountIntegrity'
    BY DEF AccountIntegrity
  <1>5. Winners'
    <2>1. \A q \in Requests : (Won(q)' => Won(q)) /\ UserRow(q)' = UserRow(q)
      BY <1>1 DEF Won, UserRow
    <2>2. \A q \in Requests : reply'[q] = "tokens" => pc'[q] = "done"
      BY <1>1 DEF Winners
    <2> QED BY <2>1, <2>2 DEF Winners
  <1> QED BY <1>2, <1>3, <1>4, <1>5 DEF Tables

\* A tick of the clock, or a stutter, touches neither handlers nor rows.
LEMMA StutterKeeps ==
    ASSUME IInv, UNCHANGED handlers, UNCHANGED tables
    PROVE  Tables'
  <1> USE DEF IInv, handlers, tables
  <1>1. PendingRows'
    BY DEF PendingRows, PendingRowsOf, HasUser, UserRow, IdentityRow
  <1>2. KeysApart'
    BY DEF KeysApart, HasUser
  <1>3. AccountIntegrity' /\ Winners'
    BY DEF AccountIntegrity, Winners, Won, UserRow
  <1> QED BY <1>1, <1>2, <1>3 DEF Tables

\* The part of the invariant about rows is kept by every step.
LEMMA TablesKept == IInv /\ TypeInv' /\ [Next]_vars => Tables'
  <1> SUFFICES ASSUME IInv, TypeInv', [Next]_vars PROVE Tables'
    OBVIOUS
  <1> USE DEF TypeInv, TypeOK, TablesTypeOK, HasUser, TxPcs, Goto, Answer, tables, IInv
  <1>1. ASSUME NEW r \in Requests, Refuse(r) PROVE Tables'
    <2>1. QuietMove(r)
      BY <1>1 DEF QuietMove, Winners, Refuse
    <2> QED BY <2>1, QuietKeeps
  <1>2. ASSUME NEW r \in Requests, SendCheck(r) PROVE Tables'
    <2>1. QuietMove(r)
      BY <1>2 DEF QuietMove, Winners, SendCheck
    <2> QED BY <2>1, QuietKeeps
  <1>3. ASSUME NEW r \in Requests, SendLookup(r) PROVE Tables'
    <2>1. QuietMove(r)
      BY <1>3 DEF QuietMove, Winners, SendLookup
    <2> QED BY <2>1, QuietKeeps
  <1>4. ASSUME NEW r \in Requests, SendMail(r) PROVE Tables'
    <2>1. QuietMove(r)
      BY <1>4 DEF QuietMove, Winners, SendMail
    <2> QED BY <2>1, QuietKeeps
  <1>5. ASSUME NEW r \in Requests, SendSave(r) PROVE Tables'
    <2>1. QuietMove(r)
      BY <1>5 DEF QuietMove, Winners, SendSave
    <2> QED BY <2>1, QuietKeeps
  <1>6. ASSUME NEW r \in Requests, RegGet(r) PROVE Tables'
    <2>1. QuietMove(r)
      BY <1>6 DEF QuietMove, Winners, RegGet
    <2> QED BY <2>1, QuietKeeps
  <1>7. ASSUME NEW r \in Requests, RegLookup(r) PROVE Tables'
    <2>1. QuietMove(r)
      BY <1>7 DEF QuietMove, Winners, RegLookup
    <2> QED BY <2>1, QuietKeeps
  <1>8. ASSUME NEW r \in Requests, RegBegin(r) PROVE Tables'
    <2>1. QuietMove(r)
      BY <1>8 DEF QuietMove, Winners, RegBegin, Begin
    <2> QED BY <2>1, QuietKeeps
  <1>9. ASSUME NEW r \in Requests, RegUser(r) PROVE Tables'
    BY <1>9, UserInserted, RollbackKeeps DEF RegUser
  <1>10. ASSUME NEW r \in Requests, RegIdentity(r) PROVE Tables'
    BY <1>10, IdentityInserted, RollbackKeeps DEF RegIdentity
  <1>11. ASSUME NEW r \in Requests, RegRisk(r) PROVE Tables'
    BY <1>11, RiskInserted, RollbackKeeps DEF RegRisk
  <1>12. ASSUME NEW r \in Requests, RegCommit(r) PROVE Tables'
    BY <1>12, Committed, RollbackKeeps DEF RegCommit
  <1>13. ASSUME NEW r \in Requests, RegReply(r) PROVE Tables'
    BY <1>13, AnsweredKeeps
  <1>14. CASE Crash
    BY <1>14, CrashKeeps
  <1>15. CASE Tick
    BY <1>15, StutterKeeps DEF Tick
  <1>16. CASE UNCHANGED vars
    BY <1>16, StutterKeeps DEF vars
  <1> QED
    BY <1>1, <1>2, <1>3, <1>4, <1>5, <1>6, <1>7, <1>8, <1>9, <1>10, <1>11,
       <1>12, <1>13, <1>14, <1>15, <1>16 DEF Next, Enter, Step

\* Mail leaves before the code is saved, and a code is accepted only if saved.
LEMMA CodesKept == IInv /\ TypeInv' /\ [Next]_vars => CodesMailed'
  <1> SUFFICES ASSUME IInv, TypeInv', [Next]_vars PROVE CodesMailed'
    OBVIOUS
  <1> USE DEF IInv, TypeInv, TypeOK, TablesTypeOK, CodesMailed, RegPcs, TxPcs, SendPcs,
              Goto, Answer, tables, world, handlers
  <1>1. ASSUME UNCHANGED <<email, store, mailbox, users, code>>,
               \A q \in Requests : pc'[q] \in {"sendSave"} \cup RegPcs =>
                    pc[q] \in {"sendSave"} \cup RegPcs
        PROVE  CodesMailed'
    BY <1>1
  <1>2. ASSUME NEW r \in Requests, Refuse(r) \/ SendCheck(r) PROVE CodesMailed'
    <2>1. CASE Refuse(r)
      BY <2>1, <1>1 DEF Refuse
    <2>2. CASE SendCheck(r)
      BY <2>2, <1>1 DEF SendCheck
    <2> QED BY <1>2, <2>1, <2>2
  <1>3. ASSUME NEW r \in Requests, SendLookup(r) PROVE CodesMailed'
    <2>1. \A q \in Requests : pc'[q] \in {"sendSave"} \cup RegPcs =>
              pc[q] = pc'[q] /\ code'[q] = code[q]
      BY <1>3 DEF SendLookup
    <2> QED BY <1>3, <2>1 DEF SendLookup
  <1>4. ASSUME NEW r \in Requests, SendMail(r) PROVE CodesMailed'
    <2>1. \A e \in Emails : mailbox[e] \subseteq mailbox'[e]
      BY <1>4 DEF SendMail
    <2>2. \A u \in users : u.email \in Emails
      BY DEF User
    <2>3. ASSUME NEW q \in Requests, pc'[q] \in {"sendSave"} \cup RegPcs
          PROVE  code[q] \in mailbox'[email[q]]
      <3>1. CASE q = r
        BY <3>1, <2>3, <1>4 DEF SendMail
      <3>2. CASE q # r
        BY <3>2, <2>3, <1>4, <2>1 DEF SendMail
      <3> QED BY <3>1, <3>2
    <2> QED BY <1>4, <2>1, <2>2, <2>3 DEF SendMail
  <1>5. ASSUME NEW r \in Requests, SendSave(r) PROVE CodesMailed'
    <2>1. \A e \in Emails : store'[e].code # NoCode => store'[e].code \in mailbox[e]
      <3>1. code[r] \in mailbox[email[r]]
        BY <1>5 DEF SendSave
      <3>2. CASE store' = [store EXCEPT ![email[r]] = [code |-> code[r], exp |-> now + CodeTTL]]
        BY <3>1, <3>2
      <3>3. CASE UNCHANGED store
        BY <3>3
      <3> QED BY <1>5, <3>2, <3>3 DEF SendSave
    <2> QED BY <1>5, <2>1 DEF SendSave
  <1>6. ASSUME NEW r \in Requests, RegGet(r) PROVE CodesMailed'
    <2>1. PICK c \in Codes :
             /\ code' = [code EXCEPT ![r] = c]
             /\ pc'[r] \in {"sendSave"} \cup RegPcs => store[email[r]].code = c
      <3>1. PICK c \in Codes :
               /\ code' = [code EXCEPT ![r] = c]
               /\ \/ pc' = [pc EXCEPT ![r] = "done"]
                  \/ store[email[r]].code = c
        BY <1>6 DEF RegGet
      <3>2. pc'[r] = "done" \/ store[email[r]].code = c
        BY <3>1
      <3>3. "done" \notin {"sendSave"} \cup RegPcs
        OBVIOUS
      <3> QED BY <3>1, <3>2, <3>3
    <2>2. pc'[r] \in {"sendSave"} \cup RegPcs => code'[r] \in mailbox[email[r]]
      BY <2>1, RegistrationAssumption
    <2>3. \A q \in Requests \ {r} : pc'[q] = pc[q] /\ code'[q] = code[q]
      BY <1>6, <2>1 DEF RegGet
    <2> QED BY <1>6, <2>2, <2>3 DEF RegGet
  <1>7. ASSUME NEW r \in Requests,
               RegLookup(r) \/ RegBegin(r) \/ RegIdentity(r) \/ RegRisk(r) \/ RegReply(r)
        PROVE  CodesMailed'
    BY <1>7, <1>1 DEF RegLookup, RegBegin, Begin, RegIdentity, CreateIdentity,
                      RegRisk, CreateRisk, RegReply, Rollback, DropRows
  <1>8. ASSUME NEW r \in Requests, RegUser(r) PROVE CodesMailed'
    BY <1>8, <1>1 DEF RegUser, CreateUser, Rollback, DropRows
  <1>9. ASSUME NEW r \in Requests, RegCommit(r) PROVE CodesMailed'
    <2>1. CASE Rollback(r)
      BY <1>9, <2>1, <1>1 DEF RegCommit, Rollback, DropRows
    <2>2. CASE CommitRows(r)
      <3>1. users' = users \cup {UserRow(r)}
        BY <1>9, <2>2 DEF CommitRows, PendingRows, PendingRowsOf, HasUser, RegCommit
      <3>2. UserRow(r).email = email[r] /\ mailbox[email[r]] # {}
        BY <1>9 DEF RegCommit, UserRow
      <3>3. \A q \in Requests : pc'[q] \in {"sendSave"} \cup RegPcs =>
                pc[q] \in {"sendSave"} \cup RegPcs
        BY <1>9 DEF RegCommit, Rollback
      <3> QED BY <1>9, <3>1, <3>2, <3>3 DEF RegCommit
    <2> QED BY <1>9, <2>1, <2>2 DEF RegCommit
  <1>10. CASE Crash
    BY <1>10, <1>1 DEF Crash, DropAllRows, InFlight
  <1>11. CASE Tick \/ UNCHANGED vars
    BY <1>11, <1>1 DEF Tick, vars
  <1> QED
    BY <1>2, <1>3, <1>4, <1>5, <1>6, <1>7, <1>8, <1>9, <1>10, <1>11
       DEF Next, Enter, Step
-----------------------------------------------------------------------------
(***************************************************************************)
(* The safety properties, for every instance.                              *)
(***************************************************************************)

\* The invariant is inductive.
LEMMA StepInvariant == IInv /\ [Next]_vars => IInv'
  <1> SUFFICES ASSUME IInv, [Next]_vars PROVE IInv'
    OBVIOUS
  <1>1. TypeInv'
    BY StepTyped DEF IInv
  <1>2. Tables' /\ CodesMailed'
    BY <1>1, TablesKept, CodesKept
  <1> QED BY <1>1, <1>2 DEF IInv, Tables

\* Hence it holds in every reachable state.
LEMMA Invariant == Spec => []IInv
  BY InitInvariant, StepInvariant, PTL DEF Spec

\* The tables never hold part of an account, nor two for one address.
THEOREM Integrity == Spec => []AccountIntegrity
  <1>1. IInv => AccountIntegrity
    BY DEF IInv
  <1> QED BY <1>1, Invariant, PTL

\* The INSERT into identities never meets a conflict.
THEOREM IdentityFree == Spec => []NoIdentityClash
  <1>1. ASSUME IInv PROVE NoIdentityClash
    <2> USE <1>1 DEF IInv
    <2> SUFFICES ASSUME NEW r \in Requests, pc[r] = "regIdentity"
                 PROVE  ~IdentityTaken(email[r]) /\ ~IdentityKeyHeld(r, email[r])
      BY DEF NoIdentityClash
    <2>1. ~IdentityTaken(email[r])
      BY DEF IdentityTaken, AccountIntegrity, KeysApart, HasUser
    <2>2. ~IdentityKeyHeld(r, email[r])
      <3> SUFFICES ASSUME NEW q \in inTx \ {r}, NEW i \in tx[q].identities,
                          i.identifier = email[r]
                   PROVE  FALSE
        BY DEF IdentityKeyHeld
      <3>1. q \in Requests
        BY DEF TypeInv, TypeOK, TablesTypeOK
      <3>2. HasUser(q) /\ i = IdentityRow(q)
        BY <3>1 DEF PendingRows, PendingRowsOf, HasUser
      <3>3. email[q] = email[r]
        BY <3>2 DEF IdentityRow
      <3> QED BY <3>1, <3>2, <3>3 DEF KeysApart, HasUser
    <2> QED BY <2>1, <2>2
  <1> QED BY <1>1, Invariant, PTL

\* Registration needs a code that was mailed to the address.
THEOREM Ownership == Spec => []OwnershipProved
  <1>1. IInv => OwnershipProved
    BY DEF IInv, CodesMailed, OwnershipProved
  <1> QED BY <1>1, Invariant, PTL

\* At most one token answer per address, for the account in the table.
THEOREM OneWinner == Spec => []TokensMatchAccount
  <1>1. IInv => TokensMatchAccount
    BY DEF IInv, Winners, Won, UserRow, TokensMatchAccount
  <1> QED BY <1>1, Invariant, PTL
-----------------------------------------------------------------------------
(***************************************************************************)
(* Registration implements Accounts.                                       *)
(***************************************************************************)

\* COMMIT is the step that opens an account, the token answer the one that
\* grants it; nothing else shows.
LEMMA StepRefines == IInv /\ IInv' /\ [Next]_vars => [Abstract!Next]_(Abstract!vars)
  <1> SUFFICES ASSUME IInv, IInv', [Next]_vars
               PROVE  Abstract!Next \/ (WholeUsers' = WholeUsers /\ Granted' = Granted)
    BY DEF Abstract!vars
  <1>1. WholeUsers = users /\ WholeUsers' = users'
    BY DEF IInv, AccountIntegrity, WholeUsers
  <1> USE DEF IInv, TypeInv, TypeOK, TablesTypeOK
  <1>2. ASSUME UNCHANGED email,
               \A q \in Requests : (reply'[q] = "tokens") <=> (reply[q] = "tokens"),
               \A q \in Requests : reply[q] = "tokens" => uid'[q] = uid[q]
        PROVE  Granted' = Granted
    BY <1>2 DEF Granted
  <1>3. ASSUME UNCHANGED <<users, email, uid>>,
               \A q \in Requests : (reply'[q] = "tokens") <=> (reply[q] = "tokens")
        PROVE  WholeUsers' = WholeUsers /\ Granted' = Granted
    BY <1>1, <1>2, <1>3
  <1> USE DEF Goto, Answer, tables, Winners
  <1>4. ASSUME NEW r \in Requests, Enter(r) PROVE WholeUsers' = WholeUsers /\ Granted' = Granted
    BY <1>3, <1>4 DEF Enter, Refuse, SendCheck, RegGet
  <1>5. ASSUME NEW r \in Requests, SendLookup(r) \/ SendMail(r) \/ SendSave(r)
        PROVE  WholeUsers' = WholeUsers /\ Granted' = Granted
    BY <1>3, <1>5 DEF SendLookup, SendMail, SendSave
  <1>6. ASSUME NEW r \in Requests,
               RegLookup(r) \/ RegBegin(r) \/ RegIdentity(r) \/ RegRisk(r)
        PROVE  WholeUsers' = WholeUsers /\ Granted' = Granted
    BY <1>3, <1>6 DEF RegLookup, RegBegin, Begin, RegIdentity, CreateIdentity,
                      RegRisk, CreateRisk, Rollback, DropRows
  <1>7. ASSUME NEW r \in Requests, RegUser(r)
        PROVE  WholeUsers' = WholeUsers /\ Granted' = Granted
    BY <1>1, <1>2, <1>7 DEF RegUser, CreateUser, Rollback, DropRows
  <1>8. ASSUME NEW r \in Requests, RegCommit(r)
        PROVE  Abstract!Next \/ (WholeUsers' = WholeUsers /\ Granted' = Granted)
    <2>1. CASE Rollback(r)
      BY <1>3, <1>8, <2>1 DEF RegCommit, Rollback, DropRows
    <2>2. CASE CommitRows(r) /\ ~Rollback(r)
      <3>1. users' = users \cup {UserRow(r)}
        BY <1>8, <2>2 DEF CommitRows, PendingRows, PendingRowsOf, HasUser, RegCommit
      <3>2. UserRow(r) \in Abstract!Account
        BY <1>8 DEF Abstract!Account, RegCommit, HasUser, UserRow
      <3>3. \A b \in users : b.email # UserRow(r).email /\ b.id # UserRow(r).id
        BY <1>8 DEF RegCommit, KeysApart, HasUser, UserRow
      <3>4. Granted' = Granted
        BY <1>2, <1>8 DEF RegCommit, Rollback
      <3>5. Abstract!Open(UserRow(r))
        BY <1>1, <3>1, <3>3, <3>4 DEF Abstract!Open
      <3> QED BY <3>2, <3>5 DEF Abstract!Next
    <2> QED BY <1>8, <2>1, <2>2 DEF RegCommit
  <1>9. ASSUME NEW r \in Requests, RegReply(r)
        PROVE  Abstract!Next \/ (WholeUsers' = WholeUsers /\ Granted' = Granted)
    <2>1. CASE Answer(r, "error")
      BY <1>3, <1>9, <2>1 DEF RegReply
    <2>2. CASE Answer(r, "tokens")
      <3>1. UserRow(r) \in users
        BY <1>9 DEF RegReply, Won
      <3>2. UserRow(r) \in Abstract!Account
        BY <3>1 DEF Abstract!Account, User
      <3>3. Granted' = Granted \cup {UserRow(r)}
        BY <1>9, <2>2 DEF RegReply, Granted, UserRow
      <3>4. Abstract!Grant(UserRow(r))
        BY <1>1, <1>9, <3>1, <3>3 DEF Abstract!Grant, RegReply
      <3> QED BY <3>2, <3>4 DEF Abstract!Next
    <2> QED BY <1>9, <2>1, <2>2 DEF RegReply
  <1>10. CASE Crash
    BY <1>3, <1>10 DEF Crash, DropAllRows, InFlight, SendPcs, RegPcs, TxPcs
  <1>11. CASE Tick \/ UNCHANGED vars
    BY <1>3, <1>11 DEF Tick, vars, handlers
  <1> QED
    BY <1>4, <1>5, <1>6, <1>7, <1>8, <1>9, <1>10, <1>11 DEF Next, Step

\* The three inserts, the commit and the answer of the concurrent handlers
\* look to an outside observer like one atomic Open and one Grant.
THEOREM Refinement == Spec => ImplementsAccounts
  <1>1. Init => Abstract!Init
    BY DEF Init, TablesInit, Abstract!Init, WholeUsers, Granted
  <1> QED
    BY <1>1, StepRefines, Invariant, PTL DEF Spec, ImplementsAccounts, Abstract!Spec
=============================================================================
