----------------------------- MODULE SmsProofs -----------------------------
(***************************************************************************)
(* Proofs about SmsCode for every number of requests, phones and codes.    *)
(***************************************************************************)
EXTENDS SmsCode, TLAPS

\* Nothing is stored or sent at the start.
LEMMA InitTyped == Init => TypeOK
  <1> SUFFICES ASSUME Init PROVE TypeOK
    OBVIOUS
  <1>1. store \in [Phones -> {NoKey} \cup [code : Codes, left : 1 .. CodeTTL]]
    BY DEF Init
  <1> QED BY <1>1 DEF Init, TypeOK, Replies

\* A stored code is of the type of a key, and stays so while time passes.
LEMMA KeyTyped ==
    /\ \A c \in Codes : [code |-> c, left |-> CodeTTL] \in [code : Codes, left : 1 .. CodeTTL]
    /\ \A k \in [code : Codes, left : 1 .. CodeTTL] :
          k.left > 1 => /\ [k EXCEPT !.left = @ - 1] \in [code : Codes, left : 1 .. CodeTTL]
                        /\ [k EXCEPT !.left = @ - 1].code = k.code
  <1>1. CodeTTL \in 1 .. CodeTTL
    BY SmsAssumption
  <1>2. ASSUME NEW n \in 1 .. CodeTTL, n > 1 PROVE n - 1 \in 1 .. CodeTTL
    BY <1>2, SmsAssumption
  <1> QED BY <1>1, <1>2

\* Every step keeps every variable in its type.
LEMMA StepTyped == TypeOK /\ [Next]_vars => TypeOK'
  <1> SUFFICES ASSUME TypeOK, [Next]_vars PROVE TypeOK'
    OBVIOUS
  <1> USE DEF TypeOK
  <1>1. ASSUME NEW r \in Requests, SendRefuse(r) PROVE TypeOK'
    BY <1>1 DEF SendRefuse, Replies
  <1>2. ASSUME NEW r \in Requests, SendSet(r) PROVE TypeOK'
    BY <1>2, KeyTyped DEF SendSet, Answer, Replies
  <1>3. ASSUME NEW r \in Requests, SendSms(r) PROVE TypeOK'
    BY <1>3 DEF SendSms, Answer, Replies
  <1>4. ASSUME NEW r \in Requests, VerifyGet(r) PROVE TypeOK'
    BY <1>4 DEF VerifyGet, Answer, Replies
  <1>5. ASSUME NEW r \in Requests, VerifyDel(r) PROVE TypeOK'
    BY <1>5 DEF VerifyDel, Answer, Replies
  <1>6. CASE Crash
    BY <1>6 DEF Crash, Replies
  <1>7. CASE Tick
    <2>1. ASSUME NEW p \in Phones
          PROVE  (IF store[p].left > 1 THEN [store[p] EXCEPT !.left = @ - 1] ELSE NoKey)
                   \in {NoKey} \cup [code : Codes, left : 1 .. CodeTTL]
      <3>1. CASE store[p] = NoKey
        BY <3>1 DEF NoKey
      <3>2. CASE store[p] \in [code : Codes, left : 1 .. CodeTTL]
        BY <3>2, KeyTyped
      <3> QED BY <3>1, <3>2
    <2> QED BY <1>7, <2>1 DEF Tick
  <1>8. CASE UNCHANGED vars
    BY <1>8 DEF vars
  <1> QED BY <1>1, <1>2, <1>3, <1>4, <1>5, <1>6, <1>7, <1>8 DEF Next

\* Spec keeps TypeOK: in particular, a key without a code never stays behind.
THEOREM TypeCorrect == Spec => []TypeOK
  BY InitTyped, StepTyped, PTL DEF Spec
-----------------------------------------------------------------------------
\* Sends to a number that never overlapped run one at a time, and the key, if
\* it exists, holds the code of the one that runs.
SendsApart ==
    /\ \A r \in Requests : pc[r] = "del" => job[r] = "verify"
    /\ \A r \in Requests : pc[r] = "sms" => job[r] = "send"
    /\ \A p \in Phones \ crossed : \A q, r \in Sending(p) :
          q = r /\ (Live(p) => store[p].code = code[r])

IInv == TypeOK /\ SendsApart /\ NewestWorks

\* Nobody has been told anything at the start.
LEMMA InitInv == Init => IInv
  BY InitTyped DEF Init, IInv, SendsApart, NewestWorks, Sending

\* Every step keeps the invariant: SET, which replaces the code, ends what the
\* last send promised or starts a send whose message will hold the new code.
LEMMA StepInv == IInv /\ [Next]_vars => IInv'
  <1> SUFFICES ASSUME IInv, [Next]_vars PROVE SendsApart' /\ NewestWorks'
    BY StepTyped DEF IInv
  <1> USE DEF IInv, TypeOK, SendsApart, NewestWorks, Sending, Live
  <1>1. ASSUME NEW r \in Requests, SendRefuse(r) PROVE SendsApart' /\ NewestWorks'
    BY <1>1 DEF SendRefuse
  <1>2. ASSUME NEW r \in Requests, SendSet(r) PROVE SendsApart' /\ NewestWorks'
    <2>1. SendsApart'
      BY <1>2 DEF SendSet, Answer
    <2>2. NewestWorks'
      BY <1>2 DEF SendSet, Answer
    <2> QED BY <2>1, <2>2
  <1>3. ASSUME NEW r \in Requests, SendSms(r) PROVE SendsApart' /\ NewestWorks'
    <2>1. SendsApart'
      BY <1>3 DEF SendSms, Answer
    <2>2. NewestWorks'
      BY <1>3 DEF SendSms, Answer
    <2> QED BY <2>1, <2>2
  <1>4. ASSUME NEW r \in Requests, VerifyGet(r) PROVE SendsApart' /\ NewestWorks'
    BY <1>4 DEF VerifyGet, Answer
  <1>5. ASSUME NEW r \in Requests, VerifyDel(r) PROVE SendsApart' /\ NewestWorks'
    BY <1>5 DEF VerifyDel, Answer, NoKey
  <1>6. CASE Crash
    BY <1>6 DEF Crash
  <1>7. CASE Tick
    <2>1. \A p \in Phones : Live(p)' => Live(p) /\ store'[p].code = store[p].code
      BY <1>7 DEF Tick, NoKey
    <2> QED BY <1>7, <2>1 DEF Tick
  <1>8. CASE UNCHANGED vars
    BY <1>8 DEF vars
  <1> QED BY <1>1, <1>2, <1>3, <1>4, <1>5, <1>6, <1>7, <1>8 DEF Next

\* NewestWorks always holds: after sends that do not overlap the newest
\* message holds the code the server accepts.
THEOREM Newest == Spec => []NewestWorks
  <1>1. Spec => []IInv
    BY InitInv, StepInv, PTL DEF Spec
  <1>2. IInv => NewestWorks
    BY DEF IInv
  <1> QED BY <1>1, <1>2, PTL
=============================================================================
