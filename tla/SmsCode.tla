------------------------------- MODULE SmsCode -------------------------------
(***************************************************************************)
(* The two SMS handlers of AuthorVGroup/router/iphone.go, SendSmsCode and  *)
(* VerifySmsCode, over the Redis keys verify_code:<phone>.  A step is one  *)
(* remote call; each may fail, and SET, DEL and the SMS service may fail   *)
(* after they took effect.                                                 *)
(***************************************************************************)
EXTENDS Integers, FiniteSets

CONSTANTS
    Requests,     \* handler invocations
    Phones,       \* phone numbers
    Codes,        \* verification codes
    NoCode,       \* no code
    CodeTTL       \* expiry of a key: 10 minutes at iphone.go:39

ASSUME SmsAssumption == NoCode \notin Codes /\ CodeTTL \in Nat \ {0}

VARIABLES
    job,          \* the handler each request calls
    phone,        \* the number in its form
    code,         \* the code it generated, or brings
    pc,           \* its next call
    reply,        \* its answer
    store,        \* the key of each number and the time it has left
    message,      \* the last code the SMS service took for each number
    told,         \* numbers whose last finished send was answered "sent",
    crossed       \* and those with overlapping sends (no program variables)

vars == <<job, phone, code, pc, reply, store, message, told, crossed>>

Replies == {"none", "badRequest", "error", "sent", "expired", "wrong", "verified", "lost"}

\* The number has no key.
NoKey == [code |-> NoCode, left |-> 0]

TypeOK ==
    /\ job \in [Requests -> {"send", "verify"}]
    /\ phone \in [Requests -> Phones]
    /\ code \in [Requests -> Codes \cup {NoCode}]
    /\ pc \in [Requests -> {"idle", "sms", "del", "done"}]
    /\ reply \in [Requests -> Replies]
    /\ store \in [Phones -> {NoKey} \cup [code : Codes, left : 1 .. CodeTTL]]
    /\ message \in [Phones -> Codes \cup {NoCode}]
    /\ told \subseteq Phones
    /\ crossed \subseteq Phones

Init ==
    /\ job \in [Requests -> {"send", "verify"}]
    /\ phone \in [Requests -> Phones]
    /\ code = [r \in Requests |-> NoCode]
    /\ pc = [r \in Requests |-> "idle"]
    /\ reply = [r \in Requests |-> "none"]
    /\ store = [p \in Phones |-> NoKey]
    /\ message = [p \in Phones |-> NoCode]
    /\ told = {}
    /\ crossed = {}
-----------------------------------------------------------------------------
Live(p) == store[p].left > 0

\* The requests between the SET and the SMS of a send to p.
Sending(p) == {r \in Requests : pc[r] = "sms" /\ phone[r] = p}

Answer(r, a) ==
    /\ pc' = [pc EXCEPT ![r] = "done"]
    /\ reply' = [reply EXCEPT ![r] = a]
    /\ told' = IF job[r] # "send" THEN told
               ELSE IF a = "sent" THEN told \cup {phone[r]} ELSE told \ {phone[r]}

\* isValidPhone refuses the number before any call.
SendRefuse(r) ==
    /\ job[r] = "send" /\ pc[r] = "idle"
    /\ pc' = [pc EXCEPT ![r] = "done"]
    /\ reply' = [reply EXCEPT ![r] = "badRequest"]
    /\ UNCHANGED <<job, phone, code, store, message, told, crossed>>

\* Redis SET of a fresh code.
SendSet(r) ==
    /\ job[r] = "send" /\ pc[r] = "idle"
    /\ \E c \in Codes :
          /\ code' = [code EXCEPT ![r] = c]
          /\ \/ /\ store' = [store EXCEPT ![phone[r]] = [code |-> c, left |-> CodeTTL]]
                /\ \/ pc' = [pc EXCEPT ![r] = "sms"] /\ UNCHANGED <<reply, told>>
                   \/ Answer(r, "error")
             \/ UNCHANGED store /\ Answer(r, "error")
    /\ crossed' = IF Sending(phone[r]) # {} THEN crossed \cup {phone[r]} ELSE crossed
    /\ UNCHANGED <<job, phone, message>>

\* Mutant: the error of the SMS service is not looked at.
SendSmsUnchecked(r) ==
    /\ pc[r] = "sms"
    /\ \/ message' = [message EXCEPT ![phone[r]] = code[r]]
       \/ UNCHANGED message
    /\ Answer(r, "sent")
    /\ UNCHANGED <<job, phone, code, store, crossed>>

\* The call of the SMS service.
SendSms(r) ==
    /\ pc[r] = "sms"
    /\ \/ /\ message' = [message EXCEPT ![phone[r]] = code[r]]
          /\ Answer(r, "sent") \/ Answer(r, "error")
       \/ UNCHANGED message /\ Answer(r, "error")
    /\ UNCHANGED <<job, phone, code, store, crossed>>

\* Redis GET and the comparison with the code c of the form.
VerifyGet(r) ==
    /\ job[r] = "verify" /\ pc[r] = "idle"
    /\ \E c \in Codes :
          LET p == phone[r]
          IN  /\ code' = [code EXCEPT ![r] = c]
              /\ \/ ~Live(p) /\ Answer(r, "expired")
                 \/ Live(p) /\ store[p].code # c /\ Answer(r, "wrong")
                 \/ /\ Live(p) /\ store[p].code = c
                    /\ pc' = [pc EXCEPT ![r] = "del"] /\ UNCHANGED <<reply, told>>
                 \/ Answer(r, "error")
    /\ UNCHANGED <<job, phone, store, message, crossed>>

\* Mutant: DEL puts an empty value instead of removing the key.
VerifyDelKeeping(r) ==
    /\ pc[r] = "del"
    /\ store' = [store EXCEPT ![phone[r]].code = NoCode] \/ UNCHANGED store
    /\ Answer(r, "verified")
    /\ UNCHANGED <<job, phone, code, message, crossed>>

\* Redis DEL; its error is not looked at.
VerifyDel(r) ==
    /\ pc[r] = "del"
    /\ store' = [store EXCEPT ![phone[r]] = NoKey] \/ UNCHANGED store
    /\ Answer(r, "verified")
    /\ UNCHANGED <<job, phone, code, message, crossed>>
-----------------------------------------------------------------------------
\* The Go process dies: a send that was running is answered by nobody.
Crash ==
    /\ \E r \in Requests : pc[r] \in {"sms", "del"}
    /\ pc' = [r \in Requests |-> IF pc[r] \in {"sms", "del"} THEN "done" ELSE pc[r]]
    /\ reply' = [r \in Requests |-> IF pc[r] \in {"sms", "del"} THEN "lost" ELSE reply[r]]
    /\ told' = {p \in told : Sending(p) = {}}
    /\ UNCHANGED <<job, phone, code, store, message, crossed>>

\* A unit of time; a key without time left is gone.
Tick ==
    /\ \E p \in Phones : Live(p)
    /\ store' = [p \in Phones |-> IF store[p].left > 1
                                  THEN [store[p] EXCEPT !.left = @ - 1] ELSE NoKey]
    /\ UNCHANGED <<job, phone, code, pc, reply, message, told, crossed>>

Next ==
    \/ \E r \in Requests :
          SendRefuse(r) \/ SendSet(r) \/ SendSms(r) \/ VerifyGet(r) \/ VerifyDel(r)
    \/ Crash \/ Tick

Spec == Init /\ [][Next]_vars
-----------------------------------------------------------------------------
(* Properties                                                              *)

\* Although SendSmsCode replaces the stored code before it has sent the new
\* one, a client told "sent" can rely on the newest message: as long as the
\* sends to its number did not overlap and none runs, the key, if it still
\* exists, holds the code of that message.
NewestWorks ==
    \A p \in told \ crossed :
        Live(p) /\ Sending(p) = {} => store[p].code = message[p]
=============================================================================
