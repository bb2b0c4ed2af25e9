----------------------------- MODULE AesProofs -----------------------------
(***************************************************************************)
(* Proofs about AesRequests for every number of connections, workers,      *)
(* addresses and chunks.                                                   *)
(***************************************************************************)
EXTENDS AesRequests, SequenceTheorems, TLAPS

(***************************************************************************)
(* The queues.                                                             *)
(***************************************************************************)

\* Append keeps every element where it was and adds one at the end.
LEMMA Appended ==
    ASSUME NEW S, NEW s \in Seq(S), NEW x \in S
    PROVE  /\ Append(s, x) \in Seq(S)
           /\ Len(s) + 1 \notin DOMAIN s
           /\ DOMAIN Append(s, x) = DOMAIN s \cup {Len(s) + 1}
           /\ \A i \in DOMAIN s : Append(s, x)[i] = s[i]
           /\ Append(s, x)[Len(s) + 1] = x
  <1>1. Len(s) \in Nat /\ DOMAIN s = 1 .. Len(s)
    BY LenProperties
  <1>2. DOMAIN Append(s, x) = 1 .. Len(s) + 1
    BY AppendProperties, LenProperties
  <1>3. 1 .. Len(s) + 1 = (1 .. Len(s)) \cup {Len(s) + 1}
    BY <1>1
  <1> QED BY <1>1, <1>2, <1>3, AppendProperties

\* Tail moves every element but the first one place to the front.
LEMMA Shortened ==
    ASSUME NEW S, NEW s \in Seq(S), s # <<>>
    PROVE  /\ Tail(s) \in Seq(S) /\ Head(s) \in S
           /\ 1 \in DOMAIN s /\ Head(s) = s[1]
           /\ \A i \in DOMAIN Tail(s) : /\ i \in Nat /\ i + 1 \in DOMAIN s /\ i + 1 # 1
                                      /\ Tail(s)[i] = s[i + 1]
           /\ \A i \in DOMAIN s \ {1} : /\ i - 1 \in DOMAIN Tail(s)
                                       /\ Tail(s)[i - 1] = s[i]
  <1>1. Len(s) \in Nat \ {0} /\ DOMAIN s = 1 .. Len(s)
    BY LenProperties, EmptySeq
  <1>2. Tail(s) \in Seq(S) /\ Head(s) \in S /\ DOMAIN Tail(s) = 1 .. Len(s) - 1
    BY HeadTailProperties, LenProperties
  <1>3. \A i \in 1 .. Len(s) - 1 : Tail(s)[i] = s[i + 1]
    BY HeadTailProperties
  <1>4. ASSUME NEW i \in DOMAIN s \ {1}
        PROVE  i - 1 \in DOMAIN Tail(s) /\ Tail(s)[i - 1] = s[i]
    <2>1. i - 1 \in 1 .. Len(s) - 1 /\ (i - 1) + 1 = i
      BY <1>1
    <2>2. Tail(s)[i - 1] = s[(i - 1) + 1]
      BY <2>1, <1>3
    <2> QED BY <2>1, <2>2, <1>2
  <1>5. ASSUME NEW i \in DOMAIN Tail(s)
        PROVE  i \in Nat /\ i + 1 \in DOMAIN s /\ i + 1 # 1 /\ Tail(s)[i] = s[i + 1]
    BY <1>1, <1>2, <1>3
  <1> QED BY <1>1, <1>2, <1>4, <1>5

\* A sequence without an element is the empty one.
LEMMA NoElement ==
    ASSUME NEW S, NEW s \in Seq(S), DOMAIN s = {}
    PROVE  s = <<>>
  <1>1. Len(s) \in Nat /\ 1 .. Len(s) = {}
    BY LenProperties
  <1>2. Len(s) = 0
    <2>1. Len(s) >= 1 => 1 \in 1 .. Len(s)
      BY <1>1
    <2> QED BY <1>1, <2>1
  <1> QED BY <1>2, EmptySeq

\* A sequence whose indices are all equal has one element at most.
LEMMA OneElement ==
    ASSUME NEW S, NEW s \in Seq(S), \A i, j \in DOMAIN s : i = j
    PROVE  Len(s) <= 1
  <1>1. Len(s) \in Nat /\ DOMAIN s = 1 .. Len(s)
    BY LenProperties
  <1>2. ~(Len(s) <= 1) => 1 \in 1 .. Len(s) /\ 2 \in 1 .. Len(s)
    BY <1>1
  <1> QED BY <1>1, <1>2

\* A set whose elements are all equal is empty or a singleton.
LEMMA EmptyOrOne ==
    ASSUME NEW S, \A i, j \in S : i = j
    PROVE  S = {} \/ \E i \in S : S = {i}
  <1>1. ASSUME NEW i \in S PROVE S = {i}
    OBVIOUS
  <1> QED BY <1>1

\* The flag changes the code of an answer, never whose it is.
LEMMA SaidAnswer ==
    ASSUME NEW d \in Answers
    PROVE  d.from \in Requests /\ Said(d) \in Answers /\ Said(d).from = d.from
  <1>1. d.from \in Requests
    BY DEF Answers
  <1>2. /\ [from |-> d.from, code |-> 500] \in Answers
        /\ [from |-> d.from, code |-> 500].from = d.from
    BY <1>1 DEF Answers
  <1> QED BY <1>1, <1>2 DEF Said

(***************************************************************************)
(* Type correctness.                                                       *)
(***************************************************************************)

\* No connection, queue or worker holds anything at the start.
LEMMA InitTyped == Init => TypeOK
  <1> SUFFICES ASSUME Init PROVE TypeOK
    OBVIOUS
  <1>1. (CHOOSE a \in Addresses : TRUE) \in Addresses
    BY AesAssumption
  <1>2. 1 .. MaxChunks \subseteq 0 .. MaxChunks
    BY AesAssumption
  <1> QED BY <1>1, <1>2 DEF Init, TypeOK

\* Every step keeps every variable in its type.
LEMMA StepTyped == TypeOK /\ [Next]_vars => TypeOK'
  <1> SUFFICES ASSUME TypeOK, [Next]_vars PROVE TypeOK'
    OBVIOUS
  <1> USE DEF TypeOK
  <1>1. ASSUME NEW r \in Requests, Receive(r) PROVE TypeOK'
    <2> DEFINE a == [from |-> r, code |-> 400]
    <2>0. a \in Answers
      BY DEF Answers
    <2>1. Append(wire[r], a) \in Seq(Answers)
      BY <2>0, Appended
    <2>2. wire' \in [Requests -> Seq(Answers)]
      BY <1>1, <2>1 DEF Receive
    <2> QED BY <1>1, <2>2 DEF Receive
  <1>2. ASSUME NEW r \in Requests, Chunk(r) PROVE TypeOK'
    <2>1. left[r] - 1 \in 0 .. MaxChunks
      BY <1>2, AesAssumption DEF Chunk
    <2>2. tasks' \in Seq(Requests)
      BY <1>2, Appended DEF Chunk
    <2> QED BY <1>2, <2>1, <2>2 DEF Chunk
  <1>3. ASSUME NEW r \in Requests, Abort(r) \/ Close(r) PROVE TypeOK'
    BY <1>3 DEF Abort, Close
  <1>4. ASSUME NEW w \in Workers, WorkerTake(w) PROVE TypeOK'
    <2>1. Head(tasks) \in Requests /\ Tail(tasks) \in Seq(Requests)
      BY <1>4, Shortened DEF WorkerTake
    <2> QED BY <1>4, <2>1 DEF WorkerTake
  <1>5. ASSUME NEW w \in Workers, WorkerFinish(w) PROVE TypeOK'
    <2>1. PICK c \in Outcomes(busy[w]) : deferred' = Append(deferred, [from |-> busy[w], code |-> c])
      BY <1>5 DEF WorkerFinish
    <2>2. [from |-> busy[w], code |-> c] \in Answers
      BY <1>5, <2>1 DEF WorkerFinish, Outcomes, Answers, Inputs
    <2>3. deferred' \in Seq(Answers)
      BY <2>1, <2>2, Appended
    <2> QED BY <1>5, <2>3 DEF WorkerFinish
  <1>6. CASE RunDeferred
    <2> DEFINE d == Head(deferred)
    <2>1. d \in Answers /\ Tail(deferred) \in Seq(Answers)
      BY <1>6, Shortened DEF RunDeferred
    <2>2. d.from \in Requests /\ Said(d) \in Answers
      BY <2>1, SaidAnswer
    <2>3. \A q \in Requests : Append(wire[q], Said(d)) \in Seq(Answers)
      BY <2>2, Appended
    <2>4. wire' \in [Requests -> Seq(Answers)]
      BY <1>6, <2>2, <2>3 DEF RunDeferred, Write
    <2>5. stale' \subseteq Requests
      BY <1>6, <2>2 DEF RunDeferred
    <2> QED BY <1>6, <2>1, <2>4, <2>5 DEF RunDeferred
  <1>7. CASE UNCHANGED vars
    BY <1>7 DEF vars
  <1> QED BY <1>1, <1>2, <1>3, <1>4, <1>5, <1>6, <1>7 DEF Next

\* Spec keeps TypeOK: connections, queues, workers and answers stay in type.
THEOREM TypeCorrect == Spec => []TypeOK
  BY InitTyped, StepTyped, PTL DEF Spec
-----------------------------------------------------------------------------
(***************************************************************************)
(* One place per complete body.                                            *)
(***************************************************************************)

Queued(r)  == \E i \in DOMAIN tasks : tasks[i] = r
Held(r)    == \E w \in Workers : busy[w] = r
Waiting(r) == \E i \in DOMAIN deferred : deferred[i].from = r
Ran(r)     == r \in stale \/ Own(r) # {}
Pending(r) == Queued(r) \/ Held(r) \/ Waiting(r)

\* No request is twice in one queue, with two workers or answered twice.
NoRepeat ==
    /\ \A i, j \in DOMAIN tasks : tasks[i] = tasks[j] => i = j
    /\ \A v, w \in Workers : busy[v] = busy[w] /\ busy[v] # Nobody => v = w
    /\ \A i, j \in DOMAIN deferred : deferred[i].from = deferred[j].from => i = j
    /\ \A r \in Requests : \A i, j \in Own(r) : i = j

\* The places exclude one another.
Apart ==
    \A r \in Requests :
        /\ ~(Queued(r) /\ Held(r))
        /\ ~(Queued(r) /\ Waiting(r))
        /\ ~(Held(r) /\ Waiting(r))
        /\ ~(Pending(r) /\ Ran(r))

\* Complete bodies are somewhere, incomplete ones nowhere.
Tracked ==
    \A r \in Requests :
        /\ BodyDone(r) => input[r] # "notJson" /\ conn[r] # "new"
        /\ BodyDone(r) => Pending(r) \/ Ran(r)
        /\ Pending(r) \/ r \in stale => BodyDone(r)
        /\ input[r] # "notJson" /\ Ran(r) => BodyDone(r)
        /\ conn[r] = "new" => ~Ran(r)

AesInv == TypeOK /\ NoRepeat /\ Apart /\ Tracked

\* Nothing is queued, held or answered at the start.
LEMMA InitAes == Init => AesInv
  <1> SUFFICES ASSUME Init PROVE AesInv
    OBVIOUS
  <1>1. TypeOK
    BY InitTyped
  <1>2. \A r \in Requests : ~Pending(r) /\ ~Ran(r) /\ Own(r) = {}
    BY AesAssumption DEF Init, Pending, Queued, Held, Waiting, Ran, Own
  <1>3. \A r \in Requests : ~BodyDone(r)
    BY AesAssumption DEF Init, BodyDone
  <1>4. NoRepeat
    BY <1>2 DEF Init, NoRepeat
  <1>5. Apart /\ Tracked
    BY <1>2, <1>3 DEF Apart, Tracked, Pending, Ran
  <1> QED BY <1>1, <1>4, <1>5 DEF AesInv

\* The last chunk queues its request; an earlier one moves nothing.
LEMMA ChunkMoves ==
    ASSUME AesInv, TypeOK', NEW r \in Requests, Chunk(r)
    PROVE  /\ NoRepeat'
           /\ \A q \in Requests :
                 /\ Queued(q)' <=> Queued(q) \/ (q = r /\ left[r] = 1)
                 /\ Held(q)' <=> Held(q)
                 /\ Waiting(q)' <=> Waiting(q)
                 /\ Ran(q)' <=> Ran(q)
  <1> USE DEF AesInv, TypeOK
  <1>1. \A q \in Requests : Held(q)' = Held(q) /\ Waiting(q)' = Waiting(q) /\ Ran(q)' = Ran(q)
    BY DEF Chunk, Held, Waiting, Ran, Own
  <1>2. ~Queued(r)
    BY DEF Tracked, Pending, BodyDone, Chunk
  <1>3. CASE left[r] = 1
    <2>1. tasks' = Append(tasks, r)
      BY <1>3 DEF Chunk
    <2>2. /\ DOMAIN tasks' = DOMAIN tasks \cup {Len(tasks) + 1}
          /\ \A i \in DOMAIN tasks : tasks'[i] = tasks[i]
          /\ tasks'[Len(tasks) + 1] = r
      BY <2>1, Appended
    <2>3. \A q \in Requests : Queued(q)' <=> Queued(q) \/ q = r
      BY <2>2 DEF Queued
    <2>4. \A i, j \in DOMAIN tasks' : tasks'[i] = tasks'[j] => i = j
      BY <2>2, <1>2 DEF Queued, NoRepeat
    <2>5. UNCHANGED <<busy, deferred>> /\ \A q \in Requests : Own(q)' = Own(q)
      BY DEF Chunk, Own
    <2>6. NoRepeat'
      BY <2>4, <2>5 DEF NoRepeat
    <2> QED BY <1>1, <1>3, <2>3, <2>6
  <1>4. CASE left[r] # 1
    <2>1. tasks' = tasks
      BY <1>4 DEF Chunk
    <2>2. NoRepeat'
      BY <2>1 DEF NoRepeat, Chunk, Own
    <2> QED BY <1>1, <1>4, <2>1, <2>2 DEF Queued
  <1> QED BY <1>3, <1>4

\* A worker takes the head of the queue.
LEMMA TakeMoves ==
    ASSUME AesInv, TypeOK', NEW w \in Workers, WorkerTake(w)
    PROVE  \E r \in Requests :
               /\ Queued(r)
               /\ NoRepeat'
               /\ \A q \in Requests :
                     /\ Queued(q)' <=> Queued(q) /\ q # r
                     /\ Held(q)' <=> Held(q) \/ q = r
                     /\ Waiting(q)' <=> Waiting(q)
                     /\ Ran(q)' <=> Ran(q)
  <1> USE DEF AesInv, TypeOK
  <1> DEFINE r == Head(tasks)
  <1>1. /\ tasks # <<>> /\ tasks' = Tail(tasks)
        /\ busy[w] = Nobody /\ busy' = [busy EXCEPT ![w] = r]
        /\ UNCHANGED <<input, left, conn, deferred, wire, stale>>
    BY DEF WorkerTake
  <1>2. /\ r \in Requests /\ 1 \in DOMAIN tasks /\ r = tasks[1]
        /\ \A i \in DOMAIN tasks' : /\ i \in Nat /\ i + 1 \in DOMAIN tasks /\ i + 1 # 1
                                   /\ tasks'[i] = tasks[i + 1]
        /\ \A i \in DOMAIN tasks \ {1} : i - 1 \in DOMAIN tasks' /\ tasks'[i - 1] = tasks[i]
    BY <1>1, Shortened
  <1> HIDE DEF r
  <1>3. Queued(r) /\ ~Held(r) /\ r # Nobody
    BY <1>2, AesAssumption DEF Queued, Apart
  <1>4. \A q \in Requests : Queued(q)' <=> Queued(q) /\ q # r
    <2>1. ASSUME NEW q \in Requests, Queued(q)' PROVE Queued(q) /\ q # r
      <3>1. PICK i \in DOMAIN tasks' : tasks'[i] = q
        BY <2>1 DEF Queued
      <3>2. i + 1 \in DOMAIN tasks /\ i + 1 # 1 /\ tasks[i + 1] = q
        BY <3>1, <1>2
      <3>3. tasks[i + 1] # tasks[1]
        BY <3>2, <1>2 DEF NoRepeat
      <3> QED BY <3>2, <3>3, <1>2 DEF Queued
    <2>2. ASSUME NEW q \in Requests, Queued(q), q # r PROVE Queued(q)'
      BY <2>2, <1>2 DEF Queued
    <2> QED BY <2>1, <2>2
  <1>5. \A q \in Requests : Held(q)' <=> Held(q) \/ q = r
    BY <1>1, AesAssumption DEF Held
  <1>6. \A q \in Requests : (Waiting(q)' <=> Waiting(q)) /\ (Ran(q)' <=> Ran(q))
    BY <1>1 DEF Waiting, Ran, Own
  <1>7. \A i, j \in DOMAIN tasks' : tasks'[i] = tasks'[j] => i = j
    <2> SUFFICES ASSUME NEW i \in DOMAIN tasks', NEW j \in DOMAIN tasks', tasks'[i] = tasks'[j]
                 PROVE  i = j
      OBVIOUS
    <2>1. i + 1 = j + 1
      BY <1>2 DEF NoRepeat
    <2> QED BY <2>1, <1>2
  <1>8. \A u, v \in Workers : busy'[u] = busy'[v] /\ busy'[u] # Nobody => u = v
    BY <1>1, <1>3 DEF Held, NoRepeat
  <1>9. NoRepeat'
    BY <1>1, <1>7, <1>8 DEF NoRepeat, Own
  <1> QED BY <1>2, <1>3, <1>4, <1>5, <1>6, <1>9

\* A worker defers the closure of the request it worked for.
LEMMA FinishMoves ==
    ASSUME AesInv, TypeOK', NEW w \in Workers, WorkerFinish(w)
    PROVE  \E r \in Requests :
               /\ Held(r)
               /\ NoRepeat'
               /\ \A q \in Requests :
                     /\ Queued(q)' <=> Queued(q)
                     /\ Held(q)' <=> Held(q) /\ q # r
                     /\ Waiting(q)' <=> Waiting(q) \/ q = r
                     /\ Ran(q)' <=> Ran(q)
  <1> USE DEF AesInv, TypeOK
  <1>1. PICK c \in Outcomes(busy[w]) :
           /\ busy[w] # Nobody /\ busy' = [busy EXCEPT ![w] = Nobody]
           /\ deferred' = Append(deferred, [from |-> busy[w], code |-> c])
           /\ UNCHANGED <<input, left, conn, tasks, wire, stale>>
    BY DEF WorkerFinish
  <1> DEFINE r == busy[w]
             d == [from |-> r, code |-> c]
  <1>2. r \in Requests /\ d \in Answers /\ d.from = r
    BY <1>1 DEF Outcomes, Inputs, Answers
  <1>3. /\ Len(deferred) + 1 \notin DOMAIN deferred
        /\ DOMAIN deferred' = DOMAIN deferred \cup {Len(deferred) + 1}
        /\ \A i \in DOMAIN deferred : deferred'[i] = deferred[i]
        /\ deferred'[Len(deferred) + 1].from = r
    BY <1>1, <1>2, Appended
  <1> HIDE DEF d
  <1>4. Held(r) /\ ~Waiting(r)
    BY <1>2 DEF Held, Apart
  <1>5. \A q \in Requests : Held(q)' <=> Held(q) /\ q # r
    BY <1>1, AesAssumption DEF Held, NoRepeat
  <1>6. \A q \in Requests : Waiting(q)' <=> Waiting(q) \/ q = r
    BY <1>3 DEF Waiting
  <1>7. \A q \in Requests : (Queued(q)' <=> Queued(q)) /\ (Ran(q)' <=> Ran(q))
    BY <1>1 DEF Queued, Ran, Own
  <1>8. \A i, j \in DOMAIN deferred' : deferred'[i].from = deferred'[j].from => i = j
    BY <1>3, <1>4 DEF Waiting, NoRepeat
  <1>9. NoRepeat'
    BY <1>1, <1>8 DEF NoRepeat, Own
  <1> QED BY <1>2, <1>4, <1>5, <1>6, <1>7, <1>9

\* A write of closure d on q adds one answer, from d's request.
LEMMA Written ==
    ASSUME TypeOK, NEW q \in Requests, NEW d \in Answers, Write(q, d)
    PROVE  /\ Len(wire[q]) + 1 \notin DOMAIN wire[q]
           /\ DOMAIN wire'[q] = DOMAIN wire[q] \cup {Len(wire[q]) + 1}
           /\ \A i \in DOMAIN wire[q] : wire'[q][i] = wire[q][i]
           /\ wire'[q][Len(wire[q]) + 1].from = d.from
           /\ \A p \in Requests \ {q} : wire'[p] = wire[p]
           /\ \A p \in Requests : p # q \/ p # d.from => Own(p)' = Own(p)
           /\ q = d.from => Own(q)' = Own(q) \cup {Len(wire[q]) + 1}
  <1> USE DEF TypeOK
  <1>1. Said(d) \in Answers /\ Said(d).from = d.from
    BY SaidAnswer
  <1>2. wire'[q] = Append(wire[q], Said(d)) /\ \A p \in Requests \ {q} : wire'[p] = wire[p]
    BY DEF Write
  <1>3. /\ Len(wire[q]) + 1 \notin DOMAIN wire[q]
        /\ DOMAIN wire'[q] = DOMAIN wire[q] \cup {Len(wire[q]) + 1}
        /\ \A i \in DOMAIN wire[q] : wire'[q][i] = wire[q][i]
        /\ wire'[q][Len(wire[q]) + 1] = Said(d)
    BY <1>1, <1>2, Appended
  <1> HIDE DEF TypeOK
  <1>4. ASSUME NEW p \in Requests, p # q \/ p # d.from PROVE Own(p)' = Own(p)
    <2>1. CASE p # q
      BY <1>2, <2>1 DEF Own
    <2>2. CASE p = q
      <3>1. wire'[q][Len(wire[q]) + 1].from # q
        BY <1>1, <1>3, <1>4, <2>2
      <3> QED BY <1>3, <2>2, <3>1 DEF Own
    <2> QED BY <2>1, <2>2
  <1>5. q = d.from => Own(q)' = Own(q) \cup {Len(wire[q]) + 1}
    BY <1>1, <1>3 DEF Own
  <1> QED BY <1>1, <1>2, <1>3, <1>4, <1>5

\* The loop runs the closure of one request.
LEMMA RunMoves ==
    ASSUME AesInv, TypeOK', RunDeferred
    PROVE  \E r \in Requests :
               /\ Waiting(r)
               /\ NoRepeat'
               /\ r \in stale' \/ (Own(r)' # {} /\ stale' = stale)
               /\ stale' \subseteq stale \cup {r}
               /\ \A q \in Requests :
                     /\ Queued(q)' <=> Queued(q)
                     /\ Held(q)' <=> Held(q)
                     /\ Waiting(q)' <=> Waiting(q) /\ q # r
                     /\ Ran(q)' <=> Ran(q) \/ q = r
  <1>t. TypeOK
    BY DEF AesInv
  <1> USE DEF AesInv, TypeOK
  <1>0. PICK d \in Answers, r \in Requests : d = Head(deferred) /\ r = d.from
    BY Shortened, SaidAnswer DEF RunDeferred
  <1>1. /\ deferred # <<>> /\ deferred' = Tail(deferred)
        /\ UNCHANGED <<input, left, conn, tasks, busy>>
        /\ \/ Open(r) /\ Write(r, d) /\ UNCHANGED stale
           \/ ~Open(r) /\ stale' = stale \cup {r} /\ UNCHANGED wire
           \/ /\ ~Open(r) /\ stale' = stale \cup {r}
              /\ \E q \in Requests : Open(q) /\ Write(q, d)
    BY <1>0 DEF RunDeferred
  <1>2. /\ d \in Answers /\ 1 \in DOMAIN deferred /\ d = deferred[1]
        /\ \A i \in DOMAIN deferred' :
               /\ i \in Nat /\ i + 1 \in DOMAIN deferred /\ i + 1 # 1
               /\ deferred'[i] = deferred[i + 1]
        /\ \A i \in DOMAIN deferred \ {1} :
               i - 1 \in DOMAIN deferred' /\ deferred'[i - 1] = deferred[i]
    BY <1>0, <1>1, Shortened
  <1>3. r \in Requests /\ d.from = r
    BY <1>0
  <1>4. Waiting(r) /\ ~Ran(r) /\ Own(r) = {}
    BY <1>2, <1>3 DEF Waiting, Apart, Pending, Ran
  <1>5. \A q \in Requests : Waiting(q)' <=> Waiting(q) /\ q # r
    <2>1. ASSUME NEW q \in Requests, Waiting(q)' PROVE Waiting(q) /\ q # r
      <3>1. PICK i \in DOMAIN deferred' : deferred'[i].from = q
        BY <2>1 DEF Waiting
      <3>2. i + 1 \in DOMAIN deferred /\ i + 1 # 1 /\ deferred[i + 1].from = q
        BY <3>1, <1>2
      <3>3. deferred[i + 1].from # deferred[1].from
        BY <3>2, <1>2 DEF NoRepeat
      <3> QED BY <3>2, <3>3, <1>2, <1>3 DEF Waiting
    <2>2. ASSUME NEW q \in Requests, Waiting(q), q # r PROVE Waiting(q)'
      BY <2>2, <1>2, <1>3 DEF Waiting
    <2> QED BY <2>1, <2>2
  <1>6. \A i, j \in DOMAIN deferred' : deferred'[i].from = deferred'[j].from => i = j
    <2> SUFFICES ASSUME NEW i \in DOMAIN deferred', NEW j \in DOMAIN deferred',
                        deferred'[i].from = deferred'[j].from
                 PROVE  i = j
      OBVIOUS
    <2>1. /\ i + 1 \in DOMAIN deferred /\ j + 1 \in DOMAIN deferred
          /\ deferred[i + 1].from = deferred[j + 1].from
      BY <1>2
    <2>2. i + 1 = j + 1
      BY <2>1 DEF NoRepeat
    <2> QED BY <2>2, <1>2
  <1>7. \A q \in Requests : (Queued(q)' <=> Queued(q)) /\ (Held(q)' <=> Held(q))
    BY <1>1 DEF Queued, Held
  <1>8. /\ \A q \in Requests \ {r} : Own(q)' = Own(q)
        /\ \A i, j \in Own(r)' : i = j
        /\ r \in stale' \/ (Own(r)' # {} /\ stale' = stale)
        /\ stale \subseteq stale' /\ stale' \subseteq stale \cup {r}
    <2> HIDE DEF AesInv, TypeOK
    <2>1. CASE Open(r) /\ Write(r, d) /\ UNCHANGED stale
      <3>1. \A q \in Requests \ {r} : Own(q)' = Own(q)
        BY <2>1, <1>t, <1>2, <1>3, Written
      <3>2. Own(r)' = Own(r) \cup {Len(wire[r]) + 1}
        BY <2>1, <1>t, <1>2, <1>3, Written
      <3>3. Own(r)' = {Len(wire[r]) + 1}
        BY <3>2, <1>4
      <3> QED BY <2>1, <3>1, <3>3
    <2>2. CASE ~Open(r) /\ stale' = stale \cup {r} /\ UNCHANGED wire
      BY <2>2, <1>4 DEF Own
    <2>3. ASSUME ~Open(r), stale' = stale \cup {r}, NEW q \in Requests, Open(q), Write(q, d)
          PROVE  /\ \A p \in Requests : Own(p)' = Own(p)
                 /\ r \in stale'
      BY <2>3, <1>t, <1>2, <1>3, Written
    <2> QED BY <1>1, <1>3, <1>4, <2>1, <2>2, <2>3
  <1>9. \A q \in Requests : Ran(q)' <=> Ran(q) \/ q = r
    BY <1>8 DEF Ran
  <1>10. NoRepeat'
    <2>1. \A q \in Requests : \A i, j \in Own(q)' : i = j
      <3> SUFFICES ASSUME NEW q \in Requests, NEW i \in Own(q)', NEW j \in Own(q)'
                   PROVE  i = j
        OBVIOUS
      <3>1. CASE q = r
        BY <1>8, <3>1
      <3>2. CASE q # r
        <4>1. i \in Own(q) /\ j \in Own(q)
          BY <1>8, <3>2
        <4> QED BY <4>1 DEF NoRepeat
      <3> QED BY <3>1, <3>2
    <2>2. /\ \A i, j \in DOMAIN tasks' : tasks'[i] = tasks'[j] => i = j
          /\ \A v, w \in Workers : busy'[v] = busy'[w] /\ busy'[v] # Nobody => v = w
      BY <1>1 DEF NoRepeat
    <2> QED BY <1>6, <2>1, <2>2 DEF NoRepeat
  <1> QED BY <1>3, <1>4, <1>5, <1>7, <1>8, <1>9, <1>10

\* A connection comes or goes; only an answered one-call refusal runs.
LEMMA ConnectionMoves ==
    ASSUME AesInv, TypeOK', NEW r \in Requests, Receive(r) \/ Abort(r) \/ Close(r)
    PROVE  /\ NoRepeat'
           /\ \A q \in Requests :
                 /\ Queued(q)' <=> Queued(q)
                 /\ Held(q)' <=> Held(q)
                 /\ Waiting(q)' <=> Waiting(q)
                 /\ Ran(q)' <=> Ran(q) \/ (q = r /\ Receive(r) /\ input[r] = "notJson")
  <1> USE DEF AesInv, TypeOK
  <1>1. UNCHANGED <<input, tasks, busy, deferred, stale>>
    BY DEF Receive, Abort, Close
  <1>2. \A q \in Requests : /\ Queued(q)' <=> Queued(q)
                            /\ Held(q)' <=> Held(q)
                            /\ Waiting(q)' <=> Waiting(q)
    BY <1>1 DEF Queued, Held, Waiting
  <1>3. CASE wire' = wire /\ ~(Receive(r) /\ input[r] = "notJson")
    BY <1>1, <1>2, <1>3 DEF Ran, Own, NoRepeat
  <1>4. CASE Receive(r) /\ input[r] = "notJson"
    <2> DEFINE a == [from |-> r, code |-> 400]
    <2>1. a \in Answers /\ a.from = r
      BY DEF Answers
    <2>2. wire'[r] = Append(wire[r], a) /\ \A q \in Requests \ {r} : wire'[q] = wire[q]
      BY <1>4 DEF Receive
    <2>3. Own(r) = {}
      BY <1>4 DEF Receive, Tracked, Ran
    <2>4. Own(r)' = {Len(wire[r]) + 1}
      <3>0. wire[r] \in Seq(Answers)
        OBVIOUS
      <3> HIDE DEF AesInv, TypeOK
      <3>1. /\ DOMAIN wire'[r] = DOMAIN wire[r] \cup {Len(wire[r]) + 1}
            /\ \A i \in DOMAIN wire[r] : wire'[r][i] = wire[r][i]
            /\ wire'[r][Len(wire[r]) + 1].from = r
            /\ Len(wire[r]) + 1 \notin DOMAIN wire[r]
        <4>1. PICK s, u : s = wire[r] /\ u = Append(s, a)
          OBVIOUS
        <4>2. /\ DOMAIN u = DOMAIN s \cup {Len(s) + 1} /\ Len(s) + 1 \notin DOMAIN s
              /\ \A i \in DOMAIN s : u[i] = s[i]
              /\ u[Len(s) + 1] = a
          BY <2>1, <3>0, <4>1, Appended
        <4> QED BY <2>1, <2>2, <4>1, <4>2
      <3>2. \A i \in DOMAIN wire[r] : wire[r][i].from # r
        BY <2>3 DEF Own
      <3> QED BY <3>1, <3>2 DEF Own
    <2>5. \A q \in Requests \ {r} : Own(q)' = Own(q)
      BY <2>2 DEF Own
    <2>6. \A q \in Requests : \A i, j \in Own(q)' : i = j
      <3> SUFFICES ASSUME NEW q \in Requests, NEW i \in Own(q)', NEW j \in Own(q)'
                   PROVE  i = j
        OBVIOUS
      <3>1. CASE q = r
        BY <2>4, <3>1
      <3>2. CASE q # r
        <4>1. i \in Own(q) /\ j \in Own(q)
          BY <2>5, <3>2
        <4> QED BY <4>1 DEF NoRepeat
      <3> QED BY <3>1, <3>2
    <2>7. NoRepeat'
      BY <1>1, <2>6 DEF NoRepeat
    <2>8. \A q \in Requests : Ran(q)' <=> Ran(q) \/ q = r
      BY <1>1, <2>4, <2>5 DEF Ran
    <2> QED BY <1>2, <1>4, <2>7, <2>8
  <1> QED BY <1>3, <1>4 DEF Receive, Abort, Close

\* The invariant is inductive: every step hands at most one request on.
LEMMA StepAes == AesInv /\ [Next]_vars => AesInv'
  <1> SUFFICES ASSUME AesInv, [Next]_vars PROVE AesInv'
    OBVIOUS
  <1>0. TypeOK'
    BY StepTyped DEF AesInv
  <1> USE DEF AesInv
  <1> SUFFICES NoRepeat' /\ Apart' /\ Tracked'
    BY <1>0
  <1>1. ASSUME NEW r \in Requests, Receive(r) \/ Abort(r) \/ Close(r)
        PROVE  NoRepeat' /\ Apart' /\ Tracked'
    <2>1. /\ UNCHANGED <<input, left, stale>>
          /\ \A q \in Requests : /\ conn'[q] = "new" => conn[q] = "new"
                                 /\ q # r => conn'[q] = conn[q]
          /\ conn'[r] # "new"
          /\ Receive(r) => conn[r] = "new"
      BY <1>1 DEF Receive, Abort, Close, TypeOK
    <2>2. Apart'
      BY <1>0, <1>1, <2>1, ConnectionMoves DEF Apart, Pending, Tracked
    <2>3. Tracked'
      BY <1>0, <1>1, <2>1, ConnectionMoves DEF Tracked, Pending, BodyDone
    <2> QED BY <1>0, <1>1, <2>2, <2>3, ConnectionMoves
  <1>2. ASSUME NEW r \in Requests, Chunk(r) PROVE NoRepeat' /\ Apart' /\ Tracked'
    <2>1. /\ UNCHANGED <<input, conn, stale>>
          /\ \A q \in Requests \ {r} : left'[q] = left[q]
          /\ left'[r] = left[r] - 1 /\ left[r] \in Nat \ {0}
          /\ input[r] # "notJson" /\ conn[r] # "new"
      BY <1>2 DEF Chunk, Open, TypeOK
    <2>2. ~Pending(r) /\ ~Ran(r)
      BY <2>1 DEF Tracked, BodyDone
    <2>3. Apart'
      BY <1>0, <1>2, <2>2, ChunkMoves DEF Apart, Pending
    <2>4. Tracked'
      BY <1>0, <1>2, <2>1, <2>2, ChunkMoves DEF Tracked, Pending, BodyDone
    <2> QED BY <1>0, <1>2, <2>3, <2>4, ChunkMoves
  <1>3. ASSUME NEW w \in Workers, WorkerTake(w) PROVE NoRepeat' /\ Apart' /\ Tracked'
    <2>1. UNCHANGED <<input, left, conn, stale>>
      BY <1>3 DEF WorkerTake
    <2> QED BY <1>0, <1>3, <2>1, TakeMoves DEF Apart, Tracked, Pending, BodyDone
  <1>4. ASSUME NEW w \in Workers, WorkerFinish(w) PROVE NoRepeat' /\ Apart' /\ Tracked'
    <2>1. UNCHANGED <<input, left, conn, stale>>
      BY <1>4 DEF WorkerFinish
    <2> QED BY <1>0, <1>4, <2>1, FinishMoves DEF Apart, Tracked, Pending, BodyDone
  <1>5. CASE RunDeferred
    <2>1. UNCHANGED <<input, left, conn>>
      BY <1>5 DEF RunDeferred
    <2> QED BY <1>0, <1>5, <2>1, RunMoves DEF Apart, Tracked, Pending, BodyDone
  <1>6. CASE UNCHANGED vars
    BY <1>6 DEF vars, NoRepeat, Apart, Tracked, Pending, Queued, Held, Waiting, Ran, Own, BodyDone
  <1> QED BY <1>1, <1>2, <1>3, <1>4, <1>5, <1>6 DEF Next

\* The strengthened invariant holds in every state of Spec.
LEMMA Invariance == Spec => []AesInv
  BY InitAes, StepAes, PTL DEF Spec

(***************************************************************************)
(* The properties.                                                         *)
(***************************************************************************)

\* The invariant leaves a complete body one place and an incomplete one none.
LEMMA InvPlaces == AesInv => InOnePlace
  <1> SUFFICES ASSUME AesInv, NEW r \in Requests, input[r] # "notJson"
               PROVE  IF BodyDone(r) THEN \E p \in Places(r) : Places(r) = {p}
                                     ELSE Places(r) = {}
    BY DEF InOnePlace
  <1> USE DEF AesInv, TypeOK
  <1> DEFINE T == {i \in DOMAIN tasks : tasks[i] = r}
             B == {w \in Workers : busy[w] = r}
             C == {i \in DOMAIN deferred : deferred[i].from = r}
             R == IF r \in stale THEN {0} ELSE Own(r)
             P == ({"task"} \X T) \cup ({"worker"} \X B)
                    \cup ({"closure"} \X C) \cup ({"run"} \X R)
  <1>1. Places(r) = P
    BY DEF Places
  <1>2. /\ (T = {} \/ \E i \in T : T = {i}) /\ (Queued(r) <=> T # {})
        /\ (C = {} \/ \E i \in C : C = {i}) /\ (Waiting(r) <=> C # {})
    <2>1. (\A i, j \in T : i = j) /\ (\A i, j \in C : i = j)
      BY DEF NoRepeat
    <2>2. (Queued(r) <=> T # {}) /\ (Waiting(r) <=> C # {})
      BY DEF Queued, Waiting
    <2> HIDE DEF T, C
    <2> QED BY <2>1, <2>2, EmptyOrOne
  <1>3. (B = {} \/ \E w \in B : B = {w}) /\ (Held(r) <=> B # {})
    <2>1. r # Nobody
      BY AesAssumption
    <2>2. \A v, w \in B : v = w
      BY <2>1 DEF NoRepeat
    <2>3. Held(r) <=> B # {}
      BY DEF Held
    <2> HIDE DEF B, AesInv, TypeOK
    <2> QED BY <2>2, <2>3, EmptyOrOne
  <1>4. (R = {} \/ \E i \in R : R = {i}) /\ (Ran(r) <=> R # {})
    <2>1. (\A i, j \in R : i = j) /\ (Ran(r) <=> R # {})
      BY DEF NoRepeat, Ran
    <2> HIDE DEF R
    <2> QED BY <2>1, EmptyOrOne
  <1> HIDE DEF T, B, C, R
  <1>5. CASE ~BodyDone(r)
    <2>1. T = {} /\ B = {} /\ C = {} /\ R = {}
      BY <1>2, <1>3, <1>4, <1>5 DEF Tracked, Pending
    <2> QED BY <1>1, <1>5, <2>1
  <1>6. CASE BodyDone(r)
    <2>1. \E p : P = {p}
      <3>1. CASE T # {}
        <4>1. B = {} /\ C = {} /\ R = {}
          BY <3>1, <1>2, <1>3, <1>4 DEF Apart, Pending
        <4>2. PICK i \in T : T = {i}
          BY <3>1, <1>2
        <4>3. P = {<<"task", i>>}
          BY <4>1, <4>2
        <4> QED BY <4>3
      <3>2. CASE B # {}
        <4>1. T = {} /\ C = {} /\ R = {}
          BY <3>2, <1>2, <1>3, <1>4 DEF Apart, Pending
        <4>2. PICK i \in B : B = {i}
          BY <3>2, <1>3
        <4>3. P = {<<"worker", i>>}
          BY <4>1, <4>2
        <4> QED BY <4>3
      <3>3. CASE C # {}
        <4>1. T = {} /\ B = {} /\ R = {}
          BY <3>3, <1>2, <1>3, <1>4 DEF Apart, Pending
        <4>2. PICK i \in C : C = {i}
          BY <3>3, <1>2
        <4>3. P = {<<"closure", i>>}
          BY <4>1, <4>2
        <4> QED BY <4>3
      <3>4. CASE R # {}
        <4>1. T = {} /\ B = {} /\ C = {}
          BY <3>4, <1>2, <1>3, <1>4 DEF Apart, Pending
        <4>2. PICK i \in R : R = {i}
          BY <3>4, <1>4
        <4>3. P = {<<"run", i>>}
          BY <4>1, <4>2
        <4> QED BY <4>3
      <3>5. T # {} \/ B # {} \/ C # {} \/ R # {}
        BY <1>2, <1>3, <1>4, <1>6 DEF Tracked, Pending
      <3> QED BY <3>1, <3>2, <3>3, <3>4, <3>5
    <2>2. \E p \in P : P = {p}
      <3> HIDE DEF P
      <3> QED BY <2>1
    <2> HIDE DEF P
    <2> QED BY <1>1, <1>6, <2>2
  <1> QED BY <1>5, <1>6

\* InOnePlace always holds: no schedule loses a complete body or runs its
\* closure twice, for any number of connections, workers and chunks.
THEOREM OnePlace == Spec => []InOnePlace
  BY Invariance, InvPlaces, PTL

\* Without an abort a connection goes only once it is answered, and every
\* answer is the connection's own.
Calm ==
    (\A r \in Requests : ~aborted[r]) =>
        /\ stale = {}
        /\ \A r \in Requests : /\ conn[r] = "closed" => wire[r] # <<>>
                               /\ \A i \in DOMAIN wire[r] : i \in Own(r)

\* Nothing is written or closed at the start.
LEMMA InitCalm == Init => Calm
  BY DEF Init, Calm, Own

\* Every step keeps Calm: a closure whose connection was closed would be one
\* whose request is answered already.
LEMMA StepCalm == AesInv /\ Calm /\ [Next]_vars => Calm'
  <1> SUFFICES ASSUME AesInv, Calm, [Next]_vars, \A q \in Requests : ~aborted'[q]
               PROVE  /\ stale' = {}
                      /\ \A q \in Requests : /\ conn'[q] = "closed" => wire'[q] # <<>>
                                             /\ \A i \in DOMAIN wire'[q] : i \in Own(q)'
    BY DEF Calm
  <1> USE DEF AesInv, TypeOK
  <1>1. ASSUME NEW r \in Requests, Abort(r) PROVE FALSE
    BY <1>1 DEF Abort
  <1>2. \A q \in Requests : ~aborted[q]
    BY <1>1 DEF Next, vars, Receive, Chunk, Close, WorkerTake, WorkerFinish, RunDeferred
  <1>3. /\ stale = {}
        /\ \A q \in Requests : /\ conn[q] = "closed" => wire[q] # <<>>
                               /\ \A i \in DOMAIN wire[q] : i \in Own(q)
    BY <1>2 DEF Calm
  <1>4. ASSUME UNCHANGED <<wire, stale>>,
               \A q \in Requests : conn'[q] = "closed" => conn[q] = "closed" \/ wire[q] # <<>>
        PROVE  /\ stale' = {}
               /\ \A q \in Requests : /\ conn'[q] = "closed" => wire'[q] # <<>>
                                      /\ \A i \in DOMAIN wire'[q] : i \in Own(q)'
    BY <1>3, <1>4 DEF Own
  <1>5. ASSUME NEW r \in Requests, Receive(r)
        PROVE  /\ stale' = {}
               /\ \A q \in Requests : /\ conn'[q] = "closed" => wire'[q] # <<>>
                                      /\ \A i \in DOMAIN wire'[q] : i \in Own(q)'
    <2>0. stale' = stale /\ \A q \in Requests : conn'[q] = "closed" => conn[q] = "closed"
      BY <1>5 DEF Receive
    <2>1. CASE input[r] # "notJson"
      BY <1>4, <1>5, <2>0, <2>1 DEF Receive
    <2>2. CASE input[r] = "notJson"
      <3> DEFINE a == [from |-> r, code |-> 400]
      <3>1. a \in Answers /\ a.from = r
        BY DEF Answers
      <3>2. wire'[r] = Append(wire[r], a) /\ \A q \in Requests \ {r} : wire'[q] = wire[q]
        BY <1>5, <2>2 DEF Receive
      <3>3. \A q \in Requests \ {r} : Own(q)' = Own(q)
        BY <3>2 DEF Own
      <3>4. \A i \in DOMAIN wire'[r] : i \in Own(r)'
        BY <3>1, <3>2, <1>3, Appended DEF Own
      <3>5. conn'[r] # "closed"
        BY <1>5 DEF Receive
      <3>6. ASSUME NEW q \in Requests \ {r}
            PROVE  /\ conn'[q] = "closed" => wire'[q] # <<>>
                   /\ \A i \in DOMAIN wire'[q] : i \in Own(q)'
        <4>1. wire'[q] = wire[q] /\ Own(q)' = Own(q)
          BY <3>2, <3>3
        <4>2. \A i \in DOMAIN wire'[q] : i \in Own(q)'
          BY <4>1, <1>3
        <4> QED BY <4>1, <4>2, <2>0, <1>3
      <3>7. stale' = {}
        BY <2>0, <1>3
      <3> QED BY <3>4, <3>5, <3>6, <3>7
    <2> QED BY <2>1, <2>2
  <1>6. CASE RunDeferred
    <2>1. PICK d \in Answers : /\ d = Head(deferred) /\ d.from \in Requests
                               /\ deferred # <<>>
      BY <1>6, Shortened, SaidAnswer DEF RunDeferred
    <2>2. Waiting(d.from)
      BY <2>1, Shortened DEF Waiting
    <2>3. conn[d.from] # "new" /\ Own(d.from) = {}
      BY <2>1, <2>2 DEF Tracked, Apart, Pending, Ran
    <2>4. wire[d.from] = <<>>
      <3>1. wire[d.from] \in Seq(Answers) /\ DOMAIN wire[d.from] = {}
        BY <2>1, <2>3, <1>3
      <3> QED BY <3>1, NoElement
    <2>5. Open(d.from)
      BY <2>1, <2>3, <2>4, <1>3 DEF Open
    <2>6. Write(d.from, d) /\ UNCHANGED <<stale, conn>>
      BY <1>6, <2>1, <2>5 DEF RunDeferred
    <2>7. /\ \A q \in Requests \ {d.from} : wire'[q] = wire[q] /\ Own(q)' = Own(q)
          /\ Own(d.from)' = {Len(wire[d.from]) + 1}
          /\ DOMAIN wire'[d.from] = DOMAIN wire[d.from] \cup {Len(wire[d.from]) + 1}
      BY <2>1, <2>3, <2>6, Written
    <2>8. \A i \in DOMAIN wire'[d.from] : i \in Own(d.from)'
      BY <2>1, <2>7, <1>3, <2>3
    <2>9. conn'[d.from] # "closed"
      BY <2>5, <2>6 DEF Open
    <2>10. ASSUME NEW q \in Requests \ {d.from}
           PROVE  /\ conn'[q] = "closed" => wire'[q] # <<>>
                  /\ \A i \in DOMAIN wire'[q] : i \in Own(q)'
      <3>1. wire'[q] = wire[q] /\ Own(q)' = Own(q) /\ conn'[q] = conn[q]
        BY <2>6, <2>7
      <3>2. \A i \in DOMAIN wire'[q] : i \in Own(q)'
        BY <3>1, <1>3
      <3> QED BY <3>1, <3>2, <1>3
    <2>11. stale' = {}
      BY <2>6, <1>3
    <2> QED BY <2>1, <2>8, <2>9, <2>10, <2>11
  <1>7. CASE \E r \in Requests : Chunk(r) \/ Close(r)
    BY <1>4, <1>7 DEF Chunk, Close
  <1>8. CASE \E w \in Workers : WorkerTake(w) \/ WorkerFinish(w)
    BY <1>4, <1>8 DEF WorkerTake, WorkerFinish
  <1>9. CASE UNCHANGED vars
    BY <1>4, <1>9 DEF vars
  <1> QED BY <1>1, <1>5, <1>6, <1>7, <1>8, <1>9 DEF Next

\* Own answers that never repeat are one at most.
LEMMA InvCrosstalk == AesInv /\ Calm => NoCrosstalk
  <1> SUFFICES ASSUME AesInv, Calm, \A q \in Requests : ~aborted[q], NEW r \in Requests
               PROVE  Len(wire[r]) <= 1
    BY DEF NoCrosstalk, Calm
  <1>1. wire[r] \in Seq(Answers) /\ \A i, j \in DOMAIN wire[r] : i = j
    BY DEF AesInv, TypeOK, NoRepeat, Calm
  <1> QED BY <1>1, OneElement

\* NoCrosstalk always holds: dead pointers and strangers' answers need an
\* aborted connection first; reused addresses and closes bring none.
THEOREM OwnAnswers == Spec => []NoCrosstalk
  <1>1. Spec => []Calm
    BY InitCalm, StepCalm, Invariance, PTL DEF Spec
  <1> QED BY <1>1, Invariance, InvCrosstalk, PTL
=============================================================================
