---------------------------- MODULE ThreadProofs ----------------------------
(***************************************************************************)
(* Proofs about what the threads of the C++ server share: the pool of      *)
(* database connections (DBPool) for every number of threads and           *)
(* connections, and the blocking queue with the ConcurrentQueue below it   *)
(* (BlockingQueue) for every number of producers, consumers, tokens and    *)
(* elements.                                                               *)
(***************************************************************************)
EXTENDS DBPool, BlockingQueue, FiniteSetTheorems, TLAPS

-----------------------------------------------------------------------------
(* The pool of connections. *)

\* The pool is within its limit and holds finitely many connections.
Typed == TypeOK /\ IsFiniteSet(inUse)

\* Nothing has run at the start.
LEMMA InitTyped == Init => Typed
  BY FS_EmptySet, DBPoolAssumption DEF Init, Typed, TypeOK, Word, Cleared

\* Every step keeps every variable in its type; a connection is handed out
\* only while one is left.
LEMMA StepTyped == Typed /\ [Next]_vars => Typed'
  <1> SUFFICES ASSUME Typed, [Next]_vars PROVE Typed'
    OBVIOUS
  <1> USE DEF Typed, TypeOK, Word
  <1>1. CASE InitPostgres
    <2>1. UNCHANGED <<inUse, seen>>
      BY <1>1 DEF InitPostgres
    <2>2. /\ testCase' \in {1, 2}
          /\ main' \in {"init", "join", "exited", "aborted"}
          /\ pool' \in {"null", "started"}
          /\ outcome' \in [{1, 2} -> {"pending", "passed", "failed", "threw"}]
      BY <1>1 DEF InitPostgres, EndCase
    <2>3. /\ pc' \in [Threads -> {"off", "get", "query", "close", "read", "write", "ended"}]
          /\ returned' \in Word /\ results' \in Word
      BY <1>1 DEF InitPostgres, Fresh, Cleared
    <2> QED BY <2>1, <2>2, <2>3
  <1>2. CASE Join
    BY <1>2 DEF Join, EndCase
  <1>3. CASE Shutdown
    BY <1>3 DEF Shutdown, EndCase
  <1>4. ASSUME NEW t \in Threads, GetConnection(t) PROVE Typed'
    <2>1. CASE inUse' = inUse
      BY <1>4, <2>1 DEF GetConnection, Return
    <2>2. CASE Cardinality(inUse) < MaxConns /\ inUse' = inUse \cup {t}
      <3>1. /\ IsFiniteSet(inUse')
            /\ Cardinality(inUse') = Cardinality(inUse) \/ Cardinality(inUse') = Cardinality(inUse) + 1
        BY <2>2, FS_AddElement
      <3>2. Cardinality(inUse) \in Nat
        BY FS_CardinalityType
      <3>3. Cardinality(inUse') <= MaxConns
        BY <2>2, <3>1, <3>2, DBPoolAssumption
      <3> QED BY <1>4, <2>2, <3>1, <3>3 DEF GetConnection, Return
    <2> QED BY <1>4, <2>1, <2>2 DEF GetConnection
  <1>5. ASSUME NEW t \in Threads, Query(t) PROVE Typed'
    BY <1>5 DEF Query
  <1>6. ASSUME NEW t \in Threads, Close(t) PROVE Typed'
    <2>1. inUse' \subseteq inUse
      BY <1>6 DEF Close
    <2>2. IsFiniteSet(inUse') /\ Cardinality(inUse') <= Cardinality(inUse)
      BY <2>1, FS_Subset
    <2>3. Cardinality(inUse) \in Nat /\ Cardinality(inUse') \in Nat
      BY <2>2, FS_CardinalityType
    <2>4. Cardinality(inUse') <= MaxConns
      BY <2>2, <2>3, DBPoolAssumption
    <2> QED BY <1>6, <2>1, <2>2, <2>4 DEF Close, Return
  <1>7. ASSUME NEW t \in Threads, Read(t) PROVE Typed'
    BY <1>7 DEF Read
  <1>8. ASSUME NEW t \in Threads, Write(t) PROVE Typed'
    BY <1>8 DEF Write
  <1>9. CASE UNCHANGED vars
    BY <1>9 DEF vars
  <1> QED BY <1>1, <1>2, <1>3, <1>4, <1>5, <1>6, <1>7, <1>8, <1>9 DEF Next

\* Spec keeps TypeOK: in particular, max_conns bounds the connections in use.
THEOREM TypeCorrect == Spec => []TypeOK
  <1>1. Spec => []Typed
    BY InitTyped, StepTyped, PTL DEF Spec
  <1>2. Typed => TypeOK
    BY DEF Typed
  <1> QED BY <1>1, <1>2, PTL
-----------------------------------------------------------------------------
\* A bit that is set, in the vector or in a copy about to be written back, is
\* the result of a thread that has ended with true: a lost update clears bits
\* and never sets one.
BitsEarned ==
    /\ \A t \in Threads : results[t] => returned[t] /\ pc[t] = "ended"
    /\ \A t, u \in Threads : pc[t] = "write" /\ seen[t][u] => returned[u] /\ pc[u] = "ended"

IInv == Typed /\ BitsEarned /\ NoFalsePass

\* No bit is set at the start.
LEMMA InitInv == Init => IInv
  BY InitTyped DEF Init, IInv, BitsEarned, NoFalsePass, Cleared

\* Every step keeps the invariant.  Read copies earned bits, Write puts them
\* back with the thread's own, Join looks at nothing else.
LEMMA StepInv == IInv /\ [Next]_vars => IInv'
  <1> SUFFICES ASSUME IInv, [Next]_vars PROVE BitsEarned' /\ NoFalsePass'
    BY StepTyped DEF IInv
  <1> USE DEF IInv, Typed, TypeOK, Word, BitsEarned, NoFalsePass, Members
  <1>1. CASE InitPostgres
    BY <1>1 DEF InitPostgres, EndCase, Fresh, Cleared
  <1>2. CASE Join
    <2>1. BitsEarned'
      BY <1>2 DEF Join
    <2>2. NoFalsePass'
      BY <1>2, DBPoolAssumption DEF Join, Verdict, EndCase
    <2> QED BY <2>1, <2>2
  <1>3. CASE Shutdown
    BY <1>3 DEF Shutdown, EndCase
  <1>4. ASSUME NEW t \in Threads, GetConnection(t) PROVE BitsEarned' /\ NoFalsePass'
    BY <1>4 DEF GetConnection, Return
  <1>5. ASSUME NEW t \in Threads, Query(t) PROVE BitsEarned' /\ NoFalsePass'
    BY <1>5 DEF Query
  <1>6. ASSUME NEW t \in Threads, Close(t) PROVE BitsEarned' /\ NoFalsePass'
    BY <1>6 DEF Close, Return
  <1>7. ASSUME NEW t \in Threads, Read(t) PROVE BitsEarned' /\ NoFalsePass'
    BY <1>7 DEF Read
  <1>8. ASSUME NEW t \in Threads, Write(t) PROVE BitsEarned' /\ NoFalsePass'
    BY <1>8 DEF Write
  <1>9. CASE UNCHANGED vars
    BY <1>9 DEF vars
  <1> QED BY <1>1, <1>2, <1>3, <1>4, <1>5, <1>6, <1>7, <1>8, <1>9 DEF Next

\* NoFalsePass always holds: whatever the race does to the results, a case
\* that goes on to shutdown had every connection test succeed.
THEOREM TruePass == Spec => []NoFalsePass
  <1>1. Spec => []IInv
    BY InitInv, StepInv, PTL DEF Spec
  <1>2. IInv => NoFalsePass
    BY DEF IInv
  <1> QED BY <1>1, <1>2, PTL
-----------------------------------------------------------------------------
\* A thread that holds a connection is between its get and its close, and the threads that take
\* no part in the first case do nothing in it.
HeldByThreads ==
    /\ \A t \in inUse : pc[t] \in {"query", "close"}
    /\ testCase = 1 => \A t \in Threads \ {First} : pc[t] = "off"

HeldInv == Typed /\ HeldByThreads /\ NoUseAfterShutdown

\* Every step keeps it: a case ends only when Join has seen every thread of it ended.
LEMMA StepHeld == HeldInv /\ [Next]_vars => HeldInv'
  <1> SUFFICES ASSUME HeldInv, [Next]_vars PROVE HeldByThreads' /\ NoUseAfterShutdown'
    BY StepTyped DEF HeldInv
  <1> USE DEF HeldInv, Typed, TypeOK, Word, HeldByThreads, NoUseAfterShutdown, Members
  <1>1. CASE InitPostgres
    BY <1>1 DEF InitPostgres, EndCase
  <1>2. CASE Join
    <2>1. \A t \in Threads : pc[t] \in {"off", "ended"}
      BY <1>2, DBPoolAssumption DEF Join
    <2> QED BY <1>2, <2>1 DEF Join, EndCase
  <1>3. CASE Shutdown
    BY <1>3 DEF Shutdown, EndCase
  <1>4. ASSUME NEW t \in Threads, GetConnection(t) PROVE HeldByThreads' /\ NoUseAfterShutdown'
    BY <1>4 DEF GetConnection, Return
  <1>5. ASSUME NEW t \in Threads, Query(t) PROVE HeldByThreads' /\ NoUseAfterShutdown'
    BY <1>5 DEF Query
  <1>6. ASSUME NEW t \in Threads, Close(t) PROVE HeldByThreads' /\ NoUseAfterShutdown'
    BY <1>6 DEF Close, Return
  <1>7. ASSUME NEW t \in Threads, Read(t) PROVE HeldByThreads' /\ NoUseAfterShutdown'
    BY <1>7 DEF Read
  <1>8. ASSUME NEW t \in Threads, Write(t) PROVE HeldByThreads' /\ NoUseAfterShutdown'
    BY <1>8 DEF Write
  <1>9. CASE UNCHANGED vars
    BY <1>9 DEF vars
  <1> QED BY <1>1, <1>2, <1>3, <1>4, <1>5, <1>6, <1>7, <1>8, <1>9 DEF Next

\* NoUseAfterShutdown always holds: wherever a case ends, its threads have given every connection
\* back, and none will ask the freed pool for another.
THEOREM NothingHeld == Spec => []NoUseAfterShutdown
  <1>1. Init => HeldInv
    BY InitTyped DEF Init, HeldInv, HeldByThreads, NoUseAfterShutdown
  <1>2. HeldInv => NoUseAfterShutdown
    BY DEF HeldInv
  <1> QED BY <1>1, <1>2, StepHeld, PTL DEF Spec
-----------------------------------------------------------------------------
\* A case runs on a pool, and the first one starts without.
Started ==
    /\ main \in {"join", "shutdown"} => pool = "started"
    /\ testCase = 1 /\ main = "init" => pool = "null"

StartedInv == TypeOK /\ Started /\ RefusedAfterFailure

\* Every step keeps it: the pool outlives the first case only by the failure of its REQUIRE.
LEMMA StepStarted == StartedInv /\ Typed /\ [Next]_vars => StartedInv'
  <1> SUFFICES ASSUME StartedInv, Typed, [Next]_vars PROVE Started' /\ RefusedAfterFailure'
    BY StepTyped DEF StartedInv, Typed
  <1> USE DEF StartedInv, TypeOK, Started, RefusedAfterFailure
  <1>1. CASE InitPostgres
    BY <1>1 DEF InitPostgres, EndCase
  <1>2. CASE Join
    BY <1>2 DEF Join, EndCase
  <1>3. CASE Shutdown
    BY <1>3 DEF Shutdown, EndCase
  <1>4. ASSUME NEW t \in Threads, GetConnection(t) \/ Query(t) \/ Close(t) \/ Read(t) \/ Write(t)
        PROVE  Started' /\ RefusedAfterFailure'
    BY <1>4 DEF GetConnection, Query, Close, Read, Write
  <1>5. CASE UNCHANGED vars
    BY <1>5 DEF vars
  <1> QED BY <1>1, <1>2, <1>3, <1>4, <1>5 DEF Next

\* RefusedAfterFailure always holds: the second case finds a pool only when the first one failed.
THEOREM LeftBehind == Spec => []RefusedAfterFailure
  <1>1. Init => StartedInv /\ Typed
    BY InitTyped DEF Init, StartedInv, Started, RefusedAfterFailure, Typed
  <1>2. StartedInv => RefusedAfterFailure
    BY DEF StartedInv
  <1> QED BY <1>1, <1>2, StepStarted, StepTyped, PTL DEF Spec

-----------------------------------------------------------------------------
(* The blocking queue. *)

Places == {"idle", "score", "best", "reload", "sweep", "rotate", "offset", "current", "next", "around", "returned"}
Tokens == [desired : Nat, current : Nat, known : Int, consumed : Int]
Calls == [at : Places, bulk : BOOLEAN, ptr : Nat, tail : Nat, best : Nat, bestSize : Int, full : Nat,
          start : Nat, dry : SUBSET Nat]

\* The threads whose producer is in the list, and the producers there can be.
InList == {s \in Producing : own[s] > 0}
MostProducers == Cardinality(Producing)

\* The list: each thread enters it once, and is counted before.
ListInv ==
  /\ own \in [Producing -> Int] /\ \A s \in Producing : own[s] <= tail
  /\ tail \in Nat /\ tail = Cardinality(InList)
  /\ producerCount \in Nat
  /\ tail > 0 \/ (\E s \in Producing : own[s] = -1) => producerCount > 0

\* Round the list of last producers, down from the token's own: those passed before ptr.
Passed(cur, ptr, last) == IF ptr < cur THEN ptr + 1 .. cur ELSE (1 .. cur) \cup (ptr + 1 .. last)

\* A token's producers are in the list.
TokenInv(k) ==
  /\ k \in Tokens /\ k.desired <= tail
  /\ k.desired > 0 => k.current \in 1 .. tail

\* The producers that have appeared empty to a dequeue of w more elements, by its place d with token k.
Seen(d, k, w) ==
  /\ d \in Calls /\ w \in Int
  /\ d.start <= tail
  /\ d.at = "idle" \/ d.dry \subseteq 1 .. tail
  /\ d.at = "score" => /\ d.ptr \in 1 .. tail
                       /\ d.full = 0 => d.ptr + 1 .. d.start \subseteq d.dry
                       /\ d.bestSize > 0 => d.best \in 1 .. tail
                       /\ d.full > 0 => d.bestSize > 0
  /\ d.at = "best" => d.best \in 1 .. tail
  /\ d.at = "reload" => d.best \in d.dry
  /\ d.at = "sweep" => /\ d.ptr \in 1 .. tail /\ d.best \in d.dry \cup {0}
                       /\ d.ptr + 1 .. d.start \subseteq d.dry
  /\ d.at = "offset" => d.tail \in 1 .. tail
  /\ d.at \in {"current", "next", "around"} => k.current \in 1 .. tail
  /\ d.at \in {"next", "around"} => k.current \in d.dry
  /\ d.at = "around" => /\ d.tail <= tail /\ d.start <= d.tail /\ k.current <= d.tail
                        /\ d.ptr \in 1 .. d.tail /\ d.ptr /= k.current
                        /\ Passed(k.current, d.ptr, d.tail) \subseteq d.dry
  /\ d.at = "returned" => w = 0 \/ 1 .. d.start \subseteq d.dry

QueueInv ==
  /\ ListInv /\ globalOffset \in Int
  /\ size \in [1 .. MostProducers -> Int]
  /\ token \in [Consumers -> Tokens] /\ dq \in [Consumers -> Calls] /\ want \in [Consumers -> Int]
  /\ \A c \in Consumers : TokenInv(token[c]) /\ Seen(dq[c], token[c], want[c])

\* A consumer waits for permits, and has none to dequeue for, or dequeues.
Waits == [at : {"idle", "try", "spin", "more", "asleep", "giveup", "trysem", "undo"}, max : Int,
          kind : {"try", "ever", "timed", "zero"}, seen : Int, got : Int]
Waiting(x) == x.at /= "idle" \/ x.got /= 0
WaitInv ==
  /\ mcount \in Int /\ unsignalled \in [Producing -> Int] /\ wt \in [Consumers -> Waits]
  /\ \A c \in Consumers : Waiting(wt[c]) => dq[c].at = "idle" /\ want[c] = 0

\* A consumer inside a producer's queue, by its visit v, its place d and its wish w: it has reserved what it
\* wants, or everything there was, or met somebody.
Visits == [from : Nat, n : Nat, met : BOOLEAN, all : BOOLEAN]
Inside(v, d, w) ==
  v.from /= 0 => /\ d.at \in {"best", "sweep", "current", "around"} /\ (d.at = "sweep" => d.ptr /= d.best)
                 /\ v.n <= w /\ (v.n = w \/ v.all \/ v.met)
VisitInv == visit \in [Consumers -> Visits] /\ \A c \in Consumers : Inside(visit[c], dq[c], want[c])

-----------------------------------------------------------------------------
\* There are no more producers than threads that enqueue.
LEMMA ListBound == ListInv => tail <= MostProducers /\ 1 .. tail \subseteq 1 .. MostProducers
  <1> SUFFICES ASSUME ListInv PROVE tail <= MostProducers /\ 1 .. tail \subseteq 1 .. MostProducers
    OBVIOUS
  <1>1. InList \subseteq Producing /\ IsFiniteSet(Producing)
    BY QueueAssumption DEF InList
  <1>2. Cardinality(InList) <= Cardinality(Producing) /\ Cardinality(Producing) \in Nat
    BY <1>1, FS_Subset, FS_CardinalityType
  <1> QED BY <1>2 DEF ListInv, MostProducers

\* A step of one consumer leaves the others where they are.
LEMMA CallMoved ==
  ASSUME QueueInv, NEW c \in Consumers, NEW d, NEW k, NEW w, UNCHANGED listVars,
         dq' = [dq EXCEPT ![c] = d], token' = [token EXCEPT ![c] = k], want' = [want EXCEPT ![c] = w],
         TokenInv(k), Seen(d, k, w),
         globalOffset' \in Int, size' \in [1 .. MostProducers -> Int]
  PROVE  QueueInv'
  <1>1. /\ d \in Calls /\ k \in Tokens /\ w \in Int
        /\ dq' \in [Consumers -> Calls] /\ token' \in [Consumers -> Tokens] /\ want' \in [Consumers -> Int]
    BY DEF QueueInv, TokenInv, Seen
  <1>2. ListInv'
    BY DEF QueueInv, ListInv, InList, listVars
  <1>3. tail' = tail
    BY DEF listVars
  <1>4. ASSUME NEW e \in Consumers PROVE TokenInv(token[e])' /\ Seen(dq[e], token[e], want[e])'
    <2>1. CASE e = c
      <3>1. dq'[e] = d /\ token'[e] = k /\ want'[e] = w
        BY <2>1, <1>1 DEF QueueInv
      <3> QED BY <3>1, <1>3 DEF TokenInv, Seen
    <2>2. CASE e /= c
      <3>1. dq'[e] = dq[e] /\ token'[e] = token[e] /\ want'[e] = want[e]
        BY <2>2 DEF QueueInv
      <3>2. TokenInv(token[e]) /\ Seen(dq[e], token[e], want[e])
        BY DEF QueueInv
      <3> QED BY <3>1, <3>2, <1>3 DEF TokenInv, Seen
    <2> QED BY <2>1, <2>2
  <1> QED BY <1>1, <1>2, <1>4 DEF QueueInv, MostProducers

\* A step that changes neither token nor wish.
LEMMA CallOnly ==
  ASSUME QueueInv, NEW c \in Consumers, NEW d, dq' = [dq EXCEPT ![c] = d], Seen(d, token[c], want[c]),
         UNCHANGED <<tail, producerCount, own, size, globalOffset, token, want>>
  PROVE  QueueInv'
  <1>1. token' = [token EXCEPT ![c] = token[c]] /\ want' = [want EXCEPT ![c] = want[c]]
    BY DEF QueueInv
  <1>2. TokenInv(token[c]) /\ globalOffset' \in Int /\ size' \in [1 .. MostProducers -> Int]
    BY DEF QueueInv
  <1> QED BY <1>1, <1>2, CallMoved DEF listVars

\* A dequeue from one producer gives as many as are wanted, or the producer has appeared empty.
LEMMA Served ==
  ASSUME QueueInv, VisitInv, NEW c \in Consumers, NEW p \in 1 .. tail, NEW m \in 0 .. visit[c].n,
         DequeueFrom(c, p, m), dq[c].dry \subseteq 1 .. tail
  PROVE  /\ size' \in [1 .. MostProducers -> Int] /\ m \in Int
         /\ \E w \in Int : want' = [want EXCEPT ![c] = w] /\ want'[c] = w /\ (m = want[c] => w = 0)
         /\ dq[c].dry \subseteq Dry(c, p) /\ Dry(c, p) \subseteq 1 .. tail
         /\ m /= want[c] => p \in Dry(c, p)
  <1>1. p \in 1 .. MostProducers /\ size \in [1 .. MostProducers -> Int] /\ want \in [Consumers -> Int]
    BY ListBound DEF QueueInv
  <1>2. m \in Int /\ (m /= want[c] => visit[c].met \/ visit[c].all)
    <2>1. visit[c].n \in Nat /\ visit[c].from = p /\ (visit[c].met \/ m = visit[c].n)
      BY DEF VisitInv, Visits, DequeueFrom
    <2>2. p /= 0
      OBVIOUS
    <2>3. visit[c].n = want[c] \/ visit[c].all \/ visit[c].met
      BY <2>1, <2>2 DEF VisitInv, Inside
    <2> QED BY <2>1, <2>3
  <1>3. size' \in [1 .. MostProducers -> Int]
    BY <1>1, <1>2 DEF DequeueFrom
  <1>4. PICK w \in Int : w = want[c] - m
    BY <1>1, <1>2
  <1>5. want' = [want EXCEPT ![c] = w]
    BY <1>4 DEF DequeueFrom
  <1>6. want'[c] = w /\ (m = want[c] => w = 0)
    BY <1>1, <1>4, <1>5
  <1> QED BY <1>2, <1>3, <1>5, <1>6 DEF Dry

-----------------------------------------------------------------------------
(* The steps of a dequeue. *)

\* The facts of QueueInv about one consumer.
LEMMA OneCall ==
  ASSUME QueueInv, NEW c \in Consumers
  PROVE  /\ tail \in Nat /\ dq[c] \in Calls /\ token[c] \in Tokens /\ want[c] \in Int
         /\ TokenInv(token[c]) /\ Seen(dq[c], token[c], want[c])
  BY DEF QueueInv, ListInv

\* A call starts at the tail, with nothing seen.
LEMMA BeginSeen ==
  ASSUME QueueInv, NEW c \in Consumers, NEW bulk \in BOOLEAN, Begin(c, bulk)
  PROVE  QueueInv'
  <1>0. tail \in Nat /\ token[c] \in Tokens /\ TokenInv(token[c]) /\ want[c] \in Int
    BY OneCall
  <1>1. PICK at :
          at = IF c \in Tokened
               THEN IF token[c].desired = 0 \/ token[c].known /= globalOffset THEN "rotate" ELSE "current"
               ELSE IF tail = 0 THEN "returned" ELSE IF bulk THEN "sweep" ELSE "score"
    OBVIOUS
  <1>2. PICK d : d = [Resting EXCEPT !.bulk = bulk, !.start = tail, !.ptr = tail, !.at = at]
    OBVIOUS
  <1>3. dq' = [dq EXCEPT ![c] = d]
    BY <1>1, <1>2 DEF Begin
  <1>4. /\ at \in {"rotate", "current", "returned", "sweep", "score"}
        /\ at = "current" => token[c].desired /= 0
        /\ at = "returned" => tail = 0
        /\ at \in {"sweep", "score"} => tail /= 0
    BY <1>1
  <1>6. d = [at |-> at, bulk |-> bulk, ptr |-> tail, tail |-> 0, best |-> 0, bestSize |-> 0, full |-> 0,
             start |-> tail, dry |-> {}]
    BY <1>2 DEF Resting
  <1>7. d \in Calls
    BY <1>0, <1>4, <1>6 DEF Calls, Places
  <1>5. Seen(d, token[c], want[c])
    BY <1>0, <1>4, <1>6, <1>7 DEF Seen, TokenInv, Tokens
  <1> QED BY <1>3, <1>5, CallOnly DEF Begin, listVars

\* All that the scan for the fullest queue has passed appeared empty, or it found one that has elements.
LEMMA ScoreSeen ==
  ASSUME QueueInv, NEW c \in Consumers, Score(c)
  PROVE  QueueInv'
  <1> DEFINE d == dq[c]
             p == dq[c].ptr
  <1>0. tail \in Nat /\ d \in Calls /\ Seen(d, token[c], want[c]) /\ d.at = "score" /\ p \in 1 .. tail
    BY OneCall DEF Score, Seen
  <1>1. size[p] \in Int
    BY <1>0, ListBound DEF QueueInv
  <1>9. PICK n \in 0 .. size[p] :
           LET some == n > 0
               over == p = 1 \/ (some /\ d.full = 2)
           IN  /\ n = size[p] \/ Crowded(c, p)
               /\ dq' = [dq EXCEPT ![c] = [d EXCEPT
                    !.dry = IF size[p] = 0 \/ Crowded(c, p) THEN d.dry \cup {p} ELSE d.dry,
                    !.full = IF some THEN d.full + 1 ELSE d.full,
                    !.best = IF n > d.bestSize THEN p ELSE d.best,
                    !.bestSize = IF n > d.bestSize THEN n ELSE d.bestSize,
                    !.ptr = p - 1,
                    !.at = IF ~over THEN "score" ELSE IF some \/ d.full > 0 THEN "best" ELSE "returned"]]
    BY DEF Score
  <1>10. PICK D : D = IF size[p] = 0 \/ Crowded(c, p) THEN d.dry \cup {p} ELSE d.dry
    OBVIOUS
  <1>11. D \in SUBSET Nat /\ d.dry \subseteq D /\ D \subseteq d.dry \cup {p} /\ (~(n > 0) => p \in D) /\ n \in Nat
    BY <1>0, <1>1, <1>9, <1>10 DEF Calls
  <1>2. PICK e : e = [d EXCEPT
            !.dry = D,
            !.full = IF n > 0 THEN d.full + 1 ELSE d.full,
            !.best = IF n > d.bestSize THEN p ELSE d.best,
            !.bestSize = IF n > d.bestSize THEN n ELSE d.bestSize,
            !.ptr = p - 1,
            !.at = IF ~(p = 1 \/ (n > 0 /\ d.full = 2)) THEN "score"
                   ELSE IF n > 0 \/ d.full > 0 THEN "best" ELSE "returned"]
    OBVIOUS
  <1>7. dq' = [dq EXCEPT ![c] = e]
    BY <1>2, <1>9, <1>10
  <1>3. /\ e.dry = D
        /\ e.full = (IF n > 0 THEN d.full + 1 ELSE d.full)
        /\ e.best = (IF n > d.bestSize THEN p ELSE d.best)
        /\ e.bestSize = (IF n > d.bestSize THEN n ELSE d.bestSize)
        /\ e.ptr = p - 1 /\ e.start = d.start
    BY <1>0, <1>2 DEF Calls
  <1>4. /\ e.at \in {"score", "best", "returned"}
        /\ e.at = "score" => p /= 1
        /\ e.at = "best" => n > 0 \/ d.full > 0
        /\ e.at = "returned" => p = 1 /\ ~(n > 0) /\ ~(d.full > 0)
    BY <1>0, <1>2 DEF Calls
  <1>5. e \in Calls
    <2>1. e.dry \in SUBSET Nat /\ e.full \in Nat /\ e.best \in Nat /\ e.bestSize \in Int /\ e.ptr \in Nat
      BY <1>0, <1>11, <1>3 DEF Calls
    <2>2. e.at \in Places
      BY <1>4 DEF Places
    <2>3. e = [d EXCEPT !.dry = e.dry, !.full = e.full, !.best = e.best, !.bestSize = e.bestSize,
                        !.ptr = e.ptr, !.at = e.at]
      BY <1>0, <1>2 DEF Calls
    <2> QED BY <1>0, <2>1, <2>2, <2>3 DEF Calls
  <1>6. Seen(e, token[c], want[c])
    <2>1. e.start <= tail /\ e.dry \subseteq 1 .. tail /\ want[c] \in Int
      BY <1>0, <1>3, <1>11 DEF Seen
    <2>2. e.full = 0 => e.ptr + 1 .. e.start \subseteq e.dry
      BY <1>0, <1>11, <1>3 DEF Seen, Calls
    <2>3. e.bestSize > 0 => e.best \in 1 .. tail
      BY <1>0, <1>11, <1>3 DEF Seen, Calls
    <2>4. e.full > 0 => e.bestSize > 0
      BY <1>0, <1>11, <1>3 DEF Seen, Calls
    <2>5. e.at = "score" => e.ptr \in 1 .. tail
      BY <1>0, <1>3, <1>4
    <2>6. e.at = "best" => e.best \in 1 .. tail
      BY <1>0, <1>3, <1>4, <1>11, <2>3, <2>4 DEF Calls
    <2>7. e.at = "returned" => 1 .. e.start \subseteq e.dry
      BY <1>0, <1>3, <1>4, <1>11, <2>2 DEF Calls
    <2> QED BY <1>4, <1>5, <2>1, <2>2, <2>3, <2>4, <2>5, <2>6, <2>7 DEF Seen
  <1> QED BY <1>6, <1>7, CallOnly DEF Score, listVars

\* A look at the counters touches nothing else.
LEMMA LookSeen ==
  ASSUME QueueInv, NEW c \in Consumers, Look(c)
  PROVE  QueueInv'
  <1>1. dq' = [dq EXCEPT ![c] = dq[c]] /\ Seen(dq[c], token[c], want[c])
    BY OneCall DEF Look, QueueInv
  <1> QED BY <1>1, CallOnly DEF Look, listVars

\* The best one gives, or has appeared empty by now.
LEMMA BestSeen ==
  ASSUME QueueInv, VisitInv, NEW c \in Consumers, Best(c)
  PROVE  QueueInv'
  <1> DEFINE d == dq[c]
             p == dq[c].best
  <1>0. /\ tail \in Nat /\ d \in Calls /\ Seen(d, token[c], want[c]) /\ d.at = "best" /\ p \in 1 .. tail
        /\ TokenInv(token[c]) /\ token[c] \in Tokens
    BY OneCall DEF Best, Seen
  <1>1. PICK m \in 0 .. visit[c].n :
          /\ d.dry \subseteq 1 .. tail /\ DequeueFrom(c, p, m)
          /\ dq' = [dq EXCEPT ![c] = [d EXCEPT !.at = IF m = want[c] THEN "returned" ELSE "reload", !.dry = Dry(c, p)]]
    BY <1>0 DEF Seen, Best
  <1>2. PICK w \in Int : want' = [want EXCEPT ![c] = w] /\ (m = want[c] => w = 0)
    BY <1>0, <1>1, Served
  <1>3. PICK D \in SUBSET (1 .. tail) : D = Dry(c, p) /\ D \in SUBSET Nat /\ (m /= want[c] => p \in D)
    BY <1>0, <1>1, Served
  <1>4. PICK at \in {"returned", "reload"} : at = IF m = want[c] THEN "returned" ELSE "reload"
    OBVIOUS
  <1>5. PICK e : e = [d EXCEPT !.at = at, !.dry = D]
    OBVIOUS
  <1>6. dq' = [dq EXCEPT ![c] = e]
    BY <1>1, <1>3, <1>4, <1>5
  <1>7. e \in Calls /\ e.at = at /\ e.dry = D /\ e.start = d.start /\ e.best = p
    BY <1>0, <1>3, <1>4, <1>5 DEF Calls, Places
  <1>8. Seen(e, token[c], w)
    BY <1>0, <1>2, <1>3, <1>4, <1>7 DEF Seen
  <1>9. token' = [token EXCEPT ![c] = token[c]] /\ UNCHANGED listVars /\ globalOffset' \in Int
    BY DEF QueueInv, Best
  <1>10. size' \in [1 .. MostProducers -> Int]
    BY <1>0, <1>1, Served
  <1> QED BY <1>0, <1>2, <1>6, <1>8, <1>9, <1>10, CallMoved

\* The sweep starts at the tail.
LEMMA ReloadSeen ==
  ASSUME QueueInv, NEW c \in Consumers, Reload(c)
  PROVE  QueueInv'
  <1> DEFINE d == dq[c]
  <1>0. tail \in Nat /\ d \in Calls /\ Seen(d, token[c], want[c]) /\ d.at = "reload"
    BY OneCall DEF Reload
  <1>1. PICK e : e = [d EXCEPT !.at = "sweep", !.ptr = tail] /\ dq' = [dq EXCEPT ![c] = e]
    BY DEF Reload, Move
  <1>2. /\ e \in Calls /\ e.at = "sweep" /\ e.ptr = tail
        /\ e.dry = d.dry /\ e.start = d.start /\ e.best = d.best
    BY <1>0, <1>1 DEF Calls, Places
  <1>3. Seen(e, token[c], want[c])
    BY <1>0, <1>2 DEF Seen, Calls
  <1> QED BY <1>1, <1>3, CallOnly DEF Reload, listVars

\* All that the sweep has passed appeared empty.
LEMMA SweepSeen ==
  ASSUME QueueInv, VisitInv, NEW c \in Consumers, Sweep(c)
  PROVE  QueueInv'
  <1> DEFINE d == dq[c]
             p == dq[c].ptr
  <1>0. /\ tail \in Nat /\ d \in Calls /\ Seen(d, token[c], want[c]) /\ d.at = "sweep" /\ p \in 1 .. tail
        /\ want[c] \in Int /\ d.dry \subseteq 1 .. tail /\ TokenInv(token[c]) /\ token[c] \in Tokens
    BY OneCall DEF Sweep, Seen
  <1>1. \E w \in Int, D \in SUBSET (1 .. tail) :
          /\ size' \in [1 .. MostProducers -> Int]
          /\ want' = [want EXCEPT ![c] = w] /\ want'[c] = w
          /\ D = IF p = d.best THEN d.dry ELSE Dry(c, p)
          /\ d.dry \subseteq D /\ (w /= 0 => p \in D)
    <2>1. CASE p = d.best
      <3>1. want' = [want EXCEPT ![c] = want[c]] /\ want'[c] = want[c] /\ size' = size
        BY <2>1 DEF Sweep, QueueInv
      <3>2. p \in d.dry
        BY <1>0, <2>1 DEF Seen
      <3> QED BY <1>0, <2>1, <3>1, <3>2 DEF QueueInv
    <2>2. CASE p /= d.best
      <3>1. PICK m \in 0 .. visit[c].n : DequeueFrom(c, p, m)
        BY <2>2 DEF Sweep
      <3> QED BY <1>0, <2>2, <3>1, Served
    <2> QED BY <2>1, <2>2
  <1>2. PICK w \in Int, D \in SUBSET (1 .. tail) :
          /\ size' \in [1 .. MostProducers -> Int]
          /\ want' = [want EXCEPT ![c] = w] /\ want'[c] = w
          /\ D = IF p = d.best THEN d.dry ELSE Dry(c, p)
          /\ d.dry \subseteq D /\ (w /= 0 => p \in D)
    BY <1>1
  <1>3. PICK at : at = IF want'[c] = 0 \/ p = 1 THEN "returned" ELSE "sweep"
    OBVIOUS
  <1>4. PICK e : e = [d EXCEPT !.dry = D, !.ptr = p - 1, !.at = at]
    OBVIOUS
  <1>5. dq' = [dq EXCEPT ![c] = e]
    BY <1>0, <1>2, <1>3, <1>4 DEF Sweep
  <1>6. e \in Calls /\ e.at = at /\ e.dry = D /\ e.start = d.start /\ e.best = d.best /\ e.ptr = p - 1
    <2>1. D \in SUBSET Nat /\ at \in Places /\ p - 1 \in Nat
      BY <1>0, <1>2, <1>3 DEF Places
    <2> QED BY <1>0, <1>4, <2>1 DEF Calls
  <1>7. w /= 0 => p .. d.start \subseteq D
    BY <1>0, <1>2 DEF Seen, Calls
  <1>8. Seen(e, token[c], w)
    <2>1. at = "sweep" => w /= 0 /\ p /= 1
      BY <1>2, <1>3
    <2>2. at = "returned" => w = 0 \/ 1 .. e.start \subseteq e.dry
      BY <1>2, <1>3, <1>6, <1>7
    <2>3. at = "sweep" => e.ptr \in 1 .. tail /\ e.ptr + 1 .. e.start \subseteq e.dry
      BY <1>0, <1>6, <1>7, <2>1
    <2>4. at = "sweep" => e.best \in e.dry \cup {0}
      BY <1>0, <1>2, <1>6 DEF Seen
    <2>5. at \in {"sweep", "returned"} /\ e.start <= tail /\ e.dry \subseteq 1 .. tail /\ w \in Int
      BY <1>0, <1>2, <1>3, <1>6 DEF Seen
    <2> QED BY <1>6, <2>2, <2>3, <2>4, <2>5 DEF Seen
  <1>9. token' = [token EXCEPT ![c] = token[c]] /\ UNCHANGED listVars /\ globalOffset' \in Int
    BY DEF QueueInv, Sweep
  <1> QED BY <1>0, <1>2, <1>5, <1>8, <1>9, CallMoved

-----------------------------------------------------------------------------
(* The steps with a token. *)

\* Wherever the rotation leads, it is to a producer of the list.
LEMMA OnwardListed ==
  ASSUME NEW p \in Int, NEW n \in Int, NEW last \in Nat \ {0}
  PROVE  Onward(p, n, last) \in 1 .. last
  <1>1. PICK x \in Int : x = p - 1 - n
    OBVIOUS
  <1>2. x % last \in 0 .. last - 1
    BY <1>1
  <1> QED BY <1>1, <1>2 DEF Onward

LEMMA RotateTailSeen ==
  ASSUME QueueInv, NEW c \in Consumers, RotateTail(c)
  PROVE  QueueInv'
  <1> DEFINE d == dq[c]
  <1>0. /\ tail \in Nat /\ d \in Calls /\ Seen(d, token[c], want[c]) /\ d.at = "rotate"
        /\ token[c] \in Tokens /\ TokenInv(token[c])
    BY OneCall DEF RotateTail
  <1>1. PICK at : at = IF token[c].desired = 0 /\ tail = 0 THEN "returned" ELSE "offset"
    OBVIOUS
  <1>2. PICK e : e = [d EXCEPT !.tail = tail, !.at = at]
    OBVIOUS
  <1>3. dq' = [dq EXCEPT ![c] = e]
    BY <1>1, <1>2 DEF RotateTail
  <1>4. /\ at \in {"returned", "offset"}
        /\ at = "returned" => tail = 0
        /\ at = "offset" => tail > 0
    BY <1>0, <1>1 DEF TokenInv, Tokens
  <1>5. e \in Calls /\ e.at = at /\ e.tail = tail /\ e.start = d.start /\ e.dry = d.dry
    BY <1>0, <1>2, <1>4 DEF Calls, Places
  <1>6. Seen(e, token[c], want[c])
    BY <1>0, <1>4, <1>5 DEF Seen, Calls
  <1> QED BY <1>3, <1>6, CallOnly DEF RotateTail, listVars

LEMMA RotateOffsetSeen ==
  ASSUME QueueInv, NEW c \in Consumers, RotateOffset(c)
  PROVE  QueueInv'
  <1> DEFINE d == dq[c]
             last == d.tail
             from == IF token[c].desired = 0
                     THEN Onward(last, producerCount - 1 - (Offset[c] % producerCount), last)
                     ELSE token[c].desired
             p == Onward(from, (globalOffset - token[c].known) % producerCount, last)
  <1>0. /\ tail \in Nat /\ d \in Calls /\ Seen(d, token[c], want[c]) /\ d.at = "offset"
        /\ token[c] \in Tokens /\ want[c] \in Int
    BY OneCall DEF RotateOffset
  <1>1. last \in Nat \ {0} /\ last <= tail
    BY <1>0 DEF Seen, Calls
  <1>2. producerCount \in Nat \ {0} /\ globalOffset \in Int /\ Offset[c] \in Nat
    BY <1>0, <1>1, QueueAssumption DEF QueueInv, ListInv
  <1>3. Offset[c] % producerCount \in Int
    BY <1>2
  <1>4. from \in Int
    <2>1. PICK n \in Int : n = producerCount - 1 - (Offset[c] % producerCount)
      BY <1>2, <1>3
    <2>2. Onward(last, n, last) \in Int
      BY <1>1, OnwardListed
    <2> QED BY <1>0, <2>1, <2>2 DEF Tokens
  <1>5. PICK g \in Int : g = globalOffset - token[c].known
    BY <1>0, <1>2 DEF Tokens
  <1>6. g % producerCount \in Int
    BY <1>2
  <1> HIDE DEF from
  <1>7. p \in 1 .. last
    BY <1>1, <1>4, <1>5, <1>6, OnwardListed
  <1>8. PICK k : k = [desired |-> p, current |-> p, known |-> globalOffset, consumed |-> 0]
    OBVIOUS
  <1>9. token' = [token EXCEPT ![c] = k]
    BY <1>8 DEF RotateOffset, from
  <1> HIDE DEF p
  <1>10. k \in Tokens /\ k.desired = p /\ k.current = p
    BY <1>1, <1>2, <1>7, <1>8 DEF Tokens
  <1>11. TokenInv(k)
    BY <1>0, <1>1, <1>7, <1>10 DEF TokenInv
  <1>12. PICK e : e = [d EXCEPT !.at = "current", !.ptr = 0]
    OBVIOUS
  <1>13. dq' = [dq EXCEPT ![c] = e]
    BY <1>12 DEF RotateOffset, Move
  <1>14. e \in Calls /\ e.at = "current" /\ e.start = d.start /\ e.dry = d.dry
    BY <1>0, <1>12 DEF Calls, Places
  <1>15. Seen(e, k, want[c])
    BY <1>0, <1>1, <1>7, <1>10, <1>14 DEF Seen
  <1>16. want' = [want EXCEPT ![c] = want[c]] /\ size' = size /\ globalOffset' = globalOffset /\ UNCHANGED listVars
    BY DEF QueueInv, RotateOffset
  <1> QED BY <1>0, <1>9, <1>11, <1>13, <1>15, <1>16, CallMoved DEF QueueInv

\* The token's own producer gives, or appears empty.
LEMMA CurrentSeen ==
  ASSUME QueueInv, VisitInv, NEW c \in Consumers, Current(c)
  PROVE  QueueInv'
  <1> DEFINE d == dq[c]
             p == token[c].current
  <1>0. /\ tail \in Nat /\ d \in Calls /\ Seen(d, token[c], want[c]) /\ d.at = "current" /\ p \in 1 .. tail
        /\ token[c] \in Tokens /\ TokenInv(token[c]) /\ d.dry \subseteq 1 .. tail /\ want[c] \in Int
    BY OneCall DEF Current, Seen
  <1>1. PICK m \in 0 .. visit[c].n :
          /\ DequeueFrom(c, p, m)
          /\ token' = [token EXCEPT ![c].consumed = token[c].consumed + m]
          /\ dq' = [dq EXCEPT ![c] = [d EXCEPT !.dry = Dry(c, p), !.at = IF m = want[c] THEN "returned" ELSE "next"]]
    BY DEF Current
  <1>2. PICK w \in Int : want' = [want EXCEPT ![c] = w] /\ (m = want[c] => w = 0)
    BY <1>0, <1>1, Served
  <1>3. PICK D \in SUBSET (1 .. tail) : D = Dry(c, p) /\ D \in SUBSET Nat /\ (m /= want[c] => p \in D)
    BY <1>0, <1>1, Served
  <1>4. PICK n \in Int : n = m
    BY <1>0, <1>1, Served
  <1>5. PICK at : at = IF n = want[c] THEN "returned" ELSE "next"
    OBVIOUS
  <1>6. PICK e : e = [d EXCEPT !.dry = D, !.at = at]
    OBVIOUS
  <1>7. dq' = [dq EXCEPT ![c] = e]
    BY <1>1, <1>3, <1>4, <1>5, <1>6
  <1>8. at \in {"returned", "next"} /\ (at = "returned" => w = 0) /\ (at = "next" => p \in D)
    BY <1>2, <1>3, <1>4, <1>5
  <1>9. e \in Calls /\ e.at = at /\ e.dry = D /\ e.start = d.start
    BY <1>0, <1>3, <1>6, <1>8 DEF Calls, Places
  <1>10. PICK u \in Int : u = token[c].consumed + n
    BY <1>0 DEF Tokens
  <1>11. PICK k : k = [token[c] EXCEPT !.consumed = u]
    OBVIOUS
  <1>12. token' = [token EXCEPT ![c] = k]
    BY <1>1, <1>4, <1>10, <1>11
  <1>13. k \in Tokens /\ k.desired = token[c].desired /\ k.current = p
    BY <1>0, <1>11 DEF Tokens
  <1>14. TokenInv(k)
    BY <1>0, <1>13 DEF TokenInv
  <1>15. Seen(e, k, w)
    BY <1>0, <1>2, <1>3, <1>8, <1>9, <1>13 DEF Seen
  <1>16. globalOffset' \in Int
    BY DEF QueueInv, Current
  <1>17. size' \in [1 .. MostProducers -> Int] /\ UNCHANGED listVars
    BY <1>0, <1>1, Served DEF Current
  <1> QED BY <1>2, <1>7, <1>12, <1>14, <1>15, <1>16, <1>17, CallMoved

\* The way round the list starts after the token's own producer, which appeared empty.
LEMMA NextTailSeen ==
  ASSUME QueueInv, NEW c \in Consumers, NextTail(c)
  PROVE  QueueInv'
  <1> DEFINE d == dq[c]
             cur == token[c].current
  <1>0. /\ tail \in Nat /\ d \in Calls /\ Seen(d, token[c], want[c]) /\ d.at = "next" /\ cur \in 1 .. tail
        /\ cur \in d.dry /\ d.start <= tail /\ d.dry \subseteq 1 .. tail
    BY OneCall DEF NextTail, Seen
  <1>1. PICK p \in 1 .. tail : p = After(cur, tail)
    BY <1>0 DEF After
  <1>2. PICK at : at = IF p = cur THEN "returned" ELSE "around"
    OBVIOUS
  <1>3. PICK e : e = [d EXCEPT !.tail = tail, !.ptr = p, !.at = at]
    OBVIOUS
  <1>4. dq' = [dq EXCEPT ![c] = e]
    BY <1>1, <1>2, <1>3 DEF NextTail
  <1>5. at \in {"returned", "around"} /\ (at = "returned" <=> p = cur)
    BY <1>2
  <1>6. e \in Calls /\ e.at = at /\ e.dry = d.dry /\ e.start = d.start /\ e.tail = tail /\ e.ptr = p
    <2>1. p \in Nat /\ at \in Places
      BY <1>1, <1>5 DEF Places
    <2> QED BY <1>0, <1>3, <2>1 DEF Calls
  <1>7. p = cur => tail = 1 /\ cur = 1
    BY <1>0, <1>1 DEF After
  <1>8. p /= cur => Passed(cur, p, tail) = {cur}
    BY <1>0, <1>1 DEF After, Passed
  <1>9. at = "returned" => 1 .. d.start \subseteq d.dry
    BY <1>0, <1>5, <1>7 DEF Calls
  <1>10. Seen(e, token[c], want[c])
    BY <1>0, <1>1, <1>5, <1>6, <1>8, <1>9 DEF Seen
  <1> QED BY <1>4, <1>10, CallOnly DEF NextTail, listVars

\* One more producer of the round has been passed.
LEMMA PassedOn ==
  ASSUME NEW last \in Nat, NEW cur \in 1 .. last, NEW p \in 1 .. last, p /= cur
  PROVE  /\ After(p, last) \in 1 .. last
         /\ After(p, last) = cur => 1 .. last \subseteq Passed(cur, p, last) \cup {p}
         /\ After(p, last) /= cur => Passed(cur, After(p, last), last) \subseteq Passed(cur, p, last) \cup {p}
         /\ After(p, last) = p => last = 1
         /\ After(p, last) /= p => Passed(p, After(p, last), last) = {p}
  BY DEF After, Passed

\* All that the way round has passed since a producer gave something appeared empty, and that one.
LEMMA AroundSeen ==
  ASSUME QueueInv, VisitInv, NEW c \in Consumers, Around(c)
  PROVE  QueueInv'
  <1> DEFINE d == dq[c]
             p == dq[c].ptr
             cur == token[c].current
             last == dq[c].tail
             q == After(p, last)
  <1>0. /\ tail \in Nat /\ d \in Calls /\ Seen(d, token[c], want[c]) /\ d.at = "around"
        /\ token[c] \in Tokens /\ TokenInv(token[c]) /\ want[c] \in Int
    BY OneCall DEF Around
  <1>1. /\ last \in Nat /\ last <= tail /\ d.start <= last /\ d.start \in Nat
        /\ cur \in 1 .. last /\ p \in 1 .. last /\ p /= cur /\ p \in 1 .. tail
        /\ Passed(cur, p, last) \subseteq d.dry /\ cur \in d.dry /\ d.dry \subseteq 1 .. tail
    BY <1>0 DEF Seen, Calls
  <1>2. PICK m \in 0 .. visit[c].n :
          /\ DequeueFrom(c, p, m)
          /\ token' = IF m = 0 THEN token ELSE [token EXCEPT ![c] = [@ EXCEPT !.current = p, !.consumed = m]]
          /\ dq' = [dq EXCEPT ![c] = [d EXCEPT !.dry = Dry(c, p), !.ptr = q,
                      !.at = IF m = want[c] \/ q = token'[c].current THEN "returned" ELSE "around"]]
    BY DEF Around
  <1>3. PICK w \in Int : /\ want' = [want EXCEPT ![c] = w] /\ (m = want[c] => w = 0)
    BY <1>1, <1>2, Served
  <1>4. PICK D \in SUBSET (1 .. tail) : /\ D = Dry(c, p) /\ D \in SUBSET Nat /\ d.dry \subseteq D
                                        /\ (m /= want[c] => p \in D)
    BY <1>1, <1>2, Served
  <1>5. PICK n \in Int : n = m
    BY <1>1, <1>2, Served
  <1>6. PICK k : /\ token' = [token EXCEPT ![c] = k]
                 /\ k \in Tokens /\ k.desired = token[c].desired /\ k.current = IF n = 0 THEN cur ELSE p
    <2>1. CASE n = 0
      <3>1. token' = token
        BY <1>2, <1>5, <2>1
      <3>2. token' = [token EXCEPT ![c] = token[c]]
        BY <3>1 DEF QueueInv
      <3> QED BY <1>0, <2>1, <3>2
    <2>2. CASE n /= 0
      <3>1. PICK k : k = [token[c] EXCEPT !.current = p, !.consumed = n]
        OBVIOUS
      <3>2. token' = [token EXCEPT ![c] = k]
        BY <1>2, <1>5, <2>2, <3>1
      <3>3. k \in Tokens /\ k.desired = token[c].desired /\ k.current = p
        <4>1. p \in Nat
          BY <1>1
        <4> QED BY <1>0, <3>1, <4>1 DEF Tokens
      <3> QED BY <2>2, <3>2, <3>3
    <2> QED BY <2>1, <2>2
  <1>7. token'[c].current = k.current
    BY <1>6 DEF QueueInv
  <1>8. PICK at : at = IF n = want[c] \/ q = token'[c].current THEN "returned" ELSE "around"
    OBVIOUS
  <1>9. PICK e : e = [d EXCEPT !.dry = D, !.ptr = q, !.at = at]
    OBVIOUS
  <1>10. dq' = [dq EXCEPT ![c] = e]
    BY <1>2, <1>4, <1>5, <1>8, <1>9
  <1>11. at \in {"returned", "around"} /\ (at = "returned" => w = 0 \/ (q = k.current /\ p \in D))
                                       /\ (at = "around" => q /= k.current /\ p \in D)
    BY <1>3, <1>4, <1>5, <1>7, <1>8
  <1>12. q \in 1 .. last /\ q \in Nat
    BY <1>1, PassedOn
  <1>13. e \in Calls /\ e.at = at /\ e.dry = D /\ e.ptr = q /\ e.start = d.start /\ e.tail = last
    <2>1. at \in Places
      BY <1>11 DEF Places
    <2> HIDE DEF q
    <2> QED BY <1>0, <1>4, <1>9, <1>12, <2>1 DEF Calls
  <1>14. k.current \in 1 .. last /\ (p \in D => k.current \in D)
    BY <1>1, <1>4, <1>6
  <1>15. TokenInv(k)
    BY <1>0, <1>1, <1>6, <1>14 DEF TokenInv
  <1>16. p \in D /\ q = k.current => 1 .. last \subseteq D
    <2>1. CASE n = 0
      BY <1>1, <1>4, <1>6, <2>1, PassedOn
    <2>2. CASE n /= 0
      BY <1>1, <1>4, <1>6, <2>2, PassedOn
    <2> QED BY <2>1, <2>2
  <1>17. p \in D /\ q /= k.current => Passed(k.current, q, last) \subseteq D
    <2>1. CASE n = 0
      BY <1>1, <1>4, <1>6, <2>1, PassedOn
    <2>2. CASE n /= 0
      BY <1>1, <1>4, <1>6, <2>2, PassedOn
    <2> QED BY <2>1, <2>2
  <1>18. Seen(e, k, w)
    <2> HIDE DEF q
    <2>1. at = "returned" => w = 0 \/ 1 .. e.start \subseteq e.dry
      BY <1>1, <1>11, <1>13, <1>16
    <2>2. k.current \in 1 .. tail /\ e.start <= tail
      BY <1>0, <1>1, <1>13, <1>14
    <2>3. at = "around" => Passed(k.current, e.ptr, e.tail) \subseteq e.dry /\ k.current \in e.dry /\ e.ptr /= k.current
      BY <1>11, <1>13, <1>14, <1>17
    <2> QED BY <1>1, <1>3, <1>11, <1>12, <1>13, <1>14, <2>1, <2>2, <2>3 DEF Seen
  <1>19. globalOffset' \in Int
    BY DEF QueueInv, Around
  <1>20. size' \in [1 .. MostProducers -> Int] /\ UNCHANGED listVars
    BY <1>1, <1>2, Served DEF Around
  <1> QED BY <1>3, <1>6, <1>10, <1>15, <1>18, <1>19, <1>20, CallMoved

LEMMA ResumeSeen ==
  ASSUME QueueInv, NEW c \in Consumers, Resume(c)
  PROVE  QueueInv'
  <1>0. tail \in Nat /\ want[c] \in Int /\ token[c] \in Tokens
    BY OneCall
  <1>1. Resting \in Calls /\ Resting.at = "idle" /\ Resting.start = 0
    BY DEF Resting, Calls, Places
  <1>2. Seen(Resting, token[c], want[c])
    BY <1>0, <1>1 DEF Seen
  <1>3. dq' = [dq EXCEPT ![c] = Resting]
    BY DEF Resume
  <1> QED BY <1>2, <1>3, CallOnly DEF Resume, listVars

\* Every step of a dequeue keeps what is known of it.
LEMMA StepSeen ==
  ASSUME QueueInv, VisitInv, NEW c \in Consumers, DequeueStep(c)
  PROVE  QueueInv'
  BY LookSeen, ScoreSeen, BestSeen, ReloadSeen, SweepSeen, RotateTailSeen, RotateOffsetSeen, CurrentSeen,
     NextTailSeen, AroundSeen, ResumeSeen DEF DequeueStep

-----------------------------------------------------------------------------
(* The steps of producers, and of consumers that wait. *)

\* What consumers have seen stays so while the list grows and the queues fill.
LEMMA ListGrows ==
  ASSUME QueueInv, ListInv', tail' \in Nat, tail <= tail', size' \in [1 .. MostProducers -> Int],
         UNCHANGED <<globalOffset, token, dq, want>>
  PROVE  QueueInv'
  <1>1. ASSUME NEW c \in Consumers PROVE TokenInv(token[c])' /\ Seen(dq[c], token[c], want[c])'
    <2>1. tail \in Nat /\ TokenInv(token[c]) /\ Seen(dq[c], token[c], want[c])
      BY OneCall
    <2>2. 1 .. tail \subseteq 1 .. tail'
      BY <2>1
    <2>3. PICK d \in Calls, k \in Tokens, w \in Int : d = dq[c] /\ k = token[c] /\ w = want[c]
      BY OneCall
    <2>4. TokenInv(k)'
      BY <2>1, <2>2, <2>3 DEF TokenInv, Tokens
    <2>5. Seen(d, k, w)'
      <3>1. Seen(d, k, w) /\ \A x \in 1 .. tail : x \in 1 .. tail'
        BY <2>1, <2>2, <2>3
      <3>4. d.start \in Int /\ d.start <= tail /\ (d.at = "idle" \/ d.dry \subseteq 1 .. tail)
        BY <3>1 DEF Seen, Calls
      <3>2. d.start <= tail' /\ (d.at = "idle" \/ d.dry \subseteq 1 .. tail')
        BY <2>1, <2>2, <3>4
      <3>3. d.at = "around" => d.tail <= tail'
        BY <2>1, <3>1 DEF Seen, Calls
      <3> QED BY <3>1, <3>2, <3>3 DEF Seen
    <2> QED BY <2>3, <2>4, <2>5
  <1> QED BY <1>1 DEF QueueInv, MostProducers

LEMMA CountSeen ==
  ASSUME QueueInv, NEW s \in Producing, CountProducer(s)
  PROVE  QueueInv'
  <1>1. own \in [Producing -> Int] /\ tail \in Nat /\ own[s] = 0
    BY DEF QueueInv, ListInv, CountProducer
  <1>2. own' \in [Producing -> Int] /\ \A r \in Producing : own'[r] = IF r = s THEN -1 ELSE own[r]
    BY <1>1 DEF CountProducer
  <1>3. InList' = InList
    BY <1>1, <1>2 DEF InList
  <1>4. ListInv'
    BY <1>1, <1>2, <1>3 DEF QueueInv, ListInv, CountProducer
  <1> QED BY <1>1, <1>4, ListGrows DEF CountProducer, QueueInv

LEMMA ListSeen ==
  ASSUME QueueInv, NEW s \in Producing, ListProducer(s)
  PROVE  QueueInv'
  <1>1. own \in [Producing -> Int] /\ tail \in Nat /\ own[s] = -1 /\ tail = Cardinality(InList)
    BY DEF QueueInv, ListInv, ListProducer
  <1>2. own' \in [Producing -> Int] /\ \A r \in Producing : own'[r] = IF r = s THEN tail + 1 ELSE own[r]
    BY <1>1 DEF ListProducer
  <1>3. InList' = InList \cup {s} /\ s \notin InList
    BY <1>1, <1>2 DEF InList
  <1>4. IsFiniteSet(InList)
    BY QueueAssumption, FS_Subset DEF InList
  <1>5. Cardinality(InList') = tail + 1
    BY <1>1, <1>3, <1>4, FS_AddElement
  <1>6. tail' = tail + 1
    BY DEF ListProducer
  <1>7. ListInv'
    BY <1>1, <1>2, <1>5, <1>6 DEF QueueInv, ListInv, ListProducer
  <1> QED BY <1>1, <1>6, <1>7, ListGrows DEF ListProducer, QueueInv

LEMMA PutSeen ==
  ASSUME QueueInv, NEW s \in Producing, NEW n \in Puts, Put(s, n)
  PROVE  QueueInv'
  <1>1. n \in Int /\ own[s] \in 1 .. MostProducers
    BY ListBound, BlockingAssumption DEF QueueInv, ListInv, Put
  <1>2. size' \in [1 .. MostProducers -> Int]
    BY <1>1 DEF Put, QueueInv
  <1>3. ListInv'
    BY DEF Put, QueueInv, ListInv, InList, listVars
  <1> QED BY <1>2, <1>3, ListGrows DEF Put, QueueInv, ListInv, listVars

-----------------------------------------------------------------------------
(* The semaphore, which gives a consumer its permits. *)

\* What a wait becomes when it is asked for, or got a permit.
LEMMA WaitFields ==
  ASSUME NEW x \in Waits, NEW n \in Int
  PROVE  /\ \A at \in {"more", "idle"}, g \in Int : [x EXCEPT !.at = at, !.max = n, !.got = g] \in Waits
         /\ \A kind \in {"try", "ever", "timed", "zero"} :
              [x EXCEPT !.at = "try", !.max = n, !.kind = kind] \in Waits
  BY DEF Waits

\* A step of one thread's wait.
LEMMA WaitMoved ==
  ASSUME WaitInv, NEW c \in Consumers, NEW x \in Waits, wt' = [wt EXCEPT ![c] = x],
         mcount' \in Int, unsignalled' \in [Producing -> Int], UNCHANGED <<dq, want>>,
         dq[c].at = "idle" /\ want[c] = 0
  PROVE  WaitInv'
  <1>1. wt' \in [Consumers -> Waits]
    BY DEF WaitInv
  <1>2. ASSUME NEW e \in Consumers, Waiting(wt'[e]) PROVE dq'[e].at = "idle" /\ want'[e] = 0
    <2>1. CASE e = c
      BY <2>1
    <2>2. CASE e /= c
      <3>1. wt'[e] = wt[e]
        BY <2>2 DEF WaitInv
      <3> QED BY <1>2, <3>1 DEF WaitInv
    <2> QED BY <2>1, <2>2
  <1> QED BY <1>1, <1>2 DEF WaitInv

\* A wait takes no more than the count and the asking say, and stays a wait or ends.
LEMMA WaitSeen ==
  ASSUME WaitInv, NEW c \in Consumers, WaitStep(c), UNCHANGED <<unsignalled, dq, want>>
  PROVE  WaitInv'
  <1>1. wt[c] \in Waits /\ mcount \in Int /\ unsignalled' \in [Producing -> Int]
    BY DEF WaitInv
  <1>2. wt[c].at /= "idle"
    BY DEF WaitStep, TakeSome, TakeNone, TakeMore, Decrement, TakePost, TimeOut, LoadCount, NoPost, Undo
  <1>3. dq[c].at = "idle" /\ want[c] = 0
    BY <1>2 DEF WaitInv, Waiting
  <1>4. Awake \in Waits
    BY DEF Awake, Waits
  <1>5. \A n \in Int : [Awake EXCEPT !.got = n] \in Waits
    BY DEF Awake, Waits
  <1>6. PICK n \in Int : n = Taking(c)
    BY <1>1 DEF Taking, Waits
  <1>7. More(c) \in Waits
    <2>1. PICK m \in Int : m = wt[c].max - 1
      BY <1>1 DEF Waits
    <2>2. PICK at \in {"more", "idle"} : at = IF wt[c].max > 1 THEN "more" ELSE "idle"
      OBVIOUS
    <2>3. \A g \in Int : [Awake EXCEPT !.at = at, !.max = m, !.got = g] \in Waits
      BY <1>4, WaitFields
    <2>4. 1 \in Int
      OBVIOUS
    <2> QED BY <2>1, <2>2, <2>3, <2>4 DEF More
  <1>8. \A at \in {"spin", "asleep", "giveup", "trysem", "undo"} : [wt[c] EXCEPT !.at = at] \in Waits
    BY <1>1 DEF Waits
  <1>9. \E x \in Waits : wt' = [wt EXCEPT ![c] = x] /\ mcount' \in Int
    <2>1. CASE TakeSome(c)
      <3>1. wt' = [wt EXCEPT ![c] = [Awake EXCEPT !.got = n]] /\ mcount' = mcount - n
        BY <1>6, <2>1 DEF TakeSome
      <3>2. [Awake EXCEPT !.got = n] \in Waits /\ mcount' \in Int
        BY <1>1, <1>5, <3>1
      <3> QED BY <3>1, <3>2
    <2>2. CASE TakeNone(c)
      <3>1. wt' = [wt EXCEPT ![c] = Awake] \/ wt' = [wt EXCEPT ![c] = [wt[c] EXCEPT !.at = "spin"]]
        BY <2>2 DEF TakeNone
      <3> QED BY <1>1, <1>4, <1>8, <2>2, <3>1 DEF TakeNone
    <2>3. CASE TakeMore(c)
      <3>1. PICK m : m = IF mcount > 0 THEN Taking(c) ELSE 0
        OBVIOUS
      <3>2. m \in Int
        BY <1>6, <3>1
      <3>3. wt' = [wt EXCEPT ![c] = [Awake EXCEPT !.got = 1 + m]] /\ mcount' = mcount - m
        BY <2>3, <3>1 DEF TakeMore
      <3>4. 1 + m \in Int /\ mcount' \in Int
        BY <1>1, <3>2, <3>3
      <3> QED BY <1>5, <3>3, <3>4
    <2>4. CASE Decrement(c)
      <3>1. \/ wt' = [wt EXCEPT ![c] = More(c)]
            \/ \E at \in {"giveup", "asleep"} : wt' = [wt EXCEPT ![c] = [wt[c] EXCEPT !.at = at]]
        BY <2>4 DEF Decrement
      <3>2. mcount' \in Int
        BY <1>1, <2>4 DEF Decrement
      <3> QED BY <1>7, <1>8, <3>1, <3>2
    <2>5. CASE TakePost(c)
      BY <1>1, <1>7, <2>5 DEF TakePost
    <2>6. CASE TimeOut(c) \/ NoPost(c)
      <3>1. wt' = [wt EXCEPT ![c] = [wt[c] EXCEPT !.at = "giveup"]] /\ mcount' = mcount
        BY <2>6 DEF TimeOut, NoPost, Goes
      <3> QED BY <1>1, <1>8, <3>1
    <2>7. CASE LoadCount(c)
      <3>1. PICK at : at = IF mcount >= 0 THEN "trysem" ELSE "undo"
        OBVIOUS
      <3>2. PICK x : x = [wt[c] EXCEPT !.at = at, !.seen = mcount]
        OBVIOUS
      <3>3. wt' = [wt EXCEPT ![c] = x] /\ mcount' = mcount
        BY <2>7, <3>1, <3>2 DEF LoadCount
      <3>4. at \in {"trysem", "undo"}
        BY <3>1
      <3>5. x \in Waits
        BY <1>1, <3>2, <3>4 DEF Waits
      <3> QED BY <1>1, <3>3, <3>5
    <2>8. CASE Undo(c)
      <3>1. wt' = [wt EXCEPT ![c] = Awake] \/ wt' = [wt EXCEPT ![c] = [wt[c] EXCEPT !.at = "giveup"]]
        BY <2>8 DEF Undo, Goes
      <3>2. mcount' \in Int
        BY <1>1, <2>8 DEF Undo
      <3> QED BY <1>4, <1>8, <3>1, <3>2
    <2> QED BY <2>1, <2>2, <2>3, <2>4, <2>5, <2>6, <2>7, <2>8 DEF WaitStep
  <1> QED BY <1>1, <1>3, <1>9, WaitMoved

\* A dequeue goes on only while its consumer does not wait.
LEMMA DequeueApart ==
  ASSUME WaitInv, NEW c \in Consumers, NEW d, UNCHANGED <<mcount, unsignalled, wt>>,
         dq[c].at /= "idle" \/ want[c] /= 0,
         \A e \in Consumers \ {c} : dq'[e] = dq[e] /\ want'[e] = want[e]
  PROVE  WaitInv'
  BY DEF WaitInv

-----------------------------------------------------------------------------
(* The visits to producers' queues. *)

\* A step of one consumer at most tells the others that they met it.
LEMMA VisitMoved ==
  ASSUME VisitInv, NEW c \in Consumers, NEW v \in Visits, Inside(v, dq'[c], want'[c]),
         visit' \in [Consumers -> Visits], visit'[c] = v,
         \A e \in Consumers \ {c} :
           /\ dq'[e] = dq[e] /\ want'[e] = want[e]
           /\ visit'[e].from = visit[e].from /\ visit'[e].n = visit[e].n /\ visit'[e].all = visit[e].all
           /\ visit[e].met => visit'[e].met
  PROVE  VisitInv'
  <1>1. ASSUME NEW e \in Consumers PROVE Inside(visit[e], dq[e], want[e])'
    <2>1. CASE e = c
      BY <2>1
    <2>2. CASE e /= c
      <3>1. Inside(visit[e], dq[e], want[e])
        BY DEF VisitInv
      <3> QED BY <2>2, <3>1 DEF Inside
    <2> QED BY <2>1, <2>2
  <1> QED BY <1>1 DEF VisitInv

\* Whoever looks has reserved what it wants, or all there was, or met another consumer.
LEMMA LookVisits ==
  ASSUME QueueInv, VisitInv, NEW c \in Consumers, Look(c)
  PROVE  VisitInv'
  <1> DEFINE p == Target(c)
  <1>0. /\ tail \in Nat /\ dq[c] \in Calls /\ token[c] \in Tokens /\ want[c] \in Int
        /\ Seen(dq[c], token[c], want[c])
    BY OneCall
  <1>1. p \in 1 .. tail /\ p \in Nat
    BY <1>0 DEF Look, Target, Seen, Calls
  <1>2. size[p] \in Int
    BY <1>1, ListBound DEF QueueInv
  <1>3. PICK n \in 0 .. size[p] :
          /\ n <= want[c] /\ (n = want[c] \/ n = size[p] \/ Crowded(c, p))
          /\ visit' = [d \in Consumers |->
               IF d = c THEN [from |-> p, n |-> n, met |-> Crowded(c, p), all |-> n = size[p]]
               ELSE IF n > 0 /\ visit[d].from = p THEN [visit[d] EXCEPT !.met = TRUE] ELSE visit[d]]
    BY DEF Look
  <1> HIDE DEF p
  <1>4. Crowded(c, p) \in BOOLEAN
    BY DEF Crowded
  <1>5. PICK m \in BOOLEAN, a \in BOOLEAN : m = Crowded(c, p) /\ a = (n = size[p])
    BY <1>4
  <1>6. PICK v : v = [from |-> p, n |-> n, met |-> m, all |-> a]
    OBVIOUS
  <1>7. v \in Visits /\ v.from = p /\ v.n = n /\ v.met = m /\ v.all = a
    BY <1>1, <1>2, <1>3, <1>6 DEF Visits
  <1>8. visit'[c] = v
    BY <1>3, <1>5, <1>6
  <1>9. ASSUME NEW e \in Consumers, e /= c
        PROVE  /\ visit'[e] \in Visits /\ visit'[e].from = visit[e].from /\ visit'[e].n = visit[e].n
               /\ visit'[e].all = visit[e].all /\ (visit[e].met => visit'[e].met)
    <2>1. visit[e] \in Visits
      BY DEF VisitInv
    <2>2. visit'[e] = [visit[e] EXCEPT !.met = TRUE] \/ visit'[e] = visit[e]
      BY <1>3, <1>9
    <2> QED BY <2>1, <2>2 DEF Visits
  <1>10. visit' \in [Consumers -> Visits]
    <2>1. DOMAIN visit' = Consumers /\ visit' = [e \in Consumers |-> visit'[e]]
      BY <1>3
    <2>2. \A e \in Consumers : visit'[e] \in Visits
      BY <1>7, <1>8, <1>9
    <2> QED BY <2>1, <2>2
  <1>11. dq' = dq /\ want' = want /\ dq[c].at \in {"best", "sweep", "current", "around"}
         /\ (dq[c].at = "sweep" => dq[c].ptr /= dq[c].best)
    BY DEF Look
  <1>12. Inside(v, dq'[c], want'[c])
    BY <1>3, <1>5, <1>7, <1>11 DEF Inside
  <1> QED BY <1>7, <1>8, <1>9, <1>10, <1>11, <1>12, VisitMoved

\* Every other step is outside, or leaves.
LEMMA OutsideVisits ==
  ASSUME VisitInv, NEW c \in Consumers,
         \/ visit' = [visit EXCEPT ![c] = Outside]
         \/ visit' = visit /\ visit[c].from = 0,
         \A e \in Consumers \ {c} : dq'[e] = dq[e] /\ want'[e] = want[e]
  PROVE  VisitInv'
  <1>1. Outside \in Visits /\ Outside.from = 0
    BY DEF Outside, Visits
  <1>2. visit' \in [Consumers -> Visits] /\ visit'[c].from = 0 /\ visit'[c] \in Visits
    BY <1>1 DEF VisitInv
  <1>3. \A e \in Consumers \ {c} : visit'[e] = visit[e]
    BY DEF VisitInv
  <1>4. Inside(visit'[c], dq'[c], want'[c])
    BY <1>2 DEF Inside
  <1> QED BY <1>2, <1>3, <1>4, VisitMoved

\* A step that leaves the dequeues.
LEMMA VisitsStay ==
  ASSUME VisitInv, UNCHANGED <<dq, want, visit>>
  PROVE  VisitInv'
  BY DEF VisitInv

-----------------------------------------------------------------------------
(* The whole queue. *)

BlockInv == QueueInv /\ WaitInv /\ VisitInv

\* Nothing is listed, sought or waited for at the start.
LEMMA InitBlocked == BlockingInit => BlockInv
  <1> SUFFICES ASSUME BlockingInit PROVE BlockInv
    OBVIOUS
  <1>1. InList = {} /\ Cardinality(InList) = 0
    <2>1. InList = {}
      BY DEF BlockingInit, QueueInit, InList
    <2> QED BY <2>1, FS_EmptySet
  <1>2. ListInv
    BY <1>1 DEF BlockingInit, QueueInit, ListInv
  <1>3. Resting \in Calls /\ Resting.at = "idle" /\ Resting.start = 0
    BY DEF Resting, Calls, Places
  <1>4. ASSUME NEW c \in Consumers PROVE TokenInv(token[c]) /\ Seen(dq[c], token[c], want[c])
    <2>1. token[c] \in Tokens /\ token[c].desired = 0 /\ dq[c] = Resting /\ want[c] = 0 /\ tail = 0
      BY DEF BlockingInit, QueueInit, Tokens
    <2> QED BY <1>3, <2>1 DEF TokenInv, Seen
  <1>5. token \in [Consumers -> Tokens] /\ dq \in [Consumers -> Calls] /\ want \in [Consumers -> Int]
    BY <1>3 DEF BlockingInit, QueueInit, Tokens
  <1>6. size \in [1 .. MostProducers -> Int] /\ globalOffset \in Int
    BY DEF BlockingInit, QueueInit, MostProducers
  <1>7. WaitInv
    <2>1. Awake \in Waits /\ ~Waiting(Awake)
      BY DEF Awake, Waits, Waiting
    <2> QED BY <2>1, BlockingAssumption DEF BlockingInit, SemaInit, WaitInv
  <1>8. VisitInv
    <2>1. Outside \in Visits /\ Outside.from = 0
      BY DEF Outside, Visits
    <2> QED BY <2>1 DEF BlockingInit, QueueInit, VisitInv, Inside
  <1> QED BY <1>2, <1>4, <1>5, <1>6, <1>7, <1>8 DEF BlockInv, QueueInv

\* A step that leaves the dequeues and what they know.
LEMMA QueueStays ==
  ASSUME QueueInv, UNCHANGED queueVars
  PROVE  QueueInv'
  <1>1. ListInv' /\ tail' \in Nat /\ tail' = tail /\ size' \in [1 .. MostProducers -> Int]
    BY DEF QueueInv, ListInv, InList, queueVars
  <1> QED BY <1>1, ListGrows DEF queueVars, QueueInv, ListInv

\* The permits become what the consumer wants.
LEMMA PermittedSeen ==
  ASSUME BlockInv, NEW c \in Consumers, Permitted(c)
  PROVE  BlockInv'
  <1>1. wt[c] \in Waits /\ wt[c].got > 0 /\ wt[c].got \in Int
    BY DEF BlockInv, WaitInv, Permitted, Waits
  <1>2. dq[c].at = "idle" /\ want[c] = 0
    BY <1>1 DEF BlockInv, WaitInv, Waiting
  <1>3. PICK w \in Int : w = wt[c].got
    BY <1>1
  <1>4. Seen(dq[c], token[c], w) /\ TokenInv(token[c])
    BY <1>2, OneCall DEF BlockInv, Seen
  <1>5. /\ dq' = [dq EXCEPT ![c] = dq[c]] /\ token' = [token EXCEPT ![c] = token[c]]
        /\ want' = [want EXCEPT ![c] = w]
    BY <1>3 DEF Permitted, BlockInv, QueueInv
  <1>6. QueueInv'
    BY <1>4, <1>5, CallMoved DEF Permitted, BlockInv, QueueInv, listVars
  <1>7. Awake \in Waits /\ ~Waiting(Awake) /\ wt' = [wt EXCEPT ![c] = Awake]
    BY DEF Awake, Waits, Waiting, Permitted
  <1>8. \A e \in Consumers \ {c} : wt'[e] = wt[e] /\ want'[e] = want[e] /\ dq'[e] = dq[e]
    BY <1>5, <1>7 DEF BlockInv, WaitInv, QueueInv
  <1>9. ~Waiting(wt'[c]) /\ wt' \in [Consumers -> Waits]
    BY <1>7 DEF BlockInv, WaitInv
  <1>10. mcount' \in Int /\ unsignalled' \in [Producing -> Int]
    BY DEF Permitted, BlockInv, WaitInv
  <1>11. WaitInv'
    BY <1>8, <1>9, <1>10 DEF BlockInv, WaitInv
  <1>12. visit' = visit /\ visit[c].from = 0
    BY <1>2 DEF Permitted, BlockInv, VisitInv, Inside
  <1>13. VisitInv'
    BY <1>8, <1>12, OutsideVisits DEF BlockInv
  <1> QED BY <1>6, <1>11, <1>13 DEF BlockInv

\* Of a dequeue's variables a step of consumer c changes its own only.
LEMMA OthersRest ==
  ASSUME BlockInv, NEW c \in Consumers, DequeueStep(c) \/ \E bulk \in BOOLEAN : Begin(c, bulk)
  PROVE  /\ dq[c].at /= "idle" \/ want[c] /= 0
         /\ \A e \in Consumers \ {c} : dq'[e] = dq[e] /\ want'[e] = want[e]
  <1>1. want[c] \in Int
    BY DEF BlockInv, QueueInv
  <1>2. dq[c].at /= "idle" \/ want[c] /= 0
    <2>1. CASE DequeueStep(c)
      BY <2>1 DEF DequeueStep, Look, Score, Best, Reload, Sweep, RotateTail, RotateOffset, Current, NextTail,
         Around, Resume
    <2>2. CASE \E bulk \in BOOLEAN : Begin(c, bulk)
      <3>1. want[c] > 0
        BY <2>2 DEF Begin
      <3> QED BY <1>1, <3>1
    <2> QED BY <2>1, <2>2
  <1>3. ASSUME NEW e \in Consumers, e /= c PROVE dq'[e] = dq[e]
    BY <1>3 DEF DequeueStep, Look, Score, Best, Reload, Sweep, RotateTail, RotateOffset, Current, NextTail, Around,
       Resume, Begin, Move, BlockInv, QueueInv
  <1>4. ASSUME NEW e \in Consumers, e /= c PROVE want'[e] = want[e]
    BY <1>4 DEF DequeueStep, Look, Score, Best, Reload, Sweep, RotateTail, RotateOffset, Current, NextTail, Around,
       Resume, Begin, DequeueFrom, BlockInv, QueueInv
  <1> QED BY <1>2, <1>3, <1>4

\* Every step of a dequeue keeps what is known of the visits.
LEMMA StepVisits ==
  ASSUME BlockInv, NEW c \in Consumers, DequeueStep(c) \/ \E bulk \in BOOLEAN : Begin(c, bulk)
  PROVE  VisitInv'
  <1>1. \A e \in Consumers \ {c} : dq'[e] = dq[e] /\ want'[e] = want[e]
    BY OthersRest
  <1>2. VisitInv /\ QueueInv /\ Inside(visit[c], dq[c], want[c])
    BY DEF BlockInv, VisitInv
  <1>3. CASE Look(c)
    BY <1>2, <1>3, LookVisits
  <1>4. CASE \/ \E p, m : DequeueFrom(c, p, m)
             \/ visit' = visit /\ visit[c].from = 0
    <2>1. visit' = [visit EXCEPT ![c] = Outside] \/ (visit' = visit /\ visit[c].from = 0)
      BY <1>4 DEF DequeueFrom
    <2> QED BY <1>1, <1>2, <2>1, OutsideVisits
  <1>5. CASE Best(c) \/ Current(c) \/ Around(c)
    <2>1. \E p, m : DequeueFrom(c, p, m)
      BY <1>5 DEF Best, Current, Around
    <2> QED BY <1>4, <2>1
  <1>6. CASE Sweep(c)
    <2>1. CASE dq[c].ptr = dq[c].best
      <3>1. visit' = visit /\ visit[c].from = 0
        BY <1>2, <1>6, <2>1 DEF Sweep, Inside
      <3> QED BY <1>4, <3>1
    <2>2. CASE dq[c].ptr /= dq[c].best
      <3>1. \E p, m : DequeueFrom(c, p, m)
        BY <1>6, <2>2 DEF Sweep
      <3> QED BY <1>4, <3>1
    <2> QED BY <2>1, <2>2
  <1>7. CASE \/ Score(c) \/ Reload(c) \/ RotateTail(c) \/ RotateOffset(c) \/ NextTail(c) \/ Resume(c)
             \/ \E bulk \in BOOLEAN : Begin(c, bulk)
    <2>1. visit' = visit /\ dq[c].at \notin {"best", "sweep", "current", "around"}
      BY <1>7 DEF Score, Reload, RotateTail, RotateOffset, NextTail, Resume, Begin
    <2>2. visit[c].from = 0
      BY <1>2, <2>1 DEF Inside
    <2> QED BY <1>4, <2>1, <2>2
  <1> QED BY <1>3, <1>5, <1>6, <1>7 DEF DequeueStep

LEMMA StepBlocked == BlockInv /\ [BlockingNext]_blockingVars => BlockInv'
  <1> SUFFICES ASSUME BlockInv, [BlockingNext]_blockingVars PROVE BlockInv'
    OBVIOUS
  <1>1. CASE UNCHANGED blockingVars
    BY <1>1, QueueStays, VisitsStay DEF blockingVars, semaVars, queueVars, BlockInv, WaitInv
  <1>2. ASSUME NEW s \in Producing, Enroll(s) PROVE BlockInv'
    BY <1>2, CountSeen, ListSeen, VisitsStay DEF Enroll, CountProducer, ListProducer, semaVars, BlockInv, WaitInv
  <1>3. ASSUME NEW s \in Producing, NEW n \in Puts, Enqueue(s, n) PROVE BlockInv'
    <2>1. n \in Int
      BY BlockingAssumption
    <2>2. QueueInv' /\ UNCHANGED <<mcount, wt, dq, want, visit>>
      BY <1>3, PutSeen DEF Enqueue, Put, semaVars, BlockInv
    <2>3. unsignalled' \in [Producing -> Int]
      BY <1>3, <2>1 DEF Enqueue, BlockInv, WaitInv
    <2> QED BY <2>2, <2>3, VisitsStay DEF BlockInv, WaitInv
  <1>4. ASSUME NEW s \in Producing, SignalPut(s) PROVE BlockInv'
    <2>1. QueueInv'
      BY <1>4, QueueStays DEF SignalPut, BlockInv
    <2>2. mcount' \in Int /\ unsignalled' \in [Producing -> Int] /\ UNCHANGED <<wt, dq, want, visit>>
      BY <1>4 DEF SignalPut, Signal, BlockInv, WaitInv, queueVars
    <2> QED BY <2>1, <2>2, VisitsStay DEF BlockInv, WaitInv
  <1>5. ASSUME NEW s \in Producing, PostPut(s) PROVE BlockInv'
    BY <1>5, QueueStays, VisitsStay DEF PostPut, Post, BlockInv, WaitInv, queueVars
  <1>6. ASSUME NEW c \in Consumers, NEW n \in Asks, NEW kind \in Kinds, Ask(c, n, kind) PROVE BlockInv'
    <2>1. QueueInv'
      BY <1>6, QueueStays DEF Ask, BlockInv
    <2>2. n \in Int /\ kind \in {"try", "ever", "timed", "zero"}
      BY BlockingAssumption
    <2>3. PICK x : x = [Awake EXCEPT !.at = "try", !.max = n, !.kind = kind]
      OBVIOUS
    <2>4. wt' = [wt EXCEPT ![c] = x]
      BY <1>6, <2>3 DEF Ask, Call
    <2>5. x \in Waits
      <3>1. Awake \in Waits
        BY DEF Awake, Waits
      <3> QED BY <2>2, <2>3, <3>1, WaitFields
    <2>6. WaitInv'
      BY <1>6, <2>4, <2>5, WaitMoved DEF Ask, Call, BlockInv, WaitInv, queueVars
    <2>7. VisitInv'
      BY <1>6, VisitsStay DEF Ask, BlockInv, queueVars
    <2> QED BY <2>1, <2>6, <2>7 DEF BlockInv
  <1>7. ASSUME NEW c \in Consumers, Wait(c) PROVE BlockInv'
    BY <1>7, QueueStays, WaitSeen, VisitsStay DEF Wait, BlockInv, queueVars
  <1>8. ASSUME NEW c \in Consumers, Permitted(c) PROVE BlockInv'
    BY <1>8, PermittedSeen
  <1>9. ASSUME NEW c \in Consumers, NEW bulk \in BOOLEAN, Turn(c, bulk) PROVE BlockInv'
    <2>1. QueueInv'
      BY <1>9, BeginSeen DEF Turn, BlockInv
    <2>2. WaitInv'
      BY <1>9, OthersRest, DequeueApart DEF Turn, BlockInv, semaVars
    <2>3. VisitInv'
      BY <1>9, StepVisits DEF Turn
    <2> QED BY <2>1, <2>2, <2>3 DEF BlockInv
  <1>10. ASSUME NEW c \in Consumers, Dequeue(c) PROVE BlockInv'
    <2>1. QueueInv'
      BY <1>10, StepSeen DEF Dequeue, BlockInv
    <2>2. WaitInv'
      BY <1>10, OthersRest, DequeueApart DEF Dequeue, BlockInv, semaVars
    <2>3. VisitInv'
      BY <1>10, StepVisits DEF Dequeue
    <2> QED BY <2>1, <2>2, <2>3 DEF BlockInv
  <1> QED BY <1>1, <1>2, <1>3, <1>4, <1>5, <1>6, <1>7, <1>8, <1>9, <1>10
          DEF BlockingNext, ProducerStep, ConsumerStep

-----------------------------------------------------------------------------
(* Sums.  Total counts pairs, so that adding a summand is a union of disjoint sets. *)

Units(f, S) == UNION {{x} \X (1 .. f[x]) : x \in S}

\* One summand's units, and all of them, are finitely many.
LEMMA UnitsOfOne ==
  ASSUME NEW x, NEW n \in Nat
  PROVE  IsFiniteSet({x} \X (1 .. n)) /\ Cardinality({x} \X (1 .. n)) = n
  <1>1. IsFiniteSet(1 .. n) /\ Cardinality(1 .. n) = n
    BY FS_Interval
  <1>2. IsFiniteSet({x}) /\ Cardinality({x}) = 1
    BY FS_Singleton
  <1>3. IsFiniteSet({x} \X (1 .. n)) /\ Cardinality({x} \X (1 .. n)) = Cardinality({x}) * Cardinality(1 .. n)
    BY <1>1, <1>2, FS_Product, Zenon
  <1> QED BY <1>1, <1>2, <1>3

LEMMA UnitsFinite ==
  ASSUME NEW S, IsFiniteSet(S), NEW f, \A x \in S : f[x] \in Nat
  PROVE  IsFiniteSet(Units(f, S)) /\ Cardinality(Units(f, S)) \in Nat
  <1> DEFINE of(x) == {x} \X (1 .. f[x])
             T == {of(x) : x \in S}
             h == [x \in S |-> of(x)]
  <1>1. h \in Surjection(S, T)
    <2> HIDE DEF of
    <2>1. h \in [S -> T] /\ \A t \in T : \E x \in S : h[x] = t
      OBVIOUS
    <2> QED BY <2>1 DEF Surjection
  <1>2. IsFiniteSet(T)
    BY <1>1, FS_Surjection
  <1>3. \A x \in S : IsFiniteSet(of(x))
    BY UnitsOfOne
  <1>4. IsFiniteSet(UNION T)
    BY <1>2, <1>3, FS_UNION
  <1> QED BY <1>4, FS_CardinalityType DEF Units

\* One more summand, whose units are apart from the others'.
LEMMA UnitsMore ==
  ASSUME NEW S, IsFiniteSet(S), NEW f, NEW x, x \notin S, \A y \in S \cup {x} : f[y] \in Nat
  PROVE  Cardinality(Units(f, S \cup {x})) = Cardinality(Units(f, S)) + f[x]
  <1> DEFINE A == Units(f, S)
             B == {x} \X (1 .. f[x])
  <1>1. IsFiniteSet(B) /\ Cardinality(B) = f[x]
    BY UnitsOfOne
  <1>2. IsFiniteSet(A) /\ Cardinality(A) \in Nat
    BY UnitsFinite
  <1>3. Units(f, S \cup {x}) = A \cup B /\ A \cap B = {}
    <2>1. \A R, u : u \in Units(f, R) <=> \E y \in R : u \in {y} \X (1 .. f[y])
      BY DEF Units
    <2>2. A \cap B = {}
      BY <2>1
    <2>3. \A u : u \in Units(f, S \cup {x}) <=> u \in A \cup B
      BY <2>1
    <2> QED BY <2>2, <2>3
  <1>4. Cardinality(A \cup B) = Cardinality(A) + Cardinality(B) - Cardinality(A \cap B)
    BY <1>1, <1>2, FS_Union, Zenon
  <1>5. Cardinality(A \cap B) = 0
    BY <1>3, FS_EmptySet, Zenon
  <1>6. Cardinality(Units(f, S \cup {x})) = Cardinality(A \cup B)
    BY <1>3
  <1> QED
    <2> HIDE DEF A, B
    <2> QED BY <1>1, <1>2, <1>4, <1>5, <1>6 DEF A

\* A sum of natural numbers in which one changes.
OneChanges(f, g, D, x) ==
  f \in [D -> Nat] /\ g \in [D -> Nat] /\ x \in D /\ \A y \in D : y /= x => g[y] = f[y]
LEMMA TotalStep ==
  ASSUME NEW D, IsFiniteSet(D), NEW f, NEW g, NEW x, OneChanges(f, g, D, x)
  PROVE  /\ Total(f, D) \in Nat /\ Total(g, D) \in Nat
         /\ Total(g, D) = Total(f, D) - f[x] + g[x]
  <1> DEFINE S == D \ {x}
  <1> USE DEF OneChanges
  <1>1. Units(g, S) = Units(f, S)
    BY DEF Units
  <1>2. IsFiniteSet(S) /\ S \cup {x} = D /\ x \notin S
    BY FS_Subset
  <1>3. Cardinality(Units(f, S)) \in Nat
    BY <1>2, UnitsFinite
  <1>4. Cardinality(Units(f, S \cup {x})) = Cardinality(Units(f, S)) + f[x]
    BY <1>2, UnitsMore
  <1>5. Cardinality(Units(g, S \cup {x})) = Cardinality(Units(g, S)) + g[x]
    BY <1>2, UnitsMore
  <1>6. /\ Cardinality(Units(f, D)) = Cardinality(Units(f, S)) + f[x]
        /\ Cardinality(Units(g, D)) = Cardinality(Units(f, S)) + g[x]
    BY <1>1, <1>2, <1>4, <1>5, Zenon
  <1>7. Total(f, D) = Cardinality(Units(f, D)) /\ Total(g, D) = Cardinality(Units(g, D))
    BY DEF Total, Units
  <1> QED BY <1>3, <1>6, <1>7

\* A sum of nothing.
LEMMA TotalZero ==
  ASSUME NEW D, NEW f, \A x \in D : f[x] = 0
  PROVE  Total(f, D) = 0
  <1>1. Units(f, D) = {}
    <2>1. \A x \in D : 1 .. f[x] = {}
      OBVIOUS
    <2>2. ASSUME NEW u, NEW x \in D, u \in {x} \X (1 .. f[x]) PROVE FALSE
      BY <2>1, <2>2
    <2> QED BY <2>2 DEF Units
  <1> QED BY <1>1, FS_EmptySet DEF Total, Units

-----------------------------------------------------------------------------
(* Elements, permits and posts. *)

OwedAt == {"asleep", "giveup", "trysem", "undo"}
Owes(x) == IF x.at \in OwedAt THEN 1 ELSE 0
Debt(n) == IF n < 0 THEN -n ELSE 0

\* A wait has permits only when it ends, or the first of several before it takes the rest; and it
\* takes its decrement back only from a count that shows a debt.
Fits(x) ==
  /\ x.got \in Nat /\ (x.at /= "idle" => x.max \in Nat \ {0})
  /\ x.at \in OwedAt \cup {"try", "spin"} => x.got = 0
  /\ x.at = "more" => x.got = 1
  /\ x.at = "undo" => x.seen < 0

CountInv ==
  /\ sema \in Nat /\ posting \in [Producing -> Nat] /\ unsignalled \in [Producing -> Nat]
  /\ size \in [1 .. MostProducers -> Nat] /\ want \in [Consumers -> Nat]
  /\ \A c \in Consumers : Fits(wt[c])
  /\ SleepersCovered /\ PermitForEachElement

\* The sums are numbers.
LEMMA Sums ==
  ASSUME BlockInv, CountInv
  PROVE  /\ Cardinality(Owed) \in Nat /\ IsFiniteSet(Owed) /\ mcount \in Int
         /\ IsFiniteSet(Producing) /\ IsFiniteSet(Consumers) /\ IsFiniteSet(1 .. MostProducers)
         /\ Signallers = Producing /\ Waiters = Consumers /\ DOMAIN size = 1 .. MostProducers
         /\ Permits \in [Consumers -> Nat]
         /\ Held \in Nat /\ Elements \in Nat
         /\ Total(posting, Producing) \in Nat /\ Total(unsignalled, Producing) \in Nat
  <1>1. IsFiniteSet(Producing) /\ IsFiniteSet(Consumers) /\ Signallers = Producing /\ Waiters = Consumers
    BY QueueAssumption, BlockingAssumption
  <1>2. IsFiniteSet(Owed) /\ Cardinality(Owed) \in Nat
    <2>1. Owed \subseteq Consumers
      BY <1>1 DEF Owed
    <2> QED BY <1>1, <2>1, FS_Subset, FS_CardinalityType
  <1>3. Permits \in [Consumers -> Nat]
    <2>1. \A c \in Consumers : wt[c].got + want[c] \in Nat
      BY DEF CountInv, Fits
    <2> QED BY <2>1 DEF Permits
  <1>4. MostProducers \in Nat /\ IsFiniteSet(1 .. MostProducers) /\ DOMAIN size = 1 .. MostProducers
    BY <1>1, FS_CardinalityType, FS_Interval DEF MostProducers, CountInv
  <1>5. \A D, f : IsFiniteSet(D) /\ f \in [D -> Nat] => Total(f, D) \in Nat
    BY UnitsFinite DEF Total, Units
  <1> QED BY <1>1, <1>2, <1>3, <1>4, <1>5 DEF CountInv, Held, Elements, BlockInv, WaitInv

\* Wherever a wait gets one permit by itself it ends, or goes on for the rest.
LEMMA MoreFits ==
  ASSUME NEW c \in Consumers, wt[c] \in Waits, Fits(wt[c]), wt[c].at /= "idle"
  PROVE  More(c) \in Waits /\ Fits(More(c)) /\ Owes(More(c)) = 0 /\ More(c).got = 1
  <1>1. PICK m \in Int : m = wt[c].max - 1
    BY DEF Waits
  <1>2. PICK at \in {"more", "idle"} : at = IF wt[c].max > 1 THEN "more" ELSE "idle"
    OBVIOUS
  <1>3. at = "more" => m \in Nat \ {0}
    BY <1>1, <1>2 DEF Fits
  <1>4. PICK y : y = [Awake EXCEPT !.at = at, !.max = m, !.got = 1]
    OBVIOUS
  <1>5. More(c) = y
    BY <1>1, <1>2, <1>4 DEF More
  <1>6. y = [at |-> at, max |-> m, kind |-> "ever", seen |-> 0, got |-> 1]
    BY <1>4 DEF Awake
  <1>7. y \in Waits /\ y.at = at /\ y.max = m /\ y.got = 1
    BY <1>6 DEF Waits
  <1>8. Fits(y) /\ Owes(y) = 0
    BY <1>3, <1>7 DEF Fits, Owes, OwedAt
  <1> QED BY <1>5, <1>7, <1>8

\* Awake with n permits.
LEMMA AwakeFits ==
  ASSUME NEW n \in Nat
  PROVE  \A y : y = [Awake EXCEPT !.got = n] => y \in Waits /\ Fits(y) /\ Owes(y) = 0 /\ y.got = n
  <1>1. PICK y : y = [Awake EXCEPT !.got = n]
    OBVIOUS
  <1>2. y = [at |-> "idle", max |-> 1, kind |-> "ever", seen |-> 0, got |-> n]
    BY <1>1 DEF Awake
  <1>3. y \in Waits /\ y.at = "idle" /\ y.got = n
    BY <1>2 DEF Waits
  <1> QED BY <1>1, <1>3 DEF Fits, Owes, OwedAt

\* What a wait that becomes y owes is what the posts and the debt change by, and what it gains is
\* what the count loses.
Slept(c, y) == Owes(y) - Owes(wt[c]) = (sema' - sema) + Debt(mcount') - Debt(mcount)
Moved(c, y) == (mcount' - mcount) + (Owes(y) - Owes(wt[c])) + (y.got - wt[c].got) = 0

\* A step of one consumer's wait: what it gains is what the count and the posts lose.
LEMMA WaitBalanced ==
  ASSUME BlockInv, CountInv, NEW c \in Consumers, NEW y \in Waits, Fits(y), wt' = [wt EXCEPT ![c] = y],
         UNCHANGED <<posting, unsignalled, size, want>>, sema' \in Nat, mcount' \in Int,
         Slept(c, y), Moved(c, y)
  PROVE  CountInv'
  <1>0. wt \in [Consumers -> Waits] /\ wt[c].got \in Nat /\ y.got \in Nat /\ want \in [Consumers -> Nat]
    BY DEF BlockInv, WaitInv, CountInv, Fits
  <1>1. \A e \in Consumers : Fits(wt'[e])
    BY <1>0 DEF CountInv
  <1>2. Held' = Held - wt[c].got + y.got
    <2>1. Permits' \in [Consumers -> Nat]
      <3>1. \A e \in Consumers : wt'[e].got + want[e] \in Nat
        BY <1>0, <1>1 DEF Fits
      <3> QED BY <3>1 DEF Permits
    <2>2. \A e \in Consumers : e /= c => Permits'[e] = Permits[e]
      BY <1>0 DEF Permits
    <2>3. Permits[c] = wt[c].got + want[c] /\ Permits'[c] = y.got + want[c]
      BY <1>0 DEF Permits
    <2>4. Total(Permits', Consumers) = Total(Permits, Consumers) - Permits[c] + Permits'[c]
      <3>1. PICK f, g : f = Permits /\ g = Permits'
        OBVIOUS
      <3>2. f \in [Consumers -> Nat] /\ g \in [Consumers -> Nat] /\ \A e \in Consumers : e /= c => g[e] = f[e]
        BY <2>1, <2>2, <3>1, Sums
      <3>4. IsFiniteSet(Consumers)
        BY Sums
      <3>9. OneChanges(f, g, Consumers, c)
        BY <3>2, <3>4 DEF OneChanges
      <3>3. Total(g, Consumers) = Total(f, Consumers) - f[c] + g[c]
        BY <3>9, <3>4, TotalStep
      <3> QED BY <3>1, <3>3
    <2>5. Total(Permits, Consumers) \in Nat
      BY Sums DEF Held
    <2> QED BY <1>0, <2>3, <2>4, <2>5 DEF Held
  <1>3. Cardinality(Owed)' = Cardinality(Owed) - Owes(wt[c]) + Owes(y)
    <2>1. Owed \subseteq Consumers /\ Waiters = Consumers /\ IsFiniteSet(Owed) /\ Cardinality(Owed) \in Nat
      BY Sums DEF Owed
    <2>2. CASE y.at \in OwedAt
      <3>1. Owed' = Owed \cup {c}
        BY <1>0, <2>1, <2>2 DEF Owed, OwedAt
      <3>2. Owes(y) = 1 /\ (c \in Owed => Owes(wt[c]) = 1) /\ (c \notin Owed => Owes(wt[c]) = 0)
        BY <2>1, <2>2 DEF Owes, Owed, OwedAt
      <3>3. Cardinality(Owed \cup {c}) = IF c \in Owed THEN Cardinality(Owed) ELSE Cardinality(Owed) + 1
        BY <2>1, FS_AddElement
      <3> QED BY <2>1, <3>1, <3>2, <3>3
    <2>3. CASE y.at \notin OwedAt
      <3>1. Owed' = Owed \ {c}
        BY <1>0, <2>1, <2>3 DEF Owed, OwedAt
      <3>2. Owes(y) = 0 /\ (c \in Owed => Owes(wt[c]) = 1) /\ (c \notin Owed => Owes(wt[c]) = 0)
        BY <2>1, <2>3 DEF Owes, Owed, OwedAt
      <3>3. Cardinality(Owed \ {c}) = IF c \in Owed THEN Cardinality(Owed) - 1 ELSE Cardinality(Owed)
        BY <2>1, FS_RemoveElement
      <3> QED BY <2>1, <3>1, <3>2, <3>3
    <2> QED BY <2>2, <2>3
  <1>4. /\ Elements' = Elements /\ Total(posting, Signallers)' = Total(posting, Signallers)
        /\ Total(unsignalled, Producing)' = Total(unsignalled, Producing)
    BY DEF Elements
  <1>5. Owes(y) \in Int /\ Owes(wt[c]) \in Int
    BY DEF Owes
  <1>6. SleepersCovered'
    <2>1. Cardinality(Owed) = sema + Total(posting, Producing) + Debt(mcount)
      BY Sums DEF CountInv, SleepersCovered, Debt
    <2>3. Debt(mcount) \in Int /\ Debt(mcount') \in Int /\ sema \in Int
      BY Sums DEF Debt, CountInv
    <2>4. PICK a \in Int, b \in Int : a = Owes(y) /\ b = Owes(wt[c])
      BY <1>5
    <2>5. PICK o \in Int, p \in Int : o = Cardinality(Owed) /\ p = Total(posting, Producing)
      BY Sums
    <2>6. Cardinality(Owed)' = o - b + a /\ Total(posting, Producing)' = p /\ o = sema + p + Debt(mcount)
      BY <1>3, <1>4, <2>1, <2>4, <2>5, Sums
    <2>7. a - b = (sema' - sema) + Debt(mcount') - Debt(mcount)
      BY <2>4 DEF Slept
    <2>8. o - b + a = sema' + p + Debt(mcount')
      BY <2>3, <2>6, <2>7
    <2>2. Cardinality(Owed)' = sema' + Total(posting, Producing)' + Debt(mcount')
      BY <2>6, <2>8
    <2> QED BY <2>2, Sums DEF SleepersCovered, Debt
  <1>7. PermitForEachElement'
    <2>1. Elements = mcount + Cardinality(Owed) + Held + Total(unsignalled, Producing)
      BY DEF CountInv, PermitForEachElement
    <2>3. PICK a \in Int, b \in Int, h \in Int, h1 \in Int :
            a = Owes(y) /\ b = Owes(wt[c]) /\ h = wt[c].got /\ h1 = y.got
      BY <1>0, <1>5
    <2>9. PICK m \in Int, m1 \in Int : m = mcount /\ m1 = mcount'
      BY Sums
    <2>4. (m1 - m) + (a - b) + (h1 - h) = 0
      BY <2>3, <2>9 DEF Moved
    <2>5. Cardinality(Owed)' = Cardinality(Owed) - b + a /\ Held' = Held - h + h1
      BY <1>2, <1>3, <2>3
    <2>6. PICK o \in Int, p \in Int, e \in Int, u \in Int :
            o = Cardinality(Owed) /\ p = Held /\ e = Elements /\ u = Total(unsignalled, Producing)
      BY Sums
    <2>8. e = m + o + p + u
      BY <2>1, <2>6, <2>9
    <2>7. e = m1 + (o - b + a) + (p - h + h1) + u
      BY <2>4, <2>8
    <2>2. Elements' = mcount' + Cardinality(Owed)' + Held' + Total(unsignalled, Producing)'
      BY <1>4, <2>5, <2>6, <2>7, <2>9
    <2> QED BY <2>2 DEF PermitForEachElement
  <1> QED BY <1>1, <1>6, <1>7 DEF CountInv

\* Every step of a wait keeps the counts.
LEMMA WaitCounted ==
  ASSUME BlockInv, CountInv, NEW c \in Consumers, Wait(c)
  PROVE  CountInv'
  <1>0. /\ wt \in [Consumers -> Waits] /\ wt[c] \in Waits /\ Fits(wt[c]) /\ mcount \in Int /\ sema \in Nat
        /\ wt[c].got \in Nat /\ UNCHANGED <<unsignalled, size, want>>
    BY DEF BlockInv, WaitInv, CountInv, Wait, queueVars, Fits
  <1>1. \A n \in Int : Debt(n) \in Int
    BY DEF Debt
  <1>2. [Awake EXCEPT !.got = 0] = Awake /\ 0 \in Nat
    BY DEF Awake
  <1>3. Awake \in Waits /\ Fits(Awake) /\ Owes(Awake) = 0 /\ Awake.got = 0
    BY <1>2, AwakeFits
  <1>4. CASE TakeSome(c)
    <2>1. wt[c].got = 0 /\ Owes(wt[c]) = 0 /\ wt[c].max \in Nat \ {0} /\ mcount > 0
      BY <1>0, <1>4 DEF TakeSome, Fits, Owes, OwedAt
    <2>2. PICK n \in Nat : n = Taking(c) /\ n <= mcount
      BY <1>0, <2>1 DEF Taking
    <2>3. PICK y : y = [Awake EXCEPT !.got = n]
      OBVIOUS
    <2>4. y \in Waits /\ Fits(y) /\ Owes(y) = 0 /\ y.got = n
      BY <2>3, AwakeFits
    <2>5. wt' = [wt EXCEPT ![c] = y] /\ mcount' = mcount - n /\ sema' = sema /\ posting' = posting
      BY <1>4, <2>2, <2>3 DEF TakeSome
    <2>6. Debt(mcount) = 0 /\ Debt(mcount') = 0 /\ mcount' \in Int
      BY <1>0, <2>1, <2>2, <2>5 DEF Debt
    <2>20. Slept(c, y) /\ Moved(c, y)
      BY <1>0, <2>1, <2>4, <2>5, <2>6 DEF Slept, Moved
    <2> QED BY <1>0, <2>1, <2>4, <2>5, <2>6, <2>20, WaitBalanced
  <1>5. CASE TakeNone(c)
    <2>1. wt[c].got = 0 /\ Owes(wt[c]) = 0 /\ UNCHANGED <<mcount, sema, posting>>
      BY <1>0, <1>5 DEF TakeNone, Fits, Owes, OwedAt
    <2>2. CASE wt[c].kind = "try"
      <3>1. wt' = [wt EXCEPT ![c] = Awake]
        BY <1>5, <2>2 DEF TakeNone
      <3>20. Slept(c, Awake) /\ Moved(c, Awake)
        BY <1>0, <1>1, <1>3, <2>1, <3>1 DEF Slept, Moved
      <3> QED BY <1>0, <1>1, <1>3, <2>1, <3>1, <3>20, WaitBalanced
    <2>3. CASE wt[c].kind /= "try"
      <3>1. PICK y : y = [wt[c] EXCEPT !.at = "spin"]
        OBVIOUS
      <3>2. wt' = [wt EXCEPT ![c] = y]
        BY <1>5, <2>3, <3>1 DEF TakeNone
      <3>3. y \in Waits /\ y.at = "spin" /\ y.got = wt[c].got /\ y.max = wt[c].max
        BY <1>0, <3>1 DEF Waits
      <3>4. Fits(y) /\ Owes(y) = 0
        BY <1>0, <1>5, <2>1, <3>3 DEF Fits, Owes, OwedAt, TakeNone
      <3>20. Slept(c, y) /\ Moved(c, y)
        BY <1>0, <1>1, <2>1, <3>2, <3>3, <3>4 DEF Slept, Moved
      <3> QED BY <1>0, <1>1, <2>1, <3>2, <3>3, <3>4, <3>20, WaitBalanced
    <2> QED BY <2>2, <2>3
  <1>6. CASE TakeMore(c)
    <2>1. wt[c].got = 1 /\ Owes(wt[c]) = 0 /\ wt[c].max \in Nat \ {0}
      BY <1>0, <1>6 DEF TakeMore, Fits, Owes, OwedAt
    <2>2. PICK n \in Nat : n = (IF mcount > 0 THEN Taking(c) ELSE 0) /\ (n = 0 \/ n <= mcount)
      BY <1>0, <2>1 DEF Taking
    <2>3. PICK g \in Nat : g = 1 + n
      OBVIOUS
    <2>4. PICK y : y = [Awake EXCEPT !.got = g]
      OBVIOUS
    <2>5. y \in Waits /\ Fits(y) /\ Owes(y) = 0 /\ y.got = g
      BY <2>4, AwakeFits
    <2>6. wt' = [wt EXCEPT ![c] = y] /\ mcount' = mcount - n /\ sema' = sema /\ posting' = posting
      BY <1>6, <2>2, <2>3, <2>4 DEF TakeMore
    <2>7. Debt(mcount') = Debt(mcount) /\ mcount' \in Int /\ Debt(mcount) \in Int
      BY <1>0, <1>1, <2>2, <2>6 DEF Debt
    <2>20. Slept(c, y) /\ Moved(c, y)
      BY <1>0, <2>1, <2>3, <2>5, <2>6, <2>7 DEF Slept, Moved
    <2> QED BY <1>0, <2>1, <2>3, <2>5, <2>6, <2>7, <2>20, WaitBalanced
  <1>7. CASE Decrement(c)
    <2>1. wt[c].got = 0 /\ Owes(wt[c]) = 0 /\ wt[c].at = "spin"
      BY <1>0, <1>7 DEF Decrement, Fits, Owes, OwedAt
    <2>2. mcount' = mcount - 1 /\ mcount' \in Int /\ UNCHANGED <<sema, posting>>
      BY <1>0, <1>7 DEF Decrement
    <2>3. CASE mcount > 0
      <3>1. wt' = [wt EXCEPT ![c] = More(c)]
        BY <1>7, <2>3 DEF Decrement
      <3>2. More(c) \in Waits /\ Fits(More(c)) /\ Owes(More(c)) = 0 /\ More(c).got = 1
        BY <1>0, <2>1, MoreFits
      <3>3. Debt(mcount) = 0 /\ Debt(mcount') = 0
        BY <1>0, <2>2, <2>3 DEF Debt
      <3>20. Slept(c, More(c)) /\ Moved(c, More(c))
        BY <1>0, <2>1, <2>2, <3>1, <3>2, <3>3 DEF Slept, Moved
      <3> QED BY <1>0, <2>1, <2>2, <3>1, <3>2, <3>3, <3>20, WaitBalanced
    <2>4. CASE ~(mcount > 0)
      <3>1. PICK at \in {"giveup", "asleep"} : at = IF wt[c].kind = "zero" THEN "giveup" ELSE "asleep"
        OBVIOUS
      <3>2. PICK y : y = [wt[c] EXCEPT !.at = at]
        OBVIOUS
      <3>3. wt' = [wt EXCEPT ![c] = y]
        BY <1>7, <2>4, <3>1, <3>2 DEF Decrement
      <3>4. y \in Waits /\ y.at = at /\ y.got = 0 /\ y.max = wt[c].max
        BY <1>0, <2>1, <3>2 DEF Waits
      <3>5. Fits(y) /\ Owes(y) = 1
        BY <1>0, <2>1, <3>1, <3>4 DEF Fits, Owes, OwedAt
      <3>6. Debt(mcount') = Debt(mcount) + 1 /\ Debt(mcount) \in Int
        BY <1>0, <2>2, <2>4 DEF Debt
      <3>20. Slept(c, y) /\ Moved(c, y)
        BY <1>0, <2>1, <2>2, <3>3, <3>4, <3>5, <3>6 DEF Slept, Moved
      <3> QED BY <1>0, <2>1, <2>2, <3>3, <3>4, <3>5, <3>6, <3>20, WaitBalanced
    <2> QED BY <2>3, <2>4
  <1>8. CASE TakePost(c)
    <2>1. wt[c].got = 0 /\ Owes(wt[c]) = 1 /\ wt[c].at /= "idle"
      BY <1>0, <1>8 DEF TakePost, Fits, Owes, OwedAt
    <2>2. sema' = sema - 1 /\ sema' \in Nat /\ UNCHANGED <<mcount, posting>> /\ wt' = [wt EXCEPT ![c] = More(c)]
      BY <1>0, <1>8 DEF TakePost
    <2>3. More(c) \in Waits /\ Fits(More(c)) /\ Owes(More(c)) = 0 /\ More(c).got = 1
      BY <1>0, <2>1, MoreFits
    <2>20. Slept(c, More(c)) /\ Moved(c, More(c))
      BY <1>0, <1>1, <2>1, <2>2, <2>3 DEF Slept, Moved
    <2> QED BY <1>0, <1>1, <2>1, <2>2, <2>3, <2>20, WaitBalanced
  <1>9. CASE TimeOut(c) \/ NoPost(c) \/ LoadCount(c)
    <2>1. wt[c].got = 0 /\ Owes(wt[c]) = 1 /\ UNCHANGED <<mcount, sema, posting>> /\ wt[c].max \in Nat \ {0}
      BY <1>0, <1>9 DEF TimeOut, NoPost, LoadCount, Fits, Owes, OwedAt
    <2>2. \E y \in Waits : wt' = [wt EXCEPT ![c] = y] /\ Fits(y) /\ Owes(y) = 1 /\ y.got = 0
      <3>1. CASE TimeOut(c) \/ NoPost(c)
        <4>1. PICK y : y = [wt[c] EXCEPT !.at = "giveup"]
          OBVIOUS
        <4>2. wt' = [wt EXCEPT ![c] = y]
          BY <3>1, <4>1 DEF TimeOut, NoPost, Goes
        <4>3. y \in Waits /\ y.at = "giveup" /\ y.got = 0 /\ y.max = wt[c].max
          BY <1>0, <2>1, <4>1 DEF Waits
        <4>4. Fits(y) /\ Owes(y) = 1
          BY <2>1, <4>3 DEF Fits, Owes, OwedAt
        <4> QED BY <4>2, <4>3, <4>4
      <3>2. CASE LoadCount(c)
        <4>1. PICK at \in {"trysem", "undo"} : at = IF mcount >= 0 THEN "trysem" ELSE "undo"
          OBVIOUS
        <4>2. PICK y : y = [wt[c] EXCEPT !.at = at, !.seen = mcount]
          OBVIOUS
        <4>3. wt' = [wt EXCEPT ![c] = y]
          BY <3>2, <4>1, <4>2 DEF LoadCount
        <4>4. y \in Waits /\ y.at = at /\ y.got = 0 /\ y.max = wt[c].max /\ y.seen = mcount
          BY <1>0, <2>1, <4>2 DEF Waits
        <4>5. Fits(y) /\ Owes(y) = 1
          BY <1>0, <2>1, <4>1, <4>4 DEF Fits, Owes, OwedAt
        <4> QED BY <4>3, <4>4, <4>5
      <3> QED BY <1>9, <3>1, <3>2
    <2>3. PICK y \in Waits : wt' = [wt EXCEPT ![c] = y] /\ Fits(y) /\ Owes(y) = 1 /\ y.got = 0
      BY <2>2
    <2>20. Slept(c, y) /\ Moved(c, y)
      BY <1>0, <1>1, <2>1, <2>3 DEF Slept, Moved
    <2> QED BY <1>0, <1>1, <2>1, <2>3, <2>20, WaitBalanced
  <1>10. CASE Undo(c)
    <2>1. wt[c].got = 0 /\ Owes(wt[c]) = 1 /\ UNCHANGED <<sema, posting>> /\ wt[c].max \in Nat \ {0} /\ wt[c].seen < 0
      BY <1>0, <1>10 DEF Undo, Fits, Owes, OwedAt
    <2>2. CASE mcount = wt[c].seen
      <3>1. mcount' = mcount + 1 /\ wt' = [wt EXCEPT ![c] = Awake]
        BY <1>10, <2>2 DEF Undo
      <3>2. Debt(mcount') = Debt(mcount) - 1 /\ mcount' \in Int /\ Debt(mcount) \in Int
        BY <1>0, <2>1, <2>2, <3>1 DEF Debt
      <3>20. Slept(c, Awake) /\ Moved(c, Awake)
        BY <1>0, <1>3, <2>1, <3>1, <3>2 DEF Slept, Moved
      <3> QED BY <1>0, <1>3, <2>1, <3>1, <3>2, <3>20, WaitBalanced
    <2>3. CASE mcount /= wt[c].seen
      <3>1. PICK y : y = [wt[c] EXCEPT !.at = "giveup"]
        OBVIOUS
      <3>2. wt' = [wt EXCEPT ![c] = y] /\ mcount' = mcount
        BY <1>10, <2>3, <3>1 DEF Undo, Goes
      <3>3. y \in Waits /\ y.at = "giveup" /\ y.got = 0 /\ y.max = wt[c].max
        BY <1>0, <2>1, <3>1 DEF Waits
      <3>4. Fits(y) /\ Owes(y) = 1
        BY <2>1, <3>3 DEF Fits, Owes, OwedAt
      <3>20. Slept(c, y) /\ Moved(c, y)
        BY <1>0, <1>1, <2>1, <3>2, <3>3, <3>4 DEF Slept, Moved
      <3> QED BY <1>0, <1>1, <2>1, <3>2, <3>3, <3>4, <3>20, WaitBalanced
    <2> QED BY <2>2, <2>3
  <1> QED BY <1>4, <1>5, <1>6, <1>7, <1>8, <1>9, <1>10 DEF Wait, WaitStep

\* A call begins with nothing.
LEMMA AskCounted ==
  ASSUME BlockInv, CountInv, NEW c \in Consumers, NEW n \in Asks, NEW kind \in Kinds, Ask(c, n, kind)
  PROVE  CountInv'
  <1>0. /\ wt \in [Consumers -> Waits] /\ wt[c] \in Waits /\ wt[c].got = 0 /\ wt[c].at = "idle"
        /\ n \in Nat \ {0} /\ n \in Int /\ kind \in {"try", "ever", "timed", "zero"} /\ mcount \in Int /\ sema \in Nat
    BY BlockingAssumption DEF BlockInv, WaitInv, CountInv, Ask, Call
  <1>1. PICK y : y = [Awake EXCEPT !.at = "try", !.max = n, !.kind = kind]
    OBVIOUS
  <1>2. wt' = [wt EXCEPT ![c] = y] /\ UNCHANGED <<mcount, sema, posting, unsignalled, size, want>>
    BY <1>1 DEF Ask, Call, queueVars
  <1>3. y = [at |-> "try", max |-> n, kind |-> kind, seen |-> 0, got |-> 0]
    BY <1>1 DEF Awake
  <1>4. y \in Waits /\ y.at = "try" /\ y.max = n /\ y.got = 0
    BY <1>0, <1>3 DEF Waits
  <1>5. Fits(y) /\ Owes(y) = 0 /\ Owes(wt[c]) = 0
    BY <1>0, <1>4 DEF Fits, Owes, OwedAt
  <1>6. Debt(mcount) \in Int
    BY <1>0 DEF Debt
  <1>7. Slept(c, y) /\ Moved(c, y)
    BY <1>0, <1>2, <1>4, <1>5, <1>6 DEF Slept, Moved
  <1> QED BY <1>0, <1>2, <1>4, <1>5, <1>7, WaitBalanced

\* A step that touches no count.
LEMMA CountsRest ==
  ASSUME CountInv, UNCHANGED <<semaVars, unsignalled, size, want>>
  PROVE  CountInv'
  <1>1. Owed' = Owed /\ Permits' = Permits /\ Elements' = Elements
    BY DEF semaVars, Owed, Permits, Elements
  <1>2. Held' = Held
    BY <1>1 DEF Held
  <1>3. SleepersCovered' /\ PermitForEachElement'
    BY <1>1, <1>2 DEF CountInv, SleepersCovered, PermitForEachElement, semaVars
  <1> QED BY <1>3 DEF CountInv, semaVars

\* The permits of a wait become what its consumer may dequeue.
LEMMA PermittedCounted ==
  ASSUME BlockInv, CountInv, NEW c \in Consumers, Permitted(c)
  PROVE  CountInv'
  <1>0. /\ wt \in [Consumers -> Waits] /\ wt[c].got \in Nat /\ wt[c].at = "idle" /\ want[c] = 0
        /\ want \in [Consumers -> Nat] /\ Waiters = Consumers
    BY Sums DEF BlockInv, WaitInv, CountInv, Permitted, Fits, Waiting
  <1>1. Awake.at = "idle" /\ Awake.got = 0 /\ Awake.max = 1
    BY DEF Awake
  <1>2. wt' = [wt EXCEPT ![c] = Awake] /\ want' = [want EXCEPT ![c] = wt[c].got]
    BY DEF Permitted
  <1>3. Owed' = Owed
    BY <1>0, <1>1, <1>2 DEF Owed
  <1>4. Permits' = Permits
    <2>1. ASSUME NEW e \in Consumers PROVE wt'[e].got + want'[e] = wt[e].got + want[e]
      BY <1>0, <1>1, <1>2
    <2> QED BY <2>1 DEF Permits
  <1>5. Elements' = Elements /\ Held' = Held
    BY <1>4 DEF Elements, Held, Permitted
  <1>6. want' \in [Consumers -> Nat] /\ \A e \in Consumers : Fits(wt'[e])
    BY <1>0, <1>1, <1>2 DEF CountInv, Fits, OwedAt
  <1>7. SleepersCovered' /\ PermitForEachElement'
    BY <1>3, <1>5 DEF CountInv, SleepersCovered, PermitForEachElement, Permitted
  <1> QED BY <1>6, <1>7 DEF CountInv, Permitted

\* What a producer's queue gives, the consumer's permits pay for.
LEMMA GivesCounted ==
  ASSUME BlockInv, CountInv, NEW c \in Consumers, NEW p \in 1 .. tail, NEW k \in 0 .. visit[c].n,
         DequeueFrom(c, p, k), UNCHANGED <<semaVars, unsignalled>>
  PROVE  CountInv'
  <1>0. /\ size \in [1 .. MostProducers -> Nat] /\ want \in [Consumers -> Nat] /\ p \in 1 .. MostProducers
        /\ Permits \in [Consumers -> Nat]
        /\ IsFiniteSet(Consumers) /\ IsFiniteSet(1 .. MostProducers) /\ DOMAIN size = 1 .. MostProducers
    BY Sums, ListBound DEF BlockInv, QueueInv, CountInv
  <1>1. PICK g \in Nat : g = k /\ g <= size[p] /\ g <= want[c]
    <2>1. visit[c].n \in Nat /\ visit[c].from = p /\ p /= 0 /\ k <= size[p] /\ k \in Nat
      BY DEF BlockInv, VisitInv, Visits, DequeueFrom
    <2>2. visit[c].n <= want[c]
      BY <2>1 DEF BlockInv, VisitInv, Inside
    <2> QED BY <1>0, <2>1, <2>2
  <1>2. PICK w \in Nat, z \in Nat : w = want[c] - g /\ z = size[p] - g
    BY <1>0, <1>1
  <1>3. want' = [want EXCEPT ![c] = w] /\ size' = [size EXCEPT ![p] = z]
    BY <1>1, <1>2 DEF DequeueFrom
  <1>4. want' \in [Consumers -> Nat] /\ size' \in [1 .. MostProducers -> Nat]
    BY <1>0, <1>3
  <1>5. Elements' = Elements - g /\ Elements \in Nat
    <2>1. PICK f, h : f = size /\ h = size'
      OBVIOUS
    <2>2. f \in [1 .. MostProducers -> Nat] /\ h \in [1 .. MostProducers -> Nat] /\ f[p] = size[p] /\ h[p] = z /\ \A q \in 1 .. MostProducers : q /= p => h[q] = f[q]
      BY <1>0, <1>3, <1>4, <2>1
    <2>6. IsFiniteSet(1 .. MostProducers) /\ p \in 1 .. MostProducers
      BY <1>0
    <2>9. OneChanges(f, h, 1 .. MostProducers, p)
      BY <2>2, <2>6 DEF OneChanges
    <2>3. Total(f, 1 .. MostProducers) \in Nat /\ Total(h, 1 .. MostProducers) = Total(f, 1 .. MostProducers) - f[p] + h[p]
      BY <2>9, <2>6, TotalStep
    <2>4. Total(h, 1 .. MostProducers) = Total(f, 1 .. MostProducers) - g
      <3>1. PICK e \in Nat, x \in Nat, y \in Nat :
              e = Total(f, 1 .. MostProducers) /\ x = f[p] /\ y = h[p] /\ Total(h, 1 .. MostProducers) = e - x + y
        BY <1>0, <1>2, <2>2, <2>3
      <3>2. y = x - g
        BY <1>2, <2>2, <3>1
      <3> QED BY <3>1, <3>2
    <2>5. Elements = Total(f, 1 .. MostProducers) /\ Elements' = Total(h, 1 .. MostProducers)
      BY <1>0, <1>4, <2>1 DEF Elements
    <2> QED BY <2>3, <2>4, <2>5
  <1>6. Held' = Held - g /\ Held \in Nat
    <2>1. PICK f, h : f = Permits /\ h = Permits'
      OBVIOUS
    <2>2. \A e \in Consumers : wt'[e] = wt[e] /\ wt[e].got \in Nat
      BY DEF semaVars, CountInv, Fits
    <2>30. f = [e \in Consumers |-> wt[e].got + want[e]] /\ h = [e \in Consumers |-> wt[e].got + want'[e]]
      BY <2>1, <2>2 DEF Permits
    <2>31. ASSUME NEW e \in Consumers PROVE h[e] \in Nat /\ (e /= c => h[e] = f[e])
      <3>1. want[e] \in Nat /\ want'[e] \in Nat /\ wt[e].got \in Nat /\ (e /= c => want'[e] = want[e])
        BY <1>0, <1>3, <1>4, <2>2
      <3>2. wt[e].got + want'[e] \in Nat
        BY <3>1
      <3> QED BY <2>30, <3>1, <3>2
    <2>3. h \in [Consumers -> Nat] /\ f \in [Consumers -> Nat] /\ \A e \in Consumers : e /= c => h[e] = f[e]
      BY <1>0, <2>1, <2>30, <2>31
    <2>4. f[c] = wt[c].got + want[c] /\ h[c] = wt[c].got + w
      BY <1>0, <1>3, <2>1, <2>2 DEF Permits
    <2>7. IsFiniteSet(Consumers)
      BY <1>0
    <2>9. OneChanges(f, h, Consumers, c)
      BY <2>3, <2>7 DEF OneChanges
    <2>5. Total(f, Consumers) \in Nat /\ Total(h, Consumers) = Total(f, Consumers) - f[c] + h[c]
      BY <2>9, <2>7, TotalStep
    <2>6. Total(h, Consumers) = Total(f, Consumers) - g
      <3>1. PICK a \in Int, b \in Int : a = wt[c].got /\ b = want[c] /\ f[c] = a + b /\ h[c] = a + w
        BY <1>0, <2>2, <2>4
      <3>2. PICK e \in Nat : e = Total(f, Consumers) /\ Total(h, Consumers) = (e - (a + b)) + (a + w)
        BY <2>5, <3>1
      <3>3. w = b - g
        BY <1>2, <3>1
      <3> QED BY <3>2, <3>3
    <2>8. Held = Total(f, Consumers) /\ Held' = Total(h, Consumers)
      BY <2>1 DEF Held
    <2> QED BY <2>5, <2>6, <2>8
  <1>7. Owed' = Owed
    BY DEF Owed, semaVars
  <1>8. SleepersCovered'
    BY <1>7 DEF CountInv, SleepersCovered, semaVars
  <1>9. PermitForEachElement'
    <2>1. PICK e \in Int, m \in Int, o \in Int, h \in Int, u \in Int :
            e = Elements /\ m = mcount /\ o = Cardinality(Owed) /\ h = Held /\ u = Total(unsignalled, Producing)
      BY Sums
    <2>2. e = m + o + h + u
      BY <2>1 DEF CountInv, PermitForEachElement
    <2>3. e - g = m + o + (h - g) + u
      BY <2>2
    <2>4. Elements' = e - g /\ Held' = h - g /\ mcount' = m /\ Cardinality(Owed)' = o
          /\ Total(unsignalled, Producing)' = u
      BY <1>5, <1>6, <1>7, <2>1 DEF semaVars
    <2> QED BY <2>3, <2>4 DEF PermitForEachElement
  <1> QED BY <1>4, <1>8, <1>9 DEF CountInv, semaVars

\* Every turn of a dequeue.
LEMMA DequeueCounted ==
  ASSUME BlockInv, CountInv, NEW c \in Consumers, DequeueStep(c), UNCHANGED <<semaVars, unsignalled>>
  PROVE  CountInv'
  <1>0. Seen(dq[c], token[c], want[c]) /\ dq[c] \in Calls /\ tail \in Nat
    BY OneCall DEF BlockInv
  <1>1. CASE Best(c)
    <2>1. dq[c].best \in 1 .. tail /\ \E m \in 0 .. visit[c].n : DequeueFrom(c, dq[c].best, m)
      BY <1>0, <1>1 DEF Best, Seen
    <2> QED BY <2>1, GivesCounted
  <1>2. CASE Sweep(c)
    <2>1. CASE dq[c].ptr = dq[c].best
      BY <1>2, <2>1, CountsRest DEF Sweep
    <2>2. CASE dq[c].ptr /= dq[c].best
      <3>1. dq[c].ptr \in 1 .. tail /\ \E m \in 0 .. visit[c].n : DequeueFrom(c, dq[c].ptr, m)
        BY <1>0, <1>2, <2>2 DEF Sweep, Seen
      <3> QED BY <3>1, GivesCounted
    <2> QED BY <2>1, <2>2
  <1>3. CASE Current(c)
    <2>1. token[c].current \in 1 .. tail /\ \E m \in 0 .. visit[c].n : DequeueFrom(c, token[c].current, m)
      BY <1>0, <1>3 DEF Current, Seen
    <2> QED BY <2>1, GivesCounted
  <1>4. CASE Around(c)
    <2>1. dq[c].ptr \in 1 .. tail /\ \E m \in 0 .. visit[c].n : DequeueFrom(c, dq[c].ptr, m)
      BY <1>0, <1>4 DEF Around, Seen, Calls
    <2> QED BY <2>1, GivesCounted
  <1>5. CASE Look(c) \/ Score(c) \/ Reload(c) \/ RotateTail(c) \/ RotateOffset(c) \/ NextTail(c) \/ Resume(c)
    <2>1. UNCHANGED <<size, want>>
      BY <1>5 DEF Look, Score, Reload, RotateTail, RotateOffset, NextTail, Resume
    <2> QED BY <2>1, CountsRest
  <1> QED BY <1>1, <1>2, <1>3, <1>4, <1>5 DEF DequeueStep

\* Elements are put before they are signalled.
LEMMA EnqueueCounted ==
  ASSUME BlockInv, CountInv, NEW s \in Producing, NEW n \in Puts, Enqueue(s, n)
  PROVE  CountInv'
  <1>0. /\ size \in [1 .. MostProducers -> Nat] /\ unsignalled \in [Producing -> Nat] /\ n \in Nat
        /\ unsignalled[s] = 0 /\ own[s] \in 1 .. MostProducers
        /\ IsFiniteSet(Producing) /\ IsFiniteSet(1 .. MostProducers) /\ DOMAIN size = 1 .. MostProducers
    <2>1. ListInv
      BY DEF BlockInv, QueueInv
    <2>2. n \in Nat /\ unsignalled[s] = 0 /\ unsignalled \in [Producing -> Nat]
      BY BlockingAssumption DEF CountInv, Enqueue, Put
    <2>3. own[s] \in 1 .. MostProducers
      BY <2>1, ListBound DEF ListInv, Enqueue, Put
    <2>4. size \in [1 .. MostProducers -> Nat]
      BY DEF BlockInv, CountInv
    <2> QED BY <2>2, <2>3, <2>4, Sums
  <1>1. PICK p \in 1 .. MostProducers, z \in Nat : p = own[s] /\ z = size[p] + n
    BY <1>0
  <1>2. size' = [size EXCEPT ![p] = z] /\ unsignalled' = [unsignalled EXCEPT ![s] = n]
    BY <1>1 DEF Enqueue, Put
  <1>3. size' \in [1 .. MostProducers -> Nat] /\ unsignalled' \in [Producing -> Nat]
    BY <1>0, <1>2
  <1>4. Elements' = Elements + n /\ Elements \in Nat
    <2>1. PICK f, h : f = size /\ h = size'
      OBVIOUS
    <2>2. f \in [1 .. MostProducers -> Nat] /\ h \in [1 .. MostProducers -> Nat] /\ f[p] = size[p] /\ h[p] = z /\ \A q \in 1 .. MostProducers : q /= p => h[q] = f[q]
      BY <1>0, <1>2, <1>3, <2>1
    <2>6. IsFiniteSet(1 .. MostProducers) /\ p \in 1 .. MostProducers
      BY <1>0
    <2>9. OneChanges(f, h, 1 .. MostProducers, p)
      BY <2>2, <2>6 DEF OneChanges
    <2>3. Total(f, 1 .. MostProducers) \in Nat /\ Total(h, 1 .. MostProducers) = Total(f, 1 .. MostProducers) - f[p] + h[p]
      BY <2>9, <2>6, TotalStep
    <2>4. Total(h, 1 .. MostProducers) = Total(f, 1 .. MostProducers) + n
      BY <1>0, <1>1, <2>2, <2>3
    <2>5. Elements = Total(f, 1 .. MostProducers) /\ Elements' = Total(h, 1 .. MostProducers)
      BY <1>0, <1>3, <2>1 DEF Elements
    <2> QED BY <2>3, <2>4, <2>5
  <1>5. Total(unsignalled, Producing)' = Total(unsignalled, Producing) + n
    <2>1. PICK f, h : f = unsignalled /\ h = unsignalled'
      OBVIOUS
    <2>2. f \in [Producing -> Nat] /\ h \in [Producing -> Nat] /\ f[s] = 0 /\ h[s] = n
          /\ \A q \in Producing : q /= s => h[q] = f[q]
      BY <1>0, <1>2, <1>3, <2>1
    <2>6. IsFiniteSet(Producing)
      BY <1>0
    <2>9. OneChanges(f, h, Producing, s)
      BY <2>2, <2>6 DEF OneChanges
    <2>3. Total(f, Producing) \in Nat /\ Total(h, Producing) = Total(f, Producing) - f[s] + h[s]
      BY <2>9, <2>6, TotalStep
    <2> QED BY <1>0, <2>1, <2>2, <2>3
  <1>6. UNCHANGED <<mcount, sema, posting, wt, want>>
    BY DEF Enqueue, Put, semaVars
  <1>7. Owed' = Owed /\ Permits' = Permits
    BY <1>6 DEF Owed, Permits
  <1>8. SleepersCovered'
    BY <1>6, <1>7 DEF CountInv, SleepersCovered
  <1>9. PermitForEachElement'
    <2>1. PICK e \in Int, m \in Int, o \in Int, h \in Int, u \in Int :
            e = Elements /\ m = mcount /\ o = Cardinality(Owed) /\ h = Held /\ u = Total(unsignalled, Producing)
      BY Sums
    <2>2. e = m + o + h + u
      BY <2>1 DEF CountInv, PermitForEachElement
    <2>3. e + n = m + o + h + (u + n)
      BY <1>0, <2>2
    <2>4. Elements' = e + n /\ Held' = h /\ mcount' = m /\ Cardinality(Owed)' = o
          /\ Total(unsignalled, Producing)' = u + n
      BY <1>4, <1>5, <1>6, <1>7, <2>1 DEF Held
    <2> QED BY <2>3, <2>4 DEF PermitForEachElement
  <1> QED BY <1>3, <1>6, <1>8, <1>9 DEF CountInv

\* A signal raises the count by what it signals and posts as much as the debt falls.
LEMMA SignalCounted ==
  ASSUME BlockInv, CountInv, NEW s \in Producing, SignalPut(s)
  PROVE  CountInv'
  <1>0. /\ posting \in [Producing -> Nat] /\ unsignalled \in [Producing -> Nat] /\ posting[s] = 0
        /\ IsFiniteSet(Producing) /\ Signallers = Producing /\ mcount \in Int /\ sema \in Nat
    BY Sums DEF CountInv, SignalPut, Signal
  <1>1. PICK m \in Int, n \in Nat : m = mcount /\ n = unsignalled[s]
    BY <1>0
  <1>2. PICK r \in Nat : r = IF ToRelease(n) > 0 THEN ToRelease(n) ELSE 0
    BY <1>1 DEF ToRelease
  <1>3. mcount' = m + n /\ posting' = [posting EXCEPT ![s] = r] /\ unsignalled' = [unsignalled EXCEPT ![s] = 0]
    BY <1>1, <1>2 DEF SignalPut, Signal
  <1>4. Debt(m) \in Int /\ Debt(m + n) = Debt(m) - r
    BY <1>1, <1>2 DEF Debt, ToRelease
  <1>5. posting' \in [Producing -> Nat] /\ unsignalled' \in [Producing -> Nat]
    BY <1>0, <1>3
  <1>6. Total(posting, Producing)' = Total(posting, Producing) + r
    <2>1. PICK f, h : f = posting /\ h = posting'
      OBVIOUS
    <2>2. f \in [Producing -> Nat] /\ h \in [Producing -> Nat] /\ f[s] = 0 /\ h[s] = r
          /\ \A q \in Producing : q /= s => h[q] = f[q]
      BY <1>0, <1>3, <1>5, <2>1
    <2>6. IsFiniteSet(Producing)
      BY <1>0
    <2>9. OneChanges(f, h, Producing, s)
      BY <2>2, <2>6 DEF OneChanges
    <2>3. Total(f, Producing) \in Nat /\ Total(h, Producing) = Total(f, Producing) - f[s] + h[s]
      BY <2>9, <2>6, TotalStep
    <2> QED BY <2>1, <2>2, <2>3
  <1>7. Total(unsignalled, Producing)' = Total(unsignalled, Producing) - n
    <2>1. PICK f, h : f = unsignalled /\ h = unsignalled'
      OBVIOUS
    <2>2. f \in [Producing -> Nat] /\ h \in [Producing -> Nat] /\ f[s] = n /\ h[s] = 0
          /\ \A q \in Producing : q /= s => h[q] = f[q]
      BY <1>0, <1>1, <1>3, <1>5, <2>1
    <2>6. IsFiniteSet(Producing)
      BY <1>0
    <2>9. OneChanges(f, h, Producing, s)
      BY <2>2, <2>6 DEF OneChanges
    <2>3. Total(f, Producing) \in Nat /\ Total(h, Producing) = Total(f, Producing) - f[s] + h[s]
      BY <2>9, <2>6, TotalStep
    <2> QED BY <2>1, <2>2, <2>3
  <1>8. UNCHANGED <<sema, wt, size, want>>
    BY DEF SignalPut, Signal, queueVars
  <1>9. Owed' = Owed /\ Permits' = Permits /\ Elements' = Elements
    BY <1>8 DEF Owed, Permits, Elements
  <1>10. SleepersCovered'
    <2>1. PICK o \in Int, p \in Int, d \in Int : o = Cardinality(Owed) /\ p = Total(posting, Producing) /\ d = Debt(m)
      BY <1>4, Sums
    <2>2. o = sema + p + d
      BY <1>0, <1>1, <2>1 DEF CountInv, SleepersCovered, Debt
    <2>3. o = sema + (p + r) + (d - r)
      BY <1>0, <2>2
    <2>4. Total(posting, Producing)' = p + r /\ Debt(mcount') = d - r /\ sema' = sema /\ Cardinality(Owed)' = o
      BY <1>3, <1>4, <1>6, <1>8, <1>9, <2>1
    <2>5. Cardinality(Owed)' = sema' + Total(posting, Producing)' + Debt(mcount')
      BY <2>3, <2>4
    <2> QED BY <1>0, <2>5 DEF SleepersCovered, Debt
  <1>11. PermitForEachElement'
    <2>1. PICK e \in Int, o \in Int, h \in Int, u \in Int :
            e = Elements /\ o = Cardinality(Owed) /\ h = Held /\ u = Total(unsignalled, Producing)
      BY Sums
    <2>2. e = m + o + h + u
      BY <1>1, <2>1 DEF CountInv, PermitForEachElement
    <2>3. e = (m + n) + o + h + (u - n)
      BY <2>2
    <2>4. Elements' = e /\ Held' = h /\ mcount' = m + n /\ Cardinality(Owed)' = o
          /\ Total(unsignalled, Producing)' = u - n
      BY <1>3, <1>7, <1>9, <2>1 DEF Held
    <2> QED BY <2>3, <2>4 DEF PermitForEachElement
  <1> QED BY <1>0, <1>5, <1>8, <1>10, <1>11 DEF CountInv

\* A post is one that the signal had still to make.
LEMMA PostCounted ==
  ASSUME BlockInv, CountInv, NEW s \in Producing, PostPut(s)
  PROVE  CountInv'
  <1>0. /\ posting \in [Producing -> Nat] /\ posting[s] > 0 /\ sema \in Nat
        /\ IsFiniteSet(Producing) /\ Signallers = Producing
    BY Sums DEF CountInv, PostPut, Post
  <1>1. PICK r \in Nat : r = posting[s] - 1
    BY <1>0
  <1>2. sema' = sema + 1 /\ posting' = [posting EXCEPT ![s] = r]
    BY <1>1 DEF PostPut, Post
  <1>3. posting' \in [Producing -> Nat] /\ sema' \in Nat
    BY <1>0, <1>2
  <1>4. Total(posting, Producing)' = Total(posting, Producing) - 1
    <2>1. PICK f, h : f = posting /\ h = posting'
      OBVIOUS
    <2>2. f \in [Producing -> Nat] /\ h \in [Producing -> Nat] /\ f[s] = r + 1 /\ h[s] = r
          /\ \A q \in Producing : q /= s => h[q] = f[q]
      BY <1>0, <1>1, <1>2, <1>3, <2>1
    <2>6. IsFiniteSet(Producing)
      BY <1>0
    <2>9. OneChanges(f, h, Producing, s)
      BY <2>2, <2>6 DEF OneChanges
    <2>3. Total(f, Producing) \in Nat /\ Total(h, Producing) = Total(f, Producing) - f[s] + h[s]
      BY <2>9, <2>6, TotalStep
    <2> QED BY <2>1, <2>2, <2>3
  <1>5. UNCHANGED <<mcount, wt, size, want, unsignalled>>
    BY DEF PostPut, Post, queueVars
  <1>6. Owed' = Owed /\ Permits' = Permits /\ Elements' = Elements
    BY <1>5 DEF Owed, Permits, Elements
  <1>7. SleepersCovered'
    <2>1. PICK o \in Int, p \in Int, d \in Int : o = Cardinality(Owed) /\ p = Total(posting, Producing) /\ d = Debt(mcount)
      BY Sums DEF Debt
    <2>2. o = sema + p + d
      BY <1>0, <2>1 DEF CountInv, SleepersCovered, Debt
    <2>3. o = (sema + 1) + (p - 1) + d
      BY <1>0, <2>2
    <2>4. Total(posting, Producing)' = p - 1 /\ Debt(mcount') = d /\ Cardinality(Owed)' = o
      BY <1>4, <1>5, <1>6, <2>1
    <2>5. Cardinality(Owed)' = sema' + Total(posting, Producing)' + Debt(mcount')
      BY <1>2, <2>3, <2>4
    <2> QED BY <1>0, <2>5 DEF SleepersCovered, Debt
  <1>8. PermitForEachElement'
    BY <1>5, <1>6 DEF CountInv, PermitForEachElement, Held
  <1> QED BY <1>3, <1>5, <1>7, <1>8 DEF CountInv

\* Nothing is counted at the start.
LEMMA InitCounted == BlockingInit => CountInv
  <1> SUFFICES ASSUME BlockingInit PROVE CountInv
    OBVIOUS
  <1>0. Signallers = Producing /\ Waiters = Consumers
    BY BlockingAssumption
  <1>1. /\ mcount = 0 /\ sema = 0 /\ posting = [s \in Producing |-> 0] /\ wt = [c \in Consumers |-> Awake]
        /\ size = [p \in 1 .. MostProducers |-> 0] /\ want = [c \in Consumers |-> 0]
        /\ unsignalled = [s \in Producing |-> 0]
    BY <1>0 DEF BlockingInit, SemaInit, QueueInit, MostProducers
  <1>2. Awake.at = "idle" /\ Awake.got = 0 /\ Awake.max = 1
    BY DEF Awake
  <1>3. Cardinality(Owed) = 0
    <2>1. Owed = {}
      BY <1>0, <1>1, <1>2 DEF Owed
    <2> QED BY <2>1, FS_EmptySet
  <1>4. Total(posting, Signallers) = 0 /\ Total(unsignalled, Producing) = 0
    BY <1>0, <1>1, TotalZero
  <1>5. Elements = 0
    <2>1. \A p \in DOMAIN size : size[p] = 0
      BY <1>1
    <2> QED BY <2>1, TotalZero DEF Elements
  <1>6. Held = 0
    <2>1. \A c \in Consumers : Permits[c] = 0
      BY <1>1, <1>2 DEF Permits
    <2>2. PICK f : f = Permits
      OBVIOUS
    <2>3. Total(f, Consumers) = 0
      BY <2>1, <2>2, TotalZero
    <2> QED BY <2>2, <2>3 DEF Held
  <1>7. SleepersCovered /\ PermitForEachElement
    BY <1>1, <1>3, <1>4, <1>5, <1>6 DEF SleepersCovered, PermitForEachElement
  <1>8. \A c \in Consumers : Fits(wt[c])
    BY <1>1, <1>2 DEF Fits, OwedAt
  <1> QED BY <1>1, <1>7, <1>8 DEF CountInv

LEMMA StepCounted == BlockInv /\ CountInv /\ [BlockingNext]_blockingVars => CountInv'
  <1> SUFFICES ASSUME BlockInv, CountInv, [BlockingNext]_blockingVars PROVE CountInv'
    OBVIOUS
  <1>1. CASE UNCHANGED blockingVars
    BY <1>1, CountsRest DEF blockingVars, queueVars
  <1>2. ASSUME NEW s \in Producing, Enroll(s) PROVE CountInv'
    <2>1. UNCHANGED <<size, want>>
      BY <1>2 DEF Enroll, CountProducer, ListProducer
    <2> QED BY <1>2, <2>1, CountsRest DEF Enroll
  <1>3. ASSUME NEW s \in Producing, NEW n \in Puts, Enqueue(s, n) PROVE CountInv'
    BY <1>3, EnqueueCounted
  <1>4. ASSUME NEW s \in Producing, SignalPut(s) PROVE CountInv'
    BY <1>4, SignalCounted
  <1>5. ASSUME NEW s \in Producing, PostPut(s) PROVE CountInv'
    BY <1>5, PostCounted
  <1>6. ASSUME NEW c \in Consumers, NEW n \in Asks, NEW kind \in Kinds, Ask(c, n, kind) PROVE CountInv'
    BY <1>6, AskCounted
  <1>7. ASSUME NEW c \in Consumers, Wait(c) PROVE CountInv'
    BY <1>7, WaitCounted
  <1>8. ASSUME NEW c \in Consumers, Permitted(c) PROVE CountInv'
    BY <1>8, PermittedCounted
  <1>9. ASSUME NEW c \in Consumers, NEW bulk \in BOOLEAN, Turn(c, bulk) PROVE CountInv'
    BY <1>9, CountsRest DEF Turn, Begin
  <1>10. ASSUME NEW c \in Consumers, Dequeue(c) PROVE CountInv'
    BY <1>10, DequeueCounted DEF Dequeue
  <1> QED BY <1>1, <1>2, <1>3, <1>4, <1>5, <1>6, <1>7, <1>8, <1>9, <1>10
          DEF BlockingNext, ProducerStep, ConsumerStep

\* No wake-up is lost and none is left over, for every number of threads, elements and waits of every
\* kind: each thread that took the count down and has neither a permit for it nor taken it back is
\* covered by a post made, a post its signaller is about to make, or the debt that the count shows
\* (signal against a wait that gives up, lightweightsemaphore.h).
THEOREM EverySleeperCovered == BlockingSpec => []SleepersCovered
  <1>1. BlockInv /\ CountInv => SleepersCovered
    BY DEF CountInv
  <1> QED BY <1>1, InitBlocked, StepBlocked, InitCounted, StepCounted, PTL DEF BlockingSpec

\* Permits and elements agree, for every number of producers and consumers and bulks of every size:
\* the queues hold what the count offers, the sleepers are owed, consumers have permits for and
\* producers have not signalled yet (blockingconcurrentqueue.h).
THEOREM PermitsAreElements == BlockingSpec => []PermitForEachElement
  <1>1. BlockInv /\ CountInv => PermitForEachElement
    BY DEF CountInv
  <1> QED BY <1>1, InitBlocked, StepBlocked, InitCounted, StepCounted, PTL DEF BlockingSpec

-----------------------------------------------------------------------------

\* A dequeue that comes back with less than it was asked for has looked at every producer that was in
\* the list when it began, and found it with no unclaimed element or with another consumer inside its
\* queue, whatever consumers, rotation and producers did meanwhile: for every number of producers and
\* consumers, with tokens and without (try_dequeue, try_dequeue_bulk).
THEOREM AllAppearedEmpty == BlockingSpec => []NoneMissed
  <1>1. BlockInv => NoneMissed
    <2> SUFFICES ASSUME BlockInv, NEW c \in Consumers, dq[c].at = "returned", want[c] > 0
                 PROVE  1 .. dq[c].start \subseteq dq[c].dry
      BY DEF NoneMissed
    <2> QED BY OneCall DEF BlockInv, Seen
  <1> QED BY <1>1, InitBlocked, StepBlocked, PTL DEF BlockingSpec
=============================================================================
