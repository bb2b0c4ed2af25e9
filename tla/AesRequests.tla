---------------------------- MODULE AesRequests ----------------------------
(***************************************************************************)
(* POST /api/aes of the C++ server (controller/aes.cpp): the uWebSockets   *)
(* loop thread reads the body, a worker of the asio pool decrypts, and a   *)
(* closure deferred to the loop writes the answer through a raw pointer to *)
(* the HttpResponse.                                                       *)
(*                                                                         *)
(* The response object of an open connection occupies an address; the      *)
(* allocator gives the address of a closed one to a later connection.      *)
(* Using the pointer of a closed connection is undefined: the write shows  *)
(* nowhere, or on the connection that lives at that address by then.       *)
(***************************************************************************)
EXTENDS Integers, Sequences, FiniteSets

CONSTANTS
    Requests,     \* requests, each on a connection of its own
    Workers,      \* threads of the asio pool: 4 in main.cpp
    Addresses,    \* where response objects can live
    MaxChunks,    \* bound on the pieces a body arrives in
    Nobody        \* what an idle worker works for

ASSUME AesAssumption ==
    /\ Nobody \notin Requests
    /\ MaxChunks \in Nat \ {0}
    /\ Addresses # {}

VARIABLES
    input,        \* what each client sends
    left,         \* chunks of each body still to come
    conn,         \* state of each connection on the loop
    address,      \* where each response object is, or was
    aborted,      \* the shared atomic flag of each request
    tasks,        \* bodies queued in the thread pool
    busy,         \* the request each worker works for
    deferred,     \* closures queued with Loop::defer
    wire,         \* the answers written on each connection, in order
    stale         \* requests whose closure used a dead pointer

vars == <<input, left, conn, address, aborted, tasks, busy, deferred, wire, stale>>

Inputs == {"good", "noPlaintext", "badJson", "notJson"}
Answers == [from : Requests, code : {200, 400, 500}]

TypeOK ==
    /\ input \in [Requests -> Inputs]
    /\ left \in [Requests -> 0 .. MaxChunks]
    /\ conn \in [Requests -> {"new", "open", "closed"}]
    /\ address \in [Requests -> Addresses]
    /\ aborted \in [Requests -> BOOLEAN]
    /\ tasks \in Seq(Requests)
    /\ busy \in [Workers -> Requests \cup {Nobody}]
    /\ deferred \in Seq(Answers)
    /\ wire \in [Requests -> Seq(Answers)]
    /\ stale \subseteq Requests

Init ==
    /\ input \in [Requests -> Inputs]
    /\ left \in [Requests -> 1 .. MaxChunks]
    /\ conn = [r \in Requests |-> "new"]
    /\ address = [r \in Requests |-> CHOOSE a \in Addresses : TRUE]
    /\ aborted = [r \in Requests |-> FALSE]
    /\ tasks = <<>>
    /\ busy = [w \in Workers |-> Nobody]
    /\ deferred = <<>>
    /\ wire = [r \in Requests |-> <<>>]
    /\ stale = {}
-----------------------------------------------------------------------------
Open(r) == conn[r] = "open"
Occupied(a) == \E q \in Requests : Open(q) /\ address[q] = a

\* aesHandler: a wrong content type is answered at once and leaves no
\* callback behind.
Receive(r) ==
    /\ conn[r] = "new"
    /\ conn' = [conn EXCEPT ![r] = "open"]
    /\ \E a \in Addresses :
          ~Occupied(a) /\ address' = [address EXCEPT ![r] = a]
    /\ wire' = IF input[r] = "notJson"
               THEN [wire EXCEPT ![r] = Append(@, [from |-> r, code |-> 400])]
               ELSE wire
    /\ UNCHANGED <<input, left, aborted, tasks, busy, deferred, stale>>

\* Mutants: the body is posted with every chunk (no isLast test); a chunk is
\* taken after the last one.
ChunkPosting(r) ==
    /\ Open(r) /\ input[r] # "notJson" /\ left[r] > 0
    /\ left' = [left EXCEPT ![r] = @ - 1]
    /\ tasks' = Append(tasks, r)
    /\ UNCHANGED <<input, conn, address, aborted, busy, deferred, wire, stale>>

ChunkPastEnd(r) ==
    /\ Open(r) /\ input[r] # "notJson"
    /\ left' = [left EXCEPT ![r] = @ - 1]
    /\ tasks' = IF left[r] = 1 THEN Append(tasks, r) ELSE tasks
    /\ UNCHANGED <<input, conn, address, aborted, busy, deferred, wire, stale>>

\* onData; the last chunk posts the body to the pool.
Chunk(r) ==
    /\ Open(r) /\ input[r] # "notJson" /\ left[r] > 0
    /\ left' = [left EXCEPT ![r] = @ - 1]
    /\ tasks' = IF left[r] = 1 THEN Append(tasks, r) ELSE tasks
    /\ UNCHANGED <<input, conn, address, aborted, busy, deferred, wire, stale>>

\* Mutant: no onAborted callback is installed.
AbortUnseen(r) ==
    /\ Open(r) /\ wire[r] = <<>>
    /\ conn' = [conn EXCEPT ![r] = "closed"]
    /\ UNCHANGED <<input, left, address, aborted, tasks, busy, deferred, wire, stale>>

\* The connection goes while its response is pending: onAborted runs.
Abort(r) ==
    /\ Open(r) /\ wire[r] = <<>>
    /\ conn' = [conn EXCEPT ![r] = "closed"]
    /\ aborted' = [aborted EXCEPT ![r] = TRUE]
    /\ UNCHANGED <<input, left, address, tasks, busy, deferred, wire, stale>>

\* It goes after a response was written on it: end() dropped the callback.
Close(r) ==
    /\ Open(r) /\ wire[r] # <<>>
    /\ conn' = [conn EXCEPT ![r] = "closed"]
    /\ UNCHANGED <<input, left, address, aborted, tasks, busy, deferred, wire, stale>>

WorkerTake(w) ==
    /\ busy[w] = Nobody /\ tasks # <<>>
    /\ busy' = [busy EXCEPT ![w] = Head(tasks)]
    /\ tasks' = Tail(tasks)
    /\ UNCHANGED <<input, left, conn, address, aborted, deferred, wire, stale>>

\* The code of the closure a worker defers: 500 also when the cipher throws.
Outcomes(r) ==
    CASE input[r] = "good"        -> {200, 500}
      [] input[r] = "noPlaintext" -> {400}
      [] OTHER                    -> {500}

\* Mutant: the branch for a missing plaintext returns without deferring.
WorkerFinishSilent(w) ==
    /\ busy[w] # Nobody
    /\ IF input[busy[w]] = "noPlaintext"
       THEN UNCHANGED deferred
       ELSE \E c \in Outcomes(busy[w]) :
               deferred' = Append(deferred, [from |-> busy[w], code |-> c])
    /\ busy' = [busy EXCEPT ![w] = Nobody]
    /\ UNCHANGED <<input, left, conn, address, aborted, tasks, wire, stale>>

WorkerFinish(w) ==
    /\ busy[w] # Nobody
    /\ \E c \in Outcomes(busy[w]) :
          deferred' = Append(deferred, [from |-> busy[w], code |-> c])
    /\ busy' = [busy EXCEPT ![w] = Nobody]
    /\ UNCHANGED <<input, left, conn, address, aborted, tasks, wire, stale>>

\* What closure d writes: the flag changes the text and never the writing.
Said(d) == IF aborted[d.from] THEN [from |-> d.from, code |-> 500] ELSE d
Write(q, d) == wire' = [wire EXCEPT ![q] = Append(@, Said(d))]

\* The loop runs a closure, whose pointer may be dead by now.
RunDeferred ==
    /\ deferred # <<>>
    /\ deferred' = Tail(deferred)
    /\ LET d == Head(deferred)
       IN  \/ Open(d.from) /\ Write(d.from, d) /\ UNCHANGED stale
           \/ /\ ~Open(d.from)
              /\ stale' = stale \cup {d.from}
              /\ \/ UNCHANGED wire
                 \/ \E q \in Requests :
                       Open(q) /\ address[q] = address[d.from] /\ Write(q, d)
    /\ UNCHANGED <<input, left, conn, address, aborted, tasks, busy>>
-----------------------------------------------------------------------------
Next ==
    \/ \E r \in Requests : Receive(r) \/ Chunk(r) \/ Abort(r) \/ Close(r)
    \/ \E w \in Workers : WorkerTake(w) \/ WorkerFinish(w)
    \/ RunDeferred

Spec == Init /\ [][Next]_vars

\* Pool threads and the loop keep running; clients may stop at any point.
FairSpec ==
    /\ Spec
    /\ \A w \in Workers : WF_vars(WorkerTake(w) \/ WorkerFinish(w))
    /\ WF_vars(RunDeferred)
-----------------------------------------------------------------------------
(* Properties                                                              *)

BodyDone(r) == left[r] = 0
Own(r) == {i \in DOMAIN wire[r] : wire[r][i].from = r}

\* Where the work of request r is: its body in the queue, with a worker, its
\* closure in the queue of the loop, or the closure run.
Places(r) ==
    ({"task"} \X {i \in DOMAIN tasks : tasks[i] = r})
    \cup ({"worker"} \X {w \in Workers : busy[w] = r})
    \cup ({"closure"} \X {i \in DOMAIN deferred : deferred[i].from = r})
    \cup ({"run"} \X IF r \in stale THEN {0} ELSE Own(r))

\* A complete body is in exactly one place and an incomplete one in none: no
\* abort, no close and no schedule of the workers loses a request aesHandler
\* accepted or answers it twice.
InOnePlace ==
    \A r \in Requests : input[r] # "notJson" =>
        IF BodyDone(r) THEN \E p \in Places(r) : Places(r) = {p} ELSE Places(r) = {}

\* As long as no connection went away with its response pending, no closure
\* uses a dead pointer and every client reads one answer at most, its own:
\* end() may drop the abort callback (Close) without leaving a closure behind,
\* and reused addresses alone do no harm.
NoCrosstalk ==
    (\A r \in Requests : ~aborted[r]) =>
        /\ stale = {}
        /\ \A r \in Requests : Len(wire[r]) <= 1 /\ \A i \in DOMAIN wire[r] : i \in Own(r)

\* Every complete request is answered on its own connection unless that
\* connection is gone, whatever stale writes hit it meanwhile.
Answered ==
    \A r \in Requests : BodyDone(r) ~> Own(r) # {} \/ conn[r] = "closed"

\* aes.cpp:30 says the shared_ptr "holds the HttpResponse safely": no closure
\* writes through the pointer of a connection that is gone.
ResponseHeldSafely == stale = {}
=============================================================================
