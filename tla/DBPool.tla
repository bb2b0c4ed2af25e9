------------------------------- MODULE DBPool -------------------------------
(***************************************************************************)
(* The libzdb wrapper database/db_pool.cpp and its one caller,             *)
(* vg_tests/test_dbpoll.cpp: two test cases that initialise the static     *)
(* pool, test a connection (the second from many threads at once) and shut *)
(* the pool down.                                                          *)
(*                                                                         *)
(* The second case collects its results in a std::vector<bool>, whose      *)
(* elements share words: a thread's assignment reads the word and writes   *)
(* it back, and the threads take no lock.  That race is undefined in C++;  *)
(* the outcomes modelled are those of the unlocked read and write.         *)
(***************************************************************************)
EXTENDS Integers, FiniteSets

CONSTANTS
    Threads,      \* threads of the second case: 10
    First,        \* the thread that runs the first case alone
    MaxConns      \* max_conns: 20

ASSUME DBPoolAssumption ==
    /\ First \in Threads
    /\ MaxConns \in Nat \ {0}

VARIABLES
    testCase,     \* the case that runs
    main,         \* the next step of the main thread
    pool,         \* the pointer pool_
    inUse,        \* threads that hold a connection
    pc,           \* the next step of each thread
    returned,     \* what test_connection returned to each thread
    results,      \* the word of the vector
    seen,         \* the word as each thread read it
    outcome       \* how each case ended

vars == <<testCase, main, pool, inUse, pc, returned, results, seen, outcome>>

Word == [Threads -> BOOLEAN]
Cleared == [t \in Threads |-> FALSE]

\* The threads of the case that runs.
Members == IF testCase = 1 THEN {First} ELSE Threads

TypeOK ==
    /\ testCase \in {1, 2}
    /\ main \in {"init", "join", "shutdown", "exited", "aborted"}
    /\ pool \in {"null", "started"}
    /\ inUse \subseteq Threads
    /\ Cardinality(inUse) <= MaxConns
    /\ pc \in [Threads -> {"off", "get", "query", "close", "read", "write", "ended"}]
    /\ returned \in Word
    /\ results \in Word
    /\ seen \in [Threads -> Word]
    /\ outcome \in [{1, 2} -> {"pending", "passed", "failed", "threw"}]

Init ==
    /\ testCase = 1
    /\ main = "init"
    /\ pool = "null"
    /\ inUse = {}
    /\ pc = [t \in Threads |-> "off"]
    /\ returned = Cleared
    /\ results = Cleared
    /\ seen = [t \in Threads |-> Cleared]
    /\ outcome = [k \in {1, 2} |-> "pending"]
-----------------------------------------------------------------------------
\* The case ends with o and the runner goes on to the next.
EndCase(o) ==
    /\ outcome' = [outcome EXCEPT ![testCase] = o]
    /\ testCase' = 2
    /\ main' = IF testCase = 1 THEN "init" ELSE "exited"

\* Mutant: the vector starts out true.
FreshTrue == [t \in Threads |-> TRUE]

\* The results before any thread has one.
Fresh == Cleared

\* init_postgres.  It throws when the pool exists or cannot be created; when
\* the database is away ConnectionPool_start raises an exception of libzdb
\* nobody catches.
InitPostgres ==
    /\ main = "init"
    /\ \/ /\ EndCase("threw")
          /\ UNCHANGED <<pool, pc, returned, results>>
       \/ /\ pool = "null"
          /\ pool' = "started" /\ main' = "aborted"
          /\ UNCHANGED <<testCase, outcome, pc, returned, results>>
       \/ /\ pool = "null"
          /\ pool' = "started" /\ main' = "join"
          /\ pc' = [t \in Threads |-> IF t \in Members THEN "get" ELSE "off"]
          /\ returned' = Cleared
          /\ results' = Fresh
          /\ UNCHANGED <<testCase, outcome>>
    /\ UNCHANGED <<inUse, seen>>

\* test_connection returns b to t.
Return(t, b) ==
    /\ returned' = [returned EXCEPT ![t] = b]
    /\ pc' = [pc EXCEPT ![t] = IF testCase = 1 THEN "ended" ELSE "read"]

\* Mutant: the pool opens a connection more than max_conns.
GetConnectionUnbounded(t) ==
    /\ main = "join" /\ pc[t] = "get"
    /\ \/ /\ inUse' = inUse \cup {t}
          /\ pc' = [pc EXCEPT ![t] = "query"]
          /\ UNCHANGED returned
       \/ Return(t, FALSE) /\ UNCHANGED inUse
    /\ UNCHANGED <<testCase, main, pool, results, seen, outcome>>

\* It asks for a connection: NULL when all are in use or none can be opened.
GetConnection(t) ==
    /\ main = "join" /\ pc[t] = "get"
    /\ \/ /\ Cardinality(inUse) < MaxConns
          /\ inUse' = inUse \cup {t}
          /\ pc' = [pc EXCEPT ![t] = "query"]
          /\ UNCHANGED returned
       \/ Return(t, FALSE) /\ UNCHANGED inUse
    /\ UNCHANGED <<testCase, main, pool, results, seen, outcome>>

\* SELECT 1, which may raise an SQLException.
Query(t) ==
    /\ pc[t] = "query"
    /\ \E b \in BOOLEAN : returned' = [returned EXCEPT ![t] = b]
    /\ pc' = [pc EXCEPT ![t] = "close"]
    /\ UNCHANGED <<testCase, main, pool, inUse, results, seen, outcome>>

Close(t) ==
    /\ pc[t] = "close"
    /\ inUse' = inUse \ {t}
    /\ Return(t, returned[t])
    /\ UNCHANGED <<testCase, main, pool, results, seen, outcome>>
-----------------------------------------------------------------------------
\* results[i] = ... : read the word, put it back with one bit changed.
Read(t) ==
    /\ pc[t] = "read"
    /\ seen' = [seen EXCEPT ![t] = results]
    /\ pc' = [pc EXCEPT ![t] = "write"]
    /\ UNCHANGED <<testCase, main, pool, inUse, returned, results, outcome>>

Write(t) ==
    /\ pc[t] = "write"
    /\ results' = [seen[t] EXCEPT ![t] = returned[t]]
    /\ pc' = [pc EXCEPT ![t] = "ended"]
    /\ UNCHANGED <<testCase, main, pool, inUse, returned, seen, outcome>>

\* What the REQUIREs of the case look at.
Verdict == IF testCase = 1 THEN returned[First] ELSE \A t \in Threads : results[t]

\* Mutant: the threads are not joined before their results are looked at.
JoinForgotten ==
    /\ main = "join"
    /\ \/ main' = "shutdown" /\ UNCHANGED <<testCase, outcome>>
       \/ ~Verdict /\ EndCase("failed")
    /\ UNCHANGED <<pool, inUse, pc, returned, results, seen>>

\* The main thread joins the others.  A REQUIRE that fails ends the case
\* there, without shutdown.
Join ==
    /\ main = "join" /\ \A t \in Members : pc[t] = "ended"
    /\ \/ Verdict /\ main' = "shutdown" /\ UNCHANGED <<testCase, outcome>>
       \/ ~Verdict /\ EndCase("failed")
    /\ UNCHANGED <<pool, inUse, pc, returned, results, seen>>

\* Mutant: the pool is freed through a copy of the pointer.
ShutdownThroughCopy ==
    /\ main = "shutdown"
    /\ EndCase("passed")
    /\ UNCHANGED <<pool, inUse, pc, returned, results, seen>>

Shutdown ==
    /\ main = "shutdown"
    /\ pool' = "null"
    /\ EndCase("passed")
    /\ UNCHANGED <<inUse, pc, returned, results, seen>>
-----------------------------------------------------------------------------
Next ==
    \/ InitPostgres \/ Join \/ Shutdown
    \/ \E t \in Threads :
          GetConnection(t) \/ Query(t) \/ Close(t) \/ Read(t) \/ Write(t)

Spec == Init /\ [][Next]_vars
-----------------------------------------------------------------------------
(* Properties                                                              *)

\* The race of the results can spoil a run and never hide a failure: at the
\* shutdown of a case that passed, every test_connection had returned true.
NoFalsePass ==
    main = "shutdown" => \A t \in Members : pc[t] = "ended" /\ returned[t]

\* No thread holds or asks for a connection of a pool that is gone: wherever
\* a case ends, by REQUIRE, by an exception or by shutdown, its threads do.
NoUseAfterShutdown ==
    main # "join" /\ main # "aborted" =>
        inUse = {} /\ \A t \in Threads : pc[t] \in {"off", "ended"}

\* The second case is refused a pool ("already initialized") only after the
\* first one failed its REQUIRE, which skips the shutdown.
RefusedAfterFailure ==
    testCase = 2 /\ main = "init" /\ pool = "started" => outcome[1] = "failed"
=============================================================================
