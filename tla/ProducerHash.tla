---------------------------- MODULE ProducerHash ----------------------------
(***************************************************************************)
(* How a thread without a token finds its ImplicitProducer                 *)
(* (concurrentqueue.h): a lock-free hash table from thread to producer     *)
(* that grows by putting a larger table in front of the old ones, the list *)
(* producers are recycled from, and the thread's exit, which gives its     *)
(* producer up.  A slot that was ever used is never empty again and only   *)
(* its thread writes a thread's key, so a search reads as one step.        *)
(***************************************************************************)
EXTENDS Integers, Sequences, FiniteSets

CONSTANTS Threads,     \* thread ids; a new thread may get the id of one that is gone
          Hash,        \* hash_thread_id: [Threads -> Nat]
          InitCap,     \* INITIAL_IMPLICIT_PRODUCER_HASH_SIZE
          MaxFails,    \* bound: times malloc fails
          Leaving,     \* bound: the threads that exit
          MaxExits     \* bound: how often they do

ASSUME ThreadsAssumption == IsFiniteSet(Threads) /\ Leaving \subseteq Threads /\ Hash \in [Threads -> Nat]
ASSUME IdsAssumption == {"empty", "reusable"} \cap Threads = {}
ASSUME CapAssumption == InitCap \in Nat \ {0} /\ MaxFails \in Nat /\ MaxExits \in Nat

VARIABLES tables,     \* the tables, oldest first; a table is [0 .. capacity - 1 -> slot]
          usedCount,  \* implicitProducerHashCount
          resizing,   \* implicitProducerHashResizeInProgress
          inactive,   \* <<i_1, ...>>: of every producer made, oldest first
          th,         \* [Threads -> record]: a thread's place in a call, and its locals
          mine,       \* [Threads -> Nat]: the producer the thread works with, 0 for none (history)
          exits, fails  \* bounds: threads gone, failed mallocs

vars == <<tables, usedCount, resizing, inactive, th, mine, exits, fails>>

Empty == [key |-> "empty", value |-> 0]  \* invalid_thread_id
Reusable == "reusable"                   \* invalid_thread_id2
Idle == [at |-> "idle", main |-> 0, i |-> 0, n |-> 0, p |-> 0]

\* populate_initial_implicit_producer_hash
Init ==
  /\ tables = <<[i \in 0 .. InitCap - 1 |-> Empty]>>
  /\ usedCount = 0 /\ resizing = FALSE /\ inactive = <<>>
  /\ th = [t \in Threads |-> Idle]
  /\ mine = [t \in Threads |-> 0]
  /\ exits = 0 /\ fails = 0

Newest == Len(tables)
Cap(k) == Cardinality(DOMAIN tables[k])
Fail == fails < MaxFails /\ fails' = fails + 1
Holds(k, t) == {i \in DOMAIN tables[k] : tables[k][i].key = t}
Found(t, main) == {k \in 1 .. main : Holds(k, t) /= {}}
ValueIn(k, t) == tables[k][CHOOSE i \in Holds(k, t) : TRUE].value

Goto(t, at) == th' = [th EXCEPT ![t].at = at]
Finish(t) == th' = [th EXCEPT ![t] = Idle]
\* The probe for a slot for producer p in table k starts at the thread's own slot.
Probing(t, at, k, p) == [Idle EXCEPT !.at = at, !.main = k, !.i = Hash[t] % Cap(k), !.p = p]
SlotOf(t) == tables[th[t].main][th[t].i]
Occupy(t) == tables' = [tables EXCEPT ![th[t].main][th[t].i] = [key |-> t, value |-> th[t].p]]
ProbeOn(t) == th' = [th EXCEPT ![t].i = (@ + 1) % Cap(th[t].main)]

-----------------------------------------------------------------------------
(* get_or_add_implicit_producer *)

\* The call starts: the newest table is loaded and searched with the older ones.
Search(t) ==
  /\ th[t].at = "idle"
  /\ \/ /\ Found(t, Newest) = {}
        /\ th' = [th EXCEPT ![t] = [Idle EXCEPT !.at = "count", !.main = Newest]]
     \/ \E k \in Found(t, Newest) \ {Newest} :
          /\ \A l \in Found(t, Newest) : l <= k
          /\ th' = [th EXCEPT ![t] = Probing(t, "readd", Newest, ValueIn(k, t))]
  /\ UNCHANGED <<tables, usedCount, resizing, inactive, mine, exits, fails>>

\* Found in an old table: the thread enters the one that was newest, too.  Nothing is counted.
Readd(t) ==
  /\ th[t].at = "readd"
  /\ IF SlotOf(t).key \in {Empty.key, Reusable}
     THEN Occupy(t) /\ Finish(t)
     ELSE ProbeOn(t) /\ UNCHANGED tables
  /\ UNCHANGED <<usedCount, resizing, inactive, mine, exits, fails>>

CountIn(t) ==
  /\ th[t].at = "count"
  /\ usedCount' = usedCount + 1
  /\ th' = [th EXCEPT ![t] = [@ EXCEPT !.at = "grow", !.n = usedCount + 1]]
  /\ UNCHANGED <<tables, resizing, inactive, mine, exits, fails>>

HalfFull(t, k) == th[t].n >= Cap(k) \div 2

\* Mutant: a table that is about to be full is room enough.
CheckRoomNone(t) ==
  th' = [th EXCEPT ![t] = [@ EXCEPT !.at = "recycle", !.n = 0, !.p = Len(inactive)]]

\* Less than three quarters full is room enough; else the call waits for the larger table.
CheckRoom(t) ==
  LET cap == Cap(th[t].main)
  IN  th' = IF th[t].n < cap \div 2 + cap \div 4
            THEN [th EXCEPT ![t] = [@ EXCEPT !.at = "recycle", !.n = 0, !.p = Len(inactive)]]
            ELSE [th EXCEPT ![t].at = "reload"]

\* The resize lock is tried by whoever finds the table half full.
TryLock(t) ==
  /\ th[t].at = "grow"
  /\ IF HalfFull(t, th[t].main) /\ ~resizing
     THEN resizing' = TRUE /\ Goto(t, "resize")
     ELSE CheckRoom(t) /\ UNCHANGED resizing
  /\ UNCHANGED <<tables, usedCount, inactive, mine, exits, fails>>

Reload(t) ==
  /\ th[t].at = "reload"
  /\ th' = [th EXCEPT ![t] = [@ EXCEPT !.at = "grow", !.main = Newest]]
  /\ UNCHANGED <<tables, usedCount, resizing, inactive, mine, exits, fails>>

\* The capacity, doubled until n threads fill less than half of it: the one element.
Doubled(cap, n) ==
  {c \in 1 .. 4 * n + 3 : c \div 4 <= n /\ n < c \div 2 /\ \E k \in 1 .. n + 2 : c = cap * 2 ^ k}

\* Under the lock the newest table is the one to measure; a larger one goes in front of it.
Resize(t) ==
  /\ th[t].at = "resize"
  /\ th' = [th EXCEPT ![t] = [@ EXCEPT
       !.at = "unlock", !.main = Newest + (IF HalfFull(t, Newest) THEN 1 ELSE 0)]]
  /\ IF HalfFull(t, Newest)
     THEN \E cap \in Doubled(Cap(Newest), th[t].n) : tables' = Append(tables, [i \in 0 .. cap - 1 |-> Empty])
     ELSE UNCHANGED tables
  /\ UNCHANGED <<usedCount, resizing, inactive, mine, exits, fails>>

Unlock(t) ==
  /\ th[t].at = "unlock"
  /\ resizing' = FALSE
  /\ CheckRoom(t)
  /\ UNCHANGED <<tables, usedCount, inactive, mine, exits, fails>>

\* Mutant: the lock is kept when malloc fails.
ResizeFailsLocked(t) ==
  /\ th[t].at = "resize" /\ HalfFull(t, Newest)
  /\ Fail
  /\ usedCount' = usedCount - 1
  /\ Finish(t)
  /\ UNCHANGED <<tables, resizing, inactive, mine, exits>>

\* malloc fails: the call returns null with the count and the lock given back.
ResizeFails(t) ==
  /\ th[t].at = "resize" /\ HalfFull(t, Newest)
  /\ Fail
  /\ usedCount' = usedCount - 1
  /\ resizing' = FALSE
  /\ Finish(t)
  /\ UNCHANGED <<tables, inactive, mine, exits>>

\* Mutant: the recycled producer stays marked inactive.
RecycleInactive(t) ==
  /\ th[t].at = "recycle" /\ th[t].p > 0
  /\ IF inactive[th[t].p]
     THEN /\ mine' = [mine EXCEPT ![t] = th[t].p]
          /\ th' = [th EXCEPT ![t] = Probing(t, "insert", th[t].main, th[t].p)]
     ELSE th' = [th EXCEPT ![t].p = @ - 1] /\ UNCHANGED mine
  /\ UNCHANGED <<tables, usedCount, resizing, inactive, exits, fails>>

\* recycle_or_create_producer: along the list as it was, newest first, to one that is inactive.
Recycle(t) ==
  /\ th[t].at = "recycle" /\ th[t].p > 0
  /\ IF inactive[th[t].p]
     THEN /\ inactive' = [inactive EXCEPT ![th[t].p] = FALSE]
          /\ mine' = [mine EXCEPT ![t] = th[t].p]
          /\ th' = [th EXCEPT ![t] = Probing(t, "insert", th[t].main, th[t].p)]
     ELSE th' = [th EXCEPT ![t].p = @ - 1] /\ UNCHANGED <<inactive, mine>>
  /\ UNCHANGED <<tables, usedCount, resizing, exits, fails>>

\* add_producer at the end of the list, or no memory for one.
Create(t) ==
  /\ th[t].at = "recycle" /\ th[t].p = 0
  /\ inactive' = Append(inactive, FALSE)
  /\ mine' = [mine EXCEPT ![t] = Len(inactive')]
  /\ th' = [th EXCEPT ![t] = Probing(t, "insert", th[t].main, Len(inactive'))]
  /\ UNCHANGED <<tables, usedCount, resizing, exits, fails>>

CreateFails(t) ==
  /\ th[t].at = "recycle" /\ th[t].p = 0
  /\ Fail
  /\ usedCount' = usedCount - 1
  /\ Finish(t)
  /\ UNCHANGED <<tables, resizing, inactive, mine, exits>>

\* The first slot of the probe that is reusable or empty becomes the thread's.
Insert(t) ==
  /\ th[t].at = "insert"
  /\ \/ SlotOf(t).key = Reusable /\ Occupy(t) /\ th' = [th EXCEPT ![t] = [Idle EXCEPT !.at = "uncount"]]
     \/ SlotOf(t).key = Empty.key /\ Occupy(t) /\ Finish(t)
     \/ SlotOf(t).key \in Threads /\ ProbeOn(t) /\ UNCHANGED tables
  /\ UNCHANGED <<usedCount, resizing, inactive, mine, exits, fails>>

\* A reusable slot was counted when it was first used.
Uncount(t) ==
  /\ th[t].at = "uncount"
  /\ usedCount' = usedCount - 1
  /\ Finish(t)
  /\ UNCHANGED <<tables, resizing, inactive, mine, exits, fails>>

-----------------------------------------------------------------------------
(* implicit_producer_thread_exited, in the destructor of the thread's notifier *)

Exit(t) ==
  /\ t \in Leaving /\ th[t].at = "idle" /\ mine[t] /= 0 /\ exits < MaxExits
  /\ exits' = exits + 1
  /\ th' = [th EXCEPT ![t] = [Idle EXCEPT !.at = "exit", !.main = Newest]]
  /\ UNCHANGED <<tables, usedCount, resizing, inactive, mine, fails>>

\* Mutant: the thread's key is cleared in the newest table only.
ExitClearNewest(t) ==
  /\ th[t].at = "exit" /\ th[t].main > 0
  /\ tables' = [tables EXCEPT ![th[t].main] =
       [i \in DOMAIN @ |-> IF @[i].key = t THEN [@[i] EXCEPT !.key = Reusable] ELSE @[i]]]
  /\ th' = [th EXCEPT ![t].main = 0]
  /\ UNCHANGED <<usedCount, resizing, inactive, mine, exits, fails>>

\* The thread's key is cleared in one table after the other.
ExitClear(t) ==
  /\ th[t].at = "exit" /\ th[t].main > 0
  /\ tables' = [tables EXCEPT ![th[t].main] =
       [i \in DOMAIN @ |-> IF @[i].key = t THEN [@[i] EXCEPT !.key = Reusable] ELSE @[i]]]
  /\ th' = [th EXCEPT ![t].main = @ - 1]
  /\ UNCHANGED <<usedCount, resizing, inactive, mine, exits, fails>>

\* From here on another thread may recycle the producer.
ExitRetire(t) ==
  /\ th[t].at = "exit" /\ th[t].main = 0
  /\ inactive' = [inactive EXCEPT ![mine[t]] = TRUE]
  /\ mine' = [mine EXCEPT ![t] = 0]
  /\ Finish(t)
  /\ UNCHANGED <<tables, usedCount, resizing, exits, fails>>

-----------------------------------------------------------------------------
Step(t) ==
  \/ Readd(t) \/ CountIn(t) \/ TryLock(t) \/ Resize(t) \/ Unlock(t) \/ ResizeFails(t)
  \/ Reload(t) \/ Recycle(t) \/ Create(t) \/ CreateFails(t) \/ Insert(t) \/ Uncount(t)
  \/ ExitClear(t) \/ ExitRetire(t)

Next == \E t \in Threads : Search(t) \/ Exit(t) \/ Step(t)

Spec == Init /\ [][Next]_vars

\* A thread inside a call goes on.
LiveSpec == Spec /\ \A t \in Threads : WF_vars(Step(t))

-----------------------------------------------------------------------------
\* A thread has at most one producer, and finds that one in every table that names it: two would
\* reorder the thread's own elements.
OwnProducer ==
  \A t \in Threads :
    /\ th[t].at \in {"count", "grow", "resize", "unlock", "reload", "recycle"} => mine[t] = 0
    /\ \A k \in DOMAIN tables : Holds(k, t) /= {} => mine[t] /= 0 /\ ValueIn(k, t) = mine[t]
    /\ th[t].at = "idle" /\ mine[t] /= 0 => Found(t, Newest) /= {}

\* No two threads work with one producer, and every producer has a thread or can be recycled:
\* none is shared, which its single-producer code could not stand, and none is lost.
ProducersApart ==
  /\ \A t, u \in Threads : t /= u /\ mine[t] = mine[u] => mine[t] = 0
  /\ \A p \in DOMAIN inactive : inactive[p] <=> \A t \in Threads : mine[t] /= p

\* "at least one slot is free in the hash table", so that no probe goes round for ever.  The code does
\* not keep to it when threads exit (MCStalledThreads has a schedule).
SlotFree == \A k \in DOMAIN tables : \E i \in DOMAIN tables[k] : tables[k][i].key = Empty.key

\* So it is while no thread has exited: then no slot is used again, every thread in a table is counted,
\* and the count keeps a table from filling however the threads that grow and enter it interleave.
RoomBeforeExits == exits = 0 => SlotFree

\* Every call comes to an end: the ones that wait for a larger table get it or make it.
CallsEnd == \A t \in Threads : (th[t].at /= "idle") ~> (th[t].at = "idle")
=============================================================================
