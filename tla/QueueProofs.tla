---------------------------- MODULE QueueProofs ----------------------------
(***************************************************************************)
(* Proofs about the queue's parts for every value of the constants: the    *)
(* free list's counting of references (FreeList), the counters from which  *)
(* consumers claim elements (Claims), the queues of a producer, which      *)
(* claim as Claims says and keep those counters in the range where the     *)
(* comparison of two of them is sound (MCQueues), the walks of consumers   *)
(* over the blocks they claimed positions in (ProducerBase), and the queue *)
(* of an explicit producer: its ring of blocks, and the circular block     *)
(* index that consumers read while it changes and grows (ExplicitQueue).   *)
(***************************************************************************)
EXTENDS MCQueues, FreeList, FiniteSetTheorems, WellFoundedInduction, TLAPS

-----------------------------------------------------------------------------
(* The free list.  A node's freeListRefs are always the threads that hold it, the list's own        *)
(* reference and the flag, in the combination that the node's state asks for.                        *)

Places == {"idle", "head", "refs", "pin", "next", "swing", "unpin", "taken",
           "put", "setnext", "setrefs", "link", "relink"}
PinAt == {"next", "swing", "unpin", "taken"}
FlagAt == {"put", "setnext", "setrefs"}
HolderAt == {"put", "setnext", "setrefs", "link", "relink", "taken"}

\* t keeps n from changing, or has it in its hands on the way to the list or off it.
Pins(t, n) == th[t].at \in PinAt /\ th[t].node = n
Hands(t, n) == th[t].at \in HolderAt /\ th[t].node = n
Pinned(n) == {t \in Threads : Pins(t, n)}
Handled(n) == \E t \in Threads : Hands(t, n)
\* n is on the list.
Listed(n) == n \in Nodes \ out /\ ~Handled(n) /\ refs[n] < Should

Link0 == Nodes \cup {Null}
Fields == [at : Places, node : Link0, refs : Int, seen : Link0, then : Link0]
Local == {r \in Fields : r.at \notin {"idle", "head"} => r.node \in Nodes}
Typed ==
  /\ head \in Link0 /\ next \in [Nodes -> Link0] /\ refs \in [Nodes -> Int] /\ out \subseteq Nodes
  /\ th \in [Threads -> Local]

\* A node's references, by its state: in use, flagged, linked or just taken, or neither; it is in one
\* thread's hands at most, and in no hands while it is in use.
NodeOK(n) ==
  /\ \A t, u \in Threads : Hands(t, n) /\ Hands(u, n) => t = u
  /\ n \in out => ~Handled(n) /\ refs[n] = Cardinality(Pinned(n))
  /\ \A t \in Threads : Hands(t, n) =>
       /\ th[t].at \in FlagAt => refs[n] = Should /\ Pinned(n) = {}
       /\ th[t].at \notin FlagAt => refs[n] = 1 + Cardinality(Pinned(n))
  /\ n \notin out /\ ~Handled(n) =>
       \/ refs[n] = 1 + Cardinality(Pinned(n))
       \/ refs[n] = Should + Cardinality(Pinned(n)) /\ Pinned(n) /= {}

Counts == \A n \in Nodes : NodeOK(n)

\* What a thread read is still so: no count of nothing is raised, and a held node keeps its next.
Reading ==
  \A t \in Threads :
    /\ th[t].at = "pin" => th[t].refs /= 0 /\ th[t].refs /= Should
    /\ th[t].at \in {"swing", "setrefs", "link"} => th[t].seen = next[th[t].node]

\* The list is one: from the head and from each listed node it goes to a listed node, no two of
\* them lead to the same one, and a walk from the head meets them all.
Listing ==
  /\ head /= Null => Listed(head)
  /\ \A n \in Nodes : Listed(n) /\ next[n] /= Null => Listed(next[n]) /\ next[n] /= head
  /\ \A m, n \in Nodes : Listed(m) /\ Listed(n) /\ m /= n /\ next[m] /= Null => next[m] /= next[n]
  /\ \A S \in SUBSET Nodes : Closed(S) => \A n \in Nodes : Listed(n) => n \in S

IInv == Typed /\ Counts /\ Reading /\ Listing

-----------------------------------------------------------------------------
\* A set of threads is too small to reach the flag.
LEMMA SomeThreads ==
  ASSUME NEW S, S \subseteq Threads
  PROVE  /\ IsFiniteSet(S) /\ Cardinality(S) \in Nat /\ Cardinality(S) + 2 < Should
         /\ Cardinality(S) = 0 <=> S = {}
  <1>1. /\ IsFiniteSet(S) /\ Cardinality(S) <= Cardinality(Threads)
        /\ Cardinality(S) \in Nat /\ Cardinality(Threads) \in Nat
    BY ShouldAssumption, FS_Subset, FS_CardinalityType
  <1>2. Cardinality(S) = 0 <=> S = {}
    BY <1>1, FS_EmptySet
  <1> QED BY <1>1, <1>2, ShouldAssumption

\* One more holds, or one fewer.
LEMMA OneMoreHolder ==
  ASSUME NEW S, S \subseteq Threads, NEW t, t \notin S
  PROVE  Cardinality(S \cup {t}) = Cardinality(S) + 1
  BY SomeThreads, FS_AddElement

LEMMA OneFewer ==
  ASSUME NEW S, S \subseteq Threads, NEW t, t \in S
  PROVE  Cardinality(S \ {t}) = Cardinality(S) - 1
  BY SomeThreads, FS_RemoveElement

\* Nobody has started.
LEMMA InitInv == FreeListInit => IInv
  <1> SUFFICES ASSUME FreeListInit PROVE IInv
    OBVIOUS
  <1>1. \A t \in Threads : th[t] = Idle /\ th[t].at = "idle"
    BY DEF FreeListInit, Idle
  <1>2. Typed
    BY DEF FreeListInit, Typed, Idle, Local, Fields, Places, Link0
  <1>3. \A n \in Nodes : Pinned(n) = {} /\ ~Handled(n)
    BY <1>1 DEF Pinned, Handled, Pins, Hands, PinAt, HolderAt
  <1>4. Counts
    BY <1>3, FS_EmptySet DEF FreeListInit, Counts, NodeOK, Handled
  <1>5. Reading
    BY <1>1 DEF Reading
  <1>6. Listing
    BY DEF FreeListInit, Listing, Listed
  <1> QED BY <1>2, <1>4, <1>5, <1>6 DEF IInv
-----------------------------------------------------------------------------
\* A thread's locals are typed, also those it starts a round of try_get's loop with.
LEMMA AtTyped == \A n \in Link0 : At(n) \in Local
  <1> SUFFICES ASSUME NEW n \in Link0 PROVE At(n) \in Local
    OBVIOUS
  <1>1. CASE n = Null
    BY <1>1 DEF At, Idle, Local, Fields, Places, Link0
  <1>2. CASE n /= Null
    <2>1. At(n) = [at |-> "refs", node |-> n, refs |-> 0, seen |-> Null, then |-> Null]
      BY <1>2 DEF At, Idle
    <2>2. n \in Nodes
      BY <1>2 DEF Link0
    <2>3. At(n) \in Fields
      BY <2>1, <2>2 DEF Fields, Places, Link0
    <2> QED BY <2>1, <2>2, <2>3 DEF Local
  <1> QED BY <1>1, <1>2

\* One thread goes on with locals that are typed.
LEMMA Moved ==
  ASSUME Typed, NEW t \in Threads, NEW r \in Local, th' = [th EXCEPT ![t] = r]
  PROVE  th' \in [Threads -> Local]
  BY DEF Typed

\* Every variable keeps its type.
LEMMA StepTyped == Typed /\ [FreeListNext]_freeListVars => Typed'
  <1> SUFFICES ASSUME Typed, [FreeListNext]_freeListVars PROVE Typed'
    OBVIOUS
  <1>0. \A t \in Threads : th[t] \in Local
    BY DEF Typed
  <1>1. ASSUME NEW t \in Threads, LoadHead(t) PROVE Typed'
    BY <1>1, AtTyped, Moved DEF LoadHead, Typed
  <1>2. ASSUME NEW t \in Threads, LoadRefs(t) PROVE Typed'
    <2> DEFINE r == [th[t] EXCEPT !.at = IF Count(refs[th[t].node]) = 0 THEN "head" ELSE "pin",
                                  !.refs = refs[th[t].node]]
    <2>1. th' = [th EXCEPT ![t] = r]
      BY <1>2 DEF LoadRefs, Typed
    <2>2. r \in Local
      BY <1>0, <1>2 DEF LoadRefs, Typed, Local, Fields, Places
    <2> QED BY <1>2, <2>1, <2>2, Moved DEF LoadRefs, Typed
  <1>3. ASSUME NEW t \in Threads, Pin(t) PROVE Typed'
    <2>1. ASSUME NEW at \in {"next", "head"} PROVE [th[t] EXCEPT !.at = at] \in Local
      BY <1>0, <1>3 DEF Pin, Local, Fields, Places
    <2>2. PICK at \in {"next", "head"} : th' = [th EXCEPT ![t] = [th[t] EXCEPT !.at = at]]
      BY <1>3 DEF Pin, Goto, Typed
    <2>3. refs' \in [Nodes -> Int]
      BY <1>3 DEF Pin, AddTo, Typed
    <2> QED BY <1>3, <2>1, <2>2, <2>3, Moved DEF Pin, Typed
  <1>4. ASSUME NEW t \in Threads, LoadNext(t) PROVE Typed'
    <2> DEFINE r == [th[t] EXCEPT !.at = "swing", !.seen = next[th[t].node]]
    <2>1. th' = [th EXCEPT ![t] = r]
      BY <1>4 DEF LoadNext, Typed
    <2>2. r \in Local
      BY <1>0, <1>4 DEF LoadNext, Typed, Local, Fields, Places
    <2> QED BY <1>4, <2>1, <2>2, Moved DEF LoadNext, Typed
  <1>5. ASSUME NEW t \in Threads, Swing(t) PROVE Typed'
    <2>1. /\ th[t].seen \in Link0 /\ head \in Link0
          /\ [th[t] EXCEPT !.at = "taken"] \in Local
          /\ [th[t] EXCEPT !.at = "unpin", !.seen = head] \in Local
      BY <1>0, <1>5 DEF Swing, Typed, Local, Fields, Places
    <2>2. CASE head = th[t].node
      <3>1. th' = [th EXCEPT ![t] = [th[t] EXCEPT !.at = "taken"]] /\ head' = th[t].seen
        BY <1>5, <2>2 DEF Swing, Goto, Typed
      <3> QED BY <1>5, <2>1, <3>1, Moved DEF Swing, Typed
    <2>3. CASE head /= th[t].node
      <3>1. th' = [th EXCEPT ![t] = [th[t] EXCEPT !.at = "unpin", !.seen = head]] /\ head' = head
        BY <1>5, <2>3 DEF Swing, Typed
      <3> QED BY <1>5, <2>1, <3>1, Moved DEF Swing, Typed
    <2> QED BY <2>2, <2>3
  <1>6. ASSUME NEW t \in Threads, Taken(t) PROVE Typed'
    <2>1. Idle \in Local
      BY AtTyped DEF At, Link0
    <2>2. th[t].node \in Nodes /\ refs' \in [Nodes -> Int] /\ out' \subseteq Nodes
      BY <1>0, <1>6 DEF Taken, AddTo, Typed, Local, Fields
    <2> QED BY <1>6, <2>1, <2>2, Moved DEF Taken, Typed
  <1>7. ASSUME NEW t \in Threads, Unpin(t) PROVE Typed'
    <2> DEFINE r == IF refs[th[t].node] = Should + 1
                    THEN [th[t] EXCEPT !.at = "put", !.then = th[t].seen] ELSE At(th[t].seen)
    <2>1. th' = [th EXCEPT ![t] = r]
      BY <1>7 DEF Unpin, Typed
    <2>2. th[t].seen \in Link0 /\ [th[t] EXCEPT !.at = "put", !.then = th[t].seen] \in Local
      BY <1>0, <1>7 DEF Unpin, Local, Fields, Places
    <2>3. r \in Local
      BY <2>2, AtTyped
    <2>4. refs' \in [Nodes -> Int]
      <3>1. th[t].node \in Nodes
        BY <1>0, <1>7 DEF Unpin, Local, Fields
      <3>2. refs[th[t].node] \in Int
        BY <3>1 DEF Typed
      <3> QED BY <1>7, <3>1, <3>2 DEF Unpin, AddTo, Typed
    <2> QED BY <1>7, <2>1, <2>3, <2>4, Moved DEF Unpin, Typed
  <1>8. ASSUME NEW t \in Threads, NEW n \in Nodes, Add(t, n) PROVE Typed'
    <2>1. Idle \in Local /\ [Idle EXCEPT !.at = "put", !.node = n] \in Local
      BY AtTyped DEF At, Idle, Local, Fields, Places, Link0
    <2>2. refs' \in [Nodes -> Int]
      BY <1>8, ShouldAssumption DEF Add, AddTo, Typed
    <2>3. th' \in [Threads -> Local]
      BY <1>8, <2>1, Moved DEF Add
    <2> QED BY <1>8, <2>2, <2>3 DEF Add, Typed
  <1>9. ASSUME NEW t \in Threads, PutHead(t) PROVE Typed'
    <2>1. [th[t] EXCEPT !.at = "setnext", !.seen = head] \in Local
      BY <1>0, <1>9 DEF PutHead, Typed, Local, Fields, Places
    <2>2. th' = [th EXCEPT ![t] = [th[t] EXCEPT !.at = "setnext", !.seen = head]]
      BY <1>9 DEF PutHead, Typed
    <2> QED BY <1>9, <2>1, <2>2, Moved DEF PutHead, Typed
  <1>10. ASSUME NEW t \in Threads, SetNext(t) PROVE Typed'
    <2>1. /\ [th[t] EXCEPT !.at = "setrefs"] \in Local
          /\ next' \in [Nodes -> Link0]
      BY <1>0, <1>10 DEF SetNext, Typed, Local, Fields, Places
    <2>2. th' = [th EXCEPT ![t] = [th[t] EXCEPT !.at = "setrefs"]]
      BY <1>10 DEF SetNext, Goto, Typed
    <2> QED BY <1>10, <2>1, <2>2, Moved DEF SetNext, Typed
  <1>11. ASSUME NEW t \in Threads, SetRefs(t) PROVE Typed'
    <2>1. [th[t] EXCEPT !.at = "link"] \in Local /\ refs' \in [Nodes -> Int]
      BY <1>0, <1>11 DEF SetRefs, Typed, Local, Fields, Places
    <2>2. th' = [th EXCEPT ![t] = [th[t] EXCEPT !.at = "link"]]
      BY <1>11 DEF SetRefs, Goto, Typed
    <2> QED BY <1>11, <2>1, <2>2, Moved DEF SetRefs, Typed
  <1>12. ASSUME NEW t \in Threads, Link(t) PROVE Typed'
    <2>1. /\ th[t].node \in Link0 /\ th[t].then \in Link0
          /\ [th[t] EXCEPT !.at = "relink", !.seen = head] \in Local
      BY <1>0, <1>12 DEF Link, Typed, Local, Fields, Places, Link0
    <2>2. CASE head = th[t].seen
      BY <1>12, <2>1, <2>2, AtTyped, Moved DEF Link, Typed
    <2>3. CASE head /= th[t].seen
      <3>1. th' = [th EXCEPT ![t] = [th[t] EXCEPT !.at = "relink", !.seen = head]]
        BY <1>12, <2>3 DEF Link, Typed
      <3> QED BY <1>12, <2>1, <2>3, <3>1, Moved DEF Link, Typed
    <2> QED BY <2>2, <2>3
  <1>13. ASSUME NEW t \in Threads, Relink(t) PROVE Typed'
    <2> DEFINE r == IF refs[th[t].node] = 1 THEN [th[t] EXCEPT !.at = "setnext"] ELSE At(th[t].then)
    <2>1. th' = [th EXCEPT ![t] = r]
      BY <1>13 DEF Relink, Typed
    <2>2. th[t].then \in Link0 /\ [th[t] EXCEPT !.at = "setnext"] \in Local
      BY <1>0, <1>13 DEF Relink, Local, Fields, Places
    <2>3. r \in Local
      BY <2>2, AtTyped
    <2>4. refs' \in [Nodes -> Int]
      <3>1. th[t].node \in Nodes
        BY <1>0, <1>13 DEF Relink, Local, Fields
      <3>2. refs[th[t].node] \in Int
        BY <3>1 DEF Typed
      <3> QED BY <1>13, <3>1, <3>2, ShouldAssumption DEF Relink, AddTo, Typed
    <2> QED BY <1>13, <2>1, <2>3, <2>4, Moved DEF Relink, Typed
  <1>14. CASE UNCHANGED freeListVars
    BY <1>14 DEF freeListVars, Typed
  <1> QED BY <1>1, <1>2, <1>3, <1>4, <1>5, <1>6, <1>7, <1>8, <1>9, <1>10, <1>11, <1>12, <1>13, <1>14
          DEF FreeListNext, Step
-----------------------------------------------------------------------------
\* How many hold n, and how a step of one thread changes it.
LEMMA PinnedType ==
  ASSUME NEW n
  PROVE  /\ Cardinality(Pinned(n)) \in Nat /\ Cardinality(Pinned(n)) + 2 < Should
         /\ Cardinality(Pinned(n)) = 0 <=> Pinned(n) = {}
  BY SomeThreads, Pinned(n) \subseteq Threads DEF Pinned

LEMMA PinnedTypeNext ==
  ASSUME NEW n
  PROVE  /\ Cardinality(Pinned(n)') \in Nat /\ Cardinality(Pinned(n)') + 2 < Should
         /\ Cardinality(Pinned(n)') = 0 <=> Pinned(n)' = {}
  BY SomeThreads, Pinned(n)' \subseteq Threads DEF Pinned

\* The other threads stay where they are.
Others(t) == \A u \in Threads \ {t} : th'[u] = th[u]

LEMMA PinnedStep ==
  ASSUME NEW t \in Threads, Others(t), NEW n
  PROVE  /\ (Pins(t, n)' <=> Pins(t, n)) => Pinned(n)' = Pinned(n)
         /\ Pins(t, n)' /\ ~Pins(t, n) => Cardinality(Pinned(n)') = Cardinality(Pinned(n)) + 1
         /\ ~Pins(t, n)' /\ Pins(t, n) => Cardinality(Pinned(n)') = Cardinality(Pinned(n)) - 1
  <1>0. Pinned(n) \subseteq Threads
    BY DEF Pinned
  <1>1. ASSUME Pins(t, n)' <=> Pins(t, n) PROVE Pinned(n)' = Pinned(n)
    BY <1>1 DEF Pinned, Pins, Others
  <1>2. ASSUME Pins(t, n)', ~Pins(t, n) PROVE Cardinality(Pinned(n)') = Cardinality(Pinned(n)) + 1
    <2>1. Pinned(n)' = Pinned(n) \cup {t} /\ t \notin Pinned(n)
      BY <1>2 DEF Pinned, Pins, Others
    <2> QED BY <1>0, <2>1, OneMoreHolder
  <1>3. ASSUME ~Pins(t, n)', Pins(t, n) PROVE Cardinality(Pinned(n)') = Cardinality(Pinned(n)) - 1
    <2>1. Pinned(n)' = Pinned(n) \ {t} /\ t \in Pinned(n)
      BY <1>3 DEF Pinned, Pins, Others
    <2> QED BY <1>0, <2>1, OneFewer
  <1> QED BY <1>1, <1>2, <1>3

\* A step of t that does not pin n, unpin it or move it between its states keeps n's references right.
LEMMA Undisturbed ==
  ASSUME NEW t \in Threads, Others(t), NEW n \in Nodes, NodeOK(n),
         refs'[n] = refs[n], n \in out' <=> n \in out,
         Pins(t, n)' <=> Pins(t, n), Hands(t, n)' <=> Hands(t, n),
         Hands(t, n) => (th'[t].at \in FlagAt <=> th[t].at \in FlagAt)
  PROVE  NodeOK(n)' /\ (Handled(n)' <=> Handled(n))
  <1>1. Pinned(n)' = Pinned(n)
    BY PinnedStep
  <1>2. \A u \in Threads : /\ Hands(u, n)' <=> Hands(u, n)
                           /\ Hands(u, n) => (th'[u].at \in FlagAt <=> th[u].at \in FlagAt)
    BY DEF Others, Hands
  <1>3. Handled(n)' <=> Handled(n)
    BY <1>2 DEF Handled
  <1>4. NodeOK(n)'
    <2> HIDE DEF Pinned, Handled, Hands
    <2> QED BY <1>1, <1>2, <1>3 DEF NodeOK
  <1> QED BY <1>3, <1>4
-----------------------------------------------------------------------------
\* Every step keeps the references of every node right: all but one node are left alone.
LEMMA AtPlace == \A n : At(n).at \in {"idle", "refs"}
  BY DEF At, Idle

LEMMA StepCounts == IInv /\ [FreeListNext]_freeListVars => Counts'
  <1> SUFFICES ASSUME Typed, Counts, Reading, Listing, [FreeListNext]_freeListVars PROVE Counts'
    BY DEF IInv
  <1>0. \A t \in Threads : th[t] \in Local
    BY DEF Typed
  <1>1. ASSUME NEW t \in Threads, LoadHead(t) PROVE Counts'
    <2>1. Others(t) /\ UNCHANGED <<refs, out>> /\ th[t].at \in {"idle", "head"}
      BY <1>1 DEF LoadHead, Others, Typed
    <2>2. th'[t].at \in {"idle", "refs"}
      BY <1>1, AtPlace DEF LoadHead, Typed, Local, Fields
    <2> QED BY <2>1, <2>2, Undisturbed DEF Counts, Pins, Hands, PinAt, HolderAt, FlagAt
  <1>2. ASSUME NEW t \in Threads, LoadRefs(t) PROVE Counts'
    <2>1. Others(t) /\ UNCHANGED <<refs, out>> /\ th[t].at = "refs"
      BY <1>2 DEF LoadRefs, Others, Typed
    <2>2. th'[t].at \in {"head", "pin"}
      BY <1>2 DEF LoadRefs, Typed, Local, Fields
    <2> QED BY <2>1, <2>2, Undisturbed DEF Counts, Pins, Hands, PinAt, HolderAt, FlagAt
  <1>4. ASSUME NEW t \in Threads, LoadNext(t) PROVE Counts'
    <2>1. Others(t) /\ UNCHANGED <<refs, out>> /\ th[t].at = "next"
      BY <1>4 DEF LoadNext, Others, Typed
    <2>2. th'[t].at = "swing" /\ th'[t].node = th[t].node
      BY <1>4 DEF LoadNext, Typed, Local, Fields
    <2> QED BY <2>1, <2>2, Undisturbed DEF Counts, Pins, Hands, PinAt, HolderAt, FlagAt
  <1>9. ASSUME NEW t \in Threads, PutHead(t) PROVE Counts'
    <2>1. Others(t) /\ UNCHANGED <<refs, out>> /\ th[t].at = "put"
      BY <1>9 DEF PutHead, Others, Typed
    <2>2. th'[t].at = "setnext" /\ th'[t].node = th[t].node
      BY <1>9 DEF PutHead, Typed, Local, Fields
    <2> QED BY <2>1, <2>2, Undisturbed DEF Counts, Pins, Hands, PinAt, HolderAt, FlagAt
  <1>10. ASSUME NEW t \in Threads, SetNext(t) PROVE Counts'
    <2>1. Others(t) /\ UNCHANGED <<refs, out>> /\ th[t].at = "setnext"
      BY <1>10 DEF SetNext, Others, Typed, Goto
    <2>2. th'[t].at = "setrefs" /\ th'[t].node = th[t].node
      BY <1>10 DEF SetNext, Typed, Local, Fields, Goto
    <2> QED BY <2>1, <2>2, Undisturbed DEF Counts, Pins, Hands, PinAt, HolderAt, FlagAt
  <1>3. ASSUME NEW t \in Threads, Pin(t) PROVE Counts'
    <2>0. PICK x \in Nodes : x = th[t].node
      BY <1>0, <1>3 DEF Pin, Local, Fields
    <2>1. Others(t) /\ out' = out /\ th[t].at = "pin" /\ x \in Nodes /\ th'[t].node = x
      BY <2>0, <1>0, <1>3 DEF Pin, Others, Typed, Goto, Local, Fields
    <2>2. CASE refs[x] = th[t].refs
      <3>1. /\ th'[t].at = "next" /\ refs'[x] = refs[x] + 1 /\ refs[x] \in Int
            /\ \A n \in Nodes : n /= x => refs'[n] = refs[n]
        BY <2>0, <1>0, <1>3, <2>1, <2>2 DEF Pin, Typed, Goto, AddTo, Local, Fields
      <3>2. \A n \in Nodes : n /= x => NodeOK(n)'
        BY <2>0, <2>1, <3>1, Undisturbed DEF Counts, Pins, Hands
      <3>3. refs[x] /= Should
        BY <2>0, <2>1, <2>2 DEF Reading
      <3>4. Cardinality(Pinned(x)') = Cardinality(Pinned(x)) + 1
        BY <2>0, <2>1, <3>1, PinnedStep DEF Pins, PinAt
      <3>5. \A u \in Threads : /\ Hands(u, x)' <=> Hands(u, x)
                               /\ Hands(u, x) => th'[u].at = th[u].at
        BY <2>0, <2>1, <3>1 DEF Others, Hands, HolderAt
      <3>6. NodeOK(x)'
        <4>1. NodeOK(x) /\ (Handled(x)' <=> Handled(x))
          BY <2>0, <2>1, <3>5 DEF Counts, Handled
        <4> HIDE DEF Pinned, Handled, Hands
        <4> QED BY <2>0, <2>1, <3>1, <3>3, <3>4, <3>5, <4>1, PinnedType, PinnedTypeNext, ShouldAssumption DEF NodeOK
      <3> QED BY <2>0, <3>2, <3>6 DEF Counts
    <2>3. CASE refs[x] /= th[t].refs
      <3>1. th'[t].at = "head" /\ refs' = refs
        BY <2>0, <1>3, <2>3 DEF Pin, Goto, Typed, Local, Fields
      <3> QED BY <2>0, <2>1, <3>1, Undisturbed DEF Counts, Pins, Hands, PinAt, HolderAt, FlagAt
    <2> QED BY <2>0, <2>2, <2>3
  <1>5. ASSUME NEW t \in Threads, Swing(t) PROVE Counts'
    <2>0. PICK x \in Nodes : x = th[t].node
      BY <1>0, <1>5 DEF Swing, Local, Fields
    <2>1. Others(t) /\ UNCHANGED <<refs, out>> /\ th[t].at = "swing" /\ x \in Nodes /\ th'[t].node = x
      BY <2>0, <1>0, <1>5 DEF Swing, Others, Typed, Goto, Local, Fields
    <2>2. CASE head = x
      <3>1. th'[t].at = "taken"
        BY <2>0, <1>0, <1>5, <2>2 DEF Swing, Typed, Goto, Local, Fields
      <3>2. \A n \in Nodes : n /= x => NodeOK(n)'
        BY <2>0, <2>1, <3>1, Undisturbed DEF Counts, Pins, Hands
      <3>3. x \notin out /\ ~Handled(x) /\ refs[x] < Should
        BY <2>0, <2>1, <2>2, NodesAssumption DEF Listing, Listed
      <3>4. Pinned(x)' = Pinned(x)
        BY <2>0, <2>1, <3>1, PinnedStep DEF Pins, PinAt
      <3>5. \A u \in Threads : Hands(u, x)' <=> u = t
        BY <2>0, <2>1, <3>1, <3>3 DEF Others, Handled, Hands, HolderAt
      <3>6. refs[x] = 1 + Cardinality(Pinned(x))
        BY <2>0, <2>1, <3>3, PinnedType, ShouldAssumption DEF Counts, NodeOK
      <3>7. NodeOK(x)'
        <4> HIDE DEF Pinned, Hands
        <4> QED BY <2>0, <2>1, <3>1, <3>3, <3>4, <3>5, <3>6 DEF NodeOK, Handled, FlagAt
      <3> QED BY <2>0, <3>2, <3>7 DEF Counts
    <2>3. CASE head /= x
      <3>1. th'[t].at = "unpin"
        BY <2>0, <1>5, <2>3 DEF Swing, Typed, Local, Fields
      <3> QED BY <2>0, <2>1, <3>1, Undisturbed DEF Counts, Pins, Hands, PinAt, HolderAt, FlagAt
    <2> QED BY <2>0, <2>2, <2>3
  <1>6. ASSUME NEW t \in Threads, Taken(t) PROVE Counts'
    <2>0. PICK x \in Nodes : x = th[t].node
      BY <1>0, <1>6 DEF Taken, Local, Fields
    <2>1. Others(t) /\ th[t].at = "taken" /\ x \in Nodes /\ out' = out \cup {x} /\ th'[t].at = "idle"
      BY <2>0, <1>0, <1>6 DEF Taken, Others, Typed, Local, Fields, Idle
    <2>2. refs'[x] = refs[x] - 2 /\ \A n \in Nodes : n /= x => refs'[n] = refs[n]
      BY <2>0, <1>6, <2>1 DEF Taken, AddTo, Typed
    <2>3. \A n \in Nodes : n /= x => NodeOK(n)'
      BY <2>0, <2>1, <2>2, Undisturbed DEF Counts, Pins, Hands, PinAt, HolderAt
    <2>4. Hands(t, x) /\ NodeOK(x)
      BY <2>0, <2>1 DEF Counts, Hands, HolderAt
    <2>5. refs[x] = 1 + Cardinality(Pinned(x))
      BY <2>0, <2>1, <2>4 DEF NodeOK, FlagAt
    <2>6. Cardinality(Pinned(x)') = Cardinality(Pinned(x)) - 1
      BY <2>0, <2>1, PinnedStep DEF Pins, PinAt
    <2>7. \A u \in Threads : ~Hands(u, x)'
      BY <2>0, <2>1, <2>4 DEF Others, NodeOK, Hands, HolderAt
    <2>8. NodeOK(x)'
      <3> HIDE DEF Pinned, Hands
      <3> QED BY <2>0, <2>1, <2>2, <2>5, <2>6, <2>7, PinnedType DEF NodeOK, Handled
    <2> QED BY <2>0, <2>3, <2>8 DEF Counts
  <1>7. ASSUME NEW t \in Threads, Unpin(t) PROVE Counts'
    <2>0. PICK x \in Nodes : x = th[t].node
      BY <1>0, <1>7 DEF Unpin, Local, Fields
    <2>1. Others(t) /\ out' = out /\ th[t].at = "unpin" /\ x \in Nodes
      BY <2>0, <1>0, <1>7 DEF Unpin, Others, Typed, Local, Fields
    <2>2. /\ refs'[x] = refs[x] - 1 /\ \A n \in Nodes : n /= x => refs'[n] = refs[n]
          /\ refs[x] \in Int
      BY <2>0, <1>7, <2>1 DEF Unpin, AddTo, Typed
    <2>3. IF refs[x] = Should + 1 THEN th'[t].at = "put" /\ th'[t].node = x
                                  ELSE th'[t].at \in {"idle", "refs"}
      BY <2>0, <1>0, <1>7, AtPlace DEF Unpin, Typed, Local, Fields
    <2>4. \A n \in Nodes : n /= x => NodeOK(n)'
      BY <2>0, <2>1, <2>2, <2>3, Undisturbed DEF Counts, Pins, Hands, PinAt, HolderAt
    <2>5. Cardinality(Pinned(x)') = Cardinality(Pinned(x)) - 1
      BY <2>0, <2>1, <2>3, PinnedStep DEF Pins, PinAt
    <2>6. NodeOK(x)
      BY <2>0, <2>1 DEF Counts
    <2>7. \A u \in Threads : u /= t => (Hands(u, x)' <=> Hands(u, x)) /\ th'[u] = th[u]
      BY <2>0, <2>1 DEF Others, Hands
    <2>8. ~Hands(t, x) /\ (Hands(t, x)' <=> refs[x] = Should + 1)
      BY <2>0, <2>1, <2>3 DEF Hands, HolderAt
    <2>9. Pinned(x) /= {}
      BY <2>0, <2>1 DEF Pinned, Pins, PinAt
    <2>10. CASE refs[x] = Should + 1
      <3>1. ~Handled(x) /\ x \notin out /\ Cardinality(Pinned(x)) = 1
        <4> HIDE DEF Pinned, Hands
        <4> QED BY <2>0, <2>2, <2>6, <2>9, <2>10, PinnedType, ShouldAssumption DEF NodeOK, Handled
      <3>2. Pinned(x)' = {}
        BY <2>0, <2>5, <3>1, PinnedTypeNext
      <3>3. \A u \in Threads : Hands(u, x)' <=> u = t
        BY <2>0, <2>7, <2>8, <2>10, <3>1 DEF Handled
      <3>4. NodeOK(x)'
        <4> HIDE DEF Pinned, Hands
        <4> QED BY <2>0, <2>1, <2>2, <2>3, <2>10, <3>1, <3>2, <3>3, ShouldAssumption DEF NodeOK, Handled, FlagAt
      <3> QED BY <2>0, <2>4, <3>4 DEF Counts
    <2>11. CASE refs[x] /= Should + 1
      <3>1. \A u \in Threads : (Hands(u, x)' <=> Hands(u, x)) /\ (Hands(u, x) => th'[u] = th[u])
        BY <2>0, <2>7, <2>8, <2>11
      <3>2. Handled(x)' <=> Handled(x)
        BY <2>0, <3>1 DEF Handled
      <3>3. NodeOK(x)'
        <4> HIDE DEF Pinned, Hands, Handled
        <4> QED BY <2>0, <2>1, <2>2, <2>5, <2>6, <2>9, <2>11, <3>1, <3>2, PinnedType, PinnedTypeNext,
                   ShouldAssumption DEF NodeOK
      <3> QED BY <2>0, <2>4, <3>3 DEF Counts
    <2> QED BY <2>0, <2>10, <2>11
  <1>8. ASSUME NEW t \in Threads, NEW x \in Nodes, Add(t, x) PROVE Counts'
    <2>1. Others(t) /\ th[t].at = "idle" /\ x \in out /\ out' = out \ {x}
      BY <1>8 DEF Add, Others, Typed
    <2>2. refs'[x] = refs[x] + Should /\ \A n \in Nodes : n /= x => refs'[n] = refs[n]
      BY <1>8 DEF Add, AddTo, Typed
    <2>3. IF refs[x] = 0 THEN th'[t].at = "put" /\ th'[t].node = x ELSE th'[t].at = "idle"
      BY <1>8 DEF Add, Typed, Idle
    <2>4. \A n \in Nodes : n /= x => NodeOK(n)'
      BY <2>1, <2>2, <2>3, Undisturbed DEF Counts, Pins, Hands, PinAt, HolderAt
    <2>5. Pinned(x)' = Pinned(x)
      BY <2>1, <2>3, PinnedStep DEF Pins, PinAt
    <2>6. ~Handled(x) /\ refs[x] = Cardinality(Pinned(x))
      BY <2>1 DEF Counts, NodeOK
    <2>7. \A u \in Threads : Hands(u, x)' <=> u = t /\ refs[x] = 0
      BY <2>1, <2>3, <2>6 DEF Others, Handled, Hands, HolderAt
    <2>8. refs[x] = 0 <=> Pinned(x) = {}
      BY <2>6, PinnedType
    <2>9. NodeOK(x)'
      <3> HIDE DEF Pinned, Hands
      <3> QED BY <2>1, <2>2, <2>3, <2>5, <2>6, <2>7, <2>8, PinnedType, ShouldAssumption
              DEF NodeOK, Handled, FlagAt
    <2> QED BY <2>4, <2>9 DEF Counts
  <1>11. ASSUME NEW t \in Threads, SetRefs(t) PROVE Counts'
    <2>0. PICK x \in Nodes : x = th[t].node
      BY <1>0, <1>11 DEF SetRefs, Local, Fields
    <2>1. /\ Others(t) /\ out' = out /\ th[t].at = "setrefs"
          /\ th'[t].at = "link" /\ th'[t].node = x
      BY <2>0, <1>0, <1>11 DEF SetRefs, Others, Typed, Goto, Local, Fields
    <2>2. refs'[x] = 1 /\ \A n \in Nodes : n /= x => refs'[n] = refs[n]
      BY <2>0, <1>11 DEF SetRefs, Typed
    <2>3. \A n \in Nodes : n /= x => NodeOK(n)'
      BY <2>0, <2>1, <2>2, Undisturbed DEF Counts, Pins, Hands, PinAt, HolderAt
    <2>4. Hands(t, x) /\ NodeOK(x)
      BY <2>0, <2>1 DEF Counts, Hands, HolderAt
    <2>5. Pinned(x) = {} /\ x \notin out
      BY <2>0, <2>1, <2>4 DEF NodeOK, FlagAt, Handled
    <2>6. Pinned(x)' = {}
      BY <2>0, <2>1, <2>5, PinnedStep DEF Pins, PinAt
    <2>7. \A u \in Threads : Hands(u, x)' <=> u = t
      BY <2>0, <2>1, <2>4 DEF Others, NodeOK, Hands, HolderAt
    <2>8. NodeOK(x)'
      <3> HIDE DEF Pinned, Hands
      <3> QED BY <2>0, <2>1, <2>2, <2>5, <2>6, <2>7, FS_EmptySet DEF NodeOK, Handled, FlagAt
    <2> QED BY <2>0, <2>3, <2>8 DEF Counts
  <1>12. ASSUME NEW t \in Threads, Link(t) PROVE Counts'
    <2>0. PICK x \in Nodes : x = th[t].node
      BY <1>0, <1>12 DEF Link, Local, Fields
    <2>1. Others(t) /\ UNCHANGED <<refs, out>> /\ th[t].at = "link"
      BY <2>0, <1>0, <1>12 DEF Link, Others, Typed, Local, Fields
    <2>2. CASE head = th[t].seen
      <3>1. th'[t].at \in {"idle", "refs"}
        BY <2>0, <1>12, <2>2, AtPlace DEF Link, Typed, Local, Fields
      <3>2. \A n \in Nodes : n /= x => NodeOK(n)'
        BY <2>0, <2>1, <3>1, Undisturbed DEF Counts, Pins, Hands, PinAt, HolderAt
      <3>3. Hands(t, x) /\ NodeOK(x)
        BY <2>0, <2>1 DEF Counts, Hands, HolderAt
      <3>4. refs[x] = 1 + Cardinality(Pinned(x)) /\ x \notin out
        BY <2>0, <2>1, <3>3 DEF NodeOK, FlagAt, Handled
      <3>5. Pinned(x)' = Pinned(x)
        BY <2>0, <2>1, <3>1, PinnedStep DEF Pins, PinAt
      <3>6. \A u \in Threads : ~Hands(u, x)'
        BY <2>0, <2>1, <3>1, <3>3 DEF Others, NodeOK, Hands, HolderAt
      <3>7. NodeOK(x)'
        <4> HIDE DEF Pinned, Hands
        <4> QED BY <2>0, <2>1, <3>4, <3>5, <3>6 DEF NodeOK, Handled
      <3> QED BY <2>0, <3>2, <3>7 DEF Counts
    <2>3. CASE head /= th[t].seen
      <3>1. th'[t].at = "relink" /\ th'[t].node = x
        BY <2>0, <1>12, <2>3 DEF Link, Typed, Local, Fields
      <3> QED BY <2>0, <2>1, <3>1, Undisturbed DEF Counts, Pins, Hands, PinAt, HolderAt, FlagAt
    <2> QED BY <2>0, <2>2, <2>3
  <1>13. ASSUME NEW t \in Threads, Relink(t) PROVE Counts'
    <2>0. PICK x \in Nodes : x = th[t].node
      BY <1>0, <1>13 DEF Relink, Local, Fields
    <2>1. Others(t) /\ out' = out /\ th[t].at = "relink"
      BY <2>0, <1>0, <1>13 DEF Relink, Others, Typed, Local, Fields
    <2>2. refs'[x] = refs[x] + (Should - 1) /\ \A n \in Nodes : n /= x => refs'[n] = refs[n]
      BY <2>0, <1>13 DEF Relink, AddTo, Typed
    <2>3. IF refs[x] = 1 THEN th'[t].at = "setnext" /\ th'[t].node = x
                        ELSE th'[t].at \in {"idle", "refs"}
      BY <2>0, <1>0, <1>13, AtPlace DEF Relink, Typed, Local, Fields
    <2>4. \A n \in Nodes : n /= x => NodeOK(n)'
      BY <2>0, <2>1, <2>2, <2>3, Undisturbed DEF Counts, Pins, Hands, PinAt, HolderAt
    <2>5. Hands(t, x) /\ NodeOK(x)
      BY <2>0, <2>1 DEF Counts, Hands, HolderAt
    <2>6. refs[x] = 1 + Cardinality(Pinned(x)) /\ x \notin out
      BY <2>0, <2>1, <2>5 DEF NodeOK, FlagAt, Handled
    <2>7. Pinned(x)' = Pinned(x)
      BY <2>0, <2>1, <2>3, PinnedStep DEF Pins, PinAt
    <2>8. \A u \in Threads : Hands(u, x)' <=> u = t /\ refs[x] = 1
      BY <2>0, <2>1, <2>3, <2>5 DEF Others, NodeOK, Hands, HolderAt
    <2>9. refs[x] = 1 <=> Pinned(x) = {}
      BY <2>0, <2>6, PinnedType
    <2>10. NodeOK(x)'
      <3> HIDE DEF Pinned, Hands
      <3> QED BY <2>0, <2>1, <2>2, <2>3, <2>6, <2>7, <2>8, <2>9, PinnedType, ShouldAssumption
              DEF NodeOK, Handled, FlagAt
    <2> QED BY <2>0, <2>4, <2>10 DEF Counts
  <1>14. CASE UNCHANGED freeListVars
    BY <1>14 DEF freeListVars, Counts, NodeOK, Pinned, Handled, Pins, Hands
  <1> QED BY <1>1, <1>2, <1>3, <1>4, <1>5, <1>6, <1>7, <1>8, <1>9, <1>10, <1>11, <1>12, <1>13, <1>14
          DEF FreeListNext, Step
-----------------------------------------------------------------------------
\* What t read stays so: next changes only for a node that t has in its hands and nobody pins.
LEMMA StepReading == IInv /\ [FreeListNext]_freeListVars => Reading'
  <1> SUFFICES ASSUME Typed, Counts, Reading, [FreeListNext]_freeListVars PROVE Reading'
    BY DEF IInv
  <1>0. \A t \in Threads : th[t] \in Local
    BY DEF Typed
  <1>1. ASSUME NEW t \in Threads, Others(t), next' = next,
               th'[t].at = "pin" => th'[t].refs /= 0 /\ th'[t].refs /= Should,
               th'[t].at \in {"swing", "setrefs", "link"} => th'[t].seen = next[th'[t].node]
        PROVE  Reading'
    BY <1>1 DEF Reading, Others
  <1>2. ASSUME NEW t \in Threads,
               LoadHead(t) \/ Pin(t) \/ Taken(t) \/ Unpin(t) \/ PutHead(t) \/ Link(t) \/ Relink(t)
        PROVE  Reading'
    <2>1. Others(t) /\ next' = next
      BY <1>2 DEF LoadHead, Pin, Taken, Unpin, PutHead, Link, Relink, Goto, Others, Typed
    <2>2. th'[t].at \notin {"pin", "swing", "setrefs", "link"}
      <3>1. CASE LoadHead(t) \/ Taken(t)
        BY <3>1, AtPlace DEF LoadHead, Taken, Typed, Idle
      <3>2. CASE Pin(t) \/ PutHead(t)
        BY <1>0, <3>2 DEF Pin, PutHead, Goto, Typed, Local, Fields
      <3>3. CASE Unpin(t)
        BY <1>0, <3>3, AtPlace DEF Unpin, Typed, Local, Fields
      <3>4. CASE Link(t)
        BY <1>0, <3>4, AtPlace DEF Link, Typed, Local, Fields
      <3>5. CASE Relink(t)
        BY <1>0, <3>5, AtPlace DEF Relink, Typed, Local, Fields
      <3> QED BY <1>2, <3>1, <3>2, <3>3, <3>4, <3>5
    <2> QED BY <1>1, <2>1, <2>2
  <1>3. ASSUME NEW t \in Threads, LoadRefs(t) PROVE Reading'
    <2>1. Others(t) /\ next' = next
      BY <1>3 DEF LoadRefs, Others, Typed
    <2>2. th'[t].at \in {"head", "pin"} /\ (th'[t].at = "pin" => Count(th'[t].refs) /= 0)
      BY <1>0, <1>3 DEF LoadRefs, Typed, Local, Fields
    <2>3. th'[t].at = "pin" => th'[t].refs /= 0 /\ th'[t].refs /= Should
      BY <2>2, ShouldAssumption DEF Count
    <2> QED BY <1>1, <2>1, <2>2, <2>3
  <1>4. ASSUME NEW t \in Threads, LoadNext(t) PROVE Reading'
    <2>1. /\ Others(t) /\ next' = next /\ th'[t].at = "swing"
          /\ th'[t].node = th[t].node /\ th'[t].seen = next[th[t].node]
      BY <1>0, <1>4 DEF LoadNext, Others, Typed, Local, Fields
    <2> QED BY <1>1, <2>1
  <1>5. ASSUME NEW t \in Threads, Swing(t) PROVE Reading'
    <2>1. Others(t) /\ next' = next
      BY <1>5 DEF Swing, Goto, Others, Typed
    <2>2. th'[t].at \in {"taken", "unpin"}
      BY <1>0, <1>5 DEF Swing, Goto, Typed, Local, Fields
    <2> QED BY <1>1, <2>1, <2>2
  <1>6. ASSUME NEW t \in Threads, NEW n \in Nodes, Add(t, n) PROVE Reading'
    <2>1. Others(t) /\ next' = next
      BY <1>6 DEF Add, Others, Typed
    <2>2. th'[t].at \in {"idle", "put"}
      BY <1>6 DEF Add, Typed, Idle
    <2> QED BY <1>1, <2>1, <2>2
  <1>7. ASSUME NEW t \in Threads, SetRefs(t) PROVE Reading'
    <2>1. /\ Others(t) /\ next' = next /\ th[t].at = "setrefs" /\ th'[t].at = "link"
          /\ th'[t].node = th[t].node /\ th'[t].seen = th[t].seen
      BY <1>0, <1>7 DEF SetRefs, Goto, Others, Typed, Local, Fields
    <2> QED BY <1>1, <2>1 DEF Reading
  <1>8. ASSUME NEW t \in Threads, SetNext(t) PROVE Reading'
    <2>0. PICK x \in Nodes : x = th[t].node
      BY <1>0, <1>8 DEF SetNext, Local, Fields
    <2>1. /\ Others(t) /\ th[t].at = "setnext" /\ th'[t].at = "setrefs"
          /\ th'[t].node = x /\ th'[t].seen = th[t].seen
          /\ next' = [next EXCEPT ![x] = th[t].seen]
      BY <1>0, <1>8, <2>0 DEF SetNext, Goto, Others, Typed, Local, Fields
    <2>2. Pinned(x) = {} /\ \A u \in Threads : Hands(u, x) => u = t
      BY <2>0, <2>1 DEF Counts, NodeOK, Hands, HolderAt, FlagAt
    <2>3. \A u \in Threads \ {t} : th[u].at \in {"swing", "setrefs", "link"} => th[u].node /= x
      BY <2>2 DEF Pinned, Pins, Hands, PinAt, HolderAt
    <2>4. \A u \in Threads \ {t} : th[u].at \in {"swing", "setrefs", "link"} =>
                                  th[u].seen = next'[th[u].node]
      BY <1>0, <2>1, <2>3 DEF Reading, Typed, Local, Fields
    <2>5. th'[t].seen = next'[x]
      BY <2>1 DEF Typed
    <2>6. \A u \in Threads \ {t} : th[u].at = "pin" => th[u].refs /= 0 /\ th[u].refs /= Should
      BY DEF Reading
    <2> QED BY <2>1, <2>4, <2>5, <2>6 DEF Reading, Others
  <1>9. CASE UNCHANGED freeListVars
    BY <1>9 DEF freeListVars, Reading
  <1> QED BY <1>2, <1>3, <1>4, <1>5, <1>6, <1>7, <1>8, <1>9 DEF FreeListNext, Step
-----------------------------------------------------------------------------
\* A step that leaves n's references, use and hands alone leaves n where it is.
LEMMA ListedStep ==
  ASSUME NEW t \in Threads, Others(t), NEW n \in Nodes,
         refs'[n] = refs[n], n \in out' <=> n \in out, Hands(t, n)' <=> Hands(t, n)
  PROVE  Listed(n)' <=> Listed(n)
  <1>1. \A u \in Threads : Hands(u, n)' <=> Hands(u, n)
    BY DEF Others, Hands
  <1> QED BY <1>1 DEF Listed, Handled

\* The list stays one when the same nodes are on it, in the same order.
LEMMA ListingSame ==
  ASSUME Typed, Listing, head' = head, \A n \in Nodes : Listed(n)' <=> Listed(n),
         \A n \in Nodes : Listed(n) => next'[n] = next[n]
  PROVE  Listing'
  <1>1. (head /= Null => Listed(head))'
    <2>1. \A y : y /= Null /\ y = head => Listed(y)'
      BY DEF Listing, Listed
    <2> QED BY <2>1
  <1>2. ASSUME NEW n \in Nodes, Listed(n)', NEW y, y = next'[n], y /= Null
        PROVE  Listed(y)' /\ y /= head'
    BY <1>2 DEF Listing, Listed
  <1>3. \A n \in Nodes : (Listed(n) /\ next[n] /= Null => Listed(next[n]) /\ next[n] /= head)'
    BY <1>2
  <1>4. \A m, n \in Nodes : (Listed(m) /\ Listed(n) /\ m /= n /\ next[m] /= Null => next[m] /= next[n])'
    BY DEF Listing
  <1>5. ASSUME NEW S \in SUBSET Nodes, Closed(S)' PROVE \A n \in Nodes : Listed(n)' => n \in S
    <2> DEFINE R == {n \in S : Listed(n)}
    <2>1. ASSUME NEW m \in R PROVE next[m] \in R \cup {Null}
      <3>1. next[m] \in S \cup {Null}
        BY <1>5 DEF Closed
      <3>2. next[m] /= Null => Listed(next[m])
        BY DEF Listing
      <3> QED BY <3>1, <3>2
    <2>2. head \in R \cup {Null}
      BY <1>5 DEF Closed, Listing
    <2>3. Closed(R) /\ R \in SUBSET Nodes
      BY <2>1, <2>2 DEF Closed
    <2> QED BY <2>3 DEF Listing
  <1>6. (\A S \in SUBSET Nodes : Closed(S) => \A n \in Nodes : Listed(n) => n \in S)'
    BY <1>5
  <1> HIDE DEF Listed, Closed
  <1> QED BY <1>1, <1>3, <1>4, <1>6 DEF Listing

\* Every step keeps the list one: a swing takes its first node off, a link puts one before it.
LEMMA StepListing == IInv /\ [FreeListNext]_freeListVars => Listing'
  <1> SUFFICES ASSUME Typed, Counts, Reading, Listing, [FreeListNext]_freeListVars PROVE Listing'
    BY DEF IInv
  <1>0. \A t \in Threads : th[t] \in Local
    BY DEF Typed
  <1>1. ASSUME NEW t \in Threads, LoadHead(t) \/ LoadRefs(t) \/ LoadNext(t) \/ PutHead(t) PROVE Listing'
    <2>1. Others(t) /\ UNCHANGED <<head, next, refs, out>>
      BY <1>1 DEF LoadHead, LoadRefs, LoadNext, PutHead, Others, Typed
    <2>2. \A n \in Nodes : Hands(t, n)' <=> Hands(t, n)
      <3>1. CASE LoadHead(t) \/ LoadRefs(t)
        BY <1>0, <3>1, AtPlace DEF LoadHead, LoadRefs, Typed, Local, Fields, Hands, HolderAt
      <3>2. CASE LoadNext(t) \/ PutHead(t)
        BY <1>0, <3>2 DEF LoadNext, PutHead, Typed, Local, Fields, Hands, HolderAt
      <3> QED BY <1>1, <3>1, <3>2
    <2> QED BY <2>1, <2>2, ListedStep, ListingSame
  <1>2. ASSUME NEW t \in Threads, SetNext(t) PROVE Listing'
    <2>0. PICK x \in Nodes : x = th[t].node
      BY <1>0, <1>2 DEF SetNext, Local, Fields
    <2>1. /\ Others(t) /\ UNCHANGED <<head, refs, out>> /\ th[t].at = "setnext" /\ th'[t].at = "setrefs"
          /\ th'[t].node = x /\ \A n \in Nodes : n /= x => next'[n] = next[n]
      BY <1>0, <1>2, <2>0 DEF SetNext, Goto, Others, Typed, Local, Fields
    <2>2. \A n \in Nodes : Listed(n)' <=> Listed(n)
      BY <2>0, <2>1, ListedStep DEF Hands, HolderAt
    <2>3. ~Listed(x)
      BY <2>0, <2>1 DEF Listed, Handled, Hands, HolderAt
    <2> QED BY <2>1, <2>2, <2>3, ListingSame
  <1>3. ASSUME NEW t \in Threads, Pin(t) PROVE Listing'
    <2>0. PICK x \in Nodes : x = th[t].node
      BY <1>0, <1>3 DEF Pin, Local, Fields
    <2>1. /\ Others(t) /\ UNCHANGED <<head, next, out>> /\ th[t].at = "pin"
          /\ th'[t].at \in {"next", "head"} /\ th'[t].node = x /\ refs[x] \in Int
          /\ refs'[x] = refs[x] + 1 \/ refs'[x] = refs[x]
          /\ \A n \in Nodes : n /= x => refs'[n] = refs[n]
      BY <1>0, <1>3, <2>0 DEF Pin, Goto, AddTo, Others, Typed, Local, Fields
    <2>2. \A n : Hands(t, n)' <=> Hands(t, n)
      BY <2>1 DEF Hands, HolderAt
    <2>3. \A n \in Nodes : n /= x => (Listed(n)' <=> Listed(n))
      BY <2>1, <2>2, ListedStep
    <2>4. Handled(x)' <=> Handled(x)
      BY <2>1, <2>2 DEF Handled, Others, Hands
    <2>5. Listed(x) => refs[x] + 1 < Should
      BY PinnedType, ShouldAssumption DEF Listed, Counts, NodeOK
    <2>6. Listed(x)' <=> Listed(x)
      BY <2>1, <2>4, <2>5, ShouldAssumption DEF Listed
    <2> QED BY <2>1, <2>3, <2>6, ListingSame
  <1>4. ASSUME NEW t \in Threads, Swing(t) PROVE Listing'
    <2>0. PICK x \in Nodes : x = th[t].node
      BY <1>0, <1>4 DEF Swing, Local, Fields
    <2>1. /\ Others(t) /\ UNCHANGED <<next, refs, out>> /\ th[t].at = "swing" /\ th'[t].node = x
          /\ th[t].seen = next[x]
      BY <1>0, <1>4, <2>0 DEF Swing, Goto, Others, Typed, Reading, Local, Fields
    <2>2. CASE head = x
      <3>1. head' = next[x] /\ th'[t].at = "taken"
        BY <1>0, <1>4, <2>0, <2>1, <2>2 DEF Swing, Goto, Typed, Local, Fields
      <3>2. \A n \in Nodes : n /= x => (Listed(n)' <=> Listed(n))
        BY <2>0, <2>1, <3>1, ListedStep DEF Hands
      <3>3. ~Listed(x)' /\ Listed(x)
        <4>1. Handled(x)'
          BY <2>1, <3>1 DEF Handled, Hands, HolderAt
        <4>2. x /= Null
          BY NodesAssumption
        <4> QED BY <2>2, <4>1, <4>2 DEF Listed, Listing
      <3>4. ASSUME NEW y, y = head', y /= Null PROVE Listed(y)'
        <4>1. Listed(y) /\ y /= x
          BY <2>2, <3>1, <3>3, <3>4 DEF Listing
        <4> QED BY <3>2, <4>1 DEF Listed
      <3>5. ASSUME NEW n \in Nodes, Listed(n)', NEW y, y = next[n], y /= Null
            PROVE  Listed(y)' /\ y /= head'
        <4>1. n /= x /\ Listed(n) /\ Listed(y) /\ y /= x
          BY <2>2, <3>2, <3>3, <3>5 DEF Listing
        <4>2. Listed(y)'
          BY <3>2, <4>1 DEF Listed
        <4>3. y /= head'
          BY <3>1, <3>3, <3>5, <4>1 DEF Listing
        <4> QED BY <4>2, <4>3
      <3>6. ASSUME NEW m \in Nodes, NEW n \in Nodes, Listed(m)', Listed(n)', m /= n, next[m] /= Null
            PROVE  next[m] /= next[n]
        BY <3>2, <3>3, <3>6 DEF Listing
      <3>7. ASSUME NEW S \in SUBSET Nodes, Closed(S)' PROVE \A n \in Nodes : Listed(n)' => n \in S
        <4>1. Closed(S \cup {x})
          BY <2>1, <2>2, <3>1, <3>7 DEF Closed
        <4>2. \A n \in Nodes : Listed(n) => n \in S \cup {x}
          BY <4>1 DEF Listing
        <4> QED BY <3>2, <3>3, <4>2
      <3>8. (\A S \in SUBSET Nodes : Closed(S) => \A n \in Nodes : Listed(n) => n \in S)'
        BY <3>7
      <3> HIDE DEF Listed, Closed
      <3> QED BY <2>1, <3>4, <3>5, <3>6, <3>8 DEF Listing
    <2>3. CASE head /= x
      <3>1. head' = head /\ th'[t].at = "unpin"
        BY <1>4, <2>0, <2>3 DEF Swing, Typed, Local, Fields
      <3>2. \A n \in Nodes : Listed(n)' <=> Listed(n)
        BY <2>1, <3>1, ListedStep DEF Hands, HolderAt
      <3> QED BY <2>1, <3>1, <3>2, ListingSame
    <2> QED BY <2>2, <2>3
  <1>5. ASSUME NEW t \in Threads, Taken(t) PROVE Listing'
    <2>0. PICK x \in Nodes : x = th[t].node
      BY <1>0, <1>5 DEF Taken, Local, Fields
    <2>1. /\ Others(t) /\ UNCHANGED <<head, next>> /\ th[t].at = "taken" /\ th'[t].at = "idle"
          /\ out' = out \cup {x} /\ \A n \in Nodes : n /= x => refs'[n] = refs[n]
      BY <1>0, <1>5, <2>0 DEF Taken, AddTo, Idle, Others, Typed, Local, Fields
    <2>2. \A n \in Nodes : n /= x => (Listed(n)' <=> Listed(n))
      BY <2>0, <2>1, ListedStep DEF Hands, HolderAt
    <2>3. ~Listed(x) /\ ~Listed(x)'
      BY <2>0, <2>1 DEF Listed, Handled, Hands, HolderAt
    <2> QED BY <2>1, <2>2, <2>3, ListingSame
  <1>6. ASSUME NEW t \in Threads, Unpin(t) PROVE Listing'
    <2>0. PICK x \in Nodes : x = th[t].node
      BY <1>0, <1>6 DEF Unpin, Local, Fields
    <2>1. /\ Others(t) /\ UNCHANGED <<head, next, out>> /\ th[t].at = "unpin"
          /\ refs'[x] = refs[x] - 1 /\ refs[x] \in Int /\ \A n \in Nodes : n /= x => refs'[n] = refs[n]
      BY <1>0, <1>6, <2>0 DEF Unpin, AddTo, Others, Typed, Local, Fields
    <2>2. IF refs[x] = Should + 1 THEN th'[t].at = "put" /\ th'[t].node = x
                                  ELSE th'[t].at \in {"idle", "refs"}
      BY <1>0, <1>6, <2>0, AtPlace DEF Unpin, Typed, Local, Fields
    <2>3. \A n \in Nodes : n /= x => (Listed(n)' <=> Listed(n))
      BY <2>1, <2>2, ListedStep DEF Hands, HolderAt
    <2>4. refs[x] /= Should + 1 => (Handled(x)' <=> Handled(x))
      BY <2>1, <2>2 DEF Handled, Others, Hands, HolderAt
    <2>5. refs[x] = Should + 1 => Handled(x)'
      BY <2>2 DEF Handled, Hands, HolderAt
    <2>6. x \notin out /\ ~Handled(x) => refs[x] + 1 < Should \/ refs[x] > Should
      BY PinnedType, ShouldAssumption DEF Counts, NodeOK
    <2>7. Listed(x)' <=> Listed(x)
      BY <2>1, <2>4, <2>5, <2>6, ShouldAssumption DEF Listed
    <2> QED BY <2>1, <2>3, <2>7, ListingSame
  <1>7. ASSUME NEW t \in Threads, NEW x \in Nodes, Add(t, x) PROVE Listing'
    <2>1. /\ Others(t) /\ UNCHANGED <<head, next>> /\ th[t].at = "idle" /\ x \in out /\ out' = out \ {x}
          /\ refs'[x] = refs[x] + Should /\ \A n \in Nodes : n /= x => refs'[n] = refs[n]
      BY <1>7 DEF Add, AddTo, Others, Typed
    <2>2. th'[t].at = "idle" \/ (th'[t].at = "put" /\ th'[t].node = x)
      BY <1>7 DEF Add, Typed, Idle
    <2>3. \A n \in Nodes : n /= x => (Listed(n)' <=> Listed(n))
      BY <2>1, <2>2, ListedStep DEF Hands, HolderAt
    <2>4. refs[x] \in Nat
      BY <2>1, PinnedType DEF Counts, NodeOK
    <2>5. ~Listed(x) /\ ~Listed(x)'
      BY <2>1, <2>4, ShouldAssumption DEF Listed
    <2> QED BY <2>1, <2>3, <2>5, ListingSame
  <1>8. ASSUME NEW t \in Threads, SetRefs(t) PROVE Listing'
    <2>0. PICK x \in Nodes : x = th[t].node
      BY <1>0, <1>8 DEF SetRefs, Local, Fields
    <2>1. /\ Others(t) /\ UNCHANGED <<head, next, out>> /\ th[t].at = "setrefs"
          /\ th'[t].at = "link" /\ th'[t].node = x /\ \A n \in Nodes : n /= x => refs'[n] = refs[n]
      BY <1>0, <1>8, <2>0 DEF SetRefs, Goto, Others, Typed, Local, Fields
    <2>2. \A n \in Nodes : n /= x => (Listed(n)' <=> Listed(n))
      BY <2>0, <2>1, ListedStep DEF Hands, HolderAt
    <2>3. ~Listed(x) /\ ~Listed(x)'
      BY <2>0, <2>1 DEF Listed, Handled, Hands, HolderAt
    <2> QED BY <2>1, <2>2, <2>3, ListingSame
  <1>9. ASSUME NEW t \in Threads, Link(t) PROVE Listing'
    <2>0. PICK x \in Nodes : x = th[t].node
      BY <1>0, <1>9 DEF Link, Local, Fields
    <2>1. Others(t) /\ UNCHANGED <<next, refs, out>> /\ th[t].at = "link" /\ th[t].seen = next[x]
      BY <1>0, <1>9, <2>0 DEF Link, Others, Typed, Reading, Local, Fields
    <2>2. CASE head = th[t].seen
      <3>1. head' = x /\ th'[t].at \in {"idle", "refs"}
        BY <1>9, <2>0, <2>2, AtPlace DEF Link, Typed, Local, Fields
      <3>2. \A n \in Nodes : n /= x => (Listed(n)' <=> Listed(n))
        BY <2>0, <2>1, <3>1, ListedStep DEF Hands, HolderAt
      <3>3. Hands(t, x) /\ NodeOK(x)
        BY <2>0, <2>1 DEF Counts, Hands, HolderAt
      <3>4. Listed(x)' /\ ~Listed(x)
        <4>1. x \notin out /\ refs[x] < Should
          BY <2>0, <2>1, <3>3, PinnedType, ShouldAssumption DEF NodeOK, Handled, FlagAt
        <4>2. \A u \in Threads : ~Hands(u, x)'
          BY <2>1, <3>1, <3>3 DEF Others, NodeOK, Hands, HolderAt
        <4> QED BY <2>1, <3>3, <4>1, <4>2 DEF Listed, Handled
      <3>5. ASSUME NEW n \in Nodes, Listed(n)', NEW y, y = next[n], y /= Null
            PROVE  Listed(y)' /\ y /= x
        <4>1. Listed(y)
          BY <2>1, <2>2, <3>2, <3>5 DEF Listing
        <4> QED BY <3>2, <3>4, <4>1 DEF Listed
      <3>6. ASSUME NEW m \in Nodes, NEW n \in Nodes, Listed(m)', Listed(n)', m /= n, next[m] /= Null
            PROVE  next[m] /= next[n]
        <4>1. CASE m /= x /\ n /= x
          BY <3>2, <3>6, <4>1 DEF Listing
        <4>2. CASE m = x
          BY <2>1, <2>2, <3>2, <3>6, <4>2 DEF Listing
        <4>3. CASE n = x
          BY <2>1, <2>2, <3>2, <3>6, <4>3 DEF Listing
        <4> QED BY <4>1, <4>2, <4>3
      <3>7. ASSUME NEW y, y = head' PROVE Listed(y)'
        BY <3>1, <3>4, <3>7
      <3>8. ASSUME NEW S \in SUBSET Nodes, Closed(S)' PROVE \A n \in Nodes : Listed(n)' => n \in S
        <4>0. x /= Null
          BY NodesAssumption
        <4>1. x \in S /\ Closed(S)
          BY <2>1, <2>2, <3>1, <3>8, <4>0 DEF Closed
        <4>2. \A n \in Nodes : Listed(n) => n \in S
          BY <4>1 DEF Listing
        <4> QED BY <3>2, <4>1, <4>2
      <3>9. (\A S \in SUBSET Nodes : Closed(S) => \A n \in Nodes : Listed(n) => n \in S)'
        BY <3>8
      <3> HIDE DEF Listed, Closed
      <3> QED BY <2>1, <3>1, <3>5, <3>6, <3>7, <3>9 DEF Listing
    <2>3. CASE head /= th[t].seen
      <3>1. head' = head /\ th'[t].at = "relink" /\ th'[t].node = x
        BY <1>0, <1>9, <2>0, <2>3 DEF Link, Typed, Local, Fields
      <3>2. \A n \in Nodes : Listed(n)' <=> Listed(n)
        BY <2>0, <2>1, <3>1, ListedStep DEF Hands, HolderAt
      <3> QED BY <2>1, <3>1, <3>2, ListingSame
    <2> QED BY <2>2, <2>3
  <1>10. ASSUME NEW t \in Threads, Relink(t) PROVE Listing'
    <2>0. PICK x \in Nodes : x = th[t].node
      BY <1>0, <1>10 DEF Relink, Local, Fields
    <2>1. /\ Others(t) /\ UNCHANGED <<head, next, out>> /\ th[t].at = "relink"
          /\ refs'[x] = refs[x] + (Should - 1) /\ \A n \in Nodes : n /= x => refs'[n] = refs[n]
      BY <1>0, <1>10, <2>0 DEF Relink, AddTo, Others, Typed, Local, Fields
    <2>2. th'[t].at \in {"idle", "refs"} \/ (th'[t].at = "setnext" /\ th'[t].node = x)
      BY <1>0, <1>10, <2>0, AtPlace DEF Relink, Typed, Local, Fields
    <2>3. \A n \in Nodes : n /= x => (Listed(n)' <=> Listed(n))
      BY <2>0, <2>1, <2>2, ListedStep DEF Hands, HolderAt
    <2>4. Hands(t, x) /\ NodeOK(x)
      BY <2>0, <2>1 DEF Counts, Hands, HolderAt
    <2>5. refs[x] \in Nat /\ refs[x] >= 1
      BY <2>0, <2>1, <2>4, PinnedType DEF NodeOK, FlagAt
    <2>6. ~Listed(x) /\ ~Listed(x)'
      BY <2>1, <2>4, <2>5, ShouldAssumption DEF Listed, Handled
    <2>7. \A n \in Nodes : Listed(n)' <=> Listed(n)
      BY <2>3, <2>6
    <2> QED BY <1>0, <2>1, <2>7, ListingSame
  <1>11. CASE UNCHANGED freeListVars
    <2>1. UNCHANGED <<head, next, refs, out, th>>
      BY <1>11 DEF freeListVars
    <2>2. \A n \in Nodes : Listed(n)' <=> Listed(n)
      BY <2>1 DEF Listed, Handled, Hands
    <2> QED BY <1>0, <2>1, <2>2, ListingSame
  <1> QED BY <1>1, <1>2, <1>3, <1>4, <1>5, <1>6, <1>7, <1>8, <1>9, <1>10, <1>11 DEF FreeListNext, Step

\* The invariant holds in every behaviour.
LEMMA Invariant == FreeListSpec => []IInv
  <1>1. IInv /\ [FreeListNext]_freeListVars => IInv'
    BY StepTyped, StepCounts, StepReading, StepListing DEF IInv
  <1> QED BY InitInv, <1>1, PTL DEF FreeListSpec
-----------------------------------------------------------------------------
\* OneTaker always holds: try_get gives no node to two callers, nor one that is in use or should be
\* on the list, whatever nodes come and go between its load of the head and its exchange.
THEOREM TakenOnce == FreeListSpec => []OneTaker
  <1>1. IInv => OneTaker
    <2> SUFFICES ASSUME IInv, NEW t \in Threads, th[t].at = "taken", NEW x, x = th[t].node
                 PROVE  /\ refs[x] < Should /\ x \notin out
                        /\ \A u \in Threads \ {t} : th[u].at = "taken" => th[u].node /= x
      BY DEF OneTaker
    <2>1. x \in Nodes /\ NodeOK(x) /\ Hands(t, x)
      BY DEF IInv, Typed, Counts, Local, Fields, Hands, HolderAt
    <2>2. refs[x] < Should /\ x \notin out
      BY <2>1, PinnedType, ShouldAssumption DEF NodeOK, Handled, FlagAt
    <2>3. \A u \in Threads \ {t} : th[u].at = "taken" => th[u].node /= x
      BY <2>1 DEF NodeOK, Hands, HolderAt
    <2> QED BY <2>2, <2>3
  <1> QED BY <1>1, Invariant, PTL

\* OneLinker always holds: add_knowing_refcount_is_zero runs once per node at a time, and nobody
\* else is at a node whose next it writes.
THEOREM LinkedOnce == FreeListSpec => []OneLinker
  <1>1. IInv => OneLinker
    <2> SUFFICES ASSUME IInv, NEW t \in Threads, th[t].at \in FlagAt, NEW x, x = th[t].node
                 PROVE  /\ refs[x] = Should
                        /\ \A u \in Threads \ {t} :
                             th[u].at \in {"put", "setnext", "setrefs", "link", "next", "swing", "unpin", "taken"}
                               => th[u].node /= x
      BY DEF OneLinker, FlagAt
    <2>1. x \in Nodes /\ NodeOK(x) /\ Hands(t, x)
      BY DEF IInv, Typed, Counts, Local, Fields, Hands, HolderAt, FlagAt
    <2>2. refs[x] = Should /\ Pinned(x) = {}
      BY <2>1 DEF NodeOK
    <2>3. \A u \in Threads \ {t} : ~Hands(u, x) /\ ~Pins(u, x)
      BY <2>1, <2>2 DEF NodeOK, Pinned
    <2> QED BY <2>2, <2>3 DEF Hands, Pins, HolderAt, PinAt
  <1> QED BY <1>1, Invariant, PTL

\* NothingLost always holds: a node that is not in use is met by a walk from the head, is in one
\* thread's hands, or is looked at by a thread that will link it; and no such walk meets a node in use.
THEOREM NoneLost == FreeListSpec => []NothingLost
  <1>1. IInv => NothingLost
    <2> SUFFICES ASSUME IInv PROVE NothingLost
      OBVIOUS
    <2>1. \A n \in Nodes : Listed(n) => n \in Chain
      BY DEF Chain, IInv, Listing
    <2>2. \A n \in Chain : Listed(n)
      <3> DEFINE S == {n \in Nodes : Listed(n)}
      <3>1. \A m \in S : next[m] \in S \cup {Null}
        BY DEF IInv, Listing, Listed
      <3>2. head \in S \cup {Null}
        BY DEF IInv, Listing, Listed
      <3>3. Closed(S) /\ S \in SUBSET Nodes
        BY <3>1, <3>2 DEF Closed
      <3> QED BY <3>3 DEF Chain
    <2>3. Chain \cap out = {}
      BY <2>2 DEF Listed
    <2>4. ASSUME NEW n \in Nodes \ out, ~Handled(n), ~Listed(n)
          PROVE  refs[n] > Should /\ \E t \in Threads : th[t].at \in {"next", "swing", "unpin"} /\ th[t].node = n
      <3>1. refs[n] = Should + Cardinality(Pinned(n)) /\ Pinned(n) /= {}
        BY <2>4, PinnedType, ShouldAssumption DEF IInv, Counts, NodeOK, Listed
      <3>2. Cardinality(Pinned(n)) \in Nat /\ Cardinality(Pinned(n)) /= 0
        BY <3>1, SomeThreads DEF Pinned
      <3>3. PICK t \in Threads : Pins(t, n)
        BY <3>1 DEF Pinned
      <3>4. ~Hands(t, n)
        BY <2>4 DEF Handled
      <3> QED BY <3>1, <3>2, <3>3, <3>4, ShouldAssumption DEF Pins, Hands, PinAt, HolderAt
    <2>5. \A n \in Nodes : Handled(n) =>
            \E t \in Threads : th[t].at \in {"taken", "put", "setnext", "setrefs", "link", "relink"} /\ th[t].node = n
      BY DEF Handled, Hands, HolderAt
    <2> QED BY <2>1, <2>3, <2>4, <2>5 DEF NothingLost
  <1> QED BY <1>1, Invariant, PTL
-----------------------------------------------------------------------------
(* Sums.  A sum over the consumers counts pairs, so that adding a summand is a union of disjoint sets. *)

Units(f, S) == UNION {{x} \X (1 .. f[x]) : x \in S}
Sum(f) == Cardinality(Units(f, Consumers))

\* One summand's units, and all of them, are finitely many.
LEMMA UnitsOfOne ==
  ASSUME NEW x, NEW n \in Nat
  PROVE  IsFiniteSet({x} \X (1 .. n)) /\ Cardinality({x} \X (1 .. n)) = n
  <1>1. IsFiniteSet(1 .. n) /\ Cardinality(1 .. n) = n
    BY FS_Interval
  <1>2. IsFiniteSet({x}) /\ Cardinality({x}) = 1
    BY FS_Singleton
  <1>3. IsFiniteSet({x} \X (1 .. n)) /\ Cardinality({x} \X (1 .. n)) = Cardinality({x}) * Cardinality(1 .. n)
    BY <1>1, <1>2, FS_Product, Zenon
  <1> QED BY <1>1, <1>2, <1>3

LEMMA UnitsFinite ==
  ASSUME NEW S, IsFiniteSet(S), NEW f, \A x \in S : f[x] \in Nat
  PROVE  IsFiniteSet(Units(f, S)) /\ Cardinality(Units(f, S)) \in Nat
  <1> DEFINE of(x) == {x} \X (1 .. f[x])
             T == {of(x) : x \in S}
             h == [x \in S |-> of(x)]
  <1>1. h \in Surjection(S, T)
    <2> HIDE DEF of
    <2>1. h \in [S -> T] /\ \A t \in T : \E x \in S : h[x] = t
      OBVIOUS
    <2> QED BY <2>1 DEF Surjection
  <1>2. IsFiniteSet(T)
    BY <1>1, FS_Surjection
  <1>3. \A x \in S : IsFiniteSet(of(x))
    BY UnitsOfOne
  <1>4. IsFiniteSet(UNION T)
    BY <1>2, <1>3, FS_UNION
  <1> QED BY <1>4, FS_CardinalityType DEF Units

\* One more summand, whose units are apart from the others'.
LEMMA UnitsMore ==
  ASSUME NEW S, IsFiniteSet(S), NEW f, NEW x, x \notin S, \A y \in S \cup {x} : f[y] \in Nat
  PROVE  Cardinality(Units(f, S \cup {x})) = Cardinality(Units(f, S)) + f[x]
  <1> DEFINE A == Units(f, S)
             B == {x} \X (1 .. f[x])
  <1>1. IsFiniteSet(B) /\ Cardinality(B) = f[x]
    BY UnitsOfOne
  <1>2. IsFiniteSet(A) /\ Cardinality(A) \in Nat
    BY UnitsFinite
  <1>3. Units(f, S \cup {x}) = A \cup B /\ A \cap B = {}
    <2>1. \A R, u : u \in Units(f, R) <=> \E y \in R : u \in {y} \X (1 .. f[y])
      BY DEF Units
    <2>2. A \cap B = {}
      BY <2>1
    <2>3. \A u : u \in Units(f, S \cup {x}) <=> u \in A \cup B
      BY <2>1
    <2> QED BY <2>2, <2>3
  <1>4. Cardinality(A \cup B) = Cardinality(A) + Cardinality(B) - Cardinality(A \cap B)
    BY <1>1, <1>2, FS_Union, Zenon
  <1>5. Cardinality(A \cap B) = 0
    BY <1>3, FS_EmptySet, Zenon
  <1>6. Cardinality(Units(f, S \cup {x})) = Cardinality(A \cup B)
    BY <1>3
  <1> QED
    <2> HIDE DEF A, B
    <2> QED BY <1>1, <1>2, <1>4, <1>5, <1>6 DEF A

\* A sum of natural numbers is one, and changes as its summand does.
LEMMA SumStep ==
  ASSUME NEW f \in [Consumers -> Nat], NEW g \in [Consumers -> Nat], NEW x \in Consumers,
         \A y \in Consumers : y /= x => g[y] = f[y]
  PROVE  Sum(f) \in Nat /\ Sum(g) \in Nat /\ Sum(g) = Sum(f) - f[x] + g[x]
  <1> DEFINE S == Consumers \ {x}
  <1>1. Units(g, S) = Units(f, S)
    BY DEF Units
  <1>2. IsFiniteSet(S) /\ S \cup {x} = Consumers /\ x \notin S
    BY ConsumersAssumption, FS_Subset
  <1>3. Cardinality(Units(f, S)) \in Nat
    BY <1>2, UnitsFinite
  <1>4. Cardinality(Units(f, S \cup {x})) = Cardinality(Units(f, S)) + f[x]
    BY <1>2, UnitsMore
  <1>5. Cardinality(Units(g, S \cup {x})) = Cardinality(Units(g, S)) + g[x]
    BY <1>2, UnitsMore
  <1>6. /\ Cardinality(Units(f, Consumers)) = Cardinality(Units(f, S)) + f[x]
        /\ Cardinality(Units(g, Consumers)) = Cardinality(Units(f, S)) + g[x]
    BY <1>1, <1>2, <1>4, <1>5, Zenon
  <1>7. Sum(f) = Cardinality(Units(f, Consumers)) /\ Sum(g) = Cardinality(Units(g, Consumers))
    BY DEF Sum
  <1> QED BY <1>3, <1>6, <1>7

\* A sum of natural numbers is one.
LEMMA SumNat ==
  ASSUME NEW f \in [Consumers -> Nat]
  PROVE  Sum(f) \in Nat
  BY UnitsFinite, ConsumersAssumption DEF Sum

\* A sum of nothing.
LEMMA SumZero ==
  ASSUME NEW f, \A x \in Consumers : f[x] = 0
  PROVE  Sum(f) = 0
  <1>1. Units(f, Consumers) = {}
    <2>1. \A x \in Consumers : 1 .. f[x] = {}
      OBVIOUS
    <2>2. ASSUME NEW u, NEW x \in Consumers, u \in {x} \X (1 .. f[x]) PROVE FALSE
      BY <2>1, <2>2
    <2> QED BY <2>2 DEF Units
  <1> QED BY <1>1, FS_EmptySet DEF Sum

\* Smaller summands have the smaller sum.
LEMMA SumLeast ==
  ASSUME NEW f \in [Consumers -> Nat], NEW g \in [Consumers -> Nat], \A x \in Consumers : f[x] <= g[x]
  PROVE  Sum(f) <= Sum(g)
  <1>1. Units(f, Consumers) \subseteq Units(g, Consumers)
    <2>1. \A x \in Consumers : 1 .. f[x] \subseteq 1 .. g[x]
      OBVIOUS
    <2> QED BY <2>1 DEF Units
  <1>2. IsFiniteSet(Units(g, Consumers))
    BY UnitsFinite, ConsumersAssumption
  <1> QED BY <1>1, <1>2, FS_Subset DEF Sum

-----------------------------------------------------------------------------
(* Claims: what each consumer's attempt counts for. *)

ClaimRecords == [at : {"idle", "reserve", "confirm", "refund", "take", "owner"},
                 over : Int, n : Nat, k : Int, back : Nat]

\* Elements granted to x and not taken, reserved and not confirmed, reserved in vain.
Grants(x) == IF x.at \in {"refund", "take"} THEN x.n ELSE 0
Reserves(x) == IF x.at = "confirm" THEN x.n ELSE 0
Returns(x) == IF x.at = "refund" THEN x.back ELSE 0

AllGranted == [c \in Consumers |-> Grants(claim[c])]
AllReserved == [c \in Consumers |-> Reserves(claim[c])]
AllReturned == [c \in Consumers |-> Returns(claim[c])]

\* The positions that are spoken for: taken or granted.
Gone == headIndex + Sum(AllGranted)

Balance == optimistic - overcommit = Gone + Sum(AllReserved) + Sum(AllReturned)
ClaimInv ==
  /\ tailIndex \in Int /\ headIndex \in Int /\ optimistic \in Int /\ overcommit \in Int
  /\ claim \in [Consumers -> ClaimRecords]
  /\ Balance

\* The sums are numbers.
LEMMA ClaimSums ==
  ASSUME ClaimInv
  PROVE  /\ AllGranted \in [Consumers -> Nat] /\ AllReserved \in [Consumers -> Nat]
         /\ AllReturned \in [Consumers -> Nat]
         /\ Sum(AllGranted) \in Nat /\ Sum(AllReserved) \in Nat /\ Sum(AllReturned) \in Nat
  <1>1. \A x \in ClaimRecords : Grants(x) \in Nat /\ Reserves(x) \in Nat /\ Returns(x) \in Nat
    BY DEF ClaimRecords, Grants, Reserves, Returns
  <1>2. \A c \in Consumers : claim[c] \in ClaimRecords
    BY DEF ClaimInv
  <1>3. /\ AllGranted \in [Consumers -> Nat] /\ AllReserved \in [Consumers -> Nat]
        /\ AllReturned \in [Consumers -> Nat]
    BY <1>1, <1>2 DEF AllGranted, AllReserved, AllReturned
  <1> QED BY <1>3, SumNat

\* When one consumer's claim changes, the sums change by its part.
LEMMA SumsMoved ==
  ASSUME ClaimInv, NEW c \in Consumers, NEW y \in ClaimRecords, claim' = [claim EXCEPT ![c] = y]
  PROVE  /\ claim' \in [Consumers -> ClaimRecords]
         /\ Sum(AllGranted)' = Sum(AllGranted) - Grants(claim[c]) + Grants(y)
         /\ Sum(AllReserved)' = Sum(AllReserved) - Reserves(claim[c]) + Reserves(y)
         /\ Sum(AllReturned)' = Sum(AllReturned) - Returns(claim[c]) + Returns(y)
  <1>1. \A x \in ClaimRecords : Grants(x) \in Nat /\ Reserves(x) \in Nat /\ Returns(x) \in Nat
    BY DEF ClaimRecords, Grants, Reserves, Returns
  <1>2. claim \in [Consumers -> ClaimRecords] /\ claim' \in [Consumers -> ClaimRecords]
    BY DEF ClaimInv
  <1>3. claim'[c] = y /\ \A d \in Consumers : d /= c => claim'[d] = claim[d]
    BY <1>2
  <1>4. Sum(AllGranted)' = Sum(AllGranted) - Grants(claim[c]) + Grants(y)
    <2>1. PICK f, g : f = AllGranted /\ g = AllGranted'
      OBVIOUS
    <2>2. /\ f = [d \in Consumers |-> Grants(claim[d])] /\ g = [d \in Consumers |-> Grants(claim'[d])]
      BY <2>1 DEF AllGranted, Grants
    <2>3. f \in [Consumers -> Nat] /\ g \in [Consumers -> Nat]
      BY <1>1, <1>2, <2>2
    <2>4. \A d \in Consumers : d /= c => g[d] = f[d]
      BY <1>3, <2>2
    <2>5. f[c] = Grants(claim[c]) /\ g[c] = Grants(y)
      BY <1>3, <2>2
    <2>6. Sum(g) = Sum(f) - f[c] + g[c]
      BY <2>3, <2>4, SumStep
    <2> QED BY <2>1, <2>5, <2>6
  <1>5. Sum(AllReserved)' = Sum(AllReserved) - Reserves(claim[c]) + Reserves(y)
    <2>1. PICK f, g : f = AllReserved /\ g = AllReserved'
      OBVIOUS
    <2>2. /\ f = [d \in Consumers |-> Reserves(claim[d])] /\ g = [d \in Consumers |-> Reserves(claim'[d])]
      BY <2>1 DEF AllReserved, Reserves
    <2>3. f \in [Consumers -> Nat] /\ g \in [Consumers -> Nat]
      BY <1>1, <1>2, <2>2
    <2>4. \A d \in Consumers : d /= c => g[d] = f[d]
      BY <1>3, <2>2
    <2>5. f[c] = Reserves(claim[c]) /\ g[c] = Reserves(y)
      BY <1>3, <2>2
    <2>6. Sum(g) = Sum(f) - f[c] + g[c]
      BY <2>3, <2>4, SumStep
    <2> QED BY <2>1, <2>5, <2>6
  <1>6. Sum(AllReturned)' = Sum(AllReturned) - Returns(claim[c]) + Returns(y)
    <2>1. PICK f, g : f = AllReturned /\ g = AllReturned'
      OBVIOUS
    <2>2. /\ f = [d \in Consumers |-> Returns(claim[d])] /\ g = [d \in Consumers |-> Returns(claim'[d])]
      BY <2>1 DEF AllReturned, Returns
    <2>3. f \in [Consumers -> Nat] /\ g \in [Consumers -> Nat]
      BY <1>1, <1>2, <2>2
    <2>4. \A d \in Consumers : d /= c => g[d] = f[d]
      BY <1>3, <2>2
    <2>5. f[c] = Returns(claim[c]) /\ g[c] = Returns(y)
      BY <1>3, <2>2
    <2>6. Sum(g) = Sum(f) - f[c] + g[c]
      BY <2>3, <2>4, SumStep
    <2> QED BY <2>1, <2>5, <2>6
  <1> QED BY <1>2, <1>4, <1>5, <1>6

\* What the counters gain is what the claim that becomes y stands for.
Settled(c, y) ==
  (optimistic' - optimistic) - (overcommit' - overcommit)
    = (headIndex' - headIndex) + (Grants(y) - Grants(claim[c])) + (Reserves(y) - Reserves(claim[c]))
      + (Returns(y) - Returns(claim[c]))

LEMMA Balanced ==
  ASSUME ClaimInv, NEW c \in Consumers, NEW y \in ClaimRecords, claim' = [claim EXCEPT ![c] = y],
         tailIndex' \in Int, headIndex' \in Int, optimistic' \in Int, overcommit' \in Int, Settled(c, y)
  PROVE  ClaimInv'
  <1>1. /\ claim' \in [Consumers -> ClaimRecords]
        /\ Sum(AllGranted)' = Sum(AllGranted) - Grants(claim[c]) + Grants(y)
        /\ Sum(AllReserved)' = Sum(AllReserved) - Reserves(claim[c]) + Reserves(y)
        /\ Sum(AllReturned)' = Sum(AllReturned) - Returns(claim[c]) + Returns(y)
    BY SumsMoved
  <1>2. claim[c] \in ClaimRecords /\ headIndex \in Int /\ optimistic \in Int /\ overcommit \in Int
    BY DEF ClaimInv
  <1>3. PICK g \in Int, g1 \in Int, r \in Int, r1 \in Int, b \in Int, b1 \in Int :
          /\ g = Grants(claim[c]) /\ r = Reserves(claim[c]) /\ b = Returns(claim[c])
          /\ g1 = Grants(y) /\ r1 = Reserves(y) /\ b1 = Returns(y)
    <2>1. \A x \in ClaimRecords : Grants(x) \in Int /\ Reserves(x) \in Int /\ Returns(x) \in Int
      BY DEF ClaimRecords, Grants, Reserves, Returns
    <2> QED BY <1>2, <2>1
  <1>4. PICK sg \in Int, sr \in Int, sb \in Int :
          sg = Sum(AllGranted) /\ sr = Sum(AllReserved) /\ sb = Sum(AllReturned)
    BY ClaimSums
  <1>5. PICK h \in Int, h1 \in Int, o \in Int, o1 \in Int, v \in Int, v1 \in Int :
          /\ h = headIndex /\ o = optimistic /\ v = overcommit
          /\ h1 = headIndex' /\ o1 = optimistic' /\ v1 = overcommit'
    BY <1>2
  <1>6. o - v = h + sg + sr + sb
    BY <1>4, <1>5 DEF ClaimInv, Balance, Gone
  <1>7. (o1 - o) - (v1 - v) = (h1 - h) + (g1 - g) + (r1 - r) + (b1 - b)
    BY <1>3, <1>5 DEF Settled
  <1>8. o1 - v1 = h1 + (sg - g + g1) + (sr - r + r1) + (sb - b + b1)
    BY <1>6, <1>7
  <1>9. /\ Sum(AllGranted)' = sg - g + g1 /\ Sum(AllReserved)' = sr - r + r1
        /\ Sum(AllReturned)' = sb - b + b1
    BY <1>1, <1>3, <1>4
  <1>10. Balance'
    BY <1>5, <1>8, <1>9 DEF Balance, Gone
  <1> QED BY <1>1, <1>10 DEF ClaimInv

-----------------------------------------------------------------------------
(* The steps of a claim. *)

\* A remainder is a number below W, and a small number's own.
LEMMA Remainder ==
  ASSUME NEW d \in Int
  PROVE  /\ d % W \in Nat /\ d % W < W
         /\ 0 <= d /\ d < W => d % W = d
         /\ -W < d /\ d < 0 => d % W = d + W
  BY WAssumption

\* No more is granted than was reserved.
LEMMA ActualBounds ==
  ASSUME ClaimInv, NEW c \in Consumers
  PROVE  Actual(c) \in Nat /\ Actual(c) <= claim[c].n
  <1>1. PICK first \in Int, n \in Nat : first = claim[c].k - claim[c].over /\ n = claim[c].n
    BY DEF ClaimInv, ClaimRecords
  <1>2. PICK m \in Nat : m = (tailIndex - first) % W
    BY Remainder DEF ClaimInv
  <1>3. Actual(c) \in {0, Least(m, n)}
    BY <1>1, <1>2 DEF Actual
  <1> QED BY <1>1, <1>3 DEF Least

\* A claim as a record.
LEMMA NoClaimRecord ==
  /\ NoClaim \in ClaimRecords /\ NoClaim.at = "idle"
  /\ Grants(NoClaim) = 0 /\ Reserves(NoClaim) = 0 /\ Returns(NoClaim) = 0
  <1>1. NoClaim \in ClaimRecords /\ NoClaim.at = "idle"
    BY DEF NoClaim, ClaimRecords
  <1> QED BY <1>1 DEF Grants, Reserves, Returns

\* What each step makes of the claim.
LEMMA LookClaim ==
  ASSUME ClaimInv, NEW c \in Consumers, NEW max \in 1 .. MaxTake, Look(c, max)
  PROVE  \E y \in ClaimRecords :
           /\ claim' = [claim EXCEPT ![c] = y]
           /\ y.at = "reserve" /\ y.over = overcommit
           /\ y.n = Least((tailIndex - (optimistic - overcommit)) % W, max)
  <1>1. PICK m \in Nat, d \in Int : m = d % W /\ d = tailIndex - (optimistic - overcommit)
    BY Remainder DEF ClaimInv
  <1>2. PICK n \in Nat : n = Least(m, max)
    BY <1>1, MaxTakeAssumption DEF Least
  <1>3. PICK y : y = [NoClaim EXCEPT !.at = "reserve", !.over = overcommit, !.n = n]
    OBVIOUS
  <1>4. y = [at |-> "reserve", over |-> overcommit, n |-> n, k |-> 0, back |-> 0]
    BY <1>3 DEF NoClaim
  <1>5. y \in ClaimRecords /\ y.at = "reserve" /\ y.over = overcommit /\ y.n = n
    BY <1>4 DEF ClaimRecords, ClaimInv
  <1>6. claim' = [claim EXCEPT ![c] = y]
    BY <1>1, <1>2, <1>3 DEF Look
  <1> QED BY <1>1, <1>2, <1>5, <1>6

LEMMA ReserveClaim ==
  ASSUME ClaimInv, NEW c \in Consumers, Reserve(c)
  PROVE  \E y \in ClaimRecords :
           /\ claim' = [claim EXCEPT ![c] = y]
           /\ y.at = "confirm" /\ y.k = optimistic /\ y.n = claim[c].n /\ y.over = claim[c].over
  <1>1. claim \in [Consumers -> ClaimRecords] /\ claim[c] \in ClaimRecords /\ optimistic \in Int
    BY DEF ClaimInv
  <1>2. PICK y : y = [claim[c] EXCEPT !.at = "confirm", !.k = optimistic]
    OBVIOUS
  <1>3. y \in ClaimRecords /\ y.at = "confirm" /\ y.k = optimistic /\ y.n = claim[c].n /\ y.over = claim[c].over
    BY <1>1, <1>2 DEF ClaimRecords
  <1>4. claim' = [claim EXCEPT ![c] = y]
    BY <1>1, <1>2 DEF Reserve
  <1> QED BY <1>3, <1>4

LEMMA ConfirmClaim ==
  ASSUME ClaimInv, NEW c \in Consumers, Confirm(c)
  PROVE  \E y \in ClaimRecords :
           /\ claim' = [claim EXCEPT ![c] = y]
           /\ y.n = Actual(c)
           /\ y.at \in {"refund", "take"}
           /\ Returns(y) = claim[c].n - Actual(c)
  <1>1. claim \in [Consumers -> ClaimRecords] /\ claim[c] \in ClaimRecords /\ claim[c].n \in Nat
    BY DEF ClaimInv, ClaimRecords
  <1>2. PICK m \in Nat : m = Actual(c) /\ m <= claim[c].n
    BY ActualBounds
  <1>3. PICK b \in Nat : b = claim[c].n - m
    BY <1>1, <1>2
  <1>4. PICK at \in {"refund", "take"} : at = IF m < claim[c].n THEN "refund" ELSE "take"
    OBVIOUS
  <1>5. PICK y : y = [claim[c] EXCEPT !.at = at, !.n = m, !.back = b]
    OBVIOUS
  <1>6. y \in ClaimRecords /\ y.at = at /\ y.n = m /\ y.back = b
    BY <1>1, <1>5 DEF ClaimRecords
  <1>7. claim' = [claim EXCEPT ![c] = y]
    BY <1>1, <1>2, <1>3, <1>4, <1>5 DEF Confirm
  <1>8. Returns(y) = b
    BY <1>1, <1>2, <1>3, <1>4, <1>6 DEF Returns
  <1> QED BY <1>2, <1>3, <1>4, <1>6, <1>7, <1>8

LEMMA RefundClaim ==
  ASSUME ClaimInv, NEW c \in Consumers, Refund(c)
  PROVE  \E y \in ClaimRecords :
           /\ claim' = [claim EXCEPT ![c] = y]
           /\ y.at \in {"idle", "take"}
           /\ Grants(y) = claim[c].n
  <1>1. claim \in [Consumers -> ClaimRecords] /\ claim[c] \in ClaimRecords
    BY DEF ClaimInv
  <1>2. CASE claim[c].n = 0
    <2>1. claim' = [claim EXCEPT ![c] = NoClaim]
      BY <1>2 DEF Refund
    <2> QED BY <1>2, <2>1, NoClaimRecord
  <1>3. CASE claim[c].n /= 0
    <2>1. PICK y : y = [claim[c] EXCEPT !.at = "take", !.back = 0]
      OBVIOUS
    <2>2. y \in ClaimRecords /\ y.at = "take" /\ y.n = claim[c].n
      BY <1>1, <2>1 DEF ClaimRecords
    <2>3. claim' = [claim EXCEPT ![c] = y]
      BY <1>3, <2>1 DEF Refund
    <2> QED BY <2>2, <2>3 DEF Grants
  <1> QED BY <1>2, <1>3

LEMMA TakeClaim ==
  ASSUME ClaimInv, NEW c \in Consumers, Take(c)
  PROVE  \E y \in ClaimRecords : claim' = [claim EXCEPT ![c] = y] /\ y.at = "owner"
  <1>1. claim \in [Consumers -> ClaimRecords] /\ claim[c] \in ClaimRecords /\ headIndex \in Int
    BY DEF ClaimInv
  <1>2. PICK y : y = [claim[c] EXCEPT !.at = "owner", !.k = headIndex]
    OBVIOUS
  <1>3. y \in ClaimRecords /\ y.at = "owner"
    BY <1>1, <1>2 DEF ClaimRecords
  <1>4. claim' = [claim EXCEPT ![c] = y]
    BY <1>1, <1>2 DEF Take
  <1> QED BY <1>3, <1>4

-----------------------------------------------------------------------------
(* The counters balance. *)

LEMMA InitClaims == ASSUME NEW s \in Nat, ClaimsInit(s) PROVE ClaimInv /\ Gone = s
  <1>1. /\ tailIndex = s /\ headIndex = s /\ optimistic = s /\ overcommit = 0
        /\ claim = [c \in Consumers |-> NoClaim]
    BY DEF ClaimsInit
  <1>2. claim \in [Consumers -> ClaimRecords]
    BY <1>1, NoClaimRecord
  <1>3. Sum(AllGranted) = 0
    <2>1. \A c \in Consumers : AllGranted[c] = 0
      BY <1>1, NoClaimRecord DEF AllGranted
    <2>2. PICK f : f = AllGranted
      OBVIOUS
    <2> QED BY <2>1, <2>2, SumZero
  <1>4. Sum(AllReserved) = 0
    <2>1. \A c \in Consumers : AllReserved[c] = 0
      BY <1>1, NoClaimRecord DEF AllReserved
    <2>2. PICK f : f = AllReserved
      OBVIOUS
    <2> QED BY <2>1, <2>2, SumZero
  <1>5. Sum(AllReturned) = 0
    <2>1. \A c \in Consumers : AllReturned[c] = 0
      BY <1>1, NoClaimRecord DEF AllReturned
    <2>2. PICK f : f = AllReturned
      OBVIOUS
    <2> QED BY <2>1, <2>2, SumZero
  <1> QED BY <1>1, <1>2, <1>3, <1>4, <1>5 DEF ClaimInv, Balance, Gone

\* A step of one claim keeps the balance.
LEMMA ClaimBalanced ==
  ASSUME ClaimInv, NEW c \in Consumers,
         \/ \E max \in 1 .. MaxTake : Look(c, max)
         \/ Reserve(c) \/ Confirm(c) \/ Refund(c) \/ Take(c) \/ Done(c)
  PROVE  ClaimInv'
  <1>0. /\ tailIndex \in Int /\ headIndex \in Int /\ optimistic \in Int /\ overcommit \in Int
        /\ claim[c] \in ClaimRecords /\ claim[c].n \in Nat /\ claim[c].back \in Nat
    BY DEF ClaimInv, ClaimRecords
  <1>1. ASSUME NEW max \in 1 .. MaxTake, Look(c, max) PROVE ClaimInv'
    <2>1. PICK y \in ClaimRecords : claim' = [claim EXCEPT ![c] = y] /\ y.at = "reserve"
      BY <1>1, LookClaim
    <2>2. UNCHANGED <<tailIndex, headIndex, optimistic, overcommit>> /\ claim[c].at = "idle"
      BY <1>1 DEF Look
    <2>3. Settled(c, y)
      BY <1>0, <2>1, <2>2 DEF Settled, Grants, Reserves, Returns
    <2> QED BY <1>0, <2>1, <2>2, <2>3, Balanced
  <1>2. CASE Reserve(c)
    <2>1. PICK y \in ClaimRecords : claim' = [claim EXCEPT ![c] = y] /\ y.at = "confirm" /\ y.n = claim[c].n
      BY <1>2, ReserveClaim
    <2>2. /\ UNCHANGED <<tailIndex, headIndex, overcommit>> /\ claim[c].at = "reserve"
          /\ optimistic' = optimistic + claim[c].n
      BY <1>2 DEF Reserve
    <2>3. optimistic' \in Int /\ Settled(c, y)
      BY <1>0, <2>1, <2>2 DEF Settled, Grants, Reserves, Returns
    <2> QED BY <1>0, <2>1, <2>2, <2>3, Balanced
  <1>3. CASE Confirm(c)
    <2>1. PICK m \in Nat : m = Actual(c) /\ m <= claim[c].n
      BY ActualBounds
    <2>2. PICK y \in ClaimRecords : /\ claim' = [claim EXCEPT ![c] = y] /\ y.n = m
                                    /\ y.at \in {"refund", "take"} /\ Returns(y) = claim[c].n - m
      BY <1>3, <2>1, ConfirmClaim
    <2>3. UNCHANGED <<tailIndex, headIndex, optimistic, overcommit>> /\ claim[c].at = "confirm"
      BY <1>3 DEF Confirm
    <2>4. /\ Grants(y) = m /\ Grants(claim[c]) = 0 /\ Reserves(y) = 0 /\ Reserves(claim[c]) = claim[c].n
          /\ Returns(claim[c]) = 0
      BY <2>2, <2>3 DEF Grants, Reserves, Returns
    <2>5. Settled(c, y)
      BY <1>0, <2>1, <2>2, <2>3, <2>4 DEF Settled
    <2> QED BY <1>0, <2>2, <2>3, <2>5, Balanced
  <1>4. CASE Refund(c)
    <2>1. PICK y \in ClaimRecords : /\ claim' = [claim EXCEPT ![c] = y] /\ y.at \in {"idle", "take"}
                                    /\ Grants(y) = claim[c].n
      BY <1>4, RefundClaim
    <2>2. /\ UNCHANGED <<tailIndex, headIndex, optimistic>> /\ claim[c].at = "refund"
          /\ overcommit' = overcommit + claim[c].back
      BY <1>4 DEF Refund
    <2>3. /\ Grants(claim[c]) = claim[c].n /\ Reserves(y) = 0 /\ Reserves(claim[c]) = 0
          /\ Returns(y) = 0 /\ Returns(claim[c]) = claim[c].back
      BY <2>1, <2>2 DEF Grants, Reserves, Returns
    <2>4. overcommit' \in Int /\ Settled(c, y)
      BY <1>0, <2>1, <2>2, <2>3 DEF Settled
    <2> QED BY <1>0, <2>1, <2>2, <2>4, Balanced
  <1>5. CASE Take(c)
    <2>1. PICK y \in ClaimRecords : claim' = [claim EXCEPT ![c] = y] /\ y.at = "owner"
      BY <1>5, TakeClaim
    <2>2. /\ UNCHANGED <<tailIndex, optimistic, overcommit>> /\ claim[c].at = "take"
          /\ headIndex' = headIndex + claim[c].n
      BY <1>5 DEF Take
    <2>3. headIndex' \in Int /\ Settled(c, y)
      BY <1>0, <2>1, <2>2 DEF Settled, Grants, Reserves, Returns
    <2> QED BY <1>0, <2>1, <2>2, <2>3, Balanced
  <1>6. CASE Done(c)
    <2>1. /\ UNCHANGED <<tailIndex, headIndex, optimistic, overcommit>> /\ claim[c].at = "owner"
          /\ claim' = [claim EXCEPT ![c] = NoClaim]
      BY <1>6 DEF Done
    <2>2. Settled(c, NoClaim) /\ NoClaim \in ClaimRecords
      BY <1>0, <2>1, NoClaimRecord DEF Settled, Grants, Reserves, Returns
    <2> QED BY <1>0, <2>1, <2>2, Balanced
  <1> QED BY <1>1, <1>2, <1>3, <1>4, <1>5, <1>6

\* A step that leaves the claims.
LEMMA ClaimsRest ==
  ASSUME ClaimInv, UNCHANGED <<headIndex, optimistic, overcommit, claim>>, tailIndex' \in Int
  PROVE  ClaimInv' /\ Gone' = Gone
  <1>1. AllGranted' = AllGranted /\ AllReserved' = AllReserved /\ AllReturned' = AllReturned
    BY DEF AllGranted, AllReserved, AllReturned, Grants, Reserves, Returns
  <1>2. Gone' = Gone
    BY <1>1 DEF Gone
  <1> QED BY <1>1, <1>2 DEF ClaimInv, Balance

LEMMA StepClaims == ClaimInv /\ [ClaimsNext]_claimVars => ClaimInv'
  <1> SUFFICES ASSUME ClaimInv, [ClaimsNext]_claimVars PROVE ClaimInv'
    OBVIOUS
  <1>1. CASE UNCHANGED claimVars
    BY <1>1, ClaimsRest DEF claimVars, ClaimInv
  <1>2. ASSUME NEW n \in Nat \ {0}, Advance(n) PROVE ClaimInv'
    BY <1>2, ClaimsRest DEF Advance, ClaimInv
  <1> QED BY <1>1, <1>2, ClaimBalanced DEF ClaimsNext

\* When no call is in progress the counters give the head.
LEMMA BalanceAtRest == ClaimInv => CountersBalance
  <1> SUFFICES ASSUME ClaimInv, \A c \in Consumers : claim[c].at \in {"idle", "owner"}
               PROVE  optimistic - overcommit = headIndex
    BY DEF CountersBalance
  <1>1. PICK f, g, h : f = AllGranted /\ g = AllReserved /\ h = AllReturned
    OBVIOUS
  <1>2. \A c \in Consumers : f[c] = 0 /\ g[c] = 0 /\ h[c] = 0
    BY <1>1 DEF AllGranted, AllReserved, AllReturned, Grants, Reserves, Returns
  <1>3. Sum(f) = 0 /\ Sum(g) = 0 /\ Sum(h) = 0
    BY <1>2, SumZero
  <1> QED BY <1>1, <1>3 DEF ClaimInv, Balance, Gone

-----------------------------------------------------------------------------
(* The head stays behind the tail.  A reservation may be refused or granted in any order; one that   *)
(* is granted late is covered by what those before it in the order of the count may still be granted. *)

\* The counters a consumer compares are less than half the range apart.
InWindow(d) == -(W \div 2) < d /\ d < W \div 2
Window ==
  /\ InWindow(tailIndex - (optimistic - overcommit))
  /\ \A c \in Consumers : claim[c].at = "confirm" =>
       InWindow(tailIndex - (claim[c].k - claim[c].over))

\* What is reserved and not confirmed at counts before k.
Part(x, k) == IF x.at = "confirm" /\ x.k < k THEN x.n ELSE 0
Before(k) == [d \in Consumers |-> Part(claim[d], k)]

\* An attempt asks for something, by an overcommit count that may be old, and its reservation is
\* behind the count and apart from the others.
Asking(c) ==
  /\ claim[c].at \in {"reserve", "confirm"} => claim[c].n >= 1 /\ claim[c].over <= overcommit
  /\ claim[c].at = "confirm" => claim[c].k + claim[c].n <= optimistic
Apart(c, d) ==
  claim[c].at = "confirm" /\ claim[d].at = "confirm" /\ c /= d =>
    claim[c].k + claim[c].n <= claim[d].k \/ claim[d].k + claim[d].n <= claim[c].k

\* With all those before it granted in full, the positions gone are no more than what c compares with
\* the tail, or leave room for c's own too.
Covered(c) ==
  claim[c].at = "confirm" =>
    \/ Gone + Sum(Before(claim[c].k)) <= claim[c].k - claim[c].over
    \/ Gone + Sum(Before(claim[c].k)) + claim[c].n <= tailIndex

Ahead ==
  /\ Gone <= tailIndex
  /\ \A c \in Consumers : Asking(c) /\ Covered(c)
  /\ \A c, d \in Consumers : Apart(c, d)

\* The sums before a count are numbers, and change by the part of the claim that changes.
LEMMA BeforeNat ==
  ASSUME ClaimInv, NEW k \in Int
  PROVE  Before(k) \in [Consumers -> Nat] /\ Sum(Before(k)) \in Nat
  <1>1. \A x \in ClaimRecords : Part(x, k) \in Nat
    BY DEF ClaimRecords, Part
  <1>2. Before(k) \in [Consumers -> Nat]
    BY <1>1 DEF Before, ClaimInv
  <1> QED BY <1>2, SumNat

LEMMA BeforeMoved ==
  ASSUME ClaimInv, NEW c \in Consumers, NEW y \in ClaimRecords, claim' = [claim EXCEPT ![c] = y], NEW k \in Int
  PROVE  Sum(Before(k))' = Sum(Before(k)) - Part(claim[c], k) + Part(y, k)
  <1>1. \A x \in ClaimRecords : Part(x, k) \in Nat
    BY DEF ClaimRecords, Part
  <1>2. claim \in [Consumers -> ClaimRecords] /\ claim' \in [Consumers -> ClaimRecords]
    BY DEF ClaimInv
  <1>3. claim'[c] = y /\ \A d \in Consumers : d /= c => claim'[d] = claim[d]
    BY <1>2
  <1>4. PICK f, g : f = Before(k) /\ g = Before(k)'
    OBVIOUS
  <1>5. f = [d \in Consumers |-> Part(claim[d], k)] /\ g = [d \in Consumers |-> Part(claim'[d], k)]
    BY <1>4 DEF Before, Part
  <1>6. f \in [Consumers -> Nat] /\ g \in [Consumers -> Nat]
    BY <1>1, <1>2, <1>5
  <1>7. \A d \in Consumers : d /= c => g[d] = f[d]
    BY <1>3, <1>5
  <1>8. f[c] = Part(claim[c], k) /\ g[c] = Part(y, k)
    BY <1>3, <1>5
  <1>9. Sum(g) = Sum(f) - f[c] + g[c]
    BY <1>6, <1>7, SumStep
  <1> QED BY <1>4, <1>8, <1>9

\* What is gone changes as the head and the claim do.
LEMMA GoneMoved ==
  ASSUME ClaimInv, NEW c \in Consumers, NEW y \in ClaimRecords, claim' = [claim EXCEPT ![c] = y],
         headIndex' \in Int
  PROVE  Gone \in Int /\ Gone' = Gone + (headIndex' - headIndex) - Grants(claim[c]) + Grants(y)
  <1>1. Sum(AllGranted)' = Sum(AllGranted) - Grants(claim[c]) + Grants(y)
    BY SumsMoved
  <1>2. PICK g \in Int, g1 \in Int : g = Grants(claim[c]) /\ g1 = Grants(y)
    <2>1. \A x \in ClaimRecords : Grants(x) \in Int
      BY DEF ClaimRecords, Grants
    <2> QED BY <2>1 DEF ClaimInv
  <1>3. PICK s \in Int, h \in Int, h1 \in Int : s = Sum(AllGranted) /\ h = headIndex /\ h1 = headIndex'
    BY ClaimSums DEF ClaimInv
  <1>4. Gone = h + s /\ Gone' = h1 + (s - g + g1)
    BY <1>1, <1>2, <1>3 DEF Gone
  <1>5. h1 + (s - g + g1) = (h + s) + (h1 - h) - g + g1
    OBVIOUS
  <1> QED BY <1>2, <1>3, <1>4, <1>5

\* A step of a claim that is neither before nor after a reservation of its own.
LEMMA AheadKept ==
  ASSUME ClaimInv, Ahead, NEW c \in Consumers, NEW y \in ClaimRecords, claim' = [claim EXCEPT ![c] = y],
         claim[c].at /= "confirm", y.at /= "confirm",
         y.at = "reserve" => y.n >= 1 /\ y.over <= overcommit',
         headIndex' \in Int, Gone' = Gone, overcommit' \in Int, overcommit <= overcommit',
         UNCHANGED <<optimistic, tailIndex>>
  PROVE  Ahead'
  <1>1. claim \in [Consumers -> ClaimRecords] /\ overcommit \in Int
    BY DEF ClaimInv
  <1>2. claim'[c] = y /\ \A d \in Consumers : d /= c => claim'[d] = claim[d]
    BY <1>1
  <1>3. ASSUME NEW d \in Consumers PROVE Asking(d)'
    <2>1. CASE d = c
      BY <1>2, <2>1 DEF Asking
    <2>2. CASE d /= c
      <3>1. Asking(d) /\ claim'[d] = claim[d] /\ claim[d].over \in Int
        BY <1>1, <1>2, <2>2 DEF Ahead, ClaimRecords
      <3> QED BY <1>1, <3>1 DEF Asking
    <2> QED BY <2>1, <2>2
  <1>4. ASSUME NEW d \in Consumers PROVE Covered(d)'
    <2>1. CASE d = c
      BY <1>2, <2>1 DEF Covered
    <2>2. CASE d /= c
      <3>1. Covered(d) /\ claim'[d] = claim[d] /\ claim[d].k \in Int
        BY <1>1, <1>2, <2>2 DEF Ahead, ClaimRecords
      <3>2. \A x \in ClaimRecords : x.at /= "confirm" => Part(x, claim[d].k) = 0
        BY DEF Part
      <3>3. Sum(Before(claim[d].k)) \in Nat
        BY <3>1, BeforeNat
      <3>4. PICK k \in Int : k = claim[d].k
        BY <3>1
      <3>5. Sum(Before(k))' = Sum(Before(k)) - Part(claim[c], k) + Part(y, k)
        BY BeforeMoved
      <3>8. Part(claim[c], k) = 0 /\ Part(y, k) = 0
        BY <1>1, <3>2, <3>4
      <3>6. Sum(Before(k))' = Sum(Before(k))
        BY <3>3, <3>4, <3>5, <3>8
      <3>7. Sum(Before(claim[d].k))' = Sum(Before(k))'
        BY <3>1, <3>4
      <3> QED BY <3>1, <3>4, <3>6, <3>7 DEF Covered
    <2> QED BY <2>1, <2>2
  <1>5. ASSUME NEW d \in Consumers, NEW e \in Consumers PROVE Apart(d, e)'
    BY <1>2 DEF Ahead, Apart
  <1>6. (Gone <= tailIndex)'
    BY DEF Ahead
  <1> QED BY <1>3, <1>4, <1>5, <1>6 DEF Ahead

\* A new reservation comes after all the others, and by the balance nothing is hidden from it.
LEMMA ReserveAhead ==
  ASSUME ClaimInv, Ahead, NEW c \in Consumers, Reserve(c)
  PROVE  Ahead'
  <1>0. /\ claim \in [Consumers -> ClaimRecords] /\ claim[c] \in ClaimRecords /\ optimistic \in Int
        /\ overcommit \in Int /\ tailIndex \in Int /\ headIndex \in Int /\ claim[c].at = "reserve"
        /\ UNCHANGED <<tailIndex, headIndex, overcommit>>
    BY DEF ClaimInv, Reserve
  <1>1. PICK y \in ClaimRecords : /\ claim' = [claim EXCEPT ![c] = y] /\ y.at = "confirm" /\ y.k = optimistic
                                  /\ y.n = claim[c].n /\ y.over = claim[c].over
    BY ReserveClaim
  <1>2. claim'[c] = y /\ \A d \in Consumers : d /= c => claim'[d] = claim[d]
    BY <1>0, <1>1
  <1>3. PICK n \in Nat, v \in Int : n = claim[c].n /\ v = claim[c].over /\ n >= 1 /\ v <= overcommit
    BY <1>0 DEF ClaimRecords, Ahead, Asking
  <1>4. optimistic' = optimistic + n /\ optimistic' \in Int
    BY <1>0, <1>3 DEF Reserve
  <1>5. Gone' = Gone /\ Gone \in Int
    <2>1. Grants(claim[c]) = 0 /\ Grants(y) = 0
      BY <1>0, <1>1 DEF Grants
    <2>2. Gone \in Int /\ Gone' = Gone + (headIndex' - headIndex) - Grants(claim[c]) + Grants(y)
      BY <1>0, <1>1, GoneMoved
    <2> QED BY <1>0, <2>1, <2>2
  <1>6. ASSUME NEW d \in Consumers PROVE Asking(d)'
    <2>1. CASE d = c
      BY <1>0, <1>1, <1>2, <1>3, <1>4, <2>1 DEF Asking
    <2>2. CASE d /= c
      <3>1. Asking(d) /\ claim'[d] = claim[d] /\ claim[d].k \in Int /\ claim[d].n \in Int
        BY <1>0, <1>2, <2>2 DEF Ahead, ClaimRecords
      <3> QED BY <1>0, <1>3, <1>4, <3>1 DEF Asking
    <2> QED BY <2>1, <2>2
  <1>7. ASSUME NEW d \in Consumers, NEW e \in Consumers PROVE Apart(d, e)'
    <2>1. CASE d /= c /\ e /= c
      BY <1>2, <2>1 DEF Ahead, Apart
    <2>2. ASSUME NEW a \in Consumers, a /= c, claim[a].at = "confirm" PROVE claim[a].k + claim[a].n <= optimistic
      BY <2>2 DEF Ahead, Asking
    <2> QED BY <1>1, <1>2, <2>1, <2>2 DEF Apart
  <1>8. ASSUME NEW d \in Consumers PROVE Covered(d)'
    <2>1. CASE d /= c /\ claim[d].at = "confirm"
      <3>1. PICK k \in Int : k = claim[d].k
        BY <1>0 DEF ClaimRecords
      <3>2. k < optimistic
        <4>1. claim[d].n >= 1 /\ claim[d].n \in Int /\ k + claim[d].n <= optimistic
          BY <1>0, <2>1, <3>1 DEF Ahead, Asking, ClaimRecords
        <4> QED BY <1>0, <4>1
      <3>3. Part(claim[c], k) = 0 /\ Part(y, k) = 0
        BY <1>0, <1>1, <3>2 DEF Part
      <3>4. Sum(Before(k))' = Sum(Before(k)) - Part(claim[c], k) + Part(y, k) /\ Sum(Before(k)) \in Nat
        BY <1>1, BeforeMoved, BeforeNat
      <3>5. Sum(Before(k))' = Sum(Before(k))
        BY <3>3, <3>4
      <3>6. claim'[d] = claim[d] /\ Covered(d)
        BY <1>2, <2>1 DEF Ahead
      <3>7. Sum(Before(claim[d].k))' = Sum(Before(k))'
        BY <3>1, <3>6
      <3> QED BY <1>0, <1>5, <3>1, <3>5, <3>6, <3>7 DEF Covered
    <2>2. CASE d = c
      <3>1. PICK k \in Int : k = optimistic
        BY <1>0
      <3>2. Before(k) = AllReserved
        <4>1. ASSUME NEW e \in Consumers, claim[e].at = "confirm" PROVE claim[e].k < k
          <5>1. claim[e].n >= 1 /\ claim[e].n \in Int /\ claim[e].k \in Int /\ claim[e].k + claim[e].n <= optimistic
            BY <1>0, <4>1 DEF Ahead, Asking, ClaimRecords
          <5> QED BY <3>1, <5>1
        <4> QED BY <4>1 DEF Before, Part, AllReserved, Reserves
      <3>3. Part(claim[c], k) = 0 /\ Part(y, k) = 0
        BY <1>0, <1>1, <3>1 DEF Part
      <3>4. Sum(Before(k))' = Sum(Before(k)) - Part(claim[c], k) + Part(y, k) /\ Sum(Before(k)) \in Nat
        BY <1>1, BeforeMoved, BeforeNat
      <3>5. Sum(Before(k))' = Sum(AllReserved)
        BY <3>2, <3>3, <3>4
      <3>6. PICK g \in Int, r \in Nat, b \in Nat, o \in Int, w \in Int :
              g = Gone /\ r = Sum(AllReserved) /\ b = Sum(AllReturned) /\ o = optimistic /\ w = overcommit
        BY <1>0, <1>5, ClaimSums
      <3>7. o - w = g + r + b /\ v <= w
        BY <1>3, <3>6 DEF ClaimInv, Balance
      <3>8. g + r <= o - v
        BY <3>7
      <3>9. claim'[d] = y /\ y.k = o /\ y.over = v /\ k = o
        BY <1>1, <1>2, <1>3, <2>2, <3>1, <3>6
      <3>10. Sum(Before(claim[d].k))' = r
        BY <3>5, <3>6, <3>9
      <3> QED BY <1>5, <3>6, <3>8, <3>9, <3>10 DEF Covered
    <2>3. CASE d /= c /\ claim[d].at /= "confirm"
      BY <1>2, <2>3 DEF Covered
    <2> QED BY <2>1, <2>2, <2>3
  <1>9. (Gone <= tailIndex)'
    BY <1>0, <1>5 DEF Ahead
  <1> QED BY <1>6, <1>7, <1>8, <1>9 DEF Ahead

\* What may be granted to c is what the tail, loaded now, shows beyond c's old counts.
LEMMA ActualBehindTail ==
  ASSUME ClaimInv, Window, NEW c \in Consumers, claim[c].at = "confirm", Actual(c) > 0
  PROVE  claim[c].k - claim[c].over + Actual(c) <= tailIndex
  <1>1. PICK first \in Int, n \in Nat, t \in Int :
          first = claim[c].k - claim[c].over /\ n = claim[c].n /\ t = tailIndex
    BY DEF ClaimInv, ClaimRecords
  <1>2. PICK h \in Nat : h = W \div 2 /\ W = 2 * h
    BY WAssumption
  <1>3. -h < t - first /\ t - first < h
    BY <1>1, <1>2 DEF Window, InWindow
  <1>4. CircLess(first, t) /\ Actual(c) = Least((t - first) % W, n)
    BY <1>1 DEF Actual
  <1>5. (first - t) % W > h
    BY <1>2, <1>4 DEF CircLess
  <1>6. PICK d \in Int : d = first - t
    BY <1>1
  <1>7. ~(0 <= d)
    <2> SUFFICES ASSUME 0 <= d PROVE FALSE
      OBVIOUS
    <2>1. d < h /\ d < W
      BY <1>2, <1>3, <1>6
    <2>2. d % W = d
      BY <2>1, Remainder
    <2> QED BY <1>5, <1>6, <2>1, <2>2
  <1>8. PICK e \in Int : e = t - first
    BY <1>1
  <1>9. 0 <= e /\ e < W
    BY <1>2, <1>3, <1>6, <1>7, <1>8
  <1>10. e % W = e
    BY <1>9, Remainder
  <1>11. Actual(c) <= e /\ Actual(c) \in Nat
    BY <1>4, <1>8, <1>10, ActualBounds DEF Least
  <1> QED BY <1>1, <1>8, <1>11

\* A reservation that is granted m of its n elements: those before it may still be granted theirs,
\* and those after it counted on all n.
LEMMA ConfirmAhead ==
  ASSUME ClaimInv, Ahead, Window, NEW c \in Consumers, Confirm(c)
  PROVE  Ahead'
  <1>0. /\ claim \in [Consumers -> ClaimRecords] /\ claim[c] \in ClaimRecords /\ optimistic \in Int
        /\ overcommit \in Int /\ tailIndex \in Int /\ headIndex \in Int /\ claim[c].at = "confirm"
        /\ UNCHANGED <<tailIndex, headIndex, optimistic, overcommit>>
    BY DEF ClaimInv, Confirm
  <1>1. PICK m \in Nat : m = Actual(c) /\ m <= claim[c].n
    BY ActualBounds
  <1>2. PICK y \in ClaimRecords : /\ claim' = [claim EXCEPT ![c] = y] /\ y.n = m
                                  /\ y.at \in {"refund", "take"}
    BY <1>1, ConfirmClaim
  <1>3. claim'[c] = y /\ \A d \in Consumers : d /= c => claim'[d] = claim[d]
    BY <1>0, <1>2
  <1>4. PICK kc \in Int, n \in Nat, t \in Int, g \in Int, l \in Nat :
          /\ kc = claim[c].k /\ n = claim[c].n /\ t = tailIndex /\ g = Gone /\ l = Sum(Before(kc))
    <2>1. claim[c].k \in Int /\ claim[c].n \in Nat /\ Gone \in Int
      BY <1>0, <1>2, GoneMoved DEF ClaimRecords
    <2> QED BY <1>0, <2>1, BeforeNat
  <1>5. Gone' = g + m
    <2>1. Grants(claim[c]) = 0 /\ Grants(y) = m
      BY <1>0, <1>2 DEF Grants
    <2>2. Gone' = Gone + (headIndex' - headIndex) - Grants(claim[c]) + Grants(y)
      BY <1>0, <1>2, GoneMoved
    <2> QED BY <1>0, <1>4, <2>1, <2>2
  \* Whatever is granted here leaves room for all before it.
  <1>6. m > 0 => g + l + m <= t
    <2> SUFFICES ASSUME m > 0 PROVE g + l + m <= t
      OBVIOUS
    <2>1. PICK f \in Int : f = claim[c].k - claim[c].over
      BY <1>0 DEF ClaimRecords
    <2>2. f + m <= t
      BY <1>0, <1>1, <1>4, <2>1, ActualBehindTail
    <2>3. g + l <= f \/ g + l + n <= t
      BY <1>0, <1>4, <2>1 DEF Ahead, Covered
    <2> QED BY <1>1, <1>4, <2>2, <2>3
  <1>7. g <= t /\ (Gone <= tailIndex)'
    <2>1. g <= t
      BY <1>4 DEF Ahead
    <2>2. g + m <= t
      BY <1>6, <2>1
    <2> QED BY <1>0, <1>4, <1>5, <2>1, <2>2
  <1>8. ASSUME NEW d \in Consumers PROVE Asking(d)'
    <2>1. CASE d = c
      BY <1>2, <1>3, <2>1 DEF Asking
    <2>2. CASE d /= c
      BY <1>0, <1>3, <2>2 DEF Ahead, Asking
    <2> QED BY <2>1, <2>2
  <1>9. ASSUME NEW d \in Consumers, NEW e \in Consumers PROVE Apart(d, e)'
    <2>1. CASE d /= c /\ e /= c
      BY <1>3, <2>1 DEF Ahead, Apart
    <2> QED BY <1>2, <1>3, <2>1 DEF Apart
  <1>10. ASSUME NEW d \in Consumers PROVE Covered(d)'
    <2>1. CASE d = c \/ claim[d].at /= "confirm"
      BY <1>2, <1>3, <2>1 DEF Covered
    <2>2. CASE d /= c /\ claim[d].at = "confirm"
      <3>1. PICK k \in Int, nd \in Nat, v \in Int, ld \in Nat :
              k = claim[d].k /\ nd = claim[d].n /\ v = claim[d].over /\ ld = Sum(Before(k))
        <4>1. claim[d].k \in Int /\ claim[d].n \in Nat /\ claim[d].over \in Int
          BY <1>0 DEF ClaimRecords
        <4> QED BY <4>1, BeforeNat
      <3>2. Sum(Before(k))' = Sum(Before(k)) - Part(claim[c], k) + Part(y, k)
        BY <1>2, BeforeMoved
      <3>3. g + ld <= k - v \/ g + ld + nd <= t
        BY <1>4, <2>2, <3>1 DEF Ahead, Covered
      <3>4. claim'[d] = claim[d] /\ Sum(Before(claim[d].k))' = Sum(Before(k))'
        BY <1>3, <2>2, <3>1
      <3>5. Part(y, k) = 0
        BY <1>2 DEF Part
      <3>6. CASE kc < k
        <4>1. Part(claim[c], k) = n
          BY <1>0, <1>4, <3>6 DEF Part
        <4>2. Sum(Before(k))' = ld - n
          BY <3>1, <3>2, <3>5, <4>1
        <4>3. g + m + (ld - n) <= k - v \/ g + m + (ld - n) + nd <= t
          BY <1>1, <1>4, <3>3
        <4> QED BY <1>0, <1>4, <1>5, <3>1, <3>4, <4>2, <4>3 DEF Covered
      <3>7. CASE ~(kc < k)
        <4>1. Part(claim[c], k) = 0
          BY <1>4, <3>7 DEF Part
        <4>2. Sum(Before(k))' = ld
          BY <3>1, <3>2, <3>5, <4>1
        <4>3. CASE m = 0
          BY <1>0, <1>4, <1>5, <3>1, <3>3, <3>4, <4>2, <4>3 DEF Covered
        <4>4. CASE m > 0
          <5>1. k < kc
            <6>1. k + nd <= kc \/ kc + n <= k
              BY <1>0, <1>4, <2>2, <3>1 DEF Ahead, Apart
            <6>2. nd >= 1 /\ n >= 1
              BY <1>0, <1>4, <2>2, <3>1 DEF Ahead, Asking
            <6> QED BY <3>7, <6>1, <6>2
          <5>2. ld + nd <= l
            <6>1. PICK f, h : f = Before(k) /\ h = Before(kc)
              OBVIOUS
            <6>2. f \in [Consumers -> Nat] /\ h \in [Consumers -> Nat] /\ f[d] = 0 /\ h[d] = nd
              <7>1. f \in [Consumers -> Nat] /\ h \in [Consumers -> Nat]
                BY <6>1, BeforeNat
              <7>2. f[d] = 0 /\ h[d] = nd
                BY <2>2, <3>1, <5>1, <6>1 DEF Before, Part
              <7> QED BY <7>1, <7>2
            <6>3. PICK f1 : f1 = [f EXCEPT ![d] = nd]
              OBVIOUS
            <6>4. f1 \in [Consumers -> Nat] /\ f1[d] = nd /\ \A e \in Consumers : e /= d => f1[e] = f[e]
              BY <3>1, <6>2, <6>3
            <6>5. Sum(f1) = Sum(f) - f[d] + f1[d] /\ Sum(f1) \in Nat
              BY <6>2, <6>4, SumStep
            <6>6. \A e \in Consumers : f1[e] <= h[e]
              <7>1. \A e \in Consumers : e /= d => f[e] <= h[e]
                <8> SUFFICES ASSUME NEW e \in Consumers PROVE f[e] <= h[e]
                  OBVIOUS
                <8>1. claim[e].k \in Int /\ claim[e].n \in Nat
                  BY <1>0 DEF ClaimRecords
                <8> QED BY <5>1, <6>1, <8>1 DEF Before, Part
              <7> QED BY <6>2, <6>4, <7>1
            <6>7. Sum(f1) <= Sum(h)
              BY <6>2, <6>4, <6>6, SumLeast
            <6> QED BY <1>4, <3>1, <6>1, <6>2, <6>4, <6>5, <6>7
          <5>3. g + m + ld + nd <= t
            BY <1>6, <4>4, <5>2
          <5> QED BY <1>0, <1>4, <1>5, <3>1, <3>4, <4>2, <5>3 DEF Covered
        <4> QED BY <4>3, <4>4
      <3> QED BY <3>6, <3>7
    <2> QED BY <2>1, <2>2
  <1> QED BY <1>7, <1>8, <1>9, <1>10 DEF Ahead

\* An attempt begins only when the counters, compared modulo W, show something behind the tail.
LEMMA LookAsks ==
  ASSUME ClaimInv, Window, NEW c \in Consumers, NEW max \in 1 .. MaxTake, Look(c, max)
  PROVE  Least((tailIndex - (optimistic - overcommit)) % W, max) >= 1
  <1>1. PICK f \in Int, t \in Int : f = optimistic - overcommit /\ t = tailIndex
    BY DEF ClaimInv
  <1>2. PICK h \in Nat : h = W \div 2 /\ W = 2 * h
    BY WAssumption
  <1>3. -h < t - f /\ t - f < h
    BY <1>1, <1>2 DEF Window, InWindow
  <1>4. (f - t) % W > h
    BY <1>1, <1>2 DEF Look, CircLess
  <1>5. PICK d \in Int, e \in Int : d = f - t /\ e = t - f
    BY <1>1
  <1>6. ~(0 <= d)
    <2> SUFFICES ASSUME 0 <= d PROVE FALSE
      OBVIOUS
    <2>1. d < h /\ d < W
      BY <1>2, <1>3, <1>5
    <2>2. d % W = d
      BY <2>1, Remainder
    <2> QED BY <1>4, <1>5, <2>1, <2>2
  <1>7. 1 <= e /\ e < W
    BY <1>2, <1>3, <1>5, <1>6
  <1>8. e % W = e
    BY <1>7, Remainder
  <1> QED BY <1>1, <1>5, <1>7, <1>8, MaxTakeAssumption DEF Least

LEMMA InitAhead == ASSUME NEW s \in Nat, ClaimsInit(s) PROVE Ahead
  <1>1. tailIndex = s /\ Gone = s /\ \A c \in Consumers : claim[c].at = "idle"
    BY InitClaims, NoClaimRecord DEF ClaimsInit
  <1> QED BY <1>1 DEF Ahead, Asking, Apart, Covered

\* A step of one claim keeps the head behind the tail.
LEMMA ClaimAhead ==
  ASSUME ClaimInv, Ahead, Window, NEW c \in Consumers,
         \/ \E max \in 1 .. MaxTake : Look(c, max)
         \/ Reserve(c) \/ Confirm(c) \/ Refund(c) \/ Take(c) \/ Done(c)
  PROVE  Ahead'
  <1>0. /\ tailIndex \in Int /\ headIndex \in Int /\ optimistic \in Int /\ overcommit \in Int
        /\ claim[c] \in ClaimRecords /\ claim[c].n \in Nat /\ claim[c].back \in Nat
    BY DEF ClaimInv, ClaimRecords
  <1>1. ASSUME NEW max \in 1 .. MaxTake, Look(c, max) PROVE Ahead'
    <2>1. PICK y \in ClaimRecords :
            /\ claim' = [claim EXCEPT ![c] = y] /\ y.at = "reserve" /\ y.over = overcommit
            /\ y.n = Least((tailIndex - (optimistic - overcommit)) % W, max)
      BY <1>1, LookClaim
    <2>2. UNCHANGED <<tailIndex, headIndex, optimistic, overcommit>> /\ claim[c].at = "idle"
      BY <1>1 DEF Look
    <2>3. y.n >= 1
      BY <1>1, <2>1, LookAsks
    <2>4. Grants(claim[c]) = 0 /\ Grants(y) = 0
      BY <2>1, <2>2 DEF Grants
    <2>5. Gone \in Int /\ Gone' = Gone + (headIndex' - headIndex) - Grants(claim[c]) + Grants(y)
      BY <1>0, <2>1, <2>2, GoneMoved
    <2>6. Gone' = Gone
      BY <1>0, <2>2, <2>4, <2>5
    <2>7. claim[c].at /= "confirm" /\ y.at /= "confirm" /\ y.over <= overcommit' /\ overcommit <= overcommit'
      BY <1>0, <2>1, <2>2
    <2> QED BY <1>0, <2>1, <2>2, <2>3, <2>6, <2>7, AheadKept
  <1>2. CASE Reserve(c)
    BY <1>2, ReserveAhead
  <1>3. CASE Confirm(c)
    BY <1>3, ConfirmAhead
  <1>4. CASE Refund(c)
    <2>1. PICK y \in ClaimRecords : /\ claim' = [claim EXCEPT ![c] = y] /\ y.at \in {"idle", "take"}
                                    /\ Grants(y) = claim[c].n
      BY <1>4, RefundClaim
    <2>2. /\ UNCHANGED <<tailIndex, headIndex, optimistic>> /\ claim[c].at = "refund"
          /\ overcommit' = overcommit + claim[c].back
      BY <1>4 DEF Refund
    <2>3. Grants(claim[c]) = claim[c].n
      BY <2>2 DEF Grants
    <2>4. Gone \in Int /\ Gone' = Gone + (headIndex' - headIndex) - Grants(claim[c]) + Grants(y)
      BY <1>0, <2>1, <2>2, GoneMoved
    <2>5. Gone' = Gone
      BY <1>0, <2>1, <2>2, <2>3, <2>4
    <2>6. /\ overcommit' \in Int /\ overcommit <= overcommit'
          /\ claim[c].at /= "confirm" /\ y.at /= "confirm" /\ y.at /= "reserve"
      BY <1>0, <2>1, <2>2
    <2> QED BY <1>0, <2>1, <2>2, <2>5, <2>6, AheadKept
  <1>5. CASE Take(c)
    <2>1. PICK y \in ClaimRecords : claim' = [claim EXCEPT ![c] = y] /\ y.at = "owner"
      BY <1>5, TakeClaim
    <2>2. /\ UNCHANGED <<tailIndex, optimistic, overcommit>> /\ claim[c].at = "take"
          /\ headIndex' = headIndex + claim[c].n
      BY <1>5 DEF Take
    <2>3. Grants(claim[c]) = claim[c].n /\ Grants(y) = 0 /\ headIndex' \in Int
      BY <1>0, <2>1, <2>2 DEF Grants
    <2>4. Gone \in Int /\ Gone' = Gone + (headIndex' - headIndex) - Grants(claim[c]) + Grants(y)
      BY <2>1, <2>3, GoneMoved
    <2>5. Gone' = Gone
      BY <1>0, <2>2, <2>3, <2>4
    <2>6. overcommit <= overcommit' /\ claim[c].at /= "confirm" /\ y.at /= "confirm" /\ y.at /= "reserve"
      BY <1>0, <2>1, <2>2
    <2> QED BY <1>0, <2>1, <2>2, <2>3, <2>5, <2>6, AheadKept
  <1>6. CASE Done(c)
    <2>1. /\ UNCHANGED <<tailIndex, headIndex, optimistic, overcommit>> /\ claim[c].at = "owner"
          /\ claim' = [claim EXCEPT ![c] = NoClaim]
      BY <1>6 DEF Done
    <2>2. Grants(claim[c]) = 0
      BY <2>1 DEF Grants
    <2>3. NoClaim \in ClaimRecords /\ NoClaim.at = "idle" /\ Grants(NoClaim) = 0
      BY NoClaimRecord
    <2>4. Gone \in Int /\ Gone' = Gone + (headIndex' - headIndex) - Grants(claim[c]) + Grants(NoClaim)
      BY <1>0, <2>1, <2>3, GoneMoved
    <2>5. Gone' = Gone
      BY <1>0, <2>1, <2>2, <2>3, <2>4
    <2>6. /\ overcommit <= overcommit' /\ claim[c].at /= "confirm"
          /\ NoClaim.at /= "confirm" /\ NoClaim.at /= "reserve"
      BY <1>0, <2>1, <2>3
    <2> QED BY <1>0, <2>1, <2>3, <2>5, <2>6, AheadKept
  <1> QED BY <1>1, <1>2, <1>3, <1>4, <1>5, <1>6

LEMMA StepAhead == ClaimInv /\ Ahead /\ Window /\ [ClaimsNext]_claimVars => Ahead'
  <1> SUFFICES ASSUME ClaimInv, Ahead, Window, [ClaimsNext]_claimVars PROVE Ahead'
    OBVIOUS
  <1>1. ASSUME UNCHANGED <<headIndex, optimistic, overcommit, claim>>, tailIndex' \in Int, tailIndex <= tailIndex'
        PROVE  Ahead'
    <2>1. Gone' = Gone /\ tailIndex \in Int
      BY <1>1, ClaimsRest DEF ClaimInv
    <2>2. Gone \in Int
      BY ClaimSums DEF ClaimInv, Gone
    <2>3. \A c \in Consumers : Asking(c)' /\ \A d \in Consumers : Apart(c, d)'
      BY <1>1 DEF Ahead, Asking, Apart
    <2>4. (Gone <= tailIndex)'
      BY <1>1, <2>1, <2>2 DEF Ahead
    <2>5. ASSUME NEW c \in Consumers, claim[c].at = "confirm" PROVE Covered(c)'
      <3>1. PICK k \in Int, n \in Nat : k = claim[c].k /\ n = claim[c].n
        BY DEF ClaimInv, ClaimRecords
      <3>2. Sum(Before(k))' = Sum(Before(k)) /\ Sum(Before(k)) \in Nat
        <4>1. Before(k)' = Before(k)
          BY <1>1 DEF Before, Part
        <4>2. Sum(Before(k))' = Sum(Before(k))
          BY <4>1
        <4> QED BY <4>2, BeforeNat
      <3>3. Covered(c) /\ claim' = claim
        BY <1>1 DEF Ahead
      <3>4. Sum(Before(claim[c].k))' = Sum(Before(k))'
        BY <3>1, <3>3
      <3>5. \/ Gone + Sum(Before(k)) <= claim[c].k - claim[c].over
            \/ Gone + Sum(Before(k)) + n <= tailIndex
        BY <2>5, <3>1, <3>3 DEF Covered
      <3>6. PICK g \in Int, s \in Int, t \in Int, t1 \in Int :
              g = Gone /\ s = Sum(Before(k)) /\ t = tailIndex /\ t1 = tailIndex'
        BY <1>1, <2>1, <2>2, <3>2
      <3>7. g + s + n <= t => g + s + n <= t1
        BY <1>1, <3>6
      <3> QED BY <1>1, <2>1, <3>1, <3>2, <3>3, <3>4, <3>5, <3>6, <3>7 DEF Covered
    <2>6. \A c \in Consumers : Covered(c)'
      BY <1>1, <2>5 DEF Covered
    <2> QED BY <2>3, <2>4, <2>6 DEF Ahead
  <1>2. CASE UNCHANGED claimVars
    BY <1>1, <1>2 DEF claimVars, ClaimInv
  <1>3. ASSUME NEW n \in Nat \ {0}, Advance(n) PROVE Ahead'
    BY <1>1, <1>3 DEF Advance, ClaimInv
  <1> QED BY <1>2, <1>3, ClaimAhead DEF ClaimsNext

\* The elements granted are as many as the sum of the grants.
LEMMA GrantedCounted == ClaimInv => Cardinality(Granted) = Sum(AllGranted)
  <1> SUFFICES ASSUME ClaimInv PROVE Cardinality(Granted) = Sum(AllGranted)
    OBVIOUS
  <1>1. Granted = Units(AllGranted, Consumers)
    <2>1. ASSUME NEW u PROVE u \in Granted <=> u \in Units(AllGranted, Consumers)
      <3>1. u \in Granted <=> \E c \in Consumers : claim[c].at \in {"refund", "take"} /\ u \in {c} \X (1 .. claim[c].n)
        BY DEF Granted
      <3>2. u \in Units(AllGranted, Consumers) <=> \E c \in Consumers : u \in {c} \X (1 .. AllGranted[c])
        BY DEF Units
      <3>3. \A c \in Consumers : 1 .. AllGranted[c] = IF claim[c].at \in {"refund", "take"} THEN 1 .. claim[c].n ELSE {}
        BY DEF AllGranted, Grants
      <3>4. \A c \in Consumers : u \in {c} \X (1 .. AllGranted[c]) <=>
              claim[c].at \in {"refund", "take"} /\ u \in {c} \X (1 .. claim[c].n)
        BY <3>3
      <3> QED BY <3>1, <3>2, <3>4
    <2> QED BY <2>1
  <1> QED BY <1>1 DEF Sum

LEMMA HeadKept == ClaimInv /\ Ahead => HeadBehindTail
  BY GrantedCounted DEF Ahead, Gone, HeadBehindTail

\* When nobody is between a reservation and its refund, the counters less what was given back are the
\* head, for every number of consumers, bulks of every size and every interleaving, whatever the
\* unsigned comparisons say: no attempt hides an element from later ones (dequeueOptimisticCount,
\* dequeueOvercommit).
LEMMA ClaimsBalance == ClaimsSpec => []CountersBalance
  <1>1. (\E s \in Nat : ClaimsInit(s)) => ClaimInv
    BY InitClaims
  <1> QED BY <1>1, StepClaims, BalanceAtRest, PTL DEF ClaimsSpec

\* No consumer takes a position the producer has not published, for every number of consumers and
\* every width of the counters, as long as the counters that are compared are within half their
\* range of each other: however stale the overcommit count that an attempt was decided on, and in
\* whatever order the reservations are confirmed (dequeue's "guaranteed to be at least one element").
LEMMA ClaimsAhead == ClaimsSpec /\ []Window => []HeadBehindTail
  <1>1. (\E s \in Nat : ClaimsInit(s)) => ClaimInv /\ Ahead
    BY InitClaims, InitAhead
  <1>2. ClaimInv /\ Ahead /\ Window /\ [ClaimsNext]_claimVars => ClaimInv' /\ Ahead'
    BY StepClaims, StepAhead
  <1> QED BY <1>1, <1>2, HeadKept, PTL DEF ClaimsSpec

-----------------------------------------------------------------------------
(* The queues of a producer, explicit and implicit, claim as Claims says. *)

\* A call that is in progress enqueues something, and not beyond the limit.
IsCall(r) == "n" \in DOMAIN r /\ "at" \in DOMAIN r
Calling ==
  /\ IsCall(prod) /\ prod.n \in Nat /\ (prod.at /= "idle" => prod.n \in Nat \ {0})
  /\ tailIndex \in Int /\ limit \in Int /\ tailIndex + prod.n <= limit

\* The steps of Claims as the queues take them: below the bound on futile attempts.
ClaimStep(c) ==
  \/ optimistic < limit + MaxFutile /\ \E max \in 1 .. MaxTake : Look(c, max)
  \/ Reserve(c) \/ Confirm(c) \/ Refund(c) \/ Take(c) \/ Done(c)
Claiming ==
  /\ limit' = limit
  /\ \/ UNCHANGED claimVars
     \/ prod.n \in Nat \ {0} /\ Advance(prod.n)
     \/ \E c \in Consumers : ClaimStep(c)

\* A call goes on with the elements it was called for.
LEMMA CallKept ==
  ASSUME NEW r, IsCall(r), NEW at, NEW need, NEW first, NEW front0
  PROVE  \A e : \/ e = [r EXCEPT !.at = at]
                \/ e = [r EXCEPT !.need = need, !.at = at]
                \/ e = [r EXCEPT !.need = need, !.first = first, !.at = at, !.front0 = front0]
                => IsCall(e) /\ e.n = r.n
  BY DEF IsCall

LEMMA CallOver == IsCall(NoCall) /\ NoCall.at = "idle" /\ NoCall.n = 0
  BY DEF IsCall, NoCall

\* The steps that both kinds have.
LEMMA SharedCalls ==
  ASSUME Calling, EnqueueInBlock \/ Publish \/ (\E c \in Consumers, b \in Blocks : MoveOutOf(c, b))
  PROVE  Calling' /\ Claiming
  <1>1. CASE EnqueueInBlock
    <2>1. PICK e : e = [NoCall EXCEPT !.at = "publish", !.n = 1]
      OBVIOUS
    <2>2. IsCall(e) /\ e.n = 1
      BY <2>1 DEF IsCall, NoCall
    <2>3. prod' = [NoCall EXCEPT !.at = "publish", !.n = 1] /\ UNCHANGED <<claimVars, limit>> /\ tailIndex < limit
      BY <1>1, Zenon DEF EnqueueInBlock
    <2>4. prod' = e
      BY <2>1, <2>3
    <2> QED BY <2>2, <2>3, <2>4 DEF Calling, Claiming, claimVars
  <1>2. CASE Publish
    <2>1. prod.n \in Nat \ {0} /\ Advance(prod.n) /\ prod' = NoCall /\ limit' = limit
      BY <1>2 DEF Publish, Calling
    <2>2. tailIndex' = tailIndex + prod.n
      BY <2>1 DEF Advance
    <2> QED BY <2>1, <2>2, CallOver DEF Calling, Claiming
  <1>3. ASSUME NEW c \in Consumers, NEW b \in Blocks, MoveOutOf(c, b) PROVE Calling' /\ Claiming
    BY <1>3 DEF MoveOutOf, Calling, Claiming, claimVars
  <1> QED BY <1>1, <1>2, <1>3

\* A producer's queue takes them from there.
LEMMA ExplicitShares ==
  /\ Explicit!EnqueueInBlock => EnqueueInBlock
  /\ Explicit!Publish => Publish
  /\ \A b : \A c \in Consumers : Explicit!MoveOutOf(c, b) => UNCHANGED <<claimVars, prod, limit>>
  /\ \A c \in Consumers : Explicit!Claim(c) => ClaimStep(c) /\ UNCHANGED <<prod, limit>>
  /\ \A c \in Consumers : Explicit!Done(c) => Done(c)
  <1>1. Explicit!EnqueueInBlock => EnqueueInBlock
    BY DEF Explicit!EnqueueInBlock, EnqueueInBlock, Explicit!NoCall, NoCall, Explicit!claimVars, claimVars,
       Explicit!Boundary, Boundary
  <1>2. Explicit!Publish => Publish
    BY DEF Explicit!Publish, Publish, Explicit!NoCall, NoCall, Explicit!Advance, Advance
  <1>3. ASSUME NEW c \in Consumers, NEW b, Explicit!MoveOutOf(c, b) PROVE UNCHANGED <<claimVars, prod, limit>>
    BY <1>3 DEF Explicit!MoveOutOf, Explicit!claimVars, claimVars
  <1>4. ASSUME NEW c \in Consumers, Explicit!Done(c) PROVE Done(c)
    BY <1>4 DEF Explicit!Done, Done, Explicit!NoClaim, NoClaim
  <1>5. ASSUME NEW c \in Consumers, Explicit!Claim(c) PROVE ClaimStep(c) /\ UNCHANGED <<prod, limit>>
    <2>1. ASSUME NEW max \in 1 .. MaxTake, Explicit!Look(c, max) PROVE Look(c, max)
      BY <2>1 DEF Explicit!Look, Look, Explicit!NoClaim, NoClaim, Explicit!CircLess, CircLess, Explicit!Least, Least
    <2>2. Explicit!Reserve(c) => Reserve(c)
      BY DEF Explicit!Reserve, Reserve
    <2>3. Explicit!Actual(c) = Actual(c)
      BY DEF Explicit!Actual, Actual, Explicit!CircLess, CircLess, Explicit!Least, Least
    <2>4. Explicit!Confirm(c) => Confirm(c)
      BY <2>3 DEF Explicit!Confirm, Confirm
    <2>5. Explicit!Refund(c) => Refund(c)
      BY DEF Explicit!Refund, Refund, Explicit!NoClaim, NoClaim
    <2>6. Explicit!Take(c) => Take(c)
      BY DEF Explicit!Take, Take
    <2>7. UNCHANGED <<prod, limit>>
      BY <1>5 DEF Explicit!Claim
    <2> QED BY <1>5, <2>1, <2>2, <2>4, <2>5, <2>6, <2>7 DEF Explicit!Claim, ClaimStep
  <1> QED BY <1>1, <1>2, <1>3, <1>4, <1>5

\* A step that keeps the counters and goes on with the call, or ends it.
LEMMA CallGoesOn ==
  ASSUME Calling, UNCHANGED <<claimVars, limit>>,
         \/ prod' = prod
         \/ prod' = NoCall
         \/ prod.at /= "idle" /\ IsCall(prod') /\ prod'.n = prod.n
         \/ IsCall(prod') /\ prod'.n \in Nat \ {0} /\ tailIndex + prod'.n <= limit
  PROVE  Calling' /\ Claiming
  BY CallOver DEF Calling, Claiming, claimVars

LEMMA ExplicitConstants == Explicit!NoCall = NoCall /\ (Explicit!claimVars = claimVars)
  BY DEF Explicit!NoCall, NoCall, Explicit!claimVars, claimVars

LEMMA ExplicitProducerCalls ==
  ASSUME Calling, Explicit!Producer
  PROVE  Calling' /\ Claiming
  <1>1. CASE Explicit!EnqueueInBlock \/ Explicit!Publish
    BY <1>1, ExplicitShares, SharedCalls
  <1>2. ASSUME NEW b, NEW ixs, NEW front, NEW used,
               Explicit!StartIn(b, ixs, front, used) \/ Explicit!ThrowIn(b, ixs, front)
        PROVE  prod' = prod \/ (IsCall(prod') /\ prod'.n = 1)
    <2>1. PICK e : e = [NoCall EXCEPT !.at = "expose", !.n = 1]
      OBVIOUS
    <2>2. IsCall(e) /\ e.n = 1
      BY <2>1 DEF IsCall, NoCall
    <2>3. Explicit!StartIn(b, ixs, front, used) => prod' = [Explicit!NoCall EXCEPT !.at = "expose", !.n = 1]
      BY Zenon DEF Explicit!StartIn
    <2>4. Explicit!StartIn(b, ixs, front, used) => prod' = e
      BY <2>1, <2>3, ExplicitConstants
    <2>5. CASE Explicit!StartIn(b, ixs, front, used)
      BY <2>2, <2>4, <2>5
    <2>6. CASE Explicit!ThrowIn(b, ixs, front)
      BY <2>6 DEF Explicit!ThrowIn
    <2> QED BY <1>2, <2>5, <2>6
  <1>3. CASE Explicit!EnqueueReuse
    <2>1. UNCHANGED <<claimVars, limit>>
      BY <1>3, ExplicitConstants DEF Explicit!EnqueueReuse, Explicit!claimVars, claimVars
    <2>2. PICK b : \/ Explicit!StartIn(b, indexes, prFront, prUsed)
                   \/ Explicit!ThrowIn(b, indexes, prFront)
      BY <1>3 DEF Explicit!EnqueueReuse
    <2>3. tailIndex + 1 <= limit
      BY <1>3 DEF Explicit!EnqueueReuse, Calling
    <2> QED BY <1>2, <2>1, <2>2, <2>3, CallGoesOn
  <1>4. CASE Explicit!EnqueueNewBlock
    <2>1. UNCHANGED <<claimVars, limit>>
      BY <1>4 DEF Explicit!EnqueueNewBlock, Explicit!claimVars, claimVars
    <2>2. \/ prod' = prod
          \/ \E b, ixs, front : Explicit!StartIn(b, ixs, front, prUsed + 1) \/ Explicit!ThrowIn(b, ixs, front)
      BY <1>4 DEF Explicit!EnqueueNewBlock
    <2>3. tailIndex + 1 <= limit
      BY <1>4 DEF Explicit!EnqueueNewBlock, Calling
    <2> QED BY <1>2, <2>1, <2>2, <2>3, CallGoesOn
  <1>5. CASE Explicit!Expose
    <2>1. PICK e : e = [prod EXCEPT !.at = "publish"]
      OBVIOUS
    <2>2. prod' = e /\ prod.at = "expose" /\ UNCHANGED <<claimVars, limit>>
      BY <1>5, <2>1 DEF Explicit!Expose, Explicit!claimVars, claimVars
    <2>3. IsCall(e) /\ e.n = prod.n
      BY <2>1 DEF Calling, IsCall
    <2> QED BY <2>2, <2>3, CallGoesOn
  <1>6. ASSUME NEW n \in BulkSizes, Explicit!BulkBegin(n) PROVE Calling' /\ Claiming
    <2>1. IsCall(prod') /\ prod'.n = n /\ tailIndex + n <= limit
      BY <1>6 DEF Explicit!BulkBegin, IsCall
    <2>2. UNCHANGED <<claimVars, limit>>
      BY <1>6 DEF Explicit!BulkBegin, Explicit!claimVars, claimVars
    <2> QED BY <2>1, <2>2, IndexAssumption, CallGoesOn
  <1>7. ASSUME NEW b, NEW ixs, NEW front, Explicit!BulkAdd(b, ixs, front)
        PROVE  IsCall(prod') /\ prod'.n = prod.n
    BY <1>7 DEF Explicit!BulkAdd, Calling, IsCall
  <1>8. ASSUME NEW ixs, NEW front0, Explicit!BulkUndo(ixs, front0) PROVE prod' = NoCall
    BY <1>8, ExplicitConstants DEF Explicit!BulkUndo
  <1>9. CASE Explicit!BulkReuse
    <2>1. prod.at = "blocks" /\ UNCHANGED <<claimVars, limit>>
      BY <1>9 DEF Explicit!BulkReuse, Explicit!claimVars, claimVars
    <2>2. IsCall(prod') /\ prod'.n = prod.n
      BY <1>7, <1>9 DEF Explicit!BulkReuse
    <2> QED BY <2>1, <2>2, CallGoesOn
  <1>10. CASE Explicit!BulkNewBlock
    <2>1. prod.at = "blocks" /\ UNCHANGED <<claimVars, limit>>
      BY <1>10 DEF Explicit!BulkNewBlock, Explicit!claimVars, claimVars
    <2>2. \/ \E b, ixs, front : Explicit!BulkAdd(b, ixs, front)
          \/ \E ixs, front0 : Explicit!BulkUndo(ixs, front0)
      BY <1>10 DEF Explicit!BulkNewBlock
    <2> QED BY <1>7, <1>8, <2>1, <2>2, CallGoesOn
  <1>11. CASE Explicit!BulkFill
    <2>1. prod.at = "fill" /\ UNCHANGED <<claimVars, limit>>
      BY <1>11 DEF Explicit!BulkFill, Explicit!claimVars, claimVars
    <2>2. PICK at : at = IF prod.first = None THEN "publish" ELSE "expose"
      OBVIOUS
    <2>3. PICK e : e = [NoCall EXCEPT !.at = at, !.n = prod.n]
      OBVIOUS
    <2>4. IsCall(e) /\ e.n = prod.n
      BY <2>3 DEF IsCall, NoCall
    <2>5. prod' = e \/ prod' = NoCall
      BY <1>8, <1>11, <2>2, <2>3, ExplicitConstants DEF Explicit!BulkFill
    <2> QED BY <2>1, <2>4, <2>5, CallGoesOn
  <1> QED BY <1>1, <1>3, <1>4, <1>5, <1>6, <1>9, <1>10, <1>11 DEF Explicit!Producer

LEMMA ExplicitConsumerClaims ==
  ASSUME Calling, NEW c \in Consumers, Explicit!Consumer(c)
  PROVE  Calling' /\ Claiming
  <1>0. ASSUME ClaimStep(c) PROVE tailIndex' = tailIndex
    BY <1>0 DEF ClaimStep, Look, Reserve, Confirm, Refund, Take, Done
  <1>1. CASE Explicit!Claim(c)
    BY <1>0, <1>1, ExplicitShares DEF Calling, Claiming
  <1>2. CASE Explicit!LoadIndex(c) \/ Explicit!LoadFront(c) \/ Explicit!FindSlot(c)
    BY <1>2 DEF Explicit!LoadIndex, Explicit!LoadFront, Explicit!FindSlot, Explicit!claimVars, claimVars,
       Calling, Claiming
  <1>3. CASE Explicit!MoveOut(c)
    BY <1>3, ExplicitShares DEF Explicit!MoveOut, Calling, Claiming, claimVars
  <1>4. CASE Explicit!Release(c)
    <2>1. UNCHANGED <<prod, limit>>
      BY <1>4 DEF Explicit!Release
    <2>2. UNCHANGED <<claimVars, tailIndex>> \/ Done(c)
      BY <1>4, ExplicitShares DEF Explicit!Release, Explicit!NextBlock, Explicit!claimVars, claimVars
    <2> QED BY <1>0, <2>1, <2>2 DEF Calling, Claiming, ClaimStep
  <1> QED BY <1>1, <1>2, <1>3, <1>4 DEF Explicit!Consumer

\* An implicit producer's queue takes the shared steps from there, too.
LEMMA ImplicitShares ==
  /\ Implicit!EnqueueInBlock => EnqueueInBlock
  /\ Implicit!Publish => Publish
  /\ \A b : \A c \in Consumers : Implicit!MoveOutOf(c, b) => UNCHANGED <<claimVars, prod, limit>>
  /\ \A c \in Consumers : Implicit!Claim(c) => ClaimStep(c) /\ UNCHANGED <<prod, limit>>
  /\ \A c \in Consumers : Implicit!Done(c) => Done(c)
  <1>1. Implicit!EnqueueInBlock => EnqueueInBlock
    BY DEF Implicit!EnqueueInBlock, EnqueueInBlock, Implicit!NoCall, NoCall, Implicit!claimVars, claimVars,
       Implicit!Boundary, Boundary
  <1>2. Implicit!Publish => Publish
    BY DEF Implicit!Publish, Publish, Implicit!NoCall, NoCall, Implicit!Advance, Advance
  <1>3. ASSUME NEW c \in Consumers, NEW b, Implicit!MoveOutOf(c, b) PROVE UNCHANGED <<claimVars, prod, limit>>
    BY <1>3 DEF Implicit!MoveOutOf, Implicit!claimVars, claimVars
  <1>4. ASSUME NEW c \in Consumers, Implicit!Done(c) PROVE Done(c)
    BY <1>4 DEF Implicit!Done, Done, Implicit!NoClaim, NoClaim
  <1>5. ASSUME NEW c \in Consumers, Implicit!Claim(c) PROVE ClaimStep(c) /\ UNCHANGED <<prod, limit>>
    <2>1. ASSUME NEW max \in 1 .. MaxTake, Implicit!Look(c, max) PROVE Look(c, max)
      BY <2>1 DEF Implicit!Look, Look, Implicit!NoClaim, NoClaim, Implicit!CircLess, CircLess, Implicit!Least, Least
    <2>2. Implicit!Reserve(c) => Reserve(c)
      BY DEF Implicit!Reserve, Reserve
    <2>3. Implicit!Actual(c) = Actual(c)
      BY DEF Implicit!Actual, Actual, Implicit!CircLess, CircLess, Implicit!Least, Least
    <2>4. Implicit!Confirm(c) => Confirm(c)
      BY <2>3 DEF Implicit!Confirm, Confirm
    <2>5. Implicit!Refund(c) => Refund(c)
      BY DEF Implicit!Refund, Refund, Implicit!NoClaim, NoClaim
    <2>6. Implicit!Take(c) => Take(c)
      BY DEF Implicit!Take, Take
    <2>7. UNCHANGED <<prod, limit>>
      BY <1>5 DEF Implicit!Claim
    <2> QED BY <1>5, <2>1, <2>2, <2>4, <2>5, <2>6, <2>7 DEF Implicit!Claim, ClaimStep
  <1> QED BY <1>1, <1>2, <1>3, <1>4, <1>5

LEMMA ImplicitProducerCalls ==
  ASSUME Calling, Implicit!Producer
  PROVE  Calling' /\ Claiming
  <1>0. Implicit!NoCall = NoCall
    BY DEF Implicit!NoCall, NoCall
  <1>1. CASE Implicit!EnqueueInBlock \/ Implicit!Publish
    BY <1>1, ImplicitShares, SharedCalls
  <1>2. ASSUME NEW n \in Nat \ {0}, Implicit!Begin(n)
        PROVE  Calling' /\ Claiming
    <2>1. PICK need, at : need = Implicit!BlocksFor(n) /\ at = IF need = 0 THEN "fill" ELSE "entry"
      OBVIOUS
    <2>2. PICK e : e = [NoCall EXCEPT !.at = at, !.n = n, !.need = need, !.start = tailBlock]
      OBVIOUS
    <2>3. IsCall(e) /\ e.n = n
      BY <2>2 DEF IsCall, NoCall
    <2>4. prod' = e /\ UNCHANGED <<claimVars, limit>> /\ tailIndex + n <= limit
      BY <1>0, <1>2, <2>1, <2>2 DEF Implicit!Begin, Implicit!claimVars, claimVars
    <2> QED BY <2>3, <2>4, CallGoesOn
  <1>3. CASE Implicit!Enqueue \/ Implicit!EnqueueBulk
    BY <1>2, <1>3, IndexAssumption DEF Implicit!Enqueue, Implicit!EnqueueBulk
  <1>4. ASSUME NEW rewound, Implicit!GiveUp(rewound) PROVE prod' = NoCall
    BY <1>0, <1>4 DEF Implicit!GiveUp
  <1>5. CASE Implicit!InsertEntry
    <2>1. prod.at = "entry" /\ UNCHANGED <<claimVars, limit>>
      BY <1>5 DEF Implicit!InsertEntry, Implicit!claimVars, claimVars
    <2>2. PICK e : e = [prod EXCEPT !.at = "block"]
      OBVIOUS
    <2>3. IsCall(e) /\ e.n = prod.n
      BY <2>2 DEF Calling, IsCall
    <2>4. prod' = e \/ prod' = NoCall
      BY <1>4, <1>5, <2>2 DEF Implicit!InsertEntry
    <2> QED BY <2>1, <2>3, <2>4, CallGoesOn
  <1>6. CASE Implicit!NewBlock
    <2>1. prod.at = "block" /\ UNCHANGED <<claimVars, limit>>
      BY <1>6 DEF Implicit!NewBlock, Implicit!claimVars, claimVars
    <2>2. PICK e : e = [prod EXCEPT !.need = prod.need - 1, !.at = IF prod.need = 1 THEN "fill" ELSE "entry"]
      OBVIOUS
    <2>3. IsCall(e) /\ e.n = prod.n
      BY <2>2 DEF Calling, IsCall
    <2>4. prod' = e \/ prod' = NoCall
      BY <1>4, <1>6, <2>2 DEF Implicit!NewBlock
    <2> QED BY <2>1, <2>3, <2>4, CallGoesOn
  <1>7. CASE Implicit!Fill
    <2>1. prod.at = "fill" /\ UNCHANGED <<claimVars, limit>>
      BY <1>7 DEF Implicit!Fill, Implicit!claimVars, claimVars
    <2>2. PICK e : e = [NoCall EXCEPT !.at = "publish", !.n = prod.n]
      OBVIOUS
    <2>3. IsCall(e) /\ e.n = prod.n
      BY <2>2 DEF IsCall, NoCall
    <2>4. prod' = e \/ prod' = NoCall
      BY <1>0, <1>4, <1>7, <2>2 DEF Implicit!Fill
    <2> QED BY <2>1, <2>3, <2>4, CallGoesOn
  <1> QED BY <1>1, <1>3, <1>5, <1>6, <1>7 DEF Implicit!Producer

LEMMA ImplicitConsumerClaims ==
  ASSUME Calling, NEW c \in Consumers, Implicit!Consumer(c)
  PROVE  Calling' /\ Claiming
  <1>0. ASSUME ClaimStep(c) PROVE tailIndex' = tailIndex
    BY <1>0 DEF ClaimStep, Look, Reserve, Confirm, Refund, Take, Done
  <1>1. CASE Implicit!Claim(c)
    BY <1>0, <1>1, ImplicitShares DEF Calling, Claiming
  <1>2. CASE Implicit!LoadIndex(c) \/ Implicit!LoadTail(c) \/ Implicit!FindSlot(c)
    BY <1>2 DEF Implicit!LoadIndex, Implicit!LoadTail, Implicit!FindSlot, Implicit!claimVars, claimVars,
       Calling, Claiming
  <1>3. CASE Implicit!MoveOut(c)
    BY <1>3, ImplicitShares DEF Implicit!MoveOut, Calling, Claiming, claimVars
  <1>4. CASE Implicit!Release(c) \/ Implicit!Unlink(c)
    <2>1. UNCHANGED <<prod, limit>>
      BY <1>4 DEF Implicit!Release, Implicit!Unlink
    <2>2. UNCHANGED <<claimVars, tailIndex>> \/ Done(c)
      BY <1>4, ImplicitShares DEF Implicit!Release, Implicit!Unlink, Implicit!NextBlock, Implicit!claimVars, claimVars
    <2> QED BY <1>0, <2>1, <2>2 DEF Calling, Claiming, ClaimStep
  <1> QED BY <1>1, <1>2, <1>3, <1>4 DEF Implicit!Consumer

\* Before the first step the counters are at the start, and MaxPut positions are to come.
LEMMA QueuesBegin == Init => /\ \E s \in Nat : ClaimsInit(s) /\ limit = s + MaxPut
                             /\ Calling
  <1> DEFINE Begun == (\E s \in Nat : ClaimsInit(s) /\ limit = s + MaxPut) /\ Calling
  <1> SUFFICES ASSUME Init PROVE Begun
    OBVIOUS
  <1>0. ASSUME NEW s \in Starts, ClaimsInit(s), limit = s + MaxPut, prod = NoCall PROVE Begun
    <2>1. s \in Nat /\ MaxPut \in Nat
      BY BoundAssumption
    <2>2. tailIndex = s
      BY <1>0 DEF ClaimsInit
    <2> QED BY <1>0, <2>1, <2>2, CallOver DEF Calling
  <1>1. ASSUME NEW s \in Starts, Explicit!SharedInit(s) PROVE Begun
    <2>1. ClaimsInit(s)
      BY <1>1 DEF Explicit!SharedInit, Explicit!ClaimsInit, ClaimsInit, Explicit!NoClaim, NoClaim
    <2>2. limit = s + MaxPut /\ prod = NoCall
      BY <1>1, ExplicitConstants DEF Explicit!SharedInit
    <2> QED BY <1>0, <2>1, <2>2
  <1>2. ASSUME NEW s \in Starts, Implicit!SharedInit(s) PROVE Begun
    <2>1. ClaimsInit(s)
      BY <1>2 DEF Implicit!SharedInit, Implicit!ClaimsInit, ClaimsInit, Implicit!NoClaim, NoClaim
    <2>2. limit = s + MaxPut /\ prod = NoCall
      BY <1>2 DEF Implicit!SharedInit, Implicit!NoCall, NoCall
    <2> QED BY <1>0, <2>1, <2>2
  <1> HIDE DEF Begun
  <1>3. CASE Explicit!Init
    <2>1. PICK s \in Starts : \E used : Explicit!InitAt(s, used)
      BY <1>3 DEF Explicit!Init
    <2> QED BY <1>1, <2>1 DEF Explicit!InitAt
  <1>4. CASE Implicit!Init
    <2>1. PICK s \in Starts : Implicit!InitAt(s)
      BY <1>4 DEF Implicit!Init
    <2> QED BY <1>2, <2>1 DEF Implicit!InitAt
  <1> QED BY <1>3, <1>4 DEF Init

LEMMA QueuesStep ==
  ASSUME Calling, [Next]_vars
  PROVE  Calling' /\ Claiming
  <1>1. CASE Explicit!Next
    BY <1>1, ExplicitProducerCalls, ExplicitConsumerClaims DEF Explicit!Next
  <1>2. CASE Implicit!Next
    BY <1>2, ImplicitProducerCalls, ImplicitConsumerClaims DEF Implicit!Next
  <1>3. CASE UNCHANGED vars
    BY <1>3 DEF vars, sharedVars, Calling, Claiming, claimVars
  <1> QED BY <1>1, <1>2, <1>3 DEF Next

LEMMA ClaimingIs == Claiming => [ClaimsNext]_claimVars
  BY DEF Claiming, ClaimStep, ClaimsNext

\* The queue of every producer, explicit or implicit, does to its four counters only what Claims says.
THEOREM QueuesClaim == Spec => ClaimsSpec
  <1>1. Init => (\E s \in Nat : ClaimsInit(s)) /\ Calling
    BY QueuesBegin
  <1>2. Calling /\ [Next]_vars => Calling' /\ [ClaimsNext]_claimVars
    BY QueuesStep, ClaimingIs
  <1> QED BY <1>1, <1>2, PTL DEF Spec, ClaimsSpec

-----------------------------------------------------------------------------
(* The counters stay in their window.  MaxFutile bounds the attempts and MaxTake what each asks for, *)
(* so optimistic cannot run away from the positions there are.                                       *)

Wanted(x) == IF x.at = "reserve" THEN x.n ELSE 0
AllWanted == [c \in Consumers |-> Wanted(claim[c])]
Reach == limit + MaxFutile + MaxTake * Cardinality(Consumers)
Start == limit - MaxPut

\* What an attempt has read: an overcommit count of some time ago, and the optimistic count it got.
Fresh(x) ==
  /\ x.at \in {"reserve", "confirm"} => 0 <= x.over /\ x.over <= overcommit
  /\ x.at = "reserve" => x.n <= MaxTake
  /\ x.at = "confirm" => x.k <= Reach /\ Start <= x.k - x.over

Bounded ==
  /\ limit \in Int /\ Start <= headIndex /\ Start <= tailIndex /\ tailIndex <= limit
  /\ 0 <= overcommit
  /\ optimistic + Sum(AllWanted) <= Reach
  /\ \A c \in Consumers : Fresh(claim[c])

\* A sum of numbers up to m.
LEMMA SumAtMost ==
  ASSUME NEW m \in Nat, NEW f \in [Consumers -> Nat], \A x \in Consumers : f[x] <= m
  PROVE  Sum(f) <= m * Cardinality(Consumers)
  <1>1. Units(f, Consumers) \subseteq Consumers \X (1 .. m)
    <2>1. \A x \in Consumers : 1 .. f[x] \subseteq 1 .. m
      OBVIOUS
    <2> QED BY <2>1 DEF Units
  <1>2. IsFiniteSet(1 .. m) /\ Cardinality(1 .. m) = m
    BY FS_Interval
  <1>3. IsFiniteSet(Consumers \X (1 .. m)) /\ Cardinality(Consumers \X (1 .. m)) = Cardinality(Consumers) * Cardinality(1 .. m)
    BY <1>2, ConsumersAssumption, FS_Product, Zenon
  <1>4. Cardinality(Units(f, Consumers)) <= Cardinality(Consumers \X (1 .. m))
    BY <1>1, <1>3, FS_Subset, Zenon
  <1>5. Cardinality(Consumers) \in Nat
    BY ConsumersAssumption, FS_CardinalityType
  <1>6. Cardinality(Consumers \X (1 .. m)) = m * Cardinality(Consumers)
    BY <1>2, <1>3, <1>5
  <1>7. Sum(f) = Cardinality(Units(f, Consumers))
    BY DEF Sum
  <1> QED BY <1>4, <1>6, <1>7, Zenon

LEMMA BoundNumbers ==
  MaxPut \in Nat /\ MaxFutile \in Nat /\ MaxTake \in Nat /\ MaxTake * Cardinality(Consumers) \in Nat
  <1>1. Cardinality(Consumers) \in Nat
    BY ConsumersAssumption, FS_CardinalityType
  <1> QED BY <1>1, BoundAssumption, MaxTakeAssumption

LEMMA WantedMoved ==
  ASSUME ClaimInv, NEW c \in Consumers, NEW y \in ClaimRecords, claim' = [claim EXCEPT ![c] = y]
  PROVE  /\ Sum(AllWanted) \in Nat
         /\ Sum(AllWanted)' = Sum(AllWanted) - Wanted(claim[c]) + Wanted(y)
         /\ AllWanted' \in [Consumers -> Nat]
         /\ \A d \in Consumers : AllWanted'[d] = Wanted(claim'[d])
  <1>1. \A x \in ClaimRecords : Wanted(x) \in Nat
    BY DEF ClaimRecords, Wanted
  <1>2. claim \in [Consumers -> ClaimRecords] /\ claim' \in [Consumers -> ClaimRecords]
    BY DEF ClaimInv
  <1>3. claim'[c] = y /\ \A d \in Consumers : d /= c => claim'[d] = claim[d]
    BY <1>2
  <1>4. PICK f, g : f = AllWanted /\ g = AllWanted'
    OBVIOUS
  <1>5. /\ f = [d \in Consumers |-> Wanted(claim[d])] /\ g = [d \in Consumers |-> Wanted(claim'[d])]
    BY <1>4 DEF AllWanted, Wanted
  <1>6. f \in [Consumers -> Nat] /\ g \in [Consumers -> Nat]
    BY <1>1, <1>2, <1>5
  <1>7. \A d \in Consumers : d /= c => g[d] = f[d]
    BY <1>3, <1>5
  <1>8. f[c] = Wanted(claim[c]) /\ g[c] = Wanted(y)
    BY <1>3, <1>5
  <1>9. Sum(f) \in Nat /\ Sum(g) = Sum(f) - f[c] + g[c]
    BY <1>6, <1>7, SumStep
  <1> QED BY <1>4, <1>5, <1>6, <1>8, <1>9

\* A step of c's claim keeps the bounds when it asks for no more than it wanted.
LEMMA BoundsKept ==
  ASSUME ClaimInv, Bounded, NEW c \in Consumers, NEW y \in ClaimRecords, claim' = [claim EXCEPT ![c] = y],
         optimistic' \in Int, optimistic' + Wanted(y) <= optimistic + Wanted(claim[c]),
         overcommit' \in Int, overcommit <= overcommit', headIndex' \in Int, headIndex <= headIndex',
         UNCHANGED <<tailIndex, limit>>, Fresh(y)'
  PROVE  Bounded'
  <1>1. /\ Sum(AllWanted) \in Nat
        /\ Sum(AllWanted)' = Sum(AllWanted) - Wanted(claim[c]) + Wanted(y)
    BY WantedMoved
  <1>2. Wanted(claim[c]) \in Nat /\ Wanted(y) \in Nat /\ Reach \in Int /\ Reach' = Reach /\ Start' = Start /\ Start \in Int
    BY BoundNumbers DEF ClaimInv, ClaimRecords, Wanted, Reach, Start, Bounded
  <1>3. PICK s \in Int, s1 \in Int, w \in Int, w1 \in Int, r \in Int, o \in Int, o1 \in Int :
          /\ s = Sum(AllWanted) /\ s1 = Sum(AllWanted)' /\ w = Wanted(claim[c]) /\ w1 = Wanted(y)
          /\ r = Reach /\ o = optimistic /\ o1 = optimistic'
    BY <1>1, <1>2 DEF ClaimInv
  <1>4. o1 + s1 <= r
    <2>1. o + s <= r
      BY <1>3 DEF Bounded
    <2>2. s1 = s - w + w1
      BY <1>1, <1>3
    <2>3. o1 + w1 <= o + w
      BY <1>3
    <2> QED BY <2>1, <2>2, <2>3
  <1>5. ASSUME NEW d \in Consumers PROVE Fresh(claim[d])'
    <2>1. d /= c => claim'[d] = claim[d]
      BY DEF ClaimInv
    <2>2. d = c => claim'[d] = y
      BY DEF ClaimInv
    <2>3. ASSUME d /= c PROVE Fresh(claim[d])'
      <3>1. claim[d] \in ClaimRecords /\ Fresh(claim[d])
        BY DEF ClaimInv, Bounded
      <3>2. overcommit \in Int
        BY DEF ClaimInv
      <3> QED BY <1>2, <2>1, <2>3, <3>1, <3>2 DEF Fresh, ClaimRecords
    <2>4. ASSUME d = c PROVE Fresh(claim[d])'
      BY <2>2, <2>4 DEF Fresh
    <2> QED BY <2>3, <2>4
  <1>6. (0 <= overcommit)' /\ (Start <= headIndex)' /\ (Start <= tailIndex /\ tailIndex <= limit /\ limit \in Int)'
    BY <1>2 DEF Bounded, ClaimInv
  <1> QED BY <1>2, <1>3, <1>4, <1>5, <1>6 DEF Bounded

\* The head is at the start or past it, and so is what the counters leave, whoever is on the way.
LEMMA HeadBehindCounters ==
  ASSUME ClaimInv
  PROVE  headIndex <= optimistic - overcommit
  <1>1. PICK g \in Int, r \in Nat, t \in Nat, a \in Nat :
          /\ g = Gone /\ a = Sum(AllGranted) /\ r = Sum(AllReserved) /\ t = Sum(AllReturned)
          /\ g = headIndex + a
    BY ClaimSums DEF Gone, ClaimInv
  <1>2. optimistic - overcommit = g + r + t
    BY <1>1 DEF ClaimInv, Balance
  <1> QED BY <1>1, <1>2 DEF ClaimInv

LEMMA ClaimBounded ==
  ASSUME ClaimInv, Bounded, NEW c \in Consumers, ClaimStep(c), limit' = limit
  PROVE  Bounded'
  <1>0. /\ tailIndex \in Int /\ headIndex \in Int /\ optimistic \in Int /\ overcommit \in Int
        /\ claim[c] \in ClaimRecords /\ claim[c].n \in Nat /\ claim[c].back \in Nat /\ Fresh(claim[c])
        /\ 0 <= overcommit
    BY DEF ClaimInv, ClaimRecords, Bounded
  <1>1. ASSUME optimistic < limit + MaxFutile, NEW max \in 1 .. MaxTake, Look(c, max) PROVE Bounded'
    <2>1. PICK y \in ClaimRecords :
            /\ claim' = [claim EXCEPT ![c] = y] /\ y.at = "reserve" /\ y.over = overcommit
            /\ y.n = Least((tailIndex - (optimistic - overcommit)) % W, max)
      BY <1>1, LookClaim
    <2>2. UNCHANGED <<tailIndex, headIndex, optimistic, overcommit>>
      BY <1>1 DEF Look
    <2>3. PICK m \in Nat : m = (tailIndex - (optimistic - overcommit)) % W
      BY <1>0, Remainder
    <2>4. y.n <= MaxTake
      BY <2>1, <2>3, MaxTakeAssumption DEF Least, ClaimRecords
    <2>5. claim' \in [Consumers -> ClaimRecords]
      BY <2>1 DEF ClaimInv
    <2>6. \A d \in Consumers : d /= c => claim'[d] = claim[d]
      BY <2>1 DEF ClaimInv
    <2>7. claim'[c] = y
      BY <2>1 DEF ClaimInv
    <2>8. \A d \in Consumers : Fresh(claim[d])'
      BY <1>0, <1>1, <2>1, <2>2, <2>4, <2>6, <2>7, limit' = limit DEF Fresh, Bounded, Reach, Start
    <2>9. \A d \in Consumers : AllWanted'[d] <= MaxTake
      <3>1. \A d \in Consumers : Wanted(claim'[d]) <= MaxTake
        BY <2>5, <2>8, BoundNumbers DEF Fresh, Wanted, ClaimRecords
      <3> QED BY <2>1, <3>1, WantedMoved
    <2>10. PICK g \in [Consumers -> Nat] : g = AllWanted'
      BY <2>1, WantedMoved
    <2>11. Sum(g) <= MaxTake * Cardinality(Consumers)
      BY <2>9, <2>10, BoundNumbers, SumAtMost
    <2>12. Sum(AllWanted)' = Sum(g)
      BY <2>10
    <2>13. Sum(g) \in Nat
      BY SumNat
    <2>14. PICK s \in Nat, p \in Nat : s = Sum(g) /\ p = MaxTake * Cardinality(Consumers) /\ s <= p
      BY <2>11, <2>13, BoundNumbers
    <2>15. optimistic + s <= limit + MaxFutile + p
      BY <1>0, <1>1, <2>14, BoundNumbers DEF Bounded
    <2>16. (optimistic + Sum(AllWanted) <= Reach)'
      BY <2>2, <2>12, <2>14, <2>15, limit' = limit DEF Reach
    <2> QED BY <2>2, <2>8, <2>16, limit' = limit DEF Bounded, Start
  <1>2. CASE Reserve(c)
    <2>1. PICK y \in ClaimRecords :
            /\ claim' = [claim EXCEPT ![c] = y]
            /\ y.at = "confirm" /\ y.k = optimistic /\ y.n = claim[c].n /\ y.over = claim[c].over
      BY <1>2, ReserveClaim
    <2>2. /\ UNCHANGED <<tailIndex, headIndex, overcommit>> /\ claim[c].at = "reserve"
          /\ optimistic' = optimistic + claim[c].n
      BY <1>2 DEF Reserve
    <2>3. Wanted(y) = 0 /\ Wanted(claim[c]) = claim[c].n
      BY <2>1, <2>2 DEF Wanted
    <2>4. Start <= optimistic - claim[c].over
      BY <1>0, <2>2, HeadBehindCounters, BoundNumbers DEF Fresh, Bounded, Start, ClaimRecords
    <2>5. optimistic <= Reach
      <3>1. PICK s \in Nat : s = Sum(AllWanted)
        BY <2>1, WantedMoved
      <3>2. Reach \in Int /\ optimistic + s <= Reach
        BY <3>1, BoundNumbers DEF Bounded, Reach
      <3> QED BY <1>0, <3>2
    <2>6. Fresh(y)'
      BY <1>0, <2>1, <2>2, <2>4, <2>5, limit' = limit DEF Fresh, Reach, Start
    <2>7. /\ optimistic' \in Int /\ optimistic' + Wanted(y) <= optimistic + Wanted(claim[c])
          /\ overcommit' \in Int /\ overcommit <= overcommit' /\ headIndex' \in Int /\ headIndex <= headIndex'
      BY <1>0, <2>1, <2>2, <2>3
    <2> QED BY <2>1, <2>2, <2>6, <2>7, limit' = limit, BoundsKept
  <1>3. CASE Confirm(c)
    <2>1. PICK y \in ClaimRecords : claim' = [claim EXCEPT ![c] = y] /\ y.at \in {"refund", "take"}
      BY <1>3, ConfirmClaim
    <2>2. UNCHANGED <<tailIndex, headIndex, optimistic, overcommit>> /\ claim[c].at = "confirm"
      BY <1>3 DEF Confirm
    <2>3. Wanted(y) = 0 /\ Wanted(claim[c]) = 0 /\ Fresh(y)'
      BY <2>1, <2>2 DEF Wanted, Fresh
    <2>4. /\ optimistic' \in Int /\ optimistic' + Wanted(y) <= optimistic + Wanted(claim[c])
          /\ overcommit' \in Int /\ overcommit <= overcommit' /\ headIndex' \in Int /\ headIndex <= headIndex'
      BY <1>0, <2>1, <2>2, <2>3
    <2> QED BY <2>1, <2>2, <2>3, <2>4, limit' = limit, BoundsKept
  <1>4. CASE Refund(c)
    <2>1. PICK y \in ClaimRecords : claim' = [claim EXCEPT ![c] = y] /\ y.at \in {"idle", "take"}
      BY <1>4, RefundClaim
    <2>2. /\ UNCHANGED <<tailIndex, headIndex, optimistic>> /\ claim[c].at = "refund"
          /\ overcommit' = overcommit + claim[c].back
      BY <1>4 DEF Refund
    <2>3. Wanted(y) = 0 /\ Wanted(claim[c]) = 0 /\ Fresh(y)'
      BY <2>1, <2>2 DEF Wanted, Fresh
    <2>4. /\ optimistic' \in Int /\ optimistic' + Wanted(y) <= optimistic + Wanted(claim[c])
          /\ overcommit' \in Int /\ overcommit <= overcommit' /\ headIndex' \in Int /\ headIndex <= headIndex'
      BY <1>0, <2>1, <2>2, <2>3
    <2> QED BY <2>1, <2>2, <2>3, <2>4, limit' = limit, BoundsKept
  <1>5. CASE Take(c)
    <2>1. PICK y \in ClaimRecords : claim' = [claim EXCEPT ![c] = y] /\ y.at = "owner"
      BY <1>5, TakeClaim
    <2>2. /\ UNCHANGED <<tailIndex, optimistic, overcommit>> /\ claim[c].at = "take"
          /\ headIndex' = headIndex + claim[c].n
      BY <1>5 DEF Take
    <2>3. Wanted(y) = 0 /\ Wanted(claim[c]) = 0 /\ Fresh(y)'
      BY <2>1, <2>2 DEF Wanted, Fresh
    <2>4. /\ optimistic' \in Int /\ optimistic' + Wanted(y) <= optimistic + Wanted(claim[c])
          /\ overcommit' \in Int /\ overcommit <= overcommit' /\ headIndex' \in Int /\ headIndex <= headIndex'
      BY <1>0, <2>1, <2>2, <2>3
    <2> QED BY <2>1, <2>2, <2>3, <2>4, limit' = limit, BoundsKept
  <1>6. CASE Done(c)
    <2>1. /\ UNCHANGED <<tailIndex, headIndex, optimistic, overcommit>> /\ claim[c].at = "owner"
          /\ claim' = [claim EXCEPT ![c] = NoClaim]
      BY <1>6 DEF Done
    <2>2. NoClaim \in ClaimRecords /\ NoClaim.at = "idle"
      BY NoClaimRecord
    <2>3. Wanted(NoClaim) = 0 /\ Wanted(claim[c]) = 0 /\ Fresh(NoClaim)'
      BY <2>1, <2>2 DEF Wanted, Fresh
    <2>4. /\ optimistic' \in Int /\ optimistic' + Wanted(NoClaim) <= optimistic + Wanted(claim[c])
          /\ overcommit' \in Int /\ overcommit <= overcommit' /\ headIndex' \in Int /\ headIndex <= headIndex'
      BY <1>0, <2>1, <2>2, <2>3
    <2> QED BY <2>1, <2>2, <2>3, <2>4, limit' = limit, BoundsKept
  <1> QED BY <1>1, <1>2, <1>3, <1>4, <1>5, <1>6 DEF ClaimStep

\* The counters, the claims and the producer's call, as the proofs of the queues need them.
CountersInv == ClaimInv /\ Ahead /\ Calling /\ Bounded

LEMMA InWindows == ClaimInv /\ Bounded => Window
  <1> SUFFICES ASSUME ClaimInv, Bounded PROVE Window
    OBVIOUS
  <1>1. PICK p \in Nat, h \in Nat : p = MaxFutile + MaxTake * Cardinality(Consumers) /\ h = W \div 2
    BY BoundNumbers, WAssumption
  <1>2. MaxPut + p < h /\ MaxPut \in Nat
    <2>1. BlockSize \in Nat
      BY BlockAssumption
    <2> QED BY <1>1, <2>1, RangeAssumption, BoundNumbers
  <1>3. /\ tailIndex \in Int /\ headIndex \in Int /\ optimistic \in Int /\ overcommit \in Int /\ limit \in Int
        /\ limit - MaxPut <= headIndex /\ limit - MaxPut <= tailIndex /\ tailIndex <= limit /\ 0 <= overcommit
    BY DEF ClaimInv, Bounded, Start
  <1>4. Reach = limit + p
    BY <1>1, <1>3, BoundNumbers DEF Reach
  <1>5. optimistic <= limit + p
    <2>1. PICK s \in Nat : s = Sum(AllWanted)
      <3>1. \A x \in ClaimRecords : Wanted(x) \in Nat
        BY DEF ClaimRecords, Wanted
      <3>2. AllWanted \in [Consumers -> Nat]
        BY <3>1 DEF AllWanted, ClaimInv
      <3> QED BY <3>2, SumNat
    <2>2. optimistic + s <= limit + p
      BY <1>4, <2>1 DEF Bounded
    <2> QED BY <1>1, <1>3, <2>2
  <1>6. InWindow(tailIndex - (optimistic - overcommit))
    BY <1>1, <1>2, <1>3, <1>5, HeadBehindCounters DEF InWindow
  <1>7. ASSUME NEW c \in Consumers, claim[c].at = "confirm" PROVE InWindow(tailIndex - (claim[c].k - claim[c].over))
    <2>1. PICK k \in Int, o \in Int : k = claim[c].k /\ o = claim[c].over
      BY DEF ClaimInv, ClaimRecords
    <2>2. k <= limit + p /\ limit - MaxPut <= k - o /\ 0 <= o
      BY <1>4, <1>7, <2>1 DEF Bounded, Fresh, Start
    <2>3. -h < tailIndex - (k - o) /\ tailIndex - (k - o) < h
      BY <1>1, <1>2, <1>3, <2>2
    <2> QED BY <1>1, <2>1, <2>3 DEF InWindow
  <1> QED BY <1>6, <1>7 DEF Window

LEMMA CountersBegin == Init => CountersInv
  <1> SUFFICES ASSUME Init PROVE CountersInv
    OBVIOUS
  <1>1. PICK s \in Nat : ClaimsInit(s) /\ limit = s + MaxPut
    BY QueuesBegin
  <1>2. ClaimInv /\ Ahead /\ Calling
    BY <1>1, InitClaims, InitAhead, QueuesBegin
  <1>3. /\ tailIndex = s /\ headIndex = s /\ optimistic = s /\ overcommit = 0
        /\ \A c \in Consumers : claim[c].at = "idle"
    BY <1>1, NoClaimRecord DEF ClaimsInit
  <1>4. \A c \in Consumers : AllWanted[c] = 0
    BY <1>3 DEF AllWanted, Wanted
  <1>5. Sum(AllWanted) = 0
    BY <1>4, SumZero
  <1>6. \A c \in Consumers : Fresh(claim[c])
    BY <1>3 DEF Fresh
  <1> QED BY <1>1, <1>2, <1>3, <1>5, <1>6, BoundNumbers DEF CountersInv, Bounded, Start, Reach

LEMMA CountersStep == CountersInv /\ [Next]_vars => CountersInv'
  <1> SUFFICES ASSUME CountersInv, [Next]_vars PROVE CountersInv'
    OBVIOUS
  <1>1. ClaimInv /\ Ahead /\ Calling /\ Bounded /\ Window
    BY InWindows DEF CountersInv
  <1>2. Calling' /\ Claiming
    BY <1>1, QueuesStep
  <1>3. ClaimInv' /\ Ahead'
    BY <1>1, <1>2, ClaimingIs, StepClaims, StepAhead
  <1>4. Bounded'
    <2>1. ASSUME UNCHANGED <<headIndex, optimistic, overcommit, claim, limit>>,
                 tailIndex' \in Int, tailIndex <= tailIndex', tailIndex' <= limit
          PROVE  Bounded'
      <3>1. AllWanted' = AllWanted
        BY <2>1 DEF AllWanted, Wanted
      <3>2. Sum(AllWanted)' = Sum(AllWanted)
        BY <3>1 DEF Sum
      <3>3. Reach' = Reach /\ Start' = Start /\ Start \in Int
        BY <1>1, <2>1, BoundNumbers DEF Reach, Start, Bounded
      <3>4. \A c \in Consumers : Fresh(claim[c])'
        BY <1>1, <2>1, <3>3 DEF Bounded, Fresh
      <3>5. (Start <= tailIndex)'
        BY <1>1, <2>1, <3>3 DEF Bounded, ClaimInv
      <3>6. (optimistic + Sum(AllWanted) <= Reach)'
        BY <1>1, <2>1, <3>2, <3>3 DEF Bounded
      <3> QED BY <1>1, <2>1, <3>3, <3>4, <3>5, <3>6 DEF Bounded
    <2>2. CASE UNCHANGED claimVars
      BY <1>1, <1>2, <2>1, <2>2 DEF claimVars, Claiming, ClaimInv, Bounded
    <2>3. CASE prod.n \in Nat \ {0} /\ Advance(prod.n)
      BY <1>1, <1>2, <2>1, <2>3 DEF Advance, Claiming, ClaimInv, Calling
    <2>4. ASSUME NEW c \in Consumers, ClaimStep(c) PROVE Bounded'
      BY <1>1, <1>2, <2>4, ClaimBounded DEF Claiming
    <2> QED BY <1>2, <2>2, <2>3, <2>4 DEF Claiming
  <1> QED BY <1>2, <1>3, <1>4 DEF CountersInv

\* The counters never leave the window in which the unsigned comparisons of dequeue are right.
LEMMA CountersInvariant == Spec => []CountersInv
  BY CountersBegin, CountersStep, PTL DEF Spec

\* When nobody is between a reservation and its refund, the counters less what was given back are the
\* head, for every number of consumers, bulks of every size and every interleaving: no attempt hides
\* an element from later ones (dequeueOptimisticCount, dequeueOvercommit).
THEOREM CountersAlwaysBalance == Spec => []CountersBalance
  <1>1. CountersInv => CountersBalance
    BY BalanceAtRest DEF CountersInv
  <1> QED BY <1>1, CountersInvariant, PTL

\* No consumer takes a position the producer has not published: however stale the overcommit count
\* that an attempt was decided on, and in whatever order the reservations are confirmed (dequeue's
\* "guaranteed to be at least one element").
THEOREM HeadStaysBehindTail == Spec => []HeadBehindTail
  <1>1. CountersInv => HeadBehindTail
    BY HeadKept DEF CountersInv
  <1> QED BY <1>1, CountersInvariant, PTL

-----------------------------------------------------------------------------
(* Blocks by number.  Block q of a queue has the positions First(q) to First(q) + BlockSize - 1. *)

Number(i) == i \div BlockSize
First(q) == q * BlockSize

LEMMA FirstNumber == ASSUME NEW q \in Int PROVE First(q) \in Int /\ Number(First(q)) = q /\ First(q) % BlockSize = 0
  BY BlockAssumption DEF First, Number

LEMMA FirstOrder ==
  ASSUME NEW q \in Int, NEW r \in Int
  PROVE  /\ First(q + 1) = First(q) + BlockSize
         /\ q < r => First(q) + BlockSize <= First(r)
         /\ First(q) - First(r) = First(q - r)
  <1>1. PICK b \in Nat : b = BlockSize /\ b > 0
    BY BlockAssumption
  <1>2. First(q + 1) = First(q) + BlockSize /\ First(q) - First(r) = First(q - r)
    BY <1>1 DEF First
  <1>3. ASSUME q < r PROVE First(q) + BlockSize <= First(r)
    <2>1. PICK d \in Nat : r = q + 1 + d
      <3>1. r - q - 1 \in Nat /\ r = q + 1 + (r - q - 1)
        BY <1>3
      <3> QED BY <3>1
    <2>2. r * b = q * b + b + d * b /\ d * b \in Nat
      BY <1>1, <2>1
    <2> QED BY <1>1, <2>2 DEF First
  <1> QED BY <1>2, <1>3

LEMMA Division ==
  ASSUME NEW i \in Int
  PROVE  /\ Number(i) \in Int /\ i % BlockSize \in Offsets
         /\ i = First(Number(i)) + (i % BlockSize) /\ Base(i) = First(Number(i))
  <1>1. PICK b \in Nat : b = BlockSize /\ b > 0
    BY BlockAssumption
  <1>2. i \div b \in Int /\ i % b \in 0 .. b - 1 /\ i = b * (i \div b) + (i % b)
    BY <1>1
  <1>3. PICK n \in Int, o \in Int : n = i \div b /\ o = i % b
    BY <1>2
  <1>4. b * n = n * b /\ i = n * b + o /\ n * b \in Int
    BY <1>2, <1>3
  <1> QED BY <1>1, <1>2, <1>3, <1>4 DEF Number, First, Base, Offsets

\* The only block a position is in.
LEMMA NumberIs ==
  ASSUME NEW q \in Int, NEW i \in Int
  PROVE  Number(i) = q <=> First(q) <= i /\ i < First(q) + BlockSize
  <1>1. PICK n \in Int, o \in Offsets, b \in Nat :
          n = Number(i) /\ i = First(n) + o /\ b = BlockSize /\ First(n) \in Int /\ First(q) \in Int
    <2>1. Number(i) \in Int /\ i % BlockSize \in Offsets /\ i = First(Number(i)) + (i % BlockSize)
      BY Division
    <2>2. First(Number(i)) \in Int /\ First(q) \in Int /\ BlockSize \in Nat
      BY <2>1, FirstNumber, BlockAssumption
    <2> QED BY <2>1, <2>2
  <1>2. n < q => First(n) + b <= First(q)
    BY <1>1, FirstOrder
  <1>3. q < n => First(q) + b <= First(n)
    BY <1>1, FirstOrder
  <1> QED BY <1>1, <1>2, <1>3 DEF Offsets

LEMMA NumberOrder ==
  ASSUME NEW i \in Int, NEW j \in Int
  PROVE  /\ i <= j => Number(i) <= Number(j)
         /\ Number(i) <= Number(j) => i < First(Number(j)) + BlockSize
         /\ Number(i) < Number(j) => i < First(Number(j))
  <1>1. PICK m \in Int, n \in Int, b \in Nat : m = Number(i) /\ n = Number(j) /\ b = BlockSize /\ First(m) \in Int /\ First(n) \in Int
    BY Division, FirstNumber, BlockAssumption
  <1>2. First(m) <= i /\ i < First(m) + b /\ First(n) <= j /\ j < First(n) + b
    BY <1>1, NumberIs
  <1>3. m < n => First(m) + b <= First(n)
    BY <1>1, FirstOrder
  <1>4. n < m => First(n) + b <= First(m)
    BY <1>1, FirstOrder
  <1> QED BY <1>1, <1>2, <1>3, <1>4

\* Offsets in a block.
LEMMA Placed ==
  ASSUME NEW q \in Int, NEW o \in Offsets
  PROVE  First(q) + o \in Int /\ Number(First(q) + o) = q /\ (First(q) + o) % BlockSize = o
  <1>1. PICK f \in Int, b \in Nat : f = First(q) /\ b = BlockSize /\ o \in 0 .. b - 1
    BY FirstNumber, BlockAssumption DEF Offsets
  <1>2. PICK i \in Int : i = f + o
    BY <1>1
  <1>3. Number(i) = q
    BY <1>1, <1>2, NumberIs
  <1>4. i = First(Number(i)) + (i % BlockSize) /\ i % BlockSize \in Int
    BY Division, BlockAssumption DEF Offsets
  <1> QED BY <1>1, <1>2, <1>3, <1>4

\* At a boundary the next position starts the next block, else it is in the same.
LEMMA NextNumber ==
  ASSUME NEW i \in Int
  PROVE  /\ Boundary(i) => Number(i - 1) = Number(i) - 1 /\ i = First(Number(i))
         /\ ~Boundary(i) => Number(i - 1) = Number(i)
  <1>1. PICK n \in Int, o \in Offsets : n = Number(i) /\ o = i % BlockSize /\ i = First(n) + o /\ First(n) \in Int /\ o \in Int
    <2>1. Number(i) \in Int /\ i % BlockSize \in Offsets /\ i = First(Number(i)) + (i % BlockSize)
      BY Division
    <2>2. First(Number(i)) \in Int /\ i % BlockSize \in Int
      BY <2>1, FirstNumber, BlockAssumption DEF Offsets
    <2> QED BY <2>1, <2>2
  <1>2. First(n - 1) + BlockSize = First(n) /\ First(n - 1) \in Int
    BY FirstOrder, FirstNumber
  <1>3. BlockSize \in Nat /\ BlockSize > 0
    BY BlockAssumption
  <1>4. CASE Boundary(i)
    <2>1. o = 0 /\ i = First(n)
      BY <1>1, <1>4 DEF Boundary
    <2>2. PICK b \in Nat, f \in Int : b = BlockSize /\ b > 0 /\ f = First(n - 1) /\ f + b = i
      BY <1>2, <1>3, <2>1
    <2>3. f <= i - 1 /\ i - 1 < f + b /\ i - 1 \in Int /\ n - 1 \in Int
      BY <2>2
    <2>4. Number(i - 1) = n - 1
      BY <2>2, <2>3, NumberIs
    <2> QED BY <1>1, <1>4, <2>1, <2>4
  <1>5. CASE ~Boundary(i)
    <2>1. o > 0
      BY <1>1, <1>5 DEF Boundary, Offsets
    <2>2. Number(i - 1) = n
      BY <1>1, <1>3, <2>1, NumberIs DEF Offsets
    <2> QED BY <1>1, <1>5, <2>2
  <1> QED BY <1>4, <1>5

\* Remainders by any size of an index.
LEMMA OneRemainder ==
  ASSUME NEW m \in Nat \ {0}, NEW a \in Int, NEW b \in Int, NEW r \in 0 .. m - 1, NEW s \in 0 .. m - 1,
         m * a + r = m * b + s
  PROVE  a = b /\ r = s
  <1>1. m * a - m * b = m * (a - b) /\ m * b - m * a = m * (b - a)
    OBVIOUS
  <1>2. a - b >= 1 => m * (a - b) >= m
    OBVIOUS
  <1>3. b - a >= 1 => m * (b - a) >= m
    OBVIOUS
  <1>4. PICK p \in Int, q \in Int : p = m * a /\ q = m * b
    OBVIOUS
  <1>5. a = b
    BY <1>1, <1>2, <1>3, <1>4
  <1> QED BY <1>4, <1>5

LEMMA Quotient ==
  ASSUME NEW m \in Nat \ {0}, NEW x \in Int
  PROVE  \E d \in Int : x % m \in 0 .. m - 1 /\ x = m * d + (x % m)
  <1>1. x \div m \in Int /\ x % m \in 0 .. m - 1 /\ x = m * (x \div m) + (x % m)
    OBVIOUS
  <1> QED BY <1>1

LEMMA Remainders ==
  ASSUME NEW m \in Nat \ {0}, NEW d \in Int, NEW z \in Int
  PROVE  (m * d + z) % m = z % m
  <1>1. PICK f \in Int : z % m \in 0 .. m - 1 /\ z = m * f + (z % m)
    BY Quotient
  <1>2. PICK x \in Int : x = m * d + z
    OBVIOUS
  <1>3. PICK g \in Int : x % m \in 0 .. m - 1 /\ x = m * g + (x % m)
    BY Quotient
  <1>4. m * d + m * f = m * (d + f) /\ d + f \in Int
    OBVIOUS
  <1>5. PICK r \in 0 .. m - 1, s \in 0 .. m - 1 : r = z % m /\ s = x % m
    BY <1>1, <1>3
  <1>6. m * (d + f) + r = m * g + s
    <2>1. PICK p \in Int, q \in Int, u \in Int : p = m * d /\ q = m * f /\ u = m * g
      OBVIOUS
    <2>2. z = q + r
      BY <1>1, <1>5, <2>1
    <2>3. x = u + s
      BY <1>3, <1>5, <2>1
    <2>4. x = p + z
      BY <1>2, <2>1
    <2>5. p + q + r = u + s
      BY <2>2, <2>3, <2>4
    <2>6. m * (d + f) = p + q
      BY <1>4, <2>1
    <2> QED BY <2>1, <2>5, <2>6
  <1>7. r = s
    BY <1>4, <1>6, OneRemainder
  <1> QED BY <1>2, <1>5, <1>7

\* A summand may be replaced by its remainder.
LEMMA AddRemainder ==
  ASSUME NEW m \in Nat \ {0}, NEW x \in Int, NEW y \in Int
  PROVE  ((x % m) + y) % m = (x + y) % m
  <1>1. PICK d \in Int, r \in 0 .. m - 1 : d = x \div m /\ r = x % m /\ x = m * d + r
    OBVIOUS
  <1>2. PICK u \in Int, v \in Int : u = x + y /\ v = r + y /\ u = m * d + v
    BY <1>1
  <1>3. u % m = v % m
    BY <1>2, Remainders
  <1> QED BY <1>1, <1>2, <1>3

LEMMA Remains ==
  ASSUME NEW m \in Nat \ {0}, NEW x \in Int, NEW y \in Int
  PROVE  /\ x % m \in 0 .. m - 1
         /\ x \in 0 .. m - 1 => x % m = x
         /\ ((x % m) + y) % m = (x + y) % m
         /\ x % m = y % m => x = y \/ x - y >= m \/ y - x >= m
         /\ (x - m) % m = x % m
  <1>1. x % m \in 0 .. m - 1
    OBVIOUS
  <1>2. PICK d \in Int, r \in 0 .. m - 1 : d = x \div m /\ r = x % m /\ x = m * d + r
    OBVIOUS
  <1>3. PICK e \in Int, s \in 0 .. m - 1 : e = y \div m /\ s = y % m /\ y = m * e + s
    OBVIOUS
  <1>4. x \in 0 .. m - 1 => x % m = x
    OBVIOUS
  <1>5. (r + y) % m = (x + y) % m
    BY <1>2, AddRemainder
  <1>6. ASSUME r = s, x /= y PROVE x - y >= m \/ y - x >= m
    <2>1. x - y = m * d - m * e /\ d /= e
      BY <1>2, <1>3, <1>6
    <2>2. m * d - m * e = m * (d - e)
      OBVIOUS
    <2>3. d - e >= 1 => m * (d - e) >= m
      OBVIOUS
    <2>4. e - d >= 1 => m * (e - d) >= m /\ m * (d - e) = -(m * (e - d))
      OBVIOUS
    <2> QED BY <2>1, <2>2, <2>3, <2>4
  <1>7. (x - m) % m = x % m
    <2>1. m * (-1) + x = x - m /\ -1 \in Int
      OBVIOUS
    <2>2. (m * (-1) + x) % m = x % m
      BY <2>1, Remainders
    <2> QED BY <2>1, <2>2
  <1> QED BY <1>1, <1>2, <1>3, <1>4, <1>5, <1>6, <1>7

\* A block's first position tells the block.
LEMMA FirstOnce == ASSUME NEW q \in Int, NEW r \in Int, First(q) = First(r) PROVE q = r
  BY FirstNumber

-----------------------------------------------------------------------------
(* The walks of the consumers over the positions they own, in either kind of queue. *)

HandRecords == [at : {"idle", "index", "front", "offset", "move", "release", "unlink"},
                idx : Int, pos : Int, i : Int]
MovedAt == {"release", "unlink"}

\* The positions a consumer owns and has not given up, and those not moved out either.
End(c) == claim[c].k + claim[c].n
Rest(c) == IF claim[c].at = "owner" THEN hand[c].i .. End(c) - 1 ELSE {}
Owes(c) == IF hand[c].at \in MovedAt THEN Rest(c) \ Here(c) ELSE Rest(c)

\* Owners have positions of their own below the head.
Walks ==
  /\ Start \in Nat /\ Boundary(Start)
  /\ hand \in [Consumers -> HandRecords]
  /\ \A c \in Consumers :
       /\ claim[c].at = "owner" <=> hand[c].at /= "idle"
       /\ claim[c].at \in {"take", "owner"} => claim[c].n >= 1
       /\ claim[c].at = "owner" => Start <= hand[c].i /\ hand[c].i < End(c) /\ End(c) <= headIndex
  /\ \A c, d \in Consumers :
       c /= d /\ claim[c].at = "owner" /\ claim[d].at = "owner" => End(c) <= hand[d].i \/ End(d) <= hand[c].i

\* What was taken from the queue, and is not owed to anybody, is out.
Outside ==
  /\ taken \subseteq Int
  /\ \A i \in Int : i \in taken <=> 0 <= i /\ i < headIndex /\ \A c \in Consumers : i \notin Owes(c)

Walking == Walks /\ Outside

\* The elements that are there: put and not taken, being put, or owned by a consumer.
Top == tailIndex + (IF prod.at \in {"expose", "publish"} THEN prod.n ELSE 0)
Live(i) == (headIndex <= i /\ i < Top) \/ \E c \in Consumers : i \in Rest(c)

\* A range of positions and the part of it in its first block.
LEMMA HereIs ==
  ASSUME CountersInv, Walks, NEW c \in Consumers
  PROVE  /\ End(c) \in Int /\ hand[c].i \in Int /\ hand[c] \in HandRecords /\ claim[c] \in ClaimRecords
         /\ NextHere(c) = First(Number(hand[c].i)) + BlockSize /\ NextHere(c) = First(Number(hand[c].i) + 1)
         /\ NextHere(c) \in Int /\ hand[c].i < NextHere(c) /\ Number(NextHere(c)) = Number(hand[c].i) + 1
         /\ \A i \in Int : i \in Here(c) <=> hand[c].i <= i /\ i < End(c) /\ i < NextHere(c)
         /\ Here(c) \subseteq Int
         /\ \A i \in Here(c) : Number(i) = Number(hand[c].i)
  <1>1. claim[c] \in ClaimRecords /\ hand[c] \in HandRecords
    BY DEF CountersInv, ClaimInv, Walks
  <1>2. PICK i \in Int, e \in Int : i = hand[c].i /\ e = End(c)
    BY <1>1 DEF ClaimRecords, HandRecords, End
  <1>3. PICK n \in Int : n = Number(i)
    BY Division
  <1>4. First(n) \in Int /\ BlockSize \in Nat /\ First(n + 1) = First(n) + BlockSize /\ Base(i) = First(n) /\ n + 1 \in Int
    <2>1. First(n + 1) = First(n) + BlockSize /\ n + 1 \in Int
      BY FirstOrder
    <2>2. First(n) \in Int /\ BlockSize \in Nat /\ Base(i) = First(n)
      BY <1>3, FirstNumber, BlockAssumption, Division
    <2> QED BY <2>1, <2>2
  <1>5. i < First(n) + BlockSize /\ First(n) <= i
    BY <1>3, NumberIs
  <1>6. NextHere(c) = First(n) + BlockSize
    BY <1>2, <1>4 DEF NextHere
  <1>7. Number(NextHere(c)) = n + 1
    BY <1>3, <1>4, <1>6, FirstNumber
  <1>8. \A j : j \in Here(c) <=> j \in i .. e - 1 /\ Base(j) = First(n)
    <2>1. claim[c].k + claim[c].n = e
      BY <1>2 DEF End
    <2>2. \A j : j \in Here(c) <=> j \in hand[c].i .. claim[c].k + claim[c].n - 1 /\ Base(j) = Base(hand[c].i)
      BY DEF Here
    <2>3. Base(hand[c].i) = First(n)
      BY <1>2, <1>4
    <2>4. hand[c].i = i /\ claim[c].k + claim[c].n - 1 = e - 1
      BY <1>1, <1>2, <2>1 DEF ClaimRecords
    <2> QED BY <2>2, <2>3, <2>4, Zenon
  <1>9. ASSUME NEW j \in Int, i <= j PROVE /\ Base(j) = First(n) => Number(j) = n
                                           /\ Number(j) = n => Base(j) = First(n)
                                           /\ Number(j) = n <=> j < First(n) + BlockSize
    <2>1. Number(j) \in Int /\ Base(j) = First(Number(j))
      BY Division
    <2>2. Number(j) = n <=> First(n) <= j /\ j < First(n) + BlockSize
      BY <1>3, NumberIs
    <2>3. First(n) <= j
      BY <1>2, <1>4, <1>5, <1>9
    <2> QED BY <1>3, <2>1, <2>2, <2>3, FirstOnce
  <1>10. \A j \in Int : j \in Here(c) <=> i <= j /\ j < e /\ j < First(n) + BlockSize
    BY <1>2, <1>8, <1>9
  <1>11. Here(c) \subseteq Int /\ \A j \in Here(c) : Number(j) = n
    BY <1>2, <1>8, <1>9
  <1> QED BY <1>1, <1>2, <1>3, <1>4, <1>5, <1>6, <1>7, <1>10, <1>11

\* Rest and Owes as conditions on a position.
LEMMA RestIs ==
  ASSUME CountersInv, Walks, NEW c \in Consumers
  PROVE  /\ Rest(c) \subseteq Int /\ Owes(c) \subseteq Rest(c)
         /\ \A i \in Int : i \in Rest(c) <=> claim[c].at = "owner" /\ hand[c].i <= i /\ i < End(c)
         /\ \A i \in Rest(c) : Start <= i /\ i < headIndex
         /\ hand[c].at \notin MovedAt => Owes(c) = Rest(c)
         /\ \A i \in Int : hand[c].at \in MovedAt => (i \in Owes(c) <=> i \in Rest(c) /\ NextHere(c) <= i)
  <1>1. PICK i \in Int, e \in Int, n \in Int, h \in Int : i = hand[c].i /\ e = End(c) /\ n = NextHere(c) /\ h = headIndex
    BY HereIs DEF CountersInv, ClaimInv
  <1>2. Rest(c) = IF claim[c].at = "owner" THEN i .. e - 1 ELSE {}
    BY <1>1 DEF Rest
  <1>3. Rest(c) \subseteq Int /\ \A j \in Int : j \in Rest(c) <=> claim[c].at = "owner" /\ i <= j /\ j < e
    BY <1>2
  <1>4. Start \in Int /\ (claim[c].at = "owner" => Start <= i /\ e <= h)
    BY <1>1 DEF Walks
  <1>5. \A j \in Rest(c) : Start <= j /\ j < h
    BY <1>1, <1>3, <1>4
  <1>6. \A j \in Int : j \in Here(c) <=> i <= j /\ j < e /\ j < n
    BY <1>1, HereIs
  <1>7. \A j \in Int : hand[c].at \in MovedAt => (j \in Owes(c) <=> j \in Rest(c) /\ n <= j)
    BY <1>1, <1>3, <1>6 DEF Owes
  <1> QED BY <1>1, <1>3, <1>5, <1>7 DEF Owes

\* The walks of the others stay where they are.
LEMMA OtherWalks ==
  ASSUME NEW d, claim'[d] = claim[d], hand'[d] = hand[d]
  PROVE  Rest(d)' = Rest(d) /\ Owes(d)' = Owes(d) /\ End(d)' = End(d) /\ Here(d)' = Here(d)
  <1>1. Here(d)' = Here(d)
    BY DEF Here
  <1>2. End(d)' = End(d) /\ Rest(d)' = Rest(d)
    BY DEF End, Rest
  <1> QED BY <1>1, <1>2 DEF Owes

\* A step of one consumer keeps the walks apart when it goes on with what it has, or takes from the head.
LEMMA WalkStep ==
  ASSUME CountersInv, Walks, NEW c \in Consumers, NEW y \in ClaimRecords, NEW h \in HandRecords,
         claim' = [claim EXCEPT ![c] = y], hand' = [hand EXCEPT ![c] = h], limit' = limit,
         headIndex' \in Int, headIndex <= headIndex', y.at = "owner" <=> h.at /= "idle",
         y.at \in {"take", "owner"} => y.n >= 1,
         y.at = "owner" => /\ h.i < y.k + y.n /\ y.k + y.n <= headIndex'
                           /\ \/ claim[c].at = "owner" /\ hand[c].i <= h.i /\ y.k + y.n = End(c)
                              \/ h.i = headIndex
  PROVE  Walks' /\ claim'[c] = y /\ hand'[c] = h
         /\ \A d \in Consumers : d /= c => claim'[d] = claim[d] /\ hand'[d] = hand[d] /\ Rest(d)' = Rest(d) /\ Owes(d)' = Owes(d)
  <1>1. claim'[c] = y /\ \A d \in Consumers : d /= c => claim'[d] = claim[d]
    BY DEF CountersInv, ClaimInv
  <1>2. hand'[c] = h /\ (\A d \in Consumers : d /= c => hand'[d] = hand[d]) /\ hand' \in [Consumers -> HandRecords]
    BY DEF Walks
  <1>3. ASSUME NEW d \in Consumers, d /= c
        PROVE  claim'[d] = claim[d] /\ hand'[d] = hand[d] /\ Rest(d)' = Rest(d) /\ Owes(d)' = Owes(d) /\ End(d)' = End(d)
    BY <1>1, <1>2, <1>3, OtherWalks
  <1>4. Start' = Start /\ Start \in Nat /\ Boundary(Start)'
    BY DEF Walks, Start, Boundary
  <1>5. PICK e \in Int, f \in Int, i \in Int, j \in Int, g \in Int, k \in Int, s \in Int :
           e = y.k + y.n /\ f = End(c) /\ i = hand[c].i /\ j = h.i /\ g = headIndex /\ k = headIndex' /\ s = Start
    BY <1>4, HereIs DEF CountersInv, ClaimInv, ClaimRecords, HandRecords
  <1>6. End(c)' = e
    BY <1>1, <1>5 DEF End
  <1>7. g <= k /\ s <= g
    BY <1>5 DEF CountersInv, Bounded
  <1>8. y.at = "owner" => /\ j < e /\ e <= k
                          /\ \/ claim[c].at = "owner" /\ i <= j /\ e = f
                             \/ j = g
    BY <1>5
  <1>9. claim[c].at = "owner" => s <= i /\ i < f /\ f <= g
    BY <1>5 DEF Walks
  <1>10. y.at = "owner" => s <= j
    BY <1>5, <1>7, <1>8, <1>9
  <1>11. ASSUME NEW d \in Consumers
         PROVE  /\ (claim[d].at = "owner" <=> hand[d].at /= "idle")'
                /\ (claim[d].at \in {"take", "owner"} => claim[d].n >= 1)'
                /\ (claim[d].at = "owner" => Start <= hand[d].i /\ hand[d].i < End(d) /\ End(d) <= headIndex)'
    <2>1. CASE d = c
      BY <1>1, <1>2, <1>4, <1>5, <1>6, <1>8, <1>10, <2>1
    <2>2. CASE d /= c
      <3>1. End(d) \in Int /\ End(d)' = End(d) /\ claim'[d] = claim[d] /\ hand'[d] = hand[d]
        BY <1>3, <2>2, HereIs
      <3>2. claim[d].at = "owner" => End(d) <= headIndex'
        BY <1>5, <1>7, <3>1 DEF Walks
      <3> QED BY <1>4, <3>1, <3>2 DEF Walks
    <2> QED BY <2>1, <2>2
  <1>12. ASSUME NEW d \in Consumers, d /= c, claim'[c].at = "owner", claim'[d].at = "owner"
         PROVE  (End(c) <= hand[d].i)' \/ (End(d) <= hand[c].i)'
    <2>1. claim'[d] = claim[d] /\ hand'[d] = hand[d] /\ End(d)' = End(d)
      BY <1>3, <1>12
    <2>2. PICK m \in Int, n \in Int : m = End(d) /\ n = hand[d].i
      BY HereIs
    <2>3. m <= g
      BY <1>5, <1>12, <2>1, <2>2 DEF Walks
    <2>4. claim[c].at = "owner" => f <= n \/ m <= i
      BY <1>5, <1>12, <2>1, <2>2 DEF Walks
    <2>5. (i <= j /\ e = f /\ (f <= n \/ m <= i)) \/ j = g
      BY <1>1, <1>8, <1>12, <2>4
    <2>6. e <= n \/ m <= j
      BY <2>3, <2>5
    <2> QED BY <1>2, <1>5, <1>6, <2>1, <2>2, <2>6
  <1>13. \A d, q \in Consumers :
           d /= q /\ claim'[d].at = "owner" /\ claim'[q].at = "owner" => (End(d) <= hand[q].i \/ End(q) <= hand[d].i)'
    <2> SUFFICES ASSUME NEW d \in Consumers, NEW q \in Consumers, d /= q, claim'[d].at = "owner", claim'[q].at = "owner"
                 PROVE  (End(d) <= hand[q].i \/ End(q) <= hand[d].i)'
      OBVIOUS
    <2>1. CASE d = c
      BY <1>12, <2>1
    <2>2. CASE q = c
      BY <1>12, <2>2
    <2>3. CASE d /= c /\ q /= c
      BY <1>3, <2>3 DEF Walks
    <2> QED BY <2>1, <2>2, <2>3
  <1>14. Walks'
    BY <1>2, <1>4, <1>11, <1>13 DEF Walks
  <1> QED BY <1>1, <1>2, <1>3, <1>14

\* What is out after a step that moves the elements of some positions from those c owes, or adds to them.
LEMMA OutsideKept ==
  ASSUME Outside, NEW c \in Consumers, \A d \in Consumers : d /= c => Owes(d)' = Owes(d),
         headIndex' = headIndex, taken' = taken, \A i \in Int : i \in Owes(c)' <=> i \in Owes(c)
  PROVE  Outside'
  BY DEF Outside

\* An attempt, up to the head: the walks do not move.
LEMMA AttemptWalks ==
  ASSUME CountersInv, Walking, NEW c \in Consumers,
         (\E max \in 1 .. MaxTake : Look(c, max)) \/ Reserve(c) \/ Confirm(c) \/ Refund(c),
         UNCHANGED <<hand, taken, limit>>
  PROVE  Walking' /\ headIndex' = headIndex /\ tailIndex' = tailIndex /\ \A d \in Consumers : Rest(d)' = Rest(d) /\ Owes(d)' = Owes(d)
  <1>0. ClaimInv /\ Asking(c) /\ claim[c] \in ClaimRecords /\ headIndex \in Int /\ Walks /\ Outside
    BY DEF CountersInv, Ahead, ClaimInv, Walking
  <1>1. PICK y \in ClaimRecords : /\ claim' = [claim EXCEPT ![c] = y] /\ y.at /= "owner" /\ claim[c].at /= "owner"
                                  /\ y.at = "take" => y.n >= 1
    <2>1. ASSUME NEW max \in 1 .. MaxTake, Look(c, max)
          PROVE  \E y \in ClaimRecords : claim' = [claim EXCEPT ![c] = y] /\ y.at \notin {"take", "owner"} /\ claim[c].at /= "owner"
      <3>1. claim[c].at = "idle"
        BY <2>1 DEF Look
      <3> QED BY <1>0, <2>1, <3>1, LookClaim
    <2>2. CASE Reserve(c)
      <3>1. claim[c].at = "reserve"
        BY <2>2 DEF Reserve
      <3> QED BY <1>0, <2>2, <3>1, ReserveClaim
    <2>3. CASE Confirm(c)
      <3>1. claim[c].at = "confirm" /\ claim[c].n >= 1 /\ claim[c].n \in Nat
        BY <1>0, <2>3 DEF Confirm, Asking, ClaimRecords
      <3>2. PICK m \in Nat : m = Actual(c) /\ m <= claim[c].n
        BY <1>0, ActualBounds
      <3>3. PICK x : x = [claim[c] EXCEPT !.at = IF m < claim[c].n THEN "refund" ELSE "take", !.n = m, !.back = claim[c].n - m]
        OBVIOUS
      <3>4. claim' = [claim EXCEPT ![c] = x]
        BY <1>0, <2>3, <3>2, <3>3 DEF Confirm, ClaimRecords
      <3>5. claim[c].n - m \in Nat
        BY <3>1, <3>2
      <3>6. x \in ClaimRecords /\ x.n = m /\ x.at = IF m < claim[c].n THEN "refund" ELSE "take"
        BY <1>0, <3>3, <3>5 DEF ClaimRecords
      <3>7. x.at = "take" => x.n >= 1
        BY <3>1, <3>2, <3>6
      <3> QED BY <3>1, <3>4, <3>6, <3>7
    <2>4. CASE Refund(c)
      <3>1. claim[c].at = "refund" /\ claim' = [claim EXCEPT ![c] =
              IF claim[c].n = 0 THEN NoClaim ELSE [claim[c] EXCEPT !.at = "take", !.back = 0]]
        BY <2>4 DEF Refund
      <3>2. CASE claim[c].n = 0
        BY <3>1, <3>2, NoClaimRecord
      <3>3. CASE claim[c].n /= 0
        <4>1. PICK x : x = [claim[c] EXCEPT !.at = "take", !.back = 0]
          OBVIOUS
        <4>2. x \in ClaimRecords /\ x.n = claim[c].n /\ x.at = "take" /\ claim[c].n \in Nat
          BY <1>0, <4>1 DEF ClaimRecords
        <4>3. claim' = [claim EXCEPT ![c] = x]
          BY <3>1, <3>3, <4>1
        <4>4. claim[c].at /= "owner" /\ x.at /= "owner" /\ x.n >= 1
          BY <3>1, <3>3, <4>2
        <4> QED BY <4>2, <4>3, <4>4
      <3> QED BY <3>2, <3>3
    <2> QED BY <2>1, <2>2, <2>3, <2>4
  <1>2. UNCHANGED <<headIndex, tailIndex>>
    BY DEF Look, Reserve, Confirm, Refund
  <1>3. hand[c] \in HandRecords /\ hand' = [hand EXCEPT ![c] = hand[c]] /\ hand[c].at = "idle"
    BY <1>0, <1>1 DEF Walks
  <1>4. /\ Walks' /\ claim'[c] = y /\ hand'[c] = hand[c]
        /\ \A d \in Consumers : d /= c => claim'[d] = claim[d] /\ hand'[d] = hand[d] /\ Rest(d)' = Rest(d) /\ Owes(d)' = Owes(d)
    <2>1. PICK h \in HandRecords : h = hand[c] /\ hand' = [hand EXCEPT ![c] = h] /\ h.at = "idle"
      BY <1>3
    <2>2. y.at = "owner" <=> h.at /= "idle"
      BY <1>1, <2>1
    <2>3. y.at \in {"take", "owner"} => y.n >= 1
      BY <1>1
    <2>4. headIndex' \in Int /\ headIndex <= headIndex'
      BY <1>0, <1>2
    <2>5. CountersInv /\ Walks /\ limit' = limit /\ claim' = [claim EXCEPT ![c] = y] /\ y.at /= "owner"
      BY <1>0, <1>1
    <2> QED BY <2>1, <2>2, <2>3, <2>4, <2>5, WalkStep
  <1>5. Rest(c) = {} /\ Rest(c)' = {} /\ Owes(c) = {} /\ Owes(c)' = {}
    BY <1>1, <1>3, <1>4 DEF Rest, Owes, MovedAt
  <1>6. Outside'
    BY <1>0, <1>2, <1>4, <1>5, OutsideKept
  <1> QED BY <1>2, <1>4, <1>5, <1>6 DEF Walking

\* Positions are taken: the walk over them begins, and they are owed.
LEMMA TakeWalks ==
  ASSUME CountersInv, Walking, NEW c \in Consumers, Take(c), UNCHANGED <<taken, limit>>,
         hand' = [hand EXCEPT ![c] = [NoWalk EXCEPT !.at = "index", !.i = headIndex]]
  PROVE  /\ Walking' /\ headIndex < headIndex' /\ headIndex' \in Int /\ tailIndex' = tailIndex /\ hand[c].at = "idle"
         /\ \A d \in Consumers : d /= c => hand'[d] = hand[d] /\ Rest(d)' = Rest(d) /\ Owes(d)' = Owes(d)
         /\ Rest(c) = {} /\ Owes(c) = {} /\ Rest(c)' = headIndex .. headIndex' - 1 /\ Owes(c)' = Rest(c)'
         /\ hand'[c].at = "index" /\ hand'[c].i = headIndex
  <1>0. ClaimInv /\ claim[c] \in ClaimRecords /\ headIndex \in Int /\ Walks /\ Outside /\ Start \in Nat /\ Start <= headIndex
    BY DEF CountersInv, ClaimInv, Walking, Walks, Bounded
  <1>1. claim[c].at = "take" /\ headIndex' = headIndex + claim[c].n /\ tailIndex' = tailIndex
    BY DEF Take
  <1>2. claim[c].n \in Nat /\ claim[c].n >= 1 /\ claim[c].n <= MaxTake + claim[c].n
    BY <1>0, <1>1, BoundNumbers DEF Walks, ClaimRecords
  <1>3. PICK y : y = [claim[c] EXCEPT !.at = "owner", !.k = headIndex]
    OBVIOUS
  <1>4. y \in ClaimRecords /\ y.at = "owner" /\ y.k = headIndex /\ y.n = claim[c].n /\ claim' = [claim EXCEPT ![c] = y]
    <2>1. claim' = [claim EXCEPT ![c].at = "owner", ![c].k = headIndex]
      BY DEF Take
    <2>2. claim' = [claim EXCEPT ![c] = y]
      BY <1>0, <1>3, <2>1 DEF ClaimInv
    <2> QED BY <1>0, <1>3, <2>2 DEF ClaimRecords
  <1>5. PICK h : h = [NoWalk EXCEPT !.at = "index", !.i = headIndex]
    OBVIOUS
  <1>6. h \in HandRecords /\ h.at = "index" /\ h.i = headIndex /\ hand' = [hand EXCEPT ![c] = h]
    <2>1. h = [at |-> "index", idx |-> 0, pos |-> 0, i |-> headIndex]
      BY <1>5 DEF NoWalk
    <2>2. h \in HandRecords
      BY <1>0, <2>1 DEF HandRecords
    <2> QED BY <1>5, <2>1, <2>2
  <1>7. headIndex < headIndex' /\ headIndex' \in Int /\ h.i < y.k + y.n /\ y.k + y.n <= headIndex' /\ y.n >= 1
        /\ headIndex <= headIndex'
    BY <1>0, <1>1, <1>2, <1>4, <1>6
  <1>8. /\ Walks' /\ claim'[c] = y /\ hand'[c] = h
        /\ \A d \in Consumers : d /= c => claim'[d] = claim[d] /\ hand'[d] = hand[d] /\ Rest(d)' = Rest(d) /\ Owes(d)' = Owes(d)
    <2>1. y.at = "owner" <=> h.at /= "idle"
      BY <1>4, <1>6
    <2> QED BY <1>0, <1>4, <1>6, <1>7, <2>1, WalkStep
  <1>9. hand[c].at = "idle" /\ Rest(c) = {} /\ Owes(c) = {}
    <2>1. hand[c].at = "idle"
      BY <1>0, <1>1 DEF Walks
    <2>2. Rest(c) = {}
      BY <1>1 DEF Rest
    <2> QED BY <2>1, <2>2 DEF Owes, MovedAt
  <1>10. Rest(c)' = headIndex .. headIndex' - 1 /\ Owes(c)' = Rest(c)'
    <2>1. Rest(c)' = h.i .. (y.k + y.n) - 1
      BY <1>4, <1>8 DEF Rest, End
    <2>2. (y.k + y.n) - 1 = headIndex' - 1
      BY <1>0, <1>1, <1>2, <1>4
    <2>3. Owes(c)' = Rest(c)'
      BY <1>6, <1>8 DEF Owes, MovedAt
    <2> QED BY <1>6, <2>1, <2>2, <2>3
  <1>11. Outside'
    <2> SUFFICES ASSUME NEW i \in Int
                 PROVE  i \in taken <=> 0 <= i /\ i < headIndex' /\ \A d \in Consumers : i \notin Owes(d)'
      BY <1>0 DEF Outside
    <2>1. i \in taken <=> 0 <= i /\ i < headIndex /\ \A d \in Consumers : i \notin Owes(d)
      BY <1>0 DEF Outside
    <2>2. ASSUME NEW d \in Consumers, headIndex <= i PROVE i \notin Owes(d)
      <3>1. \A j \in Rest(d) : j < headIndex
        BY <1>0, RestIs
      <3>2. i \notin Rest(d)
        BY <1>0, <2>2, <3>1
      <3> QED BY <1>0, <3>2, RestIs
    <2>3. i \in Owes(c)' <=> headIndex <= i /\ i < headIndex'
      BY <1>0, <1>7, <1>10
    <2>4. CASE headIndex <= i
      <3>1. i \notin taken
        BY <1>0, <2>1, <2>4
      <3> QED BY <2>3, <2>4, <3>1
    <2>5. CASE i < headIndex
      <3>1. i \notin Owes(c)' /\ i < headIndex'
        BY <1>0, <1>7, <2>3, <2>5
      <3>2. (\A d \in Consumers : i \notin Owes(d)') <=> (\A d \in Consumers : i \notin Owes(d))
        BY <1>8, <1>9, <3>1
      <3> QED BY <2>1, <2>5, <3>1, <3>2
    <2> QED BY <1>0, <2>4, <2>5
  <1> QED BY <1>1, <1>6, <1>7, <1>8, <1>9, <1>10, <1>11 DEF Walking

\* A consumer goes to another place of its walk, at the same position.
LEMMA PlaceWalks ==
  ASSUME CountersInv, Walking, NEW c \in Consumers, NEW h \in HandRecords, hand' = [hand EXCEPT ![c] = h],
         UNCHANGED <<claim, headIndex, limit>>, h.i = hand[c].i, h.at /= "idle", hand[c].at /= "idle"
  PROVE  /\ Walks' /\ hand'[c] = h /\ Here(c)' = Here(c) /\ Rest(c)' = Rest(c)
         /\ \A d \in Consumers : d /= c => hand'[d] = hand[d] /\ Rest(d)' = Rest(d) /\ Owes(d)' = Owes(d)
         /\ h.at \in MovedAt /\ hand[c].at \notin MovedAt /\ taken' = taken \cup Here(c) => Outside'
         /\ (h.at \in MovedAt <=> hand[c].at \in MovedAt) /\ taken' = taken => Outside' /\ Owes(c)' = Owes(c)
  <1>0. claim[c] \in ClaimRecords /\ headIndex \in Int /\ Walks /\ Outside /\ claim[c].at = "owner"
        /\ claim \in [Consumers -> ClaimRecords]
    BY DEF CountersInv, ClaimInv, Walking, Walks
  <1>1. PICK y \in ClaimRecords : y = claim[c]
    BY <1>0
  <1>2. claim' = [claim EXCEPT ![c] = y]
    BY <1>0, <1>1
  <1>3. y.at = "owner" /\ y.n >= 1 /\ hand[c].i < End(c) /\ End(c) <= headIndex /\ y.k + y.n = End(c) /\ hand[c].i \in Int
    <2>1. y.k + y.n = End(c)
      BY <1>1 DEF End
    <2> QED BY <1>0, <1>1, <2>1, HereIs DEF Walks
  <1>4. y.at = "owner" <=> h.at /= "idle"
    BY <1>3
  <1>5. /\ h.i < y.k + y.n /\ y.k + y.n <= headIndex' /\ claim[c].at = "owner" /\ hand[c].i <= h.i
        /\ headIndex' \in Int /\ headIndex <= headIndex'
    BY <1>0, <1>3
  <1>6. /\ Walks' /\ claim'[c] = y /\ hand'[c] = h
        /\ \A d \in Consumers : d /= c => claim'[d] = claim[d] /\ hand'[d] = hand[d] /\ Rest(d)' = Rest(d) /\ Owes(d)' = Owes(d)
    BY <1>0, <1>2, <1>3, <1>4, <1>5, WalkStep
  <1>7. Here(c)' = Here(c) /\ Rest(c)' = Rest(c)
    <2>1. hand'[c].i = hand[c].i /\ claim' = claim
      BY <1>6
    <2>2. Here(c)' = Here(c)
      BY <2>1 DEF Here
    <2>3. End(c)' = End(c)
      BY <2>1 DEF End
    <2> QED BY <2>1, <2>2, <2>3 DEF Rest
  <1>8. ASSUME h.at \in MovedAt, hand[c].at \notin MovedAt, taken' = taken \cup Here(c) PROVE Outside'
    <2>1. Owes(c)' = Rest(c) \ Here(c) /\ Owes(c) = Rest(c)
      BY <1>6, <1>7, <1>8 DEF Owes
    <2>2. Here(c) \subseteq Rest(c)
      BY <1>0, HereIs, RestIs
    <2> SUFFICES ASSUME NEW i \in Int
                 PROVE  i \in taken' <=> 0 <= i /\ i < headIndex' /\ \A d \in Consumers : i \notin Owes(d)'
      <3>1. taken' \subseteq Int
        BY <1>0, <1>8, HereIs DEF Outside
      <3> QED BY <3>1 DEF Outside
    <2>3. i \in taken <=> 0 <= i /\ i < headIndex /\ \A d \in Consumers : i \notin Owes(d)
      BY <1>0 DEF Outside
    <2>4. CASE i \in Here(c)
      <3>1. 0 <= i /\ i < headIndex
        <4>1. Start <= i /\ i < headIndex /\ Start \in Nat
          BY <1>0, <2>2, <2>4, RestIs DEF Walks
        <4> QED BY <4>1
      <3>2. ASSUME NEW d \in Consumers PROVE i \notin Owes(d)'
        <4>1. CASE d = c
          BY <2>1, <2>4, <4>1
        <4>2. CASE d /= c
          <5>1. i \notin Rest(d)
            <6>1. ASSUME i \in Rest(d) PROVE FALSE
              <7>1. claim[d].at = "owner" /\ hand[d].i <= i /\ i < End(d) /\ hand[c].i <= i /\ i < End(c)
                BY <1>0, <2>2, <2>4, <6>1, RestIs
              <7>2. End(c) <= hand[d].i \/ End(d) <= hand[c].i
                BY <1>0, <4>2, <7>1 DEF Walks
              <7>3. PICK e \in Int, f \in Int, j \in Int, k \in Int : e = End(c) /\ f = End(d) /\ j = hand[c].i /\ k = hand[d].i
                BY <1>0, HereIs
              <7> QED BY <7>1, <7>2, <7>3
            <6> QED BY <6>1
          <5> QED BY <1>0, <1>6, <4>2, <5>1, RestIs
        <4> QED BY <4>1, <4>2
      <3> QED BY <1>0, <1>8, <2>4, <3>1, <3>2
    <2>5. CASE i \notin Here(c)
      <3>1. i \in Owes(c)' <=> i \in Owes(c)
        BY <2>1, <2>5
      <3>2. (\A d \in Consumers : i \notin Owes(d)') <=> (\A d \in Consumers : i \notin Owes(d))
        BY <1>6, <3>1
      <3> QED BY <1>8, <2>3, <2>5, <3>2
    <2> QED BY <2>4, <2>5
  <1>9. ASSUME h.at \in MovedAt <=> hand[c].at \in MovedAt, taken' = taken PROVE Outside' /\ Owes(c)' = Owes(c)
    <2>1. Owes(c)' = Owes(c)
      BY <1>6, <1>7, <1>9 DEF Owes
    <2> QED BY <1>0, <1>6, <1>9, <2>1, OutsideKept
  <1> QED BY <1>6, <1>7, <1>8, <1>9

\* A position is owned by one consumer.
LEMMA OneOwner ==
  ASSUME CountersInv, Walks, NEW c \in Consumers, NEW d \in Consumers, c /= d
  PROVE  \A i \in Rest(c) : i \notin Rest(d)
  <1> SUFFICES ASSUME NEW i \in Rest(c), i \in Rest(d) PROVE FALSE
    OBVIOUS
  <1>1. i \in Int /\ claim[c].at = "owner" /\ claim[d].at = "owner" /\ hand[d].i <= i /\ i < End(d) /\ hand[c].i <= i /\ i < End(c)
    BY RestIs
  <1>2. End(c) <= hand[d].i \/ End(d) <= hand[c].i
    BY <1>1 DEF Walks
  <1>3. PICK e \in Int, f \in Int, j \in Int, k \in Int : e = End(c) /\ f = End(d) /\ j = hand[c].i /\ k = hand[d].i
    BY HereIs
  <1> QED BY <1>1, <1>2, <1>3

\* The positions of a block are given up: on to the next block, or the walk is over.
LEMMA NextWalks ==
  ASSUME CountersInv, Walking, NEW c \in Consumers, hand[c].at \in MovedAt, NEW size \in Nat \ {0},
         NextBlock(c, size), UNCHANGED <<taken, limit>>
  PROVE  /\ Walking' /\ headIndex' = headIndex /\ tailIndex' = tailIndex
         /\ \A d \in Consumers : d /= c => hand'[d] = hand[d] /\ Rest(d)' = Rest(d)
         /\ \A d \in Consumers : Owes(d)' = Owes(d)
         /\ \A i \in Int : i \in Rest(c)' <=> i \in Rest(c) /\ NextHere(c) <= i
         /\ Rest(c)' \subseteq Rest(c)
         /\ \A i \in Here(c) : i \in Rest(c) /\ \A d \in Consumers : i \notin Rest(d)'
         /\ \/ hand'[c].at = "idle"
            \/ /\ hand'[c].at = "move" /\ hand'[c].idx = hand[c].idx /\ hand'[c].pos = (hand[c].pos + 1) % size
               /\ hand'[c].i = NextHere(c) /\ NextHere(c) \in Rest(c)
  <1>0. /\ claim[c] \in ClaimRecords /\ headIndex \in Int /\ Walks /\ Outside /\ claim[c].at = "owner"
        /\ claim \in [Consumers -> ClaimRecords] /\ hand \in [Consumers -> HandRecords]
    BY DEF CountersInv, ClaimInv, Walking, Walks, MovedAt
  <1>1. PICK i \in Int, e \in Int, n \in Int : i = hand[c].i /\ e = End(c) /\ n = NextHere(c) /\ i < n /\ i < e /\ e <= headIndex
    BY <1>0, HereIs DEF Walks
  <1>2. claim[c].k + claim[c].n = e
    BY <1>1 DEF End
  <1>3. UNCHANGED <<headIndex, tailIndex>>
    BY DEF NextBlock, Done, claimVars
  <1>4. \A j \in Int : (j \in Rest(c) <=> i <= j /\ j < e) /\ (j \in Here(c) <=> i <= j /\ j < e /\ j < n)
    BY <1>0, <1>1, HereIs, RestIs
  <1>5. ASSUME n < e
        PROVE  /\ Walks' /\ hand'[c].at = "move" /\ hand'[c].idx = hand[c].idx /\ hand'[c].pos = (hand[c].pos + 1) % size
               /\ hand'[c].i = n
               /\ \A j \in Int : j \in Rest(c)' <=> n <= j /\ j < e
               /\ \A d \in Consumers : d /= c => claim'[d] = claim[d] /\ hand'[d] = hand[d] /\ Rest(d)' = Rest(d) /\ Owes(d)' = Owes(d)
               /\ Owes(c)' = Rest(c)'
    <2>1. PICK p : p = (hand[c].pos + 1) % size
      OBVIOUS
    <2>2. p \in Int
      <3>1. hand[c].pos + 1 \in Int
        BY <1>0 DEF HandRecords
      <3> QED BY <2>1, <3>1, Remains
    <2>3. PICK h : h = [at |-> "move", idx |-> hand[c].idx, pos |-> p, i |-> n]
      OBVIOUS
    <2>4. h \in HandRecords
      BY <1>0, <1>1, <2>2, <2>3 DEF HandRecords
    <2>5. UNCHANGED claimVars /\ hand' = [hand EXCEPT ![c].at = "move", ![c].i = NextHere(c), ![c].pos = (hand[c].pos + 1) % size]
      <3>1. NextHere(c) < claim[c].k + claim[c].n
        BY <1>1, <1>2, <1>5
      <3> QED BY <1>0, <3>1 DEF NextBlock
    <2>6. hand' = [hand EXCEPT ![c] = h]
      <3>1. hand[c] \in HandRecords
        BY <1>0
      <3>2. hand[c] = [at |-> hand[c].at, idx |-> hand[c].idx, pos |-> hand[c].pos, i |-> hand[c].i]
        BY <3>1 DEF HandRecords
      <3>3. [[[hand[c] EXCEPT !.at = "move"] EXCEPT !.i = n] EXCEPT !.pos = p] = h
        <4>1. PICK x : x = [hand[c] EXCEPT !.at = "move"]
          OBVIOUS
        <4>2. x = [at |-> "move", idx |-> hand[c].idx, pos |-> hand[c].pos, i |-> hand[c].i]
          BY <3>2, <4>1
        <4>3. PICK z : z = [x EXCEPT !.i = n]
          OBVIOUS
        <4>4. z = [at |-> "move", idx |-> hand[c].idx, pos |-> hand[c].pos, i |-> n]
          BY <4>2, <4>3
        <4>5. [z EXCEPT !.pos = p] = h
          BY <2>3, <4>4
        <4> QED BY <4>1, <4>3, <4>5
      <3>4. hand' = [hand EXCEPT ![c] = [[[hand[c] EXCEPT !.at = "move"] EXCEPT !.i = n] EXCEPT !.pos = p]]
        BY <1>0, <1>1, <2>1, <2>5
      <3> QED BY <3>3, <3>4
    <2>7. PICK y \in ClaimRecords : y = claim[c]
      BY <1>0
    <2>8. claim' = [claim EXCEPT ![c] = y] /\ y.at = "owner" /\ y.n >= 1
      BY <1>0, <2>5, <2>7 DEF claimVars, Walks
    <2>9. /\ h.i < y.k + y.n /\ y.k + y.n <= headIndex' /\ claim[c].at = "owner" /\ hand[c].i <= h.i /\ y.k + y.n = End(c)
          /\ headIndex' \in Int /\ headIndex <= headIndex' /\ (y.at = "owner" <=> h.at /= "idle")
      BY <1>0, <1>1, <1>2, <1>3, <1>5, <2>3, <2>7, <2>8
    <2>10. /\ Walks' /\ claim'[c] = y /\ hand'[c] = h
           /\ \A d \in Consumers : d /= c => claim'[d] = claim[d] /\ hand'[d] = hand[d] /\ Rest(d)' = Rest(d) /\ Owes(d)' = Owes(d)
      BY <1>0, <2>4, <2>6, <2>8, <2>9, WalkStep
    <2>11. Rest(c)' = n .. e - 1
      BY <1>2, <2>3, <2>7, <2>8, <2>10 DEF Rest, End
    <2>12. Owes(c)' = Rest(c)'
      BY <2>3, <2>10 DEF Owes, MovedAt
    <2> QED BY <1>1, <2>1, <2>3, <2>10, <2>11, <2>12
  <1>6. ASSUME ~(n < e)
        PROVE  /\ Walks' /\ hand'[c].at = "idle" /\ Rest(c)' = {} /\ Owes(c)' = {}
               /\ \A d \in Consumers : d /= c => claim'[d] = claim[d] /\ hand'[d] = hand[d] /\ Rest(d)' = Rest(d) /\ Owes(d)' = Owes(d)
    <2>1. hand' = [hand EXCEPT ![c] = NoWalk] /\ Done(c)
      <3>1. ~(NextHere(c) < claim[c].k + claim[c].n)
        BY <1>1, <1>2, <1>6
      <3> QED BY <3>1 DEF NextBlock
    <2>2. claim' = [claim EXCEPT ![c] = NoClaim] /\ NoClaim \in ClaimRecords /\ NoClaim.at = "idle"
      BY <2>1, NoClaimRecord DEF Done
    <2>3. NoWalk \in HandRecords /\ NoWalk.at = "idle"
      BY DEF NoWalk, HandRecords
    <2>4. headIndex' \in Int /\ headIndex <= headIndex'
      BY <1>0, <1>3
    <2>5. PICK y \in ClaimRecords : y = NoClaim /\ y.at = "idle" /\ claim' = [claim EXCEPT ![c] = y]
      BY <2>2
    <2>6. PICK h \in HandRecords : h = NoWalk /\ h.at = "idle" /\ hand' = [hand EXCEPT ![c] = h]
      BY <2>1, <2>3
    <2>7. /\ y.at = "owner" <=> h.at /= "idle"
          /\ y.at \notin {"take", "owner"}
      BY <2>5, <2>6
    <2>8. /\ Walks' /\ claim'[c] = y /\ hand'[c] = h
          /\ \A d \in Consumers : d /= c => claim'[d] = claim[d] /\ hand'[d] = hand[d] /\ Rest(d)' = Rest(d) /\ Owes(d)' = Owes(d)
      BY <1>0, <2>4, <2>5, <2>6, <2>7, WalkStep
    <2>9. Rest(c)' = {}
      BY <2>5, <2>8 DEF Rest
    <2> QED BY <2>6, <2>8, <2>9 DEF Owes
  <1>7. \A j \in Int : j \in Rest(c)' <=> j \in Rest(c) /\ n <= j
    <2>1. CASE n < e
      BY <1>1, <1>4, <1>5, <2>1
    <2>2. CASE ~(n < e)
      BY <1>1, <1>4, <1>6, <2>2
    <2> QED BY <2>1, <2>2
  <1>8. Owes(c)' = Owes(c)
    <2>1. Rest(c) \subseteq Int /\ \A j \in Int : j \in Owes(c) <=> j \in Rest(c) /\ n <= j
      BY <1>0, <1>1, RestIs
    <2>2. Owes(c) \subseteq Int /\ Owes(c)' = Rest(c)' /\ Rest(c)' \subseteq Int
      <3>1. Owes(c) \subseteq Int
        BY <1>0, <2>1, RestIs
      <3>2. Owes(c)' = Rest(c)'
        BY <1>5, <1>6
      <3>3. Rest(c)' \subseteq Int
        BY <1>0, <1>1 DEF Rest
      <3> QED BY <3>1, <3>2, <3>3
    <2> QED BY <1>7, <2>1, <2>2
  <1>9. Walks' /\ \A d \in Consumers : d /= c => hand'[d] = hand[d] /\ Rest(d)' = Rest(d) /\ Owes(d)' = Owes(d)
    BY <1>5, <1>6
  <1>10. Outside'
    BY <1>0, <1>3, <1>8, <1>9, OutsideKept
  <1>11. ASSUME NEW j \in Here(c) PROVE j \in Rest(c) /\ \A d \in Consumers : j \notin Rest(d)'
    <2>1. j \in Int /\ j \in Rest(c) /\ j < n
      BY <1>0, <1>1, <1>4, HereIs
    <2>2. j \notin Rest(c)'
      BY <1>1, <1>7, <2>1
    <2> QED BY <1>0, <1>9, <2>1, <2>2, OneOwner
  <1>12. Rest(c)' \subseteq Rest(c)
    <2>1. Rest(c)' \subseteq Int
      BY <1>0, <1>1, <1>5, <1>6 DEF Rest
    <2> QED BY <1>7, <2>1
  <1>13. n < e => n \in Rest(c)
    BY <1>1, <1>4
  <1>14. \/ hand'[c].at = "idle"
         \/ /\ hand'[c].at = "move" /\ hand'[c].idx = hand[c].idx /\ hand'[c].pos = (hand[c].pos + 1) % size
            /\ hand'[c].i = NextHere(c) /\ NextHere(c) \in Rest(c)
    BY <1>1, <1>5, <1>6, <1>13
  <1> QED BY <1>1, <1>3, <1>7, <1>8, <1>9, <1>10, <1>11, <1>12, <1>14 DEF Walking

\* A step of the producer keeps the walks.
LEMMA ProducerWalks ==
  ASSUME Walking, UNCHANGED <<claim, hand, taken, headIndex, limit>>
  PROVE  Walking' /\ \A d \in Consumers : Rest(d)' = Rest(d) /\ Owes(d)' = Owes(d) /\ Here(d)' = Here(d)
  <1>1. \A d \in Consumers : Rest(d)' = Rest(d) /\ Owes(d)' = Owes(d) /\ End(d)' = End(d) /\ Here(d)' = Here(d)
    BY OtherWalks
  <1>2. Walks'
    BY <1>1 DEF Walking, Walks, Start, Boundary
  <1>3. Outside'
    BY <1>1 DEF Walking, Outside
  <1> QED BY <1>1, <1>2, <1>3 DEF Walking

-----------------------------------------------------------------------------
(* The steps of SubQueue that the walks make. *)

Owed == [c \in Consumers |-> Owes(c)]
AbstractOwed ==
  [c \in Consumers |->
    IF claim[c].at /= "owner" THEN {}
    ELSE {i \in hand[c].i .. claim[c].k + claim[c].n - 1 :
            hand[c].at \in {"index", "front", "offset", "move"} \/ i \notin Here(c)}]

LEMMA OwedIs == CountersInv /\ Walks => AbstractOwed = Owed
  <1> SUFFICES ASSUME CountersInv, Walks, NEW c \in Consumers PROVE AbstractOwed[c] = Owes(c)
    BY DEF AbstractOwed, Owed
  <1>1. hand[c] \in HandRecords /\ claim[c] \in ClaimRecords /\ (claim[c].at = "owner" <=> hand[c].at /= "idle")
    BY HereIs DEF Walks
  <1>2. CASE claim[c].at /= "owner"
    BY <1>2 DEF AbstractOwed, Owes, Rest
  <1>3. CASE claim[c].at = "owner"
    <2>1. Rest(c) = hand[c].i .. claim[c].k + claim[c].n - 1
      <3>1. (claim[c].k + claim[c].n) - 1 = claim[c].k + claim[c].n - 1
        BY <1>1 DEF ClaimRecords
      <3> QED BY <1>3, <3>1 DEF Rest, End
    <2>2. hand[c].at \in MovedAt <=> hand[c].at \notin {"index", "front", "offset", "move"}
      BY <1>1, <1>3 DEF MovedAt, HandRecords
    <2>3. AbstractOwed[c] = {i \in Rest(c) : hand[c].at \in {"index", "front", "offset", "move"} \/ i \notin Here(c)}
      BY <1>3, <2>1 DEF AbstractOwed
    <2>4. CASE hand[c].at \in MovedAt
      BY <2>2, <2>3, <2>4 DEF Owes
    <2>5. CASE hand[c].at \notin MovedAt
      BY <2>2, <2>3, <2>5 DEF Owes
    <2> QED BY <2>4, <2>5
  <1> QED BY <1>2, <1>3

LEMMA SubNext ==
  ASSUME AbstractOwed = Owed, AbstractOwed' = Owed',
         \/ UNCHANGED <<tailIndex, headIndex, Owed, taken>>
         \/ tailIndex' > tailIndex /\ UNCHANGED <<headIndex, Owed, taken>>
         \/ \E c \in Consumers : /\ Owed[c] = {} /\ headIndex' > headIndex /\ headIndex' <= tailIndex
                                 /\ Owed' = [Owed EXCEPT ![c] = headIndex .. headIndex' - 1]
                                 /\ UNCHANGED <<tailIndex, taken>>
         \/ \E c \in Consumers : \E n \in Owed[c] :
              /\ Owed' = [Owed EXCEPT ![c] = Owed[c] \ {i \in Owed[c] : i <= n}]
              /\ taken' = taken \cup {i \in Owed[c] : i <= n}
              /\ UNCHANGED <<tailIndex, headIndex>>
  PROVE  [SubQ!Next]_(SubQ!subQueueVars)
  <1>1. CASE UNCHANGED <<tailIndex, headIndex, Owed, taken>>
    BY <1>1 DEF SubQ!subQueueVars, AbstractOwed
  <1>2. CASE tailIndex' > tailIndex /\ UNCHANGED <<headIndex, Owed, taken>>
    BY <1>2 DEF SubQ!Next, SubQ!Enqueue, AbstractOwed
  <1>3. ASSUME NEW c \in Consumers, Owed[c] = {}, headIndex' > headIndex, headIndex' <= tailIndex,
               Owed' = [Owed EXCEPT ![c] = headIndex .. headIndex' - 1], UNCHANGED <<tailIndex, taken>>
        PROVE  SubQ!Next
    <2>1. SubQ!Give(c)
      <3>1. AbstractOwed[c] = {} /\ AbstractOwed' = [AbstractOwed EXCEPT ![c] = headIndex .. headIndex' - 1]
        BY <1>3
      <3> QED BY <1>3, <3>1 DEF SubQ!Give, AbstractOwed
    <2> QED BY <2>1 DEF SubQ!Next
  <1>4. ASSUME NEW c \in Consumers, NEW n \in Owed[c],
               Owed' = [Owed EXCEPT ![c] = Owed[c] \ {i \in Owed[c] : i <= n}],
               taken' = taken \cup {i \in Owed[c] : i <= n}, UNCHANGED <<tailIndex, headIndex>>
        PROVE  SubQ!Next
    <2>1. SubQ!MoveOut(c)
      <3>1. /\ n \in AbstractOwed[c]
            /\ AbstractOwed' = [AbstractOwed EXCEPT ![c] = AbstractOwed[c] \ {i \in AbstractOwed[c] : i <= n}]
            /\ taken' = taken \cup {i \in AbstractOwed[c] : i <= n}
        BY <1>4
      <3> QED BY <1>4, <3>1 DEF SubQ!MoveOut, AbstractOwed
    <2> QED BY <2>1 DEF SubQ!Next
  <1> QED BY <1>1, <1>2, <1>3, <1>4

LEMMA HeadAtTail == CountersInv => headIndex <= tailIndex
  <1> SUFFICES ASSUME CountersInv PROVE headIndex <= tailIndex
    OBVIOUS
  <1>1. PICK a \in Nat : Gone = headIndex + a
    BY ClaimSums DEF Gone, CountersInv
  <1> QED BY <1>1 DEF CountersInv, Ahead, ClaimInv

\* Positions are taken.
LEMMA GiveStep ==
  ASSUME CountersInv, CountersInv', Walking, NEW c \in Consumers, Take(c), UNCHANGED <<taken, limit>>,
         hand' = [hand EXCEPT ![c] = [NoWalk EXCEPT !.at = "index", !.i = headIndex]]
  PROVE  [SubQ!Next]_(SubQ!subQueueVars)
  <1>1. /\ Walking' /\ headIndex < headIndex' /\ headIndex' \in Int /\ tailIndex' = tailIndex
        /\ \A d \in Consumers : d /= c => Owes(d)' = Owes(d)
        /\ Owes(c) = {} /\ Owes(c)' = headIndex .. headIndex' - 1
    BY TakeWalks
  <1>2. AbstractOwed = Owed /\ AbstractOwed' = Owed'
    <2>1. Walks /\ Walks'
      BY <1>1 DEF Walking
    <2>2. (CountersInv /\ Walks => AbstractOwed = Owed)'
      BY OwedIs, PTL
    <2> QED BY <2>1, <2>2, OwedIs
  <1>3. headIndex' <= tailIndex /\ headIndex' > headIndex
    <2>1. (CountersInv => headIndex <= tailIndex)'
      BY HeadAtTail, PTL
    <2>2. headIndex \in Int
      BY DEF CountersInv, ClaimInv
    <2> QED BY <1>1, <2>1, <2>2
  <1>4. Owed[c] = {} /\ Owed' = [Owed EXCEPT ![c] = headIndex .. headIndex' - 1]
    BY <1>1 DEF Owed
  <1> QED BY <1>1, <1>2, <1>3, <1>4, SubNext

\* The elements in a block are moved out.
LEMMA MoveStep ==
  ASSUME CountersInv, CountersInv', Walking, NEW c \in Consumers, NEW h \in HandRecords, hand' = [hand EXCEPT ![c] = h],
         UNCHANGED <<claim, headIndex, tailIndex, limit>>, h.i = hand[c].i, h.at \in MovedAt, hand[c].at \notin MovedAt,
         hand[c].at /= "idle", taken' = taken \cup Here(c)
  PROVE  Walking' /\ [SubQ!Next]_(SubQ!subQueueVars)
  <1>1. h.at /= "idle" /\ Walks /\ claim[c].at = "owner"
    BY DEF MovedAt, Walking, Walks
  <1>2. /\ Walks' /\ Outside' /\ hand'[c] = h /\ Here(c)' = Here(c) /\ Rest(c)' = Rest(c)
        /\ \A d \in Consumers : d /= c => Owes(d)' = Owes(d)
    BY <1>1, PlaceWalks
  <1>3. AbstractOwed = Owed /\ AbstractOwed' = Owed'
    <2>1. (CountersInv /\ Walks => AbstractOwed = Owed)'
      BY OwedIs, PTL
    <2> QED BY <1>1, <1>2, <2>1, OwedIs
  <1>4. Owes(c) = Rest(c) /\ Owes(c)' = Rest(c) \ Here(c)
    BY <1>2 DEF Owes
  <1>5. PICK i \in Int, e \in Int, n \in Int : i = hand[c].i /\ e = End(c) /\ n = NextHere(c) /\ i < e /\ i < n
    BY <1>1, HereIs DEF Walks
  <1>6. PICK m \in Int : m = (IF e < n THEN e ELSE n) - 1
    BY <1>5
  <1>7. \A j \in Int : (j \in Rest(c) <=> i <= j /\ j < e) /\ (j \in Here(c) <=> i <= j /\ j < e /\ j < n)
    BY <1>1, <1>5, HereIs, RestIs
  <1>8. m \in Rest(c) /\ Here(c) = {j \in Rest(c) : j <= m}
    <2>1. m \in Rest(c)
      BY <1>5, <1>6, <1>7
    <2>2. Here(c) \subseteq Int /\ Rest(c) \subseteq Int
      BY <1>1, HereIs, RestIs
    <2>3. \A j \in Int : j \in Here(c) <=> j \in Rest(c) /\ j <= m
      BY <1>5, <1>6, <1>7
    <2> QED BY <2>1, <2>2, <2>3
  <1>9. Owed[c] = Rest(c) /\ Owed' = [Owed EXCEPT ![c] = Owed[c] \ {j \in Owed[c] : j <= m}]
    BY <1>2, <1>4, <1>8 DEF Owed
  <1>10. taken' = taken \cup {j \in Owed[c] : j <= m} /\ m \in Owed[c]
    BY <1>8, <1>9
  <1>11. [SubQ!Next]_(SubQ!subQueueVars)
    BY <1>3, <1>9, <1>10, SubNext
  <1> QED BY <1>2, <1>11 DEF Walking

\* Nothing is taken, given or moved out; the tail may advance.
LEMMA QuietStep ==
  ASSUME CountersInv, CountersInv', Walking, Walking', tailIndex <= tailIndex', headIndex' = headIndex, taken' = taken,
         \A d \in Consumers : Owes(d)' = Owes(d)
  PROVE  [SubQ!Next]_(SubQ!subQueueVars)
  <1>1. AbstractOwed = Owed /\ AbstractOwed' = Owed'
    <2>1. Walks /\ Walks'
      BY DEF Walking
    <2>2. (CountersInv /\ Walks => AbstractOwed = Owed)'
      BY OwedIs, PTL
    <2> QED BY <2>1, <2>2, OwedIs
  <1>2. Owed' = Owed
    BY DEF Owed
  <1>3. tailIndex' = tailIndex \/ tailIndex' > tailIndex
    BY DEF CountersInv, ClaimInv
  <1> QED BY <1>1, <1>2, <1>3, SubNext

\* dequeue up to headIndex.fetch_add, by what it does to the walks.
LEMMA ClaimIs ==
  ASSUME CountersInv, Walking, NEW c \in Consumers, Claim(c)
  PROVE  /\ UNCHANGED <<pool, tailBlock, cell, prod, taken, limit>>
         /\ \/ /\ (\E max \in 1 .. MaxTake : Look(c, max)) \/ Reserve(c) \/ Confirm(c) \/ Refund(c)
               /\ hand' = hand
            \/ Take(c) /\ hand' = [hand EXCEPT ![c] = [NoWalk EXCEPT !.at = "index", !.i = headIndex]]
  <1>1. UNCHANGED <<pool, tailBlock, cell, prod, taken, limit>>
    BY DEF Claim
  <1>2. hand' = IF claim'[c].at = "owner"
                THEN [hand EXCEPT ![c] = [NoWalk EXCEPT !.at = "index", !.i = headIndex]] ELSE hand
    BY DEF Claim
  <1>3. ClaimInv /\ claim \in [Consumers -> ClaimRecords]
    BY DEF CountersInv, ClaimInv
  <1>4. ASSUME NEW max \in 1 .. MaxTake, Look(c, max) PROVE claim'[c].at /= "owner"
    <2>1. PICK y \in ClaimRecords : claim' = [claim EXCEPT ![c] = y] /\ y.at = "reserve"
      BY <1>3, <1>4, LookClaim
    <2> QED BY <1>3, <2>1
  <1>5. ASSUME Reserve(c) PROVE claim'[c].at /= "owner"
    <2>1. PICK y \in ClaimRecords : claim' = [claim EXCEPT ![c] = y] /\ y.at = "confirm"
      BY <1>3, <1>5, ReserveClaim
    <2> QED BY <1>3, <2>1
  <1>6. ASSUME Confirm(c) PROVE claim'[c].at /= "owner"
    <2>1. PICK y \in ClaimRecords : claim' = [claim EXCEPT ![c] = y] /\ y.at \in {"refund", "take"}
      BY <1>3, <1>6, ConfirmClaim
    <2> QED BY <1>3, <2>1
  <1>7. ASSUME Refund(c) PROVE claim'[c].at /= "owner"
    <2>1. PICK y \in ClaimRecords : claim' = [claim EXCEPT ![c] = y] /\ y.at \in {"idle", "take"}
      BY <1>3, <1>7, RefundClaim
    <2> QED BY <1>3, <2>1
  <1>8. ASSUME Take(c) PROVE claim'[c].at = "owner"
    <2>1. PICK y \in ClaimRecords : claim' = [claim EXCEPT ![c] = y] /\ y.at = "owner"
      BY <1>3, <1>8, TakeClaim
    <2> QED BY <1>3, <2>1
  <1>9. (\E max \in 1 .. MaxTake : Look(c, max)) \/ Reserve(c) \/ Confirm(c) \/ Refund(c) \/ Take(c)
    BY DEF Claim
  <1> QED BY <1>1, <1>2, <1>4, <1>5, <1>6, <1>7, <1>8, <1>9

-----------------------------------------------------------------------------
(* Block indexes of an explicit producer.  Where a block's entry is follows from the block's number  *)
(* and the phase of the index, from whichever slot a consumer counts.                                *)

\* Blocks of this behaviour, and the one that was emptied before it.
Numbers == Number(limit - MaxPut) - 1 .. Number(limit - 1)

Entries == [base : Int, block : Blocks \cup {None}]
Indexes == {ix \in [size : Nat \ {0}, front : Nat, entries : UNION {[0 .. m - 1 -> Entries] : m \in Nat}] :
              ix.front < ix.size /\ ix.entries \in [0 .. ix.size - 1 -> Entries]}
Newest(ixs) == ixs[Len(ixs)]
SlotIn(ix, p, q) == (q + p) % ix.size
HomeIn(ixs, p, q) == Newest(ixs).entries[SlotIn(Newest(ixs), p, q)].block
Stands(e, q) == e.block \in Blocks /\ e.base = First(q)
InPhase(ix, p) ==
  \A s \in 0 .. ix.size - 1 : ix.entries[s].block /= None =>
    \E q \in Numbers : ix.entries[s].base = First(q) /\ s = SlotIn(ix, p, q)

\* The newest index has the entries of the blocks lo to n - 1, and every index is in phase.
IndexOK(ixs, p, lo, n) ==
  /\ ixs \in Seq(Indexes) /\ Len(ixs) >= 1
  /\ p \in Int /\ lo \in Int /\ n \in Int /\ lo <= n /\ n - lo <= Newest(ixs).size
  /\ \A j \in 1 .. Len(ixs) : \E r \in Int : InPhase(ixs[j], r)
  /\ InPhase(Newest(ixs), p)
  /\ \A q \in lo .. n - 1 : Stands(Newest(ixs).entries[SlotIn(Newest(ixs), p, q)], q)

\* An index as a record.
LEMMA IndexFields ==
  ASSUME NEW ix \in Indexes
  PROVE  /\ ix.size \in Nat \ {0} /\ ix.front \in 0 .. ix.size - 1 /\ ix.entries \in [0 .. ix.size - 1 -> Entries]
         /\ ix = [size |-> ix.size, front |-> ix.front, entries |-> ix.entries]
         /\ \A p, q \in Int : SlotIn(ix, p, q) \in 0 .. ix.size - 1
  <1>1. /\ ix.size \in Nat \ {0} /\ ix.front \in 0 .. ix.size - 1 /\ ix.entries \in [0 .. ix.size - 1 -> Entries]
        /\ ix = [size |-> ix.size, front |-> ix.front, entries |-> ix.entries]
    BY DEF Indexes
  <1>2. ASSUME NEW p \in Int, NEW q \in Int PROVE SlotIn(ix, p, q) \in 0 .. ix.size - 1
    BY <1>1, Remains DEF SlotIn
  <1> QED BY <1>1, <1>2

LEMMA IsIndex ==
  ASSUME NEW m \in Nat \ {0}, NEW f \in 0 .. m - 1, NEW e \in [0 .. m - 1 -> Entries]
  PROVE  [size |-> m, front |-> f, entries |-> e] \in Indexes
  BY DEF Indexes

LEMMA NewestIs == ASSUME NEW ixs \in Seq(Indexes), Len(ixs) >= 1 PROVE Newest(ixs) \in Indexes /\ Len(ixs) \in 1 .. Len(ixs)
  BY DEF Newest

\* From any slot in use the distance in blocks leads to the slot of a block that has one.
LEMMA SlotFound ==
  ASSUME NEW ix \in Indexes, NEW p \in Int, InPhase(ix, p), NEW q \in Int, NEW s \in 0 .. ix.size - 1,
         Stands(ix.entries[s], q), NEW x \in 0 .. ix.size - 1, ix.entries[x].block /= None
  PROVE  /\ s = SlotIn(ix, p, q) /\ q \in Numbers
         /\ \E r \in Numbers : ix.entries[x].base = First(r) /\ s = (x + (q - r)) % ix.size
  <1>1. PICK m \in Nat \ {0} : m = ix.size
    BY IndexFields
  <1>2. PICK t \in Numbers : ix.entries[s].base = First(t) /\ s = SlotIn(ix, p, t)
    BY NoneAssumption DEF InPhase, Stands
  <1>3. PICK r \in Numbers : ix.entries[x].base = First(r) /\ x = SlotIn(ix, p, r)
    BY DEF InPhase
  <1>4. t \in Int /\ r \in Int
    BY DEF Numbers
  <1>5. t = q
    BY <1>2, <1>4, FirstOnce DEF Stands
  <1>6. (((r + p) % m) + (q - r)) % m = (q + p) % m
    <2>1. r + p \in Int /\ q - r \in Int /\ (r + p) + (q - r) = q + p
      BY <1>4
    <2>2. (((r + p) % m) + (q - r)) % m = ((r + p) + (q - r)) % m
      BY <2>1, AddRemainder, Zenon
    <2> QED BY <2>1, <2>2, Zenon
  <1>7. SlotIn(ix, p, q) = (q + p) % m /\ SlotIn(ix, p, r) = (r + p) % m
    BY <1>1 DEF SlotIn
  <1>8. s = (x + (q - r)) % ix.size
    <2>1. s = (q + p) % m /\ x = (r + p) % m
      BY <1>2, <1>3, <1>5, <1>7, Zenon
    <2>2. (x + (q - r)) % m = (q + p) % m
      BY <1>6, <2>1, Zenon
    <2> QED BY <1>1, <2>1, <2>2, Zenon
  <1> QED BY <1>2, <1>3, <1>5, <1>8

\* The next block's slot is the next one.
LEMMA NextSlot ==
  ASSUME NEW ix \in Indexes, NEW p \in Int, InPhase(ix, p), NEW q \in Int, NEW s \in 0 .. ix.size - 1,
         NEW t \in 0 .. ix.size - 1, Stands(ix.entries[s], q), Stands(ix.entries[t], q + 1)
  PROVE  t = (s + 1) % ix.size
  <1>1. PICK r \in Numbers : ix.entries[s].base = First(r) /\ t = (s + ((q + 1) - r)) % ix.size
    BY SlotFound, NoneAssumption DEF Stands
  <1>2. r \in Int /\ First(r) = First(q)
    BY <1>1 DEF Numbers, Stands
  <1>3. r = q
    BY <1>2, FirstOnce
  <1> QED BY <1>1, <1>3

\* A phase a whole index further back is the same.
LEMMA PhaseWraps ==
  ASSUME NEW ixs, NEW p, NEW lo, NEW n, IndexOK(ixs, p, lo, n), NEW r \in {p, p - Newest(ixs).size}
  PROVE  IndexOK(ixs, r, lo, n) /\ \A q \in Int : SlotIn(Newest(ixs), r, q) = SlotIn(Newest(ixs), p, q)
  <1>1. PICK ix \in Indexes : ix = Newest(ixs)
    BY NewestIs DEF IndexOK
  <1>2. PICK m \in Nat \ {0} : m = ix.size
    BY IndexFields
  <1>3. ASSUME NEW q \in Int PROVE SlotIn(ix, p - m, q) = SlotIn(ix, p, q)
    <2>1. q + p \in Int /\ q + (p - m) = (q + p) - m
      BY DEF IndexOK
    <2>2. ((q + p) - m) % m = (q + p) % m
      BY <2>1, Remains
    <2> QED BY <1>2, <2>1, <2>2 DEF SlotIn
  <1>4. \A q \in Int : SlotIn(ix, r, q) = SlotIn(ix, p, q)
    BY <1>1, <1>2, <1>3
  <1>5. r \in Int
    BY <1>1, <1>2 DEF IndexOK
  <1>6. InPhase(ix, r)
    BY <1>1, <1>4 DEF IndexOK, InPhase, Numbers
  <1>7. \A q \in lo .. n - 1 : Stands(ix.entries[SlotIn(ix, r, q)], q)
    BY <1>1, <1>4 DEF IndexOK
  <1> QED BY <1>1, <1>4, <1>5, <1>6, <1>7 DEF IndexOK

\* An index new like ixs, but for the entry of block n in slot f.
OneMore(ixs, new, p, low, n, f, b) ==
  /\ IndexOK(new, p, low, n + 1) /\ Newest(new).size = Newest(ixs).size
  /\ Newest(new).front = Newest(ixs).front
  /\ \A q \in low .. n - 1 : HomeIn(new, p, q) = HomeIn(ixs, p, q)
  /\ HomeIn(new, p, n) = b
  /\ Len(new) = Len(ixs) /\ \A j \in 1 .. Len(ixs) - 1 : new[j] = ixs[j]
  /\ Newest(new).entries[f].block = b
  /\ \A s \in 0 .. Newest(ixs).size - 1 : s /= f => Newest(new).entries[s] = Newest(ixs).entries[s]

\* The entry of one more block, in the slot after the last; the oldest one may go.
LEMMA PutIndex ==
  ASSUME NEW ixs, NEW p, NEW lo, NEW n, IndexOK(ixs, p, lo, n), n \in Numbers,
         NEW low \in {lo, lo + 1}, low <= n, n + 1 - low <= Newest(ixs).size, NEW b \in Blocks, NEW f, NEW new,
         f = SlotIn(Newest(ixs), p, n), new = Explicit!PutEntry(ixs, f, First(n), b)
  PROVE  OneMore(ixs, new, p, low, n, f, b)
  <1>1. PICK ix \in Indexes : ix = Newest(ixs)
    BY NewestIs DEF IndexOK
  <1>2. PICK m \in Nat \ {0} : m = ix.size /\ ix.entries \in [0 .. m - 1 -> Entries] /\ ix.front \in 0 .. m - 1
    BY IndexFields
  <1>3. PICK k : k = Len(ixs) /\ k \in 1 .. Len(ixs) /\ ix = ixs[k]
    BY <1>1, NewestIs DEF IndexOK, Newest
  <1>4. n \in Int /\ p \in Int /\ lo \in Int /\ low \in Int /\ f \in 0 .. m - 1
    <2>1. n \in Int /\ p \in Int /\ lo \in Int
      BY DEF IndexOK
    <2>2. f \in 0 .. ix.size - 1
      BY <1>1, <2>1, IndexFields
    <2> QED BY <1>2, <2>1, <2>2
  <1>5. PICK e : e = [base |-> First(n), block |-> b]
    OBVIOUS
  <1>6. e \in Entries /\ Stands(e, n)
    BY <1>4, <1>5, FirstNumber DEF Entries, Stands
  <1>7. PICK g : g = [ix.entries EXCEPT ![f] = e]
    OBVIOUS
  <1>8. g \in [0 .. m - 1 -> Entries] /\ g[f] = e /\ \A s \in 0 .. m - 1 : s /= f => g[s] = ix.entries[s]
    BY <1>2, <1>4, <1>6, <1>7
  <1>9. PICK y : y = [size |-> m, front |-> ix.front, entries |-> g]
    OBVIOUS
  <1>10. y \in Indexes /\ y.size = m /\ y.front = ix.front /\ y.entries = g
    BY <1>2, <1>8, <1>9, IsIndex
  <1>11. new = [ixs EXCEPT ![k] = y]
    <2>1. ix = [size |-> ix.size, front |-> ix.front, entries |-> ix.entries]
      BY IndexFields
    <2>2. [ix EXCEPT !.entries = g] = y
      BY <1>2, <1>9, <2>1
    <2>3. new = [ixs EXCEPT ![k] = [ixs[k] EXCEPT !.entries = [ixs[k].entries EXCEPT ![f] = e]]]
      BY <1>3, <1>5 DEF Explicit!PutEntry
    <2> QED BY <1>3, <1>7, <2>2, <2>3
  <1>12. ixs \in Seq(Indexes) /\ k = Len(ixs) /\ k \in Nat
    BY <1>3 DEF IndexOK
  <1>13. /\ new \in Seq(Indexes) /\ Len(new) = k /\ new[k] = y
         /\ \A j \in 1 .. k : j /= k => new[j] = ixs[j]
    BY <1>3, <1>10, <1>11, <1>12
  <1>14. Newest(new) = y
    BY <1>13 DEF Newest
  <1>15. \A q : SlotIn(y, p, q) = SlotIn(ix, p, q)
    BY <1>2, <1>10 DEF SlotIn
  <1>16. InPhase(y, p)
    <2> SUFFICES ASSUME NEW s \in 0 .. m - 1, g[s].block /= None
                 PROVE  \E q \in Numbers : g[s].base = First(q) /\ s = SlotIn(y, p, q)
      BY <1>10 DEF InPhase
    <2>1. CASE s = f
      BY <1>1, <1>6, <1>8, <1>15, <2>1 DEF Stands
    <2>2. CASE s /= f
      <3>1. g[s] = ix.entries[s] /\ InPhase(ix, p)
        BY <1>1, <1>8, <2>2 DEF IndexOK
      <3> QED BY <1>2, <1>15, <3>1 DEF InPhase
    <2> QED BY <2>1, <2>2
  <1>17. ASSUME NEW q \in low .. n - 1
         PROVE  g[SlotIn(ix, p, q)] = ix.entries[SlotIn(ix, p, q)] /\ q \in lo .. n - 1
    <2>1. q \in Int /\ q + p \in Int /\ n + p \in Int /\ n - q >= 1 /\ n - q < m
      <3>1. n + 1 - low <= m
        BY <1>1, <1>2
      <3>2. low <= q /\ q <= n - 1 /\ q \in Int
        BY <1>4
      <3>3. n \in Int /\ p \in Int /\ low \in Int /\ m \in Int
        BY <1>2, <1>4
      <3> QED BY <3>1, <3>2, <3>3
    <2>2. (q + p) % m /= (n + p) % m
      <3>1. PICK u \in Int, v \in Int : u = q + p /\ v = n + p
        BY <2>1
      <3>2. u % m = v % m => u = v \/ u - v >= m \/ v - u >= m
        BY Remains
      <3>3. v - u = n - q
        BY <1>4, <2>1, <3>1
      <3> QED BY <1>2, <2>1, <3>1, <3>2, <3>3
    <2>3. SlotIn(ix, p, q) \in 0 .. m - 1 /\ SlotIn(ix, p, q) /= f
      BY <1>1, <1>2, <1>4, <2>1, <2>2, IndexFields DEF SlotIn
    <2> QED BY <1>4, <1>8, <2>3
  <1>18. \A q \in low .. n : Stands(y.entries[SlotIn(y, p, q)], q)
    <2> SUFFICES ASSUME NEW q \in low .. n PROVE Stands(g[SlotIn(ix, p, q)], q)
      BY <1>10, <1>15
    <2>1. CASE q = n
      BY <1>1, <1>6, <1>8, <2>1
    <2>2. CASE q /= n
      <3>1. q \in low .. n - 1
        BY <1>4, <2>2
      <3>2. Stands(ix.entries[SlotIn(ix, p, q)], q)
        BY <1>1, <1>17, <3>1 DEF IndexOK
      <3> QED BY <1>17, <3>1, <3>2
    <2> QED BY <2>1, <2>2
  <1>19. IndexOK(new, p, low, n + 1)
    <2>1. \A j \in 1 .. Len(new) : \E r \in Int : InPhase(new[j], r)
      BY <1>4, <1>12, <1>13, <1>16 DEF IndexOK
    <2>2. n + 1 - low <= Newest(new).size /\ low <= n + 1 /\ n + 1 \in Int
      BY <1>1, <1>2, <1>4, <1>10, <1>14
    <2>3. \A q \in low .. (n + 1) - 1 : Stands(y.entries[SlotIn(y, p, q)], q)
      BY <1>4, <1>18
    <2>4. Len(new) >= 1 /\ new \in Seq(Indexes)
      BY <1>3, <1>12, <1>13
    <2>5. /\ InPhase(Newest(new), p)
          /\ \A q \in low .. (n + 1) - 1 : Stands(Newest(new).entries[SlotIn(Newest(new), p, q)], q)
      BY <1>14, <1>16, <2>3, Zenon
    <2>6. PICK up : up = n + 1
      OBVIOUS
    <2>7. IndexOK(new, p, low, up)
      <3>1. new \in Seq(Indexes) /\ Len(new) >= 1
        BY <2>4
      <3>2. p \in Int /\ low \in Int /\ up \in Int /\ low <= up /\ up - low <= Newest(new).size
        BY <1>4, <2>2, <2>6
      <3>3. \A j \in 1 .. Len(new) : \E r \in Int : InPhase(new[j], r)
        BY <2>1
      <3>4. InPhase(Newest(new), p)
        BY <2>5
      <3>5. \A q \in low .. up - 1 : Stands(Newest(new).entries[SlotIn(Newest(new), p, q)], q)
        BY <2>5, <2>6
      <3> QED BY <3>1, <3>2, <3>3, <3>4, <3>5 DEF IndexOK
    <2> QED BY <2>6, <2>7
  <1>20. \A q \in low .. n - 1 : HomeIn(new, p, q) = HomeIn(ixs, p, q)
    BY <1>1, <1>10, <1>14, <1>15, <1>17 DEF HomeIn
  <1>21. HomeIn(new, p, n) = b
    BY <1>1, <1>5, <1>8, <1>10, <1>14, <1>15 DEF HomeIn
  <1>22. \A j \in 1 .. Len(ixs) - 1 : new[j] = ixs[j]
    BY <1>12, <1>13
  <1>23. /\ Newest(new).size = ix.size /\ Newest(new).front = ix.front /\ Newest(new).entries[f].block = b
         /\ \A s \in 0 .. ix.size - 1 : s /= f => Newest(new).entries[s] = ix.entries[s]
    <2>1. y.size = ix.size /\ y.front = ix.front
      BY <1>2, <1>10
    <2>2. y.entries[f].block = b
      BY <1>5, <1>8, <1>10
    <2>3. \A s \in 0 .. ix.size - 1 : s /= f => y.entries[s] = ix.entries[s]
      BY <1>2, <1>8, <1>10
    <2> QED BY <1>14, <2>1, <2>2, <2>3
  <1>24. Len(new) = Len(ixs)
    BY <1>12, <1>13
  <1> QED BY <1>1, <1>19, <1>20, <1>21, <1>22, <1>23, <1>24 DEF OneMore

\* An index of twice the slots, with the entries in use from slot 0 on.
Doubled(ixs, p, lo, n, f) ==
  Append(ixs, [size |-> 2 * Newest(ixs).size, front |-> f,
    entries |-> [s \in 0 .. 2 * Newest(ixs).size - 1 |->
      IF s < n - lo THEN Newest(ixs).entries[(p + lo + s) % Newest(ixs).size] ELSE [base |-> 0, block |-> None]]])

LEMMA GrowIndex ==
  ASSUME NEW ixs, NEW p, NEW lo, NEW n, IndexOK(ixs, p, lo, n), NEW m, m = Newest(ixs).size,
         NEW f, f \in 0 .. 2 * m - 1, NEW new, new = Doubled(ixs, p, lo, n, f)
  PROVE  /\ IndexOK(new, -lo, lo, n) /\ Newest(new).size = 2 * m /\ Newest(new).front = f
         /\ \A q \in lo .. n - 1 : HomeIn(new, -lo, q) = HomeIn(ixs, p, q)
         /\ Len(new) = Len(ixs) + 1 /\ \A j \in 1 .. Len(ixs) : new[j] = ixs[j]
         /\ \A s \in 0 .. n - lo - 1 : Newest(new).entries[s].block \in Blocks
  <1>1. PICK ix \in Indexes : ix = Newest(ixs)
    BY NewestIs DEF IndexOK
  <1>2. m \in Nat \ {0} /\ m = ix.size /\ ix.entries \in [0 .. m - 1 -> Entries]
    BY <1>1, IndexFields
  <1>3. p \in Int /\ lo \in Int /\ n \in Int /\ lo <= n /\ n - lo <= m /\ ixs \in Seq(Indexes) /\ Len(ixs) >= 1
    BY <1>1, <1>2 DEF IndexOK
  <1>4. PICK d \in Nat : d = n - lo /\ d <= m
    BY <1>3
  <1>5. PICK g : g = [s \in 0 .. 2 * m - 1 |-> IF s < d THEN ix.entries[(p + lo + s) % m] ELSE [base |-> 0, block |-> None]]
    OBVIOUS
  <1>6. ASSUME NEW s \in 0 .. d - 1
        PROVE  g[s] = ix.entries[SlotIn(ix, p, lo + s)] /\ Stands(g[s], lo + s) /\ lo + s \in Numbers /\ g[s] \in Entries
    <2>0. m \in Int /\ m >= 1 /\ n \in Int /\ lo \in Int /\ d = n - lo /\ d <= m
      BY <1>2, <1>3, <1>4
    <2>1. s \in 0 .. 2 * m - 1 /\ s < d /\ s \in 0 .. n - lo - 1
      BY <2>0
    <2>2. g[s] = ix.entries[(p + lo + s) % m]
      BY <1>1, <1>5, <2>1
    <2>3. (lo + s) + p = p + lo + s /\ lo + s \in lo .. n - 1 /\ lo + s \in Int
      BY <1>3, <2>1
    <2>4. g[s] = ix.entries[SlotIn(ix, p, lo + s)]
      BY <1>2, <2>2, <2>3 DEF SlotIn
    <2>5. Stands(g[s], lo + s) /\ InPhase(ix, p)
      BY <1>1, <2>3, <2>4 DEF IndexOK
    <2>6. SlotIn(ix, p, lo + s) \in 0 .. ix.size - 1
      BY <1>3, <2>3, IndexFields
    <2>7. lo + s \in Numbers
      <3>1. PICK v \in 0 .. ix.size - 1, q \in Int : v = SlotIn(ix, p, lo + s) /\ q = lo + s
        BY <2>3, <2>6
      <3>2. Stands(ix.entries[v], q)
        BY <2>4, <2>5, <3>1
      <3>3. ix.entries[v].block /= None
        BY <3>2, NoneAssumption DEF Stands
      <3>4. q \in Numbers
        BY <1>3, <2>5, <3>2, <3>3, SlotFound
      <3> QED BY <3>1, <3>4
    <2> QED BY <1>2, <2>4, <2>5, <2>6, <2>7
  <1>7. \A s \in 0 .. 2 * m - 1 : ~(s < d) => g[s] = [base |-> 0, block |-> None]
    BY <1>5
  <1>8. g \in [0 .. 2 * m - 1 -> Entries]
    <2>1. [base |-> 0, block |-> None] \in Entries
      BY DEF Entries
    <2>2. \A s \in 0 .. 2 * m - 1 : s < d => s \in 0 .. d - 1
      BY <1>4
    <2>3. \A s \in 0 .. 2 * m - 1 : g[s] \in Entries
      BY <1>6, <1>7, <2>1, <2>2
    <2> QED BY <1>5, <2>3
  <1>9. PICK y : y = [size |-> 2 * m, front |-> f, entries |-> g]
    OBVIOUS
  <1>10. 2 * m \in Nat \ {0}
    BY <1>2
  <1>11. y \in Indexes /\ y.size = 2 * m /\ y.front = f /\ y.entries = g
    BY <1>8, <1>9, <1>10, IsIndex
  <1>12. new = Append(ixs, y)
    BY <1>1, <1>2, <1>4, <1>5, <1>9 DEF Doubled
  <1>13. /\ new \in Seq(Indexes) /\ Len(new) = Len(ixs) + 1 /\ new[Len(ixs) + 1] = y
         /\ \A j \in 1 .. Len(ixs) : new[j] = ixs[j]
    BY <1>3, <1>11, <1>12
  <1>14. Newest(new) = y
    BY <1>13 DEF Newest
  <1>15. ASSUME NEW s \in 0 .. d - 1 PROVE SlotIn(y, -lo, lo + s) = s
    <2>1. PICK w \in Nat \ {0} : w = 2 * m
      BY <1>10
    <2>2. (lo + s) + (-lo) = s /\ s \in 0 .. w - 1 /\ s \in Int
      <3>1. m \in Int /\ m >= 1 /\ lo \in Int /\ d \in Int /\ d <= m /\ w = 2 * m
        BY <1>2, <1>3, <1>4, <2>1
      <3> QED BY <3>1
    <2>3. s % w = s
      BY <2>2, Remains
    <2> QED BY <1>11, <2>1, <2>2, <2>3 DEF SlotIn
  <1>16. InPhase(y, -lo)
    <2> SUFFICES ASSUME NEW s \in 0 .. 2 * m - 1, g[s].block /= None
                 PROVE  \E q \in Numbers : g[s].base = First(q) /\ s = SlotIn(y, -lo, q)
      BY <1>11 DEF InPhase
    <2>1. s \in 0 .. d - 1
      BY <1>4, <1>7
    <2> QED BY <1>6, <1>15, <2>1 DEF Stands
  <1>17. ASSUME NEW q \in lo .. n - 1
         PROVE  Stands(y.entries[SlotIn(y, -lo, q)], q) /\ y.entries[SlotIn(y, -lo, q)] = ix.entries[SlotIn(ix, p, q)]
    <2>1. PICK s \in 0 .. d - 1 : q = lo + s
      <3>1. q - lo \in 0 .. d - 1 /\ q = lo + (q - lo)
        BY <1>3, <1>4
      <3> QED BY <3>1
    <2> QED BY <1>6, <1>11, <1>15, <2>1
  <1>18. IndexOK(new, -lo, lo, n)
    <2>1. \A j \in 1 .. Len(new) : \E r \in Int : InPhase(new[j], r)
      <3>1. -lo \in Int
        BY <1>3
      <3>2. \A j \in 1 .. Len(new) : j \in 1 .. Len(ixs) \/ j = Len(ixs) + 1
        BY <1>3, <1>13
      <3> QED BY <1>13, <1>16, <3>1, <3>2 DEF IndexOK
    <2>2. n - lo <= y.size /\ Len(new) >= 1 /\ -lo \in Int
      <3>1. m \in Int /\ m >= 1 /\ n \in Int /\ lo \in Int /\ n - lo <= m /\ Len(ixs) \in Nat
        BY <1>2, <1>3
      <3>2. y.size = 2 * m /\ Len(new) = Len(ixs) + 1
        BY <1>11, <1>13
      <3> QED BY <3>1, <3>2
    <2> QED BY <1>3, <1>13, <1>14, <1>16, <1>17, <2>1, <2>2 DEF IndexOK
  <1>19. \A q \in lo .. n - 1 : HomeIn(new, -lo, q) = HomeIn(ixs, p, q)
    BY <1>1, <1>14, <1>17 DEF HomeIn
  <1>20. \A s \in 0 .. n - lo - 1 : g[s].block \in Blocks
    BY <1>4, <1>6 DEF Stands
  <1> QED BY <1>11, <1>13, <1>14, <1>18, <1>19, <1>20

-----------------------------------------------------------------------------
(* The blocks of an explicit producer: a ring through the homes h[q] of the blocks q from lo to n - 1. *)

Ringed(h, lo, n, rg, pl, tl) ==
  /\ rg \in [Blocks -> Blocks \cup {None}] /\ pl \subseteq Blocks /\ h \in [Int -> Blocks \cup {None}]
  /\ \A q \in lo .. n - 1 : h[q] \in Blocks \ pl
  /\ \A q, r \in lo .. n - 1 : h[q] = h[r] => q = r
  /\ \A q \in lo .. n - 1 : q + 1 < n => rg[h[q]] = h[q + 1]
  /\ lo < n => rg[h[n - 1]] = h[lo]
  /\ tl = IF lo < n THEN h[n - 1] ELSE None

\* The oldest block is used again as the newest.
LEMMA RingReuse ==
  ASSUME NEW lo \in Int, NEW n \in Int, NEW h, NEW rg, NEW pl, NEW tl, Ringed(h, lo, n, rg, pl, tl), lo < n,
         NEW g \in [Int -> Blocks \cup {None}], \A q \in lo + 1 .. n - 1 : g[q] = h[q], g[n] = h[lo]
  PROVE  Ringed(g, lo + 1, n + 1, rg, pl, g[n]) /\ rg[tl] = h[lo]
  <1>1. PICK l \in Int, m \in Int : l = lo + 1 /\ m = n + 1 /\ l < m /\ m - 1 = n
    OBVIOUS
  <1>2. \A q \in l .. n : (q < n => q \in lo .. n - 1 /\ g[q] = h[q]) /\ lo < q
    BY <1>1
  <1>3. n - 1 \in lo .. n - 1 /\ lo \in lo .. n - 1
    OBVIOUS
  <1>4. \A q \in l .. m - 1 : g[q] \in Blocks \ pl
    BY <1>1, <1>2, <1>3 DEF Ringed
  <1>5. ASSUME NEW q \in l .. m - 1, NEW r \in l .. m - 1, g[q] = g[r] PROVE q = r
    <2>1. q \in l .. n /\ r \in l .. n
      BY <1>1
    <2>2. CASE q < n /\ r < n
      BY <1>2, <1>5, <2>1, <2>2 DEF Ringed
    <2>3. CASE q < n /\ r = n
      BY <1>2, <1>3, <1>5, <2>1, <2>3 DEF Ringed
    <2>4. CASE q = n /\ r < n
      <3>1. h[r] = h[lo] /\ r \in lo .. n - 1 /\ lo \in lo .. n - 1 /\ lo < r
        BY <1>2, <1>3, <1>5, <2>1, <2>4
      <3> QED BY <3>1 DEF Ringed
    <2> QED BY <2>1, <2>2, <2>3, <2>4
  <1>6. ASSUME NEW q \in l .. m - 1, q + 1 < m PROVE rg[g[q]] = g[q + 1]
    <2>1. q \in l .. n /\ q < n /\ q + 1 \in l .. n
      BY <1>1, <1>6
    <2>2. CASE q + 1 < n
      BY <1>2, <2>1, <2>2 DEF Ringed
    <2>3. CASE q + 1 = n
      <3>1. q = n - 1
        BY <1>1, <2>3
      <3> QED BY <1>2, <2>1, <2>3, <3>1 DEF Ringed
    <2> QED BY <2>1, <2>2, <2>3
  <1>7. rg[g[m - 1]] = g[l]
    <2>1. g[m - 1] = h[lo]
      BY <1>1
    <2>2. CASE lo + 1 < n
      <3>1. rg[h[lo]] = h[lo + 1] /\ g[l] = h[lo + 1]
        BY <1>1, <1>3, <2>2 DEF Ringed
      <3> QED BY <2>1, <3>1
    <2>3. CASE lo + 1 = n
      <3>1. rg[h[lo]] = h[lo] /\ g[l] = h[lo]
        <4>1. n - 1 = lo
          BY <2>3
        <4> QED BY <1>1, <2>3, <4>1 DEF Ringed
      <3> QED BY <2>1, <3>1
    <2> QED BY <2>2, <2>3
  <1>8. rg[tl] = h[lo]
    BY DEF Ringed
  <1>9. Ringed(g, l, m, rg, pl, g[n])
    BY <1>1, <1>4, <1>5, <1>6, <1>7 DEF Ringed
  <1> QED BY <1>1, <1>8, <1>9

\* The ring with a new block linked in behind the newest one.
Linked(rg, tl, b) == IF tl = None THEN [rg EXCEPT ![b] = b] ELSE [rg EXCEPT ![b] = rg[tl], ![tl] = b]

LEMMA RingNew ==
  ASSUME NEW lo \in Int, NEW n \in Int, NEW h, NEW rg, NEW pl, NEW tl, Ringed(h, lo, n, rg, pl, tl), lo <= n,
         NEW b \in pl, NEW g \in [Int -> Blocks \cup {None}], \A q \in lo .. n - 1 : g[q] = h[q], g[n] = b, NEW new,
         new = Linked(rg, tl, b)
  PROVE  Ringed(g, lo, n + 1, new, pl \ {b}, b)
  <1>1. PICK m \in Int : m = n + 1 /\ lo < m /\ m - 1 = n
    OBVIOUS
  <1>2. b \in Blocks /\ rg \in [Blocks -> Blocks \cup {None}] /\ \A q \in lo .. n - 1 : h[q] \in Blocks /\ h[q] /= b /\ g[q] = h[q]
    BY DEF Ringed
  <1>3. \A q \in lo .. n : q < n => q \in lo .. n - 1
    OBVIOUS
  <1>4. \A q \in lo .. m - 1 : g[q] \in Blocks \ (pl \ {b})
    BY <1>1, <1>2, <1>3 DEF Ringed
  <1>5. ASSUME NEW q \in lo .. m - 1, NEW r \in lo .. m - 1, g[q] = g[r] PROVE q = r
    BY <1>1, <1>2, <1>3, <1>5 DEF Ringed
  <1>6. CASE lo = n
    <2>1. tl = None /\ new = [rg EXCEPT ![b] = b] /\ m - 1 = lo
      BY <1>1, <1>6 DEF Ringed, Linked
    <2>2. new \in [Blocks -> Blocks \cup {None}] /\ new[b] = b
      BY <1>2, <2>1
    <2>3. \A q \in lo .. m - 1 : ~(q + 1 < m)
      BY <1>1, <1>6
    <2>4. Ringed(g, lo, m, new, pl \ {b}, b)
      BY <1>1, <1>4, <1>5, <1>6, <2>1, <2>2, <2>3 DEF Ringed
    <2> QED BY <1>1, <2>4
  <1>7. CASE lo < n
    <2>1. n - 1 \in lo .. n - 1 /\ tl = h[n - 1] /\ rg[tl] = h[lo] /\ lo \in lo .. n - 1
      BY <1>7 DEF Ringed
    <2>2. tl \in Blocks /\ tl /= b /\ tl /= None
      BY <1>2, <2>1, NoneAssumption
    <2>3. new = [rg EXCEPT ![b] = h[lo], ![tl] = b]
      BY <2>1, <2>2 DEF Linked
    <2>4. /\ new \in [Blocks -> Blocks \cup {None}] /\ new[b] = h[lo] /\ new[tl] = b
          /\ \A x \in Blocks : x /= b /\ x /= tl => new[x] = rg[x]
      BY <1>2, <2>1, <2>2, <2>3
    <2>5. ASSUME NEW q \in lo .. m - 1, q + 1 < m PROVE new[g[q]] = g[q + 1]
      <3>1. q \in lo .. n - 1
        BY <1>1, <2>5
      <3>2. CASE q + 1 = n
        <4>1. q = n - 1
          BY <3>1, <3>2
        <4> QED BY <1>2, <2>1, <2>4, <3>1, <3>2, <4>1
      <3>3. CASE q + 1 < n
        <4>1. q + 1 \in lo .. n - 1 /\ q /= n - 1
          BY <3>1, <3>3
        <4>2. h[q] /= tl
          BY <2>1, <3>1, <4>1 DEF Ringed
        <4> QED BY <1>2, <2>4, <3>1, <3>3, <4>1, <4>2 DEF Ringed
      <3> QED BY <3>1, <3>2, <3>3
    <2>6. new[g[m - 1]] = g[lo]
      BY <1>1, <1>2, <2>1, <2>4
    <2>7. Ringed(g, lo, m, new, pl \ {b}, b)
      BY <1>1, <1>4, <1>5, <2>4, <2>5, <2>6 DEF Ringed
    <2> QED BY <1>1, <2>7
  <1> QED BY <1>6, <1>7

-----------------------------------------------------------------------------
(* The slot a consumer computes. *)

LEMMA SignedIs == ASSUME NEW d \in Int, InWindow(d) PROVE Signed(d) = d
  <1>1. PICK h \in Nat : h = W \div 2 /\ W = h + h /\ h > 0
    <2>1. W \in Nat /\ W > 0 /\ W % 2 = 0
      BY WAssumption
    <2> QED BY <2>1
  <1>2. PICK w \in Nat \ {0} : w = W
    BY WAssumption
  <1>3. -h < d /\ d < h
    BY <1>1 DEF InWindow
  <1>4. PICK x \in Int : x = d + h /\ x \in 0 .. w - 1
    BY <1>1, <1>2, <1>3
  <1>5. x % w = x
    BY <1>4, Remains
  <1>6. x - h = d
    BY <1>4
  <1> QED BY <1>1, <1>2, <1>4, <1>5, <1>6 DEF Signed

\* For such a distance the comparison modulo the range is the one of the numbers.
LEMMA CircLessIs == ASSUME NEW a \in Int, NEW b \in Int, InWindow(a - b) PROVE CircLess(a, b) <=> a < b
  <1>1. PICK h \in Nat : h = W \div 2 /\ W = h + h /\ h > 0
    <2>1. W \in Nat /\ W > 0 /\ W % 2 = 0
      BY WAssumption
    <2> QED BY <2>1
  <1>2. PICK w \in Nat \ {0}, d \in Int : w = W /\ d = a - b
    BY WAssumption
  <1>3. -h < d /\ d < h /\ w = h + h
    BY <1>1, <1>2 DEF InWindow
  <1>4. CASE d >= 0
    <2>1. d \in 0 .. w - 1
      BY <1>3, <1>4
    <2>2. d % w = d
      BY <2>1, Remains
    <2> QED BY <1>1, <1>2, <1>3, <1>4, <2>2 DEF CircLess
  <1>5. CASE d < 0
    <2>1. PICK x \in Int : x = d + w /\ x \in 0 .. w - 1 /\ x - w = d /\ x > h
      BY <1>3, <1>5
    <2>2. d % w = x
      BY <2>1, Remains
    <2> QED BY <1>1, <1>2, <1>5, <2>1, <2>2 DEF CircLess
  <1> QED BY <1>4, <1>5

\* Where the blocks of a behaviour begin.
LEMMA BasesIn ==
  ASSUME limit \in Int, Boundary(Start), NEW x \in Numbers
  PROVE  x \in Int /\ First(x) \in Int /\ Start - BlockSize <= First(x) /\ First(x) <= limit - 1
  <1>1. MaxPut \in Nat /\ Start \in Int /\ Start = limit - MaxPut /\ BlockSize \in Nat \ {0}
    BY BoundNumbers, BlockAssumption DEF Start
  <1>2. PICK lo \in Int, hi \in Int : lo = Number(Start) /\ hi = Number(limit - 1)
    BY <1>1, Division
  <1>3. First(lo) = Start /\ First(hi) <= limit - 1
    BY <1>1, <1>2, NextNumber, NumberIs
  <1>4. x \in Int /\ lo - 1 <= x /\ x <= hi
    BY <1>1, <1>2 DEF Numbers
  <1>5. PICK fx \in Int, fl \in Int, fh \in Int, fm \in Int :
           fx = First(x) /\ fl = First(lo) /\ fh = First(hi) /\ fm = First(lo - 1)
    BY <1>2, <1>4, FirstNumber
  <1>6. fl = fm + BlockSize
    <2>1. (lo - 1) + 1 = lo /\ lo - 1 \in Int
      BY <1>2
    <2> QED BY <1>5, <2>1, FirstOrder
  <1>7. fm <= fx
    <2>1. lo - 1 < x => fm + BlockSize <= fx
      BY <1>4, <1>5, FirstOrder
    <2>2. lo - 1 = x => fm = fx
      BY <1>5
    <2> QED BY <1>1, <1>4, <1>5, <2>1, <2>2
  <1>8. fx <= fh
    <2>1. x < hi => fx + BlockSize <= fh
      BY <1>4, <1>5, FirstOrder
    <2>2. x = hi => fx = fh
      BY <1>5
    <2> QED BY <1>1, <1>4, <1>5, <2>1, <2>2
  <1> QED BY <1>1, <1>3, <1>4, <1>5, <1>6, <1>7, <1>8

\* The bases of two blocks of a behaviour are less than half the range of index_t apart.
LEMMA BasesNear ==
  ASSUME limit \in Int, Boundary(Start), NEW q \in Numbers, NEW r \in Numbers
  PROVE  InWindow(First(q) - First(r)) /\ First(q) \in Int /\ First(r) \in Int /\ q \in Int /\ r \in Int
  <1>1. MaxPut \in Nat /\ Start \in Int /\ Start = limit - MaxPut /\ BlockSize \in Nat \ {0}
    BY BoundNumbers, BlockAssumption DEF Start
  <1>4. \A x \in Numbers : x \in Int /\ First(x) \in Int /\ Start - BlockSize <= First(x) /\ First(x) <= limit - 1
    BY BasesIn
  <1>5. PICK a \in Int, b \in Int, h \in Int, p \in Nat :
           a = First(q) /\ b = First(r) /\ h = W \div 2 /\ p = MaxFutile + MaxTake * Cardinality(Consumers)
    BY <1>4, FirstNumber, WAssumption, BoundNumbers
  <1>6. MaxPut + p + BlockSize < h
    BY <1>1, <1>5, RangeAssumption, BoundNumbers
  <1>7. Start - BlockSize <= a /\ a <= limit - 1 /\ Start - BlockSize <= b /\ b <= limit - 1
    BY <1>4, <1>5
  <1>8. -h < a - b /\ a - b < h
    BY <1>1, <1>5, <1>6, <1>7
  <1> QED BY <1>4, <1>5, <1>8 DEF InWindow

LEMMA SlotOfIs ==
  ASSUME limit \in Int, Boundary(Start), NEW ix \in Indexes, NEW p \in Int, InPhase(ix, p), NEW i \in Int,
         NEW s \in 0 .. ix.size - 1, Stands(ix.entries[s], Number(i)),
         NEW x \in 0 .. ix.size - 1, ix.entries[x].block /= None
  PROVE  Explicit!SlotOf(i, ix, x) = s
  <1>1. PICK q \in Int : q = Number(i) /\ Base(i) = First(q)
    BY Division
  <1>2. PICK r \in Numbers : q \in Numbers /\ ix.entries[x].base = First(r) /\ s = (x + (q - r)) % ix.size
    BY <1>1, SlotFound
  <1>3. InWindow(First(q) - First(r)) /\ First(q) \in Int /\ First(r) \in Int /\ r \in Int
    BY <1>2, BasesNear
  <1>4. Signed(First(q) - First(r)) = First(q) - First(r)
    BY <1>3, SignedIs
  <1>5. First(q) - First(r) = First(q - r) /\ q - r \in Int
    BY <1>3, FirstOrder
  <1>6. First(q - r) \div BlockSize = q - r
    BY <1>5, FirstNumber DEF Number
  <1>7. Explicit!SlotOf(i, ix, x) = (x + Signed(Base(i) - ix.entries[x].base) \div BlockSize) % ix.size
    BY DEF Explicit!SlotOf, Explicit!Signed, Signed, Explicit!Base, Base
  <1>8. Signed(Base(i) - ix.entries[x].base) = First(q - r)
    BY <1>1, <1>2, <1>4, <1>5
  <1>9. Signed(Base(i) - ix.entries[x].base) \div BlockSize = q - r
    BY <1>6, <1>8
  <1> QED BY <1>2, <1>7, <1>9

\* What a consumer on its way finds in the index it has loaded, old or new: the blocks of its positions.
Holds(e, h, q) == Stands(e, q) /\ e.block = h[q]
Seen(c, ix, h) ==
  /\ hand[c].at = "front" => ix.entries[ix.front].block /= None
  /\ hand[c].at = "offset" => hand[c].pos \in 0 .. ix.size - 1 /\ ix.entries[hand[c].pos].block /= None
  /\ \A i \in Rest(c) : \E s \in 0 .. ix.size - 1 : Holds(ix.entries[s], h, Number(i))
  /\ hand[c].at \in {"move", "release"} =>
       hand[c].pos \in 0 .. ix.size - 1 /\ Holds(ix.entries[hand[c].pos], h, Number(hand[c].i))
HandAt(c, ixs, h) ==
  hand[c].at \in {"front", "offset", "move", "release"} => hand[c].idx \in 1 .. Len(ixs) /\ Seen(c, ixs[hand[c].idx], h)

\* A larger index does not concern those who read an older one.
LEMMA GrowHand ==
  ASSUME NEW c, NEW ixs, NEW h, HandAt(c, ixs, h), NEW new, Len(ixs) \in Nat, Len(new) = Len(ixs) + 1,
         \A j \in 1 .. Len(ixs) : new[j] = ixs[j]
  PROVE  HandAt(c, new, h)
  <1> SUFFICES ASSUME hand[c].at \in {"front", "offset", "move", "release"}
               PROVE  hand[c].idx \in 1 .. Len(new) /\ Seen(c, new[hand[c].idx], h)
    BY DEF HandAt
  <1>1. hand[c].idx \in 1 .. Len(ixs) /\ Seen(c, ixs[hand[c].idx], h)
    BY DEF HandAt
  <1>2. hand[c].idx \in 1 .. Len(new)
    BY <1>1
  <1>3. new[hand[c].idx] = ixs[hand[c].idx]
    BY <1>1
  <1> QED BY <1>1, <1>2, <1>3

\* A new entry in the newest index takes no slot a consumer needs.
LEMMA PutHand ==
  ASSUME NEW c, NEW ixs, NEW p, NEW lo, NEW n, NEW h, HandAt(c, ixs, h), IndexOK(ixs, p, lo, n),
         NEW low \in Int, lo <= low, NEW new, NEW b \in Blocks, NEW f, OneMore(ixs, new, p, low, n, f, b),
         NEW g, \A q \in low .. n - 1 : g[q] = h[q] /\ HomeIn(ixs, p, q) = h[q],
         hand[c].at \in {"move", "release"} => hand[c].i \in Rest(c),
         \A i \in Rest(c) : i \in Int /\ Number(i) \in low .. n - 1
  PROVE  HandAt(c, new, g)
  <1> USE DEF OneMore
  <1> SUFFICES ASSUME hand[c].at \in {"front", "offset", "move", "release"}
               PROVE  hand[c].idx \in 1 .. Len(new) /\ Seen(c, new[hand[c].idx], g)
    BY DEF HandAt
  <1>1. hand[c].idx \in 1 .. Len(ixs) /\ Seen(c, ixs[hand[c].idx], h)
    BY DEF HandAt
  <1>2. n \in Int /\ lo \in Int /\ p \in Int /\ Newest(ixs) \in Indexes /\ InPhase(Newest(ixs), p) /\ Len(ixs) \in Nat
    BY NewestIs DEF IndexOK
  <1>3. CASE hand[c].idx /= Len(ixs)
    <2>1. new[hand[c].idx] = ixs[hand[c].idx]
      <3>1. hand[c].idx \in 1 .. Len(ixs) - 1
        BY <1>1, <1>2, <1>3
      <3> QED BY <3>1
    <2>2. \A i \in Rest(c) : g[Number(i)] = h[Number(i)]
      OBVIOUS
    <2>3. Seen(c, ixs[hand[c].idx], g)
      BY <1>1, <2>2 DEF Seen, Holds
    <2> QED BY <1>1, <2>1, <2>3
  <1>4. CASE hand[c].idx = Len(ixs)
    <2>0. PICK y : y = Newest(new)
      OBVIOUS
    <2>1. PICK ix \in Indexes : ix = Newest(ixs) /\ y = Newest(new) /\ ix = ixs[hand[c].idx] /\ y = new[hand[c].idx]
      BY <1>2, <1>4, <2>0 DEF Newest
    <2>2. PICK m \in Nat \ {0} : m = ix.size /\ y.size = m /\ y.front = ix.front /\ ix.front \in 0 .. m - 1
      BY <2>1, IndexFields
    <2>3. ASSUME NEW s \in 0 .. m - 1, ix.entries[s].block /= None PROVE y.entries[s].block /= None
      <3>1. CASE s = f
        BY <2>1, <3>1, NoneAssumption
      <3>2. CASE s /= f
        <4>1. s \in 0 .. Newest(ixs).size - 1
          BY <2>1, <2>2
        <4>2. Newest(new).entries[s] = Newest(ixs).entries[s]
          BY <3>2, <4>1
        <4> QED BY <2>1, <2>3, <4>2
      <3> QED BY <3>1, <3>2
    <2>4. ASSUME NEW i \in Rest(c) PROVE SlotIn(ix, p, Number(i)) \in 0 .. m - 1 /\ Holds(y.entries[SlotIn(ix, p, Number(i))], g, Number(i))
      <3>1. Number(i) \in low .. n - 1 /\ Number(i) \in Int /\ Number(i) \in low .. (n + 1) - 1
        BY <1>2
      <3>2. SlotIn(ix, p, Number(i)) \in 0 .. m - 1 /\ SlotIn(y, p, Number(i)) = SlotIn(ix, p, Number(i))
        BY <1>2, <2>2, <3>1, IndexFields DEF SlotIn
      <3>3. Stands(y.entries[SlotIn(y, p, Number(i))], Number(i))
        BY <2>1, <3>1 DEF IndexOK
      <3>4. y.entries[SlotIn(y, p, Number(i))].block = g[Number(i)]
        <4>1. HomeIn(new, p, Number(i)) = g[Number(i)]
          BY <3>1
        <4> QED BY <2>1, <4>1 DEF HomeIn
      <3> QED BY <3>2, <3>3, <3>4 DEF Holds
    <2>5. hand[c].at \in {"move", "release"} =>
             hand[c].pos \in 0 .. m - 1 /\ Holds(y.entries[hand[c].pos], g, Number(hand[c].i))
      <3> SUFFICES ASSUME hand[c].at \in {"move", "release"}
                   PROVE  hand[c].pos \in 0 .. m - 1 /\ Holds(y.entries[hand[c].pos], g, Number(hand[c].i))
        OBVIOUS
      <3>1. hand[c].pos \in 0 .. ix.size - 1 /\ Stands(ix.entries[hand[c].pos], Number(hand[c].i))
        BY <1>1, <2>1, <2>2 DEF Seen, Holds
      <3>2. hand[c].i \in Rest(c) /\ Number(hand[c].i) \in Int
        BY <1>2
      <3>3. hand[c].pos = SlotIn(ix, p, Number(hand[c].i))
        <4>1. InPhase(ix, p) /\ p \in Int /\ ix.entries[hand[c].pos].block /= None
          BY <1>2, <2>1, <3>1, NoneAssumption DEF Stands
        <4> QED BY <3>1, <3>2, <4>1, SlotFound
      <3> QED BY <2>4, <3>2, <3>3
    <2>6. Seen(c, y, g)
      <3>1. hand[c].at = "front" => y.entries[y.front].block /= None
        BY <1>1, <2>1, <2>2, <2>3 DEF Seen
      <3>2. hand[c].at = "offset" => hand[c].pos \in 0 .. y.size - 1 /\ y.entries[hand[c].pos].block /= None
        BY <1>1, <2>1, <2>2, <2>3 DEF Seen
      <3>3. \A i \in Rest(c) : \E s \in 0 .. y.size - 1 : Holds(y.entries[s], g, Number(i))
        BY <2>2, <2>4
      <3>4. hand[c].at \in {"move", "release"} =>
              hand[c].pos \in 0 .. y.size - 1 /\ Holds(y.entries[hand[c].pos], g, Number(hand[c].i))
        BY <2>2, <2>5
      <3> QED BY <3>1, <3>2, <3>3, <3>4 DEF Seen
    <2> QED BY <1>1, <2>1, <2>6
  <1> QED BY <1>3, <1>4

-----------------------------------------------------------------------------
(* The invariant of an explicit producer. *)

\* The number of the block after the newest, and of the one after the last with a published position;
\* the blocks in use have the numbers from Oldest on.
Made == Number((tailIndex + prod.n) - 1) + (1 - prod.need)
Begun == Number(tailIndex - 1) + 1
Oldest == Made - prUsed
Phase == prFront - Made
Homes == [q \in Int |-> HomeIn(indexes, Phase, q)]
Filling == prod.at \in {"expose", "publish"}

XIndex ==
  /\ IndexOK(indexes, Phase, Oldest, Made)
  /\ prFront \in 0 .. Newest(indexes).size - 1 /\ prUsed \in Nat
  /\ Begun <= Made /\ Oldest <= Number(tailIndex)
  /\ tailIndex > 0 \/ prod.at = "publish" => Newest(indexes).entries[Newest(indexes).front].block /= None
  /\ tailIndex > 0 => prUsed >= 1

XRing == Ringed(Homes, Oldest, Made, ring, pool, tailBlock)

\* A bulk knows the first of its blocks and the block and the index it started with.
ProdRecords == [at : {"idle", "blocks", "fill", "expose", "publish"}, n : Nat, need : Nat,
                first : Blocks \cup {None}, start : Blocks \cup {None}, front0 : Int, used0 : Int]
XCall ==
  /\ prod \in ProdRecords
  /\ prod.at = "idle" => prod = NoCall
  /\ prod.at = "blocks" <=> prod.need >= 1
  /\ prod.at = "expose" => Begun < Made
  /\ prod.at \in {"blocks", "fill"} =>
       /\ prod.first = IF Begun < Made THEN Homes[Begun] ELSE None
       /\ Oldest < Begun => prod.start = Homes[Begun - 1]
       /\ Begun = Made => prod.start = tailBlock /\ prod.front0 = prFront /\ prod.used0 = prUsed
       /\ 0 <= prod.used0 /\ prod.used0 <= prUsed
       /\ tailIndex > 0 => prod.used0 >= 1

\* The elements there are stand in the blocks in use; a cell marked empty has none, now or later.
XCells ==
  /\ cell \in [Blocks -> [Offsets -> Int \cup {None}]] /\ flags \in [Blocks -> SUBSET Offsets]
  /\ \A i \in Int : Live(i) => Number(i) \in Oldest .. Made - 1 /\ cell[Homes[Number(i)]][i % BlockSize] = i
  /\ \A q \in Oldest .. Made - 1 : q < Begun \/ Filling =>
       \A o \in flags[Homes[q]] : First(q) + o < headIndex /\ ~Live(First(q) + o)

XHands == \A c \in Consumers : HandAt(c, indexes, Homes)

XInv == XIndex /\ XRing /\ XCall /\ XCells /\ XHands

LEMMA XTypes ==
  ASSUME CountersInv, XIndex, XRing
  PROVE  /\ Made \in Int /\ Begun \in Int /\ Oldest \in Int /\ Phase \in Int /\ prUsed \in Nat /\ Oldest <= Made
         /\ Homes \in [Int -> Blocks \cup {None}]
         /\ \A q \in Oldest .. Made - 1 : Homes[q] \in Blocks \ pool
         /\ \A q, r \in Oldest .. Made - 1 : Homes[q] = Homes[r] => q = r
         /\ Newest(indexes) \in Indexes /\ InPhase(Newest(indexes), Phase) /\ Len(indexes) \in Nat
         /\ tailIndex \in Int /\ headIndex \in Int /\ limit \in Int
  <1>1. Oldest \in Int /\ Made \in Int /\ Phase \in Int /\ Oldest <= Made /\ indexes \in Seq(Indexes) /\ Len(indexes) >= 1
        /\ InPhase(Newest(indexes), Phase)
    BY DEF XIndex, IndexOK
  <1>2. Newest(indexes) \in Indexes /\ Len(indexes) \in Nat
    BY <1>1, NewestIs
  <1>3. tailIndex \in Int /\ headIndex \in Int /\ limit \in Int
    BY DEF CountersInv, ClaimInv, Bounded
  <1>4. Begun \in Int
    BY <1>3, Division DEF Begun
  <1> QED BY <1>1, <1>2, <1>3, <1>4 DEF XIndex, XRing, Ringed

\* The elements in the blocks: what a consumer's positions lead to.
LEMMA RestLive ==
  ASSUME CountersInv, Walks, XIndex, XRing, XCells, NEW c \in Consumers, NEW i \in Rest(c)
  PROVE  /\ i \in Int /\ Number(i) \in Oldest .. Made - 1 /\ Number(i) \in Int /\ Live(i)
         /\ cell[Homes[Number(i)]][i % BlockSize] = i /\ Homes[Number(i)] \in Blocks
  <1>1. i \in Int /\ Live(i)
    BY RestIs DEF Live
  <1> QED BY <1>1, Division, XTypes DEF XCells

-----------------------------------------------------------------------------
(* The consumers' steps in an explicit producer's queue. *)

LEMMA ConsumerKeeps ==
  ASSUME XIndex, XRing, XCall,
         UNCHANGED <<tailIndex, prod, indexes, prFront, prUsed, ring, pool, tailBlock, limit>>
  PROVE  /\ XIndex' /\ XRing' /\ XCall' /\ Made' = Made /\ Begun' = Begun /\ Oldest' = Oldest /\ Homes' = Homes
         /\ (Filling' <=> Filling) /\ Top' = Top /\ Numbers' = Numbers
  <1>1. Made' = Made /\ Begun' = Begun /\ (Filling' <=> Filling) /\ Top' = Top
    BY DEF Made, Begun, Filling, Top
  <1>2. Oldest' = Oldest /\ Phase' = Phase
    BY <1>1 DEF Oldest, Phase
  <1>3. Homes' = Homes /\ Numbers' = Numbers
    BY <1>2 DEF Homes, Numbers
  <1>4. IndexOK(indexes, Phase, Oldest, Made)'
    BY <1>1, <1>2, <1>3 DEF XIndex, IndexOK, InPhase
  <1>5. XIndex'
    BY <1>1, <1>2, <1>4 DEF XIndex
  <1>6. XRing'
    BY <1>1, <1>2, <1>3 DEF XRing
  <1>7. XCall'
    BY <1>1, <1>2, <1>3 DEF XCall
  <1> QED BY <1>1, <1>2, <1>3, <1>5, <1>6, <1>7

\* Elements only leave by a consumer's step, and the marks are of those that left.
LEMMA CellsKept ==
  ASSUME CountersInv, XIndex, XRing, XCall, XCells,
         UNCHANGED <<tailIndex, prod, indexes, prFront, prUsed, ring, pool, tailBlock, limit, cell>>,
         headIndex' \in Int, headIndex <= headIndex', \A i \in Int : Live(i)' => Live(i),
         flags' \in [Blocks -> SUBSET Offsets],
         \A q \in Oldest .. Made - 1 : \A o \in flags'[Homes[q]] :
           o \in flags[Homes[q]] \/ (First(q) + o < headIndex' /\ ~Live(First(q) + o)')
  PROVE  XCells'
  <1>1. Made' = Made /\ Begun' = Begun /\ Oldest' = Oldest /\ Homes' = Homes /\ (Filling' <=> Filling)
    BY ConsumerKeeps
  <1>2. \A i \in Int : Live(i)' => Number(i) \in Oldest .. Made - 1 /\ cell[Homes[Number(i)]][i % BlockSize] = i
    BY DEF XCells
  <1>3. ASSUME NEW q \in Oldest .. Made - 1, q < Begun \/ Filling, NEW o \in flags'[Homes[q]]
        PROVE  First(q) + o < headIndex' /\ ~Live(First(q) + o)'
    <2>1. Homes[q] \in Blocks /\ q \in Int
      BY XTypes
    <2>2. o \in Offsets
      BY <2>1
    <2>3. PICK x \in Int : x = First(q) + o
      BY <2>1, <2>2, Placed
    <2>4. CASE o \in flags[Homes[q]]
      <3>1. x < headIndex /\ ~Live(x)
        BY <1>3, <2>3, <2>4 DEF XCells
      <3>2. headIndex \in Int
        BY XTypes
      <3> QED BY <2>3, <3>1, <3>2
    <2> QED BY <2>4
  <1>4. (\A i \in Int : Live(i) => Number(i) \in Oldest .. Made - 1 /\ cell[Homes[Number(i)]][i % BlockSize] = i)'
    BY <1>1, <1>2
  <1>5. (\A q \in Oldest .. Made - 1 : q < Begun \/ Filling =>
           \A o \in flags[Homes[q]] : First(q) + o < headIndex /\ ~Live(First(q) + o))'
    BY <1>1, <1>3
  <1>6. cell' \in [Blocks -> [Offsets -> Int \cup {None}]]
    BY DEF XCells
  <1> QED BY <1>4, <1>5, <1>6 DEF XCells

\* The others see what they saw.
LEMMA OtherHands ==
  ASSUME NEW c, NEW ixs, NEW h, HandAt(c, ixs, h), hand'[c] = hand[c], \A i \in Rest(c)' : i \in Rest(c), ixs' = ixs, h' = h
  PROVE  HandAt(c, ixs, h)'
  BY DEF HandAt, Seen, Holds, Stands

\* What a consumer finds after a step of its own in the index ix that it then reads.
LEMMA HandNext ==
  ASSUME NEW c, NEW ix, NEW h, h = Homes', hand'[c].idx \in 1 .. Len(indexes'), ix = indexes'[hand'[c].idx],
         hand'[c].at = "front" => ix.entries[ix.front].block /= None,
         hand'[c].at = "offset" => hand'[c].pos \in 0 .. ix.size - 1 /\ ix.entries[hand'[c].pos].block /= None,
         \A i \in Rest(c)' : \E s \in 0 .. ix.size - 1 : Holds(ix.entries[s], h, Number(i)),
         hand'[c].at \in {"move", "release"} =>
           hand'[c].pos \in 0 .. ix.size - 1 /\ Holds(ix.entries[hand'[c].pos], h, Number(hand'[c].i))
  PROVE  HandAt(c, indexes, Homes)'
  <1>1. Seen(c, ix, Homes)'
    BY DEF Seen, Holds, Stands
  <1> QED BY <1>1 DEF HandAt, Seen, Holds, Stands

\* An explicit producer's queue takes from ProducerBase the walks, too.
LEMMA ExplicitWalks ==
  /\ \A c \in Consumers : Explicit!Claim(c) => Claim(c)
  /\ \A b : \A c \in Consumers : Explicit!MoveOutOf(c, b) => MoveOutOf(c, b)
  /\ \A s : \A c \in Consumers : Explicit!NextBlock(c, s) => NextBlock(c, s)
  /\ \A c \in Consumers : Explicit!Here(c) = Here(c)
  <1>1. ASSUME NEW c \in Consumers, Explicit!Claim(c) PROVE Claim(c)
    <2>1. ASSUME NEW max \in 1 .. MaxTake, Explicit!Look(c, max) PROVE Look(c, max)
      BY <2>1 DEF Explicit!Look, Look, Explicit!NoClaim, NoClaim, Explicit!CircLess, CircLess, Explicit!Least, Least
    <2>2. Explicit!Reserve(c) => Reserve(c)
      BY DEF Explicit!Reserve, Reserve
    <2>3. Explicit!Actual(c) = Actual(c)
      BY DEF Explicit!Actual, Actual, Explicit!CircLess, CircLess, Explicit!Least, Least
    <2>4. Explicit!Confirm(c) => Confirm(c)
      BY <2>3 DEF Explicit!Confirm, Confirm
    <2>5. Explicit!Refund(c) => Refund(c)
      BY DEF Explicit!Refund, Refund, Explicit!NoClaim, NoClaim
    <2>6. Explicit!Take(c) => Take(c)
      BY DEF Explicit!Take, Take
    <2>7. \/ optimistic < limit + MaxFutile /\ \E max \in 1 .. MaxTake : Look(c, max)
          \/ Reserve(c) \/ Confirm(c) \/ Refund(c) \/ Take(c)
      BY <1>1, <2>1, <2>2, <2>4, <2>5, <2>6 DEF Explicit!Claim
    <2>8. hand' = IF claim'[c].at = "owner"
                  THEN [hand EXCEPT ![c] = [NoWalk EXCEPT !.at = "index", !.i = headIndex]] ELSE hand
      BY <1>1 DEF Explicit!Claim, Explicit!NoWalk, NoWalk
    <2>9. UNCHANGED <<pool, tailBlock, cell, prod, taken, limit>>
      BY <1>1 DEF Explicit!Claim
    <2> QED BY <2>7, <2>8, <2>9 DEF Claim
  <1>2. \A c \in Consumers : Explicit!Here(c) = Here(c) /\ Explicit!NextHere(c) = NextHere(c)
    BY DEF Explicit!Here, Here, Explicit!NextHere, NextHere, Explicit!Base, Base
  <1>3. ASSUME NEW b, NEW c \in Consumers, Explicit!MoveOutOf(c, b) PROVE MoveOutOf(c, b)
    BY <1>2, <1>3 DEF Explicit!MoveOutOf, MoveOutOf, Explicit!claimVars, claimVars
  <1>4. ASSUME NEW s, NEW c \in Consumers, Explicit!NextBlock(c, s) PROVE NextBlock(c, s)
    BY <1>2, <1>4 DEF Explicit!NextBlock, NextBlock, Explicit!claimVars, claimVars, Explicit!Done, Done,
       Explicit!NoClaim, NoClaim, Explicit!NoWalk, NoWalk
  <1> QED BY <1>1, <1>2, <1>3, <1>4

XAll == CountersInv /\ Walking /\ XInv

\* What a step leaves as it was: blocks go out of use from the oldest on, and a block that stays in
\* use keeps its place and its marks.
Stays ==
  /\ Oldest <= Oldest'
  /\ \A q \in Oldest' .. Begun - 1 : Homes'[q] = Homes[q] /\ flags[Homes[q]] \subseteq flags'[Homes[q]]

LEMMA StaysMarked ==
  ASSUME XAll, Oldest' = Oldest, Homes' = Homes, \A b \in Blocks : flags[b] \subseteq flags'[b] PROVE Stays
  <1>1. Made \in Int /\ Begun \in Int /\ Oldest \in Int /\ \A q \in Oldest .. Made - 1 : Homes[q] \in Blocks
    BY XTypes DEF XAll, XInv
  <1>2. Begun <= Made
    BY DEF XAll, XInv, XIndex
  <1>3. \A q \in Oldest .. Begun - 1 : q \in Oldest .. Made - 1
    BY <1>1, <1>2
  <1> QED BY <1>1, <1>3 DEF Stays

LEMMA StaysPut == ASSUME XAll, Oldest' = Oldest, Homes' = Homes, flags' = flags PROVE Stays
  BY StaysMarked

\* An element leaves a cell with a mark, and only a consumer takes one.
Emptied ==
  \A i \in Int : i < headIndex' /\ ~Live(i)' => i < headIndex /\ (Live(i) => i % BlockSize \in flags'[Homes[Number(i)]])

LEMMA EmptiedNone == ASSUME headIndex \in Int, headIndex' = headIndex, \A d \in Consumers : Rest(d)' = Rest(d) PROVE Emptied
  <1> SUFFICES ASSUME NEW i \in Int, i < headIndex', ~Live(i)' PROVE i < headIndex /\ ~Live(i)
    BY DEF Emptied
  <1>1. i < headIndex /\ \A d \in Consumers : i \notin Rest(d)
    BY DEF Live
  <1> QED BY <1>1 DEF Live

\* dequeue up to headIndex.fetch_add.
LEMMA XClaim ==
  ASSUME XAll, CountersInv', NEW c \in Consumers, Explicit!Claim(c), UNCHANGED <<ring, indexes, prFront, prUsed, flags>>
  PROVE  Walking' /\ XInv' /\ [SubQ!Next]_(SubQ!subQueueVars) /\ Stays /\ Emptied
  <1>0. CountersInv /\ Walking /\ XIndex /\ XRing /\ XCall /\ XCells /\ XHands
    BY DEF XAll, XInv
  <1>1. Claim(c)
    BY ExplicitWalks
  <1>2. UNCHANGED <<pool, tailBlock, cell, prod, taken, limit>>
    BY <1>0, <1>1, ClaimIs
  <1>3. CASE /\ (\E max \in 1 .. MaxTake : Look(c, max)) \/ Reserve(c) \/ Confirm(c) \/ Refund(c)
             /\ hand' = hand
    <2>1. Walking' /\ headIndex' = headIndex /\ tailIndex' = tailIndex /\ \A d \in Consumers : Rest(d)' = Rest(d) /\ Owes(d)' = Owes(d)
      BY <1>0, <1>2, <1>3, AttemptWalks
    <2>2. XIndex' /\ XRing' /\ XCall' /\ Homes' = Homes /\ Top' = Top /\ Oldest' = Oldest
      BY <1>0, <1>2, <2>1, ConsumerKeeps
    <2>3. \A i \in Int : Live(i)' => Live(i)
      BY <2>1, <2>2 DEF Live
    <2>4. headIndex' \in Int /\ headIndex <= headIndex' /\ flags' \in [Blocks -> SUBSET Offsets]
      BY <1>0, <2>1, XTypes DEF XCells
    <2>5. XCells'
      BY <1>0, <1>2, <2>1, <2>3, <2>4, CellsKept
    <2>6. XHands'
      BY <1>0, <1>3, <2>1, <2>2, OtherHands DEF XHands
    <2>7. [SubQ!Next]_(SubQ!subQueueVars)
      <3>1. tailIndex <= tailIndex'
        BY <1>0, <2>1, XTypes
      <3> QED BY <1>0, <1>2, <2>1, <3>1, QuietStep
    <2>8. Stays
      BY <2>2, StaysPut
    <2>9. Emptied
      <3>1. headIndex \in Int
        BY <1>0, XTypes
      <3> QED BY <2>1, <3>1, EmptiedNone
    <2> QED BY <2>1, <2>2, <2>5, <2>6, <2>7, <2>8, <2>9 DEF XInv
  <1>4. CASE Take(c) /\ hand' = [hand EXCEPT ![c] = [NoWalk EXCEPT !.at = "index", !.i = headIndex]]
    <2>1. /\ Walking' /\ headIndex < headIndex' /\ headIndex' \in Int /\ tailIndex' = tailIndex
          /\ \A d \in Consumers : d /= c => hand'[d] = hand[d] /\ Rest(d)' = Rest(d)
          /\ Rest(c)' = headIndex .. headIndex' - 1 /\ hand'[c].at = "index"
      BY <1>0, <1>2, <1>4, TakeWalks
    <2>2. XIndex' /\ XRing' /\ XCall' /\ Homes' = Homes /\ Top' = Top /\ Oldest' = Oldest
      BY <1>0, <1>2, <2>1, ConsumerKeeps
    <2>3. headIndex' <= tailIndex /\ tailIndex <= Top /\ Top \in Int /\ tailIndex \in Int /\ headIndex \in Int
      <3>1. (CountersInv => headIndex <= tailIndex)'
        BY HeadAtTail, PTL
      <3>2. prod.n \in Nat /\ tailIndex \in Int /\ headIndex \in Int
        BY <1>0, XTypes DEF CountersInv, Calling
      <3> QED BY <2>1, <3>1, <3>2 DEF Top
    <2>4. ASSUME NEW i \in Int, Live(i)' PROVE Live(i)
      <3>1. CASE headIndex' <= i /\ i < Top
        BY <2>1, <2>3, <3>1 DEF Live
      <3>2. ASSUME NEW d \in Consumers, i \in Rest(d)' PROVE Live(i)
        <4>1. CASE d = c
          <5>1. i \in Rest(c)'
            BY <3>2, <4>1
          <5>0. headIndex \in Int
            BY <2>3
          <5>2. i \in headIndex .. headIndex' - 1
            BY <2>1, <5>1
          <5>3. PICK k \in Int : k = headIndex' /\ k <= tailIndex
            BY <2>1, <2>3
          <5>4. i \in headIndex .. k - 1
            BY <5>2, <5>3
          <5>5. headIndex <= i /\ i < k
            <6>1. PICK j \in Int : j = headIndex
              BY <5>0
            <6>2. i \in j .. k - 1
              BY <5>4, <6>1
            <6>3. j <= i
              BY <6>2
            <6>4. i < k
              BY <6>2
            <6> QED BY <6>1, <6>3, <6>4
          <5> QED BY <2>3, <5>3, <5>5 DEF Live
        <4>2. CASE d /= c
          BY <2>1, <3>2, <4>2 DEF Live
        <4> QED BY <4>1, <4>2
      <3> QED BY <2>2, <2>4, <3>1, <3>2 DEF Live
    <2>5. headIndex <= headIndex' /\ flags' \in [Blocks -> SUBSET Offsets]
      BY <1>0, <2>1, <2>3 DEF XCells
    <2>6. XCells'
      BY <1>0, <1>2, <2>1, <2>4, <2>5, CellsKept
    <2>7. ASSUME NEW d \in Consumers PROVE HandAt(d, indexes, Homes)'
      <3>1. CASE d = c
        BY <2>1, <3>1 DEF HandAt
      <3>2. CASE d /= c
        BY <1>0, <2>1, <2>2, <3>2, OtherHands DEF XHands
      <3> QED BY <3>1, <3>2
    <2>8. [SubQ!Next]_(SubQ!subQueueVars)
      BY <1>0, <1>2, <1>4, GiveStep
    <2>9. Stays
      BY <2>2, StaysPut
    <2>10. Emptied
      <3> SUFFICES ASSUME NEW i \in Int, i < headIndex', ~Live(i)' PROVE i < headIndex /\ ~Live(i)
        BY DEF Emptied
      <3>1. \A d \in Consumers : i \notin Rest(d)'
        BY DEF Live
      <3>2. i \notin headIndex .. headIndex' - 1
        BY <2>1, <3>1
      <3>3. i < headIndex
        <4>1. PICK h \in Int, k \in Int : h = headIndex /\ k = headIndex'
          BY <2>1, <2>3
        <4>2. i \notin h .. k - 1
          BY <3>2, <4>1
        <4>3. i < h
          <5>1. i < k
            BY <4>1
          <5>2. h <= i => i \in h .. k - 1
            BY <5>1
          <5> QED BY <4>2, <5>2
        <4> QED BY <4>1, <4>3
      <3>4. Rest(c) = {}
        BY <1>4 DEF Take, Rest
      <3>5. \A d \in Consumers : i \notin Rest(d)
        BY <2>1, <3>1, <3>4
      <3> QED BY <2>3, <3>3, <3>5 DEF Live
    <2> QED BY <2>1, <2>2, <2>6, <2>7, <2>8, <2>9, <2>10 DEF XInv, XHands
  <1> QED BY <1>0, <1>1, <1>3, <1>4, ClaimIs

\* A hand's record with two of its fields changed.
LEMMA HandIdx ==
  ASSUME NEW r \in HandRecords, NEW at, NEW x
  PROVE  [r EXCEPT !.at = at, !.idx = x] = [at |-> at, idx |-> x, pos |-> r.pos, i |-> r.i]
  <1>1. r = [at |-> r.at, idx |-> r.idx, pos |-> r.pos, i |-> r.i]
    BY DEF HandRecords
  <1>2. PICK y : y = [r EXCEPT !.at = at]
    OBVIOUS
  <1>3. y = [at |-> at, idx |-> r.idx, pos |-> r.pos, i |-> r.i]
    BY <1>1, <1>2
  <1>4. [y EXCEPT !.idx = x] = [at |-> at, idx |-> x, pos |-> r.pos, i |-> r.i]
    BY <1>3
  <1> QED BY <1>2, <1>4

LEMMA HandPos ==
  ASSUME NEW r \in HandRecords, NEW at, NEW x
  PROVE  [r EXCEPT !.at = at, !.pos = x] = [at |-> at, idx |-> r.idx, pos |-> x, i |-> r.i]
  <1>1. r = [at |-> r.at, idx |-> r.idx, pos |-> r.pos, i |-> r.i]
    BY DEF HandRecords
  <1>2. PICK y : y = [r EXCEPT !.at = at]
    OBVIOUS
  <1>3. y = [at |-> at, idx |-> r.idx, pos |-> r.pos, i |-> r.i]
    BY <1>1, <1>2
  <1>4. [y EXCEPT !.pos = x] = [at |-> at, idx |-> r.idx, pos |-> x, i |-> r.i]
    BY <1>3
  <1> QED BY <1>2, <1>4

\* A consumer looks for the slot of its first position.
LEMMA XFind ==
  ASSUME XAll, CountersInv', NEW c \in Consumers, Explicit!LoadIndex(c) \/ Explicit!LoadFront(c) \/ Explicit!FindSlot(c),
         UNCHANGED <<ring, indexes, prFront, prUsed, flags>>
  PROVE  Walking' /\ XInv' /\ [SubQ!Next]_(SubQ!subQueueVars) /\ Stays /\ Emptied
  <1>0. CountersInv /\ Walking /\ Walks /\ XIndex /\ XRing /\ XCall /\ XCells /\ XHands /\ hand \in [Consumers -> HandRecords]
        /\ hand[c] \in HandRecords
    BY DEF XAll, XInv, Walking, Walks
  <1>1. UNCHANGED <<claimVars, pool, tailBlock, cell, prod, taken, limit>>
    BY DEF Explicit!LoadIndex, Explicit!LoadFront, Explicit!FindSlot, Explicit!claimVars, claimVars
  <1>2. UNCHANGED <<tailIndex, headIndex, claim>>
    BY <1>1 DEF claimVars
  <1>3. hand[c].at \in {"index", "front", "offset"} /\ hand[c].at /= "idle"
    BY DEF Explicit!LoadIndex, Explicit!LoadFront, Explicit!FindSlot
  <1>4. claim[c].at = "owner" /\ hand[c].i \in Rest(c) /\ hand[c].i \in Int
    <2>1. claim[c].at = "owner"
      BY <1>0, <1>3 DEF Walks
    <2>2. hand[c].i < End(c) /\ hand[c].i \in Int
      BY <1>0, <2>1, HereIs DEF Walks
    <2> QED BY <1>0, <2>1, <2>2, RestIs
  <1>5. PICK ix : ix = indexes[hand[c].idx]
    OBVIOUS
  <1>6. ASSUME hand[c].at \in {"front", "offset"}
        PROVE  /\ ix \in Indexes /\ Seen(c, ix, Homes) /\ hand[c].idx \in 1 .. Len(indexes) /\ \E p \in Int : InPhase(ix, p)
    <2>1. hand[c].idx \in 1 .. Len(indexes) /\ Seen(c, ix, Homes)
      BY <1>0, <1>5, <1>6 DEF XHands, HandAt
    <2> QED BY <1>0, <1>5, <2>1 DEF XIndex, IndexOK
  <1>7. PICK h \in HandRecords :
          /\ hand' = [hand EXCEPT ![c] = h] /\ h.i = hand[c].i /\ h.at \in {"front", "offset", "move"}
          /\ h.at = "front" => hand[c].at = "index" /\ h.idx = Len(indexes)
          /\ h.at = "offset" => hand[c].at = "front" /\ h.idx = hand[c].idx /\ h.pos = ix.front
          /\ h.at = "move" => hand[c].at = "offset" /\ h.idx = hand[c].idx
                              /\ h.pos = Explicit!SlotOf(hand[c].i, ix, hand[c].pos)
    <2>0. PICK r : r = hand[c] /\ r \in HandRecords /\ r = [at |-> r.at, idx |-> r.idx, pos |-> r.pos, i |-> r.i]
      BY <1>0 DEF HandRecords
    <2>1. CASE Explicit!LoadIndex(c)
      <3>1. PICK h : h = [at |-> "front", idx |-> Len(indexes), pos |-> r.pos, i |-> r.i]
        OBVIOUS
      <3>2. h \in HandRecords
        BY <1>0, <2>0, <3>1, XTypes DEF HandRecords
      <3>3. h = [r EXCEPT !.at = "front", !.idx = Len(indexes)]
        <4>1. r \in HandRecords
          BY <2>0
        <4> QED BY <3>1, <4>1, HandIdx
      <3>4. hand' = [hand EXCEPT ![c].at = "front", ![c].idx = Len(indexes)] /\ hand[c].at = "index"
        BY <2>1 DEF Explicit!LoadIndex
      <3>5. hand' = [hand EXCEPT ![c] = h]
        BY <1>0, <2>0, <3>3, <3>4
      <3> QED BY <2>0, <3>1, <3>2, <3>4, <3>5
    <2>2. CASE Explicit!LoadFront(c)
      <3>1. PICK h : h = [at |-> "offset", idx |-> r.idx, pos |-> ix.front, i |-> r.i]
        OBVIOUS
      <3>2. hand' = [hand EXCEPT ![c].at = "offset", ![c].pos = ix.front] /\ hand[c].at = "front"
        BY <1>5, <2>2 DEF Explicit!LoadFront
      <3>3. h \in HandRecords
        BY <1>6, <2>0, <3>1, <3>2, IndexFields DEF HandRecords
      <3>4. h = [r EXCEPT !.at = "offset", !.pos = ix.front]
        <4>1. r \in HandRecords
          BY <2>0
        <4>2. [r EXCEPT !.at = "offset", !.pos = ix.front] = [at |-> "offset", idx |-> r.idx, pos |-> ix.front, i |-> r.i]
          BY <4>1, HandPos
        <4> QED BY <3>1, <4>2, Zenon
      <3>5. hand' = [hand EXCEPT ![c] = h]
        BY <1>0, <2>0, <3>2, <3>4
      <3> QED BY <2>0, <3>1, <3>2, <3>3, <3>5
    <2>3. CASE Explicit!FindSlot(c)
      <3>0. PICK s : s = Explicit!SlotOf(r.i, ix, r.pos)
        OBVIOUS
      <3>1. PICK h : h = [at |-> "move", idx |-> r.idx, pos |-> s, i |-> r.i]
        OBVIOUS
      <3>2. hand' = [hand EXCEPT ![c].at = "move", ![c].pos = s] /\ hand[c].at = "offset"
        BY <1>5, <2>0, <2>3, <3>0 DEF Explicit!FindSlot
      <3>3. s \in Int
        <4>1. PICK p \in Int : InPhase(ix, p) /\ ix \in Indexes
          BY <1>6, <3>2
        <4>2. r.pos \in 0 .. ix.size - 1 /\ ix.entries[r.pos].block /= None
          BY <1>6, <2>0, <3>2 DEF Seen
        <4>3. PICK t \in 0 .. ix.size - 1 : Stands(ix.entries[t], Number(r.i))
          BY <1>4, <1>6, <2>0, <3>2 DEF Seen, Holds
        <4>4. s = t
          BY <1>0, <1>4, <2>0, <3>0, <4>1, <4>2, <4>3, SlotOfIs, XTypes DEF Walks
        <4> QED BY <4>4
      <3>4. h \in HandRecords
        BY <2>0, <3>1, <3>3 DEF HandRecords
      <3>5. h = [r EXCEPT !.at = "move", !.pos = s]
        <4>1. r \in HandRecords
          BY <2>0
        <4>2. [r EXCEPT !.at = "move", !.pos = s] = [at |-> "move", idx |-> r.idx, pos |-> s, i |-> r.i]
          BY <4>1, HandPos
        <4> QED BY <3>1, <4>2, Zenon
      <3>6. hand' = [hand EXCEPT ![c] = h]
        BY <1>0, <2>0, <3>2, <3>5
      <3> QED BY <2>0, <3>0, <3>1, <3>2, <3>4, <3>6
    <2> QED BY <2>1, <2>2, <2>3
  <1>8. /\ Walks' /\ hand'[c] = h /\ Rest(c)' = Rest(c) /\ Outside' /\ Owes(c)' = Owes(c)
        /\ \A d \in Consumers : d /= c => hand'[d] = hand[d] /\ Rest(d)' = Rest(d) /\ Owes(d)' = Owes(d)
    <2>1. h.at /= "idle" /\ (h.at \in MovedAt <=> hand[c].at \in MovedAt) /\ taken' = taken /\ UNCHANGED <<claim, headIndex, limit>>
      BY <1>1, <1>2, <1>3, <1>7 DEF MovedAt
    <2> QED BY <1>0, <1>3, <1>7, <2>1, PlaceWalks
  <1>9. Walking' /\ \A d \in Consumers : Rest(d)' = Rest(d) /\ Owes(d)' = Owes(d)
    BY <1>8 DEF Walking
  <1>10. XIndex' /\ XRing' /\ XCall' /\ Homes' = Homes /\ Top' = Top /\ Oldest' = Oldest
    BY <1>0, <1>1, <1>2, ConsumerKeeps
  <1>11. XCells'
    <2>1. \A i \in Int : Live(i)' => Live(i)
      BY <1>2, <1>9, <1>10 DEF Live
    <2>2. headIndex' \in Int /\ headIndex <= headIndex' /\ flags' \in [Blocks -> SUBSET Offsets]
      BY <1>0, <1>2, XTypes DEF XCells
    <2> QED BY <1>0, <1>1, <1>2, <2>1, <2>2, CellsKept
  <1>12. HandAt(c, indexes, Homes)'
    <2>0. PICK k, hs : k = h /\ hs = Homes
      OBVIOUS
    <2>1. CASE h.at = "front"
      <3>1. PICK nx \in Indexes : nx = Newest(indexes) /\ InPhase(nx, Phase) /\ Phase \in Int /\ nx = indexes[Len(indexes)]
                                  /\ Len(indexes) \in 1 .. Len(indexes)
        BY <1>0, XTypes, NewestIs DEF Newest, XIndex, IndexOK
      <3>2. ASSUME NEW i \in Rest(c) PROVE \E s \in 0 .. nx.size - 1 : Holds(nx.entries[s], Homes, Number(i))
        <4>1. Number(i) \in Oldest .. Made - 1 /\ Number(i) \in Int
          BY <1>0, RestLive
        <4>2. Stands(nx.entries[SlotIn(nx, Phase, Number(i))], Number(i)) /\ SlotIn(nx, Phase, Number(i)) \in 0 .. nx.size - 1
          BY <1>0, <3>1, <4>1, IndexFields DEF XIndex, IndexOK
        <4>3. nx.entries[SlotIn(nx, Phase, Number(i))].block = Homes[Number(i)]
          BY <3>1, <4>1 DEF Homes, HomeIn
        <4> QED BY <4>2, <4>3 DEF Holds
      <3>3. nx.entries[nx.front].block /= None
        <4>1. tailIndex > 0
          <5>1. Start <= hand[c].i /\ hand[c].i < headIndex /\ Start \in Nat
            BY <1>0, <1>4, RestIs DEF Walks
          <5>2. headIndex <= tailIndex /\ tailIndex \in Int /\ headIndex \in Int
            BY <1>0, HeadAtTail, XTypes
          <5> QED BY <1>4, <5>1, <5>2
        <4> QED BY <1>0, <3>1, <4>1 DEF XIndex
      <3>4. hand'[c].at = "front" /\ hand'[c].idx = Len(indexes)
        BY <1>7, <1>8, <2>1
      <3>5. hand'[c].idx \in 1 .. Len(indexes') /\ nx = indexes'[hand'[c].idx]
        BY <1>0, <3>1, <3>4, XTypes
      <3> QED BY <1>9, <1>10, <3>2, <3>3, <3>4, <3>5, HandNext
    <2>2. CASE h.at = "offset"
      <3>1. /\ ix \in Indexes /\ Seen(c, ix, Homes) /\ hand[c].idx \in 1 .. Len(indexes)
        BY <1>6, <1>7, <2>2
      <3>2. ix.front \in 0 .. ix.size - 1 /\ ix.entries[ix.front].block /= None
        BY <1>7, <2>2, <3>1, IndexFields DEF Seen
      <3>3. hand'[c].at = "offset" /\ hand'[c].idx = hand[c].idx /\ hand'[c].pos = ix.front
        BY <1>7, <1>8, <2>2
      <3>4. \A i \in Rest(c) : \E s \in 0 .. ix.size - 1 : Holds(ix.entries[s], Homes, Number(i))
        BY <3>1 DEF Seen
      <3>5. hand'[c].idx \in 1 .. Len(indexes') /\ ix = indexes'[hand'[c].idx]
        BY <1>5, <3>1, <3>3
      <3> QED BY <1>9, <1>10, <3>2, <3>3, <3>4, <3>5, HandNext
    <2>3. CASE h.at = "move"
      <3>1. /\ ix \in Indexes /\ Seen(c, ix, Homes) /\ hand[c].idx \in 1 .. Len(indexes) /\ \E p \in Int : InPhase(ix, p)
        BY <1>6, <1>7, <2>3
      <3>2. PICK p \in Int : InPhase(ix, p)
        BY <3>1
      <3>3. PICK t \in 0 .. ix.size - 1 : Holds(ix.entries[t], Homes, Number(hand[c].i))
        BY <1>4, <3>1 DEF Seen
      <3>4. hand[c].pos \in 0 .. ix.size - 1 /\ ix.entries[hand[c].pos].block /= None
        BY <1>7, <2>3, <3>1 DEF Seen
      <3>5. Explicit!SlotOf(hand[c].i, ix, hand[c].pos) = t
        <4>1. limit \in Int /\ Boundary(Start) /\ Stands(ix.entries[t], Number(hand[c].i))
          BY <1>0, <3>3, XTypes DEF Walks, Holds
        <4> QED BY <1>4, <3>1, <3>2, <3>4, <4>1, SlotOfIs
      <3>6. hand'[c].at = "move" /\ hand'[c].idx = hand[c].idx /\ hand'[c].pos = t /\ hand'[c].i = hand[c].i
        BY <1>7, <1>8, <2>3, <3>5
      <3>7. \A i \in Rest(c) : \E s \in 0 .. ix.size - 1 : Holds(ix.entries[s], Homes, Number(i))
        BY <3>1 DEF Seen
      <3>8. hand'[c].idx \in 1 .. Len(indexes') /\ ix = indexes'[hand'[c].idx]
        BY <1>5, <3>1, <3>6
      <3> QED BY <1>9, <1>10, <3>3, <3>6, <3>7, <3>8, HandNext
    <2> QED BY <1>7, <2>1, <2>2, <2>3
  <1>13. XHands'
    <2>1. ASSUME NEW d \in Consumers, d /= c PROVE HandAt(d, indexes, Homes)'
      BY <1>0, <1>8, <1>10, <2>1, OtherHands DEF XHands
    <2> QED BY <1>12, <2>1 DEF XHands
  <1>14. [SubQ!Next]_(SubQ!subQueueVars)
    <2>1. tailIndex <= tailIndex' /\ headIndex' = headIndex /\ taken' = taken
      BY <1>0, <1>1, <1>2, XTypes
    <2> QED BY <1>0, <1>9, <2>1, QuietStep
  <1>15. Stays
    BY <1>10, StaysPut
  <1>16. Emptied
    <2>1. headIndex \in Int
      BY <1>0, XTypes
    <2> QED BY <1>2, <1>9, <2>1, EmptiedNone
  <1> QED BY <1>9, <1>10, <1>11, <1>13, <1>14, <1>15, <1>16 DEF XInv

\* The block a consumer has found is the one of its positions, which have their elements in it.
LEMMA BlockFound ==
  ASSUME CountersInv, Walking, XInv, NEW c \in Consumers, hand[c].at \in {"move", "release"}
  PROVE  /\ claim[c].at = "owner" /\ hand[c].i \in Rest(c) /\ Here(c) \subseteq Rest(c)
         /\ Explicit!BlockAt(c) = Homes[Number(hand[c].i)]
         /\ Number(hand[c].i) \in Oldest .. Made - 1 /\ Number(hand[c].i) \in Int
         /\ hand[c].idx \in 1 .. Len(indexes) /\ indexes[hand[c].idx] \in Indexes /\ Seen(c, indexes[hand[c].idx], Homes)
         /\ \A i \in Here(c) : i \in Int /\ Number(i) = Number(hand[c].i) /\ cell[Explicit!BlockAt(c)][i % BlockSize] = i
  <1>0. Walks /\ XIndex /\ XRing /\ XCells /\ XHands
    BY DEF XInv, Walking
  <1>1. claim[c].at = "owner" /\ hand[c].at /= "idle"
    BY <1>0 DEF Walks
  <1>2. hand[c].i \in Rest(c) /\ Here(c) \subseteq Rest(c)
    <2>1. hand[c].i \in Int /\ hand[c].i < End(c)
      BY <1>0, <1>1, HereIs DEF Walks
    <2> QED BY <1>0, <1>1, <2>1, HereIs, RestIs
  <1>3. hand[c].idx \in 1 .. Len(indexes) /\ Seen(c, indexes[hand[c].idx], Homes)
    BY <1>0 DEF XHands, HandAt
  <1>4. indexes[hand[c].idx] \in Indexes
    BY <1>0, <1>3 DEF XIndex, IndexOK
  <1>5. Explicit!BlockAt(c) = Homes[Number(hand[c].i)]
    BY <1>3 DEF Explicit!BlockAt, Seen, Holds
  <1>6. Number(hand[c].i) \in Oldest .. Made - 1 /\ Number(hand[c].i) \in Int
    BY <1>0, <1>2, RestLive
  <1>7. ASSUME NEW i \in Here(c) PROVE i \in Int /\ Number(i) = Number(hand[c].i) /\ cell[Explicit!BlockAt(c)][i % BlockSize] = i
    <2>1. i \in Rest(c) /\ Number(i) = Number(hand[c].i)
      BY <1>0, <1>2, HereIs
    <2> QED BY <1>0, <1>5, <2>1, RestLive
  <1> QED BY <1>1, <1>2, <1>3, <1>4, <1>5, <1>6, <1>7

\* The elements in one block are moved out.
LEMMA XMove ==
  ASSUME XAll, CountersInv', NEW c \in Consumers, Explicit!MoveOut(c), UNCHANGED <<ring, indexes, prFront, prUsed, flags>>
  PROVE  Walking' /\ XInv' /\ [SubQ!Next]_(SubQ!subQueueVars) /\ Stays /\ Emptied
  <1>0. CountersInv /\ Walking /\ Walks /\ XInv /\ XIndex /\ XRing /\ XCall /\ XCells /\ XHands /\ hand[c] \in HandRecords
        /\ hand \in [Consumers -> HandRecords]
    BY DEF XAll, XInv, Walking, Walks
  <1>1. MoveOutOf(c, Explicit!BlockAt(c))
    BY ExplicitWalks DEF Explicit!MoveOut
  <1>2. /\ hand[c].at = "move" /\ hand' = [hand EXCEPT ![c].at = "release"]
        /\ taken' = taken \cup {cell[Explicit!BlockAt(c)][i % BlockSize] : i \in Here(c)}
        /\ UNCHANGED <<claimVars, pool, tailBlock, cell, prod, limit>>
    BY <1>1 DEF MoveOutOf
  <1>3. UNCHANGED <<tailIndex, headIndex, claim>>
    BY <1>2 DEF claimVars
  <1>4. \A i \in Here(c) : cell[Explicit!BlockAt(c)][i % BlockSize] = i
    BY <1>0, <1>2, BlockFound
  <1>5. taken' = taken \cup Here(c)
    <2>1. {cell[Explicit!BlockAt(c)][i % BlockSize] : i \in Here(c)} = Here(c)
      BY <1>4
    <2> QED BY <1>2, <2>1
  <1>6. PICK h : h = [hand[c] EXCEPT !.at = "release"]
    OBVIOUS
  <1>7. h = [at |-> "release", idx |-> hand[c].idx, pos |-> hand[c].pos, i |-> hand[c].i]
    <2>1. hand[c] = [at |-> hand[c].at, idx |-> hand[c].idx, pos |-> hand[c].pos, i |-> hand[c].i]
      BY <1>0 DEF HandRecords
    <2> QED BY <1>6, <2>1
  <1>8. h \in HandRecords /\ hand' = [hand EXCEPT ![c] = h] /\ h.i = hand[c].i /\ h.at \in MovedAt /\ hand[c].at \notin MovedAt
        /\ hand[c].at /= "idle" /\ h.at /= "idle"
    <2>1. h \in HandRecords
      BY <1>0, <1>7 DEF HandRecords
    <2>2. hand' = [hand EXCEPT ![c] = h]
      BY <1>0, <1>2, <1>6
    <2> QED BY <1>2, <1>7, <2>1, <2>2 DEF MovedAt
  <1>9. Walking' /\ [SubQ!Next]_(SubQ!subQueueVars)
    BY <1>0, <1>2, <1>3, <1>5, <1>8, MoveStep
  <1>10. /\ hand'[c] = h /\ Rest(c)' = Rest(c)
         /\ \A d \in Consumers : d /= c => hand'[d] = hand[d] /\ Rest(d)' = Rest(d)
    BY <1>0, <1>2, <1>3, <1>8, PlaceWalks
  <1>11. XIndex' /\ XRing' /\ XCall' /\ Homes' = Homes /\ Top' = Top /\ Oldest' = Oldest
    BY <1>0, <1>2, <1>3, ConsumerKeeps
  <1>12. XCells'
    <2>1. \A i \in Int : Live(i)' => Live(i)
      BY <1>3, <1>10, <1>11 DEF Live
    <2>2. headIndex' \in Int /\ headIndex <= headIndex' /\ flags' \in [Blocks -> SUBSET Offsets]
      BY <1>0, <1>3, XTypes DEF XCells
    <2> QED BY <1>0, <1>2, <1>3, <2>1, <2>2, CellsKept
  <1>13. HandAt(c, indexes, Homes)'
    <2>1. hand[c].idx \in 1 .. Len(indexes) /\ Seen(c, indexes[hand[c].idx], Homes)
      BY <1>0, <1>2, BlockFound
    <2>2. hand'[c].at = "release" /\ hand'[c].idx = hand[c].idx /\ hand'[c].pos = hand[c].pos /\ hand'[c].i = hand[c].i
      BY <1>7, <1>10
    <2>3. PICK ix : ix = indexes[hand[c].idx]
      OBVIOUS
    <2>4. hand'[c].idx \in 1 .. Len(indexes') /\ ix = indexes'[hand'[c].idx]
      BY <2>1, <2>2, <2>3
    <2>5. /\ \A i \in Rest(c) : \E s \in 0 .. ix.size - 1 : Holds(ix.entries[s], Homes, Number(i))
          /\ hand[c].pos \in 0 .. ix.size - 1 /\ Holds(ix.entries[hand[c].pos], Homes, Number(hand[c].i))
      BY <1>2, <2>1, <2>3 DEF Seen
    <2> QED BY <1>10, <1>11, <2>2, <2>4, <2>5, HandNext
  <1>14. XHands'
    <2>1. ASSUME NEW d \in Consumers, d /= c PROVE HandAt(d, indexes, Homes)'
      BY <1>0, <1>10, <1>11, <2>1, OtherHands DEF XHands
    <2> QED BY <1>13, <2>1 DEF XHands
  <1>15. Stays
    BY <1>11, StaysPut
  <1>16. Emptied
    <2>1. headIndex \in Int /\ headIndex' = headIndex
      BY <1>0, <1>3, XTypes
    <2>2. \A d \in Consumers : Rest(d)' = Rest(d)
      BY <1>10
    <2> QED BY <2>1, <2>2, EmptiedNone
  <1> QED BY <1>9, <1>11, <1>12, <1>14, <1>15, <1>16 DEF XInv

\* The cells are marked empty, and on to the next block.
LEMMA XRelease ==
  ASSUME XAll, CountersInv', NEW c \in Consumers, Explicit!Release(c)
  PROVE  Walking' /\ XInv' /\ [SubQ!Next]_(SubQ!subQueueVars) /\ Stays /\ Emptied
  <1>0. CountersInv /\ Walking /\ Walks /\ XInv /\ XIndex /\ XRing /\ XCall /\ XCells /\ XHands
    BY DEF XAll, XInv, Walking
  <1>1. PICK b, ix : b = Explicit!BlockAt(c) /\ ix = indexes[hand[c].idx]
    OBVIOUS
  <1>2. /\ hand[c].at = "release" /\ flags' = [flags EXCEPT ![b] = flags[b] \cup {i % BlockSize : i \in Here(c)}]
        /\ NextBlock(c, ix.size)
        /\ UNCHANGED <<pool, tailBlock, cell, prod, taken, limit, ring, indexes, prFront, prUsed>>
    <2>1. hand[c].at = "release" /\ Explicit!SetEmpty(b, {i % BlockSize : i \in Here(c)}) /\ Explicit!NextBlock(c, ix.size)
          /\ UNCHANGED <<pool, tailBlock, cell, prod, taken, limit, ring, indexes, prFront, prUsed>>
      BY <1>1, ExplicitWalks DEF Explicit!Release, Explicit!indexVars
    <2> QED BY <2>1, ExplicitWalks DEF Explicit!SetEmpty
  <1>3. PICK n \in Int : n = Number(hand[c].i) /\ n \in Oldest .. Made - 1 /\ b = Homes[n]
    BY <1>0, <1>1, <1>2, BlockFound
  <1>4. ix \in Indexes /\ Seen(c, ix, Homes) /\ hand[c].idx \in 1 .. Len(indexes) /\ ix.size \in Nat \ {0}
    BY <1>0, <1>1, <1>2, BlockFound, IndexFields
  <1>5. /\ Walking' /\ headIndex' = headIndex /\ tailIndex' = tailIndex
        /\ \A d \in Consumers : d /= c => hand'[d] = hand[d] /\ Rest(d)' = Rest(d)
        /\ \A d \in Consumers : Owes(d)' = Owes(d)
        /\ Rest(c)' \subseteq Rest(c)
        /\ \A i \in Here(c) : i \in Rest(c) /\ \A d \in Consumers : i \notin Rest(d)'
        /\ \/ hand'[c].at = "idle"
           \/ /\ hand'[c].at = "move" /\ hand'[c].idx = hand[c].idx /\ hand'[c].pos = (hand[c].pos + 1) % ix.size
              /\ hand'[c].i = NextHere(c) /\ NextHere(c) \in Rest(c)
    <2>1. hand[c].at \in MovedAt
      BY <1>2 DEF MovedAt
    <2> QED BY <1>0, <1>2, <1>4, <2>1, NextWalks
  <1>6. XIndex' /\ XRing' /\ XCall' /\ Homes' = Homes /\ Top' = Top /\ Oldest' = Oldest
    BY <1>0, <1>2, <1>5, ConsumerKeeps
  <1>7. \A i \in Int : Live(i)' => Live(i)
    BY <1>5, <1>6 DEF Live
  <1>8. XCells'
    <2>1. b \in Blocks
      BY <1>0, <1>3, XTypes
    <2>2. {i % BlockSize : i \in Here(c)} \subseteq Offsets
      <3>1. \A i \in Here(c) : i % BlockSize \in Offsets
        BY <1>0, <1>2, BlockFound, Division
      <3> QED BY <3>1
    <2>3. flags' \in [Blocks -> SUBSET Offsets] /\ \A x \in Blocks : flags'[x] = IF x = b THEN flags[b] \cup {i % BlockSize : i \in Here(c)} ELSE flags[x]
      BY <1>0, <1>2, <2>1, <2>2 DEF XCells
    <2>4. ASSUME NEW i \in Here(c) PROVE First(n) + (i % BlockSize) < headIndex' /\ ~Live(First(n) + (i % BlockSize))'
      <3>1. i \in Int /\ Number(i) = n /\ i \in Rest(c) /\ \A d \in Consumers : i \notin Rest(d)'
        BY <1>0, <1>2, <1>3, <1>5, BlockFound
      <3>2. i = First(n) + (i % BlockSize)
        BY <3>1, Division
      <3>3. i < headIndex
        BY <1>0, <3>1, RestIs
      <3>4. headIndex \in Int
        BY <1>0, XTypes
      <3>5. ~Live(i)'
        BY <1>5, <3>1, <3>3, <3>4 DEF Live
      <3> QED BY <1>5, <3>2, <3>3, <3>5
    <2>5. ASSUME NEW q \in Oldest .. Made - 1, NEW o \in flags'[Homes[q]]
          PROVE  o \in flags[Homes[q]] \/ (First(q) + o < headIndex' /\ ~Live(First(q) + o)')
      <3>1. Homes[q] \in Blocks
        BY <1>0, XTypes
      <3>2. CASE Homes[q] /= b
        BY <2>3, <2>5, <3>1, <3>2
      <3>3. CASE Homes[q] = b
        <4>1. q = n
          BY <1>0, <1>3, <3>3, XTypes
        <4>2. CASE o \in flags[b]
          BY <3>3, <4>2
        <4>3. ASSUME NEW i \in Here(c), o = i % BlockSize PROVE First(q) + o < headIndex' /\ ~Live(First(q) + o)'
          BY <2>4, <4>1, <4>3
        <4>4. o \in flags[b] \/ \E i \in Here(c) : o = i % BlockSize
          BY <2>3, <2>5, <3>1, <3>3
        <4> QED BY <4>2, <4>3, <4>4
      <3> QED BY <3>2, <3>3
    <2>6. headIndex' \in Int /\ headIndex <= headIndex'
      BY <1>0, <1>5, XTypes
    <2> QED BY <1>0, <1>2, <1>5, <1>7, <2>3, <2>5, <2>6, CellsKept
  <1>9. HandAt(c, indexes, Homes)'
    <2>1. CASE hand'[c].at = "idle"
      BY <2>1 DEF HandAt
    <2>2. CASE /\ hand'[c].at = "move" /\ hand'[c].idx = hand[c].idx /\ hand'[c].pos = (hand[c].pos + 1) % ix.size
               /\ hand'[c].i = NextHere(c) /\ NextHere(c) \in Rest(c)
      <3>1. Number(NextHere(c)) = n + 1
        BY <1>0, <1>3, HereIs
      <3>2. PICK t \in 0 .. ix.size - 1 : Holds(ix.entries[t], Homes, n + 1)
        BY <1>4, <2>2, <3>1 DEF Seen
      <3>3. PICK s \in 0 .. ix.size - 1 : s = hand[c].pos /\ Stands(ix.entries[s], n)
        BY <1>2, <1>3, <1>4 DEF Seen, Holds
      <3>4. PICK p \in Int : InPhase(ix, p)
        BY <1>0, <1>1, <1>4 DEF XIndex, IndexOK
      <3>5. Stands(ix.entries[t], n + 1)
        BY <3>2 DEF Holds
      <3>6. t = (s + 1) % ix.size
        BY <1>3, <1>4, <3>3, <3>4, <3>5, NextSlot
      <3>7. hand'[c].pos = t /\ hand'[c].at = "move" /\ hand'[c].idx = hand[c].idx /\ Number(hand'[c].i) = n + 1
        BY <2>2, <3>1, <3>3, <3>6
      <3>8. \A i \in Rest(c)' : \E x \in 0 .. ix.size - 1 : Holds(ix.entries[x], Homes, Number(i))
        BY <1>4, <1>5 DEF Seen
      <3>9. hand'[c].idx \in 1 .. Len(indexes') /\ ix = indexes'[hand'[c].idx]
        BY <1>1, <1>2, <1>4, <3>7
      <3>10. hand'[c].pos \in 0 .. ix.size - 1 /\ Holds(ix.entries[hand'[c].pos], Homes, Number(hand'[c].i))
        BY <3>2, <3>7
      <3> QED BY <1>6, <3>7, <3>8, <3>9, <3>10, HandNext
    <2> QED BY <1>5, <2>1, <2>2
  <1>10. XHands'
    <2>1. ASSUME NEW d \in Consumers, d /= c PROVE HandAt(d, indexes, Homes)'
      BY <1>0, <1>2, <1>5, <1>6, <2>1, OtherHands DEF XHands
    <2> QED BY <1>9, <2>1 DEF XHands
  <1>11. [SubQ!Next]_(SubQ!subQueueVars)
    <2>1. tailIndex <= tailIndex' /\ taken' = taken
      BY <1>0, <1>2, <1>5, XTypes
    <2> QED BY <1>0, <1>5, <2>1, QuietStep
  <1>12. b \in Blocks /\ \A x \in Blocks : flags'[x] = IF x = b THEN flags[b] \cup {i % BlockSize : i \in Here(c)} ELSE flags[x]
    <2>1. b \in Blocks
      BY <1>0, <1>3, XTypes
    <2>2. flags \in [Blocks -> SUBSET Offsets]
      BY <1>0 DEF XCells
    <2> QED BY <1>2, <2>1, <2>2
  <1>13. Stays
    <2>1. \A x \in Blocks : flags[x] \subseteq flags'[x]
      BY <1>12
    <2> QED BY <1>6, <2>1, StaysMarked
  <1>14. Emptied
    <2> SUFFICES ASSUME NEW i \in Int, i < headIndex', ~Live(i)'
                 PROVE  i < headIndex /\ (Live(i) => i % BlockSize \in flags'[Homes[Number(i)]])
      BY DEF Emptied
    <2>1. i < headIndex /\ \A d \in Consumers : i \notin Rest(d)'
      BY <1>5 DEF Live
    <2>2. \A d \in Consumers : d /= c => i \notin Rest(d)
      BY <1>5, <2>1
    <2>3. Live(i) => i \in Rest(c)
      <3>1. headIndex \in Int
        BY <1>0, XTypes
      <3> QED BY <2>1, <2>2, <3>1 DEF Live
    <2>4. ASSUME i \in Rest(c) PROVE i \in Here(c)
      <3>1. hand[c].at \in MovedAt
        BY <1>2 DEF MovedAt
      <3>2. i \in Rest(c)' <=> i \in Rest(c) /\ NextHere(c) <= i
        BY <1>0, <1>2, <1>4, <2>4, <3>1, NextWalks
      <3>3. i < NextHere(c)
        <4>1. NextHere(c) \in Int
          BY <1>0, HereIs
        <4> QED BY <2>1, <2>4, <3>2, <4>1
      <3>4. hand[c].i <= i /\ i < End(c)
        BY <1>0, <2>4, RestIs
      <3> QED BY <1>0, <3>3, <3>4, HereIs
    <2>5. ASSUME i \in Here(c) PROVE i % BlockSize \in flags'[Homes[Number(i)]]
      <3>1. Number(i) = n
        BY <1>0, <1>2, <1>3, <2>5, BlockFound
      <3>2. i % BlockSize \in {j % BlockSize : j \in Here(c)}
        BY <2>5
      <3>3. i % BlockSize \in flags'[b]
        BY <1>12, <3>2
      <3> QED BY <1>3, <3>1, <3>3
    <2> QED BY <2>1, <2>3, <2>4, <2>5
  <1> QED BY <1>5, <1>6, <1>8, <1>10, <1>11, <1>13, <1>14 DEF XInv

-----------------------------------------------------------------------------
(* The producer's steps in an explicit queue. *)

LEMMA Ends ==
  ASSUME XAll
  PROVE  /\ tailIndex \in Nat /\ headIndex \in Nat /\ limit \in Int /\ Start \in Nat /\ prod.n \in Nat
         /\ Start <= headIndex /\ headIndex <= tailIndex /\ tailIndex <= limit /\ tailIndex + prod.n <= limit
         /\ (prod.at /= "idle" => prod.n >= 1) /\ Start = limit - MaxPut
         /\ prod.need \in Nat /\ prod.at \in {"idle", "blocks", "fill", "expose", "publish"}
         /\ (prod.at /= "blocks" => prod.need = 0)
  <1>1. CountersInv /\ Walks /\ XCall
    BY DEF XAll, XInv, Walking
  <1>2. tailIndex \in Int /\ headIndex \in Int /\ limit \in Int /\ prod.n \in Nat /\ tailIndex + prod.n <= limit
        /\ (prod.at /= "idle" => prod.n >= 1)
    BY <1>1 DEF CountersInv, ClaimInv, Calling
  <1>3. Start \in Nat /\ Start <= headIndex /\ tailIndex <= limit
    BY <1>1 DEF CountersInv, Bounded, Walks
  <1>4. headIndex <= tailIndex
    BY <1>1, HeadAtTail
  <1>5. prod.need \in Nat /\ prod.at \in {"idle", "blocks", "fill", "expose", "publish"}
        /\ (prod.at = "blocks" <=> prod.need >= 1)
    BY <1>1 DEF XCall, ProdRecords
  <1> QED BY <1>2, <1>3, <1>4, <1>5 DEF Start

\* The number of the last position of a call, and its parts.
LEMMA MadeIs ==
  ASSUME XAll
  PROVE  /\ Made \in Int /\ Begun \in Int /\ Oldest \in Int /\ Begun <= Made /\ Oldest <= Made /\ prUsed \in Nat /\ Made = Oldest + prUsed
         /\ Number(tailIndex) \in Int /\ Oldest <= Number(tailIndex) /\ Number(tailIndex) <= Begun
         /\ Boundary(tailIndex) => Begun = Number(tailIndex) /\ tailIndex = First(Number(tailIndex))
         /\ ~Boundary(tailIndex) => Begun = Number(tailIndex) + 1 /\ tailIndex > 0
         /\ prod.at = "idle" => Made = Begun
         /\ prod.at /= "blocks" /\ prod.n >= 1 => Number(tailIndex) <= Made - 1
  <1>1. CountersInv /\ XIndex /\ XRing /\ XCall /\ tailIndex \in Nat /\ prod.n \in Nat
    BY Ends DEF XAll, XInv
  <1>2. Made \in Int /\ Begun \in Int /\ Oldest \in Int /\ Oldest <= Made /\ prUsed \in Nat
    BY <1>1, XTypes
  <1>3. Begun <= Made /\ Oldest <= Number(tailIndex) /\ Number(tailIndex) \in Int
    BY <1>1, Division DEF XIndex
  <1>4. Boundary(tailIndex) => Begun = Number(tailIndex) /\ tailIndex = First(Number(tailIndex))
    BY <1>1, <1>3, NextNumber DEF Begun
  <1>5. ~Boundary(tailIndex) => Begun = Number(tailIndex) + 1 /\ tailIndex > 0
    <2>1. Boundary(0)
      BY BlockAssumption DEF Boundary
    <2> QED BY <1>1, <1>3, <2>1, NextNumber DEF Begun
  <1>6. prod.at = "idle" => Made = Begun
    <2>1. prod.at = "idle" => prod.n = 0 /\ prod.need = 0
      BY <1>1 DEF XCall, NoCall
    <2>2. prod.at = "idle" => (tailIndex + prod.n) - 1 = tailIndex - 1
      BY <1>1, <2>1
    <2> QED BY <1>2, <2>1, <2>2 DEF Made, Begun
  <1>7. Made = Oldest + prUsed
    <2>1. PICK m \in Int, u \in Nat : m = Made /\ u = prUsed
      BY <1>2
    <2>2. Oldest = m - u
      BY <2>1 DEF Oldest
    <2> QED BY <2>1, <2>2
  <1>8. prod.at /= "blocks" /\ prod.n >= 1 => Number(tailIndex) <= Made - 1
    <2> SUFFICES ASSUME prod.at /= "blocks", prod.n >= 1 PROVE Number(tailIndex) <= Made - 1
      OBVIOUS
    <2>1. prod.need = 0
      BY Ends
    <2>2. PICK l \in Int : l = (tailIndex + prod.n) - 1 /\ tailIndex <= l
      BY <1>1
    <2>3. Number(tailIndex) <= Number(l) /\ Number(l) \in Int
      BY <1>1, <2>2, NumberOrder, Division
    <2>4. Made = Number(l) + 1
      BY <2>1, <2>2 DEF Made
    <2> QED BY <1>3, <2>3, <2>4
  <1> QED BY <1>2, <1>3, <1>4, <1>5, <1>6, <1>7, <1>8

\* Steps that leave the index and the ring alone.
LEMMA ProducerKeeps ==
  ASSUME XAll, CountersInv',
         UNCHANGED <<headIndex, claim, hand, taken, limit, indexes, prFront, prUsed, ring, pool, tailBlock>>,
         Made' = Made, tailIndex <= tailIndex'
  PROVE  /\ Walking' /\ [SubQ!Next]_(SubQ!subQueueVars) /\ XRing' /\ XHands'
         /\ Oldest' = Oldest /\ Homes' = Homes /\ Newest(indexes)' = Newest(indexes)
         /\ IndexOK(indexes, Phase, Oldest, Made)' /\ (prFront \in 0 .. Newest(indexes).size - 1 /\ prUsed \in Nat)'
         /\ \A d \in Consumers : Rest(d)' = Rest(d)
  <1>0. CountersInv /\ Walking /\ XIndex /\ XRing /\ XHands
    BY DEF XAll, XInv
  <1>1. Walking' /\ \A d \in Consumers : Rest(d)' = Rest(d) /\ Owes(d)' = Owes(d) /\ Here(d)' = Here(d)
    BY <1>0, ProducerWalks
  <1>2. [SubQ!Next]_(SubQ!subQueueVars)
    BY <1>0, <1>1, QuietStep
  <1>3. Oldest' = Oldest /\ Phase' = Phase /\ Numbers' = Numbers
    BY DEF Oldest, Phase, Numbers
  <1>4. Homes' = Homes /\ Newest(indexes)' = Newest(indexes)
    BY <1>3 DEF Homes
  <1>5. IndexOK(indexes, Phase, Oldest, Made)' /\ (prFront \in 0 .. Newest(indexes).size - 1 /\ prUsed \in Nat)'
    <2>1. IndexOK(indexes, Phase, Oldest, Made) /\ prFront \in 0 .. Newest(indexes).size - 1 /\ prUsed \in Nat
      BY <1>0 DEF XIndex
    <2>2. IndexOK(indexes, Phase, Oldest, Made)'
      BY <1>3, <2>1 DEF IndexOK, InPhase
    <2>3. (prFront \in 0 .. Newest(indexes).size - 1 /\ prUsed \in Nat)'
      BY <1>4, <2>1
    <2> QED BY <2>2, <2>3
  <1>6. XRing'
    BY <1>0, <1>3, <1>4 DEF XRing
  <1>7. XHands'
    <2>1. ASSUME NEW c \in Consumers PROVE HandAt(c, indexes, Homes)'
      <3>1. hand'[c] = hand[c] /\ \A i \in Rest(c)' : i \in Rest(c)
        BY <1>1
      <3> QED BY <1>0, <1>4, <3>1, OtherHands DEF XHands
    <2> QED BY <2>1 DEF XHands
  <1> QED BY <1>1, <1>2, <1>3, <1>4, <1>5, <1>6, <1>7

\* Only the marks of a block that was not in use change.
LEMMA StaysBut ==
  ASSUME XAll, NEW low \in Int, Oldest' = low, Oldest <= low, \A q \in low .. Made - 1 : Homes'[q] = Homes[q],
         NEW b, \A q \in low .. Made - 1 : Homes[q] /= b, \A x \in Blocks : x /= b => flags'[x] = flags[x]
  PROVE  Stays
  <1>1. CountersInv /\ XIndex /\ XRing
    BY DEF XAll, XInv
  <1>2. Made \in Int /\ Begun \in Int /\ Oldest \in Int /\ Begun <= Made
    BY MadeIs
  <1>3. ASSUME NEW q \in low .. Begun - 1 PROVE Homes'[q] = Homes[q] /\ flags'[Homes[q]] = flags[Homes[q]]
    <2>1. q \in low .. Made - 1 /\ q \in Oldest .. Made - 1
      BY <1>2
    <2>2. Homes[q] \in Blocks
      BY <1>1, <2>1, XTypes
    <2> QED BY <2>1, <2>2
  <1> QED BY <1>3 DEF Stays

\* What a call is between calls.
LEMMA IdleCall == NoCall \in ProdRecords /\ NoCall.at = "idle" /\ NoCall.n = 0 /\ NoCall.need = 0
  BY DEF NoCall, ProdRecords

LEMMA CallRecord ==
  ASSUME NEW at, NEW n
  PROVE  [NoCall EXCEPT !.at = at, !.n = n]
           = [at |-> at, n |-> n, need |-> 0, first |-> None, start |-> None, front0 |-> 0, used0 |-> 0]
  <1>1. PICK x : x = [NoCall EXCEPT !.at = at]
    OBVIOUS
  <1>2. x = [at |-> at, n |-> 0, need |-> 0, first |-> None, start |-> None, front0 |-> 0, used0 |-> 0]
    BY <1>1 DEF NoCall
  <1>3. PICK y : y = [x EXCEPT !.n = n]
    OBVIOUS
  <1>4. y = [at |-> at, n |-> n, need |-> 0, first |-> None, start |-> None, front0 |-> 0, used0 |-> 0]
    BY <1>2, <1>3
  <1> QED BY <1>1, <1>3, <1>4

LEMMA CallMade ==
  ASSUME NEW at \in {"publish", "expose"}, NEW n \in Nat, NEW r,
         r = [at |-> at, n |-> n, need |-> 0, first |-> None, start |-> None, front0 |-> 0, used0 |-> 0]
  PROVE  r \in ProdRecords /\ r.at = at /\ r.n = n /\ r.need = 0
  BY DEF ProdRecords

\* The elements of a call are published.
LEMMA XPublish ==
  ASSUME XAll, CountersInv', Explicit!Publish, UNCHANGED <<ring, indexes, prFront, prUsed, flags>>
  PROVE  Walking' /\ XInv' /\ [SubQ!Next]_(SubQ!subQueueVars) /\ Stays
  <1>0. CountersInv /\ Walking /\ XIndex /\ XRing /\ XCall /\ XCells /\ XHands
    BY DEF XAll, XInv
  <1>1. /\ prod.at = "publish" /\ tailIndex' = tailIndex + prod.n /\ prod' = NoCall
        /\ UNCHANGED <<headIndex, optimistic, overcommit, claim, pool, tailBlock, cell, hand, taken, limit>>
    <2>1. Publish
      BY ExplicitShares
    <2> QED BY <2>1 DEF Publish, Advance
  <1>2. /\ tailIndex \in Nat /\ headIndex \in Nat /\ prod.n \in Nat /\ prod.n >= 1 /\ prod.need = 0
        /\ headIndex <= tailIndex
    BY <1>1, Ends
  <1>3. PICK t \in Nat, n \in Nat : t = tailIndex /\ n = prod.n /\ tailIndex' = t + n /\ n >= 1
    BY <1>1, <1>2
  <1>4. Made' = Made /\ Begun' = Made /\ Top' = Top /\ Top = t + n
    <2>1. prod'.n = 0 /\ prod'.need = 0 /\ prod'.at = "idle"
      BY <1>1, IdleCall
    <2>2. (tailIndex' + prod'.n) - 1 = (tailIndex + prod.n) - 1 /\ tailIndex' - 1 = (tailIndex + prod.n) - 1
      BY <1>2, <1>3, <2>1
    <2>3. Made' = Made
      BY <1>2, <2>1, <2>2 DEF Made, Number
    <2>4. Begun' = Made
      <3>1. Begun' = Number((tailIndex + prod.n) - 1) + 1
        BY <2>2 DEF Begun, Number
      <3> QED BY <1>2, <3>1 DEF Made
    <2>5. Top' = Top /\ Top = t + n
      BY <1>1, <1>2, <1>3, <2>1 DEF Top
    <2> QED BY <2>3, <2>4, <2>5
  <1>5. tailIndex <= tailIndex'
    BY <1>3
  <1>6. /\ Walking' /\ [SubQ!Next]_(SubQ!subQueueVars) /\ XRing' /\ XHands'
        /\ Oldest' = Oldest /\ Homes' = Homes /\ Newest(indexes)' = Newest(indexes)
        /\ IndexOK(indexes, Phase, Oldest, Made)' /\ (prFront \in 0 .. Newest(indexes).size - 1 /\ prUsed \in Nat)'
        /\ \A d \in Consumers : Rest(d)' = Rest(d)
    BY <1>1, <1>4, <1>5, ProducerKeeps
  <1>7. XIndex'
    <2>1. Begun' <= Made'
      BY <1>4, MadeIs
    <2>2. Oldest' <= Number(tailIndex)'
      <3>1. Number(t) <= Number(t + n) /\ Number(t) \in Int /\ Number(t + n) \in Int /\ t + n \in Int
        BY <1>3, NumberOrder, Division
      <3>2. Number(tailIndex)' = Number(t + n)
        BY <1>3 DEF Number
      <3> QED BY <1>3, <1>6, <3>1, <3>2, MadeIs
    <2>3. (Newest(indexes).entries[Newest(indexes).front].block /= None)'
      BY <1>0, <1>1, <1>6 DEF XIndex
    <2>4. (tailIndex > 0 => prUsed >= 1)'
      <3>1. Live(t) /\ t \in Int
        BY <1>2, <1>3, <1>4 DEF Live
      <3>2. Number(t) \in Oldest .. Made - 1
        BY <1>0, <3>1 DEF XCells
      <3> QED BY <3>2, MadeIs
    <2> QED BY <1>6, <2>1, <2>2, <2>3, <2>4 DEF XIndex
  <1>8. XCall'
    BY <1>1, IdleCall DEF XCall
  <1>9. XCells'
    <2>1. \A i : Live(i)' <=> Live(i)
      BY <1>1, <1>4, <1>6 DEF Live
    <2>2. \A q \in Oldest .. Made - 1 : \A o \in flags[Homes[q]] : First(q) + o < headIndex /\ ~Live(First(q) + o)
      BY <1>0, <1>1 DEF XCells, Filling
    <2>3. (\A i \in Int : Live(i) => Number(i) \in Oldest .. Made - 1 /\ cell[Homes[Number(i)]][i % BlockSize] = i)'
      BY <1>0, <1>1, <1>4, <1>6, <2>1 DEF XCells
    <2>4. (\A q \in Oldest .. Made - 1 : q < Begun \/ Filling =>
             \A o \in flags[Homes[q]] : First(q) + o < headIndex /\ ~Live(First(q) + o))'
      BY <1>1, <1>4, <1>6, <2>1, <2>2
    <2> QED BY <1>0, <1>1, <2>3, <2>4 DEF XCells
  <1>10. Stays
    BY <1>1, <1>6, StaysPut
  <1> QED BY <1>6, <1>7, <1>8, <1>9, <1>10 DEF XInv

\* An element in a cell of its block does not disturb the others.
LEMMA CellPut ==
  ASSUME XAll, NEW q \in Oldest .. Made - 1, NEW o \in Offsets, NEW x \in Int, x = First(q) + o,
         cell' = [cell EXCEPT ![Homes[q]][o] = x]
  PROVE  /\ cell' \in [Blocks -> [Offsets -> Int \cup {None}]]
         /\ \A i \in Int : (Live(i) \/ i = x) /\ Number(i) \in Oldest .. Made - 1 => cell'[Homes[Number(i)]][i % BlockSize] = i
  <1>0. CountersInv /\ XIndex /\ XRing /\ XCells
    BY DEF XAll, XInv
  <1>1. PICK b \in Blocks : b = Homes[q]
    BY <1>0, XTypes
  <1>2. cell \in [Blocks -> [Offsets -> Int \cup {None}]]
    BY <1>0 DEF XCells
  <1>3. PICK g : g = [cell[b] EXCEPT ![o] = x]
    OBVIOUS
  <1>4. g \in [Offsets -> Int \cup {None}] /\ g[o] = x /\ \A d \in Offsets : d /= o => g[d] = cell[b][d]
    BY <1>2, <1>3
  <1>5. /\ cell' \in [Blocks -> [Offsets -> Int \cup {None}]]
        /\ cell'[b][o] = x /\ \A d \in Offsets : d /= o => cell'[b][d] = cell[b][d]
        /\ \A d \in Blocks : d /= b => cell'[d] = cell[d]
    <2>1. cell' = [cell EXCEPT ![b] = g]
      BY <1>1, <1>2, <1>3
    <2> QED BY <1>2, <1>4, <2>1
  <1>6. ASSUME NEW i \in Int, Live(i) \/ i = x, Number(i) \in Oldest .. Made - 1
        PROVE  cell'[Homes[Number(i)]][i % BlockSize] = i
    <2>1. Homes[Number(i)] \in Blocks /\ i % BlockSize \in Offsets /\ i = First(Number(i)) + (i % BlockSize)
          /\ Number(x) = q /\ x % BlockSize = o
      <3>1. q \in Int
        BY <1>0, XTypes
      <3>2. Homes[Number(i)] \in Blocks /\ i % BlockSize \in Offsets /\ i = First(Number(i)) + (i % BlockSize)
        BY <1>0, <1>6, XTypes, Division
      <3> QED BY <3>1, <3>2, Placed
    <2>2. CASE i = x
      BY <1>1, <1>5, <2>1, <2>2
    <2>3. CASE i /= x
      <3>1. cell[Homes[Number(i)]][i % BlockSize] = i
        BY <1>0, <1>6, <2>3 DEF XCells
      <3>2. CASE Homes[Number(i)] /= b
        BY <1>5, <2>1, <3>1, <3>2
      <3>3. CASE Homes[Number(i)] = b
        <4>1. Number(i) = q
          BY <1>0, <1>1, <1>6, <3>3, XTypes
        <4>2. i % BlockSize /= o
          BY <2>1, <2>3, <4>1
        <4> QED BY <1>5, <2>1, <3>1, <3>3, <4>2
      <3> QED BY <3>2, <3>3
    <2> QED BY <2>2, <2>3
  <1> QED BY <1>5, <1>6

\* enqueue when there is room in the tail block.
LEMMA XInBlock ==
  ASSUME XAll, CountersInv', Explicit!EnqueueInBlock, UNCHANGED <<ring, indexes, prFront, prUsed, flags>>
  PROVE  Walking' /\ XInv' /\ [SubQ!Next]_(SubQ!subQueueVars) /\ Stays
  <1>0. CountersInv /\ Walking /\ XIndex /\ XRing /\ XCall /\ XCells /\ XHands
    BY DEF XAll, XInv
  <1>1. /\ prod.at = "idle" /\ tailIndex < limit /\ ~Boundary(tailIndex)
        /\ cell' = [cell EXCEPT ![tailBlock][tailIndex % BlockSize] = tailIndex]
        /\ prod' = [NoCall EXCEPT !.at = "publish", !.n = 1]
        /\ UNCHANGED <<tailIndex, headIndex, optimistic, overcommit, claim, pool, tailBlock, hand, taken, limit>>
    <2>1. EnqueueInBlock
      BY ExplicitShares
    <2> QED BY <2>1 DEF EnqueueInBlock, claimVars
  <1>2. PICK t \in Nat, h \in Nat : t = tailIndex /\ h = headIndex /\ h <= t
    BY Ends
  <1>3. prod' \in ProdRecords /\ prod'.at = "publish" /\ prod'.n = 1 /\ prod'.need = 0
    <2>1. prod' = [at |-> "publish", n |-> 1, need |-> 0, first |-> None, start |-> None, front0 |-> 0, used0 |-> 0]
      BY <1>1, CallRecord, Zenon
    <2> QED BY <2>1, CallMade
  <1>4. Made = Begun /\ Begun = Number(t) + 1 /\ Oldest <= Number(t) /\ Number(t) \in Int /\ Made \in Int /\ Oldest \in Int /\ t > 0
    BY <1>1, <1>2, MadeIs
  <1>5. Made' = Made /\ Begun' = Begun /\ Top = t /\ Top' = t + 1
    <2>1. (tailIndex' + prod'.n) - 1 = t
      BY <1>1, <1>2, <1>3
    <2>2. Made' = Number(t) + (1 - 0)
      BY <1>3, <2>1 DEF Made, Number
    <2>3. Made' = Made
      BY <1>4, <2>2
    <2> QED BY <1>1, <1>2, <1>3, <2>3 DEF Begun, Top, Number
  <1>6. /\ Walking' /\ [SubQ!Next]_(SubQ!subQueueVars) /\ XRing' /\ XHands'
        /\ Oldest' = Oldest /\ Homes' = Homes /\ Newest(indexes)' = Newest(indexes)
        /\ IndexOK(indexes, Phase, Oldest, Made)' /\ (prFront \in 0 .. Newest(indexes).size - 1 /\ prUsed \in Nat)'
        /\ \A d \in Consumers : Rest(d)' = Rest(d)
    <2>1. tailIndex <= tailIndex'
      BY <1>1, <1>2
    <2> QED BY <1>1, <1>5, <2>1, ProducerKeeps
  <1>7. XIndex'
    <2>1. /\ (Begun <= Made)' /\ (tailIndex > 0 => prUsed >= 1)' /\ (Oldest <= Number(tailIndex))'
      BY <1>0, <1>1, <1>5, <1>6 DEF XIndex, Number
    <2>2. (Newest(indexes).entries[Newest(indexes).front].block /= None)'
      BY <1>0, <1>2, <1>4, <1>6 DEF XIndex
    <2> QED BY <1>6, <2>1, <2>2 DEF XIndex
  <1>8. XCall'
    BY <1>3 DEF XCall
  <1>9. tailBlock = Homes[Number(t)] /\ Number(t) \in Oldest .. Made - 1
    <2>1. Oldest < Made /\ Made - 1 = Number(t)
      BY <1>4
    <2>2. tailBlock = Homes[Made - 1]
      BY <1>0, <2>1 DEF XRing, Ringed
    <2> QED BY <1>4, <2>1, <2>2
  <1>10. XCells'
    <2>1. PICK o \in Offsets : o = t % BlockSize /\ t = First(Number(t)) + o
      BY <1>2, Division
    <2>2. cell' = [cell EXCEPT ![Homes[Number(t)]][o] = t]
      BY <1>1, <1>2, <1>9, <2>1
    <2>3. /\ cell' \in [Blocks -> [Offsets -> Int \cup {None}]]
          /\ \A i \in Int : (Live(i) \/ i = t) /\ Number(i) \in Oldest .. Made - 1 => cell'[Homes[Number(i)]][i % BlockSize] = i
      <3>1. PICK q \in Oldest .. Made - 1 : q = Number(t)
        BY <1>9
      <3>2. t = First(q) + o /\ cell' = [cell EXCEPT ![Homes[q]][o] = t] /\ t \in Int
        BY <2>1, <2>2, <3>1
      <3> QED BY <3>2, CellPut
    <2>4. \A i \in Int : Live(i)' <=> Live(i) \/ i = t
      BY <1>1, <1>2, <1>5, <1>6 DEF Live
    <2>5. ASSUME NEW i \in Int, Live(i)' PROVE Number(i) \in Oldest .. Made - 1
      BY <1>0, <1>9, <2>4, <2>5 DEF XCells
    <2>6. (\A i \in Int : Live(i) => Number(i) \in Oldest .. Made - 1 /\ cell[Homes[Number(i)]][i % BlockSize] = i)'
      BY <1>5, <1>6, <2>3, <2>4, <2>5
    <2>7. ASSUME NEW q \in Oldest .. Made - 1, NEW o2 \in flags[Homes[q]]
          PROVE  First(q) + o2 < headIndex /\ ~Live(First(q) + o2)'
      <3>1. q < Begun
        BY <1>4, <2>7
      <3>2. First(q) + o2 < headIndex /\ ~Live(First(q) + o2)
        BY <1>0, <2>7, <3>1 DEF XCells
      <3>3. o2 \in Offsets /\ q \in Int
        <4>1. Homes[q] \in Blocks
          BY <1>0, XTypes
        <4>2. flags[Homes[q]] \subseteq Offsets
          BY <1>0, <4>1 DEF XCells
        <4> QED BY <1>4, <2>7, <4>2
      <3>4. PICK x \in Int : x = First(q) + o2
        BY <3>3, Placed
      <3>5. x /= t
        BY <1>2, <3>2, <3>4
      <3> QED BY <2>4, <3>2, <3>4, <3>5
    <2>8. (\A q \in Oldest .. Made - 1 : q < Begun \/ Filling =>
             \A o2 \in flags[Homes[q]] : First(q) + o2 < headIndex /\ ~Live(First(q) + o2))'
      BY <1>1, <1>5, <1>6, <2>7
    <2> QED BY <1>0, <1>1, <2>3, <2>6, <2>8 DEF XCells
  <1>11. Stays
    BY <1>1, <1>6, StaysPut
  <1> QED BY <1>6, <1>7, <1>8, <1>10, <1>11 DEF XInv

\* enqueue_bulk begins.
LEMMA XBegin ==
  ASSUME XAll, CountersInv', NEW n \in BulkSizes, Explicit!BulkBegin(n)
  PROVE  Walking' /\ XInv' /\ [SubQ!Next]_(SubQ!subQueueVars) /\ Stays
  <1>0. CountersInv /\ Walking /\ XIndex /\ XRing /\ XCall /\ XCells /\ XHands
    BY DEF XAll, XInv
  <1>1. /\ prod.at = "idle" /\ tailIndex + n <= limit
        /\ prod' = [at |-> IF Explicit!BlocksFor(n) = 0 THEN "fill" ELSE "blocks", n |-> n, need |-> Explicit!BlocksFor(n),
                    first |-> None, start |-> tailBlock, front0 |-> prFront, used0 |-> prUsed]
        /\ UNCHANGED <<tailIndex, headIndex, optimistic, overcommit, claim, pool, tailBlock, cell, hand, taken, limit,
                       ring, indexes, prFront, prUsed, flags>>
    BY DEF Explicit!BulkBegin, Explicit!claimVars, Explicit!indexVars
  <1>2. PICK t \in Nat, h \in Nat : t = tailIndex /\ h = headIndex /\ h <= t
    BY Ends
  <1>3. n \in Nat /\ n >= 1
    BY IndexAssumption
  <1>4. PICK k \in Nat : k = Explicit!BlocksFor(n) /\ k = Number((t + n) - 1) - Number(t - 1)
    <2>1. Number(t - 1) <= Number((t + n) - 1) /\ Number(t - 1) \in Int /\ Number((t + n) - 1) \in Int
      BY <1>2, <1>3, NumberOrder, Division
    <2>2. t + n - 1 = (t + n) - 1
      BY <1>2, <1>3
    <2>3. Explicit!BlocksFor(n) = Number((t + n) - 1) - Number(t - 1)
      BY <1>2, <2>2 DEF Explicit!BlocksFor, Number
    <2> QED BY <2>1, <2>3
  <1>5. PICK at : at = IF k = 0 THEN "fill" ELSE "blocks"
    OBVIOUS
  <1>6. prod' = [at |-> at, n |-> n, need |-> k, first |-> None, start |-> tailBlock, front0 |-> prFront, used0 |-> prUsed]
    BY <1>1, <1>4, <1>5
  <1>7. /\ prod'.at = at /\ prod'.n = n /\ prod'.need = k /\ prod'.first = None /\ prod'.start = tailBlock
        /\ prod'.front0 = prFront /\ prod'.used0 = prUsed
    BY <1>6
  <1>8. Made = Begun /\ Begun = Number(t - 1) + 1 /\ Number(t - 1) \in Int /\ Begun \in Int
    BY <1>1, <1>2, MadeIs, Division DEF Begun
  <1>9. Made' = Made /\ Begun' = Begun /\ Top = t /\ Top' = t
    <2>1. (tailIndex' + prod'.n) - 1 = (t + n) - 1
      BY <1>1, <1>2, <1>7
    <2>2. PICK l \in Int, f \in Int : l = Number((t + n) - 1) /\ f = Number(t - 1)
      BY <1>2, <1>3, Division
    <2>3. Made' = l + (1 - k)
      BY <1>7, <2>1, <2>2 DEF Made, Number
    <2>4. Made' = Made
      BY <1>4, <1>8, <2>2, <2>3
    <2> QED BY <1>1, <1>2, <1>5, <1>7, <2>4 DEF Begun, Top, Number
  <1>10. /\ Walking' /\ [SubQ!Next]_(SubQ!subQueueVars) /\ XRing' /\ XHands'
         /\ Oldest' = Oldest /\ Homes' = Homes /\ Newest(indexes)' = Newest(indexes)
         /\ IndexOK(indexes, Phase, Oldest, Made)' /\ (prFront \in 0 .. Newest(indexes).size - 1 /\ prUsed \in Nat)'
         /\ \A d \in Consumers : Rest(d)' = Rest(d)
    <2>1. tailIndex <= tailIndex'
      BY <1>1, <1>2
    <2> QED BY <1>1, <1>9, <2>1, ProducerKeeps
  <1>11. XIndex'
    <2>1. /\ (Begun <= Made)' /\ (tailIndex > 0 => prUsed >= 1)' /\ (Oldest <= Number(tailIndex))'
      BY <1>0, <1>1, <1>9, <1>10 DEF XIndex, Number
    <2>2. (tailIndex > 0 \/ prod.at = "publish" => Newest(indexes).entries[Newest(indexes).front].block /= None)'
      BY <1>0, <1>1, <1>5, <1>7, <1>10 DEF XIndex
    <2> QED BY <1>10, <2>1, <2>2 DEF XIndex
  <1>12. tailBlock \in Blocks \cup {None} /\ (Oldest < Begun => tailBlock = Homes[Begun - 1])
    <2>1. tailBlock = IF Oldest < Made THEN Homes[Made - 1] ELSE None
      BY <1>0 DEF XRing, Ringed
    <2>2. Homes \in [Int -> Blocks \cup {None}]
      BY <1>0, XTypes
    <2>3. Made - 1 \in Int /\ (Oldest < Begun => Oldest < Made /\ Begun - 1 = Made - 1)
      BY <1>8
    <2> QED BY <2>1, <2>2, <2>3
  <1>13. XCall'
    <2>1. prod' \in ProdRecords
      <3>1. prFront \in Int /\ prUsed \in Int
        BY <1>0 DEF XIndex
      <3> QED BY <1>3, <1>5, <1>6, <1>12, <3>1 DEF ProdRecords
    <2>2. prod'.at = "blocks" <=> prod'.need >= 1
      BY <1>4, <1>5, <1>7
    <2>3. prod'.at \in {"blocks", "fill"}
      BY <1>5, <1>7
    <2>4. (prod.first = IF Begun < Made THEN Homes[Begun] ELSE None)'
      BY <1>7, <1>8, <1>9
    <2>5. (Oldest < Begun => prod.start = Homes[Begun - 1])'
      BY <1>7, <1>9, <1>10, <1>12
    <2>6. (prod.start = tailBlock /\ prod.front0 = prFront /\ prod.used0 = prUsed)'
      BY <1>1, <1>7
    <2>7. (0 <= prod.used0 /\ prod.used0 <= prUsed)'
      BY <1>0, <1>1, <1>7 DEF XIndex
    <2>8. (tailIndex > 0 => prod.used0 >= 1)'
      BY <1>0, <1>1, <1>7 DEF XIndex
    <2> QED BY <2>1, <2>2, <2>3, <2>4, <2>5, <2>6, <2>7, <2>8 DEF XCall
  <1>14. XCells'
    <2>1. \A i : Live(i)' <=> Live(i)
      BY <1>1, <1>9, <1>10 DEF Live
    <2>2. \A q \in Oldest .. Made - 1 : \A o \in flags[Homes[q]] : First(q) + o < headIndex /\ ~Live(First(q) + o)
      <3>1. \A q \in Oldest .. Made - 1 : q < Begun
        BY <1>8
      <3> QED BY <1>0, <3>1 DEF XCells
    <2>3. (\A i \in Int : Live(i) => Number(i) \in Oldest .. Made - 1 /\ cell[Homes[Number(i)]][i % BlockSize] = i)'
      BY <1>0, <1>1, <1>9, <1>10, <2>1 DEF XCells
    <2>4. (\A q \in Oldest .. Made - 1 : q < Begun \/ Filling =>
             \A o \in flags[Homes[q]] : First(q) + o < headIndex /\ ~Live(First(q) + o))'
      BY <1>1, <1>9, <1>10, <2>1, <2>2
    <2> QED BY <1>0, <1>1, <2>3, <2>4 DEF XCells
  <1>15. Stays
    BY <1>1, <1>10, StaysPut
  <1> QED BY <1>10, <1>11, <1>13, <1>14, <1>15 DEF XInv

\* Another slot of the newest index is its front.
Fronted(ixs, f) == [ixs EXCEPT ![Len(ixs)] = [size |-> Newest(ixs).size, front |-> f, entries |-> Newest(ixs).entries]]

LEMMA FrontIndex ==
  ASSUME NEW ixs, NEW p, NEW lo, NEW n, IndexOK(ixs, p, lo, n), NEW f \in 0 .. Newest(ixs).size - 1, NEW new, new = Fronted(ixs, f)
  PROVE  /\ IndexOK(new, p, lo, n) /\ Len(new) = Len(ixs) /\ \A j \in 1 .. Len(ixs) : j /= Len(ixs) => new[j] = ixs[j]
         /\ Newest(new).size = Newest(ixs).size /\ Newest(new).front = f /\ Newest(new).entries = Newest(ixs).entries
         /\ \A q : HomeIn(new, p, q) = HomeIn(ixs, p, q)
  <1>1. PICK ix \in Indexes : ix = Newest(ixs)
    BY NewestIs DEF IndexOK
  <1>2. PICK m, e : /\ m = ix.size /\ e = ix.entries /\ e \in [0 .. m - 1 -> Entries] /\ m \in Nat \ {0}
                    /\ ix = [size |-> m, front |-> ix.front, entries |-> e]
    BY IndexFields
  <1>3. PICK k : k = Len(ixs) /\ k \in 1 .. Len(ixs) /\ ix = ixs[k] /\ k \in Nat
    BY <1>1, NewestIs DEF IndexOK, Newest
  <1>4. PICK y : y = [size |-> m, front |-> f, entries |-> e]
    OBVIOUS
  <1>5. y \in Indexes /\ y.size = m /\ y.front = f /\ y.entries = e
    BY <1>1, <1>2, <1>4, IsIndex
  <1>6. new = [ixs EXCEPT ![k] = y]
    BY <1>1, <1>2, <1>3, <1>4 DEF Fronted
  <1>7. ixs \in Seq(Indexes)
    BY DEF IndexOK
  <1>8. /\ new \in Seq(Indexes) /\ Len(new) = k /\ new[k] = y
        /\ \A j \in 1 .. k : j /= k => new[j] = ixs[j]
    BY <1>3, <1>5, <1>6, <1>7
  <1>9. Newest(new) = y
    BY <1>8 DEF Newest
  <1>10. \A q : SlotIn(y, p, q) = SlotIn(ix, p, q)
    BY <1>2, <1>5 DEF SlotIn
  <1>11. \A q : HomeIn(new, p, q) = HomeIn(ixs, p, q)
    BY <1>1, <1>2, <1>5, <1>9, <1>10 DEF HomeIn
  <1>12. \A r : InPhase(ix, r) => InPhase(y, r)
    <2>1. y.size = ix.size /\ y.entries = ix.entries
      BY <1>2, <1>5
    <2> QED BY <2>1 DEF InPhase, SlotIn
  <1>13. IndexOK(new, p, lo, n)
    <2>1. \A j \in 1 .. Len(new) : \E r \in Int : InPhase(new[j], r)
      BY <1>3, <1>8, <1>12 DEF IndexOK
    <2>2. InPhase(y, p) /\ \A q \in lo .. n - 1 : Stands(y.entries[SlotIn(y, p, q)], q)
      BY <1>1, <1>2, <1>5, <1>10, <1>12 DEF IndexOK
    <2>3. p \in Int /\ lo \in Int /\ n \in Int /\ lo <= n /\ n - lo <= y.size
      BY <1>1, <1>2, <1>5 DEF IndexOK
    <2>4. Len(new) >= 1
      BY <1>3, <1>8
    <2> QED BY <1>8, <1>9, <2>1, <2>2, <2>3, <2>4 DEF IndexOK
  <1> QED BY <1>1, <1>2, <1>3, <1>5, <1>8, <1>9, <1>11, <1>13

LEMMA FrontHand ==
  ASSUME NEW c, NEW ixs, NEW h, HandAt(c, ixs, h), NEW new, Len(new) = Len(ixs), Len(ixs) \in Nat,
         \A j \in 1 .. Len(ixs) : j /= Len(ixs) => new[j] = ixs[j],
         Newest(new).size = Newest(ixs).size, Newest(new).entries = Newest(ixs).entries,
         Newest(new).entries[Newest(new).front].block /= None
  PROVE  HandAt(c, new, h)
  <1> SUFFICES ASSUME hand[c].at \in {"front", "offset", "move", "release"}
               PROVE  hand[c].idx \in 1 .. Len(new) /\ Seen(c, new[hand[c].idx], h)
    BY DEF HandAt
  <1>1. hand[c].idx \in 1 .. Len(ixs) /\ Seen(c, ixs[hand[c].idx], h)
    BY DEF HandAt
  <1>2. CASE hand[c].idx /= Len(ixs)
    BY <1>1, <1>2
  <1>3. CASE hand[c].idx = Len(ixs)
    BY <1>1, <1>3 DEF Newest, Seen
  <1> QED BY <1>2, <1>3

\* blockIndex->front.store: the entries filled are there for consumers to start from.
LEMMA XExpose ==
  ASSUME XAll, CountersInv', Explicit!Expose
  PROVE  Walking' /\ XInv' /\ [SubQ!Next]_(SubQ!subQueueVars) /\ Stays
  <1>0. CountersInv /\ Walking /\ XIndex /\ XRing /\ XCall /\ XCells /\ XHands
    BY DEF XAll, XInv
  <1>1. PICK f : f = (prFront - 1) % Newest(indexes).size
    OBVIOUS
  <1>2. /\ prod.at = "expose" /\ indexes' = [indexes EXCEPT ![Len(indexes)].front = f]
        /\ prod' = [prod EXCEPT !.at = "publish"]
        /\ UNCHANGED <<tailIndex, headIndex, optimistic, overcommit, claim, pool, ring, tailBlock, prFront, prUsed, flags, cell, hand, taken, limit>>
    BY <1>1 DEF Explicit!Expose, Explicit!claimVars, Explicit!Cur, Newest
  <1>3. prod \in ProdRecords /\ prod.need = 0 /\ prod.n >= 1 /\ prod.n \in Nat /\ tailIndex \in Nat
    BY <1>0, <1>2, Ends DEF XCall
  <1>4. prod' \in ProdRecords /\ prod'.at = "publish" /\ prod'.n = prod.n /\ prod'.need = 0
    BY <1>2, <1>3 DEF ProdRecords
  <1>5. Made' = Made /\ Begun' = Begun /\ Top' = Top /\ Oldest' = Oldest /\ Phase' = Phase /\ Numbers' = Numbers
    <2>1. Made' = Made /\ Begun' = Begun /\ Top' = Top
      BY <1>2, <1>3, <1>4 DEF Made, Begun, Top
    <2> QED BY <1>2, <2>1 DEF Oldest, Phase, Numbers
  <1>6. PICK ix \in Indexes : ix = Newest(indexes) /\ prFront \in 0 .. ix.size - 1 /\ ix.size \in Nat \ {0}
    BY <1>0, NewestIs, IndexFields DEF XIndex, IndexOK
  <1>7. /\ Made \in Int /\ Oldest \in Int /\ Phase \in Int /\ Oldest <= Made - 1
    <2>1. Phase \in Int
      BY <1>0, XTypes
    <2>2. Made \in Int /\ Oldest \in Int /\ Begun < Made /\ Oldest <= Number(tailIndex) /\ Number(tailIndex) \in Int
          /\ Number(tailIndex) <= Begun /\ Begun \in Int
      BY <1>0, <1>2, MadeIs DEF XCall
    <2> QED BY <2>1, <2>2
  <1>8. f = SlotIn(ix, Phase, Made - 1) /\ f \in 0 .. ix.size - 1
    <2>1. (Made - 1) + Phase = prFront - 1 /\ prFront - 1 \in Int /\ Made - 1 \in Int
      BY <1>6, <1>7 DEF Phase
    <2> QED BY <1>1, <1>6, <1>7, <2>1, IndexFields DEF SlotIn
  <1>9. ix.entries[f].block /= None
    <2>1. IndexOK(indexes, Phase, Oldest, Made)
      BY <1>0 DEF XIndex
    <2>2. Made - 1 \in Oldest .. Made - 1
      BY <1>7
    <2>3. Stands(ix.entries[f], Made - 1)
      BY <1>6, <1>8, <2>1, <2>2 DEF IndexOK
    <2> QED BY <2>3, NoneAssumption DEF Stands
  <1>10. /\ IndexOK(indexes', Phase, Oldest, Made) /\ Len(indexes') = Len(indexes)
         /\ \A j \in 1 .. Len(indexes) : j /= Len(indexes) => indexes'[j] = indexes[j]
         /\ Newest(indexes').size = ix.size /\ Newest(indexes').front = f /\ Newest(indexes').entries = ix.entries
         /\ \A q : HomeIn(indexes', Phase, q) = HomeIn(indexes, Phase, q)
    <2>1. IndexOK(indexes, Phase, Oldest, Made) /\ f \in 0 .. Newest(indexes).size - 1
      BY <1>0, <1>6, <1>8 DEF XIndex
    <2>2. PICK ixs, p, lo, n, new : ixs = indexes /\ p = Phase /\ lo = Oldest /\ n = Made /\ new = indexes'
      OBVIOUS
    <2>3. PICK y : y = [size |-> Newest(ixs).size, front |-> f, entries |-> Newest(ixs).entries]
      OBVIOUS
    <2>4. new = Fronted(ixs, f)
      <3>1. ix = [size |-> ix.size, front |-> ix.front, entries |-> ix.entries] /\ ix = ixs[Len(ixs)] /\ ix = Newest(ixs)
        BY <1>6, <2>2, IndexFields DEF Newest
      <3>2. [ix EXCEPT !.front = f] = y
        BY <2>3, <3>1
      <3>3. new = [ixs EXCEPT ![Len(ixs)] = [ix EXCEPT !.front = f]]
        BY <1>2, <2>2, <3>1
      <3> QED BY <2>3, <3>2, <3>3 DEF Fronted
    <2>5. IndexOK(ixs, p, lo, n) /\ f \in 0 .. Newest(ixs).size - 1
      BY <2>1, <2>2
    <2>6. /\ IndexOK(new, p, lo, n) /\ Len(new) = Len(ixs) /\ \A j \in 1 .. Len(ixs) : j /= Len(ixs) => new[j] = ixs[j]
          /\ Newest(new).size = Newest(ixs).size /\ Newest(new).front = f /\ Newest(new).entries = Newest(ixs).entries
          /\ \A q : HomeIn(new, p, q) = HomeIn(ixs, p, q)
      BY <2>4, <2>5, FrontIndex
    <2> QED BY <1>6, <2>2, <2>6
  <1>11. Homes' = Homes
    BY <1>5, <1>10 DEF Homes, HomeIn, Newest, SlotIn
  <1>12. IndexOK(indexes, Phase, Oldest, Made)'
    BY <1>5, <1>10 DEF IndexOK, InPhase
  <1>13. Walking' /\ \A d \in Consumers : Rest(d)' = Rest(d) /\ Owes(d)' = Owes(d) /\ Here(d)' = Here(d)
    BY <1>0, <1>2, ProducerWalks
  <1>14. [SubQ!Next]_(SubQ!subQueueVars)
    <2>1. tailIndex <= tailIndex'
      BY <1>2, <1>3
    <2> QED BY <1>0, <1>2, <1>13, <2>1, QuietStep
  <1>15. XIndex'
    <2>1. Newest(indexes)' = Newest(indexes')
      BY DEF Newest
    <2>2. (prFront \in 0 .. Newest(indexes).size - 1 /\ prUsed \in Nat)'
      BY <1>0, <1>2, <1>6, <1>10, <2>1 DEF XIndex
    <2>3. (Begun <= Made /\ Oldest <= Number(tailIndex))'
      BY <1>0, <1>2, <1>5 DEF XIndex, Number
    <2>4. (Newest(indexes).entries[Newest(indexes).front].block /= None)'
      BY <1>9, <1>10, <2>1
    <2>5. (tailIndex > 0 => prUsed >= 1)'
      BY <1>0, <1>2 DEF XIndex
    <2> QED BY <1>12, <2>2, <2>3, <2>4, <2>5 DEF XIndex
  <1>16. XRing'
    BY <1>0, <1>2, <1>5, <1>11 DEF XRing
  <1>17. XCall'
    BY <1>4 DEF XCall
  <1>18. XCells'
    <2>1. \A i : Live(i)' <=> Live(i)
      BY <1>2, <1>5, <1>13 DEF Live
    <2>2. \A q \in Oldest .. Made - 1 : \A o \in flags[Homes[q]] : First(q) + o < headIndex /\ ~Live(First(q) + o)
      BY <1>0, <1>2 DEF XCells, Filling
    <2>3. (\A i \in Int : Live(i) => Number(i) \in Oldest .. Made - 1 /\ cell[Homes[Number(i)]][i % BlockSize] = i)'
      BY <1>0, <1>2, <1>5, <1>11, <2>1 DEF XCells
    <2>4. (\A q \in Oldest .. Made - 1 : q < Begun \/ Filling =>
             \A o \in flags[Homes[q]] : First(q) + o < headIndex /\ ~Live(First(q) + o))'
      BY <1>2, <1>5, <1>11, <2>1, <2>2
    <2> QED BY <1>0, <1>2, <2>3, <2>4 DEF XCells
  <1>19. XHands'
    <2> SUFFICES ASSUME NEW c \in Consumers PROVE HandAt(c, indexes, Homes)'
      BY DEF XHands
    <2>1. HandAt(c, indexes, Homes) /\ Len(indexes) \in Nat
      BY <1>0, XTypes DEF XHands
    <2>2. HandAt(c, indexes', Homes)
      <3>1. Newest(indexes').entries[Newest(indexes').front].block /= None
        BY <1>9, <1>10
      <3>2. Newest(indexes').size = Newest(indexes).size /\ Newest(indexes').entries = Newest(indexes).entries
        BY <1>6, <1>10
      <3> QED BY <1>10, <2>1, <3>1, <3>2, FrontHand
    <2>3. hand' = hand /\ Rest(c)' = Rest(c)
      BY <1>2, <1>13
    <2> QED BY <1>11, <2>2, <2>3 DEF HandAt, Seen, Holds, Stands
  <1>20. Stays
    BY <1>2, <1>5, <1>11, StaysPut
  <1> QED BY <1>13, <1>14, <1>15, <1>16, <1>17, <1>18, <1>19, <1>20 DEF XInv

\* An index that has the blocks in use, with the next slot to fill.
Ready(ixs, front) ==
  /\ IndexOK(ixs, front - Made, Oldest, Made) /\ front \in 0 .. Newest(ixs).size - 1
  /\ \A q \in Oldest .. Made - 1 : HomeIn(ixs, front - Made, q) = Homes[q]
  /\ tailIndex > 0 => Newest(ixs).entries[Newest(ixs).front].block /= None
  /\ \A c \in Consumers : HandAt(c, ixs, Homes)

LEMMA ReadyAsIs == ASSUME XAll PROVE Ready(indexes, prFront)
  <1>1. XIndex /\ XRing /\ XHands /\ CountersInv
    BY DEF XAll, XInv
  <1>2. Phase = prFront - Made
    BY DEF Phase
  <1>3. \A q \in Oldest .. Made - 1 : HomeIn(indexes, Phase, q) = Homes[q]
    <2>1. \A q \in Oldest .. Made - 1 : q \in Int
      BY <1>1, XTypes
    <2> QED BY <2>1 DEF Homes
  <1> QED BY <1>1, <1>2, <1>3 DEF Ready, XIndex, XHands

\* new_block_index.
LEMMA GrownIs ==
  ASSUME XAll, NEW e \in Int, NEW m, m = Newest(indexes).size
  PROVE  Explicit!Grown(e) = Doubled(indexes, Phase, Oldest, Made, (e - 1) % (2 * m))
  <1>1. CountersInv /\ XIndex /\ XRing
    BY DEF XAll, XInv
  <1>2. PICK a \in Int, u \in Nat, n \in Int : a = prFront /\ u = prUsed /\ n = Made /\ m \in Nat \ {0}
    BY <1>1, XTypes, IndexFields DEF XIndex
  <1>3. Phase + Oldest = a - u /\ Made - Oldest = u /\ Phase + Oldest \in Int
    BY <1>2 DEF Phase, Oldest
  <1>4. Explicit!Cur = Newest(indexes)
    BY DEF Explicit!Cur, Newest
  <1>5. PICK g : g = [s \in 0 .. 2 * m - 1 |-> IF s < u THEN Newest(indexes).entries[(a - u + s) % m] ELSE [base |-> 0, block |-> None]]
    OBVIOUS
  <1>6. PICK h : h = [s \in 0 .. 2 * m - 1 |-> IF s < u THEN [j \in 0 .. u - 1 |-> Newest(indexes).entries[(a - u + j) % m]][s]
                                               ELSE [base |-> 0, block |-> None]]
    OBVIOUS
  <1>7. g = h
    <2>1. ASSUME NEW s \in 0 .. 2 * m - 1 PROVE g[s] = h[s]
      <3>1. s \in Int /\ 0 <= s
        BY <1>2
      <3>2. s < u => s \in 0 .. u - 1
        BY <1>2, <3>1
      <3> QED BY <1>5, <1>6, <3>2
    <2> QED BY <1>5, <1>6, <2>1
  <1>8. Explicit!Grown(e) = Append(indexes, [size |-> 2 * m, front |-> (e - 1) % (2 * m), entries |-> h])
    BY <1>2, <1>4, <1>6 DEF Explicit!Grown, Explicit!NewIndex, Explicit!EmptySlot
  <1>9. Doubled(indexes, Phase, Oldest, Made, (e - 1) % (2 * m))
          = Append(indexes, [size |-> 2 * m, front |-> (e - 1) % (2 * m), entries |-> g])
    <2>1. \A s \in 0 .. 2 * m - 1 : Phase + Oldest + s = (a - u) + s
      BY <1>3
    <2>2. g = [s \in 0 .. 2 * m - 1 |->
                IF s < Made - Oldest THEN Newest(indexes).entries[(Phase + Oldest + s) % m] ELSE [base |-> 0, block |-> None]]
      BY <1>3, <1>5, <2>1
    <2> QED BY <2>2 DEF Doubled
  <1> QED BY <1>7, <1>8, <1>9

LEMMA ReadyGrown ==
  ASSUME XAll, NEW e \in Nat, e <= prUsed, tailIndex > 0 => e >= 1, prUsed = Explicit!Cur.size, NEW new, new = Explicit!Grown(e)
  PROVE  Ready(new, prUsed) /\ Newest(new).size = 2 * prUsed /\ prUsed >= 1
  <1>1. CountersInv /\ XIndex /\ XRing /\ XHands
    BY DEF XAll, XInv
  <1>2. PICK m : m \in Nat \ {0} /\ m = Newest(indexes).size /\ prUsed = m
    BY <1>1, XTypes, IndexFields DEF Explicit!Cur, Newest
  <1>3. PICK p, lo, n : p \in Int /\ lo \in Int /\ n \in Int /\ p = Phase /\ lo = Oldest /\ n = Made /\ IndexOK(indexes, p, lo, n) /\ n - lo = m
    <2>1. Phase \in Int /\ Oldest \in Int /\ Made \in Int
      BY <1>1, XTypes
    <2>2. Made - Oldest = m
      BY <1>2, <2>1, MadeIs
    <2> QED BY <1>1, <2>1, <2>2 DEF XIndex
  <1>4. PICK f : f = (e - 1) % (2 * m)
    OBVIOUS
  <1>5. f \in 0 .. 2 * m - 1 /\ (e >= 1 => f = e - 1)
    <2>1. PICK w \in Nat \ {0} : w = 2 * m
      BY <1>2
    <2>2. e >= 1 => e - 1 \in 0 .. w - 1
      BY <1>2, <2>1
    <2>3. f = (e - 1) % w /\ e - 1 \in Int
      BY <1>4, <2>1
    <2>4. f \in 0 .. w - 1 /\ (e - 1 \in 0 .. w - 1 => f = e - 1)
      BY <2>1, <2>3, Remains
    <2> QED BY <2>1, <2>2, <2>4
  <1>6. new = Doubled(indexes, p, lo, n, f)
    <2>1. Explicit!Grown(e) = Doubled(indexes, Phase, Oldest, Made, (e - 1) % (2 * m))
      BY <1>2, GrownIs
    <2> QED BY <1>3, <1>4, <2>1
  <1>7. /\ IndexOK(new, -lo, lo, n) /\ Newest(new).size = 2 * m /\ Newest(new).front = f
        /\ \A q \in lo .. n - 1 : HomeIn(new, -lo, q) = HomeIn(indexes, p, q)
        /\ Len(new) = Len(indexes) + 1 /\ \A j \in 1 .. Len(indexes) : new[j] = indexes[j]
        /\ \A s \in 0 .. n - lo - 1 : Newest(new).entries[s].block \in Blocks
    <2>1. PICK ixs : ixs = indexes
      OBVIOUS
    <2>2. IndexOK(ixs, p, lo, n) /\ m = Newest(ixs).size /\ f \in 0 .. 2 * m - 1 /\ new = Doubled(ixs, p, lo, n, f)
      BY <1>2, <1>3, <1>5, <1>6, <2>1
    <2>3. /\ IndexOK(new, -lo, lo, n) /\ Newest(new).size = 2 * m /\ Newest(new).front = f
          /\ \A q \in lo .. n - 1 : HomeIn(new, -lo, q) = HomeIn(ixs, p, q)
          /\ Len(new) = Len(ixs) + 1 /\ \A j \in 1 .. Len(ixs) : new[j] = ixs[j]
          /\ \A s \in 0 .. n - lo - 1 : Newest(new).entries[s].block \in Blocks
      BY <2>2, GrowIndex
    <2> QED BY <2>1, <2>3
  <1>8. prUsed - Made = -lo
    BY <1>2, <1>3
  <1>9. prUsed \in 0 .. Newest(new).size - 1
    BY <1>2, <1>7
  <1>10. \A q \in Oldest .. Made - 1 : HomeIn(new, -lo, q) = Homes[q]
    <2>1. \A q \in lo .. n - 1 : q \in Int /\ Homes[q] = HomeIn(indexes, p, q)
      BY <1>3 DEF Homes
    <2> QED BY <1>3, <1>7, <2>1
  <1>11. tailIndex > 0 => Newest(new).entries[Newest(new).front].block /= None
    <2> SUFFICES ASSUME tailIndex > 0 PROVE Newest(new).entries[f].block /= None
      BY <1>7
    <2>1. f \in 0 .. n - lo - 1
      BY <1>2, <1>3, <1>5
    <2> QED BY <1>7, <2>1, NoneAssumption
  <1>12. \A c \in Consumers : HandAt(c, new, Homes)
    <2> SUFFICES ASSUME NEW c \in Consumers PROVE HandAt(c, new, Homes)
      OBVIOUS
    <2>1. PICK h, ixs : h = Homes /\ ixs = indexes
      OBVIOUS
    <2>2. HandAt(c, ixs, h) /\ Len(ixs) \in Nat /\ Len(new) = Len(ixs) + 1 /\ \A j \in 1 .. Len(ixs) : new[j] = ixs[j]
      BY <1>1, <1>7, <2>1, XTypes DEF XHands
    <2>3. HandAt(c, new, h)
      BY <2>2, GrowHand
    <2> QED BY <2>1, <2>3
  <1>13. IndexOK(new, prUsed - Made, Oldest, Made)
    BY <1>3, <1>7, <1>8
  <1>14. \A q \in Oldest .. Made - 1 : HomeIn(new, prUsed - Made, q) = Homes[q]
    BY <1>8, <1>10
  <1>15. Newest(new).size = 2 * prUsed /\ prUsed >= 1
    BY <1>2, <1>7
  <1> QED BY <1>9, <1>11, <1>12, <1>13, <1>14, <1>15 DEF Ready

\* A home is a block, or none.
LEMMA HomeIs ==
  ASSUME NEW ixs, NEW p, NEW lo, NEW n, IndexOK(ixs, p, lo, n), NEW q \in Int
  PROVE  HomeIn(ixs, p, q) \in Blocks \cup {None}
  <1>1. PICK ix \in Indexes : ix = Newest(ixs)
    BY NewestIs DEF IndexOK
  <1>2. SlotIn(ix, p, q) \in 0 .. ix.size - 1 /\ ix.entries \in [0 .. ix.size - 1 -> Entries]
    BY <1>1, IndexFields DEF IndexOK
  <1>3. ix.entries[SlotIn(ix, p, q)] \in Entries
    BY <1>2
  <1> QED BY <1>1, <1>3 DEF HomeIn, Entries

\* Consumers that stay where they are see what they saw.
LEMMA HandCarried ==
  ASSUME NEW c \in Consumers, NEW ixs, NEW h, HandAt(c, ixs, h), indexes' = ixs, Homes' = h, hand' = hand, Rest(c)' = Rest(c)
  PROVE  HandAt(c, indexes, Homes)'
  BY DEF HandAt, Seen, Holds, Stands

\* The walks and the promise of the queue do not concern what the producer does to its index.
LEMMA PutWalks ==
  ASSUME XAll, CountersInv', UNCHANGED <<tailIndex, headIndex, claim, hand, taken, limit>>
  PROVE  /\ Walking' /\ [SubQ!Next]_(SubQ!subQueueVars) /\ Begun' = Begun /\ Numbers' = Numbers
         /\ \A d \in Consumers : Rest(d)' = Rest(d) /\ hand' = hand
  <1>0. CountersInv /\ Walking
    BY DEF XAll
  <1>1. Walking' /\ \A d \in Consumers : Rest(d)' = Rest(d) /\ Owes(d)' = Owes(d) /\ Here(d)' = Here(d)
    BY <1>0, ProducerWalks
  <1>2. tailIndex <= tailIndex'
    BY Ends
  <1>3. [SubQ!Next]_(SubQ!subQueueVars)
    BY <1>0, <1>1, <1>2, QuietStep
  <1> QED BY <1>1, <1>3 DEF Begun, Numbers, Number

\* A larger index, without a new entry yet.
LEMMA NoEntry ==
  ASSUME XAll, CountersInv', NEW ixs, NEW f, Ready(ixs, f), indexes' = ixs, prFront' = f, prUsed' = prUsed, Made' = Made,
         UNCHANGED <<tailIndex, headIndex, claim, hand, taken, limit>>
  PROVE  /\ Oldest' = Oldest /\ Homes' \in [Int -> Blocks \cup {None}]
         /\ \A q \in Oldest .. Made - 1 : Homes'[q] = Homes[q]
         /\ IndexOK(indexes, Phase, Oldest, Made)' /\ (prFront \in 0 .. Newest(indexes).size - 1 /\ prUsed \in Nat)'
         /\ (tailIndex > 0 => Newest(indexes).entries[Newest(indexes).front].block /= None)'
         /\ XHands'
  <1>0. XIndex /\ XRing /\ CountersInv
    BY DEF XAll, XInv
  <1>1. Oldest' = Oldest /\ Phase' = f - Made /\ Numbers' = Numbers /\ \A d \in Consumers : Rest(d)' = Rest(d) /\ hand' = hand
    BY PutWalks DEF Oldest, Phase
  <1>2. Made \in Int /\ Oldest \in Int /\ prUsed \in Nat
    BY <1>0, XTypes
  <1>3. PICK p, lo, n, h : p = f - Made /\ lo = Oldest /\ n = Made /\ h = Homes
    OBVIOUS
  <1>4. IndexOK(ixs, p, lo, n) /\ \A q \in lo .. n - 1 : HomeIn(ixs, p, q) = h[q]
    BY <1>3 DEF Ready
  <1>5. Homes' = [q \in Int |-> HomeIn(ixs, p, q)]
    BY <1>1, <1>3 DEF Homes
  <1>6. Homes' \in [Int -> Blocks \cup {None}]
    BY <1>4, <1>5, HomeIs
  <1>7. \A q \in Oldest .. Made - 1 : Homes'[q] = Homes[q]
    <2>1. \A q \in lo .. n - 1 : q \in Int
      BY <1>2, <1>3
    <2> QED BY <1>3, <1>4, <1>5, <2>1
  <1>8. IndexOK(indexes, Phase, Oldest, Made)'
    BY <1>1, <1>3, <1>4 DEF IndexOK, InPhase
  <1>9. Newest(indexes)' = Newest(ixs)
    BY DEF Newest
  <1>10. (prFront \in 0 .. Newest(indexes).size - 1 /\ prUsed \in Nat)'
    BY <1>2, <1>9 DEF Ready
  <1>11. (tailIndex > 0 => Newest(indexes).entries[Newest(indexes).front].block /= None)'
    BY <1>9 DEF Ready
  <1>12. XHands'
    <2> SUFFICES ASSUME NEW c \in Consumers PROVE HandAt(c, indexes, Homes)'
      BY DEF XHands
    <2>1. PICK g : g = Homes'
      OBVIOUS
    <2>2. HandAt(c, ixs, h) /\ \A q \in lo .. n - 1 : g[q] = h[q]
      BY <1>3, <1>7, <2>1 DEF Ready
    <2>3. /\ \A i \in Rest(c) : Number(i) \in lo .. n - 1
          /\ hand[c].at \in {"move", "release"} => Number(hand[c].i) \in lo .. n - 1
      <3>1. CountersInv /\ Walks /\ XIndex /\ XRing /\ XCells /\ Walking /\ XInv
        BY DEF XAll, XInv, Walking
      <3>2. \A i \in Rest(c) : Number(i) \in lo .. n - 1
        BY <1>3, <3>1, RestLive
      <3> QED BY <1>3, <3>1, <3>2, BlockFound
    <2>4. HandAt(c, ixs, g)
      BY <2>2, <2>3 DEF HandAt, Seen, Holds
    <2> QED BY <1>1, <2>1, <2>4, HandCarried
  <1> QED BY <1>1, <1>6, <1>7, <1>8, <1>10, <1>11, <1>12

\* One more block in the index.  The oldest may have gone, with all its positions.
LEMMA AddEntry ==
  ASSUME XAll, CountersInv', NEW ixs, NEW f, Ready(ixs, f), NEW b \in Blocks, Made \in Numbers,
         NEW low, low = Oldest \/ low = Oldest + 1, low <= Made, Made + 1 - low <= Newest(ixs).size,
         indexes' = Explicit!PutEntry(ixs, f, First(Made), b), prFront' = (f + 1) % Newest(ixs).size,
         prUsed' = (Made + 1) - low, Made' = Made + 1,
         UNCHANGED <<tailIndex, headIndex, claim, hand, taken, limit>>,
         \A c \in Consumers : \A i \in Rest(c) : low <= Number(i)
  PROVE  /\ Oldest' = low /\ Homes' \in [Int -> Blocks \cup {None}]
         /\ \A q \in low .. Made - 1 : Homes'[q] = Homes[q]
         /\ Homes'[Made] = b
         /\ IndexOK(indexes, Phase, Oldest, Made)' /\ (prFront \in 0 .. Newest(indexes).size - 1 /\ prUsed \in Nat)'
         /\ (tailIndex > 0 => Newest(indexes).entries[Newest(indexes).front].block /= None)' /\ (prUsed >= 1)'
         /\ XHands'
  <1>0. XIndex /\ XRing /\ CountersInv
    BY DEF XAll, XInv
  <1>1. Numbers' = Numbers /\ \A d \in Consumers : Rest(d)' = Rest(d) /\ hand' = hand
    BY PutWalks
  <1>2. Made \in Int /\ Oldest \in Int /\ low \in Int
    BY <1>0, XTypes
  <1>3. PICK p, lo, n, h, new, m, r :
          /\ p = f - Made /\ lo = Oldest /\ n = Made /\ h = Homes /\ new = indexes' /\ m = Newest(ixs).size
          /\ r = prFront' - (n + 1)
    OBVIOUS
  <1>4. /\ IndexOK(ixs, p, lo, n) /\ \A q \in lo .. n - 1 : HomeIn(ixs, p, q) = h[q]
        /\ new = Explicit!PutEntry(ixs, f, First(n), b) /\ n \in Numbers /\ f \in 0 .. m - 1
        /\ tailIndex > 0 => Newest(ixs).entries[Newest(ixs).front].block /= None
    BY <1>3 DEF Ready
  <1>5. Newest(ixs) \in Indexes /\ m \in Nat \ {0} /\ n \in Int /\ lo \in Int /\ f \in Int /\ p = f - n /\ p \in Int
        /\ Newest(ixs).front \in 0 .. m - 1 /\ 0 <= f /\ f < m
    <2>1. Newest(ixs) \in Indexes
      BY <1>4, NewestIs DEF IndexOK
    <2> QED BY <1>2, <1>3, <1>4, <2>1, IndexFields
  <1>6. f = SlotIn(Newest(ixs), p, n)
    <2>1. n + p = f /\ f \in 0 .. m - 1
      BY <1>5
    <2>2. f % m = f
      BY <1>5, <2>1, Remains
    <2> QED BY <1>3, <2>1, <2>2 DEF SlotIn
  <1>7. low \in {lo, lo + 1} /\ low <= n /\ n + 1 - low <= Newest(ixs).size
    BY <1>2, <1>3
  <1>7a. OneMore(ixs, new, p, low, n, f, b)
    BY <1>4, <1>6, <1>7, PutIndex
  <1>8. /\ IndexOK(new, p, low, n + 1) /\ Newest(new).size = Newest(ixs).size
        /\ Newest(new).front = Newest(ixs).front
        /\ \A q \in low .. n - 1 : HomeIn(new, p, q) = HomeIn(ixs, p, q)
        /\ HomeIn(new, p, n) = b /\ Newest(new).entries[f].block = b
        /\ \A s \in 0 .. Newest(ixs).size - 1 : s /= f => Newest(new).entries[s] = Newest(ixs).entries[s]
    BY <1>7a DEF OneMore
  <1>9. r \in {p, p - m}
    <2>1. r = ((f + 1) % m) - (n + 1)
      BY <1>3
    <2>2. CASE f + 1 < m
      <3>1. f + 1 \in 0 .. m - 1 /\ f + 1 \in Int
        BY <1>5, <2>2
      <3>2. (f + 1) % m = f + 1
        BY <1>5, <3>1, Remains
      <3> QED BY <1>5, <2>1, <3>2
    <2>3. CASE f + 1 = m
      <3>1. m % m = 0
        BY <1>5
      <3> QED BY <1>5, <2>1, <2>3, <3>1
    <2> QED BY <1>5, <2>2, <2>3
  <1>10. IndexOK(new, r, low, n + 1) /\ \A q \in Int : HomeIn(new, r, q) = HomeIn(new, p, q)
    <2>1. r \in {p, p - Newest(new).size}
      BY <1>3, <1>8, <1>9
    <2>2. IndexOK(new, r, low, n + 1) /\ \A q \in Int : SlotIn(Newest(new), r, q) = SlotIn(Newest(new), p, q)
      BY <1>8, <2>1, PhaseWraps
    <2> QED BY <2>2 DEF HomeIn
  <1>11. Oldest' = low /\ Phase' = r /\ Made' = n + 1
    BY <1>2, <1>3 DEF Oldest, Phase
  <1>12. Homes' = [q \in Int |-> HomeIn(new, r, q)]
    BY <1>3, <1>11 DEF Homes
  <1>13. Homes' \in [Int -> Blocks \cup {None}]
    BY <1>10, <1>12, HomeIs
  <1>14. PICK g : g = Homes'
    OBVIOUS
  <1>15. /\ \A q \in low .. n - 1 : q \in Int /\ q \in lo .. n - 1
         /\ \A q \in low .. n - 1 : g[q] = h[q] /\ HomeIn(ixs, p, q) = h[q]
         /\ g[n] = b
    <2>1. \A q \in low .. n - 1 : q \in Int /\ q \in lo .. n - 1
      BY <1>2, <1>5, <1>7
    <2> QED BY <1>4, <1>5, <1>8, <1>10, <1>12, <1>14, <2>1
  <1>16. \A q \in low .. Made - 1 : Homes'[q] = Homes[q]
    BY <1>3, <1>14, <1>15
  <1>17. Homes'[Made] = b
    BY <1>3, <1>14, <1>15
  <1>18. IndexOK(indexes, Phase, Oldest, Made)'
    BY <1>1, <1>3, <1>10, <1>11 DEF IndexOK, InPhase
  <1>19. Newest(indexes)' = Newest(new) /\ Newest(new).size = m
    BY <1>3, <1>8 DEF Newest
  <1>20. (prFront \in 0 .. Newest(indexes).size - 1 /\ prUsed \in Nat)' /\ (prUsed >= 1)'
    <2>1. f + 1 \in Int
      BY <1>5
    <2>2. (f + 1) % m \in 0 .. m - 1
      BY <1>5, <2>1, Remains
    <2> QED BY <1>2, <1>3, <1>19, <2>2
  <1>21. (tailIndex > 0 => Newest(indexes).entries[Newest(indexes).front].block /= None)'
    <2>1. tailIndex > 0 => Newest(new).entries[Newest(new).front].block /= None
      BY <1>3, <1>4, <1>5, <1>8, NoneAssumption
    <2> QED BY <1>19, <2>1
  <1>22. XHands'
    <2> SUFFICES ASSUME NEW c \in Consumers PROVE HandAt(c, indexes, Homes)'
      BY DEF XHands
    <2>1. HandAt(c, ixs, h)
      BY <1>3 DEF Ready
    <2>2. /\ \A i \in Rest(c) : i \in Int /\ Number(i) \in low .. n - 1
          /\ hand[c].at \in {"move", "release"} => hand[c].i \in Rest(c)
      <3>1. CountersInv /\ Walks /\ XIndex /\ XRing /\ XCells /\ Walking /\ XInv
        BY DEF XAll, XInv, Walking
      <3>2. \A i \in Rest(c) : i \in Int /\ Number(i) \in lo .. n - 1 /\ Number(i) \in Int /\ low <= Number(i)
        BY <1>3, <3>1, RestLive
      <3>3. hand[c].at \in {"move", "release"} => hand[c].i \in Rest(c)
        BY <3>1, BlockFound
      <3> QED BY <1>2, <1>5, <3>2, <3>3
    <2>3. low \in Int /\ lo <= low
      BY <1>2, <1>3
    <2>4. HandAt(c, new, g)
      BY <1>4, <1>7a, <1>15, <2>1, <2>2, <2>3, PutHand
    <2> QED BY <1>1, <1>3, <1>14, <2>4, HandCarried
  <1> QED BY <1>11, <1>13, <1>16, <1>17, <1>18, <1>20, <1>21, <1>22

\* The blocks of a behaviour that get elements have numbers of it.
LEMMA InNumbers ==
  ASSUME XAll, NEW i \in Int, Start <= i, i < limit
  PROVE  Number(i) \in Numbers /\ Number(i) \in Int
  <1>1. limit \in Int /\ Start \in Int /\ Start = limit - MaxPut
    BY Ends
  <1>2. PICK l \in Int, s \in Int : l = limit /\ s = Start
    BY <1>1
  <1>3. Number(s) <= Number(i) /\ Number(i) <= Number(l - 1) /\ Number(s) \in Int /\ Number(i) \in Int /\ Number(l - 1) \in Int
    <2>1. s <= i /\ i <= l - 1 /\ l - 1 \in Int
      BY <1>2
    <2> QED BY <2>1, NumberOrder, Division
  <1>4. Numbers = Number(s) - 1 .. Number(l - 1)
    BY <1>1, <1>2 DEF Numbers
  <1>5. Number(i) \in Number(s) - 1 .. Number(l - 1)
    BY <1>3
  <1> QED BY <1>3, <1>4, <1>5

\* enqueue starts a block: the element goes in its first cell, with its entry in the index.
LEMMA XStart ==
  ASSUME XAll, CountersInv', prod.at = "idle", tailIndex < limit, Boundary(tailIndex),
         NEW ixs, NEW f, Ready(ixs, f), NEW b \in Blocks,
         NEW low, low = Oldest \/ low = Oldest + 1, low <= Made, Made + 1 - low <= Newest(ixs).size,
         NEW used, used = (Made + 1) - low, Explicit!StartIn(b, ixs, f, used), Explicit!ResetEmpty({b}),
         UNCHANGED <<claimVars, hand, taken, limit>>,
         \A q \in low .. Made - 1 : Homes[q] /= b,
         \A i \in Int : Live(i) => low <= Number(i),
         \A g \in [Int -> Blocks \cup {None}] :
           (\A q \in low .. Made - 1 : g[q] = Homes[q]) /\ g[Made] = b => Ringed(g, low, Made + 1, ring', pool', b)
  PROVE  Walking' /\ XInv' /\ [SubQ!Next]_(SubQ!subQueueVars) /\ Stays
  <1>0. CountersInv /\ Walking /\ XIndex /\ XRing /\ XCall /\ XCells /\ XHands
    BY DEF XAll, XInv
  <1>1. PICK t, h : t = tailIndex /\ h = headIndex /\ t \in Nat /\ h \in Nat /\ h <= t
    BY Ends
  <1>2. /\ cell' = [cell EXCEPT ![b][0] = t] /\ indexes' = Explicit!PutEntry(ixs, f, t, b)
        /\ prFront' = (f + 1) % Newest(ixs).size /\ tailBlock' = b /\ prUsed' = used
        /\ prod' = [NoCall EXCEPT !.at = "expose", !.n = 1]
        /\ flags' = [x \in Blocks |-> IF x = b THEN {} ELSE flags[x]]
        /\ UNCHANGED <<tailIndex, headIndex, optimistic, overcommit, claim, hand, taken, limit>>
    BY <1>1 DEF Explicit!StartIn, Explicit!NoCall, NoCall, Newest, Explicit!ResetEmpty, claimVars
  <1>3. prod' \in ProdRecords /\ prod'.at = "expose" /\ prod'.n = 1 /\ prod'.need = 0
    <2>1. prod' = [at |-> "expose", n |-> 1, need |-> 0, first |-> None, start |-> None, front0 |-> 0, used0 |-> 0]
      BY <1>2, CallRecord, Zenon
    <2> QED BY <2>1, CallMade
  <1>4. Made = Begun /\ Begun = Number(t) /\ t = First(Number(t)) /\ Number(t) \in Int /\ Made \in Int /\ Oldest \in Int /\ low \in Int
    BY <1>1, MadeIs
  <1>5. Made' = Made + 1 /\ Begun' = Begun /\ Top = t /\ Top' = t + 1
    <2>1. (tailIndex' + prod'.n) - 1 = t
      BY <1>1, <1>2, <1>3
    <2>2. Made' = Number(t) + (1 - 0)
      BY <1>3, <2>1 DEF Made, Number
    <2>3. Made' = Made + 1
      BY <1>4, <2>2
    <2> QED BY <1>1, <1>2, <1>3, <2>3 DEF Begun, Top, Number
  <1>6. Made \in Numbers
    <2>1. Start <= t /\ t < limit /\ t \in Int
      BY <1>1, Ends
    <2> QED BY <1>4, <2>1, InNumbers
  <1>7. \A c \in Consumers : \A i \in Rest(c) : low <= Number(i)
    BY <1>0, RestLive DEF Walking
  <1>8. /\ Oldest' = low /\ Homes' \in [Int -> Blocks \cup {None}]
        /\ \A q \in low .. Made - 1 : Homes'[q] = Homes[q]
        /\ Homes'[Made] = b
        /\ IndexOK(indexes, Phase, Oldest, Made)' /\ (prFront \in 0 .. Newest(indexes).size - 1 /\ prUsed \in Nat)'
        /\ (tailIndex > 0 => Newest(indexes).entries[Newest(indexes).front].block /= None)' /\ (prUsed >= 1)'
        /\ XHands'
    <2>1. indexes' = Explicit!PutEntry(ixs, f, First(Made), b)
      BY <1>2, <1>4
    <2> QED BY <1>2, <1>5, <1>6, <1>7, <2>1, AddEntry
  <1>9. Walking' /\ [SubQ!Next]_(SubQ!subQueueVars) /\ \A d \in Consumers : Rest(d)' = Rest(d)
    BY <1>2, PutWalks
  <1>10. XIndex'
    <2>1. (Begun <= Made)' /\ (Oldest <= Number(tailIndex))'
      BY <1>1, <1>2, <1>4, <1>5, <1>8 DEF Number
    <2>2. prod'.at /= "publish"
      BY <1>3
    <2> QED BY <1>8, <2>1, <2>2 DEF XIndex
  <1>11. XRing'
    <2>1. Ringed(Homes', low, Made + 1, ring', pool', b)
      BY <1>8
    <2> QED BY <1>2, <1>5, <1>8, <2>1 DEF XRing
  <1>12. XCall'
    <2>1. (prod.at = "expose" => Begun < Made)'
      BY <1>4, <1>5
    <2> QED BY <1>3, <2>1 DEF XCall
  <1>13. XCells'
    <2>1. cell \in [Blocks -> [Offsets -> Int \cup {None}]] /\ flags \in [Blocks -> SUBSET Offsets] /\ 0 \in Offsets
      BY <1>0, BlockAssumption DEF XCells, Offsets
    <2>2. /\ cell' \in [Blocks -> [Offsets -> Int \cup {None}]] /\ cell'[b][0] = t
          /\ \A x \in Blocks : x /= b => cell'[x] = cell[x]
      <3>1. PICK e : e = [cell[b] EXCEPT ![0] = t]
        OBVIOUS
      <3>2. e \in [Offsets -> Int \cup {None}] /\ e[0] = t
        BY <1>1, <2>1, <3>1
      <3>3. cell' = [cell EXCEPT ![b] = e]
        BY <1>2, <3>1
      <3> QED BY <2>1, <3>2, <3>3
    <2>3. \A i \in Int : Live(i)' <=> Live(i) \/ i = t
      <3>1. \A i \in Int : (\E c \in Consumers : i \in Rest(c)') <=> (\E c \in Consumers : i \in Rest(c))
        BY <1>9
      <3> QED BY <1>1, <1>2, <1>5, <3>1 DEF Live
    <2>4. ASSUME NEW i \in Int, Live(i)'
          PROVE  Number(i) \in low .. Made /\ cell'[Homes'[Number(i)]][i % BlockSize] = i
      <3>1. CASE i = t
        <4>1. i % BlockSize = 0 /\ Number(i) = Made /\ Made \in low .. Made
          BY <1>1, <1>4, <3>1 DEF Boundary
        <4> QED BY <1>8, <2>2, <3>1, <4>1
      <3>2. CASE Live(i)
        <4>1. Number(i) \in Oldest .. Made - 1 /\ cell[Homes[Number(i)]][i % BlockSize] = i /\ low <= Number(i) /\ Number(i) \in Int
          BY <1>0, <3>2, Division DEF XCells
        <4>2. Number(i) \in low .. Made - 1 /\ Number(i) \in low .. Made
          BY <1>4, <4>1
        <4>3. Homes'[Number(i)] = Homes[Number(i)] /\ Homes[Number(i)] /= b /\ Homes[Number(i)] \in Blocks
          BY <1>0, <1>8, <4>1, <4>2, XTypes
        <4> QED BY <2>2, <4>1, <4>2, <4>3
      <3> QED BY <2>3, <2>4, <3>1, <3>2
    <2>5. (\A i \in Int : Live(i) => Number(i) \in Oldest .. Made - 1 /\ cell[Homes[Number(i)]][i % BlockSize] = i)'
      <3>1. \A i \in Int : Number(i)' = Number(i)
        BY DEF Number
      <3>2. Oldest' = low /\ (Made - 1)' = Made
        BY <1>4, <1>5, <1>8
      <3> QED BY <2>4, <3>1, <3>2
    <2>6. ASSUME NEW q \in low .. Made, NEW o \in flags'[Homes'[q]]
          PROVE  First(q) + o < headIndex /\ ~Live(First(q) + o)'
      <3>1. q /= Made
        BY <1>2, <1>8, <2>6
      <3>2. q \in low .. Made - 1 /\ q \in Oldest .. Made - 1 /\ q < Begun /\ q \in Int
        BY <1>4, <3>1
      <3>3. Homes[q] \in Blocks /\ Homes[q] /= b /\ Homes'[q] = Homes[q]
        BY <1>0, <1>8, <3>2, XTypes
      <3>4. o \in flags[Homes[q]] /\ o \in Offsets
        BY <1>2, <2>1, <2>6, <3>3
      <3>5. First(q) + o < headIndex /\ ~Live(First(q) + o)
        BY <1>0, <3>2, <3>4 DEF XCells
      <3>6. PICK x \in Int : x = First(q) + o
        BY <3>2, <3>4, Placed
      <3>7. x /= t
        BY <1>1, <3>5, <3>6
      <3> QED BY <2>3, <3>5, <3>6, <3>7
    <2>7. (\A q \in Oldest .. Made - 1 : q < Begun \/ Filling =>
             \A o \in flags[Homes[q]] : First(q) + o < headIndex /\ ~Live(First(q) + o))'
      <3>1. Oldest' = low /\ (Made - 1)' = Made
        BY <1>4, <1>5, <1>8
      <3> QED BY <1>2, <2>6, <3>1
    <2>8. flags' \in [Blocks -> SUBSET Offsets]
      BY <1>2, <2>1
    <2> QED BY <2>2, <2>5, <2>7, <2>8 DEF XCells
  <1>14. Stays
    BY <1>2, <1>4, <1>8, StaysBut
  <1> QED BY <1>8, <1>9, <1>10, <1>11, <1>12, <1>13, <1>14 DEF XInv

LEMMA RingSame ==
  ASSUME NEW lo \in Int, NEW n \in Int, NEW h, NEW rg, NEW pl, NEW tl, Ringed(h, lo, n, rg, pl, tl),
         NEW g \in [Int -> Blocks \cup {None}], \A q \in lo .. n - 1 : g[q] = h[q]
  PROVE  Ringed(g, lo, n, rg, pl, tl)
  <1>1. \A q \in lo .. n - 1 : q \in Int /\ (q + 1 < n => q + 1 \in lo .. n - 1)
    OBVIOUS
  <1>2. lo < n => lo \in lo .. n - 1 /\ n - 1 \in lo .. n - 1
    OBVIOUS
  <1> QED BY <1>1, <1>2 DEF Ringed

\* A call that gets no block: the larger index stays.
LEMMA XNoBlock ==
  ASSUME XAll, CountersInv', prod.at \in {"idle", "blocks"}, Made = Begun, NEW ixs, NEW f, Ready(ixs, f),
         indexes' = ixs, prFront' = f, prUsed' = prUsed, tailBlock' = tailBlock, prod' = NoCall,
         UNCHANGED <<claimVars, pool, ring, flags, cell, hand, taken, limit>>
  PROVE  Walking' /\ XInv' /\ [SubQ!Next]_(SubQ!subQueueVars) /\ Stays
  <1>0. CountersInv /\ Walking /\ XIndex /\ XRing /\ XCall /\ XCells /\ XHands
    BY DEF XAll, XInv
  <1>1. PICK t, h : t = tailIndex /\ h = headIndex /\ t \in Nat /\ h \in Nat /\ h <= t
    BY Ends
  <1>2. UNCHANGED <<tailIndex, headIndex, claim>> /\ prod' \in ProdRecords /\ prod'.at = "idle" /\ prod'.n = 0 /\ prod'.need = 0
    BY IdleCall DEF claimVars
  <1>3. Made \in Int /\ Oldest \in Int /\ Begun \in Int /\ Begun = Number(t - 1) + 1 /\ Number(t - 1) \in Int
    BY <1>1, MadeIs, Division DEF Begun
  <1>4. Made' = Made /\ Top = t /\ Top' = t
    <2>1. (tailIndex' + prod'.n) - 1 = t - 1
      BY <1>1, <1>2
    <2>2. Made' = Number(t - 1) + (1 - 0)
      BY <1>2, <2>1 DEF Made, Number
    <2> QED BY <1>1, <1>2, <1>3, <2>2 DEF Top
  <1>5. Walking' /\ [SubQ!Next]_(SubQ!subQueueVars) /\ Begun' = Begun /\ \A d \in Consumers : Rest(d)' = Rest(d)
    BY <1>2, PutWalks
  <1>6. /\ Oldest' = Oldest /\ Homes' \in [Int -> Blocks \cup {None}]
        /\ \A q \in Oldest .. Made - 1 : Homes'[q] = Homes[q]
        /\ IndexOK(indexes, Phase, Oldest, Made)' /\ (prFront \in 0 .. Newest(indexes).size - 1 /\ prUsed \in Nat)'
        /\ (tailIndex > 0 => Newest(indexes).entries[Newest(indexes).front].block /= None)'
        /\ XHands'
    BY <1>2, <1>4, NoEntry
  <1>7. XIndex'
    <2>1. (Begun <= Made)' /\ (Oldest <= Number(tailIndex))' /\ (tailIndex > 0 => prUsed >= 1)'
      BY <1>0, <1>2, <1>4, <1>5, <1>6 DEF XIndex, Number
    <2> QED BY <1>2, <1>6, <2>1 DEF XIndex
  <1>8. XRing'
    <2>1. Ringed(Homes', Oldest, Made, ring, pool, tailBlock)
      BY <1>0, <1>3, <1>6, RingSame DEF XRing
    <2> QED BY <1>4, <1>6, <2>1 DEF XRing
  <1>9. XCall'
    BY <1>2 DEF XCall
  <1>10. XCells'
    <2>1. \A i : Live(i)' <=> Live(i)
      BY <1>2, <1>4, <1>5 DEF Live
    <2>2. \A q \in Oldest .. Made - 1 : \A o \in flags[Homes[q]] : First(q) + o < headIndex /\ ~Live(First(q) + o)
      <3>1. \A q \in Oldest .. Made - 1 : q < Begun
        BY <1>3
      <3> QED BY <1>0, <3>1 DEF XCells
    <2>3. (\A i \in Int : Live(i) => Number(i) \in Oldest .. Made - 1 /\ cell[Homes[Number(i)]][i % BlockSize] = i)'
      <3>1. \A i \in Int : Live(i) => Number(i) \in Oldest .. Made - 1 /\ cell[Homes'[Number(i)]][i % BlockSize] = i
        BY <1>0, <1>6 DEF XCells
      <3> QED BY <1>4, <1>6, <2>1, <3>1
    <2>4. (\A q \in Oldest .. Made - 1 : q < Begun \/ Filling =>
             \A o \in flags[Homes[q]] : First(q) + o < headIndex /\ ~Live(First(q) + o))'
      BY <1>2, <1>4, <1>6, <2>1, <2>2
    <2> QED BY <1>0, <2>3, <2>4 DEF XCells
  <1>11. Stays
    <2>1. \A q \in Oldest' .. Begun - 1 : q \in Oldest .. Made - 1
      BY <1>3, <1>6
    <2> QED BY <1>3, <1>6, <2>1 DEF Stays
  <1> QED BY <1>5, <1>6, <1>7, <1>8, <1>9, <1>10, <1>11 DEF XInv

\* The oldest block when it is marked empty: no element is in it, nor owned by anybody.
LEMMA OldestGone ==
  ASSUME XAll, Oldest < Begun, flags[Homes[Oldest]] = Offsets
  PROVE  \A i \in Int : Live(i) => Oldest + 1 <= Number(i)
  <1>0. CountersInv /\ XIndex /\ XRing /\ XCells
    BY DEF XAll, XInv
  <1>1. Oldest \in Int /\ Begun \in Int /\ Made \in Int /\ Begun <= Made
    BY MadeIs
  <1>2. \A o \in Offsets : ~Live(First(Oldest) + o)
    <2>1. Oldest \in Oldest .. Made - 1
      BY <1>1
    <2> QED BY <1>0, <2>1 DEF XCells
  <1>3. ASSUME NEW i \in Int, Live(i) PROVE Oldest + 1 <= Number(i)
    <2>1. Number(i) \in Oldest .. Made - 1 /\ Number(i) \in Int
      BY <1>0, <1>3, Division DEF XCells
    <2>2. Number(i) /= Oldest
      <3>1. i = First(Number(i)) + (i % BlockSize) /\ i % BlockSize \in Offsets
        BY Division
      <3> QED BY <1>2, <1>3, <3>1
    <2> QED BY <1>1, <2>1, <2>2
  <1> QED BY <1>3

\* enqueue starts a block that consumers have emptied.
LEMMA XReuse ==
  ASSUME XAll, CountersInv', Explicit!EnqueueReuse
  PROVE  Walking' /\ XInv' /\ [SubQ!Next]_(SubQ!subQueueVars) /\ Stays
  <1>0. CountersInv /\ XIndex /\ XRing
    BY DEF XAll, XInv
  <1>1. PICK b : b = ring[tailBlock]
    OBVIOUS
  <1>2. /\ prod.at = "idle" /\ tailIndex < limit /\ Boundary(tailIndex) /\ tailBlock /= None /\ flags[b] = Offsets
        /\ Explicit!ResetEmpty({b}) /\ Explicit!StartIn(b, indexes, prFront, prUsed)
        /\ UNCHANGED <<claimVars, pool, ring, hand, taken, limit>>
    BY <1>1 DEF Explicit!EnqueueReuse, Explicit!CanReuse, Explicit!IsEmpty, Explicit!ThrowIn, Explicit!claimVars, claimVars,
                Explicit!Boundary, Boundary, Explicit!Offsets, Offsets
  <1>3. Made \in Int /\ Oldest \in Int /\ Made = Begun /\ prUsed \in Nat /\ Made = Oldest + prUsed
    BY <1>2, MadeIs
  <1>4. Ringed(Homes, Oldest, Made, ring, pool, tailBlock)
    BY <1>0 DEF XRing
  <1>5. Oldest < Made
    BY <1>2, <1>3, <1>4 DEF Ringed
  <1>6. b = Homes[Oldest] /\ b \in Blocks
    <2>1. Homes[Oldest] \in Blocks /\ tailBlock = Homes[Made - 1] /\ ring[Homes[Made - 1]] = Homes[Oldest]
      BY <1>3, <1>4, <1>5 DEF Ringed
    <2> QED BY <1>1, <2>1
  <1>7. PICK low : low = Oldest + 1
    OBVIOUS
  <1>8. \A i \in Int : Live(i) => low <= Number(i)
    BY <1>2, <1>3, <1>5, <1>6, <1>7, OldestGone
  <1>9. \A q \in low .. Made - 1 : Homes[q] /= b
    <2>1. \A q \in low .. Made - 1 : q \in Oldest .. Made - 1 /\ q /= Oldest
      BY <1>3, <1>7
    <2>2. Oldest \in Oldest .. Made - 1
      BY <1>3, <1>5
    <2> QED BY <1>4, <1>6, <2>1, <2>2 DEF Ringed
  <1>10. \A g \in [Int -> Blocks \cup {None}] :
           (\A q \in low .. Made - 1 : g[q] = Homes[q]) /\ g[Made] = b => Ringed(g, low, Made + 1, ring', pool', b)
    <2> SUFFICES ASSUME NEW g \in [Int -> Blocks \cup {None}], \A q \in low .. Made - 1 : g[q] = Homes[q], g[Made] = b
                 PROVE  Ringed(g, low, Made + 1, ring, pool, b)
      BY <1>2
    <2>1. PICK lo, n, h, rg, pl, tl : lo = Oldest /\ n = Made /\ h = Homes /\ rg = ring /\ pl = pool /\ tl = tailBlock
      OBVIOUS
    <2>2. lo \in Int /\ n \in Int /\ Ringed(h, lo, n, rg, pl, tl) /\ lo < n /\ g[n] = h[lo] /\ \A q \in lo + 1 .. n - 1 : g[q] = h[q]
      BY <1>3, <1>4, <1>5, <1>6, <1>7, <2>1
    <2>3. Ringed(g, lo + 1, n + 1, rg, pl, g[n])
      BY <2>2, RingReuse
    <2> QED BY <1>7, <2>1, <2>3
  <1>11. Ready(indexes, prFront) /\ low <= Made /\ Made + 1 - low <= Newest(indexes).size /\ prUsed = (Made + 1) - low
    <2>1. Made - Oldest <= Newest(indexes).size
      BY <1>0 DEF XIndex, IndexOK
    <2>2. Made + 1 - low = Made - Oldest /\ prUsed = (Made + 1) - low /\ low <= Made
      BY <1>3, <1>5, <1>7
    <2> QED BY <2>1, <2>2, ReadyAsIs
  <1>12. PICK ixs, f, used : ixs = indexes /\ f = prFront /\ used = prUsed
    OBVIOUS
  <1>13. Ready(ixs, f) /\ low <= Made /\ Made + 1 - low <= Newest(ixs).size /\ used = (Made + 1) - low
         /\ Explicit!StartIn(b, ixs, f, used)
    BY <1>2, <1>11, <1>12
  <1> QED BY <1>2, <1>6, <1>7, <1>8, <1>9, <1>10, <1>13, XStart

\* Room for one more entry, in the index or in one of twice the size.
LEMMA Room ==
  ASSUME XAll, NEW e \in Nat, e <= prUsed, tailIndex > 0 => e >= 1, NEW grow \in BOOLEAN, grow => prUsed = Explicit!Cur.size,
         NEW ixs, ixs = IF grow THEN Explicit!Grown(e) ELSE indexes, NEW f, f = IF grow THEN prUsed ELSE prFront
  PROVE  Ready(ixs, f) /\ (grow \/ prUsed /= Explicit!Cur.size => Made + 1 - Oldest <= Newest(ixs).size)
  <1>0. XIndex /\ XRing /\ CountersInv
    BY DEF XAll, XInv
  <1>1. Made - Oldest <= Newest(indexes).size /\ Newest(indexes).size \in Nat /\ prUsed \in Nat /\ Explicit!Cur.size = Newest(indexes).size
    BY <1>0, XTypes, IndexFields DEF XIndex, IndexOK, Explicit!Cur, Newest
  <1>2. Made \in Int /\ Oldest \in Int /\ Made - Oldest = prUsed /\ Made + 1 - Oldest = prUsed + 1
    BY MadeIs
  <1>3. CASE grow
    <2>1. prUsed = Explicit!Cur.size /\ ixs = Explicit!Grown(e) /\ f = prUsed
      BY <1>3
    <2>2. Ready(ixs, prUsed) /\ Newest(ixs).size = 2 * prUsed /\ prUsed >= 1
      BY <2>1, ReadyGrown
    <2>3. prUsed + 1 <= 2 * prUsed
      BY <1>1, <2>2
    <2> QED BY <1>2, <2>1, <2>2, <2>3
  <1>4. CASE ~grow
    <2>1. ixs = indexes /\ f = prFront
      BY <1>4
    <2>2. Ready(ixs, f)
      BY <2>1, ReadyAsIs
    <2>3. prUsed /= Explicit!Cur.size => prUsed + 1 <= Newest(indexes).size
      BY <1>1, <1>2
    <2> QED BY <1>2, <1>4, <2>1, <2>2, <2>3
  <1> QED BY <1>3, <1>4

\* The ring with a block of the pool behind the newest.
LEMMA RingPool ==
  ASSUME XAll, NEW b \in pool, ring' = Explicit!Inject(b), pool' = pool \ {b}
  PROVE  /\ b \in Blocks /\ \A q \in Oldest .. Made - 1 : Homes[q] /= b
         /\ \A g \in [Int -> Blocks \cup {None}] :
              (\A q \in Oldest .. Made - 1 : g[q] = Homes[q]) /\ g[Made] = b => Ringed(g, Oldest, Made + 1, ring', pool', b)
  <1>0. XRing
    BY DEF XAll, XInv
  <1>1. Made \in Int /\ Oldest \in Int /\ Oldest <= Made
    BY MadeIs
  <1>2. PICK lo, n, h, rg, pl, tl : lo = Oldest /\ n = Made /\ h = Homes /\ rg = ring /\ pl = pool /\ tl = tailBlock
    OBVIOUS
  <1>3. lo \in Int /\ n \in Int /\ Ringed(h, lo, n, rg, pl, tl) /\ lo <= n /\ b \in pl
    BY <1>0, <1>1, <1>2 DEF XRing
  <1>4. PICK new : new = Linked(rg, tl, b)
    OBVIOUS
  <1>5. ring' = new
    BY <1>2, <1>4 DEF Explicit!Inject, Linked
  <1>6. ASSUME NEW g \in [Int -> Blocks \cup {None}], \A q \in Oldest .. Made - 1 : g[q] = Homes[q], g[Made] = b
        PROVE  Ringed(g, Oldest, Made + 1, ring', pool', b)
    <2>1. g[n] = b /\ \A q \in lo .. n - 1 : g[q] = h[q]
      BY <1>2, <1>6
    <2>2. Ringed(g, lo, n + 1, new, pl \ {b}, b)
      BY <1>3, <1>4, <2>1, RingNew
    <2> QED BY <1>2, <1>5, <2>2
  <1>7. b \in Blocks /\ \A q \in Oldest .. Made - 1 : Homes[q] /= b
    BY <1>2, <1>3 DEF Ringed
  <1> QED BY <1>6, <1>7

\* enqueue starts a block it gets from the parent, or gets none.
LEMMA XNew ==
  ASSUME XAll, CountersInv', Explicit!EnqueueNewBlock
  PROVE  Walking' /\ XInv' /\ [SubQ!Next]_(SubQ!subQueueVars) /\ Stays
  <1>0. CountersInv /\ XIndex /\ XRing /\ XCall /\ XCells
    BY DEF XAll, XInv
  <1>1. PICK grow \in BOOLEAN : grow = (prUsed = Explicit!Cur.size)
    OBVIOUS
  <1>2. PICK ixs, f : ixs = (IF grow THEN Explicit!Grown(prUsed) ELSE indexes) /\ f = (IF grow THEN prUsed ELSE prFront)
    OBVIOUS
  <1>3. /\ prod.at = "idle" /\ tailIndex < limit /\ Boundary(tailIndex) /\ UNCHANGED <<claimVars, hand, taken, limit>>
        /\ \/ \E b \in pool : /\ pool' = pool \ {b} /\ ring' = Explicit!Inject(b) /\ Explicit!ResetEmpty({b})
                              /\ Explicit!StartIn(b, ixs, f, prUsed + 1)
           \/ /\ grow /\ indexes' = ixs /\ prFront' = f
              /\ UNCHANGED <<pool, ring, flags, cell, tailBlock, prUsed, prod>>
    BY <1>1, <1>2 DEF Explicit!EnqueueNewBlock, Explicit!ThrowIn, Explicit!claimVars, claimVars, Explicit!Boundary, Boundary
  <1>4. Ready(ixs, f) /\ Made + 1 - Oldest <= Newest(ixs).size
    <2>1. prUsed \in Nat /\ prUsed <= prUsed /\ (tailIndex > 0 => prUsed >= 1)
      BY <1>0 DEF XIndex
    <2>2. grow => prUsed = Explicit!Cur.size
      BY <1>1
    <2>3. Ready(ixs, f) /\ (grow \/ prUsed /= Explicit!Cur.size => Made + 1 - Oldest <= Newest(ixs).size)
      BY <1>2, <2>1, <2>2, Room
    <2> QED BY <1>1, <2>3
  <1>5. Made \in Int /\ Oldest \in Int /\ Made = Begun /\ prUsed \in Nat /\ Made = Oldest + prUsed /\ Oldest <= Made
    BY <1>3, MadeIs
  <1>6. CASE \E b \in pool : /\ pool' = pool \ {b} /\ ring' = Explicit!Inject(b) /\ Explicit!ResetEmpty({b})
                             /\ Explicit!StartIn(b, ixs, f, prUsed + 1)
    <2>1. PICK b \in pool : /\ pool' = pool \ {b} /\ ring' = Explicit!Inject(b) /\ Explicit!ResetEmpty({b})
                            /\ Explicit!StartIn(b, ixs, f, prUsed + 1)
      BY <1>6
    <2>2. PICK low, used : low = Oldest /\ used = prUsed + 1
      OBVIOUS
    <2>3. /\ b \in Blocks /\ \A q \in low .. Made - 1 : Homes[q] /= b
          /\ \A g \in [Int -> Blocks \cup {None}] :
               (\A q \in low .. Made - 1 : g[q] = Homes[q]) /\ g[Made] = b => Ringed(g, low, Made + 1, ring', pool', b)
      BY <2>1, <2>2, RingPool
    <2>4. \A i \in Int : Live(i) => low <= Number(i)
      BY <1>0, <1>5, <2>2 DEF XCells
    <2>5. low <= Made /\ Made + 1 - low <= Newest(ixs).size /\ used = (Made + 1) - low /\ Explicit!StartIn(b, ixs, f, used)
      BY <1>4, <1>5, <2>1, <2>2
    <2> QED BY <1>3, <1>4, <2>1, <2>2, <2>3, <2>4, <2>5, XStart
  <1>7. CASE indexes' = ixs /\ prFront' = f /\ UNCHANGED <<pool, ring, flags, cell, tailBlock, prUsed, prod>>
    <2>1. prod' = NoCall
      BY <1>0, <1>3, <1>7 DEF XCall
    <2> QED BY <1>3, <1>4, <1>5, <1>7, <2>1, XNoBlock
  <1> QED BY <1>3, <1>6, <1>7

\* The next block of a bulk is one of the behaviour's.
LEMMA BulkNumber ==
  ASSUME XAll, prod.at = "blocks"
  PROVE  Made \in Numbers /\ Explicit!BulkBase = First(Made)
  <1>1. PICK t, n, l, s, k :
          /\ t = tailIndex /\ n = prod.n /\ l = limit /\ s = Start /\ k = prod.need
          /\ t \in Int /\ n \in Int /\ l \in Int /\ s \in Int /\ k \in Int /\ k >= 1 /\ s <= t /\ t + n <= l /\ n >= 1
          /\ s = l - MaxPut
    <2>1. XCall
      BY DEF XAll, XInv
    <2> QED BY <2>1, Ends DEF XCall
  <1>2. PICK e : e = (t + n) - 1 /\ e \in Int
    BY <1>1
  <1>3. Made = Number(e) + (1 - k) /\ Number(e) \in Int /\ Made \in Int
    BY <1>1, <1>2, Division DEF Made
  <1>4. Number(s) <= Number(t) /\ Number(e) <= Number(l - 1) /\ Number(t) <= Made /\ Number(s) \in Int /\ Number(l - 1) \in Int /\ Number(t) \in Int
    <2>1. s <= t /\ e <= l - 1 /\ l - 1 \in Int
      BY <1>1, <1>2
    <2>2. Number(t) <= Made
      BY <1>1, MadeIs
    <2> QED BY <1>1, <1>2, <2>1, <2>2, NumberOrder, Division
  <1>5. Numbers = Number(s) - 1 .. Number(l - 1)
    BY <1>1 DEF Numbers
  <1>6. Made \in Number(s) - 1 .. Number(l - 1)
    BY <1>1, <1>3, <1>4
  <1>7. Explicit!BulkBase = First(Made)
    <2>1. t + n - 1 = e
      BY <1>1, <1>2
    <2>2. Explicit!BulkBase = (Number(e) - k + 1) * BlockSize
      BY <1>1, <2>1 DEF Explicit!BulkBase, Number
    <2>3. Number(e) - k + 1 = Made
      BY <1>1, <1>3
    <2> QED BY <2>2, <2>3 DEF First
  <1> QED BY <1>5, <1>6, <1>7

\* A bulk has one more block.
LEMMA XAdd ==
  ASSUME XAll, CountersInv', prod.at = "blocks", NEW ixs, NEW f, Ready(ixs, f), NEW b \in Blocks,
         NEW low, low = Oldest \/ low = Oldest + 1, low <= Number(tailIndex), Made + 1 - low <= Newest(ixs).size,
         Explicit!BulkAdd(b, ixs, f), prUsed' = (Made + 1) - low,
         UNCHANGED <<claimVars, cell, hand, taken, limit>>,
         flags' \in [Blocks -> SUBSET Offsets], \A x \in Blocks : x /= b => flags'[x] = flags[x],
         \A q \in low .. Made - 1 : Homes[q] /= b,
         \A i \in Int : Live(i) => low <= Number(i),
         \A g \in [Int -> Blocks \cup {None}] :
           (\A q \in low .. Made - 1 : g[q] = Homes[q]) /\ g[Made] = b => Ringed(g, low, Made + 1, ring', pool', b)
  PROVE  Walking' /\ XInv' /\ [SubQ!Next]_(SubQ!subQueueVars) /\ Stays
  <1>0. CountersInv /\ Walking /\ XIndex /\ XRing /\ XCall /\ XCells /\ XHands
    BY DEF XAll, XInv
  <1>1. PICK t, h : t = tailIndex /\ h = headIndex /\ t \in Nat /\ h \in Nat /\ h <= t
    BY Ends
  <1>2. PICK k, at, first, front0 :
          /\ k = prod.need - 1 /\ at = (IF prod.need = 1 THEN "fill" ELSE "blocks")
          /\ first = (IF prod.first = None THEN b ELSE prod.first)
          /\ front0 = (IF ixs = indexes THEN prod.front0 ELSE prod.used0)
    OBVIOUS
  <1>3. /\ indexes' = Explicit!PutEntry(ixs, f, First(Made), b)
        /\ prFront' = (f + 1) % Newest(ixs).size /\ tailBlock' = b
        /\ prod' = [prod EXCEPT !.need = k, !.first = first, !.at = at, !.front0 = front0]
        /\ UNCHANGED <<tailIndex, headIndex, optimistic, overcommit, claim, cell, hand, taken, limit>>
    BY <1>2, BulkNumber DEF Explicit!BulkAdd, Newest, claimVars
  <1>4. /\ prod \in ProdRecords /\ prod.need >= 1 /\ prod.need \in Nat /\ prod.n \in Nat
        /\ prod.first = IF Begun < Made THEN Homes[Begun] ELSE None
        /\ Oldest < Begun => prod.start = Homes[Begun - 1]
        /\ 0 <= prod.used0 /\ prod.used0 <= prUsed /\ prod.used0 \in Int
        /\ tailIndex > 0 => prod.used0 >= 1
    BY <1>0 DEF XCall, ProdRecords
  <1>5. /\ prod'.at = at /\ prod'.n = prod.n /\ prod'.need = k /\ prod'.first = first /\ prod'.start = prod.start
        /\ prod'.front0 = front0 /\ prod'.used0 = prod.used0 /\ prod' \in ProdRecords
    <2>1. prod = [at |-> prod.at, n |-> prod.n, need |-> prod.need, first |-> prod.first, start |-> prod.start,
                  front0 |-> prod.front0, used0 |-> prod.used0]
      BY <1>4 DEF ProdRecords
    <2>2. prod' = [at |-> at, n |-> prod.n, need |-> k, first |-> first, start |-> prod.start,
                   front0 |-> front0, used0 |-> prod.used0]
      BY <1>3, <2>1
    <2>3. k \in Nat /\ at \in {"fill", "blocks"} /\ first \in Blocks \cup {None} /\ front0 \in Int
      BY <1>2, <1>4 DEF ProdRecords
    <2> QED BY <1>4, <2>2, <2>3 DEF ProdRecords
  <1>6. /\ Made \in Int /\ Oldest \in Int /\ Begun \in Int /\ Begun <= Made /\ low \in Int /\ prUsed \in Nat /\ Made = Oldest + prUsed
        /\ Number(tailIndex) \in Int /\ Number(tailIndex) <= Begun /\ low <= Begun /\ low <= Made
    BY MadeIs
  <1>7. Made' = Made + 1 /\ Top = t /\ Top' = t
    <2>1. PICK e : e = (t + prod.n) - 1 /\ e \in Int
      BY <1>1, <1>4
    <2>2. Made = Number(e) + (1 - prod.need) /\ Made' = Number(e) + (1 - k) /\ Number(e) \in Int
      BY <1>1, <1>3, <1>5, <2>1, Division DEF Made, Number
    <2>3. Made' = Made + 1
      BY <1>2, <1>4, <2>2
    <2> QED BY <1>1, <1>2, <1>3, <1>5, <2>3 DEF Top
  <1>8. \A c \in Consumers : \A i \in Rest(c) : low <= Number(i)
    BY <1>0, RestLive DEF Walking
  <1>9. /\ Oldest' = low /\ Homes' \in [Int -> Blocks \cup {None}]
        /\ \A q \in low .. Made - 1 : Homes'[q] = Homes[q]
        /\ Homes'[Made] = b
        /\ IndexOK(indexes, Phase, Oldest, Made)' /\ (prFront \in 0 .. Newest(indexes).size - 1 /\ prUsed \in Nat)'
        /\ (tailIndex > 0 => Newest(indexes).entries[Newest(indexes).front].block /= None)' /\ (prUsed >= 1)'
        /\ XHands'
    BY <1>3, <1>6, <1>7, <1>8, BulkNumber, AddEntry
  <1>10. Walking' /\ [SubQ!Next]_(SubQ!subQueueVars) /\ Begun' = Begun /\ \A d \in Consumers : Rest(d)' = Rest(d)
    BY <1>3, PutWalks
  <1>11. XIndex'
    <2>1. (Begun <= Made)' /\ (Oldest <= Number(tailIndex))'
      BY <1>3, <1>6, <1>7, <1>9, <1>10 DEF Number
    <2>2. prod'.at /= "publish"
      BY <1>2, <1>5
    <2> QED BY <1>9, <2>1, <2>2 DEF XIndex
  <1>12. XRing'
    <2>1. Ringed(Homes', low, Made + 1, ring', pool', b)
      BY <1>9
    <2> QED BY <1>3, <1>7, <1>9, <2>1 DEF XRing
  <1>13. XCall'
    <2>1. prod'.at \in {"blocks", "fill"} /\ (prod'.at = "blocks" <=> prod'.need >= 1)
      BY <1>2, <1>4, <1>5
    <2>2. (prod.first = IF Begun < Made THEN Homes[Begun] ELSE None)'
      <3>1. Begun' < Made'
        BY <1>6, <1>7, <1>10
      <3>2. CASE Begun < Made
        <4>1. Begun \in low .. Made - 1 /\ Begun \in Oldest .. Made - 1
          BY <1>6, <3>2
        <4>2. first = Homes[Begun]
          BY <1>0, <1>2, <1>4, <3>2, <4>1, XTypes, NoneAssumption
        <4> QED BY <1>5, <1>9, <1>10, <3>1, <4>1, <4>2
      <3>3. CASE Begun = Made
        <4>1. prod.first = None
          BY <1>4, <1>6, <3>3
        <4>2. first = b /\ Homes'[Begun] = b
          BY <1>2, <1>9, <3>3, <4>1
        <4> QED BY <1>5, <1>10, <3>1, <4>2
      <3> QED BY <1>6, <3>2, <3>3
    <2>3. (Oldest < Begun => prod.start = Homes[Begun - 1])'
      <3> SUFFICES ASSUME low < Begun PROVE prod.start = Homes'[Begun - 1]
        BY <1>5, <1>9, <1>10
      <3>1. Begun - 1 \in low .. Made - 1 /\ Oldest < Begun
        BY <1>6
      <3> QED BY <1>4, <1>9, <3>1
    <2>4. ~(Begun = Made)'
      BY <1>6, <1>7, <1>10
    <2>5. (0 <= prod.used0 /\ prod.used0 <= prUsed)'
      BY <1>4, <1>5, <1>6
    <2>6. (tailIndex > 0 => prod.used0 >= 1)'
      BY <1>3, <1>4, <1>5
    <2> QED BY <1>5, <2>1, <2>2, <2>3, <2>4, <2>5, <2>6 DEF XCall
  <1>14. XCells'
    <2>1. \A i : Live(i)' <=> Live(i)
      BY <1>3, <1>7, <1>10 DEF Live
    <2>2. ASSUME NEW i \in Int, Live(i)
          PROVE  Number(i) \in low .. Made /\ cell[Homes'[Number(i)]][i % BlockSize] = i
      <3>1. Number(i) \in Oldest .. Made - 1 /\ cell[Homes[Number(i)]][i % BlockSize] = i /\ low <= Number(i) /\ Number(i) \in Int
        BY <1>0, <2>2, Division DEF XCells
      <3>2. Number(i) \in low .. Made - 1 /\ Number(i) \in low .. Made
        BY <1>6, <3>1
      <3> QED BY <1>9, <3>1, <3>2
    <2>3. (\A i \in Int : Live(i) => Number(i) \in Oldest .. Made - 1 /\ cell[Homes[Number(i)]][i % BlockSize] = i)'
      <3>1. Oldest' = low /\ (Made - 1)' = Made
        BY <1>6, <1>7, <1>9
      <3>2. \A i \in Int : Number(i)' = Number(i)
        BY DEF Number
      <3> QED BY <1>3, <2>1, <2>2, <3>1, <3>2
    <2>4. ASSUME NEW q \in low .. Made, q < Begun, NEW o \in flags'[Homes'[q]]
          PROVE  First(q) + o < headIndex /\ ~Live(First(q) + o)
      <3>1. q \in low .. Made - 1 /\ q \in Oldest .. Made - 1
        BY <1>6, <2>4
      <3>2. Homes[q] \in Blocks /\ Homes[q] /= b /\ Homes'[q] = Homes[q]
        BY <1>0, <1>9, <3>1, XTypes
      <3>3. o \in flags[Homes[q]]
        BY <2>4, <3>2
      <3> QED BY <1>0, <2>4, <3>1, <3>3 DEF XCells
    <2>5. (\A q \in Oldest .. Made - 1 : q < Begun \/ Filling =>
             \A o \in flags[Homes[q]] : First(q) + o < headIndex /\ ~Live(First(q) + o))'
      <3>1. Oldest' = low /\ (Made - 1)' = Made /\ ~Filling'
        BY <1>2, <1>5, <1>6, <1>7, <1>9 DEF Filling
      <3> QED BY <1>3, <1>10, <2>1, <2>4, <3>1
    <2> QED BY <1>0, <1>3, <2>3, <2>5 DEF XCells
  <1>15. Stays
    BY <1>6, <1>9, StaysBut
  <1> QED BY <1>9, <1>10, <1>11, <1>12, <1>13, <1>14, <1>15 DEF XInv

\* A bulk goes on with a block that consumers have emptied.
LEMMA XBulkReuse ==
  ASSUME XAll, CountersInv', Explicit!BulkReuse
  PROVE  Walking' /\ XInv' /\ [SubQ!Next]_(SubQ!subQueueVars) /\ Stays
  <1>0. CountersInv /\ XIndex /\ XRing /\ XCall /\ XCells
    BY DEF XAll, XInv
  <1>1. PICK b : b = ring[tailBlock]
    OBVIOUS
  <1>2. /\ prod.at = "blocks" /\ tailBlock /= None /\ flags[b] = Offsets /\ b /= prod.first
        /\ Explicit!BulkAdd(b, indexes, prFront)
        /\ UNCHANGED <<claimVars, pool, ring, prUsed, flags, cell, hand, taken, limit>>
    BY <1>1 DEF Explicit!BulkReuse, Explicit!BulkCanReuse, Explicit!IsEmpty, Explicit!claimVars, claimVars, Explicit!Offsets, Offsets
  <1>3. PICK t : t = tailIndex /\ t \in Nat /\ headIndex \in Nat /\ headIndex <= t
    BY Ends
  <1>4. /\ Made \in Int /\ Oldest \in Int /\ Begun \in Int /\ prUsed \in Nat /\ Made = Oldest + prUsed /\ Begun <= Made
        /\ Number(t) \in Int /\ Oldest <= Number(t) /\ Number(t) <= Begun
        /\ (Boundary(t) => Begun = Number(t)) /\ (~Boundary(t) => Begun = Number(t) + 1)
    BY <1>3, MadeIs
  <1>5. Ringed(Homes, Oldest, Made, ring, pool, tailBlock)
    BY <1>0 DEF XRing
  <1>6. Oldest < Made
    BY <1>2, <1>4, <1>5 DEF Ringed
  <1>7. b = Homes[Oldest] /\ b \in Blocks
    <2>1. Homes[Oldest] \in Blocks /\ tailBlock = Homes[Made - 1] /\ ring[Homes[Made - 1]] = Homes[Oldest]
      BY <1>4, <1>5, <1>6 DEF Ringed
    <2> QED BY <1>1, <2>1
  <1>8. Oldest < Begun
    <2>1. Oldest = Begun => prod.first = Homes[Oldest]
      BY <1>0, <1>2, <1>6 DEF XCall
    <2> QED BY <1>2, <1>4, <1>7, <2>1
  <1>9. Oldest + 1 <= Number(t)
    <2> SUFFICES ASSUME Oldest = Number(t) PROVE FALSE
      BY <1>4
    <2>1. PICK o \in Offsets : o = t % BlockSize /\ t = First(Oldest) + o
      BY <1>3, Division
    <2>2. Oldest \in Oldest .. Made - 1 /\ o \in flags[Homes[Oldest]]
      BY <1>2, <1>4, <1>6, <1>7
    <2>3. t < headIndex
      BY <1>0, <1>8, <2>1, <2>2 DEF XCells
    <2> QED BY <1>3, <2>3
  <1>10. PICK low : low = Oldest + 1
    OBVIOUS
  <1>11. \A i \in Int : Live(i) => low <= Number(i)
    BY <1>2, <1>7, <1>8, <1>10, OldestGone
  <1>12. \A q \in low .. Made - 1 : Homes[q] /= b
    <2>1. \A q \in low .. Made - 1 : q \in Oldest .. Made - 1 /\ q /= Oldest
      BY <1>4, <1>10
    <2>2. Oldest \in Oldest .. Made - 1
      BY <1>4, <1>6
    <2> QED BY <1>5, <1>7, <2>1, <2>2 DEF Ringed
  <1>13. \A g \in [Int -> Blocks \cup {None}] :
           (\A q \in low .. Made - 1 : g[q] = Homes[q]) /\ g[Made] = b => Ringed(g, low, Made + 1, ring', pool', b)
    <2> SUFFICES ASSUME NEW g \in [Int -> Blocks \cup {None}], \A q \in low .. Made - 1 : g[q] = Homes[q], g[Made] = b
                 PROVE  Ringed(g, low, Made + 1, ring, pool, b)
      BY <1>2
    <2>1. PICK lo, n, h, rg, pl, tl : lo = Oldest /\ n = Made /\ h = Homes /\ rg = ring /\ pl = pool /\ tl = tailBlock
      OBVIOUS
    <2>2. lo \in Int /\ n \in Int /\ Ringed(h, lo, n, rg, pl, tl) /\ lo < n /\ g[n] = h[lo] /\ \A q \in lo + 1 .. n - 1 : g[q] = h[q]
      BY <1>4, <1>5, <1>6, <1>7, <1>10, <2>1
    <2>3. Ringed(g, lo + 1, n + 1, rg, pl, g[n])
      BY <2>2, RingReuse
    <2> QED BY <1>10, <2>1, <2>3
  <1>14. Ready(indexes, prFront) /\ Made + 1 - low <= Newest(indexes).size /\ prUsed = (Made + 1) - low
    <2>1. Made - Oldest <= Newest(indexes).size
      BY <1>0 DEF XIndex, IndexOK
    <2>2. Made + 1 - low = Made - Oldest /\ prUsed = (Made + 1) - low
      BY <1>4, <1>10
    <2> QED BY <2>1, <2>2, ReadyAsIs
  <1>15. PICK ixs, f : ixs = indexes /\ f = prFront
    OBVIOUS
  <1>16. Ready(ixs, f) /\ Made + 1 - low <= Newest(ixs).size /\ prUsed' = (Made + 1) - low /\ Explicit!BulkAdd(b, ixs, f)
    BY <1>2, <1>14, <1>15
  <1>17. flags' \in [Blocks -> SUBSET Offsets] /\ \A x \in Blocks : x /= b => flags'[x] = flags[x]
    BY <1>0, <1>2 DEF XCells
  <1>18. low <= Number(tailIndex)
    BY <1>3, <1>9, <1>10
  <1> QED BY <1>2, <1>7, <1>10, <1>11, <1>12, <1>13, <1>16, <1>17, <1>18, XAdd

\* A bulk goes on with a block from the parent, or ends without one.
LEMMA XBulkNew ==
  ASSUME XAll, CountersInv', Explicit!BulkNewBlock
  PROVE  Walking' /\ XInv' /\ [SubQ!Next]_(SubQ!subQueueVars) /\ Stays
  <1>0. CountersInv /\ XIndex /\ XRing /\ XCall /\ XCells
    BY DEF XAll, XInv
  <1>1. PICK grow \in BOOLEAN, full \in BOOLEAN :
          full = Explicit!Full(Explicit!BulkBase) /\ grow = (prUsed = Explicit!Cur.size /\ ~full)
    BY DEF Explicit!Full
  <1>2. PICK ixs, f : ixs = (IF grow THEN Explicit!Grown(prod.used0) ELSE indexes) /\ f = (IF grow THEN prUsed ELSE prFront)
    OBVIOUS
  <1>3. /\ prod.at = "blocks" /\ UNCHANGED <<claimVars, cell, hand, taken, limit>>
        /\ \/ \E b \in pool : /\ ~full /\ pool' = pool \ {b} /\ ring' = Explicit!Inject(b) /\ prUsed' = prUsed + 1
                              /\ Explicit!SetEmpty(b, Offsets) /\ Explicit!BulkAdd(b, ixs, f)
           \/ /\ prod.first = None
              /\ Explicit!BulkUndo(indexes, prod.front0) \/ (grow /\ Explicit!BulkUndo(ixs, prod.used0))
              /\ UNCHANGED <<pool, ring, flags>>
    BY <1>1, <1>2 DEF Explicit!BulkNewBlock, Explicit!claimVars, claimVars, Explicit!Offsets, Offsets
  <1>4. prod.used0 \in Nat /\ prod.used0 <= prUsed /\ (tailIndex > 0 => prod.used0 >= 1)
    BY <1>0, <1>3 DEF XCall, ProdRecords
  <1>5. Ready(ixs, f) /\ (~full => Made + 1 - Oldest <= Newest(ixs).size)
    <2>1. grow => prUsed = Explicit!Cur.size
      BY <1>1
    <2>2. PICK e : e = prod.used0
      OBVIOUS
    <2>3. e \in Nat /\ e <= prUsed /\ (tailIndex > 0 => e >= 1) /\ ixs = IF grow THEN Explicit!Grown(e) ELSE indexes
      BY <1>2, <1>4, <2>2
    <2>4. Ready(ixs, f) /\ (grow \/ prUsed /= Explicit!Cur.size => Made + 1 - Oldest <= Newest(ixs).size)
      BY <1>2, <2>1, <2>3, Room
    <2> QED BY <1>1, <2>4
  <1>6. /\ Made \in Int /\ Oldest \in Int /\ Begun \in Int /\ prUsed \in Nat /\ Made = Oldest + prUsed /\ Oldest <= Made
        /\ Begun <= Made /\ Oldest <= Number(tailIndex) /\ Number(tailIndex) <= Begun /\ Number(tailIndex) \in Int
    BY <1>3, MadeIs
  <1>7. ASSUME NEW b \in pool, ~full, pool' = pool \ {b}, ring' = Explicit!Inject(b), prUsed' = prUsed + 1,
               Explicit!SetEmpty(b, Offsets), Explicit!BulkAdd(b, ixs, f)
        PROVE  Walking' /\ XInv' /\ [SubQ!Next]_(SubQ!subQueueVars) /\ Stays
    <2>1. PICK low : low = Oldest
      OBVIOUS
    <2>2. /\ b \in Blocks /\ \A q \in low .. Made - 1 : Homes[q] /= b
          /\ \A g \in [Int -> Blocks \cup {None}] :
               (\A q \in low .. Made - 1 : g[q] = Homes[q]) /\ g[Made] = b => Ringed(g, low, Made + 1, ring', pool', b)
      BY <1>7, <2>1, RingPool
    <2>3. \A i \in Int : Live(i) => low <= Number(i)
      BY <1>0, <1>6, <2>1 DEF XCells
    <2>4. low <= Number(tailIndex) /\ Made + 1 - low <= Newest(ixs).size /\ prUsed' = (Made + 1) - low
      BY <1>5, <1>6, <1>7, <2>1
    <2>5. flags' \in [Blocks -> SUBSET Offsets] /\ \A x \in Blocks : x /= b => flags'[x] = flags[x]
      <3>1. flags \in [Blocks -> SUBSET Offsets] /\ flags' = [flags EXCEPT ![b] = flags[b] \cup Offsets]
        BY <1>0, <1>7 DEF XCells, Explicit!SetEmpty
      <3> QED BY <2>2, <3>1
    <2> QED BY <1>3, <1>5, <1>7, <2>1, <2>2, <2>3, <2>4, <2>5, XAdd
  <1>8. ASSUME prod.first = None, UNCHANGED <<pool, ring, flags>>, NEW i, NEW g, NEW e, Ready(i, g),
               Explicit!BulkUndo(i, e), (e = prod.front0 /\ g = prFront) \/ (e = prod.used0 /\ g = prUsed)
        PROVE  Walking' /\ XInv' /\ [SubQ!Next]_(SubQ!subQueueVars) /\ Stays
    <2>1. Made = Begun
      <3>1. Begun < Made => Begun \in Oldest .. Made - 1 /\ Homes[Begun] \in Blocks
        BY <1>0, <1>6, XTypes
      <3>2. prod.first = IF Begun < Made THEN Homes[Begun] ELSE None
        BY <1>0, <1>3 DEF XCall
      <3> QED BY <1>6, <1>8, <3>1, <3>2, NoneAssumption
    <2>2. prod.start = tailBlock /\ prod.front0 = prFront /\ prod.used0 = prUsed
      BY <1>0, <1>3, <2>1 DEF XCall
    <2>3. tailBlock' = tailBlock /\ prFront' = g /\ prUsed' = prUsed /\ indexes' = i /\ prod' = NoCall
      BY <1>8, <2>2 DEF Explicit!BulkUndo, Explicit!NoCall, NoCall
    <2>4. prod.at \in {"idle", "blocks"}
      BY <1>3
    <2> QED BY <1>3, <1>8, <2>1, <2>3, <2>4, XNoBlock
  <1>9. Ready(indexes, prFront)
    BY <1>4, Room
  <1>10. grow => f = prUsed
    BY <1>2
  <1> QED BY <1>3, <1>5, <1>7, <1>8, <1>9, <1>10

-----------------------------------------------------------------------------
(* Along the ring.  A recursive function on 0 .. k is what its equation says, number by number. *)
Below == {p \in Nat \X Nat : p[1] < p[2]}

\* A set of natural numbers with 0 and each one's successor has them all.
LEMMA Successors ==
  ASSUME NEW S \in SUBSET Nat, 0 \in S, \A n \in S : n + 1 \in S
  PROVE  S = Nat
  <1> SUFFICES ASSUME Nat \ S /= {} PROVE FALSE
    OBVIOUS
  <1>1. PICK x \in Nat \ S : \A y \in Nat \ S : <<y, x>> \notin Below
    <2>1. IsWellFoundedOn(Below, Nat)
      BY NatLessThanWellFounded, Zenon DEF OpToRel, Below
    <2> QED BY <2>1, WFMin, Zenon
  <1>2. \A y \in Nat \ S : ~(y < x)
    <2> SUFFICES ASSUME NEW y \in Nat \ S, y < x PROVE FALSE
      OBVIOUS
    <2>1. <<y, x>> \in Nat \X Nat
      OBVIOUS
    <2>2. <<y, x>> \in Below
      BY <2>1 DEF Below
    <2> QED BY <1>1, <2>2
  <1>3. x - 1 \in Nat /\ x - 1 \in S
    BY <1>2
  <1> QED BY <1>3

Along(rg, a, k) == LET walk[j \in 0 .. k] == IF j > 0 THEN rg[walk[j - 1]] ELSE a IN walk[k]

LEMMA AlongIs ==
  ASSUME NEW rg, NEW a, NEW k \in Nat, NEW h, h[0] = a, \A j \in 0 .. k : j > 0 => h[j] = rg[h[j - 1]]
  PROVE  Along(rg, a, k) = h[k]
  <1>1. PICK w : w = CHOOSE x : x = [j \in 0 .. k |-> IF j > 0 THEN rg[x[j - 1]] ELSE a]
    OBVIOUS
  <1>2. Along(rg, a, k) = w[k]
    BY <1>1 DEF Along
  <1>3. PICK v : v = [j \in 0 .. k |-> h[j]]
    OBVIOUS
  <1>4. v = [j \in 0 .. k |-> IF j > 0 THEN rg[v[j - 1]] ELSE a]
    <2>1. ASSUME NEW j \in 0 .. k PROVE h[j] = IF j > 0 THEN rg[v[j - 1]] ELSE a
      <3>1. CASE j > 0
        <4>1. j - 1 \in 0 .. k
          BY <3>1
        <4>2. v[j - 1] = h[j - 1]
          BY <1>3, <4>1
        <4> QED BY <3>1, <4>2
      <3>2. CASE j = 0
        BY <3>2
      <3> QED BY <3>1, <3>2
    <2> QED BY <1>3, <2>1
  <1>5. w = [j \in 0 .. k |-> IF j > 0 THEN rg[w[j - 1]] ELSE a]
    BY <1>1, <1>4
  <1>6. PICK S \in SUBSET Nat : S = {j \in Nat : j <= k => w[j] = h[j]}
    OBVIOUS
  <1>7. 0 \in S
    BY <1>5, <1>6
  <1>8. ASSUME NEW n \in S PROVE n + 1 \in S
    <2> SUFFICES ASSUME n + 1 <= k PROVE w[n + 1] = h[n + 1]
      BY <1>6
    <2>1. n \in Nat /\ n + 1 \in 0 .. k /\ n + 1 > 0 /\ (n + 1) - 1 = n /\ w[n] = h[n]
      BY <1>6
    <2>2. w[n + 1] = rg[w[n]]
      BY <1>5, <2>1
    <2> QED BY <2>1, <2>2
  <1>9. k \in S
    BY <1>7, <1>8, Successors
  <1> QED BY <1>2, <1>6, <1>9

\* The blocks of a bulk, along the ring from the one its first element goes to.
LEMMA BulkBlockIs ==
  ASSUME XAll, prod.at = "fill", NEW i \in Explicit!BulkCells
  PROVE  /\ i \in Int /\ tailIndex <= i /\ i < tailIndex + prod.n /\ Number(i) \in Oldest .. Made - 1
         /\ Explicit!BulkBlock(i) = Homes[Number(i)]
  <1>0. CountersInv /\ XIndex /\ XRing /\ XCall
    BY DEF XAll, XInv
  <1>1. PICK t, n : t = tailIndex /\ n = prod.n /\ t \in Nat /\ n \in Nat /\ n >= 1 /\ prod.need = 0
    BY Ends
  <1>2. i \in Int /\ t <= i /\ i < t + n
    <2>1. Explicit!BulkCells = t .. t + n - 1
      BY <1>1 DEF Explicit!BulkCells
    <2> QED BY <1>1, <2>1
  <1>3. PICK a \in Int, z \in Int, m \in Int : a = Number(t) /\ z = Number(i) /\ m = Made
    BY <1>1, <1>2, MadeIs, Division
  <1>4. Oldest \in Int /\ Oldest <= a /\ a <= z /\ z <= m - 1
    <2>1. PICK e : e = (t + n) - 1 /\ e \in Int /\ i <= e
      BY <1>1, <1>2
    <2>2. m = Number(e) + (1 - 0) /\ Number(e) \in Int
      BY <1>1, <1>3, <2>1, Division DEF Made
    <2>3. a <= z /\ z <= Number(e)
      BY <1>1, <1>2, <1>3, <2>1, NumberOrder
    <2> QED BY <1>1, <1>3, <2>2, <2>3, MadeIs
  <1>5. PICK k : k = z - a /\ k \in Nat
    BY <1>4
  <1>6. PICK f : f = IF Boundary(t) THEN prod.first ELSE prod.start
    OBVIOUS
  <1>7. Explicit!BulkBlock(i) = Along(ring, f, k)
    <2>1. i \div BlockSize - tailIndex \div BlockSize = k
      BY <1>1, <1>3, <1>5 DEF Number
    <2>2. f = IF Explicit!Boundary(tailIndex) THEN prod.first ELSE prod.start
      BY <1>1, <1>6 DEF Explicit!Boundary, Boundary
    <2> QED BY <2>1, <2>2 DEF Explicit!BulkBlock, Along
  <1>8. f = Homes[a]
    <2>1. Begun \in Int /\ a \in Int /\ (Boundary(t) => Begun = a) /\ (~Boundary(t) => Begun = a + 1)
      BY <1>1, <1>3, MadeIs
    <2>2. CASE Boundary(t)
      <3>1. Begun < Made /\ Begun = a
        BY <1>3, <1>4, <2>1, <2>2
      <3>2. prod.first = Homes[Begun]
        BY <1>0, <3>1 DEF XCall
      <3> QED BY <1>6, <2>2, <3>1, <3>2
    <2>3. CASE ~Boundary(t)
      <3>1. Oldest < Begun /\ Begun - 1 = a
        BY <1>4, <2>1, <2>3
      <3>2. prod.start = Homes[Begun - 1]
        BY <1>0, <3>1 DEF XCall
      <3> QED BY <1>6, <2>3, <3>1, <3>2
    <2> QED BY <2>2, <2>3
  <1>9. PICK h : h = [j \in Nat |-> Homes[a + j]]
    OBVIOUS
  <1>10. h[0] = f
    BY <1>8, <1>9
  <1>11. ASSUME NEW j \in 0 .. k, j > 0 PROVE h[j] = ring[h[j - 1]]
    <2>1. PICK q : q = a + (j - 1)
      OBVIOUS
    <2>2. q \in Oldest .. Made - 1 /\ q + 1 < Made /\ q + 1 = a + j /\ j \in Nat /\ j - 1 \in Nat
      BY <1>3, <1>4, <1>5, <1>11, <2>1
    <2>3. ring[Homes[q]] = Homes[q + 1]
      BY <1>0, <2>2 DEF XRing, Ringed
    <2> QED BY <1>9, <2>1, <2>2, <2>3
  <1>12. Along(ring, f, k) = h[k]
    BY <1>5, <1>10, <1>11, AlongIs
  <1>13. h[k] = Homes[z]
    BY <1>4, <1>5, <1>9
  <1>14. z \in Oldest .. Made - 1
    BY <1>3, <1>4
  <1> QED BY <1>1, <1>2, <1>3, <1>7, <1>12, <1>13, <1>14

\* The position of a bulk that goes in a cell, and the cells when the elements of a bulk are constructed.
Laid(b, o) == CHOOSE i \in Explicit!BulkCells : Explicit!BulkBlock(i) = b /\ i % BlockSize = o

LEMMA FilledIs ==
  ASSUME XAll, prod.at = "fill", cell' = Explicit!Filled(Explicit!BulkBlock)
  PROVE  /\ cell' \in [Blocks -> [Offsets -> Int \cup {None}]]
         /\ \A i \in Int : Number(i) \in Oldest .. Made - 1 =>
              cell'[Homes[Number(i)]][i % BlockSize] =
                IF tailIndex <= i /\ i < tailIndex + prod.n THEN i ELSE cell[Homes[Number(i)]][i % BlockSize]
  <1>0. CountersInv /\ XIndex /\ XRing /\ XCells
    BY DEF XAll, XInv
  <1>1. PICK S : S = Explicit!BulkCells
    OBVIOUS
  <1>2. /\ \A i \in S : i \in Int /\ Number(i) \in Oldest .. Made - 1 /\ Explicit!BulkBlock(i) = Homes[Number(i)]
        /\ \A i \in Int : i \in S <=> tailIndex <= i /\ i < tailIndex + prod.n
    <2>1. \A i \in Int : i \in S <=> tailIndex <= i /\ i < tailIndex + prod.n
      <3>1. PICK t, n : t = tailIndex /\ n = prod.n /\ t \in Nat /\ n \in Nat
        BY Ends
      <3>2. S = t .. t + n - 1
        BY <1>1, <3>1 DEF Explicit!BulkCells
      <3> QED BY <3>1, <3>2
    <2> QED BY <1>1, <2>1, BulkBlockIs
  <1>3. cell' = [b \in Blocks |-> [o \in Offsets |->
                  IF \E i \in Explicit!BulkCells : Explicit!BulkBlock(i) = b /\ i % BlockSize = o
                  THEN Laid(b, o) ELSE cell[b][o]]]
    BY DEF Explicit!Filled, Explicit!Offsets, Offsets, Laid
  <1>4. cell \in [Blocks -> [Offsets -> Int \cup {None}]]
    BY <1>0 DEF XCells
  <1>5. ASSUME NEW b \in Blocks, NEW o \in Offsets
        PROVE  /\ (\A i \in S : Explicit!BulkBlock(i) /= b \/ i % BlockSize /= o) => cell'[b][o] = cell[b][o]
               /\ (\E i \in S : Explicit!BulkBlock(i) = b /\ i % BlockSize = o) =>
                    cell'[b][o] \in S /\ Explicit!BulkBlock(cell'[b][o]) = b /\ cell'[b][o] % BlockSize = o
    <2>1. cell'[b][o] = IF \E i \in S : Explicit!BulkBlock(i) = b /\ i % BlockSize = o THEN Laid(b, o) ELSE cell[b][o]
      BY <1>1, <1>3
    <2>2. (\E i \in S : Explicit!BulkBlock(i) = b /\ i % BlockSize = o) =>
            Laid(b, o) \in S /\ Explicit!BulkBlock(Laid(b, o)) = b /\ Laid(b, o) % BlockSize = o
      BY <1>1, Zenon DEF Laid
    <2> QED BY <2>1, <2>2, Zenon
  <1>6. cell' \in [Blocks -> [Offsets -> Int \cup {None}]]
    <2>1. ASSUME NEW b \in Blocks, NEW o \in Offsets PROVE cell'[b][o] \in Int \cup {None}
      <3>1. cell[b][o] \in Int \cup {None}
        BY <1>4
      <3>2. \A i \in S : i \in Int
        BY <1>2
      <3>3. cell'[b][o] \in S \/ cell'[b][o] = cell[b][o]
        BY <1>5
      <3> QED BY <3>1, <3>2, <3>3
    <2>2. DOMAIN cell' = Blocks /\ \A b \in Blocks : cell'[b] = [o \in Offsets |-> cell'[b][o]]
      BY <1>3
    <2>3. \A b \in Blocks : cell'[b] \in [Offsets -> Int \cup {None}]
      BY <2>1, <2>2
    <2> QED BY <1>3, <2>2, <2>3
  <1>7. ASSUME NEW i \in Int, Number(i) \in Oldest .. Made - 1
        PROVE  cell'[Homes[Number(i)]][i % BlockSize] =
                 IF tailIndex <= i /\ i < tailIndex + prod.n THEN i ELSE cell[Homes[Number(i)]][i % BlockSize]
    <2>1. PICK b, o : b = Homes[Number(i)] /\ o = i % BlockSize /\ b \in Blocks /\ o \in Offsets
      BY <1>0, <1>7, XTypes, Division
    <2>2. ASSUME NEW j \in S, Explicit!BulkBlock(j) = b, j % BlockSize = o PROVE j = i
      <3>1. Number(j) = Number(i)
        BY <1>0, <1>2, <1>7, <2>1, <2>2, XTypes
      <3>2. i = First(Number(i)) + o /\ j = First(Number(j)) + o
        BY <1>2, <2>1, <2>2, Division
      <3> QED BY <3>1, <3>2
    <2>3. CASE i \in S
      <3>1. Explicit!BulkBlock(i) = b /\ i % BlockSize = o
        BY <1>2, <2>1, <2>3
      <3>2. cell'[b][o] = i
        BY <1>5, <2>1, <2>2, <2>3, <3>1
      <3> QED BY <1>2, <2>1, <2>3, <3>2
    <2>4. CASE i \notin S
      <3>1. cell'[b][o] = cell[b][o]
        BY <1>5, <2>1, <2>2, <2>4
      <3> QED BY <1>2, <2>1, <2>4, <3>1
    <2> QED BY <2>3, <2>4
  <1> QED BY <1>6, <1>7

\* The blocks a bulk begins are marked in use.
LEMMA FillFlags ==
  ASSUME XAll, prod.at = "fill", Explicit!ResetEmpty({Explicit!BulkBlock(i) : i \in {j \in Explicit!BulkCells : Boundary(j)}})
  PROVE  /\ flags' \in [Blocks -> SUBSET Offsets] /\ \A x \in Blocks : flags'[x] \subseteq flags[x]
         /\ \A q \in Begun .. Made - 1 : flags'[Homes[q]] = {}
         /\ \A q \in Oldest .. Begun - 1 : flags'[Homes[q]] = flags[Homes[q]]
  <1>0. CountersInv /\ XIndex /\ XRing /\ XCells
    BY DEF XAll, XInv
  <1>1. PICK R : R = {Explicit!BulkBlock(i) : i \in {j \in Explicit!BulkCells : Boundary(j)}}
    OBVIOUS
  <1>2. flags \in [Blocks -> SUBSET Offsets] /\ flags' = [b \in Blocks |-> IF b \in R THEN {} ELSE flags[b]]
    BY <1>0, <1>1 DEF XCells, Explicit!ResetEmpty
  <1>3. ASSUME NEW q \in Begun .. Made - 1 PROVE flags'[Homes[q]] = {}
    <2>1. PICK t, n : t = tailIndex /\ n = prod.n /\ t \in Nat /\ n \in Nat /\ n >= 1 /\ prod.need = 0
      BY Ends
    <2>2. PICK e : e = (t + n) - 1 /\ e \in Int
      BY <2>1
    <2>3. Made = Number(e) + (1 - 0) /\ Number(e) \in Int
      BY <2>1, <2>2, Division DEF Made
    <2>4. Begun \in Int /\ Oldest \in Int /\ Oldest <= Begun /\ Number(t) \in Int /\ Oldest <= Number(t) /\ Number(t) <= Begun
          /\ (Boundary(t) => Begun = Number(t) /\ t = First(Number(t))) /\ (~Boundary(t) => Begun = Number(t) + 1)
      BY <2>1, MadeIs
    <2>5. q \in Int /\ Begun <= q /\ q <= Number(e) /\ q \in Oldest .. Made - 1
      BY <2>3, <2>4
    <2>6. PICK x \in Int : x = First(q) /\ Number(x) = q /\ x % BlockSize = 0
      BY <2>5, FirstNumber
    <2>7. t <= x
      <3>1. CASE Boundary(t)
        <4>1. First(Begun) <= First(q) /\ First(Begun) \in Int
          <5>1. Begun < q => First(Begun) + BlockSize <= First(q)
            BY <2>4, <2>5, FirstOrder
          <5>2. First(Begun) \in Int /\ BlockSize \in Nat
            BY <2>4, FirstNumber, BlockAssumption
          <5> QED BY <2>4, <2>5, <2>6, <5>1, <5>2
        <4> QED BY <2>1, <2>4, <2>6, <3>1, <4>1
      <3>2. CASE ~Boundary(t)
        <4>1. Number(t) < Number(x)
          BY <2>4, <2>5, <2>6, <3>2
        <4>2. t < First(Number(x))
          BY <2>1, <2>6, <4>1, NumberOrder
        <4> QED BY <2>1, <2>6, <4>2
      <3> QED BY <3>1, <3>2
    <2>8. x <= e
      <3>1. CASE q = Number(e)
        <4>1. e = First(Number(e)) + (e % BlockSize) /\ e % BlockSize \in Offsets
          BY <2>2, Division
        <4> QED BY <2>2, <2>6, <3>1, <4>1 DEF Offsets
      <3>2. CASE q < Number(e)
        <4>1. x < First(Number(e)) /\ First(Number(e)) <= e
          <5>1. e = First(Number(e)) + (e % BlockSize) /\ e % BlockSize \in Offsets /\ First(Number(e)) \in Int
            BY <2>2, <2>3, Division, FirstNumber
          <5>2. Number(x) < Number(e)
            BY <2>6, <3>2
          <5>3. x < First(Number(e))
            BY <2>2, <2>6, <5>2, NumberOrder
          <5> QED BY <2>2, <5>1, <5>3 DEF Offsets
        <4> QED BY <2>2, <2>3, <2>6, <4>1, FirstNumber
      <3> QED BY <2>3, <2>5, <3>1, <3>2
    <2>9. x \in Explicit!BulkCells /\ Boundary(x)
      <3>1. Explicit!BulkCells = t .. t + n - 1 /\ t + n - 1 = e
        BY <2>1, <2>2 DEF Explicit!BulkCells
      <3> QED BY <2>1, <2>2, <2>6, <2>7, <2>8, <3>1 DEF Boundary
    <2>10. Explicit!BulkBlock(x) = Homes[q] /\ Homes[q] \in Blocks
      BY <1>0, <2>5, <2>6, <2>9, BulkBlockIs, XTypes
    <2>11. Homes[q] \in R
      BY <1>1, <2>9, <2>10
    <2> QED BY <1>2, <2>10, <2>11
  <1>4. flags' \in [Blocks -> SUBSET Offsets] /\ \A x \in Blocks : flags'[x] \subseteq flags[x]
    BY <1>2
  <1>5. ASSUME NEW q \in Oldest .. Begun - 1 PROVE flags'[Homes[q]] = flags[Homes[q]]
    <2>1. q \in Int /\ q < Begun /\ Begun \in Int /\ q \in Oldest .. Made - 1
      BY MadeIs
    <2>2. Homes[q] \in Blocks
      BY <1>0, <2>1, XTypes
    <2>3. ASSUME NEW i \in Explicit!BulkCells, Boundary(i), Explicit!BulkBlock(i) = Homes[q] PROVE FALSE
      <3>1. i \in Int /\ tailIndex \in Int /\ tailIndex <= i /\ Number(i) \in Oldest .. Made - 1 /\ Homes[Number(i)] = Homes[q]
        BY <2>3, BulkBlockIs, Ends
      <3>2. Number(i) = q
        BY <1>0, <2>1, <3>1, XTypes
      <3>3. tailIndex - 1 \in Int /\ i - 1 \in Int /\ tailIndex - 1 <= i - 1
        BY <3>1
      <3>4. Number(tailIndex - 1) <= Number(i - 1) /\ Number(tailIndex - 1) \in Int
        BY <3>3, NumberOrder, Division
      <3>5. Number(i - 1) = q - 1
        BY <2>3, <3>1, <3>2, NextNumber
      <3> QED BY <2>1, <3>4, <3>5 DEF Begun
    <2>4. Homes[q] \notin R
      BY <1>1, <2>3
    <2> QED BY <1>2, <2>2, <2>4
  <1> QED BY <1>3, <1>4, <1>5

\* The elements of a bulk are constructed.
LEMMA XFill ==
  ASSUME XAll, CountersInv', Explicit!BulkFill
  PROVE  Walking' /\ XInv' /\ [SubQ!Next]_(SubQ!subQueueVars) /\ Stays
  <1>0. CountersInv /\ Walking /\ XIndex /\ XRing /\ XCall /\ XCells /\ XHands
    BY DEF XAll, XInv
  <1>1. PICK at : at = IF prod.first = None THEN "publish" ELSE "expose"
    OBVIOUS
  <1>2. PICK t, n, h : t = tailIndex /\ n = prod.n /\ h = headIndex /\ t \in Nat /\ n \in Nat /\ h \in Nat /\ h <= t
    BY Ends
  <1>3. /\ prod.at = "fill"
        /\ Explicit!ResetEmpty({Explicit!BulkBlock(i) : i \in {j \in Explicit!BulkCells : Boundary(j)}})
        /\ cell' = Explicit!Filled(Explicit!BulkBlock) /\ prod' = [NoCall EXCEPT !.at = at, !.n = n]
        /\ UNCHANGED <<tailIndex, headIndex, optimistic, overcommit, claim, pool, ring, hand, taken, limit,
                       tailBlock, prFront, prUsed, indexes>>
    BY <1>1, <1>2 DEF Explicit!BulkFill, Explicit!claimVars, Explicit!NoCall, NoCall, Explicit!Boundary, Boundary
  <1>4. n >= 1 /\ prod.need = 0
    BY <1>2, <1>3, Ends
  <1>5. prod' \in ProdRecords /\ prod'.at = at /\ prod'.n = n /\ prod'.need = 0 /\ at \in {"publish", "expose"}
    <2>1. prod' = [at |-> at, n |-> n, need |-> 0, first |-> None, start |-> None, front0 |-> 0, used0 |-> 0]
      BY <1>3, CallRecord, Zenon
    <2>2. at \in {"publish", "expose"}
      BY <1>1
    <2> QED BY <1>2, <2>1, <2>2, CallMade
  <1>6. /\ Made \in Int /\ Oldest \in Int /\ Begun \in Int /\ Begun <= Made /\ Number(t) \in Int /\ Oldest <= Number(t)
        /\ Number(t) <= Made - 1
        /\ (Boundary(t) => Begun = Number(t)) /\ (~Boundary(t) => t > 0)
    BY <1>2, <1>3, <1>4, MadeIs
  <1>7. Made' = Made /\ Begun' = Begun /\ Top = t /\ Top' = t + n
    <2>1. Made' = Made
      BY <1>2, <1>3, <1>4, <1>5 DEF Made, Number
    <2> QED BY <1>2, <1>3, <1>5, <2>1 DEF Begun, Top, Number
  <1>8. /\ Walking' /\ [SubQ!Next]_(SubQ!subQueueVars) /\ XRing' /\ XHands'
        /\ Oldest' = Oldest /\ Homes' = Homes /\ Newest(indexes)' = Newest(indexes)
        /\ IndexOK(indexes, Phase, Oldest, Made)' /\ (prFront \in 0 .. Newest(indexes).size - 1 /\ prUsed \in Nat)'
        /\ \A d \in Consumers : Rest(d)' = Rest(d)
    <2>1. tailIndex <= tailIndex'
      BY <1>2, <1>3
    <2> QED BY <1>3, <1>7, <2>1, ProducerKeeps
  <1>9. prod.first = None <=> Begun = Made
    <2>1. Begun < Made => Begun \in Oldest .. Made - 1 /\ Homes[Begun] \in Blocks
      <3>1. Oldest <= Begun
        BY <1>3, MadeIs
      <3> QED BY <1>0, <1>6, <3>1, XTypes
    <2>2. prod.first = IF Begun < Made THEN Homes[Begun] ELSE None
      BY <1>0, <1>3 DEF XCall
    <2> QED BY <1>6, <2>1, <2>2, NoneAssumption
  <1>10. XIndex'
    <2>1. /\ (Begun <= Made)' /\ (tailIndex > 0 => prUsed >= 1)' /\ (Oldest <= Number(tailIndex))'
      BY <1>0, <1>3, <1>7, <1>8 DEF XIndex, Number
    <2>2. at = "publish" => t > 0
      BY <1>1, <1>6, <1>9
    <2>3. (tailIndex > 0 \/ prod.at = "publish" => Newest(indexes).entries[Newest(indexes).front].block /= None)'
      BY <1>0, <1>2, <1>3, <1>5, <1>8, <2>2 DEF XIndex
    <2> QED BY <1>8, <2>1, <2>3 DEF XIndex
  <1>11. XCall'
    <2>1. (prod.at = "expose" => Begun < Made)'
      BY <1>1, <1>5, <1>6, <1>7, <1>9
    <2> QED BY <1>5, <2>1 DEF XCall
  <1>12. XCells'
    <2>1. /\ cell' \in [Blocks -> [Offsets -> Int \cup {None}]]
          /\ \A i \in Int : Number(i) \in Oldest .. Made - 1 =>
               cell'[Homes[Number(i)]][i % BlockSize] = IF t <= i /\ i < t + n THEN i ELSE cell[Homes[Number(i)]][i % BlockSize]
      BY <1>2, <1>3, FilledIs
    <2>2. \A i \in Int : Live(i)' <=> Live(i) \/ (t <= i /\ i < t + n)
      <3>1. \A i \in Int : (\E c \in Consumers : i \in Rest(c)') <=> (\E c \in Consumers : i \in Rest(c))
        BY <1>8
      <3>2. \A i \in Int : (h <= i /\ i < t + n) <=> (h <= i /\ i < t) \/ (t <= i /\ i < t + n)
        BY <1>2
      <3> QED BY <1>2, <1>3, <1>7, <3>1, <3>2 DEF Live
    <2>3. ASSUME NEW i \in Int, Live(i)'
          PROVE  Number(i) \in Oldest .. Made - 1 /\ cell'[Homes[Number(i)]][i % BlockSize] = i
      <3>1. CASE t <= i /\ i < t + n
        <4>1. i \in Explicit!BulkCells
          BY <1>2, <1>4, <3>1 DEF Explicit!BulkCells
        <4>2. Number(i) \in Oldest .. Made - 1
          BY <1>3, <4>1, BulkBlockIs
        <4> QED BY <2>1, <3>1, <4>2
      <3>2. CASE Live(i) /\ ~(t <= i /\ i < t + n)
        <4>1. Number(i) \in Oldest .. Made - 1 /\ cell[Homes[Number(i)]][i % BlockSize] = i
          BY <1>0, <3>2 DEF XCells
        <4> QED BY <2>1, <3>2, <4>1
      <3> QED BY <2>2, <2>3, <3>1, <3>2
    <2>4. (\A i \in Int : Live(i) => Number(i) \in Oldest .. Made - 1 /\ cell[Homes[Number(i)]][i % BlockSize] = i)'
      <3>1. \A i \in Int : Number(i)' = Number(i)
        BY DEF Number
      <3> QED BY <1>7, <1>8, <2>3, <3>1
    <2>5. /\ flags' \in [Blocks -> SUBSET Offsets] /\ \A x \in Blocks : flags'[x] \subseteq flags[x]
          /\ \A q \in Begun .. Made - 1 : flags'[Homes[q]] = {}
      BY <1>3, FillFlags
    <2>6. ASSUME NEW q \in Oldest .. Made - 1, NEW o \in flags'[Homes[q]]
          PROVE  First(q) + o < headIndex /\ ~Live(First(q) + o)'
      <3>1. q \in Int /\ Homes[q] \in Blocks
        BY <1>0, <1>6, XTypes
      <3>2. q < Begun
        BY <1>6, <2>5, <2>6, <3>1
      <3>3. o \in flags[Homes[q]] /\ o \in Offsets
        BY <1>0, <2>5, <2>6, <3>1 DEF XCells
      <3>4. First(q) + o < headIndex /\ ~Live(First(q) + o)
        BY <1>0, <3>2, <3>3 DEF XCells
      <3>5. PICK x \in Int : x = First(q) + o
        BY <3>1, <3>3, Placed
      <3>6. ~(t <= x)
        BY <1>2, <3>4, <3>5
      <3> QED BY <2>2, <3>4, <3>5, <3>6
    <2>7. (\A q \in Oldest .. Made - 1 : q < Begun \/ Filling =>
             \A o \in flags[Homes[q]] : First(q) + o < headIndex /\ ~Live(First(q) + o))'
      BY <1>3, <1>7, <1>8, <2>6
    <2> QED BY <2>1, <2>4, <2>5, <2>7 DEF XCells
  <1>13. Stays
    <2>1. \A q \in Oldest .. Begun - 1 : flags'[Homes[q]] = flags[Homes[q]]
      BY <1>3, FillFlags
    <2> QED BY <1>6, <1>8, <2>1 DEF Stays
  <1> QED BY <1>8, <1>10, <1>11, <1>12, <1>13 DEF XInv

-----------------------------------------------------------------------------
(* How a queue begins, after s elements; an explicit one with u blocks: none, or the one the elements were in. *)
Begins(s) ==
  /\ s \in Nat /\ Boundary(s)
  /\ tailIndex = s /\ headIndex = s /\ claim = [c \in Consumers |-> NoClaim] /\ hand = [c \in Consumers |-> NoWalk]
  /\ limit = s + MaxPut /\ taken = 0 .. s - 1 /\ prod = NoCall
XBegins(s, u, b, f) ==
  /\ Begins(s) /\ u \in {0, 1} /\ (s > 0 => u = 1) /\ f \in 0 .. FirstIndex - 1 /\ (u = 1 => f = 0 /\ b \in Blocks)
  /\ pool = Blocks \ (IF u = 0 THEN {} ELSE {b}) /\ tailBlock = IF u = 0 THEN None ELSE b
  /\ ring = [x \in Blocks |-> IF u = 1 /\ x = b THEN b ELSE None]
  /\ flags = [x \in Blocks |-> IF u = 1 /\ x = b THEN Offsets ELSE {}]
  /\ cell = [x \in Blocks |-> [o \in Offsets |-> IF u = 1 /\ x = b THEN s - BlockSize + o ELSE None]]
  /\ prUsed = u /\ prFront = u
  /\ indexes = <<[size |-> FirstIndex, front |-> f, entries |-> [i \in 0 .. FirstIndex - 1 |->
       IF i < u THEN [base |-> s - BlockSize, block |-> tailBlock] ELSE [base |-> 0, block |-> None]]]>>

LEMMA HowMany == ASSUME NEW s, NEW used, Explicit!InitAt(s, used)
                 PROVE /\ prUsed = Cardinality(used) /\ prFront = Cardinality(used) % FirstIndex
                       /\ (s /= 0 => tailBlock = CHOOSE b \in used : TRUE)
  <1>1. prUsed = Cardinality(used) /\ prFront = Cardinality(used) % FirstIndex
    BY Zenon DEF Explicit!InitAt, Explicit!Cardinality, Cardinality
  <1>2. tailBlock = IF s = 0 THEN None ELSE CHOOSE b \in used : TRUE
    BY Zenon DEF Explicit!InitAt, Explicit!Cardinality, Cardinality
  <1> QED BY <1>1, <1>2, Zenon

LEMMA XBeginsIs == ASSUME Explicit!Init PROVE \E s, u, b, f : XBegins(s, u, b, f)
  <1>1. PICK s \in Starts : IF s = 0 THEN Explicit!InitAt(0, {}) ELSE \E b \in Blocks : Explicit!InitAt(s, {b})
    BY DEF Explicit!Init
  <1>2. s \in Nat /\ s % BlockSize = 0 /\ FirstIndex \in Nat /\ FirstIndex >= 2
    BY BoundAssumption, IndexAssumption
  <1>3. CASE s = 0
    <2>1. Explicit!InitAt(0, {}) /\ Cardinality({}) = 0
      BY <1>1, <1>3, FS_EmptySet
    <2>2. 0 % FirstIndex = 0 /\ (0 - 1) % FirstIndex \in 0 .. FirstIndex - 1
      BY <1>2
    <2>3. PICK f : f = (0 - 1) % FirstIndex
      OBVIOUS
    <2>4. XBegins(0, 0, None, f)
      <3>1. prUsed = 0 /\ prFront = 0
        <4>1. prUsed = Cardinality({}) /\ prFront = Cardinality({}) % FirstIndex
          BY <2>1, HowMany
        <4> QED BY <4>1, <2>1, <2>2
      <3>2. indexes = <<[size |-> FirstIndex, front |-> f, entries |-> [i \in 0 .. FirstIndex - 1 |->
              IF i < 0 THEN [base |-> 0 - BlockSize, block |-> tailBlock] ELSE [base |-> 0, block |-> None]]]>>
        BY <2>1, <2>3, <3>1 DEF Explicit!InitAt, Explicit!NewIndex, Explicit!EmptySlot
      <3>3. /\ tailIndex = 0 /\ headIndex = 0 /\ claim = [c \in Consumers |-> NoClaim] /\ hand = [c \in Consumers |-> NoWalk]
            /\ limit = 0 + MaxPut /\ taken = 0 .. 0 - 1 /\ prod = NoCall
        BY <2>1 DEF Explicit!InitAt, Explicit!SharedInit, Explicit!ClaimsInit, Explicit!NoClaim, NoClaim,
                    Explicit!NoWalk, NoWalk, Explicit!NoCall, NoCall
      <3>4. /\ pool = Blocks \ {} /\ tailBlock = None
            /\ ring = [x \in Blocks |-> None] /\ flags = [x \in Blocks |-> {}]
            /\ cell = [x \in Blocks |-> [o \in Offsets |-> None]]
        BY <2>1 DEF Explicit!InitAt, Explicit!Offsets, Offsets
      <3>5. Boundary(0)
        BY <1>2, <1>3 DEF Boundary
      <3> QED BY <2>2, <2>3, <3>1, <3>2, <3>3, <3>4, <3>5 DEF XBegins, Begins
    <2> QED BY <2>4
  <1>4. CASE s /= 0
    <2>1. PICK b \in Blocks : Explicit!InitAt(s, {b})
      BY <1>1, <1>4
    <2>2. Cardinality({b}) = 1 /\ (CHOOSE x \in {b} : TRUE) = b
      BY FS_Singleton
    <2>3. 1 % FirstIndex = 1 /\ (1 - 1) % FirstIndex = 0
      BY <1>2
    <2>4. XBegins(s, 1, b, 0)
      <3>1. prUsed = 1 /\ prFront = 1 /\ tailBlock = b
        <4>1. prUsed = Cardinality({b}) /\ prFront = Cardinality({b}) % FirstIndex
          BY <2>1, HowMany
        <4>4. tailBlock = b
          BY <2>1, <1>4, <2>2, HowMany
        <4> QED BY <4>1, <4>4, <2>2, <2>3
      <3>2. indexes = <<[size |-> FirstIndex, front |-> 0, entries |-> [i \in 0 .. FirstIndex - 1 |->
              IF i < 1 THEN [base |-> s - BlockSize, block |-> tailBlock] ELSE [base |-> 0, block |-> None]]]>>
        BY <2>1, <2>3, <3>1 DEF Explicit!InitAt, Explicit!NewIndex, Explicit!EmptySlot
      <3>3. /\ tailIndex = s /\ headIndex = s /\ claim = [c \in Consumers |-> NoClaim] /\ hand = [c \in Consumers |-> NoWalk]
            /\ limit = s + MaxPut /\ taken = 0 .. s - 1 /\ prod = NoCall
        BY <2>1 DEF Explicit!InitAt, Explicit!SharedInit, Explicit!ClaimsInit, Explicit!NoClaim, NoClaim,
                    Explicit!NoWalk, NoWalk, Explicit!NoCall, NoCall
      <3>4. /\ pool = Blocks \ {b}
            /\ ring = [x \in Blocks |-> IF x = b THEN b ELSE None] /\ flags = [x \in Blocks |-> IF x = b THEN Offsets ELSE {}]
            /\ cell = [x \in Blocks |-> [o \in Offsets |-> IF x = b THEN s - BlockSize + o ELSE None]]
        BY <2>1 DEF Explicit!InitAt, Explicit!Offsets, Offsets
      <3>5. Boundary(s) /\ 0 \in 0 .. FirstIndex - 1
        BY <1>2 DEF Boundary
      <3> QED BY <1>2, <3>1, <3>2, <3>3, <3>4, <3>5 DEF XBegins, Begins
    <2> QED BY <2>4
  <1> QED BY <1>3, <1>4

\* Before the first step nobody owns a position, and every position that came is out.
LEMMA FirstWalks ==
  ASSUME CountersInv, NEW s, Begins(s)
  PROVE  /\ Walking /\ SubQ!Init /\ Start = s /\ \A c \in Consumers : Rest(c) = {}
         /\ \A i \in Int : ~Live(i)
  <1>1. /\ s \in Nat /\ Boundary(s) /\ tailIndex = s /\ headIndex = s /\ limit = s + MaxPut /\ taken = 0 .. s - 1
        /\ claim = [c \in Consumers |-> NoClaim] /\ hand = [c \in Consumers |-> NoWalk] /\ prod = NoCall
    BY DEF Begins
  <1>2. MaxPut \in Nat
    BY BoundAssumption
  <1>3. Start = s
    BY <1>1, <1>2 DEF Start
  <1>4. \A c \in Consumers : claim[c].at = "idle" /\ hand[c].at = "idle" /\ hand[c] \in HandRecords
    BY <1>1 DEF NoClaim, NoWalk, HandRecords
  <1>5. \A c \in Consumers : Rest(c) = {} /\ Owes(c) = {}
    BY <1>4 DEF Rest, Owes, MovedAt
  <1>6. Walks
    <2>1. hand \in [Consumers -> HandRecords]
      BY <1>1, <1>4
    <2> QED BY <1>1, <1>3, <1>4, <2>1 DEF Walks
  <1>7. Outside
    BY <1>1, <1>5 DEF Outside
  <1>8. AbstractOwed = [c \in Consumers |-> {}]
    BY <1>4 DEF AbstractOwed
  <1>9. SubQ!Init
    BY <1>1, <1>8 DEF SubQ!Init, AbstractOwed
  <1>10. Top = s
    BY <1>1 DEF Top, NoCall
  <1>11. \A i \in Int : ~Live(i)
    BY <1>1, <1>5, <1>10 DEF Live
  <1> QED BY <1>3, <1>5, <1>6, <1>7, <1>9, <1>11 DEF Walking

LEMMA FirstNumbers ==
  ASSUME CountersInv, NEW s, Begins(s), NEW n, n = Number(s)
  PROVE  /\ n \in Int /\ Made = n /\ Begun = n /\ n - 1 \in Numbers
         /\ s = First(n) /\ s - BlockSize = First(n - 1) /\ First(n - 1) \in Int /\ First(n - 1) + BlockSize = s
  <1>1. /\ s \in Nat /\ Boundary(s) /\ tailIndex = s /\ limit = s + MaxPut /\ prod = NoCall
    BY DEF Begins
  <1>2. MaxPut \in Nat /\ BlockSize \in Nat \ {0}
    BY BoundAssumption, BlockAssumption
  <1>3. n \in Int /\ s = First(n) /\ Number(s - 1) = n - 1
    BY <1>1, Division, NextNumber
  <1>4. prod.n = 0 /\ prod.need = 0
    BY <1>1 DEF NoCall
  <1>5. Made = n
    <2>1. (tailIndex + prod.n) - 1 = s - 1 /\ 1 - prod.need = 1
      BY <1>1, <1>4
    <2> QED BY <2>1, <1>3 DEF Made
  <1>6. Begun = n
    BY <1>1, <1>3 DEF Begun
  <1>8. First(n - 1) \in Int /\ First(n - 1) + BlockSize = s /\ s - BlockSize = First(n - 1)
    <2>1. First(n - 1) \in Int
      BY <1>3, FirstNumber
    <2>2. First((n - 1) + 1) = First(n - 1) + BlockSize
      BY <1>3, FirstOrder
    <2>3. (n - 1) + 1 = n
      BY <1>3
    <2>4. PICK z : z \in Int /\ First(n - 1) = z /\ z + BlockSize = s
      BY <2>1, <2>2, <2>3, <1>3
    <2>5. s - BlockSize = z
      BY <2>4, <1>1, <1>2
    <2> QED BY <2>4, <2>5
  <1>9. n - 1 \in Numbers
    <2>1. limit - MaxPut = s /\ limit - 1 \in Int /\ s - 1 \in Int /\ s - 1 <= limit - 1
      BY <1>1, <1>2
    <2>2. Number(s - 1) <= Number(limit - 1) /\ Number(limit - 1) \in Int
      BY <2>1, NumberOrder, Division
    <2>3. PICK m : m \in Int /\ Number(limit - 1) = m /\ n - 1 <= m
      BY <2>2, <1>3
    <2>4. Number(limit - MaxPut) = n
      BY <2>1
    <2>5. Numbers = n - 1 .. m
      BY <2>3, <2>4 DEF Numbers
    <2> QED BY <2>3, <2>5, <1>3
  <1> QED BY <1>1, <1>2, <1>3, <1>5, <1>6, <1>8, <1>9

LEMMA XFirstNumbers ==
  ASSUME CountersInv, NEW s, NEW u, NEW b, NEW f, XBegins(s, u, b, f), NEW n, n = Number(s)
  PROVE  /\ n \in Int /\ Made = n /\ Begun = n /\ Oldest = n - u /\ Phase = u - n /\ n - 1 \in Numbers
         /\ s = First(n) /\ s - BlockSize = First(n - 1) /\ First(n - 1) \in Int /\ First(n - 1) + BlockSize = s
  <1>1. Begins(s) /\ prUsed = u /\ prFront = u
    BY DEF XBegins
  <1>2. /\ n \in Int /\ Made = n /\ Begun = n /\ n - 1 \in Numbers
        /\ s = First(n) /\ s - BlockSize = First(n - 1) /\ First(n - 1) \in Int /\ First(n - 1) + BlockSize = s
    BY <1>1, FirstNumbers
  <1>3. Oldest = n - u /\ Phase = u - n
    BY <1>1, <1>2 DEF Oldest, Phase
  <1> QED BY <1>2, <1>3

\* The only index there is then has the emptied block's entry, if there is one.
LEMMA XFirstIndex ==
  ASSUME CountersInv, NEW s, NEW u, NEW b, NEW f, XBegins(s, u, b, f)
  PROVE  /\ XIndex /\ Homes \in [Int -> Blocks \cup {None}] /\ (u = 1 => Homes[Number(s) - 1] = b)
  <1>1. PICK n : n = Number(s)
    OBVIOUS
  <1>2. /\ n \in Int /\ Made = n /\ Begun = n /\ Oldest = n - u /\ Phase = u - n /\ n - 1 \in Numbers
        /\ s = First(n) /\ s - BlockSize = First(n - 1) /\ First(n - 1) \in Int
    BY <1>1, XFirstNumbers
  <1>3. /\ u \in {0, 1} /\ (s > 0 => u = 1) /\ f \in 0 .. FirstIndex - 1 /\ (u = 1 => f = 0 /\ b \in Blocks)
        /\ tailIndex = s /\ prod = NoCall /\ prUsed = u /\ prFront = u /\ s \in Nat
        /\ tailBlock = IF u = 0 THEN None ELSE b
    BY DEF XBegins, Begins
  <1>4. FirstIndex \in Nat /\ FirstIndex >= 2 /\ None \notin Blocks
    BY IndexAssumption, NoneAssumption
  <1>5. PICK e : e = [i \in 0 .. FirstIndex - 1 |->
          IF i < u THEN [base |-> s - BlockSize, block |-> tailBlock] ELSE [base |-> 0, block |-> None]]
    OBVIOUS
  <1>6. e \in [0 .. FirstIndex - 1 -> Entries] /\ (u = 1 => e[0] = [base |-> First(n - 1), block |-> b])
        /\ \A i \in 0 .. FirstIndex - 1 : e[i].block /= None => i = 0 /\ u = 1
    BY <1>2, <1>3, <1>4, <1>5 DEF Entries
  <1>7. PICK x : x = [size |-> FirstIndex, front |-> f, entries |-> e]
    OBVIOUS
  <1>8. x \in Indexes /\ x.size = FirstIndex /\ x.front = f /\ x.entries = e
    BY <1>3, <1>4, <1>6, <1>7, IsIndex
  <1>9. indexes = <<x>>
    BY <1>5, <1>7 DEF XBegins, Begins
  <1>10. indexes \in Seq(Indexes) /\ Len(indexes) = 1 /\ indexes[1] = x /\ Newest(indexes) = x
    BY <1>8, <1>9 DEF Newest
  <1>11. PICK p : p \in Int /\ p = u - n
    BY <1>2, <1>3
  <1>12. u = 1 => SlotIn(x, p, n - 1) = 0
    BY <1>2, <1>4, <1>8, <1>11 DEF SlotIn
  <1>13. InPhase(x, p)
    BY <1>2, <1>6, <1>8, <1>12 DEF InPhase
  <1>14. \A q \in n - u .. n - 1 : Stands(x.entries[SlotIn(x, p, q)], q)
    <2> SUFFICES ASSUME NEW q \in n - u .. n - 1 PROVE Stands(x.entries[SlotIn(x, p, q)], q)
      OBVIOUS
    <2>1. u = 1 /\ q = n - 1
      BY <1>2, <1>3
    <2> QED BY <2>1, <1>3, <1>6, <1>8, <1>12 DEF Stands
  <1>15. IndexOK(indexes, p, n - u, n)
    <2>1. n - u \in Int /\ n - u <= n /\ n - (n - u) <= x.size
      BY <1>2, <1>3, <1>4, <1>8
    <2>2. \A j \in 1 .. Len(indexes) : \E r \in Int : InPhase(indexes[j], r)
      BY <1>10, <1>11, <1>13
    <2> QED BY <2>1, <2>2, <1>2, <1>10, <1>11, <1>13, <1>14 DEF IndexOK
  <1>16. IndexOK(indexes, Phase, Oldest, Made)
    BY <1>15, <1>2, <1>11
  <1>17. Homes \in [Int -> Blocks \cup {None}]
    BY <1>16, HomeIs DEF Homes
  <1>18. u = 1 => Homes[n - 1] = b
    <2> SUFFICES ASSUME u = 1 PROVE Homes[n - 1] = b
      OBVIOUS
    <2>1. Homes[n - 1] = HomeIn(indexes, p, n - 1)
      BY <1>2, <1>11 DEF Homes
    <2>2. HomeIn(indexes, p, n - 1) = x.entries[SlotIn(x, p, n - 1)].block
      BY <1>10 DEF HomeIn
    <2>3. x.entries[SlotIn(x, p, n - 1)] = e[0]
      BY <1>8, <1>12
    <2>4. e[0].block = b
      BY <1>6
    <2> QED BY <2>1, <2>2, <2>3, <2>4
  <1>19. XIndex
    <2>1. prFront \in 0 .. Newest(indexes).size - 1 /\ prUsed \in Nat
      BY <1>3, <1>4, <1>8, <1>10
    <2>2. Begun <= Made /\ Oldest <= Number(tailIndex)
      BY <1>1, <1>2, <1>3
    <2>3. prod.at = "idle"
      BY <1>3 DEF NoCall
    <2>4. tailIndex > 0 => u = 1 /\ f = 0 /\ prUsed >= 1
      BY <1>3
    <2>5. tailIndex > 0 => Newest(indexes).entries[Newest(indexes).front].block /= None
      BY <2>4, <1>3, <1>4, <1>6, <1>8, <1>10
    <2> QED BY <1>16, <2>1, <2>2, <2>3, <2>4, <2>5 DEF XIndex
  <1> QED BY <1>1, <1>17, <1>18, <1>19

\* An explicit producer begins in its invariant, and as SubQueue does.
LEMMA XInitially ==
  ASSUME CountersInv, Explicit!Init
  PROVE  Walking /\ XInv /\ SubQ!Init
  <1>1. PICK s, u, b, f : XBegins(s, u, b, f)
    BY XBeginsIs
  <1>2. Walking /\ SubQ!Init /\ \A i \in Int : ~Live(i)
    <2>1. Begins(s)
      BY <1>1 DEF XBegins
    <2> QED BY <2>1, FirstWalks
  <1>3. XIndex /\ Homes \in [Int -> Blocks \cup {None}] /\ (u = 1 => Homes[Number(s) - 1] = b)
    BY <1>1, XFirstIndex
  <1>4. PICK n : n = Number(s)
    OBVIOUS
  <1>5. /\ n \in Int /\ Made = n /\ Begun = n /\ Oldest = n - u /\ First(n - 1) \in Int /\ First(n - 1) + BlockSize = s
    BY <1>1, <1>4, XFirstNumbers
  <1>6. /\ u \in {0, 1} /\ (u = 1 => b \in Blocks) /\ prod = NoCall /\ hand = [c \in Consumers |-> NoWalk] /\ headIndex = s
        /\ pool = Blocks \ (IF u = 0 THEN {} ELSE {b}) /\ tailBlock = (IF u = 0 THEN None ELSE b)
        /\ ring = [x \in Blocks |-> IF u = 1 /\ x = b THEN b ELSE None] /\ s \in Nat
    BY <1>1 DEF XBegins, Begins
  <1>7. XRing
    <2>1. PICK h : h = Homes
      OBVIOUS
    <2>2. Ringed(h, n - u, n, ring, pool, tailBlock)
      <3>1. CASE u = 0
        BY <3>1, <2>1, <1>3, <1>5, <1>6 DEF Ringed
      <3>2. CASE u = 1
        <4>1. h[n - 1] = b /\ b \in Blocks \ pool /\ ring[b] = b /\ tailBlock = b
          BY <3>2, <2>1, <1>3, <1>4, <1>6
        <4>2. \A q \in n - u .. n - 1 : q = n - 1
          BY <3>2, <1>5
        <4> QED BY <3>2, <4>1, <4>2, <2>1, <1>3, <1>5, <1>6 DEF Ringed
      <3> QED BY <3>1, <3>2, <1>6
    <2> QED BY <2>1, <2>2, <1>5 DEF XRing
  <1>8. XCall
    BY <1>6, <1>5, IdleCall DEF XCall, ProdRecords
  <1>9. XCells
    <2>1. cell \in [Blocks -> [Offsets -> Int \cup {None}]] /\ flags \in [Blocks -> SUBSET Offsets]
      <3>1. \A o \in Offsets : o \in Int
        BY BlockAssumption DEF Offsets
      <3>2. BlockSize \in Int
        BY BlockAssumption
      <3>3. /\ flags = [x \in Blocks |-> IF u = 1 /\ x = b THEN Offsets ELSE {}]
            /\ cell = [x \in Blocks |-> [o \in Offsets |-> IF u = 1 /\ x = b THEN s - BlockSize + o ELSE None]]
        BY <1>1 DEF XBegins, Begins
      <3> QED BY <3>1, <3>2, <3>3, <1>6
    <2>2. \A q \in Oldest .. Made - 1 : \A o \in flags[Homes[q]] : First(q) + o < headIndex /\ ~Live(First(q) + o)
      <3> SUFFICES ASSUME NEW q \in Oldest .. Made - 1, NEW o \in flags[Homes[q]]
                   PROVE  First(q) + o < headIndex /\ ~Live(First(q) + o)
        OBVIOUS
      <3>1. q = n - 1 /\ u = 1
        BY <1>5, <1>6
      <3>2. Homes[q] \in Blocks
        BY <3>1, <1>3, <1>4, <1>6
      <3>3. o \in Int /\ 0 <= o /\ o < BlockSize /\ BlockSize \in Int
        BY <2>1, <3>2, BlockAssumption DEF Offsets
      <3>4. PICK z : z = First(n - 1) /\ z \in Int
        BY <1>5
      <3>5. z + o \in Int /\ z + o < s
        BY <3>3, <3>4, <1>5, <1>6
      <3> QED BY <3>1, <3>4, <3>5, <1>2, <1>6
    <2> QED BY <2>1, <2>2, <1>2 DEF XCells
  <1>10. XHands
    BY <1>6 DEF XHands, HandAt, NoWalk
  <1> QED BY <1>2, <1>3, <1>7, <1>8, <1>9, <1>10 DEF XInv

-----------------------------------------------------------------------------
(* The explicit producer's queue, whatever its producer and its consumers do. *)
\* A step that leaves everything as it is.
LEMMA XRests ==
  ASSUME XAll, CountersInv', UNCHANGED vars
  PROVE  Walking' /\ XInv' /\ [SubQ!Next]_(SubQ!subQueueVars) /\ Stays /\ Emptied
  <1>0. CountersInv /\ Walking /\ XIndex /\ XRing /\ XCall /\ XCells /\ XHands
    BY DEF XAll, XInv
  <1>1. UNCHANGED <<tailIndex, headIndex, claim, hand, taken, limit, prod, indexes, prFront, prUsed, ring, pool, tailBlock, cell, flags>>
    BY DEF vars, claimVars, sharedVars, explicitVars
  <1>2. Walking' /\ \A d \in Consumers : Rest(d)' = Rest(d) /\ Owes(d)' = Owes(d)
    BY <1>0, <1>1, ProducerWalks
  <1>3. XIndex' /\ XRing' /\ XCall' /\ Homes' = Homes /\ Top' = Top /\ Oldest' = Oldest
    BY <1>0, <1>1, ConsumerKeeps
  <1>4. headIndex \in Int /\ tailIndex \in Int /\ flags \in [Blocks -> SUBSET Offsets]
    BY <1>0, XTypes DEF XCells
  <1>5. headIndex' \in Int /\ headIndex <= headIndex' /\ tailIndex <= tailIndex' /\ flags' \in [Blocks -> SUBSET Offsets]
    BY <1>1, <1>4
  <1>6. \A i \in Int : Live(i)' => Live(i)
    BY <1>1, <1>2, <1>3 DEF Live
  <1>7. XCells'
    BY <1>0, <1>1, <1>5, <1>6, CellsKept
  <1>8. XHands'
    BY <1>0, <1>1, <1>2, <1>3, OtherHands DEF XHands
  <1>9. [SubQ!Next]_(SubQ!subQueueVars)
    BY <1>0, <1>1, <1>2, <1>5, QuietStep
  <1>10. Stays /\ Emptied
    BY <1>1, <1>2, <1>3, <1>4, StaysPut, EmptiedNone
  <1> QED BY <1>2, <1>3, <1>7, <1>8, <1>9, <1>10 DEF XInv

\* The producer takes nothing.
LEMMA ProducerTakesNone == ASSUME XAll, Explicit!Producer PROVE Emptied
  <1>1. UNCHANGED <<headIndex, claim, hand>>
    <2> USE DEF Explicit!claimVars
    <2>1. CASE Explicit!EnqueueInBlock \/ Explicit!Publish
      BY <2>1 DEF Explicit!EnqueueInBlock, Explicit!Publish, Explicit!Advance
    <2>2. CASE Explicit!EnqueueReuse \/ Explicit!EnqueueNewBlock \/ Explicit!Expose
      BY <2>2 DEF Explicit!EnqueueReuse, Explicit!EnqueueNewBlock, Explicit!Expose
    <2>3. CASE (\E n \in BulkSizes : Explicit!BulkBegin(n)) \/ Explicit!BulkReuse \/ Explicit!BulkNewBlock \/ Explicit!BulkFill
      BY <2>3 DEF Explicit!BulkBegin, Explicit!BulkReuse, Explicit!BulkNewBlock, Explicit!BulkFill
    <2> QED BY <2>1, <2>2, <2>3 DEF Explicit!Producer
  <1>2. \A d \in Consumers : Rest(d)' = Rest(d)
    BY <1>1 DEF Rest, End
  <1>3. headIndex \in Int
    BY Ends
  <1> QED BY <1>1, <1>2, <1>3, EmptiedNone

\* Every step of the producer and of its consumers keeps the invariant and is one that SubQueue allows.
LEMMA XStep ==
  ASSUME XAll, CountersInv', isExplicit, [Next]_vars
  PROVE  Walking' /\ XInv' /\ [SubQ!Next]_(SubQ!subQueueVars) /\ Stays /\ Emptied
  <1>1. Explicit!Next \/ UNCHANGED vars
    BY DEF Next
  <1>2. CASE Explicit!Producer
    <2> SUFFICES Walking' /\ XInv' /\ [SubQ!Next]_(SubQ!subQueueVars) /\ Stays
      BY <1>2, ProducerTakesNone
    <2>1. CASE (Explicit!EnqueueInBlock \/ Explicit!Publish) /\ UNCHANGED <<ring, indexes, prFront, prUsed, flags>>
      BY <2>1, XInBlock, XPublish
    <2>2. ASSUME NEW n \in BulkSizes, Explicit!BulkBegin(n) PROVE Walking' /\ XInv' /\ [SubQ!Next]_(SubQ!subQueueVars) /\ Stays
      BY <2>2, XBegin
    <2>3. CASE Explicit!EnqueueReuse
      BY <2>3, XReuse
    <2>4. CASE Explicit!EnqueueNewBlock
      BY <2>4, XNew
    <2>5. CASE Explicit!Expose
      BY <2>5, XExpose
    <2>6. CASE Explicit!BulkReuse
      BY <2>6, XBulkReuse
    <2>7. CASE Explicit!BulkNewBlock
      BY <2>7, XBulkNew
    <2>8. CASE Explicit!BulkFill
      BY <2>8, XFill
    <2> QED BY <1>2, <2>1, <2>2, <2>3, <2>4, <2>5, <2>6, <2>7, <2>8 DEF Explicit!Producer, Explicit!indexVars
  <1>3. ASSUME NEW c \in Consumers, Explicit!Consumer(c) PROVE Walking' /\ XInv' /\ [SubQ!Next]_(SubQ!subQueueVars) /\ Stays /\ Emptied
    <2>1. CASE Explicit!Claim(c) /\ UNCHANGED <<ring, indexes, prFront, prUsed, flags>>
      BY <2>1, XClaim
    <2>2. CASE (Explicit!LoadIndex(c) \/ Explicit!LoadFront(c) \/ Explicit!FindSlot(c)) /\ UNCHANGED <<ring, indexes, prFront, prUsed, flags>>
      BY <2>2, XFind
    <2>3. CASE Explicit!MoveOut(c) /\ UNCHANGED <<ring, indexes, prFront, prUsed, flags>>
      BY <2>3, XMove
    <2>4. CASE Explicit!Release(c)
      BY <2>4, XRelease
    <2> QED BY <1>3, <2>1, <2>2, <2>3, <2>4 DEF Explicit!Consumer, Explicit!indexVars
  <1>4. CASE UNCHANGED vars
    BY <1>4, XRests
  <1> QED BY <1>1, <1>2, <1>3, <1>4 DEF Explicit!Next

\* A cell whose element is gone is marked, in every block that is in use and was published in.
Marked ==
  \A q \in Oldest .. Begun - 1 : \A o \in Offsets : First(q) + o < headIndex /\ ~Live(First(q) + o) => o \in flags[Homes[q]]

LEMMA MarkedBegins == ASSUME CountersInv, Explicit!Init PROVE Marked
  <1>1. PICK s, u, b, f : XBegins(s, u, b, f)
    BY XBeginsIs
  <1>2. u = 1 => Homes[Number(s) - 1] = b
    BY <1>1, XFirstIndex
  <1>3. PICK n \in Int : n = Number(s) /\ Begun = n /\ Oldest = n - u
    BY <1>1, XFirstNumbers
  <1>4. u \in {0, 1} /\ (u = 1 => b \in Blocks) /\ flags = [x \in Blocks |-> IF u = 1 /\ x = b THEN Offsets ELSE {}]
    BY <1>1 DEF XBegins
  <1> SUFFICES ASSUME NEW q \in Oldest .. Begun - 1 PROVE flags[Homes[q]] = Offsets
    BY DEF Marked
  <1>5. u = 1 /\ q = Number(s) - 1
    BY <1>3, <1>4
  <1> QED BY <1>2, <1>4, <1>5

LEMMA MarkedStep == ASSUME XAll, Marked, Oldest' \in Int, Stays, Emptied PROVE Marked'
  <1>1. tailIndex \in Int /\ headIndex \in Int /\ headIndex <= tailIndex
    BY Ends
  <1>2. Begun \in Int /\ Oldest \in Int
    BY MadeIs
  <1> SUFFICES ASSUME NEW q \in Int, q \in Oldest' .. Begun' - 1, NEW o \in Offsets, First(q) + o < headIndex', ~Live(First(q) + o)'
               PROVE  o \in flags'[Homes'[q]]
    BY DEF Marked
  <1>3. PICK x \in Int : x = First(q) + o /\ Number(x) = q /\ x % BlockSize = o
    BY Placed
  <1>4. x < headIndex /\ (Live(x) => o \in flags'[Homes[q]])
    BY <1>3 DEF Emptied
  <1>5. q <= Begun - 1
    <2>1. x <= tailIndex - 1 /\ tailIndex - 1 \in Int
      BY <1>1, <1>4
    <2>2. Number(x) <= Number(tailIndex - 1)
      BY <2>1, NumberOrder
    <2>3. Number(tailIndex - 1) = Begun - 1
      <3>1. Number(tailIndex - 1) \in Int
        BY <2>1, Division
      <3> QED BY <3>1 DEF Begun
    <2> QED BY <1>3, <2>2, <2>3
  <1>6. q \in Oldest' .. Begun - 1 /\ q \in Oldest .. Begun - 1
    BY <1>2, <1>5 DEF Stays
  <1>7. Homes'[q] = Homes[q] /\ flags[Homes[q]] \subseteq flags'[Homes[q]]
    BY <1>6 DEF Stays
  <1>8. CASE ~Live(x)
    BY <1>3, <1>4, <1>6, <1>7, <1>8 DEF Marked
  <1> QED BY <1>4, <1>7, <1>8

\* What is true of an explicit producer's queue at all times.
LEMMA ExplicitInvariant == Spec => [](CountersInv /\ (isExplicit => XAll /\ Marked))
  <1>1. Init => CountersInv /\ (isExplicit => XAll /\ Marked)
    <2> SUFFICES ASSUME Init, isExplicit PROVE XAll /\ Marked
      BY CountersBegin
    <2>1. CountersInv
      BY CountersBegin
    <2>2. Explicit!Init
      BY DEF Init
    <2> QED BY <2>1, <2>2, XInitially, MarkedBegins DEF XAll
  <1>2. CountersInv /\ (isExplicit => XAll /\ Marked) /\ [Next]_vars => (CountersInv /\ (isExplicit => XAll /\ Marked))'
    <2> SUFFICES ASSUME CountersInv, isExplicit => XAll /\ Marked, [Next]_vars
                 PROVE  (CountersInv /\ (isExplicit => XAll /\ Marked))'
      OBVIOUS
    <2>1. CountersInv'
      BY CountersStep
    <2>2. isExplicit' = isExplicit
      BY DEF Next, vars
    <2>3. CASE isExplicit
      <3>1. XAll /\ Marked
        BY <2>3
      <3>2. XAll' /\ Stays /\ Emptied
        BY <3>1, <2>1, <2>3, XStep DEF XAll
      <3>3. (XAll => Oldest \in Int)'
        BY MadeIs, PTL
      <3> QED BY <2>1, <3>1, <3>2, <3>3, MarkedStep
    <2>4. CASE ~isExplicit
      BY <2>1, <2>2, <2>4
    <2> QED BY <2>3, <2>4
  <1> QED BY <1>1, <1>2, PTL DEF Spec
=============================================================================
