------------------------------ MODULE FreeList ------------------------------
(***************************************************************************)
(* FreeList<N> of concurrentqueue.h: the lock-free stack that holds the    *)
(* blocks nobody uses.  A node's freeListRefs counts the list's own        *)
(* reference and the threads that look at the node; its top bit says that  *)
(* the node should be on the list, and whoever takes the count to zero     *)
(* links it.  One action is one atomic access.                             *)
(***************************************************************************)
EXTENDS Integers, FiniteSets

CONSTANTS Threads,
          Nodes,
          Null,
          Should   \* SHOULD_BE_ON_FREELIST, more than the references there can be: 2^31

ASSUME NodesAssumption == IsFiniteSet(Nodes) /\ Null \notin Nodes
ASSUME ShouldAssumption ==
  IsFiniteSet(Threads) /\ Should \in Nat /\ Should > Cardinality(Threads) + 2

VARIABLES head,   \* freeListHead
          next,   \* freeListNext
          refs,   \* freeListRefs
          out,    \* the nodes somebody uses
          th      \* [Threads -> record]: a thread's place in a call, and its locals

freeListVars == <<head, next, refs, out, th>>

Idle == [at |-> "idle", node |-> Null, refs |-> 0, seen |-> Null, then |-> Null]

\* Every node starts in use: the list is filled by add.
FreeListInit ==
  /\ head = Null /\ next = [n \in Nodes |-> Null]
  /\ refs = [n \in Nodes |-> 0]
  /\ out = Nodes
  /\ th = [t \in Threads |-> Idle]

\* refs & REFS_MASK
Count(r) == IF r >= Should THEN r - Should ELSE r

\* Back at the top of try_get's loop with a head seen before, or, at Null, out of the call.
At(n) == IF n = Null THEN Idle ELSE [Idle EXCEPT !.at = "refs", !.node = n]

AddTo(n, d) == refs' = [refs EXCEPT ![n] = @ + d]
Goto(t, at) == th' = [th EXCEPT ![t].at = at]

-----------------------------------------------------------------------------
(* try_get *)

LoadHead(t) ==
  /\ th[t].at \in {"idle", "head"}
  /\ th' = [th EXCEPT ![t] = At(head)]
  /\ UNCHANGED <<head, next, refs, out>>

LoadRefs(t) ==
  /\ th[t].at = "refs"
  /\ LET r == refs[th[t].node]
     IN  th' = [th EXCEPT ![t].at = IF Count(r) = 0 THEN "head" ELSE "pin", ![t].refs = r]
  /\ UNCHANGED <<head, next, refs, out>>

\* Mutant: the count is raised whatever it is by now.
PinBlindly(t) ==
  /\ th[t].at = "pin"
  /\ AddTo(th[t].node, 1) /\ Goto(t, "next")
  /\ UNCHANGED <<head, next, out>>

\* The node is kept from changing, if its count is still what was read.
Pin(t) ==
  /\ th[t].at = "pin"
  /\ IF refs[th[t].node] = th[t].refs
     THEN AddTo(th[t].node, 1) /\ Goto(t, "next")
     ELSE Goto(t, "head") /\ UNCHANGED refs
  /\ UNCHANGED <<head, next, out>>

LoadNext(t) ==
  /\ th[t].at = "next"
  /\ th' = [th EXCEPT ![t].at = "swing", ![t].seen = next[th[t].node]]
  /\ UNCHANGED <<head, next, refs, out>>

\* The head moves on to the next node, unless it is another one by now.
Swing(t) ==
  /\ th[t].at = "swing"
  /\ IF head = th[t].node
     THEN head' = th[t].seen /\ Goto(t, "taken")
     ELSE th' = [th EXCEPT ![t].at = "unpin", ![t].seen = head] /\ UNCHANGED head
  /\ UNCHANGED <<next, refs, out>>

\* The caller's reference and the list's go, and the node is the caller's.
Taken(t) ==
  /\ th[t].at = "taken"
  /\ AddTo(th[t].node, -2)
  /\ out' = out \cup {th[t].node}
  /\ th' = [th EXCEPT ![t] = Idle]
  /\ UNCHANGED <<head, next>>

\* Mutant: the last one to let go does not link the node.
UnpinLeaving(t) ==
  /\ th[t].at = "unpin"
  /\ AddTo(th[t].node, -1)
  /\ th' = [th EXCEPT ![t] = At(th[t].seen)]
  /\ UNCHANGED <<head, next, out>>

\* The last one to let go of a node that should be on the list puts it there.
Unpin(t) ==
  /\ th[t].at = "unpin"
  /\ AddTo(th[t].node, -1)
  /\ th' = [th EXCEPT ![t] = IF refs[th[t].node] = Should + 1
                             THEN [@ EXCEPT !.at = "put", !.then = th[t].seen]
                             ELSE At(th[t].seen)]
  /\ UNCHANGED <<head, next, out>>

-----------------------------------------------------------------------------
(* add, and add_knowing_refcount_is_zero *)

\* Mutant: the node is linked although others may still look at it.
AddAtOnce(t, n) ==
  /\ th[t].at = "idle" /\ n \in out
  /\ out' = out \ {n}
  /\ AddTo(n, Should)
  /\ th' = [th EXCEPT ![t] = [Idle EXCEPT !.at = "put", !.node = n]]
  /\ UNCHANGED <<head, next>>

Add(t, n) ==
  /\ th[t].at = "idle" /\ n \in out
  /\ out' = out \ {n}
  /\ AddTo(n, Should)
  /\ th' = [th EXCEPT ![t] = IF refs[n] = 0 THEN [Idle EXCEPT !.at = "put", !.node = n] ELSE Idle]
  /\ UNCHANGED <<head, next>>

PutHead(t) ==
  /\ th[t].at = "put"
  /\ th' = [th EXCEPT ![t].at = "setnext", ![t].seen = head]
  /\ UNCHANGED <<head, next, refs, out>>

SetNext(t) ==
  /\ th[t].at = "setnext"
  /\ next' = [next EXCEPT ![th[t].node] = th[t].seen]
  /\ Goto(t, "setrefs")
  /\ UNCHANGED <<head, refs, out>>

\* The list's reference, stored: the node no longer "should be" on the list.
SetRefs(t) ==
  /\ th[t].at = "setrefs"
  /\ refs' = [refs EXCEPT ![th[t].node] = 1]
  /\ Goto(t, "link")
  /\ UNCHANGED <<head, next, out>>

Link(t) ==
  /\ th[t].at = "link"
  /\ IF head = th[t].seen
     THEN head' = th[t].node /\ th' = [th EXCEPT ![t] = At(th[t].then)]
     ELSE th' = [th EXCEPT ![t].at = "relink", ![t].seen = head] /\ UNCHANGED head
  /\ UNCHANGED <<next, refs, out>>

\* Mutant: one try only.
RelinkNever(t) ==
  /\ th[t].at = "relink"
  /\ AddTo(th[t].node, Should - 1)
  /\ th' = [th EXCEPT ![t] = At(@.then)]
  /\ UNCHANGED <<head, next, out>>

\* Another try when nobody looks at the node, else the last one who does will link it.
Relink(t) ==
  /\ th[t].at = "relink"
  /\ AddTo(th[t].node, Should - 1)
  /\ th' = [th EXCEPT ![t] = IF refs[th[t].node] = 1 THEN [@ EXCEPT !.at = "setnext"] ELSE At(@.then)]
  /\ UNCHANGED <<head, next, out>>

-----------------------------------------------------------------------------
Step(t) ==
  \/ LoadRefs(t) \/ Pin(t) \/ LoadNext(t) \/ Swing(t) \/ Taken(t) \/ Unpin(t)
  \/ PutHead(t) \/ SetNext(t) \/ SetRefs(t) \/ Link(t) \/ Relink(t)

FreeListNext == \E t \in Threads : LoadHead(t) \/ Step(t) \/ \E n \in Nodes : Add(t, n)

FreeListSpec == FreeListInit /\ [][FreeListNext]_freeListVars

\* A thread inside a call goes on; whether anybody calls is not promised.
FreeListFairness == \A t \in Threads : WF_freeListVars(Step(t) \/ (th[t].at = "head" /\ LoadHead(t)))

FreeListLiveSpec == FreeListSpec /\ FreeListFairness

-----------------------------------------------------------------------------
\* try_get's assertion, and what it is for: a node just taken off the list should not be on it,
\* nobody else has it and nobody else just took it.
OneTaker ==
  \A t \in Threads : th[t].at = "taken" =>
    /\ refs[th[t].node] < Should
    /\ th[t].node \notin out
    /\ \A u \in Threads \ {t} : th[u].at = "taken" => th[u].node /= th[t].node

\* "we run only one copy of this method per node at a time", and nobody who may read the node's
\* next looks at it while it is changed.
OneLinker ==
  \A t \in Threads : th[t].at \in {"put", "setnext", "setrefs"} =>
    /\ refs[th[t].node] = Should
    /\ \A u \in Threads \ {t} :
         th[u].at \in {"put", "setnext", "setrefs", "link", "next", "swing", "unpin", "taken"} =>
           th[u].node /= th[t].node

\* S has the first node and, after each of its nodes, the next one.
Closed(S) == head \in S \cup {Null} /\ \A m \in S : next[m] \in S \cup {Null}

\* The nodes on the list, those a walk from the head meets: they are in every closed set.
Chain == {n \in Nodes : \A S \in SUBSET Nodes : Closed(S) => n \in S}

\* A node that is not in use is on the list, in the hands of one thread, or wanted there with
\* somebody still to let go of it: none is lost, whatever calls meet, and none is listed while used.
NothingLost ==
  /\ Chain \cap out = {}
  /\ \A n \in Nodes \ out :
       \/ n \in Chain
       \/ refs[n] > Should /\ \E t \in Threads : th[t].at \in {"next", "swing", "unpin"} /\ th[t].node = n
       \/ \E t \in Threads :
            th[t].at \in {"taken", "put", "setnext", "setrefs", "link", "relink"} /\ th[t].node = n

\* A node that should be on the list gets there ("leave the add operation to the next thread who
\* puts the refcount back at zero"), however many threads look at it in between.
GetsBack == \A n \in Nodes : (refs[n] >= Should) ~> (refs[n] < Should)
=============================================================================
