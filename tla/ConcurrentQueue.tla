-------------------------- MODULE ConcurrentQueue --------------------------
(***************************************************************************)
(* ConcurrentQueue (concurrentqueue.h) above its producers' queues: the    *)
(* list of producers, which only grows, and the four ways through it that  *)
(* try_dequeue and try_dequeue_bulk take, with and without a consumer      *)
(* token.  Producers are numbered as they enter the list: tail is the      *)
(* newest, next_prod() the one before, 0 null.  A dequeue from one         *)
(* producer's queue is two steps, between which its consumer is inside:    *)
(* what module Claims does with the counters of that queue is kept here as *)
(* what it comes to, exact for a consumer that is alone, and possibly      *)
(* short of it while another one is inside, whose tickets stand against    *)
(* the first one's until they are settled.                                 *)
(***************************************************************************)
EXTENDS Integers, FiniteSets

CONSTANTS Producing,  \* threads that enqueue
          Consumers,  \* threads that dequeue
          Tokened,    \* the consumers that have a token
          Offset,     \* [Consumers -> Nat]: a token's initialOffset
          Quota       \* EXPLICIT_CONSUMER_CONSUMPTION_QUOTA_BEFORE_ROTATE

ASSUME QueueAssumption ==
  /\ IsFiniteSet(Producing) /\ IsFiniteSet(Consumers) /\ Tokened \subseteq Consumers
  /\ Offset \in [Consumers -> Nat] /\ Quota \in Nat \ {0}

VARIABLES tail,          \* producerListTail
          producerCount,
          size,          \* [producers -> Nat]: elements in a producer's queue
          own,           \* [Producing -> Int]: the thread's producer; 0 none yet, -1 counted, not listed
          globalOffset,  \* globalExplicitConsumerOffset
          token,         \* [Consumers -> record]: ConsumerToken
          dq,            \* [Consumers -> record]: a consumer's place in a dequeue, and its locals
          want,          \* [Consumers -> Nat]: elements the call may still take
          visit          \* [Consumers -> record]: the producer's queue a consumer is inside

queueVars == <<tail, producerCount, size, own, globalOffset, token, dq, want, visit>>

\* dry is history: the producers that appeared empty to the call, because they had no element left for
\* anybody when it looked, or because another consumer was inside.

Resting == [at |-> "idle", bulk |-> FALSE, ptr |-> 0, tail |-> 0, best |-> 0, bestSize |-> 0, full |-> 0,
            start |-> 0, dry |-> {}]

\* from: the producer, 0 for none; n: elements reserved there; met: another consumer was inside as well;
\* all: nothing was left beyond the n.
Outside == [from |-> 0, n |-> 0, met |-> FALSE, all |-> FALSE]

\* The token's lastKnownGlobalOffset starts as the largest unsigned number.
QueueInit ==
  /\ tail = 0 /\ producerCount = 0 /\ globalOffset = 0
  /\ size = [p \in 1 .. Cardinality(Producing) |-> 0]
  /\ own = [s \in Producing |-> 0]
  /\ token = [c \in Consumers |-> [desired |-> 0, current |-> 0, known |-> -1, consumed |-> 0]]
  /\ dq = [c \in Consumers |-> Resting]
  /\ want = [c \in Consumers |-> 0]
  /\ visit = [c \in Consumers |-> Outside]

listVars == <<tail, producerCount, own>>

-----------------------------------------------------------------------------
(* add_producer counts a producer first and lists it then. *)

CountProducer(s) ==
  /\ own[s] = 0
  /\ producerCount' = producerCount + 1
  /\ own' = [own EXCEPT ![s] = -1]
  /\ UNCHANGED <<tail, size, globalOffset, token, dq, want, visit>>

ListProducer(s) ==
  /\ own[s] = -1
  /\ tail' = tail + 1
  /\ own' = [own EXCEPT ![s] = tail + 1]
  /\ UNCHANGED <<producerCount, size, globalOffset, token, dq, want, visit>>

Put(s, n) ==
  /\ own[s] > 0
  /\ size' = [size EXCEPT ![own[s]] = @ + n]
  /\ UNCHANGED <<listVars, globalOffset, token, dq, want, visit>>

-----------------------------------------------------------------------------
(* dequeue and dequeue_bulk of one producer *)

\* The producer whose queue is next.
Target(c) ==
  CASE dq[c].at = "best" -> dq[c].best [] dq[c].at = "current" -> token[c].current [] OTHER -> dq[c].ptr

\* Another consumer has tickets of p that it has neither used nor given back.
Crowded(c, p) == \E d \in Consumers \ {c} : visit[d].from = p /\ visit[d].n > 0

\* The counters are loaded, and as many elements reserved as they show, up to those wanted: others'
\* tickets hide some.  Whoever is inside already may have loaded what these tickets change.
Look(c) ==
  /\ dq[c].at \in {"best", "sweep", "current", "around"} /\ visit[c].from = 0
  /\ dq[c].at = "sweep" => dq[c].ptr /= dq[c].best
  /\ LET p == Target(c)
     IN  \E n \in 0 .. size[p] :
           /\ n <= want[c] /\ (n = want[c] \/ n = size[p] \/ Crowded(c, p))
           /\ visit' = [d \in Consumers |->
                IF d = c THEN [from |-> p, n |-> n, met |-> Crowded(c, p), all |-> n = size[p]]
                ELSE IF n > 0 /\ visit[d].from = p THEN [visit[d] EXCEPT !.met = TRUE] ELSE visit[d]]
  /\ UNCHANGED <<listVars, size, globalOffset, token, dq, want>>

\* The tail is loaded again, what is not there given back, the head moved: m elements are the consumer's,
\* all that it reserved unless it met another one.
DequeueFrom(c, p, m) ==
  /\ visit[c].from = p /\ m <= visit[c].n /\ m <= size[p] /\ (visit[c].met \/ m = visit[c].n)
  /\ size' = [size EXCEPT ![p] = @ - m]
  /\ want' = [want EXCEPT ![c] = @ - m]
  /\ visit' = [visit EXCEPT ![c] = Outside]

\* What has appeared empty to the call after its dequeue from p.
Dry(c, p) == IF visit[c].met \/ visit[c].all THEN dq[c].dry \cup {p} ELSE dq[c].dry

-----------------------------------------------------------------------------
(* try_dequeue and try_dequeue_bulk *)

\* The next producer on the way round the list as it was when its tail was loaded.
After(p, last) == IF p > 1 THEN p - 1 ELSE last

Move(c, at, ptr) == dq' = [dq EXCEPT ![c] = [@ EXCEPT !.at = at, !.ptr = ptr]]

\* The call begins: the tail is loaded, or the token is compared with the global offset.
Begin(c, bulk) ==
  /\ dq[c].at = "idle" /\ want[c] > 0
  /\ dq' = [dq EXCEPT ![c] = [Resting EXCEPT !.bulk = bulk, !.start = tail, !.ptr = tail,
       !.at = IF c \in Tokened
              THEN IF token[c].desired = 0 \/ token[c].known /= globalOffset THEN "rotate" ELSE "current"
              ELSE IF tail = 0 THEN "returned" ELSE IF bulk THEN "sweep" ELSE "score"]]
  /\ UNCHANGED <<listVars, size, globalOffset, token, want, visit>>

\* Without a token one element is looked for by size first, up to three queues that have any.
\* size_approx loads the tail and then the head, which others inside the queue may have moved.
Score(c) ==
  /\ dq[c].at = "score"
  /\ LET d == dq[c]
         p == d.ptr
     IN  \E n \in 0 .. size[p] :
           LET some == n > 0
               over == p = 1 \/ (some /\ d.full = 2)
           IN  /\ n = size[p] \/ Crowded(c, p)
               /\ dq' = [dq EXCEPT ![c] = [d EXCEPT
                    !.dry = IF size[p] = 0 \/ Crowded(c, p) THEN d.dry \cup {p} ELSE d.dry,
                    !.full = IF some THEN d.full + 1 ELSE d.full,
                    !.best = IF n > d.bestSize THEN p ELSE d.best,
                    !.bestSize = IF n > d.bestSize THEN n ELSE d.bestSize,
                    !.ptr = p - 1,
                    !.at = IF ~over THEN "score" ELSE IF some \/ d.full > 0 THEN "best" ELSE "returned"]]
  /\ UNCHANGED <<listVars, size, globalOffset, token, want, visit>>

Best(c) ==
  /\ dq[c].at = "best"
  /\ \E m \in 0 .. visit[c].n :
       /\ DequeueFrom(c, dq[c].best, m)
       /\ dq' = [dq EXCEPT ![c] = [@ EXCEPT
            !.at = IF m = want[c] THEN "returned" ELSE "reload", !.dry = Dry(c, dq[c].best)]]
  /\ UNCHANGED <<listVars, globalOffset, token>>

\* Mutant: when the best one was empty after all, the call gives up.
ReloadNever(c) ==
  /\ dq[c].at = "reload"
  /\ Move(c, "returned", 0)
  /\ UNCHANGED <<listVars, size, globalOffset, token, want, visit>>

\* The best one was empty after all: every other is tried, from the tail as it is now.
Reload(c) ==
  /\ dq[c].at = "reload"
  /\ Move(c, "sweep", tail)
  /\ UNCHANGED <<listVars, size, globalOffset, token, want, visit>>

Sweep(c) ==
  /\ dq[c].at = "sweep"
  /\ LET p == dq[c].ptr
     IN  /\ IF p = dq[c].best THEN UNCHANGED <<size, want, visit>>
            ELSE \E m \in 0 .. visit[c].n : DequeueFrom(c, p, m)
         /\ dq' = [dq EXCEPT ![c] = [@ EXCEPT
              !.dry = IF p = dq[c].best THEN dq[c].dry ELSE Dry(c, p),
              !.ptr = p - 1, !.at = IF want'[c] = 0 \/ p = 1 THEN "returned" ELSE "sweep"]]
  /\ UNCHANGED <<listVars, globalOffset, token>>

-----------------------------------------------------------------------------
(* With a token. *)

\* update_current_producer_after_rotation, from its load of the tail on.
RotateTail(c) ==
  /\ dq[c].at = "rotate"
  /\ dq' = [dq EXCEPT ![c] = [@ EXCEPT
       !.tail = tail, !.at = IF token[c].desired = 0 /\ tail = 0 THEN "returned" ELSE "offset"]]
  /\ UNCHANGED <<listVars, size, globalOffset, token, want, visit>>

\* n steps on from p, round the list up to last.
Onward(p, n, last) == ((p - 1 - n) % last) + 1

RotateOffset(c) ==
  /\ dq[c].at = "offset"
  /\ LET last == dq[c].tail
         from == IF token[c].desired = 0
                 THEN Onward(last, producerCount - 1 - (Offset[c] % producerCount), last)
                 ELSE token[c].desired
         p == Onward(from, (globalOffset - token[c].known) % producerCount, last)
     IN  token' = [token EXCEPT ![c] = [desired |-> p, current |-> p, known |-> globalOffset, consumed |-> 0]]
  /\ Move(c, "current", 0)
  /\ UNCHANGED <<listVars, size, globalOffset, want, visit>>

\* The token's own producer first.  A call that is served whole may send everybody on.
Current(c) ==
  /\ dq[c].at = "current"
  /\ \E m \in 0 .. visit[c].n :
     LET p == token[c].current
         consumed == token[c].consumed + m
         whole == m = want[c]
     IN  /\ DequeueFrom(c, p, m)
         /\ token' = [token EXCEPT ![c].consumed = consumed]
         /\ globalOffset' = IF whole /\ (consumed = Quota \/ (dq[c].bulk /\ consumed > Quota))
                            THEN globalOffset + 1 ELSE globalOffset
         /\ dq' = [dq EXCEPT ![c] = [@ EXCEPT !.dry = Dry(c, p), !.at = IF whole THEN "returned" ELSE "next"]]
  /\ UNCHANGED listVars

NextTail(c) ==
  /\ dq[c].at = "next"
  /\ LET p == After(token[c].current, tail)
     IN  dq' = [dq EXCEPT ![c] = [@ EXCEPT
           !.tail = tail, !.ptr = p, !.at = IF p = token[c].current THEN "returned" ELSE "around"]]
  /\ UNCHANGED <<listVars, size, globalOffset, token, want, visit>>

\* Round the list until the token's producer comes again; one that gives becomes the token's.
Around(c) ==
  /\ dq[c].at = "around"
  /\ \E m \in 0 .. visit[c].n :
     LET p == dq[c].ptr
         q == After(p, dq[c].tail)
     IN  /\ DequeueFrom(c, p, m)
         /\ token' = IF m = 0 THEN token ELSE [token EXCEPT ![c] = [@ EXCEPT !.current = p, !.consumed = m]]
         /\ dq' = [dq EXCEPT ![c] = [@ EXCEPT
              !.dry = Dry(c, p), !.ptr = q,
              !.at = IF m = want[c] \/ q = token'[c].current THEN "returned" ELSE "around"]]
  /\ UNCHANGED <<listVars, globalOffset>>

Resume(c) ==
  /\ dq[c].at = "returned"
  /\ dq' = [dq EXCEPT ![c] = Resting]
  /\ UNCHANGED <<listVars, size, globalOffset, token, want, visit>>

DequeueStep(c) ==
  \/ Look(c) \/ Score(c) \/ Best(c) \/ Reload(c) \/ Sweep(c)
  \/ RotateTail(c) \/ RotateOffset(c) \/ Current(c) \/ NextTail(c) \/ Around(c) \/ Resume(c)

-----------------------------------------------------------------------------
\* A call returns less than it was asked for only if "all producer streams appeared empty at the
\* time they were checked": each one that was listed when the call began was looked at during it, while
\* it had no unclaimed element or another consumer was inside, whatever list, rotation and queues did
\* meanwhile.
NoneMissed ==
  \A c \in Consumers : dq[c].at = "returned" /\ want[c] > 0 => 1 .. dq[c].start \subseteq dq[c].dry
=============================================================================
