--------------------------- MODULE BlockingQueue ---------------------------
(***************************************************************************)
(* BlockingConcurrentQueue (blockingconcurrentqueue.h): a ConcurrentQueue  *)
(* whose elements are counted by a LightweightSemaphore.  A producer puts  *)
(* first and signals then; a consumer gets its permits first and then      *)
(* dequeues as many elements, trying again until it has them.              *)
(***************************************************************************)
EXTENDS LightweightSemaphore, ConcurrentQueue

CONSTANTS Puts,   \* how many elements one enqueue may put (enqueue: 1, enqueue_bulk: any)
          Asks,   \* how many elements one dequeue may ask for (bulk: more than 1)
          Kinds,  \* the ways to wait that the run's consumers use
          MaxPut  \* bound: elements put in a behaviour

ASSUME BlockingAssumption ==
  /\ Signallers = Producing /\ Waiters = Consumers
  /\ Puts \subseteq Nat \ {0} /\ Asks \subseteq Nat \ {0}
  /\ Kinds \subseteq {"try", "ever", "timed", "zero"} /\ MaxPut \in Nat

VARIABLES unsignalled,  \* [Producing -> Nat]: elements put whose signal is still to come
          put           \* elements put so far

blockingVars == <<semaVars, queueVars, unsignalled, put>>

BlockingInit == SemaInit /\ QueueInit /\ unsignalled = [s \in Producing |-> 0] /\ put = 0

-----------------------------------------------------------------------------
(* enqueue, enqueue_bulk and their try_ forms *)

Enroll(s) ==
  /\ CountProducer(s) \/ ListProducer(s)
  /\ UNCHANGED <<semaVars, unsignalled, put>>

Enqueue(s, n) ==
  /\ unsignalled[s] = 0 /\ posting[s] = 0 /\ put + n <= MaxPut
  /\ Put(s, n)
  /\ unsignalled' = [unsignalled EXCEPT ![s] = n] /\ put' = put + n
  /\ UNCHANGED semaVars

SignalPut(s) ==
  /\ unsignalled[s] > 0
  /\ Signal(s, unsignalled[s])
  /\ unsignalled' = [unsignalled EXCEPT ![s] = 0]
  /\ UNCHANGED <<queueVars, put>>

PostPut(s) == Post(s) /\ UNCHANGED <<queueVars, unsignalled, put>>

-----------------------------------------------------------------------------
(* try_dequeue, wait_dequeue, wait_dequeue_timed and their bulk forms *)

Ask(c, n, kind) ==
  /\ want[c] = 0 /\ dq[c].at = "idle"
  /\ Call(c, n, kind)
  /\ UNCHANGED <<queueVars, unsignalled, put>>

Wait(c) == WaitStep(c) /\ UNCHANGED <<queueVars, unsignalled, put>>

\* The permits the semaphore gave are what there is to dequeue.
Permitted(c) ==
  /\ wt[c].at = "idle" /\ wt[c].got > 0
  /\ want' = [want EXCEPT ![c] = wt[c].got]
  /\ wt' = [wt EXCEPT ![c] = Awake]
  /\ UNCHANGED <<mcount, sema, posting, listVars, size, globalOffset, token, dq, visit, unsignalled, put>>

\* while (!inner.try_dequeue(item)), while (count != max): one turn of the loop.  A bulk call asks
\* the inner queue with its bulk form even for the last element.
Turn(c, bulk) ==
  /\ want[c] > 1 => bulk
  /\ Begin(c, bulk)
  /\ UNCHANGED <<semaVars, unsignalled, put>>

Dequeue(c) == DequeueStep(c) /\ UNCHANGED <<semaVars, unsignalled, put>>

ProducerStep(s) == Enroll(s) \/ SignalPut(s) \/ PostPut(s)
ConsumerStep(c) == Wait(c) \/ Permitted(c) \/ Dequeue(c) \/ \E bulk \in BOOLEAN : Turn(c, bulk)

BlockingNext ==
  \/ \E s \in Producing : ProducerStep(s) \/ \E n \in Puts : Enqueue(s, n)
  \/ \E c \in Consumers : ConsumerStep(c) \/ \E n \in Asks, kind \in Kinds : Ask(c, n, kind)

\* Threads run to the end of the calls they are in; nobody has to make another.
Fairness ==
  /\ \A s \in Producing : WF_blockingVars(ProducerStep(s))
  /\ \A c \in Consumers : WF_blockingVars(ConsumerStep(c))

BlockingSpec == BlockingInit /\ [][BlockingNext]_blockingVars /\ Fairness

-----------------------------------------------------------------------------
\* The sum of f's values over S: the pairs of an x in S and a number up to f[x].
Total(f, S) == Cardinality(UNION {{x} \X (1 .. f[x]) : x \in S})
\* Permits that consumers have and have not used.
Permits == [c \in Consumers |-> wt[c].got + want[c]]
Held == Total(Permits, Consumers)
Elements == Total(size, DOMAIN size)

\* The kernel's semaphore and the count agree: every thread that took the count down and has not
\* settled it is covered by a post made, a post about to be made, or the debt the count shows.  So no
\* wake-up is lost and none is left over (signal against a wait that times out).
SleepersCovered ==
  Cardinality(Owed) = sema + Total(posting, Signallers) + (IF mcount < 0 THEN -mcount ELSE 0)

\* Elements and permits agree: what the queues hold is what the count offers and the sleepers are owed,
\* what consumers took permits for, and what was put and not signalled yet.
PermitForEachElement ==
  Elements = mcount + Cardinality(Owed) + Held + Total(unsignalled, Producing)

\* A dequeue that got its permits ends, although one turn of the loop around try_dequeue may pass the
\* elements by: it turns for ever only if it meets, over and over, another consumer that is inside the
\* very producer's queue it looks at.
Meets(c) == dq[c].at \in {"score", "best", "sweep", "current", "around"} /\ Crowded(c, Target(c))
LoopsEnd == \A c \in Consumers : want[c] > 0 ~> (want[c] = 0 \/ Meets(c))

\* No lost wake-up: a sleeper wakes while there is an element that nobody has a permit for.
SleepersWake ==
  \A c \in Consumers : (wt[c].at = "asleep" /\ Elements > Held) ~> (wt[c].at /= "asleep" \/ Elements <= Held)
=============================================================================
