------------------------ MODULE LightweightSemaphore ------------------------
(***************************************************************************)
(* LightweightSemaphore (lightweightsemaphore.h): a count that threads     *)
(* take from without the kernel while it is positive; a thread that takes  *)
(* it below zero sleeps on the POSIX semaphore, and a signal posts there   *)
(* for as many as the count says may sleep.  A wait that times out has to  *)
(* take its decrement back, or a post that was meant for it.               *)
(***************************************************************************)
EXTENDS Integers, FiniteSets

CONSTANTS Waiters, Signallers

ASSUME SemaphoreAssumption == IsFiniteSet(Waiters) /\ IsFiniteSet(Signallers)

VARIABLES mcount,   \* m_count
          sema,     \* m_sema: posts nobody took yet
          posting,  \* [Signallers -> Nat]: posts a signal has still to make
          wt        \* [Waiters -> record]: a thread's place in a wait, and its locals

semaVars == <<mcount, sema, posting, wt>>

\* max: permits asked for; kind: "try" for tryWait and tryWaitMany, "timed" for a wait with a
\* timeout, "zero" for a timeout of 0, "ever" for none; got: permits the call returned.
Awake == [at |-> "idle", max |-> 1, kind |-> "ever", seen |-> 0, got |-> 0]

SemaInit ==
  /\ mcount = 0 /\ sema = 0
  /\ posting = [s \in Signallers |-> 0]
  /\ wt = [t \in Waiters |-> Awake]

Goes(t, at) == wt' = [wt EXCEPT ![t].at = at]

-----------------------------------------------------------------------------
(* tryWait, tryWaitMany, wait and waitMany *)

Call(t, max, kind) ==
  /\ wt[t].at = "idle" /\ wt[t].got = 0
  /\ wt' = [wt EXCEPT ![t] = [Awake EXCEPT !.at = "try", !.max = max, !.kind = kind]]
  /\ UNCHANGED <<mcount, sema, posting>>

\* Mutant: a bulk wait takes what it was asked for whether it is there or not.
TakingMax(t) == wt[t].max

\* Permits in sight are taken at once, as many as were asked for; the loops on the compare-exchange
\* come to this.  waitWithPartialSpinning tries again while it spins.
Taking(t) == IF mcount > wt[t].max THEN wt[t].max ELSE mcount
TakeSome(t) ==
  /\ wt[t].at \in {"try", "spin"} /\ mcount > 0
  /\ mcount' = mcount - Taking(t)
  /\ wt' = [wt EXCEPT ![t] = [Awake EXCEPT !.got = Taking(t)]]
  /\ UNCHANGED <<sema, posting>>

\* None in sight: tryWait returns false, a wait spins.
TakeNone(t) ==
  /\ wt[t].at = "try" /\ mcount <= 0
  /\ wt' = [wt EXCEPT ![t] = IF wt[t].kind = "try" THEN Awake ELSE [@ EXCEPT !.at = "spin"]]
  /\ UNCHANGED <<mcount, sema, posting>>

\* A wait got one permit by itself; waitMany goes on for the rest.
More(t) == [Awake EXCEPT !.at = IF wt[t].max > 1 THEN "more" ELSE "idle", !.max = wt[t].max - 1, !.got = 1]

\* Mutant: only the rest is returned.
TakeRestOnly(t) ==
  /\ wt[t].at = "more"
  /\ LET n == IF mcount > 0 THEN Taking(t) ELSE 0
     IN  mcount' = mcount - n /\ wt' = [wt EXCEPT ![t] = [Awake EXCEPT !.got = n]]
  /\ UNCHANGED <<sema, posting>>

\* As many more as there are, at once.
TakeMore(t) ==
  /\ wt[t].at = "more"
  /\ LET n == IF mcount > 0 THEN Taking(t) ELSE 0
     IN  mcount' = mcount - n /\ wt' = [wt EXCEPT ![t] = [Awake EXCEPT !.got = 1 + n]]
  /\ UNCHANGED <<sema, posting>>

\* The spins are over: fetch_sub, and sleep if nothing was there.
Decrement(t) ==
  /\ wt[t].at = "spin"
  /\ mcount' = mcount - 1
  /\ wt' = [wt EXCEPT ![t] =
       IF mcount > 0 THEN More(t) ELSE [@ EXCEPT !.at = IF wt[t].kind = "zero" THEN "giveup" ELSE "asleep"]]
  /\ UNCHANGED <<sema, posting>>

\* sem_wait, and the sem_trywait of a thread that gives up.
TakePost(t) ==
  /\ wt[t].at \in {"asleep", "trysem"} /\ sema > 0
  /\ sema' = sema - 1
  /\ wt' = [wt EXCEPT ![t] = More(t)]
  /\ UNCHANGED <<mcount, posting>>

TimeOut(t) ==
  /\ wt[t].at = "asleep" /\ wt[t].kind = "timed"
  /\ Goes(t, "giveup")
  /\ UNCHANGED <<mcount, sema, posting>>

\* The count says whether a post may have been meant for this thread.
LoadCount(t) ==
  /\ wt[t].at = "giveup"
  /\ wt' = [wt EXCEPT ![t] = [@ EXCEPT !.at = IF mcount >= 0 THEN "trysem" ELSE "undo", !.seen = mcount]]
  /\ UNCHANGED <<mcount, sema, posting>>

NoPost(t) ==
  /\ wt[t].at = "trysem" /\ sema = 0
  /\ Goes(t, "giveup")
  /\ UNCHANGED <<mcount, sema, posting>>

\* Mutant: the decrement is taken back whatever the count is by now.
UndoBlindly(t) ==
  /\ wt[t].at = "undo"
  /\ mcount' = mcount + 1 /\ wt' = [wt EXCEPT ![t] = Awake]
  /\ UNCHANGED <<sema, posting>>

\* The decrement is taken back if the count is still the one seen, and the wait returns nothing.
Undo(t) ==
  /\ wt[t].at = "undo"
  /\ IF mcount = wt[t].seen
     THEN mcount' = mcount + 1 /\ wt' = [wt EXCEPT ![t] = Awake]
     ELSE Goes(t, "giveup") /\ UNCHANGED mcount
  /\ UNCHANGED <<sema, posting>>

-----------------------------------------------------------------------------
(* signal *)

\* Mutant: a signal that finds more sleepers than elements posts once.
ToReleaseOne(n) == IF -mcount < n THEN -mcount ELSE 1

\* As many posts as there may be sleepers among the n signalled.
ToRelease(n) == IF -mcount < n THEN -mcount ELSE n
Signal(s, n) ==
  /\ posting[s] = 0
  /\ mcount' = mcount + n
  /\ posting' = [posting EXCEPT ![s] = IF ToRelease(n) > 0 THEN ToRelease(n) ELSE 0]
  /\ UNCHANGED <<sema, wt>>

\* sem_post, once for each.
Post(s) ==
  /\ posting[s] > 0
  /\ sema' = sema + 1
  /\ posting' = [posting EXCEPT ![s] = @ - 1]
  /\ UNCHANGED <<mcount, wt>>

WaitStep(t) ==
  \/ TakeSome(t) \/ TakeNone(t) \/ TakeMore(t) \/ Decrement(t) \/ TakePost(t)
  \/ TimeOut(t) \/ LoadCount(t) \/ NoPost(t) \/ Undo(t)

-----------------------------------------------------------------------------
\* A thread that took the count down and neither holds a permit for it nor took it back.
Owed == {t \in Waiters : wt[t].at \in {"asleep", "giveup", "trysem", "undo"}}
=============================================================================
