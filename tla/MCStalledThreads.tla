-------------------------- MODULE MCStalledThreads --------------------------
(***************************************************************************)
(* Threads that stop between their search and their count, while another   *)
(* one makes the second table.  One schedule of ProducerHash, fixed by     *)
(* turn: whoever has the turn moves until its part is done.  All start     *)
(* their probes at slot 0.                                                 *)
(***************************************************************************)
EXTENDS ProducerHash, TLC

CONSTANT Last  \* threads 0 to Last: 0 is the first to have a slot, Last makes the second table

VARIABLE turn  \* how many parts of the schedule are done

Id(i) == ToString(i)
MCThreads == {Id(i) : i \in 0 .. Last}
MCHash == [t \in MCThreads |-> 0]

\* All search the first table.  Thread 0 gets a slot there and exits; 1 and 2 count themselves in and
\* stop before they have a producer; Last, the fourth to count, makes the table; then 1 to Last - 1 go on.
Part(k) ==
  IF k <= Last THEN <<k, "search">>
  ELSE CASE k = Last + 1 -> <<0, "exit">>
         [] k \in {Last + 2, Last + 3} -> <<k - Last - 1, "room">>
         [] k = Last + 4 -> <<Last, "insert">>
         [] OTHER -> <<k - Last - 4, "return">>

\* When part k, of thread t, is done.  "return" is that t was found in the first table, entered the
\* second, exited, and that another thread with its id called and got the slot it left.
Done(k, t) ==
  CASE Part(k)[2] = "search" -> th[t].at = "count"
    [] Part(k)[2] = "room" -> th[t].at = "recycle"
    [] Part(k)[2] = "insert" -> th[t].at = "idle" /\ mine[t] /= 0
    [] Part(k)[2] = "exit" -> th[t].at = "idle" /\ exits = 1
    [] Part(k)[2] = "return" -> th[t].at = "idle" /\ mine[t] /= 0 /\ exits = k - Last - 3

Move(t) ==
  IF th[t].at /= "idle" THEN Step(t)
  ELSE IF mine[t] = 0 \/ Holds(Newest, t) = {} THEN Search(t)
  ELSE Exit(t)

StallInit == Init /\ turn = 0
StallNext ==
  \E k \in 0 .. 2 * Last + 3, t \in Threads :
    /\ k = turn /\ t = Id(Part(k)[1])
    /\ Move(t)
    /\ turn' = IF Done(k, t)' THEN k + 1 ELSE k

\* Each behaviour is one of ProducerHash: StallNext takes steps of its Next only.
StallSpec == StallInit /\ [][StallNext]_<<vars, turn>>
=============================================================================
