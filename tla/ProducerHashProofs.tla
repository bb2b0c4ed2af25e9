------------------------- MODULE ProducerHashProofs -------------------------
(***************************************************************************)
(* Proofs about ProducerHash for every number of threads, hash function    *)
(* and capacity, and any number of failures and exits.                     *)
(***************************************************************************)
EXTENDS ProducerHash, FiniteSetTheorems, SequenceTheorems, NaturalsInduction, TLAPS

Early == {"count", "grow", "resize", "unlock", "reload", "recycle"}
Places == {"idle", "insert", "readd", "uncount", "exit"} \cup Early

Slot == [key : Threads \cup {"empty", "reusable"}, value : Nat]
Table == UNION {[0 .. c - 1 -> Slot] : c \in Nat \ {0}}
Local == [at : Places, main : Nat, i : Nat, n : Int, p : Nat]

Typed ==
  /\ tables \in Seq(Table) /\ Newest >= 1
  /\ usedCount \in Int /\ inactive \in Seq(BOOLEAN)
  /\ th \in [Threads -> Local] /\ mine \in [Threads -> Nat]

\* Slot i of table k has thread t's key.
KeyAt(t, k, i) == k \in 1 .. Newest /\ i \in DOMAIN tables[k] /\ tables[k][i].key = t
Listed(t) == \E k, i : KeyAt(t, k, i)

\* What thread t's place in its call says: a search in vain means that it has no producer, and a
\* thread with one is in a table, about to enter it, or on its way out, from the newest table down.
Placed(t) ==
  /\ th[t].at \in Early \cup {"insert", "readd"} => th[t].main \in 1 .. Newest
  /\ th[t].at \in {"insert", "readd"} =>
       th[t].i \in DOMAIN tables[th[t].main] /\ th[t].p = mine[t] /\ mine[t] /= 0
  /\ th[t].at = "recycle" => th[t].p <= Len(inactive)
  /\ th[t].at \in Early => mine[t] = 0
  /\ th[t].at = "exit" => /\ mine[t] /= 0 /\ th[t].main <= Newest
                          /\ \A k, i : KeyAt(t, k, i) => k <= th[t].main
  /\ th[t].at \in {"idle", "uncount", "readd"} /\ mine[t] /= 0 => Listed(t)

\* Every key in a table leads to its thread's producer.
Keys == \A t \in Threads : \A k, i : KeyAt(t, k, i) => mine[t] /= 0 /\ tables[k][i].value = mine[t]

Known == \A t \in Threads : mine[t] <= Len(inactive)

IInv == Typed /\ (\A t \in Threads : Placed(t)) /\ Keys /\ ProducersApart /\ Known

-----------------------------------------------------------------------------
\* Every table has a slot for every probe.
LEMMA TableSlots ==
  ASSUME NEW T \in Table, NEW x \in Nat
  PROVE  Cardinality(DOMAIN T) \in Nat \ {0} /\ x % Cardinality(DOMAIN T) \in DOMAIN T
  <1>1. PICK c \in Nat \ {0} : T \in [0 .. c - 1 -> Slot]
    BY DEF Table
  <1>2. DOMAIN T = 0 .. c - 1
    BY <1>1
  <1>3. Cardinality(0 .. c - 1) = c
    BY FS_Interval
  <1>4. x % c \in 0 .. c - 1
    OBVIOUS
  <1> QED BY <1>2, <1>3, <1>4

LEMMA EmptyTable ==
  ASSUME NEW c \in Nat \ {0}
  PROVE  [i \in 0 .. c - 1 |-> Empty] \in Table
  <1>1. Empty \in Slot
    BY DEF Empty, Slot
  <1>2. [i \in 0 .. c - 1 |-> Empty] \in [0 .. c - 1 -> Slot]
    BY <1>1
  <1> QED BY <1>2 DEF Table

\* Nothing has happened at the start.
LEMMA InitInv == Init => IInv
  <1> SUFFICES ASSUME Init PROVE IInv
    OBVIOUS
  <1>1. tables = <<[i \in 0 .. InitCap - 1 |-> Empty]>> /\ InitCap \in Nat \ {0}
    BY CapAssumption DEF Init
  <1>2. tables \in Seq(Table) /\ Newest = 1
    BY <1>1, EmptyTable DEF Newest
  <1>3. Typed
    BY <1>2 DEF Init, Typed, Local, Places, Idle
  <1>4. \A t \in Threads : \A k, i : ~KeyAt(t, k, i)
    BY <1>1, <1>2, IdsAssumption DEF KeyAt, Empty
  <1>5. \A t \in Threads : Placed(t)
    BY DEF Init, Placed, Early, Idle
  <1>6. ProducersApart /\ Known
    BY DEF Init, ProducersApart, Known
  <1> QED BY <1>3, <1>4, <1>5, <1>6 DEF IInv, Keys
-----------------------------------------------------------------------------
\* Only t moves.
Others(t) == \A u \in Threads \ {t} : th'[u] = th[u]

LEMMA Domains ==
  ASSUME Typed, NEW k \in 1 .. Newest
  PROVE  /\ tables[k] \in Table /\ Cap(k) \in Nat \ {0}
         /\ \A x \in Nat : x % Cap(k) \in DOMAIN tables[k]
  <1>1. tables[k] \in Table
    BY ElementOfSeq DEF Typed, Newest
  <1> QED BY <1>1, TableSlots DEF Cap

\* Where a probe begins.
LEMMA Probes ==
  ASSUME Typed, NEW t \in Threads, NEW at \in Places, NEW k \in 1 .. Newest, NEW p \in Nat
  PROVE  LET r == Probing(t, at, k, p)
         IN  r \in Local /\ r.at = at /\ r.main = k /\ r.p = p /\ r.i \in DOMAIN tables[k]
  <1>1. Hash[t] \in Nat
    BY ThreadsAssumption
  <1>2. Hash[t] % Cap(k) \in DOMAIN tables[k] /\ Hash[t] % Cap(k) \in Nat
    BY <1>1, Domains
  <1>3. ASSUME NEW j, NEW r, r = [Idle EXCEPT !.at = at, !.main = k, !.i = j, !.p = p]
        PROVE  r = [at |-> at, main |-> k, i |-> j, n |-> 0, p |-> p]
    BY <1>3 DEF Idle
  <1>4. Probing(t, at, k, p) = [at |-> at, main |-> k, i |-> Hash[t] % Cap(k), n |-> 0, p |-> p]
    BY <1>3 DEF Probing
  <1> QED BY <1>2, <1>4 DEF Local

\* One thread goes on with locals that are typed.
LEMMA Moved ==
  ASSUME Typed, NEW t \in Threads, NEW r \in Local, th' = [th EXCEPT ![t] = r]
  PROVE  Others(t) /\ th' \in [Threads -> Local] /\ th'[t] = r
  BY DEF Typed, Others

LEMMA Locals ==
  ASSUME NEW r \in Local, NEW at \in Places, NEW k \in Nat, NEW n \in Int, NEW p \in Nat
  PROVE  /\ [r EXCEPT !.at = at] \in Local
         /\ [r EXCEPT !.at = at, !.n = n] \in Local
         /\ [r EXCEPT !.at = at, !.main = k] \in Local
         /\ [r EXCEPT !.at = at, !.n = n, !.p = p] \in Local
  BY DEF Local

\* Where it goes on.
LEMMA ProbesOn ==
  ASSUME Typed, NEW t \in Threads, ProbeOn(t), th[t].main \in 1 .. Newest
  PROVE  /\ Others(t) /\ th' \in [Threads -> Local]
         /\ th'[t].at = th[t].at /\ th'[t].main = th[t].main /\ th'[t].p = th[t].p
         /\ th'[t].i \in DOMAIN tables[th[t].main]
  <1>1. th[t] \in Local /\ th[t].i + 1 \in Nat
    BY DEF Typed, Local
  <1>2. PICK j \in Nat : j = (th[t].i + 1) % Cap(th[t].main) /\ j \in DOMAIN tables[th[t].main]
    BY <1>1, Domains
  <1>3. th' = [th EXCEPT ![t].i = j]
    BY <1>2 DEF ProbeOn
  <1> QED BY <1>1, <1>2, <1>3 DEF Typed, Local, Others

\* What follows the check for room.
LEMMA RoomChecked ==
  ASSUME Typed, NEW t \in Threads, CheckRoom(t)
  PROVE  /\ Others(t) /\ th' \in [Threads -> Local] /\ th'[t].main = th[t].main
         /\ th'[t].at \in {"recycle", "reload"} /\ (th'[t].at = "recycle" => th'[t].p = Len(inactive))
  <1>1. \/ th' = [th EXCEPT ![t] = [@ EXCEPT !.at = "recycle", !.n = 0, !.p = Len(inactive)]]
        \/ th' = [th EXCEPT ![t].at = "reload"]
    BY DEF CheckRoom
  <1>2. Len(inactive) \in Nat
    BY LenProperties DEF Typed
  <1>3. th[t] \in Local /\ {"recycle", "reload"} \subseteq Places
    BY DEF Typed, Places, Early
  <1>4. CASE th' = [th EXCEPT ![t] = [@ EXCEPT !.at = "recycle", !.n = 0, !.p = Len(inactive)]]
    <2>1. PICK r : r = [th[t] EXCEPT !.at = "recycle", !.n = 0, !.p = Len(inactive)]
      OBVIOUS
    <2>2. th' = [th EXCEPT ![t] = r] /\ r \in Local
      <3>1. \A n \in Int : [th[t] EXCEPT !.at = "recycle", !.n = n, !.p = Len(inactive)] \in Local
        BY <1>2, <1>3, Locals
      <3>2. 0 \in Int
        OBVIOUS
      <3>3. r \in Local
        BY <2>1, <3>1, <3>2
      <3> QED BY <1>4, <2>1, <3>3
    <2>3. r.at = "recycle" /\ r.main = th[t].main /\ r.p = Len(inactive)
      BY <1>2, <1>3, <2>1 DEF Local
    <2> QED BY <2>2, <2>3, Moved
  <1>5. CASE th' = [th EXCEPT ![t].at = "reload"]
    <2>1. PICK r : r = [th[t] EXCEPT !.at = "reload"]
      OBVIOUS
    <2>2. th' = [th EXCEPT ![t] = r] /\ r \in Local
      BY <1>3, <1>5, <2>1, Locals DEF Typed
    <2>3. r.at = "reload" /\ r.main = th[t].main
      BY <1>3, <2>1 DEF Local
    <2> QED BY <2>2, <2>3, Moved
  <1> QED BY <1>1, <1>4, <1>5

\* A step that leaves the tables and the producers alone is judged by the place t comes to.
LEMMA Still ==
  ASSUME IInv, NEW t \in Threads, UNCHANGED <<tables, inactive, mine>>,
         usedCount' \in Int, th' \in [Threads -> Local], Others(t), Placed(t)'
  PROVE  IInv'
  <1>1. Typed'
    BY DEF IInv, Typed, Newest
  <1>2. \A u, k, i : KeyAt(u, k, i)' <=> KeyAt(u, k, i)
    BY DEF KeyAt, Newest
  <1>3. ASSUME NEW u \in Threads \ {t} PROVE Placed(u)'
    <2>1. Placed(u) /\ th'[u] = th[u] /\ Newest' = Newest
      BY <1>3 DEF IInv, Others, Newest
    <2> QED BY <1>2, <2>1 DEF Placed, Listed
  <1>4. Keys'
    BY <1>2 DEF IInv, Keys
  <1>5. ProducersApart' /\ Known'
    BY DEF IInv, ProducersApart, Known
  <1> QED BY <1>1, <1>3, <1>4, <1>5 DEF IInv

\* The steps between the accesses that matter.
LEMMA QuietSteps ==
  ASSUME IInv, NEW t \in Threads,
         \/ CountIn(t) \/ TryLock(t) \/ Reload(t) \/ Unlock(t) \/ Uncount(t)
         \/ ResizeFails(t) \/ CreateFails(t) \/ Exit(t)
  PROVE  IInv'
  <1>0. Typed /\ Placed(t) /\ th[t] \in Local /\ Newest \in Nat \ {0}
    BY LenProperties DEF IInv, Typed, Newest
  <1>1. UNCHANGED <<tables, inactive, mine>> /\ usedCount' \in Int
    BY <1>0 DEF CountIn, TryLock, Reload, Unlock, Uncount, ResizeFails, CreateFails, Exit, Typed
  <1>2. \A u, k, i : KeyAt(u, k, i)' <=> KeyAt(u, k, i)
    BY <1>1 DEF KeyAt, Newest
  <1>3. \A u : Listed(u)' <=> Listed(u)
    BY <1>2 DEF Listed
  <1>4. Newest' = Newest
    BY <1>1 DEF Newest
  <1>5. CASE CountIn(t)
    <2>1. th' = [th EXCEPT ![t] = [@ EXCEPT !.at = "grow", !.n = usedCount + 1]] /\ th[t].at = "count"
      BY <1>5 DEF CountIn
    <2>2. Others(t) /\ th' \in [Threads -> Local] /\ th'[t].at = "grow" /\ th'[t].main = th[t].main
      <3>1. PICK r : r = [th[t] EXCEPT !.at = "grow", !.n = usedCount + 1]
        OBVIOUS
      <3>2. th' = [th EXCEPT ![t] = r] /\ usedCount + 1 \in Int /\ "grow" \in Places
        BY <1>0, <2>1, <3>1 DEF Typed, Places, Early
      <3>3. r \in Local /\ r.at = "grow" /\ r.main = th[t].main
        BY <1>0, <3>1, <3>2, Locals DEF Local
      <3> QED BY <1>0, <3>2, <3>3, Moved
    <2>3. Placed(t)'
      BY <1>0, <1>1, <1>4, <2>1, <2>2 DEF Placed, Early
    <2> QED BY <1>1, <2>2, <2>3, Still
  <1>6. CASE TryLock(t) \/ Unlock(t)
    <2>1. th[t].at \in {"grow", "unlock"}
      BY <1>6 DEF TryLock, Unlock
    <2>2. \/ CheckRoom(t)
          \/ th' = [th EXCEPT ![t].at = "resize"]
      BY <1>6 DEF TryLock, Unlock, Goto
    <2>3. /\ Others(t) /\ th' \in [Threads -> Local] /\ th'[t].main = th[t].main
          /\ th'[t].at \in {"recycle", "reload", "resize"}
          /\ (th'[t].at = "recycle" => th'[t].p = Len(inactive))
      <3>1. CASE CheckRoom(t)
        BY <1>0, <3>1, RoomChecked
      <3>2. CASE th' = [th EXCEPT ![t].at = "resize"]
        BY <1>0, <3>2 DEF Typed, Local, Others, Places, Early
      <3> QED BY <2>2, <3>1, <3>2
    <2>4. Len(inactive) \in Nat
      BY <1>0, LenProperties DEF Typed
    <2>5. Placed(t)'
      BY <1>0, <1>1, <1>4, <2>1, <2>3, <2>4 DEF Placed, Early
    <2> QED BY <1>1, <2>3, <2>5, Still
  <1>7. CASE Reload(t)
    <2>1. th' = [th EXCEPT ![t] = [@ EXCEPT !.at = "grow", !.main = Newest]] /\ th[t].at = "reload"
      BY <1>7 DEF Reload
    <2>2. Others(t) /\ th' \in [Threads -> Local] /\ th'[t].at = "grow" /\ th'[t].main = Newest
      BY <1>0, <2>1 DEF Others, Typed, Local, Places, Early
    <2>3. Placed(t)'
      BY <1>0, <1>1, <1>4, <2>1, <2>2 DEF Placed, Early
    <2> QED BY <1>1, <2>2, <2>3, Still
  <1>8. CASE Uncount(t) \/ ResizeFails(t) \/ CreateFails(t)
    <2>1. th' = [th EXCEPT ![t] = Idle] /\ (mine[t] = 0 \/ Listed(t))
      <3>1. CASE Uncount(t)
        BY <1>0, <3>1 DEF Uncount, Finish, Placed
      <3>2. CASE ResizeFails(t) \/ CreateFails(t)
        BY <1>0, <3>2 DEF ResizeFails, CreateFails, Finish, Placed, Early
      <3> QED BY <1>8, <3>1, <3>2
    <2>2. Others(t) /\ th' \in [Threads -> Local] /\ th'[t].at = "idle"
      BY <1>0, <2>1 DEF Others, Typed, Local, Places, Idle
    <2>3. Placed(t)'
      BY <1>1, <1>3, <2>1, <2>2 DEF Placed, Early
    <2> QED BY <1>1, <2>2, <2>3, Still
  <1>9. CASE Exit(t)
    <2>1. th' = [th EXCEPT ![t] = [Idle EXCEPT !.at = "exit", !.main = Newest]] /\ mine[t] /= 0
      BY <1>9 DEF Exit
    <2>2. PICK r : r = [Idle EXCEPT !.at = "exit", !.main = Newest]
      OBVIOUS
    <2>3. Others(t) /\ th' \in [Threads -> Local] /\ th'[t].at = "exit" /\ th'[t].main = Newest
      <3>1. Idle \in Local /\ "exit" \in Places
        BY DEF Idle, Local, Places
      <3>2. r \in Local /\ r.at = "exit" /\ r.main = Newest
        BY <1>0, <2>2, <3>1, Locals DEF Local
      <3> QED BY <1>0, <2>1, <2>2, <3>2, Moved
    <2>4. Placed(t)'
      BY <1>0, <1>1, <1>2, <1>4, <2>1, <2>3 DEF Placed, Early, KeyAt
    <2> QED BY <1>1, <2>3, <2>4, Still
  <1> QED BY <1>5, <1>6, <1>7, <1>8, <1>9
-----------------------------------------------------------------------------
\* A search finds what is there.
LEMMA Searched ==
  ASSUME Typed, NEW t \in Threads
  PROVE  /\ Found(t, Newest) = {} => ~Listed(t)
         /\ \A k \in Found(t, Newest) :
              k \in 1 .. Newest /\ \E i : KeyAt(t, k, i) /\ ValueIn(k, t) = tables[k][i].value
  <1>1. ASSUME NEW k \in Found(t, Newest), NEW i, i = (CHOOSE j \in Holds(k, t) : TRUE)
        PROVE  k \in 1 .. Newest /\ KeyAt(t, k, i) /\ ValueIn(k, t) = tables[k][i].value
    <2>1. k \in 1 .. Newest /\ Holds(k, t) /= {}
      BY DEF Found
    <2>2. i \in Holds(k, t)
      BY <1>1, <2>1
    <2> QED BY <1>1, <2>1, <2>2 DEF Holds, KeyAt, ValueIn
  <1>2. ASSUME NEW k, NEW i, KeyAt(t, k, i) PROVE k \in Found(t, Newest)
    BY <1>2 DEF KeyAt, Found, Holds
  <1> QED BY <1>1, <1>2 DEF Listed

LEMMA StepSearch ==
  ASSUME IInv, NEW t \in Threads, Search(t) PROVE IInv'
  <1>0. Typed /\ Placed(t) /\ Newest \in Nat \ {0} /\ th[t].at = "idle"
    BY LenProperties DEF IInv, Typed, Newest, Search
  <1>1. UNCHANGED <<tables, inactive, mine>> /\ usedCount' \in Int
    BY <1>0 DEF Search, Typed
  <1>2. Newest' = Newest /\ \A u : Listed(u)' <=> Listed(u)
    BY <1>1 DEF Newest, Listed, KeyAt
  <1>3. CASE Found(t, Newest) = {} /\ th' = [th EXCEPT ![t] = [Idle EXCEPT !.at = "count", !.main = Newest]]
    <2>1. PICK r : r = [Idle EXCEPT !.at = "count", !.main = Newest]
      OBVIOUS
    <2>2. Idle \in Local /\ "count" \in Places
      BY DEF Idle, Local, Places, Early
    <2>3. r \in Local /\ r.at = "count" /\ r.main = Newest
      BY <1>0, <2>1, <2>2, Locals DEF Local
    <2>4. Others(t) /\ th' \in [Threads -> Local] /\ th'[t] = r
      BY <1>0, <1>3, <2>1, <2>3, Moved
    <2>5. mine[t] = 0
      BY <1>0, <1>3, Searched DEF Placed
    <2>6. Placed(t)'
      BY <1>0, <1>1, <1>2, <2>3, <2>4, <2>5 DEF Placed, Early
    <2> QED BY <1>1, <2>4, <2>6, Still
  <1>4. ASSUME NEW k \in Found(t, Newest), th' = [th EXCEPT ![t] = Probing(t, "readd", Newest, ValueIn(k, t))]
        PROVE  IInv'
    <2>1. PICK i : KeyAt(t, k, i) /\ ValueIn(k, t) = tables[k][i].value
      BY <1>0, Searched
    <2>2. ValueIn(k, t) = mine[t] /\ mine[t] \in Nat \ {0}
      BY <1>0, <2>1 DEF IInv, Keys, Typed
    <2>3. PICK r : r = Probing(t, "readd", Newest, ValueIn(k, t))
      OBVIOUS
    <2>4. "readd" \in Places /\ Newest \in 1 .. Newest
      BY <1>0 DEF Places
    <2>5. r \in Local /\ r.at = "readd" /\ r.main = Newest /\ r.p = mine[t] /\ r.i \in DOMAIN tables[Newest]
      BY <1>0, <2>2, <2>3, <2>4, Probes
    <2>6. Others(t) /\ th' \in [Threads -> Local] /\ th'[t] = r
      BY <1>0, <1>4, <2>3, <2>5, Moved
    <2>7. Listed(t)
      BY <2>1 DEF Listed
    <2>8. Placed(t)'
      BY <1>0, <1>1, <1>2, <2>2, <2>4, <2>5, <2>6, <2>7 DEF Placed, Early
    <2> QED BY <1>1, <2>6, <2>8, Still
  <1> QED BY <1>3, <1>4 DEF Search

-----------------------------------------------------------------------------
\* The others keep their places when their keys stay where they are.
LEMMA Elsewhere ==
  ASSUME NEW t \in Threads, Others(t), Newest \in Nat, Newest' \in Nat, Newest <= Newest',
         \A k \in 1 .. Newest : DOMAIN tables'[k] = DOMAIN tables[k],
         NEW u \in Threads \ {t}, Placed(u), mine'[u] = mine[u], th[u] \in Local,
         Len(inactive) \in Nat, Len(inactive)' \in Nat, Len(inactive) <= Len(inactive)',
         \A k, i : KeyAt(u, k, i)' <=> KeyAt(u, k, i)
  PROVE  Placed(u)'
  <1>1. th'[u] = th[u]
    BY DEF Others
  <1>2. Listed(u) => Listed(u)'
    BY DEF Listed
  <1>3. th[u].main \in Nat /\ th[u].p \in Nat
    BY DEF Local
  <1>4. (th[u].at \in Early \cup {"insert", "readd"} => th[u].main \in 1 .. Newest)'
    BY <1>1, <1>3 DEF Placed
  <1>5. (th[u].at \in {"insert", "readd"} =>
           th[u].i \in DOMAIN tables[th[u].main] /\ th[u].p = mine[u] /\ mine[u] /= 0)'
    BY <1>1 DEF Placed
  <1>6. (th[u].at = "recycle" => th[u].p <= Len(inactive))'
    BY <1>1, <1>3 DEF Placed
  <1>7. (th[u].at = "exit" => /\ mine[u] /= 0 /\ th[u].main <= Newest
                              /\ \A k, i : KeyAt(u, k, i) => k <= th[u].main)'
    BY <1>1, <1>3 DEF Placed
  <1> QED BY <1>1, <1>2, <1>4, <1>5, <1>6, <1>7 DEF Placed

\* A slot of nobody becomes t's.
LEMMA Occupied ==
  ASSUME Typed, NEW t \in Threads, NEW m, NEW j, m = th[t].main, j = th[t].i,
         m \in 1 .. Newest, j \in DOMAIN tables[m], tables[m][j].key \notin Threads, Occupy(t)
  PROVE  /\ tables' \in Seq(Table) /\ Newest' = Newest
         /\ \A k \in 1 .. Newest : DOMAIN tables'[k] = DOMAIN tables[k]
         /\ tables'[m][j].key = t /\ tables'[m][j].value = th[t].p
         /\ \A k \in 1 .. Newest : \A i \in DOMAIN tables[k] : k /= m \/ i /= j => tables'[k][i] = tables[k][i]
  <1>1. tables[m] \in Table
    BY ElementOfSeq DEF Typed, Newest
  <1>2. PICK c \in Nat \ {0} : tables[m] \in [0 .. c - 1 -> Slot]
    BY <1>1 DEF Table
  <1>3. th[t].p \in Nat
    BY DEF Typed, Local
  <1>4. PICK s : s = [key |-> t, value |-> th[t].p]
    OBVIOUS
  <1>5. s \in Slot /\ s.key = t /\ s.value = th[t].p
    BY <1>3, <1>4 DEF Slot
  <1>6. PICK T : T = [tables[m] EXCEPT ![j] = s]
    OBVIOUS
  <1>7. /\ T \in [0 .. c - 1 -> Slot] /\ DOMAIN T = DOMAIN tables[m] /\ T[j] = s
        /\ \A i \in DOMAIN tables[m] : i /= j => T[i] = tables[m][i]
    BY <1>2, <1>5, <1>6
  <1>8. T \in Table
    BY <1>7 DEF Table
  <1>9. tables \in Seq(Table) /\ Newest = Len(tables)
    BY DEF Typed, Newest
  <1>10. tables' = [tables EXCEPT ![m] = T]
    BY <1>4, <1>6, <1>9, LenProperties DEF Occupy
  <1>11. /\ tables' \in Seq(Table) /\ Len(tables') = Len(tables)
         /\ \A k \in 1 .. Newest : tables'[k] = IF k = m THEN T ELSE tables[k]
    BY <1>8, <1>9, <1>10, ExceptSeq
  <1> QED BY <1>5, <1>7, <1>9, <1>11 DEF Newest

\* Once t has entered a table it is found there.
LEMMA Entered ==
  ASSUME IInv, NEW t \in Threads, NEW r \in Local, r.at \in {"idle", "uncount"},
         th[t].at \in {"readd", "insert"}, SlotOf(t).key \notin Threads, Occupy(t),
         th' = [th EXCEPT ![t] = r], UNCHANGED <<usedCount, inactive, mine>>
  PROVE  IInv'
  <1>1. PICK m, j : m = th[t].main /\ j = th[t].i
    OBVIOUS
  <1>2. /\ Typed /\ m \in 1 .. Newest /\ j \in DOMAIN tables[m]
        /\ th[t].p = mine[t] /\ mine[t] /= 0 /\ tables[m][j].key \notin Threads
    BY <1>1 DEF IInv, Placed, SlotOf
  <1>3. Newest \in Nat \ {0}
    BY <1>2, LenProperties DEF Typed, Newest
  <1>4. /\ tables' \in Seq(Table) /\ Newest' = Newest
        /\ \A k \in 1 .. Newest : DOMAIN tables'[k] = DOMAIN tables[k]
        /\ tables'[m][j].key = t /\ tables'[m][j].value = mine[t]
        /\ \A k \in 1 .. Newest : \A i \in DOMAIN tables[k] : k /= m \/ i /= j => tables'[k][i] = tables[k][i]
    BY <1>1, <1>2, Occupied
  <1>5. Others(t) /\ th' \in [Threads -> Local] /\ th'[t] = r
    BY <1>2, Moved
  <1>6. Typed'
    BY <1>2, <1>4, <1>5 DEF Typed
  <1>7. ASSUME NEW u \in Threads \ {t}, NEW k, NEW i PROVE KeyAt(u, k, i)' <=> KeyAt(u, k, i)
    <2>1. CASE k = m /\ i = j
      BY <1>2, <1>4, <1>7, <2>1 DEF KeyAt
    <2>2. CASE k /= m \/ i /= j
      BY <1>4, <2>2 DEF KeyAt
    <2> QED BY <2>1, <2>2
  <1>8. KeyAt(t, m, j)'
    BY <1>2, <1>4 DEF KeyAt
  <1>9. \A u \in Threads \ {t} : Placed(u)'
    <2>1. Len(inactive) \in Nat /\ Len(inactive)' = Len(inactive)
      BY <1>2, LenProperties DEF Typed
    <2> QED BY <1>2, <1>3, <1>4, <1>5, <1>7, <2>1, Elsewhere DEF IInv, Typed
  <1>10. Placed(t)'
    BY <1>5, <1>8 DEF Placed, Early, Listed
  <1>11. Keys'
    <2>1. ASSUME NEW u \in Threads, NEW k, NEW i, KeyAt(u, k, i)'
          PROVE  mine'[u] /= 0 /\ tables'[k][i].value = mine'[u]
      <3>1. CASE k = m /\ i = j
        BY <1>2, <1>4, <2>1, <3>1 DEF KeyAt
      <3>2. CASE k /= m \/ i /= j
        <4>1. KeyAt(u, k, i) /\ tables'[k][i] = tables[k][i]
          BY <1>4, <2>1, <3>2 DEF KeyAt
        <4> QED BY <4>1 DEF IInv, Keys
      <3> QED BY <3>1, <3>2
    <2> QED BY <2>1 DEF Keys
  <1>12. ProducersApart' /\ Known'
    BY DEF IInv, ProducersApart, Known
  <1> QED BY <1>6, <1>9, <1>10, <1>11, <1>12 DEF IInv

LEMMA StepEnter ==
  ASSUME IInv, NEW t \in Threads, Readd(t) \/ Insert(t) PROVE IInv'
  <1>0. /\ Typed /\ Placed(t) /\ th[t].at \in {"readd", "insert"}
        /\ UNCHANGED <<usedCount, inactive, mine>> /\ usedCount' \in Int
    BY DEF IInv, Typed, Readd, Insert
  <1>1. CASE ProbeOn(t) /\ UNCHANGED tables
    <2>1. /\ Others(t) /\ th' \in [Threads -> Local]
          /\ th'[t].at = th[t].at /\ th'[t].main = th[t].main /\ th'[t].p = th[t].p
          /\ th'[t].i \in DOMAIN tables[th[t].main]
      BY <1>0, <1>1, ProbesOn DEF Placed
    <2>2. Newest' = Newest /\ (Listed(t)' <=> Listed(t))
      BY <1>1 DEF Newest, Listed, KeyAt
    <2>3. Placed(t)'
      BY <1>0, <1>1, <2>1, <2>2 DEF Placed, Early
    <2> QED BY <1>0, <1>1, <2>1, <2>3, Still
  <1>2. CASE /\ SlotOf(t).key \in {"empty", "reusable"} /\ Occupy(t)
             /\ \E r \in Local : r.at \in {"idle", "uncount"} /\ th' = [th EXCEPT ![t] = r]
    BY <1>0, <1>2, IdsAssumption, Entered
  <1>3. Idle \in Local /\ [Idle EXCEPT !.at = "uncount"] \in Local
    <2>1. Idle \in Local /\ "uncount" \in Places
      BY DEF Idle, Local, Places
    <2>2. 0 \in Nat /\ 0 \in Int
      OBVIOUS
    <2>3. \A r \in Local : [r EXCEPT !.at = "uncount"] \in Local
      BY <2>1, <2>2, Locals
    <2> QED BY <2>1, <2>3
  <1>4. Idle.at = "idle" /\ [Idle EXCEPT !.at = "uncount"].at = "uncount"
    BY <1>3 DEF Idle
  <1>5. SlotOf(t).key \in {"empty", "reusable"} /\ Occupy(t)
          => \E r \in Local : r.at \in {"idle", "uncount"} /\ th' = [th EXCEPT ![t] = r]
    <2> SUFFICES ASSUME SlotOf(t).key \in {"empty", "reusable"}
                 PROVE  \E r \in Local : r.at \in {"idle", "uncount"} /\ th' = [th EXCEPT ![t] = r]
      OBVIOUS
    <2>1. th' = [th EXCEPT ![t] = Idle] \/ th' = [th EXCEPT ![t] = [Idle EXCEPT !.at = "uncount"]]
      BY IdsAssumption DEF Readd, Insert, Finish, Empty, Reusable
    <2> QED BY <1>3, <1>4, <2>1
  <1>6. \/ SlotOf(t).key \in {"empty", "reusable"} /\ Occupy(t)
        \/ ProbeOn(t) /\ UNCHANGED tables
    BY DEF Readd, Insert, Empty, Reusable
  <1> QED BY <1>1, <1>2, <1>5, <1>6
-----------------------------------------------------------------------------
\* A larger table in front has nobody's key.
LEMMA StepResize ==
  ASSUME IInv, NEW t \in Threads, Resize(t) PROVE IInv'
  <1>0. /\ Typed /\ Placed(t) /\ th[t].at = "resize" /\ mine[t] = 0
        /\ Newest = Len(tables) /\ Newest \in Nat \ {0} /\ Len(inactive) \in Nat
    BY LenProperties DEF IInv, Typed, Newest, Resize, Placed, Early
  <1>1. UNCHANGED <<usedCount, inactive, mine>>
    BY DEF Resize
  <1>2. PICK m \in Nat : /\ m = Newest + (IF HalfFull(t, Newest) THEN 1 ELSE 0)
                         /\ m = IF HalfFull(t, Newest) THEN Newest + 1 ELSE Newest
    BY <1>0
  <1>3. PICK r : r = [th[t] EXCEPT !.at = "unlock", !.main = m]
    OBVIOUS
  <1>4. th[t] \in Local /\ "unlock" \in Places
    BY <1>0 DEF Typed, Places, Early
  <1>5. r \in Local /\ r.at = "unlock" /\ r.main = m
    <2>1. 0 \in Int /\ 0 \in Nat
      OBVIOUS
    <2>2. r \in Local
      BY <1>3, <1>4, <2>1, Locals
    <2> QED BY <1>3, <1>4, <2>2 DEF Local
  <1>6. th' = [th EXCEPT ![t] = r]
    BY <1>2, <1>3 DEF Resize
  <1>7. Others(t) /\ th' \in [Threads -> Local] /\ th'[t] = r
    BY <1>0, <1>5, <1>6, Moved
  <1>8. CASE ~HalfFull(t, Newest)
    <2>1. UNCHANGED tables /\ m = Newest
      BY <1>2, <1>8 DEF Resize
    <2>2. Newest' = Newest
      BY <2>1 DEF Newest
    <2>3. Placed(t)'
      BY <1>0, <1>1, <1>5, <1>7, <2>1, <2>2 DEF Placed, Early
    <2>4. usedCount' \in Int
      BY <1>0, <1>1 DEF Typed
    <2> QED BY <1>1, <1>7, <2>1, <2>3, <2>4, Still
  <1>9. CASE HalfFull(t, Newest)
    <2>1. PICK cap \in Doubled(Cap(Newest), th[t].n) : tables' = Append(tables, [i \in 0 .. cap - 1 |-> Empty])
      BY <1>9 DEF Resize
    <2>2. cap \in Nat \ {0}
      BY <1>4 DEF Doubled, Local
    <2>3. PICK T : T = [i \in 0 .. cap - 1 |-> Empty]
      OBVIOUS
    <2>4. T \in Table /\ \A i \in DOMAIN T : T[i].key \notin Threads
      BY <2>2, <2>3, EmptyTable, IdsAssumption DEF Empty
    <2>5. /\ tables' \in Seq(Table) /\ Newest' = Newest + 1
          /\ \A k \in 1 .. Newest : tables'[k] = tables[k]
          /\ tables'[Newest + 1] = T
      <3>1. tables \in Seq(Table) /\ tables' = Append(tables, T)
        BY <1>0, <2>1, <2>3 DEF Typed
      <3>2. /\ Append(tables, T) \in Seq(Table) /\ Len(Append(tables, T)) = Len(tables) + 1
            /\ \A k \in 1 .. Len(tables) : Append(tables, T)[k] = tables[k]
            /\ Append(tables, T)[Len(tables) + 1] = T
        BY <2>4, <3>1, AppendProperties
      <3> QED BY <1>0, <3>1, <3>2 DEF Newest
    <2>6. ASSUME NEW u \in Threads, NEW k, NEW i PROVE KeyAt(u, k, i)' <=> KeyAt(u, k, i)
      <3>1. CASE k \in 1 .. Newest
        BY <1>0, <2>5, <3>1 DEF KeyAt
      <3>2. CASE k = Newest + 1
        BY <1>0, <2>4, <2>5, <3>2 DEF KeyAt
      <3> QED BY <1>0, <2>5, <3>1, <3>2 DEF KeyAt
    <2>7. Typed'
      BY <1>0, <1>1, <1>7, <2>5 DEF Typed
    <2>8. ASSUME NEW u \in Threads \ {t} PROVE Placed(u)'
      <3>1. Placed(u) /\ th[u] \in Local /\ mine'[u] = mine[u] /\ Len(inactive)' = Len(inactive)
        BY <1>0, <1>1 DEF IInv, Typed
      <3>2. \A k \in 1 .. Newest : DOMAIN tables'[k] = DOMAIN tables[k]
        BY <2>5
      <3>3. Newest' \in Nat /\ Newest <= Newest'
        BY <1>0, <2>5
      <3> QED BY <1>0, <1>7, <2>6, <3>1, <3>2, <3>3, Elsewhere
    <2>9. Placed(t)'
      <3>1. r.main \in 1 .. Newest'
        BY <1>0, <1>2, <1>5, <1>9, <2>5
      <3> QED BY <1>0, <1>1, <1>5, <1>7, <3>1 DEF Placed, Early
    <2>10. Keys'
      <3>1. ASSUME NEW u \in Threads, NEW k, NEW i, KeyAt(u, k, i)
            PROVE  mine'[u] /= 0 /\ tables'[k][i].value = mine'[u]
        BY <1>1, <2>5, <3>1 DEF IInv, Keys, KeyAt
      <3> QED BY <2>6, <3>1 DEF Keys
    <2>11. ProducersApart' /\ Known'
      BY <1>1 DEF IInv, ProducersApart, Known
    <2> QED BY <2>7, <2>8, <2>9, <2>10, <2>11 DEF IInv
  <1> QED BY <1>8, <1>9

-----------------------------------------------------------------------------
\* A thread without a producer gets p, which no thread has.
LEMMA Gets ==
  ASSUME IInv, NEW t \in Threads, mine[t] = 0, NEW p \in Nat \ {0}, \A u \in Threads : mine[u] /= p,
         th[t].main \in 1 .. Newest, th' = [th EXCEPT ![t] = Probing(t, "insert", th[t].main, p)],
         mine' = [mine EXCEPT ![t] = p], UNCHANGED <<tables, usedCount>>,
         inactive' \in Seq(BOOLEAN), Len(inactive) <= Len(inactive'), p <= Len(inactive'),
         \A q \in 1 .. Len(inactive') : inactive'[q] <=> q /= p /\ q \in DOMAIN inactive /\ inactive[q],
         \A q \in 1 .. Len(inactive') : q /= p => q \in DOMAIN inactive
  PROVE  IInv'
  <1>0. Typed /\ Newest \in Nat \ {0} /\ Len(inactive) \in Nat /\ Len(inactive') \in Nat
    BY LenProperties DEF IInv, Typed, Newest
  <1>1. PICK r : r = Probing(t, "insert", th[t].main, p)
    OBVIOUS
  <1>2. r \in Local /\ r.at = "insert" /\ r.main = th[t].main /\ r.p = p /\ r.i \in DOMAIN tables[th[t].main]
    BY <1>0, <1>1, Probes DEF Places
  <1>3. Others(t) /\ th' \in [Threads -> Local] /\ th'[t] = r
    BY <1>0, <1>1, <1>2, Moved
  <1>4. mine' \in [Threads -> Nat] /\ mine'[t] = p /\ \A u \in Threads \ {t} : mine'[u] = mine[u]
    BY <1>0 DEF Typed
  <1>5. Newest' = Newest /\ \A u, k, i : KeyAt(u, k, i)' <=> KeyAt(u, k, i)
    BY DEF Newest, KeyAt
  <1>6. Typed'
    BY <1>0, <1>3, <1>4, <1>5 DEF Typed
  <1>7. \A u \in Threads \ {t} : Placed(u)'
    BY <1>0, <1>3, <1>4, <1>5, Elsewhere DEF IInv, Typed
  <1>8. Placed(t)'
    BY <1>2, <1>3, <1>4, <1>5 DEF Placed, Early
  <1>9. Keys'
    <2>1. \A k, i : ~KeyAt(t, k, i)
      BY DEF IInv, Keys
    <2>2. ASSUME NEW u \in Threads, NEW k, NEW i, KeyAt(u, k, i)
          PROVE  mine'[u] /= 0 /\ tables'[k][i].value = mine'[u]
      BY <1>4, <2>1, <2>2 DEF IInv, Keys
    <2> QED BY <1>5, <2>2 DEF Keys
  <1>10. Known'
    <2>1. \A u \in Threads : mine[u] \in Nat /\ mine[u] <= Len(inactive)
      BY <1>0 DEF IInv, Known, Typed
    <2>2. \A u \in Threads : mine'[u] <= Len(inactive')
      BY <1>0, <1>4, <2>1
    <2> QED BY <2>2 DEF Known
  <1>11. ProducersApart'
    <2>1. \A u, v \in Threads : u /= v /\ mine'[u] = mine'[v] => mine'[u] = 0
      BY <1>4 DEF IInv, ProducersApart
    <2>2. DOMAIN inactive' = 1 .. Len(inactive') /\ DOMAIN inactive = 1 .. Len(inactive)
      BY <1>0, LenProperties DEF Typed
    <2>3. ASSUME NEW q \in DOMAIN inactive' PROVE inactive'[q] <=> \A u \in Threads : mine'[u] /= q
      <3>1. CASE q = p
        BY <1>4, <2>2, <3>1
      <3>2. CASE q /= p
        <4>1. q \in DOMAIN inactive /\ q /= 0 /\ (inactive'[q] <=> inactive[q])
          BY <2>2, <3>2, <2>3
        <4>2. inactive[q] <=> \A u \in Threads : mine[u] /= q
          BY <4>1 DEF IInv, ProducersApart
        <4> QED BY <1>4, <3>2, <4>1, <4>2
      <3> QED BY <3>1, <3>2
    <2> QED BY <2>1, <2>3 DEF ProducersApart
  <1> QED BY <1>6, <1>7, <1>8, <1>9, <1>10, <1>11 DEF IInv

LEMMA StepRecycle ==
  ASSUME IInv, NEW t \in Threads, Recycle(t) PROVE IInv'
  <1>0. /\ Typed /\ Placed(t) /\ th[t].at = "recycle" /\ mine[t] = 0 /\ th[t].main \in 1 .. Newest
        /\ th[t].p \in Nat \ {0} /\ th[t].p \in 1 .. Len(inactive) /\ th[t] \in Local
        /\ Len(inactive) \in Nat /\ Newest \in Nat
    BY LenProperties DEF IInv, Typed, Newest, Recycle, Placed, Early, Local
  <1>1. DOMAIN inactive = 1 .. Len(inactive) /\ \A q \in 1 .. Len(inactive) : inactive[q] \in BOOLEAN
    BY <1>0, LenProperties DEF Typed
  <1>2. CASE inactive[th[t].p]
    <2>1. PICK p : p = th[t].p
      OBVIOUS
    <2>2. /\ inactive' = [inactive EXCEPT ![p] = FALSE] /\ mine' = [mine EXCEPT ![t] = p]
          /\ th' = [th EXCEPT ![t] = Probing(t, "insert", th[t].main, p)]
          /\ UNCHANGED <<tables, usedCount>>
      BY <1>2, <2>1 DEF Recycle
    <2>3. \A u \in Threads : mine[u] /= p
      BY <1>0, <1>1, <1>2, <2>1 DEF IInv, ProducersApart
    <2>4. /\ inactive' \in Seq(BOOLEAN) /\ Len(inactive') = Len(inactive) /\ inactive'[p] = FALSE
          /\ \A q \in 1 .. Len(inactive) : q /= p => inactive'[q] = inactive[q]
      <3>1. inactive \in Seq(BOOLEAN) /\ p \in 1 .. Len(inactive)
        BY <1>0, <2>1 DEF Typed
      <3>2. inactive' = [inactive EXCEPT ![p] = FALSE]
        BY <2>2
      <3> QED BY <3>1, <3>2, ExceptSeq
    <2>5. ASSUME NEW q \in 1 .. Len(inactive)
          PROVE  inactive'[q] <=> q /= p /\ q \in DOMAIN inactive /\ inactive[q]
      <3>1. CASE q = p
        BY <2>4, <3>1
      <3>2. CASE q /= p
        BY <1>1, <2>4, <3>2
      <3> QED BY <3>1, <3>2
    <2>6. p \in Nat \ {0} /\ p <= Len(inactive') /\ Len(inactive) <= Len(inactive')
      BY <1>0, <2>1, <2>4
    <2> QED BY <1>0, <1>1, <2>2, <2>3, <2>4, <2>5, <2>6, Gets
  <1>3. CASE ~inactive[th[t].p]
    <2>1. th' = [th EXCEPT ![t].p = @ - 1] /\ UNCHANGED <<tables, inactive, mine, usedCount>>
      BY <1>3 DEF Recycle
    <2>2. PICK p \in Nat : p = th[t].p - 1 /\ p <= Len(inactive)
      BY <1>0
    <2>3. PICK r : r = [th[t] EXCEPT !.p = p]
      OBVIOUS
    <2>4. r \in Local /\ r.at = "recycle" /\ r.main = th[t].main /\ r.p = p
      BY <1>0, <2>2, <2>3 DEF Local
    <2>5. th' = [th EXCEPT ![t] = r]
      BY <2>1, <2>2, <2>3
    <2>6. Others(t) /\ th' \in [Threads -> Local] /\ th'[t] = r
      BY <1>0, <2>4, <2>5, Moved
    <2>7. Newest' = Newest /\ usedCount' \in Int
      BY <1>0, <2>1 DEF Newest, Typed
    <2>8. Placed(t)'
      BY <1>0, <2>1, <2>2, <2>4, <2>6, <2>7 DEF Placed, Early
    <2> QED BY <2>1, <2>6, <2>7, <2>8, Still
  <1> QED BY <1>2, <1>3

LEMMA StepCreate ==
  ASSUME IInv, NEW t \in Threads, Create(t) PROVE IInv'
  <1>0. /\ Typed /\ mine[t] = 0 /\ th[t].main \in 1 .. Newest /\ Len(inactive) \in Nat
        /\ inactive \in Seq(BOOLEAN) /\ DOMAIN inactive = 1 .. Len(inactive)
    BY LenProperties DEF IInv, Typed, Create, Placed, Early
  <1>1. PICK p : p = Len(inactive) + 1
    OBVIOUS
  <1>2. /\ inactive' = Append(inactive, FALSE) /\ UNCHANGED <<tables, usedCount>>
        /\ mine' = [mine EXCEPT ![t] = Len(inactive')]
        /\ th' = [th EXCEPT ![t] = Probing(t, "insert", th[t].main, Len(inactive'))]
    BY DEF Create
  <1>3. /\ inactive' \in Seq(BOOLEAN) /\ Len(inactive') = p /\ p \in Nat \ {0}
        /\ \A q \in 1 .. Len(inactive) : inactive'[q] = inactive[q]
        /\ inactive'[p] = FALSE
    BY <1>0, <1>1, <1>2, AppendProperties
  <1>4. \A u \in Threads : mine[u] /= p
    <2>1. \A u \in Threads : mine[u] \in Nat /\ mine[u] <= Len(inactive)
      BY <1>0 DEF IInv, Known, Typed
    <2> QED BY <1>0, <1>1, <2>1
  <1>5. \A q \in 1 .. p : q /= p => q \in 1 .. Len(inactive)
    BY <1>0, <1>1
  <1>6. \A q \in 1 .. p : inactive'[q] <=> q /= p /\ q \in DOMAIN inactive /\ inactive[q]
    BY <1>0, <1>3, <1>5
  <1>7. p <= Len(inactive') /\ Len(inactive) <= Len(inactive')
    BY <1>0, <1>1, <1>3
  <1>8. \A q \in 1 .. Len(inactive') : q /= p => q \in DOMAIN inactive
    BY <1>0, <1>3, <1>5
  <1>9. /\ mine' = [mine EXCEPT ![t] = p]
        /\ th' = [th EXCEPT ![t] = Probing(t, "insert", th[t].main, p)]
    BY <1>2, <1>3
  <1> QED BY <1>0, <1>2, <1>3, <1>4, <1>6, <1>7, <1>8, <1>9, Gets

-----------------------------------------------------------------------------
\* A thread that exits loses its key in one table.
LEMMA StepExitClear ==
  ASSUME IInv, NEW t \in Threads, ExitClear(t) PROVE IInv'
  <1>0. /\ Typed /\ Placed(t) /\ th[t].at = "exit" /\ Newest = Len(tables) /\ Newest \in Nat \ {0}
        /\ Len(inactive) \in Nat /\ th[t] \in Local /\ mine[t] /= 0
    BY LenProperties DEF IInv, Typed, Newest, ExitClear, Placed
  <1>1. UNCHANGED <<usedCount, inactive, mine>>
    BY DEF ExitClear
  <1>2. PICK m : m = th[t].main
    OBVIOUS
  <1>3. m \in 1 .. Newest /\ m - 1 \in Nat
    BY <1>0, <1>2 DEF Placed, ExitClear, Local
  <1>4. tables[m] \in Table
    BY <1>0, <1>3, ElementOfSeq DEF Typed
  <1>5. PICK c \in Nat \ {0} : tables[m] \in [0 .. c - 1 -> Slot]
    BY <1>4 DEF Table
  <1>6. PICK T : T = [i \in DOMAIN tables[m] |->
                        IF tables[m][i].key = t THEN [tables[m][i] EXCEPT !.key = Reusable] ELSE tables[m][i]]
    OBVIOUS
  <1>7. \A s \in Slot : [s EXCEPT !.key = Reusable] \in Slot /\ [s EXCEPT !.key = Reusable].key = Reusable
    BY DEF Slot, Reusable
  <1>8. /\ T \in [0 .. c - 1 -> Slot] /\ DOMAIN T = DOMAIN tables[m]
        /\ \A i \in DOMAIN T : IF tables[m][i].key = t THEN T[i].key = Reusable ELSE T[i] = tables[m][i]
    BY <1>5, <1>6, <1>7
  <1>9. T \in Table
    BY <1>8 DEF Table
  <1>10. tables' = [tables EXCEPT ![m] = T]
    BY <1>0, <1>2, <1>3, <1>6, LenProperties DEF ExitClear, Typed
  <1>11. /\ tables' \in Seq(Table) /\ Newest' = Newest
         /\ \A k \in 1 .. Newest : tables'[k] = IF k = m THEN T ELSE tables[k]
    BY <1>0, <1>3, <1>9, <1>10, ExceptSeq DEF Typed, Newest
  <1>12. \A k \in 1 .. Newest : DOMAIN tables'[k] = DOMAIN tables[k]
    BY <1>8, <1>11
  <1>13. ASSUME NEW u \in Threads, NEW k, NEW i
         PROVE  /\ KeyAt(u, k, i)' <=> KeyAt(u, k, i) /\ (u /= t \/ k /= m)
                /\ KeyAt(u, k, i)' => tables'[k][i] = tables[k][i]
    <2>1. Reusable \notin Threads
      BY IdsAssumption DEF Reusable
    <2>2. CASE k \in 1 .. Newest /\ k /= m
      BY <1>11, <2>2 DEF KeyAt
    <2>3. CASE k = m /\ i \in DOMAIN tables[m]
      BY <1>3, <1>8, <1>11, <2>1, <2>3 DEF KeyAt
    <2>4. CASE k \notin 1 .. Newest \/ i \notin DOMAIN tables[k]
      BY <1>11, <1>12, <2>4 DEF KeyAt
    <2> QED BY <2>2, <2>3, <2>4
  <1>14. th' = [th EXCEPT ![t].main = @ - 1]
    BY DEF ExitClear
  <1>15. PICK r : r = [th[t] EXCEPT !.main = m - 1]
    OBVIOUS
  <1>16. r \in Local /\ r.at = "exit" /\ r.main = m - 1 /\ th' = [th EXCEPT ![t] = r]
    <2>1. r \in Local /\ r.at = "exit" /\ r.main = m - 1
      BY <1>0, <1>3, <1>15 DEF Local
    <2> QED BY <1>2, <1>14, <1>15, <2>1
  <1>17. Others(t) /\ th' \in [Threads -> Local] /\ th'[t] = r
    BY <1>0, <1>16, Moved
  <1>18. Typed'
    BY <1>0, <1>1, <1>11, <1>17 DEF Typed
  <1>19. ASSUME NEW u \in Threads \ {t} PROVE Placed(u)'
    <2>1. Placed(u) /\ th[u] \in Local /\ mine'[u] = mine[u] /\ Len(inactive)' = Len(inactive)
      BY <1>0, <1>1 DEF IInv, Typed
    <2>2. \A k, i : KeyAt(u, k, i)' <=> KeyAt(u, k, i)
      BY <1>13
    <2> QED BY <1>0, <1>11, <1>12, <1>17, <2>1, <2>2, Elsewhere
  <1>20. Placed(t)'
    <2>1. ASSUME NEW k, NEW i, KeyAt(t, k, i)' PROVE k <= m - 1
      <3>1. KeyAt(t, k, i) /\ k /= m
        BY <1>13, <2>1
      <3>2. k \in Nat /\ k <= m
        BY <1>0, <1>2, <3>1 DEF Placed, KeyAt
      <3> QED BY <1>3, <3>1, <3>2
    <2>2. m - 1 <= Newest'
      BY <1>0, <1>3, <1>11
    <2> QED BY <1>0, <1>1, <1>16, <1>17, <2>1, <2>2 DEF Placed, Early
  <1>21. Keys'
    BY <1>1, <1>13 DEF IInv, Keys
  <1>22. ProducersApart' /\ Known'
    BY <1>1 DEF IInv, ProducersApart, Known
  <1> QED BY <1>18, <1>19, <1>20, <1>21, <1>22 DEF IInv

\* Nobody finds its producer any more when it gives it up.
LEMMA StepExitRetire ==
  ASSUME IInv, NEW t \in Threads, ExitRetire(t) PROVE IInv'
  <1>0. /\ Typed /\ Placed(t) /\ th[t].at = "exit" /\ th[t].main = 0 /\ Newest \in Nat \ {0}
        /\ Len(inactive) \in Nat /\ DOMAIN inactive = 1 .. Len(inactive)
    BY LenProperties DEF IInv, Typed, Newest, ExitRetire
  <1>1. PICK p : p = mine[t]
    OBVIOUS
  <1>2. p \in 1 .. Len(inactive)
    BY <1>0, <1>1 DEF Placed, IInv, Known, Typed
  <1>3. /\ inactive' = [inactive EXCEPT ![p] = TRUE] /\ mine' = [mine EXCEPT ![t] = 0]
        /\ th' = [th EXCEPT ![t] = Idle] /\ UNCHANGED <<tables, usedCount>>
    BY <1>1 DEF ExitRetire, Finish
  <1>4. Idle \in Local /\ Idle.at = "idle"
    BY DEF Idle, Local, Places
  <1>5. Others(t) /\ th' \in [Threads -> Local] /\ th'[t] = Idle
    BY <1>0, <1>3, <1>4, Moved
  <1>6. /\ inactive' \in Seq(BOOLEAN) /\ Len(inactive') = Len(inactive)
        /\ \A q \in 1 .. Len(inactive) : inactive'[q] = IF q = p THEN TRUE ELSE inactive[q]
    BY <1>0, <1>2, <1>3, ExceptSeq DEF Typed
  <1>7. mine' \in [Threads -> Nat] /\ mine'[t] = 0 /\ \A u \in Threads \ {t} : mine'[u] = mine[u]
    BY <1>0, <1>3 DEF Typed
  <1>8. Newest' = Newest /\ \A u, k, i : KeyAt(u, k, i)' <=> KeyAt(u, k, i)
    BY <1>3 DEF Newest, KeyAt
  <1>9. Typed'
    BY <1>0, <1>3, <1>5, <1>6, <1>7, <1>8 DEF Typed
  <1>10. \A u \in Threads \ {t} : Placed(u)'
    BY <1>0, <1>3, <1>5, <1>6, <1>7, <1>8, Elsewhere DEF IInv, Typed
  <1>11. Placed(t)'
    BY <1>4, <1>5, <1>7 DEF Placed, Early
  <1>12. Keys'
    <2>1. \A k, i : ~KeyAt(t, k, i)
      BY <1>0 DEF Placed, KeyAt
    <2>2. ASSUME NEW u \in Threads, NEW k, NEW i, KeyAt(u, k, i)
          PROVE  mine'[u] /= 0 /\ tables'[k][i].value = mine'[u]
      BY <1>3, <1>7, <2>1, <2>2 DEF IInv, Keys
    <2> QED BY <1>8, <2>2 DEF Keys
  <1>13. Known'
    BY <1>0, <1>6, <1>7 DEF IInv, Known
  <1>14. ProducersApart'
    <2>1. \A u, v \in Threads : u /= v /\ mine'[u] = mine'[v] => mine'[u] = 0
      BY <1>7 DEF IInv, ProducersApart
    <2>2. DOMAIN inactive' = 1 .. Len(inactive)
      BY <1>6, LenProperties
    <2>3. ASSUME NEW q \in 1 .. Len(inactive) PROVE inactive'[q] <=> \A u \in Threads : mine'[u] /= q
      <3>1. inactive[q] <=> \A u \in Threads : mine[u] /= q
        BY <1>0 DEF IInv, ProducersApart
      <3>2. CASE q = p
        <4>1. \A u \in Threads : mine'[u] /= p
          BY <1>1, <1>2, <1>7 DEF IInv, ProducersApart
        <4> QED BY <1>6, <3>2, <4>1
      <3>3. CASE q /= p
        <4>1. inactive'[q] = inactive[q]
          BY <1>6, <3>3
        <4>2. (\A u \in Threads : mine'[u] /= q) <=> \A u \in Threads : mine[u] /= q
          BY <1>1, <1>7, <2>3, <3>3
        <4> QED BY <3>1, <4>1, <4>2
      <3> QED BY <3>2, <3>3
    <2> QED BY <2>1, <2>2, <2>3 DEF ProducersApart
  <1> QED BY <1>9, <1>10, <1>11, <1>12, <1>13, <1>14 DEF IInv

-----------------------------------------------------------------------------
\* The invariant holds in every behaviour.
LEMMA Invariant == Spec => []IInv
  <1>1. ASSUME IInv, [Next]_vars PROVE IInv'
    <2>1. CASE UNCHANGED vars
      BY <1>1, <2>1 DEF vars, IInv, Typed, Placed, Keys, ProducersApart, Known, Listed, KeyAt, Newest
    <2>2. CASE Next
      BY <1>1, <2>2, QuietSteps, StepSearch, StepEnter, StepResize, StepRecycle, StepCreate,
         StepExitClear, StepExitRetire DEF Next, Step
    <2> QED BY <1>1, <2>1, <2>2
  <1> QED BY InitInv, <1>1, PTL DEF Spec

\* OwnProducer always holds: get_or_add_implicit_producer leads a thread to one producer, its own, in
\* whatever table it looks, while tables grow, other threads exit and their ids come back.
THEOREM OwnOne == Spec => []OwnProducer
  <1>1. IInv => OwnProducer
    <2> SUFFICES ASSUME IInv, NEW t \in Threads
                 PROVE  /\ th[t].at \in Early => mine[t] = 0
                        /\ \A k \in DOMAIN tables : Holds(k, t) /= {} => mine[t] /= 0 /\ ValueIn(k, t) = mine[t]
                        /\ th[t].at = "idle" /\ mine[t] /= 0 => Found(t, Newest) /= {}
      BY DEF OwnProducer, Early
    <2>1. Typed /\ Placed(t) /\ DOMAIN tables = 1 .. Newest
      BY LenProperties DEF IInv, Typed, Newest
    <2>2. ASSUME NEW k \in 1 .. Newest, Holds(k, t) /= {} PROVE mine[t] /= 0 /\ ValueIn(k, t) = mine[t]
      <3>1. k \in Found(t, Newest)
        BY <2>2 DEF Found
      <3>2. PICK i : KeyAt(t, k, i) /\ ValueIn(k, t) = tables[k][i].value
        BY <2>1, <3>1, Searched
      <3> QED BY <3>2 DEF IInv, Keys
    <2>3. th[t].at = "idle" /\ mine[t] /= 0 => Found(t, Newest) /= {}
      BY <2>1, Searched DEF Placed
    <2>4. th[t].at \in Early => mine[t] = 0
      BY <2>1 DEF Placed
    <2> QED BY <2>1, <2>2, <2>3, <2>4
  <1> QED BY <1>1, Invariant, PTL

\* ProducersApart always holds: recycle_or_create_producer hands a producer to one thread at a time,
\* and one whose thread is gone can be recycled.
THEOREM Apart == Spec => []ProducersApart
  <1>1. IInv => ProducersApart
    BY DEF IInv
  <1> QED BY <1>1, Invariant, PTL
-----------------------------------------------------------------------------
(* Room in the tables, while no thread has exited *)

Waiting == {"grow", "resize", "unlock", "reload"}
Entering == {"recycle", "insert"}
Room(k) == Cap(k) \div 2 + Cap(k) \div 4

\* The threads the count stands for.
Counts(t) == th[t].at \in Waiting \cup Entering \/ Listed(t)
Counted == {t \in Threads : Counts(t)}

\* The threads with a slot in a table that has room for fewer than m, or on their way to one.
Fits(t, m) ==
  \/ th[t].at \in Waiting /\ th[t].n < m
  \/ th[t].at \in Entering /\ Room(th[t].main) <= m
  \/ \E k, i : KeyAt(t, k, i) /\ Room(k) <= m
Fitting(m) == {t \in Threads : Fits(t, m)}

\* No thread gives a slot back, and a thread enters a table once.
NoneGone ==
  /\ \A t \in Threads : th[t].at \notin {"exit", "uncount"}
  /\ \A k \in 1 .. Newest : \A i \in DOMAIN tables[k] : tables[k][i].key /= Reusable
Once(t) ==
  /\ \A k, i, j : KeyAt(t, k, i) /\ KeyAt(t, k, j) => i = j
  /\ th[t].at = "insert" => ~Listed(t)
  /\ th[t].at = "readd" => /\ \A i : ~KeyAt(t, th[t].main, i)
                           /\ \E k, i : k <= th[t].main /\ KeyAt(t, k, i)
Growing == \A j, k \in 1 .. Newest : j <= k => Cap(j) <= Cap(k)
Covers == Cardinality(Counted) <= usedCount
Shares == \A m \in Nat : Fitting(m) = {} \/ Cardinality(Fitting(m)) < m

Roomy == NoneGone /\ (\A t \in Threads : Once(t)) /\ Growing /\ Covers /\ Shares
RInv == exits \in Nat /\ (exits = 0 => Roomy)

LEMMA Finite ==
  /\ IsFiniteSet(Counted) /\ Cardinality(Counted) \in Nat
  /\ \A m \in Nat : IsFiniteSet(Fitting(m)) /\ Cardinality(Fitting(m)) \in Nat
  <1>1. Counted \subseteq Threads /\ \A m \in Nat : Fitting(m) \subseteq Threads
    BY DEF Counted, Fitting
  <1> QED BY <1>1, ThreadsAssumption, FS_Subset, FS_CardinalityType

\* A table that holds what it held has the room it had.
LEMMA Rooms ==
  ASSUME Typed, NEW k \in 1 .. Newest
  PROVE  /\ Room(k) \in Nat /\ Room(k) <= Cap(k)
         /\ DOMAIN tables'[k] = DOMAIN tables[k] => Room(k)' = Room(k) /\ Cap(k)' = Cap(k)
         /\ \A j \in 1 .. Newest : Cap(j) <= Cap(k) => Room(j) <= Room(k)
  <1>1. \A j \in 1 .. Newest : Cap(j) \in Nat \ {0}
    BY Domains
  <1>2. DOMAIN tables'[k] = DOMAIN tables[k] => Cap(k)' = Cap(k)
    BY DEF Cap
  <1> QED BY <1>1, <1>2 DEF Room

\* A thread that only t's step could have moved fits where it did.
LEMMA OthersFit ==
  ASSUME IInv, NEW t \in Threads, Others(t), NEW u \in Threads \ {t}, NEW m \in Nat,
         \A k \in 1 .. Newest : DOMAIN tables'[k] = DOMAIN tables[k],
         \A k, i : KeyAt(u, k, i)' <=> KeyAt(u, k, i)
  PROVE  (Fits(u, m)' => Fits(u, m)) /\ (Counts(u)' => Counts(u))
  <1>1. th'[u] = th[u] /\ Typed /\ Placed(u)
    BY DEF Others, IInv
  <1>2. \A k \in 1 .. Newest : Room(k)' = Room(k)
    BY <1>1, Rooms
  <1>3. th[u].at \in Entering => th[u].main \in 1 .. Newest
    BY <1>1 DEF Placed, Entering, Early
  <1>4. th[u].at \in Entering => Room(th[u].main)' = Room(th[u].main)
    <2>1. \A k \in 1 .. Newest : k = th[u].main => Room(th[u].main)' = Room(th[u].main)
      BY <1>1, <1>2 DEF Room, Cap
    <2> QED BY <1>3, <2>1
  <1>5. (\E k, i : KeyAt(u, k, i) /\ Room(k) <= m)' => \E k, i : KeyAt(u, k, i) /\ Room(k) <= m
    <2> SUFFICES ASSUME NEW k, NEW i, KeyAt(u, k, i)', Room(k)' <= m
                 PROVE  KeyAt(u, k, i) /\ Room(k) <= m
      OBVIOUS
    <2>1. KeyAt(u, k, i) /\ k \in 1 .. Newest
      BY DEF KeyAt
    <2> QED BY <1>2, <2>1
  <1>6. Counts(u)' => Counts(u)
    BY <1>1 DEF Counts, Listed
  <1>7. ASSUME Fits(u, m)' PROVE Fits(u, m)
    <2>1. CASE (th[u].at \in Waiting /\ th[u].n < m)'
      BY <1>1, <2>1 DEF Fits
    <2>2. CASE (th[u].at \in Entering /\ Room(th[u].main) <= m)'
      BY <1>1, <1>4, <2>2 DEF Fits
    <2>3. CASE (\E k, i : KeyAt(u, k, i) /\ Room(k) <= m)'
      BY <1>5, <2>3 DEF Fits
    <2> QED BY <1>7, <2>1, <2>2, <2>3 DEF Fits
  <1> QED BY <1>6, <1>7

\* What the count and the shares of the tables owe to one step of t.
LEMMA SharesKept ==
  ASSUME IInv, Roomy, NEW t \in Threads, Others(t),
         \A k \in 1 .. Newest : DOMAIN tables'[k] = DOMAIN tables[k],
         \A u \in Threads \ {t} : \A k, i : KeyAt(u, k, i)' <=> KeyAt(u, k, i),
         \A m \in Nat : Fits(t, m)' => Fits(t, m)
  PROVE  Shares' /\ ((Counts(t)' => Counts(t)) /\ usedCount' = usedCount => Covers')
  <1>1. ASSUME Counts(t)' => Counts(t), usedCount' = usedCount PROVE Covers'
    <2>1. usedCount \in Int /\ 0 \in Nat
      BY DEF IInv, Typed
    <2>2. \A u \in Threads : Counts(u)' => Counts(u)
      BY <1>1, <2>1, OthersFit
    <2>3. Counted' \subseteq Counted
      BY <2>2 DEF Counted
    <2>4. Cardinality(Counted') <= Cardinality(Counted) /\ Cardinality(Counted') \in Nat
      BY <2>3, Finite, FS_Subset, FS_CardinalityType
    <2> QED BY <1>1, <2>1, <2>4, Finite DEF Roomy, Covers
  <1>2. ASSUME NEW m \in Nat, Fitting(m)' /= {} PROVE Cardinality(Fitting(m)') < m
    <2>1. \A u \in Threads : Fits(u, m)' => Fits(u, m)
      BY OthersFit
    <2>2. Fitting(m)' \subseteq Fitting(m)
      BY <2>1 DEF Fitting
    <2>3. Fitting(m) /= {} /\ Cardinality(Fitting(m)) < m
      BY <1>2, <2>2 DEF Roomy, Shares
    <2>4. Cardinality(Fitting(m)') <= Cardinality(Fitting(m)) /\ Cardinality(Fitting(m)') \in Nat
      BY <2>2, Finite, FS_Subset, FS_CardinalityType
    <2> QED BY <2>3, <2>4, Finite
  <1>3. Shares'
    BY <1>2 DEF Shares
  <1> QED BY <1>1, <1>3

\* A step that writes no table.
LEMMA CalmKept ==
  ASSUME IInv, Roomy, NEW t \in Threads, Others(t), UNCHANGED tables,
         th'[t].at \notin {"exit", "uncount", "insert", "readd"} \/ Once(t)'
  PROVE  th'[t].at \notin {"exit", "uncount"} => NoneGone' /\ (\A u \in Threads : Once(u)') /\ Growing'
  <1>1. Newest' = Newest /\ \A k : Cap(k)' = Cap(k)
    BY DEF Newest, Cap
  <1>2. \A u, k, i : KeyAt(u, k, i)' <=> KeyAt(u, k, i)
    BY <1>1 DEF KeyAt
  <1>3. \A u : Listed(u)' <=> Listed(u)
    BY <1>2 DEF Listed
  <1>4. Growing'
    BY <1>1 DEF Roomy, Growing
  <1>5. th'[t].at \notin {"exit", "uncount"} => NoneGone'
    BY <1>1 DEF Roomy, NoneGone, Others
  <1>6. ASSUME NEW u \in Threads \ {t} PROVE Once(u)'
    <2>1. Once(u) /\ th'[u] = th[u]
      BY DEF Roomy, Others
    <2> QED BY <1>2, <1>3, <2>1 DEF Once
  <1>7. ASSUME th'[t].at \notin {"insert", "readd"} PROVE Once(t)'
    <2>1. Once(t)
      BY DEF Roomy
    <2> QED BY <1>2, <1>7, <2>1 DEF Once
  <1> QED BY <1>4, <1>5, <1>6, <1>7

\* Between the accesses that matter nobody comes to fit in a table that did not.
LEMMA CalmRoomy ==
  ASSUME IInv, Roomy, NEW t \in Threads, Others(t), UNCHANGED <<tables, usedCount>>,
         th'[t].at \notin {"exit", "uncount"}, th'[t].at \notin {"insert", "readd"} \/ Once(t)',
         th'[t].at \in Waiting => th[t].at \in Waiting /\ th'[t].n = th[t].n,
         th'[t].at \in Entering =>
           /\ th'[t].main = th[t].main /\ th[t].main \in 1 .. Newest
           /\ th[t].at \in Entering \/ (th[t].at \in Waiting /\ th[t].n < Room(th[t].main))
  PROVE  Roomy'
  <1>1. Newest' = Newest /\ Typed /\ th[t].n \in Int
    BY DEF Newest, IInv, Typed, Local
  <1>2. \A u, k, i : KeyAt(u, k, i)' <=> KeyAt(u, k, i)
    BY <1>1 DEF KeyAt
  <1>3. \A k : Room(k)' = Room(k)
    BY DEF Room, Cap
  <1>4. ASSUME NEW m \in Nat, Fits(t, m)' PROVE Fits(t, m)
    <2>1. CASE (th[t].at \in Waiting /\ th[t].n < m)'
      BY <2>1 DEF Fits
    <2>2. CASE (th[t].at \in Entering /\ Room(th[t].main) <= m)'
      <3>1. Room(th[t].main) <= m /\ Room(th[t].main) \in Nat
        <4>1. th[t].main \in 1 .. Newest /\ Room(th[t].main)' = Room(th[t].main)
          BY <2>2 DEF Room, Cap
        <4> QED BY <1>1, <2>2, <4>1, Rooms
      <3> QED BY <1>1, <2>2, <3>1 DEF Fits
    <2>3. CASE (\E k, i : KeyAt(t, k, i) /\ Room(k) <= m)'
      BY <1>2, <1>3, <2>3 DEF Fits
    <2> QED BY <1>4, <2>1, <2>2, <2>3 DEF Fits
  <1>5. Counts(t)' => Counts(t)
    BY <1>2 DEF Counts, Listed
  <1>6. Covers' /\ Shares'
    BY <1>2, <1>4, <1>5, SharesKept
  <1>7. NoneGone' /\ (\A u \in Threads : Once(u)') /\ Growing'
    BY CalmKept
  <1> QED BY <1>6, <1>7 DEF Roomy

\* The check for room lets pass whoever was counted when the table had room.
LEMMA RoomSeen ==
  ASSUME Typed, NEW t \in Threads, CheckRoom(t)
  PROVE  /\ th'[t].at = "recycle" => th[t].n < Room(th[t].main)
         /\ th'[t].at = "reload" => th'[t].n = th[t].n
  <1>1. th \in [Threads -> Local]
    BY DEF Typed
  <1>2. CASE th[t].n < Room(th[t].main)
    <2>1. th' = [th EXCEPT ![t] = [@ EXCEPT !.at = "recycle", !.n = 0, !.p = Len(inactive)]]
      BY <1>2 DEF CheckRoom, Room
    <2>2. th'[t].at = "recycle"
      BY <1>1, <2>1 DEF Local
    <2> QED BY <1>2, <2>2
  <1>3. CASE ~(th[t].n < Room(th[t].main))
    <2>1. th' = [th EXCEPT ![t].at = "reload"]
      BY <1>3 DEF CheckRoom, Room
    <2>2. th'[t].at = "reload" /\ th'[t].n = th[t].n
      BY <1>1, <2>1 DEF Local
    <2> QED BY <2>2
  <1> QED BY <1>2, <1>3

LEMMA LockRoomy ==
  ASSUME IInv, Roomy, NEW t \in Threads, TryLock(t) \/ Unlock(t) \/ Reload(t) PROVE Roomy'
  <1>0. /\ Typed /\ Placed(t) /\ th[t].at \in Waiting /\ th[t].main \in 1 .. Newest
        /\ th \in [Threads -> Local] /\ UNCHANGED <<tables, usedCount>>
    BY DEF IInv, Typed, Placed, Early, Waiting, TryLock, Unlock, Reload
  <1>1. CASE CheckRoom(t)
    <2>1. Others(t) /\ th'[t].main = th[t].main /\ th'[t].at \in {"recycle", "reload"}
      BY <1>0, <1>1, RoomChecked
    <2>2. /\ th'[t].at = "recycle" => th[t].n < Room(th[t].main)
          /\ th'[t].at = "reload" => th'[t].n = th[t].n
      BY <1>0, <1>1, RoomSeen
    <2> QED BY <1>0, <2>1, <2>2, CalmRoomy DEF Waiting, Entering
  <1>2. CASE Goto(t, "resize")
    <2>1. Others(t) /\ th'[t].at = "resize" /\ th'[t].n = th[t].n
      BY <1>0, <1>2 DEF Goto, Local, Others
    <2> QED BY <1>0, <2>1, CalmRoomy DEF Waiting, Entering
  <1>3. CASE Reload(t)
    <2>1. th' = [th EXCEPT ![t] = [@ EXCEPT !.at = "grow", !.main = Newest]]
      BY <1>3 DEF Reload
    <2>2. Others(t) /\ th'[t].at = "grow" /\ th'[t].n = th[t].n
      BY <1>0, <2>1 DEF Local, Others
    <2> QED BY <1>0, <2>2, CalmRoomy DEF Waiting, Entering
  <1> QED BY <1>1, <1>2, <1>3 DEF TryLock, Unlock

\* A search in the newest table comes before an entry in it.
LEMMA SearchRoomy ==
  ASSUME IInv, Roomy, NEW t \in Threads, Search(t) PROVE Roomy'
  <1>0. /\ Typed /\ th \in [Threads -> Local] /\ UNCHANGED <<tables, usedCount>>
        /\ Newest \in Nat \ {0} /\ th[t].at = "idle"
    BY LenProperties DEF IInv, Typed, Search, Newest
  <1>1. CASE th' = [th EXCEPT ![t] = [Idle EXCEPT !.at = "count", !.main = Newest]]
    <2>1. Others(t) /\ th'[t].at = "count"
      BY <1>0, <1>1 DEF Idle, Others
    <2> QED BY <1>0, <2>1, CalmRoomy DEF Waiting, Entering
  <1>2. ASSUME NEW k \in Found(t, Newest) \ {Newest}, \A l \in Found(t, Newest) : l <= k,
               th' = [th EXCEPT ![t] = Probing(t, "readd", Newest, ValueIn(k, t))]
        PROVE  Roomy'
    <2>1. PICK i : k \in 1 .. Newest /\ KeyAt(t, k, i) /\ ValueIn(k, t) = tables[k][i].value
      BY <1>0, Searched
    <2>2. ValueIn(k, t) \in Nat
      BY <1>0, <2>1 DEF IInv, Keys, Typed
    <2>3. PICK r : r = Probing(t, "readd", Newest, ValueIn(k, t))
      OBVIOUS
    <2>4. r \in Local /\ r.at = "readd" /\ r.main = Newest
      BY <1>0, <2>2, <2>3, Probes DEF Places
    <2>5. Others(t) /\ th'[t] = r
      BY <1>0, <1>2, <2>3, <2>4, Moved
    <2>6. \A u, j, l : KeyAt(u, j, l)' <=> KeyAt(u, j, l)
      BY <1>0 DEF KeyAt, Newest
    <2>7. ASSUME NEW j PROVE ~KeyAt(t, Newest, j)
      <3>1. SUFFICES ASSUME KeyAt(t, Newest, j) PROVE FALSE
        OBVIOUS
      <3>2. Newest \in Found(t, Newest)
        BY <1>0, <3>1 DEF KeyAt, Found, Holds
      <3> QED BY <1>0, <1>2, <2>1, <3>2
    <2>8. Once(t)'
      <3>1. \A l, i1, i2 : KeyAt(t, l, i1) /\ KeyAt(t, l, i2) => i1 = i2
        BY DEF Roomy, Once
      <3>2. k <= Newest
        BY <2>1
      <3> QED BY <2>1, <2>4, <2>5, <2>6, <2>7, <3>1, <3>2 DEF Once
    <2> QED BY <1>0, <2>4, <2>5, <2>8, CalmRoomy DEF Waiting, Entering
  <1> QED BY <1>1, <1>2 DEF Search

LEMMA RecycleRoomy ==
  ASSUME IInv, Roomy, NEW t \in Threads, Recycle(t) \/ Create(t) PROVE Roomy'
  <1>0. /\ Typed /\ th \in [Threads -> Local] /\ UNCHANGED <<tables, usedCount>>
        /\ th[t].at = "recycle" /\ th[t].main \in 1 .. Newest /\ th[t].p \in Nat
    BY DEF IInv, Typed, Placed, Early, Recycle, Create, Local
  <1>1. ~Listed(t) /\ \A l, i, j : KeyAt(t, l, i) /\ KeyAt(t, l, j) => i = j
    BY <1>0 DEF IInv, Placed, Early, Keys, Listed
  <1>2. \A u, k, i : KeyAt(u, k, i)' <=> KeyAt(u, k, i)
    BY <1>0 DEF KeyAt, Newest
  <1>3. ASSUME NEW p \in Nat, th' = [th EXCEPT ![t] = Probing(t, "insert", th[t].main, p)] PROVE Roomy'
    <2>1. PICK r : r = Probing(t, "insert", th[t].main, p)
      OBVIOUS
    <2>2. r \in Local /\ r.at = "insert" /\ r.main = th[t].main
      BY <1>0, <2>1, Probes DEF Places
    <2>3. Others(t) /\ th'[t] = r
      BY <1>0, <1>3, <2>1, <2>2, Moved
    <2>4. Once(t)'
      BY <1>1, <1>2, <2>2, <2>3 DEF Once, Listed
    <2> QED BY <1>0, <2>2, <2>3, <2>4, CalmRoomy DEF Waiting, Entering
  <1>4. CASE th' = [th EXCEPT ![t].p = @ - 1]
    <2>1. Others(t) /\ th'[t].at = "recycle" /\ th'[t].main = th[t].main
      BY <1>0, <1>4 DEF Local, Others
    <2> QED BY <1>0, <2>1, CalmRoomy DEF Waiting, Entering
  <1>5. CASE Create(t)
    <2>1. Len(inactive') \in Nat
      <3>1. inactive' = Append(inactive, FALSE) /\ inactive \in Seq(BOOLEAN)
        BY <1>0, <1>5 DEF Create, Typed
      <3>2. Append(inactive, FALSE) \in Seq(BOOLEAN)
        BY <3>1, AppendProperties
      <3> QED BY <3>1, <3>2, LenProperties
    <2> QED BY <1>3, <1>5, <2>1 DEF Create
  <1>6. CASE Recycle(t)
    BY <1>0, <1>3, <1>4, <1>6 DEF Recycle
  <1> QED BY <1>5, <1>6

\* The thread that is counted takes a number no thread counted before it has.
LEMMA CountInRoomy ==
  ASSUME IInv, Roomy, NEW t \in Threads, CountIn(t) PROVE Roomy'
  <1>0. /\ Typed /\ th \in [Threads -> Local] /\ UNCHANGED tables /\ usedCount \in Int
        /\ th[t].at = "count" /\ ~Listed(t) /\ usedCount' = usedCount + 1
    BY DEF IInv, Typed, Placed, Early, Keys, Listed, CountIn
  <1>1. Others(t) /\ th'[t].at = "grow" /\ th'[t].n = usedCount + 1
    <2>1. th' = [th EXCEPT ![t] = [@ EXCEPT !.at = "grow", !.n = usedCount + 1]]
      BY DEF CountIn
    <2> QED BY <1>0, <2>1 DEF Local, Others
  <1>2. NoneGone' /\ (\A u \in Threads : Once(u)') /\ Growing'
    BY <1>0, <1>1, CalmKept
  <1>3. \A u, k, i : KeyAt(u, k, i)' <=> KeyAt(u, k, i)
    BY <1>0 DEF KeyAt, Newest
  <1>4. ASSUME NEW u \in Threads \ {t}, NEW m \in Nat
        PROVE  (Fits(u, m)' => Fits(u, m)) /\ (Counts(u)' => Counts(u))
    BY <1>0, <1>1, <1>3, OthersFit
  <1>5. t \notin Counted /\ Cardinality(Counted \cup {t}) = Cardinality(Counted) + 1
    BY <1>0, Finite, FS_AddElement DEF Counted, Counts, Waiting, Entering
  <1>6. Counted' \subseteq Counted \cup {t} /\ IsFiniteSet(Counted \cup {t})
    <2>1. \A u \in Threads \ {t} : Counts(u)' => Counts(u)
      <3>1. 0 \in Nat
        OBVIOUS
      <3> QED BY <1>4, <3>1
    <2>2. Counted' \subseteq Counted \cup {t}
      BY <2>1 DEF Counted
    <2> QED BY <2>2, Finite, FS_AddElement
  <1>7. Cardinality(Counted') <= Cardinality(Counted) + 1 /\ Cardinality(Counted') \in Nat
    BY <1>5, <1>6, FS_Subset, FS_CardinalityType
  <1>8. Cardinality(Counted') <= usedCount + 1
    BY <1>0, <1>7, Finite DEF Roomy, Covers
  <1>9. Covers'
    BY <1>0, <1>8 DEF Covers
  <1>10. t \in Counted' /\ IsFiniteSet(Counted') /\ Cardinality(Counted') > 0
    <2>1. t \in Counted'
      BY <1>1 DEF Counted, Counts, Waiting
    <2>2. IsFiniteSet(Counted')
      BY <1>6, FS_Subset
    <2>3. Cardinality(Counted') /= 0
      BY <2>1, <2>2, FS_EmptySet
    <2> QED BY <1>7, <2>1, <2>2, <2>3
  <1>11. ASSUME NEW m \in Nat, Fitting(m)' /= {} PROVE Cardinality(Fitting(m)') < m
    <2>1. CASE usedCount + 1 < m
      <3>1. Fitting(m)' \subseteq Counted'
        <4>1. \A u \in Threads : Fits(u, m)' => Counts(u)'
          BY DEF Fits, Counts, Listed
        <4> QED BY <4>1 DEF Fitting, Counted
      <3>2. Cardinality(Fitting(m)') <= Cardinality(Counted') /\ Cardinality(Fitting(m)') \in Nat
        BY <1>10, <3>1, FS_Subset, FS_CardinalityType
      <3> QED BY <1>0, <1>7, <1>8, <2>1, <3>2
    <2>2. CASE ~(usedCount + 1 < m)
      <3>1. ~Fits(t, m)'
        BY <1>0, <1>1, <1>3, <2>2 DEF Fits, Listed, Waiting, Entering
      <3>2. Fitting(m)' \subseteq Fitting(m)
        BY <1>4, <3>1 DEF Fitting
      <3>3. Cardinality(Fitting(m)) < m
        BY <1>11, <3>2 DEF Roomy, Shares
      <3>4. Cardinality(Fitting(m)') <= Cardinality(Fitting(m)) /\ Cardinality(Fitting(m)') \in Nat
        BY <3>2, Finite, FS_Subset, FS_CardinalityType
      <3> QED BY <3>3, <3>4, Finite
    <2> QED BY <2>1, <2>2
  <1>12. Shares'
    BY <1>11 DEF Shares
  <1> QED BY <1>2, <1>9, <1>12 DEF Roomy

\* A call that ends without memory is taken back from the count.
LEMMA FailRoomy ==
  ASSUME IInv, Roomy, NEW t \in Threads, ResizeFails(t) \/ CreateFails(t) PROVE Roomy'
  <1>0. /\ Typed /\ th \in [Threads -> Local] /\ UNCHANGED tables /\ usedCount \in Int
        /\ th[t].at \in {"resize", "recycle"} /\ ~Listed(t) /\ usedCount' = usedCount - 1
    BY DEF IInv, Typed, Placed, Early, Keys, Listed, ResizeFails, CreateFails
  <1>1. Others(t) /\ th'[t].at = "idle"
    BY <1>0 DEF ResizeFails, CreateFails, Finish, Idle, Others
  <1>2. NoneGone' /\ (\A u \in Threads : Once(u)') /\ Growing'
    BY <1>0, <1>1, CalmKept
  <1>3. \A u, k, i : KeyAt(u, k, i)' <=> KeyAt(u, k, i)
    BY <1>0 DEF KeyAt, Newest
  <1>4. ~Counts(t)' /\ \A m : ~Fits(t, m)'
    BY <1>0, <1>1, <1>3 DEF Counts, Fits, Listed, Waiting, Entering
  <1>5. Shares'
    BY <1>0, <1>1, <1>3, <1>4, SharesKept
  <1>6. Counted' \subseteq Counted \ {t} /\ IsFiniteSet(Counted \ {t})
    <2>1. 0 \in Nat
      OBVIOUS
    <2>2. \A u \in Threads \ {t} : Counts(u)' => Counts(u)
      BY <1>0, <1>1, <1>3, <2>1, OthersFit
    <2>3. Counted' \subseteq Counted \ {t}
      BY <1>4, <2>2 DEF Counted
    <2> QED BY <2>3, Finite, FS_RemoveElement
  <1>7. t \in Counted /\ Cardinality(Counted \ {t}) = Cardinality(Counted) - 1
    BY <1>0, Finite, FS_RemoveElement DEF Counted, Counts, Waiting, Entering
  <1>8. Cardinality(Counted') <= Cardinality(Counted) - 1 /\ Cardinality(Counted') \in Nat
    BY <1>6, <1>7, FS_Subset, FS_CardinalityType
  <1>9. Covers'
    BY <1>0, <1>8, Finite DEF Roomy, Covers
  <1> QED BY <1>2, <1>5, <1>9 DEF Roomy

\* A table in front is larger than those behind it, and nobody is in it.
LEMMA ResizeRoomy ==
  ASSUME IInv, Roomy, NEW t \in Threads, Resize(t) PROVE Roomy'
  <1>0. /\ Typed /\ th \in [Threads -> Local] /\ usedCount' = usedCount
        /\ th[t].at = "resize" /\ Newest = Len(tables) /\ Newest \in Nat \ {0}
    BY LenProperties DEF IInv, Typed, Newest, Resize
  <1>1. Others(t) /\ th'[t].at = "unlock" /\ th'[t].n = th[t].n
    <2>1. PICK m : th' = [th EXCEPT ![t] = [@ EXCEPT !.at = "unlock", !.main = m]]
      BY DEF Resize
    <2> QED BY <1>0, <2>1 DEF Local, Others
  <1>2. CASE ~HalfFull(t, Newest)
    BY <1>0, <1>1, <1>2, CalmRoomy DEF Resize, Waiting, Entering
  <1>3. CASE HalfFull(t, Newest)
    <2>1. PICK cap \in Doubled(Cap(Newest), th[t].n) : tables' = Append(tables, [i \in 0 .. cap - 1 |-> Empty])
      BY <1>3 DEF Resize
    <2>2. cap \in Nat \ {0} /\ th[t].n \in Int /\ th[t].n < cap \div 2
      BY <1>0 DEF Doubled, Local
    <2>3. PICK T : T = [i \in 0 .. cap - 1 |-> Empty]
      OBVIOUS
    <2>4. T \in Table /\ \A i \in DOMAIN T : T[i].key \notin Threads /\ T[i].key /= Reusable
      BY <2>2, <2>3, EmptyTable, IdsAssumption DEF Empty, Reusable
    <2>5. /\ Newest' = Newest + 1 /\ tables'[Newest + 1] = T
          /\ \A k \in 1 .. Newest : tables'[k] = tables[k]
      <3>1. tables \in Seq(Table) /\ tables' = Append(tables, T)
        BY <1>0, <2>1, <2>3 DEF Typed
      <3>2. /\ Len(Append(tables, T)) = Len(tables) + 1
            /\ \A k \in 1 .. Len(tables) : Append(tables, T)[k] = tables[k]
            /\ Append(tables, T)[Len(tables) + 1] = T
        BY <2>4, <3>1, AppendProperties
      <3> QED BY <1>0, <3>1, <3>2 DEF Newest
    <2>6. ASSUME NEW u \in Threads, NEW k, NEW i PROVE KeyAt(u, k, i)' <=> KeyAt(u, k, i)
      <3>1. CASE k \in 1 .. Newest
        BY <1>0, <2>5, <3>1 DEF KeyAt
      <3>2. CASE k = Newest + 1
        BY <1>0, <2>4, <2>5, <3>2 DEF KeyAt
      <3> QED BY <1>0, <2>5, <3>1, <3>2 DEF KeyAt
    <2>7. \A k \in 1 .. Newest : Cap(k)' = Cap(k) /\ Room(k)' = Room(k)
      BY <1>0, <2>5, Rooms
    <2>8. Growing'
      <3>1. ASSUME NEW k, k = Newest + 1 PROVE Cap(k)' = cap
        <4>1. DOMAIN T = 0 .. cap - 1 /\ Cardinality(0 .. cap - 1) = cap
          BY <2>2, <2>3, FS_Interval
        <4> QED BY <2>5, <3>1, <4>1 DEF Cap
      <3>2. Cap(Newest) < cap
        <4>1. Cap(Newest) \in Nat /\ th[t].n >= Cap(Newest) \div 2
          BY <1>0, <1>3, Domains DEF HalfFull
        <4> QED BY <2>2, <4>1
      <3>3. \A k \in 1 .. Newest : Cap(k) \in Nat /\ Cap(k) <= Cap(Newest)
        BY <1>0, Domains DEF Roomy, Growing
      <3>4. ASSUME NEW j \in 1 .. Newest + 1, NEW k \in 1 .. Newest + 1, j <= k PROVE Cap(j)' <= Cap(k)'
        <4>1. CASE k \in 1 .. Newest
          <5>1. j \in 1 .. Newest
            BY <1>0, <3>4, <4>1
          <5> QED BY <2>7, <3>4, <4>1, <5>1 DEF Roomy, Growing
        <4>2. CASE k = Newest + 1 /\ j \in 1 .. Newest
          <5>1. Cap(k)' = cap
            BY <3>1, <4>2
          <5>2. Cap(j)' = Cap(j) /\ Cap(j) \in Nat /\ Cap(j) <= Cap(Newest)
            BY <2>7, <3>3, <4>2
          <5> QED BY <1>0, <2>2, <3>2, <3>3, <5>1, <5>2
        <4>3. CASE k = Newest + 1 /\ j = Newest + 1
          BY <2>2, <3>1, <4>3
        <4> QED BY <1>0, <4>1, <4>2, <4>3
      <3> QED BY <2>5, <3>4 DEF Growing
    <2>9. NoneGone'
      <3>1. \A u \in Threads : th'[u].at \notin {"exit", "uncount"}
        BY <1>1 DEF Others, Roomy, NoneGone
      <3>2. ASSUME NEW k \in 1 .. Newest + 1, NEW i \in DOMAIN tables'[k] PROVE tables'[k][i].key /= Reusable
        <4>1. CASE k \in 1 .. Newest
          BY <2>5, <3>2, <4>1 DEF Roomy, NoneGone
        <4>2. CASE k = Newest + 1
          BY <2>4, <2>5, <3>2, <4>2
        <4> QED BY <1>0, <4>1, <4>2
      <3> QED BY <2>5, <3>1, <3>2 DEF NoneGone
    <2>10. ASSUME NEW u \in Threads PROVE Once(u)'
      <3>1. Once(u) /\ (Listed(u)' <=> Listed(u))
        BY <2>6 DEF Roomy, Listed
      <3>2. th'[u].at \in {"insert", "readd"} => th'[u] = th[u]
        BY <1>1 DEF Others
      <3> QED BY <2>6, <3>1, <3>2 DEF Once
    <2>11. ASSUME NEW m \in Nat, Fits(t, m)' PROVE Fits(t, m)
      <3>1. CASE (th[t].at \in Waiting /\ th[t].n < m)'
        BY <1>0, <1>1, <3>1 DEF Fits, Waiting
      <3>2. CASE (\E k, i : KeyAt(t, k, i) /\ Room(k) <= m)'
        <4>1. PICK k, i : KeyAt(t, k, i)' /\ Room(k)' <= m
          BY <3>2
        <4>2. KeyAt(t, k, i) /\ k \in 1 .. Newest
          BY <2>6, <4>1 DEF KeyAt
        <4> QED BY <2>7, <4>1, <4>2 DEF Fits
      <3> QED BY <1>1, <2>11, <3>1, <3>2 DEF Fits, Entering
    <2>12. Counts(t)
      BY <1>0 DEF Counts, Waiting
    <2>13. Covers' /\ Shares'
      BY <1>0, <1>1, <2>5, <2>6, <2>11, <2>12, SharesKept
    <2> QED BY <2>8, <2>9, <2>10, <2>13 DEF Roomy
  <1> QED BY <1>2, <1>3

\* Whoever enters a table was counted when it had room, or is in an older one, which has no more.
LEMMA EnterRoomy ==
  ASSUME IInv, Roomy, NEW t \in Threads, Readd(t) \/ Insert(t) PROVE Roomy'
  <1>0. PICK m, j : m = th[t].main /\ j = th[t].i
    OBVIOUS
  <1>1. /\ Typed /\ th \in [Threads -> Local] /\ usedCount' = usedCount
        /\ th[t].at \in {"readd", "insert"} /\ m \in 1 .. Newest /\ j \in DOMAIN tables[m] /\ Newest \in Nat
    BY <1>0, LenProperties DEF IInv, Typed, Newest, Placed, Readd, Insert
  <1>2. tables[m][j].key /= Reusable /\ Once(t) /\ SlotOf(t) = tables[m][j]
    BY <1>0, <1>1 DEF Roomy, NoneGone, SlotOf
  <1>3. CASE ProbeOn(t) /\ UNCHANGED tables
    <2>1. Others(t) /\ th'[t].at = th[t].at /\ th'[t].main = th[t].main
      BY <1>0, <1>1, <1>3, ProbesOn
    <2>2. \A k, i : KeyAt(t, k, i)' <=> KeyAt(t, k, i)
      BY <1>3 DEF KeyAt, Newest
    <2>3. Listed(t)' <=> Listed(t)
      BY <2>2 DEF Listed
    <2>4. Once(t)'
      BY <1>2, <2>1, <2>2, <2>3 DEF Once
    <2> QED BY <1>0, <1>1, <1>3, <2>1, <2>4, CalmRoomy DEF Waiting, Entering
  <1>4. CASE tables[m][j].key \notin Threads /\ Occupy(t) /\ Finish(t)
    <2>1. /\ Newest' = Newest
          /\ \A k \in 1 .. Newest : DOMAIN tables'[k] = DOMAIN tables[k]
          /\ tables'[m][j].key = t
          /\ \A k \in 1 .. Newest : \A i \in DOMAIN tables[k] : k /= m \/ i /= j => tables'[k][i] = tables[k][i]
      BY <1>0, <1>1, <1>4, Occupied
    <2>2. Others(t) /\ th'[t].at = "idle"
      BY <1>1, <1>4 DEF Finish, Idle, Others
    <2>3. ASSUME NEW u \in Threads, NEW k, NEW i
          PROVE  KeyAt(u, k, i)' <=> (KeyAt(u, k, i) \/ (u = t /\ k = m /\ i = j))
      <3>1. CASE k = m /\ i = j
        BY <1>1, <1>4, <2>1, <3>1 DEF KeyAt
      <3>2. CASE k /= m \/ i /= j
        BY <2>1, <3>2 DEF KeyAt
      <3> QED BY <3>1, <3>2
    <2>4. \A i : ~KeyAt(t, m, i)
      BY <1>0, <1>1, <1>2 DEF Once, Listed
    <2>5. \A k \in 1 .. Newest : Cap(k)' = Cap(k) /\ Room(k)' = Room(k)
      BY <1>1, <2>1, Rooms
    <2>6. Growing'
      BY <2>1, <2>5 DEF Roomy, Growing
    <2>7. NoneGone'
      <3>1. \A u \in Threads : th'[u].at \notin {"exit", "uncount"}
        BY <2>2 DEF Others, Roomy, NoneGone
      <3>2. ASSUME NEW k \in 1 .. Newest, NEW i \in DOMAIN tables[k] PROVE tables'[k][i].key /= Reusable
        <4>1. CASE k = m /\ i = j
          BY <2>1, <4>1, IdsAssumption DEF Reusable
        <4>2. CASE k /= m \/ i /= j
          BY <2>1, <4>2 DEF Roomy, NoneGone
        <4> QED BY <4>1, <4>2
      <3> QED BY <2>1, <3>1, <3>2 DEF NoneGone
    <2>8. ASSUME NEW u \in Threads \ {t} PROVE Once(u)'
      <3>1. Once(u) /\ th'[u] = th[u] /\ \A k, i : KeyAt(u, k, i)' <=> KeyAt(u, k, i)
        BY <2>2, <2>3 DEF Roomy, Others
      <3> QED BY <3>1 DEF Once, Listed
    <2>9. Once(t)'
      <3>1. ASSUME NEW k, NEW i1, NEW i2, KeyAt(t, k, i1)', KeyAt(t, k, i2)' PROVE i1 = i2
        BY <1>2, <2>3, <2>4, <3>1 DEF Once
      <3> QED BY <2>2, <3>1 DEF Once
    <2>10. ASSUME NEW q \in Nat, Fits(t, q)' PROVE Fits(t, q)
      <3>1. PICK k, i : KeyAt(t, k, i)' /\ Room(k)' <= q
        BY <2>2, <2>10 DEF Fits, Waiting, Entering
      <3>2. CASE KeyAt(t, k, i)
        <4>1. k \in 1 .. Newest
          BY <3>2 DEF KeyAt
        <4> QED BY <2>5, <3>1, <3>2, <4>1 DEF Fits
      <3>3. CASE k = m /\ th[t].at = "insert"
        <4>1. Room(m) <= q
          BY <1>1, <2>5, <3>1, <3>3
        <4> QED BY <1>0, <3>3, <4>1 DEF Fits, Entering
      <3>4. CASE k = m /\ th[t].at = "readd"
        <4>1. Room(m) <= q
          BY <1>1, <2>5, <3>1, <3>4
        <4>2. PICK l, h : l <= m /\ KeyAt(t, l, h)
          BY <1>0, <1>2, <3>4 DEF Once
        <4>3. l \in 1 .. Newest /\ Room(l) \in Nat /\ Room(m) \in Nat /\ Room(l) <= Room(m)
          <5>1. l \in 1 .. Newest
            BY <4>2 DEF KeyAt
          <5>2. Cap(l) <= Cap(m)
            BY <1>1, <4>2, <5>1 DEF Roomy, Growing
          <5> QED BY <1>1, <5>1, <5>2, Rooms
        <4>4. Room(l) <= q
          BY <4>1, <4>3
        <4> QED BY <4>2, <4>4 DEF Fits
      <3> QED BY <1>1, <2>3, <3>1, <3>2, <3>3, <3>4
    <2>11. Counts(t)
      BY <1>0, <1>1, <1>2 DEF Counts, Entering, Once, Listed
    <2>12. \A u \in Threads \ {t} : \A k, i : KeyAt(u, k, i)' <=> KeyAt(u, k, i)
      BY <2>3
    <2>13. Covers' /\ Shares'
      BY <1>1, <2>1, <2>2, <2>10, <2>11, <2>12, SharesKept
    <2> QED BY <2>6, <2>7, <2>8, <2>9, <2>13 DEF Roomy
  <1>5. \/ ProbeOn(t) /\ UNCHANGED tables
        \/ tables[m][j].key \notin Threads /\ Occupy(t) /\ Finish(t)
    BY <1>2, IdsAssumption DEF Readd, Insert, Empty, Reusable
  <1> QED BY <1>3, <1>4, <1>5

\* With each of a table's slots taken, as many threads as it has slots would have found room in it.
LEMMA RoomIsLeft == ASSUME IInv, Roomy PROVE SlotFree
  <1>0. Typed /\ DOMAIN tables = 1 .. Newest
    BY LenProperties DEF IInv, Typed, Newest
  <1> SUFFICES ASSUME NEW k \in 1 .. Newest, \A i \in DOMAIN tables[k] : tables[k][i].key /= Empty.key
               PROVE  FALSE
    BY <1>0 DEF SlotFree
  <1>1. PICK c \in Nat \ {0} : tables[k] \in [0 .. c - 1 -> Slot]
    BY <1>0, Domains DEF Table
  <1>2. /\ DOMAIN tables[k] = 0 .. c - 1 /\ IsFiniteSet(0 .. c - 1) /\ Cardinality(0 .. c - 1) = c
        /\ Cap(k) = c
    BY <1>1, FS_Interval DEF Cap
  <1>3. PICK m \in Nat : m = Room(k) /\ m <= c
    BY <1>0, <1>2, Rooms
  <1>4. ASSUME NEW i \in 0 .. c - 1 PROVE tables[k][i].key \in Fitting(m) /\ KeyAt(tables[k][i].key, k, i)
    <2>1. tables[k][i].key \in Threads
      BY <1>1, <1>2 DEF Slot, Empty, Reusable, Roomy, NoneGone
    <2>2. KeyAt(tables[k][i].key, k, i)
      BY <1>2 DEF KeyAt
    <2>3. Fits(tables[k][i].key, m)
      BY <1>3, <2>2 DEF Fits
    <2> QED BY <2>1, <2>2, <2>3 DEF Fitting
  <1>5. PICK f : f = [i \in 0 .. c - 1 |-> tables[k][i].key]
    OBVIOUS
  <1>6. f \in [0 .. c - 1 -> Fitting(m)]
    BY <1>4, <1>5
  <1>7. Fitting(m) /= {}
    BY <1>1, <1>4
  <1>8. Cardinality(Fitting(m)) < c
    <2>1. Cardinality(Fitting(m)) < m
      BY <1>3, <1>7 DEF Roomy, Shares
    <2>2. Cardinality(Fitting(m)) \in Nat /\ m \in Nat /\ c \in Nat /\ m <= c
      BY <1>1, <1>3, Finite
    <2> QED BY <2>1, <2>2
  <1>9. PICK x, y \in 0 .. c - 1 : x /= y /\ f[x] = f[y]
    <2>1. IsFiniteSet(Fitting(m)) /\ Cardinality(Fitting(m)) < Cardinality(0 .. c - 1)
      BY <1>2, <1>3, <1>8, Finite
    <2> QED BY <1>2, <1>6, <2>1, FS_PigeonHole
  <1>10. PICK t \in Threads : KeyAt(t, k, x) /\ KeyAt(t, k, y)
    BY <1>4, <1>5, <1>9 DEF Fitting
  <1> QED BY <1>9, <1>10 DEF Roomy, Once

\* RoomBeforeExits always holds: while no thread has exited no slot was used again, every thread in a
\* table is in the count, and the count lets fewer into a table than three quarters of its slots.
THEOREM RoomStays == Spec => []RoomBeforeExits
  <1>1. Init => RInv
    <2> SUFFICES ASSUME Init PROVE RInv
      OBVIOUS
    <2>1. tables = <<[i \in 0 .. InitCap - 1 |-> Empty]>> /\ InitCap \in Nat \ {0} /\ Newest = 1
      BY CapAssumption DEF Init, Newest
    <2>2. \A t \in Threads : \A k, i : ~KeyAt(t, k, i)
      BY <2>1, IdsAssumption DEF KeyAt, Empty
    <2>3. \A t \in Threads : th[t].at = "idle"
      BY DEF Init, Idle
    <2>4. NoneGone
      BY <2>1, <2>3 DEF NoneGone, Empty, Reusable
    <2>5. \A t \in Threads : Once(t)
      BY <2>2, <2>3 DEF Once
    <2>6. Growing
      <3>1. Cap(1) <= Cap(1)
        BY <2>1, InitInv, Domains DEF IInv
      <3> QED BY <2>1, <3>1 DEF Growing
    <2>7. Counted = {} /\ \A m : Fitting(m) = {}
      BY <2>2, <2>3 DEF Counted, Counts, Fitting, Fits, Listed, Waiting, Entering
    <2>8. Covers
      BY <2>7, FS_EmptySet DEF Init, Covers
    <2> QED BY <2>4, <2>5, <2>6, <2>7, <2>8 DEF Init, RInv, Roomy, Shares
  <1>2. ASSUME IInv, RInv, [Next]_vars PROVE RInv'
    <2>1. CASE UNCHANGED vars
      <3>1. Newest' = Newest /\ (\A k : Cap(k)' = Cap(k)) /\ \A u, k, i : KeyAt(u, k, i)' <=> KeyAt(u, k, i)
        BY <2>1 DEF vars, Newest, Cap, KeyAt
      <3>2. \A u : Listed(u)' <=> Listed(u)
        BY <3>1 DEF Listed
      <3>3. NoneGone => NoneGone'
        BY <2>1, <3>1 DEF vars, NoneGone
      <3>4. (\A t \in Threads : Once(t)) => \A t \in Threads : Once(t)'
        BY <2>1, <3>1, <3>2 DEF vars, Once
      <3>5. Growing => Growing'
        BY <3>1 DEF Growing
      <3>6. Counted' = Counted
        BY <2>1, <3>2 DEF vars, Counted, Counts
      <3>7. \A m : Fitting(m)' = Fitting(m)
        BY <2>1 DEF vars, Fitting, Fits, Room, Cap, KeyAt, Newest
      <3> QED BY <1>2, <2>1, <3>3, <3>4, <3>5, <3>6, <3>7 DEF vars, RInv, Roomy, Covers, Shares
    <2>2. ASSUME NEW t \in Threads, Search(t) \/ Exit(t) \/ Step(t) PROVE RInv'
      <3>1. exits \in Nat /\ (exits = 0 => Roomy)
        BY <1>2 DEF RInv
      <3>2. CASE Exit(t)
        BY <3>1, <3>2 DEF Exit, RInv
      <3>3. CASE Uncount(t) \/ ExitClear(t) \/ ExitRetire(t)
        <4>1. exits' = exits /\ exits /= 0
          BY <3>1, <3>3 DEF Uncount, ExitClear, ExitRetire, Roomy, NoneGone
        <4> QED BY <3>1, <4>1 DEF RInv
      <3>4. CASE /\ exits' = exits
                 /\ \/ Search(t) \/ Readd(t) \/ CountIn(t) \/ TryLock(t) \/ Resize(t) \/ Unlock(t)
                    \/ ResizeFails(t) \/ Reload(t) \/ Recycle(t) \/ Create(t) \/ CreateFails(t) \/ Insert(t)
        <4>1. exits = 0 => Roomy'
          BY <1>2, <3>1, <3>4, SearchRoomy, EnterRoomy, CountInRoomy, LockRoomy, ResizeRoomy, FailRoomy,
             RecycleRoomy
        <4> QED BY <3>1, <3>4, <4>1 DEF RInv
      <3>5. \/ Search(t) \/ Readd(t) \/ CountIn(t) \/ TryLock(t) \/ Resize(t) \/ Unlock(t)
            \/ ResizeFails(t) \/ Reload(t) \/ Recycle(t) \/ Create(t) \/ CreateFails(t) \/ Insert(t)
            => exits' = exits
        BY DEF Search, Readd, CountIn, TryLock, Resize, Unlock, ResizeFails, Reload, Recycle, Create,
           CreateFails, Insert
      <3> QED BY <2>2, <3>2, <3>3, <3>4, <3>5 DEF Step
    <2> QED BY <1>2, <2>1, <2>2 DEF Next
  <1>3. IInv /\ RInv => RoomBeforeExits
    BY RoomIsLeft DEF RInv, RoomBeforeExits
  <1> QED BY <1>1, <1>2, <1>3, Invariant, PTL DEF Spec
=============================================================================
