------------------------ MODULE ImplicitIndexProofs ------------------------
(***************************************************************************)
(* Proofs about the queue of an implicit producer, for every size of its   *)
(* blocks and of its first index, every number of consumers and bulks of   *)
(* every size: the index, whose entries larger indexes share, the blocks   *)
(* that consumers unlink while the producer takes others, and the calls    *)
(* that fail; and, with what the invariant of an explicit producer says of *)
(* its destructor, what the queues of both kinds of producer promise.      *)
(***************************************************************************)
EXTENDS QueueProofs, SequenceTheorems

-----------------------------------------------------------------------------
(* Block indexes of an implicit producer.  The slots of an index name entries that larger indexes    *)
(* share, and where a block's entry is follows from the block's number and the phase of the index.   *)

Size(h) == Len(h.slots)
EntryIn(h, x) == h.slots[(x % Size(h)) + 1]
SlotsOf(h) == {h.slots[s] : s \in 1 .. Size(h)}
Headers == [slots : Seq(Nat), tail : Nat]

\* An index over entries 1 .. m, each in one slot at most.
HeaderIn(h, m) ==
  /\ h \in Headers
  /\ Size(h) >= 1 /\ h.tail < Size(h)
  /\ \A s \in 1 .. Size(h) : h.slots[s] \in 1 .. m
  /\ \A s, t \in 1 .. Size(h) : h.slots[s] = h.slots[t] => s = t

LEMMA EntryAtIs == \A h, x : Implicit!EntryAt(h, x) = EntryIn(h, x) /\ Implicit!Capacity(h) = Size(h)
  BY DEF Implicit!EntryAt, Implicit!Capacity, EntryIn, Size

LEMMA SizeIs ==
  ASSUME NEW m, NEW h, HeaderIn(h, m)
  PROVE  Size(h) \in Nat \ {0} /\ h.tail \in 0 .. Size(h) - 1 /\ h.tail \in Int /\ h.slots \in Seq(Nat)
  <1>1. h.slots \in Seq(Nat) /\ h.tail \in Nat
    BY DEF HeaderIn, Headers
  <1>2. Size(h) \in Nat
    BY <1>1 DEF Size
  <1> QED BY <1>1, <1>2 DEF HeaderIn

\* A slot is found by its remainder.
LEMMA EntryIs ==
  ASSUME NEW m, NEW h, HeaderIn(h, m)
  PROVE  /\ \A x \in Int : EntryIn(h, x) \in SlotsOf(h) /\ EntryIn(h, x) \in 1 .. m
         /\ \A x, y \in Int : EntryIn(h, x) = EntryIn(h, y) <=> x % Size(h) = y % Size(h)
         /\ \A x \in 0 .. Size(h) - 1 : EntryIn(h, x) = h.slots[x + 1]
  <1>1. PICK k \in Nat \ {0} : k = Size(h)
    BY SizeIs
  <1>2. ASSUME NEW x \in Int PROVE (x % k) + 1 \in 1 .. Size(h)
    <2>1. PICK r : r = x % k
      OBVIOUS
    <2>2. r \in 0 .. k - 1
      BY <2>1, Remains
    <2>3. r + 1 \in 1 .. k
      BY <2>2
    <2> QED BY <1>1, <2>1, <2>3
  <1>3. \A x \in Int : EntryIn(h, x) \in SlotsOf(h) /\ EntryIn(h, x) \in 1 .. m
    BY <1>1, <1>2 DEF EntryIn, SlotsOf, HeaderIn
  <1>4. ASSUME NEW x \in Int, NEW y \in Int PROVE EntryIn(h, x) = EntryIn(h, y) <=> x % k = y % k
    <2>1. PICK r, s : r = x % k /\ s = y % k
      OBVIOUS
    <2>2. r \in Int /\ s \in Int
      BY <2>1, Remains
    <2>3. r + 1 \in 1 .. Size(h) /\ s + 1 \in 1 .. Size(h)
      BY <1>2, <2>1
    <2>4. EntryIn(h, x) = h.slots[r + 1] /\ EntryIn(h, y) = h.slots[s + 1]
      BY <1>1, <2>1 DEF EntryIn
    <2>5. h.slots[r + 1] = h.slots[s + 1] => r + 1 = s + 1
      BY <2>3 DEF HeaderIn
    <2>6. r + 1 = s + 1 => r = s
      BY <2>2
    <2> QED BY <2>1, <2>4, <2>5, <2>6
  <1>5. ASSUME NEW x \in 0 .. k - 1 PROVE EntryIn(h, x) = h.slots[x + 1]
    <2>1. x \in Int
      OBVIOUS
    <2>2. x % k = x
      BY <2>1, Remains
    <2> QED BY <1>1, <2>2 DEF EntryIn
  <1> QED BY <1>1, <1>3, <1>4, <1>5

\* Once round the index, each entry comes once.
LapsOf(h, k) ==
  /\ \A x, y \in Int : EntryIn(h, x) = EntryIn(h, y) => x = y \/ x - y >= k \/ y - x >= k
  /\ \A x \in Int : EntryIn(h, x + k) = EntryIn(h, x) /\ EntryIn(h, x - k) = EntryIn(h, x)
  /\ \A l \in Int : \A e \in SlotsOf(h) : \E x \in Int : l - k < x /\ x <= l /\ EntryIn(h, x) = e
LEMMA EntryLaps ==
  ASSUME NEW m, NEW h, HeaderIn(h, m)
  PROVE  LapsOf(h, Size(h))
  <1>1. PICK k \in Nat \ {0} : k = Size(h)
    BY SizeIs
  <1>0. \A x, y \in Int : EntryIn(h, x) = EntryIn(h, y) <=> x % k = y % k
    BY <1>1, EntryIs
  <1>2. ASSUME NEW x \in Int, NEW y \in Int, EntryIn(h, x) = EntryIn(h, y)
        PROVE  x = y \/ x - y >= k \/ y - x >= k
    <2>1. x % k = y % k
      BY <1>0, <1>2
    <2> QED BY <2>1, Remains
  <1>3. ASSUME NEW x \in Int PROVE EntryIn(h, x + k) = EntryIn(h, x) /\ EntryIn(h, x - k) = EntryIn(h, x)
    <2>1. (k * 1 + x) % k = x % k
      <3>1. 1 \in Int
        OBVIOUS
      <3> QED BY <3>1, Remainders
    <2>2. x + k \in Int /\ x - k \in Int /\ k * 1 + x = x + k
      OBVIOUS
    <2>3. (x - k) % k = x % k
      BY Remains
    <2>4. (x + k) % k = x % k
      BY <2>1, <2>2
    <2> QED BY <1>0, <2>2, <2>3, <2>4
  <1>4. ASSUME NEW l \in Int, NEW e \in SlotsOf(h)
        PROVE  \E x \in Int : l - k < x /\ x <= l /\ EntryIn(h, x) = e
    <2>1. PICK s \in 1 .. k : e = h.slots[s]
      BY <1>1 DEF SlotsOf
    <2>2. PICK t : t = s - 1
      OBVIOUS
    <2>3. t \in 0 .. k - 1 /\ t \in Int /\ t + 1 = s
      BY <2>1, <2>2
    <2>4. PICK y \in Int : y = l - t
      BY <2>3
    <2>5. PICK d \in Int : y % k \in 0 .. k - 1 /\ y = k * d + (y % k)
      BY Quotient
    <2>6. PICK r \in Int : r = y % k
      BY <2>5
    <2>61. 0 <= r /\ r < k
      BY <2>5, <2>6
    <2>7. PICK z \in Int : z = k * d
      BY <2>5
    <2>80. \A u, v \in Int : u - v \in Int
      OBVIOUS
    <2>8. PICK x \in Int : x = l - r
      BY <2>80
    <2>81. y = z + r
      BY <2>5, <2>6, <2>7
    <2>9. x = z + t
      <3>1. \A a, b, u, v, w \in Int : a = b - u /\ a = v + w => b - w = v + u
        OBVIOUS
      <3> QED BY <2>3, <2>4, <2>81, <2>8, <3>1
    <2>10. (k * d + t) % k = t % k
      BY <2>3, <2>5, Remainders
    <2>11. x % k = t % k
      BY <2>7, <2>9, <2>10
    <2>12. EntryIn(h, x) = EntryIn(h, t)
      BY <1>0, <2>3, <2>8, <2>11
    <2>14. EntryIn(h, t) = e
      BY <1>1, <2>1, <2>3, EntryIs
    <2>13. l - k < x /\ x <= l
      BY <2>6, <2>61, <2>8
    <2> QED BY <2>8, <2>12, <2>13, <2>14
  <1>5. LapsOf(h, k)
    BY <1>2, <1>3, <1>4 DEF LapsOf
  <1> QED BY <1>1, <1>5

\* The entry of every block by number, when the newest index has that of block last at its tail.
EntsOf(hs, last) == [q \in Int |-> EntryIn(Newest(hs), q + (Newest(hs).tail - last))]
Recent(k) == \E q \in Numbers : k = First(q)
\* A key is of a block that goes in its entry.
Phased(h, p, ks) == \A e \in SlotsOf(h) : ks[e] = None \/ \E q \in Int : ks[e] = First(q) /\ e = EntryIn(h, q + p)
\* An entry this index has is in its slot by number, too.
Aligned(h, p, ents) == \A q \in Int : ents[q] \in SlotsOf(h) => ents[q] = EntryIn(h, q + p)
InStep(h, ks, ents) == \E p \in Int : Phased(h, p, ks) /\ Aligned(h, p, ents)

Indexed(hs, ks, last, ents) ==
  /\ last \in Int /\ ks \in Seq(Int \cup {None}) /\ hs \in Seq(Headers) /\ Len(hs) >= 1
  /\ \A j \in 1 .. Len(hs) : HeaderIn(hs[j], Len(ks)) /\ InStep(hs[j], ks, ents)
  /\ Phased(Newest(hs), Newest(hs).tail - last, ks)
  /\ \A e \in 1 .. Len(ks) : e \in SlotsOf(Newest(hs))
  /\ ents = EntsOf(hs, last)
  /\ \A j \in 1 .. Len(hs) : j /= Len(hs) => Recent(ks[EntryIn(hs[j], hs[j].tail)])

\* The entries 1 .. m by number, each once among the k numbers up to last.
Circular(ents, m, k, last) ==
  /\ k \in Nat \ {0} /\ m \in Nat /\ last \in Int
  /\ \A q \in Int : ents[q] \in 1 .. m
  /\ \A q, r \in Int : ents[q] = ents[r] => q = r \/ q - r >= k \/ r - q >= k
  /\ \A q \in Int : ents[q + k] = ents[q] /\ ents[q - k] = ents[q]
  /\ \A q, d \in Int : ents[k * d + q] = ents[q]
  /\ \A e \in 1 .. m : \E q \in Int : last - k < q /\ q <= last /\ ents[q] = e
LEMMA EntsAre ==
  ASSUME NEW hs, NEW ks, NEW last, NEW ents, Indexed(hs, ks, last, ents)
  PROVE  /\ Circular(ents, Len(ks), Size(Newest(hs)), last)
         /\ HeaderIn(Newest(hs), Len(ks)) /\ Size(Newest(hs)) \in Nat \ {0} /\ last \in Int /\ Len(ks) \in Nat
         /\ \A x \in Int : EntryIn(Newest(hs), Newest(hs).tail + x) = ents[last + x]
         /\ \A q \in Int : ks[ents[q]] = None \/ \E r \in Int : ks[ents[q]] = First(r) /\ ents[r] = ents[q]
  <1>1. PICK h : h = Newest(hs)
    OBVIOUS
  <1>2. HeaderIn(h, Len(ks)) /\ last \in Int /\ Len(ks) \in Nat
    BY <1>1 DEF Indexed, Newest
  <1>3. PICK k \in Nat \ {0} : k = Size(h) /\ h.tail \in Int
    BY <1>2, SizeIs
  <1>4. PICK p \in Int : p = h.tail - last
    BY <1>2, <1>3
  <1>5. \A q \in Int : ents[q] = EntryIn(h, q + p) /\ q + p \in Int
    BY <1>1, <1>4 DEF Indexed, EntsOf
  <1>61. \A x \in Int : EntryIn(h, x) \in SlotsOf(h) /\ EntryIn(h, x) \in 1 .. Len(ks)
    BY <1>2, EntryIs
  <1>62. LapsOf(h, k)
    BY <1>2, <1>3, EntryLaps
  <1>6. \A q \in Int : ents[q] \in 1 .. Len(ks) /\ ents[q] \in SlotsOf(h)
    BY <1>5, <1>61, Zenon
  <1>7. ASSUME NEW q \in Int, NEW r \in Int, ents[q] = ents[r] PROVE q = r \/ q - r >= k \/ r - q >= k
    <2>1. PICK x, y \in Int : x = q + p /\ y = r + p
      OBVIOUS
    <2>2. EntryIn(h, x) = EntryIn(h, y)
      BY <1>5, <1>7, <2>1
    <2>3. x = y \/ x - y >= k \/ y - x >= k
      BY <1>62, <2>2, Zenon DEF LapsOf
    <2> QED BY <2>1, <2>3
  <1>8. ASSUME NEW q \in Int PROVE ents[q + k] = ents[q] /\ ents[q - k] = ents[q]
    <2>1. PICK x \in Int : x = q + p
      OBVIOUS
    <2>2. (q + k) + p = x + k /\ (q - k) + p = x - k /\ q + k \in Int /\ q - k \in Int
      BY <2>1
    <2>3. EntryIn(h, x + k) = EntryIn(h, x) /\ EntryIn(h, x - k) = EntryIn(h, x)
      BY <1>62, Zenon DEF LapsOf
    <2> QED BY <1>5, <2>1, <2>2, <2>3
  <1>9. ASSUME NEW e \in 1 .. Len(ks) PROVE \E q \in Int : last - k < q /\ q <= last /\ ents[q] = e
    <2>1. e \in SlotsOf(h)
      BY <1>1 DEF Indexed
    <2>2. PICK l \in Int : l = last + p
      BY <1>2
    <2>3. PICK x \in Int : l - k < x /\ x <= l /\ EntryIn(h, x) = e
      BY <1>62, <2>1, <2>2, Zenon DEF LapsOf
    <2>4. PICK q \in Int : q = x - p
      OBVIOUS
    <2>5. q + p = x /\ last - k < q /\ q <= last
      BY <1>2, <2>2, <2>3, <2>4
    <2> QED BY <1>5, <2>3, <2>5
  <1>10. ASSUME NEW x \in Int PROVE EntryIn(h, h.tail + x) = ents[last + x]
    <2>1. last + x \in Int /\ (last + x) + p = h.tail + x
      BY <1>2, <1>3, <1>4
    <2> QED BY <1>5, <2>1
  <1>11. ASSUME NEW q \in Int, ks[ents[q]] /= None PROVE \E r \in Int : ks[ents[q]] = First(r) /\ ents[r] = ents[q]
    <2>1. Phased(h, p, ks)
      BY <1>1, <1>4 DEF Indexed
    <2>2. PICK r \in Int : ks[ents[q]] = First(r) /\ ents[q] = EntryIn(h, r + p)
      BY <1>6, <1>11, <2>1 DEF Phased
    <2> QED BY <1>5, <2>2
  <1>12. \A q, r \in Int : ents[q] = ents[r] => q = r \/ q - r >= k \/ r - q >= k
    BY <1>7
  <1>14. ASSUME NEW q \in Int, NEW d \in Int PROVE ents[k * d + q] = ents[q]
    <2>1. PICK z \in Int : z = k * d
      OBVIOUS
    <2>2. PICK x \in Int : x = q + p
      OBVIOUS
    <2>3. z + q \in Int /\ (z + q) + p = z + x
      BY <2>2
    <2>4. (k * d + x) % k = x % k
      BY Remainders
    <2>5. z + x \in Int /\ (z + x) % k = x % k
      BY <2>1, <2>4
    <2>6. EntryIn(h, z + x) = EntryIn(h, x)
      BY <1>2, <1>3, <2>5, EntryIs
    <2> QED BY <1>5, <2>1, <2>2, <2>3, <2>6
  <1>13. Circular(ents, Len(ks), k, last)
    BY <1>2, <1>6, <1>12, <1>8, <1>9, <1>14 DEF Circular
  <1> QED BY <1>1, <1>2, <1>3, <1>10, <1>11, <1>13

\* The newest index with another tail.
Tailed(hs, t) == [hs EXCEPT ![Len(hs)] = [slots |-> Newest(hs).slots, tail |-> t]]
\* The newest index with another tail.
Retailed(new, hs, t, m) ==
  /\ new \in Seq(Headers) /\ Len(new) = Len(hs) /\ Newest(new).slots = Newest(hs).slots /\ Newest(new).tail = t
  /\ HeaderIn(Newest(new), m) /\ Size(Newest(new)) = Size(Newest(hs))
  /\ \A j \in 1 .. Len(hs) : j /= Len(hs) => new[j] = hs[j]
  /\ \A j \in 1 .. Len(hs) : new[j].slots = hs[j].slots /\ new[j] \in Headers
  /\ Len(hs) \in 1 .. Len(hs)
LEMMA TailedIs ==
  ASSUME NEW hs, NEW m, hs \in Seq(Headers), Len(hs) >= 1, HeaderIn(Newest(hs), m), NEW t \in 0 .. Size(Newest(hs)) - 1, NEW new, new = Tailed(hs, t)
  PROVE  Retailed(new, hs, t, m)
  <1>1. PICK n \in Nat : n = Len(hs) /\ n \in 1 .. Len(hs)
    OBVIOUS
  <1>2. PICK y : y = [slots |-> Newest(hs).slots, tail |-> t]
    OBVIOUS
  <1>3. Newest(hs).slots \in Seq(Nat) /\ Size(Newest(hs)) \in Nat \ {0}
    BY SizeIs
  <1>4. y \in Headers /\ y.slots = Newest(hs).slots /\ y.tail = t /\ t \in Nat
    BY <1>2, <1>3 DEF Headers
  <1>5. new = [hs EXCEPT ![n] = y]
    BY <1>1, <1>2 DEF Tailed
  <1>6. new \in Seq(Headers) /\ Len(new) = n /\ new[n] = y /\ \A j \in 1 .. Len(hs) : j /= n => new[j] = hs[j]
    BY <1>1, <1>4, <1>5
  <1>7. Newest(new) = y /\ Newest(hs) = hs[n]
    BY <1>1, <1>6 DEF Newest
  <1>8. Size(y) = Size(Newest(hs))
    BY <1>4 DEF Size
  <1>9. HeaderIn(y, m)
    <2>1. t < Size(y)
      BY <1>3, <1>8
    <2> QED BY <1>4, <1>8, <2>1 DEF HeaderIn
  <1>10. \A j \in 1 .. Len(hs) : new[j].slots = hs[j].slots /\ new[j] \in Headers
    BY <1>4, <1>6, <1>7
  <1> QED BY <1>1, <1>4, <1>6, <1>7, <1>8, <1>9, <1>10 DEF Retailed

\* One sequence after the other.
JoinOf(u, s, t, m, k, S) ==
  /\ u \in Seq(S) /\ Len(u) = m + k
  /\ \A e \in 1 .. m : u[e] = s[e]
  /\ \A e \in m + 1 .. m + k : u[e] = t[e - m]
Joins(u, s, t) == u = s \o t
LEMMA Joined ==
  ASSUME NEW S, NEW s \in Seq(S), NEW t \in Seq(S), NEW m \in Nat, NEW k \in Nat, Len(s) = m, Len(t) = k,
         NEW u, Joins(u, s, t)
  PROVE  JoinOf(u, s, t, m, k, S)
  <1>1. s \o t \in Seq(S) /\ Len(s \o t) = Len(s) + Len(t)
    BY ConcatProperties
  <1>2. \A e \in 1 .. Len(s) + Len(t) : (s \o t)[e] = IF e <= Len(s) THEN s[e] ELSE t[e - Len(s)]
    BY ConcatProperties
  <1>3. \A e \in 1 .. m + k : u[e] = IF e <= m THEN s[e] ELSE t[e - m]
    BY <1>2 DEF Joins
  <1>4. \A e \in Int : (e \in 1 .. m => e \in 1 .. m + k /\ e <= m)
                    /\ (e \in m + 1 .. m + k => e \in 1 .. m + k /\ ~ e <= m)
    OBVIOUS
  <1>5. u \in Seq(S) /\ Len(u) = m + k
    BY <1>1 DEF Joins
  <1> QED BY <1>3, <1>4, <1>5 DEF JoinOf

\* The tail goes to another block's entry: the entries by number stay.
Moving(hs, d, new) == d \in Int /\ new = Tailed(hs, (Newest(hs).tail + d) % Size(Newest(hs)))
LEMMA MoveTail ==
  ASSUME NEW hs, NEW ks, NEW last, NEW ents, Indexed(hs, ks, last, ents), NEW d, NEW new, Moving(hs, d, new)
  PROVE  /\ Indexed(new, ks, last + d, ents) /\ Len(new) = Len(hs)
         /\ Newest(new).slots = Newest(hs).slots /\ Size(Newest(new)) = Size(Newest(hs))
         /\ \A j \in 1 .. Len(hs) : new[j].slots = hs[j].slots /\ (j /= Len(hs) => new[j] = hs[j])
  <1>0. d \in Int /\ new = Tailed(hs, (Newest(hs).tail + d) % Size(Newest(hs)))
    BY DEF Moving
  <1> USE <1>0
  <1>1. PICK h : h = Newest(hs)
    OBVIOUS
  <1>2. HeaderIn(h, Len(ks)) /\ last \in Int /\ Len(ks) \in Nat
    BY <1>1, EntsAre
  <1>3. PICK k \in Nat \ {0} : k = Size(h) /\ h.tail \in Int
    BY <1>2, SizeIs
  <1>4. PICK t : t = (h.tail + d) % k
    OBVIOUS
  <1>5. h.tail + d \in Int
    BY <1>3
  <1>6. t \in 0 .. k - 1 /\ t \in Int
    <2>1. PICK u \in Int : u = h.tail + d
      BY <1>5
    <2>2. u % k \in 0 .. k - 1
      BY Remains
    <2>3. t = u % k
      BY <1>4, <2>1
    <2> QED BY <2>2, <2>3
  <1>7. hs \in Seq(Headers) /\ Len(hs) >= 1
    BY DEF Indexed
  <1>8. /\ new \in Seq(Headers) /\ Len(new) = Len(hs) /\ Newest(new).slots = h.slots /\ Newest(new).tail = t
        /\ HeaderIn(Newest(new), Len(ks)) /\ Size(Newest(new)) = k
        /\ \A j \in 1 .. Len(hs) : j /= Len(hs) => new[j] = hs[j]
        /\ \A j \in 1 .. Len(hs) : new[j].slots = hs[j].slots /\ new[j] \in Headers
        /\ Len(hs) \in 1 .. Len(hs)
    <2>1. HeaderIn(Newest(hs), Len(ks)) /\ t \in 0 .. Size(Newest(hs)) - 1 /\ new = Tailed(hs, t)
      BY <1>1, <1>2, <1>3, <1>4, <1>6
    <2>2. Retailed(new, hs, t, Len(ks))
      BY <1>7, <2>1, TailedIs
    <2> QED BY <1>1, <1>3, <2>2 DEF Retailed
  <1>9. PICK g : g = Newest(new)
    OBVIOUS
  <1>10. (\A x : EntryIn(g, x) = EntryIn(h, x)) /\ SlotsOf(g) = SlotsOf(h)
    <2>1. g.slots = h.slots
      BY <1>8, <1>9
    <2>2. Size(g) = Size(h)
      BY <2>1 DEF Size
    <2> QED BY <2>1, <2>2 DEF EntryIn, SlotsOf
  <1>11. ASSUME NEW x \in Int PROVE EntryIn(h, x + (t - (last + d))) = EntryIn(h, x + (h.tail - last))
    <2>1. PICK y \in Int : y = x - (last + d)
      BY <1>2
    <2>2. PICK u \in Int : u = h.tail + d
      BY <1>5
    <2>3. x + (t - (last + d)) = t + y /\ x + (h.tail - last) = u + y
      <3>1. PICK a \in Int, b \in Int, c \in Int : a = h.tail /\ b = last /\ c = t
        BY <1>2, <1>3, <1>6
      <3>2. x + (c - (b + d)) = c + (x - (b + d)) /\ x + (a - b) = (a + d) + (x - (b + d))
        OBVIOUS
      <3> QED BY <2>1, <2>2, <3>1, <3>2
    <2>4. ((u % k) + y) % k = (u + y) % k
      BY AddRemainder
    <2>5. t + y \in Int /\ u + y \in Int /\ t = u % k
      BY <1>4, <1>6, <2>2
    <2>6. (t + y) % k = (u + y) % k
      BY <2>4, <2>5
    <2>7. EntryIn(h, t + y) = EntryIn(h, u + y)
      BY <1>2, <1>3, <2>5, <2>6, EntryIs
    <2> QED BY <2>3, <2>7
  <1>12. ents = EntsOf(new, last + d)
    <2>1. ents = [q \in Int |-> EntryIn(h, q + (h.tail - last))]
      BY <1>1 DEF Indexed, EntsOf
    <2>2. EntsOf(new, last + d) = [q \in Int |-> EntryIn(h, q + (t - (last + d)))]
      BY <1>8, <1>9, <1>10 DEF EntsOf
    <2> QED BY <1>11, <2>1, <2>2
  <1>13. Phased(g, g.tail - (last + d), ks)
    <2>1. Phased(h, h.tail - last, ks)
      BY <1>1 DEF Indexed
    <2> QED BY <1>8, <1>9, <1>10, <1>11, <2>1 DEF Phased
  <1>14. ASSUME NEW j \in 1 .. Len(hs) PROVE HeaderIn(new[j], Len(ks)) /\ InStep(new[j], ks, ents)
    <2>1. HeaderIn(hs[j], Len(ks)) /\ InStep(hs[j], ks, ents)
      BY DEF Indexed
    <2>2. CASE j /= Len(hs)
      BY <1>8, <2>1, <2>2
    <2>3. CASE j = Len(hs)
      <3>1. new[j] = g /\ hs[j] = h
        BY <1>1, <1>8, <1>9, <2>3 DEF Newest
      <3>2. InStep(g, ks, ents)
        <4>1. PICK p \in Int : Phased(h, p, ks) /\ Aligned(h, p, ents)
          BY <2>1, <3>1 DEF InStep
        <4>2. Phased(g, p, ks)
          BY <1>10, <4>1 DEF Phased
        <4>3. Aligned(g, p, ents)
          BY <1>10, <4>1 DEF Aligned
        <4> QED BY <4>2, <4>3 DEF InStep
      <3> QED BY <1>8, <1>9, <3>1, <3>2
    <2> QED BY <2>2, <2>3
  <1>15. \A j \in 1 .. Len(new) : j /= Len(new) => Recent(ks[EntryIn(new[j], new[j].tail)])
    BY <1>8 DEF Indexed
  <1>16. last + d \in Int /\ Len(new) >= 1 /\ ks \in Seq(Int \cup {None}) /\ \A e \in 1 .. Len(ks) : e \in SlotsOf(g)
    BY <1>1, <1>2, <1>7, <1>8, <1>10 DEF Indexed
  <1>17. Indexed(new, ks, last + d, ents)
    BY <1>8, <1>9, <1>12, <1>13, <1>14, <1>15, <1>16 DEF Indexed
  <1> QED BY <1>1, <1>3, <1>8, <1>17

\* A block's number is written in its entry.
Keying(ks, ents, n, e, new) == n \in Numbers /\ e = ents[n] /\ new = [ks EXCEPT ![e] = First(n)]
LEMMA PutKey ==
  ASSUME NEW hs, NEW ks, NEW last, NEW ents, Indexed(hs, ks, last, ents), NEW n, NEW e, NEW new, Keying(ks, ents, n, e, new)
  PROVE  /\ Indexed(hs, new, last, ents) /\ Len(new) = Len(ks) /\ n \in Int
         /\ new[e] = First(n) /\ \A f \in 1 .. Len(ks) : f /= e => new[f] = ks[f]
  <1>0. n \in Numbers /\ e = ents[n] /\ new = [ks EXCEPT ![e] = First(n)]
    BY DEF Keying
  <1> USE <1>0
  <1>1. n \in Int /\ First(n) \in Int
    BY FirstNumber DEF Numbers
  <1>2. Len(ks) \in Nat /\ e \in 1 .. Len(ks) /\ ks \in Seq(Int \cup {None}) /\ HeaderIn(Newest(hs), Len(ks))
    <2>1. Circular(ents, Len(ks), Size(Newest(hs)), last) /\ HeaderIn(Newest(hs), Len(ks))
      BY EntsAre
    <2> QED BY <1>1, <2>1 DEF Circular, Indexed
  <1>3. new \in Seq(Int \cup {None}) /\ Len(new) = Len(ks) /\ new[e] = First(n) /\ \A f \in 1 .. Len(ks) : f /= e => new[f] = ks[f]
    BY <1>1, <1>2
  <1>4. ASSUME NEW h, HeaderIn(h, Len(ks)), NEW f \in SlotsOf(h) PROVE f \in 1 .. Len(ks)
    BY <1>4 DEF HeaderIn, SlotsOf
  <1>5. Phased(Newest(hs), Newest(hs).tail - last, new)
    <2>1. Phased(Newest(hs), Newest(hs).tail - last, ks)
      BY DEF Indexed
    <2>2. e = EntryIn(Newest(hs), n + (Newest(hs).tail - last))
      BY <1>1 DEF Indexed, EntsOf
    <2> QED BY <1>1, <1>2, <1>3, <1>4, <2>1, <2>2 DEF Phased
  <1>6. ASSUME NEW j \in 1 .. Len(hs) PROVE HeaderIn(hs[j], Len(new)) /\ InStep(hs[j], new, ents)
    <2>1. HeaderIn(hs[j], Len(ks)) /\ InStep(hs[j], ks, ents)
      BY DEF Indexed
    <2>2. PICK p \in Int : Phased(hs[j], p, ks) /\ Aligned(hs[j], p, ents)
      BY <2>1 DEF InStep
    <2>3. Phased(hs[j], p, new)
      <3> SUFFICES ASSUME NEW f \in SlotsOf(hs[j]) PROVE new[f] = None \/ \E q \in Int : new[f] = First(q) /\ f = EntryIn(hs[j], q + p)
        BY DEF Phased
      <3>1. CASE f = e
        <4>1. e = EntryIn(hs[j], n + p)
          BY <1>1, <2>2, <3>1 DEF Aligned
        <4> QED BY <1>1, <1>3, <3>1, <4>1
      <3>2. CASE f /= e
        <4>1. new[f] = ks[f]
          BY <1>3, <1>4, <2>1, <3>2
        <4> QED BY <2>2, <4>1 DEF Phased
      <3> QED BY <3>1, <3>2
    <2> QED BY <1>3, <2>1, <2>2, <2>3 DEF InStep
  <1>7. ASSUME NEW j \in 1 .. Len(hs), j /= Len(hs) PROVE Recent(new[EntryIn(hs[j], hs[j].tail)])
    <2>1. HeaderIn(hs[j], Len(ks)) /\ Recent(ks[EntryIn(hs[j], hs[j].tail)])
      BY <1>7 DEF Indexed
    <2>2. EntryIn(hs[j], hs[j].tail) \in 1 .. Len(ks)
      BY <2>1, SizeIs, EntryIs
    <2> QED BY <1>1, <1>3, <2>1, <2>2 DEF Recent
  <1>8. last \in Int /\ hs \in Seq(Headers) /\ Len(hs) >= 1 /\ ents = EntsOf(hs, last) /\ \A f \in 1 .. Len(new) : f \in SlotsOf(Newest(hs))
    BY <1>3 DEF Indexed
  <1> QED BY <1>1, <1>3, <1>5, <1>6, <1>7, <1>8 DEF Indexed

\* An index of twice the slots: the entries of the one before, from the oldest on, then new ones after entry m.
Twice(h, m) ==
  [slots |-> [s \in 1 .. 2 * Size(h) |-> IF s <= Size(h) THEN EntryIn(h, h.tail + s) ELSE m + (s - Size(h))],
   tail |-> Size(h) - 1]

Doubling(hs, ks, last, ents, g, k, m) ==
  /\ Indexed(hs, ks, last, ents)
  /\ k \in Nat \ {0} /\ k = Size(Newest(hs)) /\ m \in Nat /\ m = Len(ks)
  /\ g = Twice(Newest(hs), m)

TwiceOf(g, ents, last, k, m) ==
  /\ HeaderIn(g, m + k) /\ Size(g) = 2 * k /\ g.tail = k - 1
  /\ \A r \in 0 .. 2 * k - 1 : g.slots[r + 1] = IF r < k THEN ents[last + (r + 1)] ELSE m + ((r + 1) - k)
  /\ \A e \in 1 .. m + k : e \in SlotsOf(g)

LEMMA TwiceIs ==
  ASSUME NEW hs, NEW ks, NEW last, NEW ents, NEW g, NEW k, NEW m, Doubling(hs, ks, last, ents, g, k, m)
  PROVE  TwiceOf(g, ents, last, k, m)
  <1>1. PICK h : h = Newest(hs)
    OBVIOUS
  <1>2. m \in Nat /\ m = Len(ks) /\ k \in Nat \ {0} /\ k = Size(h) /\ g = Twice(h, m) /\ Indexed(hs, ks, last, ents)
    BY <1>1 DEF Doubling
  <1>3. last \in Int
    BY <1>2, EntsAre
  <1>30. Circular(ents, m, k, last)
    BY <1>1, <1>2, EntsAre
  <1>31. \A q, r \in Int : ents[q] = ents[r] => q = r \/ q - r >= k \/ r - q >= k
    BY <1>2, <1>30 DEF Circular
  <1>32. \A q \in Int : ents[q] \in 1 .. m /\ ents[q + k] = ents[q]
    BY <1>2, <1>30 DEF Circular
  <1>33. \A x \in Int : EntryIn(h, h.tail + x) = ents[last + x]
    <2>1. \A x \in Int : EntryIn(Newest(hs), Newest(hs).tail + x) = ents[last + x]
      BY <1>2, EntsAre
    <2> QED BY <1>2, <1>1, <2>1, Zenon
  <1>4. PICK f : f = [s \in 1 .. 2 * k |-> IF s <= k THEN EntryIn(h, h.tail + s) ELSE m + (s - k)]
    BY <1>2
  <1>5. g = [slots |-> f, tail |-> k - 1]
    BY <1>2, <1>4 DEF Twice
  <1>6. g.slots = f /\ g.tail = k - 1
    BY <1>2, <1>5
  <1>7. ASSUME NEW s \in 1 .. k PROVE f[s] = ents[last + s] /\ f[s] \in 1 .. m /\ s \in Int /\ last + s \in Int
    <2>1. s \in 1 .. 2 * k /\ s <= k /\ s \in Int /\ last + s \in Int
      BY <1>2, <1>3
    <2>2. f[s] = EntryIn(h, h.tail + s)
      BY <1>2, <1>4, <2>1
    <2>3. f[s] = ents[last + s]
      BY <1>2, <1>33, <2>1, <2>2
    <2> QED BY <1>2, <1>32, <2>1, <2>3
  <1>8. ASSUME NEW s \in k + 1 .. 2 * k PROVE f[s] = m + (s - k) /\ f[s] \in m + 1 .. m + k /\ s \in Int
    <2>1. s \in 1 .. 2 * k /\ ~(s <= k) /\ s \in Int
      BY <1>2
    <2>2. f[s] = m + (s - k)
      BY <1>2, <1>4, <2>1
    <2> QED BY <1>2, <2>1, <2>2
  <1>9. \A s \in 1 .. 2 * k : s \in 1 .. k \/ s \in k + 1 .. 2 * k
    BY <1>2
  <1>10. \A s \in 1 .. 2 * k : f[s] \in 1 .. m + k /\ f[s] \in Nat
    <2> TAKE s \in 1 .. 2 * k
    <2>1. CASE s \in 1 .. k
      <3>1. f[s] \in 1 .. m
        BY <1>2, <1>7, <2>1
      <3> QED BY <1>2, <3>1
    <2>2. CASE s \in k + 1 .. 2 * k
      <3>1. f[s] \in m + 1 .. m + k
        BY <1>2, <1>8, <2>2
      <3> QED BY <1>2, <3>1
    <2> QED BY <1>2, <1>9, <2>1, <2>2
  <1>11. f \in Seq(Nat) /\ Len(f) = 2 * k
    <2>1. f \in [1 .. 2 * k -> Nat]
      BY <1>2, <1>4, <1>10
    <2>2. 2 * k \in Nat
      BY <1>2
    <2> QED BY <1>2, <2>1, <2>2
  <1>12. ASSUME NEW s \in 1 .. 2 * k, NEW t \in 1 .. 2 * k, f[s] = f[t] PROVE s = t
    <2>1. CASE s \in 1 .. k /\ t \in 1 .. k
      <3>1. ents[last + s] = ents[last + t] /\ last + s \in Int /\ last + t \in Int
        BY <1>2, <1>7, <1>12, <2>1
      <3>2. PICK x, y \in Int : x = last + s /\ y = last + t
        BY <1>2, <3>1
      <3>3. x = y \/ x - y >= k \/ y - x >= k
        BY <1>2, <1>31, <3>1, <3>2
      <3> QED BY <1>2, <1>3, <2>1, <3>2, <3>3
    <2>2. CASE s \in k + 1 .. 2 * k /\ t \in k + 1 .. 2 * k
      <3>1. m + (s - k) = m + (t - k) /\ s \in Int /\ t \in Int
        BY <1>2, <1>8, <1>12, <2>2
      <3> QED BY <1>2, <3>1
    <2>3. CASE s \in 1 .. k /\ t \in k + 1 .. 2 * k
      <3>1. f[s] \in 1 .. m /\ f[t] \in m + 1 .. m + k
        BY <1>2, <1>7, <1>8, <2>3
      <3> QED BY <1>2, <1>12, <3>1
    <2>4. CASE t \in 1 .. k /\ s \in k + 1 .. 2 * k
      <3>1. f[t] \in 1 .. m /\ f[s] \in m + 1 .. m + k
        BY <1>2, <1>7, <1>8, <2>4
      <3> QED BY <1>2, <1>12, <3>1
    <2> QED BY <1>2, <1>9, <2>1, <2>2, <2>3, <2>4
  <1>13. Size(g) = 2 * k
    BY <1>2, <1>6, <1>11 DEF Size
  <1>14. HeaderIn(g, m + k)
    <2>1. g \in Headers
      BY <1>2, <1>5, <1>11 DEF Headers
    <2>2. Size(g) >= 1 /\ g.tail < Size(g)
      BY <1>2, <1>6, <1>13
    <2> QED BY <1>2, <1>6, <1>10, <1>12, <1>13, <2>1, <2>2 DEF HeaderIn
  <1>15. ASSUME NEW r \in 0 .. 2 * k - 1 PROVE g.slots[r + 1] = IF r < k THEN ents[last + (r + 1)] ELSE m + ((r + 1) - k)
    <2>1. PICK s \in 1 .. 2 * k : s = r + 1
      BY <1>2
    <2>2. r < k => s \in 1 .. k
      BY <1>2, <2>1
    <2>3. ~(r < k) => s \in k + 1 .. 2 * k
      BY <1>2, <2>1
    <2>4. CASE r < k
      BY <1>2, <1>6, <1>7, <2>1, <2>2, <2>4
    <2>5. CASE ~(r < k)
      BY <1>2, <1>6, <1>8, <2>1, <2>3, <2>5
    <2> QED BY <1>2, <2>4, <2>5
  <1>16. ASSUME NEW e \in 1 .. m + k PROVE e \in SlotsOf(g)
    <2>1. CASE e <= m
      <3>1. e \in 1 .. Len(ks)
        BY <1>2, <2>1
      <3>2. PICK q \in Int : last - k < q /\ q <= last /\ ents[q] = e
        BY <1>2, <1>30, <3>1 DEF Circular
      <3>3. PICK s \in 1 .. k : s = (q - last) + k
        BY <1>2, <1>3, <3>2
      <3>4. last + s = q + k
        BY <1>2, <1>3, <3>2, <3>3
      <3>5. ents[last + s] = e
        BY <1>2, <1>32, <3>2, <3>4
      <3>6. f[s] = e /\ s \in 1 .. Size(g)
        BY <1>2, <1>7, <1>13, <3>5
      <3> QED BY <1>2, <1>6, <3>6 DEF SlotsOf
    <2>2. CASE ~(e <= m)
      <3>1. PICK s \in k + 1 .. 2 * k : s = (e - m) + k
        BY <1>2, <2>2
      <3>0. s \in 1 .. 2 * k
        BY <1>2, <3>1
      <3>4. s \in 1 .. Size(g)
        BY <1>13, <3>0
      <3>5. m + (s - k) = e
        <4>1. \A a, b, c, d \in Int : d = (a - b) + c => b + (d - c) = a
          OBVIOUS
        <4>2. m \in Int /\ k \in Int /\ e \in Int /\ s \in Int
          BY <1>2, <3>1
        <4> QED BY <3>1, <4>1, <4>2
      <3>2. m + (s - k) = e /\ s \in 1 .. Size(g)
        BY <3>4, <3>5
      <3>3. f[s] = e
        BY <1>2, <1>8, <3>2
      <3> QED BY <1>2, <1>6, <3>2, <3>3 DEF SlotsOf
    <2> QED BY <1>2, <2>1, <2>2
  <1> QED BY <1>2, <1>6, <1>13, <1>14, <1>15, <1>16 DEF TwiceOf

\* The entries by number in an index of twice the slots: those of the last blocks stay.
TwiceFrom(g, ents, last, k, m) ==
  /\ \A q \in Int : EntryIn(g, q + (g.tail - last)) = ents[q] \/ EntryIn(g, q + (g.tail - last)) \in m + 1 .. m + k
  /\ \A q \in Int : last - k < q /\ q <= last => EntryIn(g, q + (g.tail - last)) = ents[q]
  /\ \A q \in Int : last < q /\ q <= last + k => EntryIn(g, q + (g.tail - last)) = m + (q - last)
LEMMA TwiceEnts ==
  ASSUME NEW hs, NEW ks, NEW last, NEW ents, NEW g, NEW k \in Nat \ {0}, NEW m \in Nat, Doubling(hs, ks, last, ents, g, k, m)
  PROVE  TwiceFrom(g, ents, last, k, m)
  <1>1. /\ HeaderIn(g, m + k) /\ Size(g) = 2 * k /\ g.tail = k - 1
        /\ \A r \in 0 .. 2 * k - 1 : g.slots[r + 1] = IF r < k THEN ents[last + (r + 1)] ELSE m + ((r + 1) - k)
    BY TwiceIs DEF TwiceOf
  <1>2. Circular(ents, m, k, last)
    BY EntsAre DEF Doubling
  <1>3. last \in Int /\ \A q \in Int : ents[q] \in 1 .. m
    BY <1>2 DEF Circular
  <1>4. PICK n \in Nat \ {0} : n = 2 * k
    OBVIOUS
  <1>5. \A r \in 0 .. n - 1 : EntryIn(g, r) = g.slots[r + 1]
    <2>1. \A r \in 0 .. Size(g) - 1 : EntryIn(g, r) = g.slots[r + 1]
      BY <1>1, EntryIs
    <2> QED BY <1>1, <1>4, <2>1
  <1>6. ASSUME NEW q \in Int, NEW x \in Int, x = q + ((k - 1) - last), 0 <= x, x < k
        PROVE  EntryIn(g, x) = ents[q]
    <2>1. x \in 0 .. n - 1 /\ x \in 0 .. 2 * k - 1 /\ x < k /\ last + (x + 1) = q + k
      BY <1>3, <1>4, <1>6
    <2>2. EntryIn(g, x) = ents[last + (x + 1)]
      BY <1>1, <1>5, <2>1
    <2>3. ents[q + k] = ents[q]
      BY <1>2 DEF Circular
    <2> QED BY <2>1, <2>2, <2>3
  <1>7. ASSUME NEW q \in Int, NEW x \in Int, x = q + ((k - 1) - last), k <= x, x < n
        PROVE  EntryIn(g, x) = m + (q - last)
    <2>1. x \in 0 .. n - 1 /\ x \in 0 .. 2 * k - 1 /\ ~(x < k) /\ (x + 1) - k = q - last
      BY <1>3, <1>4, <1>7
    <2> QED BY <1>1, <1>5, <2>1
  <1>8. ASSUME NEW q \in Int, NEW x \in Int, x = q + ((k - 1) - last)
        PROVE  EntryIn(g, x) = ents[q] \/ EntryIn(g, x) \in m + 1 .. m + k
    <2>1. PICK d \in Int : x % n \in 0 .. n - 1 /\ x = n * d + (x % n)
      BY Quotient
    <2>2. PICK r : r = x % n
      OBVIOUS
    <2>3. r \in Int /\ r \in 0 .. n - 1 /\ x = n * d + r
      BY <2>1, <2>2
    <2>4. x % n = r % n
      BY <2>2, <2>3, Remains
    <2>5. EntryIn(g, x) = EntryIn(g, r)
      <3>1. Size(g) = n
        BY <1>1, <1>4
      <3>2. \A a, b \in Int : EntryIn(g, a) = EntryIn(g, b) <=> a % Size(g) = b % Size(g)
        BY <1>1, EntryIs
      <3>3. \A a, b \in Int : a % n = b % n => EntryIn(g, a) = EntryIn(g, b)
        BY <3>1, <3>2
      <3> QED BY <2>3, <2>4, <3>3
    <2>6. PICK y \in Int : y = r - ((k - 1) - last)
      BY <1>3, <2>3
    <2>7. r = y + ((k - 1) - last)
      BY <1>3, <2>3, <2>6
    <2>8. PICK b \in Int : b = 2 * d
      OBVIOUS
    <2>9. PICK z \in Int : z = n * d
      OBVIOUS
    <2>10. z = k * b
      BY <1>4, <2>8, <2>9
    <2>11. q = z + y
      BY <1>3, <1>8, <2>3, <2>6, <2>9
    <2>12. ents[k * b + y] = ents[y]
      BY <1>2 DEF Circular
    <2>13. ents[q] = ents[y]
      BY <2>10, <2>11, <2>12
    <2>14. CASE r < k
      <3>1. EntryIn(g, r) = ents[y]
        BY <1>6, <2>3, <2>7, <2>14
      <3> QED BY <2>5, <2>13, <3>1
    <2>15. CASE ~(r < k)
      <3>1. EntryIn(g, r) = m + (y - last)
        BY <1>7, <2>3, <2>7, <2>15
      <3>2. m + (y - last) \in m + 1 .. m + k
        BY <1>3, <1>4, <2>3, <2>7, <2>15
      <3> QED BY <2>5, <3>1, <3>2
    <2> QED BY <2>3, <2>14, <2>15
  <1>9. ASSUME NEW q \in Int PROVE /\ q + (g.tail - last) \in Int /\ q + (g.tail - last) = q + ((k - 1) - last)
                                   /\ last - k < q /\ q <= last => 0 <= q + ((k - 1) - last) /\ q + ((k - 1) - last) < k
                                   /\ last < q /\ q <= last + k => k <= q + ((k - 1) - last) /\ q + ((k - 1) - last) < n
    BY <1>1, <1>3, <1>4
  <1>10. \A q \in Int : EntryIn(g, q + (g.tail - last)) = ents[q] \/ EntryIn(g, q + (g.tail - last)) \in m + 1 .. m + k
    BY <1>8, <1>9
  <1>11. \A q \in Int : last - k < q /\ q <= last => EntryIn(g, q + (g.tail - last)) = ents[q]
    BY <1>6, <1>9
  <1>12. \A q \in Int : last < q /\ q <= last + k => EntryIn(g, q + (g.tail - last)) = m + (q - last)
    BY <1>7, <1>9
  <1> QED BY <1>10, <1>11, <1>12 DEF TwiceFrom

Unkeyed(n) == [i \in 1 .. n |-> None]

\* new_block_index, when the index is full of the last blocks.
GrownIn(hs, ks, last, ents, g, k, m, new, kn, en) ==
  /\ Indexed(new, kn, last, en)
  /\ Len(new) = Len(hs) + 1 /\ Newest(new) = g /\ Size(g) = 2 * k /\ \A j \in 1 .. Len(hs) : new[j] = hs[j]
  /\ Len(kn) = m + k /\ \A e \in 1 .. m : kn[e] = ks[e]
  /\ \A q \in Int : last - k < q /\ q <= last => en[q] = ents[q]
  /\ \A q \in Int : last < q /\ q <= last + k => en[q] = m + (q - last)
Grows(hs, ks, last, ents, g, k, m, new, kn, en) ==
  /\ Doubling(hs, ks, last, ents, g, k, m) /\ last \in Numbers
  /\ \A q \in Int : last - k < q /\ q <= last => ks[ents[q]] = First(q)
  /\ new = Append(hs, g) /\ kn = ks \o Unkeyed(k) /\ en = EntsOf(new, last)
LEMMA Grow ==
  ASSUME NEW hs, NEW ks, NEW last, NEW ents, NEW g, NEW k \in Nat \ {0}, NEW m \in Nat, NEW new, NEW kn, NEW en,
         Grows(hs, ks, last, ents, g, k, m, new, kn, en)
  PROVE  GrownIn(hs, ks, last, ents, g, k, m, new, kn, en)
  <1>00. /\ Doubling(hs, ks, last, ents, g, k, m) /\ last \in Numbers
         /\ \A q \in Int : last - k < q /\ q <= last => ks[ents[q]] = First(q)
         /\ new = Append(hs, g) /\ kn = ks \o Unkeyed(k) /\ en = EntsOf(new, last)
    BY DEF Grows
  <1> USE <1>00
  <1>1. /\ HeaderIn(g, m + k) /\ Size(g) = 2 * k /\ g.tail = k - 1
        /\ \A r \in 0 .. 2 * k - 1 : g.slots[r + 1] = IF r < k THEN ents[last + (r + 1)] ELSE m + ((r + 1) - k)
        /\ \A e \in 1 .. m + k : e \in SlotsOf(g)
    BY TwiceIs DEF TwiceOf
  <1>0. Indexed(hs, ks, last, ents) /\ m = Len(ks)
    BY DEF Doubling
  <1>2. Circular(ents, m, k, last) /\ HeaderIn(Newest(hs), m)
    BY EntsAre DEF Doubling
  <1>3. last \in Int /\ \A q \in Int : ents[q] \in 1 .. m
    BY <1>2 DEF Circular
  <1>4. hs \in Seq(Headers) /\ Len(hs) >= 1 /\ ks \in Seq(Int \cup {None})
    BY <1>0 DEF Indexed
  <1>5. g \in Headers
    BY <1>1 DEF HeaderIn
  <1>6. new \in Seq(Headers) /\ Len(new) = Len(hs) + 1 /\ new[Len(new)] = g /\ \A j \in 1 .. Len(hs) : new[j] = hs[j]
    BY <1>4, <1>5
  <1>7. Newest(new) = g
    BY <1>6 DEF Newest
  <1>8. /\ kn \in Seq(Int \cup {None}) /\ Len(kn) = m + k /\ \A e \in 1 .. m : kn[e] = ks[e]
        /\ \A e \in m + 1 .. m + k : kn[e] = None
    <2>1. PICK u : u = Unkeyed(k)
      OBVIOUS
    <2>2. u \in Seq(Int \cup {None}) /\ Len(u) = k /\ \A i \in 1 .. k : u[i] = None
      BY <2>1 DEF Unkeyed
    <2>3. Joins(kn, ks, u)
      BY <2>1 DEF Joins
    <2>4. /\ kn \in Seq(Int \cup {None}) /\ Len(kn) = m + k /\ \A e \in 1 .. m : kn[e] = ks[e]
          /\ \A e \in m + 1 .. m + k : kn[e] = u[e - m]
      <3>1. PICK S : S = Int \cup {None}
        OBVIOUS
      <3>2. ks \in Seq(S) /\ u \in Seq(S)
        BY <1>4, <2>2, <3>1
      <3>3. Len(ks) = m /\ Len(u) = k
        BY <1>0, <2>2
      <3>4. JoinOf(kn, ks, u, m, k, S)
        BY <2>3, <3>2, <3>3, Joined
      <3> QED BY <3>1, <3>4 DEF JoinOf
    <2>5. \A e \in m + 1 .. m + k : e - m \in 1 .. k
      OBVIOUS
    <2> QED BY <2>2, <2>4, <2>5
  <1>9. \A q \in Int : en[q] = EntryIn(g, q + (g.tail - last))
    BY <1>7 DEF EntsOf
  <1>101. TwiceFrom(g, ents, last, k, m)
    BY TwiceEnts
  <1>102. \A q \in Int : EntryIn(g, q + (g.tail - last)) = ents[q] \/ EntryIn(g, q + (g.tail - last)) \in m + 1 .. m + k
    BY <1>101 DEF TwiceFrom
  <1>103. \A q \in Int : last - k < q /\ q <= last => EntryIn(g, q + (g.tail - last)) = ents[q]
    BY <1>101 DEF TwiceFrom
  <1>104. \A q \in Int : last < q /\ q <= last + k => EntryIn(g, q + (g.tail - last)) = m + (q - last)
    BY <1>101 DEF TwiceFrom
  <1>11. ASSUME NEW q \in Int, en[q] \in 1 .. m PROVE en[q] = ents[q]
    <2>1. ~(en[q] \in m + 1 .. m + k)
      BY <1>11
    <2> QED BY <1>9, <1>102, <2>1
  <1>12. \A h : HeaderIn(h, m) => HeaderIn(h, m + k)
    <2>1. \A e \in 1 .. m : e \in 1 .. m + k
      OBVIOUS
    <2> QED BY <2>1 DEF HeaderIn
  <1>13. \A h : HeaderIn(h, m) => \A e \in SlotsOf(h) : e \in 1 .. m
    BY DEF HeaderIn, SlotsOf
  <1>14. ASSUME NEW j \in 1 .. Len(hs) PROVE HeaderIn(new[j], m + k) /\ InStep(new[j], kn, en)
    <2>1. PICK h : h = hs[j]
      OBVIOUS
    <2>2. new[j] = h /\ HeaderIn(h, m) /\ InStep(h, ks, ents)
      BY <1>0, <1>6, <2>1 DEF Indexed
    <2>3. PICK p \in Int : Phased(h, p, ks) /\ Aligned(h, p, ents)
      BY <2>2 DEF InStep
    <2>4. Phased(h, p, kn)
      <3>1. \A e \in SlotsOf(h) : kn[e] = ks[e]
        BY <1>8, <1>13, <2>2
      <3>2. Phased(h, p, ks)
        BY <2>3
      <3> HIDE <1>00
      <3> QED BY <3>1, <3>2 DEF Phased
    <2>5. Aligned(h, p, en)
      <3> SUFFICES ASSUME NEW q \in Int, en[q] \in SlotsOf(h) PROVE en[q] = EntryIn(h, q + p)
        BY DEF Aligned
      <3>1. en[q] = ents[q]
        BY <1>11, <1>13, <2>2
      <3> QED BY <2>3, <3>1 DEF Aligned
    <2> QED BY <1>12, <2>2, <2>4, <2>5 DEF InStep
  <1>15. Phased(g, g.tail - last, kn)
    <2> SUFFICES ASSUME NEW e \in SlotsOf(g), kn[e] /= None
                 PROVE  \E q \in Int : kn[e] = First(q) /\ e = EntryIn(g, q + (g.tail - last))
      BY DEF Phased
    <2>1. e \in 1 .. m + k
      BY <1>1 DEF HeaderIn, SlotsOf
    <2>2. e \in 1 .. m
      BY <1>8, <2>1
    <2>3. PICK q \in Int : last - k < q /\ q <= last /\ ents[q] = e
      BY <1>2, <2>2 DEF Circular
    <2>4. kn[e] = First(q)
      BY <1>8, <2>2, <2>3
    <2> QED BY <1>103, <2>3, <2>4
  <1>16. Aligned(g, g.tail - last, en)
    BY <1>9 DEF Aligned
  <1>17. InStep(g, kn, en)
    <2>1. g.tail - last \in Int
      BY <1>1, <1>3
    <2> QED BY <1>15, <1>16, <2>1 DEF InStep
  <1>18. ASSUME NEW j \in 1 .. Len(new) PROVE HeaderIn(new[j], Len(kn)) /\ InStep(new[j], kn, en)
    <2>1. j \in 1 .. Len(hs) \/ j = Len(new)
      BY <1>4, <1>6
    <2> QED BY <1>1, <1>6, <1>8, <1>14, <1>17, <2>1
  <1>19. ASSUME NEW j \in 1 .. Len(new), j /= Len(new) PROVE Recent(kn[EntryIn(new[j], new[j].tail)])
    <2>1. j \in 1 .. Len(hs)
      BY <1>4, <1>6, <1>19
    <2>2. PICK h : h = hs[j] /\ h = new[j]
      BY <1>6, <2>1
    <2>3. HeaderIn(h, m)
      BY <1>0, <2>1, <2>2 DEF Indexed
    <2>4. EntryIn(h, h.tail) \in 1 .. m
      BY <2>3, SizeIs, EntryIs
    <2>5. Recent(ks[EntryIn(h, h.tail)])
      <3>1. CASE j /= Len(hs)
        BY <1>0, <2>1, <2>2, <3>1 DEF Indexed
      <3>2. CASE j = Len(hs)
        <4>1. h = Newest(hs) /\ h.tail \in Int
          BY <2>2, <2>3, <3>2, SizeIs DEF Newest
        <4>2. EntryIn(h, h.tail + 0) = ents[last + 0]
          <5>1. EntryIn(Newest(hs), Newest(hs).tail + 0) = ents[last + 0]
            <6>1. \A x \in Int : EntryIn(Newest(hs), Newest(hs).tail + x) = ents[last + x]
              BY <1>0, EntsAre
            <6>2. 0 \in Int
              OBVIOUS
            <6> QED BY <6>1, <6>2, Zenon
          <5> QED BY <4>1, <5>1, Zenon
        <4>3. h.tail + 0 = h.tail /\ last + 0 = last
          BY <1>3, <4>1
        <4>4. EntryIn(h, h.tail) = ents[last]
          BY <4>2, <4>3
        <4>5. last - k < last /\ last <= last
          BY <1>3
        <4> QED BY <1>3, <4>4, <4>5 DEF Recent
      <3> QED BY <3>1, <3>2
    <2> QED BY <1>8, <2>2, <2>4, <2>5
  <1>20. Indexed(new, kn, last, en)
    <2>1. Len(new) >= 1
      BY <1>4, <1>6
    <2>2. \A e \in 1 .. Len(kn) : e \in SlotsOf(g)
      BY <1>1, <1>8
    <2> QED BY <1>3, <1>6, <1>7, <1>8, <1>15, <1>18, <1>19, <2>1, <2>2 DEF Indexed
  <1> QED BY <1>1, <1>6, <1>7, <1>8, <1>9, <1>103, <1>104, <1>20 DEF GrownIn

-----------------------------------------------------------------------------
(* The blocks of an implicit producer by number: each in the entry of its number, among the last ones. *)
Within(hs, last, q) == last - Size(Newest(hs)) < q /\ q <= last
HousedIn(hs, vs, last, ents) == [q \in Int |-> IF Within(hs, last, q) THEN vs[ents[q]] ELSE None]
\* From a block's entry to the last one the keys are those of the numbers.
Keyed(ks, ents, q, last) == \A r \in Int : q <= r /\ r <= last => ks[ents[r]] = First(r)
Stored(hs, ks, vs, last, ents, housed) ==
  /\ Indexed(hs, ks, last, ents)
  /\ vs \in Seq(Blocks \cup {None}) /\ Len(vs) = Len(ks)
  /\ housed = HousedIn(hs, vs, last, ents)
  /\ \A q \in Int : housed[q] /= None => Keyed(ks, ents, q, last)

LEMMA HousedAre ==
  ASSUME NEW hs, NEW ks, NEW vs, NEW last, NEW ents, NEW housed, Stored(hs, ks, vs, last, ents, housed)
  PROVE  /\ housed \in [Int -> Blocks \cup {None}] /\ last \in Int
         /\ \A q \in Int : housed[q] /= None => Within(hs, last, q) /\ housed[q] \in Blocks /\ ks[ents[q]] = First(q)
         /\ \A q \in Int : Within(hs, last, q) => housed[q] = vs[ents[q]]
         /\ \A q \in Int : ents[q] \in 1 .. Len(vs)
         /\ \A e \in 1 .. Len(vs) : vs[e] \in Blocks \cup {None} /\ \E q \in Int : Within(hs, last, q) /\ ents[q] = e /\ housed[q] = vs[e]
  <1>1. PICK k \in Nat \ {0} : k = Size(Newest(hs))
    BY EntsAre DEF Stored
  <1>2. Circular(ents, Len(ks), Size(Newest(hs)), last) /\ last \in Int
    BY EntsAre DEF Stored
  <1>3. (\A q \in Int : ents[q] \in 1 .. Len(vs)) /\ \A e \in 1 .. Len(vs) : \E q \in Int : Within(hs, last, q) /\ ents[q] = e
    BY <1>2 DEF Circular, Stored, Within
  <1>4. \A e \in 1 .. Len(vs) : vs[e] \in Blocks \cup {None}
    BY DEF Stored
  <1>5. \A q \in Int : housed[q] = IF Within(hs, last, q) THEN vs[ents[q]] ELSE None
    BY DEF Stored, HousedIn
  <1>6. housed \in [Int -> Blocks \cup {None}]
    <2>1. \A q \in Int : (IF Within(hs, last, q) THEN vs[ents[q]] ELSE None) \in Blocks \cup {None}
      BY <1>3, <1>4
    <2>2. housed = [q \in Int |-> IF Within(hs, last, q) THEN vs[ents[q]] ELSE None]
      BY DEF Stored, HousedIn
    <2> QED BY <2>1, <2>2
  <1>7. ASSUME NEW q \in Int, housed[q] /= None PROVE Within(hs, last, q) /\ housed[q] \in Blocks /\ ks[ents[q]] = First(q)
    <2>1. Within(hs, last, q)
      BY <1>5, <1>7
    <2>2. q <= last /\ q <= q
      BY <2>1 DEF Within
    <2> QED BY <1>6, <1>7, <2>1, <2>2 DEF Stored, Keyed
  <1>8. \A e \in 1 .. Len(vs) : \E q \in Int : Within(hs, last, q) /\ ents[q] = e /\ housed[q] = vs[e]
    BY <1>3, <1>5
  <1> QED BY <1>2, <1>3, <1>4, <1>5, <1>6, <1>7, <1>8

\* The next entry by number: the one a whole index back.
LEMMA NextEntry ==
  ASSUME NEW hs, NEW ks, NEW vs, NEW last, NEW ents, NEW housed, Stored(hs, ks, vs, last, ents, housed)
  PROVE  /\ EntryIn(Newest(hs), Newest(hs).tail + 1) = ents[last + 1] /\ ents[last + 1] \in 1 .. Len(vs) /\ last + 1 \in Int
         /\ ks[ents[last + 1]] = None => vs[ents[last + 1]] = None
         /\ vs[ents[last + 1]] /= None => \A q \in Int : Within(hs, last, q) => ks[ents[q]] = First(q)
  <1>1. PICK k \in Nat \ {0} : k = Size(Newest(hs))
    BY EntsAre DEF Stored
  <1>2. Circular(ents, Len(ks), k, last) /\ last \in Int
    BY <1>1, EntsAre DEF Stored
  <1>3. EntryIn(Newest(hs), Newest(hs).tail + 1) = ents[last + 1]
    <2>1. \A x \in Int : EntryIn(Newest(hs), Newest(hs).tail + x) = ents[last + x]
      BY EntsAre DEF Stored
    <2>2. 1 \in Int
      OBVIOUS
    <2> QED BY <2>1, <2>2, Zenon
  <1>4. PICK n \in Int : n = last + 1
    BY <1>2
  <1>5. PICK q \in Int : q = n - k
    OBVIOUS
  <1>6. ents[q] = ents[n] /\ ents[n] \in 1 .. Len(vs)
    BY <1>2, <1>5 DEF Circular, Stored
  <1>7. Within(hs, last, q) /\ \A r \in Int : Within(hs, last, r) => q <= r /\ r <= last
    BY <1>1, <1>2, <1>4, <1>5 DEF Within
  <1>8. housed[q] = vs[ents[n]]
    BY <1>6, <1>7, HousedAre
  <1>9. vs[ents[n]] /= None => \A r \in Int : Within(hs, last, r) => ks[ents[r]] = First(r)
    BY <1>7, <1>8 DEF Stored, Keyed
  <1>10. vs[ents[n]] /= None => ks[ents[n]] = First(q) /\ First(q) \in Int
    BY <1>6, <1>8, HousedAre, FirstNumber
  <1>11. ks[ents[n]] = None => vs[ents[n]] = None
    BY <1>10, NoneAssumption
  <1> QED BY <1>3, <1>4, <1>6, <1>9, <1>11

\* insert_block_index_entry when the next slot, of the entry e, is free.
Inserting(hs, ks, vs, last, ents, n, e, new, kn) ==
  /\ n = last + 1 /\ n \in Numbers /\ e = ents[n] /\ vs[e] = None
  /\ new = Tailed(hs, (Newest(hs).tail + 1) % Size(Newest(hs))) /\ kn = [ks EXCEPT ![e] = First(n)]
Inserted(hs, ks, vs, n, ents, housed, e, new, kn) ==
  /\ Stored(new, kn, vs, n, ents, housed) /\ kn[e] = First(n)
  /\ Len(new) = Len(hs) /\ \A j \in 1 .. Len(hs) : new[j].slots = hs[j].slots
  /\ Len(kn) = Len(ks) /\ \A f \in 1 .. Len(ks) : f /= e => kn[f] = ks[f]
LEMMA InsertPlain ==
  ASSUME NEW hs, NEW ks, NEW vs, NEW last, NEW ents, NEW housed, Stored(hs, ks, vs, last, ents, housed),
         NEW n, NEW e, NEW new, NEW kn, Inserting(hs, ks, vs, last, ents, n, e, new, kn)
  PROVE  Inserted(hs, ks, vs, n, ents, housed, e, new, kn)
  <1>. vs[e] = None
    BY DEF Inserting
  <1>0. Indexed(hs, ks, last, ents)
    BY DEF Stored
  <1>1. PICK k \in Nat \ {0} : k = Size(Newest(hs))
    BY <1>0, EntsAre
  <1>2. Circular(ents, Len(ks), k, last) /\ last \in Int /\ n \in Int /\ n = last + 1 /\ e = ents[n]
    BY <1>0, <1>1, EntsAre DEF Inserting
  <1>3. Indexed(hs, kn, last, ents) /\ Len(kn) = Len(ks) /\ kn[e] = First(n) /\ \A f \in 1 .. Len(ks) : f /= e => kn[f] = ks[f]
    <2>1. Keying(ks, ents, n, e, kn)
      BY DEF Inserting, Keying
    <2> QED BY <1>0, <2>1, PutKey
  <1>30. Indexed(hs, kn, last, ents)
    BY <1>3
  <1>4. /\ Indexed(new, kn, last + 1, ents) /\ Len(new) = Len(hs) /\ Size(Newest(new)) = Size(Newest(hs))
        /\ \A j \in 1 .. Len(hs) : new[j].slots = hs[j].slots
    <2>1. Moving(hs, 1, new)
      BY DEF Inserting, Moving
    <2> QED BY <1>30, <2>1, MoveTail
  <1>20. n = last + 1
    BY DEF Inserting
  <1>5. Indexed(new, kn, n, ents)
    BY <1>4, <1>20
  <1>6. PICK o \in Int : o = n - k
    BY <1>2
  <1>7. ents[o] = e /\ \A q \in Int : o < q /\ q < n => ents[q] /= e
    BY <1>2, <1>6 DEF Circular
  <1>8. \A q \in Int : /\ Within(hs, last, q) <=> o <= q /\ q < n
                       /\ Within(new, n, q) <=> o < q /\ q <= n
    BY <1>1, <1>2, <1>4, <1>6 DEF Within
  <1>9. housed = HousedIn(new, vs, n, ents)
    <2>1. housed = [q \in Int |-> IF Within(hs, last, q) THEN vs[ents[q]] ELSE None]
      BY DEF Stored, HousedIn
    <2>2. \A q \in Int : (IF Within(hs, last, q) THEN vs[ents[q]] ELSE None) = (IF Within(new, n, q) THEN vs[ents[q]] ELSE None)
      <3> SUFFICES ASSUME NEW q \in Int PROVE (IF Within(hs, last, q) THEN vs[ents[q]] ELSE None) = (IF Within(new, n, q) THEN vs[ents[q]] ELSE None)
        OBVIOUS
      <3>1. CASE q = o
        BY <1>7, <1>8, <3>1
      <3>2. CASE q = n
        BY <1>2, <1>8, <3>2
      <3>3. CASE q /= o /\ q /= n
        <4>1. Within(hs, last, q) <=> Within(new, n, q)
          BY <1>2, <1>8, <3>3
        <4> QED BY <4>1
      <3> QED BY <3>1, <3>2, <3>3
    <2> QED BY <2>1, <2>2 DEF HousedIn
  <1>10. ASSUME NEW q \in Int, housed[q] /= None PROVE Keyed(kn, ents, q, n)
    <2>1. Within(hs, last, q) /\ housed[q] = vs[ents[q]]
      BY <1>10, HousedAre
    <2>2. o < q /\ q < n
      <3>1. q /= o
        BY <1>7, <1>10, <2>1
      <3> QED BY <1>8, <2>1, <3>1
    <2>3. Keyed(ks, ents, q, last)
      BY <1>10 DEF Stored
    <2> SUFFICES ASSUME NEW r \in Int, q <= r, r <= n PROVE kn[ents[r]] = First(r)
      BY DEF Keyed
    <2>4. CASE r = n
      BY <1>2, <1>3, <2>4
    <2>5. CASE r /= n
      <3>1. o < r /\ r < n /\ r <= last
        BY <1>2, <2>2, <2>5
      <3>2. ents[r] /= e /\ ents[r] \in 1 .. Len(ks)
        BY <1>2, <1>7, <3>1 DEF Circular
      <3>3. ks[ents[r]] = First(r)
        BY <2>3, <3>1 DEF Keyed
      <3> QED BY <1>3, <3>2, <3>3
    <2> QED BY <2>4, <2>5
  <1>11. vs \in Seq(Blocks \cup {None}) /\ Len(vs) = Len(kn)
    BY <1>3 DEF Stored
  <1>12. Stored(new, kn, vs, n, ents, housed)
    BY <1>5, <1>9, <1>10, <1>11 DEF Stored
  <1> QED BY <1>3, <1>4, <1>12 DEF Inserted

\* new_block_index, when the next slot is not free: the blocks keep their entries, and the next entry is new.
Growing(hs, ks, vs, last, ents, g, k, m, new, kn, vn, en) ==
  /\ Doubling(hs, ks, last, ents, g, k, m) /\ last \in Numbers /\ vs[ents[last + 1]] /= None
  /\ new = Append(hs, g) /\ kn = ks \o Unkeyed(k) /\ vn = vs \o Unkeyed(k) /\ en = EntsOf(new, last)
GrownStored(hs, ks, vs, last, ents, housed, g, k, m, new, kn, vn, en) ==
  /\ Stored(new, kn, vn, last, en, housed)
  /\ en[last + 1] = m + 1 /\ vn[m + 1] = None /\ m = Len(ks) /\ Len(kn) = m + k /\ k \in Nat \ {0}
  /\ \A e \in 1 .. m : kn[e] = ks[e]
  /\ Len(new) = Len(hs) + 1 /\ Newest(new) = g /\ \A j \in 1 .. Len(hs) : new[j] = hs[j]
  /\ \A q \in Int : Within(hs, last, q) => en[q] = ents[q]
LEMMA GrowStored ==
  ASSUME NEW hs, NEW ks, NEW vs, NEW last, NEW ents, NEW housed, Stored(hs, ks, vs, last, ents, housed),
         NEW g, NEW k, NEW m, NEW new, NEW kn, NEW vn, NEW en, Growing(hs, ks, vs, last, ents, g, k, m, new, kn, vn, en)
  PROVE  GrownStored(hs, ks, vs, last, ents, housed, g, k, m, new, kn, vn, en)
  <1>0. /\ Doubling(hs, ks, last, ents, g, k, m) /\ last \in Numbers /\ vs[ents[last + 1]] /= None
        /\ new = Append(hs, g) /\ kn = ks \o Unkeyed(k) /\ vn = vs \o Unkeyed(k) /\ en = EntsOf(new, last)
    BY DEF Growing
  <1>1. k \in Nat \ {0} /\ m \in Nat /\ k = Size(Newest(hs)) /\ m = Len(ks) /\ Indexed(hs, ks, last, ents)
    BY <1>0 DEF Doubling
  <1>2. last \in Int /\ Circular(ents, m, k, last) /\ Len(vs) = m /\ vs \in Seq(Blocks \cup {None})
    BY <1>1, EntsAre DEF Stored
  <1>3. \A q \in Int : Within(hs, last, q) <=> last - k < q /\ q <= last
    BY <1>1 DEF Within
  <1>4. \A q \in Int : last - k < q /\ q <= last => ks[ents[q]] = First(q)
    BY <1>0, <1>3, NextEntry
  <1>5. /\ Indexed(new, kn, last, en)
        /\ Len(new) = Len(hs) + 1 /\ Newest(new) = g /\ Size(g) = 2 * k /\ \A j \in 1 .. Len(hs) : new[j] = hs[j]
        /\ Len(kn) = m + k /\ \A e \in 1 .. m : kn[e] = ks[e]
        /\ \A q \in Int : last - k < q /\ q <= last => en[q] = ents[q]
        /\ \A q \in Int : last < q /\ q <= last + k => en[q] = m + (q - last)
    <2>1. Grows(hs, ks, last, ents, g, k, m, new, kn, en)
      BY <1>0, <1>4 DEF Grows
    <2>2. k \in Nat \ {0} /\ m \in Nat
      BY <1>1
    <2>3. GrownIn(hs, ks, last, ents, g, k, m, new, kn, en)
      BY <2>1, <2>2, Grow
    <2> QED BY <2>3 DEF GrownIn
  <1>6. vn \in Seq(Blocks \cup {None}) /\ Len(vn) = m + k /\ (\A e \in 1 .. m : vn[e] = vs[e]) /\ \A e \in m + 1 .. m + k : vn[e] = None
    <2>1. PICK u : u = Unkeyed(k)
      OBVIOUS
    <2>2. u \in Seq(Blocks \cup {None}) /\ Len(u) = k /\ \A i \in 1 .. k : u[i] = None
      BY <1>1, <2>1 DEF Unkeyed
    <2>3. vn = vs \o u
      BY <1>0, <2>1
    <2>4. vn \in Seq(Blocks \cup {None})
      BY <1>2, <2>2, <2>3
    <2>5. Len(vn) = m + k
      <3>1. Len(vs \o u) = Len(vs) + Len(u)
        BY <1>2, <2>2, ConcatProperties
      <3> QED BY <1>2, <2>2, <2>3, <3>1
    <2>6. \A e \in 1 .. m : vn[e] = vs[e]
      BY <1>2, <2>2, <2>3
    <2>7. \A e \in m + 1 .. m + k : vn[e] = u[e - m]
      BY <1>1, <1>2, <2>2, <2>3
    <2>8. \A e \in m + 1 .. m + k : e - m \in 1 .. k
      BY <1>1
    <2> QED BY <2>2, <2>4, <2>5, <2>6, <2>7, <2>8
  <1>7. PICK n \in Nat \ {0} : n = 2 * k /\ n = Size(Newest(new))
    BY <1>1, <1>5
  <1>8. Circular(en, m + k, n, last)
    <2>1. Circular(en, Len(kn), Size(Newest(new)), last)
      BY <1>5, EntsAre
    <2> QED BY <1>5, <1>7, <2>1
  <1>9. \A q \in Int : Within(new, last, q) <=> last - n < q /\ q <= last
    BY <1>7 DEF Within
  <1>10. ASSUME NEW q \in Int, last - n < q, q <= last - k PROVE vn[en[q]] = None
    <2>1. PICK r \in Int : r = q + n
      OBVIOUS
    <2>2. en[q] = en[r]
      BY <1>8, <2>1 DEF Circular
    <2>3. last < r /\ r <= last + k
      <3>1. \A l, d, x \in Int : l - 2 * d < x /\ x <= l - d => l < x + 2 * d /\ x + 2 * d <= l + d
        OBVIOUS
      <3>2. last - 2 * k < q /\ r = q + 2 * k /\ last \in Int /\ k \in Int
        BY <1>1, <1>2, <1>7, <1>10, <2>1
      <3> QED BY <1>10, <3>1, <3>2
    <2>4. en[r] = m + (r - last)
      BY <1>5, <2>3
    <2>5. m + (r - last) \in m + 1 .. m + k
      BY <1>1, <1>2, <2>3
    <2> QED BY <1>6, <2>2, <2>4, <2>5
  <1>11. ASSUME NEW q \in Int, last - k < q, q <= last PROVE vn[en[q]] = vs[ents[q]] /\ kn[en[q]] = ks[ents[q]]
    <2>1. en[q] = ents[q] /\ ents[q] \in 1 .. m
      BY <1>2, <1>5, <1>11 DEF Circular
    <2> QED BY <1>5, <1>6, <2>1
  <1>12. housed = HousedIn(new, vn, last, en)
    <2>1. housed = [q \in Int |-> IF Within(hs, last, q) THEN vs[ents[q]] ELSE None]
      BY DEF Stored, HousedIn
    <2>2. ASSUME NEW q \in Int PROVE (IF Within(hs, last, q) THEN vs[ents[q]] ELSE None) = (IF Within(new, last, q) THEN vn[en[q]] ELSE None)
      <3>1. CASE q <= last - n \/ last < q
        <4>1. ~Within(hs, last, q) /\ ~Within(new, last, q)
          BY <1>1, <1>2, <1>3, <1>7, <1>9, <3>1
        <4> QED BY <4>1
      <3>2. CASE last - n < q /\ q <= last - k
        <4>1. ~Within(hs, last, q) /\ vn[en[q]] = None
          BY <1>1, <1>2, <1>3, <1>10, <3>2
        <4> QED BY <4>1
      <3>3. CASE last - k < q /\ q <= last
        <4>1. Within(hs, last, q) /\ Within(new, last, q) /\ vn[en[q]] = vs[ents[q]]
          BY <1>1, <1>2, <1>3, <1>7, <1>9, <1>11, <3>3
        <4> QED BY <4>1
      <3> QED BY <1>1, <1>2, <1>7, <3>1, <3>2, <3>3
    <2> QED BY <2>1, <2>2 DEF HousedIn
  <1>13. ASSUME NEW q \in Int, housed[q] /= None PROVE Keyed(kn, en, q, last)
    <2>1. Within(hs, last, q)
      BY <1>13, HousedAre
    <2>2. Keyed(ks, ents, q, last)
      BY <1>13 DEF Stored
    <2> SUFFICES ASSUME NEW r \in Int, q <= r, r <= last PROVE kn[en[r]] = First(r)
      BY DEF Keyed
    <2>3. last - k < r
      BY <1>1, <1>2, <1>3, <2>1
    <2>4. kn[en[r]] = ks[ents[r]]
      BY <1>11, <2>3
    <2> QED BY <2>2, <2>4 DEF Keyed
  <1>14. Stored(new, kn, vn, last, en, housed)
    <2>1. Len(vn) = Len(kn)
      BY <1>5, <1>6
    <2> QED BY <1>5, <1>6, <1>12, <1>13, <2>1 DEF Stored
  <1>15. en[last + 1] = m + 1 /\ vn[m + 1] = None
    <2>1. last + 1 \in Int /\ last < last + 1 /\ last + 1 <= last + k /\ m + ((last + 1) - last) = m + 1 /\ m + 1 \in m + 1 .. m + k
      BY <1>1, <1>2
    <2> QED BY <1>5, <1>6, <2>1
  <1> QED BY <1>1, <1>3, <1>5, <1>14, <1>15 DEF GrownStored

\* The block in an entry is another one, or goes.
Replacing(hs, ks, vs, last, ents, q, x, vn) ==
  /\ q \in Int /\ Within(hs, last, q) /\ x \in Blocks \cup {None} /\ vn = [vs EXCEPT ![ents[q]] = x]
  /\ x /= None => Keyed(ks, ents, q, last)
Rehoused(housed, q, x, new) == new = [housed EXCEPT ![q] = x]
LEMMA PutOne ==
  ASSUME NEW hs, NEW ks, NEW vs, NEW last, NEW ents, NEW housed, Stored(hs, ks, vs, last, ents, housed),
         NEW q, NEW x, NEW vn, Replacing(hs, ks, vs, last, ents, q, x, vn), NEW new, Rehoused(housed, q, x, new)
  PROVE  Stored(hs, ks, vn, last, ents, new) /\ Len(vn) = Len(vs)
  <1> new = [housed EXCEPT ![q] = x]
    BY DEF Rehoused
  <1>0. q \in Int /\ Within(hs, last, q) /\ x \in Blocks \cup {None} /\ vn = [vs EXCEPT ![ents[q]] = x]
    BY DEF Replacing
  <1>1. Indexed(hs, ks, last, ents) /\ vs \in Seq(Blocks \cup {None}) /\ Len(vs) = Len(ks)
    BY DEF Stored
  <1>2. PICK k \in Nat \ {0} : k = Size(Newest(hs))
    BY <1>1, EntsAre
  <1>3. Circular(ents, Len(ks), k, last) /\ last \in Int
    BY <1>1, <1>2, EntsAre
  <1>4. ents[q] \in 1 .. Len(vs)
    BY <1>0, <1>1, <1>3 DEF Circular
  <1>5. vn \in Seq(Blocks \cup {None}) /\ Len(vn) = Len(vs) /\ vn[ents[q]] = x /\ \A e \in 1 .. Len(vs) : e /= ents[q] => vn[e] = vs[e]
    BY <1>0, <1>1, <1>4
  <1>6. ASSUME NEW r \in Int, Within(hs, last, r), r /= q PROVE vn[ents[r]] = vs[ents[r]]
    <2>1. last - k < r /\ r <= last /\ last - k < q /\ q <= last
      BY <1>0, <1>2, <1>6 DEF Within
    <2>2. ~(q - r >= k) /\ ~(r - q >= k)
      BY <1>0, <1>2, <1>3, <2>1
    <2>3. ents[r] /= ents[q]
      BY <1>0, <1>3, <1>6, <2>2 DEF Circular
    <2>4. ents[r] \in 1 .. Len(vs)
      BY <1>1, <1>3 DEF Circular
    <2> QED BY <1>5, <2>3, <2>4
  <1>7. housed \in [Int -> Blocks \cup {None}] /\ \A r \in Int : housed[r] = IF Within(hs, last, r) THEN vs[ents[r]] ELSE None
    <2>1. housed \in [Int -> Blocks \cup {None}]
      BY HousedAre
    <2> QED BY <2>1 DEF Stored, HousedIn
  <1>8. new = HousedIn(hs, vn, last, ents)
    <2>1. \A r \in Int : new[r] = IF Within(hs, last, r) THEN vn[ents[r]] ELSE None
      <3> TAKE r \in Int
      <3>1. CASE r = q
        BY <1>0, <1>5, <1>7, <3>1
      <3>2. CASE r /= q
        BY <1>0, <1>6, <1>7, <3>2
      <3> QED BY <3>1, <3>2
    <2>2. new = [r \in Int |-> new[r]]
      BY <1>7
    <2> QED BY <2>1, <2>2 DEF HousedIn
  <1>9. ASSUME NEW r \in Int, new[r] /= None PROVE Keyed(ks, ents, r, last)
    <2>1. CASE r = q
      <3>1. new[q] = x
        BY <1>0, <1>7
      <3> QED BY <1>9, <2>1, <3>1 DEF Replacing
    <2>2. CASE r /= q
      <3>1. new[r] = housed[r]
        BY <1>0, <1>7, <2>2
      <3> QED BY <1>9, <3>1 DEF Stored
    <2> QED BY <2>1, <2>2
  <1> QED BY <1>1, <1>5, <1>8, <1>9 DEF Stored

\* A call that fails takes the last g blocks off the index, or entries without one.
Returning(hs, vs, g, new, vn) ==
  /\ g \in Nat /\ g <= Size(Newest(hs))
  /\ new = Tailed(hs, (Newest(hs).tail + (-g)) % Size(Newest(hs)))
  /\ vn = [e \in DOMAIN vs |-> IF \E j \in 0 .. g - 1 : e = EntryIn(Newest(hs), Newest(hs).tail - j) THEN None ELSE vs[e]]
Returned(hs, ks, vs, last, ents, housed, g, new, vn) ==
  /\ Stored(new, ks, vn, last - g, ents, [q \in Int |-> IF q <= last - g THEN housed[q] ELSE None])
  /\ Len(new) = Len(hs) /\ Len(vn) = Len(vs) /\ \A j \in 1 .. Len(hs) : new[j].slots = hs[j].slots
LEMMA GiveBack ==
  ASSUME NEW hs, NEW ks, NEW vs, NEW last, NEW ents, NEW housed, Stored(hs, ks, vs, last, ents, housed),
         NEW g, NEW new, NEW vn, Returning(hs, vs, g, new, vn)
  PROVE  Returned(hs, ks, vs, last, ents, housed, g, new, vn)
  <1>0. /\ g \in Nat /\ g <= Size(Newest(hs))
        /\ vn = [e \in DOMAIN vs |-> IF \E j \in 0 .. g - 1 : e = EntryIn(Newest(hs), Newest(hs).tail - j) THEN None ELSE vs[e]]
    BY DEF Returning
  <1>1. Indexed(hs, ks, last, ents) /\ vs \in Seq(Blocks \cup {None}) /\ Len(vs) = Len(ks)
    BY DEF Stored
  <1>2. PICK k \in Nat \ {0} : k = Size(Newest(hs))
    BY <1>1, EntsAre
  <1>3. Circular(ents, Len(ks), k, last) /\ last \in Int
    BY <1>1, <1>2, EntsAre
  <1>4. PICK l \in Int : l = last - g
    BY <1>0, <1>3
  <1>5. /\ Indexed(new, ks, l, ents) /\ Len(new) = Len(hs) /\ Size(Newest(new)) = k
        /\ \A j \in 1 .. Len(hs) : new[j].slots = hs[j].slots
    <2>1. Moving(hs, -g, new)
      BY <1>0 DEF Returning, Moving
    <2>2. last + (-g) = l
      BY <1>0, <1>3, <1>4
    <2> QED BY <1>1, <1>2, <2>1, <2>2, MoveTail
  <1>6. ASSUME NEW j \in 0 .. g - 1 PROVE EntryIn(Newest(hs), Newest(hs).tail - j) = ents[last - j] /\ last - j \in Int
    <2>1. \A x \in Int : EntryIn(Newest(hs), Newest(hs).tail + x) = ents[last + x]
      BY <1>1, EntsAre
    <2>2. j \in Int /\ -j \in Int
      BY <1>0
    <2>3. EntryIn(Newest(hs), Newest(hs).tail + (-j)) = ents[last + (-j)]
      BY <2>1, <2>2, Zenon
    <2>4. Newest(hs).tail \in Int
      <3>1. HeaderIn(Newest(hs), Len(ks))
        BY <1>1, EntsAre
      <3> QED BY <3>1, SizeIs
    <2>5. Newest(hs).tail + (-j) = Newest(hs).tail - j /\ last + (-j) = last - j
      BY <1>3, <2>2, <2>4
    <2> QED BY <1>3, <2>2, <2>3, <2>5
  <1>7. DOMAIN vs = 1 .. Len(vs) /\ \A q \in Int : ents[q] \in 1 .. Len(vs)
    BY <1>1, <1>3 DEF Circular
  <1>8. vn \in Seq(Blocks \cup {None}) /\ Len(vn) = Len(vs)
    <2>1. vn \in [1 .. Len(vs) -> Blocks \cup {None}]
      BY <1>0, <1>1, <1>7
    <2>2. Len(vs) \in Nat
      BY <1>1
    <2> QED BY <2>1, <2>2
  <1>9. ASSUME NEW q \in Int, l < q, q <= last PROVE vn[ents[q]] = None
    <2>1. PICK j \in 0 .. g - 1 : j = last - q
      BY <1>0, <1>3, <1>4, <1>9
    <2>2. last - j = q
      BY <1>0, <1>3, <2>1
    <2>3. ents[q] = EntryIn(Newest(hs), Newest(hs).tail - j)
      BY <1>6, <2>2
    <2> QED BY <1>0, <1>7, <2>3
  <1>10. ASSUME NEW q \in Int, last - k < q, q <= l PROVE vn[ents[q]] = vs[ents[q]]
    <2>1. ASSUME NEW j \in 0 .. g - 1 PROVE ents[q] /= EntryIn(Newest(hs), Newest(hs).tail - j)
      <3>1. PICK r \in Int : r = last - j
        BY <1>6
      <3>2. q < r /\ r - q < k
        BY <1>0, <1>3, <1>4, <1>10, <3>1
      <3>3. q /= r /\ ~(q - r >= k) /\ ~(r - q >= k)
        BY <1>2, <3>2
      <3>4. ents[q] /= ents[r]
        BY <1>3, <3>3 DEF Circular
      <3> QED BY <1>6, <3>1, <3>4
    <2> QED BY <1>0, <1>7, <2>1
  <1>11. ASSUME NEW q \in Int, l - k < q, q <= last - k PROVE vn[ents[q]] = None
    <2>1. PICK r \in Int : r = q + k
      OBVIOUS
    <2>2. ents[r] = ents[q]
      BY <1>3, <2>1 DEF Circular
    <2>3. l < r /\ r <= last
      BY <1>2, <1>3, <1>11, <2>1
    <2> QED BY <1>9, <2>2, <2>3
  <1>12. PICK h : h = [q \in Int |-> IF q <= l THEN housed[q] ELSE None]
    OBVIOUS
  <1>13. \A q \in Int : housed[q] = IF last - k < q /\ q <= last THEN vs[ents[q]] ELSE None
    BY <1>2 DEF Stored, HousedIn, Within
  <1>14. h = HousedIn(new, vn, l, ents)
    <2>1. ASSUME NEW q \in Int PROVE (IF q <= l THEN housed[q] ELSE None) = IF Within(new, l, q) THEN vn[ents[q]] ELSE None
      <3>1. Within(new, l, q) <=> l - k < q /\ q <= l
        BY <1>5 DEF Within
      <3>2. CASE q <= l - k \/ l < q
        <4>1. ~(last - k < q /\ q <= l) /\ ~(l - k < q /\ q <= l)
          BY <1>0, <1>2, <1>3, <1>4, <3>2
        <4>2. q <= l => housed[q] = None
          BY <1>13, <4>1
        <4> QED BY <3>1, <4>1, <4>2
      <3>3. CASE l - k < q /\ q <= last - k
        <4>1. ~(last - k < q)
          BY <1>2, <1>3, <3>3
        <4> QED BY <1>11, <1>13, <3>1, <3>3, <4>1
      <3>4. CASE last - k < q /\ q <= l
        <4>1. q <= last /\ l - k < q
          BY <1>0, <1>2, <1>3, <1>4, <3>4
        <4> QED BY <1>10, <1>13, <3>1, <3>4, <4>1
      <3> QED BY <1>2, <1>3, <1>4, <3>2, <3>3, <3>4
    <2> QED BY <1>12, <2>1 DEF HousedIn
  <1>15. ASSUME NEW q \in Int, h[q] /= None PROVE Keyed(ks, ents, q, l)
    <2>1. housed[q] /= None
      BY <1>12, <1>15
    <2>2. Keyed(ks, ents, q, last)
      BY <2>1 DEF Stored
    <2>3. \A r \in Int : r <= l => r <= last
      BY <1>0, <1>3, <1>4
    <2> QED BY <2>2, <2>3 DEF Keyed
  <1>16. Stored(new, ks, vn, l, ents, h)
    <2>1. Len(vn) = Len(ks)
      BY <1>1, <1>8
    <2> QED BY <1>5, <1>8, <1>14, <1>15, <2>1 DEF Stored
  <1> QED BY <1>4, <1>5, <1>8, <1>12, <1>16 DEF Returned

-----------------------------------------------------------------------------
(* The invariant of an implicit producer. *)

\* The last entry in the index is of block number Last; a block by number is housed in its entry.
Last == IF prod.at = "block" THEN Made ELSE Made - 1
Ents == EntsOf(headers, Last)
Housed == HousedIn(headers, value, Last, Ents)

\* The positions a consumer owns and has not counted as dequeued, and those that are counted, by block.
Keeps(c) == IF hand[c].at = "unlink" THEN Rest(c) \ Here(c) ELSE Rest(c)
Spent == {i \in Int : i < headIndex /\ \A c \in Consumers : i \notin Keeps(c)}
SpentIn(S, q) == {o \in Offsets : First(q) + o \in S}
Unlinks(c, q) == hand[c].at = "unlink" /\ Number(hand[c].i) = q

YIndex == Stored(headers, key, value, Last, Ents, Housed)

\* Each block is housed once, or in the pool.
Housing(h, pl) ==
  /\ pl \subseteq Blocks
  /\ \A q \in Int : h[q] /= None => h[q] \notin pl
  /\ \A q, r \in Int : h[q] /= None /\ h[q] = h[r] => q = r
  /\ \A b \in Blocks : b \in pl \/ \E q \in Int : h[q] = b
YBlocks == Housing(Housed, pool)

\* A block is housed until all its positions are counted, and then until a consumer has unlinked it.
Kept(h, S, lo, n) == \A q \in Int : lo <= q /\ q < n /\ SpentIn(S, q) /= Offsets => h[q] /= None
Counted(h, ct, S, lo, n) ==
  /\ ct \in [Blocks -> 0 .. BlockSize]
  /\ \A q \in Int : h[q] /= None => lo <= q /\ q < n /\ ct[h[q]] = Cardinality(SpentIn(S, q))
YCount ==
  /\ Kept(Housed, Spent, Number(Start), Made) /\ Counted(Housed, count, Spent, Number(Start), Made)
  /\ \A q \in Int : Housed[q] /= None /\ SpentIn(Spent, q) = Offsets => \E c \in Consumers : Unlinks(c, q)

\* The elements that are put and not counted stand in their cells.
Celled(cl, h, S, lo, top) ==
  /\ cl \in [Blocks -> [Offsets -> Int \cup {None}]]
  /\ \A i \in Int : lo <= i /\ i < top /\ i \notin S => cl[h[Number(i)]][i % BlockSize] = i
YCells == Celled(cell, Housed, Spent, Start, Top)

\* Blocks are got one by one; the tail block is the newest, and the start block the one before the call's.
CallRecords == [at : {"idle", "entry", "block", "fill", "publish"}, n : Nat, need : Nat,
                first : {None}, start : Blocks \cup {None}, front0 : Int, used0 : Int]
YCall ==
  /\ prod \in CallRecords /\ tailBlock \in Blocks \cup {None}
  /\ prod.at = "idle" => prod = NoCall
  /\ prod.at \in {"entry", "block"} <=> prod.need >= 1
  /\ Begun <= Made
  /\ prod.at \in {"idle", "fill", "publish"} /\ Housed[Made - 1] /= None => tailBlock = Housed[Made - 1]
  /\ prod.at \in {"entry", "block", "fill"} /\ Housed[Begun - 1] /= None => prod.start = Housed[Begun - 1]
  /\ prod.at = "block" => Housed[Last] = None /\ key[Ents[Last]] = First(Last)

\* What a consumer on its way finds in the index it has loaded, old or new: the entries of its positions.
Reads(c, h, ks, ents) ==
  /\ \A i \in Keeps(c) : ents[Number(i)] \in SlotsOf(h)
  /\ hand[c].at = "offset" => hand[c].pos \in 0 .. Size(h) - 1 /\ Recent(ks[EntryIn(h, hand[c].pos)])
  /\ hand[c].at \in {"move", "release", "unlink"} =>
       hand[c].pos \in 0 .. Size(h) - 1 /\ EntryIn(h, hand[c].pos) = ents[Number(hand[c].i)]
HandIn(c, hs, ks, ents) ==
  hand[c].at \in {"front", "offset", "move", "release", "unlink"} =>
    hand[c].idx \in 1 .. Len(hs) /\ Reads(c, hs[hand[c].idx], ks, ents)
\* One consumer unlinks a block, after its last position was counted.
Unlinking(h, S) ==
  /\ \A c \in Consumers : hand[c].at = "unlink" =>
       h[Number(hand[c].i)] /= None /\ SpentIn(S, Number(hand[c].i)) = Offsets
  /\ \A c, d \in Consumers : hand[c].at = "unlink" /\ hand[d].at = "unlink" /\ c /= d => Number(hand[c].i) /= Number(hand[d].i)
YHands == (\A c \in Consumers : HandIn(c, headers, key, Ents)) /\ Unlinking(Housed, Spent)

YInv == YIndex /\ YBlocks /\ YCount /\ YCells /\ YCall /\ YHands
YAll == CountersInv /\ Walking /\ YInv

\* The variables after a step, by what they are stored as.
LEMMA YIndexNext ==
  ASSUME NEW hs, NEW ks, NEW vs, NEW last, NEW ents, NEW housed, Stored(hs, ks, vs, last, ents, housed),
         headers' = hs, key' = ks, value' = vs, Last' = last, Numbers' = Numbers
  PROVE  YIndex' /\ Ents' = ents /\ Housed' = housed
  <1>1. Indexed(hs, ks, last, ents) /\ housed = HousedIn(hs, vs, last, ents)
    BY DEF Stored
  <1>2. Ents' = ents
    <2>1. ents = EntsOf(hs, last)
      BY <1>1 DEF Indexed
    <2> QED BY <2>1 DEF Ents
  <1>3. Housed' = housed
    BY <1>1, <1>2 DEF Housed
  <1>4. Indexed(headers, key, Last, Ents)'
    BY <1>1, <1>2 DEF Indexed, Recent
  <1>5. Stored(headers, key, value, Last, Ents, Housed)'
    BY <1>2, <1>3, <1>4 DEF Stored
  <1> QED BY <1>2, <1>3, <1>5 DEF YIndex

LEMMA YEnds ==
  ASSUME YAll
  PROVE  /\ tailIndex \in Nat /\ headIndex \in Nat /\ limit \in Int /\ Start \in Nat /\ prod.n \in Nat
         /\ Start <= headIndex /\ headIndex <= tailIndex /\ tailIndex <= limit /\ tailIndex + prod.n <= limit
         /\ (prod.at /= "idle" => prod.n >= 1) /\ Start = limit - MaxPut /\ Boundary(Start)
         /\ prod.need \in Nat /\ prod.at \in {"idle", "entry", "block", "fill", "publish"}
         /\ (prod.at \notin {"entry", "block"} => prod.need = 0) /\ (prod.at \in {"entry", "block"} => prod.need >= 1)
         /\ (prod.at = "idle" => prod.n = 0)
  <1>1. CountersInv /\ Walks /\ YCall
    BY DEF YAll, YInv, Walking
  <1>2. tailIndex \in Int /\ headIndex \in Int /\ limit \in Int /\ prod.n \in Nat /\ tailIndex + prod.n <= limit
        /\ (prod.at /= "idle" => prod.n >= 1)
    BY <1>1 DEF CountersInv, ClaimInv, Calling
  <1>3. Start \in Nat /\ Start <= headIndex /\ tailIndex <= limit /\ Boundary(Start)
    BY <1>1 DEF CountersInv, Bounded, Walks
  <1>4. headIndex <= tailIndex
    BY <1>1, HeadAtTail
  <1>5. prod.need \in Nat /\ prod.at \in {"idle", "entry", "block", "fill", "publish"}
        /\ (prod.at \in {"entry", "block"} <=> prod.need >= 1)
    BY <1>1 DEF YCall, CallRecords
  <1>6. prod.at = "idle" => prod.n = 0
    BY <1>1 DEF YCall, NoCall
  <1>7. prod.at \notin {"entry", "block"} => prod.need = 0
    BY <1>5
  <1>8. Start = limit - MaxPut
    BY DEF Start
  <1> QED BY <1>2, <1>3, <1>4, <1>5, <1>6, <1>7, <1>8

LEMMA YMade ==
  ASSUME YAll
  PROVE  /\ Made \in Int /\ Begun \in Int /\ Last \in Int /\ Begun <= Made /\ Number(Start) \in Int /\ Number(Start) <= Begun
         /\ Number(tailIndex) \in Int /\ Number(Start) <= Number(tailIndex)
         /\ Boundary(tailIndex) => Begun = Number(tailIndex) /\ tailIndex = First(Number(tailIndex))
         /\ ~Boundary(tailIndex) => Begun = Number(tailIndex) + 1
         /\ prod.at = "idle" => Made = Begun
         /\ prod.need = 0 /\ prod.n >= 1 => Number(tailIndex) <= Made - 1 /\ Number((tailIndex + prod.n) - 1) = Made - 1
         /\ Last \in Numbers
         /\ prod.need >= 1 => Made \in Numbers /\ Made <= Number((tailIndex + prod.n) - 1)
         /\ Made = (Number((tailIndex + prod.n) - 1) - prod.need) + 1
         /\ tailIndex <= First(Begun) /\ First(Begun) \in Int
  <1>1. /\ tailIndex \in Nat /\ limit \in Int /\ Start \in Nat /\ prod.n \in Nat /\ prod.need \in Nat
        /\ Start <= tailIndex /\ tailIndex + prod.n <= limit /\ Start = limit - MaxPut /\ Boundary(Start)
        /\ (prod.at = "idle" => prod.n = 0 /\ prod.need = 0) /\ (prod.at = "block" => prod.need >= 1)
    BY YEnds
  <1>2. Begun <= Made
    BY DEF YAll, YInv, YCall
  <1>3. PICK t, s, l, e \in Int : t = tailIndex /\ s = Start /\ l = limit - 1 /\ e = (tailIndex + prod.n) - 1
    BY <1>1
  <1>4. /\ Number(t) \in Int /\ Number(s) \in Int /\ Number(l) \in Int /\ Number(e) \in Int /\ Number(t - 1) \in Int
        /\ Number(s) <= Number(t) /\ Number(s - 1) <= Number(t - 1) /\ Number(t - 1) <= Number(e) /\ Number(e) <= Number(l)
        /\ Number(s - 1) = Number(s) - 1
    <2>1. s <= t /\ s - 1 \in Int /\ t - 1 \in Int /\ s - 1 <= t - 1 /\ t - 1 <= e /\ e <= l
      BY <1>1, <1>3
    <2>2. Number(s - 1) = Number(s) - 1
      BY <1>1, <1>3, NextNumber
    <2>3. Number(t) \in Int /\ Number(s) \in Int /\ Number(l) \in Int /\ Number(e) \in Int /\ Number(t - 1) \in Int
      BY <1>3, <2>1, Division
    <2> QED BY <1>3, <2>1, <2>2, <2>3, NumberOrder
  <1>50. PICK n \in Int : n = prod.need
    BY <1>1
  <1>51. PICK d \in Int : d = Number(e)
    BY <1>4
  <1>52. PICK m \in Int : m = d + (1 - n)
    OBVIOUS
  <1>53. PICK b \in Int : b = Number(t - 1) + 1
    BY <1>4
  <1>5. n = prod.need /\ d = Number(e) /\ m = d + (1 - n) /\ b = Number(t - 1) + 1
    BY <1>50, <1>51, <1>52, <1>53
  <1>6. Made = m /\ Begun = b
    BY <1>3, <1>5 DEF Made, Begun
  <1>7. Last \in Int /\ Last = IF prod.at = "block" THEN m ELSE m - 1
    BY <1>5, <1>6 DEF Last
  <1>8. Boundary(t) => b = Number(t) /\ t = First(Number(t))
    BY <1>3, <1>4, <1>5, NextNumber
  <1>9. ~Boundary(t) => b = Number(t) + 1
    BY <1>3, <1>4, <1>5, NextNumber
  <1>10. prod.at = "idle" => m = b
    <2>1. prod.at = "idle" => e = t - 1 /\ n = 0
      BY <1>1, <1>3, <1>5
    <2> QED BY <1>4, <1>5, <2>1
  <1>11. prod.need = 0 /\ prod.n >= 1 => Number(t) <= m - 1 /\ Number(e) = m - 1
    <2>1. prod.n >= 1 => t <= e
      BY <1>1, <1>3
    <2>2. prod.n >= 1 => Number(t) <= Number(e)
      BY <1>3, <2>1, NumberOrder
    <2> QED BY <1>4, <1>5, <2>2
  <1>12. Numbers = Number(s) - 1 .. Number(l)
    <2>1. limit - MaxPut = s
      BY <1>1, <1>3
    <2> QED BY <1>3, <2>1 DEF Numbers
  <1>13. Number(s) <= b /\ b <= m
    BY <1>2, <1>4, <1>5, <1>6
  <1>14. Last \in Numbers /\ (prod.need >= 1 => Made \in Numbers /\ m <= Number(e)) /\ m = (d - n) + 1
    <2>1. m - 1 \in Number(s) - 1 .. Number(l) /\ (n >= 1 => m \in Number(s) - 1 .. Number(l) /\ m <= d) /\ m = (d - n) + 1
      BY <1>1, <1>4, <1>5, <1>13
    <2>2. prod.at = "block" => n >= 1
      BY <1>1, <1>5
    <2> QED BY <1>5, <1>6, <1>7, <1>12, <2>1, <2>2
  <1>15. t <= First(b) /\ First(b) \in Int
    <2>1. t - 1 \in Int /\ b - 1 \in Int /\ (b - 1) + 1 = b /\ Number(t - 1) = b - 1
      BY <1>3, <1>4, <1>5
    <2>2. t - 1 < First(b - 1) + BlockSize /\ First(b - 1) \in Int
      BY <2>1, NumberIs, FirstNumber
    <2>3. First(b) = First(b - 1) + BlockSize /\ First(b) \in Int
      BY <1>5, <2>1, FirstOrder, FirstNumber
    <2>4. PICK f \in Int : f = First(b)
      BY <2>3
    <2>5. t - 1 < f
      BY <2>2, <2>3, <2>4
    <2> QED BY <2>3, <2>4, <2>5
  <1> QED BY <1>3, <1>4, <1>5, <1>6, <1>7, <1>8, <1>9, <1>10, <1>11, <1>13, <1>14, <1>15

-----------------------------------------------------------------------------
(* What the invariant says of a position. *)

\* A block's offsets, and parts of them.
LEMMA PartCount ==
  ASSUME NEW S, S \subseteq Offsets
  PROVE  IsFiniteSet(S) /\ Cardinality(S) \in 0 .. BlockSize /\ (Cardinality(S) = BlockSize <=> S = Offsets)
  <1>1. BlockSize \in Nat /\ BlockSize >= 1
    BY BlockAssumption
  <1>2. IsFiniteSet(Offsets) /\ Cardinality(Offsets) = BlockSize
    <2>1. 0 \in Int /\ BlockSize - 1 \in Int
      BY <1>1
    <2>2. IsFiniteSet(0 .. BlockSize - 1)
          /\ Cardinality(0 .. BlockSize - 1) = IF 0 > BlockSize - 1 THEN 0 ELSE (BlockSize - 1) - 0 + 1
      BY <2>1, FS_Interval
    <2>3. Cardinality(0 .. BlockSize - 1) = BlockSize
      BY <1>1, <2>2
    <2> QED BY <2>2, <2>3 DEF Offsets
  <1>3. IsFiniteSet(S) /\ Cardinality(S) <= Cardinality(Offsets) /\ (Cardinality(S) = Cardinality(Offsets) => S = Offsets)
    BY <1>2, FS_Subset, Zenon
  <1>4. Cardinality(S) \in Nat
    BY <1>3, FS_CardinalityType
  <1>5. Cardinality(S) <= BlockSize /\ (Cardinality(S) = BlockSize <=> S = Offsets)
    BY <1>2, <1>3
  <1> QED BY <1>1, <1>3, <1>4, <1>5

LEMMA KeepsIs ==
  ASSUME NEW c
  PROVE  Keeps(c) = IF hand[c].at = "unlink" THEN Owes(c) ELSE Rest(c)
  BY DEF Keeps, Owes, MovedAt

\* Positions that consumers keep are below the head, and not counted.
LEMMA SpentIs ==
  ASSUME CountersInv, Walks
  PROVE  /\ Spent \subseteq Int /\ \A q : SpentIn(Spent, q) \subseteq Offsets
         /\ \A i \in Int : headIndex <= i => i \notin Spent
         /\ \A i \in Int : i < Start => i \in Spent
         /\ \A c \in Consumers : Keeps(c) \subseteq Rest(c) /\ \A i \in Keeps(c) : i \in Int /\ Start <= i /\ i < headIndex /\ i \notin Spent
         /\ \A i \in Int : i < headIndex /\ i \notin Spent => \E c \in Consumers : i \in Keeps(c)
  <1>0. headIndex \in Int /\ Start \in Int /\ Start <= headIndex
    BY DEF CountersInv, ClaimInv, Bounded, Walks
  <1>1. Spent \subseteq Int /\ \A q : SpentIn(Spent, q) \subseteq Offsets
    BY DEF Spent, SpentIn
  <1>2. \A i \in Int : headIndex <= i => i \notin Spent
    BY <1>0 DEF Spent
  <1>3. ASSUME NEW c \in Consumers
        PROVE  Keeps(c) \subseteq Rest(c) /\ \A i \in Keeps(c) : i \in Int /\ Start <= i /\ i < headIndex /\ i \notin Spent
    <2>1. Keeps(c) \subseteq Rest(c)
      BY DEF Keeps
    <2>2. \A i \in Rest(c) : i \in Int /\ Start <= i /\ i < headIndex
      BY RestIs
    <2>3. \A i \in Keeps(c) : i \notin Spent
      BY DEF Spent
    <2> QED BY <2>1, <2>2, <2>3
  <1>4. \A i \in Int : i < headIndex /\ i \notin Spent => \E c \in Consumers : i \in Keeps(c)
    BY DEF Spent
  <1>5. ASSUME NEW i \in Int, i < Start PROVE i \in Spent
    <2>1. i < headIndex
      BY <1>0, <1>5
    <2>2. \A c \in Consumers : i \notin Keeps(c)
      BY <1>0, <1>3, <1>5
    <2> QED BY <2>1, <2>2 DEF Spent
  <1> QED BY <1>1, <1>2, <1>3, <1>4, <1>5

\* The last element there is, is in the last block there is.
LEMMA TopMade ==
  ASSUME YAll
  PROVE  /\ Top \in Int /\ tailIndex <= Top /\ headIndex <= Top /\ Top <= limit
         /\ \A i \in Int : i < Top => Number(i) < Made
         /\ prod.at \notin {"publish"} => Top = tailIndex
         /\ prod.at = "publish" => Top = tailIndex + prod.n
  <1>1. /\ tailIndex \in Nat /\ prod.n \in Nat /\ headIndex \in Nat /\ headIndex <= tailIndex /\ tailIndex + prod.n <= limit /\ limit \in Int
        /\ prod.at \in {"idle", "entry", "block", "fill", "publish"} /\ (prod.at \notin {"entry", "block"} => prod.need = 0)
        /\ (prod.at /= "idle" => prod.n >= 1) /\ tailIndex <= limit
    BY YEnds
  <1>2. /\ Made \in Int /\ Begun \in Int /\ Begun <= Made
        /\ (prod.need = 0 /\ prod.n >= 1 => Number((tailIndex + prod.n) - 1) = Made - 1)
    BY YMade
  <1>3. Top = IF prod.at = "publish" THEN tailIndex + prod.n ELSE tailIndex
    <2>1. tailIndex + 0 = tailIndex
      BY <1>1
    <2> QED BY <1>1, <2>1 DEF Top
  <1>4. ASSUME NEW i \in Int, i < Top PROVE Number(i) < Made
    <2>0. Number(i) \in Int
      BY Division
    <2>1. CASE prod.at = "publish"
      <3>1. PICK e \in Int : e = (tailIndex + prod.n) - 1 /\ i <= e
        BY <1>1, <1>3, <1>4, <2>1
      <3>2. Number(i) <= Number(e)
        BY <3>1, NumberOrder
      <3>3. Number(e) = Made - 1
        BY <1>1, <1>2, <2>1, <3>1
      <3> QED BY <1>2, <2>0, <3>2, <3>3
    <2>2. CASE prod.at /= "publish"
      <3>1. PICK e \in Int : e = tailIndex - 1 /\ i <= e
        BY <1>1, <1>3, <1>4, <2>2
      <3>2. Number(i) <= Number(e) /\ Number(e) \in Int
        BY <3>1, NumberOrder, Division
      <3>3. Begun = Number(e) + 1
        BY <3>1 DEF Begun
      <3> QED BY <1>2, <2>0, <3>2, <3>3
    <2> QED BY <2>1, <2>2
  <1>5. Top \in Int /\ tailIndex <= Top /\ headIndex <= Top /\ Top <= limit
    BY <1>1, <1>3
  <1> QED BY <1>3, <1>4, <1>5

\* A block that has a position which is not counted is housed, with its number as the key of its entry.
LEMMA Found ==
  ASSUME YAll, NEW i \in Int, Start <= i, i \notin Spent, Number(i) < Made \/ i < Top
  PROVE  /\ Number(i) \in Int /\ Housed[Number(i)] \in Blocks /\ Housed[Number(i)] /= None /\ Number(Start) <= Number(i) /\ Number(i) < Made
         /\ Within(headers, Last, Number(i)) /\ Ents[Number(i)] \in 1 .. Len(value)
         /\ value[Ents[Number(i)]] = Housed[Number(i)] /\ key[Ents[Number(i)]] = First(Number(i))
         /\ Keyed(key, Ents, Number(i), Last)
         /\ i < Top => cell[Housed[Number(i)]][i % BlockSize] = i
  <1>1. YIndex /\ YCount /\ YCells /\ CountersInv /\ Walks
    BY DEF YAll, YInv, Walking
  <1>2. PICK q : q = Number(i)
    OBVIOUS
  <1>3. q \in Int /\ i % BlockSize \in Offsets /\ First(q) + (i % BlockSize) = i
    BY <1>2, Division
  <1>4. SpentIn(Spent, q) /= Offsets
    BY <1>3 DEF SpentIn
  <1>5. Number(Start) <= q /\ q < Made
    <2>1. Start \in Int
      BY YEnds
    <2> QED BY <1>2, <2>1, NumberOrder, TopMade
  <1>6. Housed[q] /= None
    BY <1>1, <1>3, <1>4, <1>5 DEF YCount, Kept
  <1>7. Stored(headers, key, value, Last, Ents, Housed)
    BY <1>1 DEF YIndex
  <1>8. /\ Within(headers, Last, q) /\ Housed[q] \in Blocks /\ key[Ents[q]] = First(q) /\ Ents[q] \in 1 .. Len(value)
        /\ Housed[q] = value[Ents[q]]
    BY <1>3, <1>6, <1>7, HousedAre
  <1>9. Keyed(key, Ents, q, Last)
    BY <1>3, <1>6, <1>7 DEF Stored
  <1>10. i < Top => cell[Housed[q]][i % BlockSize] = i
    BY <1>1, <1>2 DEF YCells, Celled
  <1> QED BY <1>2, <1>3, <1>5, <1>6, <1>8, <1>9, <1>10

-----------------------------------------------------------------------------
(* The consumers' steps in an implicit producer's queue. *)

\* An implicit producer's queue takes from ProducerBase the walks, too.
LEMMA ImplicitWalks ==
  /\ \A c \in Consumers : Implicit!Claim(c) => Claim(c)
  /\ \A b : \A c \in Consumers : Implicit!MoveOutOf(c, b) => MoveOutOf(c, b)
  /\ \A s : \A c \in Consumers : Implicit!NextBlock(c, s) => NextBlock(c, s)
  /\ \A c \in Consumers : Implicit!Here(c) = Here(c)
  <1>1. ASSUME NEW c \in Consumers, Implicit!Claim(c) PROVE Claim(c)
    <2>1. ASSUME NEW max \in 1 .. MaxTake, Implicit!Look(c, max) PROVE Look(c, max)
      BY <2>1 DEF Implicit!Look, Look, Implicit!NoClaim, NoClaim, Implicit!CircLess, CircLess, Implicit!Least, Least
    <2>2. Implicit!Reserve(c) => Reserve(c)
      BY DEF Implicit!Reserve, Reserve
    <2>3. Implicit!Actual(c) = Actual(c)
      BY DEF Implicit!Actual, Actual, Implicit!CircLess, CircLess, Implicit!Least, Least
    <2>4. Implicit!Confirm(c) => Confirm(c)
      BY <2>3 DEF Implicit!Confirm, Confirm
    <2>5. Implicit!Refund(c) => Refund(c)
      BY DEF Implicit!Refund, Refund, Implicit!NoClaim, NoClaim
    <2>6. Implicit!Take(c) => Take(c)
      BY DEF Implicit!Take, Take
    <2>7. \/ optimistic < limit + MaxFutile /\ \E max \in 1 .. MaxTake : Look(c, max)
          \/ Reserve(c) \/ Confirm(c) \/ Refund(c) \/ Take(c)
      BY <1>1, <2>1, <2>2, <2>4, <2>5, <2>6 DEF Implicit!Claim
    <2>8. hand' = IF claim'[c].at = "owner"
                  THEN [hand EXCEPT ![c] = [NoWalk EXCEPT !.at = "index", !.i = headIndex]] ELSE hand
      BY <1>1 DEF Implicit!Claim, Implicit!NoWalk, NoWalk
    <2>9. UNCHANGED <<pool, tailBlock, cell, prod, taken, limit>>
      BY <1>1 DEF Implicit!Claim
    <2> QED BY <2>7, <2>8, <2>9 DEF Claim
  <1>2. \A c \in Consumers : Implicit!Here(c) = Here(c) /\ Implicit!NextHere(c) = NextHere(c)
    BY DEF Implicit!Here, Here, Implicit!NextHere, NextHere, Implicit!Base, Base
  <1>3. ASSUME NEW b, NEW c \in Consumers, Implicit!MoveOutOf(c, b) PROVE MoveOutOf(c, b)
    BY <1>2, <1>3 DEF Implicit!MoveOutOf, MoveOutOf, Implicit!claimVars, claimVars
  <1>4. ASSUME NEW s, NEW c \in Consumers, Implicit!NextBlock(c, s) PROVE NextBlock(c, s)
    BY <1>2, <1>4 DEF Implicit!NextBlock, NextBlock, Implicit!claimVars, claimVars, Implicit!Done, Done,
       Implicit!NoClaim, NoClaim, Implicit!NoWalk, NoWalk
  <1> QED BY <1>1, <1>2, <1>3, <1>4

\* Steps that leave the index and the call alone.
LEMMA IndexStays ==
  ASSUME YAll, UNCHANGED <<tailIndex, prod, limit, pool, tailBlock, headers, key, value>>
  PROVE  /\ YIndex' /\ YBlocks' /\ YCall' /\ Made' = Made /\ Begun' = Begun /\ Last' = Last /\ Ents' = Ents
         /\ Housed' = Housed /\ Top' = Top /\ Numbers' = Numbers /\ Start' = Start
  <1>0. YIndex /\ YBlocks /\ YCall
    BY DEF YAll, YInv
  <1>1. Made' = Made /\ Begun' = Begun /\ Top' = Top /\ Numbers' = Numbers /\ Start' = Start
    BY DEF Made, Begun, Top, Numbers, Start
  <1>2. Last' = Last
    BY <1>1 DEF Last
  <1>3. Stored(headers, key, value, Last, Ents, Housed)
    BY <1>0 DEF YIndex
  <1>4. YIndex' /\ Ents' = Ents /\ Housed' = Housed
    BY <1>1, <1>2, <1>3, YIndexNext
  <1>5. YBlocks'
    BY <1>0, <1>4 DEF YBlocks
  <1>6. YCall'
    BY <1>0, <1>1, <1>2, <1>4 DEF YCall
  <1> QED BY <1>1, <1>2, <1>4, <1>5, <1>6

\* Steps after which the same positions are counted.
LEMMA SpentStays ==
  ASSUME YAll, UNCHANGED <<tailIndex, prod, limit, pool, tailBlock, headers, key, value, cell, count>>, Spent' = Spent,
         \A d \in Consumers : (hand'[d].at = "unlink" <=> hand[d].at = "unlink") /\ (hand'[d].at = "unlink" => hand'[d].i = hand[d].i)
  PROVE  YCount' /\ YCells' /\ Unlinking(Housed, Spent)'
  <1>0. YCount /\ YCells /\ Unlinking(Housed, Spent)
    BY DEF YAll, YInv, YHands
  <1>1. Housed' = Housed /\ Made' = Made /\ Start' = Start /\ Top' = Top
    BY IndexStays
  <1>2. YCount'
    <2>1. (Kept(Housed, Spent, Number(Start), Made) /\ Counted(Housed, count, Spent, Number(Start), Made))'
      BY <1>0, <1>1 DEF YCount, Number
    <2>2. \A c \in Consumers : \A q : Unlinks(c, q) => Unlinks(c, q)'
      BY DEF Unlinks, Number
    <2>3. \A q : SpentIn(Spent, q)' = SpentIn(Spent, q)
      OBVIOUS
    <2>4. ASSUME NEW q \in Int, Housed'[q] /= None, SpentIn(Spent, q)' = Offsets PROVE \E c \in Consumers : Unlinks(c, q)'
      BY <1>0, <1>1, <2>2, <2>3, <2>4 DEF YCount
    <2> QED BY <2>1, <2>4 DEF YCount
  <1>3. YCells'
    BY <1>0, <1>1 DEF YCells
  <1>4. Unlinking(Housed, Spent)'
    BY <1>0, <1>1 DEF Unlinking, Number, SpentIn
  <1> QED BY <1>2, <1>3, <1>4

\* The walks of the others stay where they are, and they find what they found.
LEMMA KeepsStay ==
  ASSUME NEW d, hand'[d].at = hand[d].at, Rest(d)' = Rest(d), Owes(d)' = Owes(d)
  PROVE  Keeps(d)' = Keeps(d)
  <1>1. \A c : Keeps(c) = IF hand[c].at = "unlink" THEN Owes(c) ELSE Rest(c)
    BY KeepsIs
  <1>2. Keeps(d)' = IF hand'[d].at = "unlink" THEN Owes(d)' ELSE Rest(d)'
    BY DEF Keeps, Owes, MovedAt
  <1> QED BY <1>1, <1>2

LEMMA OtherReads ==
  ASSUME NEW c, NEW hs, NEW ks, NEW ents, HandIn(c, hs, ks, ents), hand'[c] = hand[c], \A i \in Keeps(c)' : i \in Keeps(c),
         headers' = hs, key' = ks, Ents' = ents, Numbers' = Numbers
  PROVE  HandIn(c, headers, key, Ents)'
  <1>1. CASE hand[c].at \notin {"front", "offset", "move", "release", "unlink"}
    BY <1>1 DEF HandIn
  <1>2. CASE hand[c].at \in {"front", "offset", "move", "release", "unlink"}
    <2>1. hand[c].idx \in 1 .. Len(hs) /\ Reads(c, hs[hand[c].idx], ks, ents)
      BY <1>2 DEF HandIn
    <2>2. Reads(c, headers[hand[c].idx], key, Ents)'
      BY <2>1 DEF Reads, Recent, EntryIn, Size, SlotsOf, Number
    <2> QED BY <2>1, <2>2 DEF HandIn
  <1> QED BY <1>1, <1>2

\* Blocks whose positions get elements have numbers of the behaviour.
LEMMA YNumbers ==
  ASSUME YAll, NEW i \in Int, Start <= i, i < limit
  PROVE  Number(i) \in Numbers /\ Number(i) \in Int
  <1>1. limit \in Int /\ Start \in Int /\ Start = limit - MaxPut
    BY YEnds
  <1>2. PICK l \in Int, s \in Int : l = limit /\ s = Start
    BY <1>1
  <1>3. Number(s) <= Number(i) /\ Number(i) <= Number(l - 1) /\ Number(s) \in Int /\ Number(i) \in Int /\ Number(l - 1) \in Int
    <2>1. s <= i /\ i <= l - 1 /\ l - 1 \in Int
      BY <1>2
    <2> QED BY <2>1, NumberOrder, Division
  <1>4. Numbers = Number(s) - 1 .. Number(l - 1)
    BY <1>1, <1>2 DEF Numbers
  <1>5. Number(i) \in Number(s) - 1 .. Number(l - 1)
    BY <1>3
  <1> QED BY <1>3, <1>4, <1>5

\* From the slot of one block's entry the distance in blocks leads to another's.
LEMMA SlotLeads ==
  ASSUME NEW m, NEW h, HeaderIn(h, m), NEW ents, NEW p \in Int, Aligned(h, p, ents), NEW x \in Int, NEW r \in Int,
         EntryIn(h, x) = EntryIn(h, r + p), NEW q \in Int, ents[q] \in SlotsOf(h)
  PROVE  EntryIn(h, (x + (q - r)) % Size(h)) = ents[q] /\ (x + (q - r)) % Size(h) \in 0 .. Size(h) - 1
  <1>1. PICK k \in Nat \ {0} : k = Size(h)
    BY SizeIs
  <1>2. \A y, z \in Int : EntryIn(h, y) = EntryIn(h, z) <=> y % k = z % k
    BY <1>1, EntryIs
  <1>3. x % k = (r + p) % k
    BY <1>2
  <1>4. PICK y, d, e \in Int : y = x + (q - r) /\ d = q - r /\ e = r + p
    OBVIOUS
  <1>5. y % k \in 0 .. k - 1 /\ (y % k) % k = y % k
    <2>1. ASSUME NEW z \in Int PROVE z % k \in 0 .. k - 1 /\ (z % k) % k = z % k
      <3>1. z % k \in 0 .. k - 1
        BY Remains
      <3>2. ASSUME NEW w \in Int, w \in 0 .. k - 1 PROVE w % k = w
        BY <3>2, Remains
      <3>3. z % k \in Int
        BY <3>1
      <3> QED BY <3>1, <3>2, <3>3
    <2> QED BY <2>1
  <1>6. ((x % k) + d) % k = (x + d) % k /\ ((e % k) + d) % k = (e + d) % k
    <2>1. ASSUME NEW z \in Int, NEW w \in Int PROVE ((z % k) + w) % k = (z + w) % k
      BY AddRemainder
    <2> QED BY <2>1
  <1>7. x + d = y /\ e + d = q + p
    BY <1>4
  <1>8. y % k = (q + p) % k
    BY <1>3, <1>4, <1>6, <1>7
  <1>9. EntryIn(h, y % k) = EntryIn(h, q + p)
    <2>1. y % k \in Int /\ q + p \in Int
      BY <1>5
    <2> QED BY <1>2, <1>5, <1>8, <2>1
  <1>10. ents[q] = EntryIn(h, q + p)
    BY DEF Aligned
  <1> QED BY <1>1, <1>4, <1>5, <1>9, <1>10

\* The slot a consumer computes, from any tail that has a key of the behaviour's.
LEMMA SlotOfEntry ==
  ASSUME limit \in Int, Boundary(Start), NEW m, NEW h, HeaderIn(h, m), NEW ents, InStep(h, key, ents), NEW i \in Int,
         Number(i) \in Numbers, ents[Number(i)] \in SlotsOf(h), NEW x \in 0 .. Size(h) - 1, Recent(key[EntryIn(h, x)])
  PROVE  EntryIn(h, Implicit!SlotOf(i, h, x)) = ents[Number(i)] /\ Implicit!SlotOf(i, h, x) \in 0 .. Size(h) - 1
  <1>1. PICK q \in Numbers : q = Number(i) /\ Base(i) = First(q)
    BY Division
  <1>2. PICK r \in Numbers : key[EntryIn(h, x)] = First(r)
    BY DEF Recent
  <1>3. PICK p \in Int : Phased(h, p, key) /\ Aligned(h, p, ents)
    BY DEF InStep
  <1>4. InWindow(First(q) - First(r)) /\ First(q) \in Int /\ First(r) \in Int /\ q \in Int /\ r \in Int
    BY BasesNear
  <1>5. First(r) /= None
    BY <1>4, NoneAssumption
  <1>6. x \in Int /\ Size(h) \in Nat \ {0}
    BY SizeIs
  <1>7. EntryIn(h, x) \in SlotsOf(h)
    BY <1>6, EntryIs
  <1>8. PICK y \in Int : key[EntryIn(h, x)] = First(y) /\ EntryIn(h, x) = EntryIn(h, y + p)
    BY <1>2, <1>3, <1>5, <1>7 DEF Phased
  <1>9. y = r
    BY <1>2, <1>4, <1>8, FirstOnce
  <1>10. EntryIn(h, (x + (q - r)) % Size(h)) = ents[q] /\ (x + (q - r)) % Size(h) \in 0 .. Size(h) - 1
    BY <1>1, <1>3, <1>4, <1>6, <1>8, <1>9, SlotLeads
  <1>11. Signed(First(q) - First(r)) = First(q) - First(r)
    BY <1>4, SignedIs
  <1>12. First(q) - First(r) = First(q - r) /\ q - r \in Int
    BY <1>4, FirstOrder
  <1>13. First(q - r) \div BlockSize = q - r
    BY <1>12, FirstNumber DEF Number
  <1>14. Implicit!SlotOf(i, h, x) = (x + Signed(Base(i) - key[EntryIn(h, x)]) \div BlockSize) % Size(h)
    <2>1. Implicit!EntryAt(h, x) = EntryIn(h, x) /\ Implicit!Capacity(h) = Size(h)
      BY EntryAtIs
    <2> QED BY <2>1 DEF Implicit!SlotOf, Implicit!Signed, Signed, Implicit!Base, Base
  <1>15. Signed(Base(i) - key[EntryIn(h, x)]) \div BlockSize = q - r
    BY <1>1, <1>2, <1>11, <1>12, <1>13
  <1> QED BY <1>1, <1>10, <1>14, <1>15

\* The next block's entry is in the next slot.
LEMMA NextLeads ==
  ASSUME NEW m, NEW h, HeaderIn(h, m), NEW ks, NEW ents, InStep(h, ks, ents), NEW q \in Int, NEW x \in 0 .. Size(h) - 1,
         EntryIn(h, x) = ents[q], ents[q + 1] \in SlotsOf(h)
  PROVE  EntryIn(h, (x + 1) % Size(h)) = ents[q + 1] /\ (x + 1) % Size(h) \in 0 .. Size(h) - 1
  <1>1. PICK p \in Int : Aligned(h, p, ents)
    BY DEF InStep
  <1>2. x \in Int
    BY SizeIs
  <1>3. EntryIn(h, x) \in SlotsOf(h)
    BY <1>2, EntryIs
  <1>4. EntryIn(h, x) = EntryIn(h, q + p)
    BY <1>1, <1>3 DEF Aligned
  <1>5. q + 1 \in Int /\ x + ((q + 1) - q) = x + 1
    BY <1>2
  <1>6. EntryIn(h, (x + ((q + 1) - q)) % Size(h)) = ents[q + 1] /\ (x + ((q + 1) - q)) % Size(h) \in 0 .. Size(h) - 1
    BY <1>1, <1>2, <1>4, <1>5, SlotLeads
  <1> QED BY <1>5, <1>6

LEMMA RangeIs ==
  ASSUME NEW l \in Int, NEW m \in Int, NEW i \in Int
  PROVE  i \in l .. m - 1 <=> l <= i /\ i < m
  OBVIOUS

\* dequeue up to headIndex.fetch_add.
LEMMA YClaim ==
  ASSUME YAll, CountersInv', NEW c \in Consumers, Implicit!Claim(c), UNCHANGED <<count, key, value, headers>>
  PROVE  Walking' /\ YInv' /\ [SubQ!Next]_(SubQ!subQueueVars)
  <1>0. CountersInv /\ Walking /\ Walks /\ YHands /\ Spent \subseteq Int
    BY SpentIs DEF YAll, YInv, Walking
  <1>1. Claim(c)
    BY ImplicitWalks
  <1>2. UNCHANGED <<pool, tailBlock, cell, prod, taken, limit>>
    BY <1>0, <1>1, ClaimIs
  <1>3. CASE /\ (\E max \in 1 .. MaxTake : Look(c, max)) \/ Reserve(c) \/ Confirm(c) \/ Refund(c)
             /\ hand' = hand
    <2>1. Walking' /\ headIndex' = headIndex /\ tailIndex' = tailIndex /\ \A d \in Consumers : Rest(d)' = Rest(d) /\ Owes(d)' = Owes(d)
      BY <1>0, <1>2, <1>3, AttemptWalks
    <2>2. \A d \in Consumers : Keeps(d)' = Keeps(d)
      BY <1>3, <2>1, KeepsStay
    <2>3. Spent' = Spent
      BY <2>1, <2>2 DEF Spent
    <2>4. YIndex' /\ YBlocks' /\ YCall' /\ Ents' = Ents /\ Numbers' = Numbers
      BY <1>2, <2>1, IndexStays
    <2>5. YCount' /\ YCells' /\ Unlinking(Housed, Spent)'
      BY <1>2, <1>3, <2>1, <2>3, SpentStays
    <2>6. YHands'
      <3>1. ASSUME NEW d \in Consumers PROVE HandIn(d, headers, key, Ents)'
        BY <1>0, <1>3, <2>2, <2>4, OtherReads DEF YHands
      <3> QED BY <2>5, <3>1 DEF YHands
    <2>7. [SubQ!Next]_(SubQ!subQueueVars)
      <3>1. tailIndex <= tailIndex'
        BY <2>1, YEnds
      <3> QED BY <1>0, <1>2, <2>1, <3>1, QuietStep
    <2> QED BY <2>1, <2>4, <2>5, <2>6, <2>7 DEF YInv
  <1>4. CASE Take(c) /\ hand' = [hand EXCEPT ![c] = [NoWalk EXCEPT !.at = "index", !.i = headIndex]]
    <2>1. /\ Walking' /\ headIndex < headIndex' /\ headIndex' \in Int /\ tailIndex' = tailIndex /\ hand[c].at = "idle"
          /\ \A d \in Consumers : d /= c => hand'[d] = hand[d] /\ Rest(d)' = Rest(d) /\ Owes(d)' = Owes(d)
          /\ Rest(c) = {} /\ Rest(c)' = headIndex .. headIndex' - 1 /\ hand'[c].at = "index"
      BY <1>0, <1>2, <1>4, TakeWalks
    <2>2. \A d \in Consumers : d /= c => Keeps(d)' = Keeps(d)
      BY <2>1, KeepsStay
    <2>3. Keeps(c) = {} /\ Keeps(c)' = headIndex .. headIndex' - 1
      BY <2>1 DEF Keeps
    <2>4. Spent' = Spent
      <3>1. PICK l, m \in Int : l = headIndex /\ m = headIndex' /\ l < m
        BY <2>1, YEnds
      <3>2. Keeps(c)' = l .. m - 1
        BY <2>3, <3>1
      <3>3. ASSUME NEW i \in Int PROVE i \in Spent' <=> i \in Spent
        <4>1. i \in Spent' <=> i < m /\ \A d \in Consumers : i \notin Keeps(d)'
          BY <3>1 DEF Spent
        <4>2. i \in Spent <=> i < l /\ \A d \in Consumers : i \notin Keeps(d)
          BY <3>1 DEF Spent
        <4>3. i < m /\ i \notin Keeps(c)' <=> i < l
          <5>1. i \in l .. m - 1 <=> l <= i /\ i < m
            BY RangeIs
          <5>2. i \notin Keeps(c)' <=> ~(l <= i /\ i < m)
            BY <3>2, <5>1
          <5>3. l \in Int /\ m \in Int /\ l < m
            BY <3>1
          <5> QED BY <5>2, <5>3
        <4> QED BY <2>2, <2>3, <4>1, <4>2, <4>3
      <3>4. Spent' \subseteq Int
        BY DEF Spent
      <3> QED BY <1>0, <3>3, <3>4
    <2>5. YIndex' /\ YBlocks' /\ YCall' /\ Ents' = Ents /\ Numbers' = Numbers
      BY <1>2, <2>1, IndexStays
    <2>6. \A d \in Consumers : (hand'[d].at = "unlink" <=> hand[d].at = "unlink") /\ (hand'[d].at = "unlink" => hand'[d].i = hand[d].i)
      BY <2>1
    <2>7. YCount' /\ YCells' /\ Unlinking(Housed, Spent)'
      BY <1>2, <2>1, <2>4, <2>6, SpentStays
    <2>8. ASSUME NEW d \in Consumers PROVE HandIn(d, headers, key, Ents)'
      <3>1. CASE d = c
        BY <2>1, <3>1 DEF HandIn
      <3>2. CASE d /= c
        BY <1>0, <2>1, <2>2, <2>5, <3>2, OtherReads DEF YHands
      <3> QED BY <3>1, <3>2
    <2>9. [SubQ!Next]_(SubQ!subQueueVars)
      BY <1>0, <1>2, <1>4, GiveStep
    <2> QED BY <2>1, <2>5, <2>7, <2>8, <2>9 DEF YInv, YHands
  <1> QED BY <1>0, <1>1, <1>3, <1>4, ClaimIs

\* The entry at the tail is the last block's, with its key when there is anything in the queue.
LEMMA TailEntry ==
  ASSUME YAll
  PROVE  /\ EntryIn(Newest(headers), Newest(headers).tail) = Ents[Last] /\ Len(headers) \in 1 .. Len(headers)
         /\ \A j \in 1 .. Len(headers) : HeaderIn(headers[j], Len(key)) /\ InStep(headers[j], key, Ents)
         /\ Newest(headers) = headers[Len(headers)] /\ HeaderIn(Newest(headers), Len(key))
         /\ \A q \in Int : Ents[q] \in SlotsOf(Newest(headers))
         /\ Len(key) = Len(value) /\ Len(headers) \in Nat
  <1>1. Stored(headers, key, value, Last, Ents, Housed) /\ Indexed(headers, key, Last, Ents)
    BY DEF YAll, YInv, YIndex, Stored
  <1>2. /\ HeaderIn(Newest(headers), Len(key)) /\ Circular(Ents, Len(key), Size(Newest(headers)), Last) /\ Last \in Int
        /\ \A x \in Int : EntryIn(Newest(headers), Newest(headers).tail + x) = Ents[Last + x]
    BY <1>1, EntsAre
  <1>3. EntryIn(Newest(headers), Newest(headers).tail) = Ents[Last]
    <2>1. Newest(headers).tail + 0 = Newest(headers).tail /\ Last + 0 = Last /\ 0 \in Int
      <3>1. \A t \in Int : t + 0 = t
        OBVIOUS
      <3>2. Newest(headers).tail \in Int /\ Last \in Int
        BY <1>2, SizeIs
      <3> QED BY <3>1, <3>2
    <2> QED BY <1>2, <2>1, Zenon
  <1>4. Len(headers) \in Nat /\ Len(headers) \in 1 .. Len(headers)
    BY <1>1 DEF Indexed
  <1>5. \A q \in Int : Ents[q] \in SlotsOf(Newest(headers))
    BY <1>1, <1>2 DEF Indexed, Circular
  <1>6. Len(key) = Len(value)
    BY <1>1 DEF Stored
  <1> QED BY <1>1, <1>2, <1>3, <1>4, <1>5, <1>6 DEF Indexed, Newest

\* A position a consumer is at, on its way to a block.
LEMMA AtPosition ==
  ASSUME YAll, NEW c \in Consumers, hand[c].at \in {"index", "front", "offset", "move", "release"}
  PROVE  /\ claim[c].at = "owner" /\ hand[c].i \in Int /\ hand[c].i \in Rest(c) /\ Keeps(c) = Rest(c) /\ hand[c] \in HandRecords
         /\ hand \in [Consumers -> HandRecords]
         /\ Number(hand[c].i) \in Numbers /\ Number(hand[c].i) \in Int
         /\ hand[c].i \notin Spent /\ Start <= hand[c].i /\ hand[c].i < Top
         /\ hand[c].at /= "index" => HandIn(c, headers, key, Ents) /\ hand[c].idx \in 1 .. Len(headers)
                                     /\ Reads(c, headers[hand[c].idx], key, Ents)
                                     /\ HeaderIn(headers[hand[c].idx], Len(key)) /\ InStep(headers[hand[c].idx], key, Ents)
  <1>0. CountersInv /\ Walks /\ YHands
    BY DEF YAll, YInv, Walking
  <1>1. claim[c].at = "owner" /\ hand[c] \in HandRecords /\ hand \in [Consumers -> HandRecords]
    BY <1>0 DEF Walks
  <1>2. hand[c].i \in Int /\ hand[c].i \in Rest(c)
    <2>1. hand[c].i < End(c) /\ hand[c].i \in Int
      BY <1>0, <1>1, HereIs DEF Walks
    <2> QED BY <1>0, <1>1, <2>1, RestIs
  <1>3. Keeps(c) = Rest(c)
    BY DEF Keeps
  <1>4. hand[c].i \notin Spent /\ Start <= hand[c].i /\ hand[c].i < headIndex
    BY <1>0, <1>2, <1>3, SpentIs
  <1>5. hand[c].i < Top /\ hand[c].i < limit
    <2>1. headIndex <= Top /\ Top <= limit /\ Top \in Int /\ headIndex \in Int /\ limit \in Int
      BY TopMade, YEnds
    <2> QED BY <1>2, <1>4, <2>1
  <1>6. Number(hand[c].i) \in Numbers /\ Number(hand[c].i) \in Int
    BY <1>2, <1>4, <1>5, YNumbers
  <1>7. hand[c].at /= "index" => HandIn(c, headers, key, Ents) /\ hand[c].idx \in 1 .. Len(headers) /\ Reads(c, headers[hand[c].idx], key, Ents)
    BY <1>0 DEF YHands, HandIn
  <1> QED BY <1>1, <1>2, <1>3, <1>4, <1>5, <1>6, <1>7, TailEntry

\* A consumer looks for the slot of its first position.
LEMMA YFind ==
  ASSUME YAll, CountersInv', NEW c \in Consumers, Implicit!LoadIndex(c) \/ Implicit!LoadTail(c) \/ Implicit!FindSlot(c),
         UNCHANGED <<count, key, value, headers>>
  PROVE  Walking' /\ YInv' /\ [SubQ!Next]_(SubQ!subQueueVars)
  <1>0. CountersInv /\ Walking /\ Walks /\ YHands /\ limit \in Int /\ Boundary(Start)
    BY YEnds DEF YAll, YInv, Walking
  <1>1. UNCHANGED <<claimVars, pool, tailBlock, cell, prod, taken, limit>>
    BY DEF Implicit!LoadIndex, Implicit!LoadTail, Implicit!FindSlot, Implicit!claimVars, claimVars
  <1>2. UNCHANGED <<tailIndex, headIndex, claim>>
    BY <1>1 DEF claimVars
  <1>3. hand[c].at \in {"index", "front", "offset"} /\ hand[c].at /= "idle"
    BY DEF Implicit!LoadIndex, Implicit!LoadTail, Implicit!FindSlot
  <1>4. /\ claim[c].at = "owner" /\ hand[c].i \in Int /\ hand[c].i \in Rest(c) /\ Keeps(c) = Rest(c) /\ hand[c] \in HandRecords
        /\ hand \in [Consumers -> HandRecords] /\ Number(hand[c].i) \in Numbers /\ Number(hand[c].i) \in Int
    BY <1>3, AtPosition
  <1>5. PICK ix : ix = headers[hand[c].idx]
    OBVIOUS
  <1>6. ASSUME hand[c].at \in {"front", "offset"}
        PROVE  /\ HeaderIn(ix, Len(key)) /\ InStep(ix, key, Ents) /\ Reads(c, ix, key, Ents) /\ hand[c].idx \in 1 .. Len(headers)
    BY <1>5, <1>6, AtPosition
  <1>61. ASSUME hand[c].at = "offset"
         PROVE  /\ EntryIn(ix, Implicit!SlotOf(hand[c].i, ix, hand[c].pos)) = Ents[Number(hand[c].i)]
                /\ Implicit!SlotOf(hand[c].i, ix, hand[c].pos) \in 0 .. Size(ix) - 1
    <2>1. HeaderIn(ix, Len(key)) /\ InStep(ix, key, Ents) /\ Reads(c, ix, key, Ents)
      BY <1>6, <1>61
    <2>2. Ents[Number(hand[c].i)] \in SlotsOf(ix) /\ hand[c].pos \in 0 .. Size(ix) - 1 /\ Recent(key[EntryIn(ix, hand[c].pos)])
      BY <1>4, <1>61, <2>1 DEF Reads
    <2> QED BY <1>0, <1>4, <2>1, <2>2, SlotOfEntry
  <1>7. PICK h \in HandRecords :
          /\ hand' = [hand EXCEPT ![c] = h] /\ h.i = hand[c].i /\ h.at \in {"front", "offset", "move"}
          /\ h.at = "front" => hand[c].at = "index" /\ h.idx = Len(headers)
          /\ h.at = "offset" => hand[c].at = "front" /\ h.idx = hand[c].idx /\ h.pos = ix.tail
          /\ h.at = "move" => hand[c].at = "offset" /\ h.idx = hand[c].idx
                              /\ h.pos = Implicit!SlotOf(hand[c].i, ix, hand[c].pos)
    <2>0. PICK r : r = hand[c] /\ r \in HandRecords /\ r = [at |-> r.at, idx |-> r.idx, pos |-> r.pos, i |-> r.i]
      BY <1>4 DEF HandRecords
    <2>1. CASE Implicit!LoadIndex(c)
      <3>1. PICK h : h = [at |-> "front", idx |-> Len(headers), pos |-> r.pos, i |-> r.i]
        OBVIOUS
      <3>2. h \in HandRecords
        <4>1. Len(headers) \in Int
          BY TailEntry
        <4> QED BY <2>0, <3>1, <4>1 DEF HandRecords
      <3>3. h = [r EXCEPT !.at = "front", !.idx = Len(headers)]
        <4>1. r \in HandRecords
          BY <2>0
        <4> QED BY <3>1, <4>1, HandIdx
      <3>4. hand' = [hand EXCEPT ![c].at = "front", ![c].idx = Len(headers)] /\ hand[c].at = "index"
        BY <2>1 DEF Implicit!LoadIndex
      <3>5. hand' = [hand EXCEPT ![c] = h]
        BY <1>4, <2>0, <3>3, <3>4
      <3> QED BY <2>0, <3>1, <3>2, <3>4, <3>5
    <2>2. CASE Implicit!LoadTail(c)
      <3>1. PICK h : h = [at |-> "offset", idx |-> r.idx, pos |-> ix.tail, i |-> r.i]
        OBVIOUS
      <3>2. hand' = [hand EXCEPT ![c].at = "offset", ![c].pos = ix.tail] /\ hand[c].at = "front"
        BY <1>5, <2>2 DEF Implicit!LoadTail
      <3>3. h \in HandRecords
        <4>1. ix.tail \in Int
          BY <1>6, <3>2, SizeIs
        <4> QED BY <2>0, <3>1, <4>1 DEF HandRecords
      <3>4. h = [r EXCEPT !.at = "offset", !.pos = ix.tail]
        <4>1. r \in HandRecords
          BY <2>0
        <4>2. [r EXCEPT !.at = "offset", !.pos = ix.tail] = [at |-> "offset", idx |-> r.idx, pos |-> ix.tail, i |-> r.i]
          BY <4>1, HandPos
        <4> QED BY <3>1, <4>2, Zenon
      <3>5. hand' = [hand EXCEPT ![c] = h]
        BY <1>4, <2>0, <3>2, <3>4
      <3> QED BY <2>0, <3>1, <3>2, <3>3, <3>5
    <2>3. CASE Implicit!FindSlot(c)
      <3>0. PICK s : s = Implicit!SlotOf(r.i, ix, r.pos)
        OBVIOUS
      <3>1. PICK h : h = [at |-> "move", idx |-> r.idx, pos |-> s, i |-> r.i]
        OBVIOUS
      <3>2. hand' = [hand EXCEPT ![c].at = "move", ![c].pos = s] /\ hand[c].at = "offset"
        BY <1>5, <2>0, <2>3, <3>0 DEF Implicit!FindSlot
      <3>3. s \in Int
        BY <1>61, <2>0, <3>0, <3>2
      <3>4. h \in HandRecords
        BY <2>0, <3>1, <3>3 DEF HandRecords
      <3>5. h = [r EXCEPT !.at = "move", !.pos = s]
        <4>1. r \in HandRecords
          BY <2>0
        <4>2. [r EXCEPT !.at = "move", !.pos = s] = [at |-> "move", idx |-> r.idx, pos |-> s, i |-> r.i]
          BY <4>1, HandPos
        <4> QED BY <3>1, <4>2, Zenon
      <3>6. hand' = [hand EXCEPT ![c] = h]
        BY <1>4, <2>0, <3>2, <3>5
      <3> QED BY <2>0, <3>0, <3>1, <3>2, <3>4, <3>6
    <2> QED BY <2>1, <2>2, <2>3
  <1>8. /\ Walks' /\ hand'[c] = h /\ Rest(c)' = Rest(c) /\ Outside' /\ Owes(c)' = Owes(c)
        /\ \A d \in Consumers : d /= c => hand'[d] = hand[d] /\ Rest(d)' = Rest(d) /\ Owes(d)' = Owes(d)
    <2>1. h.at /= "idle" /\ (h.at \in MovedAt <=> hand[c].at \in MovedAt) /\ taken' = taken /\ UNCHANGED <<claim, headIndex, limit>>
      BY <1>1, <1>2, <1>3, <1>7 DEF MovedAt
    <2> QED BY <1>0, <1>3, <1>7, <2>1, PlaceWalks
  <1>9. Walking' /\ \A d \in Consumers : Rest(d)' = Rest(d) /\ Owes(d)' = Owes(d)
    BY <1>8 DEF Walking
  <1>10. \A d \in Consumers : Keeps(d)' = Keeps(d)
    <2>1. \A d \in Consumers : d /= c => Keeps(d)' = Keeps(d)
      BY <1>8, <1>9, KeepsStay
    <2>2. Keeps(c)' = Rest(c)'
      BY <1>7, <1>8 DEF Keeps
    <2> QED BY <1>4, <1>8, <2>1, <2>2
  <1>11. Spent' = Spent
    BY <1>2, <1>10 DEF Spent
  <1>12. YIndex' /\ YBlocks' /\ YCall' /\ Ents' = Ents /\ Numbers' = Numbers
    BY <1>1, <1>2, IndexStays
  <1>13. YCount' /\ YCells' /\ Unlinking(Housed, Spent)'
    <2>1. \A d \in Consumers : (hand'[d].at = "unlink" <=> hand[d].at = "unlink") /\ (hand'[d].at = "unlink" => hand'[d].i = hand[d].i)
      BY <1>3, <1>7, <1>8
    <2> QED BY <1>1, <1>2, <1>11, <2>1, SpentStays
  <1>14. HandIn(c, headers, key, Ents)'
    <2>0. PICK k, es : k = h /\ es = Ents
      OBVIOUS
    <2>1. CASE h.at = "front"
      <3>1. \A i \in Keeps(c) : Ents[Number(i)] \in SlotsOf(headers[Len(headers)])
        <4>1. \A i \in Keeps(c) : Number(i) \in Int
          BY <1>0, SpentIs, Division
        <4> QED BY <4>1, TailEntry
      <3>2. hand'[c].at = "front" /\ hand'[c].idx = Len(headers) /\ Len(headers) \in 1 .. Len(headers)
        BY <1>7, <1>8, <2>1, TailEntry
      <3> QED BY <1>10, <1>12, <3>1, <3>2 DEF HandIn, Reads, SlotsOf, Size, Number
    <2>2. CASE h.at = "offset"
      <3>1. /\ HeaderIn(ix, Len(key)) /\ Reads(c, ix, key, Ents) /\ hand[c].idx \in 1 .. Len(headers)
        BY <1>6, <1>7, <2>2
      <3>2. ix.tail \in 0 .. Size(ix) - 1 /\ Recent(key[EntryIn(ix, ix.tail)])
        <4>1. ix.tail \in 0 .. Size(ix) - 1
          BY <3>1, SizeIs
        <4>2. CASE hand[c].idx /= Len(headers)
          <5>1. Indexed(headers, key, Last, Ents)
            BY DEF YAll, YInv, YIndex, Stored
          <5> QED BY <1>5, <3>1, <4>1, <4>2, <5>1 DEF Indexed
        <4>3. CASE hand[c].idx = Len(headers)
          <5>1. EntryIn(ix, ix.tail) = Ents[Last]
            BY <1>5, <4>3, TailEntry
          <5>2. Keyed(key, Ents, Number(hand[c].i), Last) /\ Within(headers, Last, Number(hand[c].i))
            BY <1>3, AtPosition, Found
          <5>3. key[Ents[Last]] = First(Last) /\ Last \in Numbers
            BY <1>4, <5>2, YMade DEF Keyed, Within
          <5> QED BY <4>1, <5>1, <5>3 DEF Recent
        <4> QED BY <4>1, <4>2, <4>3
      <3>3. hand'[c].at = "offset" /\ hand'[c].idx = hand[c].idx /\ hand'[c].pos = ix.tail
        BY <1>7, <1>8, <2>2
      <3>4. Reads(c, ix, key, Ents)'
        BY <1>10, <1>12, <3>1, <3>2, <3>3 DEF Reads, SlotsOf, Size, Number, EntryIn, Recent
      <3>5. headers'[hand'[c].idx] = ix /\ hand'[c].idx \in 1 .. Len(headers')
        BY <1>5, <3>1, <3>3
      <3> QED BY <1>5, <1>12, <3>3, <3>4, <3>5 DEF HandIn
    <2>3. CASE h.at = "move"
      <3>1. /\ HeaderIn(ix, Len(key)) /\ Reads(c, ix, key, Ents) /\ hand[c].idx \in 1 .. Len(headers)
        BY <1>6, <1>7, <2>3
      <3>2. PICK s \in 0 .. Size(ix) - 1 : s = Implicit!SlotOf(hand[c].i, ix, hand[c].pos) /\ EntryIn(ix, s) = Ents[Number(hand[c].i)]
        BY <1>7, <1>61, <2>3
      <3>3. hand'[c].at = "move" /\ hand'[c].idx = hand[c].idx /\ hand'[c].pos = s /\ hand'[c].i = hand[c].i
        BY <1>7, <1>8, <2>3, <3>2
      <3>4. Reads(c, ix, key, Ents)'
        BY <1>10, <1>12, <3>1, <3>2, <3>3 DEF Reads, SlotsOf, Size, Number, EntryIn, Recent
      <3>5. headers'[hand'[c].idx] = ix /\ hand'[c].idx \in 1 .. Len(headers')
        BY <1>5, <3>1, <3>3
      <3> QED BY <1>5, <1>12, <3>3, <3>4, <3>5 DEF HandIn
    <2> QED BY <1>7, <2>1, <2>2, <2>3
  <1>15. YHands'
    <2>1. ASSUME NEW d \in Consumers, d /= c PROVE HandIn(d, headers, key, Ents)'
      BY <1>0, <1>8, <1>10, <1>12, <2>1, OtherReads DEF YHands
    <2> QED BY <1>13, <1>14, <2>1 DEF YHands
  <1>16. [SubQ!Next]_(SubQ!subQueueVars)
    <2>1. tailIndex <= tailIndex' /\ headIndex' = headIndex /\ taken' = taken
      BY <1>1, <1>2, YEnds
    <2> QED BY <1>0, <1>9, <2>1, QuietStep
  <1> QED BY <1>9, <1>12, <1>13, <1>15, <1>16 DEF YInv

\* Positions of one block that are counted, too.
Adding(S, P, T) == T = S \cup P
AddedIn(n, S, P, T) ==
  /\ Cardinality(SpentIn(T, n)) = Cardinality(SpentIn(S, n)) + Cardinality(P) /\ Cardinality(P) \in Nat
  /\ \A q \in Int : q /= n => SpentIn(T, q) = SpentIn(S, q)
LEMMA PartGrows ==
  ASSUME NEW n \in Int, NEW S, NEW P, P \subseteq Int, \A i \in P : Number(i) = n /\ i \notin S, NEW T, Adding(S, P, T)
  PROVE  AddedIn(n, S, P, T)
  <1>1. PICK A, B : A = SpentIn(S, n) /\ B = SpentIn(P, n)
    OBVIOUS
  <1>0. T = S \cup P
    BY DEF Adding
  <1>2. A \subseteq Offsets /\ B \subseteq Offsets /\ SpentIn(T, n) = A \cup B /\ A \cap B = {}
    BY <1>0, <1>1 DEF SpentIn
  <1>3. IsFiniteSet(A) /\ IsFiniteSet(B) /\ Cardinality(A) \in Nat /\ Cardinality(B) \in Nat
    BY <1>2, PartCount
  <1>4. Cardinality(A \cup B) = Cardinality(A) + Cardinality(B)
    <2>1. Cardinality(A \cup B) = Cardinality(A) + Cardinality(B) - Cardinality(A \cap B)
      BY <1>3, FS_Union, Zenon
    <2>2. Cardinality(A \cap B) = 0
      BY <1>2, FS_EmptySet, Zenon
    <2> QED BY <1>3, <2>1, <2>2
  <1>5. Cardinality(P) = Cardinality(B)
    <2>1. PICK f : f = [o \in B |-> First(n) + o]
      OBVIOUS
    <2>2. f \in [B -> P]
      BY <1>1, <2>1 DEF SpentIn
    <2>3. ASSUME NEW a \in B, NEW b \in B, f[a] = f[b] PROVE a = b
      <3>1. a \in Offsets /\ b \in Offsets
        BY <1>2
      <3>2. f[a] % BlockSize = a /\ f[b] % BlockSize = b
        BY <2>1, <3>1, Placed
      <3> QED BY <2>3, <3>2
    <2>4. ASSUME NEW i \in P PROVE \E o \in B : f[o] = i
      <3>1. i \in Int /\ Number(i) = n
        OBVIOUS
      <3>2. i % BlockSize \in Offsets /\ First(n) + (i % BlockSize) = i
        BY <3>1, Division
      <3>3. i % BlockSize \in B
        BY <1>1, <3>2 DEF SpentIn
      <3> QED BY <2>1, <3>2, <3>3
    <2>5. f \in Bijection(B, P)
      BY <2>2, <2>3, <2>4 DEF Bijection, Injection, Surjection, IsInjective
    <2>6. ExistsBijection(B, P)
      BY <2>5 DEF ExistsBijection
    <2> QED BY <1>3, <2>6, FS_Bijection
  <1>6. ASSUME NEW q \in Int, q /= n PROVE SpentIn(T, q) = SpentIn(S, q)
    <2>1. ASSUME NEW o \in Offsets PROVE First(q) + o \notin P
      BY <1>6, Placed
    <2> QED BY <1>0, <2>1 DEF SpentIn
  <1> QED BY <1>1, <1>2, <1>3, <1>4, <1>5, <1>6 DEF AddedIn

\* The entry a consumer has found is that of the block of its positions, which have their elements in it.
LEMMA EntryFound ==
  ASSUME YAll, NEW c \in Consumers, hand[c].at \in {"move", "release"}
  PROVE  /\ Here(c) \subseteq Rest(c) /\ hand[c].i \in Here(c)
         /\ Implicit!EntryOf(c) = Ents[Number(hand[c].i)]
         /\ value[Implicit!EntryOf(c)] = Housed[Number(hand[c].i)] /\ Housed[Number(hand[c].i)] \in Blocks
         /\ \A i \in Here(c) : i \in Int /\ Number(i) = Number(hand[c].i) /\ cell[Housed[Number(hand[c].i)]][i % BlockSize] = i
  <1>0. CountersInv /\ Walks
    BY DEF YAll, Walking
  <1>1. /\ claim[c].at = "owner" /\ hand[c].i \in Int /\ hand[c].i \in Rest(c) /\ Keeps(c) = Rest(c)
        /\ hand[c].i \notin Spent /\ Start <= hand[c].i /\ hand[c].i < Top
        /\ Reads(c, headers[hand[c].idx], key, Ents)
    BY AtPosition
  <1>2. EntryIn(headers[hand[c].idx], hand[c].pos) = Ents[Number(hand[c].i)]
    BY <1>1 DEF Reads
  <1>3. Implicit!EntryOf(c) = Ents[Number(hand[c].i)]
    BY <1>2, EntryAtIs DEF Implicit!EntryOf
  <1>4. value[Ents[Number(hand[c].i)]] = Housed[Number(hand[c].i)] /\ Housed[Number(hand[c].i)] \in Blocks
    BY <1>1, Found
  <1>5. \A i \in Here(c) : i \in Rest(c) /\ i \in Int /\ Number(i) = Number(hand[c].i)
    BY <1>0, <1>1, HereIs, RestIs
  <1>6. hand[c].i \in Here(c)
    BY <1>0, <1>1, HereIs, RestIs
  <1>7. ASSUME NEW i \in Here(c) PROVE cell[Housed[Number(hand[c].i)]][i % BlockSize] = i
    <2>1. i \in Keeps(c) /\ i \in Int /\ Number(i) = Number(hand[c].i)
      BY <1>1, <1>5
    <2>2. Start <= i /\ i < headIndex /\ i \notin Spent
      BY <1>0, <2>1, SpentIs
    <2>3. i < Top
      <3>1. headIndex <= Top /\ headIndex \in Int /\ Top \in Int
        BY TopMade, YEnds
      <3> QED BY <2>1, <2>2, <3>1
    <2> QED BY <2>1, <2>2, <2>3, Found
  <1> QED BY <1>3, <1>4, <1>5, <1>6, <1>7

\* A consumer stays in the block it is at.
LEMMA ReadsOn ==
  ASSUME NEW c, NEW h, Reads(c, h, key, Ents), hand[c].at \in {"move", "release"}, NEW at \in {"release", "unlink"},
         hand'[c].at = at, hand'[c].pos = hand[c].pos, hand'[c].i = hand[c].i, \A i \in Keeps(c)' : i \in Keeps(c),
         key' = key, Ents' = Ents
  PROVE  Reads(c, h, key, Ents)'
  <1>1. hand[c].pos \in 0 .. Size(h) - 1 /\ EntryIn(h, hand[c].pos) = Ents[Number(hand[c].i)]
    BY DEF Reads
  <1>2. \A i \in Keeps(c)' : Ents[Number(i)] \in SlotsOf(h)
    BY DEF Reads
  <1> QED BY <1>1, <1>2 DEF Reads, SlotsOf, Size, Number, EntryIn

\* The elements in one block are moved out.
LEMMA YMove ==
  ASSUME YAll, CountersInv', NEW c \in Consumers, Implicit!MoveOut(c), UNCHANGED <<count, key, value, headers>>
  PROVE  Walking' /\ YInv' /\ [SubQ!Next]_(SubQ!subQueueVars)
  <1>0. CountersInv /\ Walking /\ Walks /\ YHands
    BY DEF YAll, YInv, Walking
  <1>1. MoveOutOf(c, value[Implicit!EntryOf(c)])
    BY ImplicitWalks DEF Implicit!MoveOut
  <1>2. /\ hand[c].at = "move" /\ hand' = [hand EXCEPT ![c].at = "release"]
        /\ taken' = taken \cup {cell[value[Implicit!EntryOf(c)]][i % BlockSize] : i \in Here(c)}
        /\ UNCHANGED <<claimVars, pool, tailBlock, cell, prod, limit>>
    BY <1>1 DEF MoveOutOf
  <1>3. UNCHANGED <<tailIndex, headIndex, claim>>
    BY <1>2 DEF claimVars
  <1>4. \A i \in Here(c) : cell[value[Implicit!EntryOf(c)]][i % BlockSize] = i
    BY <1>2, EntryFound
  <1>5. taken' = taken \cup Here(c)
    <2>1. {cell[value[Implicit!EntryOf(c)]][i % BlockSize] : i \in Here(c)} = Here(c)
      BY <1>4
    <2> QED BY <1>2, <2>1
  <1>50. hand[c] \in HandRecords /\ hand \in [Consumers -> HandRecords] /\ Keeps(c) = Rest(c)
         /\ hand[c].idx \in 1 .. Len(headers) /\ Reads(c, headers[hand[c].idx], key, Ents)
    BY <1>2, AtPosition
  <1>6. PICK h : h = [hand[c] EXCEPT !.at = "release"]
    OBVIOUS
  <1>7. h = [at |-> "release", idx |-> hand[c].idx, pos |-> hand[c].pos, i |-> hand[c].i]
    <2>1. hand[c] = [at |-> hand[c].at, idx |-> hand[c].idx, pos |-> hand[c].pos, i |-> hand[c].i]
      BY <1>50 DEF HandRecords
    <2> QED BY <1>6, <2>1
  <1>8. h \in HandRecords /\ hand' = [hand EXCEPT ![c] = h] /\ h.i = hand[c].i /\ h.at \in MovedAt /\ hand[c].at \notin MovedAt
        /\ hand[c].at /= "idle" /\ h.at /= "idle"
    <2>1. h \in HandRecords
      BY <1>50, <1>7 DEF HandRecords
    <2>2. hand' = [hand EXCEPT ![c] = h]
      BY <1>50, <1>2, <1>6
    <2> QED BY <1>2, <1>7, <2>1, <2>2 DEF MovedAt
  <1>9. Walking' /\ [SubQ!Next]_(SubQ!subQueueVars)
    BY <1>0, <1>2, <1>3, <1>5, <1>8, MoveStep
  <1>10. /\ hand'[c] = h /\ Rest(c)' = Rest(c)
         /\ \A d \in Consumers : d /= c => hand'[d] = hand[d] /\ Rest(d)' = Rest(d) /\ Owes(d)' = Owes(d)
    BY <1>0, <1>2, <1>3, <1>8, PlaceWalks
  <1>11. \A d \in Consumers : Keeps(d)' = Keeps(d)
    <2>1. \A d \in Consumers : d /= c => Keeps(d)' = Keeps(d)
      BY <1>10, KeepsStay
    <2>2. Keeps(c)' = Rest(c)'
      BY <1>7, <1>10 DEF Keeps
    <2> QED BY <1>10, <1>50, <2>1, <2>2
  <1>12. Spent' = Spent
    BY <1>3, <1>11 DEF Spent
  <1>13. YIndex' /\ YBlocks' /\ YCall' /\ Ents' = Ents /\ Numbers' = Numbers
    BY <1>2, <1>3, IndexStays
  <1>14. hand'[c].at = "release" /\ hand'[c].idx = hand[c].idx /\ hand'[c].pos = hand[c].pos /\ hand'[c].i = hand[c].i
    BY <1>7, <1>10
  <1>15. YCount' /\ YCells' /\ Unlinking(Housed, Spent)'
    <2>1. \A d \in Consumers : (hand'[d].at = "unlink" <=> hand[d].at = "unlink") /\ (hand'[d].at = "unlink" => hand'[d].i = hand[d].i)
      BY <1>2, <1>10, <1>14
    <2> QED BY <1>2, <1>3, <1>12, <2>1, SpentStays
  <1>16. HandIn(c, headers, key, Ents)'
    <2>1. PICK x : x = headers[hand[c].idx]
      OBVIOUS
    <2>2. Reads(c, x, key, Ents)'
      <3>1. \A i \in Keeps(c)' : i \in Keeps(c)
        BY <1>11
      <3> QED BY <1>2, <1>13, <1>14, <1>50, <2>1, <3>1, ReadsOn
    <2> QED BY <1>14, <1>50, <2>1, <2>2 DEF HandIn
  <1>17. YHands'
    <2>1. ASSUME NEW d \in Consumers, d /= c PROVE HandIn(d, headers, key, Ents)'
      BY <1>0, <1>10, <1>11, <1>13, <2>1, OtherReads DEF YHands
    <2> QED BY <1>15, <1>16, <2>1 DEF YHands
  <1> QED BY <1>9, <1>13, <1>15, <1>17 DEF YInv

\* On to the next block, or the walk is over: the positions in this block are given up.
LEMMA OnWalks ==
  ASSUME YAll, CountersInv', NEW c \in Consumers, hand[c].at \in MovedAt, NEW size \in Nat \ {0}, NextBlock(c, size),
         UNCHANGED <<taken, limit>>
  PROVE  /\ Walking' /\ headIndex' = headIndex /\ tailIndex' = tailIndex /\ [SubQ!Next]_(SubQ!subQueueVars)
         /\ \A d \in Consumers : d /= c => hand'[d] = hand[d] /\ Keeps(d)' = Keeps(d)
         /\ Keeps(c)' = Rest(c) \ Here(c) /\ hand'[c].at /= "unlink"
         /\ \/ hand'[c].at = "idle"
            \/ /\ hand'[c].at = "move" /\ hand'[c].idx = hand[c].idx /\ hand'[c].pos = (hand[c].pos + 1) % size
               /\ hand'[c].i = NextHere(c) /\ NextHere(c) \in Rest(c) \ Here(c)
  <1>0. CountersInv /\ Walking /\ Walks
    BY DEF YAll, Walking
  <1>1. /\ Walking' /\ headIndex' = headIndex /\ tailIndex' = tailIndex
        /\ \A d \in Consumers : d /= c => hand'[d] = hand[d] /\ Rest(d)' = Rest(d)
        /\ \A d \in Consumers : Owes(d)' = Owes(d)
        /\ \A i \in Int : i \in Rest(c)' <=> i \in Rest(c) /\ NextHere(c) <= i
        /\ Rest(c)' \subseteq Rest(c)
        /\ \/ hand'[c].at = "idle"
           \/ /\ hand'[c].at = "move" /\ hand'[c].idx = hand[c].idx /\ hand'[c].pos = (hand[c].pos + 1) % size
              /\ hand'[c].i = NextHere(c) /\ NextHere(c) \in Rest(c)
    BY <1>0, NextWalks
  <1>2. \A d \in Consumers : d /= c => Keeps(d)' = Keeps(d)
    BY <1>1, KeepsStay
  <1>3. claim[c].at = "owner"
    BY <1>0 DEF Walks, MovedAt
  <1>4. NextHere(c) \in Int /\ Rest(c) \subseteq Int /\ \A i \in Int : i \in Rest(c) => (i \in Here(c) <=> i < NextHere(c))
    BY <1>0, <1>3, HereIs, RestIs
  <1>5. Rest(c)' = Rest(c) \ Here(c)
    <2>1. ASSUME NEW i \in Int PROVE i \in Rest(c)' <=> i \in Rest(c) /\ i \notin Here(c)
      BY <1>1, <1>4
    <2>2. Rest(c)' \subseteq Int
      BY <1>1, <1>4
    <2> QED BY <1>4, <2>1, <2>2
  <1>6. Keeps(c)' = Rest(c)'
    BY <1>1 DEF Keeps
  <1>7. NextHere(c) \notin Here(c)
    BY <1>0, <1>4, HereIs
  <1>8. [SubQ!Next]_(SubQ!subQueueVars)
    <2>1. tailIndex <= tailIndex'
      BY <1>1, YEnds
    <2> QED BY <1>0, <1>1, <2>1, QuietStep
  <1> QED BY <1>1, <1>2, <1>5, <1>6, <1>7, <1>8

\* What a consumer finds in its next block's slot.
LEMMA ReadsNext ==
  ASSUME NEW c, NEW m, NEW h, HeaderIn(h, m), InStep(h, key, Ents), Reads(c, h, key, Ents), hand[c].at \in {"release", "unlink"},
         NEW n \in Int, n = Number(hand[c].i),
         hand'[c].at = "move", hand'[c].pos = (hand[c].pos + 1) % Size(h), Number(hand'[c].i) = n + 1,
         \A i \in Keeps(c)' : i \in Keeps(c), hand'[c].i \in Keeps(c), key' = key, Ents' = Ents
  PROVE  Reads(c, h, key, Ents)'
  <1>1. hand[c].pos \in 0 .. Size(h) - 1 /\ EntryIn(h, hand[c].pos) = Ents[n]
    BY DEF Reads
  <1>2. \A i \in Keeps(c)' : Ents[Number(i)] \in SlotsOf(h)
    BY DEF Reads
  <1>3. Ents[n + 1] \in SlotsOf(h)
    BY DEF Reads
  <1>4. PICK x \in 0 .. Size(h) - 1 : x = hand[c].pos
    BY <1>1
  <1>5. EntryIn(h, (x + 1) % Size(h)) = Ents[n + 1] /\ (x + 1) % Size(h) \in 0 .. Size(h) - 1
    <2>1. EntryIn(h, x) = Ents[n]
      BY <1>1, <1>4
    <2> QED BY <1>3, <2>1, NextLeads
  <1>6. hand'[c].pos = (x + 1) % Size(h)
    BY <1>4
  <1>7. PICK y \in 0 .. Size(h) - 1 : y = (x + 1) % Size(h) /\ EntryIn(h, y) = Ents[n + 1]
    BY <1>5
  <1>8. hand'[c].pos \in 0 .. Size(h) - 1 /\ EntryIn(h, hand'[c].pos) = Ents[Number(hand'[c].i)]
    BY <1>6, <1>7
  <1> QED BY <1>2, <1>8 DEF Reads, SlotsOf, Size, Number, EntryIn

\* The positions of one block are counted.  The consumer that counts the last of them is to unlink the block.
LEMMA YRelease ==
  ASSUME YAll, CountersInv', NEW c \in Consumers, Implicit!Release(c)
  PROVE  Walking' /\ YInv' /\ [SubQ!Next]_(SubQ!subQueueVars)
  <1>0. CountersInv /\ Walking /\ Walks /\ YHands /\ YBlocks /\ YCount /\ YCells /\ Unlinking(Housed, Spent)
    BY DEF YAll, YInv, Walking, YHands
  <1>1. PICK e, b, x : e = Implicit!EntryOf(c) /\ b = value[e] /\ x = headers[hand[c].idx]
    OBVIOUS
  <1>2. /\ hand[c].at = "release" /\ count' = [count EXCEPT ![b] = @ + Cardinality(Here(c))]
        /\ IF count'[b] = BlockSize THEN hand' = [hand EXCEPT ![c].at = "unlink"] /\ UNCHANGED claimVars ELSE NextBlock(c, Size(x))
        /\ UNCHANGED <<pool, tailBlock, cell, prod, taken, limit, key, value, headers>>
    <2>1. /\ hand[c].at = "release"
          /\ count' = [count EXCEPT ![value[Implicit!EntryOf(c)]] = @ + Cardinality(Implicit!Here(c))]
          /\ IF count'[value[Implicit!EntryOf(c)]] = BlockSize THEN hand' = [hand EXCEPT ![c].at = "unlink"] /\ UNCHANGED Implicit!claimVars
             ELSE Implicit!NextBlock(c, Implicit!Capacity(headers[hand[c].idx]))
          /\ UNCHANGED <<pool, tailBlock, cell, prod, taken, limit, Implicit!indexVars>>
      <3>1. Implicit!Cardinality(Implicit!Here(c)) = Cardinality(Implicit!Here(c))
        BY Zenon DEF Implicit!Cardinality, Cardinality
      <3> QED BY <3>1 DEF Implicit!Release
    <2>2. Implicit!Here(c) = Here(c) /\ Implicit!Capacity(x) = Size(x) /\ Implicit!claimVars = claimVars
      BY ImplicitWalks, EntryAtIs, Zenon DEF Implicit!claimVars, claimVars
    <2>3. value[Implicit!EntryOf(c)] = b /\ headers[hand[c].idx] = x
      BY <1>1
    <2>4. UNCHANGED Implicit!claimVars => UNCHANGED claimVars
      BY Zenon DEF Implicit!claimVars, claimVars
    <2>5. Implicit!NextBlock(c, Size(x)) => NextBlock(c, Size(x))
      BY ImplicitWalks
    <2>6. /\ hand[c].at = "release" /\ count' = [count EXCEPT ![b] = @ + Cardinality(Here(c))]
          /\ IF count'[b] = BlockSize THEN hand' = [hand EXCEPT ![c].at = "unlink"] /\ UNCHANGED Implicit!claimVars
             ELSE Implicit!NextBlock(c, Size(x))
      BY <2>1, <2>2, <2>3, Zenon
    <2>7. UNCHANGED <<pool, tailBlock, cell, prod, taken, limit, key, value, headers>>
      BY <2>1 DEF Implicit!indexVars
    <2> QED BY <2>4, <2>5, <2>6, <2>7
  <1>3. PICK n \in Int : n = Number(hand[c].i)
    BY <1>2, AtPosition
  <1>4. b \in Blocks /\ b = Housed[n] /\ Here(c) \subseteq Rest(c) /\ hand[c].i \in Here(c) /\ \A i \in Here(c) : i \in Int /\ Number(i) = n
    BY <1>1, <1>2, <1>3, EntryFound
  <1>5. /\ hand[c] \in HandRecords /\ hand \in [Consumers -> HandRecords] /\ Keeps(c) = Rest(c)
        /\ hand[c].idx \in 1 .. Len(headers) /\ Reads(c, x, key, Ents) /\ HeaderIn(x, Len(key)) /\ InStep(x, key, Ents)
        /\ claim[c].at = "owner"
    BY <1>1, <1>2, AtPosition
  <1>6. Size(x) \in Nat \ {0}
    BY <1>5, SizeIs
  <1>7. /\ Walking' /\ headIndex' = headIndex /\ tailIndex' = tailIndex /\ [SubQ!Next]_(SubQ!subQueueVars)
        /\ \A d \in Consumers : d /= c => hand'[d] = hand[d] /\ Keeps(d)' = Keeps(d)
        /\ Keeps(c)' = Rest(c) \ Here(c)
        /\ \/ /\ count'[b] = BlockSize /\ hand'[c].at = "unlink" /\ hand'[c].idx = hand[c].idx
              /\ hand'[c].pos = hand[c].pos /\ hand'[c].i = hand[c].i
           \/ /\ count'[b] /= BlockSize /\ hand'[c].at /= "unlink"
              /\ \/ hand'[c].at = "idle"
                 \/ /\ hand'[c].at = "move" /\ hand'[c].idx = hand[c].idx /\ hand'[c].pos = (hand[c].pos + 1) % Size(x)
                    /\ hand'[c].i = NextHere(c) /\ NextHere(c) \in Rest(c) \ Here(c)
    <2>1. CASE count'[b] = BlockSize
      <3>1. hand' = [hand EXCEPT ![c].at = "unlink"] /\ UNCHANGED claimVars
        BY <1>2, <2>1
      <3>2. UNCHANGED <<claim, headIndex, tailIndex, limit>> /\ taken' = taken
        BY <1>2, <3>1 DEF claimVars
      <3>3. PICK h : h = [hand[c] EXCEPT !.at = "unlink"]
        OBVIOUS
      <3>4. h = [at |-> "unlink", idx |-> hand[c].idx, pos |-> hand[c].pos, i |-> hand[c].i]
        <4>1. hand[c] = [at |-> hand[c].at, idx |-> hand[c].idx, pos |-> hand[c].pos, i |-> hand[c].i]
          BY <1>5 DEF HandRecords
        <4> QED BY <3>3, <4>1
      <3>5. h \in HandRecords /\ hand' = [hand EXCEPT ![c] = h] /\ h.i = hand[c].i /\ h.at /= "idle" /\ hand[c].at /= "idle"
            /\ (h.at \in MovedAt <=> hand[c].at \in MovedAt)
        <4>1. h \in HandRecords
          BY <1>5, <3>4 DEF HandRecords
        <4>2. hand' = [hand EXCEPT ![c] = h]
          BY <1>5, <3>1, <3>3
        <4> QED BY <1>2, <3>4, <4>1, <4>2 DEF MovedAt
      <3>6. /\ Walks' /\ hand'[c] = h /\ Here(c)' = Here(c) /\ Rest(c)' = Rest(c) /\ Outside' /\ Owes(c)' = Owes(c)
            /\ \A d \in Consumers : d /= c => hand'[d] = hand[d] /\ Rest(d)' = Rest(d) /\ Owes(d)' = Owes(d)
        BY <1>0, <3>2, <3>5, PlaceWalks
      <3>7. Keeps(c)' = Rest(c) \ Here(c)
        BY <3>4, <3>6 DEF Keeps
      <3>8. \A d \in Consumers : d /= c => Keeps(d)' = Keeps(d)
        BY <3>6, KeepsStay
      <3>9. Walking' /\ \A d \in Consumers : Owes(d)' = Owes(d)
        BY <3>6 DEF Walking
      <3>10. [SubQ!Next]_(SubQ!subQueueVars)
        <4>1. tailIndex <= tailIndex'
          BY <3>2, YEnds
        <4> QED BY <1>0, <3>2, <3>9, <4>1, QuietStep
      <3> QED BY <2>1, <3>2, <3>4, <3>6, <3>7, <3>8, <3>9, <3>10
    <2>2. CASE count'[b] /= BlockSize
      <3>1. NextBlock(c, Size(x)) /\ hand[c].at \in MovedAt /\ UNCHANGED <<taken, limit>>
        BY <1>2, <2>2 DEF MovedAt
      <3> QED BY <1>6, <2>2, <3>1, OnWalks
    <2> QED BY <2>1, <2>2
  <1>8. YIndex' /\ YBlocks' /\ YCall' /\ Made' = Made /\ Ents' = Ents /\ Housed' = Housed /\ Top' = Top /\ Numbers' = Numbers /\ Start' = Start
    BY <1>2, <1>7, IndexStays
  <1>9. Spent' = Spent \cup Here(c) /\ \A i \in Here(c) : i \notin Spent
    <2>1. \A i \in Here(c) : i \notin Spent /\ i < headIndex
      BY <1>0, <1>4, <1>5, SpentIs
    <2>2. \A d \in Consumers : d /= c => \A i \in Here(c) : i \notin Keeps(d)
      <3>1. ASSUME NEW d \in Consumers, d /= c, NEW i \in Here(c) PROVE i \notin Keeps(d)
        <4>1. i \in Rest(c) /\ c /= d
          BY <1>4, <3>1
        <4>2. i \notin Rest(d)
          BY <1>0, <4>1, OneOwner
        <4> QED BY <4>2 DEF Keeps
      <3> QED BY <3>1
    <2>3. ASSUME NEW i \in Int PROVE i \in Spent' <=> i \in Spent \/ i \in Here(c)
      <3>1. i \in Spent' <=> i < headIndex /\ \A d \in Consumers : i \notin Keeps(d)'
        BY <1>7 DEF Spent
      <3>2. i \in Spent <=> i < headIndex /\ \A d \in Consumers : i \notin Keeps(d)
        BY DEF Spent
      <3>3. i \in Keeps(c)' <=> i \in Keeps(c) /\ i \notin Here(c)
        BY <1>5, <1>7
      <3> QED BY <1>7, <2>1, <2>2, <3>1, <3>2, <3>3
    <2>4. Spent' \subseteq Int /\ Spent \subseteq Int
      BY DEF Spent
    <2> QED BY <1>4, <2>1, <2>3, <2>4
  <1>10. PICK T : T = Spent'
    OBVIOUS
  <1>11. /\ Cardinality(SpentIn(T, n)) = Cardinality(SpentIn(Spent, n)) + Cardinality(Here(c)) /\ Cardinality(Here(c)) \in Nat
         /\ \A q \in Int : q /= n => SpentIn(T, q) = SpentIn(Spent, q)
    <2>1. PICK P, S : P = Here(c) /\ S = Spent
      OBVIOUS
    <2>2. P \subseteq Int
      BY <1>4, <2>1
    <2>3. \A i \in P : Number(i) = n /\ i \notin S
      BY <1>4, <1>9, <2>1
    <2>4. Adding(S, P, T)
      BY <1>9, <1>10, <2>1 DEF Adding
    <2>5. n \in Int
      BY <1>3
    <2>6. /\ Cardinality(SpentIn(T, n)) = Cardinality(SpentIn(S, n)) + Cardinality(P) /\ Cardinality(P) \in Nat
          /\ \A q \in Int : q /= n => SpentIn(T, q) = SpentIn(S, q)
      <3>1. AddedIn(n, S, P, T)
        BY <2>2, <2>3, <2>4, <2>5, PartGrows
      <3> QED BY <3>1 DEF AddedIn
    <2> QED BY <2>1, <2>6
  <1>12. \A q : SpentIn(T, q) \subseteq Offsets /\ Cardinality(SpentIn(T, q)) \in 0 .. BlockSize
                /\ (Cardinality(SpentIn(T, q)) = BlockSize <=> SpentIn(T, q) = Offsets)
    <2>1. \A q : SpentIn(T, q) \subseteq Offsets
      BY DEF SpentIn
    <2> QED BY <2>1, PartCount
  <1>13. count \in [Blocks -> 0 .. BlockSize] /\ count[b] = Cardinality(SpentIn(Spent, n)) /\ Number(Start) <= n /\ n < Made /\ b /= None
    <2>1. b /= None
      BY <1>4, NoneAssumption
    <2> QED BY <1>0, <1>3, <1>4, <2>1 DEF YCount, Counted
  <1>14. count' \in [Blocks -> 0 .. BlockSize] /\ count'[b] = Cardinality(SpentIn(T, n)) /\ \A z \in Blocks : z /= b => count'[z] = count[z]
    <2>1. count[b] + Cardinality(Here(c)) = Cardinality(SpentIn(T, n)) /\ count[b] + Cardinality(Here(c)) \in 0 .. BlockSize
      BY <1>11, <1>12, <1>13
    <2>2. PICK v \in 0 .. BlockSize : v = count[b] + Cardinality(Here(c)) /\ v = Cardinality(SpentIn(T, n))
      BY <2>1
    <2>3. count' = [count EXCEPT ![b] = v]
      BY <1>2, <2>2
    <2> QED BY <1>4, <1>13, <2>2, <2>3
  <1>15. ASSUME NEW q \in Int, Housed[q] /= None, q /= n PROVE Housed[q] /= b /\ Housed[q] \in Blocks
    <2>1. Housed[q] /= b
      BY <1>0, <1>4, <1>13, <1>15 DEF YBlocks, Housing
    <2>2. Stored(headers, key, value, Last, Ents, Housed)
      BY DEF YAll, YInv, YIndex
    <2> QED BY <1>15, <2>1, <2>2, HousedAre
  <1>16. YCount'
    <2>1. Kept(Housed, T, Number(Start), Made)
      <3>1. ASSUME NEW q \in Int, Number(Start) <= q, q < Made, SpentIn(T, q) /= Offsets PROVE Housed[q] /= None
        <4>1. CASE q = n
          BY <1>4, <1>13, <4>1
        <4>2. CASE q /= n
          <5>1. SpentIn(Spent, q) /= Offsets
            BY <1>11, <3>1, <4>2
          <5> QED BY <1>0, <3>1, <5>1 DEF YCount, Kept
        <4> QED BY <4>1, <4>2
      <3> QED BY <3>1 DEF Kept
    <2>2. Counted(Housed, count', T, Number(Start), Made)
      <3>1. ASSUME NEW q \in Int, Housed[q] /= None
            PROVE  Number(Start) <= q /\ q < Made /\ count'[Housed[q]] = Cardinality(SpentIn(T, q))
        <4>1. Number(Start) <= q /\ q < Made /\ count[Housed[q]] = Cardinality(SpentIn(Spent, q))
          BY <1>0, <3>1 DEF YCount, Counted
        <4>2. CASE q = n
          BY <1>4, <1>14, <4>1, <4>2
        <4>3. CASE q /= n
          BY <1>11, <1>14, <1>15, <3>1, <4>1, <4>3
        <4> QED BY <4>2, <4>3
      <3> QED BY <1>14, <3>1 DEF Counted
    <2>3. ASSUME NEW q \in Int, Housed[q] /= None, SpentIn(T, q) = Offsets PROVE \E d \in Consumers : Unlinks(d, q)'
      <3>1. CASE q = n
        <4>1. count'[b] = BlockSize
          BY <1>12, <1>14, <2>3, <3>1
        <4>2. hand'[c].at = "unlink" /\ hand'[c].i = hand[c].i
          BY <1>7, <4>1
        <4> QED BY <1>3, <3>1, <4>2 DEF Unlinks, Number
      <3>2. CASE q /= n
        <4>1. SpentIn(Spent, q) = Offsets
          BY <1>11, <2>3, <3>2
        <4>2. PICK d \in Consumers : Unlinks(d, q)
          BY <1>0, <2>3, <4>1 DEF YCount
        <4>3. d /= c
          BY <1>2, <4>2 DEF Unlinks
        <4>4. hand'[d] = hand[d]
          BY <1>7, <4>3
        <4> QED BY <4>2, <4>4 DEF Unlinks, Number
      <3> QED BY <3>1, <3>2
    <2>4. Number(Start)' = Number(Start) /\ \A q : SpentIn(Spent, q)' = SpentIn(T, q)
      BY <1>8, <1>10 DEF Number, SpentIn
    <2>5. (Kept(Housed, Spent, Number(Start), Made) /\ Counted(Housed, count, Spent, Number(Start), Made))'
      BY <1>8, <1>10, <2>1, <2>2, <2>4
    <2>6. ASSUME NEW q \in Int, Housed'[q] /= None, SpentIn(Spent, q)' = Offsets PROVE \E d \in Consumers : Unlinks(d, q)'
      BY <1>8, <2>3, <2>4, <2>6
    <2> QED BY <2>5, <2>6 DEF YCount
  <1>17. YCells'
    <2>1. Celled(cell, Housed, T, Start, Top)
      BY <1>0, <1>9, <1>10 DEF YCells, Celled
    <2> QED BY <1>2, <1>8, <1>10, <2>1 DEF YCells
  <1>18. Unlinking(Housed, Spent)'
    <2>1. ASSUME NEW d \in Consumers, d /= c, hand'[d].at = "unlink"
          PROVE  /\ Housed[Number(hand'[d].i)] /= None /\ SpentIn(T, Number(hand'[d].i)) = Offsets /\ Number(hand'[d].i) /= n
                 /\ hand[d].at = "unlink" /\ hand'[d].i = hand[d].i
      <3>1. hand'[d] = hand[d]
        BY <1>7, <2>1
      <3>2. Housed[Number(hand[d].i)] /= None /\ SpentIn(Spent, Number(hand[d].i)) = Offsets
        BY <1>0, <2>1, <3>1 DEF Unlinking
      <3>3. Number(hand[d].i) \in Int
        <4>1. hand[d].i \in Int
          BY <1>5 DEF HandRecords
        <4> QED BY <4>1, Division
      <3>4. Number(hand[d].i) /= n
        <4>1. PICK i \in Int : i = hand[c].i /\ i \notin Spent
          BY <1>4, <1>9
        <4>2. i % BlockSize \in Offsets /\ First(n) + (i % BlockSize) = i
          BY <1>3, <4>1, Division
        <4>3. SpentIn(Spent, n) /= Offsets
          BY <4>1, <4>2 DEF SpentIn
        <4> QED BY <3>2, <4>3
      <3> QED BY <1>11, <2>1, <3>1, <3>2, <3>3, <3>4
    <2>2. hand'[c].at = "unlink" => Housed[Number(hand'[c].i)] /= None /\ SpentIn(T, Number(hand'[c].i)) = Offsets /\ Number(hand'[c].i) = n
      <3>1. ASSUME hand'[c].at = "unlink" PROVE SpentIn(T, n) = Offsets /\ Number(hand'[c].i) = n
        BY <1>3, <1>7, <1>12, <1>14, <3>1
      <3> QED BY <1>4, <1>13, <3>1
    <2>3. ASSUME NEW d \in Consumers, hand'[d].at = "unlink"
          PROVE  Housed'[Number(hand'[d].i)] /= None /\ SpentIn(Spent', Number(hand'[d].i)) = Offsets
      BY <1>8, <1>10, <2>1, <2>2, <2>3
    <2>4. ASSUME NEW d \in Consumers, NEW f \in Consumers, hand'[d].at = "unlink", hand'[f].at = "unlink", d /= f
          PROVE  Number(hand'[d].i) /= Number(hand'[f].i)
      <3>1. CASE d = c
        BY <2>1, <2>2, <2>4, <3>1
      <3>2. CASE f = c
        BY <2>1, <2>2, <2>4, <3>2
      <3>3. CASE d /= c /\ f /= c
        BY <1>0, <2>1, <2>4, <3>3 DEF Unlinking
      <3> QED BY <3>1, <3>2, <3>3
    <2> QED BY <2>3, <2>4 DEF Unlinking, Number, SpentIn
  <1>19. HandIn(c, headers, key, Ents)'
    <2>1. \A i \in Keeps(c)' : i \in Keeps(c)
      BY <1>5, <1>7
    <2>2. CASE hand'[c].at = "unlink" /\ hand'[c].idx = hand[c].idx /\ hand'[c].pos = hand[c].pos /\ hand'[c].i = hand[c].i
      <3>1. Reads(c, x, key, Ents)'
        BY <1>2, <1>5, <1>8, <2>1, <2>2, ReadsOn
      <3> QED BY <1>1, <1>2, <1>5, <2>2, <3>1 DEF HandIn
    <2>3. CASE hand'[c].at = "idle"
      BY <2>3 DEF HandIn
    <2>4. CASE /\ hand'[c].at = "move" /\ hand'[c].idx = hand[c].idx /\ hand'[c].pos = (hand[c].pos + 1) % Size(x)
               /\ hand'[c].i = NextHere(c) /\ NextHere(c) \in Rest(c) \ Here(c)
      <3>1. Number(hand'[c].i) = n + 1 /\ hand'[c].i \in Keeps(c)
        BY <1>0, <1>3, <1>5, <2>4, HereIs
      <3>2. Reads(c, x, key, Ents)'
        BY <1>2, <1>3, <1>5, <1>8, <2>1, <2>4, <3>1, ReadsNext
      <3> QED BY <1>1, <1>2, <1>5, <2>4, <3>2 DEF HandIn
    <2> QED BY <1>7, <2>2, <2>3, <2>4
  <1>20. YHands'
    <2>1. ASSUME NEW d \in Consumers, d /= c PROVE HandIn(d, headers, key, Ents)'
      BY <1>0, <1>2, <1>7, <1>8, <2>1, OtherReads DEF YHands
    <2> QED BY <1>18, <1>19, <2>1 DEF YHands
  <1> QED BY <1>7, <1>8, <1>16, <1>17, <1>20 DEF YInv

\* The block a consumer is to unlink: all its positions are counted.
LEMMA AtUnlink ==
  ASSUME YAll, NEW c \in Consumers, hand[c].at = "unlink"
  PROVE  /\ claim[c].at = "owner" /\ hand[c].i \in Int /\ hand[c] \in HandRecords /\ Number(hand[c].i) \in Int
         /\ hand[c].idx \in 1 .. Len(headers) /\ Reads(c, headers[hand[c].idx], key, Ents)
         /\ HeaderIn(headers[hand[c].idx], Len(key)) /\ InStep(headers[hand[c].idx], key, Ents)
         /\ Housed[Number(hand[c].i)] \in Blocks /\ SpentIn(Spent, Number(hand[c].i)) = Offsets
         /\ Within(headers, Last, Number(hand[c].i)) /\ Implicit!EntryOf(c) = Ents[Number(hand[c].i)]
         /\ value[Ents[Number(hand[c].i)]] = Housed[Number(hand[c].i)]
  <1>0. CountersInv /\ Walks /\ YHands /\ Stored(headers, key, value, Last, Ents, Housed)
    BY DEF YAll, YInv, Walking, YIndex
  <1>1. claim[c].at = "owner" /\ hand[c] \in HandRecords
    BY <1>0 DEF Walks
  <1>2. hand[c].i \in Int
    BY <1>1 DEF HandRecords
  <1>3. hand[c].idx \in 1 .. Len(headers) /\ Reads(c, headers[hand[c].idx], key, Ents)
    BY <1>0 DEF YHands, HandIn
  <1>4. HeaderIn(headers[hand[c].idx], Len(key)) /\ InStep(headers[hand[c].idx], key, Ents)
    BY <1>3, TailEntry
  <1>5. PICK n \in Int : n = Number(hand[c].i)
    BY <1>2, Division
  <1>6. Housed[n] /= None /\ SpentIn(Spent, n) = Offsets
    BY <1>0, <1>5 DEF YHands, Unlinking
  <1>7. Within(headers, Last, n) /\ Housed[n] \in Blocks /\ Housed[n] = value[Ents[n]]
    BY <1>0, <1>5, <1>6, HousedAre
  <1>8. Implicit!EntryOf(c) = Ents[n]
    <2>1. Implicit!EntryOf(c) = EntryIn(headers[hand[c].idx], hand[c].pos)
      BY EntryAtIs DEF Implicit!EntryOf
    <2> QED BY <1>3, <1>5, <2>1 DEF Reads
  <1> QED BY <1>1, <1>2, <1>3, <1>4, <1>5, <1>6, <1>7, <1>8

\* A block that is given back, with all its positions counted.
Unhoused(n, new) ==
  /\ Housing(new, pool \cup {Housed[n]}) /\ new[n] = None /\ \A q \in Int : q /= n => new[q] = Housed[q]
  /\ \A q \in Int : new[q] /= None => q /= n /\ new[q] = Housed[q] /\ Housed[q] /= None
LEMMA Rehousing ==
  ASSUME YAll, NEW n \in Int, Housed[n] \in Blocks, NEW new, Rehoused(Housed, n, None, new)
  PROVE  Unhoused(n, new)
  <1>0. new = [Housed EXCEPT ![n] = None]
    BY DEF Rehoused
  <1>1. Housing(Housed, pool) /\ Stored(headers, key, value, Last, Ents, Housed)
    BY DEF YAll, YInv, YBlocks, YIndex
  <1>2. Housed \in [Int -> Blocks \cup {None}]
    BY <1>1, HousedAre
  <1>3. new[n] = None /\ \A q \in Int : q /= n => new[q] = Housed[q]
    BY <1>0, <1>2
  <1>4. \A q \in Int : new[q] /= None => q /= n /\ new[q] = Housed[q] /\ Housed[q] /= None
    BY <1>3
  <1>5. Housed[n] /= None
    BY NoneAssumption
  <1>6. \A q \in Int : new[q] /= None => new[q] \notin pool \cup {Housed[n]}
    BY <1>1, <1>4, <1>5 DEF Housing
  <1>7. \A q, r \in Int : new[q] /= None /\ new[q] = new[r] => q = r
    BY <1>1, <1>4 DEF Housing
  <1>8. \A b \in Blocks : b \in pool \cup {Housed[n]} \/ \E q \in Int : new[q] = b
    <2> TAKE b \in Blocks
    <2>1. CASE b \in pool
      BY <2>1
    <2>2. CASE b \notin pool
      <3>1. PICK q \in Int : Housed[q] = b
        BY <1>1, <2>2 DEF Housing
      <3> QED BY <1>3, <3>1
    <2> QED BY <2>1, <2>2
  <1> QED BY <1>1, <1>3, <1>4, <1>6, <1>7, <1>8 DEF Housing, Unhoused

\* The consumer that completed the count unlinks the block.
LEMMA YUnlink ==
  ASSUME YAll, CountersInv', NEW c \in Consumers, Implicit!Unlink(c)
  PROVE  Walking' /\ YInv' /\ [SubQ!Next]_(SubQ!subQueueVars)
  <1>0. CountersInv /\ Walking /\ Walks /\ YHands /\ YBlocks /\ YCount /\ YCells /\ YCall /\ Unlinking(Housed, Spent)
    BY DEF YAll, YInv, Walking, YHands
  <1>1. PICK e, b, x : e = Implicit!EntryOf(c) /\ b = value[e] /\ x = headers[hand[c].idx]
    OBVIOUS
  <1>2. /\ hand[c].at = "unlink" /\ value' = [value EXCEPT ![e] = None] /\ pool' = pool \cup {b}
        /\ NextBlock(c, Size(x))
        /\ UNCHANGED <<tailBlock, cell, prod, taken, limit, key, headers, count>>
    <2>1. /\ hand[c].at = "unlink" /\ value' = [value EXCEPT ![Implicit!EntryOf(c)] = None]
          /\ pool' = pool \cup {value[Implicit!EntryOf(c)]}
          /\ Implicit!NextBlock(c, Implicit!Capacity(headers[hand[c].idx]))
          /\ UNCHANGED <<tailBlock, cell, prod, taken, limit, key, headers, count>>
      BY DEF Implicit!Unlink
    <2>2. Implicit!Capacity(x) = Size(x)
      BY EntryAtIs
    <2>3. Implicit!NextBlock(c, Size(x))
      BY <1>1, <2>1, <2>2
    <2>4. NextBlock(c, Size(x))
      BY <2>3, ImplicitWalks
    <2> QED BY <1>1, <2>1, <2>4
  <1>3. PICK n \in Int : n = Number(hand[c].i)
    BY <1>2, AtUnlink
  <1>4. /\ hand[c] \in HandRecords /\ claim[c].at = "owner" /\ hand[c].idx \in 1 .. Len(headers) /\ Reads(c, x, key, Ents)
        /\ HeaderIn(x, Len(key)) /\ InStep(x, key, Ents)
        /\ Housed[n] \in Blocks /\ SpentIn(Spent, n) = Offsets /\ Within(headers, Last, n) /\ e = Ents[n] /\ b = Housed[n]
    BY <1>1, <1>2, <1>3, AtUnlink
  <1>5. Size(x) \in Nat \ {0} /\ hand[c].at \in MovedAt /\ UNCHANGED <<taken, limit>>
    BY <1>2, <1>4, SizeIs DEF MovedAt
  <1>6. /\ Walking' /\ headIndex' = headIndex /\ tailIndex' = tailIndex /\ [SubQ!Next]_(SubQ!subQueueVars)
        /\ \A d \in Consumers : d /= c => hand'[d] = hand[d] /\ Keeps(d)' = Keeps(d)
        /\ Keeps(c)' = Rest(c) \ Here(c) /\ hand'[c].at /= "unlink"
        /\ \/ hand'[c].at = "idle"
           \/ /\ hand'[c].at = "move" /\ hand'[c].idx = hand[c].idx /\ hand'[c].pos = (hand[c].pos + 1) % Size(x)
              /\ hand'[c].i = NextHere(c) /\ NextHere(c) \in Rest(c) \ Here(c)
    BY <1>2, <1>5, OnWalks
  <1>7. Keeps(c) = Rest(c) \ Here(c)
    BY <1>2 DEF Keeps
  <1>8. Spent' = Spent
    BY <1>6, <1>7 DEF Spent
  <1>9. PICK new : Rehoused(Housed, n, None, new)
    BY DEF Rehoused
  <1>10. /\ Housing(new, pool \cup {Housed[n]}) /\ new[n] = None /\ \A q \in Int : q /= n => new[q] = Housed[q]
         /\ \A q \in Int : new[q] /= None => q /= n /\ new[q] = Housed[q] /\ Housed[q] /= None
    <2>1. Unhoused(n, new)
      BY <1>3, <1>4, <1>9, Rehousing
    <2> QED BY <2>1 DEF Unhoused
  <1>11. Stored(headers, key, value', Last, Ents, new)
    <2>1. Stored(headers, key, value, Last, Ents, Housed)
      BY DEF YAll, YInv, YIndex
    <2>2. Replacing(headers, key, value, Last, Ents, n, None, value')
      BY <1>2, <1>3, <1>4 DEF Replacing
    <2> QED BY <1>9, <2>1, <2>2, PutOne
  <1>12. Made' = Made /\ Begun' = Begun /\ Top' = Top /\ Numbers' = Numbers /\ Start' = Start
    BY <1>2, <1>6 DEF Made, Begun, Top, Numbers, Start
  <1>13. Last' = Last
    BY <1>2, <1>12 DEF Last
  <1>14. YIndex' /\ Ents' = Ents /\ Housed' = new
    <2>1. headers' = headers /\ key' = key
      BY <1>2
    <2> QED BY <1>11, <1>12, <1>13, <2>1, YIndexNext
  <1>15. YBlocks'
    BY <1>2, <1>4, <1>10, <1>14 DEF YBlocks
  <1>16. YCall'
    <2>1. Made \in Int /\ Begun \in Int /\ Last \in Int
      BY YMade
    <2>2. \A q \in Int : new[q] /= None => Housed[q] /= None /\ new[q] = Housed[q]
      BY <1>10
    <2>3. Made - 1 \in Int /\ Begun - 1 \in Int
      BY <2>1
    <2> QED BY <1>0, <1>2, <1>12, <1>13, <1>14, <2>1, <2>2, <2>3 DEF YCall
  <1>17. YCount'
    <2>1. Kept(new, Spent, Number(Start), Made)
      <3>1. ASSUME NEW q \in Int, Number(Start) <= q, q < Made, SpentIn(Spent, q) /= Offsets PROVE new[q] /= None
        <4>1. q /= n
          BY <1>4, <3>1
        <4>2. Housed[q] /= None
          BY <1>0, <3>1 DEF YCount, Kept
        <4> QED BY <1>10, <4>1, <4>2
      <3> QED BY <3>1 DEF Kept
    <2>2. Counted(new, count, Spent, Number(Start), Made)
      <3>1. ASSUME NEW q \in Int, new[q] /= None
            PROVE  Number(Start) <= q /\ q < Made /\ count[new[q]] = Cardinality(SpentIn(Spent, q))
        <4>1. new[q] = Housed[q] /\ Housed[q] /= None
          BY <1>10, <3>1
        <4> QED BY <1>0, <4>1 DEF YCount, Counted
      <3>2. count \in [Blocks -> 0 .. BlockSize]
        BY <1>0 DEF YCount, Counted
      <3> QED BY <3>1, <3>2 DEF Counted
    <2>3. Number(Start)' = Number(Start) /\ count' = count
      BY <1>2, <1>12 DEF Number
    <2>4. (Kept(Housed, Spent, Number(Start), Made) /\ Counted(Housed, count, Spent, Number(Start), Made))'
      BY <1>8, <1>12, <1>14, <2>1, <2>2, <2>3
    <2>5. ASSUME NEW q \in Int, new[q] /= None, SpentIn(Spent, q) = Offsets PROVE \E d \in Consumers : Unlinks(d, q)'
      <3>1. q /= n /\ Housed[q] /= None
        BY <1>10, <2>5
      <3>2. PICK d \in Consumers : Unlinks(d, q)
        BY <1>0, <2>5, <3>1 DEF YCount
      <3>3. d /= c
        BY <1>3, <3>1, <3>2 DEF Unlinks
      <3>4. hand'[d] = hand[d]
        BY <1>6, <3>3
      <3> QED BY <3>2, <3>4 DEF Unlinks, Number
    <2>6. \A q : SpentIn(Spent, q)' = SpentIn(Spent, q)
      BY <1>8 DEF SpentIn
    <2>7. ASSUME NEW q \in Int, Housed'[q] /= None, SpentIn(Spent, q)' = Offsets PROVE \E d \in Consumers : Unlinks(d, q)'
      BY <1>14, <2>5, <2>6, <2>7
    <2> QED BY <2>4, <2>7 DEF YCount
  <1>18. YCells'
    <2>1. Celled(cell, new, Spent, Start, Top)
      <3>1. ASSUME NEW i \in Int, Start <= i, i < Top, i \notin Spent PROVE cell[new[Number(i)]][i % BlockSize] = i
        <4>1. Number(i) \in Int /\ i % BlockSize \in Offsets /\ First(Number(i)) + (i % BlockSize) = i
          BY Division
        <4>2. Number(i) /= n
          <5>1. i % BlockSize \notin SpentIn(Spent, Number(i))
            BY <3>1, <4>1 DEF SpentIn
          <5> QED BY <1>4, <4>1, <5>1
        <4>3. cell[Housed[Number(i)]][i % BlockSize] = i
          BY <1>0, <3>1 DEF YCells, Celled
        <4> QED BY <1>10, <4>1, <4>2, <4>3
      <3>2. cell \in [Blocks -> [Offsets -> Int \cup {None}]]
        BY <1>0 DEF YCells, Celled
      <3> QED BY <3>1, <3>2 DEF Celled
    <2> QED BY <1>2, <1>8, <1>12, <1>14, <2>1 DEF YCells
  <1>19. Unlinking(Housed, Spent)'
    <2>1. ASSUME NEW d \in Consumers, hand'[d].at = "unlink"
          PROVE  /\ hand'[d] = hand[d] /\ hand[d].at = "unlink"
                 /\ new[Number(hand'[d].i)] /= None /\ SpentIn(Spent, Number(hand'[d].i)) = Offsets
      <3>1. d /= c
        BY <1>6, <2>1
      <3>2. hand'[d] = hand[d]
        BY <1>6, <3>1
      <3>3. Housed[Number(hand[d].i)] /= None /\ SpentIn(Spent, Number(hand[d].i)) = Offsets /\ Number(hand[d].i) /= n
        BY <1>0, <1>2, <1>3, <2>1, <3>1, <3>2 DEF Unlinking
      <3>4. Number(hand[d].i) \in Int
        BY <2>1, <3>2, AtUnlink
      <3> QED BY <1>10, <2>1, <3>2, <3>3, <3>4
    <2>2. ASSUME NEW d \in Consumers, NEW f \in Consumers, hand'[d].at = "unlink", hand'[f].at = "unlink", d /= f
          PROVE  Number(hand'[d].i) /= Number(hand'[f].i)
      BY <1>0, <2>1, <2>2 DEF Unlinking
    <2>3. ASSUME NEW d \in Consumers, hand'[d].at = "unlink"
          PROVE  Housed'[Number(hand'[d].i)] /= None /\ SpentIn(Spent', Number(hand'[d].i)) = Offsets
      BY <1>8, <1>14, <2>1, <2>3
    <2> QED BY <2>2, <2>3 DEF Unlinking, Number, SpentIn
  <1>20. HandIn(c, headers, key, Ents)'
    <2>1. \A i \in Keeps(c)' : i \in Keeps(c)
      BY <1>6, <1>7
    <2>2. CASE hand'[c].at = "idle"
      BY <2>2 DEF HandIn
    <2>3. CASE /\ hand'[c].at = "move" /\ hand'[c].idx = hand[c].idx /\ hand'[c].pos = (hand[c].pos + 1) % Size(x)
               /\ hand'[c].i = NextHere(c) /\ NextHere(c) \in Rest(c) \ Here(c)
      <3>1. Number(hand'[c].i) = n + 1 /\ hand'[c].i \in Keeps(c)
        BY <1>0, <1>3, <1>4, <1>7, <2>3, HereIs
      <3>2. Reads(c, x, key, Ents)'
        BY <1>2, <1>3, <1>4, <1>14, <2>1, <2>3, <3>1, ReadsNext
      <3> QED BY <1>1, <1>2, <1>4, <2>3, <3>2 DEF HandIn
    <2> QED BY <1>6, <2>2, <2>3
  <1>21. YHands'
    <2>1. ASSUME NEW d \in Consumers, d /= c PROVE HandIn(d, headers, key, Ents)'
      BY <1>0, <1>2, <1>6, <1>12, <1>14, <2>1, OtherReads DEF YHands
    <2> QED BY <1>19, <1>20, <2>1 DEF YHands
  <1> QED BY <1>6, <1>14, <1>15, <1>16, <1>17, <1>18, <1>21 DEF YInv

-----------------------------------------------------------------------------
(* The producer's steps in an implicit queue. *)

\* What the consumers keep does not concern the producer.
LEMMA YProducer ==
  ASSUME YAll, CountersInv', UNCHANGED <<headIndex, claim, hand, taken, limit>>, tailIndex <= tailIndex'
  PROVE  /\ Walking' /\ [SubQ!Next]_(SubQ!subQueueVars) /\ Spent' = Spent /\ Start' = Start /\ Numbers' = Numbers
         /\ hand' = hand /\ \A d \in Consumers : Keeps(d)' = Keeps(d)
         /\ \A q : SpentIn(Spent, q)' = SpentIn(Spent, q)
  <1>0. CountersInv /\ Walking
    BY DEF YAll
  <1>1. Walking' /\ \A d \in Consumers : Rest(d)' = Rest(d) /\ Owes(d)' = Owes(d) /\ Here(d)' = Here(d)
    BY <1>0, ProducerWalks
  <1>2. [SubQ!Next]_(SubQ!subQueueVars)
    BY <1>0, <1>1, QuietStep
  <1>3. \A d \in Consumers : Keeps(d)' = Keeps(d)
    BY <1>1, KeepsStay
  <1>4. Spent' = Spent
    BY <1>3 DEF Spent
  <1>5. \A q : SpentIn(Spent, q)' = SpentIn(Spent, q)
    BY <1>4 DEF SpentIn
  <1>6. Start' = Start /\ Numbers' = Numbers
    BY DEF Start, Numbers
  <1> QED BY <1>1, <1>2, <1>3, <1>4, <1>5, <1>6

\* The consumers find what they found in indexes that keep the entries, and their numbers, of what is not counted.
Preserving(hs, ks, ents) ==
  /\ Len(headers) <= Len(hs) /\ Len(hs) \in Nat /\ \A j \in 1 .. Len(headers) : hs[j].slots = headers[j].slots
  /\ \A q \in Int : Housed[q] /= None => ents[q] = Ents[q]
  /\ \A e \in 1 .. Len(key) : Recent(key[e]) => Recent(ks[e])
LEMMA ProducerHands ==
  ASSUME YAll, NEW hs, NEW ks, NEW ents, Preserving(hs, ks, ents), headers' = hs, key' = ks, Ents' = ents, hand' = hand,
         Numbers' = Numbers, \A d \in Consumers : Keeps(d)' = Keeps(d)
  PROVE  \A c \in Consumers : HandIn(c, headers, key, Ents)'
  <1> SUFFICES ASSUME NEW c \in Consumers PROVE HandIn(c, headers, key, Ents)'
    OBVIOUS
  <1>0. CountersInv /\ Walks /\ YHands
    BY DEF YAll, YInv, Walking
  <1>1. Len(headers) <= Len(hs) /\ Len(hs) \in Nat /\ \A j \in 1 .. Len(headers) : hs[j].slots = headers[j].slots
    BY DEF Preserving
  <1>2. CASE hand[c].at \notin {"front", "offset", "move", "release", "unlink"}
    BY <1>2 DEF HandIn
  <1>3. CASE hand[c].at \in {"front", "offset", "move", "release", "unlink"}
    <2>1. hand[c].idx \in 1 .. Len(headers) /\ Reads(c, headers[hand[c].idx], key, Ents)
      BY <1>0, <1>3 DEF YHands, HandIn
    <2>2. PICK j \in 1 .. Len(headers) : j = hand[c].idx
      BY <2>1
    <2>20. PICK h, g : h = headers[j] /\ g = hs[j]
      OBVIOUS
    <2>3. Reads(c, h, key, Ents) /\ g.slots = h.slots /\ HeaderIn(h, Len(key))
      BY <1>1, <2>1, <2>2, <2>20, TailEntry
    <2>4. SlotsOf(g) = SlotsOf(h) /\ Size(g) = Size(h) /\ \A x : EntryIn(g, x) = EntryIn(h, x)
      BY <2>3 DEF SlotsOf, Size, EntryIn
    <2>5. \A i \in Keeps(c) : ents[Number(i)] = Ents[Number(i)]
      <3> SUFFICES ASSUME NEW i \in Keeps(c) PROVE ents[Number(i)] = Ents[Number(i)]
        OBVIOUS
      <3>1. i \in Int /\ Start <= i /\ i < headIndex /\ i \notin Spent
        BY <1>0, SpentIs
      <3>2. i < Top
        BY <3>1, TopMade, YEnds
      <3>3. Number(i) \in Int /\ Housed[Number(i)] /= None
        BY <3>1, <3>2, Found
      <3> QED BY <3>3 DEF Preserving
    <2>6. \A i \in Keeps(c) : ents[Number(i)] \in SlotsOf(g)
      BY <2>3, <2>4, <2>5 DEF Reads
    <2>7. hand[c].at = "offset" => hand[c].pos \in 0 .. Size(g) - 1 /\ Recent(ks[EntryIn(g, hand[c].pos)])
      <3>1. CASE hand[c].at = "offset"
        <4>1. PICK x \in 0 .. Size(h) - 1 : x = hand[c].pos
          BY <2>3, <3>1 DEF Reads
        <4>2. Size(h) \in Nat \ {0}
          BY <2>3, SizeIs
        <4>3. EntryIn(h, x) \in 1 .. Len(key)
          <5>1. x \in Int
            BY <4>1, <4>2
          <5> QED BY <2>3, <5>1, EntryIs
        <4>4. Recent(key[EntryIn(h, x)])
          BY <2>3, <3>1, <4>1 DEF Reads
        <4>5. Recent(ks[EntryIn(h, x)])
          BY <4>3, <4>4 DEF Preserving
        <4> QED BY <2>3, <2>4, <3>1, <4>1, <4>5 DEF Reads
      <3> QED BY <3>1
    <2>8. hand[c].at \in {"move", "release", "unlink"} =>
            hand[c].pos \in 0 .. Size(g) - 1 /\ EntryIn(g, hand[c].pos) = ents[Number(hand[c].i)]
      <3>1. CASE hand[c].at \in {"move", "release"}
        <4>1. hand[c].i \in Keeps(c)
          BY <3>1, AtPosition
        <4>2. hand[c].pos \in 0 .. Size(h) - 1 /\ EntryIn(h, hand[c].pos) = Ents[Number(hand[c].i)]
          BY <2>3, <3>1 DEF Reads
        <4> QED BY <2>4, <2>5, <4>1, <4>2
      <3>2. CASE hand[c].at = "unlink"
        <4>1. Number(hand[c].i) \in Int /\ Housed[Number(hand[c].i)] \in Blocks
          BY <3>2, AtUnlink
        <4>2. Housed[Number(hand[c].i)] /= None
          BY <4>1, NoneAssumption
        <4>3. hand[c].pos \in 0 .. Size(h) - 1 /\ EntryIn(h, hand[c].pos) = Ents[Number(hand[c].i)]
          BY <2>3, <3>2 DEF Reads
        <4>4. ents[Number(hand[c].i)] = Ents[Number(hand[c].i)]
          BY <4>1, <4>2 DEF Preserving
        <4> QED BY <2>4, <4>3, <4>4
      <3> QED BY <3>1, <3>2
    <2>9. /\ hand'[c] = hand[c] /\ headers'[hand[c].idx] = g /\ Len(headers') = Len(hs) /\ hand[c].idx \in 1 .. Len(hs)
          /\ Keeps(c)' = Keeps(c) /\ Len(headers) \in Nat
      BY <1>1, <2>1, <2>2, <2>20, TailEntry
    <2>10. Reads(c, g, key, Ents)'
      BY <2>6, <2>7, <2>8, <2>9 DEF Reads, SlotsOf, EntryIn, Size, Number, Recent
    <2> QED BY <2>9, <2>10 DEF HandIn
  <1> QED BY <1>2, <1>3

\* Steps that leave the blocks of elements in their entries, and count nothing.
Settling ==
  /\ UNCHANGED <<headIndex, claim, hand, taken, limit, count>> /\ tailIndex <= tailIndex'
  /\ Made' \in Int /\ Begun <= Made' /\ Made' <= Made
  /\ \A q \in Int : q < Made' => Housed'[q] = Housed[q]
  /\ \A q \in Int : Housed'[q] /= None => q < Made'
LEMMA YSettles ==
  ASSUME YAll, CountersInv', Settling
  PROVE  YCount' /\ Unlinking(Housed, Spent)'
  <1>0. CountersInv /\ Walks /\ YCount /\ Unlinking(Housed, Spent)
    BY DEF YAll, YInv, Walking, YHands
  <1>1. /\ Spent' = Spent /\ Start' = Start /\ hand' = hand /\ count' = count /\ \A q : SpentIn(Spent, q)' = SpentIn(Spent, q)
    BY YProducer DEF Settling
  <1>2. PICK m \in Int : m = Made' /\ Begun <= m /\ m <= Made
    BY DEF Settling
  <1>3. /\ \A q \in Int : q < m => Housed'[q] = Housed[q]
        /\ \A q \in Int : Housed'[q] /= None => q < m /\ Housed'[q] = Housed[q]
    BY <1>2 DEF Settling
  <1>4. Made \in Int /\ Begun \in Int
    BY YMade
  <1>5. Kept(Housed', Spent, Number(Start), m)
    BY <1>0, <1>2, <1>3, <1>4 DEF YCount, Kept
  <1>6. Counted(Housed', count, Spent, Number(Start), m)
    BY <1>0, <1>3 DEF YCount, Counted
  <1>7. Number(Start)' = Number(Start)
    BY <1>1 DEF Number
  <1>8. (Kept(Housed, Spent, Number(Start), Made) /\ Counted(Housed, count, Spent, Number(Start), Made))'
    BY <1>1, <1>2, <1>5, <1>6, <1>7
  <1>9. ASSUME NEW q \in Int, Housed'[q] /= None, SpentIn(Spent, q)' = Offsets PROVE \E d \in Consumers : Unlinks(d, q)'
    <2>1. PICK d \in Consumers : Unlinks(d, q)
      BY <1>0, <1>1, <1>3, <1>9 DEF YCount
    <2> QED BY <1>1, <2>1 DEF Unlinks, Number
  <1>10. ASSUME NEW d \in Consumers, hand'[d].at = "unlink"
         PROVE  Housed'[Number(hand'[d].i)] /= None /\ SpentIn(Spent', Number(hand'[d].i)) = Offsets
    <2>1. hand[d].at = "unlink" /\ hand'[d] = hand[d]
      BY <1>1, <1>10
    <2>2. PICK n \in Int : n = Number(hand[d].i) /\ Housed[n] \in Blocks /\ SpentIn(Spent, n) = Offsets
      BY <2>1, AtUnlink
    <2>3. n < m
      <3>1. 0 \in Offsets
        BY BlockAssumption DEF Offsets
      <3>2. First(n) + 0 \in Spent /\ First(n) \in Int
        BY <2>2, <3>1, FirstNumber DEF SpentIn
      <3>3. First(n) < headIndex
        BY <1>0, <3>2, SpentIs, YEnds
      <3>4. First(n) < First(Begun) /\ First(Begun) \in Int
        BY <3>2, <3>3, YEnds, YMade
      <3>5. n < Begun
        <4>1. CASE n = Begun
          BY <3>4, <4>1
        <4>2. CASE Begun < n
          <5>1. First(Begun) + BlockSize <= First(n) /\ BlockSize \in Nat
            BY <1>4, <2>2, <4>2, FirstOrder, BlockAssumption
          <5> QED BY <3>2, <3>4, <5>1
        <4> QED BY <1>4, <2>2, <4>1, <4>2
      <3> QED BY <1>2, <1>4, <2>2, <3>5
    <2>4. Housed'[n] /= None
      BY <1>3, <2>2, <2>3, NoneAssumption
    <2> QED BY <1>1, <2>1, <2>2, <2>4
  <1>11. \A c, d \in Consumers : hand'[c].at = "unlink" /\ hand'[d].at = "unlink" /\ c /= d
           => Number(hand'[c].i) /= Number(hand'[d].i)
    BY <1>0, <1>1 DEF Unlinking
  <1> QED BY <1>8, <1>9, <1>10, <1>11 DEF YCount, Unlinking, Number, SpentIn

\* The elements in the blocks left stay where they are.
LEMMA CellsStay ==
  ASSUME YAll, CountersInv', Settling, cell' = cell, Top' = Top, \A i \in Int : i < Top => Number(i) < Made'
  PROVE  YCells'
  <1>1. Spent' = Spent /\ Start' = Start
    BY YProducer DEF Settling
  <1>2. Celled(cell, Housed', Spent, Start, Top)
    <2>1. ASSUME NEW i \in Int, Start <= i, i < Top, i \notin Spent PROVE cell[Housed'[Number(i)]][i % BlockSize] = i
      <3>1. Housed'[Number(i)] = Housed[Number(i)]
        BY <2>1, Division DEF Settling
      <3> QED BY <2>1, <3>1 DEF YAll, YInv, YCells, Celled
    <2> QED BY <2>1 DEF YAll, YInv, YCells, Celled
  <1> QED BY <1>1, <1>2 DEF YCells

\* Steps that leave the index as it is.
LEMMA Unindexed ==
  ASSUME YAll, CountersInv', UNCHANGED <<headIndex, claim, hand, taken, limit, count, headers, key, value>>, tailIndex <= tailIndex',
         Made' = Made, Last' = Last
  PROVE  YIndex' /\ Ents' = Ents /\ Housed' = Housed /\ YCount' /\ YHands' /\ Settling
  <1>1. Stored(headers, key, value, Last, Ents, Housed) /\ Numbers' = Numbers
    BY YProducer DEF YAll, YInv, YIndex
  <1>2. YIndex' /\ Ents' = Ents /\ Housed' = Housed
    BY <1>1, YIndexNext
  <1>3. Settling
    <2>1. Made \in Int /\ Begun <= Made
      BY YMade
    <2>2. \A q \in Int : Housed[q] /= None => q < Made
      BY DEF YAll, YInv, YCount, Counted
    <2> QED BY <1>2, <2>1, <2>2 DEF Settling
  <1>4. YCount' /\ Unlinking(Housed, Spent)'
    BY <1>3, YSettles
  <1>5. Preserving(headers, key, Ents)
    BY TailEntry DEF Preserving
  <1>6. \A c \in Consumers : HandIn(c, headers, key, Ents)'
    <2>1. hand' = hand /\ Numbers' = Numbers /\ \A d \in Consumers : Keeps(d)' = Keeps(d)
      BY YProducer
    <2> QED BY <1>2, <1>5, <2>1, ProducerHands
  <1> QED BY <1>2, <1>3, <1>4, <1>6 DEF YHands

\* What is there between the tail and the blocks made is in the blocks begun.
LEMMA TopBegun ==
  ASSUME YAll
  PROVE  \A i \in Int : i < tailIndex => Number(i) < Begun
  <1> SUFFICES ASSUME NEW i \in Int, i < tailIndex PROVE Number(i) < Begun
    OBVIOUS
  <1>1. PICK e \in Int : e = tailIndex - 1 /\ i <= e
    BY YEnds
  <1>2. Number(i) <= Number(e) /\ Number(e) \in Int /\ Number(i) \in Int
    BY <1>1, NumberOrder, Division
  <1>3. Begun = Number(e) + 1
    BY <1>1 DEF Begun
  <1> QED BY <1>2, <1>3

BulkCall(at, n, k, b) == [NoCall EXCEPT !.at = at, !.n = n, !.need = k, !.start = b]
LEMMA CallIs ==
  ASSUME NEW at, NEW n, NEW k, NEW b
  PROVE  BulkCall(at, n, k, b)
           = [at |-> at, n |-> n, need |-> k, first |-> None, start |-> b, front0 |-> 0, used0 |-> 0]
  <1>1. PICK x : x = [NoCall EXCEPT !.at = at]
    OBVIOUS
  <1>2. x = [at |-> at, n |-> 0, need |-> 0, first |-> None, start |-> None, front0 |-> 0, used0 |-> 0]
    BY <1>1 DEF NoCall
  <1>3. PICK y : y = [x EXCEPT !.n = n]
    OBVIOUS
  <1>4. y = [at |-> at, n |-> n, need |-> 0, first |-> None, start |-> None, front0 |-> 0, used0 |-> 0]
    BY <1>2, <1>3
  <1>5. PICK z : z = [y EXCEPT !.need = k]
    OBVIOUS
  <1>6. z = [at |-> at, n |-> n, need |-> k, first |-> None, start |-> None, front0 |-> 0, used0 |-> 0]
    BY <1>4, <1>5
  <1>7. [z EXCEPT !.start = b] = [at |-> at, n |-> n, need |-> k, first |-> None, start |-> b, front0 |-> 0, used0 |-> 0]
    BY <1>6
  <1> QED BY <1>1, <1>3, <1>5, <1>7 DEF BulkCall

LEMMA NoCallIs == NoCall \in CallRecords /\ NoCall.at = "idle" /\ NoCall.n = 0 /\ NoCall.need = 0
  BY DEF NoCall, CallRecords

\* The elements of a call are published.
LEMMA YPublish ==
  ASSUME YAll, CountersInv', Implicit!Publish, UNCHANGED <<count, key, value, headers>>
  PROVE  Walking' /\ YInv' /\ [SubQ!Next]_(SubQ!subQueueVars)
  <1>0. CountersInv /\ Walking /\ YBlocks /\ YCells /\ YCall
    BY DEF YAll, YInv
  <1>1. /\ prod.at = "publish" /\ tailIndex' = tailIndex + prod.n /\ prod' = NoCall
        /\ UNCHANGED <<headIndex, optimistic, overcommit, claim, pool, tailBlock, cell, hand, taken, limit>>
    <2>1. Publish
      BY ImplicitShares
    <2> QED BY <2>1 DEF Publish, Advance
  <1>2. tailIndex \in Nat /\ prod.n \in Nat /\ prod.n >= 1 /\ prod.need = 0
    BY <1>1, YEnds
  <1>3. PICK t \in Nat, n \in Nat : t = tailIndex /\ n = prod.n /\ tailIndex' = t + n /\ n >= 1
    BY <1>1, <1>2
  <1>4. Made' = Made /\ Begun' = Made /\ Top' = Top /\ Top = t + n /\ Last' = Last
    <2>1. prod'.n = 0 /\ prod'.need = 0 /\ prod'.at = "idle"
      BY <1>1, NoCallIs
    <2>2. (tailIndex' + prod'.n) - 1 = (tailIndex + prod.n) - 1 /\ tailIndex' - 1 = (tailIndex + prod.n) - 1
      BY <1>2, <1>3, <2>1
    <2>3. Made' = Made
      BY <1>2, <2>1, <2>2 DEF Made, Number
    <2>4. Begun' = Made
      <3>1. Begun' = Number((tailIndex + prod.n) - 1) + 1
        BY <2>2 DEF Begun, Number
      <3> QED BY <1>2, <3>1 DEF Made
    <2>5. Top' = Top /\ Top = t + n
      BY <1>1, <1>2, <1>3, <2>1 DEF Top
    <2>6. Last' = Last
      BY <1>1, <2>1, <2>3 DEF Last
    <2> QED BY <2>3, <2>4, <2>5, <2>6
  <1>5. tailIndex <= tailIndex'
    BY <1>3
  <1>6. YIndex' /\ Ents' = Ents /\ Housed' = Housed /\ YCount' /\ YHands' /\ Settling
    BY <1>1, <1>4, <1>5, Unindexed
  <1>7. Walking' /\ [SubQ!Next]_(SubQ!subQueueVars)
    BY <1>1, <1>5, YProducer
  <1>8. YCells'
    <2>1. \A i \in Int : i < Top => Number(i) < Made'
      BY <1>4, TopMade
    <2> QED BY <1>1, <1>4, <1>6, <2>1, CellsStay
  <1>9. YBlocks'
    BY <1>0, <1>1, <1>6 DEF YBlocks
  <1>10. YCall'
    <2>1. prod' \in CallRecords /\ prod'.at = "idle" /\ prod'.need = 0 /\ prod' = NoCall
      BY <1>1, NoCallIs
    <2>2. Begun' <= Made'
      BY <1>4, YMade
    <2>3. Housed'[Made' - 1] /= None => tailBlock' = Housed'[Made' - 1]
      BY <1>0, <1>1, <1>4, <1>6 DEF YCall
    <2>4. tailBlock' \in Blocks \cup {None}
      BY <1>0, <1>1 DEF YCall
    <2> QED BY <2>1, <2>2, <2>3, <2>4 DEF YCall, NoCall
  <1> QED BY <1>6, <1>7, <1>8, <1>9, <1>10 DEF YInv

\* A call begins.
LEMMA YBegin ==
  ASSUME YAll, CountersInv', NEW n \in Nat, n >= 1, Implicit!Begin(n), UNCHANGED <<count, key, value, headers>>
  PROVE  Walking' /\ YInv' /\ [SubQ!Next]_(SubQ!subQueueVars)
  <1>0. CountersInv /\ Walking /\ YBlocks /\ YCells /\ YCall
    BY DEF YAll, YInv
  <1>1. /\ prod.at = "idle" /\ tailIndex + n <= limit
        /\ prod' = [NoCall EXCEPT !.at = IF Implicit!BlocksFor(n) = 0 THEN "fill" ELSE "entry", !.n = n, !.need = Implicit!BlocksFor(n),
                                  !.start = tailBlock]
        /\ UNCHANGED <<tailIndex, headIndex, optimistic, overcommit, claim, pool, tailBlock, cell, hand, taken, limit>>
    BY DEF Implicit!Begin, Implicit!claimVars, Implicit!NoCall, NoCall
  <1>2. PICK t \in Nat : t = tailIndex
    BY YEnds
  <1>3. PICK k \in Nat : k = Implicit!BlocksFor(n) /\ k = Number((t + n) - 1) - Number(t - 1)
    <2>1. Number(t - 1) <= Number((t + n) - 1) /\ Number(t - 1) \in Int /\ Number((t + n) - 1) \in Int
      BY <1>2, NumberOrder, Division
    <2>2. t + n - 1 = (t + n) - 1
      BY <1>2
    <2>3. Implicit!BlocksFor(n) = Number((t + n) - 1) - Number(t - 1)
      BY <1>2, <2>2 DEF Implicit!BlocksFor, Number
    <2> QED BY <2>1, <2>3
  <1>4. PICK at \in {"fill", "entry"} : at = IF k = 0 THEN "fill" ELSE "entry"
    OBVIOUS
  <1>5. PICK b \in Blocks \cup {None} : b = tailBlock
    BY <1>0 DEF YCall
  <1>6. prod' = [at |-> at, n |-> n, need |-> k, first |-> None, start |-> b, front0 |-> 0, used0 |-> 0]
    <2>1. prod' = BulkCall(at, n, k, b)
      BY <1>1, <1>3, <1>4, <1>5 DEF BulkCall
    <2> QED BY <2>1, CallIs
  <1>7. prod' \in CallRecords /\ prod'.at = at /\ prod'.n = n /\ prod'.need = k /\ prod'.start = b
    BY <1>4, <1>5, <1>6 DEF CallRecords
  <1>8. Made = Begun /\ Begun = Number(t - 1) + 1 /\ Number(t - 1) \in Int /\ Begun \in Int
    BY <1>1, <1>2, YMade, Division DEF Begun
  <1>9. Made' = Made /\ Begun' = Begun /\ Top = t /\ Top' = t /\ Last' = Last
    <2>1. (tailIndex' + prod'.n) - 1 = (t + n) - 1
      BY <1>1, <1>2, <1>7
    <2>2. PICK l \in Int, f \in Int : l = Number((t + n) - 1) /\ f = Number(t - 1)
      BY <1>2, Division
    <2>3. Made' = l + (1 - k)
      BY <1>7, <2>1, <2>2 DEF Made, Number
    <2>4. Made' = Made
      BY <1>3, <1>8, <2>2, <2>3
    <2>5. Begun' = Begun /\ Top = t /\ Top' = t
      BY <1>1, <1>2, <1>4, <1>7 DEF Begun, Top, Number
    <2>6. Last' = Last
      BY <1>1, <1>4, <1>7, <2>4 DEF Last
    <2> QED BY <2>4, <2>5, <2>6
  <1>10. tailIndex <= tailIndex'
    BY <1>1, <1>2
  <1>11. YIndex' /\ Ents' = Ents /\ Housed' = Housed /\ YCount' /\ YHands' /\ Settling
    BY <1>1, <1>9, <1>10, Unindexed
  <1>12. Walking' /\ [SubQ!Next]_(SubQ!subQueueVars)
    BY <1>1, <1>10, YProducer
  <1>13. YCells'
    <2>1. \A i \in Int : i < Top => Number(i) < Made'
      BY <1>9, TopMade
    <2> QED BY <1>1, <1>9, <1>11, <2>1, CellsStay
  <1>14. YBlocks'
    BY <1>0, <1>1, <1>11 DEF YBlocks
  <1>15. YCall'
    <2>1. prod'.at \in {"entry", "block"} <=> prod'.need >= 1
      BY <1>4, <1>7
    <2>2. Housed[Made - 1] /= None => b = Housed[Made - 1]
      BY <1>0, <1>1, <1>5 DEF YCall
    <2>3. Housed'[Made' - 1] /= None => tailBlock' = Housed'[Made' - 1]
      BY <1>1, <1>5, <1>9, <1>11, <2>2
    <2>4. Housed'[Begun' - 1] /= None => prod'.start = Housed'[Begun' - 1]
      BY <1>7, <1>8, <1>9, <1>11, <2>2
    <2>5. tailBlock' \in Blocks \cup {None} /\ Begun' <= Made' /\ prod'.at /= "idle" /\ prod'.at /= "block"
      BY <1>0, <1>1, <1>4, <1>7, <1>8, <1>9 DEF YCall
    <2> QED BY <1>7, <2>1, <2>3, <2>4, <2>5 DEF YCall
  <1> QED BY <1>11, <1>12, <1>13, <1>14, <1>15 DEF YInv

\* An element in a cell of its block does not disturb the others.
LEMMA CellLaid ==
  ASSUME YAll, NEW t \in Int, Start <= t, t \notin Spent, Number(t) < Made,
         cell' = [cell EXCEPT ![Housed[Number(t)]][t % BlockSize] = t]
  PROVE  /\ cell' \in [Blocks -> [Offsets -> Int \cup {None}]]
         /\ \A i \in Int : Start <= i /\ (i < Top \/ i = t) /\ i \notin Spent => cell'[Housed[Number(i)]][i % BlockSize] = i
  <1>0. YBlocks /\ YCells
    BY DEF YAll, YInv
  <1>1. PICK b \in Blocks : b = Housed[Number(t)]
    BY Found
  <1>2. cell \in [Blocks -> [Offsets -> Int \cup {None}]]
    BY <1>0 DEF YCells, Celled
  <1>3. PICK o \in Offsets : o = t % BlockSize
    BY Division
  <1>4. PICK g : g = [cell[b] EXCEPT ![o] = t]
    OBVIOUS
  <1>5. g \in [Offsets -> Int \cup {None}] /\ g[o] = t /\ \A d \in Offsets : d /= o => g[d] = cell[b][d]
    BY <1>2, <1>4
  <1>6. /\ cell' \in [Blocks -> [Offsets -> Int \cup {None}]]
        /\ cell'[b][o] = t /\ \A d \in Offsets : d /= o => cell'[b][d] = cell[b][d]
        /\ \A d \in Blocks : d /= b => cell'[d] = cell[d]
    <2>1. cell' = [cell EXCEPT ![b] = g]
      BY <1>1, <1>2, <1>3, <1>4
    <2>2. cell'[b] = g /\ \A d \in Blocks : d /= b => cell'[d] = cell[d]
      BY <1>2, <2>1
    <2>3. cell' \in [Blocks -> [Offsets -> Int \cup {None}]]
      BY <1>2, <1>5, <2>1
    <2> QED BY <1>5, <2>2, <2>3
  <1>7. ASSUME NEW i \in Int, Start <= i, i < Top \/ i = t, i \notin Spent
        PROVE  cell'[Housed[Number(i)]][i % BlockSize] = i
    <2>1. CASE i = t
      <3>1. Housed[Number(i)] = b /\ i % BlockSize = o
        BY <1>1, <1>3, <2>1
      <3>2. cell'[b][o] = i
        BY <1>6, <2>1
      <3> QED BY <3>1, <3>2
    <2>2. CASE i /= t
      <3>1. cell[Housed[Number(i)]][i % BlockSize] = i /\ Housed[Number(i)] \in Blocks /\ Housed[Number(i)] /= None
        BY <1>7, <2>2, Found
      <3>2. i % BlockSize \in Offsets /\ Number(i) \in Int /\ Number(t) \in Int
            /\ i = First(Number(i)) + (i % BlockSize) /\ t = First(Number(t)) + (t % BlockSize)
        BY Division
      <3>3. CASE Housed[Number(i)] /= b
        BY <1>6, <3>1, <3>3
      <3>4. CASE Housed[Number(i)] = b
        <4>1. Number(i) = Number(t)
          BY <1>0, <1>1, <3>1, <3>2, <3>4 DEF YBlocks, Housing
        <4>2. i % BlockSize /= o
          BY <1>3, <2>2, <3>2, <4>1
        <4> QED BY <1>6, <3>1, <3>2, <3>4, <4>2
      <3> QED BY <3>3, <3>4
    <2> QED BY <2>1, <2>2
  <1> QED BY <1>6, <1>7

\* enqueue when there is room in the tail block.
LEMMA YInBlock ==
  ASSUME YAll, CountersInv', Implicit!EnqueueInBlock, UNCHANGED <<count, key, value, headers>>
  PROVE  Walking' /\ YInv' /\ [SubQ!Next]_(SubQ!subQueueVars)
  <1>0. CountersInv /\ Walking /\ Walks /\ YBlocks /\ YCells /\ YCall /\ YCount
    BY DEF YAll, YInv, Walking
  <1>1. /\ prod.at = "idle" /\ tailIndex < limit /\ ~Boundary(tailIndex)
        /\ cell' = [cell EXCEPT ![tailBlock][tailIndex % BlockSize] = tailIndex]
        /\ prod' = [NoCall EXCEPT !.at = "publish", !.n = 1]
        /\ UNCHANGED <<tailIndex, headIndex, optimistic, overcommit, claim, pool, tailBlock, hand, taken, limit>>
    <2>1. EnqueueInBlock
      BY ImplicitShares
    <2> QED BY <2>1 DEF EnqueueInBlock, claimVars
  <1>2. PICK t \in Nat, h \in Nat : t = tailIndex /\ h = headIndex /\ h <= t
    BY YEnds
  <1>3. prod' \in CallRecords /\ prod'.at = "publish" /\ prod'.n = 1 /\ prod'.need = 0
    <2>1. prod' = [at |-> "publish", n |-> 1, need |-> 0, first |-> None, start |-> None, front0 |-> 0, used0 |-> 0]
      BY <1>1, CallRecord, Zenon
    <2> QED BY <2>1 DEF CallRecords
  <1>4. Made = Begun /\ Begun = Number(t) + 1 /\ Number(t) \in Int /\ Made \in Int /\ Start <= t /\ t \notin Spent
    <2>1. Made = Begun /\ Begun = Number(t) + 1 /\ Number(t) \in Int /\ Made \in Int
      BY <1>1, <1>2, YMade
    <2>2. Start <= t /\ t \in Int
      BY <1>2, YEnds
    <2>3. t \notin Spent
      BY <1>0, <1>2, <2>2, SpentIs
    <2> QED BY <2>1, <2>2, <2>3
  <1>5. Made' = Made /\ Begun' = Begun /\ Top = t /\ Top' = t + 1 /\ Last' = Last
    <2>1. (tailIndex' + prod'.n) - 1 = t
      BY <1>1, <1>2, <1>3
    <2>2. Made' = Number(t) + (1 - 0)
      BY <1>3, <2>1 DEF Made, Number
    <2>3. Made' = Made
      BY <1>4, <2>2
    <2>4. Begun' = Begun /\ Top = t /\ Top' = t + 1
      BY <1>1, <1>2, <1>3 DEF Begun, Top, Number
    <2>5. Last' = Last
      BY <1>1, <1>3, <2>3 DEF Last
    <2> QED BY <2>3, <2>4, <2>5
  <1>6. tailIndex <= tailIndex'
    BY <1>1, <1>2
  <1>7. YIndex' /\ Ents' = Ents /\ Housed' = Housed /\ YCount' /\ YHands' /\ Settling
    BY <1>1, <1>5, <1>6, Unindexed
  <1>8. Walking' /\ [SubQ!Next]_(SubQ!subQueueVars) /\ Spent' = Spent /\ Start' = Start
    BY <1>1, <1>6, YProducer
  <1>9. tailBlock = Housed[Number(t)] /\ Number(t) < Made
    <2>1. Housed[Number(t)] /= None
      BY <1>2, <1>4, Found
    <2>2. Made - 1 = Number(t)
      BY <1>4
    <2> QED BY <1>0, <1>1, <1>4, <2>1, <2>2 DEF YCall
  <1>10. YCells'
    <2>1. cell' = [cell EXCEPT ![Housed[Number(t)]][t % BlockSize] = t]
      BY <1>1, <1>2, <1>9
    <2>2. /\ cell' \in [Blocks -> [Offsets -> Int \cup {None}]]
          /\ \A i \in Int : Start <= i /\ (i < Top \/ i = t) /\ i \notin Spent => cell'[Housed[Number(i)]][i % BlockSize] = i
      <3>1. t \in Int
        BY <1>2
      <3> QED BY <1>4, <1>9, <2>1, <3>1, CellLaid
    <2>3. \A i \in Int : i < t + 1 => i < Top \/ i = t
      BY <1>2, <1>5
    <2>4. Celled(cell', Housed, Spent, Start, t + 1)
      BY <2>2, <2>3 DEF Celled
    <2> QED BY <1>5, <1>7, <1>8, <2>4 DEF YCells
  <1>11. YBlocks'
    BY <1>0, <1>1, <1>7 DEF YBlocks
  <1>12. YCall'
    <2>1. Housed'[Made' - 1] /= None => tailBlock' = Housed'[Made' - 1]
      BY <1>0, <1>1, <1>5, <1>7 DEF YCall
    <2>2. tailBlock' \in Blocks \cup {None} /\ Begun' <= Made'
      BY <1>0, <1>1, <1>4, <1>5 DEF YCall
    <2> QED BY <1>3, <2>1, <2>2 DEF YCall
  <1> QED BY <1>7, <1>8, <1>10, <1>11, <1>12 DEF YInv

\* The blocks a call has got, and where the next one starts.
LEMMA CallBlocks ==
  ASSUME YAll
  PROVE  Implicit!Gotten = Made - Begun /\ Implicit!BulkBase = First(Made)
  <1>1. tailIndex \in Nat /\ prod.n \in Nat /\ prod.need \in Nat
    BY YEnds
  <1>2. PICK t \in Int, n \in Int : t = tailIndex /\ n = prod.n
    BY <1>1
  <1>3. PICK need \in Int : need = prod.need
    BY <1>1
  <1>4. PICK e \in Int, f \in Int : e = Number((t + n) - 1) /\ f = Number(t - 1)
    BY Division
  <1>5. PICK m \in Int : m = (e - need) + 1
    OBVIOUS
  <1>6. t + n - 1 = (t + n) - 1
    OBVIOUS
  <1>7. Made = m
    <2>1. Made = e + (1 - need)
      BY <1>2, <1>3, <1>4 DEF Made
    <2> QED BY <1>5, <2>1
  <1>8. Begun = f + 1
    BY <1>2, <1>4 DEF Begun
  <1>9. Implicit!BlocksFor(n) = e - f
    BY <1>2, <1>4, <1>6 DEF Implicit!BlocksFor, Number
  <1>10. Implicit!Gotten = (e - f) - need
    BY <1>2, <1>3, <1>9 DEF Implicit!Gotten
  <1>11. (tailIndex + prod.n - 1) \div BlockSize = e
    BY <1>2, <1>4, <1>6 DEF Number
  <1>12. Implicit!BulkBase = m * BlockSize
    BY <1>3, <1>5, <1>11 DEF Implicit!BulkBase
  <1>13. Made - Begun = (e - f) - need
    BY <1>5, <1>7, <1>8
  <1>14. Implicit!Gotten = Made - Begun
    BY <1>10, <1>13
  <1> QED BY <1>7, <1>12, <1>14 DEF First

\* A call that fails gives back g entries, down to the last block before it.
Failing(r, g) ==
  /\ r \in {0, 1} /\ prod.at \in {"entry", "block", "fill"} /\ (r = 1 <=> prod.at = "block")
  /\ g = (Made - Begun) + r
LEMMA BackTo ==
  ASSUME YAll, NEW r, NEW g, Failing(r, g)
  PROVE  /\ g \in Nat /\ g <= Size(Newest(headers)) /\ Last - g = Begun - 1 /\ Last \in Int /\ Begun \in Int
         /\ Size(Newest(headers)) \in Nat \ {0}
  <1>0. YCount /\ CountersInv /\ Walks
    BY DEF YAll, YInv, Walking
  <1>1. Made \in Int /\ Begun \in Int /\ Begun <= Made /\ Number(Start) <= Begun /\ Number(Start) \in Int
    BY YMade
  <1>2. Last = (Made - 1) + r
    BY <1>1 DEF Failing, Last
  <1>3. g \in Nat /\ Last - g = Begun - 1 /\ Last \in Int
    BY <1>1, <1>2 DEF Failing
  <1>4. PICK k \in Nat \ {0} : k = Size(Newest(headers))
    BY TailEntry, SizeIs
  <1>5. g <= k
    <2>1. CASE Made = Begun
      BY <1>1, <1>4, <2>1 DEF Failing
    <2>2. CASE Begun < Made
      <3>1. PICK i \in Int : i = First(Begun)
        BY YMade
      <3>2. tailIndex <= i /\ tailIndex \in Nat /\ Start \in Nat /\ headIndex \in Nat /\ headIndex <= tailIndex /\ Start <= headIndex
        BY <3>1, YEnds, YMade
      <3>3. Start <= i /\ i \notin Spent
        BY <1>0, <3>2, SpentIs
      <3>4. Number(i) = Begun
        BY <1>1, <3>1, FirstNumber
      <3>5. Within(headers, Last, Begun)
        BY <2>2, <3>3, <3>4, Found
      <3> QED BY <1>1, <1>3, <1>4, <3>5 DEF Within
    <2> QED BY <1>1, <2>1, <2>2
  <1> QED BY <1>1, <1>3, <1>4, <1>5

\* The blocks that come off the index go in the pool.
Back(g) == {EntryIn(Newest(headers), Newest(headers).tail - j) : j \in 0 .. g - 1}
Backing(g, pl) == pl = pool \cup ({value[e] : e \in Back(g)} \ {None})
LEMMA Unmade ==
  ASSUME YAll, NEW r, NEW g, Failing(r, g), NEW pl, Backing(g, pl)
  PROVE  Housing([q \in Int |-> IF q <= Last - g THEN Housed[q] ELSE None], pl)
  <1>0. Housing(Housed, pool) /\ Stored(headers, key, value, Last, Ents, Housed)
    BY DEF YAll, YInv, YBlocks, YIndex
  <1>1. PICK h : h = [q \in Int |-> IF q <= Last - g THEN Housed[q] ELSE None]
    OBVIOUS
  <1>2. g \in Nat /\ g <= Size(Newest(headers)) /\ Last \in Int /\ Size(Newest(headers)) \in Nat \ {0}
    BY BackTo
  <1>3. \A x \in Int : EntryIn(Newest(headers), Newest(headers).tail + x) = Ents[Last + x]
    <2>1. Indexed(headers, key, Last, Ents)
      BY <1>0 DEF Stored
    <2> QED BY <2>1, EntsAre
  <1>4. ASSUME NEW j \in 0 .. g - 1
        PROVE  /\ EntryIn(Newest(headers), Newest(headers).tail - j) = Ents[Last - j]
               /\ Within(headers, Last, Last - j) /\ value[Ents[Last - j]] = Housed[Last - j]
    <2>1. PICK x \in Int : x = -j
      BY <1>2
    <2>2. Newest(headers).tail \in Int
      BY TailEntry, SizeIs
    <2>3. Newest(headers).tail - j = Newest(headers).tail + x /\ Last - j = Last + x
      BY <1>2, <2>1, <2>2
    <2>4. EntryIn(Newest(headers), Newest(headers).tail - j) = Ents[Last - j]
      BY <1>3, <2>3, Zenon
    <2>5. Within(headers, Last, Last - j) /\ Last - j \in Int
      BY <1>2 DEF Within
    <2> QED BY <1>0, <2>4, <2>5, HousedAre
  <1>5. ASSUME NEW b, b \in pl PROVE b \in pool \/ (b \in Blocks /\ b /= None /\ \E q \in Int : Last - g < q /\ q <= Last /\ Housed[q] = b)
    <2>1. CASE b \in pool
      BY <2>1
    <2>2. CASE b \notin pool
      <3>1. PICK e \in Back(g) : b = value[e] /\ b /= None
        BY <1>5, <2>2 DEF Backing
      <3>2. PICK j \in 0 .. g - 1 : e = EntryIn(Newest(headers), Newest(headers).tail - j)
        BY <3>1 DEF Back
      <3>3. b = Housed[Last - j] /\ Last - j \in Int /\ Last - g < Last - j /\ Last - j <= Last
        BY <1>2, <1>4, <3>1, <3>2
      <3>4. b \in Blocks
        BY <1>0, <3>1, <3>3, HousedAre
      <3> QED BY <3>1, <3>3, <3>4
    <2> QED BY <2>1, <2>2
  <1>6. ASSUME NEW q \in Int, Last - g < q, Housed[q] /= None PROVE Housed[q] \in pl
    <2>1. Within(headers, Last, q) /\ Housed[q] = value[Ents[q]]
      BY <1>0, <1>6, HousedAre
    <2>2. q <= Last
      BY <2>1 DEF Within
    <2>3. PICK j \in 0 .. g - 1 : Last - j = q
      <3>1. PICK j \in Int : j = Last - q
        BY <1>2
      <3>2. j \in 0 .. g - 1 /\ Last - j = q
        BY <1>2, <1>6, <2>2, <3>1
      <3> QED BY <3>2
    <2>4. EntryIn(Newest(headers), Newest(headers).tail - j) = Ents[q]
      BY <1>4, <2>3
    <2>5. Ents[q] \in Back(g)
      BY <2>4 DEF Back
    <2> QED BY <1>6, <2>1, <2>5 DEF Backing
  <1>7. pl \subseteq Blocks
    BY <1>0, <1>5 DEF Housing
  <1>8. \A q \in Int : h[q] /= None => h[q] \notin pl /\ h[q] = Housed[q] /\ q <= Last - g
    <2> SUFFICES ASSUME NEW q \in Int, h[q] /= None PROVE h[q] \notin pl /\ h[q] = Housed[q] /\ q <= Last - g
      OBVIOUS
    <2>1. h[q] = Housed[q] /\ q <= Last - g
      BY <1>1
    <2>2. h[q] \notin pool
      BY <1>0, <2>1 DEF Housing
    <2>3. \A s \in Int : Housed[s] = h[q] => s = q
      BY <1>0, <2>1 DEF Housing
    <2> QED BY <1>2, <1>5, <2>1, <2>2, <2>3
  <1>9. \A q, s \in Int : h[q] /= None /\ h[q] = h[s] => q = s
    BY <1>0, <1>8 DEF Housing
  <1>10. \A b \in Blocks : b \in pl \/ \E q \in Int : h[q] = b
    <2> TAKE b \in Blocks
    <2>1. CASE b \in pool
      BY <2>1 DEF Backing
    <2>2. CASE b \notin pool
      <3>1. PICK q \in Int : Housed[q] = b
        BY <1>0, <2>2 DEF Housing
      <3>2. b /= None
        BY NoneAssumption
      <3>3. CASE q <= Last - g
        BY <1>1, <3>1, <3>3
      <3>4. CASE Last - g < q
        BY <1>6, <3>1, <3>2, <3>4
      <3> QED BY <1>2, <3>3, <3>4
    <2> QED BY <2>1, <2>2
  <1>11. Housing(h, pl)
    BY <1>7, <1>8, <1>9, <1>10 DEF Housing
  <1> QED BY <1>1, <1>11

\* What a call that fails does to the index, its entries and the pool.
LEMMA GiveUpIs ==
  ASSUME YAll, NEW r, NEW g, Failing(r, g), Implicit!GiveUp(r)
  PROVE  /\ Returning(headers, value, g, headers', value') /\ Backing(g, pool')
         /\ tailBlock' = prod.start /\ prod' = NoCall
  <1>1. g \in Nat /\ g <= Size(Newest(headers)) /\ Size(Newest(headers)) \in Nat \ {0} /\ r \in Int
    BY BackTo DEF Failing
  <1>2. Implicit!Gotten = Made - Begun /\ Made \in Int /\ Begun \in Int
    BY CallBlocks, YMade
  <1>3. Implicit!Gotten + r - 1 = g - 1
    BY <1>1, <1>2 DEF Failing
  <1>4. Implicit!Cur = Newest(headers)
    BY DEF Implicit!Cur, Newest
  <1>5. PICK h : h = Newest(headers)
    OBVIOUS
  <1>6. {Implicit!EntryAt(h, h.tail - j) : j \in 0 .. g - 1} = Back(g)
    <2>1. \A j : Implicit!EntryAt(h, h.tail - j) = EntryIn(h, h.tail - j)
      BY EntryAtIs
    <2> QED BY <1>5, <2>1, Zenon DEF Back
  <1>7. PICK back : back = {Implicit!EntryAt(Implicit!Cur, Implicit!Cur.tail - j) : j \in 0 .. Implicit!Gotten + r - 1}
    OBVIOUS
  <1>8. back = Back(g)
    BY <1>3, <1>4, <1>5, <1>6, <1>7, Zenon
  <1>9. /\ value' = [e \in DOMAIN value |-> IF e \in back THEN None ELSE value[e]]
        /\ headers' = [headers EXCEPT ![Len(headers)].tail = (@ - Implicit!Gotten - r) % Implicit!Capacity(Implicit!Cur)]
        /\ pool' = pool \cup ({value[e] : e \in back} \ {None})
        /\ tailBlock' = prod.start /\ prod' = NoCall
    BY <1>7 DEF Implicit!GiveUp, Implicit!NoCall, NoCall
  <1>10. Backing(g, pool')
    BY <1>8, <1>9 DEF Backing
  <1>11. \A e : e \in Back(g) <=> \E j \in 0 .. g - 1 : e = EntryIn(Newest(headers), Newest(headers).tail - j)
    BY DEF Back
  <1>12. value' = [e \in DOMAIN value |-> IF \E j \in 0 .. g - 1 : e = EntryIn(Newest(headers), Newest(headers).tail - j) THEN None ELSE value[e]]
    BY <1>8, <1>9, <1>11, Zenon
  <1>13. headers' = Tailed(headers, (h.tail + (-g)) % Size(h))
    <2>1. HeaderIn(h, Len(key)) /\ Len(headers) \in Nat /\ h = headers[Len(headers)] /\ Len(headers) \in 1 .. Len(headers)
      BY <1>5, TailEntry
    <2>2. h.tail \in Int
      BY <2>1, SizeIs
    <2>3. (h.tail - Implicit!Gotten - r) = h.tail + (-g)
      BY <1>1, <1>2, <2>2 DEF Failing
    <2>4. Implicit!Capacity(Implicit!Cur) = Size(h)
      BY <1>4, <1>5, EntryAtIs
    <2>5. PICK t : t = (h.tail + (-g)) % Size(h)
      OBVIOUS
    <2>6. headers' = [headers EXCEPT ![Len(headers)].tail = t]
      <3>1. (headers[Len(headers)].tail - Implicit!Gotten - r) % Implicit!Capacity(Implicit!Cur) = t
        BY <2>1, <2>3, <2>4, <2>5
      <3> QED BY <1>9, <3>1
    <2>7. [h EXCEPT !.tail = t] = [slots |-> h.slots, tail |-> t]
      <3>1. h = [slots |-> h.slots, tail |-> h.tail]
        BY <2>1 DEF HeaderIn, Headers
      <3> QED BY <3>1
    <2>8. headers' = [headers EXCEPT ![Len(headers)] = [h EXCEPT !.tail = t]]
      BY <2>1, <2>6
    <2> QED BY <1>5, <2>5, <2>7, <2>8 DEF Tailed
  <1> QED BY <1>1, <1>5, <1>9, <1>10, <1>12, <1>13 DEF Returning

\* A call fails, and everything is as before it.
LEMMA YGiveUp ==
  ASSUME YAll, CountersInv', NEW r, NEW g, Failing(r, g), Implicit!GiveUp(r),
         UNCHANGED <<claimVars, cell, hand, taken, limit, key, count>>
  PROVE  Walking' /\ YInv' /\ [SubQ!Next]_(SubQ!subQueueVars)
  <1>0. CountersInv /\ Walking /\ YBlocks /\ YCells /\ YCall /\ Stored(headers, key, value, Last, Ents, Housed)
    BY DEF YAll, YInv, YIndex
  <1>1. UNCHANGED <<tailIndex, headIndex, claim>>
    BY DEF claimVars
  <1>2. /\ Returning(headers, value, g, headers', value') /\ Backing(g, pool')
        /\ tailBlock' = prod.start /\ prod' = NoCall
    BY GiveUpIs
  <1>3. g \in Nat /\ Last - g = Begun - 1 /\ Last \in Int /\ Begun \in Int
    BY BackTo
  <1>4. Made \in Int /\ Begun <= Made
    BY YMade
  <1>5. PICK hs, vs, new : hs = headers' /\ vs = value' /\ new = [q \in Int |-> IF q <= Last - g THEN Housed[q] ELSE None]
    OBVIOUS
  <1>6. /\ Stored(hs, key, vs, Last - g, Ents, new)
        /\ Len(hs) = Len(headers) /\ \A j \in 1 .. Len(headers) : hs[j].slots = headers[j].slots
    <2>1. Returning(headers, value, g, hs, vs)
      BY <1>2, <1>5
    <2>2. Returned(headers, key, value, Last, Ents, Housed, g, hs, vs)
      BY <1>0, <2>1, GiveBack
    <2> QED BY <1>5, <2>2 DEF Returned
  <1>7. Made' = Begun /\ Begun' = Begun /\ Last' = Last - g /\ Top' = tailIndex /\ Top = tailIndex
    <2>1. prod'.at = "idle" /\ prod'.n = 0 /\ prod'.need = 0
      BY <1>2, NoCallIs
    <2>2. (tailIndex' + prod'.n) - 1 = tailIndex - 1
      BY <1>1, <2>1, YEnds
    <2>3. PICK f \in Int : f = Number(tailIndex - 1)
      <3>1. tailIndex - 1 \in Int
        BY YEnds
      <3> QED BY <3>1, Division
    <2>4. Made' = f + (1 - 0)
      BY <2>1, <2>2, <2>3 DEF Made, Number
    <2>5. Begun = f + 1 /\ Begun' = Begun
      BY <1>1, <2>3 DEF Begun, Number
    <2>6. Made' = Begun
      BY <2>4, <2>5
    <2>7. Last' = Last - g
      BY <1>3, <2>1, <2>6 DEF Last
    <2>8. Top' = tailIndex /\ Top = tailIndex
      <3>1. tailIndex \in Int
        BY YEnds
      <3>2. prod.at /= "publish"
        BY DEF Failing
      <3>3. Top = tailIndex
        BY <3>2, TopMade
      <3> QED BY <1>1, <2>1, <3>1, <3>3 DEF Top
    <2> QED BY <2>5, <2>6, <2>7, <2>8
  <1>8. tailIndex <= tailIndex'
    BY <1>1, YEnds
  <1>9. /\ Walking' /\ [SubQ!Next]_(SubQ!subQueueVars) /\ Numbers' = Numbers /\ hand' = hand
        /\ \A d \in Consumers : Keeps(d)' = Keeps(d)
    BY <1>1, <1>8, YProducer
  <1>10. YIndex' /\ Ents' = Ents /\ Housed' = new
    <2>1. PICK last : last = Last - g
      OBVIOUS
    <2>2. Stored(hs, key, vs, last, Ents, new) /\ headers' = hs /\ key' = key /\ value' = vs /\ Last' = last
      BY <1>5, <1>6, <1>7, <2>1
    <2> QED BY <1>9, <2>2, YIndexNext
  <1>11. Settling
    <2>1. \A q \in Int : q < Begun => new[q] = Housed[q]
      BY <1>3, <1>5
    <2>2. \A q \in Int : new[q] /= None => q < Begun
      BY <1>3, <1>5
    <2> QED BY <1>1, <1>3, <1>4, <1>7, <1>8, <1>10, <2>1, <2>2 DEF Settling
  <1>12. YCount' /\ Unlinking(Housed, Spent)'
    BY <1>11, YSettles
  <1>13. YHands'
    <2>1. Preserving(hs, key, Ents)
      BY <1>6, TailEntry DEF Preserving
    <2>2. \A c \in Consumers : HandIn(c, headers, key, Ents)'
      BY <1>5, <1>9, <1>10, <2>1, ProducerHands
    <2> QED BY <1>12, <2>2 DEF YHands
  <1>14. YCells'
    <2>1. \A i \in Int : i < Top => Number(i) < Made'
      BY <1>7, TopBegun
    <2> QED BY <1>7, <1>11, <2>1, CellsStay
  <1>15. YBlocks'
    <2>1. Housing(new, pool')
      BY <1>2, <1>5, Unmade
    <2> QED BY <1>10, <2>1 DEF YBlocks
  <1>16. YCall'
    <2>1. prod' \in CallRecords /\ prod'.at = "idle" /\ prod'.need = 0 /\ prod' = NoCall
      BY <1>2, NoCallIs
    <2>2. Housed'[Made' - 1] /= None => tailBlock' = Housed'[Made' - 1]
      <3>1. PICK q \in Int : q = Begun - 1
        BY <1>3
      <3>2. new[q] = Housed[q]
        BY <1>3, <1>5, <3>1
      <3>3. Housed[q] /= None => prod.start = Housed[q]
        BY <1>0, <3>1 DEF YCall, Failing
      <3> QED BY <1>2, <1>7, <1>10, <3>1, <3>2, <3>3
    <2>3. tailBlock' \in Blocks \cup {None}
      BY <1>0, <1>2 DEF YCall, CallRecords
    <2>4. Begun' <= Made'
      BY <1>3, <1>7
    <2> QED BY <2>1, <2>2, <2>3, <2>4 DEF YCall, NoCall
  <1> QED BY <1>9, <1>10, <1>12, <1>13, <1>14, <1>15, <1>16 DEF YInv

\* The newest index with its tail set.
LEMMA SetTail ==
  ASSUME NEW hs \in Seq(Headers), Len(hs) >= 1, NEW t
  PROVE  [hs EXCEPT ![Len(hs)].tail = t] = Tailed(hs, t)
  <1>1. Len(hs) \in 1 .. Len(hs) /\ hs[Len(hs)] \in Headers
    OBVIOUS
  <1>2. PICK h \in Headers : h = hs[Len(hs)]
    BY <1>1
  <1>3. [h EXCEPT !.tail = t] = [slots |-> h.slots, tail |-> t]
    <2>1. h = [slots |-> h.slots, tail |-> h.tail]
      BY <1>2 DEF Headers
    <2> QED BY <2>1
  <1>4. [hs EXCEPT ![Len(hs)].tail = t] = [hs EXCEPT ![Len(hs)] = [h EXCEPT !.tail = t]]
    BY <1>1, <1>2
  <1> QED BY <1>2, <1>3, <1>4 DEF Tailed, Newest

\* What insert_block_index_entry does: it takes the entry of the next number, of a larger index
\* when that one is not free, or the call fails.
Entering(hs, ks, vs) ==
  /\ headers' = Tailed(hs, (Newest(hs).tail + 1) % Size(Newest(hs)))
  /\ value' = vs /\ prod' = [prod EXCEPT !.at = "block"] /\ UNCHANGED <<pool, tailBlock>>
LEMMA InsertIs ==
  ASSUME YAll, Implicit!InsertEntry, NEW m, m = Len(key), NEW k, k = Size(Newest(headers)), NEW g, g = Twice(Newest(headers), m)
  PROVE  /\ prod.at = "entry" /\ UNCHANGED <<claimVars, cell, hand, taken, limit, count>>
         /\ \/ /\ Entering(headers, key, value) /\ value[Ents[Made]] = None
               /\ key' = [key EXCEPT ![Ents[Made]] = First(Made)]
            \/ /\ value[Ents[Made]] /= None
               /\ Entering(Append(headers, g), key \o Unkeyed(k), value \o Unkeyed(k))
               /\ key' = [key \o Unkeyed(k) EXCEPT ![m + 1] = First(Made)]
            \/ Implicit!GiveUp(0) /\ UNCHANGED key
  <1>0. Stored(headers, key, value, Last, Ents, Housed)
    BY DEF YAll, YInv, YIndex
  <1>1. prod.at = "entry" /\ UNCHANGED <<claimVars, cell, hand, taken, limit, count>>
    BY DEF Implicit!InsertEntry, Implicit!claimVars, claimVars
  <1>2. PICK free : free = Implicit!EntryAt(Implicit!Cur, Implicit!Cur.tail + 1)
    OBVIOUS
  <1>3. Implicit!Cur = Newest(headers) /\ \A h : Implicit!Capacity(h) = Size(h)
    BY EntryAtIs DEF Implicit!Cur, Newest
  <1>4. Last + 1 = Made
    BY <1>1, YMade DEF Last
  <1>5. free = Ents[Made] /\ (key[free] = None => value[free] = None)
    <2>1. /\ EntryIn(Newest(headers), Newest(headers).tail + 1) = Ents[Last + 1]
          /\ key[Ents[Last + 1]] = None => value[Ents[Last + 1]] = None
      BY <1>0, NextEntry
    <2>2. free = EntryIn(Newest(headers), Newest(headers).tail + 1)
      BY <1>2, <1>3, EntryAtIs, Zenon
    <2> QED BY <1>4, <2>1, <2>2
  <1>6. \A n : Implicit!Fresh(n) = Unkeyed(n)
    BY DEF Implicit!Fresh, Unkeyed
  <1>7. Implicit!Grown = g
    <2>1. \A x : Implicit!EntryAt(Newest(headers), x) = EntryIn(Newest(headers), x)
      BY EntryAtIs
    <2> QED BY <1>3, <2>1, Zenon DEF Implicit!Grown, Twice
  <1>8. Implicit!BulkBase = First(Made)
    BY CallBlocks
  <1>9. \/ /\ (key[free] = None \/ value[free] = None)
           /\ headers' = [headers EXCEPT ![Len(headers)].tail = (@ + 1) % Implicit!Capacity(headers[Len(headers)])]
           /\ key' = [key EXCEPT ![free] = Implicit!BulkBase]
           /\ prod' = [prod EXCEPT !.at = "block"] /\ UNCHANGED <<pool, tailBlock, value>>
        \/ /\ value[free] /= None
           /\ headers' = [Append(headers, Implicit!Grown) EXCEPT ![Len(Append(headers, Implicit!Grown))].tail
                            = (@ + 1) % Implicit!Capacity(Append(headers, Implicit!Grown)[Len(Append(headers, Implicit!Grown))])]
           /\ key' = [key \o Implicit!Fresh(Implicit!Capacity(Implicit!Cur)) EXCEPT ![Len(key) + 1] = Implicit!BulkBase]
           /\ prod' = [prod EXCEPT !.at = "block"] /\ UNCHANGED <<pool, tailBlock>>
           /\ value' = value \o Implicit!Fresh(Implicit!Capacity(Implicit!Cur))
        \/ Implicit!GiveUp(0) /\ UNCHANGED key
    BY <1>2 DEF Implicit!InsertEntry
  <1>10. CASE /\ (key[free] = None \/ value[free] = None)
              /\ headers' = [headers EXCEPT ![Len(headers)].tail = (@ + 1) % Implicit!Capacity(headers[Len(headers)])]
              /\ key' = [key EXCEPT ![free] = Implicit!BulkBase]
              /\ prod' = [prod EXCEPT !.at = "block"] /\ UNCHANGED <<pool, tailBlock, value>>
    <2>1. headers \in Seq(Headers) /\ Len(headers) >= 1
      BY <1>0 DEF Stored, Indexed
    <2>2. PICK t : t = (Newest(headers).tail + 1) % Size(Newest(headers))
      OBVIOUS
    <2>3. headers' = [headers EXCEPT ![Len(headers)].tail = t]
      BY <1>3, <1>10, <2>1, <2>2 DEF Newest
    <2>4. headers' = Tailed(headers, t)
      BY <2>1, <2>3, SetTail
    <2> QED BY <1>1, <1>5, <1>8, <1>10, <2>2, <2>4 DEF Entering
  <1>11. CASE /\ value[free] /= None
              /\ headers' = [Append(headers, Implicit!Grown) EXCEPT ![Len(Append(headers, Implicit!Grown))].tail
                               = (@ + 1) % Implicit!Capacity(Append(headers, Implicit!Grown)[Len(Append(headers, Implicit!Grown))])]
              /\ key' = [key \o Implicit!Fresh(Implicit!Capacity(Implicit!Cur)) EXCEPT ![Len(key) + 1] = Implicit!BulkBase]
              /\ prod' = [prod EXCEPT !.at = "block"] /\ UNCHANGED <<pool, tailBlock>>
              /\ value' = value \o Implicit!Fresh(Implicit!Capacity(Implicit!Cur))
    <2>1. PICK hs : hs = Append(headers, g)
      OBVIOUS
    <2>2. hs \in Seq(Headers) /\ Len(hs) >= 1
      <3>1. TwiceOf(g, Ents, Last, k, m)
        <4>1. Doubling(headers, key, Last, Ents, g, k, m)
          <5>1. Indexed(headers, key, Last, Ents)
            BY <1>0 DEF Stored
          <5> QED BY <5>1, EntsAre DEF Doubling
        <4> QED BY <4>1, TwiceIs
      <3>2. g \in Headers
        BY <3>1 DEF TwiceOf, HeaderIn
      <3>3. headers \in Seq(Headers)
        BY <1>0 DEF Stored, Indexed
      <3> QED BY <2>1, <3>2, <3>3
    <2>3. PICK t : t = (Newest(hs).tail + 1) % Size(Newest(hs))
      OBVIOUS
    <2>4. headers' = [hs EXCEPT ![Len(hs)].tail = t]
      <3>1. headers' = [hs EXCEPT ![Len(hs)].tail = (@ + 1) % Implicit!Capacity(hs[Len(hs)])]
        BY <1>7, <1>11, <2>1
      <3> QED BY <1>3, <2>2, <2>3, <3>1 DEF Newest
    <2>5. headers' = Tailed(hs, t)
      BY <2>2, <2>4, SetTail
    <2>6. Implicit!Capacity(Implicit!Cur) = k
      BY <1>3
    <2>7. value' = value \o Unkeyed(k) /\ key' = [key \o Unkeyed(k) EXCEPT ![m + 1] = First(Made)]
      BY <1>6, <1>8, <1>11, <2>6
    <2>8. Entering(hs, key \o Unkeyed(k), value \o Unkeyed(k))
      BY <1>11, <2>3, <2>5, <2>7 DEF Entering
    <2> QED BY <1>1, <1>5, <1>11, <2>1, <2>7, <2>8
  <1> QED BY <1>1, <1>9, <1>10, <1>11

\* The block's entry is in the index, in the old entries' order, with no block yet.
Entered(hs, ks, vs, ents) ==
  /\ Stored(hs, ks, vs, Made, ents, Housed) /\ Preserving(hs, ks, ents) /\ ks[ents[Made]] = First(Made)
LEMMA YEntered ==
  ASSUME YAll, CountersInv', prod.at = "entry", prod' = [prod EXCEPT !.at = "block"],
         UNCHANGED <<claimVars, pool, tailBlock, cell, hand, taken, limit, count>>,
         NEW hs, NEW ks, NEW vs, NEW ents, Entered(hs, ks, vs, ents), headers' = hs, key' = ks, value' = vs
  PROVE  Walking' /\ YInv' /\ [SubQ!Next]_(SubQ!subQueueVars)
  <1>0. CountersInv /\ Walking /\ YBlocks /\ YCells /\ YCall /\ Stored(headers, key, value, Last, Ents, Housed)
    BY DEF YAll, YInv, YIndex
  <1>1. /\ UNCHANGED <<tailIndex, headIndex, claim>>
        /\ Stored(hs, ks, vs, Made, ents, Housed) /\ Preserving(hs, ks, ents) /\ ks[ents[Made]] = First(Made)
    BY DEF claimVars, Entered
  <1>2. prod' \in CallRecords /\ prod'.at = "block" /\ prod'.n = prod.n /\ prod'.need = prod.need /\ prod'.start = prod.start
    <2>1. prod \in CallRecords
      BY <1>0 DEF YCall
    <2> QED BY <2>1 DEF CallRecords
  <1>3. Made \in Int /\ Begun \in Int /\ Begun <= Made /\ Last = Made - 1
    BY YMade DEF Last
  <1>4. Made' = Made /\ Begun' = Begun /\ Last' = Made /\ Top' = Top
    <2>1. tailIndex' = tailIndex
      BY <1>1
    <2>2. Made' = Made /\ Begun' = Begun
      BY <1>2, <2>1 DEF Made, Begun, Number
    <2> QED BY <1>2, <2>1, <2>2 DEF Last, Top
  <1>5. tailIndex <= tailIndex'
    BY <1>1, YEnds
  <1>6. /\ Walking' /\ [SubQ!Next]_(SubQ!subQueueVars) /\ Numbers' = Numbers /\ hand' = hand
        /\ \A d \in Consumers : Keeps(d)' = Keeps(d)
    BY <1>1, <1>5, YProducer
  <1>7. YIndex' /\ Ents' = ents /\ Housed' = Housed
    <2>1. PICK last, h : last = Made /\ h = Housed
      OBVIOUS
    <2>2. Stored(hs, ks, vs, last, ents, h) /\ Last' = last
      BY <1>1, <1>4, <2>1
    <2>3. YIndex' /\ Ents' = ents /\ Housed' = h
      BY <1>6, <2>2, YIndexNext
    <2> QED BY <2>1, <2>3
  <1>8. \A q \in Int : Housed[q] /= None => q < Made
    <2>1. \A q \in Int : Housed[q] /= None => Within(headers, Last, q)
      BY <1>0, HousedAre
    <2> QED BY <1>3, <2>1 DEF Within
  <1>9. Settling
    BY <1>1, <1>3, <1>4, <1>5, <1>7, <1>8 DEF Settling
  <1>10. YCount' /\ Unlinking(Housed, Spent)'
    BY <1>9, YSettles
  <1>11. YHands'
    <2>1. \A c \in Consumers : HandIn(c, headers, key, Ents)'
      BY <1>1, <1>6, <1>7, ProducerHands
    <2> QED BY <1>10, <2>1 DEF YHands
  <1>12. YCells'
    <2>1. \A i \in Int : i < Top => Number(i) < Made'
      BY <1>4, TopMade
    <2> QED BY <1>4, <1>9, <2>1, CellsStay
  <1>13. YBlocks'
    BY <1>0, <1>7 DEF YBlocks
  <1>14. YCall'
    <2>1. Begun' <= Made' /\ prod'.need >= 1 /\ tailBlock' \in Blocks \cup {None}
      <3>1. prod.need >= 1
        BY YEnds
      <3> QED BY <1>0, <1>2, <1>3, <1>4, <3>1 DEF YCall
    <2>2. Housed'[Begun' - 1] /= None => prod'.start = Housed'[Begun' - 1]
      BY <1>0, <1>2, <1>4, <1>7 DEF YCall
    <2>3. Housed'[Last'] = None /\ key'[Ents'[Last']] = First(Last')
      <3>1. ~(Made < Made)
        BY <1>3
      <3>2. Housed[Made] = None
        BY <1>3, <1>8, <3>1
      <3>3. PICK l : l = Last'
        OBVIOUS
      <3>4. l = Made
        BY <1>4, <3>3
      <3> QED BY <1>1, <1>7, <3>2, <3>3, <3>4
    <2> QED BY <1>2, <2>1, <2>2, <2>3 DEF YCall
  <1> QED BY <1>6, <1>7, <1>10, <1>11, <1>12, <1>13, <1>14 DEF YInv

\* The next entry is free.
LEMMA EntersPlain ==
  ASSUME YAll, prod.at = "entry", value[Ents[Made]] = None, NEW hs, NEW ks,
         hs = Tailed(headers, (Newest(headers).tail + 1) % Size(Newest(headers))), ks = [key EXCEPT ![Ents[Made]] = First(Made)]
  PROVE  Entered(hs, ks, value, Ents)
  <1>0. Stored(headers, key, value, Last, Ents, Housed)
    BY DEF YAll, YInv, YIndex
  <1>1. Made = Last + 1 /\ Made \in Numbers /\ Made \in Int
    <2>1. prod.need >= 1
      BY YEnds
    <2> QED BY <2>1, YMade DEF Last
  <1>2. PICK e : e = Ents[Made]
    OBVIOUS
  <1>3. Inserting(headers, key, value, Last, Ents, Made, e, hs, ks)
    BY <1>1, <1>2 DEF Inserting
  <1>4. /\ Stored(hs, ks, value, Made, Ents, Housed) /\ ks[e] = First(Made)
        /\ Len(hs) = Len(headers) /\ \A j \in 1 .. Len(headers) : hs[j].slots = headers[j].slots
        /\ \A f \in 1 .. Len(key) : f /= e => ks[f] = key[f]
    <2>1. Inserted(headers, key, value, Made, Ents, Housed, e, hs, ks)
      BY <1>0, <1>3, InsertPlain
    <2> QED BY <2>1 DEF Inserted
  <1>5. \A f \in 1 .. Len(key) : Recent(key[f]) => Recent(ks[f])
    BY <1>1, <1>4 DEF Recent
  <1>6. Preserving(hs, ks, Ents)
    <2>1. Len(headers) \in Nat
      BY TailEntry
    <2> QED BY <1>4, <1>5, <2>1 DEF Preserving
  <1> QED BY <1>2, <1>4, <1>6 DEF Entered

\* A larger index has new entries.
LEMMA EntersGrown ==
  ASSUME YAll, prod.at = "entry", value[Ents[Made]] /= None, NEW hs, NEW ks, NEW vs, NEW m, NEW k, NEW g, NEW new,
         m = Len(key), k = Size(Newest(headers)), g = Twice(Newest(headers), m), new = Append(headers, g),
         hs = Tailed(new, (Newest(new).tail + 1) % Size(Newest(new))),
         vs = value \o Unkeyed(k), ks = [key \o Unkeyed(k) EXCEPT ![m + 1] = First(Made)]
  PROVE  \E ents : Entered(hs, ks, vs, ents)
  <1>0. Stored(headers, key, value, Last, Ents, Housed)
    BY DEF YAll, YInv, YIndex
  <1>1. Made = Last + 1 /\ Made \in Numbers /\ Made \in Int /\ Last \in Numbers
    <2>1. prod.need >= 1
      BY YEnds
    <2> QED BY <2>1, YMade DEF Last
  <1>2. Doubling(headers, key, Last, Ents, g, k, m)
    <2>1. Indexed(headers, key, Last, Ents)
      BY <1>0 DEF Stored
    <2> QED BY <2>1, EntsAre DEF Doubling
  <1>3. PICK kn : kn = key \o Unkeyed(k)
    OBVIOUS
  <1>4. PICK en : en = EntsOf(new, Last)
    OBVIOUS
  <1>5. Growing(headers, key, value, Last, Ents, g, k, m, new, kn, vs, en)
    BY <1>1, <1>2, <1>3, <1>4 DEF Growing
  <1>6. /\ Stored(new, kn, vs, Last, en, Housed)
        /\ en[Last + 1] = m + 1 /\ vs[m + 1] = None /\ m = Len(key) /\ Len(kn) = m + k /\ k \in Nat \ {0}
        /\ \A e \in 1 .. m : kn[e] = key[e]
        /\ Len(new) = Len(headers) + 1 /\ Newest(new) = g /\ \A j \in 1 .. Len(headers) : new[j] = headers[j]
        /\ \A q \in Int : Within(headers, Last, q) => en[q] = Ents[q]
    <2>1. GrownStored(headers, key, value, Last, Ents, Housed, g, k, m, new, kn, vs, en)
      BY <1>0, <1>5, GrowStored
    <2> QED BY <2>1 DEF GrownStored
  <1>7. Inserting(new, kn, vs, Last, en, Made, m + 1, hs, ks)
    BY <1>1, <1>3, <1>6 DEF Inserting
  <1>8. /\ Stored(hs, ks, vs, Made, en, Housed) /\ ks[m + 1] = First(Made)
        /\ Len(hs) = Len(new) /\ \A j \in 1 .. Len(new) : hs[j].slots = new[j].slots
        /\ \A f \in 1 .. Len(kn) : f /= m + 1 => ks[f] = kn[f]
    <2>1. PICK e : e = m + 1
      OBVIOUS
    <2>2. Inserting(new, kn, vs, Last, en, Made, e, hs, ks)
      BY <1>7, <2>1
    <2>3. /\ Stored(hs, ks, vs, Made, en, Housed) /\ ks[e] = First(Made)
          /\ Len(hs) = Len(new) /\ \A j \in 1 .. Len(new) : hs[j].slots = new[j].slots
          /\ \A f \in 1 .. Len(kn) : f /= e => ks[f] = kn[f]
      <3>1. Inserted(new, kn, vs, Made, en, Housed, e, hs, ks)
        BY <1>6, <2>2, InsertPlain
      <3> QED BY <3>1 DEF Inserted
    <2> QED BY <2>1, <2>3
  <1>9. Len(headers) \in Nat /\ m \in Nat
    BY <1>2, TailEntry DEF Doubling
  <1>10. /\ Len(headers) <= Len(hs) /\ Len(hs) \in Nat /\ \A j \in 1 .. Len(headers) : hs[j].slots = headers[j].slots
    <2>1. PICK l \in Nat : l = Len(headers)
      BY <1>9
    <2>2. Len(new) = l + 1 /\ Len(hs) = l + 1
      BY <1>6, <1>8, <2>1
    <2>3. \A j \in 1 .. l : j \in 1 .. l + 1
      BY <2>1
    <2>4. \A j \in 1 .. l : hs[j].slots = new[j].slots /\ new[j] = headers[j]
      BY <1>6, <1>8, <2>1, <2>2, <2>3
    <2> QED BY <2>1, <2>2, <2>4
  <1>11. \A q \in Int : Housed[q] /= None => en[q] = Ents[q]
    <2>1. \A q \in Int : Housed[q] /= None => Within(headers, Last, q)
      BY <1>0, HousedAre
    <2> QED BY <1>6, <2>1
  <1>12. \A f \in 1 .. Len(key) : ks[f] = key[f]
    <2> TAKE f \in 1 .. Len(key)
    <2>1. f \in 1 .. m /\ f \in 1 .. Len(kn) /\ f /= m + 1
      BY <1>6, <1>9
    <2> QED BY <1>6, <1>8, <2>1
  <1>13. Preserving(hs, ks, en)
    BY <1>10, <1>11, <1>12 DEF Preserving
  <1>14. ks[en[Made]] = First(Made)
    BY <1>1, <1>6, <1>8
  <1> QED BY <1>8, <1>13, <1>14 DEF Entered

\* The producer takes the next entry for a block, or fails.
LEMMA YInsert ==
  ASSUME YAll, CountersInv', Implicit!InsertEntry
  PROVE  Walking' /\ YInv' /\ [SubQ!Next]_(SubQ!subQueueVars)
  <1>1. PICK m, k : m = Len(key) /\ k = Size(Newest(headers))
    OBVIOUS
  <1>2. PICK g : g = Twice(Newest(headers), m)
    OBVIOUS
  <1>3. /\ prod.at = "entry" /\ UNCHANGED <<claimVars, cell, hand, taken, limit, count>>
        /\ \/ /\ Entering(headers, key, value) /\ value[Ents[Made]] = None
              /\ key' = [key EXCEPT ![Ents[Made]] = First(Made)]
           \/ /\ value[Ents[Made]] /= None
              /\ Entering(Append(headers, g), key \o Unkeyed(k), value \o Unkeyed(k))
              /\ key' = [key \o Unkeyed(k) EXCEPT ![m + 1] = First(Made)]
           \/ Implicit!GiveUp(0) /\ UNCHANGED key
    BY <1>1, <1>2, InsertIs
  <1>4. PICK hs, ks, vs : hs = headers' /\ ks = key' /\ vs = value'
    OBVIOUS
  <1>5. CASE /\ Entering(headers, key, value) /\ value[Ents[Made]] = None
             /\ key' = [key EXCEPT ![Ents[Made]] = First(Made)]
    <2>1. Entered(hs, ks, value, Ents)
      BY <1>3, <1>4, <1>5, EntersPlain DEF Entering
    <2> QED BY <1>3, <1>4, <1>5, <2>1, YEntered DEF Entering
  <1>6. CASE /\ value[Ents[Made]] /= None
             /\ Entering(Append(headers, g), key \o Unkeyed(k), value \o Unkeyed(k))
             /\ key' = [key \o Unkeyed(k) EXCEPT ![m + 1] = First(Made)]
    <2>1. PICK new : new = Append(headers, g)
      OBVIOUS
    <2>2. hs = Tailed(new, (Newest(new).tail + 1) % Size(Newest(new))) /\ vs = value \o Unkeyed(k)
      BY <1>4, <1>6, <2>1 DEF Entering
    <2>3. PICK ents : Entered(hs, ks, vs, ents)
      BY <1>1, <1>2, <1>3, <1>4, <1>6, <2>1, <2>2, EntersGrown
    <2> QED BY <1>3, <1>4, <1>6, <2>3, YEntered DEF Entering
  <1>7. CASE Implicit!GiveUp(0) /\ UNCHANGED key
    <2>1. PICK g0 : g0 = (Made - Begun) + 0
      OBVIOUS
    <2>2. Failing(0, g0)
      BY <1>3, <2>1 DEF Failing
    <2> QED BY <1>3, <1>7, <2>2, YGiveUp
  <1> QED BY <1>3, <1>5, <1>6, <1>7

\* What requisition_block does: a block of the pool for the entry at the tail, or the call fails.
Getting(b) ==
  /\ b \in pool /\ pool' = pool \ {b} /\ tailBlock' = b /\ count' = [count EXCEPT ![b] = 0]
  /\ value' = [value EXCEPT ![Ents[Last]] = b]
  /\ prod' = [prod EXCEPT !.need = @ - 1, !.at = IF prod.need = 1 THEN "fill" ELSE "entry"]
  /\ UNCHANGED headers
LEMMA NewBlockIs ==
  ASSUME YAll, Implicit!NewBlock
  PROVE  /\ prod.at = "block" /\ UNCHANGED <<claimVars, cell, hand, taken, limit, key>>
         /\ (\E b : Getting(b)) \/ (Implicit!GiveUp(1) /\ UNCHANGED count)
  <1>1. PICK e : e = Implicit!EntryAt(Implicit!Cur, Implicit!Cur.tail)
    OBVIOUS
  <1>2. e = Ents[Last]
    <2>1. Implicit!Cur = Newest(headers)
      BY DEF Implicit!Cur, Newest
    <2>2. e = EntryIn(Newest(headers), Newest(headers).tail)
      BY <1>1, <2>1, EntryAtIs, Zenon
    <2> QED BY <2>2, TailEntry
  <1>3. /\ prod.at = "block" /\ UNCHANGED <<claimVars, cell, hand, taken, limit, key>>
        /\ \/ \E b \in pool :
                /\ pool' = pool \ {b} /\ tailBlock' = b
                /\ count' = [count EXCEPT ![b] = 0]
                /\ value' = [value EXCEPT ![e] = b]
                /\ prod' = [prod EXCEPT !.need = @ - 1, !.at = IF prod.need = 1 THEN "fill" ELSE "entry"]
                /\ UNCHANGED headers
           \/ Implicit!GiveUp(1) /\ UNCHANGED count
    BY <1>1 DEF Implicit!NewBlock, Implicit!claimVars, claimVars
  <1> QED BY <1>2, <1>3 DEF Getting

\* A new block's positions are all to come.
LEMMA NoneSpent ==
  ASSUME YAll
  PROVE  SpentIn(Spent, Made) = {}
  <1>1. Made \in Int /\ Begun \in Int /\ Begun <= Made /\ tailIndex <= First(Begun) /\ First(Begun) \in Int
    BY YMade
  <1>2. headIndex \in Nat /\ tailIndex \in Nat /\ headIndex <= tailIndex
    BY YEnds
  <1>3. First(Begun) <= First(Made) /\ First(Made) \in Int
    <2>1. Begun = Made \/ Begun < Made
      BY <1>1
    <2>2. First(Made) \in Int
      BY <1>1, FirstNumber
    <2> QED BY <1>1, <2>1, <2>2, FirstOrder, BlockAssumption DEF First
  <1>4. ASSUME NEW o \in Offsets PROVE First(Made) + o \notin Spent
    <2>1. o \in Nat
      BY <1>4, BlockAssumption DEF Offsets
    <2>2. PICK i \in Int : i = First(Made) + o
      BY <1>3, <2>1
    <2>3. headIndex <= i
      BY <1>1, <1>2, <1>3, <2>1, <2>2
    <2>4. CountersInv /\ Walks
      BY DEF YAll, Walking
    <2> QED BY <2>2, <2>3, <2>4, SpentIs
  <1> QED BY <1>4 DEF SpentIn

\* The blocks are housed once each, with one more out of the pool.
LEMMA Houses ==
  ASSUME NEW h \in [Int -> Blocks \cup {None}], NEW pl, Housing(h, pl), NEW q \in Int, h[q] = None, NEW b \in pl,
         NEW new, Rehoused(h, q, b, new)
  PROVE  Housing(new, pl \ {b})
  <1>1. /\ pl \subseteq Blocks
        /\ \A r \in Int : h[r] /= None => h[r] \notin pl
        /\ \A r, s \in Int : h[r] /= None /\ h[r] = h[s] => r = s
        /\ \A x \in Blocks : x \in pl \/ \E r \in Int : h[r] = x
    BY DEF Housing
  <1>2. new[q] = b /\ \A r \in Int : r /= q => new[r] = h[r]
    BY DEF Rehoused
  <1>3. \A r \in Int : new[r] /= None => new[r] \notin pl \ {b}
    BY <1>1, <1>2
  <1>4. \A r \in Int : r /= q /\ new[r] /= None => new[r] /= b
    BY <1>1, <1>2
  <1>5. ASSUME NEW r \in Int, NEW s \in Int, new[r] /= None, new[r] = new[s] PROVE r = s
    <2>1. CASE r = q \/ s = q
      BY <1>2, <1>4, <1>5, <2>1
    <2>2. CASE r /= q /\ s /= q
      BY <1>1, <1>2, <1>5, <2>2
    <2> QED BY <2>1, <2>2
  <1>6. ASSUME NEW x \in Blocks PROVE x \in pl \ {b} \/ \E r \in Int : new[r] = x
    <2>1. CASE x \in pl
      BY <1>2, <2>1
    <2>2. CASE x \notin pl
      <3>1. PICK r \in Int : h[r] = x
        BY <1>1, <1>6, <2>2
      <3>2. r /= q
        BY <1>6, <3>1, NoneAssumption
      <3> QED BY <1>2, <3>1, <3>2
    <2> QED BY <2>1, <2>2
  <1> QED BY <1>1, <1>3, <1>5, <1>6 DEF Housing

\* The call gets a block.
LEMMA YGets ==
  ASSUME YAll, CountersInv', prod.at = "block", UNCHANGED <<claimVars, cell, hand, taken, limit, key>>, NEW b, Getting(b)
  PROVE  Walking' /\ YInv' /\ [SubQ!Next]_(SubQ!subQueueVars)
  <1>0. /\ CountersInv /\ Walking /\ YBlocks /\ YCells /\ YCall /\ YCount /\ YHands
        /\ Stored(headers, key, value, Last, Ents, Housed)
    BY DEF YAll, YInv, YIndex
  <1>1. /\ UNCHANGED <<tailIndex, headIndex, claim>>
        /\ b \in pool /\ pool' = pool \ {b} /\ tailBlock' = b /\ count' = [count EXCEPT ![b] = 0]
        /\ value' = [value EXCEPT ![Ents[Last]] = b]
        /\ prod' = [prod EXCEPT !.need = @ - 1, !.at = IF prod.need = 1 THEN "fill" ELSE "entry"]
        /\ UNCHANGED headers
    BY DEF claimVars, Getting
  <1>2. /\ prod.need \in Nat \ {0} /\ prod' \in CallRecords /\ prod'.at = (IF prod.need = 1 THEN "fill" ELSE "entry")
        /\ prod'.n = prod.n /\ prod'.need = prod.need - 1 /\ prod'.start = prod.start
    <2>1. prod \in CallRecords /\ prod.need \in Nat \ {0}
      BY <1>0, YEnds DEF YCall
    <2>2. PICK a, k : a = (IF prod.need = 1 THEN "fill" ELSE "entry") /\ k = prod.need - 1
      OBVIOUS
    <2>3. a \in {"fill", "entry"} /\ k \in Nat
      BY <2>1, <2>2
    <2>4. prod' = [prod EXCEPT !.need = k, !.at = a]
      BY <1>1, <2>2
    <2>5. prod' = [at |-> a, n |-> prod.n, need |-> k, first |-> prod.first, start |-> prod.start, front0 |-> prod.front0, used0 |-> prod.used0]
      BY <2>1, <2>4 DEF CallRecords
    <2>6. prod' \in CallRecords
      BY <2>1, <2>3, <2>5 DEF CallRecords
    <2> QED BY <2>1, <2>2, <2>5, <2>6
  <1>3. b \in Blocks /\ b /= None
    BY <1>0, <1>1, NoneAssumption DEF YBlocks, Housing
  <1>4. PICK m \in Int : m = Made /\ Last = m /\ Begun \in Int /\ Begun <= m /\ Number(Start) \in Int /\ Number(Start) <= m
    BY YMade DEF Last
  <1>5. Made' = m + 1 /\ Begun' = Begun /\ Last' = m /\ Top' = Top
    <2>1. tailIndex' = tailIndex /\ prod'.at \notin {"block", "publish", "expose"}
      BY <1>1, <1>2
    <2>2. PICK f \in Int : f = Number((tailIndex + prod.n) - 1)
      <3>1. (tailIndex + prod.n) - 1 \in Int
        BY YEnds
      <3> QED BY <3>1, Division
    <2>3. Made = f + (1 - prod.need) /\ Made' = f + (1 - prod'.need)
      BY <1>2, <2>1, <2>2 DEF Made, Number
    <2>4. Made' = m + 1
      BY <1>2, <1>4, <2>3
    <2>5. Begun' = Begun
      BY <2>1 DEF Begun, Number
    <2>6. Last' = m
      BY <1>4, <2>1, <2>4 DEF Last
    <2>7. Top = tailIndex + 0 /\ Top' = tailIndex + 0
      BY <2>1 DEF Top
    <2> QED BY <2>4, <2>5, <2>6, <2>7
  <1>6. tailIndex <= tailIndex'
    BY <1>1, YEnds
  <1>7. /\ Walking' /\ [SubQ!Next]_(SubQ!subQueueVars) /\ Spent' = Spent /\ Start' = Start /\ Numbers' = Numbers /\ hand' = hand
        /\ \A d \in Consumers : Keeps(d)' = Keeps(d)
        /\ \A q : SpentIn(Spent, q)' = SpentIn(Spent, q)
    BY <1>1, <1>6, YProducer
  <1>8. Housed \in [Int -> Blocks \cup {None}] /\ Housed[m] = None
    <2>1. Housed[Last] = None
      BY <1>0 DEF YCall
    <2> QED BY <1>0, <1>4, <2>1, HousedAre
  <1>9. PICK new : Rehoused(Housed, m, b, new)
    BY DEF Rehoused
  <1>10. new[m] = b /\ \A q \in Int : q /= m => new[q] = Housed[q]
    BY <1>8, <1>9 DEF Rehoused
  <1>11. PICK vs : vs = value'
    OBVIOUS
  <1>12. Stored(headers, key, vs, Last, Ents, new)
    <2>1. Within(headers, Last, m)
      <3>1. Size(Newest(headers)) \in Nat \ {0}
        BY TailEntry, SizeIs
      <3> QED BY <1>4, <3>1 DEF Within
    <2>2. Keyed(key, Ents, m, Last)
      <3>1. key[Ents[Last]] = First(Last)
        BY <1>0 DEF YCall
      <3>2. \A r \in Int : m <= r /\ r <= m => r = m
        BY <1>4
      <3> QED BY <1>4, <3>1, <3>2 DEF Keyed
    <2>3. Replacing(headers, key, value, Last, Ents, m, b, vs)
      BY <1>1, <1>3, <1>4, <1>11, <2>1, <2>2 DEF Replacing
    <2> QED BY <1>0, <1>9, <2>3, PutOne
  <1>13. YIndex' /\ Ents' = Ents /\ Housed' = new
    <2>1. PICK hs, ks, last, ents : hs = headers /\ ks = key /\ last = Last /\ ents = Ents
      OBVIOUS
    <2>2. Stored(hs, ks, vs, last, ents, new) /\ headers' = hs /\ key' = ks /\ value' = vs /\ Last' = last
      BY <1>1, <1>4, <1>5, <1>11, <1>12, <2>1
    <2>3. YIndex' /\ Ents' = ents /\ Housed' = new
      BY <1>7, <2>2, YIndexNext
    <2> QED BY <2>1, <2>3
  <1>14. YBlocks'
    <2>1. Housing(new, pool \ {b})
      BY <1>0, <1>1, <1>8, <1>9, Houses DEF YBlocks
    <2> QED BY <1>1, <1>13, <2>1 DEF YBlocks
  <1>15. SpentIn(Spent, m) = {} /\ Cardinality({}) = 0 /\ {} /= Offsets
    <2>1. 0 \in Offsets
      BY BlockAssumption DEF Offsets
    <2> QED BY <1>4, <2>1, NoneSpent, FS_EmptySet
  <1>16. PICK lo \in Int : lo = Number(Start) /\ Number(Start)' = lo
    BY <1>4, <1>7 DEF Number
  <1>17. Kept(new, Spent, lo, m + 1)
    <2>1. \A q \in Int : lo <= q /\ q < m /\ SpentIn(Spent, q) /= Offsets => Housed[q] /= None
      BY <1>0, <1>4, <1>16 DEF YCount, Kept
    <2>2. \A q \in Int : q < m + 1 => q < m \/ q = m
      BY <1>4
    <2>3. \A q \in Int : q < m => q /= m
      BY <1>4
    <2> QED BY <1>3, <1>10, <2>1, <2>2, <2>3 DEF Kept
  <1>18. Counted(new, count', Spent, lo, m + 1)
    <2>1. /\ count \in [Blocks -> 0 .. BlockSize]
          /\ \A q \in Int : Housed[q] /= None => lo <= q /\ q < m /\ count[Housed[q]] = Cardinality(SpentIn(Spent, q))
      BY <1>0, <1>4, <1>16 DEF YCount, Counted
    <2>2. count' \in [Blocks -> 0 .. BlockSize]
      <3>1. 0 \in 0 .. BlockSize
        BY BlockAssumption
      <3> QED BY <1>1, <2>1, <3>1
    <2>3. ASSUME NEW q \in Int, new[q] /= None
          PROVE  lo <= q /\ q < m + 1 /\ count'[new[q]] = Cardinality(SpentIn(Spent, q))
      <3>1. CASE q = m
        <4>1. count'[b] = 0
          BY <1>1, <1>3, <2>1
        <4>2. Cardinality(SpentIn(Spent, m)) = 0
          BY <1>15
        <4>3. lo <= m /\ m < m + 1
          BY <1>4, <1>16
        <4> QED BY <1>10, <3>1, <4>1, <4>2, <4>3
      <3>2. CASE q /= m
        <4>1. new[q] = Housed[q] /\ Housed[q] /= None
          BY <1>10, <2>3, <3>2
        <4>2. Housed[q] \notin pool
          BY <1>0, <4>1 DEF YBlocks, Housing
        <4>3. Housed[q] \in Blocks /\ Housed[q] /= b
          BY <1>1, <1>8, <4>1, <4>2
        <4>4. count'[Housed[q]] = count[Housed[q]]
          BY <1>1, <2>1, <4>3
        <4>5. lo <= q /\ q < m /\ count[Housed[q]] = Cardinality(SpentIn(Spent, q))
          BY <2>1, <4>1
        <4>6. q < m + 1
          BY <1>4, <4>5
        <4> QED BY <4>1, <4>4, <4>5, <4>6
      <3> QED BY <3>1, <3>2
    <2> QED BY <2>2, <2>3 DEF Counted
  <1>19. YCount'
    <2>1. ASSUME NEW q \in Int, new[q] /= None, SpentIn(Spent, q) = Offsets PROVE \E c \in Consumers : Unlinks(c, q)
      <3>1. q /= m
        BY <1>15, <2>1
      <3>2. Housed[q] /= None
        BY <1>10, <2>1, <3>1
      <3> QED BY <1>0, <2>1, <3>2 DEF YCount
    <2>2. \A q : \A c \in Consumers : Unlinks(c, q)' <=> Unlinks(c, q)
      BY <1>7 DEF Unlinks, Number
    <2>3. Kept(Housed', Spent', Number(Start)', Made') /\ Counted(Housed', count', Spent', Number(Start)', Made')
      BY <1>5, <1>7, <1>13, <1>16, <1>17, <1>18
    <2>4. Kept(Housed, Spent, Number(Start), Made)' /\ Counted(Housed, count, Spent, Number(Start), Made)'
      BY <2>3 DEF Kept, Counted, SpentIn
    <2> QED BY <1>7, <1>13, <2>1, <2>2, <2>4 DEF YCount
  <1>20. YHands'
    <2>1. Unlinking(new, Spent)
      <3>1. Unlinking(Housed, Spent)
        BY <1>0 DEF YHands
      <3>2. \A c \in Consumers : hand[c].at = "unlink" => Number(hand[c].i) /= m
        BY <1>8, <3>1 DEF Unlinking
      <3>3. \A c \in Consumers : hand[c].at = "unlink" => Number(hand[c].i) \in Int
        <4> TAKE c \in Consumers
        <4> HAVE hand[c].at = "unlink"
        <4>1. Housed[Number(hand[c].i)] /= None
          BY <3>1 DEF Unlinking
        <4>2. hand[c].i \in Int
          BY <1>0 DEF Walking, Walks, HandRecords
        <4> QED BY <4>2, Division
      <3>4. \A c \in Consumers : hand[c].at = "unlink" => new[Number(hand[c].i)] /= None
        BY <1>10, <3>1, <3>2, <3>3 DEF Unlinking
      <3> QED BY <3>1, <3>4 DEF Unlinking
    <2>2. Unlinking(Housed, Spent)'
      BY <1>7, <1>13, <2>1 DEF Unlinking, SpentIn, Number
    <2>3. Preserving(headers, key, Ents)
      BY TailEntry DEF Preserving
    <2>4. \A c \in Consumers : HandIn(c, headers, key, Ents)'
      <3>1. PICK hs, ks, ents : hs = headers /\ ks = key /\ ents = Ents
        OBVIOUS
      <3>2. Preserving(hs, ks, ents) /\ headers' = hs /\ key' = ks /\ Ents' = ents
        BY <1>1, <1>13, <2>3, <3>1
      <3> QED BY <1>7, <3>2, ProducerHands
    <2> QED BY <2>2, <2>4 DEF YHands
  <1>21. YCells'
    <2>1. cell \in [Blocks -> [Offsets -> Int \cup {None}]] /\ \A i \in Int : Start <= i /\ i < Top /\ i \notin Spent => cell[Housed[Number(i)]][i % BlockSize] = i
      BY <1>0 DEF YCells, Celled
    <2>2. \A i \in Int : i < Top => Number(i) \in Int /\ Number(i) < m
      BY <1>4, TopMade, Division
    <2>3. \A i \in Int : i < Top => new[Number(i)] = Housed[Number(i)]
      BY <1>4, <1>10, <2>2
    <2>4. Celled(cell, new, Spent, Start, Top)
      BY <2>1, <2>3 DEF Celled
    <2> QED BY <1>1, <1>5, <1>7, <1>13, <2>4 DEF YCells
  <1>22. YCall'
    <2>1. Begun' <= Made' /\ tailBlock' \in Blocks \cup {None}
      BY <1>1, <1>3, <1>4, <1>5
    <2>2. prod'.at \in {"entry", "block"} <=> prod'.need >= 1
      BY <1>2
    <2>3. tailBlock' = Housed'[Made' - 1]
      <3>1. PICK q : q = Made' - 1
        OBVIOUS
      <3>2. q = m
        BY <1>4, <1>5, <3>1
      <3> QED BY <1>1, <1>10, <1>13, <3>1, <3>2
    <2>4. Housed'[Begun' - 1] /= None => prod'.start = Housed'[Begun' - 1]
      <3>1. Begun - 1 \in Int /\ Begun - 1 /= m
        BY <1>4
      <3>2. new[Begun - 1] = Housed[Begun - 1]
        BY <1>10, <3>1
      <3> QED BY <1>0, <1>2, <1>5, <1>13, <3>2 DEF YCall
    <2>5. prod'.at \notin {"idle", "block"}
      BY <1>2
    <2> QED BY <1>2, <2>1, <2>2, <2>3, <2>4, <2>5 DEF YCall
  <1> QED BY <1>7, <1>13, <1>14, <1>19, <1>20, <1>21, <1>22 DEF YInv

\* The call gets a block for its entry, or fails.
LEMMA YNewBlock ==
  ASSUME YAll, CountersInv', Implicit!NewBlock
  PROVE  Walking' /\ YInv' /\ [SubQ!Next]_(SubQ!subQueueVars)
  <1>1. /\ prod.at = "block" /\ UNCHANGED <<claimVars, cell, hand, taken, limit, key>>
        /\ (\E b : Getting(b)) \/ (Implicit!GiveUp(1) /\ UNCHANGED count)
    BY NewBlockIs
  <1>2. CASE \E b : Getting(b)
    BY <1>1, <1>2, YGets
  <1>3. CASE Implicit!GiveUp(1) /\ UNCHANGED count
    <2>1. PICK g0 : g0 = (Made - Begun) + 1
      OBVIOUS
    <2>2. Failing(1, g0)
      BY <1>1, <2>1 DEF Failing
    <2> QED BY <1>1, <1>3, <2>2, YGiveUp
  <1> QED BY <1>1, <1>2, <1>3

\* The blocks of a bulk by their entries, counted back from the tail, or the start block.
LEMMA BlockForIs ==
  ASSUME YAll, prod.at = "fill", NEW i \in Implicit!BulkCells
  PROVE  /\ i \in Int /\ tailIndex <= i /\ i < tailIndex + prod.n /\ Start <= i /\ i \notin Spent
         /\ Number(i) < Made /\ Implicit!BlockFor(i) = Housed[Number(i)]
  <1>0. CountersInv /\ Walks /\ YCall /\ Stored(headers, key, value, Last, Ents, Housed)
    BY DEF YAll, YInv, YIndex, Walking
  <1>1. PICK t \in Nat, n \in Nat : t = tailIndex /\ n = prod.n /\ n >= 1 /\ prod.need = 0 /\ headIndex \in Nat /\ headIndex <= t /\ Start \in Nat /\ Start <= t
    BY YEnds
  <1>2. i \in Int /\ t <= i /\ i < t + n
    <2>1. Implicit!BulkCells = t .. t + n - 1
      BY <1>1 DEF Implicit!BulkCells
    <2> QED BY <1>1, <2>1
  <1>3. Start <= i /\ headIndex <= i
    BY <1>1, <1>2
  <1>4. i \notin Spent
    BY <1>0, <1>2, <1>3, SpentIs
  <1>5. PICK m \in Int, b \in Int : m = Made /\ b = Begun /\ b <= m /\ Last = m - 1
    BY YMade DEF Last
  <1>6. PICK z \in Int : z = Number(i)
    BY <1>2, Division
  <1>7. Number((t + n) - 1) = m - 1 /\ z <= m - 1
    <2>1. Number((tailIndex + prod.n) - 1) = Made - 1
      BY <1>1, YMade
    <2>2. PICK e \in Int : e = (t + n) - 1 /\ i <= e
      BY <1>1, <1>2
    <2>3. z <= Number(e)
      BY <1>2, <1>6, <2>2, NumberOrder
    <2> QED BY <1>1, <1>5, <2>1, <2>2, <2>3
  <1>8. b - 1 <= z
    <2>1. Number(t) <= z /\ Number(t) \in Int
      BY <1>1, <1>2, <1>6, NumberOrder, Division
    <2>2. b = Number(t) \/ b = Number(t) + 1
      BY <1>1, <1>5, YMade
    <2> QED BY <2>1, <2>2
  <1>9. z < Made
    BY <1>5, <1>7
  <1>10. Housed[z] /= None /\ value[Ents[z]] = Housed[z]
    BY <1>2, <1>3, <1>4, <1>6, <1>9, Found
  <1>11. PICK back \in Int : back = (m - 1) - z
    OBVIOUS
  <1>12. Implicit!Gotten = m - b
    BY <1>5, CallBlocks
  <1>13. Implicit!BlockFor(i) = IF back < m - b THEN value[Implicit!EntryAt(Implicit!Cur, Implicit!Cur.tail - back)] ELSE prod.start
    <2>1. (tailIndex + prod.n - 1) \div BlockSize - i \div BlockSize = back
      BY <1>1, <1>6, <1>7, <1>11 DEF Number
    <2> QED BY <1>12, <2>1 DEF Implicit!BlockFor
  <1>14. CASE back < m - b
    <2>1. EntryIn(Newest(headers), Newest(headers).tail - back) = Ents[z]
      <3>1. \A x \in Int : EntryIn(Newest(headers), Newest(headers).tail + x) = Ents[Last + x]
        BY <1>0, EntsAre DEF Stored
      <3>2. PICK x \in Int : x = -back
        OBVIOUS
      <3>3. EntryIn(Newest(headers), Newest(headers).tail + x) = Ents[Last + x]
        BY <3>1, <3>2, Zenon
      <3>4. Newest(headers).tail \in Int
        BY TailEntry, SizeIs
      <3>5. Newest(headers).tail + x = Newest(headers).tail - back /\ Last + x = z
        BY <1>5, <1>11, <3>2, <3>4
      <3> QED BY <3>3, <3>5
    <2>2. Implicit!Cur = Newest(headers)
      BY DEF Implicit!Cur, Newest
    <2>3. Implicit!EntryAt(Implicit!Cur, Implicit!Cur.tail - back) = Ents[z]
      BY <2>1, <2>2, EntryAtIs, Zenon
    <2> QED BY <1>1, <1>2, <1>3, <1>4, <1>6, <1>9, <1>10, <1>13, <1>14, <2>3
  <1>15. CASE ~(back < m - b)
    <2>1. z = b - 1
      BY <1>8, <1>11, <1>15
    <2>2. prod.start = Housed[Begun - 1]
      <3>1. PICK q : q = Begun - 1
        OBVIOUS
      <3>2. q = z
        BY <1>5, <2>1, <3>1
      <3> QED BY <1>0, <1>10, <3>1, <3>2 DEF YCall
    <2>3. Begun - 1 = z
      BY <1>5, <2>1
    <2> QED BY <1>1, <1>2, <1>3, <1>4, <1>6, <1>9, <1>13, <1>15, <2>2, <2>3
  <1> QED BY <1>14, <1>15

\* The position that goes in a cell, and the cells when the elements of a call are constructed.
LaidFor(b, o) == CHOOSE i \in Implicit!BulkCells : Implicit!BlockFor(i) = b /\ i % BlockSize = o
LEMMA FilledFor ==
  ASSUME YAll, prod.at = "fill", cell' = Implicit!Filled(Implicit!BlockFor)
  PROVE  /\ cell' \in [Blocks -> [Offsets -> Int \cup {None}]]
         /\ \A i \in Int : Start <= i /\ i < tailIndex + prod.n /\ i \notin Spent => cell'[Housed[Number(i)]][i % BlockSize] = i
  <1>0. YBlocks /\ YCells
    BY DEF YAll, YInv
  <1>1. PICK S : S = Implicit!BulkCells
    OBVIOUS
  <1>2. /\ \A i \in S : i \in Int /\ Start <= i /\ i \notin Spent /\ Number(i) < Made /\ Implicit!BlockFor(i) = Housed[Number(i)]
        /\ \A i \in Int : i \in S <=> tailIndex <= i /\ i < tailIndex + prod.n
    <2>1. \A i \in Int : i \in S <=> tailIndex <= i /\ i < tailIndex + prod.n
      <3>1. PICK t \in Nat, n \in Nat : t = tailIndex /\ n = prod.n
        BY YEnds
      <3>2. S = t .. t + n - 1
        BY <1>1, <3>1 DEF Implicit!BulkCells
      <3> QED BY <3>1, <3>2
    <2> QED BY <1>1, <2>1, BlockForIs
  <1>3. cell' = [b \in Blocks |-> [o \in Offsets |->
                  IF \E i \in Implicit!BulkCells : Implicit!BlockFor(i) = b /\ i % BlockSize = o
                  THEN LaidFor(b, o) ELSE cell[b][o]]]
    BY DEF Implicit!Filled, Implicit!Offsets, Offsets, LaidFor
  <1>4. cell \in [Blocks -> [Offsets -> Int \cup {None}]]
    BY <1>0 DEF YCells, Celled
  <1>5. ASSUME NEW b \in Blocks, NEW o \in Offsets
        PROVE  /\ (\A i \in S : Implicit!BlockFor(i) /= b \/ i % BlockSize /= o) => cell'[b][o] = cell[b][o]
               /\ (\E i \in S : Implicit!BlockFor(i) = b /\ i % BlockSize = o) =>
                    cell'[b][o] \in S /\ Implicit!BlockFor(cell'[b][o]) = b /\ cell'[b][o] % BlockSize = o
    <2>1. cell'[b][o] = IF \E i \in S : Implicit!BlockFor(i) = b /\ i % BlockSize = o THEN LaidFor(b, o) ELSE cell[b][o]
      BY <1>1, <1>3
    <2>2. (\E i \in S : Implicit!BlockFor(i) = b /\ i % BlockSize = o) =>
            LaidFor(b, o) \in S /\ Implicit!BlockFor(LaidFor(b, o)) = b /\ LaidFor(b, o) % BlockSize = o
      BY <1>1, Zenon DEF LaidFor
    <2> QED BY <2>1, <2>2, Zenon
  <1>6. cell' \in [Blocks -> [Offsets -> Int \cup {None}]]
    <2>1. ASSUME NEW b \in Blocks, NEW o \in Offsets PROVE cell'[b][o] \in Int \cup {None}
      <3>1. cell[b][o] \in Int \cup {None}
        BY <1>4
      <3>2. \A i \in S : i \in Int
        BY <1>2
      <3>3. cell'[b][o] \in S \/ cell'[b][o] = cell[b][o]
        BY <1>5
      <3> QED BY <3>1, <3>2, <3>3
    <2>2. DOMAIN cell' = Blocks /\ \A b \in Blocks : cell'[b] = [o \in Offsets |-> cell'[b][o]]
      BY <1>3
    <2>3. \A b \in Blocks : cell'[b] \in [Offsets -> Int \cup {None}]
      BY <2>1, <2>2
    <2> QED BY <1>3, <2>2, <2>3
  <1>7. Top = tailIndex
    BY TopMade
  <1>8. ASSUME NEW i \in Int, Start <= i, i < tailIndex + prod.n, i \notin Spent PROVE cell'[Housed[Number(i)]][i % BlockSize] = i
    <2>0. i \in S \/ i < Top
      BY <1>2, <1>7, <1>8, YEnds
    <2>1. /\ Housed[Number(i)] \in Blocks /\ Housed[Number(i)] /= None /\ Number(i) \in Int
          /\ i < Top => cell[Housed[Number(i)]][i % BlockSize] = i
      BY <1>2, <1>8, <2>0, Found
    <2>2. PICK b \in Blocks, o \in Offsets : b = Housed[Number(i)] /\ o = i % BlockSize
      BY <1>8, <2>1, Division
    <2>3. ASSUME NEW j \in S, Implicit!BlockFor(j) = b, j % BlockSize = o PROVE j = i
      <3>1. Number(j) = Number(i)
        <4>1. Housed[Number(j)] = Housed[Number(i)] /\ Number(j) \in Int
          BY <1>2, <2>2, <2>3, Division
        <4> QED BY <1>0, <2>1, <4>1 DEF YBlocks, Housing
      <3>2. i = First(Number(i)) + o /\ j = First(Number(j)) + o
        BY <1>2, <2>2, <2>3, Division
      <3> QED BY <3>1, <3>2
    <2>4. CASE i \in S
      <3>1. Implicit!BlockFor(i) = b /\ i % BlockSize = o
        BY <1>2, <2>2, <2>4
      <3>2. cell'[b][o] = i
        BY <1>5, <2>3, <2>4, <3>1
      <3> QED BY <2>2, <3>2
    <2>5. CASE i \notin S
      <3>1. cell'[b][o] = cell[b][o]
        BY <1>5, <2>3, <2>5
      <3> QED BY <2>0, <2>1, <2>2, <2>5, <3>1
    <2> QED BY <2>4, <2>5
  <1> QED BY <1>6, <1>8

\* The elements of a call are constructed, or one of them throws.
LEMMA YFill ==
  ASSUME YAll, CountersInv', Implicit!Fill
  PROVE  Walking' /\ YInv' /\ [SubQ!Next]_(SubQ!subQueueVars)
  <1>0. CountersInv /\ Walking /\ YBlocks /\ YCall
    BY DEF YAll, YInv
  <1>1. /\ prod.at = "fill" /\ UNCHANGED <<claimVars, hand, taken, limit, key, count>>
        /\ \/ /\ cell' = Implicit!Filled(Implicit!BlockFor)
              /\ prod' = [NoCall EXCEPT !.at = "publish", !.n = prod.n]
              /\ UNCHANGED <<pool, tailBlock, value, headers>>
           \/ Implicit!GiveUp(0) /\ UNCHANGED cell
    BY DEF Implicit!Fill, Implicit!NoCall, NoCall, Implicit!claimVars, claimVars
  <1>2. CASE Implicit!GiveUp(0) /\ UNCHANGED cell
    <2>1. PICK g0 : g0 = (Made - Begun) + 0
      OBVIOUS
    <2>2. Failing(0, g0)
      BY <1>1, <2>1 DEF Failing
    <2> QED BY <1>1, <1>2, <2>2, YGiveUp
  <1>3. CASE /\ cell' = Implicit!Filled(Implicit!BlockFor)
             /\ prod' = [NoCall EXCEPT !.at = "publish", !.n = prod.n]
             /\ UNCHANGED <<pool, tailBlock, value, headers>>
    <2>0. UNCHANGED <<tailIndex, headIndex, claim>>
      BY <1>1 DEF claimVars
    <2>1. PICK t \in Nat, n \in Nat : t = tailIndex /\ n = prod.n /\ prod.need = 0
      BY <1>1, YEnds
    <2>2. prod' \in CallRecords /\ prod'.at = "publish" /\ prod'.n = n /\ prod'.need = 0
      <3>1. prod' = [at |-> "publish", n |-> n, need |-> 0, first |-> None, start |-> None, front0 |-> 0, used0 |-> 0]
        <4>1. prod' = [NoCall EXCEPT !.at = "publish", !.n = n]
          BY <1>3, <2>1
        <4> QED BY <4>1, CallRecord, Zenon
      <3> QED BY <3>1 DEF CallRecords
    <2>3. Made' = Made /\ Begun' = Begun /\ Top' = t + n /\ Last' = Last
      <3>1. Made' = Made /\ Begun' = Begun
        BY <2>0, <2>1, <2>2 DEF Made, Begun, Number
      <3>2. Top' = t + n
        BY <2>0, <2>1, <2>2 DEF Top
      <3>3. Last' = Last
        BY <1>1, <2>2, <3>1 DEF Last
      <3> QED BY <3>1, <3>2, <3>3
    <2>4. tailIndex <= tailIndex'
      BY <2>0, <2>1
    <2>5. YIndex' /\ Ents' = Ents /\ Housed' = Housed /\ YCount' /\ YHands' /\ Settling
      BY <1>1, <1>3, <2>0, <2>3, <2>4, Unindexed
    <2>6. Walking' /\ [SubQ!Next]_(SubQ!subQueueVars) /\ Spent' = Spent /\ Start' = Start
      BY <1>1, <2>0, <2>4, YProducer
    <2>7. YCells'
      <3>1. /\ cell' \in [Blocks -> [Offsets -> Int \cup {None}]]
            /\ \A i \in Int : Start <= i /\ i < tailIndex + prod.n /\ i \notin Spent => cell'[Housed[Number(i)]][i % BlockSize] = i
        BY <1>1, <1>3, FilledFor
      <3>2. Celled(cell', Housed, Spent, Start, t + n)
        BY <2>1, <3>1 DEF Celled
      <3> QED BY <2>3, <2>5, <2>6, <3>2 DEF YCells
    <2>8. YBlocks'
      BY <1>0, <1>3, <2>5 DEF YBlocks
    <2>9. YCall'
      <3>1. Housed'[Made' - 1] /= None => tailBlock' = Housed'[Made' - 1]
        BY <1>0, <1>1, <1>3, <2>3, <2>5 DEF YCall
      <3>2. tailBlock' \in Blocks \cup {None} /\ Begun' <= Made'
        BY <1>0, <1>3, <2>3 DEF YCall
      <3> QED BY <2>2, <3>1, <3>2 DEF YCall
    <2> QED BY <2>5, <2>6, <2>7, <2>8, <2>9 DEF YInv
  <1> QED BY <1>1, <1>2, <1>3

-----------------------------------------------------------------------------
(* An implicit producer's queue, whatever its producer and its consumers do. *)

\* The keys that the blocks of the first s elements left: each that of the last block that had the entry.
Lap(last, j) == last - ((last - j) % FirstIndex)
YBegins(s) ==
  /\ Begins(s) /\ pool = Blocks /\ tailBlock \in Blocks \cup {None}
  /\ cell = [b \in Blocks |-> [o \in Offsets |-> None]] /\ count = [b \in Blocks |-> BlockSize]
  /\ key = [e \in 1 .. FirstIndex |-> IF Lap(Number(s) - 1, e - 1) < 0 THEN None ELSE First(Lap(Number(s) - 1, e - 1))]
  /\ headers = <<[slots |-> [e \in 1 .. FirstIndex |-> e], tail |-> (Number(s) - 1) % FirstIndex]>>
  /\ value = [e \in 1 .. FirstIndex |-> None]
LEMMA YBeginsIs == ASSUME Implicit!Init PROVE \E s : YBegins(s)
  <1>1. PICK s \in Starts : Implicit!InitAt(s)
    BY DEF Implicit!Init
  <1>2. s \in Nat /\ s % BlockSize = 0
    BY BoundAssumption
  <1>3. Begins(s)
    BY <1>1, <1>2 DEF Implicit!InitAt, Implicit!SharedInit, Implicit!ClaimsInit, Implicit!NoClaim, NoClaim,
                      Implicit!NoWalk, NoWalk, Implicit!NoCall, NoCall, Begins, Boundary
  <1>4. /\ pool = Blocks /\ tailBlock \in Blocks \cup {None}
        /\ cell = [b \in Blocks |-> [o \in Offsets |-> None]] /\ count = [b \in Blocks |-> BlockSize]
        /\ value = [e \in 1 .. FirstIndex |-> None]
    BY <1>1 DEF Implicit!InitAt, Implicit!Offsets, Offsets
  <1>5. PICK l : l = Number(s) - 1
    OBVIOUS
  <1>6. s \div BlockSize - 1 = l
    BY <1>5 DEF Number
  <1>7. /\ key = [e \in 1 .. FirstIndex |-> IF l - ((l - (e - 1)) % FirstIndex) < 0 THEN None ELSE (l - ((l - (e - 1)) % FirstIndex)) * BlockSize]
        /\ headers = <<[slots |-> [e \in 1 .. FirstIndex |-> e], tail |-> l % FirstIndex]>>
    BY <1>1, <1>6 DEF Implicit!InitAt
  <1>8. l \in Int /\ FirstIndex \in Nat \ {0} /\ BlockSize \in Nat
    BY <1>2, <1>5, Division, IndexAssumption, BlockAssumption
  <1>9. \A e \in 1 .. FirstIndex : (l - ((l - (e - 1)) % FirstIndex)) * BlockSize = First(Lap(l, e - 1))
    <2> TAKE e \in 1 .. FirstIndex
    <2>1. PICK x \in Int : x = l - (e - 1)
      BY <1>8
    <2>2. PICK y \in Int : y = x % FirstIndex
      BY <1>8, <2>1, Remains
    <2>3. PICK z \in Int : z = l - y
      BY <1>8, <2>2
    <2>4. z * BlockSize = BlockSize * z
      BY <1>8, <2>3
    <2> QED BY <2>1, <2>2, <2>3, <2>4 DEF First, Lap
  <1>10. key = [e \in 1 .. FirstIndex |-> IF Lap(l, e - 1) < 0 THEN None ELSE First(Lap(l, e - 1))]
    BY <1>7, <1>9 DEF Lap
  <1> QED BY <1>3, <1>4, <1>5, <1>7, <1>10 DEF YBegins

\* The first index is in the phase of its keys.
LEMMA FirstPhase ==
  ASSUME NEW k \in Nat \ {0}, NEW l \in Int, NEW j \in 0 .. k - 1
  PROVE  /\ l % k \in Int /\ (l - j) % k \in Int
         /\ ((l % k) - ((l - j) % k)) % k = j
  <1>1. PICK x \in Int : x = l - j
    OBVIOUS
  <1>2. PICK r \in Int, d \in Int : r = x % k /\ x = k * d + r
    <2>1. PICK d \in Int : x % k \in 0 .. k - 1 /\ x = k * d + (x % k)
      BY Quotient
    <2>2. PICK r \in Int : r = x % k
      BY <2>1
    <2> QED BY <2>1, <2>2
  <1>3. PICK t \in Int : t = l % k
    BY Remains
  <1>4. PICK y \in Int : y = -r
    OBVIOUS
  <1>5. (t + y) % k = (l + y) % k
    <2>1. y \in Int
      BY <1>4
    <2>2. ((l % k) + y) % k = (l + y) % k
      BY <2>1, AddRemainder
    <2> QED BY <1>3, <2>2
  <1>6. PICK z \in Int : z = k * d
    BY <1>2
  <1>7. l + y = z + j
    <2>1. x = z + r
      BY <1>2, <1>6
    <2>2. \A a, b, c, u, v \in Int : u = a - b /\ u = c + v => a - v = c + b
      OBVIOUS
    <2>3. j \in Int /\ l - r = z + j
      BY <1>1, <2>1, <2>2
    <2>4. l + y = l - r
      BY <1>4
    <2> QED BY <2>3, <2>4
  <1>8. (k * d + j) % k = j
    <2>1. PICK i \in Int : i = j /\ i \in 0 .. k - 1
      OBVIOUS
    <2>2. i \in Int /\ d \in Int /\ k \in Nat \ {0}
      BY <1>2, <2>1
    <2>3. (k * d + i) % k = i % k
      BY <2>2, Remainders
    <2>4. i % k = i
      BY <2>1, <2>2, Remains
    <2> QED BY <2>1, <2>3, <2>4
  <1>9. t + y = t - r
    BY <1>4
  <1>10. (t - r) % k = j
    BY <1>5, <1>6, <1>7, <1>8, <1>9
  <1> QED BY <1>1, <1>2, <1>3, <1>10

\* The only index there is then leads to no block.
LEMMA YFirstIndex ==
  ASSUME CountersInv, NEW s, YBegins(s)
  PROVE  YIndex /\ \A q \in Int : Housed[q] = None
  <1>1. PICK n \in Int : n = Number(s) /\ Made = n /\ n - 1 \in Numbers
    <2>1. Begins(s)
      BY DEF YBegins
    <2>2. PICK n : n = Number(s)
      OBVIOUS
    <2> QED BY <2>1, <2>2, FirstNumbers
  <1>2. PICK l \in Int : l = n - 1 /\ Last = l
    <2>1. prod.at = "idle"
      BY DEF YBegins, Begins, NoCall
    <2> QED BY <1>1, <2>1 DEF Last
  <1>3. PICK k \in Nat \ {0} : k = FirstIndex
    BY IndexAssumption
  <1>4. PICK t \in Int : t = l % k /\ t \in 0 .. k - 1
    BY <1>3, Remains
  <1>5. PICK h : h = [slots |-> [e \in 1 .. k |-> e], tail |-> t]
    OBVIOUS
  <1>6. /\ headers = <<h>> /\ value = [e \in 1 .. k |-> None]
        /\ key = [e \in 1 .. k |-> IF Lap(l, e - 1) < 0 THEN None ELSE First(Lap(l, e - 1))]
    BY <1>1, <1>2, <1>3, <1>4, <1>5 DEF YBegins
  <1>7. h.slots = [e \in 1 .. k |-> e] /\ h.tail = t /\ h.slots \in Seq(Nat) /\ Len(h.slots) = k
    <2>1. PICK f : f = [e \in 1 .. k |-> e]
      OBVIOUS
    <2>2. f \in Seq(Nat) /\ Len(f) = k
      BY <2>1
    <2> QED BY <1>5, <2>1, <2>2
  <1>8. HeaderIn(h, k) /\ Size(h) = k
    <2>1. h \in Headers
      <3>1. t \in Nat
        BY <1>4
      <3>2. h = [slots |-> h.slots, tail |-> h.tail]
        BY <1>5
      <3> QED BY <1>7, <3>1, <3>2 DEF Headers
    <2> QED BY <1>4, <1>7, <2>1 DEF HeaderIn, Size
  <1>9. headers \in Seq(Headers) /\ Len(headers) = 1 /\ headers[1] = h /\ Newest(headers) = h
    <2>1. h \in Headers
      BY <1>8 DEF HeaderIn
    <2> QED BY <1>6, <2>1 DEF Newest
  <1>10. \A j \in 0 .. k - 1 : Lap(l, j) \in Int /\ EntryIn(h, Lap(l, j) + (t - l)) = j + 1
    <2> TAKE j \in 0 .. k - 1
    <2>1. PICK r \in Int : r = (l - j) % k
      BY FirstPhase
    <2>2. (t - r) % k = j
      BY <1>4, <2>1, FirstPhase
    <2>3. Lap(l, j) = l - r
      BY <1>3, <2>1 DEF Lap
    <2>4. (l - r) + (t - l) = t - r /\ l - r \in Int
      BY <1>2, <1>4, <2>1
    <2>5. EntryIn(h, t - r) = h.slots[j + 1]
      BY <1>8, <2>2 DEF EntryIn
    <2>6. h.slots[j + 1] = j + 1
      BY <1>7
    <2> QED BY <2>3, <2>4, <2>5, <2>6
  <1>11. key \in Seq(Int \cup {None}) /\ Len(key) = k
    <2>1. \A e \in 1 .. k : key[e] \in Int \cup {None}
      <3> TAKE e \in 1 .. k
      <3>1. e - 1 \in 0 .. k - 1
        OBVIOUS
      <3>2. First(Lap(l, e - 1)) \in Int
        BY <1>10, <3>1, FirstNumber
      <3> QED BY <1>6, <3>2
    <2>2. key = [e \in 1 .. k |-> key[e]]
      BY <1>6
    <2> QED BY <2>1, <2>2
  <1>12. value \in Seq(Blocks \cup {None}) /\ Len(value) = k
    BY <1>6
  <1>13. Phased(h, t - l, key)
    <2> SUFFICES ASSUME NEW e \in SlotsOf(h) PROVE key[e] = None \/ \E q \in Int : key[e] = First(q) /\ e = EntryIn(h, q + (t - l))
      BY DEF Phased
    <2>1. e \in 1 .. k
      BY <1>7, <1>8 DEF SlotsOf
    <2>2. PICK j \in 0 .. k - 1 : j = e - 1
      BY <2>1
    <2>3. PICK q \in Int : q = Lap(l, j) /\ EntryIn(h, q + (t - l)) = j + 1
      BY <1>10
    <2>4. key[e] = None \/ key[e] = First(q)
      BY <1>6, <2>1, <2>2, <2>3
    <2>5. e = j + 1
      BY <2>1, <2>2
    <2> QED BY <2>3, <2>4, <2>5
  <1>14. PICK p \in Int : p = t - l
    OBVIOUS
  <1>15. Ents = EntsOf(headers, l) /\ \A q \in Int : Ents[q] = EntryIn(h, q + p)
    BY <1>2, <1>7, <1>9, <1>14 DEF Ents, EntsOf
  <1>16. InStep(h, key, Ents)
    BY <1>13, <1>14, <1>15 DEF InStep, Aligned
  <1>17. Indexed(headers, key, l, Ents)
    <2>1. \A e \in 1 .. Len(key) : e \in SlotsOf(Newest(headers))
      BY <1>7, <1>8, <1>9, <1>11 DEF SlotsOf
    <2>2. \A j \in 1 .. Len(headers) : j = 1
      BY <1>9
    <2>3. Phased(Newest(headers), Newest(headers).tail - l, key)
      BY <1>7, <1>9, <1>13
    <2>4. \A j \in 1 .. Len(headers) : HeaderIn(headers[j], Len(key)) /\ InStep(headers[j], key, Ents)
      BY <1>8, <1>9, <1>11, <1>16, <2>2
    <2> QED BY <1>9, <1>11, <1>15, <2>1, <2>2, <2>3, <2>4 DEF Indexed
  <1>18. \A q \in Int : Ents[q] \in 1 .. k
    BY <1>11, <1>17, EntsAre DEF Circular
  <1>19. \A q \in Int : Housed[q] = None
    BY <1>6, <1>18 DEF Housed, HousedIn
  <1>20. Stored(headers, key, value, Last, Ents, Housed)
    BY <1>2, <1>11, <1>12, <1>17, <1>19 DEF Stored, Housed
  <1> QED BY <1>19, <1>20 DEF YIndex

\* An implicit producer begins in its invariant, and as SubQueue does.
LEMMA YInitially ==
  ASSUME CountersInv, Implicit!Init
  PROVE  Walking /\ YInv /\ SubQ!Init
  <1>1. PICK s : YBegins(s)
    BY YBeginsIs
  <1>2. /\ Begins(s) /\ pool = Blocks /\ tailBlock \in Blocks \cup {None}
        /\ cell = [b \in Blocks |-> [o \in Offsets |-> None]] /\ count = [b \in Blocks |-> BlockSize]
    BY <1>1 DEF YBegins
  <1>3. Walking /\ SubQ!Init /\ Start = s
    BY <1>2, FirstWalks
  <1>4. YIndex /\ \A q \in Int : Housed[q] = None
    BY <1>1, YFirstIndex
  <1>5. PICK n \in Int : n = Number(s) /\ Made = n /\ Begun = n
    <2>1. PICK n : n = Number(s)
      OBVIOUS
    <2> QED BY <1>2, <2>1, FirstNumbers
  <1>6. s \in Nat /\ tailIndex = s /\ prod = NoCall /\ hand = [c \in Consumers |-> NoWalk]
    BY <1>2 DEF Begins
  <1>7. YBlocks
    BY <1>2, <1>4 DEF YBlocks, Housing
  <1>8. YCount
    <2>1. count \in [Blocks -> 0 .. BlockSize]
      BY <1>2, BlockAssumption
    <2>2. \A q \in Int : ~(n <= q /\ q < n)
      OBVIOUS
    <2>3. Number(Start) = n
      BY <1>3, <1>5
    <2> QED BY <1>4, <1>5, <2>1, <2>2, <2>3 DEF YCount, Kept, Counted
  <1>9. YCells
    <2>1. cell \in [Blocks -> [Offsets -> Int \cup {None}]]
      BY <1>2
    <2>2. Top = s
      BY <1>6 DEF Top, NoCall
    <2>3. \A i \in Int : ~(s <= i /\ i < s)
      BY <1>6
    <2> QED BY <1>3, <2>1, <2>2, <2>3 DEF YCells, Celled
  <1>10. YCall
    <2>1. prod \in CallRecords /\ prod.at = "idle" /\ prod.need = 0
      BY <1>6, NoCallIs
    <2>2. Housed[Made - 1] = None
      <3>1. PICK q \in Int : q = Made - 1
        BY <1>5
      <3> QED BY <1>4, <3>1
    <2>3. Begun <= Made
      BY <1>5
    <2> QED BY <1>2, <1>6, <2>1, <2>2, <2>3 DEF YCall
  <1>11. YHands
    BY <1>6 DEF YHands, HandIn, Unlinking, NoWalk
  <1> QED BY <1>3, <1>4, <1>7, <1>8, <1>9, <1>10, <1>11 DEF YInv

\* A step that leaves everything as it is.
LEMMA YRests ==
  ASSUME YAll, CountersInv', UNCHANGED vars
  PROVE  Walking' /\ YInv' /\ [SubQ!Next]_(SubQ!subQueueVars)
  <1>1. UNCHANGED <<tailIndex, headIndex, claim, hand, taken, limit, prod, pool, tailBlock, cell, count, headers, key, value>>
    BY DEF vars, claimVars, sharedVars, implicitVars
  <1>2. /\ YIndex' /\ YBlocks' /\ YCall' /\ Made' = Made /\ Last' = Last /\ Top' = Top
    BY <1>1, IndexStays
  <1>3. tailIndex <= tailIndex'
    BY <1>1, YEnds
  <1>4. Walking' /\ [SubQ!Next]_(SubQ!subQueueVars)
    BY <1>1, <1>3, YProducer
  <1>5. YCount' /\ YHands' /\ Settling
    BY <1>1, <1>2, <1>3, Unindexed
  <1>6. \A i \in Int : i < Top => Number(i) < Made'
    BY <1>2, TopMade
  <1>7. YCells'
    BY <1>1, <1>2, <1>5, <1>6, CellsStay
  <1> QED BY <1>2, <1>4, <1>5, <1>7 DEF YInv

\* Every step of the producer and of its consumers keeps the invariant and is one that SubQueue allows.
LEMMA YStep ==
  ASSUME YAll, CountersInv', ~isExplicit, [Next]_vars
  PROVE  Walking' /\ YInv' /\ [SubQ!Next]_(SubQ!subQueueVars)
  <1>1. Implicit!Next \/ UNCHANGED vars
    BY DEF Next
  <1>2. CASE Implicit!Producer
    <2>1. CASE (Implicit!EnqueueInBlock \/ Implicit!Publish \/ Implicit!Enqueue \/ Implicit!EnqueueBulk)
               /\ UNCHANGED <<count, key, value, headers>>
      <3>1. CASE Implicit!EnqueueInBlock \/ Implicit!Publish
        BY <2>1, <3>1, YInBlock, YPublish
      <3>2. CASE Implicit!Enqueue
        <4>1. Implicit!Begin(1)
          BY <3>2 DEF Implicit!Enqueue
        <4> QED BY <2>1, <4>1, YBegin
      <3>3. CASE Implicit!EnqueueBulk
        <4>1. PICK n \in BulkSizes : Implicit!Begin(n)
          BY <3>3 DEF Implicit!EnqueueBulk
        <4>2. n \in Nat /\ n >= 1
          BY IndexAssumption
        <4> QED BY <2>1, <4>1, <4>2, YBegin
      <3> QED BY <2>1, <3>1, <3>2, <3>3
    <2>2. CASE Implicit!InsertEntry
      BY <2>2, YInsert
    <2>3. CASE Implicit!NewBlock
      BY <2>3, YNewBlock
    <2>4. CASE Implicit!Fill
      BY <2>4, YFill
    <2> QED BY <1>2, <2>1, <2>2, <2>3, <2>4 DEF Implicit!Producer, Implicit!indexVars
  <1>3. ASSUME NEW c \in Consumers, Implicit!Consumer(c) PROVE Walking' /\ YInv' /\ [SubQ!Next]_(SubQ!subQueueVars)
    <2>1. CASE Implicit!Claim(c) /\ UNCHANGED <<count, key, value, headers>>
      BY <2>1, YClaim
    <2>2. CASE (Implicit!LoadIndex(c) \/ Implicit!LoadTail(c) \/ Implicit!FindSlot(c)) /\ UNCHANGED <<count, key, value, headers>>
      BY <2>2, YFind
    <2>3. CASE Implicit!MoveOut(c) /\ UNCHANGED <<count, key, value, headers>>
      BY <2>3, YMove
    <2>4. CASE Implicit!Release(c)
      BY <2>4, YRelease
    <2>5. CASE Implicit!Unlink(c)
      BY <2>5, YUnlink
    <2> QED BY <1>3, <2>1, <2>2, <2>3, <2>4, <2>5 DEF Implicit!Consumer, Implicit!indexVars
  <1>4. CASE UNCHANGED vars
    BY <1>4, YRests
  <1> QED BY <1>1, <1>2, <1>3, <1>4 DEF Implicit!Next

\* What is true of an implicit producer's queue at all times.
LEMMA ImplicitInvariant == Spec => [](CountersInv /\ (~isExplicit => YAll))
  <1>1. Init => CountersInv /\ (~isExplicit => YAll)
    <2> SUFFICES ASSUME Init, ~isExplicit PROVE YAll
      BY CountersBegin
    <2>1. CountersInv
      BY CountersBegin
    <2>2. Implicit!Init
      BY DEF Init
    <2> QED BY <2>1, <2>2, YInitially DEF YAll
  <1>2. CountersInv /\ (~isExplicit => YAll) /\ [Next]_vars => (CountersInv /\ (~isExplicit => YAll))'
    <2> SUFFICES ASSUME CountersInv, ~isExplicit => YAll, [Next]_vars PROVE (CountersInv /\ (~isExplicit => YAll))'
      OBVIOUS
    <2>1. CountersInv'
      BY CountersStep
    <2>2. isExplicit' = isExplicit
      BY DEF Next, vars
    <2>3. CASE ~isExplicit
      <3>1. YAll
        BY <2>3
      <3> QED BY <3>1, <2>1, <2>3, YStep DEF YAll
    <2>4. CASE isExplicit
      BY <2>1, <2>2, <2>4
    <2> QED BY <2>3, <2>4
  <1> QED BY <1>1, <1>2, PTL DEF Spec

\* The elements that are left to be found: not counted, and in the entries of their blocks.
LEMMA LeftIs ==
  ASSUME YAll, NEW i \in Int, 0 <= i, i < tailIndex, i \notin taken
  PROVE  Start <= i /\ i \notin Spent /\ i < Top /\ i < limit
  <1>0. CountersInv /\ Walks /\ Outside
    BY DEF YAll, Walking
  <1>1. tailIndex \in Nat /\ headIndex \in Nat /\ limit \in Int /\ Start \in Nat /\ Start <= headIndex /\ tailIndex <= limit
    BY YEnds
  <1>2. Top \in Int /\ tailIndex <= Top
    BY TopMade
  <1>3. CASE headIndex <= i
    <2>1. i \notin Spent
      BY <1>0, <1>3, SpentIs
    <2> QED BY <1>1, <1>2, <1>3, <2>1
  <1>4. CASE i < headIndex
    <2>1. PICK c \in Consumers : i \in Owes(c)
      BY <1>0, <1>4 DEF Outside
    <2>2. i \in Rest(c)
      BY <1>0, <2>1, RestIs
    <2>3. i \in Keeps(c)
      BY <2>1, <2>2, KeepsIs
    <2>4. Start <= i /\ i \notin Spent
      BY <1>0, <2>3, SpentIs
    <2> QED BY <1>1, <1>2, <2>4
  <1> QED BY <1>1, <1>3, <1>4

\* The slot that is computed from the tail is that of the position's block.
LEMMA SlotFromTail ==
  ASSUME YAll, NEW i \in Int, Start <= i, i < limit, i \notin Spent, Number(i) < Made \/ i < Top
  PROVE  /\ Implicit!EntryAt(Implicit!Cur, Implicit!SlotOf(i, Implicit!Cur, Implicit!Cur.tail)) = Ents[Number(i)]
         /\ value[Ents[Number(i)]] = Housed[Number(i)] /\ Housed[Number(i)] \in Blocks /\ Housed[Number(i)] /= None
         /\ key[Ents[Number(i)]] = First(Number(i)) /\ (i < Top => cell[Housed[Number(i)]][i % BlockSize] = i)
  <1>1. /\ Number(i) \in Int /\ Housed[Number(i)] \in Blocks /\ Housed[Number(i)] /= None
        /\ Within(headers, Last, Number(i))
        /\ value[Ents[Number(i)]] = Housed[Number(i)] /\ key[Ents[Number(i)]] = First(Number(i))
        /\ Keyed(key, Ents, Number(i), Last)
        /\ i < Top => cell[Housed[Number(i)]][i % BlockSize] = i
    BY Found
  <1>2. PICK h : h = Newest(headers)
    OBVIOUS
  <1>3. /\ EntryIn(h, h.tail) = Ents[Last] /\ HeaderIn(h, Len(key)) /\ InStep(h, key, Ents)
        /\ \A q \in Int : Ents[q] \in SlotsOf(h)
    BY <1>2, TailEntry
  <1>4. Last \in Numbers /\ Last \in Int
    BY YMade
  <1>5. key[Ents[Last]] = First(Last)
    BY <1>1, <1>4 DEF Keyed, Within
  <1>6. Recent(key[EntryIn(h, h.tail)])
    BY <1>3, <1>4, <1>5 DEF Recent
  <1>7. Number(i) \in Numbers
    BY YNumbers
  <1>8. limit \in Int /\ Boundary(Start) /\ h.tail \in 0 .. Size(h) - 1
    BY <1>3, YEnds, SizeIs
  <1>9. EntryIn(h, Implicit!SlotOf(i, h, h.tail)) = Ents[Number(i)]
    <2>1. Ents[Number(i)] \in SlotsOf(h)
      BY <1>1, <1>3
    <2>2. PICK x \in 0 .. Size(h) - 1 : x = h.tail
      BY <1>8
    <2>3. EntryIn(h, Implicit!SlotOf(i, h, x)) = Ents[Number(i)]
      BY <1>3, <1>6, <1>7, <1>8, <2>1, <2>2, SlotOfEntry
    <2> QED BY <2>2, <2>3
  <1>10. Implicit!Cur = h
    BY <1>2 DEF Implicit!Cur, Newest
  <1> QED BY <1>1, <1>9, <1>10, EntryAtIs

\* The block index leads to every element that is still in the queue.
LEMMA YLeads == ASSUME YAll PROVE Implicit!IndexLeadsToElement
  <1> SUFFICES ASSUME NEW i \in Implicit!Unmoved
               PROVE  LET e == Implicit!EntryAt(Implicit!Cur, Implicit!SlotOf(i, Implicit!Cur, Implicit!Cur.tail))
                      IN  key[e] = Implicit!Base(i) /\ value[e] /= None /\ cell[value[e]][i % BlockSize] = i
    BY DEF Implicit!IndexLeadsToElement
  <1>1. i \in Int /\ 0 <= i /\ i < tailIndex /\ i \notin taken
    BY YEnds DEF Implicit!Unmoved
  <1>2. Start <= i /\ i \notin Spent /\ i < Top /\ i < limit
    BY <1>1, LeftIs
  <1>3. /\ Implicit!EntryAt(Implicit!Cur, Implicit!SlotOf(i, Implicit!Cur, Implicit!Cur.tail)) = Ents[Number(i)]
        /\ value[Ents[Number(i)]] = Housed[Number(i)] /\ Housed[Number(i)] /= None
        /\ key[Ents[Number(i)]] = First(Number(i)) /\ cell[Housed[Number(i)]][i % BlockSize] = i
    BY <1>1, <1>2, SlotFromTail
  <1>4. Implicit!Base(i) = First(Number(i))
    BY <1>1, Division DEF Implicit!Base, Base
  <1> QED BY <1>3, <1>4

\* When no call is in progress, what is not counted is in the queue, and its last block is the tail block.
LEMMA QuietIs ==
  ASSUME YAll, Implicit!Quiet
  PROVE  /\ Made = Begun /\ \A i \in Int : i \notin Spent <=> headIndex <= i
         /\ \A c \in Consumers : hand[c].at = "idle"
         /\ Housed[Made - 1] /= None => tailBlock = Housed[Made - 1]
  <1>0. CountersInv /\ Walks /\ YCall
    BY DEF YAll, YInv, Walking
  <1>1. prod.at = "idle" /\ \A c \in Consumers : claim[c].at = "idle"
    BY DEF Implicit!Quiet
  <1>2. \A c \in Consumers : hand[c].at = "idle" /\ Rest(c) = {} /\ Keeps(c) = {}
    BY <1>0, <1>1 DEF Walks, Rest, Keeps
  <1>3. \A i \in Int : i \notin Spent <=> headIndex <= i
    <2>1. \A i \in Int : i < headIndex => i \in Spent
      BY <1>2 DEF Spent
    <2>2. headIndex \in Int
      BY YEnds
    <2> QED BY <1>0, <2>1, <2>2, SpentIs
  <1> QED BY <1>0, <1>1, <1>2, <1>3, YMade DEF YCall

\* The last block there is, when there is anything in it.
LEMMA TailBlockIs ==
  ASSUME YAll, Implicit!Quiet, headIndex /= tailIndex \/ ~Boundary(tailIndex)
  PROVE  /\ tailBlock = Housed[Made - 1] /\ tailBlock \in Blocks /\ tailBlock \notin pool
         /\ headIndex /= tailIndex => Number(tailIndex - 1) = Made - 1
         /\ ~Boundary(tailIndex) => Number(tailIndex) = Made - 1
  <1>1. /\ tailIndex \in Nat /\ headIndex \in Nat /\ Start \in Nat /\ Start <= headIndex /\ headIndex <= tailIndex
    BY YEnds
  <1>2. /\ Made = Begun /\ \A i \in Int : i \notin Spent <=> headIndex <= i
        /\ Housed[Made - 1] /= None => tailBlock = Housed[Made - 1]
    BY QuietIs
  <1>3. /\ Made \in Int /\ Number(tailIndex) \in Int
        /\ Boundary(tailIndex) => Made = Number(tailIndex)
        /\ ~Boundary(tailIndex) => Made = Number(tailIndex) + 1
    BY <1>2, YMade
  <1>4. PICK t \in Int : t = tailIndex
    BY <1>1
  <1>5. Number(t - 1) = Made - 1
    BY <1>3, <1>4, NextNumber
  <1>6. PICK i \in Int : headIndex <= i /\ Number(i) = Made - 1
    <2>1. CASE headIndex /= tailIndex
      <3>1. t - 1 \in Int /\ headIndex <= t - 1
        BY <1>1, <1>4, <2>1
      <3> QED BY <1>5, <3>1
    <2>2. CASE ~Boundary(tailIndex)
      BY <1>1, <1>3, <2>2
    <2> QED BY <2>1, <2>2
  <1>7. Housed[Number(i)] \in Blocks /\ Housed[Number(i)] /= None
    <2>1. Start <= i /\ i \notin Spent /\ Number(i) < Made
      BY <1>1, <1>2, <1>3, <1>6
    <2> QED BY <2>1, Found
  <1>8. Housed[Made - 1] \notin pool
    <2>1. Housing(Housed, pool)
      BY DEF YAll, YInv, YBlocks
    <2>2. Made - 1 \in Int
      BY <1>3
    <2> QED BY <1>6, <1>7, <2>1, <2>2 DEF Housing
  <1> QED BY <1>2, <1>3, <1>4, <1>5, <1>6, <1>7, <1>8

\* The entry of a position in the queue.
PlaceOf(i) == value[Implicit!EntryAt(Implicit!Cur, Implicit!SlotOf(i, Implicit!Cur, Implicit!Cur.tail))]
LEMMA PlaceIs ==
  ASSUME YAll, Implicit!Quiet
  PROVE  \A i \in headIndex .. tailIndex - 1 :
           /\ i \in Int /\ headIndex <= i /\ i < tailIndex /\ Number(i) \in Int
           /\ PlaceOf(i) = Housed[Number(i)] /\ PlaceOf(i) \in Blocks /\ PlaceOf(i) /= None /\ PlaceOf(i) \notin pool
  <1> SUFFICES ASSUME NEW i \in headIndex .. tailIndex - 1
               PROVE  /\ i \in Int /\ headIndex <= i /\ i < tailIndex /\ Number(i) \in Int
                      /\ PlaceOf(i) = Housed[Number(i)] /\ PlaceOf(i) \in Blocks /\ PlaceOf(i) /= None /\ PlaceOf(i) \notin pool
    OBVIOUS
  <1>1. /\ tailIndex \in Nat /\ headIndex \in Nat /\ Start \in Nat /\ Start <= headIndex /\ tailIndex <= limit /\ limit \in Int
    BY YEnds
  <1>2. i \in Int /\ headIndex <= i /\ i < tailIndex
    BY <1>1
  <1>3. i \notin Spent
    BY <1>2, QuietIs
  <1>4. Start <= i /\ i < limit /\ i < Top /\ Number(i) \in Int
    BY <1>1, <1>2, TopMade, Division
  <1>5. PlaceOf(i) = Housed[Number(i)] /\ Housed[Number(i)] \in Blocks /\ Housed[Number(i)] /= None
    BY <1>2, <1>3, <1>4, SlotFromTail DEF PlaceOf
  <1>6. Housing(Housed, pool)
    BY DEF YAll, YInv, YBlocks
  <1>7. Housed[Number(i)] \notin pool
    BY <1>4, <1>5, <1>6 DEF Housing
  <1> QED BY <1>2, <1>4, <1>5, <1>7

\* A block that is not in the pool has positions in the queue, or is the tail block.
LEMMA PlacesLeft ==
  ASSUME YAll, Implicit!Quiet, NEW b \in Blocks, b \notin pool
  PROVE  \/ \E i \in headIndex .. tailIndex - 1 : b = PlaceOf(i)
         \/ ~Boundary(tailIndex) /\ b = tailBlock
  <1>1. Housing(Housed, pool) /\ YCount
    BY DEF YAll, YInv, YBlocks
  <1>2. PICK q \in Int : Housed[q] = b
    BY <1>1 DEF Housing
  <1>3. Housed[q] /= None
    BY <1>2, NoneAssumption
  <1>4. q < Made
    BY <1>1, <1>2, <1>3 DEF YCount, Counted
  <1>5. SpentIn(Spent, q) /= Offsets
    <2>1. \A c \in Consumers : ~Unlinks(c, q)
      BY QuietIs DEF Unlinks
    <2> QED BY <1>1, <1>2, <1>3, <2>1 DEF YCount
  <1>6. PICK o \in Offsets : First(q) + o \notin Spent
    BY <1>5 DEF SpentIn
  <1>7. PICK i : i = First(q) + o
    OBVIOUS
  <1>8. i \in Int /\ Number(i) = q
    BY <1>2, <1>6, <1>7, Placed
  <1>9. headIndex <= i
    BY <1>6, <1>7, <1>8, QuietIs
  <1>10. tailIndex \in Nat /\ headIndex \in Nat
    BY YEnds
  <1>11. CASE i < tailIndex
    <2>1. i \in headIndex .. tailIndex - 1
      BY <1>8, <1>9, <1>10, <1>11
    <2> QED BY <1>2, <1>8, <2>1, PlaceIs
  <1>12. CASE tailIndex <= i
    <2>1. Number(tailIndex) <= q /\ Number(tailIndex) \in Int
      BY <1>8, <1>10, <1>12, NumberOrder, Division
    <2>2. /\ Made = Begun
      BY QuietIs
    <2>3. /\ Boundary(tailIndex) => Made = Number(tailIndex)
          /\ ~Boundary(tailIndex) => Made = Number(tailIndex) + 1
      BY <2>2, YMade
    <2>4. ~Boundary(tailIndex) /\ q = Made - 1
      BY <1>2, <1>4, <2>1, <2>3
    <2> QED BY <1>2, <2>4, TailBlockIs
  <1> QED BY <1>8, <1>10, <1>11, <1>12

\* The blocks are in the pool or in one entry each, and those in entries are the queue's.
LEMMA YAccounted == ASSUME YAll PROVE Implicit!BlocksAccounted
  <1>0. YIndex /\ Housing(Housed, pool)
    BY DEF YAll, YInv, YBlocks
  <1>1. Stored(headers, key, value, Last, Ents, Housed)
    BY <1>0 DEF YIndex
  <1>2. \A e \in Implicit!InUse : e \in 1 .. Len(value) /\ value[e] /= None
    <2>1. DOMAIN value = 1 .. Len(value)
      BY <1>1 DEF Stored
    <2> QED BY <2>1 DEF Implicit!InUse
  <1>3. \A e \in Implicit!InUse : \E q \in Int : Ents[q] = e /\ Housed[q] = value[e] /\ Housed[q] /= None
    BY <1>1, <1>2, HousedAre
  <1>4. \A e \in Implicit!InUse : value[e] \notin pool
    BY <1>0, <1>3 DEF Housing
  <1>5. \A e, f \in Implicit!InUse : value[e] = value[f] => e = f
    <2> SUFFICES ASSUME NEW e \in Implicit!InUse, NEW f \in Implicit!InUse, value[e] = value[f] PROVE e = f
      OBVIOUS
    <2>1. PICK q \in Int : Ents[q] = e /\ Housed[q] = value[e] /\ Housed[q] /= None
      BY <1>3
    <2>2. PICK r \in Int : Ents[r] = f /\ Housed[r] = value[f] /\ Housed[r] /= None
      BY <1>3
    <2>3. q = r
      BY <1>0, <2>1, <2>2 DEF Housing
    <2> QED BY <2>1, <2>2, <2>3
  <1>6. ASSUME Implicit!Quiet
        PROVE  Blocks \ pool = {PlaceOf(i) : i \in headIndex .. tailIndex - 1} \cup IF Boundary(tailIndex) THEN {} ELSE {tailBlock}
    <2>1. \A i \in headIndex .. tailIndex - 1 : PlaceOf(i) \in Blocks \ pool
      BY <1>6, PlaceIs
    <2>2. ~Boundary(tailIndex) => tailBlock \in Blocks \ pool
      BY <1>6, TailBlockIs
    <2>3. \A b \in Blocks \ pool : (\E i \in headIndex .. tailIndex - 1 : b = PlaceOf(i)) \/ (~Boundary(tailIndex) /\ b = tailBlock)
      BY <1>6, PlacesLeft
    <2> QED BY <2>1, <2>2, <2>3, Zenon
  <1>7. Implicit!Boundary(tailIndex) <=> Boundary(tailIndex)
    BY DEF Implicit!Boundary, Boundary
  <1>8. Implicit!Quiet => Blocks \ pool = {PlaceOf(i) : i \in headIndex .. tailIndex - 1} \cup IF Implicit!Boundary(tailIndex) THEN {} ELSE {tailBlock}
    BY <1>6, <1>7
  <1> QED BY <1>4, <1>5, <1>8, Zenon DEF Implicit!BlocksAccounted, PlaceOf

\* ~ImplicitProducer: the walk from the head leaves the blocks behind it, the last one is freed by itself.
LEMMA YFreesAll == ASSUME YAll PROVE Implicit!DestructorFreesAll
  <1> SUFFICES ASSUME Implicit!Quiet
               PROVE  Implicit!WalkFrees \cup Implicit!TailFrees = Blocks \ pool /\ Implicit!WalkFrees \cap Implicit!TailFrees = {}
    BY DEF Implicit!DestructorFreesAll
  <1>1. tailIndex \in Nat /\ headIndex \in Nat /\ headIndex <= tailIndex
    BY YEnds
  <1>2. \A i \in headIndex .. tailIndex - 1 :
          /\ i \in Int /\ headIndex <= i /\ i < tailIndex /\ Number(i) \in Int
          /\ PlaceOf(i) = Housed[Number(i)] /\ PlaceOf(i) \in Blocks /\ PlaceOf(i) /= None /\ PlaceOf(i) \notin pool
    BY PlaceIs
  <1>3. headIndex /= tailIndex \/ ~Boundary(tailIndex) =>
          /\ tailBlock = Housed[Made - 1] /\ tailBlock \in Blocks /\ tailBlock \notin pool
          /\ headIndex /= tailIndex => Number(tailIndex - 1) = Made - 1
    BY TailBlockIs
  <1>4. Made \in Int
    BY YMade
  <1>5. Implicit!TailFrees = IF headIndex /= tailIndex \/ ~Boundary(tailIndex) THEN {tailBlock} ELSE {}
    BY DEF Implicit!TailFrees, Implicit!Boundary, Boundary
  <1>6. PICK J : J = {j \in headIndex .. tailIndex - 1 : \E k \in j + 1 .. tailIndex - 1 : Boundary(k)}
    OBVIOUS
  <1>7. Implicit!WalkFrees = {PlaceOf(i) : i \in J}
    <2>1. \A k : Implicit!Boundary(k) <=> Boundary(k)
      BY DEF Implicit!Boundary, Boundary
    <2>2. J = {j \in headIndex .. tailIndex - 1 : \E k \in j + 1 .. tailIndex - 1 : Implicit!Boundary(k)}
      BY <1>6, <2>1
    <2> QED BY <2>2, Zenon DEF Implicit!WalkFrees, PlaceOf
  <1>8. \A i \in headIndex .. tailIndex - 1 : i \in J <=> Number(i) < Made - 1
    <2> SUFFICES ASSUME NEW i \in headIndex .. tailIndex - 1 PROVE i \in J <=> Number(i) < Made - 1
      OBVIOUS
    <2>1. i \in Int /\ headIndex <= i /\ i < tailIndex /\ Number(i) \in Int
      BY <1>2
    <2>2. PICK t \in Int : t = tailIndex
      BY <1>1
    <2>3. Number(t - 1) = Made - 1
      BY <1>1, <1>3, <2>1, <2>2
    <2>4. ASSUME i \in J PROVE Number(i) < Made - 1
      <3>1. PICK k \in i + 1 .. t - 1 : Boundary(k)
        BY <1>6, <2>2, <2>4
      <3>2. k \in Int /\ i <= k - 1 /\ k <= t - 1 /\ k - 1 \in Int
        BY <2>1, <2>2, <3>1
      <3>3. Number(i) <= Number(k - 1) /\ Number(k) <= Number(t - 1) /\ Number(k) \in Int /\ Number(k - 1) \in Int
        BY <2>1, <2>2, <3>2, NumberOrder, Division
      <3>4. Number(k - 1) = Number(k) - 1
        BY <3>1, <3>2, NextNumber
      <3> QED BY <1>4, <2>1, <2>3, <3>3, <3>4
    <2>5. ASSUME Number(i) < Made - 1 PROVE i \in J
      <3>1. PICK k \in Int : k = First(Number(t - 1))
        BY <1>4, <2>3, FirstNumber
      <3>2. Boundary(k) /\ Number(k) = Number(t - 1)
        BY <1>4, <2>3, <3>1, FirstNumber DEF Boundary
      <3>3. i < k
        <4>1. i < First(Number(t - 1))
          BY <1>4, <2>1, <2>2, <2>3, <2>5, NumberOrder
        <4> QED BY <3>1, <4>1
      <3>4. k <= t - 1
        <4>1. First(Number(t - 1)) <= t - 1
          BY <1>4, <2>2, <2>3, NumberIs
        <4> QED BY <3>1, <4>1
      <3>5. k \in i + 1 .. t - 1
        BY <2>1, <2>2, <3>3, <3>4
      <3> QED BY <1>6, <2>2, <3>2, <3>5
    <2> QED BY <2>4, <2>5
  <1>9. J \subseteq headIndex .. tailIndex - 1
    BY <1>6
  <1>10. \A i \in headIndex .. tailIndex - 1 : i \notin J => PlaceOf(i) = tailBlock /\ headIndex /= tailIndex
    <2> SUFFICES ASSUME NEW i \in headIndex .. tailIndex - 1, i \notin J PROVE PlaceOf(i) = tailBlock /\ headIndex /= tailIndex
      OBVIOUS
    <2>1. i \in Int /\ headIndex <= i /\ i < tailIndex /\ Number(i) \in Int /\ PlaceOf(i) = Housed[Number(i)]
      BY <1>2
    <2>2. PICK t \in Int : t = tailIndex
      BY <1>1
    <2>3. Number(t - 1) = Made - 1 /\ tailBlock = Housed[Made - 1] /\ headIndex /= tailIndex
      BY <1>1, <1>3, <2>1, <2>2
    <2>4. Number(i) <= Number(t - 1)
      BY <2>1, <2>2, NumberOrder
    <2>5. Number(i) = Made - 1
      BY <1>4, <1>8, <2>1, <2>3, <2>4
    <2> QED BY <2>1, <2>3, <2>5
  <1>11. \A i \in J : PlaceOf(i) /= tailBlock
    <2> SUFFICES ASSUME NEW i \in J PROVE PlaceOf(i) /= tailBlock
      OBVIOUS
    <2>1. i \in headIndex .. tailIndex - 1
      BY <1>9
    <2>2. Number(i) < Made - 1 /\ Number(i) \in Int /\ PlaceOf(i) = Housed[Number(i)] /\ PlaceOf(i) /= None
      BY <1>2, <1>8, <2>1
    <2>3. headIndex /= tailIndex
      BY <1>1, <1>2, <2>1
    <2>4. tailBlock = Housed[Made - 1]
      BY <1>3, <2>3
    <2>5. Housing(Housed, pool)
      BY DEF YAll, YInv, YBlocks
    <2>6. Made - 1 \in Int /\ Made - 1 /= Number(i)
      BY <1>4, <2>2
    <2> QED BY <2>2, <2>4, <2>5, <2>6 DEF Housing
  <1>12. \A b \in Blocks \ pool : (\E i \in headIndex .. tailIndex - 1 : b = PlaceOf(i)) \/ (~Boundary(tailIndex) /\ b = tailBlock)
    BY PlacesLeft
  <1>13. Implicit!WalkFrees \cap Implicit!TailFrees = {}
    BY <1>5, <1>7, <1>11, Zenon
  <1>14. Implicit!WalkFrees \cup Implicit!TailFrees \subseteq Blocks \ pool
    <2>1. \A i \in J : PlaceOf(i) \in Blocks \ pool
      BY <1>2, <1>9
    <2> QED BY <1>3, <1>5, <1>7, <2>1, Zenon
  <1>15. \A b \in Blocks \ pool : b \in Implicit!WalkFrees \cup Implicit!TailFrees
    <2> SUFFICES ASSUME NEW b \in Blocks \ pool PROVE b \in Implicit!WalkFrees \cup Implicit!TailFrees
      OBVIOUS
    <2>1. CASE ~Boundary(tailIndex) /\ b = tailBlock
      BY <1>5, <2>1
    <2>2. ASSUME NEW i \in headIndex .. tailIndex - 1, b = PlaceOf(i) PROVE b \in Implicit!WalkFrees \cup Implicit!TailFrees
      <3>1. CASE i \in J
        BY <1>7, <2>2, <3>1, Zenon
      <3>2. CASE i \notin J
        BY <1>5, <1>10, <2>2, <3>2
      <3> QED BY <3>1, <3>2
    <2> QED BY <1>12, <2>1, <2>2
  <1> QED BY <1>13, <1>14, <1>15

LEMMA YTyped == ASSUME YAll PROVE Implicit!TypeOK
  <1>0. CountersInv /\ Walks /\ Outside /\ YIndex /\ YBlocks /\ YCount /\ YCall /\ YCells
    BY DEF YAll, YInv, Walking
  <1>1. tailIndex \in Nat /\ headIndex \in Nat /\ headIndex <= tailIndex /\ limit \in Int /\ tailIndex <= limit
    BY YEnds
  <1>2. limit \in Nat
    BY <1>1
  <1>3. optimistic \in Nat /\ overcommit \in Nat
    <2>1. ClaimInv /\ Bounded
      BY <1>0 DEF CountersInv
    <2>2. headIndex <= optimistic - overcommit /\ optimistic \in Int /\ overcommit \in Int /\ 0 <= overcommit
      BY <2>1, HeadBehindCounters DEF ClaimInv, Bounded
    <2> QED BY <2>2, <1>1
  <1>4. taken \subseteq 0 .. limit - 1
    <2>1. \A i \in Int : i \in taken => 0 <= i /\ i < headIndex
      BY <1>0 DEF Outside
    <2>2. taken \subseteq Int
      BY <1>0 DEF Outside
    <2> QED BY <2>1, <2>2, <1>1, <1>2
  <1>5. pool \subseteq Blocks /\ tailBlock \in Blocks \cup {None} /\ cell \in [Blocks -> [Offsets -> Int \cup {None}]]
    BY <1>0 DEF YBlocks, Housing, YCall, YCells, Celled
  <1>6. count \in [Blocks -> 0 .. BlockSize]
    BY <1>0 DEF YCount, Counted
  <1>7. Stored(headers, key, value, Last, Ents, Housed) /\ Indexed(headers, key, Last, Ents)
    BY <1>0 DEF YIndex, Stored
  <1>8. DOMAIN key = DOMAIN value /\ \A e \in DOMAIN value : value[e] \in Blocks \cup {None}
    BY <1>7 DEF Stored, Indexed
  <1>9. Implicit!Cur.tail \in 0 .. Implicit!Capacity(Implicit!Cur) - 1
    <2>1. HeaderIn(Newest(headers), Len(key))
      BY TailEntry
    <2>2. Newest(headers).tail \in 0 .. Size(Newest(headers)) - 1
      BY <2>1, SizeIs
    <2> QED BY <2>2, EntryAtIs DEF Implicit!Cur, Newest
  <1>10. Implicit!SharedTypeOK
    BY <1>1, <1>2, <1>3, <1>4, <1>5 DEF Implicit!SharedTypeOK, Implicit!Offsets, Offsets
  <1> QED BY <1>6, <1>8, <1>9, <1>10 DEF Implicit!TypeOK

-----------------------------------------------------------------------------
(* ~ExplicitProducer.  Between calls nobody owns a position, so the marks say which cells are empty. *)

\* What a walk of n steps comes to.
Walked(rg, a, n) == LET walk[j \in 0 .. n] == IF j = 0 THEN a ELSE rg[walk[j - 1]] IN {walk[j] : j \in 0 .. n}

LEMMA WalkedIs ==
  ASSUME NEW rg, NEW a, NEW n \in Nat, NEW h, h[0] = a, \A j \in 1 .. n : h[j] = rg[h[j - 1]]
  PROVE  Walked(rg, a, n) = {h[j] : j \in 0 .. n}
  <1>0. PICK w : w = CHOOSE x : x = [j \in 0 .. n |-> IF j = 0 THEN a ELSE rg[x[j - 1]]]
    OBVIOUS
  <1>1. PICK v : v = [j \in 0 .. n |-> h[j]]
    OBVIOUS
  <1>2. v = [j \in 0 .. n |-> IF j = 0 THEN a ELSE rg[v[j - 1]]]
    <2>1. ASSUME NEW j \in 0 .. n PROVE h[j] = IF j = 0 THEN a ELSE rg[v[j - 1]]
      <3>1. CASE j /= 0
        <4>1. j \in 1 .. n /\ j - 1 \in 0 .. n
          BY <3>1
        <4>2. v[j - 1] = h[j - 1]
          BY <1>1, <4>1
        <4> QED BY <3>1, <4>1, <4>2
      <3>2. CASE j = 0
        BY <3>2
      <3> QED BY <3>1, <3>2
    <2> QED BY <1>1, <2>1
  <1>3. w = [j \in 0 .. n |-> IF j = 0 THEN a ELSE rg[w[j - 1]]]
    BY <1>0, <1>2
  <1>4. PICK S \in SUBSET Nat : S = {j \in Nat : j <= n => w[j] = h[j]}
    OBVIOUS
  <1>5. 0 \in S
    BY <1>3, <1>4
  <1>6. ASSUME NEW j \in S PROVE j + 1 \in S
    <2> SUFFICES ASSUME j + 1 <= n PROVE w[j + 1] = h[j + 1]
      BY <1>4
    <2>1. j \in Nat /\ w[j] = h[j]
      BY <1>4
    <2>2. PICK k : k = j + 1 /\ k \in 1 .. n /\ k \in 0 .. n /\ k /= 0 /\ k - 1 = j
      <3>1. PICK i \in Nat : i = j
        BY <2>1
      <3>2. i + 1 <= n /\ i + 1 \in Nat /\ i + 1 >= 1 /\ (i + 1) - 1 = i
        BY <3>1
      <3>3. i + 1 \in 1 .. n /\ i + 1 \in 0 .. n /\ i + 1 /= 0
        BY <3>2
      <3> QED BY <3>1, <3>2, <3>3
    <2>3. w[k] = rg[w[j]]
      BY <1>3, <2>2
    <2>4. h[k] = rg[h[j]]
      BY <2>2
    <2> QED BY <2>1, <2>2, <2>3, <2>4
  <1>7. S = Nat
    BY <1>5, <1>6, Successors
  <1>8. \A j \in 0 .. n : w[j] = h[j]
    BY <1>4, <1>7
  <1>9. Walked(rg, a, n) = {w[j] : j \in 0 .. n}
    BY <1>0 DEF Walked
  <1> QED BY <1>8, <1>9

\* There are no more blocks in use than blocks.
LEMMA InUse == ASSUME XAll PROVE Cardinality(Blocks) \in Nat /\ Made - Oldest <= Cardinality(Blocks)
  <1>1. Cardinality(Blocks) \in Nat
    BY BlocksAssumption, FS_CardinalityType
  <1>2. Made \in Int /\ Oldest \in Int /\ Oldest <= Made
    BY MadeIs
  <1>3. PICK S : S = Oldest .. Made - 1
    OBVIOUS
  <1>4. IsFiniteSet(S) /\ (Oldest < Made => Cardinality(S) = Made - Oldest)
    <2>1. PICK o \in Int, m \in Int : o = Oldest /\ m = Made - 1
      BY <1>2
    <2>2. IsFiniteSet(o .. m) /\ Cardinality(o .. m) = IF o > m THEN 0 ELSE m - o + 1
      BY FS_Interval
    <2> QED BY <1>2, <1>3, <2>1, <2>2
  <1>5. \A q \in S : Homes[q] \in Blocks
    BY <1>3, XTypes DEF XAll, XInv
  <1>6. \A q, r \in S : Homes[q] = Homes[r] => q = r
    BY <1>3, XTypes DEF XAll, XInv
  <1>7. PICK f \in [S -> Blocks] : f = [q \in S |-> Homes[q]]
    BY <1>5
  <1>8. ~(Cardinality(Blocks) < Cardinality(S))
    <2> SUFFICES ASSUME Cardinality(Blocks) < Cardinality(S) PROVE FALSE
      OBVIOUS
    <2>1. PICK q \in S, r \in S : q /= r /\ f[q] = f[r]
      BY <1>4, BlocksAssumption, FS_PigeonHole
    <2> QED BY <1>6, <1>7, <2>1
  <1> QED BY <1>1, <1>2, <1>4, <1>8

\* The walk round the ring from the tail block comes to every block in use and to no other.
LEMMA InRingIs == ASSUME XAll, Oldest < Made PROVE Explicit!InRing = {Homes[q] : q \in Oldest .. Made - 1}
  <1>1. PICK l \in Int, m \in Int, u \in Nat \ {0} : l = Oldest /\ m = Made /\ u = m - l
    <2>1. PICK l \in Int, m \in Int : l = Oldest /\ m = Made
      BY MadeIs
    <2>2. l < m
      BY <2>1
    <2>3. m - l \in Nat \ {0}
      BY <2>2
    <2> QED BY <2>1, <2>3
  <1>2. PICK n \in Nat : n = Cardinality(Blocks) /\ u <= n
    BY <1>1, InUse
  <1>3. Ringed(Homes, l, m, ring, pool, tailBlock)
    BY <1>1 DEF XAll, XInv, XRing
  <1>4. tailBlock = Homes[m - 1] /\ tailBlock /= None
    <2>1. m - 1 \in l .. m - 1 /\ l < m
      BY <1>1
    <2> QED BY <1>3, <2>1, NoneAssumption DEF Ringed
  <1>5. PICK at : at = [j \in Nat |-> IF j = 0 THEN m - 1 ELSE l + ((j - 1) % u)]
    OBVIOUS
  <1>6. at[0] = m - 1 /\ \A j \in Nat \ {0} : at[j] = l + ((j - 1) % u)
    BY <1>5
  <1>7. \A j \in Nat : at[j] \in l .. m - 1
    <2>1. ASSUME NEW j \in Nat \ {0} PROVE at[j] \in l .. m - 1
      <3>1. PICK r : r = (j - 1) % u /\ r \in 0 .. u - 1
        BY Remains
      <3>2. l + r \in l .. m - 1
        BY <1>1, <3>1
      <3> QED BY <1>6, <3>1, <3>2
    <2>2. m - 1 \in l .. m - 1
      BY <1>1
    <2> QED BY <1>6, <2>1, <2>2
  <1>8. PICK h : h = [j \in Nat |-> Homes[at[j]]]
    OBVIOUS
  <1>9. ASSUME NEW j \in 1 .. n PROVE h[j] = ring[h[j - 1]]
    <2>1. j \in Nat \ {0} /\ j - 1 \in Nat
      OBVIOUS
    <2>2. PICK p \in l .. m - 1, q \in l .. m - 1 : p = at[j - 1] /\ q = at[j]
      BY <1>7, <2>1
    <2>3. h[j - 1] = Homes[p] /\ h[j] = Homes[q]
      BY <1>8, <2>1, <2>2
    <2>4. q = IF p = m - 1 THEN l ELSE p + 1
      <3>1. CASE j = 1
        <4>1. (j - 1) % u = 0
          <5>1. PICK z \in Int : z = 0 /\ z \in 0 .. u - 1
            BY <1>1
          <5>2. z % u = z
            BY <5>1, Remains
          <5>3. j - 1 = z
            BY <3>1, <5>1
          <5> QED BY <5>1, <5>2, <5>3
        <4>2. p = m - 1 /\ q = l + 0
          BY <1>6, <2>1, <2>2, <3>1, <4>1
        <4> QED BY <1>1, <4>2
      <3>2. CASE j /= 1
        <4>1. j - 1 \in Nat \ {0} /\ (j - 1) - 1 \in Int /\ ((j - 1) - 1) + 1 = j - 1
          BY <2>1, <3>2
        <4>2. PICK r : r = ((j - 1) - 1) % u /\ r \in 0 .. u - 1
          BY <4>1, Remains
        <4>3. (r + 1) % u = (j - 1) % u
          <5>1. PICK x \in Int : x = (j - 1) - 1
            BY <4>1
          <5>2. PICK y \in Int : y = 1
            OBVIOUS
          <5>3. ((x % u) + y) % u = (x + y) % u
            BY AddRemainder
          <5>4. x + y = j - 1 /\ r = x % u
            BY <4>1, <4>2, <5>1, <5>2
          <5> QED BY <5>2, <5>3, <5>4
        <4>4. p = l + r /\ q = l + ((r + 1) % u)
          <5>1. at[j - 1] = l + (((j - 1) - 1) % u)
            BY <1>6, <4>1
          <5>2. at[j] = l + ((j - 1) % u)
            BY <1>6, <2>1
          <5> QED BY <2>2, <4>2, <4>3, <5>1, <5>2
        <4>5. CASE r + 1 < u
          <5>1. (r + 1) % u = r + 1
            <6>1. PICK y \in Int : y = r + 1 /\ y \in 0 .. u - 1
              BY <4>2, <4>5
            <6>2. y % u = y
              BY <6>1, Remains
            <6> QED BY <6>1, <6>2
          <5> QED BY <1>1, <4>2, <4>4, <4>5, <5>1
        <4>6. CASE r + 1 = u
          <5>1. (r + 1) % u = 0
            <6>1. u % u = 0
              OBVIOUS
            <6> QED BY <4>6, <6>1
          <5>2. q = l + 0
            BY <4>4, <5>1
          <5> QED BY <1>1, <4>2, <4>4, <4>6, <5>2
        <4> QED BY <4>2, <4>5, <4>6
      <3> QED BY <3>1, <3>2
    <2>5. CASE p = m - 1
      <3>1. ring[Homes[m - 1]] = Homes[l]
        BY <1>1, <1>3 DEF Ringed
      <3> QED BY <2>3, <2>4, <2>5, <3>1
    <2>6. CASE p /= m - 1
      <3>1. p + 1 < m /\ q = p + 1
        BY <1>1, <2>4, <2>6
      <3>2. ring[Homes[p]] = Homes[p + 1]
        BY <1>3, <3>1 DEF Ringed
      <3> QED BY <2>3, <3>1, <3>2
    <2> QED BY <2>5, <2>6
  <1>11. Explicit!InRing = Walked(ring, tailBlock, n)
    <2>1. Explicit!Cardinality(Blocks) = n
      <3>1. Explicit!Cardinality(Blocks) = Cardinality(Blocks)
        BY Zenon DEF Explicit!Cardinality, Cardinality
      <3> QED BY <1>2, <3>1
    <2>2. Explicit!InRing = Walked(ring, tailBlock, Explicit!Cardinality(Blocks))
      BY <1>4 DEF Explicit!InRing, Walked
    <2> QED BY <2>1, <2>2
  <1>12. Walked(ring, tailBlock, n) = {h[j] : j \in 0 .. n}
    <2>1. h[0] = tailBlock
      BY <1>4, <1>6, <1>8
    <2> QED BY <1>9, <2>1, WalkedIs
  <1>13. ASSUME NEW j \in 0 .. n PROVE \E q \in l .. m - 1 : h[j] = Homes[q]
    <2>1. PICK q \in l .. m - 1 : q = at[j]
      BY <1>7
    <2>2. h[j] = Homes[q]
      BY <1>8, <2>1
    <2> QED BY <2>2
  <1>14. ASSUME NEW q \in l .. m - 1 PROVE \E j \in 0 .. n : h[j] = Homes[q]
    <2>1. PICK r \in 0 .. u - 1 : r = q - l
      BY <1>1
    <2>2. PICK j \in Nat \ {0} : j = r + 1 /\ j - 1 = r /\ j \in 0 .. n
      BY <1>2, <2>1
    <2>3. r % u = r
      BY Remains
    <2>4. at[j] = q
      <3>1. at[j] = l + r
        BY <1>6, <2>2, <2>3
      <3> QED BY <1>1, <2>1, <3>1
    <2> QED BY <1>8, <2>2, <2>4
  <1>15. {h[j] : j \in 0 .. n} = {Homes[q] : q \in l .. m - 1}
    BY <1>13, <1>14
  <1> QED BY <1>1, <1>11, <1>12, <1>15

\* The entry of a block in use, and where it is.
LEMMA EntryOf ==
  ASSUME XAll, NEW q \in Oldest .. Made - 1, NEW e, e = Newest(indexes).entries[SlotIn(Newest(indexes), Phase, q)]
  PROVE  q \in Int /\ q \in Numbers /\ e.base = First(q) /\ e.block = Homes[q]
  <1>1. PICK x \in Indexes : x = Newest(indexes)
    BY XTypes DEF XAll, XInv
  <1>2. q \in Int /\ Phase \in Int /\ InPhase(x, Phase)
    BY <1>1, XTypes DEF XAll, XInv
  <1>3. PICK s \in 0 .. x.size - 1 : s = SlotIn(x, Phase, q)
    BY <1>1, <1>2, IndexFields
  <1>4. Stands(x.entries[s], q)
    BY <1>1, <1>3 DEF XAll, XInv, XIndex, IndexOK
  <1>5. x.entries[s].block /= None
    BY <1>4, NoneAssumption DEF Stands
  <1>6. q \in Numbers
    BY <1>2, <1>3, <1>4, <1>5, SlotFound
  <1>7. Homes[q] = e.block
    BY <1>1, <1>2, <1>3 DEF Homes, HomeIn
  <1> QED BY <1>1, <1>2, <1>3, <1>4, <1>6, <1>7 DEF Stands

\* The slots from the oldest one on are those of the blocks in use, in their order.
OldSlot(j) == Newest(indexes).entries[(prFront - prUsed + j) % Newest(indexes).size]
IsPast(j) == CircLess(OldSlot(j).base + BlockSize, headIndex)

LEMMA OldSlotIs ==
  ASSUME XAll, NEW j \in Nat, j < prUsed
  PROVE  Oldest + j \in Oldest .. Made - 1 /\ OldSlot(j) = Newest(indexes).entries[SlotIn(Newest(indexes), Phase, Oldest + j)]
  <1>1. PICK l \in Int, u \in Nat, f \in Int : l = Oldest /\ u = prUsed /\ f = prFront
    <2>1. Newest(indexes).size \in Nat /\ prFront \in 0 .. Newest(indexes).size - 1
      BY XTypes, IndexFields DEF XAll, XInv, XIndex
    <2>2. prFront \in Int
      BY <2>1
    <2> QED BY <2>2, MadeIs
  <1>2. Made = l + u
    BY <1>1, MadeIs
  <1>3. Phase = f - (l + u)
    BY <1>1, <1>2 DEF Phase
  <1>4. (f - u) + j = (l + j) + (f - (l + u))
    BY <1>1
  <1>5. OldSlot(j) = Newest(indexes).entries[((f - u) + j) % Newest(indexes).size]
    BY <1>1 DEF OldSlot
  <1>6. SlotIn(Newest(indexes), Phase, l + j) = ((l + j) + (f - (l + u))) % Newest(indexes).size
    BY <1>3 DEF SlotIn
  <1>7. l + j \in l .. (l + u) - 1
    BY <1>1
  <1> QED BY <1>1, <1>2, <1>4, <1>5, <1>6, <1>7

\* The comparison modulo the width of index_t says whether the head is beyond a block.
LEMMA PastIs ==
  ASSUME XAll, NEW j \in Nat, j < prUsed
  PROVE  IsPast(j) <=> First(Oldest + j) + BlockSize < headIndex
  <1>1. PICK q : q = Oldest + j
    OBVIOUS
  <1>2. q \in Numbers /\ OldSlot(j).base = First(q)
    BY <1>1, OldSlotIs, EntryOf
  <1>3. limit \in Int /\ Boundary(Start) /\ headIndex \in Int /\ Start <= headIndex /\ headIndex <= limit /\ Start = limit - MaxPut
    <2>1. Boundary(Start)
      BY DEF XAll, Walking, Walks
    <2>2. headIndex \in Nat /\ tailIndex \in Nat /\ headIndex <= tailIndex /\ tailIndex <= limit /\ limit \in Int
          /\ Start <= headIndex /\ Start = limit - MaxPut
      BY Ends
    <2> QED BY <2>1, <2>2
  <1>4. First(q) \in Int /\ Start - BlockSize <= First(q) /\ First(q) <= limit - 1
    <2>1. limit \in Int /\ Boundary(Start)
      BY <1>3
    <2> QED BY <1>2, <2>1, BasesIn
  <1>5. PICK a \in Int, n \in Nat, p \in Nat, h \in Int, b \in Nat :
           a = First(q) /\ n = MaxPut /\ p = MaxFutile + MaxTake * Cardinality(Consumers) /\ h = W \div 2 /\ b = BlockSize
    <2>1. MaxFutile + MaxTake * Cardinality(Consumers) \in Nat /\ MaxPut \in Nat
      BY BoundNumbers
    <2>2. W \div 2 \in Int /\ BlockSize \in Nat
      BY WAssumption, BlockAssumption
    <2> QED BY <1>4, <2>1, <2>2
  <1>6. n + p + b < h
    BY <1>5, RangeAssumption, BoundNumbers
  <1>7. PICK d \in Int : d = (a + b) - headIndex /\ -h < d /\ d < h
    BY <1>3, <1>4, <1>5, <1>6
  <1>8. InWindow((a + b) - headIndex)
    BY <1>5, <1>7 DEF InWindow
  <1>9. a + b \in Int
    BY <1>5
  <1>10. CircLess(a + b, headIndex) <=> a + b < headIndex
    BY <1>3, <1>8, <1>9, CircLessIs
  <1> QED BY <1>1, <1>2, <1>5, <1>10 DEF IsPast

\* The destructor finds the block the head is in.
LEMMA HalfIs ==
  ASSUME XAll
  PROVE  /\ Boundary(headIndex) => Explicit!HalfDequeued = None
         /\ ~Boundary(headIndex) /\ Number(headIndex) \in Oldest .. Made - 1 => Explicit!HalfDequeued = Homes[Number(headIndex)]
  <1>1. Explicit!HalfDequeued =
          IF Boundary(headIndex) THEN None
          ELSE OldSlot(CHOOSE j \in 0 .. Newest(indexes).size : ~IsPast(j) /\ \A k \in 0 .. j - 1 : IsPast(k)).block
    BY Zenon DEF Explicit!HalfDequeued, Explicit!Cur, Explicit!CircLess, Explicit!Boundary, Boundary, Newest, IsPast, OldSlot, CircLess
  <1> SUFFICES ASSUME ~Boundary(headIndex), NEW q \in Oldest .. Made - 1, q = Number(headIndex)
               PROVE  Explicit!HalfDequeued = Homes[q]
    BY <1>1
  <1>2. PICK l \in Int, u \in Nat, n \in Nat, i \in Nat : l = Oldest /\ u = prUsed /\ n = headIndex /\ i = q - l /\ i < u
    <2>1. PICK l \in Int, u \in Nat, n \in Nat : l = Oldest /\ u = prUsed /\ n = headIndex /\ Made = l + u
      BY MadeIs, Ends
    <2>2. q \in l .. (l + u) - 1
      BY <2>1
    <2>3. q - l \in Nat /\ q - l < u
      BY <2>2
    <2> QED BY <2>1, <2>3
  <1>3. q \in Int /\ q = l + i
    BY <1>2
  <1>4. PICK a \in Int, b \in Nat : a = First(q) /\ b = BlockSize /\ a < n /\ n < a + b
    <2>1. First(q) \in Int /\ First(q) % BlockSize = 0 /\ BlockSize \in Nat
      BY <1>3, FirstNumber, BlockAssumption
    <2>2. First(q) /= n
      BY <1>2, <2>1 DEF Boundary
    <2>3. First(q) <= n /\ n < First(q) + BlockSize
      <3>1. n \in Int /\ q \in Int /\ Number(n) = q
        BY <1>2, <1>3
      <3> QED BY <3>1, NumberIs
    <2>4. First(q) < n
      BY <2>1, <2>2, <2>3
    <2> QED BY <2>1, <2>3, <2>4
  <1>5. ~IsPast(i)
    <2>1. IsPast(i) <=> a + b < n
      BY <1>2, <1>3, <1>4, PastIs
    <2> QED BY <1>4, <2>1
  <1>6. ASSUME NEW k \in 0 .. i - 1 PROVE IsPast(k)
    <2>1. PICK r \in Int : r = l + k /\ r < q /\ k \in Nat /\ k < u
      BY <1>2, <1>3
    <2>2. IsPast(k) <=> First(r) + BlockSize < n
      BY <1>2, <2>1, PastIs
    <2>3. First(r) \in Int /\ First(r) + b <= a
      BY <1>3, <1>4, <2>1, FirstOrder, FirstNumber
    <2> QED BY <1>4, <2>2, <2>3
  <1>7. PICK m \in Nat : m = Newest(indexes).size /\ i \in 0 .. m
    <2>1. Newest(indexes).size \in Nat /\ Made - Oldest <= Newest(indexes).size
      BY XTypes, IndexFields DEF XAll, XInv, XIndex, IndexOK
    <2>2. Made - Oldest = u
      BY <1>2, MadeIs
    <2> QED BY <1>2, <2>1, <2>2
  <1>8. ASSUME NEW j \in 0 .. m, ~IsPast(j), \A k \in 0 .. j - 1 : IsPast(k) PROVE j = i
    <2>1. CASE j < i
      <3>1. j \in 0 .. i - 1
        BY <2>1
      <3> QED BY <1>6, <1>8, <3>1
    <2>2. CASE i < j
      <3>1. i \in 0 .. j - 1
        BY <2>2
      <3> QED BY <1>5, <1>8, <3>1
    <2> QED BY <2>1, <2>2
  <1>9. PICK j : j = CHOOSE x \in 0 .. m : ~IsPast(x) /\ \A k \in 0 .. x - 1 : IsPast(k)
    OBVIOUS
  <1>10. j \in 0 .. m /\ ~IsPast(j) /\ \A k \in 0 .. j - 1 : IsPast(k)
    BY <1>5, <1>6, <1>7, <1>9, Zenon
  <1>11. j = i
    BY <1>8, <1>10
  <1>12. Explicit!HalfDequeued = OldSlot(i).block
    BY <1>1, <1>7, <1>9, <1>11, Zenon
  <1>13. OldSlot(i).block = Homes[q]
    BY <1>2, <1>3, OldSlotIs, EntryOf
  <1> QED BY <1>12, <1>13

\* When no call is in progress the elements left are those between the head and the tail.
LEMMA BetweenCalls ==
  ASSUME XAll, Explicit!Quiet
  PROVE  Made = Begun /\ \A i \in Int : Live(i) <=> headIndex <= i /\ i < tailIndex
  <1>1. prod.at = "idle" /\ \A c \in Consumers : claim[c].at = "idle"
    BY DEF Explicit!Quiet
  <1>2. Top = tailIndex
    <2>1. tailIndex \in Nat
      BY Ends
    <2> QED BY <1>1, <2>1 DEF Top
  <1>3. \A c \in Consumers : Rest(c) = {}
    BY <1>1 DEF Rest
  <1> QED BY <1>1, <1>2, <1>3, MadeIs DEF Live

\* Where the destructor begins in a block with an element left: at the head, or before nothing but elements.
LEMMA LeftFrom ==
  ASSUME XAll, Marked, Explicit!Quiet, NEW q \in Oldest .. Made - 1, ~Explicit!IsEmpty(Homes[q]),
         NEW from, from = IF Homes[q] = Explicit!HalfDequeued THEN headIndex % BlockSize ELSE 0
  PROVE  from \in Offsets /\ \A o \in Offsets : from <= o <=> headIndex <= First(q) + o
  <1>1. PICK n \in Nat, l \in Int, m \in Int, b \in Nat \ {0} : n = headIndex /\ l = Oldest /\ m = Made /\ b = BlockSize
    BY Ends, MadeIs, BlockAssumption
  <1>2. q \in Int /\ l <= q /\ q < m /\ Made = Begun
    BY <1>1, BetweenCalls
  <1>3. PICK h \in Int : h = Number(n) /\ n % BlockSize \in Offsets /\ n = First(h) + (n % BlockSize)
    BY Division
  <1>4. Offsets = 0 .. b - 1
    BY <1>1 DEF Offsets
  <1>5. h <= q
    <2>1. flags[Homes[q]] \subseteq Offsets
      <3>1. Homes[q] \in Blocks
        BY XTypes DEF XAll, XInv
      <3>2. flags \in [Blocks -> SUBSET Offsets]
        BY DEF XAll, XInv, XCells
      <3> QED BY <3>1, <3>2
    <2>2. PICK o \in Offsets : o \notin flags[Homes[q]]
      BY <2>1 DEF Explicit!IsEmpty, Explicit!Offsets, Offsets
    <2>3. q \in Oldest .. Begun - 1
      BY <1>2
    <2>4. ~(First(q) + o < headIndex /\ ~Live(First(q) + o))
      BY <2>2, <2>3 DEF Marked
    <2>5. PICK x \in Int : x = First(q) + o /\ Number(x) = q
      BY <1>2, Placed
    <2>6. n <= x
      BY <1>1, <2>4, <2>5, BetweenCalls
    <2> QED BY <1>3, <2>5, <2>6, NumberOrder
  <1>6. PICK fq \in Int, fh \in Int : fq = First(q) /\ fh = First(h) /\ (h < q => fh + b <= fq)
    BY <1>1, <1>2, <1>3, FirstNumber, FirstOrder
  <1>7. CASE Boundary(headIndex)
    <2>1. from = 0
      <3>1. Homes[q] \in Blocks
        BY XTypes DEF XAll, XInv
      <3> QED BY <1>1, <1>7, <3>1, HalfIs, NoneAssumption DEF Boundary
    <2>2. n <= fq
      <3>1. n = fh
        BY <1>1, <1>3, <1>6, <1>7 DEF Boundary
      <3> QED BY <1>2, <1>5, <1>6, <3>1
    <2> QED BY <1>1, <1>4, <1>6, <2>1, <2>2
  <1>8. CASE ~Boundary(headIndex)
    <2>1. h \in Oldest .. Made - 1
      <3>1. CASE headIndex < tailIndex
        <4>1. Live(headIndex)
          BY <1>1, <3>1, BetweenCalls
        <4> QED BY <1>1, <1>3, <4>1 DEF XAll, XInv, XCells
      <3>2. CASE ~(headIndex < tailIndex)
        <4>1. tailIndex = n
          BY <1>1, <3>2, Ends
        <4>2. l <= h /\ Made = h + 1
          BY <1>1, <1>2, <1>3, <1>8, <4>1, MadeIs
        <4> QED BY <1>1, <1>3, <4>2
      <3> QED BY <3>1, <3>2
    <2>2. Explicit!HalfDequeued = Homes[h]
      BY <1>1, <1>3, <1>8, <2>1, HalfIs
    <2>3. CASE q = h
      <3>1. from = n % BlockSize
        BY <1>1, <2>2, <2>3
      <3>2. PICK r \in Int : r = n % BlockSize
        BY <1>3, <1>4
      <3> QED BY <1>3, <1>4, <1>6, <1>1, <2>3, <3>1, <3>2
    <2>4. CASE q /= h
      <3>1. Homes[q] /= Homes[h]
        BY <2>1, <2>4, XTypes DEF XAll, XInv
      <3>2. from = 0
        BY <2>2, <3>1
      <3>3. n < fq
        <4>1. n < fh + b
          BY <1>1, <1>3, <1>6, NumberIs
        <4> QED BY <1>2, <1>3, <1>5, <1>6, <2>4, <4>1
      <3> QED BY <1>1, <1>4, <1>6, <3>2, <3>3
    <2> QED BY <2>3, <2>4
  <1> QED BY <1>7, <1>8

\* And where it ends: at the tail, or with the block.
LEMMA LeftTo ==
  ASSUME XAll, Explicit!Quiet, NEW q \in Oldest .. Made - 1,
         NEW to, to = IF Homes[q] = tailBlock /\ ~Boundary(tailIndex) THEN tailIndex % BlockSize ELSE BlockSize
  PROVE  to \in 0 .. BlockSize /\ \A o \in Offsets : o < to <=> First(q) + o < tailIndex
  <1>1. PICK n \in Nat, m \in Int, b \in Nat \ {0} : n = tailIndex /\ m = Made /\ b = BlockSize
    BY Ends, MadeIs, BlockAssumption
  <1>2. q \in Int /\ q < m /\ Made = Begun /\ q <= m - 1 /\ m - 1 \in Oldest .. Made - 1
    <2>1. PICK l \in Int : l = Oldest
      BY MadeIs
    <2> QED BY <1>1, <2>1, BetweenCalls
  <1>3. PICK h \in Int : h = Number(n) /\ n % BlockSize \in Offsets /\ n = First(h) + (n % BlockSize)
    BY Division
  <1>4. Offsets = 0 .. b - 1
    BY <1>1 DEF Offsets
  <1>5. tailBlock = Homes[m - 1]
    <2>1. Oldest < Made
      <3>1. PICK l \in Int : l = Oldest
        BY MadeIs
      <3> QED BY <1>1, <1>2, <3>1
    <2> QED BY <1>1, <2>1 DEF XAll, XInv, XRing, Ringed
  <1>6. PICK fq \in Int, fh \in Int : fq = First(q) /\ fh = First(h) /\ (q < h => fq + b <= fh)
    BY <1>1, <1>2, <1>3, FirstNumber, FirstOrder
  <1>7. fh <= n
    BY <1>3, <1>6, NumberIs
  <1>8. CASE q < h
    <2>1. to = b
      <3>1. ~Boundary(tailIndex) => m - 1 = h
        BY <1>1, <1>2, <1>3, MadeIs
      <3>2. q /= m - 1 => Homes[q] /= Homes[m - 1]
        BY <1>2, XTypes DEF XAll, XInv
      <3>3. ~(Homes[q] = tailBlock /\ ~Boundary(tailIndex))
        BY <1>5, <1>8, <3>1, <3>2
      <3> QED BY <1>1, <3>3
    <2>2. fq + b <= n
      BY <1>6, <1>7, <1>8
    <2>3. \A o \in 0 .. b - 1 : o < b /\ fq + o < n
      BY <1>6, <2>2
    <2>4. b \in 0 .. b
      BY <1>1
    <2> QED BY <1>1, <1>4, <1>6, <2>1, <2>3, <2>4
  <1>9. CASE ~(q < h)
    <2>1. ~Boundary(tailIndex) /\ m - 1 = h
      BY <1>1, <1>2, <1>3, <1>9, MadeIs
    <2>2. q = h
      BY <1>2, <1>9, <2>1
    <2>3. to = n % BlockSize
      BY <1>1, <1>5, <2>1, <2>2
    <2>4. PICK r \in 0 .. b - 1 : r = n % BlockSize /\ n = fq + r
      BY <1>3, <1>4, <1>6, <2>2
    <2>5. r \in 0 .. b /\ \A o \in 0 .. b - 1 : o < r <=> fq + o < n
      BY <1>6, <2>4
    <2> QED BY <1>1, <1>4, <1>6, <2>3, <2>4, <2>5
  <1> QED BY <1>8, <1>9

\* So the destructor destroys the elements left, each one, and nothing else.
LEMMA XDestroys == ASSUME XAll, Marked PROVE Explicit!DestroysWhatIsLeft
  <1> SUFFICES ASSUME Explicit!Quiet PROVE Explicit!Destroyed = headIndex .. tailIndex - 1
    BY DEF Explicit!DestroysWhatIsLeft
  <1>1. /\ tailIndex \in Nat /\ headIndex \in Nat /\ Made \in Int /\ Oldest \in Int /\ Oldest <= Made /\ Made = Begun
        /\ \A i \in Int : Live(i) <=> headIndex <= i /\ i < tailIndex
    BY Ends, MadeIs, BetweenCalls
  <1>2. \A i \in Int : Live(i) => Number(i) \in Oldest .. Made - 1 /\ cell[Homes[Number(i)]][i % BlockSize] = i
    BY DEF XAll, XInv, XCells
  <1>3. BlockSize \in Nat /\ Explicit!Boundary(tailIndex) = Boundary(tailIndex) /\ Offsets = 0 .. BlockSize - 1
    BY BlockAssumption DEF Explicit!Boundary, Boundary, Offsets
  <1>4. ASSUME NEW v \in Explicit!Destroyed PROVE v \in headIndex .. tailIndex - 1
    <2>1. PICK b \in Explicit!InRing : ~Explicit!IsEmpty(b) /\ v \in Explicit!DestroyedIn(b)
      BY <1>4 DEF Explicit!Destroyed
    <2>2. Oldest < Made
      <3>1. CASE Oldest = Made
        <4>1. tailBlock = None
          BY <1>1, <3>1 DEF XAll, XInv, XRing, Ringed
        <4> QED BY <2>1, <4>1 DEF Explicit!InRing
      <3> QED BY <1>1, <3>1
    <2>3. PICK q \in Oldest .. Made - 1 : b = Homes[q]
      BY <2>1, <2>2, InRingIs
    <2>4. PICK from, to : /\ from = IF b = Explicit!HalfDequeued THEN headIndex % BlockSize ELSE 0
                          /\ to = IF b = tailBlock /\ ~Boundary(tailIndex) THEN tailIndex % BlockSize ELSE BlockSize
      OBVIOUS
    <2>5. PICK o \in from .. to - 1 : v = cell[b][o]
      BY <1>3, <2>1, <2>4 DEF Explicit!DestroyedIn
    <2>6. from \in Offsets /\ \A x \in Offsets : from <= x <=> headIndex <= First(q) + x
      BY <2>1, <2>3, <2>4, LeftFrom
    <2>7. to \in 0 .. BlockSize /\ \A x \in Offsets : x < to <=> First(q) + x < tailIndex
      BY <2>3, <2>4, LeftTo
    <2>8. o \in Offsets /\ from <= o /\ o < to
      BY <1>3, <2>5, <2>6, <2>7
    <2>9. PICK i \in Int : i = First(q) + o /\ Number(i) = q /\ i % BlockSize = o
      BY <1>1, <2>8, Placed
    <2>10. headIndex <= i /\ i < tailIndex
      BY <2>6, <2>7, <2>8, <2>9
    <2>11. v = i
      BY <1>1, <1>2, <2>3, <2>5, <2>9, <2>10
    <2> QED BY <1>1, <2>10, <2>11
  <1>5. ASSUME NEW v \in headIndex .. tailIndex - 1 PROVE v \in Explicit!Destroyed
    <2>1. v \in Int /\ headIndex <= v /\ v < tailIndex /\ Live(v)
      BY <1>1
    <2>2. PICK q \in Oldest .. Made - 1, o \in Offsets : q = Number(v) /\ o = v % BlockSize /\ v = First(q) + o /\ v = cell[Homes[q]][o]
      BY <1>2, <2>1, Division
    <2>3. ~Explicit!IsEmpty(Homes[q])
      <3>1. q < Begun
        BY <1>1, <2>2
      <3>2. o \notin flags[Homes[q]]
        BY <2>1, <2>2, <3>1 DEF XAll, XInv, XCells
      <3> QED BY <3>2 DEF Explicit!IsEmpty, Explicit!Offsets, Offsets
    <2>4. Homes[q] \in Explicit!InRing
      <3>1. Oldest < Made
        BY <1>1, <2>2
      <3> QED BY <3>1, InRingIs
    <2>5. PICK from, to : /\ from = IF Homes[q] = Explicit!HalfDequeued THEN headIndex % BlockSize ELSE 0
                          /\ to = IF Homes[q] = tailBlock /\ ~Boundary(tailIndex) THEN tailIndex % BlockSize ELSE BlockSize
      OBVIOUS
    <2>6. from \in Offsets /\ from <= o
      <3>1. from \in Offsets /\ \A x \in Offsets : from <= x <=> headIndex <= First(q) + x
        BY <2>3, <2>5, LeftFrom
      <3> QED BY <2>1, <2>2, <3>1
    <2>7. to \in 0 .. BlockSize /\ o < to
      <3>1. to \in 0 .. BlockSize /\ \A x \in Offsets : x < to <=> First(q) + x < tailIndex
        BY <2>5, LeftTo
      <3> QED BY <2>1, <2>2, <3>1
    <2>8. o \in from .. to - 1
      BY <1>3, <2>6, <2>7
    <2>9. v \in Explicit!DestroyedIn(Homes[q])
      BY <1>3, <2>2, <2>5, <2>8 DEF Explicit!DestroyedIn
    <2> QED BY <2>3, <2>4, <2>9 DEF Explicit!Destroyed
  <1> QED BY <1>4, <1>5

\* The block index leads to every element that is still in the queue.
LEMMA XLeads == ASSUME XAll PROVE Explicit!IndexLeadsToElement
  <1>0. CountersInv /\ Walks /\ Outside /\ XIndex /\ XRing /\ XCall /\ XCells
    BY DEF XAll, XInv, Walking
  <1>1. PICK x : x = Newest(indexes)
    OBVIOUS
  <1>2. /\ x \in Indexes /\ InPhase(x, Phase) /\ Phase \in Int /\ Homes \in [Int -> Blocks \cup {None}] /\ limit \in Int
        /\ Boundary(Start) /\ Explicit!Cur = x
    BY <1>0, <1>1, XTypes DEF Walks, Explicit!Cur, Newest
  <1>3. SUFFICES ASSUME NEW i \in Explicit!Unmoved
                 PROVE  LET b == Explicit!Cur.entries[Explicit!SlotOf(i, Explicit!Cur, Explicit!Cur.front)].block
                        IN  b /= None /\ cell[b][i % BlockSize] = i
    BY DEF Explicit!IndexLeadsToElement
  <1>4. tailIndex \in Nat /\ headIndex \in Nat /\ prod.n \in Nat
    BY Ends
  <1>5. i \in Int /\ 0 <= i /\ i < tailIndex /\ i \notin taken
    BY <1>4 DEF Explicit!Unmoved
  <1>6. Live(i)
    <2>1. CASE headIndex <= i
      BY <2>1, <1>4, <1>5 DEF Live, Top
    <2>2. CASE i < headIndex
      <3>1. PICK c \in Consumers : i \in Owes(c)
        BY <2>2, <1>0, <1>5 DEF Outside
      <3>2. i \in Rest(c)
        BY <3>1, <1>0, RestIs
      <3> QED BY <3>2 DEF Live
    <2> QED BY <2>1, <2>2, <1>4, <1>5
  <1>7. Number(i) \in Oldest .. Made - 1 /\ cell[Homes[Number(i)]][i % BlockSize] = i
    BY <1>0, <1>5, <1>6 DEF XCells
  <1>8. PICK q : q = Number(i)
    OBVIOUS
  <1>9. q \in Int /\ q \in Oldest .. Made - 1
    BY <1>5, <1>7, <1>8, Division
  <1>10. PICK s : s = SlotIn(x, Phase, q)
    OBVIOUS
  <1>11. s \in 0 .. x.size - 1 /\ x.front \in 0 .. x.size - 1
    BY <1>2, <1>9, <1>10, IndexFields
  <1>12. Stands(x.entries[s], q)
    BY <1>0, <1>1, <1>9, <1>10 DEF XIndex, IndexOK
  <1>13. x.entries[x.front].block /= None
    BY <1>0, <1>1, <1>4, <1>5 DEF XIndex
  <1>14. Explicit!SlotOf(i, x, x.front) = s
    BY <1>2, <1>5, <1>8, <1>11, <1>12, <1>13, SlotOfIs
  <1>15. x.entries[s].block = Homes[q] /\ x.entries[s].block \in Blocks
    BY <1>1, <1>9, <1>10, <1>12 DEF Homes, HomeIn, Stands
  <1> QED BY <1>2, <1>7, <1>8, <1>14, <1>15, NoneAssumption

LEMMA XTyped == ASSUME XAll PROVE Explicit!TypeOK
  <1>0. CountersInv /\ Walks /\ Outside /\ XIndex /\ XRing /\ XCall /\ XCells
    BY DEF XAll, XInv, Walking
  <1>1. tailIndex \in Nat /\ headIndex \in Nat /\ headIndex <= tailIndex /\ limit \in Int /\ tailIndex <= limit
    BY Ends
  <1>2. limit \in Nat
    BY <1>1
  <1>3. optimistic \in Nat /\ overcommit \in Nat
    <2>1. ClaimInv /\ Bounded
      BY <1>0 DEF CountersInv
    <2>2. headIndex <= optimistic - overcommit /\ optimistic \in Int /\ overcommit \in Int /\ 0 <= overcommit
      BY <2>1, HeadBehindCounters DEF ClaimInv, Bounded
    <2> QED BY <2>2, <1>1
  <1>4. taken \subseteq 0 .. limit - 1
    <2>1. \A i \in Int : i \in taken => 0 <= i /\ i < headIndex
      BY <1>0 DEF Outside
    <2>2. taken \subseteq Int
      BY <1>0 DEF Outside
    <2> QED BY <2>1, <2>2, <1>1, <1>2
  <1>5. /\ Made \in Int /\ Oldest \in Int /\ \A q \in Oldest .. Made - 1 : Homes[q] \in Blocks \ pool
    BY <1>0, XTypes
  <1>6. /\ ring \in [Blocks -> Blocks \cup {None}] /\ pool \subseteq Blocks
        /\ tailBlock = IF Oldest < Made THEN Homes[Made - 1] ELSE None
    BY <1>0 DEF XRing, Ringed
  <1>7. tailBlock \in Blocks \cup {None} /\ tailBlock \notin pool
    <2>1. CASE Oldest < Made
      BY <2>1, <1>5, <1>6
    <2>2. CASE ~(Oldest < Made)
      BY <2>2, <1>6, NoneAssumption
    <2> QED BY <2>1, <2>2
  <1>8. cell \in [Blocks -> [Offsets -> Int \cup {None}]] /\ flags \in [Blocks -> SUBSET Offsets]
    BY <1>0 DEF XCells
  <1>9. prFront \in 0 .. Explicit!Cur.size - 1 /\ prUsed \in 0 .. Explicit!Cur.size
    <2>1. PICK m : m = Newest(indexes).size
      OBVIOUS
    <2>2. prUsed \in Nat /\ prFront \in 0 .. m - 1 /\ Made - Oldest <= m
      BY <1>0, <2>1 DEF XIndex, IndexOK
    <2>3. Made - Oldest = prUsed
      <3>1. Made = Oldest + prUsed
        BY MadeIs
      <3>2. PICK o, n : o \in Int /\ n \in Int /\ Oldest = o /\ Made = n
        BY <1>5
      <3> QED BY <3>1, <3>2, <2>2
    <2>4. m \in Nat
      <3>1. Newest(indexes) \in Indexes
        BY <1>0, XTypes
      <3> QED BY <2>1, <3>1, IndexFields
    <2> QED BY <2>1, <2>2, <2>3, <2>4 DEF Explicit!Cur, Newest
  <1>10. Explicit!SharedTypeOK
    BY <1>1, <1>2, <1>3, <1>4, <1>6, <1>7, <1>8 DEF Explicit!SharedTypeOK, Explicit!Offsets, Offsets
  <1> QED BY <1>6, <1>7, <1>8, <1>9, <1>10 DEF Explicit!TypeOK, Explicit!Offsets, Offsets

-----------------------------------------------------------------------------
(* What holds of either kind of queue. *)

\* Whichever kind of producer, its queue gives its elements out in order, each once, each the very one
\* asked for, in every interleaving of the producer and its bulks with any number of consumers: every
\* block, cell, entry and slot of an index, old or new, that is used again is one whose elements are out
\* (the contract of dequeue and dequeue_bulk).  An implicit producer's calls may fail in all their ways,
\* an explicit one's only for want of a block or an index before they took a block: its constructors that throw and its
\* bulks that fail half-way are not in MCQueues.
THEOREM QueuesImplementSubQueue == Spec => ImplementsSubQueue
  <1>1. Init => SubQ!Init
    <2> SUFFICES ASSUME Init PROVE SubQ!Init
      OBVIOUS
    <2>1. CountersInv
      BY CountersBegin
    <2>2. Explicit!Init \/ Implicit!Init
      BY DEF Init
    <2> QED BY <2>1, <2>2, XInitially, YInitially
  <1>2. CountersInv' /\ (isExplicit => XAll) /\ (~isExplicit => YAll) /\ [Next]_vars => [SubQ!Next]_(SubQ!subQueueVars)
    <2> SUFFICES ASSUME CountersInv', isExplicit => XAll, ~isExplicit => YAll, [Next]_vars PROVE [SubQ!Next]_(SubQ!subQueueVars)
      OBVIOUS
    <2>1. CASE isExplicit
      BY <2>1, XStep
    <2>2. CASE ~isExplicit
      BY <2>2, YStep
    <2> QED BY <2>1, <2>2
  <1> QED BY <1>1, <1>2, ExplicitInvariant, ImplicitInvariant, PTL DEF Spec, ImplementsSubQueue, SubQ!Spec

\* Every variable of either kind of queue keeps its type: no counter is negative, what is out was put
\* before the limit, no block's count of dequeued elements exceeds its size, and no tail or front of
\* an index runs off it.
THEOREM TypesKept == Spec => []TypeOK
  <1>1. (isExplicit => XAll) /\ (~isExplicit => YAll) => TypeOK
    BY XTyped, YTyped DEF TypeOK
  <1> QED BY <1>1, ExplicitInvariant, ImplicitInvariant, PTL

\* The newest block index leads to every element still in the queue: by the distance in blocks from
\* the front slot or from the key at the tail, whose comparison is modulo the width of index_t
\* (get_block_index_index_for_index), however often slots and entries were used again, the index
\* grew and shared its entries, and an implicit producer's calls took back what they had inserted.
THEOREM IndexLeads == Spec => []IndexLeadsToElement
  <1>1. (isExplicit => XAll) /\ (~isExplicit => YAll) => IndexLeadsToElement
    BY XLeads, YLeads DEF IndexLeadsToElement
  <1> QED BY <1>1, ExplicitInvariant, ImplicitInvariant, PTL

\* An implicit producer loses no block and has none twice: whatever is not in the pool is in one
\* entry, and between calls it is a block of elements left or the one being filled, though consumers
\* unlink blocks while the producer takes and gives back others.
THEOREM BlocksAreAccounted == Spec => []BlocksAccounted
  <1>1. (~isExplicit => YAll) => BlocksAccounted
    BY YAccounted DEF BlocksAccounted
  <1> QED BY <1>1, ImplicitInvariant, PTL

\* Both destructors clean up, whenever no call is in progress.  ~ExplicitProducer destroys each element
\* left and nothing else: its walk round the ring passes every block in use, it knows by the emptyFlags
\* which of them still hold elements, and begins and ends within a block where the head and the tail
\* are.  ~ImplicitProducer gives every block the queue still has back once, none of them twice: those
\* its walk from the head leaves behind, and the last one.
THEOREM DestructorsCleanUp == Spec => []DestructorCleansUp
  <1>1. (isExplicit => XAll /\ Marked) /\ (~isExplicit => YAll) => DestructorCleansUp
    BY XDestroys, YFreesAll DEF DestructorCleansUp
  <1> QED BY <1>1, ExplicitInvariant, ImplicitInvariant, PTL
=============================================================================
