---------------------------- MODULE TxMetaProofs ----------------------------
(***************************************************************************)
(* Theorems about TxMetaStore, for every set of hashes, every capacity and *)
(* every time to live.  What makes the five properties inductive is that   *)
(* the queue is sorted by the Instants of its pairs.                       *)
(***************************************************************************)
EXTENDS TxMetaStore, FiniteSetTheorems, SequenceTheorems, WellFoundedInduction, TLAPS

\* The pairs of a queue are in the order of their Instants.
Sorted(q) == \A i, j \in DOMAIN q : i < j => q[i].at < q[j].at

Queued(m, q) == \A h \in Present(m) : \E i \in DOMAIN q : q[i].hash = h /\ Live(m, q[i])

OrderInv == Sorted(order) /\ \A i \in DOMAIN order : order[i].at <= clock

IInv == TypeOK /\ OrderInv /\ EveryEntryQueued /\ WithinCap /\ QueueIsRecent /\ swept <= clock

-----------------------------------------------------------------------------
(* The two loops of evict stop *)

\* A set of naturals has a least element.
LEMMA LeastNatural ==
  ASSUME NEW T, T \subseteq Nat, T # {}
  PROVE  \E n \in T : \A k \in T : n <= k
<1>1. \E n \in T : \A k \in T : ~(<<k, n>> \in OpToRel(<, Nat))
  BY WFMin, NatLessThanWellFounded
<1>2. PICK n \in T : \A k \in T : ~(<<k, n>> \in OpToRel(<, Nat))
  BY <1>1
<1>3. ASSUME NEW k \in T PROVE n <= k
  <2>1. <<k, n>> \notin {ss \in Nat \X Nat : ss[1] < ss[2]}
    BY <1>2 DEF OpToRel
  <2>2. QED
    BY <2>1
<1>4. QED
  BY <1>2, <1>3

\* Loop 1 stops at a live, unexpired pair or at the end of the queue.
LEMMA SweepStops ==
  ASSUME NEW m, NEW q \in Seq(Pair), NEW now
  PROVE  LET n == SweepStop(m, q, now)
         IN /\ n \in 0..Len(q)
            /\ \A i \in 1..n : ~Live(m, q[i]) \/ Expired(q[i], now)
            /\ n < Len(q) => Live(m, q[n + 1]) /\ ~Expired(q[n + 1], now)
<1> DEFINE T == {n \in 0..Len(q) : n < Len(q) => Live(m, q[n + 1]) /\ ~Expired(q[n + 1], now)}
<1>1. T \subseteq Nat /\ Len(q) \in T
  BY LenProperties
<1>2. PICK n \in T : \A k \in T : n <= k
  BY <1>1, LeastNatural
<1>3. ASSUME NEW i \in 1..n PROVE ~Live(m, q[i]) \/ Expired(q[i], now)
  <2>1. n \in 0..Len(q) /\ Len(q) \in Nat
    BY LenProperties
  <2>2. i - 1 \in 0..Len(q) /\ i - 1 < Len(q) /\ ~(n <= i - 1) /\ (i - 1) + 1 = i
    BY <2>1
  <2>3. i - 1 \notin T
    BY <1>2, <2>2
  <2>4. QED
    BY <2>2, <2>3
<1>4. QED
  BY <1>2, <1>3 DEF SweepStop

\* Loop 2 stops with the map within the cap or at the end of the queue.
LEMMA TrimStops ==
  ASSUME NEW m, NEW q \in Seq(Pair), NEW from \in 0..Len(q)
  PROVE  LET n == TrimStop(m, q, from)
         IN /\ n \in from..Len(q)
            /\ \A i \in from..(n - 1) : Cardinality(Present(Popped(m, q, i))) > Cap
            /\ n < Len(q) => Cardinality(Present(Popped(m, q, n))) <= Cap
<1> DEFINE T == {n \in from..Len(q) :
                   n < Len(q) => ~(Cardinality(Present(Popped(m, q, n))) > Cap)}
<1>0. Len(q) \in Nat
  BY LenProperties
<1>1. T \subseteq Nat /\ Len(q) \in T
  BY <1>0
<1>2. PICK n \in T : \A k \in T : n <= k
  BY <1>1, LeastNatural
<1>3. ASSUME NEW i \in from..(n - 1) PROVE Cardinality(Present(Popped(m, q, i))) > Cap
  BY <1>0, <1>1, <1>2
<1>4. ASSUME NEW i \in Nat
      PROVE  Cardinality(Present(Popped(m, q, i))) \in Nat
  <2>1. Present(Popped(m, q, i)) \subseteq Hash
    BY DEF Present
  <2>2. QED
    BY <2>1, StoreAssumption, FS_Subset, FS_CardinalityType
<1>5. n < Len(q) => Cardinality(Present(Popped(m, q, n))) <= Cap
  BY <1>0, <1>1, <1>2, <1>4, StoreAssumption
<1>6. QED
  BY <1>2, <1>3, <1>5 DEF TrimStop

-----------------------------------------------------------------------------
(* What evict makes of a map and a queue *)

Stop(m, q, now) == TrimStop(m, q, SweepStop(m, q, now))

\* A popped queue keeps its order, and its pairs are pairs of the old one.
LEMMA Rest ==
  ASSUME NEW q \in Seq(Pair), NEW n \in 0..Len(q)
  PROVE  LET r == SubSeq(q, n + 1, Len(q))
         IN /\ r \in Seq(Pair)
            /\ Len(r) = Len(q) - n
            /\ \A i \in DOMAIN r : i + n \in DOMAIN q /\ r[i] = q[i + n]
            /\ \A i \in (n + 1)..Len(q) : i - n \in DOMAIN r /\ r[i - n] = q[i]
            /\ Sorted(q) => Sorted(r)
<1> DEFINE r == SubSeq(q, n + 1, Len(q))
<1>1. Len(q) \in Nat /\ DOMAIN q = 1..Len(q) /\ \A i \in 1..Len(q) : q[i] \in Pair
  BY LenProperties, ElementOfSeq
<1>2. \A i \in (n + 1)..Len(q) : q[i] \in Pair
  BY <1>1
<1>3. n + 1 \in Int /\ Len(q) \in Int
  BY <1>1
<1>4. /\ r \in Seq(Pair)
      /\ Len(r) = IF n + 1 <= Len(q) THEN Len(q) - (n + 1) + 1 ELSE 0
      /\ \A i \in 1..(Len(q) - (n + 1) + 1) : r[i] = q[(n + 1) + i - 1]
  BY <1>2, <1>3, SubSeqProperties
<1> HIDE DEF r
<1>5. /\ Len(r) = Len(q) - n
      /\ DOMAIN r = 1..(Len(q) - n)
      /\ \A i \in 1..(Len(q) - n) : r[i] = q[i + n]
  <2>1. Len(r) = Len(q) - n
    <3>1. Len(r) = IF n + 1 <= Len(q) THEN Len(q) - (n + 1) + 1 ELSE 0
      BY <1>4
    <3>2. n \in Nat /\ Len(q) \in Nat /\ n <= Len(q)
      BY <1>1
    <3>3. (IF n + 1 <= Len(q) THEN Len(q) - (n + 1) + 1 ELSE 0) = Len(q) - n
      BY <3>2
    <3>4. QED
      BY <3>1, <3>3
  <2>2. DOMAIN r = 1..(Len(q) - n)
    BY <1>4, <2>1, LenProperties
  <2>3. ASSUME NEW i \in 1..(Len(q) - n) PROVE r[i] = q[i + n]
    <3>1. i \in 1..(Len(q) - (n + 1) + 1) /\ (n + 1) + i - 1 = i + n
      BY <1>1
    <3>2. QED
      BY <1>4, <3>1
  <2>4. QED
    BY <2>1, <2>2, <2>3
<1>6. \A i \in DOMAIN r : i + n \in DOMAIN q /\ r[i] = q[i + n]
  BY <1>1, <1>5
<1>7. ASSUME NEW i \in (n + 1)..Len(q) PROVE i - n \in DOMAIN r /\ r[i - n] = q[i]
  <2>1. i - n \in 1..(Len(q) - n) /\ (i - n) + n = i
    BY <1>1
  <2>2. QED
    BY <1>5, <2>1
<1>8. ASSUME Sorted(q) PROVE Sorted(r)
  <2>1. SUFFICES ASSUME NEW i \in DOMAIN r, NEW j \in DOMAIN r, i < j PROVE r[i].at < r[j].at
    BY DEF Sorted
  <2>2. i + n < j + n
    BY <1>1, <1>5, <2>1
  <2>3. QED
    BY <1>6, <1>8, <2>1, <2>2 DEF Sorted
<1>9. QED
  BY <1>4, <1>5, <1>6, <1>7, <1>8 DEF r

\* Popping keeps entries and pairs together: an entry that stays has its pair
\* in the rest of the queue, and no entry is left when the queue is empty.
LEMMA PoppedIsQueued ==
  ASSUME NEW m \in [Hash -> Entry \cup {Absent}], NEW q \in Seq(Pair), NEW n \in 0..Len(q),
         Queued(m, q)
  PROVE  /\ Popped(m, q, n) \in [Hash -> Entry \cup {Absent}]
         /\ Queued(Popped(m, q, n), SubSeq(q, n + 1, Len(q)))
         /\ n = Len(q) => Present(Popped(m, q, n)) = {}
<1> DEFINE p == Popped(m, q, n)
           r == SubSeq(q, n + 1, Len(q))
<1>0. Len(q) \in Nat /\ DOMAIN q = 1..Len(q) /\ \A i \in 1..Len(q) : q[i] \in Pair
  BY LenProperties, ElementOfSeq
<1>1. p \in [Hash -> Entry \cup {Absent}]
  BY DEF Popped
<1>2. ASSUME NEW h \in Present(p)
      PROVE  \E i \in (n + 1)..Len(q) : q[i].hash = h /\ Live(p, q[i])
  <2>1. h \in Hash /\ p[h] = m[h] /\ m[h] # Absent /\ ~\E i \in 1..n : q[i].hash = h /\ Live(m, q[i])
    BY DEF Present, Popped
  <2>2. PICK i \in DOMAIN q : q[i].hash = h /\ Live(m, q[i])
    BY <2>1 DEF Queued, Present
  <2>3. i \in (n + 1)..Len(q)
    BY <1>0, <2>1, <2>2
  <2>4. Live(p, q[i])
    BY <2>1, <2>2 DEF Live
  <2>5. QED
    BY <2>2, <2>3, <2>4
<1>3. Queued(p, r)
  <2>1. \A i \in (n + 1)..Len(q) : i - n \in DOMAIN r /\ r[i - n] = q[i]
    BY Rest
  <2> HIDE DEF p, r
  <2>2. ASSUME NEW h \in Present(p)
        PROVE  \E i \in DOMAIN r : r[i].hash = h /\ Live(p, r[i])
    <3>1. PICK i \in (n + 1)..Len(q) : q[i].hash = h /\ Live(p, q[i])
      BY <1>2
    <3>2. i - n \in DOMAIN r /\ r[i - n] = q[i]
      BY <2>1
    <3>3. QED
      BY <3>1, <3>2
  <2>3. QED
    BY <2>2 DEF Queued
<1>4. n = Len(q) => Present(p) = {}
  BY <1>0, <1>2 DEF Present
<1>5. QED
  BY <1>1, <1>3, <1>4

\* evict leaves a map within the cap and a queue of recent pairs.
LEMMA EvictBounds ==
  ASSUME NEW m \in [Hash -> Entry \cup {Absent}], NEW q \in Seq(Pair), NEW now \in Nat,
         Queued(m, q), Sorted(q)
  PROVE  LET n == Stop(m, q, now)
         IN /\ n \in 0..Len(q)
            /\ Cardinality(Present(Popped(m, q, n))) <= Cap
            /\ \A i \in (n + 1)..Len(q) : now - q[i].at < Ttl
<1> DEFINE s == SweepStop(m, q, now)
           n == Stop(m, q, now)
<1>0. Len(q) \in Nat /\ DOMAIN q = 1..Len(q) /\ \A i \in 1..Len(q) : q[i] \in Pair
  BY LenProperties, ElementOfSeq
<1>1. /\ s \in 0..Len(q)
      /\ s < Len(q) => ~Expired(q[s + 1], now)
  BY SweepStops
<1>2. /\ n \in s..Len(q)
      /\ n < Len(q) => Cardinality(Present(Popped(m, q, n))) <= Cap
  BY <1>1, TrimStops DEF Stop
<1>3. n \in 0..Len(q)
  BY <1>0, <1>1, <1>2
<1>4. Cardinality(Present(Popped(m, q, n))) <= Cap
  <2>1. CASE n < Len(q)
    BY <1>2, <2>1
  <2>2. CASE n = Len(q)
    <3>1. Present(Popped(m, q, n)) = {}
      BY <1>3, <2>2, PoppedIsQueued
    <3>2. QED
      BY <3>1, FS_EmptySet, StoreAssumption
  <2>3. QED
    BY <1>0, <1>3, <2>1, <2>2
<1>5. ASSUME NEW i \in (n + 1)..Len(q) PROVE now - q[i].at < Ttl
  <2>1. s + 1 \in DOMAIN q /\ i \in DOMAIN q /\ s + 1 <= i /\ s < Len(q)
    BY <1>0, <1>1, <1>2
  <2>2. q[s + 1].at \in Nat /\ q[i].at \in Nat /\ q[s + 1].at <= q[i].at
    <3> HIDE DEF s, n
    <3>1. q[s + 1] \in Pair /\ q[i] \in Pair
      BY <1>0, <2>1
    <3>2. q[s + 1].at \in Nat /\ q[i].at \in Nat
      BY <3>1 DEF Pair
    <3>3. CASE s + 1 = i
      BY <3>2, <3>3
    <3>4. CASE s + 1 < i
      <4>1. q[s + 1].at < q[i].at
        BY <2>1, <3>4 DEF Sorted
      <4>2. QED
        BY <3>2, <4>1
    <3>5. QED
      BY <1>0, <1>1, <2>1, <3>2, <3>3, <3>4
  <2>3. now - q[s + 1].at < Ttl
    BY <1>1, <2>1, <2>2, StoreAssumption DEF Expired
  <2>4. QED
    BY <2>2, <2>3, StoreAssumption
<1>6. QED
  BY <1>3, <1>4, <1>5

\* evict pops in insertion order, and never the pair of an entry that was just
\* inserted: with that pair alone left the map is within any cap.
LEMMA EvictOrder ==
  ASSUME NEW m \in [Hash -> Entry \cup {Absent}], NEW q \in Seq(Pair), NEW now \in Nat,
         Queued(m, q), Sorted(q),
         NEW h \in Hash, m[h] # Absent, m[h].at = now, q # <<>>,
         q[Len(q)] = [hash |-> h, at |-> now]
  PROVE  LET p == Popped(m, q, Stop(m, q, now))
         IN /\ Ttl > 0 => p[h] # Absent
            /\ \A g, k \in Hash : p[g] = Absent /\ m[g] # Absent /\ p[k] # Absent
                                    => p[k].at > m[g].at
<1> DEFINE s == SweepStop(m, q, now)
           n == Stop(m, q, now)
           p == Popped(m, q, n)
<1>0. /\ Len(q) \in Nat \ {0} /\ DOMAIN q = 1..Len(q) /\ \A i \in 1..Len(q) : q[i] \in Pair
      /\ Len(q) - 1 \in 0..Len(q)
  BY LenProperties, ElementOfSeq, EmptySeq
<1>1. /\ s \in 0..Len(q)
      /\ \A i \in 1..s : ~Live(m, q[i]) \/ Expired(q[i], now)
  BY SweepStops
<1>2. Live(m, q[Len(q)]) /\ (Ttl > 0 => ~Expired(q[Len(q)], now))
  BY StoreAssumption DEF Live, Expired
<1>3. Ttl > 0 => s \in 0..(Len(q) - 1)
  BY <1>0, <1>1, <1>2
<1>4. /\ n \in s..Len(q)
      /\ \A i \in s..(n - 1) : Cardinality(Present(Popped(m, q, i))) > Cap
  BY <1>1, TrimStops DEF Stop
<1>5. ASSUME Ttl > 0 PROVE n < Len(q)
  <2>1. SUFFICES ASSUME n = Len(q) PROVE FALSE
    BY <1>0, <1>1, <1>4
  <2>2. Cardinality(Present(Popped(m, q, Len(q) - 1))) > Cap
    BY <1>0, <1>3, <1>4, <1>5, <2>1
  <2>3. ASSUME NEW g \in Present(Popped(m, q, Len(q) - 1)) PROVE g = h
    <3>1. g \in Hash /\ m[g] # Absent /\ ~\E i \in 1..(Len(q) - 1) : q[i].hash = g /\ Live(m, q[i])
      BY DEF Present, Popped
    <3>2. PICK i \in DOMAIN q : q[i].hash = g /\ Live(m, q[i])
      BY <3>1 DEF Queued, Present
    <3>3. i = Len(q)
      BY <1>0, <3>1, <3>2
    <3>4. QED
      BY <3>2, <3>3
  <2>4. Present(Popped(m, q, Len(q) - 1)) \subseteq {h}
    BY <2>3
  <2>5. Cardinality(Present(Popped(m, q, Len(q) - 1))) <= 1
    <3>1. IsFiniteSet({h}) /\ Cardinality({h}) = 1
      BY FS_Singleton
    <3>2. Cardinality(Present(Popped(m, q, Len(q) - 1))) <= Cardinality({h})
      BY <2>4, <3>1, FS_Subset
    <3>3. QED
      BY <3>1, <3>2
  <2>6. Cardinality(Present(Popped(m, q, Len(q) - 1))) \in Nat
    BY <2>4, FS_Singleton, FS_Subset, FS_CardinalityType
  <2>7. QED
    BY <2>2, <2>5, <2>6, StoreAssumption
<1>6. n \in 0..Len(q)
  BY <1>0, <1>1, <1>4
<1>7. ASSUME Ttl > 0 PROVE p[h] # Absent
  <2>1. ASSUME NEW i \in 1..n PROVE ~(q[i].hash = h /\ Live(m, q[i]))
    <3>1. i \in DOMAIN q /\ Len(q) \in DOMAIN q /\ i < Len(q)
      BY <1>0, <1>5, <1>6, <1>7
    <3>2. q[i].at < now /\ q[i].at \in Nat
      BY <1>0, <3>1 DEF Sorted, Pair
    <3>3. QED
      BY <3>2 DEF Live
  <2>2. QED
    BY <2>1 DEF Popped
<1>8. ASSUME NEW g \in Hash, NEW k \in Hash, p[g] = Absent, m[g] # Absent, p[k] # Absent
      PROVE  p[k].at > m[g].at
  <2>1. PICK i \in 1..n : q[i].hash = g /\ Live(m, q[i])
    BY <1>8 DEF Popped
  <2>2. p[k] = m[k] /\ m[k] # Absent /\ ~\E j \in 1..n : q[j].hash = k /\ Live(m, q[j])
    BY <1>8 DEF Popped
  <2>3. PICK j \in DOMAIN q : q[j].hash = k /\ Live(m, q[j])
    BY <2>2 DEF Queued, Present
  <2>4. i \in DOMAIN q /\ i < j
    BY <1>0, <1>6, <2>1, <2>2, <2>3
  <2>5. q[i].at < q[j].at /\ q[i].at \in Nat /\ q[j].at \in Nat
    BY <1>0, <2>3, <2>4 DEF Sorted, Pair
  <2>6. QED
    BY <2>1, <2>2, <2>3, <2>5 DEF Live
<1>9. QED
  BY <1>7, <1>8

-----------------------------------------------------------------------------
(* The inductive invariant *)

\* What insert hands to evict: the new entry's pair is the youngest.
LEMMA InsertReady ==
  ASSUME IInv, NEW h \in Hash
  PROVE  LET m == [map EXCEPT ![h] = [at |-> clock + 1, id |-> FALSE]]
             q == Append(order, [hash |-> h, at |-> clock + 1])
         IN /\ m \in [Hash -> Entry \cup {Absent}]
            /\ q \in Seq(Pair)
            /\ Queued(m, q)
            /\ Sorted(q)
            /\ \A i \in DOMAIN q : q[i].at <= clock + 1
            /\ m[h] # Absent /\ m[h].at = clock + 1
            /\ q # <<>> /\ q[Len(q)] = [hash |-> h, at |-> clock + 1]
<1> DEFINE e == [at |-> clock + 1, id |-> FALSE]
           new == [hash |-> h, at |-> clock + 1]
           m == [map EXCEPT ![h] = e]
           q == Append(order, new)
<1>1. clock \in Nat /\ order \in Seq(Pair) /\ map \in [Hash -> Entry \cup {Absent}]
  BY DEF IInv, TypeOK
<1>2. e \in Entry /\ e # Absent /\ e.at = clock + 1
  <2>1. e \in Entry /\ e.at = clock + 1
    BY <1>1 DEF Entry
  <2>2. QED
    BY <2>1, StoreAssumption, Zenon DEF Entry
<1>3. new \in Pair /\ new.hash = h /\ new.at = clock + 1
  BY <1>1 DEF Pair
<1>4. /\ Len(order) \in Nat /\ DOMAIN order = 1..Len(order)
      /\ \A i \in 1..Len(order) : order[i] \in Pair
  BY <1>1, LenProperties, ElementOfSeq
<1>5. /\ q \in Seq(Pair) /\ q # <<>> /\ Len(q) = Len(order) + 1
      /\ \A i \in 1..Len(order) : q[i] = order[i]
      /\ q[Len(order) + 1] = new
  BY <1>1, <1>3, AppendProperties
<1> HIDE DEF e, new, q
<1>6. DOMAIN q = 1..(Len(order) + 1)
  BY <1>5, LenProperties
<1>7. m \in [Hash -> Entry \cup {Absent}] /\ m[h] = e /\ \A g \in Hash \ {h} : m[g] = map[g]
  BY <1>1, <1>2
<1> HIDE DEF m
<1>8. \A i \in 1..Len(order) : order[i].at \in Nat /\ order[i].at <= clock
  BY <1>4 DEF IInv, OrderInv, Pair
<1>9. ASSUME NEW i \in DOMAIN q PROVE q[i].at <= clock + 1
  <2>1. CASE i \in 1..Len(order)
    BY <1>1, <1>5, <1>8, <2>1
  <2>2. CASE i = Len(order) + 1
    BY <1>1, <1>3, <1>5, <2>2
  <2>3. QED
    BY <1>4, <1>6, <2>1, <2>2
<1>10. Sorted(q)
  <2>1. SUFFICES ASSUME NEW i \in DOMAIN q, NEW j \in DOMAIN q, i < j PROVE q[i].at < q[j].at
    BY DEF Sorted
  <2>2. i \in 1..Len(order) /\ (j \in 1..Len(order) \/ j = Len(order) + 1)
    BY <1>4, <1>6, <2>1
  <2>3. CASE j \in 1..Len(order)
    <3>1. order[i].at < order[j].at
      BY <1>4, <2>1, <2>2, <2>3 DEF IInv, OrderInv, Sorted
    <3>2. QED
      BY <1>5, <2>2, <2>3, <3>1
  <2>4. CASE j = Len(order) + 1
    BY <1>1, <1>3, <1>5, <1>8, <2>2, <2>4
  <2>5. QED
    BY <2>2, <2>3, <2>4
<1>11. Queued(m, q)
  <2>1. SUFFICES ASSUME NEW g \in Present(m)
                 PROVE  \E i \in DOMAIN q : q[i].hash = g /\ Live(m, q[i])
    BY DEF Queued
  <2>2. CASE g = h
    <3>1. Len(order) + 1 \in DOMAIN q
      BY <1>4, <1>6
    <3>2. Live(m, new)
      BY <1>2, <1>3, <1>7 DEF Live
    <3>3. QED
      BY <1>3, <1>5, <2>2, <3>1, <3>2
  <2>3. CASE g # h
    <3>1. g \in Present(map) /\ m[g] = map[g]
      BY <1>7, <2>3 DEF Present
    <3>2. PICK i \in DOMAIN order : order[i].hash = g /\ Live(map, order[i])
      BY <3>1 DEF IInv, EveryEntryQueued
    <3>3. i \in DOMAIN q /\ q[i] = order[i]
      BY <1>4, <1>5, <1>6
    <3>4. Live(m, order[i])
      BY <3>1, <3>2 DEF Live
    <3>5. QED
      BY <3>2, <3>3, <3>4
  <2>4. QED
    BY <2>2, <2>3
<1>12. q[Len(q)] = new
  BY <1>5
<1>13. QED
  BY <1>2, <1>5, <1>7, <1>9, <1>10, <1>11, <1>12 DEF e, new, q, m

LEMMA InitInv == Init => IInv
<1> SUFFICES ASSUME Init PROVE IInv
  OBVIOUS
<1>1. TypeOK
  BY DEF Init, TypeOK
<1>2. DOMAIN order = {} /\ Present(map) = {}
  BY DEF Init, Present
<1>3. WithinCap
  BY <1>2, FS_EmptySet, StoreAssumption DEF WithinCap
<1>4. QED
  BY <1>1, <1>2, <1>3 DEF Init, IInv, OrderInv, Sorted, EveryEntryQueued, QueueIsRecent

LEMMA InsertInv ==
  ASSUME IInv, NEW h \in Hash, Insert(h)
  PROVE  IInv'
<1> DEFINE m == [map EXCEPT ![h] = [at |-> clock + 1, id |-> FALSE]]
           q == Append(order, [hash |-> h, at |-> clock + 1])
           now == clock + 1
           n == Stop(m, q, now)
<1>0. clock' = now /\ swept' = now /\ now \in Nat
  BY DEF IInv, TypeOK, Insert
<1>1. map' = Popped(m, q, n) /\ order' = SubSeq(q, n + 1, Len(q))
  BY DEF Insert, Stop
<1>2. /\ m \in [Hash -> Entry \cup {Absent}]
      /\ q \in Seq(Pair)
      /\ Queued(m, q)
      /\ Sorted(q)
      /\ \A i \in DOMAIN q : q[i].at <= now
  BY InsertReady
<1> HIDE DEF m, q, now
<1>3. /\ n \in 0..Len(q)
      /\ Cardinality(Present(Popped(m, q, n))) <= Cap
      /\ \A i \in (n + 1)..Len(q) : now - q[i].at < Ttl
  BY <1>0, <1>2, EvictBounds, Zenon
<1> HIDE DEF n
<1>4. /\ map' \in [Hash -> Entry \cup {Absent}]
      /\ Queued(map', order')
  BY <1>1, <1>2, <1>3, PoppedIsQueued
<1>5. /\ order' \in Seq(Pair)
      /\ \A i \in DOMAIN order' : i + n \in DOMAIN q /\ order'[i] = q[i + n]
      /\ Sorted(order')
  BY <1>1, <1>2, <1>3, Rest
<1>6. TypeOK'
  BY <1>0, <1>4, <1>5 DEF TypeOK
<1>7. OrderInv'
  BY <1>0, <1>2, <1>5 DEF OrderInv
<1>8. EveryEntryQueued'
  BY <1>4 DEF EveryEntryQueued, Queued
<1>9. WithinCap'
  BY <1>1, <1>3 DEF WithinCap
<1>10. QueueIsRecent'
  <2>1. SUFFICES ASSUME NEW i \in DOMAIN order' PROVE swept' - order'[i].at < Ttl
    BY DEF QueueIsRecent
  <2>2. i + n \in DOMAIN q /\ order'[i] = q[i + n]
    BY <1>5
  <2>3. i \in Nat \ {0} /\ DOMAIN q = 1..Len(q) /\ Len(q) \in Nat
    BY <1>2, <1>5, LenProperties
  <2>4. i + n \in (n + 1)..Len(q)
    BY <1>3, <2>2, <2>3
  <2>5. QED
    BY <1>0, <1>3, <2>2, <2>4, Zenon
<1>11. QED
  BY <1>0, <1>6, <1>7, <1>8, <1>9, <1>10 DEF IInv

\* The operations that leave the queue alone may drop or patch an entry, never
\* restamp it.
LEMMA PatchInv ==
  ASSUME IInv, UNCHANGED <<order, clock, swept>>,
         map' \in [Hash -> Entry \cup {Absent}],
         \A h \in Hash : map'[h] # Absent => map[h] # Absent /\ map'[h].at = map[h].at
  PROVE  IInv'
<1>1. TypeOK' /\ OrderInv' /\ QueueIsRecent' /\ (swept <= clock)'
  BY DEF IInv, TypeOK, OrderInv, QueueIsRecent
<1>2. Present(map') \subseteq Present(map)
  BY DEF Present
<1>3. EveryEntryQueued'
  <2>1. SUFFICES ASSUME NEW h \in Present(map')
                 PROVE  \E i \in DOMAIN order : order[i].hash = h /\ Live(map', order[i])
    BY DEF EveryEntryQueued, Present, Live
  <2>2. PICK i \in DOMAIN order : order[i].hash = h /\ Live(map, order[i])
    BY <1>2 DEF IInv, EveryEntryQueued
  <2>3. Live(map', order[i])
    BY <2>2 DEF Live, Present
  <2>4. QED
    BY <2>2, <2>3
<1>4. WithinCap'
  <2>1. IsFiniteSet(Present(map))
    BY StoreAssumption, FS_Subset DEF Present
  <2>2. /\ Cardinality(Present(map')) \in Nat
        /\ Cardinality(Present(map)) \in Nat
        /\ Cardinality(Present(map')) <= Cardinality(Present(map))
    BY <1>2, <2>1, FS_Subset, FS_CardinalityType
  <2>3. Cardinality(Present(map)) <= Cap
    BY DEF IInv, WithinCap
  <2>4. Cardinality(Present(map')) <= Cap
    BY <2>2, <2>3, StoreAssumption
  <2>5. QED
    BY <2>4 DEF WithinCap
<1>5. QED
  BY <1>1, <1>3, <1>4 DEF IInv

LEMMA NextInv == IInv /\ [Next]_vars => IInv'
<1> SUFFICES ASSUME IInv, [Next]_vars PROVE IInv'
  OBVIOUS
<1>1. map \in [Hash -> Entry \cup {Absent}] /\ clock \in Nat /\ swept \in Nat
  BY DEF IInv, TypeOK
<1>2. ASSUME NEW h \in Hash, Insert(h) PROVE IInv'
  BY <1>2, InsertInv
<1>3. ASSUME NEW h \in Hash, SetKoinosTxId(h) PROVE IInv'
  <2>1. CASE map[h] = Absent
    <3>1. map' = map
      BY <1>3, <2>1 DEF SetKoinosTxId
    <3>2. QED
      BY <1>1, <1>3, <3>1, PatchInv DEF SetKoinosTxId
  <2>2. CASE map[h] # Absent
    <3>1. map' = [map EXCEPT ![h].id = TRUE]
      BY <1>3, <2>2 DEF SetKoinosTxId
    <3>2. map[h] \in Entry
      BY <1>1, <2>2
    <3>3. [map[h] EXCEPT !.id = TRUE] \in Entry /\ [map[h] EXCEPT !.id = TRUE].at = map[h].at
      BY <3>2 DEF Entry
    <3>4. map' \in [Hash -> Entry \cup {Absent}]
      BY <1>1, <3>1, <3>3
    <3>5. \A g \in Hash : map'[g] # Absent => map[g] # Absent /\ map'[g].at = map[g].at
      BY <1>1, <2>2, <3>1, <3>3
    <3>6. QED
      BY <1>3, <3>4, <3>5, PatchInv DEF SetKoinosTxId
  <2>3. QED
    BY <2>1, <2>2
<1>4. ASSUME NEW h \in Hash, Remove(h) PROVE IInv'
  <2>1. /\ map' \in [Hash -> Entry \cup {Absent}]
        /\ \A g \in Hash : map'[g] # Absent => map[g] # Absent /\ map'[g].at = map[g].at
    BY <1>1, <1>4 DEF Remove
  <2>2. QED
    BY <1>4, <2>1, PatchInv DEF Remove
<1>5. CASE TimePasses
  <2>1. clock' = clock + 1 /\ UNCHANGED <<map, order, swept>>
    BY <1>5 DEF TimePasses
  <2>2. TypeOK' /\ EveryEntryQueued' /\ WithinCap' /\ QueueIsRecent'
    BY <1>1, <2>1 DEF IInv, TypeOK, EveryEntryQueued, WithinCap, QueueIsRecent, Present, Live
  <2>3. OrderInv'
    <3>1. \A i \in DOMAIN order : order[i].at \in Nat
      <4>1. order \in Seq(Pair)
        BY DEF IInv, TypeOK
      <4>2. DOMAIN order = 1..Len(order) /\ \A i \in 1..Len(order) : order[i] \in Pair
        BY <4>1, ElementOfSeq, LenProperties
      <4>3. QED
        BY <4>2 DEF Pair
    <3>2. \A i \in DOMAIN order : order[i].at <= clock + 1
      BY <1>1, <3>1 DEF IInv, OrderInv
    <3>3. QED
      BY <2>1, <3>2 DEF IInv, OrderInv, Sorted
  <2>4. swept' <= clock'
    BY <1>1, <2>1 DEF IInv
  <2>5. QED
    BY <2>2, <2>3, <2>4 DEF IInv
<1>6. CASE UNCHANGED vars
  BY <1>1, <1>6, PatchInv DEF vars
<1>7. QED
  BY <1>2, <1>3, <1>4, <1>5, <1>6 DEF Next

LEMMA StoreInv == Spec => []IInv
<1>1. QED
  BY InitInv, NextInv, PTL DEF Spec

-----------------------------------------------------------------------------
(* Theorems *)

\* The state of the store keeps its types.
THEOREM StoreTypes == Spec => []TypeOK
<1>1. IInv => TypeOK
  BY DEF IInv
<1>2. QED
  BY <1>1, StoreInv, PTL

\* Every entry has its pair in the queue, so evict's arm for an entry that is
\* in the map and not in the queue cannot be reached.
THEOREM EntriesAreQueued == Spec => []EveryEntryQueued
<1>1. IInv => EveryEntryQueued
  BY DEF IInv
<1>2. QED
  BY <1>1, StoreInv, PTL

\* The map holds at most Cap entries, for every Cap of at least one.
THEOREM StoreWithinCap == Spec => []WithinCap
<1>1. IInv => WithinCap
  BY DEF IInv
<1>2. QED
  BY <1>1, StoreInv, PTL

\* After an insert the queue holds no pair older than the time to live, stale
\* pairs included.
THEOREM QueueStaysRecent == Spec => []QueueIsRecent
<1>1. IInv => QueueIsRecent
  BY DEF IInv
<1>2. QED
  BY <1>1, StoreInv, PTL

\* insert never evicts what it has just inserted, unless the TTL is 0, and evicts
\* an unexpired entry only if every entry that stays is younger.
THEOREM EvictionIsOldestFirst == Spec => EvictsOldestFirst
<1>1. ASSUME IInv, NEW h \in Hash, Insert(h)
      PROVE  /\ Ttl > 0 => map'[h] # Absent
             /\ \A g \in Present(map) \ {h} :
                  map'[g] = Absent /\ clock' - map[g].at < Ttl
                    => \A k \in Present(map') : map'[k].at > map[g].at
  <2> DEFINE m == [map EXCEPT ![h] = [at |-> clock + 1, id |-> FALSE]]
             q == Append(order, [hash |-> h, at |-> clock + 1])
             n == Stop(m, q, clock + 1)
  <2>1. clock + 1 \in Nat /\ map' = Popped(m, q, n)
    BY <1>1 DEF IInv, TypeOK, Insert, Stop
  <2>2. \A g \in Hash \ {h} : m[g] = map[g]
    BY <1>1 DEF IInv, TypeOK
  <2>3. /\ m \in [Hash -> Entry \cup {Absent}]
        /\ q \in Seq(Pair)
        /\ Queued(m, q)
        /\ Sorted(q)
        /\ m[h] # Absent /\ m[h].at = clock + 1
        /\ q # <<>> /\ q[Len(q)] = [hash |-> h, at |-> clock + 1]
    BY <1>1, InsertReady
  <2> HIDE DEF m, q
  <2>4. /\ Ttl > 0 => map'[h] # Absent
        /\ \A g, k \in Hash : map'[g] = Absent /\ m[g] # Absent /\ map'[k] # Absent
                                => map'[k].at > m[g].at
    BY <2>1, <2>3, EvictOrder
  <2>5. ASSUME NEW g \in Present(map) \ {h}, map'[g] = Absent, NEW k \in Present(map')
        PROVE  map'[k].at > map[g].at
    <3>1. g \in Hash /\ m[g] = map[g] /\ m[g] # Absent /\ k \in Hash /\ map'[k] # Absent
      BY <2>2 DEF Present
    <3>2. QED
      BY <2>4, <2>5, <3>1
  <2>6. QED
    BY <2>4, <2>5
<1>2. IInv /\ [Next]_vars
        => [\A h \in Hash :
              Insert(h) =>
                /\ Ttl > 0 => map'[h] # Absent
                /\ \A g \in Present(map) \ {h} :
                     map'[g] = Absent /\ clock' - map[g].at < Ttl
                       => \A k \in Present(map') : map'[k].at > map[g].at]_vars
  BY <1>1
<1>3. QED
  BY <1>2, StoreInv, PTL DEF Spec, EvictsOldestFirst
=============================================================================
