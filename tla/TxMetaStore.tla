----------------------------- MODULE TxMetaStore -----------------------------
(***************************************************************************)
(* The bounded tx-metadata store (state.rs): a map from hash to entry with *)
(* the Instant of its insertion, and a queue of (hash, Instant) pairs in   *)
(* insertion order that drives TTL and size eviction.  Removal leaves the  *)
(* pair in the queue; eviction recognises such stale pairs by an Instant   *)
(* that no longer matches the map.                                         *)
(*                                                                         *)
(* Every operation runs under the RwLock's write guard, so each is one     *)
(* step.  Instants are naturals; two inserts never read the same Instant.  *)
(***************************************************************************)
EXTENDS Naturals, Sequences, FiniteSets

CONSTANTS
  Hash,     \* transaction hashes
  Cap,      \* TX_META_MAX, at least 1 (TxMetaStore::new clamps it)
  Ttl,      \* TX_META_TTL_SECS, in Instants; with 0 nothing is kept
  MaxTime,  \* bound on the clock
  Absent    \* no entry

ASSUME StoreAssumption ==
  /\ IsFiniteSet(Hash)
  /\ Cap \in Nat \ {0}
  /\ Ttl \in Nat
  /\ MaxTime \in Nat
  /\ Absent \notin [at : Nat, id : BOOLEAN]

VARIABLES
  map,    \* hash -> entry: its Instant, and whether koinos_tx_id is filled in
  order,  \* the insertion queue
  clock,  \* Instant::now()
  swept   \* history: the Instant of the last insert, when evict last ran

vars == <<map, order, clock, swept>>

Entry == [at : Nat, id : BOOLEAN]
Pair == [hash : Hash, at : Nat]
Present(m) == {h \in Hash : m[h] # Absent}

TypeOK ==
  /\ map \in [Hash -> Entry \cup {Absent}]
  /\ order \in Seq(Pair)
  /\ clock \in Nat
  /\ swept \in Nat

Init ==
  /\ map = [h \in Hash |-> Absent]
  /\ order = <<>>
  /\ clock = 0
  /\ swept = 0

\* Mutant: a pair is live whenever its hash is present.
LiveByHash(m, p) == m[p.hash] # Absent

\* The pair still stands for the map's entry of its hash.
Live(m, p) == m[p.hash] # Absent /\ m[p.hash].at = p.at
Expired(p, now) == now - p.at >= Ttl

\* The map after the first n pairs of the queue have been popped: a live pair
\* takes its entry along, a stale one does not.
Popped(m, q, n) ==
  [h \in Hash |-> IF \E i \in 1..n : q[i].hash = h /\ Live(m, q[i]) THEN Absent ELSE m[h]]

\* Mutant: the sweep stops at a stale pair.
SweepStopsAtStale(m, q, now) ==
  CHOOSE n \in 0..Len(q) :
    /\ \A i \in 1..n : Live(m, q[i]) /\ Expired(q[i], now)
    /\ n < Len(q) => ~Live(m, q[n + 1]) \/ ~Expired(q[n + 1], now)

\* evict, loop 1: the queue is popped up to the first live, unexpired pair.
SweepStop(m, q, now) ==
  CHOOSE n \in 0..Len(q) :
    /\ \A i \in 1..n : ~Live(m, q[i]) \/ Expired(q[i], now)
    /\ n < Len(q) => Live(m, q[n + 1]) /\ ~Expired(q[n + 1], now)

\* Mutant: one entry too many is kept.
TrimStopsEarly(m, q, from) ==
  CHOOSE n \in from..Len(q) :
    /\ \A i \in from..(n - 1) : Cardinality(Present(Popped(m, q, i))) > Cap + 1
    /\ n < Len(q) => Cardinality(Present(Popped(m, q, n))) <= Cap + 1

\* evict, loop 2: from there on it is popped until the map is within the cap
\* or the queue is empty.
TrimStop(m, q, from) ==
  CHOOSE n \in from..Len(q) :
    /\ \A i \in from..(n - 1) : Cardinality(Present(Popped(m, q, i))) > Cap
    /\ n < Len(q) => Cardinality(Present(Popped(m, q, n))) <= Cap

\* Mutant: the entry is stamped with the Instant before which others expire.
InsertStampsCutoff(h) ==
  /\ clock < MaxTime
  /\ clock' = clock + 1
  /\ map' = [map EXCEPT ![h] = [at |-> clock + 1 - Ttl, id |-> FALSE]]
  /\ order' = Append(order, [hash |-> h, at |-> clock + 1 - Ttl])
  /\ swept' = clock + 1

\* Mutant: a hash that is queued already is not queued again.
InsertQueuesOnce(h) ==
  /\ clock < MaxTime
  /\ clock' = clock + 1
  /\ LET m == [map EXCEPT ![h] = [at |-> clock + 1, id |-> FALSE]]
         q == IF \E i \in DOMAIN order : order[i].hash = h THEN order
              ELSE Append(order, [hash |-> h, at |-> clock + 1])
         n == TrimStop(m, q, SweepStop(m, q, clock + 1))
     IN  /\ map' = Popped(m, q, n)
         /\ order' = SubSeq(q, n + 1, Len(q))
  /\ swept' = clock + 1

\* insert: a fresh entry, a pair at the back of the queue, then evict.
Insert(h) ==
  /\ clock < MaxTime
  /\ clock' = clock + 1
  /\ LET m == [map EXCEPT ![h] = [at |-> clock + 1, id |-> FALSE]]
         q == Append(order, [hash |-> h, at |-> clock + 1])
         n == TrimStop(m, q, SweepStop(m, q, clock + 1))
     IN  /\ map' = Popped(m, q, n)
         /\ order' = SubSeq(q, n + 1, Len(q))
  /\ swept' = clock + 1

\* set_koinos_tx_id patches an entry that is still there.
SetKoinosTxId(h) ==
  /\ map' = IF map[h] = Absent THEN map ELSE [map EXCEPT ![h].id = TRUE]
  /\ UNCHANGED <<order, clock, swept>>

\* remove leaves the pair in the queue.
Remove(h) ==
  /\ map' = [map EXCEPT ![h] = Absent]
  /\ UNCHANGED <<order, clock, swept>>

TimePasses ==
  /\ clock < MaxTime
  /\ clock' = clock + 1
  /\ UNCHANGED <<map, order, swept>>

Next ==
  \/ \E h \in Hash : Insert(h) \/ SetKoinosTxId(h) \/ Remove(h)
  \/ TimePasses

Spec == Init /\ [][Next]_vars

-----------------------------------------------------------------------------
(* Properties *)

\* Every entry of the map has its pair in the queue: what the comment on the
\* unreachable arm of evict relies on, and without which an entry could never
\* be evicted again.
EveryEntryQueued ==
  \A h \in Present(map) : \E i \in DOMAIN order : order[i].hash = h /\ Live(map, order[i])

\* The map never holds more than Cap entries, whatever mix of stale pairs,
\* re-insertions and expiries the queue has been through.
WithinCap == Cardinality(Present(map)) <= Cap

\* The queue keeps pairs of the last Ttl only, stale ones included: this, and
\* not Cap, is what bounds its length.
QueueIsRecent == \A i \in DOMAIN order : swept - order[i].at < Ttl

\* insert evicts in insertion order: an unexpired entry goes only if every
\* entry that stays is younger, and the entry just inserted stays, unless the
\* TTL is 0.
EvictsOldestFirst ==
  [][\A h \in Hash :
       Insert(h) =>
         /\ Ttl > 0 => map'[h] # Absent
         /\ \A g \in Present(map) \ {h} :
              map'[g] = Absent /\ clock' - map[g].at < Ttl
                => \A k \in Present(map') : map'[k].at > map[g].at]_vars
=============================================================================
