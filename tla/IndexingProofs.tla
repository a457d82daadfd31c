---------------------------- MODULE IndexingProofs ----------------------------
(***************************************************************************)
(* What the indexer's cursor has passed is in the store, and positions in  *)
(* a block are unique, for every number of transactions, blocks, forks,    *)
(* concurrent readers and failures.                                        *)
(***************************************************************************)
EXTENDS Indexing, SequenceTheorems, TLAPS

-----------------------------------------------------------------------------
(* Types *)

\* What the types rest on: the fork is the number of switches, the poller's
\* snapshot has one pair per row and rows that may be bumped once more, a
\* receipt to be written has its row, and a page that is worked on is not empty.
Snapshot ==
  /\ \A p \in polling : rows[p.tx] # None /\ rows[p.tx].attempts < PollCap
  /\ \A p, q \in polling : p.tx = q.tx => p = q

RowBeforeReceipt == \A s \in Settler : held[s] # None /\ held[s].saved => rows[held[s].tx] # None

TypeInv ==
  /\ TypeOK
  /\ fork = reorgs
  /\ Snapshot
  /\ RowBeforeReceipt
  /\ ixPc = "entries" => page # <<>>

\* A transaction that is included is found where it is.
LEMMA LocatedIsThere ==
  ASSUME TypeOK, NEW k, Included(k)
  PROVE  /\ Located(k) \in Entry
         /\ \E i \in DOMAIN history : Located(k) = history[i] /\ history[i].kid = k
<1> DEFINE i == CHOOSE i \in DOMAIN history : history[i].kid = k
<1>1. i \in DOMAIN history /\ history[i].kid = k
  BY DEF Included
<1>2. history[i] \in Entry
  BY <1>1 DEF TypeOK
<1>3. QED
  BY <1>1, <1>2 DEF Located

\* A row that is written by upsert_tx is a row.
LEMMA UpsertedType ==
  ASSUME TypeOK, NEW t \in Tx, NEW k \in Kid
  PROVE  /\ Upserted(t, k) \in Row
         /\ Upserted(t, k).kid = k
         /\ rows[t] # None => Upserted(t, k) = [rows[t] EXCEPT !.kid = k]
         /\ rows[t] = None => Upserted(t, k).status = None /\ Upserted(t, k).index = None
                              /\ Upserted(t, k).attempts = 0
<1>1. CASE rows[t] = None
  BY <1>1, IndexingAssumption DEF Upserted, Row
<1>2. CASE rows[t] # None
  <2>1. rows[t] \in Row
    BY <1>2 DEF TypeOK
  <2>2. QED
    BY <1>2, <2>1 DEF Upserted, Row
<1>3. QED
  BY <1>1, <1>2

\* The receipt of an included transaction is a receipt.
LEMMA FetchReceiptType ==
  ASSUME TypeOK, NEW t \in Tx, NEW k \in Kid, NEW b \in BOOLEAN, Included(k)
  PROVE  /\ FetchReceipt(t, k, b) \in Receipt
         /\ FetchReceipt(t, k, b).tx = t /\ FetchReceipt(t, k, b).kid = k
         /\ FetchReceipt(t, k, b).saved = b
         /\ FetchReceipt(t, k, b).height = Located(k).height
         /\ FetchReceipt(t, k, b).ok = Located(k).ok
<1>1. Located(k) \in Entry
  BY LocatedIsThere
<1>2. QED
  BY <1>1 DEF FetchReceipt, Receipt, Entry

\* The row that index_tx writes.
IndexedRow(t, e, at) ==
  [Upserted(t, e.kid) EXCEPT !.height = at.height, !.fork = at.fork,
     !.index = blocks[at.height].txs, !.status = e.ok, !.logBase = blocks[at.height].logs]

LEMMA IndexedRowType ==
  ASSUME TypeOK, NEW t \in Tx, NEW e \in Entry, NEW at \in Entry
  PROVE  /\ IndexedRow(t, e, at) \in Row
         /\ IndexedRow(t, e, at).kid = e.kid
         /\ IndexedRow(t, e, at).height = at.height
         /\ IndexedRow(t, e, at).index = blocks[at.height].txs
         /\ IndexedRow(t, e, at).status = e.ok
         /\ IndexedRow(t, e, at).logBase = blocks[at.height].logs
         /\ IndexedRow(t, e, at).attempts = Upserted(t, e.kid).attempts
         /\ blocks[at.height] \in [fork : Forks \cup {None}, txs : Nat, logs : Nat]
<1> DEFINE old == Upserted(t, e.kid)
<1>1. old \in Row /\ old.kid = e.kid
  BY UpsertedType DEF Entry
<1>2. blocks[at.height] \in [fork : Forks \cup {None}, txs : Nat, logs : Nat]
  BY DEF TypeOK, Entry
<1>3. at.height \in Height /\ at.fork \in Forks /\ e.ok \in BOOLEAN
  BY DEF Entry
<1> HIDE DEF old
<1>4. IndexedRow(t, e, at) = [old EXCEPT !.height = at.height, !.fork = at.fork,
        !.index = blocks[at.height].txs, !.status = e.ok, !.logBase = blocks[at.height].logs]
  BY DEF IndexedRow, old
<1>5. blocks[at.height].txs \in Nat /\ blocks[at.height].logs \in Nat
  BY <1>2
<1>6. QED
  BY <1>1, <1>2, <1>3, <1>4, <1>5 DEF Row, old

\* A receipt is written over the row it is for.
ReceiptRow(t, r) ==
  [rows[t] EXCEPT !.height = r.height, !.fork = r.fork, !.index = None, !.status = r.ok,
                  !.logBase = 0]

LEMMA ReceiptRowType ==
  ASSUME TypeOK, NEW t \in Tx, rows[t] # None, NEW r \in Receipt
  PROVE  /\ ReceiptRow(t, r) \in Row
         /\ ReceiptRow(t, r).kid = rows[t].kid
         /\ ReceiptRow(t, r).height = r.height
         /\ ReceiptRow(t, r).index = None
         /\ ReceiptRow(t, r).status = r.ok
         /\ ReceiptRow(t, r).attempts = rows[t].attempts
<1>1. rows[t] \in Row
  BY DEF TypeOK
<1>2. r.height \in Height /\ r.fork \in Forks /\ r.ok \in BOOLEAN
  BY DEF Receipt
<1>3. QED
  BY <1>1, <1>2 DEF ReceiptRow, Row

\* What each action does to the rows.
LEMMA RelayRows ==
  ASSUME TypeOK, NEW k \in Ours, RecordRelay(k)
  PROVE  /\ k \in Kid /\ KTx[k] \in Tx
         /\ rows' = rows \/ rows' = [rows EXCEPT ![KTx[k]] = Upserted(KTx[k], k)]
BY IndexingAssumption DEF RecordRelay

LEMMA ReceiptRows ==
  ASSUME TypeInv, NEW s \in Settler, SetReceipt(s)
  PROVE  /\ held[s] \in Receipt /\ held[s].tx \in Tx /\ rows[held[s].tx] # None
         /\ rows' = [rows EXCEPT ![held[s].tx] = ReceiptRow(held[s].tx, held[s])]
<1>1. held[s] \in Receipt
  BY DEF SetReceipt, TypeInv, TypeOK
<1>2. held[s].tx \in Tx /\ rows[held[s].tx] # None
  BY <1>1 DEF Receipt, SetReceipt, TypeInv, RowBeforeReceipt
<1>3. rows[held[s].tx] \in Row
  BY <1>2 DEF TypeInv, TypeOK
<1>4. rows' = [rows EXCEPT ![held[s].tx].height = held[s].height, ![held[s].tx].fork = held[s].fork,
                           ![held[s].tx].index = None, ![held[s].tx].status = held[s].ok,
                           ![held[s].tx].logBase = 0]
  BY DEF SetReceipt
<1>5. QED
  BY <1>1, <1>2, <1>3, <1>4 DEF ReceiptRow, TypeInv, TypeOK, Row

LEMMA EvmRows ==
  ASSUME TypeInv, ProcessEvm
  PROVE  LET e == Head(page)
             t == KTx[e.kid]
             at == Located(e.kid)
         IN /\ e \in Entry /\ t \in Tx /\ at \in Entry /\ Included(e.kid) /\ page # <<>>
            /\ \/ SkipsIndexing(t, at.height, e.ok) /\ UNCHANGED <<rows, blocks>>
               \/ /\ ~SkipsIndexing(t, at.height, e.ok)
                  /\ rows' = [rows EXCEPT ![t] = IndexedRow(t, e, at)]
                  /\ blocks' = [blocks EXCEPT ![at.height] =
                       [fork |-> IF @.fork = None THEN at.fork ELSE @.fork,
                        txs |-> @.txs + 1, logs |-> @.logs + Logs(e.ok)]]
<1> DEFINE e == Head(page)
           t == KTx[e.kid]
           at == Located(e.kid)
<1>1. page # <<>> /\ page \in Seq(Entry)
  BY DEF TypeInv, TypeOK, ProcessEvm, NextEntry
<1>2. e \in Entry
  BY <1>1
<1>3. t \in Tx /\ Included(e.kid)
  BY <1>2, IndexingAssumption DEF ProcessEvm, Entry
<1>4. at \in Entry
  BY <1>3, LocatedIsThere DEF TypeInv
<1>5. at.height \in Height
  BY <1>4 DEF Entry
<1>6. \/ SkipsIndexing(t, at.height, e.ok) /\ UNCHANGED <<rows, blocks>>
      \/ ~SkipsIndexing(t, at.height, e.ok) /\ IndexTx(t, e, at)
  BY DEF ProcessEvm
<1>7. QED
  BY <1>1, <1>2, <1>3, <1>4, <1>5, <1>6 DEF IndexTx, IndexedRow, TypeInv, TypeOK

LEMMA TypeInit == Init => TypeInv
<1> SUFFICES ASSUME Init PROVE TypeInv
  OBVIOUS
<1>1. /\ 0 \in 0..MaxHeight /\ 0 \in Forks /\ 0 \in 0..MaxReorgs /\ 0 \in 0..MaxErrors
      /\ 0 \in 0..MaxPasses
  BY IndexingAssumption DEF Forks
<1>2. blocks \in [Height -> [fork : Forks \cup {None}, txs : Nat, logs : Nat]]
  BY DEF Init
<1>3. /\ history \in Seq(Entry) /\ page \in Seq(Entry)
      /\ rows \in [Tx -> Row \cup {None}] /\ metaId \in [Tx -> Kid \cup {None}]
      /\ held \in [Settler -> Receipt \cup {None}]
  BY DEF Init
<1>4. frozen \in BOOLEAN /\ shortPage \in BOOLEAN
  BY DEF Init
<1>5. TypeOK
  BY <1>1, <1>2, <1>3, <1>4 DEF Init, TypeOK
<1>6. QED
  BY <1>5 DEF Init, TypeInv, Snapshot, RowBeforeReceipt

\* Rows stay and keep their attempts: snapshot and receipts stay in order.
RowsStay ==
  /\ rows' \in [Tx -> Row \cup {None}]
  /\ \A t \in Tx : rows[t] # None => rows'[t] # None /\ rows'[t].attempts = rows[t].attempts

LEMMA StayInOrder ==
  ASSUME TypeInv, RowsStay
  PROVE  /\ polling' \subseteq polling => Snapshot'
         /\ held' = held => RowBeforeReceipt'
<1>1. \A p \in polling : p.tx \in Tx
  BY DEF TypeInv, TypeOK
<1>2. \A s \in Settler : held[s] # None => held[s].tx \in Tx
  BY DEF TypeInv, TypeOK, Receipt
<1>3. QED
  BY <1>1, <1>2 DEF TypeInv, RowsStay, Snapshot, RowBeforeReceipt

\* A row is put in the place of another with as many attempts, or of none.
LEMMA PutRow ==
  ASSUME TypeInv, NEW t \in Tx, NEW r \in Row, rows' = [rows EXCEPT ![t] = r],
         rows[t] # None => r.attempts = rows[t].attempts
  PROVE  RowsStay
BY NoneAssumption DEF TypeInv, TypeOK, RowsStay

LEMMA SameRows ==
  ASSUME TypeInv, rows' = rows
  PROVE  RowsStay
BY DEF TypeInv, TypeOK, RowsStay

\* A block's entries are entries.
LEMMA NewBlockHistory ==
  ASSUME TypeOK, NewBlock
  PROVE  \E n \in 0..BlockCap : \E new \in [1..n -> Entry] :
           /\ history' = history \o new /\ new \in Seq(Entry) /\ Len(new) = n
           /\ \A i \in 1..n : new[i].height = head + 1 /\ ~Included(new[i].kid)
           /\ \A i, j \in 1..n : new[i].kid = new[j].kid => i = j
           /\ \A i \in 1..n : new[i].fork = fork /\ (new[i].ok => KTx[new[i].kid] # NotEvm)
<1>a. \A k, q, ok : ok \in Outcomes(k, q) /\ ok => KTx[k] # NotEvm
  BY DEF Outcomes
<1>0. PICK n \in 0..BlockCap : \E ks \in [1..n -> Kid], oks \in [1..n -> BOOLEAN] :
        LET new == [i \in 1..n |-> [kid |-> ks[i], height |-> head + 1, fork |-> fork, ok |-> oks[i]]]
        IN /\ \A i \in 1..n : ~Included(ks[i]) /\ \A j \in 1..(i - 1) : ks[j] # ks[i]
           /\ \A i \in 1..n : oks[i] => KTx[ks[i]] # NotEvm
           /\ history' = history \o new
  BY <1>a DEF NewBlock
<1>1. PICK ks \in [1..n -> Kid], oks \in [1..n -> BOOLEAN] :
        LET new == [i \in 1..n |-> [kid |-> ks[i], height |-> head + 1, fork |-> fork, ok |-> oks[i]]]
        IN /\ \A i \in 1..n : ~Included(ks[i]) /\ \A j \in 1..(i - 1) : ks[j] # ks[i]
           /\ \A i \in 1..n : oks[i] => KTx[ks[i]] # NotEvm
           /\ history' = history \o new
  BY <1>0
<1> DEFINE new == [i \in 1..n |-> [kid |-> ks[i], height |-> head + 1, fork |-> fork, ok |-> oks[i]]]
<1>2. n \in Nat /\ head + 1 \in Height
  BY IndexingAssumption DEF NewBlock, TypeOK, Height
<1>3. new \in [1..n -> Entry]
  BY <1>2 DEF TypeOK, Entry
<1>4. new \in Seq(Entry) /\ Len(new) = n
  BY <1>2, <1>3
<1>5. \A i, j \in 1..n : new[i].kid = new[j].kid => i = j
  <2> SUFFICES ASSUME NEW i \in 1..n, NEW j \in 1..n, ks[i] = ks[j] PROVE i = j
    OBVIOUS
  <2>1. ~(i < j) /\ ~(j < i)
    BY <1>1, <1>2
  <2>2. QED
    BY <2>1, <1>2
<1>6. \A i \in 1..n : new[i].height = head + 1 /\ new[i].fork = fork /\ ~Included(new[i].kid)
                       /\ (new[i].ok => KTx[new[i].kid] # NotEvm)
  BY <1>1
<1>7. history' = history \o new
  BY <1>1
<1> HIDE DEF new
<1>8. QED
  BY <1>3, <1>4, <1>5, <1>6, <1>7

\* The cycle's variables between two cycles.
LEMMA EndCycleType ==
  ASSUME EndCycle
  PROVE  /\ ixPc' = "idle" /\ ixLib' = 0 /\ nextSeq' = 1 /\ candidate' = 0
         /\ frozen' \in BOOLEAN /\ page' = <<>> /\ page' \in Seq(Entry) /\ shortPage' \in BOOLEAN
<1>1. frozen' = FALSE /\ shortPage' = FALSE
  BY DEF EndCycle
<1>2. frozen' \in BOOLEAN /\ shortPage' \in BOOLEAN
  BY <1>1
<1>3. /\ ixPc' = "idle" /\ ixLib' = 0 /\ nextSeq' = 1 /\ candidate' = 0
      /\ page' = <<>> /\ page' \in Seq(Entry)
  BY DEF EndCycle
<1>4. QED
  BY <1>2, <1>3

\* A step of the node, the relay or a provisional writer.
LEMMA NodeTypes ==
  ASSUME TypeInv, NewBlock \/ AdvanceLib \/ Reorg
  PROVE  TypeInv'
<1>1. RowsStay /\ polling' = polling /\ held' = held /\ rows' = rows
  BY SameRows DEF NewBlock, AdvanceLib, Reorg, dbVars, settleVars
<1>2. Snapshot' /\ RowBeforeReceipt'
  BY <1>1, StayInOrder
<1>3. CASE NewBlock
  <2>1. history' \in Seq(Entry)
    <3>1. PICK n \in 0..BlockCap : \E new \in [1..n -> Entry] :
             history' = history \o new /\ new \in Seq(Entry)
      BY <1>3, NewBlockHistory DEF TypeInv
    <3>2. QED
      BY <3>1 DEF TypeInv, TypeOK
  <2>2. head' \in 0..MaxHeight /\ lib' \in 0..head'
    BY <1>3, IndexingAssumption DEF NewBlock, TypeInv, TypeOK
  <2>3. QED
    BY <1>2, <1>3, <2>1, <2>2 DEF NewBlock, TypeInv, TypeOK, dbVars, ixVars, settleVars
<1>4. CASE AdvanceLib
  BY <1>2, <1>4, IndexingAssumption DEF AdvanceLib, TypeInv, TypeOK, dbVars, ixVars, settleVars
<1>5. CASE Reorg
  <2>1. PICK h \in lib..(head - 1), n \in 0..Len(history) :
          head' = h /\ history' = SubSeq(history, 1, n)
    BY <1>5 DEF Reorg
  <2>2. history' \in Seq(Entry)
    BY <2>1 DEF TypeInv, TypeOK
  <2>3. head' \in 0..MaxHeight /\ lib' \in 0..head'
    BY <1>5, <2>1, IndexingAssumption DEF Reorg, TypeInv, TypeOK
  <2>4. fork' \in Forks /\ reorgs' \in 0..MaxReorgs /\ fork' = reorgs'
    BY <1>5, IndexingAssumption DEF Reorg, TypeInv, TypeOK, Forks
  <2>5. QED
    BY <1>2, <1>5, <2>2, <2>3, <2>4 DEF Reorg, TypeInv, TypeOK, dbVars, ixVars, settleVars
<1>6. QED
  BY <1>3, <1>4, <1>5

LEMMA WriterTypes ==
  ASSUME TypeInv,
         \/ \E k \in Ours : RecordRelay(k)
         \/ \E t \in Tx : Evict(t)
         \/ PollStart
         \/ \E p \in polling : PollFetch(p) \/ PollMiss(p)
         \/ \E s \in Handlers : HandlerUpsert(s) \/ \E t \in Tx : HandlerFetch(s, t)
         \/ \E s \in Settler : SetReceipt(s)
  PROVE  TypeInv'
<1> USE DEF nodeVars, ixVars
<1>1. ASSUME NEW k \in Ours, RecordRelay(k) PROVE TypeInv'
  <2>1. k \in Kid /\ KTx[k] \in Tx
    BY <1>1, RelayRows DEF TypeInv
  <2>2. RowsStay
    <3>1. CASE rows' = rows
      BY <3>1, SameRows
    <3>2. CASE rows' = [rows EXCEPT ![KTx[k]] = Upserted(KTx[k], k)]
      <4>1. Upserted(KTx[k], k) \in Row
        BY <2>1, UpsertedType DEF TypeInv
      <4>2. rows[KTx[k]] # None => Upserted(KTx[k], k).attempts = rows[KTx[k]].attempts
        <5>1. ASSUME rows[KTx[k]] # None PROVE rows[KTx[k]] \in Row
          BY <2>1, <5>1 DEF TypeInv, TypeOK
        <5>2. QED
          BY <2>1, <5>1, UpsertedType DEF TypeInv, Row
      <4>3. QED
        BY <2>1, <3>2, <4>1, <4>2, PutRow
    <3>3. QED
      BY <1>1, <3>1, <3>2, RelayRows DEF TypeInv
  <2>3. Snapshot' /\ RowBeforeReceipt'
    BY <1>1, <2>2, StayInOrder DEF RecordRelay
  <2>4. errors' \in 0..MaxErrors
    BY <1>1, IndexingAssumption DEF RecordRelay, Fail, TypeInv, TypeOK
  <2>5. metaId' \in [Tx -> Kid \cup {None}] /\ submitted' \in SUBSET Ours
    BY <1>1, <2>1 DEF RecordRelay, TypeInv, TypeOK
  <2>6. QED
    BY <1>1, <2>2, <2>3, <2>4, <2>5 DEF RecordRelay, TypeInv, TypeOK, RowsStay
<1>2. ASSUME NEW t \in Tx, Evict(t) PROVE TypeInv'
  <2>1. RowsStay
    BY <1>2, SameRows DEF Evict, dbVars
  <2>2. Snapshot' /\ RowBeforeReceipt'
    BY <1>2, <2>1, StayInOrder DEF Evict
  <2>3. metaId' \in [Tx -> Kid \cup {None}]
    BY <1>2 DEF Evict, TypeInv, TypeOK
  <2>4. QED
    BY <1>2, <2>2, <2>3 DEF Evict, TypeInv, TypeOK, dbVars
<1>3. CASE PollStart
  <2>1. \A t \in Tx : rows[t] # None => rows[t] \in Row /\ rows[t].kid \in Kid
    BY DEF TypeInv, TypeOK, Row
  <2>2. polling' \in SUBSET [tx : Tx, kid : Kid]
    BY <1>3, <2>1 DEF PollStart
  <2>3. Snapshot'
    BY <1>3 DEF PollStart, Snapshot, dbVars
  <2>4. RowBeforeReceipt'
    BY <1>3 DEF PollStart, TypeInv, RowBeforeReceipt, dbVars
  <2>5. QED
    BY <1>3, <2>2, <2>3, <2>4 DEF PollStart, TypeInv, TypeOK, dbVars
<1>4. ASSUME NEW p \in polling, PollFetch(p) PROVE TypeInv'
  <2>1. p \in [tx : Tx, kid : Kid] /\ rows[p.tx] # None
    BY DEF TypeInv, TypeOK, Snapshot
  <2>2. FetchReceipt(p.tx, p.kid, TRUE) \in Receipt /\ FetchReceipt(p.tx, p.kid, TRUE).tx = p.tx
    BY <1>4, <2>1, FetchReceiptType DEF TypeInv, PollFetch
  <2>3. Snapshot'
    BY <1>4, SameRows, StayInOrder DEF PollFetch, dbVars
  <2>4. held' \in [Settler -> Receipt \cup {None}] /\ RowBeforeReceipt'
    BY <1>4, <2>1, <2>2 DEF PollFetch, TypeInv, TypeOK, RowBeforeReceipt, dbVars
  <2>5. polling' \in SUBSET [tx : Tx, kid : Kid]
    BY <1>4 DEF PollFetch, TypeInv, TypeOK
  <2>6. QED
    BY <1>4, <2>3, <2>4, <2>5 DEF PollFetch, TypeInv, TypeOK, dbVars
<1>5. ASSUME NEW p \in polling, PollMiss(p) PROVE TypeInv'
  <2>1. p \in [tx : Tx, kid : Kid] /\ rows[p.tx] # None /\ rows[p.tx].attempts < PollCap
    BY DEF TypeInv, TypeOK, Snapshot
  <2>2. rows[p.tx] \in Row
    BY <2>1 DEF TypeInv, TypeOK
  <2>3. [rows[p.tx] EXCEPT !.attempts = @ + 1] \in Row
    BY <2>1, <2>2, IndexingAssumption DEF Row
  <2>4. rows' = [rows EXCEPT ![p.tx] = [rows[p.tx] EXCEPT !.attempts = @ + 1]]
    BY <1>5, <2>1, <2>2 DEF PollMiss, TypeInv, TypeOK, Row
  <2>5. rows' \in [Tx -> Row \cup {None}] /\ \A t \in Tx : rows[t] # None => rows'[t] # None
    BY <2>1, <2>3, <2>4, NoneAssumption DEF TypeInv, TypeOK
  <2>6. Snapshot'
    <3>1. polling' = polling \ {p}
      BY <1>5 DEF PollMiss
    <3>2. \A q \in polling' : q.tx # p.tx /\ q.tx \in Tx
      BY <3>1 DEF TypeInv, TypeOK, Snapshot
    <3>3. \A q \in polling' : rows'[q.tx] = rows[q.tx]
      BY <2>1, <2>4, <3>2 DEF TypeInv, TypeOK
    <3>4. QED
      BY <3>1, <3>3 DEF TypeInv, Snapshot
  <2>7. RowBeforeReceipt'
    BY <1>5, <2>5 DEF PollMiss, TypeInv, TypeOK, RowBeforeReceipt, Receipt
  <2>8. errors' \in 0..MaxErrors
    <3>1. errors' = errors \/ (errors < MaxErrors /\ errors' = errors + 1)
      BY <1>5 DEF PollMiss, Fail
    <3>2. QED
      BY <3>1, IndexingAssumption DEF TypeInv, TypeOK
  <2>9. QED
    BY <1>5, <2>5, <2>6, <2>7, <2>8 DEF PollMiss, TypeInv, TypeOK
<1>6. ASSUME NEW s \in Handlers, HandlerUpsert(s) PROVE TypeInv'
  <2>1. s \in Settler /\ held[s] \in Receipt
    BY <1>6 DEF Settler, HandlerUpsert, TypeInv, TypeOK
  <2>2. held[s].tx \in Tx /\ held[s].kid \in Kid
    BY <2>1 DEF Receipt
  <2> DEFINE r == Upserted(held[s].tx, held[s].kid)
  <2>3. r \in Row /\ (rows[held[s].tx] # None => r = [rows[held[s].tx] EXCEPT !.kid = held[s].kid])
    BY <2>2, UpsertedType DEF TypeInv
  <2>4. rows' = [rows EXCEPT ![held[s].tx] = r]
    BY <1>6 DEF HandlerUpsert
  <2> HIDE DEF r
  <2>5. RowsStay
    <3>1. rows[held[s].tx] # None => r.attempts = rows[held[s].tx].attempts
      BY <2>2, <2>3 DEF TypeInv, TypeOK, Row
    <3>2. QED
      BY <2>2, <2>3, <2>4, <3>1, PutRow
  <2>6. Snapshot'
    BY <1>6, <2>5, StayInOrder DEF HandlerUpsert
  <2>7. [held[s] EXCEPT !.saved = TRUE] \in Receipt /\ [held[s] EXCEPT !.saved = TRUE].tx = held[s].tx
    BY <2>1 DEF Receipt
  <2>8. held' = [held EXCEPT ![s] = [held[s] EXCEPT !.saved = TRUE]]
    BY <1>6, <2>1 DEF HandlerUpsert, TypeInv, TypeOK, Receipt
  <2>9. held' \in [Settler -> Receipt \cup {None}]
    BY <2>1, <2>7, <2>8 DEF TypeInv, TypeOK
  <2>10. rows'[held[s].tx] # None
    BY <2>2, <2>3, <2>4, NoneAssumption DEF TypeInv, TypeOK
  <2>11. RowBeforeReceipt'
    <3> SUFFICES ASSUME NEW u \in Settler, held'[u] # None, held'[u].saved
                 PROVE  rows'[held'[u].tx] # None
      BY DEF RowBeforeReceipt
    <3>1. CASE u = s
      BY <2>1, <2>7, <2>8, <2>10, <3>1 DEF TypeInv, TypeOK
    <3>2. CASE u # s
      <4>1. held'[u] = held[u]
        BY <2>1, <2>8, <3>2 DEF TypeInv, TypeOK
      <4>2. rows[held[u].tx] # None /\ held[u].tx \in Tx
        BY <4>1 DEF TypeInv, TypeOK, RowBeforeReceipt, Receipt
      <4>3. QED
        BY <2>5, <4>1, <4>2 DEF RowsStay
    <3>3. QED
      BY <3>1, <3>2
  <2>12. QED
    BY <1>6, <2>5, <2>6, <2>9, <2>11 DEF HandlerUpsert, TypeInv, TypeOK, RowsStay
<1>7. ASSUME NEW s \in Handlers, NEW t \in Tx, HandlerFetch(s, t) PROVE TypeInv'
  <2>1. LoadMeta(t) \in Kid
    BY <1>7 DEF HandlerFetch, LoadMeta, TypeInv, TypeOK, Row
  <2>2. /\ FetchReceipt(t, LoadMeta(t), FALSE) \in Receipt
        /\ FetchReceipt(t, LoadMeta(t), FALSE).saved = FALSE
    BY <1>7, <2>1, FetchReceiptType DEF TypeInv, HandlerFetch
  <2>3. Snapshot'
    BY <1>7, SameRows, StayInOrder DEF HandlerFetch, dbVars
  <2>4. s \in Settler
    BY DEF Settler
  <2>5. held' \in [Settler -> Receipt \cup {None}] /\ RowBeforeReceipt'
    BY <1>7, <2>2, <2>4 DEF HandlerFetch, TypeInv, TypeOK, RowBeforeReceipt, dbVars
  <2>6. errors' \in 0..MaxErrors
    <3>1. errors' = errors \/ (errors < MaxErrors /\ errors' = errors + 1)
      BY <1>7 DEF HandlerFetch, Fail
    <3>2. errors \in 0..MaxErrors
      BY DEF TypeInv, TypeOK
    <3>3. QED
      BY <3>1, <3>2, IndexingAssumption
  <2>7. QED
    BY <1>7, <2>3, <2>5, <2>6 DEF HandlerFetch, TypeInv, TypeOK, dbVars
<1>8. ASSUME NEW s \in Settler, SetReceipt(s) PROVE TypeInv'
  <2>1. /\ held[s] \in Receipt /\ held[s].tx \in Tx /\ rows[held[s].tx] # None
        /\ rows' = [rows EXCEPT ![held[s].tx] = ReceiptRow(held[s].tx, held[s])]
    BY <1>8, ReceiptRows
  <2>2. /\ ReceiptRow(held[s].tx, held[s]) \in Row
        /\ ReceiptRow(held[s].tx, held[s]).attempts = rows[held[s].tx].attempts
    BY <2>1, ReceiptRowType DEF TypeInv
  <2>3. RowsStay
    BY <2>1, <2>2, PutRow
  <2>4. Snapshot'
    BY <1>8, <2>3, StayInOrder DEF SetReceipt
  <2>5. held' = [held EXCEPT ![s] = None]
    BY <1>8 DEF SetReceipt
  <2>6. held' \in [Settler -> Receipt \cup {None}]
    BY <2>5 DEF TypeInv, TypeOK
  <2>7. RowBeforeReceipt'
    BY <2>3, <2>5 DEF TypeInv, TypeOK, RowBeforeReceipt, RowsStay, Receipt
  <2>8. QED
    BY <1>8, <2>3, <2>4, <2>6, <2>7 DEF SetReceipt, TypeInv, TypeOK, RowsStay
<1>9. QED
  BY <1>1, <1>2, <1>3, <1>4, <1>5, <1>6, <1>7, <1>8

\* The page of get_account_history that begins with nextSeq.
PageUpTo(last) ==
  /\ last <= Len(history) /\ page' = SubSeq(history, nextSeq, last)
  /\ shortPage' = (last - nextSeq + 1 < PageSize)
  /\ ixPc' = IF last < nextSeq THEN "persist" ELSE "entries"

LEMMA PageFetched ==
  ASSUME TypeOK, FetchPage
  PROVE  \E last \in Nat : PageUpTo(last)
<1> DEFINE last == IF nextSeq + PageSize - 1 < Len(history) THEN nextSeq + PageSize - 1
                   ELSE Len(history)
<1>1. Len(history) \in Nat /\ nextSeq \in Nat \ {0} /\ PageSize \in Nat \ {0}
  BY IndexingAssumption DEF TypeOK
<1>2. last \in Nat /\ last <= Len(history)
  BY <1>1
<1>3. /\ page' = SubSeq(history, nextSeq, last)
      /\ shortPage' = (last - nextSeq + 1 < PageSize)
      /\ ixPc' = IF last < nextSeq THEN "persist" ELSE "entries"
  BY DEF FetchPage
<1> HIDE DEF last
<1>4. QED
  BY <1>2, <1>3 DEF PageUpTo

LEMMA PageType ==
  ASSUME TypeOK, NEW last \in Nat, PageUpTo(last)
  PROVE  /\ page' \in Seq(Entry)
         /\ ixPc' = "entries" => page' # <<>>
         /\ \A j \in DOMAIN page' : nextSeq + j - 1 \in DOMAIN history /\ page'[j] = history[nextSeq + j - 1]
<1>1. /\ nextSeq \in Nat \ {0} /\ history \in Seq(Entry) /\ Len(history) \in Nat
      /\ DOMAIN history = 1..Len(history)
  BY DEF TypeOK
<1>2. CASE last < nextSeq
  <2>1. page' = <<>> /\ ixPc' = "persist"
    BY <1>1, <1>2 DEF PageUpTo
  <2>2. QED
    BY <2>1
<1>3. CASE nextSeq <= last
  <2>1. nextSeq \in 1..(Len(history) + 1) /\ last \in (nextSeq - 1)..Len(history)
    BY <1>1, <1>3 DEF PageUpTo
  <2>2. /\ page' \in Seq(Entry) /\ Len(page') = last - nextSeq + 1
        /\ \A j \in 1..(last - nextSeq + 1) : page'[j] = history[nextSeq + j - 1]
    <3>1. \A i \in nextSeq..last : history[i] \in Entry
      BY <1>1, <2>1
    <3>2. QED
      BY <1>1, <1>3, <2>1, <3>1, SubSeqProperties DEF PageUpTo
  <2>3. page' # <<>>
    BY <1>1, <1>3, <2>2
  <2>4. DOMAIN page' = 1..(last - nextSeq + 1)
    BY <2>2
  <2>5. \A j \in 1..(last - nextSeq + 1) : nextSeq + j - 1 \in 1..Len(history)
    BY <1>1, <2>1
  <2>6. QED
    BY <1>1, <2>2, <2>3, <2>4, <2>5
<1>4. QED
  BY <1>1, <1>2, <1>3

LEMMA LongTail ==
  ASSUME NEW S, NEW s \in Seq(S), Len(s) > 1
  PROVE  Tail(s) # <<>>
<1>1. Len(s) \in Nat /\ s # <<>>
  OBVIOUS
<1>2. Len(Tail(s)) = Len(s) - 1
  BY <1>1, HeadTailProperties
<1> DEFINE n == Len(s)
<1>3. n \in Nat /\ n > 1
  BY <1>1
<1> HIDE DEF n
<1>4. n - 1 # 0
  BY <1>3
<1>5. QED
  BY <1>2, <1>4 DEF n

LEMMA IndexTypes ==
  ASSUME TypeInv, Index \/ Restart
  PROVE  TypeInv'
<1> USE DEF nodeVars, settleVars
<1>1. CASE StartCycle
  <2>1. RowsStay /\ polling' = polling /\ held' = held
    BY <1>1, SameRows DEF StartCycle, dbVars
  <2>2. Snapshot' /\ RowBeforeReceipt'
    BY <2>1, StayInOrder
  <2>3. passes' \in 0..MaxPasses
    BY <1>1, IndexingAssumption DEF StartCycle, TypeInv, TypeOK
  <2>4. ixLib' \in 0..MaxHeight /\ nextSeq' \in Nat \ {0} /\ candidate' \in Nat
    BY <1>1, IndexingAssumption DEF StartCycle, TypeInv, TypeOK
  <2>5. frozen' \in BOOLEAN
    BY <1>1 DEF StartCycle
  <2>6. QED
    BY <1>1, <2>2, <2>3, <2>4, <2>5 DEF StartCycle, TypeInv, TypeOK, dbVars
<1>2. CASE FetchPage
  <2>1. RowsStay /\ polling' = polling /\ held' = held
    BY <1>2, SameRows DEF FetchPage, dbVars
  <2>2. Snapshot' /\ RowBeforeReceipt'
    BY <2>1, StayInOrder
  <2>3. PICK last \in Nat : PageUpTo(last)
    BY <1>2, PageFetched DEF TypeInv
  <2>4. page' \in Seq(Entry) /\ (ixPc' = "entries" => page' # <<>>)
    BY <2>3, PageType DEF TypeInv
  <2>5. shortPage' \in BOOLEAN
    BY <2>3 DEF PageUpTo
  <2>6. ixPc' \in {"idle", "page", "entries", "persist"}
    BY <2>3 DEF PageUpTo
  <2>7. QED
    BY <1>2, <2>2, <2>4, <2>5, <2>6 DEF FetchPage, TypeInv, TypeOK, dbVars
<1>3. CASE AbortCycle \/ PersistCursor
  <2>1. RowsStay /\ polling' = polling /\ held' = held
    BY <1>3, SameRows DEF AbortCycle, PersistCursor, dbVars
  <2>2. Snapshot' /\ RowBeforeReceipt'
    BY <2>1, StayInOrder
  <2>3. errors' \in 0..MaxErrors
    BY <1>3, IndexingAssumption DEF AbortCycle, PersistCursor, Fail, TypeInv, TypeOK
  <2>4. EndCycle /\ cursor' \in Nat
    BY <1>3 DEF AbortCycle, PersistCursor, dbVars, TypeInv, TypeOK
  <2>5. 0 \in 0..MaxHeight
    BY IndexingAssumption
  <2>6. QED
    BY <1>3, <2>2, <2>3, <2>4, <2>5, EndCycleType
       DEF AbortCycle, PersistCursor, TypeInv, TypeOK, dbVars
<1>4. CASE Restart
  <2>1. rows' = rows /\ polling' = {} /\ held' = [s \in Settler |-> None]
    BY <1>4 DEF Restart, dbVars
  <2>2. Snapshot' /\ RowBeforeReceipt'
    BY <2>1 DEF Snapshot, RowBeforeReceipt
  <2>3. errors' \in 0..MaxErrors
    BY <1>4, IndexingAssumption DEF Restart, Fail, TypeInv, TypeOK
  <2>4. 0 \in 0..MaxHeight
    BY IndexingAssumption
  <2>5. EndCycle /\ metaId' \in [Tx -> Kid \cup {None}]
    BY <1>4 DEF Restart
  <2>6. QED
    BY <1>4, <2>1, <2>2, <2>3, <2>4, <2>5, EndCycleType DEF Restart, TypeInv, TypeOK, dbVars
<1>5. ASSUME NextEntry
      PROVE  /\ page # <<>> /\ Head(page) \in Entry /\ page' = Tail(page) /\ page' \in Seq(Entry)
             /\ nextSeq' \in Nat \ {0}
             /\ ixPc' \in {"idle", "page", "entries", "persist"}
             /\ ixPc' = "entries" => page' # <<>>
             /\ ixLib' \in 0..MaxHeight /\ shortPage' \in BOOLEAN
  <2>1. page # <<>> /\ page \in Seq(Entry)
    BY <1>5 DEF NextEntry, TypeInv, TypeOK
  <2>2. Head(page) \in Entry /\ page' = Tail(page) /\ page' \in Seq(Entry)
    BY <1>5, <2>1 DEF NextEntry
  <2>3. nextSeq' \in Nat \ {0} /\ ixLib' \in 0..MaxHeight
    BY <1>5 DEF NextEntry, TypeInv, TypeOK
  <2>4. shortPage' \in BOOLEAN
    BY <1>5 DEF NextEntry, TypeInv, TypeOK
  <2>5. ixPc' \in {"idle", "page", "entries", "persist"} /\ (ixPc' = "entries" => Len(page) > 1)
    BY <1>5 DEF NextEntry
  <2>6. Len(page) > 1 => Tail(page) # <<>>
    BY <2>1, LongTail
  <2>7. QED
    BY <2>1, <2>2, <2>3, <2>4, <2>5, <2>6
<1>6. CASE ProcessEvm
  <2> DEFINE e == Head(page)
             t == KTx[e.kid]
             at == Located(e.kid)
  <2>1. /\ e \in Entry /\ t \in Tx /\ at \in Entry
        /\ \/ rows' = rows /\ blocks' = blocks
           \/ /\ rows' = [rows EXCEPT ![t] = IndexedRow(t, e, at)]
              /\ blocks' = [blocks EXCEPT ![at.height] =
                       [fork |-> IF @.fork = None THEN at.fork ELSE @.fork,
                        txs |-> @.txs + 1, logs |-> @.logs + Logs(e.ok)]]
    BY <1>6, EvmRows
  <2>2. RowsStay
    <3>1. /\ IndexedRow(t, e, at) \in Row
          /\ IndexedRow(t, e, at).attempts = Upserted(t, e.kid).attempts
      BY <2>1, IndexedRowType DEF TypeInv
    <3>2. rows[t] # None => Upserted(t, e.kid).attempts = rows[t].attempts
      <4>1. rows[t] # None => Upserted(t, e.kid) = [rows[t] EXCEPT !.kid = e.kid]
        BY <2>1, UpsertedType DEF TypeInv, Entry
      <4>2. rows[t] # None => rows[t] \in Row
        BY <2>1 DEF TypeInv, TypeOK
      <4>3. QED
        BY <4>1, <4>2 DEF Row
    <3> HIDE DEF t, e, at
    <3>3. QED
      BY <2>1, <3>1, <3>2, SameRows, PutRow
  <2>3. blocks' \in [Height -> [fork : Forks \cup {None}, txs : Nat, logs : Nat]]
    <3>1. at.height \in Height /\ at.fork \in Forks /\ Logs(e.ok) \in Nat
      BY <2>1 DEF Entry, Logs
    <3> HIDE DEF e, at, t
    <3> DEFINE b == blocks[at.height]
    <3>2. b \in [fork : Forks \cup {None}, txs : Nat, logs : Nat]
      BY <3>1 DEF TypeInv, TypeOK
    <3> DEFINE c == [fork |-> IF b.fork = None THEN at.fork ELSE b.fork,
                     txs |-> b.txs + 1, logs |-> b.logs + Logs(e.ok)]
    <3>3. c \in [fork : Forks \cup {None}, txs : Nat, logs : Nat]
      BY <3>1, <3>2
    <3>4. blocks' = blocks \/ blocks' = [blocks EXCEPT ![at.height] = c]
      BY <2>1, <3>1 DEF TypeInv, TypeOK
    <3> HIDE DEF c
    <3>5. QED
      BY <3>1, <3>3, <3>4 DEF TypeInv, TypeOK
  <2>4. polling' = polling /\ held' = held
    BY <1>6 DEF ProcessEvm
  <2>5. Snapshot' /\ RowBeforeReceipt'
    BY <2>2, <2>4, StayInOrder
  <2>6. NextEntry /\ Follow(at.height)
    BY <1>6 DEF ProcessEvm
  <2>7. frozen' \in BOOLEAN /\ candidate' \in Nat
    BY <2>6 DEF Follow, TypeInv, TypeOK
  <2>8. QED
    BY <1>5, <1>6, <2>2, <2>3, <2>5, <2>6, <2>7 DEF ProcessEvm, TypeInv, TypeOK, RowsStay
<1>7. CASE ProcessNotEvm \/ ProcessFails
  <2>1. rows' = rows /\ polling' = polling /\ held' = held /\ NextEntry
    BY <1>7 DEF ProcessNotEvm, ProcessFails, dbVars
  <2>2. Snapshot' /\ RowBeforeReceipt'
    BY <2>1, SameRows, StayInOrder
  <2>3. candidate' \in Nat
    BY <1>7 DEF ProcessNotEvm, ProcessFails, TypeInv, TypeOK
  <2>4. frozen' \in BOOLEAN
    BY <1>7 DEF ProcessNotEvm, ProcessFails, TypeInv, TypeOK
  <2>5. errors' \in 0..MaxErrors
    <3>1. errors' = errors \/ (errors < MaxErrors /\ errors' = errors + 1)
      BY <1>7 DEF ProcessNotEvm, ProcessFails, Fail
    <3>2. QED
      BY <3>1, IndexingAssumption DEF TypeInv, TypeOK
  <2>6. QED
    BY <1>5, <1>7, <2>1, <2>2, <2>3, <2>4, <2>5
       DEF ProcessNotEvm, ProcessFails, TypeInv, TypeOK, dbVars
<1>8. QED
  BY <1>1, <1>2, <1>3, <1>4, <1>6, <1>7 DEF Index

LEMMA TypeStep ==
  ASSUME TypeInv, [Next]_vars
  PROVE  TypeInv'
<1>1. CASE UNCHANGED vars
  BY <1>1 DEF vars, nodeVars, dbVars, ixVars, settleVars, TypeInv, TypeOK, Snapshot, RowBeforeReceipt
<1>2. CASE Next
  BY <1>2, NodeTypes, WriterTypes, IndexTypes DEF Next
<1>3. QED
  BY <1>1, <1>2

\* The variables of the store and of its writers keep their types: in
\* particular the poller never bumps a row past POLL_ATTEMPTS_CAP, and no
\* receipt is written over a row that is not there.
THEOREM IndexingTypes == Spec => []TypeOK
<1>1. TypeInv /\ [Next]_vars => TypeInv'
  BY TypeStep
<1>2. Spec => []TypeInv
  BY <1>1, TypeInit, PTL DEF Spec
<1>3. TypeInv => TypeOK
  BY DEF TypeInv
<1>4. QED
  BY <1>2, <1>3, PTL

-----------------------------------------------------------------------------
(* How a row changes *)

\* The entry the indexer is at, its transaction and the block it is found in.
Entry1 == Head(page)
Tx1 == KTx[Entry1.kid]
At1 == Located(Entry1.kid)

ByUpsert(t) == \E k \in Kid :
  /\ \/ k \in Ours /\ KTx[k] = t
     \/ \E s \in Handlers : held[s] # None /\ held[s].tx = t /\ held[s].kid = k
  /\ rows'[t] = Upserted(t, k)
ByBump(t) == rows[t] # None /\ rows[t].attempts < PollCap /\ rows'[t] = [rows[t] EXCEPT !.attempts = @ + 1]
ByReceipt(t) == \E s \in Settler :
  /\ held[s] \in Receipt /\ held[s].tx = t /\ rows[t] # None
  /\ rows'[t] = ReceiptRow(t, held[s])
ByIndexing(t) ==
  /\ ProcessEvm /\ t = Tx1 /\ ~SkipsIndexing(t, At1.height, Entry1.ok)
  /\ rows'[t] = IndexedRow(t, Entry1, At1)

\* Every change of a row is one of upsert_tx, bump_poll_attempts, set_receipt
\* and index_tx; the blocks change with the last only.
LEMMA RowChanges ==
  ASSUME TypeInv, [Next]_vars
  PROVE  /\ \A t \in Tx : \/ rows'[t] = rows[t]
                          \/ ByUpsert(t) \/ ByBump(t) \/ ByReceipt(t) \/ ByIndexing(t)
         /\ ~ProcessEvm => blocks' = blocks
<1> DEFINE Goal == /\ \A t \in Tx : \/ rows'[t] = rows[t]
                                    \/ ByUpsert(t) \/ ByBump(t) \/ ByReceipt(t) \/ ByIndexing(t)
                   /\ ~ProcessEvm => blocks' = blocks
<1> SUFFICES Goal
  OBVIOUS
<1>1. ASSUME rows' = rows, blocks' = blocks PROVE Goal
  BY <1>1
<1> HIDE DEF Goal
<1>2. CASE UNCHANGED vars
  BY <1>1, <1>2 DEF vars, dbVars
<1>3. CASE NewBlock \/ AdvanceLib \/ Reorg \/ (\E t \in Tx : Evict(t)) \/ PollStart
  BY <1>1, <1>3 DEF NewBlock, AdvanceLib, Reorg, Evict, PollStart, dbVars
<1>4. CASE StartCycle \/ FetchPage \/ AbortCycle \/ PersistCursor \/ ProcessNotEvm \/ ProcessFails
           \/ Restart
  BY <1>1, <1>4 DEF StartCycle, FetchPage, AbortCycle, PersistCursor, ProcessNotEvm,
                    ProcessFails, Restart, dbVars
<1>5. ASSUME NEW p \in polling, PollFetch(p) PROVE Goal
  BY <1>1, <1>5 DEF PollFetch, dbVars
<1>6. ASSUME NEW s \in Handlers, NEW t \in Tx, HandlerFetch(s, t) PROVE Goal
  BY <1>1, <1>6 DEF HandlerFetch, dbVars
<1>7. ASSUME NEW k \in Ours, RecordRelay(k) PROVE Goal
  <2>1. /\ k \in Kid /\ KTx[k] \in Tx
        /\ rows' = rows \/ rows' = [rows EXCEPT ![KTx[k]] = Upserted(KTx[k], k)]
    BY <1>7, RelayRows DEF TypeInv
  <2>2. \A t \in Tx : rows'[t] = rows[t] \/ (t = KTx[k] /\ rows'[t] = Upserted(t, k))
    BY <2>1 DEF TypeInv, TypeOK
  <2>3. \A t \in Tx : rows'[t] = rows[t] \/ ByUpsert(t)
    BY <2>1, <2>2 DEF ByUpsert
  <2>4. blocks' = blocks
    BY <1>7 DEF RecordRelay
  <2>5. QED
    BY <2>3, <2>4 DEF Goal
<1>8. ASSUME NEW p \in polling, PollMiss(p) PROVE Goal
  <2>1. p \in [tx : Tx, kid : Kid] /\ rows[p.tx] # None /\ rows[p.tx].attempts < PollCap
    BY DEF TypeInv, TypeOK, Snapshot
  <2>2. rows[p.tx] \in Row
    BY <2>1 DEF TypeInv, TypeOK
  <2>3. \A t \in Tx : rows'[t] = rows[t] \/ ByBump(t)
    BY <1>8, <2>1, <2>2 DEF PollMiss, TypeInv, TypeOK, Row, ByBump
  <2>4. blocks' = blocks
    BY <1>8 DEF PollMiss
  <2>5. QED
    BY <2>3, <2>4 DEF Goal
<1>9. ASSUME NEW s \in Handlers, HandlerUpsert(s) PROVE Goal
  <2>1. s \in Settler /\ held[s] # None /\ held[s] \in Receipt
    BY <1>9 DEF Settler, HandlerUpsert, TypeInv, TypeOK
  <2>2. held[s].tx \in Tx /\ held[s].kid \in Kid
    BY <2>1 DEF Receipt
  <2>3. \A t \in Tx : rows'[t] = rows[t] \/ (t = held[s].tx /\ rows'[t] = Upserted(t, held[s].kid))
    BY <1>9, <2>2 DEF HandlerUpsert, TypeInv, TypeOK
  <2>4. \A t \in Tx : rows'[t] = rows[t] \/ ByUpsert(t)
    BY <2>1, <2>2, <2>3 DEF ByUpsert
  <2>5. blocks' = blocks
    BY <1>9 DEF HandlerUpsert
  <2>6. QED
    BY <2>4, <2>5 DEF Goal
<1>10. ASSUME NEW s \in Settler, SetReceipt(s) PROVE Goal
  <2>1. /\ held[s] \in Receipt /\ held[s].tx \in Tx /\ rows[held[s].tx] # None
        /\ rows' = [rows EXCEPT ![held[s].tx] = ReceiptRow(held[s].tx, held[s])]
    BY <1>10, ReceiptRows
  <2>2. \A t \in Tx : rows'[t] = rows[t] \/ (t = held[s].tx /\ rows'[t] = ReceiptRow(t, held[s]))
    BY <2>1 DEF TypeInv, TypeOK
  <2>3. \A t \in Tx : rows'[t] = rows[t] \/ ByReceipt(t)
    BY <2>1, <2>2 DEF ByReceipt
  <2>4. blocks' = blocks
    BY <1>10 DEF SetReceipt
  <2>5. QED
    BY <2>3, <2>4 DEF Goal
<1>11. CASE ProcessEvm
  <2>1. /\ Tx1 \in Tx
        /\ \/ rows' = rows
           \/ /\ ~SkipsIndexing(Tx1, At1.height, Entry1.ok)
              /\ rows' = [rows EXCEPT ![Tx1] = IndexedRow(Tx1, Entry1, At1)]
    BY <1>11, EvmRows DEF Entry1, Tx1, At1
  <2>2. \A t \in Tx : rows'[t] = rows[t] \/ ByIndexing(t)
    BY <1>11, <2>1 DEF TypeInv, TypeOK, ByIndexing
  <2>3. QED
    BY <1>11, <2>2 DEF Goal
<1>12. CASE \E p \in polling : PollFetch(p) \/ PollMiss(p)
  BY <1>5, <1>8, <1>12
<1>13. CASE \E s \in Handlers : HandlerUpsert(s) \/ \E t \in Tx : HandlerFetch(s, t)
  BY <1>6, <1>9, <1>13
<1>14. QED
  BY <1>2, <1>3, <1>4, <1>7, <1>10, <1>11, <1>12, <1>13 DEF Next, Index

\* What survives each kind of change.
LEMMA RowFields ==
  ASSUME TypeInv, NEW t \in Tx
  PROVE  /\ rows[t] # None => rows[t] \in Row
         /\ ByUpsert(t) => /\ rows'[t] \in Row
                           /\ rows[t] # None =>
                                /\ rows'[t].height = rows[t].height /\ rows'[t].index = rows[t].index
                                /\ rows'[t].status = rows[t].status
                                /\ rows'[t].logBase = rows[t].logBase
                           /\ rows[t] = None => rows'[t].index = None /\ rows'[t].status = None
         /\ ByBump(t) => /\ rows'[t].height = rows[t].height /\ rows'[t].index = rows[t].index
                         /\ rows'[t].status = rows[t].status /\ rows'[t].kid = rows[t].kid
                         /\ rows'[t].logBase = rows[t].logBase
         /\ ByReceipt(t) => rows'[t].index = None /\ rows'[t].status \in BOOLEAN
                            /\ rows'[t].kid = rows[t].kid
<1>1. rows[t] # None => rows[t] \in Row
  BY DEF TypeInv, TypeOK
<1>2. ASSUME ByUpsert(t)
      PROVE  /\ rows'[t] \in Row
             /\ rows[t] # None =>
                  /\ rows'[t].height = rows[t].height /\ rows'[t].index = rows[t].index
                  /\ rows'[t].status = rows[t].status
                  /\ rows'[t].logBase = rows[t].logBase
             /\ rows[t] = None => rows'[t].index = None /\ rows'[t].status = None
  <2>1. PICK k \in Kid : rows'[t] = Upserted(t, k)
    BY <1>2 DEF ByUpsert
  <2>2. /\ Upserted(t, k) \in Row
        /\ rows[t] # None => Upserted(t, k) = [rows[t] EXCEPT !.kid = k]
        /\ rows[t] = None => Upserted(t, k).status = None /\ Upserted(t, k).index = None
    BY UpsertedType DEF TypeInv
  <2>3. QED
    BY <1>1, <2>1, <2>2 DEF Row
<1>3. ByBump(t) => /\ rows'[t].height = rows[t].height /\ rows'[t].index = rows[t].index
                   /\ rows'[t].status = rows[t].status /\ rows'[t].kid = rows[t].kid
                   /\ rows'[t].logBase = rows[t].logBase
  BY <1>1 DEF ByBump, Row
<1>4. ASSUME ByReceipt(t)
      PROVE  /\ rows'[t].index = None /\ rows'[t].status \in BOOLEAN /\ rows'[t].kid = rows[t].kid
  <2>1. PICK s \in Settler : held[s] \in Receipt /\ rows[t] # None /\ rows'[t] = ReceiptRow(t, held[s])
    BY <1>4 DEF ByReceipt
  <2>2. /\ ReceiptRow(t, held[s]).index = None
        /\ ReceiptRow(t, held[s]).status = held[s].ok /\ ReceiptRow(t, held[s]).kid = rows[t].kid
    BY <2>1, ReceiptRowType DEF TypeInv
  <2>3. held[s].ok \in BOOLEAN
    BY <2>1 DEF Receipt
  <2>4. QED
    BY <2>1, <2>2, <2>3
<1>5. QED
  BY <1>1, <1>2, <1>3, <1>4

-----------------------------------------------------------------------------
(* Positions *)

\* The place of an authoritative row is below its block's counters: the next
\* transaction that is indexed there comes after it.
BelowCounters ==
  \A t \in Tx : Authoritative(t) =>
    /\ rows[t].height \in Height /\ rows[t].index \in Nat /\ rows[t].status \in BOOLEAN
    /\ rows[t].index < blocks[rows[t].height].txs
    /\ rows[t].logBase + Logs(rows[t].status) <= blocks[rows[t].height].logs

PositionInv == TypeInv /\ BelowCounters /\ UniquePositions

\* A row is authoritative after a step because it was, at the same place, or
\* because it has just been indexed.
LEMMA AuthorityFrom ==
  ASSUME TypeInv, [Next]_vars, NEW t \in Tx, Authoritative(t)'
  PROVE  \/ ByIndexing(t)
         \/ /\ Authoritative(t)
            /\ rows'[t].height = rows[t].height /\ rows'[t].index = rows[t].index
            /\ rows'[t].status = rows[t].status /\ rows'[t].logBase = rows[t].logBase
<1>1. rows'[t] # None /\ rows'[t].index # None
  BY DEF Authoritative
<1>2. rows'[t] = rows[t] \/ ByUpsert(t) \/ ByBump(t) \/ ByReceipt(t) \/ ByIndexing(t)
  BY RowChanges
<1>3. CASE rows'[t] = rows[t]
  BY <1>1, <1>3 DEF Authoritative
<1>4. CASE ByUpsert(t)
  BY <1>1, <1>4, RowFields DEF Authoritative
<1>5. CASE ByBump(t)
  BY <1>1, <1>5, RowFields DEF Authoritative, ByBump
<1>6. CASE ByReceipt(t)
  BY <1>1, <1>6, RowFields
<1>7. QED
  BY <1>2, <1>3, <1>4, <1>5, <1>6

LEMMA PositionStep ==
  ASSUME PositionInv, [Next]_vars
  PROVE  PositionInv'
<1>0. TypeInv /\ TypeInv'
  BY TypeStep DEF PositionInv
<1>1. CASE \A t \in Tx : ~ByIndexing(t)
  <2>1. \A t \in Tx : Authoritative(t)' =>
           /\ Authoritative(t)
           /\ rows'[t].height = rows[t].height /\ rows'[t].index = rows[t].index
           /\ rows'[t].status = rows[t].status /\ rows'[t].logBase = rows[t].logBase
    BY <1>0, <1>1, AuthorityFrom
  <2>2. blocks' = blocks
    <3>1. CASE ~ProcessEvm
      BY <1>0, <3>1, RowChanges
    <3>2. CASE ProcessEvm
      <4>1. /\ Tx1 \in Tx
            /\ \/ blocks' = blocks
               \/ /\ ~SkipsIndexing(Tx1, At1.height, Entry1.ok)
                  /\ rows' = [rows EXCEPT ![Tx1] = IndexedRow(Tx1, Entry1, At1)]
        BY <1>0, <3>2, EvmRows DEF Entry1, Tx1, At1
      <4>2. QED
        BY <1>0, <1>1, <3>2, <4>1 DEF ByIndexing, TypeInv, TypeOK
    <3>3. QED
      BY <3>1, <3>2
  <2>3. BelowCounters'
    BY <2>1, <2>2 DEF PositionInv, BelowCounters
  <2>4. UniquePositions'
    BY <2>1 DEF PositionInv, UniquePositions
  <2>5. QED
    BY <1>0, <2>3, <2>4 DEF PositionInv
<1>2. ASSUME NEW t \in Tx, ByIndexing(t) PROVE PositionInv'
  <2> DEFINE e == Entry1
             at == At1
             h == at.height
             b == blocks[h]
  <2>1. /\ e \in Entry /\ at \in Entry /\ t = Tx1
        /\ ~SkipsIndexing(Tx1, At1.height, Entry1.ok)
    BY <1>0, <1>2, EvmRows DEF Entry1, Tx1, At1, ByIndexing
  <2>2. /\ rows' = [rows EXCEPT ![t] = IndexedRow(t, e, at)]
        /\ blocks' = [blocks EXCEPT ![h] = [fork |-> IF @.fork = None THEN at.fork ELSE @.fork,
                        txs |-> @.txs + 1, logs |-> @.logs + Logs(e.ok)]]
    BY <1>0, <1>2, <2>1, EvmRows DEF Entry1, Tx1, At1, ByIndexing
  <2>3. /\ rows'[t].height = h /\ rows'[t].index = b.txs
        /\ rows'[t].status = e.ok /\ rows'[t].logBase = b.logs
        /\ b \in [fork : Forks \cup {None}, txs : Nat, logs : Nat]
    <3>1. rows'[t] = IndexedRow(t, e, at)
      BY <1>2 DEF ByIndexing
    <3>2. QED
      BY <1>0, <2>1, <3>1, IndexedRowType DEF TypeInv
  <2>4. h \in Height /\ e.ok \in BOOLEAN /\ Logs(e.ok) \in Nat
    BY <2>1 DEF Entry, Logs
  <2>5. b.txs \in Nat /\ b.logs \in Nat
    BY <2>3
  <2>6. /\ blocks'[h].txs = b.txs + 1 /\ blocks'[h].logs = b.logs + Logs(e.ok)
        /\ \A g \in Height : g # h => blocks'[g] = blocks[g]
    BY <1>0, <2>2, <2>4 DEF TypeInv, TypeOK
  <2>7. \A u \in Tx : u # t => rows'[u] = rows[u]
    BY <1>0, <2>2 DEF TypeInv, TypeOK
  <2> HIDE DEF b, h, e, at
  <2>8. ASSUME NEW u \in Tx, u # t, Authoritative(u)'
        PROVE  /\ Authoritative(u) /\ rows'[u] = rows[u]
               /\ rows[u].height \in Height /\ rows[u].index \in Nat /\ rows[u].status \in BOOLEAN
               /\ rows[u].index < blocks[rows[u].height].txs
               /\ rows[u].logBase + Logs(rows[u].status) <= blocks[rows[u].height].logs
               /\ rows[u].logBase \in Nat /\ Logs(rows[u].status) \in Nat
    <3>1. Authoritative(u) /\ rows'[u] = rows[u]
      BY <2>7, <2>8 DEF Authoritative
    <3>2. rows[u] \in Row
      BY <1>0, <3>1 DEF Authoritative, TypeInv, TypeOK
    <3>3. rows[u].logBase \in Nat /\ Logs(rows[u].status) \in Nat
      BY <3>2 DEF Row, Logs
    <3>4. QED
      BY <3>1, <3>3 DEF PositionInv, BelowCounters
  <2>9. BelowCounters'
    <3> SUFFICES ASSUME NEW u \in Tx, Authoritative(u)'
                 PROVE  /\ rows'[u].height \in Height /\ rows'[u].index \in Nat
                        /\ rows'[u].status \in BOOLEAN
                        /\ rows'[u].index < blocks'[rows'[u].height].txs
                        /\ rows'[u].logBase + Logs(rows'[u].status) <= blocks'[rows'[u].height].logs
      BY DEF BelowCounters
    <3>1. CASE u = t
      BY <2>3, <2>4, <2>5, <2>6, <3>1
    <3>2. CASE u # t /\ rows[u].height = h
      <4>1. /\ rows'[u] = rows[u] /\ rows[u].index \in Nat /\ rows[u].status \in BOOLEAN
            /\ rows[u].index < b.txs
            /\ rows[u].logBase + Logs(rows[u].status) <= b.logs
            /\ rows[u].logBase \in Nat /\ Logs(rows[u].status) \in Nat
        BY <2>8, <3>2 DEF b
      <4>2. QED
        BY <2>4, <2>5, <2>6, <3>2, <4>1
    <3>3. CASE u # t /\ rows[u].height # h
      BY <2>6, <2>8, <3>3
    <3>4. QED
      BY <3>1, <3>2, <3>3
  <2>10. UniquePositions'
    <3> SUFFICES ASSUME NEW u \in Tx, NEW v \in Tx, Authoritative(u)', Authoritative(v)',
                        u # v, rows'[u].height = rows'[v].height
                 PROVE  /\ rows'[u].index # rows'[v].index
                        /\ rows'[u].index < rows'[v].index
                             => rows'[u].logBase + Logs(rows'[u].status) <= rows'[v].logBase
      BY DEF UniquePositions
    <3>1. CASE u # t /\ v # t
      BY <2>8, <3>1 DEF PositionInv, UniquePositions
    <3>2. CASE u = t
      <4>1. rows[v].index \in Nat /\ rows[v].index < b.txs /\ rows'[v] = rows[v]
        BY <2>3, <2>8, <3>2 DEF b
      <4>2. rows'[u].index = b.txs
        BY <2>3, <3>2
      <4>3. QED
        BY <2>5, <4>1, <4>2
    <3>3. CASE v = t
      <4>1. /\ rows[u].index \in Nat /\ rows[u].index < b.txs /\ rows'[u] = rows[u]
            /\ rows[u].logBase + Logs(rows[u].status) <= b.logs
        BY <2>3, <2>8, <3>3 DEF b
      <4>2. rows'[v].index = b.txs /\ rows'[v].logBase = b.logs
        BY <2>3, <3>3
      <4>3. QED
        BY <2>5, <4>1, <4>2
    <3>4. QED
      BY <3>1, <3>2, <3>3
  <2>11. QED
    BY <1>0, <2>9, <2>10 DEF PositionInv
<1>3. QED
  BY <1>1, <1>2

\* index_tx gives each transaction of a block its own transactionIndex and its
\* logs their own logIndexes, whatever forks, duplicates, retries, restarts and
\* provisional receipts do to the rows in between.
THEOREM PositionsAreUnique == Spec => []UniquePositions
<1>1. Init => PositionInv
  <2> SUFFICES ASSUME Init PROVE PositionInv
    OBVIOUS
  <2>1. \A t \in Tx : ~Authoritative(t)
    BY DEF Init, Authoritative
  <2>2. QED
    BY <2>1, TypeInit DEF PositionInv, BelowCounters, UniquePositions
<1>2. PositionInv /\ [Next]_vars => PositionInv'
  BY PositionStep
<1>3. PositionInv => UniquePositions
  BY DEF PositionInv
<1>4. QED
  BY <1>1, <1>2, <1>3, PTL DEF Spec

-----------------------------------------------------------------------------
(* The cursor *)

\* A Koinos transaction is at one place of the history.
UniqueKids == \A i, j \in DOMAIN history : history[i].kid = history[j].kid => i = j

\* No fork switch can take an entry at this height away.
Fixed(height, final) == MaxReorgs = 0 \/ height <= final

\* An entry that is fixed stays where it is; what is new is above the LIB and
\* was not included before.
LEMMA HistoryChanges ==
  ASSUME TypeInv, UniqueKids, [Next]_vars
  PROVE  /\ lib' >= lib
         /\ \A i \in DOMAIN history : Fixed(history[i].height, lib) =>
              i \in DOMAIN history' /\ history'[i] = history[i]
         /\ \A i \in DOMAIN history' :
              \/ i \in DOMAIN history /\ history'[i] = history[i]
              \/ /\ i > Len(history) /\ history'[i].height > lib'
                 /\ ~Included(history'[i].kid)
                 /\ history'[i].ok => KTx[history'[i].kid] # NotEvm
         /\ UniqueKids'
<1>0. /\ history \in Seq(Entry) /\ Len(history) \in Nat /\ DOMAIN history = 1..Len(history)
      /\ lib \in Nat /\ head \in Nat /\ lib <= head
      /\ \A i \in DOMAIN history : history[i].height \in Nat
  <2>1. history \in Seq(Entry) /\ lib \in 0..head /\ head \in 0..MaxHeight
    BY DEF TypeInv, TypeOK
  <2>2. \A i \in DOMAIN history : history[i] \in Entry
    BY <2>1
  <2>3. \A i \in DOMAIN history : history[i].height \in Nat
    BY <2>2, IndexingAssumption DEF Entry, Height
  <2>4. QED
    BY <2>1, <2>3, IndexingAssumption
<1>1. CASE history' = history /\ lib' >= lib
  BY <1>1 DEF UniqueKids
<1>2. CASE NewBlock
  <2>1. PICK n \in 0..BlockCap : \E new \in [1..n -> Entry] :
           /\ history' = history \o new /\ new \in Seq(Entry) /\ Len(new) = n
           /\ \A i \in 1..n : new[i].height = head + 1 /\ ~Included(new[i].kid)
           /\ \A i, j \in 1..n : new[i].kid = new[j].kid => i = j
           /\ \A i \in 1..n : new[i].ok => KTx[new[i].kid] # NotEvm
    BY <1>2, NewBlockHistory DEF TypeInv
  <2>2. PICK new \in [1..n -> Entry] :
           /\ history' = history \o new /\ new \in Seq(Entry) /\ Len(new) = n
           /\ \A i \in 1..n : new[i].height = head + 1 /\ ~Included(new[i].kid)
           /\ \A i, j \in 1..n : new[i].kid = new[j].kid => i = j
           /\ \A i \in 1..n : new[i].ok => KTx[new[i].kid] # NotEvm
    BY <2>1
  <2>3. n \in Nat
    BY IndexingAssumption
  <2>4. /\ DOMAIN history' = 1..(Len(history) + n)
        /\ \A i \in 1..Len(history) : history'[i] = history[i]
        /\ \A i \in (Len(history) + 1)..(Len(history) + n) : history'[i] = new[i - Len(history)]
    <3>0. history \in Seq(Entry) /\ new \in Seq(Entry) /\ Len(new) = n /\ history' = history \o new
      BY <1>0, <2>2
    <3>1. history' \in Seq(Entry) /\ Len(history') = Len(history) + n
      BY <3>0, ConcatProperties
    <3>2. DOMAIN history' = 1..(Len(history) + n)
      BY <3>1
    <3>3. \A i \in 1..(Len(history) + n) :
             history'[i] = IF i <= Len(history) THEN history[i] ELSE new[i - Len(history)]
      BY <3>0, ConcatProperties
    <3>4. QED
      BY <1>0, <2>3, <3>2, <3>3
  <2>5. lib' = lib
    BY <1>2 DEF NewBlock
  <2>6. \A i \in DOMAIN history' :
          \/ i \in DOMAIN history /\ history'[i] = history[i]
          \/ i \in (Len(history) + 1)..(Len(history) + n) /\ i - Len(history) \in 1..n
    BY <1>0, <2>3, <2>4
  <2>7. \A i \in DOMAIN history' :
          i \notin DOMAIN history =>
            /\ i > Len(history) /\ history'[i].height > lib'
            /\ ~Included(history'[i].kid)
            /\ history'[i].ok => KTx[history'[i].kid] # NotEvm
    BY <1>0, <2>2, <2>3, <2>4, <2>5, <2>6
  <2>8. UniqueKids'
    <3> SUFFICES ASSUME NEW i \in DOMAIN history', NEW j \in DOMAIN history',
                        history'[i].kid = history'[j].kid
                 PROVE  i = j
      BY DEF UniqueKids
    <3>1. CASE i \in DOMAIN history /\ j \in DOMAIN history
      BY <1>0, <2>4, <3>1 DEF UniqueKids
    <3>2. CASE i \in DOMAIN history /\ j \notin DOMAIN history
      BY <1>0, <2>4, <2>7, <3>2 DEF Included
    <3>3. CASE i \notin DOMAIN history /\ j \in DOMAIN history
      BY <1>0, <2>4, <2>7, <3>3 DEF Included
    <3>4. CASE i \notin DOMAIN history /\ j \notin DOMAIN history
      <4>1. /\ i - Len(history) \in 1..n /\ j - Len(history) \in 1..n
            /\ history'[i] = new[i - Len(history)] /\ history'[j] = new[j - Len(history)]
        BY <2>4, <2>6, <3>4
      <4>2. i - Len(history) = j - Len(history)
        BY <2>2, <4>1
      <4>3. i \in Nat /\ j \in Nat
        BY <2>3, <2>4, <1>0
      <4>4. QED
        BY <1>0, <4>2, <4>3
    <3>5. QED
      BY <3>1, <3>2, <3>3, <3>4
  <2>9. \A i \in DOMAIN history : i \in DOMAIN history' /\ history'[i] = history[i]
    BY <1>0, <2>3, <2>4
  <2>10. QED
    BY <1>0, <2>5, <2>6, <2>7, <2>8, <2>9
<1>3. CASE Reorg
  <2>1. PICK h \in lib..(head - 1), n \in 0..Len(history) :
          /\ \A i \in DOMAIN history : i <= n <=> history[i].height <= h
          /\ history' = SubSeq(history, 1, n)
    BY <1>3 DEF Reorg
  <2>2. lib' = lib /\ MaxReorgs # 0
    BY <1>3, IndexingAssumption DEF Reorg, TypeInv, TypeOK
  <2>3. DOMAIN history' = 1..n /\ \A i \in 1..n : history'[i] = history[i]
    <3>1. \A i \in 1..n : history[i] \in Entry
      BY <1>0
    <3>2. /\ history' \in Seq(Entry) /\ Len(history') = IF 1 <= n THEN n - 1 + 1 ELSE 0
          /\ \A i \in 1..(n - 1 + 1) : history'[i] = history[1 + i - 1]
      BY <1>0, <2>1, <3>1, SubSeqProperties
    <3>3. Len(history') = n /\ \A i \in 1..n : history'[i] = history[i]
      BY <1>0, <3>2
    <3>4. QED
      BY <3>2, <3>3
  <2>4. \A i \in DOMAIN history : Fixed(history[i].height, lib) => i <= n
    BY <1>0, <2>1, <2>2 DEF Fixed
  <2>5. 1..n \subseteq DOMAIN history
    BY <1>0
  <2>6. UniqueKids'
    BY <2>3, <2>5 DEF UniqueKids
  <2>7. \A i \in DOMAIN history : i <= n => i \in 1..n
    BY <1>0
  <2>8. QED
    BY <1>0, <2>2, <2>3, <2>4, <2>5, <2>6, <2>7
<1>4. CASE AdvanceLib
  BY <1>0, <1>1, <1>4 DEF AdvanceLib
<1>5. CASE ~NewBlock /\ ~Reorg /\ ~AdvanceLib
  <2>1. UNCHANGED nodeVars
    <3>1. CASE UNCHANGED vars
      BY <3>1 DEF vars
    <3>2. CASE Next
      BY <1>5, <3>2 DEF Next, Index, RecordRelay, Evict, PollStart, PollFetch, PollMiss,
           HandlerUpsert, HandlerFetch, SetReceipt, StartCycle, FetchPage, AbortCycle,
           PersistCursor, ProcessEvm, ProcessNotEvm, ProcessFails, Restart
    <3>3. QED
      BY <3>1, <3>2
  <2>2. QED
    BY <1>0, <1>1, <2>1 DEF nodeVars
<1>6. QED
  BY <1>2, <1>3, <1>4, <1>5

\* In a cycle the candidate follows the entries up to the first one that failed
\* or is reversible; every entry behind it is fixed for the LIB of the cycle.
CycleInv ==
  ixPc # "idle" =>
    /\ ixLib <= lib
    /\ cursor <= candidate /\ candidate < nextSeq
    /\ ~frozen => candidate = nextSeq - 1
    /\ candidate <= Len(history)
    /\ \A i \in 1..candidate : Fixed(history[i].height, ixLib)

\* A page may be older than the history, but what both have in common below
\* the cycle's LIB is at the same place in both.
PageInv ==
  /\ ixPc = "idle" => page = <<>>
  /\ \A j \in DOMAIN page : \A i \in DOMAIN history :
       Fixed(history[i].height, ixLib) /\ history[i].kid = page[j].kid =>
         i = nextSeq + j - 1 /\ history[i] = page[j]
  /\ MaxReorgs = 0 =>
       \A j \in DOMAIN page :
         nextSeq + j - 1 \in DOMAIN history /\ history[nextSeq + j - 1] = page[j]

\* The persisted cursor is behind the LIB.
CursorInv ==
  /\ cursor <= Len(history)
  /\ \A i \in 1..cursor : Fixed(history[i].height, lib)

HistoryInv == TypeInv /\ UniqueKids /\ CycleInv /\ PageInv /\ CursorInv

\* Every relayed entry carries an EVM transaction, or the chain has no forks.
ForksSafe == MaxReorgs = 0 \/ \A k \in Kid : KTx[k] # NotEvm

\* Numbers, for the arithmetic below.
LEMMA IndexNumbers ==
  ASSUME TypeInv
  PROVE  /\ history \in Seq(Entry) /\ Len(history) \in Nat /\ DOMAIN history = 1..Len(history)
         /\ cursor \in Nat /\ candidate \in Nat /\ nextSeq \in Nat \ {0}
         /\ lib \in Nat /\ ixLib \in Nat
         /\ page \in Seq(Entry) /\ Len(page) \in Nat /\ DOMAIN page = 1..Len(page)
         /\ \A i \in DOMAIN history : history[i] \in Entry /\ history[i].height \in Nat
<1>1. /\ history \in Seq(Entry) /\ page \in Seq(Entry) /\ lib \in 0..head /\ head \in 0..MaxHeight
      /\ cursor \in Nat /\ candidate \in Nat /\ nextSeq \in Nat \ {0} /\ ixLib \in 0..MaxHeight
  BY DEF TypeInv, TypeOK
<1>2. \A i \in DOMAIN history : history[i] \in Entry
  BY <1>1
<1>3. \A i \in DOMAIN history : history[i].height \in Nat
  BY <1>2, IndexingAssumption DEF Entry, Height
<1>4. QED
  BY <1>1, <1>2, <1>3, IndexingAssumption, LenProperties

\* Outside the indexer the cycle stands still and so does the cursor.
LEMMA OutsideIndexer ==
  ASSUME [Next]_vars, ~Index, ~Restart
  PROVE  UNCHANGED ixVars /\ cursor' = cursor
<1>1. CASE UNCHANGED vars
  BY <1>1 DEF vars, dbVars
<1>2. CASE Next
  BY <1>2 DEF Next, NewBlock, AdvanceLib, Reorg, RecordRelay, Evict, PollStart, PollFetch, PollMiss,
       HandlerUpsert, HandlerFetch, SetReceipt, dbVars
<1>3. QED
  BY <1>1, <1>2

\* The indexer does not touch the chain.
LEMMA IndexerReads ==
  ASSUME Index \/ Restart
  PROVE  history' = history /\ lib' = lib
BY DEF Index, StartCycle, FetchPage, AbortCycle, PersistCursor, ProcessEvm, ProcessNotEvm,
       ProcessFails, Restart, nodeVars

LEMMA HistoryOutside ==
  ASSUME HistoryInv, [Next]_vars, ~Index, ~Restart
  PROVE  CycleInv' /\ PageInv' /\ CursorInv'
<1>0. /\ TypeInv /\ UniqueKids /\ CycleInv /\ PageInv /\ CursorInv /\ TypeInv'
  BY TypeStep DEF HistoryInv
<1>1. /\ ixPc' = ixPc /\ ixLib' = ixLib /\ nextSeq' = nextSeq /\ candidate' = candidate
      /\ frozen' = frozen /\ page' = page /\ cursor' = cursor
  BY OutsideIndexer DEF ixVars
<1>2. /\ history \in Seq(Entry) /\ Len(history) \in Nat /\ DOMAIN history = 1..Len(history)
      /\ cursor \in Nat /\ candidate \in Nat /\ nextSeq \in Nat \ {0} /\ lib \in Nat /\ ixLib \in Nat
      /\ \A i \in DOMAIN history : history[i].height \in Nat
  BY <1>0, IndexNumbers
<1>3. /\ Len(history') \in Nat /\ DOMAIN history' = 1..Len(history') /\ lib' \in Nat
      /\ \A i \in DOMAIN history' : history'[i].height \in Nat
  <2>1. history' \in Seq(Entry) /\ lib' \in 0..head' /\ head' \in 0..MaxHeight
    BY <1>0 DEF TypeInv, TypeOK
  <2>2. \A i \in DOMAIN history' : history'[i] \in Entry
    BY <2>1
  <2>3. QED
    BY <2>1, <2>2, IndexingAssumption, LenProperties DEF Entry, Height
<1>4. /\ lib' >= lib
      /\ \A i \in DOMAIN history : Fixed(history[i].height, lib) =>
           i \in DOMAIN history' /\ history'[i] = history[i]
      /\ \A i \in DOMAIN history' :
           \/ i \in DOMAIN history /\ history'[i] = history[i]
           \/ /\ i > Len(history) /\ history'[i].height > lib'
              /\ ~Included(history'[i].kid)
  BY <1>0, HistoryChanges
<1>5. ASSUME NEW n \in Nat, NEW f \in Nat, f <= lib, n <= Len(history),
             \A i \in 1..n : Fixed(history[i].height, f)
      PROVE  n <= Len(history') /\ \A i \in 1..n : history'[i] = history[i]
  <2>1. \A i \in 1..n : i \in DOMAIN history /\ Fixed(history[i].height, lib)
    BY <1>2, <1>5 DEF Fixed
  <2>2. \A i \in 1..n : i \in DOMAIN history' /\ history'[i] = history[i]
    BY <1>4, <2>1
  <2>3. n <= Len(history')
    BY <1>3, <2>2
  <2>4. QED
    BY <2>2, <2>3
<1>6. CycleInv'
  <2> SUFFICES ASSUME ixPc # "idle" PROVE CycleInv'
    BY <1>1 DEF CycleInv
  <2>1. /\ ixLib <= lib /\ cursor <= candidate /\ candidate < nextSeq
        /\ ~frozen => candidate = nextSeq - 1
        /\ candidate <= Len(history)
        /\ \A i \in 1..candidate : Fixed(history[i].height, ixLib)
    BY <1>0 DEF CycleInv
  <2>2. candidate <= Len(history') /\ \A i \in 1..candidate : history'[i] = history[i]
    BY <1>2, <1>5, <2>1
  <2>3. ixLib <= lib'
    BY <1>2, <1>3, <1>4, <2>1
  <2>4. \A i \in 1..candidate : Fixed(history'[i].height, ixLib)
    BY <2>1, <2>2
  <2>5. /\ ixLib' <= lib' /\ cursor' <= candidate' /\ candidate' < nextSeq'
        /\ ~frozen' => candidate' = nextSeq' - 1
        /\ candidate' <= Len(history')
    BY <1>1, <2>1, <2>2, <2>3
  <2>6. \A i \in 1..candidate' : Fixed(history'[i].height, ixLib')
    BY <1>1, <2>4
  <2>7. QED
    BY <2>5, <2>6 DEF CycleInv
<1>7. CursorInv'
  <2>1. cursor <= Len(history) /\ \A i \in 1..cursor : Fixed(history[i].height, lib)
    BY <1>0 DEF CursorInv
  <2>2. cursor <= Len(history') /\ \A i \in 1..cursor : history'[i] = history[i]
    <3>1. lib <= lib
      BY <1>2
    <3>2. QED
      BY <1>2, <1>5, <2>1, <3>1, Zenon
  <2>3. \A i \in 1..cursor : history[i].height \in Nat
    BY <1>2, <2>1
  <2>4. \A i \in 1..cursor : Fixed(history'[i].height, lib')
    BY <1>2, <1>3, <1>4, <2>1, <2>2, <2>3 DEF Fixed
  <2>5. QED
    BY <1>1, <2>2, <2>4 DEF CursorInv
<1>8. PageInv'
  <2>1. CASE ixPc = "idle"
    <3>1. page' = <<>>
      BY <1>0, <1>1, <2>1 DEF PageInv
    <3>2. DOMAIN page' = {}
      BY <3>1
    <3>3. QED
      BY <1>1, <3>1, <3>2 DEF PageInv
  <2>2. CASE ixPc # "idle"
    <3>1. ixLib <= lib
      BY <1>0, <2>2 DEF CycleInv
    <3>2. ASSUME NEW j \in DOMAIN page, NEW i \in DOMAIN history',
                 Fixed(history'[i].height, ixLib), history'[i].kid = page[j].kid
          PROVE  i = nextSeq + j - 1 /\ history'[i] = page[j]
      <4>1. CASE i \in DOMAIN history /\ history'[i] = history[i]
        BY <1>0, <3>2, <4>1 DEF PageInv
      <4>2. CASE history'[i].height > lib' /\ ~Included(history'[i].kid)
        <5>1. MaxReorgs = 0
          BY <1>2, <1>3, <1>4, <3>1, <3>2, <4>2 DEF Fixed
        <5>2. nextSeq + j - 1 \in DOMAIN history /\ history[nextSeq + j - 1] = page[j]
          BY <1>0, <5>1 DEF PageInv
        <5>3. QED
          BY <3>2, <4>2, <5>2 DEF Included
      <4>3. QED
        BY <1>4, <4>1, <4>2
    <3>3. ASSUME MaxReorgs = 0, NEW j \in DOMAIN page
          PROVE  nextSeq + j - 1 \in DOMAIN history' /\ history'[nextSeq + j - 1] = page[j]
      <4>1. nextSeq + j - 1 \in DOMAIN history /\ history[nextSeq + j - 1] = page[j]
        BY <1>0, <3>3 DEF PageInv
      <4>2. QED
        BY <1>4, <3>3, <4>1 DEF Fixed
    <3>4. QED
      BY <1>1, <2>2, <3>2, <3>3 DEF PageInv
  <2>3. QED
    BY <2>1, <2>2
<1>9. QED
  BY <1>6, <1>7, <1>8

\* What the indexer's entry is: if the block it is found in is fixed for the
\* cycle it is the entry at nextSeq.
LEMMA EntryPlace ==
  ASSUME HistoryInv, ProcessEvm, Fixed(At1.height, ixLib)
  PROVE  nextSeq \in DOMAIN history /\ history[nextSeq] = Entry1 /\ At1 = Entry1
<1>1. TypeInv /\ PageInv
  BY DEF HistoryInv
<1>2. page # <<>> /\ page \in Seq(Entry) /\ nextSeq \in Nat
  BY <1>1 DEF ProcessEvm, NextEntry, TypeInv, TypeOK
<1>3. 1 \in DOMAIN page /\ page[1] = Entry1
  BY <1>2 DEF Entry1
<1>4. Included(Entry1.kid)
  BY DEF ProcessEvm, Entry1
<1>5. PICK i \in DOMAIN history : At1 = history[i] /\ history[i].kid = Entry1.kid
  BY <1>1, <1>4, LocatedIsThere DEF At1, TypeInv
<1>6. i = nextSeq + 1 - 1 /\ history[i] = page[1]
  BY <1>1, <1>3, <1>5 DEF PageInv
<1>7. i = nextSeq
  BY <1>2, <1>6
<1>8. QED
  BY <1>3, <1>5, <1>6, <1>7

\* The entry of another kind that is passed unseen is there, if nothing can
\* have taken it away.
LEMMA OtherPlace ==
  ASSUME ForksSafe, HistoryInv, ProcessNotEvm
  PROVE  MaxReorgs = 0 /\ nextSeq \in DOMAIN history /\ history[nextSeq] = Entry1
<1>1. TypeInv /\ PageInv
  BY DEF HistoryInv
<1>2. page # <<>> /\ page \in Seq(Entry) /\ nextSeq \in Nat
  BY <1>1 DEF ProcessNotEvm, NextEntry, TypeInv, TypeOK
<1>3. 1 \in DOMAIN page /\ page[1] = Entry1 /\ Entry1 \in Entry
  BY <1>2 DEF Entry1
<1>4. MaxReorgs = 0
  BY <1>3 DEF ForksSafe, ProcessNotEvm, Entry1, Entry
<1>5. nextSeq + 1 - 1 \in DOMAIN history /\ history[nextSeq + 1 - 1] = page[1]
  BY <1>1, <1>3, <1>4 DEF PageInv
<1>6. nextSeq + 1 - 1 = nextSeq
  BY <1>2
<1>7. QED
  BY <1>3, <1>4, <1>5, <1>6

\* How the cursor's candidate moves with an entry.
LEMMA CandidateMoves ==
  ASSUME ForksSafe, HistoryInv, ProcessEvm \/ ProcessNotEvm \/ ProcessFails
  PROVE  /\ ixPc = "entries" /\ ixPc' # "idle" /\ nextSeq' = nextSeq + 1 /\ page' = Tail(page)
         /\ page # <<>> /\ ixLib' = ixLib /\ cursor' = cursor
         /\ \/ candidate' = candidate /\ (~frozen' => candidate' = nextSeq' - 1)
            \/ /\ ~frozen /\ candidate' = nextSeq /\ candidate = nextSeq - 1
               /\ nextSeq \in DOMAIN history /\ Fixed(history[nextSeq].height, ixLib)
               /\ history[nextSeq] = Entry1
               /\ ProcessEvm \/ KTx[Entry1.kid] = NotEvm
<1>1. NextEntry /\ TypeInv /\ CycleInv
  BY DEF ProcessEvm, ProcessNotEvm, ProcessFails, HistoryInv
<1>2. /\ ixPc = "entries" /\ ixPc' # "idle" /\ nextSeq' = nextSeq + 1 /\ page' = Tail(page)
      /\ ixLib' = ixLib /\ page # <<>> /\ nextSeq \in Nat /\ candidate \in Nat
  BY <1>1 DEF NextEntry, TypeInv, TypeOK
<1>3. cursor' = cursor
  BY DEF ProcessEvm, ProcessNotEvm, ProcessFails, dbVars
<1>4. ~frozen => candidate = nextSeq - 1
  BY <1>1, <1>2 DEF CycleInv
<1>5. CASE ProcessEvm
  <2>1. Follow(At1.height)
    BY <1>5 DEF ProcessEvm, At1, Entry1
  <2>2. CASE ~frozen /\ At1.height <= ixLib
    <3>1. candidate' = nextSeq
      BY <2>1, <2>2 DEF Follow
    <3>2. nextSeq \in DOMAIN history /\ history[nextSeq] = Entry1 /\ At1 = Entry1
      BY <1>5, <2>2, EntryPlace DEF Fixed
    <3>3. QED
      BY <1>2, <1>3, <1>4, <1>5, <2>2, <3>1, <3>2 DEF Fixed
  <2>3. CASE ~(~frozen /\ At1.height <= ixLib)
    <3>1. frozen' /\ candidate' = candidate
      BY <2>1, <2>3 DEF Follow
    <3>2. QED
      BY <1>2, <1>3, <3>1
  <2>4. QED
    BY <2>2, <2>3
<1>6. CASE ProcessNotEvm
  <2>1. MaxReorgs = 0 /\ nextSeq \in DOMAIN history /\ history[nextSeq] = Entry1
    BY <1>6, OtherPlace
  <2>2. KTx[Entry1.kid] = NotEvm /\ frozen' = frozen
        /\ candidate' = IF frozen THEN candidate ELSE nextSeq
    BY <1>6 DEF ProcessNotEvm, Entry1
  <2>3. QED
    BY <1>2, <1>3, <1>4, <2>1, <2>2 DEF Fixed
<1>7. CASE ProcessFails
  BY <1>2, <1>3, <1>7 DEF ProcessFails
<1>8. QED
  BY <1>5, <1>6, <1>7

LEMMA HistoryEntries ==
  ASSUME ForksSafe, HistoryInv, ProcessEvm \/ ProcessNotEvm \/ ProcessFails
  PROVE  CycleInv' /\ PageInv' /\ CursorInv'
<1>0. TypeInv /\ CycleInv /\ PageInv /\ CursorInv
  BY DEF HistoryInv
<1>1. history' = history /\ lib' = lib
  BY IndexerReads DEF Index
<1>2. /\ history \in Seq(Entry) /\ Len(history) \in Nat /\ DOMAIN history = 1..Len(history)
      /\ cursor \in Nat /\ candidate \in Nat /\ nextSeq \in Nat \ {0} /\ lib \in Nat /\ ixLib \in Nat
      /\ page \in Seq(Entry) /\ Len(page) \in Nat /\ DOMAIN page = 1..Len(page)
  BY <1>0, IndexNumbers
<1>3. /\ ixPc = "entries" /\ ixPc' # "idle" /\ nextSeq' = nextSeq + 1 /\ page' = Tail(page)
      /\ page # <<>> /\ ixLib' = ixLib /\ cursor' = cursor
      /\ \/ candidate' = candidate /\ (~frozen' => candidate' = nextSeq' - 1)
         \/ /\ ~frozen /\ candidate' = nextSeq /\ candidate = nextSeq - 1
            /\ nextSeq \in DOMAIN history /\ Fixed(history[nextSeq].height, ixLib)
  BY CandidateMoves
<1>4. /\ ixLib <= lib /\ cursor <= candidate /\ candidate < nextSeq
      /\ candidate <= Len(history)
      /\ \A i \in 1..candidate : Fixed(history[i].height, ixLib)
  BY <1>0, <1>3 DEF CycleInv
<1>5. CycleInv'
  <2>1. CASE candidate' = candidate /\ (~frozen' => candidate' = nextSeq' - 1)
    BY <1>1, <1>2, <1>3, <1>4, <2>1 DEF CycleInv
  <2>2. CASE /\ candidate' = nextSeq /\ candidate = nextSeq - 1
             /\ nextSeq \in DOMAIN history /\ Fixed(history[nextSeq].height, ixLib)
    <3>1. /\ cursor' <= candidate' /\ candidate' < nextSeq' /\ candidate' = nextSeq' - 1
          /\ candidate' <= Len(history')
      BY <1>1, <1>2, <1>3, <1>4, <2>2
    <3>2. \A i \in 1..candidate' : i \in 1..candidate \/ i = nextSeq
      BY <1>2, <2>2
    <3>3. \A i \in 1..candidate' : Fixed(history'[i].height, ixLib')
      BY <1>1, <1>3, <1>4, <2>2, <3>2
    <3>4. QED
      BY <1>1, <1>3, <1>4, <3>1, <3>3 DEF CycleInv
  <2>3. QED
    BY <1>3, <2>1, <2>2
<1>6. CursorInv'
  BY <1>0, <1>1, <1>3 DEF CursorInv
<1>7. PageInv'
  <2>1. /\ page' \in Seq(Entry) /\ Len(page') = Len(page) - 1
        /\ \A j \in 1..Len(page') : page'[j] = page[j + 1]
    BY <1>2, <1>3, HeadTailProperties
  <2>2. DOMAIN page' = 1..Len(page')
    BY <2>1
  <2>3. \A j \in DOMAIN page' :
          /\ j + 1 \in DOMAIN page /\ page'[j] = page[j + 1]
          /\ nextSeq' + j - 1 = nextSeq + (j + 1) - 1
    BY <1>2, <1>3, <2>1, <2>2
  <2>4. QED
    BY <1>0, <1>1, <1>3, <2>3 DEF PageInv
<1>8. QED
  BY <1>5, <1>6, <1>7

LEMMA HistoryCycle ==
  ASSUME ForksSafe, HistoryInv, Index \/ Restart
  PROVE  CycleInv' /\ PageInv' /\ CursorInv'
<1>0. TypeInv /\ UniqueKids /\ CycleInv /\ PageInv /\ CursorInv
  BY DEF HistoryInv
<1>1. history' = history /\ lib' = lib
  BY IndexerReads
<1>2. /\ history \in Seq(Entry) /\ Len(history) \in Nat /\ DOMAIN history = 1..Len(history)
      /\ cursor \in Nat /\ candidate \in Nat /\ nextSeq \in Nat \ {0} /\ lib \in Nat /\ ixLib \in Nat
      /\ \A i \in DOMAIN history : history[i].height \in Nat
  BY <1>0, IndexNumbers
<1>3. ASSUME EndCycle PROVE CycleInv' /\ PageInv'
  <2>1. ixPc' = "idle" /\ page' = <<>>
    BY <1>3 DEF EndCycle
  <2>2. DOMAIN page' = {}
    BY <2>1
  <2>3. QED
    BY <2>1, <2>2 DEF CycleInv, PageInv
<1>4. CASE AbortCycle \/ Restart
  <2>1. EndCycle /\ cursor' = cursor
    BY <1>4 DEF AbortCycle, Restart, dbVars
  <2>2. CursorInv'
    BY <1>0, <1>1, <2>1 DEF CursorInv
  <2>3. QED
    BY <1>3, <2>1, <2>2
<1>5. CASE PersistCursor
  <2>1. EndCycle /\ cursor' = candidate /\ ixPc # "idle"
    BY <1>5 DEF PersistCursor
  <2>2. /\ ixLib <= lib /\ candidate <= Len(history)
        /\ \A i \in 1..candidate : Fixed(history[i].height, ixLib)
    BY <1>0, <2>1 DEF CycleInv
  <2>3. \A i \in 1..candidate : i \in DOMAIN history
    BY <1>2, <2>2
  <2>4. \A i \in 1..candidate : Fixed(history[i].height, lib)
    BY <1>2, <2>2, <2>3 DEF Fixed
  <2>5. CursorInv'
    BY <1>1, <2>1, <2>2, <2>4 DEF CursorInv
  <2>6. QED
    BY <1>3, <2>1, <2>5
<1>6. CASE StartCycle
  <2>1. /\ ixPc' = "page" /\ ixLib' = lib /\ nextSeq' = cursor + 1 /\ candidate' = cursor
        /\ page' = page /\ cursor' = cursor /\ ixPc = "idle"
    BY <1>6 DEF StartCycle, dbVars
  <2>2. page' = <<>>
    BY <1>0, <2>1 DEF PageInv
  <2>3. DOMAIN page' = {}
    BY <2>2
  <2>4. PageInv'
    BY <2>2, <2>3 DEF PageInv
  <2>5. cursor <= Len(history) /\ \A i \in 1..cursor : Fixed(history[i].height, lib)
    BY <1>0 DEF CursorInv
  <2>6. CursorInv'
    BY <1>1, <2>1, <2>5 DEF CursorInv
  <2>7. /\ ixLib' <= lib' /\ cursor' <= candidate' /\ candidate' < nextSeq'
        /\ candidate' = nextSeq' - 1 /\ candidate' <= Len(history')
    BY <1>1, <1>2, <2>1, <2>5
  <2>8. CycleInv'
    BY <1>1, <2>1, <2>5, <2>7 DEF CycleInv
  <2>9. QED
    BY <2>4, <2>6, <2>8
<1>7. CASE FetchPage
  <2>1. PICK last \in Nat : PageUpTo(last)
    BY <1>0, <1>7, PageFetched DEF TypeInv
  <2>2. \A j \in DOMAIN page' : nextSeq + j - 1 \in DOMAIN history /\ page'[j] = history[nextSeq + j - 1]
    BY <1>0, <2>1, PageType DEF TypeInv
  <2>3. /\ ixPc = "page" /\ ixPc' # "idle" /\ ixLib' = ixLib /\ nextSeq' = nextSeq /\ candidate' = candidate
        /\ frozen' = frozen /\ cursor' = cursor
    <3>1. ixPc' # "idle"
      BY <2>1 DEF PageUpTo
    <3>2. QED
      BY <1>7, <3>1 DEF FetchPage, dbVars
  <2>4. CycleInv' /\ CursorInv'
    BY <1>0, <1>1, <2>3 DEF CycleInv, CursorInv
  <2>5. ASSUME NEW j \in DOMAIN page', NEW i \in DOMAIN history, history[i].kid = page'[j].kid
        PROVE  i = nextSeq + j - 1 /\ history[i] = page'[j]
    BY <1>0, <2>2, <2>5 DEF UniqueKids
  <2>6. PageInv'
    BY <1>1, <2>2, <2>3, <2>5 DEF PageInv
  <2>7. QED
    BY <2>4, <2>6
<1>8. QED
  BY <1>4, <1>5, <1>6, <1>7, HistoryEntries DEF Index

LEMMA HistoryStep ==
  ASSUME ForksSafe, HistoryInv, [Next]_vars
  PROVE  HistoryInv'
<1>1. TypeInv' /\ UniqueKids'
  BY TypeStep, HistoryChanges DEF HistoryInv
<1>2. CASE Index \/ Restart
  BY <1>1, <1>2, HistoryCycle DEF HistoryInv
<1>3. CASE ~Index /\ ~Restart
  BY <1>1, <1>3, HistoryOutside DEF HistoryInv
<1>4. QED
  BY <1>2, <1>3

LEMMA HistoryInit == Init => HistoryInv
<1> SUFFICES ASSUME Init PROVE HistoryInv
  OBVIOUS
<1>1. TypeInv
  BY TypeInit
<1>2. history = <<>> /\ page = <<>> /\ ixPc = "idle" /\ cursor = 0
  BY DEF Init
<1>3. DOMAIN history = {} /\ DOMAIN page = {} /\ Len(history) = 0 /\ 1..cursor = {}
  BY <1>2
<1>4. UniqueKids /\ CycleInv /\ PageInv
  BY <1>2, <1>3 DEF UniqueKids, CycleInv, PageInv
<1>5. CursorInv
  BY <1>2, <1>3 DEF CursorInv
<1>6. QED
  BY <1>1, <1>4, <1>5 DEF HistoryInv

-----------------------------------------------------------------------------
(* Nothing is skipped *)

Settled(t) == rows[t] # None /\ rows[t].status # None

\* A settled row is never unsettled again.
LEMMA SettledStays ==
  ASSUME TypeInv, [Next]_vars, NEW t \in Tx, Settled(t)
  PROVE  Settled(t)'
<1>1. rows'[t] = rows[t] \/ ByUpsert(t) \/ ByBump(t) \/ ByReceipt(t) \/ ByIndexing(t)
  BY RowChanges
<1>2. TypeInv' /\ rows[t] # None /\ rows[t].status # None /\ rows[t] \in Row
  BY TypeStep, RowFields DEF Settled
<1>3. CASE rows'[t] = rows[t]
  BY <1>2, <1>3 DEF Settled
<1>4. CASE ByUpsert(t)
  <2>1. rows'[t] \in Row /\ rows'[t].status = rows[t].status
    BY <1>2, <1>4, RowFields
  <2>2. QED
    BY <1>2, <2>1, NoneAssumption DEF Settled
<1>5. CASE ByBump(t)
  <2>1. rows'[t] \in Row
    BY <1>2, <1>5, IndexingAssumption DEF ByBump, Row
  <2>2. rows'[t].status = rows[t].status
    BY <1>5, RowFields
  <2>3. QED
    BY <1>2, <2>1, <2>2, NoneAssumption DEF Settled
<1>6. CASE ByReceipt(t)
  <2>1. PICK s \in Settler : held[s] \in Receipt /\ rows[t] # None /\ rows'[t] = ReceiptRow(t, held[s])
    BY <1>6 DEF ByReceipt
  <2>2. rows'[t] \in Row /\ rows'[t].status \in BOOLEAN
    BY <1>6, <2>1, ReceiptRowType, RowFields DEF TypeInv
  <2>3. QED
    BY <2>2, NoneAssumption DEF Settled
<1>7. CASE ByIndexing(t)
  <2>1. Entry1 \in Entry /\ At1 \in Entry
    BY <1>7, EvmRows DEF ByIndexing, Entry1, At1
  <2>2. rows'[t] \in Row /\ rows'[t].status = Entry1.ok
    BY <1>7, <2>1, IndexedRowType DEF ByIndexing, TypeInv
  <2>3. Entry1.ok \in BOOLEAN
    BY <2>1 DEF Entry
  <2>4. QED
    BY <2>2, <2>3, NoneAssumption DEF Settled
<1>8. QED
  BY <1>1, <1>3, <1>4, <1>5, <1>6, <1>7

\* The entry that has been processed has a settled row: index_tx wrote it, or
\* left an authoritative one alone.
LEMMA EvmSettles ==
  ASSUME PositionInv, ProcessEvm
  PROVE  Tx1 \in Tx /\ rows'[Tx1] # None /\ rows'[Tx1].status # None
<1>1. /\ Entry1 \in Entry /\ Tx1 \in Tx /\ At1 \in Entry
      /\ \/ SkipsIndexing(Tx1, At1.height, Entry1.ok) /\ UNCHANGED <<rows, blocks>>
         \/ /\ ~SkipsIndexing(Tx1, At1.height, Entry1.ok)
            /\ rows' = [rows EXCEPT ![Tx1] = IndexedRow(Tx1, Entry1, At1)]
  BY EvmRows DEF PositionInv, Entry1, Tx1, At1
<1>2. CASE SkipsIndexing(Tx1, At1.height, Entry1.ok) /\ UNCHANGED <<rows, blocks>>
  <2>1. Authoritative(Tx1)
    BY <1>2 DEF SkipsIndexing, Authoritative
  <2>2. rows[Tx1].status \in BOOLEAN
    BY <1>1, <2>1 DEF PositionInv, BelowCounters
  <2>3. QED
    BY <1>1, <1>2, <2>1, <2>2, NoneAssumption DEF Authoritative
<1>3. CASE rows' = [rows EXCEPT ![Tx1] = IndexedRow(Tx1, Entry1, At1)]
  <2>1. rows'[Tx1] = IndexedRow(Tx1, Entry1, At1)
    BY <1>1, <1>3 DEF PositionInv, TypeInv, TypeOK
  <2>2. rows'[Tx1] \in Row /\ rows'[Tx1].status = Entry1.ok
    BY <1>1, <2>1, IndexedRowType DEF PositionInv, TypeInv
  <2>3. Entry1.ok \in BOOLEAN
    BY <1>1 DEF Entry
  <2>4. QED
    BY <1>1, <2>2, <2>3, NoneAssumption
<1>4. QED
  BY <1>1, <1>2, <1>3

\* What the cursor or its candidate has passed stays where it is.
LEMMA PassedStays ==
  ASSUME HistoryInv, [Next]_vars, NEW i \in Nat \ {0},
         i <= cursor \/ (ixPc # "idle" /\ i <= candidate)
  PROVE  i \in DOMAIN history /\ i \in DOMAIN history' /\ history'[i] = history[i]
<1>0. TypeInv /\ UniqueKids /\ CycleInv /\ CursorInv
  BY DEF HistoryInv
<1>1. /\ Len(history) \in Nat /\ DOMAIN history = 1..Len(history)
      /\ cursor \in Nat /\ candidate \in Nat /\ lib \in Nat /\ ixLib \in Nat
      /\ \A j \in DOMAIN history : history[j].height \in Nat
  BY <1>0, IndexNumbers
<1>2. i \in DOMAIN history /\ Fixed(history[i].height, lib)
  <2>1. CASE i <= cursor
    BY <1>0, <1>1, <2>1 DEF CursorInv
  <2>2. CASE ixPc # "idle" /\ i <= candidate
    <3>1. /\ ixLib <= lib /\ candidate <= Len(history)
          /\ \A j \in 1..candidate : Fixed(history[j].height, ixLib)
      BY <1>0, <2>2 DEF CycleInv
    <3>2. i \in 1..candidate /\ i \in DOMAIN history
      BY <1>1, <2>2, <3>1
    <3>3. QED
      BY <1>1, <3>1, <3>2 DEF Fixed
  <2>3. QED
    BY <2>1, <2>2
<1>3. QED
  BY <1>0, <1>2, HistoryChanges

\* Behind the cursor, and behind the candidate of a running cycle.
Passed(i) == i <= cursor \/ (ixPc # "idle" /\ i <= candidate)

\* An entry is passed because it was, or because it is the one at nextSeq that
\* has just been processed.
LEMMA PassedFrom ==
  ASSUME ForksSafe, HistoryInv, [Next]_vars, NEW i \in Nat \ {0}, Passed(i)'
  PROVE  \/ Passed(i)
         \/ /\ i = nextSeq /\ i \in DOMAIN history /\ history' = history /\ history[i] = Entry1
            /\ Fixed(history[i].height, ixLib) /\ ~frozen
            /\ ProcessEvm \/ KTx[Entry1.kid] = NotEvm
<1>0. TypeInv /\ CycleInv
  BY DEF HistoryInv
<1>1. cursor \in Nat /\ candidate \in Nat /\ nextSeq \in Nat
  BY <1>0, IndexNumbers
<1>2. CASE ~Index /\ ~Restart
  BY <1>2, OutsideIndexer DEF ixVars, Passed
<1>3. CASE StartCycle \/ FetchPage
  <2>1. cursor' = cursor /\ (candidate' = cursor \/ (ixPc = "page" /\ candidate' = candidate))
    BY <1>3 DEF StartCycle, FetchPage, dbVars
  <2>2. QED
    BY <2>1 DEF Passed
<1>4. CASE AbortCycle \/ PersistCursor \/ Restart
  <2>1. ixPc' = "idle" /\ (cursor' = cursor \/ (ixPc = "persist" /\ cursor' = candidate))
    BY <1>4 DEF AbortCycle, PersistCursor, Restart, EndCycle, dbVars
  <2>2. QED
    BY <2>1 DEF Passed
<1>5. CASE ProcessEvm \/ ProcessNotEvm \/ ProcessFails
  <2>1. /\ ixPc = "entries" /\ cursor' = cursor
        /\ \/ candidate' = candidate
           \/ /\ ~frozen /\ candidate' = nextSeq /\ candidate = nextSeq - 1
              /\ nextSeq \in DOMAIN history /\ Fixed(history[nextSeq].height, ixLib)
              /\ history[nextSeq] = Entry1
              /\ ProcessEvm \/ KTx[Entry1.kid] = NotEvm
    BY <1>5, CandidateMoves
  <2>2. history' = history
    BY <1>5, IndexerReads DEF Index
  <2>3. CASE i <= cursor \/ i <= candidate
    BY <2>1, <2>3 DEF Passed
  <2>4. CASE ~(i <= cursor \/ i <= candidate)
    <3>1. i <= candidate'
      BY <2>1, <2>4 DEF Passed
    <3>2. candidate' = nextSeq /\ candidate = nextSeq - 1 /\ i <= nextSeq
      BY <2>1, <2>4, <3>1
    <3>3. i = nextSeq
      BY <1>1, <2>4, <3>2
    <3>4. QED
      BY <2>1, <2>2, <2>4, <3>1, <3>3
  <2>5. QED
    BY <2>3, <2>4
<1>6. QED
  BY <1>2, <1>3, <1>4, <1>5 DEF Index

\* Every EVM entry that is passed has a settled row.
PassedSettled == \A i \in DOMAIN history : Passed(i) /\ Evm(i) => Settled(KTx[history[i].kid])

SkipInv == HistoryInv /\ PositionInv /\ PassedSettled

LEMMA SkipStep ==
  ASSUME ForksSafe, SkipInv, [Next]_vars
  PROVE  SkipInv'
<1>0. HistoryInv /\ PositionInv /\ TypeInv /\ PassedSettled
  BY DEF SkipInv, HistoryInv
<1>1. HistoryInv' /\ PositionInv' /\ TypeInv'
  BY <1>0, HistoryStep, PositionStep, TypeStep
<1>2. ASSUME NEW i \in DOMAIN history', Passed(i)', Evm(i)'
      PROVE  rows'[KTx[history'[i].kid]] # None /\ rows'[KTx[history'[i].kid]].status # None
  <2>1. i \in Nat \ {0} /\ history'[i] \in Entry
    <3>1. history' \in Seq(Entry)
      BY <1>1 DEF TypeInv, TypeOK
    <3>2. QED
      BY <3>1
  <2>2. KTx[history'[i].kid] \in Tx
    BY <1>2, <2>1, IndexingAssumption DEF Evm, Entry
  <2>3. CASE Passed(i)
    <3>1. i \in DOMAIN history /\ history'[i] = history[i]
      BY <1>0, <2>1, <2>3, PassedStays DEF Passed
    <3>2. Settled(KTx[history[i].kid])
      BY <1>0, <1>2, <2>3, <3>1 DEF PassedSettled, Evm
    <3>3. \A t \in Tx : Settled(t) => rows'[t] # None /\ rows'[t].status # None
      BY <1>0, SettledStays DEF Settled
    <3>4. QED
      BY <2>2, <3>1, <3>2, <3>3
  <2>4. CASE /\ i = nextSeq /\ history' = history /\ history[i] = Entry1
             /\ ProcessEvm \/ KTx[Entry1.kid] = NotEvm
    <3>1. ProcessEvm /\ KTx[history'[i].kid] = Tx1
      BY <1>2, <2>4 DEF Evm, Tx1
    <3>2. QED
      BY <1>0, <3>1, EvmSettles
  <2>5. QED
    BY <1>0, <1>2, <2>1, <2>3, <2>4, PassedFrom
<1>3. PassedSettled'
  BY <1>2 DEF PassedSettled, Settled
<1>4. QED
  BY <1>1, <1>3 DEF SkipInv

\* What the persisted cursor has passed is in the store: no failed call, restart,
\* provisional receipt or fork switch makes the indexer lose a transaction, as
\* long as every history entry relays an EVM transaction or the chain does not
\* fork (an entry of another kind is passed without a look at its block).
THEOREM NothingSkipped == ASSUME ForksSafe PROVE Spec => []NoEntrySkipped
<1>1. Init => SkipInv
  <2> SUFFICES ASSUME Init PROVE SkipInv
    OBVIOUS
  <2>1. HistoryInv /\ PositionInv
    <3>1. \A t \in Tx : ~Authoritative(t)
      BY DEF Init, Authoritative
    <3>2. QED
      BY <3>1, HistoryInit, TypeInit DEF PositionInv, BelowCounters, UniquePositions
  <2>2. DOMAIN history = {}
    BY DEF Init
  <2>3. QED
    BY <2>1, <2>2 DEF SkipInv, PassedSettled
<1>2. SkipInv /\ [Next]_vars => SkipInv'
  BY SkipStep
<1>3. SkipInv => NoEntrySkipped
  BY DEF SkipInv, PassedSettled, Passed, NoEntrySkipped, Settled, RowOf
<1>4. QED
  BY <1>1, <1>2, <1>3, PTL DEF Spec

-----------------------------------------------------------------------------
(* What a receipt says *)

ExecutedIsEvm == \A i \in DOMAIN history : history[i].ok => Evm(i)

\* The Koinos id kept for a transaction, in whatever place, is one that carries it.
IdsMatch ==
  /\ \A t \in Tx : rows[t] # None => KTx[rows[t].kid] = t
  /\ \A t \in Tx : metaId[t] # None => KTx[metaId[t]] = t
  /\ \A p \in polling : KTx[p.kid] = p.tx
  /\ \A s \in Settler : held[s] # None => KTx[held[s].kid] = held[s].tx

\* A settled row, and a receipt that is still in hand, report an entry of the
\* transaction that is on the chain.
OnChain(t, height, ok) ==
  \E i \in DOMAIN history :
    KTx[history[i].kid] = t /\ history[i].height = height /\ history[i].ok = ok
Truthful ==
  /\ \A t \in Tx : Settled(t) => OnChain(t, rows[t].height, rows[t].status)
  /\ \A s \in Settler : held[s] # None => OnChain(held[s].tx, held[s].height, held[s].ok)

TruthInv == SkipInv /\ ExecutedIsEvm /\ IdsMatch /\ Truthful

\* A receipt in hand was there before, or has just been read.
LEMMA HeldFrom ==
  ASSUME TypeInv, [Next]_vars, NEW s \in Settler, held'[s] # None
  PROVE  \/ /\ held[s] # None /\ held'[s].tx = held[s].tx /\ held'[s].kid = held[s].kid
            /\ held'[s].height = held[s].height /\ held'[s].ok = held[s].ok
         \/ \E t \in Tx, k \in Kid :
              /\ Included(k) /\ history' = history
              /\ (\E p \in polling : p.tx = t /\ p.kid = k) \/ (s \in Handlers /\ k = LoadMeta(t))
              /\ held'[s].tx = t /\ held'[s].kid = k
              /\ held'[s].height = Located(k).height /\ held'[s].ok = Located(k).ok
<1> DEFINE Old == /\ held[s] # None /\ held'[s].tx = held[s].tx /\ held'[s].kid = held[s].kid
                  /\ held'[s].height = held[s].height /\ held'[s].ok = held[s].ok
           New == \E t \in Tx, k \in Kid :
                    /\ Included(k) /\ history' = history
                    /\ (\E p \in polling : p.tx = t /\ p.kid = k) \/ (s \in Handlers /\ k = LoadMeta(t))
                    /\ held'[s].tx = t /\ held'[s].kid = k
                    /\ held'[s].height = Located(k).height /\ held'[s].ok = Located(k).ok
<1> SUFFICES Old \/ New
  OBVIOUS
<1>0. held \in [Settler -> Receipt \cup {None}] /\ Poller \in Settler /\ Handlers \subseteq Settler
  BY DEF TypeInv, TypeOK, Settler
<1>1. CASE held'[s] = held[s]
  BY <1>1
<1>2. ASSUME NEW p \in polling, PollFetch(p) PROVE Old \/ New
  <2>1. p.tx \in Tx /\ p.kid \in Kid
    BY DEF TypeInv, TypeOK
  <2>2. /\ Included(p.kid) /\ history' = history
        /\ held' = [held EXCEPT ![Poller] = FetchReceipt(p.tx, p.kid, TRUE)]
    BY <1>2 DEF PollFetch, nodeVars
  <2>3. CASE s = Poller
    <3>1. held'[s] = FetchReceipt(p.tx, p.kid, TRUE)
      BY <1>0, <2>2, <2>3
    <3>2. /\ held'[s].tx = p.tx /\ held'[s].kid = p.kid
          /\ held'[s].height = Located(p.kid).height /\ held'[s].ok = Located(p.kid).ok
      BY <3>1 DEF FetchReceipt
    <3>3. QED
      BY <2>1, <2>2, <3>2
  <2>4. CASE s # Poller
    BY <1>0, <1>1, <2>2, <2>4
  <2>5. QED
    BY <2>3, <2>4
<1>3. ASSUME NEW q \in Handlers, NEW t \in Tx, HandlerFetch(q, t) PROVE Old \/ New
  <2>1. /\ Included(LoadMeta(t)) /\ LoadMeta(t) # None /\ history' = history
        /\ held' = [held EXCEPT ![q] = FetchReceipt(t, LoadMeta(t), FALSE)]
    BY <1>3 DEF HandlerFetch, nodeVars
  <2>2. LoadMeta(t) \in Kid
    <3>1. metaId[t] \in Kid \cup {None} /\ (rows[t] # None => rows[t] \in Row)
      BY DEF TypeInv, TypeOK
    <3>2. QED
      BY <2>1, <3>1 DEF LoadMeta, Row
  <2>3. CASE s = q
    <3>1. held'[s] = FetchReceipt(t, LoadMeta(t), FALSE)
      BY <1>0, <2>1, <2>3
    <3>2. /\ held'[s].tx = t /\ held'[s].kid = LoadMeta(t)
          /\ held'[s].height = Located(LoadMeta(t)).height /\ held'[s].ok = Located(LoadMeta(t)).ok
      BY <3>1 DEF FetchReceipt
    <3>3. QED
      BY <2>1, <2>2, <2>3, <3>2
  <2>4. CASE s # q
    BY <1>0, <1>1, <2>1, <2>4
  <2>5. QED
    BY <2>3, <2>4
<1>4. ASSUME NEW q \in Handlers, HandlerUpsert(q) PROVE Old \/ New
  <2>1. held' = [held EXCEPT ![q].saved = TRUE] /\ held[q] # None
    BY <1>4 DEF HandlerUpsert
  <2>2. held[q] \in Receipt /\ q \in Settler
    BY <1>0, <2>1
  <2>3. CASE s = q
    <3>1. held'[s] = [held[s] EXCEPT !.saved = TRUE]
      BY <1>0, <2>1, <2>3
    <3>2. QED
      BY <2>1, <2>2, <2>3, <3>1 DEF Receipt
  <2>4. CASE s # q
    BY <1>0, <1>1, <2>1, <2>4
  <2>5. QED
    BY <2>3, <2>4
<1>5. ASSUME NEW q \in Settler, SetReceipt(q) PROVE Old \/ New
  <2>1. held' = [held EXCEPT ![q] = None]
    BY <1>5 DEF SetReceipt
  <2>2. s # q
    BY <1>0, <2>1
  <2>3. QED
    BY <1>0, <1>1, <2>1, <2>2
<1>6. CASE Restart
  <2>1. held'[s] = None
    BY <1>6 DEF Restart
  <2>2. QED
    BY <2>1
<1>7. CASE UNCHANGED held
  BY <1>1, <1>7
<1>8. CASE NewBlock \/ AdvanceLib \/ Reorg \/ (\E k \in Ours : RecordRelay(k))
           \/ (\E t \in Tx : Evict(t)) \/ PollStart \/ (\E p \in polling : PollMiss(p))
           \/ Index \/ UNCHANGED vars
  <2>1. UNCHANGED held
    BY <1>8 DEF NewBlock, AdvanceLib, Reorg, RecordRelay, Evict, PollStart, PollMiss, Index, StartCycle,
         FetchPage, AbortCycle, PersistCursor, ProcessEvm, ProcessNotEvm, ProcessFails, settleVars, vars
  <2>2. QED
    BY <1>7, <2>1
<1> HIDE DEF Old, New
<1>9. CASE \E p \in polling : PollFetch(p) \/ PollMiss(p)
  BY <1>2, <1>8, <1>9
<1>10. CASE \E q \in Handlers : HandlerUpsert(q) \/ \E t \in Tx : HandlerFetch(q, t)
  BY <1>3, <1>4, <1>10
<1>11. QED
  BY <1>5, <1>6, <1>8, <1>9, <1>10 DEF Next

\* Ids in memory and in the poller's snapshot come from relayed transactions
\* and from rows.
LEMMA IdsFrom ==
  ASSUME TypeInv, [Next]_vars
  PROVE  /\ \A t \in Tx : \/ metaId'[t] = None \/ metaId'[t] = metaId[t]
                          \/ metaId'[t] \in Ours /\ KTx[metaId'[t]] = t
         /\ \A p \in polling' : \/ p \in polling
                                \/ p.tx \in Tx /\ rows[p.tx] # None /\ p.kid = rows[p.tx].kid
<1> DEFINE Goal == /\ \A t \in Tx : \/ metaId'[t] = None \/ metaId'[t] = metaId[t]
                                    \/ metaId'[t] \in Ours /\ KTx[metaId'[t]] = t
                   /\ \A p \in polling' : \/ p \in polling
                                          \/ p.tx \in Tx /\ rows[p.tx] # None /\ p.kid = rows[p.tx].kid
<1> SUFFICES Goal
  OBVIOUS
<1>0. metaId \in [Tx -> Kid \cup {None}]
  BY DEF TypeInv, TypeOK
<1>1. ASSUME metaId' = metaId, polling' \subseteq polling PROVE Goal
  BY <1>1
<1>2. ASSUME NEW k \in Ours, RecordRelay(k) PROVE Goal
  <2>1. metaId' = [metaId EXCEPT ![KTx[k]] = k] /\ polling' = polling
    BY <1>2 DEF RecordRelay
  <2>2. QED
    BY <1>0, <2>1
<1>3. ASSUME NEW t \in Tx, Evict(t) PROVE Goal
  <2>1. metaId' = [metaId EXCEPT ![t] = None] /\ polling' = polling
    BY <1>3 DEF Evict
  <2>2. QED
    BY <1>0, <2>1
<1>4. CASE PollStart
  BY <1>4 DEF PollStart
<1>5. CASE Restart
  BY <1>5 DEF Restart
<1> HIDE DEF Goal
<1>6. CASE \/ NewBlock \/ AdvanceLib \/ Reorg \/ (\E p \in polling : PollFetch(p) \/ PollMiss(p))
           \/ (\E s \in Handlers : HandlerUpsert(s) \/ \E t \in Tx : HandlerFetch(s, t))
           \/ (\E s \in Settler : SetReceipt(s)) \/ Index \/ UNCHANGED vars
  <2>1. metaId' = metaId /\ polling' \subseteq polling
    BY <1>6 DEF NewBlock, AdvanceLib, Reorg, PollFetch, PollMiss, HandlerUpsert, HandlerFetch,
         SetReceipt, Index, StartCycle, FetchPage, AbortCycle, PersistCursor, ProcessEvm,
         ProcessNotEvm, ProcessFails, settleVars, vars
  <2>2. QED
    BY <1>1, <2>1
<1>7. QED
  BY <1>2, <1>3, <1>4, <1>5, <1>6 DEF Next

LEMMA IdsStep ==
  ASSUME TypeInv, IdsMatch, [Next]_vars
  PROVE  IdsMatch'
<1>1. TypeInv'
  BY TypeStep
<1>2. \A k \in Ours : k \in Kid
  BY IndexingAssumption
<1>3. ASSUME NEW t \in Tx, rows'[t] # None PROVE KTx[rows'[t].kid] = t
  <2>1. rows'[t] = rows[t] \/ ByUpsert(t) \/ ByBump(t) \/ ByReceipt(t) \/ ByIndexing(t)
    BY RowChanges
  <2>2. CASE rows'[t] = rows[t]
    BY <1>3, <2>2 DEF IdsMatch
  <2>3. CASE ByUpsert(t)
    <3>1. PICK k \in Kid : /\ \/ k \in Ours /\ KTx[k] = t
                              \/ \E s \in Handlers : held[s] # None /\ held[s].tx = t /\ held[s].kid = k
                           /\ rows'[t] = Upserted(t, k)
      BY <2>3 DEF ByUpsert
    <3>2. KTx[k] = t
      BY <3>1 DEF IdsMatch, Settler
    <3>3. rows'[t].kid = k
      BY <3>1, UpsertedType DEF TypeInv
    <3>4. QED
      BY <3>2, <3>3
  <2>4. CASE ByBump(t)
    BY <2>4, RowFields DEF IdsMatch, ByBump
  <2>5. CASE ByReceipt(t)
    BY <2>5, RowFields DEF IdsMatch, ByReceipt
  <2>6. CASE ByIndexing(t)
    <3>1. Entry1 \in Entry /\ At1 \in Entry
      BY <2>6, EvmRows DEF ByIndexing, Entry1, At1
    <3>2. rows'[t].kid = Entry1.kid /\ t = Tx1
      BY <2>6, <3>1, IndexedRowType DEF ByIndexing, TypeInv
    <3>3. QED
      BY <3>2 DEF Tx1
  <2>7. QED
    BY <2>1, <2>2, <2>3, <2>4, <2>5, <2>6
<1>4. \A t \in Tx : metaId'[t] # None => KTx[metaId'[t]] = t
  BY IdsFrom DEF IdsMatch
<1>5. \A p \in polling' : KTx[p.kid] = p.tx
  BY IdsFrom DEF IdsMatch
<1>6. ASSUME NEW s \in Settler, held'[s] # None PROVE KTx[held'[s].kid] = held'[s].tx
  <2>1. CASE held[s] # None /\ held'[s].tx = held[s].tx /\ held'[s].kid = held[s].kid
    BY <2>1 DEF IdsMatch
  <2>2. CASE \E t \in Tx, k \in Kid :
               /\ (\E p \in polling : p.tx = t /\ p.kid = k) \/ (s \in Handlers /\ k = LoadMeta(t))
               /\ held'[s].tx = t /\ held'[s].kid = k
    <3>1. PICK t \in Tx, k \in Kid :
               /\ (\E p \in polling : p.tx = t /\ p.kid = k) \/ (s \in Handlers /\ k = LoadMeta(t))
               /\ held'[s].tx = t /\ held'[s].kid = k
      BY <2>2
    <3>2. KTx[k] = t
      BY <3>1, NoneAssumption DEF IdsMatch, LoadMeta
    <3>3. QED
      BY <3>1, <3>2
  <2>3. QED
    BY <1>6, <2>1, <2>2, HeldFrom
<1>7. QED
  BY <1>3, <1>4, <1>5, <1>6 DEF IdsMatch

LEMMA ExecutedStep ==
  ASSUME TypeInv, UniqueKids, ExecutedIsEvm, [Next]_vars
  PROVE  ExecutedIsEvm'
BY HistoryChanges DEF ExecutedIsEvm, Evm

\* On a chain without forks what is on the chain stays there.
LEMMA OnChainStays ==
  ASSUME MaxReorgs = 0, TypeInv, UniqueKids, [Next]_vars, NEW t, NEW h, NEW ok, OnChain(t, h, ok)
  PROVE  \E i \in DOMAIN history' :
           KTx[history'[i].kid] = t /\ history'[i].height = h /\ history'[i].ok = ok
<1>1. PICK i \in DOMAIN history :
        KTx[history[i].kid] = t /\ history[i].height = h /\ history[i].ok = ok
  BY DEF OnChain
<1>2. i \in DOMAIN history' /\ history'[i] = history[i]
  BY HistoryChanges DEF Fixed
<1>3. QED
  BY <1>1, <1>2

LEMMA TruthStep ==
  ASSUME MaxReorgs = 0, TruthInv, [Next]_vars
  PROVE  TruthInv'
<1>0. SkipInv /\ HistoryInv /\ TypeInv /\ UniqueKids /\ ExecutedIsEvm /\ IdsMatch /\ Truthful
  BY DEF TruthInv, SkipInv, HistoryInv
<1>1. SkipInv' /\ ExecutedIsEvm' /\ IdsMatch' /\ TypeInv'
  <2>1. SkipInv'
    BY <1>0, SkipStep DEF ForksSafe
  <2>2. QED
    BY <1>0, <2>1, ExecutedStep, IdsStep, TypeStep
<1> DEFINE Then(t, h, ok) == \E i \in DOMAIN history' :
             KTx[history'[i].kid] = t /\ history'[i].height = h /\ history'[i].ok = ok
<1>2. \A t, h, ok : OnChain(t, h, ok) => Then(t, h, ok)
  BY <1>0, OnChainStays
<1> HIDE DEF Then
<1>3. ASSUME NEW t \in Tx, rows'[t] # None, rows'[t].status # None
      PROVE  Then(t, rows'[t].height, rows'[t].status)
  <2>1. rows'[t] = rows[t] \/ ByUpsert(t) \/ ByBump(t) \/ ByReceipt(t) \/ ByIndexing(t)
    BY <1>0, RowChanges
  <2>2. CASE rows'[t] = rows[t]
    <3>1. OnChain(t, rows[t].height, rows[t].status)
      BY <1>0, <1>3, <2>2 DEF Truthful, Settled
    <3>2. QED
      BY <1>2, <2>2, <3>1
  <2>3. CASE ByUpsert(t) \/ ByBump(t)
    <3>1. rows[t] # None /\ rows'[t].height = rows[t].height /\ rows'[t].status = rows[t].status
      BY <1>0, <1>3, <2>3, RowFields DEF ByBump
    <3>2. OnChain(t, rows[t].height, rows[t].status)
      BY <1>0, <1>3, <3>1 DEF Truthful, Settled
    <3>3. QED
      BY <1>2, <3>1, <3>2
  <2>4. CASE ByReceipt(t)
    <3>1. PICK s \in Settler : /\ held[s] \in Receipt /\ held[s].tx = t /\ rows[t] # None
                               /\ rows'[t] = ReceiptRow(t, held[s])
      BY <2>4 DEF ByReceipt
    <3>2. rows'[t].height = held[s].height /\ rows'[t].status = held[s].ok
      BY <1>0, <3>1, ReceiptRowType DEF TypeInv
    <3>3. OnChain(held[s].tx, held[s].height, held[s].ok)
      BY <1>0, <3>1, NoneAssumption DEF Truthful
    <3>4. QED
      BY <1>2, <3>1, <3>2, <3>3
  <2>5. CASE ByIndexing(t)
    <3>1. Entry1 \in Entry /\ At1 \in Entry /\ ProcessEvm /\ t = Tx1
      BY <1>0, <2>5, EvmRows DEF ByIndexing, Entry1, At1
    <3>2. rows'[t].height = At1.height /\ rows'[t].status = Entry1.ok
      BY <1>0, <2>5, <3>1, IndexedRowType DEF ByIndexing, TypeInv
    <3>3. nextSeq \in DOMAIN history /\ history[nextSeq] = Entry1 /\ At1 = Entry1
      BY <1>0, <3>1, EntryPlace DEF Fixed
    <3>4. OnChain(t, rows'[t].height, rows'[t].status)
      BY <3>1, <3>2, <3>3 DEF OnChain, Tx1
    <3>5. QED
      BY <1>2, <3>4
  <2>6. QED
    BY <2>1, <2>2, <2>3, <2>4, <2>5
<1>4. ASSUME NEW s \in Settler, held'[s] # None
      PROVE  Then(held'[s].tx, held'[s].height, held'[s].ok)
  <2>1. CASE /\ held[s] # None /\ held'[s].tx = held[s].tx
             /\ held'[s].height = held[s].height /\ held'[s].ok = held[s].ok
    BY <1>0, <1>2, <2>1 DEF Truthful
  <2>2. ASSUME NEW t \in Tx, NEW k \in Kid, Included(k), held'[s].tx = t, held'[s].kid = k,
               held'[s].height = Located(k).height, held'[s].ok = Located(k).ok
        PROVE  Then(held'[s].tx, held'[s].height, held'[s].ok)
    <3>1. PICK i \in DOMAIN history : Located(k) = history[i] /\ history[i].kid = k
      BY <1>0, <2>2, LocatedIsThere DEF TypeInv
    <3>2. KTx[k] = t
      BY <1>1, <1>4, <2>2 DEF IdsMatch
    <3>3. OnChain(t, held'[s].height, held'[s].ok)
      BY <2>2, <3>1, <3>2 DEF OnChain
    <3>4. QED
      BY <1>2, <2>2, <3>3
  <2>3. \/ /\ held[s] # None /\ held'[s].tx = held[s].tx
           /\ held'[s].height = held[s].height /\ held'[s].ok = held[s].ok
        \/ \E t \in Tx, k \in Kid :
             /\ Included(k) /\ held'[s].tx = t /\ held'[s].kid = k
             /\ held'[s].height = Located(k).height /\ held'[s].ok = Located(k).ok
    BY <1>0, <1>4, HeldFrom
  <2>4. QED
    BY <2>1, <2>2, <2>3
<1>5. Truthful'
  BY <1>3, <1>4 DEF Truthful, Settled, OnChain, Then
<1>6. QED
  BY <1>1, <1>5 DEF TruthInv

LEMMA TruthInit == Init => TruthInv
<1> SUFFICES ASSUME Init PROVE TruthInv
  OBVIOUS
<1>1. \A t \in Tx : ~Authoritative(t) /\ ~Settled(t) /\ rows[t] = None /\ metaId[t] = None
  BY DEF Init, Authoritative, Settled
<1>2. DOMAIN history = {} /\ polling = {} /\ \A s \in Settler : held[s] = None
  BY DEF Init
<1>3. SkipInv
  BY <1>1, <1>2, HistoryInit, TypeInit
     DEF SkipInv, PassedSettled, PositionInv, BelowCounters, UniquePositions
<1>4. QED
  BY <1>1, <1>2, <1>3 DEF TruthInv, ExecutedIsEvm, IdsMatch, Truthful

\* Every EVM transaction is relayed by one Koinos transaction only.
RelayedOnce == \A k, l \in Kid : KTx[k] = KTx[l] /\ KTx[k] # NotEvm => k = l

\* On a chain without forks, behind the cursor, the row of a transaction that
\* is relayed once reports its one entry.
LEMMA PassedTruth ==
  ASSUME RelayedOnce, TruthInv, NEW i \in 1..cursor, i \in DOMAIN history, history[i].ok
  PROVE  RowOf(i) # None /\ RowOf(i).height = history[i].height /\ RowOf(i).status = history[i].ok
<1> DEFINE t == KTx[history[i].kid]
<1>0. TypeInv /\ UniqueKids /\ PassedSettled /\ ExecutedIsEvm /\ Truthful
  BY DEF TruthInv, SkipInv, HistoryInv
<1>1. \A j \in DOMAIN history : history[j].kid \in Kid
  <2>1. \A j \in DOMAIN history : history[j] \in Entry
    BY <1>0, IndexNumbers
  <2>2. QED
    BY <2>1 DEF Entry
<1>2. Evm(i) /\ t \in Tx
  BY <1>0, <1>1, IndexingAssumption DEF ExecutedIsEvm, Evm
<1>3. Settled(t)
  BY <1>0, <1>2 DEF PassedSettled, Passed
<1>4. PICK j \in DOMAIN history :
        KTx[history[j].kid] = t /\ history[j].height = rows[t].height /\ history[j].ok = rows[t].status
  BY <1>0, <1>2, <1>3 DEF Truthful, OnChain
<1>5. j = i
  BY <1>0, <1>1, <1>2, <1>4 DEF RelayedOnce, UniqueKids, Evm
<1>6. QED
  BY <1>3, <1>4, <1>5 DEF RowOf, Settled

\* With every writer at work, late receipts, evictions, failures and restarts
\* included: a settled row always reports an outcome its transaction has on the
\* chain, when the chain does not fork.
THEOREM RowsAreTruthful ==
  ASSUME MaxReorgs = 0
  PROVE  Spec => [](\A t \in Tx : Settled(t) => OnChain(t, rows[t].height, rows[t].status))
<1>1. Init => TruthInv
  BY TruthInit
<1>2. TruthInv /\ [Next]_vars => TruthInv'
  BY TruthStep
<1>3. TruthInv => \A t \in Tx : Settled(t) => OnChain(t, rows[t].height, rows[t].status)
  BY DEF TruthInv, Truthful
<1>4. QED
  BY <1>1, <1>2, <1>3, PTL DEF Spec

\* ... so the receipt of an executed transaction that is relayed once says that
\* it succeeded as soon as the cursor has passed it ...
THEOREM OnceRelayedWins ==
  ASSUME MaxReorgs = 0, RelayedOnce
  PROVE  Spec => []ExecutionWins
<1>1. Init => TruthInv
  BY TruthInit
<1>2. TruthInv /\ [Next]_vars => TruthInv'
  BY TruthStep
<1>3. TruthInv => ExecutionWins
  <2> SUFFICES ASSUME TruthInv, NEW i \in 1..cursor, i \in DOMAIN history, history[i].ok
               PROVE  RowOf(i).status = TRUE
    BY DEF ExecutionWins
  <2>1. history[i].ok = TRUE
    <3>1. history[i] \in Entry
      BY IndexNumbers DEF TruthInv, SkipInv, HistoryInv
    <3>2. QED
      BY <3>1 DEF Entry
  <2>2. RowOf(i).status = history[i].ok
    BY PassedTruth
  <2>3. QED
    BY <2>1, <2>2
<1>4. QED
  BY <1>1, <1>2, <1>3, PTL DEF Spec

\* ... and names the block it is in.
THEOREM OnceRelayedHeight ==
  ASSUME MaxReorgs = 0, RelayedOnce
  PROVE  Spec => []HeightIsReal
<1>1. Init => TruthInv
  BY TruthInit
<1>2. TruthInv /\ [Next]_vars => TruthInv'
  BY TruthStep
<1>3. TruthInv => HeightIsReal
  BY PassedTruth DEF HeightIsReal
<1>4. QED
  BY <1>1, <1>2, <1>3, PTL DEF Spec

-----------------------------------------------------------------------------
(* Counted once *)

\* A block's counters move only for a transaction that had no position yet.
CountedOnce ==
  [][blocks' # blocks => \E t \in Tx : ~Authoritative(t) /\ rows'[t].index \in Nat]_vars

\* The reversible tail of the history is processed again in every cycle; index_tx
\* recognises what it has indexed, so a transaction that is relayed once does not
\* take a second position in its block, whatever fails or restarts in between.
THEOREM EachIsCountedOnce ==
  ASSUME MaxReorgs = 0, RelayedOnce
  PROVE  Spec => CountedOnce
<1>1. Init => TruthInv
  BY TruthInit
<1>2. TruthInv /\ [Next]_vars => TruthInv'
  BY TruthStep
<1>3. ASSUME TruthInv, [Next]_vars
      PROVE  blocks' # blocks => \E t \in Tx : ~Authoritative(t) /\ rows'[t].index \in Nat
  <2>0. HistoryInv /\ TypeInv /\ BelowCounters /\ UniqueKids /\ Truthful
    BY <1>3 DEF TruthInv, SkipInv, HistoryInv, PositionInv
  <2> SUFFICES ASSUME blocks' # blocks
               PROVE  \E t \in Tx : ~Authoritative(t) /\ rows'[t].index \in Nat
    OBVIOUS
  <2>1. ProcessEvm
    BY <1>3, <2>0, RowChanges
  <2>2. /\ Entry1 \in Entry /\ Tx1 \in Tx /\ At1 \in Entry
        /\ ~SkipsIndexing(Tx1, At1.height, Entry1.ok)
        /\ rows' = [rows EXCEPT ![Tx1] = IndexedRow(Tx1, Entry1, At1)]
    BY <2>0, <2>1, EvmRows DEF Entry1, Tx1, At1
  <2>3. nextSeq \in DOMAIN history /\ history[nextSeq] = Entry1 /\ At1 = Entry1
    BY <2>0, <2>1, EntryPlace DEF Fixed
  <2>4. rows'[Tx1].index \in Nat
    <3>1. rows'[Tx1] = IndexedRow(Tx1, Entry1, At1)
      BY <2>0, <2>2 DEF TypeInv, TypeOK
    <3>2. /\ rows'[Tx1].index = blocks[At1.height].txs
          /\ blocks[At1.height] \in [fork : Forks \cup {None}, txs : Nat, logs : Nat]
      BY <2>0, <2>2, <3>1, IndexedRowType DEF TypeInv
    <3>3. QED
      BY <3>2
  <2>5. ~Authoritative(Tx1)
    <3> SUFFICES ASSUME Authoritative(Tx1) PROVE FALSE
      OBVIOUS
    <3>1. Settled(Tx1)
      BY <2>0, <2>2, NoneAssumption DEF BelowCounters, Authoritative, Settled
    <3>2. PICK j \in DOMAIN history :
            KTx[history[j].kid] = Tx1 /\ history[j].height = rows[Tx1].height
      BY <2>0, <2>2, <3>1 DEF Truthful, OnChain
    <3>3. history[j] \in Entry
      BY <2>0, IndexNumbers
    <3>4. history[j].kid = Entry1.kid
      BY <2>2, <3>2, <3>3, IndexingAssumption DEF RelayedOnce, Tx1, Entry
    <3>5. j = nextSeq
      BY <2>0, <2>3, <3>4 DEF UniqueKids
    <3>6. QED
      BY <2>2, <2>3, <3>2, <3>5 DEF SkipsIndexing, Authoritative
  <2>6. QED
    BY <2>2, <2>4, <2>5
<1>4. QED
  BY <1>1, <1>2, <1>3, PTL DEF Spec, CountedOnce

-----------------------------------------------------------------------------
(* The indexer as the only writer of receipts *)

IndexerAlone == Handlers = {} /\ PollCap = 0
NoReceipts == polling = {} /\ \A s \in Settler : held[s] = None

LEMMA AloneStep ==
  ASSUME IndexerAlone, TypeInv, NoReceipts, [Next]_vars
  PROVE  NoReceipts' /\ \A t \in Tx : ~ByReceipt(t)
<1>1. TypeInv'
  BY TypeStep
<1>2. polling' = {}
  <2> SUFFICES ASSUME NEW p \in polling' PROVE FALSE
    OBVIOUS
  <2>1. p.tx \in Tx /\ rows'[p.tx] # None /\ rows'[p.tx].attempts < PollCap
    BY <1>1 DEF TypeInv, TypeOK, Snapshot
  <2>2. rows'[p.tx].attempts \in 0..PollCap
    BY <1>1, <2>1 DEF TypeInv, TypeOK, Row
  <2>3. QED
    BY <2>1, <2>2, IndexingAssumption DEF IndexerAlone
<1>3. \A s \in Settler : held'[s] = None
  BY HeldFrom DEF NoReceipts, IndexerAlone
<1>4. \A t \in Tx : ~ByReceipt(t)
  BY NoneAssumption DEF ByReceipt, NoReceipts
<1>5. QED
  BY <1>2, <1>3, <1>4 DEF NoReceipts

\* Behind the cursor and its candidate the row of an executed transaction has
\* the height of its entry.
PassedHeight ==
  \A i \in DOMAIN history : Passed(i) /\ history[i].ok => RowOf(i).height = history[i].height

HeightInv == SkipInv /\ ExecutedIsEvm /\ NoReceipts /\ PassedHeight

LEMMA HeightStep ==
  ASSUME ForksSafe, RelayedOnce, IndexerAlone, HeightInv, [Next]_vars
  PROVE  HeightInv'
<1>0. /\ SkipInv /\ HistoryInv /\ TypeInv /\ UniqueKids /\ PassedSettled /\ ExecutedIsEvm
      /\ NoReceipts /\ PassedHeight
  BY DEF HeightInv, SkipInv, HistoryInv
<1>1. SkipInv' /\ ExecutedIsEvm' /\ NoReceipts' /\ TypeInv' /\ \A t \in Tx : ~ByReceipt(t)
  BY <1>0, SkipStep, ExecutedStep, AloneStep, TypeStep
<1>2. ASSUME NEW i \in DOMAIN history', Passed(i)', history'[i].ok
      PROVE  rows'[KTx[history'[i].kid]].height = history'[i].height
  <2>1. i \in Nat \ {0} /\ history'[i] \in Entry /\ history'[i].kid \in Kid
    <3>1. history' \in Seq(Entry)
      BY <1>1 DEF TypeInv, TypeOK
    <3>2. i \in Nat \ {0} /\ history'[i] \in Entry
      BY <3>1
    <3>3. QED
      BY <3>2 DEF Entry
  <2> DEFINE t == KTx[history'[i].kid]
  <2>2. t \in Tx /\ t # NotEvm
    BY <1>1, <1>2, <2>1, IndexingAssumption DEF ExecutedIsEvm, Evm
  <2>3. CASE Passed(i)
    <3>1. i \in DOMAIN history /\ history'[i] = history[i]
      BY <1>0, <2>1, <2>3, PassedStays DEF Passed
    <3>2. rows[t].height = history[i].height /\ rows[t] # None
      BY <1>0, <1>2, <2>2, <2>3, <3>1 DEF PassedHeight, PassedSettled, Settled, RowOf, Evm
    <3>3. rows'[t] = rows[t] \/ ByUpsert(t) \/ ByBump(t) \/ ByIndexing(t)
      BY <1>0, <1>1, <2>2, RowChanges
    <3>4. CASE rows'[t] = rows[t] \/ ByUpsert(t) \/ ByBump(t)
      <4>1. rows'[t].height = rows[t].height
        BY <1>0, <2>2, <3>2, <3>4, RowFields
      <4>2. QED
        BY <3>1, <3>2, <4>1
    <3>5. CASE ByIndexing(t)
      <4>1. Entry1 \in Entry /\ At1 \in Entry /\ Included(Entry1.kid) /\ t = Tx1
        BY <1>0, <3>5, EvmRows DEF ByIndexing, Entry1, At1
      <4>2. rows'[t].height = At1.height
        BY <1>0, <2>2, <3>5, <4>1, IndexedRowType DEF ByIndexing, TypeInv
      <4>3. PICK j \in DOMAIN history : At1 = history[j] /\ history[j].kid = Entry1.kid
        BY <1>0, <4>1, LocatedIsThere DEF At1, TypeInv
      <4>4. Entry1.kid = history[i].kid
        BY <2>1, <2>2, <3>1, <4>1 DEF RelayedOnce, Tx1, Entry
      <4>5. j = i
        BY <1>0, <3>1, <4>3, <4>4 DEF UniqueKids
      <4>6. QED
        BY <3>1, <4>2, <4>3, <4>5
    <3>6. QED
      BY <3>3, <3>4, <3>5
  <2>4. CASE /\ i = nextSeq /\ i \in DOMAIN history /\ history' = history /\ history[i] = Entry1
             /\ Fixed(history[i].height, ixLib) /\ ProcessEvm
    <3>1. /\ Entry1 \in Entry /\ At1 \in Entry /\ Tx1 \in Tx
          /\ \/ SkipsIndexing(Tx1, At1.height, Entry1.ok) /\ UNCHANGED <<rows, blocks>>
             \/ rows' = [rows EXCEPT ![Tx1] = IndexedRow(Tx1, Entry1, At1)]
      BY <1>0, <2>4, EvmRows DEF Entry1, At1, Tx1
    <3>2. PICK j \in DOMAIN history : At1 = history[j] /\ history[j].kid = Entry1.kid
      <4>1. Included(Entry1.kid)
        BY <2>4 DEF Included
      <4>2. QED
        BY <1>0, <4>1, LocatedIsThere DEF At1, TypeInv
    <3>3. At1 = history[i] /\ t = Tx1 /\ Entry1.ok
      BY <1>0, <1>2, <2>4, <3>2 DEF UniqueKids, Tx1
    <3>4. CASE SkipsIndexing(Tx1, At1.height, Entry1.ok) /\ UNCHANGED <<rows, blocks>>
      BY <2>4, <3>3, <3>4 DEF SkipsIndexing
    <3>5. CASE rows' = [rows EXCEPT ![Tx1] = IndexedRow(Tx1, Entry1, At1)]
      <4>1. rows'[Tx1] = IndexedRow(Tx1, Entry1, At1)
        BY <1>0, <3>1, <3>5 DEF TypeInv, TypeOK
      <4>2. rows'[Tx1].height = At1.height
        BY <1>0, <3>1, <4>1, IndexedRowType DEF TypeInv
      <4>3. QED
        BY <2>4, <3>3, <4>2
    <3>6. QED
      BY <3>1, <3>4, <3>5
  <2>5. QED
    <3>1. \/ Passed(i)
          \/ /\ i = nextSeq /\ i \in DOMAIN history /\ history' = history /\ history[i] = Entry1
             /\ Fixed(history[i].height, ixLib)
             /\ ProcessEvm \/ KTx[Entry1.kid] = NotEvm
      BY <1>0, <1>2, <2>1, PassedFrom
    <3>2. QED
      BY <2>2, <2>3, <2>4, <3>1
<1>3. PassedHeight'
  BY <1>2 DEF PassedHeight, RowOf
<1>4. QED
  BY <1>1, <1>3 DEF HeightInv

\* Behind the cursor an executed transaction is reported at the height of the
\* block it is in, wherever a fork switch has moved it before: the indexer alone,
\* for transactions that are relayed once.
THEOREM HeightIsRealUnderForks ==
  ASSUME ForksSafe, RelayedOnce, IndexerAlone
  PROVE  Spec => []HeightIsReal
<1>1. Init => HeightInv
  <2> SUFFICES ASSUME Init PROVE HeightInv
    OBVIOUS
  <2>1. SkipInv /\ ExecutedIsEvm
    BY TruthInit DEF TruthInv
  <2>2. DOMAIN history = {} /\ polling = {} /\ \A s \in Settler : held[s] = None
    BY DEF Init
  <2>3. QED
    BY <2>1, <2>2 DEF HeightInv, NoReceipts, PassedHeight
<1>2. HeightInv /\ [Next]_vars => HeightInv'
  BY HeightStep
<1>3. HeightInv => HeightIsReal
  BY DEF HeightInv, SkipInv, PassedSettled, PassedHeight, ExecutedIsEvm, Passed, Settled, RowOf, Evm,
         HeightIsReal
<1>4. QED
  BY <1>1, <1>2, <1>3, PTL DEF Spec

-----------------------------------------------------------------------------
(* Transactions relayed again *)

\* No block has two entries of one EVM transaction.
NoTwins ==
  \A i, j \in DOMAIN history :
    Evm(i) /\ KTx[history[i].kid] = KTx[history[j].kid] /\ history[i].height = history[j].height => i = j

\* Behind the cursor and its candidate an execution has an authoritative row
\* that says so, which index_tx does not overwrite by a rejected duplicate.
PassedWins ==
  \A i \in DOMAIN history : Passed(i) /\ history[i].ok =>
    RowOf(i) # None /\ RowOf(i).index # None /\ RowOf(i).status = TRUE

WinsInv == TruthInv /\ NoReceipts /\ PassedWins

LEMMA WinsStep ==
  ASSUME MaxReorgs = 0, IndexerAlone, WinsInv, NoTwins, [Next]_vars
  PROVE  WinsInv'
<1>0. /\ TruthInv /\ SkipInv /\ HistoryInv /\ PositionInv /\ TypeInv /\ UniqueKids /\ ExecutedIsEvm
      /\ Truthful /\ NoReceipts /\ PassedWins /\ BelowCounters
  BY DEF WinsInv, TruthInv, SkipInv, HistoryInv, PositionInv
<1>1. TruthInv' /\ NoReceipts' /\ TypeInv' /\ ExecutedIsEvm' /\ \A t \in Tx : ~ByReceipt(t)
  <2>1. TruthInv'
    BY <1>0, TruthStep
  <2>2. QED
    BY <1>0, <2>1, AloneStep, TypeStep DEF TruthInv
<1>2. ASSUME NEW i \in DOMAIN history', Passed(i)', history'[i].ok
      PROVE  LET r == rows'[KTx[history'[i].kid]] IN r # None /\ r.index # None /\ r.status = TRUE
  <2>1. i \in Nat \ {0} /\ history'[i] \in Entry /\ history'[i].kid \in Kid
    <3>1. history' \in Seq(Entry)
      BY <1>1 DEF TypeInv, TypeOK
    <3>2. i \in Nat \ {0} /\ history'[i] \in Entry
      BY <3>1
    <3>3. QED
      BY <3>2 DEF Entry
  <2> DEFINE t == KTx[history'[i].kid]
  <2>2. t \in Tx /\ t # NotEvm
    BY <1>1, <1>2, <2>1, IndexingAssumption DEF ExecutedIsEvm, Evm
  <2>0. ASSUME ByIndexing(t), Entry1.ok
        PROVE  rows'[t] # None /\ rows'[t].index # None /\ rows'[t].status = TRUE
    <3>1. Entry1 \in Entry /\ At1 \in Entry /\ rows'[t] = IndexedRow(t, Entry1, At1)
      BY <1>0, <2>0, EvmRows DEF ByIndexing, Entry1, At1
    <3>2. /\ rows'[t] \in Row /\ rows'[t].index = blocks[At1.height].txs /\ rows'[t].status = Entry1.ok
          /\ blocks[At1.height] \in [fork : Forks \cup {None}, txs : Nat, logs : Nat]
      BY <1>0, <2>2, <3>1, IndexedRowType DEF TypeInv
    <3>3. rows'[t].index \in Nat
      BY <3>2
    <3>4. Entry1.ok = TRUE
      BY <2>0, <3>1 DEF Entry
    <3>5. QED
      BY <3>2, <3>3, <3>4, NoneAssumption
  <2>3. CASE Passed(i)
    <3>1. i \in DOMAIN history /\ history'[i] = history[i]
      BY <1>0, <2>1, <2>3, PassedStays DEF Passed
    <3>2. rows[t] # None /\ rows[t].index # None /\ rows[t].status = TRUE
      BY <1>0, <1>2, <2>3, <3>1 DEF PassedWins, RowOf
    <3>3. rows'[t] = rows[t] \/ ByUpsert(t) \/ ByBump(t) \/ ByIndexing(t)
      BY <1>0, <1>1, <2>2, RowChanges
    <3>4. CASE rows'[t] = rows[t]
      BY <3>2, <3>4
    <3>5. CASE ByUpsert(t) \/ ByBump(t)
      <4>1. rows'[t].index = rows[t].index /\ rows'[t].status = rows[t].status
        BY <1>0, <2>2, <3>2, <3>5, RowFields
      <4>2. rows'[t] # None
        <5>1. Settled(t)
          BY <3>2, NoneAssumption DEF Settled
        <5>2. \A u \in Tx : Settled(u) => rows'[u] # None
          BY <1>0, SettledStays DEF Settled
        <5>3. QED
          BY <2>2, <5>1, <5>2
      <4>3. QED
        BY <3>2, <4>1, <4>2
    <3>6. CASE ByIndexing(t)
      <4>1. Entry1.ok
        BY <3>2, <3>6 DEF ByIndexing, SkipsIndexing
      <4>2. QED
        BY <2>0, <3>6, <4>1
    <3>7. QED
      BY <3>3, <3>4, <3>5, <3>6
  <2>4. CASE /\ i = nextSeq /\ i \in DOMAIN history /\ history' = history /\ history[i] = Entry1
             /\ ProcessEvm
    <3>1. /\ At1 = Entry1 /\ Entry1.ok /\ t = Tx1
      BY <1>0, <1>2, <2>4, EntryPlace DEF Fixed, Tx1
    <3>2. /\ \/ SkipsIndexing(Tx1, At1.height, Entry1.ok) /\ rows' = rows
             \/ /\ ~SkipsIndexing(Tx1, At1.height, Entry1.ok)
                /\ rows' = [rows EXCEPT ![Tx1] = IndexedRow(Tx1, Entry1, At1)]
      BY <1>0, <2>4, EvmRows DEF Entry1, At1, Tx1
    <3>3. CASE SkipsIndexing(Tx1, At1.height, Entry1.ok) /\ rows' = rows
      <4>1. rows[t] # None /\ rows[t].index # None /\ rows[t].height = history[i].height
        BY <2>4, <3>1, <3>3 DEF SkipsIndexing
      <4>2. Settled(t)
        <5>1. rows[t].status \in BOOLEAN
          BY <1>0, <2>2, <4>1 DEF BelowCounters, Authoritative
        <5>2. QED
          BY <4>1, <5>1, NoneAssumption DEF Settled
      <4>3. PICK j \in DOMAIN history :
              KTx[history[j].kid] = t /\ history[j].height = rows[t].height /\ history[j].ok = rows[t].status
        BY <1>0, <2>2, <4>2 DEF Truthful, OnChain
      <4>4. j = i
        BY <2>2, <2>4, <4>1, <4>3 DEF NoTwins, Evm
      <4>5. history[i].ok = TRUE
        BY <1>2, <2>1, <2>4 DEF Entry
      <4>6. QED
        BY <3>3, <4>1, <4>3, <4>4, <4>5
    <3>4. CASE /\ ~SkipsIndexing(Tx1, At1.height, Entry1.ok)
               /\ rows' = [rows EXCEPT ![Tx1] = IndexedRow(Tx1, Entry1, At1)]
      <4>1. rows'[t] = IndexedRow(t, Entry1, At1)
        BY <1>0, <2>2, <3>1, <3>4 DEF TypeInv, TypeOK
      <4>2. ByIndexing(t)
        BY <2>4, <3>1, <3>4, <4>1 DEF ByIndexing
      <4>3. QED
        BY <2>0, <3>1, <4>2
    <3>5. QED
      BY <3>2, <3>3, <3>4
  <2>5. QED
    <3>1. \/ Passed(i)
          \/ /\ i = nextSeq /\ i \in DOMAIN history /\ history' = history /\ history[i] = Entry1
             /\ ProcessEvm \/ KTx[Entry1.kid] = NotEvm
      BY <1>0, <1>2, <2>1, PassedFrom DEF ForksSafe
    <3>2. QED
      BY <2>2, <2>3, <2>4, <3>1
<1>3. PassedWins'
  BY <1>2 DEF PassedWins, RowOf
<1>4. QED
  BY <1>1, <1>3 DEF WinsInv

\* However often a transaction is relayed again and rejected, in other blocks
\* than the one it executes in: once the cursor has passed the execution, its
\* receipt says that it succeeded.  (In one block index_tx keeps the first entry
\* it meets, whichever that is.)
THEOREM ExecutionWinsOverDuplicates ==
  ASSUME MaxReorgs = 0, IndexerAlone
  PROVE  Spec /\ []NoTwins => []ExecutionWins
<1>1. Init => WinsInv
  <2> SUFFICES ASSUME Init PROVE WinsInv
    OBVIOUS
  <2>1. DOMAIN history = {} /\ polling = {} /\ \A s \in Settler : held[s] = None
    BY DEF Init
  <2>2. QED
    BY <2>1, TruthInit DEF WinsInv, NoReceipts, PassedWins
<1>2. WinsInv /\ NoTwins /\ [Next]_vars => WinsInv'
  BY WinsStep
<1>3. WinsInv => ExecutionWins
  BY DEF WinsInv, PassedWins, Passed, ExecutionWins
<1>4. QED
  BY <1>1, <1>2, <1>3, PTL DEF Spec
===============================================================================
