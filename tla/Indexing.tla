------------------------------ MODULE Indexing ------------------------------
(***************************************************************************)
(* The durable store (db.rs) and its three writers: the account-history    *)
(* indexer (indexer.rs), the receipt poller and the receipt handler        *)
(* (rpc.rs).  The last two settle a row provisionally; the indexer is the  *)
(* authoritative writer and keeps a persisted cursor into the engine's     *)
(* account history.                                                        *)
(*                                                                         *)
(* The Koinos node is external: a history of engine entries, each in a     *)
(* block, whose reversible part (above the LIB) may be replaced by a fork. *)
(***************************************************************************)
EXTENDS Integers, Sequences, FiniteSets

CONSTANTS
  Kid,         \* Koinos transactions, told apart by their id
  Tx,          \* EVM transactions, told apart by their hash
  KTx,         \* Kid -> the EVM transaction it carries, or NotEvm
  Ours,        \* the Koinos transactions this proxy submits
  Handlers,    \* concurrent eth_getTransactionReceipt calls
  PageSize,    \* indexer_page_size
  BlockCap,    \* bound: engine entries per block
  MaxHeight,   \* bound: blocks
  MaxReorgs,   \* bound: fork switches
  MaxPasses,   \* bound: indexer cycles between two moves of the LIB
  MaxErrors,   \* bound: failed node calls and restarts of the proxy
  PollCap,     \* POLL_ATTEMPTS_CAP
  NotEvm,      \* a history entry that relays no EVM transaction
  Poller,      \* the background receipt poller
  None         \* SQL NULL / no value

ASSUME IndexingAssumption ==
  /\ KTx \in [Kid -> Tx \cup {NotEvm}] /\ NotEvm \notin Tx
  /\ PageSize \in Nat \ {0} /\ BlockCap \in Nat \ {0} /\ PollCap \in Nat
  /\ MaxHeight \in Nat /\ MaxReorgs \in Nat /\ MaxErrors \in Nat
  /\ MaxPasses \in Nat \ {0}
  /\ Ours \subseteq {k \in Kid : KTx[k] # NotEvm}
  /\ Poller \notin Handlers

VARIABLES
  \* ---- the Koinos node (external) --------------------------------------
  history,   \* the engine's account history, oldest first
  head, lib, \* height of the head block, and of the last irreversible one
  fork,      \* which fork the head is on: with a height, a block's identity
  reorgs, errors,
  \* ---- the database ----------------------------------------------------
  rows,      \* txs table (with the position of the row's logs)
  blocks,    \* blocks table: identity and counters by height
  cursor,    \* meta table, indexer_cursor: entries passed (0: no cursor)
  \* ---- the indexer's cycle ----------------------------------------------
  ixPc, ixLib, nextSeq, candidate, frozen, page, shortPage,
  passes,    \* cycles begun since the LIB last moved
  \* ---- the provisional writers ------------------------------------------
  submitted, \* Koinos transactions the relay has submitted and recorded
  metaId,    \* tx_meta: the Koinos id known in memory, or None
  polling,   \* the poller's snapshot of pending rows
  held       \* a receipt read from the node and not written yet

nodeVars == <<history, head, lib, fork, reorgs>>
dbVars == <<rows, blocks, cursor>>
ixVars == <<ixPc, ixLib, nextSeq, candidate, frozen, page, shortPage>>
settleVars == <<submitted, metaId, polling, held>>
vars == <<nodeVars, errors, passes, dbVars, ixVars, settleVars>>

Settler == Handlers \cup {Poller}
Height == 1..MaxHeight
Forks == 0..MaxReorgs

\* A history entry: which Koinos transaction, in which block, and whether its
\* EVM transaction executed (the evm.result event of the inline receipt).
Entry == [kid : Kid, height : Height, fork : Forks, ok : BOOLEAN]
Row == [kid : Kid, height : Height \cup {None}, fork : Forks \cup {None},
        index : Nat \cup {None}, status : BOOLEAN \cup {None},
        logBase : Nat, attempts : 0..PollCap]
Receipt == [tx : Tx, kid : Kid, height : Height, fork : Forks, ok : BOOLEAN,
            saved : BOOLEAN]  \* saved: the txs row has been written first

ASSUME NoneAssumption ==
  /\ None \notin Kid /\ None \notin Nat /\ None \notin BOOLEAN
  /\ None \notin Row /\ None \notin Receipt

\* A transaction that executed left one log; a rejected one left none.
Logs(ok) == IF ok THEN 1 ELSE 0

TypeOK ==
  /\ history \in Seq(Entry)
  /\ head \in 0..MaxHeight /\ lib \in 0..head
  /\ fork \in Forks /\ reorgs \in 0..MaxReorgs /\ errors \in 0..MaxErrors
  /\ rows \in [Tx -> Row \cup {None}]
  /\ blocks \in [Height -> [fork : Forks \cup {None}, txs : Nat, logs : Nat]]
  /\ cursor \in Nat /\ candidate \in Nat /\ nextSeq \in Nat \ {0}
  /\ ixPc \in {"idle", "page", "entries", "persist"}
  /\ ixLib \in 0..MaxHeight /\ passes \in 0..MaxPasses
  /\ frozen \in BOOLEAN /\ shortPage \in BOOLEAN
  /\ page \in Seq(Entry)
  /\ submitted \in SUBSET Ours
  /\ metaId \in [Tx -> Kid \cup {None}]
  /\ polling \in SUBSET [tx : Tx, kid : Kid]
  /\ held \in [Settler -> Receipt \cup {None}]

Init ==
  /\ history = <<>> /\ head = 0 /\ lib = 0 /\ fork = 0 /\ reorgs = 0 /\ errors = 0
  /\ rows = [t \in Tx |-> None]
  /\ blocks = [h \in Height |-> [fork |-> None, txs |-> 0, logs |-> 0]]
  /\ cursor = 0 /\ passes = 0
  /\ ixPc = "idle" /\ ixLib = 0 /\ nextSeq = 1 /\ candidate = 0
  /\ frozen = FALSE /\ page = <<>> /\ shortPage = FALSE
  /\ submitted = {} /\ metaId = [t \in Tx |-> None]
  /\ polling = {} /\ held = [s \in Settler |-> None]

-----------------------------------------------------------------------------
(* The node (external) *)

Included(k) == \E i \in DOMAIN history : history[i].kid = k
\* The node names the containing blocks of a transaction; the code takes the first,
\* which is assumed to be the one on the canonical chain.
Located(k) == history[CHOOSE i \in DOMAIN history : history[i].kid = k]
Executed(t) == \E i \in DOMAIN history : history[i].ok /\ KTx[history[i].kid] = t

\* The engine's EVM nonce check: a raw transaction executes at most once on a
\* chain; it may be rejected before (nonce too high) or after that.
Outcomes(k, sofar) ==
  {ok \in BOOLEAN : ok => /\ KTx[k] # NotEvm
                          /\ \A i \in DOMAIN sofar : ~(sofar[i].ok /\ KTx[sofar[i].kid] = KTx[k])}

\* A block with up to BlockCap engine entries.
NewBlock ==
  /\ head < MaxHeight
  /\ head' = head + 1
  /\ \E n \in 0..BlockCap : \E ks \in [1..n -> Kid], oks \in [1..n -> BOOLEAN] :
       LET new == [i \in 1..n |-> [kid |-> ks[i], height |-> head + 1, fork |-> fork, ok |-> oks[i]]]
       IN /\ \A i \in 1..n :
               /\ ~Included(ks[i])
               /\ \A j \in 1..(i - 1) : ks[j] # ks[i]
               /\ oks[i] \in Outcomes(ks[i], history \o SubSeq(new, 1, i - 1))
          /\ history' = history \o new
  /\ UNCHANGED <<lib, fork, reorgs, passes, errors, dbVars, ixVars, settleVars>>

AdvanceLib ==
  /\ lib < head
  /\ lib' = lib + 1
  /\ passes' = 0
  /\ UNCHANGED <<history, head, fork, reorgs, errors, dbVars, ixVars, settleVars>>

\* A fork switch undoes the blocks above some reversible height; their entries,
\* the last ones of the history, leave it and may be included again.
Reorg ==
  /\ reorgs < MaxReorgs
  /\ reorgs' = reorgs + 1 /\ fork' = fork + 1
  /\ \E h \in lib..(head - 1), n \in 0..Len(history) :
       /\ head' = h
       /\ \A i \in DOMAIN history : i <= n <=> history[i].height <= h
       /\ history' = SubSeq(history, 1, n)
  /\ UNCHANGED <<lib, passes, errors, dbVars, ixVars, settleVars>>

Fail == errors < MaxErrors /\ errors' = errors + 1

-----------------------------------------------------------------------------
(* The provisional writers *)

\* upsert_tx: insert the relayed transaction, or refresh its Koinos id.
Upserted(t, k) ==
  IF rows[t] = None
  THEN [kid |-> k, height |-> None, fork |-> None, index |-> None, status |-> None,
        logBase |-> 0, attempts |-> 0]
  ELSE [rows[t] EXCEPT !.kid = k]

\* The relay has submitted Koinos transaction k: it sets the id in tx_meta and
\* hands the row to the blocking pool, where the write may fail.
RecordRelay(k) ==
  /\ k \notin submitted
  /\ submitted' = submitted \cup {k}
  /\ metaId' = [metaId EXCEPT ![KTx[k]] = k]
  /\ \/ rows' = [rows EXCEPT ![KTx[k]] = Upserted(KTx[k], k)] /\ UNCHANGED errors
     \/ Fail /\ UNCHANGED rows
  /\ UNCHANGED <<nodeVars, passes, blocks, cursor, ixVars, polling, held>>

\* The tx_meta entry is evicted.
Evict(t) ==
  /\ metaId[t] # None
  /\ metaId' = [metaId EXCEPT ![t] = None]
  /\ UNCHANGED <<nodeVars, passes, errors, dbVars, ixVars, submitted, polling, held>>

\* load_meta: the id in memory, else the one in the row.
LoadMeta(t) ==
  IF metaId[t] # None \/ rows[t] = None THEN metaId[t] ELSE rows[t].kid

\* fetch_receipt_from_chain of an included Koinos transaction.
FetchReceipt(t, k, saved) ==
  [tx |-> t, kid |-> k, height |-> Located(k).height, fork |-> Located(k).fork,
   ok |-> Located(k).ok, saved |-> saved]

\* Mutant: the poller never gives up on a row.
PollForever ==
  /\ polling = {} /\ held[Poller] = None
  /\ polling' = {[tx |-> t, kid |-> rows[t].kid] :
                   t \in {u \in Tx : rows[u] # None /\ rows[u].status = None}}
  /\ polling' # {}
  /\ UNCHANGED <<nodeVars, passes, errors, dbVars, ixVars, submitted, metaId, held>>

\* pending_txs: the poller's snapshot of unsettled rows.
PollStart ==
  /\ polling = {} /\ held[Poller] = None
  /\ polling' = {[tx |-> t, kid |-> rows[t].kid] :
                   t \in {u \in Tx : rows[u] # None /\ rows[u].status = None
                                     /\ rows[u].attempts < PollCap}}
  /\ polling' # {}
  /\ UNCHANGED <<nodeVars, passes, errors, dbVars, ixVars, submitted, metaId, held>>

\* The node has a receipt for one of them ...
PollFetch(p) ==
  /\ held[Poller] = None
  /\ Included(p.kid)
  /\ polling' = polling \ {p}
  /\ held' = [held EXCEPT ![Poller] = FetchReceipt(p.tx, p.kid, TRUE)]
  /\ UNCHANGED <<nodeVars, passes, errors, dbVars, ixVars, submitted, metaId>>

\* ... or not, or the call fails: bump_poll_attempts.
PollMiss(p) ==
  /\ held[Poller] = None
  /\ IF Included(p.kid) THEN Fail ELSE UNCHANGED errors
  /\ polling' = polling \ {p}
  /\ rows' = [rows EXCEPT ![p.tx].attempts = @ + 1]
  /\ UNCHANGED <<nodeVars, passes, blocks, cursor, ixVars, submitted, metaId, held>>

\* eth_getTransactionReceipt of a transaction with no settled row, or with one
\* that get_receipt fails to read, asks the node ...  (load_meta, get_receipt
\* and the node's answer are one step: what settles in between settles after.)
HandlerFetch(s, t) ==
  /\ held[s] = None
  /\ LoadMeta(t) # None
  /\ IF rows[t] = None \/ rows[t].status = None THEN UNCHANGED errors ELSE Fail
  /\ Included(LoadMeta(t))
  /\ held' = [held EXCEPT ![s] = FetchReceipt(t, LoadMeta(t), FALSE)]
  /\ UNCHANGED <<nodeVars, passes, dbVars, ixVars, submitted, metaId, polling>>

\* ... and saves the transaction's row before it writes the receipt.
HandlerUpsert(s) ==
  /\ held[s] # None /\ ~held[s].saved
  /\ rows' = [rows EXCEPT ![held[s].tx] = Upserted(held[s].tx, held[s].kid)]
  /\ held' = [held EXCEPT ![s].saved = TRUE]
  /\ UNCHANGED <<nodeVars, passes, errors, blocks, cursor, ixVars, submitted, metaId, polling>>

\* set_receipt: receipt fields and logs, tx_index NULL, log indexes from 0.
\* It runs after the awaits, whatever the row has become since.
SetReceipt(s) ==
  /\ held[s] # None /\ held[s].saved
  /\ LET r == held[s] IN
       rows' = [rows EXCEPT ![r.tx].height = r.height, ![r.tx].fork = r.fork,
                            ![r.tx].index = None, ![r.tx].status = r.ok,
                            ![r.tx].logBase = 0]
  /\ held' = [held EXCEPT ![s] = None]
  /\ UNCHANGED <<nodeVars, passes, errors, blocks, cursor, ixVars, submitted, metaId, polling>>

-----------------------------------------------------------------------------
(* The indexer: run_cycle, process_entry, index_tx *)

\* The cycle's local variables, once it is over.
EndCycle ==
  /\ ixPc' = "idle" /\ ixLib' = 0 /\ nextSeq' = 1 /\ candidate' = 0
  /\ frozen' = FALSE /\ page' = <<>> /\ shortPage' = FALSE

\* The LIB is read once per cycle, then the cursor.
StartCycle ==
  /\ ixPc = "idle"
  /\ lib = head \/ passes < MaxPasses
  /\ passes' = IF lib = head THEN passes ELSE passes + 1
  /\ ixPc' = "page"
  /\ ixLib' = lib /\ nextSeq' = cursor + 1 /\ candidate' = cursor /\ frozen' = FALSE
  /\ UNCHANGED <<nodeVars, errors, dbVars, page, shortPage, settleVars>>

\* Mutant: seq_num is taken for the entry before the page.
FetchPageAfter ==
  /\ ixPc = "page"
  /\ LET last == IF nextSeq + PageSize < Len(history) THEN nextSeq + PageSize
                 ELSE Len(history)
     IN  /\ page' = SubSeq(history, nextSeq + 1, last)
         /\ shortPage' = (last - nextSeq < PageSize)
         /\ ixPc' = IF last < nextSeq + 1 THEN "persist" ELSE "entries"
  /\ UNCHANGED <<nodeVars, passes, errors, dbVars, ixLib, nextSeq, candidate, frozen, settleVars>>

FetchPage ==
  /\ ixPc = "page"
  /\ LET last == IF nextSeq + PageSize - 1 < Len(history) THEN nextSeq + PageSize - 1
                 ELSE Len(history)
     IN  /\ page' = SubSeq(history, nextSeq, last)
         /\ shortPage' = (last - nextSeq + 1 < PageSize)
         /\ ixPc' = IF last < nextSeq THEN "persist" ELSE "entries"
  /\ UNCHANGED <<nodeVars, passes, errors, dbVars, ixLib, nextSeq, candidate, frozen, settleVars>>

\* A failed history call ends the cycle; the cursor is not written.
AbortCycle ==
  /\ ixPc = "page"
  /\ Fail
  /\ EndCycle
  /\ UNCHANGED <<nodeVars, passes, dbVars, settleVars>>

\* Mutant: a failed duplicate in another block overwrites the success.
SkipsSameHeightOnly(t, height, ok) ==
  rows[t] # None /\ rows[t].index # None /\ rows[t].height = height

\* index_tx leaves the row alone: it is indexed for this height already, or a
\* failed duplicate meets an indexed success.
SkipsIndexing(t, height, ok) ==
  /\ rows[t] # None
  /\ rows[t].index # None
  /\ rows[t].height = height \/ (rows[t].status = TRUE /\ ~ok)

\* Mutant: the block's transaction counter is not advanced.
IndexTxUncounted(t, e, at) ==
  LET b == blocks[at.height]
      old == Upserted(t, e.kid)
  IN  /\ rows' = [rows EXCEPT ![t] =
                    [old EXCEPT !.height = at.height, !.fork = at.fork, !.index = b.txs,
                                !.status = e.ok, !.logBase = b.logs]]
      /\ blocks' = [blocks EXCEPT ![at.height] =
                      [fork |-> IF b.fork = None THEN at.fork ELSE b.fork,
                       txs |-> b.txs, logs |-> b.logs + Logs(e.ok)]]

\* index_tx otherwise: position from the block's counters, which then advance.
IndexTx(t, e, at) ==
  LET b == blocks[at.height]
      old == Upserted(t, e.kid)
  IN  /\ rows' = [rows EXCEPT ![t] =
                    [old EXCEPT !.height = at.height, !.fork = at.fork, !.index = b.txs,
                                !.status = e.ok, !.logBase = b.logs]]
      /\ blocks' = [blocks EXCEPT ![at.height] =
                      [fork |-> IF b.fork = None THEN at.fork ELSE b.fork,
                       txs |-> b.txs + 1, logs |-> b.logs + Logs(e.ok)]]

\* Mutant: the cursor follows reversible entries too.
FollowReversible(height) ==
  IF ~frozen
  THEN candidate' = nextSeq /\ UNCHANGED frozen
  ELSE frozen' = TRUE /\ UNCHANGED candidate

\* Mutant: the last irreversible block itself counts as reversible.
FollowBelowLib(height) ==
  IF ~frozen /\ height < ixLib
  THEN candidate' = nextSeq /\ UNCHANGED frozen
  ELSE frozen' = TRUE /\ UNCHANGED candidate

\* The cursor follows an entry at or below the LIB, and freezes at the first
\* one above it.
Follow(height) ==
  IF ~frozen /\ height <= ixLib
  THEN candidate' = nextSeq /\ UNCHANGED frozen
  ELSE frozen' = TRUE /\ UNCHANGED candidate

NextEntry ==
  /\ ixPc = "entries"
  /\ nextSeq' = nextSeq + 1
  /\ page' = Tail(page)
  /\ ixPc' = IF Len(page) > 1 THEN "entries" ELSE IF shortPage THEN "persist" ELSE "page"
  /\ UNCHANGED <<ixLib, shortPage>>

\* The receipt comes from the page, the block from a lookup made now.
ProcessEvm ==
  /\ NextEntry
  /\ LET e == Head(page)
         t == KTx[e.kid]
         at == Located(e.kid)
     IN  /\ t # NotEvm
         /\ Included(e.kid)
         /\ IF SkipsIndexing(t, at.height, e.ok) THEN UNCHANGED <<rows, blocks>>
            ELSE IndexTx(t, e, at)
         /\ Follow(at.height)
  /\ UNCHANGED <<nodeVars, passes, errors, cursor, settleVars>>

\* An entry that relays nothing is passed without a look at its block.
ProcessNotEvm ==
  /\ NextEntry
  /\ KTx[Head(page).kid] = NotEvm
  /\ candidate' = IF frozen THEN candidate ELSE nextSeq
  /\ UNCHANGED <<frozen, nodeVars, passes, errors, dbVars, settleVars>>

\* Mutant: a failed entry does not stop the cursor.
ProcessFailsOpen ==
  /\ NextEntry
  /\ KTx[Head(page).kid] # NotEvm
  /\ IF Included(Head(page).kid) THEN Fail ELSE UNCHANGED errors
  /\ UNCHANGED <<frozen, candidate, nodeVars, passes, dbVars, settleVars>>

\* The block lookup fails, or the transaction has left the chain since the
\* page was read: the cursor freezes, the rest of the page goes on.
ProcessFails ==
  /\ NextEntry
  /\ KTx[Head(page).kid] # NotEvm
  /\ IF Included(Head(page).kid) THEN Fail ELSE UNCHANGED errors
  /\ frozen' = TRUE
  /\ UNCHANGED <<candidate, nodeVars, passes, dbVars, settleVars>>

PersistCursor ==
  /\ ixPc = "persist"
  /\ EndCycle
  /\ cursor' = candidate
  /\ UNCHANGED <<nodeVars, passes, errors, rows, blocks, settleVars>>

\* The proxy restarts: the cycle and the receipts in hand are lost.
Restart ==
  /\ Fail
  /\ EndCycle
  /\ metaId' = [t \in Tx |-> None]
  /\ polling' = {} /\ held' = [s \in Settler |-> None]
  /\ UNCHANGED <<nodeVars, passes, dbVars, submitted>>

-----------------------------------------------------------------------------
Index ==
  \/ StartCycle \/ FetchPage \/ AbortCycle \/ PersistCursor
  \/ ProcessEvm \/ ProcessNotEvm \/ ProcessFails

Next ==
  \/ NewBlock \/ AdvanceLib \/ Reorg
  \/ \E k \in Ours : RecordRelay(k)
  \/ \E t \in Tx : Evict(t)
  \/ PollStart \/ \E p \in polling : PollFetch(p) \/ PollMiss(p)
  \/ \E s \in Handlers : HandlerUpsert(s) \/ \E t \in Tx : HandlerFetch(s, t)
  \/ \E s \in Settler : SetReceipt(s)
  \/ Index
  \/ Restart

Spec == Init /\ [][Next]_vars

\* The indexer runs on a timer and every call of it returns or times out; the
\* faults it meets are bounded by MaxErrors.  Blocks become irreversible.
FairSpec == Spec /\ WF_vars(Index) /\ WF_vars(AdvanceLib)

-----------------------------------------------------------------------------
(* Properties *)

Evm(i) == KTx[history[i].kid] # NotEvm
RowOf(i) == rows[KTx[history[i].kid]]
Authoritative(t) == rows[t] # None /\ rows[t].index # None

\* Every EVM entry behind the persisted cursor has a settled row.  What the
\* cursor passes is never read again, so a transaction skipped there would be
\* missing from the store for good: it must neither pass an entry that failed
\* nor one that a fork switch may still replace by another.
NoEntrySkipped ==
  \A i \in DOMAIN history :
    i <= cursor /\ Evm(i) => RowOf(i) # None /\ RowOf(i).status # None

\* Two authoritative rows of one height never share a transactionIndex or a
\* logIndex, whatever was re-indexed, retried or settled in between.
UniquePositions ==
  \A t, u \in {v \in Tx : Authoritative(v)} :
    t # u /\ rows[t].height = rows[u].height =>
      /\ rows[t].index # rows[u].index
      /\ rows[t].index < rows[u].index
           => rows[t].logBase + Logs(rows[t].status) <= rows[u].logBase

\* Once the cursor has passed the execution of a transaction, its receipt says
\* that it succeeded, however often it was also relayed and rejected.
ExecutionWins ==
  \A i \in 1..cursor : i \in DOMAIN history /\ history[i].ok => RowOf(i).status = TRUE

\* Every final entry is passed by the cursor in the end.
CursorCatchesUp ==
  \A i \in 1..(MaxHeight * BlockCap) :
    (i \in DOMAIN history /\ history[i].height <= lib) ~> cursor >= i

\* An executed transaction that stays on the chain gets a receipt that stays.
ExecutionIsServed ==
  \A t \in Tx : <>[]Executed(t) => <>[](rows[t] # None /\ rows[t].status # None)

\* The indexer's rows are authoritative: the provisional writers never take
\* the position of an indexed transaction away again.
AuthoritativeStays ==
  [][\A t \in Tx : Authoritative(t) => rows'[t].index # None]_vars

\* Behind the cursor an executed transaction is reported at the height of the
\* block that contains it, wherever a fork switch has moved it before.
HeightIsReal ==
  \A i \in 1..cursor :
    i \in DOMAIN history /\ history[i].ok =>
      RowOf(i) # None /\ RowOf(i).height = history[i].height
=============================================================================
