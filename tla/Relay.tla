-------------------------------- MODULE Relay --------------------------------
(***************************************************************************)
(* The relay half of the JSON-RPC proxy: eth_sendRawTransaction, the       *)
(* detached submit task behind it, the operator-nonce gate they share with *)
(* the periodic reconciler, and the crash of the whole proxy.              *)
(*                                                                         *)
(* Every EVM transaction is wrapped in a Koinos transaction signed by ONE  *)
(* operator account, so all relayed transactions draw their Koinos nonces  *)
(* from one counter.  The counter is a cache (AppState::operator_nonce)    *)
(* guarded by an async mutex, the gate.  The Koinos node (its mempool and  *)
(* its committed account nonce) is external: it is modelled by what the    *)
(* proxy relies on.                                                        *)
(***************************************************************************)
EXTENDS Naturals, Sequences, FiniteSets

CONSTANTS
  Tx,           \* raw EVM transactions, told apart by their keccak hash
  Req,          \* eth_sendRawTransaction calls; each one is made once
  Evictable,    \* transactions whose tx_meta entry may be evicted (cap or TTL)
  MaxFaults,    \* bound: foreign operator transactions, losses of mempool
                \* entries and restarts of the proxy, taken together
  None,         \* Option::None of the cached nonce / of a fetched nonce
  Free,         \* the gate is not held
  Foreign       \* an operator transaction that was not relayed by this proxy

ASSUME RelayAssumption ==
  /\ Evictable \subseteq Tx
  /\ IsFiniteSet(Req)
  /\ MaxFaults \in Nat
  /\ None \notin Nat
  /\ Free \notin Req
  /\ Foreign \notin Tx

VARIABLES
  \* ---- the proxy's memory --------------------------------------------
  gate,      \* holder of the operator_nonce mutex across an await
  cache,     \* operator_nonce: the NEXT Koinos nonce to use, or None
  inflight,  \* inflight_submits
  quiet,     \* now - last_submit_ok >= 2 * NONCE_RECONCILE_SECS
  meta,      \* tx_meta: absent, placeholder (no Koinos id) or relayed
  pc,        \* control state of each call's handler and submit task
  txOf,      \* the transaction a call carries
  resynced,  \* the submit loop's retry flag
  fetched,   \* the reconciler's chain_next, read before it takes the gate
  writes,    \* upsert_tx jobs handed to spawn_blocking, not run yet
  \* ---- the durable store ----------------------------------------------
  db,        \* txs row: absent, unsettled (status NULL) or settled
  \* ---- the Koinos node (external) --------------------------------------
  chain,     \* committed operator transactions; the n-th has nonce n
  mempool,   \* admitted ones, in nonce order after the chain's
  late,      \* submits the proxy gave up on that may still reach the node
  faults,    \* how often the environment has interfered
  \* ---- history, read by the properties only ----------------------------
  topNonce,  \* the highest operator nonce the node has ever admitted
  excused    \* transactions whose record was lost: evicted, wiped by a
             \* crash, never stored because the write failed, or given up
             \* on while the outcome was unknown

proxyVars == <<gate, cache, inflight, quiet, meta, pc, txOf, resynced, fetched, writes>>
nodeVars  == <<chain, mempool, late, faults>>
histVars  == <<topNonce, excused>>
vars == <<proxyVars, db, nodeVars, histVars>>

MetaState == {"absent", "placeholder", "relayed"}
DbState   == {"absent", "unsettled", "settled"}
PC == {"idle", "queued", "fetch", "send", "admitted", "refetch", "settle", "finish", "done"}

\* The nonce a transaction must carry to be admitted now: the mempool admits
\* operator transactions strictly in nonce order.
NodeNext == Len(chain) + Len(mempool) + 1

\* What get_account_nonce answers, plus one: committed state only, so it does
\* not see the mempool.
ChainNext == Len(chain) + 1

\* Every admitted operator transaction the node still has, in nonce order.
Ledger == chain \o mempool

InFlight == {r \in Req : pc[r] \notin {"idle", "done"}}
Occurs(t, s) == \E i \in DOMAIN s : s[i] = t
Later(a, b) == IF a > b THEN a ELSE b

TypeOK ==
  /\ gate \in Req \cup {Free}
  /\ cache \in Nat \cup {None}
  /\ inflight \in Nat
  /\ quiet \in BOOLEAN
  /\ meta \in [Tx -> MetaState]
  /\ pc \in [Req -> PC]
  /\ txOf \in [Req -> Tx]
  /\ resynced \in [Req -> BOOLEAN]
  /\ fetched \in Nat \cup {None}
  /\ writes \in SUBSET Tx
  /\ db \in [Tx -> DbState]
  /\ chain \in Seq(Tx \cup {Foreign})
  /\ mempool \in Seq(Tx \cup {Foreign})
  /\ late \in SUBSET [nonce : Nat, tx : Tx]
  /\ faults \in 0..MaxFaults
  /\ topNonce \in Nat
  /\ excused \in SUBSET Tx

Init ==
  /\ gate = Free /\ cache = None /\ inflight = 0 /\ quiet = TRUE
  /\ meta = [t \in Tx |-> "absent"]
  /\ pc = [r \in Req |-> "idle"]
  /\ txOf \in [Req -> Tx]
  /\ resynced = [r \in Req |-> FALSE]
  /\ fetched = None /\ writes = {}
  /\ db = [t \in Tx |-> "absent"]
  /\ chain = <<>> /\ mempool = <<>> /\ late = {}
  /\ faults = 0
  /\ topNonce = 0 /\ excused = {}

-----------------------------------------------------------------------------
(* eth_sendRawTransaction *)

Goto(r, from, to) == pc[r] = from /\ pc' = [pc EXCEPT ![r] = to]

\* Mutant: the dedupe asks the durable store only.
AlreadyKnownDurably(t) == db[t] = "settled"

\* The dedupe test: a known hash is answered at once and nothing changes.  (The
\* code takes a database that cannot be read for one that has no status.)
AlreadyKnown(t) == meta[t] # "absent" \/ db[t] = "settled"

\* The short critical section of handle_send_raw_tx: dedupe, count the submit,
\* insert the placeholder (which sweeps the store), spawn the submit task.  It
\* has no await, so the gate is taken and given back within the step.
Reserve(r) ==
  /\ gate = Free
  /\ Goto(r, "idle", "queued")
  /\ ~AlreadyKnown(txOf[r])
  /\ inflight' = inflight + 1
  /\ \E gone \in SUBSET (Evictable \ {txOf[r]}) :
       /\ meta' = [t \in Tx |-> IF t = txOf[r] THEN "placeholder"
                                ELSE IF t \in gone THEN "absent" ELSE meta[t]]
       /\ excused' = excused \cup {t \in gone : meta[t] # "absent"}
  /\ UNCHANGED <<gate, cache, quiet, txOf, resynced, fetched, writes, db,
                 nodeVars, topNonce>>

\* The already-known answer: the call ends without touching anything.
AnswerKnown(r) ==
  /\ gate = Free
  /\ Goto(r, "idle", "done")
  /\ AlreadyKnown(txOf[r])
  /\ UNCHANGED <<gate, cache, inflight, quiet, meta, txOf, resynced, fetched,
                 writes, db, nodeVars, histVars>>

-----------------------------------------------------------------------------
(* submit_reserved_tx *)

\* The task takes the gate and keeps it until the round trip has an outcome.
TakeGate(r) ==
  /\ gate = Free
  /\ Goto(r, "queued", IF cache = None THEN "fetch" ELSE "send")
  /\ gate' = r
  /\ UNCHANGED <<cache, inflight, quiet, meta, txOf, resynced, fetched, writes,
                 db, nodeVars, histVars>>

\* Mutant: the error path forgets the placeholder.
AbandonKeepsPlaceholder(r, from, nonce) ==
  /\ Goto(r, from, "finish")
  /\ gate' = Free
  /\ cache' = nonce
  /\ UNCHANGED <<inflight, quiet, meta, txOf, resynced, fetched, writes, db>>

\* Mutant: the error path returns with the gate still held.
AbandonHoldsGate(r, from, nonce) ==
  /\ Goto(r, from, "finish")
  /\ cache' = nonce
  /\ meta' = [meta EXCEPT ![txOf[r]] = "absent"]
  /\ UNCHANGED <<gate, inflight, quiet, txOf, resynced, fetched, writes, db>>

\* An error return: the placeholder is removed so that the transaction can be
\* sent again, and the gate is released.
Abandon(r, from, nonce) ==
  /\ Goto(r, from, "finish")
  /\ gate' = Free
  /\ cache' = nonce
  /\ meta' = [meta EXCEPT ![txOf[r]] = "absent"]
  /\ UNCHANGED <<inflight, quiet, txOf, resynced, fetched, writes, db>>

\* The lazy fetch of the operator nonce.
FetchOk(r) ==
  /\ Goto(r, "fetch", "send")
  /\ cache' = ChainNext
  /\ UNCHANGED <<gate, inflight, quiet, meta, txOf, resynced, fetched, writes,
                 db, nodeVars, histVars>>

FetchFails(r) ==
  /\ Abandon(r, "fetch", cache)
  /\ UNCHANGED <<nodeVars, histVars>>

\* The node admits the submit: its nonce is the next one.
Admit(t) ==
  /\ mempool' = Append(mempool, t)
  /\ topNonce' = Later(topNonce, NodeNext)

SubmitAdmitted(r) ==
  /\ cache = NodeNext
  /\ Goto(r, "send", "admitted")
  /\ Admit(txOf[r])
  /\ UNCHANGED <<gate, cache, inflight, quiet, meta, txOf, resynced, fetched,
                 writes, db, chain, late, faults, excused>>

\* First rejection that names the nonce: fetch the chain's value and retry.
SubmitBadNonce(r) ==
  /\ cache # NodeNext
  /\ ~resynced[r]
  /\ Goto(r, "send", "refetch")
  /\ resynced' = [resynced EXCEPT ![r] = TRUE]
  /\ UNCHANGED <<gate, cache, inflight, quiet, meta, txOf, fetched, writes, db,
                 nodeVars, histVars>>

RefetchOk(r) ==
  /\ Goto(r, "refetch", "send")
  /\ cache' = ChainNext
  /\ UNCHANGED <<gate, inflight, quiet, meta, txOf, resynced, fetched, writes,
                 db, nodeVars, histVars>>

RefetchFails(r) ==
  /\ Abandon(r, "refetch", None)
  /\ UNCHANGED <<nodeVars, histVars>>

\* Second rejection in a row: the cached value is not trusted any more.
SubmitBadNonceAgain(r) ==
  /\ cache # NodeNext
  /\ resynced[r]
  /\ Abandon(r, "send", None)
  /\ UNCHANGED <<nodeVars, histVars>>

\* Any other error (mana, node overloaded) leaves the counter as it is.
SubmitRefused(r) ==
  /\ Abandon(r, "send", cache)
  /\ UNCHANGED <<nodeVars, histVars>>

\* Mutant: a submit that timed out uses up its nonce.
TimeoutAdvances(r) ==
  /\ Abandon(r, "send", cache + 1)
  /\ late' = late \cup {[nonce |-> cache, tx |-> txOf[r]]}
  /\ excused' = excused \cup {txOf[r]}
  /\ UNCHANGED <<chain, mempool, faults, topNonce>>

\* The HTTP client gives up (30 s).  The request may still reach the node.
SubmitTimesOut(r) ==
  /\ Abandon(r, "send", cache)
  /\ late' = late \cup {[nonce |-> cache, tx |-> txOf[r]]}
  /\ excused' = excused \cup {txOf[r]}
  /\ UNCHANGED <<chain, mempool, faults, topNonce>>

\* The node admitted the submit, but its answer is lost: the same error path.
AnswerLost(r) ==
  /\ Abandon(r, "admitted", cache)
  /\ excused' = excused \cup {txOf[r]}
  /\ UNCHANGED <<nodeVars, topNonce>>

\* Success: advance the counter and release the gate.
Advance(r) ==
  /\ Goto(r, "admitted", "settle")
  /\ cache' = cache + 1
  /\ gate' = Free
  /\ UNCHANGED <<inflight, quiet, meta, txOf, resynced, fetched, writes, db,
                 nodeVars, histVars>>

\* Mutant: no durable row is written after a submit.
SettleInMemory(r) ==
  /\ Goto(r, "settle", "finish")
  /\ quiet' = FALSE
  /\ meta' = [meta EXCEPT ![txOf[r]] = IF @ = "absent" THEN @ ELSE "relayed"]
  /\ UNCHANGED <<gate, cache, inflight, txOf, resynced, fetched, writes, db, nodeVars,
                 histVars>>

\* The bookkeeping after the gate is released: last_submit_ok, the Koinos id
\* on the placeholder (if it is still there), the durable row (only then).
Settle(r) ==
  /\ Goto(r, "settle", "finish")
  /\ quiet' = FALSE
  /\ meta' = [meta EXCEPT ![txOf[r]] = IF @ = "absent" THEN @ ELSE "relayed"]
  /\ writes' = IF meta[txOf[r]] = "absent" THEN writes ELSE writes \cup {txOf[r]}
  /\ UNCHANGED <<gate, cache, inflight, txOf, resynced, fetched, db, nodeVars,
                 histVars>>

\* Mutant: the counter is decremented by hand and by the guard.
FinishTwice(r) ==
  /\ Goto(r, "finish", "done")
  /\ inflight' = inflight - 2
  /\ UNCHANGED <<gate, cache, quiet, meta, txOf, resynced, fetched, writes, db,
                 nodeVars, histVars>>

\* Mutant: a task ends without its guard.
FinishUnguarded(r) ==
  /\ Goto(r, "finish", "done")
  /\ UNCHANGED <<gate, cache, inflight, quiet, meta, txOf, resynced, fetched, writes,
                 db, nodeVars, histVars>>

\* InflightGuard::drop, on every way out of the task.
Finish(r) ==
  /\ Goto(r, "finish", "done")
  /\ inflight' = inflight - 1
  /\ UNCHANGED <<gate, cache, quiet, meta, txOf, resynced, fetched, writes, db,
                 nodeVars, histVars>>

-----------------------------------------------------------------------------
(* reconcile_operator_nonce *)

\* The chain's nonce is read first, without the gate.  A read that fails ends
\* the cycle and changes nothing: it is a stuttering step.
ReconcileFetch ==
  /\ fetched = None
  /\ fetched' = ChainNext
  /\ UNCHANGED <<gate, cache, inflight, quiet, meta, pc, txOf, resynced, writes,
                 db, nodeVars, histVars>>

\* Mutant: the step down does not look at the submits in flight.
ReconciledWhenQuiet(cached, chainNext) ==
  IF cached = None THEN None
  ELSE IF chainNext > cached THEN chainNext
  ELSE IF chainNext < cached /\ quiet THEN chainNext
  ELSE cached

\* Mutant: the counter is only ever moved up.
ReconciledUpwards(cached, chainNext) ==
  IF cached # None /\ chainNext > cached THEN chainNext ELSE cached

\* What the reconciler makes of the counter once it has the gate.
Reconciled(cached, chainNext) ==
  IF cached = None THEN None
  ELSE IF chainNext > cached THEN chainNext
  ELSE IF chainNext < cached /\ inflight = 0 /\ quiet THEN chainNext
  ELSE cached

ReconcileApply ==
  /\ fetched # None
  /\ gate = Free
  /\ cache' = Reconciled(cache, fetched)
  /\ fetched' = None
  /\ UNCHANGED <<gate, inflight, quiet, meta, pc, txOf, resynced, writes, db,
                 nodeVars, histVars>>

\* Time passes: the quiet period is over.
QuietElapses ==
  /\ ~quiet
  /\ quiet' = TRUE
  /\ UNCHANGED <<gate, cache, inflight, meta, pc, txOf, resynced, fetched,
                 writes, db, nodeVars, histVars>>

-----------------------------------------------------------------------------
(* The durable store *)

\* upsert_tx runs on the blocking pool; it never touches the receipt columns.
UpsertTx(t) ==
  /\ t \in writes
  /\ writes' = writes \ {t}
  /\ db' = [db EXCEPT ![t] = IF @ = "absent" THEN "unsettled" ELSE @]
  /\ UNCHANGED <<gate, cache, inflight, quiet, meta, pc, txOf, resynced,
                 fetched, nodeVars, histVars>>

\* The write fails: it is logged and given up.
UpsertFails(t) ==
  /\ t \in writes
  /\ writes' = writes \ {t}
  /\ excused' = excused \cup {t}
  /\ UNCHANGED <<gate, cache, inflight, quiet, meta, pc, txOf, resynced, fetched,
                 db, nodeVars, topNonce>>

\* The receipt of an included transaction is stored: by the poller, by the
\* receipt handler or by the indexer, which also finds the ones with no row.
SettleReceipt(t) ==
  /\ db[t] # "settled"
  /\ Occurs(t, chain)
  /\ db' = [db EXCEPT ![t] = "settled"]
  /\ UNCHANGED <<proxyVars, nodeVars, histVars>>

-----------------------------------------------------------------------------
(* The node and the operator's other users (external), and restarts *)

\* One more disturbance, within the bound.
Interfere == faults < MaxFaults /\ faults' = faults + 1

Commit ==
  /\ mempool # <<>>
  /\ chain' = Append(chain, Head(mempool))
  /\ mempool' = Tail(mempool)
  /\ UNCHANGED <<proxyVars, db, late, faults, histVars>>

\* The node forgets its mempool from some position on (restart, expiry).
DropMempool ==
  /\ Interfere
  /\ \E k \in 1..Len(mempool) : mempool' = SubSeq(mempool, 1, k - 1)
  /\ UNCHANGED <<proxyVars, db, chain, late, histVars>>

\* Somebody else uses the operator account.
ExternalSubmit ==
  /\ Interfere
  /\ mempool' = Append(mempool, Foreign)
  /\ topNonce' = Later(topNonce, NodeNext)
  /\ UNCHANGED <<proxyVars, db, chain, late, excused>>

\* A submit the proxy gave up on reaches the node after all.
LateArrival(m) ==
  /\ late' = late \ {m}
  /\ IF m.nonce = NodeNext
     THEN Admit(m.tx)
     ELSE UNCHANGED <<mempool, topNonce>>
  /\ UNCHANGED <<proxyVars, db, chain, faults, excused>>

\* The proxy process dies and starts again: memory is lost, the store and the
\* node are not.  A request on the wire may still arrive.  last_submit_ok
\* restarts at 0, which counts as quiet.
Crash ==
  /\ Interfere
  /\ gate' = Free /\ cache' = None /\ inflight' = 0 /\ quiet' = TRUE
  /\ meta' = [t \in Tx |-> "absent"]
  /\ pc' = [r \in Req |-> IF r \in InFlight THEN "done" ELSE pc[r]]
  /\ fetched' = None /\ writes' = {}
  /\ late' = late \cup {[nonce |-> cache, tx |-> txOf[r]] : r \in {q \in Req : pc[q] = "send"}}
  /\ excused' = excused \cup {t \in Tx : meta[t] # "absent"}
  /\ UNCHANGED <<txOf, resynced, db, chain, mempool, topNonce>>

-----------------------------------------------------------------------------
Task(r) ==
  \/ TakeGate(r) \/ FetchOk(r) \/ FetchFails(r)
  \/ SubmitAdmitted(r) \/ SubmitBadNonce(r) \/ SubmitBadNonceAgain(r)
  \/ SubmitRefused(r) \/ SubmitTimesOut(r) \/ AnswerLost(r)
  \/ RefetchOk(r) \/ RefetchFails(r)
  \/ Advance(r) \/ Settle(r) \/ Finish(r)

Next ==
  \/ \E r \in Req : Reserve(r) \/ AnswerKnown(r) \/ Task(r)
  \/ ReconcileFetch \/ ReconcileApply \/ QuietElapses
  \/ \E t \in Tx : UpsertTx(t) \/ UpsertFails(t) \/ SettleReceipt(t)
  \/ Commit \/ DropMempool \/ ExternalSubmit \/ Crash
  \/ \E m \in late : LateArrival(m)

Spec == Init /\ [][Next]_vars

\* The submit task is detached (tokio::spawn) and its HTTP calls time out, so
\* each task keeps moving; the gate is a FIFO mutex and every holder releases
\* it; the reconciler runs on a timer and not every read of it fails; blocks
\* keep being produced.
Fairness ==
  /\ \A r \in Req : WF_vars(Task(r))
  /\ WF_vars(ReconcileFetch) /\ WF_vars(ReconcileApply) /\ WF_vars(QuietElapses)
  /\ WF_vars(Commit)

FairSpec == Spec /\ Fairness

-----------------------------------------------------------------------------
(* Properties *)

\* The cached counter never runs past the first nonce the node has not seen:
\* a submit can be a duplicate, but it never leaves a hole in the operator's
\* nonce sequence that would block every later relayed transaction.  Holds
\* through retries, stale reconciles, lost answers, mempool loss and restarts.
NoNonceGap == cache # None => cache <= topNonce + 1

\* inflight_submits is exactly the number of calls between their reservation
\* and the drop of their InflightGuard, on every path out of the task.
InflightExact == inflight = Cardinality(InFlight)

\* A dedupe placeholder always has a live task that will fill it in or remove
\* it.  An orphan would answer "already known" for a transaction nobody sends.
NoOrphanPlaceholder ==
  \A t \in Tx : meta[t] = "placeholder" => \E r \in InFlight : txOf[r] = t

\* A transaction occupies at most one operator nonce, unless its record was
\* lost (evicted, crash) or its first submit had an unknown outcome.
RelayedOnce ==
  \A t \in Tx \ excused :
    \A i, j \in DOMAIN Ledger : Ledger[i] = t /\ Ledger[j] = t => i = j

\* What the relay got admitted stays findable by its hash: it carries its
\* Koinos id, or a task that is about to write it is still running.
AdmittedIsKnown ==
  \A t \in Tx \ excused :
    Occurs(t, Ledger)
      => \/ meta[t] = "relayed" /\ (t \in writes \/ db[t] # "absent")
         \/ \E r \in InFlight : txOf[r] = t

\* The reconciler never steps the counter down while a submit is between its
\* admission and the store of last_submit_ok, the window in which the quiet
\* period alone would not hold it back.
NoStepDownUnderSubmit ==
  [][(gate = Free /\ cache # None /\ cache' # None /\ cache' < cache)
       => \A r \in Req : pc[r] # "settle"]_vars

\* Every reserved submit ends: with a Koinos id, an error, or in a crash.
EverySubmitEnds == \A r \in Req : pc[r] = "queued" ~> pc[r] = "done"

\* Drift between the counter and the node heals once the traffic stops: the
\* counter becomes admissible again or is cleared for a lazy fetch.
DriftHeals ==
  (cache # None /\ cache # NodeNext) ~> (cache = None \/ cache = NodeNext)

\* The relay implements OnceLedger: whatever the interleaving of calls, retries,
\* timeouts, late arrivals, evictions and restarts, each step puts a transaction
\* on the operator's ledger only if it is known and not there yet, and makes
\* the dedupe forget one only if it is not on the ledger or its record is lost.
Promise == INSTANCE OnceLedger WITH
  ledger <- Ledger,
  known <- {t \in Tx : AlreadyKnown(t)},
  lost <- excused

ImplementsOnceLedger == Promise!Spec
=============================================================================
