# A TLA+ model of the Koinos EVM engine and its JSON-RPC proxy

The repository runs Ethereum transactions on the Koinos chain. An **engine** (a
WASM contract, `koinos-evm/engine`) parses and executes raw Ethereum
transactions with revm and keeps accounts, code and storage in Koinos object
spaces. A **proxy** (`koinos-evm/rpc`) speaks Ethereum JSON-RPC: it wraps each
raw transaction in a Koinos transaction signed by one operator account, and
serves receipts, logs and blocks from a SQLite store that three tasks fill.

This directory models the parts in which order, failure and concurrency decide
whether the result is right. TLC checks small instances; TLAPS proves the
safety invariants of every component for every size, some of them under
hypotheses that the text below names and the known disagreements justify.

## Inventory

| Part | Source | State | Operations | Hard to get right |
|---|---|---|---|---|
| Relay and nonce gate | `rpc.rs` (`handle_send_raw_tx`, `submit_reserved_tx`, `reconcile_operator_nonce`), `state.rs`, `koinos.rs` | `operator_nonce` behind an async mutex, `inflight_submits`, `last_submit_ok`, `tx_meta` | reserve, submit with one retry, bookkeeping, periodic reconcile | the mutex is held across network calls; timeouts whose request still arrives; the reconciler's stale read; eight ways out of one task |
| Transaction metadata store | `state.rs` (`TxMetaStore`) | map and insertion queue | insert with eviction, patch, remove | stale queue pairs after removal; TTL and cap in one sweep |
| Durable store | `db.rs` | tables `txs`, `logs`, `blocks`, `meta` | `upsert_tx`, `set_receipt`, `index_tx`, `bump_poll_attempts`, `set_meta` | provisional and authoritative writers of the same row |
| History indexer | `indexer.rs` | cursor (durable), the cycle's locals | page the engine's account history, locate blocks, index, persist | forks, failures inside a page, restarts, duplicates |
| Receipt poller and handler | `rpc.rs` | receipts read and not written yet | settle rows provisionally | a write based on a read from before an await |
| Engine transaction path | `engine.rs`, `database.rs`, `koinos.rs`, `lib.rs`, `state.rs` of the engine | accounts, code, storage | check, execute, commit, emit events, exit or abort | failing syscalls, replays, destroyed contracts |
| The two transaction readers | `eth_tx.rs` (proxy), `tx.rs` (engine) | none | RLP, field checks, signing hash, recovery | one is lenient, the other strict; they must agree on whatever runs |
| Pending-nonce store | `state.rs` (`PendingNonceStore`), `rpc.rs` (`handle_get_tx_count`) | next nonce per sender, with TTL | raise after a relay, read for `eth_getTransactionCount` | the chain is read before the lock; a raised nonce whose transaction is rejected |
| WebSocket feeds | `ws.rs`, `query_logs` of `db.rs` | last head, last log height, subscriptions, broadcast channel | poll, push, subscribe | blocks not visible yet, late logs, full pages, lagging receivers |
| Rate limiter | `limit.rs`, its callers in `main.rs` and `ws.rs` | token buckets per address | charge, refill, sweep | a full bucket table; batches longer than a bucket |
| Read-only methods, codecs, builder | `rpc.rs`, `bloom.rs`, `eth_codec.rs`, `koinos_tx.rs`, `engine_proto.rs`, `proto.rs` | none | translation | byte formats |
| HTTP server, UI, scripts | `main.rs`, `ui/`, `scripts/` | none of interest | wiring, browser demos | - |

How they interact. A call of `eth_sendRawTransaction` reserves its hash in the
metadata store and spawns a task; the task submits to the node and hands a row
to the durable store. The chain runs the engine; the engine's events are the
only thing the proxy learns of an execution. The poller and the handler read
receipts of the proxy's own transactions; the indexer reads the history of the
engine, whoever relayed; all three write the same rows. The dedupe of the relay
reads what they wrote, and so does the log tail of the WebSocket feeds. A
successful submit raises the sender's pending nonce, which the next
`eth_getTransactionCount` answers and the engine's nonce check judges. Every
request over HTTP or WebSocket first pays at the rate limiter.

What makes each part correct:

- relay: no hole in the operator's nonce sequence, nothing relayed twice while
  its record exists, no reservation without a task, every task ends, a drifted
  counter heals;
- metadata store: bounded, every entry evictable, eviction in insertion order;
- indexing: nothing is skipped, positions are distinct, the execution outweighs
  rejected duplicates, everything final is reached, indexed rows stay indexed;
- engine: at most one execution per nonce unless a failed read has hidden it, all
  or nothing, no storage left behind, code present, receipts that tell the truth;
- readers: what the engine runs the proxy reads the same way, and each signed
  transaction runs in one encoding only;
- pending nonces: a wallet is told the nonce the engine will demand once what it
  has in flight has run, and a wrong answer does not last;
- feeds: heads in order and without unexplained gaps, logs once and only if they
  match, nothing the tail passed is left out without a known reason, the feeds
  catch up;
- rate limiter: never more than a bucket per client would admit, a bounded
  table, and no client locked out for ever.

## Modules

| Module | Content |
|---|---|
| `Relay` | the relay and the operator-nonce gate |
| `OnceLedger` | what the relay promises, abstractly; `Relay!ImplementsOnceLedger` is the refinement |
| `TxMetaStore` | the bounded metadata store |
| `Indexing` | durable store, indexer, poller and receipt handler, composed over one set of rows |
| `Engine` | the engine's transaction path |
| `TxCodec` | the two readers as operators, and the raw transactions they are given |
| `Wallet` | a wallet, the pending-nonce store, the dedupe, the engine's checks and the poller, composed; extends `TxCodec` |
| `WsFeeds` | pollers, broadcast channel and a connection, with the log index |
| `RateLimit` | the limiter and its callers |
| `TokenBuckets` | what rate limiting promises, abstractly; `RateLimit!ImplementsTokenBuckets` is the refinement |
| `RelayProofs`, `RelayRefinement`, `RateLimitProofs`, `TxMetaProofs`, `EngineProofs`, `IndexingProofs`, `WsFeedsProofs`, `WalletProofs` | the theorems |
| `MC*` | instances for TLC |

Definitions headed "Mutant" in the specifications are variants of the
definition that follows them, with one plausible mistake; no specification
refers to them. They show that each property can fail: with the variant in place
of the original, TLC finds the property violated.

### Relay

| TLA+ | Code |
|---|---|
| `gate`, `cache` | `AppState::operator_nonce` and its mutex. `gate` names the holder only where the guard lives across an await; sections without an await are one step that needs the gate free |
| `inflight`, `quiet` | `inflight_submits`; whether `last_submit_ok` is at least the quiet period ago |
| `meta` | `tx_meta`, per hash: absent, placeholder (no Koinos id), relayed |
| `pc`, `txOf`, `resynced` | the handler and its detached task: queued at the gate, fetching, sending, admitted, refetching, bookkeeping, dropping its guard |
| `fetched` | the reconciler's `chain_next`, read before it has the gate |
| `writes`, `db` | rows handed to the blocking pool; rows written |
| `chain`, `mempool`, `late` | the node (external) |

`Reserve` is the critical section of `handle_send_raw_tx`, the eviction of
`insert` included. `Abandon` is what all error returns of `submit_reserved_tx`
share. `SubmitTimesOut` leaves the request on the wire, from where `LateArrival`
may deliver it; `AnswerLost` is the opposite order. `Crash` loses all of the
proxy's memory and keeps store and node.

The node is assumed to admit the operator's transactions strictly in nonce
order, and to answer `get_account_nonce` from committed state. `excused` is a
history variable: transactions whose record was lost for a reason that the code
accepts (eviction, restart, a failed write of the row, a submit with unknown
outcome). `RelayedOnce` and `AdmittedIsKnown` are about all others.

### TxMetaStore

Map, queue and clock. All operations run under the write lock, so each is one
step; `Insert` contains the whole of `evict`: `SweepStop` is where the TTL loop
ends and `TrimStop` where the size loop ends, as positions in the queue. Two
inserts are assumed not to read the same `Instant`. A TTL of 0, which the code
accepts, keeps nothing: an insert sweeps its own entry away. `Relay` takes the
TTL for at least 1, so that a placeholder is there after its own insert.

### Indexing

| TLA+ | Code |
|---|---|
| `history`, `head`, `lib`, `fork` | the node (external): entries of the engine's account history, each with height and fork of its block |
| `rows`, `blocks`, `cursor` | tables `txs` (with the first index of the row's logs), `blocks`, and `indexer_cursor` in `meta`. The cursor counts the entries passed, so 0 is "no cursor" |
| `ixPc`, `ixLib`, `nextSeq`, `candidate`, `frozen`, `page`, `shortPage` | locals of `run_cycle` |
| `metaId`, `submitted` | Koinos ids known in memory; relays recorded |
| `polling`, `held` | the poller's snapshot; receipts between their read and `set_receipt` |

An entry's receipt is the one in the page and its block is looked up when the
entry is processed (`Located`), as `process_entry` does; in between the chain
may switch forks. The code takes the first of a transaction's containing blocks
(`indexer.rs` 297-302, `rpc.rs` 1276-1280); the node is assumed to list the
canonical one first, and the account history to drop the entries of abandoned
blocks. `HandlerFetch` is the lookup of `handle_get_tx_receipt` as one step: the
id in memory, the row and the node's answer. A failing query of the row falls
through to the node, as in the code (`rpc.rs` 1463-1470). `Outcomes` is the engine as the indexer sees it: a raw
transaction executes at most once, every further copy is rejected.

### Engine

One relayed transaction at a time. `Execute` makes the handler's checks and
takes any outcome revm may produce. revm reports every account it called, paid
or credited as touched, and commit writes each of them back as it was read
(`database.rs` 170-186): other senders, contracts, and the block's beneficiary.
So a read that fails does not only hide an account for the length of a
transaction, it writes an empty one over it. `misread`, a history variable that
goes into the receipt, names the accounts this happened to; the sender's own is
read by the handler and by revm, and both must have failed. Whether a failed
call leaves its targets touched is open in the model. `CommitWrite` is one syscall of
`DatabaseCommit::commit`, in any order of the changed accounts (a hash map);
`EmitLog` and `EmitResult` are the events; `Exit` and `Abort` are the two ends.
A failed read is answered as "not found" (`call_system`), a failed write or
event aborts (`call_system_must`). The chain is assumed to drop the writes and
events of an aborted call and to keep the transaction in its block. revm is
assumed to check the nonce once more on its own read, to use up the nonce in
every outcome, and (Cancun) to destroy only contracts created in the same
transaction. `DecodedStatus` is the proxy's reading of the events.

### TxCodec and Wallet

A raw transaction is its type, its outer list and its items; an item is what the
checks of either reader tell apart (list or string, shortest header or not,
leading zero, length, value). `Decode` is `decode_and_recover`, `Parse` is
`parse_raw_tx`, each with every check of the code in its own terms. Keccak is
injective (a hash is what it hashes) and a signature point knows its maker and
what it was made over, so a signature over anything else recovers to a stranger.
`Readings` is what both readers make of every transaction a wallet may sign and
of every change to its bytes, two changes for standard ones.

| TLA+ | Code |
|---|---|
| `entry`, `Raised`, `Evicted`, `Unexpired` | `PendingNonceStore`: `advance`, `evict`, `get_unexpired` |
| `ReadNonce`, `CountAnswer` | `handle_get_tx_count`: `read_account`, then the store under its lock |
| `OtherRead`, `OtherAnswer` | the same two steps of another client for the same account |
| `known`, `settled`, `Deduped` | the two lookups of the dedupe (`tx_meta`, `is_settled`) |
| `Send`, `Advance` | `handle_send_raw_tx`; the end of `submit_reserved_tx` |
| `Block` | the engine: `Run`, `Reject` on a failed check, `Refuse` where revm refuses a transaction that passed the checks (funds, gas: `engine.rs` 566-572) or the contract aborts (`koinos.rs` 194) |
| `Settle` | the poller |

`Relay` shows how a submit gets to the node; here it is one step, in the order of
the operator's nonces. `disturbed` is a history variable: accounts that are out of
step with the engine, because a transaction of theirs was refused by revm or
aborted, because somebody interfered (a foreign copy or form, a lost answer, a
mempool loss, a restart), or because an entry they needed was lost to the TTL, to
the cap or to another caller's answer. The proxy checks neither funds nor gas
before it relays, so a refusal may happen to any wallet, and its next answer is
then one too high. An account is in order again when its wallet asks while
nothing of it is on its way and the store is not ahead of the chain (`AtRest`).
`AnswerFits` and `NoQuietRejection` are about accounts in order; `WedgeHeals` is
about everybody. A wallet has one transaction per nonce, so one that was refused
is deduplicated when it is sent again. The floor `MIN_GAS_PRICE_WEI`, which
refuses before the relay what the engine would run, is not part of
`EngineWithinProxy`: it compares what the two readers make of the bytes.

### WsFeeds

`poller` is the place in `run_pollers`: the head loop from `From(last, height)`
up to the height that was read, then the log tail. `FetchNull` is a block that
the REST query does not find, `FetchFails` an error that ends the loop.
`Broadcast` and `Lag` are the channel, which retains 256 events;
`Pushed` is `push_event`. `Selected` is the WHERE clause of `query_logs`,
`LogMatches` the filter on pushed events. The head never goes down in the model,
which matters to `FeedsCatchUp` only. `passed` and `missed` are history
variables for the gaps the code accepts: heights that were not visible or too
far behind, logs indexed behind the tail or cut off at the end of a full page.

### RateLimit

`Charge` is `allow`: sweep if the table is full and the address new, refusal if
it is still full, refill, payment. `Handle`, `HandleLimited` and `HandleTooLarge`
are `handle_rpc` and the WebSocket reader, which has no batch cap. The
refinement mapping gives an absent client a full bucket and a present one its
tokens plus what its age has earned.

## Runs

| Run | Checks | Bounds |
|---|---|---|
| `relay_safety` | `TypeOK`, `NoNonceGap`, `InflightExact`, `NoOrphanPlaceholder`, `RelayedOnce`, `AdmittedIsKnown`, `NoStepDownUnderSubmit`, `ImplementsOnceLedger` | 2 calls, 2 transactions, 3 disturbances (restart, mempool loss, foreign operator transaction); timeouts, lost answers and evictions unbounded |
| `relay_progress` | `EverySubmitEnds`, `DriftHeals` | 2 calls, 2 transactions, 1 disturbance |
| `tx_meta` | `TypeOK`, `EveryEntryQueued`, `WithinCap`, `QueueIsRecent`, `EvictsOldestFirst` | 4 hashes, room for 2, TTL 3, clock up to 9 |
| `indexing_progress` | `ExecutionWins`, `CursorCatchesUp`, `ExecutionIsServed` | 3 entries (a transaction, its copy, an unrelated one) in 3 final blocks, pages of 2, 1 fault |
| `indexing_races` | `TypeOK`, `UniquePositions` | 2 transactions in one block, indexer, poller and a handler, 1 fault |
| `indexing_forks` | `NoEntrySkipped`, `HeightIsReal` | 2 transactions, 2 heights, 1 fork switch, 1 fault |
| `engine_path` | `TypeOK`, `RunsAtMostOnce`, `NoOrphanStorage`, `CodeIsThere`, `EndedReceiptIsTrue`, `AllOrNothing` | 2 senders and the beneficiary, 1 contract, 4 raw transactions (two of one sender, one of the other, one that does not parse), 2 accounts touched besides the sender, 3 relays, 1 failed read, 1 failed write |
| `rate_limit` | `WithinMaxBuckets`, `ImplementsTokenBuckets`, `RetryIsServed` | 2 clients, a table of 1, buckets of 3, batches of 0, 1, 3 and 4 |
| `wallet` | `AnswerFits`, `NoQuietRejection`, `EngineWithinProxy`, `OneEncoding`, `WedgeHeals` | 1 wallet and a stranger, nonces 0 to 2, a store of 1 entry, 1 disturbance |
| `ws_feeds` | `HeadsInOrder`, `LogsOnce`, `TailLeavesNone`, `FeedsCatchUp` | 4 heights, catch-up of 1, pages and channel of 1, 2 logs, 1 restart or moved log |

Two more runs, `indexing_same_block` and `engine_abort`, end in a counterexample;
see below.

## Known disagreements

Each of these is an execution of the code that differs from what a comment of
the source says. The first two are runs of the project; the next four can be
reproduced with the configurations named.

- `indexing_same_block` (`ExecutionWins`, `db.rs` 337): a rejected copy stands
  before the execution in one block; `index_tx` takes the execution for already
  indexed because the height is the same, and status 0 stays.
- `engine_abort` (`ReceiptIsTrue`, `rpc.rs` 1321): an aborted call leaves no
  events, and `decode_receipt_events` starts from success.
- `tlc -config MCIndexingClobber.cfg MCIndexing` (`AuthoritativeStays`,
  `rpc.rs` 1512): the poller reads a receipt, the indexer writes the row, then
  `set_receipt` resets the position to NULL. The cursor has passed the entry, so
  the position does not come back. When the receipt is that of the proxy's own
  rejected copy of a transaction somebody else relayed first, the same write
  replaces the status of the execution.
- `tlc -config MCIndexingSkip.cfg MCIndexing` (`NoEntrySkipped`, `indexer.rs`
  124): the cursor passes an entry that relays nothing without looking at its
  block. A fork switch removes that entry, a relayed transaction takes its
  sequence number and is never read.
- `tlc -config MCIndexingStale.cfg MCIndexing` (`ExecutionWins`, `indexer.rs` 241):
  a page is read, the chain switches forks, and the entry's block is looked up
  afterwards. A transaction that was rejected on the old fork and runs on the new
  one is indexed with the old status at the new height; every later cycle finds
  the height indexed (`db.rs` 337) and the status stays.
- `tlc -config MCEngineReplay.cfg MCEngine` (`SucceedsOnce`, `database.rs` 170-186;
  `db.rs` 341 says that a raw transaction "can only execute successfully once"):
  a transaction to another account touches it, the read of that account fails
  (`koinos.rs` 138), and commit writes it back with nonce 0. The account's first
  transaction, relayed once more, then runs again; no further fault is needed.

Weaker points, without a configuration of their own:

- `limit.rs` 46-48 says that dropping an idle bucket loses nothing. That is so
  if a bucket refills within `IDLE_SWEEP_SECS` (`IdleIsFull`), which the defaults
  (50 per second, burst 500) satisfy and a burst above 60 times the rate does not.
- `ws.rs` 282 says that a block that is not visible is tried again at the next
  tick. That is so only if no later block of the same tick was visible: then
  `last_head` is past it. `HeadsInOrder` counts such heights in `passed`.
- `main.rs` caps a batch so that none is admitted that no bucket can pay for;
  a batch over WebSocket has no cap, and one above the burst is refused for ever
  (`RetryIsServed` excepts it).
- `handle_get_tx_count` reads the chain before it locks the store. Another
  client's answer may remove the entry in between, and the caller is then told a
  nonce that is in use (`OtherAnswer` marks the account as disturbed).
- After a fork switch that puts a transaction back at the same height, the row
  keeps the abandoned block's hash (`HeightIsReal` is about the height only).
- After a failed lookup the entry that is retried takes a later
  `transactionIndex` than its successors (positions are distinct, their order is
  that of processing).
- Two rejected copies in two reversible blocks replace each other in every cycle
  and raise `tx_count` each time.

## Bounds and fairness

### Why these bounds

*Relay.* Two calls are enough for each race between two tasks, and between a
task and the reconciler; one transaction for both calls is the duplicate, two
are the contention. Three disturbances let a restart, a loss and a foreign
transaction happen in one run. `MaxFaults` is the only bound besides the sets.
The theorems remove both.

*TxMetaStore.* Four hashes with room for two give evictions by size while stale
pairs of removed and re-inserted hashes are queued; a clock of three times the
TTL lets entries expire behind such pairs. The theorems remove all four.

*Indexing.* Pages of two over three entries make a full page followed by a short
one; two entries per block make positions and log indexes matter; two heights
make "other height" and "same height" different. `MaxPasses` limits the cycles
between two moves of the LIB, after which another cycle would meet the same
entries once more; `MaxErrors` counts failed calls and restarts.

*Engine.* Two senders, so that one's transaction can touch the other's account,
one contract, and the beneficiary, which every execution touches (the zero
address, whose key nobody has). Two touched accounts besides the sender are then
the beneficiary and one more. Three relays: an execution, a
transaction of the other account that may hide it, and the copy. One failed
read is enough for that, and with two the handler and revm may misread the
sender's nonce both; `RunsAtMostOnce` says of each number of faults which
account a failed read must have hidden. `engine_path` and `engine_abort` allow the system to stop,
because the number of relays is bounded.

*Wallet.* Three nonces let two transactions be in flight while a third is asked
for; a store of one entry makes every other sender an eviction; a TTL of two
units lets an entry be refreshed once before it expires. One change to the bytes
reaches every check of either reader, two reach the pairs of checks on standard
transactions.

*WsFeeds.* With a catch-up of one, four heights make the head feed skip; pages
of one cut every height with two logs, and a channel of one overruns at once.
Requests may fail any number of times.

*RateLimit.* A table of one is full with one client and locks out the other; the
batches are the empty one, one request, a whole bucket, and one more than that.
Ages stop at `AgeCap`, from where nothing changes.

### Fairness

Relay: weak fairness of each submit task (it is detached from the connection and
each of its calls has a timeout of 30 s), of the reconciler and of the end of
the quiet period (timers), and of block production. A task's fetch or submit may
fail each time. The reconciler's read may fail too (`rpc.rs` 753-756), which
changes nothing and is a stuttering step; fairness of `ReconcileFetch` assumes
that it does not fail for ever, and `DriftHeals` needs that. `EverySubmitEnds` also needs
that a task waiting for the gate gets it; the mutex is first come first served
and each call takes it at most twice.

Indexing: weak fairness of the indexer as a whole (a timer, and calls that
return or time out) and of the LIB. The poller and the handlers get none.

Wallet: weak fairness of blocks, of time and of the end of each submit task.
Nothing is assumed of wallets, so `WedgeHeals` also holds for one that stops
in the middle.

WsFeeds: weak fairness of the poller's task, which is a timer loop, and strong
fairness of its three successful queries: each is made again at every tick, and
`FeedsCatchUp` says nothing if the node or the store fails for ever.

RateLimit: time passes, and a client that wants something keeps trying.

## Proofs

Eight modules hold theorems; each states what is proved for every value of the
constants that satisfies the named assumption of the specification.

### Relay: RelayProofs, RelayRefinement

For every set of transactions, every finite set of calls and every number of
disturbances (`RelayAssumption`):

| Theorem | Property |
|---|---|
| `TypeCorrect` | `TypeOK` |
| `CounterLeavesNoGap` | `NoNonceGap` |
| `InflightIsExact` | `InflightExact` |
| `PlaceholdersAreOwned` | `NoOrphanPlaceholder` |
| `RelayedAtMostOnce` | `RelayedOnce` |
| `AdmittedStaysKnown` | `AdmittedIsKnown` |
| `StepDownIsQuiet` | `NoStepDownUnderSubmit` |
| `RelayKeepsPromise` | `ImplementsOnceLedger` |

None of these is inductive alone. The invariant `IInv` adds:

- `GateInv`: exactly the task inside its round trip holds the gate, and once it
  has read a counter there is one. Only so can `Advance` add one to the counter
  that was submitted;
- `NonceInv`: counter, reconciler's read and chain are bounded by the highest
  nonce ever admitted; between admission and `Advance` the counter is one lower.
  This is where the stale reconcile is harmless: what it read was committed;
- `PlaceholderInv`: a placeholder's task has not reached its end;
- `OnceInv`: a transaction that is not excused has at most one active task, its
  entry in `tx_meta` is there as long as the task or the admitted transaction
  is, and a task that is still waiting has not been admitted;
- `DurableInv`: an entry with a Koinos id has its row or the job that writes it.

`CoreInv`, `InflightExact`, then `OnceInv`, `RelayedOnce` and `DurableInv` are
shown to be preserved in this order, each by one step per action, using the
ones before. Cardinalities are handled by one lemma on how `InFlight` changes
when one program counter moves. `RelayRefinement` maps each action to a step of
`OnceLedger` or a stutter; the invariant supplies that a task whose submit is
still to come has its transaction in the dedupe and not on the ledger.

### TxMetaStore: TxMetaProofs

For every finite set of hashes, capacity, TTL (0 too) and length of time
(`StoreAssumption`): `StoreTypes`, `EntriesAreQueued`, `StoreWithinCap`,
`QueueStaysRecent` and the action property `EvictionIsOldestFirst`.

`SweepStop` and `TrimStop` choose a position, so the first thing to show is that
there is one: the least position at which the loop's condition fails
(`LeastNatural`). The inductive invariant adds that the queue is sorted by
Instants. Then what the sweep leaves is recent, the pair of an entry is never
before a pair that was popped unless the entry went with it, and with the pair
of the newest entry alone the map is within any capacity, so only a TTL of 0
pops it.

### RateLimit: RateLimitProofs

For every finite set of clients, rate, burst and table size under
`RateLimitAssumption`: `RateLimitTypes`, `TableIsBounded`; and, with
`IdleIsFull`, `RateLimitKeepsPromise`: the limiter implements `TokenBuckets`. The
step that matters is the sweep, where a bucket that is dropped has to stand for
a full one.

### Engine: EngineProofs

For any transactions, senders, contracts, code hashes and bounds
(`EngineAssumption`): `EngineTypes`, `CommitIsWhole` (`AllOrNothing`),
`CodeStaysThere` (`CodeIsThere`), `EndedReceiptsAreTrue` (`EndedReceiptIsTrue`),
`NoStorageWithoutAccount` (`NoOrphanStorage`) and `EachNonceRunsOnce`
(`RunsAtMostOnce`), this one with any number of failed reads.

All rest on an invariant about the session of the running transaction
(`RunInv`): changes belong to distinct addresses, so no write of a commit undoes
another (`NoClash`) and what was written stays written (`Done`); what differs
from the store comes from a change (`Origin`). At a normal exit nothing is left
to write, so the store becomes exactly the old one with every change in it
(`ExitKeeps`). Storage needs one more fact: an account that is empty or absent
has a slot of zero, and only such an account is created or destroyed
(`CleanStore`, `CleanChanges`). For the nonces: what ran is below its sender's
nonce, unless an execution since has misread that account (`UsedUp`), and what
runs is at it, unless the running one misread it (`SenderInv`): of the handler's
read and revm's one was good, or the sender is among the misread. Every other
account is written back with the nonce it was read with, which is its own or,
again, misread.

### Indexing: IndexingProofs

For any Koinos and EVM transactions, page size, poll cap, set of handlers and
bounds (`IndexingAssumption`; `NoneAssumption` says that the value for "nothing"
is none of the values). Some theorems have further hypotheses, because without
them the code does something else (see the known disagreements):

- `ForksSafe`: no fork switches, or no entry of the history that relays nothing.
  Without it the cursor passes such an entry unseen and skips its successor;
- `RelayedOnce`: each EVM transaction is in one Koinos transaction;
- `IndexerAlone`: no poller (its cap is 0) and no receipt handler. Without it
  `set_receipt` may write an old receipt over an indexed row;
- `MaxReorgs = 0`: no fork switches. A provisional receipt is not taken back
  when its block is abandoned;
- `NoTwins`: no block holds two entries of one EVM transaction.
  `indexing_same_block` is what happens otherwise.

| Theorem | Property | Under |
|---|---|---|
| `IndexingTypes` | `TypeOK` | |
| `PositionsAreUnique` | `UniquePositions` | |
| `NothingSkipped` | `NoEntrySkipped` | `ForksSafe` |
| `RowsAreTruthful` | a settled row reports an outcome its transaction has on the chain | `MaxReorgs = 0` |
| `OnceRelayedWins` | `ExecutionWins` | `MaxReorgs = 0`, `RelayedOnce` |
| `OnceRelayedHeight` | `HeightIsReal` | `MaxReorgs = 0`, `RelayedOnce` |
| `EachIsCountedOnce` | `CountedOnce`: the counters of a block move only for a transaction without a position | `MaxReorgs = 0`, `RelayedOnce` |
| `HeightIsRealUnderForks` | `HeightIsReal` | `ForksSafe`, `RelayedOnce`, `IndexerAlone` |
| `ExecutionWinsOverDuplicates` | `ExecutionWins` | `MaxReorgs = 0`, `IndexerAlone`, always `NoTwins` |

The run `indexing_forks` is an instance of `ForksSafe`, `RelayedOnce` and
`IndexerAlone`.

`UniquePositions` needs `BelowCounters`: an indexed row is below the counters of
its block, so the next one comes after it. `NoEntrySkipped` needs to know what a
page that was read before a fork switch still says: a Koinos transaction is at
one place of the history (`UniqueKids`), what lies at or below the cycle's LIB is
at the same place in the page and in the history (`PageInv`), and everything
behind the candidate and the cursor is that deep (`CycleInv`, `CursorInv`). Then
`PassedSettled` (every EVM entry behind the candidate has its row) is inductive:
the candidate moves only over an entry that was just indexed, and from there on
no fork switch reaches it. `RowsAreTruthful` adds that every receipt in a
settler's hands is one the chain has given (`Truthful`), and that ids in memory
and rows belong to the transaction (`IdsMatch`). `PassedHeight` and `PassedWins`
are the same argument for the height and the status of a passed execution.

### WsFeeds: WsFeedsProofs

For every number of heights, catch-up, page size, channel size, set of filters
and finite set of logs (`FeedAssumption`): `FeedTypes` (`TypeOK`),
`HeadsComeInOrder` (`HeadsInOrder`), `TailLeavesNothing` (`TailLeavesNone`) and
`LogsComeOnce` (`LogsOnce`).

For the heads the invariant follows a height from the poller to the subscriber:
in the loop everything between the last head and the next fetch was passed
(`PollerInv`); from any head in the channel onwards each height up to the last
head is in the channel or passed (`ChannelCovers`); from any head that was pushed
onwards it is pushed, in the channel or passed, unless the receiver was overrun
(`PushedCovers`). So popping the channel's first event leaves no gap (`GapInv`).
For the logs: the tail is past every log it sent, as long as the log is not moved
to another block (`BehindTail`), so no later page has it again; what is in the
channel or pushed was sent (`FromTail`), and in one event only (`OneEvent`).

### Wallet and TxCodec: WalletProofs

For any set of accounts, chains, nonces and widths, any capacity, any TTL but 0 and
any number of disturbances (`WalletAssumption`, `CodecAssumption`,
`NothingAssumption`: the value for "no entry" is not an entry). In
`CodecAssumption` chain ids are not 0, which stands for a transaction from before
EIP-155, and the widths that content is stretched to are beyond the 8 bytes of
the narrowest number:

| Theorem | Property |
|---|---|
| `AnswersFit` | `AnswerFits` |
| `NothingRejectedQuietly` | `NoQuietRejection` |
| `EngineReadsWithinProxy` | `EngineWithinProxy` |
| `OnlyOwnEncoding` | `OneEncoding` |

The first two rest on `Steady(a, n)`, which holds for some `n` and every account
in order: the account's transactions in the pool carry the nonces from
the account's own up to `n - 1`, in order and each once (`InFlight`); the store
has `n`, or the chain has caught up with it and no call holds an older nonce
(`Stored`); a wallet that holds an answer holds `n`, and only the transaction it
waits for has still to raise the entry (`Asked`). A block takes the first of the
account's transactions, which therefore has the nonce the engine demands
(`HeadRuns`), which is `NoQuietRejection`. The number of transactions in the pool
is `n` minus the account's nonce (`InFlightCount`), which is `AnswerFits`. A step
either keeps an account in order, and then `Steady`, or puts it among the
disturbed, where nothing is claimed (`DisturbedStep`). The only step that takes
an account from there is a wallet's `ReadNonce` at rest, and with nothing in the
pool, nothing to be raised and no entry ahead of the chain `Steady` holds with the
nonce that was read, however the account got there (`RestRead`).

The other two are about the readers. `ReadersAgree` goes through the checks: what
`Parse` accepts `Decode` reads in the same way, for every raw transaction whose
number fields hold numbers. For `OneEncoding` every change the bytes may undergo
is shown to leave *kin* of the signed transaction (`Kin`): the signer's point or
one that is no signature, at least 32 bytes for each half, a parity as long as it
was made or one that has leading zeros or is too long (`ChangedRaw`, one step per
kind of change). Of these the engine's checks leave one: the recovered key is the
signer's only over the hash that was signed, so the covered items are those of
the body, then the chain and the parity determine v, and lengths and flags of the
last three items are fixed by `check_canonical` and the low-s rule (`LegacyForm`,
`DynamicForm`).

### Only model-checked

Liveness (`EverySubmitEnds`, `DriftHeals`, `CursorCatchesUp`,
`ExecutionIsServed`, `WedgeHeals`, `FeedsCatchUp`, `RetryIsServed`), because the
prover has no rule for fairness. Every invariant that a passing run checks has its
theorem; those about the rows of `Indexing` have the hypotheses above. Without
them `ExecutionWins` and `NoEntrySkipped` fail in the model as in the code, by the
executions under "Known disagreements". The run `indexing_progress` is an instance
of `ExecutionWinsOverDuplicates`: with one entry per block `NoTwins` always holds.

## Not modelled

Byte formats below the level of RLP items, protobuf, base64 and the Koinos
transaction encoding; hash functions and curves, which are symbolic; precompiles;
read-only JSON-RPC methods other than the nonce query, and queries of blocks and
receipts; routing, CORS and configuration; the resolution of client addresses
from headers; the development-only engine entry points `execute` and
`deploy_code` and the Phase 0 test entry points; the browser UI and scripts.
They keep no state that the modelled parts depend on.

## Plan

1. *Done:* `Relay`, `TxMetaStore`, `Indexing`, `Engine`; the relay's proofs.
2. *Done:* the promises `OnceLedger` and `TokenBuckets` with their refinements,
   `RateLimit`, `TxCodec` with `Wallet`, `WsFeeds`; the proofs of `TxMetaStore`,
   `RateLimit` and `Engine`.
3. *Done:* the proofs of `Indexing`, `WsFeeds`, `Wallet` and `TxCodec`.
4. Proofs: the refinement of the store by an abstract list of outcomes, once
   `index_tx` tells placements apart by more than the height.
5. Models: the engine's read-only entry points, which share `Basic` with the
   write path.
