-------------------------------- MODULE Wallet --------------------------------
(***************************************************************************)
(* What a wallet sees of the proxy and the engine together: it asks for    *)
(* its pending nonce (handle_get_tx_count), signs, sends                   *)
(* (handle_send_raw_tx) and waits for the answer.  The proxy decodes the   *)
(* transaction with its own reader and keeps the sender's next nonce in    *)
(* PendingNonceStore; the engine parses it with another reader and demands *)
(* the account's exact nonce.  TxCodec has both readers.                   *)
(*                                                                         *)
(* The way of a transaction to the node is Relay; here an admitted         *)
(* transaction is in the node's pool, in the operator's nonce order, and   *)
(* blocks take it from there.  Instants are ages that stop at the TTL.     *)
(***************************************************************************)
EXTENDS TxCodec

CONSTANTS
  Cap,        \* PENDING_NONCE_MAX
  Ttl,        \* PENDING_NONCE_TTL_SECS, in units of time
  MaxFaults,  \* bound: disturbances, see Disturb
  Nothing     \* no entry, no call

ASSUME WalletAssumption == Cap \in Nat \ {0} /\ Ttl \in Nat \ {0} /\ MaxFaults \in Nat

Account == Signer \cup {Stranger}

\* What the engine accepts at the right moment.
Valid(r) == r.engine # Bad /\ r.engine.chain = ChainId
Acceptable == {r \in Readings : Valid(r)}

\* A transaction the proxy relays: whom the proxy takes it from, with which
\* nonce, whether the engine accepts it at the right moment, and whether it is
\* as its signer made it.
Message(r) == [from |-> r.proxy.from, nonce |-> r.proxy.nonce, valid |-> Valid(r), own |-> r.own]
Msg == {Message(r) : r \in {q \in Readings : q.proxy # Bad}}

\* What a wallet sends for an account and a nonce.
Own(a, n) == [from |-> a, nonce |-> n, valid |-> TRUE, own |-> TRUE]

VARIABLES
  nonce,      \* nonces of the accounts, in the engine's object space
  pool,       \* admitted transactions that no block has taken yet
  known,      \* tx_meta: hashes the proxy remembers
  waiting,    \* admitted, the proxy has not raised the pending nonce yet
  ran,        \* transactions that ran
  rejected,   \* transactions that were in a block and did not run
  settled,    \* transactions with a durable status
  entry,      \* PendingNonceStore
  call,       \* what each signer's wallet is doing
  seen,       \* the chain's nonce in another client's count call, per account
  disturbed,  \* history: accounts out of order, until their wallet starts from rest
  faults      \* history: number of disturbances

vars == <<nonce, pool, known, waiting, ran, rejected, settled, entry, call, seen, disturbed, faults>>
chain == <<nonce, pool, ran, rejected>>
books == <<known, settled>>

Entry == [next : Nat, age : 0..Ttl]
ASSUME NothingAssumption == Nothing \notin Entry
Idle == [pc |-> "idle", val |-> 0]
Call == [pc : {"idle", "read", "have", "sent"}, val : Nat]

TypeOK ==
  /\ nonce \in [Account -> Nat] /\ pool \in Seq(Msg)
  /\ known \subseteq Msg /\ waiting \subseteq Msg /\ ran \subseteq Msg
  /\ rejected \subseteq Msg /\ settled \subseteq Msg
  /\ entry \in [Account -> Entry \cup {Nothing}]
  /\ call \in [Signer -> Call] /\ seen \in [Signer -> Nat \cup {Nothing}]
  /\ disturbed \subseteq Account /\ faults \in 0..MaxFaults

Init ==
  /\ nonce = [a \in Account |-> 0] /\ pool = <<>>
  /\ known = {} /\ waiting = {} /\ ran = {} /\ rejected = {} /\ settled = {}
  /\ entry = [a \in Account |-> Nothing]
  /\ call = [a \in Signer |-> Idle] /\ seen = [a \in Signer |-> Nothing]
  /\ disturbed = {} /\ faults = 0

InPool(a) == {i \in DOMAIN pool : pool[i].from = a}

-----------------------------------------------------------------------------
(* PendingNonceStore *)

\* Mutant: entries never expire.
UnexpiredForEver(a) == entry[a] # Nothing

\* get_unexpired finds something.
Unexpired(a) == entry[a] # Nothing /\ entry[a].age < Ttl

\* evict: expired entries go, then, if that makes no room, one of the oldest.
Size(table) == Cardinality({a \in Account : table[a] # Nothing})
Purged == [a \in Account |-> IF Unexpired(a) THEN entry[a] ELSE Nothing]
Oldest(table) ==
  {a \in Account : /\ table[a] # Nothing
                   /\ \A b \in Account : table[b] # Nothing => table[b].age <= table[a].age}
Evicted ==
  IF Size(entry) < Cap THEN {entry}
  ELSE IF Size(Purged) < Cap THEN {Purged}
  ELSE {[Purged EXCEPT ![a] = Nothing] : a \in Oldest(Purged)}

\* Mutant: an entry that is there stays as it is.
RaisedOnce(a, next) ==
  IF entry[a] # Nothing THEN {[entry EXCEPT ![a].age = 0]}
  ELSE {[table EXCEPT ![a] = [next |-> next, age |-> 0]] : table \in Evicted}

\* advance: the tables it may leave.  An entry is refreshed either way, also
\* one that has expired.
Raised(a, next) ==
  IF entry[a] # Nothing
  THEN {[entry EXCEPT ![a] = [next |-> IF next > @.next THEN next ELSE @.next, age |-> 0]]}
  ELSE {[table EXCEPT ![a] = [next |-> next, age |-> 0]] : table \in Evicted}

\* An entry that is still needed: the chain, or the chain's nonce in a call
\* that has not reached the store yet, is behind it.
Needed(a) ==
  /\ entry[a] # Nothing
  /\ \/ nonce[a] < entry[a].next
     \/ a \in Signer /\ call[a].pc = "read" /\ call[a].val < entry[a].next

\* Accounts that lose an entry they need when the store becomes table.
Losers(table) == {a \in Account : Needed(a) /\ (table[a] = Nothing \/ table[a].age = Ttl)}

-----------------------------------------------------------------------------
(* handle_get_tx_count with the tag "pending" *)

\* Mutant: the pending nonce is ignored.
AnswerOnChain(a, onChain) == onChain

\* The answer, given the chain's nonce that was read before the lock.
Answer(a, onChain) ==
  IF Unexpired(a) /\ entry[a].next > onChain THEN entry[a].next ELSE onChain

\* The store after the answer: an entry the chain has caught up with goes.
Answered(a, onChain) ==
  IF Unexpired(a) /\ entry[a].next <= onChain THEN [entry EXCEPT ![a] = Nothing] ELSE entry

\* Nothing of the account is on its way, and the store is not ahead of the chain.
AtRest(a) ==
  /\ InPool(a) = {} /\ \A m \in waiting : m.from # a
  /\ entry[a] # Nothing => entry[a].next <= nonce[a]

\* read_account.  A wallet that asks at rest is in order, whatever went before.
ReadNonce(a) ==
  /\ call[a] = Idle
  /\ call' = [call EXCEPT ![a] = [pc |-> "read", val |-> nonce[a]]]
  /\ disturbed' = IF AtRest(a) THEN disturbed \ {a} ELSE disturbed
  /\ UNCHANGED <<chain, books, waiting, entry, seen, faults>>

CountAnswer(a) ==
  /\ call[a].pc = "read"
  /\ call' = [call EXCEPT ![a] = [pc |-> "have", val |-> Answer(a, call[a].val)]]
  /\ entry' = Answered(a, call[a].val)
  /\ UNCHANGED <<chain, books, waiting, seen, disturbed, faults>>

\* Another client asks for the same account at the same time.  Its answer may
\* remove an entry that the wallet's own call, with an older nonce in hand,
\* still needs.
OtherRead(a) ==
  /\ seen[a] = Nothing
  /\ seen' = [seen EXCEPT ![a] = nonce[a]]
  /\ UNCHANGED <<chain, books, waiting, entry, call, disturbed, faults>>

OtherAnswer(a) ==
  /\ seen[a] # Nothing
  /\ entry' = Answered(a, seen[a])
  /\ seen' = [seen EXCEPT ![a] = Nothing]
  /\ disturbed' = disturbed \cup Losers(entry')
  /\ UNCHANGED <<chain, books, waiting, call, faults>>

-----------------------------------------------------------------------------
(* handle_send_raw_tx, submit_reserved_tx *)

\* The dedupe answers the hash and relays nothing.
Deduped(m) == m \in known \cup settled

Admit(m) ==
  /\ pool' = Append(pool, m)
  /\ known' = known \cup {m} /\ waiting' = waiting \cup {m}
  /\ UNCHANGED <<nonce, ran, rejected, settled, entry>>

Send(a) ==
  LET m == Own(a, call[a].val)
  IN /\ call[a].pc = "have" /\ call[a].val \in Nonces
     /\ IF Deduped(m)
        THEN /\ call' = [call EXCEPT ![a] = Idle]
             /\ UNCHANGED <<chain, books, waiting, entry>>
        ELSE /\ Admit(m)
             /\ call' = [call EXCEPT ![a] = [pc |-> "sent", val |-> call[a].val]]
     /\ UNCHANGED <<seen, disturbed, faults>>

\* The submit fails and the node admits nothing, or the user gives up.
SendFails(a) ==
  /\ call[a].pc = "have"
  /\ call' = [call EXCEPT ![a] = Idle]
  /\ UNCHANGED <<chain, books, waiting, entry, seen, disturbed, faults>>

\* The call that a transaction of the account belongs to gets its answer.
Return(m) ==
  call' = [a \in Signer |-> IF call[a].pc = "sent" /\ m = Own(a, call[a].val)
                            THEN Idle ELSE call[a]]

\* The end of submit_reserved_tx.
Advance(m) ==
  /\ m \in waiting
  /\ waiting' = waiting \ {m}
  /\ entry' \in Raised(m.from, m.nonce + 1)
  /\ disturbed' = disturbed \cup Losers(entry')
  /\ Return(m)
  /\ UNCHANGED <<chain, books, seen, faults>>

-----------------------------------------------------------------------------
(* The node, the engine and the receipt poller *)

\* The checks of handle_submit_raw_tx.
Runs(m) == m.valid /\ m.nonce = nonce[m.from]

Run(m) ==
  /\ Runs(m)
  /\ nonce' = [nonce EXCEPT ![m.from] = @ + 1]
  /\ ran' = ran \cup {m}
  /\ UNCHANGED <<rejected, disturbed>>

\* reject_submit on a failed check.
Reject(m) ==
  /\ ~Runs(m)
  /\ rejected' = rejected \cup {m}
  /\ UNCHANGED <<nonce, ran, disturbed>>

\* It passes the checks, and revm refuses it (funds, intrinsic gas, the block's
\* gas limit) or a failed write or event aborts the contract.  Its nonce is not
\* used, and neither the proxy nor the wallet has foreseen that.
Refuse(m) ==
  /\ Runs(m)
  /\ rejected' = rejected \cup {m}
  /\ disturbed' = disturbed \cup {m.from}
  /\ UNCHANGED <<nonce, ran>>

Block ==
  /\ pool # <<>>
  /\ Run(Head(pool)) \/ Reject(Head(pool)) \/ Refuse(Head(pool))
  /\ pool' = Tail(pool)
  /\ UNCHANGED <<books, waiting, entry, call, seen, faults>>

\* The status of a transaction, 1 or 0, becomes durable.
Settle(m) ==
  /\ m \in (ran \cup rejected) \ settled
  /\ settled' = settled \cup {m}
  /\ UNCHANGED <<chain, known, waiting, entry, call, seen, disturbed, faults>>

Tick ==
  /\ \E a \in Account : entry[a] # Nothing /\ entry[a].age < Ttl
  /\ entry' = [a \in Account |->
                 IF entry[a] = Nothing \/ entry[a].age = Ttl THEN entry[a]
                 ELSE [entry[a] EXCEPT !.age = @ + 1]]
  /\ disturbed' = disturbed \cup Losers(entry')
  /\ UNCHANGED <<chain, books, waiting, call, seen, faults>>

-----------------------------------------------------------------------------
(* Disturbances *)

Disturb(accounts) ==
  /\ faults < MaxFaults /\ faults' = faults + 1
  /\ disturbed' = disturbed \cup accounts

\* Somebody else sends a transaction of the account: a copy, another form the
\* engine refuses, one for another chain, or one with a nonce of the future.
Post(m) ==
  /\ ~Deduped(m)
  /\ Disturb({m.from})
  /\ Admit(m)
  /\ UNCHANGED <<call, seen>>

\* The node admits a transaction and the answer is lost: the proxy drops its
\* placeholder and reports an error.
AnswerLost(m) ==
  /\ m \in waiting
  /\ Disturb({m.from})
  /\ waiting' = waiting \ {m} /\ known' = known \ {m}
  /\ Return(m)
  /\ UNCHANGED <<chain, settled, entry, seen>>

\* TxMetaStore forgets a hash.
Forget(m) ==
  /\ m \in known \ waiting
  /\ Disturb({})
  /\ known' = known \ {m}
  /\ UNCHANGED <<chain, settled, waiting, entry, call, seen>>

\* The node loses its last transactions.
DropMempool(n) ==
  /\ n \in 0..(Len(pool) - 1)
  /\ Disturb({pool[i].from : i \in (n + 1)..Len(pool)})
  /\ pool' = SubSeq(pool, 1, n)
  /\ UNCHANGED <<nonce, ran, rejected, books, waiting, entry, call, seen>>

\* The proxy starts anew; calls break off.
Restart ==
  /\ Disturb({a \in Account : Needed(a) \/ \E m \in waiting : m.from = a})
  /\ known' = {} /\ waiting' = {}
  /\ entry' = [a \in Account |-> Nothing]
  /\ call' = [a \in Signer |-> Idle] /\ seen' = [a \in Signer |-> Nothing]
  /\ UNCHANGED <<chain, settled>>

Next ==
  \/ \E a \in Signer : \/ ReadNonce(a) \/ CountAnswer(a) \/ Send(a) \/ SendFails(a)
                       \/ OtherRead(a) \/ OtherAnswer(a)
  \/ \E m \in Msg : Advance(m) \/ Settle(m) \/ Post(m) \/ AnswerLost(m) \/ Forget(m)
  \/ \E n \in 0..Len(pool) : DropMempool(n)
  \/ Block \/ Tick \/ Restart

Spec == Init /\ [][Next]_vars

\* Blocks are produced, time passes and the proxy's tasks run.
Fairness == WF_vars(Block) /\ WF_vars(Tick) /\ \A m \in Msg : WF_vars(Advance(m))

FairSpec == Spec /\ Fairness

-----------------------------------------------------------------------------
(* Properties *)

\* The answer a wallet holds is the nonce its next transaction will need once
\* everything it has in flight has run: handle_get_tx_count, the raise at the
\* end of a submit and the removal of caught-up entries never repeat or skip a
\* nonce, although the chain is read before the store is locked and blocks,
\* time and other callers move in between.  An account is disturbed when revm
\* refuses one of its transactions, when an entry it needs is lost or when one
\* of the disturbances meets it, and in order again once its wallet asks at rest.
AnswerFits ==
  \A a \in Signer \ disturbed :
    call[a].pc = "have" => call[a].val = nonce[a] + Cardinality(InPool(a))

\* The transaction a block takes next passes the engine's checks, unless its
\* account is disturbed: what a wallet sends with the nonces it was answered is
\* rejected for its nonce by no interleaving of its own calls with blocks, time
\* and other callers.  A rejected transaction is settled with status 0 and its
\* hash is answered as known from then on (is_settled in the dedupe).
NoQuietRejection ==
  pool # <<>> /\ Head(pool).from \notin disturbed => Runs(Head(pool))

\* Whatever would run now the proxy decodes, to the sender, chain and nonce the
\* engine sees: the checks of decode_and_recover are a subset of those of
\* parse_raw_tx, and both hash the same items.  The proxy's reader refuses
\* nothing that could run, and the pending nonce that is raised is the sender's.
\* (The floor MIN_GAS_PRICE_WEI, if it is set, is a policy on what was read.)
EngineWithinProxy ==
  \A r \in Acceptable : r.engine.nonce = nonce[r.engine.from] => r.proxy = r.engine

\* Of all the byte strings that carry a signed transaction only the one its
\* signer made runs as the signer's: the engine takes no trailing bytes, no
\* further items, no other spelling of an integer or a header and no high s.
\* The hash a wallet was answered is the only one its transaction can run under.
OneEncoding ==
  \A r \in Acceptable :
    r.engine.nonce = nonce[r.engine.from] /\ r.engine.from = r.by => r.own

\* A sender's pending nonce that is ahead of the chain without cause, after a
\* rejected or lost transaction, does not stay there: once the sender's traffic
\* stops the entry expires and eth_getTransactionCount answers the chain's
\* nonce again.
WedgeHeals == <>[](\A a \in Account : Answer(a, nonce[a]) = nonce[a])
==============================================================================
