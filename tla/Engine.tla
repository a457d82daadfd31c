------------------------------- MODULE Engine -------------------------------
(***************************************************************************)
(* The engine contract's transaction path (engine.rs, database.rs and the  *)
(* syscall wrappers of koinos.rs): a relayed raw Ethereum transaction is   *)
(* checked, run by revm, written to the object space write by write and    *)
(* reported by events; the proxy turns the events into a receipt.          *)
(*                                                                         *)
(* The chain (external) runs one Koinos transaction at a time in a session *)
(* of its own, which it keeps when the contract exits normally and throws  *)
(* away, with its events, when the contract aborts; the transaction is     *)
(* part of a block either way.  revm is external too: it is modelled by    *)
(* the nonce check it makes and by the changes it may hand to commit.      *)
(***************************************************************************)
EXTENDS Naturals, Sequences, FiniteSets

CONSTANTS
  Raw,            \* raw transactions, each relayed any number of times
  Sender, Nonce,  \* Raw -> recovered sender, Raw -> nonce
  Parses,         \* the ones parse_raw_tx accepts
  OnChain,        \* the ones signed for ENGINE_CHAIN_ID
  Eoa, Contract,  \* addresses of keys, which send and are called, and of contracts
  Coinbase,       \* the block's beneficiary, which every execution touches
  Hash,           \* the hashes of deployed code
  MaxTouched,     \* bound: accounts one transaction touches besides its sender's
  MaxLogs,        \* bound: logs of one transaction
  MaxReceipts,    \* bound: relayed transactions
  MaxReadFaults,  \* bound: reads that fail, which call_system answers empty
  MaxWriteFaults, \* bound: writes and events that fail
  NoCode,         \* KECCAK_EMPTY
  None            \* no account / a storage slot that was not loaded

ASSUME EngineAssumption ==
  /\ Sender \in [Raw -> Eoa] /\ Nonce \in [Raw -> Nat]
  /\ Parses \subseteq Raw /\ OnChain \subseteq Raw
  /\ Eoa \cap Contract = {} /\ IsFiniteSet(Eoa \cup Contract) /\ Coinbase \in Eoa \cup Contract
  /\ MaxTouched \in Nat /\ MaxLogs \in Nat /\ MaxReceipts \in Nat
  /\ MaxReadFaults \in Nat /\ MaxWriteFaults \in Nat
  /\ NoCode \notin Hash
  /\ None \notin Nat /\ None \notin [nonce : Nat, hash : Hash \cup {NoCode}]

VARIABLES
  store,    \* the object space: accounts, code and storage
  session,  \* the same, as the running transaction has written it so far
  pc, raw,  \* control state of the running transaction, and which one it is
  outcome,  \* how its EVM execution ended
  changes,  \* what revm handed to commit
  misread,  \* history: the accounts among them whose nonce failed reads have hidden
  todo,     \* the object-space writes that commit has still to make
  logs,     \* logs still to be emitted
  events,   \* the Koinos events emitted so far
  receipts, \* the transactions in blocks, with their events
  reads, writes  \* syscall faults so far

faultVars == <<reads, writes>>
runVars == <<session, pc, raw, outcome, changes, misread, todo, logs, events>>
vars == <<store, runVars, receipts, faultVars>>

Address == Eoa \cup Contract
Account == [nonce : Nat, hash : Hash \cup {NoCode}]
Value == {0, 1}  \* of a contract's storage slot; an absent one reads as 0
Store == [account : [Address -> Account \cup {None}], code : SUBSET Hash,
          slot : [Contract -> Value]]
Outcome == {"rejected", "success", "failure"}
Change == [addr : Address, dead : BOOLEAN, info : Account, slot : Value \cup {None}]
Write == [kind : {"remove", "account", "code", "slot"}, of : Change]
Event == {"log", "succeeded", "failed"}
Receipt == [raw : Raw, outcome : Outcome, events : Seq(Event), reverted : BOOLEAN,
            misread : SUBSET Address]

TypeOK ==
  /\ store \in Store /\ session \in Store
  /\ pc \in {"idle", "commit", "logs", "result", "exit"}
  /\ raw \in Raw /\ outcome \in Outcome
  /\ changes \in SUBSET Change /\ misread \in SUBSET Address /\ todo \in SUBSET Write
  /\ logs \in 0..MaxLogs
  /\ events \in Seq(Event) /\ receipts \in Seq(Receipt)
  /\ reads \in 0..MaxReadFaults /\ writes \in 0..MaxWriteFaults

Init ==
  /\ store = [account |-> [a \in Address |-> None], code |-> {}, slot |-> [c \in Contract |-> 0]]
  /\ session = store
  /\ pc = "idle" /\ raw \in Raw /\ outcome = "rejected"
  /\ changes = {} /\ misread = {} /\ todo = {} /\ logs = 0 /\ events = <<>>
  /\ receipts = <<>> /\ reads = 0 /\ writes = 0

-----------------------------------------------------------------------------
(* handle_submit_raw_tx *)

Empty == [nonce |-> 0, hash |-> NoCode]

\* KoinosDatabase::basic; an account that is not found, or whose read failed
\* (it is among the lost), is empty.
Basic(a, lost) == IF a \in lost \/ store.account[a] = None THEN Empty ELSE store.account[a]

\* Mutant: the handler leaves the nonce to revm.
AcceptableAnyNonce(x, lost) == x \in Parses /\ x \in OnChain

Acceptable(x, lost) ==
  /\ x \in Parses
  /\ x \in OnChain
  /\ Nonce[x] = Basic(Sender[x], lost).nonce

\* revm reads the sender again and makes its own check of the nonce.
RevmAccepts(x, lost) == Nonce[x] = Basic(Sender[x], lost).nonce

Faults(lost) == Cardinality(lost.check) + Cardinality(lost.revm)

\* The accounts whose reads fail: the handler's of the sender, and revm's own
\* reads of the accounts it loads.
ReadFaults(x, loaded) ==
  {lost \in [check : SUBSET {Sender[x]}, revm : SUBSET loaded] :
     reads + Faults(lost) <= MaxReadFaults}

\* The accounts written back with a nonce that no good read has vouched for.
\* The sender's is read twice.
Misread(x, lost) == (lost.revm \ {Sender[x]}) \cup (lost.revm \cap lost.check)

Start(x) ==
  /\ pc = "idle"
  /\ Len(receipts) < MaxReceipts
  /\ raw' = x
  /\ session' = store
  /\ events' = <<>>
  /\ UNCHANGED <<store, receipts, writes>>

\* reject_submit: the transaction does not pass the checks, or revm refuses to
\* run it (funds, gas limit, nonce), which may happen to any.  Nothing is
\* committed; an evm.result event will say so.
Reject(x) ==
  /\ Start(x)
  /\ pc' = "result" /\ outcome' = "rejected"
  /\ changes' = {} /\ misread' = {} /\ todo' = {} /\ logs' = 0
  /\ UNCHANGED reads

\* The sender's account after the execution: its nonce is used up, whether it
\* succeeds, reverts or halts.
SenderChange(x, lost) ==
  LET info == Basic(Sender[x], lost) IN
  [addr |-> Sender[x], dead |-> FALSE, info |-> [info EXCEPT !.nonce = @ + 1], slot |-> None]

\* An account that was called, paid or credited as the beneficiary counts as
\* touched, and goes to commit as it was read (an account nobody has used, too).
AsRead(a, lost) == [addr |-> a, dead |-> FALSE, info |-> Basic(a, lost), slot |-> None]

\* What a successful execution may do to a contract it touches: run it, which
\* may write its slot; create it where there is none, with or without code; and
\* destroy it again (SpecId::CANCUN: only a contract of this transaction can be).
\* The nonce of a contract that creates others is left at 1: nothing checks it.
ContractChanges(c, lost) ==
  LET info == Basic(c, lost) IN
  {AsRead(c, lost)} \cup
  (IF info = Empty
   THEN [addr : {c}, dead : BOOLEAN, info : [nonce : {1}, hash : Hash \cup {NoCode}],
         slot : Value \cup {None}]
   ELSE IF info.hash # NoCode
   THEN [addr : {c}, dead : {FALSE}, info : {info}, slot : Value \cup {None}]
   ELSE {})

\* What it may do to any account but its sender's.
Touch(a, lost) == IF a \in Contract THEN ContractChanges(a, lost) ELSE {AsRead(a, lost)}

\* One change for each account it touches.
Touches(touched, lost) ==
  {f \in [touched -> UNION {Touch(a, lost) : a \in touched}] :
     \A a \in touched : f[a] \in Touch(a, lost)}

\* Mutant: a destroyed account's storage is written all the same.
WritesOfDead(ch) ==
  {[kind |-> k, of |-> ch] : k \in
     (IF ch.dead THEN {"remove"} ELSE {"account"})
       \cup (IF ~ch.dead /\ ch.info.hash # NoCode THEN {"code"} ELSE {})
       \cup (IF ch.slot # None THEN {"slot"} ELSE {})}

\* Mutant: code is not written.
WritesOfNoCode(ch) ==
  IF ch.dead THEN {[kind |-> "remove", of |-> ch]}
  ELSE {[kind |-> k, of |-> ch] : k \in
          {"account"} \cup (IF ch.slot # None THEN {"slot"} ELSE {})}

\* DatabaseCommit::commit: the writes one changed account calls for.
WritesOf(ch) ==
  IF ch.dead THEN {[kind |-> "remove", of |-> ch]}
  ELSE {[kind |-> k, of |-> ch] : k \in
          {"account"} \cup (IF ch.info.hash # NoCode THEN {"code"} ELSE {})
                      \cup (IF ch.slot # None THEN {"slot"} ELSE {})}

\* revm runs it.  A failed call undoes its changes; whether the accounts it
\* called stay touched is left open.
Execute(x) ==
  /\ Start(x)
  /\ \E touched \in SUBSET (Address \ {Sender[x]}) : \E lost \in ReadFaults(x, touched \cup {Sender[x]}) :
       /\ Cardinality(touched) <= MaxTouched
       /\ Coinbase \in touched \cup {Sender[x]}
       /\ Acceptable(x, lost.check) /\ RevmAccepts(x, lost.revm)
       /\ reads' = reads + Faults(lost)
       /\ misread' = Misread(x, lost)
       /\ \/ /\ outcome' = "failure"
             /\ changes' = {SenderChange(x, lost.revm)} \cup {AsRead(a, lost.revm) : a \in touched}
             /\ logs' = 0
          \/ /\ outcome' = "success"
             /\ \E f \in Touches(touched, lost.revm) :
                  changes' = {SenderChange(x, lost.revm)} \cup {f[a] : a \in touched}
             /\ logs' \in 0..MaxLogs
  /\ todo' = UNION {WritesOf(ch) : ch \in changes'}
  /\ pc' = "commit"

-----------------------------------------------------------------------------
(* commit, the events, and the way out *)

\* put_object / remove_object on one object.
Written(s, w) ==
  CASE w.kind = "remove"  -> [s EXCEPT !.account[w.of.addr] = None]
    [] w.kind = "account" -> [s EXCEPT !.account[w.of.addr] = w.of.info]
    [] w.kind = "code"    -> [s EXCEPT !.code = @ \cup {w.of.info.hash}]
    [] w.kind = "slot"    -> [s EXCEPT !.slot[w.of.addr] = w.of.slot]

\* One write of commit.  The changed accounts come in the order of a hash map.
CommitWrite ==
  /\ pc = "commit"
  /\ \E w \in todo : session' = Written(session, w) /\ todo' = todo \ {w}
  /\ pc' = IF todo' = {} THEN "logs" ELSE "commit"
  /\ UNCHANGED <<store, raw, outcome, changes, misread, logs, events, receipts, faultVars>>

\* Mutant: one log too many.
EmitLogOnceMore ==
  /\ pc = "logs"
  /\ events' = Append(events, "log")
  /\ logs' = logs - 1
  /\ UNCHANGED <<store, session, pc, raw, outcome, changes, misread, todo, receipts, faultVars>>

\* emit_logs: one evm.log event for each log.
EmitLog ==
  /\ pc = "logs" /\ logs > 0
  /\ events' = Append(events, "log")
  /\ logs' = logs - 1
  /\ UNCHANGED <<store, session, pc, raw, outcome, changes, misread, todo, receipts, faultVars>>

\* Mutant: the encoder drops a success flag that is false.
EmitResultProto3 ==
  /\ pc = "result" \/ (pc = "logs" /\ logs = 0)
  /\ events' = IF outcome = "success" THEN Append(events, "succeeded") ELSE events
  /\ pc' = "exit"
  /\ UNCHANGED <<store, session, raw, outcome, changes, misread, todo, logs, receipts, faultVars>>

\* emit_evm_result_event: the success flag is always part of it.
EmitResult ==
  /\ pc = "result" \/ (pc = "logs" /\ logs = 0)
  /\ events' = Append(events, IF outcome = "success" THEN "succeeded" ELSE "failed")
  /\ pc' = "exit"
  /\ UNCHANGED <<store, session, raw, outcome, changes, misread, todo, logs, receipts, faultVars>>

\* The contract's memory ends with the call.
End(evs, aborted) ==
  /\ receipts' = Append(receipts, [raw |-> raw, outcome |-> outcome, events |-> evs,
                                   reverted |-> aborted, misread |-> misread])
  /\ pc' = "idle" /\ session' = store'
  /\ changes' = {} /\ misread' = {} /\ todo' = {} /\ logs' = 0 /\ events' = <<>>
  /\ UNCHANGED <<raw, outcome>>

\* exit_success: the chain keeps the session and its events.
Exit ==
  /\ pc = "exit"
  /\ store' = session
  /\ End(events, FALSE)
  /\ UNCHANGED faultVars

\* Mutant: a failed write is logged and passed over (call_system).
AbortNever ==
  /\ pc = "commit"
  /\ writes < MaxWriteFaults
  /\ writes' = writes + 1
  /\ \E w \in todo : todo' = todo \ {w}
  /\ pc' = IF todo' = {} THEN "logs" ELSE "commit"
  /\ UNCHANGED <<store, session, raw, outcome, changes, misread, logs, events, receipts, reads>>

\* call_system_must: a write or an event fails, the contract aborts at once.
Abort ==
  /\ pc \in {"commit", "logs", "result"}
  /\ writes < MaxWriteFaults
  /\ writes' = writes + 1
  /\ UNCHANGED <<store, reads>>
  /\ End(<<>>, TRUE)

Next ==
  \/ \E x \in Raw : Reject(x) \/ Execute(x)
  \/ CommitWrite \/ EmitLog \/ EmitResult \/ Exit \/ Abort

Spec == Init /\ [][Next]_vars

-----------------------------------------------------------------------------
(* Properties *)

\* decode_receipt_events: the status the proxy reports.
DecodedStatus(evs) == \A i \in DOMAIN evs : evs[i] # "failed"

\* An execution that reached the chain's state used up its nonce.
Ran(i) == receipts[i].outcome # "rejected" /\ ~receipts[i].reverted

Twins(i, j) ==
  /\ i < j /\ Ran(i) /\ Ran(j)
  /\ Sender[receipts[i].raw] = Sender[receipts[j].raw]
  /\ Nonce[receipts[i].raw] = Nonce[receipts[j].raw]

\* A signed transaction runs once, however often it is relayed.  A nonce runs
\* again only if an execution since has written the account back after a
\* failed read of it: an execution of another's that touched it, or one of its
\* own for which the handler's read and revm's failed both.  One failed read
\* does not get an account's own transaction past its nonce.
RunsAtMostOnce ==
  \A i, j \in DOMAIN receipts :
    Twins(i, j) =>
      \E k \in i+1..j : Ran(k) /\ Sender[receipts[i].raw] \in receipts[k].misread

\* "A raw tx can only execute successfully once" (db.rs, index_tx), with no
\* exception.
SucceedsOnce ==
  \A i, j \in DOMAIN receipts :
    (/\ Ran(i) /\ Ran(j) /\ receipts[i].raw = receipts[j].raw
     /\ receipts[i].outcome = "success" /\ receipts[j].outcome = "success")
      => i = j

\* The object space changes by whole transactions: every account, code and
\* storage write of one execution is there, or none of them.
AllOrNothing ==
  [][store' # store =>
       \A ch \in changes :
         IF ch.dead THEN store'.account[ch.addr] = None
         ELSE /\ store'.account[ch.addr] = ch.info
              /\ ch.info.hash # NoCode => ch.info.hash \in store'.code
              /\ ch.slot # None => store'.slot[ch.addr] = ch.slot]_vars

\* An address without an account has no storage left, so that a contract
\* created there starts from zero, although commit never clears storage.  It
\* takes reads that do not fail: an account that looks new can be created and
\* destroyed on top of its old storage.
NoOrphanStorage ==
  reads = 0 => \A c \in Contract : store.account[c] = None => store.slot[c] = 0

\* The code of every account can be loaded by its hash.
CodeIsThere ==
  \A a \in Address :
    store.account[a] # None /\ store.account[a].hash # NoCode
      => store.account[a].hash \in store.code

TrueOf(r) == DecodedStatus(r.events) <=> (r.outcome = "success" /\ ~r.reverted)

\* The proxy reports a transaction that ran to its end as the EVM ended it,
\* whatever it logged before.
EndedReceiptIsTrue == \A i \in DOMAIN receipts : ~receipts[i].reverted => TrueOf(receipts[i])

\* The proxy reports every transaction as the chain ended it, so that one the
\* engine aborted does not look successful.
ReceiptIsTrue == \A i \in DOMAIN receipts : TrueOf(receipts[i])
=============================================================================
