----------------------------- MODULE RelayProofs -----------------------------
(***************************************************************************)
(* Theorems about Relay, for every set of calls and transactions and every *)
(* number of disturbances.  IInv is the inductive strengthening; MCRelay's  *)
(* runs check the properties it implies on small instances.                *)
(***************************************************************************)
EXTENDS Relay, FiniteSetTheorems, TLAPS

\* The states in which a task holds the gate, and those in which it has read
\* a counter.
Holding == {"fetch", "send", "admitted", "refetch"}
Numbered == {"send", "admitted", "refetch"}

\* The gate belongs to exactly the task that is inside its round trip, and
\* that task has a counter to use.
GateInv ==
  \A r \in Req : /\ pc[r] \in Holding <=> gate = r
                 /\ pc[r] \in Numbered => cache \in Nat

\* topNonce bounds everything that was admitted, and everything that was read
\* from the chain; the holder of an admitted submit has not advanced yet.
NonceInv ==
  /\ Len(chain) + Len(mempool) <= topNonce
  /\ fetched # None => fetched <= topNonce + 1
  /\ cache # None => cache <= topNonce + 1
  /\ \A r \in Req : pc[r] = "admitted" => cache <= topNonce

\* A task that still owns its placeholder, and one whose submit has not been
\* admitted yet.
Active(r) == pc[r] \notin {"idle", "finish", "done"}
Waiting == {"queued", "fetch", "send", "refetch"}

\* A placeholder is owned by a task that has not yet reached its end.
PlaceholderInv ==
  \A t \in Tx : meta[t] = "placeholder"
    => \E r \in Req : txOf[r] = t /\ Active(r)

\* Why a transaction whose record was never lost is admitted once: its entry
\* in tx_meta outlives its only task, and keeps every other call out.
OnceInv ==
  /\ \A m \in late : m.tx \in excused
  /\ \A r \in Req : Active(r) /\ txOf[r] \notin excused => meta[txOf[r]] # "absent"
  /\ \A r, q \in Req : /\ Active(r) /\ Active(q)
                        /\ txOf[r] = txOf[q] /\ txOf[r] \notin excused
                        => r = q
  /\ \A t \in Tx \ excused : Occurs(t, Ledger) => meta[t] # "absent"
  /\ \A r \in Req : pc[r] \in Waiting /\ txOf[r] \notin excused => ~Occurs(txOf[r], Ledger)

\* An entry with a Koinos id has its durable row, or the job that writes it.
DurableInv ==
  \A t \in Tx \ excused : meta[t] = "relayed" => t \in writes \/ db[t] # "absent"

CoreInv == TypeOK /\ GateInv /\ NonceInv /\ PlaceholderInv
IInv == CoreInv /\ InflightExact /\ OnceInv /\ RelayedOnce /\ DurableInv

-----------------------------------------------------------------------------
\* How the set of calls in flight moves with one program counter.
LEMMA InFlightMoves ==
  ASSUME TypeOK, NEW r \in Req, NEW to \in PC, pc' = [pc EXCEPT ![r] = to]
  PROVE  /\ IsFiniteSet(InFlight)
         /\ Cardinality(InFlight) \in Nat
         /\ to \notin {"idle", "done"} => InFlight' = InFlight \cup {r}
         /\ to \in {"idle", "done"} => InFlight' = InFlight \ {r}
<1>1. InFlight \subseteq Req
  BY DEF InFlight
<1>2. IsFiniteSet(InFlight) /\ Cardinality(InFlight) \in Nat
  BY <1>1, RelayAssumption, FS_Subset, FS_CardinalityType
<1>3. QED
  BY <1>2 DEF InFlight, TypeOK

\* A step that moves a call from one in-flight state to another leaves the
\* count alone.
LEMMA InFlightKept ==
  ASSUME TypeOK, NEW r \in Req, NEW from \in PC, NEW to \in PC, Goto(r, from, to),
         from \notin {"idle", "done"}, to \notin {"idle", "done"}
  PROVE  InFlight' = InFlight
BY DEF Goto, InFlight, TypeOK

\* The nonce facts survive growth of what the node has seen.
LEMMA NonceInvGrows ==
  ASSUME TypeOK, GateInv, NonceInv, UNCHANGED <<cache, fetched, pc>>, topNonce' \in Nat,
         Len(chain') + Len(mempool') <= topNonce', topNonce <= topNonce'
  PROVE  NonceInv'
<1>1. topNonce \in Nat /\ cache \in Nat \cup {None} /\ fetched \in Nat \cup {None}
  BY DEF TypeOK
<1>2. fetched' # None => fetched' <= topNonce' + 1
  <2>1. SUFFICES ASSUME fetched # None PROVE fetched <= topNonce' + 1
    OBVIOUS
  <2>2. fetched \in Nat /\ fetched <= topNonce + 1
    BY <1>1, <2>1 DEF NonceInv
  <2>3. \A a, b, c \in Nat : a <= b + 1 /\ b <= c => a <= c + 1
    OBVIOUS
  <2>4. QED
    BY <1>1, <2>2, <2>3
<1>3. cache' # None => cache' <= topNonce' + 1
  <2>1. SUFFICES ASSUME cache # None PROVE cache <= topNonce' + 1
    OBVIOUS
  <2>2. cache \in Nat /\ cache <= topNonce + 1
    BY <1>1, <2>1 DEF NonceInv
  <2>3. \A a, b, c \in Nat : a <= b + 1 /\ b <= c => a <= c + 1
    OBVIOUS
  <2>4. QED
    BY <1>1, <2>2, <2>3
<1>4. \A r \in Req : pc'[r] = "admitted" => cache' <= topNonce'
  <2>1. SUFFICES ASSUME NEW r \in Req, pc[r] = "admitted" PROVE cache <= topNonce'
    OBVIOUS
  <2>2. QED
    BY <1>1, <2>1 DEF NonceInv, GateInv, Numbered
<1>5. QED
  BY <1>2, <1>3, <1>4 DEF NonceInv

\* Admission puts one transaction at the end of the ledger.
LEMMA AdmitLedger ==
  ASSUME TypeOK, NEW t, mempool' = Append(mempool, t), chain' = chain, t \in Tx \cup {Foreign}
  PROVE  Ledger' = Append(Ledger, t)
BY DEF Ledger, TypeOK

\* A block moves the first pending transaction; the ledger stays as it is.
LEMMA CommitLedger ==
  ASSUME TypeOK, mempool # <<>>, chain' = Append(chain, Head(mempool)), mempool' = Tail(mempool)
  PROVE  Ledger' = Ledger
BY DEF Ledger, TypeOK

\* A mempool loss cuts the ledger to a prefix.
LEMMA DropLedger ==
  ASSUME TypeOK, NEW k \in 1..Len(mempool), chain' = chain, mempool' = SubSeq(mempool, 1, k-1)
  PROVE  Ledger' = SubSeq(Ledger, 1, Len(chain) + k - 1)
BY DEF Ledger, TypeOK

\* The ledger is the chain followed by the mempool.
LEMMA LedgerType ==
  ASSUME TypeOK
  PROVE  Ledger \in Seq(Tx \cup {Foreign}) /\ Len(Ledger) = Len(chain) + Len(mempool)
BY DEF Ledger, TypeOK

\* What occurs in a sequence after an append.
LEMMA OccursAppend ==
  ASSUME NEW s \in Seq(Tx \cup {Foreign}), NEW x \in Tx \cup {Foreign}
  PROVE  \A t \in Tx : Occurs(t, Append(s, x)) <=> (Occurs(t, s) \/ t = x)
BY DEF Occurs

\* What occurs in a prefix occurs in the sequence.
LEMMA OccursPrefix ==
  ASSUME NEW S, NEW s \in Seq(S), NEW n \in 0..Len(s), NEW t, Occurs(t, SubSeq(s, 1, n))
  PROVE  Occurs(t, s)
BY DEF Occurs

\* The places of a prefix are places of the sequence, and hold the same.
LEMMA PrefixPlaces ==
  ASSUME NEW S, NEW s \in Seq(S), NEW n \in 0..Len(s)
  PROVE  \A i \in DOMAIN SubSeq(s, 1, n) : i \in DOMAIN s /\ SubSeq(s, 1, n)[i] = s[i]
OBVIOUS

\* Types, the gate, the counter and the placeholders, action by action.
LEMMA CoreStep ==
  ASSUME IInv, [Next]_vars
  PROVE  CoreInv'
<1> USE RelayAssumption
    DEF IInv, CoreInv, TypeOK, GateInv, NonceInv, PlaceholderInv, Holding, Numbered, Active,
        PC, MetaState, DbState, Goto, Abandon, Admit, Interfere, NodeNext, ChainNext, Later,
        Reconciled, AlreadyKnown, InFlight, proxyVars, nodeVars, histVars
<1>1. ASSUME NEW r \in Req, Reserve(r) PROVE CoreInv'
  BY <1>1 DEF Reserve
<1>2. ASSUME NEW r \in Req, AnswerKnown(r) PROVE CoreInv'
  BY <1>2 DEF AnswerKnown
<1>3. ASSUME NEW r \in Req, TakeGate(r) PROVE CoreInv'
  BY <1>3 DEF TakeGate
<1>4. ASSUME NEW r \in Req, FetchOk(r) PROVE CoreInv'
  BY <1>4 DEF FetchOk
<1>5. ASSUME NEW r \in Req, FetchFails(r) PROVE CoreInv'
  BY <1>5 DEF FetchFails
<1>6. ASSUME NEW r \in Req, SubmitAdmitted(r) PROVE CoreInv'
  BY <1>6 DEF SubmitAdmitted
<1>7. ASSUME NEW r \in Req, SubmitBadNonce(r) PROVE CoreInv'
  BY <1>7 DEF SubmitBadNonce
<1>8. ASSUME NEW r \in Req, SubmitBadNonceAgain(r) PROVE CoreInv'
  BY <1>8 DEF SubmitBadNonceAgain
<1>9. ASSUME NEW r \in Req, SubmitRefused(r) PROVE CoreInv'
  BY <1>9 DEF SubmitRefused
<1>10. ASSUME NEW r \in Req, SubmitTimesOut(r) PROVE CoreInv'
  BY <1>10 DEF SubmitTimesOut
<1>11. ASSUME NEW r \in Req, AnswerLost(r) PROVE CoreInv'
  BY <1>11 DEF AnswerLost
<1>12. ASSUME NEW r \in Req, RefetchOk(r) PROVE CoreInv'
  BY <1>12 DEF RefetchOk
<1>13. ASSUME NEW r \in Req, RefetchFails(r) PROVE CoreInv'
  BY <1>13 DEF RefetchFails
<1>14. ASSUME NEW r \in Req, Advance(r) PROVE CoreInv'
  BY <1>14 DEF Advance
<1>15. ASSUME NEW r \in Req, Settle(r) PROVE CoreInv'
  <2>1. meta' \in [Tx -> MetaState] /\ meta'[txOf[r]] # "placeholder"
    BY <1>15 DEF Settle
  <2>2. \A t \in Tx : t # txOf[r] => meta'[t] = meta[t]
    BY <1>15 DEF Settle
  <2>3. TypeOK'
    <3>1. writes' \in SUBSET Tx
      <4>1. writes' = writes \/ writes' = writes \cup {txOf[r]}
        BY <1>15 DEF Settle
      <4>2. QED
        BY <4>1
    <3>2. pc' \in [Req -> PC]
      BY <1>15 DEF Settle
    <3>3. QED
      BY <1>15, <2>1, <3>1, <3>2 DEF Settle
  <2>4. PlaceholderInv'
    BY <1>15, <2>1, <2>2 DEF Settle
  <2>5. QED
    BY <1>15, <2>3, <2>4 DEF Settle
<1>16. ASSUME NEW r \in Req, Finish(r) PROVE CoreInv'
  <2>1. inflight' \in Nat
    <3>1. pc' = [pc EXCEPT ![r] = "done"] /\ r \in InFlight
      BY <1>16 DEF Finish
    <3>2. IsFiniteSet(InFlight) /\ inflight = Cardinality(InFlight)
      BY <3>1, InFlightMoves DEF InflightExact
    <3>3. inflight # 0
      BY <3>1, <3>2, FS_EmptySet
    <3>4. QED
      BY <3>3, <1>16 DEF Finish
  <2>2. QED
    BY <1>16, <2>1 DEF Finish
<1>17. ASSUME NEW t \in Tx, UpsertTx(t) PROVE CoreInv'
  BY <1>17 DEF UpsertTx
<1>17a. ASSUME NEW t \in Tx, UpsertFails(t) PROVE CoreInv'
  BY <1>17a DEF UpsertFails
<1>18. ASSUME NEW t \in Tx, SettleReceipt(t) PROVE CoreInv'
  BY <1>18 DEF SettleReceipt
<1>19. CASE ReconcileFetch
  BY <1>19 DEF ReconcileFetch
<1>20. CASE ReconcileApply
  BY <1>20 DEF ReconcileApply
<1>21. CASE QuietElapses
  BY <1>21 DEF QuietElapses
<1>22. CASE Commit
  BY <1>22 DEF Commit
<1>23. CASE DropMempool
  BY <1>23 DEF DropMempool
<1>24. CASE ExternalSubmit
  BY <1>24 DEF ExternalSubmit
<1>25. CASE Crash
  BY <1>25 DEF Crash
<1>26. ASSUME NEW m \in late, LateArrival(m) PROVE CoreInv'
  <2>1. m.nonce \in Nat /\ m.tx \in Tx
    OBVIOUS
  <2>2. CASE m.nonce = NodeNext
    <3>0. mempool' = Append(mempool, m.tx)
      BY <1>26, <2>2 DEF LateArrival
    <3>1. mempool' \in Seq(Tx \cup {Foreign}) /\ Len(mempool') = Len(mempool) + 1
      BY <2>1, <3>0
    <3>2. Len(chain') + Len(mempool') <= topNonce' /\ topNonce <= topNonce' /\ topNonce' \in Nat
      BY <1>26, <2>2, <3>1 DEF LateArrival
    <3>3. late' \in SUBSET [nonce : Nat, tx : Tx]
      BY <1>26, <2>2 DEF LateArrival
    <3>4. TypeOK'
      BY <1>26, <3>1, <3>2, <3>3 DEF LateArrival
    <3>5. GateInv' /\ PlaceholderInv'
      BY <1>26 DEF LateArrival
    <3>6. NonceInv'
      <4>1. UNCHANGED <<cache, fetched, pc>>
        BY <1>26 DEF LateArrival
      <4>2. QED
        BY <3>2, <4>1, NonceInvGrows
    <3>7. QED
      BY <3>4, <3>5, <3>6
  <2>3. CASE m.nonce # NodeNext
    BY <1>26, <2>1, <2>3 DEF LateArrival
  <2>4. QED
    BY <2>2, <2>3
<1>27. CASE UNCHANGED vars
  BY <1>27 DEF vars, proxyVars, nodeVars, histVars
<1>28. QED
  BY <1>1, <1>2, <1>3, <1>4, <1>5, <1>6, <1>7, <1>8, <1>9, <1>10, <1>11, <1>12, <1>13,
     <1>14, <1>15, <1>16, <1>17, <1>17a, <1>18, <1>19, <1>20, <1>21, <1>22, <1>23, <1>24, <1>25,
     <1>26, <1>27
  DEF Next, Task

\* Every way in and out of a task moves the counter with the set it counts.
LEMMA InflightStep ==
  ASSUME IInv, [Next]_vars
  PROVE  InflightExact'
<1> USE DEF IInv, CoreInv, InflightExact
<1>1. ASSUME NEW r \in Req, Reserve(r) PROVE InflightExact'
  <2>1. pc[r] = "idle" /\ pc' = [pc EXCEPT ![r] = "queued"] /\ inflight' = inflight + 1
    BY <1>1 DEF Reserve, Goto
  <2>2. r \notin InFlight /\ InFlight' = InFlight \cup {r} /\ IsFiniteSet(InFlight)
    BY <2>1, InFlightMoves DEF InFlight, PC
  <2>3. QED
    BY <2>1, <2>2, FS_AddElement
<1>2. ASSUME NEW r \in Req, Finish(r) PROVE InflightExact'
  <2>1. pc[r] = "finish" /\ pc' = [pc EXCEPT ![r] = "done"] /\ inflight' = inflight - 1
    BY <1>2 DEF Finish, Goto
  <2>2. r \in InFlight /\ InFlight' = InFlight \ {r} /\ IsFiniteSet(InFlight)
    BY <2>1, InFlightMoves DEF InFlight, PC
  <2>3. QED
    BY <2>1, <2>2, FS_RemoveElement
<1>3. ASSUME NEW r \in Req, AnswerKnown(r) PROVE InflightExact'
  BY <1>3 DEF AnswerKnown, Goto, InFlight, TypeOK
<1>4. CASE Crash
  <2>1. InFlight' = {} /\ inflight' = 0
    BY <1>4 DEF Crash, InFlight, TypeOK
  <2>2. QED
    BY <2>1, FS_EmptySet
<1>5. ASSUME NEW r \in Req, Task(r), ~Finish(r) PROVE InflightExact'
  <2>1. inflight' = inflight /\ \E from, to \in PC \ {"idle", "done"} : Goto(r, from, to)
    BY <1>5 DEF Task, TakeGate, FetchOk, FetchFails, SubmitAdmitted, SubmitBadNonce,
         SubmitBadNonceAgain, SubmitRefused, SubmitTimesOut, AnswerLost, RefetchOk,
         RefetchFails, Advance, Settle, Abandon, PC
  <2>2. QED
    BY <2>1, InFlightKept
<1>6. CASE UNCHANGED <<pc, inflight>>
  BY <1>6 DEF InFlight
<1>7. QED
  <2>1. ASSUME NEW t \in Tx, UpsertTx(t) \/ UpsertFails(t) \/ SettleReceipt(t)
        PROVE  UNCHANGED <<pc, inflight>>
    BY <2>1 DEF UpsertTx, UpsertFails, SettleReceipt, proxyVars
  <2>2. ASSUME NEW m \in late, LateArrival(m) PROVE UNCHANGED <<pc, inflight>>
    BY <2>2 DEF LateArrival, proxyVars
  <2>3. ASSUME \/ ReconcileFetch \/ ReconcileApply \/ QuietElapses \/ Commit
               \/ DropMempool \/ ExternalSubmit \/ UNCHANGED vars
        PROVE  UNCHANGED <<pc, inflight>>
    BY <2>3 DEF ReconcileFetch, ReconcileApply, QuietElapses, Commit, DropMempool,
         ExternalSubmit, vars, proxyVars
  <2>4. QED
    BY <1>1, <1>2, <1>3, <1>4, <1>5, <1>6, <2>1, <2>2, <2>3 DEF Next

\* Who may change what the deduplication rests on.
LEMMA OnceStep ==
  ASSUME IInv, [Next]_vars
  PROVE  OnceInv' /\ RelayedOnce' /\ DurableInv'
<1>0. TypeOK /\ Ledger \in Seq(Tx \cup {Foreign}) /\ Len(Ledger) = Len(chain) + Len(mempool)
  BY LedgerType DEF IInv, CoreInv
<1>a. \A x \in Tx \cup {Foreign} : \A t \in Tx :
        Occurs(t, Append(Ledger, x)) <=> (Occurs(t, Ledger) \/ t = x)
  BY <1>0, OccursAppend
<1> USE RelayAssumption
    DEF IInv, CoreInv, OnceInv, RelayedOnce, DurableInv, TypeOK, Active, Waiting, PC,
        MetaState, DbState, Goto, Abandon, proxyVars, nodeVars, histVars, AlreadyKnown,
        Interfere
<1>1. ASSUME NEW r \in Req, Reserve(r) PROVE OnceInv' /\ RelayedOnce' /\ DurableInv'
  <2>1. Ledger' = Ledger
    BY <1>1 DEF Reserve, Ledger
  <2>2. QED
    BY <1>1, <2>1 DEF Reserve
<1>2. ASSUME NEW r \in Req, AnswerKnown(r) PROVE OnceInv' /\ RelayedOnce' /\ DurableInv'
  <2>1. Ledger' = Ledger
    BY <1>2 DEF AnswerKnown, Ledger
  <2>2. QED
    BY <1>2, <2>1 DEF AnswerKnown
<1>3. ASSUME NEW r \in Req, TakeGate(r) PROVE OnceInv' /\ RelayedOnce' /\ DurableInv'
  <2>1. Ledger' = Ledger
    BY <1>3 DEF TakeGate, Ledger
  <2>2. QED
    BY <1>3, <2>1 DEF TakeGate
<1>4. ASSUME NEW r \in Req, FetchOk(r) PROVE OnceInv' /\ RelayedOnce' /\ DurableInv'
  <2>1. Ledger' = Ledger
    BY <1>4 DEF FetchOk, Ledger
  <2>2. QED
    BY <1>4, <2>1 DEF FetchOk
<1>5. ASSUME NEW r \in Req, FetchFails(r) PROVE OnceInv' /\ RelayedOnce' /\ DurableInv'
  <2>1. Ledger' = Ledger
    BY <1>5 DEF FetchFails, Ledger
  <2>2. QED
    BY <1>5, <2>1 DEF FetchFails
<1>6. ASSUME NEW r \in Req, SubmitAdmitted(r) PROVE OnceInv' /\ RelayedOnce' /\ DurableInv'
  <2>1. Ledger' = Append(Ledger, txOf[r])
    BY <1>6, <1>0, AdmitLedger DEF SubmitAdmitted, Admit
  <2>2. \A t \in Tx : Occurs(t, Ledger)' <=> (Occurs(t, Ledger) \/ t = txOf[r])
    <3>1. txOf[r] \in Tx \cup {Foreign}
      OBVIOUS
    <3>2. QED
      BY <1>0, <2>1, <3>1, OccursAppend
  <2>3. OnceInv' /\ DurableInv'
    BY <1>6, <2>2 DEF SubmitAdmitted
  <2>4. RelayedOnce'
    BY <1>6, <2>1, <1>0 DEF SubmitAdmitted, Occurs
  <2>5. QED
    BY <2>3, <2>4
<1>7. ASSUME NEW r \in Req, SubmitBadNonce(r) PROVE OnceInv' /\ RelayedOnce' /\ DurableInv'
  <2>1. Ledger' = Ledger
    BY <1>7 DEF SubmitBadNonce, Ledger
  <2>2. QED
    BY <1>7, <2>1 DEF SubmitBadNonce
<1>8. ASSUME NEW r \in Req, SubmitBadNonceAgain(r) PROVE OnceInv' /\ RelayedOnce' /\ DurableInv'
  <2>1. Ledger' = Ledger
    BY <1>8 DEF SubmitBadNonceAgain, Ledger
  <2>2. QED
    BY <1>8, <2>1 DEF SubmitBadNonceAgain
<1>9. ASSUME NEW r \in Req, SubmitRefused(r) PROVE OnceInv' /\ RelayedOnce' /\ DurableInv'
  <2>1. Ledger' = Ledger
    BY <1>9 DEF SubmitRefused, Ledger
  <2>2. QED
    BY <1>9, <2>1 DEF SubmitRefused
<1>10. ASSUME NEW r \in Req, SubmitTimesOut(r) PROVE OnceInv' /\ RelayedOnce' /\ DurableInv'
  <2>1. Ledger' = Ledger
    BY <1>10 DEF SubmitTimesOut, Ledger
  <2>2. QED
    BY <1>10, <2>1 DEF SubmitTimesOut
<1>11. ASSUME NEW r \in Req, AnswerLost(r) PROVE OnceInv' /\ RelayedOnce' /\ DurableInv'
  <2>1. Ledger' = Ledger
    BY <1>11 DEF AnswerLost, Ledger
  <2>2. QED
    BY <1>11, <2>1 DEF AnswerLost
<1>12. ASSUME NEW r \in Req, RefetchOk(r) PROVE OnceInv' /\ RelayedOnce' /\ DurableInv'
  <2>1. Ledger' = Ledger
    BY <1>12 DEF RefetchOk, Ledger
  <2>2. QED
    BY <1>12, <2>1 DEF RefetchOk
<1>13. ASSUME NEW r \in Req, RefetchFails(r) PROVE OnceInv' /\ RelayedOnce' /\ DurableInv'
  <2>1. Ledger' = Ledger
    BY <1>13 DEF RefetchFails, Ledger
  <2>2. QED
    BY <1>13, <2>1 DEF RefetchFails
<1>14. ASSUME NEW r \in Req, Advance(r) PROVE OnceInv' /\ RelayedOnce' /\ DurableInv'
  <2>1. Ledger' = Ledger
    BY <1>14 DEF Advance, Ledger
  <2>2. QED
    BY <1>14, <2>1 DEF Advance
<1>15. ASSUME NEW r \in Req, Settle(r) PROVE OnceInv' /\ RelayedOnce' /\ DurableInv'
  <2>1. Ledger' = Ledger
    BY <1>15 DEF Settle, Ledger
  <2>2. QED
    BY <1>15, <2>1 DEF Settle
<1>16. ASSUME NEW r \in Req, Finish(r) PROVE OnceInv' /\ RelayedOnce' /\ DurableInv'
  <2>1. Ledger' = Ledger
    BY <1>16 DEF Finish, Ledger
  <2>2. QED
    BY <1>16, <2>1 DEF Finish
<1>17. ASSUME NEW t \in Tx, UpsertTx(t) PROVE OnceInv' /\ RelayedOnce' /\ DurableInv'
  <2>1. Ledger' = Ledger
    BY <1>17 DEF UpsertTx, Ledger
  <2>2. QED
    BY <1>17, <2>1 DEF UpsertTx
<1>17a. ASSUME NEW t \in Tx, UpsertFails(t) PROVE OnceInv' /\ RelayedOnce' /\ DurableInv'
  <2>1. Ledger' = Ledger
    BY <1>17a DEF UpsertFails, Ledger
  <2>2. QED
    BY <1>17a, <2>1 DEF UpsertFails
<1>18. ASSUME NEW t \in Tx, SettleReceipt(t) PROVE OnceInv' /\ RelayedOnce' /\ DurableInv'
  <2>1. Ledger' = Ledger
    BY <1>18 DEF SettleReceipt, Ledger
  <2>2. QED
    BY <1>18, <2>1 DEF SettleReceipt
<1>19. CASE ReconcileFetch
  <2>1. Ledger' = Ledger
    BY <1>19 DEF ReconcileFetch, Ledger
  <2>2. QED
    BY <1>19, <2>1 DEF ReconcileFetch
<1>20. CASE ReconcileApply
  <2>1. Ledger' = Ledger
    BY <1>20 DEF ReconcileApply, Ledger
  <2>2. QED
    BY <1>20, <2>1 DEF ReconcileApply
<1>21. CASE QuietElapses
  <2>1. Ledger' = Ledger
    BY <1>21 DEF QuietElapses, Ledger
  <2>2. QED
    BY <1>21, <2>1 DEF QuietElapses
<1>22. CASE Commit
  <2>1. Ledger' = Ledger
    BY <1>22, <1>0, CommitLedger DEF Commit
  <2>2. QED
    BY <1>22, <2>1 DEF Commit
<1>23. CASE DropMempool
  <2>1. PICK k \in 1..Len(mempool) : mempool' = SubSeq(mempool, 1, k - 1)
    BY <1>23 DEF DropMempool
  <2>2. Ledger' = SubSeq(Ledger, 1, Len(chain) + k - 1) /\ Len(chain) + k - 1 \in 0..Len(Ledger)
    <3>1. chain' = chain
      BY <1>23 DEF DropMempool
    <3>2. Ledger' = SubSeq(Ledger, 1, Len(chain) + k - 1)
      BY <1>0, <2>1, <3>1, DropLedger
    <3>3. QED
      BY <1>0, <2>1, <3>2
  <2>3. \A t \in Tx : Occurs(t, Ledger)' => Occurs(t, Ledger)
    BY <1>0, <2>2, OccursPrefix
  <2>4. OnceInv' /\ DurableInv'
    BY <1>23, <2>3 DEF DropMempool
  <2>5. RelayedOnce'
    <3>1. \A i \in DOMAIN Ledger' : i \in DOMAIN Ledger /\ Ledger'[i] = Ledger[i]
      BY <1>0, <2>2, PrefixPlaces
    <3>2. excused' = excused
      BY <1>23 DEF DropMempool
    <3>3. QED
      BY <3>1, <3>2
  <2>6. QED
    BY <2>4, <2>5
<1>24. CASE ExternalSubmit
  <2>1. Ledger' = Append(Ledger, Foreign)
    <3>1. mempool' = Append(mempool, Foreign) /\ chain' = chain
      BY <1>24 DEF ExternalSubmit
    <3>2. QED
      BY <3>1, <1>0, AdmitLedger
  <2>2. \A t \in Tx : Occurs(t, Ledger)' <=> Occurs(t, Ledger)
    <3>1. \A t \in Tx : Occurs(t, Append(Ledger, Foreign)) <=> (Occurs(t, Ledger) \/ t = Foreign)
      BY <1>a
    <3>2. QED
      BY <2>1, <3>1
  <2>3. OnceInv' /\ DurableInv'
    BY <1>24, <2>2 DEF ExternalSubmit
  <2>4. RelayedOnce'
    BY <1>24, <2>1, <1>0, SMTT(30) DEF ExternalSubmit
  <2>5. QED
    BY <2>3, <2>4
<1>25. CASE Crash
  <2>1. Ledger' = Ledger
    BY <1>25 DEF Crash, Ledger
  <2>2. \A m \in late' : m.tx \in excused'
    <3>1. \A q \in Req : pc[q] = "send" => txOf[q] \in excused'
      BY <1>25 DEF Crash
    <3>2. QED
      BY <1>25, <3>1 DEF Crash
  <2>3. \A q \in Req : ~Active(q)'
    BY <1>25 DEF Crash, InFlight
  <2>4. \A t \in Tx \ excused' : meta[t] = "absent" /\ t \notin excused
    BY <1>25 DEF Crash
  <2>5. QED
    BY <1>25, <2>1, <2>2, <2>3, <2>4 DEF Crash
<1>26. ASSUME NEW m \in late, LateArrival(m) PROVE OnceInv' /\ RelayedOnce' /\ DurableInv'
  <2>1. m.tx \in Tx /\ m.tx \in excused
    BY <1>0
  <2>2. CASE mempool' = Append(mempool, m.tx)
    <3>1. Ledger' = Append(Ledger, m.tx)
      BY <1>26, <1>0, <2>1, <2>2, AdmitLedger DEF LateArrival
    <3>2. \A t \in Tx : Occurs(t, Ledger)' <=> (Occurs(t, Ledger) \/ t = m.tx)
      <4>1. \A t \in Tx : Occurs(t, Append(Ledger, m.tx)) <=> (Occurs(t, Ledger) \/ t = m.tx)
        BY <1>a, <2>1
      <4>2. QED
        BY <3>1, <4>1
    <3>3. OnceInv' /\ DurableInv'
      BY <1>26, <2>1, <3>2, SMTT(30) DEF LateArrival
    <3>4. RelayedOnce'
      BY <1>26, <2>1, <3>1, <1>0, SMTT(30) DEF LateArrival
    <3>5. QED
      BY <3>3, <3>4
  <2>3. CASE mempool' = mempool
    <3>1. Ledger' = Ledger
      BY <1>26, <2>3 DEF LateArrival, Ledger
    <3>2. QED
      BY <1>26, <3>1 DEF LateArrival
  <2>4. QED
    BY <1>26, <2>2, <2>3 DEF LateArrival, Admit
<1>27. CASE UNCHANGED vars
  <2>1. Ledger' = Ledger
    BY <1>27 DEF vars, Ledger
  <2>2. QED
    BY <1>27, <2>1 DEF vars
<1>28. QED
  BY <1>1, <1>2, <1>3, <1>4, <1>5, <1>6, <1>7, <1>8, <1>9, <1>10, <1>11, <1>12, <1>13,
     <1>14, <1>15, <1>16, <1>17, <1>17a, <1>18, <1>19, <1>20, <1>21, <1>22, <1>23, <1>24, <1>25,
     <1>26, <1>27
  DEF Next, Task

-----------------------------------------------------------------------------
\* IInv is inductive and holds of every behaviour of the relay.
THEOREM RelayInvariant == Spec => []IInv
<1>1. Init => IInv
  <2>1. SUFFICES ASSUME Init PROVE IInv
    OBVIOUS
  <2>2. TypeOK
    BY <2>1, RelayAssumption DEF Init, TypeOK, PC, MetaState, DbState
  <2>3. InflightExact
    <3>1. InFlight = {}
      BY <2>1 DEF Init, InFlight
    <3>2. QED
      BY <2>1, <3>1, FS_EmptySet DEF Init, InflightExact
  <2>4. Ledger = <<>>
    BY <2>1 DEF Init, Ledger
  <2>5. GateInv /\ NonceInv /\ PlaceholderInv
    BY <2>1, RelayAssumption DEF Init, GateInv, NonceInv, PlaceholderInv, Holding, Numbered
  <2>6. OnceInv /\ RelayedOnce /\ DurableInv
    BY <2>1, <2>4 DEF Init, OnceInv, RelayedOnce, DurableInv, Occurs, Active, Waiting
  <2>7. QED
    BY <2>2, <2>3, <2>5, <2>6 DEF IInv, CoreInv
<1>2. IInv /\ [Next]_vars => IInv'
  BY CoreStep, InflightStep, OnceStep DEF IInv
<1>3. QED
  BY <1>1, <1>2, PTL DEF Spec

\* Every variable of the proxy and of the node keeps its type; in particular
\* inflight_submits, an AtomicU64, is never decremented below zero.
THEOREM TypeCorrect == Spec => []TypeOK
<1>1. IInv => TypeOK
  BY DEF IInv, CoreInv
<1>2. QED
  BY <1>1, RelayInvariant, PTL

\* The counter never leaves a hole in the operator's nonce sequence.
THEOREM CounterLeavesNoGap == Spec => []NoNonceGap
<1>1. IInv => NoNonceGap
  BY DEF IInv, CoreInv, NonceInv, NoNonceGap
<1>2. QED
  BY <1>1, RelayInvariant, PTL

\* The in-flight counter is exact on every path out of the submit task.
THEOREM InflightIsExact == Spec => []InflightExact
<1>1. IInv => InflightExact
  BY DEF IInv
<1>2. QED
  BY <1>1, RelayInvariant, PTL

\* No placeholder is left behind by the task that inserted it.
THEOREM PlaceholdersAreOwned == Spec => []NoOrphanPlaceholder
<1>1. IInv => NoOrphanPlaceholder
  BY DEF IInv, CoreInv, PlaceholderInv, NoOrphanPlaceholder, Active, InFlight
<1>2. QED
  BY <1>1, RelayInvariant, PTL

\* A transaction whose record was not lost is relayed at most once.
THEOREM RelayedAtMostOnce == Spec => []RelayedOnce
<1>1. IInv => RelayedOnce
  BY DEF IInv
<1>2. QED
  BY <1>1, RelayInvariant, PTL

\* A relayed transaction can be found again, in memory and in the store.
THEOREM AdmittedStaysKnown == Spec => []AdmittedIsKnown
<1>1. IInv => AdmittedIsKnown
  <2>1. SUFFICES ASSUME IInv, NEW t \in Tx \ excused, Occurs(t, Ledger), meta[t] # "relayed"
                 PROVE  \E r \in InFlight : txOf[r] = t
    BY DEF IInv, DurableInv, AdmittedIsKnown
  <2>2. meta[t] = "placeholder"
    BY <2>1 DEF IInv, CoreInv, OnceInv, TypeOK, MetaState
  <2>3. QED
    BY <2>1, <2>2 DEF IInv, CoreInv, PlaceholderInv, Active, InFlight
<1>2. QED
  BY <1>1, RelayInvariant, PTL

\* The reconciler lowers the counter only when no submit is under way.
THEOREM StepDownIsQuiet == Spec => NoStepDownUnderSubmit
<1> DEFINE Lowered == gate = Free /\ cache # None /\ cache' # None /\ cache' < cache
           Unsettled == \E r \in Req : pc[r] = "settle"
<1>1. IInv /\ [Next]_vars => (Lowered => ~Unsettled)
  <2>1. SUFFICES ASSUME IInv, [Next]_vars, Lowered, Unsettled PROVE FALSE
    OBVIOUS
  <2>2. gate \notin Req /\ cache \in Nat /\ inflight # 0
    <3>1. InFlight # {} /\ IsFiniteSet(InFlight)
      BY <2>1, RelayAssumption, FS_Subset DEF InFlight
    <3>2. QED
      BY <2>1, <3>1, RelayAssumption, FS_EmptySet DEF IInv, CoreInv, TypeOK, InflightExact
  <2>3. ~(cache < cache) /\ ~(cache + 1 < cache)
    BY <2>1, <2>2
  <2>4. ~ReconcileApply
    BY <2>1, <2>2, <2>3, RelayAssumption DEF ReconcileApply, Reconciled, IInv, CoreInv, TypeOK
  <2>5. \A r \in Req : ~Reserve(r) /\ ~AnswerKnown(r) /\ ~Task(r)
    <3>1. \A r \in Req : pc[r] \notin Holding
      BY <2>1, <2>2 DEF IInv, CoreInv, GateInv
    <3>2. \A r \in Req : ~(\/ Goto(r, "fetch", "send") \/ Goto(r, "refetch", "send")
                          \/ Goto(r, "admitted", "settle"))
      BY <3>1 DEF Goto, Holding
    <3>3. \A r \in Req : \A n : \A from \in Holding : ~Abandon(r, from, n)
      BY <3>1 DEF Abandon, Goto, Holding
    <3>4. QED
      BY <2>1, <2>3, <3>2, <3>3 DEF Holding, Task, Reserve, AnswerKnown, TakeGate, FetchOk, FetchFails,
           SubmitAdmitted, SubmitBadNonce, SubmitBadNonceAgain, SubmitRefused, SubmitTimesOut,
           AnswerLost, RefetchOk, RefetchFails, Advance, Settle, Finish
  <2>6. ~Crash
    BY <2>1 DEF Crash
  <2>7. cache' = cache
    BY <2>1, <2>4, <2>5, <2>6
       DEF Next, ReconcileFetch, QuietElapses, UpsertTx, UpsertFails, SettleReceipt, Commit, DropMempool,
           ExternalSubmit, LateArrival, vars, proxyVars
  <2>8. QED
    BY <2>1, <2>3, <2>7
<1>2. IInv /\ [Next]_vars
      => [Lowered => \A r \in Req : pc[r] # "settle"]_vars
  BY <1>1
<1>3. QED
  BY <1>2, RelayInvariant, PTL DEF Spec, NoStepDownUnderSubmit
=============================================================================
