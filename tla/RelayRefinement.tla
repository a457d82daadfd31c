---------------------------- MODULE RelayRefinement ----------------------------
(***************************************************************************)
(* Relay implements OnceLedger, for every set of calls and transactions    *)
(* and every number of disturbances.  The inductive invariant of           *)
(* RelayProofs gives the two facts the step simulation needs: a task whose *)
(* submit is still to come has its transaction in the dedupe and not on    *)
(* the ledger, and a late arrival belongs to a transaction that is excused.*)
(***************************************************************************)
EXTENDS RelayProofs

\* The hashes the dedupe answers, the abstract specification's "known".
Known == {t \in Tx : AlreadyKnown(t)}

\* The abstract state is a function of what these steps leave alone.
LEMMA SameAbstractState ==
  ASSUME Ledger' = Ledger, Known' = Known, excused' = excused
  PROVE  UNCHANGED Promise!vars
BY DEF Known, Promise!vars

\* A submit that ends in an error gives its transaction up, or leaves the
\* record of one that is settled already.
LEMMA AbandonRefines ==
  ASSUME IInv, NEW r \in Req, NEW from \in Holding, NEW n, Abandon(r, from, n),
         Ledger' = Ledger, excused' \in {excused, excused \cup {txOf[r]}},
         Occurs(txOf[r], Ledger) => txOf[r] \in excused'
  PROVE  [Promise!Next]_(Promise!vars)
<1> DEFINE t == txOf[r]
<1>1. t \in Tx /\ db' = db /\ meta' = [meta EXCEPT ![t] = "absent"]
  BY DEF Abandon, IInv, CoreInv, TypeOK
<1>2. CASE db[t] = "settled"
  <2>1. Known' = Known
    BY <1>1, <1>2 DEF Known, AlreadyKnown, IInv, CoreInv, TypeOK
  <2>2. CASE excused' = excused
    BY <2>1, <2>2, SameAbstractState
  <2>3. CASE excused' = excused \cup {t}
    <3>1. {t} \in SUBSET Tx /\ Known' \subseteq Known /\ Known \ Known' \subseteq {t}
      BY <1>1, <2>1
    <3>2. Promise!Lose
      BY <2>3, <3>1 DEF Promise!Lose, Known
    <3>3. QED
      BY <3>2 DEF Promise!Next
  <2>4. QED
    BY <2>2, <2>3
<1>3. CASE db[t] # "settled"
  <2>1. Known' = Known \ {t}
    BY <1>1, <1>3 DEF Known, AlreadyKnown, IInv, CoreInv, TypeOK
  <2>2. Promise!GiveUp
    BY <1>1, <2>1 DEF Promise!GiveUp, Promise!On, Known, Occurs
  <2>3. QED
    BY <2>2 DEF Promise!Next
<1>4. QED
  BY <1>2, <1>3

\* Every step of a submit task.
LEMMA TaskRefines ==
  ASSUME IInv, NEW r \in Req, Task(r)
  PROVE  [Promise!Next]_(Promise!vars)
<1> DEFINE t == txOf[r]
<1> USE DEF IInv, CoreInv
<1>1. t \in Tx
  BY DEF TypeOK
<1>2. CASE TakeGate(r) \/ FetchOk(r) \/ SubmitBadNonce(r) \/ RefetchOk(r) \/ Advance(r) \/ Finish(r)
  BY <1>2, SameAbstractState
     DEF TakeGate, FetchOk, SubmitBadNonce, RefetchOk, Advance, Finish, nodeVars, histVars,
         Known, AlreadyKnown, Ledger
<1>3. CASE Settle(r)
  BY <1>3, SameAbstractState
     DEF Settle, nodeVars, histVars, Known, AlreadyKnown, Ledger, TypeOK
<1>4. CASE SubmitAdmitted(r)
  <2>1. Ledger' = Append(Ledger, t)
    BY <1>1, <1>4, AdmitLedger DEF SubmitAdmitted, Admit
  <2>2. pc[r] \in Waiting /\ Active(r)
    BY <1>4 DEF SubmitAdmitted, Goto, Waiting, Active
  <2>3. (Occurs(t, Ledger) => t \in excused) /\ t \in Known \cup excused
    BY <1>1, <2>2 DEF OnceInv, Known, AlreadyKnown
  <2>4. Known' = Known /\ excused' = excused
    BY <1>4 DEF SubmitAdmitted, Known, AlreadyKnown
  <2>5. Promise!Relay
    BY <1>1, <2>1, <2>3, <2>4 DEF Promise!Relay, Promise!On, Occurs, Known
  <2>6. QED
    BY <2>5 DEF Promise!Next
<1>5. CASE FetchFails(r) \/ RefetchFails(r) \/ SubmitBadNonceAgain(r) \/ SubmitRefused(r)
  <2>1. PICK from \in {"fetch", "refetch", "send"} : \E n : Abandon(r, from, n)
    BY <1>5 DEF FetchFails, RefetchFails, SubmitBadNonceAgain, SubmitRefused
  <2>2. Ledger' = Ledger /\ excused' = excused
    BY <1>5 DEF FetchFails, RefetchFails, SubmitBadNonceAgain, SubmitRefused, nodeVars, histVars, Ledger
  <2>3. Occurs(t, Ledger) => t \in excused
    BY <1>1, <2>1 DEF Abandon, Goto, OnceInv, Waiting
  <2>4. QED
    BY <2>1, <2>2, <2>3, AbandonRefines DEF Holding
<1>6. CASE SubmitTimesOut(r) \/ AnswerLost(r)
  <2>1. PICK from \in {"send", "admitted"} : \E n : Abandon(r, from, n)
    BY <1>6 DEF SubmitTimesOut, AnswerLost
  <2>2. Ledger' = Ledger /\ excused' = excused \cup {t}
    BY <1>6 DEF SubmitTimesOut, AnswerLost, nodeVars, Ledger
  <2>3. QED
    BY <2>1, <2>2, AbandonRefines DEF Holding
<1>7. QED
  BY <1>2, <1>3, <1>4, <1>5, <1>6 DEF Task

\* Every step of the relay is a step of OnceLedger or leaves its state alone.
LEMMA StepRefines ==
  ASSUME IInv, [Next]_vars
  PROVE  [Promise!Next]_(Promise!vars)
<1> USE DEF IInv, CoreInv
<1>1. ASSUME NEW r \in Req, Reserve(r) PROVE Promise!Next
  <2> DEFINE t == txOf[r]
  <2>1. PICK gone \in SUBSET (Evictable \ {t}) :
          /\ meta' = [u \in Tx |-> IF u = t THEN "placeholder"
                                   ELSE IF u \in gone THEN "absent" ELSE meta[u]]
          /\ excused' = excused \cup {u \in gone : meta[u] # "absent"}
    BY <1>1 DEF Reserve
  <2>2. t \in Tx \ Known /\ Ledger' = Ledger /\ db' = db
    BY <1>1 DEF Reserve, Known, nodeVars, Ledger, TypeOK
  <2> DEFINE left == {u \in gone : meta[u] # "absent"}
  <2>3. left \in SUBSET (Tx \ {t})
    BY RelayAssumption
  <2>4. t \in Known' /\ Known' \subseteq Known \cup {t} /\ Known \ Known' \subseteq left
    BY <2>1, <2>2 DEF Known, AlreadyKnown, TypeOK
  <2>5. Promise!Take
    BY <2>1, <2>2, <2>3, <2>4 DEF Promise!Take, Known
  <2>6. QED
    BY <2>5 DEF Promise!Next
<1>2. CASE \E r \in Req : AnswerKnown(r)
  BY <1>2, SameAbstractState DEF AnswerKnown, nodeVars, histVars, Known, AlreadyKnown, Ledger
<1>3. CASE \E r \in Req : Task(r)
  BY <1>3, TaskRefines
<1>4. CASE ReconcileFetch \/ ReconcileApply \/ QuietElapses
  BY <1>4, SameAbstractState
     DEF ReconcileFetch, ReconcileApply, QuietElapses, nodeVars, histVars, Known, AlreadyKnown, Ledger
<1>5. CASE \E t \in Tx : UpsertTx(t)
  BY <1>5, SameAbstractState DEF UpsertTx, nodeVars, histVars, Known, AlreadyKnown, Ledger, TypeOK
<1>6. ASSUME NEW t \in Tx, UpsertFails(t) PROVE Promise!Next
  <2>1. Ledger' = Ledger /\ Known' = Known /\ excused' = excused \cup {t}
    BY <1>6 DEF UpsertFails, nodeVars, Known, AlreadyKnown, Ledger
  <2>2. Promise!Lose
    BY <2>1 DEF Promise!Lose, Known
  <2>3. QED
    BY <2>2 DEF Promise!Next
<1>7. ASSUME NEW t \in Tx, SettleReceipt(t) PROVE Promise!Next
  <2>1. Ledger' = Ledger /\ excused' = excused /\ Known' = Known \cup {t}
    BY <1>7 DEF SettleReceipt, nodeVars, histVars, proxyVars, Known, AlreadyKnown, Ledger, TypeOK
  <2>2. Occurs(t, Ledger)
    BY <1>7, SMTT(30) DEF SettleReceipt, Occurs, Ledger, TypeOK
  <2>3. Promise!Learn
    BY <2>1, <2>2 DEF Promise!Learn, Promise!On, Occurs, Known
  <2>4. QED
    BY <2>3 DEF Promise!Next
<1>8. CASE Commit
  <2>1. Ledger' = Ledger
    BY <1>8, CommitLedger DEF Commit
  <2>2. QED
    BY <1>8, <2>1, SameAbstractState DEF Commit, proxyVars, histVars, Known, AlreadyKnown
<1>9. CASE DropMempool
  <2>1. PICK k \in 1..Len(mempool) : mempool' = SubSeq(mempool, 1, k - 1)
    BY <1>9 DEF DropMempool
  <2>2. Ledger' = SubSeq(Ledger, 1, Len(chain) + k - 1)
    BY <1>9, <2>1, DropLedger DEF DropMempool
  <2>3. Len(chain) + k - 1 \in 0..Len(Ledger)
    BY <2>1 DEF Ledger, TypeOK
  <2>4. Known' = Known /\ excused' = excused
    BY <1>9 DEF DropMempool, proxyVars, histVars, Known, AlreadyKnown
  <2>5. Promise!Forget
    BY <2>2, <2>3, <2>4 DEF Promise!Forget, Known
  <2>6. QED
    BY <2>5 DEF Promise!Next
<1>10. CASE ExternalSubmit
  <2>1. Ledger' = Append(Ledger, Foreign)
    BY <1>10, AdmitLedger DEF ExternalSubmit
  <2>2. Promise!Intrude
    BY <1>10, <2>1 DEF ExternalSubmit, proxyVars, Known, AlreadyKnown, Promise!Intrude
  <2>3. QED
    BY <2>2 DEF Promise!Next
<1>11. CASE Crash
  <2>1. Ledger' = Ledger /\ Known' = {t \in Tx : db[t] = "settled"}
    BY <1>11 DEF Crash, Known, AlreadyKnown, Ledger
  <2>2. Known' \subseteq Known /\ Known \ Known' \subseteq {t \in Tx : meta[t] # "absent"}
    BY <2>1 DEF Known, AlreadyKnown
  <2>3. Promise!Lose
    BY <1>11, <2>1, <2>2 DEF Crash, Promise!Lose, Known
  <2>4. QED
    BY <2>3 DEF Promise!Next
<1>12. ASSUME NEW m \in late, LateArrival(m) PROVE [Promise!Next]_(Promise!vars)
  <2>1. m.tx \in Tx /\ m.tx \in excused
    BY DEF TypeOK, OnceInv
  <2>2. Known' = Known /\ excused' = excused
    BY <1>12 DEF LateArrival, proxyVars, Known, AlreadyKnown
  <2>3. CASE m.nonce = NodeNext
    <3>1. Ledger' = Append(Ledger, m.tx)
      BY <1>12, <2>1, <2>3, AdmitLedger DEF LateArrival, Admit
    <3>2. Promise!Relay
      BY <2>1, <2>2, <3>1 DEF Promise!Relay, Promise!On, Known
    <3>3. QED
      BY <3>2 DEF Promise!Next
  <2>4. CASE m.nonce # NodeNext
    BY <1>12, <2>2, <2>4, SameAbstractState DEF LateArrival, Ledger
  <2>5. QED
    BY <2>3, <2>4
<1>13. CASE UNCHANGED vars
  BY <1>13, SameAbstractState DEF vars, proxyVars, nodeVars, histVars, Known, AlreadyKnown, Ledger
<1>14. QED
  BY <1>1, <1>2, <1>3, <1>4, <1>5, <1>6, <1>7, <1>8, <1>9, <1>10, <1>11, <1>12, <1>13 DEF Next

-----------------------------------------------------------------------------
\* The relay keeps the promise of OnceLedger: eth_sendRawTransaction, the submit
\* task, the reconciler and a restart put each transaction whose record is
\* intact on the operator's ledger once, and never forget one that is there.
THEOREM RelayKeepsPromise == Spec => ImplementsOnceLedger
<1>1. Init => Promise!Init
  BY DEF Init, Promise!Init, Ledger, AlreadyKnown
<1>2. IInv /\ [Next]_vars => [Promise!Next]_(Promise!vars)
  BY StepRefines
<1>3. QED
  BY <1>1, <1>2, RelayInvariant, PTL DEF Spec, ImplementsOnceLedger, Promise!Spec
================================================================================
