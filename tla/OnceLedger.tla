------------------------------ MODULE OnceLedger ------------------------------
(***************************************************************************)
(* What the relay promises, without gates, counters, tasks or timeouts: a  *)
(* ledger of operator transactions on which a transaction whose record is  *)
(* intact occurs once, and a set of hashes that are answered as known,     *)
(* from which nothing disappears that is on the ledger.  A record may be   *)
(* lost; from then on nothing is promised about its transaction.           *)
(***************************************************************************)
EXTENDS Naturals, Sequences

CONSTANTS
  Tx,       \* the transactions clients may send
  Foreign   \* an entry of the ledger that is not the relay's

VARIABLES
  ledger,   \* operator transactions the node holds, in nonce order
  known,    \* hashes that are answered without relaying anything
  lost      \* transactions whose record was lost

vars == <<ledger, known, lost>>

On(t, s) == \E i \in DOMAIN s : s[i] = t

Init == ledger = <<>> /\ known = {} /\ lost = {}

\* A client's transaction is taken on; records of others may get lost by it.
Take ==
  \E t \in Tx \ known : \E gone \in SUBSET (Tx \ {t}) :
    /\ known' \subseteq known \cup {t}
    /\ t \in known' /\ known \ known' \subseteq gone
    /\ lost' = lost \cup gone
    /\ UNCHANGED ledger

\* It is put on the ledger: once, unless its record was lost.
Relay ==
  \E t \in Tx :
    /\ On(t, ledger) => t \in lost
    /\ t \in known \cup lost
    /\ ledger' = Append(ledger, t)
    /\ UNCHANGED <<known, lost>>

\* The client is told that it failed, and may send it again.
GiveUp ==
  \E t \in Tx :
    /\ known' = known \ {t}
    /\ lost' \in {lost, lost \cup {t}}
    /\ On(t, ledger) => t \in lost'
    /\ UNCHANGED ledger

\* Its receipt is stored.
Learn ==
  \E t \in Tx :
    /\ On(t, ledger)
    /\ known' = known \cup {t}
    /\ UNCHANGED <<ledger, lost>>

\* Records are lost: a restart, a failed write.
Lose ==
  \E gone \in SUBSET Tx :
    /\ lost' = lost \cup gone
    /\ known' \subseteq known
    /\ known \ known' \subseteq gone
    /\ UNCHANGED ledger

\* The operator account is used by somebody else.
Intrude ==
  /\ ledger' = Append(ledger, Foreign)
  /\ UNCHANGED <<known, lost>>

\* The node forgets the end of its mempool.
Forget ==
  /\ \E n \in 0..Len(ledger) : ledger' = SubSeq(ledger, 1, n)
  /\ UNCHANGED <<known, lost>>

Next == Take \/ Relay \/ GiveUp \/ Learn \/ Lose \/ Intrude \/ Forget

Spec == Init /\ [][Next]_vars
===============================================================================
