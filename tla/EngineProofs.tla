---------------------------- MODULE EngineProofs ----------------------------
(***************************************************************************)
(* Theorems about Engine, for any transactions, addresses, code hashes and *)
(* bounds.  The argument follows a transaction through its session: what   *)
(* commit has written is there, what it has not written is as it was, and  *)
(* where a value of the session comes from.                                *)
(***************************************************************************)
EXTENDS Engine, FiniteSetTheorems, SequenceTheorems, TLAPS

-----------------------------------------------------------------------------
(* Types *)

\* The failed reads of an execution can be counted; none failed if the count is 0.
LEMMA FaultsCount ==
  ASSUME NEW x \in Raw, NEW loaded \in SUBSET Address, NEW lost \in ReadFaults(x, loaded)
  PROVE  /\ Faults(lost) \in Nat
         /\ Faults(lost) = 0 => lost.check = {} /\ lost.revm = {}
         /\ lost.check \subseteq {Sender[x]} /\ lost.revm \subseteq loaded
         /\ reads + Faults(lost) <= MaxReadFaults
<1>1. /\ lost.check \subseteq {Sender[x]} /\ lost.revm \subseteq loaded
      /\ reads + Faults(lost) <= MaxReadFaults
  BY DEF ReadFaults
<1>2. IsFiniteSet({Sender[x]}) /\ IsFiniteSet(Address)
  BY FS_Singleton, EngineAssumption DEF Address
<1>3. IsFiniteSet(lost.check) /\ IsFiniteSet(lost.revm)
  <2>1. lost.revm \subseteq Address
    BY <1>1
  <2>2. QED
    BY <1>1, <1>2, <2>1, FS_Subset
<1>4. Cardinality(lost.check) \in Nat /\ Cardinality(lost.revm) \in Nat
  BY <1>3, FS_CardinalityType
<1>5. /\ Cardinality(lost.check) = 0 => lost.check = {}
      /\ Cardinality(lost.revm) = 0 => lost.revm = {}
  BY <1>3, FS_EmptySet
<1>6. QED
  BY <1>1, <1>4, <1>5 DEF Faults

LEMMA BasicType ==
  ASSUME TypeOK, NEW a \in Address, NEW lost
  PROVE  Basic(a, lost) \in Account
<1>1. Empty \in Account
  BY DEF Empty, Account
<1>2. store.account[a] \in Account \cup {None}
  BY DEF TypeOK, Store
<1>3. QED
  BY <1>1, <1>2 DEF Basic

LEMMA SenderChangeType ==
  ASSUME TypeOK, NEW x \in Raw, NEW lost
  PROVE  /\ SenderChange(x, lost) \in Change
         /\ SenderChange(x, lost).addr = Sender[x]
         /\ SenderChange(x, lost).dead = FALSE
         /\ SenderChange(x, lost).slot = None
         /\ SenderChange(x, lost).info.nonce = Basic(Sender[x], lost).nonce + 1
<1> DEFINE info == Basic(Sender[x], lost)
<1>1. Sender[x] \in Address
  BY EngineAssumption DEF Address
<1>2. info \in Account
  BY <1>1, BasicType
<1> HIDE DEF info
<1>3. [info EXCEPT !.nonce = @ + 1] \in Account /\ [info EXCEPT !.nonce = @ + 1].nonce = info.nonce + 1
  BY <1>2 DEF Account
<1> DEFINE after == [info EXCEPT !.nonce = @ + 1]
<1>4. SenderChange(x, lost) = [addr |-> Sender[x], dead |-> FALSE, info |-> after, slot |-> None]
  BY DEF SenderChange, info
<1>5. after \in Account /\ after.nonce = Basic(Sender[x], lost).nonce + 1
  BY <1>3 DEF info
<1> HIDE DEF after
<1>6. QED
  BY <1>1, <1>4, <1>5 DEF Change

LEMMA AsReadType ==
  ASSUME TypeOK, NEW a \in Address, NEW lost
  PROVE  /\ AsRead(a, lost) \in Change
         /\ AsRead(a, lost).addr = a /\ AsRead(a, lost).dead = FALSE
         /\ AsRead(a, lost).info = Basic(a, lost) /\ AsRead(a, lost).slot = None
<1>1. Basic(a, lost) \in Account
  BY BasicType
<1>2. QED
  BY <1>1 DEF AsRead, Change

\* What happens to a touched account: it is written back as it was read, or it is
\* a contract that was run, or one that was created where there was none.
Run(ch, info) ==
  /\ info # Empty => ~ch.dead /\ ch.info = info
  /\ info = Empty => ch.info # Empty

LEMMA TouchCases ==
  ASSUME TypeOK, NEW a \in Address, NEW lost, NEW ch \in Touch(a, lost)
  PROVE  /\ ch \in Change /\ ch.addr = a
         /\ ch # AsRead(a, lost) => a \in Contract /\ Run(ch, Basic(a, lost))
<1>1. Basic(a, lost) \in Account /\ Empty \in Account
  BY BasicType DEF Empty, Account
<1>2. CASE ch = AsRead(a, lost)
  BY <1>2, AsReadType
<1>3. CASE ch # AsRead(a, lost)
  <2>1. a \in Contract /\ ch \in ContractChanges(a, lost)
    BY <1>3 DEF Touch
  <2> DEFINE created == [nonce : {1}, hash : Hash \cup {NoCode}]
  <2>2. created \subseteq Account /\ Empty \notin created
    BY DEF Account, Empty
  <2>3. CASE Basic(a, lost) = Empty
    <3>1. ch \in [addr : {a}, dead : BOOLEAN, info : created, slot : Value \cup {None}]
      BY <1>3, <2>1, <2>3 DEF ContractChanges
    <3> HIDE DEF created
    <3>2. QED
      BY <2>1, <2>2, <2>3, <3>1 DEF Change, Run
  <2>4. CASE Basic(a, lost) # Empty
    <3>1. ch \in [addr : {a}, dead : {FALSE}, info : {Basic(a, lost)}, slot : Value \cup {None}]
      BY <1>3, <2>1, <2>4 DEF ContractChanges
    <3>2. QED
      BY <1>1, <2>1, <2>4, <3>1 DEF Change, Run
  <2>5. QED
    BY <2>3, <2>4
<1>4. QED
  BY <1>2, <1>3

LEMMA WritesOfType ==
  ASSUME NEW ch \in Change, NEW w \in WritesOf(ch)
  PROVE  /\ w \in Write /\ w.of = ch
         /\ w.kind = "remove" <=> ch.dead
         /\ w.kind = "slot" => ch.slot # None
         /\ w.kind = "code" => ch.info.hash # NoCode
<1>1. CASE ch.dead
  BY <1>1 DEF WritesOf, Write
<1>2. CASE ~ch.dead
  <2>1. PICK k \in {"account"} \cup (IF ch.info.hash # NoCode THEN {"code"} ELSE {})
                     \cup (IF ch.slot # None THEN {"slot"} ELSE {}) :
          w = [kind |-> k, of |-> ch]
    BY <1>2 DEF WritesOf
  <2>2. /\ k \in {"account", "code", "slot"}
        /\ k = "slot" => ch.slot # None
        /\ k = "code" => ch.info.hash # NoCode
    BY <2>1
  <2>3. QED
    BY <1>2, <2>1, <2>2 DEF Write
<1>3. QED
  BY <1>1, <1>2

\* One write, by the part of the store it changes.
LEMMA WrittenParts ==
  ASSUME NEW s \in Store, NEW w \in Write,
         w.kind = "slot" => w.of.slot # None,
         w.kind = "code" => w.of.info.hash # NoCode
  PROVE  LET t == Written(s, w)
         IN /\ t \in Store
            /\ t.account = CASE w.kind = "remove"  -> [s.account EXCEPT ![w.of.addr] = None]
                             [] w.kind = "account" -> [s.account EXCEPT ![w.of.addr] = w.of.info]
                             [] OTHER              -> s.account
            /\ t.code = IF w.kind = "code" THEN s.code \cup {w.of.info.hash} ELSE s.code
            /\ t.slot = IF w.kind = "slot" THEN [s.slot EXCEPT ![w.of.addr] = w.of.slot] ELSE s.slot
<1>1. /\ w.of.info \in Account /\ (w.kind = "code" => w.of.info.hash \in Hash)
      /\ w.kind = "slot" => w.of.slot \in Value
  BY DEF Write, Change, Account
<1>2. /\ s.account \in [Address -> Account \cup {None}] /\ s.code \in SUBSET Hash
      /\ s.slot \in [Contract -> Value]
      /\ s = [account |-> s.account, code |-> s.code, slot |-> s.slot]
  BY DEF Store
<1>3. CASE w.kind = "remove"
  <2> DEFINE f == [s.account EXCEPT ![w.of.addr] = None]
  <2>1. f \in [Address -> Account \cup {None}]
    BY <1>2
  <2>2. Written(s, w) = [account |-> f, code |-> s.code, slot |-> s.slot]
    BY <1>2, <1>3 DEF Written
  <2> HIDE DEF f
  <2>3. QED
    BY <1>2, <1>3, <2>1, <2>2 DEF Store, f
<1>4. CASE w.kind = "account"
  <2> DEFINE f == [s.account EXCEPT ![w.of.addr] = w.of.info]
  <2>1. f \in [Address -> Account \cup {None}]
    BY <1>1, <1>2
  <2>2. Written(s, w) = [account |-> f, code |-> s.code, slot |-> s.slot]
    BY <1>2, <1>4 DEF Written
  <2> HIDE DEF f
  <2>3. QED
    BY <1>2, <1>4, <2>1, <2>2 DEF Store, f
<1>5. CASE w.kind = "code"
  <2> DEFINE f == s.code \cup {w.of.info.hash}
  <2>1. f \in SUBSET Hash
    BY <1>1, <1>2, <1>5
  <2>2. Written(s, w) = [account |-> s.account, code |-> f, slot |-> s.slot]
    BY <1>2, <1>5 DEF Written
  <2> HIDE DEF f
  <2>3. QED
    BY <1>2, <1>5, <2>1, <2>2 DEF Store, f
<1>6. CASE w.kind = "slot"
  <2> DEFINE f == [s.slot EXCEPT ![w.of.addr] = w.of.slot]
  <2>1. f \in [Contract -> Value]
    BY <1>1, <1>2, <1>6
  <2>2. Written(s, w) = [account |-> s.account, code |-> s.code, slot |-> f]
    BY <1>2, <1>6 DEF Written
  <2> HIDE DEF f
  <2>3. QED
    BY <1>2, <1>6, <2>1, <2>2 DEF Store, f
<1>7. QED
  BY <1>3, <1>4, <1>5, <1>6 DEF Write

\* What commit has still to write is what the changes call for.
TodoOfChanges == \A w \in todo : w.of \in changes /\ w \in WritesOf(w.of)

\* The changes an execution hands to commit.
Handed(x, touched, lost, f) ==
  /\ Acceptable(x, lost.check) /\ RevmAccepts(x, lost.revm)
  /\ reads' = reads + Faults(lost) /\ misread' = Misread(x, lost)
  /\ outcome' \in {"failure", "success"} /\ logs' \in 0..MaxLogs
  /\ \A a \in touched : f[a] \in Touch(a, lost.revm)
  /\ changes' = {SenderChange(x, lost.revm)} \cup {f[a] : a \in touched}

LEMMA ExecuteChanges ==
  ASSUME TypeOK, NEW x \in Raw, Execute(x)
  PROVE  \E touched \in SUBSET (Address \ {Sender[x]}) :
           \E lost \in ReadFaults(x, touched \cup {Sender[x]}) : \E f : Handed(x, touched, lost, f)
<1>1. PICK touched \in SUBSET (Address \ {Sender[x]}) :
        \E lost \in ReadFaults(x, touched \cup {Sender[x]}) :
          /\ Acceptable(x, lost.check) /\ RevmAccepts(x, lost.revm)
          /\ reads' = reads + Faults(lost)
          /\ misread' = Misread(x, lost)
          /\ \/ /\ outcome' = "failure"
                /\ changes' = {SenderChange(x, lost.revm)} \cup {AsRead(a, lost.revm) : a \in touched}
                /\ logs' = 0
             \/ /\ outcome' = "success"
                /\ \E f \in Touches(touched, lost.revm) :
                     changes' = {SenderChange(x, lost.revm)} \cup {f[a] : a \in touched}
                /\ logs' \in 0..MaxLogs
  BY Zenon DEF Execute
<1>2. PICK lost \in ReadFaults(x, touched \cup {Sender[x]}) :
          /\ Acceptable(x, lost.check) /\ RevmAccepts(x, lost.revm)
          /\ reads' = reads + Faults(lost)
          /\ misread' = Misread(x, lost)
          /\ \/ /\ outcome' = "failure"
                /\ changes' = {SenderChange(x, lost.revm)} \cup {AsRead(a, lost.revm) : a \in touched}
                /\ logs' = 0
             \/ /\ outcome' = "success"
                /\ \E f \in Touches(touched, lost.revm) :
                     changes' = {SenderChange(x, lost.revm)} \cup {f[a] : a \in touched}
                /\ logs' \in 0..MaxLogs
  BY <1>1, Zenon
<1>3. SUFFICES \E f : Handed(x, touched, lost, f)
  BY Zenon
<1>4. CASE outcome' = "success"
  <2>1. PICK f \in Touches(touched, lost.revm) :
          changes' = {SenderChange(x, lost.revm)} \cup {f[a] : a \in touched}
    BY <1>2, <1>4
  <2>2. \A a \in touched : f[a] \in Touch(a, lost.revm)
    BY DEF Touches
  <2>3. logs' \in 0..MaxLogs
    BY <1>2, <1>4
  <2>4. Handed(x, touched, lost, f)
    BY <1>2, <1>4, <2>1, <2>2, <2>3 DEF Handed
  <2>5. QED
    BY <2>4
<1>5. CASE outcome' = "failure"
  <2> DEFINE f == [a \in touched |-> AsRead(a, lost.revm)]
  <2>1. \A a \in touched : f[a] = AsRead(a, lost.revm)
    OBVIOUS
  <2>2. \A a \in touched : AsRead(a, lost.revm) \in Touch(a, lost.revm)
    BY DEF Touch, ContractChanges
  <2>3. changes' = {SenderChange(x, lost.revm)} \cup {AsRead(a, lost.revm) : a \in touched} /\ logs' = 0
    BY <1>2, <1>5
  <2>4. logs' \in 0..MaxLogs
    BY <2>3, EngineAssumption
  <2>5. changes' = {SenderChange(x, lost.revm)} \cup {f[a] : a \in touched}
    BY <2>1, <2>3
  <2> HIDE DEF f
  <2>6. Handed(x, touched, lost, f)
    BY <1>2, <1>5, <2>1, <2>2, <2>4, <2>5 DEF Handed
  <2>7. QED
    BY <2>6
<1>6. QED
  BY <1>2, <1>4, <1>5

\* Each of them is the sender's or that of a touched account.
LEMMA HandedCases ==
  ASSUME TypeOK, NEW x \in Raw, NEW touched \in SUBSET (Address \ {Sender[x]}),
         NEW lost, NEW f, Handed(x, touched, lost, f), NEW ch \in changes'
  PROVE  /\ ch \in Change
         /\ \/ ch = SenderChange(x, lost.revm) /\ ch.addr = Sender[x]
            \/ /\ ch.addr \in touched /\ ch.addr # Sender[x]
               /\ ch = f[ch.addr] /\ ch \in Touch(ch.addr, lost.revm)
<1>1. CASE ch = SenderChange(x, lost.revm)
  <2>1. ch \in Change
    BY <1>1, SenderChangeType, ZenonT(30)
  <2>2. ch.addr = Sender[x]
    BY <1>1, SenderChangeType, ZenonT(30)
  <2>3. QED
    BY <1>1, <2>1, <2>2
<1>2. CASE ch # SenderChange(x, lost.revm)
  <2>1. PICK a \in touched : ch = f[a]
    BY <1>2 DEF Handed
  <2>2. ch \in Touch(a, lost.revm) /\ a \in Address /\ a # Sender[x]
    BY <2>1 DEF Handed
  <2>3. ch \in Change /\ ch.addr = a
    BY <2>2, TouchCases
  <2>4. QED
    BY <2>1, <2>2, <2>3
<1>3. QED
  BY <1>1, <1>2

LEMMA TypeInit == Init => TypeOK /\ TodoOfChanges
<1> SUFFICES ASSUME Init PROVE TypeOK /\ TodoOfChanges
  OBVIOUS
<1>1. store.account \in [Address -> Account \cup {None}] /\ store.code \in SUBSET Hash
      /\ store.slot \in [Contract -> Value]
  BY DEF Init, Value
<1>2. store \in Store
  BY <1>1 DEF Init, Store
<1>3. QED
  BY <1>2, EngineAssumption DEF Init, TypeOK, TodoOfChanges, Outcome

LEMMA TypeNext == TypeOK /\ TodoOfChanges /\ [Next]_vars => (TypeOK /\ TodoOfChanges)'
<1> SUFFICES ASSUME TypeOK, TodoOfChanges, [Next]_vars PROVE (TypeOK /\ TodoOfChanges)'
  OBVIOUS
<1> USE DEF Outcome
<1>1. ASSUME NEW x \in Raw, Reject(x) PROVE (TypeOK /\ TodoOfChanges)'
  <2>1. /\ store' = store /\ session' = store /\ receipts' = receipts
        /\ reads' = reads /\ writes' = writes /\ raw' = x /\ events' = <<>>
        /\ pc' = "result" /\ outcome' = "rejected"
        /\ changes' = {} /\ misread' = {} /\ todo' = {} /\ logs' = 0
    BY <1>1 DEF Reject, Start
  <2>2. QED
    BY <2>1, EngineAssumption DEF TypeOK, TodoOfChanges
<1>2. ASSUME NEW x \in Raw, Execute(x) PROVE (TypeOK /\ TodoOfChanges)'
  <2>1. /\ store' = store /\ session' = store /\ receipts' = receipts /\ writes' = writes
        /\ raw' = x /\ events' = <<>> /\ pc' = "commit"
        /\ todo' = UNION {WritesOf(ch) : ch \in changes'}
    BY <1>2 DEF Execute, Start
  <2>2. PICK touched \in SUBSET (Address \ {Sender[x]}) :
          \E lost \in ReadFaults(x, touched \cup {Sender[x]}) : \E f : Handed(x, touched, lost, f)
    BY <1>2, ExecuteChanges
  <2>a. PICK lost \in ReadFaults(x, touched \cup {Sender[x]}) : \E f : Handed(x, touched, lost, f)
    BY <2>2
  <2>b. PICK f : Handed(x, touched, lost, f)
    BY <2>a
  <2>c. touched \cup {Sender[x]} \in SUBSET Address
    BY EngineAssumption DEF Address
  <2>3. reads' \in 0..MaxReadFaults /\ misread' \in SUBSET Address
    <3>1. reads + Faults(lost) <= MaxReadFaults /\ Faults(lost) \in Nat /\ lost.revm \subseteq Address
      BY <2>c, FaultsCount
    <3>2. QED
      BY <2>b, <3>1 DEF TypeOK, Handed, Misread
  <2>4. changes' \in SUBSET Change
    BY <2>b, HandedCases
  <2>5. ASSUME NEW w \in todo' PROVE w \in Write /\ w.of \in changes' /\ w \in WritesOf(w.of)
    <3>1. PICK ch \in changes' : w \in WritesOf(ch)
      BY <2>1
    <3>2. w \in Write /\ w.of = ch
      BY <2>4, <3>1, WritesOfType
    <3>3. QED
      BY <3>1, <3>2
  <2>6. logs' \in 0..MaxLogs /\ outcome' \in Outcome
    BY <2>b DEF Handed
  <2>7. QED
    BY <2>1, <2>3, <2>4, <2>5, <2>6 DEF TypeOK, TodoOfChanges
<1>3. CASE CommitWrite
  <2>1. PICK w \in todo : session' = Written(session, w) /\ todo' = todo \ {w}
    BY <1>3 DEF CommitWrite
  <2>2. w \in Write /\ w.of \in Change /\ w \in WritesOf(w.of)
    BY DEF TypeOK, TodoOfChanges
  <2>3. session' \in Store
    BY <2>1, <2>2, WritesOfType, WrittenParts DEF TypeOK
  <2>4. QED
    BY <1>3, <2>1, <2>3 DEF TypeOK, TodoOfChanges, CommitWrite, faultVars
<1>4. CASE EmitLog
  <2>1. events' \in Seq(Event)
    BY <1>4 DEF EmitLog, TypeOK, Event
  <2>2. logs' \in 0..MaxLogs
    BY <1>4, EngineAssumption DEF EmitLog, TypeOK
  <2>3. QED
    BY <1>4, <2>1, <2>2 DEF EmitLog, TypeOK, TodoOfChanges, faultVars
<1>5. CASE EmitResult
  <2>1. events' \in Seq(Event)
    BY <1>5 DEF EmitResult, TypeOK, Event
  <2>2. QED
    BY <1>5, <2>1 DEF EmitResult, TypeOK, TodoOfChanges, faultVars
<1>6. ASSUME NEW evs \in Seq(Event), NEW aborted \in BOOLEAN, End(evs, aborted),
             store' \in Store, reads' = reads, writes' \in 0..MaxWriteFaults
      PROVE  (TypeOK /\ TodoOfChanges)'
  <2>1. receipts' \in Seq(Receipt)
    BY <1>6 DEF End, TypeOK, Receipt
  <2>2. QED
    BY <1>6, <2>1, EngineAssumption DEF End, TypeOK, TodoOfChanges
<1>7. CASE Exit
  BY <1>6, <1>7 DEF Exit, TypeOK, faultVars
<1>a. CASE Abort
  <2>1. <<>> \in Seq(Event) /\ TRUE \in BOOLEAN
    OBVIOUS
  <2>2. writes' \in 0..MaxWriteFaults
    BY <1>a, EngineAssumption DEF Abort, TypeOK
  <2>3. QED
    BY <1>6, <1>a, <2>1, <2>2 DEF Abort, TypeOK
<1>8. CASE UNCHANGED vars
  BY <1>8 DEF TypeOK, TodoOfChanges, vars, runVars, faultVars
<1>9. QED
  BY <1>1, <1>2, <1>3, <1>4, <1>5, <1>7, <1>8, <1>a DEF Next

\* The state of the engine keeps its types, and commit its list of writes.
THEOREM EngineTypes == Spec => [](TypeOK /\ TodoOfChanges)
<1>1. QED
  BY TypeInit, TypeNext, PTL DEF Spec

-----------------------------------------------------------------------------
(* The session of a running transaction *)

\* What a write is for.
Holds(s, w) ==
  /\ w.kind = "remove"  => s.account[w.of.addr] = None
  /\ w.kind = "account" => s.account[w.of.addr] = w.of.info
  /\ w.kind = "code"    => w.of.info.hash \in s.code
  /\ w.kind = "slot"    => s.slot[w.of.addr] = w.of.slot

\* At most one change an address, and slots belong to contracts.
Separate ==
  /\ \A c1, c2 \in changes : c1.addr = c2.addr => c1 = c2
  /\ \A ch \in changes : ch.slot # None => ch.addr \in Contract

\* What commit has written stays written.
Done == \A ch \in changes : \A w \in WritesOf(ch) : w \in todo \/ Holds(session, w)

\* Nothing is left to write once the logs are emitted.
NothingLeft == pc # "commit" => todo = {}

Final(ch) == IF ch.dead THEN None ELSE ch.info

\* Whatever differs from the store is a change of the transaction.
Origin ==
  /\ \A a \in Address : \/ session.account[a] = store.account[a]
                        \/ \E ch \in changes : ch.addr = a /\ session.account[a] = Final(ch)
  /\ store.code \subseteq session.code
  /\ \A c \in Contract :
       \/ session.slot[c] = store.slot[c]
       \/ \E ch \in changes : ch.addr = c /\ ~ch.dead /\ ch.slot # None /\ session.slot[c] = ch.slot

RunInv == Separate /\ (pc # "idle" => Done /\ NothingLeft /\ Origin)

\* The changes of an execution do not overlap: one is the sender's, the others
\* belong to as many touched accounts.
LEMMA ExecuteSeparate ==
  ASSUME TypeOK, NEW x \in Raw, Execute(x)
  PROVE  Separate'
<1>1. PICK touched \in SUBSET (Address \ {Sender[x]}) :
        \E lost \in ReadFaults(x, touched \cup {Sender[x]}) : \E f : Handed(x, touched, lost, f)
  BY ExecuteChanges
<1>2. PICK lost \in ReadFaults(x, touched \cup {Sender[x]}) : \E f : Handed(x, touched, lost, f)
  BY <1>1
<1>3. PICK f : Handed(x, touched, lost, f)
  BY <1>2
<1>4. \A ch \in changes' :
        \/ ch = SenderChange(x, lost.revm) /\ ch.addr = Sender[x]
        \/ ch.addr \in touched /\ ch.addr # Sender[x] /\ ch = f[ch.addr]
  BY <1>3, HandedCases
<1>5. \A c1, c2 \in changes' : c1.addr = c2.addr => c1 = c2
  BY <1>4
<1>6. ASSUME NEW ch \in changes', ch.slot # None PROVE ch.addr \in Contract
  <2>1. SenderChange(x, lost.revm).slot = None
    BY SenderChangeType, ZenonT(30)
  <2>2. ch.addr \in touched /\ ch \in Touch(ch.addr, lost.revm) /\ ch.addr \in Address
    BY <1>3, <1>6, <2>1, HandedCases
  <2>3. ch # AsRead(ch.addr, lost.revm)
    BY <1>6 DEF AsRead
  <2>4. QED
    BY <2>2, <2>3, TouchCases
<1>7. QED
  BY <1>5, <1>6 DEF Separate

\* Two writes of one commit do not undo each other.
LEMMA NoClash ==
  ASSUME TypeOK, Separate, NEW c1 \in changes, NEW c2 \in changes,
         NEW v \in WritesOf(c1), NEW w \in WritesOf(c2), v # w,
         Holds(session, w)
  PROVE  Holds(Written(session, v), w)
<1>1. /\ v \in Write /\ v.of = c1 /\ (v.kind = "remove" <=> c1.dead)
      /\ v.kind = "slot" => c1.slot # None
      /\ v.kind = "code" => c1.info.hash # NoCode
      /\ w \in Write /\ w.of = c2 /\ (w.kind = "remove" <=> c2.dead)
  BY WritesOfType DEF TypeOK
<1>2. c1 = c2 => v.kind # w.kind
  BY <1>1 DEF Write
<1>3. c1.addr = c2.addr => c1 = c2
  BY DEF Separate
<1> DEFINE t == Written(session, v)
<1>4. /\ t.account = CASE v.kind = "remove"  -> [session.account EXCEPT ![v.of.addr] = None]
                        [] v.kind = "account" -> [session.account EXCEPT ![v.of.addr] = v.of.info]
                        [] OTHER              -> session.account
      /\ t.code = IF v.kind = "code" THEN session.code \cup {v.of.info.hash} ELSE session.code
      /\ t.slot = IF v.kind = "slot" THEN [session.slot EXCEPT ![v.of.addr] = v.of.slot]
                  ELSE session.slot
  BY <1>1, WrittenParts DEF TypeOK
<1> HIDE DEF t
<1>5. session.account \in [Address -> Account \cup {None}] /\ session.slot \in [Contract -> Value]
  BY DEF TypeOK, Store
<1>6. ASSUME w.kind \in {"remove", "account"} PROVE t.account[c2.addr] = session.account[c2.addr]
  <2>1. v.kind \in {"remove", "account"} => c1.addr # c2.addr
    BY <1>1, <1>2, <1>3, <1>6
  <2>2. CASE v.kind = "remove"
    BY <1>1, <1>4, <1>5, <2>1, <2>2
  <2>3. CASE v.kind = "account"
    BY <1>1, <1>4, <1>5, <2>1, <2>3
  <2>4. CASE v.kind \notin {"remove", "account"}
    BY <1>4, <2>4
  <2>5. QED
    BY <2>2, <2>3, <2>4
<1>7. ASSUME w.kind = "slot" PROVE t.slot[c2.addr] = session.slot[c2.addr]
  <2>1. v.kind = "slot" => c1.addr # c2.addr
    BY <1>2, <1>3, <1>7
  <2>2. QED
    BY <1>1, <1>4, <1>5, <2>1
<1>8. session.code \subseteq t.code
  BY <1>4
<1>9. QED
  BY <1>1, <1>6, <1>7, <1>8 DEF Holds, t

\* A write does what it is for.
LEMMA WriteHolds ==
  ASSUME TypeOK, Separate, NEW ch \in changes, NEW w \in WritesOf(ch)
  PROVE  Holds(Written(session, w), w)
<1>1. /\ w \in Write /\ w.of = ch
      /\ w.kind = "slot" => ch.slot # None
      /\ w.kind = "code" => ch.info.hash # NoCode
  BY WritesOfType DEF TypeOK
<1>2. ch.addr \in Address /\ (w.kind = "slot" => ch.addr \in Contract)
  BY <1>1 DEF Separate, TypeOK, Change
<1> DEFINE t == Written(session, w)
<1>3. /\ t.account = CASE w.kind = "remove"  -> [session.account EXCEPT ![w.of.addr] = None]
                        [] w.kind = "account" -> [session.account EXCEPT ![w.of.addr] = w.of.info]
                        [] OTHER              -> session.account
      /\ t.code = IF w.kind = "code" THEN session.code \cup {w.of.info.hash} ELSE session.code
      /\ t.slot = IF w.kind = "slot" THEN [session.slot EXCEPT ![w.of.addr] = w.of.slot]
                  ELSE session.slot
  BY <1>1, WrittenParts DEF TypeOK
<1> HIDE DEF t
<1>4. session.account \in [Address -> Account \cup {None}] /\ session.slot \in [Contract -> Value]
  BY DEF TypeOK, Store
<1>5. CASE w.kind = "remove"
  BY <1>1, <1>2, <1>3, <1>4, <1>5 DEF Holds, t
<1>6. CASE w.kind = "account"
  BY <1>1, <1>2, <1>3, <1>4, <1>6 DEF Holds, t
<1>7. CASE w.kind = "code"
  BY <1>1, <1>3, <1>7 DEF Holds, t
<1>8. CASE w.kind = "slot"
  BY <1>1, <1>2, <1>3, <1>4, <1>8 DEF Holds, t
<1>9. QED
  BY <1>1, <1>5, <1>6, <1>7, <1>8 DEF Write

\* A write brings in nothing but its change.
LEMMA WriteOrigin ==
  ASSUME TypeOK, Separate, Origin, NEW ch \in changes, NEW w \in WritesOf(ch)
  PROVE  LET t == Written(session, w)
         IN /\ \A a \in Address : \/ t.account[a] = store.account[a]
                                  \/ \E d \in changes : d.addr = a /\ t.account[a] = Final(d)
            /\ store.code \subseteq t.code
            /\ \A c \in Contract :
                 \/ t.slot[c] = store.slot[c]
                 \/ \E d \in changes : d.addr = c /\ ~d.dead /\ d.slot # None /\ t.slot[c] = d.slot
<1>1. /\ w \in Write /\ w.of = ch /\ (w.kind = "remove" <=> ch.dead)
      /\ w.kind = "slot" => ch.slot # None
      /\ w.kind = "code" => ch.info.hash # NoCode
  BY WritesOfType DEF TypeOK
<1> DEFINE t == Written(session, w)
<1>2. /\ t.account = CASE w.kind = "remove"  -> [session.account EXCEPT ![w.of.addr] = None]
                        [] w.kind = "account" -> [session.account EXCEPT ![w.of.addr] = w.of.info]
                        [] OTHER              -> session.account
      /\ t.code = IF w.kind = "code" THEN session.code \cup {w.of.info.hash} ELSE session.code
      /\ t.slot = IF w.kind = "slot" THEN [session.slot EXCEPT ![w.of.addr] = w.of.slot]
                  ELSE session.slot
  BY <1>1, WrittenParts DEF TypeOK
<1> HIDE DEF t
<1>3. session.account \in [Address -> Account \cup {None}] /\ session.slot \in [Contract -> Value]
  BY DEF TypeOK, Store
<1>4. ASSUME NEW a \in Address
      PROVE  \/ t.account[a] = session.account[a]
             \/ ch.addr = a /\ t.account[a] = Final(ch)
  <2>1. CASE w.kind = "remove"
    BY <1>1, <1>2, <1>3, <2>1 DEF Final
  <2>2. CASE w.kind = "account"
    BY <1>1, <1>2, <1>3, <2>2 DEF Final
  <2>3. CASE w.kind \notin {"remove", "account"}
    BY <1>2, <2>3
  <2>4. QED
    BY <2>1, <2>2, <2>3
<1>5. ASSUME NEW c \in Contract
      PROVE  \/ t.slot[c] = session.slot[c]
             \/ ch.addr = c /\ ~ch.dead /\ ch.slot # None /\ t.slot[c] = ch.slot
  BY <1>1, <1>2, <1>3
<1>6. session.code \subseteq t.code
  BY <1>2
<1>7. QED
  BY <1>4, <1>5, <1>6 DEF Origin, t

LEMMA RunNext ==
  TypeOK /\ TodoOfChanges /\ RunInv /\ [Next]_vars => RunInv'
<1> SUFFICES ASSUME TypeOK, TodoOfChanges, RunInv, [Next]_vars PROVE RunInv'
  OBVIOUS
<1>1. ASSUME NEW x \in Raw, Reject(x) PROVE RunInv'
  <2>1. session' = store /\ store' = store /\ changes' = {} /\ todo' = {}
    BY <1>1 DEF Reject, Start
  <2>2. QED
    BY <2>1 DEF RunInv, Separate, Done, NothingLeft, Origin
<1>2. ASSUME NEW x \in Raw, Execute(x) PROVE RunInv'
  <2>1. /\ session' = store /\ store' = store /\ pc' = "commit"
        /\ todo' = UNION {WritesOf(ch) : ch \in changes'}
    BY <1>2 DEF Execute, Start
  <2>2. Separate'
    BY <1>2, ExecuteSeparate
  <2>3. Done' /\ NothingLeft' /\ Origin'
    BY <2>1 DEF Done, NothingLeft, Origin
  <2>4. QED
    BY <2>2, <2>3 DEF RunInv
<1>3. CASE CommitWrite
  <2>1. PICK v \in todo : session' = Written(session, v) /\ todo' = todo \ {v}
    BY <1>3 DEF CommitWrite
  <2>2. v.of \in changes /\ v \in WritesOf(v.of)
    BY DEF TodoOfChanges
  <2>3. changes' = changes /\ store' = store /\ pc = "commit" /\ NothingLeft'
    BY <1>3 DEF CommitWrite, NothingLeft
  <2>4. Separate /\ Done /\ Origin
    BY <2>3 DEF RunInv
  <2>5. Separate'
    BY <2>3, <2>4 DEF Separate
  <2>6. Done'
    <3>1. SUFFICES ASSUME NEW ch \in changes, NEW w \in WritesOf(ch), w \notin todo'
                   PROVE  Holds(session', w)
      BY <2>3 DEF Done, WritesOf, Holds
    <3>2. CASE w = v
      BY <2>1, <2>2, <2>4, <3>2, WriteHolds
    <3>3. CASE w # v
      <4>1. Holds(session, w)
        BY <2>1, <2>4, <3>1, <3>3 DEF Done
      <4>2. QED
        BY <2>1, <2>2, <2>4, <3>3, <4>1, NoClash
    <3>4. QED
      BY <3>2, <3>3
  <2>7. Origin'
    BY <2>1, <2>2, <2>3, <2>4, WriteOrigin DEF Origin, Final
  <2>8. QED
    BY <2>3, <2>5, <2>6, <2>7 DEF RunInv
<1>4. ASSUME UNCHANGED <<store, session, changes, todo>>, pc # "idle", pc # "commit"
      PROVE  RunInv'
  BY <1>4 DEF RunInv, Separate, Done, NothingLeft, Origin, Holds, WritesOf, Final
<1>5. CASE EmitLog
  BY <1>4, <1>5 DEF EmitLog
<1>6. CASE EmitResult
  BY <1>4, <1>6 DEF EmitResult
<1>7. CASE Exit
  BY <1>7 DEF Exit, End, RunInv, Separate
<1>8. CASE Abort
  BY <1>8 DEF Abort, End, RunInv, Separate
<1>9. CASE UNCHANGED vars
  BY <1>9 DEF vars, runVars, RunInv, Separate, Done, NothingLeft, Origin, Holds, WritesOf, Final
<1>10. QED
  BY <1>1, <1>2, <1>3, <1>5, <1>6, <1>7, <1>8, <1>9 DEF Next

LEMMA SessionInv == Spec => []RunInv
<1>1. Init => RunInv
  BY DEF Init, RunInv, Separate
<1>2. QED
  BY <1>1, EngineTypes, RunNext, PTL DEF Spec

\* What the chain keeps at a normal exit: every change, whole, and nothing else.
LEMMA ExitKeeps ==
  ASSUME TypeOK, RunInv, Exit
  PROVE  /\ Separate /\ Origin
         /\ \A ch \in changes : /\ session.account[ch.addr] = Final(ch)
                                /\ ~ch.dead =>
                                     /\ ch.info.hash # NoCode => ch.info.hash \in session.code
                                     /\ ch.slot # None => session.slot[ch.addr] = ch.slot
<1>1. pc = "exit" /\ todo = {} /\ Separate /\ Done /\ Origin
  BY DEF Exit, RunInv, NothingLeft
<1>2. ASSUME NEW ch \in changes, NEW w \in WritesOf(ch) PROVE Holds(session, w)
  BY <1>1 DEF Done
<1>3. ASSUME NEW ch \in changes, ch.dead PROVE session.account[ch.addr] = None
  <2>1. [kind |-> "remove", of |-> ch] \in WritesOf(ch)
    BY <1>3 DEF WritesOf
  <2>2. QED
    BY <1>2, <2>1 DEF Holds
<1>4. ASSUME NEW ch \in changes, ~ch.dead
      PROVE  /\ session.account[ch.addr] = ch.info
             /\ ch.info.hash # NoCode => ch.info.hash \in session.code
             /\ ch.slot # None => session.slot[ch.addr] = ch.slot
  <2>1. /\ [kind |-> "account", of |-> ch] \in WritesOf(ch)
        /\ ch.info.hash # NoCode => [kind |-> "code", of |-> ch] \in WritesOf(ch)
        /\ ch.slot # None => [kind |-> "slot", of |-> ch] \in WritesOf(ch)
    BY <1>4 DEF WritesOf
  <2>2. session.account[ch.addr] = ch.info
    BY <1>2, <2>1 DEF Holds
  <2>3. ch.info.hash # NoCode => ch.info.hash \in session.code
    BY <1>2, <2>1 DEF Holds
  <2>4. ch.slot # None => session.slot[ch.addr] = ch.slot
    BY <1>2, <2>1 DEF Holds
  <2>5. QED
    BY <2>2, <2>3, <2>4
<1>5. QED
  BY <1>1, <1>3, <1>4 DEF Final

\* Only a normal exit changes the object space, only exit and abort add to the
\* receipts.
LEMMA WhoWrites ==
  ASSUME [Next]_vars
  PROVE  /\ Exit \/ store' = store
         /\ Exit \/ Abort \/ receipts' = receipts
  BY DEF Next, Reject, Execute, Start, CommitWrite, EmitLog, EmitResult, Abort, vars, runVars

-----------------------------------------------------------------------------
(* Theorems *)

\* The object space changes by whole transactions, although commit makes its
\* writes one by one in no fixed order and any of them may abort the contract.
THEOREM CommitIsWhole == Spec => AllOrNothing
<1>1. ASSUME TypeOK, RunInv, [Next]_vars, store' # store, NEW ch \in changes
      PROVE  IF ch.dead THEN store'.account[ch.addr] = None
             ELSE /\ store'.account[ch.addr] = ch.info
                  /\ ch.info.hash # NoCode => ch.info.hash \in store'.code
                  /\ ch.slot # None => store'.slot[ch.addr] = ch.slot
  <2>1. Exit /\ store' = session
    BY <1>1, WhoWrites DEF Exit
  <2>2. /\ session.account[ch.addr] = Final(ch)
        /\ ~ch.dead => /\ ch.info.hash # NoCode => ch.info.hash \in session.code
                       /\ ch.slot # None => session.slot[ch.addr] = ch.slot
    BY <1>1, <2>1, ExitKeeps
  <2>3. QED
    BY <2>1, <2>2 DEF Final
<1>2. TypeOK /\ RunInv /\ [Next]_vars
        => [store' # store =>
             \A ch \in changes :
               IF ch.dead THEN store'.account[ch.addr] = None
               ELSE /\ store'.account[ch.addr] = ch.info
                    /\ ch.info.hash # NoCode => ch.info.hash \in store'.code
                    /\ ch.slot # None => store'.slot[ch.addr] = ch.slot]_vars
  BY <1>1
<1>3. QED
  BY <1>2, EngineTypes, SessionInv, PTL DEF Spec, AllOrNothing

\* Every account's code is stored: code is written before or after the account
\* that names it, but never without it.
THEOREM CodeStaysThere == Spec => []CodeIsThere
<1>1. Init => CodeIsThere
  BY DEF Init, CodeIsThere
<1>2. TypeOK /\ RunInv /\ CodeIsThere /\ [Next]_vars => CodeIsThere'
  <2> SUFFICES ASSUME TypeOK, RunInv, CodeIsThere, [Next]_vars PROVE CodeIsThere'
    OBVIOUS
  <2>1. CASE store' = store
    BY <2>1 DEF CodeIsThere
  <2>2. CASE Exit
    <3>1. store' = session
      BY <2>2 DEF Exit
    <3>2. ASSUME NEW a \in Address, session.account[a] # None, session.account[a].hash # NoCode
          PROVE  session.account[a].hash \in session.code
      <4>1. CASE session.account[a] = store.account[a]
        BY <2>2, <3>2, <4>1, ExitKeeps DEF CodeIsThere, Origin
      <4>2. CASE session.account[a] # store.account[a]
        <5>1. PICK ch \in changes : ch.addr = a /\ session.account[a] = Final(ch)
          BY <2>2, <4>2, ExitKeeps DEF Origin
        <5>2. ~ch.dead /\ session.account[a] = ch.info
          BY <3>2, <5>1 DEF Final
        <5>3. QED
          BY <2>2, <3>2, <5>1, <5>2, ExitKeeps
      <4>3. QED
        BY <4>1, <4>2
    <3>3. QED
      BY <3>1, <3>2 DEF CodeIsThere
  <2>3. QED
    BY <2>1, <2>2, WhoWrites
<1>3. QED
  BY <1>1, <1>2, EngineTypes, SessionInv, PTL DEF Spec

-----------------------------------------------------------------------------

\* Only the last event of a transaction says how it ended.
EventInv ==
  /\ pc \in {"commit", "logs", "result"} => \A i \in DOMAIN events : events[i] = "log"
  /\ pc = "result" => outcome # "success"
  /\ pc = "exit" => (DecodedStatus(events) <=> outcome = "success")

LEMMA AppendDomain ==
  ASSUME NEW S, NEW q \in Seq(S), NEW e \in S
  PROVE  /\ Len(q) \in Nat /\ DOMAIN q = 1..Len(q)
         /\ DOMAIN Append(q, e) = 1..(Len(q) + 1)
         /\ \A i \in 1..Len(q) : Append(q, e)[i] = q[i]
         /\ Append(q, e)[Len(q) + 1] = e
<1>1. /\ Append(q, e) \in Seq(S) /\ Len(Append(q, e)) = Len(q) + 1
      /\ \A i \in 1..Len(q) : Append(q, e)[i] = q[i]
      /\ Append(q, e)[Len(q) + 1] = e
  BY AppendProperties
<1>2. QED
  BY <1>1, LenProperties

LEMMA EventNext == TypeOK /\ EventInv /\ [Next]_vars => EventInv'
<1> SUFFICES ASSUME TypeOK, EventInv, [Next]_vars PROVE EventInv'
  OBVIOUS
<1>0. events \in Seq(Event)
  BY DEF TypeOK
<1>1. ASSUME NEW x \in Raw, Reject(x) \/ Execute(x) PROVE EventInv'
  <2>1. events' = <<>> /\ pc' \in {"commit", "result"} /\ (pc' = "result" => outcome' = "rejected")
    BY <1>1 DEF Reject, Execute, Start
  <2>2. QED
    BY <2>1 DEF EventInv
<1>2. CASE CommitWrite
  BY <1>2 DEF CommitWrite, EventInv
<1>3. CASE EmitLog
  <2>1. events' = Append(events, "log") /\ pc = "logs" /\ pc' = "logs" /\ "log" \in Event
    BY <1>3 DEF EmitLog, Event
  <2>2. ASSUME NEW i \in DOMAIN events' PROVE events'[i] = "log"
    <3>1. Len(events) \in Nat /\ i \in 1..(Len(events) + 1)
      BY <1>0, <2>1, AppendDomain
    <3>2. i \in 1..Len(events) \/ i = Len(events) + 1
      BY <3>1
    <3>3. QED
      BY <1>0, <2>1, <3>2, AppendDomain DEF EventInv
  <2>3. QED
    BY <2>1, <2>2 DEF EventInv
<1>4. CASE EmitResult
  <2> DEFINE e == IF outcome = "success" THEN "succeeded" ELSE "failed"
  <2>1. /\ events' = Append(events, e) /\ pc \in {"logs", "result"} /\ pc' = "exit"
        /\ outcome' = outcome /\ e \in Event
    BY <1>4 DEF EmitResult, Event
  <2>2. /\ Len(events) \in Nat /\ DOMAIN events = 1..Len(events)
        /\ DOMAIN events' = 1..(Len(events) + 1)
        /\ \A i \in 1..Len(events) : events'[i] = events[i]
        /\ events'[Len(events) + 1] = e
    BY <1>0, <2>1, AppendDomain
  <2>3. \A i \in 1..Len(events) : events'[i] # "failed"
    BY <2>1, <2>2 DEF EventInv
  <2>4. \A i \in DOMAIN events' : i \in 1..Len(events) \/ i = Len(events) + 1
    BY <2>2
  <2>5. Len(events) + 1 \in DOMAIN events'
    BY <2>2
  <2>6. DecodedStatus(events') <=> e # "failed"
    BY <2>2, <2>3, <2>4, <2>5 DEF DecodedStatus
  <2>7. QED
    BY <2>1, <2>6 DEF EventInv
<1>5. CASE Exit \/ Abort
  BY <1>5 DEF Exit, Abort, End, EventInv
<1>6. CASE UNCHANGED vars
  BY <1>6 DEF vars, runVars, EventInv, DecodedStatus
<1>7. QED
  BY <1>1, <1>2, <1>3, <1>4, <1>5, <1>6 DEF Next

\* A transaction that ran to its end is reported as the EVM ended it, with any
\* number of logs before the result.
THEOREM EndedReceiptsAreTrue == Spec => []EndedReceiptIsTrue
<1>1. Init => EventInv /\ EndedReceiptIsTrue
  BY DEF Init, EventInv, EndedReceiptIsTrue
<1>2. TypeOK /\ EventInv /\ EndedReceiptIsTrue /\ [Next]_vars => EndedReceiptIsTrue'
  <2> SUFFICES ASSUME TypeOK, EventInv, EndedReceiptIsTrue, [Next]_vars PROVE EndedReceiptIsTrue'
    OBVIOUS
  <2>1. CASE receipts' = receipts
    BY <2>1 DEF EndedReceiptIsTrue, TrueOf, DecodedStatus
  <2>2. ASSUME NEW r \in Receipt, receipts' = Append(receipts, r), ~r.reverted => TrueOf(r)
        PROVE  EndedReceiptIsTrue'
    <3>1. /\ Len(receipts) \in Nat /\ DOMAIN receipts = 1..Len(receipts)
          /\ DOMAIN receipts' = 1..(Len(receipts) + 1)
          /\ \A i \in 1..Len(receipts) : receipts'[i] = receipts[i]
          /\ receipts'[Len(receipts) + 1] = r
      BY <2>2, AppendDomain DEF TypeOK
    <3>2. \A i \in DOMAIN receipts' : i \in 1..Len(receipts) \/ i = Len(receipts) + 1
      BY <3>1
    <3>3. \A i \in DOMAIN receipts' : ~receipts'[i].reverted => TrueOf(receipts'[i])
      BY <2>2, <3>1, <3>2 DEF EndedReceiptIsTrue
    <3>4. QED
      BY <3>3 DEF EndedReceiptIsTrue, TrueOf, DecodedStatus
  <2>3. CASE Exit
    <3> DEFINE r == [raw |-> raw, outcome |-> outcome, events |-> events, reverted |-> FALSE,
                     misread |-> misread]
    <3>1. r \in Receipt /\ receipts' = Append(receipts, r)
      BY <2>3 DEF Exit, End, TypeOK, Receipt
    <3>2. TrueOf(r)
      BY <2>3 DEF Exit, EventInv, TrueOf
    <3>3. QED
      BY <2>2, <3>1, <3>2
  <2>4. CASE Abort
    <3> DEFINE r == [raw |-> raw, outcome |-> outcome, events |-> <<>>, reverted |-> TRUE,
                     misread |-> misread]
    <3>1. <<>> \in Seq(Event)
      OBVIOUS
    <3>2. r \in Receipt /\ receipts' = Append(receipts, r) /\ r.reverted
      BY <2>4, <3>1 DEF Abort, End, TypeOK, Receipt
    <3>3. QED
      BY <2>2, <3>2
  <2>5. QED
    BY <2>1, <2>3, <2>4, WhoWrites
<1>3. QED
  BY <1>1, <1>2, EngineTypes, EventNext, PTL DEF Spec

-----------------------------------------------------------------------------

\* An account that may be created anew has no storage.
CleanStore ==
  reads = 0 => \A c \in Contract : store.account[c] \in {None, Empty} => store.slot[c] = 0

\* Only a contract that was not there is destroyed, and an empty one keeps its
\* slot as it is.
CleanChanges ==
  pc # "idle" /\ reads = 0 =>
    \A ch \in changes : ch.addr \in Contract /\ Final(ch) \in {None, Empty} =>
      /\ store.account[ch.addr] \in {None, Empty}
      /\ ~ch.dead => ch.slot = None

LEMMA ExecuteClean ==
  ASSUME TypeOK, NEW x \in Raw, Execute(x)
  PROVE  CleanChanges' /\ (reads' = 0 => reads = 0)
<1>1. PICK touched \in SUBSET (Address \ {Sender[x]}) :
        \E lost \in ReadFaults(x, touched \cup {Sender[x]}) : \E f : Handed(x, touched, lost, f)
  BY ExecuteChanges
<1>2. PICK lost \in ReadFaults(x, touched \cup {Sender[x]}) : \E f : Handed(x, touched, lost, f)
  BY <1>1
<1>3. PICK f : Handed(x, touched, lost, f)
  BY <1>2
<1>4. store' = store
  BY DEF Execute, Start
<1>5. touched \cup {Sender[x]} \in SUBSET Address /\ reads \in Nat
  BY EngineAssumption DEF Address, TypeOK
<1>6. Faults(lost) \in Nat /\ (Faults(lost) = 0 => lost.revm = {}) /\ reads' = reads + Faults(lost)
  BY <1>3, <1>5, FaultsCount DEF Handed
<1>7. reads' = 0 => reads = 0 /\ lost.revm = {}
  BY <1>5, <1>6
<1>8. SUFFICES ASSUME reads' = 0, NEW ch \in changes', ch.addr \in Contract, Final(ch) \in {None, Empty}
               PROVE  /\ store.account[ch.addr] \in {None, Empty}
                      /\ ~ch.dead => ch.slot = None
  BY <1>4, <1>7 DEF CleanChanges, Final
<1> DEFINE c == ch.addr
<1>9. c # Sender[x]
  BY <1>8, EngineAssumption
<1>10. c \in Address /\ ch \in Touch(c, lost.revm) /\ ch \in Change
  BY <1>3, <1>9, HandedCases
<1>11. ch.info \in Account /\ None \notin Account
  BY <1>10, EngineAssumption DEF Change, Account
<1>12. Basic(c, lost.revm) = Empty <=> store.account[c] \in {None, Empty}
  BY <1>7, <1>8 DEF Basic
<1> HIDE DEF c
<1>a. ch # AsRead(c, lost.revm) => Run(ch, Basic(c, lost.revm))
  BY <1>10, TouchCases
<1>13. CASE ch = AsRead(c, lost.revm)
  <2>1. ch.dead = FALSE /\ ch.info = Basic(c, lost.revm) /\ ch.slot = None
    BY <1>13 DEF AsRead
  <2>2. Basic(c, lost.revm) = Empty
    BY <1>8, <1>11, <2>1 DEF Final
  <2>3. QED
    BY <1>12, <2>1, <2>2 DEF c
<1>14. CASE ch # AsRead(c, lost.revm) /\ Basic(c, lost.revm) # Empty
  <2>1. ~ch.dead /\ ch.info = Basic(c, lost.revm)
    BY <1>14, <1>a DEF Run
  <2>2. QED
    BY <1>8, <1>11, <1>14, <2>1 DEF Final
<1>15. CASE ch # AsRead(c, lost.revm) /\ Basic(c, lost.revm) = Empty
  <2>1. ch.info # Empty
    BY <1>15, <1>a DEF Run
  <2>2. ch.dead
    BY <1>8, <1>11, <2>1 DEF Final
  <2>3. QED
    BY <1>12, <1>15, <2>2 DEF c
<1>16. QED
  BY <1>13, <1>14, <1>15

LEMMA CleanNext ==
  TypeOK /\ RunInv /\ CleanStore /\ CleanChanges /\ [Next]_vars => (CleanStore /\ CleanChanges)'
<1> SUFFICES ASSUME TypeOK, RunInv, CleanStore, CleanChanges, [Next]_vars
             PROVE  (CleanStore /\ CleanChanges)'
  OBVIOUS
<1>0. reads \in Nat
  BY DEF TypeOK
<1>1. ASSUME NEW x \in Raw, Reject(x) PROVE (CleanStore /\ CleanChanges)'
  BY <1>1 DEF Reject, Start, CleanStore, CleanChanges
<1>2. ASSUME NEW x \in Raw, Execute(x) PROVE (CleanStore /\ CleanChanges)'
  <2>1. store' = store
    BY <1>2 DEF Execute, Start
  <2>2. reads' = 0 => reads = 0
    BY <1>2, ExecuteClean
  <2>3. CleanStore'
    BY <2>1, <2>2 DEF CleanStore
  <2>4. QED
    BY <1>2, <2>3, ExecuteClean
<1>3. CASE CommitWrite \/ EmitLog \/ EmitResult
  <2>1. UNCHANGED <<store, changes, reads>> /\ pc # "idle"
    BY <1>3 DEF CommitWrite, EmitLog, EmitResult, faultVars
  <2>2. QED
    BY <2>1 DEF CleanStore, CleanChanges, Final
<1>4. CASE Exit
  <2>1. store' = session /\ reads' = reads /\ pc' = "idle" /\ pc = "exit"
    BY <1>4 DEF Exit, End, faultVars
  <2>2. CleanChanges'
    BY <2>1 DEF CleanChanges
  <2>3. ASSUME reads = 0, NEW c \in Contract, session.account[c] \in {None, Empty}
        PROVE  session.slot[c] = 0
    <3>1. c \in Address
      BY DEF Address
    <3>2. store.account[c] \in {None, Empty}
      <4>1. CASE session.account[c] = store.account[c]
        BY <2>3, <4>1
      <4>2. CASE session.account[c] # store.account[c]
        <5>1. PICK ch \in changes : ch.addr = c /\ session.account[c] = Final(ch)
          BY <1>4, <3>1, <4>2, ExitKeeps DEF Origin
        <5>2. QED
          BY <2>1, <2>3, <5>1 DEF CleanChanges
      <4>3. QED
        BY <4>1, <4>2
    <3>3. session.slot[c] = store.slot[c]
      <4>1. SUFFICES ASSUME session.slot[c] # store.slot[c] PROVE FALSE
        OBVIOUS
      <4>2. PICK ch \in changes : ch.addr = c /\ ~ch.dead /\ ch.slot # None
        BY <1>4, <4>1, ExitKeeps DEF Origin
      <4>3. session.account[c] = Final(ch)
        BY <1>4, <4>2, ExitKeeps
      <4>4. QED
        BY <2>1, <2>3, <4>2, <4>3 DEF CleanChanges
    <3>4. QED
      BY <2>3, <3>2, <3>3 DEF CleanStore
  <2>4. CleanStore'
    BY <2>1, <2>3 DEF CleanStore, Empty
  <2>5. QED
    BY <2>2, <2>4
<1>5. CASE Abort
  BY <1>5 DEF Abort, End, CleanStore, CleanChanges
<1>6. CASE UNCHANGED vars
  BY <1>6 DEF vars, runVars, faultVars, CleanStore, CleanChanges, Final
<1>7. QED
  BY <1>1, <1>2, <1>3, <1>4, <1>5, <1>6 DEF Next

\* As long as no read fails, an address without an account has no storage left,
\* although commit removes accounts and never clears a slot.
THEOREM NoStorageWithoutAccount == Spec => []NoOrphanStorage
<1>1. Init => CleanStore /\ CleanChanges
  BY DEF Init, CleanStore, CleanChanges
<1>2. CleanStore => NoOrphanStorage
  BY DEF CleanStore, NoOrphanStorage
<1>3. QED
  BY <1>1, <1>2, EngineTypes, SessionInv, CleanNext, PTL DEF Spec

-----------------------------------------------------------------------------

NonceIn(s, a) == IF s.account[a] = None THEN 0 ELSE s.account[a].nonce
Executed(r) == r.outcome # "rejected" /\ ~r.reverted

\* The running execution uses up the sender's current nonce and leaves the nonce
\* of every other key as it is, but for the accounts it has misread.
SenderInv ==
  pc # "idle" =>
    /\ outcome = "rejected" => changes = {}
    /\ \A ch \in changes : ch.addr \in Eoa /\ ch.addr \notin misread /\ ch.addr # Sender[raw] =>
         ~ch.dead /\ ch.info.nonce = NonceIn(store, ch.addr)
    /\ outcome # "rejected" =>
         /\ Sender[raw] \in misread \/ Nonce[raw] = NonceIn(store, Sender[raw])
         /\ \E ch \in changes : /\ ch.addr = Sender[raw] /\ ~ch.dead
                                /\ ch.info.nonce = Nonce[raw] + 1

\* What has run has a nonce below the sender's, unless the account was misread by
\* an execution since.
UsedUp ==
  \A i \in DOMAIN receipts :
    Executed(receipts[i]) =>
      \/ Nonce[receipts[i].raw] < NonceIn(store, Sender[receipts[i].raw])
      \/ \E k \in DOMAIN receipts :
           k > i /\ Executed(receipts[k]) /\ Sender[receipts[i].raw] \in receipts[k].misread

LEMMA ExecuteSender ==
  ASSUME TypeOK, NEW x \in Raw, Execute(x)
  PROVE  SenderInv'
<1>1. PICK touched \in SUBSET (Address \ {Sender[x]}) :
        \E lost \in ReadFaults(x, touched \cup {Sender[x]}) : \E f : Handed(x, touched, lost, f)
  BY ExecuteChanges
<1>2. PICK lost \in ReadFaults(x, touched \cup {Sender[x]}) : \E f : Handed(x, touched, lost, f)
  BY <1>1
<1>3. PICK f : Handed(x, touched, lost, f)
  BY <1>2
<1>4. store' = store /\ raw' = x /\ misread' = Misread(x, lost) /\ outcome' # "rejected"
  BY <1>3 DEF Execute, Start, Handed
<1>5. Nonce[x] = Basic(Sender[x], lost.check).nonce /\ Nonce[x] = Basic(Sender[x], lost.revm).nonce
  BY <1>3 DEF Handed, Acceptable, RevmAccepts
<1>6. Sender[x] \in misread' \/ Nonce[x] = NonceIn(store, Sender[x])
  BY <1>4, <1>5 DEF Misread, Basic, NonceIn, Empty
<1>7. \E ch \in changes' : ch.addr = Sender[x] /\ ~ch.dead /\ ch.info.nonce = Nonce[x] + 1
  <2>1. SenderChange(x, lost.revm).addr = Sender[x]
    BY SenderChangeType, ZenonT(30)
  <2>2. SenderChange(x, lost.revm).dead = FALSE
    BY SenderChangeType, ZenonT(30)
  <2>3. SenderChange(x, lost.revm).info.nonce = Basic(Sender[x], lost.revm).nonce + 1
    BY SenderChangeType, ZenonT(30)
  <2>4. SenderChange(x, lost.revm) \in changes'
    BY <1>3 DEF Handed
  <2>5. QED
    BY <1>5, <2>1, <2>2, <2>3, <2>4
<1>8. ASSUME NEW ch \in changes', ch.addr \in Eoa, ch.addr \notin misread', ch.addr # Sender[x]
      PROVE  ~ch.dead /\ ch.info.nonce = NonceIn(store, ch.addr)
  <2> DEFINE a == ch.addr
  <2>1. a \in Address /\ ch \in Touch(a, lost.revm) /\ a \notin Contract
    BY <1>3, <1>8, HandedCases, EngineAssumption
  <2>2. ch = AsRead(a, lost.revm)
    BY <2>1 DEF Touch
  <2>3. ch.dead = FALSE /\ ch.info = Basic(a, lost.revm)
    BY <2>2 DEF AsRead
  <2>4. a \notin lost.revm
    BY <1>4, <1>8 DEF Misread
  <2>5. QED
    BY <2>3, <2>4 DEF Basic, NonceIn, Empty
<1>9. QED
  BY <1>4, <1>6, <1>7, <1>8 DEF SenderInv

LEMMA SenderNext == TypeOK /\ SenderInv /\ [Next]_vars => SenderInv'
<1> SUFFICES ASSUME TypeOK, SenderInv, [Next]_vars PROVE SenderInv'
  OBVIOUS
<1>1. ASSUME NEW x \in Raw, Reject(x) PROVE SenderInv'
  BY <1>1 DEF Reject, Start, SenderInv
<1>2. ASSUME NEW x \in Raw, Execute(x) PROVE SenderInv'
  BY <1>2, ExecuteSender
<1>3. CASE CommitWrite \/ EmitLog \/ EmitResult
  <2>1. UNCHANGED <<store, changes, misread, raw, outcome>> /\ pc # "idle"
    BY <1>3 DEF CommitWrite, EmitLog, EmitResult
  <2>2. QED
    BY <2>1 DEF SenderInv, NonceIn
<1>4. CASE Exit \/ Abort
  BY <1>4 DEF Exit, Abort, End, SenderInv
<1>5. CASE UNCHANGED vars
  BY <1>5 DEF vars, runVars, SenderInv, NonceIn
<1>6. QED
  BY <1>1, <1>2, <1>3, <1>4, <1>5 DEF Next

\* A normal exit moves the nonce of the sender by one and, but for the misread,
\* no other key's.
LEMMA ExitNonces ==
  ASSUME TypeOK, RunInv, SenderInv, Exit, NEW a \in Eoa
  PROVE  /\ NonceIn(store, a) \in Nat /\ NonceIn(store', a) \in Nat
         /\ outcome = "rejected" => NonceIn(store', a) = NonceIn(store, a)
         /\ outcome # "rejected" /\ a = Sender[raw] => NonceIn(store', a) = Nonce[raw] + 1
         /\ a # Sender[raw] /\ a \notin misread => NonceIn(store', a) = NonceIn(store, a)
<1>1. store' = session /\ pc # "idle"
  BY DEF Exit
<1>2. a \in Address /\ None \notin Account
  BY EngineAssumption DEF Address, Account
<1>3. NonceIn(store, a) \in Nat /\ NonceIn(session, a) \in Nat
  BY <1>2 DEF NonceIn, TypeOK, Store, Account
<1>4. ASSUME outcome # "rejected", a = Sender[raw] PROVE NonceIn(session, a) = Nonce[raw] + 1
  <2>1. PICK ch \in changes : ch.addr = a /\ ~ch.dead /\ ch.info.nonce = Nonce[raw] + 1
    BY <1>1, <1>4 DEF SenderInv
  <2>2. ch.info \in Account
    BY DEF TypeOK, Change
  <2>3. session.account[a] = ch.info
    BY <2>1, ExitKeeps DEF Final
  <2>4. QED
    BY <1>2, <2>1, <2>2, <2>3 DEF NonceIn
<1>5. ASSUME outcome = "rejected" PROVE NonceIn(session, a) = NonceIn(store, a)
  <2>1. changes = {}
    BY <1>1, <1>5 DEF SenderInv
  <2>2. session.account[a] = store.account[a]
    BY <1>2, <2>1, ExitKeeps DEF Origin
  <2>3. QED
    BY <2>2 DEF NonceIn
<1>6. ASSUME a # Sender[raw], a \notin misread PROVE NonceIn(session, a) = NonceIn(store, a)
  <2>1. CASE session.account[a] = store.account[a]
    BY <2>1 DEF NonceIn
  <2>2. CASE session.account[a] # store.account[a]
    <3>1. PICK ch \in changes : ch.addr = a /\ session.account[a] = Final(ch)
      BY <1>2, <2>2, ExitKeeps DEF Origin
    <3>2. ~ch.dead /\ ch.info.nonce = NonceIn(store, a)
      BY <1>1, <1>6, <3>1 DEF SenderInv
    <3>3. ch.info \in Account /\ session.account[a] = ch.info
      BY <3>1, <3>2 DEF TypeOK, Change, Final
    <3>4. QED
      BY <1>2, <3>2, <3>3 DEF NonceIn
  <2>3. QED
    BY <2>1, <2>2
<1>7. QED
  BY <1>1, <1>3, <1>4, <1>5, <1>6

\* The chain of one sender's nonces: what ran before is below or was misread
\* since, the running one is at the current nonce or has misread it.
LEMMA OnceNext ==
  TypeOK /\ RunInv /\ SenderInv /\ UsedUp /\ RunsAtMostOnce /\ [Next]_vars
    => (UsedUp /\ RunsAtMostOnce)'
<1> SUFFICES ASSUME TypeOK, RunInv, SenderInv, UsedUp, RunsAtMostOnce, [Next]_vars
             PROVE  (UsedUp /\ RunsAtMostOnce)'
  OBVIOUS
<1>0. receipts \in Seq(Receipt)
  BY DEF TypeOK
<1>1. CASE receipts' = receipts /\ store' = store
  BY <1>1 DEF UsedUp, RunsAtMostOnce, Twins, Ran, Executed, NonceIn
<1> DEFINE n == Len(receipts) + 1
<1>2. ASSUME NEW r \in Receipt, receipts' = Append(receipts, r),
             \A a \in Eoa : /\ NonceIn(store, a) \in Nat /\ NonceIn(store', a) \in Nat
                            /\ \/ NonceIn(store', a) >= NonceIn(store, a)
                               \/ Executed(r) /\ a \in r.misread,
             Executed(r) => LET a == Sender[r.raw]
                            IN /\ Nonce[r.raw] < NonceIn(store', a)
                               /\ a \in r.misread \/ Nonce[r.raw] = NonceIn(store, a)
      PROVE  (UsedUp /\ RunsAtMostOnce)'
  <2>1. /\ n \in Nat /\ DOMAIN receipts = 1..Len(receipts) /\ Len(receipts) \in Nat
        /\ DOMAIN receipts' = 1..n
        /\ \A i \in DOMAIN receipts : receipts'[i] = receipts[i]
        /\ receipts'[n] = r
    BY <1>0, <1>2, AppendDomain
  <2>2. /\ \A i \in DOMAIN receipts' : i \in DOMAIN receipts \/ i = n
        /\ \A i \in DOMAIN receipts : i \in DOMAIN receipts' /\ i < n
        /\ n \in DOMAIN receipts'
    BY <2>1
  <2>3. \A i \in DOMAIN receipts : Sender[receipts[i].raw] \in Eoa /\ Nonce[receipts[i].raw] \in Nat
    <3>1. \A i \in DOMAIN receipts : receipts[i] \in Receipt
      BY <1>0, <2>1, ElementOfSeq
    <3>2. QED
      BY <3>1, EngineAssumption DEF Receipt
  <2> HIDE DEF n
  <2>4. ASSUME NEW i \in DOMAIN receipts', Executed(receipts'[i])
        PROVE  \/ Nonce[receipts'[i].raw] < NonceIn(store', Sender[receipts'[i].raw])
               \/ \E k \in DOMAIN receipts' :
                    k > i /\ Executed(receipts'[k]) /\ Sender[receipts'[i].raw] \in receipts'[k].misread
    <3>1. CASE i = n
      BY <1>2, <2>1, <2>4, <3>1
    <3>2. CASE i \in DOMAIN receipts
      <4> DEFINE a == Sender[receipts[i].raw]
      <4>1. /\ receipts'[i] = receipts[i] /\ Executed(receipts[i]) /\ i < n /\ i \in Nat
            /\ a \in Eoa /\ Nonce[receipts[i].raw] \in Nat
        BY <2>1, <2>2, <2>3, <2>4, <3>2
      <4>2. CASE Nonce[receipts[i].raw] < NonceIn(store, a)
        <5>1. CASE NonceIn(store', a) >= NonceIn(store, a)
          <6> HIDE DEF a
          <6>1. Nonce[receipts[i].raw] < NonceIn(store', a)
            BY <1>2, <4>1, <4>2, <5>1
          <6>2. QED
            BY <4>1, <6>1 DEF a
        <5>2. CASE Executed(r) /\ a \in r.misread
          <6>1. n > i
            BY <2>1, <4>1
          <6>2. QED
            BY <2>1, <2>2, <4>1, <5>2, <6>1
        <5>3. QED
          BY <1>2, <4>1, <5>1, <5>2
      <4>3. CASE \E k \in DOMAIN receipts : k > i /\ Executed(receipts[k]) /\ a \in receipts[k].misread
        BY <2>1, <2>2, <4>1, <4>3
      <4>4. QED
        BY <3>2, <4>1, <4>2, <4>3 DEF UsedUp
    <3>3. QED
      BY <2>2, <3>1, <3>2
  <2>5. ASSUME NEW i \in DOMAIN receipts', NEW j \in DOMAIN receipts', i < j,
               Executed(receipts'[i]), Executed(receipts'[j]),
               Sender[receipts'[i].raw] = Sender[receipts'[j].raw],
               Nonce[receipts'[i].raw] = Nonce[receipts'[j].raw]
        PROVE  \E k \in i+1..j : Executed(receipts'[k]) /\ Sender[receipts'[i].raw] \in receipts'[k].misread
    <3>0. i \in Nat /\ j \in Nat /\ i \in DOMAIN receipts
      BY <2>1, <2>2, <2>5
    <3> DEFINE a == Sender[receipts[i].raw]
    <3>1. /\ receipts'[i] = receipts[i] /\ Executed(receipts[i])
          /\ a \in Eoa /\ Nonce[receipts[i].raw] \in Nat
      BY <2>1, <2>3, <2>5, <3>0
    <3>2. CASE j \in DOMAIN receipts
      <4>1. receipts'[j] = receipts[j]
        BY <2>1, <3>2
      <4>2. Twins(i, j)
        BY <2>5, <3>1, <4>1 DEF Twins, Ran, Executed
      <4>3. PICK k \in i+1..j : Executed(receipts[k]) /\ a \in receipts[k].misread
        BY <3>0, <3>2, <4>2 DEF RunsAtMostOnce, Ran, Executed
      <4>4. k \in DOMAIN receipts
        BY <2>1, <3>0, <3>2
      <4>5. QED
        BY <2>1, <3>1, <4>3, <4>4
    <3>3. CASE j = n
      <4>1. /\ Executed(r) /\ Sender[r.raw] = a /\ Nonce[r.raw] = Nonce[receipts[i].raw]
            /\ j \in i+1..j
        BY <2>1, <2>5, <3>0, <3>1, <3>3
      <4>2. CASE a \in r.misread
        BY <2>1, <3>1, <3>3, <4>1, <4>2
      <4>3. CASE a \notin r.misread
        <5>1. Nonce[receipts[i].raw] = NonceIn(store, a)
          BY <1>2, <4>1, <4>3
        <5>2. ~(Nonce[receipts[i].raw] < NonceIn(store, a))
          BY <3>1, <5>1
        <5>3. PICK k \in DOMAIN receipts : k > i /\ Executed(receipts[k]) /\ a \in receipts[k].misread
          BY <3>0, <3>1, <5>2 DEF UsedUp
        <5>4. k \in i+1..j /\ receipts'[k] = receipts[k]
          BY <2>1, <2>2, <3>0, <3>3, <5>3
        <5>5. QED
          BY <3>1, <5>3, <5>4
      <4>4. QED
        BY <4>2, <4>3
    <3>4. QED
      BY <2>2, <3>2, <3>3
  <2>6. UsedUp'
    BY <2>4 DEF UsedUp
  <2>7. RunsAtMostOnce'
    BY <2>5 DEF RunsAtMostOnce, Twins, Ran, Executed
  <2>8. QED
    BY <2>6, <2>7
<1>3. \A a \in Eoa : NonceIn(store, a) \in Nat
  BY DEF Address, NonceIn, TypeOK, Store, Account
<1>4. CASE Abort
  <2> DEFINE r == [raw |-> raw, outcome |-> outcome, events |-> <<>>, reverted |-> TRUE,
                   misread |-> misread]
  <2>1. r \in Receipt /\ receipts' = Append(receipts, r) /\ store' = store
    <3>1. <<>> \in Seq(Event)
      OBVIOUS
    <3>2. QED
      BY <1>4, <3>1 DEF Abort, End, TypeOK, Receipt
  <2>2. ~Executed(r)
    BY DEF Executed
  <2> HIDE DEF r
  <2>3. \A a \in Eoa : /\ NonceIn(store, a) \in Nat /\ NonceIn(store', a) \in Nat
                       /\ \/ NonceIn(store', a) >= NonceIn(store, a)
                          \/ Executed(r) /\ a \in r.misread
    BY <1>3, <2>1
  <2>4. QED
    BY <1>2, <2>1, <2>2, <2>3
<1>5. CASE Exit
  <2> DEFINE r == [raw |-> raw, outcome |-> outcome, events |-> events, reverted |-> FALSE,
                   misread |-> misread]
  <2>1. r \in Receipt /\ receipts' = Append(receipts, r) /\ pc # "idle"
    BY <1>5 DEF Exit, End, TypeOK, Receipt
  <2>2. r.raw = raw /\ r.misread = misread /\ (Executed(r) <=> outcome # "rejected")
    BY DEF Executed
  <2> HIDE DEF r
  <2>3. raw \in Raw /\ Sender[raw] \in Eoa /\ Nonce[raw] \in Nat
    BY EngineAssumption DEF TypeOK
  <2>4. outcome # "rejected" => Sender[raw] \in misread \/ Nonce[raw] = NonceIn(store, Sender[raw])
    BY <2>1 DEF SenderInv
  <2>5. \A a \in Eoa : /\ NonceIn(store, a) \in Nat /\ NonceIn(store', a) \in Nat
                       /\ outcome = "rejected" => NonceIn(store', a) = NonceIn(store, a)
                       /\ outcome # "rejected" /\ a = Sender[raw] => NonceIn(store', a) = Nonce[raw] + 1
                       /\ a # Sender[raw] /\ a \notin misread => NonceIn(store', a) = NonceIn(store, a)
    BY <1>5, ExitNonces
  <2>6. ASSUME NEW a \in Eoa
        PROVE  /\ NonceIn(store, a) \in Nat /\ NonceIn(store', a) \in Nat
               /\ \/ NonceIn(store', a) >= NonceIn(store, a)
                  \/ Executed(r) /\ a \in r.misread
    <3>1. CASE outcome = "rejected"
      BY <2>5, <3>1
    <3>2. CASE outcome # "rejected" /\ a \in misread
      BY <2>2, <2>5, <3>2
    <3>3. CASE outcome # "rejected" /\ a \notin misread /\ a = Sender[raw]
      BY <2>3, <2>4, <2>5, <3>3
    <3>4. CASE outcome # "rejected" /\ a \notin misread /\ a # Sender[raw]
      BY <2>5, <3>4
    <3>5. QED
      BY <3>1, <3>2, <3>3, <3>4
  <2>7. ASSUME Executed(r)
        PROVE  /\ Nonce[r.raw] < NonceIn(store', Sender[r.raw])
               /\ Sender[r.raw] \in r.misread \/ Nonce[r.raw] = NonceIn(store, Sender[r.raw])
    BY <2>2, <2>3, <2>4, <2>5, <2>7
  <2>8. QED
    BY <1>2, <2>1, <2>6, <2>7
<1>6. QED
  BY <1>1, <1>4, <1>5, WhoWrites

\* A signed transaction runs once, however often it is relayed and however many
\* reads fail, unless a failed read has hidden its account's nonce while the
\* account was written back.
THEOREM EachNonceRunsOnce == Spec => []RunsAtMostOnce
<1>1. Init => SenderInv /\ UsedUp /\ RunsAtMostOnce
  BY DEF Init, SenderInv, UsedUp, RunsAtMostOnce
<1>2. QED
  BY <1>1, EngineTypes, SessionInv, SenderNext, OnceNext, PTL DEF Spec
=============================================================================
