------------------------------ MODULE RateLimit ------------------------------
(***************************************************************************)
(* The admission of requests: RateLimiter (limit.rs) with its table of     *)
(* MAX_BUCKETS token buckets, and its two callers, the HTTP handler        *)
(* (main.rs) and the WebSocket connection (ws.rs).                         *)
(*                                                                         *)
(* Time moves in units; last_refill is kept as the bucket's age.  The code *)
(* counts tokens and seconds in f64: a unit stands for any fraction of a   *)
(* second.  Instead of growing for ever an age stops at AgeCap, where the  *)
(* bucket is full and idle whatever happens next.                          *)
(***************************************************************************)
EXTENDS Naturals, FiniteSets

CONSTANTS
  IP,          \* client addresses, as effective_client_ip resolves them
  Lengths,     \* lengths of the batches clients send; 0 is the empty batch
  Rps,         \* RATE_LIMIT_RPS, per unit of time
  Burst,       \* RATE_LIMIT_BURST
  MaxBatch,    \* RPC_MAX_BATCH
  MaxBuckets,  \* MAX_BUCKETS
  IdleSweep,   \* IDLE_SWEEP_SECS, in units of time
  AgeCap,      \* bound: ages beyond this one make no difference
  Absent       \* no bucket for this address

Most(a, b) == IF a > b THEN a ELSE b
Least(a, b) == IF a < b THEN a ELSE b

\* RateLimiter::new.
Capacity == Most(Burst, Most(Rps, 1))

ASSUME RateLimitAssumption ==
  /\ IsFiniteSet(IP) /\ IP # {}
  /\ Lengths \subseteq Nat
  /\ Rps \in Nat \ {0}          \* 0 disables the limiter
  /\ Burst \in Nat /\ MaxBatch \in Nat /\ MaxBuckets \in Nat \ {0}
  /\ IdleSweep \in Nat \ {0} /\ AgeCap \in Nat
  /\ IdleSweep <= AgeCap /\ Capacity <= AgeCap * Rps
  /\ Absent \notin [tokens : Nat, age : Nat]

\* The setting under which dropping an idle bucket loses nothing, as the
\* comment at MAX_BUCKETS says of every setting.
ASSUME IdleIsFull == Capacity <= IdleSweep * Rps

VARIABLES
  buckets,  \* the table: address -> bucket, or Absent
  wants,    \* the batch each client is trying to get served, or Absent
  answer    \* the last call: who, requests served, a bit to tell calls apart

vars == <<buckets, wants, answer>>

Bucket == [tokens : 0..Capacity, age : 0..AgeCap]
Batch == [length : Lengths, ws : BOOLEAN]

TypeOK ==
  /\ buckets \in [IP -> Bucket \cup {Absent}]
  /\ wants \in [IP -> Batch \cup {Absent}]
  /\ answer \in [ip : IP, served : Nat, turn : {0, 1}]

Init ==
  /\ buckets = [i \in IP |-> Absent]
  /\ wants = [i \in IP |-> Absent]
  /\ answer \in [ip : IP, served : {0}, turn : {0}]

-----------------------------------------------------------------------------
(* RateLimiter::allow *)

Held(table) == {i \in IP : table[i] # Absent}
Full(table) == Cardinality(Held(table)) >= MaxBuckets

\* Mutant: the sweep takes buckets that are idle for one unit less.
SweptEarly(table) ==
  [i \in IP |-> IF table[i] # Absent /\ table[i].age + 1 < IdleSweep THEN table[i] ELSE Absent]

\* Mutant: idle buckets stay.
SweptNone(table) == table

\* The buckets that are not idle.
Swept(table) ==
  [i \in IP |-> IF table[i] # Absent /\ table[i].age < IdleSweep THEN table[i] ELSE Absent]

\* The table allow works on: swept first if it is full and the address new.
Table(i) == IF Full(buckets) /\ buckets[i] = Absent THEN Swept(buckets) ELSE buckets

\* Mutant: a full table takes one more.
TurnedAwayLate(i) == Table(i)[i] = Absent /\ Cardinality(Held(Table(i))) > MaxBuckets

\* Still full: a new address is refused.
TurnedAway(i) == Table(i)[i] = Absent /\ Full(Table(i))

\* The refilled bucket; a new one is full.
Tokens(i) ==
  IF Table(i)[i] = Absent THEN Capacity
  ELSE Least(Capacity, Table(i)[i].tokens + Table(i)[i].age * Rps)

Cost(n) == Most(n, 1)
Allows(i, n) == ~TurnedAway(i) /\ Tokens(i) >= Cost(n)

\* What allow(i, n) does to the table: the refill is stored even if the answer
\* is no.
Charge(i, n) ==
  buckets' = IF TurnedAway(i) THEN Table(i)
             ELSE [Table(i) EXCEPT ![i] =
                     [tokens |-> IF Allows(i, n) THEN Tokens(i) - Cost(n) ELSE Tokens(i),
                      age |-> 0]]

-----------------------------------------------------------------------------
(* The callers *)

Answer(i, n) == answer' = [ip |-> i, served |-> n, turn |-> 1 - answer.turn]

\* A client starts to ask for a batch.
Want(i, b) ==
  /\ wants[i] = Absent
  /\ wants' = [wants EXCEPT ![i] = b]
  /\ UNCHANGED <<buckets, answer>>

\* Only the HTTP handler has a cap on the length of a batch.
TooLarge(i) == ~wants[i].ws /\ wants[i].length > MaxBatch

\* handle_rpc, over the cap: one token is charged, whether or not it is there.
HandleTooLarge(i) ==
  /\ wants[i] # Absent /\ TooLarge(i)
  /\ Charge(i, 1)
  /\ Answer(i, 0)
  /\ wants' = [wants EXCEPT ![i] = Absent]

\* Both callers: one token for every request of the batch, then dispatch.  An
\* empty batch costs a token and has nothing to dispatch.
Handle(i) ==
  /\ wants[i] # Absent /\ ~TooLarge(i)
  /\ Allows(i, wants[i].length)
  /\ Charge(i, wants[i].length)
  /\ Answer(i, wants[i].length)
  /\ wants' = [wants EXCEPT ![i] = Absent]

\* "rate limit exceeded": the client may try again.
HandleLimited(i) ==
  /\ wants[i] # Absent /\ ~TooLarge(i)
  /\ ~Allows(i, wants[i].length)
  /\ Charge(i, wants[i].length)
  /\ Answer(i, 0)
  /\ UNCHANGED wants

\* The client gives up.
GiveUp(i) ==
  /\ wants[i] # Absent
  /\ wants' = [wants EXCEPT ![i] = Absent]
  /\ UNCHANGED <<buckets, answer>>

\* A unit of time passes.
Tick ==
  /\ buckets' = [i \in IP |-> IF buckets[i] = Absent THEN Absent
                              ELSE [buckets[i] EXCEPT !.age = Least(@ + 1, AgeCap)]]
  /\ UNCHANGED <<wants, answer>>

Try(i) == HandleTooLarge(i) \/ Handle(i) \/ HandleLimited(i)

Next ==
  \/ \E i \in IP : Try(i) \/ GiveUp(i) \/ \E b \in Batch : Want(i, b)
  \/ Tick

Spec == Init /\ [][Next]_vars

\* Time passes, and a client that wants something keeps trying.
FairSpec == Spec /\ WF_vars(Tick) /\ \A i \in IP : WF_vars(Try(i))

-----------------------------------------------------------------------------
(* Properties *)

\* The table never holds more than MAX_BUCKETS addresses.
WithinMaxBuckets == Cardinality(Held(buckets)) <= MaxBuckets

\* The limiter, with a table that forgets idle clients and turns new ones away,
\* admits no more than one bucket per client that is never forgotten: what is
\* swept has refilled, what is refused costs nothing, what is served is paid.
Level(i) ==
  IF buckets[i] = Absent THEN Capacity
  ELSE Least(Capacity, buckets[i].tokens + buckets[i].age * Rps)

Promise == INSTANCE TokenBuckets WITH level <- [i \in IP |-> Level(i)]

ImplementsTokenBuckets == Promise!Spec

\* A client whose batch fits a bucket gets it served, or gives up, once the
\* others are quiet: no refusal costs tokens, and a full table opens up again.
RetryIsServed ==
  \A i \in IP :
    (<>[](\A j \in IP \ {i} : wants[j] = Absent))
      => []<>(wants[i] = Absent \/ wants[i].length > Capacity)
==============================================================================
