--------------------------- MODULE RateLimitProofs ---------------------------
(***************************************************************************)
(* The rate limiter's table stays within its bound and implements one      *)
(* bucket per client that is never forgotten, for every number of clients, *)
(* every table size and every rate under which an idle bucket is full.     *)
(***************************************************************************)
EXTENDS RateLimit, FiniteSetTheorems, TLAPS

\* Arithmetic the backends do not find by themselves.
LEMMA TimesMonotone ==
  ASSUME NEW a \in Nat, NEW b \in Nat, NEW r \in Nat, a <= b
  PROVE  a * r <= b * r
<1>1. PICK d \in Nat : b = a + d
  BY b - a \in Nat, b = a + (b - a)
<1>2. b * r = a * r + d * r
  BY <1>1
<1>3. d * r \in Nat /\ a * r \in Nat
  OBVIOUS
<1>4. QED
  BY <1>2, <1>3

\* One more unit of time is one more refill, and capping twice is capping once.
LEMMA TimesNext ==
  ASSUME NEW a \in Nat, NEW r \in Nat
  PROVE  (a + 1) * r = a * r + r
OBVIOUS

LEMMA LeastTwice ==
  ASSUME NEW c \in Nat, NEW x \in Nat, NEW r \in Nat
  PROVE  Least(c, x + r) = Least(c, Least(c, x) + r)
BY DEF Least

\* The numbers among the parameters.
LEMMA ParameterTypes ==
  /\ Rps \in Nat /\ MaxBuckets \in Nat \ {0} /\ AgeCap \in Nat /\ IdleSweep \in Nat
  /\ IsFiniteSet(IP)
BY RateLimitAssumption

\* A bucket holds at least one token when it is full.
LEMMA CapacityType == Capacity \in Nat \ {0}
BY RateLimitAssumption DEF Capacity, Most

\* The tokens a client would find in a table.
LevelIn(table, i) ==
  IF table[i] = Absent THEN Capacity
  ELSE Least(Capacity, table[i].tokens + table[i].age * Rps)

\* Levels are numbers of tokens, and a bucket of age 0 holds what it says.
LEMMA LevelType ==
  ASSUME NEW table \in [IP -> Bucket \cup {Absent}], NEW i \in IP
  PROVE  /\ LevelIn(table, i) \in 0..Capacity
         /\ table[i] # Absent /\ table[i].age = 0 => LevelIn(table, i) = table[i].tokens
<1>1. CASE table[i] = Absent
  BY <1>1, CapacityType DEF LevelIn
<1>2. CASE table[i] # Absent
  <2>1. table[i].tokens \in 0..Capacity /\ table[i].age \in Nat
    BY <1>2, RateLimitAssumption DEF Bucket
  <2>2. table[i].age * Rps \in Nat
    BY <2>1, RateLimitAssumption
  <2>3. table[i].age = 0 => table[i].age * Rps = 0
    BY RateLimitAssumption
  <2>4. QED
    BY <1>2, <2>1, <2>2, <2>3, CapacityType DEF LevelIn, Least
<1>3. QED
  BY <1>1, <1>2

\* An idle bucket is a full one: the sweep changes nobody's level.
LEMMA SweepKeepsLevels ==
  ASSUME NEW table \in [IP -> Bucket \cup {Absent}], NEW i \in IP
  PROVE  LevelIn(Swept(table), i) = LevelIn(table, i)
<1>1. CASE table[i] = Absent
  BY <1>1 DEF LevelIn, Swept
<1>2. CASE table[i] # Absent /\ table[i].age < IdleSweep
  BY <1>2 DEF LevelIn, Swept
<1>3. CASE table[i] # Absent /\ ~(table[i].age < IdleSweep)
  <2>1. table[i].tokens \in 0..Capacity /\ table[i].age \in Nat
    BY <1>3, RateLimitAssumption DEF Bucket
  <2>2. IdleSweep * Rps <= table[i].age * Rps
    BY <1>3, <2>1, RateLimitAssumption, TimesMonotone
  <2>3. table[i].age * Rps \in Nat /\ IdleSweep * Rps \in Nat
    BY <2>1, RateLimitAssumption
  <2>4. Capacity <= table[i].tokens + table[i].age * Rps
    BY <2>1, <2>2, <2>3, IdleIsFull, CapacityType
  <2>5. LevelIn(table, i) = Capacity
    BY <1>3, <2>1, <2>3, <2>4, CapacityType DEF LevelIn, Least
  <2>6. LevelIn(Swept(table), i) = Capacity
    BY <1>3 DEF LevelIn, Swept
  <2>7. QED
    BY <2>5, <2>6
<1>4. QED
  BY <1>1, <1>2, <1>3

\* The table allow works on, and the tokens it finds there.
LEMMA TableFacts ==
  ASSUME TypeOK, NEW i \in IP
  PROVE  /\ Table(i) \in [IP -> Bucket \cup {Absent}]
         /\ \A j \in IP : LevelIn(Table(i), j) = Level(j)
         /\ Tokens(i) = Level(i) /\ Tokens(i) \in 0..Capacity
         /\ Held(Table(i)) \subseteq Held(buckets)
<1>1. buckets \in [IP -> Bucket \cup {Absent}]
  BY DEF TypeOK
<1>2. Swept(buckets) \in [IP -> Bucket \cup {Absent}] /\ Held(Swept(buckets)) \subseteq Held(buckets)
  BY <1>1 DEF Swept, Held
<1>3. \A j \in IP : LevelIn(buckets, j) = Level(j)
  BY DEF LevelIn, Level
<1>4. \A j \in IP : LevelIn(Table(i), j) = Level(j)
  BY <1>1, <1>3, SweepKeepsLevels DEF Table
<1>5. Table(i) \in [IP -> Bucket \cup {Absent}] /\ Held(Table(i)) \subseteq Held(buckets)
  BY <1>1, <1>2 DEF Table
<1>6. Tokens(i) = LevelIn(Table(i), i)
  BY DEF Tokens, LevelIn
<1>7. QED
  BY <1>4, <1>5, <1>6, LevelType

\* What one call of allow does to everybody's level.
LEMMA ChargeLevels ==
  ASSUME TypeOK, NEW i \in IP, NEW n \in Nat, Charge(i, n)
  PROVE  /\ buckets' \in [IP -> Bucket \cup {Absent}]
         /\ \A j \in IP \ {i} : Level(j)' = Level(j)
         /\ Level(i)' = IF Allows(i, n) THEN Level(i) - Cost(n) ELSE Level(i)
<1>1. /\ Table(i) \in [IP -> Bucket \cup {Absent}]
      /\ \A j \in IP : LevelIn(Table(i), j) = Level(j)
      /\ Tokens(i) = Level(i) /\ Tokens(i) \in 0..Capacity
  BY TableFacts
<1>2. \A j \in IP : Level(j)' = LevelIn(buckets', j)
  BY DEF Level, LevelIn
<1>3. Cost(n) \in Nat
  BY DEF Cost, Most
<1>4. CASE TurnedAway(i)
  BY <1>1, <1>2, <1>4 DEF Charge, Allows
<1>5. CASE ~TurnedAway(i)
  <2> DEFINE left == IF Allows(i, n) THEN Tokens(i) - Cost(n) ELSE Tokens(i)
             new == [tokens |-> left, age |-> 0]
  <2>1. left \in 0..Capacity
    BY <1>1, <1>3, CapacityType DEF Allows
  <2>2. new \in Bucket /\ new # Absent
    BY <2>1, CapacityType, RateLimitAssumption DEF Bucket
  <2>3. buckets' = [Table(i) EXCEPT ![i] = new]
    BY <1>5 DEF Charge
  <2>4. buckets' \in [IP -> Bucket \cup {Absent}] /\ buckets'[i] = new
    BY <1>1, <2>2, <2>3
  <2>5. \A j \in IP \ {i} : LevelIn(buckets', j) = LevelIn(Table(i), j)
    BY <1>1, <2>3 DEF LevelIn
  <2>6. LevelIn(buckets', i) = left
    BY <2>2, <2>4, LevelType
  <2>7. QED
    BY <1>1, <1>2, <2>4, <2>5, <2>6
<1>6. QED
  BY <1>4, <1>5

\* A unit of time adds Rps tokens to every bucket that is not full.
LEMMA TickLevels ==
  ASSUME TypeOK, Tick, NEW i \in IP
  PROVE  /\ buckets' \in [IP -> Bucket \cup {Absent}]
         /\ Level(i)' = Least(Capacity, Level(i) + Rps)
<1>1. buckets' \in [IP -> Bucket \cup {Absent}]
  <2>1. ASSUME NEW j \in IP, buckets[j] # Absent
        PROVE  [buckets[j] EXCEPT !.age = Least(@ + 1, AgeCap)] \in Bucket
    BY <2>1, RateLimitAssumption DEF TypeOK, Bucket, Least
  <2>2. QED
    BY <2>1 DEF Tick, TypeOK
<1>2. CASE buckets[i] = Absent
  <2>1. Level(i) = Capacity /\ Level(i)' = Capacity
    BY <1>2 DEF Tick, Level
  <2>2. QED
    BY <1>1, <2>1, CapacityType, ParameterTypes DEF Least
<1>3. CASE buckets[i] # Absent
  <2> DEFINE t == buckets[i].tokens
             a == buckets[i].age
             b == Least(a + 1, AgeCap)
  <2>1. t \in 0..Capacity /\ a \in 0..AgeCap /\ Rps \in Nat /\ AgeCap \in Nat
    BY <1>3, RateLimitAssumption DEF TypeOK, Bucket
  <2>2. buckets'[i] # Absent /\ buckets'[i].tokens = t /\ buckets'[i].age = b
    <3>1. buckets'[i] = [buckets[i] EXCEPT !.age = b]
      BY <1>3 DEF Tick
    <3>2. buckets[i] \in Bucket
      BY <1>3 DEF TypeOK
    <3>3. [buckets[i] EXCEPT !.age = b] = [tokens |-> t, age |-> b]
      BY <3>2 DEF Bucket
    <3>4. b \in Nat
      BY <2>1 DEF Least
    <3>5. QED
      BY <3>1, <3>3, <3>4, <2>1, RateLimitAssumption, CapacityType
  <2>3. Level(i) = Least(Capacity, t + a * Rps) /\ Level(i)' = Least(Capacity, t + b * Rps)
    BY <1>3, <2>2 DEF Level
  <2>4. a * Rps \in Nat /\ b * Rps \in Nat
    BY <2>1 DEF Least
  <2>5. CASE a + 1 <= AgeCap
    <3>1. b = a + 1 /\ a \in Nat
      BY <2>1, <2>5 DEF Least
    <3>2. b * Rps = a * Rps + Rps
      BY <2>1, <3>1, TimesNext
    <3>3. t + a * Rps \in Nat /\ t + b * Rps = (t + a * Rps) + Rps
      BY <2>1, <2>4, <3>2, CapacityType
    <3>4. Least(Capacity, (t + a * Rps) + Rps) = Least(Capacity, Least(Capacity, t + a * Rps) + Rps)
      BY <2>1, <3>3, LeastTwice, CapacityType
    <3>5. QED
      BY <1>1, <2>3, <3>3, <3>4
  <2>6. CASE ~(a + 1 <= AgeCap)
    <3>1. a = AgeCap /\ b = AgeCap
      BY <2>1, <2>6 DEF Least
    <3>2. Capacity <= a * Rps /\ Capacity <= b * Rps
      BY <3>1, RateLimitAssumption
    <3>3. Level(i) = Capacity /\ Level(i)' = Capacity
      BY <2>1, <2>3, <2>4, <3>2, CapacityType DEF Least
    <3>4. QED
      BY <1>1, <2>1, <3>3, CapacityType DEF Least
  <2>7. QED
    BY <2>5, <2>6
<1>4. QED
  BY <1>1, <1>2, <1>3

-----------------------------------------------------------------------------
\* Every variable of the limiter and its callers stays in its type.
THEOREM RateLimitTypes == Spec => []TypeOK
<1>1. Init => TypeOK
  BY DEF Init, TypeOK
<1>2. TypeOK /\ [Next]_vars => TypeOK'
  <2>1. SUFFICES ASSUME TypeOK, [Next]_vars PROVE TypeOK'
    OBVIOUS
  <2>2. ASSUME NEW i \in IP, NEW b \in Batch, Want(i, b) PROVE TypeOK'
    BY <2>1, <2>2 DEF Want, TypeOK
  <2>3. ASSUME NEW i \in IP, GiveUp(i) PROVE TypeOK'
    BY <2>1, <2>3 DEF GiveUp, TypeOK
  <2>4. ASSUME NEW i \in IP, Try(i) PROVE TypeOK'
    <3>1. wants[i] # Absent => wants[i].length \in Nat
      BY <2>1, RateLimitAssumption DEF TypeOK, Batch
    <3>2. PICK n \in Nat : Charge(i, n) /\ \E k \in Nat : Answer(i, k)
      BY <2>4, <3>1 DEF Try, HandleTooLarge, Handle, HandleLimited
    <3>3. buckets' \in [IP -> Bucket \cup {Absent}]
      BY <2>1, <3>2, ChargeLevels
    <3>4. answer' \in [ip : IP, served : Nat, turn : {0, 1}]
      BY <2>1, <3>2 DEF Answer, TypeOK
    <3>5. wants' \in [IP -> Batch \cup {Absent}]
      BY <2>1, <2>4 DEF Try, HandleTooLarge, Handle, HandleLimited, TypeOK
    <3>6. QED
      BY <3>3, <3>4, <3>5 DEF TypeOK
  <2>5. CASE Tick
    BY <2>1, <2>5, TickLevels, RateLimitAssumption DEF Tick, TypeOK
  <2>6. CASE UNCHANGED vars
    BY <2>1, <2>6 DEF TypeOK, vars
  <2>7. QED
    BY <2>1, <2>2, <2>3, <2>4, <2>5, <2>6 DEF Next
<1>3. QED
  BY <1>1, <1>2, PTL DEF Spec

\* allow never lets the table grow past MAX_BUCKETS.
THEOREM TableIsBounded == Spec => []WithinMaxBuckets
<1>1. Init => WithinMaxBuckets
  <2>1. Init => Held(buckets) = {}
    BY DEF Init, Held
  <2>2. QED
    BY <2>1, FS_EmptySet, ParameterTypes DEF WithinMaxBuckets
<1>2. TypeOK /\ WithinMaxBuckets /\ [Next]_vars => WithinMaxBuckets'
  <2>1. SUFFICES ASSUME TypeOK, WithinMaxBuckets, [Next]_vars PROVE WithinMaxBuckets'
    OBVIOUS
  <2>2. \A table : IsFiniteSet(Held(table)) /\ Cardinality(Held(table)) \in Nat
    BY RateLimitAssumption, FS_Subset, FS_CardinalityType DEF Held
  <2>3. ASSUME NEW i \in IP, NEW n \in Nat, Charge(i, n) PROVE WithinMaxBuckets'
    <3>1. Held(Table(i)) \subseteq Held(buckets) /\ Table(i) \in [IP -> Bucket \cup {Absent}]
      BY <2>1, TableFacts
    <3>2. Cardinality(Held(Table(i))) <= MaxBuckets
      <4>1. Cardinality(Held(Table(i))) <= Cardinality(Held(buckets))
        BY <2>2, <3>1, FS_Subset
      <4>2. QED
        BY <2>1, <2>2, <4>1, RateLimitAssumption DEF WithinMaxBuckets
    <3>3. CASE TurnedAway(i)
      BY <2>3, <3>2, <3>3 DEF Charge, WithinMaxBuckets, Held
    <3>4. CASE ~TurnedAway(i) /\ Table(i)[i] # Absent
      <4>1. Held(buckets') \subseteq Held(Table(i))
        BY <2>3, <3>1, <3>4 DEF Charge, Held
      <4>2. Cardinality(Held(buckets')) <= Cardinality(Held(Table(i)))
        BY <2>2, <4>1, FS_Subset
      <4>3. QED
        BY <2>2, <3>2, <4>2, ParameterTypes DEF WithinMaxBuckets
    <3>5. CASE ~TurnedAway(i) /\ Table(i)[i] = Absent
      <4>1. Held(buckets') \subseteq Held(Table(i)) \cup {i}
        BY <2>3, <3>1, <3>5 DEF Charge, Held
      <4>2. i \notin Held(Table(i))
        BY <3>5 DEF Held
      <4>3. /\ IsFiniteSet(Held(Table(i)) \cup {i})
            /\ Cardinality(Held(Table(i)) \cup {i}) = Cardinality(Held(Table(i))) + 1
        BY <2>2, <4>2, FS_AddElement
      <4>4. Cardinality(Held(buckets')) <= Cardinality(Held(Table(i))) + 1
        BY <4>1, <4>3, FS_Subset
      <4>5. ~(Cardinality(Held(Table(i))) >= MaxBuckets)
        BY <3>5 DEF TurnedAway, Full
      <4>6. QED
        BY <2>2, <4>4, <4>5, ParameterTypes DEF WithinMaxBuckets
    <3>6. QED
      BY <3>3, <3>4, <3>5
  <2>4. ASSUME NEW i \in IP, Try(i) PROVE WithinMaxBuckets'
    <3>1. wants[i] # Absent => wants[i].length \in Nat
      BY <2>1, RateLimitAssumption DEF TypeOK, Batch
    <3>2. QED
      BY <2>3, <2>4, <3>1 DEF Try, HandleTooLarge, Handle, HandleLimited
  <2>5. CASE Tick
    <3>1. Held(buckets)' \subseteq Held(buckets)
      BY <2>5 DEF Tick, Held
    <3>2. Cardinality(Held(buckets')) <= Cardinality(Held(buckets))
      BY <2>2, <3>1, FS_Subset DEF Held
    <3>3. QED
      BY <2>1, <2>2, <3>2, RateLimitAssumption DEF WithinMaxBuckets, Held
  <2>6. CASE UNCHANGED buckets
    BY <2>1, <2>6 DEF WithinMaxBuckets, Held
  <2>7. QED
    BY <2>1, <2>4, <2>5, <2>6 DEF Next, Want, GiveUp, vars
<1>3. QED
  BY <1>1, <1>2, RateLimitTypes, PTL DEF Spec

\* The limiter admits no more than one never-forgotten bucket per client would:
\* what allow sweeps has refilled, and the callers pay for what they serve.
THEOREM RateLimitKeepsPromise == Spec => ImplementsTokenBuckets
<1>1. Init => Promise!Init
  BY DEF Init, Promise!Init, Level
<1>2. TypeOK /\ [Next]_vars => [Promise!Next]_(Promise!vars)
  <2>1. SUFFICES ASSUME TypeOK, [Next]_vars PROVE [Promise!Next]_(Promise!vars)
    OBVIOUS
  <2> DEFINE lv == [i \in IP |-> Level(i)]
  <2>a. \A i \in IP : lv[i] = Level(i)
    OBVIOUS
  <2>2. ASSUME NEW i \in IP, Try(i) PROVE Promise!Next
    <3>1. wants[i] # Absent => wants[i].length \in Nat
      BY <2>1, RateLimitAssumption DEF TypeOK, Batch
    <3>2. Tokens(i) = Level(i) /\ Level(i) \in 0..Capacity /\ Capacity \in Nat
      BY <2>1, TableFacts, CapacityType
    <3>3. ASSUME NEW n \in Nat, Charge(i, n)
          PROVE  lv' = [lv EXCEPT ![i] = IF Allows(i, n) THEN @ - Cost(n) ELSE @]
      BY <2>1, <3>3, ChargeLevels
    <3>4. CASE HandleTooLarge(i)
      <4>1. lv' \in {lv, [lv EXCEPT ![i] = IF @ > 0 THEN @ - 1 ELSE 0]}
        <5>1. Charge(i, 1) /\ Cost(1) = 1
          BY <3>4 DEF HandleTooLarge, Cost, Most
        <5>2. Allows(i, 1) => lv[i] > 0
          BY <3>2, <5>1 DEF Allows
        <5>3. lv' = [lv EXCEPT ![i] = IF Allows(i, 1) THEN @ - 1 ELSE @]
          BY <3>3, <5>1
        <5>4. lv = [lv EXCEPT ![i] = lv[i]]
          OBVIOUS
        <5> HIDE DEF lv
        <5>5. CASE Allows(i, 1)
          BY <5>2, <5>3, <5>5
        <5>6. CASE ~Allows(i, 1)
          BY <5>3, <5>4, <5>6
        <5>7. QED
          BY <5>5, <5>6
      <4>2. Promise!Refuse
        BY <3>4, <4>1 DEF HandleTooLarge, Answer, Promise!Refuse, Promise!Answer
      <4>3. QED
        BY <4>2 DEF Promise!Next
    <3>5. CASE HandleLimited(i)
      <4>1. lv' = lv
        BY <3>1, <3>3, <3>5 DEF HandleLimited
      <4>2. Promise!Refuse
        BY <3>5, <4>1 DEF HandleLimited, Answer, Promise!Refuse, Promise!Answer
      <4>3. QED
        BY <4>2 DEF Promise!Next
    <3>6. CASE Handle(i)
      <4> DEFINE n == wants[i].length
      <4>1. n \in Nat /\ Charge(i, n) /\ Answer(i, n) /\ Allows(i, n)
        BY <3>1, <3>6 DEF Handle
      <4>2. lv' = [lv EXCEPT ![i] = @ - Cost(n)]
        BY <3>3, <4>1
      <4>3. CASE n = 0
        <5>1. lv' \in {lv, [lv EXCEPT ![i] = IF @ > 0 THEN @ - 1 ELSE 0]}
          <6>1. Cost(n) = 1
            BY <4>3 DEF Cost, Most
          <6>2. lv[i] > 0
            BY <3>2, <4>1, <6>1 DEF Allows
          <6> HIDE DEF lv
          <6>3. QED
            BY <4>2, <6>1, <6>2
        <5>2. Promise!Refuse
          BY <4>1, <4>3, <5>1 DEF Answer, Promise!Refuse, Promise!Answer
        <5>3. QED
          BY <5>2 DEF Promise!Next
      <4>4. CASE n # 0
        <5>1. Cost(n) = n /\ n \in 1..lv[i]
          BY <3>2, <4>1, <4>4 DEF Allows, Cost, Most
        <5>2. Promise!Serve
          BY <4>1, <4>2, <5>1 DEF Answer, Promise!Serve, Promise!Answer
        <5>3. QED
          BY <5>2 DEF Promise!Next
      <4>5. QED
        BY <4>3, <4>4
    <3>7. QED
      BY <2>2, <3>4, <3>5, <3>6 DEF Try
  <2>3. CASE Tick
    <3>1. lv' = [i \in IP |-> Least(Capacity, lv[i] + Rps)]
      BY <2>1, <2>3, TickLevels
    <3>2. Promise!Tick
      BY <2>3, <3>1 DEF Tick, Promise!Tick, Promise!Least, Least
    <3>3. QED
      BY <3>2 DEF Promise!Next
  <2>4. CASE UNCHANGED <<buckets, answer>>
    BY <2>4 DEF Promise!vars, Level
  <2>5. QED
    BY <2>1, <2>2, <2>3, <2>4 DEF Next, Want, GiveUp, vars
<1>3. QED
  BY <1>1, <1>2, RateLimitTypes, PTL DEF Spec, ImplementsTokenBuckets, Promise!Spec
==============================================================================
