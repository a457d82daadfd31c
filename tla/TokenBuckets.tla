----------------------------- MODULE TokenBuckets -----------------------------
(***************************************************************************)
(* What rate limiting promises a reader of limit.rs: every client has a    *)
(* bucket of its own that is always there, refills with time up to its     *)
(* capacity, and pays for every request that is served.  No table, no      *)
(* sweep, no idle clients.                                                 *)
(***************************************************************************)
EXTENDS Naturals

CONSTANTS
  IP,        \* clients
  Capacity,  \* tokens in a full bucket
  Rps        \* tokens that come back in one unit of time

VARIABLES
  level,     \* tokens of each client now
  answer     \* the last call: who, how many requests were served, and a bit
             \* that tells it from the call before

vars == <<level, answer>>

Least(a, b) == IF a < b THEN a ELSE b

Init ==
  /\ level = [i \in IP |-> Capacity]
  /\ answer \in [ip : IP, served : {0}, turn : {0}]

Answer(i, n) == answer' = [ip |-> i, served |-> n, turn |-> 1 - answer.turn]

\* n requests are served and paid for.
Serve ==
  \E i \in IP : \E n \in 1..level[i] :
    /\ level' = [level EXCEPT ![i] = @ - n]
    /\ Answer(i, n)

\* Nothing is served; a call that is malformed may cost a token all the same.
Refuse ==
  \E i \in IP :
    /\ level' \in {level, [level EXCEPT ![i] = IF @ > 0 THEN @ - 1 ELSE 0]}
    /\ Answer(i, 0)

Tick ==
  /\ level' = [i \in IP |-> Least(Capacity, level[i] + Rps)]
  /\ UNCHANGED answer

Next == Serve \/ Refuse \/ Tick

Spec == Init /\ [][Next]_vars
===============================================================================
