------------------------------- MODULE MCEngine -------------------------------
(* Engine on two senders, the coinbase and one contract. *)
EXTENDS Engine, TLC

CONSTANTS a, b, x0, x1, y0, bad

\* Two transactions of one sender, one of the other, one that does not parse.
SmallSender == [x \in {x0, x1, bad} |-> a] @@ (y0 :> b)
SmallNonce == (x0 :> 0) @@ (x1 :> 1) @@ (y0 :> 0) @@ (bad :> 0)
===============================================================================
