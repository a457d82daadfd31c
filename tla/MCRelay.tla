------------------------------- MODULE MCRelay -------------------------------
(* Relay on small sets of calls and transactions. *)
EXTENDS Relay, TLC

\* Calls are interchangeable, and so are transactions.
RelaySymmetry == Permutations(Req) \cup Permutations(Tx)
=============================================================================
