------------------------------ MODULE MCIndexing ------------------------------
(* Indexing on a handful of Koinos transactions. *)
EXTENDS Indexing, TLC

CONSTANTS k1, k2, k3, t1, t2

\* One EVM transaction relayed twice, and an entry that relays none.
TwiceAndOther == (k1 :> t1) @@ (k2 :> t1) @@ (k3 :> NotEvm)

\* Two EVM transactions, the first relayed twice.
TwiceAndOnce == (k1 :> t1) @@ (k2 :> t1) @@ (k3 :> t2)

\* Two EVM transactions, each relayed once.
OnceEach == (k1 :> t1) @@ (k2 :> t2)

\* One EVM transaction, and an entry that relays none.
OnceAndOther == (k1 :> t1) @@ (k2 :> NotEvm)
===============================================================================
