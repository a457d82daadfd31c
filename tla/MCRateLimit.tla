----------------------------- MODULE MCRateLimit -----------------------------
(* RateLimit on a handful of clients. *)
EXTENDS RateLimit
==============================================================================
