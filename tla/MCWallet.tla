------------------------------- MODULE MCWallet -------------------------------
(* Wallet with a wallet, a stranger and room for one pending nonce. *)
EXTENDS Wallet
==============================================================================
