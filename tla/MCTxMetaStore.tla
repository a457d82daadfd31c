---------------------------- MODULE MCTxMetaStore ----------------------------
(* TxMetaStore on a few hashes and a short clock. *)
EXTENDS TxMetaStore, TLC

StoreSymmetry == Permutations(Hash)
=============================================================================
