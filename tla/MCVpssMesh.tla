---------------------------- MODULE MCVpssMesh ----------------------------
(* A small instance of VpssMesh. *)
EXTENDS VpssMesh, TLC

Symmetries == Permutations(Addr) \cup Permutations(Threads) \cup Permutations(ChnIds)
=============================================================================
