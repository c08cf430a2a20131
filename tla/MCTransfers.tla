---------------------------- MODULE MCTransfers ----------------------------
(* Small instances of Transfers for TLC. *)
EXTENDS Transfers, TLC

(* Transfers, descriptors and reads are interchangeable. *)
Symmetry == Permutations(Transfers) \cup Permutations(Descriptors) \cup Permutations(Reads)
=============================================================================
