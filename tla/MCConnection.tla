---------------------------- MODULE MCConnection ----------------------------
(* Small instances of Connection for TLC. *)
EXTENDS Connection, TLC

(* Calls behave alike and so do controllers. *)
Symmetry == Permutations(Calls) \cup Permutations(Controllers)
=============================================================================
