----------------------------- MODULE MCRouting ------------------------------
(* A small instance of Routing for TLC: a supported button beside the left one, one
   that is not, and wheel steps of two units. *)
EXTENDS Routing

MCDeltas == {-1, 1}
=============================================================================
