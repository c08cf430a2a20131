--------------------------- MODULE MCGazeDispatch ---------------------------
(* A small instance of GazeDispatch for TLC. *)
EXTENDS GazeDispatch
=============================================================================
