------------------------- MODULE MCGazeSubscription -------------------------
(* A small instance of GazeSubscription alone: the loaded module, a retained older
   one, one that still delivers and a new one. *)
EXTENDS GazeSubscription
=============================================================================
