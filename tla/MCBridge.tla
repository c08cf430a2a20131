------------------------------ MODULE MCBridge ------------------------------
(* Small instances of Bridge for TLC. *)
EXTENDS Bridge, TLC

MCBridges == 1..2
MCGenerations == <<3, 2>>

(* Handles and labels are only compared; no property of the run is temporal. *)
Interchangeable == Permutations(Handles) \cup Permutations(Labels)

(* Windows to follow; a window and a rival provider; keys to press and a rival
   clipboard. *)
MCSurroundings ==
    {[windows |-> Handles, keyboard |-> FALSE, clipboard |-> FALSE, rivals |-> {}]} \cup
    {[windows |-> {h}, keyboard |-> FALSE, clipboard |-> FALSE, rivals |-> {"app"}] : h \in Handles} \cup
    {[windows |-> {}, keyboard |-> TRUE, clipboard |-> TRUE, rivals |-> {"clip"}]}
=============================================================================
