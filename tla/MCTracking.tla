----------------------------- MODULE MCTracking -----------------------------
(* A small instance of GazeSubscription and of Overlay for TLC.  The scripts share
   no state, so that a behaviour of either, with the other at rest, is enough. *)
EXTENDS GazeSubscription, Overlay, TLC

VARIABLE script             \* the one that is used

Symmetry == Permutations(Modules) \cup Permutations(Canvases)

TrackingInit == Init /\ OverlayInit /\ script \in {"subscription", "overlay"}

SubscriptionNext == script = "subscription" /\ Next /\ UNCHANGED <<script, overlayVars>>
OverlayAloneNext == script = "overlay" /\ OverlayNext /\ UNCHANGED <<script, vars>>

TrackingSpec == TrackingInit
                /\ [][SubscriptionNext \/ OverlayAloneNext]_<<vars, overlayVars, script>>
=============================================================================
