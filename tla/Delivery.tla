------------------------------ MODULE Delivery ------------------------------
(***************************************************************************)
(* What a GazeDispatch promises the feature that owns it: at most one      *)
(* event waits, deliveries come one at a time and only while it is         *)
(* started, and a stop withdraws the event that waits.  Nothing is said of *)
(* locks, tokens, workers or cron.                                         *)
(***************************************************************************)
VARIABLES on,        \* between start() and stop()
          waiting,   \* an accepted event has not been delivered
          busy       \* the callback is running

vars == <<on, waiting, busy>>

Init == ~on /\ ~waiting /\ ~busy

Start == on' = TRUE /\ UNCHANGED <<waiting, busy>>
Stop == on' = FALSE /\ waiting' = FALSE /\ UNCHANGED busy
Accept == on /\ ~waiting /\ ~busy /\ waiting' = TRUE /\ UNCHANGED <<on, busy>>

(* No delivery could be scheduled. *)
Withdraw == waiting /\ waiting' = FALSE /\ UNCHANGED <<on, busy>>

Begin == on /\ waiting /\ ~busy /\ waiting' = FALSE /\ busy' = TRUE /\ UNCHANGED on
End == busy /\ busy' = FALSE /\ UNCHANGED <<on, waiting>>

Next == Start \/ Stop \/ Accept \/ Withdraw \/ Begin \/ End

Spec == Init /\ [][Next]_vars
=============================================================================
