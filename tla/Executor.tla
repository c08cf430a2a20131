------------------------------ MODULE Executor ------------------------------
(***************************************************************************)
(* What WaylandConnection.execute() promises its callers: an at-most-once, *)
(* one-at-a-time executor whose refusals are final.  A caller is either    *)
(* answered with the outcome of its callback, or refused, and a refused    *)
(* callback has not run and never will: the caller may safely try another  *)
(* backend.  Nothing is said of threads, queues, timeouts or restarts.     *)
(***************************************************************************)

EXTENDS Naturals

CONSTANT Calls       \* the calls of execute() made from outside the owner

VARIABLES phase,     \* what has been decided about each call
          runs       \* how often its callback was started

vars == <<phase, runs>>

Init == /\ phase = [c \in Calls |-> "new"]
        /\ runs = [c \in Calls |-> 0]

Decide(c, what) == phase' = [phase EXCEPT ![c] = what]

(* The call is accepted; it may still be refused. *)
Submit(c) == phase[c] = "new" /\ Decide(c, "pending") /\ UNCHANGED runs

(* Unavailable, or timed out while queued. *)
Refuse(c) == phase[c] \in {"new", "pending"} /\ Decide(c, "refused")
             /\ UNCHANGED runs

(* A stop or a failure refuses several pending calls at once. *)
Sweep(S) == /\ \A c \in S : phase[c] = "pending"
            /\ phase' = [c \in Calls |-> IF c \in S THEN "refused" ELSE phase[c]]
            /\ UNCHANGED runs

(* The callback starts, while no other is executing. *)
Begin(c) == /\ phase[c] = "pending"
            /\ \A d \in Calls : phase[d] # "running"
            /\ Decide(c, "running")
            /\ runs' = [runs EXCEPT ![c] = @ + 1]

(* It returns or raises: that is the caller's answer. *)
Complete(c) == phase[c] = "running" /\ Decide(c, "completed") /\ UNCHANGED runs

Next == \/ \E c \in Calls : Submit(c) \/ Refuse(c) \/ Begin(c) \/ Complete(c)
        \/ \E S \in SUBSET Calls : Sweep(S)

Spec == Init /\ [][Next]_vars
=============================================================================
