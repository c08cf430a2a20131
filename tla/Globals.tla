------------------------------ MODULE Globals ------------------------------
(***************************************************************************)
(* plugins/wayland_backend/connection.py: the registry of the globals the  *)
(* compositor announces, for the interfaces of which one is used at a time *)
(* (adapters with multiple = False).  Each operator is the bookkeeping of  *)
(* one callback; what the adapter does in bind() and remove() is conjoined *)
(* by the module that composes them.                                       *)
(***************************************************************************)
EXTENDS Sequences, SequencesExt

CONSTANTS Interfaces,       \* interface_name of the singleton adapters
          GlobalIds,        \* registry names of their globals
          NoGlobal          \* no global is active

ASSUME GlobalsAssumption == NoGlobal \notin GlobalIds

VARIABLES announced,        \* _announced_globals, in the order of announcement
          active            \* _active_globals

globals == <<announced, active>>

GlobalsTypeOK ==
    /\ announced \in [Interfaces -> Seq(GlobalIds)]
    /\ active \in [Interfaces -> GlobalIds \cup {NoGlobal}]

GlobalsInit ==
    /\ announced = [i \in Interfaces |-> <<>>]
    /\ active = [i \in Interfaces |-> NoGlobal]

(* _on_global: the announcement is recorded whatever becomes of the binding. *)
Announced(i, g) ==
    /\ g \notin Range(announced[i])
    /\ announced' = [announced EXCEPT ![i] = Append(@, g)]

(* _on_global_remove, deactivate: so is its end. *)
Withdrawn(i, g) ==
    \E n \in DOMAIN announced[i] :
        /\ announced[i][n] = g
        /\ announced' = [announced EXCEPT ![i] = RemoveAt(@, n)]

(* _activate_next: the oldest announcement that is left. *)
Candidate(i) == IF announced'[i] = <<>> THEN NoGlobal ELSE Head(announced'[i])

(* _bind: a global is active once its adapter's bind() has returned. *)
Activated(i, g) == active' = [active EXCEPT ![i] = g]

(* _disconnect(). *)
GlobalsForgotten == /\ announced' = [i \in Interfaces |-> <<>>]
                    /\ active' = [i \in Interfaces |-> NoGlobal]
=============================================================================
