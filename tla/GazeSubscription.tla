-------------------------- MODULE GazeSubscription --------------------------
(***************************************************************************)
(* control1_pointer_forwarder.py and control1_gaze_logger.py in            *)
(* plugins/tracking_forwarder/: who owns the gaze callback, across script  *)
(* reloads.  The two modules differ only in what their callback does.      *)
(* Talon runs actions, readiness and reloads one after another; any call   *)
(* into its tracking system may raise, before or after its effect.         *)
(*                                                                         *)
(* A module is one execution of the file and the dispatcher it makes.  A   *)
(* load that raises leaves no module; what it has put on sys stays.        *)
(***************************************************************************)
EXTENDS ScriptModules

VARIABLES
    loaded,                 \* the module whose actions Talon runs
    registered,             \* its _registered
    retained,               \* sys.<_CALLBACK_KEY>
    enabled,                \* sys.<_STATE_KEY>
    tracked,                \* callbacks in talon.tracking_system
    stray,                  \* history: of these, the ones whose registration raised
    active, waiting, busy   \* dispatchers: started, with an event, delivering

owner == <<loaded, registered, retained, enabled, tracked, stray>>
vars == <<owner, active, waiting, busy>>

Init == /\ loaded = NoModule /\ registered = FALSE
        /\ retained = NoModule /\ enabled = "unset"
        /\ tracked = {} /\ stray = {}
        /\ active = {} /\ waiting = {} /\ busy = {}

(* GazeDispatch.stop. *)
StopDispatch(m) == /\ active' = active \ {m}
                   /\ waiting' = waiting \ {m}
                   /\ UNCHANGED busy

-----------------------------------------------------------------------------
(* _register_gaze: an owned subscription is left alone; a new one is started
   and retained.  If registering it raises, Talon may hold the callback: it is
   then neither started nor retained. *)
Register ==
    /\ enabled' = "on"
    /\ \/ /\ ~registered
          /\ tracked' = tracked \cup {loaded}
          /\ stray' = stray \ {loaded}
          /\ active' = active \cup {loaded}
          /\ retained' = loaded
          /\ registered' = TRUE
       \/ /\ ~registered
          /\ tracked' = tracked \cup {loaded}
          /\ stray' = stray \cup {loaded}
          /\ UNCHANGED <<registered, retained, active>>
       \/ UNCHANGED <<registered, retained, tracked, stray, active>>
    /\ UNCHANGED <<loaded, waiting, busy>>

(* Broken: a failed unregister gives the subscription up. *)
UnregisterForgets ==
    /\ enabled' = "off"
    /\ IF registered
         THEN /\ StopDispatch(loaded)
              /\ tracked' \in {tracked, tracked \ {loaded}}
              /\ retained' = NoModule
              /\ registered' = FALSE
         ELSE UNCHANGED <<registered, retained, tracked, active, waiting, busy>>
    /\ UNCHANGED <<loaded, stray>>

(* _unregister_gaze: stop the dispatcher, then give the subscription up; if
   that raises, it is still owned and retained. *)
Unregister ==
    /\ enabled' = "off"
    /\ IF registered
         THEN /\ StopDispatch(loaded)
              /\ \/ /\ tracked' = tracked \ {loaded}
                    /\ retained' = NoModule
                    /\ registered' = FALSE
                 \/ /\ tracked' \in {tracked, tracked \ {loaded}}
                    /\ UNCHANGED <<registered, retained>>
         ELSE UNCHANGED <<registered, retained, tracked, active, waiting, busy>>
    /\ UNCHANGED <<loaded, stray>>

(* The start and stop actions; toggle is one of them. *)
Start == loaded # NoModule /\ Register
Stop == loaded # NoModule /\ Unregister

(* _on_ready: the autostart setting counts once; then intent is reconciled. *)
Ready ==
    /\ loaded # NoModule
    /\ \E wanted \in {"on", "off"} :
          /\ enabled \in {"unset", wanted}
          /\ IF registered = (wanted = "on")
               THEN /\ enabled' = wanted
                    /\ UNCHANGED <<loaded, registered, retained, tracked, stray,
                                   active, waiting, busy>>
               ELSE IF wanted = "on" THEN Register ELSE Unregister

-----------------------------------------------------------------------------
(* The file is executed: retire the callback a former module left, ... *)

Forgotten == Modules \ (tracked \cup active \cup busy \cup {loaded, retained})
Others == tracked \ {retained}

(* ... which may raise, ... *)
RetirementFails ==
    /\ retained # NoModule
    /\ StopDispatch(retained)
    /\ tracked' \in {tracked, Others}
    /\ loaded' = NoModule /\ registered' = FALSE
    /\ UNCHANGED <<retained, enabled, stray>>

(* ... import, and resume what was enabled; either may raise, the latter also when
   Talon has taken the new module's callback. *)
LoadFails ==
    /\ StopDispatch(retained)
    /\ \/ tracked' = Others /\ UNCHANGED stray
       \/ /\ enabled = "on"
          /\ \E m \in Forgotten : tracked' = Others \cup {m} /\ stray' = stray \cup {m}
    /\ retained' = NoModule
    /\ loaded' = NoModule /\ registered' = FALSE
    /\ UNCHANGED enabled

(* Broken: a new module does not retire the callback it finds. *)
LoadsBeside(m) ==
    /\ m \in Forgotten
    /\ loaded' = m
    /\ registered' = (enabled = "on")
    /\ LET own == IF enabled = "on" THEN {m} ELSE {}
       IN /\ active' = active \cup own
          /\ tracked' = tracked \cup own
          /\ retained' = IF enabled = "on" THEN m ELSE retained
    /\ UNCHANGED <<enabled, stray, waiting, busy>>

Loads(m) ==
    /\ m \in Forgotten
    /\ loaded' = m
    /\ registered' = (enabled = "on")
    /\ LET own == IF enabled = "on" THEN {m} ELSE {}
       IN /\ active' = (active \ {retained}) \cup own
          /\ waiting' = waiting \ {retained}
          /\ tracked' = Others \cup own
          /\ retained' = IF enabled = "on" THEN m ELSE NoModule
    /\ UNCHANGED <<enabled, stray, busy>>

-----------------------------------------------------------------------------
(* The dispatchers, as Delivery has them.  Only the tracking system brings them
   events. *)

Accept(m) ==
    /\ m \in tracked \cap active /\ m \notin waiting \cup busy
    /\ waiting' = waiting \cup {m}
    /\ UNCHANGED <<owner, active, busy>>

Withdraw(m) ==
    /\ m \in waiting
    /\ waiting' = waiting \ {m}
    /\ UNCHANGED <<owner, active, busy>>

Begin(m) ==
    /\ m \in active \cap waiting
    /\ waiting' = waiting \ {m}
    /\ busy' = busy \cup {m}
    /\ UNCHANGED <<owner, active>>

End(m) ==
    /\ m \in busy
    /\ busy' = busy \ {m}
    /\ UNCHANGED <<owner, active, waiting>>

-----------------------------------------------------------------------------
Next == \/ Start \/ Stop \/ Ready
        \/ RetirementFails \/ LoadFails
        \/ \E m \in Modules :
              Loads(m) \/ Accept(m) \/ Withdraw(m) \/ Begin(m) \/ End(m)

Spec == Init /\ [][Next]_vars

-----------------------------------------------------------------------------
(* Properties. *)

(* Every variable has its type. *)
TypeOK ==
    /\ loaded \in Modules \cup {NoModule} /\ registered \in BOOLEAN
    /\ retained \in Modules \cup {NoModule}
    /\ enabled \in {"unset", "on", "off"}
    /\ tracked \subseteq Modules /\ stray \subseteq Modules /\ active \subseteq Modules
    /\ waiting \subseteq Modules /\ busy \subseteq Modules

(* Nothing is subscribed that the next load cannot retire: whatever unregister, load
   or registration raised before, the tracking system holds at most the retained
   callback.  What nobody can retire any more is a callback whose registration raised
   after Talon had taken it. *)
SubscriptionIsRetained == tracked \subseteq {retained} \cup stray

(* A dispatcher that was started is the loaded module's, subscribed and retained: the
   callback of an older module, or of a registration that raised, delivers nothing. *)
OnlyTheLoadedDelivers == active \subseteq {loaded} \cap {retained} \cap (tracked \ stray)

(* A replaced or stopped module may finish a delivery but begins none: every
   dispatcher is one Delivery, and what waits belongs to the loaded module. *)
NothingFromBeforeLoad == waiting \subseteq active /\ waiting \subseteq {loaded}

Dispatcher(m) == INSTANCE Delivery WITH on <- m \in active,
                                        waiting <- m \in waiting,
                                        busy <- m \in busy

(* Each module's dispatcher is used as a GazeDispatch allows. *)
UsesDelivery ==
    /\ \A m \in Modules : Dispatcher(m)!Init
    /\ [][\A m \in Modules :
             Dispatcher(m)!Next \/ UNCHANGED Dispatcher(m)!vars]_vars

(* A load that succeeds restores what the user asked for, and nothing of an
   older module is left but the silent callbacks of registrations that raised, after
   any sequence of failures. *)
LoadResumes ==
    [][loaded' # loaded /\ loaded' # NoModule
         => LET wanted == IF enabled = "on" THEN {loaded'} ELSE {}
            IN tracked' = wanted \cup stray /\ active' = wanted /\ waiting' = {}]_vars

(* What the start action's description says: a feature that is enabled and holds
   itself registered forwards gaze.  It fails after a stop whose unregister raised:
   start() then finds _registered set and returns. *)
EnabledDelivers == enabled = "on" /\ registered => loaded \in active
=============================================================================
