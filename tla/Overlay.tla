------------------------------ MODULE Overlay -------------------------------
(***************************************************************************)
(* plugins/tracking_forwarder/control1_debug_overlay.py: the gaze marker on*)
(* a canvas per screen, with the notification of Control Mouse's state in  *)
(* control1_state_events.py.  Talon's main thread runs actions, screen     *)
(* changes and reloads one after another; each is one step, of which any   *)
(* call into Talon may raise.  Cron's thread runs _update_gaze() beside it.*)
(*                                                                         *)
(* As in VirtualPointer an operator gives the outcomes of a function: the  *)
(* state it leaves, and whether it raised.  Where the gaze is on a screen  *)
(* is left out: a marker is on every canvas, or on none.                   *)
(***************************************************************************)
EXTENDS ScriptModules, Naturals, FiniteSets

CONSTANTS Canvases,         \* canvases; a closed and forgotten one is used again
          MaxScreens        \* screens that are attached at once

ASSUME OverlayAssumption == MaxScreens \in Nat /\ Modules \cap Canvases = {}

VARIABLES
    overlay,                \* the script's state and what Talon holds for it
    running,                \* the module whose actions Talon runs
    control,                \* tracking.control1_enabled()
    screens,                \* how many there are
    updates                 \* of each module, the _update_gaze() that is past its tests

overlayVars == <<overlay, running, control, screens, updates>>

Nobody == [enabled |-> FALSE, callbacks |-> {}, entries |-> {}]
Untold == [at |-> "idle", entries |-> {}]

OverlayInit ==
    /\ overlay = [enabled |-> FALSE,    \* _overlay_enabled
                  registered |-> FALSE, \* _gaze_registered
                  dot |-> FALSE,        \* _dot_pos
                  entries |-> {},       \* _canvas_entries
                  kept |-> Nobody,      \* sys.<_RELOAD_STATE_KEY>
                  tracked |-> {},       \* callbacks in talon.tracking_system
                  stray |-> {},         \* history: of these, those whose registration raised
                  active |-> {}, waiting |-> {},    \* dispatchers, as in Delivery
                  open |-> {},          \* canvases not closed
                  marked |-> {},        \* of these, the ones with a marker
                  stuck |-> {},         \* history: what raised when it was last released
                  missed |-> FALSE]     \* history: a marker is known not to be right
    /\ running = NoModule /\ control = FALSE /\ screens \in 0..MaxScreens
    /\ updates = [m \in Modules |-> Untold]

Fine(s) == [s |-> s, raised |-> FALSE]
Broke(s) == [s |-> s, raised |-> TRUE]
Then(outcomes, Step(_)) == UNION {IF o.raised THEN {o} ELSE Step(o.s) : o \in outcomes}
Raising(outcomes) == {Broke(o.s) : o \in outcomes}

-----------------------------------------------------------------------------
(* _publish_reload_state(). *)
Published(s, m) ==
    [s EXCEPT !.kept = [enabled |-> s.enabled, entries |-> s.entries,
                        callbacks |-> IF s.registered THEN {m} ELSE {}]]

(* What closing these canvases leaves: each is tried, those that raise stay. *)
Closed(s, canvases, left) ==
    [s EXCEPT !.open = @ \ (canvases \ left), !.marked = @ \ (canvases \ left),
              !.stuck = (@ \ canvases) \cup left]

(* Broken: a canvas that cannot be closed is dropped. *)
CloseCanvasesAll(s, m) ==
    UNION {LET done == Published([Closed(s, s.entries, left) EXCEPT !.entries = {}], m)
           IN  {Broke(done)} \cup IF left = {} THEN {Fine(done)} ELSE {} :
           left \in SUBSET s.entries}

(* _close_canvases(); it also raises if only a draw callback could not be removed. *)
CloseCanvases(s, m) ==
    UNION {LET done == Published([Closed(s, s.entries, left) EXCEPT !.entries = left], m)
           IN  (IF s.entries = {} THEN {} ELSE {Broke(done)})
               \cup IF left = {} THEN {Fine(done)} ELSE {} :
           left \in SUBSET s.entries}

(* Canvases nobody refers to. *)
Unused(s) == Canvases \ (s.open \cup s.entries \cup s.kept.entries
                         \cup UNION {updates[m].entries : m \in Modules})

(* A canvas is drawn when it is made. *)
Made(s, canvases) == [s EXCEPT !.entries = canvases, !.open = @ \cup canvases,
                               !.marked = @ \cup IF s.dot THEN canvases ELSE {}]

(* _create_canvases(): those made before one fails are closed again. *)
CreateCanvases(s, m, n) ==
    LET sets(t, size) == {c \in SUBSET Unused(t) : Cardinality(c) = size}
        made(t) == {Fine(Published(Made(t, c), m)) : c \in sets(t, n)}
        failed(t) == UNION {Raising(CloseCanvases(Made(t, c), m)) :
                            c \in UNION {sets(t, size) : size \in 0..n}}
        create(t) == IF n = 0 THEN made(t) ELSE made(t) \cup failed(t)
    IN  Then(CloseCanvases(s, m), create)

(* _register_gaze(); if registering raises, Talon may hold a callback that is neither
   started nor on record. *)
RegisterGaze(s, m) ==
    LET taken == [s EXCEPT !.tracked = @ \cup {m}]
    IN  IF s.registered THEN {Fine(s)}
        ELSE {Broke(s), Broke([taken EXCEPT !.stray = @ \cup {m}]),
              Fine(Published([taken EXCEPT !.stray = @ \ {m}, !.active = @ \cup {m},
                                           !.registered = TRUE], m))}

(* GazeDispatch.stop() and the end of the subscription; what raises may be over. *)
Stopped(s, m) == [s EXCEPT !.active = @ \ {m}, !.waiting = @ \ {m}]
Untracked(s, m) == [Stopped(s, m) EXCEPT !.tracked = @ \ {m}, !.stuck = @ \ {m}]
Clinging(s, m) == {[Stopped(s, m) EXCEPT !.tracked = t, !.stuck = @ \cup {m}] :
                   t \in {s.tracked, s.tracked \ {m}}}

(* _unregister_gaze(). *)
UnregisterGaze(s, m) ==
    IF ~s.registered THEN {Fine(s)}
    ELSE {Fine(Published([Untracked(s, m) EXCEPT !.registered = FALSE], m))}
         \cup {Broke(t) : t \in Clinging(s, m)}

(* canvas.freeze() of all of them, or of those before one that raises. *)
Frozen(s, canvases) ==
    LET drawn(c) == [s EXCEPT !.marked = IF s.dot THEN @ \cup (c \cap s.open) ELSE @ \ c]
    IN  {Fine(drawn(canvases))} \cup {Broke(drawn(c)) : c \in (SUBSET canvases) \ {canvases}}

(* _clear_overlay(). *)
ClearOverlay(s) ==
    {[o EXCEPT !.s.missed = o.raised] : o \in Frozen([s EXCEPT !.dot = FALSE], s.entries)}

(* _teardown_overlay(): the canvases are closed whatever the first step did. *)
TeardownOverlay(s, m) ==
    UNION {IF o.raised THEN Raising(CloseCanvases(o.s, m)) ELSE CloseCanvases(o.s, m) :
           o \in UnregisterGaze(s, m)}

(* Broken: the marker goes with the subscription only. *)
SyncOverlayOnce(s, m, on) ==
    IF s.enabled /\ on THEN RegisterGaze(s, m) ELSE UnregisterGaze(s, m)

(* _sync_overlay(). *)
SyncOverlay(s, m, on) ==
    IF s.enabled /\ on THEN RegisterGaze(s, m)
    ELSE UNION {IF o.raised THEN {[o EXCEPT !.s.missed = TRUE]} ELSE ClearOverlay(o.s) :
                o \in UnregisterGaze(s, m)}

(* The rollback of a start, a rebuild and a load. *)
RolledBack(outcomes, m) ==
    {o \in outcomes : ~o.raised}
    \cup UNION {Raising(TeardownOverlay([o.s EXCEPT !.enabled = FALSE], m)) :
                o \in {x \in outcomes : x.raised}}

Enabled(s, m) ==
    LET sync(t) == SyncOverlay(t, m, control)
    IN  RolledBack(Then(CreateCanvases(s, m, screens), sync), m)

-----------------------------------------------------------------------------
(* Talon's main thread. *)

Becomes(outcomes) == \E o \in outcomes : overlay' = o.s

OverlayStart ==
    /\ running # NoModule /\ ~overlay.enabled
    /\ Becomes(Enabled([overlay EXCEPT !.enabled = TRUE], running))
    /\ UNCHANGED <<running, control, screens, updates>>

(* The stop action, and _on_quit(). *)
OverlayStop ==
    /\ running # NoModule
    /\ Becomes(TeardownOverlay([overlay EXCEPT !.enabled = FALSE], running))
    /\ UNCHANGED <<running, control, screens, updates>>

(* _on_screen_change(). *)
ScreenChange ==
    /\ screens' \in 0..MaxScreens
    /\ IF running # NoModule /\ overlay.enabled
       THEN Becomes(RolledBack(CreateCanvases(overlay, running, screens'), running))
       ELSE UNCHANGED overlay
    /\ UNCHANGED <<running, control, updates>>

(* control1_toggle() or the menu, and the hook they call; control1_state_emit_now()
   calls it alone.  Another override of the hook may raise before this one has its
   turn. *)
ControlChanges ==
    /\ control' \in BOOLEAN
    /\ IF running = NoModule THEN UNCHANGED overlay
       ELSE Becomes({Broke([overlay EXCEPT !.missed = @ \/ control' # control])}
                    \cup SyncOverlay(overlay, running, control'))
    /\ UNCHANGED <<running, screens, updates>>

(* The module is executed: what a former one retained is released first, but for what
   raises; a callback may then be registered or not. *)
Retired(s) ==
    {[Closed(s, s.kept.entries, o.entries) EXCEPT
        !.kept.entries = o.entries, !.kept.callbacks = o.callbacks,
        !.active = @ \ s.kept.callbacks, !.waiting = @ \ s.kept.callbacks,
        !.tracked = (@ \ s.kept.callbacks) \cup o.tracked,
        !.stuck = (@ \ s.kept.callbacks) \cup o.callbacks] :
     o \in {x \in [entries : SUBSET s.kept.entries, callbacks : SUBSET s.kept.callbacks,
                   tracked : SUBSET s.tracked] : x.tracked \subseteq x.callbacks}}

Remaining(s) == s.kept.entries \cup s.kept.callbacks

(* Modules that are nowhere any more.  An update that is still running goes on with
   what its module had when it was replaced. *)
Unloaded == Modules \ (overlay.tracked \cup overlay.active \cup overlay.kept.callbacks
                       \cup {running} \cup {m \in Modules : updates[m].at # "idle"})
Left == [m \in Modules |-> IF m = running /\ updates[m].at # "idle"
                           THEN [updates[m] EXCEPT !.entries = overlay.entries]
                           ELSE updates[m]]

Fresh(s) == [s EXCEPT !.enabled = s.kept.enabled, !.registered = FALSE, !.dot = FALSE,
                      !.entries = {}, !.missed = FALSE]

(* This may raise, as may the imports after it, ... *)
OverlayLoadFails ==
    /\ overlay' \in Retired(overlay)
    /\ running' = NoModule /\ updates' = Left
    /\ UNCHANGED <<control, screens>>

(* ... and if nothing is left the new module resumes what was enabled, or rolls back. *)
OverlayLoads(m) ==
    /\ m \in Unloaded
    /\ updates' = Left
    /\ \E s \in Retired(overlay) :
        /\ Remaining(s) = {}
        /\ LET t == Fresh(s)
           IN  IF ~t.enabled THEN overlay' = Published(t, m) /\ running' = m
               ELSE \E o \in Enabled(t, m) :
                        /\ overlay' = o.s
                        /\ running' = IF o.raised THEN NoModule ELSE m
    /\ UNCHANGED <<control, screens>>

-----------------------------------------------------------------------------
(* Gaze events, delivered by GazeDispatch as Delivery promises. *)

GazeEvent(m) ==
    /\ m \in overlay.tracked \cap overlay.active
    /\ m \notin overlay.waiting /\ updates[m].at = "idle"
    /\ overlay' = [overlay EXCEPT !.waiting = @ \cup {m}]
    /\ UNCHANGED <<running, control, screens, updates>>

(* _update_gaze(): the tests, ... *)
UpdateTests(m) ==
    /\ m \in overlay.active \cap overlay.waiting
    /\ overlay' = [overlay EXCEPT !.waiting = @ \ {m}]
    /\ \/ UNCHANGED updates
       \/ m = running /\ overlay.enabled /\ control
          /\ updates' = [updates EXCEPT ![m].at = "tested"]
    /\ UNCHANGED <<running, control, screens>>

(* ... then the marker, on the canvases there are now.  The main thread may have
   stopped, replaced or cleared the overlay in between. *)
UpdateDraws(m) ==
    /\ updates[m].at = "tested"
    /\ updates' = [updates EXCEPT ![m] = Untold]
    /\ LET late == ~(m = running /\ overlay.enabled /\ control)
           shown == [overlay EXCEPT !.dot = TRUE, !.missed = @ \/ late]
       IN  IF m = running THEN Becomes(Frozen(shown, overlay.entries))
           ELSE Becomes({[o EXCEPT !.s.dot = overlay.dot] :
                         o \in Frozen(shown, updates[m].entries)})
    /\ UNCHANGED <<running, control, screens>>

-----------------------------------------------------------------------------
OverlayNext ==
    \/ OverlayStart \/ OverlayStop \/ ScreenChange \/ ControlChanges \/ OverlayLoadFails
    \/ \E m \in Modules : OverlayLoads(m) \/ GazeEvent(m) \/ UpdateTests(m) \/ UpdateDraws(m)

OverlaySpec == OverlayInit /\ [][OverlayNext]_overlayVars

-----------------------------------------------------------------------------
(* Properties. *)

(* Whatever raised before, all that Talon still holds for the overlay is on record,
   with the user's intent, so that the next attempt or the next module releases it,
   but for a callback whose registration raised, which delivers nothing; a disabled
   overlay has left only what refused to be released, and an enabled one has one open
   canvas for each screen. *)
OverlayOwned ==
    /\ overlay.tracked \subseteq overlay.kept.callbacks \cup overlay.stray
    /\ overlay.open = overlay.kept.entries
    /\ overlay.active \subseteq {running} \cap overlay.kept.callbacks
                             \cap (overlay.tracked \ overlay.stray)
    /\ running # NoModule =>
        /\ overlay.kept.enabled = overlay.enabled
        /\ IF overlay.enabled
           THEN overlay.open = overlay.entries /\ Cardinality(overlay.entries) = screens
           ELSE overlay.open \cup (overlay.tracked \ overlay.stray) \subseteq overlay.stuck

(* A marker is shown only by an enabled overlay while Control Mouse is on: the change
   of either takes it away.  What may leave one behind is a call that raised, or a
   delivery that had passed its tests when the main thread went by it. *)
MarkerIsWanted ==
    ~overlay.missed /\ ~(running # NoModule /\ overlay.enabled /\ control)
        => overlay.marked \subseteq overlay.stuck
=============================================================================
