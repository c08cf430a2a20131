------------------------------- MODULE Scopes -------------------------------
(***************************************************************************)
(* plugins/wayland_scopes.py and the installation in wayland_clipboard.py: *)
(* the two scope providers and the clipboard backend of Talon that a bridge*)
(* replaces with its own and gives back.                                   *)
(*                                                                         *)
(* Scope declarations call their provider in update() and keep what it     *)
(* returned; update() may raise.  As in VirtualPointer an operator gives   *)
(* the outcomes of a method, on s, the fields of WaylandScopes, and t, what*)
(* is Talon's.  App aliases are left out: the app scope is the window.     *)
(***************************************************************************)
CONSTANT None

Slots == {"app", "win"}

(* WaylandScopes.__init__(). *)
NewScopes(nothing) == [originals |-> None, installed |-> FALSE, window |-> nothing,
                       pending |-> {}]

Done(s, t) == [s |-> s, t |-> t, raised |-> FALSE]
Failed(o) == [o EXCEPT !.raised = TRUE]

(* initialize(): what is there now is what is given back. *)
Initialized(s, t) == [s EXCEPT !.originals = t.func]

(* declaration.update() of these slots: the provider of this bridge returns its
   window, any other something of its own. *)
Updated(s, t, me, slots) ==
    [t EXCEPT !.shown = [slot \in Slots |->
        IF slot \notin slots THEN @[slot]
        ELSE IF t.func[slot] = me THEN s.window ELSE t.func[slot]]]

(* restore(): only what is still its own goes back, and each update that is owed is
   tried; those that raised stay owed. *)
Restored(s, t, me) ==
    LET own == {slot \in Slots : t.func[slot] = me}
        back == [t EXCEPT !.func = [slot \in Slots |->
                    IF slot \in own THEN s.originals[slot] ELSE @[slot]]]
        owed == s.pending \cup own
        off == [s EXCEPT !.installed = FALSE]
    IN  IF s.originals = None THEN {Done(s, t)}
        ELSE {[s |-> [off EXCEPT !.pending = kept],
               t |-> Updated(off, back, me, owed \ kept),
               raised |-> kept # {}] : kept \in SUBSET owed}

(* install(): all or nothing. *)
Installed(s, t, me) ==
    LET on == [s EXCEPT !.installed = TRUE]
        mine == [t EXCEPT !.func = [slot \in Slots |-> me]]
    IN  IF s.installed \/ s.originals = None THEN {Done(s, t)}
        ELSE {Done(on, Updated(on, mine, me, Slots))} \cup
             UNION {{Failed(o) : o \in Restored(on, Updated(on, mine, me, got), me)} :
                    got \in {{}, {"app"}}}

(* refresh_app_scope(). *)
Refreshed(s, t, me) == {Done(s, Updated(s, t, me, {"app"})), Failed(Done(s, t))}

(* update(): a window, or the fallback when there is no context. *)
Published(s, t, me, window, available) ==
    LET new == [s EXCEPT !.window = window]
    IN  IF ~available THEN Restored(new, t, me)
        ELSE UNION {IF o.raised THEN {o}
                    ELSE {Failed(o)} \cup
                         Refreshed(o.s, Updated(o.s, o.t, me, {"win"}), me) :
                    o \in Installed(new, t, me)}

-----------------------------------------------------------------------------
(* WaylandClipboard.install() and restore(). *)

ClipInstalled(original, t, me) ==
    IF t.clip = me THEN {[original |-> original, t |-> t]}
    ELSE {[original |-> t.clip, t |-> [t EXCEPT !.clip = me]],
          [original |-> original, t |-> t]}     \* it raised, which start() reports only

ClipRestored(original, t, me) == IF t.clip = me THEN [t EXCEPT !.clip = original] ELSE t
=============================================================================
