--------------------------- MODULE VirtualPointer ---------------------------
(***************************************************************************)
(* plugins/wayland_backend/pointer.py: the virtual pointer of the selected *)
(* seat, the second one bound to an output, and the buttons it holds.      *)
(*                                                                         *)
(* All of it runs on the owner thread, so a handler is one step; but every *)
(* request it sends may raise, which ends the handler where it stands.  An *)
(* operator below gives the set of outcomes of a handler: the state it     *)
(* leaves, and whether it raised.  A destroyed proxy, which the code tests *)
(* before each use, only occurs when the server destroys it; the manager   *)
(* and pointer protocols have no such event.                               *)
(***************************************************************************)
EXTENDS Seats, Outputs

CONSTANTS Buttons,          \* Linux button codes
          PlainManagers     \* managers of version 1: no output-bound pointers

VARIABLE pointer            \* the fields of VirtualPointer, and three of history

Bound == [id : OutputIds, target : Metadata, seat : SeatIds]

Pointers ==
    [manager : Nat \cup {None},        \* _manager_id, _manager
     seat : SeatIds \cup {None},       \* _seat_id; None when _pointer is
     held : SUBSET Buttons,            \* _held_buttons
     output : Bound \cup {None},       \* _output_pointer, _id, _target
     pressed : SUBSET Buttons,         \* what the compositor has down on it
     stuck : SUBSET Buttons,           \* left down by devices of this connection
     refused : SUBSET Buttons]         \* whose release raised when these were destroyed

PointerTypeOK == pointer \in Pointers

ASSUME PointerAssumption == None \notin Nat \cup Bound

PointerInit == pointer = [manager |-> None, seat |-> None, held |-> {},
                          output |-> None, pressed |-> {}, stuck |-> {}, refused |-> {}]

Ok(s) == [state |-> s, raised |-> FALSE]
Raised(s) == [state |-> s, raised |-> TRUE]

-----------------------------------------------------------------------------
(* Lifecycle. *)

(* _maybe_create(); live: the connection is initialized and not stopping. *)
Created(p, seat, live) ==
    IF live /\ p.manager # None /\ seat # None /\ p.seat = None
    THEN {Ok([p EXCEPT !.seat = seat]), Raised(p)}
    ELSE {Ok(p)}

(* _destroy_output_pointer(). *)
Unbound(p) == [p EXCEPT !.output = None]

(* _destroy_pointer(): the release of each held button is tried, whatever becomes of
   the others, and then the device goes; those that could not be released stay down
   with it, as does what is pressed and not held. *)
Lifted(p, refused) == [p EXCEPT !.seat = None, !.held = {}, !.pressed = {},
                                !.stuck = @ \cup (p.pressed \ (p.held \ refused)),
                                !.refused = @ \cup refused]

(* Both, one after the other whatever the first did.  But for what is left down,
   requests that raise change nothing: the fields are cleared before them, or in a
   finally clause. *)
Destroyed(p) == {Ok(Lifted(Unbound(p), {}))} \cup
    (IF p.seat = None /\ p.output = None THEN {}
     ELSE {Raised(Lifted(Unbound(p), refused)) : refused \in SUBSET p.held})

(* bind(). *)
PointerBound(p, g, seat, live) ==
    {Raised(p)} \cup Created([p EXCEPT !.manager = g], seat, live)

(* remove(), and close() of the connection. *)
PointerRemoved(p) ==
    LET q == [p EXCEPT !.manager = None]
    IN  Destroyed(q) \cup {Raised(o.state) : o \in Destroyed(q)}

(* _on_seat_changed(). *)
PointerOnSeat(p, seat, live) ==
    IF p.seat = seat THEN Created(p, seat, live)
    ELSE UNION {IF o.raised THEN {o} ELSE Created(o.state, seat, live) :
                o \in Destroyed(p)}

(* Broken: only the end of the bound output counts. *)
PointerOnOutputsGone(p, snapshots) ==
    IF p.output # None /\ snapshots[p.output.id] = NoOutput
    THEN {Ok(Unbound(p)), Raised(Unbound(p))}
    ELSE {Ok(p)}

(* _on_outputs_changed(). *)
PointerOnOutputs(p, snapshots) ==
    IF p.output # None /\ ChooseOutput(p.output.target, snapshots) # p.output.id
    THEN {Ok(Unbound(p)), Raised(Unbound(p))}
    ELSE {Ok(p)}

-----------------------------------------------------------------------------
(* Commands: what they leave.  One that raises after a request has reported the
   connection failed; one that is refused has changed nothing. *)

Refused(p) == {Ok(p)}

(* _emit_absolute(), _emit_relative(): motion leaves nothing behind but a failure. *)
Moved(p) == IF p.seat = None THEN Refused(p) ELSE {Ok(p), Raised(p)}

(* _emit_scroll(), _emit_continuous_scroll(): nothing is sent for no distance. *)
Scrolled(p, axes) == IF axes = {} THEN Refused(p) ELSE Moved(p)

(* _emit_output_absolute() and _require_output_pointer(). *)
MovedOnOutput(p, target, snapshots, seat) ==
    LET id == ChooseOutput(target, snapshots)
        bound == [id |-> id, target |-> target, seat |-> seat]
    IN  IF id = NoOutput \/ p.manager \in PlainManagers \cup {None} \/ seat = None
        THEN Refused(p)
        ELSE IF p.output # None /\ p.output.id = id
        THEN {Ok([p EXCEPT !.output.target = target]),
              Raised([p EXCEPT !.output.target = target])}
        ELSE {Raised(Unbound(p)), Ok([p EXCEPT !.output = bound]),
              Raised([p EXCEPT !.output = bound])}

Down(p, b) == [p EXCEPT !.held = @ \cup {b}, !.pressed = @ \cup {b}]
Up(p, b) == [p EXCEPT !.held = @ \ {b}, !.pressed = @ \ {b}]
(* Released for the compositor, and still to be released for the adapter. *)
HalfUp(p, b) == [p EXCEPT !.pressed = @ \ {b}]

(* _emit_button(): a press is held once sent, a release forgotten once framed. *)
ButtonSet(p, b, press) ==
    IF p.seat = None \/ (b \in p.held) = press THEN Refused(p)
    ELSE IF press THEN {Raised(p), Raised(Down(p, b)), Ok(Down(p, b))}
    ELSE {Raised(p), Raised(HalfUp(p, b)), Ok(Up(p, b))}

(* _toggle_code(). *)
Toggled(p, b) == ButtonSet(p, b, b \notin p.held)

(* Broken: the press of a click is recorded with its frame. *)
ClickedLate(p, b) ==
    IF p.seat = None \/ b \in p.held THEN Refused(p)
    ELSE {Raised(p), Raised([p EXCEPT !.pressed = @ \cup {b}]),
          Raised(HalfUp(Down(p, b), b)), Ok(p)}

(* _require_clickable(), _click_code(). *)
Clicked(p, b) ==
    IF p.seat = None \/ b \in p.held THEN Refused(p)
    ELSE {Raised(p), Raised(Down(p, b)), Raised(HalfUp(Down(p, b), b)), Ok(p)}

(* _release_all_codes(): every button is tried, whatever becomes of the others. *)
AllReleased(p) ==
    IF p.seat = None THEN Refused(p)
    ELSE {Ok([p EXCEPT !.held = {}, !.pressed = @ \ p.held])} \cup
         {Raised([p EXCEPT !.held = kept[1], !.pressed = @ \ (p.held \ kept[2])]) :
            kept \in {k \in (SUBSET p.held) \X (SUBSET p.held) :
                        k[2] \subseteq k[1] /\ k[1] # {}}}
=============================================================================
