------------------------------ MODULE Desktop ------------------------------
(***************************************************************************)
(* plugins/wayland_backend/desktop.py: the input devices of one connection.*)
(* Globals, seats, outputs, virtual keyboard and virtual pointer are       *)
(* composed as WaylandDesktop registers them: the compositor's events and  *)
(* the commands of the mailbox are handled one at a time on the owner      *)
(* thread (module Connection), and the seats' listeners are called in the  *)
(* order of registration, keyboard before pointer.  Windows and clipboard  *)
(* share nothing with these but the seats; they have modules of their own. *)
(***************************************************************************)
EXTENDS Globals, VirtualKeyboard

CONSTANTS Compositors,      \* what compositors may have: see MCDesktop
          Expressions,      \* the key expressions that are sent
          Chords,           \* the chords of temporary modifiers
          Targets           \* the screens that output motion is asked for

VARIABLES offer,            \* the compositor this desktop is connected to
          connected,        \* the display is open, the owner thread in its loop
          initialized,      \* WaylandConnection._initialized
          stopping          \* WaylandConnection._stopping

ASSUME DesktopAssumption ==
    /\ Interfaces = {"pointer", "keyboard"} /\ GlobalIds \subseteq Nat
    /\ Targets \subseteq Metadata
    /\ Expressions \subseteq Seq(Strokes) /\ Chords \subseteq Seq(STRING)
    /\ \A c \in Compositors : c.keymaps \subseteq Keymaps

phase == <<connected, initialized, stopping>>
vars == <<offer, phase, globals, registry, capable, outputs, keyboard, pointer>>

Live == initialized /\ ~stopping
Able(seat, can) == seat # None /\ seat \in can

TypeOK == /\ GlobalsTypeOK /\ SeatsTypeOK /\ OutputsTypeOK
          /\ PointerTypeOK /\ KeyboardTypeOK
          /\ connected \in BOOLEAN /\ initialized \in BOOLEAN /\ stopping \in BOOLEAN

Init == /\ offer \in Compositors
        /\ connected = FALSE /\ initialized = FALSE /\ stopping = FALSE
        /\ GlobalsInit /\ SeatsInit /\ OutputsInit /\ PointerInit /\ KeyboardInit

-----------------------------------------------------------------------------
(* The connection, as far as the adapters see it. *)

(* fail() by a guarded callback or a command that raised. *)
Ends(raised) == stopping' = (stopping \/ raised)

(* A new client: the devices of the one before are gone. *)
Connect == /\ ~connected
           /\ connected' = TRUE /\ stopping' = FALSE
           /\ pointer' = [pointer EXCEPT !.stuck = {}, !.refused = {}]
           /\ keyboard' = [keyboard EXCEPT !.stuck = {}, !.refused = {}]
           /\ UNCHANGED <<offer, initialized, globals, registry, capable, outputs>>

(* stop(), or fail() for a reason outside the input devices. *)
Stop == /\ connected /\ ~stopping
        /\ stopping' = TRUE
        /\ UNCHANGED <<offer, connected, initialized, globals, registry, capable,
                       outputs, keyboard, pointer>>

(* _disconnect(): the adapters are closed in reverse order, each whatever the
   others raised. *)
Disconnect ==
    /\ connected /\ stopping
    /\ connected' = FALSE /\ initialized' = FALSE
    /\ \E o \in PointerRemoved(pointer) : pointer' = o.state
    /\ \E refused \in SUBSET keyboard.held : keyboard' = KeyboardClosed(keyboard, refused)
    /\ CloseOutputs /\ CloseSeats /\ capable' = {}
    /\ GlobalsForgotten
    /\ UNCHANGED <<offer, stopping>>

-----------------------------------------------------------------------------
(* Seats and outputs: the event, then the listeners. *)

(* The seats' listeners: keyboard, then pointer, whatever the first raised.  A
   keyboard that could not release a key has reported the failure by then. *)
TellSeat(now, can, init) ==
    \E k \in KeyboardOnSeat(keyboard, now, Able(now, can), init, init /\ ~stopping) :
        \E live \in {init /\ ~stopping} \cup IF k.raised THEN {FALSE} ELSE {} :
            \E p \in PointerOnSeat(pointer, now, live) :
                /\ keyboard' = k.state /\ pointer' = p.state
                /\ Ends(k.raised \/ p.raised)

Untold == UNCHANGED <<keyboard, pointer, stopping>>

SeatAdded(s) ==
    /\ connected /\ s \in offer.seats
    /\ BindSeat(s)
    /\ IF Changed THEN TellSeat(selectedSeat', capable, initialized) ELSE Untold
    /\ UNCHANGED <<offer, connected, initialized, globals, capable, outputs>>

SeatNamed(s) ==
    /\ connected /\ NameSeat(s)
    /\ IF Changed THEN TellSeat(selectedSeat', capable, initialized) ELSE Untold
    /\ UNCHANGED <<offer, connected, initialized, globals, capable, outputs>>

SeatRemoved(s) ==
    /\ connected /\ RemoveSeat(s)
    /\ capable' = capable \ {s}
    /\ TellSeat(selectedSeat', capable', initialized)
    /\ UNCHANGED <<offer, connected, initialized, globals, outputs>>

SetCapabilities(s) ==
    /\ connected /\ s \in seats
    /\ capable' \in {capable \cup {s}, capable \ {s}}
    /\ IF s = selectedSeat THEN TellSeat(selectedSeat, capable', initialized) ELSE Untold
    /\ UNCHANGED <<offer, connected, initialized, globals, registry, outputs>>

(* _on_bindings_sync(): every adapter's ready(), seats first. *)
Ready ==
    /\ connected /\ ~initialized
    /\ initialized' = TRUE
    /\ TellSeat(selectedSeat, capable, TRUE)
    /\ UNCHANGED <<offer, connected, globals, registry, capable, outputs>>

(* The outputs' listener, when a snapshot changed or went. *)
TellOutputs ==
    IF committed' = committed THEN UNCHANGED <<pointer, stopping>>
    ELSE \E p \in PointerOnOutputs(pointer, committed') :
            pointer' = p.state /\ Ends(p.raised)

OutputEvent(o) ==
    /\ connected /\ o \in offer.outputs
    /\ BindOutput(o) \/ Describe(o) \/ CommitOutput(o) \/ RemoveOutput(o)
    /\ TellOutputs
    /\ UNCHANGED <<offer, connected, initialized, globals, registry, capable, keyboard>>

-----------------------------------------------------------------------------
(* Managers. *)

(* bind() and remove() of the adapter of interface i, on what is left of the two. *)
Bindings(i, k, p, g) ==
    IF i = "keyboard"
    THEN {[keyboard |-> o.state, pointer |-> p, raised |-> o.raised] :
             o \in KeyboardBound(k, g, selectedSeat, Live)}
    ELSE {[keyboard |-> k, pointer |-> o.state, raised |-> o.raised] :
             o \in PointerBound(p, g, selectedSeat, Live)}

Removals(i) ==
    IF i = "keyboard"
    THEN {[keyboard |-> o.state, pointer |-> pointer, raised |-> o.raised] :
             o \in KeyboardRemoved(keyboard)}
    ELSE {[keyboard |-> keyboard, pointer |-> o.state, raised |-> o.raised] :
             o \in PointerRemoved(pointer)}

Leaves(o) == keyboard' = o.keyboard /\ pointer' = o.pointer /\ Ends(o.raised)

(* _on_global(): the first is bound, others wait.  One whose bind() raised is not
   active, though the adapter may have it. *)
OnGlobal(i, g) ==
    /\ connected /\ g \in offer.managers[i]
    /\ Announced(i, g)
    /\ IF active[i] # NoGlobal THEN UNCHANGED <<active, keyboard, pointer, stopping>>
       ELSE \E o \in Bindings(i, keyboard, pointer, g) :
                Leaves(o) /\ Activated(i, IF o.raised THEN NoGlobal ELSE g)
    /\ UNCHANGED <<offer, connected, initialized, registry, capable, outputs>>

(* Broken: the removal of the active global does not activate another. *)
OnGlobalRemoveOnly(i, g) ==
    /\ connected /\ Withdrawn(i, g)
    /\ IF active[i] # g THEN UNCHANGED <<active, keyboard, pointer, stopping>>
       ELSE \E r \in Removals(i) :
                Leaves(r) /\ Activated(i, IF r.raised THEN g ELSE NoGlobal)
    /\ UNCHANGED <<offer, connected, initialized, registry, capable, outputs>>

(* _on_global_remove(): remove() of the active one, and the next candidate. *)
OnGlobalRemove(i, g) ==
    /\ connected /\ Withdrawn(i, g)
    /\ IF active[i] # g THEN UNCHANGED <<active, keyboard, pointer, stopping>>
       ELSE \E r \in Removals(i) :
                IF r.raised THEN Leaves(r) /\ Activated(i, g)
                ELSE IF Candidate(i) = NoGlobal
                THEN Leaves(r) /\ Activated(i, NoGlobal)
                ELSE \E o \in Bindings(i, r.keyboard, r.pointer, Candidate(i)) :
                        Leaves(o) /\ Activated(i, IF o.raised THEN NoGlobal ELSE Candidate(i))
    /\ UNCHANGED <<offer, connected, initialized, registry, capable, outputs>>

-----------------------------------------------------------------------------
(* The source keyboard's events. *)

KeyboardBecomes(outcomes) == \E o \in outcomes : keyboard' = o.state /\ Ends(o.raised)

SourceEvent ==
    /\ connected /\ keyboard.source # None
    /\ \/ \E l \in Locks : KeyboardBecomes(OnModifiers(keyboard, l, selectedSeat, Live))
       \/ /\ ~stopping
          /\ \/ \E m \in offer.keymaps :
                  KeyboardBecomes(OnKeymap(keyboard, m, selectedSeat, Live))
             \/ KeyboardBecomes(OnForeignKeymap(keyboard))
    /\ UNCHANGED <<offer, connected, initialized, globals, registry, capable, outputs,
                   pointer>>

-----------------------------------------------------------------------------
(* Commands, which the mailbox runs while the connection is not stopping, also
   before it is initialized. *)

KeyCommand(outcomes) ==
    /\ connected /\ ~stopping
    /\ KeyboardBecomes(outcomes)
    /\ UNCHANGED <<offer, connected, initialized, globals, registry, capable, outputs,
                   pointer>>

PointerCommand(outcomes) ==
    /\ connected /\ ~stopping
    /\ \E o \in outcomes : pointer' = o.state /\ Ends(o.raised)
    /\ UNCHANGED <<offer, connected, initialized, globals, registry, capable, outputs,
                   keyboard>>

SendKey(e) == KeyCommand(Typed(keyboard, e))

(* press_temporary_modifiers(), release_temporary_modifiers(): the caller keeps
   one tuple of presses at a time (wayland_runtime.py), and drops it. *)
BeginModifiers(chord) == keyboard.own = {} /\ KeyCommand(Chorded(keyboard, chord))
EndModifiers ==
    KeyCommand({[o EXCEPT !.state.own = {}] : o \in OwnReleased(keyboard, Keys)})

MovePointer == PointerCommand(Moved(pointer))
ScrollPointer(axes) == PointerCommand(Scrolled(pointer, axes))
MoveOnOutput(t) == PointerCommand(MovedOnOutput(pointer, t, committed, selectedSeat))
SetButton(b, press) == PointerCommand(ButtonSet(pointer, b, press))
ToggleButton(b) == PointerCommand(Toggled(pointer, b))
ClickButton(b) == PointerCommand(Clicked(pointer, b))
ReleaseButtons == PointerCommand(AllReleased(pointer))

(* modified_click(): both devices are tested, then the chord goes down, the
   button is clicked and the presses made here go up, also after a failure. *)
ModifiedClick(chord, b) ==
    /\ connected /\ ~stopping
    /\ IF ~CanType(keyboard) \/ pointer.seat = None \/ b \in pointer.held
         THEN UNCHANGED <<keyboard, pointer, stopping>>
         ELSE \E k \in Typed(keyboard, ModifierChord(chord)) :
                IF k.raised THEN /\ keyboard' = k.state /\ Ends(TRUE)
                                 /\ UNCHANGED pointer
                ELSE \E p \in Clicked(pointer, b) :
                        \E r \in Releases(k.state, k.state.held \ keyboard.held) :
                            /\ pointer' = p.state /\ keyboard' = r.state
                            /\ Ends(p.raised \/ r.raised)
    /\ UNCHANGED <<offer, connected, initialized, globals, registry, capable, outputs>>

-----------------------------------------------------------------------------
Event ==
    \/ \E s \in SeatIds : SeatAdded(s) \/ SeatNamed(s) \/ SeatRemoved(s) \/ SetCapabilities(s)
    \/ \E o \in OutputIds : OutputEvent(o)
    \/ \E i \in Interfaces, g \in GlobalIds : OnGlobal(i, g) \/ OnGlobalRemove(i, g)
    \/ SourceEvent \/ Ready

Command ==
    \/ \E e \in Expressions : SendKey(e)
    \/ \E c \in Chords : BeginModifiers(c)
    \/ EndModifiers \/ MovePointer \/ ReleaseButtons
    \/ \E axes \in SUBSET {"vertical", "horizontal"} : ScrollPointer(axes)
    \/ \E t \in Targets : MoveOnOutput(t)
    \/ \E b \in Buttons : \/ \E press \in BOOLEAN : SetButton(b, press)
                          \/ ToggleButton(b) \/ ClickButton(b)
                          \/ \E c \in Chords : ModifiedClick(c, b)

Next == Connect \/ Stop \/ Disconnect \/ Event \/ Command
Spec == Init /\ [][Next]_vars

-----------------------------------------------------------------------------
(* Properties. *)

(* Nothing the program pressed is forgotten while it is down: whichever request
   raises in a click, a drag or a cleanup, whatever seat, manager or connection goes, a
   button or key the compositor still has down when its device is destroyed is one
   whose own release raised at that moment (_destroy_pointer, _destroy_virtual), and
   then the connection ends. *)
NothingStuck ==
    /\ pointer.stuck \subseteq pointer.refused
    /\ keyboard.stuck \subseteq keyboard.refused
    /\ pointer.stuck # {} \/ keyboard.stuck # {} => stopping

(* The devices are those of the selected seat: none is left to a seat that is
   gone or no longer chosen, and none is missing that could be there. *)
PointerFollows ==
    /\ pointer.seat \in {None, selectedSeat}
    /\ pointer.seat # None => pointer.manager # None
    /\ Live /\ pointer.manager # None => pointer.seat = selectedSeat

KeyboardFollows ==
    /\ keyboard.source \in {None, selectedSeat}
    /\ keyboard.device => keyboard.source # None /\ keyboard.manager # None
    /\ Live => keyboard.source = IF Able(selectedSeat, capable) THEN selectedSeat ELSE None
    /\ Live /\ keyboard.manager # None /\ keyboard.sourceKeymap # None => keyboard.device

DevicesFollowSeat == PointerFollows /\ KeyboardFollows

(* The output-bound pointer is on the one output its screen stands for now, and
   on the selected seat, whatever outputs and seats came, spoke and went.  With no
   seat it is not used: one created before the first synchronization outlives its
   seat then, as _on_seat_changed() compares with the seat of the other pointer,
   which there is none of yet; it goes when a seat is selected. *)
OutputPointerIsRight ==
    ~stopping /\ selectedSeat # None /\ pointer.output # None =>
        /\ ChooseOutput(pointer.output.target, committed) = pointer.output.id
        /\ pointer.output.seat = selectedSeat
        /\ pointer.manager # None

(* A singleton's adapter has the global that is active, which is announced, and
   none is active only when none is announced. *)
ManagersFollowGlobals ==
    ~stopping => \A i \in Interfaces :
        /\ active[i] = NoGlobal <=> announced[i] = <<>>
        /\ active[i] # NoGlobal => active[i] \in Range(announced[i])
        /\ (IF i = "keyboard" THEN keyboard.manager ELSE pointer.manager)
             = IF active[i] = NoGlobal THEN None ELSE active[i]

(* The symbol that this name's entry of the index shows, in the state that the
   compositor has been told of. *)
TypesItsName(k, name) ==
    LET entry == Indexed(k.xkb).keys[name]
    IN  Symbols[k.sent.keymap][entry.code][Range(entry.implicit) \cup k.sent.locks] = name

(* What the compositor believes of the virtual keyboard is what the program does:
   keymap, keys and modifiers agree, the keycodes in flight belong to the keymap in
   force, and exactly one XKB state is open for it.  So a name that is typed while
   nothing is held shows that symbol, under the keymap and the locks of the moment.
   (While the program itself holds a lock key down, the index does without it.) *)
KeyboardAgrees ==
    /\ keyboard.xkbs = IF keyboard.xkb = None THEN 0 ELSE 1
    /\ ~stopping /\ keyboard.device =>
        /\ keyboard.xkb # None
        /\ keyboard.keymap = keyboard.sourceKeymap
        /\ keyboard.xkb.keymap = keyboard.keymap
        /\ keyboard.held = keyboard.down /\ keyboard.xkb.pressed = keyboard.down
        /\ keyboard.sent = [keymap |-> keyboard.keymap,
                            mods |-> keyboard.down \cap ModifierKeys,
                            locks |-> keyboard.xkb.locks]
        /\ keyboard.down \cap LockKeys = {} =>
            \A name \in DOMAIN Indexed(keyboard.xkb).keys : TypesItsName(keyboard, name)

(* Input that is over leaves what it found: taps, clicks and modified clicks hold
   and release nothing of the user's, and temporary modifiers end exactly the
   presses they began, whatever the user or the compositor did meanwhile. *)
Taps == \E e \in Expressions : (\A s \in Range(e) : s.action = "tap") /\ SendKey(e)
Clicks == \E b \in Buttons : ClickButton(b) \/ \E c \in Chords : ModifiedClick(c, b)

InputIsTransparent ==
    [][~stopping' =>
        /\ keyboard'.held # keyboard.held => ~Taps /\ ~Clicks
        /\ pointer'.held # pointer.held => ~Clicks
        /\ keyboard'.held # keyboard.held \ keyboard.own => ~EndModifiers]_vars
=============================================================================
