-------------------------- MODULE VirtualKeyboard --------------------------
(***************************************************************************)
(* plugins/wayland_backend/keyboard.py and xkb.py: the selected seat's own *)
(* keyboard, whose keymap and locks are mirrored, and the virtual keyboard *)
(* that types with them.                                                   *)
(*                                                                         *)
(* As in VirtualPointer an operator gives the outcomes of a handler.  The  *)
(* text of keymaps and layout groups are left out: a keymap is a table of  *)
(* the symbols of its keys.                                                *)
(***************************************************************************)
EXTENDS VirtualPointer, KeySpec

CONSTANTS Keys,             \* keycodes, which are numbers
          ModifierKeys,     \* those of them that are modifiers
          LockKeys,         \* those that lock a modifier, as Caps_Lock does
          Keymaps,          \* what compositors send as keymaps
          Symbols,          \* for each, the symbol of a key when these modifier
                            \* and lock keys are in force
          ModifierNames,    \* symbols that Talon names as modifiers
          LevelNames        \* and those that choose among a key's symbols

VARIABLES keyboard,         \* the fields of VirtualKeyboard and its XkbKeymap
          capable           \* the seats that have the keyboard capability

ASSUME KeysAssumption ==
    /\ Keys \subseteq Nat /\ IsFiniteSet(Keys)
    /\ ModifierKeys \subseteq Keys /\ LockKeys \subseteq Keys
    /\ NoKey \notin Keys

Locks == SUBSET LockKeys
Xkb == [keymap : Keymaps, pressed : SUBSET Keys,
        base : Locks,       \* _locked_modifiers
        locks : Locks,      \* those of _state
        undo : Locks,       \* pressed lock keys that unlock when they go up
        indexed : Locks]    \* for which _keys and _modifiers were built
State == [keymap : Keymaps \cup {None}, mods : SUBSET ModifierKeys, locks : Locks]

ASSUME KeyboardAssumption == None \notin Keymaps \cup Xkb

Keyboards ==
       [manager : Nat \cup {None},          \* _manager_id, _manager
        source : SeatIds \cup {None},       \* _source_seat_id, _source_keyboard
        sourceKeymap : Keymaps \cup {None}, \* _source_keymap
        locks : Locks,                      \* _locked_modifiers
        device : BOOLEAN,                   \* _keyboard is not None
        keymap : Keymaps \cup {None},       \* _keyboard_keymap
        xkb : Xkb \cup {None},              \* _xkb
        xkbs : Nat,                         \* XkbKeymap objects not closed
        held : SUBSET Keys,                 \* _held_keys
        own : SUBSET Keys,                  \* those of them still in the press
                                            \* that press_temporary_modifiers
                                            \* returned last
        down : SUBSET Keys,                 \* what the compositor has down
        sent : State,                       \* and believes of the keyboard
        stuck : SUBSET Keys,                \* left down by devices of this connection
        refused : SUBSET Keys]              \* whose release raised when these were
                                            \* destroyed

KeyboardTypeOK == capable \subseteq SeatIds /\ keyboard \in Keyboards

Silent == [keymap |-> None, mods |-> {}, locks |-> {}]

KeyboardInit ==
    /\ capable = {}
    /\ keyboard = [manager |-> None, source |-> None, sourceKeymap |-> None,
                   locks |-> {}, device |-> FALSE, keymap |-> None, xkb |-> None,
                   xkbs |-> 0, held |-> {}, own |-> {}, down |-> {},
                   sent |-> Silent, stuck |-> {}, refused |-> {}]

-----------------------------------------------------------------------------
(* XkbKeymap. *)

(* _build_key_index(): a modifier is on the last key that has it, and a symbol on
   the first one that shows it under the fewest level modifiers.  (Which of several
   equally many come first is left open.) *)
Index == [keymap \in Keymaps |-> [locks \in Locks |->
    LET symbol(key, mods) == Symbols[keymap][key][mods \cup locks]
        base(name) == {key \in Keys : symbol(key, {}) = name}
        levels == {Max(base(name)) : name \in {n \in LevelNames : base(n) # {}}}
        ways(name) == {w \in [code : Keys, mods : SUBSET levels] :
                        symbol(w.code, w.mods) = name}
        first(name) ==
            CHOOSE w \in ways(name) : \A v \in ways(name) :
                /\ Cardinality(w.mods) <= Cardinality(v.mods)
                /\ w.mods = v.mods => w.code <= v.code
        names == {symbol(w.code, w.mods) : w \in [code : Keys, mods : SUBSET levels]}
    IN  [keys |-> [name \in names \ {NoKey} |->
                    [code |-> first(name).code, implicit |-> SetToSeq(first(name).mods)]],
         modifiers |-> [name \in {n \in ModifierNames : base(n) # {}} |->
                            Max(base(name))]]]]

Indexed(x) == Index[x.keymap][x.indexed]

NewXkb(keymap, locks) ==
    [keymap |-> keymap, pressed |-> {}, base |-> locks, locks |-> locks, undo |-> {},
     indexed |-> locks]

(* xkb_state_update_key(): a lock key locks when it goes down, and unlocks what was
   locked already when it goes up. *)
XkbUpdate(x, key, down) ==
    LET it == {key} \cap LockKeys
    IN  IF down THEN [x EXCEPT !.pressed = @ \cup {key}, !.locks = @ \cup it,
                               !.undo = @ \cup (it \cap x.locks)]
        ELSE [x EXCEPT !.pressed = @ \ {key}, !.locks = @ \ (it \cap x.undo),
                       !.undo = @ \ it]

(* update_key(). *)
UpdateKey(x, key, down) ==
    LET now == XkbUpdate(x, key, down)
    IN  IF key \in ModifierKeys \cup LockKeys /\ now.locks # x.base
        THEN [now EXCEPT !.base = now.locks, !.indexed = now.locks] ELSE now

(* The state of these locks, in which the pressed keys are pressed again. *)
Restated(x, locks) ==
    FoldSet(LAMBDA key, y : XkbUpdate(y, key, TRUE),
            [x EXCEPT !.base = locks, !.locks = locks, !.undo = {}], x.pressed)

(* Broken: the index is left as it is. *)
SetExternalStateOnly(x, locks) == IF locks = x.base THEN x ELSE Restated(x, locks)

(* set_external_state(). *)
SetExternalState(x, locks) ==
    IF locks = x.base THEN x ELSE [Restated(x, locks) EXCEPT !.indexed = locks]

(* resolve_key(), resolve_modifier(); with validate_keycode(). *)
Resolves(x, stroke) ==
    /\ Range(stroke.modifiers) \subseteq DOMAIN Indexed(x).modifiers
    /\ stroke.key \in {NoKey} \cup DOMAIN Indexed(x).keys

Codes(x, names) == [i \in DOMAIN names |-> Indexed(x).modifiers[names[i]]]

(* _resolve_strokes(): implicit modifiers come after the explicit ones. *)
Resolved(x, stroke) ==
    LET explicit == Codes(x, stroke.modifiers)
        entry == Indexed(x).keys[stroke.key]
    IN  IF stroke.key = NoKey THEN [stroke EXCEPT !.modifiers = explicit]
        ELSE [stroke EXCEPT
                !.modifiers = explicit \o Without(entry.implicit, Range(explicit)),
                !.key = entry.code]

-----------------------------------------------------------------------------
(* Key events. *)

(* The modifiers request: the compositor is told the state of _xkb. *)
Told(k) == IF k.xkb = None THEN k
           ELSE [k EXCEPT !.sent.mods = k.xkb.pressed \cap ModifierKeys,
                          !.sent.locks = k.xkb.locks]

(* _send_event(), when nothing raises. *)
Sent(k, event) ==
    IF (event.key \in k.held) = event.down THEN k
    ELSE LET now(keys) == IF event.down THEN keys \cup {event.key}
                                        ELSE keys \ {event.key}
             sent == [k EXCEPT !.held = now(@), !.down = now(@),
                               !.own = @ \ {event.key},
                               !.xkb = IF @ = None THEN None
                                       ELSE UpdateKey(@, event.key, event.down)]
         IN  IF event.key \in ModifierKeys \cup LockKeys THEN Told(sent) ELSE sent

AllSent(k, events) == FoldLeft(Sent, k, events)

(* A sequence of events ends with the one that raises; of that one, the key may
   have been sent and only the modifiers not, which nobody looks at any more. *)
Emitted(k, events) ==
    {Ok(AllSent(k, events))} \cup
    IF events = <<>> THEN {}
    ELSE {Raised(AllSent(k, SubSeq(events, 1, n))) : n \in 0..Len(events)}

(* Each key of a set is released, whatever becomes of the others
   (run_cleanup_steps); their order makes no difference to the state left. *)
ReleasedAll(k, keys) ==
    FoldSet(LAMBDA key, q : Sent(q, [key |-> key, down |-> FALSE]), k, keys)
Releases(k, keys) ==
    {Ok(ReleasedAll(k, keys))} \cup
    IF keys = {} THEN {} ELSE {Raised(ReleasedAll(k, some)) : some \in SUBSET keys}

-----------------------------------------------------------------------------
(* Lifecycle. *)

(* _destroy_virtual(): the release of each held key is tried, then everything is
   forgotten in the finally clause, whatever raised. *)
Dropped(k, refused) ==
    [k EXCEPT !.device = FALSE, !.keymap = None, !.xkb = None,
              !.xkbs = IF k.xkb = None THEN @ ELSE @ - 1,
              !.held = {}, !.own = {}, !.down = {}, !.sent = Silent,
              !.stuck = @ \cup (k.down \ (k.held \ refused)),
              !.refused = @ \cup refused]

Drops(k) ==
    {Ok(Dropped(k, {}))} \cup
    IF k.device THEN {Raised(Dropped(k, refused)) : refused \in SUBSET k.held} ELSE {}

(* _release_source_keyboard(). *)
Detached(k) == [k EXCEPT !.source = None, !.sourceKeymap = None, !.locks = {}]

(* Broken: a new keymap is sent under keys that are held. *)
AppliedOver(k) ==
    IF k.keymap = k.sourceKeymap THEN {Ok(k)}
    ELSE {Ok(Told([k EXCEPT !.keymap = k.sourceKeymap,
                            !.xkb = NewXkb(k.sourceKeymap, k.locks),
                            !.xkbs = IF k.xkb = None THEN @ + 1 ELSE @,
                            !.sent = [Silent EXCEPT !.keymap = k.sourceKeymap]])),
          Raised([k EXCEPT !.keymap = None])}

(* _apply_keymap(): no key is held across a change of the keymap.  A keymap
   request clears what the compositor believed of the modifiers. *)
Applied(k) ==
    IF k.keymap = k.sourceKeymap THEN {Ok(k)}
    ELSE LET none == [k EXCEPT !.keymap = None]
             new == NewXkb(k.sourceKeymap, k.locks)
         IN  {Raised(none)} \cup
             UNION {IF o.raised THEN {o}
                    ELSE {Raised(o.state),
                          Raised([o.state EXCEPT
                                    !.sent = [Silent EXCEPT !.keymap = new.keymap]]),
                          Ok(Told([o.state EXCEPT
                                !.keymap = new.keymap, !.xkb = new,
                                !.xkbs = IF k.xkb = None THEN @ + 1 ELSE @,
                                !.sent = [Silent EXCEPT !.keymap = new.keymap]]))} :
                    o \in Releases(none, k.held)}

(* _maybe_create_virtual(): a keyboard without its keymap is taken back. *)
Typing(k, seat, live) ==
    IF /\ live /\ k.manager # None /\ ~k.device
       /\ k.sourceKeymap # None /\ k.source = seat /\ seat # None
    THEN {Raised(k)} \cup
         {IF o.raised THEN Raised([o.state EXCEPT !.device = FALSE, !.keymap = None,
                                                  !.sent = Silent])
                      ELSE o : o \in Applied([k EXCEPT !.device = TRUE])}
    ELSE {Ok(k)}

(* Broken: another seat's keyboard goes on while it has one. *)
SyncedLazy(k, seat, able, initialized) ==
    IF able /\ k.source # None THEN {Ok(k)}
    ELSE IF able /\ initialized THEN {Ok([Detached(Dropped(k, {})) EXCEPT !.source = seat])}
    ELSE {Ok(Detached(Dropped(k, {})))}

(* _sync_source_keyboard(); able: there is a selected seat and it is capable. *)
Synced(k, seat, able, initialized) ==
    IF able /\ k.source = seat THEN {Ok(k)}
    ELSE LET d == Detached(Dropped(k, {}))
             failed == {Raised(Detached(Dropped(k, refused))) : refused \in SUBSET k.held}
         IN  (IF k.device \/ k.source # None THEN failed ELSE {}) \cup
             IF able /\ initialized THEN {Raised(d), Ok([d EXCEPT !.source = seat])}
             ELSE {Ok(d)}

(* _on_seat_changed(), ready(). *)
KeyboardOnSeat(k, seat, able, initialized, live) ==
    UNION {IF o.raised THEN {o} ELSE Typing(o.state, seat, live) :
              o \in Synced(k, seat, able, initialized)}

(* bind(). *)
KeyboardBound(k, g, seat, live) ==
    {Raised(k)} \cup Typing([k EXCEPT !.manager = g], seat, live)

(* remove(): the source keyboard stays. *)
KeyboardRemoved(k) ==
    LET q == [k EXCEPT !.manager = None]
    IN  {Ok(Dropped(q, {}))} \cup {Raised(Dropped(q, refused)) : refused \in SUBSET k.held}

(* close(), where the release of these keys raises. *)
KeyboardClosed(k, refused) == Detached(Dropped([k EXCEPT !.manager = None], refused))

(* _on_keymap() of the current source, not while stopping; any other only has its
   descriptor closed. *)
OnKeymap(k, keymap, seat, live) ==
    LET q == [k EXCEPT !.sourceKeymap = keymap]
    IN  {Raised(k)} \cup
        IF keymap = k.sourceKeymap \/ ~k.device THEN Typing(q, seat, live)
        ELSE Applied(q)

(* The same for a format other than XKB v1. *)
OnForeignKeymap(k) == Drops([k EXCEPT !.sourceKeymap = None])

(* _on_modifiers() of the current source. *)
OnModifiers(k, locks, seat, live) ==
    LET q == [k EXCEPT !.locks = locks]
    IN  IF ~q.device \/ q.xkb = None THEN Typing(q, seat, live)
        ELSE LET x == [q EXCEPT !.xkb = SetExternalState(@, locks)]
             IN  IF x = q THEN {Ok(q)} ELSE {Ok(Told(x)), Raised(x)}

-----------------------------------------------------------------------------
(* Commands. *)

(* _require_keyboard(). *)
CanType(k) == k.device /\ k.keymap # None /\ k.xkb # None

(* _emit_strokes(). *)
Typed(k, strokes) ==
    IF ~CanType(k) \/ \E s \in Range(strokes) : ~Resolves(k.xkb, s)
    THEN Refused(k)
    ELSE LET plan == PlanKeyEvents([i \in DOMAIN strokes |->
                                        Resolved(k.xkb, strokes[i])], k.held)
         IN  IF plan.refused THEN Refused(k) ELSE Emitted(k, plan.events)

(* The same for a chord, whose presses become the caller's own. *)
Chorded(k, chord) ==
    {IF o.raised THEN o ELSE [o EXCEPT !.state.own = @ \cup (o.state.held \ k.held)] :
        o \in Typed(k, ModifierChord(chord))}

(* Broken: presses are told apart by their keycodes. *)
OwnReleasedByCode(k, codes) ==
    IF ~CanType(k) THEN Refused(k) ELSE Releases(k, codes \cap k.held)

(* _release_presses(): those of the caller that are still the same press. *)
OwnReleased(k, codes) ==
    IF ~CanType(k) THEN Refused(k) ELSE Releases(k, codes \cap k.own)
=============================================================================
