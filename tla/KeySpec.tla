------------------------------ MODULE KeySpec ------------------------------
(***************************************************************************)
(* plugins/wayland_backend/key_spec.py: the key events that a Talon key    *)
(* expression stands for.  Parsing is left out: a token is the record that *)
(* parse_key_spec() makes of it, [modifiers, key, action, repeat].         *)
(***************************************************************************)
EXTENDS Naturals, Sequences, SequencesExt

CONSTANT NoKey               \* KeyStroke.key is None
Actions == {"tap", "down", "up"}
Strokes == [modifiers : Seq(STRING), key : STRING \cup {NoKey}, action : Actions,
            repeat : Nat]

(* A plan under construction: what is held, what to emit, and whether the plan
   was refused. *)
Plan(held, events, refused) == [held |-> held, events |-> events, refused |-> refused]

(* set_pressed(): a transition only if the state of the key changes. *)
SetPressed(plan, key, down) ==
    IF (key \in plan.held) = down THEN plan
    ELSE Plan(IF down THEN plan.held \cup {key} ELSE plan.held \ {key},
              Append(plan.events, [key |-> key, down |-> down]), plan.refused)

Press(plan, keys) == FoldLeft(LAMBDA p, k : SetPressed(p, k, TRUE), plan, keys)
Release(plan, keys) == FoldLeft(LAMBDA p, k : SetPressed(p, k, FALSE), plan, Reverse(keys))
Without(keys, those) ==
    FoldLeft(LAMBDA left, k : IF k \in those THEN left ELSE Append(left, k), <<>>, keys)

Tapped(plan, keys, times) ==
    FoldLeft(LAMBDA q, i : Release(Press(q, keys), keys), plan, [i \in 1..times |-> i])

(* A tap leaves held what was held; it cannot tap a key that is. *)
Tap(plan, stroke) ==
    LET here == Without(stroke.modifiers, plan.held)
        pressed == Press(plan, here)
    IN  IF stroke.key = NoKey THEN Tapped(plan, here, stroke.repeat)
        ELSE IF stroke.key \in pressed.held THEN [plan EXCEPT !.refused = TRUE]
        ELSE Release(Tapped(pressed, <<stroke.key>>, stroke.repeat), here)

(* One stroke, its names resolved to keycodes. *)
PlanStroke(plan, stroke) ==
    LET keys == stroke.modifiers \o
                IF stroke.key = NoKey THEN <<>> ELSE <<stroke.key>>
    IN  IF plan.refused THEN plan
        ELSE IF stroke.action = "tap" THEN Tap(plan, stroke)
        ELSE IF stroke.action = "down" THEN Press(plan, keys) ELSE Release(plan, keys)

(* plan_key_events(): all or nothing, before anything is emitted. *)
PlanKeyEvents(strokes, held) == FoldLeft(PlanStroke, Plan(held, <<>>, FALSE), strokes)

(* modifier_chord(): the down stroke of a chord of modifiers. *)
ModifierChord(modifiers) ==
    <<[modifiers |-> modifiers, key |-> NoKey, action |-> "down", repeat |-> 1]>>
=============================================================================
