------------------------------ MODULE Routing -------------------------------
(***************************************************************************)
(* plugins/mouse_forwarder.py, plugins/hiss_mouse.py and the key action of *)
(* plugins/wayland_runtime.py: every mouse and key action of a script goes *)
(* to the native backend or to the next implementation, which is Talon's   *)
(* X11 input and Community, and what it leaves pressed has to be released  *)
(* where it is.                                                            *)
(*                                                                         *)
(* Talon runs one script at a time; the native backend comes and goes at   *)
(* any moment.  "todo" is the stack of actions that have been called: each *)
(* first chooses its backend, then performs its command there, and may     *)
(* call others.  The native backend is what module Desktop shows of it: a  *)
(* button or key is up when its device is lost, a command that lacks its   *)
(* device or its button has done nothing, any other may time out before it *)
(* is begun or break the connection half way.                              *)
(***************************************************************************)
EXTENDS Integers, Sequences

CONSTANTS Buttons, Keys,
          Supported,        \* the buttons of BUTTON_CODES
          Left, Modifier,   \* the button of touch and pop, the chord of modified clicks
          Step,             \* a wheel step, in units of the deltas that are asked for
          Deltas

ASSUME RoutingAssumption ==
    /\ Supported \subseteq Buttons /\ Left \in Supported /\ Modifier \in Keys
    /\ Step \in Nat \ {0} /\ Deltas \subseteq Int

VARIABLES native,           \* the native devices and what they have down
          other,            \* what the other backend has down
          memory,           \* _fallback_held_buttons, _fallback_held_keys, _hiss_mouse_enabled
          saved,            \* what sys has of these
          remainder,        \* _vertical_scroll_remainder; the other axis is like it
          control,          \* Control Mouse: off, on by a hiss, left on by one, or on by its user
          todo, answer,     \* the actions called; what mouse_drag_end() has returned
          call,             \* history: the last call and what was down before it
          acts, raised,     \* history: what it did, and which actions of it raised
          drift             \* history: what native scrolling was asked for and has not done

backends == <<native, other>>
ours == <<memory, saved, remainder, control>>
history == <<call, acts, raised, drift>>
vars == <<backends, ours, todo, answer, history>>

Gone == [pointer |-> FALSE, keyboard |-> FALSE, buttons |-> {}, keys |-> {}]
Action(do, arg) == [do |-> do, arg |-> arg, at |-> "choose"]
NoCall == [do |-> "none", arg |-> Left, buttons |-> {}, keys |-> {},
           otherButtons |-> {}, otherKeys |-> {}]

Init == /\ native = Gone
        /\ other = [buttons |-> {}, keys |-> {}]
        /\ memory \in [buttons : {{}}, keys : {{}}, hiss : BOOLEAN] /\ saved = memory
        /\ remainder = 0 /\ control = "off"
        /\ todo = <<>> /\ answer = FALSE
        /\ call = NoCall /\ acts = <<>> /\ raised = {} /\ drift = 0

TypeOK == /\ native \in [pointer : BOOLEAN, keyboard : BOOLEAN, buttons : SUBSET Supported,
                         keys : SUBSET Keys]
          /\ ~native.pointer => native.buttons = {}
          /\ ~native.keyboard => native.keys = {}
          /\ other \in [buttons : SUBSET Buttons, keys : SUBSET Keys]
          /\ {memory, saved} \subseteq [buttons : SUBSET Buttons, keys : SUBSET Keys,
                                        hiss : BOOLEAN]
          /\ remainder \in (1 - Step)..(Step - 1) /\ control \in {"off", "hiss", "left", "user"}
          /\ answer \in BOOLEAN

-----------------------------------------------------------------------------
(* The stack. *)

Now(do, at) == todo # <<>> /\ Head(todo).do = do /\ Head(todo).at = at
Arg == Head(todo).arg
Goto(at) == todo' = <<[Head(todo) EXCEPT !.at = at]>> \o Tail(todo)
Return == todo' = Tail(todo)
Calls(actions) == todo' = actions \o Tail(todo)

(* Only what stands in a "finally" goes on after an error. *)
Finally == {"unpress", "keyup"}
Unwound(stack) ==
    LET kept[n \in 0..Len(stack)] ==
          IF n = 0 THEN <<>>
          ELSE IF stack[n].do \in Finally THEN Append(kept[n - 1], stack[n]) ELSE kept[n - 1]
    IN  kept[Len(stack)]

Raise == /\ todo' = Unwound(Tail(todo))
         /\ raised' = raised \cup {Head(todo).do}

Acts(backend, kind) == acts' = Append(acts, <<backend, kind>>)

-----------------------------------------------------------------------------
(* Which backend: _use_native_pointer() and the conditions of key() and
   mouse_drag_end(). *)

(* Broken: whoever holds a button, new actions go to the device that is there. *)
SelectedByDevice == native.pointer

Selected == memory.buttons = {} /\ native.pointer
KeySelected == memory.keys = {} /\ native.keyboard

ButtonActions == {"click", "drag", "release", "toggle"}
PointerActions == ButtonActions \cup {"move", "scroll", "glide", "end"}
KeyActions == {"keydown", "keyup", "tap"}

Choose ==
    /\ \E do \in PointerActions \cup {"modified"} :
        Now(do, "choose") /\ Goto(IF Selected THEN "native" ELSE "next")
    /\ UNCHANGED <<backends, ours, answer, history>>

ChooseKey ==
    /\ \E do \in KeyActions :
        Now(do, "choose") /\ Goto(IF KeySelected THEN "native" ELSE "next")
    /\ UNCHANGED <<backends, ours, answer, history>>

(* CapabilityUnavailable, and ValueError for a button, send the action on. *)
Lacks(do) == IF do \in KeyActions THEN ~native.keyboard
             ELSE ~native.pointer \/ (do \in ButtonActions /\ Arg \notin Supported)

FallBack ==
    /\ \E do \in PointerActions \cup KeyActions : Now(do, "native") /\ Lacks(do)
    /\ Goto("next")
    /\ UNCHANGED <<backends, ours, answer, history>>

-----------------------------------------------------------------------------
(* The native backend. *)

(* Broken: any error sends the command on to the other backend. *)
CommandOrNext(now, kind) ==
    \/ native' = now /\ Acts("native", kind) /\ Return /\ UNCHANGED raised
    \/ Goto("next") /\ UNCHANGED <<native, acts, raised>>
    \/ /\ native' = Gone /\ Goto("next") /\ UNCHANGED raised
       /\ Acts("native", kind) \/ UNCHANGED acts

(* A command that has what it needs: done, not begun, or broken off together with
   the connection, when it may have been done or not. *)
Command(now, kind) ==
    \/ native' = now /\ Acts("native", kind) /\ Return /\ UNCHANGED raised
    \/ Raise /\ UNCHANGED <<native, acts>>
    \/ native' = Gone /\ Raise /\ (Acts("native", kind) \/ UNCHANGED acts)

(* A ValueError of pywayland, raised while a button is sent: the connection fails, the
   button may have been sent, and mouse_forwarder.py takes it for a button that is not
   supported and has the next implementation do the whole action. *)
Replayed(kind) ==
    /\ native' = Gone /\ Goto("next") /\ UNCHANGED raised
    /\ Acts("partly", kind) \/ UNCHANGED acts

Holding(field, now) == [native EXCEPT ![field] = now]

NativeMotion ==
    /\ \E do \in {"move", "glide"} :
        Now(do, "native") /\ ~Lacks(do) /\ Command(native, do)
    /\ UNCHANGED <<other, ours, answer, call, drift>>

(* A button that is held cannot be clicked. *)
NativeClick ==
    /\ Now("click", "native") /\ ~Lacks("click")
    /\ IF Arg \in native.buttons THEN Raise /\ UNCHANGED <<native, acts>>
       ELSE Command(native, "click") \/ Replayed("click")
    /\ UNCHANGED <<other, ours, answer, call, drift>>

NativeButton ==
    /\ \E do \in {"drag", "release", "toggle"} :
        /\ Now(do, "native") /\ ~Lacks(do)
        /\ IF do = "drag" \/ (do = "toggle" /\ Arg \notin native.buttons)
           THEN Command(Holding("buttons", native.buttons \cup {Arg}), "drag") \/ Replayed("drag")
           ELSE Command(Holding("buttons", native.buttons \ {Arg}), "release") \/ Replayed("release")
    /\ UNCHANGED <<other, ours, answer, call, drift>>

(* wayland_pointer_release_all(). *)
NativeEnd ==
    /\ Now("end", "native") /\ ~Lacks("end")
    /\ answer' = (native.buttons # {})
    /\ Command(Holding("buttons", {}), "release")
    /\ UNCHANGED <<other, ours, call, drift>>

NativeKey ==
    /\ \E do \in KeyActions :
        /\ Now(do, "native") /\ ~Lacks(do)
        /\ Command(Holding("keys", CASE do = "keydown" -> native.keys \cup {Arg}
                                     [] do = "keyup" -> native.keys \ {Arg}
                                     [] do = "tap" -> native.keys), do)
    /\ UNCHANGED <<other, ours, answer, call, drift>>

(* int(). *)
Truncated(n) == IF n >= 0 THEN n \div Step ELSE -((-n) \div Step)

(* _forward_scroll(): whole steps are scrolled, the rest is kept for the next time.
   Without its device the action falls back, and nothing is kept; after any other
   error what was asked for counts as done. *)
NativeScroll ==
    /\ Now("scroll", "native")
    /\ LET total == Arg + remainder
           steps == Truncated(total)
       IN  IF steps # 0 /\ ~native.pointer
           THEN Goto("next") /\ UNCHANGED <<native, remainder, acts, raised, drift>>
           ELSE /\ remainder' = total - Step * steps
                /\ drift' = drift + Arg - Step * steps
                /\ IF steps # 0 THEN Command(native, "scroll")
                   ELSE Return /\ UNCHANGED <<native, acts, raised>>
    /\ UNCHANGED <<other, memory, saved, control, answer, call>>

-----------------------------------------------------------------------------
(* The other backend: Talon's own actions, which work or raise, and Community's
   drags, which look at the buttons that are down and call the main actions again. *)

NextEffect ==
    /\ \E do \in {"click", "move", "scroll", "glide", "tap"} :
        /\ Now(do, "next")
        /\ \/ Acts("other", do) /\ Return /\ UNCHANGED raised
           \/ Raise /\ UNCHANGED acts
    /\ UNCHANGED <<backends, ours, answer, call, drift>>

(* What is held there is recorded, in memory and in sys. *)
Recorded(field, now) == memory' = [memory EXCEPT ![field] = now] /\
                        saved' = [saved EXCEPT ![field] = now]

Changed(do, down) == IF do \in {"drag", "keydown"} THEN down \cup {Arg} ELSE down \ {Arg}

(* Broken: it is recorded before it has been done. *)
NextHoldEarly ==
    /\ \E do \in {"drag", "release", "keydown", "keyup"} :
        LET field == IF do \in KeyActions THEN "keys" ELSE "buttons"
        IN  /\ Now(do, "next")
            /\ Recorded(field, Changed(do, memory[field]))
            /\ \/ /\ other' = [other EXCEPT ![field] = Changed(do, @)]
                  /\ Acts("other", do) /\ Return /\ UNCHANGED raised
               \/ Raise /\ UNCHANGED <<other, acts>>
    /\ UNCHANGED <<native, remainder, control, answer, call, drift>>

NextHold ==
    /\ \E do \in {"drag", "release", "keydown", "keyup"} :
        LET field == IF do \in KeyActions THEN "keys" ELSE "buttons"
        IN  /\ Now(do, "next")
            /\ \/ /\ other' = [other EXCEPT ![field] = Changed(do, @)]
                  /\ Recorded(field, Changed(do, memory[field]))
                  /\ Acts("other", do) /\ Return /\ UNCHANGED raised
               \/ Raise /\ UNCHANGED <<other, memory, saved, acts>>
    /\ UNCHANGED <<native, remainder, control, answer, call, drift>>

NextToggle ==
    /\ Now("toggle", "next")
    /\ Calls(<<Action(IF Arg \in other.buttons THEN "release" ELSE "drag", Arg)>>)
    /\ UNCHANGED <<backends, ours, answer, history>>

(* mouse_drag_end() with a fallback drag, or without the device: Community releases
   what it finds down; after a fallback drag the record is cleared. *)
NextEnd ==
    /\ Now("end", "next")
    /\ answer' = (memory.buttons # {} \/ other.buttons # {})
    /\ Goto(IF memory.buttons # {} THEN "clear" ELSE "leave")
    /\ UNCHANGED <<backends, ours, history>>

LetGo ==
    /\ todo # <<>> /\ Head(todo).at \in {"clear", "leave"}
    /\ \E b \in other.buttons : todo' = <<Action("release", b)>> \o todo
    /\ UNCHANGED <<backends, ours, answer, history>>

Ended ==
    /\ todo # <<>> /\ Head(todo).at \in {"clear", "leave"}
    /\ other.buttons = {}
    /\ IF Now("end", "clear") THEN Recorded("buttons", {}) ELSE UNCHANGED <<memory, saved>>
    /\ Return
    /\ UNCHANGED <<backends, remainder, control, answer, history>>

-----------------------------------------------------------------------------
(* Actions made of others. *)

(* mouse_forwarder_touch() and _forward_left_click(). *)
Touch ==
    /\ Now("touch", "choose")
    /\ Calls(<<Action("end", Left), [Head(todo) EXCEPT !.at = "ended"]>>)
    /\ UNCHANGED <<backends, ours, answer, history>>

Touched ==
    /\ Now("touch", "ended")
    /\ IF answer THEN Return ELSE Calls(<<Action("click", Left)>>)
    /\ UNCHANGED <<backends, ours, answer, history>>

(* modified_click(): a button that is not supported, or is held, raises. *)
ModifiedClick ==
    /\ Now("modified", "native")
    /\ IF Arg \notin Supported THEN Raise /\ UNCHANGED <<native, acts>>
       ELSE IF ~native.pointer \/ ~native.keyboard
       THEN Goto("next") /\ UNCHANGED <<native, acts, raised>>
       ELSE IF Arg \in native.buttons THEN Raise /\ UNCHANGED <<native, acts>>
       ELSE Command(native, "click")
    /\ UNCHANGED <<other, ours, answer, call, drift>>

(* _fallback_modified_click(): by a native token around the click, ... *)
FallbackModified ==
    /\ Now("modified", "next")
    /\ IF native.keyboard THEN Goto("begin")
       ELSE Calls(<<Action("keydown", Modifier), [Head(todo) EXCEPT !.at = "pressed"]>>)
    /\ UNCHANGED <<backends, ours, answer, history>>

BeginModifiers ==
    /\ Now("modified", "begin")
    /\ IF ~native.keyboard
       THEN /\ Calls(<<Action("keydown", Modifier), [Head(todo) EXCEPT !.at = "pressed"]>>)
            /\ UNCHANGED <<native, raised>>
       ELSE \/ /\ native' = Holding("keys", native.keys \cup {Modifier})
               /\ Calls(<<Action("click", Arg), Action("unpress", {Modifier} \ native.keys)>>)
               /\ UNCHANGED raised
            \/ native' \in {native, Gone} /\ Raise
    /\ UNCHANGED <<other, ours, answer, call, acts, drift>>

(* end_temporary_modifiers(): it does nothing if the keyboard is lost. *)
EndModifiers ==
    /\ Now("unpress", "choose")
    /\ \/ native' = Holding("keys", native.keys \ Arg) /\ Return /\ UNCHANGED raised
       \/ native.keyboard /\ native' \in {native, Gone} /\ Raise
    /\ UNCHANGED <<other, ours, answer, call, acts, drift>>

(* ... or by keys around it. *)
Pressed ==
    /\ Now("modified", "pressed")
    /\ Calls(<<Action("click", Arg), Action("keyup", Modifier)>>)
    /\ UNCHANGED <<backends, ours, answer, history>>

-----------------------------------------------------------------------------
(* Scripts, noises, reloads, and the coming and going of devices. *)

Scripts == [do : ButtonActions \cup {"modified"}, arg : Buttons, at : {"choose"}] \cup
           [do : {"end", "touch", "move", "glide"}, arg : {Left}, at : {"choose"}] \cup
           [do : KeyActions, arg : Keys, at : {"choose"}] \cup
           [do : {"scroll"}, arg : Deltas, at : {"choose"}]

Started(action) ==
    /\ todo = <<>> /\ todo' = <<action>>
    /\ call' = [do |-> action.do, arg |-> action.arg,
                buttons |-> native.buttons, keys |-> native.keys,
                otherButtons |-> other.buttons, otherKeys |-> other.keys]
    /\ acts' = <<>> /\ raised' = {}
    /\ UNCHANGED <<backends, ours, answer, drift>>

Script == \E action \in Scripts : Started(action)
Pop == memory.hiss /\ Started(Action("touch", Left))

(* noise_trigger_hiss(): Control Mouse is switched, or it raises. *)
Hiss == /\ todo = <<>> /\ memory.hiss
        /\ control' \in {"hiss", "off", control}
        /\ UNCHANGED <<backends, memory, saved, remainder, todo, answer, history>>

(* _set_hiss_mouse_enabled(): the feature is off, and saved so, before Control Mouse is
   switched off, which may raise and leave it on. *)
LeftOn == IF control = "hiss" THEN "left" ELSE control

SetHiss(enabled) ==
    /\ todo = <<>>
    /\ memory' = [memory EXCEPT !.hiss = enabled] /\ saved' = [saved EXCEPT !.hiss = enabled]
    /\ IF enabled THEN control' = IF control = "left" THEN "hiss" ELSE control
       ELSE control' \in {"off", LeftOn}
    /\ UNCHANGED <<backends, remainder, todo, answer, history>>

(* The user switches Control Mouse. *)
SwitchControl ==
    /\ todo = <<>> /\ control' \in {"user", "off"}
    /\ UNCHANGED <<backends, memory, saved, remainder, todo, answer, history>>

(* The modules are loaded again; the remainder starts anew. *)
Reload ==
    /\ todo = <<>>
    /\ memory' = saved /\ remainder' = 0 /\ drift' = 0
    /\ UNCHANGED <<backends, saved, control, todo, answer, call, acts, raised>>

PointerComes == /\ ~native.pointer /\ native' = [native EXCEPT !.pointer = TRUE]
                /\ UNCHANGED <<other, ours, todo, answer, history>>
PointerGoes == /\ native.pointer
               /\ native' = [native EXCEPT !.pointer = FALSE, !.buttons = {}]
               /\ UNCHANGED <<other, ours, todo, answer, history>>
KeyboardComes == /\ ~native.keyboard /\ native' = [native EXCEPT !.keyboard = TRUE]
                 /\ UNCHANGED <<other, ours, todo, answer, history>>
KeyboardGoes == /\ native.keyboard
                /\ native' = [native EXCEPT !.keyboard = FALSE, !.keys = {}]
                /\ UNCHANGED <<other, ours, todo, answer, history>>

ScriptStep == \/ Choose \/ ChooseKey \/ FallBack
              \/ NativeMotion \/ NativeClick \/ NativeButton \/ NativeEnd \/ NativeKey
              \/ NativeScroll
              \/ NextEffect \/ NextHold \/ NextToggle \/ NextEnd \/ LetGo \/ Ended
              \/ Touch \/ Touched
              \/ ModifiedClick \/ FallbackModified \/ BeginModifiers \/ EndModifiers
              \/ Pressed

Next == \/ ScriptStep
        \/ Script \/ Pop \/ Hiss \/ (\E enabled \in BOOLEAN : SetHiss(enabled)) \/ SwitchControl
        \/ Reload \/ PointerComes \/ PointerGoes \/ KeyboardComes \/ KeyboardGoes

Spec == Init /\ [][Next]_vars

-----------------------------------------------------------------------------
(* Properties. *)

(* What this program has started in the other backend it knows of, also after a
   reload and after actions of its own that raised half way: the buttons and keys
   down there are those recorded, so that their release is sent there and nowhere
   else.  Control Mouse is on by a hiss only while the end of the hiss, or the end of
   the feature, switches it off; but where that switch itself raises at the end of the
   feature, Control Mouse is left on, and the end of the hiss no longer sees to it. *)
OwnershipSurvives ==
    /\ memory = saved
    /\ memory.buttons = other.buttons /\ memory.keys = other.keys
    /\ control = "hiss" => memory.hiss

(* An action that lets go has let go, whatever came and went on the way: a button or
   key that was released is up in both backends, mouse_drag_end() leaves no button
   down and tells of a drag only if there was one, and no modified click leaves its
   modifiers down.  Where both backends hold something at once, which takes a drag
   of a button the native one does not have, or a release that raised, the release
   goes to the other one alone. *)
Mixed == \/ call.buttons # {} /\ call.otherButtons # {}
         \/ call.keys # {} /\ call.otherKeys # {}

ReleasesReachOwner ==
    todo = <<>> /\ ~Mixed =>
        /\ call.do = "release" /\ raised = {} =>
              call.arg \notin native.buttons \cup other.buttons
        /\ call.do = "keyup" /\ raised = {} => call.arg \notin native.keys \cup other.keys
        /\ call.do = "end" /\ raised = {} =>
              /\ native.buttons \cup other.buttons = {}
              /\ answer => call.buttons \cup call.otherButtons # {}
        /\ call.do = "modified" /\ raised \cap Finally = {} =>
              native.keys \subseteq call.keys /\ other.keys \subseteq call.otherKeys

(* Nothing a script asks for is done twice, in two backends or after an error, and
   nothing but an error makes it undone: a touch ends a drag or clicks, never both,
   and the wheel has turned as far as asked but for less than a step.  A button that a
   ValueError broke off ("partly") is not counted: where the native backend had sent it,
   the other one does it again, against the rule on replayed input. *)
Momentary == {"release", "keydown", "keyup"}
Works == {n \in DOMAIN acts : acts[n][2] \notin Momentary /\ acts[n][1] # "partly"}

ActsOnce ==
    /\ \A m, n \in Works : m = n
    /\ remainder = drift
    /\ todo = <<>> /\ raised = {} =>
        /\ call.do \in {"click", "move", "glide", "tap", "drag", "modified"} => Works # {}
        /\ call.do = "touch" => (answer <=> Works = {})

=============================================================================
