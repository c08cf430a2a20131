--------------------------- MODULE RoutingProofs ----------------------------
(***************************************************************************)
(* What module Routing promises, for all buttons, keys and wheel steps,    *)
(* whatever scripts call, and wherever their actions raise or lose their   *)
(* device.                                                                 *)
(*                                                                         *)
(* OwnershipSurvives is inductive once the shape of the records is known:  *)
(* only NextHold, Ended and the actions on hisses and reloads touch what it*)
(* is about.  Ended is where it is not obvious: the record is cleared      *)
(* whatever it holds, and that is right only because Community has then    *)
(* released everything.                                                    *)
(*                                                                         *)
(* ActsOnce and ReleasesReachOwner speak of the end of a call, so they need*)
(* what holds in the middle of it.  StackInv says which actions a call can *)
(* have on its stack, at most three deep; the other invariants say, action *)
(* by action, what has been done (WorkInv), and where the buttons and keys *)
(* are that the call found or pressed (ReleaseInv, KeyupInv, EndInv,       *)
(* ModInv).  The step that carries them is the choice of the backend: an   *)
(* action goes to the native one only while the other holds nothing, and to*)
(* the other one only if the native one holds nothing that the call found. *)
(***************************************************************************)
EXTENDS Routing, SequenceTheorems, TLAPS

-----------------------------------------------------------------------------
(* Ownership. *)

Shapes == /\ memory = [buttons |-> memory.buttons, keys |-> memory.keys, hiss |-> memory.hiss]
          /\ saved = [buttons |-> saved.buttons, keys |-> saved.keys, hiss |-> saved.hiss]
          /\ other = [buttons |-> other.buttons, keys |-> other.keys]

Owned == Shapes /\ OwnershipSurvives

Bookkeeping == <<other, memory, saved, control>>

(* The records are right when the plugins are loaded. *)
LEMMA OwnedInit == Init => Owned
<1> SUFFICES ASSUME Init PROVE Owned
  OBVIOUS
<1>1. other = [buttons |-> {}, keys |-> {}] /\ memory \in [buttons : {{}}, keys : {{}}, hiss : BOOLEAN]
      /\ saved = memory /\ control = "off"
  BY DEF Init
<1>2. PICK h \in BOOLEAN : memory = [buttons |-> {}, keys |-> {}, hiss |-> h]
  BY <1>1
<1> QED
  BY <1>1, <1>2 DEF Owned, Shapes, OwnershipSurvives

(* Most actions do not touch what the other backend holds, nor the record of it. *)
LEMMA OwnedKept == ASSUME Owned, UNCHANGED Bookkeeping PROVE Owned'
BY DEF Owned, Shapes, OwnershipSurvives, Bookkeeping

(* A drag, a press or a release elsewhere changes both alike. *)
LEMMA OwnedNextHold == ASSUME Owned, NextHold PROVE Owned'
<1>1. PICK do \in {"drag", "release", "keydown", "keyup"} :
        LET field == IF do \in KeyActions THEN "keys" ELSE "buttons"
        IN  \/ /\ other' = [other EXCEPT ![field] = Changed(do, @)]
               /\ Recorded(field, Changed(do, memory[field]))
            \/ UNCHANGED <<other, memory, saved>>
  BY DEF NextHold
<1>2. control' = control
  BY DEF NextHold
<1>3. CASE UNCHANGED <<other, memory, saved>>
  BY <1>2, <1>3, OwnedKept DEF Bookkeeping
<1>4. CASE do \in KeyActions /\ ~UNCHANGED <<other, memory, saved>>
  <2>1. /\ other' = [other EXCEPT !.keys = Changed(do, other.keys)]
        /\ memory' = [memory EXCEPT !.keys = Changed(do, memory.keys)]
        /\ saved' = [saved EXCEPT !.keys = Changed(do, memory.keys)]
    BY <1>1, <1>4 DEF Recorded, Owned, Shapes
  <2> QED
    BY <2>1, <1>2 DEF Owned, Shapes, OwnershipSurvives
<1>5. CASE do \notin KeyActions /\ ~UNCHANGED <<other, memory, saved>>
  <2>1. /\ other' = [other EXCEPT !.buttons = Changed(do, other.buttons)]
        /\ memory' = [memory EXCEPT !.buttons = Changed(do, memory.buttons)]
        /\ saved' = [saved EXCEPT !.buttons = Changed(do, memory.buttons)]
    BY <1>1, <1>5 DEF Recorded, Owned, Shapes
  <2> QED
    BY <2>1, <1>2 DEF Owned, Shapes, OwnershipSurvives
<1> QED
  BY <1>3, <1>4, <1>5

(* The end of a drag clears the record when nothing is down. *)
LEMMA OwnedEnded == ASSUME Owned, Ended PROVE Owned'
<1>1. other.buttons = {} /\ UNCHANGED <<other, control>>
  BY DEF Ended, backends
<1>2. CASE UNCHANGED <<memory, saved>>
  BY <1>1, <1>2, OwnedKept DEF Bookkeeping
<1>3. CASE Recorded("buttons", {})
  <2>1. memory' = [memory EXCEPT !.buttons = {}] /\ saved' = [saved EXCEPT !.buttons = {}]
    BY <1>3 DEF Recorded
  <2> QED
    BY <1>1, <2>1 DEF Owned, Shapes, OwnershipSurvives
<1> QED
  BY <1>2, <1>3 DEF Ended

(* Switching the feature off takes Control Mouse with it, or leaves it on. *)
LEMMA OwnedSetHiss == ASSUME Owned, NEW enabled \in BOOLEAN, SetHiss(enabled) PROVE Owned'
<1>1. control' = "hiss" => enabled
  BY DEF SetHiss, LeftOn
<1>2. /\ memory' = [memory EXCEPT !.hiss = enabled] /\ saved' = [saved EXCEPT !.hiss = enabled]
      /\ other' = other
  BY DEF SetHiss, backends
<1> QED
  BY <1>1, <1>2 DEF Owned, Shapes, OwnershipSurvives

(* A hiss needs the feature. *)
LEMMA OwnedHiss == ASSUME Owned, Hiss PROVE Owned'
BY DEF Owned, Shapes, OwnershipSurvives, Hiss, backends

(* What the user switches is not ours. *)
LEMMA OwnedSwitchControl == ASSUME Owned, SwitchControl PROVE Owned'
BY DEF Owned, Shapes, OwnershipSurvives, SwitchControl, backends

(* A reload finds what was saved. *)
LEMMA OwnedReload == ASSUME Owned, Reload PROVE Owned'
BY DEF Owned, Shapes, OwnershipSurvives, Reload, backends

(* Every step keeps the records right. *)
LEMMA OwnedStep == ASSUME Owned, [Next]_vars PROVE Owned'
<1>1. CASE Choose \/ ChooseKey \/ FallBack \/ NextToggle \/ NextEnd \/ LetGo
  BY <1>1, OwnedKept DEF Bookkeeping, Choose, ChooseKey, FallBack, NextToggle, NextEnd, LetGo,
                         backends, ours
<1>2. CASE NativeMotion \/ NativeClick \/ NativeButton \/ NativeEnd \/ NativeKey \/ NativeScroll
  BY <1>2, OwnedKept DEF Bookkeeping, NativeMotion, NativeClick, NativeButton, NativeEnd,
                         NativeKey, NativeScroll, ours
<1>3. CASE NextEffect \/ Touch \/ Touched \/ ModifiedClick \/ FallbackModified
  BY <1>3, OwnedKept DEF Bookkeeping, NextEffect, Touch, Touched, ModifiedClick,
                         FallbackModified, backends, ours
<1>4. CASE BeginModifiers \/ EndModifiers \/ Pressed \/ Script \/ Pop
  BY <1>4, OwnedKept DEF Bookkeeping, BeginModifiers, EndModifiers, Pressed, Script, Pop,
                         Started, backends, ours
<1>5. CASE PointerComes \/ PointerGoes \/ KeyboardComes \/ KeyboardGoes \/ UNCHANGED vars
  BY <1>5, OwnedKept DEF Bookkeeping, PointerComes, PointerGoes, KeyboardComes, KeyboardGoes,
                         vars, backends, ours
<1>6. CASE NextHold \/ Ended
  BY <1>6, OwnedNextHold, OwnedEnded
<1>7. CASE Hiss \/ SwitchControl \/ Reload \/ \E enabled \in BOOLEAN : SetHiss(enabled)
  BY <1>7, OwnedHiss, OwnedSwitchControl, OwnedReload, OwnedSetHiss
<1> QED
  BY <1>1, <1>2, <1>3, <1>4, <1>5, <1>6, <1>7 DEF Next, ScriptStep

(* Whatever scripts do, however their actions are nested and wherever they raise: the
   buttons and keys down in the other backend are those that mouse_forwarder.py and
   wayland_runtime.py remember and have saved, so that their release goes there. And
   Control Mouse is on by a hiss only while hiss_mouse.py's feature is: unless
   switching it off at the end of the feature raised, which leaves it on. *)
THEOREM RoutingOwnership == Spec => []OwnershipSurvives
<1>1. Owned /\ [Next]_vars => Owned'
  BY OwnedStep
<1>2. Owned => OwnershipSurvives
  BY DEF Owned
<1> QED
  BY OwnedInit, <1>1, <1>2, PTL DEF Spec

-----------------------------------------------------------------------------
(* Sequences. *)

(* Short stacks. *)
LEMMA Short ==
    ASSUME NEW x, NEW u
    PROVE  /\ <<x>> # <<>> /\ Head(<<x>>) = x /\ Tail(<<x>>) = <<>> /\ <<x>>[1] = x
           /\ <<x, u>> # <<>> /\ Head(<<x, u>>) = x /\ Tail(<<x, u>>) = <<u>>
           /\ <<x>> \o <<>> = <<x>> /\ <<x, u>> \o <<>> = <<x, u>>
<1>1. <<x>> # <<>> /\ Head(<<x>>) = x /\ Tail(<<x>>) = <<>> /\ <<x>>[1] = x
  OBVIOUS
<1>2. <<x, u>> # <<>> /\ Head(<<x, u>>) = x /\ Tail(<<x, u>>) = <<u>>
  OBVIOUS
<1>3. <<x>> \o <<>> = <<x>> /\ <<x, u>> \o <<>> = <<x, u>>
  OBVIOUS
<1> QED
  BY <1>1, <1>2, <1>3

(* A stack with one more action on top. *)
LEMMA Push ==
    ASSUME NEW S, NEW x \in S, NEW r \in Seq(S)
    PROVE  <<x>> \o r # <<>> /\ Head(<<x>> \o r) = x /\ Tail(<<x>> \o r) = r
<1> DEFINE one == <<x>>
           q == one \o r
<1>1. one \in Seq(S) /\ Len(one) = 1 /\ one[1] = x
  OBVIOUS
<1> HIDE DEF one
<1>a. /\ one \o r \in Seq(S) /\ Len(one \o r) = Len(one) + Len(r)
      /\ \A i \in 1..Len(one) + Len(r) : (one \o r)[i] = IF i <= Len(one) THEN one[i] ELSE r[i - Len(one)]
  BY <1>1, ConcatProperties, Zenon
<1>b. /\ q \in Seq(S) /\ Len(q) = Len(one) + Len(r)
      /\ \A i \in 1..Len(one) + Len(r) : q[i] = IF i <= Len(one) THEN one[i] ELSE r[i - Len(one)]
  BY <1>a, Zenon
<1> HIDE DEF q
<1>2. /\ q \in Seq(S) /\ Len(q) = 1 + Len(r) /\ Len(r) \in Nat
      /\ \A i \in 1..Len(one) + Len(r) : q[i] = IF i <= Len(one) THEN one[i] ELSE r[i - Len(one)]
  BY <1>1, <1>b
<1>3. q # <<>> /\ Head(q) = x
  BY <1>1, <1>2
<1>4. Tail(q) \in Seq(S) /\ Len(Tail(q)) = Len(r) /\ \A i \in 1..Len(r) : Tail(q)[i] = r[i]
  <2>1. Tail(q) \in Seq(S) /\ Len(Tail(q)) = Len(r) /\ \A i \in 1..Len(r) : Tail(q)[i] = q[i + 1]
    BY <1>2, <1>3
  <2>2. ASSUME NEW i \in 1..Len(r) PROVE q[i + 1] = r[i]
    <3>1. i + 1 \in 1..Len(one) + Len(r) /\ ~(i + 1 <= Len(one)) /\ i + 1 - Len(one) = i
      BY <1>1, <1>2
    <3> QED
      BY <1>2, <3>1
  <2> QED
    BY <2>1, <2>2
<1>5. Tail(q) = r
  BY <1>4, SeqEqual
<1> QED
  BY <1>3, <1>5 DEF q, one

(* What an error leaves of them. *)
Kept(kept, stack) ==
    kept = [n \in 0..Len(stack) |->
              IF n = 0 THEN <<>>
              ELSE IF stack[n].do \in Finally THEN Append(kept[n - 1], stack[n]) ELSE kept[n - 1]]

(* The recursive definition of Unwound is met by what it denotes, as soon as any
   function meets it. *)
LEMMA UnwoundKept ==
    ASSUME NEW stack, NEW kept, Kept(kept, stack)
    PROVE  \E other_ : Kept(other_, stack) /\ Unwound(stack) = other_[Len(stack)]
<1>1. Kept(CHOOSE k : Kept(k, stack), stack)
  OBVIOUS
<1>2. Unwound(stack) = (CHOOSE k : Kept(k, stack))[Len(stack)]
  BY DEF Unwound, Kept
<1> QED
  BY <1>1, <1>2

(* An error on the bottom of the stack leaves nothing. *)
LEMMA UnwoundNone == Unwound(<<>>) = <<>>
<1>1. Kept([n \in 0..0 |-> <<>>], <<>>)
  BY DEF Kept
<1>2. PICK k : Kept(k, <<>>) /\ Unwound(<<>>) = k[0]
  BY <1>1, UnwoundKept
<1> QED
  BY <1>2 DEF Kept

(* Of one action beneath the error only a "finally" is left. *)
LEMMA UnwoundOne ==
    ASSUME NEW u
    PROVE  Unwound(<<u>>) = IF u.do \in Finally THEN <<u>> ELSE <<>>
<1> DEFINE one == IF u.do \in Finally THEN <<u>> ELSE <<>>
<1>0. Append(<<>>, u) = <<u>> /\ Len(<<u>>) = 1 /\ <<u>>[1] = u /\ 0..1 = {0, 1}
  OBVIOUS
<1>1. Kept([n \in 0..1 |-> IF n = 0 THEN <<>> ELSE one], <<u>>)
  BY <1>0 DEF Kept
<1>2. PICK k : Kept(k, <<u>>) /\ Unwound(<<u>>) = k[1]
  BY <1>0, <1>1, UnwoundKept
<1>3. k[0] = <<>>
  BY <1>0, <1>2 DEF Kept
<1> HIDE DEF one
<1>4. 1 # 0 /\ 1 - 1 = 0 /\ 1 \in 0..Len(<<u>>)
  BY <1>0
<1>5. k[1] = IF <<u>>[1].do \in Finally THEN Append(k[1 - 1], <<u>>[1]) ELSE k[1 - 1]
  BY <1>2, <1>4 DEF Kept
<1> QED
  BY <1>0, <1>2, <1>3, <1>4, <1>5

(* Two actions beneath it that have no "finally" are gone. *)
LEMMA UnwoundTwo ==
    ASSUME NEW u, NEW v, u.do \notin Finally, v.do \notin Finally
    PROVE  Unwound(<<u, v>>) = <<>>
<1>0. Len(<<u, v>>) = 2 /\ <<u, v>>[1] = u /\ <<u, v>>[2] = v /\ 0..2 = {0, 1, 2}
  OBVIOUS
<1>1. Kept([n \in 0..2 |-> <<>>], <<u, v>>)
  BY <1>0 DEF Kept
<1>2. PICK k : Kept(k, <<u, v>>) /\ Unwound(<<u, v>>) = k[2]
  BY <1>0, <1>1, UnwoundKept
<1>3. k[0] = <<>> /\ k[1] = k[0] /\ k[2] = k[1]
  BY <1>0, <1>2 DEF Kept
<1> QED
  BY <1>2, <1>3

-----------------------------------------------------------------------------
(* Types, and what may stand on what. *)

Spot(do, at) ==
    \/ at = "choose"
    \/ at \in {"native", "next"} /\ do \notin {"touch", "unpress"}
    \/ at \in {"clear", "leave"} /\ do = "end"
    \/ at = "ended" /\ do = "touch"
    \/ at \in {"begin", "pressed"} /\ do = "modified"

Places == {"choose", "native", "next", "clear", "leave", "ended", "begin", "pressed"}
Frames == [do : ButtonActions \cup {"modified"}, arg : Buttons, at : Places] \cup
          [do : {"end", "touch", "move", "glide"}, arg : {Left}, at : Places] \cup
          [do : KeyActions, arg : Keys, at : Places] \cup
          [do : {"scroll"}, arg : Deltas, at : Places] \cup
          [do : {"unpress"}, arg : SUBSET Keys, at : Places]
Frame == {t \in Frames : Spot(t.do, t.at)}

Waits(a, do, places) == a.do = do /\ a.at \in places
Touching == [do |-> "touch", arg |-> Left, at |-> "ended"]

(* What a call has on its stack alone, ... *)
Own(t) ==
    \/ t.do = call.do /\ (t.do \in {"release", "keyup"} => t.arg = call.arg)
    \/ call.do = "touch" /\ t.do = "click"
    \/ call.do = "toggle" /\ t.do \in {"drag", "release"}
    \/ call.do = "modified" /\ (t.do = "unpress" \/ (t.do = "keyup" /\ t.arg = Modifier))

(* ... and on what else of it. *)
Ending(u) == Waits(u, "end", {"clear", "leave"})
Over(t, u) ==
    \/ call.do = "touch" /\ t.do = "end" /\ u = Touching
    \/ call.do = "end" /\ t.do = "release" /\ Ending(u)
    \/ call.do = "modified" /\ t.do = "keydown" /\ t.arg = Modifier /\ Waits(u, "modified", {"pressed"})
    \/ call.do = "modified" /\ t.do = "click" /\ Waits(u, "keyup", {"choose"}) /\ u.arg = Modifier
    \/ call.do = "modified" /\ t.do = "click" /\ Waits(u, "unpress", {"choose"})

Within(t, r) ==
    \/ r = <<>> /\ Own(t)
    \/ \E u \in Frame : r = <<u>> /\ Over(t, u)
    \/ \E u \in Frame : r = <<u, Touching>> /\ call.do = "touch" /\ t.do = "release" /\ Ending(u)

StackInv == todo \in Seq(Frame) /\ (todo # <<>> => Within(Head(todo), Tail(todo)))

(* What an action on the stack is called with, and that it stays one when it goes to
   another place. *)
LEMMA FrameFacts ==
    ASSUME NEW t \in Frame
    PROVE  /\ t = [do |-> t.do, arg |-> t.arg, at |-> t.at] /\ Spot(t.do, t.at)
           /\ t.do \in ButtonActions \cup {"modified"} => t.arg \in Buttons
           /\ t.do \in KeyActions => t.arg \in Keys
           /\ t.do = "scroll" => t.arg \in Deltas
           /\ t.do = "touch" => t.arg = Left
           /\ t.do = "unpress" => t.arg \subseteq Keys
           /\ \A at : /\ Spot(t.do, at) => [t EXCEPT !.at = at] \in Frame
                     /\ [t EXCEPT !.at = at].do = t.do
                     /\ [t EXCEPT !.at = at].arg = t.arg
                     /\ [t EXCEPT !.at = at].at = at
<1>1. t \in Frames /\ Spot(t.do, t.at)
  BY DEF Frame
<1>2. /\ t = [do |-> t.do, arg |-> t.arg, at |-> t.at]
      /\ t.do \in ButtonActions \cup {"modified"} => t.arg \in Buttons
      /\ t.do \in KeyActions => t.arg \in Keys
      /\ t.do = "scroll" => t.arg \in Deltas
      /\ t.do = "touch" => t.arg = Left
      /\ t.do = "unpress" => t.arg \subseteq Keys
  BY <1>1 DEF Frames, ButtonActions, KeyActions
<1>3. ASSUME NEW at
      PROVE  /\ Spot(t.do, at) => [t EXCEPT !.at = at] \in Frame
             /\ [t EXCEPT !.at = at].do = t.do
             /\ [t EXCEPT !.at = at].arg = t.arg
             /\ [t EXCEPT !.at = at].at = at
  <2> DEFINE x == [t EXCEPT !.at = at]
  <2>1. x = [do |-> t.do, arg |-> t.arg, at |-> at]
    BY <1>2
  <2>2. x.do = t.do /\ x.arg = t.arg /\ x.at = at
    BY <2>1
  <2>3. Spot(t.do, at) => at \in Places
    BY DEF Spot, Places
  <2>4. at \in Places => x \in Frames
    BY <1>1, <2>1 DEF Frames
  <2> HIDE DEF x
  <2>5. Spot(t.do, at) => x \in Frame
    BY <2>2, <2>3, <2>4 DEF Frame
  <2> QED
    BY <2>2, <2>5 DEF x
<1> QED
  BY <1>1, <1>2, <1>3

(* What a new action on the stack looks like. *)
LEMMA ActionFacts ==
    ASSUME NEW do, NEW arg
    PROVE  /\ Action(do, arg).do = do /\ Action(do, arg).arg = arg /\ Action(do, arg).at = "choose"
           /\ do \in ButtonActions \cup {"modified"} /\ arg \in Buttons => Action(do, arg) \in Frame
           /\ do \in {"end", "touch", "move", "glide"} /\ arg = Left => Action(do, arg) \in Frame
           /\ do \in KeyActions /\ arg \in Keys => Action(do, arg) \in Frame
           /\ do = "scroll" /\ arg \in Deltas => Action(do, arg) \in Frame
           /\ do = "unpress" /\ arg \subseteq Keys => Action(do, arg) \in Frame
BY DEF Action, Frame, Frames, Spot, ButtonActions, KeyActions, Places

(* The top changes its place. *)
LEMMA Goes ==
    ASSUME StackInv, todo # <<>>, NEW at, Spot(Head(todo).do, at), Goto(at)
    PROVE  /\ todo' # <<>> /\ todo' \in Seq(Frame) /\ Tail(todo') = Tail(todo)
           /\ Head(todo').do = Head(todo).do /\ Head(todo').arg = Head(todo).arg /\ Head(todo').at = at
           /\ UNCHANGED call => StackInv'
<1>1. Head(todo) \in Frame /\ Tail(todo) \in Seq(Frame)
  BY DEF StackInv
<1> DEFINE x == [Head(todo) EXCEPT !.at = at]
<1>2. x \in Frame /\ x.do = Head(todo).do /\ x.arg = Head(todo).arg /\ x.at = at
  BY <1>1, FrameFacts
<1>3. todo' = <<x>> \o Tail(todo)
  BY DEF Goto
<1> HIDE DEF x
<1>4. todo' # <<>> /\ Tail(todo') = Tail(todo) /\ Head(todo') = x
  BY <1>1, <1>2, <1>3, Push
<1>5. todo' \in Seq(Frame)
  BY <1>1, <1>2, <1>3
<1>6. ASSUME UNCHANGED call PROVE StackInv'
  <2>1. Within(Head(todo), Tail(todo))
    BY DEF StackInv
  <2>2. Within(Head(todo), Tail(todo))'
    BY <1>2, <1>4, <1>6, <2>1 DEF Within, Own, Over
  <2> QED
    BY <1>5, <2>2 DEF StackInv
<1> QED
  BY <1>2, <1>4, <1>5, <1>6

(* The top goes, and what it stood on goes on. *)
LEMMA Returns ==
    ASSUME StackInv, todo # <<>>, Return, UNCHANGED call
    PROVE  /\ StackInv' /\ todo' = Tail(todo)
           /\ Tail(todo) # <<>> => \/ Over(Head(todo), Head(todo')) /\ Tail(todo') = <<>>
                                   \/ /\ Ending(Head(todo')) /\ Tail(todo') = <<Touching>>
                                      /\ call.do = "touch" /\ Head(todo).do = "release"
<1>1. Tail(todo) \in Seq(Frame) /\ Within(Head(todo), Tail(todo)) /\ todo' = Tail(todo)
  BY DEF StackInv, Return
<1>2. CASE Tail(todo) = <<>>
  BY <1>1, <1>2 DEF StackInv
<1>3. ASSUME NEW u \in Frame, Tail(todo) = <<u>>, Over(Head(todo), u)
      PROVE  StackInv' /\ Over(Head(todo), Head(todo')) /\ Tail(todo') = <<>>
  <2>1. Head(todo') = u /\ Tail(todo') = <<>>
    BY <1>1, <1>3, Short
  <2>2. Own(u)
    BY <1>3 DEF Over, Own, Touching, Ending, Waits
  <2>3. Own(u)'
    BY <2>2 DEF Own
  <2> QED
    BY <1>1, <1>3, <2>1, <2>3 DEF StackInv, Within
<1>4. ASSUME NEW u \in Frame, Tail(todo) = <<u, Touching>>, call.do = "touch", Ending(u)
      PROVE  StackInv' /\ Ending(Head(todo')) /\ Tail(todo') = <<Touching>>
  <2>0. Head(<<u, Touching>>) = u /\ Tail(<<u, Touching>>) = <<Touching>>
    BY Short
  <2>1. Head(todo') = u /\ Tail(todo') = <<Touching>>
    BY <1>1, <1>4, <2>0
  <2>2. Over(u, Touching)'
    BY <1>4 DEF Over, Ending, Waits
  <2>3. Touching \in Frame
    BY DEF Touching, Frame, Frames, Spot, Places
  <2> QED
    BY <1>1, <1>4, <2>1, <2>2, <2>3 DEF StackInv, Within
<1> QED
  BY <1>1, <1>2, <1>3, <1>4 DEF Within

(* An error leaves nothing but the release of modifiers. *)
LEMMA Raises ==
    ASSUME StackInv, todo # <<>>, Raise, UNCHANGED call
    PROVE  /\ StackInv' /\ raised' = raised \cup {Head(todo).do}
           /\ \/ todo' = <<>>
              \/ /\ call.do = "modified" /\ Head(todo).do = "click" /\ Over(Head(todo), Head(todo'))
                 /\ Tail(todo') = <<>> /\ todo' = Tail(todo)
<1>1. /\ Tail(todo) \in Seq(Frame) /\ Within(Head(todo), Tail(todo))
      /\ todo' = Unwound(Tail(todo)) /\ raised' = raised \cup {Head(todo).do}
  BY DEF StackInv, Raise
<1>2. ASSUME todo' = <<>> PROVE StackInv'
  BY <1>2 DEF StackInv
<1>3. CASE Tail(todo) = <<>>
  BY <1>1, <1>2, <1>3, UnwoundNone
<1>4. ASSUME NEW u \in Frame, Tail(todo) = <<u>>, Over(Head(todo), u)
      PROVE  StackInv' /\ (\/ todo' = <<>>
                           \/ /\ call.do = "modified" /\ Head(todo).do = "click" /\ Over(Head(todo), Head(todo'))
                              /\ Tail(todo') = <<>> /\ todo' = Tail(todo))
  <2>1. CASE u.do \in Finally
    <3>1. todo' = Tail(todo)
      BY <1>1, <1>4, <2>1, UnwoundOne
    <3>2. call.do = "modified" /\ Head(todo).do = "click"
      BY <1>4, <2>1 DEF Over, Finally, Touching, Ending, Waits
    <3>3. Return
      BY <3>1 DEF Return
    <3> QED
      BY <1>4, <3>1, <3>2, <3>3, Returns, Short
  <2>2. CASE u.do \notin Finally
    BY <1>1, <1>2, <1>4, <2>2, UnwoundOne
  <2> QED
    BY <2>1, <2>2
<1>5. ASSUME NEW u \in Frame, Tail(todo) = <<u, Touching>>, Ending(u) PROVE todo' = <<>>
  <2>1. u.do \notin Finally /\ Touching.do \notin Finally
    BY <1>5 DEF Ending, Waits, Finally, Touching
  <2> QED
    BY <1>1, <1>5, <2>1, UnwoundTwo
<1> QED
  BY <1>1, <1>2, <1>3, <1>4, <1>5 DEF Within

-----------------------------------------------------------------------------
(* The stack keeps its shape. *)

(* What is on top has done its part, or calls others. *)
LEMMA Alone ==
    ASSUME StackInv, todo # <<>>, Head(todo).do \notin {"end", "release", "keydown", "click"}
    PROVE  Tail(todo) = <<>> /\ Own(Head(todo))
BY DEF StackInv, Within, Over

(* An action that is alone calls another in its place. *)
LEMMA CallsOne ==
    ASSUME StackInv, todo # <<>>, Tail(todo) = <<>>, NEW a \in Frame, Calls(<<a>>), Own(a), UNCHANGED call
    PROVE  StackInv' /\ todo' = <<a>> /\ Head(todo') = a
<1>1. todo' = <<a>>
  BY Short DEF Calls
<1>2. Head(<<a>>) = a /\ Tail(<<a>>) = <<>> /\ <<a>> \in Seq(Frame)
  BY Short
<1>3. Own(a)'
  BY DEF Own
<1> QED
  BY <1>1, <1>2, <1>3 DEF StackInv, Within

(* An action that is alone calls two, the second after the first. *)
LEMMA CallsTwo ==
    ASSUME StackInv, todo # <<>>, Tail(todo) = <<>>, NEW a \in Frame, NEW b \in Frame, Calls(<<a, b>>),
           Over(a, b), UNCHANGED call
    PROVE  StackInv' /\ todo' = <<a, b>> /\ Head(todo') = a /\ Tail(todo') = <<b>>
<1>1. <<a, b>> \o <<>> = <<a, b>> /\ Head(<<a, b>>) = a /\ Tail(<<a, b>>) = <<b>>
  BY Short
<1>2. todo' = <<a, b>> \o Tail(todo)
  BY DEF Calls
<1>4. todo' = <<a, b>>
  BY <1>1, <1>2, Zenon
<1>5. <<a, b>> \in Seq(Frame)
  OBVIOUS
<1>3. Over(a, b)'
  BY DEF Over, Ending, Waits
<1>6. Within(Head(todo), Tail(todo))'
  BY <1>1, <1>3, <1>4 DEF Within
<1> QED
  BY <1>1, <1>4, <1>5, <1>6 DEF StackInv

(* Lengths of the shortest stacks. *)
LEMMA Nothing == Len(<<>>) = 0 /\ \A u : Len(<<u>>) = 1 /\ <<u>>[1] = u
OBVIOUS

(* A stack of one or two actions is made of its top and what is beneath. *)
LEMMA Whole ==
    ASSUME StackInv, todo # <<>>
    PROVE  /\ Tail(todo) = <<>> => todo = <<Head(todo)>>
           /\ \A u \in Frame : Tail(todo) = <<u>> => todo = <<Head(todo), u>>
<1>1. PICK h \in Frame : h = Head(todo)
  BY DEF StackInv
<1>a. Tail(todo) \in Seq(Frame)
  BY DEF StackInv
<1>0. PICK r \in Seq(Frame) : r = Tail(todo)
  BY <1>a, Zenon
<1>2. todo \in Seq(Frame) /\ Len(todo) = Len(r) + 1 /\ h = todo[1] /\ Len(todo) \in Nat
      /\ \A i \in 1..Len(r) : r[i] = todo[i + 1]
  BY <1>0, <1>1 DEF StackInv
<1>3. ASSUME r = <<>> PROVE todo = <<h>>
  <2>1. Len(<<h>>) = 1 /\ <<h>>[1] = h /\ <<h>> \in Seq(Frame)
    OBVIOUS
  <2>a. Len(r) = 0
    BY <1>3, Nothing, Zenon
  <2>2. Len(todo) = 1
    BY <1>2, <2>a
  <2>3. \A i \in 1..Len(todo) : todo[i] = <<h>>[i]
    BY <1>2, <2>1, <2>2
  <2> QED
    BY <1>2, <2>1, <2>2, <2>3, SeqEqual, Zenon
<1>4. ASSUME NEW u \in Frame, r = <<u>> PROVE todo = <<h, u>>
  <2>1. Len(r) = 1 /\ r[1] = u
    BY <1>4, Nothing, Zenon
  <2>2. Len(<<h, u>>) = 2 /\ <<h, u>>[1] = h /\ <<h, u>>[2] = u /\ <<h, u>> \in Seq(Frame)
    OBVIOUS
  <2>3. Len(todo) = 2
    BY <1>2, <2>1
  <2>4. 1 \in 1..Len(r)
    BY <2>1
  <2>5. todo[2] = u
    BY <1>2, <2>1, <2>4
  <2> DEFINE w == <<h, u>>
  <2> HIDE DEF w
  <2>6. \A i \in 1..Len(todo) : todo[i] = w[i]
    BY <1>2, <2>2, <2>3, <2>5 DEF w
  <2>7. w \in Seq(Frame) /\ Len(w) = Len(todo)
    BY <2>2, <2>3 DEF w
  <2>8. todo = w
    BY <1>2, <2>6, <2>7, SeqEqual, Zenon
  <2> QED
    BY <2>8 DEF w
<1> QED
  BY <1>0, <1>1, <1>3, <1>4

(* Community's mouse_drag_end() releases a button. *)
LEMMA LetGoStack ==
    ASSUME StackInv, other.buttons \subseteq Buttons, LetGo
    PROVE  StackInv' /\ Head(todo').do = "release" /\ Head(todo').at = "choose" /\ Tail(todo') = todo
           /\ Head(todo').arg \in other.buttons /\ Head(todo).do = "end" /\ todo' # <<>>
<1>0. todo # <<>> /\ Head(todo) \in Frame /\ Head(todo).at \in {"clear", "leave"} /\ UNCHANGED call
      /\ todo \in Seq(Frame)
  BY DEF LetGo, StackInv, history
<1>1. PICK b \in other.buttons : todo' = <<Action("release", b)>> \o todo
  BY DEF LetGo
<1> DEFINE a == Action("release", b)
<1>2. a \in Frame /\ a.do = "release" /\ a.at = "choose" /\ a.arg = b
  BY ActionFacts DEF ButtonActions
<1> HIDE DEF a
<1>3. todo' # <<>> /\ Head(todo') = a /\ Tail(todo') = todo /\ todo' \in Seq(Frame)
  BY <1>0, <1>1, <1>2, Push DEF a
<1>4. Head(todo).do = "end"
  BY <1>0, FrameFacts DEF Spot
<1>5. Within(Head(todo), Tail(todo))
  BY <1>0 DEF StackInv
<1>6. CASE Tail(todo) = <<>>
  <2>1. todo = <<Head(todo)>> /\ Own(Head(todo))
    BY <1>0, <1>5, <1>6, Whole DEF Within
  <2>2. call.do = "end"
    BY <1>4, <2>1 DEF Own
  <2>3. Over(a, Head(todo))
    BY <1>0, <1>2, <1>4, <2>2 DEF Over, Ending, Waits
  <2>4. Within(a, todo)
    BY <1>0, <2>1, <2>3 DEF Within
  <2>5. Within(Head(todo), Tail(todo))'
    BY <1>0, <1>3, <2>4 DEF Within, Own, Over, Ending, Waits
  <2> QED
    BY <1>2, <1>3, <1>4, <2>5 DEF StackInv
<1>7. CASE Tail(todo) # <<>>
  <2>1. call.do = "touch" /\ Tail(todo) = <<Touching>>
    BY <1>4, <1>5, <1>7 DEF Within, Over
  <2>a. Touching \in Frame
    BY DEF Touching, Frame, Frames, Spot, Places
  <2>2. todo = <<Head(todo), Touching>>
    BY <1>0, <2>1, <2>a, Whole
  <2>3. Ending(Head(todo))
    BY <1>0, <1>4 DEF Ending, Waits
  <2>4. Within(a, todo)
    BY <1>0, <1>2, <2>1, <2>2, <2>3 DEF Within
  <2>5. Within(Head(todo), Tail(todo))'
    BY <1>0, <1>3, <2>4 DEF Within, Own, Over, Ending, Waits
  <2> QED
    BY <1>2, <1>3, <1>4, <2>5 DEF StackInv
<1> QED
  BY <1>6, <1>7

(* A native command takes its action off the stack, or raises. *)
LEMMA CommandMoves ==
    ASSUME NEW now, NEW kind, Command(now, kind)
    PROVE  Return \/ Raise
BY DEF Command

(* Every step keeps the shape of the stack: what a call has on it follows from the
   call. *)
LEMMA StackStep ==
    ASSUME StackInv, other.buttons \subseteq Buttons, [Next]_vars
    PROVE  StackInv'
<1>0. CASE UNCHANGED <<todo, call>>
  BY <1>0 DEF StackInv, Within, Own, Over, Ending, Waits
<1>1. ASSUME NEW at, todo # <<>>, Spot(Head(todo).do, at), Goto(at), UNCHANGED call PROVE StackInv'
  BY <1>1, Goes
<1>2. ASSUME todo # <<>>, Return, UNCHANGED call PROVE StackInv'
  BY <1>2, Returns
<1>3. ASSUME todo # <<>>, Raise, UNCHANGED call PROVE StackInv'
  BY <1>3, Raises
<1>4. CASE Choose \/ ChooseKey \/ FallBack
  <2>1. PICK at \in {"native", "next"} : Goto(at)
    BY <1>4 DEF Choose, ChooseKey, FallBack
  <2>2. todo # <<>> /\ Spot(Head(todo).do, at) /\ UNCHANGED call
    BY <1>4, <2>1 DEF Choose, ChooseKey, FallBack, Now, Spot, PointerActions, ButtonActions, KeyActions, history
  <2> QED
    BY <1>1, <2>1, <2>2
<1>5. CASE NativeMotion \/ NativeClick \/ NativeButton \/ NativeEnd \/ NativeKey
  <2>1. todo # <<>> /\ UNCHANGED call /\ (Return \/ Raise \/ Goto("next"))
    BY <1>5, CommandMoves DEF NativeMotion, NativeClick, NativeButton, NativeEnd, NativeKey, Now, Replayed
  <2>2. Goto("next") => Return \/ Raise \/ Spot(Head(todo).do, "next")
    BY <1>5, CommandMoves DEF NativeMotion, NativeClick, NativeButton, NativeEnd, NativeKey, Now, Spot, KeyActions
  <2> QED
    BY <1>1, <1>2, <1>3, <2>1, <2>2
<1>6. CASE NativeScroll
  <2>1. todo # <<>> /\ UNCHANGED call /\ Head(todo).do = "scroll"
    BY <1>6 DEF NativeScroll, Now
  <2>2. Goto("next") \/ Return \/ Raise
    BY <1>6, CommandMoves DEF NativeScroll
  <2>3. Spot("scroll", "next")
    BY DEF Spot
  <2> QED
    BY <1>1, <1>2, <1>3, <2>1, <2>2, <2>3
<1>7. CASE NextEffect \/ NextHold
  <2>1. todo # <<>> /\ UNCHANGED call /\ (Return \/ Raise)
    BY <1>7 DEF NextEffect, NextHold, Now
  <2> QED
    BY <1>2, <1>3, <2>1
<1>8. CASE NextToggle
  <2> DEFINE a == Action(IF Arg \in other.buttons THEN "release" ELSE "drag", Arg)
  <2>1. todo # <<>> /\ UNCHANGED call /\ Head(todo).do = "toggle" /\ Calls(<<a>>)
    BY <1>8 DEF NextToggle, Now, history
  <2>2. Tail(todo) = <<>> /\ Own(Head(todo)) /\ Head(todo) \in Frame
    BY <2>1, Alone DEF StackInv
  <2>3. Arg \in Buttons /\ call.do = "toggle"
    BY <2>1, <2>2, FrameFacts DEF Own, Arg, ButtonActions
  <2>4. a \in Frame /\ Own(a)
    BY <2>3, ActionFacts DEF Own, ButtonActions
  <2> HIDE DEF a
  <2> QED
    BY <2>1, <2>2, <2>4, CallsOne
<1>9. CASE NextEnd
  <2>1. PICK at \in {"clear", "leave"} : Goto(at)
    BY <1>9 DEF NextEnd
  <2>2. todo # <<>> /\ Spot(Head(todo).do, at) /\ UNCHANGED call
    BY <1>9, <2>1 DEF NextEnd, Now, Spot, history
  <2> QED
    BY <1>1, <2>1, <2>2
<1>10. CASE LetGo
  BY <1>10, LetGoStack
<1>11. CASE Ended
  BY <1>2, <1>11 DEF Ended, history
<1>12. CASE Touch
  <2> DEFINE a == Action("end", Left)
             b == [Head(todo) EXCEPT !.at = "ended"]
  <2>1. todo # <<>> /\ UNCHANGED call /\ Head(todo).do = "touch" /\ Calls(<<a, b>>)
    BY <1>12 DEF Touch, Now, history
  <2>2. Tail(todo) = <<>> /\ Own(Head(todo)) /\ Head(todo) \in Frame
    BY <2>1, Alone DEF StackInv
  <2>3. Head(todo).arg = Left /\ call.do = "touch"
    BY <2>1, <2>2, FrameFacts DEF Own
  <2>4. a \in Frame /\ a.do = "end"
    BY ActionFacts
  <2>5. b \in Frame /\ b = Touching
    <3>1. Spot("touch", "ended")
      BY DEF Spot
    <3>2. b \in Frame /\ b.do = "touch" /\ b.arg = Left /\ b.at = "ended"
      BY <2>1, <2>2, <2>3, <3>1, FrameFacts
    <3> HIDE DEF b
    <3>3. b = [do |-> b.do, arg |-> b.arg, at |-> b.at]
      BY <3>2, FrameFacts
    <3> QED
      BY <3>2, <3>3 DEF Touching
  <2>6. Over(a, b)
    BY <2>3, <2>4, <2>5 DEF Over
  <2> HIDE DEF a, b
  <2> QED
    BY <2>1, <2>2, <2>4, <2>5, <2>6, CallsTwo
<1>13. CASE Touched
  <2> DEFINE a == Action("click", Left)
  <2>1. todo # <<>> /\ UNCHANGED call /\ Head(todo).do = "touch" /\ (Return \/ Calls(<<a>>))
    BY <1>13 DEF Touched, Now, history
  <2>2. Tail(todo) = <<>> /\ Own(Head(todo))
    BY <2>1, Alone
  <2>3. a \in Frame /\ Own(a)
    BY <2>1, <2>2, ActionFacts, RoutingAssumption DEF Own, ButtonActions
  <2> HIDE DEF a
  <2> QED
    BY <1>2, <2>1, <2>2, <2>3, CallsOne
<1>14. ASSUME todo # <<>>, Head(todo).do = "modified"
       PROVE  Tail(todo) = <<>> /\ call.do = "modified" /\ Arg \in Buttons
  <2>1. Tail(todo) = <<>> /\ Own(Head(todo)) /\ Head(todo) \in Frame
    BY <1>14, Alone DEF StackInv
  <2> QED
    BY <1>14, <2>1, FrameFacts DEF Own, Arg
<1>15. CASE ModifiedClick
  <2>1. todo # <<>> /\ UNCHANGED call /\ Head(todo).do = "modified"
    BY <1>15 DEF ModifiedClick, Now
  <2>2. Goto("next") \/ Return \/ Raise
    BY <1>15, CommandMoves DEF ModifiedClick
  <2>3. Spot("modified", "next")
    BY DEF Spot
  <2> QED
    BY <1>1, <1>2, <1>3, <2>1, <2>2, <2>3
<1>16. ASSUME todo # <<>>, Head(todo).do = "modified", UNCHANGED call,
              Calls(<<Action("keydown", Modifier), [Head(todo) EXCEPT !.at = "pressed"]>>)
       PROVE  StackInv'
  <2> DEFINE a == Action("keydown", Modifier)
             b == [Head(todo) EXCEPT !.at = "pressed"]
  <2>1. a \in Frame /\ a.do = "keydown" /\ a.arg = Modifier
    BY ActionFacts, RoutingAssumption DEF KeyActions
  <2>2. Spot("modified", "pressed")
    BY DEF Spot
  <2>3. b \in Frame /\ b.do = "modified" /\ b.at = "pressed"
    BY <1>16, <2>2, FrameFacts DEF StackInv
  <2>4. Over(a, b)
    BY <1>14, <1>16, <2>1, <2>3 DEF Over, Waits
  <2> HIDE DEF a, b
  <2> QED
    BY <1>14, <1>16, <2>1, <2>3, <2>4, CallsTwo DEF a, b
<1>17. CASE FallbackModified
  <2>1. todo # <<>> /\ UNCHANGED call /\ Head(todo).do = "modified"
    BY <1>17 DEF FallbackModified, Now, history
  <2>2. Spot("modified", "begin")
    BY DEF Spot
  <2> QED
    BY <1>1, <1>16, <1>17, <2>1, <2>2 DEF FallbackModified
<1>18. CASE BeginModifiers
  <2>1. todo # <<>> /\ UNCHANGED call /\ Head(todo).do = "modified"
    BY <1>18 DEF BeginModifiers, Now
  <2> DEFINE a == Action("click", Arg)
             b == Action("unpress", {Modifier} \ native.keys)
  <2>2. CASE Calls(<<a, b>>)
    <3>1. Tail(todo) = <<>> /\ call.do = "modified" /\ Arg \in Buttons
      BY <1>14, <2>1
    <3>2. a \in Frame /\ b \in Frame /\ a.do = "click" /\ b.do = "unpress" /\ b.at = "choose"
      BY <3>1, ActionFacts, RoutingAssumption DEF ButtonActions
    <3>3. Over(a, b)
      BY <3>1, <3>2 DEF Over, Waits
    <3> HIDE DEF a, b
    <3> QED
      BY <2>1, <2>2, <3>1, <3>2, <3>3, CallsTwo
  <2> QED
    BY <1>3, <1>16, <1>18, <2>1, <2>2 DEF BeginModifiers
<1>19. CASE EndModifiers
  <2>1. todo # <<>> /\ UNCHANGED call /\ (Return \/ Raise)
    BY <1>19 DEF EndModifiers, Now
  <2> QED
    BY <1>2, <1>3, <2>1
<1>20. CASE Pressed
  <2> DEFINE a == Action("click", Arg)
             b == Action("keyup", Modifier)
  <2>1. todo # <<>> /\ UNCHANGED call /\ Head(todo).do = "modified" /\ Calls(<<a, b>>)
    BY <1>20 DEF Pressed, Now, history
  <2>2. Tail(todo) = <<>> /\ call.do = "modified" /\ Arg \in Buttons
    BY <1>14, <2>1
  <2>3. a \in Frame /\ b \in Frame /\ a.do = "click" /\ b.do = "keyup" /\ b.at = "choose" /\ b.arg = Modifier
    BY <2>2, ActionFacts, RoutingAssumption DEF ButtonActions, KeyActions
  <2>4. Over(a, b)
    BY <2>2, <2>3 DEF Over, Waits
  <2> HIDE DEF a, b
  <2> QED
    BY <2>1, <2>2, <2>3, <2>4, CallsTwo
<1>21. ASSUME NEW action \in Frame, Started(action) PROVE StackInv'
  <2>1. todo' = <<action>> /\ call'.do = action.do /\ call'.arg = action.arg
    BY <1>21 DEF Started
  <2>2. Head(<<action>>) = action /\ Tail(<<action>>) = <<>> /\ <<action>> \in Seq(Frame)
    BY Short
  <2>3. Own(action)'
    BY <2>1 DEF Own
  <2> QED
    BY <2>1, <2>2, <2>3 DEF StackInv, Within
<1>22. Scripts \subseteq Frame /\ Action("touch", Left) \in Frame
  <2>1. Scripts \subseteq Frames
    BY RoutingAssumption DEF Scripts, Frames, Places
  <2>2. \A t \in Scripts : t.at = "choose"
    BY DEF Scripts
  <2>3. Scripts \subseteq Frame
    BY <2>1, <2>2 DEF Frame, Spot
  <2> QED
    BY <2>3, ActionFacts
<1>23. CASE Script \/ Pop
  BY <1>21, <1>22, <1>23 DEF Script, Pop
<1>24. CASE Hiss \/ SwitchControl \/ Reload \/ \E enabled \in BOOLEAN : SetHiss(enabled)
  BY <1>0, <1>24 DEF Hiss, SwitchControl, Reload, SetHiss, history
<1>25. CASE PointerComes \/ PointerGoes \/ KeyboardComes \/ KeyboardGoes \/ UNCHANGED vars
  BY <1>0, <1>25 DEF PointerComes, PointerGoes, KeyboardComes, KeyboardGoes, vars, history
<1> QED
  BY <1>4, <1>5, <1>6, <1>7, <1>8, <1>9, <1>10, <1>11, <1>12, <1>13, <1>15, <1>17, <1>18, <1>19, <1>20,
     <1>23, <1>24, <1>25 DEF Next, ScriptStep

-----------------------------------------------------------------------------
(* Types. *)

(* A device that is gone holds nothing. *)
NativeOK ==
    /\ native \in [pointer : BOOLEAN, keyboard : BOOLEAN, buttons : SUBSET Supported,
                   keys : SUBSET Keys]
    /\ ~native.pointer => native.buttons = {}
    /\ ~native.keyboard => native.keys = {}

RecordsOK ==
    /\ other \in [buttons : SUBSET Buttons, keys : SUBSET Keys]
    /\ memory \in [buttons : SUBSET Buttons, keys : SUBSET Keys, hiss : BOOLEAN]
    /\ saved \in [buttons : SUBSET Buttons, keys : SUBSET Keys, hiss : BOOLEAN]

RestOK == /\ remainder \in (1 - Step)..(Step - 1) /\ control \in {"off", "hiss", "left", "user"}
          /\ answer \in BOOLEAN

(* A command is done, or it raises, and may take the devices with it. *)
LEMMA CommandDoes ==
    ASSUME NEW now, NEW kind, Command(now, kind)
    PROVE  \/ native' = now /\ Acts("native", kind) /\ Return /\ UNCHANGED raised
           \/ native' \in {native, Gone} /\ Raise /\ (Acts("native", kind) \/ UNCHANGED acts)
BY DEF Command

(* A native backend that is lost, or left alone, is well formed. *)
LEMMA NativeGone == ASSUME NativeOK, native' \in {native, Gone} PROVE NativeOK'
<1>1. CASE native' = native
  BY <1>1 DEF NativeOK
<1>2. CASE native' = Gone
  <2>1. /\ Gone \in [pointer : BOOLEAN, keyboard : BOOLEAN, buttons : SUBSET Supported, keys : SUBSET Keys]
        /\ Gone.buttons = {} /\ Gone.keys = {}
    BY DEF Gone
  <2> QED
    BY <1>2, <2>1 DEF NativeOK
<1> QED
  BY <1>1, <1>2

(* A present pointer can hold any supported buttons. *)
LEMMA NativeButtons ==
    ASSUME NativeOK, NEW now \in SUBSET Supported, native.pointer, native' = Holding("buttons", now)
    PROVE  NativeOK' /\ native'.buttons = now /\ native'.keys = native.keys
BY DEF NativeOK, Holding

(* A present keyboard can hold any keys. *)
LEMMA NativeKeys ==
    ASSUME NativeOK, NEW now \in SUBSET Keys, native.keyboard \/ now = {}, native' = Holding("keys", now)
    PROVE  NativeOK' /\ native'.keys = now /\ native'.buttons = native.buttons
BY DEF NativeOK, Holding

(* Every step keeps the native backend well formed: no button or key outlives its
   device. *)
LEMMA NativeStep ==
    ASSUME StackInv, NativeOK, [Next]_vars
    PROVE  NativeOK'
<1>0. CASE UNCHANGED native
  BY <1>0, NativeGone
<1>1. ASSUME NEW kind, Command(native, kind) PROVE NativeOK'
  BY <1>1, CommandDoes, NativeGone
<1>2. CASE Choose \/ ChooseKey \/ FallBack \/ NextEffect \/ NextHold \/ NextToggle \/ NextEnd \/ LetGo \/ Ended
  BY <1>0, <1>2 DEF Choose, ChooseKey, FallBack, NextEffect, NextHold, NextToggle, NextEnd, LetGo, Ended, backends
<1>3. CASE Touch \/ Touched \/ FallbackModified \/ Pressed \/ Script \/ Pop \/ Hiss \/ SwitchControl \/ Reload
  BY <1>0, <1>3 DEF Touch, Touched, FallbackModified, Pressed, Script, Pop, Started, Hiss, SwitchControl, Reload,
                    backends
<1>4. CASE (\E enabled \in BOOLEAN : SetHiss(enabled)) \/ UNCHANGED vars
  BY <1>0, <1>4 DEF SetHiss, vars, backends
<1>5. CASE PointerComes \/ PointerGoes \/ KeyboardComes \/ KeyboardGoes
  BY <1>5 DEF PointerComes, PointerGoes, KeyboardComes, KeyboardGoes, NativeOK
<1>6. CASE NativeMotion \/ NativeClick \/ NativeScroll \/ ModifiedClick
  BY <1>0, <1>1, <1>6, NativeGone DEF NativeMotion, NativeClick, NativeScroll, ModifiedClick, Replayed
<1>7. CASE NativeButton
  <2>1. PICK do \in {"drag", "release", "toggle"} :
            /\ Now(do, "native") /\ ~Lacks(do)
            /\ \/ Command(Holding("buttons", native.buttons \cup {Arg}), "drag")
               \/ Command(Holding("buttons", native.buttons \ {Arg}), "release")
               \/ native' = Gone
    BY <1>7 DEF NativeButton, Replayed
  <2>2. native.pointer /\ Arg \in Supported
    BY <2>1 DEF Lacks, KeyActions, ButtonActions
  <2>3. native.buttons \cup {Arg} \in SUBSET Supported /\ native.buttons \ {Arg} \in SUBSET Supported
    BY <2>2 DEF NativeOK
  <2>4. \/ native' \in {native, Gone} \/ native' = Holding("buttons", native.buttons \cup {Arg})
        \/ native' = Holding("buttons", native.buttons \ {Arg})
    BY <2>1, CommandDoes
  <2> QED
    BY <2>2, <2>3, <2>4, NativeGone, NativeButtons
<1>8. CASE NativeEnd
  <2>1. native.pointer
    BY <1>8 DEF NativeEnd, Lacks, KeyActions
  <2>2. native' \in {native, Gone} \/ native' = Holding("buttons", {})
    BY <1>8, CommandDoes DEF NativeEnd
  <2> QED
    BY <2>1, <2>2, NativeGone, NativeButtons
<1>9. CASE NativeKey
  <2>1. PICK do \in KeyActions :
            /\ Now(do, "native") /\ ~Lacks(do)
            /\ Command(Holding("keys", CASE do = "keydown" -> native.keys \cup {Arg}
                                         [] do = "keyup" -> native.keys \ {Arg}
                                         [] do = "tap" -> native.keys), do)
    BY <1>9 DEF NativeKey
  <2> DEFINE now == CASE do = "keydown" -> native.keys \cup {Arg}
                      [] do = "keyup" -> native.keys \ {Arg}
                      [] do = "tap" -> native.keys
  <2>2. native.keyboard
    BY <2>1 DEF Lacks
  <2>3. Arg \in Keys
    <3>1. Head(todo) \in Frame /\ Head(todo).do \in KeyActions
      BY <2>1 DEF Now, StackInv
    <3> QED
      BY <3>1, FrameFacts DEF Arg
  <2>4. now \in SUBSET Keys
    BY <2>3 DEF NativeOK, KeyActions
  <2>5. native' \in {native, Gone} \/ native' = Holding("keys", now)
    BY <2>1, CommandDoes
  <2> QED
    BY <2>2, <2>4, <2>5, NativeGone, NativeKeys
<1>10. CASE BeginModifiers
  <2>1. UNCHANGED native \/ native' \in {native, Gone}
        \/ (native' = Holding("keys", native.keys \cup {Modifier}) /\ native.keyboard)
    BY <1>10 DEF BeginModifiers
  <2>2. native.keys \cup {Modifier} \in SUBSET Keys
    BY RoutingAssumption DEF NativeOK
  <2> QED
    BY <2>1, <2>2, NativeGone, NativeKeys
<1>11. CASE EndModifiers
  <2>1. native' \in {native, Gone} \/ native' = Holding("keys", native.keys \ Arg)
    BY <1>11 DEF EndModifiers
  <2>2. native.keys \ Arg \in SUBSET Keys /\ (native.keyboard \/ native.keys \ Arg = {})
    BY DEF NativeOK
  <2> QED
    BY <2>1, <2>2, NativeGone, NativeKeys
<1> QED
  BY <1>2, <1>3, <1>4, <1>5, <1>6, <1>7, <1>8, <1>9, <1>10, <1>11 DEF Next, ScriptStep

(* Every step keeps the types of what is held elsewhere and of its two records. *)
LEMMA RecordsStep ==
    ASSUME StackInv, RecordsOK, [Next]_vars
    PROVE  RecordsOK'
<1>0. CASE UNCHANGED <<other, memory, saved>>
  BY <1>0 DEF RecordsOK
<1>1. CASE Choose \/ ChooseKey \/ FallBack \/ NextEffect \/ NextToggle \/ NextEnd \/ LetGo
  BY <1>0, <1>1 DEF Choose, ChooseKey, FallBack, NextEffect, NextToggle, NextEnd, LetGo, backends, ours
<1>2. CASE NativeMotion \/ NativeClick \/ NativeButton \/ NativeEnd \/ NativeKey \/ NativeScroll
  BY <1>0, <1>2 DEF NativeMotion, NativeClick, NativeButton, NativeEnd, NativeKey, NativeScroll, ours
<1>3. CASE Touch \/ Touched \/ FallbackModified \/ Pressed \/ Script \/ Pop \/ ModifiedClick \/ BeginModifiers
           \/ EndModifiers
  BY <1>0, <1>3 DEF Touch, Touched, FallbackModified, Pressed, Script, Pop, Started, ModifiedClick, BeginModifiers,
                    EndModifiers, backends, ours
<1>4. CASE Hiss \/ SwitchControl \/ PointerComes \/ PointerGoes \/ KeyboardComes \/ KeyboardGoes \/ UNCHANGED vars
  BY <1>0, <1>4 DEF Hiss, SwitchControl, PointerComes, PointerGoes, KeyboardComes, KeyboardGoes, vars, backends, ours
<1>5. CASE Reload \/ \E enabled \in BOOLEAN : SetHiss(enabled)
  BY <1>5 DEF Reload, SetHiss, RecordsOK, backends
<1>6. CASE Ended
  BY <1>0, <1>6 DEF Ended, Recorded, RecordsOK, backends
<1>7. CASE NextHold
  <2>1. PICK do \in {"drag", "release", "keydown", "keyup"} :
            LET field == IF do \in KeyActions THEN "keys" ELSE "buttons"
            IN  /\ Now(do, "next")
                /\ \/ /\ other' = [other EXCEPT ![field] = Changed(do, @)]
                      /\ Recorded(field, Changed(do, memory[field]))
                   \/ UNCHANGED <<other, memory, saved>>
    BY <1>7 DEF NextHold
  <2>2. Head(todo) \in Frame /\ Head(todo).do = do
    BY <2>1 DEF Now, StackInv
  <2>3. CASE do \in KeyActions /\ ~UNCHANGED <<other, memory, saved>>
    <3>1. Arg \in Keys
      BY <2>2, <2>3, FrameFacts DEF Arg
    <3>2. Changed(do, other.keys) \in SUBSET Keys /\ Changed(do, memory.keys) \in SUBSET Keys
      BY <3>1 DEF Changed, RecordsOK
    <3>3. /\ other' = [other EXCEPT !.keys = Changed(do, other.keys)]
          /\ memory' = [memory EXCEPT !.keys = Changed(do, memory.keys)]
          /\ saved' = [saved EXCEPT !.keys = Changed(do, memory.keys)]
      BY <2>1, <2>3 DEF Recorded, RecordsOK
    <3> QED
      BY <3>2, <3>3 DEF RecordsOK
  <2>4. CASE do \notin KeyActions /\ ~UNCHANGED <<other, memory, saved>>
    <3>1. Arg \in Buttons
      <4>1. do \in ButtonActions
        BY <2>4 DEF KeyActions, ButtonActions
      <4> QED
        BY <2>2, <4>1, FrameFacts DEF Arg
    <3>2. Changed(do, other.buttons) \in SUBSET Buttons /\ Changed(do, memory.buttons) \in SUBSET Buttons
      BY <3>1 DEF Changed, RecordsOK
    <3>3. /\ other' = [other EXCEPT !.buttons = Changed(do, other.buttons)]
          /\ memory' = [memory EXCEPT !.buttons = Changed(do, memory.buttons)]
          /\ saved' = [saved EXCEPT !.buttons = Changed(do, memory.buttons)]
      BY <2>1, <2>4 DEF Recorded, RecordsOK
    <3> QED
      BY <3>2, <3>3 DEF RecordsOK
  <2> QED
    BY <1>0, <2>3, <2>4
<1> QED
  BY <1>1, <1>2, <1>3, <1>4, <1>5, <1>6, <1>7 DEF Next, ScriptStep

(* What is left of a wheel step is less than one. *)
LEMMA LessThanAStep ==
    ASSUME NEW total \in Int
    PROVE  Truncated(total) \in Int /\ total - Step * Truncated(total) \in (1 - Step)..(Step - 1)
<1>1. Step \in Nat /\ Step > 0
  BY RoutingAssumption
<1>2. CASE total >= 0
  <2>1. PICK q \in Int : q = total \div Step
    BY <1>1
  <2>2. Step * q <= total /\ total < Step * (q + 1)
    BY <1>1, <2>1
  <2>3. Truncated(total) = q
    BY <1>2, <2>1 DEF Truncated
  <2> QED
    BY <1>1, <1>2, <2>2, <2>3
<1>3. CASE total < 0
  <2>1. PICK q \in Int : q = (-total) \div Step
    BY <1>1
  <2>2. Step * q <= -total /\ -total < Step * (q + 1)
    BY <1>1, <2>1
  <2>3. Truncated(total) = -q
    BY <1>3, <2>1 DEF Truncated
  <2> QED
    BY <1>1, <1>3, <2>2, <2>3
<1> QED
  BY <1>2, <1>3

-----------------------------------------------------------------------------
RemainderOK == remainder \in (1 - Step)..(Step - 1) /\ remainder = drift

(* Every action but a scroll and a reload leaves the remainder alone. *)
LEMMA RemainderStep ==
    ASSUME StackInv, RemainderOK, [Next]_vars
    PROVE  RemainderOK'
<1>0. CASE UNCHANGED <<remainder, drift>>
  BY <1>0 DEF RemainderOK
<1>1. CASE Choose \/ ChooseKey \/ FallBack \/ NextEffect \/ NextHold \/ NextToggle \/ NextEnd \/ LetGo \/ Ended
  BY <1>0, <1>1 DEF Choose, ChooseKey, FallBack, NextEffect, NextHold, NextToggle, NextEnd, LetGo, Ended, ours, history
<1>2. CASE NativeMotion \/ NativeClick \/ NativeButton \/ NativeEnd \/ NativeKey
  BY <1>0, <1>2 DEF NativeMotion, NativeClick, NativeButton, NativeEnd, NativeKey, ours
<1>3. CASE Touch \/ Touched \/ FallbackModified \/ Pressed \/ Script \/ Pop \/ ModifiedClick \/ BeginModifiers
           \/ EndModifiers
  BY <1>0, <1>3 DEF Touch, Touched, FallbackModified, Pressed, Script, Pop, Started, ModifiedClick, BeginModifiers,
                    EndModifiers, ours, history
<1>4. CASE Hiss \/ SwitchControl \/ PointerComes \/ PointerGoes \/ KeyboardComes \/ KeyboardGoes \/ UNCHANGED vars
           \/ \E enabled \in BOOLEAN : SetHiss(enabled)
  BY <1>0, <1>4 DEF Hiss, SwitchControl, SetHiss, PointerComes, PointerGoes, KeyboardComes, KeyboardGoes, vars, ours,
                    history
<1>5. CASE Reload
  BY <1>5, RoutingAssumption DEF Reload, RemainderOK
<1>6. CASE NativeScroll
  <2> DEFINE total == Arg + remainder
             steps == Truncated(total)
  <2>1. \/ UNCHANGED <<remainder, drift>>
        \/ remainder' = total - Step * steps /\ drift' = drift + Arg - Step * steps
    BY <1>6 DEF NativeScroll
  <2>2. Arg \in Int
    <3>1. Head(todo) \in Frame /\ Head(todo).do = "scroll"
      BY <1>6 DEF NativeScroll, Now, StackInv
    <3> QED
      BY <3>1, FrameFacts, RoutingAssumption DEF Arg
  <2>3. remainder \in Int /\ drift = remainder /\ Step \in Nat
    BY RoutingAssumption DEF RemainderOK
  <2>4. total \in Int
    BY <2>2, <2>3
  <2>5. steps \in Int /\ total - Step * steps \in (1 - Step)..(Step - 1)
    BY <2>4, LessThanAStep
  <2>6. CASE remainder' = total - Step * steps /\ drift' = drift + Arg - Step * steps
    <3>1. PICK s \in Int : s = steps
      BY <2>5
    <3>2. PICK p \in Int : p = Step * s
      BY <2>3, <3>1
    <3> HIDE DEF steps
    <3>3. remainder' = Arg + remainder - p /\ drift' = remainder + Arg - p
      BY <2>2, <2>3, <2>6, <3>1, <3>2
    <3>4. remainder' = drift'
      BY <2>2, <2>3, <3>2, <3>3
    <3> QED
      BY <2>5, <2>6, <3>4 DEF RemainderOK
  <2> QED
    BY <1>0, <2>1, <2>6
<1> QED
  BY <1>1, <1>2, <1>3, <1>4, <1>5, <1>6 DEF Next, ScriptStep

SwitchOK == control \in {"off", "hiss", "left", "user"} /\ answer \in BOOLEAN

(* Every step keeps the types of Control Mouse and of the answer to
   mouse_drag_end(). *)
LEMMA SwitchStep ==
    ASSUME SwitchOK, [Next]_vars
    PROVE  SwitchOK'
<1>0. CASE UNCHANGED <<control, answer>>
  BY <1>0 DEF SwitchOK
<1>1. CASE Choose \/ ChooseKey \/ FallBack \/ NextEffect \/ NextHold \/ NextToggle \/ LetGo \/ Ended
  BY <1>0, <1>1 DEF Choose, ChooseKey, FallBack, NextEffect, NextHold, NextToggle, LetGo, Ended, ours
<1>2. CASE NativeMotion \/ NativeClick \/ NativeButton \/ NativeKey \/ NativeScroll
  BY <1>0, <1>2 DEF NativeMotion, NativeClick, NativeButton, NativeKey, NativeScroll, ours
<1>3. CASE Touch \/ Touched \/ FallbackModified \/ Pressed \/ Script \/ Pop \/ ModifiedClick \/ BeginModifiers
           \/ EndModifiers
  BY <1>0, <1>3 DEF Touch, Touched, FallbackModified, Pressed, Script, Pop, Started, ModifiedClick, BeginModifiers,
                    EndModifiers, ours
<1>4. CASE PointerComes \/ PointerGoes \/ KeyboardComes \/ KeyboardGoes \/ UNCHANGED vars \/ Reload
  BY <1>0, <1>4 DEF PointerComes, PointerGoes, KeyboardComes, KeyboardGoes, vars, ours, Reload
<1>5. CASE Hiss \/ SwitchControl \/ \E enabled \in BOOLEAN : SetHiss(enabled)
  BY <1>5 DEF Hiss, SwitchControl, SetHiss, LeftOn, SwitchOK
<1>6. CASE NativeEnd \/ NextEnd
  <2>1. control' = control /\ answer' \in BOOLEAN
    BY <1>6 DEF NativeEnd, NextEnd, ours
  <2> QED
    BY <2>1 DEF SwitchOK
<1> QED
  BY <1>1, <1>2, <1>3, <1>4, <1>5, <1>6 DEF Next, ScriptStep

-----------------------------------------------------------------------------
(* Steps that no action of a script takes. *)

(* Devices come and go, and between two scripts anything but a script. *)
Around == /\ UNCHANGED <<other, todo, answer, call, acts, raised>>
          /\ native'.buttons \subseteq native.buttons /\ native'.keys \subseteq native.keys

(* The coming and going of devices, hisses, switches and reloads let buttons and
   keys go at most. *)
LEMMA AroundStep ==
    ASSUME NativeOK,
           \/ PointerComes \/ PointerGoes \/ KeyboardComes \/ KeyboardGoes \/ UNCHANGED vars
           \/ Hiss \/ SwitchControl \/ Reload \/ \E enabled \in BOOLEAN : SetHiss(enabled)
    PROVE  Around
<1>1. CASE PointerComes \/ PointerGoes \/ KeyboardComes \/ KeyboardGoes
  BY <1>1 DEF PointerComes, PointerGoes, KeyboardComes, KeyboardGoes, Around, NativeOK, history
<1>2. CASE UNCHANGED vars \/ Hiss \/ SwitchControl \/ Reload \/ \E enabled \in BOOLEAN : SetHiss(enabled)
  BY <1>2 DEF vars, Hiss, SwitchControl, Reload, SetHiss, Around, backends, history
<1> QED
  BY <1>1, <1>2

(* A script is called when there is none. *)
Called(action) ==
    /\ action \in Frame /\ action.at = "choose" /\ todo' = <<action>> /\ todo' # <<>> /\ Head(todo') = action
    /\ call'.do = action.do /\ call'.arg = action.arg
    /\ call'.buttons = native'.buttons /\ call'.keys = native'.keys
    /\ call'.otherButtons = other'.buttons /\ call'.otherKeys = other'.keys
    /\ acts' = <<>> /\ raised' = {}

(* A script, or a pop, starts with one action, from what is down at that moment. *)
LEMMA CalledStep ==
    ASSUME Script \/ Pop
    PROVE  \E action : Called(action) /\ action.do # "unpress"
<1>1. PICK action \in Scripts \cup {Action("touch", Left)} : Started(action)
  BY DEF Script, Pop
<1>2. Scripts \subseteq Frame /\ Action("touch", Left) \in Frame
  <2>1. Scripts \subseteq Frames
    BY RoutingAssumption DEF Scripts, Frames, Places
  <2>2. \A t \in Scripts : t.at = "choose"
    BY DEF Scripts
  <2>3. Scripts \subseteq Frame
    BY <2>1, <2>2 DEF Frame, Spot
  <2> QED
    BY <2>3, ActionFacts
<1>3. action.at = "choose" /\ action.do # "unpress"
  <2>1. \A t \in Scripts : t.at = "choose" /\ t.do # "unpress"
    BY DEF Scripts, ButtonActions, KeyActions
  <2> QED
    BY <2>1, ActionFacts
<1>4. todo' = <<action>> /\ UNCHANGED <<native, other>> /\ acts' = <<>> /\ raised' = {}
      /\ call' = [do |-> action.do, arg |-> action.arg,
                  buttons |-> native.buttons, keys |-> native.keys,
                  otherButtons |-> other.buttons, otherKeys |-> other.keys]
  BY <1>1 DEF Started, backends
<1>5. <<action>> # <<>> /\ Head(<<action>>) = action
  BY Short
<1>6. /\ call'.do = action.do /\ call'.arg = action.arg
      /\ call'.buttons = native.buttons /\ call'.keys = native.keys
      /\ call'.otherButtons = other.buttons /\ call'.otherKeys = other.keys
  BY <1>4
<1>7. Called(action)
  BY <1>2, <1>3, <1>4, <1>5, <1>6 DEF Called
<1> QED
  BY <1>3, <1>7

-----------------------------------------------------------------------------
(* Which actions a script can take next. *)

At(actions, places) == todo # <<>> /\ Head(todo).do \in actions /\ Head(todo).at \in places

(* The action on top of the stack, and how far it is, tell what can happen. *)
LEMMA Table ==
    /\ Choose => At(PointerActions \cup {"modified"}, {"choose"})
    /\ ChooseKey => At(KeyActions, {"choose"})
    /\ FallBack => At(PointerActions \cup KeyActions, {"native"})
    /\ NativeMotion => At({"move", "glide"}, {"native"})
    /\ NativeClick => At({"click"}, {"native"})
    /\ NativeButton => At({"drag", "release", "toggle"}, {"native"})
    /\ NativeEnd => At({"end"}, {"native"})
    /\ NativeKey => At(KeyActions, {"native"})
    /\ NativeScroll => At({"scroll"}, {"native"})
    /\ NextEffect => At({"click", "move", "scroll", "glide", "tap"}, {"next"})
    /\ NextHold => At({"drag", "release", "keydown", "keyup"}, {"next"})
    /\ NextToggle => At({"toggle"}, {"next"})
    /\ NextEnd => At({"end"}, {"next"})
    /\ LetGo \/ Ended => todo # <<>> /\ Head(todo).at \in {"clear", "leave"}
    /\ Touch => At({"touch"}, {"choose"})
    /\ Touched => At({"touch"}, {"ended"})
    /\ ModifiedClick => At({"modified"}, {"native"})
    /\ FallbackModified => At({"modified"}, {"next"})
    /\ BeginModifiers => At({"modified"}, {"begin"})
    /\ Pressed => At({"modified"}, {"pressed"})
    /\ EndModifiers => At({"unpress"}, {"choose"})
    /\ Script \/ Pop \/ Hiss \/ SwitchControl \/ Reload \/ (\E enabled \in BOOLEAN : SetHiss(enabled)) => todo = <<>>
<1>1. /\ Choose => At(PointerActions \cup {"modified"}, {"choose"})
      /\ ChooseKey => At(KeyActions, {"choose"})
      /\ FallBack => At(PointerActions \cup KeyActions, {"native"})
  BY DEF Choose, ChooseKey, FallBack, At, Now
<1>2. /\ NativeMotion => At({"move", "glide"}, {"native"})
      /\ NativeClick => At({"click"}, {"native"})
      /\ NativeButton => At({"drag", "release", "toggle"}, {"native"})
  BY DEF NativeMotion, NativeClick, NativeButton, At, Now
<1>3. /\ NativeEnd => At({"end"}, {"native"})
      /\ NativeKey => At(KeyActions, {"native"})
      /\ NativeScroll => At({"scroll"}, {"native"})
  BY DEF NativeEnd, NativeKey, NativeScroll, At, Now
<1>4. /\ NextEffect => At({"click", "move", "scroll", "glide", "tap"}, {"next"})
      /\ NextHold => At({"drag", "release", "keydown", "keyup"}, {"next"})
      /\ NextToggle => At({"toggle"}, {"next"})
      /\ NextEnd => At({"end"}, {"next"})
  BY DEF NextEffect, NextHold, NextToggle, NextEnd, At, Now
<1>5. /\ LetGo \/ Ended => todo # <<>> /\ Head(todo).at \in {"clear", "leave"}
      /\ Touch => At({"touch"}, {"choose"})
      /\ Touched => At({"touch"}, {"ended"})
  BY DEF LetGo, Ended, Touch, Touched, At, Now
<1>6. /\ ModifiedClick => At({"modified"}, {"native"})
      /\ FallbackModified => At({"modified"}, {"next"})
      /\ BeginModifiers => At({"modified"}, {"begin"})
      /\ Pressed => At({"modified"}, {"pressed"})
      /\ EndModifiers => At({"unpress"}, {"choose"})
  BY DEF ModifiedClick, FallbackModified, BeginModifiers, Pressed, EndModifiers, At, Now
<1>7. Script \/ Pop \/ Hiss \/ SwitchControl \/ Reload \/ (\E enabled \in BOOLEAN : SetHiss(enabled)) => todo = <<>>
  BY DEF Script, Pop, Started, Hiss, SwitchControl, Reload, SetHiss
<1> QED
  BY <1>1, <1>2, <1>3, <1>4, <1>5, <1>6, <1>7, Zenon

(* The steps of a script take place while there is one, and belong to its call. *)
LEMMA ScriptCall == ScriptStep => todo # <<>> /\ UNCHANGED call
<1>1. ScriptStep => todo # <<>>
  BY Table DEF ScriptStep, At
<1>2. Choose \/ ChooseKey \/ FallBack \/ NextToggle \/ NextEnd \/ LetGo \/ Ended => UNCHANGED call
  BY DEF Choose, ChooseKey, FallBack, NextToggle, NextEnd, LetGo, Ended, history
<1>3. NativeMotion \/ NativeClick \/ NativeButton \/ NativeEnd \/ NativeKey \/ NativeScroll => UNCHANGED call
  BY DEF NativeMotion, NativeClick, NativeButton, NativeEnd, NativeKey, NativeScroll
<1>4. NextEffect \/ NextHold \/ Touch \/ Touched \/ ModifiedClick \/ FallbackModified => UNCHANGED call
  BY DEF NextEffect, NextHold, Touch, Touched, ModifiedClick, FallbackModified, history
<1>5. BeginModifiers \/ EndModifiers \/ Pressed => UNCHANGED call
  BY DEF BeginModifiers, EndModifiers, Pressed, history
<1> QED
  BY <1>1, <1>2, <1>3, <1>4, <1>5 DEF ScriptStep

(* Between scripts, and while one runs. *)
LEMMA Moves ==
    ASSUME StackInv, NativeOK, RecordsOK, [Next]_vars
    PROVE  /\ StackInv'
           /\ \/ Around
              \/ todo = <<>> /\ (Script \/ Pop)
              \/ todo # <<>> /\ ScriptStep /\ UNCHANGED call
<1>0. StackInv'
  BY StackStep DEF RecordsOK
<1>1. CASE PointerComes \/ PointerGoes \/ KeyboardComes \/ KeyboardGoes \/ UNCHANGED vars
           \/ Hiss \/ SwitchControl \/ Reload \/ \E enabled \in BOOLEAN : SetHiss(enabled)
  BY <1>0, <1>1, AroundStep
<1>2. CASE Script \/ Pop
  BY <1>0, <1>2, Table
<1>3. CASE ScriptStep
  BY <1>0, <1>3, ScriptCall
<1> QED
  BY <1>1, <1>2, <1>3 DEF Next

-----------------------------------------------------------------------------
(* Releasing a button. *)

ReleaseInv ==
    call.do = "release" /\ ~Mixed =>
        /\ todo = <<>> /\ raised = {} => call.arg \notin native.buttons \cup other.buttons
        /\ todo # <<>> =>
              /\ native.buttons \subseteq call.buttons /\ other.buttons = call.otherButtons
              /\ Head(todo).at = "native" => other.buttons = {}
              /\ Head(todo).at = "next" => call.arg \notin native.buttons

(* A release that a script calls is the only action on the stack. *)
LEMMA ReleaseAlone ==
    ASSUME StackInv, todo # <<>>, call.do = "release"
    PROVE  Tail(todo) = <<>> /\ Head(todo).do = "release" /\ Head(todo).arg = call.arg
<1>1. Within(Head(todo), Tail(todo))
  BY DEF StackInv
<1> QED
  BY <1>1 DEF Within, Own, Over

(* An action that needs the pointer goes to the backend that holds a button. *)
LEMMA Chosen ==
    ASSUME Owned, NativeOK, ~Mixed, Choose,
           native.buttons \subseteq call.buttons, other.buttons = call.otherButtons
    PROVE  \/ Goto("native") /\ other.buttons = {}
           \/ Goto("next") /\ native.buttons = {}
<1>1. memory.buttons = other.buttons
  BY DEF Owned, OwnershipSurvives
<1>2. Goto(IF Selected THEN "native" ELSE "next")
  BY DEF Choose
<1>3. CASE Selected
  BY <1>1, <1>2, <1>3 DEF Selected
<1>4. CASE ~Selected
  BY <1>1, <1>2, <1>4 DEF Selected, NativeOK, Mixed
<1> QED
  BY <1>3, <1>4

(* The steps of mouse_release() keep ReleaseInv: whoever holds the button is where
   it is sent. *)
LEMMA ReleaseScript ==
    ASSUME StackInv, Owned, NativeOK, ReleaseInv, ScriptStep, call.do = "release", ~Mixed
    PROVE  ReleaseInv'
<1>0. todo # <<>> /\ UNCHANGED call
  BY ScriptCall
<1>1. Tail(todo) = <<>> /\ Head(todo).do = "release" /\ Head(todo).arg = call.arg
  BY <1>0, ReleaseAlone
<1>2. /\ native.buttons \subseteq call.buttons /\ other.buttons = call.otherButtons
      /\ Head(todo).at = "native" => other.buttons = {}
      /\ Head(todo).at = "next" => call.arg \notin native.buttons
  BY <1>0 DEF ReleaseInv
<1>3. ASSUME NEW at, Goto(at), Spot("release", at), UNCHANGED backends,
             at = "native" => other.buttons = {}, at = "next" => call.arg \notin native.buttons
      PROVE  ReleaseInv'
  <2>1. todo' # <<>> /\ Head(todo').at = at
    BY <1>0, <1>1, <1>3, Goes
  <2> QED
    BY <1>0, <1>2, <1>3, <2>1 DEF ReleaseInv, backends
<1>4. ASSUME Raise PROVE ReleaseInv'
  <2>1. todo' = <<>> /\ raised' # {}
    BY <1>0, <1>1, <1>4, UnwoundNone DEF Raise
  <2> QED
    BY <2>1 DEF ReleaseInv
<1>5. ASSUME Return, call.arg \notin native'.buttons \cup other'.buttons PROVE ReleaseInv'
  <2>1. todo' = <<>>
    BY <1>1, <1>5 DEF Return
  <2> QED
    BY <1>0, <1>5, <2>1 DEF ReleaseInv
<1>6. CASE Choose
  <2>1. UNCHANGED backends
    BY <1>6 DEF Choose
  <2>2. \/ Goto("native") /\ other.buttons = {}
        \/ Goto("next") /\ native.buttons = {}
    BY <1>2, <1>6, Chosen
  <2>3. Spot("release", "native") /\ Spot("release", "next")
    BY DEF Spot
  <2>4. call.arg \notin {}
    OBVIOUS
  <2>5. CASE Goto("native") /\ other.buttons = {}
    BY <1>3, <2>1, <2>3, <2>5
  <2>6. CASE Goto("next") /\ native.buttons = {}
    BY <1>3, <2>1, <2>3, <2>6
  <2> QED
    BY <2>2, <2>5, <2>6
<1>7. CASE FallBack
  <2>1. UNCHANGED backends /\ Goto("next") /\ Lacks("release")
    BY <1>1, <1>7 DEF FallBack, Now
  <2>2. call.arg \notin native.buttons
    BY <1>1, <2>1 DEF Lacks, Arg, KeyActions, NativeOK
  <2>3. Spot("release", "next")
    BY DEF Spot
  <2> QED
    BY <1>3, <2>1, <2>2, <2>3
<1>8. CASE NativeButton
  <2>1. /\ UNCHANGED other /\ Head(todo).at = "native"
        /\ \/ Command(Holding("buttons", native.buttons \ {Arg}), "release")
           \/ native' = Gone /\ Goto("next")
    BY <1>1, <1>8 DEF NativeButton, Now, Replayed
  <2>2. \/ native' = Holding("buttons", native.buttons \ {Arg}) /\ Return
        \/ Raise
        \/ native' = Gone /\ Goto("next")
    BY <2>1, CommandDoes
  <2>3. CASE native' = Holding("buttons", native.buttons \ {Arg}) /\ Return
    <3>1. native'.buttons = native.buttons \ {call.arg}
      BY <1>1, <2>3 DEF Holding, NativeOK, Arg
    <3> QED
      BY <1>2, <1>5, <2>1, <2>3, <3>1
  <2>4. CASE native' = Gone /\ Goto("next")
    <3>1. todo' # <<>> /\ Head(todo').at = "next"
      <4>1. Spot("release", "next")
        BY DEF Spot
      <4> QED
        BY <1>0, <1>1, <2>4, <4>1, Goes
    <3>2. native'.buttons = {}
      BY <2>4 DEF Gone
    <3> QED
      BY <1>0, <1>2, <2>1, <3>1, <3>2 DEF ReleaseInv
  <2> QED
    BY <1>4, <2>2, <2>3, <2>4
<1>9. CASE NextHold
  <2>1. /\ Head(todo).at = "next" /\ UNCHANGED native
        /\ \/ other' = [other EXCEPT !["buttons"] = Changed("release", @)] /\ Return
           \/ Raise
    BY <1>1, <1>9 DEF NextHold, Now, KeyActions
  <2>2. CASE other' = [other EXCEPT !["buttons"] = Changed("release", @)] /\ Return
    <3>1. other'.buttons = other.buttons \ {call.arg}
      BY <1>1, <2>2 DEF Changed, Arg, Owned, Shapes
    <3> QED
      BY <1>2, <1>5, <2>1, <2>2, <3>1
  <2> QED
    BY <1>4, <2>1, <2>2
<1>10. Head(todo).at \notin {"clear", "leave"}
  BY <1>0, <1>1, FrameFacts DEF StackInv, Spot
<1>11. Choose \/ FallBack \/ NativeButton \/ NextHold
  BY <1>1, <1>10, Table DEF ScriptStep, At, KeyActions
<1> QED
  BY <1>6, <1>7, <1>8, <1>9, <1>11

(* Every step keeps ReleaseInv. *)
LEMMA ReleaseStep ==
    ASSUME StackInv, Owned, NativeOK, RecordsOK, ReleaseInv, [Next]_vars
    PROVE  ReleaseInv'
<1>1. CASE Around
  BY <1>1 DEF Around, ReleaseInv, Mixed
<1>2. CASE Script \/ Pop
  BY <1>2, CalledStep DEF Called, ReleaseInv
<1>3. CASE ScriptStep
  <2>1. UNCHANGED call
    BY <1>3, ScriptCall
  <2>2. CASE call.do = "release" /\ ~Mixed
    BY <1>3, <2>2, ReleaseScript
  <2>3. CASE ~(call.do = "release" /\ ~Mixed)
    BY <2>1, <2>3 DEF ReleaseInv, Mixed
  <2> QED
    BY <2>2, <2>3
<1> QED
  BY <1>1, <1>2, <1>3, Moves

-----------------------------------------------------------------------------
(* Releasing a key. *)

KeyupInv ==
    call.do = "keyup" /\ ~Mixed =>
        /\ todo = <<>> /\ raised = {} => call.arg \notin native.keys \cup other.keys
        /\ todo # <<>> =>
              /\ native.keys \subseteq call.keys /\ other.keys = call.otherKeys
              /\ Head(todo).at = "native" => other.keys = {}
              /\ Head(todo).at = "next" => call.arg \notin native.keys

(* A release of a key that a script calls is the only action on the stack. *)
LEMMA KeyupAlone ==
    ASSUME StackInv, todo # <<>>, call.do = "keyup"
    PROVE  Tail(todo) = <<>> /\ Head(todo).do = "keyup" /\ Head(todo).arg = call.arg
<1>1. Within(Head(todo), Tail(todo))
  BY DEF StackInv
<1> QED
  BY <1>1 DEF Within, Own, Over

(* An action that needs the keyboard goes to the backend that holds a key. *)
LEMMA KeyChosen ==
    ASSUME Owned, NativeOK, ChooseKey
    PROVE  \/ Goto("native") /\ other.keys = {}
           \/ Goto("next") /\ (native.keys = {} \/ other.keys # {})
<1>1. memory.keys = other.keys
  BY DEF Owned, OwnershipSurvives
<1>2. Goto(IF KeySelected THEN "native" ELSE "next")
  BY DEF ChooseKey
<1>3. CASE KeySelected
  BY <1>1, <1>2, <1>3 DEF KeySelected
<1>4. CASE ~KeySelected
  BY <1>1, <1>2, <1>4 DEF KeySelected, NativeOK
<1> QED
  BY <1>3, <1>4

(* The steps of key("...:up") keep KeyupInv: whoever holds the key is where it is
   sent. *)
LEMMA KeyupScript ==
    ASSUME StackInv, Owned, NativeOK, KeyupInv, ScriptStep, call.do = "keyup", ~Mixed
    PROVE  KeyupInv'
<1>0. todo # <<>> /\ UNCHANGED call
  BY ScriptCall
<1>1. Tail(todo) = <<>> /\ Head(todo).do = "keyup" /\ Head(todo).arg = call.arg
  BY <1>0, KeyupAlone
<1>2. /\ native.keys \subseteq call.keys /\ other.keys = call.otherKeys
      /\ Head(todo).at = "native" => other.keys = {}
      /\ Head(todo).at = "next" => call.arg \notin native.keys
  BY <1>0 DEF KeyupInv
<1>3. ASSUME NEW at, Goto(at), Spot("keyup", at), UNCHANGED backends,
             at = "native" => other.keys = {}, at = "next" => call.arg \notin native.keys
      PROVE  KeyupInv'
  <2>1. todo' # <<>> /\ Head(todo').at = at
    BY <1>0, <1>1, <1>3, Goes
  <2> QED
    BY <1>0, <1>2, <1>3, <2>1 DEF KeyupInv, backends
<1>4. ASSUME Raise PROVE KeyupInv'
  <2>1. todo' = <<>> /\ raised' # {}
    BY <1>0, <1>1, <1>4, UnwoundNone DEF Raise
  <2> QED
    BY <2>1 DEF KeyupInv
<1>5. ASSUME Return, call.arg \notin native'.keys \cup other'.keys PROVE KeyupInv'
  <2>1. todo' = <<>>
    BY <1>1, <1>5 DEF Return
  <2> QED
    BY <1>0, <1>5, <2>1 DEF KeyupInv
<1>6. CASE ChooseKey
  <2>1. UNCHANGED backends
    BY <1>6 DEF ChooseKey
  <2>2. \/ Goto("native") /\ other.keys = {}
        \/ Goto("next") /\ (native.keys = {} \/ other.keys # {})
    BY <1>6, KeyChosen
  <2>3. Spot("keyup", "native") /\ Spot("keyup", "next")
    BY DEF Spot
  <2>5. CASE Goto("native") /\ other.keys = {}
    BY <1>3, <2>1, <2>3, <2>5
  <2>6. CASE Goto("next") /\ (native.keys = {} \/ other.keys # {})
    <3>1. native.keys = {}
      BY <1>2, <2>6 DEF Mixed
    <3> QED
      BY <1>3, <2>1, <2>3, <2>6, <3>1
  <2> QED
    BY <2>2, <2>5, <2>6
<1>7. CASE FallBack
  <2>1. UNCHANGED backends /\ Goto("next") /\ Lacks("keyup")
    BY <1>1, <1>7 DEF FallBack, Now
  <2>2. call.arg \notin native.keys
    BY <1>1, <2>1 DEF Lacks, KeyActions, NativeOK
  <2>3. Spot("keyup", "next")
    BY DEF Spot
  <2> QED
    BY <1>3, <2>1, <2>2, <2>3
<1>8. CASE NativeKey
  <2>1. UNCHANGED other /\ Head(todo).at = "native" /\ Command(Holding("keys", native.keys \ {Arg}), "keyup")
    BY <1>1, <1>8 DEF NativeKey, Now
  <2>2. \/ native' = Holding("keys", native.keys \ {Arg}) /\ Return
        \/ Raise
    BY <2>1, CommandDoes
  <2>3. CASE native' = Holding("keys", native.keys \ {Arg}) /\ Return
    <3>1. native'.keys = native.keys \ {call.arg}
      BY <1>1, <2>3 DEF Holding, NativeOK, Arg
    <3> QED
      BY <1>2, <1>5, <2>1, <2>3, <3>1
  <2> QED
    BY <1>4, <2>2, <2>3
<1>9. CASE NextHold
  <2>1. /\ Head(todo).at = "next" /\ UNCHANGED native
        /\ \/ other' = [other EXCEPT !["keys"] = Changed("keyup", @)] /\ Return
           \/ Raise
    BY <1>1, <1>9 DEF NextHold, Now, KeyActions
  <2>2. CASE other' = [other EXCEPT !["keys"] = Changed("keyup", @)] /\ Return
    <3>1. other'.keys = other.keys \ {call.arg}
      BY <1>1, <2>2 DEF Changed, Arg, Owned, Shapes
    <3> QED
      BY <1>2, <1>5, <2>1, <2>2, <3>1
  <2> QED
    BY <1>4, <2>1, <2>2
<1>10. Head(todo).at \notin {"clear", "leave"}
  BY <1>0, <1>1, FrameFacts DEF StackInv, Spot
<1>11. ChooseKey \/ FallBack \/ NativeKey \/ NextHold
  BY <1>1, <1>10, Table DEF ScriptStep, At, PointerActions, ButtonActions
<1> QED
  BY <1>6, <1>7, <1>8, <1>9, <1>11

(* Every step keeps KeyupInv. *)
LEMMA KeyupStep ==
    ASSUME StackInv, Owned, NativeOK, RecordsOK, KeyupInv, [Next]_vars
    PROVE  KeyupInv'
<1>1. CASE Around
  BY <1>1 DEF Around, KeyupInv, Mixed
<1>2. CASE Script \/ Pop
  BY <1>2, CalledStep DEF Called, KeyupInv
<1>3. CASE ScriptStep
  <2>1. UNCHANGED call
    BY <1>3, ScriptCall
  <2>2. CASE call.do = "keyup" /\ ~Mixed
    BY <1>3, <2>2, KeyupScript
  <2>3. CASE ~(call.do = "keyup" /\ ~Mixed)
    BY <2>1, <2>3 DEF KeyupInv, Mixed
  <2> QED
    BY <2>2, <2>3
<1> QED
  BY <1>1, <1>2, <1>3, Moves

-----------------------------------------------------------------------------
(* Ending a drag. *)

EndInv ==
    call.do = "end" /\ ~Mixed =>
        /\ todo = <<>> /\ raised = {} =>
              native.buttons \cup other.buttons = {} /\ (answer => call.buttons \cup call.otherButtons # {})
        /\ todo # <<>> /\ (Head(todo).do = "release" \/ Head(todo).at \in {"clear", "leave"}) =>
              /\ native.buttons = {} /\ (answer => call.otherButtons # {})
              /\ Head(todo).at # "native" /\ (Head(todo).at = "choose" => other.buttons # {})
        /\ todo # <<>> /\ Head(todo).do = "end" /\ Head(todo).at \in {"choose", "native", "next"} =>
              /\ native.buttons \subseteq call.buttons /\ other.buttons = call.otherButtons
              /\ Head(todo).at = "native" => other.buttons = {}
              /\ Head(todo).at = "next" => native.buttons = {}

(* mouse_drag_end() is alone on the stack, or beneath a release of Community's. *)
LEMMA EndAlone ==
    ASSUME StackInv, todo # <<>>, call.do = "end"
    PROVE  \/ Head(todo).do = "end" /\ Tail(todo) = <<>>
           \/ Head(todo).do = "release" /\ \E u \in Frame : Tail(todo) = <<u>> /\ Ending(u)
<1>1. Within(Head(todo), Tail(todo))
  BY DEF StackInv
<1> QED
  BY <1>1 DEF Within, Own, Over

(* The steps of mouse_drag_end() itself keep EndInv. *)
LEMMA EndScript ==
    ASSUME StackInv, Owned, NativeOK, RecordsOK, EndInv, ScriptStep, call.do = "end", ~Mixed, Head(todo).do = "end"
    PROVE  EndInv'
<1>0. todo # <<>> /\ UNCHANGED call
  BY ScriptCall
<1>1. Tail(todo) = <<>> /\ Head(todo) \in Frame
  BY <1>0, EndAlone DEF StackInv
<1>2. Head(todo).at \in {"choose", "native", "next"} =>
         /\ native.buttons \subseteq call.buttons /\ other.buttons = call.otherButtons
         /\ Head(todo).at = "native" => other.buttons = {}
         /\ Head(todo).at = "next" => native.buttons = {}
  BY <1>0 DEF EndInv
<1>3. ASSUME NEW at \in {"native", "next"}, Goto(at), UNCHANGED backends, Head(todo).at \in {"choose", "native"},
             at = "native" => other.buttons = {}, at = "next" => native.buttons = {}
      PROVE  EndInv'
  <2>0. Spot("end", at)
    BY <1>3 DEF Spot
  <2>1. todo' # <<>> /\ Head(todo').at = at /\ Head(todo').do = "end"
    BY <1>0, <1>3, <2>0, Goes
  <2> QED
    BY <1>0, <1>2, <1>3, <2>1 DEF EndInv, backends
<1>4. ASSUME Raise PROVE EndInv'
  <2>1. todo' = <<>> /\ raised' # {}
    BY <1>0, <1>1, <1>4, UnwoundNone DEF Raise
  <2> QED
    BY <2>1 DEF EndInv
<1>5. ASSUME Return, native'.buttons = {}, other'.buttons = {}, answer' => call.buttons \cup call.otherButtons # {}
      PROVE  EndInv'
  <2>1. todo' = <<>>
    BY <1>1, <1>5 DEF Return
  <2> QED
    BY <1>0, <1>5, <2>1 DEF EndInv
<1>6. CASE Choose
  <2>1. UNCHANGED backends
    BY <1>6 DEF Choose
  <2>0. Head(todo).at = "choose" /\ native.buttons \subseteq call.buttons /\ other.buttons = call.otherButtons
    BY <1>2, <1>6, Table DEF At
  <2>2. \/ Goto("native") /\ other.buttons = {}
        \/ Goto("next") /\ native.buttons = {}
    BY <1>6, <2>0, Chosen
  <2>5. CASE Goto("native") /\ other.buttons = {}
    BY <1>3, <2>0, <2>1, <2>5
  <2>6. CASE Goto("next") /\ native.buttons = {}
    BY <1>3, <2>0, <2>1, <2>6
  <2> QED
    BY <2>2, <2>5, <2>6
<1>7. CASE FallBack
  <2>1. UNCHANGED backends /\ Goto("next") /\ Lacks("end") /\ Head(todo).at = "native"
    BY <1>7 DEF FallBack, Now
  <2>2. native.buttons = {}
    BY <2>1 DEF Lacks, KeyActions, ButtonActions, NativeOK
  <2> QED
    BY <1>3, <2>1, <2>2
<1>8. CASE NativeEnd
  <2>1. UNCHANGED other /\ Head(todo).at = "native" /\ Command(Holding("buttons", {}), "release")
        /\ answer' = (native.buttons # {})
    BY <1>8 DEF NativeEnd, Now
  <2>2. \/ native' = Holding("buttons", {}) /\ Return
        \/ Raise
    BY <2>1, CommandDoes
  <2>3. CASE native' = Holding("buttons", {}) /\ Return
    <3>1. native'.buttons = {}
      BY <2>3 DEF Holding, NativeOK
    <3> QED
      BY <1>2, <1>5, <2>1, <2>3, <3>1
  <2> QED
    BY <1>4, <2>2, <2>3
<1>9. CASE NextEnd
  <2>1. /\ Head(todo).at = "next" /\ UNCHANGED backends
        /\ answer' = (memory.buttons # {} \/ other.buttons # {})
        /\ \E at \in {"clear", "leave"} : Goto(at)
    BY <1>9 DEF NextEnd, Now
  <2>2. PICK at \in {"clear", "leave"} : Goto(at)
    BY <2>1
  <2>3. Spot("end", at)
    BY DEF Spot
  <2>4. todo' # <<>> /\ Head(todo').at = at /\ Head(todo').do = "end"
    BY <1>0, <2>2, <2>3, Goes
  <2>5. memory.buttons = other.buttons
    BY DEF Owned, OwnershipSurvives
  <2> QED
    BY <1>0, <1>2, <2>1, <2>4, <2>5 DEF EndInv, backends
<1>10. CASE LetGo
  <2>1. /\ Head(todo').do = "release" /\ Head(todo').at = "choose" /\ Head(todo').arg \in other.buttons
        /\ UNCHANGED <<backends, answer>> /\ Head(todo).at \in {"clear", "leave"} /\ todo' # <<>>
    BY <1>10, LetGoStack DEF RecordsOK, LetGo
  <2> QED
    BY <1>0, <2>1 DEF EndInv, backends
<1>11. CASE Ended
  <2>1. Head(todo).at \in {"clear", "leave"} /\ other.buttons = {} /\ Return /\ UNCHANGED <<backends, answer>>
    BY <1>11 DEF Ended
  <2>2. native.buttons = {} /\ (answer => call.otherButtons # {})
    BY <1>0, <2>1 DEF EndInv
  <2> QED
    BY <1>5, <2>1, <2>2 DEF backends
<1>12. Choose \/ FallBack \/ NativeEnd \/ NextEnd \/ LetGo \/ Ended
  BY Table DEF ScriptStep, At, KeyActions
<1> QED
  BY <1>6, <1>7, <1>8, <1>9, <1>10, <1>11, <1>12

(* The releases that Community's mouse_drag_end() calls keep EndInv: they never go
   to the native backend. *)
LEMMA EndLetGo ==
    ASSUME StackInv, Owned, NativeOK, EndInv, ScriptStep, call.do = "end", ~Mixed, Head(todo).do = "release"
    PROVE  EndInv'
<1>0. todo # <<>> /\ UNCHANGED call
  BY ScriptCall
<1>1. PICK u \in Frame : Tail(todo) = <<u>> /\ Ending(u)
  BY <1>0, EndAlone
<1>2. /\ native.buttons = {} /\ (answer => call.otherButtons # {})
      /\ Head(todo).at # "native" /\ (Head(todo).at = "choose" => other.buttons # {})
  BY <1>0 DEF EndInv
<1>4. ASSUME Raise PROVE EndInv'
  <2>1. u.do \notin Finally
    BY <1>1 DEF Ending, Waits, Finally
  <2>2. todo' = <<>> /\ raised' # {}
    BY <1>0, <1>1, <1>4, <2>1, UnwoundOne DEF Raise
  <2> QED
    BY <2>2 DEF EndInv
<1>6. CASE Choose
  <2>1. UNCHANGED <<backends, answer>> /\ Goto(IF Selected THEN "native" ELSE "next") /\ Head(todo).at = "choose"
    BY <1>6 DEF Choose, Now
  <2>2. ~Selected
    BY <1>2, <2>1 DEF Selected, Owned, OwnershipSurvives
  <2>3. Spot("release", "next")
    BY DEF Spot
  <2>4. todo' # <<>> /\ Head(todo').at = "next" /\ Head(todo').do = "release"
    BY <1>0, <2>1, <2>2, <2>3, Goes
  <2> QED
    BY <1>0, <1>2, <2>1, <2>4 DEF EndInv, backends
<1>9. CASE NextHold
  <2>1. UNCHANGED <<native, answer>> /\ (Return \/ Raise)
    BY <1>9 DEF NextHold
  <2>2. CASE Return
    <3>1. todo' = <<u>> /\ Head(<<u>>) = u /\ <<u>> # <<>>
      BY <1>1, <2>2, Short DEF Return
    <3>2. todo' # <<>> /\ Head(todo').do = "end" /\ Head(todo').at \in {"clear", "leave"}
      BY <1>1, <3>1 DEF Ending, Waits
    <3> QED
      BY <1>0, <1>2, <2>1, <3>2 DEF EndInv
  <2> QED
    BY <1>4, <2>1, <2>2
<1>10. Head(todo).at \notin {"clear", "leave"}
  BY <1>0, FrameFacts DEF StackInv, Spot
<1>11. Choose \/ NextHold
  BY <1>2, <1>10, Table DEF ScriptStep, At, KeyActions
<1> QED
  BY <1>6, <1>9, <1>11

(* Every step keeps EndInv. *)
LEMMA EndStep ==
    ASSUME StackInv, Owned, NativeOK, RecordsOK, EndInv, [Next]_vars
    PROVE  EndInv'
<1>1. CASE Around
  BY <1>1 DEF Around, EndInv, Mixed
<1>2. CASE Script \/ Pop
  BY <1>2, CalledStep DEF Called, EndInv
<1>3. CASE ScriptStep
  <2>1. UNCHANGED call /\ todo # <<>>
    BY <1>3, ScriptCall
  <2>2. CASE call.do = "end" /\ ~Mixed
    BY <1>3, <2>1, <2>2, EndScript, EndLetGo, EndAlone
  <2>3. CASE ~(call.do = "end" /\ ~Mixed)
    BY <2>1, <2>3 DEF EndInv, Mixed
  <2> QED
    BY <2>2, <2>3
<1> QED
  BY <1>1, <1>2, <1>3, Moves

-----------------------------------------------------------------------------
(* Clicking with modifiers. *)

Clean == native.keys \subseteq call.keys /\ other.keys \subseteq call.otherKeys
Pressing == \/ native.keys \subseteq call.keys /\ other.keys \subseteq call.otherKeys \cup {Modifier}
            \/ other.keys = {} /\ native.keys \subseteq call.keys \cup {Modifier}
Begun(pressed) == native.keys \subseteq call.keys \cup pressed /\ other.keys \subseteq call.otherKeys

(* What has been pressed when t goes on. *)
Given(t) ==
    /\ t.do = "modified" => IF t.at = "pressed" THEN Pressing ELSE Clean
    /\ t.do = "keydown" => Clean /\ (t.at = "native" => other.keys = {})
    /\ t.do = "keyup" => /\ Pressing /\ (t.at = "native" => other.keys = {})
                         /\ t.at = "next" => native.keys \subseteq call.keys
    /\ t.do = "unpress" => Begun(t.arg)

ModInv ==
    call.do = "modified" =>
        /\ todo = <<>> /\ raised \cap Finally = {} => Clean
        /\ todo # <<>> => Given(Head(todo))
        /\ todo # <<>> /\ Head(todo).do = "click" => Given(Head(Tail(todo)))

(* No step but a press adds keys. *)
Fewer == native'.keys \subseteq native.keys /\ UNCHANGED <<other, call>>

(* Letting go of native keys keeps what is known of them. *)
LEMMA FewerKeys ==
    ASSUME Fewer
    PROVE  /\ Clean => Clean'
           /\ Pressing => Pressing'
           /\ \A pressed : Begun(pressed) => Begun(pressed)'
BY DEF Fewer, Clean, Pressing, Begun

(* So it keeps what an action on the stack relies on. *)
LEMMA FewerPressed ==
    ASSUME Fewer, NEW t, Given(t)
    PROVE  Given(t)'
<1>1. /\ Clean => Clean'
      /\ Pressing => Pressing'
      /\ Begun(t.arg) => Begun(t.arg)'
  BY FewerKeys
<1>2. (other.keys = {} => other'.keys = {}) /\ (native.keys \subseteq call.keys => native'.keys \subseteq call'.keys)
  BY DEF Fewer
<1> QED
  BY <1>1, <1>2 DEF Given

(* A command that is not done adds no key. *)
LEMMA LostKeys ==
    ASSUME native' \in {native, Gone}
    PROVE  native'.keys \subseteq native.keys
BY DEF Gone

(* What a modified click has on the stack: itself, the presses and releases around
   it, or the click over one of these releases. *)
LEMMA ModAlone ==
    ASSUME StackInv, todo # <<>>, call.do = "modified"
    PROVE  \/ Head(todo).do \in {"modified", "unpress"} /\ Tail(todo) = <<>>
           \/ Head(todo).do = "keyup" /\ Head(todo).arg = Modifier /\ Tail(todo) = <<>>
           \/ /\ Head(todo).do = "keydown" /\ Head(todo).arg = Modifier
              /\ \E u \in Frame : Tail(todo) = <<u>> /\ Waits(u, "modified", {"pressed"})
           \/ /\ Head(todo).do = "click"
              /\ \E u \in Frame : Tail(todo) = <<u>> /\ u.at = "choose" /\ u.do \in {"keyup", "unpress"}
<1>1. Within(Head(todo), Tail(todo))
  BY DEF StackInv
<1>2. call.do \notin {"end", "touch"}
  OBVIOUS
<1>3. CASE Tail(todo) = <<>> /\ Own(Head(todo))
  BY <1>3 DEF Own
<1>4. ASSUME NEW u \in Frame, Tail(todo) = <<u>>, Over(Head(todo), u)
      PROVE  \/ /\ Head(todo).do = "keydown" /\ Head(todo).arg = Modifier
                /\ Waits(u, "modified", {"pressed"})
             \/ /\ Head(todo).do = "click"
                /\ u.at = "choose" /\ u.do \in {"keyup", "unpress"}
  BY <1>4 DEF Over, Waits
<1> QED
  BY <1>1, <1>2, <1>3, <1>4 DEF Within

(* The last action is done, or raises. *)
LEMMA ModLast ==
    ASSUME todo' = <<>>, raised' \cap Finally = {} => Clean'
    PROVE  ModInv'
BY DEF ModInv

(* ModInv holds when what the new top relies on does. *)
LEMMA ModTop ==
    ASSUME todo' # <<>>, Head(todo').do # "click", Given(Head(todo))'
    PROVE  ModInv'
BY DEF ModInv

(* The click itself. *)
LEMMA ModOverClick ==
    ASSUME StackInv, ModInv, ScriptStep, call.do = "modified", Head(todo).do = "click"
    PROVE  ModInv'
<1>0. todo # <<>> /\ UNCHANGED call /\ Head(todo) \in Frame
  BY ScriptCall DEF StackInv
<1>1. PICK u \in Frame : Tail(todo) = <<u>> /\ u.at = "choose" /\ u.do \in {"keyup", "unpress"}
  BY <1>0, ModAlone
<1>a. Head(<<u>>) = u /\ <<u>> # <<>>
  BY Short
<1>2. Given(u)
  BY <1>0, <1>1, <1>a DEF ModInv
<1>3. Head(todo).at \notin {"clear", "leave"}
  BY <1>0, FrameFacts DEF Spot
<1>4. Choose \/ FallBack \/ NativeClick \/ NextEffect
  BY <1>3, Table DEF ScriptStep, At, KeyActions
<1>5. CASE Choose \/ FallBack \/ (NativeClick /\ Replayed("click"))
  <2>1. UNCHANGED other /\ native' \in {native, Gone} /\ \E at \in {"native", "next"} : Goto(at)
    BY <1>5 DEF Choose, FallBack, NativeClick, Replayed, backends
  <2>2. PICK at \in {"native", "next"} : Goto(at)
    BY <2>1
  <2>3. Spot(Head(todo).do, at)
    BY DEF Spot
  <2>4. todo' # <<>> /\ Head(todo').do = "click" /\ Tail(todo') = Tail(todo)
    BY <1>0, <2>2, <2>3, Goes
  <2>5. Fewer
    BY <1>0, <2>1, LostKeys DEF Fewer
  <2>6. Given(u)'
    BY <1>2, <2>5, FewerPressed
  <2>7. Given(Head(todo))'
    BY <2>4 DEF Given
  <2>8. Head(Tail(todo')) = u
    BY <1>1, <1>a, <2>4
  <2> QED
    BY <2>4, <2>6, <2>7, <2>8 DEF ModInv
<1>6. CASE (NativeClick /\ ~Replayed("click")) \/ NextEffect
  <2>1. UNCHANGED other /\ native' \in {native, Gone} /\ (Return \/ Raise)
    <3>1. CASE NextEffect
      BY <3>1 DEF NextEffect, backends
    <3>2. CASE NativeClick /\ ~Replayed("click")
      <4>1. UNCHANGED other /\ ((Raise /\ UNCHANGED native) \/ Command(native, "click"))
        BY <3>2 DEF NativeClick
      <4> QED
        BY <4>1, CommandDoes
    <3> QED
      BY <1>6, <3>1, <3>2
  <2>2. Fewer
    BY <1>0, <2>1, LostKeys DEF Fewer
  <2>3. todo' = <<u>>
    <3>1. CASE Return
      BY <1>1, <3>1 DEF Return
    <3>2. CASE Raise
      BY <1>1, <3>2, UnwoundOne DEF Raise, Finally
    <3> QED
      BY <2>1, <3>1, <3>2
  <2>4. todo' # <<>> /\ Head(todo') = u
    BY <1>a, <2>3
  <2>5. Given(u)'
    BY <1>2, <2>2, FewerPressed
  <2> QED
    BY <1>1, <2>4, <2>5, ModTop
<1> QED
  BY <1>4, <1>5, <1>6

(* Pressing the keys around it. *)
LEMMA ModKeydown ==
    ASSUME StackInv, Owned, NativeOK, ModInv, ScriptStep, call.do = "modified", Head(todo).do = "keydown"
    PROVE  ModInv'
<1>0. todo # <<>> /\ UNCHANGED call /\ Head(todo) \in Frame
  BY ScriptCall DEF StackInv
<1>1. PICK u \in Frame : Tail(todo) = <<u>> /\ Waits(u, "modified", {"pressed"})
  BY <1>0, ModAlone
<1>a. Head(<<u>>) = u /\ <<u>> # <<>> /\ Arg = Modifier
  BY <1>0, ModAlone, Short DEF Arg
<1>2. Clean /\ (Head(todo).at = "native" => other.keys = {})
  BY <1>0 DEF ModInv, Given
<1>3. Head(todo).at \notin {"clear", "leave"}
  BY <1>0, FrameFacts DEF Spot
<1>4. ChooseKey \/ FallBack \/ NativeKey \/ NextHold
  BY <1>3, Table DEF ScriptStep, At, PointerActions, ButtonActions
<1>5. ASSUME NEW at \in {"native", "next"}, Goto(at), UNCHANGED backends, at = "native" => other.keys = {}
      PROVE  ModInv'
  <2>3. Spot(Head(todo).do, at)
    BY DEF Spot
  <2>4. todo' # <<>> /\ Head(todo').do = "keydown" /\ Head(todo').at = at
    BY <1>0, <1>5, <2>3, Goes
  <2>5. Clean' /\ other' = other
    BY <1>0, <1>2, <1>5 DEF Clean, backends
  <2>6. Given(Head(todo))'
    BY <1>5, <2>4, <2>5 DEF Given
  <2> QED
    BY <2>4, <2>6, ModTop
<1>6. ASSUME Return, Pressing' PROVE ModInv'
  <2>1. todo' = <<u>>
    BY <1>1, <1>6 DEF Return
  <2>2. todo' # <<>> /\ Head(todo') = u
    BY <1>a, <2>1
  <2>3. Given(u)'
    BY <1>1, <1>6 DEF Given, Waits
  <2> QED
    BY <1>1, <2>2, <2>3, ModTop DEF Waits
<1>7. ASSUME Raise, native' \in {native, Gone}, UNCHANGED other PROVE ModInv'
  <2>1. todo' = <<>>
    BY <1>1, <1>7, UnwoundOne DEF Raise, Finally, Waits
  <2>2. Fewer
    BY <1>0, <1>7, LostKeys DEF Fewer
  <2>3. Clean'
    BY <1>2, <2>2, FewerKeys
  <2> QED
    BY <2>1, <2>3, ModLast
<1>8. CASE ChooseKey
  <2>1. UNCHANGED backends
    BY <1>8 DEF ChooseKey
  <2>2. \/ Goto("native") /\ other.keys = {}
        \/ Goto("next")
    BY <1>8, KeyChosen
  <2> QED
    BY <1>5, <2>1, <2>2
<1>9. CASE FallBack
  BY <1>5, <1>9 DEF FallBack
<1>10. CASE NativeKey
  <2>1. UNCHANGED other /\ Head(todo).at = "native" /\ Command(Holding("keys", native.keys \cup {Arg}), "keydown")
    BY <1>10 DEF NativeKey, Now
  <2>2. \/ native' = Holding("keys", native.keys \cup {Arg}) /\ Return
        \/ Raise /\ native' \in {native, Gone}
    BY <2>1, CommandDoes
  <2>3. CASE native' = Holding("keys", native.keys \cup {Arg}) /\ Return
    <3>1. native'.keys = native.keys \cup {Modifier}
      BY <1>a, <2>3 DEF Holding, NativeOK
    <3>2. Pressing'
      BY <1>0, <1>2, <2>1, <3>1 DEF Pressing, Clean
    <3> QED
      BY <1>6, <2>3, <3>2
  <2> QED
    BY <1>7, <2>1, <2>2, <2>3
<1>11. CASE NextHold
  <2>1. /\ UNCHANGED native
        /\ \/ other' = [other EXCEPT !["keys"] = Changed("keydown", @)] /\ Return
           \/ Raise /\ UNCHANGED other
    BY <1>11 DEF NextHold, Now, KeyActions
  <2>2. CASE other' = [other EXCEPT !["keys"] = Changed("keydown", @)] /\ Return
    <3>1. other'.keys = other.keys \cup {Modifier}
      BY <1>a, <2>2 DEF Changed, Owned, Shapes
    <3>2. Pressing'
      BY <1>0, <1>2, <2>1, <3>1 DEF Pressing, Clean
    <3> QED
      BY <1>6, <2>2, <3>2
  <2> QED
    BY <1>7, <2>1, <2>2
<1> QED
  BY <1>4, <1>8, <1>9, <1>10, <1>11

(* Letting go of them. *)
LEMMA ModKeyup ==
    ASSUME StackInv, Owned, NativeOK, ModInv, ScriptStep, call.do = "modified", Head(todo).do = "keyup"
    PROVE  ModInv'
<1>0. todo # <<>> /\ UNCHANGED call /\ Head(todo) \in Frame
  BY ScriptCall DEF StackInv
<1>1. Tail(todo) = <<>> /\ Arg = Modifier
  BY <1>0, ModAlone DEF Arg
<1>2. /\ Pressing /\ (Head(todo).at = "native" => other.keys = {})
      /\ Head(todo).at = "next" => native.keys \subseteq call.keys
  BY <1>0 DEF ModInv, Given
<1>3. Head(todo).at \notin {"clear", "leave"}
  BY <1>0, FrameFacts DEF Spot
<1>4. ChooseKey \/ FallBack \/ NativeKey \/ NextHold
  BY <1>3, Table DEF ScriptStep, At, PointerActions, ButtonActions
<1>5. ASSUME NEW at \in {"native", "next"}, Goto(at), UNCHANGED backends, at = "native" => other.keys = {},
             at = "next" => native.keys \subseteq call.keys
      PROVE  ModInv'
  <2>3. Spot(Head(todo).do, at)
    BY DEF Spot
  <2>4. todo' # <<>> /\ Head(todo').do = "keyup" /\ Head(todo').at = at
    BY <1>0, <1>5, <2>3, Goes
  <2>5. Pressing' /\ other' = other /\ native' = native
    BY <1>0, <1>2, <1>5 DEF Pressing, backends
  <2>6. Given(Head(todo))'
    BY <1>0, <1>5, <2>4, <2>5 DEF Given
  <2> QED
    BY <2>4, <2>6, ModTop
<1>6. ASSUME Return, Clean' PROVE ModInv'
  BY <1>1, <1>6, ModLast DEF Return
<1>7. ASSUME Raise PROVE ModInv'
  <2>1. todo' = <<>> /\ raised' \cap Finally # {}
    BY <1>1, <1>7, UnwoundNone DEF Raise, Finally
  <2> QED
    BY <2>1, ModLast
<1>8. CASE ChooseKey
  <2>1. UNCHANGED backends
    BY <1>8 DEF ChooseKey
  <2>2. \/ Goto("native") /\ other.keys = {}
        \/ Goto("next") /\ (native.keys = {} \/ other.keys # {})
    BY <1>8, KeyChosen
  <2>3. native.keys = {} \/ other.keys # {} => native.keys \subseteq call.keys
    BY <1>2 DEF Pressing
  <2> QED
    BY <1>5, <2>1, <2>2, <2>3
<1>9. CASE FallBack
  <2>1. Goto("next") /\ UNCHANGED backends /\ Lacks("keyup")
    BY <1>9 DEF FallBack, Now
  <2>2. native.keys \subseteq call.keys
    BY <2>1 DEF Lacks, KeyActions, NativeOK
  <2> QED
    BY <1>5, <2>1, <2>2
<1>10. CASE NativeKey
  <2>1. UNCHANGED other /\ Head(todo).at = "native" /\ Command(Holding("keys", native.keys \ {Arg}), "keyup")
    BY <1>10 DEF NativeKey, Now
  <2>2. \/ native' = Holding("keys", native.keys \ {Arg}) /\ Return
        \/ Raise
    BY <2>1, CommandDoes
  <2>3. CASE native' = Holding("keys", native.keys \ {Arg}) /\ Return
    <3>1. native'.keys = native.keys \ {Modifier}
      BY <1>1, <2>3 DEF Holding, NativeOK
    <3>2. Clean'
      BY <1>0, <1>2, <2>1, <3>1 DEF Pressing, Clean
    <3> QED
      BY <1>6, <2>3, <3>2
  <2> QED
    BY <1>7, <2>2, <2>3
<1>11. CASE NextHold
  <2>1. /\ UNCHANGED native /\ Head(todo).at = "next"
        /\ \/ other' = [other EXCEPT !["keys"] = Changed("keyup", @)] /\ Return
           \/ Raise
    BY <1>11 DEF NextHold, Now, KeyActions
  <2>2. CASE other' = [other EXCEPT !["keys"] = Changed("keyup", @)] /\ Return
    <3>1. other'.keys = other.keys \ {Modifier}
      BY <1>1, <2>2 DEF Changed, Owned, Shapes
    <3>2. Clean'
      BY <1>0, <1>2, <2>1, <3>1 DEF Pressing, Clean
    <3> QED
      BY <1>6, <2>2, <3>2
  <2> QED
    BY <1>7, <2>1, <2>2
<1> QED
  BY <1>4, <1>8, <1>9, <1>10, <1>11

(* Releasing what the native backend has pressed. *)
LEMMA ModUnpress ==
    ASSUME StackInv, NativeOK, ModInv, ScriptStep, call.do = "modified", Head(todo).do = "unpress"
    PROVE  ModInv'
<1>0. todo # <<>> /\ UNCHANGED call /\ Head(todo) \in Frame
  BY ScriptCall DEF StackInv
<1>1. Tail(todo) = <<>> /\ Begun(Arg)
  BY <1>0, ModAlone DEF Arg, ModInv, Given
<1>2. Head(todo).at \notin {"clear", "leave"}
  BY <1>0, FrameFacts DEF Spot
<1>3. EndModifiers
  BY <1>2, Table DEF ScriptStep, At, PointerActions, ButtonActions, KeyActions
<1>4. CASE Raise
  <2>1. todo' = <<>> /\ raised' \cap Finally # {}
    BY <1>1, <1>4, UnwoundNone DEF Raise, Finally
  <2> QED
    BY <2>1, ModLast
<1>5. CASE native' = Holding("keys", native.keys \ Arg) /\ Return
  <2>1. native'.keys = native.keys \ Arg /\ UNCHANGED other
    BY <1>3, <1>5 DEF EndModifiers, Holding, NativeOK
  <2>2. Clean'
    BY <1>0, <1>1, <2>1 DEF Begun, Clean
  <2> QED
    BY <1>1, <1>5, <2>2, ModLast DEF Return
<1> QED
  BY <1>3, <1>4, <1>5 DEF EndModifiers

(* The click as a whole. *)
LEMMA ModWhole ==
    ASSUME StackInv, NativeOK, ModInv, ScriptStep, call.do = "modified", Head(todo).do = "modified"
    PROVE  ModInv'
<1>0. todo # <<>> /\ UNCHANGED call /\ Head(todo) \in Frame
  BY ScriptCall DEF StackInv
<1>1. Tail(todo) = <<>>
  BY <1>0, ModAlone
<1>2. IF Head(todo).at = "pressed" THEN Pressing ELSE Clean
  BY <1>0 DEF ModInv, Given
<1>3. Head(todo).at \notin {"clear", "leave"} /\ Arg \in Buttons
  BY <1>0, FrameFacts DEF Spot, Arg
<1>4. Choose \/ ModifiedClick \/ FallbackModified \/ BeginModifiers \/ Pressed
  BY <1>3, Table DEF ScriptStep, At, PointerActions, ButtonActions, KeyActions
<1>5. ASSUME NEW at \in {"native", "next", "begin"}, Goto(at), UNCHANGED backends, Clean PROVE ModInv'
  <2>3. Spot(Head(todo).do, at)
    BY DEF Spot
  <2>4. todo' # <<>> /\ Head(todo').do = "modified" /\ Head(todo').at = at
    BY <1>0, <1>5, <2>3, Goes
  <2>5. Clean'
    BY <1>0, <1>5 DEF Clean, backends
  <2>6. Given(Head(todo))'
    BY <1>5, <2>4, <2>5 DEF Given
  <2> QED
    BY <2>4, <2>6, ModTop
<1>6. ASSUME Calls(<<Action("keydown", Modifier), [Head(todo) EXCEPT !.at = "pressed"]>>), UNCHANGED backends, Clean
      PROVE  ModInv'
  <2> DEFINE a == Action("keydown", Modifier)
             b == [Head(todo) EXCEPT !.at = "pressed"]
  <2>1. a.do = "keydown" /\ a.at = "choose"
    BY ActionFacts
  <2> HIDE DEF a, b
  <2>0. <<a, b>> \o <<>> = <<a, b>> /\ Calls(<<a, b>>)
    BY <1>6, Short DEF a, b
  <2>2. todo' = <<a, b>>
    BY <1>1, <2>0, Zenon DEF Calls
  <2>3. todo' # <<>> /\ Head(todo') = a
    BY <2>2, Short
  <2>4. Clean'
    BY <1>0, <1>6 DEF Clean, backends
  <2>5. Given(a)'
    BY <2>1, <2>4 DEF Given
  <2> QED
    BY <2>1, <2>3, <2>5, ModTop
<1>7. ASSUME NEW a, NEW b, a.do = "click", b.do \in {"keyup", "unpress"}, Calls(<<a, b>>), Given(b)' PROVE ModInv'
  <2>0. <<a, b>> \o <<>> = <<a, b>>
    BY Short
  <2>1. todo' = <<a, b>>
    BY <1>1, <1>7, <2>0, Zenon DEF Calls
  <2>2. todo' # <<>> /\ Head(todo') = a /\ Head(Tail(todo')) = b
    <3>1. <<a, b>> # <<>> /\ Head(<<a, b>>) = a /\ Tail(<<a, b>>) = <<b>> /\ Head(<<b>>) = b
      BY Short
    <3> QED
      BY <2>1, <3>1
  <2>3. Given(a)'
    BY <1>7 DEF Given
  <2> QED
    BY <1>7, <2>2, <2>3 DEF ModInv
<1>8. ASSUME Raise, native' \in {native, Gone}, UNCHANGED other, Clean PROVE ModInv'
  <2>1. todo' = <<>>
    BY <1>1, <1>8, UnwoundNone DEF Raise
  <2>2. Fewer
    BY <1>0, <1>8, LostKeys DEF Fewer
  <2>3. Clean'
    BY <1>8, <2>2, FewerKeys
  <2> QED
    BY <2>1, <2>3, ModLast
<1>9. CASE Choose
  <2>1. Head(todo).at = "choose" /\ UNCHANGED backends /\ Goto(IF Selected THEN "native" ELSE "next")
    BY <1>9 DEF Choose, Now
  <2> QED
    BY <1>2, <1>5, <2>1
<1>10. CASE ModifiedClick
  <2>1. Head(todo).at = "native" /\ UNCHANGED other
        /\ \/ Goto("next") /\ UNCHANGED native
           \/ Raise /\ UNCHANGED native
           \/ Command(native, "click")
    BY <1>10 DEF ModifiedClick, Now
  <2>2. Clean
    BY <1>2, <2>1
  <2>3. CASE Command(native, "click")
    <3>1. \/ native' = native /\ Return
          \/ native' \in {native, Gone} /\ Raise
      BY <2>3, CommandDoes
    <3>2. CASE native' = native /\ Return
      <4>1. todo' = <<>> /\ Clean'
        BY <1>0, <1>1, <2>1, <2>2, <3>2 DEF Return, Clean
      <4> QED
        BY <4>1, ModLast
    <3> QED
      BY <1>8, <2>1, <2>2, <3>1, <3>2
  <2> QED
    BY <1>5, <1>8, <2>1, <2>2, <2>3 DEF backends
<1>11. CASE FallbackModified
  <2>1. Head(todo).at = "next" /\ UNCHANGED backends
        /\ \/ Goto("begin")
           \/ Calls(<<Action("keydown", Modifier), [Head(todo) EXCEPT !.at = "pressed"]>>)
    BY <1>11 DEF FallbackModified, Now
  <2> QED
    BY <1>2, <1>5, <1>6, <2>1
<1>12. CASE BeginModifiers
  <2>0. PICK x, p : x = Arg /\ p = {Modifier} \ native.keys
    OBVIOUS
  <2> DEFINE a == Action("click", x)
             b == Action("unpress", p)
  <2>1. Head(todo).at = "begin" /\ UNCHANGED other
        /\ \/ Calls(<<Action("keydown", Modifier), [Head(todo) EXCEPT !.at = "pressed"]>>) /\ UNCHANGED native
           \/ native' = Holding("keys", native.keys \cup {Modifier}) /\ Calls(<<a, b>>)
           \/ native' \in {native, Gone} /\ Raise
    BY <1>12, <2>0 DEF BeginModifiers, Now
  <2>2. Clean
    BY <1>2, <2>1
  <2>3. CASE native' = Holding("keys", native.keys \cup {Modifier}) /\ Calls(<<a, b>>)
    <3>1. a.do = "click" /\ b.do = "unpress" /\ b.arg = p
      BY ActionFacts
    <3>2. native'.keys = native.keys \cup {Modifier}
      BY <2>3 DEF Holding, NativeOK
    <3>3. Begun(p)'
      BY <1>0, <2>0, <2>1, <2>2, <3>2 DEF Begun, Clean
    <3>4. Given(b)'
      BY <3>1, <3>3 DEF Given
    <3> HIDE DEF a, b
    <3> QED
      BY <1>7, <2>3, <3>1, <3>4
  <2> QED
    BY <1>6, <1>8, <2>1, <2>2, <2>3 DEF backends
<1>13. CASE Pressed
  <2>0. PICK x : x = Arg
    OBVIOUS
  <2> DEFINE a == Action("click", x)
             b == Action("keyup", Modifier)
  <2>1. Head(todo).at = "pressed" /\ UNCHANGED backends /\ Calls(<<a, b>>)
    BY <1>13, <2>0 DEF Pressed, Now
  <2>2. a.do = "click" /\ b.do = "keyup" /\ b.at = "choose"
    BY ActionFacts
  <2>3. Pressing'
    BY <1>0, <1>2, <2>1 DEF Pressing, backends
  <2>4. Given(b)'
    BY <2>2, <2>3 DEF Given
  <2> HIDE DEF a, b
  <2> QED
    BY <1>7, <2>1, <2>2, <2>4
<1> QED
  BY <1>4, <1>9, <1>10, <1>11, <1>12, <1>13

(* Every step keeps ModInv. *)
LEMMA ModStep ==
    ASSUME StackInv, Owned, NativeOK, RecordsOK, ModInv, [Next]_vars
    PROVE  ModInv'
<1>1. CASE Around
  <2>1. UNCHANGED <<todo, call, raised>> /\ Fewer
    BY <1>1 DEF Around, Fewer
  <2>2. Clean => Clean'
    BY <2>1, FewerKeys
  <2>3. \A t : Given(t) => Given(t)'
    BY <2>1, FewerPressed
  <2> QED
    BY <2>1, <2>2, <2>3 DEF ModInv
<1>2. CASE Script \/ Pop
  <2>1. PICK action : Called(action) /\ action.do # "unpress"
    BY <1>2, CalledStep
  <2>2. ASSUME call'.do = "modified" PROVE ModInv'
    <3>1. action.do = "modified" /\ action.at = "choose" /\ todo' # <<>> /\ Head(todo') = action /\ Clean'
      BY <2>1, <2>2 DEF Called, Clean
    <3>2. Given(action)'
      BY <3>1 DEF Given
    <3> QED
      BY <3>1, <3>2, ModTop
  <2> QED
    BY <2>2 DEF ModInv
<1>3. CASE ScriptStep
  <2>1. UNCHANGED call /\ todo # <<>>
    BY <1>3, ScriptCall
  <2>2. CASE call.do = "modified"
    BY <1>3, <2>1, <2>2, ModAlone, ModOverClick, ModKeydown, ModKeyup, ModUnpress, ModWhole
  <2>3. CASE call.do # "modified"
    BY <2>1, <2>3 DEF ModInv
  <2> QED
    BY <2>2, <2>3
<1> QED
  BY <1>1, <1>2, <1>3, Moves

-----------------------------------------------------------------------------
(* What is done once. *)

Kinds == {"click", "move", "glide", "tap", "scroll", "drag", "release", "keydown", "keyup"}
Deeds == {"native", "other", "partly"} \X Kinds

Working == {"click", "drag", "toggle", "modified", "move", "scroll", "glide", "tap", "touch"}

(* The work of a call has not been done. *)
Ahead(t) == t.do \in Working \/ call.do = "touch" \/ (call.do = "modified" /\ t.do = "keydown")

Once == \A m, n \in Works : m = n
Owes == {"click", "move", "glide", "tap", "drag", "modified"}

WorkInv ==
    /\ acts \in Seq(Deeds) /\ Once
    /\ todo # <<>> /\ Ahead(Head(todo)) => Works = {}
    /\ raised = {} /\ ~(todo # <<>> /\ Ahead(Head(todo))) /\ call.do \in Owes => Works # {}
    /\ raised = {} /\ call.do = "touch" =>
          /\ todo = <<>> => (answer <=> Works = {})
          /\ todo # <<>> /\ Head(todo).do = "click" => ~answer

(* What an action has done is on the record of the call; releases, presses,
   and what a ValueError broke off do not count as work. *)
LEMMA Adds ==
    ASSUME acts \in Seq(Deeds), NEW backend \in {"native", "other", "partly"}, NEW kind \in Kinds, Acts(backend, kind)
    PROVE  /\ acts' \in Seq(Deeds)
           /\ kind \in {"release", "keydown", "keyup"} \/ backend = "partly" => Works' = Works
           /\ kind \notin {"release", "keydown", "keyup"} /\ backend # "partly" => Works' = Works \cup {Len(acts) + 1}
<1>1. PICK d \in Deeds : d = <<backend, kind>>
  BY DEF Deeds
<1>2. d[1] = backend /\ d[2] = kind
  BY <1>1
<1>3. acts' = Append(acts, d) /\ Len(acts) \in Nat
  BY <1>1 DEF Acts
<1>4. /\ acts' \in Seq(Deeds) /\ Len(acts') = Len(acts) + 1
      /\ \A i \in 1..Len(acts) : acts'[i] = acts[i]
      /\ acts'[Len(acts) + 1] = d
  BY <1>3
<1>5. DOMAIN acts = 1..Len(acts) /\ DOMAIN acts' = 1..(Len(acts) + 1)
  BY <1>4
<1>6. 1..(Len(acts) + 1) = (1..Len(acts)) \cup {Len(acts) + 1} /\ Len(acts) + 1 \notin 1..Len(acts)
  BY <1>3
<1>7. \A n : n \in Works' <=> \/ n \in Works
                              \/ /\ n = Len(acts) + 1 /\ kind \notin {"release", "keydown", "keyup"}
                                 /\ backend # "partly"
  <2>1. \A n \in 1..Len(acts) : acts'[n][1] = acts[n][1] /\ acts'[n][2] = acts[n][2]
    BY <1>4
  <2>2. acts'[Len(acts) + 1][1] = backend /\ acts'[Len(acts) + 1][2] = kind
    BY <1>2, <1>4
  <2> QED
    BY <1>5, <1>6, <2>1, <2>2 DEF Works, Momentary
<1> QED
  BY <1>4, <1>7

(* What is not done is not recorded. *)
LEMMA Same ==
    ASSUME acts \in Seq(Deeds), UNCHANGED acts
    PROVE  acts' \in Seq(Deeds) /\ Works' = Works
BY DEF Works

(* What the top stands on, seen from what is left to do. *)
LEMMA Worked ==
    ASSUME StackInv, todo # <<>>, Head(todo).do \in Working \cup {"unpress"}
    PROVE  \/ Tail(todo) = <<>> /\ Own(Head(todo))
           \/ /\ call.do = "modified" /\ Head(todo).do = "click"
              /\ \E u \in Frame : Tail(todo) = <<u>> /\ u.do \in {"keyup", "unpress"}
<1>1. Within(Head(todo), Tail(todo))
  BY DEF StackInv
<1>2. Head(todo).do \notin {"end", "release", "keydown"}
  BY DEF Working
<1> QED
  BY <1>1, <1>2 DEF Within, Over, Waits

(* An action that goes to another backend has done nothing yet. *)
LEMMA WorkGoes ==
    ASSUME StackInv, WorkInv, todo # <<>>, UNCHANGED <<acts, raised, call>>,
           Head(todo).do # "click" \/ UNCHANGED answer,
           NEW at, Goto(at), Spot(Head(todo).do, at)
    PROVE  WorkInv'
<1>1. todo' # <<>> /\ Head(todo').do = Head(todo).do
  BY Goes
<1>2. acts' \in Seq(Deeds) /\ Works' = Works
  BY Same DEF WorkInv
<1>3. Once'
  BY <1>2 DEF WorkInv, Once
<1> QED
  BY <1>1, <1>2, <1>3 DEF WorkInv, Ahead

(* After an error nothing is owed. *)
LEMMA WorkRaise ==
    ASSUME StackInv, todo # <<>>, Raise, UNCHANGED call, acts' \in Seq(Deeds), Once'
    PROVE  WorkInv'
<1>1. /\ raised' = raised \cup {Head(todo).do}
      /\ \/ todo' = <<>>
         \/ call.do = "modified" /\ Head(todo).do = "click" /\ Over(Head(todo), Head(todo'))
  BY Raises
<1>2. raised' # {}
  BY <1>1
<1>3. CASE todo' = <<>>
  BY <1>2, <1>3 DEF WorkInv
<1>4. CASE todo' # <<>>
  <2>1. call.do = "modified" /\ Head(todo').do \in {"keyup", "unpress"}
    BY <1>1, <1>4 DEF Over, Waits
  <2>2. ~Ahead(Head(todo))'
    BY <2>1 DEF Ahead, Working
  <2> QED
    BY <1>2, <2>1, <2>2 DEF WorkInv
<1> QED
  BY <1>3, <1>4

(* What only lets go, or presses a key. *)
LEMMA WorkQuiet ==
    ASSUME StackInv, WorkInv, todo # <<>>, Return, UNCHANGED <<call, raised>>, acts' \in Seq(Deeds), Works' = Works,
           Head(todo).do \in {"release", "end", "keydown", "keyup", "unpress"}
    PROVE  WorkInv'
<1>0. Once'
  BY DEF WorkInv, Once
<1>1. Within(Head(todo), Tail(todo)) /\ todo' = Tail(todo)
  BY DEF StackInv, Return
<1>2. CASE todo' = <<>>
  <2>2. Own(Head(todo))
    <3>1. \A u : <<u>> # <<>> /\ <<u, Touching>> # <<>>
      BY Short
    <3> QED
      BY <1>1, <1>2, <3>1 DEF Within
  <2>3. call.do # "touch"
    BY <2>2 DEF Own
  <2>4. call.do \in Owes => ~Ahead(Head(todo))
    BY <2>2 DEF Own, Ahead, Working, Owes
  <2> QED
    BY <1>0, <1>2, <2>3, <2>4 DEF WorkInv
<1>3. CASE todo' # <<>>
  <2>1. \/ Over(Head(todo), Head(todo'))
        \/ Ending(Head(todo')) /\ call.do = "touch" /\ Head(todo).do = "release"
    BY <1>1, <1>3, Returns
  <2>2. CASE call.do = "touch"
    <3>1. Head(todo').do \in {"end", "touch"} /\ Works = {}
      BY <2>1, <2>2 DEF Over, Ending, Waits, Touching, WorkInv, Ahead
    <3> QED
      BY <1>0, <1>3, <2>2, <3>1 DEF WorkInv, Ahead, Owes
  <2>3. CASE call.do # "touch"
    <3>1. \/ call.do = "end" /\ Head(todo').do = "end"
          \/ call.do = "modified" /\ Head(todo).do = "keydown" /\ Head(todo').do = "modified"
      BY <2>1, <2>3 DEF Over, Ending, Waits
    <3> QED
      BY <1>0, <1>3, <2>3, <3>1 DEF WorkInv, Ahead, Owes, Working
  <2> QED
    BY <2>2, <2>3
<1> QED
  BY <1>2, <1>3

(* What is asked for. *)
LEMMA WorkDone ==
    ASSUME StackInv, WorkInv, todo # <<>>, Return, UNCHANGED <<call, raised, answer>>, acts' \in Seq(Deeds), Once',
           Head(todo).do \in Working \ {"touch"},
           Head(todo).do \in {"scroll", "toggle"} \/ Works' # {}
    PROVE  WorkInv'
<1>1. \/ Tail(todo) = <<>> /\ Own(Head(todo))
      \/ /\ call.do = "modified" /\ Head(todo).do = "click"
         /\ \E u \in Frame : Tail(todo) = <<u>> /\ u.do \in {"keyup", "unpress"}
  BY Worked
<1>2. CASE Tail(todo) = <<>> /\ Own(Head(todo))
  <2>1. todo' = <<>>
    BY <1>2 DEF Return
  <2>2. call.do \in Owes \cup {"touch"} => Works' # {}
    BY <1>2 DEF Own, Owes, Working
  <2>3. raised = {} /\ call.do = "touch" => ~answer
    BY <1>2 DEF Own, Working, WorkInv
  <2> QED
    BY <2>1, <2>2, <2>3 DEF WorkInv, Owes
<1>3. CASE call.do = "modified" /\ Head(todo).do = "click"
           /\ \E u \in Frame : Tail(todo) = <<u>> /\ u.do \in {"keyup", "unpress"}
  <2>1. PICK u \in Frame : Tail(todo) = <<u>> /\ u.do \in {"keyup", "unpress"}
    BY <1>3
  <2>2. Head(<<u>>) = u /\ todo' = <<u>>
    BY <2>1, Short DEF Return
  <2>3. Head(todo').do \in {"keyup", "unpress"}
    BY <2>1, <2>2
  <2>4. ~Ahead(Head(todo))' /\ call.do # "touch"
    BY <1>3, <2>3 DEF Ahead, Working
  <2> QED
    BY <1>3, <2>4 DEF WorkInv
<1> QED
  BY <1>1, <1>2, <1>3

(* What calls others before its work is done. *)
LEMMA WorkCalls ==
    ASSUME StackInv, WorkInv, todo # <<>>, Head(todo).do \in Working, UNCHANGED <<call, raised, acts>>,
           todo' # <<>>, Ahead(Head(todo))', call.do = "touch" /\ Head(todo').do = "click" => ~answer'
    PROVE  WorkInv'
<1>1. acts' \in Seq(Deeds) /\ Works' = Works /\ Works = {}
  BY Same DEF WorkInv, Ahead
<1>2. Once'
  BY <1>1 DEF Once
<1> QED
  BY <1>1, <1>2 DEF WorkInv

-----------------------------------------------------------------------------
(* A command that does what was asked for keeps WorkInv, done or not. *)
LEMMA WorkDid ==
    ASSUME StackInv, WorkInv, todo # <<>>, UNCHANGED <<call, answer>>, NEW backend \in {"native", "other"},
           NEW kind \in Kinds, Head(todo).do \in Working \ {"touch"},
           kind \notin {"release", "keydown", "keyup"} \/ Head(todo).do = "toggle",
           \/ Acts(backend, kind) /\ Return /\ UNCHANGED raised
           \/ Raise /\ (Acts(backend, kind) \/ UNCHANGED acts)
    PROVE  WorkInv'
<1>1. acts \in Seq(Deeds) /\ Works = {}
  BY DEF WorkInv, Ahead
<1>2. ASSUME Acts(backend, kind)
      PROVE  acts' \in Seq(Deeds) /\ Once' /\ (Head(todo).do \in {"toggle"} \/ Works' # {})
  <2>1. /\ acts' \in Seq(Deeds)
        /\ kind \in {"release", "keydown", "keyup"} => Works' = {}
        /\ kind \notin {"release", "keydown", "keyup"} => Works' = {Len(acts) + 1}
    BY <1>1, <1>2, Adds
  <2> QED
    BY <2>1 DEF Once
<1>3. ASSUME UNCHANGED acts PROVE acts' \in Seq(Deeds) /\ Once'
  BY <1>1, <1>3, Same DEF Once
<1>4. CASE Acts(backend, kind) /\ Return /\ UNCHANGED raised
  BY <1>2, <1>4, WorkDone
<1>5. CASE Raise
  BY <1>2, <1>3, <1>5, WorkRaise
<1> QED
  BY <1>4, <1>5

(* A command that lets go, or presses a key, keeps WorkInv, done or not. *)
LEMMA WorkLet ==
    ASSUME StackInv, WorkInv, todo # <<>>, UNCHANGED call, NEW backend \in {"native", "other"},
           NEW kind \in {"release", "keydown", "keyup"}, Head(todo).do \in {"release", "end", "keydown", "keyup"},
           \/ Acts(backend, kind) /\ Return /\ UNCHANGED raised
           \/ Raise /\ (Acts(backend, kind) \/ UNCHANGED acts)
    PROVE  WorkInv'
<1>1. acts \in Seq(Deeds) /\ Once /\ kind \in Kinds
  BY DEF WorkInv, Kinds
<1>2. acts' \in Seq(Deeds) /\ Works' = Works
  BY <1>1, Adds, Same
<1>3. Once'
  BY <1>1, <1>2 DEF Once
<1>4. CASE Acts(backend, kind) /\ Return /\ UNCHANGED raised
  BY <1>2, <1>4, WorkQuiet
<1>5. CASE Raise
  BY <1>2, <1>3, <1>5, WorkRaise
<1> QED
  BY <1>4, <1>5

(* An error before anything is done keeps WorkInv. *)
LEMMA WorkError ==
    ASSUME StackInv, WorkInv, todo # <<>>, Raise, UNCHANGED <<call, acts>>
    PROVE  WorkInv'
<1>1. acts' \in Seq(Deeds) /\ Once'
  BY Same DEF WorkInv, Once
<1> QED
  BY <1>1, WorkRaise

(* What is broken off and replayed is still to be done. *)
LEMMA WorkAgain ==
    ASSUME StackInv, WorkInv, todo # <<>>, UNCHANGED <<call, answer>>, NEW kind \in Kinds, Replayed(kind),
           Head(todo).do \in {"click", "drag", "release", "toggle"}
    PROVE  WorkInv'
<1>1. acts' \in Seq(Deeds) /\ Works' = Works
  BY Adds, Same DEF WorkInv, Replayed
<1>2. Once'
  BY <1>1 DEF WorkInv, Once
<1>3. Goto("next") /\ Spot(Head(todo).do, "next") /\ UNCHANGED raised
  BY DEF Replayed, Spot
<1>4. todo' # <<>> /\ Head(todo').do = Head(todo).do
  BY <1>3, Goes
<1> QED
  BY <1>1, <1>2, <1>3, <1>4 DEF WorkInv, Ahead

(* The actions of the native backend. *)
LEMMA WorkNative ==
    ASSUME StackInv, WorkInv, NativeMotion \/ NativeClick \/ NativeButton \/ NativeEnd \/ NativeKey
    PROVE  WorkInv'
<1>0. todo # <<>> /\ UNCHANGED call
  BY Table, ScriptCall DEF At, ScriptStep
<1>1. CASE NativeMotion
  <2>1. PICK do \in {"move", "glide"} : Head(todo).do = do /\ Command(native, do) /\ UNCHANGED answer
    BY <1>1 DEF NativeMotion, Now
  <2>2. do \in Kinds /\ do \in Working \ {"touch"} /\ do \notin {"release", "keydown", "keyup"}
    BY DEF Kinds, Working
  <2> QED
    BY <1>0, <2>1, <2>2, CommandDoes, WorkDid
<1>2. CASE NativeClick
  <2>1. Head(todo).do = "click" /\ UNCHANGED answer /\ (Raise /\ UNCHANGED acts => WorkInv')
    BY <1>0, <1>2, WorkError DEF NativeClick, Now
  <2>2. \/ Raise /\ UNCHANGED acts
        \/ Command(native, "click")
        \/ Replayed("click")
    BY <1>2 DEF NativeClick
  <2>3. "click" \in Kinds /\ "click" \in Working \ {"touch"}
    BY DEF Kinds, Working
  <2>4. CASE Command(native, "click")
    BY <1>0, <2>1, <2>3, <2>4, CommandDoes, WorkDid
  <2>5. CASE Replayed("click")
    BY <1>0, <2>1, <2>3, <2>5, WorkAgain
  <2> QED
    BY <2>1, <2>2, <2>4, <2>5
<1>3. CASE NativeButton
  <2>1. PICK do \in {"drag", "release", "toggle"} :
            /\ Head(todo).do = do /\ UNCHANGED answer
            /\ \/ do # "release" /\ Command(Holding("buttons", native.buttons \cup {Arg}), "drag")
               \/ do # "drag" /\ Command(Holding("buttons", native.buttons \ {Arg}), "release")
               \/ Replayed("drag") \/ Replayed("release")
    BY <1>3 DEF NativeButton, Now
  <2>2. {"drag", "release"} \subseteq Kinds /\ {"drag", "toggle"} \subseteq Working \ {"touch"}
    BY DEF Kinds, Working
  <2>3. CASE do # "release" /\ Command(Holding("buttons", native.buttons \cup {Arg}), "drag")
    BY <1>0, <2>1, <2>2, <2>3, CommandDoes, WorkDid
  <2>4. CASE do = "toggle" /\ Command(Holding("buttons", native.buttons \ {Arg}), "release")
    BY <1>0, <2>1, <2>2, <2>4, CommandDoes, WorkDid
  <2>5. CASE do = "release" /\ Command(Holding("buttons", native.buttons \ {Arg}), "release")
    BY <1>0, <2>1, <2>2, <2>5, CommandDoes, WorkLet
  <2>6. CASE Replayed("drag") \/ Replayed("release")
    BY <1>0, <2>1, <2>2, <2>6, WorkAgain
  <2> QED
    BY <2>1, <2>3, <2>4, <2>5, <2>6
<1>4. CASE NativeEnd
  <2>1. Head(todo).do = "end" /\ Command(Holding("buttons", {}), "release")
    BY <1>4 DEF NativeEnd, Now
  <2> QED
    BY <1>0, <2>1, CommandDoes, WorkLet
<1>5. CASE NativeKey
  <2>1. PICK do \in KeyActions :
            /\ Head(todo).do = do /\ UNCHANGED answer
            /\ Command(Holding("keys", CASE do = "keydown" -> native.keys \cup {Arg}
                                         [] do = "keyup" -> native.keys \ {Arg}
                                         [] do = "tap" -> native.keys), do)
    BY <1>5 DEF NativeKey, Now
  <2>2. \/ Acts("native", do) /\ Return /\ UNCHANGED raised
        \/ Raise /\ (Acts("native", do) \/ UNCHANGED acts)
    BY <2>1, CommandDoes
  <2>3. "tap" \in Kinds /\ "tap" \in Working \ {"touch"}
    BY DEF Kinds, Working
  <2>4. CASE do = "tap"
    BY <1>0, <2>1, <2>2, <2>3, <2>4, WorkDid
  <2>5. CASE do \in {"keydown", "keyup"}
    BY <1>0, <2>1, <2>2, <2>5, WorkLet
  <2> QED
    BY <2>4, <2>5 DEF KeyActions
<1> QED
  BY <1>1, <1>2, <1>3, <1>4, <1>5

(* Native scrolling keeps WorkInv, with a whole step or without. *)
LEMMA WorkScroll ==
    ASSUME StackInv, WorkInv, NativeScroll
    PROVE  WorkInv'
<1>0. todo # <<>> /\ UNCHANGED <<call, answer>> /\ Head(todo).do = "scroll"
  BY DEF NativeScroll, Now
<1>1. "scroll" \in Kinds /\ "scroll" \in Working \ {"touch"} /\ Spot("scroll", "next")
  BY DEF Kinds, Working, Spot
<1>2. \/ Goto("next") /\ UNCHANGED <<acts, raised>>
      \/ Command(native, "scroll")
      \/ Return /\ UNCHANGED <<acts, raised>>
  BY DEF NativeScroll
<1>3. CASE Goto("next") /\ UNCHANGED <<acts, raised>>
  BY <1>0, <1>1, <1>3, WorkGoes
<1>4. CASE Command(native, "scroll")
  BY <1>0, <1>1, <1>4, CommandDoes, WorkDid
<1>5. CASE Return /\ UNCHANGED <<acts, raised>>
  <2>1. acts' \in Seq(Deeds) /\ Once'
    BY <1>5, Same DEF WorkInv, Once
  <2> QED
    BY <1>0, <1>1, <1>5, <2>1, WorkDone
<1> QED
  BY <1>2, <1>3, <1>4, <1>5

(* The actions of the other backend. *)
LEMMA WorkNext ==
    ASSUME StackInv, RecordsOK, WorkInv, NextEffect \/ NextHold \/ NextToggle \/ NextEnd \/ LetGo \/ Ended
    PROVE  WorkInv'
<1>0. todo # <<>> /\ UNCHANGED call
  BY Table, ScriptCall DEF At, ScriptStep
<1>1. CASE NextEffect
  <2>1. PICK do \in {"click", "move", "scroll", "glide", "tap"} :
            /\ Head(todo).do = do /\ UNCHANGED answer
            /\ \/ Acts("other", do) /\ Return /\ UNCHANGED raised
               \/ Raise /\ UNCHANGED acts
    BY <1>1 DEF NextEffect, Now
  <2>2. do \in Kinds /\ do \in Working \ {"touch"} /\ do \notin {"release", "keydown", "keyup"}
    BY DEF Kinds, Working
  <2> QED
    BY <1>0, <2>1, <2>2, WorkDid
<1>2. CASE NextHold
  <2>1. PICK do \in {"drag", "release", "keydown", "keyup"} :
            /\ Head(todo).do = do /\ UNCHANGED answer
            /\ \/ Acts("other", do) /\ Return /\ UNCHANGED raised
               \/ Raise /\ UNCHANGED acts
    BY <1>2 DEF NextHold, Now
  <2>2. "drag" \in Kinds /\ "drag" \in Working \ {"touch"}
    BY DEF Kinds, Working
  <2>3. CASE do = "drag"
    BY <1>0, <2>1, <2>2, <2>3, WorkDid
  <2>4. CASE do # "drag"
    BY <1>0, <2>1, <2>4, WorkLet
  <2> QED
    BY <2>3, <2>4
<1>3. CASE NextToggle
  <2> DEFINE a == Action(IF Arg \in other.buttons THEN "release" ELSE "drag", Arg)
  <2>1. Head(todo).do = "toggle" /\ Calls(<<a>>) /\ UNCHANGED <<raised, acts>>
    BY <1>3 DEF NextToggle, Now, history
  <2>2. Tail(todo) = <<>> /\ Own(Head(todo))
    BY <1>0, <2>1, Alone
  <2>3. call.do = "toggle"
    BY <2>1, <2>2 DEF Own
  <2>4. todo' = <<a>>
    BY <2>1, <2>2, Short DEF Calls
  <2>5. todo' # <<>> /\ Head(todo') = a
    BY <2>4, Short
  <2>6. a.do \in {"release", "drag"}
    BY ActionFacts
  <2>7. acts' \in Seq(Deeds) /\ Works' = Works /\ Works = {}
    BY <1>0, <2>1, Same DEF WorkInv, Ahead, Working
  <2>8. Once'
    BY <2>7 DEF Once
  <2> QED
    BY <1>0, <2>3, <2>5, <2>7, <2>8 DEF WorkInv, Owes
<1>4. CASE NextEnd
  <2>1. Head(todo).do = "end" /\ UNCHANGED <<acts, raised>> /\ \E at \in {"clear", "leave"} : Goto(at)
    BY <1>4 DEF NextEnd, Now, history
  <2>2. PICK at \in {"clear", "leave"} : Goto(at)
    BY <2>1
  <2>3. Spot("end", at)
    BY DEF Spot
  <2> QED
    BY <1>0, <2>1, <2>2, <2>3, WorkGoes
<1>5. CASE LetGo
  <2>1. Head(todo).do = "end" /\ Head(todo').do = "release" /\ todo' # <<>>
    BY <1>5, LetGoStack DEF RecordsOK
  <2>2. UNCHANGED <<acts, raised, answer>>
    BY <1>5 DEF LetGo, history
  <2>3. acts' \in Seq(Deeds) /\ Works' = Works
    BY <2>2, Same DEF WorkInv
  <2>4. Once'
    BY <2>3 DEF WorkInv, Once
  <2> QED
    BY <1>0, <2>1, <2>2, <2>3, <2>4 DEF WorkInv, Ahead, Working
<1>6. CASE Ended
  <2>1. Head(todo).at \in {"clear", "leave"} /\ UNCHANGED <<acts, raised>> /\ Return
    BY <1>6 DEF Ended, history
  <2>2. Head(todo).do = "end"
    BY <1>0, <2>1, FrameFacts DEF StackInv, Spot
  <2>3. acts' \in Seq(Deeds) /\ Works' = Works
    BY <2>1, Same DEF WorkInv
  <2> QED
    BY <1>0, <2>1, <2>2, <2>3, WorkQuiet
<1> QED
  BY <1>1, <1>2, <1>3, <1>4, <1>5, <1>6

(* The actions made of others. *)
LEMMA WorkMade ==
    ASSUME StackInv, WorkInv,
           Touch \/ Touched \/ ModifiedClick \/ FallbackModified \/ BeginModifiers \/ EndModifiers \/ Pressed
    PROVE  WorkInv'
<1>0. todo # <<>> /\ UNCHANGED call
  BY Table, ScriptCall DEF At, ScriptStep
<1>1. ASSUME NEW a, NEW b, Calls(<<a, b>>), UNCHANGED <<acts, raised>>, Head(todo).do \in {"touch", "modified"},
             a.do # "click" \/ call.do = "modified", Ahead(a)
      PROVE  WorkInv'
  <2>1. Tail(todo) = <<>> /\ Head(todo).do \in Working
    BY <1>0, <1>1, Alone DEF Working
  <2>2. <<a, b>> \o <<>> = <<a, b>>
    BY Short
  <2>3. todo' = <<a, b>>
    BY <1>1, <2>1, <2>2, Zenon DEF Calls
  <2>4. todo' # <<>> /\ Head(todo') = a
    BY <2>3, Short
  <2>5. Ahead(a)'
    BY <1>0, <1>1 DEF Ahead
  <2>6. Ahead(Head(todo))'
    BY <2>4, <2>5 DEF Ahead
  <2> QED
    BY <1>0, <1>1, <2>1, <2>4, <2>6, WorkCalls
<1>2. ASSUME Head(todo).do \in {"touch", "modified"} PROVE call.do = Head(todo).do
  BY <1>0, <1>2, Alone DEF Own
<1>3. CASE Touch
  <2> DEFINE a == Action("end", Left)
             b == [Head(todo) EXCEPT !.at = "ended"]
  <2>1. Head(todo).do = "touch" /\ Calls(<<a, b>>) /\ UNCHANGED <<acts, raised>>
    BY <1>3 DEF Touch, Now, history
  <2>2. a.do = "end"
    BY ActionFacts
  <2>3. Ahead(a)
    BY <1>2, <2>1 DEF Ahead
  <2> HIDE DEF a, b
  <2> QED
    BY <1>1, <2>1, <2>2, <2>3
<1>4. CASE Touched
  <2> DEFINE a == Action("click", Left)
  <2>1. Head(todo).do = "touch" /\ UNCHANGED <<acts, raised, answer>>
        /\ IF answer THEN Return ELSE Calls(<<a>>)
    BY <1>4 DEF Touched, Now, history
  <2>2. Tail(todo) = <<>> /\ call.do = "touch"
    BY <1>0, <1>2, <2>1, Alone
  <2>3. acts' \in Seq(Deeds) /\ Works' = Works /\ Works = {}
    BY <1>0, <2>1, <2>2, Same DEF WorkInv, Ahead
  <2>4. Once'
    BY <2>3 DEF Once
  <2>5. CASE answer /\ Return
    <3>1. todo' = <<>>
      BY <2>2, <2>5 DEF Return
    <3> QED
      BY <1>0, <2>1, <2>2, <2>3, <2>4, <2>5, <3>1 DEF WorkInv, Owes
  <2>6. CASE ~answer /\ Calls(<<a>>)
    <3>1. a.do = "click"
      BY ActionFacts
    <3> HIDE DEF a
    <3>2. todo' = <<a>>
      BY <2>2, <2>6, Short DEF Calls
    <3>3. todo' # <<>> /\ Head(todo') = a
      BY <3>2, Short
    <3>4. Ahead(Head(todo))'
      BY <1>0, <2>2 DEF Ahead
    <3> QED
      BY <1>0, <2>1, <2>3, <2>4, <2>6, <3>3, <3>4 DEF WorkInv
  <2> QED
    BY <2>1, <2>5, <2>6
<1>5. CASE ModifiedClick
  <2>1. /\ Head(todo).do = "modified" /\ UNCHANGED answer
        /\ \/ Raise /\ UNCHANGED acts
           \/ Goto("next") /\ UNCHANGED <<acts, raised>>
           \/ Command(native, "click")
    BY <1>5 DEF ModifiedClick, Now
  <2>2. "click" \in Kinds /\ "modified" \in Working \ {"touch"} /\ Spot("modified", "next")
    BY DEF Kinds, Working, Spot
  <2>3. CASE Goto("next") /\ UNCHANGED <<acts, raised>>
    BY <1>0, <2>1, <2>2, <2>3, WorkGoes
  <2>4. CASE Command(native, "click")
    BY <1>0, <2>1, <2>2, <2>4, CommandDoes, WorkDid
  <2> QED
    BY <1>0, <2>1, <2>3, <2>4, WorkError
<1>6. ASSUME Head(todo).do = "modified", UNCHANGED <<acts, raised>>,
             Calls(<<Action("keydown", Modifier), [Head(todo) EXCEPT !.at = "pressed"]>>)
      PROVE  WorkInv'
  <2> DEFINE a == Action("keydown", Modifier)
             b == [Head(todo) EXCEPT !.at = "pressed"]
  <2>1. a.do = "keydown"
    BY ActionFacts
  <2>2. Ahead(a)
    BY <1>2, <1>6, <2>1 DEF Ahead
  <2>3. Calls(<<a, b>>)
    BY <1>6
  <2> HIDE DEF a, b
  <2> QED
    BY <1>1, <1>6, <2>1, <2>2, <2>3
<1>7. CASE FallbackModified
  <2>1. /\ Head(todo).do = "modified" /\ UNCHANGED <<acts, raised, answer>>
        /\ \/ Goto("begin")
           \/ Calls(<<Action("keydown", Modifier), [Head(todo) EXCEPT !.at = "pressed"]>>)
    BY <1>7 DEF FallbackModified, Now, history
  <2>2. Spot("modified", "begin")
    BY DEF Spot
  <2> QED
    BY <1>0, <1>6, <2>1, <2>2, WorkGoes
<1>8. ASSUME NEW b, Head(todo).do = "modified", UNCHANGED <<acts, raised>>, Calls(<<Action("click", Arg), b>>)
      PROVE  WorkInv'
  <2> DEFINE a == Action("click", Arg)
  <2>1. a.do = "click"
    BY ActionFacts
  <2>2. Ahead(a)
    BY <2>1 DEF Ahead, Working
  <2>3. Calls(<<a, b>>) /\ call.do = "modified"
    BY <1>2, <1>8
  <2> HIDE DEF a
  <2>4. PICK c : c = a
    OBVIOUS
  <2> QED
    BY <1>1, <1>8, <2>2, <2>3, <2>4
<1>9. CASE BeginModifiers
  <2>1. /\ Head(todo).do = "modified" /\ UNCHANGED acts
        /\ \/ Calls(<<Action("keydown", Modifier), [Head(todo) EXCEPT !.at = "pressed"]>>) /\ UNCHANGED raised
           \/ Calls(<<Action("click", Arg), Action("unpress", {Modifier} \ native.keys)>>) /\ UNCHANGED raised
           \/ Raise
    BY <1>9 DEF BeginModifiers, Now
  <2> QED
    BY <1>0, <1>6, <1>8, <2>1, WorkError
<1>10. CASE Pressed
  <2>1. Head(todo).do = "modified" /\ UNCHANGED <<acts, raised>>
        /\ Calls(<<Action("click", Arg), Action("keyup", Modifier)>>)
    BY <1>10 DEF Pressed, Now, history
  <2> QED
    BY <1>8, <2>1
<1>11. CASE EndModifiers
  <2>1. /\ Head(todo).do = "unpress" /\ UNCHANGED acts
        /\ \/ Return /\ UNCHANGED raised
           \/ Raise
    BY <1>11 DEF EndModifiers, Now
  <2>2. acts' \in Seq(Deeds) /\ Works' = Works
    BY <2>1, Same DEF WorkInv
  <2> QED
    BY <1>0, <2>1, <2>2, WorkQuiet, WorkError
<1> QED
  BY <1>3, <1>4, <1>5, <1>7, <1>9, <1>10, <1>11

(* Every step keeps WorkInv. *)
LEMMA WorkStep ==
    ASSUME StackInv, NativeOK, RecordsOK, WorkInv, [Next]_vars
    PROVE  WorkInv'
<1>1. CASE Around
  <2>1. acts' \in Seq(Deeds) /\ Works' = Works
    BY <1>1, Same DEF WorkInv, Around
  <2>2. Once'
    BY <2>1 DEF WorkInv, Once
  <2> QED
    BY <1>1, <2>1, <2>2 DEF WorkInv, Around, Ahead
<1>2. CASE Script \/ Pop
  <2>1. PICK action : Called(action) /\ action.do # "unpress"
    BY <1>2, CalledStep
  <2>2. acts' \in Seq(Deeds) /\ Works' = {} /\ todo' # <<>> /\ Head(todo') = action /\ call'.do = action.do
        /\ action.at = "choose"
    BY <2>1 DEF Called, Works
  <2>3. Once'
    BY <2>2 DEF Once
  <2>4. call'.do \in Owes => Ahead(Head(todo))'
    BY <2>2 DEF Owes, Ahead, Working
  <2>5. ~(call'.do = "touch" /\ Head(todo').do = "click")
    BY <2>2
  <2> QED
    BY <2>2, <2>3, <2>4, <2>5 DEF WorkInv
<1>3. CASE ScriptStep
  <2>0. UNCHANGED call /\ todo # <<>>
    BY <1>3, ScriptCall
  <2>1. CASE Choose \/ ChooseKey \/ FallBack
    <3>1. UNCHANGED <<acts, raised, answer>> /\ \E at \in {"native", "next"} : Goto(at)
      BY <2>1 DEF Choose, ChooseKey, FallBack, history
    <3>2. PICK at \in {"native", "next"} : Goto(at)
      BY <3>1
    <3>3. Spot(Head(todo).do, at)
      BY <2>1, Table DEF At, Spot, PointerActions, ButtonActions, KeyActions
    <3> QED
      BY <2>0, <3>1, <3>2, <3>3, WorkGoes
  <2> QED
    BY <1>3, <2>1, WorkNative, WorkScroll, WorkNext, WorkMade, Zenon DEF ScriptStep
<1> QED
  BY <1>1, <1>2, <1>3, Moves

-----------------------------------------------------------------------------
RoutingIInv ==
    /\ Owned /\ NativeOK /\ RecordsOK /\ RemainderOK /\ SwitchOK
    /\ StackInv /\ WorkInv /\ ReleaseInv /\ KeyupInv /\ EndInv /\ ModInv

(* The inductive invariant holds when the plugins are loaded. *)
LEMMA RoutingInit == Init => RoutingIInv
<1> SUFFICES ASSUME Init PROVE RoutingIInv
  OBVIOUS
<1>1. Owned
  BY OwnedInit
<1>2. NativeOK
  BY DEF Init, NativeOK, Gone
<1>3. RecordsOK
  BY DEF Init, RecordsOK
<1>a. Step \in Nat /\ Step > 0
  BY RoutingAssumption
<1>b. remainder = 0 /\ drift = 0 /\ control = "off" /\ answer = FALSE
  BY DEF Init
<1>c. 0 \in (1 - Step)..(Step - 1)
  BY <1>a
<1>4. RemainderOK /\ SwitchOK
  BY <1>b, <1>c DEF RemainderOK, SwitchOK
<1>5. todo = <<>> /\ call.do = "none" /\ acts = <<>>
  BY DEF Init, NoCall
<1>6. StackInv
  BY <1>5 DEF StackInv
<1>7. WorkInv
  BY <1>5 DEF WorkInv, Works, Once, Owes
<1> QED
  BY <1>1, <1>2, <1>3, <1>4, <1>5, <1>6, <1>7 DEF RoutingIInv, ReleaseInv, KeyupInv, EndInv, ModInv

(* It is kept by every step. *)
LEMMA RoutingStep == RoutingIInv /\ [Next]_vars => RoutingIInv'
BY OwnedStep, NativeStep, RecordsStep, RemainderStep, SwitchStep, StackStep, WorkStep, ReleaseStep, KeyupStep,
   EndStep, ModStep DEF RoutingIInv, RecordsOK

(* TypeOK holds of every behaviour, for all buttons, keys and wheel steps: the
   shapes of mouse_forwarder.py's records, and less than a wheel step in
   _vertical_scroll_remainder. *)
THEOREM RoutingTypes == Spec => []TypeOK
<1>1. RoutingIInv => TypeOK
  BY DEF RoutingIInv, NativeOK, RecordsOK, RemainderOK, SwitchOK, TypeOK
<1> QED
  BY RoutingInit, RoutingStep, <1>1, PTL DEF Spec

(* However a script nests its actions, whatever falls back and whatever raises: what
   it asks for is done once, in one backend; a touch ends a drag or clicks, never
   both; and native scrolling has done what was asked for but for the remainder.
   Buttons are excused where a ValueError broke them off half way in the native
   backend: mouse_forwarder.py catches it and replays the action in the other one. *)
THEOREM RoutingActsOnce == Spec => []ActsOnce
<1>1. RoutingIInv => ActsOnce
  BY DEF RoutingIInv, RemainderOK, WorkInv, Once, Owes, ActsOnce
<1> QED
  BY RoutingInit, RoutingStep, <1>1, PTL DEF Spec

(* Whatever devices come and go: a release sent by mouse_forwarder.py or
   wayland_runtime.py, of which nothing raised, has reached the backend that holds the
   button or key; a mouse_drag_end() of which nothing raised leaves no button down and
   answers truly; and a modified click leaves none of its modifiers down, unless what
   lets go of them raised. It says nothing of calls made while both backends held
   buttons or keys (Mixed): then a release reaches one of the two. *)
THEOREM RoutingReleases == Spec => []ReleasesReachOwner
<1>1. RoutingIInv => ReleasesReachOwner
  <2> SUFFICES ASSUME RoutingIInv, todo = <<>>, ~Mixed PROVE ReleasesReachOwner
    BY DEF ReleasesReachOwner
  <2>1. /\ call.do = "release" /\ raised = {} => call.arg \notin native.buttons \cup other.buttons
        /\ call.do = "keyup" /\ raised = {} => call.arg \notin native.keys \cup other.keys
    BY DEF RoutingIInv, ReleaseInv, KeyupInv
  <2>2. call.do = "end" /\ raised = {} =>
              /\ native.buttons \cup other.buttons = {}
              /\ answer => call.buttons \cup call.otherButtons # {}
    BY DEF RoutingIInv, EndInv
  <2>3. call.do = "modified" /\ raised \cap Finally = {} =>
              native.keys \subseteq call.keys /\ other.keys \subseteq call.otherKeys
    BY DEF RoutingIInv, ModInv, Clean
  <2> QED
    BY <2>1, <2>2, <2>3 DEF ReleasesReachOwner
<1> QED
  BY RoutingInit, RoutingStep, <1>1, PTL DEF Spec
=============================================================================
