----------------------------- MODULE MCDesktop -----------------------------
(* Small instances of Desktop for TLC. *)
EXTENDS Desktop, TLC

(* Key 1 is shift and key 4 a lock, which counts for letters only.  Two keymaps that
   have letters on different keys; "y" needs shift in one of them only. *)
Shows(plain, shifted, locked, both) ==
    [force \in SUBSET {1, 4} |-> CASE force = {} -> plain [] force = {1} -> shifted
                                  [] force = {4} -> locked [] force = {1, 4} -> both]
Always(name) == Shows(name, name, name, name)
MCSymbols == [km1 |-> <<Always("shift"), Shows("x", "X", "X", "x"),
                        Shows(NoKey, "y", NoKey, "y"), Always("caps")>>,
              km2 |-> <<Always("shift"), Shows("y", "X", "y", "X"),
                        Shows("x", "X", "X", "x"), Always("caps")>>]

Stroke(modifiers, key, action) ==
    [modifiers |-> modifiers, key |-> key, action |-> action, repeat |-> 1]
MCExpressions ==
    {<<Stroke(<<>>, "x", a)>> : a \in Actions}
    \cup {<<Stroke(<<>>, name, "tap")>> : name \in {"y", "caps"}}
    \cup {<<Stroke(<<"shift">>, "x", "tap")>>}

MCChords == {<<"shift">>}

Screen(name, size) == [name |-> name, model |-> Unknown, size |-> size, mode |-> Unknown]
MCTargets == {Screen("n1", Unknown), Screen(Unknown, "z1")}

(* Compositors: one without a virtual keyboard, with outputs that come and go;
   one without a virtual pointer, with two seats; one with both. *)
MCCompositors ==
    {[managers |-> [pointer |-> {1, 2}, keyboard |-> {}],
      seats |-> {1}, outputs |-> {1, 2}, keymaps |-> {}],
     [managers |-> [pointer |-> {1}, keyboard |-> {3, 4}],
      seats |-> {1, 2}, outputs |-> {}, keymaps |-> {"km1", "km2"}]}
=============================================================================
