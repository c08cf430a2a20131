----------------------------- MODULE MCClipboard -----------------------------
(* Small instances of Clipboard for TLC. *)
EXTENDS Clipboard, TLC

(* Protocol objects of a kind are interchangeable, and so are writers. *)
Symmetry == Permutations(Devices) \cup Permutations(Offers) \cup Permutations(Sources)
            \cup Permutations(Callbacks) \cup Permutations(Writers)
=============================================================================
