------------------------------ MODULE Outputs ------------------------------
(***************************************************************************)
(* plugins/wayland_backend/outputs.py: the wl_output globals, the metadata *)
(* each accumulates until its "done" event, and the one output a Talon     *)
(* screen stands for.  As in Seats, a callback's listeners run in its step.*)
(*                                                                         *)
(* Sizes and modes are values that match themselves: the tolerance of the  *)
(* comparison and rotated axes are left out.                               *)
(***************************************************************************)
EXTENDS Naturals, Sequences, FiniteSetsExt

CONSTANTS OutputIds,        \* registry names of wl_output globals
          LegacyOutputs,    \* those bound at version 1, which has no "done"
          Names, Models, Sizes, OutputModes,   \* what the events may say
          Unknown,          \* an empty string or a size that is not positive
          NoOutput

VARIABLES pending,          \* OutputRegistry._outputs, NoOutput when not bound
          committed         \* OutputRegistry._snapshots

outputs == <<pending, committed>>

Metadata == [name : Names \cup {Unknown}, model : Models \cup {Unknown},
             size : Sizes \cup {Unknown}, mode : OutputModes \cup {Unknown}]

ASSUME OutputsAssumption == NoOutput \notin OutputIds \cup Metadata

OutputsTypeOK ==
    /\ pending \in [OutputIds -> Metadata \cup {NoOutput}]
    /\ committed \in [OutputIds -> Metadata \cup {NoOutput}]

NoOutputs == [o \in OutputIds |-> NoOutput]
Blank == [name |-> Unknown, model |-> Unknown, size |-> Unknown, mode |-> Unknown]

OutputsInit == pending = NoOutputs /\ committed = NoOutputs

(* bind(). *)
BindOutput(o) ==
    /\ pending[o] = NoOutput
    /\ pending' = [pending EXCEPT ![o] = Blank]
    /\ UNCHANGED committed

(* _set_geometry(), _set_mode() for the current mode, _set_name(); the scale and
   the description an output also has play no part in the choice. *)
Says(o) ==
    \/ \E model \in Models \cup {Unknown}, size \in Sizes \cup {Unknown} :
          pending' = [pending EXCEPT ![o].model = model, ![o].size = size]
    \/ \E mode \in OutputModes : pending' = [pending EXCEPT ![o].mode = mode]
    \/ \E name \in Names : pending' = [pending EXCEPT ![o].name = name]
    \/ UNCHANGED pending

(* Any of these, and _commit_legacy(). *)
Describe(o) ==
    /\ pending[o] # NoOutput
    /\ Says(o)
    /\ committed' = IF o \in LegacyOutputs
                    THEN [committed EXCEPT ![o] = pending'[o]] ELSE committed

(* _commit(), on "done". *)
CommitOutput(o) ==
    /\ pending[o] # NoOutput
    /\ committed' = [committed EXCEPT ![o] = pending[o]]
    /\ UNCHANGED pending

(* remove(): gone from the choice before the listeners hear of it. *)
RemoveOutput(o) ==
    /\ pending[o] # NoOutput
    /\ pending' = [pending EXCEPT ![o] = NoOutput]
    /\ committed' = [committed EXCEPT ![o] = NoOutput]

(* close(). *)
CloseOutputs == pending' = NoOutputs /\ committed' = NoOutputs

Same(a, b) == a # Unknown /\ a = b
NoConflict(a, b) == Unknown \in {a, b} \/ a = b
Only(S) == IF \E o \in S : S = {o} THEN CHOOSE o \in S : TRUE ELSE NoOutput

(* _single_output_compatible(). *)
Compatible(target, output) ==
    \A field \in {"name", "model", "size", "mode"} :
        NoConflict(target[field], output[field])

(* choose_output(): the only output of that name; else of that model and size;
   else of that size and mode; else the only output, if nothing contradicts. *)
ChooseOutput(target, snapshots) ==
    LET known == {o \in OutputIds : snapshots[o] # NoOutput}
        named == {o \in known : Same(target.name, snapshots[o].name)}
        made == {o \in known : /\ Same(target.model, snapshots[o].model)
                               /\ Same(target.size, snapshots[o].size)}
        sized == {o \in known : /\ Same(target.size, snapshots[o].size)
                                /\ Same(target.mode, snapshots[o].mode)}
        sole == {o \in {Only(known)} \cap known : Compatible(target, snapshots[o])}
        picks == <<Only(named), Only(made), Only(sized), Only(sole)>>
        hits == {i \in DOMAIN picks : picks[i] # NoOutput}
    IN  IF hits = {} THEN NoOutput ELSE picks[Min(hits)]
=============================================================================
