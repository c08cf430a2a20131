------------------------------- MODULE Windows -------------------------------
(***************************************************************************)
(* plugins/wayland_backend/windows.py: the toplevels of the compositor and *)
(* the active one, as ForeignToplevels publishes it.  A batch is the title,*)
(* app-ID and state events of a handle with the "done" that commits them;  *)
(* what came before a "done" is seen by nobody.  Title and app ID are one  *)
(* label.                                                                  *)
(***************************************************************************)
CONSTANTS Handles, Labels, NoWindow

VARIABLES manager,          \* _manager is not None
          windows,          \* _windows, with the handle as the ID
          activeWindow      \* _active

toplevels == <<manager, windows, activeWindow>>

Window == [id : Handles, label : Labels, activated : BOOLEAN]
NoWindows == [h \in Handles |-> NoWindow]

ASSUME WindowsAssumption == NoWindow \notin Window \cup Labels \cup (Handles \X Labels)

WindowsTypeOK == /\ manager \in BOOLEAN
                 /\ windows \in [Handles -> Window \cup {NoWindow}]
                 /\ activeWindow \in Window \cup {NoWindow}

WindowsInit == manager = FALSE /\ windows = NoWindows /\ activeWindow = NoWindow

(* bind(). *)
BindWindows == ~manager /\ manager' = TRUE /\ UNCHANGED <<windows, activeWindow>>

(* choose_active_window(): the window that became active, else the current one,
   else any; which of several is left open. *)
Choose(here, preferred) ==
    LET on == {h \in Handles : here[h] # NoWindow /\ here[h].activated}
        current == IF activeWindow = NoWindow THEN {} ELSE {activeWindow.id}
    IN  IF on = {} THEN {NoWindow}
        ELSE {here[h] : h \in IF preferred \cap on # {} THEN preferred
                              ELSE IF current \cap on # {} THEN current ELSE on}

Key(w) == IF w = NoWindow THEN w ELSE <<w.id, w.label>>
Label(w) == IF w = NoWindow THEN w ELSE w.label

(* _select_and_publish(); the listeners are called if the key changed. *)
Select(preferred) == activeWindow' \in Choose(windows', preferred)
IsNews == Key(activeWindow') # Key(activeWindow)

(* _on_done() and the events before it. *)
Batch(h) ==
    /\ manager
    /\ \E label \in Labels, activated \in BOOLEAN :
        LET was == windows[h] # NoWindow /\ windows[h].activated
        IN  /\ windows' = [windows EXCEPT ![h] =
                              [id |-> h, label |-> label, activated |-> activated]]
            /\ Select(IF activated /\ ~was THEN {h} ELSE {})
    /\ UNCHANGED manager

(* _on_closed(). *)
CloseWindow(h) ==
    /\ windows[h] # NoWindow
    /\ windows' = [windows EXCEPT ![h] = NoWindow]
    /\ Select({})
    /\ UNCHANGED manager

(* remove(), close(), _on_manager_finished() and _clear_windows(): the listeners
   are called in any case. *)
WindowsGone == manager' = FALSE /\ windows' = NoWindows /\ activeWindow' = NoWindow
=============================================================================
