------------------------------- MODULE Seats -------------------------------
(***************************************************************************)
(* plugins/wayland_backend/seats.py: the wl_seat globals the compositor    *)
(* announces, and the one every adapter uses.                              *)
(*                                                                         *)
(* Each action is a callback on the owner thread up to the point where it  *)
(* calls its listeners.  They run in the same step: a module that listens  *)
(* conjoins its reaction.                                                  *)
(***************************************************************************)
EXTENDS Integers

CONSTANTS SeatIds,          \* registry names of wl_seat globals
          None

ASSUME SeatsAssumption == SeatIds \subseteq Nat /\ None \notin SeatIds

VARIABLES seats,            \* SeatRegistry._seats
          seat0,            \* those of them that said their name is "seat0"
          selectedSeat      \* SeatRegistry._selected_id

registry == <<seats, seat0, selectedSeat>>

SeatsTypeOK ==
    /\ seats \subseteq SeatIds /\ seat0 \subseteq seats
    /\ selectedSeat \in SeatIds \cup {None}

SeatsInit == seats = {} /\ seat0 = {} /\ selectedSeat = None

First(S) == CHOOSE s \in S : \A t \in S : s <= t

(* choose_seat(): one named seat0 if there is one, and the oldest of those. *)
ChooseSeat(S, preferred) ==
    IF S = {} THEN None
    ELSE IF preferred # {} THEN First(preferred) ELSE First(S)

Publish == selectedSeat' = ChooseSeat(seats', seat0')
Changed == selectedSeat' # selectedSeat

(* bind(). *)
BindSeat(s) ==
    /\ s \in SeatIds \ seats
    /\ seats' = seats \cup {s} /\ seat0' = seat0
    /\ Publish

(* _set_name(). *)
NameSeat(s) ==
    /\ s \in seats
    /\ seat0' \in {seat0 \cup {s}, seat0 \ {s}} /\ seats' = seats
    /\ Publish

(* remove(), whose listeners are told even when nothing changes. *)
RemoveSeat(s) ==
    /\ s \in seats
    /\ seats' = seats \ {s} /\ seat0' = seat0 \ {s}
    /\ Publish

(* _set_capabilities(), and ready(): told without a change. *)
RepeatSeat == seats # {} /\ UNCHANGED <<seats, seat0>> /\ Publish

(* close(). *)
CloseSeats == seats' = {} /\ seat0' = {} /\ selectedSeat' = None
=============================================================================
