--------------------------- MODULE ClipboardProofs ---------------------------
(***************************************************************************)
(* Theorems about Clipboard for any seats, modes, protocol objects and     *)
(* writers.                                                                *)
(***************************************************************************)
EXTENDS Clipboard, FiniteSetTheorems, SequenceTheorems, TLAPS

(* A set of seats has a first one: intervals from zero are well-founded by strict
   inclusion, and the least of them ends in the first seat. *)
LEMMA FirstIsMember ==
    ASSUME NEW S \in SUBSET SeatIds, S # {}
    PROVE  First(S) \in S
<1> DEFINE T == {0..s : s \in S}
<1>1. \A s \in S : s \in Nat
  BY SeatsAssumption
<1>2. T \subseteq FiniteSubsetsOf(Nat) /\ T # {}
  <2>1. ASSUME NEW s \in S PROVE 0..s \in SUBSET Nat /\ IsFiniteSet(0..s)
    <3>1. s \in Int /\ 0 \in Int
      BY <1>1
    <3>2. IsFiniteSet(0..s)
      BY <3>1, FS_Interval
    <3> QED
      BY <3>2
  <2> QED
    BY <2>1 DEF FiniteSubsetsOf
<1>3. PICK I \in T : \A J \in T : ~ (<<J, I>> \in StrictSubsetOrdering(Nat))
  <2> HIDE DEF T
  <2> QED
    BY <1>2, WFMin, FS_StrictSubsetOrderingWellFounded
<1>4. PICK x \in S : I = 0..x
  BY <1>3
<1>5. ASSUME NEW y \in S, ~ (x <= y) PROVE FALSE
  <2>1. 0..y \subseteq 0..x /\ 0..y # 0..x /\ 0..y \in SUBSET Nat /\ 0..x \in SUBSET Nat
    <3>1. x \in 0..x /\ x \notin 0..y
      BY <1>1, <1>5
    <3> QED
      BY <1>1, <1>5, <3>1
  <2>2. <<0..y, 0..x>> \in StrictSubsetOrdering(Nat)
    BY <2>1 DEF StrictSubsetOrdering
  <2> QED
    BY <1>3, <1>4, <2>2
<1> QED
  BY <1>4, <1>5 DEF First

(* The choice is one of the seats, or none. *)
LEMMA ChoiceIsMember ==
    ASSUME NEW S \in SUBSET SeatIds, NEW P \in SUBSET S
    PROVE  ChooseSeat(S, P) \in S \cup {None}
BY FirstIsMember DEF ChooseSeat

-----------------------------------------------------------------------------
(* The effects the actions are made of. *)

(* What a step may do to the selections. *)
LEMMA StateSteps ==
    ASSUME Next
    PROVE  \/ UNCHANGED state
           \/ Retire
           \/ \E m \in Modes, o \in Offers \cup {None} : Select(m, o)
<1> USE DEF clipboard, following, state
<1>1. CASE BindManager
  BY <1>1 DEF BindManager, Refresh, Renew, RetireOnly
<1>2. CASE RemoveManager
  BY <1>2 DEF RemoveManager, RetireOnly
<1>3. CASE ReplaceManager
  BY <1>3 DEF ReplaceManager, Renew
<1>4. CASE Seat
  BY <1>4 DEF Seat, Listen, Refresh, Renew, RetireOnly
<1>5. CASE Dispatch
  BY <1>5 DEF Dispatch, OnOffer, OnSelection, OnFinished, OnCancelled, OnDone, RetireOnly
<1>6. ASSUME NEW w \in Writers, NEW m \in Modes, Write(w, m) \/ WriteRaises(w, m)
      PROVE  UNCHANGED state \/ Select(m, None)
  BY <1>6 DEF Write, WriteRaises, SetSelection, Sets
<1>7. ASSUME NEW w \in Writers, Answered(w) \/ TimesOut(w) \/ Raises(w) PROVE UNCHANGED state
  BY <1>7 DEF Answered, TimesOut, Raises, Leave
<1>8. CASE Connect \/ Stop
  BY <1>8 DEF Connect, Stop
<1>9. CASE Disconnect
  BY <1>9 DEF Disconnect
<1>10. CASE Serve
  BY <1>10 DEF Serve, ServeGet, ServeSet, ServeSync, ServeGone
<1>11. CASE Finish \/ \E m \in Modes : Copy(m)
  BY <1>11 DEF Finish, Copy
<1> QED
  BY <1>1, <1>2, <1>3, <1>4, <1>5, <1>6, <1>7, <1>8, <1>9, <1>10, <1>11 DEF Next

(* A mode without a selection event has no selection. *)
EmptyUntilTold == \A m \in Modes : ~available[m] => selection[m] = None

(* The selections keep their types. *)
LEMMA StateTypeStep ==
    ASSUME StateTypeOK, EmptyUntilTold, [Next]_vars
    PROVE  StateTypeOK' /\ EmptyUntilTold'
<1> USE DEF StateTypeOK, EmptyUntilTold
<1>1. CASE UNCHANGED state
  BY <1>1 DEF state
<1>2. CASE Retire
  BY <1>2 DEF Retire, Nothing
<1>3. ASSUME NEW m \in Modes, NEW o \in Offers \cup {None}, Select(m, o)
      PROVE  StateTypeOK' /\ EmptyUntilTold'
  <2>1. StateTypeOK'
    BY <1>3 DEF Select
  <2>2. ASSUME NEW n \in Modes, ~available'[n] PROVE selection'[n] = None
    BY <1>3, <2>2 DEF Select
  <2> QED
    BY <2>1, <2>2
<1> QED
  BY <1>1, <1>2, <1>3, StateSteps DEF vars, clipboard

(* One step of the news. *)
LEMMA NewsStep ==
    ASSUME StateTypeOK, EmptyUntilTold, [Next]_vars, NEW m \in Modes
    PROVE  /\ revision'[m] >= revision[m]
           /\ selection'[m] # selection[m] \/ (available[m] /\ ~available'[m])
              => revision'[m] > revision[m]
<1> USE DEF StateTypeOK, EmptyUntilTold
<1>0. revision[m] \in Nat
  OBVIOUS
<1>1. CASE UNCHANGED state
  BY <1>0, <1>1 DEF state
<1>2. CASE Retire
  <2>1. CASE available[m]
    BY <1>0, <1>2, <2>1 DEF Retire
  <2>2. CASE ~available[m]
    BY <1>0, <1>2, <2>2 DEF Retire, Nothing
  <2> QED
    BY <2>1, <2>2
<1>3. ASSUME NEW n \in Modes, NEW o \in Offers \cup {None}, Select(n, o)
      PROVE  /\ revision'[m] >= revision[m]
             /\ selection'[m] # selection[m] \/ (available[m] /\ ~available'[m])
                => revision'[m] > revision[m]
  <2>1. CASE m = n
    BY <1>0, <1>3, <2>1 DEF Select
  <2>2. CASE m # n
    BY <1>0, <1>3, <2>2 DEF Select
  <2> QED
    BY <2>1, <2>2
<1> QED
  BY <1>1, <1>2, <1>3, StateSteps DEF vars, clipboard

(* Every revision is news. *)
THEOREM RevisionsAreNews == Spec => EveryChangeIsNews
<1>1. Init => StateTypeOK /\ EmptyUntilTold
  BY DEF Init, StateTypeOK, EmptyUntilTold, Nothing
<1>2. StateTypeOK /\ EmptyUntilTold /\ [Next]_vars => StateTypeOK' /\ EmptyUntilTold'
  BY StateTypeStep
<1>3. StateTypeOK /\ EmptyUntilTold /\ [Next]_vars
      => \A m \in Modes :
           /\ revision'[m] >= revision[m]
           /\ selection'[m] # selection[m] \/ (available[m] /\ ~available'[m])
              => revision'[m] > revision[m]
  BY NewsStep
<1> QED
  BY <1>1, <1>2, <1>3, PTL DEF Spec, EveryChangeIsNews

-----------------------------------------------------------------------------
(* Writers and barriers. *)

(* Of two writers, each waits for its own callback. *)
OwnCallbacks == \A v, w \in Writers : v # w /\ callback[v] = callback[w] => callback[v] = None
PendingWait == \A w \in Writers : future[w] = "pending" => callback[w] \in Callbacks
WaitInv == WaitTypeOK /\ OwnCallbacks /\ PendingWait /\ WaitersHaveBarriers

(* Every step keeps the promise to those who wait. *)
LEMMA WaitStep ==
    ASSUME WaitInv, [Next]_vars
    PROVE  WaitInv'
<1> USE NamesAssumption DEF WaitInv, WaitTypeOK, OwnCallbacks, PendingWait, WaitersHaveBarriers
<1>0. CASE UNCHANGED <<barriers, writers>>
  BY <1>0 DEF writers
<1>1. CASE BindManager \/ RemoveManager \/ ReplaceManager \/ Seat
  BY <1>1, <1>0 DEF BindManager, RemoveManager, ReplaceManager, Seat, Listen
<1>2. CASE Dispatch
  <2>1. ASSUME NEW c \in Callbacks, OnDone(c) PROVE WaitInv'
    BY <2>1 DEF OnDone, FinishBarrier
  <2>2. CASE UNCHANGED <<barriers, writers>>
    BY <2>2, <1>0
  <2> QED
    BY <1>2, <2>1, <2>2 DEF Dispatch, OnOffer, OnSelection, OnFinished, OnCancelled
<1>3. ASSUME NEW w \in Writers, NEW m \in Modes, Write(w, m) PROVE WaitInv'
  <2>1. PICK c \in FreshCallbacks :
          /\ barriers' = barriers \cup {c}
          /\ callback' = [callback EXCEPT ![w] = c]
    BY <1>3 DEF Write, SetSelection, Sets
  <2>2. c \in Callbacks /\ \A v \in Writers : callback[v] # c
    BY <2>1 DEF FreshCallbacks, Range
  <2>3. /\ writer' = [writer EXCEPT ![w] = "waiting"]
        /\ future' = [future EXCEPT ![w] = "pending"]
    BY <1>3 DEF Write
  <2> QED
    BY <2>1, <2>2, <2>3
<1>4. ASSUME NEW w \in Writers, NEW m \in Modes, WriteRaises(w, m) PROVE WaitInv'
  BY <1>4 DEF WriteRaises
<1>5. ASSUME NEW w \in Writers, Answered(w) PROVE WaitInv'
  BY <1>5 DEF Answered, Leave
<1>6. ASSUME NEW w \in Writers, TimesOut(w) PROVE WaitInv'
  BY <1>6 DEF TimesOut
<1>7. ASSUME NEW w \in Writers, Raises(w) PROVE WaitInv'
  <2>1. /\ writer' = [writer EXCEPT ![w] = "idle"]
        /\ future' = [future EXCEPT ![w] = "none"]
        /\ callback' = [callback EXCEPT ![w] = None]
        /\ barriers' \in {barriers, barriers \ {callback[w]}}
    BY <1>7 DEF Raises, Leave
  <2> QED
    BY <2>1
<1>8. CASE Connect \/ Stop
  BY <1>8, <1>0 DEF Connect, Stop
<1>9. CASE Disconnect
  BY <1>9 DEF Disconnect, FailBarriers
<1>10. CASE Serve
  BY <1>10, <1>0 DEF Serve, ServeGet, ServeSet, ServeSync, ServeGone
<1>11. CASE Finish \/ \E m \in Modes : Copy(m)
  BY <1>11, <1>0 DEF Finish, Copy
<1> QED
  BY <1>0, <1>1, <1>2, <1>3, <1>4, <1>5, <1>6, <1>7, <1>8, <1>9, <1>10, <1>11 DEF Next, vars

(* Nobody waits for a barrier that is gone. *)
THEOREM BarriersAreKept == Spec => []WaitersHaveBarriers
<1>1. Init => WaitInv
  BY DEF Init, WaitInv, WaitTypeOK, OwnCallbacks, PendingWait, WaitersHaveBarriers
<1>2. WaitInv /\ [Next]_vars => WaitInv'
  BY WaitStep
<1>3. WaitInv => WaitersHaveBarriers
  BY DEF WaitInv
<1> QED
  BY <1>1, <1>2, <1>3, PTL DEF Spec

-----------------------------------------------------------------------------
(* The device and its seat. *)

Bound ==
    /\ selectedSeat \in seats \cup {None}
    /\ manager => listening /\ up
    /\ ~up => seats = {}
    /\ seat0 \subseteq seats /\ seats \subseteq SeatIds
FollowInv == Bound /\ DeviceFollowsSeat

(* The compositor's own steps change nothing on this side. *)
LEMMA ServeIsRemote ==
    ASSUME Serve
    PROVE  UNCHANGED <<registry, connection, binding, clipboard>>
<1>1. ASSUME NEW d \in Devices, ServeGet(d) PROVE UNCHANGED <<registry, connection, binding, clipboard>>
  BY <1>1 DEF ServeGet
<1>2. ASSUME NEW d \in Devices, ServeGone(d) PROVE UNCHANGED <<registry, connection, binding, clipboard>>
  BY <1>2 DEF ServeGone
<1>3. ASSUME NEW d \in Devices, NEW m \in Modes, NEW s \in Sources \cup {None},
             NEW c \in Callbacks \cup {None}, ServeSet(d, m, s, c)
      PROVE  UNCHANGED <<registry, connection, binding, clipboard>>
  BY <1>3 DEF ServeSet
<1>4. ASSUME NEW c \in Callbacks, ServeSync(c) PROVE UNCHANGED <<registry, connection, binding, clipboard>>
  BY <1>4 DEF ServeSync
<1> QED
  BY <1>1, <1>2, <1>3, <1>4 DEF Serve

(* Renewal leaves the device that is due, whatever was there before. *)
LEMMA RenewFollows ==
    ASSUME Bound', Renew(selectedSeat', manager'), stopping' = stopping
    PROVE  DeviceFollowsSeat'
<1>1. \A d \in FreshDevices : d # None
  BY NamesAssumption DEF FreshDevices
<1>2. \A m \in Modes : ~available'[m]
  BY DEF Renew, Retire
<1>3. CASE manager' /\ selectedSeat' # None /\ ~stopping /\ selectedSeat' # finishedSeat'
  BY <1>1, <1>2, <1>3 DEF Renew, DeviceFollowsSeat, Bound
<1>4. CASE ~(manager' /\ selectedSeat' # None /\ ~stopping /\ selectedSeat' # finishedSeat')
  BY <1>2, <1>4 DEF Renew, DeviceFollowsSeat, Bound
<1> QED
  BY <1>3, <1>4

(* So does retirement where no device is due. *)
LEMMA RetireFollows ==
    ASSUME RetireOnly, ~manager' \/ stopping' \/ selectedSeat' \in {None, finishedSeat'}
    PROVE  DeviceFollowsSeat'
BY DEF RetireOnly, Retire, DeviceFollowsSeat

(* _refresh_device() after a change of the seats or the manager. *)
LEMMA RefreshFollows ==
    ASSUME DeviceFollowsSeat, Bound', Refresh(selectedSeat', manager'),
           device # None => manager' /\ (deviceSeat = selectedSeat' => selectedSeat' \in seats')
    PROVE  DeviceFollowsSeat'
<1>1. CASE Follows(selectedSeat')
  BY <1>1 DEF Refresh, Follows, DeviceFollowsSeat, clipboard, following, state
<1>2. CASE ~Follows(selectedSeat')
  <2>1. CASE Renew(selectedSeat', manager') /\ UNCHANGED stopping
    BY <2>1, RenewFollows
  <2>2. CASE RetireOnly /\ stopping' = TRUE
    BY <2>2, RetireFollows
  <2> QED
    BY <1>2, <2>1, <2>2 DEF Refresh
<1> QED
  BY <1>1, <1>2

(* The seats' own steps keep the choice among them. *)
LEMMA BoundStep ==
    ASSUME Bound, [Next]_vars
    PROVE  Bound'
<1> USE DEF Bound, registry, connection, binding
<1>0. CASE UNCHANGED <<registry, up, manager, listening>>
  BY <1>0
<1>1. CASE BindManager \/ RemoveManager \/ ReplaceManager
  BY <1>1 DEF BindManager, RemoveManager, ReplaceManager
<1>2. CASE Seat
  <2>1. UNCHANGED <<binding, up>> /\ up
    BY <1>2 DEF Seat, Listen
  <2>2. seats' \subseteq SeatIds /\ seat0' \subseteq seats' /\ Publish
    BY <1>2 DEF Seat, BindSeat, NameSeat, RemoveSeat, RepeatSeat
  <2>3. selectedSeat' \in seats' \cup {None}
    BY <2>2, ChoiceIsMember DEF Publish
  <2> QED
    BY <2>1, <2>2, <2>3
<1>3. CASE Dispatch
  BY <1>3 DEF Dispatch, OnOffer, OnSelection, OnFinished, OnCancelled, OnDone
<1>4. ASSUME NEW w \in Writers, NEW m \in Modes, Write(w, m) \/ WriteRaises(w, m) PROVE Bound'
  BY <1>4 DEF Write, WriteRaises
<1>5. ASSUME NEW w \in Writers, Answered(w) \/ TimesOut(w) \/ Raises(w) PROVE Bound'
  BY <1>5 DEF Answered, TimesOut, Raises, Leave
<1>6. CASE Connect \/ Stop
  BY <1>6 DEF Connect, Stop
<1>7. CASE Disconnect
  BY <1>7 DEF Disconnect, CloseSeats
<1>8. CASE Serve
  <2>1. UNCHANGED <<registry, connection, binding>>
    BY <1>8, ServeIsRemote
  <2> QED
    BY <2>1
<1>9. CASE Finish \/ \E m \in Modes : Copy(m)
  BY <1>9 DEF Finish, Copy
<1> QED
  BY <1>0, <1>1, <1>2, <1>3, <1>4, <1>5, <1>6, <1>7, <1>8, <1>9 DEF Next, vars

(* A step that leaves device, seats and manager alone. *)
LEMMA SteadyFollows ==
    ASSUME DeviceFollowsSeat, UNCHANGED <<registry, manager, finishedSeat, following>>,
           stopping => stopping', device = None => available' = available
    PROVE  DeviceFollowsSeat'
BY DEF DeviceFollowsSeat, registry, following

(* Selections arrive only where there is a device. *)
LEMMA SelectNeedsDevice ==
    ASSUME NEW d \in Devices, NEW m \in Modes, NEW o \in Offers \cup {None},
           NEW c \in Callbacks \cup {None}, OnSelection(d, m, o, c)
    PROVE  /\ UNCHANGED <<registry, connection, binding, following>>
           /\ device = None => available' = available
BY NamesAssumption DEF OnSelection, Concerns, state

(* Every step leaves the device that is due. *)
LEMMA FollowStep ==
    ASSUME FollowInv, [Next]_vars
    PROVE  DeviceFollowsSeat'
<1> USE DEF FollowInv
<1>b. Bound'
  BY BoundStep
<1>0. CASE /\ UNCHANGED <<registry, manager, finishedSeat, following>>
           /\ (stopping => stopping') /\ (device = None => available' = available)
  BY <1>0, SteadyFollows
<1>1. CASE BindManager
  <2>1. selectedSeat' = selectedSeat /\ seats' = seats /\ manager' /\ device = None
    BY <1>1 DEF BindManager, registry, DeviceFollowsSeat
  <2> QED
    BY <1>1, <1>b, <2>1, RefreshFollows DEF BindManager
<1>2. CASE RemoveManager
  BY <1>2, RetireFollows DEF RemoveManager
<1>3. CASE ReplaceManager
  <2>1. selectedSeat' = selectedSeat /\ manager' = TRUE /\ stopping' = stopping
    BY <1>3 DEF ReplaceManager, registry, connection
  <2> QED
    BY <1>3, <1>b, <2>1, RenewFollows DEF ReplaceManager
<1>4. CASE Seat
  <2>1. UNCHANGED binding /\ manager' = manager
    BY <1>4 DEF Seat, Listen, binding
  <2>2. selectedSeat' \in seats' \cup {None}
    BY <1>b DEF Bound
  <2>3. CASE Refresh(selectedSeat', manager)
    <3>1. device # None => manager' /\ deviceSeat \in seats
      BY <2>1 DEF DeviceFollowsSeat
    <3>2. deviceSeat = selectedSeat' /\ device # None => selectedSeat' \in seats'
      BY <2>2, <3>1, SeatsAssumption DEF Bound
    <3> QED
      BY <1>b, <2>1, <2>3, <3>1, <3>2, RefreshFollows
  <2>4. CASE UNCHANGED <<clipboard, stopping>> /\ (listening => ~Changed /\ seats \subseteq seats')
    <3>1. UNCHANGED <<following, available, finishedSeat>>
      BY <2>1, <2>4 DEF clipboard, state, binding
    <3>2. CASE listening
      BY <2>1, <2>4, <3>1, <3>2 DEF DeviceFollowsSeat, Changed, following
    <3>3. CASE ~listening
      BY <2>1, <2>4, <3>1, <3>3 DEF DeviceFollowsSeat, Bound, following
    <3> QED
      BY <3>2, <3>3
  <2> QED
    BY <1>4, <2>3, <2>4 DEF Seat, Listen, BindSeat, NameSeat
<1>5. CASE Dispatch
  <2>1. ASSUME NEW d \in Devices, NEW o \in Offers, OnOffer(d, o) PROVE DeviceFollowsSeat'
    BY <2>1, <1>0 DEF OnOffer, state, binding, connection
  <2>2. ASSUME NEW d \in Devices, NEW m \in Modes, NEW o \in Offers \cup {None},
               NEW c \in Callbacks \cup {None}, OnSelection(d, m, o, c)
        PROVE  DeviceFollowsSeat'
    BY <2>2, <1>0, SelectNeedsDevice DEF binding, connection
  <2>3. ASSUME NEW d \in Devices, OnFinished(d) PROVE DeviceFollowsSeat'
    <3>1. CASE d = device
      <4>1. selectedSeat' = selectedSeat /\ finishedSeat' = deviceSeat /\ RetireOnly
        BY <2>3, <3>1 DEF OnFinished, registry
      <4>2. deviceSeat = selectedSeat
        BY <3>1, NamesAssumption DEF DeviceFollowsSeat
      <4> QED
        BY <4>1, <4>2, RetireFollows
    <3>2. CASE d # device
      BY <2>3, <3>2, <1>0 DEF OnFinished, clipboard, state, connection
    <3> QED
      BY <3>1, <3>2
  <2>4. ASSUME NEW s \in Sources, OnCancelled(s) PROVE DeviceFollowsSeat'
    BY <2>4, <1>0 DEF OnCancelled, state, binding, connection
  <2>5. ASSUME NEW c \in Callbacks, OnDone(c) PROVE DeviceFollowsSeat'
    BY <2>5, <1>0 DEF OnDone, clipboard, state, binding, connection
  <2> QED
    BY <1>5, <2>1, <2>2, <2>3, <2>4, <2>5 DEF Dispatch
<1>6. ASSUME NEW w \in Writers, NEW m \in Modes, Write(w, m) \/ WriteRaises(w, m)
      PROVE  DeviceFollowsSeat'
  <2>1. device # None /\ UNCHANGED <<registry, connection, binding, following>>
    BY <1>6 DEF Write, WriteRaises, Usable
  <2> QED
    BY <2>1, <1>0 DEF binding, connection
<1>7. ASSUME NEW w \in Writers, Answered(w) \/ TimesOut(w) \/ Raises(w) PROVE DeviceFollowsSeat'
  BY <1>7, <1>0 DEF Answered, TimesOut, Raises, Leave, clipboard, state, binding, connection
<1>8. CASE Stop
  BY <1>8, <1>0 DEF Stop, clipboard, state, binding
<1>9. CASE Connect
  <2>1. ~manager /\ UNCHANGED <<registry, binding, clipboard>>
    BY <1>9 DEF Connect, Bound
  <2> QED
    BY <2>1 DEF DeviceFollowsSeat, registry, binding, clipboard, following, state
<1>10. CASE Disconnect
  BY <1>10 DEF Disconnect, Retire, DeviceFollowsSeat
<1>11. CASE Serve
  BY <1>11, <1>0, ServeIsRemote DEF clipboard, state, binding, connection
<1>12. CASE Finish \/ \E m \in Modes : Copy(m)
  BY <1>12, <1>0 DEF Finish, Copy, clipboard, state, binding, connection
<1>13. CASE UNCHANGED vars
  BY <1>13, <1>0 DEF vars, clipboard, state, binding, connection
<1> QED
  BY <1>1, <1>2, <1>3, <1>4, <1>5, <1>6, <1>7, <1>8, <1>9, <1>10, <1>11, <1>12, <1>13 DEF Next

(* The device is always the one that is due. *)
THEOREM DeviceIsDue == Spec => []DeviceFollowsSeat
<1>1. Init => FollowInv
  BY DEF Init, SeatsInit, FollowInv, Bound, DeviceFollowsSeat
<1>2. FollowInv /\ [Next]_vars => FollowInv'
  BY BoundStep, FollowStep DEF FollowInv
<1>3. FollowInv => DeviceFollowsSeat
  BY DEF FollowInv
<1> QED
  BY <1>1, <1>2, <1>3, PTL DEF Spec

-----------------------------------------------------------------------------
(* Types. *)

LinkInv == LinkTypeOK /\ ProxyTypeOK /\ SeatsTypeOK

(* The reactions to seats and managers keep the types. *)
LEMMA ReactionTypes ==
    ASSUME LinkInv, SeatsTypeOK',
           UNCHANGED <<up, compositor>>, manager' \in BOOLEAN, listening' \in BOOLEAN,
           finishedSeat' \in SeatIds \cup {None},
           \/ UNCHANGED <<clipboard, stopping>>
           \/ /\ Retire /\ stopping' \in BOOLEAN
              /\ device' \in Devices \cup {None} /\ deviceSeat' \in SeatIds \cup {None}
    PROVE  LinkInv'
BY DEF LinkInv, LinkTypeOK, ProxyTypeOK, Retire, clipboard, following, proxies, compositor

(* Every step keeps these types. *)
LEMMA LinkStep ==
    ASSUME LinkInv, Bound, [Next]_vars
    PROVE  LinkInv'
<1>b. SeatsTypeOK'
  <2>1. Bound'
    BY BoundStep
  <2> QED
    BY <2>1 DEF SeatsTypeOK, Bound
<1>f. FreshDevices \subseteq Devices /\ FreshSources \subseteq Sources
  BY DEF FreshDevices, FreshSources
<1>l. LinkTypeOK /\ ProxyTypeOK /\ SeatsTypeOK
  BY DEF LinkInv
<1>1. CASE BindManager
  BY <1>b, <1>f, <1>l, <1>1, ReactionTypes
     DEF BindManager, Refresh, Renew, RetireOnly, LinkTypeOK, SeatsTypeOK
<1>2. CASE RemoveManager \/ ReplaceManager
  BY <1>b, <1>f, <1>l, <1>2, ReactionTypes
     DEF RemoveManager, ReplaceManager, Renew, RetireOnly, LinkTypeOK, SeatsTypeOK, connection
<1>3. CASE Seat
  <2>1. UNCHANGED <<binding, up, compositor>>
    BY <1>3 DEF Seat, Listen
  <2>2. \/ UNCHANGED <<clipboard, stopping>>
        \/ Refresh(selectedSeat', manager)
    BY <1>3 DEF Seat, Listen
  <2>3. selectedSeat' \in SeatIds \cup {None}
    BY <1>b DEF SeatsTypeOK
  <2> QED
    BY <1>b, <1>f, <1>l, <2>1, <2>2, <2>3, ReactionTypes
       DEF Refresh, Renew, RetireOnly, LinkTypeOK, binding
<1>4. CASE Dispatch
  <2>1. ASSUME NEW d \in Devices, OnFinished(d) PROVE LinkInv'
    BY <1>b, <1>l, <2>1, ReactionTypes DEF OnFinished, RetireOnly, LinkTypeOK, connection
  <2>2. CASE /\ UNCHANGED <<connection, binding, following, compositor>>
             /\ offers' \subseteq Offers /\ sources' \subseteq sources
    BY <1>b, <1>l, <2>2 DEF LinkInv, LinkTypeOK, ProxyTypeOK, connection, binding, following, compositor
  <2>3. ASSUME NEW d \in Devices, NEW m \in Modes, NEW o \in Offers \cup {None},
               NEW c \in Callbacks \cup {None}, OnSelection(d, m, o, c)
        PROVE  offers' \subseteq Offers
    BY <1>l, <2>3 DEF OnSelection, Select, ProxyTypeOK
  <2>4. ASSUME NEW d \in Devices, NEW o \in Offers, OnOffer(d, o) PROVE offers' \subseteq Offers
    BY <1>l, <2>4 DEF OnOffer, ProxyTypeOK
  <2> QED
    BY <1>4, <1>l, <2>1, <2>2, <2>3, <2>4
       DEF Dispatch, OnOffer, OnSelection, OnCancelled, OnDone, ProxyTypeOK, clipboard, proxies
<1>5. ASSUME NEW w \in Writers, NEW m \in Modes, Write(w, m) \/ WriteRaises(w, m) PROVE LinkInv'
  <2>1. sources' \subseteq Sources /\ offers' \subseteq Offers
    BY <1>f, <1>l, <1>5 DEF Write, WriteRaises, SetSelection, Sets, ReleaseSource, Select, ProxyTypeOK
  <2>2. UNCHANGED <<connection, binding, following, compositor>>
    BY <1>5 DEF Write, WriteRaises
  <2> QED
    BY <1>b, <1>l, <2>1, <2>2
       DEF LinkInv, LinkTypeOK, ProxyTypeOK, connection, binding, following, compositor
<1>6. CASE /\ UNCHANGED <<binding, clipboard, compositor>>
           /\ up' \in BOOLEAN /\ stopping' \in BOOLEAN
  BY <1>b, <1>l, <1>6
     DEF LinkInv, LinkTypeOK, ProxyTypeOK, binding, clipboard, following, proxies, compositor
<1>7. ASSUME NEW w \in Writers, Answered(w) \/ TimesOut(w) \/ Raises(w) PROVE LinkInv'
  BY <1>6, <1>7, <1>l DEF Answered, TimesOut, Raises, Leave, connection, LinkTypeOK
<1>8. CASE Connect \/ Stop
  BY <1>6, <1>8, <1>l DEF Connect, Stop, LinkTypeOK
<1>9. CASE Disconnect
  BY <1>b, <1>l, <1>9 DEF Disconnect, Retire, Nothing, LinkInv, LinkTypeOK, ProxyTypeOK
<1>10. CASE Serve \/ Finish \/ \E m \in Modes : Copy(m)
  <2>1. UNCHANGED <<connection, binding, clipboard>>
    BY <1>10, ServeIsRemote DEF Finish, Copy
  <2>2. theirDevice' \in Devices \cup {None} /\ theirSelection' \in [Modes -> Sources \cup {Other, None}]
    <3>1. CASE Serve
      BY <1>l, <3>1 DEF Serve, ServeGet, ServeSet, ServeSync, ServeGone, LinkTypeOK, ProxyTypeOK, compositor
    <3>2. CASE Finish
      BY <1>l, <3>2 DEF Finish, LinkTypeOK, ProxyTypeOK
    <3>3. ASSUME NEW m \in Modes, Copy(m)
          PROVE  theirDevice' \in Devices \cup {None} /\ theirSelection' \in [Modes -> Sources \cup {Other, None}]
      BY <1>l, <3>3 DEF Copy, LinkTypeOK, ProxyTypeOK
    <3> QED
      BY <1>10, <3>1, <3>2, <3>3
  <2> QED
    BY <1>b, <1>l, <2>1, <2>2
       DEF LinkInv, LinkTypeOK, ProxyTypeOK, connection, binding, clipboard, following, proxies
<1>11. CASE UNCHANGED vars
  BY <1>6, <1>11, <1>l DEF vars, connection, LinkTypeOK
<1> QED
  BY <1>1, <1>2, <1>3, <1>4, <1>5, <1>7, <1>8, <1>9, <1>10, <1>11 DEF Next

(* Every variable keeps its type. *)
THEOREM ClipboardTypeCorrect == Spec => []TypeOK
<1> DEFINE I == Bound /\ LinkInv /\ StateTypeOK /\ EmptyUntilTold /\ WaitInv
<1>1. Init => I
  <2>1. Init => Bound /\ SeatsTypeOK
    BY DEF Init, SeatsInit, Bound, SeatsTypeOK
  <2>2. Init => LinkTypeOK /\ ProxyTypeOK
    BY DEF Init, LinkTypeOK, ProxyTypeOK, Nothing
  <2>3. Init => StateTypeOK /\ EmptyUntilTold
    BY DEF Init, StateTypeOK, EmptyUntilTold, Nothing
  <2>4. Init => WaitInv
    BY DEF Init, WaitInv, WaitTypeOK, OwnCallbacks, PendingWait, WaitersHaveBarriers
  <2> QED
    BY <2>1, <2>2, <2>3, <2>4 DEF LinkInv
<1>2. I /\ [Next]_vars => I'
  BY BoundStep, LinkStep, StateTypeStep, WaitStep
<1>3. I => TypeOK
  BY DEF LinkInv, WaitInv, TypeOK
<1> QED
  BY <1>1, <1>2, <1>3, PTL DEF Spec

-----------------------------------------------------------------------------
(* Messages. *)

Request ==
    [op : {"get", "gone"}, dev : Devices]
        \cup [op : {"set"}, dev : Devices, mode : Modes, item : Sources \cup {None}, by : Callbacks \cup {None}]
        \cup [op : {"sync"}, by : Callbacks]
Event ==
    [op : {"offer"}, dev : Devices, item : Offers]
        \cup [op : {"selection"}, dev : Devices, mode : Modes, item : Offers \cup {None}, by : Callbacks \cup {None}]
        \cup [op : {"cancelled"}, item : Sources] \cup [op : {"done"}, by : Callbacks]
        \cup [op : {"finished"}, dev : Devices]

WireTypeOK == requests \in Seq(Request) /\ events \in Seq(Event)

(* What the constructors make. *)
LEMMA RequestsMade ==
    /\ \A d \in Devices : Get(d) \in Request /\ Gone(d) \in Request
    /\ \A d \in Devices, m \in Modes, s \in Sources \cup {None}, c \in Callbacks \cup {None} :
          Set(d, m, s, c) \in Request
    /\ \A c \in Callbacks : Sync(c) \in Request
BY DEF Request, Get, Gone, Set, Sync

(* The events the compositor makes are events. *)
LEMMA EventsMade ==
    /\ \A d \in Devices, o \in Offers : Offered(d, o) \in Event
    /\ \A d \in Devices, m \in Modes, o \in Offers \cup {None}, c \in Callbacks \cup {None} :
          Selected(d, m, o, c) \in Event
    /\ \A s \in Sources : Cancelled(s) \in Event
    /\ \A c \in Callbacks : Done(c) \in Event
    /\ \A d \in Devices : Finished(d) \in Event
BY DEF Event, Offered, Selected, Cancelled, Done, Finished

(* News of one mode, and of all of them. *)
LEMMA AnnounceMade ==
    ASSUME NEW d \in Devices, NEW m \in Modes, NEW o \in Offers \cup {None}, NEW c \in Callbacks \cup {None}
    PROVE  Announce(d, m, o, c) \in Seq(Event)
<1>1. CASE o = None
  <2>1. Selected(d, m, None, c) \in Event
    BY EventsMade
  <2> QED
    BY <1>1, <2>1 DEF Announce
<1>2. CASE o # None
  <2>1. Selected(d, m, o, c) \in Event /\ Offered(d, o) \in Event
    BY <1>2, EventsMade
  <2> QED
    BY <1>2, <2>1 DEF Announce
<1> QED
  BY <1>1, <1>2

(* What a new device learns of a mode is a sequence of events. *)
LEMMA PresentMade ==
    ASSUME NEW d \in Devices, NEW m, NEW given \in [Modes -> Offers \cup {None}]
    PROVE  Present(d, m, given) \in Seq(Event)
<1>1. CASE m \in Modes
  <2>1. given[m] \in Offers \cup {None} /\ None \in Callbacks \cup {None}
    BY <1>1
  <2> QED
    BY <1>1, <2>1, AnnounceMade DEF Present
<1>2. CASE m \notin Modes
  BY <1>2 DEF Present
<1> QED
  BY <1>1, <1>2

(* So is what a source that is replaced is told. *)
LEMMA DisplacedMade ==
    ASSUME NEW m \in Modes
    PROVE  Displaced(m) \in Seq(Event)
<1>1. CASE theirSelection[m] \in Sources
  <2>1. Cancelled(theirSelection[m]) \in Event
    BY <1>1, EventsMade
  <2> QED
    BY <1>1, <2>1 DEF Displaced
<1>2. CASE theirSelection[m] \notin Sources
  BY <1>2 DEF Displaced
<1> QED
  BY <1>1, <1>2

-----------------------------------------------------------------------------
(* What a step does to the wire and to the objects on both sides of it. *)

Still == UNCHANGED <<device, selection, proxies, wire, compositor>>

(* A device goes, and another may follow. *)
Leaves ==
    /\ Retire /\ UNCHANGED <<events, compositor>>
    /\ \/ device' = None /\ requests' = Farewell
       \/ \E d \in FreshDevices : device' = d /\ requests' = Append(Farewell, Get(d))

(* A request whose writer is told of an error that came after it. *)
Sends(m, s) ==
    /\ device # None /\ Sets(m, s)
    /\ requests' = Append(requests, Set(device, m, s, None))
    /\ UNCHANGED <<device, events, compositor>>

(* _refresh_device() leaves the device, or lets it go. *)
LEMMA RefreshLeaves ==
    ASSUME NEW seat, NEW managed, Refresh(seat, managed), UNCHANGED <<events, compositor>>
    PROVE  Still \/ Leaves
BY DEF Refresh, Renew, RetireOnly, Still, Leaves, clipboard, following, state, proxies, wire

(* Every step is one of these. *)
LEMMA Steps ==
    ASSUME [Next]_vars
    PROVE  \/ Still \/ Leaves \/ Disconnect \/ Finish
           \/ \E d \in Devices, o \in Offers : OnOffer(d, o)
           \/ \E d \in Devices, m \in Modes, o \in Offers \cup {None}, c \in Callbacks \cup {None} :
                 OnSelection(d, m, o, c)
           \/ \E d \in Devices : d = device /\ OnFinished(d)
           \/ \E d \in Devices : d # device /\ OnFinished(d)
           \/ \E s \in Sources : OnCancelled(s)
           \/ \E c \in Callbacks : OnDone(c)
           \/ \E w \in Writers, m \in Modes : Write(w, m)
           \/ \E m \in Modes, s \in FreshSources \cup {None} : Sends(m, s)
           \/ \E d \in Devices : ServeGet(d)
           \/ \E d \in Devices : ServeGone(d)
           \/ \E d \in Devices, m \in Modes, s \in Sources \cup {None}, c \in Callbacks \cup {None} :
                 ServeSet(d, m, s, c)
           \/ \E c \in Callbacks : ServeSync(c)
           \/ \E m \in Modes : Copy(m)
<1>0. CASE UNCHANGED vars
  BY <1>0 DEF vars, clipboard, following, state, Still
<1>1. CASE BindManager
  BY <1>1, RefreshLeaves DEF BindManager
<1>2. CASE RemoveManager
  BY <1>2 DEF RemoveManager, RetireOnly, Leaves
<1>3. CASE ReplaceManager
  BY <1>3 DEF ReplaceManager, Renew, Leaves
<1>4. CASE Seat
  <2>1. UNCHANGED <<events, compositor>>
    BY <1>4 DEF Seat, Listen
  <2>2. CASE Refresh(selectedSeat', manager)
    BY <2>1, <2>2, RefreshLeaves
  <2>3. CASE UNCHANGED <<clipboard, requests>>
    BY <2>1, <2>3 DEF Still, clipboard, following, state, wire
  <2> QED
    BY <1>4, <2>2, <2>3 DEF Seat, Listen
<1>5. CASE Dispatch
  BY <1>5 DEF Dispatch
<1>6. ASSUME NEW w \in Writers, NEW m \in Modes, WriteRaises(w, m)
      PROVE  Still \/ \E s \in FreshSources \cup {None} : Sends(m, s)
  <2>1. device # None /\ UNCHANGED <<following, events, compositor>>
    BY <1>6 DEF WriteRaises, Usable
  <2>2. \/ ReleaseSource /\ UNCHANGED <<state, offers, requests>>
        \/ \E s \in FreshSources \cup {None} :
              Sets(m, s) /\ requests' = Append(requests, Set(device, m, s, None))
    BY <1>6 DEF WriteRaises
  <2>3. CASE ReleaseSource /\ UNCHANGED <<state, offers, requests>>
    BY <2>1, <2>3 DEF ReleaseSource, Still, following, state, proxies, wire
  <2>4. CASE \E s \in FreshSources \cup {None} :
               Sets(m, s) /\ requests' = Append(requests, Set(device, m, s, None))
    BY <2>1, <2>4 DEF Sends, following
  <2> QED
    BY <2>2, <2>3, <2>4
<1>7. ASSUME NEW w \in Writers, Answered(w) \/ TimesOut(w) \/ Raises(w) PROVE Still
  BY <1>7 DEF Answered, TimesOut, Raises, Leave, Still, clipboard, following, state
<1>8. CASE Connect \/ Stop
  BY <1>8 DEF Connect, Stop, Still, clipboard, following, state
<1>9. CASE Serve
  BY <1>9 DEF Serve
<1> QED
  BY <1>0, <1>1, <1>2, <1>3, <1>4, <1>5, <1>6, <1>7, <1>8, <1>9 DEF Next

(* The requests that a retirement adds. *)
LEMMA FarewellMade ==
    ASSUME LinkTypeOK, requests \in Seq(Request)
    PROVE  Farewell \in Seq(Request)
<1>1. CASE device = None
  BY <1>1 DEF Farewell
<1>2. CASE device # None
  <2>1. Gone(device) \in Request
    BY <1>2, RequestsMade DEF LinkTypeOK
  <2> QED
    BY <1>2, <2>1 DEF Farewell
<1> QED
  BY <1>1, <1>2

(* The types of what the compositor is given to say. *)
LEMMA FreshTypes ==
    /\ FreshDevices \subseteq Devices /\ FreshOffers \subseteq Offers
    /\ FreshSources \subseteq Sources /\ FreshCallbacks \subseteq Callbacks
BY DEF FreshDevices, FreshOffers, FreshSources, FreshCallbacks

(* What is on the wire keeps its type. *)
LEMMA WireTypeStep ==
    ASSUME WireTypeOK, LinkTypeOK, [Next]_vars
    PROVE  WireTypeOK'
<1> USE DEF WireTypeOK
<1>1. CASE Still
  BY <1>1 DEF Still, wire
<1>2. CASE Leaves
  <2>1. CASE device' = None /\ requests' = Farewell
    BY <1>2, <2>1, FarewellMade DEF Leaves
  <2>2. ASSUME NEW d \in FreshDevices, requests' = Append(Farewell, Get(d)) PROVE WireTypeOK'
    <3>1. Get(d) \in Request /\ Farewell \in Seq(Request)
      BY FreshTypes, RequestsMade, FarewellMade
    <3> QED
      BY <1>2, <2>2, <3>1 DEF Leaves
  <2> QED
    BY <1>2, <2>1, <2>2 DEF Leaves
<1>3. CASE Disconnect
  BY <1>3 DEF Disconnect
<1>4. CASE Finish
  <2>1. Finished(theirDevice) \in Event
    BY <1>4, EventsMade DEF Finish, LinkTypeOK
  <2> QED
    BY <1>4, <2>1 DEF Finish
<1>5. ASSUME NEW d \in Devices, NEW o \in Offers, OnOffer(d, o) PROVE WireTypeOK'
  BY <1>5 DEF OnOffer, Receive
<1>6. ASSUME NEW d \in Devices, NEW m \in Modes, NEW o \in Offers \cup {None},
             NEW c \in Callbacks \cup {None}, OnSelection(d, m, o, c)
      PROVE  WireTypeOK'
  BY <1>6 DEF OnSelection, Receive
<1>7. ASSUME NEW d \in Devices, OnFinished(d) PROVE WireTypeOK'
  BY <1>7, FarewellMade DEF OnFinished, Receive, RetireOnly
<1>8. ASSUME NEW s \in Sources, OnCancelled(s) PROVE WireTypeOK'
  BY <1>8 DEF OnCancelled, Receive
<1>9. ASSUME NEW c \in Callbacks, OnDone(c) PROVE WireTypeOK'
  BY <1>9 DEF OnDone, Receive
<1>10. ASSUME NEW w \in Writers, NEW m \in Modes, Write(w, m) PROVE WireTypeOK'
  <2>1. PICK s \in FreshSources \cup {None}, c \in FreshCallbacks : SetSelection(m, s, c)
    BY <1>10 DEF Write
  <2>2. Set(device, m, s, c) \in Request /\ Sync(c) \in Request
    BY <1>10, <2>1, RequestsMade, FreshTypes DEF Write, Usable, LinkTypeOK
  <2> QED
    BY <1>10, <2>1, <2>2 DEF Write, SetSelection, Sets
<1>11. ASSUME NEW m \in Modes, NEW s \in FreshSources \cup {None}, Sends(m, s) PROVE WireTypeOK'
  <2>1. Set(device, m, s, None) \in Request
    BY <1>11, RequestsMade, FreshTypes DEF Sends, LinkTypeOK
  <2> QED
    BY <1>11, <2>1 DEF Sends
<1>12. ASSUME NEW d \in Devices, ServeGet(d) PROVE WireTypeOK'
  <2>1. PICK given \in [Modes -> FreshOffers \cup {None}] :
          events' = events \o Present(d, "main", given) \o Present(d, "select", given)
    BY <1>12 DEF ServeGet
  <2>2. given \in [Modes -> Offers \cup {None}]
    BY FreshTypes
  <2>3. Present(d, "main", given) \in Seq(Event) /\ Present(d, "select", given) \in Seq(Event)
    BY <2>2, PresentMade
  <2>4. requests' \in Seq(Request)
    BY <1>12 DEF ServeGet, Serves
  <2>5. events' \in Seq(Event)
    BY <2>1, <2>3
  <2> QED
    BY <2>4, <2>5
<1>13. ASSUME NEW d \in Devices, ServeGone(d) PROVE WireTypeOK'
  BY <1>13 DEF ServeGone, Serves
<1>14. ASSUME NEW d \in Devices, NEW m \in Modes, NEW s \in Sources \cup {None},
              NEW c \in Callbacks \cup {None}, ServeSet(d, m, s, c)
       PROVE  WireTypeOK'
  <2>1. requests' \in Seq(Request)
    BY <1>14 DEF ServeSet, Serves
  <2>2. Displaced(m) \in Seq(Event) /\ Announce(d, m, None, c) \in Seq(Event)
    BY DisplacedMade, AnnounceMade
  <2>3. CASE UNCHANGED events
    BY <2>1, <2>3
  <2>4. ASSUME NEW echo, events' = events \o Displaced(m) \o (IF echo THEN Announce(d, m, None, c) ELSE <<>>)
        PROVE  WireTypeOK'
    BY <2>1, <2>2, <2>4
  <2>5. ASSUME NEW o \in FreshOffers, events' = events \o Displaced(m) \o Announce(d, m, o, c)
        PROVE  WireTypeOK'
    <3>1. o \in Offers
      BY FreshTypes
    <3>2. Announce(d, m, o, c) \in Seq(Event)
      BY <3>1, AnnounceMade
    <3> QED
      BY <2>1, <2>2, <2>5, <3>2
  <2> QED
    BY <1>14, <2>3, <2>4, <2>5 DEF ServeSet
<1>15. ASSUME NEW c \in Callbacks, ServeSync(c) PROVE WireTypeOK'
  <2>1. Done(c) \in Event
    BY EventsMade
  <2> QED
    BY <1>15, <2>1 DEF ServeSync, Serves
<1>16. ASSUME NEW m \in Modes, Copy(m) PROVE WireTypeOK'
  <2>1. PICK o \in FreshOffers \cup {None} : events' = events \o Displaced(m) \o Announce(theirDevice, m, o, None)
    BY <1>16 DEF Copy
  <2>2. theirDevice \in Devices /\ o \in Offers \cup {None} /\ None \in Callbacks \cup {None}
    BY <1>16, FreshTypes DEF Copy, LinkTypeOK
  <2>3. Displaced(m) \in Seq(Event) /\ Announce(theirDevice, m, o, None) \in Seq(Event)
    BY <2>2, DisplacedMade, AnnounceMade
  <2> QED
    BY <1>16, <2>1, <2>3 DEF Copy
<1> QED
  BY <1>1, <1>2, <1>3, <1>4, <1>5, <1>6, <1>7, <1>8, <1>9, <1>10, <1>11, <1>12, <1>13, <1>14, <1>15, <1>16, Steps

-----------------------------------------------------------------------------
(* Who caused what. *)

By(e, c) == "by" \in DOMAIN e /\ e.by = c
Closes(e, c) == e = Sync(c) \/ e = Done(c)

(* Nothing in a queue is by c; nothing closes c; nothing by c comes after what
   closes c. *)
Free(q, c) == \A i \in DOMAIN q : ~By(q[i], c)
Open(q, c) == \A i \in DOMAIN q : ~Closes(q[i], c)
Ends(q) == \A c \in Callbacks : \A i, j \in DOMAIN q : i < j /\ Closes(q[i], c) => ~By(q[j], c)

(* Which messages name a callback. *)
LEMMA ByWhom ==
    ASSUME NEW c \in Callbacks
    PROVE  /\ \A d : ~By(Get(d), c) /\ ~By(Gone(d), c) /\ ~By(Finished(d), c)
           /\ \A d, o : ~By(Offered(d, o), c)
           /\ \A s : ~By(Cancelled(s), c)
           /\ \A d, m, s, k : By(Set(d, m, s, k), c) <=> k = c
           /\ \A d, m, o, k : By(Selected(d, m, o, k), c) <=> k = c
           /\ \A k : By(Sync(k), c) <=> k = c
           /\ \A k : By(Done(k), c) <=> k = c
<1> USE DEF By
<1>1. \A d : ~By(Get(d), c) /\ ~By(Gone(d), c) /\ ~By(Finished(d), c)
  BY DEF Get, Gone, Finished
<1>2. (\A d, o : ~By(Offered(d, o), c)) /\ \A s : ~By(Cancelled(s), c)
  BY DEF Offered, Cancelled
<1>3. \A d, m, s, k : By(Set(d, m, s, k), c) <=> k = c
  BY DEF Set
<1>4. \A d, m, o, k : By(Selected(d, m, o, k), c) <=> k = c
  BY DEF Selected
<1>5. \A k : (By(Sync(k), c) <=> k = c) /\ (By(Done(k), c) <=> k = c)
  BY DEF Sync, Done
<1> QED
  BY <1>1, <1>2, <1>3, <1>4, <1>5

(* Which messages close a callback's exchange. *)
LEMMA WhatCloses ==
    ASSUME NEW c \in Callbacks
    PROVE  /\ \A d : ~Closes(Get(d), c) /\ ~Closes(Gone(d), c) /\ ~Closes(Finished(d), c)
           /\ \A d, o : ~Closes(Offered(d, o), c)
           /\ \A s : ~Closes(Cancelled(s), c)
           /\ \A d, m, s, k : ~Closes(Set(d, m, s, k), c) /\ ~Closes(Selected(d, m, s, k), c)
           /\ \A k : Closes(Sync(k), c) <=> k = c
           /\ \A k : Closes(Done(k), c) <=> k = c
<1> USE DEF Closes, Sync, Done
<1>1. \A d : ~Closes(Get(d), c) /\ ~Closes(Gone(d), c) /\ ~Closes(Finished(d), c)
  BY DEF Get, Gone, Finished
<1>2. (\A d, o : ~Closes(Offered(d, o), c)) /\ \A s : ~Closes(Cancelled(s), c)
  BY DEF Offered, Cancelled
<1>3. \A d, m, s, k : ~Closes(Set(d, m, s, k), c) /\ ~Closes(Selected(d, m, s, k), c)
  BY DEF Set, Selected
<1>4. \A k : (Closes(Sync(k), c) <=> k = c) /\ (Closes(Done(k), c) <=> k = c)
  OBVIOUS
<1> QED
  BY <1>1, <1>2, <1>3, <1>4

(* Queues that grow and shrink. *)
LEMMA QueueTail ==
    ASSUME NEW M, NEW q \in Seq(M), q # <<>>
    PROVE  /\ \A c : Free(q, c) => Free(Tail(q), c)
           /\ \A c : Open(q, c) => Open(Tail(q), c)
           /\ Ends(q) => Ends(Tail(q))
           /\ Ends(q) => \A c \in Callbacks : Closes(Head(q), c) => Free(Tail(q), c)
<1>1. \A i \in DOMAIN Tail(q) : i + 1 \in DOMAIN q /\ Tail(q)[i] = q[i + 1] /\ 1 < i + 1 /\ i \in Nat
  OBVIOUS
<1>2. 1 \in DOMAIN q /\ Head(q) = q[1]
  OBVIOUS
<1>3. Ends(q) => Ends(Tail(q))
  <2>1. ASSUME Ends(q), NEW c \in Callbacks, NEW i \in DOMAIN Tail(q), NEW j \in DOMAIN Tail(q),
               i < j, Closes(Tail(q)[i], c)
        PROVE  ~By(Tail(q)[j], c)
    <3>1. i + 1 < j + 1
      BY <1>1, <2>1
    <3> QED
      BY <1>1, <2>1, <3>1 DEF Ends
  <2> QED
    BY <2>1 DEF Ends
<1>4. Ends(q) => \A c \in Callbacks : Closes(Head(q), c) => Free(Tail(q), c)
  BY <1>1, <1>2 DEF Ends, Free
<1> QED
  BY <1>1, <1>3, <1>4 DEF Free, Open

(* A queue grows by one message. *)
LEMMA QueueAppend ==
    ASSUME NEW M, NEW q \in Seq(M), NEW e \in M
    PROVE  /\ \A c : Free(q, c) /\ ~By(e, c) => Free(Append(q, e), c)
           /\ \A c : Open(q, c) /\ ~Closes(e, c) => Open(Append(q, e), c)
           /\ Ends(q) /\ (\A c \in Callbacks : By(e, c) => Open(q, c)) => Ends(Append(q, e))
<1>1. /\ \A i \in DOMAIN q : Append(q, e)[i] = q[i]
      /\ \A i \in DOMAIN Append(q, e) : i \in DOMAIN q \/ Append(q, e)[i] = e
      /\ \A i, j \in DOMAIN Append(q, e) : i < j => i \in DOMAIN q
  OBVIOUS
<1> QED
  BY <1>1 DEF Free, Open, Ends

(* Two messages at once are one after the other. *)
LEMMA TwoAtOnce ==
    ASSUME NEW M, NEW q \in Seq(M), NEW a \in M, NEW b \in M
    PROVE  q \o <<a, b>> = Append(Append(q, a), b) /\ Append(q, a) \in Seq(M)
<1>1. q \o <<a, b>> \in Seq(M) /\ Append(Append(q, a), b) \in Seq(M)
  OBVIOUS
<1>2. Len(q \o <<a, b>>) = Len(Append(Append(q, a), b))
  OBVIOUS
<1>3. \A i \in 1..Len(q \o <<a, b>>) : (q \o <<a, b>>)[i] = Append(Append(q, a), b)[i]
  OBVIOUS
<1> QED
  BY <1>1, <1>2, <1>3

(* A queue grows by another, callback by callback. *)
LEMMA QueueConcat ==
    ASSUME NEW M, NEW q \in Seq(M), NEW r \in Seq(M)
    PROVE  /\ \A c : Free(q, c) /\ Free(r, c) => Free(q \o r, c)
           /\ \A c : Open(q, c) /\ Open(r, c) => Open(q \o r, c)
           /\ /\ Ends(q) /\ \A c \in Callbacks : Open(r, c)
              /\ \A c \in Callbacks : Free(r, c) \/ Open(q, c)
              => Ends(q \o r)
<1>1. /\ \A i \in DOMAIN q : (q \o r)[i] = q[i]
      /\ \A i \in DOMAIN (q \o r) : i \in DOMAIN q \/ (i - Len(q) \in DOMAIN r /\ (q \o r)[i] = r[i - Len(q)])
      /\ \A i, j \in DOMAIN (q \o r) : i < j /\ j \in DOMAIN q => i \in DOMAIN q
  OBVIOUS
<1> QED
  BY <1>1 DEF Free, Open, Ends

(* Names() of a callback, over both queues. *)
LEMMA FreeIsUnnamed ==
    ASSUME WireTypeOK, NEW c
    PROVE  ~Names("by", c) <=> Free(requests, c) /\ Free(events, c)
BY DEF Names, Messages, Range, Free, By

(* Queues by their elements. *)
LEMMA AnnounceBy ==
    ASSUME NEW d \in Devices, NEW m \in Modes, NEW o \in Offers \cup {None}, NEW k \in Callbacks \cup {None},
           NEW c \in Callbacks
    PROVE  Open(Announce(d, m, o, k), c) /\ (k # c => Free(Announce(d, m, o, k), c))
<1>1. CASE o = None
  BY <1>1, ByWhom, WhatCloses DEF Announce, Open, Free
<1>2. CASE o # None
  BY <1>2, ByWhom, WhatCloses DEF Announce, Open, Free
<1> QED
  BY <1>1, <1>2

(* What a new device learns is nobody's answer. *)
LEMMA PresentBy ==
    ASSUME NEW d \in Devices, NEW m, NEW given \in [Modes -> Offers \cup {None}], NEW c \in Callbacks
    PROVE  Open(Present(d, m, given), c) /\ Free(Present(d, m, given), c)
<1>1. CASE m \in Modes
  <2>1. given[m] \in Offers \cup {None} /\ None \in Callbacks \cup {None} /\ None # c
    BY <1>1, NamesAssumption
  <2> QED
    BY <1>1, <2>1, AnnounceBy DEF Present
<1>2. CASE m \notin Modes
  BY <1>2 DEF Present, Open, Free
<1> QED
  BY <1>1, <1>2

(* Nor is what a replaced source is told. *)
LEMMA DisplacedBy ==
    ASSUME NEW m \in Modes, NEW c \in Callbacks
    PROVE  Open(Displaced(m), c) /\ Free(Displaced(m), c)
BY ByWhom, WhatCloses DEF Displaced, Open, Free

-----------------------------------------------------------------------------
(* A write that has returned has nothing under way. *)

OverAndOut(w) == callback[w] \in Callbacks /\ Free(requests, callback[w]) /\ Free(events, callback[w])
Quiet(w) == future[w] = "done" \/ writer[w] = "returned" => OverAndOut(w)

(* What closes a callback is the last of it, on both queues together. *)
Behind == \A c \in Callbacks : Open(events, c) \/ Free(requests, c)
LastWord == Ends(requests) /\ Ends(events) /\ Behind

SettledInv == LastWord /\ \A w \in Writers : Quiet(w)

(* Steps in which nobody's callback is new and no future finishes. *)
Waits ==
    \A w \in Writers : future'[w] = "done" \/ writer'[w] = "returned" =>
        (future[w] = "done" \/ writer[w] = "returned") /\ callback'[w] = callback[w]
Frees == \A c \in Callbacks : Free(requests, c) /\ Free(events, c) => Free(requests', c) /\ Free(events', c)

(* Writers that get no answer stay settled where no callback comes back. *)
LEMMA QuietStays ==
    ASSUME \A w \in Writers : Quiet(w), Waits, Frees
    PROVE  \A w \in Writers : Quiet(w)'
BY DEF Quiet, OverAndOut, Waits, Frees

(* Writers that do nothing get no answer. *)
LEMMA WritersWait ==
    ASSUME UNCHANGED writers
    PROVE  Waits
BY DEF Waits, writers

(* The writers' side of a step, the rest of which is in Steps. *)
LEMMA WaitsStep ==
    ASSUME WaitTypeOK, [Next]_vars
    PROVE  \/ Waits
           \/ \E w \in Writers, m \in Modes : Write(w, m)
           \/ \E c \in Callbacks : OnDone(c)
<1> USE DEF Waits
<1>1. CASE UNCHANGED writers
  BY <1>1, WritersWait
<1>2. CASE BindManager \/ RemoveManager \/ ReplaceManager \/ Seat
  BY <1>1, <1>2 DEF BindManager, RemoveManager, ReplaceManager, Seat, Listen
<1>3. CASE Dispatch
  BY <1>1, <1>3 DEF Dispatch, OnOffer, OnSelection, OnFinished, OnCancelled
<1>4. ASSUME NEW w \in Writers, NEW m \in Modes, WriteRaises(w, m) PROVE Waits
  BY <1>4 DEF WriteRaises, WaitTypeOK
<1>5. ASSUME NEW w \in Writers, Answered(w) PROVE Waits
  BY <1>5 DEF Answered, Leave, WaitTypeOK
<1>6. ASSUME NEW w \in Writers, TimesOut(w) PROVE Waits
  BY <1>6 DEF TimesOut, WaitTypeOK
<1>7. ASSUME NEW w \in Writers, Raises(w) PROVE Waits
  BY <1>7 DEF Raises, Leave, WaitTypeOK
<1>8. CASE Connect \/ Stop
  BY <1>1, <1>8 DEF Connect, Stop
<1>9. CASE Disconnect
  BY <1>9 DEF Disconnect, FailBarriers, WaitTypeOK
<1>10. CASE Serve
  BY <1>1, <1>10 DEF Serve, ServeGet, ServeGone, ServeSet, ServeSync
<1>11. CASE Finish \/ \E m \in Modes : Copy(m)
  BY <1>1, <1>11 DEF Finish, Copy
<1> QED
  BY <1>1, <1>2, <1>3, <1>4, <1>5, <1>6, <1>7, <1>8, <1>9, <1>10, <1>11 DEF Next, vars

(* An event is taken. *)
LEMMA ReceiveWord ==
    ASSUME WireTypeOK, LastWord, NEW e, Receive(e), UNCHANGED requests
    PROVE  LastWord' /\ Frees
<1>1. events \in Seq(Event) /\ events # <<>> /\ events' = Tail(events)
  BY DEF WireTypeOK, Receive
<1> QED
  BY <1>1, QueueTail DEF LastWord, Behind, Frees

(* A request is added whose callback is nobody's yet, or nobody. *)
LEMMA RequestWord ==
    ASSUME NEW q \in Seq(Request), NEW e \in Request, Ends(q), \A c \in Callbacks : ~By(e, c)
    PROVE  Ends(Append(q, e)) /\ \A c \in Callbacks : Free(q, c) => Free(Append(q, e), c)
BY QueueAppend

(* The request of a retirement names no callback. *)
LEMMA FarewellWord ==
    ASSUME WireTypeOK, LinkTypeOK, Ends(requests)
    PROVE  /\ Ends(Farewell) /\ Farewell \in Seq(Request)
           /\ \A c \in Callbacks : Free(requests, c) => Free(Farewell, c)
<1> USE DEF WireTypeOK
<1>1. CASE device = None
  BY <1>1 DEF Farewell
<1>2. CASE device # None
  <2>1. Gone(device) \in Request /\ \A c \in Callbacks : ~By(Gone(device), c)
    BY <1>2, RequestsMade, ByWhom DEF LinkTypeOK
  <2> QED
    BY <1>2, <2>1, RequestWord, FarewellMade DEF Farewell
<1> QED
  BY <1>1, <1>2

(* News by nobody, or by one whose request was just served. *)
LEMMA NewsWord ==
    ASSUME WireTypeOK, LastWord, NEW news \in Seq(Event), events' = events \o news,
           \A c \in Callbacks : Free(requests, c) => Free(requests', c),
           Ends(requests'), \A c \in Callbacks : Open(news, c),
           \A c \in Callbacks : Free(news, c) \/ ~Free(requests, c)
    PROVE  LastWord' /\ Frees
<1>1. events \in Seq(Event)
  BY DEF WireTypeOK
<1>2. \A c \in Callbacks : Free(news, c) \/ Open(events, c)
  BY DEF LastWord, Behind
<1>3. Ends(events')
  BY <1>1, <1>2, QueueConcat DEF LastWord
<1>4. \A c \in Callbacks : Open(events, c) => Open(events', c)
  BY <1>1, QueueConcat
<1>5. \A c \in Callbacks : Free(events, c) /\ Free(requests, c) => Free(events', c)
  BY <1>1, QueueConcat
<1> QED
  BY <1>3, <1>4, <1>5 DEF LastWord, Behind, Frees

(* A request is taken. *)
LEMMA ServesWord ==
    ASSUME WireTypeOK, LastWord, NEW r, Serves(r)
    PROVE  /\ Ends(requests') /\ \A c \in Callbacks : Free(requests, c) => Free(requests', c)
           /\ \A c \in Callbacks : Closes(r, c) => Free(requests', c)
           /\ \A c : By(r, c) => ~Free(requests, c)
<1>1. requests \in Seq(Request) /\ requests # <<>> /\ requests' = Tail(requests) /\ r = Head(requests)
  BY DEF WireTypeOK, Serves
<1>2. 1 \in DOMAIN requests /\ r = requests[1]
  BY <1>1
<1> QED
  BY <1>1, <1>2, QueueTail DEF LastWord, Free

(* The order on the wire, and what was quiet before. *)
LEMMA WordStep ==
    ASSUME WireTypeOK, LinkTypeOK, LastWord, [Next]_vars,
           \A w \in Writers, m \in Modes : ~Write(w, m)
    PROVE  LastWord' /\ Frees
<1>t. requests \in Seq(Request) /\ events \in Seq(Event) /\ Ends(requests) /\ Ends(events)
  BY DEF WireTypeOK, LastWord
<1>1. CASE Still
  BY <1>1 DEF Still, wire, LastWord, Behind, Frees
<1>2. CASE UNCHANGED events /\ Ends(requests') /\ \A c \in Callbacks : Free(requests, c) => Free(requests', c)
  BY <1>2 DEF LastWord, Behind, Frees
<1>3. CASE Leaves
  <2>1. CASE device' = None /\ requests' = Farewell
    BY <1>2, <1>3, <1>t, <2>1, FarewellWord DEF Leaves
  <2>2. ASSUME NEW d \in FreshDevices, requests' = Append(Farewell, Get(d)) PROVE LastWord' /\ Frees
    <3>1. Get(d) \in Request /\ \A c \in Callbacks : ~By(Get(d), c)
      BY FreshTypes, RequestsMade, ByWhom
    <3>2. Ends(Farewell) /\ Farewell \in Seq(Request) /\ \A c \in Callbacks : Free(requests, c) => Free(Farewell, c)
      BY <1>t, FarewellWord
    <3>3. Ends(requests') /\ \A c \in Callbacks : Free(requests, c) => Free(requests', c)
      BY <2>2, <3>1, <3>2, RequestWord
    <3> QED
      BY <1>2, <1>3, <3>3 DEF Leaves
  <2> QED
    BY <1>3, <2>1, <2>2 DEF Leaves
<1>4. CASE Disconnect
  <2>1. requests' = <<>> /\ events' = <<>>
    BY <1>4 DEF Disconnect
  <2> QED
    BY <2>1 DEF LastWord, Behind, Frees, Ends, Open, Free
<1>5. CASE Finish
  <2>1. <<Finished(theirDevice)>> \in Seq(Event) /\ events' = events \o <<Finished(theirDevice)>> /\ UNCHANGED requests
    BY <1>5, <1>t, EventsMade DEF Finish, LinkTypeOK
  <2>2. \A c \in Callbacks : Open(<<Finished(theirDevice)>>, c) /\ Free(<<Finished(theirDevice)>>, c)
    BY ByWhom, WhatCloses DEF Open, Free
  <2> QED
    BY <1>t, <2>1, <2>2, NewsWord
<1>6. ASSUME NEW d \in Devices, NEW o \in Offers, OnOffer(d, o) PROVE LastWord' /\ Frees
  BY <1>6, ReceiveWord DEF OnOffer
<1>7. ASSUME NEW d \in Devices, NEW m \in Modes, NEW o \in Offers \cup {None},
             NEW c \in Callbacks \cup {None}, OnSelection(d, m, o, c)
      PROVE  LastWord' /\ Frees
  BY <1>7, ReceiveWord DEF OnSelection
<1>8. ASSUME NEW d \in Devices, d # device, OnFinished(d) PROVE LastWord' /\ Frees
  BY <1>8, ReceiveWord DEF OnFinished
<1>9. ASSUME NEW d \in Devices, d = device, OnFinished(d) PROVE LastWord' /\ Frees
  <2>1. events # <<>> /\ events' = Tail(events) /\ requests' = Farewell
    BY <1>9 DEF OnFinished, Receive, RetireOnly
  <2>2. Ends(events') /\ \A c \in Callbacks : (Open(events, c) => Open(events', c)) /\ (Free(events, c) => Free(events', c))
    BY <1>t, <2>1, QueueTail
  <2>3. Ends(requests') /\ \A c \in Callbacks : Free(requests, c) => Free(requests', c)
    BY <1>t, <2>1, FarewellWord
  <2> QED
    BY <2>2, <2>3 DEF LastWord, Behind, Frees
<1>10. ASSUME NEW s \in Sources, OnCancelled(s) PROVE LastWord' /\ Frees
  BY <1>10, ReceiveWord DEF OnCancelled
<1>11. ASSUME NEW c \in Callbacks, OnDone(c) PROVE LastWord' /\ Frees
  BY <1>11, ReceiveWord DEF OnDone
<1>12. ASSUME NEW m \in Modes, NEW s \in FreshSources \cup {None}, Sends(m, s)
       PROVE  LastWord' /\ Frees
  <2>1. Set(device, m, s, None) \in Request
    BY <1>12, RequestsMade, FreshTypes DEF Sends, LinkTypeOK
  <2>2. \A c \in Callbacks : ~By(Set(device, m, s, None), c)
    BY ByWhom, NamesAssumption
  <2>3. Ends(requests') /\ \A c \in Callbacks : Free(requests, c) => Free(requests', c)
    BY <1>12, <1>t, <2>1, <2>2, RequestWord DEF Sends
  <2> QED
    BY <1>2, <1>12, <2>3 DEF Sends
<1>13. ASSUME NEW d \in Devices, ServeGet(d) PROVE LastWord' /\ Frees
  <2>1. PICK given \in [Modes -> FreshOffers \cup {None}] :
          events' = events \o Present(d, "main", given) \o Present(d, "select", given)
    BY <1>13 DEF ServeGet
  <2>2. given \in [Modes -> Offers \cup {None}]
    BY FreshTypes
  <2> DEFINE a == Present(d, "main", given)
             b == Present(d, "select", given)
  <2>3. a \in Seq(Event) /\ b \in Seq(Event)
    BY <2>2, PresentMade
  <2>4. \A c \in Callbacks : Open(a, c) /\ Free(a, c) /\ Open(b, c) /\ Free(b, c)
    BY <2>2, PresentBy
  <2>5. events' = events \o a \o b
    BY <2>1
  <2> HIDE DEF a, b
  <2>6. a \o b \in Seq(Event) /\ events' = events \o (a \o b)
    BY <1>t, <2>3, <2>5
  <2>7. \A c \in Callbacks : Open(a \o b, c) /\ Free(a \o b, c)
    BY <2>3, <2>4, QueueConcat
  <2>8. Ends(requests') /\ \A c \in Callbacks : Free(requests, c) => Free(requests', c)
    BY <1>13, ServesWord DEF ServeGet
  <2> QED
    BY <2>6, <2>7, <2>8, NewsWord
<1>14. ASSUME NEW d \in Devices, ServeGone(d) PROVE LastWord' /\ Frees
  BY <1>2, <1>14, ServesWord DEF ServeGone
<1>15. ASSUME NEW d \in Devices, NEW m \in Modes, NEW s \in Sources \cup {None},
              NEW c \in Callbacks \cup {None}, ServeSet(d, m, s, c)
       PROVE  LastWord' /\ Frees
  <2>1. Ends(requests') /\ \A k \in Callbacks : Free(requests, k) => Free(requests', k)
    BY <1>15, ServesWord DEF ServeSet
  <2>2. c \in Callbacks => ~Free(requests, c)
    <3>1. c \in Callbacks => By(Set(d, m, s, c), c)
      BY ByWhom
    <3> QED
      BY <1>15, <3>1, ServesWord DEF ServeSet
  <2>3. CASE UNCHANGED events
    BY <1>2, <2>1, <2>3
  <2>4. ASSUME NEW news \in Seq(Event), events' = events \o Displaced(m) \o news,
               \A k \in Callbacks : Open(news, k) /\ (k # c => Free(news, k))
        PROVE  LastWord' /\ Frees
    <3> DEFINE a == Displaced(m)
    <3>1. a \in Seq(Event) /\ \A k \in Callbacks : Open(a, k) /\ Free(a, k)
      BY DisplacedMade, DisplacedBy
    <3>2. events' = events \o a \o news
      BY <2>4
    <3> HIDE DEF a
    <3>3. a \o news \in Seq(Event) /\ events' = events \o (a \o news)
      BY <1>t, <2>4, <3>1, <3>2
    <3>4. \A k \in Callbacks : Open(a \o news, k) /\ (k # c => Free(a \o news, k))
      BY <2>4, <3>1, QueueConcat
    <3> QED
      BY <2>1, <2>2, <3>3, <3>4, NewsWord
  <2>5. ASSUME NEW echo \in {TRUE, FALSE}, events' = events \o Displaced(m) \o (IF echo THEN Announce(d, m, None, c) ELSE <<>>)
        PROVE  LastWord' /\ Frees
    <3>1. <<>> \in Seq(Event) /\ \A k \in Callbacks : Open(<<>>, k) /\ Free(<<>>, k)
      BY DEF Open, Free
    <3>2. Announce(d, m, None, c) \in Seq(Event) /\ \A k \in Callbacks : Open(Announce(d, m, None, c), k)
                /\ (k # c => Free(Announce(d, m, None, c), k))
      BY AnnounceMade, AnnounceBy
    <3> QED
      BY <2>4, <2>5, <3>1, <3>2
  <2>6. ASSUME NEW o \in FreshOffers, events' = events \o Displaced(m) \o Announce(d, m, o, c)
        PROVE  LastWord' /\ Frees
    <3>1. o \in Offers \cup {None}
      BY FreshTypes
    <3>2. Announce(d, m, o, c) \in Seq(Event) /\ \A k \in Callbacks : Open(Announce(d, m, o, c), k)
                /\ (k # c => Free(Announce(d, m, o, c), k))
      BY <3>1, AnnounceMade, AnnounceBy
    <3> QED
      BY <2>4, <2>6, <3>2
  <2> QED
    BY <1>15, <2>3, <2>5, <2>6, NamesAssumption DEF ServeSet
<1>16. ASSUME NEW c \in Callbacks, ServeSync(c) PROVE LastWord' /\ Frees
  <2>1. /\ Ends(requests') /\ \A k \in Callbacks : Free(requests, k) => Free(requests', k)
        /\ Free(requests', c) /\ ~Free(requests, c)
    BY <1>16, ServesWord, ByWhom, WhatCloses DEF ServeSync
  <2>2. Done(c) \in Event /\ events' = Append(events, Done(c))
    BY <1>16, EventsMade DEF ServeSync
  <2>3. \A k \in Callbacks : k # c => ~By(Done(c), k) /\ ~Closes(Done(c), k)
    BY ByWhom, WhatCloses
  <2>4. Open(events, c)
    BY <2>1 DEF LastWord, Behind
  <2>5. Ends(events')
    BY <1>t, <2>2, <2>3, <2>4, QueueAppend
  <2>6. \A k \in Callbacks : k # c => (Free(events, k) => Free(events', k)) /\ (Open(events, k) => Open(events', k))
    BY <1>t, <2>2, <2>3, QueueAppend
  <2> QED
    BY <2>1, <2>5, <2>6 DEF LastWord, Behind, Frees
<1>17. ASSUME NEW m \in Modes, Copy(m) PROVE LastWord' /\ Frees
  <2>1. PICK o \in FreshOffers \cup {None} : events' = events \o Displaced(m) \o Announce(theirDevice, m, o, None)
    BY <1>17 DEF Copy
  <2>2. theirDevice \in Devices /\ o \in Offers \cup {None} /\ None \in Callbacks \cup {None}
    BY <1>17, FreshTypes DEF Copy, LinkTypeOK
  <2> DEFINE a == Displaced(m)
             b == Announce(theirDevice, m, o, None)
  <2>3. a \in Seq(Event) /\ b \in Seq(Event)
    BY <2>2, DisplacedMade, AnnounceMade
  <2>4. \A c \in Callbacks : Open(a, c) /\ Free(a, c) /\ Open(b, c) /\ Free(b, c)
    BY <2>2, DisplacedBy, AnnounceBy, NamesAssumption
  <2>5. events' = events \o a \o b
    BY <2>1
  <2> HIDE DEF a, b
  <2>6. a \o b \in Seq(Event) /\ events' = events \o (a \o b)
    BY <1>t, <2>3, <2>5
  <2>7. \A c \in Callbacks : Open(a \o b, c) /\ Free(a \o b, c)
    BY <2>3, <2>4, QueueConcat
  <2> QED
    BY <1>17, <1>t, <2>6, <2>7, NewsWord DEF Copy
<1> QED
  BY <1>1, <1>3, <1>4, <1>5, <1>6, <1>7, <1>8, <1>9, <1>10, <1>11, <1>12, <1>13, <1>14, <1>15, <1>16, <1>17, Steps

(* A write sends its request and its barrier under a new callback. *)
LEMMA WriteSettles ==
    ASSUME WireTypeOK, LinkTypeOK, WaitTypeOK, SettledInv, NEW w \in Writers, NEW m \in Modes, Write(w, m)
    PROVE  SettledInv'
<1>t. requests \in Seq(Request) /\ events \in Seq(Event) /\ Ends(requests) /\ Ends(events)
  BY DEF WireTypeOK, SettledInv, LastWord
<1>1. PICK s \in FreshSources \cup {None}, c \in FreshCallbacks :
        SetSelection(m, s, c) /\ callback' = [callback EXCEPT ![w] = c]
  BY DEF Write
<1>2. c \in Callbacks /\ Free(requests, c) /\ Free(events, c) /\ \A v \in Writers : callback[v] # c
  <2>1. c \in Callbacks /\ ~Names("by", c) /\ c \notin Range(callback)
    BY DEF FreshCallbacks
  <2> QED
    BY <2>1, FreeIsUnnamed DEF Range, WaitTypeOK
<1> DEFINE set == Set(device, m, s, c)
           sync == Sync(c)
<1>3. set \in Request /\ sync \in Request
  BY <1>1, RequestsMade, FreshTypes DEF Write, Usable, LinkTypeOK
<1>4. \A k \in Callbacks : k # c => ~By(set, k) /\ ~By(sync, k)
  BY ByWhom
<1>5. \A k \in Callbacks : ~Closes(set, k) /\ (k # c => ~Closes(sync, k))
  BY <1>2, WhatCloses
<1>6. requests' = requests \o <<set, sync>> /\ UNCHANGED events
  BY <1>1 DEF SetSelection, Sets, Write
<1> HIDE DEF set, sync
<1>7. requests' = Append(Append(requests, set), sync) /\ Append(requests, set) \in Seq(Request)
  BY <1>3, <1>6, <1>t, TwoAtOnce
<1>8. Open(requests, c) /\ Open(events, c)
  <2>1. \A e : Closes(e, c) => By(e, c)
    BY <1>2, ByWhom DEF Closes
  <2> QED
    BY <1>2, <2>1 DEF Open, Free
<1>9. /\ Ends(Append(requests, set)) /\ Open(Append(requests, set), c)
      /\ \A k \in Callbacks : k # c /\ Free(requests, k) => Free(Append(requests, set), k)
  BY <1>2, <1>3, <1>4, <1>5, <1>8, <1>t, QueueAppend
<1>10. Ends(requests') /\ \A k \in Callbacks : k # c /\ Free(requests, k) => Free(requests', k)
  BY <1>2, <1>3, <1>4, <1>7, <1>9, QueueAppend
<1>11. LastWord'
  BY <1>6, <1>8, <1>10, <1>t DEF SettledInv, LastWord, Behind
<1>12. ASSUME NEW v \in Writers PROVE Quiet(v)'
  <2>1. CASE v = w
    BY <2>1 DEF Write, WaitTypeOK, Quiet
  <2>2. CASE v # w
    <3>1. callback'[v] = callback[v] /\ writer'[v] = writer[v] /\ future'[v] = future[v] /\ callback[v] # c
      BY <1>1, <1>2, <2>2 DEF Write, WaitTypeOK
    <3>2. Quiet(v)
      BY DEF SettledInv
    <3> QED
      BY <1>6, <1>10, <3>1, <3>2 DEF Quiet, OverAndOut
  <2> QED
    BY <2>1, <2>2
<1> QED
  BY <1>11, <1>12 DEF SettledInv

(* The answer to a barrier is the last of it. *)
LEMMA DoneSettles ==
    ASSUME WireTypeOK, LinkTypeOK, WaitTypeOK, SettledInv, LastWord', Frees, NEW c \in Callbacks, OnDone(c)
    PROVE  SettledInv'
<1>1. events \in Seq(Event) /\ events # <<>> /\ Head(events) = Done(c) /\ events' = Tail(events) /\ UNCHANGED requests
  BY DEF WireTypeOK, OnDone, Receive
<1>2. Closes(Done(c), c)
  BY WhatCloses
<1>3. Free(events', c)
  BY <1>1, <1>2, QueueTail DEF SettledInv, LastWord
<1>4. ~Open(events, c)
  <2>1. 1 \in DOMAIN events /\ events[1] = Done(c)
    BY <1>1
  <2> QED
    BY <1>2, <2>1 DEF Open
<1>5. Free(requests', c)
  BY <1>1, <1>4 DEF SettledInv, LastWord, Behind
<1>6. ASSUME NEW w \in Writers PROVE Quiet(w)'
  <2>1. UNCHANGED <<writer, callback>> /\ Quiet(w)
    BY DEF OnDone, SettledInv
  <2>2. CASE callback[w] = c
    BY <1>3, <1>5, <2>1, <2>2 DEF Quiet, OverAndOut
  <2>3. CASE callback[w] # c
    <3>1. future'[w] = future[w]
      BY <2>3 DEF OnDone, FinishBarrier
    <3> QED
      BY <2>1, <3>1 DEF Quiet, OverAndOut, Frees
  <2> QED
    BY <2>2, <2>3
<1> QED
  BY <1>6 DEF SettledInv

(* Every step keeps what has returned settled. *)
LEMMA SettledStep ==
    ASSUME WireTypeOK, LinkTypeOK, WaitTypeOK, SettledInv, [Next]_vars
    PROVE  SettledInv'
<1>1. ASSUME NEW w \in Writers, NEW m \in Modes, Write(w, m) PROVE SettledInv'
  BY <1>1, WriteSettles
<1>2. CASE \A w \in Writers, m \in Modes : ~Write(w, m)
  <2>1. LastWord' /\ Frees
    BY <1>2, WordStep DEF SettledInv
  <2>2. CASE Waits
    BY <2>1, <2>2, QuietStays DEF SettledInv
  <2>3. ASSUME NEW c \in Callbacks, OnDone(c) PROVE SettledInv'
    BY <2>1, <2>3, DoneSettles
  <2> QED
    BY <1>2, <2>2, <2>3, WaitsStep
<1> QED
  BY <1>1, <1>2

(* A write that has returned has no event of its own to come. *)
LEMMA SettledMeans ==
    ASSUME WireTypeOK, SettledInv
    PROVE  ReturnedIsSettled
BY FreeIsUnnamed DEF SettledInv, Quiet, OverAndOut, ReturnedIsSettled

-----------------------------------------------------------------------------
(* Messages by their fields. *)

(* An event that selects or offers is known by its fields. *)
LEMMA EventFields ==
    ASSUME NEW e \in Event
    PROVE  /\ e.op \in {"offer", "selection", "cancelled", "done", "finished"}
           /\ e.op = "offer" => e.dev \in Devices /\ e.item \in Offers /\ e = Offered(e.dev, e.item)
           /\ e.op = "selection" =>
                /\ e.dev \in Devices /\ e.mode \in Modes /\ e.item \in Offers \cup {None}
                /\ e.by \in Callbacks \cup {None} /\ e = Selected(e.dev, e.mode, e.item, e.by)
           /\ e.op = "cancelled" => e.item \in Sources /\ e = Cancelled(e.item)
           /\ e.op = "done" => e = Done(e.by)
           /\ e.op = "finished" => e.dev \in Devices /\ e = Finished(e.dev)
BY DEF Event, Offered, Selected, Cancelled, Done, Finished

(* The fields of the events that are made. *)
LEMMA EventOps ==
    /\ \A d, o : Offered(d, o).op = "offer" /\ Offered(d, o).dev = d /\ Offered(d, o).item = o
    /\ \A d, m, o, c : LET e == Selected(d, m, o, c) IN
          e.op = "selection" /\ e.dev = d /\ e.mode = m /\ e.item = o /\ e.by = c
    /\ \A s : Cancelled(s).op = "cancelled" /\ Cancelled(s).item = s
    /\ \A c : Done(c).op = "done"
    /\ \A d : Finished(d).op = "finished" /\ Finished(d).dev = d
BY DEF Offered, Selected, Cancelled, Done, Finished

(* What nothing names is in no message. *)
LEMMA UnnamedEvents ==
    ASSUME WireTypeOK, NEW x, NEW i \in DOMAIN events
    PROVE  /\ ~Names("item", x) => (events[i].op \in {"offer", "selection", "cancelled"} => events[i].item # x)
           /\ ~Names("dev", x) => (events[i].op \in {"offer", "selection", "finished"} => events[i].dev # x)
<1>1. events[i] \in Event /\ events[i] \in Messages
  BY DEF WireTypeOK, Messages, Range
<1>2. /\ events[i].op \in {"offer", "selection", "cancelled"} => "item" \in DOMAIN events[i]
      /\ events[i].op \in {"offer", "selection", "finished"} => "dev" \in DOMAIN events[i]
  BY <1>1 DEF Event
<1> QED
  BY <1>1, <1>2 DEF Names

-----------------------------------------------------------------------------
(* The offers on the wire. *)

Picks(e) == e.op = "selection" /\ e.item # None

(* Each is announced and then selected at once, by an event of its own. *)
Announced(q) ==
    /\ \A i \in DOMAIN q : q[i].op = "offer" =>
          i + 1 \in DOMAIN q /\ Picks(q[i + 1]) /\ q[i + 1].dev = q[i].dev /\ q[i + 1].item = q[i].item
    /\ \A i \in DOMAIN q : Picks(q[i]) /\ i # 1 =>
          q[i - 1].op = "offer" /\ q[i - 1].dev = q[i].dev /\ q[i - 1].item = q[i].item
    /\ \A i, j \in DOMAIN q : Picks(q[i]) /\ Picks(q[j]) /\ q[i].item = q[j].item => i = j

Unpicked(q, o) == \A i \in DOMAIN q : Picks(q[i]) => q[i].item # o

(* None of them is a selection yet, and the offer that the next event selects is
   known. *)
Ahead(q) ==
    /\ \A i \in DOMAIN q, m \in Modes : Picks(q[i]) => q[i].item # selection[m]
    /\ q # <<>> /\ Picks(q[1]) /\ q[1].dev = device => q[1].item \in offers
    /\ \A o \in offers : o \in Range(selection)
          \/ (q # <<>> /\ Picks(q[1]) /\ q[1].dev = device /\ q[1].item = o)

Chosen ==
    /\ \A m \in Modes : selection[m] \in offers \cup {None}
    /\ \A m, n \in Modes : m # n /\ selection[m] = selection[n] => selection[m] = None

OfferInv == Chosen /\ Announced(events) /\ Ahead(events)

(* Events go, and come. *)
LEMMA AnnouncedTail ==
    ASSUME NEW q \in Seq(Event), q # <<>>, Announced(q)
    PROVE  Announced(Tail(q))
<1>1. \A i \in DOMAIN Tail(q) : i \in Nat /\ i + 1 \in DOMAIN q /\ i + 1 # 1 /\ Tail(q)[i] = q[i + 1]
  OBVIOUS
<1>2. \A i \in DOMAIN Tail(q) : i # 1 => i - 1 \in DOMAIN Tail(q) /\ Tail(q)[i - 1] = q[i]
  OBVIOUS
<1>3. \A i \in DOMAIN Tail(q) : i + 2 \in DOMAIN q => i + 1 \in DOMAIN Tail(q) /\ Tail(q)[i + 1] = q[i + 2]
  OBVIOUS
<1>4. ASSUME NEW i \in DOMAIN Tail(q), Tail(q)[i].op = "offer"
      PROVE  /\ i + 1 \in DOMAIN Tail(q) /\ Picks(Tail(q)[i + 1])
             /\ Tail(q)[i + 1].dev = Tail(q)[i].dev /\ Tail(q)[i + 1].item = Tail(q)[i].item
  <2>1. i + 1 \in DOMAIN q /\ q[i + 1].op = "offer" /\ (i + 1) + 1 = i + 2
    BY <1>1, <1>4
  <2>2. i + 2 \in DOMAIN q /\ Picks(q[i + 2]) /\ q[i + 2].dev = q[i + 1].dev /\ q[i + 2].item = q[i + 1].item
    BY <2>1 DEF Announced
  <2> QED
    BY <1>1, <1>3, <2>2
<1>5. ASSUME NEW i \in DOMAIN Tail(q), Picks(Tail(q)[i]), i # 1
      PROVE  /\ Tail(q)[i - 1].op = "offer"
             /\ Tail(q)[i - 1].dev = Tail(q)[i].dev /\ Tail(q)[i - 1].item = Tail(q)[i].item
  <2>1. i + 1 \in DOMAIN q /\ Picks(q[i + 1]) /\ i + 1 # 1 /\ (i + 1) - 1 = i
    BY <1>1, <1>5
  <2> QED
    BY <1>1, <1>2, <1>5, <2>1 DEF Announced
<1>6. ASSUME NEW i \in DOMAIN Tail(q), NEW j \in DOMAIN Tail(q), Picks(Tail(q)[i]), Picks(Tail(q)[j]),
             Tail(q)[i].item = Tail(q)[j].item
      PROVE  i = j
  <2>1. i + 1 = j + 1
    BY <1>1, <1>6 DEF Announced
  <2> QED
    BY <1>1, <2>1
<1> QED
  BY <1>4, <1>5, <1>6 DEF Announced

(* An event that is not about an offer. *)
LEMMA AnnouncedPlain ==
    ASSUME NEW q \in Seq(Event), NEW e \in Event, Announced(q), e.op # "offer", ~Picks(e)
    PROVE  Announced(Append(q, e)) /\ \A o : Unpicked(q, o) => Unpicked(Append(q, e), o)
<1>1. /\ \A i \in DOMAIN q : i \in DOMAIN Append(q, e) /\ Append(q, e)[i] = q[i]
      /\ \A i \in DOMAIN Append(q, e) : i \in DOMAIN q \/ Append(q, e)[i] = e
      /\ \A i \in DOMAIN q : i # 1 => i - 1 \in DOMAIN q
  OBVIOUS
<1> QED
  BY <1>1 DEF Announced, Unpicked

(* An offer and its selection. *)
LEMMA AnnouncedPair ==
    ASSUME NEW q \in Seq(Event), NEW a \in Event, NEW b \in Event, Announced(q),
           a.op = "offer", Picks(b), b.dev = a.dev, b.item = a.item, Unpicked(q, b.item)
    PROVE  /\ Announced(q \o <<a, b>>)
           /\ \A o : Unpicked(q, o) /\ o # b.item => Unpicked(q \o <<a, b>>, o)
<1> DEFINE r == q \o <<a, b>>
<1>1. /\ Len(r) = Len(q) + 2 /\ r[Len(q) + 1] = a /\ r[Len(q) + 2] = b /\ Len(q) \in Nat
      /\ \A i \in 1..Len(q) : r[i] = q[i]
      /\ DOMAIN r = 1..Len(q) + 2 /\ DOMAIN q = 1..Len(q)
  OBVIOUS
<1>p. a.op # "selection" /\ b.op # "offer" /\ ~Picks(a)
  BY DEF Picks
<1> HIDE DEF r
<1>2. ASSUME NEW i \in DOMAIN r, r[i].op = "offer"
      PROVE  i + 1 \in DOMAIN r /\ Picks(r[i + 1]) /\ r[i + 1].dev = r[i].dev /\ r[i + 1].item = r[i].item
  <2>1. CASE i \in 1..Len(q)
    <3>1. i + 1 \in 1..Len(q) /\ Picks(q[i + 1]) /\ q[i + 1].dev = q[i].dev /\ q[i + 1].item = q[i].item
      BY <1>1, <1>2, <2>1 DEF Announced
    <3> QED
      BY <1>1, <2>1, <3>1
  <2>2. CASE i = Len(q) + 1
    BY <1>1, <2>2
  <2>3. CASE i = Len(q) + 2
    BY <1>1, <1>2, <1>p, <2>3
  <2> QED
    BY <1>1, <2>1, <2>2, <2>3
<1>3. ASSUME NEW i \in DOMAIN r, Picks(r[i]), i # 1
      PROVE  r[i - 1].op = "offer" /\ r[i - 1].dev = r[i].dev /\ r[i - 1].item = r[i].item
  <2>1. CASE i \in 1..Len(q)
    <3>1. q[i - 1].op = "offer" /\ q[i - 1].dev = q[i].dev /\ q[i - 1].item = q[i].item /\ i - 1 \in 1..Len(q)
      BY <1>1, <1>3, <2>1 DEF Announced
    <3> QED
      BY <1>1, <2>1, <3>1
  <2>2. CASE i = Len(q) + 1
    BY <1>1, <1>3, <1>p, <2>2
  <2>3. CASE i = Len(q) + 2
    <3>1. i - 1 = Len(q) + 1
      BY <1>1, <2>3
    <3> QED
      BY <1>1, <2>3, <3>1
  <2> QED
    BY <1>1, <2>1, <2>2, <2>3
<1>4. \A i \in DOMAIN r : Picks(r[i]) => (i \in DOMAIN q /\ r[i] = q[i]) \/ (i = Len(q) + 2 /\ r[i] = b)
  BY <1>1, <1>p
<1>5. ASSUME NEW i \in DOMAIN r, NEW j \in DOMAIN r, Picks(r[i]), Picks(r[j]), r[i].item = r[j].item
      PROVE  i = j
  BY <1>4, <1>5 DEF Announced, Unpicked
<1>6. Announced(r)
  BY <1>2, <1>3, <1>5 DEF Announced
<1>7. \A o : Unpicked(q, o) /\ o # b.item => Unpicked(r, o)
  BY <1>4 DEF Unpicked
<1> QED
  BY <1>6, <1>7 DEF r

(* So the events of Announce() go together, if their offer is new. *)
LEMMA AnnouncedNews ==
    ASSUME NEW q \in Seq(Event), NEW d \in Devices, NEW m \in Modes, NEW o \in Offers \cup {None},
           NEW c \in Callbacks \cup {None}, Announced(q), o # None => Unpicked(q, o)
    PROVE  /\ q \o Announce(d, m, o, c) \in Seq(Event)
           /\ Announced(q \o Announce(d, m, o, c))
           /\ \A x : Unpicked(q, x) /\ x # o => Unpicked(q \o Announce(d, m, o, c), x)
<1>0. Announce(d, m, o, c) \in Seq(Event)
  BY AnnounceMade
<1>1. CASE o = None
  <2> DEFINE b == Selected(d, m, None, c)
  <2>1. b \in Event /\ ~Picks(b) /\ b.op # "offer"
    BY EventsMade, EventOps DEF Picks
  <2>2. Announce(d, m, o, c) = <<b>>
    BY <1>1 DEF Announce
  <2> HIDE DEF b
  <2>3. q \o Announce(d, m, o, c) = Append(q, b)
    BY <2>1, <2>2, AppendIsConcat
  <2> QED
    BY <1>0, <2>1, <2>3, AnnouncedPlain
<1>2. CASE o # None
  <2> DEFINE a == Offered(d, o)
             b == Selected(d, m, o, c)
  <2>1. o \in Offers
    BY <1>2
  <2>2. a \in Event /\ b \in Event /\ a.op = "offer" /\ a.dev = d /\ a.item = o
    BY <2>1, EventsMade, EventOps
  <2>3. b.op = "selection" /\ b.dev = d /\ b.item = o /\ Picks(b)
    BY <1>2, EventOps DEF Picks
  <2>4. Announce(d, m, o, c) = <<a, b>>
    BY <1>2 DEF Announce
  <2> HIDE DEF a, b
  <2> QED
    BY <1>0, <1>2, <2>2, <2>3, <2>4, AnnouncedPair
<1> QED
  BY <1>1, <1>2

(* What comes behind other events, or begins with an offer if it tells of one,
   leaves the next event as it was. *)
LEMMA AheadGrows ==
    ASSUME NEW q \in Seq(Event), NEW r \in Seq(Event), Ahead(q),
           r # <<>> => ~Picks(r[1]),
           \A i \in DOMAIN r, m \in Modes : Picks(r[i]) => r[i].item # selection[m]
    PROVE  Ahead(q \o r)
<1>1. /\ \A i \in DOMAIN (q \o r) : \/ i \in DOMAIN q /\ (q \o r)[i] = q[i]
                                    \/ i - Len(q) \in DOMAIN r /\ (q \o r)[i] = r[i - Len(q)]
      /\ q # <<>> => q \o r # <<>> /\ (q \o r)[1] = q[1]
      /\ q = <<>> => q \o r = r
  OBVIOUS
<1>2. \A i \in DOMAIN (q \o r), m \in Modes : Picks((q \o r)[i]) => (q \o r)[i].item # selection[m]
  BY <1>1 DEF Ahead
<1>3. CASE q # <<>>
  BY <1>1, <1>2, <1>3 DEF Ahead
<1>4. CASE q = <<>>
  BY <1>1, <1>2, <1>4 DEF Ahead
<1> QED
  BY <1>3, <1>4

(* News of a fresh offer keeps the offers ahead of their selections. *)
LEMMA AheadNews ==
    ASSUME NEW q \in Seq(Event), NEW d \in Devices, NEW m \in Modes, NEW o \in Offers \cup {None},
           NEW c \in Callbacks \cup {None}, Ahead(q), Chosen, o \notin offers
    PROVE  Ahead(q \o Announce(d, m, o, c))
<1>0. Announce(d, m, o, c) \in Seq(Event)
  BY AnnounceMade
<1>1. \A n \in Modes : o # None => o # selection[n]
  BY DEF Chosen
<1>2. CASE o = None
  <2> DEFINE b == Selected(d, m, None, c)
  <2>1. ~Picks(b)
    BY EventOps DEF Picks
  <2>2. Announce(d, m, o, c) = <<b>>
    BY <1>2 DEF Announce
  <2> HIDE DEF b
  <2>3. \A i \in DOMAIN <<b>> : i = 1 /\ <<b>>[i] = b
    OBVIOUS
  <2>4. <<b>> \in Seq(Event) /\ ~Picks(<<b>>[1]) /\ \A i \in DOMAIN <<b>> : ~Picks(<<b>>[i])
    BY <1>0, <2>1, <2>2, <2>3
  <2>5. Ahead(q \o <<b>>)
    BY <2>4, AheadGrows
  <2> QED
    BY <2>2, <2>5
<1>3. CASE o # None
  <2> DEFINE a == Offered(d, o)
             b == Selected(d, m, o, c)
  <2>1. ~Picks(a) /\ b.item = o
    BY EventOps DEF Picks
  <2>2. Announce(d, m, o, c) = <<a, b>>
    BY <1>3 DEF Announce
  <2> HIDE DEF a, b
  <2>3. <<a, b>>[1] = a /\ \A i \in DOMAIN <<a, b>> : <<a, b>>[i] \in {a, b}
    OBVIOUS
  <2>4. <<a, b>> \in Seq(Event) /\ ~Picks(<<a, b>>[1])
    BY <1>0, <2>1, <2>2, <2>3
  <2>5. \A i \in DOMAIN <<a, b>>, n \in Modes : Picks(<<a, b>>[i]) => <<a, b>>[i].item # selection[n]
    BY <1>1, <1>3, <2>1, <2>3
  <2>6. Ahead(q \o <<a, b>>)
    BY <2>4, <2>5, AheadGrows
  <2> QED
    BY <2>2, <2>6
<1> QED
  BY <1>2, <1>3

(* Both together, for what an announcement, and a cancellation, adds. *)
Offering(q) == q \in Seq(Event) /\ Announced(q) /\ Ahead(q)

(* The same of both facts about a queue: it may gain news, *)
LEMMA OfferingNews ==
    ASSUME NEW q, NEW d \in Devices, NEW m \in Modes, NEW o \in Offers \cup {None},
           NEW c \in Callbacks \cup {None}, Offering(q), Chosen, o \notin offers, o # None => Unpicked(q, o)
    PROVE  /\ Offering(q \o Announce(d, m, o, c))
           /\ \A x : Unpicked(q, x) /\ x # o => Unpicked(q \o Announce(d, m, o, c), x)
BY AnnouncedNews, AheadNews DEF Offering

(* an event that is about no offer, *)
LEMMA OfferingPlain ==
    ASSUME NEW q, NEW e \in Event, Offering(q), e.op \notin {"offer", "selection"}
    PROVE  Offering(Append(q, e)) /\ \A x : Unpicked(q, x) => Unpicked(Append(q, e), x)
<1>1. e.op # "offer" /\ ~Picks(e)
  BY DEF Picks
<1>2. Append(q, e) = q \o <<e>> /\ <<e>> \in Seq(Event) /\ <<e>>[1] = e /\ DOMAIN <<e>> = {1}
  BY AppendIsConcat DEF Offering
<1>3. Append(q, e) \in Seq(Event)
  BY DEF Offering
<1>4. Ahead(Append(q, e))
  BY <1>1, <1>2, AheadGrows DEF Offering
<1> QED
  BY <1>1, <1>3, <1>4, AnnouncedPlain DEF Offering

(* and what a replaced source is told. *)
LEMMA OfferingDisplaced ==
    ASSUME NEW q, NEW m \in Modes, Offering(q)
    PROVE  Offering(q \o Displaced(m)) /\ \A x : Unpicked(q, x) => Unpicked(q \o Displaced(m), x)
<1>1. CASE theirSelection[m] \in Sources
  <2> DEFINE e == Cancelled(theirSelection[m])
  <2>1. e \in Event /\ e.op \notin {"offer", "selection"}
    BY <1>1, EventsMade, EventOps
  <2>2. Displaced(m) = <<e>>
    BY <1>1 DEF Displaced
  <2> HIDE DEF e
  <2>3. q \o Displaced(m) = Append(q, e)
    BY <2>1, <2>2, AppendIsConcat DEF Offering
  <2> QED
    BY <2>1, <2>3, OfferingPlain
<1>2. CASE theirSelection[m] \notin Sources
  <2>1. q \o Displaced(m) = q
    BY <1>2 DEF Displaced, Offering
  <2> QED
    BY <2>1
<1> QED
  BY <1>1, <1>2

(* The offers of a step that only adds events. *)
LEMMA OfferGrows ==
    ASSUME OfferInv, Offering(events'), UNCHANGED <<device, offers, selection>>
    PROVE  OfferInv'
BY DEF OfferInv, Offering, Ahead, Chosen

(* A new offer is in no event. *)
LEMMA FreshIsUnpicked ==
    ASSUME WireTypeOK, NEW o \in FreshOffers
    PROVE  o \in Offers /\ o \notin offers /\ Unpicked(events, o)
<1>1. o \in Offers /\ o \notin offers /\ ~Names("item", o)
  BY DEF FreshOffers
<1> QED
  BY <1>1, UnnamedEvents DEF Unpicked, Picks

(* The next event goes. *)
LEMMA AheadTail ==
    ASSUME NEW q \in Seq(Event), q # <<>>, Announced(q), q[1].op # "offer"
    PROVE  Tail(q) # <<>> => ~Picks(Tail(q)[1])
<1>1. ASSUME Tail(q) # <<>> PROVE 2 \in DOMAIN q /\ Tail(q)[1] = q[2]
  BY <1>1
<1>2. ASSUME 2 \in DOMAIN q, Picks(q[2]) PROVE FALSE
  <2>1. q[2 - 1].op = "offer"
    BY <1>2 DEF Announced
  <2> QED
    BY <2>1
<1> QED
  BY <1>1, <1>2

-----------------------------------------------------------------------------
(* The clipboard's own steps. *)

(* A retirement, with a device that no event names, or none. *)
LEMMA OffersRetire ==
    ASSUME WireTypeOK, Announced(events), Retire, events' \in {events, Tail(events)},
           events # <<>>  \/ events' = events,
           device' = None \/ device' \in FreshDevices
    PROVE  OfferInv'
<1>t. events \in Seq(Event) /\ events' \in Seq(Event)
  BY DEF WireTypeOK
<1>1. \A i \in DOMAIN events' : \E j \in DOMAIN events : events'[i] = events[j]
  <2>1. CASE events' = events
    BY <2>1
  <2>2. CASE events # <<>> /\ events' = Tail(events)
    <3>1. ASSUME NEW i \in DOMAIN events' PROVE i + 1 \in DOMAIN events /\ events'[i] = events[i + 1]
      BY <1>t, <2>2
    <3> QED
      BY <3>1
  <2> QED
    BY <2>1, <2>2
<1>2. \A j \in DOMAIN events : Picks(events[j]) => events[j].dev # device'
  <2>1. ASSUME NEW j \in DOMAIN events, Picks(events[j]) PROVE events[j].dev # device'
    <3>1. events[j] \in Event /\ events[j].op = "selection"
      BY <1>t, <2>1 DEF Picks
    <3>2. events[j].dev \in Devices
      BY <3>1, EventFields
    <3>3. CASE device' = None
      BY <3>2, <3>3, NamesAssumption
    <3>4. CASE device' \in FreshDevices
      BY <3>1, <3>4, UnnamedEvents DEF FreshDevices
    <3> QED
      BY <3>3, <3>4
  <2> QED
    BY <2>1
<1>3. offers' = {} /\ selection' = [m \in Modes |-> None]
  BY DEF Retire, Nothing
<1>4. Announced(events')
  BY <1>t, AnnouncedTail
<1>5. 1 \in DOMAIN events' \/ events' = <<>>
  BY <1>t
<1>6. Chosen'
  BY <1>3 DEF Chosen
<1>7. Ahead(events)'
  <2>1. ASSUME NEW i \in DOMAIN events', NEW m \in Modes, Picks(events'[i])
        PROVE  events'[i].item # selection'[m]
    BY <1>3, <2>1 DEF Picks
  <2>2. events' # <<>> => ~(Picks(events'[1]) /\ events'[1].dev = device')
    BY <1>1, <1>2, <1>5
  <2> QED
    BY <1>3, <2>1, <2>2 DEF Ahead
<1> QED
  BY <1>4, <1>6, <1>7 DEF OfferInv

(* An offer arrives; its selection is next. *)
LEMMA OffersArrive ==
    ASSUME WireTypeOK, OfferInv, NEW d \in Devices, NEW o \in Offers, OnOffer(d, o)
    PROVE  OfferInv'
<1>t. events \in Seq(Event) /\ events # <<>> /\ events' = Tail(events) /\ events[1] = Offered(d, o)
  BY DEF WireTypeOK, OnOffer, Receive
<1>1. events[1].op = "offer" /\ events[1].dev = d /\ events[1].item = o
  BY <1>t, EventOps
<1>2. 2 \in DOMAIN events /\ Picks(events[2]) /\ events[2].dev = d /\ events[2].item = o
  <2>1. 1 \in DOMAIN events /\ 1 + 1 = 2
    BY <1>t
  <2> QED
    BY <1>1, <2>1 DEF OfferInv, Announced
<1>3. events' # <<>> /\ events'[1] = events[2] /\ \A i \in DOMAIN events' : i + 1 \in DOMAIN events /\ events'[i] = events[i + 1]
  BY <1>t, <1>2
<1>4. UNCHANGED <<device, selection>> /\ offers' = IF d = device THEN offers \cup {o} ELSE offers
  BY DEF OnOffer, following, state
<1>5. Announced(events')
  BY <1>t, AnnouncedTail DEF OfferInv
<1>6. ~Picks(events[1])
  BY <1>1 DEF Picks
<1>7. offers \subseteq Range(selection)
  BY <1>6 DEF OfferInv, Ahead
<1>8. Chosen'
  BY <1>4 DEF OfferInv, Chosen
<1>9. Ahead(events)'
  <2>1. \A i \in DOMAIN events', m \in Modes : Picks(events'[i]) => events'[i].item # selection'[m]
    BY <1>3, <1>4 DEF OfferInv, Ahead
  <2>2. events'[1].dev = device' => events'[1].item \in offers'
    BY <1>2, <1>3, <1>4
  <2>3. \A x \in offers' : x \in Range(selection') \/ (Picks(events'[1]) /\ events'[1].dev = device' /\ events'[1].item = x)
    BY <1>2, <1>3, <1>4, <1>7
  <2> QED
    BY <1>3, <2>1, <2>2, <2>3 DEF Ahead
<1> QED
  BY <1>5, <1>8, <1>9 DEF OfferInv

(* A selection arrives, of this device or of another. *)
LEMMA OffersSelected ==
    ASSUME WireTypeOK, StateTypeOK, OfferInv, NEW d \in Devices, NEW m \in Modes, NEW o \in Offers \cup {None},
           NEW c \in Callbacks \cup {None}, OnSelection(d, m, o, c)
    PROVE  OfferInv'
<1>t. events \in Seq(Event) /\ events # <<>> /\ events' = Tail(events) /\ events[1] = Selected(d, m, o, c)
      /\ 1 \in DOMAIN events
  BY DEF WireTypeOK, OnSelection, Receive
<1>1. events[1].op = "selection" /\ events[1].dev = d /\ events[1].item = o /\ (o # None => Picks(events[1]))
      /\ (Picks(events[1]) => o # None)
  BY <1>t, EventOps DEF Picks
<1>2. \A i \in DOMAIN events' : i \in Nat /\ i + 1 \in DOMAIN events /\ i + 1 # 1 /\ events'[i] = events[i + 1]
  BY <1>t
<1>3. Announced(events')
  BY <1>t, AnnouncedTail DEF OfferInv
<1>4. events' # <<>> => ~Picks(events'[1])
  BY <1>t, <1>1, AheadTail DEF OfferInv
<1>5. CASE d # device
  <2>1. UNCHANGED <<device, offers, selection>>
    BY <1>5 DEF OnSelection, Concerns, following, state
  <2>2. offers \subseteq Range(selection)
    BY <1>1, <1>5 DEF OfferInv, Ahead
  <2> QED
    BY <1>2, <1>3, <1>4, <2>1, <2>2 DEF OfferInv, Ahead, Chosen
<1>6. CASE d = device
  <2>1. /\ o \in offers \cup {None} /\ device' = device
        /\ selection' = [selection EXCEPT ![m] = o]
        /\ offers' = offers \ ({selection[m]} \ {o})
    BY <1>6 DEF OnSelection, Concerns, Select, following
  <2>2. /\ selection'[m] = o /\ DOMAIN selection' = Modes /\ DOMAIN selection = Modes
        /\ \A n \in Modes : n # m => selection'[n] = selection[n]
    BY <2>1 DEF StateTypeOK
  <2>3. o # None => \A n \in Modes : selection[n] # o
    BY <1>1, <1>t DEF OfferInv, Ahead
  <2>4. Chosen'
    <3>1. ASSUME NEW n \in Modes PROVE selection'[n] \in offers' \cup {None}
      <4>1. CASE n = m
        BY <2>1, <2>2, <4>1
      <4>2. CASE n # m
        BY <2>1, <2>2, <4>2 DEF OfferInv, Chosen
      <4> QED
        BY <4>1, <4>2
    <3>2. ASSUME NEW n \in Modes, NEW k \in Modes, n # k, selection'[n] = selection'[k]
          PROVE  selection'[n] = None
      BY <2>2, <2>3, <3>2 DEF OfferInv, Chosen
    <3> QED
      BY <3>1, <3>2 DEF Chosen
  <2>5. ASSUME NEW i \in DOMAIN events', NEW n \in Modes, Picks(events'[i])
        PROVE  events'[i].item # selection'[n]
    <3>1. Picks(events[i + 1]) /\ events'[i] = events[i + 1] /\ i + 1 \in DOMAIN events /\ i + 1 # 1
      BY <1>2, <2>5
    <3>2. events[i + 1].item # selection[n]
      BY <3>1 DEF OfferInv, Ahead
    <3>3. events[i + 1].item # o
      BY <1>1, <1>t, <3>1 DEF OfferInv, Announced, Picks
    <3> QED
      BY <2>2, <3>1, <3>2, <3>3
  <2>6. \A x \in offers' : x \in Range(selection')
    <3>1. ASSUME NEW x \in offers' PROVE \E n \in Modes : selection'[n] = x
      <4>1. CASE x = o
        BY <2>2, <4>1
      <4>2. CASE x # o
        <5>1. x \in offers /\ x # selection[m]
          BY <2>1, <4>2
        <5>2. x \in Range(selection)
          BY <1>1, <4>2, <5>1 DEF OfferInv, Ahead
        <5>3. PICK n \in Modes : selection[n] = x
          BY <2>2, <5>2 DEF Range
        <5> QED
          BY <2>2, <5>1, <5>3
      <4> QED
        BY <4>1, <4>2
    <3> QED
      BY <2>2, <3>1 DEF Range
  <2>7. Ahead(events)'
    BY <1>4, <2>5, <2>6 DEF Ahead
  <2> QED
    BY <1>3, <2>4, <2>7 DEF OfferInv
<1> QED
  BY <1>5, <1>6

(* Any other event. *)
LEMMA OffersPassed ==
    ASSUME WireTypeOK, OfferInv, NEW e, Receive(e), e.op \notin {"offer", "selection"},
           UNCHANGED <<device, offers, selection>>
    PROVE  OfferInv'
<1>t. events \in Seq(Event) /\ events # <<>> /\ events' = Tail(events) /\ events[1] = e
  BY DEF WireTypeOK, Receive
<1>1. ~Picks(events[1]) /\ events[1].op # "offer"
  BY <1>t DEF Picks
<1>2. Announced(events') /\ (events' # <<>> => ~Picks(events'[1]))
  BY <1>t, <1>1, AnnouncedTail, AheadTail DEF OfferInv
<1>3. \A i \in DOMAIN events' : i + 1 \in DOMAIN events /\ events'[i] = events[i + 1]
  BY <1>t
<1>4. offers \subseteq Range(selection)
  BY <1>1 DEF OfferInv, Ahead
<1> QED
  BY <1>2, <1>3, <1>4 DEF OfferInv, Ahead, Chosen

(* The clear in front of a request. *)
LEMMA OffersCleared ==
    ASSUME WireTypeOK, StateTypeOK, OfferInv, NEW m \in Modes, UNCHANGED <<device, events>>,
           Select(m, None) \/ UNCHANGED <<selection, offers>>
    PROVE  OfferInv'
<1>1. CASE UNCHANGED <<selection, offers>>
  BY <1>1 DEF OfferInv, Chosen, Ahead
<1>2. CASE Select(m, None)
  <2>1. /\ selection'[m] = None /\ DOMAIN selection' = Modes /\ DOMAIN selection = Modes
        /\ \A n \in Modes : n # m => selection'[n] = selection[n]
        /\ offers' = offers \ ({selection[m]} \ {None})
    BY <1>2 DEF Select, StateTypeOK
  <2>2. Chosen'
    BY <2>1 DEF OfferInv, Chosen
  <2>3. ASSUME NEW i \in DOMAIN events, NEW n \in Modes, Picks(events[i]) PROVE events[i].item # selection'[n]
    BY <2>1, <2>3 DEF OfferInv, Ahead, Picks
  <2>4. events # <<>> /\ Picks(events[1]) /\ events[1].dev = device => events[1].item \in offers'
    <3>1. ASSUME events # <<>>, Picks(events[1]) PROVE events[1].item # selection[m]
      <4>1. 1 \in DOMAIN events
        BY <3>1 DEF WireTypeOK
      <4> QED
        BY <3>1, <4>1 DEF OfferInv, Ahead
    <3>2. ASSUME events # <<>>, Picks(events[1]), events[1].dev = device PROVE events[1].item \in offers
      BY <3>2 DEF OfferInv, Ahead
    <3> QED
      BY <2>1, <3>1, <3>2
  <2>5. ASSUME NEW x \in offers', x \in Range(selection) PROVE x \in Range(selection')
    <3>1. PICK n \in Modes : selection[n] = x
      BY <2>1, <2>5 DEF Range
    <3>2. n # m \/ x = None
      BY <2>1, <3>1
    <3> QED
      BY <2>1, <3>1, <3>2 DEF Range
  <2>6. Ahead(events)'
    BY <2>1, <2>3, <2>4, <2>5 DEF OfferInv, Ahead
  <2> QED
    BY <2>2, <2>6 DEF OfferInv
<1> QED
  BY <1>1, <1>2

-----------------------------------------------------------------------------
(* The compositor's news. *)
LEMMA OffersPresent ==
    ASSUME WireTypeOK, ProxyTypeOK, OfferInv, NEW d \in Devices, ServeGet(d)
    PROVE  OfferInv'
<1>0. Offering(events)
  BY DEF OfferInv, Offering, WireTypeOK
<1>1. PICK given \in [Modes -> FreshOffers \cup {None}] :
        /\ \A m, n \in Modes : m # n /\ given[m] = given[n] => given[m] = None
        /\ events' = events \o Present(d, "main", given) \o Present(d, "select", given)
  BY DEF ServeGet
<1>2. \A m \in Modes : /\ given[m] \in Offers \cup {None} /\ given[m] \notin offers
                       /\ given[m] # None => Unpicked(events, given[m])
  <2>1. \A m \in Modes : given[m] \in FreshOffers \cup {None}
    BY <1>1
  <2>2. None \notin offers
    BY NamesAssumption DEF ProxyTypeOK
  <2> QED
    BY <2>1, <2>2, FreshIsUnpicked
<1>3. None \in Callbacks \cup {None} /\ Chosen /\ UNCHANGED <<device, offers, selection>>
  BY DEF OfferInv, ServeGet, clipboard, following, state, proxies
<1>4. /\ Offering(events \o Present(d, "main", given))
      /\ \A m \in Modes : m # "main" /\ given[m] # None => Unpicked(events \o Present(d, "main", given), given[m])
  <2>1. CASE "main" \in Modes
    <3>1. Present(d, "main", given) = Announce(d, "main", given["main"], None)
      BY <2>1 DEF Present
    <3>2. \A m \in Modes : m # "main" /\ given[m] # None => given[m] # given["main"]
      BY <1>1, <2>1
    <3> QED
      BY <1>0, <1>2, <1>3, <2>1, <3>1, <3>2, OfferingNews
  <2>2. CASE "main" \notin Modes
    <3>1. events \o Present(d, "main", given) = events
      BY <1>0, <2>2 DEF Present, Offering
    <3> QED
      BY <1>0, <1>2, <3>1
  <2> QED
    BY <2>1, <2>2
<1>5. Offering(events')
  <2>1. CASE "select" \in Modes
    <3>1. Present(d, "select", given) = Announce(d, "select", given["select"], None)
      BY <2>1 DEF Present
    <3> QED
      BY <1>1, <1>2, <1>3, <1>4, <2>1, <3>1, OfferingNews
  <2>2. CASE "select" \notin Modes
    <3>1. events' = events \o Present(d, "main", given)
      BY <1>1, <1>4, <2>2 DEF Present, Offering
    <3> QED
      BY <1>4, <3>1
  <2> QED
    BY <2>1, <2>2
<1> QED
  BY <1>3, <1>5, OfferGrows

(* The compositor changes one mode and says so. *)
LEMMA OffersAnswer ==
    ASSUME WireTypeOK, ProxyTypeOK, OfferInv, NEW d \in Devices, NEW m \in Modes, NEW o \in FreshOffers \cup {None},
           NEW c \in Callbacks \cup {None}, UNCHANGED clipboard,
           events' = events \o Displaced(m) \o Announce(d, m, o, c)
    PROVE  OfferInv'
<1>0. Offering(events) /\ Chosen /\ UNCHANGED <<device, offers, selection>>
  BY DEF OfferInv, Offering, WireTypeOK, clipboard, following, state, proxies
<1>1. o \in Offers \cup {None} /\ o \notin offers /\ (o # None => Unpicked(events, o))
  <2>1. None \notin offers
    BY NamesAssumption DEF ProxyTypeOK
  <2> QED
    BY <2>1, FreshIsUnpicked
<1>2. Offering(events \o Displaced(m)) /\ (o # None => Unpicked(events \o Displaced(m), o))
  BY <1>0, <1>1, OfferingDisplaced
<1>3. Offering(events')
  BY <1>0, <1>1, <1>2, OfferingNews
<1> QED
  BY <1>0, <1>3, OfferGrows

(* Every step keeps what an offer may rely on. *)
LEMMA OfferStep ==
    ASSUME WireTypeOK, LinkTypeOK, ProxyTypeOK, StateTypeOK, OfferInv, [Next]_vars
    PROVE  OfferInv'
<1>0. Offering(events)
  BY DEF OfferInv, Offering, WireTypeOK
<1>s. ASSUME UNCHANGED clipboard PROVE UNCHANGED <<device, offers, selection>>
  BY <1>s DEF clipboard, following, state, proxies
<1>1. CASE Still
  BY <1>1 DEF Still, wire, proxies, OfferInv, Chosen, Ahead
<1>2. CASE Leaves
  BY <1>2, OffersRetire DEF Leaves, OfferInv
<1>3. CASE Disconnect
  <2>1. events' = <<>> /\ offers' = {} /\ selection' = [m \in Modes |-> None]
    BY <1>3 DEF Disconnect, Retire, Nothing
  <2> QED
    BY <2>1 DEF OfferInv, Announced, Ahead, Chosen
<1>4. CASE Finish
  <2>1. Finished(theirDevice) \in Event /\ Finished(theirDevice).op \notin {"offer", "selection"}
    BY <1>4, EventsMade, EventOps DEF Finish, LinkTypeOK
  <2>2. Offering(events')
    BY <1>0, <1>4, <2>1, OfferingPlain DEF Finish
  <2> QED
    BY <1>4, <1>s, <2>2, OfferGrows DEF Finish
<1>5. ASSUME NEW d \in Devices, NEW o \in Offers, OnOffer(d, o) PROVE OfferInv'
  BY <1>5, OffersArrive
<1>6. ASSUME NEW d \in Devices, NEW m \in Modes, NEW o \in Offers \cup {None},
             NEW c \in Callbacks \cup {None}, OnSelection(d, m, o, c)
      PROVE  OfferInv'
  BY <1>6, OffersSelected
<1>7. ASSUME NEW d \in Devices, d = device, OnFinished(d) PROVE OfferInv'
  BY <1>7, OffersRetire DEF OnFinished, Receive, RetireOnly, OfferInv
<1>8. ASSUME NEW d \in Devices, d # device, OnFinished(d) PROVE OfferInv'
  <2>1. Finished(d).op \notin {"offer", "selection"}
    BY EventOps
  <2> QED
    BY <1>8, <1>s, <2>1, OffersPassed DEF OnFinished
<1>9. ASSUME NEW s \in Sources, OnCancelled(s) PROVE OfferInv'
  <2>1. Cancelled(s).op \notin {"offer", "selection"}
    BY EventOps
  <2> QED
    BY <1>9, <2>1, OffersPassed DEF OnCancelled, following, state
<1>10. ASSUME NEW c \in Callbacks, OnDone(c) PROVE OfferInv'
  <2>1. Done(c).op \notin {"offer", "selection"}
    BY EventOps
  <2> QED
    BY <1>10, <1>s, <2>1, OffersPassed DEF OnDone
<1>11. ASSUME NEW w \in Writers, NEW m \in Modes, Write(w, m) PROVE OfferInv'
  BY <1>11, OffersCleared DEF Write, SetSelection, Sets, following, state
<1>12. ASSUME NEW m \in Modes, NEW s \in FreshSources \cup {None}, Sends(m, s) PROVE OfferInv'
  BY <1>12, OffersCleared DEF Sends, Sets, state
<1>13. ASSUME NEW d \in Devices, ServeGet(d) PROVE OfferInv'
  BY <1>13, OffersPresent
<1>14. ASSUME UNCHANGED <<clipboard, events>> PROVE OfferInv'
  BY <1>14, <1>s DEF OfferInv, Chosen, Ahead
<1>15. ASSUME NEW d \in Devices, NEW m \in Modes, NEW s \in Sources \cup {None},
              NEW c \in Callbacks \cup {None}, ServeSet(d, m, s, c)
       PROVE  OfferInv'
  <2>1. UNCHANGED clipboard
    BY <1>15 DEF ServeSet
  <2>2. CASE UNCHANGED events
    BY <1>14, <2>1, <2>2
  <2>3. CASE events' = events \o Displaced(m) \o Announce(d, m, None, c)
    BY <2>1, <2>3, OffersAnswer
  <2>4. CASE events' = events \o Displaced(m) \o <<>>
    <3>1. Offering(events \o Displaced(m))
      BY <1>0, OfferingDisplaced
    <3>2. Offering(events')
      BY <2>4, <3>1 DEF Offering
    <3> QED
      BY <1>s, <2>1, <3>2, OfferGrows
  <2>5. ASSUME NEW o \in FreshOffers, events' = events \o Displaced(m) \o Announce(d, m, o, c)
        PROVE  OfferInv'
    BY <2>1, <2>5, OffersAnswer
  <2> QED
    BY <1>15, <2>2, <2>3, <2>4, <2>5 DEF ServeSet
<1>16. ASSUME NEW c \in Callbacks, ServeSync(c) PROVE OfferInv'
  <2>1. Done(c) \in Event /\ Done(c).op \notin {"offer", "selection"}
    BY EventsMade, EventOps
  <2>2. Offering(events')
    BY <1>0, <1>16, <2>1, OfferingPlain DEF ServeSync
  <2> QED
    BY <1>16, <1>s, <2>2, OfferGrows DEF ServeSync
<1>17. ASSUME NEW m \in Modes, Copy(m) PROVE OfferInv'
  <2>1. theirDevice \in Devices /\ None \in Callbacks \cup {None} /\ UNCHANGED clipboard
    BY <1>17 DEF Copy, LinkTypeOK
  <2> QED
    BY <1>17, <2>1, OffersAnswer DEF Copy
<1>18. ASSUME NEW d \in Devices, ServeGone(d) PROVE OfferInv'
  BY <1>14, <1>18 DEF ServeGone
<1> QED
  BY <1>1, <1>2, <1>3, <1>4, <1>5, <1>6, <1>7, <1>8, <1>9, <1>10, <1>11, <1>12, <1>13, <1>15, <1>16, <1>17, <1>18, Steps

(* What is kept of the offers is that they are owned. *)
LEMMA OffersMean ==
    ASSUME WireTypeOK, StateTypeOK, ProxyTypeOK, OfferInv
    PROVE  OffersOwned
<1>1. \A m \in Modes : selection[m] \in offers \cup {None}
  BY DEF OfferInv, Chosen
<1>2. ASSUME NEW o \in offers, o \notin Range(selection)
      PROVE  \E m \in Modes, c \in Callbacks \cup {None} : Selected(device, m, o, c) \in Range(events)
  <2>1. events # <<>> /\ Picks(events[1]) /\ events[1].dev = device /\ events[1].item = o
    BY <1>2 DEF OfferInv, Ahead
  <2>2. events[1] \in Event /\ events[1] \in Range(events)
    BY <2>1 DEF WireTypeOK, Range
  <2>3. /\ events[1].mode \in Modes /\ events[1].by \in Callbacks \cup {None}
        /\ events[1] = Selected(device, events[1].mode, o, events[1].by)
    BY <2>1, <2>2, EventFields DEF Picks
  <2> QED
    BY <2>2, <2>3
<1>3. ASSUME NEW i \in DOMAIN events, events[i].op = "selection", events[i].dev = device,
             events[i].item # None
      PROVE  events[i].item \in offers \/ \E j \in 1..i - 1 : events[j] = Offered(device, events[i].item)
  <2>0. Picks(events[i])
    BY <1>3 DEF Picks
  <2>1. CASE i = 1
    BY <1>3, <2>0, <2>1 DEF OfferInv, Ahead, WireTypeOK
  <2>2. CASE i # 1
    <3>1. events[i - 1].op = "offer" /\ events[i - 1].dev = device /\ events[i - 1].item = events[i].item
      BY <1>3, <2>0, <2>2 DEF OfferInv, Announced
    <3>2. i - 1 \in 1..i - 1 /\ events[i - 1] \in Event
      BY <2>2 DEF WireTypeOK
    <3>3. events[i - 1] = Offered(device, events[i].item)
      BY <3>1, <3>2, EventFields
    <3> QED
      BY <3>2, <3>3
  <2> QED
    BY <2>1, <2>2
<1> QED
  BY <1>1, <1>2, <1>3 DEF OffersOwned

-----------------------------------------------------------------------------
(* Requests by their fields, and by their places. *)

Turns(r) == r.op \in {"get", "gone"}
Asks(r) == r.op = "set"

(* The fields of the requests that are made. *)
LEMMA RequestOps ==
    /\ \A d : Get(d).op = "get" /\ Get(d).dev = d /\ Gone(d).op = "gone" /\ Gone(d).dev = d
    /\ \A d, m, s, c : LET r == Set(d, m, s, c) IN
          r.op = "set" /\ r.dev = d /\ r.mode = m /\ r.item = s
    /\ \A c : Sync(c).op = "sync"
BY DEF Get, Gone, Set, Sync

(* A request about a device names one, and one about a mode names that. *)
LEMMA RequestFields ==
    ASSUME NEW r \in Request
    PROVE  /\ Turns(r) \/ Asks(r) => r.dev \in Devices
           /\ Asks(r) => r.mode \in Modes /\ r.item \in Sources \cup {None}
BY DEF Request, Turns, Asks

(* What no message names, no request names. *)
LEMMA UnnamedRequests ==
    ASSUME WireTypeOK, NEW x, NEW i \in DOMAIN requests
    PROVE  /\ ~Names("item", x) => (Asks(requests[i]) => requests[i].item # x)
           /\ ~Names("dev", x) => (Turns(requests[i]) \/ Asks(requests[i]) => requests[i].dev # x)
<1>1. requests[i] \in Request /\ requests[i] \in Messages
  BY DEF WireTypeOK, Messages, Range
<1>2. /\ Asks(requests[i]) => "item" \in DOMAIN requests[i]
      /\ Turns(requests[i]) \/ Asks(requests[i]) => "dev" \in DOMAIN requests[i]
  BY <1>1 DEF Request, Turns, Asks
<1> QED
  BY <1>1, <1>2 DEF Names

(* q has lost its first, and q has grown behind its last. *)
Shifted(q, r) ==
    /\ \A i \in DOMAIN r : i + 1 \in DOMAIN q /\ r[i] = q[i + 1]
    /\ \A j \in DOMAIN q : j = 1 \/ (j - 1 \in DOMAIN r /\ r[j - 1] = q[j])
    /\ DOMAIN q \subseteq Nat /\ DOMAIN r \subseteq Nat /\ 1 \in DOMAIN q
    /\ (\A j \in DOMAIN q : 1 <= j) /\ \A j \in DOMAIN r : 1 <= j

Grown(q, r) ==
    /\ \A i \in DOMAIN q : i \in DOMAIN r /\ r[i] = q[i]
    /\ \A i \in DOMAIN r, j \in DOMAIN q : i \in DOMAIN q \/ j < i
    /\ DOMAIN q \subseteq Nat /\ DOMAIN r \subseteq Nat

(* A queue whose first is taken is shifted. *)
LEMMA TailShifts ==
    ASSUME NEW M, NEW q \in Seq(M), q # <<>>
    PROVE  Shifted(q, Tail(q))
BY DEF Shifted

(* A queue that gains a message has grown by that one. *)
LEMMA AppendGrows ==
    ASSUME NEW M, NEW q \in Seq(M), NEW e \in M
    PROVE  /\ Grown(q, Append(q, e))
           /\ \A i \in DOMAIN Append(q, e) : i \in DOMAIN q \/ Append(q, e)[i] = e
           /\ \E i \in DOMAIN Append(q, e) : Append(q, e)[i] = e /\ \A j \in DOMAIN q : j < i
<1>1. Len(q) + 1 \in DOMAIN Append(q, e) /\ Append(q, e)[Len(q) + 1] = e /\ \A j \in DOMAIN q : j < Len(q) + 1
  OBVIOUS
<1>2. Grown(q, Append(q, e))
  BY DEF Grown
<1>3. \A i \in DOMAIN Append(q, e) : i \in DOMAIN q \/ Append(q, e)[i] = e
  OBVIOUS
<1> QED
  BY <1>1, <1>2, <1>3

(* A queue that has grown twice has grown. *)
LEMMA GrownTwice ==
    ASSUME NEW q, NEW r, NEW s, Grown(q, r), Grown(r, s)
    PROVE  Grown(q, s)
<1>1. \A i \in DOMAIN q : i \in DOMAIN s /\ s[i] = q[i]
  BY DEF Grown
<1>2. ASSUME NEW i \in DOMAIN s, NEW j \in DOMAIN q, i \notin DOMAIN q PROVE j < i
  <2>1. CASE i \in DOMAIN r
    BY <1>2, <2>1 DEF Grown
  <2>2. CASE i \notin DOMAIN r
    BY <1>2, <2>2 DEF Grown
  <2> QED
    BY <2>1, <2>2
<1> QED
  BY <1>1, <1>2 DEF Grown

-----------------------------------------------------------------------------
(* What the compositor tells of sources and devices. *)

Told(q) == {e \in Range(q) : e.op \in {"cancelled", "finished"}}

(* What is told of objects that end when the first event is taken, *)
LEMMA ToldTail ==
    ASSUME NEW q \in Seq(Event), q # <<>>
    PROVE  /\ Told(Tail(q)) \subseteq Told(q) /\ Told(q) \subseteq Told(Tail(q)) \cup {Head(q)}
           /\ Head(q).op \notin {"cancelled", "finished"} => Told(Tail(q)) = Told(q)
           /\ Head(q).op \in {"cancelled", "finished"} => Head(q) \in Told(q)
<1>1. /\ \A i \in DOMAIN Tail(q) : i + 1 \in DOMAIN q /\ Tail(q)[i] = q[i + 1]
      /\ \A j \in DOMAIN q : q[j] = Head(q) \/ (j - 1 \in DOMAIN Tail(q) /\ Tail(q)[j - 1] = q[j])
      /\ 1 \in DOMAIN q /\ q[1] = Head(q)
  OBVIOUS
<1>2. Range(Tail(q)) \subseteq Range(q) /\ Range(q) \subseteq Range(Tail(q)) \cup {Head(q)} /\ Head(q) \in Range(q)
  BY <1>1 DEF Range
<1> QED
  BY <1>2 DEF Told

(* when two queues meet, *)
LEMMA ToldConcat ==
    ASSUME NEW q \in Seq(Event), NEW r \in Seq(Event)
    PROVE  Told(q \o r) = Told(q) \cup Told(r)
<1>1. /\ \A i \in DOMAIN q : i \in DOMAIN (q \o r) /\ (q \o r)[i] = q[i]
      /\ \A i \in DOMAIN r : Len(q) + i \in DOMAIN (q \o r) /\ (q \o r)[Len(q) + i] = r[i]
      /\ \A i \in DOMAIN (q \o r) : \/ i \in DOMAIN q /\ (q \o r)[i] = q[i]
                                    \/ i - Len(q) \in DOMAIN r /\ (q \o r)[i] = r[i - Len(q)]
  OBVIOUS
<1>2. \A e \in Range(q \o r) : e \in Range(q) \/ e \in Range(r)
  <2>1. ASSUME NEW i \in DOMAIN (q \o r) PROVE (q \o r)[i] \in Range(q) \/ (q \o r)[i] \in Range(r)
    BY <1>1 DEF Range
  <2> QED
    BY <2>1 DEF Range
<1>3. \A e \in Range(q) : e \in Range(q \o r)
  BY <1>1 DEF Range
<1>4. \A e \in Range(r) : e \in Range(q \o r)
  <2>1. ASSUME NEW i \in DOMAIN r PROVE r[i] \in Range(q \o r)
    <3>1. Len(q) + i \in DOMAIN (q \o r) /\ (q \o r)[Len(q) + i] = r[i]
      BY <1>1
    <3> QED
      BY <3>1, Zenon DEF Range
  <2> QED
    BY <2>1 DEF Range
<1> QED
  BY <1>2, <1>3, <1>4 DEF Told

(* in one event, *)
LEMMA ToldOne ==
    ASSUME NEW e \in Event
    PROVE  Told(<<e>>) = IF e.op \in {"cancelled", "finished"} THEN {e} ELSE {}
<1>1. Range(<<e>>) = {e}
  BY DEF Range
<1> QED
  BY <1>1 DEF Told

(* and when an event is added. *)
LEMMA ToldAppend ==
    ASSUME NEW q \in Seq(Event), NEW e \in Event
    PROVE  /\ e.op \in {"cancelled", "finished"} => Told(Append(q, e)) = Told(q) \cup {e}
           /\ e.op \notin {"cancelled", "finished"} => Told(Append(q, e)) = Told(q)
<1>1. Append(q, e) = q \o <<e>> /\ <<e>> \in Seq(Event)
  BY AppendIsConcat
<1>2. Told(q \o <<e>>) = Told(q) \cup Told(<<e>>)
  BY <1>1, ToldConcat
<1> QED
  BY <1>1, <1>2, ToldOne

(* An announcement tells of no end, *)
LEMMA AnnounceTold ==
    ASSUME NEW d \in Devices, NEW m \in Modes, NEW o \in Offers \cup {None}, NEW c \in Callbacks \cup {None}
    PROVE  Told(Announce(d, m, o, c)) = {}
<1>1. CASE o = None
  <2>1. Announce(d, m, o, c) = <<Selected(d, m, None, c)>> /\ Selected(d, m, None, c) \in Event
    BY <1>1, EventsMade DEF Announce
  <2> QED
    BY <2>1, ToldOne, EventOps
<1>2. CASE o # None
  <2> DEFINE a == Offered(d, o)
             b == Selected(d, m, o, c)
  <2>1. a.op = "offer" /\ b.op = "selection"
    BY EventOps
  <2>2. Announce(d, m, o, c) = <<a, b>>
    BY <1>2 DEF Announce
  <2> HIDE DEF a, b
  <2>3. Range(<<a, b>>) = {a, b}
    BY DEF Range
  <2> QED
    BY <2>1, <2>2, <2>3 DEF Told
<1> QED
  BY <1>1, <1>2

(* nor does what a new device learns; *)
LEMMA PresentTold ==
    ASSUME NEW d \in Devices, NEW m, NEW given \in [Modes -> Offers \cup {None}]
    PROVE  Told(Present(d, m, given)) = {}
<1>1. CASE m \in Modes
  <2>1. given[m] \in Offers \cup {None} /\ None \in Callbacks \cup {None}
    BY <1>1
  <2> QED
    BY <1>1, <2>1, AnnounceTold DEF Present
<1>2. CASE m \notin Modes
  BY <1>2 DEF Present, Told, Range
<1> QED
  BY <1>1, <1>2

(* a replaced source is told of its own. *)
LEMMA DisplacedTold ==
    ASSUME NEW m \in Modes
    PROVE  Told(Displaced(m)) = IF theirSelection[m] \in Sources THEN {Cancelled(theirSelection[m])} ELSE {}
<1>1. CASE theirSelection[m] \in Sources
  <2>1. Cancelled(theirSelection[m]) \in Event
    BY <1>1, EventsMade
  <2> QED
    BY <1>1, <2>1, ToldOne, EventOps DEF Displaced
<1>2. CASE theirSelection[m] \notin Sources
  BY <1>2 DEF Displaced, Told, Range
<1> QED
  BY <1>1, <1>2

(* Only these two say which source, and which device. *)
LEMMA ToldApart ==
    /\ \A s, t : Cancelled(s) = Cancelled(t) => s = t
    /\ \A d, e : Finished(d) = Finished(e) => d = e
    /\ \A s, d : Cancelled(s) # Finished(d)
<1>1. \A s, t : Cancelled(s) = Cancelled(t) => s = t
  BY EventOps
<1>2. \A d, e : Finished(d) = Finished(e) => d = e
  BY EventOps
<1>3. ASSUME NEW s, NEW d, Cancelled(s) = Finished(d) PROVE FALSE
  <2>1. Cancelled(s).op = "cancelled" /\ Finished(d).op = "finished"
    BY EventOps
  <2> QED
    BY <1>3, <2>1
<1> QED
  BY <1>1, <1>2, <1>3

(* The answers to a selection request, or another client's selection. *)
LEMMA AnswerTold ==
    ASSUME WireTypeOK, NEW d \in Devices, NEW m \in Modes, NEW o \in Offers \cup {None},
           NEW c \in Callbacks \cup {None},
           \/ events' = events \o Displaced(m) \o Announce(d, m, o, c)
           \/ events' = events \o Displaced(m) \o <<>>
    PROVE  Told(events') = Told(events) \cup Told(Displaced(m))
<1>1. events \in Seq(Event) /\ Displaced(m) \in Seq(Event) /\ events \o Displaced(m) \in Seq(Event)
  BY DisplacedMade DEF WireTypeOK
<1>2. Told(events \o Displaced(m)) = Told(events) \cup Told(Displaced(m))
  BY <1>1, ToldConcat
<1>3. CASE events' = events \o Displaced(m) \o <<>>
  <2>1. events' = events \o Displaced(m)
    BY <1>1, <1>3
  <2> QED
    BY <1>2, <2>1
<1>4. CASE events' = events \o Displaced(m) \o Announce(d, m, o, c)
  <2>1. Announce(d, m, o, c) \in Seq(Event) /\ Told(Announce(d, m, o, c)) = {}
    BY AnnounceMade, AnnounceTold
  <2>2. Told(events') = Told(events \o Displaced(m)) \cup Told(Announce(d, m, o, c))
    BY <1>1, <1>4, <2>1, ToldConcat
  <2> QED
    BY <1>2, <2>1, <2>2
<1> QED
  BY <1>3, <1>4

(* A new device hears of no end. *)
LEMMA PresentsTold ==
    ASSUME WireTypeOK, NEW d \in Devices, NEW given \in [Modes -> Offers \cup {None}],
           events' = events \o Present(d, "main", given) \o Present(d, "select", given)
    PROVE  Told(events') = Told(events)
<1> DEFINE a == Present(d, "main", given)
           b == Present(d, "select", given)
<1>1. a \in Seq(Event) /\ b \in Seq(Event) /\ Told(a) = {} /\ Told(b) = {} /\ events' = events \o a \o b
  BY PresentMade, PresentTold
<1> HIDE DEF a, b
<1>2. events \in Seq(Event) /\ events \o a \in Seq(Event)
  BY <1>1 DEF WireTypeOK
<1>3. Told(events \o a) = Told(events) \cup Told(a)
  BY <1>1, <1>2, ToldConcat
<1>4. Told((events \o a) \o b) = Told(events \o a) \cup Told(b)
  BY <1>1, <1>2, ToldConcat
<1> QED
  BY <1>1, <1>3, <1>4

-----------------------------------------------------------------------------
(* The device on both sides. *)

Awaited(q, d) == \E i \in DOMAIN q : q[i] = Get(d)
Calm(q) == \A i \in DOMAIN q : ~Turns(q[i])

(* The request for a device is the last that creates or destroys one, and what
   is asked of the device comes behind it. *)
Line(q, d) ==
    /\ \A i, j \in DOMAIN q : q[i] = Get(d) /\ Turns(q[j]) => j <= i
    /\ \A i \in DOMAIN q : q[i] # Gone(d)
    /\ \A i, j \in DOMAIN q : Asks(q[i]) /\ q[i].dev = d /\ q[j] = Get(d) => j < i

Ended == Finished(device) \in Told(events)

DeviceInv ==
    /\ Line(requests, device)
    /\ theirDevice = device => ~Awaited(requests, device)
    /\ device # None =>
          /\ Awaited(requests, device) \/ Calm(requests)
          /\ theirDevice = device \/ Awaited(requests, device) \/ Ended

(* Without a device there is nothing to order. *)
LEMMA NoLine ==
    ASSUME NEW q \in Seq(Request)
    PROVE  Line(q, None) /\ ~Awaited(q, None)
<1>1. ASSUME NEW i \in DOMAIN q, Turns(q[i]) \/ Asks(q[i]) PROVE q[i].dev # None
  <2>1. q[i] \in Request
    OBVIOUS
  <2>2. q[i].dev \in Devices
    BY <1>1, <2>1, RequestFields
  <2> QED
    BY <2>2, NamesAssumption
<1>2. \A i \in DOMAIN q : q[i] # Get(None) /\ q[i] # Gone(None)
  BY <1>1, RequestOps DEF Turns
<1> QED
  BY <1>2 DEF Line, Awaited

(* The line of requests about a device when the first is served. *)
LEMMA LineShifts ==
    ASSUME NEW q, NEW r, NEW d, Shifted(q, r), Line(q, d)
    PROVE  /\ Line(r, d)
           /\ Awaited(r, d) => Awaited(q, d)
           /\ Awaited(q, d) => Awaited(r, d) \/ q[1] = Get(d)
           /\ Calm(q) => Calm(r)
           /\ q[1] = Get(d) => ~Awaited(r, d) /\ Calm(r)
           /\ Asks(q[1]) /\ q[1].dev = d => ~Awaited(q, d)
<1>1. ASSUME NEW i \in DOMAIN r, NEW j \in DOMAIN r, r[i] = Get(d), Turns(r[j]) PROVE j <= i
  <2>1. i + 1 \in DOMAIN q /\ j + 1 \in DOMAIN q /\ q[i + 1] = Get(d) /\ Turns(q[j + 1]) /\ i \in Nat /\ j \in Nat
    BY <1>1 DEF Shifted
  <2>2. j + 1 <= i + 1
    BY <2>1 DEF Line
  <2> QED
    BY <2>1, <2>2
<1>2. \A i \in DOMAIN r : r[i] # Gone(d)
  BY DEF Shifted, Line
<1>3. ASSUME NEW i \in DOMAIN r, NEW j \in DOMAIN r, Asks(r[i]), r[i].dev = d, r[j] = Get(d) PROVE j < i
  <2>1. i + 1 \in DOMAIN q /\ j + 1 \in DOMAIN q /\ q[j + 1] = Get(d) /\ Asks(q[i + 1]) /\ q[i + 1].dev = d
        /\ i \in Nat /\ j \in Nat
    BY <1>3 DEF Shifted
  <2>2. j + 1 < i + 1
    BY <2>1 DEF Line
  <2> QED
    BY <2>1, <2>2
<1>4. Awaited(r, d) => Awaited(q, d)
  BY DEF Shifted, Awaited
<1>5. Awaited(q, d) => Awaited(r, d) \/ q[1] = Get(d)
  BY DEF Shifted, Awaited
<1>6. Calm(q) => Calm(r)
  BY DEF Shifted, Calm
<1>7. ASSUME q[1] = Get(d), NEW j \in DOMAIN r, Turns(r[j]) PROVE FALSE
  <2>1. j + 1 \in DOMAIN q /\ Turns(q[j + 1]) /\ 1 \in DOMAIN q /\ j \in Nat /\ j + 1 # 1 /\ 1 <= j + 1
    BY <1>7 DEF Shifted
  <2>2. j + 1 <= 1
    BY <1>7, <2>1 DEF Line
  <2> QED
    BY <2>1, <2>2
<1>8. \A e : e = Get(d) => Turns(e)
  BY RequestOps DEF Turns
<1>9. ASSUME Asks(q[1]), q[1].dev = d, Awaited(q, d) PROVE FALSE
  <2>1. PICK j \in DOMAIN q : q[j] = Get(d)
    BY <1>9 DEF Awaited
  <2>2. 1 \in DOMAIN q /\ 1 <= j /\ j \in Nat
    BY <2>1 DEF Shifted
  <2>3. j < 1
    BY <1>9, <2>1, <2>2 DEF Line
  <2> QED
    BY <2>2, <2>3
<1>10. Line(r, d)
  BY <1>1, <1>2, <1>3 DEF Line
<1>11. q[1] = Get(d) => ~Awaited(r, d) /\ Calm(r)
  BY <1>7, <1>8 DEF Awaited, Calm
<1> QED
  BY <1>4, <1>5, <1>6, <1>9, <1>10, <1>11

(* More is asked of the same device. *)
LEMMA LineGrows ==
    ASSUME NEW q, NEW r, NEW d, Grown(q, r), Line(q, d),
           \A i \in DOMAIN r : i \in DOMAIN q \/ ~Turns(r[i])
    PROVE  Line(r, d) /\ (Awaited(r, d) <=> Awaited(q, d)) /\ (Calm(q) => Calm(r))
<1>0. \A e : e \in {Get(d), Gone(d)} => Turns(e)
  BY RequestOps DEF Turns
<1>1. \A i \in DOMAIN r : Turns(r[i]) => i \in DOMAIN q /\ r[i] = q[i]
  BY DEF Grown
<1>2. \A i, j \in DOMAIN r : r[i] = Get(d) /\ Turns(r[j]) => j <= i
  BY <1>0, <1>1 DEF Line
<1>3. \A i \in DOMAIN r : r[i] # Gone(d)
  BY <1>0, <1>1 DEF Line
<1>4. ASSUME NEW i \in DOMAIN r, NEW j \in DOMAIN r, Asks(r[i]), r[i].dev = d, r[j] = Get(d) PROVE j < i
  <2>1. j \in DOMAIN q /\ q[j] = Get(d)
    BY <1>0, <1>1, <1>4
  <2>2. CASE i \in DOMAIN q
    BY <1>4, <2>1, <2>2 DEF Line, Grown
  <2>3. CASE i \notin DOMAIN q
    BY <2>1, <2>3 DEF Grown
  <2> QED
    BY <2>2, <2>3
<1>5. Awaited(r, d) <=> Awaited(q, d)
  BY <1>0, <1>1 DEF Awaited, Grown
<1>6. Calm(q) => Calm(r)
  BY <1>1 DEF Calm
<1> QED
  BY <1>2, <1>3, <1>4, <1>5, <1>6 DEF Line

(* A device of which no request tells is asked for. *)
LEMMA LineBegins ==
    ASSUME NEW q \in Seq(Request), NEW d \in Devices,
           \A i \in DOMAIN q : Turns(q[i]) \/ Asks(q[i]) => q[i].dev # d
    PROVE  Line(Append(q, Get(d)), d) /\ Awaited(Append(q, Get(d)), d)
<1> DEFINE r == Append(q, Get(d))
<1>0. Get(d) \in Request /\ Get(d).op = "get" /\ Get(d).dev = d /\ Get(d) # Gone(d)
  <2>1. Get(d).op = "get" /\ Gone(d).op = "gone"
    BY RequestOps
  <2>2. Get(d) # Gone(d)
    BY <2>1
  <2> QED
    BY <2>1, <2>2, RequestsMade, RequestOps
<1>1. /\ \A i \in DOMAIN q : r[i] = q[i] /\ i < Len(q) + 1
      /\ \A i \in DOMAIN r : i \in DOMAIN q \/ i = Len(q) + 1
      /\ r[Len(q) + 1] = Get(d) /\ Len(q) + 1 \in DOMAIN r /\ Len(q) + 1 \in Nat
      /\ DOMAIN r \subseteq Nat
  BY <1>0
<1> HIDE DEF r
<1>2. \A i \in DOMAIN q : q[i] # Get(d) /\ q[i] # Gone(d)
  BY <1>0, RequestOps DEF Turns
<1>3. \A i \in DOMAIN r : r[i] = Get(d) => i = Len(q) + 1
  BY <1>1, <1>2
<1>4. \A i \in DOMAIN r : r[i] # Gone(d)
  BY <1>0, <1>1, <1>2
<1>5. \A i \in DOMAIN r : ~(Asks(r[i]) /\ r[i].dev = d)
  BY <1>0, <1>1 DEF Asks
<1>6. \A i, j \in DOMAIN r : r[i] = Get(d) => j <= i
  BY <1>1, <1>3
<1>7. Line(r, d)
  BY <1>4, <1>5, <1>6 DEF Line
<1>8. Awaited(r, d)
  BY <1>1 DEF Awaited
<1> QED
  BY <1>7, <1>8 DEF r

(* The next device, or none. *)
LEMMA DeviceLeaves ==
    ASSUME WireTypeOK, LinkTypeOK,
           \/ device' = None /\ requests' = Farewell
           \/ \E d \in FreshDevices : device' = d /\ requests' = Append(Farewell, Get(d)),
           WireTypeOK', UNCHANGED theirDevice
    PROVE  DeviceInv'
<1>1. CASE device' = None
  <2>1. Line(requests', None) /\ ~Awaited(requests', None)
    BY NoLine DEF WireTypeOK
  <2> QED
    BY <1>1, <2>1 DEF DeviceInv
<1>2. ASSUME NEW d \in FreshDevices, device' = d, requests' = Append(Farewell, Get(d)) PROVE DeviceInv'
  <2>1. d \in Devices /\ d # device /\ d # theirDevice /\ ~Names("dev", d)
    BY DEF FreshDevices
  <2>2. Farewell \in Seq(Request)
    BY FarewellMade DEF WireTypeOK
  <2>3. ASSUME NEW i \in DOMAIN Farewell, Turns(Farewell[i]) \/ Asks(Farewell[i]) PROVE Farewell[i].dev # d
    <3>1. \A j \in DOMAIN requests : Turns(requests[j]) \/ Asks(requests[j]) => requests[j].dev # d
      BY <2>1, UnnamedRequests
    <3>2. CASE device = None
      BY <2>3, <3>1, <3>2 DEF Farewell
    <3>3. CASE device # None
      <4>1. Gone(device) \in Request /\ Gone(device).dev # d
        BY <2>1, <3>3, RequestsMade, RequestOps DEF LinkTypeOK
      <4>2. Farewell = Append(requests, Gone(device)) /\ requests \in Seq(Request)
        BY <3>3 DEF Farewell, WireTypeOK
      <4>3. i \in DOMAIN requests \/ Farewell[i] = Gone(device)
        BY <4>1, <4>2, AppendGrows
      <4>4. i \in DOMAIN requests => Farewell[i] = requests[i]
        BY <4>1, <4>2, AppendGrows DEF Grown
      <4> QED
        BY <2>3, <3>1, <4>1, <4>3, <4>4
    <3> QED
      BY <3>2, <3>3
  <2>4. Line(requests', d) /\ Awaited(requests', d)
    BY <1>2, <2>1, <2>2, <2>3, LineBegins
  <2> QED
    BY <1>2, <2>1, <2>4 DEF DeviceInv
<1> QED
  BY <1>1, <1>2

(* A request is served that creates and destroys nothing. *)
LEMMA DeviceServed ==
    ASSUME WireTypeOK, DeviceInv, NEW r, Serves(r), ~Turns(r), UNCHANGED <<device, theirDevice>>,
           Told(events) \subseteq Told(events')
    PROVE  DeviceInv'
<1>1. Shifted(requests, requests') /\ requests[1] = r
  BY TailShifts DEF WireTypeOK, Serves
<1>2. r # Get(device)
  BY RequestOps DEF Turns
<1> QED
  BY <1>1, <1>2, LineShifts DEF DeviceInv, Ended

(* Every step keeps the device in line. *)
LEMMA DeviceStep ==
    ASSUME WireTypeOK, WireTypeOK', LinkTypeOK, DeviceInv, [Next]_vars
    PROVE  DeviceInv'
<1>t. requests \in Seq(Request) /\ events \in Seq(Event)
  BY DEF WireTypeOK
<1>1. CASE Still
  BY <1>1 DEF Still, wire, compositor, DeviceInv, Ended
<1>2. CASE Leaves
  <2>1. UNCHANGED theirDevice
    BY <1>2 DEF Leaves, compositor
  <2> QED
    BY <1>2, <2>1, DeviceLeaves DEF Leaves
<1>3. CASE Disconnect
  <2>1. device' = None /\ requests' = <<>>
    BY <1>3 DEF Disconnect
  <2>2. Line(requests', None) /\ ~Awaited(requests', None)
    BY NoLine DEF WireTypeOK
  <2> QED
    BY <2>1, <2>2 DEF DeviceInv
<1>4. CASE Finish
  <2>1. /\ device' = device /\ requests' = requests /\ theirDevice' = None
        /\ theirDevice \in Devices /\ events' = Append(events, Finished(theirDevice))
    BY <1>4 DEF Finish, LinkTypeOK, clipboard, following
  <2>2. Told(events') = Told(events) \cup {Finished(theirDevice)}
    <3>1. Finished(theirDevice) \in Event /\ Finished(theirDevice).op \in {"cancelled", "finished"}
      BY <2>1, EventsMade, EventOps
    <3> QED
      BY <1>t, <2>1, <3>1, ToldAppend
  <2>3. ~Awaited(requests, None)
    BY <1>t, NoLine
  <2> QED
    BY <2>1, <2>2, <2>3 DEF DeviceInv, Ended
<1>5. CASE /\ UNCHANGED <<device, theirDevice, requests>>
           /\ Ended => Ended'
  BY <1>5 DEF DeviceInv
<1>6. ASSUME NEW e, Receive(e), UNCHANGED <<device, theirDevice, requests>>, e # Finished(device)
      PROVE  DeviceInv'
  <2>1. events # <<>> /\ events' = Tail(events) /\ Head(events) = e
    BY <1>6 DEF Receive
  <2>2. Told(events) \subseteq Told(events') \cup {e}
    BY <1>t, <2>1, ToldTail
  <2> QED
    BY <1>5, <1>6, <2>2 DEF Ended
<1>7. ASSUME NEW d \in Devices, NEW o \in Offers, OnOffer(d, o) PROVE DeviceInv'
  <2>1. Offered(d, o) # Finished(device)
    <3>1. Offered(d, o).op = "offer" /\ Finished(device).op = "finished"
      BY EventOps
    <3> QED
      BY <3>1
  <2> QED
    BY <1>6, <1>7, <2>1 DEF OnOffer, following, compositor
<1>8. ASSUME NEW d \in Devices, NEW m \in Modes, NEW o \in Offers \cup {None},
             NEW c \in Callbacks \cup {None}, OnSelection(d, m, o, c)
      PROVE  DeviceInv'
  <2>1. Selected(d, m, o, c) # Finished(device)
    <3>1. Selected(d, m, o, c).op = "selection" /\ Finished(device).op = "finished"
      BY EventOps
    <3> QED
      BY <3>1
  <2> QED
    BY <1>6, <1>8, <2>1 DEF OnSelection, following, compositor
<1>9. ASSUME NEW d \in Devices, d = device, OnFinished(d) PROVE DeviceInv'
  <2>1. device' = None /\ requests' = Farewell /\ UNCHANGED theirDevice
    BY <1>9 DEF OnFinished, RetireOnly, compositor
  <2> QED
    BY <2>1, DeviceLeaves
<1>10. ASSUME NEW d \in Devices, d # device, OnFinished(d) PROVE DeviceInv'
  <2>1. Finished(d) # Finished(device)
    BY <1>10, ToldApart
  <2> QED
    BY <1>6, <1>10, <2>1 DEF OnFinished, clipboard, following, compositor
<1>11. ASSUME NEW s \in Sources, OnCancelled(s) PROVE DeviceInv'
  <2>1. Cancelled(s) # Finished(device)
    BY ToldApart
  <2> QED
    BY <1>6, <1>11, <2>1 DEF OnCancelled, following, compositor
<1>12. ASSUME NEW c \in Callbacks, OnDone(c) PROVE DeviceInv'
  <2>1. Done(c) # Finished(device)
    <3>1. Done(c).op = "done" /\ Finished(device).op = "finished"
      BY EventOps
    <3> QED
      BY <3>1
  <2> QED
    BY <1>6, <1>12, <2>1 DEF OnDone, clipboard, following, compositor
<1>13. ASSUME Grown(requests, requests'), \A i \in DOMAIN requests' : i \in DOMAIN requests \/ ~Turns(requests'[i]),
              UNCHANGED <<device, theirDevice, events>>
       PROVE  DeviceInv'
  BY <1>13, LineGrows DEF DeviceInv, Ended
<1>14. ASSUME NEW w \in Writers, NEW m \in Modes, Write(w, m) PROVE DeviceInv'
  <2>1. PICK s \in FreshSources \cup {None}, c \in FreshCallbacks : SetSelection(m, s, c)
    BY <1>14 DEF Write
  <2> DEFINE a == Set(device, m, s, c)
             b == Sync(c)
  <2>2. a \in Request /\ b \in Request
    BY <1>14, <2>1, RequestsMade, FreshTypes DEF Write, Usable, LinkTypeOK
  <2>3. ~Turns(a) /\ ~Turns(b)
    BY RequestOps DEF Turns
  <2>4. requests' = requests \o <<a, b>>
    BY <2>1 DEF SetSelection, Sets
  <2> HIDE DEF a, b
  <2>5. requests' = Append(Append(requests, a), b) /\ Append(requests, a) \in Seq(Request)
    BY <1>t, <2>2, <2>4, TwoAtOnce
  <2>6. Grown(requests, Append(requests, a)) /\ \A i \in DOMAIN Append(requests, a) :
           i \in DOMAIN requests \/ Append(requests, a)[i] = a
    BY <1>t, <2>2, AppendGrows
  <2>7. Grown(Append(requests, a), requests') /\ \A i \in DOMAIN requests' :
           i \in DOMAIN Append(requests, a) \/ requests'[i] = b
    BY <2>2, <2>5, AppendGrows
  <2>8. Grown(requests, requests')
    BY <2>6, <2>7, GrownTwice
  <2>9. \A i \in DOMAIN requests' : i \in DOMAIN requests \/ ~Turns(requests'[i])
    BY <2>3, <2>6, <2>7 DEF Grown
  <2> QED
    BY <1>13, <1>14, <2>8, <2>9 DEF Write, following, compositor
<1>15. ASSUME NEW m \in Modes, NEW s \in FreshSources \cup {None}, Sends(m, s) PROVE DeviceInv'
  <2> DEFINE a == Set(device, m, s, None)
  <2>2. a \in Request
    BY <1>15, RequestsMade, FreshTypes DEF Sends, LinkTypeOK
  <2>3. ~Turns(a)
    BY RequestOps DEF Turns
  <2>4. requests' = Append(requests, a) /\ UNCHANGED <<device, theirDevice, events>>
    BY <1>15 DEF Sends, compositor
  <2> HIDE DEF a
  <2>5. Grown(requests, requests') /\ \A i \in DOMAIN requests' : i \in DOMAIN requests \/ requests'[i] = a
    BY <1>t, <2>2, <2>4, AppendGrows
  <2> QED
    BY <1>13, <2>3, <2>4, <2>5
<1>16. ASSUME NEW d \in Devices, ServeGet(d) PROVE DeviceInv'
  <2>1. Shifted(requests, requests') /\ requests[1] = Get(d)
    BY <1>16, <1>t, TailShifts DEF ServeGet, Serves
  <2>2. device' = device /\ theirDevice' = d
    BY <1>16 DEF ServeGet, clipboard, following
  <2>3. CASE d = device
    BY <2>1, <2>2, <2>3, LineShifts DEF DeviceInv
  <2>4. CASE d # device
    <3>1. Get(d) # Get(device)
      <4>1. Get(d).dev = d /\ Get(device).dev = device
        BY RequestOps
      <4> QED
        BY <2>4, <4>1
    <3>2. ~Calm(requests)
      BY <2>1, RequestOps DEF Calm, Turns, Shifted
    <3> QED
      BY <2>1, <2>2, <2>4, <3>1, <3>2, LineShifts DEF DeviceInv
  <2> QED
    BY <2>3, <2>4
<1>17. ASSUME NEW d \in Devices, ServeGone(d) PROVE DeviceInv'
  <2>1. Shifted(requests, requests') /\ requests[1] = Gone(d) /\ 1 \in DOMAIN requests
    BY <1>17, <1>t, TailShifts DEF ServeGone, Serves
  <2>2. device' = device /\ theirDevice' = (IF theirDevice = d THEN None ELSE theirDevice)
    BY <1>17 DEF ServeGone, clipboard, following
  <2>3. d # device
    BY <2>1 DEF DeviceInv, Line
  <2>4. Gone(d) # Get(device) /\ ~Calm(requests)
    <3>1. Gone(d).op = "gone" /\ Get(device).op = "get"
      BY RequestOps
    <3> QED
      BY <2>1, <3>1 DEF Calm, Turns
  <2>5. ~Awaited(requests', None)
    BY NoLine DEF WireTypeOK
  <2> QED
    BY <2>1, <2>2, <2>3, <2>4, <2>5, LineShifts DEF DeviceInv
<1>18. ASSUME NEW d \in Devices, NEW m \in Modes, NEW s \in Sources \cup {None},
              NEW c \in Callbacks \cup {None}, ServeSet(d, m, s, c)
       PROVE  DeviceInv'
  <2>1. Serves(Set(d, m, s, c)) /\ ~Turns(Set(d, m, s, c)) /\ UNCHANGED <<device, theirDevice>>
    BY <1>18, RequestOps DEF ServeSet, clipboard, following, Turns
  <2>2. Told(events) \subseteq Told(events')
    <3>1. CASE UNCHANGED events
      BY <3>1
    <3>2. ASSUME NEW o \in Offers \cup {None},
                 \/ events' = events \o Displaced(m) \o Announce(d, m, o, c)
                 \/ events' = events \o Displaced(m) \o <<>>
          PROVE  Told(events) \subseteq Told(events')
      BY <3>2, AnswerTold
    <3> QED
      BY <1>18, <3>1, <3>2, FreshTypes DEF ServeSet
  <2> QED
    BY <2>1, <2>2, DeviceServed
<1>19. ASSUME NEW c \in Callbacks, ServeSync(c) PROVE DeviceInv'
  <2>1. Serves(Sync(c)) /\ ~Turns(Sync(c)) /\ UNCHANGED <<device, theirDevice>>
    BY <1>19, RequestOps DEF ServeSync, clipboard, following, compositor, Turns
  <2>2. Done(c) \in Event /\ Done(c).op \notin {"cancelled", "finished"} /\ events' = Append(events, Done(c))
    BY <1>19, EventsMade, EventOps DEF ServeSync
  <2>3. Told(events') = Told(events)
    BY <1>t, <2>2, ToldAppend
  <2> QED
    BY <2>1, <2>3, DeviceServed
<1>20. ASSUME NEW m \in Modes, Copy(m) PROVE DeviceInv'
  <2>1. PICK o \in FreshOffers \cup {None} : events' = events \o Displaced(m) \o Announce(theirDevice, m, o, None)
    BY <1>20 DEF Copy
  <2>2. theirDevice \in Devices /\ o \in Offers \cup {None} /\ None \in Callbacks \cup {None}
    BY <1>20, FreshTypes DEF Copy, LinkTypeOK
  <2>3. Told(events) \subseteq Told(events')
    BY <2>1, <2>2, AnswerTold
  <2> QED
    BY <1>5, <1>20, <2>3 DEF Copy, Ended, clipboard, following
<1> QED
  BY <1>1, <1>2, <1>3, <1>4, <1>7, <1>8, <1>9, <1>10, <1>11, <1>12, <1>14, <1>15, <1>16, <1>17, <1>18, <1>19, <1>20, Steps

-----------------------------------------------------------------------------
(* The sources on both sides. *)

Carried(q, s) == \E i \in DOMAIN q : Asks(q[i]) /\ q[i].item = s
Leaving(q) == \E i \in DOMAIN q : q[i].op = "gone"
Theirs(s) == \E m \in Modes : theirSelection[m] = s

(* A source asked for is kept, or its device is on its way out behind it. *)
Escorted(q, S) ==
    \A i \in DOMAIN q : Asks(q[i]) /\ q[i].item \in Sources =>
        q[i].item \in S \/ \E j \in DOMAIN q : i < j /\ q[j].op = "gone"
Owning(q, S, d) == \A i \in DOMAIN q : Asks(q[i]) /\ q[i].item \in S => q[i].dev = d
Single(q) ==
    \A i, j \in DOMAIN q : Asks(q[i]) /\ Asks(q[j]) /\ q[i].item = q[j].item /\ q[i].item \in Sources => i = j

KeepInv ==
    /\ device = None => sources = {}
    /\ \A s \in sources : Carried(requests, s) \/ Theirs(s) \/ Cancelled(s) \in Told(events) \/ Ended
    /\ ~Calm(requests) => \A s \in sources : ~Theirs(s)
    /\ Owning(requests, sources, device)
    /\ Escorted(requests, sources)
    /\ \A s \in Sources : Theirs(s) => s \in sources \/ Leaving(requests)

(* A source is in one place at a time. *)
OnceInv ==
    /\ \A s \in Sources : Cancelled(s) \in Told(events) => ~Theirs(s) /\ ~Carried(requests, s)
    /\ \A m, n \in Modes : m # n /\ theirSelection[m] = theirSelection[n] => theirSelection[m] \notin Sources
    /\ \A s \in Sources : Theirs(s) => ~Carried(requests, s)
    /\ Single(requests)

SourceInv == KeepInv /\ OnceInv

(* A request goes, another is asked, and the device parts. *)
LEMMA SourcesShift ==
    ASSUME NEW q, NEW r, Shifted(q, r)
    PROVE  /\ \A s : Carried(r, s) => Carried(q, s)
           /\ \A s : Carried(q, s) => Carried(r, s) \/ (Asks(q[1]) /\ q[1].item = s)
           /\ Leaving(q) => Leaving(r) \/ q[1].op = "gone"
           /\ \A S : Escorted(q, S) => Escorted(r, S)
           /\ \A S : Escorted(q, S) /\ Asks(q[1]) /\ q[1].item \in Sources => q[1].item \in S \/ Leaving(r)
           /\ \A S, d : Owning(q, S, d) => Owning(r, S, d)
           /\ Single(q) => Single(r)
           /\ Single(q) /\ Asks(q[1]) /\ q[1].item \in Sources => ~Carried(r, q[1].item)
<1>0. /\ \A i \in DOMAIN r : i + 1 \in DOMAIN q /\ r[i] = q[i + 1] /\ i \in Nat /\ 1 <= i
      /\ \A j \in DOMAIN q : j = 1 \/ (j - 1 \in DOMAIN r /\ r[j - 1] = q[j] /\ j \in Nat)
      /\ 1 \in DOMAIN q
  BY DEF Shifted
<1>1. \A s : Carried(r, s) => Carried(q, s)
  BY <1>0 DEF Carried
<1>2. \A s : Carried(q, s) => Carried(r, s) \/ (Asks(q[1]) /\ q[1].item = s)
  BY <1>0 DEF Carried
<1>3. Leaving(q) => Leaving(r) \/ q[1].op = "gone"
  BY <1>0 DEF Leaving
<1>4. ASSUME NEW S, Escorted(q, S), NEW i \in DOMAIN r, Asks(r[i]), r[i].item \in Sources, r[i].item \notin S
      PROVE  \E j \in DOMAIN r : i < j /\ r[j].op = "gone"
  <2>1. i + 1 \in DOMAIN q /\ r[i] = q[i + 1] /\ i \in Nat /\ 1 <= i
    BY <1>0
  <2>2. PICK j \in DOMAIN q : i + 1 < j /\ q[j].op = "gone"
    BY <1>4, <2>1 DEF Escorted
  <2>3. j - 1 \in DOMAIN r /\ r[j - 1] = q[j] /\ i < j - 1
    BY <1>0, <2>1, <2>2
  <2> QED
    BY <2>2, <2>3
<1>5. ASSUME NEW S, Escorted(q, S), Asks(q[1]), q[1].item \in Sources, q[1].item \notin S PROVE Leaving(r)
  <2>1. PICK j \in DOMAIN q : 1 < j /\ q[j].op = "gone"
    BY <1>0, <1>5 DEF Escorted
  <2>2. j - 1 \in DOMAIN r /\ r[j - 1] = q[j]
    BY <1>0, <2>1
  <2> QED
    BY <2>1, <2>2 DEF Leaving
<1>6. \A S, d : Owning(q, S, d) => Owning(r, S, d)
  BY <1>0 DEF Owning
<1>7. ASSUME Single(q), NEW i \in DOMAIN r, NEW j \in DOMAIN r,
             Asks(r[i]), Asks(r[j]), r[i].item = r[j].item, r[i].item \in Sources
      PROVE  i = j
  <2>1. i + 1 = j + 1 /\ i \in Nat /\ j \in Nat
    BY <1>0, <1>7 DEF Single
  <2> QED
    BY <2>1
<1>8. ASSUME Single(q), Asks(q[1]), q[1].item \in Sources, Carried(r, q[1].item) PROVE FALSE
  <2>1. PICK i \in DOMAIN r : Asks(r[i]) /\ r[i].item = q[1].item
    BY <1>8 DEF Carried
  <2>2. i + 1 = 1
    BY <1>0, <1>8, <2>1 DEF Single
  <2>3. i \in Nat /\ 1 <= i
    BY <1>0
  <2> QED
    BY <2>2, <2>3
<1>9. \A S : Escorted(q, S) => Escorted(r, S)
  BY <1>4 DEF Escorted
<1>10. Single(q) => Single(r)
  BY <1>7 DEF Single
<1> QED
  BY <1>1, <1>2, <1>3, <1>5, <1>6, <1>8, <1>9, <1>10

Asked(q, r, d, x) ==
    /\ Grown(q, r) /\ Carried(r, x)
    /\ \A i \in DOMAIN r : i \notin DOMAIN q => ~Turns(r[i]) /\ (Asks(r[i]) => r[i].dev = d /\ r[i].item = x)
    /\ \A i, j \in DOMAIN r : i \notin DOMAIN q /\ j \notin DOMAIN q /\ Asks(r[i]) /\ Asks(r[j]) => i = j

Parted(q, r, d) ==
    /\ Grown(q, r)
    /\ \A i \in DOMAIN r : i \notin DOMAIN q => ~Asks(r[i])
    /\ d # None => \E k \in DOMAIN r : k \notin DOMAIN q /\ r[k].op = "gone"

(* Where a source is after a request for a selection, *)
LEMMA SourcesAsk ==
    ASSUME NEW q, NEW r, NEW d, NEW x, Asked(q, r, d, x)
    PROVE  /\ \A s : Carried(q, s) => Carried(r, s)
           /\ \A s : Carried(r, s) => Carried(q, s) \/ s = x
           /\ Leaving(q) => Leaving(r)
           /\ Calm(q) => Calm(r)
           /\ \A S : Escorted(q, S) /\ (x \in Sources => x \in S) => Escorted(r, S)
           /\ \A S : Owning(q, S, d) => Owning(r, S, d)
           /\ Single(q) /\ (x \in Sources => ~Carried(q, x)) => Single(r)
<1>0. /\ \A i \in DOMAIN q : i \in DOMAIN r /\ r[i] = q[i]
      /\ \A i \in DOMAIN r : i \notin DOMAIN q => ~Turns(r[i]) /\ (Asks(r[i]) => r[i].dev = d /\ r[i].item = x)
      /\ \A i, j \in DOMAIN r : i \notin DOMAIN q /\ j \notin DOMAIN q /\ Asks(r[i]) /\ Asks(r[j]) => i = j
  BY DEF Asked, Grown
<1>1. \A s : Carried(q, s) => Carried(r, s)
  BY <1>0 DEF Carried
<1>2. \A s : Carried(r, s) => Carried(q, s) \/ s = x
  BY <1>0 DEF Carried
<1>3. Leaving(q) => Leaving(r)
  BY <1>0 DEF Leaving
<1>4. Calm(q) => Calm(r)
  BY <1>0 DEF Calm
<1>5. ASSUME NEW S, Escorted(q, S), x \in Sources => x \in S PROVE Escorted(r, S)
  BY <1>0, <1>5 DEF Escorted
<1>6. \A S : Owning(q, S, d) => Owning(r, S, d)
  BY <1>0 DEF Owning
<1>7. ASSUME Single(q), x \in Sources => ~Carried(q, x), NEW i \in DOMAIN r, NEW j \in DOMAIN r,
             Asks(r[i]), Asks(r[j]), r[i].item = r[j].item, r[i].item \in Sources
      PROVE  i = j
  <2>1. CASE i \in DOMAIN q /\ j \in DOMAIN q
    BY <1>0, <1>7, <2>1 DEF Single
  <2>2. CASE i \in DOMAIN q /\ j \notin DOMAIN q
    BY <1>0, <1>7, <2>2 DEF Carried
  <2>3. CASE i \notin DOMAIN q /\ j \in DOMAIN q
    BY <1>0, <1>7, <2>3 DEF Carried
  <2>4. CASE i \notin DOMAIN q /\ j \notin DOMAIN q
    BY <1>0, <1>7, <2>4
  <2> QED
    BY <2>1, <2>2, <2>3, <2>4
<1>8. Single(q) /\ (x \in Sources => ~Carried(q, x)) => Single(r)
  BY <1>7 DEF Single
<1> QED
  BY <1>1, <1>2, <1>3, <1>4, <1>5, <1>6, <1>8

(* and after a device goes. *)
LEMMA SourcesPart ==
    ASSUME NEW q, NEW r, NEW d, Parted(q, r, d)
    PROVE  /\ \A s : Carried(r, s) <=> Carried(q, s)
           /\ Leaving(q) \/ d # None => Leaving(r)
           /\ \A S : Escorted(q, S) /\ (d = None => S = {}) => Escorted(r, {})
           /\ \A e : Owning(r, {}, e)
           /\ Single(q) => Single(r)
<1>0. /\ \A i \in DOMAIN q : i \in DOMAIN r /\ r[i] = q[i]
      /\ \A i \in DOMAIN r : i \notin DOMAIN q => ~Asks(r[i])
      /\ \A i \in DOMAIN r, j \in DOMAIN q : i \in DOMAIN q \/ j < i
      /\ d # None => \E k \in DOMAIN r : k \notin DOMAIN q /\ r[k].op = "gone"
  BY DEF Parted, Grown
<1>1. \A s : Carried(r, s) <=> Carried(q, s)
  BY <1>0 DEF Carried
<1>2. Leaving(q) \/ d # None => Leaving(r)
  BY <1>0 DEF Leaving
<1>3. ASSUME NEW S, Escorted(q, S), d = None => S = {}, NEW i \in DOMAIN r, Asks(r[i]), r[i].item \in Sources
      PROVE  \E j \in DOMAIN r : i < j /\ r[j].op = "gone"
  <2>1. i \in DOMAIN q /\ r[i] = q[i]
    BY <1>0, <1>3
  <2>2. CASE r[i].item \in S
    BY <1>0, <1>3, <2>1, <2>2
  <2>3. CASE r[i].item \notin S
    <3>1. PICK j \in DOMAIN q : i < j /\ q[j].op = "gone"
      BY <1>3, <2>1, <2>3 DEF Escorted
    <3> QED
      BY <1>0, <3>1
  <2> QED
    BY <2>2, <2>3
<1>4. \A S : Escorted(q, S) /\ (d = None => S = {}) => Escorted(r, {})
  BY <1>3 DEF Escorted
<1>5. \A e : Owning(r, {}, e)
  BY DEF Owning
<1>6. Single(q) => Single(r)
  BY <1>0 DEF Single
<1> QED
  BY <1>1, <1>2, <1>4, <1>5, <1>6

-----------------------------------------------------------------------------
(* The clipboard's own steps. *)

(* A device parts, and all its sources with it. *)
LEMMA SourcesLeave ==
    ASSUME SourceInv, Parted(requests, requests', device), sources' = {},
           Told(events') \subseteq Told(events), UNCHANGED theirSelection
    PROVE  SourceInv'
<1>0. \A s : Theirs(s)' <=> Theirs(s)
  BY DEF Theirs
<1>1. /\ \A s : Carried(requests', s) <=> Carried(requests, s)
      /\ Leaving(requests) \/ device # None => Leaving(requests')
      /\ Escorted(requests', {})
      /\ \A e : Owning(requests', {}, e)
      /\ Single(requests')
  <2>1. Escorted(requests, sources) /\ (device = None => sources = {}) /\ Single(requests)
    BY DEF SourceInv, KeepInv, OnceInv
  <2> QED
    BY <2>1, SourcesPart
<1>2. \A s \in Sources : Theirs(s) => Leaving(requests')
  BY <1>1 DEF SourceInv, KeepInv
<1>3. KeepInv'
  BY <1>0, <1>1, <1>2 DEF KeepInv
<1>4. OnceInv'
  BY <1>0, <1>1 DEF SourceInv, OnceInv
<1> QED
  BY <1>3, <1>4 DEF SourceInv

(* What a retirement asks for. *)
LEMMA FarewellParts ==
    ASSUME WireTypeOK, LinkTypeOK
    PROVE  Parted(requests, Farewell, device) /\ Farewell \in Seq(Request)
<1>t. requests \in Seq(Request) /\ Farewell \in Seq(Request)
  BY FarewellMade DEF WireTypeOK
<1>1. CASE device = None
  BY <1>t, <1>1 DEF Farewell, Parted, Grown
<1>2. CASE device # None
  <2> DEFINE e == Gone(device)
  <2>1. e \in Request /\ e.op = "gone" /\ ~Asks(e)
    BY <1>2, RequestsMade, RequestOps DEF LinkTypeOK, Asks
  <2>2. Farewell = Append(requests, e)
    BY <1>2 DEF Farewell
  <2> HIDE DEF e
  <2>3. /\ Grown(requests, Farewell) /\ \A i \in DOMAIN Farewell : i \in DOMAIN requests \/ Farewell[i] = e
        /\ \E i \in DOMAIN Farewell : Farewell[i] = e /\ \A j \in DOMAIN requests : j < i
    BY <1>t, <2>1, <2>2, AppendGrows
  <2>4. PICK i \in DOMAIN Farewell : Farewell[i] = e /\ \A j \in DOMAIN requests : j < i
    BY <2>3
  <2>5. i \notin DOMAIN requests
    <3>1. \A j \in DOMAIN requests : j \in Nat
      BY <1>t
    <3> QED
      BY <2>4, <3>1
  <2> QED
    BY <1>t, <2>1, <2>3, <2>4, <2>5 DEF Parted
<1> QED
  BY <1>1, <1>2

(* A device goes and another follows. *)
LEMMA FarewellThenGet ==
    ASSUME WireTypeOK, LinkTypeOK, NEW d \in Devices
    PROVE  Parted(requests, Append(Farewell, Get(d)), device)
<1>1. Parted(requests, Farewell, device) /\ Farewell \in Seq(Request)
  BY FarewellParts
<1> DEFINE e == Get(d)
<1>2. e \in Request /\ ~Asks(e)
  BY RequestsMade, RequestOps DEF Asks
<1> HIDE DEF e
<1>3. Grown(Farewell, Append(Farewell, e)) /\ \A i \in DOMAIN Append(Farewell, e) : i \in DOMAIN Farewell \/ Append(Farewell, e)[i] = e
  BY <1>1, <1>2, AppendGrows
<1>4. Grown(requests, Append(Farewell, e))
  BY <1>1, <1>3, GrownTwice DEF Parted
<1>5. \A i \in DOMAIN Append(Farewell, e) : i \notin DOMAIN requests => ~Asks(Append(Farewell, e)[i])
  BY <1>1, <1>2, <1>3 DEF Parted, Grown
<1>6. device # None => \E k \in DOMAIN Append(Farewell, e) : k \notin DOMAIN requests /\ Append(Farewell, e)[k].op = "gone"
  BY <1>1, <1>3 DEF Parted, Grown
<1>7. Parted(requests, Append(Farewell, e), device)
  BY <1>4, <1>5, <1>6 DEF Parted
<1> QED
  BY <1>7 DEF e

(* Something is asked of the device, with a new source or none. *)
LEMMA SourcesAsked ==
    ASSUME SourceInv, NEW x, Asked(requests, requests', device, x), device # None,
           sources' = sources \cup ({x} \ {None}),
           x \in Sources => x \notin sources /\ ~Theirs(x) /\ ~Carried(requests, x) /\ Cancelled(x) \notin Told(events),
           x = None \/ x \in Sources,
           UNCHANGED <<device, events, compositor>>
    PROVE  SourceInv'
<1>0. (\A s : Theirs(s)' <=> Theirs(s)) /\ (Ended' <=> Ended)
  BY DEF Theirs, Ended, compositor
<1>n. None \notin Sources
  BY NamesAssumption
<1>1. /\ \A s : Carried(requests, s) => Carried(requests', s)
      /\ \A s : Carried(requests', s) => Carried(requests, s) \/ s = x
      /\ Leaving(requests) => Leaving(requests')
      /\ Calm(requests) => Calm(requests')
  BY SourcesAsk
<1>2. Escorted(requests', sources')
  <2>1. Escorted(requests, sources')
    BY DEF SourceInv, KeepInv, Escorted
  <2>2. x \in Sources => x \in sources'
    BY <1>n
  <2> QED
    BY <2>1, <2>2, SourcesAsk
<1>3. Owning(requests', sources', device)
  <2>1. Owning(requests, sources', device)
    BY <1>n DEF SourceInv, KeepInv, Owning, Carried
  <2> QED
    BY <2>1, SourcesAsk
<1>4. Single(requests')
  <2>1. Single(requests)
    BY DEF SourceInv, OnceInv
  <2> QED
    BY <2>1, SourcesAsk
<1>5. Carried(requests', x)
  BY DEF Asked
<1>6. \A s \in sources' : Carried(requests', s) \/ Theirs(s) \/ Cancelled(s) \in Told(events) \/ Ended
  BY <1>1, <1>5 DEF SourceInv, KeepInv
<1>7. ~Calm(requests') => \A s \in sources' : ~Theirs(s)
  BY <1>1 DEF SourceInv, KeepInv
<1>8. \A s \in Sources : Theirs(s) => s \in sources' \/ Leaving(requests')
  BY <1>1 DEF SourceInv, KeepInv
<1>9. KeepInv'
  BY <1>0, <1>2, <1>3, <1>6, <1>7, <1>8 DEF KeepInv
<1>10. OnceInv'
  <2>1. \A s \in Sources : Cancelled(s) \in Told(events) => ~Theirs(s) /\ ~Carried(requests', s)
    BY <1>1 DEF SourceInv, OnceInv
  <2>2. \A s \in Sources : Theirs(s) => ~Carried(requests', s)
    BY <1>1 DEF SourceInv, OnceInv
  <2>3. \A m, n \in Modes : m # n /\ theirSelection'[m] = theirSelection'[n] => theirSelection'[m] \notin Sources
    BY DEF SourceInv, OnceInv, compositor
  <2> QED
    BY <1>0, <1>4, <2>1, <2>2, <2>3 DEF OnceInv
<1> QED
  BY <1>9, <1>10 DEF SourceInv

(* An event that says nothing of sources, or less of them than is true. *)
LEMMA SourcesHear ==
    ASSUME SourceInv, UNCHANGED <<device, sources, requests, theirSelection>>,
           \A s \in Sources : Cancelled(s) \in Told(events') => Cancelled(s) \in Told(events),
           \A s \in sources : Cancelled(s) \in Told(events) => Cancelled(s) \in Told(events'),
           Ended => Ended'
    PROVE  SourceInv'
<1>0. \A s : Theirs(s)' <=> Theirs(s)
  BY DEF Theirs
<1>1. KeepInv'
  BY <1>0 DEF SourceInv, KeepInv
<1>2. OnceInv'
  BY <1>0 DEF SourceInv, OnceInv
<1> QED
  BY <1>1, <1>2 DEF SourceInv

(* A cancelled source goes. *)
LEMMA SourcesCancel ==
    ASSUME SourceInv, UNCHANGED <<device, requests, theirSelection>>, NEW x \in Sources,
           sources' = sources \ {x}, Cancelled(x) \in Told(events), ProxyTypeOK,
           Told(events') \subseteq Told(events), Told(events) \subseteq Told(events') \cup {Cancelled(x)}
    PROVE  SourceInv'
<1>0. \A s : Theirs(s)' <=> Theirs(s)
  BY DEF Theirs
<1>1. Ended => Ended'
  BY ToldApart DEF Ended
<1>2. ~Theirs(x) /\ ~Carried(requests, x)
  BY DEF SourceInv, OnceInv
<1>3. \A s \in sources' : Carried(requests, s) \/ Theirs(s) \/ Cancelled(s) \in Told(events') \/ Ended'
  <2>1. \A s \in sources' : Cancelled(s) # Cancelled(x)
    BY ToldApart
  <2> QED
    BY <1>1, <2>1 DEF SourceInv, KeepInv
<1>4. Escorted(requests, sources')
  BY <1>2 DEF SourceInv, KeepInv, Escorted, Carried
<1>5. Owning(requests, sources', device)
  BY DEF SourceInv, KeepInv, Owning
<1>6. \A s \in Sources : Theirs(s) => s \in sources' \/ Leaving(requests)
  BY <1>2 DEF SourceInv, KeepInv
<1>7. KeepInv'
  BY <1>0, <1>3, <1>4, <1>5, <1>6 DEF SourceInv, KeepInv
<1>8. OnceInv'
  BY <1>0 DEF SourceInv, OnceInv
<1> QED
  BY <1>7, <1>8 DEF SourceInv

-----------------------------------------------------------------------------
(* The compositor's steps. *)

(* A request is served that turns to another device: no source of this client is
   a selection then. *)
LEMMA SourcesTurn ==
    ASSUME SourceInv, WireTypeOK, ProxyTypeOK, NEW r, Serves(r), Turns(r), UNCHANGED <<device, sources>>,
           Told(events') = Told(events), \A s \in Sources : ~Theirs(s)'
    PROVE  SourceInv'
<1>1. Shifted(requests, requests') /\ requests[1] = r /\ 1 \in DOMAIN requests
  BY TailShifts DEF WireTypeOK, Serves
<1>2. ~Calm(requests) /\ ~Asks(r)
  BY <1>1 DEF Calm, Turns, Asks
<1>3. \A s : Carried(requests', s) <=> Carried(requests, s)
  BY <1>1, <1>2, SourcesShift
<1>4. Escorted(requests', sources) /\ Owning(requests', sources, device) /\ Single(requests')
  BY <1>1, SourcesShift DEF SourceInv, KeepInv, OnceInv
<1>5. sources \subseteq Sources /\ (Ended' <=> Ended)
  BY DEF ProxyTypeOK, Ended
<1>6. \A s \in sources : Carried(requests, s) \/ Cancelled(s) \in Told(events) \/ Ended
  BY <1>2 DEF SourceInv, KeepInv
<1>7. KeepInv'
  BY <1>3, <1>4, <1>5, <1>6 DEF SourceInv, KeepInv
<1>8. OnceInv'
  <2>1. ASSUME NEW m \in Modes PROVE theirSelection'[m] \notin Sources
    BY <2>1 DEF Theirs
  <2> QED
    BY <1>3, <1>4, <2>1 DEF SourceInv, OnceInv
<1> QED
  BY <1>7, <1>8 DEF SourceInv

(* A request is served that leaves the selections alone: it is about none of them,
   or its device has ended. *)
LEMMA SourcesIgnore ==
    ASSUME SourceInv, WireTypeOK, NEW r, Serves(r), ~Turns(r), UNCHANGED <<device, sources, theirSelection>>,
           Told(events') = Told(events), Asks(r) /\ r.item \in sources => Ended
    PROVE  SourceInv'
<1>1. Shifted(requests, requests') /\ requests[1] = r /\ 1 \in DOMAIN requests
  BY TailShifts DEF WireTypeOK, Serves
<1>2. (Calm(requests) => Calm(requests')) /\ (Leaving(requests) => Leaving(requests'))
  <2>1. r.op # "gone"
    BY DEF Turns
  <2>2. Calm(requests) => Calm(requests')
    BY <1>1 DEF Calm, Shifted
  <2> QED
    BY <1>1, <2>1, <2>2, SourcesShift
<1>3. /\ \A s : Carried(requests', s) => Carried(requests, s)
      /\ \A s \in sources : Carried(requests, s) => Carried(requests', s) \/ Ended
  BY <1>1, SourcesShift
<1>4. Escorted(requests', sources) /\ Owning(requests', sources, device) /\ Single(requests')
  BY <1>1, SourcesShift DEF SourceInv, KeepInv, OnceInv
<1>5. (\A s : Theirs(s)' <=> Theirs(s)) /\ (Ended' <=> Ended)
  BY DEF Theirs, Ended
<1>6. KeepInv'
  BY <1>2, <1>3, <1>4, <1>5 DEF SourceInv, KeepInv
<1>7. OnceInv'
  BY <1>3, <1>4, <1>5 DEF SourceInv, OnceInv
<1> QED
  BY <1>6, <1>7 DEF SourceInv

-----------------------------------------------------------------------------
(* A mode's selection makes way for x: what is displaced is cancelled. *)
Displaces(m, x) ==
    /\ theirSelection' = [theirSelection EXCEPT ![m] = x]
    /\ Told(events') = Told(events) \cup Told(Displaced(m))

(* What changes with one selection: the source that was there is told. *)
LEMMA DisplacesOne ==
    ASSUME ProxyTypeOK, NEW m \in Modes, NEW x, Displaces(m, x)
    PROVE  /\ theirSelection'[m] = x /\ \A n \in Modes : n # m => theirSelection'[n] = theirSelection[n]
           /\ \A s : Theirs(s)' => s = x \/ Theirs(s)
           /\ \A s \in Sources : Theirs(s) => Theirs(s)' \/ Cancelled(s) \in Told(events')
           /\ \A s : Cancelled(s) \in Told(events) => Cancelled(s) \in Told(events')
           /\ \A s : Cancelled(s) \in Told(events') => Cancelled(s) \in Told(events) \/ s = theirSelection[m]
           /\ Theirs(x)'
           /\ Finished(device) \in Told(events) <=> Finished(device) \in Told(events')
<1>1. theirSelection'[m] = x /\ \A n \in Modes : n # m => theirSelection'[n] = theirSelection[n]
  BY DEF ProxyTypeOK, Displaces
<1>2. Told(Displaced(m)) = IF theirSelection[m] \in Sources THEN {Cancelled(theirSelection[m])} ELSE {}
  BY DisplacedTold
<1>3. \A s : Theirs(s)' => s = x \/ Theirs(s)
  BY <1>1 DEF Theirs
<1>4. \A s \in Sources : Theirs(s) => Theirs(s)' \/ Cancelled(s) \in Told(events')
  BY <1>1, <1>2 DEF Theirs, Displaces
<1>5. \A s : Cancelled(s) \in Told(events') => Cancelled(s) \in Told(events) \/ s = theirSelection[m]
  BY <1>2, ToldApart DEF Displaces
<1>6. Finished(device) \in Told(events) <=> Finished(device) \in Told(events')
  BY <1>2, ToldApart DEF Displaces
<1> QED
  BY <1>1, <1>3, <1>4, <1>5, <1>6 DEF Theirs, Displaces

(* Nothing of it is this client's. *)
LEMMA SourcesCopied ==
    ASSUME SourceInv, ProxyTypeOK, NEW m \in Modes, NEW x, x \notin Sources, Displaces(m, x),
           UNCHANGED <<device, sources, requests>>
    PROVE  SourceInv'
<1>1. /\ theirSelection'[m] = x /\ \A n \in Modes : n # m => theirSelection'[n] = theirSelection[n]
      /\ \A s \in Sources : Theirs(s)' => Theirs(s)
      /\ \A s \in Sources : Theirs(s) => Theirs(s)' \/ Cancelled(s) \in Told(events')
      /\ \A s : Cancelled(s) \in Told(events) => Cancelled(s) \in Told(events')
      /\ \A s : Cancelled(s) \in Told(events') => Cancelled(s) \in Told(events) \/ s = theirSelection[m]
      /\ Ended <=> Ended'
  BY DisplacesOne DEF Ended
<1>2. sources \subseteq Sources
  BY DEF ProxyTypeOK
<1>3. KeepInv'
  BY <1>1, <1>2 DEF SourceInv, KeepInv
<1>4. ASSUME NEW s \in Sources, Cancelled(s) \in Told(events') PROVE ~Theirs(s)' /\ ~Carried(requests, s)
  <2>1. CASE Cancelled(s) \in Told(events)
    BY <1>1, <2>1 DEF SourceInv, OnceInv
  <2>2. CASE s = theirSelection[m]
    <3>1. Theirs(s)
      BY <2>2 DEF Theirs
    <3>2. \A n \in Modes : theirSelection'[n] # s
      BY <1>1, <2>2 DEF SourceInv, OnceInv
    <3> QED
      BY <3>1, <3>2 DEF Theirs, SourceInv, OnceInv
  <2> QED
    BY <1>1, <1>4, <2>1, <2>2
<1>5. ASSUME NEW n \in Modes, NEW k \in Modes, n # k, theirSelection'[n] = theirSelection'[k]
      PROVE  theirSelection'[n] \notin Sources
  BY <1>1, <1>5 DEF SourceInv, OnceInv
<1>6. OnceInv'
  BY <1>1, <1>4, <1>5 DEF SourceInv, OnceInv
<1> QED
  BY <1>3, <1>6 DEF SourceInv

(* The selection request of the device there is. *)
LEMMA SourcesAnswer ==
    ASSUME SourceInv, DeviceInv, WireTypeOK, ProxyTypeOK, NEW m \in Modes, NEW s \in Sources \cup {None},
           NEW r, Serves(r), Asks(r), r.item = s, r.dev \in Devices, UNCHANGED <<device, sources>>, Displaces(m, s)
    PROVE  SourceInv'
<1>0. Shifted(requests, requests') /\ requests[1] = r /\ 1 \in DOMAIN requests
  BY TailShifts DEF WireTypeOK, Serves
<1>1. /\ theirSelection'[m] = s /\ \A n \in Modes : n # m => theirSelection'[n] = theirSelection[n]
      /\ \A t : Theirs(t)' => t = s \/ Theirs(t)
      /\ \A t \in Sources : Theirs(t) => Theirs(t)' \/ Cancelled(t) \in Told(events')
      /\ \A t : Cancelled(t) \in Told(events) => Cancelled(t) \in Told(events')
      /\ \A t : Cancelled(t) \in Told(events') => Cancelled(t) \in Told(events) \/ t = theirSelection[m]
      /\ Theirs(s)'
      /\ Ended <=> Ended'
  BY DisplacesOne DEF Ended
<1>2. sources \subseteq Sources /\ None \notin Sources
  BY NamesAssumption DEF ProxyTypeOK
<1>3. Carried(requests, s)
  BY <1>0 DEF Carried
<1>4. /\ \A t : Carried(requests', t) => Carried(requests, t)
      /\ \A t : Carried(requests, t) => Carried(requests', t) \/ t = s
      /\ Leaving(requests) => Leaving(requests')
      /\ s \in Sources => s \in sources \/ Leaving(requests')
      /\ s \in Sources => ~Carried(requests', s)
      /\ Escorted(requests', sources) /\ Owning(requests', sources, device) /\ Single(requests')
  <2>1. r.op # "gone"
    BY DEF Asks
  <2>2. Escorted(requests, sources) /\ Owning(requests, sources, device) /\ Single(requests)
    BY DEF SourceInv, KeepInv, OnceInv
  <2> QED
    BY <1>0, <2>1, <2>2, SourcesShift
<1>5. ASSUME ~Calm(requests'), NEW t \in sources PROVE ~Theirs(t)'
  <2>1. ~Calm(requests)
    BY <1>0, <1>5 DEF Calm, Shifted
  <2>2. ~Theirs(t)
    BY <2>1 DEF SourceInv, KeepInv
  <2>3. t # s
    <3>1. ASSUME t = s PROVE FALSE
      <4>1. r.dev = device
        BY <1>0, <3>1 DEF SourceInv, KeepInv, Owning
      <4>2. device # None
        BY <4>1, NamesAssumption
      <4>3. ~Awaited(requests, device)
        BY <1>0, <4>1, LineShifts DEF DeviceInv
      <4> QED
        BY <2>1, <4>2, <4>3 DEF DeviceInv
    <3> QED
      BY <3>1
  <2> QED
    BY <1>1, <2>2, <2>3
<1>6. KeepInv'
  <2>1. \A t \in sources : Carried(requests', t) \/ Theirs(t)' \/ Cancelled(t) \in Told(events') \/ Ended'
    BY <1>1, <1>2, <1>4 DEF SourceInv, KeepInv
  <2>2. \A t \in Sources : Theirs(t)' => t \in sources \/ Leaving(requests')
    BY <1>1, <1>4 DEF SourceInv, KeepInv
  <2>3. device = None => sources = {}
    BY DEF SourceInv, KeepInv
  <2> QED
    BY <1>4, <1>5, <2>1, <2>2, <2>3 DEF KeepInv
<1>7. ASSUME NEW t \in Sources, Cancelled(t) \in Told(events') PROVE ~Theirs(t)' /\ ~Carried(requests', t)
  <2>1. CASE Cancelled(t) \in Told(events)
    <3>1. ~Theirs(t) /\ ~Carried(requests, t)
      BY <2>1 DEF SourceInv, OnceInv
    <3> QED
      BY <1>1, <1>3, <1>4, <3>1
  <2>2. CASE t = theirSelection[m]
    <3>1. Theirs(t)
      BY <2>2 DEF Theirs
    <3>2. ~Carried(requests, t)
      BY <3>1 DEF SourceInv, OnceInv
    <3>3. \A n \in Modes : theirSelection'[n] # t
      BY <1>1, <1>3, <2>2, <3>2 DEF SourceInv, OnceInv
    <3> QED
      BY <1>4, <3>2, <3>3 DEF Theirs
  <2> QED
    BY <1>1, <1>7, <2>1, <2>2
<1>8. ASSUME NEW n \in Modes, NEW k \in Modes, n # k, theirSelection'[n] = theirSelection'[k],
             theirSelection'[n] \in Sources
      PROVE  FALSE
  <2>1. CASE n # m /\ k # m
    BY <1>1, <1>8, <2>1 DEF SourceInv, OnceInv
  <2>2. CASE n = m \/ k = m
    <3>1. Theirs(s) /\ s \in Sources
      BY <1>1, <1>8, <2>2 DEF Theirs
    <3> QED
      BY <1>3, <3>1 DEF SourceInv, OnceInv
  <2> QED
    BY <2>1, <2>2
<1>9. \A t \in Sources : Theirs(t)' => ~Carried(requests', t)
  BY <1>1, <1>4 DEF SourceInv, OnceInv
<1>10. OnceInv'
  BY <1>4, <1>7, <1>8, <1>9 DEF OnceInv
<1> QED
  BY <1>6, <1>10 DEF SourceInv

(* Two requests behind each other, of which the first asks. *)
LEMMA AskedOnce ==
    ASSUME WireTypeOK, NEW a \in Request, Asks(a), a.dev = device, requests' = Append(requests, a)
    PROVE  Asked(requests, requests', device, a.item)
<1>1. /\ Grown(requests, requests') /\ \A i \in DOMAIN requests' : i \in DOMAIN requests \/ requests'[i] = a
      /\ \E i \in DOMAIN requests' : requests'[i] = a
  BY AppendGrows DEF WireTypeOK
<1>2. \A i, j \in DOMAIN requests' : i \notin DOMAIN requests /\ j \notin DOMAIN requests => i = j
  BY DEF WireTypeOK
<1>3. ~Turns(a) /\ Carried(requests', a.item)
  BY <1>1 DEF Asks, Turns, Carried
<1> QED
  BY <1>1, <1>2, <1>3 DEF Asked

(* The request of a write and the callback behind it. *)
LEMMA AskedThenSync ==
    ASSUME WireTypeOK, NEW a \in Request, NEW b \in Request, Asks(a), a.dev = device, ~Asks(b), ~Turns(b),
           requests' = requests \o <<a, b>>
    PROVE  Asked(requests, requests', device, a.item)
<1>1. /\ \A i \in DOMAIN requests : i \in DOMAIN requests' /\ requests'[i] = requests[i]
      /\ \A i \in DOMAIN requests' : i \in DOMAIN requests \/ (i = Len(requests) + 1 /\ requests'[i] = a)
                                        \/ (i = Len(requests) + 2 /\ requests'[i] = b)
      /\ \A i \in DOMAIN requests', j \in DOMAIN requests : i \in DOMAIN requests \/ j < i
      /\ DOMAIN requests \subseteq Nat /\ DOMAIN requests' \subseteq Nat
      /\ Len(requests) + 1 \in DOMAIN requests' /\ requests'[Len(requests) + 1] = a
  BY DEF WireTypeOK
<1>2. Grown(requests, requests')
  BY <1>1 DEF Grown
<1>3. ~Turns(a) /\ Carried(requests', a.item)
  BY <1>1 DEF Asks, Turns, Carried
<1>4. \A i \in DOMAIN requests' : i \notin DOMAIN requests => requests'[i] \in {a, b}
  BY <1>1
<1>5. \A i \in DOMAIN requests' : i \notin DOMAIN requests /\ Asks(requests'[i]) => i = Len(requests) + 1
  BY <1>1
<1> QED
  BY <1>2, <1>3, <1>4, <1>5 DEF Asked

-----------------------------------------------------------------------------
(* Every step keeps the sources where they belong. *)
LEMMA SourceStep ==
    ASSUME WireTypeOK, LinkTypeOK, ProxyTypeOK, DeviceInv, SourceInv, [Next]_vars
    PROVE  SourceInv'
<1>t. requests \in Seq(Request) /\ events \in Seq(Event)
  BY DEF WireTypeOK
<1>0. CASE UNCHANGED <<device, sources, requests, events, theirSelection>>
  BY <1>0, SourcesHear DEF Ended
<1>1. CASE Still
  BY <1>0, <1>1 DEF Still, proxies, wire, compositor
<1>2. CASE Leaves
  <2>1. sources' = {} /\ events' = events /\ UNCHANGED theirSelection
    BY <1>2 DEF Leaves, Retire, compositor
  <2>2. Parted(requests, requests', device)
    BY <1>2, FarewellParts, FarewellThenGet, FreshTypes DEF Leaves
  <2> QED
    BY <2>1, <2>2, SourcesLeave
<1>3. CASE Disconnect
  <2>1. device' = None /\ requests' = <<>> /\ events' = <<>> /\ sources' = {} /\ theirSelection' = [m \in Modes |-> None]
    BY <1>3 DEF Disconnect, Retire, Nothing
  <2>2. None \notin Sources
    BY NamesAssumption
  <2> QED
    BY <2>1, <2>2 DEF SourceInv, KeepInv, OnceInv, Calm, Owning, Escorted, Theirs, Single, Carried
<1>4. CASE Finish
  <2>1. Finished(theirDevice) \in Event /\ Finished(theirDevice).op \in {"cancelled", "finished"}
    BY <1>4, EventsMade, EventOps DEF Finish, LinkTypeOK
  <2>2. Told(events') = Told(events) \cup {Finished(theirDevice)}
    BY <1>4, <1>t, <2>1, ToldAppend DEF Finish
  <2>3. UNCHANGED <<device, sources, requests, theirSelection>>
    BY <1>4 DEF Finish, clipboard, following, proxies
  <2> QED
    BY <2>2, <2>3, SourcesHear, ToldApart DEF Ended
<1>5. ASSUME NEW e, Receive(e), e.op \notin {"cancelled", "finished"}, UNCHANGED <<device, sources, requests, theirSelection>>
      PROVE  SourceInv'
  <2>1. events # <<>> /\ events' = Tail(events) /\ Head(events) = e
    BY <1>5 DEF Receive
  <2>2. Told(events') = Told(events)
    BY <1>5, <1>t, <2>1, ToldTail
  <2> QED
    BY <1>5, <2>2, SourcesHear DEF Ended
<1>6. ASSUME NEW d \in Devices, NEW o \in Offers, OnOffer(d, o) PROVE SourceInv'
  BY <1>5, <1>6, EventOps DEF OnOffer, following, compositor
<1>7. ASSUME NEW d \in Devices, NEW m \in Modes, NEW o \in Offers \cup {None},
             NEW c \in Callbacks \cup {None}, OnSelection(d, m, o, c)
      PROVE  SourceInv'
  BY <1>5, <1>7, EventOps DEF OnSelection, following, compositor
<1>8. ASSUME NEW d \in Devices, d = device, OnFinished(d) PROVE SourceInv'
  <2>1. sources' = {} /\ requests' = Farewell /\ UNCHANGED theirSelection
    BY <1>8 DEF OnFinished, RetireOnly, Retire, compositor
  <2>2. events # <<>> /\ events' = Tail(events)
    BY <1>8 DEF OnFinished, Receive
  <2>3. Told(events') \subseteq Told(events)
    BY <1>t, <2>2, ToldTail
  <2> QED
    BY <2>1, <2>3, FarewellParts, SourcesLeave
<1>9. ASSUME NEW d \in Devices, d # device, OnFinished(d) PROVE SourceInv'
  <2>1. events # <<>> /\ events' = Tail(events) /\ Head(events) = Finished(d)
    BY <1>9 DEF OnFinished, Receive
  <2>2. Told(events') \subseteq Told(events) /\ Told(events) \subseteq Told(events') \cup {Finished(d)}
    BY <1>t, <2>1, ToldTail
  <2>3. UNCHANGED <<device, sources, requests, theirSelection>>
    BY <1>9 DEF OnFinished, clipboard, following, proxies, compositor
  <2> QED
    BY <1>9, <2>2, <2>3, SourcesHear, ToldApart DEF Ended
<1>10. ASSUME NEW s \in Sources, OnCancelled(s) PROVE SourceInv'
  <2>1. events # <<>> /\ events' = Tail(events) /\ Head(events) = Cancelled(s)
    BY <1>10 DEF OnCancelled, Receive
  <2>2. /\ Told(events') \subseteq Told(events) /\ Told(events) \subseteq Told(events') \cup {Cancelled(s)}
        /\ Cancelled(s) \in Told(events)
    BY <1>t, <2>1, ToldTail, EventOps
  <2>3. sources' = sources \ {s} /\ UNCHANGED <<device, requests, theirSelection>>
    BY <1>10 DEF OnCancelled, following, compositor
  <2> QED
    BY <2>2, <2>3, SourcesCancel
<1>11. ASSUME NEW c \in Callbacks, OnDone(c) PROVE SourceInv'
  BY <1>5, <1>11, EventOps DEF OnDone, clipboard, following, proxies, compositor
<1> DEFINE Unknown(s) == /\ s \notin sources /\ ~Theirs(s) /\ ~Carried(requests, s)
                         /\ Cancelled(s) \notin Told(events)
<1>n. ASSUME NEW s \in FreshSources PROVE Unknown(s)
  <2>1. s \in Sources /\ s \notin sources /\ s \notin Range(theirSelection) /\ ~Names("item", s)
    BY DEF FreshSources
  <2>2. ~Theirs(s)
    BY <2>1 DEF Theirs, Range, ProxyTypeOK
  <2>3. ~Carried(requests, s)
    BY <2>1, UnnamedRequests DEF Carried
  <2>4. Cancelled(s) \notin Told(events)
    BY <2>1, UnnamedEvents, EventOps DEF Told, Range
  <2> QED
    BY <2>1, <2>2, <2>3, <2>4
<1> HIDE DEF Unknown
<1>12. ASSUME NEW w \in Writers, NEW m \in Modes, Write(w, m) PROVE SourceInv'
  <2>1. PICK s \in FreshSources \cup {None}, c \in FreshCallbacks : SetSelection(m, s, c)
    BY <1>12 DEF Write
  <2> DEFINE a == Set(device, m, s, c)
             b == Sync(c)
  <2>2. device # None /\ UNCHANGED <<device, events, compositor>>
    BY <1>12 DEF Write, Usable, following
  <2>3. s \in Sources \cup {None} /\ c \in Callbacks
    BY <2>1, FreshTypes
  <2>4. a \in Request /\ b \in Request
    BY <2>2, <2>3, RequestsMade DEF LinkTypeOK
  <2>5. Asks(a) /\ a.dev = device /\ a.item = s /\ ~Asks(b) /\ ~Turns(b)
    BY RequestOps DEF Asks, Turns
  <2>6. requests' = requests \o <<a, b>> /\ sources' = sources \cup ({s} \ {None})
    BY <2>1 DEF SetSelection, Sets
  <2> HIDE DEF a, b
  <2>7. Asked(requests, requests', device, s)
    BY <2>4, <2>5, <2>6, AskedThenSync
  <2>8. s \in Sources => Unknown(s)
    BY <1>n, <2>1, NamesAssumption
  <2> QED
    BY <2>2, <2>3, <2>6, <2>7, <2>8, SourcesAsked DEF Unknown
<1>13. ASSUME NEW m \in Modes, NEW s \in FreshSources \cup {None}, Sends(m, s) PROVE SourceInv'
  <2> DEFINE a == Set(device, m, s, None)
  <2>1. device # None /\ UNCHANGED <<device, events, compositor>> /\ s \in Sources \cup {None}
    BY <1>13, FreshTypes DEF Sends
  <2>2. a \in Request
    BY <2>1, RequestsMade DEF LinkTypeOK
  <2>3. Asks(a) /\ a.dev = device /\ a.item = s
    BY RequestOps DEF Asks
  <2>4. requests' = Append(requests, a) /\ sources' = sources \cup ({s} \ {None})
    BY <1>13 DEF Sends, Sets
  <2> HIDE DEF a
  <2>5. Asked(requests, requests', device, s)
    BY <2>2, <2>3, <2>4, AskedOnce
  <2>6. s \in Sources => Unknown(s)
    BY <1>n, NamesAssumption
  <2> QED
    BY <2>1, <2>4, <2>5, <2>6, SourcesAsked DEF Unknown
<1>14. ASSUME NEW d \in Devices, ServeGet(d) PROVE SourceInv'
  <2>1. PICK given \in [Modes -> FreshOffers \cup {None}] :
          /\ events' = events \o Present(d, "main", given) \o Present(d, "select", given)
          /\ theirSelection' = [m \in Modes |-> IF given[m] = None THEN None ELSE Other]
    BY <1>14 DEF ServeGet
  <2>2. given \in [Modes -> Offers \cup {None}]
    BY FreshTypes
  <2>3. Told(events') = Told(events)
    BY <2>1, <2>2, PresentsTold
  <2>4. \A s \in Sources : ~Theirs(s)'
    BY <2>1, NamesAssumption DEF Theirs
  <2>5. Serves(Get(d)) /\ Turns(Get(d)) /\ UNCHANGED <<device, sources>>
    BY <1>14, RequestOps DEF ServeGet, Turns, clipboard, following, proxies
  <2> QED
    BY <2>3, <2>4, <2>5, SourcesTurn
<1>15. ASSUME NEW d \in Devices, ServeGone(d) PROVE SourceInv'
  <2>1. Told(events') = Told(events)
    BY <1>15 DEF ServeGone
  <2>2. \A s \in Sources : ~Theirs(s)'
    BY <1>15, NamesAssumption DEF ServeGone, Theirs
  <2>3. Serves(Gone(d)) /\ Turns(Gone(d)) /\ UNCHANGED <<device, sources>>
    BY <1>15, RequestOps DEF ServeGone, Turns, clipboard, following, proxies
  <2> QED
    BY <2>1, <2>2, <2>3, SourcesTurn
<1>16. ASSUME NEW d \in Devices, NEW m \in Modes, NEW s \in Sources \cup {None},
              NEW c \in Callbacks \cup {None}, ServeSet(d, m, s, c)
       PROVE  SourceInv'
  <2> DEFINE r == Set(d, m, s, c)
  <2>1. Serves(r) /\ Asks(r) /\ ~Turns(r) /\ r.item = s /\ r.dev = d /\ UNCHANGED <<device, sources>>
    BY <1>16, RequestOps DEF ServeSet, Asks, Turns, clipboard, following, proxies
  <2>2. CASE d # theirDevice
    <3>1. UNCHANGED <<events, theirSelection>>
      BY <1>16, <2>2 DEF ServeSet
    <3>2. requests[1] = r /\ 1 \in DOMAIN requests /\ Shifted(requests, requests')
      BY <1>t, <2>1, TailShifts DEF Serves
    <3> HIDE DEF r
    <3>3. ASSUME s \in sources PROVE Ended
      <4>1. d = device
        BY <2>1, <3>2, <3>3 DEF SourceInv, KeepInv, Owning
      <4>2. device # None /\ theirDevice # device
        BY <2>2, <4>1, NamesAssumption
      <4>3. ~Awaited(requests, device)
        BY <2>1, <3>2, <4>1, LineShifts DEF DeviceInv
      <4> QED
        BY <4>2, <4>3 DEF DeviceInv
    <3> QED
      BY <2>1, <3>1, <3>3, SourcesIgnore
  <2>3. CASE d = theirDevice
    <3>1. theirSelection' = [theirSelection EXCEPT ![m] = s]
      BY <1>16, <2>3 DEF ServeSet
    <3>2. PICK o \in Offers \cup {None} :
            \/ events' = events \o Displaced(m) \o Announce(d, m, o, c)
            \/ events' = events \o Displaced(m) \o <<>>
      BY <1>16, <2>3, FreshTypes DEF ServeSet
    <3>3. Displaces(m, s)
      BY <3>1, <3>2, AnswerTold DEF Displaces
    <3> HIDE DEF r
    <3> QED
      BY <2>1, <3>3, SourcesAnswer
  <2> QED
    BY <2>2, <2>3
<1>17. ASSUME NEW c \in Callbacks, ServeSync(c) PROVE SourceInv'
  <2>1. Serves(Sync(c)) /\ ~Turns(Sync(c)) /\ ~Asks(Sync(c)) /\ UNCHANGED <<device, sources, theirSelection>>
    BY <1>17, RequestOps DEF ServeSync, Turns, Asks, clipboard, following, proxies, compositor
  <2>2. Done(c) \in Event /\ Done(c).op \notin {"cancelled", "finished"} /\ events' = Append(events, Done(c))
    BY <1>17, EventsMade, EventOps DEF ServeSync
  <2>3. Told(events') = Told(events)
    BY <1>t, <2>2, ToldAppend
  <2> QED
    BY <2>1, <2>3, SourcesIgnore
<1>18. ASSUME NEW m \in Modes, Copy(m) PROVE SourceInv'
  <2>1. PICK o \in FreshOffers \cup {None} :
          /\ events' = events \o Displaced(m) \o Announce(theirDevice, m, o, None)
          /\ theirSelection' = [theirSelection EXCEPT ![m] = IF o = None THEN None ELSE Other]
    BY <1>18 DEF Copy
  <2>2. theirDevice \in Devices /\ o \in Offers \cup {None} /\ None \in Callbacks \cup {None}
    BY <1>18, FreshTypes DEF Copy, LinkTypeOK
  <2> DEFINE x == IF o = None THEN None ELSE Other
  <2>3. x \notin Sources
    BY NamesAssumption
  <2>4. theirSelection' = [theirSelection EXCEPT ![m] = x]
    BY <2>1
  <2> HIDE DEF x
  <2>5. Told(events') = Told(events) \cup Told(Displaced(m))
    BY <2>1, <2>2, AnswerTold
  <2>6. Displaces(m, x) /\ UNCHANGED <<device, sources, requests>>
    BY <1>18, <2>4, <2>5 DEF Displaces, Copy, clipboard, following, proxies
  <2> QED
    BY <2>3, <2>6, SourcesCopied
<1> QED
  BY <1>1, <1>2, <1>3, <1>4, <1>6, <1>7, <1>8, <1>9, <1>10, <1>11, <1>12, <1>13, <1>14, <1>15, <1>16, <1>17, <1>18, Steps

(* What is kept of the sources is that they are owned. *)
LEMMA SourcesMean ==
    ASSUME WireTypeOK, ProxyTypeOK, SourceInv
    PROVE  SourcesOwned
<1>1. ASSUME NEW s \in sources
      PROVE  Names("item", s) \/ s \in Range(theirSelection) \/ Finished(device) \in Range(events)
  <2>1. ASSUME Carried(requests, s) PROVE Names("item", s)
    BY <2>1, UnnamedRequests DEF Carried
  <2>2. ASSUME Cancelled(s) \in Told(events) PROVE Names("item", s)
    <3>1. PICK i \in DOMAIN events : events[i] = Cancelled(s)
      BY <2>2 DEF Told, Range
    <3> QED
      BY <3>1, UnnamedEvents, EventOps
  <2>3. Theirs(s) => s \in Range(theirSelection)
    BY DEF Theirs, Range, ProxyTypeOK
  <2> QED
    BY <2>1, <2>2, <2>3 DEF SourceInv, KeepInv, Ended, Told
<1>2. ASSUME NEW s \in Range(theirSelection) \cap Sources
      PROVE  s \in sources \/ \E d \in Devices : Gone(d) \in Range(requests)
  <2>1. Theirs(s)
    BY DEF Theirs, Range, ProxyTypeOK
  <2>2. ASSUME Leaving(requests) PROVE \E d \in Devices : Gone(d) \in Range(requests)
    <3>1. PICK i \in DOMAIN requests : requests[i].op = "gone"
      BY <2>2 DEF Leaving
    <3>2. requests[i] \in Request /\ requests[i] \in Range(requests)
      BY DEF WireTypeOK, Range
    <3>3. requests[i].dev \in Devices /\ requests[i] = Gone(requests[i].dev)
      BY <3>1, <3>2 DEF Request, Gone
    <3> QED
      BY <3>2, <3>3
  <2> QED
    BY <2>1, <2>2 DEF SourceInv, KeepInv
<1> QED
  BY <1>1, <1>2 DEF SourcesOwned

-----------------------------------------------------------------------------
(* What both sides hold of a mode. *)

Says(e, d, m) == e.op = "selection" /\ e.dev = d /\ e.mode = m
Silent(q, d, m) == \A i \in DOMAIN q : ~Says(q[i], d, m)

(* The last word of q on a mode, which is either that it is empty or that it is not. *)
Concludes(q, d, m, empty) ==
    \E i \in DOMAIN q : /\ Says(q[i], d, m) /\ ((q[i].item = None) <=> empty)
                        /\ \A j \in DOMAIN q : i < j => ~Says(q[j], d, m)
Requested(q, d, m) == \E i \in DOMAIN q : Asks(q[i]) /\ q[i].dev = d /\ q[i].mode = m

Vacant(m) == theirSelection[m] = None

Agreed(m) ==
    \/ Requested(requests, device, m)
    \/ Concludes(events, device, m, Vacant(m))
    \/ Silent(events, device, m) /\ ((selection[m] = None) <=> Vacant(m))

AgreeInv == device # None /\ theirDevice = device => \A m \in Modes : Agreed(m)

(* The last word on a mode when events are added, *)
LEMMA SaysConcat ==
    ASSUME NEW q \in Seq(Event), NEW r \in Seq(Event), NEW d, NEW m, NEW empty \in BOOLEAN
    PROVE  /\ Silent(q, d, m) /\ Silent(r, d, m) => Silent(q \o r, d, m)
           /\ Concludes(q, d, m, empty) /\ Silent(r, d, m) => Concludes(q \o r, d, m, empty)
           /\ Concludes(r, d, m, empty) => Concludes(q \o r, d, m, empty)
<1> DEFINE t == q \o r
           n == Len(q)
<1>1. /\ \A i \in DOMAIN q : i \in DOMAIN t /\ t[i] = q[i] /\ i <= n /\ i \in Nat
      /\ \A i \in DOMAIN r : n + i \in DOMAIN t /\ t[n + i] = r[i] /\ 1 <= i /\ i \in Nat
      /\ \A i \in DOMAIN t : \/ i \in DOMAIN q /\ t[i] = q[i]
                             \/ i - n \in DOMAIN r /\ t[i] = r[i - n] /\ n < i
      /\ n \in Nat /\ DOMAIN t \subseteq Nat
  OBVIOUS
<1> HIDE DEF t, n
<1>2. Silent(q, d, m) /\ Silent(r, d, m) => Silent(t, d, m)
  BY <1>1 DEF Silent
<1>3. ASSUME Concludes(q, d, m, empty), Silent(r, d, m) PROVE Concludes(t, d, m, empty)
  <2>1. PICK i \in DOMAIN q : /\ Says(q[i], d, m) /\ ((q[i].item = None) <=> empty)
                              /\ \A j \in DOMAIN q : i < j => ~Says(q[j], d, m)
    BY <1>3 DEF Concludes
  <2>2. \A j \in DOMAIN t : i < j => ~Says(t[j], d, m)
    BY <1>1, <1>3, <2>1 DEF Silent
  <2>3. i \in DOMAIN t /\ t[i] = q[i]
    BY <1>1
  <2> QED
    BY <2>1, <2>2, <2>3 DEF Concludes
<1>4. ASSUME Concludes(r, d, m, empty) PROVE Concludes(t, d, m, empty)
  <2>1. PICK i \in DOMAIN r : /\ Says(r[i], d, m) /\ ((r[i].item = None) <=> empty)
                              /\ \A j \in DOMAIN r : i < j => ~Says(r[j], d, m)
    BY <1>4 DEF Concludes
  <2>2. n + i \in DOMAIN t /\ t[n + i] = r[i] /\ 1 <= i /\ i \in Nat
    BY <1>1
  <2>3. ASSUME NEW j \in DOMAIN t, n + i < j PROVE ~Says(t[j], d, m)
    <3>1. j \notin DOMAIN q /\ j \in Nat
      BY <1>1, <2>2, <2>3
    <3>2. j - n \in DOMAIN r /\ t[j] = r[j - n] /\ i < j - n
      BY <1>1, <2>2, <2>3, <3>1
    <3> QED
      BY <2>1, <3>2
  <2> QED
    BY <2>1, <2>2, <2>3 DEF Concludes
<1> QED
  BY <1>2, <1>3, <1>4 DEF t

(* and when the first is taken. *)
LEMMA SaysTail ==
    ASSUME NEW q \in Seq(Event), q # <<>>, NEW d, NEW m, NEW empty \in BOOLEAN
    PROVE  /\ Silent(q, d, m) => Silent(Tail(q), d, m)
           /\ Concludes(q, d, m, empty) =>
                \/ Concludes(Tail(q), d, m, empty)
                \/ Says(q[1], d, m) /\ ((q[1].item = None) <=> empty) /\ Silent(Tail(q), d, m)
<1> DEFINE t == Tail(q)
<1>1. /\ \A i \in DOMAIN t : i + 1 \in DOMAIN q /\ t[i] = q[i + 1] /\ i \in Nat /\ 1 <= i
      /\ \A j \in DOMAIN q : j = 1 \/ (j - 1 \in DOMAIN t /\ t[j - 1] = q[j] /\ j \in Nat)
  OBVIOUS
<1> HIDE DEF t
<1>2. Silent(q, d, m) => Silent(t, d, m)
  BY <1>1 DEF Silent
<1>3. ASSUME Concludes(q, d, m, empty)
      PROVE  \/ Concludes(t, d, m, empty)
             \/ Says(q[1], d, m) /\ ((q[1].item = None) <=> empty) /\ Silent(t, d, m)
  <2>1. PICK i \in DOMAIN q : /\ Says(q[i], d, m) /\ ((q[i].item = None) <=> empty)
                              /\ \A j \in DOMAIN q : i < j => ~Says(q[j], d, m)
    BY <1>3 DEF Concludes
  <2>2. CASE i = 1
    <3>1. ASSUME NEW j \in DOMAIN t PROVE ~Says(t[j], d, m)
      <4>1. j + 1 \in DOMAIN q /\ t[j] = q[j + 1] /\ i < j + 1
        BY <1>1, <2>2
      <4> QED
        BY <2>1, <4>1
    <3> QED
      BY <2>1, <2>2, <3>1 DEF Silent
  <2>3. CASE i # 1
    <3>1. i - 1 \in DOMAIN t /\ t[i - 1] = q[i] /\ i \in Nat
      BY <1>1, <2>3
    <3>2. ASSUME NEW j \in DOMAIN t, i - 1 < j PROVE ~Says(t[j], d, m)
      <4>1. j + 1 \in DOMAIN q /\ t[j] = q[j + 1] /\ i < j + 1
        BY <1>1, <3>1, <3>2
      <4> QED
        BY <2>1, <4>1
    <3> QED
      BY <2>1, <3>1, <3>2 DEF Concludes
  <2> QED
    BY <2>2, <2>3
<1> QED
  BY <1>2, <1>3 DEF t

(* An event that selects nothing says nothing of a mode. *)
LEMMA SaysOne ==
    ASSUME NEW e \in Event, NEW d, NEW m, e.op # "selection"
    PROVE  Silent(<<e>>, d, m)
BY DEF Silent, Says

(* The news of a mode is the last word on that mode, and none on another. *)
LEMMA AnnounceSays ==
    ASSUME NEW d \in Devices, NEW m \in Modes, NEW o \in Offers \cup {None}, NEW c \in Callbacks \cup {None}
    PROVE  /\ Concludes(Announce(d, m, o, c), d, m, o = None)
           /\ \A e, n : e # d \/ n # m => Silent(Announce(d, m, o, c), e, n)
<1> DEFINE b == Selected(d, m, o, c)
<1>1. b.op = "selection" /\ b.dev = d /\ b.mode = m /\ b.item = o
  BY EventOps
<1>2. CASE o = None
  <2>1. Announce(d, m, o, c) = <<b>>
    BY <1>2 DEF Announce
  <2> HIDE DEF b
  <2>2. \A i \in DOMAIN <<b>> : i = 1
    OBVIOUS
  <2>3. 1 \in DOMAIN <<b>> /\ <<b>>[1] = b
    OBVIOUS
  <2>4. \A j \in DOMAIN <<b>> : ~ (1 < j)
    BY <2>2
  <2> QED
    BY <1>1, <2>1, <2>2, <2>3, <2>4 DEF Concludes, Silent, Says
<1>3. CASE o # None
  <2> DEFINE a == Offered(d, o)
  <2>1. Announce(d, m, o, c) = <<a, b>> /\ a.op # "selection"
    BY <1>3, EventOps DEF Announce
  <2> HIDE DEF a, b
  <2>2. \A i \in DOMAIN <<a, b>> : (i = 1 /\ <<a, b>>[i] = a) \/ (i = 2 /\ <<a, b>>[i] = b)
    OBVIOUS
  <2>3. 2 \in DOMAIN <<a, b>> /\ <<a, b>>[2] = b
    OBVIOUS
  <2>4. \A j \in DOMAIN <<a, b>> : ~ (2 < j)
    BY <2>2
  <2> QED
    BY <1>1, <2>1, <2>2, <2>3, <2>4 DEF Concludes, Silent, Says
<1> QED
  BY <1>2, <1>3

(* Nor does what a replaced source is told. *)
LEMMA DisplacedSays ==
    ASSUME NEW m \in Modes, NEW d, NEW n
    PROVE  Silent(Displaced(m), d, n)
<1>1. CASE theirSelection[m] \in Sources
  <2>1. Cancelled(theirSelection[m]) \in Event /\ Cancelled(theirSelection[m]).op # "selection"
    BY <1>1, EventsMade, EventOps
  <2> QED
    BY <1>1, <2>1, SaysOne DEF Displaced
<1>2. CASE theirSelection[m] \notin Sources
  BY <1>2 DEF Displaced, Silent
<1> QED
  BY <1>1, <1>2

(* Answers of the compositor, in one mode and in all of them. *)
LEMMA AnswerSays ==
    ASSUME WireTypeOK, NEW d \in Devices, NEW m \in Modes, NEW o \in Offers \cup {None}, NEW c \in Callbacks \cup {None},
           events' = events \o Displaced(m) \o Announce(d, m, o, c)
    PROVE  /\ Concludes(events', d, m, o = None)
           /\ \A e, n : n # m /\ Silent(events, e, n) => Silent(events', e, n)
           /\ \A e, n : \A empty \in BOOLEAN : n # m /\ Concludes(events, e, n, empty) => Concludes(events', e, n, empty)
<1> DEFINE a == Displaced(m)
           b == Announce(d, m, o, c)
<1>1. a \in Seq(Event) /\ b \in Seq(Event)
  BY DisplacedMade, AnnounceMade
<1>2. /\ Concludes(b, d, m, o = None) /\ (o = None) \in BOOLEAN
      /\ \A e, n : n # m => Silent(b, e, n)
      /\ \A e, n : Silent(a, e, n)
  BY DisplacedSays, AnnounceSays
<1>3. events' = (events \o a) \o b /\ events \in Seq(Event)
  BY DEF WireTypeOK
<1> HIDE DEF a, b
<1>4. events \o a \in Seq(Event)
  BY <1>1, <1>3
<1>5. Concludes(events', d, m, o = None)
  BY <1>1, <1>2, <1>3, <1>4, SaysConcat
<1>6. ASSUME NEW e, NEW n, n # m, Silent(events, e, n) PROVE Silent(events', e, n)
  <2>1. Silent(events \o a, e, n)
    BY <1>1, <1>2, <1>3, <1>6, SaysConcat
  <2> QED
    BY <1>1, <1>2, <1>3, <1>4, <1>6, <2>1, SaysConcat
<1>7. ASSUME NEW e, NEW n, NEW empty \in BOOLEAN, n # m, Concludes(events, e, n, empty)
      PROVE  Concludes(events', e, n, empty)
  <2>1. Concludes(events \o a, e, n, empty)
    BY <1>1, <1>2, <1>3, <1>7, SaysConcat
  <2> QED
    BY <1>1, <1>2, <1>3, <1>4, <1>7, <2>1, SaysConcat
<1> QED
  BY <1>5, <1>6, <1>7

(* A new device hears the state of every mode. *)
LEMMA PresentSays ==
    ASSUME WireTypeOK, NEW d \in Devices, NEW given \in [Modes -> Offers \cup {None}],
           events' = events \o Present(d, "main", given) \o Present(d, "select", given), NEW m \in Modes
    PROVE  Concludes(events', d, m, given[m] = None)
<1> DEFINE a == Present(d, "main", given)
           b == Present(d, "select", given)
<1>1. a \in Seq(Event) /\ b \in Seq(Event)
  BY PresentMade
<1>2. \A n \in Modes : given[n] \in Offers \cup {None} /\ None \in Callbacks \cup {None}
  OBVIOUS
<1>3. m = "main" => Concludes(a, d, m, given[m] = None)
  BY <1>2, AnnounceSays DEF Present
<1>4. m = "main" => Silent(b, d, m)
  <2>1. CASE "select" \in Modes
    <3>1. b = Announce(d, "select", given["select"], None) /\ "main" # "select"
      BY <2>1 DEF Present
    <3> QED
      BY <1>2, <2>1, <3>1, AnnounceSays
  <2>2. CASE "select" \notin Modes
    BY <2>2 DEF Present, Silent
  <2> QED
    BY <2>1, <2>2
<1>5. m = "select" => Concludes(b, d, m, given[m] = None)
  BY <1>2, AnnounceSays DEF Present
<1>6. m \in {"main", "select"} /\ (given[m] = None) \in BOOLEAN
  BY NamesAssumption
<1>7. events' = (events \o a) \o b /\ events \in Seq(Event)
  BY DEF WireTypeOK
<1> HIDE DEF a, b
<1>8. events \o a \in Seq(Event)
  BY <1>1, <1>7
<1>9. CASE m = "main"
  <2>1. Concludes(events \o a, d, m, given[m] = None)
    BY <1>1, <1>3, <1>6, <1>7, <1>9, SaysConcat
  <2> QED
    BY <1>1, <1>4, <1>6, <1>7, <1>8, <1>9, <2>1, SaysConcat
<1>10. CASE m = "select"
  BY <1>1, <1>5, <1>6, <1>7, <1>8, <1>10, SaysConcat
<1> QED
  BY <1>6, <1>9, <1>10

-----------------------------------------------------------------------------
(* Steps that leave both sides' view of the modes as it is. *)
LEMMA AgreeStays ==
    ASSUME AgreeInv, UNCHANGED <<device, theirDevice, theirSelection, selection>>,
           \A m \in Modes : Requested(requests, device, m) => Requested(requests', device, m),
           \A m \in Modes : Silent(events, device, m) => Silent(events', device, m),
           \A m \in Modes, empty \in BOOLEAN :
              Concludes(events, device, m, empty) => Concludes(events', device, m, empty)
    PROVE  AgreeInv'
<1>1. \A m \in Modes : Vacant(m) \in BOOLEAN /\ (Vacant(m)' <=> Vacant(m))
  BY DEF Vacant
<1>2. ASSUME NEW m \in Modes, Agreed(m) PROVE Agreed(m)'
  <2>1. CASE Concludes(events, device, m, Vacant(m))
    <3>1. Concludes(events', device, m, Vacant(m))
      BY <1>1, <2>1
    <3>2. Vacant(m)' = Vacant(m)
      BY DEF Vacant
    <3> QED
      BY <3>1, <3>2 DEF Agreed
  <2>2. CASE Requested(requests, device, m)
    BY <2>2 DEF Agreed
  <2>3. CASE Silent(events, device, m) /\ ((selection[m] = None) <=> Vacant(m))
    BY <1>1, <2>3 DEF Agreed
  <2> QED
    BY <1>2, <2>1, <2>2, <2>3 DEF Agreed
<1> QED
  BY <1>2 DEF AgreeInv

(* An event goes that selects nothing. *)
LEMMA AgreeHears ==
    ASSUME WireTypeOK, AgreeInv, NEW e, Receive(e), e.op # "selection" \/ e.dev # device,
           UNCHANGED <<device, theirDevice, theirSelection, selection, requests>>
    PROVE  AgreeInv'
<1>1. events \in Seq(Event) /\ events # <<>> /\ events' = Tail(events) /\ events[1] = e
  BY DEF WireTypeOK, Receive
<1>2. \A m : ~Says(events[1], device, m)
  BY <1>1 DEF Says
<1>3. \A m \in Modes : Silent(events, device, m) => Silent(events', device, m)
  <2>1. TRUE \in BOOLEAN
    OBVIOUS
  <2> QED
    BY <1>1, <2>1, SaysTail
<1>4. \A m \in Modes, empty \in BOOLEAN :
         Concludes(events, device, m, empty) => Concludes(events', device, m, empty)
  BY <1>1, <1>2, SaysTail
<1> QED
  BY <1>3, <1>4, AgreeStays

(* An event comes that selects nothing. *)
LEMMA AgreeAdds ==
    ASSUME WireTypeOK, NEW e \in Event, e.op # "selection", events' = Append(events, e)
    PROVE  /\ \A d, m : Silent(events, d, m) => Silent(events', d, m)
           /\ \A d, m : \A empty \in BOOLEAN : Concludes(events, d, m, empty) => Concludes(events', d, m, empty)
<1>1. events' = events \o <<e>> /\ <<e>> \in Seq(Event) /\ events \in Seq(Event)
  BY AppendIsConcat DEF WireTypeOK
<1>2. \A d, m : Silent(<<e>>, d, m)
  BY SaysOne
<1>3. TRUE \in BOOLEAN
  OBVIOUS
<1>4. ASSUME NEW d, NEW m, Silent(events, d, m) PROVE Silent(events', d, m)
  BY <1>1, <1>2, <1>3, <1>4, SaysConcat
<1>5. ASSUME NEW d, NEW m, NEW empty \in BOOLEAN, Concludes(events, d, m, empty)
      PROVE  Concludes(events', d, m, empty)
  BY <1>1, <1>2, <1>5, SaysConcat
<1> QED
  BY <1>4, <1>5

(* A selection arrives. *)
LEMMA AgreeSelected ==
    ASSUME WireTypeOK, StateTypeOK, AgreeInv, NEW d \in Devices, NEW m \in Modes, NEW o \in Offers \cup {None},
           NEW c \in Callbacks \cup {None}, OnSelection(d, m, o, c)
    PROVE  AgreeInv'
<1>0. /\ events[1].op = "selection" /\ events[1].dev = d /\ events[1].mode = m /\ events[1].item = o
      /\ events \in Seq(Event) /\ events # <<>> /\ events' = Tail(events)
  BY EventOps DEF WireTypeOK, OnSelection, Receive
<1>1. UNCHANGED <<device, requests, theirDevice, theirSelection>>
  BY DEF OnSelection, following, compositor
<1>2. CASE d # device
  <2>1. UNCHANGED selection
    BY <1>2 DEF OnSelection, Concerns, state
  <2>2. Receive(Selected(d, m, o, c)) /\ Selected(d, m, o, c).dev # device
    BY <1>2, EventOps DEF OnSelection
  <2> QED
    BY <1>1, <2>1, <2>2, AgreeHears
<1>3. CASE d = device
  <2>1. selection' = [selection EXCEPT ![m] = o]
    BY <1>3 DEF OnSelection, Concerns, Select
  <2>2. ASSUME NEW n \in Modes, Agreed(n) PROVE Agreed(n)'
    <3>0. Vacant(n)' = Vacant(n) /\ Vacant(n) \in BOOLEAN
      BY <1>1 DEF Vacant
    <3>s. selection'[n] = IF n = m THEN o ELSE selection[n]
      BY <2>1 DEF StateTypeOK
    <3>1. CASE Requested(requests, device, n)
      BY <1>1, <3>1 DEF Agreed
    <3>2. CASE Concludes(events, device, n, Vacant(n))
      <4>1. \/ Concludes(events', device, n, Vacant(n))
            \/ Says(events[1], device, n) /\ ((events[1].item = None) <=> Vacant(n)) /\ Silent(events', device, n)
        BY <1>0, <3>0, <3>2, SaysTail
      <4>2. Says(events[1], device, n) => n = m
        BY <1>0 DEF Says
      <4> QED
        BY <1>0, <1>1, <3>0, <3>s, <4>1, <4>2 DEF Agreed
    <3>3. CASE Silent(events, device, n) /\ ((selection[n] = None) <=> Vacant(n))
      <4>1. n # m
        <5>1. 1 \in DOMAIN events
          BY <1>0
        <5> QED
          BY <1>0, <1>3, <3>3, <5>1 DEF Silent, Says
      <4>2. Silent(events', device, n)
        <5>1. TRUE \in BOOLEAN
          OBVIOUS
        <5> QED
          BY <1>0, <3>3, <5>1, SaysTail
      <4> QED
        BY <1>1, <3>0, <3>3, <3>s, <4>1, <4>2 DEF Agreed
    <3> QED
      BY <2>2, <3>1, <3>2, <3>3 DEF Agreed
  <2> QED
    BY <1>1, <2>2 DEF AgreeInv
<1> QED
  BY <1>2, <1>3

(* Something is asked of a mode. *)
LEMMA AgreeAsks ==
    ASSUME AgreeInv, StateTypeOK, NEW m \in Modes, NEW x, NEW r \in Request,
           Asked(requests, requests', device, x), r \in Range(requests'), Asks(r), r.dev = device, r.mode = m,
           UNCHANGED <<device, events, compositor>>,
           Select(m, None) \/ UNCHANGED selection
    PROVE  AgreeInv'
<1>1. \A n \in Modes : Requested(requests, device, n) => Requested(requests', device, n)
  BY DEF Asked, Grown, Requested
<1>2. Requested(requests', device, m)
  BY DEF Range, Requested
<1>3. \A n \in Modes : n # m => selection'[n] = selection[n]
  BY DEF Select, StateTypeOK
<1>4. ASSUME NEW n \in Modes, Agreed(n) PROVE Agreed(n)'
  <2>1. CASE n = m
    BY <1>2, <2>1 DEF Agreed
  <2>2. CASE n # m
    <3>1. Vacant(n)' = Vacant(n)
      BY DEF Vacant, compositor
    <3>2. selection'[n] = selection[n]
      BY <1>3, <2>2
    <3> QED
      BY <1>1, <1>4, <3>1, <3>2 DEF Agreed
  <2> QED
    BY <2>1, <2>2
<1> QED
  BY <1>4 DEF AgreeInv, compositor

(* The compositor changes a mode and says so. *)
LEMMA AgreeAnswers ==
    ASSUME WireTypeOK, ProxyTypeOK, AgreeInv, NEW m \in Modes, NEW o \in Offers \cup {None},
           NEW c \in Callbacks \cup {None}, theirDevice \in Devices,
           events' = events \o Displaced(m) \o Announce(theirDevice, m, o, c),
           NEW x, theirSelection' = [theirSelection EXCEPT ![m] = x], x = None <=> o = None,
           UNCHANGED <<device, theirDevice, selection>>,
           \A n \in Modes : n # m /\ Requested(requests, device, n) => Requested(requests', device, n)
    PROVE  AgreeInv'
<1>1. ASSUME NEW n \in Modes, Agreed(n), device = theirDevice PROVE Agreed(n)'
  <2>1. CASE n = m
    <3>1. Concludes(events', device, m, o = None)
      BY <1>1, AnswerSays
    <3>2. (o = None) = Vacant(m)'
      BY DEF Vacant, ProxyTypeOK
    <3> QED
      BY <2>1, <3>1, <3>2 DEF Agreed
  <2>2. CASE n # m
    <3>1. Vacant(n)' = Vacant(n) /\ Vacant(n) \in BOOLEAN
      BY <2>2 DEF Vacant, ProxyTypeOK
    <3>2. \A e, k : k # m /\ Silent(events, e, k) => Silent(events', e, k)
      BY AnswerSays
    <3>3. \A e, k : \A empty \in BOOLEAN : k # m /\ Concludes(events, e, k, empty) => Concludes(events', e, k, empty)
      BY AnswerSays
    <3>4. Silent(events, device, n) => Silent(events', device, n)
      BY <2>2, <3>2
    <3>5. Concludes(events, device, n, Vacant(n)) => Concludes(events', device, n, Vacant(n))
      <4>1. PICK now \in BOOLEAN : now = Vacant(n)
        BY <3>1
      <4>2. Concludes(events, device, n, now) => Concludes(events', device, n, now)
        BY <2>2, <3>3
      <4> QED
        BY <4>1, <4>2
    <3> QED
      BY <1>1, <2>2, <3>1, <3>4, <3>5 DEF Agreed
  <2> QED
    BY <2>1, <2>2
<1> QED
  BY <1>1 DEF AgreeInv

(* Other requests are served. *)
LEMMA RequestedShifts ==
    ASSUME WireTypeOK, NEW r, Serves(r), NEW d, NEW m
    PROVE  Requested(requests, d, m) => Requested(requests', d, m) \/ (Asks(r) /\ r.dev = d /\ r.mode = m)
<1>1. Shifted(requests, requests') /\ requests[1] = r
  BY TailShifts DEF WireTypeOK, Serves
<1> QED
  BY <1>1 DEF Shifted, Requested

-----------------------------------------------------------------------------
(* Where the compositor echoes what it clears, both sides agree on a mode, or
   what makes them agree is under way. *)
LEMMA AgreeStep ==
    ASSUME Echoes = {TRUE}, WireTypeOK, LinkTypeOK, StateTypeOK, ProxyTypeOK, DeviceInv, AgreeInv, [Next]_vars
    PROVE  AgreeInv'
<1>t. requests \in Seq(Request) /\ events \in Seq(Event)
  BY DEF WireTypeOK
<1>0. ASSUME device' = None \/ theirDevice' # device' PROVE AgreeInv'
  BY <1>0 DEF AgreeInv
<1>1. CASE Still
  <2>1. UNCHANGED <<device, theirDevice, theirSelection, selection, requests, events>>
    BY <1>1 DEF Still, wire, compositor
  <2> QED
    BY <2>1, AgreeStays
<1>2. CASE Leaves
  <2>1. theirDevice' = theirDevice
    BY <1>2 DEF Leaves, compositor
  <2> QED
    BY <1>0, <1>2, <2>1 DEF Leaves, FreshDevices
<1>3. CASE Disconnect
  BY <1>0, <1>3 DEF Disconnect
<1>4. CASE Finish
  <2>1. theirDevice' = None
    BY <1>4 DEF Finish
  <2> QED
    BY <1>0, <2>1
<1>5. ASSUME NEW e, Receive(e), e.op # "selection",
             UNCHANGED <<device, theirDevice, theirSelection, selection, requests>>
      PROVE  AgreeInv'
  BY <1>5, AgreeHears
<1>6. ASSUME NEW d \in Devices, NEW o \in Offers, OnOffer(d, o) PROVE AgreeInv'
  BY <1>5, <1>6, EventOps DEF OnOffer, following, state, compositor
<1>7. ASSUME NEW d \in Devices, NEW m \in Modes, NEW o \in Offers \cup {None},
             NEW c \in Callbacks \cup {None}, OnSelection(d, m, o, c)
      PROVE  AgreeInv'
  BY <1>7, AgreeSelected
<1>8. ASSUME NEW d \in Devices, d = device, OnFinished(d) PROVE AgreeInv'
  BY <1>0, <1>8 DEF OnFinished, RetireOnly
<1>9. ASSUME NEW d \in Devices, d # device, OnFinished(d) PROVE AgreeInv'
  BY <1>5, <1>9, EventOps DEF OnFinished, clipboard, following, state, compositor
<1>10. ASSUME NEW s \in Sources, OnCancelled(s) PROVE AgreeInv'
  BY <1>5, <1>10, EventOps DEF OnCancelled, following, state, compositor
<1>11. ASSUME NEW c \in Callbacks, OnDone(c) PROVE AgreeInv'
  BY <1>5, <1>11, EventOps DEF OnDone, clipboard, following, state, compositor
<1>12. ASSUME NEW w \in Writers, NEW m \in Modes, Write(w, m) PROVE AgreeInv'
  <2>1. PICK s \in FreshSources \cup {None}, c \in FreshCallbacks : SetSelection(m, s, c)
    BY <1>12 DEF Write
  <2> DEFINE a == Set(device, m, s, c)
             b == Sync(c)
  <2>2. device # None /\ UNCHANGED <<device, events, compositor>>
    BY <1>12 DEF Write, Usable, following
  <2>3. s \in Sources \cup {None} /\ c \in Callbacks
    BY <2>1, FreshTypes
  <2>4. a \in Request /\ b \in Request
    BY <2>2, <2>3, RequestsMade DEF LinkTypeOK
  <2>5. Asks(a) /\ a.dev = device /\ a.item = s /\ a.mode = m /\ ~Asks(b) /\ ~Turns(b)
    BY RequestOps DEF Asks, Turns
  <2>6. requests' = requests \o <<a, b>>
    BY <2>1 DEF SetSelection, Sets
  <2>7. Select(m, None) \/ UNCHANGED selection
    BY <2>1 DEF SetSelection, Sets, state
  <2> HIDE DEF a, b
  <2>8. Asked(requests, requests', device, s)
    BY <2>4, <2>5, <2>6, AskedThenSync
  <2>9. a \in Range(requests')
    <3>1. Len(requests) + 1 \in DOMAIN requests' /\ requests'[Len(requests) + 1] = a
      BY <1>t, <2>4, <2>6
    <3> QED
      BY <3>1 DEF Range
  <2> QED
    BY <2>2, <2>4, <2>5, <2>7, <2>8, <2>9, AgreeAsks
<1>13. ASSUME NEW m \in Modes, NEW s \in FreshSources \cup {None}, Sends(m, s) PROVE AgreeInv'
  <2> DEFINE a == Set(device, m, s, None)
  <2>1. /\ device # None /\ UNCHANGED <<device, events, compositor>> /\ s \in Sources \cup {None}
        /\ Select(m, None) \/ UNCHANGED selection
    BY <1>13, FreshTypes DEF Sends, Sets, state
  <2>2. a \in Request
    BY <2>1, RequestsMade DEF LinkTypeOK
  <2>3. Asks(a) /\ a.dev = device /\ a.item = s /\ a.mode = m
    BY RequestOps DEF Asks
  <2>4. requests' = Append(requests, a)
    BY <1>13 DEF Sends
  <2> HIDE DEF a
  <2>5. Asked(requests, requests', device, s)
    BY <2>2, <2>3, <2>4, AskedOnce
  <2>6. a \in Range(requests')
    <3>1. Len(requests) + 1 \in DOMAIN requests' /\ requests'[Len(requests) + 1] = a
      BY <1>t, <2>2, <2>4
    <3> QED
      BY <3>1 DEF Range
  <2> QED
    BY <2>1, <2>2, <2>3, <2>5, <2>6, AgreeAsks
<1>14. ASSUME NEW d \in Devices, ServeGet(d) PROVE AgreeInv'
  <2>1. PICK given \in [Modes -> FreshOffers \cup {None}] :
          /\ events' = events \o Present(d, "main", given) \o Present(d, "select", given)
          /\ theirSelection' = [m \in Modes |-> IF given[m] = None THEN None ELSE Other]
    BY <1>14 DEF ServeGet
  <2>2. given \in [Modes -> Offers \cup {None}]
    BY FreshTypes
  <2>3. device' = device /\ theirDevice' = d
    BY <1>14 DEF ServeGet, clipboard, following
  <2>4. ASSUME NEW m \in Modes, device = d PROVE Agreed(m)'
    <3>1. Concludes(events', d, m, given[m] = None)
      BY <2>1, <2>2, PresentSays
    <3>2. (given[m] = None) = Vacant(m)'
      <4>1. theirSelection'[m] = IF given[m] = None THEN None ELSE Other
        BY <2>1
      <4>2. Other # None
        BY NamesAssumption
      <4> QED
        BY <4>1, <4>2 DEF Vacant
    <3> QED
      BY <2>3, <2>4, <3>1, <3>2 DEF Agreed
  <2> QED
    BY <2>3, <2>4 DEF AgreeInv
<1>15. ASSUME NEW d \in Devices, ServeGone(d) PROVE AgreeInv'
  <2>1. Shifted(requests, requests') /\ requests[1] = Gone(d) /\ 1 \in DOMAIN requests
    BY <1>15, <1>t, TailShifts DEF ServeGone, Serves
  <2>2. device' = device /\ theirDevice' = (IF theirDevice = d THEN None ELSE theirDevice)
    BY <1>15 DEF ServeGone, clipboard, following
  <2>3. ~Calm(requests)
    BY <2>1, RequestOps DEF Calm, Turns
  <2>4. theirDevice = device /\ device # None => FALSE
    BY <2>3 DEF DeviceInv
  <2> QED
    BY <1>0, <2>2, <2>4
<1>16. ASSUME NEW d \in Devices, NEW m \in Modes, NEW s \in Sources \cup {None},
              NEW c \in Callbacks \cup {None}, ServeSet(d, m, s, c)
       PROVE  AgreeInv'
  <2> DEFINE r == Set(d, m, s, c)
  <2>1. Serves(r) /\ r.dev = d /\ r.mode = m /\ UNCHANGED <<device, theirDevice, selection>>
    BY <1>16, RequestOps DEF ServeSet, clipboard, following, state
  <2>2. \A e, n : Requested(requests, e, n) => Requested(requests', e, n) \/ (d = e /\ m = n)
    <3> HIDE DEF r
    <3> QED
      BY <2>1, RequestedShifts
  <2> HIDE DEF r
  <2>3. CASE theirDevice # device
    BY <1>0, <2>1, <2>3
  <2>4. CASE theirDevice = device /\ d # theirDevice
    <3>1. UNCHANGED <<events, theirSelection>>
      BY <1>16, <2>4 DEF ServeSet
    <3> QED
      BY <2>1, <2>2, <2>4, <3>1, AgreeStays
  <2>5. CASE d = theirDevice
    <3>1. theirSelection' = [theirSelection EXCEPT ![m] = s]
      BY <1>16, <2>5 DEF ServeSet
    <3>2. PICK o \in Offers \cup {None} :
            /\ events' = events \o Displaced(m) \o Announce(d, m, o, c)
            /\ s = None <=> o = None
      <4>1. CASE s = None
        BY <1>16, <2>5, <4>1 DEF ServeSet
      <4>2. CASE s # None
        <5>1. PICK o \in FreshOffers : events' = events \o Displaced(m) \o Announce(d, m, o, c)
          BY <1>16, <2>5, <4>2 DEF ServeSet
        <5>2. o \in Offers /\ o # None
          BY NamesAssumption DEF FreshOffers
        <5> QED
          BY <4>2, <5>1, <5>2
      <4> QED
        BY <4>1, <4>2
    <3>3. \A n \in Modes : n # m /\ Requested(requests, device, n) => Requested(requests', device, n)
      BY <2>2
    <3> QED
      BY <2>1, <2>5, <3>1, <3>2, <3>3, AgreeAnswers
  <2> QED
    BY <2>3, <2>4, <2>5
<1>17. ASSUME NEW c \in Callbacks, ServeSync(c) PROVE AgreeInv'
  <2>1. Serves(Sync(c)) /\ ~Asks(Sync(c)) /\ UNCHANGED <<device, theirDevice, theirSelection, selection>>
    BY <1>17, RequestOps DEF ServeSync, Asks, clipboard, following, state, compositor
  <2>2. Done(c) \in Event /\ Done(c).op # "selection" /\ events' = Append(events, Done(c))
    BY <1>17, EventsMade, EventOps DEF ServeSync
  <2>3. \A e, n : Requested(requests, e, n) => Requested(requests', e, n)
    BY <2>1, RequestedShifts
  <2>4. /\ \A e, n : Silent(events, e, n) => Silent(events', e, n)
        /\ \A e, n : \A empty \in BOOLEAN : Concludes(events, e, n, empty) => Concludes(events', e, n, empty)
    BY <2>2, AgreeAdds
  <2> QED
    BY <2>1, <2>3, <2>4, AgreeStays
<1>18. ASSUME NEW m \in Modes, Copy(m) PROVE AgreeInv'
  <2>1. PICK o \in FreshOffers \cup {None} :
          /\ events' = events \o Displaced(m) \o Announce(theirDevice, m, o, None)
          /\ theirSelection' = [theirSelection EXCEPT ![m] = IF o = None THEN None ELSE Other]
    BY <1>18 DEF Copy
  <2>2. theirDevice \in Devices /\ o \in Offers \cup {None} /\ None \in Callbacks \cup {None}
    BY <1>18, FreshTypes DEF Copy, LinkTypeOK
  <2> DEFINE x == IF o = None THEN None ELSE Other
  <2>3. x = None <=> o = None
    BY NamesAssumption
  <2>4. theirSelection' = [theirSelection EXCEPT ![m] = x]
    BY <2>1
  <2> HIDE DEF x
  <2>5. UNCHANGED <<device, theirDevice, selection, requests>>
    BY <1>18 DEF Copy, clipboard, following, state
  <2> QED
    BY <2>1, <2>2, <2>3, <2>4, <2>5, AgreeAnswers
<1> QED
  BY <1>1, <1>2, <1>3, <1>4, <1>6, <1>7, <1>8, <1>9, <1>10, <1>11, <1>12, <1>13, <1>14, <1>15, <1>16, <1>17, <1>18, Steps

(* With nothing under way, both sides agree. *)
LEMMA AgreesMean ==
    ASSUME AgreeInv
    PROVE  AgreesWhenQuiet
<1>1. ASSUME requests = <<>>, events = <<>>, NEW m \in Modes, Agreed(m)
      PROVE  selection[m] = None <=> theirSelection[m] = None
  BY <1>1 DEF Agreed, Requested, Concludes, Vacant
<1> QED
  BY <1>1 DEF AgreeInv, AgreesWhenQuiet
-----------------------------------------------------------------------------
(* All together: what the wire holds is typed, and the rest is about it. *)

WireInv == /\ Bound /\ LinkInv /\ StateTypeOK /\ EmptyUntilTold /\ WaitInv
           /\ WireTypeOK /\ SettledInv /\ OfferInv /\ DeviceInv /\ SourceInv

(* What is not there is in order. *)
LEMMA NothingUnderWay ==
    ASSUME Init
    PROVE  WireTypeOK /\ SettledInv /\ OfferInv /\ DeviceInv /\ SourceInv /\ AgreeInv
<1>1. requests = <<>> /\ events = <<>> /\ device = None /\ theirDevice = None
  BY DEF Init
<1>2. DOMAIN requests = {} /\ DOMAIN events = {} /\ Told(events) = {}
  BY <1>1 DEF Told, Range
<1>3. WireTypeOK
  BY <1>1 DEF WireTypeOK
<1>4. SettledInv
  <2>1. \A w \in Writers : writer[w] = "idle" /\ future[w] = "none"
    BY DEF Init
  <2> QED
    BY <1>2, <2>1 DEF SettledInv, LastWord, Ends, Behind, Free, Open, Quiet
<1>5. OfferInv
  <2>1. offers = {} /\ \A m \in Modes : selection[m] = None
    BY DEF Init, Nothing
  <2> QED
    BY <1>1, <1>2, <2>1 DEF OfferInv, Chosen, Announced, Ahead, Unpicked
<1>6. DeviceInv
  BY <1>1, <1>2 DEF DeviceInv, Line, Awaited
<1>7. SourceInv
  <2>1. sources = {} /\ \A m \in Modes : theirSelection[m] = None
    BY DEF Init, Nothing
  <2>2. None \notin Sources
    BY NamesAssumption
  <2> QED
    BY <1>1, <1>2, <2>1, <2>2 DEF SourceInv, KeepInv, OnceInv, Calm, Owning, Escorted, Theirs, Single, Carried
<1>8. AgreeInv
  BY <1>1 DEF AgreeInv
<1> QED
  BY <1>3, <1>4, <1>5, <1>6, <1>7, <1>8

(* All this holds at first, and every step keeps it. *)
LEMMA WireFacts ==
    /\ Init => WireInv
    /\ WireInv /\ [Next]_vars => WireInv'
<1>1. ASSUME Init PROVE WireInv
  <2>1. Bound /\ SeatsTypeOK
    BY <1>1 DEF Init, SeatsInit, Bound, SeatsTypeOK
  <2>2. LinkTypeOK /\ ProxyTypeOK
    BY <1>1 DEF Init, LinkTypeOK, ProxyTypeOK, Nothing
  <2>3. StateTypeOK /\ EmptyUntilTold
    BY <1>1 DEF Init, StateTypeOK, EmptyUntilTold, Nothing
  <2>4. WaitInv
    BY <1>1 DEF Init, WaitInv, WaitTypeOK, OwnCallbacks, PendingWait, WaitersHaveBarriers
  <2> QED
    BY <1>1, <2>1, <2>2, <2>3, <2>4, NothingUnderWay DEF LinkInv, WireInv
<1>2. ASSUME WireInv, [Next]_vars PROVE WireInv'
  <2>1. Bound /\ LinkInv /\ StateTypeOK /\ EmptyUntilTold /\ WaitInv /\ WireTypeOK
    BY <1>2 DEF WireInv
  <2>2. LinkTypeOK /\ ProxyTypeOK /\ WaitTypeOK
    BY <2>1 DEF LinkInv, WaitInv
  <2>3. (Bound /\ LinkInv /\ StateTypeOK /\ EmptyUntilTold /\ WaitInv)'
    BY <1>2, <2>1, BoundStep, LinkStep, StateTypeStep, WaitStep
  <2>4. WireTypeOK'
    BY <1>2, <2>1, <2>2, WireTypeStep
  <2>5. SettledInv'
    BY <1>2, <2>1, <2>2, SettledStep DEF WireInv
  <2>6. OfferInv'
    BY <1>2, <2>1, <2>2, OfferStep DEF WireInv
  <2>7. DeviceInv'
    BY <1>2, <2>1, <2>2, <2>4, DeviceStep DEF WireInv
  <2>8. SourceInv'
    BY <1>2, <2>1, <2>2, SourceStep DEF WireInv
  <2> QED
    BY <2>3, <2>4, <2>5, <2>6, <2>7, <2>8 DEF WireInv
<1> QED
  BY <1>1, <1>2

(* Neither side keeps an object the other has given up, or misses one. *)
THEOREM ObjectsAreOwned == Spec => []ObjectsOwned
<1>1. WireInv => ObjectsOwned
  BY OffersMean, SourcesMean DEF WireInv, LinkInv, ObjectsOwned
<1> QED
  BY <1>1, WireFacts, PTL DEF Spec

(* A write that has returned has nothing of its own still to come. *)
THEOREM ReturnedSettles == Spec => []ReturnedIsSettled
<1>1. WireInv => ReturnedIsSettled
  BY SettledMeans DEF WireInv
<1> QED
  BY <1>1, WireFacts, PTL DEF Spec

(* Where the compositor echoes every clear, both sides agree once nothing is under
   way.  Where it leaves some out, a mode it has cleared may seem full here. *)
THEOREM QuietMeansAgreed == ASSUME Echoes = {TRUE} PROVE Spec => []AgreesWhenQuiet
<1>1. Init => WireInv /\ AgreeInv
  BY WireFacts, NothingUnderWay
<1>2. WireInv /\ AgreeInv /\ [Next]_vars => WireInv' /\ AgreeInv'
  BY WireFacts, AgreeStep DEF WireInv, LinkInv
<1>3. WireInv /\ AgreeInv => AgreesWhenQuiet
  BY AgreesMean
<1> QED
  BY <1>1, <1>2, <1>3, PTL DEF Spec
=============================================================================
