----------------------------- MODULE Clipboard -----------------------------
(***************************************************************************)
(* plugins/wayland_backend/clipboard.py between the seats it follows, the  *)
(* compositor and the threads that write.  Requests and events travel in   *)
(* order and meet changes the other side has made meanwhile.               *)
(*                                                                         *)
(* Everything Clipboard does runs on the connection's owner thread, one    *)
(* callback or command at a time; a write() then waits on its own thread   *)
(* for the sync callback sent behind its request.  Payloads are left out,  *)
(* and pipes are in Transfers.  The compositor is external.                *)
(***************************************************************************)
EXTENDS Seats, Sequences, Functions

CONSTANTS Modes,            \* "main", and "select" where it is supported
          Devices, Offers, Sources, Callbacks,      \* protocol objects
          Writers,          \* callers of Clipboard.write()
          Other,            \* a selection of another client
          Echoes,           \* whether a clear comes back as an event: TRUE, FALSE or both
          MaxRevision,      \* bound on the revisions
          MaxWire           \* bound on requests and events under way

ASSUME NamesAssumption ==
    /\ Modes \subseteq {"main", "select"}
    /\ None \notin Devices \cup Offers \cup Sources \cup Callbacks \cup {Other}
    /\ Other \notin Sources /\ Echoes \subseteq BOOLEAN

VARIABLES
    up, stopping,           \* the connection runs; WaylandConnection._stopping
    manager, listening,     \* Clipboard._manager, _unsubscribe
    finishedSeat,           \* _finished_seat
    device, deviceSeat,     \* _device, _seat_id
    available, revision,    \* _available, _revisions
    selection,              \* _selections
    offers, sources,        \* _offers, _sources
    barriers,               \* WaylandConnection._barriers
    requests, events,       \* on the wire, to and from the compositor
    theirDevice, theirSelection,    \* what the compositor holds
    writer, callback, future        \* each write(): where it is, what it awaits

connection == <<up, stopping>>
binding == <<manager, listening, finishedSeat>>
following == <<device, deviceSeat>>
state == <<available, revision, selection>>
proxies == <<offers, sources>>
clipboard == <<following, state, proxies>>
wire == <<requests, events>>
compositor == <<theirDevice, theirSelection>>
writers == <<writer, callback, future>>
vars == <<registry, connection, binding, clipboard, barriers, wire, compositor, writers>>

(* Messages; "by" is the callback of the write that caused one. *)
Get(d) == [op |-> "get", dev |-> d]
Gone(d) == [op |-> "gone", dev |-> d]
Set(d, m, s, c) == [op |-> "set", dev |-> d, mode |-> m, item |-> s, by |-> c]
Sync(c) == [op |-> "sync", by |-> c]
Offered(d, o) == [op |-> "offer", dev |-> d, item |-> o]
Selected(d, m, o, c) == [op |-> "selection", dev |-> d, mode |-> m, item |-> o, by |-> c]
Cancelled(s) == [op |-> "cancelled", item |-> s]
Done(c) == [op |-> "done", by |-> c]
Finished(d) == [op |-> "finished", dev |-> d]

Messages == Range(requests) \cup Range(events)
Names(field, x) == \E msg \in Messages : field \in DOMAIN msg /\ msg[field] = x

(* Identities nothing refers to any more are used again. *)
FreshDevices == {d \in Devices \ {device, theirDevice} : ~Names("dev", d)}
FreshOffers == {o \in Offers \ offers : ~Names("item", o)}
FreshSources == {s \in Sources \ (sources \cup Range(theirSelection)) : ~Names("item", s)}
FreshCallbacks == {c \in Callbacks \ (barriers \cup Range(callback)) : ~Names("by", c)}

Nothing == [m \in Modes |-> None]

Init ==
    /\ SeatsInit
    /\ up = FALSE /\ stopping = FALSE
    /\ manager = FALSE /\ listening = FALSE /\ finishedSeat = None
    /\ device = None /\ deviceSeat = None
    /\ available = [m \in Modes |-> FALSE] /\ revision = [m \in Modes |-> 0]
    /\ selection = Nothing /\ offers = {} /\ sources = {} /\ barriers = {}
    /\ requests = <<>> /\ events = <<>>
    /\ theirDevice = None /\ theirSelection = Nothing
    /\ writer = [w \in Writers |-> "idle"] /\ callback = [w \in Writers |-> None]
    /\ future = [w \in Writers |-> "none"]

(* What starts a new exchange is bounded; what goes on with one is not. *)
Room == Len(requests) + Len(events) < MaxWire /\ \A m \in Modes : revision[m] < MaxRevision

-----------------------------------------------------------------------------
(* The device. *)

(* Broken: leaves the revisions as they are. *)
RetireQuietly ==
    /\ available' = [m \in Modes |-> FALSE] /\ revision' = revision
    /\ selection' = Nothing /\ offers' = {} /\ sources' = {}

(* _retire_device(): modes that were available get a new revision. *)
Retire ==
    /\ available' = [m \in Modes |-> FALSE]
    /\ revision' = [m \in Modes |-> IF available[m] THEN revision[m] + 1 ELSE revision[m]]
    /\ selection' = Nothing /\ offers' = {} /\ sources' = {}

Farewell == IF device = None THEN requests ELSE Append(requests, Gone(device))

(* _retire_device() and nothing after it. *)
RetireOnly == Retire /\ device' = None /\ deviceSeat' = None /\ requests' = Farewell

(* Broken: a device, once there, stays. *)
FollowsAny(seat) == device # None
Follows(seat) == device # None /\ seat = deviceSeat

(* _refresh_device() where it may create a device: the old one goes first. *)
Renew(seat, managed) ==
    /\ Retire
    /\ IF managed /\ seat # None /\ ~stopping /\ seat # finishedSeat'
       THEN \E d \in FreshDevices :
              /\ device' = d /\ deviceSeat' = seat
              /\ requests' = Append(Farewell, Get(d))
       ELSE device' = None /\ deviceSeat' = None /\ requests' = Farewell

(* _refresh_device().  If a step of the retirement raises, the rest of it is done,
   no device follows, and guard() stops the connection. *)
Refresh(seat, managed) ==
    IF Follows(seat) THEN UNCHANGED <<clipboard, requests, stopping>>
    ELSE \/ Renew(seat, managed) /\ UNCHANGED stopping
         \/ device # None /\ RetireOnly /\ stopping' = TRUE

(* bind() *)
BindManager ==
    /\ up /\ ~manager /\ Room
    /\ manager' = TRUE /\ listening' = TRUE /\ finishedSeat' = None
    /\ Refresh(selectedSeat, TRUE)
    /\ UNCHANGED <<registry, up, barriers, events, compositor, writers>>

(* remove() *)
RemoveManager ==
    /\ up /\ manager /\ Room
    /\ manager' = FALSE /\ UNCHANGED <<listening, finishedSeat>>
    /\ RetireOnly
    /\ UNCHANGED <<registry, connection, barriers, events, compositor, writers>>

(* remove() where another manager has been announced, which _activate_next() binds
   at once. *)
ReplaceManager ==
    /\ up /\ manager /\ Room
    /\ UNCHANGED <<manager, listening>> /\ finishedSeat' = None
    /\ Renew(selectedSeat, TRUE)
    /\ UNCHANGED <<registry, connection, barriers, events, compositor, writers>>

(* A callback of SeatRegistry, and _refresh_device() as its listener. *)
Listen(told) ==
    /\ UNCHANGED <<binding, up, barriers, events, compositor, writers>>
    /\ IF listening /\ (told \/ Changed) THEN Refresh(selectedSeat', manager)
       ELSE UNCHANGED <<clipboard, requests, stopping>>

Seat ==
    /\ up /\ Room
    /\ \/ \E s \in SeatIds : BindSeat(s) /\ Listen(FALSE)
       \/ \E s \in SeatIds : NameSeat(s) /\ Listen(FALSE)
       \/ \E s \in SeatIds : RemoveSeat(s) /\ Listen(TRUE)
       \/ RepeatSeat /\ Listen(TRUE)

-----------------------------------------------------------------------------
(* Events. *)

Receive(e) == up /\ events # <<>> /\ Head(events) = e /\ events' = Tail(events)

(* _on_offer() *)
OnOffer(d, o) ==
    /\ Receive(Offered(d, o))
    /\ offers' = IF d = device THEN offers \cup {o} ELSE offers
    /\ UNCHANGED <<registry, connection, binding, following, state, sources, barriers,
                   requests, compositor, writers>>

(* The body of _on_selection(): every selection is news, and the offer it
   replaces is retired. *)
Select(m, o) ==
    /\ selection' = [selection EXCEPT ![m] = o]
    /\ available' = [available EXCEPT ![m] = TRUE]
    /\ revision' = [revision EXCEPT ![m] = @ + 1]
    /\ offers' = offers \ ({selection[m]} \ {o})

(* Broken: a selection that is nothing is passed over. *)
ConcernsOffers(d, o) == d = device /\ o # None
Concerns(d, o) == d = device

(* _on_selection(); the lookup of an offer that is not known would raise. *)
OnSelection(d, m, o, c) ==
    /\ Receive(Selected(d, m, o, c))
    /\ IF Concerns(d, o) THEN o \in offers \cup {None} /\ Select(m, o)
       ELSE UNCHANGED <<state, offers>>
    /\ UNCHANGED <<registry, connection, binding, following, sources, barriers,
                   requests, compositor, writers>>

(* _on_finished() *)
OnFinished(d) ==
    /\ Receive(Finished(d))
    /\ IF d = device THEN finishedSeat' = deviceSeat /\ RetireOnly
       ELSE UNCHANGED <<finishedSeat, clipboard, requests>>
    /\ UNCHANGED <<registry, connection, manager, listening, barriers, compositor, writers>>

(* _on_cancelled() *)
OnCancelled(s) ==
    /\ Receive(Cancelled(s))
    /\ sources' = sources \ {s}
    /\ UNCHANGED <<registry, connection, binding, following, state, offers, barriers,
                   requests, compositor, writers>>

(* _finish_barrier() *)
FinishBarrier(c) ==
    /\ barriers' = barriers \ {c}
    /\ future' = [w \in Writers |-> IF c \in barriers /\ callback[w] = c /\ future[w] = "pending"
                                    THEN "done" ELSE future[w]]

OnDone(c) ==
    /\ Receive(Done(c)) /\ FinishBarrier(c)
    /\ UNCHANGED <<registry, connection, binding, clipboard, requests, compositor,
                   writer, callback>>

Dispatch ==
    \/ \E d \in Devices, o \in Offers : OnOffer(d, o)
    \/ \E d \in Devices, m \in Modes, o \in Offers \cup {None}, c \in Callbacks \cup {None} :
          OnSelection(d, m, o, c)
    \/ \E d \in Devices : OnFinished(d)
    \/ \E s \in Sources : OnCancelled(s)
    \/ \E c \in Callbacks : OnDone(c)

-----------------------------------------------------------------------------
(* Writers. *)

Usable(m) == up /\ ~stopping /\ available[m] /\ device # None

(* What _set_selection() has done when its request has been sent; it clears at once
   what it is to clear. *)
Sets(m, s) ==
    /\ sources' = sources \cup ({s} \ {None})
    /\ IF s = None /\ selection[m] # None THEN Select(m, None)
       ELSE UNCHANGED <<state, offers>>

(* Broken: the barrier goes ahead of the request. *)
SyncFirst(m, s, c) ==
    /\ Sets(m, s)
    /\ requests' = requests \o <<Sync(c), Set(device, m, s, c)>>
    /\ barriers' = barriers \cup {c}

(* All of it, and the barrier of synchronize(). *)
SetSelection(m, s, c) ==
    /\ Sets(m, s)
    /\ requests' = requests \o <<Set(device, m, s, c), Sync(c)>>
    /\ barriers' = barriers \cup {c}

(* write() up to the wait; without a device it raises and changes nothing. *)
Write(w, m) ==
    /\ writer[w] \in {"idle", "returned"} /\ Usable(m) /\ Room
    /\ \E s \in FreshSources \cup {None}, c \in FreshCallbacks :
         /\ SetSelection(m, s, c)
         /\ callback' = [callback EXCEPT ![w] = c]
    /\ writer' = [writer EXCEPT ![w] = "waiting"]
    /\ future' = [future EXCEPT ![w] = "pending"]
    /\ UNCHANGED <<registry, connection, binding, following, events, compositor>>

(* Broken: an error leaves the new source behind. *)
KeepSource == \E s \in FreshSources : sources' = sources \cup {s}
ReleaseSource == UNCHANGED sources

(* write() raises: before its request, when the new source goes again, or after it,
   in retiring the offer it clears or in sending its barrier, when the request
   stays sent. *)
WriteRaises(w, m) ==
    /\ writer[w] \in {"idle", "returned"} /\ Usable(m) /\ Room
    /\ \/ ReleaseSource /\ UNCHANGED <<state, offers, requests>>
       \/ \E s \in FreshSources \cup {None} :
             Sets(m, s) /\ requests' = Append(requests, Set(device, m, s, None))
    /\ writer' = [writer EXCEPT ![w] = "idle"]
    /\ callback' = [callback EXCEPT ![w] = None]
    /\ future' = [future EXCEPT ![w] = "none"]
    /\ UNCHANGED <<registry, connection, binding, following, barriers, events, compositor>>

Leave(w, where) ==
    /\ writer' = [writer EXCEPT ![w] = where]
    /\ future' = [future EXCEPT ![w] = "none"]
    /\ callback' = IF where = "returned" THEN callback ELSE [callback EXCEPT ![w] = None]
    /\ UNCHANGED <<registry, connection, binding, clipboard, wire, compositor>>

(* future.result(timeout) answers, or its timeout passes first. *)
Answered(w) ==
    /\ writer[w] = "waiting" /\ future[w] \in {"done", "failed"}
    /\ Leave(w, IF future[w] = "done" THEN "returned" ELSE "idle")
    /\ UNCHANGED barriers

TimesOut(w) ==
    /\ writer[w] = "waiting" /\ future[w] = "pending"
    /\ writer' = [writer EXCEPT ![w] = "late"]
    /\ UNCHANGED <<registry, connection, binding, clipboard, barriers, wire, compositor,
                   callback, future>>

(* synchronize() raises TimeoutError, after retiring its barrier if the owner still
   does that for it. *)
Raises(w) ==
    /\ writer[w] = "late" /\ Leave(w, "idle")
    /\ \/ up /\ ~stopping /\ barriers' = barriers \ {callback[w]}
       \/ UNCHANGED barriers

-----------------------------------------------------------------------------
(* The connection. *)

Connect ==
    /\ ~up
    /\ up' = TRUE /\ stopping' = FALSE
    /\ UNCHANGED <<registry, binding, clipboard, barriers, wire, compositor, writers>>

(* stop(), or fail() for whatever reason. *)
Stop ==
    /\ up /\ ~stopping /\ stopping' = TRUE
    /\ UNCHANGED <<registry, up, binding, clipboard, barriers, wire, compositor, writers>>

(* Broken: nobody tells the writers. *)
DropBarriers == barriers' = {} /\ UNCHANGED future

FailBarriers ==
    /\ barriers' = {}
    /\ future' = [w \in Writers |-> IF callback[w] \in barriers /\ future[w] = "pending"
                                    THEN "failed" ELSE future[w]]

(* _disconnect(): the barriers fail, close() of the clipboard, then of the seats. *)
Disconnect ==
    /\ up /\ stopping /\ up' = FALSE /\ UNCHANGED stopping
    /\ FailBarriers
    /\ manager' = FALSE /\ listening' = FALSE /\ finishedSeat' = None
    /\ Retire /\ device' = None /\ deviceSeat' = None
    /\ CloseSeats
    /\ requests' = <<>> /\ events' = <<>>
    /\ theirDevice' = None /\ theirSelection' = Nothing
    /\ UNCHANGED <<writer, callback>>

-----------------------------------------------------------------------------
(* The compositor, which is external. *)

Serves(r) == up /\ requests # <<>> /\ Head(requests) = r /\ requests' = Tail(requests)

Announce(d, m, o, c) ==
    IF o = None THEN <<Selected(d, m, None, c)>> ELSE <<Offered(d, o), Selected(d, m, o, c)>>

(* A source that is the selection no longer is told so. *)
Displaced(m) == IF theirSelection[m] \in Sources THEN <<Cancelled(theirSelection[m])>> ELSE <<>>

(* A new device learns what there is in every mode. *)
Present(d, m, given) == IF m \in Modes THEN Announce(d, m, given[m], None) ELSE <<>>

ServeGet(d) ==
    /\ Serves(Get(d)) /\ theirDevice' = d
    /\ \E given \in [Modes -> FreshOffers \cup {None}] :
         /\ \A m, n \in Modes : m # n /\ given[m] = given[n] => given[m] = None
         /\ events' = events \o Present(d, "main", given) \o Present(d, "select", given)
         /\ theirSelection' = [m \in Modes |-> IF given[m] = None THEN None ELSE Other]
    /\ UNCHANGED <<registry, connection, binding, clipboard, barriers, writers>>

(* "Some compositors omit the selection event for our own clear." *)
ServeSet(d, m, s, c) ==
    /\ Serves(Set(d, m, s, c))
    /\ IF d # theirDevice THEN UNCHANGED <<events, theirSelection>>
       ELSE /\ theirSelection' = [theirSelection EXCEPT ![m] = s]
            /\ IF s = None
               THEN \E echo \in Echoes :
                      events' = events \o Displaced(m)
                                       \o (IF echo THEN Announce(d, m, None, c) ELSE <<>>)
               ELSE \E o \in FreshOffers :
                      events' = events \o Displaced(m) \o Announce(d, m, o, c)
    /\ UNCHANGED <<registry, connection, binding, clipboard, barriers, theirDevice, writers>>

ServeSync(c) ==
    /\ Serves(Sync(c)) /\ events' = Append(events, Done(c))
    /\ UNCHANGED <<registry, connection, binding, clipboard, barriers, compositor, writers>>

(* A device goes with the sources of its client. *)
ServeGone(d) ==
    /\ Serves(Gone(d)) /\ UNCHANGED events
    /\ theirDevice' = IF theirDevice = d THEN None ELSE theirDevice
    /\ theirSelection' = [m \in Modes |-> IF theirSelection[m] \in Sources THEN None
                                          ELSE theirSelection[m]]
    /\ UNCHANGED <<registry, connection, binding, clipboard, barriers, writers>>

Serve ==
    \/ \E d \in Devices : ServeGet(d) \/ ServeGone(d)
    \/ \E d \in Devices, m \in Modes, s \in Sources \cup {None}, c \in Callbacks \cup {None} :
          ServeSet(d, m, s, c)
    \/ \E c \in Callbacks : ServeSync(c)

(* Another client copies, or clears. *)
Copy(m) ==
    /\ up /\ theirDevice # None /\ Room
    /\ \E o \in FreshOffers \cup {None} :
         /\ events' = events \o Displaced(m) \o Announce(theirDevice, m, o, None)
         /\ theirSelection' = [theirSelection EXCEPT ![m] = IF o = None THEN None ELSE Other]
    /\ UNCHANGED <<registry, connection, binding, clipboard, barriers, requests, theirDevice, writers>>

(* The seat of the device is going away. *)
Finish ==
    /\ up /\ theirDevice # None /\ Room
    /\ events' = Append(events, Finished(theirDevice)) /\ theirDevice' = None
    /\ UNCHANGED <<registry, connection, binding, clipboard, barriers, requests, theirSelection, writers>>

-----------------------------------------------------------------------------
Next ==
    \/ BindManager \/ RemoveManager \/ ReplaceManager \/ Seat \/ Dispatch
    \/ \E w \in Writers, m \in Modes : Write(w, m) \/ WriteRaises(w, m)
    \/ \E w \in Writers : Answered(w) \/ TimesOut(w) \/ Raises(w)
    \/ Connect \/ Stop \/ Disconnect
    \/ Serve \/ Finish \/ \E m \in Modes : Copy(m)

Spec == Init /\ [][Next]_vars

(* The owner dispatches and shuts down, the compositor serves, and a thread whose
   wait is over runs.  No timeout is promised. *)
FairSpec ==
    /\ Spec /\ WF_vars(Dispatch) /\ WF_vars(Serve) /\ WF_vars(Disconnect)
    /\ \A w \in Writers : WF_vars(Answered(w) \/ Raises(w))

-----------------------------------------------------------------------------
(* Properties. *)

LinkTypeOK ==
    /\ up \in BOOLEAN /\ stopping \in BOOLEAN /\ manager \in BOOLEAN /\ listening \in BOOLEAN
    /\ finishedSeat \in SeatIds \cup {None} /\ deviceSeat \in SeatIds \cup {None}
    /\ device \in Devices \cup {None} /\ theirDevice \in Devices \cup {None}
StateTypeOK ==
    /\ available \in [Modes -> BOOLEAN] /\ revision \in [Modes -> Nat]
    /\ selection \in [Modes -> Offers \cup {None}]
ProxyTypeOK ==
    /\ offers \subseteq Offers /\ sources \subseteq Sources
    /\ theirSelection \in [Modes -> Sources \cup {Other, None}]
WaitTypeOK ==
    /\ barriers \subseteq Callbacks
    /\ writer \in [Writers -> {"idle", "waiting", "late", "returned"}]
    /\ callback \in [Writers -> Callbacks \cup {None}]
    /\ future \in [Writers -> {"none", "pending", "done", "failed"}]

(* Every variable keeps its type. *)
TypeOK == SeatsTypeOK /\ LinkTypeOK /\ StateTypeOK /\ ProxyTypeOK /\ WaitTypeOK

(* Between callbacks there is a device exactly when there should be one: with a
   manager, for the selected seat, which is still bound, unless the compositor
   finished that seat's device (_refresh_device and all who call it). *)
DeviceFollowsSeat ==
    /\ device # None => manager /\ deviceSeat = selectedSeat /\ deviceSeat \in seats
    /\ manager /\ ~stopping /\ selectedSeat \notin {None, finishedSeat} => device # None
    /\ device = None => \A m \in Modes : ~available[m]

(* An offer is kept as long as it is a selection or is about to be one, never
   longer; and an event that selects finds its offer, where _on_selection would
   otherwise raise and stop the connection. *)
OffersOwned ==
    /\ \A m \in Modes : selection[m] \in offers \cup {None}
    /\ \A o \in offers : o \in Range(selection)
          \/ \E m \in Modes, c \in Callbacks \cup {None} : Selected(device, m, o, c) \in Range(events)
    /\ \A i \in DOMAIN events :
          events[i].op = "selection" /\ events[i].dev = device /\ events[i].item # None
          => events[i].item \in offers \/ \E j \in 1..i - 1 : events[j] = Offered(device, events[i].item)

(* A source is kept while the compositor may ask it for data, and no longer: until
   it is cancelled or its device ends (_on_send finds the payload of what others
   paste; _on_cancelled and _retire_device release it). *)
SourcesOwned ==
    /\ \A s \in sources : Names("item", s) \/ s \in Range(theirSelection)
          \/ Finished(device) \in Range(events)
    /\ \A s \in Range(theirSelection) \cap Sources :
          s \in sources \/ \E d \in Devices : Gone(d) \in Range(requests)

(* Neither side of the wire keeps an object the other has given up, nor misses
   one it may still name (_on_offer, _on_selection, _set_selection,
   _on_cancelled and _retire_device together). *)
ObjectsOwned == OffersOwned /\ SourcesOwned

(* A write that has returned has no event of its own still to come, so a revision
   read after it changes only for somebody else's reason (synchronize, and the
   clear before a capture). *)
ReturnedIsSettled ==
    \A w \in Writers : writer[w] = "returned" => ~Names("by", callback[w])

(* Whoever compares revisions misses nothing: a selection that changes or is lost has
   a new revision, and none is used twice (_on_selection, _retire_device, the clear in
   _set_selection).  An event that empties an empty selection changes nothing here. *)
EveryChangeIsNews ==
    [][\A m \in Modes :
         /\ revision'[m] >= revision[m]
         /\ selection'[m] # selection[m] \/ (available[m] /\ ~available'[m])
            => revision'[m] > revision[m]]_vars

(* A write that waits is awaited by the owner or has its answer, whatever happens to
   the connection (_barriers, _disconnect). *)
WaitersHaveBarriers ==
    \A w \in Writers : writer[w] \in {"waiting", "late"} /\ future[w] = "pending"
                       => callback[w] \in barriers

(* Once everything under way has arrived, a mode is empty here exactly when it is
   empty in the compositor, if that echoes clears (_on_selection, _set_selection). *)
AgreesWhenQuiet ==
    device # None /\ theirDevice = device /\ requests = <<>> /\ events = <<>>
    => \A m \in Modes : selection[m] = None <=> theirSelection[m] = None

(* What the clear is for: "Retire the stale offer before capture starts waiting for a
   copy" (clipboard.py:294), and the read that is empty after write(())
   (test_wayland_clipboard.py:134), whatever the compositor echoes. *)
ReturnedIsAgreed == (\E w \in Writers : writer[w] = "returned") => AgreesWhenQuiet

(* A write that waits stops waiting, though no timeout is certain. *)
WriteEnds == \A w \in Writers : writer[w] = "waiting" ~> writer[w] # "waiting"
=============================================================================
