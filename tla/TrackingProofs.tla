---------------------------- MODULE TrackingProofs ---------------------------
(***************************************************************************)
(* Theorems about the two scripts of plugins/tracking_forwarder that keep  *)
(* callbacks with Talon: GazeSubscription and Overlay, for every set of    *)
(* modules and of canvases, and any number of screens.                     *)
(***************************************************************************)
EXTENDS GazeSubscription, Overlay, TLAPS

-----------------------------------------------------------------------------
(* GazeSubscription. *)

(* A loaded module that owns no subscription left none behind: only a load or an
   action that raises keeps one, and then it stays owned or retained.  The callback
   of a registration that raised is neither. *)
OwnerInv ==
    /\ registered => loaded # NoModule /\ retained = loaded
    /\ loaded # NoModule /\ ~registered => tracked \subseteq stray /\ retained = NoModule
    /\ stray \subseteq tracked /\ retained \notin stray
    /\ waiting \cap busy = {}

IInv == TypeOK /\ SubscriptionIsRetained /\ OnlyTheLoadedDelivers
        /\ NothingFromBeforeLoad /\ OwnerInv

(* The first state satisfies the invariant. *)
LEMMA IInvInit == Init => IInv
BY DEF Init, IInv, TypeOK, SubscriptionIsRetained, OnlyTheLoadedDelivers,
       NothingFromBeforeLoad, OwnerInv

(* Every step keeps it. *)
LEMMA IInvStep == IInv /\ [Next]_vars => IInv'
<1> SUFFICES ASSUME IInv, [Next]_vars PROVE IInv'
  OBVIOUS
<1> USE NoModuleAssumption
        DEF IInv, TypeOK, SubscriptionIsRetained, OnlyTheLoadedDelivers,
            NothingFromBeforeLoad, OwnerInv, owner, vars
<1>a. ASSUME loaded # NoModule, Register PROVE IInv'
  <2>1. CASE registered
    BY <1>a, <2>1 DEF Register
  <2>2. CASE ~registered
    <3>1. tracked = stray /\ active = {} /\ waiting = {} /\ loaded \in Modules
      BY <1>a, <2>2
    <3>2. CASE UNCHANGED <<registered, retained, tracked, stray, active>>
      BY <1>a, <2>2, <3>1, <3>2 DEF Register
    <3>3. CASE /\ tracked' = tracked \cup {loaded} /\ active' = active \cup {loaded}
               /\ stray' = stray \ {loaded} /\ retained' = loaded /\ registered' = TRUE
      <4>1. active' = {loaded} /\ waiting' = {} /\ loaded' = loaded
        BY <1>a, <3>1, <3>3 DEF Register
      <4>2. /\ tracked' \subseteq {loaded} \cup stray' /\ stray' \subseteq tracked'
            /\ loaded \in tracked' \ stray'
        BY <3>1, <3>3
      <4> QED
        BY <1>a, <3>1, <3>3, <4>1, <4>2 DEF Register
    <3>4. CASE /\ tracked' = tracked \cup {loaded} /\ stray' = stray \cup {loaded}
               /\ UNCHANGED <<registered, retained, active>>
      <4>1. tracked' = stray' /\ retained' = NoModule /\ active' = {} /\ waiting' = {}
        BY <1>a, <2>2, <3>1, <3>4 DEF Register
      <4> QED
        BY <1>a, <2>2, <3>1, <3>4, <4>1 DEF Register
    <3> QED
      BY <1>a, <2>2, <3>2, <3>3, <3>4 DEF Register
  <2> QED
    BY <2>1, <2>2
<1>b. ASSUME loaded # NoModule, Unregister PROVE IInv'
  <2>1. CASE registered
    <3>1. /\ tracked \subseteq {loaded} \cup stray /\ loaded \notin stray /\ retained = loaded
          /\ active' = {} /\ waiting' = {}
      BY <1>b, <2>1 DEF Unregister, StopDispatch
    <3> QED
      BY <1>b, <2>1, <3>1 DEF Unregister, StopDispatch
  <2>2. CASE ~registered
    BY <1>b, <2>2 DEF Unregister
  <2> QED
    BY <2>1, <2>2
<1>1. CASE Start
  BY <1>1, <1>a DEF Start
<1>2. CASE Stop
  BY <1>2, <1>b DEF Stop
<1>3. CASE Ready
  <2>1. PICK wanted \in {"on", "off"} :
           IF registered = (wanted = "on")
             THEN /\ enabled' = wanted
                  /\ UNCHANGED <<loaded, registered, retained, tracked, stray,
                                 active, waiting, busy>>
             ELSE IF wanted = "on" THEN Register ELSE Unregister
    BY <1>3 DEF Ready
  <2>2. CASE registered = (wanted = "on")
    BY <2>1, <2>2
  <2>3. CASE registered # (wanted = "on")
    BY <1>3, <1>a, <1>b, <2>1, <2>3 DEF Ready
  <2> QED
    BY <2>2, <2>3
<1>4. CASE RetirementFails
  BY <1>4 DEF RetirementFails, StopDispatch, Others
<1>5. CASE LoadFails
  <2>1. /\ active' = {} /\ waiting' = {} /\ loaded' = NoModule /\ registered' = FALSE
        /\ retained' = NoModule /\ enabled' = enabled /\ busy' = busy
    BY <1>5 DEF LoadFails, StopDispatch
  <2>2. Others = stray
    BY DEF Others
  <2>3. CASE tracked' = Others /\ UNCHANGED stray
    BY <2>1, <2>2, <2>3
  <2>4. CASE \E m \in Forgotten : tracked' = Others \cup {m} /\ stray' = stray \cup {m}
    BY <2>1, <2>2, <2>4 DEF Forgotten
  <2> QED
    BY <1>5, <2>3, <2>4 DEF LoadFails
<1>6. ASSUME NEW m \in Modules, Loads(m) PROVE IInv'
  BY <1>6 DEF Loads, Others, Forgotten
<1>7. ASSUME NEW m \in Modules, Accept(m) \/ Withdraw(m) \/ Begin(m) \/ End(m)
      PROVE  IInv'
  BY <1>7 DEF Accept, Withdraw, Begin, End
<1>8. CASE UNCHANGED vars
  BY <1>8
<1> QED
  BY <1>1, <1>2, <1>3, <1>4, <1>5, <1>6, <1>7, <1>8 DEF Next

(* Every reachable state satisfies the invariant. *)
LEMMA IInvHolds == Spec => []IInv
BY IInvInit, IInvStep, PTL DEF Spec

(* No failure of an unregister, a retirement or a load leaves a callback in the
   tracking system that sys does not retain; only a registration that raised can. *)
THEOREM NoSubscriptionLost == Spec => []SubscriptionIsRetained
<1>1. IInv => SubscriptionIsRetained
  BY DEF IInv
<1> QED
  BY <1>1, IInvHolds, PTL

(* Only the loaded module's dispatcher runs, and only while subscribed. *)
THEOREM OldModulesAreSilent == Spec => []OnlyTheLoadedDelivers
<1>1. IInv => OnlyTheLoadedDelivers
  BY DEF IInv
<1> QED
  BY <1>1, IInvHolds, PTL

(* A reload leaves no event of an older module waiting. *)
THEOREM NothingOldWaits == Spec => []NothingFromBeforeLoad
<1>1. IInv => NothingFromBeforeLoad
  BY DEF IInv
<1> QED
  BY <1>1, IInvHolds, PTL

(* A load that succeeds restores what the user asked for, and nothing older but strays. *)
THEOREM LoadsRestore == Spec => LoadResumes
<1>1. IInv /\ [Next]_vars =>
        (loaded' # loaded /\ loaded' # NoModule
          => LET wanted == IF enabled = "on" THEN {loaded'} ELSE {}
             IN tracked' = wanted \cup stray /\ active' = wanted /\ waiting' = {})
  <2> SUFFICES ASSUME IInv, [Next]_vars, loaded' # loaded, loaded' # NoModule
               PROVE  LET wanted == IF enabled = "on" THEN {loaded'} ELSE {}
                      IN tracked' = wanted \cup stray /\ active' = wanted /\ waiting' = {}
    OBVIOUS
  <2>1. PICK m \in Modules : Loads(m)
    BY DEF Next, vars, owner, Start, Stop, Ready, Register, Unregister,
       RetirementFails, LoadFails, Accept, Withdraw, Begin, End
  <2>2. /\ Others = stray /\ active \subseteq {retained}
        /\ waiting \subseteq {retained}
    BY DEF IInv, SubscriptionIsRetained, OnlyTheLoadedDelivers, NothingFromBeforeLoad,
           OwnerInv, Others
  <2> QED
    BY <2>1, <2>2 DEF Loads, Others
<1> QED
  BY <1>1, IInvHolds, PTL DEF Spec, LoadResumes

(* Starts, stops, failures and reloads use each module's dispatcher only as a
   Delivery allows. *)
THEOREM DispatchersAreUsed == Spec => UsesDelivery
<1>1. Init => \A m \in Modules : Dispatcher(m)!Init
  BY DEF Init, Dispatcher!Init
<1>2. IInv /\ [Next]_vars =>
        [\A m \in Modules : Dispatcher(m)!Next \/ UNCHANGED Dispatcher(m)!vars]_vars
  <2> SUFFICES ASSUME IInv, Next, NEW m \in Modules
               PROVE  Dispatcher(m)!Next \/ UNCHANGED Dispatcher(m)!vars
    OBVIOUS
  <2> USE DEF Dispatcher!Next, Dispatcher!vars, Dispatcher!Start, Dispatcher!Stop,
              Dispatcher!Accept, Dispatcher!Withdraw, Dispatcher!Begin, Dispatcher!End
  <2>1. /\ active \subseteq {loaded} \cap {retained}
        /\ waiting \subseteq active /\ waiting \cap busy = {}
        /\ registered => retained = loaded
    BY DEF IInv, OnlyTheLoadedDelivers, SubscriptionIsRetained, NothingFromBeforeLoad,
       OwnerInv
  <2>2. CASE Register
    BY <2>1, <2>2 DEF Register
  <2>3. CASE Unregister
    BY <2>1, <2>3 DEF Unregister, StopDispatch
  <2>4. CASE UNCHANGED <<active, waiting, busy>>
    BY <2>4
  <2>5. CASE RetirementFails \/ LoadFails
    BY <2>1, <2>5 DEF RetirementFails, LoadFails, StopDispatch
  <2>6. ASSUME NEW n \in Modules, Loads(n)
        PROVE  Dispatcher(m)!Next \/ UNCHANGED Dispatcher(m)!vars
    BY <2>1, <2>6, NoModuleAssumption DEF Loads, Forgotten
  <2>7. ASSUME NEW n \in Modules, Accept(n) \/ Withdraw(n) \/ Begin(n) \/ End(n)
        PROVE  Dispatcher(m)!Next \/ UNCHANGED Dispatcher(m)!vars
    BY <2>1, <2>7 DEF Accept, Withdraw, Begin, End
  <2>8. Start \/ Stop \/ Ready =>
          Register \/ Unregister \/ UNCHANGED <<active, waiting, busy>>
    BY DEF Start, Stop, Ready
  <2> QED
    BY <2>2, <2>3, <2>4, <2>5, <2>6, <2>7, <2>8 DEF Next
<1> QED
  BY <1>1, <1>2, IInvHolds, PTL DEF Spec, UsesDelivery

-----------------------------------------------------------------------------
(* Overlay. *)

(* What the script and Talon hold. *)
OverlayState ==
    [enabled : BOOLEAN, registered : BOOLEAN, dot : BOOLEAN, entries : SUBSET Canvases,
     kept : [enabled : BOOLEAN, callbacks : SUBSET Modules, entries : SUBSET Canvases],
     tracked : SUBSET Modules, stray : SUBSET Modules,
     active : SUBSET Modules, waiting : SUBSET Modules,
     open : SUBSET Canvases, marked : SUBSET Canvases,
     stuck : SUBSET (Modules \cup Canvases), missed : BOOLEAN]

(* What the module m holds, whatever is on record. *)
Held(s, m) ==
    /\ s \in OverlayState /\ s.open = s.entries /\ s.marked \subseteq s.open
    /\ s.tracked \subseteq (IF s.registered THEN {m} ELSE {}) \cup s.stray
    /\ s.active \subseteq (IF s.registered THEN {m} ELSE {}) \cap (s.tracked \ s.stray)

(* The record that a reload finds is up to date. *)
OnRecord(s, m) ==
    /\ s.kept.enabled = s.enabled /\ s.kept.entries = s.entries
    /\ s.kept.callbacks = IF s.registered THEN {m} ELSE {}

(* Only what raised when it was released is left. *)
Refused(s) == s.open \subseteq s.stuck /\ s.tracked \ s.stray \subseteq s.stuck

(* There is no marker, or something raised that should have removed it. *)
Hidden(s) == s.missed \/ (~s.dot /\ s.marked = {})

(* What a step of the script keeps of its intent. *)
SameIntent(s, t) == t.enabled = s.enabled /\ t.dot = s.dot /\ t.missed = s.missed

(* What closing the canvases of a module has done. *)
AfterClose(s, t, m) ==
    /\ Held(t, m) /\ OnRecord(t, m) /\ t.open \subseteq t.stuck
    /\ (s.tracked \ s.stray \subseteq s.stuck => t.tracked \ t.stray \subseteq t.stuck)
    /\ SameIntent(s, t) /\ t.registered = s.registered
    /\ t.tracked = s.tracked /\ t.stray = s.stray /\ t.active = s.active

(* Closing the canvases of a module, but for those that refuse. *)
LEMMA ClosedFields == ASSUME NEW s \in OverlayState, NEW left \in SUBSET s.entries
  PROVE  LET t == [Closed(s, s.entries, left) EXCEPT !.entries = left]
         IN  /\ t \in OverlayState
             /\ t.entries = left
             /\ t.open = s.open \ (s.entries \ left)
             /\ t.marked = s.marked \ (s.entries \ left)
             /\ t.stuck = (s.stuck \ s.entries) \cup left
             /\ SameIntent(s, t) /\ t.registered = s.registered
             /\ t.tracked = s.tracked /\ t.stray = s.stray /\ t.active = s.active
BY DEF OverlayState, Closed, SameIntent

(* Publishing changes the record alone, and brings it up to date. *)
LEMMA PublishedFields == ASSUME NEW s \in OverlayState, NEW m \in Modules
  PROVE  LET t == Published(s, m)
         IN  /\ t \in OverlayState /\ OnRecord(t, m)
             /\ t.entries = s.entries /\ t.open = s.open /\ t.marked = s.marked
             /\ t.stuck = s.stuck /\ SameIntent(s, t) /\ t.registered = s.registered
             /\ t.tracked = s.tracked /\ t.stray = s.stray /\ t.active = s.active
BY DEF OverlayState, Published, OnRecord, SameIntent

(* _close_canvases() loses no canvas, whichever of them raise. *)
LEMMA CloseKeeps ==
  ASSUME NEW m \in Modules, NEW s, Held(s, m), NEW o \in CloseCanvases(s, m)
  PROVE  /\ o.raised \in BOOLEAN /\ AfterClose(s, o.s, m)
         /\ ~o.raised => o.s.entries = {}
<1>1. s \in OverlayState
  BY DEF Held
<1>2. PICK left \in SUBSET s.entries :
         o \in LET done == Published([Closed(s, s.entries, left) EXCEPT !.entries = left], m)
               IN  (IF s.entries = {} THEN {} ELSE {Broke(done)})
                   \cup IF left = {} THEN {Fine(done)} ELSE {}
  BY DEF CloseCanvases
<1> DEFINE u == [Closed(s, s.entries, left) EXCEPT !.entries = left]
           done == Published(u, m)
<1>3. o = Broke(done) \/ (left = {} /\ o = Fine(done))
  BY <1>2
<1> HIDE DEF done
<1>4. o.s = done /\ o.raised \in BOOLEAN /\ (~o.raised => left = {})
  <2>1. CASE o = Broke(done)
    BY <2>1 DEF Broke
  <2>2. CASE left = {} /\ o = Fine(done)
    BY <2>2 DEF Fine
  <2> QED
    BY <2>1, <2>2, <1>3
<1>5. /\ u \in OverlayState
      /\ u.entries = left
      /\ u.open = s.open \ (s.entries \ left)
      /\ u.marked = s.marked \ (s.entries \ left)
      /\ u.stuck = (s.stuck \ s.entries) \cup left
      /\ SameIntent(s, u) /\ u.registered = s.registered
      /\ u.tracked = s.tracked /\ u.stray = s.stray /\ u.active = s.active
  BY <1>1, ClosedFields
<1> HIDE DEF u
<1>6. /\ done \in OverlayState /\ OnRecord(done, m)
      /\ done.entries = u.entries /\ done.open = u.open /\ done.marked = u.marked
      /\ done.stuck = u.stuck /\ SameIntent(u, done) /\ done.registered = u.registered
      /\ done.tracked = u.tracked /\ done.stray = u.stray /\ done.active = u.active
  BY <1>5, PublishedFields DEF done
<1>7. Held(done, m)
  BY <1>5, <1>6 DEF Held
<1>8. done.open \subseteq done.stuck
  BY <1>5, <1>6 DEF Held
<1>9. s.tracked \ s.stray \subseteq s.stuck => done.tracked \ done.stray \subseteq done.stuck
  <2>1. s.tracked \cap s.entries = {}
    BY <1>1, OverlayAssumption DEF OverlayState
  <2> QED
    BY <2>1, <1>5, <1>6
<1>10. SameIntent(s, done)
  BY <1>5, <1>6 DEF SameIntent
<1>11. AfterClose(s, done, m)
  BY <1>5, <1>6, <1>7, <1>8, <1>9, <1>10 DEF AfterClose
<1> QED
  BY <1>4, <1>5, <1>6, <1>11

(* What leaves the canvases as they are. *)
SameCanvases(s, t) == t.entries = s.entries /\ t.open = s.open /\ t.marked = s.marked

(* An outcome that loses nothing. *)
Outcome(o, m) == o.raised \in BOOLEAN /\ Held(o.s, m)

(* _register_gaze() records the callback it registers. *)
LEMMA RegisterKeeps ==
  ASSUME NEW m \in Modules, NEW s, Held(s, m), OnRecord(s, m), NEW o \in RegisterGaze(s, m)
  PROVE  /\ Outcome(o, m) /\ OnRecord(o.s, m)
         /\ SameIntent(s, o.s) /\ SameCanvases(s, o.s) /\ o.s.stuck = s.stuck
<1> DEFINE k == [s EXCEPT !.tracked = @ \cup {m}]
           v == [k EXCEPT !.stray = @ \cup {m}]
           u == [k EXCEPT !.stray = @ \ {m}, !.active = @ \cup {m}, !.registered = TRUE]
           t == Published(u, m)
<1>1. \/ o = Fine(s)
      \/ o = Broke(s)
      \/ ~s.registered /\ o = Broke(v)
      \/ ~s.registered /\ o = Fine(t)
  BY Zenon DEF RegisterGaze
<1>0. /\ k \in OverlayState /\ k.tracked = s.tracked \cup {m} /\ k.stray = s.stray
      /\ k.entries = s.entries /\ k.open = s.open /\ k.marked = s.marked /\ k.kept = s.kept
      /\ k.stuck = s.stuck /\ SameIntent(s, k) /\ k.registered = s.registered
      /\ k.active = s.active
  BY DEF Held, OverlayState, SameIntent
<1> HIDE DEF k
<1>2. /\ u \in OverlayState
      /\ u.entries = s.entries /\ u.open = s.open /\ u.marked = s.marked
      /\ u.stuck = s.stuck /\ SameIntent(s, u) /\ u.registered = TRUE
      /\ u.tracked = s.tracked \cup {m} /\ u.stray = s.stray \ {m}
      /\ u.active = s.active \cup {m}
  BY <1>0 DEF OverlayState, SameIntent
<1>7. /\ v \in OverlayState /\ v.kept = s.kept
      /\ v.entries = s.entries /\ v.open = s.open /\ v.marked = s.marked
      /\ v.stuck = s.stuck /\ SameIntent(s, v) /\ v.registered = s.registered
      /\ v.tracked = s.tracked \cup {m} /\ v.stray = s.stray \cup {m}
      /\ v.active = s.active
  BY <1>0 DEF OverlayState, SameIntent
<1> HIDE DEF u, v
<1>3. /\ t \in OverlayState /\ OnRecord(t, m)
      /\ t.entries = u.entries /\ t.open = u.open /\ t.marked = u.marked
      /\ t.stuck = u.stuck /\ SameIntent(u, t) /\ t.registered = u.registered
      /\ t.tracked = u.tracked /\ t.stray = u.stray /\ t.active = u.active
  BY <1>2, PublishedFields
<1> HIDE DEF t
<1>4. ASSUME ~s.registered
      PROVE  Held(t, m) /\ SameIntent(s, t) /\ SameCanvases(s, t) /\ t.stuck = s.stuck
  <2>1. s.active = {} /\ s.tracked \subseteq s.stray
    BY <1>4 DEF Held
  <2>2. t.registered /\ t.tracked \subseteq {m} \cup t.stray
        /\ t.active \subseteq {m} \cap (t.tracked \ t.stray)
    BY <1>2, <1>3, <2>1
  <2> QED
    BY <1>2, <1>3, <2>2 DEF Held, SameIntent, SameCanvases
<1>8. ASSUME ~s.registered
      PROVE  /\ Held(v, m) /\ OnRecord(v, m)
             /\ SameIntent(s, v) /\ SameCanvases(s, v) /\ v.stuck = s.stuck
  <2>1. s.active = {} /\ s.tracked \subseteq s.stray
    BY <1>8 DEF Held
  <2>2. ~v.registered /\ v.tracked \subseteq v.stray /\ v.active = {}
    BY <1>7, <1>8, <2>1
  <2> QED
    BY <1>7, <1>8, <2>2 DEF Held, OnRecord, SameIntent, SameCanvases
<1>5. CASE o = Fine(s) \/ o = Broke(s)
  <2>1. o.s = s /\ o.raised \in BOOLEAN
    <3>1. CASE o = Fine(s)
      BY <3>1 DEF Fine
    <3>2. CASE o = Broke(s)
      BY <3>2 DEF Broke
    <3> QED
      BY <3>1, <3>2, <1>5
  <2> QED
    BY <2>1 DEF SameIntent, SameCanvases, Outcome
<1>6. CASE ~s.registered /\ o = Fine(t)
  <2>1. o.s = t /\ o.raised \in BOOLEAN
    BY <1>6 DEF Fine
  <2> QED
    BY <2>1, <1>3, <1>4, <1>6 DEF Outcome
<1>9. CASE ~s.registered /\ o = Broke(v)
  <2>1. o.s = v /\ o.raised \in BOOLEAN
    BY <1>9 DEF Broke
  <2> QED
    BY <2>1, <1>8, <1>9 DEF Outcome
<1> QED
  BY <1>1, <1>5, <1>6, <1>9

(* The fields after a subscription has ended. *)
LEMMA UntrackedFields ==
  ASSUME NEW m \in Modules, NEW s, Held(s, m)
  PROVE  LET t == [Untracked(s, m) EXCEPT !.registered = FALSE]
         IN  /\ t \in OverlayState /\ SameIntent(s, t) /\ SameCanvases(s, t)
             /\ t.registered = FALSE /\ t.stuck = s.stuck \ {m}
             /\ t.tracked \subseteq t.stray /\ t.active = {}
<1>1. s \in OverlayState /\ s.tracked \subseteq {m} \cup s.stray /\ s.active \subseteq {m}
  BY DEF Held
<1> DEFINE t == [Untracked(s, m) EXCEPT !.registered = FALSE]
<1>2. /\ t \in OverlayState /\ SameIntent(s, t) /\ SameCanvases(s, t)
      /\ t.registered = FALSE /\ t.stuck = s.stuck \ {m}
      /\ t.tracked = s.tracked \ {m} /\ t.stray = s.stray /\ t.active = s.active \ {m}
  BY <1>1 DEF Untracked, Stopped, OverlayState, SameIntent, SameCanvases
<1> QED
  BY <1>1, <1>2

(* The fields after the end of a subscription has raised. *)
LEMMA ClingingFields ==
  ASSUME NEW m \in Modules, NEW s, Held(s, m), NEW t \in Clinging(s, m)
  PROVE  /\ t \in OverlayState /\ SameIntent(s, t) /\ SameCanvases(s, t)
         /\ t.registered = s.registered /\ t.stuck = s.stuck \cup {m}
         /\ t.tracked \subseteq s.tracked /\ t.stray = s.stray
         /\ t.active = {} /\ t.kept = s.kept
<1>1. s \in OverlayState /\ s.active \subseteq {m}
  BY DEF Held
<1>2. PICK k \in {s.tracked, s.tracked \ {m}} :
         t = [Stopped(s, m) EXCEPT !.tracked = k, !.stuck = @ \cup {m}]
  BY DEF Clinging
<1>3. k \subseteq s.tracked
  BY <1>2
<1>4. /\ t \in OverlayState /\ SameIntent(s, t) /\ SameCanvases(s, t)
      /\ t.registered = s.registered /\ t.stuck = s.stuck \cup {m}
      /\ t.tracked = k /\ t.stray = s.stray /\ t.active = s.active \ {m} /\ t.kept = s.kept
  BY <1>1, <1>2, <1>3 DEF Stopped, OverlayState, SameIntent, SameCanvases
<1> QED
  BY <1>1, <1>3, <1>4

(* _unregister_gaze() loses no callback, and stops delivery even if it raises. *)
LEMMA UnregisterKeeps ==
  ASSUME NEW m \in Modules, NEW s, Held(s, m), NEW o \in UnregisterGaze(s, m)
  PROVE  /\ Outcome(o, m) /\ (OnRecord(s, m) => OnRecord(o.s, m))
         /\ SameIntent(s, o.s) /\ SameCanvases(s, o.s) /\ o.s.active = {}
         /\ o.s.tracked \ o.s.stray \subseteq o.s.stuck
         /\ s.open \subseteq s.stuck => o.s.open \subseteq o.s.stuck
<1> DEFINE u == [Untracked(s, m) EXCEPT !.registered = FALSE]
           t == Published(u, m)
<1>0. s \in OverlayState /\ m \notin s.open
  BY OverlayAssumption DEF Held, OverlayState
<1>1. \/ ~s.registered /\ o = Fine(s)
      \/ o = Fine(t)
      \/ s.registered /\ \E k \in Clinging(s, m) : o = Broke(k)
  BY DEF UnregisterGaze
<1>2. CASE ~s.registered /\ o = Fine(s)
  <2>1. o.s = s /\ o.raised \in BOOLEAN
    BY <1>2 DEF Fine
  <2> QED
    BY <2>1, <1>2 DEF SameIntent, SameCanvases, Outcome, Held
<1>3. CASE o = Fine(t)
  <2>1. /\ u \in OverlayState /\ SameIntent(s, u) /\ SameCanvases(s, u)
        /\ u.registered = FALSE /\ u.stuck = s.stuck \ {m}
        /\ u.tracked \subseteq u.stray /\ u.active = {}
    BY UntrackedFields
  <2> HIDE DEF u
  <2>2. /\ t \in OverlayState /\ OnRecord(t, m)
        /\ t.entries = u.entries /\ t.open = u.open /\ t.marked = u.marked
        /\ t.stuck = u.stuck /\ SameIntent(u, t) /\ t.registered = u.registered
        /\ t.tracked = u.tracked /\ t.stray = u.stray /\ t.active = u.active
    BY <2>1, PublishedFields
  <2> HIDE DEF t
  <2>3. o.s = t /\ o.raised \in BOOLEAN
    BY <1>3 DEF Fine
  <2>4. Held(t, m) /\ SameIntent(s, t) /\ SameCanvases(s, t)
    BY <2>1, <2>2 DEF Held, SameIntent, SameCanvases
  <2>5. s.open \subseteq s.stuck => t.open \subseteq t.stuck
    BY <1>0, <2>1, <2>2 DEF SameCanvases
  <2> QED
    BY <2>1, <2>2, <2>3, <2>4, <2>5 DEF Outcome
<1>4. ASSUME s.registered, NEW k \in Clinging(s, m), o = Broke(k)
      PROVE  /\ Outcome(o, m) /\ (OnRecord(s, m) => OnRecord(o.s, m))
             /\ SameIntent(s, o.s) /\ SameCanvases(s, o.s) /\ o.s.active = {}
             /\ o.s.tracked \ o.s.stray \subseteq o.s.stuck
             /\ s.open \subseteq s.stuck => o.s.open \subseteq o.s.stuck
  <2>1. /\ k \in OverlayState /\ SameIntent(s, k) /\ SameCanvases(s, k)
        /\ k.registered = s.registered /\ k.stuck = s.stuck \cup {m}
        /\ k.tracked \subseteq s.tracked /\ k.stray = s.stray
        /\ k.active = {} /\ k.kept = s.kept
    BY <1>4, ClingingFields
  <2>2. o.s = k /\ o.raised \in BOOLEAN
    BY <1>4 DEF Broke
  <2>3. Held(k, m) /\ (OnRecord(s, m) => OnRecord(k, m))
    BY <2>1 DEF Held, OnRecord, SameIntent, SameCanvases
  <2>4. k.tracked \ k.stray \subseteq k.stuck
    BY <1>4, <2>1 DEF Held
  <2>5. s.open \subseteq s.stuck => k.open \subseteq k.stuck
    BY <2>1 DEF SameCanvases
  <2> QED
    BY <2>1, <2>2, <2>3, <2>4, <2>5 DEF Outcome
<1> QED
  BY <1>1, <1>2, <1>3, <1>4

(* _teardown_overlay() leaves only what refused to be released. *)
LEMMA TeardownKeeps ==
  ASSUME NEW m \in Modules, NEW s, Held(s, m), NEW o \in TeardownOverlay(s, m)
  PROVE  /\ Outcome(o, m) /\ OnRecord(o.s, m) /\ Refused(o.s)
         /\ SameIntent(s, o.s) /\ o.s.active = {}
<1>1. PICK p \in UnregisterGaze(s, m) :
         o \in IF p.raised THEN Raising(CloseCanvases(p.s, m)) ELSE CloseCanvases(p.s, m)
  BY DEF TeardownOverlay
<1>2. \E q \in CloseCanvases(p.s, m) : o = q \/ o = Broke(q.s)
  BY <1>1 DEF Raising
<1>3. PICK q \in CloseCanvases(p.s, m) : o = q \/ o = Broke(q.s)
  BY <1>2
<1>4. /\ Held(p.s, m) /\ SameIntent(s, p.s) /\ SameCanvases(s, p.s) /\ p.s.active = {}
      /\ p.s.tracked \ p.s.stray \subseteq p.s.stuck
  BY UnregisterKeeps DEF Outcome
<1>5. q.raised \in BOOLEAN /\ AfterClose(p.s, q.s, m)
  BY <1>4, CloseKeeps
<1>6. o.s = q.s /\ o.raised \in BOOLEAN
  <2>1. CASE o = q
    BY <2>1, <1>5
  <2>2. CASE o = Broke(q.s)
    BY <2>2 DEF Broke
  <2> QED
    BY <2>1, <2>2, <1>3
<1> QED
  BY <1>4, <1>5, <1>6 DEF AfterClose, Outcome, Refused, SameIntent

(* What only the drawing of markers changes. *)
OnlyMarks(s, t) ==
    /\ t \in OverlayState /\ t.kept = s.kept /\ t.entries = s.entries /\ t.open = s.open
    /\ t.enabled = s.enabled /\ t.registered = s.registered
    /\ t.tracked = s.tracked /\ t.stray = s.stray
    /\ t.active = s.active /\ t.stuck = s.stuck

(* Markers and events do not matter for what is owned. *)
LEMMA OnlyMarksKeeps ==
  ASSUME NEW m, NEW s, NEW t, OnlyMarks(s, t), t.marked \subseteq t.open
  PROVE  /\ Held(s, m) => Held(t, m)
         /\ OnRecord(s, m) => OnRecord(t, m)
         /\ Refused(s) => Refused(t)
BY DEF OnlyMarks, Held, OnRecord, Refused

(* Drawing changes the markers of open canvases; without a gaze it removes them. *)
LEMMA FrozenKeeps ==
  ASSUME NEW s \in OverlayState, s.marked \subseteq s.open, NEW c, NEW o \in Frozen(s, c)
  PROVE  /\ OnlyMarks(s, o.s) /\ o.s.marked \subseteq o.s.open
         /\ o \in [s : OverlayState, raised : BOOLEAN]
         /\ o.s.dot = s.dot /\ o.s.missed = s.missed
         /\ ~o.raised /\ ~s.dot => o.s.marked = s.marked \ c
<1> DEFINE drawn(d) == [s EXCEPT !.marked = IF s.dot THEN @ \cup (d \cap s.open) ELSE @ \ d]
<1>1. o = Fine(drawn(c)) \/ \E d \in (SUBSET c) \ {c} : o = Broke(drawn(d))
  BY DEF Frozen
<1>2. ASSUME NEW d
      PROVE  /\ OnlyMarks(s, drawn(d)) /\ drawn(d).marked \subseteq drawn(d).open
             /\ drawn(d).dot = s.dot /\ drawn(d).missed = s.missed
             /\ ~s.dot => drawn(d).marked = s.marked \ d
  <2> DEFINE x == IF s.dot THEN s.marked \cup (d \cap s.open) ELSE s.marked \ d
  <2>1. x \subseteq s.open
    OBVIOUS
  <2>2. x \in SUBSET Canvases
    BY <2>1 DEF OverlayState
  <2>3. ~s.dot => x = s.marked \ d
    OBVIOUS
  <2>4. drawn(d) = [s EXCEPT !.marked = x]
    OBVIOUS
  <2> HIDE DEF x, drawn
  <2> QED
    BY <2>1, <2>2, <2>3, <2>4 DEF OverlayState, OnlyMarks
<1> HIDE DEF drawn
<1>3. CASE o = Fine(drawn(c))
  <2>0. drawn(c) \in OverlayState
    BY <1>2 DEF OnlyMarks
  <2>1. o.s = drawn(c) /\ o \in [s : OverlayState, raised : BOOLEAN]
    BY <2>0, <1>3 DEF Fine
  <2> QED
    BY <2>1, <1>2
<1>4. ASSUME NEW d, o = Broke(drawn(d))
      PROVE  /\ OnlyMarks(s, o.s) /\ o.s.marked \subseteq o.s.open
             /\ o \in [s : OverlayState, raised : BOOLEAN]
             /\ o.s.dot = s.dot /\ o.s.missed = s.missed
             /\ ~o.raised /\ ~s.dot => o.s.marked = s.marked \ c
  <2>1. o.s = drawn(d) /\ o.raised
    BY <1>4 DEF Broke
  <2>0. drawn(d) \in OverlayState
    BY <1>2 DEF OnlyMarks
  <2>2. o \in [s : OverlayState, raised : BOOLEAN]
    BY <2>0, <1>4 DEF Broke
  <2> QED
    BY <2>1, <2>2, <1>2
<1> QED
  BY <1>1, <1>3, <1>4

(* _clear_overlay() hides the marker, or is known to have failed. *)
LEMMA ClearKeeps ==
  ASSUME NEW m, NEW s, Held(s, m), NEW o \in ClearOverlay(s)
  PROVE  Outcome(o, m) /\ OnlyMarks(s, o.s) /\ Hidden(o.s)
<1> DEFINE u == [s EXCEPT !.dot = FALSE]
<1>1. PICK p \in Frozen(u, s.entries) : o = [p EXCEPT !.s.missed = p.raised]
  BY DEF ClearOverlay
<1>2. /\ u \in OverlayState /\ u.marked \subseteq u.open /\ OnlyMarks(s, u)
      /\ u.dot = FALSE /\ u.marked = s.marked /\ u.entries = s.entries
  BY DEF Held, OverlayState, OnlyMarks
<1> HIDE DEF u
<1>3. /\ OnlyMarks(u, p.s) /\ p.s.marked \subseteq p.s.open
      /\ p \in [s : OverlayState, raised : BOOLEAN]
      /\ p.s.dot = u.dot
      /\ ~p.raised => p.s.marked = {}
  <2>1. /\ OnlyMarks(u, p.s) /\ p.s.marked \subseteq p.s.open
        /\ p \in [s : OverlayState, raised : BOOLEAN]
        /\ p.s.dot = u.dot /\ p.s.missed = u.missed
        /\ ~p.raised /\ ~u.dot => p.s.marked = u.marked \ s.entries
    BY <1>2, FrozenKeeps
  <2> QED
    BY <2>1, <1>2 DEF Held
<1> DEFINE t == [p.s EXCEPT !.missed = p.raised]
<1>4. o.s = t /\ o.raised = p.raised
  BY <1>1, <1>3
<1>5. /\ OnlyMarks(u, t) /\ t.marked = p.s.marked /\ t.dot = p.s.dot
      /\ t.missed = p.raised
  BY <1>3 DEF OnlyMarks, OverlayState
<1> HIDE DEF t
<1>6. OnlyMarks(s, t)
  BY <1>2, <1>5 DEF OnlyMarks
<1>7. Held(t, m)
  BY <1>3, <1>5, <1>6, OnlyMarksKeeps DEF OnlyMarks
<1>8. Hidden(t)
  BY <1>2, <1>3, <1>5 DEF Hidden
<1> QED
  BY <1>3, <1>4, <1>6, <1>7, <1>8 DEF Outcome

(* The outcomes of _unregister_gaze() are outcomes. *)
LEMMA UnregisterRecords ==
  ASSUME NEW m \in Modules, NEW s, Held(s, m), NEW o \in UnregisterGaze(s, m)
  PROVE  o \in [s : OverlayState, raised : BOOLEAN]
<1>1. o.s \in OverlayState /\ o.raised \in BOOLEAN
  BY UnregisterKeeps DEF Outcome, Held
<1>2. \/ \E t : o = Fine(t)
      \/ \E t : o = Broke(t)
  BY DEF UnregisterGaze
<1>3. ASSUME NEW t, o = Fine(t) \/ o = Broke(t) PROVE o = [s |-> o.s, raised |-> o.raised]
  <2>1. CASE o = Fine(t)
    BY <2>1 DEF Fine
  <2>2. CASE o = Broke(t)
    BY <2>2 DEF Broke
  <2> QED
    BY <1>3, <2>1, <2>2
<1> QED
  BY <1>1, <1>2, <1>3

(* _sync_overlay() hides the marker if it is not wanted, and loses nothing. *)
LEMMA SyncKeeps ==
  ASSUME NEW m \in Modules, NEW s, Held(s, m), OnRecord(s, m), NEW on \in BOOLEAN,
         NEW o \in SyncOverlay(s, m, on)
  PROVE  /\ Outcome(o, m) /\ OnRecord(o.s, m)
         /\ o.s.enabled = s.enabled /\ o.s.entries = s.entries
         /\ ~s.enabled /\ Refused(s) => Refused(o.s)
         /\ ~(s.enabled /\ on) => Hidden(o.s)
<1>1. CASE s.enabled /\ on
  <2>1. o \in RegisterGaze(s, m)
    BY <1>1 DEF SyncOverlay
  <2> QED
    BY <2>1, <1>1, RegisterKeeps DEF SameIntent, SameCanvases
<1>2. CASE ~(s.enabled /\ on)
  <2>1. PICK p \in UnregisterGaze(s, m) :
          o \in IF p.raised THEN {[p EXCEPT !.s.missed = TRUE]} ELSE ClearOverlay(p.s)
    BY <1>2 DEF SyncOverlay
  <2>2. /\ Outcome(p, m) /\ OnRecord(p.s, m)
        /\ SameIntent(s, p.s) /\ SameCanvases(s, p.s)
        /\ p.s.tracked \ p.s.stray \subseteq p.s.stuck
        /\ s.open \subseteq s.stuck => p.s.open \subseteq p.s.stuck
    BY UnregisterKeeps
  <2>3. Refused(s) => Refused(p.s)
    BY <2>2 DEF Refused
  <2>4. CASE p.raised
    <3>1. p \in [s : OverlayState, raised : BOOLEAN]
      BY UnregisterRecords
    <3> DEFINE t == [p.s EXCEPT !.missed = TRUE]
    <3>2. o.s = t /\ o.raised = p.raised
      BY <2>1, <2>4, <3>1
    <3>3. OnlyMarks(p.s, t) /\ t.marked = p.s.marked /\ t.missed
      BY <3>1 DEF OnlyMarks, OverlayState
    <3> HIDE DEF t
    <3>4. Held(t, m) /\ OnRecord(t, m) /\ (Refused(p.s) => Refused(t))
      <4>1. t.marked \subseteq t.open
        BY <2>2, <3>3 DEF OnlyMarks, Outcome, Held
      <4> QED
        BY <2>2, <3>3, <4>1, OnlyMarksKeeps DEF Outcome
    <3>5. t.enabled = s.enabled /\ t.entries = s.entries
      BY <2>2, <3>3 DEF OnlyMarks, SameIntent, SameCanvases
    <3> QED
      BY <2>2, <2>3, <3>2, <3>3, <3>4, <3>5 DEF Outcome, Hidden
  <2>5. CASE ~p.raised
    <3>1. o \in ClearOverlay(p.s)
      BY <2>1, <2>5
    <3>2. Outcome(o, m) /\ OnlyMarks(p.s, o.s) /\ Hidden(o.s)
      BY <2>2, <3>1, ClearKeeps DEF Outcome
    <3>3. OnRecord(o.s, m) /\ (Refused(p.s) => Refused(o.s))
      <4>1. o.s.marked \subseteq o.s.open
        BY <3>2 DEF Outcome, Held
      <4> QED
        BY <2>2, <3>2, <4>1, OnlyMarksKeeps
    <3>4. o.s.enabled = s.enabled /\ o.s.entries = s.entries
      BY <2>2, <3>2 DEF OnlyMarks, SameIntent, SameCanvases
    <3> QED
      BY <2>3, <3>2, <3>3, <3>4
  <2> QED
    BY <2>4, <2>5
<1> QED
  BY <1>1, <1>2

(* What creating n canvases makes of the outcome p of closing the former ones. *)
MadeAfter(p, o, m, n) ==
    \/ p.raised /\ o = p
    \/ /\ ~p.raised
       /\ \E c \in SUBSET Canvases :
            \/ Cardinality(c) = n /\ o = Fine(Published(Made(p.s, c), m))
            \/ \E q \in CloseCanvases(Made(p.s, c), m) : o = Broke(q.s)

(* The outcomes of _create_canvases(), case by case. *)
LEMMA CreateCases ==
  ASSUME NEW m, NEW s, NEW n, NEW o \in CreateCanvases(s, m, n)
  PROVE  \E p \in CloseCanvases(s, m) : MadeAfter(p, o, m, n)
<1> DEFINE sets(t, size) == {c \in SUBSET Unused(t) : Cardinality(c) = size}
           made(t) == {Fine(Published(Made(t, c), m)) : c \in sets(t, n)}
           failed(t) == UNION {Raising(CloseCanvases(Made(t, c), m)) :
                               c \in UNION {sets(t, size) : size \in 0..n}}
           create(t) == IF n = 0 THEN made(t) ELSE made(t) \cup failed(t)
<1>1. ASSUME NEW t, NEW c, NEW size, c \in sets(t, size)
      PROVE  c \in SUBSET Canvases /\ Cardinality(c) = size
  BY <1>1 DEF Unused
<1>2. ASSUME NEW t, o \in made(t)
      PROVE  \E c \in SUBSET Canvases :
               Cardinality(c) = n /\ o = Fine(Published(Made(t, c), m))
  <2> HIDE DEF sets
  <2> QED
    BY <1>1, <1>2
<1>3. ASSUME NEW t, o \in failed(t)
      PROVE  \E c \in SUBSET Canvases :
               \E q \in CloseCanvases(Made(t, c), m) : o = Broke(q.s)
  <2> HIDE DEF sets
  <2>1. PICK size \in 0..n : \E c \in sets(t, size) :
               o \in Raising(CloseCanvases(Made(t, c), m))
    BY <1>3
  <2>2. PICK c \in sets(t, size) : o \in Raising(CloseCanvases(Made(t, c), m))
    BY <2>1
  <2> QED
    BY <1>1, <2>2 DEF Raising
<1>4. ASSUME NEW t, o \in create(t) PROVE o \in made(t) \/ o \in failed(t)
  <2> HIDE DEF made, failed
  <2> QED
    BY <1>4
<1>5. PICK p \in CloseCanvases(s, m) : o \in IF p.raised THEN {p} ELSE create(p.s)
  BY DEF CreateCanvases, Then
<1> HIDE DEF made, failed, create
<1>6. CASE p.raised
  BY <1>5, <1>6 DEF MadeAfter
<1>7. CASE ~p.raised
  <2>1. o \in create(p.s)
    BY <1>5, <1>7
  <2>2. o \in made(p.s) \/ o \in failed(p.s)
    BY <2>1, <1>4
  <2> QED
    BY <1>2, <1>3, <1>7, <2>2 DEF MadeAfter
<1> QED
  BY <1>6, <1>7

(* Canvases that are made where there are none are held. *)
LEMMA MadeKeeps ==
  ASSUME NEW m, NEW s, Held(s, m), s.entries = {}, NEW c \in SUBSET Canvases
  PROVE  LET t == Made(s, c)
         IN  /\ Held(t, m) /\ t.entries = c /\ SameIntent(s, t)
             /\ ~s.dot => t.marked = {}
<1> DEFINE x == IF s.dot THEN c ELSE {}
<1>1. Made(s, c) = [s EXCEPT !.entries = c, !.open = @ \cup c, !.marked = @ \cup x]
  BY DEF Made
<1>2. s.open = {} /\ s.marked = {} /\ x \subseteq c /\ (~s.dot => x = {})
  BY DEF Held
<1> HIDE DEF x
<1> DEFINE t == Made(s, c)
<1>3. /\ t \in OverlayState /\ t.entries = c /\ t.open = s.open \cup c
      /\ t.marked = s.marked \cup x /\ SameIntent(s, t) /\ t.registered = s.registered
      /\ t.tracked = s.tracked /\ t.stray = s.stray /\ t.active = s.active
  BY <1>1, <1>2 DEF Held, OverlayState, SameIntent
<1> HIDE DEF t
<1>4. Held(t, m) /\ (~s.dot => t.marked = {})
  BY <1>2, <1>3 DEF Held
<1> QED
  BY <1>3, <1>4 DEF t

(* _create_canvases() makes one canvas for each screen, or has raised. *)
LEMMA CreateKeeps ==
  ASSUME NEW m \in Modules, NEW s, Held(s, m), NEW n, NEW o \in CreateCanvases(s, m, n)
  PROVE  /\ Outcome(o, m) /\ OnRecord(o.s, m) /\ o.s.enabled = s.enabled
         /\ ~o.raised => Cardinality(o.s.entries) = n
         /\ ~o.raised /\ Hidden(s) => Hidden(o.s)
<1>1. PICK p \in CloseCanvases(s, m) : MadeAfter(p, o, m, n)
  BY CreateCases
<1>2. /\ p.raised \in BOOLEAN /\ AfterClose(s, p.s, m)
      /\ ~p.raised => p.s.entries = {}
  BY CloseKeeps
<1>3. CASE p.raised /\ o = p
  BY <1>2, <1>3 DEF AfterClose, Outcome, SameIntent
<1>4. ASSUME ~p.raised, NEW c \in SUBSET Canvases,
             Cardinality(c) = n, o = Fine(Published(Made(p.s, c), m))
      PROVE  /\ Outcome(o, m) /\ OnRecord(o.s, m) /\ o.s.enabled = s.enabled
             /\ Cardinality(o.s.entries) = n
             /\ Hidden(s) => Hidden(o.s)
  <2> DEFINE u == Made(p.s, c)
             t == Published(u, m)
  <2>1. /\ Held(u, m) /\ u.entries = c /\ SameIntent(p.s, u)
        /\ ~p.s.dot => u.marked = {}
    BY <1>2, <1>4, MadeKeeps DEF AfterClose
  <2> HIDE DEF u
  <2>2. /\ t \in OverlayState /\ OnRecord(t, m)
        /\ t.entries = u.entries /\ t.open = u.open /\ t.marked = u.marked
        /\ t.stuck = u.stuck /\ SameIntent(u, t) /\ t.registered = u.registered
        /\ t.tracked = u.tracked /\ t.stray = u.stray /\ t.active = u.active
    BY <2>1, PublishedFields DEF Held
  <2>3. o = Fine(t)
    BY <1>4 DEF u
  <2> HIDE DEF t
  <2>4. o.s = t /\ o.raised \in BOOLEAN
    BY <2>3 DEF Fine
  <2>5. Held(t, m)
    BY <2>1, <2>2 DEF Held
  <2>6. t.enabled = s.enabled /\ t.dot = s.dot /\ t.missed = s.missed
    BY <1>2, <2>1, <2>2 DEF AfterClose, SameIntent
  <2>7. Hidden(s) => Hidden(t)
    BY <1>2, <2>1, <2>2, <2>6 DEF Hidden, AfterClose, SameIntent
  <2> QED
    BY <1>4, <2>1, <2>2, <2>4, <2>5, <2>6, <2>7 DEF Outcome
<1>5. ASSUME ~p.raised, NEW c \in SUBSET Canvases,
             NEW q \in CloseCanvases(Made(p.s, c), m), o = Broke(q.s)
      PROVE  Outcome(o, m) /\ OnRecord(o.s, m) /\ o.s.enabled = s.enabled /\ o.raised
  <2>1. Held(Made(p.s, c), m) /\ SameIntent(p.s, Made(p.s, c))
    BY <1>2, <1>5, MadeKeeps DEF AfterClose
  <2>2. AfterClose(Made(p.s, c), q.s, m)
    BY <1>5, <2>1, CloseKeeps
  <2>3. o.s = q.s /\ o.raised /\ o.raised \in BOOLEAN
    BY <1>5 DEF Broke
  <2> QED
    BY <1>2, <2>1, <2>2, <2>3 DEF AfterClose, SameIntent, Outcome
<1> QED
  BY <1>1, <1>3, <1>4, <1>5 DEF MadeAfter

(* A start, a rebuild or a load that raises leaves the overlay off. *)
LEMMA RollbackKeeps ==
  ASSUME NEW m \in Modules, NEW outcomes, \A x \in outcomes : Outcome(x, m),
         NEW o \in RolledBack(outcomes, m)
  PROVE  /\ Outcome(o, m)
         /\ ~o.raised => o \in outcomes
         /\ o.raised => ~o.s.enabled /\ OnRecord(o.s, m) /\ Refused(o.s) /\ o.s.active = {}
<1>1. CASE o \in outcomes /\ ~o.raised
  BY <1>1
<1>2. CASE \E x \in outcomes :
             o \in Raising(TeardownOverlay([x.s EXCEPT !.enabled = FALSE], m))
  <2>1. PICK x \in outcomes : o \in Raising(TeardownOverlay([x.s EXCEPT !.enabled = FALSE], m))
    BY <1>2
  <2> DEFINE u == [x.s EXCEPT !.enabled = FALSE]
  <2>2. PICK q \in TeardownOverlay(u, m) : o = Broke(q.s)
    BY <2>1 DEF Raising
  <2>3. Held(u, m) /\ u.enabled = FALSE
    BY <2>1 DEF Outcome, Held, OverlayState
  <2> HIDE DEF u
  <2>4. /\ Outcome(q, m) /\ OnRecord(q.s, m) /\ Refused(q.s)
        /\ SameIntent(u, q.s) /\ q.s.active = {}
    BY <2>2, <2>3, TeardownKeeps
  <2>5. o.s = q.s /\ o.raised /\ o.raised \in BOOLEAN
    BY <2>2 DEF Broke
  <2> QED
    BY <2>3, <2>4, <2>5 DEF Outcome, SameIntent
<1> QED
  BY <1>1, <1>2 DEF RolledBack

(* What switches the overlay on leaves it complete, or off. *)
LEMMA EnabledKeeps ==
  ASSUME NEW m \in Modules, NEW s, Held(s, m), s.enabled, control \in BOOLEAN,
         NEW o \in Enabled(s, m)
  PROVE  /\ Outcome(o, m) /\ OnRecord(o.s, m)
         /\ ~o.raised => /\ o.s.enabled /\ Cardinality(o.s.entries) = screens
                         /\ ~control => Hidden(o.s)
         /\ o.raised => ~o.s.enabled /\ Refused(o.s) /\ o.s.active = {}
<1> DEFINE sync(t) == SyncOverlay(t, m, control)
           all == Then(CreateCanvases(s, m, screens), sync)
<1>1. o \in RolledBack(all, m)
  BY DEF Enabled
<1>2. ASSUME NEW x \in all
      PROVE  /\ Outcome(x, m)
             /\ ~x.raised => /\ OnRecord(x.s, m) /\ x.s.enabled
                             /\ Cardinality(x.s.entries) = screens
                             /\ ~control => Hidden(x.s)
  <2>1. PICK p \in CreateCanvases(s, m, screens) :
          x \in IF p.raised THEN {p} ELSE SyncOverlay(p.s, m, control)
    BY DEF Then
  <2> HIDE DEF all
  <2>2. /\ Outcome(p, m) /\ OnRecord(p.s, m) /\ p.s.enabled = s.enabled
        /\ ~p.raised => Cardinality(p.s.entries) = screens
    BY CreateKeeps
  <2>3. CASE p.raised
    BY <2>1, <2>2, <2>3
  <2>4. CASE ~p.raised
    <3>0. x \in SyncOverlay(p.s, m, control)
      BY <2>1, <2>4
    <3>1. /\ Outcome(x, m) /\ OnRecord(x.s, m)
          /\ x.s.enabled = p.s.enabled /\ x.s.entries = p.s.entries
          /\ ~(p.s.enabled /\ control) => Hidden(x.s)
      <4>1. Held(p.s, m)
        BY <2>2 DEF Outcome
      <4>2. Outcome(x, m) /\ OnRecord(x.s, m)
        BY <2>2, <3>0, <4>1, SyncKeeps
      <4>3. x.s.enabled = p.s.enabled
        BY <2>2, <3>0, <4>1, SyncKeeps
      <4>4. x.s.entries = p.s.entries
        BY <2>2, <3>0, <4>1, SyncKeeps
      <4>5. ~(p.s.enabled /\ control) => Hidden(x.s)
        BY <2>2, <3>0, <4>1, SyncKeeps
      <4> QED
        BY <4>2, <4>3, <4>4, <4>5
    <3> QED
      BY <2>2, <2>4, <3>1
  <2> QED
    BY <2>3, <2>4
<1> HIDE DEF all
<1>3. /\ Outcome(o, m)
      /\ ~o.raised => o \in all
      /\ o.raised => ~o.s.enabled /\ OnRecord(o.s, m) /\ Refused(o.s) /\ o.s.active = {}
  BY <1>1, <1>2, RollbackKeeps
<1> QED
  BY <1>2, <1>3

(* The types of the variables. *)
OverlayTypeOK ==
    /\ overlay \in OverlayState /\ running \in Modules \cup {NoModule}
    /\ control \in BOOLEAN /\ screens \in 0..MaxScreens
    /\ updates \in [Modules -> [at : {"idle", "tested"}, entries : SUBSET Canvases]]

(* What Talon holds is on record. *)
Recorded(s) ==
    /\ s \in OverlayState /\ s.marked \subseteq s.open /\ s.open = s.kept.entries
    /\ s.tracked \subseteq s.kept.callbacks \cup s.stray
    /\ s.active \subseteq s.kept.callbacks \cap (s.tracked \ s.stray)

(* What a load that failed leaves. *)
Abandoned(s) == Recorded(s) /\ s.active = {} /\ s.open \subseteq s.stuck

(* What the module m keeps. *)
InForce(s, m, on, n) ==
    /\ Held(s, m) /\ OnRecord(s, m)
    /\ s.enabled => Cardinality(s.entries) = n /\ (~on => Hidden(s))
    /\ ~s.enabled => Refused(s)

(* The inductive invariant: the record is complete at rest, an enabled overlay has its
   canvases, and what is not wanted is hidden. *)
OverlayIInv ==
    /\ OverlayTypeOK
    /\ running = NoModule => Abandoned(overlay)
    /\ running # NoModule => InForce(overlay, running, control, screens)

(* What a module keeps and publishes is on record, also when the module goes. *)
LEMMA HeldIsRecorded ==
  ASSUME NEW s, NEW m, Held(s, m), OnRecord(s, m)
  PROVE  Recorded(s) /\ (Refused(s) /\ s.active = {} => Abandoned(s))
BY DEF Held, OnRecord, Recorded, Refused, Abandoned

(* Everything that is held is on record. *)
LEMMA OverlayIsRecorded == OverlayIInv => Recorded(overlay)
BY HeldIsRecorded DEF OverlayIInv, InForce, Abandoned

(* The switch alone changes nothing that is held. *)
LEMMA EnableKeeps ==
  ASSUME NEW m, NEW s, Held(s, m), NEW on \in BOOLEAN
  PROVE  LET t == [s EXCEPT !.enabled = on] IN Held(t, m) /\ t.enabled = on
BY DEF Held, OverlayState

(* The release of what a former module retained loses nothing that refuses. *)
LEMMA RetiredKeeps ==
  ASSUME NEW s, Recorded(s), NEW t \in Retired(s)
  PROVE  /\ Abandoned(t)
         /\ Remaining(t) = {} => t.open = {} /\ t.tracked \subseteq t.stray
<1>1. PICK e \in SUBSET s.kept.entries, c \in SUBSET s.kept.callbacks, k \in SUBSET s.tracked :
         /\ k \subseteq c
         /\ t = [Closed(s, s.kept.entries, e) EXCEPT
                  !.kept.entries = e, !.kept.callbacks = c,
                  !.active = @ \ s.kept.callbacks, !.waiting = @ \ s.kept.callbacks,
                  !.tracked = (@ \ s.kept.callbacks) \cup k,
                  !.stuck = (@ \ s.kept.callbacks) \cup c]
  <2>1. PICK o \in [entries : SUBSET s.kept.entries, callbacks : SUBSET s.kept.callbacks,
                    tracked : SUBSET s.tracked] :
          /\ o.tracked \subseteq o.callbacks
          /\ t = [Closed(s, s.kept.entries, o.entries) EXCEPT
                  !.kept.entries = o.entries, !.kept.callbacks = o.callbacks,
                  !.active = @ \ s.kept.callbacks, !.waiting = @ \ s.kept.callbacks,
                  !.tracked = (@ \ s.kept.callbacks) \cup o.tracked,
                  !.stuck = (@ \ s.kept.callbacks) \cup o.callbacks]
    BY DEF Retired
  <2> QED
    BY <2>1
<1> DEFINE u == Closed(s, s.kept.entries, e)
<1>2. s \in OverlayState /\ s.kept.callbacks \in SUBSET Modules
  BY DEF Recorded, OverlayState
<1>3. /\ u \in OverlayState /\ u.kept = s.kept
      /\ u.open = s.open \ (s.kept.entries \ e) /\ u.marked = s.marked \ (s.kept.entries \ e)
      /\ u.stuck = (s.stuck \ s.kept.entries) \cup e
      /\ u.tracked = s.tracked /\ u.stray = s.stray /\ u.active = s.active
  BY <1>2 DEF OverlayState, Closed
<1> HIDE DEF u
<1>4. /\ t \in OverlayState /\ t.kept.entries = e /\ t.kept.callbacks = c
      /\ t.open = u.open /\ t.marked = u.marked
      /\ t.stuck = (u.stuck \ s.kept.callbacks) \cup c
      /\ t.tracked = (u.tracked \ s.kept.callbacks) \cup k /\ t.stray = u.stray
      /\ t.active = u.active \ s.kept.callbacks
  <2>1. t = [u EXCEPT
               !.kept.entries = e, !.kept.callbacks = c,
               !.active = @ \ s.kept.callbacks, !.waiting = @ \ s.kept.callbacks,
               !.tracked = (@ \ s.kept.callbacks) \cup k,
               !.stuck = (@ \ s.kept.callbacks) \cup c]
    BY <1>1 DEF u
  <2>2. e \in SUBSET Canvases /\ c \in SUBSET Modules /\ k \in SUBSET Modules
    BY <1>2 DEF OverlayState
  <2> QED
    BY <1>3, <2>1, <2>2 DEF OverlayState
<1>5. t.tracked \subseteq c \cup t.stray /\ t.active = {} /\ t.open = e
  <2>1. /\ s.tracked \subseteq s.kept.callbacks \cup s.stray
        /\ s.active \subseteq s.kept.callbacks /\ s.open = s.kept.entries
    BY DEF Recorded
  <2>2. t.tracked \subseteq c \cup t.stray
    BY <1>1, <1>3, <1>4, <2>1
  <2>3. t.active = {} /\ t.open = e
    BY <1>1, <1>3, <1>4, <2>1
  <2> QED
    BY <2>2, <2>3
<1>6. e \subseteq t.stuck
  <2>1. e \cap s.kept.callbacks = {}
    BY <1>2, OverlayAssumption DEF OverlayState
  <2> QED
    BY <1>3, <1>4, <2>1
<1>7. t.marked \subseteq t.open
  BY <1>3, <1>4, <1>5 DEF Recorded
<1>8. Abandoned(t)
  BY <1>1, <1>4, <1>5, <1>6, <1>7 DEF Abandoned, Recorded
<1> QED
  BY <1>1, <1>4, <1>5, <1>8 DEF Remaining

(* The first state satisfies the invariant. *)
LEMMA OverlayStarts == OverlayInit => OverlayIInv
<1> SUFFICES ASSUME OverlayInit PROVE OverlayIInv
  OBVIOUS
<1>1. OverlayTypeOK
  BY NoModuleAssumption DEF OverlayInit, OverlayTypeOK, OverlayState, Nobody, Untold
<1>2. Abandoned(overlay)
  BY <1>1 DEF OverlayInit, OverlayTypeOK, Abandoned, Recorded, Nobody
<1> QED
  BY <1>1, <1>2 DEF OverlayInit, OverlayIInv

(* The start action keeps it. *)
LEMMA StartKeeps == OverlayIInv /\ OverlayStart => OverlayIInv'
<1> SUFFICES ASSUME OverlayIInv, OverlayStart PROVE OverlayIInv'
  OBVIOUS
<1> DEFINE s == [overlay EXCEPT !.enabled = TRUE]
<1>1. running \in Modules /\ Held(overlay, running) /\ control \in BOOLEAN
  BY DEF OverlayStart, OverlayIInv, OverlayTypeOK, InForce
<1>2. PICK o \in Enabled(s, running) : overlay' = o.s
  BY DEF OverlayStart, Becomes
<1>3. Held(s, running) /\ s.enabled
  BY <1>1, EnableKeeps
<1> HIDE DEF s
<1>4. /\ Outcome(o, running) /\ OnRecord(o.s, running)
      /\ ~o.raised => /\ o.s.enabled /\ Cardinality(o.s.entries) = screens
                      /\ ~control => Hidden(o.s)
      /\ o.raised => ~o.s.enabled /\ Refused(o.s) /\ o.s.active = {}
  BY <1>1, <1>2, <1>3, EnabledKeeps
<1>5. InForce(o.s, running, control, screens)
  BY <1>4 DEF InForce, Outcome
<1> QED
  BY <1>1, <1>2, <1>5, NoModuleAssumption
     DEF OverlayStart, OverlayIInv, OverlayTypeOK, InForce, Held

(* The stop action keeps it. *)
LEMMA StopKeeps == OverlayIInv /\ OverlayStop => OverlayIInv'
<1> SUFFICES ASSUME OverlayIInv, OverlayStop PROVE OverlayIInv'
  OBVIOUS
<1> DEFINE s == [overlay EXCEPT !.enabled = FALSE]
<1>1. running \in Modules /\ Held(overlay, running)
  BY DEF OverlayStop, OverlayIInv, OverlayTypeOK, InForce
<1>2. PICK o \in TeardownOverlay(s, running) : overlay' = o.s
  BY DEF OverlayStop, Becomes
<1>3. Held(s, running) /\ s.enabled = FALSE
  BY <1>1, EnableKeeps
<1> HIDE DEF s
<1>4. /\ Outcome(o, running) /\ OnRecord(o.s, running) /\ Refused(o.s) /\ ~o.s.enabled
  BY <1>1, <1>2, <1>3, TeardownKeeps DEF SameIntent
<1>5. InForce(o.s, running, control, screens)
  BY <1>4 DEF InForce, Outcome
<1> QED
  BY <1>1, <1>2, <1>5, NoModuleAssumption
     DEF OverlayStop, OverlayIInv, OverlayTypeOK, InForce, Held

(* A change of screens keeps it: a rebuild is complete, or rolled back. *)
LEMMA ScreenChangeKeeps == OverlayIInv /\ ScreenChange => OverlayIInv'
<1> SUFFICES ASSUME OverlayIInv, ScreenChange PROVE OverlayIInv'
  OBVIOUS
<1>1. CASE running # NoModule /\ overlay.enabled
  <2>1. running \in Modules /\ InForce(overlay, running, control, screens)
    BY <1>1 DEF OverlayIInv, OverlayTypeOK
  <2>2. PICK o \in RolledBack(CreateCanvases(overlay, running, screens'), running) :
          overlay' = o.s
    BY <1>1 DEF ScreenChange, Becomes
  <2>3. Held(overlay, running) /\ (~control => Hidden(overlay))
    BY <1>1, <2>1 DEF InForce
  <2>4. ASSUME NEW x \in CreateCanvases(overlay, running, screens')
        PROVE  /\ Outcome(x, running) /\ OnRecord(x.s, running) /\ x.s.enabled = overlay.enabled
               /\ ~x.raised => Cardinality(x.s.entries) = screens'
               /\ ~x.raised /\ Hidden(overlay) => Hidden(x.s)
    BY <2>1, <2>3, CreateKeeps
  <2>5. /\ Outcome(o, running)
        /\ ~o.raised => o \in CreateCanvases(overlay, running, screens')
        /\ o.raised => ~o.s.enabled /\ OnRecord(o.s, running) /\ Refused(o.s)
    BY <2>1, <2>2, <2>4, RollbackKeeps
  <2>6. InForce(o.s, running, control, screens')
    <3>1. CASE o.raised
      BY <2>5, <3>1 DEF InForce, Outcome
    <3>2. CASE ~o.raised
      BY <1>1, <2>3, <2>4, <2>5, <3>2 DEF InForce, Outcome
    <3> QED
      BY <3>1, <3>2
  <2> QED
    BY <1>1, <2>2, <2>6 DEF ScreenChange, OverlayIInv, OverlayTypeOK, InForce, Held
<1>2. CASE ~(running # NoModule /\ overlay.enabled)
  <2>1. running' = running /\ control' = control /\ updates' = updates
        /\ overlay' = overlay /\ screens' \in 0..MaxScreens
    BY <1>2 DEF ScreenChange
  <2>2. OverlayTypeOK'
    BY <2>1 DEF OverlayIInv, OverlayTypeOK
  <2>3. running' = NoModule => Abandoned(overlay')
    BY <2>1 DEF OverlayIInv
  <2>4. running' # NoModule => InForce(overlay', running', control', screens')
    BY <1>2, <2>1 DEF OverlayIInv, InForce
  <2> QED
    BY <2>2, <2>3, <2>4 DEF OverlayIInv
<1> QED
  BY <1>1, <1>2

(* A change of Control Mouse keeps it, whether or not the hook has its turn. *)
LEMMA ControlKeeps == OverlayIInv /\ ControlChanges => OverlayIInv'
<1> SUFFICES ASSUME OverlayIInv, ControlChanges PROVE OverlayIInv'
  OBVIOUS
<1>0. /\ running' = running /\ screens' = screens /\ updates' = updates
      /\ control' \in BOOLEAN
  BY DEF ControlChanges
<1>1. CASE running = NoModule
  BY <1>0, <1>1 DEF ControlChanges, OverlayIInv, OverlayTypeOK
<1>2. CASE running # NoModule
  <2>1. running \in Modules /\ InForce(overlay, running, control, screens)
        /\ control \in BOOLEAN
    BY <1>2 DEF OverlayIInv, OverlayTypeOK
  <2> DEFINE t == [overlay EXCEPT !.missed = @ \/ control' # control]
  <2>2. \/ \E o : o = Broke(t) /\ overlay' = o.s
        \/ \E o \in SyncOverlay(overlay, running, control') : overlay' = o.s
    BY <1>2 DEF ControlChanges, Becomes
  <2>3. InForce(overlay', running, control', screens)
    <3>1. CASE \E o : o = Broke(t) /\ overlay' = o.s
      <4>1. overlay' = t
        <5> HIDE DEF t
        <5> QED
          BY <3>1 DEF Broke
      <4>2. /\ OnlyMarks(overlay, t) /\ t.marked = overlay.marked /\ t.dot = overlay.dot
            /\ t.missed = (overlay.missed \/ control' # control)
        BY <2>1 DEF OnlyMarks, InForce, Held, OverlayState
      <4> HIDE DEF t
      <4>3. t.marked \subseteq t.open
        BY <2>1, <4>2 DEF InForce, Held, OnlyMarks
      <4>4. /\ Held(t, running) /\ OnRecord(t, running)
            /\ Refused(overlay) => Refused(t)
        BY <2>1, <4>2, <4>3, OnlyMarksKeeps DEF InForce
      <4>5. Hidden(overlay) => Hidden(t)
        BY <4>2 DEF Hidden
      <4>6. control' # control => Hidden(t)
        BY <4>2 DEF Hidden
      <4>7. ~t.enabled => Refused(t)
        BY <2>1, <4>2, <4>4 DEF InForce, OnlyMarks
      <4>8. t.enabled => Cardinality(t.entries) = screens /\ (~control' => Hidden(t))
        BY <1>0, <2>1, <4>2, <4>5, <4>6 DEF InForce, OnlyMarks
      <4> QED
        BY <4>1, <4>4, <4>7, <4>8 DEF InForce
    <3>2. CASE \E o \in SyncOverlay(overlay, running, control') : overlay' = o.s
      <4>1. PICK o \in SyncOverlay(overlay, running, control') : overlay' = o.s
        BY <3>2
      <4>2. Held(overlay, running) /\ OnRecord(overlay, running)
        BY <2>1 DEF InForce
      <4>3. Outcome(o, running) /\ OnRecord(o.s, running)
        BY <1>0, <2>1, <4>2, SyncKeeps
      <4>4. o.s.enabled = overlay.enabled
        BY <1>0, <2>1, <4>2, SyncKeeps
      <4>5. o.s.entries = overlay.entries
        BY <1>0, <2>1, <4>2, SyncKeeps
      <4>6. ~overlay.enabled /\ Refused(overlay) => Refused(o.s)
        BY <1>0, <2>1, <4>2, SyncKeeps
      <4>7. ~(overlay.enabled /\ control') => Hidden(o.s)
        BY <1>0, <2>1, <4>2, SyncKeeps
      <4> QED
        BY <2>1, <4>1, <4>3, <4>4, <4>5, <4>6, <4>7 DEF InForce, Outcome
    <3> QED
      BY <2>2, <3>1, <3>2
  <2> QED
    BY <1>0, <1>2, <2>1, <2>3 DEF OverlayIInv, OverlayTypeOK, InForce, Held
<1> QED
  BY <1>1, <1>2

(* Updates that are left running are well formed. *)
LEMMA LeftTyped ==
  OverlayTypeOK => Left \in [Modules -> [at : {"idle", "tested"}, entries : SUBSET Canvases]]
<1> SUFFICES ASSUME OverlayTypeOK, NEW m \in Modules
             PROVE  (IF m = running /\ updates[m].at # "idle"
                     THEN [updates[m] EXCEPT !.entries = overlay.entries] ELSE updates[m])
                    \in [at : {"idle", "tested"}, entries : SUBSET Canvases]
  BY DEF Left
<1>1. /\ updates[m] \in [at : {"idle", "tested"}, entries : SUBSET Canvases]
      /\ overlay.entries \in SUBSET Canvases
  BY DEF OverlayTypeOK, OverlayState
<1> QED
  BY <1>1

(* A load that fails keeps it. *)
LEMMA LoadFailsKeeps == OverlayIInv /\ OverlayLoadFails => OverlayIInv'
<1> SUFFICES ASSUME OverlayIInv, OverlayLoadFails PROVE OverlayIInv'
  OBVIOUS
<1>1. Abandoned(overlay')
  BY OverlayIsRecorded, RetiredKeeps DEF OverlayLoadFails
<1>2. OverlayTypeOK'
  BY <1>1, LeftTyped DEF OverlayLoadFails, OverlayIInv, OverlayTypeOK, Abandoned, Recorded
<1> QED
  BY <1>1, <1>2 DEF OverlayLoadFails, OverlayIInv

(* A new module starts with nothing when nothing is left. *)
LEMMA FreshKeeps ==
  ASSUME NEW m, NEW s, Abandoned(s), Remaining(s) = {},
         s.open = {}, s.tracked \subseteq s.stray
  PROVE  LET t == Fresh(s)
         IN  Held(t, m) /\ t.open = {} /\ t.tracked \subseteq t.stray /\ t.enabled \in BOOLEAN
BY DEF Abandoned, Recorded, Fresh, Held, OverlayState

(* A load that gets through keeps it. *)
LEMMA LoadsKeeps == ASSUME NEW m \in Modules, OverlayIInv, OverlayLoads(m) PROVE OverlayIInv'
<1>1. PICK s \in Retired(overlay) :
        /\ Remaining(s) = {}
        /\ LET t == Fresh(s)
           IN  IF ~t.enabled THEN overlay' = Published(t, m) /\ running' = m
               ELSE \E o \in Enabled(t, m) :
                        /\ overlay' = o.s
                        /\ running' = IF o.raised THEN NoModule ELSE m
  BY DEF OverlayLoads
<1> DEFINE t == Fresh(s)
<1>2. Held(t, m) /\ t.open = {} /\ t.tracked \subseteq t.stray /\ t.enabled \in BOOLEAN
  BY <1>1, OverlayIsRecorded, RetiredKeeps, FreshKeeps
<1>3. IF ~t.enabled THEN overlay' = Published(t, m) /\ running' = m
      ELSE \E o \in Enabled(t, m) :
               /\ overlay' = o.s
               /\ running' = IF o.raised THEN NoModule ELSE m
  BY <1>1
<1> HIDE DEF t
<1>4. CASE ~t.enabled
  <2> DEFINE u == Published(t, m)
  <2>1. /\ u \in OverlayState /\ OnRecord(u, m)
        /\ u.entries = t.entries /\ u.open = t.open /\ u.marked = t.marked
        /\ u.stuck = t.stuck /\ SameIntent(t, u) /\ u.registered = t.registered
        /\ u.tracked = t.tracked /\ u.stray = t.stray /\ u.active = t.active
    BY <1>2, PublishedFields DEF Held
  <2>2. overlay' = u /\ running' = m
    BY <1>3, <1>4
  <2> HIDE DEF u
  <2>3. InForce(u, m, control', screens')
    <3>1. Held(u, m)
      BY <1>2, <2>1 DEF Held
    <3>2. Refused(u) /\ ~u.enabled
      BY <1>2, <1>4, <2>1 DEF Refused, SameIntent
    <3> QED
      BY <2>1, <3>1, <3>2 DEF InForce
  <2>4. OverlayTypeOK'
    BY <2>1, <2>2, LeftTyped DEF OverlayLoads, OverlayIInv, OverlayTypeOK
  <2> QED
    BY <2>2, <2>3, <2>4, NoModuleAssumption DEF OverlayIInv
<1>5. CASE t.enabled
  <2>1. PICK o \in Enabled(t, m) :
               /\ overlay' = o.s
               /\ running' = IF o.raised THEN NoModule ELSE m
    BY <1>3, <1>5
  <2>2. control \in BOOLEAN /\ control' = control /\ screens' = screens
    BY DEF OverlayLoads, OverlayIInv, OverlayTypeOK
  <2>3. /\ Outcome(o, m) /\ OnRecord(o.s, m)
        /\ ~o.raised => /\ o.s.enabled /\ Cardinality(o.s.entries) = screens
                        /\ ~control => Hidden(o.s)
        /\ o.raised => ~o.s.enabled /\ Refused(o.s) /\ o.s.active = {}
    BY <1>2, <1>5, <2>1, <2>2, EnabledKeeps
  <2>4. OverlayTypeOK'
    BY <2>1, <2>2, <2>3, LeftTyped
       DEF OverlayLoads, OverlayIInv, OverlayTypeOK, Outcome, Held
  <2>5. CASE o.raised
    <3>1. Abandoned(overlay') /\ running' = NoModule
      BY <2>1, <2>3, <2>5, HeldIsRecorded DEF Outcome
    <3> QED
      BY <2>4, <3>1 DEF OverlayIInv
  <2>6. CASE ~o.raised
    <3>1. InForce(overlay', m, control, screens) /\ running' = m
      BY <2>1, <2>3, <2>6 DEF InForce, Outcome
    <3> QED
      BY <2>2, <2>4, <3>1, NoModuleAssumption DEF OverlayIInv
  <2> QED
    BY <2>5, <2>6
<1> QED
  BY <1>4, <1>5

(* Drawing, or an event, that leaves all but markers alone. *)
LEMMA MarkingKeeps ==
  ASSUME OverlayIInv, OnlyMarks(overlay, overlay'), overlay'.marked \subseteq overlay'.open,
         UNCHANGED <<running, control, screens>>,
         updates' \in [Modules -> [at : {"idle", "tested"}, entries : SUBSET Canvases]],
         running # NoModule /\ overlay.enabled /\ ~control =>
             (Hidden(overlay) => Hidden(overlay'))
  PROVE  OverlayIInv'
<1>1. OverlayTypeOK'
  BY DEF OverlayIInv, OverlayTypeOK, OnlyMarks
<1>2. CASE running = NoModule
  <2>1. Abandoned(overlay')
    BY <1>2 DEF OverlayIInv, Abandoned, Recorded, OnlyMarks
  <2> QED
    BY <1>1, <1>2, <2>1 DEF OverlayIInv
<1>3. CASE running # NoModule
  <2>1. InForce(overlay, running, control, screens)
    BY <1>3 DEF OverlayIInv
  <2>2. /\ Held(overlay', running) /\ OnRecord(overlay', running)
        /\ Refused(overlay) => Refused(overlay')
    BY <2>1, OnlyMarksKeeps DEF InForce
  <2>3. InForce(overlay', running, control, screens)
    BY <1>3, <2>1, <2>2 DEF InForce, OnlyMarks
  <2> QED
    BY <1>1, <1>3, <2>3 DEF OverlayIInv
<1> QED
  BY <1>2, <1>3

(* Events keep it. *)
LEMMA WaitingKeeps ==
  ASSUME OverlayIInv, NEW w \in SUBSET Modules, overlay' = [overlay EXCEPT !.waiting = w],
         UNCHANGED <<running, control, screens>>,
         updates' \in [Modules -> [at : {"idle", "tested"}, entries : SUBSET Canvases]]
  PROVE  OverlayIInv'
<1>1. /\ OnlyMarks(overlay, overlay') /\ overlay'.marked = overlay.marked
      /\ overlay'.dot = overlay.dot /\ overlay'.missed = overlay.missed
  BY OverlayIsRecorded DEF Recorded, OnlyMarks, OverlayState
<1>2. overlay'.marked \subseteq overlay'.open
  BY <1>1, OverlayIsRecorded DEF Recorded, OnlyMarks
<1>3. Hidden(overlay) => Hidden(overlay')
  BY <1>1 DEF Hidden
<1> QED
  BY <1>1, <1>2, <1>3, MarkingKeeps

(* The arrival of an event keeps it. *)
LEMMA GazeEventKeeps == ASSUME NEW m \in Modules, OverlayIInv, GazeEvent(m) PROVE OverlayIInv'
<1>1. overlay.waiting \cup {m} \in SUBSET Modules
  BY DEF OverlayIInv, OverlayTypeOK, OverlayState
<1> QED
  BY <1>1, WaitingKeeps DEF GazeEvent, OverlayIInv, OverlayTypeOK

(* The tests of _update_gaze() keep it. *)
LEMMA TestsKeeps == ASSUME NEW m \in Modules, OverlayIInv, UpdateTests(m) PROVE OverlayIInv'
<1>1. overlay.waiting \ {m} \in SUBSET Modules
  BY DEF OverlayIInv, OverlayTypeOK, OverlayState
<1>2. updates' \in [Modules -> [at : {"idle", "tested"}, entries : SUBSET Canvases]]
  BY DEF UpdateTests, OverlayIInv, OverlayTypeOK
<1> QED
  BY <1>1, <1>2, WaitingKeeps DEF UpdateTests

(* The drawing of _update_gaze() keeps it, also when the main thread has gone by it. *)
LEMMA DrawsKeeps == ASSUME NEW m \in Modules, OverlayIInv, UpdateDraws(m) PROVE OverlayIInv'
<1> DEFINE late == ~(m = running /\ overlay.enabled /\ control)
           shown == [overlay EXCEPT !.dot = TRUE, !.missed = @ \/ late]
<1>1. updates' \in [Modules -> [at : {"idle", "tested"}, entries : SUBSET Canvases]]
  BY DEF UpdateDraws, OverlayIInv, OverlayTypeOK, Untold
<1>2. Recorded(overlay)
  BY OverlayIsRecorded
<1>3. /\ OnlyMarks(overlay, shown) /\ shown.marked = overlay.marked
      /\ shown.missed = (overlay.missed \/ late)
  BY <1>2 DEF Recorded, OnlyMarks, OverlayState
<1>4. shown \in OverlayState /\ shown.marked \subseteq shown.open
  BY <1>2, <1>3 DEF Recorded, OnlyMarks
<1>5. \/ m = running /\ \E o \in Frozen(shown, overlay.entries) : overlay' = o.s
      \/ /\ m # running
         /\ \E o \in Frozen(shown, updates[m].entries) : overlay' = [o.s EXCEPT !.dot = overlay.dot]
  <2>1. CASE m = running
    BY <2>1 DEF UpdateDraws, Becomes
  <2>2. CASE m # running
    <3>1. \E o \in Frozen(shown, updates[m].entries) :
            overlay' = ([o EXCEPT !.s.dot = overlay.dot]).s
      BY <2>2 DEF UpdateDraws, Becomes
    <3> HIDE DEF shown
    <3>2. PICK o \in Frozen(shown, updates[m].entries) :
            overlay' = ([o EXCEPT !.s.dot = overlay.dot]).s
      BY <3>1
    <3>3. o \in [s : OverlayState, raised : BOOLEAN]
      BY <1>4, FrozenKeeps
    <3>4. overlay' = [o.s EXCEPT !.dot = overlay.dot]
      BY <3>2, <3>3
    <3> QED
      BY <2>2, <3>4
  <2> QED
    BY <2>1, <2>2
<1>6. PICK c : \E o \in Frozen(shown, c) :
        \/ m = running /\ overlay' = o.s
        \/ m # running /\ overlay' = [o.s EXCEPT !.dot = overlay.dot]
  <2> HIDE DEF shown
  <2> QED
    BY <1>5
<1>7. PICK o \in Frozen(shown, c) :
        \/ m = running /\ overlay' = o.s
        \/ m # running /\ overlay' = [o.s EXCEPT !.dot = overlay.dot]
  BY <1>6
<1> HIDE DEF shown
<1>8. /\ OnlyMarks(shown, o.s) /\ o.s.marked \subseteq o.s.open
      /\ o.s.missed = shown.missed
  BY <1>4, FrozenKeeps
<1>9. /\ OnlyMarks(shown, overlay') /\ overlay'.marked = o.s.marked
      /\ overlay'.missed = shown.missed
  <2>1. CASE overlay' = o.s
    BY <1>8, <2>1
  <2>2. CASE overlay' = [o.s EXCEPT !.dot = overlay.dot]
    <3>1. overlay.dot \in BOOLEAN
      BY <1>2 DEF Recorded, OverlayState
    <3> QED
      BY <1>8, <2>2, <3>1 DEF OnlyMarks, OverlayState
  <2> QED
    BY <1>7, <2>1, <2>2
<1>10. OnlyMarks(overlay, overlay') /\ overlay'.marked \subseteq overlay'.open
  BY <1>3, <1>8, <1>9 DEF OnlyMarks
<1>11. ~control => Hidden(overlay')
  BY <1>3, <1>9 DEF Hidden
<1> QED
  BY <1>1, <1>10, <1>11, MarkingKeeps DEF UpdateDraws

(* Every step keeps it. *)
LEMMA OverlayStep == OverlayIInv /\ [OverlayNext]_overlayVars => OverlayIInv'
<1> SUFFICES ASSUME OverlayIInv, [OverlayNext]_overlayVars PROVE OverlayIInv'
  OBVIOUS
<1>1. CASE UNCHANGED overlayVars
  BY <1>1 DEF overlayVars, OverlayIInv, OverlayTypeOK
<1>2. CASE OverlayNext
  BY <1>2, StartKeeps, StopKeeps, ScreenChangeKeeps, ControlKeeps, LoadFailsKeeps,
     LoadsKeeps, GazeEventKeeps, TestsKeeps, DrawsKeeps, Zenon DEF OverlayNext
<1> QED
  BY <1>1, <1>2

(* Every reachable state satisfies the invariant. *)
THEOREM OverlayInvariant == OverlaySpec => []OverlayIInv
BY OverlayStarts, OverlayStep, PTL DEF OverlaySpec

(* The overlay is always well typed. *)
THEOREM OverlayTypes == OverlaySpec => []OverlayTypeOK
<1>1. OverlayIInv => OverlayTypeOK
  BY DEF OverlayIInv
<1> QED
  BY <1>1, OverlayInvariant, PTL

(* Whatever raised, all that Talon holds for the overlay is on record; a disabled
   overlay keeps only what refused to be released, an enabled one a canvas per screen. *)
THEOREM OverlayIsOwned == OverlaySpec => []OverlayOwned
<1>1. ASSUME OverlayIInv PROVE OverlayOwned
  <2>1. Recorded(overlay)
    BY <1>1, OverlayIsRecorded
  <2>2. CASE running = NoModule
    BY <1>1, <2>1, <2>2 DEF OverlayIInv, OverlayOwned, Abandoned, Recorded
  <2>3. CASE running # NoModule
    <3>1. InForce(overlay, running, control, screens)
      BY <1>1, <2>3 DEF OverlayIInv
    <3>2. overlay.active \subseteq {running} \cap overlay.kept.callbacks
                             \cap (overlay.tracked \ overlay.stray)
      BY <2>1, <3>1 DEF Recorded, InForce, Held
    <3> QED
      BY <2>1, <2>3, <3>1, <3>2 DEF OverlayOwned, Recorded, InForce, Held, OnRecord, Refused
  <2> QED
    BY <2>2, <2>3
<1> QED
  BY <1>1, OverlayInvariant, PTL

(* No marker outlives the overlay or Control Mouse, but for a call that raised or a
   delivery under way. *)
THEOREM MarkerWanted == OverlaySpec => []MarkerIsWanted
<1>1. ASSUME OverlayIInv PROVE MarkerIsWanted
  <2>1. overlay.marked \subseteq overlay.open
    BY <1>1, OverlayIsRecorded DEF Recorded
  <2>2. CASE running = NoModule
    BY <1>1, <2>1, <2>2 DEF OverlayIInv, MarkerIsWanted, Abandoned
  <2>3. CASE running # NoModule
    BY <1>1, <2>1, <2>3 DEF OverlayIInv, MarkerIsWanted, InForce, Refused, Hidden
  <2> QED
    BY <2>2, <2>3
<1> QED
  BY <1>1, OverlayInvariant, PTL
=============================================================================
