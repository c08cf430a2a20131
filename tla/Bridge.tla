------------------------------- MODULE Bridge -------------------------------
(***************************************************************************)
(* plugins/wayland_runtime.py: the bridge between the desktop and Talon,   *)
(* with four threads.  Talon's main thread runs start(), stop() and the    *)
(* reload of the module; the owner thread tells the bridge of windows      *)
(* (module Windows); cron's thread publishes them (module Scopes); scripts *)
(* begin and end temporary modifiers.  Main and cron hold _lifecycle_lock  *)
(* for the whole of what they do; a step of anybody is what is atomic under*)
(* _lock, or one call of the desktop, Talon or cron.                       *)
(*                                                                         *)
(* Each of these calls may raise, but for cron.after() and the removal of  *)
(* a listener, which have nothing to fail at.  The desktop is the window   *)
(* tracker of this model and an executor of key presses, either on or off. *)
(***************************************************************************)
EXTENDS Windows, Scopes, Integers, FiniteSets

CONSTANTS Original, Other,  \* providers of Talon itself and of somebody else
          Bridges,          \* the bridge objects of successive loads: 1..n
          Surroundings,     \* what there is: windows, keyboard, clipboard, rivals
          MaxGeneration,    \* starts and stops happen below these generations
          MaxRevision,      \* windows change below this revision
          MaxPresses        \* temporary modifiers that are begun

ASSUME BridgeAssumption == /\ Bridges = 1..Cardinality(Bridges) /\ 1 \in Bridges
                           /\ MaxGeneration \in [Bridges -> Nat]
                           /\ {MaxRevision, MaxPresses} \subseteq Nat
                           /\ None \notin [bridge : Bridges, press : 1..MaxPresses]
                           /\ None \notin [bridge : Bridges, available : BOOLEAN,
                                           window : {NoWindow} \cup Labels]
                           /\ None \notin [Slots -> {Original, Other}]
                           /\ {Original, Other} \cap Bridges = {}

VARIABLES offer,            \* what the compositor and Talon have
          bridge,           \* the bridge objects
          loaded,           \* sys._jm_talon_lite_wayland_bridge
          hooked,           \* its module is registered for ready and quit
          talon,            \* what is Talon's: providers, shown values, backend, callbacks,
                            \* and whether a registration of the loaded bridge that raised
                            \* has left one more (one of a former bridge does nothing)
          jobs,             \* cron's jobs
          desktop,          \* the desktop of the loaded bridge runs
          telling,          \* the listener call the owner thread is in
          main, cron,       \* where these threads are
          script,           \* the bridge and the press begin_temporary_modifiers() has to
                            \* record, or None
          held,             \* temporary presses that are down
          nextToken,        \* sys._jm_talon_lite_modifier_token_ids
          given,            \* history: the token returned for each press
          missed            \* history: an update has raised and not been made good

vars == <<toplevels, offer, bridge, loaded, hooked, talon, jobs, desktop, telling, main, cron,
          script, held, nextToken, given, missed>>

Owners == {Original, Other} \cup Bridges
Presses == 1..MaxPresses
Here == bridge[loaded]

NewBridge == [started |-> FALSE, cleanup |-> FALSE, generation |-> 0, revision |-> 0,
              job |-> 0,                \* the revision of _context_job, 0 for None
              clears |-> FALSE, latest |-> NoWindow, tokens |-> {},
              declared |-> FALSE,       \* _registered_declaration_callback
              listens |-> 0,            \* the generation its listener carries, 0 for None
              scopes |-> NewScopes(NoWindow), original |-> None]

Idle == [at |-> "idle", then |-> "return", failed |-> FALSE, tokens |-> {}]
Nothing == [window |-> NoWindow, generation |-> 0]

Init == /\ WindowsInit /\ offer \in Surroundings
        /\ bridge = [b \in Bridges |-> NewBridge]
        /\ loaded = 1 /\ hooked = TRUE
        /\ talon = [func |-> [slot \in Slots |-> Original],
                    shown |-> [slot \in Slots |-> Original],
                    clip |-> Original, decls |-> {}, stray |-> FALSE]
        /\ jobs = {} /\ desktop = FALSE /\ telling = Nothing
        /\ main = Idle /\ cron = None
        /\ script = None /\ held = {} /\ nextToken = 1
        /\ given = [p \in Presses |-> 0] /\ missed = FALSE

Values == {NoWindow} \cup Labels

TypeOK ==
    /\ WindowsTypeOK
    /\ loaded \in Bridges /\ hooked \in BOOLEAN
    /\ \A b \in Bridges :
        /\ bridge[b].generation \in Nat /\ bridge[b].revision \in Nat
        /\ bridge[b].job \in 0..bridge[b].revision
        /\ bridge[b].latest \in Values /\ bridge[b].scopes.window \in Values
        /\ bridge[b].tokens \subseteq Nat \X Presses
    /\ talon.func \in [Slots -> Owners] /\ talon.clip \in Owners
    /\ talon.shown \in [Slots -> Owners \cup Values] /\ talon.decls \subseteq Bridges
    /\ talon.stray \in BOOLEAN
    /\ held \subseteq Presses /\ script \in {None} \cup [bridge : Bridges, press : Presses]

Free == main.at = "idle" /\ cron = None         \* _lifecycle_lock
Available == desktop /\ manager                 \* window_context_available()

-----------------------------------------------------------------------------
(* The owner thread. *)

(* A listener is called with what the event has made of the active window. *)
Tells(news) == telling' = IF news /\ Here.listens # 0
                          THEN [window |-> Label(activeWindow'), generation |-> Here.listens]
                          ELSE telling

WindowEvent ==
    /\ offer.windows # {} /\ desktop /\ telling = Nothing /\ Here.revision < MaxRevision
    /\ \/ BindWindows /\ Tells(FALSE)
       \/ \E h \in Handles \cap offer.windows : (Batch(h) \/ CloseWindow(h)) /\ Tells(IsNews)
       \/ manager /\ WindowsGone /\ Tells(TRUE)
    /\ UNCHANGED <<offer, bridge, loaded, hooked, talon, jobs, desktop, main, cron, script, held,
                   nextToken, given, missed>>

(* The connection fails by itself; its adapters are closed. *)
DesktopFails ==
    /\ desktop /\ telling = Nothing /\ Here.revision < MaxRevision
    /\ WindowsGone /\ desktop' = FALSE /\ held' = {} /\ Tells(TRUE)
    /\ UNCHANGED <<offer, bridge, loaded, hooked, talon, jobs, main, cron, script, nextToken,
                   given, missed>>

(* A job that is cancelled may have fired and wait for _lifecycle_lock; cron has one
   thread, so only if no other does. *)
Fired(js) == Cardinality(js) = 1

(* _queue_active_window(): a job that is going to publish a window will publish this
   one; others are replaced.  A cron.cancel() that raises leaves the old one. *)
Schedule(s, b, window) ==
    LET told == [s EXCEPT !.latest = window]
        new == [told EXCEPT !.clears = (window = NoWindow),
                            !.revision = @ + 1, !.job = s.revision + 1]
        job(r) == [bridge |-> b, generation |-> s.generation, revision |-> r]
    IN  IF s.job # 0 /\ window # NoWindow /\ ~s.clears
        THEN {[s |-> told, jobs |-> jobs]}
        ELSE {[s |-> new, jobs |-> left \cup {job(new.job)}] :
                 left \in {jobs \ {job(s.job)}} \cup {js \in {jobs} : Fired(js)}} \cup
             IF s.job # 0 THEN {[s |-> told, jobs |-> jobs]} ELSE {}

Tell ==
    /\ telling # Nothing
    /\ telling' = Nothing
    /\ IF ~Here.started \/ telling.generation # Here.generation
       THEN UNCHANGED <<bridge, jobs>>
       ELSE \E o \in Schedule(Here, loaded, telling.window) :
                bridge' = [bridge EXCEPT ![loaded] = o.s] /\ jobs' = o.jobs
    /\ UNCHANGED <<toplevels, offer, loaded, hooked, talon, desktop, main, cron, script, held,
                   nextToken, given, missed>>

-----------------------------------------------------------------------------
(* Cron's thread, and Talon's registry. *)

(* Broken: the job is over when its window has been published. *)
TakeOnly(job) ==
    /\ job \in jobs /\ Free
    /\ jobs' = jobs \ {job}
    /\ LET s == bridge[job.bridge]
       IN  IF s.started /\ job.generation = s.generation /\ job.revision = s.revision
           THEN cron' = [bridge |-> job.bridge, window |-> s.latest,
                            available |-> Available]
           ELSE UNCHANGED cron
    /\ UNCHANGED <<toplevels, offer, loaded, hooked, talon, desktop, telling, main, script, held,
                   nextToken, given, missed, bridge>>

(* _apply_active_window(), up to the release of _lock: the window is taken. *)
Take(job) ==
    /\ job \in jobs /\ Free
    /\ jobs' = jobs \ {job}
    /\ LET s == bridge[job.bridge]
       IN  IF s.started /\ job.generation = s.generation /\ job.revision = s.revision
           THEN /\ cron' = [bridge |-> job.bridge, window |-> s.latest,
                            available |-> Available]
                /\ bridge' = [bridge EXCEPT ![job.bridge].job = 0,
                                            ![job.bridge].clears = FALSE]
           ELSE UNCHANGED <<cron, bridge>>
    /\ UNCHANGED <<toplevels, offer, loaded, hooked, talon, desktop, telling, main, script, held,
                   nextToken, given, missed>>

(* The rest of it; the availability was read since. *)
Publish ==
    /\ cron # None
    /\ \E available \in {cron.available, Available} :
       \E o \in Published(bridge[cron.bridge].scopes, talon, cron.bridge, cron.window,
                          available) :
        /\ bridge' = [bridge EXCEPT ![cron.bridge].scopes = o.s]
        /\ talon' = o.t /\ missed' = o.raised
    /\ cron' = None
    /\ UNCHANGED <<toplevels, offer, loaded, hooked, jobs, desktop, telling, main, script, held,
                   nextToken, given>>

(* _on_declarations_updated(). *)
Declare(b) ==
    /\ b \in talon.decls \/ (b = loaded /\ talon.stray)
    /\ Free
    /\ bridge[b].started /\ bridge[b].scopes.installed
    /\ \E o \in Refreshed(bridge[b].scopes, talon, b) :
        talon' = o.t /\ missed' = (missed \/ o.raised)
    /\ UNCHANGED <<toplevels, offer, bridge, loaded, hooked, jobs, desktop, telling, main, cron,
                   script, held, nextToken, given>>

(* Somebody else replaces a provider or the backend. *)
Replace ==
    /\ \/ \E slot \in Slots \cap offer.rivals : talon' = [talon EXCEPT !.func[slot] = Other,
                                                     !.shown[slot] = Other]
       \/ "clip" \in offer.rivals /\ talon' = [talon EXCEPT !.clip = Other]
    /\ talon' # talon
    /\ UNCHANGED <<toplevels, offer, bridge, loaded, hooked, jobs, desktop, telling, main, cron,
                   script, held, nextToken, given, missed>>

-----------------------------------------------------------------------------
(* Scripts. *)

(* begin_temporary_modifiers(): the keys go down, then a token names them. *)
BeginPress ==
    /\ hooked /\ offer.keyboard /\ desktop /\ script = None
    /\ \E p \in Presses :
        /\ given[p] = 0 /\ \A q \in 1..(p - 1) : given[q] # 0
        /\ script' = [bridge |-> loaded, press |-> p] /\ held' = held \cup {p}
    /\ UNCHANGED <<toplevels, offer, bridge, loaded, hooked, talon, jobs, desktop, telling, main,
                   cron, nextToken, given, missed>>

Recorded(token) ==
    /\ given' = [given EXCEPT ![script.press] = token]
    /\ bridge' = [bridge EXCEPT ![script.bridge].tokens = @ \cup {<<token, script.press>>}]

(* Broken: every bridge numbers its own tokens. *)
BeginRecordAnew ==
    /\ script # None
    /\ Recorded(Cardinality(bridge[script.bridge].tokens) + 1)
    /\ script' = None
    /\ UNCHANGED <<toplevels, offer, loaded, hooked, talon, jobs, desktop, telling, main, cron,
                   held, nextToken, missed>>

BeginRecord ==
    /\ script # None
    /\ Recorded(nextToken)
    /\ nextToken' = nextToken + 1 /\ script' = None
    /\ UNCHANGED <<toplevels, offer, loaded, hooked, talon, jobs, desktop, telling, main, cron,
                   held, missed>>

(* end_temporary_modifiers(): if the release raises the token is kept. *)
End(token) ==
    /\ hooked
    /\ LET mine == {x \in Here.tokens : x[1] = token}
       IN  /\ mine # {}
           /\ held' = held \ {x[2] : x \in mine}
           /\ bridge' = [bridge EXCEPT ![loaded].tokens = @ \ mine]
    /\ UNCHANGED <<toplevels, offer, loaded, hooked, talon, jobs, desktop, telling, main, cron,
                   script, nextToken, given, missed>>

-----------------------------------------------------------------------------
(* Talon's main thread: stop(). *)

Goto(at) == main' = [main EXCEPT !.at = at]
Change(s) == bridge' = [bridge EXCEPT ![loaded] = s]

(* The first block under _lock.  Of what it reads only the tokens can change before
   they are used: the rest is changed by holders of _lifecycle_lock alone. *)
Retire(s) == [s EXCEPT !.started = FALSE, !.generation = @ + 1, !.revision = @ + 1,
                       !.latest = NoWindow, !.scopes.window = NoWindow]

StopRetires ==
    /\ main.at = "retire"
    /\ Change(Retire(Here))
    /\ main' = [main EXCEPT !.at = "release", !.tokens = Here.tokens]
    /\ UNCHANGED <<toplevels, offer, loaded, hooked, talon, jobs, desktop, telling, cron, script,
                   held, nextToken, given, missed>>

(* Broken: the callback counts as unregistered though it is not. *)
StopReleasesAll ==
    /\ main.at = "release"
    /\ \E job, decl \in BOOLEAN :
        /\ job => Here.job # 0
        /\ decl => Here.declared
        /\ Change([Here EXCEPT !.job = 0, !.clears = FALSE,
                               !.declared = FALSE, !.listens = 0,
                               !.tokens = @ \ main.tokens, !.original = None])
        /\ jobs' = IF job THEN jobs
                   ELSE {j \in jobs : j.bridge # loaded \/ j.revision # Here.job}
        /\ talon' = [ClipRestored(Here.original, talon, loaded) EXCEPT
                        !.decls = IF Here.declared /\ ~decl THEN @ \ {loaded} ELSE @]
        /\ held' = held \ {x[2] : x \in main.tokens}
        /\ main' = [main EXCEPT !.at = "join", !.failed = job \/ decl]
    /\ UNCHANGED <<toplevels, offer, loaded, hooked, desktop, telling, cron, script, nextToken,
                   given, missed>>

(* Job, declaration callback, listener, tokens and backend: each is given up unless
   its call raises.  A press whose release raises stays with its token. *)
StopReleases ==
    /\ main.at = "release"
    /\ \E job, decl \in BOOLEAN, kept \in SUBSET main.tokens :
        /\ job => Here.job # 0
        /\ decl => Here.declared
        /\ kept # {} => desktop
        /\ Change([Here EXCEPT !.job = IF job THEN @ ELSE 0,
                               !.clears = job /\ @,
                               !.declared = decl, !.listens = 0,
                               !.tokens = @ \ (main.tokens \ kept), !.original = None])
        /\ \/ jobs' = jobs /\ (job \/ Fired(jobs))
           \/ ~job /\ jobs' = {j \in jobs : j.bridge # loaded \/ j.revision # Here.job}
        /\ talon' = [ClipRestored(Here.original, talon, loaded) EXCEPT
                        !.decls = IF Here.declared /\ ~decl THEN @ \ {loaded} ELSE @]
        /\ held' = held \ {x[2] : x \in main.tokens \ kept}
        /\ main' = [main EXCEPT !.at = "join", !.failed = job \/ decl \/ kept # {}]
    /\ UNCHANGED <<toplevels, offer, loaded, hooked, desktop, telling, cron, script, nextToken,
                   given, missed>>

(* desktop.stop(): joins the owner, which has closed its adapters, and may report
   that one of them failed; or gives up, as when the owner is in a listener. *)
StopJoins ==
    /\ main.at = "join"
    /\ \/ /\ telling = Nothing
          /\ WindowsGone /\ desktop' = FALSE /\ held' = {}
          /\ \/ /\ Change([Here EXCEPT !.tokens = {}])
                /\ main' = [main EXCEPT !.at = "restore"]
             \/ /\ main' = [main EXCEPT !.at = "restore", !.failed = TRUE]
                /\ UNCHANGED bridge
       \/ /\ main' = [main EXCEPT !.at = "restore", !.failed = TRUE]
          /\ UNCHANGED <<toplevels, desktop, held, bridge>>
    /\ UNCHANGED <<offer, loaded, hooked, talon, jobs, telling, cron, script, nextToken,
                   given, missed>>

(* scopes.restore(), and what stop() was called for. *)
StopRestores ==
    /\ main.at = "restore"
    /\ \E o \in Restored(Here.scopes, talon, loaded) :
        LET failed == main.failed \/ o.raised
        IN  /\ Change([Here EXCEPT !.scopes = o.s, !.cleanup = failed])
            /\ talon' = [o.t EXCEPT !.stray = @ /\ (main.then # "load" \/ failed)]
            /\ main' = IF main.then = "start" /\ ~failed
                       THEN [Idle EXCEPT !.at = "begin"] ELSE Idle
            /\ IF main.then = "load" /\ ~failed
               THEN loaded' = loaded + 1 /\ hooked' = TRUE
               ELSE UNCHANGED <<loaded, hooked>>
    /\ missed' = FALSE
    /\ UNCHANGED <<toplevels, offer, jobs, desktop, telling, cron, script, held, nextToken, given>>

-----------------------------------------------------------------------------
(* start(), stop() and a reload, by Talon. *)

Enter(at, then) == Free /\ main' = [Idle EXCEPT !.at = at, !.then = then]

OnReady ==
    /\ hooked /\ Here.generation < MaxGeneration[loaded]
    /\ ~(Here.started /\ desktop)
    /\ IF Here.started \/ Here.cleanup THEN Enter("retire", "start")
       ELSE Enter("begin", "return")
    /\ UNCHANGED <<toplevels, offer, bridge, loaded, hooked, talon, jobs, desktop, telling, cron,
                   script, held, nextToken, given, missed>>

OnQuit ==
    /\ hooked /\ Here.generation < MaxGeneration[loaded] /\ Enter("retire", "return")
    /\ UNCHANGED <<toplevels, offer, bridge, loaded, hooked, talon, jobs, desktop, telling, cron,
                   script, held, nextToken, given, missed>>

(* The module is loaded again: Talon has dropped the callbacks of the old one, and
   the new one registers its own only if the old bridge could be stopped. *)
Reload ==
    /\ loaded + 1 \in Bridges /\ Here.generation < MaxGeneration[loaded] + 1 /\ Enter("retire", "load")
    /\ hooked' = FALSE
    /\ UNCHANGED <<toplevels, offer, bridge, loaded, talon, jobs, desktop, telling, cron, script,
                   held, nextToken, given, missed>>

(* _start().  The providers that are there are to be given back; looking them up may
   raise. *)
Rollback == main' = [Idle EXCEPT !.at = "retire"]

StartBegins ==
    /\ main.at = "begin"
    /\ LET s == [Here EXCEPT !.started = TRUE, !.generation = @ + 1, !.latest = NoWindow]
           listening == [s EXCEPT !.listens = s.generation, !.scopes.window = NoWindow]
       IN  \/ Change([listening EXCEPT !.scopes = Initialized(@, talon)]) /\ Goto("connect")
           \/ Change(listening) /\ Rollback
    /\ UNCHANGED <<toplevels, offer, loaded, hooked, talon, jobs, desktop, telling, cron, script,
                   held, nextToken, given, missed>>

StartConnects ==
    /\ main.at = "connect"
    /\ \/ desktop' = TRUE /\ Goto("clipboard")
       \/ UNCHANGED desktop /\ Rollback
    /\ UNCHANGED <<toplevels, offer, bridge, loaded, hooked, talon, jobs, telling, cron, script,
                   held, nextToken, given, missed>>

(* A clipboard that cannot be installed does not end the start. *)
StartClipboard ==
    /\ main.at = "clipboard"
    /\ \E o \in IF offer.clipboard THEN ClipInstalled(Here.original, talon, loaded)
                ELSE {[original |-> Here.original, t |-> talon]} :
        Change([Here EXCEPT !.original = o.original]) /\ talon' = o.t
    /\ Goto("install")
    /\ UNCHANGED <<toplevels, offer, loaded, hooked, jobs, desktop, telling, cron, script, held,
                   nextToken, given, missed>>

StartInstalls ==
    /\ main.at = "install"
    /\ \E o \in IF Available THEN Installed(Here.scopes, talon, loaded)
                ELSE {Done(Here.scopes, talon)} :
        /\ Change([Here EXCEPT !.scopes = o.s]) /\ talon' = o.t
        /\ IF o.raised THEN Rollback ELSE Goto("register")
    /\ UNCHANGED <<toplevels, offer, loaded, hooked, jobs, desktop, telling, cron, script, held,
                   nextToken, given, missed>>

(* Where registering raises, Talon may have taken the callback. *)
StartRegisters ==
    /\ main.at = "register"
    /\ \/ /\ talon' = [talon EXCEPT !.decls = @ \cup {loaded}]
          /\ Change([Here EXCEPT !.declared = TRUE]) /\ main' = Idle
       \/ talon' \in {talon, [talon EXCEPT !.stray = TRUE]}
          /\ UNCHANGED bridge /\ Rollback
    /\ UNCHANGED <<toplevels, offer, loaded, hooked, jobs, desktop, telling, cron, script, held,
                   nextToken, given, missed>>

-----------------------------------------------------------------------------
MainStep == \/ OnReady \/ OnQuit \/ Reload
            \/ StopRetires \/ StopReleases \/ StopJoins \/ StopRestores
            \/ StartBegins \/ StartConnects \/ StartClipboard \/ StartInstalls
            \/ StartRegisters

Next == \/ WindowEvent \/ DesktopFails \/ Tell
        \/ (\E job \in jobs : Take(job)) \/ Publish
        \/ (\E b \in Bridges : Declare(b)) \/ Replace
        \/ BeginPress \/ BeginRecord \/ (\E p \in Presses : End(given[p]))
        \/ MainStep

Spec == Init /\ [][Next]_vars

-----------------------------------------------------------------------------
(* Properties. *)

(* A bridge that has been stopped, was never started or could not be started owns
   nothing of Talon's and of the desktop's, whatever failed on the way and was tried
   again: no provider, value, backend, callback, listener, job or connection.  That
   is what lets the next bridge, or the next start, take it all.  Only a callback that
   Talon took although its registration raised is nobody's to give up. *)
StoppedOwnsNothing ==
    \A b \in Bridges :
        ~bridge[b].started /\ ~bridge[b].cleanup /\ (b # loaded \/ main.at = "idle") =>
            /\ \A slot \in Slots : talon.func[slot] # b
            /\ talon.clip # b /\ b \notin talon.decls
            /\ bridge[b].job = 0 /\ bridge[b].listens = 0
            /\ cron # None => cron.bridge # b
            /\ b = loaded => ~desktop /\ held = {} /\ talon.shown \in [Slots -> Owners]

(* When nobody has anything left to do, Talon shows the window that is active in the
   compositor, or nothing of ours if there is no window context: no event was
   coalesced into a job that had already taken its window, no late clear hides a
   newer window, and no provider outlives the context it stood for. *)
Quiet == /\ Free /\ Here.started /\ telling = Nothing /\ ~missed
         /\ \A j \in jobs : j.bridge # loaded

Active == {windows[h].label : h \in {g \in Handles : windows[g] # NoWindow
                                                     /\ windows[g].activated}}

TalonShowsActive ==
    Quiet => /\ ~Available => \A slot \in Slots : talon.func[slot] # loaded
             /\ \A slot \in Slots :
                    /\ talon.func[slot] = loaded =>
                          talon.shown[slot] \in IF Active = {} THEN {NoWindow} ELSE Active
                    /\ Active # {} => talon.func[slot] \in {loaded, Other}

(* Every temporary press that is down has exactly one token, held by the bridge in
   force, by which its caller or stop() can release it; and no token given to one
   caller, also before a reload, ever names the press of another. *)
HoldsAreOwned ==
    /\ \A p \in held : script = [bridge |-> loaded, press |-> p] \/ <<given[p], p>> \in Here.tokens
    /\ \A p, q \in Presses : given[p] = given[q] /\ given[p] # 0 => p = q
=============================================================================
