---------------------------- MODULE BridgeProofs ----------------------------
(***************************************************************************)
(* The bridge, for any number of loads, windows, presses and providers.    *)
(*                                                                         *)
(* HoldsAreOwned: that a press is known to the bridge in force is not      *)
(* inductive, as a reload changes which bridge that is.  It does so only   *)
(* when the old bridge has been stopped without a failure, hence joined its*)
(* desktop, which has released everything (Reloading); a desktop that runs *)
(* is needed to press (HeldByDesktop).  That tokens differ rests on the    *)
(* allocator, which is ahead of every token given (TokensAreFresh).        *)
(*                                                                         *)
(* StoppedOwnsNothing and TalonShowsActive follow from BridgeInv: whatever *)
(* Talon has of ours is recorded in the bridge in force (Owned), what is   *)
(* left of it at each step of start() and stop() (Phase), and how far the  *)
(* active window has got on its way to Talon (Informed).                   *)
(***************************************************************************)
EXTENDS Bridge, TLAPS

(* A bridge is a record that has tokens. *)
Fields(r) == r = [f \in DOMAIN r |-> r[f]] /\ "tokens" \in DOMAIN r

Shapes == /\ loaded \in Bridges
          /\ bridge = [b \in Bridges |-> bridge[b]]
          /\ \A b \in Bridges : Fields(bridge[b])
          /\ main = [at |-> main.at, then |-> main.then, failed |-> main.failed,
                     tokens |-> main.tokens]

Numbers == /\ nextToken \in Nat \ {0} /\ given \in [Presses -> Nat] /\ held \subseteq Presses
           /\ script \in {None} \cup [bridge : Bridges, press : Presses]

Reloading == /\ main.then = "load" => loaded + 1 \in Bridges
             /\ main.at = "restore" /\ ~main.failed => ~desktop

HeldByDesktop == held # {} => desktop

TokensAreFresh == /\ \A p \in Presses : given[p] < nextToken
                  /\ \A b \in Bridges : \A x \in bridge[b].tokens : x[1] # 0
                  /\ script # None => given[script.press] = 0

HoldInv == Shapes /\ Numbers /\ Reloading /\ HeldByDesktop /\ TokensAreFresh /\ HoldsAreOwned

(* What most actions do: no press, token or desktop is touched, and each bridge keeps
   its tokens. *)
Bystander == /\ \A b \in Bridges : Fields(bridge'[b]) /\ bridge'[b].tokens = bridge[b].tokens
             /\ bridge' = [b \in Bridges |-> bridge'[b]]
             /\ UNCHANGED <<loaded, script, held, nextToken, given, desktop>>

(* A step that leaves tokens, presses and numbers alone, and the main thread too,
   keeps HoldInv. *)
LEMMA HoldKept == ASSUME HoldInv, Bystander, UNCHANGED main PROVE HoldInv'
<1> USE DEF HoldInv, Bystander
<1>1. Shapes' /\ Numbers' /\ Reloading' /\ HeldByDesktop'
    BY DEF Shapes, Numbers, Reloading, HeldByDesktop, Presses
<1>2. TokensAreFresh'
    BY DEF TokensAreFresh, Presses, Numbers, Shapes
<1>3. HoldsAreOwned'
    BY DEF HoldsAreOwned, Here, Shapes, Presses
<1> QED
    BY <1>1, <1>2, <1>3

(* The same for the steps of the main thread that go on to another step. *)
LEMMA HoldMoves ==
    ASSUME HoldInv, Bystander,
           main' = [at |-> main'.at, then |-> main'.then, failed |-> main'.failed,
                    tokens |-> main'.tokens],
           main'.then = "load" => main.then = "load" \/ loaded + 1 \in Bridges,
           main'.at # "restore"
    PROVE  HoldInv'
<1> USE DEF HoldInv, Bystander
<1>1. Shapes' /\ Numbers' /\ Reloading' /\ HeldByDesktop'
    BY DEF Shapes, Numbers, Reloading, HeldByDesktop, Presses
<1>2. TokensAreFresh'
    BY DEF TokensAreFresh, Presses, Numbers, Shapes
<1>3. HoldsAreOwned'
    BY DEF HoldsAreOwned, Here, Shapes, Presses
<1> QED
    BY <1>1, <1>2, <1>3

(* A change of the bridge in force that leaves its tokens alone is such a step. *)
LEMMA ChangeIsBystander ==
    ASSUME HoldInv, NEW s, Fields(s), s.tokens = Here.tokens, Change(s),
           UNCHANGED <<loaded, script, held, nextToken, given, desktop>>
    PROVE  Bystander
<1>1. bridge' = [bridge EXCEPT ![loaded] = s] /\ loaded \in Bridges
    BY DEF Change, HoldInv, Shapes
<1>2. \A b \in Bridges : bridge'[b] = IF b = loaded THEN s ELSE bridge[b]
    BY <1>1 DEF HoldInv, Shapes
<1> QED
    BY <1>1, <1>2 DEF Bystander, HoldInv, Shapes, Here

(* So is a step that changes no bridge at all. *)
LEMMA IdleBridge == ASSUME HoldInv, UNCHANGED <<bridge, loaded, script, held, nextToken, given, desktop>>
                    PROVE  Bystander
BY DEF Bystander, HoldInv, Shapes

-----------------------------------------------------------------------------
(* Nothing is pressed at first. *)
LEMMA HoldInit == ASSUME Init PROVE HoldInv
<1>1. /\ bridge = [b \in Bridges |-> NewBridge] /\ loaded = 1 /\ 1 \in Bridges
      /\ main = Idle /\ script = None /\ held = {} /\ nextToken = 1
      /\ given = [p \in Presses |-> 0]
    BY BridgeAssumption DEF Init
<1>2. Fields(NewBridge) /\ NewBridge.tokens = {}
    BY DEF Fields, NewBridge
<1>3. Shapes
    BY <1>1, <1>2 DEF Shapes, Idle
<1>4. Numbers /\ HeldByDesktop /\ Reloading
    BY <1>1 DEF Numbers, HeldByDesktop, Reloading, Idle
<1>5. TokensAreFresh /\ HoldsAreOwned
    BY <1>1, <1>2 DEF TokensAreFresh, HoldsAreOwned
<1> QED
    BY <1>3, <1>4, <1>5 DEF HoldInv

-----------------------------------------------------------------------------
(* The owner thread, cron, Talon and rivals. *)

(* A desktop that fails releases everything. *)
LEMMA HoldDesktopFails == ASSUME HoldInv, DesktopFails PROVE HoldInv'
<1> USE DEF HoldInv
<1>1. UNCHANGED <<bridge, loaded, script, nextToken, given, main>> /\ held' = {} /\ desktop' = FALSE
    BY DEF DesktopFails
<1>2. Shapes' /\ Numbers' /\ Reloading' /\ HeldByDesktop' /\ TokensAreFresh'
    BY <1>1 DEF Shapes, Numbers, Reloading, HeldByDesktop, TokensAreFresh, Presses
<1>3. HoldsAreOwned'
    BY <1>1 DEF HoldsAreOwned, Presses
<1> QED
    BY <1>2, <1>3

(* Scheduling a window, whatever raises, leaves the tokens alone. *)
LEMMA ScheduleKeeps ==
    ASSUME NEW s, NEW b, NEW window, Fields(s), NEW o \in Schedule(s, b, window)
    PROVE  Fields(o.s) /\ o.s.tokens = s.tokens
<1> DEFINE told == [s EXCEPT !.latest = window]
           new == [told EXCEPT !.clears = (window = NoWindow),
                               !.revision = @ + 1, !.job = s.revision + 1]
<1>1. o.s = told \/ o.s = new
    BY DEF Schedule
<1>2. Fields(told) /\ told.tokens = s.tokens
    BY DEF Fields
<1>3. Fields(new) /\ new.tokens = s.tokens
  <2> HIDE DEF told
  <2>1. new = [told EXCEPT !.clears = new.clears, !.revision = new.revision, !.job = new.job]
      BY <1>2 DEF Fields
  <2> HIDE DEF new
  <2> QED
      BY <1>2, <2>1 DEF Fields
<1> QED
    BY <1>1, <1>2, <1>3

(* A call of the listener keeps HoldInv. *)
LEMMA HoldTell == ASSUME HoldInv, Tell PROVE HoldInv'
<1>1. UNCHANGED <<loaded, desktop, main, script, held, nextToken, given>>
    BY DEF Tell
<1>2. CASE UNCHANGED bridge
    BY <1>1, <1>2, IdleBridge, HoldKept
<1>3. CASE \E o \in Schedule(Here, loaded, telling.window) :
               bridge' = [bridge EXCEPT ![loaded] = o.s]
  <2>1. PICK o \in Schedule(Here, loaded, telling.window) : Change(o.s)
      BY <1>3 DEF Change
  <2>2. Fields(Here)
      BY DEF HoldInv, Shapes, Here
  <2>3. Fields(o.s) /\ o.s.tokens = Here.tokens
      BY <2>2, ScheduleKeeps
  <2> QED
      BY <1>1, <2>1, <2>3, ChangeIsBystander, HoldKept
<1> QED
    BY <1>2, <1>3 DEF Tell

(* A job or a publication changes one bridge, be it loaded or not. *)
LEMMA AnyIsBystander ==
    ASSUME HoldInv, NEW b, NEW s, bridge' = [bridge EXCEPT ![b] = s],
           b \in Bridges => Fields(s) /\ s.tokens = bridge[b].tokens,
           UNCHANGED <<loaded, script, held, nextToken, given, desktop>>
    PROVE  Bystander
<1>1. \A c \in Bridges : bridge'[c] = IF c = b THEN s ELSE bridge[c]
    BY DEF HoldInv, Shapes
<1> QED
    BY <1>1 DEF Bystander, HoldInv, Shapes

(* So does a job that cron takes, ... *)
LEMMA HoldTake == ASSUME HoldInv, NEW job \in jobs, Take(job) PROVE HoldInv'
<1>1. UNCHANGED <<loaded, desktop, main, script, held, nextToken, given>>
    BY DEF Take
<1>2. CASE UNCHANGED bridge
    BY <1>1, <1>2, IdleBridge, HoldKept
<1>3. CASE bridge' = [bridge EXCEPT ![job.bridge].job = 0, ![job.bridge].clears = FALSE]
  <2> DEFINE s == [bridge[job.bridge] EXCEPT !.job = 0, !.clears = FALSE]
  <2>1. bridge' = [bridge EXCEPT ![job.bridge] = s]
      BY <1>3 DEF HoldInv, Shapes
  <2>2. job.bridge \in Bridges => Fields(s) /\ s.tokens = bridge[job.bridge].tokens
      BY DEF HoldInv, Shapes, Fields
  <2> HIDE DEF s
  <2> QED
      BY <1>1, <2>1, <2>2, AnyIsBystander, HoldKept
<1> QED
    BY <1>2, <1>3 DEF Take

(* ... what it publishes, ... *)
LEMMA HoldPublish == ASSUME HoldInv, Publish PROVE HoldInv'
<1>1. UNCHANGED <<loaded, desktop, main, script, held, nextToken, given>>
    BY DEF Publish
<1>2. PICK scopes : bridge' = [bridge EXCEPT ![cron.bridge].scopes = scopes]
    BY DEF Publish
<1> DEFINE s == [bridge[cron.bridge] EXCEPT !.scopes = scopes]
<1>3. bridge' = [bridge EXCEPT ![cron.bridge] = s]
    BY <1>2 DEF HoldInv, Shapes
<1>4. cron.bridge \in Bridges => Fields(s) /\ s.tokens = bridge[cron.bridge].tokens
    BY DEF HoldInv, Shapes, Fields
<1> HIDE DEF s
<1> QED
    BY <1>1, <1>3, <1>4, AnyIsBystander, HoldKept

(* ... and what windows, rivals and declarations do. *)
LEMMA HoldIdle ==
    ASSUME HoldInv, WindowEvent \/ Replace \/ \E b \in Bridges : Declare(b)
    PROVE  HoldInv'
BY IdleBridge, HoldKept DEF WindowEvent, Replace, Declare

-----------------------------------------------------------------------------
(* Scripts. *)

(* A press gets a number of its own, and no token yet. *)
LEMMA HoldBeginPress == ASSUME HoldInv, BeginPress PROVE HoldInv'
<1> USE DEF HoldInv
<1>1. PICK p \in Presses : /\ given[p] = 0 /\ script = None /\ desktop
                           /\ script' = [bridge |-> loaded, press |-> p]
                           /\ held' = held \cup {p}
    BY DEF BeginPress
<1>2. UNCHANGED <<bridge, loaded, main, desktop, nextToken, given>>
    BY DEF BeginPress
<1>3. Shapes' /\ Numbers' /\ Reloading' /\ HeldByDesktop' /\ TokensAreFresh'
    BY <1>1, <1>2 DEF Shapes, Numbers, Reloading, HeldByDesktop, TokensAreFresh, Presses
<1>4. \A q \in held' : script' = [bridge |-> loaded', press |-> q]
                       \/ <<given'[q], q>> \in Here'.tokens
    BY <1>1, <1>2, BridgeAssumption DEF HoldsAreOwned, Here, Shapes, Numbers, Presses
<1>5. HoldsAreOwned'
    BY <1>2, <1>4 DEF HoldsAreOwned, Presses
<1> QED
    BY <1>3, <1>5

(* Its token has a number nobody has, and goes to the bridge that pressed. *)
LEMMA HoldBeginRecord == ASSUME HoldInv, BeginRecord PROVE HoldInv'
<1> USE DEF HoldInv
<1> DEFINE b == script.bridge
           p == script.press
           t == bridge[b].tokens \cup {<<nextToken, p>>}
           s == [bridge[b] EXCEPT !.tokens = t]
<1>1. /\ script # None /\ b \in Bridges /\ p \in Presses
      /\ given' = [given EXCEPT ![p] = nextToken] /\ nextToken' = nextToken + 1
      /\ script' = None /\ UNCHANGED <<loaded, main, desktop, held>>
      /\ bridge' = [bridge EXCEPT ![b] = s]
    BY DEF BeginRecord, Recorded, Numbers, Shapes
<1>2. Fields(s) /\ s.tokens = t
    BY <1>1 DEF Shapes, Fields
<1> HIDE DEF s
<1>3. bridge' = [c \in Bridges |-> bridge'[c]] /\
      \A c \in Bridges : bridge'[c] = IF c = b THEN s ELSE bridge[c]
    BY <1>1 DEF Shapes
<1>4. \A q \in Presses : given'[q] = IF q = p THEN nextToken ELSE given[q]
    BY <1>1 DEF Numbers
<1>5. Shapes' /\ Numbers' /\ Reloading' /\ HeldByDesktop'
  <2>1. Shapes'
      BY <1>1, <1>2, <1>3 DEF Shapes
  <2>2. Numbers'
      BY <1>1 DEF Numbers, Presses
  <2> QED
      BY <1>1, <2>1, <2>2 DEF Reloading, HeldByDesktop
<1>6. TokensAreFresh'
  <2>1. \A c \in Bridges : \A x \in bridge'[c].tokens : x[1] # 0
      BY <1>1, <1>2, <1>3 DEF TokensAreFresh, Numbers
  <2>2. \A q \in Presses : given'[q] < nextToken'
      BY <1>1, <1>4 DEF TokensAreFresh, Numbers
  <2> QED
      BY <1>1, <2>1, <2>2 DEF TokensAreFresh, Presses
<1>7. \A q \in held : <<given'[q], q>> \in bridge'[loaded].tokens
  <2> SUFFICES ASSUME NEW q \in held PROVE <<given'[q], q>> \in bridge'[loaded].tokens
      OBVIOUS
  <2>1. loaded \in Bridges /\ q \in Presses
      BY DEF Shapes, Numbers
  <2>2. CASE q = p
    <3>1. <<0, p>> \notin bridge[loaded].tokens
        BY <2>1 DEF TokensAreFresh
    <3>2. given[p] = 0
        BY <1>1 DEF TokensAreFresh
    <3>3. loaded = b
        BY <2>2, <3>1, <3>2, <1>1 DEF HoldsAreOwned, Here
    <3> QED
        BY <2>1, <2>2, <3>3, <1>2, <1>3, <1>4
  <2>3. CASE q # p
    <3>1. <<given[q], q>> \in bridge[loaded].tokens
        BY <2>3 DEF HoldsAreOwned, Here
    <3> QED
        BY <2>1, <2>3, <3>1, <1>2, <1>3, <1>4
  <2> QED
      BY <2>2, <2>3
<1>8. \A q, r \in Presses : given'[q] = given'[r] /\ given'[q] # 0 => q = r
    BY <1>4 DEF HoldsAreOwned, TokensAreFresh, Numbers
<1>9. HoldsAreOwned'
    BY <1>1, <1>7, <1>8 DEF HoldsAreOwned, Here, Presses
<1> QED
    BY <1>5, <1>6, <1>9

(* Ending a token ends its press, if it has one. *)
LEMMA HoldEnd == ASSUME HoldInv, NEW token, End(token) PROVE HoldInv'
<1> USE DEF HoldInv
<1> DEFINE mine == {x \in Here.tokens : x[1] = token}
           s == [Here EXCEPT !.tokens = @ \ mine]
<1>1. /\ held' = held \ {x[2] : x \in mine} /\ bridge' = [bridge EXCEPT ![loaded] = s]
      /\ UNCHANGED <<loaded, main, desktop, script, nextToken, given>>
    BY DEF End, Here, Shapes
<1>2. Fields(s) /\ s.tokens = Here.tokens \ mine /\ loaded \in Bridges
    BY DEF Shapes, Fields, Here
<1> HIDE DEF s
<1>3. bridge' = [c \in Bridges |-> bridge'[c]] /\
      \A c \in Bridges : bridge'[c] = IF c = loaded THEN s ELSE bridge[c]
    BY <1>1 DEF Shapes
<1>4. Shapes' /\ Numbers' /\ Reloading' /\ HeldByDesktop'
    BY <1>1, <1>2, <1>3 DEF Shapes, Numbers, Reloading, HeldByDesktop, Presses
<1>5. TokensAreFresh'
    BY <1>1, <1>2, <1>3 DEF TokensAreFresh, Presses, Here
<1>6. HoldsAreOwned'
    BY <1>1, <1>2, <1>3 DEF HoldsAreOwned, Presses, Here
<1> QED
    BY <1>4, <1>5, <1>6

-----------------------------------------------------------------------------
(* The main thread. *)

(* Ready, quit and a reload begin a sequence of calls, and touch no press. *)
LEMMA HoldEnters ==
    ASSUME HoldInv, OnReady \/ OnQuit \/ Reload PROVE HoldInv'
<1>1. UNCHANGED <<bridge, loaded, script, held, nextToken, given, desktop>>
    BY DEF OnReady, OnQuit, Reload
<1>2. PICK at \in {"retire", "begin"}, then \in {"start", "return", "load"} :
        main' = [Idle EXCEPT !.at = at, !.then = then] /\
        (then = "load" => loaded + 1 \in Bridges)
    BY DEF OnReady, OnQuit, Reload, Enter
<1>3. main' = [at |-> at, then |-> then, failed |-> FALSE, tokens |-> {}]
    BY <1>2 DEF Idle
<1> QED
    BY <1>1, <1>2, <1>3, IdleBridge, HoldMoves

(* stop() begins by refusing what is new. *)
LEMMA HoldRetires == ASSUME HoldInv, StopRetires PROVE HoldInv'
<1>1. Change(Retire(Here)) /\ main' = [main EXCEPT !.at = "release", !.tokens = Here.tokens] /\
      UNCHANGED <<loaded, script, held, nextToken, given, desktop>>
    BY DEF StopRetires
<1>2. Fields(Retire(Here)) /\ Retire(Here).tokens = Here.tokens
    BY DEF HoldInv, Shapes, Here, Fields, Retire
<1>3. main' = [at |-> "release", then |-> main.then, failed |-> main.failed, tokens |-> Here.tokens]
    BY <1>1 DEF HoldInv, Shapes
<1> QED
    BY <1>1, <1>2, <1>3, ChangeIsBystander, HoldMoves

(* It ends the presses of its tokens; one whose release raises keeps its token. *)
LEMMA HoldReleases == ASSUME HoldInv, StopReleases PROVE HoldInv'
<1> USE DEF HoldInv
<1>1. PICK s, gone : /\ Change(s) /\ Fields(s) /\ s.tokens = Here.tokens \ gone
                     /\ held' = held \ {x[2] : x \in gone}
  <2>1. PICK job \in BOOLEAN, decl \in BOOLEAN, kept \in SUBSET main.tokens :
          /\ Change([Here EXCEPT !.job = IF job THEN @ ELSE 0,
                                 !.clears = job /\ @,
                                 !.declared = decl, !.listens = 0,
                                 !.tokens = @ \ (main.tokens \ kept), !.original = None])
          /\ held' = held \ {x[2] : x \in main.tokens \ kept}
      BY DEF StopReleases
  <2> DEFINE gone == main.tokens \ kept
             s == [Here EXCEPT !.job = IF job THEN @ ELSE 0,
                               !.clears = job /\ @,
                               !.declared = decl, !.listens = 0,
                               !.tokens = @ \ gone, !.original = None]
  <2>2. Fields(Here)
      BY DEF Shapes, Here
  <2>3. Fields(s) /\ s.tokens = Here.tokens \ gone
      BY <2>2 DEF Fields
  <2>4. Change(s) /\ held' = held \ {x[2] : x \in gone}
      BY <2>1
  <2> HIDE DEF s, gone
  <2> QED
      BY <2>3, <2>4
<1>2. /\ UNCHANGED <<loaded, desktop, script, nextToken, given>>
      /\ main' = [main EXCEPT !.at = "join", !.failed = main'.failed]
    BY DEF StopReleases, Shapes
<1>3. /\ bridge' = [c \in Bridges |-> bridge'[c]] /\ loaded \in Bridges
      /\ \A c \in Bridges : bridge'[c] = IF c = loaded THEN s ELSE bridge[c]
    BY <1>1 DEF Change, Shapes
<1>4. /\ main' = [at |-> "join", then |-> main.then, failed |-> main'.failed,
                  tokens |-> main.tokens]
    BY <1>2 DEF Shapes
<1>5. Shapes' /\ Numbers' /\ Reloading' /\ HeldByDesktop'
    BY <1>1, <1>2, <1>3, <1>4 DEF Shapes, Numbers, Reloading, HeldByDesktop, Presses
<1>6. TokensAreFresh'
    BY <1>1, <1>2, <1>3 DEF TokensAreFresh, Presses, Here
<1>7. HoldsAreOwned'
    BY <1>1, <1>2, <1>3 DEF HoldsAreOwned, Presses, Here
<1> QED
    BY <1>5, <1>6, <1>7

(* It joins the owner, which has released everything that was held, or gives up. *)
LEMMA HoldJoins == ASSUME HoldInv, StopJoins PROVE HoldInv'
<1> USE DEF HoldInv
<1>1. UNCHANGED <<loaded, script, nextToken, given>>
    BY DEF StopJoins
<1>2. \/ /\ desktop' = FALSE /\ held' = {}
         /\ Change([Here EXCEPT !.tokens = {}]) /\ main' = [main EXCEPT !.at = "restore"]
      \/ /\ desktop' = FALSE /\ held' = {} /\ UNCHANGED bridge
         /\ main' = [main EXCEPT !.at = "restore", !.failed = TRUE]
      \/ /\ main' = [main EXCEPT !.at = "restore", !.failed = TRUE]
         /\ UNCHANGED <<desktop, held, bridge>>
    BY DEF StopJoins
<1>3. /\ main'.at = "restore" /\ main'.then = main.then
      /\ main' = [at |-> main'.at, then |-> main'.then, failed |-> main'.failed,
                  tokens |-> main'.tokens]
      /\ main'.failed \/ ~desktop'
    BY <1>2 DEF Shapes
<1>4. CASE UNCHANGED bridge
  <2>1. held' = {} \/ UNCHANGED <<held, desktop>>
      BY <1>2
  <2>2. Shapes' /\ Numbers' /\ Reloading' /\ HeldByDesktop' /\ TokensAreFresh'
      BY <1>1, <1>3, <1>4, <2>1
         DEF Shapes, Numbers, Reloading, HeldByDesktop, TokensAreFresh, Presses
  <2>3. HoldsAreOwned'
      BY <1>1, <1>4, <2>1 DEF HoldsAreOwned, Presses, Here
  <2> QED
      BY <2>2, <2>3
<1>5. CASE held' = {} /\ desktop' = FALSE /\ Change([Here EXCEPT !.tokens = {}])
  <2> DEFINE s == [Here EXCEPT !.tokens = {}]
  <2>1. Fields(s) /\ s.tokens = {}
      BY DEF Fields, Shapes, Here
  <2> HIDE DEF s
  <2>2. /\ bridge' = [c \in Bridges |-> bridge'[c]]
        /\ \A c \in Bridges : bridge'[c] = IF c = loaded THEN s ELSE bridge[c]
      BY <1>5 DEF Change, Shapes, s
  <2>3. Shapes' /\ Numbers' /\ Reloading' /\ HeldByDesktop' /\ TokensAreFresh'
      BY <1>1, <1>3, <1>5, <2>1, <2>2
         DEF Shapes, Numbers, Reloading, HeldByDesktop, TokensAreFresh, Presses
  <2>4. HoldsAreOwned'
      BY <1>1, <1>5 DEF HoldsAreOwned, Presses
  <2> QED
      BY <2>3, <2>4
<1> QED
    BY <1>2, <1>4, <1>5

(* Here the next bridge takes over: there is nothing left to hold. *)
LEMMA HoldRestores == ASSUME HoldInv, StopRestores PROVE HoldInv'
<1> USE DEF HoldInv
<1>1. PICK scopes, failed :
        /\ Change([Here EXCEPT !.scopes = scopes, !.cleanup = failed])
        /\ main.failed => failed
        /\ main' = Idle \/ main' = [Idle EXCEPT !.at = "begin"]
        /\ loaded' = loaded \/ (loaded' = loaded + 1 /\ main.then = "load" /\ ~failed)
    <2>1. PICK o \in Restored(Here.scopes, talon, loaded) :
            LET failed == main.failed \/ o.raised
            IN  /\ Change([Here EXCEPT !.scopes = o.s, !.cleanup = failed])
                /\ main' = IF main.then = "start" /\ ~failed
                           THEN [Idle EXCEPT !.at = "begin"] ELSE Idle
                /\ IF main.then = "load" /\ ~failed
                   THEN loaded' = loaded + 1
                   ELSE loaded' = loaded
        BY DEF StopRestores
    <2> DEFINE f == main.failed \/ o.raised
    <2>2. /\ Change([Here EXCEPT !.scopes = o.s, !.cleanup = f])
          /\ main.failed => f
          /\ main' = Idle \/ main' = [Idle EXCEPT !.at = "begin"]
          /\ loaded' = loaded \/ (loaded' = loaded + 1 /\ main.then = "load" /\ ~f)
        BY <2>1
    <2> QED
        BY <2>2
<1>2. UNCHANGED <<desktop, script, held, nextToken, given>> /\ main.at = "restore"
    BY DEF StopRestores
<1> DEFINE s == [Here EXCEPT !.scopes = scopes, !.cleanup = failed]
<1>3. Fields(s) /\ s.tokens = Here.tokens
    BY DEF Fields, Shapes, Here
<1> HIDE DEF s
<1>4. /\ bridge' = [c \in Bridges |-> bridge'[c]]
      /\ \A c \in Bridges : bridge'[c] = IF c = loaded THEN s ELSE bridge[c]
    BY <1>1 DEF Change, Shapes, s
<1>5. /\ main' = [at |-> main'.at, then |-> main'.then, failed |-> main'.failed,
                  tokens |-> main'.tokens]
      /\ main'.at # "restore" /\ main'.then = "return"
    BY <1>1 DEF Idle
<1>6. loaded' \in Bridges
    BY <1>1 DEF Shapes, Reloading
<1>7. Shapes' /\ Numbers' /\ Reloading' /\ HeldByDesktop' /\ TokensAreFresh'
    BY <1>2, <1>3, <1>4, <1>5, <1>6
       DEF Shapes, Numbers, Reloading, HeldByDesktop, TokensAreFresh, Presses, Here
<1>8. CASE loaded' = loaded
  <2>1. Here'.tokens = Here.tokens
      BY <1>3, <1>4, <1>8 DEF Here, Shapes
  <2>2. HoldsAreOwned'
      BY <1>2, <1>8, <2>1 DEF HoldsAreOwned, Presses, Here
  <2> QED
      BY <1>7, <2>2
<1>9. CASE loaded' # loaded
  <2>1. held = {}
      BY <1>1, <1>2, <1>9 DEF Reloading, HeldByDesktop
  <2> QED
      BY <1>2, <1>7, <2>1 DEF HoldsAreOwned, Presses
<1> QED
    BY <1>7, <1>8, <1>9

(* The steps of start() that touch no press keep HoldInv. *)
LEMMA HoldStarts ==
    ASSUME HoldInv, StartBegins \/ StartClipboard \/ StartInstalls \/ StartRegisters
    PROVE  HoldInv'
<1>1. PICK s : Fields(s) /\ s.tokens = Here.tokens /\ (Change(s) \/ UNCHANGED bridge)
  <2>1. Fields(Here)
      BY DEF HoldInv, Shapes, Here
  <2>2. CASE StartBegins
    <3> DEFINE r == [Here EXCEPT !.started = TRUE, !.generation = @ + 1, !.latest = NoWindow]
               l == [r EXCEPT !.listens = r.generation, !.scopes.window = NoWindow]
               s == [l EXCEPT !.scopes = Initialized(@, talon)]
    <3>1. Fields(r) /\ r.tokens = Here.tokens
        BY <2>1 DEF Fields
    <3> HIDE DEF r
    <3>2. Fields(l) /\ l.tokens = Here.tokens
        BY <3>1 DEF Fields
    <3> HIDE DEF l
    <3>3. Fields(s) /\ s.tokens = Here.tokens
        BY <3>2 DEF Fields
    <3>4. Change(s) \/ Change(l)
        BY <2>2 DEF StartBegins, s, l, r
    <3> QED
        BY <3>2, <3>3, <3>4
  <2>3. CASE StartClipboard
    <3>1. PICK original : Change([Here EXCEPT !.original = original])
        BY <2>3 DEF StartClipboard
    <3> QED
        BY <2>1, <3>1 DEF Fields
  <2>4. CASE StartInstalls
    <3>1. PICK scopes : Change([Here EXCEPT !.scopes = scopes])
        BY <2>4 DEF StartInstalls
    <3> QED
        BY <2>1, <3>1 DEF Fields
  <2>5. CASE StartRegisters
    <3>1. Change([Here EXCEPT !.declared = TRUE]) \/ UNCHANGED bridge
        BY <2>5 DEF StartRegisters
    <3> QED
        BY <2>1, <3>1 DEF Fields
  <2> QED
      BY <2>2, <2>3, <2>4, <2>5
<1>2. UNCHANGED <<loaded, script, held, nextToken, given, desktop>>
    BY DEF StartBegins, StartClipboard, StartInstalls, StartRegisters
<1>3. \/ \E at \in {"connect", "install", "register"} : main' = [main EXCEPT !.at = at]
      \/ main' = Idle \/ main' = [Idle EXCEPT !.at = "retire"]
    BY DEF StartBegins, StartClipboard, StartInstalls, StartRegisters, Goto, Rollback
<1>4. /\ main' = [at |-> main'.at, then |-> main'.then, failed |-> main'.failed,
                  tokens |-> main'.tokens]
      /\ main'.at # "restore"
      /\ main'.then = "load" => main.then = "load"
    BY <1>3 DEF Idle, HoldInv, Shapes
<1>5. Bystander
    BY <1>1, <1>2, ChangeIsBystander, IdleBridge
<1> QED
    BY <1>4, <1>5, HoldMoves

(* So does the new connection, with nothing pressed. *)
LEMMA HoldConnects == ASSUME HoldInv, StartConnects PROVE HoldInv'
<1> USE DEF HoldInv
<1>1. /\ UNCHANGED <<bridge, loaded, script, held, nextToken, given>>
      /\ desktop' = TRUE \/ desktop' = desktop
    BY DEF StartConnects
<1>2. main' = [main EXCEPT !.at = "clipboard"] \/ main' = [Idle EXCEPT !.at = "retire"]
    BY DEF StartConnects, Goto, Rollback
<1>3. /\ main' = [at |-> main'.at, then |-> main'.then, failed |-> main'.failed,
                  tokens |-> main'.tokens]
      /\ main'.at # "restore" /\ main'.then \in {main.then, "return"}
    BY <1>2 DEF Idle, Shapes
<1>4. Shapes' /\ Numbers' /\ Reloading' /\ HeldByDesktop' /\ TokensAreFresh'
    BY <1>1, <1>3 DEF Shapes, Numbers, Reloading, HeldByDesktop, TokensAreFresh, Presses
<1>5. HoldsAreOwned'
    BY <1>1 DEF HoldsAreOwned, Presses, Here
<1> QED
    BY <1>4, <1>5

-----------------------------------------------------------------------------
(* Every step keeps HoldInv. *)
LEMMA HoldStep == ASSUME HoldInv, [Next]_vars PROVE HoldInv'
<1>1. CASE UNCHANGED vars
    BY <1>1, IdleBridge, HoldKept DEF vars
<1>2. CASE WindowEvent \/ DesktopFails \/ Tell \/ Publish \/ Replace
    BY <1>2, HoldIdle, HoldDesktopFails, HoldTell, HoldPublish
<1>3. CASE (\E job \in jobs : Take(job)) \/ \E b \in Bridges : Declare(b)
    BY <1>3, HoldTake, HoldIdle
<1>4. CASE BeginPress \/ BeginRecord \/ \E p \in Presses : End(given[p])
    BY <1>4, HoldBeginPress, HoldBeginRecord, HoldEnd
<1>5. CASE MainStep
    BY <1>5, HoldEnters, HoldRetires, HoldReleases, HoldJoins, HoldRestores, HoldStarts,
       HoldConnects DEF MainStep
<1> QED
    BY <1>1, <1>2, <1>3, <1>4, <1>5 DEF Next

(* Whatever is started, stopped, rolled back and reloaded, and whatever raises on the
   way: every temporary press that is down has a token of the bridge in force, or is
   about to get it, and no two presses ever have the same. *)
THEOREM HoldsCorrect == Spec => []HoldsAreOwned
<1>1. Init => HoldInv
    BY HoldInit
<1>2. HoldInv /\ [Next]_vars => HoldInv'
    BY HoldStep
<1>3. HoldInv => HoldsAreOwned
    BY DEF HoldInv
<1> QED
    BY <1>1, <1>2, <1>3, PTL DEF Spec

-----------------------------------------------------------------------------

(* What a bridge and Talon can be. *)
(* Providers and backends that are not a bridge's. *)
Foreign == {Original, Other}

ScopesRec == [originals : {None} \cup [Slots -> Foreign], installed : BOOLEAN,
              window : Values, pending : SUBSET Slots]

BridgeRec == [started : BOOLEAN, cleanup : BOOLEAN, generation : Nat, revision : Nat,
              job : Nat, clears : BOOLEAN, latest : Values, tokens : SUBSET (Nat \X Presses),
              declared : BOOLEAN, listens : Nat, scopes : ScopesRec,
              original : {None} \cup Foreign]

TalonRec == [func : [Slots -> Owners], shown : [Slots -> Owners \cup Values],
             clip : Owners, decls : SUBSET Bridges, stray : BOOLEAN]

Places == {"idle", "retire", "release", "join", "restore", "begin", "connect",
           "clipboard", "install", "register"}

Mains == [at : Places, then : {"return", "start", "load"}, failed : BOOLEAN,
          tokens : SUBSET (Nat \X Presses)]

(* Every part is of its type. *)
Typed ==
    /\ WindowsTypeOK /\ loaded \in Bridges /\ desktop \in BOOLEAN
    /\ bridge \in [Bridges -> BridgeRec] /\ talon \in TalonRec
    /\ \A b \in Bridges : bridge[b].job <= bridge[b].revision
    /\ jobs \subseteq [bridge : Bridges, generation : Nat, revision : Nat]
    /\ telling \in [window : Values, generation : Nat]
    /\ main \in Mains
    /\ cron \in {None} \cup [bridge : Bridges, window : Values, available : BOOLEAN]
    /\ hooked \in BOOLEAN /\ missed \in BOOLEAN

(* The active window is one of the windows, and activated; there is none only if none is. *)
WindowInv ==
    /\ \A h \in Handles : windows[h] # NoWindow => windows[h].id = h
    /\ activeWindow # NoWindow => windows[activeWindow.id] = activeWindow
                                  /\ activeWindow.activated
    /\ activeWindow = NoWindow =>
         \A h \in Handles : windows[h] # NoWindow => ~windows[h].activated
    /\ ~manager => windows = NoWindows
    /\ ~desktop => ~manager

(* The providers of Talon against what is known of them: s is right about what is
   installed, what can be given back, and which declarations may still show ours. *)
Provides(s, t, me) ==
    /\ s \in ScopesRec /\ t \in TalonRec
    /\ t.func \in [Slots -> Foreign \cup {me}]
    /\ s.installed => s.originals # None /\ \A slot \in Slots : t.func[slot] \in {me, Other}
    /\ ~s.installed => \A slot \in Slots : t.func[slot] # me
    /\ s.originals = None => s.pending = {}
    /\ \A slot \in Slots : t.shown[slot] \in Owners \/ t.func[slot] = me \/ slot \in s.pending

(* What Talon has of the bridge in force, which is recorded there. *)
Mine ==
    /\ Provides(Here.scopes, talon, loaded)
    /\ talon.clip \in Foreign \cup {loaded} /\ talon.decls \subseteq {loaded}
    /\ talon.clip = loaded => Here.original \in Foreign
    /\ loaded \in talon.decls => Here.declared

(* The bridges of other loads, before or to come, have nothing. *)
Others ==
    \A b \in Bridges \ {loaded} :
        /\ ~bridge[b].started /\ ~bridge[b].cleanup /\ bridge[b].job = 0
        /\ bridge[b].listens = 0 /\ ~bridge[b].scopes.installed
        /\ bridge[b].scopes.pending = {}

(* Whatever Talon has of ours, the bridge in force knows of. *)
Owned == Mine /\ Others

(* The bridge in force has nothing, and nobody is about to call it. *)
Clean ==
    /\ ~Here.scopes.installed /\ Here.scopes.pending = {}
    /\ talon.clip # loaded /\ talon.decls = {}
    /\ Here.job = 0 /\ Here.listens = 0 /\ ~desktop /\ telling = Nothing

(* What is left of it at each step of start() and stop(), and between them. *)
Phase ==
    /\ cron # None => main.at = "idle" /\ cron.bridge = loaded /\ Here.started
    /\ main.at \in {"release", "join", "restore", "begin"} => ~Here.started
    /\ main.at \in {"connect", "clipboard", "install", "register"} =>
         Here.started /\ Here.scopes.window = NoWindow
    /\ main.at \in {"join", "restore"} =>
         talon.clip # loaded /\ Here.listens = 0
         /\ (~main.failed => Here.job = 0 /\ talon.decls = {})
    /\ main.at = "restore" /\ ~main.failed => ~desktop /\ telling = Nothing
    /\ main.at = "begin" => Clean
    /\ main.at = "idle" /\ ~Here.started /\ ~Here.cleanup => Clean

(* Talon shows what the scopes hold, and ours is there if there is a window. *)
Settled ==
    \A slot \in Slots :
        /\ talon.func[slot] = loaded => talon.shown[slot] = Here.scopes.window /\ Available
        /\ activeWindow # NoWindow => talon.func[slot] \in {loaded, Other}

(* While started: the active window is in the listener's call that is under way, else
   in what the job will publish, else in cron's hands, else with the scopes. *)
Informed ==
    Here.started =>
        /\ Here.generation # 0 /\ Here.listens = Here.generation
        /\ main.at # "retire" => Here.scopes.originals # None
        /\ Here.job # 0 => /\ Here.job = Here.revision
                           /\ [bridge |-> loaded, generation |-> Here.generation,
                               revision |-> Here.job] \in jobs
        /\ telling # Nothing => telling = [window |-> Label(activeWindow),
                                           generation |-> Here.generation]
        /\ telling = Nothing => Here.latest = Label(activeWindow)
        /\ telling = Nothing /\ Here.job = 0 /\ cron # None =>
             /\ cron.window = Label(activeWindow)
             /\ cron.available => Available
             /\ activeWindow # NoWindow => cron.available
        /\ telling = Nothing /\ Here.job = 0 /\ cron = None =>
             /\ Here.scopes.window = Label(activeWindow)
             /\ ~missed => Settled

BridgeInv == Typed /\ WindowInv /\ Owned /\ Phase /\ Informed

-----------------------------------------------------------------------------
(* The two providers. *)

(* What scope.update() does to what Talon shows: the slots it is called for get the
   value of their provider. *)
LEMMA UpdatedFields ==
  ASSUME NEW s \in ScopesRec, NEW t \in TalonRec, NEW me, NEW slots
  PROVE  LET u == Updated(s, t, me, slots)
         IN  /\ u \in TalonRec /\ u.func = t.func /\ u.clip = t.clip /\ u.decls = t.decls
             /\ \A slot \in Slots :
                  u.shown[slot] = IF slot \notin slots THEN t.shown[slot]
                                  ELSE IF t.func[slot] = me THEN s.window ELSE t.func[slot]
<1> DEFINE f == [slot \in Slots |-> IF slot \notin slots THEN t.shown[slot]
                                   ELSE IF t.func[slot] = me THEN s.window
                                   ELSE t.func[slot]]
<1>1. Updated(s, t, me, slots) = [t EXCEPT !.shown = f]
  BY DEF Updated, TalonRec
<1>2. f \in [Slots -> Owners \cup Values]
  BY DEF TalonRec, ScopesRec
<1>3. \A slot \in Slots :
        f[slot] = IF slot \notin slots THEN t.shown[slot]
                  ELSE IF t.func[slot] = me THEN s.window ELSE t.func[slot]
  OBVIOUS
<1> HIDE DEF f
<1> QED
  BY <1>1, <1>2, <1>3 DEF TalonRec

(* The program and Talon show the same, but for what is owed. *)
LEMMA UpdatedProvides ==
  ASSUME NEW me \in Owners, NEW s, NEW t, Provides(s, t, me), NEW slots
  PROVE  Provides(s, Updated(s, t, me, slots), me)
<1>1. s \in ScopesRec /\ t \in TalonRec
  BY DEF Provides
<1> DEFINE u == Updated(s, t, me, slots)
<1>2. /\ u \in TalonRec /\ u.func = t.func /\ u.clip = t.clip /\ u.decls = t.decls
      /\ \A slot \in Slots :
           u.shown[slot] = IF slot \notin slots THEN t.shown[slot]
                           ELSE IF t.func[slot] = me THEN s.window ELSE t.func[slot]
  BY <1>1, UpdatedFields
<1> HIDE DEF u
<1>3. ASSUME NEW slot \in Slots
      PROVE  u.shown[slot] \in Owners \/ u.func[slot] = me \/ slot \in s.pending
  <2>1. t.func[slot] \in Owners
    BY <1>1 DEF TalonRec
  <2>2. t.shown[slot] \in Owners \/ t.func[slot] = me \/ slot \in s.pending
    BY DEF Provides
  <2> QED
    BY <1>2, <2>1, <2>2
<1>4. /\ t.func \in [Slots -> Foreign \cup {me}]
      /\ s.installed => s.originals # None /\ \A slot \in Slots : t.func[slot] \in {me, Other}
      /\ ~s.installed => \A slot \in Slots : t.func[slot] # me
      /\ s.originals = None => s.pending = {}
  BY DEF Provides
<1>5. u.func = t.func /\ u \in TalonRec
  BY <1>2
<1>6. /\ u.func \in [Slots -> Foreign \cup {me}]
      /\ s.installed => s.originals # None /\ \A slot \in Slots : u.func[slot] \in {me, Other}
      /\ ~s.installed => \A slot \in Slots : u.func[slot] # me
  BY <1>4, <1>5
<1>7. Provides(s, u, me)
  BY <1>1, <1>3, <1>4, <1>5, <1>6 DEF Provides
<1> QED
  BY <1>7 DEF u

(* Only what comes of the providers changes. *)
SameScopes(s, t, o) ==
    /\ o.s.originals = s.originals /\ o.t.clip = t.clip /\ o.t.decls = t.decls
    /\ o.raised \in BOOLEAN

(* restore(), wherever it raises: providers and record agree, and if it returns
   nothing is left to give back. *)
LEMMA RestoredKeeps ==
  ASSUME NEW me \in Bridges, NEW s, NEW t, Provides(s, t, me), NEW o \in Restored(s, t, me)
  PROVE  /\ Provides(o.s, o.t, me) /\ SameScopes(s, t, o) /\ o.s.window = s.window
         /\ ~o.s.installed /\ (~o.raised => o.s.pending = {})
         /\ o = [s |-> o.s, t |-> o.t, raised |-> o.raised]
<1>0. s \in ScopesRec /\ t \in TalonRec /\ me \in Owners
  BY DEF Provides, Owners
<1>1. CASE s.originals = None
  <2>1. o = [s |-> s, t |-> t, raised |-> FALSE]
    BY <1>1 DEF Restored, Done
  <2> QED
    BY <1>1, <2>1 DEF Provides, SameScopes
<1>2. CASE s.originals # None
  <2> DEFINE own == {slot \in Slots : t.func[slot] = me}
             f == [slot \in Slots |-> IF slot \in own THEN s.originals[slot] ELSE t.func[slot]]
             back == [t EXCEPT !.func = f]
             owed == s.pending \cup own
             off == [s EXCEPT !.installed = FALSE]
  <2>1. PICK kept \in SUBSET owed :
          o = [s |-> [off EXCEPT !.pending = kept],
               t |-> Updated(off, back, me, owed \ kept),
               raised |-> kept # {}]
    BY <1>0, <1>2 DEF Restored, TalonRec
  <2>2. s.originals \in [Slots -> Foreign]
    BY <1>0, <1>2 DEF ScopesRec
  <2>3. f \in [Slots -> Foreign]
    BY <2>2 DEF Provides
  <2>4. \A slot \in Slots : slot \notin own => f[slot] = t.func[slot]
    OBVIOUS
  <2>5. back \in TalonRec /\ back.func = f /\ back.shown = t.shown /\ back.clip = t.clip
        /\ back.decls = t.decls
    <3> HIDE DEF f
    <3> QED
      BY <1>0, <2>3 DEF TalonRec, Owners, Foreign
  <2>6. owed \in SUBSET Slots
    BY <1>0 DEF ScopesRec
  <2>7. /\ off \in ScopesRec /\ ~off.installed /\ off.pending = s.pending
        /\ off.originals = s.originals /\ off.window = s.window
    BY <1>0 DEF ScopesRec
  <2> DEFINE e == [off EXCEPT !.pending = kept]
             u == Updated(off, back, me, owed \ kept)
  <2>8. /\ e \in ScopesRec /\ ~e.installed /\ e.pending = kept
        /\ e.originals = s.originals /\ e.window = s.window
    <3> HIDE DEF off, owed
    <3> QED
      BY <2>6, <2>7 DEF ScopesRec
  <2>9. /\ u \in TalonRec /\ u.func = f /\ u.clip = t.clip /\ u.decls = t.decls
        /\ \A slot \in Slots :
             u.shown[slot] = IF slot \notin owed \ kept THEN t.shown[slot]
                             ELSE IF f[slot] = me THEN off.window ELSE f[slot]
    <3> HIDE DEF f, back, off, owed
    <3>1. /\ u \in TalonRec /\ u.func = back.func /\ u.clip = back.clip
          /\ u.decls = back.decls
          /\ \A slot \in Slots :
               u.shown[slot] = IF slot \notin owed \ kept THEN back.shown[slot]
                               ELSE IF back.func[slot] = me THEN off.window ELSE back.func[slot]
      BY <2>5, <2>7, UpdatedFields
    <3> QED
      BY <2>5, <3>1
  <2>10. o.s = e /\ o.t = u /\ o.raised = (kept # {})
         /\ o = [s |-> o.s, t |-> o.t, raised |-> o.raised]
    <3> HIDE DEF e, u
    <3> QED
      BY <2>1 DEF e, u
  <2>11. \A slot \in Slots : f[slot] # me /\ f[slot] \in Owners
    BY <2>3, BridgeAssumption DEF Foreign, Owners
  <2>12. \A slot \in Slots : u.shown[slot] \in Owners \/ slot \in kept
    <3> SUFFICES ASSUME NEW slot \in Slots, slot \notin kept PROVE u.shown[slot] \in Owners
      OBVIOUS
    <3>1. CASE slot \in owed
      <4> HIDE DEF f, u, owed
      <4> QED
        BY <2>9, <2>11, <3>1
    <3>2. CASE slot \notin owed
      <4>1. t.shown[slot] \in Owners
        BY <3>2 DEF Provides
      <4> HIDE DEF f, u, owed
      <4> QED
        BY <2>9, <3>2, <4>1
    <3> QED
      BY <3>1, <3>2
  <2>13. s.originals # None
    BY <1>2
  <2> HIDE DEF f, u, e, owed, off, back
  <2>14. Provides(e, u, me)
    BY <2>3, <2>8, <2>9, <2>11, <2>12, <2>13 DEF Provides
  <2> QED
    BY <2>8, <2>9, <2>10, <2>14 DEF SameScopes
<1> QED
  BY <1>1, <1>2

(* The providers, once installed, show the window. *)
Shows(s, t, me) == \A slot \in Slots : t.func[slot] = me => t.shown[slot] = s.window

(* install(), wherever it raises: providers and record agree, and if it returns
   Talon shows what the scopes hold. *)
LEMMA InstalledKeeps ==
  ASSUME NEW me \in Bridges, NEW s, NEW t, Provides(s, t, me), NEW o \in Installed(s, t, me)
  PROVE  /\ Provides(o.s, o.t, me) /\ SameScopes(s, t, o) /\ o.s.window = s.window
         /\ o.raised => ~o.s.installed
         /\ ~o.raised => (s.originals # None => o.s.installed)
                         /\ (~s.installed => Shows(o.s, o.t, me))
         /\ o = [s |-> o.s, t |-> o.t, raised |-> o.raised]
<1>0. s \in ScopesRec /\ t \in TalonRec /\ me \in Owners
  BY DEF Provides, Owners
<1>1. CASE s.installed \/ s.originals = None
  <2>1. o = [s |-> s, t |-> t, raised |-> FALSE]
    BY <1>1 DEF Installed, Done
  <2> QED
    BY <1>1, <2>1 DEF Provides, SameScopes, Shows
<1>2. CASE ~(s.installed \/ s.originals = None)
  <2> DEFINE on == [s EXCEPT !.installed = TRUE]
             f == [slot \in Slots |-> me]
             mine == [t EXCEPT !.func = f]
             all == Updated(on, mine, me, Slots)
  <2>1. /\ on \in ScopesRec /\ on.installed /\ on.pending = s.pending
        /\ on.originals = s.originals /\ on.window = s.window
    BY <1>0 DEF ScopesRec
  <2>2. /\ mine \in TalonRec /\ mine.func = f /\ mine.shown = t.shown
        /\ mine.clip = t.clip /\ mine.decls = t.decls
    <3>1. f \in [Slots -> Owners]
      BY <1>0
    <3> HIDE DEF f
    <3> QED
      BY <1>0, <3>1 DEF TalonRec
  <2>3. \/ o = Done(on, all)
        \/ \E got \in {{}, {"app"}} : \E p \in Restored(on, Updated(on, mine, me, got), me) :
             o = Failed(p)
    <3> HIDE DEF on
    <3> QED
      BY <1>2 DEF Installed, on
  <2>4. Provides(on, mine, me)
    <3>1. f \in [Slots -> Foreign \cup {me}] /\ \A slot \in Slots : f[slot] = me
      OBVIOUS
    <3> HIDE DEF f, on, mine
    <3> QED
      BY <1>2, <2>1, <2>2, <3>1 DEF Provides
  <2> HIDE DEF on, mine
  <2>5. CASE o = Done(on, all)
    <3>1. Provides(on, all, me)
      BY <1>0, <2>4, UpdatedProvides
    <3>2. /\ all.func = mine.func /\ all.clip = mine.clip /\ all.decls = mine.decls
          /\ \A slot \in Slots :
               all.shown[slot] = IF slot \notin Slots THEN mine.shown[slot]
                                 ELSE IF mine.func[slot] = me THEN on.window ELSE mine.func[slot]
      BY <2>1, <2>2, UpdatedFields
    <3>3. Shows(on, all, me)
      BY <3>2 DEF Shows
    <3> HIDE DEF all
    <3>4. o.s = on /\ o.t = all /\ o.raised = FALSE
          /\ o = [s |-> o.s, t |-> o.t, raised |-> o.raised]
      BY <2>5 DEF Done
    <3> QED
      BY <2>1, <2>2, <3>1, <3>2, <3>3, <3>4 DEF SameScopes
  <2>6. ASSUME NEW got, NEW p \in Restored(on, Updated(on, mine, me, got), me), o = Failed(p)
        PROVE  /\ Provides(o.s, o.t, me) /\ SameScopes(s, t, o) /\ o.s.window = s.window
               /\ ~o.s.installed /\ o.raised
               /\ o = [s |-> o.s, t |-> o.t, raised |-> o.raised]
    <3> DEFINE u == Updated(on, mine, me, got)
    <3>1. Provides(on, u, me)
      BY <1>0, <2>4, UpdatedProvides
    <3>2. u.clip = mine.clip /\ u.decls = mine.decls
      BY <2>1, <2>2, UpdatedFields
    <3>3. p \in Restored(on, u, me)
      BY <2>6
    <3> HIDE DEF u
    <3>4. /\ Provides(p.s, p.t, me) /\ SameScopes(on, u, p) /\ p.s.window = on.window
          /\ ~p.s.installed
          /\ p = [s |-> p.s, t |-> p.t, raised |-> p.raised]
      BY <3>1, <3>3, RestoredKeeps
    <3>5. o = [s |-> p.s, t |-> p.t, raised |-> TRUE]
      BY <2>6, <3>4 DEF Failed
    <3>6. o.s = p.s /\ o.t = p.t /\ o.raised = TRUE
      BY <3>5
    <3> QED
      BY <2>1, <2>2, <3>2, <3>4, <3>5, <3>6 DEF SameScopes
  <2> QED
    BY <2>3, <2>5, <2>6, <1>2
<1> QED
  BY <1>1, <1>2

(* refresh(): only what is shown changes, and to the right value. *)
LEMMA RefreshedKeeps ==
  ASSUME NEW me \in Bridges, NEW s, NEW t, Provides(s, t, me), NEW o \in Refreshed(s, t, me)
  PROVE  /\ Provides(o.s, o.t, me) /\ SameScopes(s, t, o) /\ o.s = s /\ o.t.func = t.func
         /\ \A slot \in Slots : t.func[slot] = me /\ ~o.raised =>
              o.t.shown[slot] = IF slot = "app" THEN s.window ELSE t.shown[slot]
         /\ Shows(s, t, me) => Shows(s, o.t, me)
<1>0. s \in ScopesRec /\ t \in TalonRec /\ me \in Owners
  BY DEF Provides, Owners
<1> DEFINE u == Updated(s, t, me, {"app"})
<1>1. o = Done(s, u) \/ o = Failed(Done(s, t))
  BY DEF Refreshed
<1>2. /\ u.func = t.func /\ u.clip = t.clip /\ u.decls = t.decls
      /\ \A slot \in Slots :
           u.shown[slot] = IF slot \notin {"app"} THEN t.shown[slot]
                           ELSE IF t.func[slot] = me THEN s.window ELSE t.func[slot]
  BY <1>0, UpdatedFields
<1>3. Provides(s, u, me)
  BY <1>0, UpdatedProvides
<1> HIDE DEF u
<1>4. CASE o = Done(s, u)
  <2>1. o.s = s /\ o.t = u /\ o.raised = FALSE
    BY <1>4 DEF Done
  <2>2. Shows(s, t, me) => Shows(s, u, me)
    BY <1>2 DEF Shows
  <2> QED
    BY <1>2, <1>3, <2>1, <2>2 DEF SameScopes
<1>5. CASE o = Failed(Done(s, t))
  <2>1. o.s = s /\ o.t = t /\ o.raised = TRUE
    BY <1>5 DEF Done, Failed
  <2> QED
    BY <2>1 DEF SameScopes
<1> QED
  BY <1>1, <1>4, <1>5

(* A publication that does not raise leaves the providers installed and showing the
   window, or gives them back. *)
LEMMA PublishedKeeps ==
  ASSUME NEW me \in Bridges, NEW s, NEW t, Provides(s, t, me), NEW window \in Values,
         NEW available \in BOOLEAN, NEW o \in Published(s, t, me, window, available)
  PROVE  /\ Provides(o.s, o.t, me) /\ SameScopes(s, t, o) /\ o.s.window = window
         /\ ~o.raised => IF available
                         THEN /\ Shows(o.s, o.t, me)
                              /\ s.originals # None => o.s.installed
                         ELSE ~o.s.installed
<1>0. s \in ScopesRec /\ t \in TalonRec /\ me \in Owners
  BY DEF Provides, Owners
<1> DEFINE new == [s EXCEPT !.window = window]
<1>1. /\ new \in ScopesRec /\ new.window = window /\ new.originals = s.originals
      /\ new.installed = s.installed /\ new.pending = s.pending
  BY <1>0 DEF ScopesRec
<1>2. Provides(new, t, me)
  <2> HIDE DEF new
  <2> QED
    BY <1>1 DEF Provides
<1>3. CASE ~available
  <2>1. o \in Restored(new, t, me)
    BY <1>3 DEF Published
  <2> HIDE DEF new
  <2> QED
    BY <1>1, <1>2, <1>3, <2>1, RestoredKeeps DEF SameScopes
<1>4. CASE available
  <2>1. PICK p \in Installed(new, t, me) :
          o \in IF p.raised THEN {p}
                ELSE {Failed(p)} \cup Refreshed(p.s, Updated(p.s, p.t, me, {"win"}), me)
    <3>1. \E p \in Installed(new, t, me) :
            o \in IF p.raised THEN {p}
                  ELSE {Failed(p)} \cup Refreshed(p.s, Updated(p.s, p.t, me, {"win"}), me)
      BY <1>4 DEF Published
    <3> QED
      BY <3>1
  <2> HIDE DEF new
  <2>2. /\ Provides(p.s, p.t, me) /\ SameScopes(new, t, p) /\ p.s.window = window
        /\ ~p.raised => (s.originals # None => p.s.installed)
        /\ p = [s |-> p.s, t |-> p.t, raised |-> p.raised]
    BY <1>1, <1>2, InstalledKeeps
  <2>3. SameScopes(s, t, p)
    BY <1>1, <2>2 DEF SameScopes
  <2>4. CASE p.raised /\ o = p
    BY <2>2, <2>3, <2>4
  <2>5. CASE o = Failed(p)
    <3>1. o = [s |-> p.s, t |-> p.t, raised |-> TRUE]
      BY <2>2, <2>5 DEF Failed
    <3>2. o.s = p.s /\ o.t = p.t /\ o.raised = TRUE
      BY <3>1
    <3> QED
      BY <2>2, <2>3, <3>2 DEF SameScopes
  <2>6. CASE ~p.raised /\ o \in Refreshed(p.s, Updated(p.s, p.t, me, {"win"}), me)
    <3> DEFINE u == Updated(p.s, p.t, me, {"win"})
    <3>1. Provides(p.s, u, me)
      BY <1>0, <2>2, UpdatedProvides
    <3>2. p.s \in ScopesRec /\ p.t \in TalonRec
      BY <2>2 DEF Provides
    <3>3. /\ u.func = p.t.func /\ u.clip = p.t.clip /\ u.decls = p.t.decls
          /\ \A slot \in Slots :
               u.shown[slot] = IF slot \notin {"win"} THEN p.t.shown[slot]
                               ELSE IF p.t.func[slot] = me THEN p.s.window ELSE p.t.func[slot]
      BY <3>2, UpdatedFields
    <3>4. o \in Refreshed(p.s, u, me)
      BY <2>6
    <3> HIDE DEF u
    <3>5. /\ Provides(o.s, o.t, me) /\ SameScopes(p.s, u, o) /\ o.s = p.s
          /\ o.t.func = u.func
          /\ \A slot \in Slots : u.func[slot] = me /\ ~o.raised =>
               o.t.shown[slot] = IF slot = "app" THEN p.s.window ELSE u.shown[slot]
      BY <3>1, <3>4, RefreshedKeeps
    <3>6. SameScopes(s, t, o)
      BY <2>3, <3>3, <3>5 DEF SameScopes
    <3>7. ~o.raised => Shows(o.s, o.t, me)
      BY <3>3, <3>5 DEF Shows, Slots
    <3> QED
      BY <1>4, <2>2, <2>6, <3>5, <3>6, <3>7
  <2> QED
    BY <2>1, <2>4, <2>5, <2>6
<1> QED
  BY <1>3, <1>4

-----------------------------------------------------------------------------
(* What a step leaves of the invariant, by what it leaves alone. *)

(* A window is never mistaken for none, nor is its label. *)
LEMMA NoWindowIsApart ==
  /\ \A w \in Window : w # NoWindow /\ Label(w) \in Labels /\ Label(w) # NoWindow
                       /\ Key(w) # NoWindow
  /\ Label(NoWindow) = NoWindow /\ Key(NoWindow) = NoWindow
BY WindowsAssumption DEF Window, Label, Key

(* What the types say of the bridge in force. *)
LEMMA TypedFacts ==
  ASSUME Typed
  PROVE  /\ loaded \in Bridges /\ Here \in BridgeRec /\ Here.job <= Here.revision
         /\ talon \in TalonRec /\ activeWindow \in Window \cup {NoWindow}
         /\ Label(activeWindow) \in Values
         /\ main = [at |-> main.at, then |-> main.then, failed |-> main.failed,
                    tokens |-> main.tokens]
         /\ main.at \in Places
BY NoWindowIsApart DEF Typed, Mains, Here, WindowsTypeOK, Values

(* The record of the bridge in force changes, and no other. *)
LEMMA Changed ==
  ASSUME Typed, NEW s \in BridgeRec, s.job <= s.revision, Change(s), loaded' = loaded
  PROVE  /\ Here' = s /\ bridge' \in [Bridges -> BridgeRec]
         /\ \A b \in Bridges \ {loaded} : bridge'[b] = bridge[b]
         /\ \A b \in Bridges : bridge'[b].job <= bridge'[b].revision
BY DEF Typed, Here, Change

(* The bridges of other loads stay as they are when only the one in force changes. *)
LEMMA OthersKept ==
  ASSUME Others, loaded' = loaded, \A b \in Bridges \ {loaded} : bridge'[b] = bridge[b]
  PROVE  Others'
BY DEF Others

(* The window that a provider of ours returns does not matter for who owns what. *)
LEMMA AnyWindow ==
  ASSUME NEW me, NEW s, NEW t, Provides(s, t, me), NEW w \in Values
  PROVE  Provides([s EXCEPT !.window = w], t, me)
<1> DEFINE new == [s EXCEPT !.window = w]
<1>1. /\ new \in ScopesRec /\ new.window = w /\ new.originals = s.originals
      /\ new.installed = s.installed /\ new.pending = s.pending
  BY DEF Provides, ScopesRec
<1> HIDE DEF new
<1>2. Provides(new, t, me)
  BY <1>1 DEF Provides
<1> QED
  BY <1>2 DEF new

(* Nothing that Talon has is ours while we have installed nothing and owe nothing. *)
LEMMA NothingInstalled ==
  ASSUME NEW s, NEW t, NEW me, Provides(s, t, me), ~s.installed
  PROVE  /\ t.func \in [Slots -> Foreign] /\ \A slot \in Slots : t.func[slot] # me
         /\ s.pending = {} => \A slot \in Slots : t.shown[slot] \in Owners
BY DEF Provides

(* There is an active window only while there is a window context, and then it is
   the compositor's. *)
LEMMA NoContextNoWindow ==
  ASSUME Typed, WindowInv
  PROVE  /\ activeWindow # NoWindow => Available
         /\ Active = {} <=> activeWindow = NoWindow
         /\ activeWindow # NoWindow => Label(activeWindow) \in Active
         /\ Label(activeWindow) = NoWindow <=> activeWindow = NoWindow
<1>1. activeWindow # NoWindow => activeWindow \in Window /\ activeWindow.id \in Handles
  BY DEF Typed, WindowsTypeOK, Window
<1>2. activeWindow # NoWindow => windows[activeWindow.id] # NoWindow
                                 /\ windows[activeWindow.id].activated
                                 /\ windows[activeWindow.id].label = Label(activeWindow)
  BY <1>1, NoWindowIsApart DEF WindowInv, Label
<1>3. activeWindow # NoWindow => Available
  BY <1>1, <1>2 DEF WindowInv, Available, NoWindows
<1>4. activeWindow = NoWindow => Active = {}
  BY DEF WindowInv, Active
<1> QED
  BY <1>1, <1>2, <1>3, <1>4, NoWindowIsApart DEF Active

-----------------------------------------------------------------------------
(* The owner thread. *)

(* One of the windows that are active, if one is: at most one is preferred. *)
LEMMA ChosenIsOn ==
  ASSUME NEW here, NEW preferred, \A g, h \in preferred : g = h,
         NEW w \in Choose(here, preferred)
  PROVE  LET on == {h \in Handles : here[h] # NoWindow /\ here[h].activated}
         IN  (on = {} /\ w = NoWindow) \/ \E h \in on : w = here[h]
<1> DEFINE on == {h \in Handles : here[h] # NoWindow /\ here[h].activated}
           current == IF activeWindow = NoWindow THEN {} ELSE {activeWindow.id}
           from == IF preferred \cap on # {} THEN preferred
                   ELSE IF current \cap on # {} THEN current ELSE on
<1>1. on = {} => w = NoWindow
  BY DEF Choose
<1>2. on # {} => from \subseteq on
  OBVIOUS
<1>3. on # {} => \E h \in from : w = here[h]
  BY DEF Choose
<1> HIDE DEF from
<1> QED
  BY <1>1, <1>2, <1>3

(* The chosen window is one of those on record, and activated; if none is chosen,
   none is activated. *)
LEMMA Chosen ==
  ASSUME WindowInv, WindowsTypeOK, WindowsTypeOK',
         \A h \in Handles : windows'[h] # NoWindow => windows'[h].id = h,
         NEW preferred, \A g, h \in preferred : g = h, Select(preferred)
  PROVE  /\ activeWindow' # NoWindow => windows'[activeWindow'.id] = activeWindow'
                                        /\ activeWindow'.activated
         /\ activeWindow' = NoWindow =>
              \A h \in Handles : windows'[h] # NoWindow => ~windows'[h].activated
<1> DEFINE on == {h \in Handles : windows'[h] # NoWindow /\ windows'[h].activated}
<1>1. activeWindow' \in Choose(windows', preferred)
  BY DEF Select
<1>2. (on = {} /\ activeWindow' = NoWindow) \/ \E h \in on : activeWindow' = windows'[h]
  BY <1>1, ChosenIsOn
<1> QED
  BY <1>2

(* The choice is a window or none. *)
LEMMA ChosenTypes ==
  ASSUME windows' \in [Handles -> Window \cup {NoWindow}],
         NEW preferred, \A g, h \in preferred : g = h, Select(preferred)
  PROVE  activeWindow' \in Window \cup {NoWindow}
<1> DEFINE on == {h \in Handles : windows'[h] # NoWindow /\ windows'[h].activated}
<1>1. activeWindow' \in Choose(windows', preferred)
  BY DEF Select
<1>2. (on = {} /\ activeWindow' = NoWindow) \/ \E h \in on : activeWindow' = windows'[h]
  BY <1>1, ChosenIsOn
<1> QED
  BY <1>2

(* A batch of window events and a closed window keep WindowInv. *)
LEMMA BatchKeeps ==
  ASSUME Typed, WindowInv, desktop, desktop' = desktop, NEW h \in Handles,
         Batch(h) \/ CloseWindow(h)
  PROVE  WindowsTypeOK' /\ WindowInv' /\ UNCHANGED manager
<1>1. WindowsTypeOK
  BY DEF Typed
<1>2. PICK w \in Window \cup {NoWindow}, preferred \in SUBSET Handles :
        /\ windows' = [windows EXCEPT ![h] = w] /\ (w # NoWindow => w.id = h)
        /\ Select(preferred) /\ \A f, g \in preferred : f = g
  <2>1. CASE CloseWindow(h)
    <3> DEFINE none == {}
    <3>1. windows' = [windows EXCEPT ![h] = NoWindow] /\ Select(none)
      BY <2>1 DEF CloseWindow
    <3>2. none \in SUBSET Handles /\ \A f, g \in none : f = g
      OBVIOUS
    <3> HIDE DEF none
    <3> QED
      BY <3>1, <3>2
  <2>2. CASE Batch(h)
    <3>1. PICK label \in Labels, activated \in BOOLEAN :
            LET was == windows[h] # NoWindow /\ windows[h].activated
            IN  /\ windows' = [windows EXCEPT ![h] =
                                  [id |-> h, label |-> label, activated |-> activated]]
                /\ Select(IF activated /\ ~was THEN {h} ELSE {})
      BY <2>2 DEF Batch
    <3>2. [id |-> h, label |-> label, activated |-> activated] \in Window
      BY DEF Window
    <3> DEFINE w == [id |-> h, label |-> label, activated |-> activated]
               was == windows[h] # NoWindow /\ windows[h].activated
               preferred == IF activated /\ ~was THEN {h} ELSE {}
    <3>3. w.id = h /\ preferred \in SUBSET Handles /\ \A f, g \in preferred : f = g
      OBVIOUS
    <3>4. windows' = [windows EXCEPT ![h] = w] /\ Select(preferred)
      BY <3>1
    <3> HIDE DEF w, preferred
    <3>5. w \in Window \cup {NoWindow}
      BY <3>2 DEF w
    <3> QED
      BY <3>3, <3>4, <3>5
  <2> QED
    BY <2>1, <2>2
<1>3. UNCHANGED manager /\ manager
  <2>1. CASE Batch(h)
    BY <2>1 DEF Batch
  <2>2. CASE CloseWindow(h)
    <3>1. manager
      BY <2>2 DEF CloseWindow, WindowInv, NoWindows
    <3> QED
      BY <2>2, <3>1 DEF CloseWindow
  <2> QED
    BY <2>1, <2>2
<1>4. windows' \in [Handles -> Window \cup {NoWindow}]
      /\ \A g \in Handles : windows'[g] # NoWindow => windows'[g].id = g
  BY <1>1, <1>2 DEF WindowsTypeOK, WindowInv
<1>5. WindowsTypeOK'
  BY <1>1, <1>2, <1>3, <1>4, ChosenTypes DEF WindowsTypeOK
<1> QED
  BY <1>1, <1>2, <1>3, <1>4, <1>5, Chosen DEF WindowInv

(* So does the loss of all windows. *)
LEMMA GoneKeeps ==
  ASSUME WindowsGone
  PROVE  WindowsTypeOK' /\ WindowInv'
BY DEF WindowsGone, WindowsTypeOK, WindowInv, NoWindows

(* The bridge is told, of the window that is active now; or there is no news. *)
Told == IF Here.listens # 0
        THEN telling' = [window |-> Label(activeWindow'), generation |-> Here.listens]
        ELSE UNCHANGED telling

NoNews == /\ UNCHANGED telling /\ Label(activeWindow') = Label(activeWindow)
          /\ Available => Available'

(* Apart from that an event of the compositor changes nothing of the bridge. *)
LEMMA WindowsMove ==
  ASSUME BridgeInv, desktop, telling = Nothing, desktop' \in BOOLEAN,
         WindowsTypeOK', WindowInv', Told \/ NoNews,
         UNCHANGED <<bridge, loaded, hooked, talon, jobs, main, cron, missed>>
  PROVE  BridgeInv'
<1> USE DEF BridgeInv
<1>1. Here' = Here /\ Here \in BridgeRec
  BY TypedFacts DEF Here
<1>2. Label(activeWindow') \in Values
        /\ (Label(activeWindow') = NoWindow <=> activeWindow' = NoWindow)
  BY NoWindowIsApart DEF WindowsTypeOK, Values
<1>3. telling' \in [window : Values, generation : Nat]
        /\ (telling' = Nothing \/ telling' = [window |-> Label(activeWindow'),
                                              generation |-> Here.listens])
  BY <1>1, <1>2 DEF Told, NoNews, Typed, BridgeRec
<1>4. Typed'
  BY <1>3 DEF Typed
<1>5. Owned'
  BY <1>1 DEF Owned, Mine, Others
<1>6. Phase'
  BY <1>1 DEF Phase, Clean
<1>7. Informed'
  <2> SUFFICES ASSUME Here.started PROVE Informed'
    BY <1>1 DEF Informed
  <2>1. Here.generation # 0 /\ Here.listens = Here.generation
    BY DEF Informed
  <2>2. CASE Told
    <3>1. telling' = [window |-> Label(activeWindow'), generation |-> Here.generation]
      BY <2>1, <2>2 DEF Told
    <3>2. telling' # Nothing
      BY <2>1, <3>1 DEF Nothing
    <3> QED
      BY <1>1, <2>1, <3>1, <3>2 DEF Informed
  <2>3. CASE NoNews
    <3>1. activeWindow = NoWindow <=> activeWindow' = NoWindow
      BY <1>2, <2>3, NoContextNoWindow DEF NoNews
    <3>2. Settled => Settled'
      BY <1>1, <2>3, <3>1 DEF Settled, NoNews
    <3> QED
      BY <1>1, <2>1, <2>3, <3>1, <3>2 DEF Informed, NoNews
  <2> QED
    BY <2>2, <2>3
<1> QED
  BY <1>4, <1>5, <1>6, <1>7

(* Window events keep BridgeInv: the new active window is in the listener's call
   that follows. *)
LEMMA BridgeWindowEvent == ASSUME BridgeInv, WindowEvent PROVE BridgeInv'
<1> USE DEF BridgeInv
<1>1. /\ desktop /\ telling = Nothing /\ desktop' = desktop /\ desktop' \in BOOLEAN
      /\ UNCHANGED <<bridge, loaded, hooked, talon, jobs, main, cron, missed>>
  BY DEF WindowEvent, Typed
<1>2. CASE BindWindows /\ Tells(FALSE)
  <2>1. WindowsTypeOK' /\ WindowInv' /\ NoNews
    BY <1>1, <1>2 DEF BindWindows, Tells, WindowInv, WindowsTypeOK, Typed, NoNews, Available
  <2> QED
    BY <1>1, <2>1, WindowsMove
<1>3. CASE \E h \in Handles : (Batch(h) \/ CloseWindow(h)) /\ Tells(IsNews)
  <2>1. PICK h \in Handles : (Batch(h) \/ CloseWindow(h)) /\ Tells(IsNews)
    BY <1>3
  <2>2. WindowsTypeOK' /\ WindowInv' /\ UNCHANGED manager
    BY <1>1, <2>1, BatchKeeps
  <2>3. CASE IsNews
    <3>1. Told
      BY <2>1, <2>3 DEF Tells, Told
    <3> QED
      BY <1>1, <2>2, <3>1, WindowsMove
  <2>4. CASE ~IsNews
    <3>1. Key(activeWindow') = Key(activeWindow)
      BY <2>4 DEF IsNews
    <3>2. activeWindow \in Window \cup {NoWindow} /\ activeWindow' \in Window \cup {NoWindow}
      BY <2>2 DEF Typed, WindowsTypeOK
    <3>3. Label(activeWindow') = Label(activeWindow)
      BY <3>1, <3>2, NoWindowIsApart DEF Key, Label
    <3>4. NoNews
      BY <1>1, <2>1, <2>2, <2>4, <3>3 DEF NoNews, Tells, Available
    <3> QED
      BY <1>1, <2>2, <3>4, WindowsMove
  <2> QED
    BY <2>3, <2>4
<1>4. CASE WindowsGone /\ Tells(TRUE)
  <2>1. Told
    BY <1>4 DEF Told, Tells
  <2> QED
    BY <1>1, <1>4, <2>1, GoneKeeps, WindowsMove
<1> QED
  BY <1>2, <1>3, <1>4 DEF WindowEvent

(* So does a desktop that fails: the end of all windows is told as well. *)
LEMMA BridgeDesktopFails == ASSUME BridgeInv, DesktopFails PROVE BridgeInv'
<1>1. /\ desktop /\ telling = Nothing /\ desktop' = FALSE /\ WindowsGone /\ Tells(TRUE)
      /\ UNCHANGED <<bridge, loaded, hooked, talon, jobs, main, cron, missed>>
  BY DEF DesktopFails
<1>2. Told
  BY <1>1 DEF Told, Tells
<1> QED
  BY <1>1, <1>2, GoneKeeps, WindowsMove

(* The listener's call ends with a job for the window it told of, or that job stands
   already. *)
LEMMA BridgeTell == ASSUME BridgeInv, Tell PROVE BridgeInv'
<1> USE DEF BridgeInv
<1>1. /\ telling # Nothing /\ telling' = Nothing
      /\ UNCHANGED <<toplevels, loaded, hooked, talon, desktop, main, cron, missed>>
  BY DEF Tell
<1>2. telling' \in [window : Values, generation : Nat]
  BY <1>1 DEF Nothing, Values
<1>3. Here \in BridgeRec /\ loaded \in Bridges /\ Here.job <= Here.revision
  BY TypedFacts
<1>4. WindowInv'
  BY <1>1 DEF WindowInv, toplevels
<1>5. CASE ~Here.started /\ UNCHANGED <<bridge, jobs>>
  <2>1. Here' = Here
    BY <1>1, <1>5 DEF Here
  <2>2. Typed' /\ Owned' /\ Informed'
    BY <1>1, <1>2, <1>5, <2>1
       DEF Typed, WindowsTypeOK, toplevels, Owned, Mine, Others, Informed
  <2>3. Phase'
    BY <1>1, <2>1 DEF Phase, Clean
  <2> QED
    BY <1>4, <2>2, <2>3
<1>6. CASE /\ Here.started
           /\ \E o \in Schedule(Here, loaded, telling.window) :
                bridge' = [bridge EXCEPT ![loaded] = o.s] /\ jobs' = o.jobs
  <2> DEFINE window == telling.window
             told == [Here EXCEPT !.latest = window]
             clear == (window = NoWindow)
             new == [told EXCEPT !.clears = clear,
                                 !.revision = @ + 1, !.job = Here.revision + 1]
             job == [bridge |-> loaded, generation |-> Here.generation,
                     revision |-> new.job]
             old == [bridge |-> loaded, generation |-> Here.generation,
                     revision |-> Here.job]
  <2>1. window \in Values /\ window = Label(activeWindow)
    BY <1>1, <1>6 DEF Typed, Informed
  <2>2. /\ told \in BridgeRec /\ told.latest = window /\ told.job = Here.job
        /\ told.revision = Here.revision /\ told.started = Here.started
        /\ told.cleanup = Here.cleanup /\ told.generation = Here.generation
        /\ told.listens = Here.listens /\ told.scopes = Here.scopes
        /\ told.original = Here.original /\ told.declared = Here.declared
    BY <1>3, <2>1 DEF BridgeRec
  <2>3. /\ new \in BridgeRec /\ new.latest = window /\ new.job = Here.revision + 1
        /\ new.revision = Here.revision + 1 /\ new.started = Here.started
        /\ new.cleanup = Here.cleanup /\ new.generation = Here.generation
        /\ new.listens = Here.listens /\ new.scopes = Here.scopes
        /\ new.original = Here.original /\ new.declared = Here.declared
    <3>1. clear \in BOOLEAN
      OBVIOUS
    <3>2. Here.revision \in Nat /\ Here.revision + 1 \in Nat
      BY <1>3 DEF BridgeRec
    <3> HIDE DEF told, window, clear
    <3> QED
      BY <2>2, <3>1, <3>2 DEF BridgeRec
  <2>4. PICK o \in Schedule(Here, loaded, window) : Change(o.s) /\ jobs' = o.jobs
    BY <1>6 DEF Change
  <2>5. \/ o = [s |-> told, jobs |-> jobs] /\ Here.job # 0
        \/ \E left \in SUBSET jobs : o = [s |-> new, jobs |-> left \cup {job}]
    <3>1. \/ o = [s |-> told, jobs |-> jobs] /\ Here.job # 0
          \/ \E left \in {jobs \ {old}, jobs} : o = [s |-> new, jobs |-> left \cup {job}]
      BY <2>4 DEF Schedule
    <3> QED
      BY <3>1
  <2> HIDE DEF told, new, window
  <2>6. job \in [bridge : Bridges, generation : Nat, revision : Nat]
    BY <1>3, <2>3 DEF BridgeRec
  <2>7. PICK s \in BridgeRec :
          /\ Change(s) /\ s.job <= s.revision /\ s.latest = window
          /\ s.job # 0 /\ s.started = Here.started
          /\ s.cleanup = Here.cleanup /\ s.generation = Here.generation
          /\ s.listens = Here.listens /\ s.scopes = Here.scopes
          /\ s.original = Here.original /\ s.declared = Here.declared
          /\ s.job = s.revision
          /\ [bridge |-> loaded, generation |-> Here.generation, revision |-> s.job] \in jobs'
          /\ jobs' \subseteq [bridge : Bridges, generation : Nat, revision : Nat]
    <3>1. CASE o = [s |-> told, jobs |-> jobs] /\ Here.job # 0
      <4>1. o.s = told /\ jobs' = jobs
        BY <2>4, <3>1
      <4>2. Here.job = Here.revision /\ old \in jobs
        BY <1>6, <3>1 DEF Informed
      <4> QED
        BY <1>3, <2>2, <2>4, <3>1, <4>1, <4>2 DEF Typed
    <3>2. CASE \E left \in SUBSET jobs : o = [s |-> new, jobs |-> left \cup {job}]
      <4> PICK left \in SUBSET jobs : o = [s |-> new, jobs |-> left \cup {job}]
        BY <3>2
      <4>1. o.s = new /\ jobs' = left \cup {job}
        BY <2>4
      <4>2. Here.revision \in Nat
        BY <1>3 DEF BridgeRec
      <4>3. new.job <= new.revision /\ new.job # 0
        BY <2>3, <4>2
      <4>4. jobs' \subseteq [bridge : Bridges, generation : Nat, revision : Nat]
        BY <2>6, <4>1 DEF Typed
      <4> QED
        BY <2>3, <2>4, <4>1, <4>3, <4>4
    <3> QED
      BY <2>5, <3>1, <3>2
  <2>8. /\ Here' = s /\ bridge' \in [Bridges -> BridgeRec]
        /\ \A b \in Bridges \ {loaded} : bridge'[b] = bridge[b]
        /\ \A b \in Bridges : bridge'[b].job <= bridge'[b].revision
    BY <1>1, <2>7, Changed
  <2>9. Typed'
    BY <1>1, <1>2, <2>7, <2>8 DEF Typed, WindowsTypeOK, toplevels
  <2>10. Owned'
    BY <1>1, <2>7, <2>8 DEF Owned, Mine, Others
  <2>11. Phase'
    BY <1>1, <1>6, <2>7, <2>8 DEF Phase
  <2>12. Informed'
    BY <1>1, <1>6, <2>1, <2>7, <2>8 DEF Informed, toplevels
  <2> QED
    BY <1>4, <2>9, <2>10, <2>11, <2>12
<1>7. ~Here.started \/ telling.generation # Here.generation => ~Here.started
  BY <1>1 DEF Informed
<1> QED
  BY <1>5, <1>6, <1>7 DEF Tell

-----------------------------------------------------------------------------
(* Cron's thread, Talon's registry and rivals. *)

(* The loaded bridge only can have something to do. *)
LEMMA StartedIsLoaded ==
  ASSUME BridgeInv, NEW b \in Bridges, bridge[b].started
  PROVE  b = loaded
BY DEF BridgeInv, Owned, Mine, Others

(* Cron takes the newest job into its hands, and drops any other. *)
LEMMA BridgeTake == ASSUME BridgeInv, NEW job \in jobs, Take(job) PROVE BridgeInv'
<1> USE DEF BridgeInv
<1>1. /\ main.at = "idle" /\ cron = None /\ jobs' = jobs \ {job}
      /\ UNCHANGED <<toplevels, loaded, hooked, talon, desktop, telling, main, missed>>
  BY DEF Take, Free
<1>2. /\ job \in [bridge : Bridges, generation : Nat, revision : Nat]
      /\ jobs' \subseteq [bridge : Bridges, generation : Nat, revision : Nat]
  BY <1>1 DEF Typed
<1>3. WindowInv'
  BY <1>1 DEF WindowInv, toplevels
<1> DEFINE due == /\ bridge[job.bridge].started
                  /\ job.generation = bridge[job.bridge].generation
                  /\ job.revision = bridge[job.bridge].revision
<1>4. CASE ~due
  <2>1. UNCHANGED <<cron, bridge>>
    BY <1>4 DEF Take
  <2>2. Here' = Here
    BY <1>1, <2>1 DEF Here
  <2>3. Here.started /\ Here.job # 0 =>
          [bridge |-> loaded, generation |-> Here.generation, revision |-> Here.job] # job
    BY <1>4 DEF Informed, Here
  <2>4. Typed' /\ Owned'
    BY <1>1, <1>2, <2>1, <2>2 DEF Typed, WindowsTypeOK, toplevels, Owned, Mine, Others
  <2>5. Phase'
    BY <1>1, <2>1, <2>2 DEF Phase, Clean
  <2>6. Settled' <=> Settled
    BY <1>1, <2>2 DEF Settled, Available, toplevels
  <2>7. Informed'
    BY <1>1, <2>1, <2>2, <2>3, <2>6 DEF Informed, Available, toplevels
  <2> QED
    BY <1>3, <2>4, <2>5, <2>7
<1>5. CASE due
  <2>1. job.bridge = loaded
    BY <1>2, <1>5, StartedIsLoaded
  <2>2. Here \in BridgeRec /\ loaded \in Bridges /\ Here.started
    BY <1>5, <2>1, TypedFacts DEF Here
  <2> DEFINE s == [Here EXCEPT !.job = 0, !.clears = FALSE]
  <2>3. /\ s \in BridgeRec /\ s.job = 0 /\ s.revision = Here.revision
        /\ s.latest = Here.latest /\ s.started = Here.started
        /\ s.cleanup = Here.cleanup /\ s.generation = Here.generation
        /\ s.listens = Here.listens /\ s.scopes = Here.scopes
        /\ s.original = Here.original /\ s.declared = Here.declared
    BY <2>2 DEF BridgeRec
  <2>4. /\ cron' = [bridge |-> loaded, window |-> Here.latest, available |-> Available]
        /\ bridge' = [bridge EXCEPT ![loaded].job = 0, ![loaded].clears = FALSE]
    BY <1>5, <2>1 DEF Take, Here
  <2>5. Change(s)
    BY <2>2, <2>4 DEF Change, Here, Typed
  <2>6. 0 <= Here.revision
    BY <2>2 DEF BridgeRec
  <2> HIDE DEF s
  <2>7. /\ Here' = s /\ bridge' \in [Bridges -> BridgeRec]
        /\ \A b \in Bridges \ {loaded} : bridge'[b] = bridge[b]
        /\ \A b \in Bridges : bridge'[b].job <= bridge'[b].revision
    BY <1>1, <2>3, <2>5, <2>6, Changed
  <2>8. Available \in BOOLEAN /\ Here.latest \in Values
    BY <2>2 DEF Available, BridgeRec, Typed, WindowsTypeOK
  <2>9. cron' \in [bridge : Bridges, window : Values, available : BOOLEAN]
    BY <2>2, <2>4, <2>8
  <2>10. Typed'
    BY <1>1, <1>2, <2>7, <2>9 DEF Typed, WindowsTypeOK, toplevels
  <2>11. Owned'
    BY <1>1, <2>3, <2>7 DEF Owned, Mine, Others
  <2>12. cron'.bridge = loaded /\ cron'.window = Here.latest /\ cron'.available = Available
    BY <2>4
  <2>13. Phase'
    BY <1>1, <2>2, <2>3, <2>7, <2>12 DEF Phase
  <2>14. activeWindow # NoWindow => Available
    BY NoContextNoWindow
  <2>15. Available' = Available
    BY <1>1 DEF Available, toplevels
  <2>16. cron' # None
    BY <2>9, BridgeAssumption DEF Values
  <2>17. Informed'
    BY <1>1, <2>2, <2>3, <2>7, <2>12, <2>14, <2>15, <2>16 DEF Informed, toplevels
  <2> QED
    BY <1>3, <2>10, <2>11, <2>13, <2>17
<1> QED
  BY <1>4, <1>5

(* The scopes of the bridge in force, and nothing else of it, become s. *)
Rescoped(s) == bridge' = [bridge EXCEPT ![loaded].scopes = s]

(* A change of the scopes alone leaves the rest of the bridge in force as it is. *)
LEMMA RescopedKeeps ==
  ASSUME Typed, Others, NEW s \in ScopesRec, Rescoped(s), loaded' = loaded
  PROVE  /\ bridge' \in [Bridges -> BridgeRec] /\ Others'
         /\ \A b \in Bridges : bridge'[b].job <= bridge'[b].revision
         /\ Here'.scopes = s /\ Here'.started = Here.started
         /\ Here'.cleanup = Here.cleanup /\ Here'.job = Here.job
         /\ Here'.listens = Here.listens /\ Here'.generation = Here.generation
         /\ Here'.latest = Here.latest /\ Here'.original = Here.original
         /\ Here'.declared = Here.declared /\ Here'.revision = Here.revision
<1> DEFINE r == [Here EXCEPT !.scopes = s]
<1>1. loaded \in Bridges /\ Here \in BridgeRec /\ Here.job <= Here.revision
  BY TypedFacts
<1>2. Change(r)
  BY <1>1 DEF Change, Rescoped, Here, Typed
<1>3. /\ r \in BridgeRec /\ r.scopes = s /\ r.started = Here.started
      /\ r.cleanup = Here.cleanup /\ r.job = Here.job
      /\ r.listens = Here.listens /\ r.generation = Here.generation
      /\ r.latest = Here.latest /\ r.original = Here.original
      /\ r.declared = Here.declared /\ r.revision = Here.revision
  BY <1>1 DEF BridgeRec
<1> HIDE DEF r
<1>4. /\ Here' = r /\ bridge' \in [Bridges -> BridgeRec]
      /\ \A b \in Bridges \ {loaded} : bridge'[b] = bridge[b]
      /\ \A b \in Bridges : bridge'[b].job <= bridge'[b].revision
  BY <1>1, <1>2, <1>3, Changed
<1> QED
  BY <1>3, <1>4, OthersKept

(* What cron has in its hands goes to the scopes, or they are given back. *)
LEMMA BridgePublish == ASSUME BridgeInv, Publish PROVE BridgeInv'
<1> USE DEF BridgeInv
<1>1. /\ cron # None /\ cron' = None
      /\ UNCHANGED <<toplevels, loaded, hooked, jobs, desktop, telling, main>>
  BY DEF Publish
<1>2. /\ main.at = "idle" /\ cron.bridge = loaded /\ Here.started
      /\ cron \in [bridge : Bridges, window : Values, available : BOOLEAN]
  BY <1>1 DEF Phase, Typed
<1>3. PICK available \in {cron.available, Available} :
        \E o \in Published(Here.scopes, talon, loaded, cron.window, available) :
          Rescoped(o.s) /\ talon' = o.t /\ missed' = o.raised
  BY <1>2 DEF Publish, Here, Rescoped
<1> PICK o \in Published(Here.scopes, talon, loaded, cron.window, available) :
        Rescoped(o.s) /\ talon' = o.t /\ missed' = o.raised
  BY <1>3
<1>4. Available \in BOOLEAN /\ available \in BOOLEAN /\ loaded \in Bridges
      /\ cron.window \in Values /\ Mine /\ Others
  BY <1>2, <1>3, TypedFacts DEF Owned, Available, Typed, WindowsTypeOK
<1>5. /\ Provides(o.s, o.t, loaded) /\ SameScopes(Here.scopes, talon, o)
      /\ o.s.window = cron.window
      /\ ~o.raised => IF available
                      THEN /\ Shows(o.s, o.t, loaded)
                           /\ Here.scopes.originals # None => o.s.installed
                      ELSE ~o.s.installed
  <2>1. Provides(Here.scopes, talon, loaded) /\ cron.window \in Values /\ loaded \in Bridges
    BY <1>4 DEF Mine
  <2>2. available \in BOOLEAN
    BY <1>4
  <2>3. o \in Published(Here.scopes, talon, loaded, cron.window, available)
    OBVIOUS
  <2> QED
    BY <2>1, <2>2, <2>3, PublishedKeeps
<1>6. /\ o.s \in ScopesRec /\ o.t \in TalonRec /\ o.raised \in BOOLEAN
      /\ o.s.originals = Here.scopes.originals
      /\ o.t.clip = talon.clip /\ o.t.decls = talon.decls
  BY <1>5 DEF Provides, SameScopes
<1>7. /\ bridge' \in [Bridges -> BridgeRec] /\ Others'
      /\ \A b \in Bridges : bridge'[b].job <= bridge'[b].revision
      /\ Here'.scopes = o.s /\ Here'.started = Here.started
      /\ Here'.cleanup = Here.cleanup /\ Here'.job = Here.job
      /\ Here'.listens = Here.listens /\ Here'.generation = Here.generation
      /\ Here'.latest = Here.latest /\ Here'.original = Here.original
      /\ Here'.declared = Here.declared /\ Here'.revision = Here.revision
  BY <1>1, <1>3, <1>4, <1>6, RescopedKeeps
<1>8. Typed'
  BY <1>1, <1>3, <1>6, <1>7 DEF Typed, WindowsTypeOK, toplevels
<1>9. WindowInv'
  BY <1>1 DEF WindowInv, toplevels
<1>10. Owned'
  <2>1. Mine'
    BY <1>1, <1>3, <1>4, <1>5, <1>6, <1>7 DEF Mine
  <2> QED
    BY <1>7, <2>1 DEF Owned
<1>11. Phase'
  BY <1>1, <1>2, <1>7 DEF Phase
<1>12. Informed'
  <2>1. activeWindow # NoWindow => Available
    BY NoContextNoWindow
  <2>2. ASSUME telling = Nothing, Here.job = 0, ~o.raised
        PROVE  \A slot \in Slots :
                 /\ o.t.func[slot] = loaded => o.t.shown[slot] = o.s.window /\ Available
                 /\ activeWindow # NoWindow => o.t.func[slot] \in {loaded, Other}
    <3>1. /\ cron.available => Available
          /\ activeWindow # NoWindow => cron.available
          /\ Here.scopes.originals # None
      BY <1>1, <1>2, <2>2 DEF Informed
    <3>2. CASE available
      <4>1. Available
        BY <1>3, <3>1, <3>2
      <4>2. Shows(o.s, o.t, loaded) /\ o.s.installed
        BY <1>5, <2>2, <3>1, <3>2
      <4> QED
        BY <1>5, <4>1, <4>2 DEF Shows, Provides
    <3>3. CASE ~available
      <4>1. activeWindow = NoWindow
        BY <1>3, <2>1, <3>1, <3>3
      <4>2. ~o.s.installed
        BY <1>5, <2>2, <3>3
      <4> QED
        BY <1>5, <4>1, <4>2 DEF Provides
    <3> QED
      BY <1>4, <3>2, <3>3
  <2>3. Available' = Available
    BY <1>1 DEF Available, toplevels
  <2>4. telling = Nothing /\ Here.job = 0 /\ ~missed' => Settled'
    BY <1>1, <1>3, <1>7, <2>2, <2>3 DEF Settled, toplevels
  <2>5. telling = Nothing /\ Here.job = 0 => Here'.scopes.window = Label(activeWindow)
    BY <1>1, <1>2, <1>5, <1>7 DEF Informed
  <2> QED
    BY <1>1, <1>2, <1>5, <1>6, <1>7, <2>4, <2>5 DEF Informed, toplevels
<1> QED
  BY <1>8, <1>9, <1>10, <1>11, <1>12

(* A declaration of a bridge's settings is on record with it. *)
LEMMA BridgeDeclare == ASSUME BridgeInv, NEW b \in Bridges, Declare(b) PROVE BridgeInv'
<1> USE DEF BridgeInv
<1>1. /\ b = loaded /\ main.at = "idle" /\ cron = None /\ Here.started
      /\ UNCHANGED <<toplevels, bridge, loaded, hooked, jobs, desktop, telling, main, cron>>
  BY DEF Declare, Owned, Mine, Others, Free, Here
<1>2. PICK o \in Refreshed(Here.scopes, talon, loaded) :
        talon' = o.t /\ missed' = (missed \/ o.raised)
  BY <1>1 DEF Declare, Here
<1>3. /\ Provides(o.s, o.t, loaded) /\ SameScopes(Here.scopes, talon, o) /\ o.s = Here.scopes
      /\ o.t.func = talon.func
      /\ Shows(Here.scopes, talon, loaded) => Shows(Here.scopes, o.t, loaded)
  BY <1>2, RefreshedKeeps, TypedFacts DEF Owned, Mine, Others
<1>4. o.t \in TalonRec /\ o.raised \in BOOLEAN /\ o.t.clip = talon.clip /\ o.t.decls = talon.decls
  BY <1>3 DEF Provides, SameScopes
<1>5. Here' = Here /\ Available' = Available
  BY <1>1 DEF Here, Available, toplevels
<1>6. Typed' /\ WindowInv'
  <2>1. missed' \in BOOLEAN
    BY <1>2
  <2> QED
    BY <1>1, <1>2, <1>4, <2>1 DEF Typed, WindowsTypeOK, WindowInv, toplevels
<1>7. Owned'
  BY <1>1, <1>2, <1>3, <1>4, <1>5 DEF Owned, Mine, Others
<1>8. Phase'
  BY <1>1, <1>5 DEF Phase
<1>9. Settled => Settled'
  BY <1>1, <1>2, <1>3, <1>5 DEF Settled, Shows, toplevels
<1>10. Informed'
  BY <1>1, <1>2, <1>5, <1>9 DEF Informed, toplevels
<1> QED
  BY <1>6, <1>7, <1>8, <1>10

(* A rival that replaces a provider is noticed when that is next needed. *)
LEMMA BridgeReplace == ASSUME BridgeInv, Replace PROVE BridgeInv'
<1> USE DEF BridgeInv
<1>1. UNCHANGED <<toplevels, bridge, loaded, hooked, jobs, desktop, telling, main, cron, missed>>
  BY DEF Replace
<1>2. talon \in TalonRec /\ loaded \in Bridges /\ Other \in Owners /\ Other # loaded
      /\ Other \in Foreign
  BY TypedFacts, BridgeAssumption DEF Owners, Foreign
<1>3. /\ talon' \in TalonRec /\ talon'.decls = talon.decls
      /\ talon'.clip \in {talon.clip, Other}
      /\ \A slot \in Slots : \/ /\ talon'.func[slot] = talon.func[slot]
                                /\ talon'.shown[slot] = talon.shown[slot]
                             \/ talon'.func[slot] = Other /\ talon'.shown[slot] = Other
  <2>1. CASE talon' = [talon EXCEPT !.clip = Other]
    BY <1>2, <2>1 DEF TalonRec
  <2>2. CASE \E slot \in Slots : talon' = [talon EXCEPT !.func[slot] = Other,
                                                       !.shown[slot] = Other]
    <3>1. PICK slot \in Slots : talon' = [talon EXCEPT !.func[slot] = Other,
                                                     !.shown[slot] = Other]
      BY <2>2
    <3> DEFINE f == [talon.func EXCEPT ![slot] = Other]
               g == [talon.shown EXCEPT ![slot] = Other]
    <3>2. talon' = [talon EXCEPT !.func = f, !.shown = g]
      BY <1>2, <3>1 DEF TalonRec
    <3>3. /\ f \in [Slots -> Owners] /\ g \in [Slots -> Owners \cup Values]
          /\ \A x \in Slots : (f[x] = talon.func[x] /\ g[x] = talon.shown[x])
                              \/ (f[x] = Other /\ g[x] = Other)
      BY <1>2 DEF TalonRec
    <3> HIDE DEF f, g
    <3>4. /\ talon' \in TalonRec /\ talon'.decls = talon.decls /\ talon'.clip = talon.clip
          /\ talon'.func = f /\ talon'.shown = g
      BY <1>2, <3>2, <3>3 DEF TalonRec
    <3> QED
      BY <3>3, <3>4
  <2> QED
    BY <2>1, <2>2 DEF Replace
<1>4. Here' = Here /\ Available' = Available
  BY <1>1 DEF Here, Available, toplevels
<1>5. Typed' /\ WindowInv'
  BY <1>1, <1>3 DEF Typed, WindowsTypeOK, WindowInv, toplevels
<1>6. Provides(Here.scopes, talon', loaded)
  <2>1. Provides(Here.scopes, talon, loaded)
    BY DEF Owned, Mine, Others
  <2>2. talon'.func \in [Slots -> Foreign \cup {loaded}]
    <3>1. \A slot \in Slots : talon'.func[slot] \in Foreign \cup {loaded}
      BY <1>2, <1>3, <2>1 DEF Provides
    <3> QED
      BY <1>3, <3>1 DEF TalonRec
  <2> QED
    BY <1>2, <1>3, <2>1, <2>2 DEF Provides
<1>7. Owned'
  BY <1>1, <1>2, <1>3, <1>4, <1>6 DEF Owned, Mine, Others
<1>8. Phase'
  BY <1>1, <1>2, <1>3, <1>4 DEF Phase, Clean
<1>9. Settled => Settled'
  BY <1>1, <1>2, <1>3, <1>4 DEF Settled, toplevels
<1>10. Informed'
  BY <1>1, <1>4, <1>9 DEF Informed, toplevels
<1> QED
  BY <1>5, <1>7, <1>8, <1>10

-----------------------------------------------------------------------------
(* Scripts. *)

(* Tokens have no part in BridgeInv. *)
LEMMA OnlyTokens ==
  ASSUME BridgeInv, NEW b \in Bridges, NEW t \in SUBSET (Nat \X Presses),
         bridge' = [bridge EXCEPT ![b].tokens = t],
         UNCHANGED <<toplevels, loaded, hooked, talon, jobs, desktop, telling, main, cron,
                     missed>>
  PROVE  BridgeInv'
<1> USE DEF BridgeInv
<1> DEFINE s == [bridge[b] EXCEPT !.tokens = t]
<1>1. bridge \in [Bridges -> BridgeRec] /\ loaded \in Bridges
  BY DEF Typed
<1>2. bridge' = [bridge EXCEPT ![b] = s]
  BY <1>1
<1>3. /\ s \in BridgeRec /\ s.job = bridge[b].job /\ s.revision = bridge[b].revision
      /\ s.latest = bridge[b].latest /\ s.started = bridge[b].started
      /\ s.cleanup = bridge[b].cleanup /\ s.generation = bridge[b].generation
      /\ s.listens = bridge[b].listens /\ s.scopes = bridge[b].scopes
      /\ s.original = bridge[b].original /\ s.declared = bridge[b].declared
  BY <1>1 DEF BridgeRec
<1> HIDE DEF s
<1>4. /\ bridge' \in [Bridges -> BridgeRec]
      /\ \A c \in Bridges :
           /\ bridge'[c].job = bridge[c].job /\ bridge'[c].revision = bridge[c].revision
           /\ bridge'[c].latest = bridge[c].latest /\ bridge'[c].started = bridge[c].started
           /\ bridge'[c].cleanup = bridge[c].cleanup
           /\ bridge'[c].generation = bridge[c].generation
           /\ bridge'[c].listens = bridge[c].listens /\ bridge'[c].scopes = bridge[c].scopes
           /\ bridge'[c].original = bridge[c].original
           /\ bridge'[c].declared = bridge[c].declared
  BY <1>1, <1>2, <1>3
<1>5. Typed' /\ WindowInv'
  BY <1>4 DEF Typed, WindowsTypeOK, WindowInv, toplevels
<1>6. Owned'
  BY <1>1, <1>4 DEF Owned, Mine, Others, Here
<1>7. Phase'
  BY <1>1, <1>4 DEF Phase, Clean, Here
<1>8. Settled <=> Settled'
  BY <1>1, <1>4 DEF Settled, Available, toplevels, Here
<1>9. Informed'
  BY <1>1, <1>4, <1>8 DEF Informed, Available, toplevels, Here
<1> QED
  BY <1>5, <1>6, <1>7, <1>9

(* So presses and their ends keep it. *)
LEMMA BridgeScripts ==
  ASSUME BridgeInv, HoldInv, BeginPress \/ BeginRecord \/ \E token : End(token)
  PROVE  BridgeInv'
<1>1. loaded \in Bridges /\ \A b \in Bridges : bridge[b].tokens \in SUBSET (Nat \X Presses)
  BY DEF BridgeInv, Typed, BridgeRec
<1>2. CASE BeginPress
  <2>1. UNCHANGED <<toplevels, bridge, loaded, hooked, talon, jobs, desktop, telling, main,
                    cron, missed>>
    BY <1>2 DEF BeginPress
  <2> QED
    BY <2>1
       DEF BridgeInv, Typed, WindowsTypeOK, WindowInv, Owned, Mine, Others, Phase, Clean,
           Settled,
                Informed, Here, Available, toplevels
<1>3. CASE BeginRecord
  <2> DEFINE b == script.bridge
             t == bridge[b].tokens \cup {<<nextToken, script.press>>}
  <2>1. b \in Bridges /\ script.press \in Presses /\ nextToken \in Nat
    BY <1>3 DEF BeginRecord, HoldInv, Numbers
  <2>2. /\ bridge' = [bridge EXCEPT ![b].tokens = t]
        /\ UNCHANGED <<toplevels, loaded, hooked, talon, jobs, desktop, telling, main, cron,
                       missed>>
    BY <1>3, <2>1 DEF BeginRecord, Recorded, BridgeInv, Typed
  <2>3. t \in SUBSET (Nat \X Presses)
    BY <1>1, <2>1
  <2> HIDE DEF b, t
  <2> QED
    BY <2>1, <2>2, <2>3, OnlyTokens
<1>4. CASE \E token : End(token)
  <2>1. PICK token : End(token)
    BY <1>4
  <2> DEFINE t == Here.tokens \ {x \in Here.tokens : x[1] = token}
  <2>2. /\ bridge' = [bridge EXCEPT ![loaded].tokens = t]
        /\ UNCHANGED <<toplevels, loaded, hooked, talon, jobs, desktop, telling, main, cron,
                       missed>>
    BY <1>1, <2>1 DEF End, Here, BridgeInv, Typed
  <2>3. t \in SUBSET (Nat \X Presses)
    BY <1>1 DEF Here
  <2> HIDE DEF t
  <2> QED
    BY <1>1, <2>2, <2>3, OnlyTokens
<1> QED
  BY <1>2, <1>3, <1>4

-----------------------------------------------------------------------------
(* The main thread: stop(). *)

(* The places of the main thread have their types. *)
LEMMA IdleIsMain ==
  ASSUME NEW at \in Places, NEW then \in {"return", "start", "load"}
  PROVE  /\ Idle \in Mains /\ Idle.at = "idle"
         /\ [Idle EXCEPT !.at = at] \in Mains /\ [Idle EXCEPT !.at = at].at = at
         /\ [Idle EXCEPT !.at = at, !.then = then] \in Mains
         /\ [Idle EXCEPT !.at = at, !.then = then].at = at
BY DEF Idle, Mains, Places

(* Ready, quit and a reload begin a sequence, for the bridge in force. *)
LEMMA BridgeEnters == ASSUME BridgeInv, OnReady \/ OnQuit \/ Reload PROVE BridgeInv'
<1> USE DEF BridgeInv
<1>1. /\ main.at = "idle" /\ cron = None
      /\ UNCHANGED <<toplevels, bridge, loaded, talon, jobs, desktop, telling, cron, missed>>
      /\ hooked' \in BOOLEAN
  BY DEF OnReady, OnQuit, Reload, Enter, Free, Typed
<1>2. Here' = Here
  BY <1>1 DEF Here
<1>3. main' \in Mains /\ (main'.at = "retire" \/ (main'.at = "begin" /\ ~Here.started
                                                               /\ ~Here.cleanup))
  <2>1. PICK at \in Places, then \in {"return", "start", "load"} :
          /\ main' = [Idle EXCEPT !.at = at, !.then = then]
          /\ at = "retire" \/ (at = "begin" /\ ~Here.started /\ ~Here.cleanup)
    BY DEF OnReady, OnQuit, Reload, Enter, Places
  <2> QED
    BY <2>1, IdleIsMain
<1>4. Typed' /\ WindowInv' /\ Owned'
  BY <1>1, <1>2, <1>3
     DEF Typed, WindowsTypeOK, WindowInv, Owned, Mine, Others, toplevels, Mains
<1>5. Phase'
  BY <1>1, <1>2, <1>3 DEF Phase, Clean
<1>6. Settled <=> Settled'
  BY <1>1, <1>2 DEF Settled, Available, toplevels
<1>7. Informed'
  BY <1>1, <1>2, <1>6 DEF Informed, Available, toplevels
<1> QED
  BY <1>4, <1>5, <1>7

(* stop() begins: from here the bridge is not started, and no job of it is valid. *)
LEMMA BridgeRetires == ASSUME BridgeInv, StopRetires PROVE BridgeInv'
<1> USE DEF BridgeInv
<1>1. /\ main.at = "retire" /\ Change(Retire(Here))
      /\ main' = [main EXCEPT !.at = "release", !.tokens = Here.tokens]
      /\ UNCHANGED <<toplevels, loaded, hooked, talon, jobs, desktop, telling, cron, missed>>
  BY DEF StopRetires
<1>2. Here \in BridgeRec /\ loaded \in Bridges /\ Here.job <= Here.revision
  BY TypedFacts
<1> DEFINE s == Retire(Here)
           sc == [Here.scopes EXCEPT !.window = NoWindow]
<1>3. /\ sc \in ScopesRec /\ Here.scopes \in ScopesRec
      /\ Here.generation \in Nat /\ Here.revision \in Nat /\ Here.job \in Nat
      /\ NoWindow \in Values
  BY <1>2 DEF BridgeRec, ScopesRec, Values
<1>4. s = [Here EXCEPT !.started = FALSE, !.generation = @ + 1, !.revision = @ + 1,
                       !.latest = NoWindow, !.scopes = sc]
  BY <1>2 DEF Retire, BridgeRec
<1>5. /\ s \in BridgeRec /\ s.job = Here.job /\ s.revision = Here.revision + 1
      /\ s.started = FALSE /\ s.cleanup = Here.cleanup /\ s.listens = Here.listens
      /\ s.scopes = sc /\ s.original = Here.original /\ s.declared = Here.declared
  <2> DEFINE g == Here.generation + 1
             r == Here.revision + 1
  <2>1. g \in Nat /\ r \in Nat
    BY <1>3
  <2>2. s = [Here EXCEPT !.started = FALSE, !.generation = g, !.revision = r,
                         !.latest = NoWindow, !.scopes = sc]
    BY <1>4
  <2> HIDE DEF s, sc, g
  <2>3. r = Here.revision + 1
    OBVIOUS
  <2> HIDE DEF r
  <2> QED
    BY <1>2, <1>3, <2>1, <2>2, <2>3 DEF BridgeRec
<1>6. s.job <= s.revision
  BY <1>2, <1>3, <1>5
<1>7. Provides(sc, talon, loaded)
  BY <1>3, AnyWindow DEF Owned, Mine, Others
<1> HIDE DEF s, sc
<1>8. /\ Here' = s /\ bridge' \in [Bridges -> BridgeRec]
      /\ \A b \in Bridges \ {loaded} : bridge'[b] = bridge[b]
      /\ \A b \in Bridges : bridge'[b].job <= bridge'[b].revision
  BY <1>1, <1>5, <1>6, Changed DEF s
<1>9. main' \in Mains /\ main'.at = "release"
  BY <1>1, <1>2 DEF Typed, Mains, BridgeRec, Places
<1>10. Typed' /\ WindowInv'
  BY <1>1, <1>8, <1>9 DEF Typed, WindowsTypeOK, WindowInv, toplevels, Mains
<1>11. Owned'
  BY <1>1, <1>5, <1>7, <1>8 DEF Owned, Mine, Others
<1>12. Phase' /\ Informed'
  BY <1>1, <1>5, <1>8, <1>9 DEF Phase, Informed
<1> QED
  BY <1>10, <1>11, <1>12

(* Job, declaration, listener and clipboard backend are given up, unless a call
   raises; then stop() fails. *)
LEMMA BridgeReleases == ASSUME BridgeInv, StopReleases PROVE BridgeInv'
<1> USE DEF BridgeInv
<1>1. PICK job \in BOOLEAN, decl \in BOOLEAN, kept \in SUBSET main.tokens :
        /\ decl => Here.declared
        /\ Change([Here EXCEPT !.job = IF job THEN @ ELSE 0,
                               !.clears = job /\ @,
                               !.declared = decl, !.listens = 0,
                               !.tokens = @ \ (main.tokens \ kept), !.original = None])
        /\ jobs' \subseteq jobs
        /\ talon' = [ClipRestored(Here.original, talon, loaded) EXCEPT
                        !.decls = IF Here.declared /\ ~decl THEN @ \ {loaded} ELSE @]
        /\ main' = [main EXCEPT !.at = "join", !.failed = job \/ decl \/ kept # {}]
  BY DEF StopReleases
<1>2. /\ main.at = "release" /\ ~Here.started
      /\ UNCHANGED <<toplevels, loaded, hooked, desktop, telling, cron, missed>>
  BY DEF StopReleases, Phase
<1>3. Here \in BridgeRec /\ loaded \in Bridges /\ Here.job <= Here.revision /\ talon \in TalonRec
  BY TypedFacts
<1> DEFINE j == IF job THEN Here.job ELSE 0
           c == (job /\ Here.clears)
           t == Here.tokens \ (main.tokens \ kept)
           s == [Here EXCEPT !.job = j, !.clears = c, !.declared = decl, !.listens = 0,
                             !.tokens = t, !.original = None]
<1>4. Change(s)
  BY <1>1
<1>5. j \in Nat /\ j <= Here.revision /\ c \in BOOLEAN /\ t \in SUBSET (Nat \X Presses)
  BY <1>3 DEF BridgeRec
<1>6. ~job => j = 0
  OBVIOUS
<1> HIDE DEF j, c, t
<1>7. /\ s \in BridgeRec /\ s.job = j /\ s.revision = Here.revision
      /\ s.started = Here.started /\ s.cleanup = Here.cleanup /\ s.listens = 0
      /\ s.scopes = Here.scopes /\ s.declared = decl
  BY <1>3, <1>5 DEF BridgeRec
<1> HIDE DEF s
<1>8. /\ Here' = s /\ bridge' \in [Bridges -> BridgeRec]
      /\ \A b \in Bridges \ {loaded} : bridge'[b] = bridge[b]
      /\ \A b \in Bridges : bridge'[b].job <= bridge'[b].revision
  BY <1>2, <1>4, <1>5, <1>7, Changed
<1>9. /\ talon' \in TalonRec /\ talon'.func = talon.func /\ talon'.shown = talon.shown
      /\ talon'.clip \in Foreign /\ talon'.clip # loaded
      /\ talon'.decls = IF Here.declared /\ ~decl THEN talon.decls \ {loaded}
                        ELSE talon.decls
  <2> DEFINE r == ClipRestored(Here.original, talon, loaded)
  <2>1. /\ r \in TalonRec /\ r.func = talon.func /\ r.shown = talon.shown
        /\ r.clip \in Foreign /\ r.decls = talon.decls
    BY <1>3 DEF Owned, Mine, Others, ClipRestored, TalonRec, Foreign, Owners
  <2>2. talon' = [r EXCEPT !.decls = IF Here.declared /\ ~decl THEN @ \ {loaded} ELSE @]
    BY <1>1
  <2> HIDE DEF r
  <2>3. talon'.clip # loaded
    BY <1>3, <2>1, <2>2, BridgeAssumption DEF Foreign, TalonRec
  <2> QED
    BY <2>1, <2>2, <2>3 DEF TalonRec
<1>10. /\ main' \in Mains /\ main'.at = "join" /\ (main'.failed <=> job \/ decl \/ kept # {})
  BY <1>1 DEF Typed, Mains, Places
<1>11. jobs' \subseteq [bridge : Bridges, generation : Nat, revision : Nat]
  BY <1>1 DEF Typed
<1>12. Typed' /\ WindowInv'
  BY <1>2, <1>8, <1>9, <1>10, <1>11 DEF Typed, WindowsTypeOK, WindowInv, toplevels, Mains
<1>13. Provides(Here'.scopes, talon', loaded')
  BY <1>2, <1>7, <1>8, <1>9 DEF Owned, Mine, Others, Provides
<1>14. /\ talon'.decls \subseteq {loaded} /\ (loaded \in talon'.decls => decl)
       /\ (~decl => talon'.decls = {})
  BY <1>9 DEF Owned, Mine, Others
<1>15. Owned'
  BY <1>2, <1>7, <1>8, <1>9, <1>13, <1>14 DEF Owned, Mine, Others
<1>16. Phase' /\ Informed'
  BY <1>2, <1>6, <1>7, <1>8, <1>9, <1>10, <1>14 DEF Phase, Informed
<1> QED
  BY <1>12, <1>15, <1>16

(* The join ends all windows; if it fails, so does stop(). *)
LEMMA BridgeJoins == ASSUME BridgeInv, StopJoins PROVE BridgeInv'
<1> USE DEF BridgeInv
<1>1. /\ main.at = "join" /\ ~Here.started
      /\ UNCHANGED <<loaded, hooked, talon, jobs, telling, cron, missed>>
  BY DEF StopJoins, Phase
<1>2. main \in Mains
  BY DEF Typed, Mains
<1>3. /\ main' \in Mains /\ main'.at = "restore"
      /\ main.failed => main'.failed
      /\ ~main'.failed => telling = Nothing /\ desktop' = FALSE
      /\ desktop' \in BOOLEAN
      /\ \/ WindowsGone
         \/ UNCHANGED <<toplevels, desktop>>
      /\ UNCHANGED bridge \/ Change([Here EXCEPT !.tokens = {}])
  <2>1. \/ main' = [main EXCEPT !.at = "restore"] /\ telling = Nothing
           /\ desktop' = FALSE /\ WindowsGone /\ Change([Here EXCEPT !.tokens = {}])
        \/ main' = [main EXCEPT !.at = "restore", !.failed = TRUE]
           /\ desktop' = FALSE /\ WindowsGone /\ UNCHANGED bridge
        \/ main' = [main EXCEPT !.at = "restore", !.failed = TRUE]
           /\ UNCHANGED <<toplevels, desktop, bridge>>
    BY DEF StopJoins
  <2> QED
    BY <1>2, <2>1 DEF Mains, Places, Typed
<1>4. WindowsTypeOK' /\ WindowInv'
  <2>1. CASE WindowsGone
    BY <2>1, GoneKeeps
  <2>2. CASE UNCHANGED <<toplevels, desktop>>
    BY <2>2 DEF WindowsTypeOK, WindowInv, Typed, toplevels
  <2> QED
    BY <1>3, <2>1, <2>2
<1>5. /\ bridge' \in [Bridges -> BridgeRec]
      /\ \A b \in Bridges \ {loaded} : bridge'[b] = bridge[b]
      /\ \A b \in Bridges : bridge'[b].job <= bridge'[b].revision
      /\ Here'.started = Here.started /\ Here'.cleanup = Here.cleanup
      /\ Here'.listens = Here.listens /\ Here'.scopes = Here.scopes
      /\ Here'.job = Here.job /\ Here'.original = Here.original
      /\ Here'.declared = Here.declared
  <2>1. CASE UNCHANGED bridge
    BY <1>1, <2>1 DEF Typed, Here
  <2>2. CASE Change([Here EXCEPT !.tokens = {}])
    <3> DEFINE s == [Here EXCEPT !.tokens = {}]
    <3>1. Here \in BridgeRec /\ Here.job <= Here.revision
      BY TypedFacts
    <3>2. /\ s \in BridgeRec /\ s.started = Here.started /\ s.cleanup = Here.cleanup
          /\ s.listens = Here.listens /\ s.scopes = Here.scopes
          /\ s.job = Here.job /\ s.original = Here.original /\ s.declared = Here.declared
          /\ s.revision = Here.revision
      BY <3>1 DEF BridgeRec
    <3> HIDE DEF s
    <3>3. Change(s)
      BY <2>2 DEF s
    <3> QED
      BY <1>1, <3>1, <3>2, <3>3, Changed
  <2> QED
    BY <1>3, <2>1, <2>2
<1>6. Typed'
  BY <1>1, <1>3, <1>4, <1>5 DEF Typed, Mains
<1>7. Owned'
  BY <1>1, <1>5 DEF Owned, Mine, Others
<1>8. Phase' /\ Informed'
  BY <1>1, <1>3, <1>5 DEF Phase, Informed
<1> QED
  BY <1>4, <1>6, <1>7, <1>8

(* Stopped for good, it has given everything back: the next bridge can take over. *)
LEMMA BridgeRestores == ASSUME BridgeInv, HoldInv, StopRestores PROVE BridgeInv'
<1> USE DEF BridgeInv
<1>1. PICK o \in Restored(Here.scopes, talon, loaded) :
        LET failed == main.failed \/ o.raised
        IN  /\ Change([Here EXCEPT !.scopes = o.s, !.cleanup = failed])
            /\ talon' = [o.t EXCEPT !.stray = @ /\ (main.then # "load" \/ failed)]
            /\ main' = IF main.then = "start" /\ ~failed
                       THEN [Idle EXCEPT !.at = "begin"] ELSE Idle
            /\ IF main.then = "load" /\ ~failed
               THEN loaded' = loaded + 1 /\ hooked' = TRUE
               ELSE loaded' = loaded /\ hooked' = hooked
  BY DEF StopRestores
<1>2. /\ main.at = "restore" /\ ~Here.started /\ cron = None /\ missed' = FALSE
      /\ UNCHANGED <<toplevels, jobs, desktop, telling, cron>>
  BY DEF StopRestores, Phase
<1>3. Here \in BridgeRec /\ loaded \in Bridges /\ Here.job <= Here.revision
  BY TypedFacts
<1>4. Mine /\ Others
  BY DEF Owned
<1>5. /\ Provides(o.s, o.t, loaded) /\ SameScopes(Here.scopes, talon, o)
      /\ ~o.s.installed /\ (~o.raised => o.s.pending = {})
  BY <1>1, <1>3, <1>4, RestoredKeeps DEF Mine
<1> DEFINE failed == (main.failed \/ o.raised)
           s == [Here EXCEPT !.scopes = o.s, !.cleanup = failed]
<1>6. /\ o.s \in ScopesRec /\ o.t \in TalonRec /\ failed \in BOOLEAN
      /\ o.t.clip = talon.clip /\ o.t.decls = talon.decls
      /\ (~failed => ~main.failed /\ o.s.pending = {})
  BY <1>5 DEF Provides, SameScopes
<1>7. /\ Change(s) /\ talon' = [o.t EXCEPT !.stray = talon'.stray]
      /\ talon'.stray \in BOOLEAN
      /\ main' = IF main.then = "start" /\ ~failed THEN [Idle EXCEPT !.at = "begin"] ELSE Idle
      /\ IF main.then = "load" /\ ~failed THEN loaded' = loaded + 1 /\ hooked' = TRUE
         ELSE UNCHANGED <<loaded, hooked>>
  <2> DEFINE left == (o.t.stray /\ (main.then # "load" \/ failed))
  <2>1. talon' = [o.t EXCEPT !.stray = left] /\ left \in BOOLEAN
    BY <1>1, <1>6 DEF TalonRec
  <2> HIDE DEF left
  <2>2. talon'.stray = left
    BY <1>6, <2>1 DEF TalonRec
  <2> QED
    BY <1>1, <2>1, <2>2
<1>8. /\ talon' \in TalonRec /\ talon'.func = o.t.func /\ talon'.shown = o.t.shown
      /\ talon'.clip = talon.clip /\ talon'.decls = talon.decls
  BY <1>6, <1>7 DEF TalonRec
<1>9. Provides(o.s, talon', loaded)
  BY <1>5, <1>8 DEF Provides
<1> HIDE DEF failed
<1>10. /\ s \in BridgeRec /\ s.started = FALSE /\ s.cleanup = failed
       /\ s.listens = Here.listens /\ s.scopes = o.s /\ s.job = Here.job
       /\ s.original = Here.original /\ s.declared = Here.declared
       /\ s.revision = Here.revision
  BY <1>2, <1>3, <1>6 DEF BridgeRec
<1> HIDE DEF s
<1>11. /\ bridge' = [bridge EXCEPT ![loaded] = s] /\ bridge' \in [Bridges -> BridgeRec]
       /\ bridge'[loaded] = s
       /\ \A b \in Bridges \ {loaded} : bridge'[b] = bridge[b]
       /\ \A b \in Bridges : bridge'[b].job <= bridge'[b].revision
  BY <1>3, <1>7, <1>10 DEF Change, Typed
<1>12. /\ main' \in Mains /\ main'.at \in {"idle", "begin"}
       /\ main'.at = "begin" => ~failed /\ loaded' = loaded
  <2>1. "begin" \in Places /\ "return" \in {"return", "start", "load"}
    BY DEF Places
  <2> QED
    BY <1>7, <2>1, IdleIsMain
<1>13. /\ talon.clip # loaded /\ Here.listens = 0
       /\ ~failed => /\ Here.job = 0 /\ talon.decls = {} /\ ~desktop /\ telling = Nothing
  BY <1>2, <1>6 DEF Phase
<1>14. loaded' \in Bridges /\ hooked' \in BOOLEAN
  BY <1>7, <1>3 DEF HoldInv, Reloading, Typed
<1>15. Typed' /\ WindowInv'
  <2>1. WindowsTypeOK' /\ WindowInv'
    BY <1>2 DEF Typed, WindowsTypeOK, WindowInv, toplevels
  <2>2. main' \in Mains /\ talon' \in TalonRec
    BY <1>8, <1>12
  <2> QED
    BY <1>2, <1>11, <1>14, <2>1, <2>2 DEF Typed, Mains
<1>16. CASE loaded' = loaded
  <2>1. Here' = s
    BY <1>11, <1>16 DEF Here
  <2>2. Mine'
    BY <1>4, <1>10, <1>16, <1>8, <1>9, <2>1 DEF Mine
  <2>3. Others'
    BY <1>4, <1>11, <1>16, OthersKept
  <2>4. Owned'
    BY <2>2, <2>3 DEF Owned, Mine, Others
  <2>5. ~failed => Clean'
    BY <1>2, <1>5, <1>6, <1>7, <1>10, <1>13, <1>16, <1>8, <2>1 DEF Clean
  <2>6. Phase'
    BY <1>2, <1>10, <1>12, <1>8, <2>1, <2>5 DEF Phase
  <2>7. Informed'
    BY <1>10, <2>1 DEF Informed
  <2> QED
    BY <1>15, <2>4, <2>6, <2>7
<1>17. CASE loaded' # loaded
  <2>1. ~failed /\ loaded' \in Bridges \ {loaded} /\ main' = Idle
    BY <1>7, <1>14, <1>17
  <2> DEFINE next == bridge[loaded']
  <2>2. /\ Here' = next
        /\ ~next.started /\ ~next.cleanup /\ next.job = 0 /\ next.listens = 0
        /\ ~next.scopes.installed /\ next.scopes.pending = {}
    BY <1>4, <1>11, <2>1 DEF Here, Others
  <2>3. next.scopes \in ScopesRec
    BY <2>1 DEF Typed, BridgeRec
  <2>4. /\ o.t.func \in [Slots -> Foreign] /\ \A slot \in Slots : o.t.shown[slot] \in Owners
    BY <1>5, <1>6, <2>1, NothingInstalled
  <2>5. talon'.func \in [Slots -> Foreign] /\ \A slot \in Slots : talon'.shown[slot] \in Owners
    BY <1>8, <2>4
  <2>6. loaded' \notin Foreign
    BY <2>1, BridgeAssumption DEF Foreign
  <2> HIDE DEF next
  <2>7. Provides(next.scopes, talon', loaded')
    BY <1>8, <2>2, <2>3, <2>6, <2>5 DEF Provides
  <2>8. talon'.clip \in Foreign /\ talon'.decls = {}
    BY <1>4, <1>13, <1>8, <2>1 DEF Mine
  <2>9. Mine'
    BY <1>7, <2>2, <2>6, <2>7, <2>8 DEF Mine
  <2>10. Others'
    BY <1>4, <1>5, <1>6, <1>10, <1>11, <1>13, <2>1 DEF Others
  <2>11. Owned'
    BY <2>9, <2>10 DEF Owned, Mine, Others
  <2>12. Clean'
    BY <1>2, <1>7, <1>13, <2>1, <2>2, <2>6, <2>8 DEF Clean
  <2>13. Phase' /\ Informed'
    BY <1>2, <2>1, <2>2, <2>12 DEF Phase, Informed, Idle
  <2> QED
    BY <1>15, <2>11, <2>13
<1> QED
  BY <1>16, <1>17

-----------------------------------------------------------------------------
(* The main thread: start(). *)

(* The next step of the main thread has its type. *)
LEMMA GotoIsMain ==
  ASSUME Typed, NEW at \in Places, Goto(at)
  PROVE  main' \in Mains /\ main'.at = at
BY DEF Typed, Goto, Mains

(* So has the way back after a failed start. *)
LEMMA RollbackIsMain == ASSUME Rollback PROVE main' \in Mains /\ main'.at = "retire"
BY IdleIsMain DEF Rollback, Places

(* start() begins with nothing of ours in Talon, and goes on or rolls back. *)
LEMMA BridgeBegins == ASSUME BridgeInv, StartBegins PROVE BridgeInv'
<1> USE DEF BridgeInv
<1>1. /\ main.at = "begin" /\ cron = None
      /\ UNCHANGED <<toplevels, loaded, hooked, talon, jobs, desktop, telling, cron, missed>>
  BY DEF StartBegins, Phase
<1>2. Clean /\ ~Here.started
  BY <1>1 DEF Phase
<1>3. Here \in BridgeRec /\ loaded \in Bridges /\ talon \in TalonRec
  BY TypedFacts
<1>4. talon.func \in [Slots -> Foreign] /\ \A slot \in Slots : talon.func[slot] # loaded
  BY <1>2, NothingInstalled DEF Owned, Mine, Others, Clean
<1> DEFINE g == Here.generation + 1
           off == [Here.scopes EXCEPT !.window = NoWindow]
           r == [Here EXCEPT !.started = TRUE, !.generation = g, !.latest = NoWindow]
<1>5. /\ Here.generation \in Nat /\ g \in Nat /\ g # 0 /\ NoWindow \in Values
      /\ Here.scopes \in ScopesRec /\ Here.revision \in Nat /\ Here.job = 0
  BY <1>2, <1>3 DEF BridgeRec, Values, Clean
<1>6. talon.func # None
  BY <1>4, BridgeAssumption DEF Foreign
<1>7. /\ r \in BridgeRec /\ r.started = TRUE /\ r.generation = g /\ r.latest = NoWindow
      /\ r.cleanup = Here.cleanup /\ r.job = 0 /\ r.revision = Here.revision
      /\ r.original = Here.original /\ r.declared = Here.declared
      /\ r.scopes = Here.scopes
  <2> HIDE DEF g
  <2> QED
    BY <1>3, <1>5 DEF BridgeRec
<1>8. PICK sc : /\ Change([r EXCEPT !.listens = g, !.scopes = sc])
                /\ \/ sc = Initialized(off, talon) /\ Goto("connect")
                   \/ sc = off /\ Rollback
  <2> DEFINE listening == [r EXCEPT !.listens = r.generation, !.scopes.window = NoWindow]
  <2>1. \/ Change([listening EXCEPT !.scopes = Initialized(@, talon)]) /\ Goto("connect")
        \/ Change(listening) /\ Rollback
    BY DEF StartBegins
  <2> HIDE DEF r, g
  <2>2. /\ listening = [r EXCEPT !.listens = g, !.scopes = off]
        /\ listening.scopes = off
        /\ [listening EXCEPT !.scopes = Initialized(@, talon)]
             = [r EXCEPT !.listens = g, !.scopes = Initialized(off, talon)]
    <3> DEFINE i == Initialized(off, talon)
    <3>1. listening = [r EXCEPT !.listens = g, !.scopes = off] /\ listening.scopes = off
      BY <1>7 DEF BridgeRec
    <3>2. [listening EXCEPT !.scopes = Initialized(@, talon)] = [listening EXCEPT !.scopes = i]
      BY <3>1
    <3> HIDE DEF listening, i, off
    <3>3. [listening EXCEPT !.scopes = i] = [r EXCEPT !.listens = g, !.scopes = i]
      BY <1>7, <3>1 DEF BridgeRec
    <3> QED
      BY <3>1, <3>2, <3>3 DEF i
  <2> HIDE DEF listening, off
  <2>3. CASE Change(listening) /\ Rollback
    BY <2>2, <2>3
  <2>4. CASE Change([listening EXCEPT !.scopes = Initialized(@, talon)]) /\ Goto("connect")
    BY <2>2, <2>4
  <2> QED
    BY <2>1, <2>3, <2>4
<1>9. /\ sc \in ScopesRec /\ sc.window = NoWindow
      /\ sc.installed = Here.scopes.installed /\ sc.pending = Here.scopes.pending
      /\ sc = off \/ sc.originals = talon.func
  <2>1. Initialized(off, talon) = [off EXCEPT !.originals = talon.func]
    BY DEF Initialized
  <2> QED
    BY <1>4, <1>5, <1>8, <2>1 DEF ScopesRec
<1>10. /\ main' \in Mains /\ main'.at \in {"connect", "retire"}
       /\ main'.at # "retire" => sc.originals # None
  <2>1. CASE sc = Initialized(off, talon) /\ Goto("connect")
    <3>1. sc.originals = talon.func
      BY <1>5, <2>1 DEF Initialized, ScopesRec
    <3> QED
      BY <1>6, <2>1, <3>1, GotoIsMain DEF Places
  <2>2. CASE sc = off /\ Rollback
    BY <2>2, RollbackIsMain
  <2> QED
    BY <1>8, <2>1, <2>2
<1> DEFINE s == [r EXCEPT !.listens = g, !.scopes = sc]
<1>11. Change(s)
  BY <1>8
<1> HIDE DEF g, off, r
<1>12. /\ s \in BridgeRec /\ s.started = TRUE /\ s.generation = g /\ s.latest = NoWindow
       /\ s.cleanup = Here.cleanup /\ s.job = 0 /\ s.revision = Here.revision
       /\ s.original = Here.original /\ s.declared = Here.declared
       /\ s.listens = g /\ s.scopes = sc
  BY <1>5, <1>9, <1>7 DEF BridgeRec
<1> HIDE DEF s
<1>13. s.job <= s.revision
  BY <1>5, <1>12
<1>14. /\ Here' = s /\ bridge' \in [Bridges -> BridgeRec]
       /\ \A b \in Bridges \ {loaded} : bridge'[b] = bridge[b]
       /\ \A b \in Bridges : bridge'[b].job <= bridge'[b].revision
  BY <1>1, <1>11, <1>12, <1>13, Changed
<1>15. Typed' /\ WindowInv'
  BY <1>1, <1>14, <1>10 DEF Typed, WindowsTypeOK, WindowInv, toplevels, Mains
<1>16. Owned'
  <2>1. Provides(sc, talon, loaded)
    BY <1>2, <1>4, <1>5, <1>9 DEF Owned, Mine, Others, Provides, Clean
  <2> QED
    BY <1>1, <1>12, <1>14, <2>1 DEF Owned, Mine, Others
<1>17. Phase'
  BY <1>1, <1>9, <1>12, <1>14, <1>10 DEF Phase
<1>18. activeWindow = NoWindow
  BY <1>2, NoContextNoWindow DEF Available, Clean
<1>19. Settled'
  BY <1>1, <1>4, <1>18 DEF Settled, toplevels
<1>20. Informed'
  BY <1>1, <1>2, <1>5, <1>9, <1>12, <1>14, <1>10, <1>18, <1>19, NoWindowIsApart
     DEF Informed, Clean, toplevels
<1> QED
  BY <1>15, <1>16, <1>17, <1>20

(* It connects, or rolls back. *)
LEMMA BridgeConnects == ASSUME BridgeInv, StartConnects PROVE BridgeInv'
<1> USE DEF BridgeInv
<1>1. /\ main.at = "connect" /\ cron = None /\ Here.started /\ Here.scopes.window = NoWindow
      /\ desktop' \in BOOLEAN /\ (desktop => desktop')
      /\ UNCHANGED <<toplevels, bridge, loaded, hooked, talon, jobs, telling, cron, missed>>
  BY DEF StartConnects, Phase, Typed
<1>2. main' \in Mains /\ main'.at \in {"clipboard", "retire"}
  BY GotoIsMain, RollbackIsMain DEF StartConnects, Places
<1>3. Here' = Here /\ (Available => Available')
  BY <1>1 DEF Here, Available, toplevels
<1>4. Typed' /\ WindowInv' /\ Owned'
  BY <1>1, <1>2, <1>3
     DEF Typed, WindowsTypeOK, WindowInv, Owned, Mine, Others, toplevels, Mains
<1>5. Phase'
  BY <1>1, <1>2, <1>3 DEF Phase
<1>6. Settled => Settled'
  BY <1>1, <1>3 DEF Settled, toplevels
<1>7. Informed'
  BY <1>1, <1>3, <1>6 DEF Informed, toplevels
<1> QED
  BY <1>4, <1>5, <1>7

(* It replaces the clipboard backend, and keeps the one that was there. *)
LEMMA BridgeClipboard == ASSUME BridgeInv, StartClipboard PROVE BridgeInv'
<1> USE DEF BridgeInv
<1>1. /\ main.at = "clipboard" /\ cron = None /\ Here.started
      /\ Here.scopes.window = NoWindow /\ Goto("install")
      /\ UNCHANGED <<toplevels, loaded, hooked, jobs, desktop, telling, cron, missed>>
  BY DEF StartClipboard, Phase
<1>2. Here \in BridgeRec /\ loaded \in Bridges /\ talon \in TalonRec /\ Here.job <= Here.revision
  BY TypedFacts
<1>3. PICK original, t : /\ Change([Here EXCEPT !.original = original]) /\ talon' = t
                         /\ \/ original = Here.original /\ t = talon
                            \/ /\ original = talon.clip /\ talon.clip # loaded
                               /\ t = [talon EXCEPT !.clip = loaded]
  <2>1. PICK o \in IF offer.clipboard THEN ClipInstalled(Here.original, talon, loaded)
                   ELSE {[original |-> Here.original, t |-> talon]} :
          Change([Here EXCEPT !.original = o.original]) /\ talon' = o.t
    BY DEF StartClipboard
  <2>2. \/ o = [original |-> Here.original, t |-> talon]
        \/ /\ talon.clip # loaded
           /\ o = [original |-> talon.clip, t |-> [talon EXCEPT !.clip = loaded]]
    BY <2>1 DEF ClipInstalled
  <2> DEFINE clip == [talon EXCEPT !.clip = loaded]
  <2>3. \/ o.original = Here.original /\ o.t = talon
        \/ talon.clip # loaded /\ o.original = talon.clip /\ o.t = clip
    <3> HIDE DEF clip
    <3> QED
      BY <2>2 DEF clip
  <2> QED
    BY <2>1, <2>3
<1>4. /\ t \in TalonRec /\ t.func = talon.func /\ t.shown = talon.shown
      /\ t.decls = talon.decls /\ original \in {None} \cup Foreign
      /\ t.clip \in Foreign \cup {loaded} /\ (t.clip = loaded => original \in Foreign)
  <2>1. CASE original = Here.original /\ t = talon
    BY <1>2, <2>1 DEF Owned, Mine, Others, BridgeRec
  <2>2. CASE original = talon.clip /\ talon.clip # loaded /\ t = [talon EXCEPT !.clip = loaded]
    BY <1>2, <2>2 DEF Owned, Mine, Others, TalonRec, Owners
  <2> QED
    BY <1>3, <2>1, <2>2
<1> DEFINE s == [Here EXCEPT !.original = original]
<1>5. /\ s \in BridgeRec /\ s.started = Here.started /\ s.generation = Here.generation
      /\ s.latest = Here.latest /\ s.cleanup = Here.cleanup /\ s.job = Here.job
      /\ s.revision = Here.revision /\ s.original = original
      /\ s.declared = Here.declared /\ s.listens = Here.listens /\ s.scopes = Here.scopes
  BY <1>2, <1>4 DEF BridgeRec
<1>6. Change(s)
  BY <1>3
<1> HIDE DEF s
<1>7. /\ Here' = s /\ bridge' \in [Bridges -> BridgeRec]
      /\ \A b \in Bridges \ {loaded} : bridge'[b] = bridge[b]
      /\ \A b \in Bridges : bridge'[b].job <= bridge'[b].revision
  BY <1>1, <1>2, <1>5, <1>6, Changed
<1>8. main' \in Mains /\ main'.at = "install"
  BY <1>1, GotoIsMain DEF Places
<1>9. Typed' /\ WindowInv'
  BY <1>1, <1>3, <1>4, <1>7, <1>8 DEF Typed, WindowsTypeOK, WindowInv, toplevels, Mains
<1>10. Owned'
  <2>1. Provides(Here.scopes, t, loaded)
    BY <1>4 DEF Owned, Mine, Others, Provides
  <2> QED
    BY <1>1, <1>3, <1>4, <1>5, <1>7, <2>1 DEF Owned, Mine, Others
<1>11. Phase'
  BY <1>1, <1>5, <1>7, <1>8 DEF Phase
<1>12. Settled <=> Settled'
  BY <1>1, <1>3, <1>4, <1>5, <1>7 DEF Settled, Available, toplevels
<1>13. Informed'
  BY <1>1, <1>5, <1>7, <1>12 DEF Informed, toplevels
<1> QED
  BY <1>9, <1>10, <1>11, <1>13

(* It installs the scopes, and captures what was there. *)
LEMMA BridgeInstalls == ASSUME BridgeInv, StartInstalls PROVE BridgeInv'
<1> USE DEF BridgeInv
<1>1. /\ main.at = "install" /\ cron = None /\ Here.started
      /\ Here.scopes.window = NoWindow
      /\ UNCHANGED <<toplevels, loaded, hooked, jobs, desktop, telling, cron, missed>>
  BY DEF StartInstalls, Phase
<1>2. PICK o \in IF Available THEN Installed(Here.scopes, talon, loaded)
                 ELSE {Done(Here.scopes, talon)} :
        /\ Change([Here EXCEPT !.scopes = o.s]) /\ talon' = o.t
        /\ IF o.raised THEN Rollback ELSE Goto("register")
  BY DEF StartInstalls
<1>3. Here \in BridgeRec /\ loaded \in Bridges /\ talon \in TalonRec /\ Mine /\ Others
  BY TypedFacts DEF Owned
<1>4. /\ Provides(o.s, o.t, loaded) /\ SameScopes(Here.scopes, talon, o)
      /\ o.s.window = Here.scopes.window
      /\ \/ o.s = Here.scopes /\ o.t = talon
         \/ ~o.s.installed
         \/ Available /\ Shows(o.s, o.t, loaded)
  <2>1. CASE o = Done(Here.scopes, talon)
    <3>1. o.s = Here.scopes /\ o.t = talon /\ o.raised = FALSE
      BY <2>1 DEF Done
    <3> QED
      BY <1>3, <3>1 DEF Mine, SameScopes
  <2>2. CASE Available /\ o \in Installed(Here.scopes, talon, loaded) /\ ~Here.scopes.installed
    <3>1. /\ Provides(o.s, o.t, loaded) /\ SameScopes(Here.scopes, talon, o)
          /\ o.s.window = Here.scopes.window
          /\ o.raised => ~o.s.installed
          /\ ~o.raised => (~Here.scopes.installed => Shows(o.s, o.t, loaded))
      BY <1>3, <2>2, InstalledKeeps DEF Mine
    <3> QED
      BY <2>2, <3>1
  <2>3. Here.scopes.installed => o = Done(Here.scopes, talon)
    BY <1>2 DEF Installed
  <2> QED
    BY <1>2, <2>1, <2>2, <2>3
<1>5. /\ o.s \in ScopesRec /\ o.t \in TalonRec /\ o.s.originals = Here.scopes.originals
      /\ o.t.clip = talon.clip /\ o.t.decls = talon.decls
  BY <1>4 DEF Provides, SameScopes
<1>6. Rescoped(o.s)
  BY <1>2, <1>3 DEF Rescoped, Change, Here, Typed
<1>7. /\ bridge' \in [Bridges -> BridgeRec] /\ Others'
      /\ \A b \in Bridges : bridge'[b].job <= bridge'[b].revision
      /\ Here'.scopes = o.s /\ Here'.started = Here.started
      /\ Here'.cleanup = Here.cleanup /\ Here'.job = Here.job
      /\ Here'.listens = Here.listens /\ Here'.generation = Here.generation
      /\ Here'.latest = Here.latest /\ Here'.original = Here.original
      /\ Here'.declared = Here.declared /\ Here'.revision = Here.revision
  BY <1>1, <1>3, <1>5, <1>6, RescopedKeeps
<1>8. main' \in Mains /\ main'.at \in {"register", "retire"}
  BY <1>2, GotoIsMain, RollbackIsMain DEF Places
<1>9. Typed' /\ WindowInv'
  BY <1>1, <1>2, <1>5, <1>7, <1>8 DEF Typed, WindowsTypeOK, WindowInv, toplevels, Mains
<1>10. Owned'
  <2>1. Mine'
    BY <1>1, <1>2, <1>3, <1>4, <1>5, <1>7 DEF Mine
  <2> QED
    BY <1>7, <2>1 DEF Owned, Mine, Others
<1>11. Phase'
  BY <1>1, <1>4, <1>7, <1>8 DEF Phase
<1>12. Available' = Available
  BY <1>1 DEF Available, toplevels
<1>13. telling = Nothing /\ Here.job = 0 /\ ~missed => Settled'
  <2> SUFFICES ASSUME telling = Nothing, Here.job = 0, ~missed PROVE Settled'
    OBVIOUS
  <2>1. activeWindow = NoWindow /\ Settled
    BY <1>1, NoContextNoWindow DEF Informed
  <2>2. CASE o.s = Here.scopes /\ o.t = talon
    BY <1>1, <1>2, <1>7, <1>12, <2>1, <2>2 DEF Settled, toplevels
  <2>3. CASE ~o.s.installed
    <3>1. \A slot \in Slots : o.t.func[slot] # loaded
      BY <1>4, <2>3 DEF Provides
    <3> QED
      BY <1>1, <1>2, <2>1, <3>1 DEF Settled, toplevels
  <2>4. CASE Available /\ Shows(o.s, o.t, loaded)
    BY <1>1, <1>2, <1>7, <1>12, <2>1, <2>4 DEF Settled, Shows, toplevels
  <2> QED
    BY <1>4, <2>2, <2>3, <2>4
<1>14. Informed'
  BY <1>1, <1>4, <1>5, <1>7, <1>13 DEF Informed, toplevels
<1> QED
  BY <1>9, <1>10, <1>11, <1>14

(* It registers its listener and schedules the window there is, or rolls back. *)
LEMMA BridgeRegisters == ASSUME BridgeInv, StartRegisters PROVE BridgeInv'
<1> USE DEF BridgeInv
<1>1. /\ main.at = "register" /\ cron = None /\ Here.started
      /\ UNCHANGED <<toplevels, loaded, hooked, jobs, desktop, telling, cron, missed>>
  BY DEF StartRegisters, Phase
<1>2. Here \in BridgeRec /\ loaded \in Bridges /\ talon \in TalonRec /\ Here.job <= Here.revision
  BY TypedFacts
<1>3. main' \in Mains /\ main'.at \in {"idle", "retire"}
  BY IdleIsMain, RollbackIsMain DEF StartRegisters, Places
<1>4. /\ talon' \in TalonRec /\ talon'.func = talon.func /\ talon'.shown = talon.shown
      /\ talon'.clip = talon.clip
  <2>1. CASE talon' = [talon EXCEPT !.decls = @ \cup {loaded}]
    <3>1. talon.decls \cup {loaded} \in SUBSET Bridges
      BY <1>2 DEF TalonRec
    <3> QED
      BY <1>2, <2>1, <3>1 DEF TalonRec
  <2>2. CASE talon' \in {talon, [talon EXCEPT !.stray = TRUE]}
    BY <1>2, <2>2 DEF TalonRec
  <2> QED
    BY <2>1, <2>2 DEF StartRegisters
<1>5. /\ bridge' \in [Bridges -> BridgeRec]
      /\ \A b \in Bridges \ {loaded} : bridge'[b] = bridge[b]
      /\ \A b \in Bridges : bridge'[b].job <= bridge'[b].revision
      /\ Here'.started = Here.started /\ Here'.cleanup = Here.cleanup
      /\ Here'.listens = Here.listens /\ Here'.scopes = Here.scopes
      /\ Here'.generation = Here.generation /\ Here'.latest = Here.latest
      /\ Here'.job = Here.job /\ Here'.original = Here.original
      /\ Here'.revision = Here.revision
      /\ \/ Here'.declared = Here.declared /\ talon'.decls = talon.decls
         \/ Here'.declared = TRUE /\ talon'.decls = talon.decls \cup {loaded}
  <2>1. CASE talon' \in {talon, [talon EXCEPT !.stray = TRUE]} /\ UNCHANGED bridge
    <3>1. talon'.decls = talon.decls
      BY <1>2, <2>1 DEF TalonRec
    <3> QED
      BY <1>1, <2>1, <3>1 DEF Typed, Here
  <2>2. CASE talon' = [talon EXCEPT !.decls = @ \cup {loaded}]
             /\ Change([Here EXCEPT !.declared = TRUE])
    <3> DEFINE s == [Here EXCEPT !.declared = TRUE]
    <3>1. /\ s \in BridgeRec /\ s.started = Here.started /\ s.cleanup = Here.cleanup
          /\ s.listens = Here.listens /\ s.scopes = Here.scopes
          /\ s.generation = Here.generation /\ s.latest = Here.latest
          /\ s.job = Here.job /\ s.original = Here.original /\ s.declared = TRUE
          /\ s.revision = Here.revision
      BY <1>2 DEF BridgeRec
    <3>2. talon'.decls = talon.decls \cup {loaded}
      BY <1>2, <2>2 DEF TalonRec
    <3> HIDE DEF s
    <3>3. Change(s)
      BY <2>2 DEF s
    <3> QED
      BY <1>1, <1>2, <3>1, <3>2, <3>3, Changed
  <2> QED
    BY <2>1, <2>2 DEF StartRegisters
<1>6. Typed' /\ WindowInv'
  BY <1>1, <1>3, <1>4, <1>5 DEF Typed, WindowsTypeOK, WindowInv, toplevels, Mains
<1>7. Owned'
  <2>1. Provides(Here'.scopes, talon', loaded')
    BY <1>1, <1>4, <1>5 DEF Owned, Mine, Others, Provides
  <2> QED
    BY <1>1, <1>4, <1>5, <2>1 DEF Owned, Mine, Others
<1>8. Phase'
  BY <1>1, <1>3, <1>5 DEF Phase
<1>9. Settled <=> Settled'
  BY <1>1, <1>4, <1>5 DEF Settled, Available, toplevels
<1>10. Informed'
  BY <1>1, <1>5, <1>9 DEF Informed, toplevels
<1> QED
  BY <1>6, <1>7, <1>8, <1>10

-----------------------------------------------------------------------------
(* Nothing is installed when the first bridge is loaded. *)
LEMMA BridgeStarts == ASSUME Init PROVE BridgeInv
<1>1. /\ WindowsInit /\ bridge = [b \in Bridges |-> NewBridge] /\ loaded = 1 /\ 1 \in Bridges
      /\ hooked = TRUE /\ jobs = {} /\ desktop = FALSE /\ telling = Nothing /\ main = Idle
      /\ cron = None /\ missed = FALSE /\ NoWindow \in Values
  BY BridgeAssumption DEF Init, Values
<1>2. NewScopes(NoWindow) \in ScopesRec
  BY <1>1 DEF NewScopes, ScopesRec
<1>3. /\ NewBridge \in BridgeRec /\ NewBridge.job = 0 /\ NewBridge.revision = 0
      /\ ~NewBridge.started /\ ~NewBridge.cleanup /\ NewBridge.listens = 0
      /\ NewBridge.scopes = NewScopes(NoWindow)
  BY <1>1, <1>2 DEF NewBridge, BridgeRec
<1> DEFINE f == [slot \in Slots |-> Original]
<1>4. /\ f \in [Slots -> Foreign] /\ f \in [Slots -> Owners]
      /\ f \in [Slots -> Owners \cup Values] /\ Original \in Owners /\ Original \in Foreign
      /\ \A slot \in Slots : f[slot] = Original
  BY DEF Foreign, Owners
<1>5. talon = [func |-> f, shown |-> f, clip |-> Original, decls |-> {}, stray |-> FALSE]
  BY DEF Init
<1> HIDE DEF f
<1>6. /\ talon \in TalonRec /\ talon.func = f /\ talon.shown = f /\ talon.clip = Original
      /\ talon.decls = {}
  BY <1>4, <1>5 DEF TalonRec
<1>7. \A b \in Bridges : bridge[b] = NewBridge
  BY <1>1
<1>8. WindowsTypeOK /\ WindowInv
  BY <1>1 DEF WindowsInit, WindowsTypeOK, WindowInv, NoWindows
<1>9. Typed
  <2>1. telling \in [window : Values, generation : Nat]
    BY <1>1 DEF Nothing
  <2>2. main \in Mains
    BY <1>1, IdleIsMain DEF Places
  <2>3. bridge \in [Bridges -> BridgeRec] /\ \A b \in Bridges : bridge[b].job <= bridge[b].revision
    BY <1>1, <1>3, <1>7
  <2> QED
    BY <1>1, <1>6, <1>8, <2>1, <2>2, <2>3 DEF Typed, Mains
<1>10. Here = NewBridge
  BY <1>1, <1>7 DEF Here
<1>11. Original # loaded
  BY <1>1, BridgeAssumption
<1>12. Provides(Here.scopes, talon, loaded)
  BY <1>2, <1>3, <1>4, <1>6, <1>10, <1>11 DEF Provides, NewScopes
<1>13. Owned
  BY <1>2, <1>3, <1>4, <1>6, <1>7, <1>11, <1>12 DEF Owned, Mine, Others, NewScopes
<1>14. Clean
  BY <1>1, <1>2, <1>3, <1>6, <1>10, <1>11 DEF Clean, NewScopes
<1>15. Phase /\ Informed
  BY <1>1, <1>3, <1>10, <1>14 DEF Phase, Informed, Idle
<1> QED
  BY <1>8, <1>9, <1>13, <1>15 DEF BridgeInv

(* Every step keeps BridgeInv. *)
LEMMA BridgeStep == ASSUME BridgeInv, HoldInv, [Next]_vars PROVE BridgeInv'
<1>1. CASE UNCHANGED vars
  BY <1>1
     DEF vars, BridgeInv, Typed, WindowsTypeOK, WindowInv, Owned, Mine, Others, Phase,
         Clean, Settled,
              Informed, Here, Available, toplevels
<1>2. CASE WindowEvent \/ DesktopFails \/ Tell \/ Publish \/ Replace
  BY <1>2, BridgeWindowEvent, BridgeDesktopFails, BridgeTell, BridgePublish, BridgeReplace
<1>3. CASE (\E job \in jobs : Take(job)) \/ \E b \in Bridges : Declare(b)
  BY <1>3, BridgeTake, BridgeDeclare
<1>4. CASE BeginPress \/ BeginRecord \/ \E p \in Presses : End(given[p])
  BY <1>4, BridgeScripts
<1>5. CASE MainStep
  BY <1>5, BridgeEnters, BridgeRetires, BridgeReleases, BridgeJoins, BridgeRestores,
     BridgeBegins, BridgeConnects, BridgeClipboard, BridgeInstalls, BridgeRegisters
     DEF MainStep
<1> QED
  BY <1>1, <1>2, <1>3, <1>4, <1>5 DEF Next

(* The books that the program keeps of what it has taken are right at every step,
   whatever raises: what the theorems below follow from.  A callback that Talon took
   although its registration raised is in no book (stray). *)
THEOREM BridgeInvariant == Spec => [](BridgeInv /\ HoldInv)
<1>1. Init => BridgeInv /\ HoldInv
  BY BridgeStarts, HoldInit
<1>2. BridgeInv /\ HoldInv /\ [Next]_vars => (BridgeInv /\ HoldInv)'
  BY BridgeStep, HoldStep
<1> QED
  BY <1>1, <1>2, PTL DEF Spec

(* A job is never of a revision to come, a provider returns a window or none, and
   every provider of Talon is its own, somebody's or a bridge's. *)
THEOREM BridgeTypes == Spec => []TypeOK
<1>1. BridgeInv /\ HoldInv => TypeOK
  <2> SUFFICES ASSUME BridgeInv, HoldInv PROVE TypeOK
    OBVIOUS
  <2>1. ASSUME NEW b \in Bridges
        PROVE  /\ bridge[b].generation \in Nat /\ bridge[b].revision \in Nat
               /\ bridge[b].job \in 0..bridge[b].revision
               /\ bridge[b].latest \in Values /\ bridge[b].scopes.window \in Values
               /\ bridge[b].tokens \subseteq Nat \X Presses
    <3>1. bridge[b] \in BridgeRec /\ bridge[b].job <= bridge[b].revision
      BY DEF BridgeInv, Typed
    <3>2. bridge[b].scopes \in ScopesRec
      BY <3>1 DEF BridgeRec
    <3> QED
      BY <3>1, <3>2 DEF BridgeRec, ScopesRec
  <2>2. /\ talon.func \in [Slots -> Owners] /\ talon.clip \in Owners
        /\ talon.shown \in [Slots -> Owners \cup Values] /\ talon.decls \subseteq Bridges
        /\ talon.stray \in BOOLEAN
    BY DEF BridgeInv, Typed, TalonRec
  <2>3. WindowsTypeOK /\ loaded \in Bridges /\ hooked \in BOOLEAN
    BY DEF BridgeInv, Typed
  <2>4. held \subseteq Presses /\ script \in {None} \cup [bridge : Bridges, press : Presses]
    BY DEF HoldInv, Numbers
  <2> QED
    BY <2>1, <2>2, <2>3, <2>4 DEF TypeOK
<1> QED
  BY <1>1, BridgeInvariant, PTL

(* A bridge that is stopped and owes nothing has nothing of Talon's or of the desktop's,
   for any number of loads, starts and failures on the way: it is recorded as started, or
   as in need of cleanup, from before it takes a thing until it has given it back. *)
THEOREM StopsClean == Spec => []StoppedOwnsNothing
<1>1. BridgeInv /\ HoldInv => StoppedOwnsNothing
  <2> SUFFICES ASSUME BridgeInv, HoldInv, NEW b \in Bridges,
                      ~bridge[b].started, ~bridge[b].cleanup, b # loaded \/ main.at = "idle"
               PROVE  /\ \A slot \in Slots : talon.func[slot] # b
                      /\ talon.clip # b /\ b \notin talon.decls
                      /\ bridge[b].job = 0 /\ bridge[b].listens = 0
                      /\ cron # None => cron.bridge # b
                      /\ b = loaded => ~desktop /\ held = {}
                                       /\ talon.shown \in [Slots -> Owners]
    BY DEF StoppedOwnsNothing
  <2>1. Mine /\ Others /\ talon \in TalonRec /\ loaded \in Bridges
    BY TypedFacts DEF BridgeInv, Owned
  <2>2. b \notin Foreign
    BY BridgeAssumption DEF Foreign
  <2>3. cron # None => cron.bridge = loaded /\ Here.started
    BY DEF BridgeInv, Phase
  <2>4. CASE b # loaded
    <3>1. talon.func \in [Slots -> Foreign \cup {loaded}] /\ talon.clip \in Foreign \cup {loaded}
          /\ talon.decls \subseteq {loaded}
      BY <2>1 DEF Mine, Provides
    <3> QED
      BY <2>1, <2>2, <2>3, <2>4, <3>1 DEF Others
  <2>5. CASE b = loaded
    <3>1. Clean /\ ~Here.started
      BY <2>5 DEF BridgeInv, Phase, Here
    <3>2. /\ \A slot \in Slots : talon.func[slot] # b /\ talon.shown[slot] \in Owners
      BY <2>1, <2>5, <3>1, NothingInstalled DEF Mine, Clean
    <3>3. talon.shown \in [Slots -> Owners]
      BY <2>1, <3>2 DEF TalonRec
    <3>4. held = {}
      BY <3>1 DEF Clean, HoldInv, HeldByDesktop
    <3> QED
      BY <2>3, <2>5, <3>1, <3>2, <3>3, <3>4 DEF Clean, Here
  <2> QED
    BY <2>4, <2>5
<1> QED
  BY <1>1, BridgeInvariant, PTL

(* Nobody being about to do something, Talon shows the active window of any number of
   them: each change is on its way to Talon in exactly one of the listener's call, the
   job, cron's hands and the scopes, and the last of them is the one that counts. *)
THEOREM ShowsActive == Spec => []TalonShowsActive
<1>1. BridgeInv /\ HoldInv => TalonShowsActive
  <2> SUFFICES ASSUME BridgeInv, Quiet
               PROVE  /\ ~Available => \A slot \in Slots : talon.func[slot] # loaded
                      /\ \A slot \in Slots :
                           /\ talon.func[slot] = loaded =>
                                talon.shown[slot] \in IF Active = {} THEN {NoWindow} ELSE Active
                           /\ Active # {} => talon.func[slot] \in {loaded, Other}
    BY DEF TalonShowsActive
  <2>1. Here.job = 0
    <3>1. \A j \in jobs : j.bridge # loaded
      BY DEF Quiet
    <3>2. Here.job # 0 => [bridge |-> loaded, generation |-> Here.generation,
                           revision |-> Here.job] \in jobs
      BY DEF Quiet, BridgeInv, Informed
    <3> QED
      BY <3>1, <3>2
  <2>2. Here.scopes.window = Label(activeWindow) /\ Settled
    BY <2>1 DEF Quiet, Free, BridgeInv, Informed
  <2>3. /\ Active = {} <=> activeWindow = NoWindow
        /\ activeWindow # NoWindow => Label(activeWindow) \in Active
        /\ Label(activeWindow) = NoWindow <=> activeWindow = NoWindow
    BY NoContextNoWindow DEF BridgeInv
  <2> QED
    BY <2>2, <2>3 DEF Settled
<1> QED
  BY <1>1, BridgeInvariant, PTL
=============================================================================
