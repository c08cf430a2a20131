----------------------------- MODULE Connection -----------------------------
(***************************************************************************)
(* plugins/wayland_backend/connection.py: the thread that owns the Wayland *)
(* display, the mailbox through which every other thread uses it, and its  *)
(* start, stop, failure and restart.                                       *)
(*                                                                         *)
(* Three kinds of thread interleave, one step per stretch of code between  *)
(* two points another thread can observe (a lock, an Event, the wake       *)
(* socket, a blocking wait):                                               *)
(*   - a call: one execute() from outside the owner thread;                *)
(*   - a controller: a thread that calls start() and stop();               *)
(*   - the owner thread of a generation: _run() and all it calls.          *)
(* A generation is one threading.Thread made by start(); self._thread,     *)
(* self._ready and "is_alive()" are told apart by its number.              *)
(***************************************************************************)
EXTENDS Naturals, Sequences

CONSTANTS Calls,            \* the calls of execute(), each made once
          Controllers,      \* threads that call start() and stop()
          MaxGenerations,   \* bound on the owner threads ever started
          NoCall            \* the owner has claimed nothing

Generations == 1..MaxGenerations
Threads == Generations \cup Controllers

ASSUME MaxGenerationsAssumption == MaxGenerations \in Nat
ASSUME NoCallAssumption == NoCall \notin Calls
ASSUME ThreadsAssumption == Controllers \cap Generations = {}

VARIABLES
    \* fields of WaylandConnection
    running, stopping,      \* the Events _running and _stopping
    ready,                  \* generations whose _ready Event is set
    failed,                 \* _error is not None
    shutdownError,          \* _shutdown_error is not None
    initialized,            \* _initialized
    thread,                 \* the generation of _thread, 0 when None
    wakeOpen, wakeByte,     \* the wake sockets exist; a byte is unread
    lifecycleHeld,          \* _lifecycle_lock is held across steps
    commands,               \* the deque _commands
    \* owner threads
    generation,             \* the owner threads created so far
    opc,                    \* what each owner thread is doing
    after,                  \* where it resumes after fail() or stop()
    held,                   \* the command it has claimed
    handshake,              \* which initial sync callback is awaited
    \* calls
    cpc,                    \* what the calling thread is doing
    state, done, outcome,   \* its _Command: state, done, result or error
    answer,                 \* what execute() returned or raised
    accepted, ran,          \* history: generation of the append, executions
    \* controllers
    kpc,                    \* what it is doing, or that its start() succeeded
    expected, why,          \* local "thread"; the reason to stop it
    \* both kinds of thread that sweep the mailbox
    releasing               \* commands swept whose Event is still to be set

flags == <<running, stopping, ready, failed, shutdownError, initialized>>
wake == <<wakeOpen, wakeByte>>
lifecycle == <<thread, generation, lifecycleHeld>>
mailbox == <<commands, state, done, outcome>>
owners == <<opc, after, held, handshake>>
callers == <<cpc, answer, accepted, ran>>
controllers == <<kpc, expected, why>>
vars == <<flags, wake, lifecycle, mailbox, owners, callers, controllers,
          releasing>>

OwnerPCs ==
    {"unborn", "connecting", "loop", "drain", "drained", "claimed", "callback",
     "finish", "prepare", "select", "selected", "dispatch",
     "failError", "failStop", "failReady", "failPending", "failRelease",
     "stopLock", "stopPending", "stopRelease",
     "finally", "finReady", "finPending", "finRelease", "disconnect",
     "closing", "dead"}
ResumePCs == {"loop", "select", "finish", "finally", "closing"}
CallPCs == {"idle", "accept", "wake", "wait", "hold", "returned"}
States == {"NONE", "QUEUED", "CLAIMED", "CANCELLED", "DONE"}
Outcomes == {"none", "unavailable", "completed"}
Answers == Outcomes \cup {"timeout"}
ControllerPCs == {"idle", "started", "startWait", "startRead", "startCheck",
                  "stopLock", "stopPending", "stopRelease", "join"}
Reasons == {"stop", "startTimeout", "startError"}
Resting == {"idle", "started"}

Queued == {commands[i] : i \in DOMAIN commands}
Alive(g) == opc[g] \notin {"unborn", "dead"}

Init ==
    /\ running = FALSE /\ stopping = FALSE /\ ready = {}
    /\ failed = FALSE /\ shutdownError = FALSE /\ initialized = FALSE
    /\ wakeOpen = FALSE /\ wakeByte = FALSE
    /\ thread = 0 /\ generation = 0 /\ lifecycleHeld = FALSE
    /\ commands = <<>>
    /\ state = [c \in Calls |-> "NONE"]
    /\ done = {}
    /\ outcome = [c \in Calls |-> "none"]
    /\ opc = [g \in Generations |-> "unborn"]
    /\ after = [g \in Generations |-> "loop"]
    /\ held = [g \in Generations |-> NoCall]
    /\ handshake = "none"
    /\ cpc = [c \in Calls |-> "idle"]
    /\ answer = [c \in Calls |-> "none"]
    /\ accepted = [c \in Calls |-> 0]
    /\ ran = [c \in Calls |-> 0]
    /\ kpc = [k \in Controllers |-> "idle"]
    /\ expected = [k \in Controllers |-> 0]
    /\ why = [k \in Controllers |-> "stop"]
    /\ releasing = [t \in Threads |-> {}]

-----------------------------------------------------------------------------
(* Steps that several threads share. *)

Goto(g, pc) == opc' = [opc EXCEPT ![g] = pc]

(* The owner calls fail() or stop() and will go on at pc; it does. *)
Divert(g, to, pc) == Goto(g, to) /\ after' = [after EXCEPT ![g] = pc]
Resume(g) == Goto(g, after[g]) /\ after' = [after EXCEPT ![g] = "loop"]

(* start() or stop() returns or raises: its locals are gone. *)
Rest(k, pc) == /\ kpc' = [kpc EXCEPT ![k] = pc]
               /\ expected' = [expected EXCEPT ![k] = 0]
               /\ why' = [why EXCEPT ![k] = "stop"]

(* _wake: a byte on the socket; a closed or full socket is ignored. *)
Wake == /\ wakeByte' = (wakeByte \/ wakeOpen)
        /\ UNCHANGED wakeOpen

CloseWakeup == wakeOpen' = FALSE /\ wakeByte' = FALSE

(* _fail_pending_commands up to the end of its lock; thread t then sets the
   done Events of the swept commands (ReleaseSwept). *)
FailPending(t) ==
    /\ releasing' = [releasing EXCEPT ![t] = Queued]
    /\ commands' = <<>>
    /\ outcome' = [c \in Calls |-> IF c \in Queued /\ state[c] = "QUEUED"
                                   THEN "unavailable" ELSE outcome[c]]
    /\ state' = [c \in Calls |-> IF c \in Queued THEN "DONE" ELSE state[c]]
    /\ UNCHANGED done

ReleaseSwept(t) ==
    /\ done' = done \cup releasing[t]
    /\ releasing' = [releasing EXCEPT ![t] = {}]
    /\ UNCHANGED <<commands, state, outcome>>

-----------------------------------------------------------------------------
(* execute() on a thread other than the owner's.  On the owner's thread it
   runs its callback in place (or raises when stopping) as part of the
   callback or event handler that calls it. *)

Available == running /\ ~stopping

(* The first test, before any lock; its two reads decide nothing, Accept tests
   both again, where the lock keeps the owner from ending in between. *)
Call(c) ==
    /\ cpc[c] = "idle"
    /\ IF Available
         THEN cpc' = [cpc EXCEPT ![c] = "accept"] /\ UNCHANGED answer
         ELSE /\ cpc' = [cpc EXCEPT ![c] = "returned"]
              /\ answer' = [answer EXCEPT ![c] = "unavailable"]
    /\ UNCHANGED <<flags, wake, lifecycle, mailbox, owners, accepted, ran,
                   controllers, releasing>>

(* Under _command_lock: test again and append. *)
Accept(c) ==
    /\ cpc[c] = "accept"
    /\ IF Available
         THEN /\ commands' = Append(commands, c)
              /\ state' = [state EXCEPT ![c] = "QUEUED"]
              /\ accepted' = [accepted EXCEPT ![c] = generation]
              /\ cpc' = [cpc EXCEPT ![c] = "wake"]
              /\ UNCHANGED answer
         ELSE /\ cpc' = [cpc EXCEPT ![c] = "returned"]
              /\ answer' = [answer EXCEPT ![c] = "unavailable"]
              /\ UNCHANGED <<commands, state, accepted>>
    /\ UNCHANGED <<flags, wake, lifecycle, done, outcome, owners, ran,
                   controllers, releasing>>

WakeOwner(c) ==
    /\ cpc[c] = "wake"
    /\ cpc' = [cpc EXCEPT ![c] = "wait"]
    /\ Wake
    /\ UNCHANGED <<flags, lifecycle, mailbox, owners, answer, accepted, ran,
                   controllers, releasing>>

(* Broken: a timeout cancels a command the owner has already claimed. *)
CancelClaimed(c) ==
    /\ cpc[c] = "wait" /\ c \notin done
    /\ state' = [state EXCEPT ![c] = "CANCELLED"]
    /\ cpc' = [cpc EXCEPT ![c] = "returned"]
    /\ answer' = [answer EXCEPT ![c] = "timeout"]
    /\ UNCHANGED <<flags, wake, lifecycle, commands, done, outcome, owners,
                   accepted, ran, controllers, releasing>>

(* done.wait(timeout) expired: cancel what is still queued, ... *)
Cancel(c) ==
    /\ cpc[c] = "wait" /\ c \notin done
    /\ state[c] = "QUEUED"
    /\ state' = [state EXCEPT ![c] = "CANCELLED"]
    /\ cpc' = [cpc EXCEPT ![c] = "returned"]
    /\ answer' = [answer EXCEPT ![c] = "timeout"]
    /\ UNCHANGED <<flags, wake, lifecycle, commands, done, outcome, owners,
                   accepted, ran, controllers, releasing>>

(* ... and wait without a limit for what is not. *)
Hold(c) ==
    /\ cpc[c] = "wait" /\ c \notin done
    /\ state[c] # "QUEUED"
    /\ cpc' = [cpc EXCEPT ![c] = "hold"]
    /\ UNCHANGED <<flags, wake, lifecycle, mailbox, owners, answer, accepted,
                   ran, controllers, releasing>>

Return(c) ==
    /\ cpc[c] \in {"wait", "hold"} /\ c \in done
    /\ cpc' = [cpc EXCEPT ![c] = "returned"]
    /\ answer' = [answer EXCEPT ![c] = outcome[c]]
    /\ UNCHANGED <<flags, wake, lifecycle, mailbox, owners, accepted, ran,
                   controllers, releasing>>

-----------------------------------------------------------------------------
(* The owner thread: _run up to the event loop. *)

Connect(g) ==
    /\ opc[g] = "connecting"
    /\ \/ running' = TRUE /\ handshake' = "registry" /\ Goto(g, "loop")
          /\ UNCHANGED after
       \/ Divert(g, "failError", "finally") /\ UNCHANGED <<running, handshake>>
    /\ UNCHANGED <<stopping, ready, failed, shutdownError, initialized, wake,
                   lifecycle, mailbox, held, callers, controllers, releasing>>

(* Broken: the wake socket is emptied after the mailbox, before select(). *)
TestStoppingForgetsWake(g) ==
    /\ \E step \in {<<"loop", "drain">>, <<"drained", "prepare">>,
                    <<"selected", "dispatch">>} :
          /\ opc[g] = step[1]
          /\ Goto(g, IF stopping THEN "finally" ELSE step[2])
          /\ wakeByte' = (wakeByte /\ step[1] # "drained")
    /\ UNCHANGED <<flags, wakeOpen, lifecycle, mailbox, after, held, handshake,
                   callers, controllers, releasing>>

(* The tests of _stopping: at the loop's head, after the drain, after select. *)
TestStopping(g) ==
    /\ \E step \in {<<"loop", "drain">>, <<"drained", "prepare">>,
                    <<"selected", "dispatch">>} :
          /\ opc[g] = step[1]
          /\ Goto(g, IF stopping THEN "finally" ELSE step[2])
    /\ UNCHANGED <<flags, wake, lifecycle, mailbox, after, held, handshake,
                   callers, controllers, releasing>>

(* Broken: a cancelled command is claimed like any other. *)
DrainCancelled(g) ==
    /\ opc[g] = "drain"
    /\ IF commands = <<>>
         THEN Goto(g, "drained") /\ UNCHANGED <<commands, state, held>>
         ELSE /\ commands' = Tail(commands)
              /\ state' = [state EXCEPT ![Head(commands)] = "CLAIMED"]
              /\ held' = [held EXCEPT ![g] = Head(commands)]
              /\ Goto(g, "claimed")
    /\ UNCHANGED <<flags, wake, lifecycle, done, outcome, after, handshake,
                   callers, controllers, releasing>>

(* _drain_commands: take the head under the lock. *)
Drain(g) ==
    /\ opc[g] = "drain"
    /\ IF commands = <<>>
         THEN Goto(g, "drained") /\ UNCHANGED <<commands, state, done, held>>
         ELSE LET c == Head(commands)
              IN /\ commands' = Tail(commands)
                 /\ IF state[c] = "CANCELLED"
                      THEN /\ done' = done \cup {c}
                           /\ UNCHANGED <<opc, state, held>>
                      ELSE /\ state' = [state EXCEPT ![c] = "CLAIMED"]
                           /\ held' = [held EXCEPT ![g] = c]
                           /\ Goto(g, "claimed")
                           /\ UNCHANGED done
    /\ UNCHANGED <<flags, wake, lifecycle, outcome, after, handshake, callers,
                   controllers, releasing>>

(* Broken: a command claimed when shutdown begins is dropped unanswered. *)
StartCallbackDrops(g) ==
    /\ opc[g] = "claimed"
    /\ IF stopping
         THEN /\ held' = [held EXCEPT ![g] = NoCall]
              /\ Goto(g, "drain")
              /\ UNCHANGED ran
         ELSE /\ ran' = [ran EXCEPT ![held[g]] = @ + 1]
              /\ Goto(g, "callback")
              /\ UNCHANGED held
    /\ UNCHANGED <<flags, wake, lifecycle, mailbox, after, handshake, cpc,
                   answer, accepted, controllers, releasing>>

(* The claimed command runs, unless shutdown has begun. *)
StartCallback(g) ==
    /\ opc[g] = "claimed"
    /\ IF stopping
         THEN /\ outcome' = [outcome EXCEPT ![held[g]] = "unavailable"]
              /\ Goto(g, "finish")
              /\ UNCHANGED ran
         ELSE /\ ran' = [ran EXCEPT ![held[g]] = @ + 1]
              /\ Goto(g, "callback")
              /\ UNCHANGED outcome
    /\ UNCHANGED <<flags, wake, lifecycle, commands, state, done, after, held,
                   handshake, cpc, answer, accepted, controllers, releasing>>

(* The callback returns or raises, as it is; after it reported a partial
   emission with fail(); or after it called stop(). *)
EndCallback(g) ==
    /\ opc[g] = "callback"
    /\ \/ Goto(g, "finish") /\ UNCHANGED after
       \/ \E pc \in {"failError", "stopLock"} : Divert(g, pc, "finish")
    /\ outcome' = [outcome EXCEPT ![held[g]] = "completed"]
    /\ UNCHANGED <<flags, wake, lifecycle, commands, state, done, held,
                   handshake, callers, controllers, releasing>>

(* Broken: the done Event of an executed command is never set. *)
FinishSilently(g) ==
    /\ opc[g] = "finish"
    /\ state' = [state EXCEPT ![held[g]] = "DONE"]
    /\ held' = [held EXCEPT ![g] = NoCall]
    /\ Goto(g, "drain")
    /\ UNCHANGED <<flags, wake, lifecycle, commands, done, outcome, after,
                   handshake, callers, controllers, releasing>>

Finish(g) ==
    /\ opc[g] = "finish"
    /\ state' = [state EXCEPT ![held[g]] = "DONE"]
    /\ done' = done \cup {held[g]}
    /\ held' = [held EXCEPT ![g] = NoCall]
    /\ Goto(g, "drain")
    /\ UNCHANGED <<flags, wake, lifecycle, commands, outcome, after, handshake,
                   callers, controllers, releasing>>

-----------------------------------------------------------------------------
(* The owner thread: the selector and the events it dispatches, both while
   it prepares to read ("prepare") and after it has read ("dispatch"). *)

Dispatching(g) == opc[g] \in {"prepare", "dispatch"}
AfterDispatch(g) == IF opc[g] = "prepare" THEN "select" ELSE "loop"

EndDispatch(g) ==
    /\ Dispatching(g)
    /\ Goto(g, AfterDispatch(g))
    /\ UNCHANGED <<flags, wake, lifecycle, mailbox, after, held, handshake,
                   callers, controllers, releasing>>

(* select() returns for the mailbox: _drain_wakeup reads every byte. *)
Woken(g) ==
    /\ opc[g] = "select" /\ wakeByte
    /\ wakeByte' = FALSE
    /\ Goto(g, "selected")
    /\ UNCHANGED <<flags, wakeOpen, lifecycle, mailbox, after, held, handshake,
                   callers, controllers, releasing>>

(* select() returns for the display, a pipe or a transfer's deadline. *)
OtherReady(g) ==
    /\ opc[g] = "select"
    /\ Goto(g, "selected")
    /\ UNCHANGED <<flags, wake, lifecycle, mailbox, after, held, handshake,
                   callers, controllers, releasing>>

(* The first sync callback: all globals were announced. *)
RegistrySync(g) ==
    /\ Dispatching(g) /\ handshake = "registry"
    /\ handshake' = IF stopping THEN "none" ELSE "bindings"
    /\ UNCHANGED <<flags, wake, lifecycle, mailbox, opc, after, held, callers,
                   controllers, releasing>>

(* The second: every adapter's ready() runs, then start() is let go. *)
BindingsSync(g) ==
    /\ Dispatching(g) /\ handshake = "bindings"
    /\ handshake' = "none"
    /\ initialized' = TRUE
    /\ \/ ready' = ready \cup {generation} /\ UNCHANGED <<opc, after>>
       \/ Divert(g, "failError", AfterDispatch(g)) /\ UNCHANGED ready
    /\ UNCHANGED <<running, stopping, failed, shutdownError, wake, lifecycle,
                   mailbox, held, callers, controllers, releasing>>

(* A guarded event callback raises, a listener calls stop(), or the display
   reports an error, which leaves the loop. *)
EventFails(g) ==
    /\ Dispatching(g)
    /\ \/ \E pc \in {"failError", "stopLock"} : Divert(g, pc, AfterDispatch(g))
       \/ Divert(g, "failError", "finally")
    /\ UNCHANGED <<flags, wake, lifecycle, mailbox, held, handshake, callers,
                   controllers, releasing>>

-----------------------------------------------------------------------------
(* fail(), on the owner thread; it resumes at after[g]. *)

FailRecords(g) ==
    /\ opc[g] = "failError"
    /\ failed' = TRUE
    /\ Goto(g, "failStop")
    /\ UNCHANGED <<running, stopping, ready, shutdownError, initialized, wake,
                   lifecycle, mailbox, after, held, handshake, callers,
                   controllers, releasing>>

FailStops(g) ==
    /\ opc[g] = "failStop"
    /\ stopping' = TRUE
    /\ Goto(g, "failReady")
    /\ UNCHANGED <<running, ready, failed, shutdownError, initialized, wake,
                   lifecycle, mailbox, after, held, handshake, callers,
                   controllers, releasing>>

FailReadies(g) ==
    /\ opc[g] = "failReady"
    /\ ready' = ready \cup {generation}
    /\ Goto(g, "failPending")
    /\ UNCHANGED <<running, stopping, failed, shutdownError, initialized, wake,
                   lifecycle, mailbox, after, held, handshake, callers,
                   controllers, releasing>>

FailSweeps(g) ==
    /\ opc[g] = "failPending"
    /\ FailPending(g)
    /\ Goto(g, "failRelease")
    /\ UNCHANGED <<flags, wake, lifecycle, after, held, handshake, callers,
                   controllers>>

FailReleases(g) ==
    /\ opc[g] = "failRelease"
    /\ ReleaseSwept(g)
    /\ Wake
    /\ Resume(g)
    /\ UNCHANGED <<flags, lifecycle, held, handshake, callers, controllers>>

-----------------------------------------------------------------------------
(* _stop_thread on the owner thread itself: no join.  _thread is this thread
   (OneOwner), which is why the branch for None is missing. *)

OwnerStopLocks(g) ==
    /\ opc[g] = "stopLock" /\ ~lifecycleHeld
    /\ lifecycleHeld' = TRUE
    /\ stopping' = TRUE
    /\ Goto(g, "stopPending")
    /\ UNCHANGED <<running, ready, failed, shutdownError, initialized, wake,
                   thread, generation, mailbox, after, held, handshake,
                   callers, controllers, releasing>>

OwnerStopSweeps(g) ==
    /\ opc[g] = "stopPending"
    /\ FailPending(g)
    /\ Goto(g, "stopRelease")
    /\ UNCHANGED <<flags, wake, lifecycle, after, held, handshake, callers,
                   controllers>>

OwnerStopReturns(g) ==
    /\ opc[g] = "stopRelease"
    /\ ReleaseSwept(g)
    /\ Wake
    /\ lifecycleHeld' = FALSE
    /\ Resume(g)
    /\ UNCHANGED <<flags, thread, generation, held, handshake, callers,
                   controllers>>

-----------------------------------------------------------------------------
(* The finally clause of _run. *)

ClearRunning(g) ==
    /\ opc[g] = "finally"
    /\ running' = FALSE
    /\ Goto(g, "finReady")
    /\ UNCHANGED <<stopping, ready, failed, shutdownError, initialized, wake,
                   lifecycle, mailbox, after, held, handshake, callers,
                   controllers, releasing>>

FinallyReadies(g) ==
    /\ opc[g] = "finReady"
    /\ ready' = ready \cup {generation}
    /\ Goto(g, "finPending")
    /\ UNCHANGED <<running, stopping, failed, shutdownError, initialized, wake,
                   lifecycle, mailbox, after, held, handshake, callers,
                   controllers, releasing>>

FinallySweeps(g) ==
    /\ opc[g] = "finPending"
    /\ FailPending(g)
    /\ Goto(g, "finRelease")
    /\ UNCHANGED <<flags, wake, lifecycle, after, held, handshake, callers,
                   controllers>>

FinallyReleases(g) ==
    /\ opc[g] = "finRelease"
    /\ ReleaseSwept(g)
    /\ Goto(g, "disconnect")
    /\ UNCHANGED <<flags, wake, lifecycle, after, held, handshake, callers,
                   controllers>>

(* _disconnect closes every adapter; a cleanup failure is kept for stop(). *)
Disconnect(g) ==
    /\ opc[g] = "disconnect"
    /\ initialized' = FALSE
    /\ handshake' = "none"
    /\ \/ Goto(g, "closing") /\ UNCHANGED <<shutdownError, after>>
       \/ shutdownError' = TRUE /\ Divert(g, "failError", "closing")
    /\ UNCHANGED <<running, stopping, ready, failed, wake, lifecycle, mailbox,
                   held, callers, controllers, releasing>>

Die(g) ==
    /\ opc[g] = "closing"
    /\ CloseWakeup
    /\ Goto(g, "dead")
    /\ UNCHANGED <<flags, lifecycle, mailbox, after, held, handshake, callers,
                   controllers, releasing>>

-----------------------------------------------------------------------------
(* start().  The block under _lifecycle_lock never waits: one step. *)

ThreadAlive == thread # 0 /\ Alive(thread)

(* An owner thread is alive: share it, or refuse while it is stopping. *)
StartShared(k) ==
    /\ kpc[k] \in Resting /\ ~lifecycleHeld
    /\ ThreadAlive
    /\ IF stopping
         THEN kpc' = [kpc EXCEPT ![k] = "idle"] /\ UNCHANGED expected
         ELSE /\ expected' = [expected EXCEPT ![k] = thread]
              /\ kpc' = [kpc EXCEPT ![k] = "startWait"]
    /\ UNCHANGED <<flags, wake, lifecycle, mailbox, owners, callers, why,
                   releasing>>

(* None is: _reset_for_start, then a new owner thread starts, or cannot be: no
   sockets (a dead _thread stays named) or no thread. *)
StartFresh(k) ==
    /\ kpc[k] \in Resting /\ ~lifecycleHeld
    /\ ~ThreadAlive
    /\ generation < MaxGenerations
    /\ running' = FALSE /\ stopping' = FALSE
    /\ failed' = FALSE /\ shutdownError' = FALSE /\ initialized' = FALSE
    /\ commands' = <<>>
    /\ handshake' = "none"
    /\ wakeByte' = FALSE
    /\ generation' = generation + 1
    /\ \/ /\ thread' = generation + 1
          /\ wakeOpen' = TRUE
          /\ Goto(generation + 1, "connecting")
          /\ expected' = [expected EXCEPT ![k] = generation + 1]
          /\ kpc' = [kpc EXCEPT ![k] = "startWait"]
       \/ /\ thread' \in {thread, 0}
          /\ wakeOpen' = FALSE
          /\ Goto(generation + 1, "dead")
          /\ kpc' = [kpc EXCEPT ![k] = "idle"]
          /\ UNCHANGED expected
    /\ UNCHANGED <<ready, lifecycleHeld, state, done, outcome, after, held,
                   callers, why, releasing>>

StartReady(k) ==
    /\ kpc[k] = "startWait" /\ expected[k] \in ready
    /\ kpc' = [kpc EXCEPT ![k] = "startRead"]
    /\ UNCHANGED <<flags, wake, lifecycle, mailbox, owners, callers, expected,
                   why, releasing>>

StartTimesOut(k) ==
    /\ kpc[k] = "startWait" /\ expected[k] \notin ready
    /\ kpc' = [kpc EXCEPT ![k] = "stopLock"]
    /\ why' = [why EXCEPT ![k] = "startTimeout"]
    /\ UNCHANGED <<flags, wake, lifecycle, mailbox, owners, callers, expected,
                   releasing>>

StartReads(k) ==
    /\ kpc[k] = "startRead"
    /\ IF failed
         THEN /\ kpc' = [kpc EXCEPT ![k] = "stopLock"]
              /\ why' = [why EXCEPT ![k] = "startError"]
         ELSE kpc' = [kpc EXCEPT ![k] = "startCheck"] /\ UNCHANGED why
    /\ UNCHANGED <<flags, wake, lifecycle, mailbox, owners, callers, expected,
                   releasing>>

(* Broken: start() trusts the ready Event and the absence of an error. *)
StartTrusts(k) ==
    /\ kpc[k] = "startCheck" /\ ~lifecycleHeld
    /\ Rest(k, "started")
    /\ UNCHANGED <<flags, wake, lifecycle, mailbox, owners, callers, releasing>>

StartChecks(k) ==
    /\ kpc[k] = "startCheck" /\ ~lifecycleHeld
    /\ Rest(k, IF thread = expected[k] /\ ThreadAlive /\ Available
               THEN "started" ELSE "idle")
    /\ UNCHANGED <<flags, wake, lifecycle, mailbox, owners, callers, releasing>>

-----------------------------------------------------------------------------
(* stop(), and _stop_thread when start() gives up, on a controller. *)

RequestStop(k) ==
    /\ kpc[k] \in Resting
    /\ kpc' = [kpc EXCEPT ![k] = "stopLock"]
    /\ UNCHANGED <<flags, wake, lifecycle, mailbox, owners, callers, expected,
                   why, releasing>>

(* The end of _stop_thread: stop() reports a shutdown failure, once. *)
EndStop(k) ==
    /\ Rest(k, "idle")
    /\ shutdownError' = (shutdownError /\ why[k] # "stop")
    /\ UNCHANGED <<running, ready, failed, initialized>>

(* _lifecycle_lock: another generation, nothing to stop, or stop it. *)
StopLocks(k) ==
    /\ kpc[k] = "stopLock" /\ ~lifecycleHeld
    /\ \/ /\ expected[k] # 0 /\ thread # expected[k]
          /\ Rest(k, "idle")
          /\ UNCHANGED <<flags, wake, lifecycleHeld>>
       \/ /\ expected[k] = 0 /\ thread = 0
          /\ CloseWakeup
          /\ EndStop(k)
          /\ UNCHANGED <<stopping, lifecycleHeld>>
       \/ /\ thread # 0 /\ expected[k] \in {0, thread}
          /\ lifecycleHeld' = TRUE
          /\ stopping' = TRUE
          /\ kpc' = [kpc EXCEPT ![k] = "stopPending"]
          /\ UNCHANGED <<running, ready, failed, shutdownError, initialized,
                         wake, expected, why>>
    /\ UNCHANGED <<thread, generation, mailbox, owners, callers, releasing>>

StopSweeps(k) ==
    /\ kpc[k] = "stopPending"
    /\ FailPending(k)
    /\ kpc' = [kpc EXCEPT ![k] = "stopRelease"]
    /\ UNCHANGED <<flags, wake, lifecycle, owners, callers, expected, why>>

(* Broken: stop() does not wake the owner. *)
StopReleasesQuietly(k) ==
    /\ kpc[k] = "stopRelease"
    /\ ReleaseSwept(k)
    /\ kpc' = [kpc EXCEPT ![k] = "join"]
    /\ UNCHANGED <<flags, wake, lifecycle, owners, callers, expected, why>>

StopReleases(k) ==
    /\ kpc[k] = "stopRelease"
    /\ ReleaseSwept(k)
    /\ Wake
    /\ kpc' = [kpc EXCEPT ![k] = "join"]
    /\ UNCHANGED <<flags, lifecycle, owners, callers, expected, why>>

Joined(k) ==
    /\ kpc[k] = "join" /\ ~ThreadAlive
    /\ thread' = 0
    /\ CloseWakeup
    /\ EndStop(k)
    /\ lifecycleHeld' = FALSE
    /\ UNCHANGED <<stopping, generation, mailbox, owners, callers, releasing>>

(* Broken: an owner that does not stop in time is forgotten. *)
JoinForgets(k) ==
    /\ kpc[k] = "join" /\ ThreadAlive
    /\ Rest(k, "idle")
    /\ thread' = 0
    /\ lifecycleHeld' = FALSE
    /\ UNCHANGED <<flags, wake, generation, mailbox, owners, callers, releasing>>

(* Broken: the join has no timeout. *)
JoinForever(k) == kpc[k] = "join" /\ FALSE /\ UNCHANGED vars

(* The join expires: the owner stays registered and the stop may be retried. *)
JoinTimesOut(k) ==
    /\ kpc[k] = "join" /\ ThreadAlive
    /\ Rest(k, "idle")
    /\ lifecycleHeld' = FALSE
    /\ UNCHANGED <<flags, wake, thread, generation, mailbox, owners, callers,
                   releasing>>

-----------------------------------------------------------------------------
(* Steps the interpreter's scheduler owes a thread; arrivals (a call, a start,
   a stop, a display event) are owed by nobody. *)

CallStep(c) == \/ Accept(c) \/ WakeOwner(c) \/ Cancel(c) \/ Hold(c) \/ Return(c)

OwnerStep(g) ==
    \/ Connect(g) \/ TestStopping(g) \/ Drain(g) \/ StartCallback(g)
    \/ EndCallback(g) \/ Finish(g) \/ EndDispatch(g) \/ Woken(g)
    \/ FailRecords(g) \/ FailStops(g) \/ FailReadies(g) \/ FailSweeps(g)
    \/ FailReleases(g) \/ OwnerStopSweeps(g) \/ OwnerStopReturns(g)
    \/ ClearRunning(g) \/ FinallyReadies(g) \/ FinallySweeps(g)
    \/ FinallyReleases(g) \/ Disconnect(g) \/ Die(g)

DisplayEvent(g) ==
    OtherReady(g) \/ RegistrySync(g) \/ BindingsSync(g) \/ EventFails(g)

ControllerStep(k) ==
    \/ StartReady(k) \/ StartTimesOut(k) \/ StartReads(k) \/ StopSweeps(k)
    \/ StopReleases(k) \/ Joined(k) \/ JoinTimesOut(k)

Next ==
    \/ \E c \in Calls : Call(c) \/ CallStep(c)
    \/ \E g \in Generations : OwnerStep(g) \/ OwnerStopLocks(g) \/ DisplayEvent(g)
    \/ \E k \in Controllers :
          \/ StartShared(k) \/ StartFresh(k) \/ RequestStop(k)
          \/ StartChecks(k) \/ StopLocks(k) \/ ControllerStep(k)

Spec == Init /\ [][Next]_vars

(* Threads are scheduled, timeouts expire and callbacks end; a thread that
   wants _lifecycle_lock is not overtaken for ever. *)
Fairness ==
    /\ \A c \in Calls : WF_vars(CallStep(c))
    /\ \A g \in Generations :
          WF_vars(OwnerStep(g)) /\ SF_vars(OwnerStopLocks(g))
    /\ \A k \in Controllers :
          WF_vars(ControllerStep(k)) /\ SF_vars(StartChecks(k) \/ StopLocks(k))

FairSpec == Spec /\ Fairness

-----------------------------------------------------------------------------
(* Properties. *)

FlagTypes ==
    /\ running \in BOOLEAN /\ stopping \in BOOLEAN /\ ready \subseteq Generations
    /\ failed \in BOOLEAN /\ shutdownError \in BOOLEAN /\ initialized \in BOOLEAN

LifecycleTypes ==
    /\ wakeOpen \in BOOLEAN /\ wakeByte \in BOOLEAN
    /\ thread \in 0..MaxGenerations /\ generation \in 0..MaxGenerations
    /\ lifecycleHeld \in BOOLEAN

MailboxTypes ==
    /\ commands \in Seq(Calls)
    /\ state \in [Calls -> States] /\ done \in SUBSET Calls
    /\ outcome \in [Calls -> Outcomes]
    /\ releasing \in [Threads -> SUBSET Calls]

OwnerTypes ==
    /\ opc \in [Generations -> OwnerPCs] /\ after \in [Generations -> ResumePCs]
    /\ held \in [Generations -> Calls \cup {NoCall}]
    /\ handshake \in {"none", "registry", "bindings"}

CallerTypes ==
    /\ cpc \in [Calls -> CallPCs] /\ answer \in [Calls -> Answers]
    /\ accepted \in [Calls -> 0..MaxGenerations] /\ ran \in [Calls -> Nat]

ControllerTypes ==
    /\ kpc \in [Controllers -> ControllerPCs]
    /\ expected \in [Controllers -> 0..MaxGenerations]
    /\ why \in [Controllers -> Reasons]

(* An owner thread that exists has a number start() has given out. *)
Numbered == \A g \in Generations : opc[g] # "unborn" => g <= generation

(* Every variable has its type. *)
TypeOK == /\ FlagTypes /\ LifecycleTypes /\ MailboxTypes /\ OwnerTypes
          /\ CallerTypes /\ ControllerTypes /\ Numbered

(* execute() never claims more than happened: a call answered with a result or
   an exception of its callback ran it exactly once, and one answered
   unavailable or timed out has not run it and never will, whatever the race
   between the timeout, the claim, stop() and a failure.  The callers' choice
   of another backend rests on it. *)
AnswersAreTrue ==
    \A c \in Calls : cpc[c] = "returned" =>
        ran[c] = IF answer[c] = "completed" THEN 1 ELSE 0

(* A caller that waits is owed an answer by a thread that is still there: its
   command is queued for, claimed by, or being swept by one. *)
WaitersAreOwed ==
    \A c \in Calls : cpc[c] \in {"wake", "wait", "hold"} /\ c \notin done =>
        \/ c \in Queued
        \/ \E g \in Generations : Alive(g) /\ held[g] = c
        \/ \E t \in Threads : c \in releasing[t]

(* At most one owner thread lives, and it is the one _thread names: a stop that
   times out or a start that gives up leaves no second dispatcher behind. *)
OneOwner == \A g \in Generations : Alive(g) => thread = g

(* No command outlives the owner thread it was submitted to: what is queued or
   claimed was accepted by the generation that now lives, so a restart's
   _commands.clear() forgets nobody. *)
OwnGeneration ==
    /\ commands # <<>> => thread # 0 /\ Alive(thread)
    /\ \A c \in Queued : accepted[c] = thread
    /\ \A g \in Generations : held[g] # NoCall => accepted[held[g]] = g

(* The owner never sleeps on work: while it is blocked in select(), a command
   whose caller has done its wake-up, and a stop whose requester has, have left
   a byte on the wake socket. *)
NoLostWakeup ==
    \A g \in Generations : opc[g] = "select" =>
        /\ (\E c \in Queued : cpc[c] # "wake") => wakeByte
        /\ stopping => \/ wakeByte
                       \/ \E k \in Controllers : kpc[k] \in {"stopPending", "stopRelease"}

(* A start() that returns normally has found this generation's globals bound
   and its adapters ready: readiness published by a failure or by a stop during
   startup is never mistaken for success. *)
StartedMeansReady ==
    [][\A k \in Controllers :
          kpc[k] = "startCheck" /\ kpc'[k] = "started"
            => initialized /\ expected[k] = generation]_vars

(* The mailbox implements the abstract executor. *)
Phase(c) ==
    IF ran[c] > 0 THEN IF outcome[c] = "none" THEN "running" ELSE "completed"
    ELSE IF outcome[c] = "unavailable" \/ answer[c] \in {"unavailable", "timeout"}
         THEN "refused"
    ELSE IF state[c] # "NONE" THEN "pending" ELSE "new"

Abstract == INSTANCE Executor WITH phase <- [c \in Calls |-> Phase(c)],
                                   runs <- ran

(* Each call is refused for good, or run once, alone, and answered. *)
ImplementsExecutor == Abstract!Spec

(* Every call of execute() returns: none waits for an owner that is asleep,
   dead or gone to another generation. *)
CallReturns ==
    \A c \in Calls : (cpc[c] # "idle") ~> (cpc[c] = "returned")

(* Once shutdown has begun, by stop() or by fail(), the owner thread ends, even
   when nothing arrives from the compositor. *)
StopEndsOwner ==
    \A g \in Generations : (Alive(g) /\ stopping) ~> (opc[g] = "dead")

(* Every start() and stop() returns or raises, also when they wait for each
   other and for an owner thread that itself calls stop(). *)
ControllerReturns ==
    \A k \in Controllers : (kpc[k] \notin Resting) ~> (kpc[k] \in Resting)
=============================================================================
