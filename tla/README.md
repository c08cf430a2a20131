# Talon Lite in TLA+

Talon Lite lets the Talon voice-control program type, click, scroll, read the
clipboard and follow the eyes on a Wayland desktop. Its core is one thread that
owns a Wayland display connection and everything on it; every other thread of
Talon reaches the compositor through that thread's mailbox. This directory holds
TLA+ models of the program, the TLC configurations that check them and TLAPS
proofs of their central theorems. Paths below are relative to the repository.

## The system

| Component | State it keeps | Operations | Hard behaviour | What makes it correct |
|---|---|---|---|---|
| Mailbox and lifecycle, `plugins/wayland_backend/connection.py` | Events `_running`, `_stopping`, `_ready`; `_thread`; deque `_commands`; wake sockets; `_error`, `_shutdown_error` | `start`, `stop`, `execute`, `fail`, `_run` | every thread against every other: timeout against claim, append against shutdown, stop against start, restart | a refused command never runs, an answered one ran once; one owner; nobody waits for ever |
| Barriers, `connection.py` `synchronize` | `_barriers` | request, wait, retire | done event, timeout and disconnect race for one future | nobody waits for a barrier that is gone |
| Registry, `connection.py` `_on_global*`, `_bind`, `deactivate` | `_announced_globals`, `_active_globals` | announce, remove, bind, deactivate | removal while binding fails; a singleton's successor | what is active is announced and bound once |
| Pipe transfers, `transfers.py` | transfers by descriptor, byte budget, deadlines | submit, service, expire, cancel | descriptor reuse, many ways to finish | each descriptor closed once, each future completed once |
| Clipboard, `clipboard.py` | device, offers, selections, sources, revisions | bind, select, write, clear, read, retire | requests and events cross on the wire; own echo against another program's selection; partial reads | every change is news, a returned write has no echo to come, nothing outlives its use, no partial snapshot |
| Seats, `seats.py` | bound seats, the selected one, listeners | bind, name, remove, close | a seat goes while adapters use it | adapters follow the choice and never use a seat that is gone |
| Outputs, virtual pointer, virtual keyboard, xkb: `outputs.py`, `pointer.py`, `keyboard.py`, `xkb.py` | protocol objects, held buttons and keys, keymap, locks, index of symbols, output metadata | bind, remove, press, release, tap, move, scroll, keymap, modifiers, close | compositor events between commands; requests that fail half way | nothing stays pressed; devices are those of the chosen seat, output and global; the compositor's keyboard state is the program's |
| Windows, `windows.py` | pending and committed toplevels, the published one | events, done, closed, finished | batches, removal of the active one | published is committed and alive |
| Desktop facade, `desktop.py`, `session.py`, `geometry.py` | composition of the above | one method per command | multi-step commands | a command is one mailbox transaction |
| Talon bridge, `plugins/wayland_runtime.py`, `wayland_scopes.py`, `wayland_clipboard.py` | generation, revisions, cron jobs, installed overrides | start, stop, window and clipboard events, reload | late callbacks of an older generation, delayed clears | only the newest window of the living generation is published; a stopped bridge owns nothing of Talon's |
| Fallback routing, `plugins/wayland_runtime.py`, `mouse_forwarder.py`, `hiss_mouse.py` | what the other backend holds, scroll remainders, the hiss feature, also on `sys` | click, drag, key, scroll, hiss, pop | a device lost between choice and command, an action that raises inside another | a release goes where the press is; nothing is done twice, but for a button that raised `ValueError` |
| Gaze delivery, `plugins/tracking_forwarder/gaze_dispatch.py` | active, delivering, pending token, job | start, stop, event, deliver | workers, cron threads and stop at once | one delivery at a time, none from before a stop, no job left behind |
| Gaze subscriptions, `control1_pointer_forwarder.py`, `control1_gaze_logger.py` | registered callback and intent, also across script reloads | start, stop, ready, quit, reload | unregister fails; module reloaded | a subscription is never lost or doubled |
| Gaze overlay, `control1_debug_overlay.py`; state hooks, `control1_state_events.py` | canvases, callback, reload record | start, stop, screen and control changes, reload, a delivery | every step may fail; a delivery runs beside the main thread | what could not be released is kept for a retry; no marker outlives its reason |
| Key expressions and modifier chords, `key_spec.py`, `core/modifier_chords.py` | none | parse, plan | up/down and repeat syntax | a plan releases what it presses |
| Compositor commands, `apps/*` | none | subprocess requests | none shared | not modelled |
| Vendored bindings and tools, `.vendor`, `tools`, `vendor.py`, `bindings.py` | none | build, load | none | not modelled |

The owner thread runs every protocol callback and every command, so the adapters
(`seats`, `pointer`, `keyboard`, ...) see no concurrency of their own: they are
reached by commands, by compositor events and by `close` at disconnect, in any
order. Concurrency is in the mailbox, in gaze delivery and in the Talon bridge,
where Talon's cron threads and tracking workers call in.

## Modules

Two conventions hold throughout. A handler that may raise at several points is an
operator that gives its *outcomes*, the states it may leave and whether it raised, and
an action takes one of them: `VirtualPointer`, `VirtualKeyboard`, `Scopes` and
`Overlay` are written so, because in this code what a failure leaves behind is most of
the behaviour. And every operator or action named "Broken" is a plausible mistake in
the one below it; it is no part of the specification and is there to show that the
properties notice it.

### `Executor`: what `execute()` promises

The abstract specification. Each call is new, pending, running, completed or
refused; a refusal is final, a callback starts at most once and while no other
runs. It knows no thread, queue, timeout or restart.

### `Connection`: mailbox, owner thread, start and stop

One module for `connection.py`'s `execute`, `_drain_commands`,
`_dispatch_events`, `_run`, `fail`, `start`, `stop` and what they call. A step is
a stretch of code between two points another thread can observe: a lock, an
Event, the wake socket, a wait. Three kinds of thread interleave:

* a *call* (`Calls`): one `execute()` from outside the owner: `Call` (the test
  without a lock), `Accept` (the test and append under `_command_lock`),
  `WakeOwner`, then `Return`, or after the timeout `Cancel` or `Hold`. A call made
  on the owner thread runs in place and belongs to the callback or event that
  makes it;
* a *controller* (`Controllers`): any thread that calls `start()` and `stop()`.
  `start()`'s first locked block is `StartShared` or `StartFresh`; waiting for
  `_ready`, reading `_error` and the final locked test are `StartReady`,
  `StartTimesOut`, `StartReads`, `StartChecks`. `_stop_thread` is `StopLocks`,
  `StopSweeps`, `StopReleases` and `Joined` or `JoinTimesOut`; it holds
  `_lifecycle_lock` (`lifecycleHeld`) from the first to the last;
* the *owner* of a generation: `Connect`, the loop (`TestStopping`, `Drain`,
  `StartCallback`, `EndCallback`, `Finish`, `Woken`, `OtherReady`, dispatch), and
  the `finally` clause (`ClearRunning` to `Die`). A callback or an event handler
  may end in `fail()` (`FailRecords` to `FailReleases`) or in `stop()` on the owner
  thread itself (`OwnerStopLocks` to `OwnerStopReturns`); `after` is where the
  thread goes on.

A generation is one `threading.Thread`: `thread` is the generation `_thread`
refers to, `ready` holds the generations whose `_ready` Event is set. The history
variables `accepted` and `ran` record which generation accepted a call and how
often its callback started. `_fail_pending_commands` is two steps, because the
Events are set after the lock is released: `FailPending` moves the commands to
`releasing`, `ReleaseSwept` sets their Events.

| Property | Says |
|---|---|
| `AnswersAreTrue` | answered with an outcome: ran once; answered unavailable or timed out: never runs |
| `WaitersAreOwed` | a waiting call's command is queued, claimed by a live owner, or being released |
| `OneOwner` | only the thread `_thread` names is alive |
| `NoLostWakeup` | an owner blocked in `select()` with work to do has an unread wake byte |
| `StartedMeansReady` | a `start()` that returns found this generation initialized |
| `ImplementsExecutor` | the mailbox refines `Executor` |
| `CallReturns`, `StopEndsOwner`, `ControllerReturns` | every `execute()`, shutdown, `start()` and `stop()` comes to an end |

### `Delivery` and `GazeDispatch`: coalesced gaze events

`Delivery` is the abstract specification of one dispatcher: it is on or off, at
most one event waits, at most one delivery runs, an event is accepted only while
it is on and neither of the two holds, and turning it off withdraws what waits.

`GazeDispatch` is `gaze_dispatch.py`, one action per section under `_lock` and
one per call of cron between two sections. An *event* stands for one `__call__`
that passes its guard, for its token and for the cron job it asks for. `worker`
is where that `__call__` is (`Accept`, `Schedule`, `Record`, `CancelStale`, or
`Forget` when cron raises), `jobs` what cron and its thread do (`Fire`,
`Deliver`, `EndDelivery`), `taken` the job a `stop()` took out under the lock and
has still to cancel (`Stop`, `StopCancels`). Cron may fire a job before
`__call__` has recorded it, and cancelling a job that has fired does nothing. An
event is used again once nobody refers to it, so runs are unbounded.

| Property | Says |
|---|---|
| `JobsAreKnown` | a scheduled job is recorded, or in the hands of a worker or a stop that will cancel it or is about to record it |
| `ImplementsDelivery` | the dispatcher refines `Delivery`: deliveries never overlap, and none begins while stopped or for an event from before the last stop |
| `PendingEnds` | a token is always consumed |

### `ScriptModules`, `GazeSubscription`, `Overlay`: scripts that are loaded again

A *module* is one execution of a script file. Loading it again runs top level code
that first releases what the former module retained on `sys`; that may raise, and then
Talon runs no module at all.

The pointer forwarder and the gaze logger are the same state machine around different
callbacks, so `GazeSubscription` models both: `registered`, the callback and the intent
retained on `sys`, and what Talon's tracking system holds. Each call into the tracking
system may raise before or after its effect; the last lines of a file, which subscribe
to readiness and quit, are taken not to raise. A registration that raises after its
effect leaves Talon a callback that the code neither starts nor retains
(`control1_pointer_forwarder.py:65`): `stray` is the history of these. No later stop or
load retires them, whatever the comment at line 62 says of "its exact callback"; what
is checked is that they never deliver and that nothing else is lost. Each module's dispatcher is a `Delivery`
(`UsesDelivery`, proved), which `GazeDispatch` implements, so the two compose. That
`RetirementFails`, `LoadFails` and `Loads` all stop the retained dispatcher first is
what `OnlyTheLoadedDelivers` and `LoadResumes` rest on.

`Overlay` is the marker on a canvas per screen: canvases made, closed and retained one
by one, with `_publish_reload_state()` after each change, the rollback of a start, of a
rebuild and of a load, and the hook that follows Control Mouse. `_update_gaze()` is two
steps, its tests (`UpdateTests`) and the drawing (`UpdateDraws`), because cron's thread
runs it while the main thread may stop, rebuild or reload. `stuck` and `missed` are
history variables: what refused to be released, and whether a call has raised, or an
update was overtaken, since the marker was last known to be right. `MCTracking` checks
the two modules in one run; they share nothing but Talon's rules, so that a behaviour
of either with the other at rest is enough.

| Property | Says |
|---|---|
| `SubscriptionIsRetained` | the tracking system holds at most the callback that `sys` retains, and those whose own registration raised |
| `OnlyTheLoadedDelivers` | only the loaded module's dispatcher runs, while its callback is subscribed and retained |
| `LoadResumes` | a load that succeeds restores what the user asked for, and nothing older but strays |
| `OverlayOwned` | all that Talon holds for the overlay, but strays, is on record with the user's intent; a disabled overlay has left only what refused to go, an enabled one has one canvas per screen |
| `MarkerIsWanted` | a marker is shown only by an enabled overlay while Control Mouse is on, but for what raised or was overtaken |

The run `gaze_enabled` shows a disagreement between code and description: after a
stop whose `unregister` raised, `_registered` is still true while the dispatcher
is stopped; the start action then returns without starting it
(`control1_pointer_forwarder.py:57`). Nothing is forwarded until a stop whose
`unregister` succeeds is followed by a start, or the file is loaded again: a readiness
event finds the feature enabled and registered and does nothing. The overlay's `_register_gaze()` has the same gap
after a control change whose `unregister` raised. The exception in `MarkerIsWanted` for
an overtaken update is the gap that `docs/potential-changes.md` section 1 describes.

### `Transfers`: clipboard pipes in the owner's loop

`transfers.py` inside the turn of `_dispatch_events` (`phase`: commands, prepare,
dispatch, service) with the three parties that use it: callers of
`Clipboard.read()`, pastes by other programs (`SendData`), and the retirement of
the data device. `pipe[t]` holds the fields of a `PipeTransfer`, `active` is
`_active`, `Live` the identity test of `service()` and `_finish()`. Descriptor
numbers are used again as soon as they are closed, so what `select()` returned
and what `read()` listed for cancellation may name another transfer's number by
the time it is used. A read begins as one command in several steps (`BeginRead`,
`StartPart`, then `Begun` or `BeginReadFails`), which only deadlines interleave;
`ReadRaises` is the moment its caller, on another thread, makes the list that
`CancelPending` uses later. `read()` from the thread's point of view is all or
nothing: `SnapshotsAreWhole` matters because a pipe that runs into the exhausted
budget of its siblings reads zero bytes and completes as if at its end.

| Property | Says |
|---|---|
| `DescriptorsOwned` | open exactly while held, unanswered exactly while held: nothing closed twice, leaked or left unanswered |
| `SnapshotsAreWhole` | a read that returns has every byte of every format |
| `TransfersBelongToDevice` | no transfer outlives the device it was requested from |
| `CancelsOwn` | cancelling an old list ends pipes of that read only |
| `FutureCompletes` | every transfer ends |

### `Seats` and `Clipboard`: selections over an asynchronous wire

`Seats` is `seats.py` up to the call of its listeners; `Clipboard` extends it and
conjoins `_refresh_device`, its listener, to every step that calls it (`Listen`). All
callbacks and commands run on the owner thread, one per action; what interleaves
is the wire. `requests` and `events` are the two directions of the connection;
the compositor (`Serve`, `Copy`, `Finish`) is external and takes requests in order,
cancels a source it replaces, announces every selection to the device, and may
omit the event for our own clear (`Echoes`), as `clipboard.py:293` says some do.
Events for a device that was retired meanwhile still arrive and are ignored.

A *writer* is a caller of `Clipboard.write()`: `Write` is its command, the request and the
sync callback behind it (`synchronize`); then `Answered`, or `TimesOut` and `Raises`, which
retires the barrier if the owner still runs commands. `WriteRaises` is
`_set_selection` failing before its request or after it, or the sync that should
follow it failing when the request is already on the wire. A retirement that raises
half way stops the connection before a new device is made (`Refresh`); any other
handler that raises has done its work by then, and `Stop` stands for it. The
seat of a finished device stays refused until a manager is bound again.

| Property | Says |
|---|---|
| `DeviceFollowsSeat` | between callbacks there is a device exactly when there should be, on the selected seat, which is still bound |
| `ObjectsOwned` | an offer lives exactly as long as it is a selection or about to be; a source keeps its payload as long as the compositor may ask for it, and no longer |
| `EveryChangeIsNews` | no selection changes or is lost behind an unchanged revision (an event that empties what is empty is not looked at) |
| `ReturnedIsSettled` | after `write()` returns nothing of its own is still to come |
| `AgreesWhenQuiet` | an empty wire means both sides agree on what is empty |
| `WriteEnds` | a write that waits stops waiting, timeout or not |

The run `clipboard_clear` shows a disagreement between code and comment. The stale
offer is retired when the clear is *sent*. If another client's copy is announced
between that and the compositor handling the clear, and the compositor omits the
clear's event, `write(())` returns with that offer selected: `read()` then reads from
an offer the compositor has dropped instead of returning nothing.

### `Desktop`: input devices on a desktop that changes

`Desktop` composes five modules as `WaylandDesktop` registers them: `Seats`, `Outputs`
(bound outputs, the metadata they accumulate and commit, the choice of the output a
Talon screen stands for), `Globals` (announcement, activation and succession of the
globals of which one is used at a time), `VirtualPointer` and `VirtualKeyboard` (with
`KeySpec`, the plan of a key expression). Handlers and commands run one at a time on the
owner thread, so an action is a whole handler or command with the listeners it calls,
keyboard before pointer; what interleaves is their order, and any request in them may
raise, which ends the connection (`Ends`) with whatever was sent so far. Commands also
run before the first round trips have ended, as they do in the code.

`pointer.pressed` and `keyboard.down`, `sent` are what the compositor has; `held` is what
the program thinks it has. A device that is destroyed with something pressed leaves it in
`stuck` unless its release was sent: what is pressed and not held is never released, and
the release of what is held is tried but may itself raise (`_destroy_pointer()`,
`_destroy_virtual()`). The buttons and keys whose release raised there are kept in
`refused`, a history variable, so that `NothingStuck` says exactly which presses can be
lost: those, and with them the connection ends. Until the next connection, which is a new
client to the compositor, neither is emptied. `VirtualKeyboard` includes `xkb.py`: a keymap is the table of the
symbols its keys show under each combination of modifiers and locks (`Symbols`), `Index`
is what `_build_key_index()` makes of it, and the XKB state keeps which locks the index
was last built for (`indexed`). libxkbcommon's lock keys lock when they go down and
unlock, if they were locked, when they go up (`XkbUpdate`).

| Property | Says |
|---|---|
| `NothingStuck` | whatever raises or goes, a button or key that its device leaves down is one whose own release raised when that device was destroyed, and the connection then ends |
| `DevicesFollowSeat` | pointer and keyboard are those of the selected seat, none missing that could be there |
| `OutputPointerIsRight` | absolute motion goes to the output its screen stands for now, on the selected seat |
| `ManagersFollowGlobals` | an adapter has the global that is active; none is active only if none is announced |
| `KeyboardAgrees` | keymap, keys, modifiers and locks are the same for the compositor, the adapter and its one XKB state, and every name of the index shows its symbol in them |
| `InputIsTransparent` | taps, clicks and modified clicks leave held what was held; temporary modifiers end exactly the presses they began |

Without a selected seat, an output pointer made before the first synchronization may
outlive its seat (`_on_seat_changed()` compares with the main pointer's seat, which there
is none of); it goes when a seat is selected, and is not used before.

### `Windows`, `Scopes`, `Bridge`: the desktop as Talon sees it

`Windows` is the toplevels and the choice of the active one; `Scopes` the two scope
providers and the clipboard backend of Talon that a bridge replaces and gives back, with
rivals that replace them too; `Bridge` is `_TalonWaylandBridge` with four threads: Talon's
main thread (`main`: start, stop, ready, quit, reload, each a sequence of calls of which
any may raise), the desktop's owner thread (`WindowEvent`, then `Tell`), cron's
(`Take`, then `Publish`) and a script's (`BeginPress`, then `BeginRecord`). Main and cron
hold `_lifecycle_lock` for the whole of what they do (`Free`). A reload makes the next of
`Bridges`; the former may still have jobs, a listener call under way or a press to record.

| Property | Says |
|---|---|
| `StoppedOwnsNothing` | a bridge that is stopped, or could not be started, has no provider, value, backend, callback, listener, job or connection, whatever failed and was tried again; a callback that Talon took although its registration raised is nobody's to give up |
| `TalonShowsActive` | when nothing is left to do Talon shows the compositor's active window, or nothing of ours |
| `HoldsAreOwned` | every temporary press that is down has exactly one token, and no token ever names another's press |

Looking up the providers may raise as well as every call that follows, and
`registry.register()` before or after Talon has taken the callback; in the latter case the
callback stays with Talon (`stray`) until the module is loaded again, and `stop()` does
not know of it. A job that is cancelled may already have fired and wait for
`_lifecycle_lock` (`Fired`); cron has one thread, so at most one does, and its revision makes it
do nothing. Rivals act at any time. `cron.after()` and the removal of a listener are taken
not to raise, and scripts to run one at a time. When a window context comes back `scopes.install()` does not look again at
who provides the scopes: a rival that replaced a provider meanwhile is replaced, and
`restore()` gives back the provider captured at `start()`.

### `Routing`: native input or the next implementation

`mouse_forwarder.py`, `hiss_mouse.py` and the key action of `wayland_runtime.py`. A script
calls actions that call others (`todo` is the stack); each first chooses its backend and
then performs its command there, and between any two steps the native devices may come
or go. An error unwinds the stack to the next `finally` (`Raise`). `memory` and `saved` are what
the modules and `sys` know of the presses in the other backend, `other` what is down there.

| Property | Says |
|---|---|
| `OwnershipSurvives` | what is down in the other backend is what the record says, after errors and reloads too; Control Mouse is on by a hiss only with the feature on |
| `ReleasesReachOwner` | what an action lets go is up in both backends; a modified click leaves no modifier down |
| `ActsOnce` | nothing is clicked, dragged or scrolled twice, but for a button a `ValueError` broke off; a touch ends a drag or clicks, and the wheel turns as far as asked |

`ActsOnce` has an exception, a known gap of the code. `mouse_click`,
`mouse_drag`, `mouse_release` and `mouse_drag_toggle` catch every `ValueError` of the native command,
meant for a button that is not supported; one that pywayland raises while the button is
sent fails the connection (`pointer.py`), is caught as well, and the other backend does
the action in full (`Replayed`). `docs/potential-changes.md:22` keeps a rule against that and its
section 9 describes the risk. `acts` records such a button as done `"partly"`, and `ActsOnce` does not
count it: a click may be done twice.

`OwnershipSurvives` has an exception too. `_disable_hiss_mouse()` saves that the feature is off
before it switches Control Mouse off; if that raises, Control Mouse stays on (`control = "left"`) and,
the feature being off, the end of the hiss does not see to it.

`ReleasesReachOwner` excepts `Mixed`: a native drag with a drag of an unsupported button in
the other backend. A release then goes to the other backend alone and the native button stays down
until the next native release, although `mouse_forwarder.py:277` and `docs/tasks.md:15` speak of releasing
all. A modified click that is sent on presses its modifiers in the other backend also if the user
holds one of them there, and releases it with the others.

## What the runs check, and their bounds

| Run | Instance | Why it is enough |
|---|---|---|
| `mailbox` | 2 calls, 1 controller, 2 generations | two commands queue behind each other and a restart finds what the generation before left; a further call would only repeat the roles of these two |
| `progress` | 1 call, 1 controller, 2 generations | liveness, without symmetry; the call and its owner, or the owner and a controller at one lock, make the cycles |
| `gaze_dispatch` | 3 events, 2 controllers | one event delivering, one pending, one stale, with two stops in flight; small enough without symmetry, so liveness too |
| `tracking` | 3 modules, 4 canvases, 2 screens | a loaded module, a retained one and a new one; two canvases in use while two of an older set refuse to close |
| `gaze_enabled` | 4 modules | the smallest failure needs one |
| `transfers` | 2 transfers, 2 descriptors, 1 read of up to 2 formats, budget 1, pipes of up to 2 units; `MaxTransfers` is all of them, so the refusal at `MAX_TRANSFERS` is that of a read that fails at any of its formats (`BeginReadFails`) | two pipes share a budget that either overdraws, while a paste takes over a number; liveness, without symmetry |
| `clipboard` | 2 seats, 3 devices, 3 offers, 2 sources, 1 writer, 1 mode, both kinds of echo | an old device, its successor and one more on the wire; an offer selected, one replaced, one announced |
| `clipboard_writers` | 2 writers, 2 callbacks, 2 sources, 1 seat, echoes | two barriers cross, or one is left behind by a timeout; liveness, without symmetry |
| `clipboard_clear` | 1 writer, 1 mode, no echo | the smallest in which a copy crosses a clear |
| `desktop` | 2 compositors: 2 outputs and 2 pointer managers with 1 seat; 2 seats, 2 keyboard managers, 2 keymaps and 1 pointer manager | in each the thing that goes has a successor. The keymaps have 4 keys, a modifier and a lock, with their letters on different keys and one that needs the modifier in one of them only |
| `bridge` | 2 bridges, of 3 and 2 generations; 2 windows; 1 window and a rival provider; or 2 presses and a rival backend; 3 revisions | a bridge is started, fails, is started again and replaced; of the revisions one is in a job, one is being published and one is new |
| `routing` | a supported and an unsupported button, 1 key, wheel steps of 2 units | a press for each backend; a remainder of either sign |

In `Clipboard` what starts an exchange (a seat or manager event, a write, a copy, a
finished device) needs `Room`: fewer than `MaxWire` messages under way and revisions
below `MaxRevision`; what goes on with an exchange is not bounded. `MaxGenerations` bounds
the threads of a run of `Connection`, `MaxGeneration`, `MaxRevision` and `MaxPresses` the starts,
window changes and presses of `Bridge`; `MaxSize` and `MaxParts` what
one pipe or read holds, `MaxScreens` the screens. No other bound is added: calls, events,
modules, canvases, transfers and descriptors are finite sets whose members are used again.
Deadlock is checked in every run but `bridge`, whose behaviours end when the bounds are
reached and the last bridge has been stopped.

## Fairness

* `Connection`: the scheduler runs every thread that can go on (weak fairness of
  each call, owner and controller); a thread that wants `_lifecycle_lock` gets it
  if it is released again and again (strong fairness of the steps that take
  it), as CPython's locks give in practice. Callbacks return. Nothing is assumed
  of callers, of the compositor, or of who calls `start()` and `stop()`: a
  timeout may or may not strike, and an owner may sleep in `select()` for ever
  when there is nothing to wake it.
* `GazeDispatch`: workers and cron threads go on; a scheduled job fires. Nothing
  is assumed of events or controllers.
* `Transfers`: deadlines pass, and a caller whose wait is over goes on. The loop
  turns (strong fairness): `_drain_commands` goes on until the mailbox is empty,
  so threads that submit commands without a pause could hold it there, and the
  assumption is that it does find the mailbox empty again and again.
* `Clipboard`: the owner dispatches events and disconnects once it is to stop, the
  compositor handles requests, and a thread whose wait is over goes on. No timeout
  is assumed to strike.

`Desktop`, `Overlay`, `Bridge` and `Routing` make no promise that something happens by
itself: they react to calls and events, so they have safety properties only.

## What is proved

Every invariant and every action property that a passing run checks is a theorem, and so are the
three refinements. The modules `XProofs` hold the theorems about `X` with what they rest on;
`TrackingProofs` is about `GazeSubscription` and `Overlay`, `DesktopProofs` about `Desktop` with the
adapters it is composed of. They hold for every value of the constants that satisfies the named
assumptions, which the runs evaluate:

* values that stand for "nothing" or "somebody else" (`NoCall`, `NoEvent`, `NoModule`, `NoWindow`,
  `NoOutput`, `NoGlobal`, `NoKey`, `None`, `Original`, `Other`) are not elements of the sets they complete, and
  sets of different things that share a variable are apart (controllers and generations, modules and canvases);
* seats, globals, keys and bridges are numbers, as in the code, and a keymap has finitely many keys,
  with modifiers and locks among them; limits are natural numbers; `Chunk` and `Step` are not zero;
* `Clipboard` has the modes `"main"` and `"select"` at most: the runs have one
  of them, the theorems hold for both together;
* `Desktop` has the two kinds of manager there are (`Interfaces`), expressions and chords are sequences,
  screens stand for metadata of outputs, and a compositor gives its seats keymaps of `Keymaps`;
* `Routing`'s left button is supported, its modifier is a key, and supported buttons are buttons.

* `TypeCorrect`. `TypeOK` alone is not inductive: that the owner's `held` command is a
  call when it is claimed or finished needs `Holding`, which says at which steps,
  interrupted ones included, the owner has a command in hand.
* `AnswersCorrect`. `AnswersAreTrue` speaks of the moment a caller returns, but what
  makes it true happens earlier and elsewhere. `CallInv` ties a caller's place to
  its command's state and to the count of its runs; `HeldInv` says that the
  command in an owner's hand is claimed, by it alone, and whether its callback
  has started; `QueueInv` that what is queued is there once and has not run;
  `SweptInv` that what a sweep took out is done. Together with the types they are inductive.
* `OneOwnerCorrect`. `OneOwner` is inductive given the types: a thread is forgotten only
  when it has died.
* `ExecutorImplemented`. Each step maps to a step of `Executor` or a stutter; that
  `Begin` finds nobody running needs `OneOwner` and `ClaimedInv` (a claimed
  command is in the hand of a living owner).
* `WaitersCorrect`, `GenerationCorrect`, from one inductive invariant. `LifeInv`:
  the living owner is the newest generation, `_running` means that it has not come to its
  `finally`, and a command is queued only while the owner that makes the last sweep has
  yet to make it; this is why a restart and a join find the mailbox empty. `ReleasingInv`: a
  thread has swept commands only while it is about to release them, so that no sweep
  overwrites another's. `AcceptedInv` and `OwedInv` then follow from what every step
  but an acceptance does to the mailbox (`NobodyForgotten`).
* `WakeupCorrect`. `NoLostWakeup` speaks of the blocking wait; what makes it true begins
  when the drain has found the mailbox empty, and lasts through failures and stops that
  interrupt the way to `select()` (`WakeInv`). It needs that the wake sockets are
  open while an owner lives.
* `StartCorrect`, from `ReadyInv`: a generation's `_ready` is set by its bindings, by a
  failure that has begun to stop it, or after `_running` was cleared, and the last two fail
  the check that `start()` makes under the lock.
* `GazeTypeCorrect`, `DeliveriesSerialized`, `NoJobLost`, `NeverWedged`,
  `StopRetires`, `DeliveryImplemented`, from one inductive invariant: `DeliveryInv` (a running
  callback is what `_delivering` says, and a token is valid only while active and
  not delivering), `TokenInv` (where the valid token is, and that it postdates the
  last stop), `JobInv` (a recorded job is the valid token's) and `JobsAreKnown`.
* `NoSubscriptionLost`, `OldModulesAreSilent`, `NothingOldWaits`, `LoadsRestore`,
  `DispatchersAreUsed`, from the conjunction of the first three with `OwnerInv`: a
  registered module is the one retained, and a loaded module that is not registered
  has left nothing in the tracking system but strays (callbacks Talon took although
  their registration raised, which nobody retains).
* `TransfersTypeCorrect`, `DescriptorsCorrect`, `ReadsAreWhole`, `RetirementComplete`,
  `CancellationIsOwn`. `DescriptorsOwned` is inductive by what `Finish` and `Register`
  do to it (`FinishEffect`, `RegisterEffect`). `SnapshotsAreWhole` is not: a part may
  complete with bytes left, and that this fails the read needs `BudgetInv` (a part
  completes short only when the budget is overdrawn, and then another part has
  failed) and `PartsInv` (which pipes are a read's, while it is a read's).
* `ClipboardTypeCorrect`, `DeviceIsDue`, `RevisionsAreNews`, `BarriersAreKept`. `DeviceIsDue`
  adds `Bound` (the choice is a bound seat, and only a running connection has seats
  and a manager) and two lemmas on what a renewal and a retirement leave;
  `ChooseSeat` returns a member because natural numbers are well-founded
  (`FirstIsMember`). `RevisionsAreNews` needs `EmptyUntilTold` (a mode not yet available has
  no selection to lose), `BarriersAreKept` that no two writers share a callback.
* `ObjectsAreOwned`, `ReturnedSettles`, `QuietMeansAgreed`, over two queues of any length. What the
  properties say of an object or a writer at one moment rests on the order of what is under way.
  `SettledInv`: after the request or event that closes a barrier nothing of that callback's making
  follows in either queue (`LastWord`), so that a writer that has returned has nothing under way.
  `OfferInv`: every announced offer is followed by the selection that uses it, and by nothing between
  (`Announced`, `Ahead`). `DeviceInv`: both sides have the same device, or the request for it is under
  way with everything asked of it behind, or its end is. `SourceInv`: a kept source is asked for, selected or reported
  cancelled (`KeepInv`), and only one of the three (`OnceInv`). `QuietMeansAgreed` holds where the
  compositor echoes every clear (`Echoes = {TRUE}`, stated in the theorem; without the echo
  `clipboard_clear` shows a write that returns and leaves them in disagreement); its invariant `AgreeInv` says for each mode that a request is under way,
  or the last word of the events is right, or there is none and both sides agree.
* `NothingIsStuck`, `DevicesAreTheSeats`, `OutputPointerRight`, `ManagersFollow`, `KeyboardIsAgreed`,
  `DesktopTypes`, from `DesktopInvariant`. `DInv` says what a keyboard and a pointer are like after each handler,
  whichever of its requests failed (`Known`, `Steady`), that the compositor has been told the state of the XKB
  object unless the connection stops (`Agrees`), that devices follow seat and
  managers (`Follow`), that only handlers that raised left something down (`Tidy`), and what a connection that is over
  has left (`AtRest`). Plans, releases and
  keymap changes are folds over sequences and sets, of any length: what they keep is proved by taking the
  shortest part of the fold that breaks it (`FoldLeft` and `FoldSet` are unfolded into the iteration
  they choose, once, and everything else cites that).
* `TransparentInput`, that taps, clicks and temporary modifiers undo themselves, from `DInv` and from what planning a
  sequence of strokes leaves held: what it found after taps, no less after downs, so that a modified click
  knows its own modifiers by difference. `EntryFacts`: what a name resolves to shows that
  symbol under the locks the index was built for.
* `OverlayIsOwned`, `MarkerWanted`. `OverlayIInv`: while a module runs, what it holds is what is on record, its
  canvases are as many as the screens when it is enabled, only what refused to go is left when it is
  not, and no marker stands that is not wanted unless a call raised or a delivery is under way; while no module runs, what Talon
  holds is on record and refused to go. The lemmas follow the calls: closing canvases, making them, a start
  and its rollback, a hook, a load.
* `HoldsCorrect`, for any number of bridges, windows, generations and
  presses. `HoldsAreOwned` needs that token numbers only grow, over reloads (`TokensAreFresh`),
  that a press is down only while the desktop runs (`HeldByDesktop`), and that a reload is
  under way only if there is a next bridge (`Reloading`). Most actions are bystanders: they
  leave tokens, presses and numbers alone (`AnyIsBystander`), which one lemma settles for all.
* `StopsClean`, `ShowsActive`, from `BridgeInvariant`. `BridgeInv` is inductive together with the invariant of
  `HoldsCorrect`. `Owned`: what Talon has of ours (providers, clipboard backend, declarations) is recorded in the
  bridge in force, and the bridges of other loads have nothing. `Phase`: what is left of it at each
  step of `start()` and `stop()`, a failure having raised or not (a `stray` callback is no part of it). `Informed`: the active window is at
  one place on its way to Talon, in the listener's call, in the job, in cron's hands or with the scopes.
* `RoutingOwnership`, for any nesting of actions (and with its exception, above), from the shape of the
  records alone: only five actions touch what it is about, and when Community's drag has
  ended (`Ended`) the record may be cleared because everything in it has been released.
* `RoutingReleases`, `RoutingActsOnce`, `RoutingTypes`. Both properties speak of the end of a call, so their invariant
  says where a call is. `StackInv`: which actions may be on its stack, at most three deep.
  `WorkInv`: what has been done by then. `ReleaseInv`, `KeyupInv`, `EndInv`, `ModInv`: where the buttons and keys are that
  the call found or pressed. The step that carries them is the choice of the backend: an action goes to the native
  one only while the other holds nothing, and to the other only if the native one holds nothing the call found.

The theorems `DeliveriesSerialized`, `NeverWedged`, `StopRetires`, `NothingOldWaits`,
`DispatchersAreUsed`, `BarriersAreKept`, `GenerationCorrect`, `BridgeInvariant` and the type theorems state facts that
no run checks by name: they are implied by the refinements and invariants that are, or are steps towards them.

Only model-checked: the liveness properties (`CallReturns`, `StopEndsOwner`, `ControllerReturns`, `PendingEnds`,
`FutureCompletes`, `WriteEnds`), which are out of the proof system's reach, and the three runs that
show a violation. Induction over data is out of its reach as well; where the proofs of
`Desktop` need it they take a smallest counterexample, for what the folds keep. What
a plan is beyond that (which events, in which order) has no theorem.

## Not modelled

* `apps/*` (one subprocess call each), `session.py`, `geometry.py`, `errors.py`, `gaze_sample.py`,
  `core/modifier_chords.py` and the list of app aliases: they keep no state.
* `.vendor` (the generated protocol bindings, more than half of the Python lines of the
  repository), `third_party`, `tools`, `vendor.py`, `bindings.py`: not this program's logic; the
  bindings appear as the requests and events the adapters exchange with the compositor.
* Text and data: the spelling of key expressions and keysyms, ctypes declarations of
  libxkbcommon, files of keymaps, MIME conversion, log lines and warnings, wheel
  resolution, coordinates, screen geometry and layout groups.
* Two hazards in `PROJECT.json` have no property: that a shutdown failure is reported by exactly one
  `stop()`, and that the drain of the mailbox may be kept busy (an assumption, see Fairness).

## Plan

Done, in this order, because each builds on the one before: `Executor`, `Connection`;
`Delivery`, `GazeDispatch`, `GazeSubscription`; `Transfers`; `Seats` and `Clipboard`;
`Globals`, `Outputs`, `VirtualPointer`, `VirtualKeyboard`, `KeySpec`, `Desktop`; `Windows`, `Scopes`, `Bridge`;
`Routing`; `Overlay`.

Left: the screen target of `wayland_runtime.py`; the MIME snapshots of `wayland_clipboard.py` if their
conversion is ever to be relied upon.
