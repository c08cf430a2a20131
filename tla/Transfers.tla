------------------------------ MODULE Transfers ------------------------------
(***************************************************************************)
(* plugins/wayland_backend/transfers.py with its users: the owner thread's *)
(* loop, the data device of clipboard.py, and the callers of               *)
(* Clipboard.read(), who wait for pipes on threads of their own.           *)
(*                                                                         *)
(* Each turn of the loop runs commands, expires, dispatches events,        *)
(* selects, dispatches and expires again, and then serves what it had      *)
(* selected: by then perhaps finished, its descriptor's number in other    *)
(* hands.  The model uses a transfer object again once nothing refers to   *)
(* it, and a descriptor's number once it is closed.  Bytes are counted in  *)
(* units; what they are is left out.                                       *)
(***************************************************************************)
EXTENDS Integers, FiniteSets, Sequences, FiniteSetsExt

CONSTANTS Transfers,        \* PipeTransfer objects
          Descriptors,      \* file descriptor numbers
          Devices,          \* data devices, the owners of transfers
          Reads,            \* callers of Clipboard.read()
          MaxTransfers,     \* MAX_TRANSFERS
          MaxBytes,         \* MAX_BYTES
          Chunk,            \* _CHUNK, the most moved for one readiness
          MaxSize,          \* bound on the bytes in one pipe
          MaxParts,         \* bound on the formats of one read
          None

ASSUME SizesAssumption ==
    /\ MaxTransfers \in Nat /\ MaxBytes \in Nat /\ Chunk \in Nat \ {0}
    /\ MaxSize \in Nat /\ MaxParts \in Nat

VARIABLES
    phase,                  \* what the owner's loop is doing
    selected,               \* what select() returned and is not yet served
    device,                 \* Clipboard._device
    active,                 \* PipeTransfers._active
    open,                   \* the descriptors open for transfers
    pipe,                   \* the fields of each transfer
    future,                 \* its future
    due,                    \* the transfers whose deadline has passed
    remaining,              \* the ReadBudget of each read
    reader,                 \* where each read() is
    parts,                  \* its local "transfers"
    pending                 \* its local "pending"

loop == <<phase, selected, device>>
service == <<active, open, pipe, future, due>>
readers == <<remaining, reader, parts, pending>>
vars == <<loop, service, readers>>

(* A transfer that reads belongs to a read(), whose budget it shares; one that
   writes to none.  "moved" is what it has moved, "left" what is still to come. *)
Pipes == {p \in [fd : Descriptors, owner : Devices, read : Reads \cup {None},
                 left : 0..MaxSize, moved : 0..MaxSize] :
            p.left + p.moved <= MaxSize}
ASSUME NoneAssumption == None \notin Transfers \cup Devices \cup Reads \cup Pipes

Smaller(a, b) == IF a < b THEN a ELSE b
Parts(r) == {parts[r][i] : i \in DOMAIN parts[r]}
Writes(t) == pipe[t].read = None

(* The identity test of service() and _finish(). *)
Live == {t \in Transfers : pipe[t] # None /\ active[pipe[t].fd] = t}
Unused == {t \in Transfers \ (Live \cup selected) :
             \A r \in Reads : t \notin Parts(r) \cup pending[r]}

Init ==
    /\ phase = "commands" /\ selected = {} /\ device = None
    /\ active = [d \in Descriptors |-> None] /\ open = {}
    /\ pipe = [t \in Transfers |-> None]
    /\ future = [t \in Transfers |-> "none"] /\ due = {}
    /\ remaining = [r \in Reads |-> MaxBytes]
    /\ reader = [r \in Reads |-> "idle"]
    /\ parts = [r \in Reads |-> <<>>]
    /\ pending = [r \in Reads |-> {}]

-----------------------------------------------------------------------------
(* PipeTransfers. *)

(* start() where it succeeds. *)
Register(t, d, read, size) ==
    /\ Cardinality({e \in Descriptors : active[e] # None}) < MaxTransfers
    /\ t \in Unused /\ d \in Descriptors \ open
    /\ active' = [active EXCEPT ![d] = t]
    /\ open' = open \cup {d}
    /\ pipe' = [pipe EXCEPT ![t] = [fd |-> d, owner |-> device, read |-> read,
                                    left |-> size, moved |-> 0]]
    /\ future' = [future EXCEPT ![t] = "pending"]
    /\ UNCHANGED due

(* Broken: _finish without the identity test closes the number for whoever has
   it now. *)
FinishAny(S, how) ==
    LET F == {t \in S : pipe[t] # None}
        fds == {pipe[t].fd : t \in F}
    IN /\ active' = [d \in Descriptors |-> IF d \in fds THEN None ELSE active[d]]
       /\ open' = open \ fds
       /\ future' = [t \in Transfers |-> IF t \in F THEN how ELSE future[t]]
       /\ due' = due \ F

(* _finish() for those of S that are still active. *)
Finish(S, how) ==
    LET F == S \cap Live
        fds == {pipe[t].fd : t \in F}
    IN /\ active' = [d \in Descriptors |-> IF d \in fds THEN None ELSE active[d]]
       /\ open' = open \ fds
       /\ future' = [t \in Transfers |-> IF t \in F THEN how ELSE future[t]]
       /\ due' = due \ F

(* Broken: writers are forgotten. *)
ExpireReads == Finish({t \in due : ~Writes(t)}, "error")

(* expire(). *)
Expire == Finish(due, "error")

(* Time passes a deadline. *)
Tick(t) ==
    /\ t \in Live \ due
    /\ due' = due \cup {t}
    /\ UNCHANGED <<loop, active, open, pipe, future, readers>>

Serving(t) ==
    /\ phase = "service" /\ t \in selected
    /\ selected' = selected \ {t}
    /\ UNCHANGED <<phase, device, reader, parts, pending>>

(* service() of a transfer that was finished meanwhile, or whose pipe would block
   after all. *)
ServeNothing(t) == Serving(t) /\ UNCHANGED <<service, remaining>>

ServeFails(t) ==
    /\ Serving(t) /\ t \in Live
    /\ Finish({t}, "error")
    /\ UNCHANGED <<pipe, remaining>>

(* The end of the data; forgetting or closing the descriptor may still fail. *)
Completes(t) == \E how \in {"result", "error"} : Finish({t}, how)

Moves(t, n) ==
    /\ pipe' = [pipe EXCEPT ![t].left = @ - n, ![t].moved = @ + n]
    /\ UNCHANGED <<active, open, future, due>>

(* Broken: asks for no more than the budget, and takes "nothing" for the end. *)
ServeReadExact(t) ==
    LET ask == Smaller(Chunk, remaining[pipe[t].read])
    IN /\ Serving(t) /\ t \in Live /\ ~Writes(t)
       /\ \/ (pipe[t].left = 0 \/ ask = 0) /\ Completes(t) /\ UNCHANGED <<pipe, remaining>>
          \/ \E n \in 1..Smaller(ask, pipe[t].left) :
               /\ remaining' = [remaining EXCEPT ![pipe[t].read] = @ - n]
               /\ Moves(t, n)

(* A read takes one unit more than the budget, to tell "full" from "too much".
   Once the budget is overdrawn, other pipes of the same read ask for no bytes,
   get none and so finish as if complete. *)
ServeRead(t) ==
    LET r == pipe[t].read
        ask == Smaller(Chunk, remaining[r] + 1)
    IN /\ Serving(t) /\ t \in Live /\ ~Writes(t)
       /\ \/ (pipe[t].left = 0 \/ ask = 0) /\ Completes(t) /\ UNCHANGED <<pipe, remaining>>
          \/ \E n \in 1..Smaller(ask, pipe[t].left) :
               /\ remaining' = [remaining EXCEPT ![r] = @ - n]
               /\ IF remaining[r] < n THEN Finish({t}, "error") /\ UNCHANGED pipe
                                      ELSE Moves(t, n)

ServeWrite(t) ==
    /\ Serving(t) /\ t \in Live /\ Writes(t)
    /\ \/ /\ pipe[t].left <= Chunk
          /\ Completes(t)
          /\ UNCHANGED pipe
       \/ \E n \in 1..Smaller(Chunk, pipe[t].left - 1) : Moves(t, n)
    /\ UNCHANGED remaining

-----------------------------------------------------------------------------
(* The loop; while a read() starts, it is inside that command. *)

Between == \A r \in Reads : reader[r] # "starting"

Prepare ==
    /\ phase = "commands" /\ Between
    /\ phase' = "prepare"
    /\ Expire
    /\ UNCHANGED <<selected, device, pipe, readers>>

Select ==
    /\ phase = "prepare"
    /\ phase' = "dispatch"
    /\ selected' \in SUBSET Live
    /\ UNCHANGED <<device, service, readers>>

Dispatched ==
    /\ phase = "dispatch"
    /\ phase' = "service"
    /\ Expire
    /\ UNCHANGED <<selected, device, pipe, readers>>

Served ==
    /\ phase = "service" /\ selected = {}
    /\ phase' = "commands"
    /\ UNCHANGED <<selected, device, service, readers>>

(* The loop ends; close() finishes what is active and the clipboard drops its
   device.  A later start of the connection makes another PipeTransfers. *)
Close ==
    /\ phase \in {"commands", "prepare", "dispatch"} /\ Between
    /\ phase' = "closed" /\ selected' = {} /\ device' = None
    /\ Finish(Transfers, "error")
    /\ UNCHANGED <<pipe, readers>>

Reopen ==
    /\ phase = "closed"
    /\ phase' = "commands"
    /\ UNCHANGED <<selected, device, service, readers>>

-----------------------------------------------------------------------------
(* Compositor events. *)

Dispatching == phase \in {"prepare", "dispatch"}

(* _refresh_device() where there is a seat and no device yet. *)
AddDevice(d) ==
    /\ Dispatching /\ device = None
    /\ device' = d
    /\ UNCHANGED <<phase, selected, service, readers>>

(* Broken: what the device owns goes on. *)
RetireDeviceOnly ==
    /\ Dispatching /\ device # None
    /\ device' = None
    /\ UNCHANGED <<phase, selected, service, readers>>

(* _retire_device() cancels what the device owns. *)
RetireDevice ==
    /\ Dispatching /\ device # None
    /\ device' = None
    /\ Finish({t \in Live : pipe[t].owner = device}, "error")
    /\ UNCHANGED <<phase, selected, pipe, readers>>

(* _on_send(): another program pastes; with no device or no room the descriptor
   is closed at once. *)
SendData(t, d) ==
    /\ Dispatching /\ device # None
    /\ \E size \in 0..Smaller(MaxSize, MaxBytes) : Register(t, d, None, size)
    /\ UNCHANGED <<loop, readers>>

-----------------------------------------------------------------------------
(* Clipboard.read(). *)

(* _begin_read() with a fresh budget, ... *)
BeginRead(r) ==
    /\ phase = "commands" /\ Between /\ device # None
    /\ reader[r] = "idle"
    /\ reader' = [reader EXCEPT ![r] = "starting"]
    /\ remaining' = [remaining EXCEPT ![r] = MaxBytes]
    /\ UNCHANGED <<loop, service, parts, pending>>

(* ... a pipe for each format, ... *)
StartPart(r, t, d) ==
    /\ reader[r] = "starting" /\ Len(parts[r]) < MaxParts
    /\ \E size \in 0..MaxSize : Register(t, d, r, size)
    /\ parts' = [parts EXCEPT ![r] = Append(@, t)]
    /\ UNCHANGED <<loop, remaining, reader, pending>>

(* ... of which any may fail, and then all are cancelled. *)
BeginReadFails(r) ==
    /\ reader[r] = "starting"
    /\ Finish(Parts(r), "error")
    /\ reader' = [reader EXCEPT ![r] = "raised"]
    /\ UNCHANGED <<loop, pipe, remaining, parts, pending>>

Begun(r) ==
    /\ reader[r] = "starting"
    /\ reader' = [reader EXCEPT ![r] = "waiting"]
    /\ UNCHANGED <<loop, service, remaining, parts, pending>>

ReadReturns(r) ==
    /\ reader[r] = "waiting"
    /\ \A t \in Parts(r) : future[t] = "result"
    /\ reader' = [reader EXCEPT ![r] = "returned"]
    /\ UNCHANGED <<loop, service, remaining, parts, pending>>

(* The first part without a result has an error, or its wait, which ends after
   its deadline, times out.  The list of what is still to be cancelled is made
   here and used later, on the owner thread. *)
ReadRaises(r) ==
    /\ reader[r] = "waiting"
    /\ \E i \in DOMAIN parts[r] :
         /\ \A j \in 1..(i - 1) : future[parts[r][j]] = "result"
         /\ future[parts[r][i]] = "error" \/ parts[r][i] \in due
    /\ pending' = [pending EXCEPT ![r] = {t \in Parts(r) : future[t] = "pending"}]
    /\ reader' = [reader EXCEPT ![r] = IF pending'[r] = {} THEN "raised" ELSE "cancelling"]
    /\ UNCHANGED <<loop, service, remaining, parts>>

(* cancel_pending(), run as a command, ... *)
CancelPending(r) ==
    /\ phase = "commands" /\ Between
    /\ reader[r] = "cancelling"
    /\ Finish(pending[r], "error")
    /\ pending' = [pending EXCEPT ![r] = {}]
    /\ reader' = [reader EXCEPT ![r] = "raised"]
    /\ UNCHANGED <<loop, pipe, remaining, parts>>

(* ... unless the command times out in the queue or the connection is gone. *)
CancelFails(r) ==
    /\ reader[r] = "cancelling"
    /\ pending' = [pending EXCEPT ![r] = {}]
    /\ reader' = [reader EXCEPT ![r] = "raised"]
    /\ UNCHANGED <<loop, service, remaining, parts>>

(* The caller is done with the outcome; another read() takes r once nothing uses
   its budget. *)
Forget(r) ==
    /\ reader[r] \in {"returned", "raised"}
    /\ \A t \in Live : pipe[t].read # r
    /\ reader' = [reader EXCEPT ![r] = "idle"]
    /\ parts' = [parts EXCEPT ![r] = <<>>]
    /\ UNCHANGED <<loop, service, remaining, pending>>

-----------------------------------------------------------------------------
Serve(t) == ServeNothing(t) \/ ServeFails(t) \/ ServeRead(t) \/ ServeWrite(t)
Turn == Prepare \/ Select \/ Dispatched \/ (\E t \in Transfers : Serve(t)) \/ Served
Compositor ==
    \/ \E d \in Devices : AddDevice(d)
    \/ RetireDevice
    \/ \E t \in Transfers, d \in Descriptors : SendData(t, d)
Begin(r) ==
    \/ BeginRead(r)
    \/ \E t \in Transfers, d \in Descriptors : StartPart(r, t, d)
    \/ BeginReadFails(r) \/ Begun(r)
Wait(r) ==
    \/ ReadReturns(r) \/ ReadRaises(r)
    \/ CancelPending(r) \/ CancelFails(r) \/ Forget(r)

Next ==
    \/ Turn \/ Close \/ Reopen \/ Compositor
    \/ \E t \in Transfers : Tick(t)
    \/ \E r \in Reads : Begin(r) \/ Wait(r)

Spec == Init /\ [][Next]_vars

(* The loop turns unless it is closed: the drain of the mailbox, which goes on
   while there are commands, finds it empty again and again (strong fairness).  A
   command that has begun ends, deadlines pass, and a caller goes on when its wait
   is over. *)
FairSpec ==
    /\ Spec
    /\ SF_vars(Turn)
    /\ \A t \in Transfers : WF_vars(Tick(t))
    /\ \A r \in Reads : /\ WF_vars(BeginReadFails(r) \/ Begun(r))
                        /\ WF_vars(Wait(r))

-----------------------------------------------------------------------------
LoopTypes ==
    /\ phase \in {"commands", "prepare", "dispatch", "service", "closed"}
    /\ selected \subseteq Transfers
    /\ device \in Devices \cup {None}

ServiceTypes ==
    /\ active \in [Descriptors -> Transfers \cup {None}]
    /\ open \subseteq Descriptors
    /\ pipe \in [Transfers -> Pipes \cup {None}]
    /\ future \in [Transfers -> {"none", "pending", "result", "error"}]
    /\ due \subseteq Transfers

ReaderTypes ==
    /\ remaining \in [Reads -> -1..MaxBytes]
    /\ reader \in [Reads -> {"idle", "starting", "waiting", "cancelling",
                             "returned", "raised"}]
    /\ parts \in [Reads -> Seq(Transfers)]
    /\ pending \in [Reads -> SUBSET Transfers]

(* Every variable has its type; the budget is overdrawn by one unit at most. *)
TypeOK == LoopTypes /\ ServiceTypes /\ ReaderTypes

(* A descriptor is open exactly while the service holds it, and a future is
   unanswered exactly while its transfer holds its descriptor: nothing is closed
   twice, leaked or left unanswered, whoever has the number now. *)
DescriptorsOwned ==
    /\ open = {d \in Descriptors : active[d] # None}
    /\ \A d \in open : pipe[active[d]] # None /\ pipe[active[d]].fd = d
    /\ \A t \in Transfers : future[t] = "pending" <=> t \in Live

(* What the pipes of one read have buffered together stays within the limit. *)
BudgetHolds ==
    \A r \in Reads : MapThenSumSet(LAMBDA t : pipe[t].moved, Parts(r)) <= MaxBytes

(* A read that returns has every byte of every format, though a pipe that ran
   into the exhausted budget of its read finishes as if complete. *)
SnapshotsAreWhole ==
    \A r \in Reads : reader[r] = "returned" => \A t \in Parts(r) : pipe[t].left = 0

(* No transfer outlives the data device it was requested from. *)
TransfersBelongToDevice == \A t \in Live : pipe[t].owner = device

(* Cancelling the list a read made earlier ends pipes of that read only. *)
CancelsOwn ==
    [][\A r \in Reads : reader[r] = "cancelling" /\ reader'[r] = "raised"
         => Live \ Live' \subseteq Parts(r)]_vars

(* Every transfer ends: it completes, fails, is cancelled or expires. *)
FutureCompletes == \A t \in Transfers : future[t] = "pending" ~> future[t] # "pending"
=============================================================================
