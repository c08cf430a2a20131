---------------------------- MODULE GazeDispatch ----------------------------
(***************************************************************************)
(* plugins/tracking_forwarder/gaze_dispatch.py: raw gaze events, arriving  *)
(* on tracking workers, are coalesced into deliveries that Talon's cron    *)
(* runs on threads of its own, while any thread may start and stop the     *)
(* dispatcher.  A step is one section under _lock, or one call of cron     *)
(* between two such sections.                                              *)
(*                                                                         *)
(* An event stands for one __call__ that gets past its guard, for the      *)
(* token it makes and for the cron job it asks for; it is used again once  *)
(* no thread refers to any of them, so runs are not bounded.  An event     *)
(* that is turned away changes nothing.                                    *)
(***************************************************************************)
EXTENDS Naturals

CONSTANTS Events,           \* accepted events: token, worker and cron job
          Controllers,      \* threads that call start() and stop()
          NoEvent           \* None

ASSUME NoEventAssumption == NoEvent \notin Events

VARIABLES
    active, delivering,     \* _active, _delivering
    pending,                \* the token in _pending
    job,                    \* the job in _job
    worker,                 \* where the __call__ of each event is
    jobs,                   \* what cron and its thread do for each event
    taken,                  \* the job each stop() has still to cancel
    retired                 \* history: accepted before the last stop()

workers == <<worker, jobs>>
vars == <<active, delivering, pending, job, worker, jobs, taken, retired>>

Init ==
    /\ active = FALSE /\ delivering = FALSE
    /\ pending = NoEvent /\ job = NoEvent
    /\ worker = [e \in Events |-> "idle"]
    /\ jobs = [e \in Events |-> "none"]
    /\ taken = [k \in Controllers |-> NoEvent]
    /\ retired = {}

Work(e, where) == worker' = [worker EXCEPT ![e] = where]
Job(e, what) == jobs' = [jobs EXCEPT ![e] = what]

(* cron.cancel: a job that has fired runs all the same. *)
CancelJob(e) ==
    jobs' = IF jobs[e] = "scheduled" THEN [jobs EXCEPT ![e] = "none"] ELSE jobs

-----------------------------------------------------------------------------
(* start() and stop(). *)

Start(k) ==
    /\ taken[k] = NoEvent
    /\ active' = TRUE
    /\ UNCHANGED <<delivering, pending, job, workers, taken, retired>>

(* Broken: the token stays valid. *)
StopKeepsToken(k) ==
    /\ taken[k] = NoEvent
    /\ active' = FALSE
    /\ job' = NoEvent
    /\ taken' = [taken EXCEPT ![k] = job]
    /\ retired' = {e \in Events : worker[e] # "idle" \/ jobs[e] # "none"}
    /\ UNCHANGED <<delivering, pending, workers>>

Stop(k) ==
    /\ taken[k] = NoEvent
    /\ active' = FALSE
    /\ pending' = NoEvent
    /\ job' = NoEvent
    /\ taken' = [taken EXCEPT ![k] = job]
    /\ retired' = {e \in Events : worker[e] # "idle" \/ jobs[e] # "none"}
    /\ UNCHANGED <<delivering, workers>>

StopCancels(k) ==
    /\ taken[k] # NoEvent
    /\ CancelJob(taken[k])
    /\ taken' = [taken EXCEPT ![k] = NoEvent]
    /\ UNCHANGED <<active, delivering, pending, job, worker, retired>>

-----------------------------------------------------------------------------
(* __call__ on a tracking worker. *)

Fresh(e) == worker[e] = "idle" /\ jobs[e] = "none" /\ \A k \in Controllers : taken[k] # e

(* Broken: an event is accepted while a delivery is running. *)
AcceptBusy(e) ==
    /\ Fresh(e)
    /\ active /\ pending = NoEvent
    /\ pending' = e
    /\ Work(e, "schedule")
    /\ retired' = retired \ {e}
    /\ UNCHANGED <<active, delivering, job, jobs, taken>>

Accept(e) ==
    /\ Fresh(e)
    /\ active /\ ~delivering /\ pending = NoEvent
    /\ pending' = e
    /\ Work(e, "schedule")
    /\ retired' = retired \ {e}
    /\ UNCHANGED <<active, delivering, job, jobs, taken>>

(* cron.after() returns a job, or raises. *)
Schedule(e) ==
    /\ worker[e] = "schedule"
    /\ \/ Job(e, "scheduled") /\ Work(e, "record")
       \/ Work(e, "forget") /\ UNCHANGED jobs
    /\ UNCHANGED <<active, delivering, pending, job, taken, retired>>

Forget(e) ==
    /\ worker[e] = "forget"
    /\ pending' = IF pending = e THEN NoEvent ELSE pending
    /\ Work(e, "idle")
    /\ UNCHANGED <<active, delivering, job, jobs, taken, retired>>

(* Broken: a job that became stale before it was recorded is left behind. *)
RecordDropsStale(e) ==
    /\ worker[e] = "record"
    /\ job' = IF pending = e THEN e ELSE job
    /\ Work(e, "idle")
    /\ UNCHANGED <<active, delivering, pending, jobs, taken, retired>>

(* The job is recorded unless the token was consumed or retired meanwhile. *)
Record(e) ==
    /\ worker[e] = "record"
    /\ IF pending = e THEN job' = e /\ Work(e, "idle")
                      ELSE Work(e, "cancel") /\ UNCHANGED job
    /\ UNCHANGED <<active, delivering, pending, jobs, taken, retired>>

CancelStale(e) ==
    /\ worker[e] = "cancel"
    /\ CancelJob(e)
    /\ Work(e, "idle")
    /\ UNCHANGED <<active, delivering, pending, job, taken, retired>>

-----------------------------------------------------------------------------
(* Cron, and _deliver on one of its threads. *)

Fire(e) ==
    /\ jobs[e] = "scheduled"
    /\ Job(e, "fired")
    /\ UNCHANGED <<active, delivering, pending, job, worker, taken, retired>>

(* Broken: the token is not consumed. *)
DeliverKeepsToken(e) ==
    /\ jobs[e] = "fired"
    /\ IF active /\ pending = e
         THEN /\ job' = NoEvent
              /\ delivering' = TRUE
              /\ Job(e, "callback")
         ELSE Job(e, "none") /\ UNCHANGED <<job, delivering>>
    /\ UNCHANGED <<active, pending, worker, taken, retired>>

Deliver(e) ==
    /\ jobs[e] = "fired"
    /\ IF active /\ pending = e
         THEN /\ pending' = NoEvent /\ job' = NoEvent
              /\ delivering' = TRUE
              /\ Job(e, "callback")
         ELSE Job(e, "none") /\ UNCHANGED <<pending, job, delivering>>
    /\ UNCHANGED <<active, worker, taken, retired>>

(* The callback returns or raises. *)
EndDelivery(e) ==
    /\ jobs[e] = "callback"
    /\ delivering' = FALSE
    /\ Job(e, "none")
    /\ UNCHANGED <<active, pending, job, worker, taken, retired>>

-----------------------------------------------------------------------------
(* Once begun, a call and a job are carried on; nobody owes an event, a start
   or a stop. *)
EventStep(e) ==
    \/ Schedule(e) \/ Forget(e) \/ Record(e) \/ CancelStale(e)
JobStep(e) == Fire(e) \/ Deliver(e) \/ EndDelivery(e)

Next ==
    \/ \E k \in Controllers : Start(k) \/ Stop(k) \/ StopCancels(k)
    \/ \E e \in Events : Accept(e) \/ EventStep(e) \/ JobStep(e)

Spec == Init /\ [][Next]_vars

Fairness == \A e \in Events : WF_vars(EventStep(e)) /\ WF_vars(JobStep(e))

FairSpec == Spec /\ Fairness

-----------------------------------------------------------------------------
(* Properties. *)

(* Every variable has its type. *)
TypeOK ==
    /\ active \in BOOLEAN /\ delivering \in BOOLEAN
    /\ pending \in Events \cup {NoEvent} /\ job \in Events \cup {NoEvent}
    /\ worker \in [Events -> {"idle", "schedule", "forget", "record", "cancel"}]
    /\ jobs \in [Events -> {"none", "scheduled", "fired", "callback"}]
    /\ taken \in [Controllers -> Events \cup {NoEvent}]
    /\ retired \subseteq Events

(* Deliveries never overlap, whichever workers and cron threads they come from
   and however often the dispatcher is stopped and started meanwhile. *)
OneDelivery ==
    \A e, f \in Events : jobs[e] = "callback" /\ jobs[f] = "callback" => e = f

(* Every scheduled job is known to somebody who can still cancel it: _job, the
   worker that made it, or the stop() that took it.  A stop leaves none behind. *)
JobsAreKnown ==
    \A e \in Events : jobs[e] = "scheduled" =>
        \/ job = e
        \/ worker[e] \in {"record", "cancel"}
        \/ \E k \in Controllers : taken[k] = e

(* The pending token, which turns every other event away, has a job that will
   run, or a worker about to ask for one; nobody is going to cancel it. *)
PendingWillRun ==
    \A e \in Events : pending = e =>
        /\ worker[e] \in {"schedule", "forget"} \/ jobs[e] \in {"scheduled", "fired"}
        /\ worker[e] # "cancel" /\ \A k \in Controllers : taken[k] # e

(* No delivery begins while the dispatcher is stopped, nor for an event from
   before the last stop(), even if it was scheduled, fired or unrecorded then
   and a start() has followed. *)
NothingFromBeforeStop ==
    [][\A e \in Events :
          jobs[e] # "callback" /\ jobs'[e] = "callback"
            => active /\ e \notin retired]_vars

Abstract == INSTANCE Delivery WITH on <- active,
                                   waiting <- pending # NoEvent,
                                   busy <- delivering

(* Tokens, jobs and locks add up to one coalesced, serialized delivery. *)
ImplementsDelivery == Abstract!Spec

(* Coalescing never wedges: a pending token is consumed, retired or withdrawn,
   and the next event can be accepted. *)
PendingEnds == \A e \in Events : (pending = e) ~> (pending # e)
=============================================================================
