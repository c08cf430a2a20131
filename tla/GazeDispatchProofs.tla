------------------------- MODULE GazeDispatchProofs -------------------------
(***************************************************************************)
(* Proofs about GazeDispatch, for any number of events and controllers.    *)
(* One inductive invariant carries all of them: it follows the token from  *)
(* the worker that makes it, through the job, to the delivery or the stop  *)
(* that takes it out of _pending.                                          *)
(***************************************************************************)
EXTENDS GazeDispatch, TLAPS

(* A token is valid only while the dispatcher is active and nothing is being
   delivered; only a running callback holds _delivering. *)
DeliveryInv ==
    /\ OneDelivery
    /\ \A e \in Events : jobs[e] = "callback" => delivering
    /\ pending # NoEvent => active /\ ~delivering

(* Where the valid token is: with its worker, which has no job yet, or with a
   job that is scheduled or fired.  It postdates the last stop. *)
TokenInv ==
    \A e \in Events :
        /\ worker[e] \in {"schedule", "forget"} => jobs[e] = "none"
        /\ pending = e => /\ \/ worker[e] \in {"schedule", "forget"}
                             \/ jobs[e] \in {"scheduled", "fired"}
                          /\ worker[e] # "cancel"
                          /\ e \notin retired
                          /\ \A k \in Controllers : taken[k] # e

(* _job is the job of the valid token, recorded by its worker. *)
JobInv == \A e \in Events : job = e => pending = e /\ worker[e] = "idle"

IInv == TypeOK /\ DeliveryInv /\ TokenInv /\ JobInv /\ JobsAreKnown

(* A new dispatcher has no token, job or worker under way. *)
LEMMA IInvInit == Init => IInv
BY NoEventAssumption
   DEF Init, IInv, TypeOK, DeliveryInv, OneDelivery, TokenInv, JobInv,
       JobsAreKnown

(* Every step keeps the types. *)
LEMMA TypeStep == TypeOK /\ [Next]_vars => TypeOK'
<1> SUFFICES ASSUME TypeOK, [Next]_vars PROVE TypeOK'
  OBVIOUS
<1> USE DEF TypeOK, workers, Work, Job, CancelJob
<1>1. ASSUME NEW k \in Controllers, Start(k) \/ Stop(k) \/ StopCancels(k)
      PROVE  TypeOK'
  BY <1>1 DEF Start, Stop, StopCancels
<1>2. ASSUME NEW e \in Events, Accept(e) \/ EventStep(e)
      PROVE  TypeOK'
  BY <1>2 DEF Accept, EventStep, Schedule, Forget, Record, CancelStale
<1>3. ASSUME NEW e \in Events, JobStep(e)
      PROVE  TypeOK'
  BY <1>3 DEF JobStep, Fire, Deliver, EndDelivery
<1>4. CASE UNCHANGED vars
  BY <1>4 DEF vars
<1> QED
  BY <1>1, <1>2, <1>3, <1>4 DEF Next

(* Every step keeps the invariant. *)
LEMMA IInvStep == IInv /\ [Next]_vars => IInv'
<1> SUFFICES ASSUME IInv, [Next]_vars PROVE IInv'
  OBVIOUS
<1> USE NoEventAssumption
        DEF workers, Work, Job, CancelJob, DeliveryInv, OneDelivery, TokenInv,
            JobInv, JobsAreKnown
<1>t. TypeOK' /\ TypeOK
  BY TypeStep DEF IInv
<1>i. DeliveryInv /\ TokenInv /\ JobInv /\ JobsAreKnown
  BY DEF IInv
<1>1. ASSUME NEW k \in Controllers, Start(k)
      PROVE  IInv'
  BY <1>1, <1>t, <1>i DEF Start, IInv
<1>2. ASSUME NEW k \in Controllers, Stop(k)
      PROVE  IInv'
  <2>1. DeliveryInv' /\ TokenInv' /\ JobInv'
    BY <1>2, <1>t, <1>i DEF Stop, TypeOK
  <2>2. JobsAreKnown'
    BY <1>2, <1>t, <1>i DEF Stop, TypeOK
  <2> QED
    BY <2>1, <2>2, <1>t DEF IInv
<1>3. ASSUME NEW k \in Controllers, StopCancels(k)
      PROVE  IInv'
  <2>1. DeliveryInv' /\ TokenInv' /\ JobInv'
    BY <1>3, <1>t, <1>i DEF StopCancels, TypeOK
  <2>2. JobsAreKnown'
    BY <1>3, <1>t, <1>i DEF StopCancels, TypeOK
  <2> QED
    BY <2>1, <2>2, <1>t DEF IInv
<1>4. ASSUME NEW e \in Events, Accept(e)
      PROVE  IInv'
  <2>1. DeliveryInv' /\ JobInv' /\ JobsAreKnown'
    BY <1>4, <1>t, <1>i DEF Accept, Fresh, TypeOK
  <2>2. TokenInv'
    BY <1>4, <1>t, <1>i DEF Accept, Fresh, TypeOK
  <2> QED
    BY <2>1, <2>2, <1>t DEF IInv
<1>5. ASSUME NEW e \in Events, EventStep(e)
      PROVE  IInv'
  <2>1. CASE Schedule(e)
    BY <2>1, <1>t, <1>i DEF Schedule, TypeOK, IInv
  <2>2. CASE Forget(e)
    BY <2>2, <1>t, <1>i DEF Forget, TypeOK, IInv
  <2>3. CASE Record(e)
    BY <2>3, <1>t, <1>i DEF Record, TypeOK, IInv
  <2>4. CASE CancelStale(e)
    BY <2>4, <1>t, <1>i DEF CancelStale, TypeOK, IInv
  <2> QED
    BY <1>5, <2>1, <2>2, <2>3, <2>4 DEF EventStep
<1>6. ASSUME NEW e \in Events, JobStep(e)
      PROVE  IInv'
  <2>1. CASE Fire(e)
    BY <2>1, <1>t, <1>i DEF Fire, TypeOK, IInv
  <2>2. CASE Deliver(e)
    <3>1. CASE active /\ pending = e
      <4>1. DeliveryInv'
        BY <2>2, <3>1, <1>t, <1>i DEF Deliver, TypeOK
      <4>2. TokenInv' /\ JobInv' /\ JobsAreKnown'
        BY <2>2, <3>1, <1>t, <1>i DEF Deliver, TypeOK
      <4> QED
        BY <4>1, <4>2, <1>t DEF IInv
    <3>2. CASE ~(active /\ pending = e)
      BY <2>2, <3>2, <1>t, <1>i DEF Deliver, TypeOK, IInv
    <3> QED
      BY <3>1, <3>2
  <2>3. CASE EndDelivery(e)
    BY <2>3, <1>t, <1>i DEF EndDelivery, TypeOK, IInv
  <2> QED
    BY <1>6, <2>1, <2>2, <2>3 DEF JobStep
<1>7. CASE UNCHANGED vars
  BY <1>7, <1>t, <1>i DEF vars, IInv
<1> QED
  BY <1>1, <1>2, <1>3, <1>4, <1>5, <1>6, <1>7 DEF Next

(* So it holds in every behaviour. *)
LEMMA IInvHolds == Spec => []IInv
BY IInvInit, IInvStep, PTL DEF Spec

(* Every variable of the dispatcher keeps its type. *)
THEOREM GazeTypeCorrect == Spec => []TypeOK
<1>1. IInv => TypeOK
  BY DEF IInv
<1> QED
  BY <1>1, IInvHolds, PTL

(* Deliveries are serialized: __call__ and _deliver never let two callbacks of
   one dispatcher run at once. *)
THEOREM DeliveriesSerialized == Spec => []OneDelivery
<1>1. IInv => OneDelivery
  BY DEF IInv, DeliveryInv
<1> QED
  BY <1>1, IInvHolds, PTL

(* stop() leaves no job that nobody will cancel. *)
THEOREM NoJobLost == Spec => []JobsAreKnown
<1>1. IInv => JobsAreKnown
  BY DEF IInv
<1> QED
  BY <1>1, IInvHolds, PTL

(* The token that turns other events away always has a job to consume it. *)
THEOREM NeverWedged == Spec => []PendingWillRun
<1>1. IInv => PendingWillRun
  BY DEF IInv, TokenInv, PendingWillRun
<1> QED
  BY <1>1, IInvHolds, PTL

(* _deliver begins nothing while stopped, nor for an event from before the last
   stop(). *)
THEOREM StopRetires == Spec => NothingFromBeforeStop
<1>1. IInv /\ [Next]_vars =>
          \A e \in Events : jobs[e] # "callback" /\ jobs'[e] = "callback"
                              => active /\ e \notin retired
  <2> SUFFICES ASSUME IInv, [Next]_vars, NEW e \in Events,
                      jobs[e] # "callback", jobs'[e] = "callback"
               PROVE  active /\ e \notin retired
    OBVIOUS
  <2>1. TypeOK /\ TokenInv
    BY DEF IInv
  <2>2. Deliver(e)
    BY <2>1 DEF Next, vars, workers, Work, Job, CancelJob, TypeOK, Start, Stop,
       StopCancels, Accept, EventStep, Schedule, Forget, Record, CancelStale,
       JobStep, Fire, Deliver, EndDelivery
  <2>3. active /\ pending = e
    BY <2>1, <2>2 DEF Deliver, Job, TypeOK
  <2> QED
    BY <2>1, <2>3 DEF TokenInv
<1> QED
  BY <1>1, IInvHolds, PTL DEF Spec, NothingFromBeforeStop

(* Seen without its tokens, jobs and locks, the dispatcher is one serialized
   delivery. *)
THEOREM DeliveryImplemented == Spec => ImplementsDelivery
<1>1. Init => Abstract!Init
  BY DEF Init, Abstract!Init
<1>2. IInv /\ [Next]_vars => [Abstract!Next]_(Abstract!vars)
  <2> SUFFICES ASSUME IInv, [Next]_vars PROVE [Abstract!Next]_(Abstract!vars)
    OBVIOUS
  <2> USE NoEventAssumption DEF Abstract!Next, Abstract!vars
  <2>i. DeliveryInv /\ TypeOK
    BY DEF IInv
  <2>1. ASSUME NEW k \in Controllers, Start(k) \/ Stop(k) \/ StopCancels(k)
        PROVE  [Abstract!Next]_(Abstract!vars)
    BY <2>1 DEF Start, Stop, StopCancels, Abstract!Start, Abstract!Stop
  <2>2. ASSUME NEW e \in Events, Accept(e)
        PROVE  [Abstract!Next]_(Abstract!vars)
    BY <2>2 DEF Accept, Abstract!Accept
  <2>3. ASSUME NEW e \in Events, EventStep(e)
        PROVE  [Abstract!Next]_(Abstract!vars)
    BY <2>3 DEF EventStep, Schedule, Forget, Record, CancelStale,
                Abstract!Withdraw
  <2>4. ASSUME NEW e \in Events, JobStep(e)
        PROVE  [Abstract!Next]_(Abstract!vars)
    BY <2>4, <2>i DEF JobStep, Fire, Deliver, EndDelivery, DeliveryInv,
                      Abstract!Begin, Abstract!End
  <2>5. CASE UNCHANGED vars
    BY <2>5 DEF vars
  <2> QED
    BY <2>1, <2>2, <2>3, <2>4, <2>5 DEF Next
<1> QED
  BY <1>1, <1>2, IInvHolds, PTL DEF Spec, ImplementsDelivery, Abstract!Spec
=============================================================================
