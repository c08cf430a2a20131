-------------------------- MODULE ConnectionProofs --------------------------
(***************************************************************************)
(* Theorems about Connection for every set of calls and controllers and    *)
(* every number of generations: first types, answers, the single owner and *)
(* the refinement; then that nobody is forgotten, neither a caller who waits*)
(* nor a command whose owner is gone.                                      *)
(***************************************************************************)
EXTENDS Connection, SequenceTheorems, TLAPS

Diversion == {"failError", "failStop", "failReady", "failPending",
              "failRelease", "stopLock", "stopPending", "stopRelease"}

(* An owner has a command in its hands exactly while it works on it, which is
   also when fail() or stop() interrupts the callback; only then is there a
   place to resume at. *)
Holding ==
    \A g \in Generations :
        /\ held[g] # NoCall <=> \/ opc[g] \in {"claimed", "callback", "finish"}
                               \/ after[g] = "finish"
        /\ after[g] # "loop" => opc[g] \in Diversion

TypeInv == TypeOK /\ Holding

(* The first state has the types. *)
LEMMA InitTyped == Init => TypeInv
<1> SUFFICES ASSUME Init PROVE TypeInv
  OBVIOUS
<1>0. 0 \in 0..MaxGenerations
  BY MaxGenerationsAssumption
<1> USE <1>0 DEF Init
<1>1. FlagTypes /\ LifecycleTypes
  BY DEF FlagTypes, LifecycleTypes
<1>2. MailboxTypes
  BY DEF MailboxTypes, States, Outcomes
<1>3. OwnerTypes
  BY DEF OwnerTypes, OwnerPCs, ResumePCs
<1>4. CallerTypes
  BY DEF CallerTypes, CallPCs, Answers, Outcomes
<1>5. ControllerTypes
  BY DEF ControllerTypes, ControllerPCs, Reasons
<1>6. Numbered
  BY DEF Numbered
<1>7. Holding
  BY DEF Holding
<1> QED
  BY <1>1, <1>2, <1>3, <1>4, <1>5, <1>6, <1>7 DEF TypeOK, TypeInv

(* What a sweep of the mailbox by thread t does to the types it touches. *)
LEMMA SweepTyped ==
    ASSUME MailboxTypes, NEW t \in Threads, FailPending(t)
    PROVE  MailboxTypes'
<1>1. Queued \subseteq Calls
  BY DEF MailboxTypes, Queued
<1> QED
  BY <1>1 DEF MailboxTypes, FailPending, States, Outcomes

(* The same for the release of the swept commands. *)
LEMMA ReleaseTyped ==
    ASSUME MailboxTypes, NEW t \in Threads, ReleaseSwept(t)
    PROVE  MailboxTypes'
BY DEF MailboxTypes, ReleaseSwept

(* Appending a call keeps the mailbox typed. *)
LEMMA AppendTyped ==
    ASSUME MailboxTypes, NEW c \in Calls
    PROVE  /\ Append(commands, c) \in Seq(Calls)
           /\ [state EXCEPT ![c] = "QUEUED"] \in [Calls -> States]
<1>1. Append(commands, c) \in Seq(Calls)
  BY AppendProperties DEF MailboxTypes
<1> QED
  BY <1>1 DEF MailboxTypes, States

(* The command at the head of the queue is a call. *)
LEMMA HeadTyped ==
    ASSUME MailboxTypes, commands # <<>>
    PROVE  Head(commands) \in Calls /\ Tail(commands) \in Seq(Calls)
BY HeadTailProperties DEF MailboxTypes

(* Every step of a calling thread keeps the types. *)
LEMMA CallTyped ==
    ASSUME TypeInv, NEW c \in Calls, Call(c) \/ CallStep(c)
    PROVE  TypeInv'
<1> USE DEF TypeInv, TypeOK, flags, wake, lifecycle, mailbox, owners, callers,
            controllers
<1>1. CASE Call(c)
  <2>1. CallerTypes'
    BY <1>1 DEF Call, CallerTypes, CallPCs, Answers, Outcomes
  <2> QED
    BY <1>1, <2>1 DEF Call, FlagTypes, LifecycleTypes, MailboxTypes,
       OwnerTypes, ControllerTypes, Numbered, Holding
<1>2. CASE Accept(c)
  <2>1. MailboxTypes'
    BY <1>2, AppendTyped DEF Accept, MailboxTypes
  <2>2. CallerTypes'
    BY <1>2, AppendTyped DEF Accept, CallerTypes, CallPCs, Answers, Outcomes,
       LifecycleTypes
  <2> QED
    BY <1>2, <2>1, <2>2 DEF Accept, FlagTypes, LifecycleTypes, OwnerTypes,
       ControllerTypes, Numbered, Holding
<1>3. CASE WakeOwner(c)
  <2>1. LifecycleTypes'
    BY <1>3 DEF WakeOwner, Wake, LifecycleTypes
  <2>2. CallerTypes'
    BY <1>3 DEF WakeOwner, Wake, CallerTypes, CallPCs
  <2> QED
    BY <1>3, <2>1, <2>2 DEF WakeOwner, Wake, FlagTypes, MailboxTypes,
       OwnerTypes, ControllerTypes, Numbered, Holding
<1>4. CASE Cancel(c)
  <2>1. MailboxTypes'
    BY <1>4 DEF Cancel, MailboxTypes, States
  <2>2. CallerTypes'
    BY <1>4 DEF Cancel, CallerTypes, CallPCs, Answers
  <2> QED
    BY <1>4, <2>1, <2>2 DEF Cancel, FlagTypes, LifecycleTypes, OwnerTypes,
       ControllerTypes, Numbered, Holding
<1>5. CASE Hold(c)
  <2>1. CallerTypes'
    BY <1>5 DEF Hold, CallerTypes, CallPCs
  <2> QED
    BY <1>5, <2>1 DEF Hold, FlagTypes, LifecycleTypes, MailboxTypes,
       OwnerTypes, ControllerTypes, Numbered, Holding
<1>6. CASE Return(c)
  <2>1. CallerTypes'
    BY <1>6 DEF Return, CallerTypes, CallPCs, Answers, MailboxTypes
  <2> QED
    BY <1>6, <2>1 DEF Return, FlagTypes, LifecycleTypes, MailboxTypes,
       OwnerTypes, ControllerTypes, Numbered, Holding
<1> QED
  BY <1>1, <1>2, <1>3, <1>4, <1>5, <1>6, Zenon DEF CallStep

(* Every step of an owner thread keeps the types. *)
LEMMA OwnerTyped ==
    ASSUME TypeInv, NEW g \in Generations,
           OwnerStep(g) \/ OwnerStopLocks(g) \/ DisplayEvent(g)
    PROVE  TypeInv'
<1> USE DEF TypeInv, TypeOK, flags, wake, lifecycle, mailbox, owners, callers,
            controllers
<1>t. g \in Threads
  BY DEF Threads
<1>b. opc[g] # "unborn" => generation \in Generations
  BY MaxGenerationsAssumption DEF Generations, LifecycleTypes, Numbered
<1>1. CASE Connect(g)
  <2>1. FlagTypes'
    BY <1>1 DEF Connect, Goto, Divert, FlagTypes
  <2>2. OwnerTypes'
    BY <1>1 DEF Connect, Goto, Divert, OwnerTypes, OwnerPCs, ResumePCs
  <2>3. Numbered'
    BY <1>1 DEF Connect, Goto, Divert, Numbered, OwnerTypes
  <2>4. Holding'
    BY <1>1 DEF Connect, Goto, Divert, Holding, OwnerTypes, Diversion,
       ResumePCs
  <2> QED
    BY <1>1, <2>1, <2>2, <2>3, <2>4 DEF Connect, Goto, Divert, LifecycleTypes,
       MailboxTypes, CallerTypes, ControllerTypes
<1>2. CASE TestStopping(g)
  <2>1. OwnerTypes'
    BY <1>2 DEF TestStopping, Goto, OwnerTypes, OwnerPCs, ResumePCs
  <2>2. Numbered'
    BY <1>2 DEF TestStopping, Goto, Numbered, OwnerTypes
  <2>3. Holding'
    BY <1>2 DEF TestStopping, Goto, Holding, OwnerTypes, Diversion, ResumePCs
  <2> QED
    BY <1>2, <2>1, <2>2, <2>3 DEF TestStopping, Goto, FlagTypes,
       LifecycleTypes, MailboxTypes, CallerTypes, ControllerTypes
<1>3. CASE Drain(g)
  <2>1. MailboxTypes'
    BY <1>3, HeadTyped, NoCallAssumption DEF Drain, Goto, MailboxTypes, States
  <2>2. OwnerTypes'
    BY <1>3, HeadTyped, NoCallAssumption DEF Drain, Goto, OwnerTypes,
       OwnerPCs, ResumePCs
  <2>3. Numbered'
    BY <1>3, HeadTyped, NoCallAssumption DEF Drain, Goto, Numbered, OwnerTypes
  <2>4. Holding'
    BY <1>3, HeadTyped, NoCallAssumption DEF Drain, Goto, Holding, OwnerTypes,
       Diversion, ResumePCs
  <2> QED
    BY <1>3, <2>1, <2>2, <2>3, <2>4 DEF Drain, Goto, FlagTypes,
       LifecycleTypes, CallerTypes, ControllerTypes
<1>4. CASE StartCallback(g)
  <2>1. MailboxTypes'
    BY <1>4 DEF StartCallback, Goto, MailboxTypes, Outcomes
  <2>2. OwnerTypes'
    BY <1>4 DEF StartCallback, Goto, OwnerTypes, OwnerPCs, ResumePCs
  <2>3. CallerTypes'
    BY <1>4 DEF StartCallback, Goto, CallerTypes
  <2>4. Numbered'
    BY <1>4 DEF StartCallback, Goto, Numbered, OwnerTypes
  <2>5. Holding'
    BY <1>4 DEF StartCallback, Goto, Holding, OwnerTypes, Diversion, ResumePCs
  <2> QED
    BY <1>4, <2>1, <2>2, <2>3, <2>4, <2>5 DEF StartCallback, Goto, FlagTypes,
       LifecycleTypes, ControllerTypes
<1>5. CASE EndCallback(g)
  <2>1. MailboxTypes'
    BY <1>5 DEF EndCallback, Goto, Divert, MailboxTypes, Outcomes
  <2>2. OwnerTypes'
    BY <1>5 DEF EndCallback, Goto, Divert, OwnerTypes, OwnerPCs, ResumePCs
  <2>3. Numbered'
    BY <1>5 DEF EndCallback, Goto, Divert, Numbered, OwnerTypes
  <2>4. Holding'
    BY <1>5 DEF EndCallback, Goto, Divert, Holding, OwnerTypes, Diversion,
       ResumePCs
  <2> QED
    BY <1>5, <2>1, <2>2, <2>3, <2>4 DEF EndCallback, Goto, Divert, FlagTypes,
       LifecycleTypes, CallerTypes, ControllerTypes
<1>6. CASE Finish(g)
  <2>1. MailboxTypes'
    BY <1>6 DEF Finish, Goto, MailboxTypes, States, OwnerTypes, Holding
  <2>2. OwnerTypes'
    BY <1>6 DEF Finish, Goto, OwnerTypes, OwnerPCs, ResumePCs
  <2>3. Numbered'
    BY <1>6 DEF Finish, Goto, Numbered, OwnerTypes
  <2>4. Holding'
    BY <1>6 DEF Finish, Goto, Holding, OwnerTypes, Diversion, ResumePCs
  <2> QED
    BY <1>6, <2>1, <2>2, <2>3, <2>4 DEF Finish, Goto, FlagTypes,
       LifecycleTypes, CallerTypes, ControllerTypes
<1>7. CASE EndDispatch(g)
  <2>1. OwnerTypes'
    BY <1>7 DEF EndDispatch, Goto, Dispatching, AfterDispatch, OwnerTypes,
       OwnerPCs, ResumePCs
  <2>2. Numbered'
    BY <1>7 DEF EndDispatch, Goto, Dispatching, AfterDispatch, Numbered,
       OwnerTypes
  <2>3. Holding'
    BY <1>7 DEF EndDispatch, Goto, Dispatching, AfterDispatch, Holding,
       OwnerTypes, Diversion, ResumePCs
  <2> QED
    BY <1>7, <2>1, <2>2, <2>3 DEF EndDispatch, Goto, Dispatching,
       AfterDispatch, FlagTypes, LifecycleTypes, MailboxTypes, CallerTypes,
       ControllerTypes
<1>8. CASE Woken(g)
  <2>1. LifecycleTypes'
    BY <1>8 DEF Woken, Goto, LifecycleTypes
  <2>2. OwnerTypes'
    BY <1>8 DEF Woken, Goto, OwnerTypes, OwnerPCs, ResumePCs
  <2>3. Numbered'
    BY <1>8 DEF Woken, Goto, Numbered, OwnerTypes
  <2>4. Holding'
    BY <1>8 DEF Woken, Goto, Holding, OwnerTypes, Diversion, ResumePCs
  <2> QED
    BY <1>8, <2>1, <2>2, <2>3, <2>4 DEF Woken, Goto, FlagTypes, MailboxTypes,
       CallerTypes, ControllerTypes
<1>9. CASE FailRecords(g)
  <2>1. FlagTypes'
    BY <1>9 DEF FailRecords, Goto, FlagTypes
  <2>2. OwnerTypes'
    BY <1>9 DEF FailRecords, Goto, OwnerTypes, OwnerPCs, ResumePCs
  <2>3. Numbered'
    BY <1>9 DEF FailRecords, Goto, Numbered, OwnerTypes
  <2>4. Holding'
    BY <1>9 DEF FailRecords, Goto, Holding, OwnerTypes, Diversion, ResumePCs
  <2> QED
    BY <1>9, <2>1, <2>2, <2>3, <2>4 DEF FailRecords, Goto, LifecycleTypes,
       MailboxTypes, CallerTypes, ControllerTypes
<1>10. CASE FailStops(g)
  <2>1. FlagTypes'
    BY <1>10 DEF FailStops, Goto, FlagTypes
  <2>2. OwnerTypes'
    BY <1>10 DEF FailStops, Goto, OwnerTypes, OwnerPCs, ResumePCs
  <2>3. Numbered'
    BY <1>10 DEF FailStops, Goto, Numbered, OwnerTypes
  <2>4. Holding'
    BY <1>10 DEF FailStops, Goto, Holding, OwnerTypes, Diversion, ResumePCs
  <2> QED
    BY <1>10, <2>1, <2>2, <2>3, <2>4 DEF FailStops, Goto, LifecycleTypes,
       MailboxTypes, CallerTypes, ControllerTypes
<1>11. CASE FailReadies(g)
  <2>1. FlagTypes'
    BY <1>11, <1>b DEF FailReadies, Goto, FlagTypes
  <2>2. OwnerTypes'
    BY <1>11, <1>b DEF FailReadies, Goto, OwnerTypes, OwnerPCs, ResumePCs
  <2>3. Numbered'
    BY <1>11, <1>b DEF FailReadies, Goto, Numbered, OwnerTypes
  <2>4. Holding'
    BY <1>11, <1>b DEF FailReadies, Goto, Holding, OwnerTypes, Diversion,
       ResumePCs
  <2> QED
    BY <1>11, <2>1, <2>2, <2>3, <2>4 DEF FailReadies, Goto, LifecycleTypes,
       MailboxTypes, CallerTypes, ControllerTypes
<1>12. CASE FailSweeps(g)
  <2>1. MailboxTypes'
    BY <1>12, <1>t, SweepTyped DEF FailSweeps, Goto, MailboxTypes
  <2>2. OwnerTypes'
    BY <1>12, <1>t, SweepTyped DEF FailSweeps, Goto, OwnerTypes, OwnerPCs,
       ResumePCs
  <2>3. Numbered'
    BY <1>12, <1>t, SweepTyped DEF FailSweeps, Goto, Numbered, OwnerTypes
  <2>4. Holding'
    BY <1>12, <1>t, SweepTyped DEF FailSweeps, Goto, Holding, OwnerTypes,
       Diversion, ResumePCs
  <2> QED
    BY <1>12, <2>1, <2>2, <2>3, <2>4 DEF FailSweeps, Goto, FlagTypes,
       LifecycleTypes, CallerTypes, ControllerTypes
<1>13. CASE FailReleases(g)
  <2>1. LifecycleTypes'
    BY <1>13, <1>t, ReleaseTyped DEF FailReleases, Goto, Resume, Wake,
       LifecycleTypes
  <2>2. MailboxTypes'
    BY <1>13, <1>t, ReleaseTyped DEF FailReleases, Goto, Resume, Wake,
       MailboxTypes
  <2>3. OwnerTypes'
    BY <1>13, <1>t, ReleaseTyped DEF FailReleases, Goto, Resume, Wake,
       OwnerTypes, OwnerPCs, ResumePCs
  <2>4. Numbered'
    BY <1>13, <1>t, ReleaseTyped DEF FailReleases, Goto, Resume, Wake,
       Numbered, OwnerTypes
  <2>5. Holding'
    BY <1>13, <1>t, ReleaseTyped DEF FailReleases, Goto, Resume, Wake,
       Holding, OwnerTypes, Diversion, ResumePCs
  <2> QED
    BY <1>13, <2>1, <2>2, <2>3, <2>4, <2>5 DEF FailReleases, Goto, Resume,
       Wake, FlagTypes, CallerTypes, ControllerTypes
<1>14. CASE OwnerStopSweeps(g)
  <2>1. MailboxTypes'
    BY <1>14, <1>t, SweepTyped DEF OwnerStopSweeps, Goto, MailboxTypes
  <2>2. OwnerTypes'
    BY <1>14, <1>t, SweepTyped DEF OwnerStopSweeps, Goto, OwnerTypes,
       OwnerPCs, ResumePCs
  <2>3. Numbered'
    BY <1>14, <1>t, SweepTyped DEF OwnerStopSweeps, Goto, Numbered, OwnerTypes
  <2>4. Holding'
    BY <1>14, <1>t, SweepTyped DEF OwnerStopSweeps, Goto, Holding, OwnerTypes,
       Diversion, ResumePCs
  <2> QED
    BY <1>14, <2>1, <2>2, <2>3, <2>4 DEF OwnerStopSweeps, Goto, FlagTypes,
       LifecycleTypes, CallerTypes, ControllerTypes
<1>15. CASE OwnerStopReturns(g)
  <2>1. LifecycleTypes'
    BY <1>15, <1>t, ReleaseTyped DEF OwnerStopReturns, Goto, Resume, Wake,
       LifecycleTypes
  <2>2. MailboxTypes'
    BY <1>15, <1>t, ReleaseTyped DEF OwnerStopReturns, Goto, Resume, Wake,
       MailboxTypes
  <2>3. OwnerTypes'
    BY <1>15, <1>t, ReleaseTyped DEF OwnerStopReturns, Goto, Resume, Wake,
       OwnerTypes, OwnerPCs, ResumePCs
  <2>4. Numbered'
    BY <1>15, <1>t, ReleaseTyped DEF OwnerStopReturns, Goto, Resume, Wake,
       Numbered, OwnerTypes
  <2>5. Holding'
    BY <1>15, <1>t, ReleaseTyped DEF OwnerStopReturns, Goto, Resume, Wake,
       Holding, OwnerTypes, Diversion, ResumePCs
  <2> QED
    BY <1>15, <2>1, <2>2, <2>3, <2>4, <2>5 DEF OwnerStopReturns, Goto, Resume,
       Wake, FlagTypes, CallerTypes, ControllerTypes
<1>16. CASE ClearRunning(g)
  <2>1. FlagTypes'
    BY <1>16 DEF ClearRunning, Goto, FlagTypes
  <2>2. OwnerTypes'
    BY <1>16 DEF ClearRunning, Goto, OwnerTypes, OwnerPCs, ResumePCs
  <2>3. Numbered'
    BY <1>16 DEF ClearRunning, Goto, Numbered, OwnerTypes
  <2>4. Holding'
    BY <1>16 DEF ClearRunning, Goto, Holding, OwnerTypes, Diversion, ResumePCs
  <2> QED
    BY <1>16, <2>1, <2>2, <2>3, <2>4 DEF ClearRunning, Goto, LifecycleTypes,
       MailboxTypes, CallerTypes, ControllerTypes
<1>17. CASE FinallyReadies(g)
  <2>1. FlagTypes'
    BY <1>17, <1>b DEF FinallyReadies, Goto, FlagTypes
  <2>2. OwnerTypes'
    BY <1>17, <1>b DEF FinallyReadies, Goto, OwnerTypes, OwnerPCs, ResumePCs
  <2>3. Numbered'
    BY <1>17, <1>b DEF FinallyReadies, Goto, Numbered, OwnerTypes
  <2>4. Holding'
    BY <1>17, <1>b DEF FinallyReadies, Goto, Holding, OwnerTypes, Diversion,
       ResumePCs
  <2> QED
    BY <1>17, <2>1, <2>2, <2>3, <2>4 DEF FinallyReadies, Goto, LifecycleTypes,
       MailboxTypes, CallerTypes, ControllerTypes
<1>18. CASE FinallySweeps(g)
  <2>1. MailboxTypes'
    BY <1>18, <1>t, SweepTyped DEF FinallySweeps, Goto, MailboxTypes
  <2>2. OwnerTypes'
    BY <1>18, <1>t, SweepTyped DEF FinallySweeps, Goto, OwnerTypes, OwnerPCs,
       ResumePCs
  <2>3. Numbered'
    BY <1>18, <1>t, SweepTyped DEF FinallySweeps, Goto, Numbered, OwnerTypes
  <2>4. Holding'
    BY <1>18, <1>t, SweepTyped DEF FinallySweeps, Goto, Holding, OwnerTypes,
       Diversion, ResumePCs
  <2> QED
    BY <1>18, <2>1, <2>2, <2>3, <2>4 DEF FinallySweeps, Goto, FlagTypes,
       LifecycleTypes, CallerTypes, ControllerTypes
<1>19. CASE FinallyReleases(g)
  <2>1. MailboxTypes'
    BY <1>19, <1>t, ReleaseTyped DEF FinallyReleases, Goto, MailboxTypes
  <2>2. OwnerTypes'
    BY <1>19, <1>t, ReleaseTyped DEF FinallyReleases, Goto, OwnerTypes,
       OwnerPCs, ResumePCs
  <2>3. Numbered'
    BY <1>19, <1>t, ReleaseTyped DEF FinallyReleases, Goto, Numbered,
       OwnerTypes
  <2>4. Holding'
    BY <1>19, <1>t, ReleaseTyped DEF FinallyReleases, Goto, Holding,
       OwnerTypes, Diversion, ResumePCs
  <2> QED
    BY <1>19, <2>1, <2>2, <2>3, <2>4 DEF FinallyReleases, Goto, FlagTypes,
       LifecycleTypes, CallerTypes, ControllerTypes
<1>20. CASE Disconnect(g)
  <2>1. FlagTypes'
    BY <1>20 DEF Disconnect, Goto, Divert, FlagTypes
  <2>2. OwnerTypes'
    BY <1>20 DEF Disconnect, Goto, Divert, OwnerTypes, OwnerPCs, ResumePCs
  <2>3. Numbered'
    BY <1>20 DEF Disconnect, Goto, Divert, Numbered, OwnerTypes
  <2>4. Holding'
    BY <1>20 DEF Disconnect, Goto, Divert, Holding, OwnerTypes, Diversion,
       ResumePCs
  <2> QED
    BY <1>20, <2>1, <2>2, <2>3, <2>4 DEF Disconnect, Goto, Divert,
       LifecycleTypes, MailboxTypes, CallerTypes, ControllerTypes
<1>21. CASE Die(g)
  <2>1. LifecycleTypes'
    BY <1>21 DEF Die, Goto, CloseWakeup, LifecycleTypes
  <2>2. OwnerTypes'
    BY <1>21 DEF Die, Goto, CloseWakeup, OwnerTypes, OwnerPCs, ResumePCs
  <2>3. Numbered'
    BY <1>21 DEF Die, Goto, CloseWakeup, Numbered, OwnerTypes
  <2>4. Holding'
    BY <1>21 DEF Die, Goto, CloseWakeup, Holding, OwnerTypes, Diversion,
       ResumePCs
  <2> QED
    BY <1>21, <2>1, <2>2, <2>3, <2>4 DEF Die, Goto, CloseWakeup, FlagTypes,
       MailboxTypes, CallerTypes, ControllerTypes
<1>22. CASE OwnerStopLocks(g)
  <2>1. FlagTypes'
    BY <1>22 DEF OwnerStopLocks, Goto, FlagTypes
  <2>2. LifecycleTypes'
    BY <1>22 DEF OwnerStopLocks, Goto, LifecycleTypes
  <2>3. OwnerTypes'
    BY <1>22 DEF OwnerStopLocks, Goto, OwnerTypes, OwnerPCs, ResumePCs
  <2>4. Numbered'
    BY <1>22 DEF OwnerStopLocks, Goto, Numbered, OwnerTypes
  <2>5. Holding'
    BY <1>22 DEF OwnerStopLocks, Goto, Holding, OwnerTypes, Diversion,
       ResumePCs
  <2> QED
    BY <1>22, <2>1, <2>2, <2>3, <2>4, <2>5 DEF OwnerStopLocks, Goto,
       MailboxTypes, CallerTypes, ControllerTypes
<1>23. CASE OtherReady(g)
  <2>1. OwnerTypes'
    BY <1>23 DEF OtherReady, Goto, OwnerTypes, OwnerPCs, ResumePCs
  <2>2. Numbered'
    BY <1>23 DEF OtherReady, Goto, Numbered, OwnerTypes
  <2>3. Holding'
    BY <1>23 DEF OtherReady, Goto, Holding, OwnerTypes, Diversion, ResumePCs
  <2> QED
    BY <1>23, <2>1, <2>2, <2>3 DEF OtherReady, Goto, FlagTypes,
       LifecycleTypes, MailboxTypes, CallerTypes, ControllerTypes
<1>24. CASE RegistrySync(g)
  <2>1. OwnerTypes'
    BY <1>24 DEF RegistrySync, OwnerTypes, OwnerPCs, ResumePCs
  <2> QED
    BY <1>24, <2>1 DEF RegistrySync, FlagTypes, LifecycleTypes, MailboxTypes,
       CallerTypes, ControllerTypes, Numbered, Holding
<1>25. CASE BindingsSync(g)
  <2>1. FlagTypes'
    BY <1>25, <1>b DEF BindingsSync, Goto, Divert, Dispatching, AfterDispatch,
       FlagTypes
  <2>2. OwnerTypes'
    BY <1>25, <1>b DEF BindingsSync, Goto, Divert, Dispatching, AfterDispatch,
       OwnerTypes, OwnerPCs, ResumePCs
  <2>3. Numbered'
    BY <1>25, <1>b DEF BindingsSync, Goto, Divert, Dispatching, AfterDispatch,
       Numbered, OwnerTypes
  <2>4. Holding'
    BY <1>25, <1>b DEF BindingsSync, Goto, Divert, Dispatching, AfterDispatch,
       Holding, OwnerTypes, Diversion, ResumePCs
  <2> QED
    BY <1>25, <2>1, <2>2, <2>3, <2>4 DEF BindingsSync, Goto, Divert,
       Dispatching, AfterDispatch, LifecycleTypes, MailboxTypes, CallerTypes,
       ControllerTypes
<1>26. CASE EventFails(g)
  <2>1. OwnerTypes'
    BY <1>26 DEF EventFails, Goto, Divert, Dispatching, AfterDispatch,
       OwnerTypes, OwnerPCs, ResumePCs
  <2>2. Numbered'
    BY <1>26 DEF EventFails, Goto, Divert, Dispatching, AfterDispatch,
       Numbered, OwnerTypes
  <2>3. Holding'
    BY <1>26 DEF EventFails, Goto, Divert, Dispatching, AfterDispatch,
       Holding, OwnerTypes, Diversion, ResumePCs
  <2> QED
    BY <1>26, <2>1, <2>2, <2>3 DEF EventFails, Goto, Divert, Dispatching,
       AfterDispatch, FlagTypes, LifecycleTypes, MailboxTypes, CallerTypes,
       ControllerTypes
<1> QED
  BY <1>1, <1>2, <1>3, <1>4, <1>5, <1>6, <1>7, <1>8, <1>9, <1>10, <1>11,
     <1>12, <1>13, <1>14, <1>15, <1>16, <1>17, <1>18, <1>19, <1>20, <1>21,
     <1>22, <1>23, <1>24, <1>25, <1>26, Zenon DEF OwnerStep, DisplayEvent

(* Every step of a controller keeps the types. *)
LEMMA ControllerTyped ==
    ASSUME TypeInv, NEW k \in Controllers,
           \/ StartShared(k) \/ StartFresh(k) \/ RequestStop(k)
           \/ StartChecks(k) \/ StopLocks(k) \/ ControllerStep(k)
    PROVE  TypeInv'
<1> USE DEF TypeInv, TypeOK, flags, wake, lifecycle, mailbox, owners, callers,
            controllers
<1>t. k \in Threads
  BY DEF Threads
<1>z. 0 \in 0..MaxGenerations
  BY MaxGenerationsAssumption
<1>f. StartFresh(k) => generation + 1 \in Generations \cap (0..MaxGenerations)
  BY MaxGenerationsAssumption DEF StartFresh, Generations, LifecycleTypes
<1>u. StartFresh(k) => opc[generation + 1] = "unborn"
  BY <1>f, MaxGenerationsAssumption DEF Numbered, LifecycleTypes, Generations
<1>1. CASE StartShared(k)
  <2>1. ControllerTypes'
    BY <1>1 DEF StartShared, ThreadAlive, ControllerTypes, ControllerPCs,
       LifecycleTypes
  <2> QED
    BY <1>1, <2>1 DEF StartShared, ThreadAlive, FlagTypes, LifecycleTypes,
       MailboxTypes, OwnerTypes, CallerTypes, Numbered, Holding
<1>2. CASE StartFresh(k)
  <2>1. FlagTypes'
    BY <1>2, <1>f, <1>u, <1>z, MaxGenerationsAssumption DEF StartFresh, Goto,
       FlagTypes
  <2>2. LifecycleTypes'
    BY <1>2, <1>f, <1>u, <1>z, MaxGenerationsAssumption DEF StartFresh, Goto,
       LifecycleTypes
  <2>3. MailboxTypes'
    BY <1>2, <1>f, <1>u, <1>z, MaxGenerationsAssumption DEF StartFresh, Goto,
       MailboxTypes
  <2>4. OwnerTypes'
    BY <1>2, <1>f, <1>u, <1>z, MaxGenerationsAssumption DEF StartFresh, Goto,
       OwnerTypes, OwnerPCs, ResumePCs
  <2>5. ControllerTypes'
    BY <1>2, <1>f, <1>u, <1>z, MaxGenerationsAssumption DEF StartFresh, Goto,
       ControllerTypes, ControllerPCs, LifecycleTypes
  <2>6. Numbered'
    BY <1>2, <1>f, <1>u, <1>z, MaxGenerationsAssumption DEF StartFresh, Goto,
       Numbered, OwnerTypes, LifecycleTypes, Generations
  <2>7. Holding'
    BY <1>2, <1>f, <1>u, <1>z, MaxGenerationsAssumption DEF StartFresh, Goto,
       Holding, OwnerTypes, Diversion, ResumePCs
  <2> QED
    BY <1>2, <2>1, <2>2, <2>3, <2>4, <2>5, <2>6, <2>7 DEF StartFresh, Goto,
       CallerTypes
<1>3. CASE RequestStop(k)
  <2>1. ControllerTypes'
    BY <1>3 DEF RequestStop, ControllerTypes, ControllerPCs
  <2> QED
    BY <1>3, <2>1 DEF RequestStop, FlagTypes, LifecycleTypes, MailboxTypes,
       OwnerTypes, CallerTypes, Numbered, Holding
<1>4. CASE StartChecks(k)
  <2>1. ControllerTypes'
    BY <1>4, <1>z DEF StartChecks, Rest, ControllerTypes, ControllerPCs,
       Reasons
  <2> QED
    BY <1>4, <2>1 DEF StartChecks, Rest, FlagTypes, LifecycleTypes,
       MailboxTypes, OwnerTypes, CallerTypes, Numbered, Holding
<1>5. CASE StopLocks(k)
  <2>1. FlagTypes'
    BY <1>5, <1>z DEF StopLocks, EndStop, Rest, CloseWakeup, FlagTypes
  <2>2. LifecycleTypes'
    BY <1>5, <1>z DEF StopLocks, EndStop, Rest, CloseWakeup, LifecycleTypes
  <2>3. ControllerTypes'
    BY <1>5, <1>z DEF StopLocks, EndStop, Rest, CloseWakeup, ControllerTypes,
       ControllerPCs, Reasons
  <2> QED
    BY <1>5, <2>1, <2>2, <2>3 DEF StopLocks, EndStop, Rest, CloseWakeup,
       MailboxTypes, OwnerTypes, CallerTypes, Numbered, Holding
<1>6. CASE StartReady(k)
  <2>1. ControllerTypes'
    BY <1>6 DEF StartReady, ControllerTypes, ControllerPCs
  <2> QED
    BY <1>6, <2>1 DEF StartReady, FlagTypes, LifecycleTypes, MailboxTypes,
       OwnerTypes, CallerTypes, Numbered, Holding
<1>7. CASE StartTimesOut(k)
  <2>1. ControllerTypes'
    BY <1>7 DEF StartTimesOut, ControllerTypes, ControllerPCs, Reasons
  <2> QED
    BY <1>7, <2>1 DEF StartTimesOut, FlagTypes, LifecycleTypes, MailboxTypes,
       OwnerTypes, CallerTypes, Numbered, Holding
<1>8. CASE StartReads(k)
  <2>1. ControllerTypes'
    BY <1>8 DEF StartReads, ControllerTypes, ControllerPCs, Reasons
  <2> QED
    BY <1>8, <2>1 DEF StartReads, FlagTypes, LifecycleTypes, MailboxTypes,
       OwnerTypes, CallerTypes, Numbered, Holding
<1>9. CASE StopSweeps(k)
  <2>1. MailboxTypes'
    BY <1>9, <1>t, SweepTyped DEF StopSweeps, MailboxTypes
  <2>2. ControllerTypes'
    BY <1>9, <1>t, SweepTyped DEF StopSweeps, ControllerTypes, ControllerPCs
  <2> QED
    BY <1>9, <2>1, <2>2 DEF StopSweeps, FlagTypes, LifecycleTypes, OwnerTypes,
       CallerTypes, Numbered, Holding
<1>10. CASE StopReleases(k)
  <2>1. LifecycleTypes'
    BY <1>10, <1>t, ReleaseTyped DEF StopReleases, Wake, LifecycleTypes
  <2>2. MailboxTypes'
    BY <1>10, <1>t, ReleaseTyped DEF StopReleases, Wake, MailboxTypes
  <2>3. ControllerTypes'
    BY <1>10, <1>t, ReleaseTyped DEF StopReleases, Wake, ControllerTypes,
       ControllerPCs
  <2> QED
    BY <1>10, <2>1, <2>2, <2>3 DEF StopReleases, Wake, FlagTypes, OwnerTypes,
       CallerTypes, Numbered, Holding
<1>11. CASE Joined(k)
  <2>1. FlagTypes'
    BY <1>11, <1>z DEF Joined, EndStop, Rest, CloseWakeup, FlagTypes
  <2>2. LifecycleTypes'
    BY <1>11, <1>z DEF Joined, EndStop, Rest, CloseWakeup, LifecycleTypes
  <2>3. ControllerTypes'
    BY <1>11, <1>z DEF Joined, EndStop, Rest, CloseWakeup, ControllerTypes,
       ControllerPCs, Reasons
  <2> QED
    BY <1>11, <2>1, <2>2, <2>3 DEF Joined, EndStop, Rest, CloseWakeup,
       MailboxTypes, OwnerTypes, CallerTypes, Numbered, Holding
<1>12. CASE JoinTimesOut(k)
  <2>1. LifecycleTypes'
    BY <1>12, <1>z DEF JoinTimesOut, Rest, LifecycleTypes
  <2>2. ControllerTypes'
    BY <1>12, <1>z DEF JoinTimesOut, Rest, ControllerTypes, ControllerPCs,
       Reasons
  <2> QED
    BY <1>12, <2>1, <2>2 DEF JoinTimesOut, Rest, FlagTypes, MailboxTypes,
       OwnerTypes, CallerTypes, Numbered, Holding
<1> QED
  BY <1>1, <1>2, <1>3, <1>4, <1>5, <1>6, <1>7, <1>8, <1>9, <1>10, <1>11,
     <1>12, Zenon DEF ControllerStep

(* Every step keeps the types. *)
LEMMA NextTyped == TypeInv /\ [Next]_vars => TypeInv'
<1> SUFFICES ASSUME TypeInv, [Next]_vars PROVE TypeInv'
  OBVIOUS
<1>1. CASE UNCHANGED vars
  BY <1>1 DEF TypeInv, TypeOK, Holding, FlagTypes, LifecycleTypes,
     MailboxTypes, OwnerTypes, CallerTypes, ControllerTypes, Numbered, vars,
     flags, wake, lifecycle, mailbox, owners, callers, controllers
<1>2. CASE Next
  BY <1>2, CallTyped, OwnerTyped, ControllerTyped, Zenon DEF Next
<1> QED
  BY <1>1, <1>2

(* Every variable has its type in every reachable state. *)
THEOREM TypeCorrect == Spec => []TypeOK
<1>1. TypeInv => TypeOK
  BY DEF TypeInv
<1> QED
  BY <1>1, InitTyped, NextTyped, PTL DEF Spec

-----------------------------------------------------------------------------
(* Answers.  The invariant that carries AnswersAreTrue from step to step says
   what is known of a call in each state of its command. *)

(* What the mailbox and the caller know of one call. *)
CallInv(c) ==
    /\ cpc[c] \in {"idle", "accept"} => state[c] = "NONE"
    /\ cpc[c] \in {"wake", "wait", "hold"} => state[c] \notin {"NONE", "CANCELLED"}
    /\ cpc[c] # "returned" <=> answer[c] = "none"
    /\ state[c] \in {"NONE", "QUEUED", "CANCELLED"} => ran[c] = 0 /\ outcome[c] = "none"
    /\ state[c] \in {"NONE", "QUEUED", "CLAIMED"} => c \notin done
    /\ state[c] = "CLAIMED" => cpc[c] # "returned"
    /\ state[c] = "CANCELLED" => answer[c] = "timeout"
    /\ state[c] = "QUEUED" => cpc[c] \in {"wake", "wait"}
    /\ state[c] = "DONE" => /\ ran[c] = IF outcome[c] = "completed" THEN 1 ELSE 0
                            /\ outcome[c] = "none" => answer[c] = "timeout"
    /\ cpc[c] = "returned" =>
           ran[c] = IF answer[c] = "completed" THEN 1 ELSE 0

(* How far the owner is with the command it holds. *)
HeldInv(g) ==
    held[g] # NoCall =>
        LET c == held[g]
        IN /\ state[c] = "CLAIMED"
           /\ opc[g] = "claimed" => outcome[c] = "none" /\ ran[c] = 0
           /\ opc[g] = "callback" => outcome[c] = "none" /\ ran[c] = 1
           /\ opc[g] \notin {"claimed", "callback"} =>
                  ran[c] = IF outcome[c] = "completed" THEN 1 ELSE 0
           /\ opc[g] \notin {"claimed", "callback"} => outcome[c] # "none"
           /\ \A h \in Generations : held[h] = c => h = g

(* A command is queued once, and nobody has decided about it but its caller. *)
QueueInv ==
    /\ \A i, j \in DOMAIN commands : commands[i] = commands[j] => i = j
    /\ \A i \in DOMAIN commands : state[commands[i]] \in {"QUEUED", "CANCELLED"}

(* A swept command is decided before it is released. *)
SweptInv == \A t \in Threads : \A c \in releasing[t] : state[c] = "DONE"

AnswerInv == /\ \A c \in Calls : CallInv(c)
             /\ \A g \in Generations : HeldInv(g)
             /\ QueueInv /\ SweptInv

(* A step that leaves the mailbox and the calls alone, and every working owner
   at the same stage of its command, keeps the invariant. *)
LEMMA AnswerFrame ==
    ASSUME AnswerInv,
           UNCHANGED <<commands, state, done, outcome, cpc, answer, ran, held,
                       releasing>>,
           \A g \in Generations : held[g] # NoCall =>
               /\ opc'[g] = "claimed" <=> opc[g] = "claimed"
               /\ opc'[g] = "callback" <=> opc[g] = "callback"
    PROVE  AnswerInv'
<1>1. \A c \in Calls : CallInv(c)'
  BY DEF AnswerInv, CallInv
<1>2. \A g \in Generations : HeldInv(g)'
  BY DEF AnswerInv, HeldInv
<1>3. QueueInv' /\ SweptInv'
  BY DEF AnswerInv, QueueInv, SweptInv
<1> QED
  BY <1>1, <1>2, <1>3 DEF AnswerInv

(* A sweep answers what is queued and touches no claimed command. *)
LEMMA AnswerSweep ==
    ASSUME TypeInv, AnswerInv, NEW t \in Threads, FailPending(t),
           UNCHANGED <<cpc, answer, ran, held>>,
           \A g \in Generations : held[g] # NoCall =>
               /\ opc'[g] = "claimed" <=> opc[g] = "claimed"
               /\ opc'[g] = "callback" <=> opc[g] = "callback"
    PROVE  AnswerInv'
<1>1. \A c \in Queued : c \in Calls /\ state[c] \in {"QUEUED", "CANCELLED"}
  BY DEF TypeInv, TypeOK, MailboxTypes, Queued, AnswerInv, QueueInv
<1>2. \A c \in Calls : CallInv(c)'
  <2> SUFFICES ASSUME NEW c \in Calls PROVE CallInv(c)'
    OBVIOUS
  <2>1. CallInv(c)
    BY DEF AnswerInv
  <2>2. CASE c \in Queued
    BY <2>1, <2>2, <1>1 DEF FailPending, CallInv, TypeInv, TypeOK, MailboxTypes
  <2>3. CASE c \notin Queued
    BY <2>1, <2>3 DEF FailPending, CallInv
  <2> QED
    BY <2>2, <2>3
<1>3. \A g \in Generations : HeldInv(g)'
  <2> SUFFICES ASSUME NEW g \in Generations, held[g] # NoCall PROVE HeldInv(g)'
    BY DEF HeldInv
  <2>1. HeldInv(g) /\ held[g] \in Calls
    BY DEF AnswerInv, TypeInv, TypeOK, OwnerTypes
  <2>2. held[g] \notin Queued
    BY <2>1, <1>1 DEF HeldInv
  <2>3. state'[held[g]] = state[held[g]] /\ outcome'[held[g]] = outcome[held[g]]
    BY <2>1, <2>2 DEF FailPending
  <2> QED
    BY <2>1, <2>3 DEF HeldInv
<1>4. QueueInv'
  BY DEF QueueInv, FailPending
<1>5. SweptInv'
  BY <1>1 DEF SweptInv, FailPending, AnswerInv, TypeInv, TypeOK, MailboxTypes
<1> QED
  BY <1>2, <1>3, <1>4, <1>5 DEF AnswerInv

(* Setting the Events of swept commands answers only decided calls. *)
LEMMA AnswerRelease ==
    ASSUME TypeInv, AnswerInv, NEW t \in Threads, ReleaseSwept(t),
           UNCHANGED <<cpc, answer, ran, held>>,
           \A g \in Generations : held[g] # NoCall =>
               /\ opc'[g] = "claimed" <=> opc[g] = "claimed"
               /\ opc'[g] = "callback" <=> opc[g] = "callback"
    PROVE  AnswerInv'
<1>1. \A c \in Calls : CallInv(c)'
  BY DEF AnswerInv, CallInv, SweptInv, ReleaseSwept
<1>2. \A g \in Generations : HeldInv(g)'
  BY DEF AnswerInv, HeldInv, ReleaseSwept
<1>3. QueueInv'
  BY DEF AnswerInv, QueueInv, ReleaseSwept
<1>4. SweptInv'
  BY DEF AnswerInv, SweptInv, ReleaseSwept, TypeInv, TypeOK, MailboxTypes
<1> QED
  BY <1>1, <1>2, <1>3, <1>4 DEF AnswerInv

(* Every step of a calling thread keeps the invariant. *)
LEMMA AnswerCall ==
    ASSUME TypeInv, AnswerInv, NEW c \in Calls, Call(c) \/ CallStep(c)
    PROVE  AnswerInv'
<1> USE DEF flags, wake, lifecycle, mailbox, owners, callers, controllers
<1>m. MailboxTypes /\ CallerTypes /\ OwnerTypes
  BY DEF TypeInv, TypeOK
<1>1. CASE Call(c)
  <2>1. \A d \in Calls : CallInv(d)'
    BY <1>1, <1>m DEF Call, AnswerInv, CallInv, CallerTypes, MailboxTypes, CallPCs
  <2>2. \A g \in Generations : HeldInv(g)'
    BY <1>1, <1>m DEF Call, AnswerInv, HeldInv, MailboxTypes, OwnerTypes
  <2>3. QueueInv'
    BY <1>1, <1>m DEF Call, AnswerInv, QueueInv, MailboxTypes, CallInv
  <2>4. SweptInv'
    BY <1>1, <1>m DEF Call, AnswerInv, SweptInv, MailboxTypes
  <2> QED
    BY <2>1, <2>2, <2>3, <2>4 DEF AnswerInv
<1>2. CASE Accept(c)
  <2>1. state[c] = "NONE"
    BY <1>2 DEF Accept, AnswerInv, CallInv
  <2>2. \A d \in Calls : CallInv(d)'
    BY <1>2, <1>m DEF Accept, AnswerInv, CallInv, CallerTypes, MailboxTypes
  <2>3. \A g \in Generations : HeldInv(g)'
    <3> SUFFICES ASSUME NEW g \in Generations, held[g] # NoCall PROVE HeldInv(g)'
      BY <1>2 DEF HeldInv, Accept
    <3>1. HeldInv(g) /\ held[g] # c
      BY <2>1 DEF AnswerInv, HeldInv
    <3>2. state'[held[g]] = state[held[g]]
      BY <1>2, <1>m, <3>1 DEF Accept, MailboxTypes, OwnerTypes
    <3> QED
      BY <1>2, <3>1, <3>2 DEF Accept, HeldInv
  <2>4. QueueInv'
    <3>1. CASE commands' = Append(commands, c) /\ state' = [state EXCEPT ![c] = "QUEUED"]
      <4>1. /\ Len(commands) \in Nat /\ DOMAIN commands = 1..Len(commands)
            /\ DOMAIN commands' = 1..Len(commands) + 1
            /\ commands'[Len(commands) + 1] = c
            /\ \A i \in DOMAIN commands : commands'[i] = commands[i]
        BY <3>1, <1>m, LenProperties, AppendProperties DEF MailboxTypes
      <4>2. \A i \in DOMAIN commands : commands[i] \in Calls /\ commands[i] # c
        BY <1>m, <2>1, <4>1 DEF MailboxTypes, AnswerInv, QueueInv
      <4> QED
        BY <1>m, <3>1, <4>1, <4>2 DEF AnswerInv, QueueInv, MailboxTypes
    <3>2. CASE UNCHANGED <<commands, state>>
      BY <3>2 DEF AnswerInv, QueueInv
    <3> QED
      BY <1>2, <3>1, <3>2 DEF Accept
  <2>5. SweptInv'
    <3> SUFFICES ASSUME NEW t \in Threads, NEW d \in releasing[t]
                 PROVE  state'[d] = "DONE"
      BY <1>2 DEF SweptInv, Accept
    <3>1. state[d] = "DONE" /\ d \in Calls
      BY <1>m DEF AnswerInv, SweptInv, MailboxTypes
    <3> QED
      BY <1>2, <1>m, <2>1, <3>1 DEF Accept, MailboxTypes
  <2> QED
    BY <2>2, <2>3, <2>4, <2>5 DEF AnswerInv
<1>3. CASE WakeOwner(c)
  <2>1. \A d \in Calls : CallInv(d)'
    BY <1>3, <1>m DEF WakeOwner, AnswerInv, CallInv, CallerTypes, MailboxTypes, CallPCs
  <2>2. \A g \in Generations : HeldInv(g)'
    BY <1>3, <1>m DEF WakeOwner, AnswerInv, HeldInv, MailboxTypes, OwnerTypes
  <2>3. QueueInv'
    BY <1>3, <1>m DEF WakeOwner, AnswerInv, QueueInv, MailboxTypes, CallInv
  <2>4. SweptInv'
    BY <1>3, <1>m DEF WakeOwner, AnswerInv, SweptInv, MailboxTypes
  <2> QED
    BY <2>1, <2>2, <2>3, <2>4 DEF AnswerInv
<1>4. CASE Cancel(c)
  <2>1. \A d \in Calls : CallInv(d)'
    BY <1>4, <1>m DEF Cancel, AnswerInv, CallInv, CallerTypes, MailboxTypes, CallPCs
  <2>2. \A g \in Generations : HeldInv(g)'
    BY <1>4, <1>m DEF Cancel, AnswerInv, HeldInv, MailboxTypes, OwnerTypes
  <2>3. QueueInv'
    BY <1>4, <1>m DEF Cancel, AnswerInv, QueueInv, MailboxTypes, CallInv
  <2>4. SweptInv'
    BY <1>4, <1>m DEF Cancel, AnswerInv, SweptInv, MailboxTypes
  <2> QED
    BY <2>1, <2>2, <2>3, <2>4 DEF AnswerInv
<1>5. CASE Hold(c)
  <2>1. \A d \in Calls : CallInv(d)'
    BY <1>5, <1>m DEF Hold, AnswerInv, CallInv, CallerTypes, MailboxTypes, CallPCs
  <2>2. \A g \in Generations : HeldInv(g)'
    BY <1>5, <1>m DEF Hold, AnswerInv, HeldInv, MailboxTypes, OwnerTypes
  <2>3. QueueInv'
    BY <1>5, <1>m DEF Hold, AnswerInv, QueueInv, MailboxTypes, CallInv
  <2>4. SweptInv'
    BY <1>5, <1>m DEF Hold, AnswerInv, SweptInv, MailboxTypes
  <2> QED
    BY <2>1, <2>2, <2>3, <2>4 DEF AnswerInv
<1>6. CASE Return(c)
  <2>1. \A d \in Calls : CallInv(d)'
    <3> SUFFICES ASSUME NEW d \in Calls PROVE CallInv(d)'
      OBVIOUS
    <3>1. CallInv(d)
      BY DEF AnswerInv
    <3>2. CASE d = c
      <4>1. state[c] = "DONE" /\ answer[c] = "none" /\ outcome[c] # "none"
        BY <1>6, <1>m, <3>1, <3>2 DEF Return, CallInv, MailboxTypes, States
      <4> QED
        BY <1>6, <1>m, <3>1, <3>2, <4>1 DEF Return, CallInv, CallerTypes
    <3>3. CASE d # c
      BY <1>6, <1>m, <3>1, <3>3 DEF Return, CallInv, CallerTypes
    <3> QED
      BY <3>2, <3>3
  <2>2. \A g \in Generations : HeldInv(g)'
    BY <1>6, <1>m DEF Return, AnswerInv, HeldInv, MailboxTypes, OwnerTypes
  <2>3. QueueInv'
    BY <1>6, <1>m DEF Return, AnswerInv, QueueInv, MailboxTypes, CallInv
  <2>4. SweptInv'
    BY <1>6, <1>m DEF Return, AnswerInv, SweptInv, MailboxTypes
  <2> QED
    BY <2>1, <2>2, <2>3, <2>4 DEF AnswerInv
<1> QED
  BY <1>1, <1>2, <1>3, <1>4, <1>5, <1>6 DEF CallStep

(* Every step of an owner thread keeps the invariant. *)
LEMMA AnswerOwner ==
    ASSUME TypeInv, AnswerInv, NEW g \in Generations,
           OwnerStep(g) \/ OwnerStopLocks(g) \/ DisplayEvent(g)
    PROVE  AnswerInv'
<1> USE DEF flags, wake, lifecycle, mailbox, owners, callers, controllers, Goto
<1>m. MailboxTypes /\ CallerTypes /\ OwnerTypes /\ Holding
  BY DEF TypeInv, TypeOK
<1>t. g \in Threads
  BY DEF Threads
<1>1. CASE Connect(g)
  BY <1>1, <1>m, AnswerFrame DEF Connect, Holding, OwnerTypes,
     Divert
<1>2. CASE TestStopping(g)
  BY <1>2, <1>m, AnswerFrame DEF TestStopping, Holding, OwnerTypes
<1>3. CASE EndDispatch(g)
  BY <1>3, <1>m, AnswerFrame DEF EndDispatch, Holding, OwnerTypes,
     Dispatching, AfterDispatch
<1>4. CASE Woken(g)
  BY <1>4, <1>m, AnswerFrame DEF Woken, Holding, OwnerTypes
<1>5. CASE FailRecords(g)
  BY <1>5, <1>m, AnswerFrame DEF FailRecords, Holding, OwnerTypes
<1>6. CASE FailStops(g)
  BY <1>6, <1>m, AnswerFrame DEF FailStops, Holding, OwnerTypes
<1>7. CASE FailReadies(g)
  BY <1>7, <1>m, AnswerFrame DEF FailReadies, Holding, OwnerTypes
<1>8. CASE ClearRunning(g)
  BY <1>8, <1>m, AnswerFrame DEF ClearRunning, Holding, OwnerTypes
<1>9. CASE FinallyReadies(g)
  BY <1>9, <1>m, AnswerFrame DEF FinallyReadies, Holding, OwnerTypes
<1>10. CASE Disconnect(g)
  BY <1>10, <1>m, AnswerFrame DEF Disconnect, Holding, OwnerTypes,
     Divert
<1>11. CASE Die(g)
  BY <1>11, <1>m, AnswerFrame DEF Die, Holding, OwnerTypes
<1>12. CASE OwnerStopLocks(g)
  BY <1>12, <1>m, AnswerFrame DEF OwnerStopLocks, Holding, OwnerTypes
<1>13. CASE OtherReady(g)
  BY <1>13, <1>m, AnswerFrame DEF OtherReady, Holding, OwnerTypes
<1>14. CASE RegistrySync(g)
  BY <1>14, <1>m, AnswerFrame DEF RegistrySync, Holding, OwnerTypes
<1>15. CASE BindingsSync(g)
  BY <1>15, <1>m, AnswerFrame DEF BindingsSync, Holding, OwnerTypes,
     Divert, Dispatching, AfterDispatch
<1>16. CASE EventFails(g)
  BY <1>16, <1>m, AnswerFrame DEF EventFails, Holding, OwnerTypes,
     Divert, Dispatching, AfterDispatch
<1>17. CASE FailSweeps(g)
  BY <1>17, <1>m, <1>t, AnswerSweep DEF FailSweeps, Holding, OwnerTypes
<1>18. CASE OwnerStopSweeps(g)
  BY <1>18, <1>m, <1>t, AnswerSweep DEF OwnerStopSweeps, Holding, OwnerTypes
<1>19. CASE FinallySweeps(g)
  BY <1>19, <1>m, <1>t, AnswerSweep DEF FinallySweeps, Holding, OwnerTypes
<1>20. CASE FailReleases(g)
  BY <1>20, <1>m, <1>t, AnswerRelease
     DEF FailReleases, Resume, Holding, OwnerTypes, ResumePCs
<1>21. CASE OwnerStopReturns(g)
  BY <1>21, <1>m, <1>t, AnswerRelease
     DEF OwnerStopReturns, Resume, Holding, OwnerTypes, ResumePCs
<1>22. CASE FinallyReleases(g)
  BY <1>22, <1>m, <1>t, AnswerRelease
     DEF FinallyReleases, Resume, Holding, OwnerTypes, ResumePCs
<1>23. CASE Drain(g)
  <2>h. held[g] = NoCall
    BY <1>23, <1>m DEF Drain, Holding, Diversion
  <2>1. CASE commands = <<>>
    BY <1>23, <2>1, <2>h, <1>m, AnswerFrame DEF Drain, OwnerTypes
  <2>2. CASE commands # <<>>
    <3> DEFINE c == Head(commands)
    <3>1. /\ c \in Calls /\ Len(commands) \in Nat \ {0} /\ c = commands[1]
          /\ DOMAIN commands = 1..Len(commands)
          /\ DOMAIN Tail(commands) = 1..Len(commands) - 1
          /\ \A i \in DOMAIN Tail(commands) : Tail(commands)[i] = commands[i + 1]
      BY <2>2, <1>m, HeadTyped, LenProperties, HeadTailProperties, EmptySeq
         DEF MailboxTypes
    <3>2. /\ state[c] \in {"QUEUED", "CANCELLED"}
          /\ \A i \in DOMAIN Tail(commands) : commands[i + 1] # c
      BY <3>1 DEF AnswerInv, QueueInv
    <3>3. CallInv(c)
      BY <3>1 DEF AnswerInv
    <3>4. \A d \in Calls : CallInv(d)'
      BY <1>23, <2>2, <1>m, <3>1, <3>2, <3>3
         DEF Drain, AnswerInv, CallInv, MailboxTypes, CallerTypes
    <3>5. \A h \in Generations : HeldInv(h)'
      <4> SUFFICES ASSUME NEW h \in Generations, held'[h] # NoCall
                   PROVE  HeldInv(h)'
        BY DEF HeldInv
      <4>1. \A i \in Generations : held[i] # c
        BY <3>1, <3>2, NoCallAssumption DEF AnswerInv, HeldInv
      <4>2. CASE h = g
        BY <1>23, <2>2, <2>h, <1>m, <3>1, <3>2, <3>3, <4>1, <4>2
           DEF Drain, CallInv, HeldInv, MailboxTypes, OwnerTypes
      <4>3. CASE h # g
        <5>1. held'[h] = held[h] /\ opc'[h] = opc[h] /\ HeldInv(h)
          BY <1>23, <2>2, <1>m, <4>3 DEF Drain, OwnerTypes, AnswerInv
        <5>2. state'[held[h]] = state[held[h]] /\ held'[g] \in {c, NoCall}
          BY <1>23, <2>2, <2>h, <1>m, <4>1, <5>1 DEF Drain, OwnerTypes,
             MailboxTypes
        <5>3. \A i \in Generations : held'[i] = held[h] => i = h
          BY <1>23, <2>2, <1>m, <4>1, <4>3, <5>1, <5>2 DEF Drain, OwnerTypes,
             HeldInv
        <5> QED
          BY <1>23, <2>2, <5>1, <5>2, <5>3 DEF Drain, HeldInv
      <4> QED
        BY <4>2, <4>3
    <3>6. QueueInv'
      <4>1. \A i, j \in DOMAIN Tail(commands) :
                Tail(commands)[i] = Tail(commands)[j] => i = j
        <5> SUFFICES ASSUME NEW i \in DOMAIN Tail(commands),
                            NEW j \in DOMAIN Tail(commands),
                            Tail(commands)[i] = Tail(commands)[j]
                     PROVE  i = j
          OBVIOUS
        <5>1. /\ i + 1 \in DOMAIN commands /\ j + 1 \in DOMAIN commands
              /\ commands[i + 1] = commands[j + 1] /\ i \in Nat /\ j \in Nat
          BY <3>1
        <5>2. i + 1 = j + 1
          BY <5>1 DEF AnswerInv, QueueInv
        <5> QED
          BY <5>1, <5>2
      <4>2. \A i \in DOMAIN Tail(commands) :
                state'[Tail(commands)[i]] \in {"QUEUED", "CANCELLED"}
        <5> SUFFICES ASSUME NEW i \in DOMAIN Tail(commands)
                     PROVE  state'[Tail(commands)[i]] \in {"QUEUED", "CANCELLED"}
          OBVIOUS
        <5>1. i + 1 \in DOMAIN commands /\ Tail(commands)[i] = commands[i + 1]
          BY <3>1
        <5>2. commands[i + 1] # c /\ state[commands[i + 1]] \in {"QUEUED", "CANCELLED"}
          BY <3>2, <5>1 DEF AnswerInv, QueueInv
        <5> QED
          BY <1>23, <2>2, <1>m, <5>1, <5>2 DEF Drain, MailboxTypes
      <4> QED
        BY <1>23, <2>2, <4>1, <4>2 DEF Drain, QueueInv
    <3>7. SweptInv'
      BY <1>23, <2>2, <1>m, <3>1, <3>2 DEF Drain, AnswerInv, SweptInv,
         MailboxTypes
    <3> QED
      BY <3>4, <3>5, <3>6, <3>7 DEF AnswerInv
  <2> QED
    BY <2>1, <2>2
<1>24. CASE StartCallback(g)
  <2>c. held[g] \in Calls /\ HeldInv(g) /\ CallInv(held[g])
    BY <1>24, <1>m, NoCallAssumption DEF StartCallback, Holding, OwnerTypes,
       AnswerInv
  <2>1. \A d \in Calls : CallInv(d)'
    <3> SUFFICES ASSUME NEW d \in Calls PROVE CallInv(d)'
      OBVIOUS
    <3>1. CASE d = held[g]
      <4>1. CallInv(d) /\ state[d] = "CLAIMED"
        BY <2>c, <3>1, NoCallAssumption DEF HeldInv
      <4>2. UNCHANGED <<cpc, answer, state, done>>
        BY <1>24 DEF StartCallback
      <4> QED
        BY <4>1, <4>2 DEF CallInv
    <3>2. CASE d # held[g]
      BY <1>24, <1>m, <3>2 DEF StartCallback, AnswerInv, CallInv,
         MailboxTypes, CallerTypes
    <3> QED
      BY <3>1, <3>2
  <2>2. \A h \in Generations : HeldInv(h)'
    <3> SUFFICES ASSUME NEW h \in Generations, held'[h] # NoCall PROVE HeldInv(h)'
      BY DEF HeldInv
    <3>1. CASE h = g
      BY <1>24, <1>m, <2>c, <3>1
         DEF StartCallback, HeldInv, OwnerTypes, MailboxTypes, CallerTypes
    <3>2. CASE h # g
      <4>1. /\ held'[h] = held[h] /\ opc'[h] = opc[h] /\ HeldInv(h)
            /\ held[h] # held[g] /\ held[h] \in Calls
        BY <1>24, <1>m, <2>c, <3>2 DEF StartCallback, OwnerTypes, AnswerInv,
           HeldInv
      <4>2. /\ state'[held[h]] = state[held[h]] /\ outcome'[held[h]] = outcome[held[h]]
            /\ ran'[held[h]] = ran[held[h]]
        BY <1>24, <1>m, <4>1 DEF StartCallback, MailboxTypes, CallerTypes
      <4>3. \A i \in Generations : held'[i] = held[h] => i = h
        BY <1>24, <1>m, <3>2, <4>1 DEF StartCallback, OwnerTypes, HeldInv
      <4> QED
        BY <4>1, <4>2, <4>3 DEF HeldInv
    <3> QED
      BY <3>1, <3>2
  <2>3. QueueInv'
    BY <1>24, <1>m, <2>c DEF StartCallback, AnswerInv, QueueInv, HeldInv,
       MailboxTypes
  <2>4. SweptInv'
    BY <1>24, <1>m, <2>c DEF StartCallback, AnswerInv, SweptInv, HeldInv,
       MailboxTypes
  <2> QED
    BY <2>1, <2>2, <2>3, <2>4 DEF AnswerInv
<1>25. CASE EndCallback(g)
  <2>c. held[g] \in Calls /\ HeldInv(g) /\ CallInv(held[g])
    BY <1>25, <1>m, NoCallAssumption DEF EndCallback, Holding, OwnerTypes,
       AnswerInv
  <2>1. \A d \in Calls : CallInv(d)'
    <3> SUFFICES ASSUME NEW d \in Calls PROVE CallInv(d)'
      OBVIOUS
    <3>1. CASE d = held[g]
      <4>1. CallInv(d) /\ state[d] = "CLAIMED"
        BY <2>c, <3>1, NoCallAssumption DEF HeldInv
      <4>2. UNCHANGED <<cpc, answer, state, done>>
        BY <1>25 DEF EndCallback
      <4> QED
        BY <4>1, <4>2 DEF CallInv
    <3>2. CASE d # held[g]
      BY <1>25, <1>m, <3>2 DEF EndCallback, AnswerInv, CallInv, MailboxTypes,
         CallerTypes, Divert
    <3> QED
      BY <3>1, <3>2
  <2>2. \A h \in Generations : HeldInv(h)'
    <3> SUFFICES ASSUME NEW h \in Generations, held'[h] # NoCall PROVE HeldInv(h)'
      BY DEF HeldInv
    <3>1. CASE h = g
      BY <1>25, <1>m, <2>c, <3>1
         DEF EndCallback, HeldInv, OwnerTypes, MailboxTypes, CallerTypes, Divert
    <3>2. CASE h # g
      <4>1. /\ held'[h] = held[h] /\ opc'[h] = opc[h] /\ HeldInv(h)
            /\ held[h] # held[g] /\ held[h] \in Calls
        BY <1>25, <1>m, <2>c, <3>2 DEF EndCallback, OwnerTypes, AnswerInv,
           HeldInv, Divert
      <4>2. /\ state'[held[h]] = state[held[h]] /\ outcome'[held[h]] = outcome[held[h]]
            /\ ran'[held[h]] = ran[held[h]]
        BY <1>25, <1>m, <4>1 DEF EndCallback, MailboxTypes, CallerTypes
      <4>3. \A i \in Generations : held'[i] = held[h] => i = h
        BY <1>25, <1>m, <3>2, <4>1 DEF EndCallback, OwnerTypes, HeldInv
      <4> QED
        BY <4>1, <4>2, <4>3 DEF HeldInv
    <3> QED
      BY <3>1, <3>2
  <2>3. QueueInv'
    BY <1>25, <1>m, <2>c DEF EndCallback, AnswerInv, QueueInv, HeldInv,
       MailboxTypes
  <2>4. SweptInv'
    BY <1>25, <1>m, <2>c DEF EndCallback, AnswerInv, SweptInv, HeldInv,
       MailboxTypes
  <2> QED
    BY <2>1, <2>2, <2>3, <2>4 DEF AnswerInv
<1>26. CASE Finish(g)
  <2>c. held[g] \in Calls /\ HeldInv(g) /\ CallInv(held[g])
    BY <1>26, <1>m, NoCallAssumption DEF Finish, Holding, OwnerTypes, AnswerInv
  <2>1. \A d \in Calls : CallInv(d)'
    <3> SUFFICES ASSUME NEW d \in Calls PROVE CallInv(d)'
      OBVIOUS
    <3>1. CASE d = held[g]
      <4>1. /\ CallInv(d) /\ state[d] = "CLAIMED" /\ outcome[d] # "none"
            /\ ran[d] = IF outcome[d] = "completed" THEN 1 ELSE 0
        BY <1>26, <2>c, <3>1, NoCallAssumption DEF Finish, HeldInv
      <4>2. /\ UNCHANGED <<cpc, answer, outcome, ran>>
            /\ state'[d] = "DONE"
        BY <1>26, <1>m, <3>1 DEF Finish, MailboxTypes
      <4> QED
        BY <4>1, <4>2 DEF CallInv
    <3>2. CASE d # held[g]
      BY <1>26, <1>m, <3>2 DEF Finish, AnswerInv, CallInv, MailboxTypes,
         CallerTypes
    <3> QED
      BY <3>1, <3>2
  <2>2. \A h \in Generations : HeldInv(h)'
    <3> SUFFICES ASSUME NEW h \in Generations, held'[h] # NoCall PROVE HeldInv(h)'
      BY DEF HeldInv
    <3>1. CASE h = g
      BY <1>26, <1>m, <2>c, <3>1
         DEF Finish, HeldInv, OwnerTypes, MailboxTypes, CallerTypes
    <3>2. CASE h # g
      <4>1. /\ held'[h] = held[h] /\ opc'[h] = opc[h] /\ HeldInv(h)
            /\ held[h] # held[g] /\ held[h] \in Calls
        BY <1>26, <1>m, <2>c, <3>2 DEF Finish, OwnerTypes, AnswerInv, HeldInv
      <4>2. /\ state'[held[h]] = state[held[h]] /\ outcome'[held[h]] = outcome[held[h]]
            /\ ran'[held[h]] = ran[held[h]]
        BY <1>26, <1>m, <4>1 DEF Finish, MailboxTypes, CallerTypes
      <4>3. \A i \in Generations : held'[i] = held[h] => i = h
        BY <1>26, <1>m, <3>2, <4>1 DEF Finish, OwnerTypes, HeldInv
      <4> QED
        BY <4>1, <4>2, <4>3 DEF HeldInv
    <3> QED
      BY <3>1, <3>2
  <2>3. QueueInv'
    <3>1. \A i \in DOMAIN commands : commands[i] \in Calls /\ commands[i] # held[g]
      BY <1>m, <2>c, NoCallAssumption DEF AnswerInv, QueueInv, HeldInv, MailboxTypes
    <3> QED
      BY <1>26, <1>m, <3>1 DEF Finish, AnswerInv, QueueInv, MailboxTypes
  <2>4. SweptInv'
    BY <1>26, <1>m, <2>c DEF Finish, AnswerInv, SweptInv, HeldInv, MailboxTypes
  <2> QED
    BY <2>1, <2>2, <2>3, <2>4 DEF AnswerInv
<1> QED
  BY <1>1, <1>2, <1>3, <1>4, <1>5, <1>6, <1>7, <1>8, <1>9, <1>10, <1>11,
     <1>12, <1>13, <1>14, <1>15, <1>16, <1>17, <1>18, <1>19, <1>20, <1>21,
     <1>22, <1>23, <1>24, <1>25, <1>26,
     Zenon DEF OwnerStep, DisplayEvent

(* Every step of a controller keeps the invariant. *)
LEMMA AnswerController ==
    ASSUME TypeInv, AnswerInv, NEW k \in Controllers,
           \/ StartShared(k) \/ StartFresh(k) \/ RequestStop(k)
           \/ StartChecks(k) \/ StopLocks(k) \/ ControllerStep(k)
    PROVE  AnswerInv'
<1> USE DEF flags, wake, lifecycle, mailbox, owners, callers, controllers, Goto
<1>t. k \in Threads
  BY DEF Threads
<1>1. CASE StartShared(k)
  BY <1>1, AnswerFrame DEF StartShared
<1>2. CASE RequestStop(k)
  BY <1>2, AnswerFrame DEF RequestStop
<1>3. CASE StartChecks(k)
  BY <1>3, AnswerFrame DEF StartChecks
<1>4. CASE StopLocks(k)
  BY <1>4, AnswerFrame DEF StopLocks
<1>5. CASE StartReady(k)
  BY <1>5, AnswerFrame DEF StartReady
<1>6. CASE StartTimesOut(k)
  BY <1>6, AnswerFrame DEF StartTimesOut
<1>7. CASE StartReads(k)
  BY <1>7, AnswerFrame DEF StartReads
<1>8. CASE Joined(k)
  BY <1>8, AnswerFrame DEF Joined
<1>9. CASE JoinTimesOut(k)
  BY <1>9, AnswerFrame DEF JoinTimesOut
<1>10. CASE StopSweeps(k)
  BY <1>10, <1>t, AnswerSweep DEF StopSweeps
<1>11. CASE StopReleases(k)
  BY <1>11, <1>t, AnswerRelease DEF StopReleases
<1>12. CASE StartFresh(k)
  <2>1. generation + 1 \in Generations /\ opc[generation + 1] = "unborn"
    BY <1>12, MaxGenerationsAssumption
       DEF StartFresh, TypeInv, TypeOK, LifecycleTypes, Numbered, Generations
  <2>2. held[generation + 1] = NoCall
    BY <2>1 DEF TypeInv, Holding, Diversion
  <2>3. \A c \in Calls : CallInv(c)'
    BY <1>12 DEF StartFresh, AnswerInv, CallInv
  <2>4. \A g \in Generations : HeldInv(g)'
    BY <1>12, <2>2 DEF StartFresh, AnswerInv, HeldInv, TypeInv, TypeOK,
       OwnerTypes
  <2>5. QueueInv' /\ SweptInv'
    BY <1>12 DEF StartFresh, AnswerInv, QueueInv, SweptInv
  <2> QED
    BY <2>3, <2>4, <2>5 DEF AnswerInv
<1> QED
  BY <1>1, <1>2, <1>3, <1>4, <1>5, <1>6, <1>7, <1>8, <1>9, <1>10, <1>11, <1>12,
     Zenon DEF ControllerStep

(* The mailbox starts empty and nothing is known of any call. *)
LEMMA AnswerInit == Init => AnswerInv
BY DEF Init, AnswerInv, CallInv, HeldInv, QueueInv, SweptInv

(* Every step keeps the invariant. *)
LEMMA AnswerStep == TypeInv /\ AnswerInv /\ [Next]_vars => AnswerInv'
<1> SUFFICES ASSUME TypeInv, AnswerInv, [Next]_vars PROVE AnswerInv'
  OBVIOUS
<1>1. CASE UNCHANGED vars
  BY <1>1, AnswerFrame DEF vars, mailbox, owners, callers
<1>2. CASE Next
  BY <1>2, AnswerCall, AnswerOwner, AnswerController, Zenon DEF Next
<1> QED
  BY <1>1, <1>2

(* Nothing is answered but what happened: for any number of calls, controllers
   and restarts, a call that returned its callback's outcome ran it exactly
   once, and one that was refused has not run and never will. *)
THEOREM AnswersCorrect == Spec => []AnswersAreTrue
<1>1. AnswerInv => AnswersAreTrue
  BY DEF AnswerInv, CallInv, AnswersAreTrue
<1> QED
  BY <1>1, InitTyped, NextTyped, AnswerInit, AnswerStep, PTL DEF Spec

-----------------------------------------------------------------------------
(* One owner. *)

(* Only a living owner thread moves, and it moves alone. *)
LEMMA OwnerMovesAlone ==
    ASSUME TypeInv, NEW g \in Generations,
           OwnerStep(g) \/ OwnerStopLocks(g) \/ DisplayEvent(g)
    PROVE  /\ thread' = thread /\ Alive(g)
           /\ \A h \in Generations : h # g => opc'[h] = opc[h]
<1>1. Alive(g) /\ thread' = thread
  BY DEF OwnerStep, DisplayEvent, Alive, lifecycle, Connect, TestStopping, Drain,
     StartCallback, EndCallback, Finish, EndDispatch, Woken, FailRecords,
     FailStops, FailReadies, FailSweeps, FailReleases, OwnerStopSweeps,
     OwnerStopReturns, ClearRunning, FinallyReadies, FinallySweeps,
     FinallyReleases, Disconnect, Die, OwnerStopLocks, OtherReady,
     RegistrySync, BindingsSync, EventFails, Dispatching
<1>2. opc' = opc \/ \E pc : Goto(g, pc)
  BY DEF OwnerStep, DisplayEvent, Divert, Resume, owners, Connect, TestStopping,
     Drain, StartCallback, EndCallback, Finish, EndDispatch, Woken,
     FailRecords, FailStops, FailReadies, FailSweeps, FailReleases,
     OwnerStopSweeps, OwnerStopReturns, ClearRunning, FinallyReadies,
     FinallySweeps, FinallyReleases, Disconnect, Die, OwnerStopLocks,
     OtherReady, RegistrySync, BindingsSync, EventFails
<1>3. opc \in [Generations -> OwnerPCs]
  BY DEF TypeInv, TypeOK, OwnerTypes
<1> QED
  BY <1>1, <1>2, <1>3 DEF Goto

(* Every step keeps the single owner. *)
LEMMA OneOwnerStep == TypeInv /\ OneOwner /\ [Next]_vars => OneOwner'
<1> SUFFICES ASSUME TypeInv, OneOwner, [Next]_vars PROVE OneOwner'
  OBVIOUS
<1> USE DEF lifecycle, owners
<1>1. CASE UNCHANGED <<opc, thread>>
  BY <1>1 DEF OneOwner, Alive
<1>2. ASSUME NEW c \in Calls, Call(c) \/ CallStep(c)
      PROVE  UNCHANGED <<opc, thread>>
  BY <1>2 DEF CallStep, Call, Accept, WakeOwner, Cancel, Hold, Return
<1>3. ASSUME NEW g \in Generations,
             OwnerStep(g) \/ OwnerStopLocks(g) \/ DisplayEvent(g)
      PROVE  OneOwner'
  BY <1>3, OwnerMovesAlone DEF OneOwner, Alive
<1>4. ASSUME NEW k \in Controllers, StartFresh(k)
      PROVE  OneOwner'
  <2>1. generation + 1 \in Generations
    BY <1>4, MaxGenerationsAssumption
       DEF StartFresh, TypeInv, TypeOK, LifecycleTypes, Generations
  <2>2. \A g \in Generations : ~Alive(g)
    BY <1>4, MaxGenerationsAssumption
       DEF StartFresh, ThreadAlive, OneOwner, Generations
  <2>3. \A g \in Generations : g # generation + 1 => opc'[g] = opc[g]
    BY <1>4 DEF StartFresh, Goto, TypeInv, TypeOK, OwnerTypes
  <2>4. thread' = generation + 1 \/ opc'[generation + 1] = "dead"
    BY <1>4, <2>1 DEF StartFresh, Goto, TypeInv, TypeOK, OwnerTypes
  <2> QED
    BY <2>2, <2>3, <2>4 DEF OneOwner, Alive
<1>5. ASSUME NEW k \in Controllers, Joined(k)
      PROVE  OneOwner'
  <2>1. \A g \in Generations : ~Alive(g)
    BY <1>5, MaxGenerationsAssumption
       DEF Joined, ThreadAlive, OneOwner, Generations
  <2> QED
    BY <1>5, <2>1 DEF Joined, OneOwner, Alive
<1>6. ASSUME NEW k \in Controllers,
             \/ StartShared(k) \/ RequestStop(k) \/ StartChecks(k)
             \/ StopLocks(k) \/ StartReady(k) \/ StartTimesOut(k)
             \/ StartReads(k) \/ StopSweeps(k) \/ StopReleases(k)
             \/ JoinTimesOut(k)
      PROVE  UNCHANGED <<opc, thread>>
  BY <1>6 DEF StartShared, RequestStop, StartChecks, StopLocks, StartReady,
     StartTimesOut, StartReads, StopSweeps, StopReleases, JoinTimesOut
<1>7. CASE UNCHANGED vars
  BY <1>1, <1>7 DEF vars
<1>8. CASE Next
  <2>1. ASSUME NEW k \in Controllers,
               \/ StartShared(k) \/ StartFresh(k) \/ RequestStop(k)
               \/ StartChecks(k) \/ StopLocks(k) \/ ControllerStep(k)
        PROVE  OneOwner'
    BY <1>1, <1>4, <1>5, <1>6, <2>1, Zenon DEF ControllerStep
  <2> QED
    BY <1>1, <1>2, <1>3, <1>8, <2>1, Zenon DEF Next
<1> QED
  BY <1>7, <1>8

(* However starts, stops, join timeouts and failures interleave, one owner
   thread lives at most, and _thread names it. *)
THEOREM OneOwnerCorrect == Spec => []OneOwner
<1>1. Init => OneOwner
  BY DEF Init, OneOwner, Alive
<1> QED
  BY <1>1, OneOwnerStep, InitTyped, NextTyped, PTL DEF Spec

-----------------------------------------------------------------------------
(* The abstract executor. *)

(* A claimed command is in the hands of an owner. *)
ClaimedInv == \A c \in Calls : state[c] = "CLAIMED" =>
                  \E g \in Generations : held[g] = c

(* Only the drain claims, and only Finish lets go. *)
LEMMA ClaimedStep == TypeInv /\ ClaimedInv /\ [Next]_vars => ClaimedInv'
<1> SUFFICES ASSUME TypeInv, ClaimedInv, [Next]_vars PROVE ClaimedInv'
  OBVIOUS
<1> USE DEF flags, wake, lifecycle, mailbox, owners, callers, controllers
<1>m. MailboxTypes /\ OwnerTypes /\ Holding
  BY DEF TypeInv, TypeOK
<1>1. CASE UNCHANGED <<state, held>>
  BY <1>1 DEF ClaimedInv
<1>2. ASSUME NEW t, FailPending(t), UNCHANGED held
      PROVE  ClaimedInv'
  BY <1>2 DEF FailPending, ClaimedInv
<1>3. ASSUME NEW c \in Calls, Call(c) \/ CallStep(c)
      PROVE  ClaimedInv'
  <2>1. CASE Accept(c) \/ Cancel(c)
    BY <2>1, <1>m DEF Accept, Cancel, ClaimedInv, MailboxTypes
  <2>2. CASE Call(c) \/ WakeOwner(c) \/ Hold(c) \/ Return(c)
    BY <2>2, <1>1 DEF Call, WakeOwner, Hold, Return
  <2> QED
    BY <1>3, <2>1, <2>2 DEF CallStep
<1>4. ASSUME NEW g \in Generations,
             OwnerStep(g) \/ OwnerStopLocks(g) \/ DisplayEvent(g)
      PROVE  ClaimedInv'
  <2>1. CASE Drain(g)
    <3>1. held[g] = NoCall
      BY <2>1, <1>m DEF Drain, Holding, Diversion
    <3> QED
      BY <2>1, <3>1, <1>m, NoCallAssumption
         DEF Drain, ClaimedInv, MailboxTypes, OwnerTypes
  <2>2. CASE Finish(g)
    BY <2>2, <1>m DEF Finish, ClaimedInv, MailboxTypes, OwnerTypes
  <2>3. CASE FailSweeps(g) \/ OwnerStopSweeps(g) \/ FinallySweeps(g)
    BY <2>3, <1>2 DEF FailSweeps, OwnerStopSweeps, FinallySweeps
  <2>4. CASE \/ Connect(g) \/ TestStopping(g) \/ StartCallback(g)
             \/ EndCallback(g) \/ EndDispatch(g) \/ Woken(g)
             \/ FailRecords(g) \/ FailStops(g) \/ FailReadies(g)
             \/ FailReleases(g) \/ OwnerStopReturns(g) \/ ClearRunning(g)
             \/ FinallyReadies(g) \/ FinallyReleases(g) \/ Disconnect(g)
             \/ Die(g) \/ OwnerStopLocks(g) \/ DisplayEvent(g)
    BY <2>4, <1>1
       DEF Connect, TestStopping, StartCallback, EndCallback, EndDispatch,
       Woken, FailRecords, FailStops, FailReadies, FailReleases, ReleaseSwept,
       OwnerStopReturns, ClearRunning, FinallyReadies, FinallyReleases,
       Disconnect, Die, OwnerStopLocks, DisplayEvent, OtherReady,
       RegistrySync, BindingsSync, EventFails
  <2> QED
    BY <1>4, <2>1, <2>2, <2>3, <2>4, Zenon DEF OwnerStep
<1>5. ASSUME NEW k \in Controllers,
             \/ StartShared(k) \/ StartFresh(k) \/ RequestStop(k)
             \/ StartChecks(k) \/ StopLocks(k) \/ ControllerStep(k)
      PROVE  ClaimedInv'
  <2>1. CASE StopSweeps(k)
    BY <2>1, <1>2 DEF StopSweeps
  <2>2. CASE \/ StartShared(k) \/ StartFresh(k) \/ RequestStop(k)
             \/ StartChecks(k) \/ StopLocks(k) \/ StartReady(k)
             \/ StartTimesOut(k) \/ StartReads(k) \/ StopReleases(k)
             \/ Joined(k) \/ JoinTimesOut(k)
    BY <2>2, <1>1
       DEF StartShared, StartFresh, RequestStop, StartChecks, StopLocks,
       StartReady, StartTimesOut, StartReads, StopReleases, ReleaseSwept,
       Joined, JoinTimesOut
  <2> QED
    BY <1>5, <2>1, <2>2, Zenon DEF ControllerStep
<1>6. CASE UNCHANGED vars
  BY <1>6, <1>1 DEF vars
<1>7. CASE Next
  BY <1>7, <1>3, <1>4, <1>5, Zenon DEF Next
<1> QED
  BY <1>6, <1>7

(* Nothing the abstract executor sees has changed. *)
LEMMA Stutters ==
    ASSUME ran' = ran, \A c \in Calls : Phase(c)' = Phase(c)
    PROVE  UNCHANGED Abstract!vars
BY DEF Abstract!vars

(* One undecided call is refused. *)
LEMMA Refuses ==
    ASSUME NEW c \in Calls, ran' = ran,
           Phase(c) \in {"new", "pending"}, Phase(c)' = "refused",
           \A d \in Calls : d # c => Phase(d)' = Phase(d)
    PROVE  Abstract!Next
<1>1. Abstract!Refuse(c)
  BY DEF Abstract!Refuse, Abstract!Decide
<1> QED
  BY <1>1 DEF Abstract!Next

(* A sweep of the mailbox refuses exactly the pending calls it finds. *)
LEMMA SweepRefines ==
    ASSUME TypeInv, AnswerInv, NEW t, FailPending(t), UNCHANGED <<answer, ran>>
    PROVE  Abstract!Next
<1> DEFINE S == {c \in Calls : c \in Queued /\ state[c] = "QUEUED"}
<1>1. \A c \in Calls : CallInv(c)
  BY DEF AnswerInv
<1>2. \A c \in Calls : c \in Queued => state[c] \in {"QUEUED", "CANCELLED"}
  BY DEF AnswerInv, QueueInv, Queued
<1>3. ASSUME NEW c \in S PROVE Phase(c) = "pending" /\ Phase(c)' = "refused"
  <2>1. c \in Calls /\ c \in Queued /\ state[c] = "QUEUED"
    OBVIOUS
  <2>2. CallInv(c)
    BY <2>1, <1>1
  <2>3. ran[c] = 0 /\ outcome[c] = "none"
    BY <2>1, <2>2 DEF CallInv
  <2>4. answer[c] = "none"
    BY <2>1, <2>2 DEF CallInv
  <2>5. outcome'[c] = "unavailable" /\ ran'[c] = 0
    BY <2>1, <2>3 DEF FailPending
  <2>6. Phase(c) = "pending"
    BY <2>1, <2>3, <2>4 DEF Phase
  <2>7. Phase(c)' = "refused"
    BY <2>5 DEF Phase
  <2> QED
    BY <2>6, <2>7
<1>4. \A c \in Calls \ S : Phase(c)' = Phase(c)
  BY <1>1, <1>2 DEF FailPending, Phase, CallInv, TypeInv, TypeOK, MailboxTypes, CallerTypes
<1>5. Abstract!Sweep(S)
  BY <1>3, <1>4 DEF Abstract!Sweep
<1> QED
  BY <1>5 DEF Abstract!Next

(* Each step of a calling thread submits, refuses, or is not seen. *)
LEMMA CallRefines ==
    ASSUME TypeInv, AnswerInv, NEW c \in Calls, Call(c) \/ CallStep(c)
    PROVE  [Abstract!Next]_(Abstract!vars)
<1> USE DEF flags, wake, lifecycle, mailbox, owners, callers, controllers
<1>m. MailboxTypes /\ CallerTypes /\ CallInv(c)
  BY DEF TypeInv, TypeOK, AnswerInv
<1>1. CASE Call(c)
  <2>1. Phase(c) = "new"
    BY <1>1, <1>m DEF Call, CallInv, Phase
  <2>2. \A d \in Calls : d # c => Phase(d)' = Phase(d)
    BY <1>1, <1>m DEF Call, Phase, CallerTypes
  <2>3. Phase(c)' \in {"new", "refused"} /\ ran' = ran
    BY <1>1, <1>m, <2>1 DEF Call, CallInv, Phase, CallerTypes
  <2> QED
    BY <2>1, <2>2, <2>3, Refuses, Stutters
<1>2. CASE Accept(c)
  <2>1. Phase(c) = "new"
    BY <1>2, <1>m DEF Accept, CallInv, Phase
  <2>2. \A d \in Calls : d # c => Phase(d)' = Phase(d)
    BY <1>2, <1>m DEF Accept, Phase, CallerTypes, MailboxTypes
  <2>3. Phase(c)' \in {"pending", "refused"} /\ ran' = ran
    BY <1>2, <1>m, <2>1 DEF Accept, CallInv, Phase, CallerTypes, MailboxTypes
  <2>4. Phase(c)' = "pending" => Abstract!Submit(c)
    BY <2>1, <2>2, <2>3 DEF Abstract!Submit, Abstract!Decide
  <2> QED
    BY <2>1, <2>2, <2>3, <2>4, Refuses DEF Abstract!Next
<1>3. CASE Cancel(c)
  <2>1. Phase(c) = "pending"
    BY <1>3, <1>m DEF Cancel, CallInv, Phase
  <2>2. \A d \in Calls : d # c => Phase(d)' = Phase(d)
    BY <1>3, <1>m DEF Cancel, Phase, CallerTypes, MailboxTypes
  <2>3. Phase(c)' = "refused" /\ ran' = ran
    BY <1>3, <1>m, <2>1 DEF Cancel, CallInv, Phase, CallerTypes, MailboxTypes
  <2> QED
    BY <2>1, <2>2, <2>3, Refuses
<1>4. CASE Return(c)
  <2>1. state[c] = "DONE" /\ answer[c] = "none" /\ outcome[c] # "none"
    BY <1>4, <1>m DEF Return, CallInv, MailboxTypes, States
  <2>2. \A d \in Calls : Phase(d)' = Phase(d)
    BY <1>4, <1>m, <2>1 DEF Return, Phase, CallInv, CallerTypes, MailboxTypes, Outcomes
  <2> QED
    BY <1>4, <2>2, Stutters DEF Return
<1>5. CASE WakeOwner(c) \/ Hold(c)
  BY <1>5, Stutters DEF WakeOwner, Hold, Phase
<1> QED
  BY <1>1, <1>2, <1>3, <1>4, <1>5 DEF CallStep

(* While an owner is about to run a command, no callback is executing. *)
LEMMA NobodyRuns ==
    ASSUME TypeInv, AnswerInv, ClaimedInv, OneOwner,
           NEW g \in Generations, opc[g] = "claimed"
    PROVE  \A d \in Calls : Phase(d) # "running"
<1> SUFFICES ASSUME NEW d \in Calls, Phase(d) = "running" PROVE FALSE
  OBVIOUS
<1>1. ran[d] > 0 /\ outcome[d] = "none"
  BY DEF Phase
<1>2. CallInv(d) /\ state[d] \in States /\ ran[d] \in Nat
  BY DEF AnswerInv, TypeInv, TypeOK, MailboxTypes, CallerTypes
<1>3. state[d] = "CLAIMED"
  BY <1>1, <1>2 DEF CallInv, States
<1>4. PICK h \in Generations : held[h] = d
  BY <1>3 DEF ClaimedInv
<1>5. HeldInv(h) /\ d # NoCall
  BY NoCallAssumption DEF AnswerInv
<1>6. opc[h] = "callback"
  BY <1>1, <1>2, <1>4, <1>5 DEF HeldInv
<1>7. thread = g /\ thread = h
  BY <1>6 DEF OneOwner, Alive
<1> QED
  BY <1>6, <1>7

(* Each step of an owner begins or completes a call, refuses calls, or is not
   seen. *)
LEMMA OwnerRefines ==
    ASSUME TypeInv, AnswerInv, ClaimedInv, OneOwner, NEW g \in Generations,
           OwnerStep(g) \/ OwnerStopLocks(g) \/ DisplayEvent(g)
    PROVE  [Abstract!Next]_(Abstract!vars)
<1> USE DEF flags, wake, lifecycle, mailbox, owners, callers, controllers
<1>m. MailboxTypes /\ CallerTypes /\ OwnerTypes /\ Holding
  BY DEF TypeInv, TypeOK
<1>c. held[g] # NoCall => /\ held[g] \in Calls /\ HeldInv(g) /\ CallInv(held[g])
  BY <1>m DEF OwnerTypes, AnswerInv
<1>1. CASE StartCallback(g)
  <2>c. PICK c : c = held[g]
    OBVIOUS
  <2>1. c \in Calls /\ HeldInv(g) /\ CallInv(c) /\ c # NoCall /\ opc[g] = "claimed"
    BY <1>1, <2>c, <1>c, <1>m DEF StartCallback, Holding
  <2>2. ran[c] = 0 /\ outcome[c] = "none" /\ state[c] = "CLAIMED"
    BY <2>1, <2>c DEF HeldInv
  <2>3. Phase(c) = "pending"
    BY <2>1, <2>2, <1>m DEF Phase, CallInv, CallerTypes, CallPCs
  <2>4. CASE stopping
    <3>1. outcome' = [outcome EXCEPT ![c] = "unavailable"] /\ ran' = ran
          /\ UNCHANGED <<state, answer>>
      BY <1>1, <2>c, <2>4 DEF StartCallback
    <3>2. Phase(c)' = "refused" /\ \A d \in Calls : d # c => Phase(d)' = Phase(d)
      BY <3>1, <2>1, <2>2, <1>m DEF Phase, MailboxTypes
    <3> QED
      BY <3>1, <3>2, <2>1, <2>3, Refuses
  <2>5. CASE ~stopping
    <3>1. /\ ran' = [ran EXCEPT ![c] = @ + 1]
          /\ UNCHANGED <<outcome, state, answer>>
      BY <1>1, <2>c, <2>5 DEF StartCallback
    <3>2. Phase(c)' = "running" /\ \A d \in Calls : d # c => Phase(d)' = Phase(d)
      BY <3>1, <2>1, <2>2, <1>m DEF Phase, CallerTypes
    <3>3. \A d \in Calls : Phase(d) # "running"
      BY <2>1, NobodyRuns
    <3>4. Abstract!Begin(c)
      BY <3>1, <3>2, <3>3, <2>1, <2>3 DEF Abstract!Begin, Abstract!Decide
    <3> QED
      BY <3>4, <2>1 DEF Abstract!Next
  <2> QED
    BY <2>4, <2>5
<1>2. CASE EndCallback(g)
  <2>c. PICK c : c = held[g]
    OBVIOUS
  <2>1. c \in Calls /\ HeldInv(g) /\ c # NoCall /\ opc[g] = "callback"
    BY <1>2, <2>c, <1>c, <1>m DEF EndCallback, Holding
  <2>2. /\ outcome' = [outcome EXCEPT ![c] = "completed"] /\ ran' = ran
        /\ UNCHANGED <<state, answer>>
    BY <1>2, <2>c DEF EndCallback
  <2>3. Phase(c) = "running" /\ Phase(c)' = "completed"
    BY <2>1, <2>2, <2>c, <1>m DEF HeldInv, Phase, MailboxTypes
  <2>4. \A d \in Calls : d # c => Phase(d)' = Phase(d)
    BY <2>1, <2>2, <1>m DEF Phase, MailboxTypes
  <2>5. Abstract!Complete(c)
    BY <2>1, <2>2, <2>3, <2>4 DEF Abstract!Complete, Abstract!Decide
  <2> QED
    BY <2>1, <2>5 DEF Abstract!Next
<1>3. CASE Drain(g)
  <2>1. ran' = ran /\ UNCHANGED <<outcome, answer>>
    BY <1>3 DEF Drain
  <2>2. \A c \in Calls : state'[c] = state[c] \/ (state'[c] # "NONE" /\ state[c] # "NONE")
    <3>1. CASE commands = <<>>
      BY <1>3, <3>1 DEF Drain
    <3>2. CASE commands # <<>>
      <4>1. /\ Head(commands) \in Calls /\ 1 \in DOMAIN commands
            /\ Head(commands) = commands[1]
        BY <3>2, <1>m, HeadTyped, LenProperties, EmptySeq DEF MailboxTypes
      <4>2. state[Head(commands)] # "NONE"
        BY <4>1 DEF AnswerInv, QueueInv
      <4> QED
        BY <1>3, <3>2, <1>m, <4>1, <4>2 DEF Drain, MailboxTypes
    <3> QED
      BY <3>1, <3>2
  <2> QED
    BY <2>1, <2>2, Stutters DEF Phase
<1>4. CASE Finish(g)
  <2>1. state' = [state EXCEPT ![held[g]] = "DONE"] /\ UNCHANGED <<ran, outcome, answer>>
    BY <1>4 DEF Finish
  <2>2. held[g] \in Calls /\ state[held[g]] = "CLAIMED"
    BY <1>4, <1>c, <1>m DEF Finish, Holding, HeldInv
  <2>3. \A c \in Calls : state'[c] = state[c] \/ (state'[c] # "NONE" /\ state[c] # "NONE")
    BY <2>1, <2>2, <1>m DEF MailboxTypes
  <2> QED
    BY <2>1, <2>3, Stutters DEF Phase
<1>5. CASE FailSweeps(g) \/ OwnerStopSweeps(g) \/ FinallySweeps(g)
  BY <1>5, SweepRefines DEF FailSweeps, OwnerStopSweeps, FinallySweeps
<1>6. CASE \/ Connect(g) \/ TestStopping(g) \/ EndDispatch(g) \/ Woken(g)
           \/ FailRecords(g) \/ FailStops(g) \/ FailReadies(g)
           \/ FailReleases(g) \/ OwnerStopReturns(g) \/ ClearRunning(g)
           \/ FinallyReadies(g) \/ FinallyReleases(g) \/ Disconnect(g)
           \/ Die(g) \/ OwnerStopLocks(g) \/ DisplayEvent(g)
  <2>1. UNCHANGED <<ran, outcome, answer, state>>
    BY <1>6 DEF Connect, TestStopping, EndDispatch, Woken, FailRecords,
       FailStops, FailReadies, FailReleases, ReleaseSwept, OwnerStopReturns,
       ClearRunning, FinallyReadies, FinallyReleases, Disconnect, Die,
       OwnerStopLocks, DisplayEvent, OtherReady, RegistrySync, BindingsSync,
       EventFails
  <2> QED
    BY <2>1, Stutters DEF Phase
<1> QED
  BY <1>1, <1>2, <1>3, <1>4, <1>5, <1>6, Zenon DEF OwnerStep

(* A controller refuses what it sweeps and is otherwise not seen. *)
LEMMA ControllerRefines ==
    ASSUME TypeInv, AnswerInv, NEW k \in Controllers,
           \/ StartShared(k) \/ StartFresh(k) \/ RequestStop(k)
           \/ StartChecks(k) \/ StopLocks(k) \/ ControllerStep(k)
    PROVE  [Abstract!Next]_(Abstract!vars)
<1> USE DEF flags, wake, lifecycle, mailbox, owners, callers, controllers
<1>1. CASE StopSweeps(k)
  BY <1>1, SweepRefines DEF StopSweeps
<1>2. CASE \/ StartShared(k) \/ StartFresh(k) \/ RequestStop(k)
           \/ StartChecks(k) \/ StopLocks(k) \/ StartReady(k)
           \/ StartTimesOut(k) \/ StartReads(k) \/ StopReleases(k)
           \/ Joined(k) \/ JoinTimesOut(k)
  <2>1. UNCHANGED <<ran, outcome, answer, state>>
    BY <1>2 DEF StartShared, StartFresh, RequestStop, StartChecks, StopLocks,
       StartReady, StartTimesOut, StartReads, StopReleases, ReleaseSwept,
       Joined, JoinTimesOut
  <2> QED
    BY <2>1, Stutters DEF Phase
<1> QED
  BY <1>1, <1>2, Zenon DEF ControllerStep

(* The mailbox implements the abstract executor, whatever is submitted,
   stopped, failed and restarted: each call is refused for good, or its
   callback runs once, while no other runs. *)
THEOREM ExecutorImplemented == Spec => ImplementsExecutor
<1>1. Init => Abstract!Init
  BY DEF Init, Abstract!Init, Phase
<1>2. TypeInv /\ AnswerInv /\ ClaimedInv /\ OneOwner /\ [Next]_vars
        => [Abstract!Next]_(Abstract!vars)
  <2> SUFFICES ASSUME TypeInv, AnswerInv, ClaimedInv, OneOwner, [Next]_vars
               PROVE  [Abstract!Next]_(Abstract!vars)
    OBVIOUS
  <2>1. CASE UNCHANGED vars
    <3>1. UNCHANGED <<ran, outcome, answer, state>>
      BY <2>1 DEF vars, mailbox, callers
    <3> QED
      BY <3>1, Stutters DEF Phase
  <2>2. CASE Next
    BY <2>2, CallRefines, OwnerRefines, ControllerRefines, Zenon DEF Next
  <2> QED
    BY <2>1, <2>2
<1>3. Init => OneOwner /\ ClaimedInv
  BY DEF Init, OneOwner, Alive, ClaimedInv
<1> QED
  BY <1>1, <1>2, <1>3, InitTyped, NextTyped, AnswerInit, AnswerStep, ClaimedStep,
     OneOwnerStep, PTL DEF Spec, ImplementsExecutor, Abstract!Spec

-----------------------------------------------------------------------------
(* Nobody is forgotten: a caller who waits is owed an answer, and no command outlives
   its owner thread. *)

Members(s) == {s[i] : i \in DOMAIN s}

(* An owner of which commands may be accepted, and one that has yet to make
   the last sweep of the mailbox. *)
Open(g) == /\ opc[g] \notin {"unborn", "connecting", "finReady", "finPending",
                             "finRelease", "disconnect", "closing", "dead"}
           /\ after[g] # "closing"
Unswept(g) == /\ opc[g] \notin {"unborn", "finRelease", "disconnect", "closing",
                                "dead"}
              /\ after[g] # "closing"

(* The living owner is the newest generation; the mailbox takes commands and
   holds some only while the thread that will sweep it last is there. *)
LifeInv ==
    /\ \A g \in Generations : Alive(g) => g = generation
    /\ running => thread \in Generations /\ Open(thread)
    /\ Queued # {} => thread \in Generations /\ Unswept(thread)

(* Only a thread that is about to set their Events has swept commands left. *)
ReleasingInv ==
    /\ \A g \in Generations : releasing[g] # {} =>
           opc[g] \in {"failRelease", "stopRelease", "finRelease"}
    /\ \A k \in Controllers : releasing[k] # {} => kpc[k] = "stopRelease"

(* What is queued or claimed was accepted by the owner that has it. *)
AcceptedInv ==
    /\ \A c \in Queued : accepted[c] = thread
    /\ \A g \in Generations : held[g] # NoCall => accepted[held[g]] = g

Owed(c) == \/ c \in Queued
           \/ \E g \in Generations : held[g] = c
           \/ \E t \in Threads : c \in releasing[t]
OwedInv == \A c \in Calls :
               cpc[c] \in {"wake", "wait", "hold"} /\ c \notin done => Owed(c)

(* What every step but the calls' own does to the mailbox: what was owed is
   owed still or answered, and a command moves only from the queue to the
   owner that claims it. *)
NobodyForgotten ==
    /\ cpc' = cpc /\ accepted' = accepted /\ done \subseteq done'
    /\ \A c \in Calls : Owed(c) => Owed(c)' \/ c \in done'
    /\ Queued' \subseteq Queued
    /\ \A g \in Generations : \/ held'[g] \in {held[g], NoCall}
                              \/ Alive(g) /\ held'[g] \in Queued

-----------------------------------------------------------------------------
(* The queue as a set. *)

(* The commands of a queue are its head and those of its tail. *)
LEMMA HeadAndTail ==
    ASSUME MailboxTypes, commands # <<>>
    PROVE  Queued = {Head(commands)} \cup Members(Tail(commands))
<1>1. /\ Len(commands) \in Nat \ {0} /\ Head(commands) = commands[1]
      /\ DOMAIN commands = 1..Len(commands)
      /\ DOMAIN Tail(commands) = 1..Len(commands) - 1
      /\ \A i \in DOMAIN Tail(commands) : Tail(commands)[i] = commands[i + 1]
  BY LenProperties, HeadTailProperties, EmptySeq DEF MailboxTypes
<1>2. Queued \subseteq {Head(commands)} \cup Members(Tail(commands))
  <2> SUFFICES ASSUME NEW i \in DOMAIN commands, i # 1
               PROVE  commands[i] \in Members(Tail(commands))
    BY <1>1 DEF Queued
  <2>1. i - 1 \in DOMAIN Tail(commands) /\ Tail(commands)[i - 1] = commands[i]
    BY <1>1
  <2> QED
    BY <2>1 DEF Members
<1>3. Members(Tail(commands)) \subseteq Queued
  BY <1>1 DEF Members, Queued
<1>4. Head(commands) \in Queued
  BY <1>1 DEF Queued
<1> QED
  BY <1>2, <1>3, <1>4

(* Appending a command adds it to them. *)
LEMMA Appended ==
    ASSUME MailboxTypes, NEW c \in Calls
    PROVE  Members(Append(commands, c)) = Queued \cup {c}
<1>1. /\ Len(commands) \in Nat /\ DOMAIN commands = 1..Len(commands)
      /\ DOMAIN Append(commands, c) = 1..Len(commands) + 1
      /\ Append(commands, c)[Len(commands) + 1] = c
      /\ \A i \in DOMAIN commands : Append(commands, c)[i] = commands[i]
  BY LenProperties, AppendProperties DEF MailboxTypes
<1>2. \A i \in DOMAIN Append(commands, c) :
          i \in DOMAIN commands \/ i = Len(commands) + 1
  BY <1>1
<1>3. DOMAIN commands \subseteq DOMAIN Append(commands, c)
      /\ Len(commands) + 1 \in DOMAIN Append(commands, c)
  BY <1>1
<1> QED
  BY <1>1, <1>2, <1>3 DEF Members, Queued

(* A queue is empty when it has no commands. *)
LEMMA NothingQueued ==
    ASSUME MailboxTypes
    PROVE  commands = <<>> <=> Queued = {}
BY HeadAndTail DEF Queued

-----------------------------------------------------------------------------
(* Nobody is forgotten. *)

(* A step that changes none of what is owed. *)
LEMMA ForgetsNothing ==
    ASSUME UNCHANGED <<commands, held, releasing, cpc, accepted, done>>
    PROVE  NobodyForgotten
BY DEF NobodyForgotten, Owed, Queued

(* The commands swept by thread t are those it will release. *)
LEMMA SweepOwes ==
    ASSUME TypeInv, NEW t \in Threads, releasing[t] = {}, FailPending(t),
           UNCHANGED <<held, cpc, accepted>>
    PROVE  NobodyForgotten
<1>1. /\ releasing'[t] = Queued
      /\ \A u \in Threads : u # t => releasing'[u] = releasing[u]
  BY DEF FailPending, TypeInv, TypeOK, MailboxTypes
<1>2. Queued' = {} /\ done' = done
  BY DEF FailPending, Queued
<1>3. \A c \in Calls : Owed(c) => Owed(c)'
  BY <1>1 DEF Owed
<1> QED
  BY <1>2, <1>3 DEF NobodyForgotten

(* Those it releases are answered. *)
LEMMA ReleaseOwes ==
    ASSUME TypeInv, NEW t \in Threads, ReleaseSwept(t),
           UNCHANGED <<held, cpc, accepted>>
    PROVE  NobodyForgotten
<1>1. /\ releasing[t] \subseteq done' /\ done \subseteq done'
      /\ \A u \in Threads : u # t => releasing'[u] = releasing[u]
  BY DEF ReleaseSwept, TypeInv, TypeOK, MailboxTypes
<1>2. Queued' = Queued
  BY DEF ReleaseSwept, Queued
<1>3. \A c \in Calls : Owed(c) => Owed(c)' \/ c \in done'
  BY <1>1, <1>2 DEF Owed
<1> QED
  BY <1>1, <1>2, <1>3 DEF NobodyForgotten

(* A thread has nothing to release when it begins a sweep. *)
LEMMA OwnerForgetsNobody ==
    ASSUME TypeInv, ReleasingInv, NEW g \in Generations,
           OwnerStep(g) \/ OwnerStopLocks(g) \/ DisplayEvent(g)
    PROVE  NobodyForgotten
<1> USE DEF flags, wake, lifecycle, mailbox, owners, callers, controllers
<1>m. MailboxTypes /\ OwnerTypes /\ Holding
  BY DEF TypeInv, TypeOK
<1>t. g \in Threads
  BY DEF Threads
<1>1. CASE Drain(g)
  <2>1. CASE commands = <<>>
    BY <1>1, <2>1, ForgetsNothing DEF Drain
  <2>2. CASE commands # <<>>
    <3>1. /\ commands' = Tail(commands) /\ releasing' = releasing
          /\ cpc' = cpc /\ accepted' = accepted /\ done \subseteq done'
      BY <1>1, <2>2 DEF Drain
    <3>2. Queued = {Head(commands)} \cup Queued'
      BY <3>1, <2>2, <1>m, HeadAndTail DEF Queued, Members
    <3>3. held[g] = NoCall /\ Alive(g)
      BY <1>1, <1>m DEF Drain, Holding, Diversion, Alive
    <3>4. \/ held' = held /\ Head(commands) \in done'
          \/ held'[g] = Head(commands) /\ \A h \in Generations : h # g => held'[h] = held[h]
      BY <1>1, <2>2, <1>m DEF Drain, OwnerTypes
    <3>5. \A c \in Calls : Owed(c) => Owed(c)' \/ c \in done'
      BY <3>1, <3>2, <3>3, <3>4, NoCallAssumption DEF Owed
    <3>6. \A h \in Generations : \/ held'[h] \in {held[h], NoCall}
                                 \/ Alive(h) /\ held'[h] \in Queued
      BY <3>2, <3>3, <3>4
    <3> QED
      BY <3>1, <3>2, <3>5, <3>6 DEF NobodyForgotten
  <2> QED
    BY <2>1, <2>2
<1>2. CASE Finish(g)
  <2>1. /\ held[g] \in done' /\ held'[g] = NoCall /\ done \subseteq done'
        /\ \A h \in Generations : h # g => held'[h] = held[h]
        /\ UNCHANGED <<commands, releasing, cpc, accepted>>
    BY <1>2, <1>m DEF Finish, OwnerTypes
  <2>2. Queued' = Queued
    BY <2>1 DEF Queued
  <2>3. \A c \in Calls : Owed(c) => Owed(c)' \/ c \in done'
    BY <2>1, <2>2 DEF Owed
  <2> QED
    BY <2>1, <2>2, <2>3 DEF NobodyForgotten
<1>3. CASE FailSweeps(g) \/ OwnerStopSweeps(g) \/ FinallySweeps(g)
  <2>1. releasing[g] = {}
    BY <1>3 DEF ReleasingInv, FailSweeps, OwnerStopSweeps, FinallySweeps
  <2> QED
    BY <1>3, <1>t, <2>1, SweepOwes DEF FailSweeps, OwnerStopSweeps, FinallySweeps
<1>4. CASE FailReleases(g) \/ OwnerStopReturns(g) \/ FinallyReleases(g)
  BY <1>4, <1>t, ReleaseOwes DEF FailReleases, OwnerStopReturns, FinallyReleases
<1>5. CASE \/ Connect(g) \/ TestStopping(g) \/ StartCallback(g)
           \/ EndCallback(g) \/ EndDispatch(g) \/ Woken(g)
           \/ FailRecords(g) \/ FailStops(g) \/ FailReadies(g)
           \/ ClearRunning(g) \/ FinallyReadies(g) \/ Disconnect(g)
           \/ Die(g) \/ OwnerStopLocks(g) \/ DisplayEvent(g)
  BY <1>5, ForgetsNothing
     DEF Connect, TestStopping, StartCallback, EndCallback, EndDispatch,
     Woken, FailRecords, FailStops, FailReadies, ClearRunning,
     FinallyReadies, Disconnect, Die, OwnerStopLocks, DisplayEvent,
     OtherReady, RegistrySync, BindingsSync, EventFails
<1> QED
  BY <1>1, <1>2, <1>3, <1>4, <1>5, Zenon DEF OwnerStep

(* start() clears a mailbox that is empty, because no owner lives. *)
LEMMA ControllerForgetsNobody ==
    ASSUME TypeInv, ReleasingInv, LifeInv, NEW k \in Controllers,
           \/ StartShared(k) \/ StartFresh(k) \/ RequestStop(k)
           \/ StartChecks(k) \/ StopLocks(k) \/ ControllerStep(k)
    PROVE  NobodyForgotten
<1> USE DEF flags, wake, lifecycle, mailbox, owners, callers, controllers
<1>m. MailboxTypes
  BY DEF TypeInv, TypeOK
<1>t. k \in Threads
  BY DEF Threads
<1>1. CASE StartFresh(k)
  <2>1. Queued = {}
    BY <1>1, MaxGenerationsAssumption
       DEF StartFresh, ThreadAlive, Alive, LifeInv, Unswept, Generations
  <2>2. commands = <<>>
    BY <2>1, <1>m, NothingQueued
  <2> QED
    BY <1>1, <2>2, ForgetsNothing DEF StartFresh
<1>2. CASE StopSweeps(k)
  <2>1. releasing[k] = {}
    BY <1>2 DEF StopSweeps, ReleasingInv
  <2> QED
    BY <1>2, <1>t, <2>1, SweepOwes DEF StopSweeps
<1>3. CASE StopReleases(k)
  BY <1>3, <1>t, ReleaseOwes DEF StopReleases
<1>4. CASE \/ StartShared(k) \/ RequestStop(k) \/ StartChecks(k) \/ StopLocks(k)
           \/ StartReady(k) \/ StartTimesOut(k) \/ StartReads(k)
           \/ Joined(k) \/ JoinTimesOut(k)
  BY <1>4, ForgetsNothing
     DEF StartShared, RequestStop, StartChecks, StopLocks, StartReady,
     StartTimesOut, StartReads, Joined, JoinTimesOut
<1> QED
  BY <1>1, <1>2, <1>3, <1>4, Zenon DEF ControllerStep

-----------------------------------------------------------------------------
(* Who releases. *)

(* A sweep leads to the release of what it swept, and a release leaves
   nothing. *)
LEMMA OwnerReleases ==
    ASSUME TypeInv, ReleasingInv, NEW g \in Generations,
           OwnerStep(g) \/ OwnerStopLocks(g) \/ DisplayEvent(g)
    PROVE  ReleasingInv'
<1> USE DEF flags, wake, lifecycle, mailbox, owners, callers, controllers
<1>m. /\ releasing \in [Threads -> SUBSET Calls] /\ opc \in [Generations -> OwnerPCs]
      /\ g \in Threads /\ g \notin Controllers /\ Controllers \subseteq Threads
      /\ Generations \subseteq Threads
  BY ThreadsAssumption DEF TypeInv, TypeOK, MailboxTypes, OwnerTypes, Threads
<1>k. kpc' = kpc /\ \A h \in Generations : h # g => opc'[h] = opc[h]
  <2>1. kpc' = kpc
    BY DEF OwnerStep, DisplayEvent, Connect, TestStopping, Drain,
       StartCallback, EndCallback, Finish, EndDispatch, Woken, FailRecords,
       FailStops, FailReadies, FailSweeps, FailReleases, OwnerStopSweeps,
       OwnerStopReturns, ClearRunning, FinallyReadies, FinallySweeps,
       FinallyReleases, Disconnect, Die, OwnerStopLocks, OtherReady,
       RegistrySync, BindingsSync, EventFails
  <2> QED
    BY <2>1, OwnerMovesAlone
<1>1. CASE FailSweeps(g) \/ OwnerStopSweeps(g) \/ FinallySweeps(g)
  <2>1. /\ opc'[g] \in {"failRelease", "stopRelease", "finRelease"}
        /\ \A t \in Threads : t # g => releasing'[t] = releasing[t]
    BY <1>1, <1>m DEF FailSweeps, OwnerStopSweeps, FinallySweeps, FailPending, Goto
  <2> QED
    BY <2>1, <1>k, <1>m DEF ReleasingInv
<1>2. CASE FailReleases(g) \/ OwnerStopReturns(g) \/ FinallyReleases(g)
  <2>1. /\ releasing'[g] = {}
        /\ \A t \in Threads : t # g => releasing'[t] = releasing[t]
    BY <1>2, <1>m DEF FailReleases, OwnerStopReturns, FinallyReleases, ReleaseSwept
  <2> QED
    BY <2>1, <1>k, <1>m DEF ReleasingInv
<1>3. CASE \/ Connect(g) \/ TestStopping(g) \/ Drain(g) \/ StartCallback(g)
           \/ EndCallback(g) \/ Finish(g) \/ EndDispatch(g) \/ Woken(g)
           \/ FailRecords(g) \/ FailStops(g) \/ FailReadies(g)
           \/ ClearRunning(g) \/ FinallyReadies(g) \/ Disconnect(g)
           \/ Die(g) \/ OwnerStopLocks(g) \/ DisplayEvent(g)
  <2>1. releasing' = releasing /\ opc[g] \notin {"failRelease", "stopRelease", "finRelease"}
    BY <1>3
       DEF Connect, TestStopping, Drain, StartCallback, EndCallback, Finish,
       EndDispatch, Woken, FailRecords, FailStops, FailReadies, ClearRunning,
       FinallyReadies, Disconnect, Die, OwnerStopLocks, DisplayEvent,
       OtherReady, RegistrySync, BindingsSync, EventFails, Dispatching
  <2> QED
    BY <2>1, <1>k DEF ReleasingInv
<1> QED
  BY <1>1, <1>2, <1>3, Zenon DEF OwnerStep

(* The same for a controller. *)
LEMMA ControllerReleases ==
    ASSUME TypeInv, ReleasingInv, NEW k \in Controllers,
           \/ StartShared(k) \/ StartFresh(k) \/ RequestStop(k)
           \/ StartChecks(k) \/ StopLocks(k) \/ ControllerStep(k)
    PROVE  ReleasingInv'
<1> USE DEF flags, wake, lifecycle, mailbox, owners, callers, controllers
<1>m. /\ releasing \in [Threads -> SUBSET Calls] /\ kpc \in [Controllers -> ControllerPCs]
      /\ k \in Threads /\ k \notin Generations /\ Generations \subseteq Threads
      /\ Controllers \subseteq Threads
  BY ThreadsAssumption DEF TypeInv, TypeOK, MailboxTypes, ControllerTypes, Threads
<1>1. CASE StopSweeps(k)
  <2>1. /\ kpc'[k] = "stopRelease" /\ opc' = opc
        /\ \A t \in Threads : t # k => releasing'[t] = releasing[t]
        /\ \A j \in Controllers : j # k => kpc'[j] = kpc[j]
    BY <1>1, <1>m DEF StopSweeps, FailPending
  <2> QED
    BY <2>1, <1>m DEF ReleasingInv
<1>2. CASE StopReleases(k)
  <2>1. /\ releasing'[k] = {} /\ opc' = opc
        /\ \A t \in Threads : t # k => releasing'[t] = releasing[t]
        /\ \A j \in Controllers : j # k => kpc'[j] = kpc[j]
    BY <1>2, <1>m DEF StopReleases, ReleaseSwept
  <2> QED
    BY <2>1, <1>m DEF ReleasingInv
<1>3. CASE StartFresh(k)
  <2>1. generation + 1 \in Generations /\ opc[generation + 1] = "unborn"
    BY <1>3, MaxGenerationsAssumption
       DEF StartFresh, TypeInv, TypeOK, LifecycleTypes, Numbered, Generations
  <2>2. /\ releasing' = releasing /\ kpc[k] # "stopRelease"
        /\ \A g \in Generations : g # generation + 1 => opc'[g] = opc[g]
        /\ \A j \in Controllers : j # k => kpc'[j] = kpc[j]
    BY <1>3, <1>m DEF StartFresh, Goto, Resting, TypeInv, TypeOK, OwnerTypes
  <2> QED
    BY <2>1, <2>2 DEF ReleasingInv
<1>4. CASE \/ StartShared(k) \/ RequestStop(k) \/ StartChecks(k) \/ StopLocks(k)
           \/ StartReady(k) \/ StartTimesOut(k) \/ StartReads(k)
           \/ Joined(k) \/ JoinTimesOut(k)
  <2>1. /\ releasing' = releasing /\ opc' = opc /\ kpc[k] # "stopRelease"
        /\ \A j \in Controllers : j # k => kpc'[j] = kpc[j]
    BY <1>4, <1>m
       DEF StartShared, RequestStop, StartChecks, StopLocks, StartReady,
       StartTimesOut, StartReads, Joined, JoinTimesOut, EndStop, Rest, Resting
  <2> QED
    BY <2>1 DEF ReleasingInv
<1> QED
  BY <1>1, <1>2, <1>3, <1>4, Zenon DEF ControllerStep

-----------------------------------------------------------------------------
(* Who takes commands. *)

(* An owner stops being open only when running is cleared, and passes its last
   sweep only with an empty mailbox. *)
LEMMA OwnerStaysOpen ==
    ASSUME TypeInv, NEW g \in Generations,
           OwnerStep(g) \/ OwnerStopLocks(g) \/ DisplayEvent(g)
    PROVE  /\ generation' = generation
           /\ running' /\ (running => Open(g)) => Open(g)'
           /\ Unswept(g) => Unswept(g)' \/ Queued' = {}
<1> USE DEF flags, wake, lifecycle, mailbox, owners, callers, controllers
<1>m. OwnerTypes /\ Holding
  BY DEF TypeInv, TypeOK
<1> USE DEF Open, Unswept, Goto, OwnerTypes, Holding, Diversion
<1>1. CASE Connect(g) \/ TestStopping(g)
  BY <1>1, <1>m DEF Connect, TestStopping, Divert
<1>2. CASE Drain(g) \/ StartCallback(g) \/ Finish(g)
  BY <1>2, <1>m DEF Drain, StartCallback, Finish
<1>3. CASE EndCallback(g) \/ EndDispatch(g) \/ Woken(g)
  BY <1>3, <1>m DEF EndCallback, EndDispatch, Woken, Divert, Dispatching,
     AfterDispatch
<1>4. CASE FailRecords(g) \/ FailStops(g) \/ FailReadies(g) \/ OwnerStopLocks(g)
  BY <1>4, <1>m DEF FailRecords, FailStops, FailReadies, OwnerStopLocks
<1>5. CASE FailSweeps(g) \/ OwnerStopSweeps(g) \/ FinallySweeps(g)
  <2>1. Queued' = {}
    BY <1>5 DEF FailSweeps, OwnerStopSweeps, FinallySweeps, FailPending, Queued
  <2> QED
    BY <1>5, <2>1, <1>m DEF FailSweeps, OwnerStopSweeps, FinallySweeps
<1>6. CASE FailReleases(g) \/ OwnerStopReturns(g)
  BY <1>6, <1>m DEF FailReleases, OwnerStopReturns, Resume, ResumePCs
<1>7. CASE FinallyReleases(g) \/ ClearRunning(g) \/ FinallyReadies(g)
  BY <1>7, <1>m DEF FinallyReleases, ClearRunning, FinallyReadies
<1>8. CASE Disconnect(g) \/ Die(g)
  BY <1>8, <1>m DEF Disconnect, Die, Divert
<1>9. CASE DisplayEvent(g)
  BY <1>9, <1>m DEF DisplayEvent, OtherReady, RegistrySync, BindingsSync,
     EventFails, Divert, Dispatching, AfterDispatch
<1> QED
  BY <1>1, <1>2, <1>3, <1>4, <1>5, <1>6, <1>7, <1>8, <1>9, Zenon DEF OwnerStep

(* Every step of an owner keeps the mailbox with the thread that sweeps it. *)
LEMMA OwnerLives ==
    ASSUME TypeInv, OneOwner, LifeInv, NobodyForgotten, NEW g \in Generations,
           OwnerStep(g) \/ OwnerStopLocks(g) \/ DisplayEvent(g)
    PROVE  LifeInv'
<1>1. /\ thread' = thread /\ Alive(g) /\ thread = g
      /\ \A h \in Generations : h # g => opc'[h] = opc[h]
  BY OwnerMovesAlone DEF OneOwner
<1>2. /\ generation' = generation
      /\ running' /\ (running => Open(g)) => Open(g)'
      /\ Unswept(g) => Unswept(g)' \/ Queued' = {}
  BY OwnerStaysOpen
<1>3. \A h \in Generations : Alive(h)' => h = generation'
  BY <1>1, <1>2 DEF LifeInv, Alive
<1>4. Queued' \subseteq Queued
  BY DEF NobodyForgotten
<1>5. running' => Open(g)'
  BY <1>1, <1>2 DEF LifeInv
<1>6. Queued' # {} => Unswept(g)'
  BY <1>1, <1>2, <1>4 DEF LifeInv
<1>7. Open(g)' => Open(thread)'
  BY <1>1
<1>8. Unswept(g)' => Unswept(thread)'
  BY <1>1
<1> QED
  BY <1>1, <1>3, <1>5, <1>6, <1>7, <1>8 DEF LifeInv

(* A new generation starts, and _thread is forgotten, only when no owner lives;
   then no command is accepted or kept. *)
LEMMA ControllerLives ==
    ASSUME TypeInv, OneOwner, LifeInv, NobodyForgotten, NEW k \in Controllers,
           \/ StartShared(k) \/ StartFresh(k) \/ RequestStop(k)
           \/ StartChecks(k) \/ StopLocks(k) \/ ControllerStep(k)
    PROVE  LifeInv'
<1> USE DEF flags, wake, lifecycle, mailbox, owners, callers, controllers
<1>q. Queued' \subseteq Queued
  BY DEF NobodyForgotten
<1>d. ~ThreadAlive => ~running /\ Queued = {} /\ \A g \in Generations : ~Alive(g)
  BY MaxGenerationsAssumption
     DEF ThreadAlive, Alive, LifeInv, Open, Unswept, OneOwner, Generations
<1>1. CASE StartFresh(k)
  <2>1. /\ ~running' /\ generation' = generation + 1
        /\ \A g \in Generations : g # generation + 1 => opc'[g] = opc[g]
    BY <1>1 DEF StartFresh, Goto, TypeInv, TypeOK, OwnerTypes
  <2>2. Queued' = {} /\ \A g \in Generations : ~Alive(g)
    BY <1>1, <1>d, <1>q DEF StartFresh
  <2> QED
    BY <2>1, <2>2 DEF LifeInv, Alive
<1>2. CASE Joined(k)
  <2>1. running' = running /\ opc' = opc
    BY <1>2 DEF Joined, EndStop
  <2>2. ~running /\ Queued' = {} /\ \A g \in Generations : ~Alive(g)
    BY <1>2, <1>d, <1>q DEF Joined
  <2> QED
    BY <2>1, <2>2 DEF LifeInv, Alive
<1>3. CASE \/ StartShared(k) \/ RequestStop(k) \/ StartChecks(k) \/ StopLocks(k)
           \/ StartReady(k) \/ StartTimesOut(k) \/ StartReads(k)
           \/ StopSweeps(k) \/ StopReleases(k) \/ JoinTimesOut(k)
  <2>1. UNCHANGED <<running, generation, thread, opc, after>>
    BY <1>3
       DEF StartShared, RequestStop, StartChecks, StopLocks, StartReady,
       StartTimesOut, StartReads, StopSweeps, StopReleases, JoinTimesOut, EndStop
  <2> QED
    BY <2>1, <1>q DEF LifeInv, Alive, Open, Unswept
<1> QED
  BY <1>1, <1>2, <1>3, Zenon DEF ControllerStep

-----------------------------------------------------------------------------
(* The invariant. *)

MailboxInv == LifeInv /\ ReleasingInv /\ AcceptedInv /\ OwedInv

(* What is owed stays with the owner that accepted it. *)
LEMMA NobodyForgottenKeeps ==
    ASSUME TypeInv, AnswerInv, AcceptedInv, OwedInv, NobodyForgotten, OneOwner,
           Queued' # {} => thread' = thread
    PROVE  AcceptedInv' /\ OwedInv'
<1>1. OwedInv'
  BY DEF OwedInv, NobodyForgotten
<1>2. \A c \in Queued' : accepted'[c] = thread'
  BY DEF AcceptedInv, NobodyForgotten
<1>3. \A g \in Generations : held'[g] # NoCall => accepted'[held'[g]] = g
  BY DEF AcceptedInv, NobodyForgotten, OneOwner
<1> QED
  BY <1>1, <1>2, <1>3 DEF AcceptedInv

(* A call is accepted by the owner that lives; its other steps change none of
   what is owed. *)
LEMMA CallMailbox ==
    ASSUME TypeInv, AnswerInv, MailboxInv, NEW c \in Calls, Call(c) \/ CallStep(c)
    PROVE  MailboxInv'
<1> USE DEF flags, wake, lifecycle, mailbox, owners, callers, controllers
<1>m. MailboxTypes /\ CallerTypes /\ OwnerTypes
  BY DEF TypeInv, TypeOK
<1>0. UNCHANGED <<running, thread, generation, opc, after, held, releasing, kpc, done>>
  BY DEF CallStep, Call, Accept, WakeOwner, Cancel, Hold, Return
<1>r. ReleasingInv'
  BY <1>0 DEF MailboxInv, ReleasingInv
<1>1. CASE Accept(c) /\ Available
  <2>1. /\ Queued' = Queued \cup {c} /\ accepted' = [accepted EXCEPT ![c] = generation]
        /\ cpc' = [cpc EXCEPT ![c] = "wake"] /\ cpc[c] = "accept" /\ running
    <3>1. /\ commands' = Append(commands, c) /\ cpc[c] = "accept" /\ running
          /\ accepted' = [accepted EXCEPT ![c] = generation]
          /\ cpc' = [cpc EXCEPT ![c] = "wake"]
      BY <1>1 DEF Accept, Available
    <3>2. Queued' = Members(Append(commands, c))
      BY <3>1 DEF Members, Queued
    <3> QED
      BY <3>1, <3>2, <1>m, Appended
  <2>2. /\ thread \in Generations /\ Open(thread) /\ Unswept(thread)
        /\ thread = generation
    BY <2>1 DEF MailboxInv, LifeInv, Open, Unswept, Alive
  <2>3. LifeInv'
    BY <1>0, <2>2 DEF MailboxInv, LifeInv, Open, Unswept, Alive
  <2>4. \A d \in Queued' : accepted'[d] = thread'
    <3>1. \A d \in Queued : d \in Calls /\ accepted[d] = thread
      BY <1>m DEF MailboxInv, AcceptedInv, Queued, MailboxTypes
    <3> QED
      BY <1>0, <1>m, <2>1, <2>2, <3>1 DEF CallerTypes
  <2>5. \A g \in Generations : held'[g] # NoCall => accepted'[held'[g]] = g
    <3> SUFFICES ASSUME NEW g \in Generations, held[g] # NoCall
                 PROVE  accepted'[held[g]] = g
      BY <1>0
    <3>1. held[g] \in Calls /\ held[g] # c
      BY <1>m, <2>1 DEF OwnerTypes, AnswerInv, HeldInv, CallInv
    <3> QED
      BY <3>1, <2>1, <1>m DEF MailboxInv, AcceptedInv, CallerTypes
  <2>6. OwedInv'
    BY <1>0, <1>m, <2>1 DEF MailboxInv, OwedInv, Owed, CallerTypes
  <2> QED
    BY <1>r, <2>3, <2>4, <2>5, <2>6 DEF MailboxInv, AcceptedInv
<1>2. CASE ~(Accept(c) /\ Available)
  <2>1. UNCHANGED <<commands, accepted>>
    BY <1>2 DEF CallStep, Call, Accept, WakeOwner, Cancel, Hold, Return
  <2>2. Queued' = Queued
    BY <2>1 DEF Queued
  <2>3. \A d \in Calls : cpc'[d] \in {"wake", "wait", "hold"}
                           => cpc[d] \in {"wake", "wait", "hold"}
    BY <1>2, <1>m DEF CallStep, Call, Accept, WakeOwner, Cancel, Hold, Return,
       CallerTypes
  <2>4. LifeInv'
    BY <1>0, <2>2 DEF MailboxInv, LifeInv, Open, Unswept, Alive
  <2>5. AcceptedInv'
    BY <1>0, <2>1, <2>2 DEF MailboxInv, AcceptedInv
  <2>6. OwedInv'
    BY <1>0, <2>2, <2>3 DEF MailboxInv, OwedInv, Owed
  <2> QED
    BY <1>r, <2>4, <2>5, <2>6 DEF MailboxInv
<1> QED
  BY <1>1, <1>2

(* Every step keeps the invariant. *)
LEMMA MailboxStep ==
    TypeInv /\ AnswerInv /\ OneOwner /\ MailboxInv /\ [Next]_vars => MailboxInv'
<1> SUFFICES ASSUME TypeInv, AnswerInv, OneOwner, MailboxInv, [Next]_vars
             PROVE  MailboxInv'
  OBVIOUS
<1>1. CASE UNCHANGED vars
  BY <1>1 DEF vars, flags, wake, lifecycle, mailbox, owners, callers,
     controllers, MailboxInv, LifeInv, Open, Unswept, Alive, ReleasingInv,
     AcceptedInv, OwedInv, Owed, Queued
<1>2. ASSUME NEW g \in Generations,
             OwnerStep(g) \/ OwnerStopLocks(g) \/ DisplayEvent(g)
      PROVE  MailboxInv'
  <2>1. NobodyForgotten
    BY <1>2, OwnerForgetsNobody DEF MailboxInv
  <2>2. LifeInv'
    BY <1>2, <2>1, OwnerLives DEF MailboxInv
  <2>3. ReleasingInv'
    BY <1>2, OwnerReleases DEF MailboxInv
  <2>4. thread' = thread
    BY <1>2, OwnerMovesAlone
  <2> QED
    BY <2>1, <2>2, <2>3, <2>4, NobodyForgottenKeeps DEF MailboxInv
<1>3. ASSUME NEW k \in Controllers,
             \/ StartShared(k) \/ StartFresh(k) \/ RequestStop(k)
             \/ StartChecks(k) \/ StopLocks(k) \/ ControllerStep(k)
      PROVE  MailboxInv'
  <2>1. NobodyForgotten
    BY <1>3, ControllerForgetsNobody DEF MailboxInv
  <2>2. LifeInv'
    BY <1>3, <2>1, ControllerLives DEF MailboxInv
  <2>3. ReleasingInv'
    BY <1>3, ControllerReleases DEF MailboxInv
  <2>4. Queued' # {} => thread' = thread
    BY <1>3, <2>1, MaxGenerationsAssumption
       DEF NobodyForgotten, MailboxInv, LifeInv, Unswept, ThreadAlive, Alive,
       ControllerStep, StartShared, StartFresh, RequestStop, StartChecks,
       StopLocks, StartReady, StartTimesOut, StartReads, StopSweeps,
       StopReleases, Joined, JoinTimesOut, lifecycle, Generations
  <2> QED
    BY <2>1, <2>2, <2>3, <2>4, NobodyForgottenKeeps DEF MailboxInv
<1>4. CASE Next
  BY <1>2, <1>3, <1>4, CallMailbox, Zenon DEF Next
<1> QED
  BY <1>1, <1>4

(* In the first state nobody waits. *)
LEMMA MailboxInit == Init => MailboxInv
BY DEF Init, MailboxInv, LifeInv, Alive, ReleasingInv, AcceptedInv, OwedInv,
   Queued, Threads

(* A caller that waits is owed an answer by a thread that is still there,
   however many calls, stops, failures and restarts interleave. *)
THEOREM WaitersCorrect == Spec => []WaitersAreOwed
<1>1. TypeInv /\ MailboxInv => WaitersAreOwed
  <2>1. TypeInv => \A g \in Generations : held[g] # NoCall => Alive(g)
    BY DEF TypeInv, Holding, Alive, Diversion
  <2> QED
    BY <2>1, NoCallAssumption DEF MailboxInv, OwedInv, Owed, WaitersAreOwed
<1>2. Init => OneOwner
  BY DEF Init, OneOwner, Alive
<1> QED
  BY <1>1, <1>2, InitTyped, NextTyped, AnswerInit, AnswerStep, OneOwnerStep,
     MailboxInit, MailboxStep, PTL DEF Spec

(* What is queued or claimed was accepted by the generation that lives: no
   restart empties the mailbox over a waiting caller. *)
THEOREM GenerationCorrect == Spec => []OwnGeneration
<1>1. TypeInv /\ MailboxInv => OwnGeneration
  <2> SUFFICES ASSUME TypeInv, MailboxInv PROVE OwnGeneration
    OBVIOUS
  <2>1. commands # <<>> => thread # 0 /\ Alive(thread)
    BY NothingQueued, MaxGenerationsAssumption
       DEF TypeInv, TypeOK, MailboxInv, LifeInv, Unswept, Alive, Generations
  <2> QED
    BY <2>1 DEF OwnGeneration, MailboxInv, AcceptedInv
<1>2. Init => OneOwner
  BY DEF Init, OneOwner, Alive
<1> QED
  BY <1>1, <1>2, InitTyped, NextTyped, AnswerInit, AnswerStep, OneOwnerStep,
     MailboxInit, MailboxStep, PTL DEF Spec

-----------------------------------------------------------------------------
(* The wake-up. *)

(* From an empty mailbox to its blocking wait, also when a failure or a stop
   comes in between, the owner has a byte to wake for whatever arrives. *)
Idle(g) == opc[g] \in {"drained", "prepare", "select"} \/ after[g] = "select"
Announced(g) == Idle(g) /\ (\E c \in Queued : cpc[c] # "wake") => wakeByte
StopAnnounced(g) ==
    opc[g] \in {"prepare", "select"} /\ stopping =>
        \/ wakeByte
        \/ \E k \in Controllers : kpc[k] \in {"stopPending", "stopRelease"}
Wakeable(g) == (Alive(g) => wakeOpen) /\ Announced(g) /\ StopAnnounced(g)
WakeInv == \A g \in Generations : Wakeable(g)

(* A thread that is not there waits for nothing. *)
LEMMA Absent ==
    ASSUME TypeInv, NEW g \in Generations, ~Alive(g)
    PROVE  Wakeable(g)
BY DEF TypeInv, Holding, Diversion, Alive, Wakeable, Idle, Announced, StopAnnounced

(* Every step of the owner keeps its wake-up. *)
LEMMA OwnerWakeable ==
    ASSUME TypeInv, TypeInv', WakeInv, NobodyForgotten, NEW g \in Generations,
           OwnerStep(g) \/ OwnerStopLocks(g) \/ DisplayEvent(g)
    PROVE  Wakeable(g)'
<1> USE DEF flags, wake, lifecycle, mailbox, owners, callers, controllers
<1>m. OwnerTypes /\ Holding /\ Wakeable(g) /\ Alive(g)
  BY OwnerMovesAlone DEF TypeInv, TypeOK, WakeInv
<1>q. cpc' = cpc /\ Queued' \subseteq Queued
  BY DEF NobodyForgotten
<1> USE DEF Wakeable, Announced, StopAnnounced, Idle, Alive, Goto, OwnerTypes,
            Holding, Diversion
<1>w. ASSUME UNCHANGED <<wakeOpen, wakeByte, stopping, kpc>>,
             Idle(g)' => Idle(g),
             opc'[g] \in {"prepare", "select"} /\ opc[g] \notin {"prepare", "select"}
                => ~stopping
      PROVE  Wakeable(g)'
  BY <1>w, <1>m, <1>q
<1>1. CASE Connect(g) \/ TestStopping(g)
  <2>1. CASE Connect(g)
    BY <2>1, <1>w, <1>m DEF Connect, Divert
  <2>2. CASE TestStopping(g)
    <3>1. /\ UNCHANGED <<wakeOpen, wakeByte, stopping, kpc, after>>
          /\ \/ opc'[g] \in {"drain", "dispatch", "finally"}
             \/ opc[g] = "drained" /\ opc'[g] = "prepare" /\ ~stopping
      BY <2>2, <1>m DEF TestStopping
    <3> QED
      BY <3>1, <1>w
  <2> QED
    BY <1>1, <2>1, <2>2
<1>2. CASE Drain(g)
  <2>1. commands = <<>> => Queued = {}
    BY DEF Queued
  <2> QED
    BY <1>2, <1>m, <1>q, <2>1 DEF Drain
<1>3. CASE StartCallback(g) \/ Finish(g) \/ EndCallback(g)
  BY <1>3, <1>m, <1>q DEF StartCallback, Finish, EndCallback, Divert
<1>4. CASE EndDispatch(g) \/ Woken(g)
  <2>1. CASE EndDispatch(g)
    BY <2>1, <1>w, <1>m DEF EndDispatch, Dispatching, AfterDispatch
  <2>2. CASE Woken(g)
    BY <2>2, <1>m DEF Woken
  <2> QED
    BY <1>4, <2>1, <2>2
<1>5. CASE FailRecords(g) \/ FailStops(g) \/ FailReadies(g) \/ OwnerStopLocks(g)
  BY <1>5, <1>m, <1>q DEF FailRecords, FailStops, FailReadies, OwnerStopLocks
<1>6. CASE FailSweeps(g) \/ OwnerStopSweeps(g) \/ FinallySweeps(g)
  BY <1>6, <1>m, <1>q DEF FailSweeps, OwnerStopSweeps, FinallySweeps
<1>7. CASE FailReleases(g) \/ OwnerStopReturns(g)
  BY <1>7, <1>m, <1>q DEF FailReleases, OwnerStopReturns, Wake
<1>8. CASE FinallyReleases(g) \/ ClearRunning(g) \/ FinallyReadies(g)
  BY <1>8, <1>m, <1>q DEF FinallyReleases, ClearRunning, FinallyReadies
<1>9. CASE Disconnect(g) \/ Die(g)
  BY <1>9, <1>m, <1>q DEF Disconnect, Die, Divert
<1>10. CASE DisplayEvent(g)
  <2>1. CASE OtherReady(g) \/ RegistrySync(g)
    BY <2>1, <1>w, <1>m DEF OtherReady, RegistrySync
  <2>2. CASE BindingsSync(g)
    BY <2>2, <1>w, <1>m DEF BindingsSync, Divert, Dispatching, AfterDispatch
  <2>3. CASE EventFails(g)
    BY <2>3, <1>w, <1>m DEF EventFails, Divert, Dispatching, AfterDispatch
  <2> QED
    BY <1>10, <2>1, <2>2, <2>3 DEF DisplayEvent
<1> QED
  BY <1>1, <1>2, <1>3, <1>4, <1>5, <1>6, <1>7, <1>8, <1>9, <1>10, Zenon
     DEF OwnerStep

(* A caller writes the byte for what it has queued. *)
LEMMA CallWakeable ==
    ASSUME TypeInv, AnswerInv, WakeInv, NEW c \in Calls, Call(c) \/ CallStep(c),
           NEW g \in Generations
    PROVE  Wakeable(g)'
<1> USE DEF flags, wake, lifecycle, mailbox, owners, callers, controllers
<1>m. MailboxTypes /\ CallerTypes /\ Wakeable(g)
  BY DEF TypeInv, TypeOK, WakeInv
<1>0. UNCHANGED <<opc, after, wakeOpen, stopping, kpc>>
  BY DEF CallStep, Call, Accept, WakeOwner, Cancel, Hold, Return, Wake
<1>1. CASE WakeOwner(c)
  <2>1. Alive(g) => wakeByte'
    BY <1>1, <1>m DEF WakeOwner, Wake, Wakeable
  <2>2. ~Alive(g) => Queued' = Queued /\ ~Idle(g)'
    BY <1>0, <1>1 DEF WakeOwner, Queued, TypeInv, Holding, Diversion, Alive, Idle
  <2> QED
    BY <1>0, <2>1, <2>2, <1>m
       DEF Wakeable, Announced, StopAnnounced, Alive
<1>2. CASE Accept(c) /\ Available
  <2>1. /\ Queued' = Queued \cup {c} /\ wakeByte' = wakeByte
        /\ cpc' = [cpc EXCEPT ![c] = "wake"]
    <3>1. /\ commands' = Append(commands, c) /\ wakeByte' = wakeByte
          /\ cpc' = [cpc EXCEPT ![c] = "wake"]
      BY <1>2 DEF Accept
    <3>2. Queued' = Members(Append(commands, c))
      BY <3>1 DEF Members, Queued
    <3> QED
      BY <3>1, <3>2, <1>m, Appended
  <2> QED
    BY <1>0, <1>m, <2>1
       DEF Wakeable, Announced, StopAnnounced, Idle, Alive, CallerTypes
<1>3. CASE ~WakeOwner(c) /\ ~(Accept(c) /\ Available)
  <2>1. UNCHANGED <<commands, wakeByte>>
    BY <1>3 DEF CallStep, Call, Accept, Cancel, Hold, Return
  <2>2. Queued' = Queued
    BY <2>1 DEF Queued
  <2>3. \A d \in Calls : cpc[d] = "wake" => cpc'[d] = "wake"
    BY <1>3, <1>m DEF CallStep, Call, Accept, Cancel, Hold, Return, CallerTypes
  <2>4. Queued \subseteq Calls
    BY <1>m DEF Queued, MailboxTypes
  <2> QED
    BY <1>0, <1>m, <2>1, <2>2, <2>3, <2>4
       DEF Wakeable, Announced, StopAnnounced, Idle, Alive
<1> QED
  BY <1>1, <1>2, <1>3

(* A controller that asks an owner to stop writes the byte before it joins, and
   closes the wake sockets only when none lives. *)
LEMMA ControllerWakeable ==
    ASSUME TypeInv, TypeInv', OneOwner, WakeInv, NobodyForgotten,
           NEW k \in Controllers,
           \/ StartShared(k) \/ StartFresh(k) \/ RequestStop(k)
           \/ StartChecks(k) \/ StopLocks(k) \/ ControllerStep(k),
           NEW g \in Generations
    PROVE  Wakeable(g)'
<1> USE DEF flags, wake, lifecycle, mailbox, owners, callers, controllers
<1>m. ControllerTypes /\ OwnerTypes /\ Wakeable(g)
  BY DEF TypeInv, TypeOK, WakeInv
<1>q. cpc' = cpc /\ Queued' \subseteq Queued
  BY DEF NobodyForgotten
<1>1. CASE StartFresh(k)
  <2>1. ~Alive(g)
    BY <1>1, MaxGenerationsAssumption
       DEF StartFresh, ThreadAlive, OneOwner, Generations
  <2>2. \/ ~Alive(g)'
        \/ opc'[g] = "connecting" /\ after' = after /\ wakeOpen'
    BY <1>1, <1>m, <2>1 DEF StartFresh, Goto, OwnerTypes, Alive
  <2>3. after[g] # "select"
    BY <2>1 DEF TypeInv, Holding, Diversion, Alive
  <2>4. CASE ~Alive(g)'
    <3>1. opc'[g] \in {"unborn", "dead"} /\ after'[g] = "loop"
      BY <2>4 DEF TypeInv, Holding, Diversion, Alive
    <3> QED
      BY <2>4, <3>1 DEF Wakeable, Announced, StopAnnounced, Idle
  <2> QED
    BY <2>2, <2>3, <2>4 DEF Wakeable, Announced, StopAnnounced, Idle
<1>2. CASE Joined(k)
  <2>1. ~Alive(g) /\ opc' = opc /\ after' = after
    BY <1>2, MaxGenerationsAssumption DEF Joined, ThreadAlive, OneOwner, Generations
  <2> QED
    BY <2>1 DEF TypeInv, Holding, Diversion, Alive, Wakeable, Idle, Announced,
       StopAnnounced
<1>3. CASE StopLocks(k)
  <2>1. UNCHANGED <<opc, after>>
    BY <1>3 DEF StopLocks
  <2>2. CASE ~Alive(g)
    BY <2>1, <2>2 DEF TypeInv, Holding, Diversion, Alive, Wakeable, Idle,
       Announced, StopAnnounced
  <2>3. CASE Alive(g)
    <3>1. thread = g /\ thread # 0
      BY <2>3, MaxGenerationsAssumption DEF OneOwner, Generations
    <3>2. UNCHANGED <<wakeOpen, wakeByte>>
      BY <1>3, <3>1 DEF StopLocks
    <3>3. \/ stopping' = stopping /\ kpc[k] = "stopLock"
             /\ kpc' = [kpc EXCEPT ![k] = "idle"]
          \/ kpc' = [kpc EXCEPT ![k] = "stopPending"]
      BY <1>3, <3>1 DEF StopLocks, Rest
    <3> QED
      BY <1>m, <1>q, <2>1, <3>2, <3>3 DEF Wakeable, Announced, StopAnnounced,
         Idle, Alive, ControllerTypes
  <2> QED
    BY <2>2, <2>3
<1>4. CASE StopReleases(k)
  <2>1. UNCHANGED <<opc, after, wakeOpen, stopping>> /\ wakeByte' = (wakeByte \/ wakeOpen)
    BY <1>4 DEF StopReleases, Wake
  <2>2. CASE Alive(g)
    BY <2>1, <2>2, <1>m DEF Wakeable, Announced, StopAnnounced, Alive
  <2>3. CASE ~Alive(g)
    BY <2>1, <2>3 DEF TypeInv, Holding, Diversion, Alive, Wakeable, Idle,
       Announced, StopAnnounced
  <2> QED
    BY <2>2, <2>3
<1>5. CASE StopSweeps(k)
  <2>1. UNCHANGED <<opc, after, wakeOpen, wakeByte, stopping>>
        /\ kpc' = [kpc EXCEPT ![k] = "stopRelease"]
    BY <1>5 DEF StopSweeps
  <2> QED
    BY <1>m, <1>q, <2>1 DEF Wakeable, Announced, StopAnnounced, Idle, Alive,
       ControllerTypes
<1>6. CASE \/ StartShared(k) \/ RequestStop(k) \/ StartChecks(k)
           \/ StartReady(k) \/ StartTimesOut(k) \/ StartReads(k) \/ JoinTimesOut(k)
  <2>1. /\ UNCHANGED <<opc, after, wakeOpen, wakeByte, stopping>>
        /\ \A j \in Controllers : kpc[j] \in {"stopPending", "stopRelease"}
                                    => kpc'[j] = kpc[j]
    BY <1>6, <1>m
       DEF StartShared, RequestStop, StartChecks, StartReady, StartTimesOut,
       StartReads, JoinTimesOut, Rest, Resting, ControllerTypes
  <2> QED
    BY <1>m, <1>q, <2>1 DEF Wakeable, Announced, StopAnnounced, Idle, Alive
<1> QED
  BY <1>1, <1>2, <1>3, <1>4, <1>5, <1>6, Zenon DEF ControllerStep

(* Every step keeps the wake-up. *)
LEMMA WakeStep ==
    TypeInv /\ TypeInv' /\ AnswerInv /\ OneOwner /\ MailboxInv /\ WakeInv /\ [Next]_vars
      => WakeInv'
<1> SUFFICES ASSUME TypeInv, TypeInv', AnswerInv, OneOwner, MailboxInv, WakeInv,
                    [Next]_vars, NEW g \in Generations
             PROVE  Wakeable(g)'
  BY DEF WakeInv
<1>1. CASE UNCHANGED vars
  BY <1>1 DEF vars, flags, wake, mailbox, owners, callers, controllers, WakeInv,
     Wakeable, Announced, StopAnnounced, Idle, Alive, Queued
<1>2. ASSUME NEW h \in Generations,
             OwnerStep(h) \/ OwnerStopLocks(h) \/ DisplayEvent(h)
      PROVE  Wakeable(g)'
  <2>1. NobodyForgotten
    BY <1>2, OwnerForgetsNobody DEF MailboxInv
  <2>2. CASE g = h
    BY <1>2, <2>1, <2>2, OwnerWakeable
  <2>3. CASE g # h
    <3>1. ~Alive(g) /\ opc'[g] = opc[g]
      BY <1>2, <2>3, OwnerMovesAlone DEF OneOwner
    <3>2. opc'[g] \in {"unborn", "dead"} /\ after'[g] = "loop"
      BY <3>1 DEF TypeInv, Holding, Diversion, Alive
    <3> QED
      BY <3>2 DEF Wakeable, Announced, StopAnnounced, Idle, Alive
  <2> QED
    BY <2>2, <2>3
<1>3. ASSUME NEW k \in Controllers,
             \/ StartShared(k) \/ StartFresh(k) \/ RequestStop(k)
             \/ StartChecks(k) \/ StopLocks(k) \/ ControllerStep(k)
      PROVE  Wakeable(g)'
  <2>1. NobodyForgotten
    BY <1>3, ControllerForgetsNobody DEF MailboxInv
  <2> QED
    BY <1>3, <2>1, ControllerWakeable
<1>4. CASE Next
  BY <1>2, <1>3, <1>4, CallWakeable, Zenon DEF Next
<1> QED
  BY <1>1, <1>4

(* The owner never sleeps on work: a command or a stop that has been announced
   left a byte on the wake socket. *)
THEOREM WakeupCorrect == Spec => []NoLostWakeup
<1>1. WakeInv => NoLostWakeup
  BY DEF WakeInv, Wakeable, Announced, StopAnnounced, Idle, NoLostWakeup
<1>2. Init => OneOwner /\ WakeInv
  BY DEF Init, OneOwner, Alive, WakeInv, Wakeable, Announced, StopAnnounced, Idle
<1> QED
  BY <1>1, <1>2, InitTyped, NextTyped, AnswerInit, AnswerStep, OneOwnerStep,
     MailboxInit, MailboxStep, WakeStep, PTL DEF Spec

-----------------------------------------------------------------------------
(* Readiness. *)

(* A generation's _ready is set by its bindings, or by a failure that has
   begun to stop it, or after running was cleared. *)
ReadyInv ==
    /\ \A g \in Generations : /\ opc[g] \in {"unborn", "connecting"} => g \notin ready
                              /\ opc[g] = "failReady" => stopping
    /\ generation \in ready => initialized \/ stopping \/ ~running
    /\ \A k \in Controllers :
           kpc[k] \in {"startRead", "startCheck"} => expected[k] \in ready

(* Every step of the owner keeps that. *)
LEMMA OwnerReadies ==
    ASSUME TypeInv, OneOwner, LifeInv, ReadyInv, NEW g \in Generations,
           OwnerStep(g) \/ OwnerStopLocks(g) \/ DisplayEvent(g)
    PROVE  ReadyInv'
<1> USE DEF flags, wake, lifecycle, mailbox, owners, callers, controllers
<1>m. OwnerTypes /\ Holding
  BY DEF TypeInv, TypeOK
<1>g. /\ Alive(g) /\ thread = g /\ generation = g /\ generation' = g
      /\ \A h \in Generations : h # g => opc'[h] = opc[h]
  BY OwnerMovesAlone, OwnerStaysOpen DEF OneOwner, LifeInv
<1>r. running => Open(g)
  BY <1>g DEF LifeInv
<1>0. ASSUME UNCHANGED <<kpc, expected>>, ready \subseteq ready',
             ready' \subseteq ready \cup {g}, stopping => stopping',
             opc'[g] # "unborn", opc'[g] = "connecting" => g \notin ready',
             opc'[g] = "failReady" => stopping',
             g \in ready' => initialized' \/ stopping' \/ ~running'
      PROVE  ReadyInv'
  <2>1. \A h \in Generations : /\ opc'[h] \in {"unborn", "connecting"} => h \notin ready'
                               /\ opc'[h] = "failReady" => stopping'
    BY <1>0, <1>g DEF ReadyInv
  <2> QED
    BY <1>0, <1>g, <2>1 DEF ReadyInv
<1> USE DEF Goto, OwnerTypes
<1>1. CASE Connect(g)
  <2>1. g \notin ready
    BY <1>1 DEF Connect, ReadyInv
  <2> QED
    BY <1>0, <1>1, <1>m, <2>1 DEF Connect, Divert
<1>2. CASE FailReadies(g)
  <2>1. stopping
    BY <1>2 DEF FailReadies, ReadyInv
  <2> QED
    BY <1>0, <1>2, <1>g, <1>m, <2>1 DEF FailReadies
<1>3. CASE FinallyReadies(g)
  <2>1. ~running
    BY <1>3, <1>r DEF FinallyReadies, Open
  <2> QED
    BY <1>0, <1>3, <1>g, <1>m, <2>1 DEF FinallyReadies
<1>4. CASE Disconnect(g)
  <2>1. ~running
    BY <1>4, <1>r DEF Disconnect, Open
  <2> QED
    BY <1>0, <1>4, <1>m, <2>1 DEF Disconnect, Divert
<1>5. CASE BindingsSync(g)
  <2>1. opc'[g] \in {"prepare", "dispatch", "failError"}
    BY <1>5, <1>m DEF BindingsSync, Divert, Dispatching
  <2> QED
    BY <1>0, <1>5, <1>g, <1>m, <2>1 DEF BindingsSync
<1>6. CASE ClearRunning(g) \/ FailStops(g) \/ OwnerStopLocks(g)
  BY <1>0, <1>6, <1>m DEF ClearRunning, FailStops, OwnerStopLocks
<1>7. CASE \/ TestStopping(g) \/ Drain(g) \/ StartCallback(g) \/ EndCallback(g)
           \/ Finish(g) \/ EndDispatch(g) \/ Woken(g) \/ FailRecords(g)
           \/ FailSweeps(g) \/ FailReleases(g) \/ OwnerStopSweeps(g)
           \/ OwnerStopReturns(g) \/ FinallySweeps(g) \/ FinallyReleases(g)
           \/ Die(g) \/ OtherReady(g) \/ RegistrySync(g) \/ EventFails(g)
  <2>1. UNCHANGED <<kpc, expected, ready, stopping, initialized, running>>
    BY <1>7 DEF TestStopping, Drain, StartCallback, EndCallback, Finish,
       EndDispatch, Woken, FailRecords, FailSweeps, FailReleases,
       OwnerStopSweeps, OwnerStopReturns, FinallySweeps, FinallyReleases, Die,
       OtherReady, RegistrySync, EventFails
  <2>2. opc'[g] \notin {"unborn", "connecting", "failReady"}
    <3>1. CASE \/ TestStopping(g) \/ Drain(g) \/ StartCallback(g)
               \/ EndCallback(g) \/ Finish(g) \/ EndDispatch(g) \/ Woken(g)
               \/ FailRecords(g) \/ FailSweeps(g) \/ OwnerStopSweeps(g)
               \/ FinallySweeps(g) \/ FinallyReleases(g) \/ Die(g)
      BY <3>1, <1>m
         DEF TestStopping, Drain, StartCallback, EndCallback, Finish,
         EndDispatch, Woken, FailRecords, FailSweeps, OwnerStopSweeps,
         FinallySweeps, FinallyReleases, Die, Divert, AfterDispatch
    <3>2. CASE FailReleases(g) \/ OwnerStopReturns(g)
      BY <3>2, <1>m DEF FailReleases, OwnerStopReturns, Resume, ResumePCs
    <3>3. CASE OtherReady(g) \/ RegistrySync(g) \/ EventFails(g)
      BY <3>3, <1>m DEF OtherReady, RegistrySync, EventFails, Divert, Dispatching
    <3> QED
      BY <1>7, <3>1, <3>2, <3>3
  <2>3. g \in ready => initialized \/ stopping \/ ~running
    BY <1>g DEF ReadyInv
  <2> QED
    BY <1>0, <2>1, <2>2, <2>3
<1> QED
  BY <1>1, <1>2, <1>3, <1>4, <1>5, <1>6, <1>7, Zenon DEF OwnerStep, DisplayEvent

(* A controller starts a generation whose _ready is not set, and goes on with
   its start() only when it is. *)
LEMMA ControllerReadies ==
    ASSUME TypeInv, OneOwner, LifeInv, ReadyInv, NEW k \in Controllers,
           \/ StartShared(k) \/ StartFresh(k) \/ RequestStop(k)
           \/ StartChecks(k) \/ StopLocks(k) \/ ControllerStep(k)
    PROVE  ReadyInv'
<1> USE DEF flags, wake, lifecycle, mailbox, owners, callers, controllers
<1>m. ControllerTypes /\ OwnerTypes
  BY DEF TypeInv, TypeOK
<1>1. CASE StartFresh(k)
  <2>1. generation + 1 \in Generations /\ opc[generation + 1] = "unborn"
    BY <1>1, MaxGenerationsAssumption
       DEF StartFresh, TypeInv, TypeOK, LifecycleTypes, Numbered, Generations
  <2>2. /\ ready' = ready /\ ~running' /\ generation + 1 \notin ready
        /\ \A g \in Generations : g # generation + 1 => opc'[g] = opc[g]
        /\ opc'[generation + 1] \in {"connecting", "dead"}
    BY <1>1, <2>1, <1>m DEF StartFresh, Goto, OwnerTypes, ReadyInv
  <2>3. \A g \in Generations : ~Alive(g)
    BY <1>1, MaxGenerationsAssumption
       DEF StartFresh, ThreadAlive, OneOwner, Generations
  <2>4. \A j \in Controllers : kpc'[j] \in {"startRead", "startCheck"}
                                 => kpc'[j] = kpc[j] /\ expected'[j] = expected[j]
    BY <1>1, <1>m DEF StartFresh, ControllerTypes
  <2>5. \A g \in Generations : /\ opc'[g] \in {"unborn", "connecting"} => g \notin ready'
                               /\ opc'[g] # "failReady"
    BY <2>1, <2>2, <2>3 DEF Alive, ReadyInv
  <2> QED
    BY <2>2, <2>4, <2>5 DEF ReadyInv
<1>2. CASE \/ StartShared(k) \/ RequestStop(k) \/ StartChecks(k)
           \/ StopLocks(k) \/ ControllerStep(k)
  <2>1. /\ UNCHANGED <<opc, ready, running, initialized, generation>>
        /\ stopping => stopping'
    BY <1>2 DEF StartShared, RequestStop, StartChecks, StopLocks, ControllerStep,
       StartReady, StartTimesOut, StartReads, StopSweeps, StopReleases, Joined,
       JoinTimesOut, EndStop
  <2>2. \A j \in Controllers : kpc'[j] \in {"startRead", "startCheck"}
                                 => expected'[j] \in ready
    <3>1. CASE StartReady(k) \/ StartReads(k)
      BY <3>1, <1>m DEF StartReady, StartReads, ReadyInv, ControllerTypes
    <3>2. CASE \/ StartShared(k) \/ RequestStop(k) \/ StartTimesOut(k)
               \/ StopSweeps(k) \/ StopReleases(k)
      BY <3>2, <1>m DEF StartShared, RequestStop, StartTimesOut, StopSweeps,
         StopReleases, ReadyInv, ControllerTypes
    <3>3. CASE StartChecks(k) \/ StopLocks(k) \/ Joined(k) \/ JoinTimesOut(k)
      BY <3>3, <1>m DEF StartChecks, StopLocks, Joined, JoinTimesOut, EndStop,
         Rest, ReadyInv, ControllerTypes
    <3> QED
      BY <1>2, <3>1, <3>2, <3>3 DEF ControllerStep
  <2> QED
    BY <2>1, <2>2 DEF ReadyInv
<1> QED
  BY <1>1, <1>2

(* Every step keeps the readiness. *)
LEMMA ReadyStep ==
    TypeInv /\ OneOwner /\ LifeInv /\ ReadyInv /\ [Next]_vars => ReadyInv'
<1> SUFFICES ASSUME TypeInv, OneOwner, LifeInv, ReadyInv, [Next]_vars
             PROVE  ReadyInv'
  OBVIOUS
<1> USE DEF flags, wake, lifecycle, mailbox, owners, callers, controllers
<1>1. CASE UNCHANGED vars
  BY <1>1 DEF vars, ReadyInv
<1>2. ASSUME NEW c \in Calls, Call(c) \/ CallStep(c)
      PROVE  ReadyInv'
  <2>1. UNCHANGED <<opc, ready, stopping, running, initialized, generation, kpc,
                    expected>>
    BY <1>2 DEF CallStep, Call, Accept, WakeOwner, Cancel, Hold, Return
  <2> QED
    BY <2>1 DEF ReadyInv
<1>3. CASE Next
  BY <1>2, <1>3, OwnerReadies, ControllerReadies, Zenon DEF Next
<1> QED
  BY <1>1, <1>3

(* A start() that returns normally has found this generation's globals bound
   and its adapters ready, whatever stopped or failed meanwhile. *)
THEOREM StartCorrect == Spec => StartedMeansReady
<1>1. TypeInv /\ LifeInv /\ ReadyInv /\ [Next]_vars =>
        [\A k \in Controllers :
            kpc[k] = "startCheck" /\ kpc'[k] = "started"
              => initialized /\ expected[k] = generation]_vars
  <2> SUFFICES ASSUME TypeInv, LifeInv, ReadyInv, Next, NEW k \in Controllers,
                      kpc[k] = "startCheck", kpc'[k] = "started"
               PROVE  initialized /\ expected[k] = generation
    OBVIOUS
  <2>m. ControllerTypes
    BY DEF TypeInv, TypeOK
  <2>1. ASSUME NEW j \in Controllers,
               \/ StartShared(j) \/ StartFresh(j) \/ RequestStop(j)
               \/ StopLocks(j) \/ ControllerStep(j)
        PROVE  kpc'[k] # "started"
    <3>1. kpc' = kpc \/ \E pc : kpc' = [kpc EXCEPT ![j] = pc] /\ pc # "started"
      BY <2>1 DEF StartShared, StartFresh, RequestStop, StopLocks,
         ControllerStep, StartReady, StartTimesOut, StartReads, StopSweeps,
         StopReleases, Joined, JoinTimesOut, EndStop, Rest
    <3> QED
      BY <3>1, <2>m DEF ControllerTypes
  <2>2. PICK j \in Controllers : StartChecks(j)
    <3>1. \A c \in Calls : Call(c) \/ CallStep(c) => kpc' = kpc
      BY DEF CallStep, Call, Accept, WakeOwner, Cancel, Hold, Return, controllers
    <3>2. \A g \in Generations :
              OwnerStep(g) \/ OwnerStopLocks(g) \/ DisplayEvent(g) => kpc' = kpc
      BY DEF OwnerStep, DisplayEvent, Connect, TestStopping, Drain,
         StartCallback, EndCallback, Finish, EndDispatch, Woken, FailRecords,
         FailStops, FailReadies, FailSweeps, FailReleases, OwnerStopSweeps,
         OwnerStopReturns, ClearRunning, FinallyReadies, FinallySweeps,
         FinallyReleases, Disconnect, Die, OwnerStopLocks, OtherReady,
         RegistrySync, BindingsSync, EventFails, controllers
    <3>3. kpc' # kpc
      OBVIOUS
    <3>4. \E j \in Controllers :
             \/ StartShared(j) \/ StartFresh(j) \/ RequestStop(j)
             \/ StartChecks(j) \/ StopLocks(j) \/ ControllerStep(j)
      BY <3>1, <3>2, <3>3, Zenon DEF Next
    <3> QED
      BY <2>1, <3>4, Zenon
  <2>3. j = k
    BY <2>2, <2>m DEF StartChecks, Rest, ControllerTypes
  <2>4. thread = expected[k] /\ ThreadAlive /\ running /\ ~stopping
    BY <2>2, <2>3, <2>m DEF StartChecks, Rest, Available, ControllerTypes
  <2>5. thread = generation
    BY <2>4 DEF LifeInv, ThreadAlive
  <2> QED
    BY <2>4, <2>5 DEF ReadyInv
<1>2. Init => OneOwner /\ ReadyInv
  BY DEF Init, OneOwner, Alive, ReadyInv
<1>3. MailboxInv => LifeInv
  BY DEF MailboxInv
<1> QED
  BY <1>1, <1>2, <1>3, InitTyped, NextTyped, AnswerInit, AnswerStep,
     OneOwnerStep, MailboxInit, MailboxStep, ReadyStep, PTL
     DEF Spec, StartedMeansReady
=============================================================================
