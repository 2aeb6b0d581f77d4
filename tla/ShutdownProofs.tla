---------------------------- MODULE ShutdownProofs ----------------------------
(***************************************************************************)
(* What InstanceShutdown says of Start and Close, for any number of runs   *)
(* and execute requests, and that closing an instance keeps every promise  *)
(* that was shown of its executions and of the log.                        *)
(***************************************************************************)
EXTENDS InstanceShutdown, WorkflowLogProofs

-----------------------------------------------------------------------------
(* The inductive invariant *)

\* Work begins with a request that the control server accepted.
WorkIsAccepted == \A h \in Handlers : h \notin accepted => pc[h] = "idle"

\* What each stage of Start and Close says of the ports, the directory and the requests.
StageInv ==
    /\ closePc \in StartStages => accepted = {}
    /\ controlServing => closePc \in {"open", "closing", "interrupting", "public"}
    /\ publicServing => closePc \in {"listening", "open", "closing", "interrupting"}
    /\ closePc \in {"prepared", "located", "listening", "open", "closing", "interrupting",
                    "public", "control", "killing"} => dataDir
    /\ closePc \in {"start", "failed", "closed"} => ~dataDir
    /\ closePc = "closed" => Drained

ShutdownInv ==
    /\ IInv
    /\ ShutdownTypeOK
    /\ WorkIsAccepted
    /\ StageInv

-----------------------------------------------------------------------------
(* The signals of Close *)

LEMMA InterruptKeepsInv ==
    ASSUME IInv, NEW h \in Handlers, InterruptRunner(h)
    PROVE  IInv'
<1>1. \/ proc' = proc
      \/ /\ proc[h].state \in {"running", "zombie"}
         /\ proc' = [proc EXCEPT ![h] = [proc[h] EXCEPT !.interrupted = TRUE]]
  BY DEF InterruptRunner, SignalAccepted
<1>2. UNCHANGED <<workflowRuns, activeRuns, pendingEvents, pc, target>>
  BY DEF InterruptRunner
<1>3. CASE proc' = proc
  BY <1>2, <1>3, NextIInv DEF vars
<1>4. CASE /\ proc[h].state \in {"running", "zombie"}
           /\ proc' = [proc EXCEPT ![h] = [proc[h] EXCEPT !.interrupted = TRUE]]
  <2>1. TypeOK /\ proc[h] \in Process
    BY DEF IInv, TypeInv, TypeOK
  <2>2. /\ proc'[h].state = proc[h].state /\ proc'[h].exit = proc[h].exit /\ proc'[h].interrupted
        /\ \A g \in Handlers : g # h => proc'[g] = proc[g]
        /\ proc' \in [Handlers -> Process]
    BY <1>4, <2>1 DEF TypeOK, Process
  <2>3. TypeInv'
    BY <1>2, <2>2 DEF IInv, TypeInv, TypeOK, Targeted
  <2>4. ClaimHeldByOne' /\ ClaimFreezesStatus' /\ ClaimInv'
    BY <1>2 DEF IInv, ClaimHeldByOne, ClaimFreezesStatus, ClaimInv, Holds
  <2>5. HandlerInv'
    BY <1>2, <2>2 DEF IInv, HandlerInv
  <2>6. SignalInv' /\ CancellationReachesRunner'
    BY <1>2, <2>2 DEF IInv, SignalInv, CancellationReachesRunner
  <2>7. StartedOnce'
    BY <1>2, <2>2 DEF IInv, StartedOnce
  <2>8. ConclusionExplained'
    BY <1>2, <1>4, <2>2 DEF IInv, ConclusionExplained
  <2>9. QED
    BY <2>3, <2>4, <2>5, <2>6, <2>7, <2>8 DEF IInv
<1>5. QED
  BY <1>1, <1>3, <1>4

LEMMA KillKeepsInv ==
    ASSUME IInv, NEW h \in Handlers, KillRunner(h)
    PROVE  IInv'
<1>1. UNCHANGED <<workflowRuns, activeRuns, pendingEvents, pc, target>>
  BY DEF KillRunner
<1>2. CASE proc[h].state # "running"
  BY <1>1, <1>2, NextIInv DEF vars, KillRunner
<1>3. CASE proc[h].state = "running"
  <2>1. proc' = [proc EXCEPT ![h] = [state |-> "zombie", exit |-> "nonzero",
                                     interrupted |-> TRUE]]
    BY <1>3 DEF KillRunner
  <2>2. /\ proc'[h].state = "zombie" /\ proc'[h].exit = "nonzero" /\ proc'[h].interrupted
        /\ \A g \in Handlers : g # h => proc'[g] = proc[g]
        /\ proc' \in [Handlers -> Process]
    BY <2>1 DEF IInv, TypeInv, TypeOK, Process
  <2>3. TypeInv'
    BY <1>1, <2>2 DEF IInv, TypeInv, TypeOK, Targeted
  <2>4. ClaimHeldByOne' /\ ClaimFreezesStatus' /\ ClaimInv'
    BY <1>1 DEF IInv, ClaimHeldByOne, ClaimFreezesStatus, ClaimInv, Holds
  <2>5. HandlerInv'
    BY <1>1, <1>3, <2>2 DEF IInv, TypeInv, TypeOK, Stages, HandlerInv
  <2>6. SignalInv' /\ CancellationReachesRunner'
    BY <1>1, <2>2 DEF IInv, SignalInv, CancellationReachesRunner
  <2>7. StartedOnce'
    BY <1>1, <1>3, <2>2 DEF IInv, StartedOnce
  <2>8. ConclusionExplained'
    BY <1>1, <1>3, <2>2 DEF IInv, ConclusionExplained
  <2>9. QED
    BY <2>3, <2>4, <2>5, <2>6, <2>7, <2>8 DEF IInv
<1>4. QED
  BY <1>2, <1>3

-----------------------------------------------------------------------------
(* Steps *)

LEMMA ShutdownInitInv == ShutdownInit => ShutdownInv
<1> SUFFICES ASSUME ShutdownInit PROVE ShutdownInv
  OBVIOUS
<1>1. IInv
  BY InitIInv DEF ShutdownInit
<1>2. ShutdownTypeOK
  BY <1>1 DEF ShutdownInit, ShutdownTypeOK, IInv, TypeInv, StartStages
<1>3. WorkIsAccepted
  BY DEF ShutdownInit, Init, WorkIsAccepted
<1>4. StageInv
  BY DEF ShutdownInit, StageInv, StartStages, CloseStages
<1>5. QED
  BY <1>1, <1>2, <1>3, <1>4 DEF ShutdownInv

\* To the executions, a step of the instance is one of their own, a signal or nothing.
LEMMA StepKinds ==
    ASSUME [ShutdownNext]_shutdownVars
    PROVE  [Next]_vars \/ \E h \in Handlers : InterruptRunner(h) \/ KillRunner(h)
<1>1. ASSUME NEW h \in Handlers, AcceptRequest(h) \/ ServeExecute(h) \/ RunnerExits(h)
      PROVE  [Next]_vars
  BY <1>1 DEF AcceptRequest, ServeExecute, RunnerExits, Next, RunStep
<1>2. ASSUME NEW r \in Runs, ServeControl(r) \/ ServePublic(r) PROVE [Next]_vars
  BY <1>2 DEF ServeControl, ServePublic, Next, RunStep
<1>3. ASSUME \/ StartStep \/ CallClose \/ BeginClose \/ EndContext \/ UNCHANGED shutdownVars
             \/ getState \/ QueueWriter \/ AnswerState
             \/ ShutdownPublic \/ ShutdownControl \/ ReturnDrained \/ BeginKilling
             \/ ReturnAbandoned
      PROVE  [Next]_vars
  BY <1>3 DEF StartStep, PrepareDirectory, LocateGit, ListenPublic, ListenControl, FailStartup,
       CallClose, BeginClose, EndContext, getState, QueueWriter, AnswerState, ShutdownPublic,
       ShutdownControl, ReturnDrained, BeginKilling, ReturnAbandoned, shutdownVars
<1>4. QED
  BY <1>1, <1>2, <1>3 DEF ShutdownNext, CloseStep

LEMMA ExecutionsStep ==
    ASSUME IInv, [ShutdownNext]_shutdownVars
    PROVE  IInv'
BY StepKinds, NextIInv, InterruptKeepsInv, KillKeepsInv

\* A signal changes nothing that clients see.
LEMMA SignalsAreSilent ==
    ASSUME IInv, NEW h \in Handlers, InterruptRunner(h) \/ KillRunner(h)
    PROVE  UNCHANGED <<workflowRuns, pendingEvents>> /\ Executed' = Executed
<1>1. UNCHANGED <<workflowRuns, pendingEvents, target>>
  BY DEF InterruptRunner, KillRunner
<1>2. \A g \in Handlers : proc'[g].state = "none" <=> proc[g].state = "none"
  <2>1. CASE InterruptRunner(h)
    <3>1. proc' = proc \/ proc' = [proc EXCEPT ![h] = [proc[h] EXCEPT !.interrupted = TRUE]]
      BY <2>1 DEF InterruptRunner
    <3>2. QED
      BY <3>1 DEF IInv, TypeInv, TypeOK, Process
  <2>2. CASE KillRunner(h)
    BY <2>2 DEF KillRunner, IInv, TypeInv, TypeOK
  <2>3. QED
    BY <2>1, <2>2
<1>3. QED
  BY <1>1, <1>2, ExecutedFrame

\* Where the pieces of the instance change, and where they do not.
LEMMA InstanceStep ==
    ASSUME ShutdownInv, [ShutdownNext]_shutdownVars
    PROVE  ShutdownInv'
<1> USE DEF StartStages, CloseStages
<1>1. IInv'
  BY ExecutionsStep DEF ShutdownInv
<1>2. TypeOK'
  BY <1>1 DEF IInv, TypeInv
<1> DEFINE Rest == ShutdownTypeOK' /\ WorkIsAccepted' /\ StageInv'
<1>3. SUFFICES Rest
  BY <1>1 DEF ShutdownInv
<1> USE DEF Rest
<1>4. CASE UNCHANGED shutdownVars
  BY <1>2, <1>4 DEF ShutdownInv, ShutdownTypeOK, WorkIsAccepted, StageInv, Drained, MayWrite,
       Ended, shutdownVars, closeVars, vars
<1>5. CASE StartStep
  <2>1. UNCHANGED <<vars, accepted, doomed, contextEnded, stateRequest>> /\ closePc \in StartStages
    BY <1>5 DEF StartStep, PrepareDirectory, LocateGit, ListenPublic, ListenControl, FailStartup
  <2>2. WorkIsAccepted'
    BY <2>1 DEF ShutdownInv, WorkIsAccepted, vars
  <2> USE DEF ShutdownInv, ShutdownTypeOK, StageInv
  <2>3. CASE PrepareDirectory
    BY <1>2, <2>1, <2>2, <2>3 DEF PrepareDirectory
  <2>4. CASE LocateGit
    BY <1>2, <2>1, <2>2, <2>4 DEF LocateGit
  <2>5. CASE ListenPublic
    BY <1>2, <2>1, <2>2, <2>5 DEF ListenPublic
  <2>6. CASE ListenControl
    BY <1>2, <2>1, <2>2, <2>6 DEF ListenControl
  <2>7. CASE FailStartup
    BY <1>2, <2>1, <2>2, <2>7 DEF FailStartup
  <2>8. QED
    BY <1>5, <2>3, <2>4, <2>5, <2>6, <2>7 DEF StartStep
<1>6. ASSUME NEW h \in Handlers, AcceptRequest(h) PROVE Rest
  BY <1>2, <1>6 DEF AcceptRequest, ShutdownInv, ShutdownTypeOK, WorkIsAccepted, StageInv, vars
<1>7. ASSUME NEW h \in Handlers, ServeExecute(h) PROVE Rest
  <2>1. h \in accepted /\ ~Ended(h) /\ \A g \in Handlers : g # h => pc'[g] = pc[g]
    <3>1. CASE pc[h] = "idle"
      BY <1>7, <3>1 DEF ServeExecute, HandlerStep, ClaimRun, RefuseClaim, Goto, Ended,
           FinishSetup, FailSetup, ReleaseClaim, LeaveUnstarted, FailStart, StartRunner,
           WaitReturns, ConcludeRun, CleanupContainers, ShutdownInv, IInv, TypeInv, TypeOK
    <3>2. CASE pc[h] # "idle"
      <4>1. h \in accepted
        BY <3>2 DEF ShutdownInv, WorkIsAccepted
      <4>2. HandlerStep(h)
        BY <1>7, <3>2 DEF ServeExecute, ClaimRun, RefuseClaim, Goto
      <4>3. ~Ended(h) /\ \A g \in Handlers : g # h => pc'[g] = pc[g]
        BY <4>2 DEF HandlerStep, Goto, Ended, FinishSetup, FailSetup, ReleaseClaim,
             LeaveUnstarted, FailStart, StartRunner, WaitReturns, ConcludeRun,
             CleanupContainers, ShutdownInv, IInv, TypeInv, TypeOK
      <4>4. QED
        BY <4>1, <4>3
    <3>3. QED
      BY <3>1, <3>2
  <2>2. closePc \notin StartStages \cup {"closed"}
    BY <2>1 DEF ShutdownInv, StageInv, Drained
  <2>3. /\ UNCHANGED <<accepted, publicServing, controlServing, closePc, doomed, contextEnded,
                       stateRequest>>
        /\ dataDir' \in {dataDir, TRUE}
    BY <1>7 DEF ServeExecute
  <2>4. QED
    BY <1>2, <2>1, <2>2, <2>3 DEF ShutdownInv, ShutdownTypeOK, WorkIsAccepted, StageInv
<1>8. ASSUME UNCHANGED <<accepted, publicServing, controlServing, dataDir, closePc, contextEnded,
                         stateRequest>>,
             UNCHANGED pc, doomed' \subseteq doomed
      PROVE  Rest
  BY <1>2, <1>8 DEF ShutdownInv, ShutdownTypeOK, WorkIsAccepted, StageInv, Drained, MayWrite,
       Ended
<1>9. ASSUME NEW h \in Handlers, RunnerExits(h) \/ InterruptRunner(h) \/ KillRunner(h)
      PROVE  Rest
  BY <1>8, <1>9 DEF RunnerExits, ProcessExits, InterruptRunner, KillRunner, closeVars
<1>10. ASSUME NEW r \in Runs, ServeControl(r) \/ ServePublic(r) PROVE Rest
  BY <1>8, <1>10 DEF ServeControl, ServePublic, ScriptInProgress, ScriptCompleted,
       appendQueuedWorkflow, CancelRun, closeVars
<1>11. CASE CallClose \/ BeginClose \/ BeginKilling
  BY <1>2, <1>11 DEF CallClose, BeginClose, BeginKilling, StartedCommands, ShutdownInv, ShutdownTypeOK,
       WorkIsAccepted, StageInv, vars
<1>12. CASE ShutdownPublic
  BY <1>2, <1>12 DEF ShutdownPublic, ShutdownInv, ShutdownTypeOK, WorkIsAccepted, StageInv, vars
<1>13. CASE ShutdownControl
  BY <1>2, <1>13 DEF ShutdownControl, ShutdownInv, ShutdownTypeOK, WorkIsAccepted, StageInv, vars
<1>14. CASE ReturnAbandoned
  BY <1>2, <1>14 DEF ReturnAbandoned, ShutdownInv, ShutdownTypeOK, WorkIsAccepted, StageInv, vars
<1>15. CASE ReturnDrained
  BY <1>2, <1>15 DEF ReturnDrained, ShutdownInv, ShutdownTypeOK, WorkIsAccepted, StageInv,
       Drained, MayWrite, Ended, vars
<1>16. CASE EndContext
  BY <1>2, <1>16 DEF EndContext, ShutdownInv, ShutdownTypeOK, WorkIsAccepted, StageInv, Drained,
       MayWrite, Ended, vars
<1>17. CASE getState \/ QueueWriter \/ AnswerState
  BY <1>2, <1>17 DEF getState, QueueWriter, AnswerState, ShutdownInv, ShutdownTypeOK,
       WorkIsAccepted, StageInv, Drained, MayWrite, Ended, vars
<1>18. QED
  BY <1>4, <1>5, <1>6, <1>7, <1>9, <1>10, <1>11, <1>12, <1>13, <1>14, <1>15, <1>16, <1>17
  DEF ShutdownNext, CloseStep

LEMMA ShutdownInvariance == ShutdownSpec => []ShutdownInv
BY ShutdownInitInv, InstanceStep, PTL DEF ShutdownSpec

-----------------------------------------------------------------------------
(* Theorems *)

\* The instance, its servers and the executions that Close signals are well typed.
THEOREM ShutdownTypeCorrect == ShutdownSpec => []ShutdownTypeOK
<1>1. ShutdownInv => ShutdownTypeOK
  BY DEF ShutdownInv
<1>2. QED
  BY <1>1, ShutdownInvariance, PTL

\* A Close that returns because the servers have drained leaves no request, claim, process or
\* unconcluded execution behind, whatever was accepted while it interrupted the runners.
THEOREM CloseLeavesQuiet == ShutdownSpec => []ClosedIsQuiet
<1>1. ASSUME ShutdownInv PROVE ClosedIsQuiet
  <2> SUFFICES ASSUME closePc = "closed"
               PROVE  /\ \A h \in Handlers :
                           /\ pc[h] = "idle" \/ Ended(h)
                           /\ proc[h].state \in {"none", "reaped"}
                           /\ proc[h].state = "reaped" =>
                                workflowRuns[target[h]].Status = "completed"
                      /\ \A r \in Runs : ~activeRuns[r].claimed
    BY DEF ClosedIsQuiet
  <2>1. \A h \in Handlers : pc[h] = "idle" \/ Ended(h)
    BY <1>1 DEF ShutdownInv, WorkIsAccepted, StageInv, Drained
  <2>2. \A h \in Handlers : /\ proc[h].state \in {"none", "reaped"}
                            /\ proc[h].state = "reaped" =>
                                 workflowRuns[target[h]].Status = "completed"
    BY <1>1, <2>1 DEF ShutdownInv, IInv, HandlerInv, Ended
  <2>3. \A r \in Runs : ~activeRuns[r].claimed
    BY <1>1, <2>1 DEF ShutdownInv, IInv, ClaimHeldByOne, Holds, Ended
  <2>4. QED
    BY <2>1, <2>2, <2>3
<1>2. QED
  BY <1>1, ShutdownInvariance, PTL

\* The data directory is there for every request that Close has not given up on, and nothing
\* is left of an instance that failed to start or was closed.
THEOREM DirectoryCorrect == ShutdownSpec => []DirectoryFollowsInstance
<1>1. ASSUME ShutdownInv PROVE DirectoryFollowsInstance
  <2>1. ASSUME closePc # "abandoned", NEW h \in Handlers, pc[h] # "idle", ~Ended(h)
        PROVE  dataDir
    <3>1. h \in accepted
      BY <1>1, <2>1 DEF ShutdownInv, WorkIsAccepted
    <3>2. closePc \notin StartStages \cup {"closed", "abandoned"}
      BY <1>1, <2>1, <3>1 DEF ShutdownInv, StageInv, Drained
    <3>3. QED
      BY <1>1, <3>2 DEF ShutdownInv, ShutdownTypeOK, StageInv, StartStages, CloseStages
  <2>2. closePc \in {"failed", "closed"} => ~dataDir /\ ~publicServing /\ ~controlServing
    BY <1>1 DEF ShutdownInv, StageInv
  <2>3. QED
    BY <2>1, <2>2 DEF DirectoryFollowsInstance
<1>2. QED
  BY <1>1, ShutdownInvariance, PTL

\* A run that Close interrupted or killed is concluded cancelled only if somebody had asked
\* for its cancellation.
THEOREM ShutdownCancelsNothing == ShutdownSpec => []ShutdownIsNoCancellation
<1>1. ASSUME ShutdownInv PROVE ShutdownIsNoCancellation
  <2>1. \A h \in Handlers : proc[h].state = "reaped" /\ Ended(h) => pc[h] = "succeeded"
    BY <1>1 DEF ShutdownInv, IInv, HandlerInv, Ended
  <2>2. QED
    BY <1>1, <2>1 DEF ShutdownInv, IInv, ConclusionExplained, ShutdownIsNoCancellation
<1>2. QED
  BY <1>1, ShutdownInvariance, PTL

\* The signals of Close and the requests that outlive it break none of the promises about
\* executions: claims stay exclusive, a claimed run is frozen, act starts once, cancellations
\* reach their runner and conclusions are explained, even after a Close that gave up.
THEOREM CloseKeepsPromises ==
    ShutdownSpec => [](/\ ClaimHeldByOne /\ ClaimFreezesStatus /\ StartedOnce
                       /\ CancellationReachesRunner /\ ConclusionExplained)
<1>1. ShutdownInv => /\ ClaimHeldByOne /\ ClaimFreezesStatus /\ StartedOnce
                     /\ CancellationReachesRunner /\ ConclusionExplained
  BY DEF ShutdownInv, IInv
<1>2. QED
  BY <1>1, ShutdownInvariance, PTL

\* The log keeps telling each run's story in order, and agrees with the runs, while the
\* instance closes and after it has given up on a request.
THEOREM CloseKeepsLog == ShutdownSpec => [](EventsInOrder /\ StatusIsAnnounced)
<1>1. ShutdownInit => LogInv
  BY LogInit DEF ShutdownInit
<1>2. ASSUME ShutdownInv, LogInv, [ShutdownNext]_shutdownVars PROVE LogInv'
  <2>1. CASE [Next]_vars
    BY <1>2, <2>1, LogStep DEF ShutdownInv
  <2>2. ASSUME NEW h \in Handlers, InterruptRunner(h) \/ KillRunner(h) PROVE LogInv'
    BY <1>2, <2>2, SignalsAreSilent
       DEF ShutdownInv, LogInv, StatusIsAnnounced, EventsInOrder, Exists
  <2>3. QED
    BY <1>2, <2>1, <2>2, StepKinds
<1>3. LogInv => EventsInOrder /\ StatusIsAnnounced
  BY DEF LogInv
<1>4. QED
  BY <1>1, <1>2, <1>3, ShutdownInvariance, PTL DEF ShutdownSpec

\* An instance from Start to the end of Close, its servers, deadlines and signals included,
\* gives the clients of the API nothing but the lifecycle that WorkflowLifecycle promises.
THEOREM InstanceImplementsLifecycle == ShutdownSpec => ImplementsLifecycle
<1>1. ShutdownInit => Lifecycle!Init /\ FreshInv
  BY InitRefines, FreshInit DEF ShutdownInit
<1>2. ASSUME ShutdownInv, FreshInv, [ShutdownNext]_shutdownVars PROVE FreshInv' /\ Refines
  <2>1. CASE [Next]_vars
    BY <1>2, <2>1, FreshStep, StepRefines DEF ShutdownInv
  <2>2. ASSUME NEW h \in Handlers, InterruptRunner(h) \/ KillRunner(h) PROVE FreshInv' /\ Refines
    BY <1>2, <2>2, SignalsAreSilent DEF ShutdownInv, FreshInv, Refines, Lifecycle!vars
  <2>3. QED
    BY <1>2, <2>1, <2>2, StepKinds
<1>3. ShutdownInv /\ FreshInv /\ [ShutdownNext]_shutdownVars => [Lifecycle!Next]_(Lifecycle!vars)
  BY <1>2 DEF Refines
<1>4. ShutdownSpec => []FreshInv
  BY <1>1, <1>2, ShutdownInvariance, PTL DEF ShutdownSpec
<1>5. QED
  BY <1>1, <1>3, <1>4, ShutdownInvariance, PTL
     DEF ShutdownSpec, ImplementsLifecycle, Lifecycle!Spec
===============================================================================
