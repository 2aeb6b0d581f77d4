----------------------- MODULE WorkflowExecutionProofs -----------------------
(***************************************************************************)
(* Theorems about WorkflowExecution, for any sets of runs, of execute      *)
(* requests and of conclusions.                                            *)
(***************************************************************************)
EXTENDS WorkflowExecution, SequenceTheorems, TLAPS

-----------------------------------------------------------------------------
(* Types.  A request that has arrived names a run, without which the       *)
(* actions of its handler would not keep TypeOK.                           *)

Targeted == \A h \in Handlers : pc[h] # "idle" => target[h] \in Runs

TypeInv == TypeOK /\ Targeted

LEMMA InitTypeInv == Init => TypeInv
<1> SUFFICES ASSUME Init PROVE TypeInv
  OBVIOUS
<1>1. workflowRuns \in [Runs -> WorkflowRun]
  BY DEF Init, WorkflowRun, Statuses, Outcomes, NoConclusion
<1>2. activeRuns \in [Runs -> ActiveRun]
  BY DEF Init, NoClaim, ActiveRun
<1>3. pendingEvents \in Seq(Event)
  BY EmptySeq DEF Init
<1>4. proc \in [Handlers -> Process]
  BY DEF Init, NoProcess, Process
<1>5. pc \in [Handlers -> Stages] /\ target \in [Handlers -> Runs \cup {NoRun}] /\ Targeted
  BY DEF Init, Stages, Targeted
<1>6. QED
  BY <1>1, <1>2, <1>3, <1>4, <1>5 DEF TypeInv, TypeOK

\* What a status change does to the types, whoever makes it.
LEMMA SetStatusType ==
    ASSUME TypeOK, NEW r \in Runs, NEW s \in {"in_progress", "completed"}, NEW c \in Outcomes,
           SetStatus(r, s, c)
    PROVE  /\ workflowRuns' \in [Runs -> WorkflowRun]
           /\ pendingEvents' \in Seq(Event)
<1>1. workflowRuns' \in [Runs -> WorkflowRun]
  BY DEF TypeOK, SetStatus, WorkflowRun, Statuses
<1>2. [run |-> r, action |-> s, conclusion |-> c] \in Event
  BY DEF Event
<1>3. pendingEvents' \in Seq(Event)
  BY <1>2, AppendProperties DEF TypeOK, SetStatus, appendWorkflowEvent
<1>4. QED
  BY <1>1, <1>3

LEMMA DeleteActiveType ==
    ASSUME TypeOK, NEW r, DeleteActive(r)
    PROVE  activeRuns' \in [Runs -> ActiveRun]
BY DEF TypeOK, DeleteActive, ActiveRun, NoClaim

LEMMA GotoType ==
    ASSUME TypeInv, NEW h \in Handlers, NEW f \in Stages \ {"idle"}, NEW t \in Stages,
           Goto(h, f, t), UNCHANGED target
    PROVE  /\ pc' \in [Handlers -> Stages]
           /\ target[h] \in Runs
           /\ Targeted'
BY DEF TypeInv, TypeOK, Targeted, Goto

LEMMA RunStepType == ASSUME TypeInv, NEW r \in Runs, RunStep(r) PROVE TypeInv'
<1> USE DEF TypeInv
<1>1. CASE appendQueuedWorkflow(r)
  <2>1. workflowRuns' \in [Runs -> WorkflowRun]
    BY <1>1 DEF appendQueuedWorkflow, TypeOK, WorkflowRun, Statuses, Outcomes, NoConclusion
  <2>2. [run |-> r, action |-> "requested", conclusion |-> NoConclusion] \in Event
    BY DEF Event, Outcomes, NoConclusion
  <2>3. pendingEvents' \in Seq(Event)
    BY <1>1, <2>2, AppendProperties DEF appendQueuedWorkflow, appendWorkflowEvent, TypeOK
  <2>4. QED
    BY <1>1, <2>1, <2>3 DEF appendQueuedWorkflow, TypeOK, Targeted
<1>2. CASE ScriptInProgress(r)
  BY <1>2, SetStatusType DEF ScriptInProgress, TypeOK, Targeted, Outcomes, NoConclusion
<1>3. ASSUME NEW c \in Conclusions, ScriptCompleted(r, c) PROVE TypeInv'
  BY <1>3, SetStatusType DEF ScriptCompleted, TypeOK, Targeted, Outcomes, NoConclusion
<1>4. CASE CancelRun(r)
  <2>1. workflowRuns' \in [Runs -> WorkflowRun]
    BY <1>4 DEF CancelRun, TypeOK, WorkflowRun
  <2>2. activeRuns' \in [Runs -> ActiveRun]
    <3> DEFINE a == [activeRuns[r] EXCEPT !.cancellationSignalled = TRUE]
    <3>1. a \in ActiveRun
      BY DEF TypeOK, ActiveRun
    <3>2. activeRuns' = activeRuns \/ activeRuns' = [activeRuns EXCEPT ![r] = a]
      BY <1>4 DEF CancelRun
    <3> HIDE DEF a
    <3>3. QED
      BY <3>1, <3>2 DEF TypeOK
  <2>3. proc' \in [Handlers -> Process]
    <3> DEFINE h == activeRuns[r].command
               p == [proc[h] EXCEPT !.interrupted = TRUE]
    <3>1. h \in Handlers => p \in Process
      <4>1. \A q \in Process : [q EXCEPT !.interrupted = TRUE] \in Process
        BY DEF Process
      <4>2. h \in Handlers => proc[h] \in Process
        BY DEF TypeOK
      <4>3. QED
        BY <4>1, <4>2
    <3>2. proc' = proc \/ (h \in Handlers /\ proc' = [proc EXCEPT ![h] = p])
      BY <1>4 DEF CancelRun, TypeOK, ActiveRun
    <3> HIDE DEF h, p
    <3>3. QED
      BY <3>1, <3>2 DEF TypeOK
  <2>4. QED
    BY <1>4, <2>1, <2>2, <2>3 DEF CancelRun, TypeOK, Targeted
<1>5. ASSUME NEW h \in Handlers, ClaimRun(h, r) PROVE TypeInv'
  BY <1>5 DEF ClaimRun, Goto, TypeOK, Targeted, ActiveRun, NoClaim, Stages
<1>6. ASSUME NEW h \in Handlers, RefuseClaim(h, r) PROVE TypeInv'
  BY <1>6 DEF RefuseClaim, Goto, TypeOK, Targeted, Stages
<1>7. QED
  BY <1>1, <1>2, <1>3, <1>4, <1>5, <1>6 DEF RunStep

LEMMA HandlerStepType ==
    ASSUME TypeInv, NEW h \in Handlers, HandlerStep(h) \/ ProcessExits(h) PROVE TypeInv'
<1> USE DEF TypeInv
<1>1. CASE FinishSetup(h) \/ FailSetup(h) \/ CleanupContainers(h)
  BY <1>1, GotoType DEF FinishSetup, FailSetup, CleanupContainers, TypeOK, Stages
<1>2. CASE ReleaseClaim(h)
  BY <1>2, GotoType, DeleteActiveType DEF ReleaseClaim, TypeOK, Stages
<1>3. CASE LeaveUnstarted(h)
  <2>1. target[h] \in Runs
    BY <1>3 DEF LeaveUnstarted, Targeted
  <2>2. activeRuns' \in [Runs -> ActiveRun]
    BY <1>3, DeleteActiveType DEF LeaveUnstarted
  <2>3. CASE workflowRuns[target[h]].Status = "queued"
    BY <1>3, <2>1, <2>2, <2>3, GotoType, SetStatusType DEF LeaveUnstarted, TypeOK, Outcomes, NoConclusion, Stages
  <2>4. CASE workflowRuns[target[h]].Status # "queued"
    BY <1>3, <2>1, <2>2, <2>4, GotoType DEF LeaveUnstarted, TypeOK, Stages
  <2>5. QED
    BY <2>3, <2>4
<1>4. CASE FailStart(h)
  BY <1>4, GotoType, DeleteActiveType DEF FailStart, TypeOK, Stages
<1>5. CASE StartRunner(h)
  <2>1. target[h] \in Runs /\ pc' \in [Handlers -> Stages] /\ Targeted'
    BY <1>5, GotoType DEF StartRunner, Stages
  <2>2. workflowRuns' \in [Runs -> WorkflowRun] /\ pendingEvents' \in Seq(Event)
    BY <1>5, <2>1, SetStatusType DEF StartRunner, TypeOK, WorkflowRun
  <2>3. activeRuns' \in [Runs -> ActiveRun]
    BY <1>5, <2>1 DEF StartRunner, TypeOK, ActiveRun
  <2>4. proc' \in [Handlers -> Process]
    BY <1>5 DEF StartRunner, TypeOK, Process
  <2>5. QED
    BY <1>5, <2>1, <2>2, <2>3, <2>4 DEF StartRunner, TypeOK
<1>6. CASE WaitReturns(h)
  BY <1>6, GotoType DEF WaitReturns, TypeOK, Process, Stages
<1>7. CASE ConcludeRun(h)
  <2>1. target[h] \in Runs /\ pc' \in [Handlers -> Stages] /\ Targeted'
    BY <1>7, GotoType DEF ConcludeRun, Stages
  <2>2. \A s, e : Conclude(s, e) \in Outcomes
    BY DEF Conclude, Outcomes, NoConclusion
  <2>3. workflowRuns' \in [Runs -> WorkflowRun] /\ pendingEvents' \in Seq(Event)
    BY <1>7, <2>1, <2>2, SetStatusType DEF ConcludeRun
  <2>4. QED
    BY <1>7, <2>1, <2>3, DeleteActiveType DEF ConcludeRun, TypeOK
<1>8. CASE ProcessExits(h)
  <2> DEFINE p(code) == [proc[h] EXCEPT !.state = "zombie", !.exit = code]
  <2>1. PICK code \in {"zero", "nonzero"} : proc' = [proc EXCEPT ![h] = p(code)]
    BY <1>8 DEF ProcessExits
  <2>2. p(code) \in Process
    BY DEF TypeOK, Process
  <2> HIDE DEF p
  <2>3. QED
    BY <1>8, <2>1, <2>2 DEF ProcessExits, TypeOK, Targeted
<1>9. QED
  BY <1>1, <1>2, <1>3, <1>4, <1>5, <1>6, <1>7, <1>8 DEF HandlerStep

LEMMA NextTypeInv == TypeInv /\ [Next]_vars => TypeInv'
<1>1. ASSUME TypeInv, UNCHANGED vars PROVE TypeInv'
  BY <1>1 DEF TypeInv, TypeOK, Targeted, vars
<1>2. ASSUME TypeInv, Next PROVE TypeInv'
  BY <1>2, RunStepType, HandlerStepType DEF Next
<1>3. QED
  BY <1>1, <1>2

\* Every reachable state is well typed: handlers, scripts, cancellations and processes only
\* put runs, claims, events and processes of the declared shapes in the world.
THEOREM TypeCorrect == Spec => []TypeOK
<1>1. Spec => []TypeInv
  BY InitTypeInv, NextTypeInv, PTL DEF Spec
<1>2. TypeInv => TypeOK
  BY DEF TypeInv
<1>3. QED
  BY <1>1, <1>2, PTL

-----------------------------------------------------------------------------
(* Claims.  ClaimHeldByOne is not inductive by itself: that nothing but    *)
(* the holder moves a claimed run depends on where every handler is, on    *)
(* the command in the entry of activeRuns, and on what its process did.    *)

\* Where a handler is tells the state of its process, and an execution that ended has
\* completed its run.
HandlerInv ==
    \A h \in Handlers :
        /\ pc[h] \in {"idle", "setup", "ready", "releasing", "refused", "failed"} =>
               proc[h].state = "none"
        /\ pc[h] = "running" => proc[h].state \in {"running", "zombie"}
        /\ pc[h] \in {"waited", "cleanup"} => proc[h].state = "reaped"
        /\ pc[h] = "succeeded" => proc[h].state \in {"none", "reaped"}
        /\ proc[h].state \in {"zombie", "reaped"} => proc[h].exit \in {"zero", "nonzero"}
        /\ pc[h] \in {"cleanup", "succeeded"} => workflowRuns[target[h]].Status = "completed"

\* An entry carries the command of its holder, from the start of the process to its end.
ClaimInv ==
    \A r \in Runs :
        /\ ~activeRuns[r].claimed => activeRuns[r] = NoClaim
        /\ activeRuns[r].command = NoHandler => ~activeRuns[r].cancellationSignalled
        /\ \A h \in Handlers : Holds(h, r) =>
               activeRuns[r].command = IF pc[h] \in {"running", "waited"} THEN h ELSE NoHandler

\* A cancellation is marked as signalled only when the process accepted its interrupt.
SignalInv ==
    \A h \in Handlers :
        pc[h] \in {"running", "waited"} /\ activeRuns[target[h]].cancellationSignalled =>
            proc[h].interrupted /\ workflowRuns[target[h]].CancellationRequested

IInv ==
    /\ TypeInv
    /\ ClaimHeldByOne
    /\ ClaimFreezesStatus
    /\ HandlerInv
    /\ ClaimInv
    /\ SignalInv
    /\ CancellationReachesRunner
    /\ StartedOnce
    /\ ConclusionExplained

\* A run that nobody claimed and that has not completed may move: no handler minds.
LEMMA UnclaimedRunMoves ==
    ASSUME IInv, TypeInv', NEW r \in Runs,
           ~activeRuns[r].claimed, workflowRuns[r].Status # "completed",
           \A s \in Runs \ {r} : workflowRuns'[s] = workflowRuns[s],
           UNCHANGED <<activeRuns, pc, target, proc>>
    PROVE  IInv'
<1> USE DEF IInv, TypeInv, TypeOK, Targeted, Holds, NoClaim, ClaimHeldByOne, ClaimFreezesStatus,
       HandlerInv, ClaimInv, SignalInv, CancellationReachesRunner, StartedOnce,
       ConclusionExplained
<1>1. \A h \in Handlers : target[h] = r => proc[h].state = "none" /\ ~Holds(h, r)
  BY DEF IInv, TypeInv, TypeOK, Stages, ClaimHeldByOne, Holds, HandlerInv
<1>2. QED
  <2>1. ClaimHeldByOne'
    BY <1>1
  <2>2. ClaimFreezesStatus'
    BY <1>1
  <2>3. HandlerInv'
    BY <1>1
  <2>4. ClaimInv'
    BY <1>1
  <2>5. SignalInv'
    BY <1>1
  <2>6. CancellationReachesRunner'
    BY <1>1
  <2>7. StartedOnce'
    BY <1>1
  <2>8. ConclusionExplained'
    BY <1>1
  <2>9. QED
    BY <2>1, <2>2, <2>3, <2>4, <2>5, <2>6, <2>7, <2>8 DEF IInv

\* A run that is absent is not claimed: claims are on queued and running runs.
LEMMA ClaimedExists ==
    ASSUME IInv, NEW r \in Runs, activeRuns[r].claimed
    PROVE  workflowRuns[r].Status \in {"queued", "in_progress"}
BY DEF IInv, TypeInv, TypeOK, Stages, ClaimHeldByOne, ClaimFreezesStatus, Holds

\* A push requests a run that nobody can have claimed yet.
LEMMA RequestKeepsInv == ASSUME IInv, TypeInv', NEW r \in Runs, appendQueuedWorkflow(r) PROVE IInv'
<1>1. workflowRuns[r].Status = "absent" /\ ~activeRuns[r].claimed
  BY ClaimedExists DEF appendQueuedWorkflow, Exists
<1>2. \A s \in Runs \ {r} : workflowRuns'[s] = workflowRuns[s]
  BY DEF appendQueuedWorkflow, IInv, TypeInv, TypeOK
<1>3. QED
  BY <1>1, <1>2, UnclaimedRunMoves DEF appendQueuedWorkflow

\* A script leaves claimed runs alone.
LEMMA ScriptKeepsInv ==
    ASSUME IInv, TypeInv', NEW r \in Runs,
           ScriptInProgress(r) \/ \E c \in Conclusions : ScriptCompleted(r, c)
    PROVE  IInv'
<1>1. workflowRuns[r].Status # "completed" /\ ~activeRuns[r].claimed
  BY DEF ScriptInProgress, ScriptCompleted, Scriptable
<1>2. \A s \in Runs \ {r} : workflowRuns'[s] = workflowRuns[s]
  BY DEF ScriptInProgress, ScriptCompleted, SetStatus, IInv, TypeInv, TypeOK
<1>3. QED
  BY <1>1, <1>2, UnclaimedRunMoves DEF ScriptInProgress, ScriptCompleted

\* A cancellation reaches the process if there is one, and changes nothing else but intent.
LEMMA CancelKeepsInv == ASSUME IInv, TypeInv', NEW r \in Runs, CancelRun(r) PROVE IInv'
<1> USE DEF IInv, TypeInv, TypeOK, Targeted, Holds, NoClaim, ClaimHeldByOne, ClaimFreezesStatus,
       HandlerInv, ClaimInv, SignalInv, CancellationReachesRunner, StartedOnce,
       ConclusionExplained
<1> DEFINE c == activeRuns[r].command
<1>1. /\ workflowRuns[r].Status # "completed"
      /\ \A s \in Runs : /\ workflowRuns'[s].Status = workflowRuns[s].Status
                         /\ workflowRuns'[s].Conclusion = workflowRuns[s].Conclusion
                         /\ workflowRuns[s].CancellationRequested =>
                                workflowRuns'[s].CancellationRequested
                         /\ s # r => workflowRuns'[s] = workflowRuns[s]
      /\ workflowRuns'[r].CancellationRequested
      /\ UNCHANGED <<pc, target>>
  BY DEF CancelRun, Cancellable, IInv, TypeInv, TypeOK, WorkflowRun
<1>2. CASE c = NoHandler
  <2>1. UNCHANGED <<activeRuns, proc>>
    BY <1>2 DEF CancelRun
  <2>2. \A h \in Handlers : target[h] = r => proc[h].state # "running"
    BY <1>2, NoHandlerAssumption DEF IInv, TypeInv, TypeOK, Stages, Holds, HandlerInv, ClaimInv
  <2>3. QED
    BY <1>1, <2>1, <2>2
<1>3. CASE c # NoHandler
  <2>1. c \in Handlers /\ Holds(c, r) /\ pc[c] \in {"running", "waited"}
    <3>1. activeRuns[r].claimed
      BY <1>3 DEF IInv, ClaimInv, NoClaim, TypeInv, TypeOK, ActiveRun
    <3>2. PICK h \in Handlers : Holds(h, r)
      BY <3>1 DEF IInv, ClaimHeldByOne
    <3>3. c = h /\ pc[h] \in {"running", "waited"}
      BY <1>3, <3>2 DEF IInv, ClaimInv
    <3>4. QED
      BY <3>2, <3>3
  <2>2. CASE UNCHANGED <<activeRuns, proc>> /\ proc[c].state # "running"
    <3>1. ClaimHeldByOne'
      BY <1>1, <2>1, <2>2
    <3>2. ClaimFreezesStatus'
      BY <1>1, <2>1, <2>2
    <3>3. HandlerInv'
      BY <1>1, <2>1, <2>2
    <3>4. ClaimInv'
      BY <1>1, <2>1, <2>2
    <3>5. SignalInv'
      BY <1>1, <2>1, <2>2
    <3>6. CancellationReachesRunner'
      <4>1. \A h \in Handlers : proc[h].state = "running" => target[h] # r
        BY <2>1, <2>2 DEF IInv, TypeInv, TypeOK, Stages, HandlerInv, Holds, ClaimHeldByOne
      <4>2. QED
        BY <1>1, <2>2, <4>1 DEF IInv, TypeInv, TypeOK, Targeted, CancellationReachesRunner, HandlerInv
    <3>7. StartedOnce'
      BY <1>1, <2>1, <2>2
    <3>8. ConclusionExplained'
      BY <1>1, <2>1, <2>2
    <3>9. QED
      BY <3>1, <3>2, <3>3, <3>4, <3>5, <3>6, <3>7, <3>8 DEF IInv
  <2>3. CASE /\ activeRuns' = [activeRuns EXCEPT ![r] =
                   [activeRuns[r] EXCEPT !.cancellationSignalled = TRUE]]
             /\ proc' = [proc EXCEPT ![c] = [proc[c] EXCEPT !.interrupted = TRUE]]
    <3>1. ClaimHeldByOne'
      BY <1>1, <2>1, <2>3
    <3>2. ClaimFreezesStatus'
      BY <1>1, <2>1, <2>3
    <3>3. HandlerInv'
      BY <1>1, <2>1, <2>3
    <3>4. ClaimInv'
      <4>1. /\ \A s \in Runs \ {r} : activeRuns'[s] = activeRuns[s]
            /\ activeRuns'[r].claimed = activeRuns[r].claimed
            /\ activeRuns'[r].command = activeRuns[r].command
            /\ activeRuns[r].claimed
        BY <2>1, <2>3 DEF IInv, TypeInv, TypeOK, ActiveRun, ClaimHeldByOne
      <4>2. \A h \in Handlers, s \in Runs : Holds(h, s)' <=> Holds(h, s)
        BY <1>1 DEF Holds
      <4>3. SUFFICES ASSUME NEW s \in Runs PROVE
               /\ ~activeRuns'[s].claimed => activeRuns'[s] = NoClaim
               /\ activeRuns'[s].command = NoHandler => ~activeRuns'[s].cancellationSignalled
               /\ \A h \in Handlers : Holds(h, s) => activeRuns'[s].command =
                      IF pc[h] \in {"running", "waited"} THEN h ELSE NoHandler
        BY <1>1, <4>2 DEF ClaimInv
      <4>4. CASE s = r
        BY <1>3, <4>1, <4>4 DEF IInv, ClaimInv
      <4>5. CASE s # r
        BY <4>1, <4>5 DEF IInv, ClaimInv
      <4>6. QED
        BY <4>4, <4>5
    <3>5. SignalInv'
      BY <1>1, <2>1, <2>3
    <3>6. CancellationReachesRunner'
      BY <1>1, <2>1, <2>3
    <3>7. StartedOnce'
      BY <1>1, <2>1, <2>3
    <3>8. ConclusionExplained'
      BY <1>1, <2>1, <2>3
    <3>9. QED
      BY <3>1, <3>2, <3>3, <3>4, <3>5, <3>6, <3>7, <3>8 DEF IInv
  <2>4. QED
    BY <1>3, <2>1, <2>2, <2>3 DEF CancelRun, SignalAccepted
<1>4. QED
  BY <1>2, <1>3

\* The claim: one request holds the run, which is queued and has no process.
LEMMA ClaimKeepsInv == ASSUME IInv, TypeInv', NEW r \in Runs, \E h \in Handlers : ClaimRun(h, r) PROVE IInv'
BY SMTT(60) DEF IInv, TypeInv, TypeOK, Targeted, Holds, NoClaim, ClaimHeldByOne, ClaimFreezesStatus,
       HandlerInv, ClaimInv, SignalInv, CancellationReachesRunner, StartedOnce,
       ConclusionExplained, ClaimRun, Claimable, Exists, Goto

\* A refused request holds nothing.
LEMMA RefuseKeepsInv == ASSUME IInv, TypeInv', NEW r \in Runs, \E h \in Handlers : RefuseClaim(h, r) PROVE IInv'
BY SMTT(60) DEF IInv, TypeInv, TypeOK, Targeted, Holds, NoClaim, ClaimHeldByOne, ClaimFreezesStatus,
       HandlerInv, ClaimInv, SignalInv, CancellationReachesRunner, StartedOnce,
       ConclusionExplained, RefuseClaim, Goto

\* Setup changes nothing that others see.
LEMMA SetupKeepsInv == ASSUME IInv, TypeInv', NEW h \in Handlers, FinishSetup(h) \/ FailSetup(h) PROVE IInv'
BY SMTT(60) DEF IInv, TypeInv, TypeOK, Targeted, Holds, NoClaim, ClaimHeldByOne, ClaimFreezesStatus,
       HandlerInv, ClaimInv, SignalInv, CancellationReachesRunner, StartedOnce,
       ConclusionExplained, FinishSetup, FailSetup, Goto

\* The deferred release gives back the handler's own claim.
LEMMA ReleaseKeepsInv == ASSUME IInv, TypeInv', NEW h \in Handlers, ReleaseClaim(h) PROVE IInv'
BY SMTT(60) DEF IInv, TypeInv, TypeOK, Targeted, Holds, NoClaim, ClaimHeldByOne, ClaimFreezesStatus,
       HandlerInv, ClaimInv, SignalInv, CancellationReachesRunner, StartedOnce,
       ConclusionExplained, ReleaseClaim, Goto, DeleteActive

\* A runner that cannot start gives the claim back.
LEMMA FailStartKeepsInv == ASSUME IInv, TypeInv', NEW h \in Handlers, FailStart(h) PROVE IInv'
BY SMTT(60) DEF IInv, TypeInv, TypeOK, Targeted, Holds, NoClaim, ClaimHeldByOne, ClaimFreezesStatus,
       HandlerInv, ClaimInv, SignalInv, CancellationReachesRunner, StartedOnce,
       ConclusionExplained, FailStart, Goto, DeleteActive

\* Wait reaps the process of the handler's own run.
LEMMA WaitKeepsInv == ASSUME IInv, TypeInv', NEW h \in Handlers, WaitReturns(h) PROVE IInv'
BY SMTT(60) DEF IInv, TypeInv, TypeOK, Targeted, Holds, NoClaim, ClaimHeldByOne, ClaimFreezesStatus,
       HandlerInv, ClaimInv, SignalInv, CancellationReachesRunner, StartedOnce,
       ConclusionExplained, WaitReturns, Goto

\* Cleanup comes after the claim is gone.
LEMMA CleanupKeepsInv == ASSUME IInv, TypeInv', NEW h \in Handlers, CleanupContainers(h) PROVE IInv'
BY SMTT(60) DEF IInv, TypeInv, TypeOK, Targeted, Holds, NoClaim, ClaimHeldByOne, ClaimFreezesStatus,
       HandlerInv, ClaimInv, SignalInv, CancellationReachesRunner, StartedOnce,
       ConclusionExplained, CleanupContainers, Goto

\* act exits.
LEMMA ExitKeepsInv == ASSUME IInv, TypeInv', NEW h \in Handlers, ProcessExits(h) PROVE IInv'
BY SMTT(60) DEF IInv, TypeInv, TypeOK, Targeted, Holds, NoClaim, ClaimHeldByOne, ClaimFreezesStatus,
       HandlerInv, ClaimInv, SignalInv, CancellationReachesRunner, StartedOnce,
       ConclusionExplained, ProcessExits

\* The run is still queued, so leaving it unstarted concludes it.
LEMMA LeaveKeepsInv == ASSUME IInv, TypeInv', NEW h \in Handlers, LeaveUnstarted(h) PROVE IInv'
<1> USE DEF IInv, TypeInv, TypeOK, Targeted, Holds, NoClaim, ClaimHeldByOne, ClaimFreezesStatus,
       HandlerInv, ClaimInv, SignalInv, CancellationReachesRunner, StartedOnce,
       ConclusionExplained
<1>0. /\ Goto(h, "ready", "succeeded")
      /\ SetStatus(target[h], "completed", "cancelled")
      /\ DeleteActive(target[h])
      /\ UNCHANGED <<target, proc>>
      /\ target[h] \in Runs
  BY DEF IInv, TypeInv, Targeted, ClaimFreezesStatus, LeaveUnstarted, Goto
<1>1. ClaimHeldByOne'
  BY <1>0 DEF Goto, SetStatus, DeleteActive, Stages
<1>2. ClaimFreezesStatus'
  BY <1>0 DEF Goto, SetStatus, DeleteActive, Stages
<1>3. HandlerInv'
  BY <1>0 DEF Goto, SetStatus, DeleteActive, Stages
<1>4. ClaimInv'
  BY <1>0 DEF Goto, SetStatus, DeleteActive, Stages
<1>5. SignalInv'
  BY <1>0 DEF Goto, SetStatus, DeleteActive, Stages
<1>6. CancellationReachesRunner'
  BY <1>0 DEF Goto, SetStatus, DeleteActive, Stages
<1>7. StartedOnce'
  BY <1>0 DEF Goto, SetStatus, DeleteActive, Stages
<1>8. ConclusionExplained'
  BY <1>0 DEF Goto, SetStatus, DeleteActive, Stages
<1>9. QED
  BY <1>1, <1>2, <1>3, <1>4, <1>5, <1>6, <1>7, <1>8 DEF IInv

\* The start: the run is queued, so no process was started for it before.
LEMMA StartKeepsInv == ASSUME IInv, TypeInv', NEW h \in Handlers, StartRunner(h) PROVE IInv'
<1> USE DEF IInv, TypeInv, TypeOK, Targeted, Holds, NoClaim, ClaimHeldByOne, ClaimFreezesStatus,
       HandlerInv, ClaimInv, SignalInv, CancellationReachesRunner, StartedOnce,
       ConclusionExplained
<1>1. ClaimHeldByOne'
  BY NoHandlerAssumption DEF StartRunner, Goto, MayStart, SetStatus, Stages
<1>2. ClaimFreezesStatus'
  BY NoHandlerAssumption DEF StartRunner, Goto, MayStart, SetStatus, Stages
<1>3. HandlerInv'
  BY NoHandlerAssumption DEF StartRunner, Goto, MayStart, SetStatus, Stages
<1>4. ClaimInv'
  <2>1. /\ target[h] \in Runs /\ pc[h] = "ready" /\ pc' = [pc EXCEPT ![h] = "running"]
        /\ \A s \in Runs \ {target[h]} : activeRuns'[s] = activeRuns[s]
        /\ activeRuns'[target[h]].claimed = activeRuns[target[h]].claimed
        /\ activeRuns'[target[h]].command = h
        /\ activeRuns[target[h]].claimed
        /\ target' = target
    BY DEF IInv, TypeInv, TypeOK, Targeted, ActiveRun, ClaimHeldByOne, Holds, StartRunner, Goto
  <2>2. \A g \in Handlers : Holds(g, target[h])' => g = h
    BY <2>1 DEF IInv, TypeInv, TypeOK, ClaimHeldByOne, Holds
  <2>3. \A g \in Handlers, s \in Runs \ {target[h]} :
            /\ Holds(g, s)' <=> Holds(g, s)
            /\ Holds(g, s) => pc'[g] = pc[g]
    BY <2>1 DEF IInv, TypeInv, TypeOK, Holds
  <2>4. pc'[h] = "running"
    BY <2>1 DEF IInv, TypeInv, TypeOK
  <2>5. SUFFICES ASSUME NEW s \in Runs PROVE
           /\ ~activeRuns'[s].claimed => activeRuns'[s] = NoClaim
           /\ activeRuns'[s].command = NoHandler => ~activeRuns'[s].cancellationSignalled
           /\ \A g \in Handlers : Holds(g, s)' => activeRuns'[s].command =
                  IF pc'[g] \in {"running", "waited"} THEN g ELSE NoHandler
    BY DEF ClaimInv
  <2> HIDE DEF IInv, ClaimInv, ClaimHeldByOne
  <2>6. CASE s = target[h]
    BY <2>1, <2>2, <2>4, <2>6, NoHandlerAssumption
  <2>7. CASE s # target[h]
    BY <2>1, <2>3, <2>7 DEF IInv, ClaimInv
  <2>8. QED
    BY <2>6, <2>7
<1>5. SignalInv'
  BY NoHandlerAssumption DEF StartRunner, Goto, MayStart, SetStatus, Stages
<1>6. CancellationReachesRunner'
  BY NoHandlerAssumption DEF StartRunner, Goto, MayStart, SetStatus, Stages
<1>7. StartedOnce'
  BY NoHandlerAssumption DEF StartRunner, Goto, MayStart, SetStatus, Stages
<1>8. ConclusionExplained'
  BY NoHandlerAssumption DEF StartRunner, Goto, MayStart, SetStatus, Stages
<1>9. QED
  BY <1>1, <1>2, <1>3, <1>4, <1>5, <1>6, <1>7, <1>8 DEF IInv

\* The conclusion gives the claim back and reads the signal mark it guards.
LEMMA ConcludeKeepsInv == ASSUME IInv, TypeInv', NEW h \in Handlers, ConcludeRun(h) PROVE IInv'
<1> USE DEF IInv, TypeInv, TypeOK, Targeted, Holds, NoClaim, ClaimHeldByOne, ClaimFreezesStatus,
       HandlerInv, ClaimInv, SignalInv, CancellationReachesRunner, StartedOnce,
       ConclusionExplained
<1>1. ClaimHeldByOne'
  BY NoHandlerAssumption DEF ConcludeRun, Goto, DeleteActive, SetStatus, Conclude, Stages
<1>2. ClaimFreezesStatus'
  BY NoHandlerAssumption DEF ConcludeRun, Goto, DeleteActive, SetStatus, Conclude, Stages
<1>3. HandlerInv'
  BY NoHandlerAssumption DEF ConcludeRun, Goto, DeleteActive, SetStatus, Conclude, Stages
<1>4. ClaimInv'
  BY NoHandlerAssumption DEF ConcludeRun, Goto, DeleteActive, SetStatus, Conclude, Stages
<1>5. SignalInv'
  BY NoHandlerAssumption DEF ConcludeRun, Goto, DeleteActive, SetStatus, Conclude, Stages
<1>6. CancellationReachesRunner'
  BY NoHandlerAssumption DEF ConcludeRun, Goto, DeleteActive, SetStatus, Conclude, Stages
<1>7. StartedOnce'
  BY NoHandlerAssumption DEF ConcludeRun, Goto, DeleteActive, SetStatus, Conclude, Stages
<1>8. ConclusionExplained'
  BY NoHandlerAssumption DEF ConcludeRun, Goto, DeleteActive, SetStatus, Conclude, Stages
<1>9. QED
  BY <1>1, <1>2, <1>3, <1>4, <1>5, <1>6, <1>7, <1>8 DEF IInv

LEMMA InitIInv == Init => IInv
<1> SUFFICES ASSUME Init PROVE IInv
  OBVIOUS
<1>1. TypeInv
  BY InitTypeInv
<1>2. QED
  BY <1>1 DEF Init, NoProcess, IInv, TypeInv, TypeOK, Targeted, Holds, NoClaim, ClaimHeldByOne, ClaimFreezesStatus,
       HandlerInv, ClaimInv, SignalInv, CancellationReachesRunner, StartedOnce,
       ConclusionExplained

LEMMA NextIInv == IInv /\ [Next]_vars => IInv'
<1> SUFFICES ASSUME IInv, [Next]_vars PROVE IInv'
  OBVIOUS
<1>1. TypeInv'
  BY NextTypeInv DEF IInv
<1>2. CASE UNCHANGED vars
  BY <1>1, <1>2 DEF vars, IInv, TypeInv, TypeOK, Targeted, Holds, NoClaim, ClaimHeldByOne, ClaimFreezesStatus,
       HandlerInv, ClaimInv, SignalInv, CancellationReachesRunner, StartedOnce,
       ConclusionExplained
<1>3. ASSUME NEW r \in Runs, RunStep(r) PROVE IInv'
  BY <1>1, <1>3, RequestKeepsInv, ScriptKeepsInv, CancelKeepsInv, ClaimKeepsInv, RefuseKeepsInv
     DEF RunStep
<1>4. ASSUME NEW h \in Handlers, HandlerStep(h) PROVE IInv'
  BY <1>1, <1>4, SetupKeepsInv, ReleaseKeepsInv, LeaveKeepsInv, FailStartKeepsInv, StartKeepsInv,
     WaitKeepsInv, ConcludeKeepsInv, CleanupKeepsInv DEF HandlerStep
<1>5. ASSUME NEW h \in Handlers, ProcessExits(h) PROVE IInv'
  BY <1>1, <1>5, ExitKeepsInv
<1>6. QED
  BY <1>2, <1>3, <1>4, <1>5 DEF Next

LEMMA InvariantHolds == Spec => []IInv
BY InitIInv, NextIInv, PTL DEF Spec

\* A claim in activeRuns belongs to exactly one execute request: requests are exclusive, and
\* every path out of executeWorkflowRun gives back its own claim and no other.
THEOREM ClaimsExclusive == Spec => []ClaimHeldByOne
<1>1. IInv => ClaimHeldByOne
  BY DEF IInv
<1>2. QED
  BY <1>1, InvariantHolds, PTL

\* What executeWorkflowRun learnt of its run before it unlocked is true when it locks again.
THEOREM ClaimedRunsFrozen == Spec => []ClaimFreezesStatus
<1>1. IInv => ClaimFreezesStatus
  BY DEF IInv
<1>2. QED
  BY <1>1, InvariantHolds, PTL

\* However many requests name a run, act is started for it at most once.
THEOREM RunsStartOnce == Spec => []StartedOnce
<1>1. IInv => StartedOnce
  BY DEF IInv
<1>2. QED
  BY <1>1, InvariantHolds, PTL

\* No accepted cancellation is lost, wherever the handler was when it arrived.
THEOREM CancellationsReachRunners == Spec => []CancellationReachesRunner
<1>1. IInv => CancellationReachesRunner
  BY DEF IInv
<1>2. QED
  BY <1>1, InvariantHolds, PTL

\* A cancelled execution was interrupted on request and exited nonzero; a zero exit succeeds.
THEOREM ConclusionsExplained == Spec => []ConclusionExplained
<1>1. IInv => ConclusionExplained
  BY DEF IInv
<1>2. QED
  BY <1>1, InvariantHolds, PTL
=============================================================================
