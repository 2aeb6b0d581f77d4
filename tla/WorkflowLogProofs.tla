------------------------- MODULE WorkflowLogProofs --------------------------
(***************************************************************************)
(* What WorkflowExecution shows to its clients: the life of a run, the     *)
(* webhook log, and the refinement of WorkflowLifecycle.  The argument     *)
(* rests on IInv of WorkflowExecutionProofs and on one lemma about steps:  *)
(* a step announces one change of one run, or says nothing.                *)
(***************************************************************************)
EXTENDS WorkflowExecutionProofs

-----------------------------------------------------------------------------
(* What a step does to the runs and the log.                               *)

\* Run r moves from status to status, up in rank, and its event is appended.
Announces(r, action, status, conclusion) ==
    /\ Rank(workflowRuns[r].Status) < Rank(status) /\ Rank(action) = Rank(status)
    /\ workflowRuns[r].Status # "completed"
    /\ \A s \in Runs \ {r} : workflowRuns'[s] = workflowRuns[s]
    /\ workflowRuns'[r].Status = status /\ workflowRuns'[r].Conclusion = conclusion
    /\ pendingEvents' = Append(pendingEvents,
                               [run |-> r, action |-> action, conclusion |-> conclusion])

\* Nothing is announced: at most the cancellation intent of a live run is recorded.
Silent ==
    /\ UNCHANGED pendingEvents
    /\ \A r \in Runs : /\ workflowRuns'[r].Status = workflowRuns[r].Status
                       /\ workflowRuns'[r].Conclusion = workflowRuns[r].Conclusion
                       /\ workflowRuns[r].Status = "completed" => workflowRuns'[r] = workflowRuns[r]

LEMMA SetStatusAnnounces ==
    ASSUME TypeInv, NEW r \in Runs, NEW s \in {"in_progress", "completed"}, NEW c,
           workflowRuns[r].Status \in IF s = "completed" THEN {"queued", "in_progress"} ELSE {"queued"},
           SetStatus(r, s, c)
    PROVE  Announces(r, s, s, c)
<1>1. Rank("queued") = 1 /\ Rank("in_progress") = 2 /\ Rank("completed") = 3
  BY DEF Rank
<1>2. Rank(workflowRuns[r].Status) < Rank(s) /\ workflowRuns[r].Status # "completed"
  BY <1>1
<1>3. /\ \A t \in Runs \ {r} : workflowRuns'[t] = workflowRuns[t]
      /\ workflowRuns'[r].Status = s /\ workflowRuns'[r].Conclusion = c
  BY DEF SetStatus, TypeInv, TypeOK, WorkflowRun
<1>4. QED
  BY <1>2, <1>3 DEF Announces, SetStatus, appendWorkflowEvent

LEMMA StepAnnounces ==
    ASSUME IInv, Next
    PROVE  Silent \/ \E r \in Runs, a \in {"requested", "in_progress", "completed"},
                        s \in {"queued", "in_progress", "completed"}, c \in Outcomes :
                        Announces(r, a, s, c)
<1> DEFINE Loud == \E r \in Runs, a \in {"requested", "in_progress", "completed"},
                      s \in {"queued", "in_progress", "completed"}, c \in Outcomes :
                      Announces(r, a, s, c)
<1>1. ASSUME NEW r \in Runs, appendQueuedWorkflow(r) PROVE Loud
  <2>1. Rank("absent") = 0 /\ Rank("queued") = 1 /\ Rank("requested") = 1
    BY DEF Rank
  <2>2. Announces(r, "requested", "queued", NoConclusion)
    <3>1. /\ workflowRuns[r].Status = "absent"
          /\ \A s \in Runs \ {r} : workflowRuns'[s] = workflowRuns[s]
          /\ workflowRuns'[r].Status = "queued" /\ workflowRuns'[r].Conclusion = NoConclusion
      BY <1>1 DEF appendQueuedWorkflow, Exists, IInv, TypeInv, TypeOK
    <3>2. QED
      BY <1>1, <2>1, <3>1 DEF appendQueuedWorkflow, appendWorkflowEvent, Announces
  <2>3. QED
    BY <2>2 DEF Outcomes, NoConclusion
<1>2. ASSUME NEW r \in Runs, ScriptInProgress(r) PROVE Loud
  <2>1. Announces(r, "in_progress", "in_progress", NoConclusion)
    BY <1>2, SetStatusAnnounces DEF ScriptInProgress, IInv
  <2>2. QED
    BY <2>1 DEF Outcomes, NoConclusion
<1>3. ASSUME NEW r \in Runs, NEW c \in Conclusions, ScriptCompleted(r, c) PROVE Loud
  <2>1. Announces(r, "completed", "completed", c)
    BY <1>3, SetStatusAnnounces DEF ScriptCompleted, IInv
  <2>2. QED
    BY <2>1 DEF Outcomes, NoConclusion
<1>4. ASSUME NEW h \in Handlers, LeaveUnstarted(h) PROVE Loud
  <2>1. /\ workflowRuns[target[h]].Status = "queued" /\ target[h] \in Runs
        /\ SetStatus(target[h], "completed", "cancelled")
    BY <1>4 DEF IInv, TypeInv, Targeted, ClaimFreezesStatus, LeaveUnstarted, Goto
  <2>2. Announces(target[h], "completed", "completed", "cancelled")
    BY <2>1, SetStatusAnnounces DEF IInv
  <2>3. QED
    BY <2>1, <2>2 DEF Outcomes, NoConclusion
<1>5. ASSUME NEW h \in Handlers, StartRunner(h) PROVE Loud
  <2>1. target[h] \in Runs /\ workflowRuns[target[h]].Conclusion \in Outcomes
    BY <1>5 DEF IInv, TypeInv, TypeOK, Targeted, StartRunner, Goto, WorkflowRun
  <2>2. Announces(target[h], "in_progress", "in_progress", workflowRuns[target[h]].Conclusion)
    BY <1>5, <2>1, SetStatusAnnounces DEF IInv, StartRunner, MayStart
  <2>3. QED
    BY <2>1, <2>2
<1>6. ASSUME NEW h \in Handlers, ConcludeRun(h) PROVE Loud
  <2> DEFINE c == Conclude(activeRuns[target[h]].cancellationSignalled, proc[h].exit)
  <2>1. target[h] \in Runs /\ workflowRuns[target[h]].Status = "in_progress"
    BY <1>6 DEF IInv, TypeInv, Targeted, ConcludeRun, Goto, ClaimFreezesStatus
  <2>2. Announces(target[h], "completed", "completed", c)
    BY <1>6, <2>1, SetStatusAnnounces DEF IInv, ConcludeRun
  <2>3. c \in Outcomes
    BY DEF Conclude, Outcomes, NoConclusion
  <2>4. QED
    BY <2>1, <2>2, <2>3
<1>7. ASSUME NEW r \in Runs, CancelRun(r) PROVE Silent
  BY <1>7 DEF CancelRun, Cancellable, Silent, IInv, TypeInv, TypeOK, WorkflowRun
<1>8. ASSUME UNCHANGED <<workflowRuns, pendingEvents>> PROVE Silent
  BY <1>8 DEF Silent
<1>9. QED
  <2>1. ASSUME NEW r \in Runs, RunStep(r) PROVE Silent \/ Loud
    BY <1>1, <1>2, <1>3, <1>7, <1>8, <2>1 DEF RunStep, ClaimRun, RefuseClaim
  <2>2. ASSUME NEW h \in Handlers, HandlerStep(h) \/ ProcessExits(h) PROVE Silent \/ Loud
    BY <1>4, <1>5, <1>6, <1>8, <2>2 DEF HandlerStep, FinishSetup, FailSetup, ReleaseClaim,
       FailStart, WaitReturns, CleanupContainers, ProcessExits
  <2> HIDE DEF Loud
  <2>3. Silent \/ Loud
    BY <2>1, <2>2 DEF Next
  <2>4. QED
    BY <2>3 DEF Loud

\* A completed run is never touched again.
THEOREM CompletedRunsAreFinal == Spec => CompletedIsFinal
<1>1. IInv /\ [Next]_vars => [\A r \in Runs : workflowRuns[r].Status = "completed" =>
                                  workflowRuns'[r] = workflowRuns[r]]_vars
  <2>1. ASSUME IInv, Next, NEW r \in Runs, workflowRuns[r].Status = "completed"
        PROVE  workflowRuns'[r] = workflowRuns[r]
    BY <2>1, StepAnnounces DEF Silent, Announces
  <2>2. QED
    BY <2>1
<1>2. QED
  BY <1>1, InvariantHolds, PTL DEF Spec, CompletedIsFinal

-----------------------------------------------------------------------------
(* The webhook log.                                                        *)

LogInv == StatusIsAnnounced /\ EventsInOrder

LEMMA RankNat == \A s : Rank(s) \in 0..3
BY DEF Rank

LEMMA SilentKeepsLog == ASSUME LogInv, TypeInv, Silent PROVE LogInv'
BY DEF LogInv, StatusIsAnnounced, EventsInOrder, Silent, Exists

LEMMA AnnounceKeepsLog ==
    ASSUME LogInv, TypeInv, NEW r \in Runs, NEW a \in {"requested", "in_progress", "completed"},
           NEW s \in {"queued", "in_progress", "completed"}, NEW c \in Outcomes,
           Announces(r, a, s, c)
    PROVE  LogInv'
<1> DEFINE e == [run |-> r, action |-> a, conclusion |-> c]
           n == Len(pendingEvents)
<1>1. /\ n \in Nat /\ DOMAIN pendingEvents = 1..n
      /\ DOMAIN pendingEvents' = 1..(n + 1)
      /\ \A i \in 1..n : pendingEvents'[i] = pendingEvents[i]
      /\ pendingEvents'[n + 1] = e
  <2>1. e \in Event /\ pendingEvents \in Seq(Event) /\ pendingEvents' = Append(pendingEvents, e)
    BY DEF Event, TypeInv, TypeOK, Announces
  <2> HIDE DEF e
  <2>2. QED
    BY <2>1, AppendProperties, LenProperties
<1>2. e.run = r /\ e.action = a /\ e.conclusion = c
  OBVIOUS
<1> HIDE DEF e, n
<1>3. StatusIsAnnounced'
  <2>1. ASSUME NEW t \in Runs, NEW i \in DOMAIN pendingEvents', pendingEvents'[i].run = t
        PROVE  Rank(pendingEvents'[i].action) <= Rank(workflowRuns'[t].Status)
    BY <1>1, <1>2, <2>1, RankNat DEF LogInv, StatusIsAnnounced, Announces
  <2>2. ASSUME NEW t \in Runs, workflowRuns'[t].Status # "absent"
        PROVE  \E i \in DOMAIN pendingEvents' :
                   /\ pendingEvents'[i].run = t
                   /\ Rank(pendingEvents'[i].action) = Rank(workflowRuns'[t].Status)
                   /\ pendingEvents'[i].conclusion = workflowRuns'[t].Conclusion
    <3>1. CASE t = r
      BY <1>1, <1>2, <3>1 DEF Announces
    <3>2. CASE t # r
      BY <1>1, <2>2, <3>2 DEF LogInv, StatusIsAnnounced, Announces, Exists
    <3>3. QED
      BY <3>1, <3>2
  <2>3. QED
    BY <2>1, <2>2 DEF StatusIsAnnounced, Exists
<1>4. EventsInOrder'
  <2>1. SUFFICES ASSUME NEW i \in DOMAIN pendingEvents', NEW j \in DOMAIN pendingEvents',
                        i < j, pendingEvents'[i].run = pendingEvents'[j].run
                 PROVE  Rank(pendingEvents'[i].action) < Rank(pendingEvents'[j].action)
    BY DEF EventsInOrder
  <2>2. i \in 1..n
    BY <1>1, <2>1
  <2>3. CASE j \in 1..n
    BY <1>1, <2>1, <2>2, <2>3 DEF LogInv, EventsInOrder
  <2>4. CASE j = n + 1
    BY <1>1, <1>2, <2>1, <2>2, <2>4, RankNat DEF LogInv, StatusIsAnnounced, Announces
  <2>5. QED
    BY <1>1, <2>3, <2>4
<1>5. QED
  BY <1>3, <1>4 DEF LogInv

LEMMA LogInit == Init => LogInv
<1>1. ASSUME Init PROVE DOMAIN pendingEvents = {} /\ \A r \in Runs : ~Exists(r)
  BY <1>1 DEF Init, Exists
<1>2. QED
  BY <1>1 DEF LogInv, StatusIsAnnounced, EventsInOrder

LEMMA LogStep == IInv /\ LogInv /\ [Next]_vars => LogInv'
<1>1. CASE UNCHANGED vars
  BY <1>1 DEF vars, LogInv, StatusIsAnnounced, EventsInOrder, Exists
<1>2. ASSUME IInv, LogInv, Next PROVE LogInv'
  BY <1>2, StepAnnounces, SilentKeepsLog, AnnounceKeepsLog DEF IInv
<1>3. QED
  BY <1>1, <1>2

LEMMA LogInvariant == Spec => []LogInv
BY LogInit, LogStep, InvariantHolds, PTL DEF Spec

\* The events of a run appear in the order of its life, each at most once.
THEOREM LogInOrder == Spec => []EventsInOrder
<1>1. LogInv => EventsInOrder
  BY DEF LogInv
<1>2. QED
  BY <1>1, LogInvariant, PTL

\* The webhook log and the authoritative runs agree.
THEOREM LogAgrees == Spec => []StatusIsAnnounced
<1>1. LogInv => StatusIsAnnounced
  BY DEF LogInv
<1>2. QED
  BY <1>1, LogInvariant, PTL

-----------------------------------------------------------------------------
(* Refinement: the non-temporal steps and the theorem.                     *)

\* Only a completed run has a conclusion.
FreshInv == \A r \in Runs :
    workflowRuns[r].Status # "completed" => workflowRuns[r].Conclusion = NoConclusion

LEMMA FreshInit == Init => FreshInv
BY DEF Init, FreshInv

LEMMA FreshStep == IInv /\ FreshInv /\ [Next]_vars => FreshInv'
<1>1. SUFFICES ASSUME IInv, FreshInv, [Next]_vars, NEW r \in Runs,
                      workflowRuns'[r].Status # "completed"
               PROVE  workflowRuns'[r].Conclusion = NoConclusion
  BY DEF FreshInv
<1>2. CASE UNCHANGED vars
  BY <1>1, <1>2 DEF vars, FreshInv
<1>3. ASSUME NEW q \in Runs, RunStep(q) PROVE workflowRuns'[r].Conclusion = NoConclusion
  <2> USE <1>1 DEF IInv, TypeInv, TypeOK, WorkflowRun, FreshInv
  <2>1. CASE appendQueuedWorkflow(q)
    BY <2>1 DEF appendQueuedWorkflow
  <2>2. CASE ScriptInProgress(q) \/ \E c \in Conclusions : ScriptCompleted(q, c)
    BY <2>2 DEF ScriptInProgress, ScriptCompleted, SetStatus
  <2>3. CASE CancelRun(q)
    BY <2>3 DEF CancelRun
  <2>4. CASE UNCHANGED workflowRuns
    BY <2>4
  <2>5. QED
    BY <1>3, <2>1, <2>2, <2>3, <2>4 DEF RunStep, ClaimRun, RefuseClaim
<1>4. ASSUME NEW h \in Handlers, HandlerStep(h) \/ ProcessExits(h)
      PROVE  workflowRuns'[r].Conclusion = NoConclusion
  <2> USE <1>1 DEF IInv, TypeInv, TypeOK, WorkflowRun, FreshInv, SetStatus
  <2>1. CASE LeaveUnstarted(h)
    <3>1. \/ UNCHANGED workflowRuns
          \/ workflowRuns' = [workflowRuns EXCEPT ![target[h]].Status = "completed",
                                                 ![target[h]].Conclusion = "cancelled"]
      BY <2>1 DEF LeaveUnstarted
    <3>2. QED
      BY <3>1
  <2>2. CASE StartRunner(h)
    BY <2>2 DEF StartRunner, MayStart
  <2>3. CASE ConcludeRun(h)
    BY <2>3 DEF ConcludeRun
  <2>4. CASE UNCHANGED workflowRuns
    BY <2>4
  <2>5. QED
    BY <1>4, <2>1, <2>2, <2>3, <2>4 DEF HandlerStep, FinishSetup, FailSetup, ReleaseClaim,
       FailStart, WaitReturns, CleanupContainers, ProcessExits
<1>5. QED
  BY <1>1, <1>2, <1>3, <1>4 DEF Next

LEMMA FreshInvariant == Spec => []FreshInv
BY FreshInit, FreshStep, InvariantHolds, PTL DEF Spec

LEMMA InitRefines == Init => Lifecycle!Init
<1> SUFFICES ASSUME Init PROVE Lifecycle!Init
  OBVIOUS
<1>1. Executed = {}
  BY DEF Init, Executed, NoProcess
<1>2. QED
  BY <1>1 DEF Init, Lifecycle!Init, Lifecycle!Absent, NoConclusion

LEMMA ExecutedFrame ==
    ASSUME \A h \in Handlers : /\ proc'[h].state = "none" <=> proc[h].state = "none"
                               /\ proc[h].state # "none" => target'[h] = target[h]
    PROVE  Executed' = Executed
BY DEF Executed

\* A run that was given to a runner is held by its handler until it is over.
LEMMA ExecutedIsHeld ==
    ASSUME IInv, NEW r \in Executed, r \in Runs, workflowRuns[r].Status # "completed"
    PROVE  activeRuns[r].claimed /\ workflowRuns[r].Status = "in_progress"
<1>1. PICK h \in Handlers : proc[h].state # "none" /\ target[h] = r
  BY DEF Executed
<1>2. pc[h] \in {"running", "waited"}
  BY <1>1 DEF IInv, TypeInv, TypeOK, Stages, HandlerInv
<1>3. Holds(h, r) /\ workflowRuns[r].Status = "in_progress"
  BY <1>1, <1>2 DEF Holds, IInv, ClaimFreezesStatus
<1>4. QED
  BY <1>3 DEF IInv, ClaimHeldByOne

\* A run that its handler waits for was given to a runner.
LEMMA WaitedIsExecuted ==
    ASSUME IInv, NEW h \in Handlers, pc[h] \in {"running", "waited"}
    PROVE  target[h] \in Executed
BY DEF IInv, HandlerInv, Executed

Refines == Lifecycle!Next \/ UNCHANGED Lifecycle!vars

LEMMA SetStatusMoves ==
    ASSUME NEW r, NEW s, NEW c, SetStatus(r, s, c)
    PROVE  Lifecycle!Move(r, s, c)
BY DEF SetStatus, appendWorkflowEvent, Lifecycle!Move

LEMMA RunStepRefines == ASSUME IInv, NEW r \in Runs, RunStep(r) PROVE Refines
<1>0. ASSUME UNCHANGED <<proc, target>> PROVE Executed' = Executed
  BY <1>0, ExecutedFrame
<1>1. CASE appendQueuedWorkflow(r)
  <2>1. Lifecycle!Request(r)
    BY <1>0, <1>1 DEF appendQueuedWorkflow, appendWorkflowEvent, Exists, Lifecycle!Request,
       Lifecycle!Absent, NoConclusion
  <2>2. QED
    BY <2>1 DEF Refines, Lifecycle!Next
<1>2. CASE ScriptInProgress(r)
  <2>1. r \notin Executed
    BY <1>2, ExecutedIsHeld DEF ScriptInProgress, Scriptable
  <2>2. Lifecycle!Script(r)
    BY <1>0, <1>2, <2>1, SetStatusMoves DEF ScriptInProgress, Lifecycle!Script, NoConclusion
  <2>3. QED
    BY <2>2 DEF Refines, Lifecycle!Next
<1>3. ASSUME NEW c \in Conclusions, ScriptCompleted(r, c) PROVE Refines
  <2>1. r \notin Executed
    BY <1>3, ExecutedIsHeld DEF ScriptCompleted, Scriptable
  <2>2. Lifecycle!Script(r)
    BY <1>0, <1>3, <2>1, SetStatusMoves DEF ScriptCompleted, Lifecycle!Script
  <2>3. QED
    BY <2>2 DEF Refines, Lifecycle!Next
<1>4. CASE CancelRun(r)
  <2>1. workflowRuns[r].Status \in {"queued", "in_progress"}
    BY <1>4 DEF CancelRun, Cancellable, Exists, IInv, TypeInv, TypeOK, WorkflowRun, Statuses
  <2>2. Executed' = Executed
    <3>1. \A h \in Handlers : proc'[h].state = proc[h].state
      <4> DEFINE c == activeRuns[r].command
      <4>1. proc' = proc \/ proc' = [proc EXCEPT ![c] = [proc[c] EXCEPT !.interrupted = TRUE]]
        BY <1>4 DEF CancelRun
      <4>2. \A h \in Handlers : [proc[h] EXCEPT !.interrupted = TRUE].state = proc[h].state
        BY DEF IInv, TypeInv, TypeOK, Process
      <4> HIDE DEF c
      <4>3. QED
        BY <4>1, <4>2 DEF IInv, TypeInv, TypeOK
    <3>2. QED
      BY <1>4, <3>1, ExecutedFrame DEF CancelRun
  <2>3. Lifecycle!Cancel(r)
    BY <1>4, <2>1, <2>2 DEF CancelRun, Lifecycle!Cancel
  <2>4. QED
    BY <2>3 DEF Refines, Lifecycle!Next
<1>5. ASSUME NEW h \in Handlers, ClaimRun(h, r) \/ RefuseClaim(h, r) PROVE Refines
  <2>1. proc[h].state = "none" /\ \A g \in Handlers \ {h} : target'[g] = target[g]
    BY <1>5 DEF ClaimRun, RefuseClaim, Goto, IInv, HandlerInv, TypeInv, TypeOK
  <2>2. Executed' = Executed
    BY <1>5, <2>1, ExecutedFrame DEF ClaimRun, RefuseClaim
  <2>3. QED
    BY <1>5, <2>2 DEF ClaimRun, RefuseClaim, Refines, Lifecycle!vars
<1>6. QED
  BY <1>1, <1>2, <1>3, <1>4, <1>5 DEF RunStep

LEMMA HandlerStepRefines ==
    ASSUME IInv, FreshInv, NEW h \in Handlers, HandlerStep(h) \/ ProcessExits(h)
    PROVE  Refines
<1> DEFINE r == target[h]
<1>1. CASE LeaveUnstarted(h)
  <2>1. r \in Runs /\ workflowRuns[r].Status = "queued" /\ workflowRuns[r].CancellationRequested
    BY <1>1 DEF IInv, TypeInv, Targeted, ClaimFreezesStatus, LeaveUnstarted, MayStart, Goto
  <2>2. r \notin Executed
    BY <2>1, ExecutedIsHeld
  <2>3. Executed' = Executed /\ Lifecycle!Move(r, "completed", "cancelled")
    BY <1>1, <2>1, ExecutedFrame, SetStatusMoves DEF LeaveUnstarted
  <2>4. Lifecycle!Finish(r)
    BY <2>1, <2>2, <2>3 DEF Lifecycle!Finish
  <2>5. QED
    BY <2>1, <2>4 DEF Refines, Lifecycle!Next
<1>2. CASE StartRunner(h)
  <2>1. /\ r \in Runs /\ workflowRuns[r].Status = "queued"
        /\ ~workflowRuns[r].CancellationRequested /\ workflowRuns[r].Conclusion = NoConclusion
    BY <1>2 DEF IInv, TypeInv, Targeted, StartRunner, MayStart, Goto, FreshInv
  <2>2. Lifecycle!Move(r, "in_progress", "none")
    BY <1>2, <2>1, SetStatusMoves DEF StartRunner, NoConclusion
  <2>3. Executed' = Executed \cup {r}
    <3>1. /\ target' = target /\ proc'[h].state = "running"
          /\ \A g \in Handlers \ {h} : proc'[g] = proc[g]
          /\ proc[h].state = "none"
      BY <1>2 DEF StartRunner, Goto, IInv, HandlerInv, TypeInv, TypeOK, Process
    <3>2. QED
      BY <3>1 DEF Executed
  <2>4. Lifecycle!Execute(r)
    BY <2>1, <2>2, <2>3 DEF Lifecycle!Execute
  <2>5. QED
    BY <2>1, <2>4 DEF Refines, Lifecycle!Next
<1>3. CASE ConcludeRun(h)
  <2> DEFINE signalled == activeRuns[r].cancellationSignalled
             c == Conclude(signalled, proc[h].exit)
  <2>1. pc[h] = "waited" /\ r \in Runs /\ workflowRuns[r].Status = "in_progress" /\ r \in Executed
    BY <1>3, WaitedIsExecuted DEF IInv, TypeInv, Targeted, ConcludeRun, Goto, ClaimFreezesStatus
  <2>2. Executed' = Executed /\ Lifecycle!Move(r, "completed", c)
    BY <1>3, ExecutedFrame, SetStatusMoves DEF ConcludeRun
  <2>3. c \in {"success", "failure"} \/ (c = "cancelled" /\ workflowRuns[r].CancellationRequested)
    BY <2>1 DEF Conclude, IInv, SignalInv
  <2>4. Lifecycle!Finish(r)
    BY <2>1, <2>2, <2>3 DEF Lifecycle!Finish
  <2>5. QED
    BY <2>1, <2>4 DEF Refines, Lifecycle!Next
<1>4. CASE WaitReturns(h)
  <2>1. \A g \in Handlers : proc'[g].state = "none" <=> proc[g].state = "none"
    BY <1>4 DEF WaitReturns, IInv, TypeInv, TypeOK, Process
  <2>2. QED
    BY <1>4, <2>1, ExecutedFrame DEF WaitReturns, Refines, Lifecycle!vars
<1>5. CASE ProcessExits(h)
  <2>1. \A g \in Handlers : proc'[g].state = "none" <=> proc[g].state = "none"
    BY <1>5 DEF ProcessExits, IInv, TypeInv, TypeOK, Process
  <2>2. QED
    BY <1>5, <2>1, ExecutedFrame DEF ProcessExits, Refines, Lifecycle!vars
<1>6. CASE UNCHANGED <<workflowRuns, pendingEvents, target, proc>>
  BY <1>6, ExecutedFrame DEF Refines, Lifecycle!vars
<1>7. QED
  BY <1>1, <1>2, <1>3, <1>4, <1>5, <1>6 DEF HandlerStep, FinishSetup, FailSetup, ReleaseClaim,
     FailStart, CleanupContainers

LEMMA StepRefines == ASSUME IInv, FreshInv, [Next]_vars PROVE Refines
<1>1. CASE Next
  BY <1>1, RunStepRefines, HandlerStepRefines DEF Next
<1>2. CASE UNCHANGED vars
  BY <1>2, ExecutedFrame DEF vars, Refines, Lifecycle!vars
<1>3. QED
  BY <1>1, <1>2

\* Handlers, claims, locks and processes together do only what WorkflowLifecycle promises.
THEOREM ExecutionImplementsLifecycle == Spec => ImplementsLifecycle
<1>1. IInv /\ FreshInv /\ [Next]_vars => [Lifecycle!Next]_(Lifecycle!vars)
  BY StepRefines DEF Refines
<1>2. QED
  BY <1>1, InitRefines, InvariantHolds, FreshInvariant, PTL
     DEF Spec, ImplementsLifecycle, Lifecycle!Spec
=============================================================================
