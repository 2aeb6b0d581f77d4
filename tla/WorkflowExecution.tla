-------------------------- MODULE WorkflowExecution --------------------------
(***************************************************************************)
(* The workflow runs of the DTU GitHub server and everything that moves    *)
(* them: a push that requests a run, the control handler that claims a run *)
(* and executes it with an `act` process (dtu/execution.go), the control   *)
(* handler that scripts a transition (dtu/delivery.go), and the public     *)
(* handler that cancels a run (dtu/public.go).                             *)
(*                                                                         *)
(* Handlers are goroutines.  Each action is what one of them does between  *)
(* taking and releasing world.mu, or one stretch of work without it.  The  *)
(* identifiers, names and logs of a run, the counter `mutations` (which    *)
(* only getState reads) and the HTTP status lines are left out.            *)
(***************************************************************************)
EXTENDS Naturals, Sequences

CONSTANTS
    Runs,          \* identifiers a run may be given
    Handlers,      \* execute requests the control server serves, one goroutine each
    NoRun,         \* a handler whose request has not arrived yet
    NoHandler,     \* a nil command
    Conclusions    \* conclusions that a scripted transition may ask for

ASSUME NoRunAssumption == NoRun \notin Runs
ASSUME NoHandlerAssumption == NoHandler \notin Handlers
ASSUME ConclusionsAssumption == "none" \notin Conclusions

VARIABLES
    workflowRuns,   \* world.workflowRuns: run -> status, conclusion, cancellation intent
    activeRuns,     \* world.activeRuns: run -> claim, with the command once started
    pendingEvents,  \* the workflow_run entries of world.pendingEvents
    pc,             \* where the handler of an execute request is
    target,         \* the run named by an execute request
    proc            \* the act process of an execute request

vars == <<workflowRuns, activeRuns, pendingEvents, pc, target, proc>>

-----------------------------------------------------------------------------
(* Types *)

NoConclusion == "none"   \* the empty string

Statuses == {"absent", "queued", "in_progress", "completed"}

Outcomes == {NoConclusion, "success", "failure", "cancelled"} \cup Conclusions

WorkflowRun == [Status : Statuses, Conclusion : Outcomes, CancellationRequested : BOOLEAN]

\* A missing key of the map reads as the zero value, so it is the entry that is not claimed.
ActiveRun == [claimed : BOOLEAN, command : Handlers \cup {NoHandler},
              cancellationSignalled : BOOLEAN]

NoClaim == [claimed |-> FALSE, command |-> NoHandler, cancellationSignalled |-> FALSE]

Event == [run : Runs, action : {"requested", "in_progress", "completed"}, conclusion : Outcomes]

\* What the operating system knows of an act process; "zombie" has exited and is not yet
\* waited for, and interrupted says that a signal was accepted for it.
Process == [state : {"none", "running", "zombie", "reaped"},
            exit : {"none", "zero", "nonzero"}, interrupted : BOOLEAN]

NoProcess == [state |-> "none", exit |-> "none", interrupted |-> FALSE]

\* refused is a 404 or 409 answer, failed a 5xx one, succeeded a 200 with the run.
Stages == {"idle", "setup", "ready", "releasing", "running", "waited", "cleanup",
           "refused", "failed", "succeeded"}

TypeOK ==
    /\ workflowRuns \in [Runs -> WorkflowRun]
    /\ activeRuns \in [Runs -> ActiveRun]
    /\ pendingEvents \in Seq(Event)
    /\ pc \in [Handlers -> Stages]
    /\ target \in [Handlers -> Runs \cup {NoRun}]
    /\ proc \in [Handlers -> Process]

-----------------------------------------------------------------------------
(* Helpers *)

Exists(r) == workflowRuns[r].Status # "absent"

Ended(h) == pc[h] \in {"refused", "failed", "succeeded"}

appendWorkflowEvent(r, action, conclusion) ==
    pendingEvents' = Append(pendingEvents,
                            [run |-> r, action |-> action, conclusion |-> conclusion])

\* The run's status, conclusion and event change together, under world.mu.
SetStatus(r, status, conclusion) ==
    /\ workflowRuns' = [workflowRuns EXCEPT ![r].Status = status, ![r].Conclusion = conclusion]
    /\ appendWorkflowEvent(r, status, conclusion)

DeleteActive(r) == activeRuns' = [activeRuns EXCEPT ![r] = NoClaim]

Goto(h, from, to) == pc[h] = from /\ pc' = [pc EXCEPT ![h] = to]

\* Faulty variant: a cancellation is recorded and no signal sent.
SignalNeverSent(h) == {FALSE}

\* Process.Signal: a process that was waited for is refused; one that exited and was not
\* is refused or not, depending on the platform.
SignalAccepted(h) ==
    CASE proc[h].state = "running" -> {TRUE}
      [] proc[h].state = "zombie"  -> {TRUE, FALSE}
      [] OTHER                     -> {FALSE}

\* Faulty variants: success does not win over a cancellation; an unknown conclusion.
ConcludeCancelledFirst(signalled, exit) ==
    IF signalled THEN "cancelled" ELSE IF exit = "zero" THEN "success" ELSE "failure"

ConcludeUnknown(signalled, exit) ==
    IF signalled /\ exit = "nonzero" THEN "cancelled"
    ELSE IF exit = "zero" THEN "success" ELSE "error"

\* What a terminated process makes of its run.
Conclude(signalled, exit) ==
    IF signalled /\ exit = "nonzero" THEN "cancelled"
    ELSE IF exit = "zero" THEN "success" ELSE "failure"

-----------------------------------------------------------------------------
(* A push to the configured release ref requests a run.                    *)

appendQueuedWorkflow(r) ==
    /\ ~Exists(r)
    /\ workflowRuns' = [workflowRuns EXCEPT ![r] =
           [Status |-> "queued", Conclusion |-> NoConclusion, CancellationRequested |-> FALSE]]
    /\ appendWorkflowEvent(r, "requested", NoConclusion)
    /\ UNCHANGED <<activeRuns, pc, target, proc>>

-----------------------------------------------------------------------------
(* executeWorkflowRun: the handler of POST /workflow-runs/execute.         *)

\* The claim: the run must exist, be queued and not be claimed.  A run was requested by a
\* push to a configured repository and neither map ever loses an entry, so the third check
\* of the code, on the repository and its workflow, never refuses.
Claimable(r) == Exists(r) /\ workflowRuns[r].Status = "queued" /\ ~activeRuns[r].claimed

ClaimRun(h, r) ==
    /\ Claimable(r)
    /\ Goto(h, "idle", "setup")
    /\ target' = [target EXCEPT ![h] = r]
    /\ activeRuns' = [activeRuns EXCEPT ![r] = [NoClaim EXCEPT !.claimed = TRUE]]
    /\ UNCHANGED <<workflowRuns, pendingEvents, proc>>

RefuseClaim(h, r) ==
    /\ ~Claimable(r)
    /\ Goto(h, "idle", "refused")
    /\ target' = [target EXCEPT ![h] = r]
    /\ UNCHANGED <<workflowRuns, activeRuns, pendingEvents, proc>>

\* Finding act, verifying the image, cloning and checking out, without the lock.
FinishSetup(h) ==
    /\ Goto(h, "setup", "ready")
    /\ UNCHANGED <<workflowRuns, activeRuns, pendingEvents, target, proc>>

FailSetup(h) ==
    /\ Goto(h, "setup", "releasing")
    /\ UNCHANGED <<workflowRuns, activeRuns, pendingEvents, target, proc>>

\* Faulty variant: an error path that keeps the claim.
ReleaseNothing(h) ==
    /\ Goto(h, "releasing", "failed")
    /\ UNCHANGED <<workflowRuns, activeRuns, pendingEvents, target, proc>>

\* The deferred release, after an error in the setup.
ReleaseClaim(h) ==
    /\ Goto(h, "releasing", "failed")
    /\ DeleteActive(target[h])
    /\ UNCHANGED <<workflowRuns, pendingEvents, target, proc>>

\* The second critical section reads the run again and decides.
\* Faulty variant: the runner starts without a look at the cancellation intent.
MayStartWithoutIntent(r) == workflowRuns[r].Status = "queued"

MayStart(r) == workflowRuns[r].Status = "queued" /\ ~workflowRuns[r].CancellationRequested

\* Faulty variant: the early conclusion is not announced.
LeaveUnannounced(h) ==
    /\ pc[h] = "ready"
    /\ ~MayStart(target[h])
    /\ workflowRuns' = [workflowRuns EXCEPT ![target[h]].Status = "completed",
                                           ![target[h]].Conclusion = "cancelled"]
    /\ pc' = [pc EXCEPT ![h] = "succeeded"]
    /\ DeleteActive(target[h])
    /\ UNCHANGED <<pendingEvents, target, proc>>

\* A run that is no longer queued is left alone; a cancelled one is concluded unstarted.
LeaveUnstarted(h) ==
    /\ pc[h] = "ready"
    /\ ~MayStart(target[h])
    /\ IF workflowRuns[target[h]].Status = "queued"
       THEN Goto(h, "ready", "succeeded") /\ SetStatus(target[h], "completed", "cancelled")
       ELSE Goto(h, "ready", "refused") /\ UNCHANGED <<workflowRuns, pendingEvents>>
    /\ DeleteActive(target[h])
    /\ UNCHANGED <<target, proc>>

\* Faulty variant: a runner that cannot start cancels its run.
FailStartCancelling(h) ==
    /\ Goto(h, "ready", "failed")
    /\ MayStart(target[h])
    /\ SetStatus(target[h], "completed", "cancelled")
    /\ DeleteActive(target[h])
    /\ UNCHANGED <<target, proc>>

FailStart(h) ==
    /\ Goto(h, "ready", "failed")
    /\ MayStart(target[h])
    /\ DeleteActive(target[h])
    /\ UNCHANGED <<workflowRuns, pendingEvents, target, proc>>

StartRunner(h) ==
    /\ Goto(h, "ready", "running")
    /\ MayStart(target[h])
    /\ proc' = [proc EXCEPT ![h].state = "running"]
    /\ SetStatus(target[h], "in_progress", workflowRuns[target[h]].Conclusion)
    /\ activeRuns' = [activeRuns EXCEPT ![target[h]] = [@ EXCEPT !.command = h]]
    /\ UNCHANGED target

\* command.Wait returns: the process has exited and is reaped.
WaitReturns(h) ==
    /\ proc[h].state = "zombie"
    /\ Goto(h, "running", "waited")
    /\ proc' = [proc EXCEPT ![h].state = "reaped"]
    /\ UNCHANGED <<workflowRuns, activeRuns, pendingEvents, target>>

\* Faulty variant: a failed run goes back to the queue for another attempt.
ConcludeRequeueing(h) ==
    LET r == target[h] IN
    /\ Goto(h, "waited", "succeeded")
    /\ IF proc[h].exit = "zero"
       THEN SetStatus(r, "completed", "success")
       ELSE SetStatus(r, "queued", NoConclusion)
    /\ DeleteActive(r)
    /\ UNCHANGED <<target, proc>>

\* The third critical section concludes the run; a signalled one has its containers
\* removed afterwards, without the lock.
ConcludeRun(h) ==
    LET r == target[h]
        signalled == activeRuns[r].cancellationSignalled
    IN /\ Goto(h, "waited", IF signalled THEN "cleanup" ELSE "succeeded")
       /\ SetStatus(r, "completed", Conclude(signalled, proc[h].exit))
       /\ DeleteActive(r)
       /\ UNCHANGED <<target, proc>>

CleanupContainers(h) ==
    /\ Goto(h, "cleanup", "succeeded")
    /\ UNCHANGED <<workflowRuns, activeRuns, pendingEvents, target, proc>>

\* act, by itself or after an interrupt, exits with some code.
ProcessExits(h) ==
    /\ proc[h].state = "running"
    /\ \E code \in {"zero", "nonzero"} :
          proc' = [proc EXCEPT ![h] = [@ EXCEPT !.state = "zombie", !.exit = code]]
    /\ UNCHANGED <<workflowRuns, activeRuns, pendingEvents, pc, target>>

-----------------------------------------------------------------------------
(* transitionWorkflowRun: a scripted transition, one critical section.     *)

\* Faulty variant: the script does not look at the claims.
ScriptableIgnoringClaim(r) == Exists(r)

Scriptable(r) == Exists(r) /\ ~activeRuns[r].claimed

ScriptInProgress(r) ==
    /\ Scriptable(r)
    /\ workflowRuns[r].Status = "queued"
    /\ SetStatus(r, "in_progress", NoConclusion)
    /\ UNCHANGED <<activeRuns, pc, target, proc>>

ScriptCompleted(r, conclusion) ==
    /\ Scriptable(r)
    /\ workflowRuns[r].Status \in {"queued", "in_progress"}
    /\ SetStatus(r, "completed", conclusion)
    /\ UNCHANGED <<activeRuns, pc, target, proc>>

-----------------------------------------------------------------------------
(* CancelWorkflowRunByID, for a caller that may see the run.               *)

\* Faulty variant: a completed run may be cancelled.
CancellableAlways(r) == Exists(r)

Cancellable(r) == Exists(r) /\ workflowRuns[r].Status # "completed"

CancelRun(r) ==
    LET h == activeRuns[r].command IN
    /\ Cancellable(r)
    /\ workflowRuns' = [workflowRuns EXCEPT ![r].CancellationRequested = TRUE]
    /\ \/ /\ h = NoHandler
          /\ UNCHANGED <<activeRuns, proc>>
       \/ /\ h # NoHandler
          /\ TRUE \in SignalAccepted(h)
          /\ activeRuns' = [activeRuns EXCEPT ![r] = [@ EXCEPT !.cancellationSignalled = TRUE]]
          /\ proc' = [proc EXCEPT ![h] = [@ EXCEPT !.interrupted = TRUE]]
       \/ /\ h # NoHandler
          /\ FALSE \in SignalAccepted(h)
          /\ UNCHANGED <<activeRuns, proc>>
    /\ UNCHANGED <<pendingEvents, pc, target>>

-----------------------------------------------------------------------------
(* Specification *)

Init ==
    /\ workflowRuns = [r \in Runs |->
           [Status |-> "absent", Conclusion |-> NoConclusion, CancellationRequested |-> FALSE]]
    /\ activeRuns = [r \in Runs |-> NoClaim]
    /\ pendingEvents = <<>>
    /\ pc = [h \in Handlers |-> "idle"]
    /\ target = [h \in Handlers |-> NoRun]
    /\ proc = [h \in Handlers |-> NoProcess]

\* What the goroutine of an execute request does once its request has arrived.
HandlerStep(h) ==
    \/ FinishSetup(h) \/ FailSetup(h) \/ ReleaseClaim(h)
    \/ LeaveUnstarted(h) \/ FailStart(h) \/ StartRunner(h)
    \/ WaitReturns(h) \/ ConcludeRun(h) \/ CleanupContainers(h)

RunStep(r) ==
    \/ appendQueuedWorkflow(r)
    \/ ScriptInProgress(r)
    \/ \E c \in Conclusions : ScriptCompleted(r, c)
    \/ CancelRun(r)
    \/ \E h \in Handlers : ClaimRun(h, r) \/ RefuseClaim(h, r)

Next ==
    \/ \E r \in Runs : RunStep(r)
    \/ \E h \in Handlers : HandlerStep(h) \/ ProcessExits(h)

Spec == Init /\ [][Next]_vars

-----------------------------------------------------------------------------
(* Safety *)

\* The handler whose claim stands in activeRuns.
Holds(h, r) ==
    target[h] = r /\ pc[h] \in {"setup", "ready", "releasing", "running", "waited"}

\* A claim belongs to exactly one execute request, and no claim outlives its request: every
\* error path of executeWorkflowRun gives the claim back and none gives back another's.
ClaimHeldByOne ==
    \A r \in Runs :
        /\ activeRuns[r].claimed <=> \E h \in Handlers : Holds(h, r)
        /\ \A g, h \in Handlers : Holds(g, r) /\ Holds(h, r) => g = h

\* While a request holds a run nothing else moves it: what the handler read before it let
\* go of world.mu still holds when it comes back, at both of its later critical sections.
ClaimFreezesStatus ==
    \A h \in Handlers :
        /\ pc[h] \in {"setup", "ready", "releasing"} =>
               workflowRuns[target[h]].Status = "queued"
        /\ pc[h] \in {"running", "waited"} =>
               workflowRuns[target[h]].Status = "in_progress"

\* However many execute requests name a run, act is started for it at most once.
StartedOnce ==
    \A g, h \in Handlers :
        proc[g].state # "none" /\ proc[h].state # "none" /\ target[g] = target[h] => g = h

\* An accepted cancellation is never lost: whether it came during the setup, before or after
\* command.Start, a runner that is still running for a run with cancellation intent has
\* been interrupted, and its entry says so.
CancellationReachesRunner ==
    \A h \in Handlers :
        proc[h].state = "running" /\ workflowRuns[target[h]].CancellationRequested =>
            proc[h].interrupted /\ activeRuns[target[h]].cancellationSignalled

\* An execution ends cancelled only if cancellation was asked for, its interrupt was
\* delivered and act exited nonzero; success is what a zero exit gives, even after an
\* interrupt (docs/p1-cancellation-proof.md, 40-43).
ConclusionExplained ==
    \A h \in Handlers :
        LET run == workflowRuns[target[h]] IN
        proc[h].state = "reaped" /\ pc[h] \in {"cleanup", "succeeded"} =>
            /\ run.Status = "completed"
            /\ run.Conclusion = "cancelled" =>
                   run.CancellationRequested /\ proc[h].interrupted /\ proc[h].exit = "nonzero"
            /\ run.Conclusion = "success" <=> proc[h].exit = "zero"

Rank(status) ==
    CASE status = "requested"   -> 1
      [] status = "queued"      -> 1
      [] status = "in_progress" -> 2
      [] status = "completed"   -> 3
      [] OTHER                  -> 0

\* The webhook log tells each run's story in order and tells no chapter twice, although
\* handlers, scripts and cancellations interleave.
EventsInOrder ==
    \A i, j \in DOMAIN pendingEvents :
        i < j /\ pendingEvents[i].run = pendingEvents[j].run =>
            Rank(pendingEvents[i].action) < Rank(pendingEvents[j].action)

\* The log and the authoritative state agree: a run's status is the last one that was
\* announced, with the conclusion that was announced.
StatusIsAnnounced ==
    \A r \in Runs :
        /\ \A i \in DOMAIN pendingEvents : pendingEvents[i].run = r =>
               Rank(pendingEvents[i].action) <= Rank(workflowRuns[r].Status)
        /\ Exists(r) =>
               \E i \in DOMAIN pendingEvents :
                   /\ pendingEvents[i].run = r
                   /\ Rank(pendingEvents[i].action) = Rank(workflowRuns[r].Status)
                   /\ pendingEvents[i].conclusion = workflowRuns[r].Conclusion

-----------------------------------------------------------------------------
(* Action and liveness properties *)

\* Nothing touches a completed run again: not a cancellation, a script, a second execution
\* or the end of the first.
CompletedIsFinal ==
    [][\A r \in Runs :
          workflowRuns[r].Status = "completed" => workflowRuns'[r] = workflowRuns[r]]_vars

\* A cancellation that finds a started run ends it, however it races with the start and the
\* exit of act.
CancelledRunCompletes ==
    \A r \in Runs :
        (workflowRuns[r].CancellationRequested /\ activeRuns[r].command # NoHandler)
            ~> (workflowRuns[r].Status = "completed" /\ ~activeRuns[r].claimed)

-----------------------------------------------------------------------------
(* Refinement *)

Executed == {target[h] : h \in {g \in Handlers : proc[g].state # "none"}}

Lifecycle == INSTANCE WorkflowLifecycle
    WITH runs <- workflowRuns, log <- pendingEvents, executed <- Executed

\* What handlers, claims, locks and processes do amounts to the lifecycle promised to the
\* clients of the API.
ImplementsLifecycle == Lifecycle!Spec
=============================================================================
