--------------------------- MODULE InstanceShutdown ---------------------------
(***************************************************************************)
(* Start and Instance.Close (dtu/server.go), and Close against the execute *)
(* requests in flight: WorkflowExecution with the two HTTP servers that    *)
(* accept requests, the temporary data directory, and the goroutine that   *)
(* starts and closes the instance.                                         *)
(*                                                                         *)
(* Start prepares the directory, looks for git and opens the listeners,    *)
(* and undoes what it did when one of these fails.                         *)
(* Close interrupts the runners that it finds, shuts the public and then   *)
(* the control server down, which waits for the requests they accepted,    *)
(* and, if the context of the caller ends first, kills the runners that it *)
(* then finds and gives up waiting.  A goroutine whose server gave up on   *)
(* it goes on.  Pushes, scripts and cancellations take effect when they    *)
(* are accepted, but for the wait for world.mu: getState answers under its *)
(* read lock, so a client that does not read keeps out every writer, and   *)
(* with one of these in the queue every reader too, Close included.        *)
(* Containers are docker's and are left out.                               *)
(***************************************************************************)
EXTENDS WorkflowExecution

CONSTANT HasDeadline   \* whether the context given to Close ever ends

ASSUME HasDeadlineAssumption == HasDeadline \in BOOLEAN

VARIABLES
    accepted,        \* the execute requests that the control server has accepted
    publicServing,   \* the listener of the public server is open
    controlServing,  \* the listener of the control server is open
    dataDir,         \* the temporary data directory exists
    closePc,         \* where Start, and later Close, is
    doomed,          \* commands that stopActiveRuns has found and not yet signalled
    contextEnded,    \* the context given to Close has ended
    stateRequest     \* a GET of the state, which holds world.mu while its client reads

closeVars == <<accepted, publicServing, controlServing, dataDir, closePc, doomed, contextEnded,
               stateRequest>>

shutdownVars == <<vars, closeVars>>

\* closing waits for world.mu; closed is the return after every accepted request has ended,
\* abandoned the other one.
CloseStages == {"open", "closing", "interrupting", "public", "control", "killing", "closed",
                "abandoned"}

\* listening has the public listener only; failed is an error of Start.
StartStages == {"start", "prepared", "located", "listening", "failed"}

ShutdownTypeOK ==
    /\ TypeOK
    /\ accepted \in SUBSET Handlers
    /\ publicServing \in BOOLEAN
    /\ controlServing \in BOOLEAN
    /\ dataDir \in BOOLEAN
    /\ closePc \in StartStages \cup CloseStages
    /\ doomed \in SUBSET Handlers
    /\ contextEnded \in BOOLEAN
    /\ stateRequest \in {"none", "reading", "blocking", "answered"}

-----------------------------------------------------------------------------
(* Start *)

PrepareDirectory ==
    /\ closePc = "start"
    /\ closePc' = "prepared"
    /\ dataDir' = TRUE
    /\ UNCHANGED <<vars, accepted, publicServing, controlServing, doomed, contextEnded,
                   stateRequest>>

LocateGit ==
    /\ closePc = "prepared"
    /\ closePc' = "located"
    /\ UNCHANGED <<vars, accepted, publicServing, controlServing, dataDir, doomed, contextEnded,
                   stateRequest>>

ListenPublic ==
    /\ closePc = "located"
    /\ closePc' = "listening"
    /\ publicServing' = TRUE
    /\ UNCHANGED <<vars, accepted, controlServing, dataDir, doomed, contextEnded, stateRequest>>

\* The world is made and both servers begin to serve.
ListenControl ==
    /\ closePc = "listening"
    /\ closePc' = "open"
    /\ controlServing' = TRUE
    /\ UNCHANGED <<vars, accepted, publicServing, dataDir, doomed, contextEnded, stateRequest>>

\* Faulty variant: the public listener is left open.
FailStartListening ==
    /\ closePc \in {"start", "prepared", "located", "listening"}
    /\ closePc' = "failed"
    /\ dataDir' = FALSE
    /\ UNCHANGED <<vars, accepted, publicServing, controlServing, doomed, contextEnded,
                   stateRequest>>

\* The next stage fails; the deferred function removes the directory.
FailStartup ==
    /\ closePc \in {"start", "prepared", "located", "listening"}
    /\ closePc' = "failed"
    /\ dataDir' = FALSE
    /\ publicServing' = FALSE
    /\ UNCHANGED <<vars, accepted, controlServing, doomed, contextEnded, stateRequest>>

-----------------------------------------------------------------------------
(* The servers *)

\* sync.RWMutex: a reader keeps out writers, and a writer that waits keeps out readers.
MayWrite == stateRequest \notin {"reading", "blocking"}

MayRead == stateRequest # "blocking"

\* getState takes the read lock and begins to write its answer.
getState ==
    /\ controlServing
    /\ stateRequest = "none"
    /\ stateRequest' = "reading"
    /\ UNCHANGED <<vars, accepted, publicServing, controlServing, dataDir, closePc, doomed,
                   contextEnded>>

\* Some request, an execution or another one, waits in world.mu.Lock behind it.
QueueWriter ==
    /\ stateRequest = "reading"
    /\ publicServing \/ controlServing \/ \E h \in accepted : ~Ended(h)
    /\ stateRequest' = "blocking"
    /\ UNCHANGED <<vars, accepted, publicServing, controlServing, dataDir, closePc, doomed,
                   contextEnded>>

\* The client has read the answer or is gone.
AnswerState ==
    /\ stateRequest \in {"reading", "blocking"}
    /\ stateRequest' = "answered"
    /\ UNCHANGED <<vars, accepted, publicServing, controlServing, dataDir, closePc, doomed,
                   contextEnded>>

AcceptRequest(h) ==
    /\ controlServing
    /\ h \notin accepted
    /\ accepted' = accepted \cup {h}
    /\ UNCHANGED <<vars, publicServing, controlServing, dataDir, closePc, doomed, contextEnded,
                   stateRequest>>

\* The setup makes directories, the data directory too if Close has removed it by then.
ServeExecute(h) ==
    /\ pc[h] \in {"idle", "ready", "releasing", "waited"} => MayWrite
    /\ \/ h \in accepted /\ \E r \in Runs : ClaimRun(h, r) \/ RefuseClaim(h, r)
       \/ HandlerStep(h)
    /\ dataDir' \in IF pc[h] = "setup" THEN {dataDir, TRUE} ELSE {dataDir}
    /\ UNCHANGED <<accepted, publicServing, controlServing, closePc, doomed, contextEnded,
                   stateRequest>>

ServeControl(r) ==
    /\ controlServing
    /\ MayWrite
    /\ ScriptInProgress(r) \/ \E c \in Conclusions : ScriptCompleted(r, c)
    /\ UNCHANGED closeVars

ServePublic(r) ==
    /\ publicServing
    /\ closePc \notin StartStages
    /\ MayWrite
    /\ appendQueuedWorkflow(r) \/ CancelRun(r)
    /\ UNCHANGED closeVars

RunnerExits(h) == ProcessExits(h) /\ UNCHANGED closeVars

-----------------------------------------------------------------------------
(* Close *)

\* The snapshot of stopActiveRuns: a run that is claimed but not started has no command.
StartedCommands == {h \in Handlers : \E r \in Runs : activeRuns[r].command = h}

CallClose ==
    /\ closePc = "open"
    /\ closePc' = "closing"
    /\ UNCHANGED <<vars, accepted, publicServing, controlServing, dataDir, doomed, contextEnded,
                   stateRequest>>

\* stopActiveRuns(false) takes its snapshot under the read lock, for which no context counts.
BeginClose ==
    /\ closePc = "closing"
    /\ MayRead
    /\ closePc' = "interrupting"
    /\ doomed' = StartedCommands
    /\ UNCHANGED <<vars, accepted, publicServing, controlServing, dataDir, contextEnded,
                   stateRequest>>

\* Faulty variant: shutdown marks the entry like a cancellation does.
InterruptMarking(h) ==
    /\ closePc = "interrupting"
    /\ h \in doomed
    /\ doomed' = doomed \ {h}
    /\ proc' = [proc EXCEPT ![h] = [@ EXCEPT !.interrupted = TRUE]]
    /\ activeRuns' = [r \in Runs |-> IF activeRuns[r].command = h
                          THEN [activeRuns[r] EXCEPT !.cancellationSignalled = TRUE]
                          ELSE activeRuns[r]]
    /\ UNCHANGED <<workflowRuns, pendingEvents, pc, target,
                   accepted, publicServing, controlServing, dataDir, closePc, contextEnded,
                   stateRequest>>

\* stopActiveRuns(false) leaves the signal mark of the entry alone.  The step ends with the
\* docker commands that remove the containers of the run, for which no context counts either.
InterruptRunner(h) ==
    /\ closePc = "interrupting"
    /\ h \in doomed
    /\ doomed' = doomed \ {h}
    /\ \E ok \in SignalAccepted(h) :
          proc' = IF ok THEN [proc EXCEPT ![h] = [@ EXCEPT !.interrupted = TRUE]] ELSE proc
    /\ UNCHANGED <<workflowRuns, activeRuns, pendingEvents, pc, target,
                   accepted, publicServing, controlServing, dataDir, closePc, contextEnded,
                   stateRequest>>

\* publicServer.Shutdown: the listener closes at once.
ShutdownPublic ==
    /\ closePc = "interrupting"
    /\ doomed = {}
    /\ closePc' = "public"
    /\ publicServing' = FALSE
    /\ UNCHANGED <<vars, accepted, controlServing, dataDir, doomed, contextEnded, stateRequest>>

\* It returns, drained or because the context ended, and controlServer.Shutdown begins.
ShutdownControl ==
    /\ closePc = "public"
    /\ closePc' = "control"
    /\ controlServing' = FALSE
    /\ UNCHANGED <<vars, accepted, publicServing, dataDir, doomed, contextEnded, stateRequest>>

\* Faulty variant: the server waits for requests that started a runner, not for all.
DrainedOfRunners == MayWrite /\ \A h \in accepted : pc[h] \notin {"running", "waited"}

Drained == MayWrite /\ \A h \in accepted : Ended(h)

ReturnDrained ==
    /\ closePc = "control"
    /\ Drained
    /\ closePc' = "closed"
    /\ dataDir' = FALSE
    /\ UNCHANGED <<vars, accepted, publicServing, controlServing, doomed, contextEnded,
                   stateRequest>>

\* stopActiveRuns(true), after controlServer.Shutdown gave up: it polls, and may give up on
\* a server that has just drained.  Its snapshot waits for the read lock again.
BeginKilling ==
    /\ closePc = "control"
    /\ contextEnded
    /\ MayRead
    /\ closePc' = "killing"
    /\ doomed' = StartedCommands
    /\ UNCHANGED <<vars, accepted, publicServing, controlServing, dataDir, contextEnded,
                   stateRequest>>

\* A killed process exits nonzero; one that has exited is not affected.  Docker removes the
\* containers here too.
KillRunner(h) ==
    /\ closePc = "killing"
    /\ h \in doomed
    /\ doomed' = doomed \ {h}
    /\ proc' = IF proc[h].state = "running"
               THEN [proc EXCEPT ![h] = [state |-> "zombie", exit |-> "nonzero",
                                         interrupted |-> TRUE]]
               ELSE proc
    /\ UNCHANGED <<workflowRuns, activeRuns, pendingEvents, pc, target,
                   accepted, publicServing, controlServing, dataDir, closePc, contextEnded,
                   stateRequest>>

\* Faulty variant: Close waits for the requests although the context has ended.
ReturnAbandonedDrained ==
    /\ closePc = "killing"
    /\ doomed = {}
    /\ Drained
    /\ closePc' = "abandoned"
    /\ dataDir' = FALSE
    /\ UNCHANGED <<vars, accepted, publicServing, controlServing, doomed, contextEnded,
                   stateRequest>>

\* controlServer.Close cuts the connections off, but not the goroutines that serve them.
ReturnAbandoned ==
    /\ closePc = "killing"
    /\ doomed = {}
    /\ closePc' = "abandoned"
    /\ dataDir' = FALSE
    /\ UNCHANGED <<vars, accepted, publicServing, controlServing, doomed, contextEnded,
                   stateRequest>>

EndContext ==
    /\ HasDeadline
    /\ closePc \in CloseStages \ {"open"}
    /\ ~contextEnded
    /\ contextEnded' = TRUE
    /\ UNCHANGED <<vars, accepted, publicServing, controlServing, dataDir, closePc, doomed,
                   stateRequest>>

-----------------------------------------------------------------------------
(* Specification *)

ShutdownInit ==
    /\ Init
    /\ accepted = {}
    /\ publicServing = FALSE
    /\ controlServing = FALSE
    /\ dataDir = FALSE
    /\ closePc = "start"
    /\ doomed = {}
    /\ contextEnded = FALSE
    /\ stateRequest = "none"

StartStep == PrepareDirectory \/ LocateGit \/ ListenPublic \/ ListenControl \/ FailStartup

CloseStep ==
    \/ \E h \in Handlers : InterruptRunner(h) \/ KillRunner(h)
    \/ BeginClose \/ ShutdownPublic \/ ShutdownControl \/ ReturnDrained
    \/ BeginKilling \/ ReturnAbandoned

ShutdownNext ==
    \/ \E h \in Handlers : AcceptRequest(h) \/ ServeExecute(h) \/ RunnerExits(h)
    \/ \E r \in Runs : ServeControl(r) \/ ServePublic(r)
    \/ StartStep \/ CallClose \/ CloseStep \/ EndContext
    \/ getState \/ QueueWriter \/ AnswerState

ShutdownSpec == ShutdownInit /\ [][ShutdownNext]_shutdownVars

\* What is assumed of the world outside: an interrupted act exits, a deadline comes, docker
\* answers the commands of Close, and the client of getState reads or goes away.  Nothing makes
\* the setup or the clean-up of an execution end, nor act by itself.
FairShutdownSpec ==
    /\ ShutdownSpec
    /\ \A h \in Handlers :
          /\ WF_shutdownVars(pc[h] \notin {"setup", "cleanup"} /\ ServeExecute(h))
          /\ WF_shutdownVars(proc[h].interrupted /\ RunnerExits(h))
    /\ WF_shutdownVars(CloseStep)
    /\ WF_shutdownVars(EndContext)
    /\ WF_shutdownVars(AnswerState)

-----------------------------------------------------------------------------
(* Properties *)

\* A Close that was not cut short leaves nothing behind: no request in flight, even one that
\* was accepted during Close, no claim, no process, no execution without a conclusion.
ClosedIsQuiet ==
    closePc = "closed" =>
        /\ \A h \in Handlers :
              /\ pc[h] = "idle" \/ Ended(h)
              /\ proc[h].state \in {"none", "reaped"}
              /\ proc[h].state = "reaped" => workflowRuns[target[h]].Status = "completed"
        /\ \A r \in Runs : ~activeRuns[r].claimed

\* Only a request that Close gave up on works without its data directory, and an instance that
\* failed to start or was closed holds neither a directory nor a port.
DirectoryFollowsInstance ==
    /\ closePc # "abandoned" /\ (\E h \in Handlers : pc[h] # "idle" /\ ~Ended(h)) => dataDir
    /\ closePc \in {"failed", "closed"} => ~dataDir /\ ~publicServing /\ ~controlServing

\* An interrupt from shutdown is not a cancellation: only a run whose cancellation somebody
\* asked for is concluded cancelled, although both interrupt act.
ShutdownIsNoCancellation ==
    \A h \in Handlers :
        proc[h].state = "reaped" /\ Ended(h) /\ workflowRuns[target[h]].Conclusion = "cancelled"
            => workflowRuns[target[h]].CancellationRequested

\* With a deadline Close returns, although a request may stay in its setup for ever and a
\* runner may run for ever: it waits for world.mu and for docker, and beyond the deadline for
\* nothing else.
CloseReturns == (closePc = "closing") ~> (closePc \in {"closed", "abandoned"})

\* "DTU shutdown interrupts and removes remaining active runners"
\* (docs/p1-cancellation-proof.md, 36-37): once Close is past its interrupts, a runner that is
\* still running has been interrupted.
ShutdownInterruptsRunners ==
    closePc \in {"public", "control", "closed"} =>
        \A h \in Handlers : proc[h].state = "running" => proc[h].interrupted
=============================================================================
