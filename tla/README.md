# A verification project for the DTU GitHub server

The repository holds a "digital twin" of GitHub: a Go server (`dtu/`) that merge-queue tests run
against instead of the real service. It keeps a world in memory, serves real Git over HTTP,
executes workflow runs with `act`, and exposes a scripted control API. This directory holds TLA+
modules that model it, TLC configurations that check them on small instances, and theorems that
TLAPS proves for instances of every size.

## The system

All state is in one `world` (`dtu/types.go`), guarded by one `sync.RWMutex`, plus what lives
outside it: the bare repositories on disk, the `act` processes and the two HTTP servers. Every
request is a goroutine. What is hard is what those goroutines do while they do *not* hold
`world.mu`, because git commands, `act`, Docker and webhook receivers are slow.

| Component | State | Operations | Interacts with | Hard behaviour |
|---|---|---|---|---|
| Workflow execution (`execution.go`, `delivery.go:98`, `public.go:83`) | `workflowRuns`, `activeRuns`, workflow events, processes | request a run, execute, script a transition, cancel | pushes request runs; the public API cancels them; Close interrupts them | three critical sections with unlocked work between them; claims; cancellation against start and exit |
| Instance lifecycle (`server.go`, `cmd/`) | the servers, `closeOnce`, the data directory | `Start`, `Close` | interrupts runners, waits for requests | stages of Start that fail; requests accepted and runners started during Close; deadlines; a start over what an earlier server left |
| Git transport and ref events (`git.go`) | branches on disk, `receiveLocks`, `pendingEvents`, `observationErrors` | push, fetch | appends events, requests runs, refreshes pull requests | snapshots before and after a git process; overlapping pushes; a snapshot that fails |
| Pull requests (`control.go:191`, `public.go:205`) | `pulls` | create, change state, read, refresh | resolve branches that pushes move | two git commands per look, under different locks |
| Workflow configuration (`control.go:277`) | `workflows` | configure | read when a push is recorded | reconfigured during a push |
| Webhook delivery (`delivery.go:13`) | `pendingEvents`, `deliveryAttempts` | deliver, duplicate | external receivers | lost answers, retries, concurrent attempts |
| Access (`control.go:37`, `public.go:133`) | `apps`, `installs`, `repositories`, `tokens`, `now` | create, mint a token, authenticate, advance the clock | every public request | scope of tokens against grants; checks made in one critical section and used in another; expiry; shared Go maps |
| HTTP routing and encoding, `client.go` | an append-only list of unsupported requests | | | none that is shared |

What makes each of them correct:

* **Workflow execution**: a run is claimed by at most one request, and a claim never outlives it;
  nothing else moves a claimed run; `act` is started at most once per run; no cancellation is
  lost; conclusions say what happened; the event log and the statuses agree; completed is final.
* **Instance lifecycle**: with a deadline Close returns, whatever executions do; one that was not cut short leaves nothing running;
  shutdown is not mistaken for cancellation; the data directory outlives every request that Close
  waited for, and neither it nor a port outlives the instance; after a restart the events go on from
  the branches on disk.
* **Ref events**: the push events of a branch chain from its creation to where git has it now,
  except where an observation error was recorded; a push is told of what it moved and nothing else,
  and requests a run for the release ref and no other branch.
* **Pull requests**: between pushes the kept commits are the branches' commits; a refresh undoes
  nobody's change; a read reports commits that the branches had during it, for a branch that is gone
  its last one, and for one that is deleted meanwhile nothing older than the push it met.
* **Delivery**: a GUID names one event for ever; deliveries and duplicates carry the bytes that were
  first serialised; each delivery that sent a request is on record once, and truthfully.
* **Access**: what is served was granted to the App that signed; tokens live an hour, to the
  instant, and never change; a name denotes one repository; the events of an App tell it what it
  reaches.

## The modules

| Module | What it is |
|---|---|
| `WorkflowExecution` | runs, claims, the execute handler, scripts, cancellations and `act` |
| `WorkflowLifecycle` | what the clients of the API are promised of a run; no handlers, claims or processes |
| `WorkflowExecutionProofs` | the inductive invariant of `WorkflowExecution` and the theorems that follow from it |
| `WorkflowLogProofs` | theorems on the event log, and that `WorkflowExecution` implements `WorkflowLifecycle` |
| `InstanceShutdown` | extends `WorkflowExecution` with the two servers, `Start` and `Close` |
| `ShutdownProofs` | theorems on `Start` and `Close`, and that an instance that is started and closed still implements `WorkflowLifecycle` |
| `RefEvents` | pushes, the events and runs they make, the pull requests they refresh |
| `RefEventsProofs` | the inductive invariants of `RefEvents` and the theorems that follow from them |
| `PullReads` | extends `RefEvents` with `PullRequests.Get` |
| `PullReadsProofs` | what a `Get` that pushes overtake reports |
| `RefRestart` | extends `RefEvents` with servers that end at any moment and start again over the same repository |
| `RefRestartProofs` | the theorems of `RefEventsProofs` in every life of the server |
| `Access` | Apps, installations, repositories, the clock, JWTs, tokens and the requests that present them |
| `AccessProofs` | the inductive invariants of `Access` and the theorems that follow from them |
| `Delivery` | the log of pending events, deliveries, duplicates and a receiver over a network |
| `DeliveryProofs` | the inductive invariant of `Delivery` and the theorems that follow from it |
| `MC*` | model values and symmetry for TLC |

An action is what a goroutine does in one critical section, or in one stretch of work without the
lock (one git command, the setup of a run). Where the code holds `world.mu` over something slow
(`createPullRequest` runs git twice under it), the model holds it too (`creating`). Names are the
source's where TLA+ allows. "Faulty variants" are definitions that no specification uses: each is
its neighbour with a plausible mistake, and shows that a property is able to notice it.

### WorkflowExecution

`pc[h]` follows `executeWorkflowRun`: `idle` (no request yet), `setup` (claimed, unlocked work),
`releasing` (the deferred release after a setup error), `ready` (setup done, before the second
critical section), `running` (in `command.Wait`), `waited`, `cleanup`, and three ends. A missing
`activeRuns` key is an entry that is not claimed, because that is how the code reads it.
`ClaimRun`/`RefuseClaim` are the first critical section, `LeaveUnstarted`, `FailStart` and
`StartRunner` the outcomes of the second, `ConcludeRun` the third. `proc[h]` is what the operating
system knows of the process; `SignalAccepted` is `os.Process.Signal`, which for a process that
exited and was not waited for may say either. The branch for a run that is no longer queued after
the setup (`execution.go:125-131`) is modelled and is unreachable: `ClaimFreezesStatus` says so.

Left out: the `mutations` counter (only `getState` reads it), logs, containers, answers' bodies,
and the check of `execution.go:45-50`, which never refuses since a run is only requested by a push to
a configured repository and neither map loses entries. In this module a push is just
`appendQueuedWorkflow`; `RefEvents` models when it happens.

### InstanceShutdown

`closePc` follows `Start` and then `instanceRuntime.close`. Start's stages are steps of their own,
each of which may fail instead (`FailStartup`): it then closes the public listener, if that is open, and
its deferred function removes the temporary directory. `dataDir` is that directory: Close removes it last, and the setup
of a request that Close gave up on may make it again. The removal is assumed to succeed, since
the code ignores its error; a configured directory is never removed and is the subject of `RefRestart`. `doomed` is the local snapshot of `stopActiveRuns`, so
a process found by the sweep can exit before it is signalled. `Drained` is the condition under
which `http.Server.Shutdown` returns; the server polls for it, so it may give up on a server that
has just drained. Pushes, scripts and cancellations take effect when they are accepted, so a public
server is never busy: `closed` includes a Close whose `publicServer.Shutdown` gave up on a push
(`publicErr`, `server.go:125-127`) while the control server drained.

`stateRequest` is a GET of the state, which writes its answer under `world.mu`'s read lock
(`control.go:308`): while its client reads, no writer proceeds (`MayWrite`), and once one waits
(`QueueWriter`) no reader either (`MayRead`), so neither sweep of Close can begin (`BeginClose`,
`BeginKilling`). One such request suffices, since a second one cannot overtake a waiting writer. The
docker commands that each sweep runs per runner (`cleanupRunContainers`) are the end of `InterruptRunner`
and `KillRunner`; the context bounds neither them nor the lock.

### RefEvents and PullReads

`pc[p]` follows `serveGit` for a push. git's own refs are under no lock of the server: `ReceiveRef`
moves one ref of a push at a time, refused commands are refs it does not move. The log is kept per
ref; the order of the events of different refs in one push (alphabetical) is left out. Tokens,
repositories and permissions are one nondeterministic refusal before the lock. Fetches change nothing and
are left out. `rev-parse` is assumed to succeed on a branch that exists; `for-each-ref` may fail,
as the code provides for. (`resolveRef` takes every failure of `rev-parse` for a missing branch, so a
failure on an existing one keeps a stale commit without a trace; see the hazards.) `pushed`, `unobserved`,
`released`, `lived`, `began`, `lastSHA` and `atPush` are history variables: no
action reads them, except that a push moves each ref at most once. `released` has the release refs that
were configured while a push was being served, between which the code may choose. `PullReads` lets a GET copy the
pull request under the lock and then resolve base and head one after the other; `lived` and `began` are
what git had during the call and what the branches had last when it began, and when the push began
that it met (`atPush`).

What the log tells of a ref is read off by place: the i-th event of a ref begins where the one before it
ended (`Told`), `Breaks` are the push events that do not, and `Gaps` counts those and a last event that
did not lead to where git is. A requested event has the commit of the push before it, so it continues the
chain. `LastSHA` is the commit of a branch, or for a branch that is gone the `before` of its last
event.

### RefRestart

`Restart` ends the server in whatever state it is and starts the next one: the branches stay,
everything in `world` and every handler goes. `createRepository` then finds the directory, `git init`
keeps its branches, and a failing `git config` removes it (`FailCreateRepository`, `control.go:163-167`),
which loses branches that this call did not make. `origin` is history: the branches at that moment. A
push of an earlier life counts as `failed` whatever its client was told, since this world has neither its
handler nor its events. The model assumes that the git processes of a server have ended before the
next one serves; the code does not see to it. `EndPushes` is the end of the process and of its
goroutines, no code of the server.

### Access

The maps of the world are functions whose domains grow; nothing is ever removed. The set of
repositories of an installation is a Go map that `createRepository` changes in place, so `sets` is
a heap: an installation's set is stored under its identifier, a token's under whatever reference the
token holds, and `copySet` is what makes that a new one. Names are compared after case folding, so a name stands for
its spellings; `strings.ToLower` and `strings.EqualFold`, which the code uses at different places, are one
folding here, as they are on ASCII names. A permission level is its rank; an installation or a token request with a level of no
rank is refused before anything happens, and is left out. A signature is the identity of the App whose key
made it. `minter[m]` follows `CreateInstallationToken`: the JWT is checked in critical sections of its
own, the token is minted in a later one. `request[q]` follows a request with a token: git checks
everything at once and acts after the receive lock, REST checks the token first and the repository in
the handler's critical section. A request keeps a copy of the token, as the Go code does, and `at`,
`signer` and `mintedAt` are history. A refused control request changes nothing and is no step. Events are kept
per App, without those of workflow runs, which have the push events' addressee.

### Delivery

`pc[d]` follows `deliverEvent`: `idle`, `sending` (in `client.Do`, without a lock), `answered`,
and the kinds of answer it gives. `outbound` is the request, read from the log under the lock and
signed. `network`, `answers` and `inbox` are the receiver's side, which is external: it may get a
request at any time after it was sent, also when the sender has given up, or never; it verifies
signatures and may reject anything. Nothing in the server delivers an event on its own, so
redelivery is another request for the same GUID. A body is identified by the place in the log at
which it was first serialised, and `of` is history: the source of a duplicate. Apps and whether
they have a webhook never change, so `Configured` is a constant. Left out are redirects and the
retries that Go's transport makes on a reused connection, destinations that are no URL, and which
kind of event fills the log. `RefEvents` and `WorkflowExecution` say when events are appended; here
any App may get one at any time.

## The runs

| Run | Instance | What it shows |
|---|---|---|
| `execution` | 2 runs, 3 requests, 2 scripted conclusions | the safety of claims, conclusions and the log; `ImplementsLifecycle` |
| `shutdown` | 2 runs, 2 requests, a GET of the state, a deadline | `ClosedIsQuiet`, `DirectoryFollowsInstance`, `ShutdownIsNoCancellation` |
| `shutdown_liveness` | 1 run, 2 requests, a GET of the state, a deadline | `CancelledRunCompletes`, `CloseReturns` |
| `shutdown_sweep` | 1 run, 2 requests, no deadline | a *violation*: see Findings |
| `ref_events` | 2 branches, 2 commits, 3 pushes, 1 pull request | the chain of events, attribution, runs for the release ref only, pull request snapshots |
| `ref_liveness` | 1 branch, 2 pushes, 1 pull request | `PushesAreAnswered` |
| `pull_reads` | 1 branch, 3 commits, 3 pushes, 1 GET | `ReportsTheBranches` |
| `restart` | 2 branches, 2 commits, 2 pushes, 1 pull request, 2 restarts | `ChainsBeginOnDisk`; attribution and pull request snapshots in each life |
| `access` | 2 Apps, 2 installations (3 inputs), 2 repositories (3 inputs), 2 tokens, 1 request | grants, lifetimes, names, events, tokens that never change |
| `delivery` | 2 deliveries, 3 events, 2 Apps of which one has a webhook | `GUIDsAreUnique`, `BodiesAreOriginal`, `AttemptsAreTrue` |
| `pull_pair` | 2 branches, 2 pushes, 1 GET | a *violation*: see Findings |
| `pull_deleted` | 1 branch, 2 commits, 3 pushes, 1 GET | a *violation*: see Findings |

**Bounds.** Every request is one element of a finite set and is served once, so there is no
counter to cap: `Handlers`, `Pushes` and `Readers` bound the number of requests, `Runs` the number
of pushes to the release ref. Three execute requests and two runs let two requests fight over a
run while the third holds the other; scripts and cancellations are not bounded. Three pushes let a
branch be created, moved without being observed and deleted, or created again, around a pull
request that is made at any moment; two commits are enough to tell a stale value from a
current one, and three to tell one that is staler still. In `Delivery` the log and the clock are counters, capped by
`MaxEvents` and `MaxTime`: three events are a source, its duplicate and a duplicate of that, or
two Apps whose numbers interleave; two instants let the clock move during a delivery. `MaxRestarts`
is two, so that a push may be cut off in one life between its two branches, another in the next, and
the third begin from what both left. In `Access` the inputs are an owned installation that may write,
one of another App that may only read and one that is suspended, and repositories that would share a name;
a token lives two ticks of a clock that `MaxTime` stops at two, so it is used before, and at, its expiry,
and a JWT lives one, so it can expire between its check and the minting. Symmetry is used for safety only. Everything but `ref_events`, `ref_liveness`,
`pull_reads`, `pull_pair`, `pull_deleted` and `restart` stops when its requests are served, so those runs do not check deadlock.

**Fairness.** In `shutdown_liveness` a goroutine that can take its next step takes it (`WF`), except for
two: nothing in the code makes the setup of an execution (`act --version`, docker, `git clone`) or its
clean-up end, so neither is assumed to. `act` is not assumed to exit by itself: only an interrupted
process is. What Close needs from outside is assumed by name: its deadline comes (`main.go:61`), docker
answers the commands of the sweeps (part of `WF(CloseStep)`), and the client of `getState` reads its answer
or goes away (`WF(AnswerState)`). The code guarantees neither of the last two: without
`WF(AnswerState)` TLC finds a Close that waits for ever for the read lock of a sweep, whatever its deadline.

In `ref_liveness` git commands end. Go's locks hand themselves over to a waiter that keeps being
overtaken, so a push, which competes with control requests for `world.mu`, gets `SF`. git-http-backend
is assumed to end, which needs a client that sends its body; a client that stalls holds the receive
lock, and nothing in the code bounds that. No fairness is assumed of new requests.

## Findings

* **The sweep of Close misses claimed runs** (`shutdown_sweep`). `stopActiveRuns` skips a run whose
  command is still nil (`server.go:146`). An execute request in its setup then starts `act` after
  the sweep and nobody interrupts it. `docs/p1-cancellation-proof.md` (36-37) says that shutdown
  "interrupts and removes remaining active runners". Without a deadline Close waits as long as that
  runner takes; with one, `CloseReturns` holds, because the runner is killed or abandoned.
* **A GET reports a pair of commits that never was** (`pull_pair`). `PullRequests.Get` resolves base
  and head with two commands (`public.go:228-235`); a push in between that moves both gives the old
  base with the new head. `docs/api-endpoint-claims.md` (PR-11) says that they agree with the real
  refs. Each side alone does, while its branch is there (`ReportsTheBranches`).
* **A GET reports a commit older than the last** (`pull_deleted`). `PullRequests.Get` falls back on the
  commit it copied when the call began (`public.go:228-235`). A push moves the branch from s1 to s2, the
  call copies s1 before that push refreshes the pull request (`git.go:382-391`), the push ends, the next one
  deletes the branch, and the call answers s1: at no moment of the call did the branch have s1, nor was
  s1 the last commit it had. `docs/api-endpoint-claims.md` (PR-10) says that a response has the current head
  or, after deletion, the last snapshot. `ReportsTheBranches` says how far it can go: back to where the
  branch was when the push began that the call met, and no further.

## What is proved

Every invariant and action property that a passing run checks is also a theorem, for every value of
the constants that meets the assumptions below; no set need be finite. The runs found the invariants
cheaply and keep the properties honest (each has a faulty variant that violates it); the proofs
remove the bounds.

| Module | Theorems | Assumptions |
|---|---|---|
| `WorkflowExecutionProofs` | `TypeCorrect`, `ClaimsExclusive`, `ClaimedRunsFrozen`, `RunsStartOnce`, `CancellationsReachRunners`, `ConclusionsExplained` | the markers `NoRun`, `NoHandler` and `"none"` are no runs, requests or conclusions |
| `WorkflowLogProofs` | `CompletedRunsAreFinal`, `LogInOrder`, `LogAgrees`, `ExecutionImplementsLifecycle` | the same |
| `ShutdownProofs` | `ShutdownTypeCorrect`, `CloseLeavesQuiet`, `DirectoryCorrect`, `ShutdownCancelsNothing`, `CloseKeepsPromises`, `CloseKeepsLog`, `InstanceImplementsLifecycle` | the same, with or without a deadline |
| `RefEventsProofs` | `TypeCorrect`, `AttributionCorrect`, `RunsCorrect`, `GapsCorrect`, `RefreshCorrect`, `SnapshotsCorrect` | `NoSHA`, `NoRef` and `NoPush` are no commit, branch or push |
| `RefRestartProofs` | `ChainsCorrect`, `RestartAttribution`, `RestartSnapshots`, `RestartRuns` | the same, for every bound on the restarts |
| `PullReadsProofs` | `ReadsTypeCorrect`, `ReportsCorrect` | the same |
| `DeliveryProofs` | `TypeCorrect`, `GUIDsCorrect`, `BodiesCorrect`, `AttemptsCorrect` | the configured Apps are Apps, the bounds on log and clock naturals |
| `AccessProofs` | `TypeCorrect`, `GrantedOnly`, `LifetimesCorrect`, `NamesCorrect`, `TokensFixed`, `ReachIsTold` | inputs are of their types, installations and tokens have different references, lifetimes are positive |

Hardly any of the properties is inductive alone; the invariants that are were checked by TLC on the
runs' instances before they were proved.

**Executions.** That a run is started once needs that nobody moves a
claimed run back to the queue; that needs that the request that holds it is the only one; that needs the
relation of each handler's position to its claim. `IInv` states these together: the types,
`ClaimHeldByOne`, `ClaimFreezesStatus`, what each stage of a handler implies of its process and
its run (`HandlerInv`), what an entry of `activeRuns` implies of its command (`ClaimInv`,
`SignalInv`), and the properties themselves. One lemma per action shows that it is preserved. The
log theorems add that the rank of the last event of a run is the rank of its status. The
refinement maps the runs and the log as they are and `executed` to the runs that have had a
process: claims, releases, refusals, waiting and exits stutter, and each other step is the
lifecycle's step of that name.

**Start and Close.** To the executions a step of the instance is a step of their own, nothing, or a
signal (`StepKinds`), and an interrupt or a kill keeps `IInv`: so everything proved of executions,
the refinement included, holds of an instance from Start to the end of Close, also for requests that
Close gave up on. `ShutdownInv` adds what each stage says of ports, directory and requests (`StageInv`)
and that only accepted requests work (`WorkIsAccepted`). A drained server stays drained because the
listener was closed first: that is the step at which `CloseLeavesQuiet` would fail otherwise.

**Pushes.** What is known of the branches depends on where the holder of the receive lock is, so the
stages fall into three: before git moves anything, while there are movements that are not recorded
(`Unrecorded`), and while pull requests are refreshed (`Refreshing`). `PushInv` says that the lock is
exclusive, that during the second the branches that are not where they were are those the push has
moved (`MovedRight`), and that it is told of them once, when it is recorded (`ToldRight`). `GapsRight`
measures the log against the branches, or, while branches are moved, against where the push
found them; it takes where the log begins as a parameter, which `RefRestartProofs` sets to the
branches on disk. `PullInv` says what a pull request keeps at each stage: while movements are not recorded,
a commit that the push in flight found or made (`SeenBy`), since `createPullRequest` may resolve base
and head around a movement; while it refreshes, the branch's commit for the pull
requests that are done. `ReleaseRight` says that the configured release ref is one of those the push
may have met, and that the runs it requested are for one of them. Creation excludes recording because it holds `world.mu`, which is what makes
this inductive.

**Restarts.** A world that does not have the repository yet knows nothing of it (`Fresh`), and a
chain without events begins where the branches are. The rest is `PushInv`, `PullInv` and `GapsRight(origin)`.

**Reads.** `LastRight` relates the history `lastSHA` to the log: the last commit of a branch
that is gone is the `before` of its last event or, if the push that deleted it is not recorded yet,
where that push found it. `AtPushRight` does the same for `atPush` and the push that is moving branches, and
with it `KeptRecent` says that what a pull request keeps is the last commit of the branch, or the last one
when the push under way began: before that push is recorded this follows from `SeenBy`, and afterwards the
refresh stores only what git has. So a reader that copies it has a fallback that is the last commit of a
branch that is gone, and no older than that push otherwise (`FallbackRight`); what it resolves is among
the commits of the call (`ReportRight`), and pushes only add to them until it has answered.

**Access.** A token is `Sound` when its set is its own, lies within its installation's and its
permissions within the grant, and the installation belongs to the App that signed. What exists never
changes but that installations get repositories (`Grows`), so a sound token stays sound, and so does the
copy that a request holds between its check and its act (`Shown`). `ReachIsTold` has a second
invariant: besides the property itself, every owned installation was announced (`OwnedAnnounced`) and
what an event is about exists (`AboutKnown`), so that a new event never repeats one.

**Deliveries.** Uniqueness is not inductive, but that the GUID of an event is its place in the
log (`Numbered`) is; a duplicate of a duplicate has the original's body because the source of an
event never comes after it (`SourcesPrecede`); an attempt agrees with the receiver because a
delivery sends one request, and an answer, once there is one, stays (`SenderInv`, `ReceiverInv`).

Only model-checked: the liveness properties `CancelledRunCompletes`, `CloseReturns` and
`PushesAreAnswered`, which rest on fairness and ENABLED, out of this prover's reach; and the three
violations, which are refutations.

## Plan

1. *(done)* `WorkflowExecution`, `WorkflowLifecycle`, their runs and proofs: the claim protocol is the
   most concurrent part of the server.
2. *(done)* `InstanceShutdown`, composing Start and Close with it, and its proofs.
3. *(done)* `RefEvents`, `PullReads` and their proofs.
4. *(done)* `Delivery`, its run and proofs. To come: the order of concurrent attempts, and the log
   composed with the modules that fill it.
5. *(done)* `Access` and its proofs.
6. *(done)* `RefRestart` and its proofs. To come: a composition of `RefEvents` and
   `WorkflowExecution` in which pushes request the runs that are then executed on the commit they name.
7. Proofs to come: that within one life of `RefRestart` pull requests change only as
   `RefreshKeepsChanges` allows.

## Not modelled

* HTTP routing, JSON and the wire fields, `getState`'s copy and the list of unsupported requests:
  conversions of one request, with no state that a second request could find half done. That
  `getState` writes to its client under the read lock is in `InstanceShutdown`; elsewhere a critical
  section is one step.
* The control client: one HTTP request per call, no state.
* Docker: image checks and configuration are parts of a setup that succeeds or fails; containers are
  Docker's, and what `act` leaves behind when it is interrupted is not for this code to say.
* Cryptography and randomness: signatures verify exactly for the signer, and tokens are drawn once.
