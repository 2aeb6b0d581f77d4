------------------------------ MODULE RefEvents ------------------------------
(***************************************************************************)
(* Pushes to one repository of the DTU GitHub server and what the server   *)
(* makes of them (dtu/git.go): it lets git-http-backend move the branches, *)
(* compares the branches before and after, appends push events, requests a *)
(* workflow run for the release ref, and refreshes the commit identifiers  *)
(* kept with the pull requests (created by dtu/control.go).                *)
(*                                                                         *)
(* Pushes are goroutines.  They are serialised by the receive lock of the  *)
(* repository, and reach the world under world.mu; git's own refs are      *)
(* under neither lock.  Each action is one critical section or one git     *)
(* command.  The identifiers of the events, the order of the events of     *)
(* different refs, drafts and HTTP statuses are left out.                  *)
(***************************************************************************)
EXTENDS Naturals, Sequences, FiniteSets

CONSTANTS
    Refs,      \* branch names
    SHAs,      \* commits
    NoSHA,     \* the empty string that stands for a branch that does not exist
    NoRef,     \* no release ref is configured
    Pushes,    \* git-receive-pack requests, one goroutine each
    NoPush,    \* nobody holds the receive lock
    Pulls      \* keys of pull requests

ASSUME NoSHAAssumption == NoSHA \notin SHAs
ASSUME NoRefAssumption == NoRef \notin Refs
ASSUME NoPushAssumption == NoPush \notin Pushes

VARIABLES
    refs,               \* the refs/heads of the bare repository
    releaseRef,         \* world.workflows: the release ref of the repository
    events,             \* world.pendingEvents, the push and requested events of each ref
    observationErrors,  \* the length of world.observationErrors
    pulls,              \* world.pulls, a map
    creating,           \* the createPullRequest that holds world.mu, none or one
    receiveLock,        \* world.receiveLocks: the push that holds it
    pc,                 \* where the handler of a push is
    before,             \* beforeRefs of a push
    after,              \* afterRefs of a push
    todo,               \* the keys that refreshPullSnapshots has listed and not yet done
    snapshot,           \* the key being refreshed and what its refs resolved to
    pushed,             \* history: the refs that the git process of a push moved
    unobserved,         \* history: the last push to end was not observed
    released            \* history: the release refs that were configured, one after the other,
                        \* from the first snapshot of the push being served to its record

worldVars == <<releaseRef, events, observationErrors, pulls, creating>>

pushVars == <<receiveLock, pc, before, after, todo, snapshot>>

historyVars == <<pushed, unobserved, released>>

vars == <<refs, worldVars, pushVars, historyVars>>

-----------------------------------------------------------------------------
(* Types *)

Values == SHAs \cup {NoSHA}

RefMap == [Refs -> Values]

\* A requested event has no before, and a push event that deletes has no after.
Event == [event : {"push", "requested"}, by : Pushes, before : Values, after : Values]

PullRequest == [baseRef : Refs, headRef : Refs, baseSHA : SHAs, headSHA : SHAs,
                state : {"open", "closed"}]

PullMap == UNION {[D -> PullRequest] : D \in SUBSET Pulls}

Creation == [key : Pulls, baseRef : Refs, headRef : Refs, baseSHA : Values]

Snapshot == [key : Pulls, baseSHA : Values, headSHA : Values]

\* refused is a 4xx answer, failed a 500 one, replied the answer of git-http-backend.
Stages == {"idle", "waiting", "locked", "receiving", "received", "observed", "recorded",
           "refreshing", "resolving", "resolved", "refused", "failed", "replied"}

TypeOK ==
    /\ refs \in RefMap
    /\ releaseRef \in Refs \cup {NoRef}
    /\ events \in [Refs -> Seq(Event)]
    /\ observationErrors \in Nat
    /\ pulls \in PullMap
    /\ creating \in SUBSET Creation /\ Cardinality(creating) <= 1
    /\ receiveLock \in Pushes \cup {NoPush}
    /\ pc \in [Pushes -> Stages]
    /\ before \in [Pushes -> RefMap]
    /\ after \in [Pushes -> RefMap]
    /\ todo \in [Pushes -> SUBSET Pulls]
    /\ snapshot \in [Pushes -> SUBSET Snapshot]
    /\ pushed \in [Pushes -> SUBSET Refs]
    /\ unobserved \in BOOLEAN
    /\ released \in SUBSET (Refs \cup {NoRef})

-----------------------------------------------------------------------------
(* Helpers *)

NoRefs == [f \in Refs |-> NoSHA]

\* createPullRequest runs git under world.mu; everything else that takes world.mu is one step.
WorldFree == creating = {}

Goto(p, from, to) == pc[p] = from /\ pc' = [pc EXCEPT ![p] = to]

\* The deferred Unlock and the answer.
Leave(p, from, to) == Goto(p, from, to) /\ receiveLock' = NoPush

-----------------------------------------------------------------------------
(* serveGit, for POST git-receive-pack *)

\* Credentials, repository and permission are read once, before the wait for the lock.
AuthorizePush(p) ==
    /\ WorldFree
    /\ \/ Goto(p, "idle", "waiting")
       \/ Goto(p, "idle", "refused")
    /\ UNCHANGED <<refs, worldVars, receiveLock, before, after, todo, snapshot, historyVars>>

\* Faulty variant: nothing serialises the pushes.
LockNothing(p) ==
    /\ Goto(p, "waiting", "locked")
    /\ UNCHANGED <<refs, worldVars, receiveLock, before, after, todo, snapshot, historyVars>>

LockReceive(p) ==
    /\ receiveLock = NoPush
    /\ Goto(p, "waiting", "locked")
    /\ receiveLock' = p
    /\ UNCHANGED <<refs, worldVars, before, after, todo, snapshot, historyVars>>

\* Faulty variant: the branches are where the log has them.
SnapshotTold(p) ==
    /\ Goto(p, "locked", "receiving")
    /\ before' = [before EXCEPT ![p] = [f \in Refs |->
           IF events[f] = <<>> THEN NoSHA ELSE events[f][Len(events[f])].after]]
    /\ released' = {releaseRef}
    /\ UNCHANGED <<refs, worldVars, receiveLock, after, todo, snapshot, pushed, unobserved>>

\* branchRefs before git-http-backend; it may fail.
SnapshotBefore(p) ==
    /\ Goto(p, "locked", "receiving")
    /\ before' = [before EXCEPT ![p] = refs]
    /\ released' = {releaseRef}
    /\ UNCHANGED <<refs, worldVars, receiveLock, after, todo, snapshot, pushed, unobserved>>

FailBefore(p) ==
    /\ Leave(p, "locked", "failed")
    /\ UNCHANGED <<refs, worldVars, before, after, todo, snapshot, historyVars>>

\* git-receive-pack applies the commands of a push one ref after the other, and refuses some
\* or all of them.  A command creates, moves or deletes a ref.
ReceiveRef(p, f, sha) ==
    /\ pc[p] = "receiving"
    /\ f \notin pushed[p]
    /\ sha # refs[f]
    /\ refs' = [refs EXCEPT ![f] = sha]
    /\ pushed' = [pushed EXCEPT ![p] = @ \cup {f}]
    /\ UNCHANGED <<worldVars, pushVars, unobserved, released>>

FinishReceive(p) ==
    /\ Goto(p, "receiving", "received")
    /\ UNCHANGED <<refs, worldVars, receiveLock, before, after, todo, snapshot, historyVars>>

\* branchRefs after git-http-backend; a failure is recorded and nothing else is.
SnapshotAfter(p) ==
    /\ Goto(p, "received", "observed")
    /\ after' = [after EXCEPT ![p] = refs]
    /\ UNCHANGED <<refs, worldVars, receiveLock, before, todo, snapshot, historyVars>>

\* Faulty variants: the failure is not recorded; the lock is not given back.
FailUnrecorded(p) ==
    /\ WorldFree
    /\ Leave(p, "received", "failed")
    /\ unobserved' = TRUE
    /\ released' = {}
    /\ UNCHANGED <<refs, worldVars, before, after, todo, snapshot, pushed>>

FailLocked(p) ==
    /\ WorldFree
    /\ Goto(p, "received", "failed")
    /\ observationErrors' = observationErrors + 1
    /\ unobserved' = TRUE
    /\ released' = {}
    /\ UNCHANGED <<refs, releaseRef, events, pulls, creating, receiveLock,
                   before, after, todo, snapshot, pushed>>

FailAfter(p) ==
    /\ WorldFree
    /\ Leave(p, "received", "failed")
    /\ observationErrors' = observationErrors + 1
    /\ unobserved' = TRUE
    /\ released' = {}
    /\ UNCHANGED <<refs, releaseRef, events, pulls, creating,
                   before, after, todo, snapshot, pushed>>

PushEvent(p, f) ==
    <<[event |-> "push", by |-> p, before |-> before[p][f], after |-> after[p][f]]>>

RequestedEvent(p, f) ==
    <<[event |-> "requested", by |-> p, before |-> NoSHA, after |-> after[p][f]]>>

\* Faulty variant: whatever branch moves requests a run of the configured workflow.
NewEventsOfAnyRef(p, f) ==
    IF before[p][f] = after[p][f] THEN <<>>
    ELSE IF releaseRef # NoRef /\ after[p][f] # NoSHA
         THEN PushEvent(p, f) \o RequestedEvent(p, f)
    ELSE PushEvent(p, f)

\* A push event for a ref that changed; a run too for the release ref, unless it was deleted.
NewEvents(p, f) ==
    IF before[p][f] = after[p][f] THEN <<>>
    ELSE IF f = releaseRef /\ after[p][f] # NoSHA THEN PushEvent(p, f) \o RequestedEvent(p, f)
    ELSE PushEvent(p, f)

\* The configured release ref is read when the changes are recorded, not when git moves them.
recordRefChanges(p) ==
    /\ WorldFree
    /\ Goto(p, "observed", "recorded")
    /\ events' = [f \in Refs |-> events[f] \o NewEvents(p, f)]
    /\ UNCHANGED <<refs, releaseRef, observationErrors, pulls, creating,
                   receiveLock, before, after, todo, snapshot, historyVars>>

-----------------------------------------------------------------------------
(* refreshPullSnapshots: list the pull requests, then for each of them     *)
(* resolve its refs without world.mu and store what they resolved to.      *)

ListPulls(p) ==
    /\ WorldFree
    /\ Goto(p, "recorded", "refreshing")
    /\ todo' = [todo EXCEPT ![p] = DOMAIN pulls]
    /\ released' = {}
    /\ UNCHANGED <<refs, worldVars, receiveLock, before, after, snapshot, pushed, unobserved>>

\* baseRef and headRef of a pull request never change, so they are read off the map.
ResolveBase(p, k) ==
    /\ k \in todo[p]
    /\ Goto(p, "refreshing", "resolving")
    /\ snapshot' = [snapshot EXCEPT ![p] =
           {[key |-> k, baseSHA |-> refs[pulls[k].baseRef], headSHA |-> NoSHA]}]
    /\ UNCHANGED <<refs, worldVars, receiveLock, before, after, todo, historyVars>>

ResolveHead(p) ==
    /\ Goto(p, "resolving", "resolved")
    /\ snapshot' = [snapshot EXCEPT ![p] =
           {[s EXCEPT !.headSHA = refs[pulls[s.key].headRef]] : s \in snapshot[p]}]
    /\ UNCHANGED <<refs, worldVars, receiveLock, before, after, todo, historyVars>>

\* Faulty variants: a pull request is rebuilt open; the base is not refreshed.
RefreshedOpen(pull, s) ==
    [pull EXCEPT !.baseSHA = IF s.baseSHA # NoSHA THEN s.baseSHA ELSE @,
                 !.headSHA = IF s.headSHA # NoSHA THEN s.headSHA ELSE @,
                 !.state = "open"]

RefreshedHead(pull, s) ==
    [pull EXCEPT !.headSHA = IF s.headSHA # NoSHA THEN s.headSHA ELSE @]

\* A ref that does not resolve leaves the identifier that was kept.
Refreshed(pull, s) ==
    [pull EXCEPT !.baseSHA = IF s.baseSHA # NoSHA THEN s.baseSHA ELSE @,
                 !.headSHA = IF s.headSHA # NoSHA THEN s.headSHA ELSE @]

StoreSnapshot(p) ==
    /\ WorldFree
    /\ Goto(p, "resolved", "refreshing")
    /\ \E s \in snapshot[p] :
          /\ pulls' = [pulls EXCEPT ![s.key] = Refreshed(@, s)]
          /\ todo' = [todo EXCEPT ![p] = @ \ {s.key}]
    /\ snapshot' = [snapshot EXCEPT ![p] = {}]
    /\ UNCHANGED <<refs, releaseRef, events, observationErrors, creating,
                   receiveLock, before, after, historyVars>>

ReplyPush(p) ==
    /\ todo[p] = {}
    /\ Leave(p, "refreshing", "replied")
    /\ unobserved' = FALSE
    /\ UNCHANGED <<refs, worldVars, before, after, todo, snapshot, pushed, released>>

-----------------------------------------------------------------------------
(* The control handlers that share this state *)

\* createPullRequest holds world.mu over its two git commands; a push may move the refs
\* between them.
BeginCreatePull(k, base, head) ==
    /\ WorldFree
    /\ k \notin DOMAIN pulls
    /\ creating' = {[key |-> k, baseRef |-> base, headRef |-> head, baseSHA |-> refs[base]]}
    /\ UNCHANGED <<refs, releaseRef, events, observationErrors, pulls, pushVars, historyVars>>

\* Faulty variant: nobody checks that the refs exist.
EndCreateUnchecked(c, state) ==
    LET pull == [baseRef |-> c.baseRef, headRef |-> c.headRef, baseSHA |-> c.baseSHA,
                 headSHA |-> refs[c.headRef], state |-> state]
    IN /\ creating' = {}
       /\ pulls' = [k \in DOMAIN pulls \cup {c.key} |-> IF k = c.key THEN pull ELSE pulls[k]]
       /\ UNCHANGED <<refs, releaseRef, events, observationErrors, pushVars, historyVars>>

\* Both refs must exist.
EndCreatePull(c, state) ==
    LET headSHA == refs[c.headRef]
        pull == [baseRef |-> c.baseRef, headRef |-> c.headRef, baseSHA |-> c.baseSHA,
                 headSHA |-> headSHA, state |-> state]
    IN /\ creating' = {}
       /\ pulls' = IF c.baseSHA # NoSHA /\ headSHA # NoSHA
                   THEN [k \in DOMAIN pulls \cup {c.key} |->
                            IF k = c.key THEN pull ELSE pulls[k]]
                   ELSE pulls
       /\ UNCHANGED <<refs, releaseRef, events, observationErrors, pushVars, historyVars>>

changePullRequestState(k, state) ==
    /\ WorldFree
    /\ k \in DOMAIN pulls
    /\ pulls' = [pulls EXCEPT ![k].state = state]
    /\ UNCHANGED <<refs, releaseRef, events, observationErrors, creating, pushVars, historyVars>>

configureWorkflow(f) ==
    /\ WorldFree
    /\ releaseRef' = f
    /\ released' = IF \E p \in Pushes : pc[p] \in {"receiving", "received", "observed"}
                   THEN released \cup {f} ELSE released
    /\ UNCHANGED <<refs, events, observationErrors, pulls, creating, pushVars,
                   pushed, unobserved>>

-----------------------------------------------------------------------------
(* Specification *)

Init ==
    /\ refs = NoRefs
    /\ releaseRef = NoRef
    /\ events = [f \in Refs |-> <<>>]
    /\ observationErrors = 0
    /\ pulls = <<>>
    /\ creating = {}
    /\ receiveLock = NoPush
    /\ pc = [p \in Pushes |-> "idle"]
    /\ before = [p \in Pushes |-> NoRefs]
    /\ after = [p \in Pushes |-> NoRefs]
    /\ todo = [p \in Pushes |-> {}]
    /\ snapshot = [p \in Pushes |-> {}]
    /\ pushed = [p \in Pushes |-> {}]
    /\ unobserved = FALSE
    /\ released = {}

\* What the goroutine of a push does once it is authorised.
PushStep(p) ==
    \/ LockReceive(p) \/ SnapshotBefore(p) \/ FailBefore(p) \/ FinishReceive(p)
    \/ SnapshotAfter(p) \/ FailAfter(p) \/ recordRefChanges(p)
    \/ ListPulls(p) \/ ResolveHead(p) \/ StoreSnapshot(p) \/ ReplyPush(p)
    \/ \E k \in Pulls : ResolveBase(p, k)

ControlStep ==
    \/ \E k \in Pulls, base, head \in Refs : BeginCreatePull(k, base, head)
    \/ \E state \in {"open", "closed"} :
          \/ \E c \in creating : EndCreatePull(c, state)
          \/ \E k \in Pulls : changePullRequestState(k, state)
    \/ \E f \in Refs : configureWorkflow(f)

Next ==
    \/ \E p \in Pushes :
          \/ AuthorizePush(p) \/ PushStep(p)
          \/ \E f \in Refs, sha \in Values : ReceiveRef(p, f, sha)
    \/ ControlStep

Spec == Init /\ [][Next]_vars

\* Goroutines run and git commands end, git-http-backend included.  The locks of Go hand
\* themselves to a waiter that others keep overtaking, hence strong fairness.
FairSpec ==
    /\ Spec
    /\ \A p \in Pushes : SF_vars(PushStep(p))
    /\ WF_vars(\E c \in creating, state \in {"open", "closed"} : EndCreatePull(c, state))

-----------------------------------------------------------------------------
(* Safety *)

\* Where the log has a ref before its i-th event.  A requested event comes after the push
\* that it is about and has the same commit.
Told(start, f, i) == IF i = 1 THEN start[f] ELSE events[f][i - 1].after

\* The events that do not begin where the one before them ended.
Breaks(start, f) ==
    {i \in DOMAIN events[f] : /\ events[f][i].event = "push"
                              /\ events[f][i].before # Told(start, f, i)}

\* Movements of a ref since start that the log does not tell: breaks, or a ref that is not
\* where the last event left it.
Gaps(start, f) ==
    Cardinality(Breaks(start, f)) + IF Told(start, f, Len(events[f]) + 1) = refs[f] THEN 0 ELSE 1

\* The push events of a ref chain up to what git has now, except that every observation
\* error that was recorded may have lost one link: no other movement is ever lost, invented,
\* or told with a stale before (docs/p1-ref-events-proof.md, 24-28).
GapsAreRecorded == receiveLock = NoPush => \A f \in Refs : Gaps(NoRefs, f) <= observationErrors

EventsBy(p, f) == {i \in DOMAIN events[f] : events[f][i].by = p /\ events[f][i].event = "push"}

\* A push is told of exactly the refs that it moved itself, once each, however pushes
\* overlap; one that failed is told of none.
EventsAreAttributed ==
    \A p \in Pushes, f \in Refs :
        /\ pc[p] = "replied" => Cardinality(EventsBy(p, f)) = IF f \in pushed[p] THEN 1 ELSE 0
        /\ pc[p] \in {"idle", "waiting", "refused", "failed"} => EventsBy(p, f) = {}

RunsBy(p, f) == {i \in DOMAIN events[f] : events[f][i].by = p /\ events[f][i].event = "requested"}

\* A push that has been recorded has requested one run if it left the release ref at a commit,
\* and then for that commit; none for another branch, a deletion, or a branch that it did not
\* move (docs/p1-ref-events-proof.md, 16-18).  Whoever reconfigures the workflow during the
\* push gets the one or the other release ref, and no third one.
RunsAreForTheReleaseRef ==
    \A p \in Pushes, f \in Refs :
        LET moved == f \in pushed[p] /\ refs[f] # NoSHA IN
        /\ pc[p] \in {"recorded", "refreshing", "resolving", "resolved"} =>
              /\ Cardinality(RunsBy(p, f)) <= 1
              /\ \A i \in RunsBy(p, f) : moved /\ events[f][i].after = refs[f]
        /\ pc[p] = "recorded" =>
              /\ RunsBy(p, f) # {} => f \in released
              /\ released = {f} /\ moved => RunsBy(p, f) # {}

\* The commit that a ref was last moved from, according to the log.
MovedFrom(f) == IF events[f] = <<>> THEN NoSHA ELSE events[f][Len(events[f])].before

\* The commit that a ref has, or had last.
LastSHA(f) == IF refs[f] # NoSHA THEN refs[f] ELSE MovedFrom(f)

\* Between pushes the commits kept with a pull request are those of its refs, and those the
\* refs had last if they were deleted, although createPullRequest and the refresh resolve
\* refs at different times and under different locks.  An unobserved push leaves them behind
\* until the next one, and for good if that one deletes the ref.
SnapshotsFollowRefs ==
    receiveLock = NoPush =>
        \A k \in DOMAIN pulls :
            LET kept(f, sha) ==
                    /\ ~unobserved /\ refs[f] # NoSHA => sha = refs[f]
                    /\ observationErrors = 0 => sha = LastSHA(f)
            IN kept(pulls[k].baseRef, pulls[k].baseSHA) /\ kept(pulls[k].headRef, pulls[k].headSHA)

-----------------------------------------------------------------------------
(* Action and liveness properties *)

\* A refresh writes back a pull request that others may have changed since it was listed; it
\* never undoes a change of state, nor drops a pull request.
RefreshKeepsChanges ==
    [][\A k \in DOMAIN pulls :
          /\ k \in DOMAIN pulls'
          /\ pc' # pc => pulls'[k].state = pulls[k].state]_vars

\* A push that waits for the receive lock is answered: whatever fails before it, the lock is
\* given back.
PushesAreAnswered ==
    \A p \in Pushes : pc[p] = "waiting" ~> pc[p] \in {"failed", "replied"}
=============================================================================
