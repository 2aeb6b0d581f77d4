---------------------------- MODULE RefRestartProofs ----------------------------
(***************************************************************************)
(* What RefEventsProofs shows of one life of the server holds in every     *)
(* life, for every number of restarts, wherever the earlier ones ended.    *)
(***************************************************************************)
EXTENDS RefRestart, RefEventsProofs

-----------------------------------------------------------------------------
(* The inductive invariant *)

\* A world that does not have the repository yet knows nothing of it.
Fresh ==
    /\ events = [f \in Refs |-> <<>>]
    /\ observationErrors = 0
    /\ creating = {}
    /\ pulls = <<>>
    /\ \A p \in Pushes : pc[p] \in {"idle", "failed"}
    /\ \A p \in Pushes : snapshot[p] = {} /\ todo[p] = {}

RestartInv ==
    /\ PushInv
    /\ PullInv
    /\ created \in BOOLEAN
    /\ created => GapsRight(origin)
    /\ ~created => Fresh

-----------------------------------------------------------------------------
(* Steps *)

\* A chain without events begins where the branches are.
LEMMA FreshChain ==
    ASSUME Fresh, NEW start, start = refs
    PROVE  GapsRight(start)
<1>1. \A f \in Refs : Breaks(start, f) = {} /\ Told(start, f, Len(events[f]) + 1) = refs[f]
  BY DEF Fresh, Breaks, Told
<1>2. \A p \in Pushes : pc[p] \notin Unrecorded
  BY DEF Fresh, Unrecorded
<1>3. IsFiniteSet({}) /\ Cardinality({}) = 0
  BY FS_EmptySet
<1>4. \A f \in Refs : Missing(start, refs, f) = 0
  <2> SUFFICES ASSUME NEW f \in Refs PROVE Missing(start, refs, f) = 0
    OBVIOUS
  <2>1. Cardinality(Breaks(start, f)) = 0
    BY <1>1, <1>3
  <2>2. Told(start, f, Len(events[f]) + 1) = refs[f]
    BY <1>1
  <2>3. QED
    BY <2>1, <2>2 DEF Missing
<1>5. \A f \in Refs : IsFiniteSet(Breaks(start, f))
  BY <1>1, <1>3
<1>6. observationErrors = 0
  BY DEF Fresh
<1>7. QED
  BY <1>2, <1>4, <1>5, <1>6 DEF GapsRight

LEMMA FreshPulls == Fresh => PullInv
BY DEF Fresh, PullInv, SnapshotsRight, CreatingRight, PullsRight

LEMMA RestartInitInv == RestartInit => RestartInv
<1> SUFFICES ASSUME RestartInit PROVE RestartInv
  OBVIOUS
<1>1. Fresh
  BY DEF RestartInit, Init, Fresh
<1>2. QED
  BY <1>1, PushInvInit, FreshPulls DEF RestartInit, RestartInv

\* The server serves as it does without restarts.
LEMMA ServingStep ==
    ASSUME RestartInv, created, [Next]_vars, UNCHANGED restartVars
    PROVE  RestartInv'
<1>1. PushInv' /\ PullInv'
  BY PushInvStep, PullInvStep DEF RestartInv
<1>2. PICK start : start = origin
  OBVIOUS
<1>3. GapsRight(start)
  BY <1>2 DEF RestartInv
<1>4. GapsRight(start)'
  BY <1>3, GapsStep DEF RestartInv, PushInv
<1>5. GapsRight(origin)'
  BY <1>2, <1>4 DEF restartVars, GapsRight, Missing, Breaks, Told
<1>6. QED
  BY <1>1, <1>5 DEF RestartInv, restartVars

LEMMA createRepositoryStep ==
    ASSUME RestartInv, createRepository
    PROVE  RestartInv'
<1>1. Fresh /\ UNCHANGED vars /\ origin' = refs /\ created' = TRUE
  BY DEF RestartInv, createRepository
<1>2. PushInv'
  BY <1>1, PushInvStep DEF RestartInv
<1>4. PullInv'
  BY <1>1, PullInvStep DEF RestartInv
<1>5. PICK start : start = refs
  OBVIOUS
<1>6. GapsRight(start)
  BY <1>1, <1>5, FreshChain
<1>7. GapsRight(origin)'
  BY <1>1, <1>5, <1>6
     DEF GapsRight, Missing, Breaks, Told, vars, worldVars, pushVars
<1>8. QED
  BY <1>1, <1>2, <1>4, <1>7 DEF RestartInv

\* Nobody has looked at the branches that git config takes away.
LEMMA FailCreateRepositoryStep ==
    ASSUME RestartInv, FailCreateRepository
    PROVE  RestartInv'
<1>1. Fresh /\ refs' = NoRefs /\ UNCHANGED <<worldVars, pushVars, historyVars>>
      /\ created' = created /\ ~created
  BY DEF RestartInv, FailCreateRepository, restartVars
<1>2. Fresh'
  BY <1>1 DEF Fresh, worldVars, pushVars
<1>3. TypeOK'
  BY <1>1, NoRefsType DEF RestartInv, PushInv, TypeOK, worldVars, pushVars, historyVars
<1>4. Listed' /\ LockHeld' /\ RunsFollowPushes'
  BY <1>1 DEF RestartInv, PushInv, Listed, LockHeld, RunsFollowPushes, worldVars, pushVars
<1>5. ASSUME NEW p \in Pushes PROVE MovedRight(p)' /\ \A f \in Refs : ToldRight(p, f)'
  <2>1. MovedRight(p) /\ \A f \in Refs : ToldRight(p, f)
    BY DEF RestartInv, PushInv
  <2>2. pc[p] \in {"idle", "failed"}
    BY <1>1 DEF Fresh
  <2>3. MovedRight(p)'
    BY <1>1, <2>1, <2>2 DEF MovedRight, Unrecorded, pushVars, historyVars
  <2>4. \A f \in Refs : ToldRight(p, f)'
    BY <1>1, <2>1 DEF ToldRight, EventsBy, worldVars, pushVars, historyVars
  <2>5. QED
    BY <2>3, <2>4
<1>6. PullInv'
  BY <1>2 DEF Fresh, PullInv, SnapshotsRight, CreatingRight, PullsRight
<1>7. \A p \in Pushes : ReleaseRight(p)'
  BY <1>2 DEF Fresh, ReleaseRight, Unrecorded, Refreshing
<1>8. QED
  BY <1>1, <1>2, <1>3, <1>4, <1>5, <1>6, <1>7 DEF RestartInv, PushInv

\* Whatever the pushes were at, the new world begins without them.
LEMMA RestartStep ==
    ASSUME RestartInv, Restart
    PROVE  RestartInv'
<1> USE DEF Restart, NewWorld, EndPushes
<1>0. TypeOK /\ \A p \in Pushes : MovedRight(p)
  BY DEF RestartInv, PushInv
<1>1. Fresh'
  BY DEF Fresh
<1>2. TypeOK'
  <2>1. <<>> \in PullMap
    <3>1. DOMAIN <<>> = {} /\ <<>> \in [{} -> PullRequest]
      OBVIOUS
    <3>2. QED
      BY <3>1, PullMapIs
  <2>2. Cardinality({}) <= 1
    BY FS_EmptySet
  <2>3. [f \in Refs |-> <<>>] \in [Refs -> Seq(Event)]
    OBVIOUS
  <2>4. /\ pc' \in [Pushes -> Stages]
        /\ before' \in [Pushes -> RefMap] /\ after' \in [Pushes -> RefMap]
        /\ todo' \in [Pushes -> SUBSET Pulls] /\ snapshot' \in [Pushes -> SUBSET Snapshot]
    BY NoRefsType DEF Stages
  <2>5. QED
    BY <1>0, <2>1, <2>2, <2>3, <2>4 DEF TypeOK
<1>3. Listed'
  BY DEF Listed
<1>4. LockHeld'
  BY NoPushAssumption DEF LockHeld, Holding, Unrecorded, Refreshing
<1>5. ASSUME NEW p \in Pushes PROVE MovedRight(p)' /\ \A f \in Refs : ToldRight(p, f)'
  <2>1. pc'[p] \in {"idle", "failed"} /\ (pc'[p] = "idle" => pc[p] = "idle") /\ pushed' = pushed
    OBVIOUS
  <2>2. MovedRight(p)'
    BY <1>0, <2>1 DEF MovedRight, Unrecorded
  <2>3. \A f \in Refs : ToldRight(p, f)'
    BY <2>1 DEF ToldRight, EventsBy, Refreshing
  <2>4. QED
    BY <2>2, <2>3
<1>6. RunsFollowPushes'
  BY DEF RunsFollowPushes
<1>7. PullInv'
  BY <1>1 DEF Fresh, PullInv, SnapshotsRight, CreatingRight, PullsRight
<1>8. \A p \in Pushes : ReleaseRight(p)'
  BY <1>1 DEF Fresh, ReleaseRight, Unrecorded, Refreshing
<1>9. QED
  BY <1>1, <1>2, <1>3, <1>4, <1>5, <1>6, <1>7, <1>8 DEF RestartInv, PushInv

LEMMA RestartInvariance == RestartSpec => []RestartInv
<1>1. ASSUME RestartInv, [RestartNext]_allVars PROVE RestartInv'
  <2>1. CASE UNCHANGED allVars
    <3>1. UNCHANGED vars /\ UNCHANGED restartVars
      BY <2>1 DEF allVars
    <3>2. CASE created
      BY <1>1, <3>1, <3>2, ServingStep
    <3>3. CASE ~created
      <4>1. PushInv' /\ PullInv'
        BY <1>1, <3>1, PushInvStep, PullInvStep DEF RestartInv
      <4>2. Fresh' /\ created' = created
        BY <1>1, <3>1, <3>3 DEF RestartInv, Fresh, restartVars, vars, worldVars, pushVars
      <4>3. QED
        BY <1>1, <3>3, <4>1, <4>2 DEF RestartInv
    <3>4. QED
      BY <3>2, <3>3
  <2>2. CASE created /\ Next /\ UNCHANGED restartVars
    BY <1>1, <2>2, ServingStep
  <2>3. QED
    BY <1>1, <2>1, <2>2, createRepositoryStep, FailCreateRepositoryStep, RestartStep
       DEF RestartNext
<1>2. QED
  BY <1>1, RestartInitInv, PTL DEF RestartSpec

-----------------------------------------------------------------------------
(* Theorems *)

\* However often the server is started again, and wherever its predecessors were cut off, the
\* push events of a branch lead from where git had it when the repository was created anew to
\* where git has it now, but for one movement for every observation error recorded.
THEOREM ChainsCorrect == RestartSpec => []ChainsBeginOnDisk
<1>1. ASSUME RestartInv PROVE ChainsBeginOnDisk
  <2>1. PICK start : start = origin
    OBVIOUS
  <2>2. created => GapsRight(start)
    BY <1>1, <2>1 DEF RestartInv
  <2>3. created /\ receiveLock = NoPush => \A f \in Refs : Gaps(start, f) <= observationErrors
    BY <1>1, <2>2, GapsFollow DEF RestartInv
  <2>4. QED
    BY <2>1, <2>3 DEF ChainsBeginOnDisk
<1>2. QED
  BY <1>1, RestartInvariance, PTL

\* In every life of the server a push that it answers is told of exactly the refs that it
\* moved, and a push that an earlier life was answering is told of nothing.
THEOREM RestartAttribution == RestartSpec => []EventsAreAttributed
<1>1. RestartInv => EventsAreAttributed
  BY AttributionFollows DEF RestartInv
<1>2. QED
  BY <1>1, RestartInvariance, PTL

\* In every life of the server the commits kept with a pull request are, between pushes, those
\* of its refs, whatever branches an earlier life left behind.
THEOREM RestartSnapshots == RestartSpec => []SnapshotsFollowRefs
<1>1. RestartInv => SnapshotsFollowRefs
  BY SnapshotsFollow DEF RestartInv
<1>2. QED
  BY <1>1, RestartInvariance, PTL

\* In every life of the server the types hold that RefEvents declares, whatever a cut-off push
\* left behind, and a push requests its run for the release ref that this life was given.
THEOREM RestartRuns == RestartSpec => [](TypeOK /\ RunsAreForTheReleaseRef)
<1>1. RestartInv => TypeOK /\ RunsAreForTheReleaseRef
  BY RunsFollow DEF RestartInv, PushInv
<1>2. QED
  BY <1>1, RestartInvariance, PTL
===============================================================================
