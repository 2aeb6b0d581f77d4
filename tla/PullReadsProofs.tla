---------------------------- MODULE PullReadsProofs ----------------------------
(***************************************************************************)
(* What PullReads says of a Get that pushes overtake, for every number of  *)
(* branches, commits, pushes, pull requests and readers.                   *)
(***************************************************************************)
EXTENDS PullReads, RefEventsProofs

-----------------------------------------------------------------------------
(* The inductive invariant *)

\* The last commit of a branch that is gone: where the log has it moved from, or where it was
\* when the push that has just deleted it began.
LastRight ==
    \A f \in Refs :
        /\ refs[f] # NoSHA => lastSHA[f] = refs[f]
        /\ observationErrors = 0 /\ refs[f] = NoSHA =>
              /\ (\A p \in Pushes : ~(pc[p] \in Unrecorded /\ f \in pushed[p])) =>
                    lastSHA[f] = MovedFrom(f)
              /\ \A p \in Pushes : pc[p] \in Unrecorded /\ f \in pushed[p] =>
                    lastSHA[f] = before[p][f]

\* The push that moves branches began when they had, or had last, what it saw first.
AtPushRight ==
    \A p \in Pushes : pc[p] \in Unrecorded =>
        \A f \in Refs :
            /\ before[p][f] # NoSHA => atPush[f] = before[p][f]
            /\ before[p][f] = NoSHA /\ observationErrors = 0 => atPush[f] = MovedFrom(f)

\* The last commit of branch f, or the last one it had when the latest push began.
Recent(f, sha) == sha = lastSHA[f] \/ sha = atPush[f]

\* A push that refreshes the pull requests finds nothing older than itself.
KeptRecent ==
    \A p \in Pushes : pc[p] \in Refreshing /\ observationErrors = 0 =>
        \A k \in DOMAIN pulls : /\ Recent(pulls[k].baseRef, pulls[k].baseSHA)
                                /\ Recent(pulls[k].headRef, pulls[k].headSHA)

\* A commit that a reader may fall back on.
FallbackRight(g, f, sha) ==
    observationErrors = 0 =>
        /\ HadDuring(g, f) = {NoSHA} => sha = began[g].last[f]
        /\ sha \in HadDuring(g, f) \cup {began[g].last[f], began[g].push[f]}

\* A commit that a reader may report.
ReportRight(g, f, sha) ==
    /\ FallbackRight(g, f, sha)
    /\ NoSHA \notin HadDuring(g, f) => sha \in HadDuring(g, f)

ReaderRight(g) ==
    /\ getPc[g] \in {"copied", "based"} => refs \in lived[g]
    /\ getPc[g] = "copied" => \A pull \in copy[g] :
          FallbackRight(g, pull.baseRef, pull.baseSHA) /\ FallbackRight(g, pull.headRef, pull.headSHA)
    /\ getPc[g] = "based" => \A pull \in copy[g] :
          ReportRight(g, pull.baseRef, pull.baseSHA) /\ FallbackRight(g, pull.headRef, pull.headSHA)
    /\ getPc[g] = "replied" => \A pull \in copy[g] :
          ReportRight(g, pull.baseRef, pull.baseSHA) /\ ReportRight(g, pull.headRef, pull.headSHA)

ReadsInv ==
    /\ PushInv
    /\ PullInv
    /\ ReadsTypeOK
    /\ LastRight
    /\ AtPushRight
    /\ KeptRecent
    /\ \A g \in Readers : ReaderRight(g)

-----------------------------------------------------------------------------
(* Branches and their last commits *)

LEMMA ReadsInitInv == ReadsInit => ReadsInv
<1> SUFFICES ASSUME ReadsInit PROVE ReadsInv
  OBVIOUS
<1>1. PushInv /\ PullInv
  BY PushInvInit, PullInvInit DEF ReadsInit
<1>2. ReadsTypeOK
  BY NoRefsType DEF ReadsInit, ReadsTypeOK
<1>3. LastRight
  BY DEF ReadsInit, Init, LastRight, NoRefs, Unrecorded, MovedFrom
<1>4. \A g \in Readers : ReaderRight(g)
  BY DEF ReadsInit, ReaderRight
<1>5. AtPushRight /\ KeptRecent
  BY DEF ReadsInit, Init, AtPushRight, KeptRecent, Unrecorded, Refreshing
<1>6. QED
  BY <1>1, <1>2, <1>3, <1>4, <1>5 DEF ReadsInv

\* A push that moves a branch moves it once, from where the log has it.
LEMMA LastReceived ==
    ASSUME PushInv, LastRight, OtherStep,
           NEW p \in Pushes, NEW g \in Refs, NEW sha \in Values, ReceiveRef(p, g, sha)
    PROVE  LastRight'
<1>1. TypeOK /\ LockHeld /\ MovedRight(p)
  BY DEF PushInv
<1>2. /\ pc[p] = "receiving" /\ g \notin pushed[p] /\ sha # refs[g]
      /\ UNCHANGED <<events, observationErrors, pc, before>>
      /\ refs' = [refs EXCEPT ![g] = sha] /\ pushed' = [pushed EXCEPT ![p] = pushed[p] \cup {g}]
  BY DEF ReceiveRef, worldVars, pushVars
<1>3. /\ refs'[g] = sha /\ \A f \in Refs : f # g => refs'[f] = refs[f]
      /\ pushed'[p] = pushed[p] \cup {g} /\ \A q \in Pushes : q # p => pushed'[q] = pushed[q]
  BY <1>1, <1>2 DEF TypeOK, RefMap
<1>4. refs[g] = before[p][g]
  BY <1>1, <1>2 DEF MovedRight, Unrecorded
<1>5. \A q \in Pushes : pc[q] \in Unrecorded => q = p
  BY <1>1, <1>2, OneHolder DEF Holding, Unrecorded
<1>6. \A f \in Refs : lastSHA'[f] = IF refs'[f] # NoSHA THEN refs'[f] ELSE lastSHA[f]
  BY DEF OtherStep
<1>7. \A f \in Refs : MovedFrom(f)' = MovedFrom(f)
  BY <1>2 DEF MovedFrom
<1> SUFFICES ASSUME NEW f \in Refs, refs'[f] = NoSHA, observationErrors' = 0
             PROVE  /\ (\A q \in Pushes : ~(pc'[q] \in Unrecorded /\ f \in pushed'[q])) =>
                          lastSHA'[f] = MovedFrom(f)'
                    /\ \A q \in Pushes : pc'[q] \in Unrecorded /\ f \in pushed'[q] =>
                          lastSHA'[f] = before'[q][f]
  BY <1>6 DEF LastRight
<1>8. lastSHA'[f] = lastSHA[f]
  BY <1>6
<1>9. CASE f = g
  <2>1. refs[f] # NoSHA /\ lastSHA[f] = before[p][f]
    BY <1>2, <1>3, <1>4, <1>9 DEF LastRight
  <2>2. pc'[p] \in Unrecorded /\ f \in pushed'[p]
    BY <1>2, <1>3, <1>9 DEF Unrecorded
  <2>3. QED
    BY <1>2, <1>5, <1>8, <2>1, <2>2
<1>10. CASE f # g
  <2>1. refs[f] = NoSHA /\ observationErrors = 0
    BY <1>2, <1>3, <1>10
  <2>2. \A q \in Pushes : pc'[q] = pc[q] /\ (f \in pushed'[q] <=> f \in pushed[q])
    BY <1>2, <1>3, <1>10
  <2>3. QED
    BY <1>2, <1>7, <1>8, <2>1, <2>2 DEF LastRight
<1>11. QED
  BY <1>9, <1>10

\* The event of a deletion has the commit that was deleted.
LEMMA LastRecorded ==
    ASSUME PushInv, LastRight, OtherStep, NEW p \in Pushes, recordRefChanges(p)
    PROVE  LastRight'
<1>1. TypeOK /\ LockHeld /\ MovedRight(p)
  BY DEF PushInv
<1>2. /\ pc[p] = "observed" /\ pc'[p] = "recorded" /\ \A q \in Pushes : q # p => pc'[q] = pc[q]
      /\ UNCHANGED <<refs, observationErrors, before, pushed>>
  BY <1>1 DEF recordRefChanges, Goto, TypeOK, historyVars
<1>3. after[p] = refs /\ \A f \in Refs : f \in pushed[p] <=> refs[f] # before[p][f]
  BY <1>1, <1>2 DEF MovedRight, Unrecorded
<1>4. \A q \in Pushes : pc[q] \in Unrecorded => q = p
  BY <1>1, <1>2, OneHolder DEF Holding, Unrecorded
<1>5. \A q \in Pushes : pc'[q] \notin Unrecorded
  BY <1>2, <1>4 DEF Unrecorded
<1>6. \A f \in Refs : lastSHA'[f] = IF refs[f] # NoSHA THEN refs[f] ELSE lastSHA[f]
  BY <1>2 DEF OtherStep
<1> SUFFICES ASSUME NEW f \in Refs, refs[f] = NoSHA, observationErrors = 0
             PROVE  lastSHA'[f] = MovedFrom(f)'
  BY <1>2, <1>5, <1>6 DEF LastRight
<1>7. CASE f \in pushed[p]
  <2>1. lastSHA[f] = before[p][f]
    BY <1>2, <1>7 DEF LastRight, Unrecorded
  <2>2. PICK n \in Nat : n = Len(events[f])
    BY <1>1, RecordFacts
  <2>3. /\ Len(events'[f]) = n + 1 /\ events'[f][n + 1].before = before[p][f]
        /\ events'[f] \in Seq(Event)
    BY <1>1, <1>3, <1>7, <2>2, RecordFacts
  <2>4. events'[f] # <<>>
    BY <2>3
  <2>5. MovedFrom(f)' = before[p][f]
    BY <2>3, <2>4 DEF MovedFrom
  <2>6. QED
    BY <1>6, <2>1, <2>5
<1>8. CASE f \notin pushed[p]
  <2>1. events'[f] = events[f]
    BY <1>1, <1>3, <1>8, RecordFacts
  <2>2. lastSHA[f] = MovedFrom(f)
    BY <1>4, <1>8 DEF LastRight
  <2>3. QED
    BY <1>6, <2>1, <2>2 DEF MovedFrom
<1>9. QED
  BY <1>7, <1>8

LEMMA LastStep ==
    ASSUME PushInv, LastRight, OtherStep
    PROVE  LastRight'
<1>1. TypeOK /\ LockHeld /\ (\A p \in Pushes : MovedRight(p)) /\ [Next]_vars
  BY DEF PushInv, OtherStep
<1>2. \A f \in Refs : lastSHA'[f] = IF refs'[f] # NoSHA THEN refs'[f] ELSE lastSHA[f]
  BY DEF OtherStep
\* Nothing but stages changes, and no push begins or ceases to move branches.
<1>3. ASSUME UNCHANGED <<refs, events, observationErrors, pushed>>,
             \A p \in Pushes : /\ pc'[p] \in Unrecorded <=> pc[p] \in Unrecorded
                               /\ pc[p] \in Unrecorded => before'[p] = before[p]
      PROVE  LastRight'
  <2>1. \A f \in Refs : lastSHA'[f] = lastSHA[f] /\ MovedFrom(f)' = MovedFrom(f)
    BY <1>2, <1>3 DEF LastRight, MovedFrom
  <2>2. QED
    BY <1>3, <2>1 DEF LastRight
<1>4. ASSUME NEW p \in Pushes, FailAfter(p) PROVE LastRight'
  <2>1. refs' = refs /\ observationErrors' # 0
    BY <1>1, <1>4 DEF FailAfter, TypeOK
  <2>2. QED
    BY <1>2, <2>1 DEF LastRight
<1>5. ASSUME NEW p \in Pushes, SnapshotBefore(p) PROVE LastRight'
  <2>1. /\ UNCHANGED <<refs, events, observationErrors, pushed>>
        /\ pc[p] = "locked" /\ pc'[p] = "receiving"
        /\ \A q \in Pushes : q # p => pc'[q] = pc[q] /\ before'[q] = before[q]
    BY <1>1, <1>5 DEF SnapshotBefore, Goto, TypeOK, worldVars, historyVars
  <2>2. pushed[p] = {}
    BY <1>1, <2>1 DEF MovedRight
  <2>3. \A f \in Refs : lastSHA'[f] = lastSHA[f] /\ MovedFrom(f)' = MovedFrom(f)
    BY <1>2, <2>1 DEF LastRight, MovedFrom
  <2>4. \A q \in Pushes, f \in Refs :
           /\ pc'[q] \in Unrecorded /\ f \in pushed'[q] <=> pc[q] \in Unrecorded /\ f \in pushed[q]
           /\ pc[q] \in Unrecorded /\ f \in pushed[q] => before'[q] = before[q]
    BY <2>1, <2>2 DEF Unrecorded
  <2>5. QED
    BY <2>1, <2>3, <2>4 DEF LastRight
<1>6. CASE UNCHANGED <<pc, receiveLock>>
  <2>1. /\ UNCHANGED <<events, observationErrors, before>>
        /\ \/ refs' = refs /\ pushed' = pushed
           \/ \E p \in Pushes, f \in Refs, sha \in Values : ReceiveRef(p, f, sha)
    BY <1>1, <1>6, StandingStill
  <2>2. CASE refs' = refs /\ pushed' = pushed
    BY <1>3, <1>6, <2>1, <2>2
  <2>3. QED
    BY <2>1, <2>2, LastReceived
<1>7. ASSUME NEW p \in Pushes, NEW from \in Stages, NEW to \in Stages, PcStep(p, from, to)
      PROVE  LastRight'
  <2>1. /\ pc[p] = from /\ pc'[p] = to /\ refs' = refs /\ pushed' = pushed
        /\ \A q \in Pushes : q # p => pc'[q] = pc[q] /\ before'[q] = before[q]
    BY <1>1, <1>7, OthersStay
  <2>2. CASE \E q \in Pushes : recordRefChanges(q) \/ FailAfter(q) \/ SnapshotBefore(q)
    BY <1>4, <1>5, <2>2, LastRecorded
  <2>3. CASE ~\E q \in Pushes : recordRefChanges(q) \/ FailAfter(q) \/ SnapshotBefore(q)
    <3>1. UNCHANGED <<events, observationErrors, before>>
      BY <1>1, <2>3, Frames
    <3>2. pc'[p] \in Unrecorded <=> pc[p] \in Unrecorded
      BY <1>7, <2>1, <2>3 DEF PcStep, Moves, Exits, Unrecorded
    <3>3. QED
      BY <1>3, <2>1, <3>1, <3>2
  <2>4. QED
    BY <2>2, <2>3
<1>8. QED
  BY <1>1, <1>6, <1>7, PcSteps

\* What is kept for a branch that is gone is its last commit, also while the push that has
\* deleted it is under way.
LEMMA KeptIsLast ==
    ASSUME PushInv, PullInv, LastRight, NEW k \in DOMAIN pulls, NEW f \in Refs, NEW sha,
           KeptRight(k, f, sha), observationErrors = 0, refs[f] = NoSHA
    PROVE  sha = lastSHA[f]
<1>1. LockHeld /\ \A p \in Pushes : MovedRight(p)
  BY DEF PushInv
<1>2. LastSHA(f) = MovedFrom(f)
  BY DEF LastSHA
<1>3. ASSUME NEW p \in Pushes, pc[p] \in Unrecorded PROVE sha = lastSHA[f]
  <2>1. SeenBy(p, f, sha)
    BY <1>3 DEF KeptRight
  <2>2. CASE f \in pushed[p]
    BY <1>1, <1>3, <2>1, <2>2 DEF SeenBy, LastRight, MovedRight
  <2>3. CASE f \notin pushed[p]
    <3>1. before[p][f] = NoSHA
      BY <1>1, <1>3, <2>3 DEF MovedRight
    <3>2. \A q \in Pushes : pc[q] \in Unrecorded => q = p
      BY <1>1, <1>3, OneHolder DEF Holding
    <3>3. QED
      BY <2>1, <2>3, <3>1, <3>2 DEF SeenBy, LastRight
  <2>4. QED
    BY <2>2, <2>3
<1>4. CASE \A p \in Pushes : pc[p] \notin Unrecorded
  <2>1. sha = LastSHA(f)
    BY <1>4 DEF KeptRight, Quiet
  <2>2. QED
    BY <1>2, <1>4, <2>1 DEF LastRight
<1>5. QED
  BY <1>3, <1>4

LEMMA ErrorsStay ==
    ASSUME TypeOK, [Next]_vars
    PROVE  observationErrors' = 0 => observationErrors = 0
<1>1. observationErrors' = observationErrors \/ \E p \in Pushes : FailAfter(p)
  BY Frames
<1>2. QED
  BY <1>1 DEF FailAfter, TypeOK

LEMMA AtPushStep ==
    ASSUME PushInv, LastRight, AtPushRight, OtherStep
    PROVE  AtPushRight'
<1>1. TypeOK /\ LockHeld /\ [Next]_vars
  BY DEF PushInv, OtherStep
<1>2. observationErrors' = 0 => observationErrors = 0
  BY <1>1, ErrorsStay
<1> SUFFICES ASSUME NEW p \in Pushes, pc'[p] \in Unrecorded, NEW f \in Refs
             PROVE  /\ before'[p][f] # NoSHA => atPush'[f] = before'[p][f]
                    /\ before'[p][f] = NoSHA /\ observationErrors' = 0 =>
                          atPush'[f] = MovedFrom(f)'
  BY DEF AtPushRight
<1>3. ASSUME NEW q \in Pushes, SnapshotBefore(q)
      PROVE  /\ before'[p][f] # NoSHA => atPush'[f] = before'[p][f]
             /\ before'[p][f] = NoSHA /\ observationErrors' = 0 => atPush'[f] = MovedFrom(f)'
  <2>1. /\ atPush' = lastSHA /\ before'[q] = refs /\ events' = events
        /\ pc[q] = "locked" /\ \A r \in Pushes : r # q => pc'[r] = pc[r]
    BY <1>1, <1>3 DEF OtherStep, SnapshotBefore, Goto, TypeOK, worldVars
  <2>2. \A r \in Pushes : pc[r] \notin Unrecorded
    BY <1>1, <2>1, OneHolder DEF Holding, Unrecorded
  <2>3. p = q
    BY <2>1, <2>2
  <2>4. MovedFrom(f)' = MovedFrom(f)
    BY <2>1 DEF MovedFrom
  <2>5. QED
    BY <1>2, <2>1, <2>2, <2>3, <2>4 DEF LastRight
<1>4. CASE ~\E q \in Pushes : SnapshotBefore(q)
  <2>1. atPush' = atPush /\ before' = before
    BY <1>1, <1>4, Frames DEF OtherStep
  <2>2. pc[p] \in Unrecorded /\ events' = events
    <3>1. CASE UNCHANGED <<pc, receiveLock>>
      BY <1>1, <3>1, StandingStill
    <3>2. ASSUME NEW q \in Pushes, NEW from \in Stages, NEW to \in Stages, PcStep(q, from, to)
          PROVE  pc[p] \in Unrecorded /\ events' = events
      <4>1. /\ pc[q] = from /\ pc'[q] = to
            /\ \A r \in Pushes : r # q => pc'[r] = pc[r]
        BY <1>1, <3>2, OthersStay
      <4>2. pc[p] \in Unrecorded
        BY <1>4, <3>2, <4>1 DEF PcStep, Moves, Exits, Unrecorded
      <4>3. \A r \in Pushes : ~recordRefChanges(r)
        <5>1. ASSUME NEW r \in Pushes, recordRefChanges(r) PROVE FALSE
          <6>1. pc[r] = "observed" /\ pc'[r] = "recorded"
            BY <1>1, <5>1 DEF recordRefChanges, Goto, TypeOK
          <6>2. r = p
            BY <1>1, <4>2, <6>1, OneHolder DEF Holding, Unrecorded
          <6>3. QED
            BY <6>1, <6>2 DEF Unrecorded
        <5>2. QED
          BY <5>1
      <4>4. QED
        BY <1>1, <4>2, <4>3, Frames
    <3>3. QED
      BY <1>1, <3>1, <3>2, PcSteps
  <2>3. MovedFrom(f)' = MovedFrom(f)
    BY <2>2 DEF MovedFrom
  <2>4. QED
    BY <1>2, <2>1, <2>2, <2>3 DEF AtPushRight
<1>5. QED
  BY <1>3, <1>4

\* What a pull request keeps is the last commit of its branch, or the last one when the push
\* began that is under way.
LEMMA KeptOutside ==
    ASSUME PushInv, LastRight, AtPushRight, NEW k, NEW f \in Refs, NEW sha,
           KeptRight(k, f, sha), observationErrors = 0, \A p \in Pushes : pc[p] \notin Refreshing
    PROVE  \/ sha = lastSHA[f]
           \/ sha = atPush[f] /\ \E p \in Pushes : pc[p] \in Unrecorded
<1>1. ASSUME NEW p \in Pushes, pc[p] \in Unrecorded PROVE sha = lastSHA[f] \/ sha = atPush[f]
  <2>1. SeenBy(p, f, sha)
    BY <1>1 DEF KeptRight
  <2>2. QED
    BY <1>1, <2>1 DEF SeenBy, AtPushRight, LastRight
<1>2. CASE \A p \in Pushes : pc[p] \notin Unrecorded
  <2>1. sha = LastSHA(f)
    BY <1>2 DEF KeptRight, Quiet
  <2>2. QED
    BY <1>2, <2>1 DEF LastSHA, LastRight
<1>3. QED
  BY <1>1, <1>2

\* While a push refreshes, pull requests are stored with the commits that git has, or keep
\* what they had.
LEMMA RefreshStores ==
    ASSUME PushInv, PullInv, [Next]_vars, NEW p \in Pushes, pc[p] \in Refreshing,
           NEW k \in DOMAIN pulls'
    PROVE  /\ \/ refs[pulls'[k].baseRef] # NoSHA /\ pulls'[k].baseSHA = refs[pulls'[k].baseRef]
              \/ /\ k \in DOMAIN pulls /\ pulls'[k].baseRef = pulls[k].baseRef
                 /\ pulls'[k].baseSHA = pulls[k].baseSHA
           /\ \/ refs[pulls'[k].headRef] # NoSHA /\ pulls'[k].headSHA = refs[pulls'[k].headRef]
              \/ /\ k \in DOMAIN pulls /\ pulls'[k].headRef = pulls[k].headRef
                 /\ pulls'[k].headSHA = pulls[k].headSHA
<1> DEFINE Goal ==
             /\ \/ refs[pulls'[k].baseRef] # NoSHA /\ pulls'[k].baseSHA = refs[pulls'[k].baseRef]
                \/ /\ k \in DOMAIN pulls /\ pulls'[k].baseRef = pulls[k].baseRef
                   /\ pulls'[k].baseSHA = pulls[k].baseSHA
             /\ \/ refs[pulls'[k].headRef] # NoSHA /\ pulls'[k].headSHA = refs[pulls'[k].headRef]
                \/ /\ k \in DOMAIN pulls /\ pulls'[k].headRef = pulls[k].headRef
                   /\ pulls'[k].headSHA = pulls[k].headSHA
<1>0. TypeOK /\ LockHeld /\ SnapshotsRight /\ CreatingRight
  BY DEF PushInv, PullInv
<1>1. \A q \in Pushes : pc[q] \notin Unrecorded
  BY <1>0, OnlyPushCounts DEF Holding, Unrecorded, Refreshing
<1>2. ASSUME NEW q \in Pushes, StoreSnapshot(q) PROVE Goal
  <2>1. PICK s \in snapshot[q] : pulls' = [pulls EXCEPT ![s.key] = Refreshed(@, s)]
    BY <1>2 DEF StoreSnapshot
  <2>2. pc[q] = "resolved"
    BY <1>2 DEF StoreSnapshot, Goto
  <2>3. k \in DOMAIN pulls /\ pulls[k] \in PullRequest
    BY <1>0, <2>1, PullMapIs DEF TypeOK
  <2>4. CASE k # s.key
    BY <2>1, <2>3, <2>4
  <2>5. CASE k = s.key
    <3>1. s.baseSHA = refs[pulls[k].baseRef] /\ s.headSHA = refs[pulls[k].headRef]
      BY <1>0, <2>2, <2>5 DEF SnapshotsRight
    <3>2. pulls'[k] = Refreshed(pulls[k], s)
      BY <2>1, <2>3, <2>5
    <3>3. QED
      BY <2>3, <3>1, <3>2 DEF Refreshed, PullRequest
  <2>6. QED
    BY <2>4, <2>5
<1>3. ASSUME NEW c \in creating, NEW state, EndCreatePull(c, state) PROVE Goal
  <2>1. c.baseSHA = refs[c.baseRef]
    BY <1>0, <1>1 DEF CreatingRight
  <2>2. QED
    BY <1>3, <2>1 DEF EndCreatePull
<1>4. ASSUME NEW j, NEW state, changePullRequestState(j, state) PROVE Goal
  <2>1. k \in DOMAIN pulls /\ pulls[k] \in PullRequest
    BY <1>0, <1>4, PullMapIs DEF TypeOK, changePullRequestState
  <2>2. QED
    BY <1>4, <2>1 DEF changePullRequestState, PullRequest
<1>5. CASE pulls' = pulls
  BY <1>5
<1>6. QED
  BY <1>2, <1>3, <1>4, <1>5
     DEF Next, PushStep, ControlStep, AuthorizePush, LockReceive, SnapshotBefore, FailBefore,
         ReceiveRef, FinishReceive, SnapshotAfter, FailAfter, recordRefChanges, ListPulls,
         ResolveBase, ResolveHead, ReplyPush, BeginCreatePull, configureWorkflow, vars,
         worldVars

LEMMA KeptRecentStep ==
    ASSUME PushInv, PullInv, LastRight, AtPushRight, KeptRecent, OtherStep
    PROVE  KeptRecent'
<1>0. TypeOK /\ LockHeld /\ [Next]_vars
  BY DEF PushInv, OtherStep
<1>1. PullsRight
  BY DEF PullInv
<1> SUFFICES ASSUME NEW p \in Pushes, pc'[p] \in Refreshing, observationErrors' = 0,
                    NEW k \in DOMAIN pulls'
             PROVE  /\ Recent(pulls[k].baseRef, pulls[k].baseSHA)'
                    /\ Recent(pulls[k].headRef, pulls[k].headSHA)'
  BY DEF KeptRecent
<1>2. observationErrors = 0
  BY <1>0, ErrorsStay
<1>3. CASE pc[p] \in Refreshing
  <2>1. \A q \in Pushes : pc[q] \in Holding => q = p
    BY <1>0, <1>3, OneHolder DEF Holding
  <2>2. refs' = refs /\ atPush' = atPush
    <3>1. ~\E q \in Pushes, f \in Refs, sha \in Values : ReceiveRef(q, f, sha)
      BY <1>3, <2>1 DEF ReceiveRef, Holding, Unrecorded, Refreshing
    <3>2. ~\E q \in Pushes : SnapshotBefore(q)
      BY <1>3, <2>1 DEF SnapshotBefore, Goto, Holding, Refreshing
    <3>3. QED
      BY <1>0, <3>1, <3>2, Frames DEF OtherStep
  <2>3. \A f \in Refs : lastSHA'[f] = lastSHA[f] /\ (refs[f] # NoSHA => lastSHA[f] = refs[f])
    BY <2>2 DEF OtherStep, LastRight
  <2>4. pulls' \in PullMap
    BY <1>0, TypeStep DEF PushInv, TypeOK
  <2>5. /\ pulls'[k].baseRef \in Refs /\ pulls'[k].headRef \in Refs
        /\ pulls'[k].baseSHA \in SHAs /\ pulls'[k].headSHA \in SHAs
    BY <2>4, PullMapIs DEF PullRequest
  <2>6. k \in DOMAIN pulls => /\ Recent(pulls[k].baseRef, pulls[k].baseSHA)
                              /\ Recent(pulls[k].headRef, pulls[k].headSHA)
    BY <1>2, <1>3 DEF KeptRecent
  <2>7. PICK base \in Refs, head \in Refs, b \in SHAs, h \in SHAs :
           /\ base = pulls'[k].baseRef /\ head = pulls'[k].headRef
           /\ b = pulls'[k].baseSHA /\ h = pulls'[k].headSHA
    BY <2>5
  <2>8. b = lastSHA'[base] \/ b = atPush'[base]
    BY <1>0, <1>3, <2>2, <2>3, <2>6, <2>7, RefreshStores DEF Recent
  <2>9. h = lastSHA'[head] \/ h = atPush'[head]
    BY <1>0, <1>3, <2>2, <2>3, <2>6, <2>7, RefreshStores DEF Recent
  <2>10. QED
    BY <2>7, <2>8, <2>9 DEF Recent
<1>4. CASE pc[p] \notin Refreshing
  <2>1. recordRefChanges(p)
    <3>1. ~UNCHANGED <<pc, receiveLock>>
      BY <1>4
    <3>2. PICK q \in Pushes, from \in Stages, to \in Stages : PcStep(q, from, to)
      BY <1>0, <3>1, PcSteps
    <3>3. pc[q] = from /\ pc'[q] = to /\ \A r \in Pushes : r # q => pc'[r] = pc[r]
      BY <1>0, <3>2, OthersStay
    <3>4. QED
      BY <1>4, <3>2, <3>3 DEF PcStep, Moves, Exits, Refreshing
  <2>2. UNCHANGED <<refs, pulls>> /\ pc[p] = "observed"
    BY <2>1 DEF recordRefChanges, Goto
  <2>3. \A q \in Pushes : pc[q] \notin Refreshing
    BY <1>0, <2>2, OnlyPushCounts DEF Holding, Unrecorded, Refreshing
  <2>4. atPush' = atPush
    <3>1. ~\E q \in Pushes : SnapshotBefore(q)
      BY <1>0, <2>1 DEF recordRefChanges, SnapshotBefore, Goto, TypeOK
    <3>2. QED
      BY <3>1 DEF OtherStep
  <2>5. \A f \in Refs : lastSHA'[f] = lastSHA[f]
    BY <2>2 DEF OtherStep, LastRight
  <2>6. pulls[k].baseRef \in Refs /\ pulls[k].headRef \in Refs
    BY <1>0, <2>2, PullMapIs DEF TypeOK, PullRequest
  <2>7. /\ KeptRight(k, pulls[k].baseRef, pulls[k].baseSHA)
        /\ KeptRight(k, pulls[k].headRef, pulls[k].headSHA)
    BY <1>1, <2>2 DEF PullsRight
  <2>8. /\ Recent(pulls[k].baseRef, pulls[k].baseSHA)
        /\ Recent(pulls[k].headRef, pulls[k].headSHA)
    BY <1>2, <2>3, <2>6, <2>7, KeptOutside DEF Recent
  <2>9. QED
    BY <2>2, <2>4, <2>5, <2>6, <2>8 DEF Recent
<1>5. QED
  BY <1>3, <1>4

\* The same of whatever a Get copies.
LEMMA KeptIsRecent ==
    ASSUME PushInv, LastRight, AtPushRight, NEW k, NEW f \in Refs, NEW sha,
           KeptRight(k, f, sha), observationErrors = 0,
           (\E p \in Pushes : pc[p] \in Refreshing) => Recent(f, sha)
    PROVE  sha = lastSHA[f] \/ (PushUnderWay /\ sha = atPush[f])
<1>1. \A p \in Pushes : pc[p] \in Unrecorded \cup Refreshing => receiveLock = p /\ pc[p] # "locked"
  BY DEF PushInv, LockHeld, Holding, Unrecorded, Refreshing
<1>2. (\E p \in Pushes : pc[p] \in Unrecorded \cup Refreshing) => PushUnderWay
  BY <1>1 DEF PushUnderWay
<1>3. CASE \E p \in Pushes : pc[p] \in Refreshing
  BY <1>2, <1>3 DEF Recent
<1>4. CASE \A p \in Pushes : pc[p] \notin Refreshing
  BY <1>2, <1>4, KeptOutside
<1>5. QED
  BY <1>3, <1>4

-----------------------------------------------------------------------------
(* Readers *)

LEMMA ReadsTypeStep ==
    ASSUME PushInv, PushInv', ReadsTypeOK, [ReadsNext]_readVars
    PROVE  ReadsTypeOK'
<1>0. refs \in RefMap /\ refs' \in RefMap /\ pulls \in PullMap
  BY DEF PushInv, TypeOK
<1>1. CASE UNCHANGED readVars
  BY <1>1 DEF ReadsTypeOK, readVars, getVars
<1>2. CASE OtherStep
  BY <1>0, <1>2 DEF OtherStep, ReadsTypeOK, getVars, RefMap
<1>3. ASSUME NEW g \in Readers, NEW k \in Pulls, CopyPull(g, k) PROVE ReadsTypeOK'
  <2>1. pulls[k] \in PullRequest
    BY <1>0, <1>3, PullMapIs DEF CopyPull
  <2>2. QED
    BY <1>0, <1>3, <2>1 DEF CopyPull, GetGoto, ReadsTypeOK
<1>4. ASSUME NEW f \in Refs, NEW kept \in SHAs PROVE Reported(f, kept) \in SHAs
  BY <1>0 DEF Reported, RefMap, Values
<1>5. ASSUME NEW g \in Readers, GetBase(g) PROVE ReadsTypeOK'
  <2>1. \A pull \in copy[g] :
           [pull EXCEPT !.baseSHA = Reported(pull.baseRef, pull.baseSHA)] \in PullRequest
    BY <1>4 DEF ReadsTypeOK, PullRequest
  <2>2. QED
    BY <1>5, <2>1 DEF GetBase, GetGoto, ReadsTypeOK
<1>6. ASSUME NEW g \in Readers, GetHead(g) PROVE ReadsTypeOK'
  <2>1. \A pull \in copy[g] :
           [pull EXCEPT !.headSHA = Reported(pull.headRef, pull.headSHA)] \in PullRequest
    BY <1>4 DEF ReadsTypeOK, PullRequest
  <2>2. QED
    BY <1>6, <2>1 DEF GetHead, GetGoto, ReadsTypeOK
<1>7. QED
  BY <1>1, <1>2, <1>3, <1>5, <1>6 DEF ReadsNext

\* Pushes only add to what a reader may report, and to nothing once it has answered.
LEMMA ReportStays ==
    ASSUME PushInv, OtherStep, NEW g \in Readers, getPc[g] = "replied" \/ refs \in lived[g],
           NEW f \in Refs, NEW sha
    PROVE  /\ FallbackRight(g, f, sha) => FallbackRight(g, f, sha)'
           /\ ReportRight(g, f, sha) => ReportRight(g, f, sha)'
<1>1. began' = began /\ [Next]_vars /\ TypeOK
  BY DEF OtherStep, PushInv
<1>2. observationErrors' = 0 => observationErrors = 0
  BY <1>1, ErrorsStay
<1>3. CASE lived'[g] = lived[g]
  BY <1>1, <1>2, <1>3 DEF HadDuring, ReportRight, FallbackRight
<1>4. CASE lived'[g] = lived[g] \cup {refs'} /\ refs \in lived[g]
  <2>1. HadDuring(g, f)' = HadDuring(g, f) \cup {refs'[f]} /\ refs[f] \in HadDuring(g, f)
    BY <1>4 DEF HadDuring
  <2>2. QED
    BY <1>1, <1>2, <2>1 DEF ReportRight, FallbackRight
<1>5. QED
  BY <1>3, <1>4 DEF OtherStep

\* What the ref resolves to, or the commit that was kept, may be reported.
LEMMA ReportedIsRight ==
    ASSUME NEW g, NEW f, NEW kept, refs \in lived[g], FallbackRight(g, f, kept)
    PROVE  ReportRight(g, f, Reported(f, kept))
<1>1. refs[f] \in HadDuring(g, f)
  BY DEF HadDuring
<1>2. CASE refs[f] # NoSHA
  BY <1>1, <1>2 DEF Reported, ReportRight, FallbackRight
<1>3. CASE refs[f] = NoSHA
  BY <1>1, <1>3 DEF Reported, ReportRight, FallbackRight
<1>4. QED
  BY <1>2, <1>3

LEMMA ReaderStep ==
    ASSUME ReadsInv, [ReadsNext]_readVars, NEW h \in Readers
    PROVE  ReaderRight(h)'
<1>0. ReadsTypeOK /\ ReaderRight(h) /\ PushInv /\ PullInv /\ LastRight /\ AtPushRight /\ KeptRecent
  BY DEF ReadsInv
<1>1. ASSUME UNCHANGED vars, getPc'[h] = getPc[h], copy'[h] = copy[h],
             lived'[h] = lived[h], began'[h] = began[h]
      PROVE  ReaderRight(h)'
  BY <1>0, <1>1 DEF ReaderRight, ReportRight, FallbackRight, HadDuring, vars, worldVars
<1>2. CASE UNCHANGED readVars
  BY <1>1, <1>2 DEF readVars, getVars
<1>3. CASE OtherStep
  <2>1. getPc' = getPc /\ copy' = copy
    BY <1>3 DEF OtherStep, getVars
  <2>2. getPc[h] = "replied" \/ refs \in lived[h] \/ getPc[h] = "idle"
    BY <1>0 DEF ReaderRight, ReadsTypeOK
  <2>3. \A pull \in copy[h] : pull.baseRef \in Refs /\ pull.headRef \in Refs
    BY <1>0 DEF ReadsTypeOK, PullRequest
  <2>4. ASSUME NEW pull \in copy[h], getPc[h] # "idle"
        PROVE  /\ FallbackRight(h, pull.baseRef, pull.baseSHA) =>
                     FallbackRight(h, pull.baseRef, pull.baseSHA)'
               /\ ReportRight(h, pull.baseRef, pull.baseSHA) =>
                     ReportRight(h, pull.baseRef, pull.baseSHA)'
               /\ FallbackRight(h, pull.headRef, pull.headSHA) =>
                     FallbackRight(h, pull.headRef, pull.headSHA)'
               /\ ReportRight(h, pull.headRef, pull.headSHA) =>
                     ReportRight(h, pull.headRef, pull.headSHA)'
    BY <1>0, <1>3, <2>2, <2>3, <2>4, ReportStays
  <2>5. getPc[h] \in {"copied", "based"} => refs' \in lived'[h]
    BY <1>3 DEF OtherStep
  <2>6. QED
    BY <1>0, <2>1, <2>4, <2>5 DEF ReaderRight
<1>4. ASSUME NEW g \in Readers, g # h, (\E k \in Pulls : CopyPull(g, k)) \/ GetBase(g) \/ GetHead(g)
      PROVE  ReaderRight(h)'
  <2>1. UNCHANGED vars /\ getPc'[h] = getPc[h] /\ copy'[h] = copy[h]
        /\ lived'[h] = lived[h] /\ began'[h] = began[h]
    BY <1>0, <1>4 DEF CopyPull, GetBase, GetHead, GetGoto, ReadsTypeOK
  <2>2. QED
    BY <1>1, <2>1
<1>5. ASSUME NEW k \in Pulls, CopyPull(h, k) PROVE ReaderRight(h)'
  <2>1. /\ UNCHANGED <<refs, observationErrors>> /\ k \in DOMAIN pulls
        /\ getPc'[h] = "copied" /\ copy'[h] = {pulls[k]} /\ lived'[h] = {refs}
        /\ began'[h].last = lastSHA
        /\ began'[h].push = IF PushUnderWay THEN atPush ELSE lastSHA
    BY <1>0, <1>5 DEF CopyPull, GetGoto, ReadsTypeOK, vars, worldVars
  <2>2. KeptRight(k, pulls[k].baseRef, pulls[k].baseSHA) /\ KeptRight(k, pulls[k].headRef, pulls[k].headSHA)
    BY <1>0, <2>1 DEF PullInv, PullsRight
  <2>3. /\ pulls[k].baseRef \in Refs /\ pulls[k].headRef \in Refs
        /\ pulls[k].baseSHA \in SHAs /\ pulls[k].headSHA \in SHAs
    BY <1>0, <2>1, PullMapIs DEF PushInv, TypeOK, PullRequest
  <2>4. \A f : HadDuring(h, f)' = {refs[f]}
    BY <2>1 DEF HadDuring
  <2>5. ASSUME NEW f \in Refs, NEW sha, KeptRight(k, f, sha),
               observationErrors = 0 /\ (\E p \in Pushes : pc[p] \in Refreshing) => Recent(f, sha)
        PROVE  FallbackRight(h, f, sha)'
    <3> SUFFICES ASSUME observationErrors = 0
                 PROVE  /\ refs[f] = NoSHA => sha = began'[h].last[f]
                        /\ sha \in {began'[h].last[f], began'[h].push[f]}
      BY <2>1, <2>4 DEF FallbackRight
    <3>1. refs[f] = NoSHA => sha = lastSHA[f]
      BY <1>0, <2>1, <2>5, KeptIsLast
    <3>2. sha = lastSHA[f] \/ (PushUnderWay /\ sha = atPush[f])
      BY <1>0, <2>5, KeptIsRecent
    <3>3. QED
      BY <2>1, <3>1, <3>2
  <2>6. observationErrors = 0 /\ (\E p \in Pushes : pc[p] \in Refreshing) =>
           /\ Recent(pulls[k].baseRef, pulls[k].baseSHA)
           /\ Recent(pulls[k].headRef, pulls[k].headSHA)
    BY <1>0, <2>1 DEF KeptRecent
  <2>7. pulls' = pulls
    BY <1>5 DEF CopyPull, vars, worldVars
  <2>8. /\ FallbackRight(h, pulls[k].baseRef, pulls[k].baseSHA)'
        /\ FallbackRight(h, pulls[k].headRef, pulls[k].headSHA)'
    <3>1. PICK base \in Refs, head \in Refs, b \in SHAs, c \in SHAs :
             /\ base = pulls[k].baseRef /\ head = pulls[k].headRef
             /\ b = pulls[k].baseSHA /\ c = pulls[k].headSHA
      BY <2>3
    <3>2. FallbackRight(h, base, b)' /\ FallbackRight(h, head, c)'
      BY <2>2, <2>5, <2>6, <3>1
    <3>3. QED
      BY <2>7, <3>1, <3>2
  <2>9. QED
    BY <2>1, <2>7, <2>8 DEF ReaderRight
<1>6. CASE GetBase(h)
  <2>1. /\ UNCHANGED <<refs, observationErrors, began, lived>>
        /\ getPc[h] = "copied" /\ getPc'[h] = "based"
        /\ copy'[h] = {[pull EXCEPT !.baseSHA = Reported(pull.baseRef, pull.baseSHA)] : pull \in copy[h]}
    BY <1>0, <1>6 DEF GetBase, GetGoto, ReadsTypeOK, vars, worldVars
  <2>2. \A f, sha : /\ FallbackRight(h, f, sha)' <=> FallbackRight(h, f, sha)
                    /\ ReportRight(h, f, sha)' <=> ReportRight(h, f, sha)
    BY <2>1 DEF FallbackRight, ReportRight, HadDuring
  <2>3. refs \in lived[h]
    BY <1>0, <2>1 DEF ReaderRight
  <2>4. ASSUME NEW new \in copy'[h]
        PROVE  ReportRight(h, new.baseRef, new.baseSHA) /\ FallbackRight(h, new.headRef, new.headSHA)
    <3>1. PICK pull \in copy[h] :
             new = [pull EXCEPT !.baseSHA = Reported(pull.baseRef, pull.baseSHA)]
      BY <2>1
    <3>2. /\ new.baseRef = pull.baseRef /\ new.headRef = pull.headRef /\ new.headSHA = pull.headSHA
          /\ new.baseSHA = Reported(pull.baseRef, pull.baseSHA)
      BY <1>0, <3>1 DEF ReadsTypeOK, PullRequest
    <3>3. FallbackRight(h, pull.baseRef, pull.baseSHA) /\ FallbackRight(h, pull.headRef, pull.headSHA)
      BY <1>0, <2>1 DEF ReaderRight
    <3>4. QED
      BY <2>3, <3>2, <3>3, ReportedIsRight
  <2>5. QED
    BY <2>1, <2>2, <2>3, <2>4 DEF ReaderRight
<1>7. CASE GetHead(h)
  <2>1. /\ UNCHANGED <<refs, observationErrors, began, lived>>
        /\ getPc[h] = "based" /\ getPc'[h] = "replied"
        /\ copy'[h] = {[pull EXCEPT !.headSHA = Reported(pull.headRef, pull.headSHA)] : pull \in copy[h]}
    BY <1>0, <1>7 DEF GetHead, GetGoto, ReadsTypeOK, vars, worldVars
  <2>2. \A f, sha : ReportRight(h, f, sha)' <=> ReportRight(h, f, sha)
    BY <2>1 DEF FallbackRight, ReportRight, HadDuring
  <2>3. refs \in lived[h]
    BY <1>0, <2>1 DEF ReaderRight
  <2>4. ASSUME NEW new \in copy'[h]
        PROVE  ReportRight(h, new.baseRef, new.baseSHA) /\ ReportRight(h, new.headRef, new.headSHA)
    <3>1. PICK pull \in copy[h] :
             new = [pull EXCEPT !.headSHA = Reported(pull.headRef, pull.headSHA)]
      BY <2>1
    <3>2. /\ new.baseRef = pull.baseRef /\ new.headRef = pull.headRef /\ new.baseSHA = pull.baseSHA
          /\ new.headSHA = Reported(pull.headRef, pull.headSHA)
      BY <1>0, <3>1 DEF ReadsTypeOK, PullRequest
    <3>3. ReportRight(h, pull.baseRef, pull.baseSHA) /\ FallbackRight(h, pull.headRef, pull.headSHA)
      BY <1>0, <2>1 DEF ReaderRight
    <3>4. QED
      BY <2>3, <3>2, <3>3, ReportedIsRight
  <2>5. QED
    BY <2>1, <2>2, <2>4 DEF ReaderRight
<1>8. QED
  BY <1>2, <1>3, <1>4, <1>5, <1>6, <1>7 DEF ReadsNext

LEMMA ReadsInvStep ==
    ASSUME ReadsInv, [ReadsNext]_readVars
    PROVE  ReadsInv'
<1>1. [Next]_vars
  BY DEF ReadsNext, OtherStep, CopyPull, GetBase, GetHead, readVars
<1>2. PushInv' /\ PullInv'
  BY <1>1, PushInvStep, PullInvStep DEF ReadsInv
<1>3. ReadsTypeOK'
  BY <1>2, ReadsTypeStep DEF ReadsInv
<1>4. LastRight'
  <2>1. CASE OtherStep
    BY <2>1, LastStep DEF ReadsInv
  <2>2. CASE UNCHANGED <<vars, lastSHA>>
    BY <2>2 DEF ReadsInv, LastRight, MovedFrom, vars, worldVars, pushVars, historyVars
  <2>3. QED
    BY <2>1, <2>2 DEF ReadsNext, CopyPull, GetBase, GetHead, readVars
<1>5. AtPushRight' /\ KeptRecent'
  <2>1. CASE OtherStep
    BY <2>1, AtPushStep, KeptRecentStep DEF ReadsInv
  <2>2. CASE UNCHANGED <<vars, lastSHA, atPush>>
    BY <2>2 DEF ReadsInv, AtPushRight, KeptRecent, Recent, MovedFrom, vars, worldVars, pushVars
  <2>3. QED
    BY <2>1, <2>2 DEF ReadsNext, CopyPull, GetBase, GetHead, readVars
<1>6. \A h \in Readers : ReaderRight(h)'
  BY ReaderStep
<1>7. QED
  BY <1>2, <1>3, <1>4, <1>5, <1>6 DEF ReadsInv

LEMMA ReadsInvariance == ReadsSpec => []ReadsInv
BY ReadsInitInv, ReadsInvStep, PTL DEF ReadsSpec

-----------------------------------------------------------------------------
(* Theorems *)

\* What a Get copies and reports is a pull request, with a commit for each of its branches
\* even when git has none.
THEOREM ReadsTypeCorrect == ReadsSpec => []ReadsTypeOK
<1>1. ReadsInv => ReadsTypeOK
  BY DEF ReadsInv
<1>2. QED
  BY <1>1, ReadsInvariance, PTL

\* However many pushes overtake a Get, it answers for each branch with a commit that the
\* branch had during the call if it was always there, and, unless a push went unobserved, with
\* the branch's last commit if it was gone all the time; for a branch that is deleted during
\* the call, with a commit that it had during the call, or with its last commit from when the
\* call began, or from when the push began that the call met.
THEOREM ReportsCorrect == ReadsSpec => []ReportsTheBranches
<1>1. ReadsInv => ReportsTheBranches
  BY DEF ReadsInv, ReaderRight, ReportRight, FallbackRight, ReportsTheBranches
<1>2. QED
  BY <1>1, ReadsInvariance, PTL
===============================================================================
