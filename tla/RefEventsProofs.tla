---------------------------- MODULE RefEventsProofs ----------------------------
(***************************************************************************)
(* What RefEvents says of pushes that overlap, for every number of         *)
(* branches, commits, pushes and pull requests.                            *)
(***************************************************************************)
EXTENDS RefEvents, FiniteSetTheorems, TLAPS

-----------------------------------------------------------------------------
(* The inductive invariant.  git moves branches between two stages of the  *)
(* push that holds the receive lock; what is known of the branches depends *)
(* on where that push is.                                                  *)

\* The stages in which a push has the receive lock: before git has moved anything, while it
\* has moved branches that are not recorded yet, and while the pull requests are refreshed.
Unrecorded == {"receiving", "received", "observed"}

Refreshing == {"recorded", "refreshing", "resolving", "resolved"}

Holding == {"locked"} \cup Unrecorded \cup Refreshing

\* The receive lock is exclusive.
LockHeld == \A p \in Pushes : pc[p] \in Holding <=> receiveLock = p

\* No pull request is ever dropped, so those that a push has listed are there.
Listed ==
    \A p \in Pushes :
        todo[p] \subseteq DOMAIN pulls /\ \A s \in snapshot[p] : s.key \in DOMAIN pulls

\* The branches that are not where they were when the push began are those it has moved.
MovedRight(p) ==
    /\ pc[p] \in {"idle", "waiting", "refused", "locked"} => pushed[p] = {}
    /\ pc[p] \in Unrecorded => \A f \in Refs : f \in pushed[p] <=> refs[f] # before[p][f]
    /\ pc[p] = "observed" => after[p] = refs

\* A push is told of nothing before it is recorded, and afterwards once of what it moved.
ToldRight(p, f) ==
    /\ pc[p] \notin Refreshing \cup {"replied"} => EventsBy(p, f) = {}
    /\ pc[p] \in Refreshing \cup {"replied"} =>
          IF f \in pushed[p] THEN \E i \in DOMAIN events[f] : EventsBy(p, f) = {i}
          ELSE EventsBy(p, f) = {}

\* While branches are moved, the log is measured against where they were.
Missing(start, m, f) ==
    Cardinality(Breaks(start, f)) + IF Told(start, f, Len(events[f]) + 1) = m[f] THEN 0 ELSE 1

GapsRight(start) ==
    \A f \in Refs :
        /\ IsFiniteSet(Breaks(start, f))
        /\ (\A p \in Pushes : pc[p] \notin Unrecorded) =>
              Missing(start, refs, f) <= observationErrors
        /\ \A p \in Pushes : pc[p] \in Unrecorded =>
              Missing(start, before[p], f) <= observationErrors

\* Where branch f was when push p began, or was last, and where p has moved it.
SeenBy(p, f, sha) ==
    \/ before[p][f] # NoSHA /\ sha = before[p][f]
    \/ before[p][f] = NoSHA /\ sha = MovedFrom(f)
    \/ f \in pushed[p] /\ refs[f] # NoSHA /\ sha = refs[f]

\* The pull requests that push p has still to refresh.
Remaining(p) == IF pc[p] = "recorded" THEN DOMAIN pulls ELSE todo[p]

Quiet == \A p \in Pushes : pc[p] \notin Unrecorded \cup Refreshing

\* The commit that pull request k keeps for its branch f.
KeptRight(k, f, sha) ==
    /\ Quiet => /\ ~unobserved /\ refs[f] # NoSHA => sha = refs[f]
                /\ observationErrors = 0 => sha = LastSHA(f)
    /\ \A p \in Pushes : pc[p] \in Unrecorded /\ observationErrors = 0 => SeenBy(p, f, sha)
    /\ \A p \in Pushes : pc[p] \in Refreshing =>
          /\ observationErrors = 0 /\ refs[f] = NoSHA => sha = LastSHA(f)
          /\ k \notin Remaining(p) /\ refs[f] # NoSHA => sha = refs[f]

PullsRight ==
    \A k \in DOMAIN pulls : /\ KeptRight(k, pulls[k].baseRef, pulls[k].baseSHA)
                            /\ KeptRight(k, pulls[k].headRef, pulls[k].headSHA)

\* A createPullRequest under way has the world to itself: no push can be recorded meanwhile.
CreatingRight ==
    \A c \in creating :
        /\ c.key \notin DOMAIN pulls
        /\ (\A p \in Pushes : pc[p] \notin Unrecorded) => c.baseSHA = refs[c.baseRef]
        /\ \A p \in Pushes : pc[p] \in Unrecorded =>
              \/ c.baseSHA = before[p][c.baseRef]
              \/ c.baseRef \in pushed[p] /\ c.baseSHA = refs[c.baseRef]

\* Nothing moves the branches while a push refreshes.
SnapshotsRight ==
    \A p \in Pushes : pc[p] \in {"resolving", "resolved"} =>
        \A s \in snapshot[p] : /\ s.key \in todo[p]
                               /\ s.baseSHA = refs[pulls[s.key].baseRef]
                               /\ pc[p] = "resolved" => s.headSHA = refs[pulls[s.key].headRef]

\* A run is requested by the push that moved its ref, for the commit it was moved to, and
\* never for a deletion.
RunsFollowPushes ==
    \A f \in Refs : \A i \in DOMAIN events[f] :
        events[f][i].event = "requested" =>
            /\ i > 1
            /\ events[f][i - 1].event = "push"
            /\ events[f][i - 1].by = events[f][i].by
            /\ events[f][i - 1].after = events[f][i].after
            /\ events[f][i].after # NoSHA

\* The configured release ref is among those that the push being served may have met, and
\* its events, once recorded, tell of what it met.
ReleaseRight(p) ==
    /\ pc[p] \in Unrecorded => releaseRef \in released
    /\ pc[p] \in Refreshing =>
          \A f \in Refs : \A i \in EventsBy(p, f) : events[f][i].after = refs[f]
    /\ pc[p] = "recorded" =>
          \A f \in Refs :
              /\ RunsBy(p, f) # {} => f \in released
              /\ released = {f} /\ f \in pushed[p] /\ refs[f] # NoSHA => RunsBy(p, f) # {}

\* What the pushes know, and what the pull requests keep.
PushInv ==
    /\ TypeOK
    /\ Listed
    /\ LockHeld
    /\ \A p \in Pushes : MovedRight(p) /\ \A f \in Refs : ToldRight(p, f)
    /\ RunsFollowPushes
    /\ \A p \in Pushes : ReleaseRight(p)

PullInv == SnapshotsRight /\ CreatingRight /\ PullsRight

-----------------------------------------------------------------------------
(* Types *)

LEMMA PullMapIs ==
    ASSUME NEW map
    PROVE  map \in PullMap <=> DOMAIN map \subseteq Pulls /\ map \in [DOMAIN map -> PullRequest]
BY DEF PullMap

LEMMA NoRefsType == NoRefs \in RefMap
BY DEF NoRefs, RefMap, Values

LEMMA InitType == Init => TypeOK
<1> SUFFICES ASSUME Init PROVE TypeOK
  OBVIOUS
<1>1. <<>> \in PullMap
  <2>1. DOMAIN <<>> = {} /\ <<>> \in [{} -> PullRequest]
    OBVIOUS
  <2>2. QED
    BY <2>1, PullMapIs
<1>2. Cardinality({}) <= 1
  BY FS_EmptySet
<1>3. [f \in Refs |-> <<>>] \in [Refs -> Seq(Event)]
  OBVIOUS
<1>4. /\ pc \in [Pushes -> Stages]
      /\ before \in [Pushes -> RefMap] /\ after \in [Pushes -> RefMap]
      /\ todo \in [Pushes -> SUBSET Pulls] /\ snapshot \in [Pushes -> SUBSET Snapshot]
      /\ pushed \in [Pushes -> SUBSET Refs]
  BY NoRefsType DEF Init, Stages
<1>5. QED
  BY <1>1, <1>2, <1>3, <1>4, NoRefsType DEF Init, TypeOK

\* The events that a push appends to the log of one branch.
LEMMA RecordFacts ==
    ASSUME TypeOK, NEW p \in Pushes, recordRefChanges(p), NEW f \in Refs
    PROVE  /\ Len(events[f]) \in Nat /\ DOMAIN events[f] = 1 .. Len(events[f])
           /\ events'[f] \in Seq(Event) /\ DOMAIN events'[f] = 1 .. Len(events'[f])
           /\ before[p][f] = after[p][f] => events'[f] = events[f]
           /\ before[p][f] # after[p][f] =>
                 /\ Len(events'[f]) \in {Len(events[f]) + 1, Len(events[f]) + 2}
                 /\ \A i \in 1 .. Len(events[f]) : events'[f][i] = events[f][i]
                 /\ events'[f][Len(events[f]) + 1].event = "push"
                 /\ events'[f][Len(events[f]) + 1].by = p
                 /\ events'[f][Len(events[f]) + 1].before = before[p][f]
                 /\ events'[f][Len(events[f]) + 1].after = after[p][f]
                 /\ f = releaseRef /\ after[p][f] # NoSHA => Len(events'[f]) = Len(events[f]) + 2
                 /\ Len(events'[f]) = Len(events[f]) + 2 =>
                       /\ after[p][f] # NoSHA /\ f = releaseRef
                       /\ events'[f][Len(events[f]) + 2].event = "requested"
                       /\ events'[f][Len(events[f]) + 2].by = p
                       /\ events'[f][Len(events[f]) + 2].after = after[p][f]
<1> DEFINE e == [event |-> "push", by |-> p, before |-> before[p][f], after |-> after[p][f]]
           g == [event |-> "requested", by |-> p, before |-> NoSHA, after |-> after[p][f]]
<1>1. e \in Event /\ g \in Event
  BY DEF TypeOK, Event, RefMap, Values
<1>2. events[f] \in Seq(Event)
  BY DEF TypeOK
<1>3. events'[f] = events[f] \o NewEvents(p, f)
  BY DEF recordRefChanges
<1>4. CASE before[p][f] = after[p][f]
  <2>1. NewEvents(p, f) = <<>>
    BY <1>4 DEF NewEvents
  <2>2. events'[f] = events[f]
    BY <1>2, <1>3, <2>1
  <2>3. QED
    BY <1>2, <1>4, <2>2
<1>5. CASE before[p][f] # after[p][f]
  <2>1. CASE f = releaseRef /\ after[p][f] # NoSHA
    <3>1. NewEvents(p, f) = <<e>> \o <<g>>
      BY <1>5, <2>1 DEF NewEvents, PushEvent, RequestedEvent
    <3> HIDE DEF e, g
    <3>2. /\ events'[f] \in Seq(Event) /\ Len(events'[f]) = Len(events[f]) + 2
          /\ \A i \in 1 .. Len(events[f]) : events'[f][i] = events[f][i]
          /\ events'[f][Len(events[f]) + 1] = e /\ events'[f][Len(events[f]) + 2] = g
      BY <1>1, <1>2, <1>3, <3>1
    <3>3. QED
      BY <1>2, <1>5, <2>1, <3>2 DEF e, g
  <2>2. CASE ~(f = releaseRef /\ after[p][f] # NoSHA)
    <3>1. NewEvents(p, f) = <<e>>
      BY <1>5, <2>2 DEF NewEvents, PushEvent
    <3> HIDE DEF e, g
    <3>2. /\ events'[f] \in Seq(Event) /\ Len(events'[f]) = Len(events[f]) + 1
          /\ \A i \in 1 .. Len(events[f]) : events'[f][i] = events[f][i]
          /\ events'[f][Len(events[f]) + 1] = e
      BY <1>1, <1>2, <1>3, <3>1
    <3>3. QED
      BY <1>2, <1>5, <2>2, <3>2 DEF e
  <2>3. QED
    BY <2>1, <2>2
<1>6. QED
  BY <1>4, <1>5

LEMMA TypeStep ==
    ASSUME TypeOK, Listed, [Next]_vars
    PROVE  TypeOK'
<1> USE DEF Stages
<1>1. CASE UNCHANGED vars
  BY <1>1 DEF TypeOK, vars, worldVars, pushVars, historyVars
<1>2. ASSUME NEW p \in Pushes, AuthorizePush(p) PROVE TypeOK'
  BY <1>2 DEF TypeOK, AuthorizePush, Goto, worldVars, historyVars
<1>3. ASSUME NEW p \in Pushes, LockReceive(p) PROVE TypeOK'
  BY <1>3 DEF TypeOK, LockReceive, Goto, worldVars, historyVars
<1>4. ASSUME NEW p \in Pushes, SnapshotBefore(p) PROVE TypeOK'
  BY <1>4 DEF TypeOK, SnapshotBefore, Goto, worldVars, historyVars
<1>5. ASSUME NEW p \in Pushes, FailBefore(p) PROVE TypeOK'
  BY <1>5 DEF TypeOK, FailBefore, Leave, Goto, worldVars, historyVars
<1>6. ASSUME NEW p \in Pushes, NEW f \in Refs, NEW sha \in Values, ReceiveRef(p, f, sha)
      PROVE  TypeOK'
  BY <1>6 DEF TypeOK, ReceiveRef, RefMap, worldVars, pushVars
<1>7. ASSUME NEW p \in Pushes, FinishReceive(p) PROVE TypeOK'
  BY <1>7 DEF TypeOK, FinishReceive, Goto, worldVars, historyVars
<1>8. ASSUME NEW p \in Pushes, SnapshotAfter(p) PROVE TypeOK'
  BY <1>8 DEF TypeOK, SnapshotAfter, Goto, worldVars, historyVars
<1>9. ASSUME NEW p \in Pushes, FailAfter(p) PROVE TypeOK'
  BY <1>9 DEF TypeOK, FailAfter, Leave, Goto
<1>10. ASSUME NEW p \in Pushes, recordRefChanges(p) PROVE TypeOK'
  <2>1. events' \in [Refs -> Seq(Event)]
    BY <1>10, RecordFacts DEF recordRefChanges
  <2>2. QED
    BY <1>10, <2>1 DEF TypeOK, recordRefChanges, Goto, historyVars
<1>11. ASSUME NEW p \in Pushes, ListPulls(p) PROVE TypeOK'
  <2>1. DOMAIN pulls \subseteq Pulls
    BY PullMapIs DEF TypeOK
  <2>2. QED
    BY <1>11, <2>1 DEF TypeOK, ListPulls, Goto, worldVars, historyVars
<1>12. ASSUME NEW p \in Pushes, NEW k \in Pulls, ResolveBase(p, k) PROVE TypeOK'
  <2>1. pulls[k] \in PullRequest
    BY <1>12, PullMapIs DEF TypeOK, Listed, ResolveBase
  <2>2. [key |-> k, baseSHA |-> refs[pulls[k].baseRef], headSHA |-> NoSHA] \in Snapshot
    BY <2>1 DEF PullRequest, Snapshot, TypeOK, RefMap, Values
  <2>3. QED
    BY <1>12, <2>2 DEF TypeOK, ResolveBase, Goto, worldVars, historyVars
<1>13. ASSUME NEW p \in Pushes, ResolveHead(p) PROVE TypeOK'
  <2>1. ASSUME NEW s \in snapshot[p]
        PROVE  [s EXCEPT !.headSHA = refs[pulls[s.key].headRef]] \in Snapshot
    <3>1. s \in Snapshot /\ pulls[s.key] \in PullRequest
      BY PullMapIs DEF TypeOK, Listed
    <3>2. refs[pulls[s.key].headRef] \in Values
      BY <3>1 DEF PullRequest, TypeOK, RefMap
    <3>3. QED
      BY <3>1, <3>2 DEF Snapshot
  <2> DEFINE new == {[s EXCEPT !.headSHA = refs[pulls[s.key].headRef]] : s \in snapshot[p]}
  <2>0. new \subseteq Snapshot /\ snapshot' = [snapshot EXCEPT ![p] = new]
    BY <1>13, <2>1 DEF ResolveHead
  <2> HIDE DEF new
  <2>2. snapshot' \in [Pushes -> SUBSET Snapshot]
    BY <2>0 DEF TypeOK
  <2>3. QED
    BY <1>13, <2>2 DEF TypeOK, ResolveHead, Goto, worldVars, historyVars
<1>14. ASSUME NEW p \in Pushes, StoreSnapshot(p) PROVE TypeOK'
  <2>1. PICK s \in snapshot[p] : /\ pulls' = [pulls EXCEPT ![s.key] = Refreshed(@, s)]
                                 /\ todo' = [todo EXCEPT ![p] = @ \ {s.key}]
    BY <1>14 DEF StoreSnapshot
  <2>2. s \in Snapshot /\ DOMAIN pulls \subseteq Pulls /\ pulls \in [DOMAIN pulls -> PullRequest]
    BY PullMapIs DEF TypeOK
  <2>3. \A pull \in PullRequest : Refreshed(pull, s) \in PullRequest
    BY <2>2 DEF Refreshed, PullRequest, Snapshot, Values
  <2>4. DOMAIN pulls' = DOMAIN pulls /\ pulls' \in [DOMAIN pulls -> PullRequest]
    BY <2>1, <2>2, <2>3
  <2>5. pulls' \in PullMap
    BY <2>2, <2>4, PullMapIs
  <2>6. QED
    BY <1>14, <2>1, <2>5 DEF TypeOK, StoreSnapshot, Goto, historyVars
<1>15. ASSUME NEW p \in Pushes, ReplyPush(p) PROVE TypeOK'
  BY <1>15 DEF TypeOK, ReplyPush, Leave, Goto, worldVars
<1>16. ASSUME NEW k \in Pulls, NEW base \in Refs, NEW head \in Refs,
              BeginCreatePull(k, base, head)
       PROVE  TypeOK'
  <2> DEFINE c == [key |-> k, baseRef |-> base, headRef |-> head, baseSHA |-> refs[base]]
  <2>1. creating' = {c} /\ c \in Creation
    BY <1>16 DEF BeginCreatePull, TypeOK, Creation, RefMap
  <2> HIDE DEF c
  <2>2. Cardinality({c}) = 1
    BY FS_Singleton
  <2>3. Cardinality(creating') <= 1
    BY <2>1, <2>2
  <2>4. QED
    BY <1>16, <2>1, <2>3 DEF TypeOK, BeginCreatePull, pushVars, historyVars
<1>17. ASSUME NEW c \in creating, NEW state \in {"open", "closed"}, EndCreatePull(c, state)
       PROVE  TypeOK'
  <2> DEFINE pull == [baseRef |-> c.baseRef, headRef |-> c.headRef, baseSHA |-> c.baseSHA,
                      headSHA |-> refs[c.headRef], state |-> state]
  <2>1. c \in Creation /\ DOMAIN pulls \subseteq Pulls /\ pulls \in [DOMAIN pulls -> PullRequest]
    BY PullMapIs DEF TypeOK
  <2>2. pulls' \in PullMap
    <3>1. CASE pulls' = pulls
      BY <3>1 DEF TypeOK
    <3>2. CASE /\ c.baseSHA # NoSHA /\ refs[c.headRef] # NoSHA
               /\ pulls' = [k \in DOMAIN pulls \cup {c.key} |->
                               IF k = c.key THEN pull ELSE pulls[k]]
      <4>1. pull \in PullRequest /\ c.key \in Pulls
        BY <2>1, <3>2 DEF Creation, PullRequest, TypeOK, RefMap, Values
      <4> HIDE DEF pull
      <4>2. DOMAIN pulls' \subseteq Pulls /\ pulls' \in [DOMAIN pulls' -> PullRequest]
        BY <2>1, <3>2, <4>1
      <4>3. QED
        BY <4>2, PullMapIs
    <3>3. QED
      BY <1>17, <3>1, <3>2 DEF EndCreatePull
  <2>3. Cardinality({}) <= 1
    BY FS_EmptySet
  <2>4. QED
    BY <1>17, <2>2, <2>3 DEF TypeOK, EndCreatePull, pushVars, historyVars
<1>18. ASSUME NEW k \in Pulls, NEW state \in {"open", "closed"}, changePullRequestState(k, state)
       PROVE  TypeOK'
  <2>1. DOMAIN pulls \subseteq Pulls /\ pulls \in [DOMAIN pulls -> PullRequest] /\ k \in DOMAIN pulls
    BY <1>18, PullMapIs DEF TypeOK, changePullRequestState
  <2>2. pulls' = [pulls EXCEPT ![k].state = state]
    BY <1>18 DEF changePullRequestState
  <2>3. DOMAIN pulls' = DOMAIN pulls /\ pulls' \in [DOMAIN pulls -> PullRequest]
    BY <2>1, <2>2 DEF PullRequest
  <2>4. pulls' \in PullMap
    BY <2>1, <2>3, PullMapIs
  <2>5. QED
    BY <1>18, <2>4 DEF TypeOK, changePullRequestState, pushVars, historyVars
<1>19. ASSUME NEW f \in Refs, configureWorkflow(f) PROVE TypeOK'
  BY <1>19 DEF TypeOK, configureWorkflow, pushVars, historyVars
<1>20. QED
  BY <1>1, <1>2, <1>3, <1>4, <1>5, <1>6, <1>7, <1>8, <1>9, <1>10, <1>11, <1>12, <1>13, <1>14,
     <1>15, <1>16, <1>17, <1>18, <1>19
     DEF Next, PushStep, ControlStep

-----------------------------------------------------------------------------
(* Pushes *)

\* Which steps change what.
LEMMA Frames ==
    ASSUME [Next]_vars
    PROVE  /\ refs' = refs \/ \E p \in Pushes, f \in Refs, sha \in Values : ReceiveRef(p, f, sha)
           /\ events' = events \/ \E p \in Pushes : recordRefChanges(p)
           /\ \/ observationErrors' = observationErrors /\ (unobserved' = unobserved \/ \E p \in Pushes : ReplyPush(p))
              \/ \E p \in Pushes : FailAfter(p)
           /\ before' = before \/ \E p \in Pushes : SnapshotBefore(p)
           /\ after' = after \/ \E p \in Pushes : SnapshotAfter(p)
           /\ pushed' = pushed \/ \E p \in Pushes, f \in Refs, sha \in Values : ReceiveRef(p, f, sha)
           /\ todo' = todo \/ \E p \in Pushes : ListPulls(p) \/ StoreSnapshot(p)
           /\ \/ snapshot' = snapshot
              \/ \E p \in Pushes : ResolveHead(p) \/ StoreSnapshot(p) \/ \E k \in Pulls : ResolveBase(p, k)
BY DEF Next, PushStep, ControlStep, AuthorizePush, LockReceive, SnapshotBefore, FailBefore,
       ReceiveRef, FinishReceive, SnapshotAfter, FailAfter, recordRefChanges, ListPulls,
       ResolveBase, ResolveHead, StoreSnapshot, ReplyPush, BeginCreatePull, EndCreatePull,
       changePullRequestState, configureWorkflow, vars, worldVars, pushVars, historyVars

\* No pull request is dropped.
LEMMA PullsStay ==
    ASSUME [Next]_vars
    PROVE  DOMAIN pulls \subseteq DOMAIN pulls'
<1>1. ASSUME NEW p \in Pushes, StoreSnapshot(p) PROVE DOMAIN pulls \subseteq DOMAIN pulls'
  BY <1>1 DEF StoreSnapshot
<1>2. ASSUME NEW c, NEW state, EndCreatePull(c, state) PROVE DOMAIN pulls \subseteq DOMAIN pulls'
  BY <1>2 DEF EndCreatePull
<1>3. ASSUME NEW k, NEW state, changePullRequestState(k, state)
      PROVE  DOMAIN pulls \subseteq DOMAIN pulls'
  BY <1>3 DEF changePullRequestState
<1>4. QED
  BY <1>1, <1>2, <1>3
     DEF Next, PushStep, ControlStep, AuthorizePush, LockReceive, SnapshotBefore, FailBefore,
         ReceiveRef, FinishReceive, SnapshotAfter, FailAfter, recordRefChanges, ListPulls,
         ResolveBase, ResolveHead, ReplyPush, BeginCreatePull,
         configureWorkflow, vars, worldVars, pushVars, historyVars

LEMMA ListedStep ==
    ASSUME TypeOK, Listed, [Next]_vars
    PROVE  Listed'
<1>0. DOMAIN pulls \subseteq DOMAIN pulls'
  BY PullsStay
<1>1. CASE UNCHANGED <<todo, snapshot>>
  BY <1>0, <1>1 DEF Listed
<1>2. ASSUME NEW p \in Pushes, ListPulls(p) PROVE Listed'
  BY <1>0, <1>2 DEF Listed, ListPulls, TypeOK
<1>3. ASSUME NEW p \in Pushes, NEW k \in Pulls, ResolveBase(p, k) PROVE Listed'
  BY <1>0, <1>3 DEF Listed, ResolveBase, TypeOK
<1>4. ASSUME NEW p \in Pushes, ResolveHead(p) PROVE Listed'
  <2>1. \A s \in snapshot'[p] : \E x \in snapshot[p] : s.key = x.key
    <3>1. snapshot'[p] = {[x EXCEPT !.headSHA = refs[pulls[x.key].headRef]] : x \in snapshot[p]}
      BY <1>4 DEF ResolveHead, TypeOK
    <3>2. \A x \in snapshot[p] : x \in Snapshot
      BY DEF TypeOK
    <3>3. QED
      BY <3>1, <3>2 DEF Snapshot
  <2>2. \A q \in Pushes : q # p => snapshot'[q] = snapshot[q]
    BY <1>4 DEF ResolveHead, TypeOK
  <2>3. todo' = todo
    BY <1>4 DEF ResolveHead
  <2>4. QED
    BY <1>0, <2>1, <2>2, <2>3 DEF Listed
<1>5. ASSUME NEW p \in Pushes, StoreSnapshot(p) PROVE Listed'
  BY <1>0, <1>5 DEF Listed, StoreSnapshot, TypeOK
<1>6. QED
  BY <1>1, <1>2, <1>3, <1>4, <1>5
     DEF Next, PushStep, ControlStep, AuthorizePush, LockReceive, SnapshotBefore, FailBefore,
         ReceiveRef, FinishReceive, SnapshotAfter, FailAfter, recordRefChanges, ReplyPush,
         BeginCreatePull, EndCreatePull, changePullRequestState, configureWorkflow, vars, pushVars

\* How a push goes from stage to stage, and what that does to the lock.
Moves == {<<"idle", "waiting">>, <<"idle", "refused">>,
          <<"receiving", "received">>, <<"received", "observed">>, <<"observed", "recorded">>,
          <<"recorded", "refreshing">>, <<"refreshing", "resolving">>,
          <<"resolving", "resolved">>, <<"resolved", "refreshing">>, <<"locked", "receiving">>}

Exits == {<<"locked", "failed">>, <<"received", "failed">>, <<"refreshing", "replied">>}

PcStep(p, from, to) ==
    /\ pc[p] = from
    /\ pc' = [pc EXCEPT ![p] = to]
    /\ \/ <<from, to>> \in Moves /\ receiveLock' = receiveLock
       \/ <<from, to>> \in Exits /\ receiveLock' = NoPush
       \/ from = "waiting" /\ to = "locked" /\ receiveLock = NoPush /\ receiveLock' = p
    /\ <<from, to>> = <<"locked", "receiving">> => SnapshotBefore(p)
    /\ <<from, to>> = <<"received", "observed">> => SnapshotAfter(p)
    /\ <<from, to>> = <<"received", "failed">> => FailAfter(p)
    /\ <<from, to>> = <<"observed", "recorded">> => recordRefChanges(p)
    /\ <<from, to>> = <<"recorded", "refreshing">> => ListPulls(p)
    /\ <<from, to>> = <<"refreshing", "resolving">> => \E k \in Pulls : ResolveBase(p, k)
    /\ <<from, to>> = <<"resolving", "resolved">> => ResolveHead(p)
    /\ <<from, to>> = <<"resolved", "refreshing">> => StoreSnapshot(p)
    /\ <<from, to>> = <<"refreshing", "replied">> => ReplyPush(p)

LEMMA PcSteps ==
    ASSUME [Next]_vars
    PROVE  \/ UNCHANGED <<pc, receiveLock>>
           \/ \E p \in Pushes : \E from, to \in Stages : PcStep(p, from, to)
<1> DEFINE Goal == \/ UNCHANGED <<pc, receiveLock>>
                   \/ \E p \in Pushes : \E from, to \in Stages : PcStep(p, from, to)
<1> USE DEF PcStep, Moves, Exits, Stages, Goto, Leave
<1>1. ASSUME NEW p \in Pushes, AuthorizePush(p) PROVE Goal
  BY <1>1 DEF AuthorizePush
<1>2. ASSUME NEW p \in Pushes, LockReceive(p) PROVE Goal
  BY <1>2 DEF LockReceive
<1>3. ASSUME NEW p \in Pushes, SnapshotBefore(p) PROVE Goal
  BY <1>3 DEF SnapshotBefore
<1>4. ASSUME NEW p \in Pushes, FailBefore(p) PROVE Goal
  BY <1>4 DEF FailBefore
<1>5. ASSUME NEW p \in Pushes, FinishReceive(p) PROVE Goal
  BY <1>5 DEF FinishReceive
<1>6. ASSUME NEW p \in Pushes, SnapshotAfter(p) PROVE Goal
  BY <1>6 DEF SnapshotAfter
<1>7. ASSUME NEW p \in Pushes, FailAfter(p) PROVE Goal
  BY <1>7 DEF FailAfter
<1>8. ASSUME NEW p \in Pushes, recordRefChanges(p) PROVE Goal
  BY <1>8 DEF recordRefChanges
<1>9. ASSUME NEW p \in Pushes, ListPulls(p) PROVE Goal
  BY <1>9 DEF ListPulls
<1>10. ASSUME NEW p \in Pushes, NEW k \in Pulls, ResolveBase(p, k) PROVE Goal
  BY <1>10 DEF ResolveBase
<1>11. ASSUME NEW p \in Pushes, ResolveHead(p) PROVE Goal
  BY <1>11 DEF ResolveHead
<1>12. ASSUME NEW p \in Pushes, StoreSnapshot(p) PROVE Goal
  BY <1>12 DEF StoreSnapshot
<1>13. ASSUME NEW p \in Pushes, ReplyPush(p) PROVE Goal
  BY <1>13 DEF ReplyPush
<1> HIDE DEF Goal, PcStep, Moves, Exits, Stages, Goto, Leave
<1>14. ASSUME NEW p \in Pushes, PushStep(p) PROVE Goal
  BY <1>2, <1>3, <1>4, <1>5, <1>6, <1>7, <1>8, <1>9, <1>10, <1>11, <1>12, <1>13, <1>14
     DEF PushStep
<1>15. ASSUME NEW p \in Pushes, NEW f, NEW sha, ReceiveRef(p, f, sha) PROVE Goal
  BY <1>15 DEF ReceiveRef, pushVars, Goal
<1>16. CASE ControlStep
  BY <1>16 DEF ControlStep, BeginCreatePull, EndCreatePull, changePullRequestState,
               configureWorkflow, pushVars, Goal
<1>17. CASE UNCHANGED vars
  BY <1>17 DEF vars, pushVars, Goal
<1>18. CASE Next
  <2>1. CASE ControlStep
    BY <1>16, <2>1
  <2>2. ASSUME NEW p \in Pushes,
               \/ AuthorizePush(p) \/ PushStep(p)
               \/ \E f \in Refs, sha \in Values : ReceiveRef(p, f, sha)
        PROVE  Goal
    BY <1>1, <1>14, <1>15, <2>2
  <2>3. QED
    BY <1>18, <2>1, <2>2 DEF Next, Goal
<1>19. QED
  BY <1>17, <1>18 DEF Goal

LEMMA LockStep ==
    ASSUME TypeOK, LockHeld, [Next]_vars
    PROVE  LockHeld'
<1>1. CASE UNCHANGED <<pc, receiveLock>>
  BY <1>1 DEF LockHeld
<1>2. ASSUME NEW p \in Pushes, NEW from \in Stages, NEW to \in Stages, PcStep(p, from, to)
      PROVE  LockHeld'
  <2>1. pc'[p] = to /\ pc[p] = from /\ \A q \in Pushes : q # p => pc'[q] = pc[q]
    BY <1>2 DEF PcStep, TypeOK
  <2>2. CASE <<from, to>> \in Moves /\ receiveLock' = receiveLock
    BY <2>1, <2>2 DEF LockHeld, Moves, Holding, Unrecorded, Refreshing
  <2>3. CASE <<from, to>> \in Exits /\ receiveLock' = NoPush
    BY <2>1, <2>3, NoPushAssumption DEF LockHeld, Exits, Holding, Unrecorded, Refreshing
  <2>4. CASE from = "waiting" /\ to = "locked" /\ receiveLock = NoPush /\ receiveLock' = p
    BY <2>1, <2>4, NoPushAssumption DEF LockHeld, Holding, Unrecorded, Refreshing
  <2>5. QED
    BY <1>2, <2>2, <2>3, <2>4 DEF PcStep
<1>3. QED
  BY <1>1, <1>2, PcSteps

\* Two pushes never hold the lock.
LEMMA OneHolder ==
    ASSUME LockHeld, NEW p \in Pushes, NEW q \in Pushes, pc[p] \in Holding, pc[q] \in Holding
    PROVE  p = q
BY DEF LockHeld

LEMMA MovedStep ==
    ASSUME TypeOK, LockHeld, \A p \in Pushes : MovedRight(p), [Next]_vars
    PROVE  \A p \in Pushes : MovedRight(p)'
<1> USE DEF Unrecorded
<1>1. ASSUME NEW p \in Pushes, SnapshotBefore(p) PROVE \A q \in Pushes : MovedRight(q)'
  <2>1. pc[p] = "locked" /\ pushed[p] = {}
    BY <1>1 DEF SnapshotBefore, Goto, MovedRight
  <2>2. MovedRight(p)'
    BY <1>1, <2>1 DEF SnapshotBefore, Goto, MovedRight, TypeOK, historyVars
  <2>3. ASSUME NEW q \in Pushes, q # p PROVE MovedRight(q)'
    BY <1>1, <2>3 DEF SnapshotBefore, Goto, MovedRight, TypeOK, historyVars
  <2>4. QED
    BY <2>2, <2>3
<1>2. ASSUME NEW p \in Pushes, NEW f \in Refs, NEW sha \in Values, ReceiveRef(p, f, sha)
      PROVE  \A q \in Pushes : MovedRight(q)'
  <2>1. /\ pc' = pc /\ before' = before /\ after' = after /\ pc[p] = "receiving"
        /\ refs' = [refs EXCEPT ![f] = sha] /\ pushed' = [pushed EXCEPT ![p] = @ \cup {f}]
        /\ f \notin pushed[p] /\ sha # refs[f]
    BY <1>2 DEF ReceiveRef, pushVars
  <2>2. refs[f] = before[p][f]
    BY <2>1 DEF MovedRight
  <2>3. refs'[f] = sha /\ \A g \in Refs : g # f => refs'[g] = refs[g]
    BY <2>1 DEF TypeOK, RefMap
  <2>4. pushed'[p] = pushed[p] \cup {f} /\ \A q \in Pushes : q # p => pushed'[q] = pushed[q]
    BY <2>1 DEF TypeOK
  <2>5. MovedRight(p)'
    BY <2>1, <2>2, <2>3, <2>4 DEF MovedRight
  <2>6. ASSUME NEW q \in Pushes, q # p PROVE MovedRight(q)'
    <3>1. pc[q] \notin Unrecorded
      BY <2>1, <2>6, OneHolder DEF Holding
    <3>2. QED
      BY <2>1, <2>4, <2>6, <3>1 DEF MovedRight
  <2>7. QED
    BY <2>5, <2>6
<1>3. ASSUME NEW p \in Pushes, SnapshotAfter(p) PROVE \A q \in Pushes : MovedRight(q)'
  <2>1. pc[p] = "received"
    BY <1>3 DEF SnapshotAfter, Goto
  <2>2. MovedRight(p)'
    BY <1>3, <2>1 DEF SnapshotAfter, Goto, MovedRight, TypeOK, historyVars
  <2>3. ASSUME NEW q \in Pushes, q # p PROVE MovedRight(q)'
    BY <1>3, <2>3 DEF SnapshotAfter, Goto, MovedRight, TypeOK, historyVars
  <2>4. QED
    BY <2>2, <2>3
<1>4. CASE UNCHANGED <<refs, before, after, pushed>>
  <2>1. CASE UNCHANGED <<pc, receiveLock>>
    BY <1>4, <2>1 DEF MovedRight
  <2>2. ASSUME NEW p \in Pushes, NEW from \in Stages, NEW to \in Stages, PcStep(p, from, to),
               <<from, to>> \notin {<<"locked", "receiving">>, <<"received", "observed">>}
        PROVE  \A q \in Pushes : MovedRight(q)'
    <3>1. pc'[p] = to /\ pc[p] = from /\ \A q \in Pushes : q # p => pc'[q] = pc[q]
      BY <2>2 DEF PcStep, TypeOK
    <3>2. ASSUME NEW q \in Pushes, q # p PROVE MovedRight(q)'
      BY <1>4, <3>1, <3>2 DEF MovedRight
    <3>3. MovedRight(p)'
      BY <1>4, <2>2, <3>1 DEF MovedRight, PcStep, Moves, Exits
    <3>4. QED
      BY <3>2, <3>3
  <2>3. ASSUME NEW p \in Pushes, NEW from \in Stages, NEW to \in Stages, PcStep(p, from, to)
        PROVE  \A q \in Pushes : MovedRight(q)'
    <3>1. CASE <<from, to>> = <<"locked", "receiving">>
      BY <1>1, <2>3, <3>1 DEF PcStep
    <3>2. CASE <<from, to>> = <<"received", "observed">>
      BY <1>3, <2>3, <3>2 DEF PcStep
    <3>3. QED
      BY <2>2, <2>3, <3>1, <3>2
  <2>4. QED
    BY <2>1, <2>3, PcSteps
<1>5. QED
  BY <1>1, <1>2, <1>3, <1>4, Frames

LEMMA ToldStep ==
    ASSUME TypeOK, LockHeld, \A p \in Pushes : MovedRight(p),
           \A p \in Pushes, f \in Refs : ToldRight(p, f), [Next]_vars
    PROVE  \A p \in Pushes, f \in Refs : ToldRight(p, f)'
<1> DEFINE Goal == \A p \in Pushes, f \in Refs : ToldRight(p, f)'
<1>1. ASSUME NEW p \in Pushes, recordRefChanges(p) PROVE Goal
  <2> SUFFICES ASSUME NEW q \in Pushes, NEW f \in Refs PROVE ToldRight(q, f)'
    OBVIOUS
  <2> DEFINE n == Len(events[f])
  <2>1. /\ pc[p] = "observed" /\ pc'[p] = "recorded" /\ pushed' = pushed
        /\ \A r \in Pushes : r # p => pc'[r] = pc[r]
    BY <1>1 DEF recordRefChanges, Goto, TypeOK, historyVars
  <2>2. f \in pushed[p] <=> before[p][f] # after[p][f]
    BY <2>1 DEF MovedRight, Unrecorded
  <2>3. /\ n \in Nat /\ DOMAIN events[f] = 1 .. n /\ DOMAIN events'[f] = 1 .. Len(events'[f])
        /\ before[p][f] = after[p][f] => events'[f] = events[f]
        /\ before[p][f] # after[p][f] =>
                 /\ Len(events'[f]) \in {n + 1, n + 2}
                 /\ \A i \in 1 .. n : events'[f][i] = events[f][i]
                 /\ events'[f][n + 1].event = "push" /\ events'[f][n + 1].by = p
                 /\ Len(events'[f]) = n + 2 => events'[f][n + 2].event = "requested"
    BY <1>1, RecordFacts
  <2>4. CASE before[p][f] = after[p][f]
    <3>1. EventsBy(q, f)' = EventsBy(q, f)
      BY <2>3, <2>4 DEF EventsBy
    <3>2. CASE q = p
      <4>1. EventsBy(p, f) = {}
        BY <2>1 DEF ToldRight, Refreshing
      <4>2. QED
        BY <2>1, <2>2, <2>4, <3>1, <3>2, <4>1 DEF ToldRight
    <3>3. CASE q # p
      BY <2>1, <2>3, <2>4, <3>1, <3>3 DEF ToldRight
    <3>4. QED
      BY <3>2, <3>3
  <2>5. CASE before[p][f] # after[p][f]
    <3>1. DOMAIN events[f] \subseteq DOMAIN events'[f] /\ n + 1 \in DOMAIN events'[f]
          /\ \A i \in DOMAIN events'[f] : i \in DOMAIN events[f] \/ i = n + 1
                \/ (i = n + 2 /\ events'[f][i].event = "requested")
      BY <2>3, <2>5
    <3>2. CASE q = p
      <4>1. EventsBy(p, f) = {} /\ f \in pushed'[p] /\ pc'[p] \in Refreshing
        BY <2>1, <2>2, <2>5 DEF ToldRight, Refreshing
      <4>2. \A i \in DOMAIN events[f] : ~(events[f][i].by = p /\ events[f][i].event = "push")
        BY <4>1 DEF EventsBy
      <4>3. \A i \in DOMAIN events'[f] :
               (events'[f][i].by = p /\ events'[f][i].event = "push") <=> i = n + 1
        BY <2>3, <2>5, <3>1, <4>2
      <4>4. PICK m \in DOMAIN events'[f] : m = n + 1
        BY <3>1
      <4>5. EventsBy(p, f)' = {m}
        BY <4>3, <4>4 DEF EventsBy
      <4>6. QED
        BY <3>2, <4>1, <4>5 DEF ToldRight
    <3>3. CASE q # p
      <4>1. EventsBy(q, f)' = EventsBy(q, f)
        BY <2>3, <2>5, <3>1, <3>3 DEF EventsBy
      <4>2. QED
        BY <2>1, <3>1, <3>3, <4>1 DEF ToldRight
    <3>4. QED
      BY <3>2, <3>3
  <2>6. QED
    BY <2>4, <2>5
<1>2. CASE events' = events
  <2>1. \A q \in Pushes, f \in Refs : EventsBy(q, f)' = EventsBy(q, f)
    BY <1>2 DEF EventsBy
  <2>2. CASE UNCHANGED <<pc, receiveLock>>
    <3>1. ASSUME NEW q \in Pushes, NEW f \in Refs PROVE ToldRight(q, f)'
      <4>1. pushed'[q] = pushed[q] \/ pc[q] = "receiving"
        BY Frames DEF ReceiveRef, TypeOK
      <4>2. QED
        BY <1>2, <2>1, <2>2, <4>1 DEF ToldRight, Refreshing
    <3>2. QED
      BY <3>1
  <2>3. ASSUME NEW p \in Pushes, NEW from \in Stages, NEW to \in Stages, PcStep(p, from, to)
        PROVE Goal
    <3>1. CASE <<from, to>> = <<"observed", "recorded">>
      BY <1>1, <2>3, <3>1 DEF PcStep
    <3>2. CASE <<from, to>> # <<"observed", "recorded">>
      <4>1. pc'[p] = to /\ pc[p] = from /\ \A q \in Pushes : q # p => pc'[q] = pc[q]
        BY <2>3 DEF PcStep, TypeOK
      <4>2. pushed' = pushed
        <5>1. pc' # pc
          BY <2>3, <4>1 DEF PcStep, Moves, Exits
        <5>2. QED
          BY <5>1, Frames DEF ReceiveRef, pushVars
      <4>3. ASSUME NEW q \in Pushes, NEW f \in Refs PROVE ToldRight(q, f)'
        <5>1. pc'[q] \in Refreshing \cup {"replied"} <=> pc[q] \in Refreshing \cup {"replied"}
          BY <2>3, <3>2, <4>1 DEF PcStep, Moves, Exits, Refreshing
        <5>2. QED
          BY <1>2, <2>1, <4>2, <5>1 DEF ToldRight
      <4>4. QED
        BY <4>3
    <3>3. QED
      BY <3>1, <3>2
  <2>4. QED
    BY <2>2, <2>3, PcSteps
<1>3. QED
  BY <1>1, <1>2, Frames

LEMMA RunsStep ==
    ASSUME TypeOK, RunsFollowPushes, [Next]_vars
    PROVE  RunsFollowPushes'
<1>1. CASE events' = events
  BY <1>1 DEF RunsFollowPushes
<1>2. ASSUME NEW p \in Pushes, recordRefChanges(p) PROVE RunsFollowPushes'
  <2> SUFFICES ASSUME NEW f \in Refs, NEW i \in DOMAIN events'[f],
                      events'[f][i].event = "requested"
               PROVE  /\ i > 1
                      /\ events'[f][i - 1].event = "push"
                      /\ events'[f][i - 1].by = events'[f][i].by
                      /\ events'[f][i - 1].after = events'[f][i].after
                      /\ events'[f][i].after # NoSHA
    BY DEF RunsFollowPushes
  <2> DEFINE n == Len(events[f])
  <2>1. /\ n \in Nat /\ DOMAIN events[f] = 1 .. n /\ DOMAIN events'[f] = 1 .. Len(events'[f])
        /\ before[p][f] = after[p][f] => events'[f] = events[f]
        /\ before[p][f] # after[p][f] =>
                 /\ Len(events'[f]) \in {n + 1, n + 2}
                 /\ \A j \in 1 .. n : events'[f][j] = events[f][j]
                 /\ events'[f][n + 1].event = "push" /\ events'[f][n + 1].by = p
                 /\ events'[f][n + 1].after = after[p][f]
                 /\ Len(events'[f]) = n + 2 =>
                       /\ events'[f][n + 2].by = p
                       /\ events'[f][n + 2].after = after[p][f]
                       /\ after[p][f] # NoSHA
    BY <1>2, RecordFacts
  <2>2. CASE i \in DOMAIN events[f] /\ \A j \in DOMAIN events[f] : events'[f][j] = events[f][j]
    <3>1. /\ i > 1
          /\ events[f][i - 1].event = "push"
          /\ events[f][i - 1].by = events[f][i].by
          /\ events[f][i - 1].after = events[f][i].after
          /\ events[f][i].after # NoSHA
      BY <2>2 DEF RunsFollowPushes
    <3>2. i \in 1 .. n /\ i - 1 \in 1 .. n
      BY <2>1, <2>2, <3>1
    <3>3. QED
      BY <2>1, <2>2, <3>1, <3>2
  <2>3. CASE before[p][f] # after[p][f] /\ i \notin DOMAIN events[f]
    <3>1. i = n + 2 /\ Len(events'[f]) = n + 2
      BY <2>1, <2>3
    <3>2. i > 1 /\ i - 1 = n + 1
      BY <2>1, <3>1
    <3>3. QED
      BY <2>1, <2>3, <3>1, <3>2
  <2>4. QED
    BY <2>1, <2>2, <2>3
<1>3. QED
  BY <1>1, <1>2, Frames

\* The run that a push requests stands right behind its push event.
LEMMA RunIsOfPush ==
    ASSUME TypeOK, RunsFollowPushes, NEW p \in Pushes, NEW f \in Refs, NEW i \in RunsBy(p, f)
    PROVE  /\ i \in Nat /\ i - 1 \in EventsBy(p, f)
           /\ events[f][i - 1].after = events[f][i].after /\ events[f][i].after # NoSHA
<1>1. i \in DOMAIN events[f] /\ events[f][i].by = p /\ events[f][i].event = "requested"
  BY DEF RunsBy
<1>2. /\ i > 1 /\ events[f][i - 1].event = "push" /\ events[f][i - 1].by = p
      /\ events[f][i - 1].after = events[f][i].after /\ events[f][i].after # NoSHA
  BY <1>1 DEF RunsFollowPushes
<1>3. DOMAIN events[f] = 1 .. Len(events[f]) /\ Len(events[f]) \in Nat
  BY DEF TypeOK
<1>4. i \in Nat /\ i - 1 \in DOMAIN events[f]
  BY <1>1, <1>2, <1>3
<1>5. QED
  BY <1>2, <1>4 DEF EventsBy

LEMMA ReleaseFrames ==
    ASSUME [Next]_vars
    PROVE  \/ UNCHANGED <<releaseRef, released>>
           \/ \E p \in Pushes : SnapshotBefore(p) \/ FailAfter(p) \/ ListPulls(p)
           \/ \E f \in Refs : configureWorkflow(f)
BY DEF Next, PushStep, ControlStep, AuthorizePush, LockReceive, FailBefore,
       ReceiveRef, FinishReceive, SnapshotAfter, recordRefChanges,
       ResolveBase, ResolveHead, StoreSnapshot, ReplyPush, BeginCreatePull, EndCreatePull,
       changePullRequestState, vars, worldVars, pushVars, historyVars

LEMMA ReleaseStep ==
    ASSUME PushInv, [Next]_vars
    PROVE  \A q \in Pushes : ReleaseRight(q)'
<1> DEFINE Goal == \A q \in Pushes : ReleaseRight(q)'
<1>0. /\ TypeOK /\ LockHeld /\ RunsFollowPushes
      /\ \A q \in Pushes : ReleaseRight(q) /\ MovedRight(q) /\ \A f \in Refs : ToldRight(q, f)
  BY DEF PushInv
\* A push other than the one that steps is at no stage that matters.
<1>1. ASSUME NEW p \in Pushes, pc[p] \in Holding, NEW q \in Pushes, q # p, pc'[q] = pc[q]
      PROVE  ReleaseRight(q)'
  <2>1. pc[q] \notin Holding
    BY <1>0, <1>1, OneHolder
  <2>2. QED
    BY <1>1, <2>1 DEF ReleaseRight, Holding, Refreshing
<1>2. ASSUME NEW p \in Pushes, recordRefChanges(p) PROVE Goal
  <2>1. /\ pc[p] = "observed" /\ pc'[p] = "recorded" /\ pushed' = pushed /\ refs' = refs
        /\ released' = released /\ \A r \in Pushes : r # p => pc'[r] = pc[r]
    BY <1>0, <1>2 DEF recordRefChanges, Goto, TypeOK, historyVars
  <2>2. releaseRef \in released /\ after[p] = refs
        /\ \A f \in Refs : f \in pushed[p] <=> refs[f] # before[p][f]
    BY <1>0, <2>1 DEF ReleaseRight, MovedRight, Unrecorded
  <2>3. ASSUME NEW f \in Refs
        PROVE  /\ \A i \in EventsBy(p, f)' : events'[f][i].after = refs[f]
               /\ RunsBy(p, f)' # {} => f \in released
               /\ released = {f} /\ f \in pushed[p] /\ refs[f] # NoSHA => RunsBy(p, f)' # {}
    <3>1. PICK n : n = Len(events[f])
      OBVIOUS
    <3>2. /\ n \in Nat /\ DOMAIN events[f] = 1 .. n /\ DOMAIN events'[f] = 1 .. Len(events'[f])
          /\ before[p][f] = after[p][f] => events'[f] = events[f]
          /\ before[p][f] # after[p][f] =>
                 /\ Len(events'[f]) \in {n + 1, n + 2}
                 /\ \A i \in 1 .. n : events'[f][i] = events[f][i]
                 /\ events'[f][n + 1].event = "push"
                 /\ events'[f][n + 1].after = after[p][f]
                 /\ f = releaseRef /\ after[p][f] # NoSHA => Len(events'[f]) = n + 2
                 /\ Len(events'[f]) = n + 2 =>
                       /\ f = releaseRef
                       /\ events'[f][n + 2].event = "requested"
                       /\ events'[f][n + 2].by = p
      BY <1>0, <1>2, <3>1, RecordFacts
    <3>3. EventsBy(p, f) = {} /\ RunsBy(p, f) = {}
      <4>1. EventsBy(p, f) = {}
        BY <1>0, <2>1 DEF ToldRight, Refreshing
      <4>2. QED
        BY <1>0, <4>1, RunIsOfPush
    <3>4. \A i \in DOMAIN events[f] : events[f][i].by = p => events[f][i].event \notin {"push", "requested"}
      BY <3>3 DEF EventsBy, RunsBy
    <3>5. CASE before[p][f] = after[p][f]
      <4>1. EventsBy(p, f)' = {} /\ RunsBy(p, f)' = {}
        BY <3>2, <3>4, <3>5 DEF EventsBy, RunsBy
      <4>2. QED
        BY <2>2, <3>5, <4>1
    <3>6. CASE before[p][f] # after[p][f]
      <4>0. PICK l : l = Len(events'[f])
        OBVIOUS
      <4>1. \A i \in DOMAIN events'[f] : \/ i \in 1 .. n
                                         \/ i = n + 1
                                         \/ i = n + 2 /\ Len(events'[f]) = n + 2
        <5>1. DOMAIN events'[f] = 1 .. l /\ l \in {n + 1, n + 2} /\ n \in Nat
          BY <3>2, <3>6, <4>0
        <5>2. \A i \in 1 .. l : i \in 1 .. n \/ i = n + 1 \/ (i = n + 2 /\ l = n + 2)
          BY <5>1
        <5>3. QED
          BY <4>0, <5>1, <5>2
      <4>2. \A i \in EventsBy(p, f)' : events'[f][i].after = refs[f]
        BY <2>2, <3>2, <3>4, <3>6, <4>1 DEF EventsBy
      <4>3. ASSUME RunsBy(p, f)' # {} PROVE f = releaseRef
        <5>1. PICK i \in DOMAIN events'[f] : events'[f][i].by = p /\ events'[f][i].event = "requested"
          BY <4>3 DEF RunsBy
        <5>2. QED
          BY <3>2, <3>4, <3>6, <4>1, <5>1
      <4>4. ASSUME f = releaseRef, refs[f] # NoSHA PROVE RunsBy(p, f)' # {}
        <5>1. Len(events'[f]) = n + 2
          BY <2>2, <3>2, <3>6, <4>4
        <5>2. n + 2 \in DOMAIN events'[f]
          BY <3>2, <5>1
        <5>3. n + 2 \in RunsBy(p, f)'
          BY <3>2, <3>6, <5>1, <5>2 DEF RunsBy
        <5>4. QED
          BY <5>3
      <4>5. QED
        BY <2>2, <4>2, <4>3, <4>4
    <3>7. QED
      BY <3>5, <3>6
  <2>4. ReleaseRight(p)'
    BY <2>1, <2>3 DEF ReleaseRight, Unrecorded
  <2>5. QED
    BY <1>1, <2>1, <2>4 DEF Holding, Unrecorded
<1>3. ASSUME NEW p \in Pushes, SnapshotBefore(p) \/ FailAfter(p) PROVE Goal
  <2>1. /\ pc[p] \in Holding /\ pc'[p] \in {"receiving", "failed"}
        /\ pc'[p] = "receiving" => releaseRef' \in released'
        /\ \A r \in Pushes : r # p => pc'[r] = pc[r]
    BY <1>0, <1>3 DEF SnapshotBefore, FailAfter, Leave, Goto, TypeOK, worldVars, Holding, Unrecorded
  <2>2. ReleaseRight(p)'
    BY <2>1 DEF ReleaseRight, Unrecorded, Refreshing
  <2>3. QED
    BY <1>1, <2>1, <2>2
<1>4. ASSUME NEW p \in Pushes, ListPulls(p) PROVE Goal
  <2>1. /\ pc[p] = "recorded" /\ pc'[p] = "refreshing" /\ events' = events /\ refs' = refs
        /\ \A r \in Pushes : r # p => pc'[r] = pc[r]
    BY <1>0, <1>4 DEF ListPulls, Goto, TypeOK, worldVars
  <2>2. ReleaseRight(p)'
    BY <1>0, <2>1 DEF ReleaseRight, Unrecorded, Refreshing, EventsBy
  <2>3. QED
    BY <1>1, <2>1, <2>2 DEF Holding, Refreshing
<1>5. ASSUME NEW f \in Refs, configureWorkflow(f) PROVE Goal
  <2>1. UNCHANGED <<refs, events, pc, pushed>> /\ releaseRef' = f
    BY <1>5 DEF configureWorkflow, pushVars
  <2>2. \A q \in Pushes, g \in Refs : EventsBy(q, g)' = EventsBy(q, g) /\ RunsBy(q, g)' = RunsBy(q, g)
    BY <2>1 DEF EventsBy, RunsBy
  <2>3. CASE \E p \in Pushes : pc[p] \in Unrecorded
    <3>1. PICK p \in Pushes : pc[p] \in Unrecorded
      BY <2>3
    <3>2. f \in released'
      BY <1>5, <2>3 DEF configureWorkflow, Unrecorded
    <3>3. ReleaseRight(p)'
      BY <2>1, <3>1, <3>2 DEF ReleaseRight, Unrecorded, Refreshing
    <3>4. QED
      BY <1>1, <2>1, <3>1, <3>3 DEF Holding
  <2>4. CASE ~\E p \in Pushes : pc[p] \in Unrecorded
    <3>1. released' = released
      BY <1>5, <2>4 DEF configureWorkflow, Unrecorded
    <3>2. QED
      BY <1>0, <2>1, <2>2, <2>4, <3>1 DEF ReleaseRight
  <2>5. QED
    BY <2>3, <2>4
<1>6. ASSUME NEW p \in Pushes, NEW f \in Refs, NEW sha \in Values, ReceiveRef(p, f, sha) PROVE Goal
  <2>1. pc' = pc /\ pc[p] = "receiving" /\ releaseRef' = releaseRef /\ released' = released
    BY <1>6 DEF ReceiveRef, pushVars, worldVars
  <2>2. ReleaseRight(p)'
    BY <1>0, <2>1 DEF ReleaseRight, Unrecorded, Refreshing
  <2>3. QED
    BY <1>1, <2>1, <2>2 DEF Holding, Unrecorded
<1>7. CASE UNCHANGED <<refs, events, releaseRef, released, pushed>>
  <2>1. \A q \in Pushes, g \in Refs : EventsBy(q, g)' = EventsBy(q, g) /\ RunsBy(q, g)' = RunsBy(q, g)
    BY <1>7 DEF EventsBy, RunsBy
  <2>2. CASE UNCHANGED <<pc, receiveLock>>
    BY <1>0, <1>7, <2>1, <2>2 DEF ReleaseRight
  <2>3. ASSUME NEW p \in Pushes, NEW from \in Stages, NEW to \in Stages, PcStep(p, from, to)
        PROVE  Goal
    <3>1. CASE <<from, to>> = <<"locked", "receiving">>
      BY <1>3, <2>3, <3>1 DEF PcStep
    <3>2. CASE <<from, to>> = <<"observed", "recorded">>
      BY <1>2, <2>3, <3>2 DEF PcStep
    <3>3. CASE <<from, to>> \notin {<<"locked", "receiving">>, <<"observed", "recorded">>}
      <4>1. pc'[p] = to /\ pc[p] = from /\ \A q \in Pushes : q # p => pc'[q] = pc[q]
        BY <1>0, <2>3 DEF PcStep, TypeOK
      <4>2. /\ to \in Unrecorded => from \in Unrecorded
            /\ to \in Refreshing => from \in Refreshing
            /\ to # "recorded"
        BY <2>3, <3>3 DEF PcStep, Moves, Exits, Unrecorded, Refreshing
      <4>3. ASSUME NEW q \in Pushes PROVE ReleaseRight(q)'
        <5>1. CASE q = p
          BY <1>0, <1>7, <2>1, <4>1, <4>2, <5>1 DEF ReleaseRight
        <5>2. CASE q # p
          BY <1>0, <1>7, <2>1, <4>1, <5>2 DEF ReleaseRight
        <5>3. QED
          BY <5>1, <5>2
      <4>4. QED
        BY <4>3
    <3>4. QED
      BY <3>1, <3>2, <3>3
  <2>4. QED
    BY <2>2, <2>3, PcSteps
<1>8. QED
  BY <1>2, <1>3, <1>4, <1>5, <1>6, <1>7, Frames, ReleaseFrames

-----------------------------------------------------------------------------
(* The chain of the events *)

\* What recordRefChanges appends tells of where the push has moved the branch: it breaks the
\* chain only if the log had the branch elsewhere when the push began.
LEMMA MissingRecorded ==
    ASSUME TypeOK, NEW start, NEW p \in Pushes, recordRefChanges(p), NEW f \in Refs,
           after[p] = refs, IsFiniteSet(Breaks(start, f))
    PROVE  /\ IsFiniteSet(Breaks(start, f)')
           /\ Missing(start, refs, f)' <= Missing(start, before[p], f)
<1>1. PICK n \in Nat : n = Len(events[f])
  BY RecordFacts
<1>2. /\ DOMAIN events[f] = 1 .. n /\ DOMAIN events'[f] = 1 .. Len(events'[f])
      /\ before[p][f] = after[p][f] => events'[f] = events[f]
      /\ before[p][f] # after[p][f] =>
               /\ Len(events'[f]) \in {n + 1, n + 2}
               /\ \A j \in 1 .. n : events'[f][j] = events[f][j]
               /\ events'[f][n + 1].event = "push"
               /\ events'[f][n + 1].before = before[p][f]
               /\ events'[f][n + 1].after = after[p][f]
               /\ Len(events'[f]) = n + 2 =>
                     /\ events'[f][n + 2].event = "requested"
                     /\ events'[f][n + 2].after = after[p][f]
  BY <1>1, RecordFacts
<1>3. refs' = refs
  BY DEF recordRefChanges
<1>4. Cardinality(Breaks(start, f)) \in Nat
  BY FS_CardinalityType
<1>5. CASE before[p][f] = after[p][f]
  <2>1. Breaks(start, f)' = Breaks(start, f)
        /\ Told(start, f, Len(events[f]) + 1)' = Told(start, f, Len(events[f]) + 1)
    BY <1>2, <1>5 DEF Breaks, Told
  <2>2. QED
    BY <1>3, <1>4, <1>5, <2>1 DEF Missing
<1>6. CASE before[p][f] # after[p][f]
  <2>1. \A i \in 1 .. n + 1 : Told(start, f, i)' = Told(start, f, i)
    <3>1. \A i \in 1 .. n + 1 : i # 1 => i - 1 \in 1 .. n
      OBVIOUS
    <3>2. QED
      BY <1>2, <1>6, <3>1 DEF Told
  <2>2. Told(start, f, Len(events[f]) + 1)' = refs[f]
    BY <1>2, <1>6 DEF Told
  <2>3. Breaks(start, f)' = Breaks(start, f) \cup
                               IF before[p][f] # Told(start, f, n + 1) THEN {n + 1} ELSE {}
    <3>1. \A i \in DOMAIN events'[f] : i \in 1 .. n \/ i = n + 1
             \/ (i = n + 2 /\ events'[f][i].event # "push")
      BY <1>2, <1>6
    <3>2. 1 .. n \subseteq DOMAIN events'[f] /\ n + 1 \in DOMAIN events'[f] /\ n + 1 \notin 1 .. n
      BY <1>2, <1>6
    <3>3. \A i \in DOMAIN events'[f] : i \in Breaks(start, f)' <=>
             i \in Breaks(start, f) \/ (i = n + 1 /\ before[p][f] # Told(start, f, n + 1))
      BY <1>2, <1>6, <2>1, <3>1, <3>2 DEF Breaks
    <3>4. QED
      BY <1>2, <3>2, <3>3 DEF Breaks
  <2>4. CASE before[p][f] # Told(start, f, n + 1)
    <3>1. Breaks(start, f)' = Breaks(start, f) \cup {n + 1}
      BY <2>3, <2>4
    <3>2. /\ IsFiniteSet(Breaks(start, f)')
          /\ Cardinality(Breaks(start, f)') =
                IF n + 1 \in Breaks(start, f) THEN Cardinality(Breaks(start, f))
                ELSE Cardinality(Breaks(start, f)) + 1
      BY <3>1, FS_AddElement
    <3>3. Missing(start, before[p], f) = Cardinality(Breaks(start, f)) + 1
      BY <1>1, <2>4 DEF Missing
    <3>4. Missing(start, refs, f)' = Cardinality(Breaks(start, f)')
      BY <1>3, <1>4, <2>2, <3>2 DEF Missing
    <3>5. QED
      BY <1>4, <3>2, <3>3, <3>4
  <2>5. CASE before[p][f] = Told(start, f, n + 1)
    <3>1. Breaks(start, f)' = Breaks(start, f)
      BY <2>3, <2>5
    <3>2. QED
      BY <1>1, <1>3, <1>4, <2>2, <2>5, <3>1 DEF Missing
  <2>6. QED
    BY <2>4, <2>5
<1>7. QED
  BY <1>5, <1>6

LEMMA MissingGrows ==
    ASSUME NEW start, NEW f \in Refs, NEW m, NEW o, IsFiniteSet(Breaks(start, f)),
           observationErrors \in Nat, Missing(start, m, f) <= observationErrors
    PROVE  Missing(start, o, f) <= observationErrors + 1
<1>1. Cardinality(Breaks(start, f)) \in Nat
  BY FS_CardinalityType
<1>2. QED
  BY <1>1 DEF Missing

LEMMA GapsStep ==
    ASSUME TypeOK, LockHeld, \A p \in Pushes : MovedRight(p), NEW start, GapsRight(start),
           [Next]_vars
    PROVE  GapsRight(start)'
<1> SUFFICES ASSUME NEW f \in Refs
             PROVE  /\ IsFiniteSet(Breaks(start, f)')
                    /\ (\A p \in Pushes : pc'[p] \notin Unrecorded) =>
                          Missing(start, refs, f)' <= observationErrors'
                    /\ \A p \in Pushes : pc'[p] \in Unrecorded =>
                          Missing(start, before[p], f)' <= observationErrors'
  BY DEF GapsRight
<1>1. /\ IsFiniteSet(Breaks(start, f))
      /\ (\A p \in Pushes : pc[p] \notin Unrecorded) =>
            Missing(start, refs, f) <= observationErrors
      /\ \A p \in Pushes : pc[p] \in Unrecorded =>
            Missing(start, before[p], f) <= observationErrors
  BY DEF GapsRight
<1>2. CASE UNCHANGED <<pc, receiveLock>>
  <2>1. ~\E p \in Pushes : recordRefChanges(p) \/ FailAfter(p) \/ SnapshotBefore(p)
    BY <1>2 DEF recordRefChanges, FailAfter, SnapshotBefore, Goto, Leave, TypeOK
  <2>2. /\ events' = events /\ observationErrors' = observationErrors /\ before' = before
        /\ refs' = refs \/ \E p \in Pushes : pc[p] = "receiving"
    BY <2>1, Frames DEF ReceiveRef
  <2>3. /\ Breaks(start, f)' = Breaks(start, f)
        /\ \A p \in Pushes : Missing(start, before[p], f)' = Missing(start, before[p], f)
        /\ refs' = refs => Missing(start, refs, f)' = Missing(start, refs, f)
    BY <2>2 DEF Breaks, Told, Missing
  <2>4. QED
    BY <1>1, <1>2, <2>2, <2>3 DEF Unrecorded
<1>3. ASSUME NEW p \in Pushes, NEW from \in Stages, NEW to \in Stages, PcStep(p, from, to)
      PROVE  /\ IsFiniteSet(Breaks(start, f)')
             /\ (\A q \in Pushes : pc'[q] \notin Unrecorded) =>
                   Missing(start, refs, f)' <= observationErrors'
             /\ \A q \in Pushes : pc'[q] \in Unrecorded =>
                   Missing(start, before[q], f)' <= observationErrors'
  <2>1. /\ pc'[p] = to /\ pc[p] = from /\ from # to
        /\ \A q \in Pushes : q # p => pc'[q] = pc[q]
    BY <1>3 DEF PcStep, TypeOK, Moves, Exits
  <2>2. refs' = refs
    BY <2>1, Frames DEF ReceiveRef, pushVars
  <2>3. CASE recordRefChanges(p)
    <3>1. pc[p] = "observed" /\ pc'[p] = "recorded" /\ observationErrors' = observationErrors
      BY <2>1, <2>3 DEF recordRefChanges, Goto, TypeOK
    <3>2. after[p] = refs /\ Missing(start, before[p], f) <= observationErrors
      BY <1>1, <3>1 DEF MovedRight, Unrecorded
    <3>3. /\ IsFiniteSet(Breaks(start, f)')
          /\ Missing(start, refs, f)' <= Missing(start, before[p], f)
      BY <1>1, <2>3, <3>2, MissingRecorded
    <3>4. \A q \in Pushes : pc'[q] \notin Unrecorded
      BY <2>1, <3>1, OneHolder DEF Unrecorded, Holding, Refreshing
    <3>5. Missing(start, refs, f)' \in Nat /\ Missing(start, before[p], f) \in Nat
      BY <1>1, <3>3, FS_CardinalityType DEF Missing
    <3>6. Missing(start, refs, f)' <= observationErrors'
      BY <3>1, <3>2, <3>3, <3>5 DEF TypeOK
    <3>7. QED
      BY <3>3, <3>4, <3>6
  <2>4. CASE FailAfter(p)
    <3>1. pc[p] = "received" /\ pc'[p] = "failed" /\ observationErrors' = observationErrors + 1
          /\ events' = events
      BY <2>1, <2>4 DEF FailAfter, Leave, Goto, TypeOK
    <3>2. \A q \in Pushes : pc'[q] \notin Unrecorded
      BY <2>1, <3>1, OneHolder DEF Unrecorded, Holding
    <3>3. Missing(start, before[p], f) <= observationErrors
      BY <1>1, <3>1 DEF Unrecorded
    <3>4. Missing(start, refs, f) <= observationErrors + 1
      BY <1>1, <3>3, MissingGrows DEF TypeOK
    <3>5. Breaks(start, f)' = Breaks(start, f) /\ Missing(start, refs, f)' = Missing(start, refs, f)
      BY <2>2, <3>1 DEF Breaks, Told, Missing
    <3>6. QED
      BY <1>1, <3>1, <3>2, <3>4, <3>5
  <2>5. CASE SnapshotBefore(p)
    <3>1. pc[p] = "locked" /\ pc'[p] = "receiving" /\ observationErrors' = observationErrors
          /\ events' = events /\ before'[p] = refs
      BY <2>1, <2>5 DEF SnapshotBefore, Goto, TypeOK, worldVars
    <3>2. \A q \in Pushes : q # p => pc[q] \notin Unrecorded
      BY <2>1, <3>1, OneHolder DEF Unrecorded, Holding
    <3>3. Missing(start, refs, f) <= observationErrors
      BY <1>1, <3>1, <3>2 DEF Unrecorded
    <3>4. Breaks(start, f)' = Breaks(start, f)
          /\ Missing(start, before[p], f)' = Missing(start, refs, f)
      BY <3>1 DEF Breaks, Told, Missing
    <3>5. QED
      BY <1>1, <2>1, <3>1, <3>2, <3>3, <3>4 DEF Unrecorded
  <2>6. CASE ~recordRefChanges(p) /\ ~FailAfter(p) /\ ~SnapshotBefore(p)
    <3>1. \A q \in Pushes : pc'[q] \in Unrecorded <=> pc[q] \in Unrecorded
      BY <1>3, <2>1, <2>6 DEF PcStep, Moves, Exits, Unrecorded
    <3>2. ~\E q \in Pushes : q # p /\ (recordRefChanges(q) \/ FailAfter(q) \/ SnapshotBefore(q))
      BY <2>1 DEF recordRefChanges, FailAfter, SnapshotBefore, Goto, Leave, TypeOK
    <3>3. events' = events /\ observationErrors' = observationErrors /\ before' = before
      BY <2>6, <3>2, Frames
    <3>4. /\ Breaks(start, f)' = Breaks(start, f)
          /\ \A q \in Pushes : Missing(start, before[q], f)' = Missing(start, before[q], f)
          /\ Missing(start, refs, f)' = Missing(start, refs, f)
      BY <2>2, <3>3 DEF Breaks, Told, Missing
    <3>5. QED
      BY <1>1, <3>1, <3>3, <3>4
  <2>7. QED
    BY <2>3, <2>4, <2>5, <2>6
<1>4. QED
  BY <1>2, <1>3, PcSteps

-----------------------------------------------------------------------------
(* Theorems about pushes *)

LEMMA PushInvInit == Init => PushInv /\ GapsRight(NoRefs)
<1> SUFFICES ASSUME Init PROVE PushInv /\ GapsRight(NoRefs)
  OBVIOUS
<1>1. TypeOK
  BY InitType
<1>2. Listed
  BY DEF Init, Listed
<1>3. LockHeld
  BY NoPushAssumption DEF Init, LockHeld, Holding, Unrecorded, Refreshing
<1>4. ASSUME NEW p \in Pushes PROVE MovedRight(p) /\ \A f \in Refs : ToldRight(p, f)
  <2>1. MovedRight(p)
    BY DEF Init, MovedRight, Unrecorded
  <2>2. \A f \in Refs : ToldRight(p, f)
    BY DEF Init, ToldRight, Refreshing, EventsBy
  <2>3. QED
    BY <2>1, <2>2
<1>5. RunsFollowPushes
  BY DEF Init, RunsFollowPushes
<1>6. GapsRight(NoRefs)
  <2>1. \A f \in Refs : Breaks(NoRefs, f) = {} /\ Told(NoRefs, f, Len(events[f]) + 1) = refs[f]
    BY DEF Init, Breaks, Told
  <2>2. \A p \in Pushes : pc[p] \notin Unrecorded
    BY DEF Init, Unrecorded
  <2>3. IsFiniteSet({}) /\ Cardinality({}) = 0
    BY FS_EmptySet
  <2>4. PICK start : start = NoRefs
    OBVIOUS
  <2>5. ASSUME NEW f \in Refs PROVE IsFiniteSet(Breaks(start, f)) /\ Missing(start, refs, f) = 0
    <3>1. Cardinality(Breaks(start, f)) = 0 /\ IsFiniteSet(Breaks(start, f))
      BY <2>1, <2>3, <2>4
    <3>2. Told(start, f, Len(events[f]) + 1) = refs[f]
      BY <2>1, <2>4
    <3>3. QED
      BY <3>1, <3>2 DEF Missing
  <2>6. observationErrors = 0
    BY DEF Init
  <2>7. GapsRight(start)
    BY <2>2, <2>5, <2>6 DEF GapsRight
  <2>8. QED
    BY <2>4, <2>7
<1>7. \A p \in Pushes : ReleaseRight(p)
  BY DEF Init, ReleaseRight, Unrecorded, Refreshing
<1>8. QED
  BY <1>1, <1>2, <1>3, <1>4, <1>5, <1>6, <1>7 DEF PushInv

LEMMA PushInvStep ==
    ASSUME PushInv, [Next]_vars
    PROVE  PushInv'
<1>1. TypeOK' /\ Listed' /\ LockHeld'
  BY TypeStep, ListedStep, LockStep DEF PushInv
<1>2. \A p \in Pushes : MovedRight(p)'
  BY MovedStep DEF PushInv
<1>3. \A p \in Pushes, f \in Refs : ToldRight(p, f)'
  BY ToldStep DEF PushInv
<1>4. RunsFollowPushes'
  BY RunsStep DEF PushInv
<1>5. \A p \in Pushes : ReleaseRight(p)'
  BY ReleaseStep DEF PushInv
<1>6. QED
  BY <1>1, <1>2, <1>3, <1>4, <1>5 DEF PushInv

LEMMA PushInvariance == Spec => [](PushInv /\ GapsRight(NoRefs))
<1>1. PushInv /\ GapsRight(NoRefs) /\ [Next]_vars => (PushInv /\ GapsRight(NoRefs))'
  <2> SUFFICES ASSUME PushInv, GapsRight(NoRefs), [Next]_vars
               PROVE  PushInv' /\ GapsRight(NoRefs)'
    OBVIOUS
  <2>1. GapsRight(NoRefs)'
    BY GapsStep DEF PushInv
  <2>2. QED
    BY <2>1, PushInvStep
<1>2. QED
  BY <1>1, PushInvInit, PTL DEF Spec

\* The state that pushes, their snapshots and the pull requests share is well typed; a pull
\* request, in particular, never keeps the empty string for a commit.
THEOREM TypeCorrect == Spec => []TypeOK
<1>1. PushInv => TypeOK
  BY DEF PushInv
<1>2. QED
  BY <1>1, PushInvariance, PTL

LEMMA AttributionFollows == PushInv => EventsAreAttributed
<1> SUFFICES ASSUME PushInv, NEW p \in Pushes, NEW f \in Refs
             PROVE  /\ pc[p] = "replied" =>
                          Cardinality(EventsBy(p, f)) = IF f \in pushed[p] THEN 1 ELSE 0
                    /\ pc[p] \in {"idle", "waiting", "refused", "failed"} => EventsBy(p, f) = {}
  BY DEF EventsAreAttributed
<1>1. ToldRight(p, f)
  BY DEF PushInv
<1>2. Cardinality({}) = 0 /\ \A x : Cardinality({x}) = 1
  BY FS_EmptySet, FS_Singleton
<1>3. QED
  BY <1>1, <1>2 DEF ToldRight, Refreshing

\* However pushes overlap, a push that was answered is told of exactly the refs that it moved,
\* once each, and one that failed of none.
THEOREM AttributionCorrect == Spec => []EventsAreAttributed
BY AttributionFollows, PushInvariance, PTL

LEMMA RunsFollow == PushInv => RunsAreForTheReleaseRef
<1> SUFFICES ASSUME PushInv, NEW p \in Pushes, NEW f \in Refs, pc[p] \in Refreshing
             PROVE  /\ Cardinality(RunsBy(p, f)) <= 1
                    /\ \A i \in RunsBy(p, f) : /\ f \in pushed[p] /\ refs[f] # NoSHA
                                                /\ events[f][i].after = refs[f]
                    /\ pc[p] = "recorded" =>
                          /\ RunsBy(p, f) # {} => f \in released
                          /\ released = {f} /\ f \in pushed[p] /\ refs[f] # NoSHA =>
                                RunsBy(p, f) # {}
  BY DEF RunsAreForTheReleaseRef, Refreshing
<1>1. ToldRight(p, f) /\ ReleaseRight(p) /\ RunsFollowPushes /\ TypeOK
  BY DEF PushInv
<1>2. ASSUME NEW i \in RunsBy(p, f)
      PROVE  /\ i \in Nat /\ i - 1 \in EventsBy(p, f)
             /\ events[f][i - 1].after = events[f][i].after /\ events[f][i].after # NoSHA
  BY <1>1, RunIsOfPush
<1>3. ASSUME NEW i \in RunsBy(p, f)
      PROVE  f \in pushed[p] /\ refs[f] # NoSHA /\ events[f][i].after = refs[f]
  <2>1. f \in pushed[p]
    BY <1>1, <1>2 DEF ToldRight
  <2>2. events[f][i - 1].after = refs[f]
    BY <1>1, <1>2 DEF ReleaseRight
  <2>3. QED
    BY <1>2, <2>1, <2>2
<1>4. Cardinality(RunsBy(p, f)) <= 1
  <2>1. CASE RunsBy(p, f) = {}
    BY <2>1, FS_EmptySet
  <2>2. CASE RunsBy(p, f) # {}
    <3>1. PICK i \in RunsBy(p, f) : TRUE
      BY <2>2
    <3>2. PICK e \in DOMAIN events[f] : EventsBy(p, f) = {e}
      BY <1>1, <1>3, <3>1 DEF ToldRight
    <3>3. \A j \in RunsBy(p, f) : j \in Nat /\ j - 1 = e
      BY <1>2, <3>2
    <3>4. RunsBy(p, f) = {i}
      BY <3>1, <3>3
    <3>5. Cardinality({i}) = 1
      BY FS_Singleton
    <3>6. QED
      BY <3>4, <3>5
  <2>3. QED
    BY <2>1, <2>2
<1>5. QED
  BY <1>1, <1>3, <1>4 DEF ReleaseRight

\* However pushes overlap and the workflow is reconfigured meanwhile, a push that has been
\* recorded has requested one run for the commit it left the release ref at, and no other.
THEOREM RunsCorrect == Spec => []RunsAreForTheReleaseRef
BY RunsFollow, PushInvariance, PTL

LEMMA GapsFollow ==
    ASSUME PushInv, NEW start, GapsRight(start)
    PROVE  receiveLock = NoPush => \A f \in Refs : Gaps(start, f) <= observationErrors
<1>1. receiveLock = NoPush => \A p \in Pushes : pc[p] \notin Unrecorded
  BY NoPushAssumption DEF PushInv, LockHeld, Holding
<1>2. QED
  BY <1>1 DEF GapsRight, Missing, Gaps

\* Between pushes, the log of a branch leads to where git has it, but for one movement or
\* break for each recorded observation error.
THEOREM GapsCorrect == Spec => []GapsAreRecorded
<1>1. PushInv /\ GapsRight(NoRefs) => GapsAreRecorded
  BY GapsFollow DEF GapsAreRecorded
<1>2. QED
  BY <1>1, PushInvariance, PTL

\* No step drops a pull request, and none but the control client changes its state.
THEOREM RefreshCorrect == Spec => RefreshKeepsChanges
<1>1. ASSUME PushInv, [Next]_vars
      PROVE  \A k \in DOMAIN pulls : /\ k \in DOMAIN pulls'
                                     /\ pc' # pc => pulls'[k].state = pulls[k].state
  <2>1. DOMAIN pulls \subseteq DOMAIN pulls'
    BY <1>1, PullsStay
  <2>2. ASSUME NEW k \in DOMAIN pulls, NEW p \in Pushes, StoreSnapshot(p)
        PROVE  pulls'[k].state = pulls[k].state
    <3>1. PICK s \in snapshot[p] : pulls' = [pulls EXCEPT ![s.key] = Refreshed(@, s)]
      BY <2>2 DEF StoreSnapshot
    <3>2. pulls[k] \in PullRequest
      BY <1>1, PullMapIs DEF PushInv, TypeOK
    <3>3. Refreshed(pulls[k], s).state = pulls[k].state
      BY <3>2 DEF Refreshed, PullRequest
    <3>4. QED
      BY <3>1, <3>3
  <2>3. pulls' = pulls \/ pc' = pc \/ \E p \in Pushes : StoreSnapshot(p)
    BY <1>1 DEF Next, PushStep, ControlStep, AuthorizePush, LockReceive, SnapshotBefore,
           FailBefore, ReceiveRef, FinishReceive, SnapshotAfter, FailAfter, recordRefChanges,
           ListPulls, ResolveBase, ResolveHead, ReplyPush, BeginCreatePull, EndCreatePull,
           changePullRequestState, configureWorkflow, vars, worldVars, pushVars
  <2>4. QED
    BY <2>1, <2>2, <2>3
<1>2. QED
  BY <1>1, PushInvariance, PTL DEF Spec, RefreshKeepsChanges

-----------------------------------------------------------------------------
(* Pull requests *)

\* Pull requests keep their branches.  A key under creation is free, since createPullRequest
\* has the world to itself.
LEMMA PullRefsStay ==
    ASSUME TypeOK, CreatingRight, [Next]_vars, NEW k \in DOMAIN pulls
    PROVE  /\ k \in DOMAIN pulls'
           /\ pulls'[k].baseRef = pulls[k].baseRef /\ pulls'[k].headRef = pulls[k].headRef
<1> DEFINE Goal == pulls'[k].baseRef = pulls[k].baseRef /\ pulls'[k].headRef = pulls[k].headRef
<1>1. k \in DOMAIN pulls'
  BY PullsStay
<1>2. pulls[k] \in PullRequest
  BY PullMapIs DEF TypeOK
<1>3. CASE pulls' = pulls
  BY <1>1, <1>3
<1>4. ASSUME NEW p \in Pushes, StoreSnapshot(p) PROVE Goal
  <2>1. PICK s \in snapshot[p] : pulls' = [pulls EXCEPT ![s.key] = Refreshed(@, s)]
    BY <1>4 DEF StoreSnapshot
  <2>2. QED
    BY <1>2, <2>1 DEF Refreshed, PullRequest
<1>5. ASSUME NEW c \in creating, NEW state, EndCreatePull(c, state) PROVE Goal
  BY <1>5 DEF EndCreatePull, CreatingRight
<1>6. ASSUME NEW j, NEW state, changePullRequestState(j, state) PROVE Goal
  BY <1>2, <1>6 DEF changePullRequestState, PullRequest
<1>7. QED
  BY <1>1, <1>3, <1>4, <1>5, <1>6
     DEF Next, PushStep, ControlStep, AuthorizePush, LockReceive, SnapshotBefore, FailBefore,
         ReceiveRef, FinishReceive, SnapshotAfter, FailAfter, recordRefChanges, ListPulls,
         ResolveBase, ResolveHead, ReplyPush, BeginCreatePull, configureWorkflow, vars,
         worldVars

\* A step of one push leaves the others where they are, and the branches alone.
LEMMA OthersStay ==
    ASSUME TypeOK, [Next]_vars, NEW p \in Pushes, NEW from, NEW to, PcStep(p, from, to)
    PROVE  /\ pc[p] = from /\ pc'[p] = to /\ from # to
           /\ refs' = refs /\ pushed' = pushed
           /\ \A q \in Pushes : q # p =>
                 /\ pc'[q] = pc[q] /\ before'[q] = before[q]
                 /\ todo'[q] = todo[q] /\ snapshot'[q] = snapshot[q]
<1>1. /\ pc[p] = from /\ pc'[p] = to /\ from # to
      /\ \A q \in Pushes : q # p => pc'[q] = pc[q]
  BY DEF PcStep, TypeOK, Moves, Exits
<1>2. refs' = refs /\ pushed' = pushed
  BY <1>1, Frames DEF ReceiveRef, pushVars
<1>3. \A q \in Pushes : q # p => before'[q] = before[q]
  BY <1>1, Frames DEF SnapshotBefore, Goto, TypeOK
<1>4. \A q \in Pushes : q # p => todo'[q] = todo[q]
  <2>1. ASSUME NEW r \in Pushes, ListPulls(r) \/ StoreSnapshot(r), NEW q \in Pushes, q # p
        PROVE  todo'[q] = todo[q]
    <3>1. r = p
      BY <1>1, <2>1 DEF ListPulls, StoreSnapshot, Goto, TypeOK
    <3>2. QED
      BY <2>1, <3>1 DEF ListPulls, StoreSnapshot, TypeOK
  <2>2. QED
    BY <2>1, Frames
<1>5. \A q \in Pushes : q # p => snapshot'[q] = snapshot[q]
  <2>1. ASSUME NEW r \in Pushes, NEW q \in Pushes, q # p,
               ResolveHead(r) \/ StoreSnapshot(r) \/ \E k \in Pulls : ResolveBase(r, k)
        PROVE  snapshot'[q] = snapshot[q]
    <3>1. r = p
      BY <1>1, <2>1 DEF ResolveHead, ResolveBase, StoreSnapshot, Goto, TypeOK
    <3>2. QED
      BY <2>1, <3>1 DEF ResolveHead, ResolveBase, StoreSnapshot, TypeOK
  <2>2. QED
    BY <2>1, Frames
<1>6. QED
  BY <1>1, <1>2, <1>3, <1>4, <1>5

\* The steps that are no steps of a push from one stage to the next.
LEMMA StandingStill ==
    ASSUME TypeOK, [Next]_vars, UNCHANGED <<pc, receiveLock>>
    PROVE  /\ UNCHANGED <<events, observationErrors, unobserved, before, todo, snapshot>>
           /\ \/ refs' = refs /\ pushed' = pushed
              \/ \E p \in Pushes, f \in Refs, sha \in Values : ReceiveRef(p, f, sha)
<1>1. ~\E p \in Pushes : \/ recordRefChanges(p) \/ FailAfter(p) \/ ReplyPush(p)
                         \/ SnapshotBefore(p) \/ ListPulls(p) \/ StoreSnapshot(p)
                         \/ ResolveHead(p) \/ \E k \in Pulls : ResolveBase(p, k)
  BY DEF recordRefChanges, FailAfter, ReplyPush, SnapshotBefore, ListPulls, StoreSnapshot,
         ResolveHead, ResolveBase, Goto, Leave, TypeOK
<1>2. QED
  BY <1>1, Frames

LEMMA SnapshotsStep ==
    ASSUME PushInv, SnapshotsRight, CreatingRight, [Next]_vars
    PROVE  SnapshotsRight'
<1>0. TypeOK /\ LockHeld /\ Listed
  BY DEF PushInv
<1> SUFFICES ASSUME NEW q \in Pushes, pc'[q] \in {"resolving", "resolved"}, NEW s \in snapshot'[q]
             PROVE  /\ s.key \in todo'[q]
                    /\ s.baseSHA = refs'[pulls'[s.key].baseRef]
                    /\ pc'[q] = "resolved" => s.headSHA = refs'[pulls'[s.key].headRef]
  BY DEF SnapshotsRight
<1>1. CASE pc'[q] = pc[q] /\ todo'[q] = todo[q] /\ snapshot'[q] = snapshot[q] /\ refs' = refs
  <2>1. /\ s.key \in todo[q] /\ s.baseSHA = refs[pulls[s.key].baseRef]
        /\ pc[q] = "resolved" => s.headSHA = refs[pulls[s.key].headRef]
    BY <1>1 DEF SnapshotsRight
  <2>2. s.key \in DOMAIN pulls
    BY <1>0, <1>1 DEF Listed
  <2>3. /\ pulls'[s.key].baseRef = pulls[s.key].baseRef
        /\ pulls'[s.key].headRef = pulls[s.key].headRef
    BY <1>0, <2>2, PullRefsStay
  <2>4. QED
    BY <1>1, <2>1, <2>3
<1>2. CASE UNCHANGED <<pc, receiveLock>>
  <2>1. ~\E p \in Pushes, f \in Refs, sha \in Values : ReceiveRef(p, f, sha)
    BY <1>0, <1>2, OneHolder DEF ReceiveRef, Holding, Unrecorded, Refreshing
  <2>2. QED
    BY <1>0, <1>1, <1>2, <2>1, StandingStill
<1>3. ASSUME NEW p \in Pushes, NEW from \in Stages, NEW to \in Stages, PcStep(p, from, to)
      PROVE  /\ s.key \in todo'[q]
             /\ s.baseSHA = refs'[pulls'[s.key].baseRef]
             /\ pc'[q] = "resolved" => s.headSHA = refs'[pulls'[s.key].headRef]
  <2>1. /\ pc[p] = from /\ pc'[p] = to /\ refs' = refs
        /\ q # p => pc'[q] = pc[q] /\ todo'[q] = todo[q] /\ snapshot'[q] = snapshot[q]
    BY <1>0, <1>3, OthersStay
  <2>2. CASE q # p
    BY <1>1, <2>1, <2>2
  <2>3. CASE q = p /\ pc'[q] = "resolving"
    <3>1. PICK k \in Pulls : ResolveBase(p, k)
      BY <1>3, <2>1, <2>3 DEF PcStep, Moves, Exits
    <3>2. /\ s = [key |-> k, baseSHA |-> refs[pulls[k].baseRef], headSHA |-> NoSHA]
          /\ todo' = todo /\ k \in todo[p] /\ pulls' = pulls
      BY <1>0, <2>3, <3>1 DEF ResolveBase, TypeOK, worldVars
    <3>3. QED
      BY <2>1, <2>3, <3>2
  <2>4. CASE q = p /\ pc'[q] = "resolved"
    <3>1. ResolveHead(p) /\ pc[p] = "resolving"
      BY <1>3, <2>1, <2>4 DEF PcStep, Moves, Exits
    <3>2. todo' = todo /\ pulls' = pulls
          /\ snapshot'[p] = {[x EXCEPT !.headSHA = refs[pulls[x.key].headRef]] : x \in snapshot[p]}
      BY <1>0, <3>1 DEF ResolveHead, TypeOK, worldVars
    <3>3. PICK x \in snapshot[p] : s = [x EXCEPT !.headSHA = refs[pulls[x.key].headRef]]
      BY <2>4, <3>2
    <3>4. x \in Snapshot /\ x.key \in todo[p] /\ x.baseSHA = refs[pulls[x.key].baseRef]
      BY <1>0, <3>1 DEF TypeOK, SnapshotsRight
    <3>5. s.key = x.key /\ s.baseSHA = x.baseSHA /\ s.headSHA = refs[pulls[x.key].headRef]
      BY <3>3, <3>4 DEF Snapshot
    <3>6. QED
      BY <2>1, <2>4, <3>2, <3>4, <3>5
  <2>5. QED
    BY <2>2, <2>3, <2>4
<1>4. QED
  BY <1>2, <1>3, PcSteps

\* What a push must wait for while a createPullRequest is under way.
LEMMA CreationExcludes ==
    ASSUME NEW c \in creating
    PROVE  /\ ~\E p \in Pushes : \/ FailAfter(p) \/ recordRefChanges(p) \/ ListPulls(p)
                                 \/ StoreSnapshot(p) \/ AuthorizePush(p)
           /\ ~\E k, state : changePullRequestState(k, state)
           /\ ~\E f : configureWorkflow(f)
           /\ ~\E k, base, head : BeginCreatePull(k, base, head)
BY DEF FailAfter, recordRefChanges, ListPulls, StoreSnapshot, AuthorizePush,
       changePullRequestState, configureWorkflow, BeginCreatePull, WorldFree

LEMMA CreationSteps ==
    ASSUME [Next]_vars
    PROVE  \/ creating' = creating /\ (creating # {} => pulls' = pulls)
           \/ creating' = {}
           \/ \E k \in Pulls, base, head \in Refs : BeginCreatePull(k, base, head)
<1>1. CASE creating = {}
  BY <1>1 DEF Next, PushStep, ControlStep, AuthorizePush, LockReceive, SnapshotBefore,
         FailBefore, ReceiveRef, FinishReceive, SnapshotAfter, FailAfter, recordRefChanges,
         ListPulls, ResolveBase, ResolveHead, StoreSnapshot, ReplyPush, EndCreatePull,
         changePullRequestState, configureWorkflow, vars, worldVars
<1>2. CASE creating # {}
  <2>1. PICK c \in creating : TRUE
    BY <1>2
  <2>2. QED
    BY <2>1, CreationExcludes
       DEF Next, PushStep, ControlStep, LockReceive, SnapshotBefore,
         FailBefore, ReceiveRef, FinishReceive, SnapshotAfter, ResolveBase, ResolveHead,
         ReplyPush, EndCreatePull, vars, worldVars
<1>3. QED
  BY <1>1, <1>2

LEMMA CreatingStep ==
    ASSUME PushInv, CreatingRight, [Next]_vars
    PROVE  CreatingRight'
<1>0. TypeOK /\ LockHeld /\ \A p \in Pushes : MovedRight(p)
  BY DEF PushInv
<1> SUFFICES ASSUME NEW c \in creating'
             PROVE  /\ c.key \notin DOMAIN pulls'
                    /\ (\A p \in Pushes : pc'[p] \notin Unrecorded) =>
                          c.baseSHA = refs'[c.baseRef]
                    /\ \A p \in Pushes : pc'[p] \in Unrecorded =>
                          \/ c.baseSHA = before'[p][c.baseRef]
                          \/ c.baseRef \in pushed'[p] /\ c.baseSHA = refs'[c.baseRef]
  BY DEF CreatingRight
<1>1. ASSUME NEW k \in Pulls, NEW base \in Refs, NEW head \in Refs, BeginCreatePull(k, base, head)
      PROVE  /\ c.key \notin DOMAIN pulls'
             /\ (\A p \in Pushes : pc'[p] \notin Unrecorded) => c.baseSHA = refs'[c.baseRef]
             /\ \A p \in Pushes : pc'[p] \in Unrecorded =>
                   \/ c.baseSHA = before'[p][c.baseRef]
                   \/ c.baseRef \in pushed'[p] /\ c.baseSHA = refs'[c.baseRef]
  <2>1. /\ c = [key |-> k, baseRef |-> base, headRef |-> head, baseSHA |-> refs[base]]
        /\ k \notin DOMAIN pulls
        /\ UNCHANGED <<refs, pulls, pc, before, pushed>>
    BY <1>1 DEF BeginCreatePull, pushVars, historyVars
  <2>2. c.key = k /\ c.baseRef = base /\ c.baseSHA = refs[base]
    BY <2>1
  <2>3. \A p \in Pushes : pc[p] \in Unrecorded => (base \in pushed[p] <=> refs[base] # before[p][base])
    BY <1>0 DEF MovedRight
  <2>4. QED
    BY <2>1, <2>2, <2>3
<1>2. ASSUME c \in creating, pulls' = pulls
      PROVE  /\ c.key \notin DOMAIN pulls'
             /\ (\A p \in Pushes : pc'[p] \notin Unrecorded) => c.baseSHA = refs'[c.baseRef]
             /\ \A p \in Pushes : pc'[p] \in Unrecorded =>
                   \/ c.baseSHA = before'[p][c.baseRef]
                   \/ c.baseRef \in pushed'[p] /\ c.baseSHA = refs'[c.baseRef]
  <2>1. /\ c.key \notin DOMAIN pulls /\ c.baseRef \in Refs
        /\ (\A p \in Pushes : pc[p] \notin Unrecorded) => c.baseSHA = refs[c.baseRef]
        /\ \A p \in Pushes : pc[p] \in Unrecorded =>
              \/ c.baseSHA = before[p][c.baseRef]
              \/ c.baseRef \in pushed[p] /\ c.baseSHA = refs[c.baseRef]
    BY <1>0, <1>2 DEF CreatingRight, TypeOK, Creation
  <2>2. CASE UNCHANGED <<pc, receiveLock>>
    <3>1. CASE refs' = refs /\ pushed' = pushed
      BY <1>0, <1>2, <2>1, <2>2, <3>1, StandingStill
    <3>2. ASSUME NEW p \in Pushes, NEW f \in Refs, NEW sha \in Values, ReceiveRef(p, f, sha)
          PROVE  /\ (\A q \in Pushes : pc'[q] \notin Unrecorded) => c.baseSHA = refs'[c.baseRef]
                 /\ \A q \in Pushes : pc'[q] \in Unrecorded =>
                       \/ c.baseSHA = before'[q][c.baseRef]
                       \/ c.baseRef \in pushed'[q] /\ c.baseSHA = refs'[c.baseRef]
      <4>1. /\ pc[p] = "receiving" /\ f \notin pushed[p] /\ before' = before
            /\ pushed'[p] = pushed[p] \cup {f}
            /\ \A g \in Refs : g # f => refs'[g] = refs[g]
        BY <1>0, <3>2 DEF ReceiveRef, TypeOK, RefMap, pushVars
      <4>2. \A q \in Pushes : pc[q] \in Unrecorded => q = p
        BY <1>0, <4>1, OneHolder DEF Holding, Unrecorded
      <4>3. pc[p] \in Unrecorded
        BY <4>1 DEF Unrecorded
      <4>4. \/ c.baseSHA = before[p][c.baseRef]
            \/ c.baseRef \in pushed[p] /\ c.baseSHA = refs[c.baseRef]
        BY <2>1, <4>3
      <4>5. \/ c.baseSHA = before'[p][c.baseRef]
            \/ c.baseRef \in pushed'[p] /\ c.baseSHA = refs'[c.baseRef]
        BY <2>1, <4>1, <4>4
      <4>6. QED
        BY <2>2, <4>2, <4>3, <4>5
    <3>3. QED
      BY <1>0, <1>2, <2>1, <2>2, <3>1, <3>2, StandingStill
  <2>3. ASSUME NEW p \in Pushes, NEW from \in Stages, NEW to \in Stages, PcStep(p, from, to)
        PROVE  /\ (\A q \in Pushes : pc'[q] \notin Unrecorded) => c.baseSHA = refs'[c.baseRef]
               /\ \A q \in Pushes : pc'[q] \in Unrecorded =>
                     \/ c.baseSHA = before'[q][c.baseRef]
                     \/ c.baseRef \in pushed'[q] /\ c.baseSHA = refs'[c.baseRef]
    <3>1. /\ pc[p] = from /\ pc'[p] = to /\ from # to /\ refs' = refs /\ pushed' = pushed
          /\ \A q \in Pushes : q # p => pc'[q] = pc[q] /\ before'[q] = before[q]
      BY <1>0, <2>3, OthersStay
    <3>2. ~FailAfter(p) /\ ~recordRefChanges(p)
      BY <1>2, CreationExcludes
    <3>3. CASE SnapshotBefore(p)
      <4>1. pc[p] = "locked" /\ before'[p] = refs
        BY <1>0, <3>3 DEF SnapshotBefore, Goto, TypeOK
      <4>2. \A q \in Pushes : pc[q] \notin Unrecorded
        BY <1>0, <4>1, OneHolder DEF Holding, Unrecorded
      <4>3. QED
        BY <2>1, <3>1, <4>1, <4>2
    <3>4. CASE ~SnapshotBefore(p)
      <4>1. \A q \in Pushes : pc'[q] \in Unrecorded <=> pc[q] \in Unrecorded
        BY <2>3, <3>1, <3>2, <3>4 DEF PcStep, Moves, Exits, Unrecorded
      <4>2. before' = before
        BY <1>0, <3>1, <3>4, Frames DEF SnapshotBefore, Goto, TypeOK
      <4>3. QED
        BY <2>1, <3>1, <4>1, <4>2
    <3>5. QED
      BY <3>3, <3>4
  <2>4. QED
    BY <1>2, <2>1, <2>2, <2>3, PcSteps
<1>3. QED
  BY <1>1, <1>2, CreationSteps

\* A push that holds the lock is the only one that counts for KeptRight.
LEMMA OnlyPushCounts ==
    ASSUME LockHeld, NEW p \in Pushes, pc[p] \in Holding
    PROVE  \A q \in Pushes : q # p => pc[q] \notin Unrecorded \cup Refreshing
BY OneHolder DEF Holding

\* What a pull request keeps stays right for as long as it keeps it, whoever steps.
LEMMA KeptStays ==
    ASSUME PushInv, [Next]_vars, NEW k \in DOMAIN pulls, NEW f \in Refs, NEW sha,
           KeptRight(k, f, sha),
           \A p \in Pushes : StoreSnapshot(p) => k \notin Remaining(p) \/ k \in todo'[p]
    PROVE  KeptRight(k, f, sha)'
<1>0. TypeOK /\ LockHeld /\ (\A p \in Pushes : MovedRight(p)) /\ k \in DOMAIN pulls'
  BY PullsStay DEF PushInv
<1>1. CASE UNCHANGED <<pc, receiveLock>>
  <2>1. /\ UNCHANGED <<events, observationErrors, unobserved, before, todo, snapshot>>
        /\ \/ refs' = refs /\ pushed' = pushed
           \/ \E p \in Pushes, g \in Refs, x \in Values : ReceiveRef(p, g, x)
    BY <1>0, <1>1, StandingStill
  <2>2. CASE refs' = refs /\ pushed' = pushed
    <3>1. \A p \in Pushes : k \in Remaining(p)' <=> k \in Remaining(p)
      BY <1>0, <1>1, <2>1 DEF Remaining
    <3>2. MovedFrom(f)' = MovedFrom(f) /\ LastSHA(f)' = LastSHA(f)
      BY <2>1, <2>2 DEF MovedFrom, LastSHA
    <3>3. \A p \in Pushes : SeenBy(p, f, sha)' <=> SeenBy(p, f, sha)
      BY <2>1, <2>2, <3>2 DEF SeenBy
    <3>4. Quiet' <=> Quiet
      BY <1>1 DEF Quiet
    <3>5. QED
      BY <1>1, <2>1, <2>2, <3>1, <3>2, <3>3, <3>4 DEF KeptRight
  <2>3. ASSUME NEW p \in Pushes, NEW g \in Refs, NEW x \in Values, ReceiveRef(p, g, x)
        PROVE  KeptRight(k, f, sha)'
    <3>1. /\ pc[p] = "receiving" /\ g \notin pushed[p]
          /\ pushed'[p] = pushed[p] \cup {g}
          /\ \A h \in Refs : h # g => refs'[h] = refs[h]
      BY <1>0, <2>3 DEF ReceiveRef, TypeOK, RefMap
    <3>2. pc[p] \in Unrecorded /\ pc[p] \notin Refreshing
      BY <3>1 DEF Unrecorded, Refreshing
    <3>3. \A q \in Pushes : q # p => pc[q] \notin Unrecorded \cup Refreshing
      BY <1>0, <3>2, OnlyPushCounts DEF Holding
    <3>4. observationErrors = 0 => SeenBy(p, f, sha)
      BY <3>2 DEF KeptRight
    <3>5. observationErrors = 0 => SeenBy(p, f, sha)'
      BY <2>1, <3>1, <3>4 DEF SeenBy, MovedFrom
    <3>6. QED
      BY <1>1, <2>1, <3>2, <3>3, <3>5 DEF KeptRight, Quiet
  <2>4. QED
    BY <2>1, <2>2, <2>3
<1>2. ASSUME NEW p \in Pushes, NEW from \in Stages, NEW to \in Stages, PcStep(p, from, to)
      PROVE  KeptRight(k, f, sha)'
  <2>1. /\ pc[p] = from /\ pc'[p] = to /\ from # to /\ refs' = refs /\ pushed' = pushed
        /\ \A q \in Pushes : q # p => /\ pc'[q] = pc[q] /\ before'[q] = before[q]
                                      /\ todo'[q] = todo[q]
    BY <1>0, <1>2, OthersStay
  <2>2. ASSUME ~SnapshotBefore(p), ~FailAfter(p), ~recordRefChanges(p), ~ReplyPush(p)
        PROVE  KeptRight(k, f, sha)'
    <3>1. \A q \in Pushes : /\ pc'[q] \in Unrecorded <=> pc[q] \in Unrecorded
                            /\ pc'[q] \in Refreshing <=> pc[q] \in Refreshing
      BY <1>2, <2>1, <2>2 DEF PcStep, Moves, Exits, Unrecorded, Refreshing
    <3>2. ~\E q \in Pushes : \/ SnapshotBefore(q) \/ FailAfter(q) \/ recordRefChanges(q)
                             \/ ReplyPush(q)
      BY <1>0, <2>1, <2>2
         DEF SnapshotBefore, FailAfter, recordRefChanges, ReplyPush, Goto, Leave, TypeOK
    <3>3. UNCHANGED <<events, observationErrors, unobserved, before>>
      BY <3>2, Frames
    <3>4. \A q \in Pushes : pc[q] \in Refreshing /\ k \notin Remaining(q)' => k \notin Remaining(q)
      <4>1. \A q \in Pushes : q # p => Remaining(q)' = Remaining(q) \/ pc[q] = "recorded"
        BY <2>1 DEF Remaining
      <4>2. \A q \in Pushes : q # p /\ pc[q] = "recorded" => k \in Remaining(q)'
        BY <1>0, <2>1 DEF Remaining
      <4>3. CASE ListPulls(p)
        <5>1. pc'[p] = "refreshing" /\ todo'[p] = DOMAIN pulls
          BY <1>0, <2>1, <4>3 DEF ListPulls, Goto, TypeOK
        <5>2. k \in Remaining(p)'
          BY <5>1 DEF Remaining
        <5>3. QED
          BY <4>1, <4>2, <5>2
      <4>4. CASE StoreSnapshot(p)
        <5>1. pc'[p] = "refreshing"
          BY <1>0, <2>1, <4>4 DEF StoreSnapshot, Goto, TypeOK
        <5>2. k \notin Remaining(p)' => k \notin Remaining(p)
          BY <4>4, <5>1 DEF Remaining
        <5>3. QED
          BY <4>1, <4>2, <5>2
      <4>5. CASE ~ListPulls(p) /\ ~StoreSnapshot(p)
        <5>1. ~\E q \in Pushes : ListPulls(q) \/ StoreSnapshot(q)
          BY <1>0, <2>1, <4>5 DEF ListPulls, StoreSnapshot, Goto, TypeOK
        <5>2. todo' = todo
          BY <5>1, Frames
        <5>3. pc[p] \in Refreshing => pc[p] # "recorded" /\ pc'[p] # "recorded"
          BY <1>2, <2>1, <2>2, <4>5 DEF PcStep, Moves, Exits, Refreshing
        <5>4. QED
          BY <4>1, <4>2, <5>2, <5>3 DEF Remaining
      <4>6. QED
        BY <4>3, <4>4, <4>5
    <3>5. MovedFrom(f)' = MovedFrom(f) /\ LastSHA(f)' = LastSHA(f)
      BY <2>1, <3>3 DEF MovedFrom, LastSHA
    <3>6. \A q \in Pushes : SeenBy(q, f, sha)' <=> SeenBy(q, f, sha)
      BY <2>1, <3>3, <3>5 DEF SeenBy
    <3>7. Quiet' <=> Quiet
      BY <3>1 DEF Quiet
    <3>8. QED
      BY <2>1, <3>1, <3>3, <3>4, <3>5, <3>6, <3>7 DEF KeptRight
  <2>3. CASE from \in Holding
    <3>1. \A q \in Pushes : q # p => pc[q] \notin Unrecorded \cup Refreshing
      BY <1>0, <2>1, <2>3, OnlyPushCounts
    <3>2. CASE SnapshotBefore(p)
      <4>1. /\ pc[p] = "locked" /\ pc'[p] = "receiving" /\ before'[p] = refs
            /\ observationErrors' = observationErrors /\ events' = events
        BY <1>0, <2>1, <3>2 DEF SnapshotBefore, Goto, TypeOK, worldVars
      <4>2. Quiet
        BY <3>1, <4>1 DEF Quiet, Unrecorded, Refreshing
      <4>3. observationErrors = 0 => sha = LastSHA(f)
        BY <4>2 DEF KeptRight
      <4>4. observationErrors = 0 => SeenBy(p, f, sha)'
        BY <4>1, <4>3 DEF SeenBy, LastSHA, MovedFrom
      <4>5. pc'[p] \in Unrecorded /\ pc'[p] \notin Refreshing
        BY <4>1 DEF Unrecorded, Refreshing
      <4>6. QED
        BY <2>1, <3>1, <4>1, <4>4, <4>5 DEF KeptRight, Quiet
    <3>3. CASE FailAfter(p)
      <4>1. /\ pc'[p] = "failed" /\ unobserved' = TRUE
            /\ observationErrors' = observationErrors + 1 /\ observationErrors \in Nat
        BY <1>0, <2>1, <3>3 DEF FailAfter, Leave, Goto, TypeOK
      <4>2. observationErrors' # 0 /\ pc'[p] \notin Unrecorded \cup Refreshing
        BY <4>1 DEF Unrecorded, Refreshing
      <4>3. QED
        BY <2>1, <3>1, <4>1, <4>2 DEF KeptRight
    <3>4. CASE recordRefChanges(p)
      <4>1. /\ pc[p] = "observed" /\ pc'[p] = "recorded" /\ pulls' = pulls
            /\ observationErrors' = observationErrors
        BY <1>0, <2>1, <3>4 DEF recordRefChanges, Goto, TypeOK
      <4>2. pc'[p] \in Refreshing /\ pc'[p] \notin Unrecorded /\ pc[p] \in Unrecorded
        BY <4>1 DEF Refreshing, Unrecorded
      <4>3. k \in Remaining(p)'
        BY <1>0, <4>1 DEF Remaining
      <4>4. ASSUME observationErrors = 0, refs[f] = NoSHA PROVE sha = LastSHA(f)'
        <5>1. SeenBy(p, f, sha) /\ after[p] = refs
          BY <1>0, <4>1, <4>2, <4>4 DEF KeptRight, MovedRight
        <5>2. CASE before[p][f] = NoSHA
          <6>1. events'[f] = events[f]
            BY <1>0, <3>4, <4>4, <5>1, <5>2, RecordFacts
          <6>2. QED
            BY <2>1, <4>4, <5>1, <5>2, <6>1 DEF SeenBy, LastSHA, MovedFrom
        <5>3. CASE before[p][f] # NoSHA
          <6>1. /\ Len(events[f]) \in Nat /\ Len(events'[f]) = Len(events[f]) + 1
                /\ events'[f][Len(events[f]) + 1].before = before[p][f]
                /\ events'[f] \in Seq(Event)
            BY <1>0, <3>4, <4>4, <5>1, <5>3, RecordFacts
          <6>2. events'[f] # <<>> /\ events'[f][Len(events'[f])].before = before[p][f]
            BY <6>1
          <6>3. QED
            BY <2>1, <4>4, <5>1, <5>3, <6>2 DEF SeenBy, LastSHA, MovedFrom
        <5>4. QED
          BY <5>2, <5>3
      <4>5. QED
        BY <2>1, <3>1, <4>1, <4>2, <4>3, <4>4 DEF KeptRight, Quiet
    <3>5. CASE ReplyPush(p)
      <4>1. /\ pc[p] = "refreshing" /\ pc'[p] = "replied" /\ todo[p] = {}
            /\ observationErrors' = observationErrors /\ events' = events
        BY <1>0, <2>1, <3>5 DEF ReplyPush, Leave, Goto, TypeOK, worldVars
      <4>2. k \notin Remaining(p) /\ pc[p] \in Refreshing
        BY <4>1 DEF Remaining, Refreshing
      <4>3. /\ observationErrors = 0 /\ refs[f] = NoSHA => sha = LastSHA(f)
            /\ refs[f] # NoSHA => sha = refs[f]
        BY <4>2 DEF KeptRight
      <4>4. /\ refs'[f] # NoSHA => sha = refs'[f]
            /\ observationErrors' = 0 => sha = LastSHA(f)'
        BY <2>1, <4>1, <4>3 DEF LastSHA, MovedFrom
      <4>5. pc'[p] \notin Unrecorded \cup Refreshing
        BY <4>1 DEF Unrecorded, Refreshing
      <4>6. QED
        BY <2>1, <3>1, <4>4, <4>5 DEF KeptRight
    <3>6. CASE ~SnapshotBefore(p) /\ ~FailAfter(p) /\ ~recordRefChanges(p) /\ ~ReplyPush(p)
      BY <2>2, <3>6
    <3>7. QED
      BY <3>2, <3>3, <3>4, <3>5, <3>6
  <2>4. SnapshotBefore(p) \/ FailAfter(p) \/ recordRefChanges(p) \/ ReplyPush(p) => from \in Holding
    BY <2>1 DEF SnapshotBefore, FailAfter, recordRefChanges, ReplyPush, Goto, Leave,
                Holding, Unrecorded, Refreshing
  <2>5. QED
    BY <2>3, <2>2, <2>4
<1>3. QED
  BY <1>1, <1>2, PcSteps

\* What StoreSnapshot writes is where git has the branch, if git has it.
LEMMA KeptStored ==
    ASSUME PushInv, SnapshotsRight, NEW p \in Pushes, StoreSnapshot(p), NEW k \in DOMAIN pulls,
           NEW f \in Refs, NEW sha, NEW new, KeptRight(k, f, sha),
           new = IF refs[f] # NoSHA THEN refs[f] ELSE sha
    PROVE  KeptRight(k, f, new)'
<1>0. TypeOK /\ LockHeld
  BY DEF PushInv
<1>1. /\ pc[p] = "resolved" /\ pc'[p] = "refreshing"
      /\ UNCHANGED <<refs, events, observationErrors>>
      /\ \A q \in Pushes : q # p => pc'[q] = pc[q]
  BY <1>0 DEF StoreSnapshot, Goto, TypeOK
<1>2. pc[p] \in Holding /\ pc[p] \in Refreshing /\ pc'[p] \in Refreshing /\ pc'[p] \notin Unrecorded
  BY <1>1 DEF Holding, Refreshing, Unrecorded
<1>3. \A q \in Pushes : q # p => pc'[q] \notin Unrecorded \cup Refreshing
  BY <1>0, <1>1, <1>2, OnlyPushCounts
<1>4. observationErrors = 0 /\ refs[f] = NoSHA => sha = LastSHA(f)
  BY <1>2 DEF KeptRight
<1>5. LastSHA(f)' = LastSHA(f)
  BY <1>1 DEF LastSHA, MovedFrom
<1>6. QED
  BY <1>1, <1>2, <1>3, <1>4, <1>5 DEF KeptRight, Quiet

\* What createPullRequest stores is where git has the branch, or had it when the push that is
\* under way began.
LEMMA KeptCreated ==
    ASSUME PushInv, UNCHANGED <<refs, events, observationErrors, unobserved, pc, before, todo, pushed>>,
           NEW k \in DOMAIN pulls', NEW f \in Refs, NEW sha, sha # NoSHA,
           (\A p \in Pushes : pc[p] \notin Unrecorded) => sha = refs[f],
           \A p \in Pushes : pc[p] \in Unrecorded =>
               sha = before[p][f] \/ (f \in pushed[p] /\ sha = refs[f])
    PROVE  KeptRight(k, f, sha)'
<1>0. TypeOK /\ LockHeld
  BY DEF PushInv
<1>1. CASE \A p \in Pushes : pc[p] \notin Unrecorded
  <2>1. sha = refs'[f] /\ refs'[f] # NoSHA /\ sha = LastSHA(f)'
    BY <1>1 DEF LastSHA
  <2>2. QED
    BY <1>1, <2>1 DEF KeptRight
<1>2. ASSUME NEW p \in Pushes, pc[p] \in Unrecorded PROVE KeptRight(k, f, sha)'
  <2>1. pc'[p] \in Unrecorded /\ pc'[p] \notin Refreshing /\ pc[p] \in Holding
    BY <1>2 DEF Unrecorded, Refreshing, Holding
  <2>2. \A q \in Pushes : q # p => pc'[q] \notin Unrecorded \cup Refreshing
    BY <1>0, <2>1, OnlyPushCounts
  <2>3. SeenBy(p, f, sha)'
    BY <1>2 DEF SeenBy
  <2>4. QED
    BY <2>1, <2>2, <2>3 DEF KeptRight, Quiet
<1>3. QED
  BY <1>1, <1>2

LEMMA PullsStep ==
    ASSUME PushInv, SnapshotsRight, CreatingRight, PullsRight, [Next]_vars
    PROVE  PullsRight'
<1>0. TypeOK /\ LockHeld /\ \A p \in Pushes : MovedRight(p)
  BY DEF PushInv
<1> SUFFICES ASSUME NEW k \in DOMAIN pulls'
             PROVE  /\ KeptRight(k, pulls[k].baseRef, pulls[k].baseSHA)'
                    /\ KeptRight(k, pulls[k].headRef, pulls[k].headSHA)'
  BY DEF PullsRight
<1> DEFINE Goal == /\ KeptRight(k, pulls[k].baseRef, pulls[k].baseSHA)'
                   /\ KeptRight(k, pulls[k].headRef, pulls[k].headSHA)'
<1>1. ASSUME k \in DOMAIN pulls, pulls'[k].baseSHA = pulls[k].baseSHA,
             pulls'[k].headSHA = pulls[k].headSHA,
             \A p \in Pushes : StoreSnapshot(p) => k \notin Remaining(p) \/ k \in todo'[p]
      PROVE  Goal
  <2>1. PICK base \in Refs, head \in Refs, b \in SHAs, h \in SHAs :
           /\ base = pulls[k].baseRef /\ head = pulls[k].headRef
           /\ b = pulls[k].baseSHA /\ h = pulls[k].headSHA
    BY <1>0, <1>1, PullMapIs DEF TypeOK, PullRequest
  <2>2. KeptRight(k, base, b) /\ KeptRight(k, head, h)
    BY <1>1, <2>1 DEF PullsRight
  <2>3. KeptRight(k, base, b)' /\ KeptRight(k, head, h)'
    BY <1>1, <2>2, KeptStays
  <2>4. pulls'[k].baseRef = base /\ pulls'[k].headRef = head
    BY <1>0, <1>1, <2>1, PullRefsStay
  <2>5. QED
    BY <1>1, <2>1, <2>3, <2>4
<1>2. ASSUME NEW p \in Pushes, StoreSnapshot(p) PROVE Goal
  <2>1. PICK s \in snapshot[p] : /\ pulls' = [pulls EXCEPT ![s.key] = Refreshed(@, s)]
                                 /\ todo' = [todo EXCEPT ![p] = @ \ {s.key}]
    BY <1>2 DEF StoreSnapshot
  <2>2. pc[p] = "resolved" /\ pc' = [pc EXCEPT ![p] = "refreshing"]
    BY <1>2 DEF StoreSnapshot, Goto
  <2>3. k \in DOMAIN pulls /\ pulls[k] \in PullRequest
    BY <1>0, <2>1, PullMapIs DEF TypeOK
  <2>4. CASE k # s.key
    <3>1. pulls'[k] = pulls[k]
      BY <2>1, <2>3, <2>4
    <3>2. \A q \in Pushes : StoreSnapshot(q) => k \notin Remaining(q) \/ k \in todo'[q]
      <4>1. \A q \in Pushes : StoreSnapshot(q) => q = p
        BY <1>0, <2>2 DEF StoreSnapshot, Goto, TypeOK
      <4>2. Remaining(p) = todo[p] /\ todo'[p] = todo[p] \ {s.key}
        BY <1>0, <2>1, <2>2 DEF Remaining, TypeOK
      <4>3. QED
        BY <2>4, <4>1, <4>2
    <3>3. QED
      BY <1>1, <2>3, <3>1, <3>2
  <2>5. CASE k = s.key
    <3>1. PICK base \in Refs, head \in Refs, b \in SHAs, h \in SHAs :
             /\ base = pulls[k].baseRef /\ head = pulls[k].headRef
             /\ b = pulls[k].baseSHA /\ h = pulls[k].headSHA
      BY <2>3 DEF PullRequest
    <3>2. s.baseSHA = refs[base] /\ s.headSHA = refs[head]
      BY <2>2, <2>5, <3>1 DEF SnapshotsRight
    <3>3. PICK newB, newH : /\ newB = IF refs[base] # NoSHA THEN refs[base] ELSE b
                            /\ newH = IF refs[head] # NoSHA THEN refs[head] ELSE h
      OBVIOUS
    <3>4. /\ pulls'[k].baseRef = base /\ pulls'[k].headRef = head
          /\ pulls'[k].baseSHA = newB /\ pulls'[k].headSHA = newH
      <4>1. pulls'[k] = Refreshed(pulls[k], s)
        BY <2>1, <2>3, <2>5
      <4>2. QED
        BY <2>3, <3>1, <3>2, <3>3, <4>1 DEF Refreshed, PullRequest
    <3>5. KeptRight(k, base, b) /\ KeptRight(k, head, h)
      BY <2>3, <3>1 DEF PullsRight
    <3>6. KeptRight(k, base, newB)' /\ KeptRight(k, head, newH)'
      BY <1>2, <2>3, <3>3, <3>5, KeptStored
    <3>7. QED
      BY <3>4, <3>6
  <2>6. QED
    BY <2>4, <2>5
<1>3. ASSUME NEW c \in creating, NEW state, EndCreatePull(c, state) PROVE Goal
  <2>1. UNCHANGED <<refs, events, observationErrors, unobserved, pc, before, todo, pushed>>
    BY <1>3 DEF EndCreatePull, pushVars, historyVars
  <2>2. \A p \in Pushes : ~StoreSnapshot(p)
    BY <1>0, <2>1 DEF StoreSnapshot, Goto, TypeOK
  <2>3. CASE k \in DOMAIN pulls
    <3>1. pulls'[k] = pulls[k]
      BY <1>3, <2>3 DEF EndCreatePull, CreatingRight
    <3>2. QED
      BY <1>1, <2>2, <2>3, <3>1
  <2>4. CASE k \notin DOMAIN pulls
    <3>1. PICK base \in Refs, head \in Refs, b \in Values, h \in Values :
             /\ base = c.baseRef /\ head = c.headRef /\ b = c.baseSHA /\ h = refs[c.headRef]
      BY <1>0 DEF TypeOK, Creation, RefMap
    <3>2. /\ b # NoSHA /\ h # NoSHA
          /\ pulls'[k].baseRef = base /\ pulls'[k].headRef = head
          /\ pulls'[k].baseSHA = b /\ pulls'[k].headSHA = h
      BY <1>3, <2>4, <3>1 DEF EndCreatePull
    <3>3. /\ (\A p \in Pushes : pc[p] \notin Unrecorded) => b = refs[base]
          /\ \A p \in Pushes : pc[p] \in Unrecorded =>
                b = before[p][base] \/ (base \in pushed[p] /\ b = refs[base])
      BY <3>1 DEF CreatingRight
    <3>4. \A p \in Pushes : pc[p] \in Unrecorded =>
             h = before[p][head] \/ (head \in pushed[p] /\ h = refs[head])
      BY <1>0, <3>1 DEF MovedRight
    <3>5. KeptRight(k, base, b)'
      BY <2>1, <3>2, <3>3, KeptCreated
    <3>6. KeptRight(k, head, h)'
      BY <2>1, <3>1, <3>2, <3>4, KeptCreated
    <3>7. QED
      BY <3>2, <3>5, <3>6
  <2>5. QED
    BY <2>3, <2>4
<1>4. ASSUME NEW j, NEW state, changePullRequestState(j, state) PROVE Goal
  <2>1. k \in DOMAIN pulls /\ pulls[k] \in PullRequest
    BY <1>0, <1>4, PullMapIs DEF TypeOK, changePullRequestState
  <2>2. pulls'[k].baseSHA = pulls[k].baseSHA /\ pulls'[k].headSHA = pulls[k].headSHA
    BY <1>4, <2>1 DEF changePullRequestState, PullRequest
  <2>3. \A p \in Pushes : ~StoreSnapshot(p)
    BY <1>0, <1>4 DEF changePullRequestState, pushVars, StoreSnapshot, Goto, TypeOK
  <2>4. QED
    BY <1>1, <2>1, <2>2, <2>3
<1>5. CASE pulls' = pulls /\ ~\E p \in Pushes : StoreSnapshot(p)
  BY <1>1, <1>5
<1>6. QED
  BY <1>2, <1>3, <1>4, <1>5
     DEF Next, PushStep, ControlStep, AuthorizePush, LockReceive, SnapshotBefore, FailBefore,
         ReceiveRef, FinishReceive, SnapshotAfter, FailAfter, recordRefChanges, ListPulls,
         ResolveBase, ResolveHead, ReplyPush, BeginCreatePull, configureWorkflow, vars,
         worldVars

LEMMA PullInvInit == Init => PullInv
BY DEF Init, PullInv, SnapshotsRight, CreatingRight, PullsRight

LEMMA PullInvStep ==
    ASSUME PushInv, PullInv, [Next]_vars
    PROVE  PullInv'
BY SnapshotsStep, CreatingStep, PullsStep DEF PullInv

LEMMA SnapshotsFollow == PushInv /\ PullInv => SnapshotsFollowRefs
<1> SUFFICES ASSUME PushInv, PullInv, receiveLock = NoPush, NEW k \in DOMAIN pulls
             PROVE  /\ /\ ~unobserved /\ refs[pulls[k].baseRef] # NoSHA =>
                            pulls[k].baseSHA = refs[pulls[k].baseRef]
                       /\ observationErrors = 0 => pulls[k].baseSHA = LastSHA(pulls[k].baseRef)
                    /\ /\ ~unobserved /\ refs[pulls[k].headRef] # NoSHA =>
                            pulls[k].headSHA = refs[pulls[k].headRef]
                       /\ observationErrors = 0 => pulls[k].headSHA = LastSHA(pulls[k].headRef)
  BY DEF SnapshotsFollowRefs
<1>1. Quiet
  BY NoPushAssumption DEF PushInv, LockHeld, Holding, Quiet
<1>2. /\ KeptRight(k, pulls[k].baseRef, pulls[k].baseSHA)
      /\ KeptRight(k, pulls[k].headRef, pulls[k].headSHA)
  BY DEF PullInv, PullsRight
<1>3. QED
  BY <1>1, <1>2 DEF KeptRight

\* Between pushes, whatever createPullRequest and the refreshes of other pushes did meanwhile,
\* the commits kept with a pull request are those that its branches have, or had last.
THEOREM SnapshotsCorrect == Spec => []SnapshotsFollowRefs
<1>1. PushInv /\ PullInv /\ [Next]_vars => PullInv'
  BY PullInvStep
<1>2. QED
  BY <1>1, PullInvInit, PushInvariance, SnapshotsFollow, PTL DEF Spec
===============================================================================
