------------------------------ MODULE PullReads ------------------------------
(***************************************************************************)
(* PullRequests.Get (dtu/public.go) while pushes move the branches that it *)
(* reports: it copies the pull request under world.mu, then resolves the   *)
(* base and the head with one git command each, without a lock.            *)
(***************************************************************************)
EXTENDS RefEvents

CONSTANT Readers   \* authorised GET requests, one goroutine each

VARIABLES
    getPc,    \* where the handler of a GET is
    copy,     \* the pull request that it has copied, with what it resolved so far
    lived,    \* history: the branch maps that git had since it copied the pull request
    began,    \* history: the last commits of the branches when it copied the pull request, and
              \* when the push began that was being served at that moment
    lastSHA,  \* history: the last commit that each branch had
    atPush    \* history: what lastSHA was at the first snapshot of the latest push

getVars == <<getPc, copy>>

readVars == <<vars, getVars, lived, began, lastSHA, atPush>>

ReadsTypeOK ==
    /\ getPc \in [Readers -> {"idle", "copied", "based", "replied"}]
    /\ copy \in [Readers -> SUBSET PullRequest]
    /\ lived \in [Readers -> SUBSET RefMap]
    /\ began \in [Readers -> [last : RefMap, push : RefMap]]
    /\ lastSHA \in RefMap
    /\ atPush \in RefMap

-----------------------------------------------------------------------------
(* Get *)

GetGoto(g, from, to) == getPc[g] = from /\ getPc' = [getPc EXCEPT ![g] = to]

\* A push has looked at the branches and is not answered yet.
PushUnderWay == \E p \in Pushes : receiveLock = p /\ pc[p] # "locked"

CopyPull(g, k) ==
    /\ WorldFree
    /\ k \in DOMAIN pulls
    /\ GetGoto(g, "idle", "copied")
    /\ copy' = [copy EXCEPT ![g] = {pulls[k]}]
    /\ lived' = [lived EXCEPT ![g] = {refs}]
    /\ began' = [began EXCEPT ![g] =
           [last |-> lastSHA, push |-> IF PushUnderWay THEN atPush ELSE lastSHA]]
    /\ UNCHANGED <<vars, lastSHA, atPush>>

\* Faulty variants: the kept commit is as good as git's; a missing ref has no fallback.
ReportedKept(f, kept) == kept

ReportedLive(f, kept) == refs[f]

\* What the ref resolves to, or else the commit that was kept.
Reported(f, kept) == IF refs[f] # NoSHA THEN refs[f] ELSE kept

GetBase(g) ==
    /\ GetGoto(g, "copied", "based")
    /\ copy' = [copy EXCEPT ![g] =
           {[pull EXCEPT !.baseSHA = Reported(pull.baseRef, @)] : pull \in copy[g]}]
    /\ UNCHANGED <<vars, lived, began, lastSHA, atPush>>

GetHead(g) ==
    /\ GetGoto(g, "based", "replied")
    /\ copy' = [copy EXCEPT ![g] =
           {[pull EXCEPT !.headSHA = Reported(pull.headRef, @)] : pull \in copy[g]}]
    /\ UNCHANGED <<vars, lived, began, lastSHA, atPush>>

-----------------------------------------------------------------------------
(* Specification *)

ReadsInit ==
    /\ Init
    /\ getPc = [g \in Readers |-> "idle"]
    /\ copy = [g \in Readers |-> {}]
    /\ lived = [g \in Readers |-> {}]
    /\ began = [g \in Readers |-> [last |-> NoRefs, push |-> NoRefs]]
    /\ lastSHA = NoRefs
    /\ atPush = NoRefs

\* Everybody else, with the histories.
OtherStep ==
    /\ Next
    /\ lived' = [g \in Readers |->
           IF getPc[g] \in {"copied", "based"} THEN lived[g] \cup {refs'} ELSE lived[g]]
    /\ lastSHA' = [f \in Refs |-> IF refs'[f] # NoSHA THEN refs'[f] ELSE lastSHA[f]]
    /\ atPush' = IF \E p \in Pushes : SnapshotBefore(p) THEN lastSHA ELSE atPush
    /\ UNCHANGED <<getVars, began>>

ReadsNext ==
    \/ OtherStep
    \/ \E g \in Readers :
          \/ \E k \in Pulls : CopyPull(g, k)
          \/ GetBase(g)
          \/ GetHead(g)

ReadsSpec == ReadsInit /\ [][ReadsNext]_readVars

-----------------------------------------------------------------------------
(* Properties *)

\* The commits that git had for a ref since g copied the pull request.
HadDuring(g, f) == {m[f] : m \in lived[g]}

\* A Get answers with a commit that each branch had during the call, if the branch was always
\* there; with the branch's last commit, if it was gone all the time; and if it was there for
\* part of the call then with one that it had in that part, or with its last commit from when
\* the call began, or from when the push began that the call met: no answer is staler than that
\* one push, unless a push went unobserved.
ReportsTheBranches ==
    \A g \in Readers : getPc[g] = "replied" =>
        \A pull \in copy[g] :
            LET right(f, sha) ==
                    /\ NoSHA \notin HadDuring(g, f) => sha \in HadDuring(g, f)
                    /\ observationErrors = 0 =>
                          /\ HadDuring(g, f) = {NoSHA} => sha = began[g].last[f]
                          /\ sha \in HadDuring(g, f) \cup {began[g].last[f], began[g].push[f]}
            IN right(pull.baseRef, pull.baseSHA) /\ right(pull.headRef, pull.headSHA)

\* "While the source ref exists, the response reports the current head repository, ref, and SHA.
\* After deletion, it retains the last PR snapshot" (docs/api-endpoint-claims.md, PR-10): the
\* head in an answer is a commit that the source ref had during the call, or the last one that
\* it had when the call began.
HeadIsCurrentOrLast ==
    \A g \in Readers : getPc[g] = "replied" /\ observationErrors = 0 =>
        \A pull \in copy[g] :
            pull.headSHA \in HadDuring(g, pull.headRef) \cup {began[g].last[pull.headRef]}

\* "For an open same-repository PR, the reported base and head SHAs agree with the
\* corresponding real Git refs" (docs/api-endpoint-claims.md, PR-11): at some moment of the
\* call git had both of them.
ReportedPairWasReal ==
    \A g \in Readers : getPc[g] = "replied" =>
        \A pull \in copy[g] :
            /\ pull.baseRef # pull.headRef
            /\ NoSHA \notin HadDuring(g, pull.baseRef) \cup HadDuring(g, pull.headRef)
            =>
                \E m \in lived[g] :
                    m[pull.baseRef] = pull.baseSHA /\ m[pull.headRef] = pull.headSHA
=============================================================================
