-------------------------------- MODULE Access --------------------------------
(***************************************************************************)
(* Who may do what: the Apps, installations, repositories and virtual      *)
(* clock that the control client sets up (dtu/control.go), the tokens that *)
(* Apps mint with a JWT (dtu/public.go), and the requests that present a   *)
(* token to the REST API and to git (dtu/public.go, dtu/git.go).           *)
(*                                                                         *)
(* A control handler is one critical section.  Minting has two, one that   *)
(* authenticates the JWT and one that mints.  A REST request authenticates *)
(* its token in one and is served in another; a git request authenticates  *)
(* and authorises in one, and acts later, after it got the receive lock.   *)
(* Nothing is ever removed.  Names are compared after case folding, so a   *)
(* name stands for all its spellings.                                      *)
(***************************************************************************)
EXTENDS Integers, Sequences

CONSTANTS
    Apps,
    Installations,
    Repositories,
    Owners,               \* of repositories
    Names,                \* of repositories, without the owner
    InstallationInputs,   \* the inputs of POST /installations
    RepositoryInputs,     \* the inputs of POST /repositories
    Wishes,               \* the permissions that a token request may ask for
    Tokens,               \* random values, each drawn once
    Minters,              \* requests for a token, one goroutine each
    Requests,             \* requests with a token, one goroutine each
    TokenLifetime,        \* an hour
    JwtLifetime,          \* ten minutes: the furthest that a JWT may expire in the future
    MaxTime               \* bound on the virtual clock

Permissions == {"contents", "actions", "pull_requests"}

Levels == {"none", "read", "write", "admin"}

\* A map from permissions to levels; none is a missing key.
PermissionMap == [Permissions -> Levels]

InstallationInput ==
    [id : Installations, appID : Apps, active : BOOLEAN, owned : BOOLEAN,
     permissions : PermissionMap]

RepositoryInput == [id : Repositories, installationID : Installations,
                    owner : Owners, name : Names]

ASSUME InputsAssumption ==
    /\ InstallationInputs \subseteq InstallationInput
    /\ RepositoryInputs \subseteq RepositoryInput
    /\ Wishes \subseteq PermissionMap

ASSUME ReferencesAssumption == Installations \cap Tokens = {}

ASSUME TimesAssumption ==
    TokenLifetime \in Nat \ {0} /\ JwtLifetime \in Nat \ {0} /\ MaxTime \in Nat

VARIABLES
    apps,           \* the keys of world.apps
    installs,       \* world.installs, a map
    sets,           \* the Go maps that hold repository identifiers, by who made them
    repositories,   \* world.repositories, a map
    repoNames,      \* world.repoNames, a map
    tokens,         \* world.tokens, a map, each with who minted it and when
    now,            \* world.now
    events,         \* world.pendingEvents, those of each App
    minter,         \* where a token request is, and the JWT that it has authenticated
    request         \* where a request is, and what it presented

mapVars == <<apps, installs, repositories, repoNames>>

worldVars == <<mapVars, sets, tokens, now, events>>

vars == <<worldVars, minter, request>>

-----------------------------------------------------------------------------
(* Types *)

Time == 0 .. MaxTime

FullNames == Owners \X Names

\* An installation's repositoryIDs is the Go map that it made, a token's is a reference.
References == Installations \cup Tokens

Installation == [appID : Apps, active : BOOLEAN, owned : BOOLEAN, permissions : PermissionMap]

Repository == [installationID : Installations, owner : Owners, name : Names]

\* The signer of the JWT and the time of minting are history.
Token == [installationID : Installations, repositoryIDs : References,
          permissions : PermissionMap, expiresAt : Nat, signer : Apps, mintedAt : Time]

Event == [event : {"installation", "installation_repositories", "push"},
          installation : Installations, repository : SUBSET Repositories, sender : Apps]

\* denied is any 4xx answer, served a 201 one.
Minter == [pc : {"idle", "authenticated", "denied", "served"},
           jwt : SUBSET [signer : Apps, iss : Apps]]

\* The answers 401, 404 and 403, and what was asked for.
Stages == {"idle", "authenticated", "authorised", "unauthorized", "notFound", "forbidden",
           "served"}

Endpoints == {"push", "fetch", "cancel", "pull"}

Request == [pc : Stages, endpoint : Endpoints, token : SUBSET Token, at : Time,
            repository : SUBSET Repositories]

TypeOK ==
    /\ apps \in SUBSET Apps
    /\ DOMAIN installs \subseteq Installations
    /\ \A i \in DOMAIN installs : installs[i] \in Installation
    /\ DOMAIN sets = DOMAIN installs \cup DOMAIN tokens
    /\ \A x \in DOMAIN sets : sets[x] \subseteq Repositories
    /\ DOMAIN repositories \subseteq Repositories
    /\ \A r \in DOMAIN repositories : repositories[r] \in Repository
    /\ DOMAIN repoNames \subseteq FullNames
    /\ \A name \in DOMAIN repoNames : repoNames[name] \in Repositories
    /\ DOMAIN tokens \subseteq Tokens
    /\ \A t \in DOMAIN tokens : tokens[t] \in Token
    /\ now \in Time
    /\ events \in [Apps -> Seq(Event)]
    /\ minter \in [Minters -> Minter]
    /\ DOMAIN request = Requests
    /\ \A q \in Requests : request[q] \in Request

-----------------------------------------------------------------------------
(* Helpers *)

\* A map with one more key.
With(map, k, v) == [j \in DOMAIN map \cup {k} |-> IF j = k THEN v ELSE map[j]]

permissionRank(level) ==
    CASE level = "read"  -> 1
      [] level = "write" -> 2
      [] level = "admin" -> 3
      [] level = "none"  -> 0

Has(permissions, permission, level) ==
    permissionRank(permissions[permission]) >= permissionRank(level)

canReadPulls(permissions) ==
    Has(permissions, "pull_requests", "read") \/ Has(permissions, "contents", "read")

Allows(permissions, endpoint) ==
    CASE endpoint = "push"   -> Has(permissions, "contents", "write")
      [] endpoint = "fetch"  -> Has(permissions, "contents", "read")
      [] endpoint = "cancel" -> Has(permissions, "actions", "write")
      [] endpoint = "pull"   -> canReadPulls(permissions)

-----------------------------------------------------------------------------
(* Events *)

\* What a payload says: the installation, the repositories, and the App that acted.
EventValue(event, i, repository, appID) ==
    [event |-> event, installation |-> i, repository |-> repository, sender |-> appID]

\* Faulty variant: the App is looked up before the repository is stored.
AddresseeBefore(stored, r) ==
    {installs[repositories[x].installationID].appID : x \in {r} \cap DOMAIN repositories}

\* appendPendingEvent finds the App by way of the repository; none, unless that is stored.
Addressee(stored, r) ==
    {installs[stored[x].installationID].appID : x \in {r} \cap DOMAIN stored}

appendPendingEvent(stored, r, event) ==
    events' = [a \in Apps |->
        IF a \in Addressee(stored, r) THEN Append(events[a], event) ELSE events[a]]

appendInstallationEvent(i, appID) ==
    events' = [events EXCEPT ![appID] =
        Append(@, EventValue("installation", i, {}, appID))]

appendInstallationRepositoriesEvent(stored, i, r) ==
    appendPendingEvent(stored, r,
        EventValue("installation_repositories", i, {r}, installs[i].appID))

\* The installation is the repository's, and the sender the App of the token.
appendPushEvent(r, token) ==
    appendPendingEvent(repositories, r,
        EventValue("push", repositories[r].installationID, {r},
                   installs[token.installationID].appID))

-----------------------------------------------------------------------------
(* The control handlers *)

createApp(a) ==
    /\ a \notin apps
    /\ apps' = apps \cup {a}
    /\ UNCHANGED <<installs, sets, repositories, repoNames, tokens, now, events, minter, request>>

\* An installation without an owner announces nothing.
createInstallation(input) ==
    /\ input.id \notin DOMAIN installs
    /\ input.appID \in apps
    /\ installs' = With(installs, input.id,
           [appID |-> input.appID, active |-> input.active, owned |-> input.owned,
            permissions |-> input.permissions])
    /\ sets' = With(sets, input.id, {})
    /\ IF input.owned
       THEN appendInstallationEvent(input.id, input.appID)
       ELSE UNCHANGED events
    /\ UNCHANGED <<apps, repositories, repoNames, tokens, now, minter, request>>

\* Faulty variant: names are compared with their owners only.
NameFreeByOwner(input) == <<input.owner, input.name>> \notin DOMAIN repoNames

\* The full name is free on the server, and the name in the installation.
NameFree(input) ==
    /\ <<input.owner, input.name>> \notin DOMAIN repoNames
    /\ \A r \in sets[input.installationID] : repositories[r].name # input.name

\* git init and git config run in between, and a failure of either changes nothing here.
createRepository(input) ==
    LET i == input.installationID
        r == input.id
        stored == With(repositories, r,
                       [installationID |-> i, owner |-> input.owner, name |-> input.name])
    IN /\ i \in DOMAIN installs
       /\ r \notin DOMAIN repositories
       /\ NameFree(input)
       /\ repositories' = stored
       /\ repoNames' = With(repoNames, <<input.owner, input.name>>, r)
       /\ sets' = [sets EXCEPT ![i] = @ \cup {r}]
       /\ IF installs[i].owned
          THEN appendInstallationRepositoriesEvent(stored, i, r)
          ELSE UNCHANGED events
       /\ UNCHANGED <<apps, installs, tokens, now, minter, request>>

\* Faulty variant: the clock may also be set back.
ClockMayMove(duration) == now + duration <= MaxTime

ClockMayAdvance(duration) == duration >= 0 /\ now + duration <= MaxTime

advanceTime(duration) ==
    /\ ClockMayAdvance(duration)
    /\ now' = now + duration
    /\ UNCHANGED <<mapVars, sets, tokens, events, minter, request>>

-----------------------------------------------------------------------------
(* CreateInstallationToken *)

\* Faulty variant: the signature is checked with the key of whoever signed.
KeyMatchesAny(signer, iss) == signer \in apps /\ iss \in apps

\* The signature is checked with the key that the issuer registered.
KeyMatches(signer, iss) == iss \in apps /\ signer = iss

\* Issued not later than now, not expired, and expiring in at most ten minutes.
JwtTimely(issuedAt, expiresAt) ==
    issuedAt <= now /\ expiresAt > now /\ expiresAt <= now + JwtLifetime

\* authenticateAppJWT.  It looks up the key and reads the clock in two critical sections;
\* a key, once registered, stays.
AuthenticateJwt(m, signer, iss, issuedAt, expiresAt) ==
    /\ minter[m].pc = "idle"
    /\ minter' = [minter EXCEPT ![m] =
           IF KeyMatches(signer, iss) /\ JwtTimely(issuedAt, expiresAt)
           THEN [pc |-> "authenticated", jwt |-> {[signer |-> signer, iss |-> iss]}]
           ELSE [pc |-> "denied", jwt |-> {}]]
    /\ UNCHANGED <<worldVars, request>>

\* selectRepositories: everything, or the given identifiers, or the given names, one
\* repository for each; the empty set of selections is a refusal.
Selections(i, ids, names) ==
    LET reach == sets[i] IN
    IF ids = {} /\ names = {} THEN {reach}
    ELSE {ids \cup {pick[n] : n \in names} :
             pick \in {f \in [names -> reach] : \A n \in names : repositories[f[n]].name = n}}
         \cap SUBSET reach

\* selectPermissions: what is asked for was granted, at no higher a level.
Grantable(granted, wish) ==
    \A p \in Permissions :
        wish[p] # "none" => permissionRank(wish[p]) <= permissionRank(granted[p])

\* Another App's installation is not found; an inactive one is suspended.
MayMint(m, i) ==
    /\ minter[m].pc = "authenticated"
    /\ i \in DOMAIN installs
    /\ \A jwt \in minter[m].jwt : installs[i].appID = jwt.iss
    /\ installs[i].active

\* Faulty variant: a token for everything refers to the set of the installation.
copySetNever(i, scope, t) == IF scope = sets[i] THEN i ELSE t

\* Both selectRepositories and its caller make a copy, which is the token's own.
copySet(i, scope, t) == t

\* The token lives from now on, however long ago the JWT was checked.
MintToken(m, i, ids, names, wish, t) ==
    /\ MayMint(m, i)
    /\ ids = {} \/ names = {}
    /\ Grantable(installs[i].permissions, wish)
    /\ t \notin DOMAIN tokens
    /\ \E scope \in Selections(i, ids, names), jwt \in minter[m].jwt :
          LET reference == copySet(i, scope, t) IN
          /\ sets' = With(sets, reference, scope)
          /\ tokens' = With(tokens, t,
                 [installationID |-> i, repositoryIDs |-> reference, permissions |-> wish,
                  expiresAt |-> now + TokenLifetime, signer |-> jwt.signer, mintedAt |-> now])
    /\ minter' = [minter EXCEPT ![m].pc = "served"]
    /\ UNCHANGED <<mapVars, now, events, request>>

\* A request that omits the permissions gets all that the installation has.
WishesOf(i) == Wishes \cup {installs[x].permissions : x \in {i} \cap DOMAIN installs}

RefuseToken(m, i, ids, names, wish) ==
    /\ minter[m].pc = "authenticated"
    /\ MayMint(m, i) /\ (ids = {} \/ names = {}) =>
          \/ ~Grantable(installs[i].permissions, wish)
          \/ Selections(i, ids, names) = {}
    /\ minter' = [minter EXCEPT ![m].pc = "denied"]
    /\ UNCHANGED <<worldVars, request>>

-----------------------------------------------------------------------------
(* Requests with a token *)

\* Faulty variant: a token is good at the instant at which it expires.
LiveInclusive(token) == now <= token.expiresAt

Live(token) == now < token.expiresAt

Present(q, endpoint, t, pc, repository) ==
    /\ request[q].pc = "idle"
    /\ request' = [request EXCEPT ![q] =
           [pc |-> pc, endpoint |-> endpoint, token |-> {tokens[t]}, at |-> now,
            repository |-> repository]]
    /\ UNCHANGED <<worldVars, minter>>

\* No credential, one of another form, or a value that is no token.
RefuseCredential(q) ==
    /\ request[q].pc = "idle"
    /\ request' = [request EXCEPT ![q].pc = "unauthorized"]
    /\ UNCHANGED <<worldVars, minter>>

\* The repository that a name denotes, if the token reaches it.
Reached(token, name) == {repoNames[x] : x \in {name} \cap DOMAIN repoNames} \cap sets[token.repositoryIDs]

\* serveGit, up to the receive lock: one critical section.
PresentToGit(q, endpoint, t, name) ==
    /\ endpoint \in {"push", "fetch"}
    /\ t \in DOMAIN tokens
    /\ LET reached == Reached(tokens[t], name) IN
       Present(q, endpoint, t,
               IF ~Live(tokens[t]) THEN "unauthorized"
               ELSE IF reached = {} THEN "notFound"
               ELSE IF Allows(tokens[t].permissions, endpoint) THEN "authorised"
               ELSE "forbidden",
               reached)

\* git answers, however long that took, and a push may have moved a branch.
ActOnGit(q) ==
    /\ request[q].pc = "authorised"
    /\ request' = [request EXCEPT ![q].pc = "served"]
    /\ \/ UNCHANGED events
       \/ /\ request[q].endpoint = "push"
          /\ \E r \in request[q].repository, token \in request[q].token : appendPushEvent(r, token)
    /\ UNCHANGED <<mapVars, sets, tokens, now, minter>>

PresentToRest(q, endpoint, t) ==
    /\ endpoint \in {"cancel", "pull"}
    /\ t \in DOMAIN tokens
    /\ Present(q, endpoint, t, IF Live(tokens[t]) THEN "authenticated" ELSE "unauthorized", {})

\* CancelWorkflowRunByID and PullRequests.Get: a repository that does not exist, is out of
\* reach or needs another permission is not found.  Whether it has the run or the pull
\* request that was asked for is another matter, and served stands for either answer.
ServeRest(q, name) ==
    /\ request[q].pc = "authenticated"
    /\ \E token \in request[q].token :
          LET seen == {r \in Reached(token, name) : Allows(token.permissions, request[q].endpoint)}
          IN request' = [request EXCEPT ![q].pc = IF seen = {} THEN "notFound" ELSE "served",
                                        ![q].repository = seen]
    /\ UNCHANGED <<worldVars, minter>>

-----------------------------------------------------------------------------
(* Specification *)

Init ==
    /\ apps = {}
    /\ installs = <<>>
    /\ sets = <<>>
    /\ repositories = <<>>
    /\ repoNames = <<>>
    /\ tokens = <<>>
    /\ now = 0
    /\ events = [a \in Apps |-> <<>>]
    /\ minter = [m \in Minters |-> [pc |-> "idle", jwt |-> {}]]
    /\ request = [q \in Requests |-> [pc |-> "idle", endpoint |-> "pull", token |-> {},
                                      at |-> 0, repository |-> {}]]

ControlStep ==
    \/ \E a \in Apps : createApp(a)
    \/ \E input \in InstallationInputs : createInstallation(input)
    \/ \E input \in RepositoryInputs : createRepository(input)
    \/ \E duration \in -1 .. MaxTime : advanceTime(duration)

MinterStep(m) ==
    \/ \E signer, iss \in Apps, issuedAt \in {now, now + 1},
          expiresAt \in now .. now + JwtLifetime + 1 :
             AuthenticateJwt(m, signer, iss, issuedAt, expiresAt)
    \/ \E i \in Installations, ids \in SUBSET Repositories, names \in SUBSET Names :
          \E wish \in WishesOf(i) :
             \/ RefuseToken(m, i, ids, names, wish)
             \/ \E t \in Tokens : MintToken(m, i, ids, names, wish, t)

RequestStep(q) ==
    \/ RefuseCredential(q)
    \/ \E t \in DOMAIN tokens, endpoint \in Endpoints :
          PresentToRest(q, endpoint, t) \/ \E name \in FullNames : PresentToGit(q, endpoint, t, name)
    \/ ActOnGit(q)
    \/ \E name \in FullNames : ServeRest(q, name)

Next ==
    \/ ControlStep
    \/ \E m \in Minters : MinterStep(m)
    \/ \E q \in Requests : RequestStep(q)

Spec == Init /\ [][Next]_vars

-----------------------------------------------------------------------------
(* Properties *)

\* Whatever is served was granted all the way: the token was minted with a JWT that the App of
\* the repository's own installation signed, that installation is active and grants what the
\* endpoint needs, and the repository was one of its own.  An answer other than 401 and 404
\* is only ever given about such a repository ("a missing resource and a resource outside
\* the token's repository scope return the same 404", docs/api-endpoint-claims.md, 96-98).
OnlyTheGrantedIsServed ==
    \A q \in Requests : request[q].pc \in {"authorised", "forbidden", "served"} =>
        \A token \in request[q].token, r \in request[q].repository :
            LET i == repositories[r].installationID IN
            /\ token.installationID = i
            /\ r \in sets[token.repositoryIDs]
            /\ installs[i].active
            /\ installs[i].appID = token.signer
            /\ request[q].pc # "forbidden" =>
                  Allows(installs[i].permissions, request[q].endpoint)

\* A token opens the door from the instant it was minted up to, and not at, the instant one
\* hour later, wherever the clock stood when its JWT was checked.
TokensLiveOneHour ==
    \A q \in Requests : \A token \in request[q].token :
        request[q].pc = "unauthorized" <=> request[q].at >= token.mintedAt + TokenLifetime

\* "Multiple valid tokens may coexist without revoking or changing one another"
\* (docs/api-endpoint-claims.md, 80-81), and a repository that is added later is in reach of
\* no token that exists.
TokensNeverChange ==
    [][\A t \in DOMAIN tokens :
          /\ t \in DOMAIN tokens'
          /\ tokens'[t] = tokens[t]
          /\ sets'[tokens[t].repositoryIDs] = sets[tokens[t].repositoryIDs]]_vars

\* A full name denotes one repository, and so does a name within an installation: a token that
\* was asked for by name has the repositories that the client meant.
NamesDenoteOne ==
    /\ \A r \in DOMAIN repositories :
          /\ <<repositories[r].owner, repositories[r].name>> \in DOMAIN repoNames
          /\ repoNames[<<repositories[r].owner, repositories[r].name>>] = r
    /\ \A i \in DOMAIN installs : \A r, s \in sets[i] :
          repositories[r].name = repositories[s].name => r = s

\* The App of the k-th event was told earlier about what it names.
ToldBefore(a, k, event, repository) ==
    \E j \in 1 .. k - 1 : /\ events[a][j].event = event
                          /\ events[a][j].installation = events[a][k].installation
                          /\ events[a][j].repository = repository

\* An owned installation has the repositories that its App was told that it has.
ReachTold ==
    \A i \in DOMAIN installs : installs[i].owned =>
        \A r \in Repositories :
            r \in sets[i] <=>
                \E k \in DOMAIN events[installs[i].appID] :
                    /\ events[installs[i].appID][k].event = "installation_repositories"
                    /\ events[installs[i].appID][k].installation = i
                    /\ events[installs[i].appID][k].repository = {r}

\* The k-th event of an App is about an installation of that App, is no repetition unless a
\* push, and comes after what introduces the things that it names.
EventFits(a, k) ==
    LET e == events[a][k]
        i == e.installation
    IN /\ installs[i].appID = a
       /\ e.sender = a
       /\ ~ToldBefore(a, k, e.event, e.repository) \/ e.event = "push"
       /\ e.event = "installation_repositories" => ToldBefore(a, k, "installation", {})
       /\ e.event = "push" /\ installs[i].owned =>
              ToldBefore(a, k, "installation_repositories", e.repository)

\* The events of an App suffice to know its owned installations and their repositories, in
\* an order that makes sense, and a push is told to the App of the repository, which made it.
EventsTellTheReach ==
    ReachTold /\ \A a \in Apps : \A k \in DOMAIN events[a] : EventFits(a, k)
=============================================================================
