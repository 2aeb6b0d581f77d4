----------------------------- MODULE AccessProofs -----------------------------
(***************************************************************************)
(* What Access grants and serves, for every number of Apps, installations, *)
(* repositories, tokens and requests, and for every length of a lifetime.  *)
(***************************************************************************)
EXTENDS Access, SequenceTheorems, TLAPS

-----------------------------------------------------------------------------
(* The inductive invariant *)

\* What a token carries lies within what its installation has and was granted, and was asked
\* for by the App of that installation; its set is its own.
Sound(token) ==
    /\ token.repositoryIDs \in DOMAIN tokens
    /\ token.installationID \in DOMAIN installs
    /\ sets[token.repositoryIDs] \subseteq sets[token.installationID]
    /\ installs[token.installationID].active
    /\ installs[token.installationID].appID = token.signer
    /\ Grantable(installs[token.installationID].permissions, token.permissions)
    /\ token.expiresAt = token.mintedAt + TokenLifetime

TokensSound == \A t \in DOMAIN tokens : Sound(tokens[t])

\* Repositories and installations name each other.
ReposOwned ==
    /\ \A r \in DOMAIN repositories : repositories[r].installationID \in DOMAIN installs
    /\ \A i \in DOMAIN installs : \A r \in sets[i] :
          r \in DOMAIN repositories /\ repositories[r].installationID = i

JwtsSigned == \A m \in Minters : \A jwt \in minter[m].jwt : jwt.signer = jwt.iss

\* What a request has shown by the time it is where it is.
Shown(q) ==
    \A token \in request[q].token :
        /\ request[q].token = {token}
        /\ Sound(token)
        /\ request[q].repository \subseteq sets[token.repositoryIDs]
        /\ request[q].pc = "unauthorized" <=> request[q].at >= token.expiresAt
        /\ request[q].pc \in {"authorised", "served"} /\ request[q].repository # {} =>
              Allows(token.permissions, request[q].endpoint)

RequestsShown ==
    \A q \in Requests : Shown(q) /\ (request[q].pc = "idle" => request[q].token = {})

IInv == TypeOK /\ TokensSound /\ ReposOwned /\ JwtsSigned /\ RequestsShown /\ NamesDenoteOne

-----------------------------------------------------------------------------
(* Operators *)

LEMMA Ranks ==
    /\ permissionRank("none") = 0 /\ permissionRank("read") = 1
    /\ permissionRank("write") = 2 /\ permissionRank("admin") = 3
BY DEF permissionRank

LEMMA RankType == \A level \in Levels : permissionRank(level) \in Nat
BY Ranks DEF Levels

\* A permission that a wish has, and that is more than none, the grant has too.
LEMMA GrantHas ==
    ASSUME NEW granted \in PermissionMap, NEW wish \in PermissionMap, Grantable(granted, wish),
           NEW p \in Permissions, NEW level \in {"read", "write"}, Has(wish, p, level)
    PROVE  Has(granted, p, level)
<1>1. granted[p] \in Levels /\ wish[p] \in Levels
  BY DEF PermissionMap
<1>2. permissionRank(level) \in {1, 2}
  BY Ranks
<1>3. wish[p] # "none"
  BY <1>1, <1>2, Ranks DEF Has
<1>4. permissionRank(wish[p]) <= permissionRank(granted[p])
  BY <1>3 DEF Grantable
<1>5. permissionRank(wish[p]) \in Nat /\ permissionRank(granted[p]) \in Nat
  BY <1>1, RankType
<1>6. QED
  BY <1>2, <1>4, <1>5 DEF Has

\* selectPermissions never widens what an endpoint allows.
LEMMA GrantAllows ==
    ASSUME NEW granted \in PermissionMap, NEW wish \in PermissionMap, Grantable(granted, wish),
           NEW endpoint \in Endpoints, Allows(wish, endpoint)
    PROVE  Allows(granted, endpoint)
<1>1. \A p \in Permissions, level \in {"read", "write"} :
         Has(wish, p, level) => Has(granted, p, level)
  BY GrantHas
<1>2. "contents" \in Permissions /\ "actions" \in Permissions /\ "pull_requests" \in Permissions
  BY DEF Permissions
<1>3. CASE endpoint = "push"
  BY <1>1, <1>2, <1>3 DEF Allows
<1>4. CASE endpoint = "fetch"
  BY <1>1, <1>2, <1>4 DEF Allows
<1>5. CASE endpoint = "cancel"
  BY <1>1, <1>2, <1>5 DEF Allows
<1>6. CASE endpoint = "pull"
  BY <1>1, <1>2, <1>6 DEF Allows, canReadPulls
<1>7. QED
  BY <1>3, <1>4, <1>5, <1>6 DEF Endpoints

\* Whatever selectRepositories selects, the installation has.
LEMMA SelectionsReach ==
    ASSUME NEW i, NEW ids, NEW names, NEW scope \in Selections(i, ids, names)
    PROVE  scope \subseteq sets[i]
BY DEF Selections

-----------------------------------------------------------------------------
(* Nothing is removed and nothing that exists changes, but that an         *)
(* installation gets repositories.                                         *)

Grows ==
    /\ DOMAIN installs \subseteq DOMAIN installs'
    /\ \A i \in DOMAIN installs : installs'[i] = installs[i] /\ sets[i] \subseteq sets'[i]
    /\ DOMAIN repositories \subseteq DOMAIN repositories'
    /\ \A r \in DOMAIN repositories : repositories'[r] = repositories[r]
    /\ DOMAIN tokens \subseteq DOMAIN tokens'
    /\ \A t \in DOMAIN tokens : tokens'[t] = tokens[t] /\ sets'[t] = sets[t]

LEMMA SoundGrows == ASSUME Grows, NEW token, Sound(token) PROVE Sound(token)'
BY DEF Grows, Sound

\* A step that leaves the tokens alone keeps them sound, and a request what it has shown.
LEMMA TokensGrow == ASSUME Grows, TokensSound, tokens' = tokens PROVE TokensSound'
<1> SUFFICES ASSUME NEW t \in DOMAIN tokens PROVE Sound(tokens[t])'
  BY DEF TokensSound
<1>1. Sound(tokens[t]) 
  BY DEF TokensSound
<1>2. \A token : Sound(token) => Sound(token)'
  BY SoundGrows
<1>3. QED
  BY <1>1, <1>2

LEMMA RequestsGrow ==
    ASSUME Grows, RequestsShown, request' = request
    PROVE  RequestsShown'
<1> SUFFICES ASSUME NEW q \in Requests
             PROVE  Shown(q)' /\ (request[q].pc = "idle" => request[q].token = {})'
  BY DEF RequestsShown
<1>1. Shown(q) /\ (request[q].pc = "idle" => request[q].token = {})
  BY DEF RequestsShown
<1> SUFFICES ASSUME NEW token \in request[q].token
             PROVE  Sound(token)' /\ request[q].repository \subseteq sets'[token.repositoryIDs]
  BY <1>1 DEF Shown
<1>2. Sound(token) /\ request[q].repository \subseteq sets[token.repositoryIDs]
  BY <1>1 DEF Shown
<1>3. Sound(token)'
  BY <1>2, SoundGrows
<1>4. sets'[token.repositoryIDs] = sets[token.repositoryIDs]
  BY <1>2 DEF Sound, Grows
<1>5. QED
  BY <1>2, <1>3, <1>4

\* Most steps of a request leave the world alone.
LEMMA WorldStays ==
    ASSUME TokensSound, ReposOwned, NamesDenoteOne, UNCHANGED worldVars
    PROVE  Grows /\ TokensSound' /\ ReposOwned' /\ NamesDenoteOne'
<1>1. Grows
  BY DEF Grows, worldVars, mapVars
<1>2. TokensSound'
  BY <1>1, TokensGrow DEF worldVars
<1>3. ReposOwned'
  BY DEF ReposOwned, worldVars, mapVars
<1>4. NamesDenoteOne'
  BY DEF NamesDenoteOne, worldVars, mapVars
<1>5. QED
  BY <1>1, <1>2, <1>3, <1>4

-----------------------------------------------------------------------------
(* One lemma per step *)

LEMMA InitIInv == Init => IInv
<1> SUFFICES ASSUME Init PROVE IInv
  OBVIOUS
<1>1. TypeOK
  <2>1. 0 \in Time
    BY TimesAssumption DEF Time
  <2>2. events \in [Apps -> Seq(Event)]
    BY DEF Init
  <2>3. minter \in [Minters -> Minter]
    BY DEF Init, Minter
  <2>4. DOMAIN request = Requests /\ \A q \in Requests : request[q] \in Request
    BY <2>1 DEF Init, Request, Stages, Endpoints
  <2>5. QED
    BY <2>1, <2>2, <2>3, <2>4 DEF Init, TypeOK
<1>2. TokensSound /\ ReposOwned
  BY DEF Init, TokensSound, ReposOwned
<1>3. JwtsSigned /\ RequestsShown
  BY DEF Init, JwtsSigned, RequestsShown, Shown
<1>4. NamesDenoteOne
  BY DEF Init, NamesDenoteOne
<1>5. QED
  BY <1>1, <1>2, <1>3, <1>4 DEF IInv

LEMMA createAppStep ==
    ASSUME IInv, NEW a \in Apps, createApp(a)
    PROVE  IInv' /\ Grows
<1>1. Grows
  BY DEF createApp, Grows
<1>2. TypeOK'
  BY DEF IInv, TypeOK, createApp
<1>3. TokensSound' /\ RequestsShown'
  BY <1>1, TokensGrow, RequestsGrow DEF IInv, createApp
<1>4. ReposOwned' /\ JwtsSigned' /\ NamesDenoteOne'
  BY DEF IInv, createApp, ReposOwned, JwtsSigned, NamesDenoteOne
<1>5. QED
  BY <1>1, <1>2, <1>3, <1>4 DEF IInv

LEMMA advanceTimeStep ==
    ASSUME IInv, NEW duration \in Int, advanceTime(duration)
    PROVE  IInv' /\ Grows
<1>1. Grows
  BY DEF advanceTime, Grows, mapVars
<1>2. TypeOK'
  <2>1. now' \in Time
    BY TimesAssumption DEF IInv, TypeOK, advanceTime, ClockMayAdvance, Time
  <2>2. QED
    BY <2>1 DEF IInv, TypeOK, advanceTime, mapVars
<1>3. TokensSound' /\ RequestsShown'
  BY <1>1, TokensGrow, RequestsGrow DEF IInv, advanceTime
<1>4. ReposOwned' /\ JwtsSigned' /\ NamesDenoteOne'
  BY DEF IInv, advanceTime, mapVars, ReposOwned, JwtsSigned, NamesDenoteOne
<1>5. QED
  BY <1>1, <1>2, <1>3, <1>4 DEF IInv

LEMMA createInstallationStep ==
    ASSUME IInv, NEW input \in InstallationInputs, createInstallation(input)
    PROVE  IInv' /\ Grows
<1> DEFINE i == input.id
           installation == [appID |-> input.appID, active |-> input.active,
                            owned |-> input.owned, permissions |-> input.permissions]
<1>1. /\ i \in Installations /\ i \notin DOMAIN tokens /\ i \notin DOMAIN installs
      /\ i \notin DOMAIN sets /\ input.appID \in Apps /\ installation \in Installation
  BY InputsAssumption, ReferencesAssumption
     DEF InstallationInput, Installation, IInv, TypeOK, createInstallation
<1>2. /\ DOMAIN installs' = DOMAIN installs \cup {i} /\ installs'[i] = installation
      /\ \A j \in DOMAIN installs : installs'[j] = installs[j]
  BY <1>1 DEF createInstallation, With
<1>3. /\ DOMAIN sets' = DOMAIN sets \cup {i} /\ sets'[i] = {}
      /\ \A x \in DOMAIN sets : sets'[x] = sets[x]
  BY <1>1 DEF createInstallation, With
<1>4. Grows
  BY <1>1, <1>2, <1>3 DEF Grows, createInstallation, IInv, TypeOK
<1>5. TypeOK'
  <2>1. events' \in [Apps -> Seq(Event)]
    <3>1. EventValue("installation", i, {}, input.appID) \in Event
      BY <1>1 DEF EventValue, Event
    <3>2. \A s \in Seq(Event), e \in Event : Append(s, e) \in Seq(Event)
      OBVIOUS
    <3>3. events \in [Apps -> Seq(Event)]
      BY DEF IInv, TypeOK
    <3>4. CASE UNCHANGED events
      BY <3>3, <3>4
    <3>5. CASE appendInstallationEvent(i, input.appID)
      BY <1>1, <3>1, <3>2, <3>3, <3>5 DEF appendInstallationEvent
    <3>6. QED
      BY <3>4, <3>5 DEF createInstallation
  <2>2. DOMAIN sets' = DOMAIN installs' \cup DOMAIN tokens'
    BY <1>2, <1>3 DEF IInv, TypeOK, createInstallation
  <2>3. \A x \in DOMAIN sets' : sets'[x] \subseteq Repositories
    BY <1>3 DEF IInv, TypeOK
  <2>4. DOMAIN installs' \subseteq Installations /\ \A j \in DOMAIN installs' : installs'[j] \in Installation
    BY <1>1, <1>2 DEF IInv, TypeOK
  <2>5. QED
    BY <2>1, <2>2, <2>3, <2>4 DEF IInv, TypeOK, createInstallation
<1>6. TokensSound' /\ RequestsShown'
  BY <1>4, TokensGrow, RequestsGrow DEF IInv, createInstallation
<1>7. ReposOwned'
  BY <1>2, <1>3, <1>1 DEF IInv, TypeOK, createInstallation, ReposOwned
<1>8. JwtsSigned'
  BY DEF IInv, JwtsSigned, createInstallation
<1>9. NamesDenoteOne'
  BY <1>1, <1>2, <1>3 DEF IInv, TypeOK, createInstallation, NamesDenoteOne
<1>10. QED
  BY <1>4, <1>5, <1>6, <1>7, <1>8, <1>9 DEF IInv

\* The repository is new, so it is in no set yet.
LEMMA createRepositoryStep ==
    ASSUME IInv, NEW input \in RepositoryInputs, createRepository(input)
    PROVE  IInv' /\ Grows
<1> DEFINE i == input.installationID
           r == input.id
           name == <<input.owner, input.name>>
           repository == [installationID |-> i, owner |-> input.owner, name |-> input.name]
<1>1. /\ i \in Installations /\ i \in DOMAIN installs /\ i \notin DOMAIN tokens
      /\ r \in Repositories /\ r \notin DOMAIN repositories /\ name \in FullNames
      /\ repository \in Repository /\ name \notin DOMAIN repoNames
  BY InputsAssumption, ReferencesAssumption
     DEF RepositoryInput, Repository, FullNames, IInv, TypeOK, createRepository, NameFree
<1>2. /\ DOMAIN repositories' = DOMAIN repositories \cup {r} /\ repositories'[r] = repository
      /\ \A s \in DOMAIN repositories : repositories'[s] = repositories[s]
  BY <1>1 DEF createRepository, With
<1>3. /\ DOMAIN repoNames' = DOMAIN repoNames \cup {name} /\ repoNames'[name] = r
      /\ \A n \in DOMAIN repoNames : repoNames'[n] = repoNames[n]
  BY <1>1 DEF createRepository, With
<1>4. /\ DOMAIN sets' = DOMAIN sets /\ sets'[i] = sets[i] \cup {r}
      /\ \A x \in DOMAIN sets : x # i => sets'[x] = sets[x]
  BY <1>1 DEF createRepository, IInv, TypeOK
<1>5. Grows
  BY <1>1, <1>2, <1>4 DEF Grows, createRepository, IInv, TypeOK
<1>6. TypeOK'
  <2>1. events' \in [Apps -> Seq(Event)]
    <3>1. EventValue("installation_repositories", i, {r}, installs[i].appID) \in Event
      BY <1>1 DEF EventValue, Event, IInv, TypeOK, Installation
    <3>2. \A s \in Seq(Event), e \in Event : Append(s, e) \in Seq(Event)
      OBVIOUS
    <3>3. events \in [Apps -> Seq(Event)]
      BY DEF IInv, TypeOK
    <3>4. QED
      BY <3>1, <3>2, <3>3
         DEF createRepository, appendInstallationRepositoriesEvent, appendPendingEvent
  <2>2. DOMAIN sets' = DOMAIN installs' \cup DOMAIN tokens'
    BY <1>4 DEF IInv, TypeOK, createRepository
  <2>3. \A x \in DOMAIN sets' : sets'[x] \subseteq Repositories
    BY <1>1, <1>4 DEF IInv, TypeOK
  <2>4. DOMAIN repositories' \subseteq Repositories /\ \A s \in DOMAIN repositories' : repositories'[s] \in Repository
    BY <1>1, <1>2 DEF IInv, TypeOK
  <2>5. DOMAIN repoNames' \subseteq FullNames /\ \A n \in DOMAIN repoNames' : repoNames'[n] \in Repositories
    BY <1>1, <1>3 DEF IInv, TypeOK
  <2>6. QED
    BY <2>1, <2>2, <2>3, <2>4, <2>5 DEF IInv, TypeOK, createRepository
<1>7. TokensSound' /\ RequestsShown'
  BY <1>5, TokensGrow, RequestsGrow DEF IInv, createRepository
<1>8. ReposOwned'
  <2>1. installs' = installs /\ DOMAIN installs \subseteq DOMAIN sets
    BY DEF createRepository, IInv, TypeOK
  <2>2. ReposOwned
    BY DEF IInv
  <2>3. QED
    BY <1>1, <1>2, <1>4, <2>1, <2>2 DEF ReposOwned
<1>9. JwtsSigned'
  BY DEF IInv, JwtsSigned, createRepository
<1>10. NamesDenoteOne'
  <2>1. installs' = installs /\ DOMAIN installs \subseteq DOMAIN sets /\ ReposOwned /\ NamesDenoteOne
    BY DEF createRepository, IInv, TypeOK
  <2>2. ASSUME NEW s \in DOMAIN repositories'
        PROVE  /\ <<repositories'[s].owner, repositories'[s].name>> \in DOMAIN repoNames'
               /\ repoNames'[<<repositories'[s].owner, repositories'[s].name>>] = s
    <3>1. CASE s = r
      BY <1>2, <1>3, <3>1
    <3>2. CASE s # r
      BY <1>2, <1>3, <2>1, <3>2 DEF NamesDenoteOne
    <3>3. QED
      BY <3>1, <3>2
  <2>3. ASSUME NEW j \in DOMAIN installs, NEW s \in sets'[j], NEW u \in sets'[j],
               repositories'[s].name = repositories'[u].name
        PROVE  s = u
    <3>1. \A x \in sets[j] : x \in DOMAIN repositories /\ x # r
      BY <1>1, <2>1 DEF ReposOwned
    <3>2. \A x \in sets[i] : repositories[x].name # input.name
      BY DEF createRepository, NameFree
    <3>3. \A x, y \in sets[j] : repositories[x].name = repositories[y].name => x = y
      BY <2>1 DEF NamesDenoteOne
    <3>4. CASE j # i
      BY <1>2, <1>4, <2>1, <2>3, <3>1, <3>3, <3>4
    <3>5. CASE j = i
      <4>1. s \in sets[i] \cup {r} /\ u \in sets[i] \cup {r}
        BY <1>4, <3>5
      <4>2. repositories'[r].name = input.name
        BY <1>2
      <4>3. \A x \in sets[i] : repositories'[x] = repositories[x]
        BY <1>2, <3>1, <3>5
      <4>4. QED
        BY <2>3, <3>2, <3>3, <3>5, <4>1, <4>2, <4>3
    <3>6. QED
      BY <3>4, <3>5
  <2>4. QED
    BY <2>1, <2>2, <2>3 DEF NamesDenoteOne
<1>11. QED
  BY <1>5, <1>6, <1>7, <1>8, <1>9, <1>10 DEF IInv

LEMMA AuthenticateJwtStep ==
    ASSUME IInv, NEW m \in Minters, NEW signer \in Apps, NEW iss \in Apps, NEW issuedAt,
           NEW expiresAt, AuthenticateJwt(m, signer, iss, issuedAt, expiresAt)
    PROVE  IInv' /\ Grows
<1>1. Grows /\ TokensSound' /\ ReposOwned' /\ NamesDenoteOne'
  BY WorldStays DEF IInv, AuthenticateJwt
<1>2. \/ /\ signer = iss
         /\ minter' = [minter EXCEPT ![m] =
                [pc |-> "authenticated", jwt |-> {[signer |-> signer, iss |-> iss]}]]
      \/ minter' = [minter EXCEPT ![m] = [pc |-> "denied", jwt |-> {}]]
  BY DEF AuthenticateJwt, KeyMatches
<1>3. minter \in [Minters -> Minter]
  BY DEF IInv, TypeOK
<1>4. minter' \in [Minters -> Minter]
  BY <1>2, <1>3 DEF Minter
<1>5. JwtsSigned'
  BY <1>2, <1>3 DEF IInv, JwtsSigned
<1>6. TypeOK'
  BY <1>4 DEF IInv, TypeOK, AuthenticateJwt, worldVars, mapVars
<1>7. RequestsShown'
  BY <1>1, RequestsGrow DEF IInv, AuthenticateJwt
<1>8. QED
  BY <1>1, <1>5, <1>6, <1>7 DEF IInv

LEMMA RefuseTokenStep ==
    ASSUME IInv, NEW m \in Minters, NEW i, NEW ids, NEW names, NEW wish,
           RefuseToken(m, i, ids, names, wish)
    PROVE  IInv' /\ Grows
<1>1. Grows /\ TokensSound' /\ ReposOwned' /\ NamesDenoteOne'
  BY WorldStays DEF IInv, RefuseToken
<1>2. minter \in [Minters -> Minter] /\ minter' = [minter EXCEPT ![m].pc = "denied"]
  BY DEF IInv, TypeOK, RefuseToken
<1>3. minter' \in [Minters -> Minter]
  BY <1>2 DEF Minter
<1>4. JwtsSigned'
  BY <1>2 DEF IInv, JwtsSigned, Minter
<1>5. TypeOK'
  BY <1>3 DEF IInv, TypeOK, RefuseToken, worldVars, mapVars
<1>6. RequestsShown'
  BY <1>1, RequestsGrow DEF IInv, RefuseToken
<1>7. QED
  BY <1>1, <1>4, <1>5, <1>6 DEF IInv

\* The new token is sound: its JWT was signed by the App of the installation, and its scope
\* and permissions lie within the installation's.
LEMMA MintTokenStep ==
    ASSUME IInv, NEW m \in Minters, NEW i \in Installations, NEW ids, NEW names,
           NEW wish \in PermissionMap, NEW t \in Tokens, MintToken(m, i, ids, names, wish, t)
    PROVE  IInv' /\ Grows
<1>1. PICK scope \in Selections(i, ids, names), jwt \in minter[m].jwt :
         /\ sets' = With(sets, t, scope)
         /\ tokens' = With(tokens, t,
                [installationID |-> i, repositoryIDs |-> t, permissions |-> wish,
                 expiresAt |-> now + TokenLifetime, signer |-> jwt.signer, mintedAt |-> now])
  BY DEF MintToken, copySet
<1> DEFINE token == [installationID |-> i, repositoryIDs |-> t, permissions |-> wish,
                     expiresAt |-> now + TokenLifetime, signer |-> jwt.signer, mintedAt |-> now]
<1>2. /\ i \in DOMAIN installs /\ t \notin DOMAIN tokens /\ t \notin DOMAIN installs
      /\ t \notin DOMAIN sets /\ i # t
  BY ReferencesAssumption DEF MintToken, MayMint, IInv, TypeOK
<1>3. /\ installs[i].active /\ installs[i].appID = jwt.iss
      /\ Grantable(installs[i].permissions, wish)
  BY DEF MintToken, MayMint
<1>4. jwt.signer = jwt.iss /\ jwt.signer \in Apps
  BY DEF IInv, JwtsSigned, TypeOK, Minter
<1>5. token \in Token
  BY <1>4, TimesAssumption DEF Token, References, IInv, TypeOK, Time
<1>6. /\ DOMAIN tokens' = DOMAIN tokens \cup {t} /\ tokens'[t] = token
      /\ \A u \in DOMAIN tokens : tokens'[u] = tokens[u]
  BY <1>1, <1>2 DEF With
<1>7. /\ DOMAIN sets' = DOMAIN sets \cup {t} /\ sets'[t] = scope
      /\ \A x \in DOMAIN sets : sets'[x] = sets[x]
  BY <1>1, <1>2 DEF With
<1>8. scope \subseteq sets[i]
  BY SelectionsReach
<1>9. UNCHANGED <<mapVars, now, events, request>>
  BY DEF MintToken
<1>10. Grows
  BY <1>6, <1>7, <1>9 DEF Grows, mapVars, IInv, TypeOK
<1>11. TokensSound'
  <2>1. ASSUME NEW u \in DOMAIN tokens PROVE Sound(tokens[u])'
    <3>1. Sound(tokens[u])
      BY DEF IInv, TokensSound
    <3>2. tokens'[u] = tokens[u]
      BY <1>6
    <3>3. QED
      BY <1>10, <3>1, <3>2 DEF Sound, Grows
  <2>2. sets'[t] \subseteq sets'[i] /\ installs' = installs
    BY <1>2, <1>7, <1>8, <1>9 DEF mapVars, IInv, TypeOK
  <2>3. Sound(tokens[t])'
    BY <1>2, <1>3, <1>4, <1>6, <2>2 DEF Sound
  <2>4. QED
    BY <1>6, <2>1, <2>3 DEF TokensSound
<1>12. minter \in [Minters -> Minter] /\ minter' = [minter EXCEPT ![m].pc = "served"]
  BY DEF IInv, TypeOK, MintToken
<1>13. TypeOK'
  <2>1. minter' \in [Minters -> Minter]
    BY <1>12 DEF Minter
  <2>2. DOMAIN sets' = DOMAIN installs' \cup DOMAIN tokens'
    BY <1>6, <1>7, <1>9 DEF IInv, TypeOK, mapVars
  <2>3. \A x \in DOMAIN sets' : sets'[x] \subseteq Repositories
    BY <1>2, <1>7, <1>8 DEF IInv, TypeOK
  <2>4. DOMAIN tokens' \subseteq Tokens /\ \A u \in DOMAIN tokens' : tokens'[u] \in Token
    BY <1>5, <1>6 DEF IInv, TypeOK
  <2>5. QED
    BY <1>9, <2>1, <2>2, <2>3, <2>4 DEF IInv, TypeOK, mapVars
<1>14. JwtsSigned'
  BY <1>12 DEF IInv, JwtsSigned, Minter
<1>15. RequestsShown'
  BY <1>9, <1>10, RequestsGrow DEF IInv
<1>16. ReposOwned' /\ NamesDenoteOne'
  BY <1>7, <1>9 DEF IInv, TypeOK, mapVars, ReposOwned, NamesDenoteOne
<1>17. QED
  BY <1>10, <1>11, <1>13, <1>14, <1>15, <1>16 DEF IInv

\* A step that only changes where one request is: what that request shows is all that counts.
LEMMA RequestStepShows ==
    ASSUME IInv, NEW q \in Requests, NEW new \in Request, new.pc # "idle",
           UNCHANGED <<mapVars, sets, tokens, now, minter>>, events' \in [Apps -> Seq(Event)],
           request' = [request EXCEPT ![q] = new],
           Shown(q)'
    PROVE  IInv' /\ Grows
<1>1. Grows
  BY DEF Grows, mapVars
<1>2. TokensSound'
  BY <1>1, TokensGrow DEF IInv
<1>3. ReposOwned' /\ NamesDenoteOne' /\ JwtsSigned'
  BY DEF IInv, ReposOwned, NamesDenoteOne, JwtsSigned, mapVars
<1>4. DOMAIN request' = Requests /\ request'[q] = new
      /\ \A p \in Requests : p # q => request'[p] = request[p]
  BY DEF IInv, TypeOK
<1>5. TypeOK'
  <2>1. \A p \in Requests : request'[p] \in Request
    BY <1>4 DEF IInv, TypeOK
  <2>2. QED
    BY <1>4, <2>1 DEF IInv, TypeOK, mapVars
<1>6. RequestsShown'
  <2> SUFFICES ASSUME NEW p \in Requests
               PROVE  Shown(p)' /\ (request[p].pc = "idle" => request[p].token = {})'
    BY DEF RequestsShown
  <2>1. CASE p = q
    BY <1>4, <2>1
  <2>2. CASE p # q
    <3>1. Shown(p) /\ (request[p].pc = "idle" => request[p].token = {})
      BY DEF IInv, RequestsShown
    <3>2. request'[p] = request[p] /\ sets' = sets /\ tokens' = tokens /\ installs' = installs
      BY <1>4, <2>2 DEF mapVars
    <3>3. QED
      BY <3>1, <3>2 DEF Shown, Sound
  <2>3. QED
    BY <2>1, <2>2
<1>7. QED
  BY <1>1, <1>2, <1>3, <1>5, <1>6 DEF IInv

LEMMA RefuseCredentialStep ==
    ASSUME IInv, NEW q \in Requests, RefuseCredential(q)
    PROVE  IInv' /\ Grows
<1> DEFINE new == [request[q] EXCEPT !.pc = "unauthorized"]
<1>1. request[q] \in Request /\ request[q].token = {} /\ events \in [Apps -> Seq(Event)]
  BY DEF IInv, TypeOK, RequestsShown, RefuseCredential
<1>2. new \in Request /\ new.pc # "idle" /\ new.token = {}
  BY <1>1 DEF Request, Stages
<1>3. request' = [request EXCEPT ![q] = new] /\ UNCHANGED <<worldVars, minter>>
  BY DEF RefuseCredential
<1>4. Shown(q)'
  BY <1>2, <1>3 DEF Shown, IInv, TypeOK
<1>5. QED
  BY <1>1, <1>2, <1>3, <1>4, RequestStepShows DEF worldVars

\* A token in the hands of a request is a copy of one that is sound.
LEMMA PresentStep ==
    ASSUME IInv, NEW q \in Requests, NEW endpoint \in Endpoints, NEW t \in DOMAIN tokens,
           NEW pc \in Stages \ {"idle"}, NEW repository \in SUBSET sets[tokens[t].repositoryIDs],
           Present(q, endpoint, t, pc, repository),
           pc = "unauthorized" <=> ~Live(tokens[t]),
           pc \in {"authorised", "served"} => Allows(tokens[t].permissions, endpoint)
    PROVE  IInv' /\ Grows
<1> DEFINE new == [pc |-> pc, endpoint |-> endpoint, token |-> {tokens[t]}, at |-> now,
                   repository |-> repository]
<1>1. Sound(tokens[t]) /\ tokens[t] \in Token /\ now \in Time /\ events \in [Apps -> Seq(Event)]
  BY DEF IInv, TypeOK, TokensSound
<1>2. repository \subseteq Repositories
  BY <1>1 DEF IInv, TypeOK, Sound
<1>3. new \in Request
  BY <1>1, <1>2 DEF Request
<1>4. request' = [request EXCEPT ![q] = new] /\ UNCHANGED <<worldVars, minter>>
  BY DEF Present
<1>5. request'[q] = new
  BY <1>4 DEF IInv, TypeOK
<1>6. (pc = "unauthorized") <=> (now >= tokens[t].expiresAt)
  BY <1>1 DEF Live, Token, Time
<1>7. Shown(q)'
  <2>1. UNCHANGED <<sets, tokens, installs>>
    BY <1>4 DEF worldVars, mapVars
  <2>2. QED
    BY <1>1, <1>5, <1>6, <2>1 DEF Shown, Sound
<1>8. QED
  BY <1>1, <1>3, <1>4, <1>7, RequestStepShows DEF worldVars

LEMMA PresentToGitStep ==
    ASSUME IInv, NEW q \in Requests, NEW endpoint \in Endpoints, NEW t, NEW name,
           PresentToGit(q, endpoint, t, name)
    PROVE  IInv' /\ Grows
<1> DEFINE reached == Reached(tokens[t], name)
           pc == IF ~Live(tokens[t]) THEN "unauthorized"
                 ELSE IF reached = {} THEN "notFound"
                 ELSE IF Allows(tokens[t].permissions, endpoint) THEN "authorised"
                 ELSE "forbidden"
<1>1. t \in DOMAIN tokens /\ Present(q, endpoint, t, pc, reached)
  BY DEF PresentToGit
<1>2. reached \in SUBSET sets[tokens[t].repositoryIDs]
  BY DEF Reached
<1>3. /\ pc \in Stages \ {"idle"}
      /\ pc = "unauthorized" <=> ~Live(tokens[t])
      /\ pc \in {"authorised", "served"} => Allows(tokens[t].permissions, endpoint)
  BY DEF Stages
<1>4. QED
  <2> HIDE DEF pc, reached
  <2>1. QED
    BY <1>1, <1>2, <1>3, PresentStep

LEMMA PresentToRestStep ==
    ASSUME IInv, NEW q \in Requests, NEW endpoint \in Endpoints, NEW t,
           PresentToRest(q, endpoint, t)
    PROVE  IInv' /\ Grows
<1> DEFINE pc == IF Live(tokens[t]) THEN "authenticated" ELSE "unauthorized"
<1>1. t \in DOMAIN tokens /\ Present(q, endpoint, t, pc, {})
  BY DEF PresentToRest
<1>2. /\ pc \in Stages \ {"idle"}
      /\ pc = "unauthorized" <=> ~Live(tokens[t])
      /\ pc \notin {"authorised", "served"}
  BY DEF Stages
<1>3. {} \in SUBSET sets[tokens[t].repositoryIDs]
  OBVIOUS
<1>4. QED
  <2> HIDE DEF pc
  <2>1. QED
    BY <1>1, <1>2, <1>3, PresentStep

LEMMA PushEventType ==
    ASSUME IInv, NEW q \in Requests, NEW r \in request[q].repository,
           NEW token \in request[q].token
    PROVE  /\ r \in Repositories /\ r \in DOMAIN repositories
           /\ token.installationID \in DOMAIN installs
           /\ repositories[r].installationID = token.installationID
           /\ r \in sets[token.installationID]
           /\ EventValue("push", repositories[r].installationID, {r},
                         installs[token.installationID].appID) \in Event
<1>1. Sound(token) /\ request[q].repository \subseteq sets[token.repositoryIDs]
  BY DEF IInv, RequestsShown, Shown
<1>2. token.installationID \in DOMAIN installs /\ r \in sets[token.installationID]
  BY <1>1 DEF Sound
<1>3. r \in DOMAIN repositories /\ repositories[r].installationID = token.installationID
  BY <1>2 DEF IInv, ReposOwned
<1>4. r \in Repositories /\ token.installationID \in Installations
      /\ installs[token.installationID].appID \in Apps
  BY <1>2, <1>3 DEF IInv, TypeOK, Installation
<1>5. QED
  BY <1>2, <1>3, <1>4 DEF EventValue, Event

LEMMA ActOnGitStep ==
    ASSUME IInv, NEW q \in Requests, ActOnGit(q)
    PROVE  IInv' /\ Grows
<1> DEFINE new == [request[q] EXCEPT !.pc = "served"]
<1>1. request[q] \in Request /\ events \in [Apps -> Seq(Event)] /\ request[q].pc = "authorised"
      /\ Shown(q)
  BY DEF IInv, TypeOK, RequestsShown, ActOnGit
<1>2. new \in Request /\ new.pc = "served" /\ new.token = request[q].token
      /\ new.repository = request[q].repository /\ new.at = request[q].at
      /\ new.endpoint = request[q].endpoint
  BY <1>1 DEF Request, Stages
<1>3. request' = [request EXCEPT ![q] = new] /\ UNCHANGED <<mapVars, sets, tokens, now, minter>>
  BY DEF ActOnGit
<1>4. events' \in [Apps -> Seq(Event)]
  <2>1. CASE UNCHANGED events
    BY <1>1, <2>1
  <2>2. ASSUME NEW r \in request[q].repository, NEW token \in request[q].token,
               appendPushEvent(r, token)
        PROVE  events' \in [Apps -> Seq(Event)]
    <3>1. EventValue("push", repositories[r].installationID, {r},
                     installs[token.installationID].appID) \in Event
      BY PushEventType
    <3>2. \A s \in Seq(Event), e \in Event : Append(s, e) \in Seq(Event)
      OBVIOUS
    <3>3. QED
      BY <1>1, <2>2, <3>1, <3>2 DEF appendPushEvent, appendPendingEvent
  <2>3. QED
    BY <2>1, <2>2 DEF ActOnGit
<1>5. Shown(q)'
  <2>1. request'[q] = new /\ UNCHANGED <<sets, tokens, installs>>
    BY <1>3 DEF mapVars, IInv, TypeOK
  <2>2. QED
    BY <1>1, <1>2, <2>1 DEF Shown, Sound
<1>6. QED
  BY <1>1, <1>2, <1>3, <1>4, <1>5, RequestStepShows

LEMMA ServeRestStep ==
    ASSUME IInv, NEW q \in Requests, NEW name, ServeRest(q, name)
    PROVE  IInv' /\ Grows
<1>1. PICK token \in request[q].token :
         LET seen == {r \in Reached(token, name) : Allows(token.permissions, request[q].endpoint)}
         IN request' = [request EXCEPT ![q].pc = IF seen = {} THEN "notFound" ELSE "served",
                                       ![q].repository = seen]
  BY DEF ServeRest
<1> DEFINE seen == {r \in Reached(token, name) : Allows(token.permissions, request[q].endpoint)}
           pc == IF seen = {} THEN "notFound" ELSE "served"
           new == [request[q] EXCEPT !.pc = pc, !.repository = seen]
<1>2. request[q] \in Request /\ events \in [Apps -> Seq(Event)] /\ request[q].pc = "authenticated"
      /\ Shown(q)
  BY DEF IInv, TypeOK, RequestsShown, ServeRest
<1>3. seen \subseteq sets[token.repositoryIDs] /\ sets[token.repositoryIDs] \subseteq Repositories
  BY <1>2 DEF Reached, Shown, Sound, IInv, TypeOK
<1>4. pc \in {"notFound", "served"}
      /\ (seen # {} => Allows(token.permissions, request[q].endpoint))
  OBVIOUS
<1>5. request' = [request EXCEPT ![q] = new] /\ UNCHANGED <<worldVars, minter>>
  <2>1. request' = [request EXCEPT ![q].pc = pc, ![q].repository = seen]
    BY <1>1
  <2>2. QED
    BY <2>1 DEF ServeRest, IInv, TypeOK
<1> HIDE DEF pc, seen
<1>6. new \in Request /\ new.pc = pc /\ new.token = request[q].token
      /\ new.repository = seen /\ new.at = request[q].at /\ new.endpoint = request[q].endpoint
  BY <1>2, <1>3, <1>4 DEF Request, Stages
<1>7. Shown(q)'
  <2>1. request'[q] = new /\ UNCHANGED <<sets, tokens, installs>>
    BY <1>5 DEF worldVars, mapVars, IInv, TypeOK
  <2>2. request'[q].token = {token}
    BY <1>2, <1>6, <2>1 DEF Shown
  <2>3. Sound(token)' /\ ~(request[q].at >= token.expiresAt)
    BY <1>2, <2>1 DEF Shown, Sound
  <2>4. seen \subseteq sets'[token.repositoryIDs]
    BY <1>3, <2>1
  <2>5. QED
    BY <1>4, <1>6, <2>1, <2>2, <2>3, <2>4 DEF Shown
<1>8. QED
  BY <1>2, <1>4, <1>5, <1>6, <1>7, RequestStepShows DEF worldVars

-----------------------------------------------------------------------------
(* Every step *)

LEMMA NextIInv ==
    ASSUME IInv, [Next]_vars
    PROVE  IInv' /\ Grows
<1>1. CASE UNCHANGED vars
  <2>1. Grows /\ TokensSound' /\ ReposOwned' /\ NamesDenoteOne'
    BY <1>1, WorldStays DEF vars, IInv
  <2>2. RequestsShown'
    BY <1>1, <2>1, RequestsGrow DEF vars, IInv
  <2>3. TypeOK' /\ JwtsSigned'
    BY <1>1 DEF vars, worldVars, mapVars, IInv, TypeOK, JwtsSigned
  <2>4. QED
    BY <2>1, <2>2, <2>3 DEF IInv
<1>2. CASE ControlStep
  <2>1. -1 .. MaxTime \subseteq Int
    BY TimesAssumption
  <2>2. QED
    BY <1>2, <2>1, createAppStep, createInstallationStep, createRepositoryStep, advanceTimeStep
       DEF ControlStep
<1>3. ASSUME NEW m \in Minters, MinterStep(m) PROVE IInv' /\ Grows
  <2>1. CASE \E signer, iss \in Apps, issuedAt \in {now, now + 1},
                expiresAt \in now .. now + JwtLifetime + 1 :
                   AuthenticateJwt(m, signer, iss, issuedAt, expiresAt)
    BY <2>1, AuthenticateJwtStep
  <2>2. ASSUME NEW i \in Installations, NEW ids \in SUBSET Repositories,
               NEW names \in SUBSET Names, NEW wish \in WishesOf(i),
               RefuseToken(m, i, ids, names, wish)
                  \/ \E t \in Tokens : MintToken(m, i, ids, names, wish, t)
        PROVE  IInv' /\ Grows
    <3>1. wish \in PermissionMap
      BY InputsAssumption DEF WishesOf, IInv, TypeOK, Installation
    <3>2. QED
      BY <2>2, <3>1, RefuseTokenStep, MintTokenStep
  <2>3. QED
    BY <1>3, <2>1, <2>2 DEF MinterStep
<1>4. ASSUME NEW q \in Requests, RequestStep(q) PROVE IInv' /\ Grows
  BY <1>4, RefuseCredentialStep, PresentToRestStep, PresentToGitStep, ActOnGitStep, ServeRestStep
     DEF RequestStep
<1>5. QED
  BY <1>1, <1>2, <1>3, <1>4 DEF Next

LEMMA Invariance == Spec => []IInv
<1>1. IInv /\ [Next]_vars => IInv'
  BY NextIInv
<1>2. QED
  BY <1>1, InitIInv, PTL DEF Spec

-----------------------------------------------------------------------------
(* Theorems *)

\* The world's maps hold what they are declared to hold, and every map of repository
\* identifiers belongs to an installation or a token.
THEOREM TypeCorrect == Spec => []TypeOK
<1>1. IInv => TypeOK
  BY DEF IInv
<1>2. QED
  BY <1>1, Invariance, PTL

\* Whatever git or the REST API serves, and every 403, is about a repository whose own
\* installation is active, belongs to the App that signed for the token, and grants what the
\* endpoint needs.
THEOREM GrantedOnly == Spec => []OnlyTheGrantedIsServed
<1>1. ASSUME IInv PROVE OnlyTheGrantedIsServed
  <2> SUFFICES ASSUME NEW q \in Requests, request[q].pc \in {"authorised", "forbidden", "served"},
                      NEW token \in request[q].token, NEW r \in request[q].repository
               PROVE  /\ token.installationID = repositories[r].installationID
                      /\ r \in sets[token.repositoryIDs]
                      /\ installs[token.installationID].active
                      /\ installs[token.installationID].appID = token.signer
                      /\ request[q].pc # "forbidden" =>
                            Allows(installs[token.installationID].permissions,
                                   request[q].endpoint)
    BY DEF OnlyTheGrantedIsServed
  <2>1. Shown(q) /\ Sound(token) /\ request[q].repository \subseteq sets[token.repositoryIDs]
    BY <1>1 DEF IInv, RequestsShown, Shown
  <2>2. token.installationID = repositories[r].installationID
    BY <1>1, PushEventType
  <2>3. request[q].pc # "forbidden" => Allows(token.permissions, request[q].endpoint)
    BY <2>1 DEF Shown
  <2>4. /\ request[q].endpoint \in Endpoints /\ token.permissions \in PermissionMap
        /\ installs[token.installationID].permissions \in PermissionMap
    BY <1>1, <2>1 DEF IInv, TypeOK, Request, Token, Sound, Installation
  <2>5. QED
    BY <2>1, <2>2, <2>3, <2>4, GrantAllows DEF Sound
<1>2. QED
  BY <1>1, Invariance, PTL

\* A token is refused as expired exactly from TokenLifetime after its minting on.
THEOREM LifetimesCorrect == Spec => []TokensLiveOneHour
<1>1. IInv => TokensLiveOneHour
  BY DEF IInv, RequestsShown, Shown, Sound, TokensLiveOneHour
<1>2. QED
  BY <1>1, Invariance, PTL

\* createRepository keeps full names, and names within an installation, unambiguous.
THEOREM NamesCorrect == Spec => []NamesDenoteOne
<1>1. IInv => NamesDenoteOne
  BY DEF IInv
<1>2. QED
  BY <1>1, Invariance, PTL

\* No step revokes, changes or widens a token that exists.
THEOREM TokensFixed == Spec => TokensNeverChange
<1>1. ASSUME IInv, [Next]_vars
      PROVE  \A t \in DOMAIN tokens :
                /\ t \in DOMAIN tokens'
                /\ tokens'[t] = tokens[t]
                /\ sets'[tokens[t].repositoryIDs] = sets[tokens[t].repositoryIDs]
  <2>1. Grows
    BY <1>1, NextIInv
  <2>2. \A t \in DOMAIN tokens : tokens[t].repositoryIDs \in DOMAIN tokens
    BY <1>1 DEF IInv, TokensSound, Sound
  <2>3. QED
    BY <2>1, <2>2 DEF Grows
<1>2. QED
  BY <1>1, Invariance, PTL DEF Spec, TokensNeverChange

-----------------------------------------------------------------------------
(* Events *)

\* What an event is about exists.
AboutKnown(a, k) ==
    LET e == events[a][k] IN
    /\ e.installation \in DOMAIN installs
    /\ e.event = "installation_repositories" =>
          \E r \in sets[e.installation] : e.repository = {r}

\* Every owned installation was announced.
OwnedAnnounced ==
    \A i \in DOMAIN installs : installs[i].owned =>
        \E k \in DOMAIN events[installs[i].appID] :
            /\ events[installs[i].appID][k].event = "installation"
            /\ events[installs[i].appID][k].installation = i
            /\ events[installs[i].appID][k].repository = {}

EInv ==
    /\ ReachTold
    /\ OwnedAnnounced
    /\ \A a \in Apps : \A k \in DOMAIN events[a] : AboutKnown(a, k) /\ EventFits(a, k)

\* A step that tells nothing adds nothing to the installations that have an owner.
LEMMA NothingTold ==
    ASSUME IInv, EInv, Grows, events' = events,
           \A i \in DOMAIN installs' : installs'[i].owned =>
               i \in DOMAIN installs /\ sets'[i] = sets[i]
    PROVE  EInv'
<1>1. \A i \in DOMAIN installs : installs'[i] = installs[i]
  BY DEF Grows
<1>2. ReachTold'
  BY <1>1 DEF EInv, ReachTold
<1>3. OwnedAnnounced'
  BY <1>1 DEF EInv, OwnedAnnounced
<1>4. ASSUME NEW a \in Apps, NEW k \in DOMAIN events[a]
      PROVE  AboutKnown(a, k)' /\ EventFits(a, k)'
  <2>1. AboutKnown(a, k) /\ EventFits(a, k)
    BY DEF EInv
  <2>2. AboutKnown(a, k)'
    BY <2>1 DEF AboutKnown, Grows
  <2>3. installs'[events[a][k].installation] = installs[events[a][k].installation]
    BY <1>1, <2>1 DEF AboutKnown
  <2>4. QED
    BY <2>1, <2>2, <2>3 DEF EventFits, ToldBefore
<1>5. QED
  BY <1>2, <1>3, <1>4 DEF EInv

\* What Append does to the events of one App.
LEMMA AppendFacts ==
    ASSUME IInv, NEW b \in Apps, NEW e, events' = [events EXCEPT ![b] = Append(@, e)]
    PROVE  /\ Len(events[b]) \in Nat
           /\ DOMAIN events[b] = 1 .. Len(events[b])
           /\ DOMAIN events'[b] = 1 .. Len(events[b]) + 1
           /\ \A k \in 1 .. Len(events[b]) : events'[b][k] = events[b][k]
           /\ events'[b][Len(events[b]) + 1] = e
           /\ \A a \in Apps : a # b => events'[a] = events[a]
           /\ \A a \in Apps : DOMAIN events[a] \subseteq DOMAIN events'[a]
           /\ \A a \in Apps : \A k \in DOMAIN events[a] : events'[a][k] = events[a][k]
           /\ \A a \in Apps : \A k \in DOMAIN events'[a] :
                 k \in DOMAIN events[a] \/ (a = b /\ k = Len(events[b]) + 1)
<1>1. events \in [Apps -> Seq(Event)] /\ events[b] \in Seq(Event)
  BY DEF IInv, TypeOK
<1>2. /\ Len(events[b]) \in Nat
      /\ DOMAIN events[b] = 1 .. Len(events[b])
      /\ DOMAIN events'[b] = 1 .. Len(events[b]) + 1
      /\ \A k \in 1 .. Len(events[b]) : events'[b][k] = events[b][k]
      /\ events'[b][Len(events[b]) + 1] = e
      /\ \A a \in Apps : a # b => events'[a] = events[a]
  BY <1>1
<1>3. \A a \in Apps : DOMAIN events[a] \subseteq DOMAIN events'[a]
  BY <1>2
<1>4. \A a \in Apps : \A k \in DOMAIN events[a] : events'[a][k] = events[a][k]
  BY <1>2
<1>5. \A a \in Apps : \A k \in DOMAIN events'[a] :
         k \in DOMAIN events[a] \/ (a = b /\ k = Len(events[b]) + 1)
  BY <1>2
<1>6. QED
  BY <1>2, <1>3, <1>4, <1>5

\* An event that fits when it is appended: the earlier ones still do, and are still told.
LEMMA FittingEvent ==
    ASSUME IInv, EInv, Grows, NEW b \in Apps, NEW e, events' = [events EXCEPT ![b] = Append(@, e)],
           e.installation \in DOMAIN installs',
           installs'[e.installation].appID = b, e.sender = b,
           e.event = "installation_repositories" =>
               \E r \in sets'[e.installation] : e.repository = {r},
           \/ e.event = "push"
           \/ ~\E j \in DOMAIN events[b] : /\ events[b][j].event = e.event
                                           /\ events[b][j].installation = e.installation
                                           /\ events[b][j].repository = e.repository,
           e.event = "installation_repositories" =>
               \E j \in DOMAIN events[b] : /\ events[b][j].event = "installation"
                                           /\ events[b][j].installation = e.installation
                                           /\ events[b][j].repository = {},
           e.event = "push" /\ installs'[e.installation].owned =>
               \E j \in DOMAIN events[b] : /\ events[b][j].event = "installation_repositories"
                                           /\ events[b][j].installation = e.installation
                                           /\ events[b][j].repository = e.repository
    PROVE  \A a \in Apps : \A k \in DOMAIN events'[a] : AboutKnown(a, k)' /\ EventFits(a, k)'
<1>0. /\ Len(events[b]) \in Nat
      /\ DOMAIN events[b] = 1 .. Len(events[b]) /\ events'[b][Len(events[b]) + 1] = e
      /\ \A k \in 1 .. Len(events[b]) : events'[b][k] = events[b][k]
  BY AppendFacts
<1>1. PICK n \in Nat :
         /\ n = Len(events[b])
         /\ DOMAIN events[b] = 1 .. n /\ events'[b][n + 1] = e
         /\ \A k \in 1 .. n : events'[b][k] = events[b][k]
  BY <1>0
<1>2. ASSUME NEW a \in Apps, NEW k \in DOMAIN events[a]
      PROVE  AboutKnown(a, k)' /\ EventFits(a, k)'
  <2>1. AboutKnown(a, k) /\ EventFits(a, k)
    BY DEF EInv
  <2>2. events'[a][k] = events[a][k]
    BY AppendFacts
  <2>3. \A j \in 1 .. k - 1 : events'[a][j] = events[a][j]
    <3>1. DOMAIN events[a] = 1 .. Len(events[a]) /\ Len(events[a]) \in Nat
      BY DEF IInv, TypeOK
    <3>2. 1 .. k - 1 \subseteq DOMAIN events[a]
      BY <3>1
    <3>3. QED
      BY <3>2, AppendFacts
  <2>4. AboutKnown(a, k)'
    BY <2>1, <2>2 DEF AboutKnown, Grows
  <2>5. installs'[events[a][k].installation] = installs[events[a][k].installation]
    BY <2>1 DEF AboutKnown, Grows
  <2>6. \A event, repository : ToldBefore(a, k, event, repository)' <=>
                                   ToldBefore(a, k, event, repository)
    BY <2>2, <2>3 DEF ToldBefore
  <2>7. QED
    BY <2>1, <2>2, <2>4, <2>5, <2>6 DEF EventFits
<1>3. AboutKnown(b, n + 1)'
  BY <1>1 DEF AboutKnown
<1>4. EventFits(b, n + 1)'
  <2>1. \A event, repository : ToldBefore(b, n + 1, event, repository)' <=>
           \E j \in DOMAIN events[b] : /\ events[b][j].event = event
                                       /\ events[b][j].installation = e.installation
                                       /\ events[b][j].repository = repository
    <3>1. 1 .. (n + 1) - 1 = DOMAIN events[b]
      BY <1>1
    <3>2. QED
      BY <1>1, <3>1 DEF ToldBefore
  <2>2. events'[b][n + 1] = e
    BY <1>1
  <2>3. e.event = "push" \/ ~ToldBefore(b, n + 1, e.event, e.repository)'
    BY <2>1
  <2>4. e.event = "installation_repositories" => ToldBefore(b, n + 1, "installation", {})'
    BY <2>1
  <2>5. e.event = "push" /\ installs'[e.installation].owned =>
            ToldBefore(b, n + 1, "installation_repositories", e.repository)'
    BY <2>1
  <2>6. QED
    BY <2>2, <2>3, <2>4, <2>5 DEF EventFits
<1>5. \A a \in Apps : \A k \in DOMAIN events'[a] : k \in DOMAIN events[a] \/ (a = b /\ k = n + 1)
  BY <1>1, AppendFacts
<1>6. QED
  BY <1>2, <1>3, <1>4, <1>5

LEMMA createInstallationTells ==
    ASSUME IInv, EInv, Grows, NEW input \in InstallationInputs, createInstallation(input)
    PROVE  EInv'
<1> DEFINE i == input.id
           b == input.appID
           e == EventValue("installation", i, {}, b)
<1>1. /\ i \notin DOMAIN installs /\ i \notin DOMAIN sets /\ b \in Apps
      /\ DOMAIN installs' = DOMAIN installs \cup {i}
      /\ installs'[i].appID = b /\ installs'[i].owned = input.owned
      /\ \A j \in DOMAIN installs : installs'[j] = installs[j]
  BY InputsAssumption, ReferencesAssumption
     DEF InstallationInput, IInv, TypeOK, createInstallation, With
<1>2. sets'[i] = {} /\ \A j \in DOMAIN installs : sets'[j] = sets[j]
  BY <1>1 DEF createInstallation, With, IInv, TypeOK
<1>3. CASE ~input.owned
  <2>1. events' = events
    BY <1>3 DEF createInstallation
  <2>2. QED
    BY <1>1, <1>2, <1>3, <2>1, NothingTold
<1>4. CASE input.owned
  <2>1. events' = [events EXCEPT ![b] = Append(@, e)]
    BY <1>4 DEF createInstallation, appendInstallationEvent
  <2>2. e.event = "installation" /\ e.installation = i /\ e.repository = {} /\ e.sender = b
    BY DEF EventValue
  <2> HIDE DEF e
  <2>3. \A a \in Apps : \A k \in DOMAIN events[a] : events[a][k].installation # i
    BY <1>1 DEF EInv, AboutKnown
  <2>4. \A a \in Apps : \A k \in DOMAIN events'[a] : AboutKnown(a, k)' /\ EventFits(a, k)'
    <3>1. e.installation \in DOMAIN installs' /\ installs'[e.installation].appID = b
      BY <1>1, <2>2
    <3>2. ~\E j \in DOMAIN events[b] : /\ events[b][j].event = e.event
                                       /\ events[b][j].installation = e.installation
                                       /\ events[b][j].repository = e.repository
      BY <1>1, <2>2, <2>3
    <3>3. e.event # "push" /\ e.event # "installation_repositories" /\ b \in Apps
      BY <1>1, <2>2
    <3>4. QED
      BY <2>1, <2>2, <3>1, <3>2, <3>3, FittingEvent
  <2>5. OwnedAnnounced'
    <3> SUFFICES ASSUME NEW j \in DOMAIN installs', installs'[j].owned
                 PROVE  \E k \in DOMAIN events'[installs'[j].appID] :
                           /\ events'[installs'[j].appID][k].event = "installation"
                           /\ events'[installs'[j].appID][k].installation = j
                           /\ events'[installs'[j].appID][k].repository = {}
      BY DEF OwnedAnnounced
    <3>1. CASE j = i
      <4>0. /\ Len(events[b]) \in Nat
            /\ DOMAIN events'[b] = 1 .. Len(events[b]) + 1
            /\ events'[b][Len(events[b]) + 1] = e
        BY <1>1, <2>1, AppendFacts
      <4>1. Len(events[b]) + 1 \in DOMAIN events'[b] /\ events'[b][Len(events[b]) + 1] = e
        BY <4>0
      <4>2. QED
        BY <1>1, <2>2, <3>1, <4>1
    <3>2. CASE j # i
      <4>1. j \in DOMAIN installs /\ installs'[j] = installs[j] /\ installs[j].appID \in Apps
        BY <1>1, <3>2 DEF IInv, TypeOK, Installation
      <4>2. PICK k \in DOMAIN events[installs[j].appID] :
               /\ events[installs[j].appID][k].event = "installation"
               /\ events[installs[j].appID][k].installation = j
               /\ events[installs[j].appID][k].repository = {}
        BY <4>1 DEF EInv, OwnedAnnounced
      <4>3. k \in DOMAIN events'[installs[j].appID]
            /\ events'[installs[j].appID][k] = events[installs[j].appID][k]
        BY <1>1, <2>1, <4>1, AppendFacts
      <4>4. QED
        BY <4>1, <4>2, <4>3
    <3>3. QED
      BY <3>1, <3>2
  <2>6. ReachTold'
    <3> SUFFICES ASSUME NEW j \in DOMAIN installs', installs'[j].owned, NEW r \in Repositories
                 PROVE  r \in sets'[j] <=>
                           \E k \in DOMAIN events'[installs'[j].appID] :
                              /\ events'[installs'[j].appID][k].event = "installation_repositories"
                              /\ events'[installs'[j].appID][k].installation = j
                              /\ events'[installs'[j].appID][k].repository = {r}
      BY DEF ReachTold
    <3> DEFINE a == installs'[j].appID
    <3>1. a \in Apps
      BY <1>1 DEF IInv, TypeOK, Installation
    <3>2. \A k \in DOMAIN events'[a] :
             events'[a][k].event = "installation_repositories" => 
                k \in DOMAIN events[a] /\ events'[a][k] = events[a][k]
      BY <1>1, <2>1, <2>2, <3>1, AppendFacts
    <3>3. \A k \in DOMAIN events[a] : k \in DOMAIN events'[a] /\ events'[a][k] = events[a][k]
      BY <1>1, <2>1, <3>1, AppendFacts
    <3>4. CASE j = i
      BY <1>2, <2>3, <3>1, <3>2, <3>4
    <3>5. CASE j # i
      <4>1. j \in DOMAIN installs /\ installs'[j] = installs[j] /\ sets'[j] = sets[j]
        BY <1>1, <1>2, <3>5
      <4>2. r \in sets[j] <=> \E k \in DOMAIN events[a] :
                                 /\ events[a][k].event = "installation_repositories"
                                 /\ events[a][k].installation = j
                                 /\ events[a][k].repository = {r}
        BY <4>1 DEF EInv, ReachTold
      <4>3. QED
        BY <3>2, <3>3, <4>1, <4>2
    <3>6. QED
      BY <3>4, <3>5
  <2>7. QED
    BY <2>4, <2>5, <2>6 DEF EInv
<1>5. QED
  BY <1>3, <1>4

\* Once the repository is stored, the event goes to the App of its installation and no other.
LEMMA PendingAppend ==
    ASSUME IInv, NEW stored, NEW r \in DOMAIN stored, NEW e, NEW b \in Apps,
           installs[stored[r].installationID].appID = b, appendPendingEvent(stored, r, e)
    PROVE  events' = [events EXCEPT ![b] = Append(@, e)]
<1>1. Addressee(stored, r) = {b}
  BY DEF Addressee
<1>2. events' = [a \in Apps |-> IF a \in {b} THEN Append(events[a], e) ELSE events[a]]
  BY <1>1 DEF appendPendingEvent
<1>3. DOMAIN events = Apps
  BY DEF IInv, TypeOK
<1>4. QED
  BY <1>2, <1>3

LEMMA createRepositoryTells ==
    ASSUME IInv, EInv, Grows, NEW input \in RepositoryInputs, createRepository(input)
    PROVE  EInv'
<1> DEFINE i == input.installationID
           r == input.id
           b == installs[i].appID
           stored == With(repositories, r,
                          [installationID |-> i, owner |-> input.owner, name |-> input.name])
           e == EventValue("installation_repositories", i, {r}, b)
<1>1. /\ i \in DOMAIN installs /\ i \in DOMAIN sets /\ installs' = installs /\ b \in Apps
      /\ sets'[i] = sets[i] \cup {r}
      /\ \A j \in DOMAIN installs : j # i => sets'[j] = sets[j]
  BY DEF createRepository, IInv, TypeOK, Installation
<1>2. \A j \in DOMAIN installs : r \notin sets[j]
  BY DEF createRepository, IInv, ReposOwned
<1>3. CASE ~installs[i].owned
  <2>1. events' = events
    BY <1>3 DEF createRepository
  <2>2. QED
    BY <1>1, <1>3, <2>1, NothingTold
<1>4. CASE installs[i].owned
  <2>1. events' = [events EXCEPT ![b] = Append(@, e)]
    <3>1. appendPendingEvent(stored, r, e)
      BY <1>4 DEF createRepository, appendInstallationRepositoriesEvent
    <3>2. r \in DOMAIN stored /\ stored[r].installationID = i
      BY DEF With
    <3>3. installs[stored[r].installationID].appID = b
      BY <3>2
    <3> HIDE DEF stored, e
    <3>4. QED
      BY <1>1, <3>1, <3>2, <3>3, PendingAppend
  <2>2. /\ e.event = "installation_repositories" /\ e.installation = i
        /\ e.repository = {r} /\ e.sender = b
    BY DEF EventValue
  <2> HIDE DEF e
  <2>3. ~\E j \in DOMAIN events[b] : /\ events[b][j].event = e.event
                                     /\ events[b][j].installation = e.installation
                                     /\ events[b][j].repository = e.repository
    <3> SUFFICES ASSUME NEW j \in DOMAIN events[b],
                        events[b][j].event = "installation_repositories",
                        events[b][j].installation = i, events[b][j].repository = {r}
                 PROVE  FALSE
      BY <2>2
    <3>1. PICK s \in sets[i] : {r} = {s}
      BY <1>1 DEF EInv, AboutKnown
    <3>2. QED
      BY <1>1, <1>2, <3>1
  <2>4. \E j \in DOMAIN events[b] : /\ events[b][j].event = "installation"
                                    /\ events[b][j].installation = e.installation
                                    /\ events[b][j].repository = {}
    BY <1>1, <1>4, <2>2 DEF EInv, OwnedAnnounced
  <2>5. \A a \in Apps : \A k \in DOMAIN events'[a] : AboutKnown(a, k)' /\ EventFits(a, k)'
    <3>1. e.installation \in DOMAIN installs' /\ installs'[e.installation].appID = b
      BY <1>1, <2>2
    <3>2. \E s \in sets'[e.installation] : e.repository = {s}
      BY <1>1, <2>2
    <3>3. e.event # "push" /\ b \in Apps
      BY <1>1, <2>2
    <3> HIDE DEF b
    <3>4. QED
      BY <2>1, <2>2, <2>3, <2>4, <3>1, <3>2, <3>3, FittingEvent
  <2>6. /\ Len(events[b]) \in Nat
        /\ DOMAIN events'[b] = 1 .. Len(events[b]) + 1
        /\ events'[b][Len(events[b]) + 1] = e
    BY <1>1, <2>1, AppendFacts
  <2>7. \A a \in Apps : \A k \in DOMAIN events[a] :
           k \in DOMAIN events'[a] /\ events'[a][k] = events[a][k]
    BY <1>1, <2>1, AppendFacts
  <2>8. OwnedAnnounced'
    <3>1. \A j \in DOMAIN installs : installs[j].appID \in Apps
      BY DEF IInv, TypeOK, Installation
    <3>2. QED
      BY <1>1, <2>7, <3>1 DEF EInv, OwnedAnnounced
  <2>9. ReachTold'
    <3> SUFFICES ASSUME NEW j \in DOMAIN installs, installs[j].owned, NEW s \in Repositories
                 PROVE  s \in sets'[j] <=>
                           \E k \in DOMAIN events'[installs[j].appID] :
                              /\ events'[installs[j].appID][k].event = "installation_repositories"
                              /\ events'[installs[j].appID][k].installation = j
                              /\ events'[installs[j].appID][k].repository = {s}
      BY <1>1 DEF ReachTold
    <3> DEFINE a == installs[j].appID
               Told(k) == /\ events'[a][k].event = "installation_repositories"
                          /\ events'[a][k].installation = j
                          /\ events'[a][k].repository = {s}
    <3>1. a \in Apps
      BY DEF IInv, TypeOK, Installation
    <3>2. s \in sets[j] <=> \E k \in DOMAIN events[a] :
                               /\ events[a][k].event = "installation_repositories"
                               /\ events[a][k].installation = j
                               /\ events[a][k].repository = {s}
      BY DEF EInv, ReachTold
    <3>3. s \in sets[j] <=> \E k \in DOMAIN events[a] : Told(k)
      BY <2>7, <3>1, <3>2
    <3>4. \A k \in DOMAIN events'[a] :
             k \in DOMAIN events[a] \/ (a = b /\ events'[a][k] = e)
      BY <1>1, <2>1, <2>6, <3>1, AppendFacts
    <3>5. CASE j = i /\ s = r
      <4>1. Told(Len(events[b]) + 1) /\ Len(events[b]) + 1 \in DOMAIN events'[a]
        BY <2>2, <2>6, <3>5
      <4>2. QED
        BY <1>1, <3>5, <4>1
    <3>6. CASE ~(j = i /\ s = r)
      <4>1. s \in sets'[j] <=> s \in sets[j]
        BY <1>1, <3>6
      <4>2. \A k \in DOMAIN events'[a] : Told(k) => k \in DOMAIN events[a]
        <5>1. {r} = {s} => r = s
          OBVIOUS
        <5>2. QED
          BY <2>2, <3>4, <3>6, <5>1
      <4>3. QED
        BY <2>7, <3>1, <3>3, <4>1, <4>2
    <3>7. QED
      BY <3>5, <3>6
  <2>10. QED
    BY <2>5, <2>8, <2>9 DEF EInv
<1>5. QED
  BY <1>3, <1>4

LEMMA ActOnGitTells ==
    ASSUME IInv, EInv, Grows, NEW q \in Requests, ActOnGit(q)
    PROVE  EInv'
<1>1. installs' = installs /\ sets' = sets
  BY DEF ActOnGit, mapVars
<1>2. CASE UNCHANGED events
  BY <1>1, <1>2, NothingTold
<1>3. ASSUME NEW r \in request[q].repository, NEW token \in request[q].token,
             appendPushEvent(r, token)
      PROVE  EInv'
  <2> DEFINE i == token.installationID
             b == installs[i].appID
             e == EventValue("push", repositories[r].installationID, {r}, b)
  <2>1. /\ r \in Repositories /\ r \in DOMAIN repositories /\ i \in DOMAIN installs
        /\ repositories[r].installationID = i /\ r \in sets[i]
    BY PushEventType
  <2>2. b \in Apps
    BY <2>1 DEF IInv, TypeOK, Installation
  <2>3. events' = [events EXCEPT ![b] = Append(@, e)]
    <3>1. appendPendingEvent(repositories, r, e)
      BY <1>3 DEF appendPushEvent
    <3> HIDE DEF e
    <3>2. QED
      BY <2>1, <2>2, <3>1, PendingAppend
  <2>4. e.event = "push" /\ e.installation = i /\ e.repository = {r} /\ e.sender = b
    BY <2>1 DEF EventValue
  <2> HIDE DEF e
  <2>5. installs'[e.installation].owned =>
           \E j \in DOMAIN events[b] : /\ events[b][j].event = "installation_repositories"
                                       /\ events[b][j].installation = e.installation
                                       /\ events[b][j].repository = e.repository
    BY <1>1, <2>1, <2>4 DEF EInv, ReachTold
  <2>6. \A a \in Apps : \A k \in DOMAIN events'[a] : AboutKnown(a, k)' /\ EventFits(a, k)'
    <3>1. e.installation \in DOMAIN installs' /\ installs'[e.installation].appID = b
      BY <1>1, <2>1, <2>4
    <3>2. e.event = "push" /\ e.event # "installation_repositories" /\ e.sender = b
      BY <2>4
    <3> HIDE DEF b
    <3>3. QED
      BY <2>2, <2>3, <2>5, <3>1, <3>2, FittingEvent
  <2>7. \A a \in Apps : \A k \in DOMAIN events[a] :
           k \in DOMAIN events'[a] /\ events'[a][k] = events[a][k]
    BY <2>2, <2>3, AppendFacts
  <2>8. \A a \in Apps : \A k \in DOMAIN events'[a] :
           events'[a][k].event # "push" => k \in DOMAIN events[a]
    BY <2>2, <2>3, <2>4, AppendFacts
  <2>9. \A j \in DOMAIN installs : installs[j].appID \in Apps
    BY DEF IInv, TypeOK, Installation
  <2>10. OwnedAnnounced'
    BY <1>1, <2>7, <2>9 DEF EInv, OwnedAnnounced
  <2>11. ReachTold'
    BY <1>1, <2>7, <2>8, <2>9 DEF EInv, ReachTold
  <2>12. QED
    BY <2>6, <2>10, <2>11 DEF EInv
<1>4. QED
  BY <1>2, <1>3 DEF ActOnGit

LEMMA NextEInv ==
    ASSUME IInv, EInv, [Next]_vars
    PROVE  EInv'
<1>1. Grows
  BY NextIInv
<1>2. CASE installs' = installs /\ sets' = sets /\ events' = events
  BY <1>1, <1>2, NothingTold
<1>3. CASE UNCHANGED vars
  BY <1>2, <1>3 DEF vars, worldVars, mapVars
<1>4. CASE ControlStep
  <2>1. ASSUME NEW a \in Apps, createApp(a) PROVE EInv'
    BY <1>2, <2>1 DEF createApp
  <2>2. ASSUME NEW duration, advanceTime(duration) PROVE EInv'
    BY <1>2, <2>2 DEF advanceTime, mapVars
  <2>3. QED
    BY <1>1, <1>4, <2>1, <2>2, createInstallationTells, createRepositoryTells DEF ControlStep
<1>5. ASSUME NEW m \in Minters, MinterStep(m) PROVE EInv'
  <2>1. installs' = installs /\ events' = events /\ \A i \in DOMAIN installs : sets'[i] = sets[i]
    <3>1. ASSUME NEW i \in Installations, NEW ids, NEW names, NEW wish, NEW t \in Tokens,
                 MintToken(m, i, ids, names, wish, t)
          PROVE  installs' = installs /\ events' = events
                 /\ \A j \in DOMAIN installs : sets'[j] = sets[j]
      <4>1. PICK scope : sets' = With(sets, t, scope)
        BY <3>1 DEF MintToken, copySet
      <4>2. \A j \in DOMAIN installs : j \in DOMAIN sets /\ j # t
        BY ReferencesAssumption DEF IInv, TypeOK
      <4>3. QED
        BY <3>1, <4>1, <4>2 DEF MintToken, mapVars, With
    <3>2. QED
      BY <1>5, <3>1 DEF MinterStep, AuthenticateJwt, RefuseToken, worldVars, mapVars
  <2>2. QED
    BY <1>1, <2>1, NothingTold
<1>6. ASSUME NEW q \in Requests, RequestStep(q) PROVE EInv'
  <2>1. CASE ActOnGit(q)
    BY <1>1, <2>1, ActOnGitTells
  <2>2. CASE UNCHANGED worldVars
    BY <1>2, <2>2 DEF worldVars, mapVars
  <2>3. QED
    BY <1>6, <2>1, <2>2
       DEF RequestStep, RefuseCredential, PresentToRest, PresentToGit, Present, ServeRest
<1>7. QED
  BY <1>3, <1>4, <1>5, <1>6 DEF Next

\* From its events alone an App knows its owned installations and what they reach: nothing is
\* told to another App, told twice or told before what introduces it, and nothing is left out.
THEOREM ReachIsTold == Spec => []EventsTellTheReach
<1>1. Init => EInv
  BY DEF Init, EInv, ReachTold, OwnedAnnounced
<1>2. IInv /\ EInv /\ [Next]_vars => EInv'
  BY NextEInv
<1>3. EInv => EventsTellTheReach
  BY DEF EInv, EventsTellTheReach
<1>4. QED
  BY <1>1, <1>2, <1>3, Invariance, PTL DEF Spec
=============================================================================
