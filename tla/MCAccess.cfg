\* Two Apps, two token requests, two repositories that may belong to either installation.
CONSTANTS
    a1 = a1
    a2 = a2
    i1 = i1
    i2 = i2
    r1 = r1
    r2 = r2
    o1 = o1
    o2 = o2
    n1 = n1
    Apps = {a1, a2}
    Installations = {i1, i2}
    Repositories = {r1, r2}
    Owners = {o1, o2}
    Names = {n1}
    InstallationInputs <- SmallInstallations
    RepositoryInputs <- SmallRepositories
    Wishes <- SmallWishes
    Tokens = {t1, t2}
    Minters = {m1, m2}
    Requests = {q1}
    TokenLifetime = 2
    JwtLifetime = 1
    MaxTime = 2
SPECIFICATION Spec
SYMMETRY Symmetry
INVARIANTS
    TypeOK
    OnlyTheGrantedIsServed
    TokensLiveOneHour
    NamesDenoteOne
    EventsTellTheReach
PROPERTIES
    TokensNeverChange
\* Requests are served once, and the clock is bounded.
CHECK_DEADLOCK FALSE
