\* Two runs, and one request more than runs, so that two requests fight over a run while
\* another holds the second one.
CONSTANTS
    Runs = {r1, r2}
    Handlers = {h1, h2, h3}
    NoRun = NoRun
    NoHandler = NoHandler
    Conclusions = {"success", "failure"}
SPECIFICATION Spec
SYMMETRY Symmetry
INVARIANTS
    TypeOK
    ClaimHeldByOne
    ClaimFreezesStatus
    StartedOnce
    CancellationReachesRunner
    ConclusionExplained
    EventsInOrder
    StatusIsAnnounced
PROPERTIES
    CompletedIsFinal
    ImplementsLifecycle
\* The instance serves three requests and stops.
CHECK_DEADLOCK FALSE
