\* Three pushes that may move both branches, and a pull request between them.
CONSTANTS
    Refs = {main, feature}
    SHAs = {s1, s2}
    NoSHA = NoSHA
    NoRef = NoRef
    Pushes = {p1, p2, p3}
    NoPush = NoPush
    Pulls = {pr1}
SPECIFICATION Spec
SYMMETRY Symmetry
INVARIANTS
    TypeOK
    GapsAreRecorded
    EventsAreAttributed
    RunsAreForTheReleaseRef
    SnapshotsFollowRefs
PROPERTIES
    RefreshKeepsChanges
