\* Two pushes to two branches in up to three lives of the server, with a pull request in each.
CONSTANTS
    Refs = {main, feature}
    SHAs = {s1, s2}
    NoSHA = NoSHA
    NoRef = NoRef
    Pushes = {p1, p2}
    NoPush = NoPush
    Pulls = {pr1}
    MaxRestarts = 2
SPECIFICATION RestartSpec
SYMMETRY Symmetry
INVARIANTS
    ChainsBeginOnDisk
    EventsAreAttributed
    SnapshotsFollowRefs
