\* Three pushes, so that a branch is created, moved and deleted around one call.
CONSTANTS
    Refs = {main}
    SHAs = {s1, s2, s3}
    NoSHA = NoSHA
    NoRef = NoRef
    Pushes = {p1, p2, p3}
    NoPush = NoPush
    Pulls = {pr1}
    Readers = {g1}
SPECIFICATION ReadsSpec
SYMMETRY Symmetry
INVARIANTS
    ReadsTypeOK
    ReportsTheBranches
