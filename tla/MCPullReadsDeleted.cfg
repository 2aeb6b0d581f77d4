\* A call that meets a push which moves a branch, and another that deletes it.
CONSTANTS
    Refs = {main}
    SHAs = {s1, s2}
    NoSHA = NoSHA
    NoRef = NoRef
    Pushes = {p1, p2, p3}
    NoPush = NoPush
    Pulls = {pr1}
    Readers = {g1}
SPECIFICATION ReadsSpec
SYMMETRY Symmetry
INVARIANTS
    HeadIsCurrentOrLast
