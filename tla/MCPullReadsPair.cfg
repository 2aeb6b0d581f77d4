\* One push moves both branches between the two git commands of one call.
CONSTANTS
    Refs = {main, feature}
    SHAs = {s1, s2}
    NoSHA = NoSHA
    NoRef = NoRef
    Pushes = {p1, p2}
    NoPush = NoPush
    Pulls = {pr1}
    Readers = {g1}
SPECIFICATION ReadsSpec
SYMMETRY Symmetry
INVARIANTS
    ReportedPairWasReal
