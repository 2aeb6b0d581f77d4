\* Two pushes to one branch, with a pull request to refresh.
CONSTANTS
    Refs = {main}
    SHAs = {s1}
    NoSHA = NoSHA
    NoRef = NoRef
    Pushes = {p1, p2}
    NoPush = NoPush
    Pulls = {pr1}
SPECIFICATION FairSpec
PROPERTIES
    PushesAreAnswered
