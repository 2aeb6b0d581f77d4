\* Two deliveries of three events of two Apps, one without a webhook.
CONSTANTS
    Deliveries = {d1, d2}
    Apps = {a1, a2}
    Configured = {a1}
    MaxEvents = 3
    MaxTime = 1
SPECIFICATION Spec
SYMMETRY Symmetry
INVARIANTS
    TypeOK
    GUIDsAreUnique
    BodiesAreOriginal
    AttemptsAreTrue
\* A log, a clock and a number of requests that are bounded.
CHECK_DEADLOCK FALSE
