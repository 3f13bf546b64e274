\* One request at a time per mapping; every save succeeds.
SPECIFICATION Spec
CONSTANTS
    a = a
    b = b
    Ids = {a, b}
    Order <- OrderAB
    Reqs = {q1, q2, q3}
    SameDevice <- OwnPorts
    Overlap = FALSE
    DiskErrors = FALSE
    Boot = boot
    None = none
SYMMETRY Requests
INVARIANTS NoPortRace Reconciled
CHECK_DEADLOCK FALSE
