\* Two requests that overlap in every way.
SPECIFICATION FairSpec
CONSTANTS
    a = a
    b = b
    Ids = {a, b}
    Order <- OrderAB
    Reqs = {q1, q2}
    SameDevice <- OnePort
    Overlap = TRUE
    DiskErrors = TRUE
    Boot = boot
    None = none
INVARIANT TypeOK
 
CHECK_DEADLOCK FALSE
