\* An owner, a logger and a reader that sweeps; one of the first two may die at
\* any step, and the owner may stall.
CONSTANTS
    Procs = {p1, p2, p3}
    Creators = {p1}
    Attachers = {p2}
    Readers = {p3}
    Sweepers = {p3}
    Mortal = {p1, p2}
    Opaque = {p2}
    MaxObjs = 1
    MaxCrash = 1
    EarlyAttach = FALSE
    None = None
SPECIFICATION FairSpec
INVARIANTS TypeOK RefCountExact LiveOwnerKept OwnerKept
PROPERTIES StateForward Reclaimed
CHECK_DEADLOCK FALSE
