\* Nobody dies.
CONSTANTS
    Procs = {p1, p2, p3}
    Creators = {p1}
    Attachers = {p2}
    Readers = {}
    Sweepers = {p3}
    Mortal = {}
    Opaque = {}
    MaxObjs = 1
    MaxCrash = 0
    EarlyAttach = FALSE
    None = None
SPECIFICATION Spec
INVARIANTS NoDeadHandle
CHECK_DEADLOCK FALSE
