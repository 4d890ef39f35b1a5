\* One reader, one writer, nobody dies.
CONSTANTS
    Writers = {p1}
    Listers = {p2}
    Names = {a}
    NSlots = 1
    SnapRetries = 2
    MaxOps = 2
    MaxCrash = 0
    None = None
SPECIFICATION Spec
INVARIANTS ConsistentSnapshots
CHECK_DEADLOCK FALSE
