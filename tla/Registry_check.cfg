\* Two processes register and unregister more names than there are slots, one
\* of them lists and touches as well; they die twice, at any step, in the
\* repair too.
CONSTANTS
    Writers = {p1, p2}
    Listers = {p2}
    Names = {a, b, c}
    NSlots = 2
    SnapRetries = 2
    MaxOps = 3
    MaxCrash = 2
    None = None
SPECIFICATION FairSpec
INVARIANTS TypeOK TableConsistent OthersIntact
PROPERTIES OpTerminates ImplementsDirectory
CHECK_DEADLOCK FALSE
