\* The name is used again for a second object.
CONSTANTS
    Procs = {p1, p2}
    Creators = {p1, p2}
    Attachers = {}
    Readers = {}
    Sweepers = {p1, p2}
    Mortal = {}
    Opaque = {}
    MaxObjs = 2
    MaxCrash = 0
    EarlyAttach = FALSE
    None = None
SPECIFICATION Spec
PROPERTIES UnlinkOwn
CHECK_DEADLOCK FALSE
