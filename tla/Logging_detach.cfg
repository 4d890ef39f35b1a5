\* The same instance.
CONSTANTS
    l1 = l1
    l2 = l2
    Loggers = {l1, l2}
    Names = {1, 2}
    NameChoice <- SharedName
    Prefixes <- OtherOrLonger
    Opaque = {l1}
    Leavers = {l1}
    Cap = 2
    Batch = 1
    MaxObjs = 2
    MaxCrash = 1
SPECIFICATION FairSpec
PROPERTIES DeadOwnerDetached
CHECK_DEADLOCK FALSE
