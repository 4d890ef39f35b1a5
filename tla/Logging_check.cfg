\* Two loggers, of which the second may log under the first one's name; rings of
\* two records, drained one at a time; any one process dies.
CONSTANTS
    l1 = l1
    l2 = l2
    Loggers = {l1, l2}
    Names = {1, 2}
    NameChoice <- SharedName
    Prefixes <- OtherOrLonger
    Opaque = {l1}
    Leavers = {l1}
    Cap = 2
    Batch = 1
    MaxObjs = 2
    MaxCrash = 1
SPECIFICATION FairSpec
INVARIANTS TypeOK RefsBalanced
PROPERTIES Discovered Relieved DeadDetached
CHECK_DEADLOCK FALSE
