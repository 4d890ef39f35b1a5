\* Three user threads open and reset owner handles for ever.
CONSTANTS
    Threads = {t1, t2, t3}
SPECIFICATION FairSpec
INVARIANTS TypeOK TickMapped WorkerOwned
PROPERTIES KeepsTicking Quiesces
