\* Two threads: one resets the last handle while the other opens one.
CONSTANTS
    Threads = {t1, t2}
SPECIFICATION FairSpec
INVARIANTS OneSharedThread
