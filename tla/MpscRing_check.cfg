\* Two producers, two slots: the ring fills, wraps and is contended.  A payload
\* of 3 bytes is cut to 2; the consumer takes 1 byte.  The producers are
\* scheduled fairly; the consumer may stop for good, unless a property says
\* otherwise.  Threads may die.
CONSTANTS
    Producers = {p1, p2}
    RecordMax = 2
    RetryBudget = 2
    SlotPayload = 2
    PayloadSizes = {3}
    OutSize = 1
    MaxPush = 3
SPECIFICATION NonBlockingSpec
INVARIANTS TypeOK WithinCapacity SlotExclusive FifoUntorn Accounting
PROPERTIES HonestRefusal ImplementsChannel PushTerminates EventualDelivery
CHECK_DEADLOCK FALSE
