\* A ring of a single slot, which initialize() and bind() accept.
CONSTANTS
    Producers = {p1, p2}
    RecordMax = 1
    RetryBudget = 2
    SlotPayload = 2
    PayloadSizes = {1}
    OutSize = 1
    MaxPush = 2
SPECIFICATION Spec
INVARIANTS WithinCapacity
CHECK_DEADLOCK FALSE
