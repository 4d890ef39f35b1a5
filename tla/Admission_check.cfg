\* Sizes in units of 8 bytes, as in the code: a line is 64 bytes, a header 256, a
\* SHA-256 block 64 and a digest 32; a 32-bit word counts to 512 units and a
\* 64-bit word to 512 * 512.
CONSTANTS
    U32 = 512
    U64 = 262144
    Line = 8
    SegHdr = 32
    RingMeta = 8
    RecHdr = 2
    RecAlign = 1
    Cursor = 8
    SlotWord = 1
    Block = 8
    LenBytes = 1
    HmacBytes = 4
    p1 = p1
    p2 = p2
    Janitors = {"j"}
    Procs = {p1, p2}
    Names = {"a", "b", "c", "d", "e", "g"}
    Namespace <- NamespaceOf
    Allowed = {"log", "kv"}
    Wants <- WantsOf
    Attaches <- AttachesOf
    Envs <- EnvsOf
    FileKey = "key"
    MaxSeg = 128
    Quota = 160
    MaxNs = 1
    NSlots = 3
    Faults <- FaultsOf
    MaxFaults = 1
    MaxJobs = 1
SPECIFICATION Spec
INVARIANTS TypeOK HeaderFits RingFits QuotaBounded NamespaceBounded DigestStandard
PROPERTIES DamageCaught
CHECK_DEADLOCK FALSE
