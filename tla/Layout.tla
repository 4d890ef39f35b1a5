------------------------------- MODULE Layout -------------------------------
(***************************************************************************)
(* The arithmetic of a segment: where header, metadata, payload, cursors,  *)
(* sequence words and record slots lie (src/include/shmfx/shm_types.h,     *)
(* src/src/shm_manager.cpp, src/src/shm_ring.cpp), what validate_header    *)
(* and MpscRing::bind accept.  Machine words have the parametric widths    *)
(* U32 and U64, so that sums and casts wrap where those of the code do.    *)
(***************************************************************************)
EXTENDS Integers

CONSTANTS
    U32, U64,    \* 2^32 and 2^64
    Line,        \* SHMFX_CACHE_LINE_BYTES, CACHE_LINE_SIZE
    SegHdr,      \* SHMFX_HEADER_SIZE
    RingMeta,    \* sizeof(RecordRingMeta)
    RecHdr,      \* sizeof(RingRecordHeader)
    RecAlign,    \* kRecordAreaAlign
    Cursor,      \* sizeof(RingCursor)
    SlotWord     \* sizeof(RingSlotHeader)

\* Powers of two, in the order they have in the code.
ASSUME LayoutAssumption ==
    /\ {U32, U64, Line, SegHdr, RingMeta, RecHdr, RecAlign, Cursor, SlotWord} \subseteq Nat \ {0}
    /\ U64 = U32 * U32 /\ U32 % Line = 0 /\ SegHdr % Line = 0 /\ Line % RecAlign = 0
    /\ RecHdr < Line /\ RecHdr % RecAlign = 0 /\ SlotWord < Line /\ 2 * Cursor + RecAlign <= U32

\* (value + alignment - 1) & ~(alignment - 1), in 64 bits.
align_up(v, a) == LET w == (v + a - 1) % U64 IN w - (w % a)

-----------------------------------------------------------------------------
(* The ring inside a payload *)

record_stride_for(max_payload) == align_up(RecHdr + max_payload, Line) % U32

slot_meta_offset == 2 * Cursor

record_area_offset(record_max) == align_up(slot_meta_offset + SlotWord * record_max, RecAlign)

\* Mutant: no room for the sequence words.
payload_size_for_bare(record_max, stride) ==
    IF record_max = 0 \/ stride < RecHdr THEN 0 ELSE (slot_meta_offset + record_max * stride) % U64

payload_size_for(record_max, stride) ==
    IF record_max = 0 \/ stride < RecHdr THEN 0
    ELSE (record_area_offset(record_max) + record_max * stride) % U64

\* First byte of the sequence word and of the record of slot i.
slot_header(i) == slot_meta_offset + i * SlotWord

record_bytes(meta, i) == record_area_offset(meta.record_max) + i * meta.record_stride

slot_capacity(meta) == meta.record_stride - RecHdr

\* RecordRingMeta before and after MpscRing::initialize; the two mode words
\* are set together with record_max.
NoRing == [record_max |-> 0, record_stride |-> 0]

RingFor(record_max, max_payload) ==
    [record_max |-> record_max, record_stride |-> record_stride_for(max_payload)]

\* payload_aligned; a mapping begins on a page.
aligned(offset) == offset % Line = 0

\* initialize: the payload of h has room.
initializes(record_max, max_payload, h) ==
    LET required == payload_size_for(record_max, record_stride_for(max_payload))
    IN  required # 0 /\ h.payload_size >= required /\ aligned(h.payload_offset)

valid_meta(meta) == meta.record_max # 0 /\ meta.record_stride >= RecHdr

\* bind, after the test of bind_logger_ring or attach_ring on the metadata.
binds(meta, h) ==
    /\ h.meta_size >= RingMeta
    /\ valid_meta(meta) /\ aligned(h.payload_offset)
    /\ LET required == payload_size_for(meta.record_max, meta.record_stride)
       IN  required # 0 /\ h.payload_size >= required

-----------------------------------------------------------------------------
(* The segment around it *)

payload_offset_for(meta_size) == align_up((SegHdr + meta_size) % U64, Line)

\* Logger's make_create_options.
ring_total_size(record_max, max_payload) ==
    (payload_offset_for(RingMeta) + payload_size_for(record_max, record_stride_for(max_payload))) % U64

\* magic, version and name are right or not; the sizes as create stores them.
HeaderOf(name, total_size, meta_size, hmac_enabled) ==
    [magic |-> TRUE, name |-> name, hmac_enabled |-> hmac_enabled, total_size |-> total_size,
     meta_offset |-> SegHdr, meta_size |-> meta_size % U32,
     payload_offset |-> payload_offset_for(meta_size) % U32,
     payload_size |-> total_size - payload_offset_for(meta_size)]

\* A new object is all zero.
ZeroHeader ==
    [magic |-> FALSE, name |-> "", hmac_enabled |-> FALSE, total_size |-> 0,
     meta_offset |-> 0, meta_size |-> 0, payload_offset |-> 0, payload_size |-> 0]

\* Sums of 64 bits, as both validations compute them.
meta_end(h) == h.meta_offset + h.meta_size

payload_end(h) == (h.payload_offset + h.payload_size) % U64

\* Mutant: metadata and payload may overlap.
validate_header_overlap(h, mapped) ==
    /\ h.magic
    /\ h.total_size = mapped /\ h.total_size >= SegHdr
    /\ h.meta_offset >= SegHdr /\ meta_end(h) <= h.total_size
    /\ payload_end(h) <= h.total_size

validate_header(h, mapped) ==
    /\ h.magic
    /\ h.total_size = mapped /\ h.total_size >= SegHdr
    /\ h.meta_offset >= SegHdr /\ h.meta_offset <= h.total_size
    /\ meta_end(h) <= h.total_size /\ h.payload_offset >= meta_end(h)
    /\ payload_end(h) <= h.total_size

\* The janitor's own copy of the test.
janitor_header_valid(h, mapped) ==
    /\ h.magic
    /\ h.total_size = mapped /\ h.total_size >= SegHdr
    /\ h.meta_offset >= SegHdr /\ meta_end(h) <= h.total_size
    /\ h.payload_offset >= meta_end(h) /\ payload_end(h) <= h.total_size
=============================================================================
