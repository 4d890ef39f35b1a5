-------------------------- MODULE AdmissionProofs ---------------------------
(***************************************************************************)
(* Proofs about Layout and Admission, for all sizes of words, lines,       *)
(* headers and slots, all options and all damage.                          *)
(***************************************************************************)
EXTENDS Admission, IntegrityProofs, FiniteSetTheorems, TLAPS

-----------------------------------------------------------------------------
(* The arithmetic of Layout *)

LEMMA Widths ==
    /\ U32 \in Nat /\ U64 \in Nat /\ Line \in Nat /\ SegHdr \in Nat /\ RingMeta \in Nat /\ RecHdr \in Nat
    /\ RecAlign \in Nat /\ Cursor \in Nat /\ SlotWord \in Nat
    /\ U32 > 0 /\ Line > 0 /\ SegHdr > 0 /\ RecHdr > 0 /\ RecAlign > 0 /\ Cursor > 0 /\ SlotWord > 0
    /\ U64 = U32 * U32 /\ Line <= U32 /\ RecHdr < Line /\ SlotWord < Line /\ 2 * Cursor + RecAlign <= U32
    /\ 2 <= U32 /\ 2 * U32 <= U64 /\ 3 * U32 < U64 + 3
<1>1. /\ U32 \in Nat /\ U64 \in Nat /\ Line \in Nat /\ SegHdr \in Nat /\ RingMeta \in Nat /\ RecHdr \in Nat
      /\ RecAlign \in Nat /\ Cursor \in Nat /\ SlotWord \in Nat
      /\ U32 > 0 /\ Line > 0 /\ SegHdr > 0 /\ RecHdr > 0 /\ RecAlign > 0 /\ Cursor > 0 /\ SlotWord > 0
      /\ U64 = U32 * U32 /\ U32 % Line = 0 /\ RecHdr < Line /\ SlotWord < Line /\ 2 * Cursor + RecAlign <= U32
  BY LayoutAssumption
<1>2. Line <= U32
  <2>1. U32 < Line => U32 % Line = U32
    BY <1>1
  <2> QED BY <1>1, <2>1
<1>3. 2 <= U32
  BY <1>1, <1>2
<1>4. 2 * U32 <= U32 * U32 /\ 3 * U32 < U32 * U32 + 3
  <2>1. PICK d \in Nat : U32 = d + 2
    <3>1. U32 - 2 \in Nat /\ U32 = (U32 - 2) + 2
      BY <1>1, <1>3
    <3> QED BY <3>1
  <2>2. (d + 2) * (d + 2) = d * d + 4 * d + 4
    OBVIOUS
  <2>3. d * d \in Nat /\ d <= d * d
    OBVIOUS
  <2> QED BY <2>1, <2>2, <2>3
<1> QED BY <1>1, <1>2, <1>3, <1>4

\* align_up rounds up, to a multiple, while the sum stays inside 64 bits.
LEMMA AlignUp ==
    ASSUME NEW v \in Nat, NEW a \in Nat, a > 0, v + a - 1 < U64
    PROVE  /\ align_up(v, a) \in Nat /\ v <= align_up(v, a) /\ align_up(v, a) <= v + a - 1
           /\ \E k \in Nat : align_up(v, a) = k * a
<1>1. PICK w \in Nat : w = v + a - 1
  OBVIOUS
<1>2. w % U64 = w
  BY <1>1, Widths
<1>3. w % a \in 0 .. a - 1 /\ w \div a \in Nat /\ w = a * (w \div a) + (w % a)
  OBVIOUS
<1>4. align_up(v, a) = w - (w % a)
  BY <1>1, <1>2 DEF align_up
<1>5. PICK r \in 0 .. a - 1 : r = w % a
  BY <1>3
<1>6. PICK k \in Nat : k = w \div a
  BY <1>3
<1>7. align_up(v, a) = k * a
  <2>1. a * k = k * a /\ a * k \in Nat
    OBVIOUS
  <2>2. w = a * k + r
    BY <1>3, <1>5, <1>6
  <2>3. align_up(v, a) = w - r
    BY <1>4, <1>5
  <2> QED BY <2>1, <2>2, <2>3
<1>8. align_up(v, a) = v + a - 1 - r
  BY <1>1, <1>4, <1>5
<1> QED BY <1>7, <1>8

\* A stride is a number of whole lines, also when it wraps around 32 bits.
LEMMA Strides ==
    ASSUME NEW m \in 0 .. U32 - 1
    PROVE  /\ record_stride_for(m) \in Nat /\ record_stride_for(m) + Line <= U32
           /\ RecHdr + m + Line <= U32 => RecHdr + m <= record_stride_for(m)
<1>1. RecHdr + m \in Nat /\ RecHdr + m + Line - 1 < U64
  BY Widths
<1>2. PICK x \in Nat : x = align_up(RecHdr + m, Line) /\ RecHdr + m <= x /\ x <= RecHdr + m + Line - 1 /\ \E k \in Nat : x = k * Line
  BY <1>1, Widths, AlignUp
<1>3. PICK k \in Nat : x = k * Line
  BY <1>2
<1>4. PICK n \in Nat : U32 = n * Line
  <2>1. U32 % Line = 0 /\ U32 \div Line \in Nat /\ U32 = Line * (U32 \div Line) + (U32 % Line)
    BY Widths, LayoutAssumption
  <2>2. PICK n \in Nat : n = U32 \div Line
    BY <2>1
  <2>3. U32 = n * Line
    BY <2>1, <2>2, Widths
  <2> QED BY <2>3
<1>5. PICK q \in Nat : x % U32 = x - U32 * q /\ x % U32 \in 0 .. U32 - 1
  <2>1. x \div U32 \in Nat /\ x = U32 * (x \div U32) + (x % U32) /\ x % U32 \in 0 .. U32 - 1
    BY Widths
  <2> QED BY <2>1, Widths
<1>6. x % U32 = (k - n * q) * Line
  BY <1>3, <1>4, <1>5, Widths
<1>7. PICK j \in Int : j = k - n * q
  OBVIOUS
<1>8. j * Line < n * Line /\ 0 <= j * Line
  BY <1>4, <1>5, <1>6, <1>7
<1>9. j + 1 <= n
  BY <1>7, <1>8, Widths
<1>10. (j + 1) * Line <= n * Line
  BY <1>7, <1>9, Widths
<1>11. (x % U32) + Line <= U32
  BY <1>4, <1>6, <1>7, <1>10, Widths
<1>12. record_stride_for(m) = x % U32
  BY <1>2 DEF record_stride_for
<1>13. RecHdr + m + Line <= U32 => x % U32 = x
  BY <1>2, Widths
<1> QED BY <1>2, <1>5, <1>11, <1>12, <1>13, Widths

LEMMA SizeInt ==
    ASSUME NEW k \in Nat, NEW s \in Nat
    PROVE  payload_size_for(k, s) \in Int
<1>1. PICK v \in Nat : v = 2 * Cursor + SlotWord * k
  <2>1. SlotWord * k \in Nat
    BY Widths
  <2> QED BY <2>1, Widths
<1>2. PICK w \in Nat : w = (v + RecAlign - 1) % U64
  BY Widths
<1>3. w - (w % RecAlign) \in Int /\ k * s \in Int
  BY Widths
<1>4. record_area_offset(k) \in Int
  BY <1>1, <1>2, <1>3 DEF record_area_offset, slot_meta_offset, align_up
<1>5. (record_area_offset(k) + k * s) % U64 \in Int
  BY <1>3, <1>4, Widths
<1> QED BY <1>5 DEF payload_size_for

\* A ring whose size does not wrap lies in order inside its payload.
LEMMA RingPlaced ==
    ASSUME NEW ring, ring.record_max \in Nat, ring.record_stride \in Nat,
           slot_meta_offset + SlotWord * ring.record_max + RecAlign
               + ring.record_max * ring.record_stride <= U64,
           NEW size \in Nat, payload_size_for(ring.record_max, ring.record_stride) # 0,
           payload_size_for(ring.record_max, ring.record_stride) <= size
    PROVE  /\ slot_header(0) >= 2 * Cursor
           /\ slot_header(ring.record_max - 1) + SlotWord <= record_bytes(ring, 0)
           /\ record_bytes(ring, ring.record_max - 1) + ring.record_stride <= size
<1>1. PICK n \in Nat : n = ring.record_max
  OBVIOUS
<1>2. PICK s \in Nat : s = ring.record_stride
  OBVIOUS
<1>3. PICK v \in Nat : v = 2 * Cursor + SlotWord * n
  <2>1. SlotWord * n \in Nat
    BY Widths
  <2> QED BY <2>1, Widths
<1>4. n * s \in Nat /\ v + RecAlign + n * s <= U64
  BY <1>1, <1>2, <1>3, Widths DEF slot_meta_offset
<1>5. PICK a \in Nat : a = align_up(v, RecAlign) /\ v <= a /\ a <= v + RecAlign - 1
  <2>1. v + RecAlign - 1 < U64
    BY <1>3, <1>4, Widths
  <2> QED BY <2>1, AlignUp, Widths
<1>6. record_area_offset(n) = a
  BY <1>3, <1>5 DEF record_area_offset, slot_meta_offset
<1>7. payload_size_for(n, s) = a + n * s
  <2>1. (a + n * s) % U64 = a + n * s
    BY <1>4, <1>5, Widths
  <2> QED BY <1>1, <1>2, <1>6, <2>1 DEF payload_size_for
<1>8. (n - 1) * s + s = n * s /\ (n - 1) * SlotWord + SlotWord = SlotWord * n /\ 0 * s = 0 /\ 0 * SlotWord = 0
  BY Widths
<1>9. slot_header(0) = 2 * Cursor
  BY <1>8, Widths DEF slot_header, slot_meta_offset
<1>10. slot_header(n - 1) + SlotWord = v
  BY <1>3, <1>8, Widths DEF slot_header, slot_meta_offset
<1>11. record_bytes(ring, 0) = a
  BY <1>1, <1>2, <1>6, <1>8 DEF record_bytes
<1>12. record_bytes(ring, n - 1) + s = a + n * s
  BY <1>1, <1>2, <1>6, <1>8 DEF record_bytes
<1> QED BY <1>1, <1>2, <1>5, <1>7, <1>9, <1>10, <1>11, <1>12, Widths

\* The size of a ring that initialize sets up does not wrap.
LEMMA RingSizes ==
    ASSUME NEW n \in 0 .. U32 - 1, NEW m \in 0 .. U32 - 1
    PROVE  slot_meta_offset + SlotWord * n + RecAlign + n * record_stride_for(m) <= U64
<1>1. PICK s \in Nat : s = record_stride_for(m) /\ s + Line <= U32
  BY Strides
<1>2. SlotWord + s <= U32 - 1
  BY <1>1, Widths
<1>3. n * (SlotWord + s) <= (U32 - 1) * (U32 - 1)
  <2>1. n * (SlotWord + s) <= n * (U32 - 1)
    BY <1>2, Widths
  <2>2. n * (U32 - 1) <= (U32 - 1) * (U32 - 1)
    BY Widths
  <2> QED BY <2>1, <2>2, Widths
<1>4. n * (SlotWord + s) = SlotWord * n + n * s /\ SlotWord * n \in Nat /\ n * s \in Nat
  BY Widths
<1>5. (U32 - 1) * (U32 - 1) = U64 - 2 * U32 + 1
  BY Widths
<1> QED BY <1>1, <1>3, <1>4, <1>5, Widths DEF slot_meta_offset

\* Options that create admits.
Admitted(o) ==
    /\ o.total_size >= (SegHdr + o.meta_size) % U64 /\ o.total_size <= MaxSeg
    /\ payload_offset_for(o.meta_size) <= o.total_size

\* The header create writes for them has natural numbers in it, and metadata
\* and payload in order.
LEMMA HeaderPlaced ==
    ASSUME NEW o \in Options, Admitted(o), NEW h, h = HeaderOf(o.name, o.total_size, o.meta_size, o.hmac)
    PROVE  /\ h.meta_offset \in Nat /\ h.meta_size \in Nat /\ h.payload_offset \in Nat /\ h.payload_size \in Nat
           /\ SegHdr + o.meta_size < U64 =>
                 /\ h.meta_offset >= SegHdr
                 /\ h.meta_offset + h.meta_size <= h.payload_offset
                 /\ h.payload_offset + h.payload_size <= o.total_size
<1>1. o.total_size \in Nat /\ o.meta_size \in Nat /\ o.total_size < U32
  BY AdmissionAssumption, Widths DEF Options, Admitted
<1>2. PICK t \in Nat : t = o.total_size
  BY <1>1
<1>3. PICK m \in Nat : m = o.meta_size
  BY <1>1
<1>4. payload_offset_for(m) \in Nat
  <2>1. PICK v \in Nat : v = (SegHdr + m) % U64
    BY Widths
  <2>2. PICK w \in Nat : w = (v + Line - 1) % U64
    BY Widths
  <2>3. w % Line \in 0 .. Line - 1 /\ (w % Line) <= w
    BY Widths
  <2>4. w - (w % Line) \in Nat
    BY <2>3
  <2> QED BY <2>1, <2>2, <2>4 DEF payload_offset_for, align_up
<1>5. PICK p \in Nat : p = payload_offset_for(m) /\ p <= t
  BY <1>2, <1>3, <1>4 DEF Admitted
<1>6. h.meta_offset = SegHdr /\ h.meta_size = m % U32 /\ h.payload_offset = p % U32 /\ h.payload_size = t - p
  BY <1>2, <1>3, <1>5 DEF HeaderOf
<1>7. p % U32 = p /\ m % U32 \in Nat
  BY <1>1, <1>2, <1>5, Widths
<1>8. ASSUME SegHdr + m < U64 PROVE SegHdr + (m % U32) <= p
  <2>1. (SegHdr + m) % U64 = SegHdr + m
    BY <1>8, Widths
  <2>2. SegHdr + m <= t
    BY <1>2, <1>3, <2>1 DEF Admitted
  <2>3. m % U32 = m /\ SegHdr + m + Line - 1 < U64
    BY <1>1, <1>2, <2>2, Widths
  <2>4. SegHdr + m <= align_up(SegHdr + m, Line)
    BY <2>3, AlignUp, Widths
  <2> QED BY <1>5, <2>1, <2>3, <2>4 DEF payload_offset_for
<1> QED BY <1>2, <1>3, <1>5, <1>6, <1>7, <1>8, Widths

-----------------------------------------------------------------------------
(* The inductive invariant *)

Labels == {"idle", "open", "write", "sign", "register", "ring", "join", "held", "unreg"}

\* Creating, while the segment is not registered.
Entering == {"open", "write", "sign", "register"}

Kinds == {"none", "look", "touch", "drop"}

Shapes ==
    /\ pc \in [Procs -> Labels] /\ DOMAIN opt = Procs /\ DOMAIN handle = Procs
    /\ jobs \in 0 .. MaxJobs /\ faults \in 0 .. MaxFaults

HeaderOK(h) ==
    /\ DOMAIN h = {"magic", "name", "hmac_enabled"} \cup HeaderWords /\ h = [k \in DOMAIN h |-> h[k]]
    /\ \A k \in HeaderWords : h[k] \in Nat

RingOK(ring) == DOMAIN ring = RingWords /\ \A k \in RingWords : ring[k] \in Nat

FileOK(f) ==
    /\ DOMAIN f = {"mapped", "ring", "hmac", "h", "by", "was"}
    /\ f.mapped \in 0 .. MaxSeg /\ HeaderOK(f.h) /\ HeaderOK(f.was) /\ RingOK(f.ring)

FilesInv == DOMAIN file = Names /\ \A n \in Names : file[n] = NoFile \/ FileOK(file[n])

\* What HeaderFits and RingFits say of one process.
HeaderFit(p) ==
    NoWrap(p) =>
        LET h == handle[p].h IN
        /\ h.meta_offset >= SegHdr
        /\ h.meta_offset + h.meta_size <= h.payload_offset
        /\ h.payload_offset + h.payload_size <= handle[p].mapped

RingFit(p) ==
    handle[p].ring # NoRing /\ NoWrap(p) /\ RingNoWrap(p) =>
        LET ring == handle[p].ring
            last == ring.record_max - 1
        IN  /\ slot_header(0) >= 2 * Cursor
            /\ slot_header(last) + SlotWord <= record_bytes(ring, 0)
            /\ record_bytes(ring, last) + ring.record_stride <= handle[p].h.payload_size
            /\ opt[p] # NoOpt /\ RecHdr + opt[p].max_payload + Line <= U32 =>
                  slot_capacity(ring) >= opt[p].max_payload

ProcOK(p) ==
    /\ opt[p] = NoOpt \/ (opt[p] \in Wants[p] /\ Admitted(opt[p]))
    /\ pc[p] \in Entering \cup {"ring", "join", "unreg"} => opt[p] # NoOpt
    /\ pc[p] \notin {"ring", "held"} => handle[p] = NoHandle
    /\ pc[p] \in {"ring", "held"} =>
          /\ DOMAIN handle[p] = {"name", "h", "mapped", "ring"} /\ HeaderOK(handle[p].h)
          /\ HeaderFit(p) /\ RingFit(p)

ProcsInv == \A p \in Procs : ProcOK(p)

EntrySet == [name : Names, total_size : 0 .. MaxSeg, hmac : BOOLEAN, back : BOOLEAN]

RegInv == IsFiniteSet(reg) /\ Cardinality(reg) <= NSlots /\ reg \subseteq EntrySet

\* What a janitor has listed was once registered.
JobSet == [kind : Kinds, name : Names \cup {"none"}, total_size : 0 .. MaxSeg, hmac : BOOLEAN]

JobInv == job \in [Janitors -> JobSet] /\ \A j \in Janitors : job[j].kind # "none" => job[j].name \in Names

\* Segments of a namespace that creates listed, and creates that may add one.
Entries(ns) == {e \in Fresh : Namespace[e.name] = ns}
Pending(ns) == {p \in Procs : pc[p] \in Entering /\ Namespace[opt[p].name] = ns}

SpaceInv ==
    \A ns \in Allowed :
        Cardinality(Entries(ns)) + Cardinality(Pending(ns)) <= MaxNs + Cardinality(Creators) - 1

Inv == Shapes /\ FilesInv /\ ProcsInv /\ RegInv /\ JobInv /\ SpaceInv

-----------------------------------------------------------------------------
(* Lemmas *)

LEMMA OptFacts ==
    ASSUME NEW p \in Procs, NEW o \in Wants[p]
    PROVE  o \in Options /\ o # NoOpt /\ o.name \in Names /\ p \in Creators
<1>1. o \in Options
  BY AdmissionAssumption
<1>2. o.name \in Names /\ NoOpt.name = "none"
  BY <1>1 DEF Options, NoOpt
<1> QED BY <1>1, <1>2, AdmissionAssumption DEF Creators

\* What create and initialize write.
LEMMA WrittenOK ==
    /\ HeaderOK(ZeroHeader) /\ RingOK(NoRing)
    /\ \A o \in Options : Admitted(o) => HeaderOK(HeaderOf(o.name, o.total_size, o.meta_size, o.hmac))
    /\ \A o \in Options : RingOK(RingFor(o.record_max, o.max_payload))
<1>1. HeaderOK(ZeroHeader) /\ RingOK(NoRing)
  <2>1. ZeroHeader = [k \in DOMAIN ZeroHeader |-> ZeroHeader[k]]
    BY DEF ZeroHeader
  <2>2. DOMAIN ZeroHeader = {"magic", "name", "hmac_enabled"} \cup HeaderWords
    BY DEF ZeroHeader, HeaderWords
  <2>3. \A k \in HeaderWords : ZeroHeader[k] \in Nat
    <3>1. /\ ZeroHeader.total_size = 0 /\ ZeroHeader.meta_offset = 0 /\ ZeroHeader.meta_size = 0
          /\ ZeroHeader.payload_offset = 0 /\ ZeroHeader.payload_size = 0
      BY DEF ZeroHeader
    <3> QED BY <3>1 DEF HeaderWords
  <2>4. RingOK(NoRing)
    BY DEF RingOK, NoRing, RingWords
  <2> QED BY <2>1, <2>2, <2>3, <2>4 DEF HeaderOK
<1>2. ASSUME NEW o \in Options, Admitted(o)
      PROVE  HeaderOK(HeaderOf(o.name, o.total_size, o.meta_size, o.hmac))
  <2>1. PICK h : h = HeaderOf(o.name, o.total_size, o.meta_size, o.hmac)
    OBVIOUS
  <2>2. h.meta_offset \in Nat /\ h.meta_size \in Nat /\ h.payload_offset \in Nat /\ h.payload_size \in Nat
    BY <1>2, <2>1, HeaderPlaced
  <2>3. h.total_size \in Nat /\ DOMAIN h = {"magic", "name", "hmac_enabled"} \cup HeaderWords
    <3>1. o.total_size \in Nat
      BY Widths DEF Options
    <3>2. h.total_size = o.total_size
      BY <2>1 DEF HeaderOf
    <3> QED BY <2>1, <3>1, <3>2 DEF HeaderOf, HeaderWords
  <2>4. h = [k \in DOMAIN h |-> h[k]]
    BY <2>1 DEF HeaderOf
  <2>5. \A k \in HeaderWords : h[k] \in Nat
    BY <2>2, <2>3 DEF HeaderWords
  <2> QED BY <2>1, <2>3, <2>4, <2>5 DEF HeaderOK
<1>3. ASSUME NEW o \in Options PROVE RingOK(RingFor(o.record_max, o.max_payload))
  <2>1. o.record_max \in Nat /\ o.max_payload \in 0 .. U32 - 1
    BY Widths DEF Options
  <2>2. record_stride_for(o.max_payload) \in Nat
    BY <2>1, Strides
  <2> QED BY <2>1, <2>2 DEF RingFor, RingOK, RingWords
<1> QED BY <1>1, <1>2, <1>3

\* The options and the header of who creates.
LEMMA Creating ==
    ASSUME Inv, NEW p \in Procs, pc[p] \in Entering \cup {"ring", "join", "unreg"}
    PROVE  /\ opt[p] \in Wants[p] /\ Admitted(opt[p]) /\ opt[p] \in Options /\ opt[p] # NoOpt
           /\ opt[p].name \in Names /\ opt[p].total_size \in 0 .. MaxSeg /\ opt[p].hmac \in BOOLEAN
           /\ MyHeader(p) = HeaderOf(opt[p].name, opt[p].total_size, opt[p].meta_size, opt[p].hmac)
           /\ HeaderOK(MyHeader(p)) /\ p \in Creators
<1>1. opt[p] \in Wants[p] /\ Admitted(opt[p])
  BY DEF Inv, ProcsInv, ProcOK
<1>2. opt[p] \in Options /\ opt[p] # NoOpt /\ opt[p].name \in Names /\ p \in Creators
  BY <1>1, OptFacts
<1>3. opt[p].total_size \in 0 .. MaxSeg /\ opt[p].hmac \in BOOLEAN
  BY <1>1, <1>2, AdmissionAssumption DEF Options, Admitted
<1>4. MyHeader(p) = HeaderOf(opt[p].name, opt[p].total_size, opt[p].meta_size, opt[p].hmac)
  BY DEF MyHeader
<1>5. HeaderOK(MyHeader(p))
  BY <1>1, <1>2, <1>4, WrittenOK
<1> QED BY <1>1, <1>2, <1>3, <1>4, <1>5

\* A step of p.
Moves(p) ==
    /\ pc' \in [Procs -> Labels] /\ DOMAIN opt' = Procs /\ DOMAIN handle' = Procs
    /\ \A q \in Procs \ {p} : pc'[q] = pc[q] /\ opt'[q] = opt[q] /\ handle'[q] = handle[q]

\* Objects stay, go, or are in order.
Rewrites ==
    /\ DOMAIN file' = Names
    /\ \A n \in Names : file'[n] = file[n] \/ file'[n] = NoFile \/ FileOK(file'[n])

\* A step that admits nobody.
AdmitsNone == \A q \in Procs : pc'[q] \in Entering => pc[q] \in Entering /\ opt'[q] = opt[q]

LEMMA FilesStep == ASSUME Inv, Rewrites PROVE FilesInv'
BY DEF Inv, FilesInv, Rewrites

LEMMA UnlinkRewrites == ASSUME Inv, NEW n, Unlink(n) PROVE Rewrites
BY DEF Inv, FilesInv, Rewrites, Unlink

\* Processes that do not move stay as they are.
LEMMA ProcsStep ==
    ASSUME Inv, NEW p \in Procs, Moves(p), ProcOK(p)'
    PROVE  ProcsInv'
<1> SUFFICES ASSUME NEW q \in Procs PROVE ProcOK(q)'
  BY DEF ProcsInv
<1>1. CASE q = p
  BY <1>1
<1>2. CASE q # p
  <2>1. pc'[q] = pc[q] /\ opt'[q] = opt[q] /\ handle'[q] = handle[q]
    BY <1>2 DEF Moves
  <2>2. ProcOK(q)
    BY DEF Inv, ProcsInv
  <2>3. HeaderFit(q)' <=> HeaderFit(q)
    BY <2>1 DEF HeaderFit, NoWrap
  <2>4. RingFit(q)' <=> RingFit(q)
    BY <2>1 DEF RingFit, NoWrap, RingNoWrap
  <2> QED BY <2>1, <2>2, <2>3, <2>4 DEF ProcOK
<1> QED BY <1>1, <1>2

LEMMA SpaceNumbers ==
    ASSUME Inv, NEW ns
    PROVE  /\ IsFiniteSet(Entries(ns)) /\ Cardinality(Entries(ns)) \in Nat
           /\ IsFiniteSet(Pending(ns)) /\ Cardinality(Pending(ns)) \in Nat
           /\ IsFiniteSet(Creators) /\ Cardinality(Creators) \in Nat /\ MaxNs \in Nat
<1>1. Entries(ns) \subseteq reg /\ Pending(ns) \subseteq Procs /\ Creators \subseteq Procs /\ IsFiniteSet(reg)
  BY DEF Entries, Fresh, Pending, Creators, Inv, RegInv
<1> QED BY <1>1, FS_Subset, FS_CardinalityType, AdmissionAssumption

\* A step that gives no namespace an entry and admits nobody.
LEMMA SpaceShrinks ==
    ASSUME Inv, Fresh' \subseteq Fresh, AdmitsNone
    PROVE  SpaceInv'
<1>1. ASSUME NEW ns \in Allowed
      PROVE  Cardinality(Entries(ns))' + Cardinality(Pending(ns))' <= MaxNs + Cardinality(Creators) - 1
  <2>1. Entries(ns)' \subseteq Entries(ns)
    BY DEF Entries
  <2>2. Pending(ns)' \subseteq Pending(ns)
    BY DEF Pending, AdmitsNone
  <2>3. /\ Cardinality(Entries(ns))' \in Nat /\ Cardinality(Entries(ns)) \in Nat
        /\ Cardinality(Entries(ns))' <= Cardinality(Entries(ns))
    BY <2>1, SpaceNumbers, FS_Subset, FS_CardinalityType
  <2>4. /\ Cardinality(Pending(ns))' \in Nat /\ Cardinality(Pending(ns)) \in Nat
        /\ Cardinality(Pending(ns))' <= Cardinality(Pending(ns))
    BY <2>2, SpaceNumbers, FS_Subset, FS_CardinalityType
  <2>5. Cardinality(Entries(ns)) + Cardinality(Pending(ns)) <= MaxNs + Cardinality(Creators) - 1
    BY DEF Inv, SpaceInv
  <2>6. MaxNs \in Nat /\ Cardinality(Creators) \in Nat
    BY SpaceNumbers
  <2> QED BY <2>3, <2>4, <2>5, <2>6
<1> QED BY <1>1 DEF SpaceInv, Creators

LEMMA RegShrinks == ASSUME Inv, reg' \subseteq reg PROVE RegInv' /\ Fresh' \subseteq Fresh
<1>1. IsFiniteSet(reg) /\ Cardinality(reg) \in Nat /\ Cardinality(reg) <= NSlots /\ reg \subseteq EntrySet
  BY FS_CardinalityType DEF Inv, RegInv
<1>2. IsFiniteSet(reg') /\ Cardinality(reg') \in Nat /\ Cardinality(reg') <= Cardinality(reg)
  BY <1>1, FS_Subset, FS_CardinalityType
<1>3. NSlots \in Nat
  BY AdmissionAssumption
<1> QED BY <1>1, <1>2, <1>3 DEF RegInv, EntrySet, Fresh

LEMMA OthersLess == ASSUME NEW n PROVE Others(n) \subseteq reg
BY DEF Others

\* register_segment: the entry of that name makes place.
LEMMA Replaced ==
    ASSUME Inv, NEW n, HasRoom(Others(n)), NEW e \in EntrySet, reg' = Others(n) \cup {e}
    PROVE  RegInv'
<1>1. Others(n) \subseteq reg /\ IsFiniteSet(reg) /\ reg \subseteq EntrySet
  BY OthersLess DEF Inv, RegInv
<1>2. IsFiniteSet(Others(n)) /\ Cardinality(Others(n)) \in Nat /\ Cardinality(Others(n)) < NSlots
  BY <1>1, FS_Subset, FS_CardinalityType DEF HasRoom
<1>3. IsFiniteSet(reg') /\ Cardinality(reg') <= Cardinality(Others(n)) + 1 /\ Cardinality(reg') \in Nat
  BY <1>2, FS_AddElement, FS_CardinalityType
<1>4. NSlots \in Nat
  BY AdmissionAssumption
<1> QED BY <1>1, <1>2, <1>3, <1>4 DEF RegInv, EntrySet

\* A step of p that adds no entry and admits nobody.
LEMMA Quiet ==
    ASSUME Inv, NEW p \in Procs, Moves(p), ProcOK(p)', Rewrites, reg' \subseteq reg,
           UNCHANGED <<job, jobs, faults>>,
           pc'[p] \in Entering => pc[p] \in Entering /\ opt'[p] = opt[p]
    PROVE  Inv'
<1>1. Shapes' /\ JobInv'
  BY DEF Inv, Shapes, JobInv, Moves, JobSet, Kinds
<1>2. ProcsInv' /\ FilesInv'
  BY ProcsStep, FilesStep
<1>3. RegInv' /\ Fresh' \subseteq Fresh
  BY RegShrinks
<1>4. AdmitsNone
  BY DEF AdmitsNone, Moves
<1>5. SpaceInv'
  BY <1>3, <1>4, SpaceShrinks
<1> QED BY <1>1, <1>2, <1>3, <1>5 DEF Inv

\* A step that moves no process and adds nothing that a create listed.
LEMMA Unmoved ==
    ASSUME Inv, UNCHANGED <<pc, opt, handle>>, Rewrites, RegInv', Fresh' \subseteq Fresh, JobInv',
           jobs' \in 0 .. MaxJobs, faults' \in 0 .. MaxFaults
    PROVE  Inv'
<1>1. Shapes' /\ FilesInv'
  BY FilesStep DEF Inv, Shapes
<1>2. ProcsInv'
  BY DEF Inv, ProcsInv, ProcOK, HeaderFit, RingFit, NoWrap, RingNoWrap
<1>3. AdmitsNone
  BY DEF AdmitsNone
<1>4. SpaceInv'
  BY <1>3, SpaceShrinks
<1> QED BY <1>1, <1>2, <1>4 DEF Inv

LEMMA InitInv == Init => Inv
<1> SUFFICES ASSUME Init PROVE Inv
  OBVIOUS
<1>1. Shapes
  BY AdmissionAssumption DEF Init, Shapes, Labels
<1>2. FilesInv
  BY DEF Init, FilesInv
<1>3. ProcsInv
  BY DEF Init, ProcsInv, ProcOK, Entering
<1>4. JobInv
  <2>1. NoJob \in JobSet
    BY AdmissionAssumption DEF NoJob, JobSet, Kinds
  <2>2. NoJob.kind = "none"
    BY DEF NoJob
  <2> QED BY <2>1, <2>2 DEF Init, JobInv
<1>5. IsFiniteSet({}) /\ Cardinality({}) = 0
  BY FS_EmptySet
<1>6. RegInv
  BY <1>5, AdmissionAssumption DEF Init, RegInv
<1>7. SpaceInv
  <2> SUFFICES ASSUME NEW ns \in Allowed
               PROVE  Cardinality(Entries(ns)) + Cardinality(Pending(ns)) <= MaxNs + Cardinality(Creators) - 1
    BY DEF SpaceInv
  <2>1. Entries(ns) = {} /\ Pending(ns) = {}
    BY DEF Init, Entries, Fresh, Pending, Entering
  <2>2. Cardinality(Entries(ns)) = 0 /\ Cardinality(Pending(ns)) = 0
    BY <1>5, <2>1
  <2>3. MaxNs \in Nat /\ MaxNs > 0 /\ Cardinality(Creators) \in Nat
    <3>1. Creators \subseteq Procs
      BY DEF Creators
    <3> QED BY <3>1, FS_Subset, FS_CardinalityType, AdmissionAssumption
  <2> QED BY <2>2, <2>3
<1> QED BY <1>1, <1>2, <1>3, <1>4, <1>6, <1>7 DEF Inv

-----------------------------------------------------------------------------
(* Steps of create *)

LEMMA AdmitStep ==
    ASSUME Inv, NEW p \in Procs, NEW o \in Wants[p], Admit(p, o)
    PROVE  Inv'
<1>1. Shapes /\ ProcOK(p)
  BY DEF Inv, ProcsInv
<1>2. /\ Moves(p) /\ pc[p] = "idle" /\ pc'[p] = "open" /\ opt'[p] = o /\ handle'[p] = handle[p]
      /\ UNCHANGED <<file, reg, job, jobs, faults>>
  BY <1>1 DEF Admit, Goto, Moves, Shapes, Labels
<1>3. Admitted(o) /\ InNamespace(reg, Namespace[o.name]) < MaxNs
  BY DEF Admit, validate_create_security, Admitted
<1>4. ProcOK(p)'
  BY <1>1, <1>2, <1>3, OptFacts DEF ProcOK
<1>5. ProcsInv'
  BY <1>2, <1>4, ProcsStep
<1>6. Shapes' /\ FilesInv' /\ RegInv' /\ JobInv' /\ Fresh' = Fresh
  BY <1>1, <1>2 DEF Inv, Shapes, FilesInv, RegInv, JobInv, Moves, Fresh, JobSet, Kinds, EntrySet
<1>7. SpaceInv'
  <2> SUFFICES ASSUME NEW ns \in Allowed
               PROVE  Cardinality(Entries(ns))' + Cardinality(Pending(ns))' <= MaxNs + Cardinality(Creators) - 1
    BY DEF SpaceInv, Creators
  <2>1. Entries(ns)' = Entries(ns)
    BY <1>6 DEF Entries
  <2>2. Cardinality(Entries(ns)) + Cardinality(Pending(ns)) <= MaxNs + Cardinality(Creators) - 1
    BY DEF Inv, SpaceInv
  <2>3. CASE Namespace[o.name] # ns
    <3>1. Pending(ns)' = Pending(ns)
      BY <1>2, <2>3 DEF Pending, Moves, Entering
    <3> QED BY <2>1, <2>2, <3>1
  <2>4. CASE Namespace[o.name] = ns
    <3>1. Cardinality(Entries(ns)) < MaxNs
      <4>1. PICK all : all = {e \in reg : Namespace[e.name] = ns}
        OBVIOUS
      <4>2. Entries(ns) \subseteq all /\ IsFiniteSet(all)
        <5>1. all \subseteq reg /\ IsFiniteSet(reg)
          BY <4>1 DEF Inv, RegInv
        <5> QED BY <4>1, <5>1, FS_Subset DEF Entries, Fresh
      <4>3. Cardinality(all) < MaxNs
        BY <1>3, <2>4, <4>1 DEF InNamespace
      <4> QED BY <4>2, <4>3, FS_Subset, FS_CardinalityType, AdmissionAssumption
    <3>2. Pending(ns)' \subseteq Creators
      <4>1. \A q \in Procs : pc'[q] \in Entering => q \in Creators
        BY <1>5, OptFacts DEF ProcsInv, ProcOK
      <4> QED BY <4>1 DEF Pending, Creators
    <3>3. /\ Cardinality(Pending(ns))' <= Cardinality(Creators)
          /\ Cardinality(Pending(ns))' \in Nat /\ Cardinality(Creators) \in Nat
      BY <3>2, SpaceNumbers, FS_Subset, FS_CardinalityType
    <3>4. Cardinality(Entries(ns)) \in Nat /\ MaxNs \in Nat
      BY SpaceNumbers
    <3> QED BY <2>1, <3>1, <3>3, <3>4
  <2> QED BY <2>3, <2>4
<1> QED BY <1>5, <1>6, <1>7 DEF Inv

\* Where an operation ends.
LEMMA LeaveFacts ==
    ASSUME Inv, NEW p \in Procs, Leave(p)
    PROVE  Moves(p) /\ pc'[p] = "idle" /\ opt'[p] = NoOpt /\ handle'[p] = NoHandle /\ ProcOK(p)' /\ AdmitsNone
<1>1. Moves(p) /\ pc'[p] = "idle" /\ opt'[p] = NoOpt /\ handle'[p] = NoHandle
  BY DEF Leave, Goto, Moves, Inv, Shapes, Labels
<1>2. ProcOK(p)'
  BY <1>1 DEF ProcOK, Entering
<1> QED BY <1>1, <1>2 DEF AdmitsNone, Moves, Entering

LEMMA LeaveStep ==
    ASSUME Inv, NEW p \in Procs, Leave(p), Rewrites, reg' \subseteq reg, UNCHANGED <<job, jobs, faults>>
    PROVE  Inv'
<1>1. Moves(p) /\ ProcOK(p)' /\ pc'[p] = "idle"
  BY LeaveFacts
<1>2. pc'[p] \notin Entering
  BY <1>1 DEF Entering
<1> QED BY <1>1, <1>2, Quiet

\* A step of a create that goes on.
LEMMA GoesOn ==
    ASSUME Inv, NEW p \in Procs, pc[p] \in Entering, NEW l \in Entering \cup {"join"}, Goto(p, l),
           Rewrites, UNCHANGED <<reg, opt, handle, job, jobs, faults>>
    PROVE  Inv'
<1>1. Shapes /\ ProcOK(p)
  BY DEF Inv, ProcsInv
<1>2. Moves(p) /\ pc'[p] = l /\ opt'[p] = opt[p] /\ handle'[p] = handle[p]
  BY <1>1 DEF Goto, Moves, Shapes, Labels, Entering
<1>3. ProcOK(p)'
  BY <1>1, <1>2 DEF ProcOK, Entering
<1> QED BY <1>2, <1>3, Quiet

LEMMA OpenStep ==
    ASSUME Inv, NEW p \in Procs, Open(p)
    PROVE  Inv'
<1>1. pc[p] = "open" /\ pc[p] \in Entering /\ UNCHANGED <<reg, job, jobs, faults>>
  BY DEF Open, Entering
<1>2. opt[p].name \in Names /\ opt[p].total_size \in 0 .. MaxSeg
  BY <1>1, Creating
<1>3. CASE file[opt[p].name] = NoFile
  <2>1. PICK f : f = [mapped |-> opt[p].total_size, ring |-> NoRing, hmac |-> NoHmac,
                      h |-> ZeroHeader, by |-> p, was |-> ZeroHeader]
    OBVIOUS
  <2>2. file' = [file EXCEPT ![opt[p].name] = f] /\ Goto(p, "write") /\ UNCHANGED <<opt, handle>>
    BY <1>3, <2>1 DEF Open
  <2>3. FileOK(f)
    BY <1>2, <2>1, WrittenOK DEF FileOK
  <2>4. Rewrites
    BY <1>2, <2>2, <2>3 DEF Rewrites, Inv, FilesInv
  <2>5. "write" \in Entering
    BY DEF Entering
  <2> QED BY <1>1, <2>2, <2>4, <2>5, GoesOn
<1>4. CASE file[opt[p].name] # NoFile
  <2>1. file' = file /\ (Leave(p) \/ (Goto(p, "join") /\ UNCHANGED <<opt, handle>>))
    BY <1>4 DEF Open
  <2>2. Rewrites
    BY <2>1 DEF Rewrites, Inv, FilesInv
  <2> QED BY <1>1, <2>1, <2>2, LeaveStep, GoesOn
<1> QED BY <1>3, <1>4

LEMMA WriteStep ==
    ASSUME Inv, NEW p \in Procs, Write(p)
    PROVE  Inv'
<1>1. /\ pc[p] \in Entering /\ "sign" \in Entering /\ Goto(p, "sign")
      /\ UNCHANGED <<reg, opt, handle, job, jobs, faults>>
  BY DEF Write, Entering
<1>2. PICK n, w : n = opt[p].name /\ w = MyHeader(p)
  OBVIOUS
<1>3. n \in Names /\ HeaderOK(w)
  BY <1>1, <1>2, Creating
<1>4. CASE Mine(p)
  <2>1. file' = [file EXCEPT ![n].h = w] /\ FileOK(file[n])
    BY <1>2, <1>3, <1>4 DEF Write, Mine, Inv, FilesInv
  <2>2. file'[n] = [file[n] EXCEPT !.h = w] /\ \A m \in Names \ {n} : file'[m] = file[m]
    BY <1>3, <2>1 DEF Inv, FilesInv
  <2>3. FileOK(file'[n])
    BY <1>3, <2>1, <2>2 DEF FileOK
  <2>4. Rewrites
    BY <2>1, <2>2, <2>3 DEF Rewrites, Inv, FilesInv
  <2> QED BY <1>1, <2>4, GoesOn
<1>5. CASE ~Mine(p)
  <2>1. file' = file
    BY <1>5 DEF Write
  <2>2. Rewrites
    BY <2>1 DEF Rewrites, Inv, FilesInv
  <2> QED BY <1>1, <2>2, GoesOn
<1> QED BY <1>4, <1>5

LEMMA SignStep ==
    ASSUME Inv, NEW p \in Procs, sign_header_if_enabled(p)
    PROVE  Inv'
<1>1. pc[p] \in Entering /\ "register" \in Entering /\ UNCHANGED <<reg, job, jobs, faults>>
  BY DEF sign_header_if_enabled, Entering
<1>2. PICK n, w, s : n = opt[p].name /\ w = MyHeader(p) /\ s = signature_of(p)
  OBVIOUS
<1>3. n \in Names /\ HeaderOK(w)
  BY <1>1, <1>2, Creating
<1>4. CASE opt[p].hmac /\ key_of(p) = NoKey
  <2>1. Unlink(n) /\ Leave(p)
    BY <1>2, <1>4 DEF sign_header_if_enabled
  <2> QED BY <1>1, <2>1, UnlinkRewrites, LeaveStep
<1>5. CASE ~(opt[p].hmac /\ key_of(p) = NoKey)
  <2>1. /\ file' = IF Mine(p) THEN [file EXCEPT ![n].hmac = s, ![n].was = w] ELSE file
        /\ Goto(p, "register") /\ UNCHANGED <<opt, handle>>
    BY <1>2, <1>5 DEF sign_header_if_enabled
  <2>2. Rewrites
    <3>1. CASE Mine(p)
      <4>1. FileOK(file[n]) /\ DOMAIN file = Names
        BY <1>2, <1>3, <3>1 DEF Mine, Inv, FilesInv
      <4>2. file' = [file EXCEPT ![n].hmac = s, ![n].was = w]
        BY <2>1, <3>1
      <4>3. /\ file'[n] = [file[n] EXCEPT !.hmac = s, !.was = w]
            /\ DOMAIN file' = Names /\ \A m \in Names \ {n} : file'[m] = file[m]
        BY <1>3, <4>1, <4>2
      <4>4. FileOK(file'[n])
        BY <1>3, <4>1, <4>3 DEF FileOK
      <4> QED BY <4>3, <4>4 DEF Rewrites
    <3>2. CASE ~Mine(p)
      BY <2>1, <3>2 DEF Rewrites, Inv, FilesInv
    <3> QED BY <3>1, <3>2
  <2> QED BY <1>1, <2>1, <2>2, GoesOn
<1> QED BY <1>4, <1>5

LEMMA FailStep ==
    ASSUME Inv, NEW p \in Procs, CreateFails(p) \/ (Register(p) /\ ~HasRoom(Others(opt[p].name)))
    PROVE  Inv'
<1>1. Leave(p) /\ Unlink(opt[p].name) /\ UNCHANGED <<reg, job, jobs, faults>>
  BY DEF CreateFails, Register
<1> QED BY <1>1, UnlinkRewrites, LeaveStep

LEMMA RegisterStep ==
    ASSUME Inv, NEW p \in Procs, Register(p), HasRoom(Others(opt[p].name))
    PROVE  Inv'
<1>1. Shapes /\ ProcOK(p) /\ pc[p] = "register" /\ UNCHANGED <<file, opt, job, jobs, faults>>
  BY DEF Inv, ProcsInv, Register
<1>2. PICK n, h, o : n = opt[p].name /\ h = MyHeader(p) /\ o = opt[p]
  OBVIOUS
<1>3. /\ o \in Wants[p] /\ Admitted(o) /\ o \in Options /\ n \in Names /\ HeaderOK(h) /\ o # NoOpt
      /\ o.total_size \in 0 .. MaxSeg /\ o.hmac \in BOOLEAN /\ h = HeaderOf(o.name, o.total_size, o.meta_size, o.hmac)
  <2>1. pc[p] \in Entering
    BY <1>1 DEF Entering
  <2> QED BY <1>2, <2>1, Creating
<1>4. PICK e : e = [name |-> n, total_size |-> o.total_size, hmac |-> o.hmac, back |-> FALSE]
  OBVIOUS
<1>5. e \in EntrySet /\ e.name = n /\ reg' = Others(n) \cup {e}
  BY <1>2, <1>3, <1>4 DEF EntrySet, Register
<1>6. /\ handle' = [handle EXCEPT ![p] = [name |-> n, h |-> h, mapped |-> o.total_size, ring |-> NoRing]]
      /\ pc' = [pc EXCEPT ![p] = IF o.record_max = 0 THEN "held" ELSE "ring"]
  BY <1>2 DEF Register, Goto
<1>7. Moves(p) /\ pc'[p] \in {"held", "ring"} /\ opt'[p] = o
      /\ handle'[p] = [name |-> n, h |-> h, mapped |-> o.total_size, ring |-> NoRing]
  BY <1>1, <1>2, <1>6 DEF Shapes, Moves, Labels
<1>8. ProcOK(p)'
  <2>1. /\ handle'[p].h = h /\ handle'[p].mapped = o.total_size /\ handle'[p].ring = NoRing
        /\ DOMAIN handle'[p] = {"name", "h", "mapped", "ring"}
    BY <1>7
  <2>2. HeaderFit(p)'
    <3>1. SegHdr + o.meta_size < U64 =>
              /\ h.meta_offset >= SegHdr
              /\ h.meta_offset + h.meta_size <= h.payload_offset
              /\ h.payload_offset + h.payload_size <= o.total_size
      BY <1>3, HeaderPlaced
    <3>2. NoWrap(p)' => SegHdr + o.meta_size < U64
      BY <1>3, <1>7 DEF NoWrap
    <3> QED BY <2>1, <3>1, <3>2 DEF HeaderFit
  <2>3. RingFit(p)'
    BY <2>1 DEF RingFit
  <2> QED BY <1>3, <1>7, <2>1, <2>2, <2>3 DEF ProcOK
<1>9. ProcsInv'
  BY <1>7, <1>8, ProcsStep
<1>10. RegInv'
  BY <1>2, <1>5, Replaced
<1>11. Shapes' /\ FilesInv' /\ JobInv'
  BY <1>1, <1>7 DEF Inv, FilesInv, Shapes, Moves, JobInv, JobSet, Kinds
<1>12. SpaceInv'
  <2> SUFFICES ASSUME NEW ns \in Allowed
               PROVE  Cardinality(Entries(ns))' + Cardinality(Pending(ns))' <= MaxNs + Cardinality(Creators) - 1
    BY DEF SpaceInv, Creators
  <2>1. Cardinality(Entries(ns)) + Cardinality(Pending(ns)) <= MaxNs + Cardinality(Creators) - 1
    BY DEF Inv, SpaceInv
  <2>2. /\ IsFiniteSet(Entries(ns)) /\ IsFiniteSet(Pending(ns)) /\ Cardinality(Entries(ns)) \in Nat
        /\ Cardinality(Pending(ns)) \in Nat /\ MaxNs \in Nat /\ Cardinality(Creators) \in Nat
    BY SpaceNumbers
  <2>3. CASE Namespace[n] # ns
    <3>1. Entries(ns)' \subseteq Entries(ns)
      BY <1>5, <2>3 DEF Entries, Fresh, Others
    <3>2. Pending(ns)' = Pending(ns)
      BY <1>1, <1>2, <1>7, <2>3 DEF Pending, Moves, Entering
    <3>3. Cardinality(Entries(ns)') <= Cardinality(Entries(ns)) /\ Cardinality(Entries(ns)') \in Nat
      BY <2>2, <3>1, FS_Subset, FS_CardinalityType
    <3> QED BY <2>1, <2>2, <3>2, <3>3
  <2>4. CASE Namespace[n] = ns
    <3>1. Entries(ns)' \subseteq Entries(ns) \cup {e}
      BY <1>5, <2>4 DEF Entries, Fresh, Others
    <3>2. Pending(ns)' = Pending(ns) \ {p} /\ p \in Pending(ns)
      BY <1>1, <1>2, <1>7, <2>4 DEF Pending, Moves, Entering
    <3>3. IsFiniteSet(Entries(ns) \cup {e}) /\ Cardinality(Entries(ns) \cup {e}) <= Cardinality(Entries(ns)) + 1
      <4>1. PICK S : S = Entries(ns)
        OBVIOUS
      <4>2. IsFiniteSet(S) /\ Cardinality(S) \in Nat
        BY <2>2, <4>1
      <4>3. IsFiniteSet(S \cup {e}) /\ Cardinality(S \cup {e}) <= Cardinality(S) + 1
        BY ONLY <4>2, FS_AddElement
      <4> QED BY <4>1, <4>3
    <3>4. Cardinality(Entries(ns)') <= Cardinality(Entries(ns)) + 1 /\ Cardinality(Entries(ns)') \in Nat
      <4>1. /\ IsFiniteSet(Entries(ns)')
            /\ Cardinality(Entries(ns)') <= Cardinality(Entries(ns) \cup {e})
        BY <3>1, <3>3, FS_Subset
      <4> QED BY <2>2, <3>3, <4>1, FS_CardinalityType
    <3>5. Cardinality(Pending(ns)') = Cardinality(Pending(ns)) - 1
      BY <2>2, <3>2, FS_RemoveElement
    <3> QED BY <2>1, <2>2, <3>4, <3>5
  <2> QED BY <2>3, <2>4
<1> QED BY <1>9, <1>10, <1>11, <1>12 DEF Inv

LEMMA RingStep ==
    ASSUME Inv, NEW p \in Procs, InitRing(p), initializes(opt[p].record_max, opt[p].max_payload, handle[p].h)
    PROVE  Inv'
<1>1. Shapes /\ ProcOK(p) /\ pc[p] = "ring" /\ UNCHANGED <<reg, opt, job, jobs, faults>>
  BY DEF Inv, ProcsInv, InitRing
<1>2. opt[p] \in Options /\ opt[p] # NoOpt /\ opt[p].name \in Names
  BY <1>1, Creating
<1>3. PICK n : n = opt[p].name
  OBVIOUS
<1>4. PICK ring : ring = RingFor(opt[p].record_max, opt[p].max_payload)
  OBVIOUS
<1>5. RingOK(ring)
  BY <1>2, <1>4, WrittenOK
<1>6. /\ file' = IF Mine(p) THEN [file EXCEPT ![n].ring = ring] ELSE file
      /\ handle' = [handle EXCEPT ![p].ring = ring] /\ pc' = [pc EXCEPT ![p] = "held"]
  BY <1>3, <1>4 DEF InitRing, Goto
<1>7. Moves(p) /\ pc'[p] = "held" /\ handle'[p] = [handle[p] EXCEPT !.ring = ring] /\ opt'[p] = opt[p]
  BY <1>1, <1>6 DEF Shapes, Moves, Labels
<1>8. Rewrites
  <2>1. CASE Mine(p)
    <3>1. FileOK(file[n]) /\ DOMAIN file = Names /\ n \in Names
      BY <1>2, <1>3, <2>1 DEF Mine, Inv, FilesInv
    <3>2. file'[n] = [file[n] EXCEPT !.ring = ring] /\ DOMAIN file' = Names /\ \A m \in Names \ {n} : file'[m] = file[m]
      BY <1>6, <2>1, <3>1
    <3>3. FileOK(file'[n])
      BY <1>5, <3>1, <3>2 DEF FileOK
    <3> QED BY <3>2, <3>3 DEF Rewrites
  <2>2. CASE ~Mine(p)
    BY <1>6, <2>2 DEF Rewrites, Inv, FilesInv
  <2> QED BY <2>1, <2>2
<1>11. /\ DOMAIN handle'[p] = {"name", "h", "mapped", "ring"} /\ handle'[p].h = handle[p].h
       /\ handle'[p].mapped = handle[p].mapped /\ handle'[p].ring = ring /\ HeaderOK(handle[p].h) /\ HeaderFit(p)
  BY <1>1, <1>7 DEF ProcOK
<1>12. HeaderFit(p)'
  BY <1>7, <1>11 DEF HeaderFit, NoWrap
<1>13. RingFit(p)'
  <2>1. PICK size \in Nat : size = handle[p].h.payload_size
    BY <1>11 DEF HeaderOK, HeaderWords
  <2>2. PICK k \in 0 .. U32 - 1 : k = opt[p].record_max
    BY <1>2 DEF Options
  <2>3. PICK m \in 0 .. U32 - 1 : m = opt[p].max_payload
    BY <1>2 DEF Options
  <2>4. PICK s \in Nat : s = record_stride_for(m)
    BY Strides
  <2>5. ring.record_max = k /\ ring.record_stride = s /\ k \in Nat
    BY <1>4, <2>2, <2>3, <2>4, Widths DEF RingFor
  <2>6. payload_size_for(k, s) # 0 /\ payload_size_for(k, s) <= size
    <3>1. payload_size_for(k, s) # 0 /\ size >= payload_size_for(k, s)
      BY <2>1, <2>2, <2>3, <2>4 DEF initializes
    <3>2. payload_size_for(k, s) \in Int
      BY <2>5, SizeInt
    <3> QED BY <3>1, <3>2
  <2>7. slot_meta_offset + SlotWord * k + RecAlign + k * s <= U64
    BY <2>4, RingSizes
  <2>8. /\ slot_header(0) >= 2 * Cursor
        /\ slot_header(ring.record_max - 1) + SlotWord <= record_bytes(ring, 0)
        /\ record_bytes(ring, ring.record_max - 1) + ring.record_stride <= size
    BY <2>5, <2>6, <2>7, RingPlaced
  <2>9. RecHdr + m + Line <= U32 => slot_capacity(ring) >= m
    <3>1. RecHdr + m + Line <= U32 => RecHdr + m <= s
      BY <2>4, Strides
    <3> QED BY <2>5, <3>1, Widths DEF slot_capacity
  <2> QED BY <1>7, <1>11, <2>1, <2>3, <2>8, <2>9 DEF RingFit
<1>14. ProcOK(p)'
  BY <1>1, <1>7, <1>11, <1>12, <1>13 DEF ProcOK, Entering
<1>15. pc'[p] \notin Entering
  BY <1>7 DEF Entering
<1> QED BY <1>1, <1>7, <1>8, <1>14, <1>15, Quiet

\* The unlinks of destroy and of the last reset, and the unregisters.
LEMMA ResetStep ==
    ASSUME Inv, NEW p \in Procs,
           ResetLast(p) \/ (InitRing(p) /\ ~initializes(opt[p].record_max, opt[p].max_payload, handle[p].h))
    PROVE  Inv'
<1>1. /\ Shapes /\ ProcOK(p) /\ UNCHANGED <<reg, opt, job, jobs, faults>> /\ Unlink(opt[p].name)
      /\ pc[p] \in {"ring", "held"} /\ opt[p] # NoOpt
      /\ handle' = [handle EXCEPT ![p] = NoHandle] /\ pc' = [pc EXCEPT ![p] = "unreg"]
  BY DEF Inv, ProcsInv, ProcOK, ResetLast, InitRing, Goto
<1>2. Moves(p) /\ pc'[p] = "unreg" /\ opt'[p] = opt[p] /\ handle'[p] = NoHandle
  BY <1>1 DEF Shapes, Moves, Labels
<1>3. ProcOK(p)'
  BY <1>1, <1>2 DEF ProcOK
<1>4. pc'[p] \notin Entering
  BY <1>2 DEF Entering
<1>5. Rewrites
  BY <1>1, UnlinkRewrites
<1> QED BY <1>1, <1>2, <1>3, <1>4, <1>5, Quiet

LEMMA LeavesStep ==
    ASSUME Inv, NEW p \in Procs, Release(p) \/ Unregister(p)
    PROVE  Inv'
<1>1. Leave(p) /\ file' = file /\ reg' \subseteq reg /\ UNCHANGED <<job, jobs, faults>>
  BY OthersLess DEF Release, Unregister
<1>2. Rewrites
  BY <1>1 DEF Rewrites, Inv, FilesInv
<1> QED BY <1>1, <1>2, LeaveStep

-----------------------------------------------------------------------------
(* Steps of attach and of janitors, damage *)

LEMMA AttachStep ==
    ASSUME Inv, NEW p \in Procs, NEW n \in Names, NEW bind \in BOOLEAN, attach(p, n, bind)
    PROVE  Inv'
<1>1. /\ Shapes /\ ProcOK(p) /\ pc[p] \in {"idle", "join"} /\ handle[p] = NoHandle
      /\ reg' \subseteq reg /\ UNCHANGED <<file, job, jobs, faults>>
  BY DEF Inv, ProcsInv, ProcOK, attach, Swept
<1>2. Moves(p) /\ pc'[p] \in {"idle", "held"} /\ opt'[p] = NoOpt
  BY <1>1 DEF attach, Goto, Moves, Shapes, Labels
<1>3. ASSUME Accepts(p, n) /\ (bind => binds(file[n].ring, file[n].h))
      PROVE  ProcOK(p)'
  <2>1. PICK h : h = file[n].h
    OBVIOUS
  <2>2. PICK ring : ring = IF bind THEN file[n].ring ELSE NoRing
    OBVIOUS
  <2>3. FileOK(file[n]) /\ HeaderOK(h) /\ RingOK(ring)
    BY <1>3, <2>1, <2>2, WrittenOK DEF Inv, FilesInv, Accepts, FileOK
  <2>4. handle'[p] = [name |-> n, h |-> h, mapped |-> file[n].mapped, ring |-> ring] /\ pc'[p] = "held"
    BY <1>1, <1>3, <2>1, <2>2 DEF attach, Goto, Shapes
  <2>5. /\ DOMAIN handle'[p] = {"name", "h", "mapped", "ring"}
        /\ handle'[p].h = h /\ handle'[p].mapped = file[n].mapped /\ handle'[p].ring = ring
    BY <2>4
  <2>6. PICK off \in Nat : off = h.payload_offset
    BY <2>3 DEF HeaderOK, HeaderWords
  <2>7. PICK size \in Nat : size = h.payload_size
    BY <2>3 DEF HeaderOK, HeaderWords
  <2>8. HeaderFit(p)'
    <3>1. /\ h.meta_offset >= SegHdr /\ h.payload_offset >= h.meta_offset + h.meta_size
          /\ (off + size) % U64 <= file[n].mapped
      BY <1>3, <2>1, <2>6, <2>7 DEF Accepts, validate_header, meta_end, payload_end
    <3>2. h.meta_offset \in Nat /\ h.meta_size \in Nat
      BY <2>3 DEF HeaderOK, HeaderWords
    <3>3. NoWrap(p)' => off + size < U64
      BY <2>5, <2>6, <2>7 DEF NoWrap
    <3>4. NoWrap(p)' => off + size <= file[n].mapped
      BY <3>1, <3>3, Widths
    <3> QED BY <2>5, <2>6, <2>7, <3>1, <3>2, <3>4, Widths DEF HeaderFit
  <2>9. RingFit(p)'
    <3> SUFFICES ASSUME ring # NoRing, RingNoWrap(p)' PROVE RingFit(p)'
      BY <2>5 DEF RingFit
    <3>1. binds(ring, h)
      BY <1>3, <2>1, <2>2
    <3>2. ring.record_max \in Nat /\ ring.record_stride \in Nat
      BY <2>3 DEF RingOK, RingWords
    <3>3. /\ payload_size_for(ring.record_max, ring.record_stride) # 0
          /\ payload_size_for(ring.record_max, ring.record_stride) <= size
      <4>1. payload_size_for(ring.record_max, ring.record_stride) \in Int
        BY <3>2, SizeInt
      <4> QED BY <2>7, <3>1, <4>1 DEF binds
    <3>4. slot_meta_offset + SlotWord * ring.record_max + RecAlign + ring.record_max * ring.record_stride <= U64
      BY <1>2, <2>5 DEF RingNoWrap
    <3>5. /\ slot_header(0) >= 2 * Cursor
          /\ slot_header(ring.record_max - 1) + SlotWord <= record_bytes(ring, 0)
          /\ record_bytes(ring, ring.record_max - 1) + ring.record_stride <= size
      BY <3>2, <3>3, <3>4, RingPlaced
    <3> QED BY <1>2, <2>5, <2>7, <3>5 DEF RingFit
  <2> QED BY <1>2, <2>3, <2>4, <2>5, <2>8, <2>9 DEF ProcOK, Entering
<1>4. ASSUME ~(Accepts(p, n) /\ (bind => binds(file[n].ring, file[n].h)))
      PROVE  ProcOK(p)'
  <2>1. handle'[p] = NoHandle /\ pc'[p] = "idle"
    BY <1>1, <1>4 DEF attach, Goto, Shapes
  <2> QED BY <1>2, <2>1 DEF ProcOK, Entering
<1>5. Rewrites /\ pc'[p] \notin Entering
  BY <1>1, <1>2 DEF Rewrites, Inv, FilesInv, Entering
<1> QED BY <1>1, <1>2, <1>3, <1>4, <1>5, Quiet

\* Janitors change one job at a time.
LEMMA JobStep ==
    ASSUME Inv, NEW j \in Janitors, NEW r \in JobSet, job' = [job EXCEPT ![j] = r],
           r.kind # "none" => r.name \in Names
    PROVE  JobInv'
BY DEF Inv, JobInv

LEMMA NoJobOK == NoJob \in JobSet /\ NoJob.kind = "none"
BY AdmissionAssumption DEF NoJob, JobSet, Kinds

LEMMA DroppingOK ==
    ASSUME NEW n \in Names
    PROVE  Dropping(n) \in JobSet /\ Dropping(n).name = n
<1>1. 0 \in 0 .. MaxSeg
  BY AdmissionAssumption
<1> QED BY <1>1 DEF Dropping, JobSet, Kinds

LEMMA JanitorStep ==
    ASSUME Inv, NEW j \in Janitors, Janitor(j)
    PROVE  Inv'
<1>1. job \in [Janitors -> JobSet] /\ job[j] \in JobSet /\ (job[j].kind # "none" => job[j].name \in Names)
  BY DEF Inv, JobInv
<1>2. jobs \in 0 .. MaxJobs /\ faults \in 0 .. MaxFaults /\ MaxJobs \in Nat
  BY AdmissionAssumption DEF Inv, Shapes
<1>3. ASSUME file' = file PROVE Rewrites
  BY <1>3 DEF Rewrites, Inv, FilesInv
<1>4. CASE \E e \in reg : List(j, e)
  <2>1. PICK e \in reg : List(j, e)
    BY <1>4
  <2>2. PICK r : r = [kind |-> "look", name |-> e.name, total_size |-> e.total_size, hmac |-> e.hmac]
    OBVIOUS
  <2>3. r \in JobSet /\ r.name \in Names
    <3>1. e \in EntrySet
      BY DEF Inv, RegInv
    <3> QED BY <2>2, <3>1 DEF EntrySet, JobSet, Kinds
  <2>4. /\ job' = [job EXCEPT ![j] = r] /\ UNCHANGED <<file, reg, pc, opt, handle>>
        /\ jobs' \in 0 .. MaxJobs /\ faults' \in 0 .. MaxFaults
    BY <1>2, <2>1, <2>2 DEF List
  <2>5. JobInv'
    BY <2>3, <2>4, JobStep
  <2> QED BY <1>3, <2>4, <2>5, RegShrinks, Unmoved
<1>5. CASE \E n \in Names : destroy(j, n)
  <2>1. PICK n \in Names : destroy(j, n)
    BY <1>5
  <2>2. /\ job' = [job EXCEPT ![j] = Dropping(n)] /\ Unlink(n) /\ UNCHANGED <<reg, pc, opt, handle>>
        /\ jobs' \in 0 .. MaxJobs /\ faults' \in 0 .. MaxFaults
    BY <1>2, <2>1 DEF destroy
  <2>3. JobInv'
    BY <2>2, DroppingOK, JobStep
  <2> QED BY <2>2, <2>3, UnlinkRewrites, RegShrinks, Unmoved
<1>6. CASE Invalid(j) \/ Reclaim(j)
  <2>1. PICK n : n = job[j].name
    OBVIOUS
  <2>2. /\ job' = [job EXCEPT ![j] = Dropping(n)] /\ (file' = file \/ Unlink(n)) /\ job[j].kind = "look"
        /\ UNCHANGED <<reg, pc, opt, handle, jobs, faults>>
    BY <1>6, <2>1 DEF Invalid, Reclaim
  <2>3. JobInv'
    BY <1>1, <2>1, <2>2, DroppingOK, JobStep
  <2> QED BY <1>2, <1>3, <2>2, <2>3, UnlinkRewrites, RegShrinks, Unmoved
<1>7. CASE Drain(j)
  <2>1. PICK r : r = [job[j] EXCEPT !.kind = "touch"]
    OBVIOUS
  <2>2. job' = [job EXCEPT ![j] = r] /\ job[j].kind = "look" /\ UNCHANGED <<file, reg, pc, opt, handle, jobs, faults>>
    BY <1>1, <1>7, <2>1 DEF Drain
  <2>3. r \in JobSet /\ r.name \in Names
    BY <1>1, <2>1, <2>2 DEF JobSet, Kinds
  <2>4. JobInv'
    BY <2>2, <2>3, JobStep
  <2> QED BY <1>2, <1>3, <2>2, <2>4, RegShrinks, Unmoved
<1>8. CASE Skip(j) \/ Drop(j)
  <2>1. job' = [job EXCEPT ![j] = NoJob] /\ reg' \subseteq reg /\ UNCHANGED <<file, pc, opt, handle, jobs, faults>>
    BY <1>8, OthersLess DEF Skip, Drop
  <2>2. JobInv'
    BY <2>1, NoJobOK, JobStep
  <2> QED BY <1>2, <1>3, <2>1, <2>2, RegShrinks, Unmoved
<1>9. CASE update_registry_last_seen(j)
  <2>1. PICK n : n = job[j].name
    OBVIOUS
  <2>2. PICK e : e = [name |-> n, total_size |-> job[j].total_size, hmac |-> job[j].hmac, back |-> TRUE]
    OBVIOUS
  <2>3. /\ job' = [job EXCEPT ![j] = NoJob] /\ job[j].kind = "touch"
        /\ reg' = reg \/ (HasRoom(Others(n)) /\ reg' = Others(n) \cup {e})
        /\ UNCHANGED <<file, pc, opt, handle, jobs, faults>>
    BY <1>9, <2>1, <2>2 DEF update_registry_last_seen
  <2>4. e \in EntrySet /\ e.back
    BY <1>1, <2>1, <2>2, <2>3 DEF EntrySet, JobSet
  <2>5. RegInv' /\ Fresh' \subseteq Fresh
    <3>1. CASE reg' = reg
      BY <3>1, RegShrinks
    <3>2. CASE HasRoom(Others(n)) /\ reg' = Others(n) \cup {e}
      <4>1. RegInv'
        BY <2>4, <3>2, Replaced
      <4>2. Fresh' \subseteq Fresh
        BY <2>4, <3>2 DEF Fresh, Others
      <4> QED BY <4>1, <4>2
    <3> QED BY <2>3, <3>1, <3>2
  <2>6. JobInv'
    BY <2>3, NoJobOK, JobStep
  <2> QED BY <1>2, <1>3, <2>3, <2>5, <2>6, Unmoved
<1> QED BY <1>4, <1>5, <1>6, <1>7, <1>8, <1>9 DEF Janitor

LEMMA DamageStep ==
    ASSUME Inv, NEW w \in Faults, Damage(w)
    PROVE  Inv'
<1>1. PICK n \in Names : n = w.name
  BY AdmissionAssumption
<1>2. PICK f : f = file[n]
  OBVIOUS
<1>3. FileOK(f) /\ f # NoFile
  BY <1>1, <1>2 DEF Inv, FilesInv, Damage
<1>4. PICK g : g = [Changed(f, w.to) EXCEPT !.h = Changed(@, w.to), !.ring = Changed(@, w.to)]
  OBVIOUS
<1>5. file' = [file EXCEPT ![n] = g] /\ UNCHANGED <<pc, opt, handle, reg, job, jobs>>
  BY <1>1, <1>2, <1>4 DEF Damage
<1>6. FileOK(g)
  <2>1. /\ DOMAIN w.to \subseteq {"magic", "name", "hmac_enabled", "hmac"} \cup HeaderWords \cup RingWords
        /\ \A k \in DOMAIN w.to \cap (HeaderWords \cup RingWords) : w.to[k] \in Nat
    BY AdmissionAssumption, Widths
  <2>2. "h" \notin DOMAIN w.to /\ "ring" \notin DOMAIN w.to /\ "mapped" \notin DOMAIN w.to /\ "was" \notin DOMAIN w.to
    BY <2>1 DEF HeaderWords, RingWords
  <2>3. /\ DOMAIN g = DOMAIN f /\ g.mapped = f.mapped /\ g.was = f.was
        /\ g.h = Changed(f.h, w.to) /\ g.ring = Changed(f.ring, w.to)
    BY <1>3, <1>4, <2>2 DEF FileOK, Changed
  <2>4. HeaderOK(Changed(f.h, w.to))
    BY <1>3, <2>1 DEF FileOK, HeaderOK, Changed
  <2>5. RingOK(Changed(f.ring, w.to))
    BY <1>3, <2>1 DEF FileOK, RingOK, Changed
  <2> QED BY <1>3, <2>3, <2>4, <2>5 DEF FileOK
<1>7. Rewrites
  BY <1>5, <1>6 DEF Rewrites, Inv, FilesInv
<1>8. faults' \in 0 .. MaxFaults /\ jobs' \in 0 .. MaxJobs
  BY <1>5, AdmissionAssumption DEF Damage, Inv, Shapes
<1>9. RegInv' /\ Fresh' \subseteq Fresh /\ JobInv'
  BY <1>5, RegShrinks DEF Inv, JobInv, JobSet, Kinds
<1> QED BY <1>5, <1>7, <1>8, <1>9, Unmoved

LEMMA NextInv == Inv /\ [Next]_vars => Inv'
<1> SUFFICES ASSUME Inv, [Next]_vars PROVE Inv'
  OBVIOUS
<1>1. ASSUME NEW p \in Procs, Create(p) PROVE Inv'
  <2>1. CASE \E o \in Wants[p] : Admit(p, o)
    BY <2>1, AdmitStep
  <2>2. CASE Open(p)
    BY <2>2, OpenStep
  <2>3. CASE Write(p)
    BY <2>3, WriteStep
  <2>4. CASE sign_header_if_enabled(p)
    BY <2>4, SignStep
  <2>5. CASE CreateFails(p)
    BY <2>5, FailStep
  <2>6. CASE Register(p)
    BY <2>6, RegisterStep, FailStep
  <2>7. CASE InitRing(p)
    BY <2>7, RingStep, ResetStep
  <2> QED BY <1>1, <2>1, <2>2, <2>3, <2>4, <2>5, <2>6, <2>7 DEF Create
<1>2. ASSUME NEW p \in Procs, Leaves(p) PROVE Inv'
  BY <1>2, ResetStep, LeavesStep DEF Leaves
<1>3. ASSUME NEW p \in Procs, NEW n \in Names, NEW bind \in BOOLEAN, attach(p, n, bind) PROVE Inv'
  BY <1>3, AttachStep
<1>4. ASSUME NEW j \in Janitors, Janitor(j) PROVE Inv'
  BY <1>4, JanitorStep
<1>5. ASSUME NEW w \in Faults, Damage(w) PROVE Inv'
  BY <1>5, DamageStep
<1>6. CASE UNCHANGED vars
  BY <1>6 DEF vars, Inv, Shapes, FilesInv, ProcsInv, ProcOK, HeaderFit, RingFit, NoWrap, RingNoWrap,
     RegInv, JobInv, SpaceInv, Entries, Fresh, Pending
<1> QED BY <1>1, <1>2, <1>3, <1>4, <1>5, <1>6 DEF Next

LEMMA Invariance == Spec => []Inv
BY InitInv, NextInv, PTL DEF Spec

-----------------------------------------------------------------------------
(* Theorems *)

\* Programs, options, mapped sizes and the registry keep their types: the
\* table never has more entries than slots, however creates, attaches, janitors,
\* destroys and damage interleave.
THEOREM TypeCorrect == Spec => []TypeOK
<1>1. Inv => TypeOK
  <2> SUFFICES ASSUME Inv PROVE TypeOK
    OBVIOUS
  <2>1. pc \in [Procs -> {"idle", "open", "write", "sign", "register", "ring", "join", "held", "unreg"}]
    BY DEF Inv, Shapes, Labels
  <2>2. \A p \in Procs : opt[p] = NoOpt \/ opt[p] \in Wants[p]
    BY DEF Inv, ProcsInv, ProcOK
  <2>3. \A n \in Names : file[n] = NoFile \/ file[n].mapped \in 0 .. MaxSeg
    BY DEF Inv, FilesInv, FileOK
  <2>4. \A j \in Janitors : job[j].kind \in {"none", "look", "touch", "drop"}
    BY DEF Inv, JobInv, JobSet, Kinds
  <2> QED BY <2>1, <2>2, <2>3, <2>4 DEF TypeOK, Inv, Shapes, RegInv
<1> QED BY <1>1, Invariance, PTL

LEMMA HeldAt == ASSUME Inv, NEW p \in Held PROVE p \in Procs /\ HeaderFit(p) /\ RingFit(p)
BY DEF Held, Inv, Shapes, ProcsInv, ProcOK, Labels

\* For every size of header, line and machine word and for every size that
\* ShmManager::create admits, and whatever a damaged header says that
\* validate_header accepts: metadata and payload of a handle lie inside the
\* mapping, in order.  The only hypothesis is that the two sums the code does
\* not guard (header plus metadata in create, payload offset plus payload size
\* in validate_header) do not wrap around 64 bits.
THEOREM HeadersFit == Spec => []HeaderFits
<1>1. Inv => HeaderFits
  BY HeldAt DEF HeaderFits, HeaderFit
<1> QED BY <1>1, Invariance, PTL

\* Sequence words and records of every ring that MpscRing::initialize sets up
\* or MpscRing::bind accepts lie inside the payload and apart, and a record of
\* max_payload bytes fits into a slot.  For initialize it is proved that the
\* size of the ring cannot wrap; for a ring that bind finds it is assumed.
THEOREM RingsFit == Spec => []RingFits
<1>1. Inv => RingFits
  BY HeldAt DEF RingFits, RingFit
<1> QED BY <1>1, Invariance, PTL

\* Creates that overlap check the namespace quota on a list without each
\* other: for any number of processes and janitors, what creates have listed
\* exceeds it by one segment for each creating process but one, at most.  What
\* gc puts back when it touches an entry that is gone is not counted: nothing
\* bounds it but the table.
THEOREM NamespacesBounded == Spec => []NamespaceBounded
<1>1. Inv => NamespaceBounded
  <2> SUFFICES ASSUME Inv, NEW ns \in Allowed
               PROVE  InNamespace(Fresh, ns) <= MaxNs + Cardinality(Creators) - 1
    BY DEF NamespaceBounded
  <2>1. Cardinality(Entries(ns)) + Cardinality(Pending(ns)) <= MaxNs + Cardinality(Creators) - 1
    BY DEF Inv, SpaceInv
  <2>2. InNamespace(Fresh, ns) = Cardinality(Entries(ns))
    BY DEF InNamespace, Entries
  <2> QED BY <2>1, <2>2, SpaceNumbers
<1> QED BY <1>1, Invariance, PTL

-----------------------------------------------------------------------------
(* Signatures *)

\* The bytes that are signed.
LEMMA ImmutableBytes ==
    ASSUME NEW h
    PROVE  /\ \E T : Immutable(h) \in Seq(T)
           /\ Len(Immutable(h)) = 16
           /\ Immutable(h)[1] = h.magic /\ Immutable(h)[2] = h.hmac_enabled /\ Immutable(h)[3] = h.total_size
           /\ Immutable(h)[4] = h.payload_size /\ Immutable(h)[5] = h.meta_offset /\ Immutable(h)[6] = h.meta_size
           /\ Immutable(h)[7] = h.payload_offset /\ Immutable(h)[9] = <<h.name, 1>>
<1>1. PICK a : a = <<h.magic, h.hmac_enabled, h.total_size, h.payload_size, h.meta_offset, h.meta_size,
                     h.payload_offset, "creator">>
  OBVIOUS
<1>2. PICK b : b = [i \in 1 .. 8 |-> <<h.name, i>>]
  OBVIOUS
<1>3. /\ a[1] = h.magic /\ a[2] = h.hmac_enabled /\ a[3] = h.total_size /\ a[4] = h.payload_size
      /\ a[5] = h.meta_offset /\ a[6] = h.meta_size /\ a[7] = h.payload_offset /\ b[1] = <<h.name, 1>>
  BY <1>1, <1>2
<1>4. PICK T : T = {a[i] : i \in 1 .. 8} \cup {b[i] : i \in 1 .. 8}
  OBVIOUS
<1>5. a \in Seq(T) /\ Len(a) = 8
  <2>1. a = [i \in 1 .. 8 |-> a[i]]
    BY <1>1
  <2>2. \A i \in 1 .. 8 : a[i] \in T
    BY <1>4
  <2> QED BY <2>1, <2>2, IsSeq
<1>6. b \in Seq(T) /\ Len(b) = 8
  <2>1. b = [i \in 1 .. 8 |-> b[i]]
    BY <1>2
  <2>2. \A i \in 1 .. 8 : b[i] \in T
    BY <1>4
  <2> QED BY <2>1, <2>2, IsSeq
<1>7. PICK m : m = a \o b
  OBVIOUS
<1>8. 8 \in Nat
  OBVIOUS
<1>9. m \in Seq(T) /\ IsJoin(m, a, b, 8, 8)
  BY <1>5, <1>6, <1>7, <1>8, Joined
<1>10. Len(m) = 16 /\ \A i \in 1 .. 16 : m[i] = IF i <= 8 THEN a[i] ELSE b[i - 8]
  BY <1>9 DEF IsJoin
<1>11. m[9] = b[1] /\ \A i \in 1 .. 7 : m[i] = a[i]
  BY <1>10
<1>12. m = Immutable(h)
  BY <1>1, <1>2, <1>7 DEF Immutable
<1> QED BY <1>3, <1>9, <1>10, <1>11, <1>12

\* They cover every field of a header.
LEMMA ImmutableCovers ==
    ASSUME NEW h, NEW k, HeaderOK(h), HeaderOK(k), Immutable(h) = Immutable(k)
    PROVE  h = k
<1>1. /\ h.magic = k.magic /\ h.hmac_enabled = k.hmac_enabled /\ h.total_size = k.total_size
      /\ h.payload_size = k.payload_size /\ h.meta_offset = k.meta_offset /\ h.meta_size = k.meta_size
      /\ h.payload_offset = k.payload_offset /\ <<h.name, 1>> = <<k.name, 1>>
  BY ImmutableBytes
<1>2. h.name = k.name
  BY <1>1
<1>3. DOMAIN h = DOMAIN k /\ \A f \in DOMAIN h : h[f] = k[f]
  BY <1>1, <1>2 DEF HeaderOK, HeaderWords
<1> QED BY <1>3 DEF HeaderOK


\* Bytes that damage writes.
Raw(d) == \A i \in DOMAIN d : Len(d[i]) = 1

IsSigned(d, h) == Raw(d) \/ \E k : d = hmac_sha256(KeyBytes(k), Immutable(h))

\* Every object has the signature of the header it was signed with, or no
\* digest at all; and what a creator has written it finds again, as long as
\* the name is bound to its object.
OwnOK(p) ==
    pc[p] \in {"sign", "register"} /\ Mine(p) =>
        /\ file[opt[p].name].h = MyHeader(p)
        /\ pc[p] = "register" => file[opt[p].name].hmac = signature_of(p)

FileSigned(n) == file[n] = NoFile \/ IsSigned(file[n].hmac, file[n].was)

SignInv == (\A n \in Names : FileSigned(n)) /\ (\A p \in Procs : OwnOK(p))

\* A digest is no raw bytes.
LEMMA DigestNotRaw ==
    ASSUME NEW T, NEW m \in Seq(T), NEW k
    PROVE  ~Raw(hmac_sha256(KeyBytes(k), m))
<1>1. hmac_sha256(KeyBytes(k), m) = Hmac(KeyBytes(k), m)
  BY HmacStandard
<1>2. PICK x : hmac_sha256(KeyBytes(k), m) = Sha(x)
  BY <1>1 DEF Hmac
<1>3. 1 \in DOMAIN Sha(x) /\ Sha(x)[1] = <<"digest", 1, Blocks(Padded(x))>>
  BY Sizes DEF Sha
<1>4. Len(Sha(x)[1]) = 3
  BY <1>3
<1> QED BY <1>2, <1>3, <1>4 DEF Raw

\* Two signed headers, or one of them damaged.
LEMMA SignedSame ==
    ASSUME NEW d, NEW h, NEW was, NEW k, HeaderOK(h), HeaderOK(was), IsSigned(d, was),
           d = hmac_sha256(KeyBytes(k), Immutable(h))
    PROVE  h = was
<1>1. PICK S : Immutable(h) \in Seq(S)
  BY ImmutableBytes
<1>2. PICK T : Immutable(was) \in Seq(T)
  BY ImmutableBytes
<1>3. PICK W : W = S \cup T
  OBVIOUS
<1>4. Immutable(h) \in Seq(W) /\ Immutable(was) \in Seq(W)
  <2>1. S \subseteq W /\ T \subseteq W
    BY <1>3
  <2> QED BY <1>1, <1>2, <2>1, Widen
<1>5. ~Raw(d)
  BY <1>1, DigestNotRaw
<1>6. PICK j : d = hmac_sha256(KeyBytes(j), Immutable(was))
  BY <1>5 DEF IsSigned
<1>7. Immutable(h) = Immutable(was)
  BY <1>4, <1>6, SignatureBinds
<1> QED BY <1>7, ImmutableCovers

LEMMA InitSigned == Init => SignInv
BY DEF Init, SignInv, FileSigned, OwnOK

\* A step after which every signature is in order, and every creator that
\* still has its object finds it as it was.
LEMMA SignKept ==
    ASSUME SignInv, env' = env, \A n \in Names : file'[n] = file[n] \/ FileSigned(n)',
           \A p \in Procs : pc'[p] \in {"sign", "register"} =>
               \/ OwnOK(p)'
               \/ /\ pc'[p] = pc[p] /\ opt'[p] = opt[p]
                  /\ Mine(p)' => file'[opt[p].name] = file[opt[p].name]
    PROVE  SignInv'
<1>1. ASSUME NEW n \in Names PROVE FileSigned(n)'
  <2>1. FileSigned(n)
    BY DEF SignInv
  <2> QED BY <2>1 DEF FileSigned
<1>2. ASSUME NEW p \in Procs PROVE OwnOK(p)'
  <2> SUFFICES ASSUME pc'[p] \in {"sign", "register"}, Mine(p)', pc'[p] = pc[p], opt'[p] = opt[p],
                      file'[opt[p].name] = file[opt[p].name]
               PROVE  OwnOK(p)'
    BY DEF OwnOK
  <2>1. OwnOK(p) /\ Mine(p)
    BY DEF SignInv, Mine
  <2>2. MyHeader(p)' = MyHeader(p)
    BY DEF MyHeader
  <2>3. signature_of(p)' = signature_of(p)
    BY <2>2 DEF signature_of, key_of
  <2> QED BY <2>1, <2>2, <2>3 DEF OwnOK
<1> QED BY <1>1, <1>2 DEF SignInv

\* A step of q that changes no object but one that is its own, or goes.
LEMMA SignMoves ==
    ASSUME Inv, SignInv, NEW q \in Procs, Moves(q), env' = env, OwnOK(q)', NEW n,
           \A m \in Names \ {n} : file'[m] = file[m],
           n \in Names => file'[n] = NoFile \/ (file'[n].by = q /\ FileSigned(n)')
    PROVE  SignInv'
<1>1. ASSUME NEW m \in Names PROVE file'[m] = file[m] \/ FileSigned(m)'
  BY DEF FileSigned
<1>2. ASSUME NEW p \in Procs, pc'[p] \in {"sign", "register"}, p # q
      PROVE  /\ pc'[p] = pc[p] /\ opt'[p] = opt[p]
             /\ Mine(p)' => file'[opt[p].name] = file[opt[p].name]
  <2>1. pc'[p] = pc[p] /\ opt'[p] = opt[p]
    BY <1>2 DEF Moves
  <2>2. opt[p].name \in Names
    <3>1. pc[p] \in Entering
      BY <1>2, <2>1 DEF Entering
    <3> QED BY <3>1, Creating
  <2> QED BY <1>2, <2>1, <2>2 DEF Mine
<1> QED BY <1>1, <1>2, SignKept

\* A step of q that changes no object.
LEMMA SignQuiet ==
    ASSUME SignInv, NEW q \in Procs, Moves(q), env' = env, file' = file, pc'[q] \notin {"sign", "register"}
    PROVE  SignInv'
<1>1. ASSUME NEW p \in Procs, pc'[p] \in {"sign", "register"} PROVE pc'[p] = pc[p] /\ opt'[p] = opt[p]
  BY <1>1 DEF Moves
<1> QED BY <1>1, SignKept

LEMMA SignUnlink ==
    ASSUME Inv, SignInv, NEW q \in Procs, Moves(q), env' = env, NEW n, Unlink(n), pc'[q] \notin {"sign", "register"}
    PROVE  SignInv'
<1>1. OwnOK(q)'
  BY DEF OwnOK
<1>2. (\A m \in Names \ {n} : file'[m] = file[m]) /\ (n \in Names => file'[n] = NoFile)
  BY DEF Unlink, Inv, FilesInv
<1> QED BY <1>1, <1>2, SignMoves

LEMMA CreateSigned ==
    ASSUME Inv, SignInv, NEW p \in Procs, Create(p) \/ ResetLast(p)
    PROVE  SignInv'
<1>1. pc \in [Procs -> Labels] /\ DOMAIN file = Names /\ DOMAIN opt = Procs /\ DOMAIN handle = Procs
  BY DEF Inv, Shapes, FilesInv
<1>2. env' = env
  BY DEF Create, Admit, Open, Write, sign_header_if_enabled, CreateFails, Register, InitRing, ResetLast
<1>3. PICK n : n = opt[p].name
  OBVIOUS
<1>4. ASSUME NEW l \in Labels, Goto(p, l), opt' = opt, handle' = handle
      PROVE  Moves(p) /\ pc'[p] = l
  BY <1>1, <1>4 DEF Goto, Moves
<1>5. CASE \E o \in Wants[p] : Admit(p, o)
  <2>1. Moves(p) /\ pc'[p] = "open" /\ file' = file
    BY <1>1, <1>5 DEF Admit, Goto, Moves, Labels
  <2> QED BY <1>2, <2>1, SignQuiet
<1>6. ASSUME Leave(p), file' = file \/ Unlink(n) PROVE SignInv'
  <2>1. Moves(p) /\ pc'[p] = "idle"
    BY <1>6, LeaveFacts
  <2> QED BY <1>2, <1>6, <2>1, SignQuiet, SignUnlink
<1>7. CASE Open(p)
  <2>1. n \in Names
    BY <1>3, <1>7, Creating DEF Open, Entering
  <2>2. CASE file[n] = NoFile
    <3>1. PICK f : f = [mapped |-> opt[p].total_size, ring |-> NoRing, hmac |-> NoHmac,
                        h |-> ZeroHeader, by |-> p, was |-> ZeroHeader]
      OBVIOUS
    <3>2. file' = [file EXCEPT ![n] = f] /\ Goto(p, "write") /\ opt' = opt /\ handle' = handle
      BY <1>3, <1>7, <2>2, <3>1 DEF Open
    <3>3. Moves(p) /\ pc'[p] = "write"
      BY <1>4, <3>2 DEF Labels
    <3>4. f.by = p /\ f.hmac = NoHmac /\ Raw(NoHmac)
      BY <3>1 DEF Raw, NoHmac
    <3>5. file'[n] = f /\ \A m \in Names \ {n} : file'[m] = file[m]
      BY <1>1, <2>1, <3>2
    <3>6. FileSigned(n)' /\ file'[n].by = p
      BY <3>4, <3>5 DEF FileSigned, IsSigned
    <3>7. OwnOK(p)'
      BY <3>3 DEF OwnOK
    <3> QED BY <1>2, <3>3, <3>5, <3>6, <3>7, SignMoves
  <2>3. CASE file[n] # NoFile
    <3>1. file' = file /\ (Leave(p) \/ (Goto(p, "join") /\ opt' = opt /\ handle' = handle))
      BY <1>3, <1>7, <2>3 DEF Open
    <3>2. CASE Leave(p)
      BY <1>6, <3>1, <3>2
    <3>3. CASE ~Leave(p)
      <4>1. Moves(p) /\ pc'[p] = "join"
        BY <1>4, <3>1, <3>3 DEF Labels
      <4> QED BY <1>2, <3>1, <4>1, SignQuiet
    <3> QED BY <3>2, <3>3
  <2> QED BY <2>2, <2>3
<1>8. CASE Write(p)
  <2>1. pc[p] = "write" /\ Goto(p, "sign") /\ opt' = opt /\ handle' = handle
    BY <1>8 DEF Write
  <2>2. Moves(p) /\ pc'[p] = "sign" /\ n \in Names
    BY <1>3, <1>4, <2>1, Creating DEF Labels, Entering
  <2>3. CASE Mine(p)
    <3>1. PICK w : w = MyHeader(p)
      OBVIOUS
    <3>2. file' = [file EXCEPT ![n].h = w] /\ FileOK(file[n]) /\ file[n].by = p
      BY <1>3, <1>8, <2>2, <2>3, <3>1 DEF Write, Mine, Inv, FilesInv
    <3>3. file'[n] = [file[n] EXCEPT !.h = w] /\ \A m \in Names \ {n} : file'[m] = file[m]
      BY <1>1, <2>2, <3>2
    <3>4. file'[n].by = p /\ file'[n].h = w /\ file'[n].hmac = file[n].hmac /\ file'[n].was = file[n].was
      BY <3>2, <3>3 DEF FileOK
    <3>5. IsSigned(file[n].hmac, file[n].was)
      BY <1>3, <2>2, <2>3 DEF SignInv, FileSigned, Mine
    <3>6. FileSigned(n)'
      BY <3>4, <3>5 DEF FileSigned
    <3>7. OwnOK(p)'
      <4>1. MyHeader(p)' = w
        BY <2>1, <3>1 DEF MyHeader
      <4> QED BY <1>3, <2>1, <2>2, <3>4, <4>1 DEF OwnOK
    <3> QED BY <1>2, <2>2, <3>3, <3>4, <3>6, <3>7, SignMoves
  <2>4. CASE ~Mine(p)
    <3>1. file' = file
      BY <1>8, <2>4 DEF Write
    <3>2. ~Mine(p)'
      BY <2>1, <2>4, <3>1 DEF Mine
    <3>3. \A q \in Procs : pc'[q] \in {"sign", "register"} =>
            OwnOK(q)' \/ (pc'[q] = pc[q] /\ opt'[q] = opt[q])
      BY <2>2, <3>2 DEF OwnOK, Moves
    <3> QED BY <1>2, <3>1, <3>3, SignKept
  <2> QED BY <2>3, <2>4
<1>9. CASE sign_header_if_enabled(p)
  <2>1. CASE opt[p].hmac /\ key_of(p) = NoKey
    <3>1. Unlink(n) /\ Leave(p)
      BY <1>3, <1>9, <2>1 DEF sign_header_if_enabled
    <3> QED BY <1>6, <3>1
  <2>2. CASE ~(opt[p].hmac /\ key_of(p) = NoKey)
    <3>1. PICK w, s : w = MyHeader(p) /\ s = signature_of(p)
      OBVIOUS
    <3>2. /\ pc[p] = "sign" /\ Goto(p, "register") /\ opt' = opt /\ handle' = handle
          /\ file' = IF Mine(p) THEN [file EXCEPT ![n].hmac = s, ![n].was = w] ELSE file
      BY <1>3, <1>9, <2>2, <3>1 DEF sign_header_if_enabled
    <3>3. Moves(p) /\ pc'[p] = "register" /\ n \in Names
      BY <1>3, <1>4, <3>2, Creating DEF Labels, Entering
    <3>4. MyHeader(p)' = w /\ signature_of(p)' = s
      <4>1. MyHeader(p)' = MyHeader(p)
        BY <3>2 DEF MyHeader
      <4> QED BY <1>2, <3>1, <3>2, <4>1 DEF signature_of, key_of
    <3>5. CASE Mine(p)
      <4>1. FileOK(file[n]) /\ file[n].by = p /\ file[n].h = w
        BY <1>3, <3>1, <3>2, <3>3, <3>5 DEF Mine, Inv, FilesInv, SignInv, OwnOK
      <4>2. file' = [file EXCEPT ![n].hmac = s, ![n].was = w]
        BY <3>2, <3>5
      <4>3. file'[n] = [file[n] EXCEPT !.hmac = s, !.was = w] /\ \A m \in Names \ {n} : file'[m] = file[m]
        BY <1>1, <3>3, <4>2
      <4>4. file'[n].by = p /\ file'[n].h = w /\ file'[n].hmac = s /\ file'[n].was = w
        BY <4>1, <4>3 DEF FileOK
      <4>5. IsSigned(s, w)
        <5>1. s = hmac_sha256(KeyBytes(key_of(p)), Immutable(w)) \/ s = NoHmac
          BY <3>1 DEF signature_of
        <5>2. Raw(NoHmac)
          BY DEF Raw, NoHmac
        <5> QED BY <5>1, <5>2 DEF IsSigned
      <4>6. FileSigned(n)'
        BY <4>4, <4>5 DEF FileSigned
      <4>7. OwnOK(p)'
        BY <1>3, <3>2, <3>4, <4>4 DEF OwnOK
      <4> QED BY <1>2, <3>3, <4>3, <4>4, <4>6, <4>7, SignMoves
    <3>6. CASE ~Mine(p)
      <4>1. file' = file
        BY <3>2, <3>6
      <4>2. ~Mine(p)'
        BY <3>2, <3>6, <4>1 DEF Mine
      <4>3. \A q \in Procs : pc'[q] \in {"sign", "register"} =>
              OwnOK(q)' \/ (pc'[q] = pc[q] /\ opt'[q] = opt[q])
        BY <3>3, <4>2 DEF OwnOK, Moves
      <4> QED BY <1>2, <4>1, <4>3, SignKept
    <3> QED BY <3>5, <3>6
  <2> QED BY <2>1, <2>2
<1>10. CASE CreateFails(p)
  BY <1>3, <1>6, <1>10 DEF CreateFails
<1>11. CASE Register(p)
  <2>1. CASE HasRoom(Others(opt[p].name))
    <3>1. Moves(p) /\ pc'[p] \in {"held", "ring"} /\ file' = file
      BY <1>1, <1>11, <2>1 DEF Register, Goto, Moves, Labels
    <3> QED BY <1>2, <3>1, SignQuiet
  <2>2. CASE ~HasRoom(Others(opt[p].name))
    BY <1>3, <1>6, <1>11, <2>2 DEF Register
  <2> QED BY <2>1, <2>2
<1>12. CASE ResetLast(p) \/ (InitRing(p) /\ ~initializes(opt[p].record_max, opt[p].max_payload, handle[p].h))
  <2>1. Moves(p) /\ pc'[p] = "unreg" /\ Unlink(n)
    BY <1>1, <1>3, <1>12 DEF ResetLast, InitRing, Goto, Moves, Labels
  <2> QED BY <1>2, <2>1, SignUnlink
<1>13. CASE InitRing(p) /\ initializes(opt[p].record_max, opt[p].max_payload, handle[p].h)
  <2>1. PICK ring : ring = RingFor(opt[p].record_max, opt[p].max_payload)
    OBVIOUS
  <2>2. /\ pc[p] = "ring" /\ file' = IF Mine(p) THEN [file EXCEPT ![n].ring = ring] ELSE file
        /\ opt' = opt /\ handle' = [handle EXCEPT ![p].ring = ring] /\ Goto(p, "held")
    BY <1>3, <1>13, <2>1 DEF InitRing
  <2>3. Moves(p) /\ pc'[p] = "held"
    BY <1>1, <2>2 DEF Goto, Moves, Labels
  <2>4. CASE Mine(p)
    <3>1. n \in Names /\ FileOK(file[n]) /\ file[n].by = p
      BY <1>3, <2>2, <2>4, Creating DEF Mine, Inv, FilesInv
    <3>2. file'[n] = [file[n] EXCEPT !.ring = ring] /\ \A m \in Names \ {n} : file'[m] = file[m]
      BY <1>1, <2>2, <2>4, <3>1
    <3>3. file'[n].by = p /\ file'[n].hmac = file[n].hmac /\ file'[n].was = file[n].was
      BY <3>1, <3>2 DEF FileOK
    <3>4. IsSigned(file[n].hmac, file[n].was)
      BY <1>3, <2>4, <3>1 DEF SignInv, FileSigned, Mine
    <3>5. FileSigned(n)' /\ OwnOK(p)'
      BY <2>3, <3>3, <3>4 DEF FileSigned, OwnOK
    <3> QED BY <1>2, <2>3, <3>2, <3>3, <3>5, SignMoves
  <2>5. CASE ~Mine(p)
    BY <1>2, <2>2, <2>3, <2>5, SignQuiet
  <2> QED BY <2>4, <2>5
<1> QED BY <1>5, <1>7, <1>8, <1>9, <1>10, <1>11, <1>12, <1>13 DEF Create

\* Steps that move no process and at most unlink.
LEMMA UnmovedSigned ==
    ASSUME Inv, SignInv, UNCHANGED <<pc, opt, env>>, file' = file \/ \E n : Unlink(n)
    PROVE  SignInv'
<1>1. \A m \in Names : file'[m] = file[m] \/ file'[m] = NoFile
  BY DEF Unlink, Inv, FilesInv
<1>2. \A m \in Names : file'[m] = file[m] \/ FileSigned(m)'
  BY <1>1 DEF FileSigned
<1>3. ASSUME NEW p \in Procs, pc[p] \in {"sign", "register"}, Mine(p)' PROVE file'[opt[p].name] = file[opt[p].name]
  <2>1. opt[p].name \in Names
    BY <1>3, Creating DEF Entering
  <2> QED BY <1>1, <1>3, <2>1 DEF Mine
<1> QED BY <1>2, <1>3, SignKept

LEMMA DamageSigned ==
    ASSUME Inv, SignInv, NEW w \in Faults, Damage(w)
    PROVE  SignInv'
<1>1. PICK n \in Names : n = w.name
  BY AdmissionAssumption
<1>2. PICK f : f = file[n]
  OBVIOUS
<1>3. FileOK(f) /\ DOMAIN file = Names /\ IsSigned(f.hmac, f.was)
  BY <1>1, <1>2 DEF Inv, FilesInv, Damage, SignInv, FileSigned
<1>4. PICK g : g = [Changed(f, w.to) EXCEPT !.h = Changed(@, w.to), !.ring = Changed(@, w.to)]
  OBVIOUS
<1>5. file' = [file EXCEPT ![n] = g] /\ UNCHANGED <<pc, opt, env>>
  BY <1>1, <1>2, <1>4 DEF Damage
<1>6. (g.hmac = f.hmac \/ Raw(g.hmac)) /\ g.was = f.was
  <2>1. g.hmac = IF "hmac" \in DOMAIN w.to THEN w.to["hmac"] ELSE f.hmac
    BY <1>3, <1>4 DEF Changed, FileOK
  <2>2. "hmac" \in DOMAIN w.to => \A i \in DOMAIN w.to["hmac"] : Len(w.to["hmac"][i]) = 1
    BY AdmissionAssumption
  <2>3. "was" \notin DOMAIN w.to
    BY AdmissionAssumption DEF HeaderWords, RingWords
  <2>4. g.was = f.was
    BY <1>3, <1>4, <2>3 DEF Changed, FileOK
  <2> QED BY <2>1, <2>2, <2>4 DEF Raw
<1>7. \A m \in Names : file'[m] = file[m] \/ FileSigned(m)'
  BY <1>3, <1>5, <1>6 DEF FileSigned, IsSigned
<1>8. ASSUME NEW p \in Procs, pc[p] \in {"sign", "register"} PROVE file'[opt[p].name] = file[opt[p].name]
  <2>1. opt[p].name \in Names /\ opt[p].name # n
    BY <1>1, <1>8, Creating DEF Damage, Entering
  <2> QED BY <1>3, <1>5, <2>1
<1> QED BY <1>5, <1>7, <1>8, SignKept

LEMMA NextSigned == Inv /\ SignInv /\ [Next]_vars => SignInv'
<1> SUFFICES ASSUME Inv, SignInv, [Next]_vars PROVE SignInv'
  OBVIOUS
<1>1. ASSUME NEW p \in Procs, Create(p) PROVE SignInv'
  BY <1>1, CreateSigned
<1>2. ASSUME NEW p \in Procs, Leaves(p) PROVE SignInv'
  <2>1. CASE ResetLast(p)
    BY <2>1, CreateSigned
  <2>2. CASE Release(p) \/ Unregister(p)
    <3>1. Leave(p) /\ env' = env /\ file' = file
      BY <2>2 DEF Release, Unregister
    <3>2. Moves(p) /\ pc'[p] = "idle"
      BY <3>1, LeaveFacts
    <3> QED BY <3>1, <3>2, SignQuiet
  <2> QED BY <1>2, <2>1, <2>2 DEF Leaves
<1>3. ASSUME NEW p \in Procs, NEW n \in Names, NEW bind \in BOOLEAN, attach(p, n, bind) PROVE SignInv'
  <2>1. env' = env /\ file' = file
    BY <1>3 DEF attach
  <2>2. Moves(p) /\ pc'[p] \in {"idle", "held"}
    BY <1>3 DEF attach, Goto, Moves, Inv, Shapes, Labels
  <2> QED BY <2>1, <2>2, SignQuiet
<1>4. ASSUME NEW j \in Janitors, Janitor(j) PROVE SignInv'
  <2>1. UNCHANGED <<pc, opt, env>> /\ (file' = file \/ \E n : Unlink(n))
    BY <1>4 DEF Janitor, List, destroy, Invalid, Drain, Reclaim, Skip, Drop, update_registry_last_seen
  <2> QED BY <2>1, UnmovedSigned
<1>5. ASSUME NEW w \in Faults, Damage(w) PROVE SignInv'
  BY <1>5, DamageSigned
<1>6. CASE UNCHANGED vars
  BY <1>6, UnmovedSigned DEF vars
<1> QED BY <1>1, <1>2, <1>3, <1>4, <1>5, <1>6 DEF Next

LEMMA SignInvariance == Spec => []SignInv
BY InitSigned, NextSigned, Invariance, PTL DEF Spec

\* For every block, length and digest size and every key, header and message:
\* what sign_header_if_enabled stores is the HMAC-SHA256 of RFC 2104 and
\* FIPS 180-4, and as long as the name is bound to that object, whatever else
\* happens before it is registered.
THEOREM DigestsStandard == Spec => []DigestStandard
<1>1. Inv /\ SignInv => DigestStandard
  <2> SUFFICES ASSUME Inv, SignInv, NEW p \in Procs, pc[p] = "register", opt[p].hmac, Mine(p), NEW m,
                      m = Immutable(file[opt[p].name].h)
               PROVE  /\ file[opt[p].name].hmac = Hmac(KeyBytes(key_of(p)), m)
                      /\ \A n \in 0 .. Len(m) : sha256(SubSeq(m, 1, n)) = Sha(SubSeq(m, 1, n))
    BY DEF DigestStandard
  <2>1. PICK T : m \in Seq(T)
    BY ImmutableBytes
  <2>2. file[opt[p].name].hmac = hmac_sha256(KeyBytes(key_of(p)), m)
    BY DEF SignInv, OwnOK, signature_of
  <2>3. hmac_sha256(KeyBytes(key_of(p)), m) = Hmac(KeyBytes(key_of(p)), m)
    BY <2>1, HmacStandard
  <2>4. ASSUME NEW n \in 0 .. Len(m) PROVE sha256(SubSeq(m, 1, n)) = Sha(SubSeq(m, 1, n))
    <3>1. \A i \in 1 .. n : m[i] \in T
      BY <2>1
    <3>2. SubSeq(m, 1, n) \in Seq(T)
      BY <2>1, <3>1, SubSeqProperties
    <3> QED BY <3>2, Sha256Standard
  <2> QED BY <2>2, <2>3, <2>4
<1> QED BY <1>1, Invariance, SignInvariance, PTL

\* The header that was signed is the one an attach returns, if the entry says
\* that the segment is signed.
LEMMA AttachCaught ==
    ASSUME Inv, SignInv, NEW p \in Procs, NEW n \in Names, NEW bind \in BOOLEAN, attach(p, n, bind),
           NEW e \in reg', e.hmac, handle'[p] # handle[p], e.name = n
    PROVE  handle'[p].h = file[n].was
<1>1. Accepts(p, n) /\ handle'[p].h = file[n].h /\ e \in Swept
  BY DEF attach, Inv, Shapes
<1>2. file[n].h.hmac_enabled
  BY <1>1 DEF Accepts, registry_expects_hmac
<1>3. file[n].hmac = hmac_sha256(KeyBytes(key_of(p)), Immutable(file[n].h))
  BY <1>1, <1>2 DEF Accepts, verify_header_hmac
<1>4. HeaderOK(file[n].h) /\ HeaderOK(file[n].was) /\ IsSigned(file[n].hmac, file[n].was)
  BY <1>1 DEF Accepts, Inv, FilesInv, FileOK, SignInv, FileSigned
<1> QED BY <1>1, <1>3, <1>4, SignedSame

LEMMA StepCaught ==
    ASSUME Inv, Inv', SignInv, Next, NEW p \in Procs, NEW e \in reg', pc[p] \in {"idle", "join"},
           e.hmac, handle[p] = NoHandle, handle'[p].name = e.name
    PROVE  handle'[p].h = file[e.name].was
<1>1. e.name \in Names /\ handle'[p] # NoHandle
  <2>1. NoHandle.name = "none"
    BY DEF NoHandle
  <2> QED BY <2>1, AdmissionAssumption DEF Inv, RegInv, EntrySet
<1>2. pc \in [Procs -> Labels] /\ DOMAIN handle = Procs
  BY DEF Inv, Shapes
<1>3. ASSUME NEW q \in Procs, NEW h, handle' = [handle EXCEPT ![q] = h] PROVE p = q /\ handle'[p] = h
  BY <1>1, <1>2, <1>3
<1>4. ASSUME NEW q \in Procs, handle' = [handle EXCEPT ![q] = NoHandle] PROVE FALSE
  BY <1>1, <1>3, <1>4
<1>5. ASSUME NEW q \in Procs, Create(q) \/ Leaves(q) PROVE FALSE
  <2>1. handle' # handle /\ handle' # [handle EXCEPT ![q] = NoHandle]
    BY <1>1, <1>4
  <2>2. Register(q) \/ InitRing(q)
    BY <1>5, <2>1 DEF Create, Leaves, Leave, Admit, Open, Write, sign_header_if_enabled, CreateFails,
       Release, ResetLast, Unregister
  <2>3. pc[q] \in {"register", "ring"}
    BY <2>2 DEF Register, InitRing
  <2>4. p # q
    BY <2>3
  <2>5. handle'[p] = handle[p]
    BY <1>2, <2>1, <2>2, <2>4 DEF Register, InitRing, Leave
  <2> QED BY <1>1, <2>5
<1>6. ASSUME NEW q \in Procs, NEW n \in Names, NEW bind \in BOOLEAN, attach(q, n, bind)
      PROVE  handle'[p].h = file[e.name].was
  <2>1. PICK h : h = [name |-> n, h |-> file[n].h, mapped |-> file[n].mapped,
                      ring |-> IF bind THEN file[n].ring ELSE NoRing]
    OBVIOUS
  <2>2. handle' = [handle EXCEPT ![q] = h]
    BY <1>1, <1>6, <2>1 DEF attach
  <2>3. p = q /\ handle'[p] = h
    BY <1>3, <2>2
  <2>4. e.name = n
    BY <2>1, <2>3
  <2> QED BY <1>1, <1>6, <2>3, <2>4, AttachCaught
<1>7. ASSUME handle' = handle PROVE FALSE
  BY <1>1, <1>7
<1>8. ASSUME NEW j \in Janitors, Janitor(j) PROVE FALSE
  BY <1>7, <1>8 DEF Janitor, List, destroy, Invalid, Drain, Reclaim, Skip, Drop, update_registry_last_seen
<1>9. ASSUME NEW w \in Faults, Damage(w) PROVE FALSE
  BY <1>7, <1>9 DEF Damage
<1> QED BY <1>5, <1>6, <1>8, <1>9 DEF Next

\* ShmManager::attach gives a handle to a segment that the registry lists as
\* signed only with the header that create signed: for all damage to header
\* and signature that computes no digest itself, all keys, and all orders of
\* creates, attaches, destroys, sweeps and damage.  The argument is that the
\* signed bytes cover every field, that registry_expects_hmac refuses a header
\* whose flag was cleared, and that two headers with one signature are the same.
THEOREM DamageIsCaught == Spec => DamageCaught
<1>1. Inv /\ Inv' /\ SignInv /\ [Next]_vars =>
        [\A p \in Procs, e \in reg' :
           /\ pc[p] \in {"idle", "join"} /\ handle[p] = NoHandle
           /\ e.hmac /\ handle'[p].name = e.name
           => handle'[p].h = file[e.name].was]_vars
  BY StepCaught
<1> QED BY <1>1, Invariance, SignInvariance, PTL DEF Spec, DamageCaught
=============================================================================
