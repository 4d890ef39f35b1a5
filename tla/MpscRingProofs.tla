--------------------------- MODULE MpscRingProofs ---------------------------
(***************************************************************************)
(* Proofs about MpscRing for every number of producers, slots, retries,    *)
(* payload sizes and pushes.  What rests on the sequence words has one     *)
(* restriction, record_max >= 2 (with a single slot the words of           *)
(* "published" and "free for the next position" coincide, see the run      *)
(* ring_one_slot); the accounting of lost records has none.                *)
(***************************************************************************)
EXTENDS MpscRing, SequenceTheorems, FiniteSetTheorems, TLAPS

-----------------------------------------------------------------------------
(* Slots of positions *)

\* Quotient and remainder of a position by record_max.
LEMMA DivMod ==
    ASSUME NEW N \in Nat \ {0}, NEW c \in Nat
    PROVE  /\ c \div N \in Nat
           /\ c % N \in 0 .. N - 1
           /\ c = N * (c \div N) + (c % N)
  OBVIOUS

\* The slot of a position is a slot.
LEMMA SlotType ==
    ASSUME NEW c \in Nat
    PROVE  slot_header(c) \in Slots
  BY DivMod, RingAssumption DEF slot_header, Slots

\* Positions that are record_max apart share their slot.
LEMMA SlotPeriodic ==
    ASSUME NEW c \in Nat
    PROVE  slot_header(c + RecordMax) = slot_header(c)
<1> DEFINE N == RecordMax
           k == (c + N) \div N - c \div N
           d == (c % N) - ((c + N) % N)
<1>1. N \in Nat \ {0} /\ c + N \in Nat
  BY RingAssumption
<1>2. k \in Int /\ d \in Int /\ -N < d /\ d < N /\ N * k = N + d
  BY <1>1, DivMod
<1> HIDE DEF k, d
<1>3. k = 1
  <2>1. CASE k <= 0
    BY <1>1, <1>2, <2>1
  <2>2. CASE k >= 2
    BY <1>1, <1>2, <2>2
  <2> QED BY <1>2, <2>1, <2>2
<1>4. d = 0
  BY <1>1, <1>2, <1>3
<1> QED BY <1>1, <1>4, DivMod DEF d, slot_header

\* Positions less than record_max apart do not.
LEMMA SlotInjective ==
    ASSUME NEW a \in Nat, NEW b \in Nat, a < b, b < a + RecordMax
    PROVE  slot_header(a) # slot_header(b)
<1> DEFINE N == RecordMax
           k == b \div N - a \div N
<1> SUFFICES ASSUME a % N = b % N PROVE FALSE
  BY DEF slot_header
<1>1. N \in Nat \ {0}
  BY RingAssumption
<1>2. k \in Int /\ b - a = N * k
  BY <1>1, DivMod
<1> HIDE DEF k
<1>3. CASE k <= 0
  BY <1>1, <1>2, <1>3
<1>4. CASE k >= 1
  BY <1>1, <1>2, <1>4
<1> QED BY <1>2, <1>3, <1>4

\* In a window of record_max positions every position has its own slot.
LEMMA Window ==
    ASSUME NEW f \in Nat, NEW a \in f .. f + RecordMax - 1,
           NEW b \in f .. f + RecordMax - 1, a # b
    PROVE  slot_header(a) # slot_header(b)
  BY SlotInjective, RingAssumption

-----------------------------------------------------------------------------
(* The inductive invariant *)

\* Positions whose slots have been given back; linearises try_pop.
F == Len(popped)

\* A thread in the claim loop has tries left, and a position that is not
\* ahead of tail; a CAS that can still succeed is on a free slot.
ClaimInv ==
    \A p \in Producers :
        /\ pos[p] <= tail
        /\ pc[p] # "idle" => rec[p] \in Record
        /\ pc[p] \in {"load_seq", "cas", "reload"} => retry[p] < RetryBudget
        /\ pc[p] = "cas" /\ pos[p] = tail => tail < F + RecordMax

\* head follows F, one behind between FreeSlot and AdvanceHead and for ever
\* after a crash there.
CursorInv ==
    /\ Len(claims) = tail
    /\ F <= tail /\ tail <= F + RecordMax
    /\ head = F \/ head + 1 = F
    /\ cpc = "advance" => cpos = head /\ head + 1 = F
    /\ cpc \in Reading =>
          cpos = F /\ head = F /\ F < tail /\ seq[slot_header(F)] = F + 1

\* The sequence words: claimed or published from F to tail, free from tail
\* on; none is behind a position that was ever offered.
SeqInv ==
    /\ \A c \in F .. tail - 1 : seq[slot_header(c)] \in {c, c + 1}
    /\ \A c \in tail .. F + RecordMax - 1 : seq[slot_header(c)] = c
    /\ \A c \in Nat : c < F + RecordMax => seq[slot_header(c)] >= c

\* Between its claim and its publish a producer owns its position.
WriterInv ==
    \A p \in Producers : pc[p] \in Writing =>
        /\ F <= pos[p] /\ pos[p] < tail
        /\ seq[slot_header(pos[p])] = pos[p]
        /\ rec[p] = claims[pos[p] + 1]
        /\ \A q \in Producers \ {p} : pc[q] \in Writing => pos[q] # pos[p]

\* What the slots hold while they are filled, published and read.
DataInv ==
    /\ \A p \in Producers :
          /\ pc[p] \in {"write_body", "publish"} =>
                hdr[slot_header(pos[p])] = StoredHeader(rec[p])
          /\ pc[p] = "publish" => body[slot_header(pos[p])] = rec[p].id
    /\ \A c \in F .. tail - 1 : seq[slot_header(c)] = c + 1 =>
          /\ hdr[slot_header(c)] = StoredHeader(claims[c + 1])
          /\ body[slot_header(c)] = claims[c + 1].id
    /\ cpc \in {"copy_header", "free_slot"} =>
          cout.payload = Delivered(claims[F + 1]).payload
    /\ cpc = "free_slot" => cout.header = Delivered(claims[F + 1]).header
    /\ \A i \in 1 .. F : popped[i] = Delivered(claims[i])

Inv == TypeOK /\ ClaimInv /\ CursorInv /\ SeqInv /\ WriterInv /\ DataInv

-----------------------------------------------------------------------------
(* The initial state *)

\* initialize establishes the invariant.
LEMMA InitInv == Init => Inv
<1> SUFFICES ASSUME Init PROVE Inv
  OBVIOUS
<1> USE RingAssumption
<1>1. F = 0
  BY DEF Init, F
<1>2. TypeOK
  BY DEF Init, TypeOK, Slots, NoPayload, NoHeader
<1>3. ClaimInv
  BY <1>1 DEF Init, ClaimInv
<1>4. CursorInv
  BY <1>1 DEF Init, CursorInv, Reading
<1>5. SeqInv
  <2>1. \A c \in 0 .. RecordMax - 1 : slot_header(c) = c
    BY DEF slot_header
  <2> QED BY <1>1, <2>1 DEF Init, SeqInv, Slots
<1>6. WriterInv
  BY DEF Init, WriterInv, Writing
<1>7. DataInv
  BY <1>1 DEF Init, DataInv
<1> QED BY <1>2, <1>3, <1>4, <1>5, <1>6, <1>7 DEF Inv

-----------------------------------------------------------------------------
(* Types *)

\* Id and size of a record are numbers.
LEMMA RecordType ==
    ASSUME NEW r \in Record
    PROVE  r.id \in Nat /\ r.size \in Nat
<1>1. r.id \in 1 .. MaxPush /\ r.size \in PayloadSizes
  BY Zenon DEF Record
<1>2. 1 .. MaxPush \subseteq Nat
  BY RingAssumption
<1> QED BY <1>1, <1>2, RingAssumption, Zenon

\* Storing a number into a sequence word keeps their type.
LEMMA SeqUpdate ==
    ASSUME NEW s \in [Slots -> Nat], NEW i, NEW v \in Nat
    PROVE  [s EXCEPT ![i] = v] \in [Slots -> Nat]
  OBVIOUS

\* Every step of producers and consumer keeps the types.
LEMMA TypeStep ==
    ASSUME TypeOK, ClaimInv, [Next]_vars
    PROVE  TypeOK'
<1> USE RingAssumption DEF TypeOK, Claiming, Writing, Reading
<1>1. ASSUME NEW p \in Producers, NEW size \in PayloadSizes, BeginPush(p, size)
      PROVE  TypeOK'
  BY <1>1 DEF BeginPush, ringVars, consVars, Record
<1>2. ASSUME NEW p \in Producers, LoadSeq(p) PROVE TypeOK'
  BY <1>2 DEF LoadSeq, ringVars, consVars
<1>3. ASSUME NEW p \in Producers, CasClaim(p) PROVE TypeOK'
  BY <1>3 DEF CasClaim, consVars, ClaimInv
<1>4. ASSUME NEW p \in Producers, CasFail(p) PROVE TypeOK'
  BY <1>4 DEF CasFail, NextTry, ringVars, consVars, ClaimInv
<1>5. ASSUME NEW p \in Producers, ReloadTail(p) PROVE TypeOK'
  BY <1>5 DEF ReloadTail, NextTry, ringVars, consVars, ClaimInv
<1>6. ASSUME NEW p \in Producers, Refuse(p) PROVE TypeOK'
  BY <1>6 DEF Refuse, consVars
<1>7. ASSUME NEW p \in Producers, WriteHeader(p) PROVE TypeOK'
  <2>1. StoredHeader(rec[p]) \in [user : Nat, len : Nat, truncated : BOOLEAN]
    <3>1. rec[p].id \in Nat /\ rec[p].size \in Nat
      BY <1>7, RecordType DEF WriteHeader, ClaimInv
    <3>2. Smaller(rec[p].size, SlotPayload) \in Nat
      BY <3>1 DEF Smaller
    <3>3. (rec[p].size > SlotPayload) \in BOOLEAN
      OBVIOUS
    <3> QED BY <3>1, <3>2, <3>3, Zenon DEF StoredHeader
  <2> QED BY <1>7, <2>1 DEF WriteHeader, consVars
<1>8. ASSUME NEW p \in Producers, WriteBody(p) PROVE TypeOK'
  <2>1. rec[p].id \in Nat
    BY <1>8, RecordType DEF WriteBody, ClaimInv
  <2> QED BY <1>8, <2>1 DEF WriteBody, consVars
<1>9. ASSUME NEW p \in Producers, Publish(p) PROVE TypeOK'
  <2>1. seq' \in [Slots -> Nat]
    <3>1. pos[p] + 1 \in Nat
      OBVIOUS
    <3> QED BY <1>9, <3>1, SeqUpdate, Zenon DEF Publish
  <2> QED BY <1>9, <2>1 DEF Publish, consVars
<1>10. ASSUME NEW p \in Producers, Crash(p) PROVE TypeOK'
  BY <1>10 DEF Crash, ringVars, consVars
<1>11. CASE PopReady
  BY <1>11 DEF PopReady, ringVars, prodVars
<1>12. CASE CopyPayload
  <2> DEFINE s == slot_header(cpos)
  <2>1. hdr[s] \in [user : Nat, len : Nat, truncated : BOOLEAN] /\ body[s] \in Nat
    BY SlotType
  <2>2. PayloadOut(hdr[s], body[s]) \in [data : Nat, payload_size : Nat, copied_size : Nat]
    BY <2>1 DEF PayloadOut, Smaller
  <2> QED BY <1>12, <2>2 DEF CopyPayload, ringVars, prodVars
<1>13. CASE CopyHeader
  <2> DEFINE s == slot_header(cpos)
  <2>1. HeaderOut(hdr[s]) \in [user : Nat, truncated : BOOLEAN]
    BY SlotType DEF HeaderOut
  <2> QED BY <1>13, <2>1 DEF CopyHeader, ringVars, prodVars
<1>14. CASE FreeSlot
  <2>1. seq' \in [Slots -> Nat]
    <3>1. cpos + RecordMax \in Nat
      OBVIOUS
    <3> QED BY <1>14, <3>1, SeqUpdate, Zenon DEF FreeSlot
  <2>2. popped' \in Seq([payload : [data : Nat, payload_size : Nat, copied_size : Nat],
                         header : [user : Nat, truncated : BOOLEAN]])
    BY <1>14 DEF FreeSlot
  <2> QED BY <1>14, <2>1, <2>2 DEF FreeSlot, prodVars
<1>15. CASE AdvanceHead
  BY <1>15 DEF AdvanceHead, prodVars
<1>16. CASE ConsumerCrash
  BY <1>16 DEF ConsumerCrash, ringVars, prodVars
<1>17. CASE UNCHANGED vars
  BY <1>17 DEF vars, ringVars, prodVars, consVars
<1> QED
  BY <1>1, <1>2, <1>3, <1>4, <1>5, <1>6, <1>7, <1>8, <1>9, <1>10, <1>11, <1>12,
     <1>13, <1>14, <1>15, <1>16, <1>17 DEF Next, ProducerStep, ConsumerStep

-----------------------------------------------------------------------------
(* The claim loop of try_push *)

\* The numbers the provers need to know to be integers.
LEMMA Numbers ==
    ASSUME TypeOK
    PROVE  /\ F \in Nat /\ head \in Nat /\ tail \in Nat /\ cpos \in Nat
           /\ RecordMax \in Nat \ {0}
           /\ \A p \in Producers : pos[p] \in Nat
           /\ seq \in [Slots -> Nat]
           /\ \A c \in Nat : slot_header(c) \in Slots /\ seq[slot_header(c)] \in Nat
<1>1. F \in Nat
  BY DEF TypeOK, F
<1>2. seq \in [Slots -> Nat] /\ pos \in [Producers -> Nat]
  BY DEF TypeOK
<1>3. \A c \in Nat : slot_header(c) \in Slots /\ seq[slot_header(c)] \in Nat
  BY <1>2, SlotType, Zenon
<1> QED BY <1>1, <1>2, <1>3, RingAssumption DEF TypeOK

\* Steps that touch no shared word and no producer in its slot.
LEMMA LoopFrame ==
    ASSUME Inv,
           UNCHANGED <<head, tail, seq, hdr, body, consVars, claims, popped>>,
           \A q \in Producers : pc'[q] \in Writing =>
               pc'[q] = pc[q] /\ pos'[q] = pos[q] /\ rec'[q] = rec[q]
    PROVE  CursorInv' /\ SeqInv' /\ WriterInv' /\ DataInv'
<1> USE DEF Inv
<1>1. F' = F
  BY DEF F
<1>2. CursorInv'
  BY <1>1 DEF CursorInv, consVars
<1>3. SeqInv'
  BY <1>1 DEF SeqInv
<1>4. WriterInv'
  BY <1>1 DEF WriterInv
<1>5. DataInv'
  <2>1. \A p \in Producers :
          /\ pc'[p] \in {"write_body", "publish"} =>
                hdr'[slot_header(pos'[p])] = StoredHeader(rec'[p])
          /\ pc'[p] = "publish" => body'[slot_header(pos'[p])] = rec'[p].id
    BY DEF DataInv, Writing
  <2> QED BY <1>1, <2>1 DEF DataInv, consVars
<1> QED BY <1>2, <1>3, <1>4, <1>5

\* A turn of the claim loop that does not claim keeps the invariant.
LEMMA LoopStep ==
    ASSUME RecordMax >= 2, Inv, TypeOK', NEW p \in Producers,
           \/ \E size \in PayloadSizes : BeginPush(p, size)
           \/ LoadSeq(p) \/ CasFail(p) \/ ReloadTail(p) \/ Refuse(p) \/ Crash(p)
    PROVE  Inv'
<1> USE DEF Inv
<1>0. pc \in [Producers -> {"idle"} \cup Claiming \cup Writing] /\ alive \subseteq Producers
      /\ pos \in [Producers -> Nat] /\ retry \in [Producers -> 0 .. RetryBudget]
      /\ rec \in [Producers -> Record \cup {NoRecord}]
  BY DEF TypeOK
<1>1. UNCHANGED <<head, tail, seq, hdr, body, consVars, claims, popped>>
  BY DEF BeginPush, LoadSeq, CasFail, ReloadTail, Refuse, Crash, ringVars
<1>2. \A q \in Producers : pc'[q] \in Writing =>
          pc'[q] = pc[q] /\ pos'[q] = pos[q] /\ rec'[q] = rec[q]
  BY <1>0 DEF BeginPush, LoadSeq, CasFail, ReloadTail, Refuse, Crash, NextTry, Writing
<1>3. F' = F
  BY <1>1 DEF F
<1>4. ClaimInv'
  <2> USE <1>0, Numbers
  <2>1. CASE \E size \in PayloadSizes : BeginPush(p, size)
    BY <1>0, <1>1, <1>3, <2>1, RingAssumption DEF BeginPush, ClaimInv, Record, TypeOK
  <2>2. CASE LoadSeq(p)
    <3>1. ASSUME seq[slot_header(pos[p])] - pos[p] = 0, pos[p] = tail
          PROVE  tail < F + RecordMax
      <4>0. F \in Nat /\ tail \in Nat /\ RecordMax \in Nat
        BY Numbers
      <4>1. SUFFICES ASSUME tail = F + RecordMax PROVE FALSE
        BY <4>0 DEF CursorInv
      <4>2. slot_header(tail) = slot_header(F)
        BY <4>1, SlotPeriodic
      <4>3. seq[slot_header(F)] \in {F, F + 1}
        BY <4>1 DEF SeqInv
      <4> QED BY <3>1, <4>1, <4>2, <4>3
    <3> QED BY <1>0, <1>1, <1>3, <2>2, <3>1 DEF LoadSeq, ClaimInv
  <2>3. CASE CasFail(p)
    BY <1>0, <1>1, <1>3, <2>3 DEF CasFail, NextTry, ClaimInv
  <2>4. CASE ReloadTail(p)
    BY <1>0, <1>1, <1>3, <2>4 DEF ReloadTail, NextTry, ClaimInv
  <2>5. CASE Refuse(p)
    BY <1>0, <1>1, <1>3, <2>5 DEF Refuse, ClaimInv
  <2>6. CASE Crash(p)
    BY <1>0, <1>1, <1>3, <2>6 DEF Crash, ClaimInv
  <2> QED BY <2>1, <2>2, <2>3, <2>4, <2>5, <2>6
<1> QED BY <1>1, <1>2, <1>4, LoopFrame

\* The compare-exchange on tail keeps the invariant: the slot claimed is free.
LEMMA ClaimStep ==
    ASSUME Inv, TypeOK', NEW p \in Producers, CasClaim(p)
    PROVE  Inv'
<1> USE DEF Inv
<1>0. /\ F \in Nat /\ head \in Nat /\ tail \in Nat /\ cpos \in Nat
      /\ RecordMax \in Nat \ {0}
      /\ \A q \in Producers : pos[q] \in Nat
      /\ \A c \in Nat : seq[slot_header(c)] \in Nat
  BY Numbers
<1>1. /\ tail = pos[p] /\ tail' = tail + 1 /\ tail < F + RecordMax
      /\ UNCHANGED <<head, seq, hdr, body, pos, retry, rec, cpc, cpos, cout, popped>>
      /\ \A q \in Producers : pc'[q] = IF q = p THEN "write_header" ELSE pc[q]
      /\ pc[p] = "cas"
  BY DEF CasClaim, ClaimInv, consVars, TypeOK
<1>2. F' = F
  BY <1>1 DEF F
<1>3. /\ Len(claims) = tail /\ Len(claims') = tail + 1
      /\ claims'[tail + 1] = rec[p]
      /\ \A i \in 1 .. tail : claims'[i] = claims[i]
  <2>1. claims \in Seq(Record) /\ claims' = Append(claims, rec[p]) /\ Len(claims) = tail
    BY DEF CasClaim, CursorInv, TypeOK
  <2> QED BY <2>1
<1>4. ClaimInv'
  BY <1>0, <1>1, <1>2 DEF ClaimInv
<1>5. CursorInv'
  BY <1>0, <1>1, <1>2, <1>3 DEF CursorInv
<1>6. seq[slot_header(tail)] = tail
  BY <1>0, <1>1 DEF SeqInv, CursorInv
<1>7. SeqInv'
  <2>1. \A c \in F .. tail : seq[slot_header(c)] \in {c, c + 1}
    BY <1>0, <1>6 DEF SeqInv
  <2>2. \A c \in tail + 1 .. F + RecordMax - 1 : seq[slot_header(c)] = c
    BY <1>0 DEF SeqInv
  <2> QED BY <1>0, <1>1, <1>2, <2>1, <2>2 DEF SeqInv
<1>8. WriterInv'
  <2> SUFFICES ASSUME NEW q \in Producers, pc'[q] \in Writing
               PROVE  /\ F <= pos[q] /\ pos[q] < tail + 1
                      /\ seq[slot_header(pos[q])] = pos[q]
                      /\ rec[q] = claims'[pos[q] + 1]
                      /\ \A r \in Producers \ {q} : pc'[r] \in Writing => pos[r] # pos[q]
    BY <1>1, <1>2 DEF WriterInv
  <2>1. \A r \in Producers : pc[r] \in Writing => pos[r] < tail
    BY DEF WriterInv
  <2>2. CASE q = p
    BY <1>0, <1>1, <1>3, <1>6, <2>1, <2>2 DEF CursorInv
  <2>3. CASE q # p
    <3>1. pc[q] \in Writing
      BY <1>1, <2>3
    <3>2. claims'[pos[q] + 1] = claims[pos[q] + 1]
      BY <1>0, <1>3, <2>1, <3>1
    <3> QED BY <1>0, <1>1, <2>1, <2>3, <3>1, <3>2 DEF WriterInv
  <2> QED BY <2>2, <2>3
<1>9. DataInv'
  <2>1. \A c \in F .. tail : seq[slot_header(c)] = c + 1 =>
            c \in F .. tail - 1 /\ claims'[c + 1] = claims[c + 1]
    BY <1>0, <1>3, <1>6
  <2>2. cpc \in Reading => claims'[F + 1] = claims[F + 1]
    BY <1>0, <1>3 DEF CursorInv
  <2>3. \A i \in 1 .. F : claims'[i] = claims[i]
    BY <1>0, <1>3 DEF CursorInv
  <2> QED BY <1>0, <1>1, <1>2, <2>1, <2>2, <2>3 DEF DataInv, Reading
<1> QED BY <1>4, <1>5, <1>7, <1>8, <1>9

-----------------------------------------------------------------------------
(* Filling and publishing the claimed slot *)

\* The slot of a writer is neither the slot of another writer nor that of a
\* published record.
LEMMA OwnSlot ==
    ASSUME Inv, NEW p \in Producers, pc[p] \in Writing
    PROVE  /\ \A q \in Producers \ {p} : pc[q] \in Writing =>
                  slot_header(pos[q]) # slot_header(pos[p])
           /\ \A c \in F .. F + RecordMax - 1 : c # pos[p] =>
                  slot_header(c) # slot_header(pos[p])
           /\ pos[p] \in F .. F + RecordMax - 1
<1> USE DEF Inv
<1>0. /\ F \in Nat /\ tail \in Nat /\ RecordMax \in Nat \ {0}
      /\ \A q \in Producers : pos[q] \in Nat
  BY Numbers
<1>1. \A q \in Producers : pc[q] \in Writing => pos[q] \in F .. F + RecordMax - 1
  BY <1>0 DEF WriterInv, CursorInv
<1>2. \A q \in Producers \ {p} : pc[q] \in Writing => pos[q] # pos[p]
  BY DEF WriterInv
<1> QED BY <1>0, <1>1, <1>2, Window

\* Writing header and bytes keeps the invariant: the slot is the writer's own.
LEMMA FillStep ==
    ASSUME Inv, TypeOK', NEW p \in Producers, WriteHeader(p) \/ WriteBody(p)
    PROVE  Inv'
<1> USE DEF Inv
<1>0. /\ F \in Nat /\ tail \in Nat /\ RecordMax \in Nat \ {0}
      /\ \A q \in Producers : pos[q] \in Nat
      /\ \A c \in Nat : slot_header(c) \in Slots
  BY Numbers
<1>1. /\ UNCHANGED <<head, tail, seq, pos, retry, rec, cpc, cpos, cout, claims, popped>>
      /\ pc[p] \in Writing /\ pc'[p] \in Writing
      /\ \A q \in Producers \ {p} : pc'[q] = pc[q]
      /\ \A q \in Producers : pc[q] \in Writing <=> pc'[q] \in Writing
  BY DEF WriteHeader, WriteBody, Writing, TypeOK, consVars
<1>2. F' = F
  BY <1>1 DEF F
<1>3. ClaimInv'
  BY <1>1, <1>2 DEF ClaimInv, Writing
<1>4. CursorInv' /\ SeqInv' /\ WriterInv'
  BY <1>1, <1>2 DEF CursorInv, SeqInv, WriterInv
<1>5. \A i \in Slots : i # slot_header(pos[p]) => hdr'[i] = hdr[i] /\ body'[i] = body[i]
  BY <1>0 DEF WriteHeader, WriteBody, TypeOK
<1>6. DataInv'
  <2>1. \A q \in Producers :
          /\ pc'[q] \in {"write_body", "publish"} =>
                hdr'[slot_header(pos[q])] = StoredHeader(rec[q])
          /\ pc'[q] = "publish" => body'[slot_header(pos[q])] = rec[q].id
    <3> SUFFICES ASSUME NEW q \in Producers, pc'[q] \in {"write_body", "publish"}
                 PROVE  /\ hdr'[slot_header(pos[q])] = StoredHeader(rec[q])
                        /\ pc'[q] = "publish" => body'[slot_header(pos[q])] = rec[q].id
      OBVIOUS
    <3>1. CASE q = p
      <4>1. CASE WriteHeader(p)
        BY <1>0, <3>1, <4>1 DEF WriteHeader, TypeOK
      <4>2. CASE WriteBody(p)
        BY <1>0, <3>1, <4>2 DEF WriteBody, TypeOK, DataInv
      <4> QED BY <4>1, <4>2
    <3>2. CASE q # p
      <4>1. pc'[q] = pc[q] /\ pc[q] \in Writing
        BY <1>1, <3>2 DEF Writing
      <4>2. slot_header(pos[q]) # slot_header(pos[p]) /\ slot_header(pos[q]) \in Slots
        BY <1>0, <1>1, <3>2, <4>1, OwnSlot
      <4> QED BY <1>5, <4>1, <4>2 DEF DataInv
    <3> QED BY <3>1, <3>2
  <2>2. \A c \in F .. tail - 1 : seq[slot_header(c)] = c + 1 =>
          /\ hdr'[slot_header(c)] = StoredHeader(claims[c + 1])
          /\ body'[slot_header(c)] = claims[c + 1].id
    <3> SUFFICES ASSUME NEW c \in F .. tail - 1, seq[slot_header(c)] = c + 1
                 PROVE  /\ hdr'[slot_header(c)] = StoredHeader(claims[c + 1])
                        /\ body'[slot_header(c)] = claims[c + 1].id
      OBVIOUS
    <3>1. c # pos[p]
      BY <1>0, <1>1 DEF WriterInv
    <3>2. c \in F .. F + RecordMax - 1 /\ c \in Nat
      BY <1>0 DEF CursorInv
    <3>3. slot_header(c) # slot_header(pos[p]) /\ slot_header(c) \in Slots
      BY <1>0, <1>1, <3>1, <3>2, OwnSlot
    <3> QED BY <1>5, <3>3 DEF DataInv
  <2> QED BY <1>1, <1>2, <2>1, <2>2 DEF DataInv
<1> QED BY <1>3, <1>4, <1>6

\* The release store of pos + 1 keeps the invariant: the slot holds the record.
LEMMA PublishStep ==
    ASSUME Inv, TypeOK', NEW p \in Producers, Publish(p)
    PROVE  Inv'
<1> USE DEF Inv
<1>0. /\ F \in Nat /\ head \in Nat /\ tail \in Nat /\ RecordMax \in Nat \ {0}
      /\ \A q \in Producers : pos[q] \in Nat
      /\ \A c \in Nat : slot_header(c) \in Slots /\ seq[slot_header(c)] \in Nat
  BY Numbers
<1>1. /\ UNCHANGED <<head, tail, hdr, body, pos, retry, rec, cpc, cpos, cout, claims, popped>>
      /\ pc[p] = "publish" /\ pc[p] \in Writing
      /\ \A q \in Producers : pc'[q] = IF q = p THEN "idle" ELSE pc[q]
  BY DEF Publish, Writing, TypeOK, consVars
<1>2. F' = F
  BY <1>1 DEF F
<1>3. /\ seq'[slot_header(pos[p])] = pos[p] + 1
      /\ \A i \in Slots : i # slot_header(pos[p]) => seq'[i] = seq[i]
  BY <1>0 DEF Publish, TypeOK
<1>4. /\ F <= pos[p] /\ pos[p] < tail /\ seq[slot_header(pos[p])] = pos[p]
      /\ rec[p] = claims[pos[p] + 1]
  BY <1>1 DEF WriterInv
<1>5. \A c \in F .. F + RecordMax - 1 : c # pos[p] => seq'[slot_header(c)] = seq[slot_header(c)]
  BY <1>0, <1>1, <1>3, OwnSlot
<1>6. F <= tail /\ tail <= F + RecordMax
  BY DEF CursorInv
<1>7. ClaimInv'
  BY <1>0, <1>1, <1>2 DEF ClaimInv
<1>8. CursorInv'
  <2>1. ASSUME cpc \in Reading
        PROVE  seq'[slot_header(F)] = F + 1
    <3>1. seq[slot_header(F)] = F + 1 /\ F < tail
      BY <2>1 DEF CursorInv
    <3>2. F # pos[p]
      BY <1>0, <1>4, <3>1
    <3>3. F \in F .. F + RecordMax - 1
      BY <1>0
    <3> QED BY <1>5, <3>1, <3>2, <3>3
  <2> QED BY <1>1, <1>2, <2>1 DEF CursorInv
<1>9. SeqInv'
  <2>1. \A c \in F .. tail - 1 : seq'[slot_header(c)] \in {c, c + 1}
    <3> SUFFICES ASSUME NEW c \in F .. tail - 1
                 PROVE  seq'[slot_header(c)] \in {c, c + 1}
      OBVIOUS
    <3>1. c \in F .. F + RecordMax - 1 /\ seq[slot_header(c)] \in {c, c + 1}
      BY <1>0, <1>6 DEF SeqInv
    <3> QED BY <1>3, <1>5, <3>1
  <2>2. \A c \in tail .. F + RecordMax - 1 : seq'[slot_header(c)] = c
    <3> SUFFICES ASSUME NEW c \in tail .. F + RecordMax - 1
                 PROVE  seq'[slot_header(c)] = c
      OBVIOUS
    <3>1. c \in F .. F + RecordMax - 1 /\ c # pos[p] /\ seq[slot_header(c)] = c
      BY <1>0, <1>4, <1>6 DEF SeqInv
    <3> QED BY <1>5, <3>1
  <2>3. \A c \in Nat : seq'[slot_header(c)] >= seq[slot_header(c)]
    BY <1>0, <1>3, <1>4
  <2>4. \A c \in Nat : c < F + RecordMax => seq'[slot_header(c)] >= c
    <3> SUFFICES ASSUME NEW c \in Nat, c < F + RecordMax
                 PROVE  seq'[slot_header(c)] >= c
      OBVIOUS
    <3>1. seq[slot_header(c)] >= c /\ seq[slot_header(c)] \in Nat
      BY <1>0 DEF SeqInv
    <3>2. seq'[slot_header(c)] \in Nat
      BY <1>0 DEF TypeOK
    <3> QED BY <2>3, <3>1, <3>2
  <2> QED BY <1>1, <1>2, <2>1, <2>2, <2>4 DEF SeqInv
<1>10. WriterInv'
  <2> SUFFICES ASSUME NEW q \in Producers, pc'[q] \in Writing
               PROVE  /\ F <= pos[q] /\ pos[q] < tail
                      /\ seq'[slot_header(pos[q])] = pos[q]
                      /\ rec[q] = claims[pos[q] + 1]
                      /\ \A r \in Producers \ {q} : pc'[r] \in Writing => pos[r] # pos[q]
    BY <1>1, <1>2 DEF WriterInv
  <2>1. q # p /\ pc[q] \in Writing
    BY <1>1 DEF Writing
  <2>2. seq'[slot_header(pos[q])] = seq[slot_header(pos[q])]
    BY <1>0, <1>1, <1>3, <2>1, OwnSlot
  <2> QED BY <1>1, <2>1, <2>2 DEF WriterInv, Writing
<1>11. DataInv'
  <2>1. \A c \in F .. tail - 1 : seq'[slot_header(c)] = c + 1 =>
          /\ hdr[slot_header(c)] = StoredHeader(claims[c + 1])
          /\ body[slot_header(c)] = claims[c + 1].id
    <3> SUFFICES ASSUME NEW c \in F .. tail - 1, seq'[slot_header(c)] = c + 1
                 PROVE  /\ hdr[slot_header(c)] = StoredHeader(claims[c + 1])
                        /\ body[slot_header(c)] = claims[c + 1].id
      OBVIOUS
    <3>1. c \in F .. F + RecordMax - 1
      BY <1>0, <1>6
    <3>2. CASE c = pos[p]
      BY <1>1, <1>4, <3>2 DEF DataInv
    <3>3. CASE c # pos[p]
      BY <1>5, <3>1, <3>3 DEF DataInv
    <3> QED BY <3>2, <3>3
  <2>2. \A q \in Producers :
          /\ pc'[q] \in {"write_body", "publish"} =>
                hdr[slot_header(pos[q])] = StoredHeader(rec[q])
          /\ pc'[q] = "publish" => body[slot_header(pos[q])] = rec[q].id
    BY <1>1 DEF DataInv
  <2> QED BY <1>1, <1>2, <2>1, <2>2 DEF DataInv
<1> QED BY <1>7, <1>8, <1>9, <1>10, <1>11

-----------------------------------------------------------------------------
(* try_pop *)

\* Copying a published record out of its slot yields what was pushed.
LEMMA CopyOut ==
    ASSUME NEW r \in Record
    PROVE  /\ PayloadOut(StoredHeader(r), r.id) = Delivered(r).payload
           /\ HeaderOut(StoredHeader(r)) = Delivered(r).header
<1>1. r.size \in Nat /\ SlotPayload \in Nat
  BY RecordType, RingAssumption
<1>2. Smaller(Smaller(r.size, SlotPayload), SlotPayload) = Smaller(r.size, SlotPayload)
  BY <1>1 DEF Smaller
<1> QED BY <1>2 DEF PayloadOut, StoredHeader, HeaderOut, Delivered

\* Consumer steps that leave the shared words alone.
LEMMA ReadStep ==
    ASSUME RecordMax >= 2, Inv, TypeOK', PopReady \/ CopyPayload \/ CopyHeader \/ ConsumerCrash
    PROVE  Inv'
<1> USE DEF Inv
<1>0. /\ F \in Nat /\ head \in Nat /\ tail \in Nat /\ RecordMax \in Nat \ {0}
      /\ \A c \in Nat : slot_header(c) \in Slots /\ seq[slot_header(c)] \in Nat
  BY Numbers
<1>1. UNCHANGED <<head, tail, seq, hdr, body, pc, pos, retry, rec, claims, popped>>
  BY DEF PopReady, CopyPayload, CopyHeader, ConsumerCrash, ringVars, prodVars
<1>2. F' = F
  BY <1>1 DEF F
<1>3. ClaimInv' /\ SeqInv' /\ WriterInv'
  BY <1>1, <1>2 DEF ClaimInv, SeqInv, WriterInv
<1>4. ASSUME cpc \in Reading
      PROVE  /\ claims[F + 1] \in Record
             /\ hdr[slot_header(F)] = StoredHeader(claims[F + 1])
             /\ body[slot_header(F)] = claims[F + 1].id
  <2>1. F \in F .. tail - 1 /\ seq[slot_header(F)] = F + 1 /\ F + 1 \in 1 .. Len(claims)
    BY <1>0, <1>4 DEF CursorInv
  <2>2. claims[F + 1] \in Record
    <3>1. claims \in Seq(Record)
      BY DEF TypeOK
    <3> QED BY <2>1, <3>1
  <2> QED BY <2>1, <2>2 DEF DataInv
<1>5. CASE PopReady
  <2>1. head = F
    <3> SUFFICES ASSUME head + 1 = F PROVE FALSE
      BY DEF CursorInv
    <3>1. head + RecordMax \in Nat /\ head + RecordMax < F + RecordMax
      BY <1>0
    <3>2. seq[slot_header(head + RecordMax)] >= head + RecordMax
      BY <3>1 DEF SeqInv
    <3>3. seq[slot_header(head)] = head + 1
      BY <1>5 DEF PopReady
    <3> QED BY <1>0, <3>2, <3>3, SlotPeriodic
  <2>2. F < tail
    <3> SUFFICES ASSUME F = tail PROVE FALSE
      BY <1>0 DEF CursorInv
    <3>1. seq[slot_header(F)] = F
      BY <1>0 DEF SeqInv
    <3> QED BY <1>0, <1>5, <2>1, <3>1 DEF PopReady
  <2>3. CursorInv'
    BY <1>1, <1>2, <1>5, <2>1, <2>2 DEF CursorInv, PopReady
  <2>4. DataInv'
    BY <1>1, <1>2, <1>5 DEF DataInv, PopReady
  <2> QED BY <1>3, <2>3, <2>4
<1>6. CASE CopyPayload
  <2>1. cpc \in Reading /\ cpos = F
    BY <1>6 DEF CopyPayload, CursorInv, Reading
  <2>2. cout'.payload = Delivered(claims[F + 1]).payload
    <3>1. cout'.payload = PayloadOut(hdr[slot_header(F)], body[slot_header(F)])
      BY <1>6, <2>1 DEF CopyPayload, TypeOK
    <3> QED BY <1>4, <2>1, <3>1, CopyOut
  <2>3. CursorInv'
    BY <1>1, <1>2, <1>6 DEF CursorInv, CopyPayload, Reading
  <2>4. DataInv'
    BY <1>1, <1>2, <1>6, <2>2 DEF DataInv, CopyPayload
  <2> QED BY <1>3, <2>3, <2>4
<1>7. CASE CopyHeader
  <2>1. cpc \in Reading /\ cpos = F
    BY <1>7 DEF CopyHeader, CursorInv, Reading
  <2>2. cout'.header = Delivered(claims[F + 1]).header /\ cout'.payload = cout.payload
    <3>1. cout'.header = HeaderOut(hdr[slot_header(F)]) /\ cout'.payload = cout.payload
      BY <1>7, <2>1 DEF CopyHeader, TypeOK
    <3> QED BY <1>4, <2>1, <3>1, CopyOut
  <2>3. CursorInv'
    BY <1>1, <1>2, <1>7 DEF CursorInv, CopyHeader, Reading
  <2>4. DataInv'
    BY <1>1, <1>2, <1>7, <2>2 DEF DataInv, CopyHeader
  <2> QED BY <1>3, <2>3, <2>4
<1>8. CASE ConsumerCrash
  <2>1. CursorInv'
    BY <1>1, <1>2, <1>8 DEF CursorInv, ConsumerCrash, Reading
  <2>2. DataInv'
    BY <1>1, <1>2, <1>8 DEF DataInv, ConsumerCrash
  <2> QED BY <1>3, <2>1, <2>2
<1> QED BY <1>5, <1>6, <1>7, <1>8

\* Freeing the slot at head keeps the invariant: what was read is what was pushed.
LEMMA FreeStep ==
    ASSUME Inv, TypeOK', FreeSlot
    PROVE  Inv'
<1> USE DEF Inv
<1>0. /\ F \in Nat /\ head \in Nat /\ tail \in Nat /\ RecordMax \in Nat \ {0}
      /\ \A q \in Producers : pos[q] \in Nat
      /\ \A c \in Nat : slot_header(c) \in Slots /\ seq[slot_header(c)] \in Nat
  BY Numbers
<1>1. /\ UNCHANGED <<head, tail, hdr, body, pc, pos, retry, rec, cpos, cout, claims>>
      /\ cpc = "free_slot" /\ cpc' = "advance"
      /\ cpos = F /\ head = F /\ F < tail /\ seq[slot_header(F)] = F + 1
      /\ tail <= F + RecordMax /\ Len(claims) = tail
  BY DEF FreeSlot, prodVars, CursorInv, Reading
<1>2. /\ seq'[slot_header(F)] = F + RecordMax
      /\ \A i \in Slots : i # slot_header(F) => seq'[i] = seq[i]
  BY <1>0, <1>1 DEF FreeSlot, TypeOK
<1>3. /\ F' = F + 1 /\ popped'[F + 1] = cout
      /\ \A i \in 1 .. F : popped'[i] = popped[i]
  BY DEF FreeSlot, TypeOK, F
<1>4. \A c \in F + 1 .. F + RecordMax - 1 : seq'[slot_header(c)] = seq[slot_header(c)]
  <2> SUFFICES ASSUME NEW c \in F + 1 .. F + RecordMax - 1
               PROVE  seq'[slot_header(c)] = seq[slot_header(c)]
    OBVIOUS
  <2>1. c \in F .. F + RecordMax - 1 /\ F \in F .. F + RecordMax - 1 /\ c # F /\ c \in Nat
    BY <1>0
  <2> QED BY <1>0, <1>2, <2>1, Window
<1>5. seq'[slot_header(F + RecordMax)] = F + RecordMax
  BY <1>0, <1>2, SlotPeriodic
<1>6. ClaimInv'
  BY <1>0, <1>1, <1>3 DEF ClaimInv
<1>7. CursorInv'
  BY <1>0, <1>1, <1>3 DEF CursorInv, Reading
<1>8. SeqInv'
  <2>1. \A c \in F + 1 .. tail - 1 : seq'[slot_header(c)] \in {c, c + 1}
    BY <1>0, <1>1, <1>4 DEF SeqInv
  <2>2. \A c \in tail .. F + 1 + RecordMax - 1 : seq'[slot_header(c)] = c
    <3> SUFFICES ASSUME NEW c \in tail .. F + 1 + RecordMax - 1
                 PROVE  seq'[slot_header(c)] = c
      OBVIOUS
    <3>1. CASE c = F + RecordMax
      BY <1>5, <3>1
    <3>2. CASE c # F + RecordMax
      <4>1. c \in F + 1 .. F + RecordMax - 1 /\ c \in tail .. F + RecordMax - 1
        BY <1>0, <1>1, <3>2
      <4> QED BY <1>4, <4>1 DEF SeqInv
    <3> QED BY <3>1, <3>2
  <2>3. \A c \in Nat : c < F + 1 + RecordMax => seq'[slot_header(c)] >= c
    <3> SUFFICES ASSUME NEW c \in Nat, c < F + 1 + RecordMax
                 PROVE  seq'[slot_header(c)] >= c
      OBVIOUS
    <3>1. CASE slot_header(c) = slot_header(F)
      BY <1>0, <1>2, <3>1
    <3>2. CASE slot_header(c) # slot_header(F)
      <4>1. c < F + RecordMax
        BY <1>0, <3>2, SlotPeriodic
      <4>2. seq'[slot_header(c)] = seq[slot_header(c)]
        BY <1>0, <1>2, <3>2
      <4> QED BY <4>1, <4>2 DEF SeqInv
    <3> QED BY <3>1, <3>2
  <2> QED BY <1>1, <1>3, <2>1, <2>2, <2>3 DEF SeqInv
<1>9. WriterInv'
  <2> SUFFICES ASSUME NEW q \in Producers, pc[q] \in Writing
               PROVE  F + 1 <= pos[q] /\ seq'[slot_header(pos[q])] = pos[q]
    BY <1>1, <1>3 DEF WriterInv
  <2>1. /\ F <= pos[q] /\ pos[q] < tail /\ seq[slot_header(pos[q])] = pos[q]
    BY DEF WriterInv
  <2>2. pos[q] # F
    BY <1>0, <1>1, <2>1
  <2>3. pos[q] \in F + 1 .. F + RecordMax - 1
    BY <1>0, <1>1, <2>1, <2>2
  <2> QED BY <1>0, <1>4, <2>1, <2>3
<1>10. DataInv'
  <2>1. \A c \in F + 1 .. tail - 1 : seq'[slot_header(c)] = c + 1 =>
          /\ hdr[slot_header(c)] = StoredHeader(claims[c + 1])
          /\ body[slot_header(c)] = claims[c + 1].id
    <3> SUFFICES ASSUME NEW c \in F + 1 .. tail - 1, seq'[slot_header(c)] = c + 1
                 PROVE  /\ hdr[slot_header(c)] = StoredHeader(claims[c + 1])
                        /\ body[slot_header(c)] = claims[c + 1].id
      OBVIOUS
    <3>1. c \in F + 1 .. F + RecordMax - 1 /\ c \in F .. tail - 1
      BY <1>0, <1>1
    <3> QED BY <1>4, <3>1 DEF DataInv
  <2>2. cout = Delivered(claims[F + 1])
    <3>1. cout.payload = Delivered(claims[F + 1]).payload
          /\ cout.header = Delivered(claims[F + 1]).header
      BY <1>1 DEF DataInv
    <3>2. cout = [payload |-> cout.payload, header |-> cout.header]
      BY DEF TypeOK
    <3>3. Delivered(claims[F + 1]) = [payload |-> Delivered(claims[F + 1]).payload,
                                      header |-> Delivered(claims[F + 1]).header]
      BY DEF Delivered
    <3> QED BY <3>1, <3>2, <3>3
  <2>3. \A i \in 1 .. F + 1 : popped'[i] = Delivered(claims[i])
    BY <1>0, <1>3, <2>2 DEF DataInv
  <2>4. \A q \in Producers :
          /\ pc[q] \in {"write_body", "publish"} =>
                hdr[slot_header(pos[q])] = StoredHeader(rec[q])
          /\ pc[q] = "publish" => body[slot_header(pos[q])] = rec[q].id
    BY DEF DataInv
  <2> QED BY <1>1, <1>3, <2>1, <2>3, <2>4 DEF DataInv
<1> QED BY <1>6, <1>7, <1>8, <1>9, <1>10

\* Storing head keeps the invariant.
LEMMA AdvanceStep ==
    ASSUME Inv, TypeOK', AdvanceHead
    PROVE  Inv'
<1> USE DEF Inv
<1>1. /\ UNCHANGED <<tail, seq, hdr, body, pc, pos, retry, rec, cpos, cout, claims, popped>>
      /\ cpc = "advance" /\ cpc' = "idle" /\ head' = head + 1 /\ head + 1 = F
  BY DEF AdvanceHead, prodVars, CursorInv
<1>2. F' = F
  BY <1>1 DEF F
<1>3. ClaimInv' /\ SeqInv' /\ WriterInv'
  BY <1>1, <1>2 DEF ClaimInv, SeqInv, WriterInv
<1>4. CursorInv'
  BY <1>1, <1>2 DEF CursorInv, Reading
<1>5. DataInv'
  BY <1>1, <1>2 DEF DataInv
<1> QED BY <1>3, <1>4, <1>5

-----------------------------------------------------------------------------
(* Invariance *)

\* Every step keeps the invariant.
LEMMA NextInv ==
    ASSUME RecordMax >= 2, Inv, [Next]_vars
    PROVE  Inv'
<1>1. TypeOK'
  BY TypeStep DEF Inv
<1>2. CASE UNCHANGED vars
  <2>1. F' = F
    BY <1>2 DEF vars, F
  <2> QED BY <1>1, <1>2, <2>1 DEF vars, ringVars, prodVars, consVars, Inv,
               ClaimInv, CursorInv, SeqInv, WriterInv, DataInv
<1>3. CASE Next
  BY <1>1, <1>3, LoopStep, ClaimStep, FillStep, PublishStep, ReadStep, FreeStep,
     AdvanceStep, Zenon DEF Next, ProducerStep, ConsumerStep
<1> QED BY <1>2, <1>3

\* The invariant holds in every reachable state of a ring with two slots or more.
LEMMA Invariance ==
    ASSUME RecordMax >= 2
    PROVE  Spec => []Inv
<1>1. Init => Inv
  BY InitInv
<1>2. Inv /\ [Next]_vars => Inv'
  BY NextInv
<1> QED BY <1>1, <1>2, PTL DEF Spec

\* The types hold in every reachable state, and no producer goes through
\* the claim loop more often than MPSC_CAS_RETRY_BUDGET.
THEOREM TypeCorrect ==
    ASSUME RecordMax >= 2
    PROVE  Spec => []TypeOK
<1>1. Inv => TypeOK
  BY DEF Inv
<1> QED BY <1>1, Invariance, PTL

\* A ring of two slots or more never holds more than record_max records
\* that were claimed and not popped: a full ring refuses.
THEOREM Capacity ==
    ASSUME RecordMax >= 2
    PROVE  Spec => []WithinCapacity
<1>1. Inv => WithinCapacity
  BY DEF Inv, CursorInv, WithinCapacity, F
<1> QED BY <1>1, Invariance, PTL

\* The plain accesses of try_push and try_pop to record bytes never race.
THEOREM Exclusion ==
    ASSUME RecordMax >= 2
    PROVE  Spec => []SlotExclusive
<1>1. ASSUME Inv PROVE SlotExclusive
  <2> SUFFICES ASSUME NEW p \in Producers, pc[p] \in Writing
               PROVE  /\ \A q \in Producers \ {p} :
                            pc[q] \in Writing => slot_header(pos[q]) # slot_header(pos[p])
                      /\ cpc \in Reading => slot_header(cpos) # slot_header(pos[p])
    BY DEF SlotExclusive
  <2>1. ASSUME cpc \in Reading PROVE slot_header(cpos) # slot_header(pos[p])
    <3>1. F \in Nat /\ RecordMax \in Nat \ {0} /\ pos[p] \in Nat
      BY <1>1, Numbers DEF Inv
    <3>2. cpos = F /\ seq[slot_header(F)] = F + 1 /\ seq[slot_header(pos[p])] = pos[p]
      BY <1>1, <2>1 DEF Inv, CursorInv, WriterInv
    <3>3. F # pos[p] /\ F \in F .. F + RecordMax - 1
      BY <3>1, <3>2
    <3> QED BY <1>1, <3>2, <3>3, OwnSlot
  <2> QED BY <1>1, <2>1, OwnSlot
<1> QED BY <1>1, Invariance, PTL

\* Records are delivered once each, in claim order, whole.
THEOREM Fifo ==
    ASSUME RecordMax >= 2
    PROVE  Spec => []FifoUntorn
<1>1. Inv => FifoUntorn
  BY DEF Inv, CursorInv, DataInv, FifoUntorn, F
<1> QED BY <1>1, Invariance, PTL

\* try_push takes a slot for full only when all slots are taken.
THEOREM Refusal ==
    ASSUME RecordMax >= 2
    PROVE  Spec => HonestRefusal
<1> DEFINE A == \A p \in Producers :
                   pc[p] = "load_seq" /\ pc'[p] = "refuse" => tail = Len(popped) + RecordMax
<1>1. ASSUME Inv, [Next]_vars PROVE A
  <2> SUFFICES ASSUME NEW p \in Producers, pc[p] = "load_seq", pc'[p] = "refuse"
               PROVE  tail = F + RecordMax
    BY DEF F
  <2>0. pc \in [Producers -> {"idle"} \cup Claiming \cup Writing]
    BY <1>1 DEF Inv, TypeOK
  <2>1. LoadSeq(p)
    BY <1>1, <2>0 DEF Next, ProducerStep, ConsumerStep, vars, prodVars, BeginPush, LoadSeq,
      CasClaim, CasFail, ReloadTail, Refuse, WriteHeader, WriteBody, Publish, Crash,
      PopReady, CopyPayload, CopyHeader, FreeSlot, AdvanceHead, ConsumerCrash, NextTry
  <2>2. seq[slot_header(pos[p])] - pos[p] < 0
    BY <2>0, <2>1 DEF LoadSeq
  <2>3. /\ F \in Nat /\ tail \in Nat /\ RecordMax \in Nat \ {0} /\ pos[p] \in Nat
        /\ seq[slot_header(pos[p])] \in Nat
    BY <1>1, Numbers DEF Inv
  <2>4. pos[p] <= tail /\ tail <= F + RecordMax
    BY <1>1 DEF Inv, ClaimInv, CursorInv
  <2>5. ~(pos[p] < F + RecordMax)
    BY <1>1, <2>2, <2>3 DEF Inv, SeqInv
  <2> QED BY <2>3, <2>4, <2>5
<1>2. Spec => [][A]_vars
  BY <1>1, Invariance, PTL DEF Spec
<1> QED BY <1>2 DEF HonestRefusal

-----------------------------------------------------------------------------
(* Accounting, for rings of one slot too *)

Claimers == {p \in Producers : pc[p] \in Claiming}

\* The words the books are kept in, and the books.  Only finitely many
\* producers are in the claim loop, however many there are.
CountInv ==
    /\ pc \in [Producers -> {"idle"} \cup Claiming \cup Writing]
    /\ rec \in [Producers -> Record \cup {NoRecord}]
    /\ claims \in Seq(Record \cup {NoRecord}) /\ lost \in Nat /\ attempts \in Nat
    /\ IsFiniteSet(Claimers)
    /\ attempts = Len(claims) + lost + Cardinality(Claimers)

\* A producer enters the claim loop with a call that is counted.
LEMMA EnterCount ==
    ASSUME CountInv, NEW p \in Producers, NEW size \in PayloadSizes, BeginPush(p, size)
    PROVE  CountInv'
<1>1. /\ p \notin Claimers /\ Claimers' = Claimers \cup {p}
      /\ pc' \in [Producers -> {"idle"} \cup Claiming \cup Writing]
  BY DEF CountInv, BeginPush, Claimers, Claiming
<1>2. IsFiniteSet(Claimers') /\ Cardinality(Claimers') = Cardinality(Claimers) + 1
  BY <1>1, FS_AddElement DEF CountInv
<1>3. Cardinality(Claimers) \in Nat /\ Len(claims) \in Nat
  BY FS_CardinalityType DEF CountInv
<1>4. attempts' = attempts + 1 /\ claims' = claims /\ lost' = lost /\ attempts < MaxPush
  BY DEF BeginPush, ringVars
<1>5. attempts \in Nat /\ lost \in Nat /\ attempts = Len(claims) + lost + Cardinality(Claimers)
  BY DEF CountInv
<1>6. attempts' \in Nat /\ attempts' = Len(claims') + lost' + Cardinality(Claimers')
  BY <1>2, <1>3, <1>4, <1>5
<1>7. attempts + 1 \in 1 .. MaxPush
  BY <1>4, <1>5, RingAssumption
<1>8. rec' \in [Producers -> Record \cup {NoRecord}]
  BY <1>7 DEF CountInv, BeginPush, Record
<1> QED BY <1>1, <1>2, <1>4, <1>5, <1>6, <1>8 DEF CountInv

\* It leaves the loop with a record claimed or a loss counted.
LEMMA LeaveCount ==
    ASSUME CountInv, NEW p \in Producers, CasClaim(p) \/ Refuse(p)
    PROVE  CountInv'
<1> USE DEF CountInv
<1>1. /\ p \in Claimers /\ Claimers' = Claimers \ {p}
      /\ pc' \in [Producers -> {"idle"} \cup Claiming \cup Writing]
  BY DEF Claimers, Claiming, Writing, CasClaim, Refuse
<1>2. IsFiniteSet(Claimers') /\ Cardinality(Claimers') = Cardinality(Claimers) - 1
  BY <1>1, FS_RemoveElement
<1>3. Cardinality(Claimers) \in Nat /\ Cardinality(Claimers') \in Nat /\ Len(claims) \in Nat
  BY <1>2, FS_CardinalityType
<1>4. CASE CasClaim(p)
  <2>1. claims' \in Seq(Record \cup {NoRecord}) /\ Len(claims') = Len(claims) + 1
    BY <1>4 DEF CasClaim
  <2> QED BY <1>1, <1>2, <1>3, <1>4, <2>1 DEF CasClaim
<1>5. CASE Refuse(p)
  BY <1>1, <1>2, <1>3, <1>5 DEF Refuse
<1> QED BY <1>4, <1>5

\* All other steps leave the books alone.
LEMMA KeepCount ==
    ASSUME CountInv,
           \/ \E p \in Producers : \/ LoadSeq(p) \/ CasFail(p) \/ ReloadTail(p) \/ WriteHeader(p)
                                   \/ WriteBody(p) \/ Publish(p) \/ Crash(p)
           \/ ConsumerStep \/ ConsumerCrash \/ UNCHANGED vars
    PROVE  CountInv'
<1>1. /\ Claimers' = Claimers
      /\ pc' \in [Producers -> {"idle"} \cup Claiming \cup Writing]
  BY DEF CountInv, Claimers, Claiming, Writing, LoadSeq, CasFail, ReloadTail, WriteHeader, WriteBody,
      Publish, Crash, ConsumerStep, PopReady, CopyPayload, CopyHeader, FreeSlot, AdvanceHead,
      ConsumerCrash, NextTry, vars, prodVars
<1>2. UNCHANGED <<rec, claims, lost, attempts>>
  BY DEF LoadSeq, CasFail, ReloadTail, WriteHeader, WriteBody,
      Publish, Crash, ConsumerStep, PopReady, CopyPayload, CopyHeader, FreeSlot, AdvanceHead,
      ConsumerCrash, vars, prodVars, ringVars
<1> QED BY <1>1, <1>2 DEF CountInv

\* Every try_push call is in the ring, in lost_count or in the claim loop,
\* whichever threads died: "lost_count" is the number of records refused.
THEOREM Accounted == Spec => []Accounting
<1>1. Init => CountInv
  <2> SUFFICES ASSUME Init PROVE CountInv
    OBVIOUS
  <2>1. Claimers = {}
    BY DEF Init, Claimers, Claiming
  <2>2. IsFiniteSet(Claimers) /\ Cardinality(Claimers) = 0
    BY <2>1, FS_EmptySet
  <2> QED BY <2>2 DEF Init, CountInv
<1>2. CountInv /\ [Next]_vars => CountInv'
  BY EnterCount, LeaveCount, KeepCount DEF Next, ProducerStep
<1>3. CountInv => Accounting
  BY DEF CountInv, Accounting, Claimers
<1> QED BY <1>1, <1>2, <1>3, PTL DEF Spec

-----------------------------------------------------------------------------
(* The ring implements the channel *)

PlaceSet == [rec : {Delivered(r) : r \in Record}, ready : BOOLEAN]

\* A function on 1..n is a sequence of length n.
LEMMA SeqOfFunction ==
    ASSUME NEW k \in Nat, NEW S, NEW q \in [1 .. k -> S]
    PROVE  q \in Seq(S) /\ Len(q) = k
<1>1. q \in Seq(S)
  BY SeqDef
<1> QED BY <1>1, LenProperties

\* The queue the ring stands for is a sequence of places.
LEMMA QueueType ==
    Inv => /\ Queue \in Seq(PlaceSet)
           /\ Len(Queue) = tail - F
           /\ \A i \in 1 .. tail - F : Queue[i] = Place(i)
<1> SUFFICES ASSUME Inv
             PROVE  /\ Queue \in Seq(PlaceSet)
                    /\ Len(Queue) = tail - F
                    /\ \A i \in 1 .. tail - F : Queue[i] = Place(i)
  OBVIOUS
<1>1. tail - F \in Nat /\ F \in Nat /\ tail = Len(claims) /\ claims \in Seq(Record)
  <2>1. F \in Nat /\ tail \in Nat
    BY Numbers DEF Inv
  <2> QED BY <2>1 DEF Inv, CursorInv, TypeOK
<1>2. \A i \in 1 .. tail - F : Place(i) \in PlaceSet
  <2> SUFFICES ASSUME NEW i \in 1 .. tail - F PROVE Place(i) \in PlaceSet
    OBVIOUS
  <2>1. F + i \in 1 .. Len(claims)
    BY <1>1
  <2>2. claims[F + i] \in Record
    BY <1>1, <2>1
  <2> QED BY <2>2, Zenon DEF Place, PlaceSet, F
<1>3. Queue = [i \in 1 .. tail - F |-> Place(i)]
  BY <1>1 DEF Queue, F
<1>4. Queue \in [1 .. tail - F -> PlaceSet]
  BY <1>2, <1>3, Zenon
<1>5. Queue \in Seq(PlaceSet) /\ Len(Queue) = tail - F
  BY <1>1, <1>4, SeqOfFunction
<1> QED BY <1>3, <1>5

\* Committing a place changes its ready flag and nothing else.
LEMMA CommitPlace ==
    ASSUME NEW x, NEW a, NEW b
    PROVE  [[rec |-> x, ready |-> a] EXCEPT !.ready = b] = [rec |-> x, ready |-> b]
  OBVIOUS

\* An element appended to a sequence leaves the others in place.
LEMMA AppendSeq ==
    ASSUME NEW S, NEW s \in Seq(S), NEW e \in S
    PROVE  /\ Append(s, e) \in Seq(S) /\ Len(Append(s, e)) = Len(s) + 1
           /\ \A i \in 1 .. Len(s) : Append(s, e)[i] = s[i]
           /\ Append(s, e)[Len(s) + 1] = e
  OBVIOUS

\* Every step of the ring is a step of RecordChannel or leaves it alone.
THEOREM Implementation ==
    ASSUME RecordMax >= 2
    PROVE  Spec => ImplementsChannel
<1>1. ASSUME Init PROVE Channel!Init
  BY <1>1 DEF Init, Channel!Init, Queue
<1>2. ASSUME Inv, [Next]_vars PROVE [Channel!Next]_(Channel!chanVars)
  <2>0. Inv'
    BY <1>2, NextInv
  <2>1. /\ F \in Nat /\ tail \in Nat /\ RecordMax \in Nat \ {0} /\ tail = Len(claims)
        /\ F <= tail /\ tail <= F + RecordMax
        /\ \A q \in Producers : pos[q] \in Nat
        /\ \A c \in Nat : slot_header(c) \in Slots /\ seq[slot_header(c)] \in Nat
    BY <1>2, Numbers DEF Inv, CursorInv
  <2>2. ASSUME UNCHANGED <<claims, popped, seq, lost>>
        PROVE  UNCHANGED Channel!chanVars
    BY <2>2 DEF Channel!chanVars, Queue, Place
  <2>3. ASSUME NEW p \in Producers, Refuse(p) PROVE Channel!Drop
    BY <2>3 DEF Refuse, Channel!Drop, Queue, Place
  <2>4. ASSUME NEW p \in Producers, CasClaim(p)
        PROVE  \E r \in {Delivered(r) : r \in Record} : Channel!Reserve(r)
    <3> DEFINE e == [rec |-> Delivered(rec[p]), ready |-> FALSE]
    <3>1. /\ tail' = tail + 1 /\ pos[p] = tail /\ rec[p] \in Record
          /\ UNCHANGED <<popped, seq, lost>>
          /\ claims' = Append(claims, rec[p]) /\ claims \in Seq(Record)
      BY <1>2, <2>4 DEF CasClaim, Inv, ClaimInv, TypeOK
    <3>2. F' = F /\ tail < F + RecordMax
      BY <1>2, <2>4, <3>1 DEF F, CasClaim, Inv, ClaimInv
    <3>3. /\ claims'[tail + 1] = rec[p]
          /\ \A i \in 1 .. tail : claims'[i] = claims[i]
      BY <2>1, <3>1
    <3>4. seq[slot_header(tail)] = tail
      BY <1>2, <2>1, <3>2 DEF Inv, SeqInv
    <3>5. e \in PlaceSet
      BY <3>1 DEF PlaceSet
    <3> HIDE DEF e
    <3>6. /\ Append(Queue, e) \in Seq(PlaceSet) /\ Len(Append(Queue, e)) = tail - F + 1
          /\ \A i \in 1 .. tail - F : Append(Queue, e)[i] = Place(i)
          /\ Append(Queue, e)[tail - F + 1] = e
      BY <1>2, <3>5, QueueType, AppendSeq
    <3>7. /\ Queue' \in Seq(PlaceSet) /\ Len(Queue') = tail - F + 1
          /\ \A i \in 1 .. tail - F + 1 : Queue'[i] = Place(i)'
      <4>1. (/\ Queue \in Seq(PlaceSet)
             /\ Len(Queue) = tail - F
             /\ \A i \in 1 .. tail - F : Queue[i] = Place(i))'
        BY <2>0, QueueType, PTL
      <4>2. (tail - F)' = tail - F + 1
        BY <2>1, <3>1, <3>2
      <4> QED BY <4>1, <4>2 DEF PlaceSet, Delivered
    <3>8. \A i \in 1 .. tail - F : Place(i)' = Place(i)
      BY <2>1, <3>1, <3>3 DEF Place, F
    <3>9. \A i \in {tail - F + 1} : Place(i)' = e
      <4> SUFFICES ASSUME NEW i, i = tail - F + 1 PROVE Place(i)' = e
        OBVIOUS
      <4>1. Len(popped) + i = tail + 1 /\ Len(popped) + i - 1 = tail
        BY <2>1 DEF F
      <4>2. (seq[slot_header(tail)] = tail + 1) = FALSE
        BY <2>1, <3>4
      <4>3. Place(i)' = [rec |-> Delivered(claims'[tail + 1]),
                         ready |-> seq[slot_header(tail)] = tail + 1]
        BY <3>1, <3>2, <4>1 DEF Place
      <4> QED BY <3>3, <4>2, <4>3 DEF e
    <3>10. Queue' = Append(Queue, e)
      BY <2>1, <3>6, <3>7, <3>8, <3>9, SeqEqual
    <3>11. Len(Queue) < RecordMax
      BY <1>2, <2>1, <3>2, QueueType
    <3> QED BY <3>1, <3>10, <3>11 DEF Channel!Reserve, e
  <2>5. ASSUME NEW p \in Producers, Publish(p)
        PROVE  \E i \in 1 .. Len(Queue) : Channel!Commit(i)
    <3> DEFINE j == pos[p] - F + 1
    <3>1. /\ pc[p] \in Writing /\ UNCHANGED <<claims, popped, lost, tail>>
          /\ seq'[slot_header(pos[p])] = pos[p] + 1
          /\ \A i \in Slots : i # slot_header(pos[p]) => seq'[i] = seq[i]
      BY <1>2, <2>1, <2>5 DEF Publish, Writing, Inv, TypeOK
    <3>2. /\ F <= pos[p] /\ pos[p] < tail /\ seq[slot_header(pos[p])] = pos[p] /\ F' = F
      BY <1>2, <3>1 DEF Inv, WriterInv, F
    <3>3. j \in 1 .. tail - F /\ F + j - 1 = pos[p] /\ F + j = pos[p] + 1
      BY <2>1, <3>2
    <3> HIDE DEF j
    <3>4. \A i \in 1 .. tail - F : i # j => Place(i)' = Place(i)
      <4> SUFFICES ASSUME NEW i \in 1 .. tail - F, i # j PROVE Place(i)' = Place(i)
        OBVIOUS
      <4>1. F + i - 1 \in F .. F + RecordMax - 1 /\ F + i - 1 \in Nat /\ F + i - 1 # pos[p]
        BY <2>1, <3>3
      <4>2. seq'[slot_header(F + i - 1)] = seq[slot_header(F + i - 1)]
        BY <1>2, <2>1, <3>1, <4>1, OwnSlot
      <4> QED BY <3>1, <4>2 DEF Place, F
    <3>5. /\ Place(j) = [rec |-> Delivered(claims[pos[p] + 1]), ready |-> FALSE]
          /\ \A i \in {j} : Place(i)' = [rec |-> Delivered(claims[pos[p] + 1]), ready |-> TRUE]
      <4>1. /\ (seq[slot_header(pos[p])] = pos[p] + 1) = FALSE
            /\ (seq'[slot_header(pos[p])] = pos[p] + 1) = TRUE
        BY <2>1, <3>1, <3>2
      <4>2. Place(j) = [rec |-> Delivered(claims[pos[p] + 1]),
                        ready |-> seq[slot_header(pos[p])] = pos[p] + 1]
        BY <3>3 DEF Place, F
      <4>3. \A i \in {j} : Place(i)' = [rec |-> Delivered(claims[pos[p] + 1]),
                                        ready |-> seq'[slot_header(pos[p])] = pos[p] + 1]
        <5> SUFFICES ASSUME NEW i, i = j
                     PROVE  Place(i)' = [rec |-> Delivered(claims[pos[p] + 1]),
                                         ready |-> seq'[slot_header(pos[p])] = pos[p] + 1]
          OBVIOUS
        <5>1. Len(popped) + i = pos[p] + 1 /\ Len(popped) + i - 1 = pos[p]
          BY <3>3 DEF F
        <5> QED BY <3>1, <5>1 DEF Place
      <4> QED BY <4>1, <4>2, <4>3
    <3>6. Queue = [i \in 1 .. tail - F |-> Place(i)] /\ Queue' = [i \in 1 .. tail - F |-> Place(i)']
      BY <2>1, <3>1 DEF Queue, F
    <3>7. Queue' = [Queue EXCEPT ![j].ready = TRUE] /\ Queue[j].ready = FALSE
      <4> DEFINE b == [rec |-> Delivered(claims[pos[p] + 1]), ready |-> TRUE]
      <4>1. Queue[j] = Place(j) /\ Queue[j].ready = FALSE
        BY <3>3, <3>5, <3>6
      <4>2. [Queue[j] EXCEPT !.ready = TRUE] = b
        <5>1. Queue[j] = [rec |-> Delivered(claims[pos[p] + 1]), ready |-> FALSE]
          BY <3>5, <4>1, Zenon
        <5>2. [[rec |-> Delivered(claims[pos[p] + 1]), ready |-> FALSE] EXCEPT !.ready = TRUE] = b
          BY CommitPlace, Zenon
        <5> QED BY <5>1, <5>2, Zenon
      <4>3. \A i \in {j} : Place(i)' = b
        BY <3>5
      <4> HIDE DEF b
      <4>4. [Queue EXCEPT ![j].ready = TRUE] = [i \in 1 .. tail - F |-> IF i = j THEN b ELSE Place(i)]
        BY <3>3, <3>6, <4>2
      <4>5. Queue' = [i \in 1 .. tail - F |-> IF i = j THEN b ELSE Place(i)]
        BY <3>3, <3>4, <3>6, <4>3
      <4> QED BY <4>1, <4>4, <4>5
    <3>8. j \in 1 .. Len(Queue)
      BY <1>2, <3>3, QueueType
    <3> QED BY <3>1, <3>7, <3>8 DEF Channel!Commit
  <2>6. ASSUME FreeSlot PROVE Channel!Deliver
    <3>1. /\ cpc = "free_slot" /\ cpos = F /\ F < tail /\ seq[slot_header(F)] = F + 1
          /\ UNCHANGED <<claims, lost, tail>>
          /\ popped' = Append(popped, cout)
      BY <1>2, <2>6 DEF FreeSlot, Inv, CursorInv, Reading
    <3>2. /\ seq'[slot_header(F)] = F + RecordMax
          /\ \A i \in Slots : i # slot_header(F) => seq'[i] = seq[i]
      BY <1>2, <2>1, <2>6, <3>1 DEF FreeSlot, Inv, TypeOK
    <3>3. F' = F + 1 /\ popped'[F + 1] = cout /\ Len(popped') = F + 1
      BY <1>2, <3>1 DEF Inv, TypeOK, F
    <3>4. cout = Delivered(claims[F + 1])
      <4>1. F + 1 \in 1 .. F' /\ claims' = claims
        BY <2>1, <3>1, <3>3
      <4>2. \A i \in 1 .. F' : popped'[i] = Delivered(claims'[i])
        BY <2>0 DEF Inv, DataInv, Delivered
      <4> QED BY <3>3, <4>1, <4>2
    <3>5. /\ Queue \in Seq(PlaceSet) /\ Len(Queue) = tail - F
          /\ \A i \in 1 .. tail - F : Queue[i] = Place(i)
      BY <1>2, QueueType
    <3>6. Queue # <<>> /\ Head(Queue) = Place(1)
      <4>1. 1 \in 1 .. tail - F
        BY <2>1, <3>1
      <4>2. Queue # <<>>
        BY <2>1, <3>1, <3>5
      <4> QED BY <3>5, <4>1, <4>2
    <3>7. Place(1).ready /\ Place(1).rec = Delivered(claims[F + 1])
      <4>1. Len(popped) + 1 = F + 1 /\ Len(popped) + 1 - 1 = F
        BY <2>1 DEF F
      <4>2. Place(1) = [rec |-> Delivered(claims[F + 1]), ready |-> seq[slot_header(F)] = F + 1]
        BY <4>1 DEF Place
      <4>3. (seq[slot_header(F)] = F + 1) = TRUE
        BY <3>1
      <4>4. Place(1) = [rec |-> Delivered(claims[F + 1]), ready |-> TRUE]
        BY <4>2, <4>3
      <4> QED BY <4>4
    <3>8. Tail(Queue) \in Seq(PlaceSet) /\ Len(Tail(Queue)) = tail - F - 1
          /\ \A i \in 1 .. tail - F - 1 : Tail(Queue)[i] = Place(i + 1)
      <4>1. Tail(Queue) \in Seq(PlaceSet) /\ Len(Tail(Queue)) = tail - F - 1
            /\ \A i \in 1 .. tail - F - 1 : Tail(Queue)[i] = Queue[i + 1]
        BY <3>5, <3>6, HeadTailProperties
      <4>2. \A i \in 1 .. tail - F - 1 : i + 1 \in 1 .. tail - F
        BY <2>1
      <4> QED BY <3>5, <4>1, <4>2, Zenon
    <3>9. /\ Queue' \in Seq(PlaceSet) /\ Len(Queue') = tail - F - 1
          /\ \A i \in 1 .. tail - F - 1 : Queue'[i] = Place(i)'
      <4>1. (/\ Queue \in Seq(PlaceSet)
             /\ Len(Queue) = tail - F
             /\ \A i \in 1 .. tail - F : Queue[i] = Place(i))'
        BY <2>0, QueueType, PTL
      <4>2. (tail - F)' = tail - F - 1
        BY <2>1, <3>1, <3>3
      <4> QED BY <4>1, <4>2 DEF PlaceSet, Delivered
    <3>10. \A i \in 1 .. tail - F - 1 : Place(i)' = Place(i + 1)
      <4> SUFFICES ASSUME NEW i \in 1 .. tail - F - 1 PROVE Place(i)' = Place(i + 1)
        OBVIOUS
      <4>1. /\ F + i \in F .. F + RecordMax - 1 /\ F \in F .. F + RecordMax - 1
            /\ F + i \in Nat /\ F + i # F
        BY <2>1
      <4>2. seq'[slot_header(F + i)] = seq[slot_header(F + i)]
        BY <2>1, <3>2, <4>1, Window
      <4>3. /\ Len(popped') + i = F + i + 1 /\ Len(popped') + i - 1 = F + i
            /\ Len(popped) + (i + 1) = F + i + 1 /\ Len(popped) + (i + 1) - 1 = F + i
        BY <2>1, <3>3 DEF F
      <4> QED BY <3>1, <4>2, <4>3 DEF Place
    <3>11. Queue' = Tail(Queue)
      BY <3>8, <3>9, <3>10, SeqEqual
    <3> QED BY <3>1, <3>4, <3>6, <3>7, <3>11 DEF Channel!Deliver
  <2>7. CASE Next
    <3>1. ASSUME NEW p \in Producers, ProducerStep(p) \/ Crash(p)
          PROVE  [Channel!Next]_(Channel!chanVars)
      <4>1. CASE LoadSeq(p) \/ CasFail(p) \/ ReloadTail(p) \/ WriteHeader(p) \/ WriteBody(p)
                 \/ Crash(p)
        BY <2>2, <4>1 DEF LoadSeq, CasFail, ReloadTail, WriteHeader, WriteBody, Crash, ringVars
      <4>2. CASE CasClaim(p)
        BY <2>4, <4>2 DEF Channel!Next
      <4>3. CASE Publish(p)
        BY <2>5, <4>3 DEF Channel!Next
      <4>4. CASE Refuse(p)
        BY <2>3, <4>4 DEF Channel!Next
      <4> QED BY <3>1, <4>1, <4>2, <4>3, <4>4 DEF ProducerStep
    <3>2. ASSUME NEW p \in Producers, NEW size \in PayloadSizes, BeginPush(p, size)
          PROVE  UNCHANGED Channel!chanVars
      BY <2>2, <3>2 DEF BeginPush, ringVars
    <3>3. CASE PopReady \/ CopyPayload \/ CopyHeader \/ AdvanceHead \/ ConsumerCrash
      BY <2>2, <3>3 DEF PopReady, CopyPayload, CopyHeader, AdvanceHead, ConsumerCrash, ringVars
    <3>4. CASE FreeSlot
      BY <2>6, <3>4 DEF Channel!Next
    <3> QED BY <2>7, <3>1, <3>2, <3>3, <3>4 DEF Next, ConsumerStep
  <2> QED BY <1>2, <2>2, <2>7 DEF vars, ringVars
<1> QED BY <1>1, <1>2, Invariance, PTL DEF Spec, ImplementsChannel, Channel!Spec
=============================================================================
