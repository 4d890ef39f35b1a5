------------------------------ MODULE MpscRing ------------------------------
(***************************************************************************)
(* The bounded multi-producer single-consumer record ring of               *)
(* src/src/shm_ring.cpp: two cursors, one sequence word per slot, and the  *)
(* record bytes of each slot.  Every access to a shared word by            *)
(* MpscRing::try_push and MpscRing::try_pop is a step of its own, so all   *)
(* interleavings of producers and consumer are behaviours of Next.         *)
(*                                                                         *)
(* Threads may die at any step (Crash, ConsumerCrash): the ring lives in   *)
(* shared memory and survives them.  Nothing in the ring code repairs it.  *)
(*                                                                         *)
(* Shared words are read and written in one total order (interleaving      *)
(* semantics); the release store and acquire load of a slot's sequence     *)
(* word are what makes the plain record bytes visible in that order.       *)
(***************************************************************************)
EXTENDS Integers, Sequences, FiniteSets

CONSTANTS
    Producers,     \* producer threads, of one or of several processes
    RecordMax,     \* RecordRingMeta::record_max, the number of slots
    RetryBudget,   \* MPSC_CAS_RETRY_BUDGET
    SlotPayload,   \* record_stride - sizeof(RingRecordHeader), in bytes
    PayloadSizes,  \* payload sizes the producers push
    OutSize,       \* size of the buffer the consumer pops into
    MaxPush        \* bound: number of try_push calls

\* initialize() refuses record_max = 0 and nothing else.
ASSUME RingAssumption ==
    /\ RecordMax \in Nat \ {0}
    /\ RetryBudget \in Nat \ {0}
    /\ SlotPayload \in Nat
    /\ PayloadSizes \subseteq Nat
    /\ OutSize \in Nat
    /\ MaxPush \in Nat

VARIABLES
    head,      \* head_cursor(): next position to pop
    tail,      \* tail_cursor(): next position to claim
    seq,       \* RingSlotHeader::seq_storage of each slot
    hdr,       \* RingRecordHeader in each slot
    body,      \* payload bytes in each slot, named by the record they are of
    lost,      \* RecordRingMeta::lost_count
    pc,        \* where each producer is in try_push
    pos,       \* try_push's local pos
    retry,     \* try_push's local retry
    rec,       \* the record each producer is pushing
    alive,     \* producers that have not crashed
    cpc,       \* where the consumer is in try_pop
    cpos,      \* try_pop's local pos
    cout,      \* try_pop's out_payload and out_record
    attempts,  \* history: number of try_push calls
    claims,    \* history: records in the order their positions were claimed
    popped     \* history: records in the order their slots were freed

ringVars == <<head, tail, seq, hdr, body, lost>>
prodVars == <<pc, pos, retry, rec, alive>>
consVars == <<cpc, cpos, cout>>
vars == <<ringVars, prodVars, consVars, attempts, claims, popped>>

-----------------------------------------------------------------------------
(* Records and slots *)

Smaller(a, b) == IF a <= b THEN a ELSE b

Slots == 0 .. RecordMax - 1

\* The slot of a position: pos % record_max.
slot_header(c) == c % RecordMax

Record == [id : 1 .. MaxPush, size : PayloadSizes]

NoRecord == [id |-> 0, size |-> 0]

\* The RingRecordHeader try_push writes for r: len is cut to the slot, and
\* RECORD_FLAG_TRUNCATED is set when it was cut.
StoredHeader(r) ==
    [user |-> r.id, len |-> Smaller(r.size, SlotPayload),
     truncated |-> r.size > SlotPayload]

\* What try_pop hands out for the payload: the bytes, the length stored in
\* the slot, and how much of it fits the caller's buffer.
PayloadOut(h, b) ==
    LET payload_size == Smaller(h.len, SlotPayload)
    IN  [data |-> b, payload_size |-> payload_size,
         copied_size |-> Smaller(OutSize, payload_size)]

HeaderOut(h) == [user |-> h.user, truncated |-> h.truncated]

NoPayload == [data |-> 0, payload_size |-> 0, copied_size |-> 0]

NoHeader == [user |-> 0, truncated |-> FALSE]

-----------------------------------------------------------------------------
(* Initial state: what MpscRing::initialize leaves behind *)

Init ==
    /\ head = 0 /\ tail = 0 /\ lost = 0
    /\ seq = [i \in Slots |-> i]
    /\ hdr = [i \in Slots |-> [user |-> 0, len |-> 0, truncated |-> FALSE]]
    /\ body = [i \in Slots |-> 0]
    /\ pc = [p \in Producers |-> "idle"]
    /\ pos = [p \in Producers |-> 0]
    /\ retry = [p \in Producers |-> 0]
    /\ rec = [p \in Producers |-> NoRecord]
    /\ alive = Producers
    /\ cpc = "idle" /\ cpos = 0
    /\ cout = [payload |-> NoPayload, header |-> NoHeader]
    /\ attempts = 0 /\ claims = <<>> /\ popped = <<>>

-----------------------------------------------------------------------------
(* MpscRing::try_push *)

\* Mutant: the loop runs once more than the budget allows.
NextTryOneMore(p) ==
    /\ retry' = [retry EXCEPT ![p] = @ + 1]
    /\ pc' = [pc EXCEPT ![p] = IF retry[p] < RetryBudget
                               THEN "load_seq" ELSE "refuse"]

\* Mutant: no budget, the loop runs until the claim succeeds.
NextTryForever(p) ==
    /\ pc' = [pc EXCEPT ![p] = "load_seq"]
    /\ UNCHANGED retry

\* One more turn of the claim loop, or out of it when the budget is spent.
NextTry(p) ==
    /\ retry' = [retry EXCEPT ![p] = @ + 1]
    /\ pc' = [pc EXCEPT ![p] = IF retry[p] + 1 < RetryBudget
                               THEN "load_seq" ELSE "refuse"]

\* Entry of try_push: load tail.
BeginPush(p, size) ==
    /\ p \in alive /\ pc[p] = "idle"
    /\ attempts < MaxPush
    /\ attempts' = attempts + 1
    /\ rec' = [rec EXCEPT ![p] = [id |-> attempts + 1, size |-> size]]
    /\ pos' = [pos EXCEPT ![p] = tail]
    /\ retry' = [retry EXCEPT ![p] = 0]
    /\ pc' = [pc EXCEPT ![p] = "load_seq"]
    /\ UNCHANGED <<ringVars, alive, consVars, claims, popped>>

\* Mutant: a slot that is still taken is claimed as well.
LoadSeqNoFullCheck(p) ==
    /\ p \in alive /\ pc[p] = "load_seq"
    /\ LET diff == seq[slot_header(pos[p])] - pos[p]
       IN  pc' = [pc EXCEPT ![p] = IF diff <= 0 THEN "cas" ELSE "reload"]
    /\ UNCHANGED <<ringVars, pos, retry, rec, alive, consVars, attempts, claims, popped>>

\* Mutant: a slot that is ahead of pos counts as full.
LoadSeqNoReload(p) ==
    /\ p \in alive /\ pc[p] = "load_seq"
    /\ LET diff == seq[slot_header(pos[p])] - pos[p]
       IN  pc' = [pc EXCEPT ![p] = IF diff = 0 THEN "cas" ELSE "refuse"]
    /\ UNCHANGED <<ringVars, pos, retry, rec, alive, consVars, attempts, claims, popped>>

\* Load the slot's sequence word and branch on its distance to pos.
LoadSeq(p) ==
    /\ p \in alive /\ pc[p] = "load_seq"
    /\ LET diff == seq[slot_header(pos[p])] - pos[p]
       IN  pc' = [pc EXCEPT ![p] = IF diff = 0 THEN "cas"
                                   ELSE IF diff < 0 THEN "refuse" ELSE "reload"]
    /\ UNCHANGED <<ringVars, pos, retry, rec, alive, consVars, attempts, claims, popped>>

\* Mutant: a plain store of pos + 1 instead of the compare-exchange.
CasClaimStore(p) ==
    /\ p \in alive /\ pc[p] = "cas"
    /\ tail' = pos[p] + 1
    /\ claims' = Append(claims, rec[p])
    /\ pc' = [pc EXCEPT ![p] = "write_header"]
    /\ UNCHANGED <<head, seq, hdr, body, lost, pos, retry, rec, alive, consVars, attempts, popped>>

\* compare_exchange_weak(tail, pos, pos + 1) succeeds: the position is ours.
CasClaim(p) ==
    /\ p \in alive /\ pc[p] = "cas"
    /\ tail = pos[p]
    /\ tail' = tail + 1
    /\ claims' = Append(claims, rec[p])
    /\ pc' = [pc EXCEPT ![p] = "write_header"]
    /\ UNCHANGED <<head, seq, hdr, body, lost, pos, retry, rec, alive, consVars, attempts, popped>>

\* It fails, because tail moved or spuriously, and pos becomes what it saw.
CasFail(p) ==
    /\ p \in alive /\ pc[p] = "cas"
    /\ pos' = [pos EXCEPT ![p] = tail]
    /\ NextTry(p)
    /\ UNCHANGED <<ringVars, rec, alive, consVars, attempts, claims, popped>>

\* The slot is ahead of pos: another producer took it; load tail again.
ReloadTail(p) ==
    /\ p \in alive /\ pc[p] = "reload"
    /\ pos' = [pos EXCEPT ![p] = tail]
    /\ NextTry(p)
    /\ UNCHANGED <<ringVars, rec, alive, consVars, attempts, claims, popped>>

\* Mutant: RingFull is returned without counting the loss.
RefuseSilently(p) ==
    /\ p \in alive /\ pc[p] = "refuse"
    /\ pc' = [pc EXCEPT ![p] = "idle"]
    /\ UNCHANGED <<ringVars, pos, retry, rec, alive, consVars, attempts, claims, popped>>

\* Full ring or spent budget: count the loss and return RingFull.
Refuse(p) ==
    /\ p \in alive /\ pc[p] = "refuse"
    /\ lost' = lost + 1
    /\ pc' = [pc EXCEPT ![p] = "idle"]
    /\ UNCHANGED <<head, tail, seq, hdr, body, pos, retry, rec, alive, consVars,
                   attempts, claims, popped>>

\* Mutant: the sequence word is stored before the payload is copied.
WriteHeaderPublishFirst(p) ==
    /\ p \in alive /\ pc[p] = "write_header"
    /\ hdr' = [hdr EXCEPT ![slot_header(pos[p])] = StoredHeader(rec[p])]
    /\ seq' = [seq EXCEPT ![slot_header(pos[p])] = pos[p] + 1]
    /\ pc' = [pc EXCEPT ![p] = "write_body"]
    /\ UNCHANGED <<head, tail, body, lost, pos, retry, rec, alive, consVars,
                   attempts, claims, popped>>

\* Plain stores of len, type, flags and user into the claimed slot.
WriteHeader(p) ==
    /\ p \in alive /\ pc[p] = "write_header"
    /\ hdr' = [hdr EXCEPT ![slot_header(pos[p])] = StoredHeader(rec[p])]
    /\ pc' = [pc EXCEPT ![p] = "write_body"]
    /\ UNCHANGED <<head, tail, seq, body, lost, pos, retry, rec, alive, consVars,
                   attempts, claims, popped>>

\* memcpy of the payload.
WriteBody(p) ==
    /\ p \in alive /\ pc[p] = "write_body"
    /\ body' = [body EXCEPT ![slot_header(pos[p])] = rec[p].id]
    /\ pc' = [pc EXCEPT ![p] = "publish"]
    /\ UNCHANGED <<head, tail, seq, hdr, lost, pos, retry, rec, alive, consVars,
                   attempts, claims, popped>>

\* Mutant: pos is published instead of pos + 1.
PublishPos(p) ==
    /\ p \in alive /\ pc[p] = "publish"
    /\ seq' = [seq EXCEPT ![slot_header(pos[p])] = pos[p]]
    /\ pc' = [pc EXCEPT ![p] = "idle"]
    /\ UNCHANGED <<head, tail, hdr, body, lost, pos, retry, rec, alive, consVars,
                   attempts, claims, popped>>

\* Release store of pos + 1: the record is visible, try_push returns.
Publish(p) ==
    /\ p \in alive /\ pc[p] = "publish"
    /\ seq' = [seq EXCEPT ![slot_header(pos[p])] = pos[p] + 1]
    /\ pc' = [pc EXCEPT ![p] = "idle"]
    /\ UNCHANGED <<head, tail, hdr, body, lost, pos, retry, rec, alive, consVars,
                   attempts, claims, popped>>

\* The producer dies where it stands.
Crash(p) ==
    /\ p \in alive
    /\ alive' = alive \ {p}
    /\ UNCHANGED <<ringVars, pc, pos, retry, rec, consVars, attempts, claims, popped>>

ProducerStep(p) ==
    \/ LoadSeq(p) \/ CasClaim(p) \/ CasFail(p) \/ ReloadTail(p) \/ Refuse(p)
    \/ WriteHeader(p) \/ WriteBody(p) \/ Publish(p)

-----------------------------------------------------------------------------
(* MpscRing::try_pop; a call that finds the ring empty changes nothing *)

\* Mutant: any sequence word past head counts as published.
PopReadyLoose ==
    /\ cpc = "idle"
    /\ seq[slot_header(head)] >= head + 1
    /\ cpos' = head
    /\ cpc' = "copy_payload"
    /\ UNCHANGED <<ringVars, prodVars, cout, attempts, claims, popped>>

\* The slot at head is published: pop it.
PopReady ==
    /\ cpc = "idle"
    /\ seq[slot_header(head)] = head + 1
    /\ cpos' = head
    /\ cpc' = "copy_payload"
    /\ UNCHANGED <<ringVars, prodVars, cout, attempts, claims, popped>>

\* Read len, copy the payload out.
CopyPayload ==
    /\ cpc = "copy_payload"
    /\ cout' = [cout EXCEPT !.payload = PayloadOut(hdr[slot_header(cpos)],
                                                   body[slot_header(cpos)])]
    /\ cpc' = "copy_header"
    /\ UNCHANGED <<ringVars, prodVars, cpos, attempts, claims, popped>>

\* Read type, flags and user.
CopyHeader ==
    /\ cpc = "copy_header"
    /\ cout' = [cout EXCEPT !.header = HeaderOut(hdr[slot_header(cpos)])]
    /\ cpc' = "free_slot"
    /\ UNCHANGED <<ringVars, prodVars, cpos, attempts, claims, popped>>

\* Release store of pos + record_max: producers may claim the slot again.
FreeSlot ==
    /\ cpc = "free_slot"
    /\ seq' = [seq EXCEPT ![slot_header(cpos)] = cpos + RecordMax]
    /\ popped' = Append(popped, cout)
    /\ cpc' = "advance"
    /\ UNCHANGED <<head, tail, hdr, body, lost, prodVars, cpos, cout, attempts, claims>>

\* Store head and return true.
AdvanceHead ==
    /\ cpc = "advance"
    /\ head' = cpos + 1
    /\ cpc' = "idle"
    /\ UNCHANGED <<tail, seq, hdr, body, lost, prodVars, cpos, cout, attempts, claims, popped>>

\* The consumer dies inside try_pop; its successor binds to the ring and
\* starts from what is in shared memory.
ConsumerCrash ==
    /\ cpc # "idle"
    /\ cpc' = "idle"
    /\ UNCHANGED <<ringVars, prodVars, cpos, cout, attempts, claims, popped>>

ConsumerStep == PopReady \/ CopyPayload \/ CopyHeader \/ FreeSlot \/ AdvanceHead

-----------------------------------------------------------------------------
(* Specification *)

Next ==
    \/ \E p \in Producers, size \in PayloadSizes : BeginPush(p, size)
    \/ \E p \in Producers : ProducerStep(p) \/ Crash(p)
    \/ ConsumerStep
    \/ ConsumerCrash

Spec == Init /\ [][Next]_vars

\* A live producer keeps executing; nothing is assumed of the consumer.
ProducerFairness == \A p \in Producers : WF_vars(ProducerStep(p))

\* The consumer keeps polling (LogCenter::poll_once in a loop).
ConsumerFairness == WF_vars(ConsumerStep)

\* Consumers do not die in try_pop again and again for ever.
ConsumerSettles == <>[][~ConsumerCrash]_vars

NonBlockingSpec == Spec /\ ProducerFairness

-----------------------------------------------------------------------------
(* Properties *)

Claiming == {"load_seq", "cas", "reload", "refuse"}

Writing == {"write_header", "write_body", "publish"}

Reading == {"copy_payload", "copy_header", "free_slot"}

\* What the consumer has to receive for a record r that was pushed.
Delivered(r) ==
    LET size == Smaller(r.size, SlotPayload)
    IN  [payload |-> [data |-> r.id, payload_size |-> size,
                      copied_size |-> Smaller(OutSize, size)],
         header  |-> [user |-> r.id, truncated |-> r.size > SlotPayload]]

\* Types, with the retry budget of the claim loop as a bound.
TypeOK ==
    /\ head \in Nat /\ tail \in Nat /\ lost \in Nat
    /\ seq \in [Slots -> Nat]
    /\ hdr \in [Slots -> [user : Nat, len : Nat, truncated : BOOLEAN]]
    /\ body \in [Slots -> Nat]
    /\ pc \in [Producers -> {"idle"} \cup Claiming \cup Writing]
    /\ pos \in [Producers -> Nat]
    /\ retry \in [Producers -> 0 .. RetryBudget]
    /\ rec \in [Producers -> Record \cup {NoRecord}]
    /\ alive \subseteq Producers
    /\ cpc \in {"idle", "advance"} \cup Reading
    /\ cpos \in Nat
    /\ cout \in [payload : [data : Nat, payload_size : Nat, copied_size : Nat],
                 header : [user : Nat, truncated : BOOLEAN]]
    /\ attempts \in 0 .. MaxPush
    /\ claims \in Seq(Record)
    /\ popped \in Seq([payload : [data : Nat, payload_size : Nat, copied_size : Nat],
                       header : [user : Nat, truncated : BOOLEAN]])

\* A full ring refuses: at most record_max records are claimed and not yet
\* popped, whatever the producers interleave ("full rings return RingFull").
WithinCapacity == tail <= Len(popped) + RecordMax

\* The plain (non-atomic) record bytes of a slot are never written by two
\* producers at once, nor read by the consumer while a producer writes them.
SlotExclusive ==
    \A p \in Producers : pc[p] \in Writing =>
        /\ \A q \in Producers \ {p} :
               pc[q] \in Writing => slot_header(pos[q]) # slot_header(pos[p])
        /\ cpc \in Reading => slot_header(cpos) # slot_header(pos[p])

\* Records come out once each, in the order their positions were claimed,
\* with the header and the bytes of one record and the truncation reported;
\* a consumer that died in try_pop and was replaced changes nothing of it.
FifoUntorn ==
    /\ Len(popped) <= Len(claims)
    /\ \A i \in 1 .. Len(popped) : popped[i] = Delivered(claims[i])

\* try_push gives up on a sequence word behind pos only when every slot is
\* taken at that moment: a stale tail never causes a refusal.
HonestRefusal ==
    [][\A p \in Producers :
          pc[p] = "load_seq" /\ pc'[p] = "refuse" => tail = Len(popped) + RecordMax]_vars

\* Every try_push call is accounted for: it is in the ring, counted in
\* lost_count, or still in the claim loop (for good, when its thread died).
Accounting ==
    attempts = Len(claims) + lost
               + Cardinality({p \in Producers : pc[p] \in Claiming})

\* Producers never block: whatever the others and the consumer do, also
\* when they have stopped for good, a producer that runs leaves try_push.
PushTerminates ==
    \A p \in Producers : pc[p] # "idle" ~> (pc[p] = "idle" \/ p \notin alive)

\* The two ways in which a claimed record i can stay in the ring for good:
\* a producer died between its claim and its publish at or before i, or a
\* consumer died between freeing a slot and storing head.
Abandoned(i) ==
    \E p \in Producers \ alive : pc[p] \in Writing /\ pos[p] < i

Wedged == cpc = "idle" /\ Len(popped) > head

\* While a consumer polls, every claimed record reaches it and its slot is
\* given back, unless a thread died at one of the two places above.
EventualDelivery ==
    ConsumerFairness /\ ConsumerSettles =>
        \A i \in 1 .. MaxPush :
            Len(claims) >= i ~> (head >= i \/ Abandoned(i) \/ Wedged)

\* The i-th place of the channel, and the channel's queue: the positions
\* claimed and not yet popped.
Place(i) ==
    [rec   |-> Delivered(claims[Len(popped) + i]),
     ready |-> seq[slot_header(Len(popped) + i - 1)] = Len(popped) + i]

Queue == [i \in 1 .. Len(claims) - Len(popped) |-> Place(i)]

Channel == INSTANCE RecordChannel WITH
    Records   <- {Delivered(r) : r \in Record},
    Capacity  <- RecordMax,
    queue     <- Queue,
    delivered <- popped,
    dropped   <- lost

\* The ring implements the bounded channel: a place is reserved by the CAS
\* on tail, committed by the store of the sequence word, delivered by the
\* store that frees the slot.
ImplementsChannel == Channel!Spec
=============================================================================
