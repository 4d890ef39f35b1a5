--------------------------- MODULE RegistryProofs ---------------------------
(***************************************************************************)
(* Proofs about Registry for every set of processes and names, number of   *)
(* slots, retries, operations and crashes.                                 *)
(***************************************************************************)
EXTENDS Registry, FiniteSetTheorems, WellFoundedInduction, TLAPS

-----------------------------------------------------------------------------
(* The inductive invariant *)

Locked == {"locked", "recover", "unlock"} \cup Writing

Reading == {"s1", "copy_head", "copy_rest", "s2"}

\* Steps of publish_slot before it is done with the entry.
Publishing == {"count", "odd", "head", "rest", "mark", "even"}

\* Where a process is that repairs the table.
Repair == {"recover", "odd", "head", "rest", "even", "clear_bit"}

\* The mutex excludes, and the locals are those of the operation at hand.
LocalInv ==
    /\ pc \in [Procs -> {"idle", "lock", "bit"} \cup Reading \cup Locked]
    /\ out \in [Procs -> SUBSET Entry]
    /\ \A p \in Procs :
        /\ lock = p <=> pc[p] \in Locked
        /\ pc[p] # "idle" /\ op[p] # "list" => arg[p].name \in Names
        /\ pc[p] \in Reading => retry[p] < SnapRetries
        /\ pc[p] \in {"bit"} \cup Reading => op[p] = "list"
        /\ op[p] = "list" /\ pc[p] \notin {"idle", "bit", "unlock"} => ri[p] \in SlotIds
        /\ pc[p] \in Writing => wi[p] \in SlotIds

Clean(i) == ~Odd(slot[i].seq) /\ bit[i] = (slot[i].name # NoName)

Bits == {i \in SlotIds : bit[i]}

\* The table has what was last registered for a name.
Holds(n) ==
    /\ \A i \in SlotIds : slot[i].name = n => slot[i].info = dir[n]
    /\ (\A i \in SlotIds : slot[i].name # n) => dir[n] = 0

\* A name is in at most one slot, and in none that is free.
NamesInv ==
    /\ \A i \in SlotIds : slot[i].name # NoName => bit[i]
    /\ \A i, j \in SlotIds : i # j /\ slot[i].name = slot[j].name => slot[i].name = NoName

\* p is at its write to the table, and the table was consistent before it.
WritingNow(p) == lock = p /\ ~dead /\ pc[p] \in Writing

\* Every name is intact but the ones hurt and the one being written.
ContentInv ==
    \A n \in Names \ hurt :
        \/ Holds(n)
        \/ \E p \in Procs : WritingNow(p) /\ pc[p] \in Publishing /\ arg[p].name = n

\* Outside a write the table is consistent.
QuietInv ==
    ~dead /\ (\A p \in Procs : ~WritingNow(p)) =>
        count = Cardinality(Bits) /\ \A i \in SlotIds : Clean(i)

\* What the writer has done to its slot, and to no other one.
WriterInv(p) ==
    /\ op[p] # "list"
    /\ src[p] = IF op[p] = "register" THEN arg[p] ELSE Empty
    /\ \A j \in SlotIds \ {wi[p]} : Clean(j) /\ slot[j].name # arg[p].name
    /\ bit[wi[p]] <=> pc[p] # "discount"
    /\ count = CASE pc[p] = "count" -> Cardinality(Bits) - 1
                 [] pc[p] = "discount" -> Cardinality(Bits) + 1
                 [] OTHER -> Cardinality(Bits)
    /\ pc[p] = "count" => op[p] = "register"
    /\ pc[p] \in {"clear_bit", "discount"} => op[p] = "unregister"
    /\ pc[p] \in {"count", "odd", "head"} => slot[wi[p]].name \in {NoName, arg[p].name}
    /\ pc[p] \in {"rest", "mark", "even"} => slot[wi[p]].name = src[p].name
    /\ pc[p] \in {"mark", "even"} => slot[wi[p]].info = src[p].info
    /\ pc[p] \in {"clear_bit", "discount"} =>
          slot[wi[p]].name = NoName /\ ~Odd(slot[wi[p]].seq)

\* After a crash only names that were being written are in damaged slots.
DamageInv ==
    dead => \A i \in SlotIds : Clean(i) \/ slot[i].name \in hurt \cup {NoName}

\* The repair: what lies behind the loop is consistent.
RepairInv(p) ==
    /\ pc[p] \in Repair
    /\ \A i \in SlotIds : i < wi[p] => Clean(i)
    /\ pc[p] \in {"odd", "head", "rest"} => src[p] = Empty
    /\ pc[p] \in {"odd", "head"} => slot[wi[p]].name \in hurt \cup {NoName}
    /\ pc[p] \in {"rest", "even", "clear_bit"} => slot[wi[p]].name = NoName
    /\ pc[p] = "clear_bit" => ~Odd(slot[wi[p]].seq)

HolderInv ==
    \A p \in Procs :
        /\ WritingNow(p) => WriterInv(p)
        /\ Repairing(p) => RepairInv(p)
        /\ pc[p] = "recover" => dead

SharedInv == NamesInv /\ ContentInv /\ QuietInv /\ DamageInv /\ HolderInv

Inv == TypeOK /\ LocalInv /\ SharedInv

-----------------------------------------------------------------------------
(* Lemmas *)

\* First is the least element of a set of numbers.
LEMMA FirstIn ==
    ASSUME NEW S \in SUBSET Nat, S # {}
    PROVE  First(S) \in S
<1>1. PICK R : R = OpToRel(<, Nat)
  OBVIOUS
<1>2. \A x, y \in Nat : x < y => <<x, y>> \in R
  BY <1>1 DEF OpToRel
<1>3. PICK x \in S : \A y \in S : <<y, x>> \notin R
  BY <1>1, NatLessThanWellFounded, WFMin
<1>4. ASSUME NEW y \in S PROVE x <= y
  <2>1. x \in Nat /\ y \in Nat /\ <<y, x>> \notin R
    BY <1>3
  <2> QED BY <1>2, <2>1
<1>5. \E z \in S : \A y \in S : z <= y
  BY <1>4
<1> QED BY <1>5 DEF First

\* The number of entries.
LEMMA BitsFinite ==
    IsFiniteSet(Bits) /\ Cardinality(Bits) \in 0 .. NSlots
<1>1. IsFiniteSet(SlotIds) /\ Cardinality(SlotIds) = NSlots
  BY FS_Interval, RegistryAssumption DEF SlotIds
<1>2. Bits \in SUBSET SlotIds
  BY DEF Bits
<1>3. IsFiniteSet(Bits) /\ Cardinality(Bits) <= Cardinality(SlotIds)
  BY <1>1, <1>2, FS_Subset
<1> QED BY <1>1, <1>3, FS_CardinalityType, RegistryAssumption

LEMMA OddEven ==
    ASSUME NEW n \in Nat
    PROVE  /\ n + 1 \in Nat /\ n + 2 \in Nat
           /\ ~Odd(IF Odd(n) THEN n + 1 ELSE n + 2)
  BY DEF Odd

\* An entry whose words are written one by one is an entry.
LEMMA EntryUpdate ==
    ASSUME NEW e \in Entry, NEW d \in Entry, NEW n \in Nat
    PROVE  /\ [e EXCEPT !.seq = n] \in Entry /\ [e EXCEPT !.seq = n].name = e.name
           /\ [e EXCEPT !.seq = n].info = e.info /\ [e EXCEPT !.seq = n].seq = n
           /\ [e EXCEPT !.info = d.info] \in Entry /\ [e EXCEPT !.info = d.info].name = e.name
           /\ [e EXCEPT !.info = d.info].info = d.info
  BY DEF Entry

LEMMA EmptyEntry ==
    Empty \in Entry /\ Empty.name = NoName /\ Empty.info = 0 /\ Empty.seq = 0
  BY RegistryAssumption DEF Empty, Entry

\* Steps that write neither the table nor what the holder of the mutex uses:
\* the readers', and those outside the mutex.
LEMMA Frame ==
    ASSUME Inv, NEW p \in Procs, UNCHANGED <<bit, slot, count, lock, dead, dir, hurt>>,
           lock # p, pc'[p] \notin Locked,
           \A q \in Procs \ {p} : /\ pc'[q] = pc[q] /\ op'[q] = op[q] /\ arg'[q] = arg[q]
                                  /\ wi'[q] = wi[q] /\ src'[q] = src[q]
    PROVE  SharedInv'
<1>1. Bits' = Bits /\ \A i \in SlotIds : Clean(i)' <=> Clean(i)
  BY DEF Bits, Clean
<1>2. \A n \in Names : Holds(n)' <=> Holds(n)
  BY DEF Holds
<1>3. \A q \in Procs : WritingNow(q)' <=> WritingNow(q)
  BY DEF WritingNow
<1>4. \A q \in Procs : WritingNow(q) => q # p
  BY DEF WritingNow
<1>5. NamesInv'
  BY DEF Inv, SharedInv, NamesInv
<1>6. ContentInv'
  BY <1>2, <1>3, <1>4 DEF Inv, SharedInv, ContentInv
<1>7. QuietInv'
  BY <1>1, <1>3 DEF Inv, SharedInv, QuietInv
<1>8. DamageInv'
  BY <1>1 DEF Inv, SharedInv, DamageInv
<1>9. HolderInv'
  <2> SUFFICES ASSUME NEW q \in Procs
               PROVE  /\ WritingNow(q)' => WriterInv(q)'
                      /\ Repairing(q)' => RepairInv(q)'
                      /\ pc'[q] = "recover" => dead'
    BY DEF HolderInv
  <2>1. CASE q = p
    <3>1. ~WritingNow(q)' /\ ~Repairing(q)'
      BY <2>1, <1>3, <1>4 DEF Repairing
    <3>2. pc'[q] # "recover"
      BY <2>1 DEF Locked
    <3> QED BY <3>1, <3>2
  <2>2. CASE q # p
    <3>1. WritingNow(q) => WriterInv(q)'
      BY <1>1, <2>2 DEF Inv, SharedInv, HolderInv, WriterInv
    <3>2. Repairing(q)' => RepairInv(q)'
      BY <1>1, <2>2 DEF Inv, SharedInv, HolderInv, RepairInv, Repairing
    <3> QED BY <1>3, <2>2, <3>1, <3>2 DEF Inv, SharedInv, HolderInv
  <2> QED BY <2>1, <2>2
<1> QED BY <1>5, <1>6, <1>7, <1>8, <1>9 DEF SharedInv

\* Only the holder of the mutex writes or repairs.
LEMMA OneHolder ==
    ASSUME Inv, NEW p \in Procs, lock = p, NEW q \in Procs, q # p
    PROVE  ~WritingNow(q) /\ ~Repairing(q) /\ pc[q] \notin Locked
  BY DEF Inv, LocalInv, WritingNow, Repairing

\* What p publishes touches no other name.
LEMMA OthersHold ==
    ASSUME Inv, NEW p \in Procs, WritingNow(p)
    PROVE  /\ \A n \in Names \ hurt : n # arg[p].name => Holds(n)
           /\ pc[p] \in Publishing => slot[wi[p]].name \in {NoName, arg[p].name}
           /\ wi[p] \in SlotIds /\ arg[p].name \in Names /\ WriterInv(p)
<1>1. lock = p /\ WriterInv(p)
  BY DEF Inv, SharedInv, HolderInv, WritingNow
<1>2. \A n \in Names \ hurt : n # arg[p].name => Holds(n)
  BY <1>1, OneHolder DEF Inv, SharedInv, ContentInv
<1>3. wi[p] \in SlotIds /\ arg[p].name \in Names
  BY <1>1 DEF Inv, LocalInv, WritingNow, WriterInv, Writing
<1>4. pc[p] \in Publishing => slot[wi[p]].name \in {NoName, arg[p].name}
  BY <1>1, EmptyEntry DEF WriterInv, Publishing
<1> QED BY <1>1, <1>2, <1>3, <1>4

\* One store of publish_slot before the last.
LEMMA PublishStep ==
    ASSUME Inv, NEW p \in Procs, WritingNow(p), pc[p] \in Publishing,
           UNCHANGED <<bit, count, lock, dead, op, arg, wi, src, dir, hurt>>,
           NEW e \in Entry, slot' = [slot EXCEPT ![wi[p]] = e], e.name \in {NoName, arg[p].name},
           NEW l \in Publishing, pc' = [pc EXCEPT ![p] = l], WriterInv(p)'
    PROVE  SharedInv'
<1>0. PICK i \in SlotIds : i = wi[p]
  BY OthersHold
<1>1. /\ slot'[i] = e /\ \A j \in SlotIds \ {i} : slot'[j] = slot[j] /\ slot[j].name # arg[p].name
      /\ slot[i].name \in {NoName, arg[p].name} /\ bit[i]
  BY <1>0, OthersHold DEF Inv, TypeOK, WriterInv, Publishing
<1>2. /\ lock' = p /\ ~dead' /\ WritingNow(p)' /\ pc'[p] = l /\ arg'[p] = arg[p]
      /\ \A q \in Procs \ {p} : pc'[q] = pc[q]
  BY DEF Inv, LocalInv, WritingNow, Publishing, Writing
<1>3. NamesInv'
  <2>1. \A j \in SlotIds : slot'[j].name # NoName => bit'[j]
    BY <1>1 DEF Inv, SharedInv, NamesInv
  <2>2. ASSUME NEW j \in SlotIds, NEW k \in SlotIds, j # k, slot'[j].name = slot'[k].name
        PROVE  slot'[j].name = NoName
    BY <1>1, <2>2 DEF Inv, SharedInv, NamesInv
  <2> QED BY <2>1, <2>2 DEF NamesInv
<1>4. ContentInv'
  <2>1. ASSUME NEW n \in Names \ hurt, n # arg[p].name PROVE Holds(n)'
    <3>1. Holds(n) /\ n # NoName
      BY <2>1, OthersHold, RegistryAssumption DEF NoName
    <3> QED BY <1>1, <2>1, <3>1 DEF Holds
  <2> QED BY <1>2, <2>1 DEF ContentInv
<1>5. QuietInv' /\ DamageInv'
  BY <1>2 DEF QuietInv, DamageInv
<1>6. HolderInv'
  <2> SUFFICES ASSUME NEW q \in Procs
               PROVE  /\ WritingNow(q)' => WriterInv(q)'
                      /\ Repairing(q)' => RepairInv(q)'
                      /\ pc'[q] = "recover" => dead'
    BY DEF HolderInv
  <2>1. CASE q = p
    BY <1>2, <2>1 DEF Repairing, Publishing
  <2>2. CASE q # p
    BY <1>2, <2>2, OneHolder DEF WritingNow, Repairing, Locked
  <2> QED BY <2>1, <2>2
<1> QED BY <1>3, <1>4, <1>5, <1>6 DEF SharedInv

\* One store to a damaged slot.
LEMMA RepairStep ==
    ASSUME Inv, NEW p \in Procs, Repairing(p), pc[p] \in Writing,
           UNCHANGED <<bit, count, lock, dead, op, arg, wi, src, dir, hurt>>,
           NEW e \in Entry, slot' = [slot EXCEPT ![wi[p]] = e], e.name \in {NoName, slot[wi[p]].name},
           NEW l \in Repair, pc' = [pc EXCEPT ![p] = l], RepairInv(p)'
    PROVE  SharedInv'
<1>0. PICK i \in SlotIds : i = wi[p]
  BY DEF Inv, LocalInv
<1>1. /\ slot'[i] = e /\ \A j \in SlotIds \ {i} : slot'[j] = slot[j]
      /\ slot[i].name \in hurt \cup {NoName} /\ dead /\ lock = p
  BY <1>0 DEF Inv, TypeOK, SharedInv, HolderInv, RepairInv, Repairing, Repair, Writing
<1>2. /\ lock' = p /\ dead' /\ Repairing(p)' /\ pc'[p] = l
      /\ \A q \in Procs \ {p} : pc'[q] = pc[q]
  BY <1>1 DEF Inv, LocalInv, Repairing
<1>3. NamesInv'
  <2>1. \A j \in SlotIds : slot'[j].name # NoName => bit'[j]
    BY <1>0, <1>1 DEF Inv, SharedInv, NamesInv
  <2>2. ASSUME NEW j \in SlotIds, NEW k \in SlotIds, j # k, slot'[j].name = slot'[k].name
        PROVE  slot'[j].name = NoName
    BY <1>0, <1>1, <2>2 DEF Inv, SharedInv, NamesInv
  <2> QED BY <2>1, <2>2 DEF NamesInv
<1>4. ContentInv'
  <2>1. ASSUME NEW n \in Names \ hurt PROVE Holds(n)'
    <3>1. Holds(n) /\ n # NoName
      BY <1>1, <2>1, RegistryAssumption DEF NoName, Inv, SharedInv, ContentInv, WritingNow
    <3> QED BY <1>0, <1>1, <2>1, <3>1 DEF Holds
  <2> QED BY <2>1 DEF ContentInv
<1>5. QuietInv'
  BY <1>2 DEF QuietInv
<1>6. DamageInv'
  <2>1. ASSUME NEW j \in SlotIds PROVE Clean(j)' \/ slot'[j].name \in hurt \cup {NoName}
    <3>1. CASE j = i
      BY <1>0, <1>1, <3>1
    <3>2. CASE j # i
      BY <1>1, <3>2 DEF Inv, SharedInv, DamageInv, Clean
    <3> QED BY <3>1, <3>2
  <2> QED BY <2>1 DEF DamageInv
<1>7. HolderInv'
  <2> SUFFICES ASSUME NEW q \in Procs
               PROVE  /\ WritingNow(q)' => WriterInv(q)'
                      /\ Repairing(q)' => RepairInv(q)'
                      /\ pc'[q] = "recover" => dead'
    BY DEF HolderInv
  <2> QED BY <1>2 DEF WritingNow, Repairing
<1> QED BY <1>3, <1>4, <1>5, <1>6, <1>7 DEF SharedInv

-----------------------------------------------------------------------------
(* Types and locals *)

LEMMA InitInv == Init => Inv
<1> SUFFICES ASSUME Init PROVE Inv
  OBVIOUS
<1>1. Cardinality(Bits) = 0
  <2>1. Bits = {}
    BY DEF Init, Bits
  <2> QED BY <2>1, FS_EmptySet
<1>2. TypeOK
  <2>1. 1 \in 1 .. NSlots + 1 /\ 0 \in 0 .. NSlots /\ 0 \in 0 .. SnapRetries /\ 0 \in 0 .. MaxCrash
        /\ 0 \in 0 .. MaxOps
    BY RegistryAssumption
  <2> QED BY <2>1, EmptyEntry DEF Init, TypeOK
<1>3. LocalInv
  BY RegistryAssumption DEF Init, LocalInv, Locked, Reading, Writing, Procs
<1>4. \A i \in SlotIds : slot[i].name = NoName /\ Clean(i)
  <2>1. ASSUME NEW i \in SlotIds PROVE slot[i] = Empty /\ ~bit[i]
    BY DEF Init
  <2>2. ~Odd(0)
    BY DEF Odd
  <2> QED BY <2>1, <2>2, EmptyEntry DEF Clean, Init
<1>5. NamesInv /\ ContentInv /\ QuietInv /\ DamageInv
  <2>1. ContentInv
    BY <1>4, RegistryAssumption DEF Init, ContentInv, Holds, NoName
  <2> QED BY <1>1, <1>4, <2>1 DEF Init, NamesInv, QuietInv, DamageInv
<1>6. HolderInv
  BY RegistryAssumption DEF Init, HolderInv, WritingNow, Repairing, Procs
<1> QED BY <1>2, <1>3, <1>5, <1>6 DEF Inv, SharedInv

\* Operations that begin.
LEMMA StartLocal ==
    ASSUME Inv, NEW p \in Procs, Start(p)
    PROVE  TypeOK' /\ LocalInv'
<1>0. ops \in Nat /\ ops < MaxOps => ops + 1 \in 0 .. MaxOps
  BY RegistryAssumption DEF Inv, TypeOK
<1> USE DEF Begin, Goto, ForgetSnapshot, ForgetCopy, table, mutex, reader
<1>1. ASSUME NEW n \in Names, BeginRegister(p, n) PROVE TypeOK' /\ LocalInv'
  <2>1. ops' = ops + 1 /\ ops + 1 \in 0 .. MaxOps
    BY <1>0, <1>1 DEF BeginRegister, Inv, TypeOK
  <2>2. [seq |-> 0, name |-> n, info |-> ops + 1] \in Entry
    BY <2>1 DEF Entry
  <2>3. TypeOK'
    BY <1>1, <2>1, <2>2 DEF BeginRegister, Inv, TypeOK
  <2>4. LocalInv'
    BY <1>1 DEF BeginRegister, Inv, TypeOK, LocalInv, Locked, Reading, Writing
  <2> QED BY <2>3, <2>4
<1>2. ASSUME NEW n \in Names, BeginUnregister(p, n) PROVE TypeOK' /\ LocalInv'
  <2>1. ops' = ops + 1 /\ ops + 1 \in 0 .. MaxOps
    BY <1>0, <1>2 DEF BeginUnregister, Inv, TypeOK
  <2>2. [Empty EXCEPT !.name = n] \in Entry /\ [Empty EXCEPT !.name = n].name = n
    BY EmptyEntry DEF Entry
  <2>3. TypeOK'
    BY <1>2, <2>1, <2>2 DEF BeginUnregister, Inv, TypeOK
  <2>4. LocalInv'
    BY <1>2, <2>2 DEF BeginUnregister, Inv, TypeOK, LocalInv, Locked, Reading, Writing
  <2> QED BY <2>3, <2>4
<1>3. ASSUME NEW e \in out[p], BeginTouch(p, e) PROVE TypeOK' /\ LocalInv'
  <2>1. ops' = ops + 1 /\ ops + 1 \in 0 .. MaxOps
    BY <1>0, <1>3 DEF BeginTouch, Inv, TypeOK
  <2>2. e \in Entry
    BY <1>3 DEF Inv, TypeOK
  <2>3. [e EXCEPT !.info = ops + 1] \in Entry /\ [e EXCEPT !.info = ops + 1].name = e.name
    BY <2>1, <2>2 DEF Entry
  <2>4. TypeOK'
    BY <1>3, <2>1, <2>3 DEF BeginTouch, Inv, TypeOK
  <2>5. LocalInv'
    BY <1>3, <2>3 DEF BeginTouch, Inv, TypeOK, LocalInv, Locked, Reading, Writing
  <2> QED BY <2>4, <2>5
<1>4. CASE BeginList(p)
  <2>1. ops' = ops + 1 /\ ops + 1 \in 0 .. MaxOps
    BY <1>0, <1>4 DEF BeginList, Inv, TypeOK
  <2>2. TypeOK'
    BY <1>4, <2>1, RegistryAssumption DEF BeginList, Inv, TypeOK, LocalInv
  <2>3. LocalInv'
    BY <1>4 DEF BeginList, Inv, TypeOK, LocalInv, Locked, Reading, Writing
  <2> QED BY <2>2, <2>3
<1> QED BY <1>1, <1>2, <1>3, <1>4 DEF Start

\* The steps of list outside the mutex.
LEMMA ReadLocal ==
    ASSUME Inv, NEW p \in Procs,
           CheckBit(p) \/ LoadS1(p) \/ CopyHead(p) \/ CopyRest(p) \/ LoadS2(p) \/ ReadLocked(p)
    PROVE  TypeOK' /\ LocalInv'
<1> USE DEF Goto, ForgetSnapshot, ForgetCopy, table, mutex, writer, history, NextSlot
<1>1. CASE CheckBit(p)
  <2>1. /\ ri[p] \in SlotIds => ri[p] + 1 \in 1 .. NSlots + 1
        /\ 1 \in 1 .. NSlots + 1 /\ 0 \in 0 .. SnapRetries /\ 0 < SnapRetries
    BY RegistryAssumption DEF SlotIds
  <2>2. /\ pc[p] = "bit" /\ op[p] = "list"
        /\ pc' \in {[pc EXCEPT ![p] = "idle"], [pc EXCEPT ![p] = "s1"], pc}
        /\ ri' \in {[ri EXCEPT ![p] = 1], ri, [ri EXCEPT ![p] = @ + 1]}
        /\ pc' = [pc EXCEPT ![p] = "s1"] => ri' = ri /\ ri[p] \in SlotIds
        /\ ri' = [ri EXCEPT ![p] = @ + 1] => ri[p] \in SlotIds \/ ri' \in {[ri EXCEPT ![p] = 1], ri}
    BY <1>1 DEF CheckBit, Inv, LocalInv
  <2>3. ri' \in [Procs -> 1 .. NSlots + 1]
    BY <2>1, <2>2 DEF Inv, TypeOK
  <2>4. TypeOK'
    BY <1>1, <2>1, <2>3, EmptyEntry DEF CheckBit, Inv, TypeOK, LocalInv
  <2>5. /\ pc' \in [Procs -> {"idle", "lock", "bit"} \cup Reading \cup Locked]
        /\ pc'[p] \in {"idle", "s1", "bit"} /\ retry'[p] = 0 /\ op' = op /\ lock' = lock /\ out' = out
        /\ pc'[p] = "s1" => ri'[p] \in SlotIds
        /\ \A q \in Procs \ {p} : /\ pc'[q] = pc[q] /\ ri'[q] = ri[q] /\ retry'[q] = retry[q]
                               /\ arg'[q] = arg[q] /\ wi'[q] = wi[q]
    BY <1>1, <2>2 DEF CheckBit, Inv, TypeOK, LocalInv, Reading
  <2>6. LocalInv'
    BY <2>1, <2>2, <2>5 DEF Inv, TypeOK, LocalInv, Locked, Reading, Writing
  <2> QED BY <2>4, <2>6
<1>2. CASE LoadS1(p)
  <2>1. ri[p] \in SlotIds /\ slot[ri[p]] \in Entry /\ slot[ri[p]].seq \in Nat /\ retry[p] + 1 \in 0 .. SnapRetries
    <3>1. ri[p] \in SlotIds /\ slot[ri[p]] \in Entry /\ retry[p] \in Nat /\ retry[p] < SnapRetries
      BY <1>2 DEF LoadS1, Inv, TypeOK, LocalInv, Reading
    <3> QED BY <3>1, RegistryAssumption DEF Entry
  <2>2. TypeOK'
    BY <1>2, <2>1, EmptyEntry DEF LoadS1, RetrySnapshot, ForgetCopy, Inv, TypeOK, LocalInv
  <2>3. LocalInv'
    BY <1>2, <2>1 DEF LoadS1, RetrySnapshot, ForgetCopy, Inv, TypeOK, LocalInv, Locked, Reading, Writing
  <2> QED BY <2>2, <2>3
<1>3. CASE CopyHead(p)
  <2>1. ri[p] \in SlotIds /\ slot[ri[p]] \in Entry
    BY <1>3 DEF CopyHead, Inv, TypeOK, LocalInv, Reading
  <2>2. [slot[ri[p]] EXCEPT !.info = 0] \in Entry
    BY <2>1, RegistryAssumption DEF Entry
  <2>3. TypeOK'
    BY <1>3, <2>2 DEF CopyHead, Inv, TypeOK, LocalInv
  <2>4. LocalInv'
    BY <1>3 DEF CopyHead, Inv, TypeOK, LocalInv, Locked, Reading, Writing
  <2> QED BY <2>3, <2>4
<1>4. CASE CopyRest(p)
  <2>1. ri[p] \in SlotIds /\ slot[ri[p]] \in Entry /\ snap[p] \in Entry
    BY <1>4 DEF CopyRest, Inv, TypeOK, LocalInv, Reading
  <2>2. [snap[p] EXCEPT !.info = slot[ri[p]].info] \in Entry
    BY <2>1, EntryUpdate
  <2>3. TypeOK'
    BY <1>4, <2>2 DEF CopyRest, Inv, TypeOK, LocalInv
  <2>4. LocalInv'
    BY <1>4 DEF CopyRest, Inv, TypeOK, LocalInv, Locked, Reading, Writing
  <2> QED BY <2>3, <2>4
<1>5. CASE LoadS2(p)
  <2>1. ri[p] \in SlotIds /\ ri[p] + 1 \in 1 .. NSlots + 1 /\ retry[p] + 1 \in 0 .. SnapRetries
    <3>1. ri[p] \in SlotIds /\ retry[p] \in Nat /\ retry[p] < SnapRetries
      BY <1>5 DEF LoadS2, Inv, TypeOK, LocalInv, Reading
    <3> QED BY <3>1, RegistryAssumption DEF SlotIds
  <2>2. TypeOK'
    BY <1>5, <2>1, EmptyEntry, RegistryAssumption DEF LoadS2, RetrySnapshot, ForgetCopy, Inv, TypeOK, LocalInv
  <2>3. LocalInv'
    BY <1>5, <2>1 DEF LoadS2, RetrySnapshot, ForgetCopy, Inv, TypeOK, LocalInv, Locked, Reading, Writing
  <2> QED BY <2>2, <2>3
<1>6. CASE ReadLocked(p)
  <2>1. ri[p] \in SlotIds /\ ri[p] + 1 \in 1 .. NSlots + 1 /\ slot[ri[p]] \in Entry
    <3>1. ri[p] \in SlotIds /\ slot[ri[p]] \in Entry
      BY <1>6 DEF ReadLocked, Inv, TypeOK, LocalInv
    <3> QED BY <3>1, RegistryAssumption DEF SlotIds
  <2>2. TypeOK'
    BY <1>6, <2>1, EmptyEntry, RegistryAssumption DEF ReadLocked, Inv, TypeOK, LocalInv
  <2>3. LocalInv'
    BY <1>6, <2>1 DEF ReadLocked, Inv, TypeOK, LocalInv, Locked, Reading, Writing
  <2> QED BY <2>2, <2>3
<1> QED BY <1>1, <1>2, <1>3, <1>4, <1>5, <1>6

\* The steps that take the mutex, repair and choose a slot.
LEMMA ChooseLocal ==
    ASSUME Inv, NEW p \in Procs,
           \/ Lock(p) \/ Recover(p) \/ MarkConsistent(p) \/ Unlock(p)
           \/ Overwrite(p) \/ TakeSlot(p) \/ GiveUp(p)
    PROVE  TypeOK' /\ LocalInv'
<1> USE DEF Goto, ForgetWriter, StartWrite, table, mutex, writer, reader, history
<1>0. /\ 1 \in 1 .. NSlots + 1 /\ SlotIds \subseteq 1 .. NSlots + 1
      /\ \A i \in SlotIds : i + 1 \in 1 .. NSlots + 1 /\ slot[i] \in Entry /\ slot[i].seq \in Nat
      /\ lock = p => lock # None
  <2>1. 1 \in 1 .. NSlots + 1 /\ SlotIds \subseteq 1 .. NSlots + 1
    BY RegistryAssumption DEF SlotIds
  <2>2. \A i \in SlotIds : i + 1 \in 1 .. NSlots + 1
    BY RegistryAssumption DEF SlotIds
  <2>3. \A i \in SlotIds : slot[i] \in Entry
    BY DEF Inv, TypeOK
  <2>4. \A i \in SlotIds : slot[i].seq \in Nat
    BY <2>3 DEF Entry
  <2>5. lock = p => lock # None
    BY RegistryAssumption DEF Procs
  <2> QED BY <2>1, <2>2, <2>3, <2>4, <2>5
<1>1. CASE Lock(p)
  <2>1. TypeOK'
    BY <1>0, <1>1 DEF Lock, Inv, TypeOK
  <2>2. \A q \in Procs : pc[q] \notin Locked
    BY <1>1, RegistryAssumption DEF Lock, Inv, LocalInv, Procs
  <2>3. LocalInv'
    BY <1>1, <2>2 DEF Lock, Inv, TypeOK, LocalInv, Locked, Reading, Writing
  <2> QED BY <2>1, <2>3
<1>2. CASE Recover(p)
  <2>1. TypeOK'
    BY <1>0, <1>2, EmptyEntry DEF Recover, Inv, TypeOK
  <2>2. LocalInv'
    <3>1. CASE Damaged(wi[p])
      BY <1>2, <3>1 DEF Recover, Inv, TypeOK, LocalInv, Locked, Reading, Writing
    <3>2. CASE ~Damaged(wi[p])
      BY <1>2, <3>2 DEF Recover, Inv, TypeOK, LocalInv, Locked, Reading, Writing
    <3> QED BY <3>1, <3>2
  <2> QED BY <2>1, <2>2
<1>3. CASE MarkConsistent(p)
  <2>1. count' \in 0 .. NSlots
    BY <1>3, BitsFinite DEF MarkConsistent, Bits
  <2>2. TypeOK'
    BY <1>3, <2>1 DEF MarkConsistent, Inv, TypeOK
  <2>3. LocalInv'
    BY <1>3 DEF MarkConsistent, Inv, TypeOK, LocalInv, Locked, Reading, Writing
  <2> QED BY <2>2, <2>3
<1>4. CASE Unlock(p)
  <2>1. TypeOK'
    BY <1>0, <1>4, EmptyEntry DEF Unlock, Inv, TypeOK
  <2>2. \A q \in Procs \ {p} : pc[q] \notin Locked
    BY <1>4 DEF Unlock, Inv, LocalInv, Locked
  <2>3. LocalInv'
    BY <1>4, <2>2, RegistryAssumption DEF Unlock, Inv, TypeOK, LocalInv, Locked, Reading, Writing, Procs
  <2> QED BY <2>1, <2>3
<1>5. CASE Overwrite(p)
  <2>1. PICK i \in SlotIds : i = First(Matches(arg[p].name))
    <3>1. Matches(arg[p].name) \in SUBSET Nat /\ Matches(arg[p].name) \subseteq SlotIds
      BY DEF Matches, SlotIds
    <3> QED BY <1>5, <3>1, FirstIn DEF Overwrite
  <2>2. TypeOK'
    BY <1>0, <1>5, <2>1, EmptyEntry DEF Overwrite, Inv, TypeOK
  <2>3. LocalInv'
    BY <1>5, <2>1 DEF Overwrite, Inv, TypeOK, LocalInv, Locked, Reading, Writing
  <2> QED BY <2>2, <2>3
<1>6. CASE TakeSlot(p)
  <2>1. PICK i \in SlotIds : i = First(FreeSlots)
    <3>1. FreeSlots \in SUBSET Nat /\ FreeSlots \subseteq SlotIds
      BY DEF FreeSlots, SlotIds
    <3> QED BY <1>6, <3>1, FirstIn DEF TakeSlot
  <2>2. TypeOK'
    BY <1>0, <1>6, <2>1, EmptyEntry DEF TakeSlot, Inv, TypeOK
  <2>3. LocalInv'
    BY <1>6, <2>1 DEF TakeSlot, Inv, TypeOK, LocalInv, Locked, Reading, Writing
  <2> QED BY <2>2, <2>3
<1>7. CASE GiveUp(p)
  <2>1. 0 \in 0 .. MaxOps
    BY RegistryAssumption
  <2>2. TypeOK'
    BY <1>7, <2>1 DEF GiveUp, Inv, TypeOK
  <2>3. LocalInv'
    BY <1>7 DEF GiveUp, Inv, TypeOK, LocalInv, Locked, Reading, Writing
  <2> QED BY <2>2, <2>3
<1> QED BY <1>1, <1>2, <1>3, <1>4, <1>5, <1>6, <1>7

\* The steps that write the table.
LEMMA WriteLocal ==
    ASSUME Inv, NEW p \in Procs,
           \/ AddCount(p) \/ WriteOdd(p) \/ WriteHead(p) \/ WriteRest(p) \/ WriteMark(p)
           \/ WriteEven(p) \/ ClearBit(p) \/ SubCount(p)
    PROVE  TypeOK' /\ LocalInv'
<1> USE DEF Goto, PutSlot, table, mutex, writer, reader, history
<1>0. /\ wi[p] \in SlotIds /\ slot[wi[p]] \in Entry /\ src[p] \in Entry /\ ws[p] \in Nat
      /\ lock = p /\ pc[p] \in Writing /\ src[p].info \in 0 .. MaxOps
      /\ ws[p] + 1 \in Nat /\ ws[p] + 2 \in Nat /\ wi[p] + 1 \in 1 .. NSlots + 1
  <2>1. pc[p] \in Writing
    BY DEF AddCount, WriteOdd, WriteHead, WriteRest, WriteMark, WriteEven, ClearBit, SubCount, Writing
  <2>2. wi[p] \in SlotIds /\ slot[wi[p]] \in Entry /\ src[p] \in Entry /\ ws[p] \in Nat /\ lock = p
    BY <2>1 DEF Inv, TypeOK, LocalInv, Locked
  <2> QED BY <2>1, <2>2, RegistryAssumption DEF Entry, SlotIds
<1>1. CASE AddCount(p)
  <2>1. count' \in 0 .. NSlots
    <3>1. ~dead => count = Cardinality(Bits) - 1
      BY <1>0, <1>1, OthersHold DEF AddCount, WritingNow, WriterInv
    <3>2. ~dead
      BY <1>0, <1>1 DEF AddCount, Inv, SharedInv, HolderInv, RepairInv, Repairing, Repair, TypeOK
    <3> QED BY <1>1, <3>1, <3>2, BitsFinite, RegistryAssumption DEF AddCount
  <2>2. TypeOK'
    BY <1>1, <2>1 DEF AddCount, Inv, TypeOK
  <2>3. LocalInv'
    BY <1>1 DEF AddCount, Inv, TypeOK, LocalInv, Locked, Reading, Writing
  <2> QED BY <2>2, <2>3
<1>2. CASE SubCount(p)
  <2>1. count' \in 0 .. NSlots
    <3>1. ~dead => count = Cardinality(Bits) + 1
      BY <1>0, <1>2, OthersHold DEF SubCount, WritingNow, WriterInv
    <3>2. ~dead
      BY <1>0, <1>2 DEF SubCount, Inv, SharedInv, HolderInv, RepairInv, Repairing, Repair, TypeOK
    <3> QED BY <1>2, <3>1, <3>2, BitsFinite, RegistryAssumption DEF SubCount
  <2>2. TypeOK'
    BY <1>2, <2>1 DEF SubCount, Inv, TypeOK
  <2>3. LocalInv'
    BY <1>2 DEF SubCount, Inv, TypeOK, LocalInv, Locked, Reading, Writing
  <2> QED BY <2>2, <2>3
<1>3. ASSUME NEW e \in Entry, slot' = [slot EXCEPT ![wi[p]] = e]
      PROVE  slot' \in [SlotIds -> Entry]
  BY <1>0, <1>3 DEF Inv, TypeOK
<1>4. CASE WriteOdd(p)
  <2>1. slot' \in [SlotIds -> Entry]
    BY <1>0, <1>3, <1>4, EntryUpdate DEF WriteOdd
  <2>2. TypeOK'
    BY <1>4, <2>1 DEF WriteOdd, Inv, TypeOK
  <2>3. LocalInv'
    BY <1>4 DEF WriteOdd, Inv, TypeOK, LocalInv, Locked, Reading, Writing
  <2> QED BY <2>2, <2>3
<1>5. CASE WriteHead(p)
  <2>1. slot' \in [SlotIds -> Entry]
    BY <1>0, <1>3, <1>5, EntryUpdate DEF WriteHead
  <2>2. TypeOK'
    BY <1>5, <2>1 DEF WriteHead, Inv, TypeOK
  <2>3. LocalInv'
    BY <1>5 DEF WriteHead, Inv, TypeOK, LocalInv, Locked, Reading, Writing
  <2> QED BY <2>2, <2>3
<1>6. CASE WriteRest(p)
  <2>1. slot' \in [SlotIds -> Entry]
    BY <1>0, <1>3, <1>6, EntryUpdate DEF WriteRest
  <2>2. TypeOK'
    BY <1>6, <2>1 DEF WriteRest, Inv, TypeOK
  <2>3. LocalInv'
    BY <1>6 DEF WriteRest, Inv, TypeOK, LocalInv, Locked, Reading, Writing
  <2> QED BY <2>2, <2>3
<1>7. CASE WriteMark(p)
  <2>1. slot' \in [SlotIds -> Entry]
    BY <1>0, <1>3, <1>7, EntryUpdate DEF WriteMark
  <2>2. TypeOK'
    BY <1>7, <2>1 DEF WriteMark, Inv, TypeOK
  <2>3. LocalInv'
    BY <1>7 DEF WriteMark, Inv, TypeOK, LocalInv, Locked, Reading, Writing
  <2> QED BY <2>2, <2>3
<1>8. CASE WriteEven(p)
  <2>1. slot' \in [SlotIds -> Entry]
    BY <1>0, <1>3, <1>8, EntryUpdate DEF WriteEven
  <2>2. TypeOK'
    BY <1>0, <1>8, <2>1 DEF WriteEven, Inv, TypeOK
  <2>3. LocalInv'
    BY <1>8 DEF WriteEven, Inv, TypeOK, LocalInv, Locked, Reading, Writing
  <2> QED BY <2>2, <2>3
<1>9. CASE ClearBit(p)
  <2>1. TypeOK'
    BY <1>0, <1>9 DEF ClearBit, Inv, TypeOK
  <2>2. LocalInv'
    BY <1>9 DEF ClearBit, Inv, TypeOK, LocalInv, Locked, Reading, Writing
  <2> QED BY <2>1, <2>2
<1> QED BY <1>1, <1>2, <1>4, <1>5, <1>6, <1>7, <1>8, <1>9

LEMMA CrashLocal ==
    ASSUME Inv, NEW p \in Procs, Crash(p)
    PROVE  TypeOK' /\ LocalInv'
<1> USE DEF Crash, Forget, Goto, ForgetWriter, ForgetSnapshot, ForgetCopy, table
<1>0. /\ 1 \in 1 .. NSlots + 1 /\ 0 \in 0 .. SnapRetries /\ 0 \in Nat /\ deaths' \in 0 .. MaxCrash
      /\ lock' \in Procs \cup {None} /\ dead' \in BOOLEAN
  BY RegistryAssumption DEF Inv, TypeOK
<1>1. hurt' \subseteq Names
  <2>1. pc[p] \in Writing /\ ~Repairing(p) => WritingNow(p)
    BY DEF Repairing, WritingNow, Inv, LocalInv, Locked, TypeOK
  <2> QED BY <2>1, OthersHold DEF Inv, TypeOK
<1>2. TypeOK'
  BY <1>0, <1>1, EmptyEntry DEF Inv, TypeOK, LocalInv
<1>3. LocalInv'
  BY RegistryAssumption DEF Inv, TypeOK, LocalInv, Locked, Reading, Writing, Procs
<1> QED BY <1>2, <1>3

-----------------------------------------------------------------------------
(* The table *)

\* Readers, and what has not reached the mutex.
LEMMA OutsideShared ==
    ASSUME Inv, NEW p \in Procs,
           \/ Start(p) \/ CheckBit(p) \/ LoadS1(p) \/ CopyHead(p) \/ CopyRest(p) \/ LoadS2(p)
    PROVE  SharedInv'
<1> USE DEF Goto, table, mutex, writer, history
<1>1. pc[p] \notin Locked /\ pc'[p] \notin Locked /\ \A q \in Procs \ {p} : pc'[q] = pc[q]
  <2>1. CASE Start(p)
    BY <2>1 DEF Start, BeginRegister, BeginTouch, BeginUnregister, BeginList, Begin,
                Inv, LocalInv, Locked, Writing
  <2>2. CASE CheckBit(p)
    BY <2>2 DEF CheckBit, Inv, LocalInv, Locked, Writing
  <2>3. CASE LoadS1(p) \/ LoadS2(p)
    BY <2>3 DEF LoadS1, LoadS2, RetrySnapshot, ForgetCopy, Inv, LocalInv, Locked, Writing
  <2>4. CASE CopyHead(p) \/ CopyRest(p)
    BY <2>4 DEF CopyHead, CopyRest, Inv, LocalInv, Locked, Writing
  <2> QED BY <2>1, <2>2, <2>3, <2>4
<1>2. UNCHANGED <<bit, slot, count, lock, dead, dir, hurt>>
  BY DEF Start, BeginRegister, BeginTouch, BeginUnregister, BeginList, Begin,
         CheckBit, LoadS1, LoadS2, CopyHead, CopyRest
<1>3. \A q \in Procs \ {p} : op'[q] = op[q] /\ arg'[q] = arg[q] /\ wi'[q] = wi[q] /\ src'[q] = src[q]
  BY DEF Start, BeginRegister, BeginTouch, BeginUnregister, BeginList, Begin,
         CheckBit, LoadS1, LoadS2, CopyHead, CopyRest, Inv, TypeOK
<1>4. lock # p
  BY <1>1 DEF Inv, LocalInv
<1> QED BY <1>1, <1>2, <1>3, <1>4, Frame

\* Steps of the holder that leave the table as it is and do not end inside a
\* write: the mutex is taken or released, an entry is read.
LEMMA QuietStep ==
    ASSUME Inv, NEW p \in Procs, UNCHANGED <<bit, slot, count, dead, dir, hurt>>,
           ~dead, lock \in {p, None}, lock' \in {p, None},
           pc[p] \notin Writing, pc'[p] \notin Writing \cup {"recover"},
           \A q \in Procs \ {p} : pc'[q] = pc[q]
    PROVE  SharedInv'
<1>1. Bits' = Bits /\ \A i \in SlotIds : Clean(i)' <=> Clean(i)
  BY DEF Bits, Clean
<1>2. \A n \in Names : Holds(n)' <=> Holds(n)
  BY DEF Holds
<1>3. \A q \in Procs : ~WritingNow(q) /\ ~WritingNow(q)' /\ (pc'[q] = "recover" => dead')
  BY RegistryAssumption DEF WritingNow, Inv, SharedInv, HolderInv, Procs
<1>4. NamesInv' /\ DamageInv'
  BY DEF Inv, SharedInv, NamesInv, DamageInv
<1>5. ContentInv'
  BY <1>2, <1>3 DEF Inv, SharedInv, ContentInv
<1>6. QuietInv'
  BY <1>1, <1>3 DEF Inv, SharedInv, QuietInv
<1>7. HolderInv'
  BY <1>3 DEF HolderInv, Repairing
<1> QED BY <1>4, <1>5, <1>6, <1>7 DEF SharedInv

\* Nobody holds the mutex of a dead owner, or its next owner is repairing.
LEMMA DeadStep ==
    ASSUME Inv, NEW p \in Procs, UNCHANGED <<bit, slot, count, dir, hurt>>, dead',
           dead, lock \in {p, None}, lock' \in {p, None}, lock' = p => RepairInv(p)',
           \A q \in Procs \ {p} : pc'[q] = pc[q]
    PROVE  SharedInv'
<1>1. \A i \in SlotIds : Clean(i)' <=> Clean(i)
  BY DEF Clean
<1>2. \A n \in Names : Holds(n)' <=> Holds(n)
  BY DEF Holds
<1>3. \A q \in Procs : ~WritingNow(q) /\ ~WritingNow(q)' /\ (Repairing(q)' => q = p)
  BY RegistryAssumption DEF WritingNow, Repairing, Procs
<1>4. NamesInv'
  BY DEF Inv, SharedInv, NamesInv
<1>5. ContentInv'
  BY <1>2, <1>3 DEF Inv, SharedInv, ContentInv
<1>6. QuietInv' /\ DamageInv'
  BY <1>1 DEF Inv, SharedInv, QuietInv, DamageInv
<1>7. HolderInv'
  BY <1>3 DEF HolderInv, Repairing
<1> QED BY <1>4, <1>5, <1>6, <1>7 DEF SharedInv

LEMMA LockShared ==
    ASSUME Inv, NEW p \in Procs, Lock(p)
    PROVE  SharedInv'
<1> USE DEF Goto, table, mutex, writer, history
<1>1. /\ UNCHANGED <<bit, slot, count, dead, dir, hurt>> /\ lock = None /\ lock' = p
      /\ pc[p] = "lock" /\ \A q \in Procs \ {p} : pc'[q] = pc[q]
  BY DEF Lock, Inv, LocalInv
<1>2. CASE ~dead
  <2>1. pc'[p] = "locked"
    BY <1>2 DEF Lock, Inv, LocalInv
  <2> QED BY <1>1, <1>2, <2>1, QuietStep DEF Writing
<1>3. CASE dead
  <2>1. pc'[p] = "recover" /\ wi'[p] = 1
    BY <1>3 DEF Lock, Inv, LocalInv, TypeOK
  <2>2. \A i \in SlotIds : ~(i < 1)
    BY DEF SlotIds
  <2>3. RepairInv(p)'
    BY <2>1, <2>2 DEF RepairInv, Repair
  <2> QED BY <1>1, <1>3, <2>3, DeadStep
<1> QED BY <1>2, <1>3 DEF Inv, TypeOK

LEMMA RecoverShared ==
    ASSUME Inv, NEW p \in Procs, Recover(p)
    PROVE  SharedInv'
<1> USE DEF Goto, table, mutex, writer, history
<1>1. /\ UNCHANGED <<bit, slot, count, lock, dead, dir, hurt>> /\ pc[p] = "recover"
      /\ wi[p] \in SlotIds /\ \A q \in Procs \ {p} : pc'[q] = pc[q]
  BY DEF Recover, Inv, LocalInv
<1>2. dead /\ lock = p /\ RepairInv(p)
  BY <1>1 DEF Inv, SharedInv, HolderInv, LocalInv, Locked, Repairing
<1>3. \A i \in SlotIds : Clean(i)' <=> Clean(i)
  BY <1>1 DEF Clean
<1>4. PICK i \in SlotIds : i = wi[p]
  BY <1>1
<1>5. CASE Damaged(i)
  <2>1. ~Clean(i)
    BY <1>5 DEF Damaged, Clean
  <2>2. slot[i].name \in hurt \cup {NoName}
    BY <1>2, <2>1 DEF Inv, SharedInv, DamageInv
  <2>3. wi' = wi /\ pc'[p] = "odd" /\ src'[p] = Empty
    BY <1>4, <1>5 DEF Recover, Inv, TypeOK, LocalInv
  <2>4. RepairInv(p)'
    BY <1>1, <1>2, <1>3, <1>4, <2>2, <2>3 DEF RepairInv, Repair
  <2> QED BY <1>1, <1>2, <2>4, DeadStep
<1>6. CASE ~Damaged(i)
  <2>1. Clean(i)
    BY <1>6 DEF Damaged, Clean, Inv, TypeOK
  <2>2. wi'[p] = i + 1 /\ pc'[p] = "recover"
    BY <1>1, <1>4, <1>6 DEF Recover, Inv, TypeOK, LocalInv
  <2>3. \A j \in SlotIds : j < i + 1 => j < i \/ j = i
    BY DEF SlotIds
  <2>4. \A j \in SlotIds : j < wi'[p] => Clean(j)'
    BY <1>2, <1>3, <1>4, <2>1, <2>2, <2>3 DEF RepairInv
  <2>5. RepairInv(p)'
    BY <2>2, <2>4 DEF RepairInv, Repair
  <2> QED BY <1>1, <1>2, <2>5, DeadStep
<1> QED BY <1>5, <1>6

LEMMA MarkShared ==
    ASSUME Inv, NEW p \in Procs, MarkConsistent(p)
    PROVE  SharedInv'
<1> USE DEF Goto, table, mutex, writer, history
<1>1. /\ UNCHANGED <<bit, slot, lock, dir, hurt>> /\ ~dead' /\ pc[p] = "recover" /\ pc'[p] = "locked"
      /\ \A q \in Procs \ {p} : pc'[q] = pc[q]
  BY DEF MarkConsistent, Inv, LocalInv
<1>2. dead /\ lock = p /\ RepairInv(p)
  BY <1>1 DEF Inv, SharedInv, HolderInv, LocalInv, Locked, Repairing
<1>3. \A i \in SlotIds : i < wi[p]
  <2>1. wi[p] \in 1 .. NSlots + 1 /\ wi[p] \notin 1 .. NSlots
    BY DEF MarkConsistent, Inv, TypeOK, SlotIds
  <2> QED BY <2>1, RegistryAssumption DEF SlotIds
<1>4. \A i \in SlotIds : Clean(i)'
  BY <1>1, <1>2, <1>3 DEF Clean, RepairInv
<1>5. count' = Cardinality(Bits)' /\ Bits' = Bits
  BY <1>1 DEF MarkConsistent, Bits
<1>6. \A q \in Procs : ~WritingNow(q) /\ ~WritingNow(q)' /\ ~Repairing(q)' /\ pc'[q] # "recover"
  BY <1>1, <1>2, OneHolder DEF WritingNow, Repairing, Locked, Writing
<1>7. NamesInv'
  BY <1>1 DEF Inv, SharedInv, NamesInv
<1>8. ContentInv'
  <2>1. \A n \in Names : Holds(n)' <=> Holds(n)
    BY <1>1 DEF Holds
  <2> QED BY <1>1, <1>6, <2>1 DEF Inv, SharedInv, ContentInv
<1>9. QuietInv' /\ DamageInv' /\ HolderInv'
  BY <1>1, <1>4, <1>5, <1>6 DEF QuietInv, DamageInv, HolderInv
<1> QED BY <1>7, <1>8, <1>9 DEF SharedInv

LEMMA LeaveShared ==
    ASSUME Inv, NEW p \in Procs, Unlock(p) \/ ReadLocked(p)
    PROVE  SharedInv'
<1> USE DEF Goto, table, mutex, writer, history, Unlock, ReadLocked
<1>1. /\ UNCHANGED <<bit, slot, count, dead, dir, hurt>> /\ pc[p] \in {"unlock", "locked"}
      /\ pc'[p] \in {"bit", "idle", "unlock"} /\ lock' \in {lock, None}
      /\ \A q \in Procs \ {p} : pc'[q] = pc[q]
  BY DEF Inv, LocalInv
<1>2. lock = p
  BY <1>1 DEF Inv, LocalInv, Locked
<1>3. ~dead
  BY <1>1, <1>2 DEF Inv, SharedInv, HolderInv, RepairInv, Repair, Repairing
<1> QED BY <1>1, <1>2, <1>3, QuietStep DEF Writing

\* In the mutex and outside a write the table is consistent.
LEMMA LockedTable ==
    ASSUME Inv, NEW p \in Procs, pc[p] \in {"locked", "unlock"}
    PROVE  /\ lock = p /\ ~dead /\ \A q \in Procs : ~WritingNow(q)
           /\ count = Cardinality(Bits) /\ \A i \in SlotIds : Clean(i)
           /\ \A n \in Names \ hurt : Holds(n)
<1>1. lock = p
  BY DEF Inv, LocalInv, Locked
<1>2. ~dead
  BY <1>1 DEF Inv, SharedInv, HolderInv, RepairInv, Repair, Repairing
<1>3. \A q \in Procs : ~WritingNow(q)
  BY <1>1 DEF WritingNow, Writing
<1> QED BY <1>1, <1>2, <1>3 DEF Inv, SharedInv, QuietInv, ContentInv

\* The slots that snapshot_slot matches are the slots of that name.
LEMMA MatchesFacts ==
    ASSUME Inv, NEW p \in Procs, pc[p] = "locked", NEW n \in Names
    PROVE  Matches(n) = {i \in SlotIds : slot[i].name = n}
<1>1. \A i \in SlotIds : Clean(i)
  BY LockedTable
<1>2. n # NoName
  BY RegistryAssumption DEF NoName
<1> QED BY <1>1, <1>2 DEF Matches, Clean

\* A step of p that begins a write: the bit of a free slot may be set.
LEMMA BeginWrite ==
    ASSUME Inv, NEW p \in Procs, pc[p] = "locked", UNCHANGED <<slot, count, lock, dead, op, arg, dir, hurt>>,
           \A i \in SlotIds : bit[i] => bit'[i],
           NEW l \in {"count", "odd"}, pc' = [pc EXCEPT ![p] = l], WriterInv(p)'
    PROVE  SharedInv'
<1>1. lock = p /\ ~dead /\ \A n \in Names \ hurt : Holds(n)
  BY LockedTable
<1>2. /\ lock' = p /\ ~dead' /\ WritingNow(p)' /\ pc'[p] = l
      /\ \A q \in Procs \ {p} : pc'[q] = pc[q]
  BY <1>1 DEF Inv, LocalInv, WritingNow, Writing
<1>3. NamesInv'
  BY DEF Inv, SharedInv, NamesInv
<1>4. ContentInv'
  <2>1. \A n \in Names : Holds(n)' <=> Holds(n)
    BY DEF Holds
  <2> QED BY <1>1, <2>1 DEF ContentInv
<1>5. QuietInv' /\ DamageInv'
  BY <1>2 DEF QuietInv, DamageInv
<1>6. HolderInv'
  <2> SUFFICES ASSUME NEW q \in Procs
               PROVE  /\ WritingNow(q)' => WriterInv(q)'
                      /\ Repairing(q)' => RepairInv(q)'
                      /\ pc'[q] = "recover" => dead'
    BY DEF HolderInv
  <2>1. CASE q = p
    BY <1>2, <2>1 DEF Repairing
  <2>2. CASE q # p
    BY <1>1, <1>2, <2>2, OneHolder DEF WritingNow, Repairing, Locked
  <2> QED BY <2>1, <2>2
<1> QED BY <1>3, <1>4, <1>5, <1>6 DEF SharedInv

LEMMA OverwriteShared ==
    ASSUME Inv, NEW p \in Procs, Overwrite(p)
    PROVE  SharedInv'
<1> USE DEF Goto, table, mutex, history, Overwrite, StartWrite
<1>1. pc[p] = "locked" /\ op[p] # "list" /\ arg[p].name \in Names
  BY DEF Inv, LocalInv
<1>2. PICK i : i = First(Matches(arg[p].name))
  OBVIOUS
<1>3. i \in SlotIds /\ slot[i].name = arg[p].name
  <2>1. /\ Matches(arg[p].name) = {j \in SlotIds : slot[j].name = arg[p].name}
    BY <1>1, MatchesFacts
  <2>2. Matches(arg[p].name) \in SUBSET Nat
    BY <2>1 DEF SlotIds
  <2>3. i \in Matches(arg[p].name)
    BY <1>2, <2>2, FirstIn
  <2> QED BY <2>1, <2>3
<1>4. /\ lock = p /\ ~dead /\ count = Cardinality(Bits) /\ \A j \in SlotIds : Clean(j)
  BY <1>1, LockedTable
<1>5. /\ UNCHANGED <<bit, slot, count, lock, dead, op, arg, dir, hurt>>
      /\ pc' = [pc EXCEPT ![p] = "odd"] /\ pc'[p] = "odd" /\ wi'[p] = i
      /\ src'[p] = IF op[p] = "register" THEN arg[p] ELSE Empty
  BY <1>2 DEF Inv, TypeOK, LocalInv
<1>6. Bits' = Bits /\ \A j \in SlotIds : Clean(j)' <=> Clean(j)
  BY <1>5 DEF Bits, Clean
<1>7. bit[i]
  BY <1>1, <1>3, <1>4, RegistryAssumption DEF Clean, NoName
<1>8. \A j \in SlotIds \ {i} : slot[j].name # arg[p].name
  BY <1>1, <1>3, RegistryAssumption DEF Inv, SharedInv, NamesInv, NoName
<1>9. WriterInv(p)'
  BY <1>1, <1>3, <1>4, <1>5, <1>6, <1>7, <1>8 DEF WriterInv
<1> HIDE DEF Overwrite
<1> QED BY <1>1, <1>5, <1>9, BeginWrite

LEMMA TakeShared ==
    ASSUME Inv, NEW p \in Procs, TakeSlot(p)
    PROVE  SharedInv'
<1> USE DEF Goto, table, mutex, history, TakeSlot, StartWrite
<1>1. pc[p] = "locked" /\ op[p] = "register" /\ arg[p].name \in Names
  BY DEF Inv, LocalInv
<1>2. PICK i : i = First(FreeSlots)
  OBVIOUS
<1>3. i \in SlotIds /\ ~bit[i]
  <2>1. FreeSlots \in SUBSET Nat
    BY DEF FreeSlots, SlotIds
  <2>2. i \in FreeSlots
    BY <1>2, <2>1, FirstIn
  <2> QED BY <2>2 DEF FreeSlots
<1>4. /\ lock = p /\ ~dead /\ count = Cardinality(Bits) /\ \A j \in SlotIds : Clean(j)
  BY <1>1, LockedTable
<1>5. /\ UNCHANGED <<slot, count, lock, dead, op, arg, dir, hurt>>
      /\ pc' = [pc EXCEPT ![p] = "count"] /\ pc'[p] = "count" /\ wi'[p] = i /\ src'[p] = arg[p]
      /\ bit'[i] /\ \A j \in SlotIds \ {i} : bit'[j] = bit[j]
  BY <1>2, <1>3 DEF Inv, TypeOK, LocalInv
<1>6. Cardinality(Bits)' = Cardinality(Bits) + 1
  <2>1. Bits' = Bits \cup {i} /\ i \notin Bits
    BY <1>3, <1>5 DEF Bits
  <2> QED BY <2>1, BitsFinite, FS_AddElement
<1>7. count' = Cardinality(Bits)' - 1
  BY <1>4, <1>5, <1>6, BitsFinite
<1>8. slot[i].name = NoName
  BY <1>3, <1>4 DEF Clean
<1>9. \A j \in SlotIds \ {i} : Clean(j)' /\ slot[j].name # arg[p].name
  BY <1>1, <1>4, <1>5, MatchesFacts DEF Clean
<1>10. WriterInv(p)'
  BY <1>1, <1>3, <1>5, <1>7, <1>8, <1>9 DEF WriterInv
<1> HIDE DEF TakeSlot
<1>11. \A j \in SlotIds : bit[j] => bit'[j]
  BY <1>3, <1>5
<1> QED BY <1>1, <1>5, <1>10, <1>11, BeginWrite

LEMMA GiveUpShared ==
    ASSUME Inv, NEW p \in Procs, GiveUp(p)
    PROVE  SharedInv'
<1> USE DEF Goto, table, mutex, writer, GiveUp
<1>1. pc[p] = "locked" /\ arg[p].name \in Names
  BY DEF Inv, LocalInv
<1>2. /\ lock = p /\ ~dead /\ count = Cardinality(Bits) /\ \A j \in SlotIds : Clean(j)
      /\ \A n \in Names \ hurt : Holds(n)
  BY <1>1, LockedTable
<1>3. /\ UNCHANGED <<bit, slot, count, lock, dead>> /\ pc'[p] = "unlock"
      /\ \A q \in Procs \ {p} : pc'[q] = pc[q]
  BY DEF Inv, LocalInv
<1>4. \A q \in Procs : ~WritingNow(q)' /\ ~Repairing(q)' /\ pc'[q] # "recover"
  BY <1>2, <1>3, OneHolder DEF WritingNow, Repairing, Writing, Locked
<1>5. Bits' = Bits /\ \A i \in SlotIds : Clean(i)' <=> Clean(i)
  BY <1>3 DEF Bits, Clean
<1>6. ContentInv'
  <2>1. \A i \in SlotIds : slot[i].name # arg[p].name
    BY <1>1, MatchesFacts
  <2>2. ASSUME NEW n \in Names \ hurt' PROVE Holds(n)'
    <3>1. CASE op[p] = "unregister" /\ n = arg[p].name
      <4>1. dir'[n] = 0
        BY <1>1, <3>1 DEF Inv, TypeOK
      <4> QED BY <1>3, <2>1, <3>1, <4>1 DEF Holds
    <3>2. CASE ~(op[p] = "unregister" /\ n = arg[p].name)
      <4>1. n \notin hurt /\ dir'[n] = dir[n]
        BY <2>2, <3>2 DEF Inv, TypeOK
      <4> QED BY <1>2, <1>3, <4>1 DEF Holds
    <3> QED BY <3>1, <3>2
  <2> QED BY <2>2 DEF ContentInv
<1>7. NamesInv'
  BY <1>3 DEF Inv, SharedInv, NamesInv
<1>8. QuietInv' /\ DamageInv' /\ HolderInv'
  BY <1>2, <1>3, <1>4, <1>5 DEF QuietInv, DamageInv, HolderInv
<1> QED BY <1>6, <1>7, <1>8 DEF SharedInv

LEMMA AddCountShared ==
    ASSUME Inv, NEW p \in Procs, AddCount(p)
    PROVE  SharedInv'
<1> USE DEF Goto, table, mutex, writer, history, AddCount
<1>1. pc[p] = "count" /\ lock = p
  BY DEF Inv, LocalInv, Locked, Writing
<1>2. ~dead
  BY <1>1 DEF Inv, SharedInv, HolderInv, RepairInv, Repair, Repairing
<1>3. WritingNow(p) /\ WriterInv(p) /\ count = Cardinality(Bits) - 1
  BY <1>1, <1>2, OthersHold DEF WritingNow, Writing, WriterInv
<1>4. /\ UNCHANGED <<bit, slot, lock, dead, op, arg, wi, src, dir, hurt>>
      /\ pc' = [pc EXCEPT ![p] = "odd"] /\ pc'[p] = "odd"
  BY DEF Inv, LocalInv
<1>5. Bits' = Bits /\ \A i \in SlotIds : Clean(i)' <=> Clean(i)
  BY <1>4 DEF Bits, Clean
<1>6. count' = Cardinality(Bits)'
  BY <1>3, <1>5, BitsFinite
<1>7. WriterInv(p)'
  BY <1>1, <1>3, <1>4, <1>5, <1>6 DEF WriterInv
<1>8. /\ lock' = p /\ ~dead' /\ WritingNow(p)'
      /\ \A q \in Procs \ {p} : pc'[q] = pc[q]
  BY <1>1, <1>2, <1>4 DEF Inv, LocalInv, WritingNow, Writing
<1>9. NamesInv'
  BY <1>4 DEF Inv, SharedInv, NamesInv
<1>10. ContentInv'
  <2>1. \A n \in Names : Holds(n)' <=> Holds(n)
    BY <1>4 DEF Holds
  <2> QED BY <1>3, <1>4, <1>8, <2>1, OthersHold DEF ContentInv, Publishing
<1>11. QuietInv' /\ DamageInv'
  BY <1>8 DEF QuietInv, DamageInv
<1>12. HolderInv'
  <2> SUFFICES ASSUME NEW q \in Procs
               PROVE  /\ WritingNow(q)' => WriterInv(q)'
                      /\ Repairing(q)' => RepairInv(q)'
                      /\ pc'[q] = "recover" => dead'
    BY DEF HolderInv
  <2>1. CASE q = p
    BY <1>4, <1>7, <1>8, <2>1 DEF Repairing
  <2>2. CASE q # p
    BY <1>1, <1>8, <2>2, OneHolder DEF WritingNow, Repairing, Locked
  <2> QED BY <2>1, <2>2
<1> QED BY <1>9, <1>10, <1>11, <1>12 DEF SharedInv

\* Whoever writes a slot publishes an entry or repairs.
LEMMA WriteMode ==
    ASSUME Inv, NEW p \in Procs, pc[p] \in Writing
    PROVE  /\ lock = p /\ wi[p] \in SlotIds /\ slot[wi[p]] \in Entry /\ src[p] \in Entry /\ ws[p] \in Nat
           /\ ~dead => WritingNow(p) /\ WriterInv(p) /\ arg[p].name \in Names /\ ~Repairing(p)
           /\ dead => Repairing(p) /\ RepairInv(p)
<1>1. lock = p /\ wi[p] \in SlotIds /\ slot[wi[p]] \in Entry /\ src[p] \in Entry /\ ws[p] \in Nat
  BY DEF Inv, TypeOK, LocalInv, Locked
<1>2. ~dead => WritingNow(p) /\ ~Repairing(p)
  BY <1>1 DEF WritingNow, Repairing
<1>3. dead => Repairing(p) /\ RepairInv(p)
  BY <1>1 DEF Repairing, Inv, SharedInv, HolderInv
<1> QED BY <1>1, <1>2, <1>3, OthersHold

\* Stores of publish_slot that do not end it.
LEMMA PublishWord ==
    ASSUME Inv, NEW p \in Procs, pc[p] \in {"odd", "head", "rest", "mark"}, ~dead,
           UNCHANGED <<bit, count, lock, dead, op, arg, wi, src, dir, hurt>>,
           NEW e \in Entry, slot' = [slot EXCEPT ![wi[p]] = e],
           NEW l \in {"head", "rest", "mark", "even"}, pc' = [pc EXCEPT ![p] = l],
           l = "head" => e.name \in {NoName, arg[p].name},
           l # "head" => e.name = src[p].name,
           l \in {"mark", "even"} => e.info = src[p].info
    PROVE  SharedInv'
<1>0. pc[p] \in Writing /\ pc[p] \in Publishing /\ l \in Publishing
  BY DEF Writing, Publishing
<1>1. WritingNow(p) /\ WriterInv(p)
  BY <1>0, WriteMode
<1>2. PICK i \in SlotIds : i = wi[p]
  BY <1>0, WriteMode
<1>3. e.name \in {NoName, arg[p].name}
  BY <1>1, EmptyEntry DEF WriterInv
<1>4. /\ slot'[i] = e /\ pc'[p] = l /\ wi'[p] = i /\ src'[p] = src[p] /\ arg'[p] = arg[p]
      /\ op'[p] = op[p] /\ Bits' = Bits
      /\ \A j \in SlotIds \ {i} : slot'[j] = slot[j] /\ (Clean(j)' <=> Clean(j))
  <2>1. slot' = [slot EXCEPT ![i] = e] /\ UNCHANGED <<bit, count, lock, dead, op, arg, wi, src>>
    BY <1>2
  <2> QED BY <1>2, <2>1 DEF Inv, TypeOK, LocalInv, Bits, Clean
<1>5. WriterInv(p)'
  <2>1. /\ bit'[i] /\ count' = Cardinality(Bits)'
        /\ \A j \in SlotIds \ {i} : Clean(j)' /\ slot'[j].name # arg[p].name
    BY <1>1, <1>2, <1>4 DEF WriterInv
  <2>2. op[p] # "list" /\ src[p] = IF op[p] = "register" THEN arg[p] ELSE Empty
    BY <1>1 DEF WriterInv
  <2> QED BY <1>3, <1>4, <2>1, <2>2 DEF WriterInv
<1> QED BY <1>0, <1>1, <1>3, <1>5, PublishStep

\* Stores to a slot being repaired.
LEMMA RepairWord ==
    ASSUME Inv, NEW p \in Procs, pc[p] \in Writing, dead,
           UNCHANGED <<bit, count, lock, dead, op, arg, wi, src, dir, hurt>>,
           NEW e \in Entry, slot' = [slot EXCEPT ![wi[p]] = e],
           NEW l \in {"head", "rest", "even", "clear_bit"}, pc' = [pc EXCEPT ![p] = l],
           e.name \in {NoName, slot[wi[p]].name},
           l \in {"head", "rest"} => src[p] = Empty,
           l # "head" => e.name = NoName,
           l = "clear_bit" => ~Odd(e.seq)
    PROVE  SharedInv'
<1>1. Repairing(p) /\ RepairInv(p)
  BY WriteMode
<1>2. PICK i \in SlotIds : i = wi[p]
  BY WriteMode
<1>3. slot[i].name \in hurt \cup {NoName}
  BY <1>1, <1>2 DEF RepairInv, Repair, Writing
<1>4. /\ slot'[i] = e /\ pc'[p] = l /\ wi'[p] = i /\ src'[p] = src[p]
      /\ \A j \in SlotIds \ {i} : slot'[j] = slot[j] /\ (Clean(j)' <=> Clean(j))
  <2>1. slot' = [slot EXCEPT ![i] = e] /\ UNCHANGED <<bit, count, lock, dead, op, arg, wi, src>>
    BY <1>2
  <2> QED BY <1>2, <2>1 DEF Inv, TypeOK, LocalInv, Bits, Clean
<1>5. \A j \in SlotIds : j < wi'[p] => Clean(j)'
  <2>1. \A j \in SlotIds : j < i => j # i
    BY DEF SlotIds
  <2> QED BY <1>1, <1>2, <1>4, <2>1 DEF RepairInv
<1>6. RepairInv(p)'
  BY <1>2, <1>3, <1>4, <1>5 DEF RepairInv, Repair
<1> QED BY <1>1, <1>6, RepairStep DEF Repair

LEMMA StoreShared ==
    ASSUME Inv, NEW p \in Procs, WriteOdd(p) \/ WriteHead(p) \/ WriteRest(p) \/ WriteMark(p)
    PROVE  SharedInv'
<1> USE DEF Goto, PutSlot, table, mutex, writer, history
<1>0. pc[p] \in Writing /\ UNCHANGED <<bit, count, lock, dead, op, arg, wi, src, dir, hurt>>
  BY DEF WriteOdd, WriteHead, WriteRest, WriteMark, Writing
<1>1. PICK i \in SlotIds : i = wi[p]
  BY <1>0, WriteMode
<1>2. /\ slot[i] \in Entry /\ src[p] \in Entry /\ ws[p] \in Nat /\ ws[p] + 1 \in Nat
      /\ ~dead => WriterInv(p) /\ ~Repairing(p)
      /\ dead => Repairing(p) /\ RepairInv(p)
  BY <1>0, <1>1, WriteMode
<1>3. CASE WriteOdd(p)
  <2>1. PICK m \in Nat : m = IF Odd(ws[p]) THEN ws[p] ELSE ws[p] + 1
    BY <1>2
  <2>2. PICK e : e = [slot[i] EXCEPT !.seq = m]
    OBVIOUS
  <2>3. e \in Entry /\ e.name = slot[i].name
    BY <1>2, <2>2, EntryUpdate
  <2>4. pc[p] = "odd" /\ slot' = [slot EXCEPT ![wi[p]] = e] /\ pc' = [pc EXCEPT ![p] = "head"]
    BY <1>1, <1>3, <2>1, <2>2 DEF WriteOdd
  <2>5. CASE ~dead
    <3>1. e.name \in {NoName, arg[p].name}
      BY <1>1, <1>2, <2>3, <2>4, <2>5 DEF WriterInv
    <3> QED BY <1>0, <2>3, <2>4, <2>5, <3>1, PublishWord
  <2>6. CASE dead
    <3>1. src[p] = Empty
      BY <1>2, <2>4, <2>6 DEF RepairInv
    <3> QED BY <1>0, <1>1, <2>3, <2>4, <2>6, <3>1, RepairWord
  <2> QED BY <2>5, <2>6
<1>4. CASE WriteHead(p)
  <2>1. PICK e : e = [src[p] EXCEPT !.info = slot[i].info]
    OBVIOUS
  <2>2. e \in Entry /\ e.name = src[p].name
    BY <1>2, <2>1, EntryUpdate
  <2>3. pc[p] = "head" /\ slot' = [slot EXCEPT ![wi[p]] = e] /\ pc' = [pc EXCEPT ![p] = "rest"]
    BY <1>1, <1>4, <2>1 DEF WriteHead
  <2>4. CASE ~dead
    BY <1>0, <2>2, <2>3, <2>4, PublishWord
  <2>5. CASE dead
    <3>1. src[p] = Empty /\ e.name = NoName
      BY <1>2, <2>2, <2>3, <2>5, EmptyEntry DEF RepairInv
    <3> QED BY <1>0, <1>1, <2>2, <2>3, <2>5, <3>1, RepairWord
  <2> QED BY <2>4, <2>5
<1>5. CASE WriteRest(p)
  <2>1. PICK e : e = [slot[i] EXCEPT !.info = src[p].info]
    OBVIOUS
  <2>2. e \in Entry /\ e.name = slot[i].name /\ e.info = src[p].info
    BY <1>2, <2>1, EntryUpdate
  <2>3. pc[p] = "rest" /\ slot' = [slot EXCEPT ![wi[p]] = e]
        /\ pc' = [pc EXCEPT ![p] = IF Repairing(p) THEN "even" ELSE "mark"]
    BY <1>1, <1>5, <2>1 DEF WriteRest
  <2>4. CASE ~dead
    <3>1. e.name = src[p].name
      BY <1>1, <1>2, <2>2, <2>3, <2>4 DEF WriterInv
    <3>2. pc' = [pc EXCEPT ![p] = "mark"]
      BY <1>2, <2>3, <2>4
    <3> QED BY <1>0, <2>2, <2>3, <2>4, <3>1, <3>2, PublishWord
  <2>5. CASE dead
    <3>1. e.name = NoName
      BY <1>1, <1>2, <2>2, <2>3, <2>5 DEF RepairInv
    <3>2. pc' = [pc EXCEPT ![p] = "even"]
      BY <1>2, <2>3, <2>5
    <3> QED BY <1>0, <1>1, <2>2, <2>3, <2>5, <3>1, <3>2, RepairWord
  <2> QED BY <2>4, <2>5
<1>6. CASE WriteMark(p)
  <2>1. PICK e : e = [slot[i] EXCEPT !.seq = ws[p] + 1]
    OBVIOUS
  <2>2. e \in Entry /\ e.name = slot[i].name /\ e.info = slot[i].info
    BY <1>2, <2>1, EntryUpdate
  <2>3. pc[p] = "mark" /\ slot' = [slot EXCEPT ![wi[p]] = e] /\ pc' = [pc EXCEPT ![p] = "even"]
    BY <1>1, <1>6, <2>1 DEF WriteMark
  <2>4. ~dead
    BY <1>2, <2>3 DEF RepairInv, Repair
  <2>5. e.name = src[p].name /\ e.info = src[p].info
    BY <1>1, <1>2, <2>2, <2>3, <2>4 DEF WriterInv
  <2> QED BY <1>0, <2>2, <2>3, <2>4, <2>5, PublishWord
<1> QED BY <1>3, <1>4, <1>5, <1>6

\* The last store: the entry is complete, and is what is registered now.
LEMMA EvenShared ==
    ASSUME Inv, NEW p \in Procs, WriteEven(p)
    PROVE  SharedInv'
<1> USE DEF Goto, PutSlot, table, mutex, writer, history
<1>0. /\ pc[p] = "even" /\ pc[p] \in Writing /\ pc[p] \in Publishing
      /\ UNCHANGED <<bit, count, lock, dead, op, arg, wi, src>>
  BY DEF WriteEven, Writing, Publishing
<1>1. PICK i \in SlotIds : i = wi[p]
  BY <1>0, WriteMode
<1>2. /\ slot[i] \in Entry /\ src[p] \in Entry /\ ws[p] \in Nat /\ lock = p
      /\ ~dead => WritingNow(p) /\ WriterInv(p) /\ arg[p].name \in Names /\ ~Repairing(p)
      /\ dead => Repairing(p) /\ RepairInv(p)
  BY <1>0, <1>1, WriteMode
<1>3. PICK m \in Nat : m = (IF Odd(ws[p]) THEN ws[p] + 1 ELSE ws[p] + 2) /\ ~Odd(m)
  BY <1>2, OddEven
<1>4. PICK e : e = [slot[i] EXCEPT !.seq = m]
  OBVIOUS
<1>5. e \in Entry /\ e.name = slot[i].name /\ e.info = slot[i].info /\ e.seq = m
  BY <1>2, <1>4, EntryUpdate
<1>6. slot' = [slot EXCEPT ![i] = e]
  BY <1>1, <1>3, <1>4 DEF WriteEven
<1>7. CASE dead
  <2>1. UNCHANGED <<dir, hurt>> /\ pc' = [pc EXCEPT ![p] = "clear_bit"]
    BY <1>2, <1>7 DEF WriteEven
  <2>2. e.name = NoName
    BY <1>0, <1>1, <1>2, <1>5, <1>7 DEF RepairInv
  <2>3. slot' = [slot EXCEPT ![wi[p]] = e] /\ e.name \in {NoName, slot[wi[p]].name}
    BY <1>1, <1>5, <1>6
  <2> QED BY <1>0, <1>3, <1>5, <1>7, <2>1, <2>2, <2>3, RepairWord
<1>8. CASE ~dead
  <2>0. PICK a : a = arg[p].name
    OBVIOUS
  <2>1. /\ a \in Names /\ a # NoName /\ dir' = [dir EXCEPT ![a] = src[p].info] /\ hurt' = hurt \ {a}
        /\ pc' = [pc EXCEPT ![p] = IF op[p] = "unregister" THEN "clear_bit" ELSE "unlock"]
    BY <1>2, <1>8, <2>0, RegistryAssumption DEF WriteEven, NoName
  <2>2. /\ dir'[a] = src[p].info /\ \A n \in Names \ {a} : dir'[n] = dir[n]
        /\ slot'[i] = e /\ \A j \in SlotIds \ {i} : slot'[j] = slot[j] /\ (Clean(j)' <=> Clean(j))
        /\ Bits' = Bits
    BY <1>0, <1>6, <2>1 DEF Inv, TypeOK, Bits, Clean
  <2>3. /\ bit[i] /\ slot[i].name = src[p].name /\ slot[i].info = src[p].info
        /\ count = Cardinality(Bits) /\ op[p] # "list"
        /\ src[p] = IF op[p] = "register" THEN arg[p] ELSE Empty
        /\ \A j \in SlotIds \ {i} : Clean(j) /\ slot[j].name # a
    BY <1>0, <1>1, <1>2, <1>8, <2>0 DEF WriterInv
  <2>4. /\ lock' = p /\ ~dead' /\ pc'[p] = IF op[p] = "unregister" THEN "clear_bit" ELSE "unlock"
        /\ \A q \in Procs \ {p} : pc'[q] = pc[q]
    BY <1>0, <1>2, <1>8, <2>1 DEF Inv, LocalInv
  <2>5. NamesInv'
    <3>1. e.name \in {NoName, a}
      BY <1>5, <2>0, <2>3, EmptyEntry
    <3>2. \A j \in SlotIds : slot'[j].name # NoName => bit'[j]
      BY <1>0, <2>2, <2>3 DEF Inv, SharedInv, NamesInv
    <3>3. ASSUME NEW j \in SlotIds, NEW k \in SlotIds, j # k, slot'[j].name = slot'[k].name
          PROVE  slot'[j].name = NoName
      BY <2>2, <2>3, <3>1, <3>3 DEF Inv, SharedInv, NamesInv
    <3> QED BY <3>2, <3>3 DEF NamesInv
  <2>6. ASSUME NEW n \in Names \ hurt' PROVE Holds(n)'
    <3>1. CASE n = a
      <4>1. CASE op[p] = "register"
        BY <1>5, <2>0, <2>1, <2>2, <2>3, <3>1, <4>1 DEF Holds
      <4>2. CASE op[p] # "register"
        <5>1. slot'[i].name = NoName /\ dir'[a] = 0
          BY <1>5, <2>2, <2>3, <4>2, EmptyEntry
        <5> QED BY <2>1, <2>2, <2>3, <3>1, <5>1 DEF Holds
      <4> QED BY <4>1, <4>2
    <3>2. CASE n # a
      <4>1. n \notin hurt
        BY <2>1, <2>6, <3>2
      <4>2. Holds(n) /\ n # NoName
        BY <1>2, <1>8, <2>0, <3>2, <4>1, OthersHold, RegistryAssumption DEF NoName
      <4>3. slot'[i].name = slot[i].name /\ slot'[i].info = slot[i].info
        BY <1>5, <2>2
      <4> QED BY <2>2, <3>2, <4>2, <4>3 DEF Holds
    <3> QED BY <3>1, <3>2
  <2>7. ContentInv'
    BY <2>6 DEF ContentInv
  <2>8. DamageInv'
    BY <2>4 DEF DamageInv
  <2>9. CASE op[p] = "unregister"
    <3>1. pc'[p] = "clear_bit" /\ WritingNow(p)'
      BY <2>4, <2>9 DEF WritingNow, Writing
    <3>2. slot'[i].name = NoName /\ ~Odd(slot'[i].seq)
      BY <1>3, <1>5, <2>2, <2>3, <2>9, EmptyEntry
    <3>3. WriterInv(p)'
      BY <1>0, <1>1, <2>0, <2>2, <2>3, <2>9, <3>1, <3>2 DEF WriterInv
    <3>4. QuietInv'
      BY <3>1 DEF QuietInv
    <3>5. HolderInv'
      <4> SUFFICES ASSUME NEW q \in Procs
                   PROVE  /\ WritingNow(q)' => WriterInv(q)'
                          /\ Repairing(q)' => RepairInv(q)'
                          /\ pc'[q] = "recover" => dead'
        BY DEF HolderInv
      <4>1. CASE q = p
        BY <2>4, <3>1, <3>3, <4>1 DEF Repairing
      <4>2. CASE q # p
        BY <1>2, <2>4, <4>2, OneHolder DEF WritingNow, Repairing, Locked
      <4> QED BY <4>1, <4>2
    <3> QED BY <2>5, <2>7, <2>8, <3>4, <3>5 DEF SharedInv
  <2>10. CASE op[p] # "unregister"
    <3>1. pc'[p] = "unlock" /\ op[p] = "register"
      BY <2>3, <2>4, <2>10 DEF Inv, TypeOK
    <3>2. \A q \in Procs : ~WritingNow(q)' /\ ~Repairing(q)' /\ pc'[q] # "recover"
      BY <1>2, <2>4, <3>1, OneHolder DEF WritingNow, Repairing, Writing, Locked
    <3>3. Clean(i)'
      <4>1. slot'[i].name = a /\ ~Odd(slot'[i].seq) /\ bit'[i]
        BY <1>0, <1>3, <1>5, <2>0, <2>2, <2>3, <3>1
      <4> QED BY <2>1, <4>1 DEF Clean, Inv, TypeOK
    <3>4. \A j \in SlotIds : Clean(j)'
      BY <2>2, <2>3, <3>3
    <3>5. QuietInv' /\ HolderInv'
      BY <1>0, <2>2, <2>3, <3>2, <3>4 DEF QuietInv, HolderInv
    <3> QED BY <2>5, <2>7, <2>8, <3>5 DEF SharedInv
  <2> QED BY <2>9, <2>10
<1> QED BY <1>7, <1>8

LEMMA ClearShared ==
    ASSUME Inv, NEW p \in Procs, ClearBit(p)
    PROVE  SharedInv'
<1> USE DEF Goto, table, mutex, history
<1>0. /\ pc[p] = "clear_bit" /\ pc[p] \in Writing
      /\ UNCHANGED <<slot, count, lock, dead, op, arg, src, dir, hurt>>
  BY DEF ClearBit, Writing
<1>1. PICK i \in SlotIds : i = wi[p]
  BY <1>0, WriteMode
<1>2. /\ lock = p
      /\ ~dead => WritingNow(p) /\ WriterInv(p) /\ arg[p].name \in Names /\ ~Repairing(p)
      /\ dead => Repairing(p) /\ RepairInv(p)
  BY <1>0, WriteMode
<1>3. slot[i].name = NoName /\ ~Odd(slot[i].seq)
  BY <1>0, <1>1, <1>2 DEF WriterInv, RepairInv
<1>4. /\ ~bit'[i] /\ \A j \in SlotIds \ {i} : bit'[j] = bit[j]
      /\ \A q \in Procs \ {p} : pc'[q] = pc[q]
  BY <1>1 DEF ClearBit, Inv, TypeOK, LocalInv
<1>5. Clean(i)' /\ \A j \in SlotIds \ {i} : Clean(j)' <=> Clean(j)
  BY <1>0, <1>3, <1>4 DEF Clean, ClearBit, Inv, TypeOK
<1>6. NamesInv'
  BY <1>0, <1>3, <1>4 DEF Inv, SharedInv, NamesInv
<1>7. \A n \in Names : Holds(n)' <=> Holds(n)
  BY <1>0 DEF Holds
<1>8. CASE dead
  <2>1. wi'[p] = i + 1 /\ pc'[p] = "recover" /\ dead' /\ lock' = p
    BY <1>0, <1>1, <1>2, <1>8 DEF ClearBit, Inv, TypeOK, LocalInv
  <2>2. \A q \in Procs : ~WritingNow(q) /\ ~WritingNow(q)'
    BY <1>8, <2>1 DEF WritingNow
  <2>3. ContentInv'
    BY <1>0, <1>7, <2>2 DEF Inv, SharedInv, ContentInv
  <2>4. QuietInv' /\ DamageInv'
    BY <1>0, <1>3, <1>5, <2>1 DEF Inv, SharedInv, QuietInv, DamageInv
  <2>5. \A j \in SlotIds : j < i + 1 => j < i \/ j = i
    BY DEF SlotIds
  <2>6. \A j \in SlotIds : j < wi'[p] => Clean(j)'
    BY <1>1, <1>2, <1>5, <1>8, <2>1, <2>5 DEF RepairInv
  <2>7. RepairInv(p)'
    BY <2>1, <2>6 DEF RepairInv, Repair
  <2>8. HolderInv'
    BY <2>1, <2>2, <2>7 DEF HolderInv, Repairing
  <2> QED BY <1>6, <2>3, <2>4, <2>8 DEF SharedInv
<1>9. CASE ~dead
  <2>1. wi' = wi /\ pc'[p] = "discount" /\ ~dead' /\ lock' = p /\ WritingNow(p)'
    BY <1>0, <1>2, <1>9 DEF ClearBit, Inv, TypeOK, LocalInv, WritingNow, Writing
  <2>2. /\ bit[i] /\ count = Cardinality(Bits) /\ op[p] = "unregister"
        /\ src[p] = IF op[p] = "register" THEN arg[p] ELSE Empty
        /\ \A j \in SlotIds \ {i} : Clean(j) /\ slot[j].name # arg[p].name
    BY <1>0, <1>1, <1>2, <1>9 DEF WriterInv
  <2>3. count' = Cardinality(Bits)' + 1
    <3>1. Bits' = Bits \ {i} /\ i \in Bits
      BY <1>4, <2>2 DEF Bits
    <3>2. Cardinality(Bits \ {i}) = Cardinality(Bits) - 1
      BY <3>1, BitsFinite, FS_RemoveElement
    <3> QED BY <1>0, <2>2, <3>1, <3>2, BitsFinite
  <2>4. WriterInv(p)'
    BY <1>0, <1>1, <1>3, <1>4, <1>5, <2>1, <2>2, <2>3 DEF WriterInv
  <2>5. ContentInv'
    <3>1. \A n \in Names \ hurt : Holds(n)
      BY <1>0, <1>2, <1>9, OneHolder DEF Inv, SharedInv, ContentInv, Publishing
    <3> QED BY <1>0, <1>7, <3>1 DEF ContentInv
  <2>6. QuietInv' /\ DamageInv'
    BY <2>1 DEF QuietInv, DamageInv
  <2>7. HolderInv'
    <3> SUFFICES ASSUME NEW q \in Procs
                 PROVE  /\ WritingNow(q)' => WriterInv(q)'
                        /\ Repairing(q)' => RepairInv(q)'
                        /\ pc'[q] = "recover" => dead'
      BY DEF HolderInv
    <3>1. CASE q = p
      BY <2>1, <2>4, <3>1 DEF Repairing
    <3>2. CASE q # p
      BY <1>2, <1>4, <2>1, <3>2, OneHolder DEF WritingNow, Repairing, Locked
    <3> QED BY <3>1, <3>2
  <2> QED BY <1>6, <2>5, <2>6, <2>7 DEF SharedInv
<1> QED BY <1>8, <1>9

LEMMA SubCountShared ==
    ASSUME Inv, NEW p \in Procs, SubCount(p)
    PROVE  SharedInv'
<1> USE DEF Goto, table, mutex, writer, history, SubCount
<1>0. /\ pc[p] = "discount" /\ pc[p] \in Writing /\ UNCHANGED <<bit, slot, lock, dead, dir, hurt>>
  BY DEF Writing
<1>1. PICK i \in SlotIds : i = wi[p]
  BY <1>0, WriteMode
<1>2. lock = p /\ ~dead /\ WritingNow(p) /\ WriterInv(p)
  BY <1>0, WriteMode DEF RepairInv, Repair
<1>3. /\ pc'[p] = "unlock" /\ lock' = p /\ ~dead'
      /\ \A q \in Procs \ {p} : pc'[q] = pc[q]
  BY <1>0, <1>2 DEF Inv, LocalInv
<1>4. \A q \in Procs : ~WritingNow(q)' /\ ~Repairing(q)' /\ pc'[q] # "recover"
  BY <1>2, <1>3, OneHolder DEF WritingNow, Repairing, Writing, Locked
<1>5. Bits' = Bits /\ \A j \in SlotIds : Clean(j)' <=> Clean(j)
  BY <1>0 DEF Bits, Clean
<1>6. count' = Cardinality(Bits)'
  <2>1. count = Cardinality(Bits) + 1
    BY <1>0, <1>2 DEF WriterInv
  <2> QED BY <1>5, <2>1, BitsFinite
<1>7. \A j \in SlotIds : Clean(j)
  <2>1. slot[i].name = NoName /\ ~Odd(slot[i].seq) /\ ~bit[i]
    BY <1>0, <1>1, <1>2 DEF WriterInv
  <2>2. Clean(i)
    BY <2>1 DEF Clean, Inv, TypeOK
  <2> QED BY <1>1, <1>2, <2>2 DEF WriterInv
<1>8. NamesInv'
  BY <1>0 DEF Inv, SharedInv, NamesInv
<1>9. ContentInv'
  <2>1. \A n \in Names \ hurt : Holds(n)
    BY <1>0, <1>2, OneHolder DEF Inv, SharedInv, ContentInv, Publishing
  <2> QED BY <1>0, <2>1 DEF ContentInv, Holds
<1>10. QuietInv' /\ DamageInv' /\ HolderInv'
  BY <1>3, <1>4, <1>5, <1>6, <1>7 DEF QuietInv, DamageInv, HolderInv
<1> QED BY <1>8, <1>9, <1>10 DEF SharedInv

\* A crash harms the entry being written and no other one.
LEMMA CrashShared ==
    ASSUME Inv, NEW p \in Procs, Crash(p)
    PROVE  SharedInv'
<1> USE DEF Crash, Forget, Goto, ForgetWriter, table
<1>0. /\ UNCHANGED <<bit, slot, count, dir>> /\ pc'[p] = "idle" /\ p # None
      /\ \A q \in Procs \ {p} : /\ pc'[q] = pc[q] /\ op'[q] = op[q] /\ arg'[q] = arg[q]
                             /\ wi'[q] = wi[q] /\ src'[q] = src[q]
  BY RegistryAssumption DEF Inv, TypeOK, LocalInv, Procs
<1>1. CASE lock # p
  <2>1. UNCHANGED <<lock, dead, hurt>> /\ pc'[p] \notin Locked
    BY <1>0, <1>1 DEF Inv, TypeOK, LocalInv, Locked, Writing
  <2> QED BY <1>0, <1>1, <2>1, Frame
<1>2. CASE lock = p /\ dead
  <2>1. dead' /\ hurt' = hurt /\ lock' = None
    BY <1>2 DEF Repairing
  <2> QED BY <1>0, <1>2, <2>1, DeadStep
<1>3. CASE lock = p /\ ~dead
  <2>1. dead' /\ lock' = None
    BY <1>3
  <2>2. \A q \in Procs : ~WritingNow(q)' /\ ~Repairing(q)'
    BY <2>1, RegistryAssumption DEF WritingNow, Repairing, Procs
  <2>3. NamesInv'
    BY <1>0 DEF Inv, SharedInv, NamesInv
  <2>4. QuietInv' /\ HolderInv'
    BY <2>1, <2>2 DEF QuietInv, HolderInv
  <2>5. \A n \in Names : Holds(n)' <=> Holds(n)
    BY <1>0 DEF Holds
  <2>6. \A i \in SlotIds : Clean(i)' <=> Clean(i)
    BY <1>0 DEF Clean
  <2>7. CASE pc[p] \in Writing
    <3>1. WritingNow(p) /\ WriterInv(p) /\ wi[p] \in SlotIds
      BY <1>3, <2>7, WriteMode
    <3>2. hurt' = hurt \cup {arg[p].name}
      BY <1>3, <2>7 DEF Repairing
    <3>3. slot[wi[p]].name \in {NoName, arg[p].name}
      BY <2>7, <3>1, EmptyEntry DEF WriterInv, Writing
    <3>4. ContentInv'
      BY <2>5, <3>1, <3>2, OthersHold DEF ContentInv
    <3>5. \A i \in SlotIds : Clean(i) \/ slot[i].name \in hurt' \cup {NoName}
      BY <3>1, <3>2, <3>3 DEF WriterInv
    <3>6. DamageInv'
      BY <1>0, <2>6, <3>5 DEF DamageInv
    <3> QED BY <2>3, <2>4, <3>4, <3>6 DEF SharedInv
  <2>8. CASE pc[p] \notin Writing
    <3>1. hurt' = hurt /\ \A q \in Procs : ~WritingNow(q)
      BY <1>3, <2>8, OneHolder DEF WritingNow
    <3>2. ContentInv'
      BY <2>5, <3>1 DEF Inv, SharedInv, ContentInv
    <3>3. DamageInv'
      BY <1>3, <2>6, <3>1 DEF Inv, SharedInv, QuietInv, DamageInv
    <3> QED BY <2>3, <2>4, <3>2, <3>3 DEF SharedInv
  <2> QED BY <2>7, <2>8
<1> QED BY <1>1, <1>2, <1>3

-----------------------------------------------------------------------------
(* Theorems *)

LEMMA NextInv ==
    ASSUME Inv, [Next]_vars
    PROVE  Inv'
<1>1. ASSUME NEW p \in Procs, Start(p) \/ Step(p) \/ Crash(p) PROVE Inv'
  <2>1. TypeOK' /\ LocalInv'
    BY <1>1, StartLocal, ReadLocal, ChooseLocal, WriteLocal, CrashLocal DEF Step
  <2>2. SharedInv'
    <3>1. CASE Start(p)
      BY <3>1, OutsideShared
    <3>2. CASE Crash(p)
      BY <3>2, CrashShared
    <3>3. CASE Step(p)
      BY <3>3, OutsideShared, LockShared, RecoverShared, MarkShared, LeaveShared, OverwriteShared,
         TakeShared, AddCountShared, GiveUpShared, StoreShared, EvenShared, ClearShared,
         SubCountShared DEF Step
    <3> QED BY <1>1, <3>1, <3>2, <3>3
  <2> QED BY <2>1, <2>2 DEF Inv
<1>2. CASE UNCHANGED vars
  <2>1. UNCHANGED <<bit, slot, count, lock, dead, pc, op, arg, wi, ws, src, ri, retry, s1, snap,
                    out, deaths, ops, dir, hurt>>
    BY <1>2 DEF vars, table, mutex, writer, reader, history
  <2>2. TypeOK' /\ LocalInv'
    BY <2>1 DEF Inv, TypeOK, LocalInv
  <2>3. Bits' = Bits /\ \A i \in SlotIds : Clean(i)' <=> Clean(i)
    BY <2>1 DEF Bits, Clean
  <2>4. \A n \in Names : Holds(n)' <=> Holds(n)
    BY <2>1 DEF Holds
  <2>5. \A q \in Procs : WritingNow(q)' <=> WritingNow(q)
    BY <2>1 DEF WritingNow
  <2>6. \A q \in Procs : Repairing(q)' <=> Repairing(q)
    BY <2>1 DEF Repairing
  <2>7. NamesInv' /\ DamageInv'
    BY <2>1, <2>3 DEF Inv, SharedInv, NamesInv, DamageInv
  <2>8. ContentInv' /\ QuietInv'
    BY <2>1, <2>3, <2>4, <2>5 DEF Inv, SharedInv, ContentInv, QuietInv
  <2>9. HolderInv'
    <3>1. ASSUME NEW q \in Procs, WriterInv(q) PROVE WriterInv(q)'
      BY <2>1, <2>3, <3>1 DEF WriterInv
    <3>2. ASSUME NEW q \in Procs, RepairInv(q) PROVE RepairInv(q)'
      BY <2>1, <2>3, <3>2 DEF RepairInv
    <3> QED BY <2>1, <2>5, <2>6, <3>1, <3>2 DEF Inv, SharedInv, HolderInv
  <2> QED BY <2>2, <2>7, <2>8, <2>9 DEF Inv, SharedInv
<1> QED BY <1>1, <1>2 DEF Next

LEMMA Invariance == Spec => []Inv
  BY InitInv, NextInv, PTL DEF Spec

\* The types, with the retry bound of snapshot_slot as the bound of the loop
\* of list and the number of slots as that of the count, whatever the number
\* of processes, slots, operations and crashes.
THEOREM TypeCorrect == Spec => []TypeOK
<1>1. Inv => TypeOK
  BY DEF Inv
<1> QED BY <1>1, Invariance, PTL

\* Whenever the mutex is free and consistent, register_segment, unregister and
\* the repair of recover_registry_invariant have left a table without
\* half-written or doubled entries, whose bitmap and count agree with it:
\* wherever earlier owners died, also while they were repairing.
THEOREM TableIsConsistent == Spec => []TableConsistent
<1>1. ASSUME Inv PROVE TableConsistent
  <2> SUFFICES ASSUME Settled
               PROVE  /\ \A i \in SlotIds : ~Odd(slot[i].seq) /\ bit[i] = (slot[i].name # NoName)
                      /\ count = Cardinality({i \in SlotIds : bit[i]})
                      /\ \A i, j \in SlotIds : bit[i] /\ bit[j] /\ i # j => slot[i].name # slot[j].name
    BY DEF TableConsistent
  <2>1. ~dead /\ \A p \in Procs : ~WritingNow(p)
    BY RegistryAssumption DEF Settled, WritingNow, Procs
  <2>2. count = Cardinality(Bits) /\ \A i \in SlotIds : Clean(i)
    BY <1>1, <2>1 DEF Inv, SharedInv, QuietInv
  <2>3. \A i, j \in SlotIds : bit[i] /\ bit[j] /\ i # j => slot[i].name # slot[j].name
    BY <1>1, <2>2 DEF Inv, SharedInv, NamesInv, Clean
  <2> QED BY <2>2, <2>3 DEF Bits, Clean
<1> QED BY <1>1, Invariance, PTL

\* What a holder of the mutex finds for a name that is intact.
LEMMA LookupHolds ==
    ASSUME Inv, NEW n \in Names, Holds(n)
    PROVE  Lookup(n) = dir[n]
<1>1. n # NoName
  BY RegistryAssumption DEF NoName
<1>2. PICK found : found = {i \in SlotIds : bit[i] /\ slot[i].name = n}
  OBVIOUS
<1>3. Lookup(n) = IF found = {} THEN 0 ELSE slot[First(found)].info
  BY <1>2 DEF Lookup
<1>4. \A i \in SlotIds : slot[i].name = n => i \in found
  BY <1>1, <1>2 DEF Inv, SharedInv, NamesInv
<1>5. CASE found = {}
  BY <1>3, <1>4, <1>5 DEF Holds
<1>6. CASE found # {}
  <2>1. found \in SUBSET Nat
    BY <1>2 DEF SlotIds
  <2>2. First(found) \in found
    BY <1>6, <2>1, FirstIn
  <2> QED BY <1>2, <1>3, <1>6, <2>2 DEF Holds
<1> QED BY <1>5, <1>6

\* A process that dies in register_segment or unregister costs at most the
\* entry it was writing: whoever holds the mutex next finds, for every other
\* name, what was last registered, through the repair and all that follows.
THEOREM OthersStayIntact == Spec => []OthersIntact
<1>1. ASSUME Inv, Settled, NEW n \in Names \ hurt PROVE Lookup(n) = dir[n]
  <2>1. \A p \in Procs : ~WritingNow(p)
    BY <1>1, RegistryAssumption DEF Settled, WritingNow, Procs
  <2>2. Holds(n)
    BY <1>1, <2>1 DEF Inv, SharedInv, ContentInv
  <2> QED BY <1>1, <2>2, LookupHolds
<1>2. Inv => OthersIntact
  BY <1>1 DEF OthersIntact
<1> QED BY <1>2, Invariance, PTL

-----------------------------------------------------------------------------
(* The directory *)

\* A register of n has begun to write.
Registering(n) ==
    \E p \in Procs :
        WritingNow(p) /\ pc[p] \in Publishing /\ op[p] = "register" /\ arg[p].name = n

\* What is registered is an entry, and a name in the table is registered, is
\* being registered or was harmed.
ValueInv ==
    /\ \A p \in Procs : Operating(p) /\ op[p] = "register" => arg[p].info \in 1 .. MaxOps
    /\ \A i \in SlotIds :
          slot[i].name # NoName =>
              slot[i].name \in hurt \/ dir[slot[i].name] # 0 \/ Registering(slot[i].name)

\* What each name has in the directory.
Content == [n \in Names |-> IF n \in hurt THEN 0 ELSE dir[n]]

\* A step that the directory does not see: what p has asked for, and whether it
\* is done, stay; the names in the table stay, go, or are being registered.
Silent(p) ==
    /\ UNCHANGED <<dir, hurt>>
    /\ Operating(p)' <=> Operating(p)
    /\ Operating(p) => op'[p] = op[p] /\ arg'[p] = arg[p] /\ (Done(p)' <=> Done(p))
    /\ \A q \in Procs \ {p} : pc'[q] = pc[q] /\ op'[q] = op[q] /\ arg'[q] = arg[q]
    /\ lock' = lock \/ lock \in {None, p}
    /\ dead' = dead \/ lock = p
    /\ WritingNow(p) /\ pc[p] \in Publishing => WritingNow(p)' /\ pc'[p] \in Publishing
    /\ \A i \in SlotIds :
          \/ slot'[i].name \in {NoName, slot[i].name}
          \/ slot'[i].name = arg[p].name /\ Operating(p) /\ op[p] = "register" /\ WritingNow(p)' /\ pc'[p] \in Publishing

\* The table says what was last registered, but for writes and harm.
LEMMA EntriesContent == Inv => Entries = Content
<1> SUFFICES ASSUME Inv PROVE Entries = Content
  OBVIOUS
<1>1. ASSUME NEW n \in Names \ hurt, ~InWrite(n) PROVE Lookup(n) = dir[n]
  <2>1. ASSUME NEW p \in Procs, WritingNow(p), pc[p] \in Publishing, arg[p].name = n
        PROVE  InWrite(n)
    <3>1. lock = p /\ ~dead /\ pc[p] \in Writing /\ op[p] # "list"
      BY <2>1 DEF WritingNow, Inv, SharedInv, HolderInv, WriterInv
    <3>2. Operating(p) /\ ~Repairing(p) /\ ~Done(p)
      BY <2>1, <3>1 DEF Operating, Repairing, Done, Publishing
    <3> QED BY <2>1, <3>1, <3>2 DEF InWrite
  <2>2. Holds(n)
    BY <1>1, <2>1 DEF Inv, SharedInv, ContentInv
  <2> QED BY <1>1, <2>2, LookupHolds
<1>2. \A n \in Names : (IF n \in hurt THEN 0 ELSE IF InWrite(n) THEN dir[n] ELSE Lookup(n))
                       = (IF n \in hurt THEN 0 ELSE dir[n])
  BY <1>1
<1> QED BY <1>2 DEF Entries, Content

\* A step of p changes the stage and the request of p alone.
LEMMA OneStage ==
    ASSUME Inv, Inv', NEW p \in Procs, dead' = dead \/ lock = p,
           \A q \in Procs \ {p} : pc'[q] = pc[q] /\ op'[q] = op[q] /\ arg'[q] = arg[q],
           NEW s, Stages'[p] = s, NEW r, Requests'[p] = r
    PROVE  Stages' = [Stages EXCEPT ![p] = s] /\ Requests' = [Requests EXCEPT ![p] = r]
<1>1. ASSUME NEW q \in Procs \ {p}
      PROVE  (Operating(q)' <=> Operating(q)) /\ arg'[q] = arg[q] /\ op'[q] = op[q] /\ (Done(q)' <=> Done(q))
  <2>1. pc'[q] = pc[q] /\ op'[q] = op[q] /\ arg'[q] = arg[q]
    OBVIOUS
  <2>2. CASE pc[q] \in {"unlock", "clear_bit", "discount"}
    <3>1. lock = q /\ lock' = q
      BY <2>1, <2>2 DEF Inv, LocalInv, Locked, Writing
    <3>2. dead' = dead
      BY <3>1
    <3> QED BY <2>1, <3>1, <3>2 DEF Operating, Done, Repairing
  <2>3. CASE pc[q] \notin {"unlock", "clear_bit", "discount"}
    BY <2>1, <2>3 DEF Operating, Done
  <2> QED BY <2>2, <2>3
<1>2. \A q \in Procs \ {p} : Stages'[q] = Stages[q]
  BY <1>1 DEF Stages
<1>3. \A q \in Procs \ {p} : Requests'[q] = Requests[q]
  BY <1>1 DEF Requests
<1>4. Stages' = [q \in Procs |-> Stages'[q]] /\ Stages = [q \in Procs |-> Stages[q]]
  BY DEF Stages
<1>5. Requests' = [q \in Procs |-> Requests'[q]] /\ Requests = [q \in Procs |-> Requests[q]]
  BY DEF Requests
<1>6. Stages' = [Stages EXCEPT ![p] = s]
  BY <1>2, <1>4
<1>7. Requests' = [Requests EXCEPT ![p] = r]
  BY <1>3, <1>5
<1> QED BY <1>6, <1>7

\* What p has asked for.
LEMMA StageOf ==
    ASSUME NEW p \in Procs
    PROVE  /\ Stages[p] = (IF ~Operating(p) THEN "idle" ELSE IF Done(p) THEN "done" ELSE "called")
           /\ Requests[p] = (IF Operating(p)
                             THEN [name |-> arg[p].name, value |-> IF op[p] = "register" THEN arg[p].info ELSE 0]
                             ELSE [name |-> NoName, value |-> 0])
           /\ Stages'[p] = (IF ~Operating(p)' THEN "idle" ELSE IF Done(p)' THEN "done" ELSE "called")
           /\ Requests'[p] = (IF Operating(p)'
                              THEN [name |-> arg'[p].name, value |-> IF op'[p] = "register" THEN arg'[p].info ELSE 0]
                              ELSE [name |-> NoName, value |-> 0])
  BY DEF Stages, Requests

\* Where dir and hurt are as they were, so are the entries.
LEMMA EntriesKept ==
    ASSUME Inv, Inv', UNCHANGED <<dir, hurt>>
    PROVE  Entries' = Entries
<1>1. Content' = Content
  BY DEF Content
<1>2. (Entries = Content)'
  BY EntriesContent, PTL
<1> QED BY <1>1, <1>2, EntriesContent

LEMMA SilentStutters ==
    ASSUME Inv, Inv', NEW p \in Procs, Silent(p)
    PROVE  UNCHANGED Dir!dirVars
<1>1. Entries' = Entries
  BY EntriesKept DEF Silent
<1>2. Stages'[p] = Stages[p] /\ Requests'[p] = Requests[p]
  BY StageOf DEF Silent
<1>3. Stages' = [Stages EXCEPT ![p] = Stages[p]] /\ Requests' = [Requests EXCEPT ![p] = Requests[p]]
  BY <1>2, OneStage DEF Silent
<1>4. Stages' = Stages /\ Requests' = Requests
  BY <1>3 DEF Stages, Requests
<1> QED BY <1>1, <1>4 DEF Silent, Dir!dirVars

\* Steps that register nothing and forget nothing.
LEMMA KeepValues ==
    ASSUME Inv, Inv', ValueInv, NEW p \in Procs, UNCHANGED <<dir, hurt>>,
           \A q \in Procs \ {p} : pc'[q] = pc[q] /\ op'[q] = op[q] /\ arg'[q] = arg[q],
           lock' = lock \/ lock \in {None, p}, dead' = dead \/ lock = p,
           WritingNow(p) /\ pc[p] \in Publishing =>
               WritingNow(p)' /\ pc'[p] \in Publishing /\ op'[p] = op[p] /\ arg'[p] = arg[p],
           \A i \in SlotIds :
              \/ slot'[i].name \in {NoName, slot[i].name}
              \/ slot'[i].name = arg'[p].name /\ op'[p] = "register" /\ WritingNow(p)' /\ pc'[p] \in Publishing,
           Operating(p)' /\ op'[p] = "register" => arg'[p].info \in 1 .. MaxOps
    PROVE  ValueInv'
<1>1. ASSUME NEW q \in Procs, Operating(q)', op'[q] = "register" PROVE arg'[q].info \in 1 .. MaxOps
  <2>1. CASE q = p
    BY <1>1, <2>1
  <2>2. CASE q # p
    <3>1. Operating(q) /\ op[q] = "register" /\ arg'[q] = arg[q]
      BY <1>1, <2>2 DEF Operating
    <3> QED BY <3>1 DEF ValueInv
  <2> QED BY <2>1, <2>2
<1>2. ASSUME NEW q \in Procs, WritingNow(q), pc[q] \in Publishing, op[q] = "register"
      PROVE  /\ WritingNow(q)' /\ pc'[q] \in Publishing /\ op'[q] = "register" /\ arg'[q].name = arg[q].name
  <2>1. CASE q = p
    BY <1>2, <2>1
  <2>2. CASE q # p
    <3>1. pc'[q] = pc[q] /\ op'[q] = op[q] /\ arg'[q] = arg[q] /\ lock = q /\ ~dead
      BY <1>2, <2>2 DEF WritingNow
    <3>2. lock' = q /\ ~dead'
      BY <1>2, <2>2, <3>1, RegistryAssumption DEF Procs
    <3> QED BY <1>2, <3>1, <3>2 DEF WritingNow
  <2> QED BY <2>1, <2>2
<1>3. \A n \in Names : Registering(n) => Registering(n)'
  BY <1>2 DEF Registering
<1>4. ASSUME NEW i \in SlotIds, NEW n \in Names, n = slot'[i].name
      PROVE  n \in hurt' \/ dir'[n] # 0 \/ Registering(n)'
  <2>0. n # NoName
    BY RegistryAssumption DEF NoName
  <2>1. CASE n = slot[i].name
    BY <1>3, <2>0, <2>1 DEF ValueInv
  <2>2. CASE n # slot[i].name
    <3>1. n = arg'[p].name /\ op'[p] = "register" /\ WritingNow(p)' /\ pc'[p] \in Publishing
      BY <1>4, <2>0, <2>2
    <3> QED BY <3>1 DEF Registering
  <2> QED BY <2>1, <2>2
<1>5. \A i \in SlotIds : slot'[i].name # NoName => slot'[i].name \in Names
  BY DEF Inv, TypeOK, Entry
<1> QED BY <1>1, <1>4, <1>5 DEF ValueInv

LEMMA SilentValues ==
    ASSUME Inv, Inv', ValueInv, NEW p \in Procs, Silent(p)
    PROVE  ValueInv'
<1>1. /\ UNCHANGED <<dir, hurt>>
      /\ \A q \in Procs \ {p} : pc'[q] = pc[q] /\ op'[q] = op[q] /\ arg'[q] = arg[q]
      /\ lock' = lock \/ lock \in {None, p}
      /\ dead' = dead \/ lock = p
  BY DEF Silent
<1>2. WritingNow(p) /\ pc[p] \in Publishing =>
          WritingNow(p)' /\ pc'[p] \in Publishing /\ op'[p] = op[p] /\ arg'[p] = arg[p]
  <2>1. WritingNow(p) /\ pc[p] \in Publishing => Operating(p)
    BY DEF Operating, Publishing, Inv, SharedInv, HolderInv, WriterInv
  <2> QED BY <2>1 DEF Silent
<1>3. \A i \in SlotIds :
         \/ slot'[i].name \in {NoName, slot[i].name}
         \/ slot'[i].name = arg'[p].name /\ op'[p] = "register" /\ WritingNow(p)' /\ pc'[p] \in Publishing
  BY DEF Silent
<1>4. Operating(p)' /\ op'[p] = "register" => arg'[p].info \in 1 .. MaxOps
  BY DEF Silent, ValueInv
<1> QED BY <1>1, <1>2, <1>3, <1>4, KeepValues

\* Steps of p outside a write, on the way to the mutex and in list.
LEMMA ReadSilent ==
    ASSUME Inv, NEW p \in Procs,
           BeginList(p) \/ CheckBit(p) \/ LoadS1(p) \/ CopyHead(p) \/ CopyRest(p) \/ LoadS2(p) \/ ReadLocked(p)
    PROVE  Silent(p)
<1> USE DEF Goto, Begin, NextSlot, RetrySnapshot, ForgetSnapshot, ForgetCopy, table, mutex, writer, history
<1>1. /\ UNCHANGED <<slot, lock, dead, dir, hurt, arg>>
      /\ pc[p] \in {"idle", "bit", "locked"} \cup Reading
      /\ pc[p] # "idle" => op[p] = "list" /\ op' = op
      /\ \A q \in Procs \ {p} : pc'[q] = pc[q] /\ op'[q] = op[q]
      /\ pc[p] = "idle" => op'[p] = "list"
  <2>1. CASE BeginList(p)
    BY <2>1 DEF BeginList, Inv, TypeOK, LocalInv
  <2>2. CASE CheckBit(p)
    BY <2>2 DEF CheckBit, Inv, TypeOK, LocalInv
  <2>3. CASE LoadS1(p)
    BY <2>3 DEF LoadS1, Inv, TypeOK, LocalInv, Reading
  <2>4. CASE CopyHead(p) \/ CopyRest(p)
    BY <2>4 DEF CopyHead, CopyRest, Inv, TypeOK, LocalInv, Reading
  <2>5. CASE LoadS2(p)
    BY <2>5 DEF LoadS2, Inv, TypeOK, LocalInv, Reading
  <2>6. CASE ReadLocked(p)
    BY <2>6 DEF ReadLocked, Inv, TypeOK, LocalInv
  <2> QED BY <2>1, <2>2, <2>3, <2>4, <2>5, <2>6
<1>2. pc[p] \notin Publishing
  BY <1>1 DEF Reading, Publishing
<1>3. ~Operating(p) /\ ~Operating(p)'
  BY <1>1 DEF Operating
<1> QED BY <1>1, <1>2, <1>3 DEF Silent

\* Taking the mutex, and the turns of the repair that write nothing.
LEMMA LockSilent ==
    ASSUME Inv, NEW p \in Procs, Lock(p) \/ Recover(p) \/ MarkConsistent(p)
    PROVE  Silent(p)
<1> USE DEF Goto, table, mutex, writer, reader, history
<1>1. /\ UNCHANGED <<slot, dir, hurt, arg, op>> /\ pc[p] \in {"lock", "recover"}
      /\ pc'[p] \in {"recover", "locked", "odd"}
      /\ \A q \in Procs \ {p} : pc'[q] = pc[q]
      /\ lock' = lock \/ lock = None
      /\ pc[p] = "lock" => dead' = dead
  <2>1. CASE Lock(p)
    BY <2>1 DEF Lock, Inv, LocalInv
  <2>2. CASE Recover(p)
    BY <2>2 DEF Recover, Inv, LocalInv
  <2>3. CASE MarkConsistent(p)
    BY <2>3 DEF MarkConsistent, Inv, LocalInv
  <2> QED BY <2>1, <2>2, <2>3
<1>2. pc[p] = "recover" => lock = p
  BY DEF Inv, LocalInv, Locked
<1>3. pc[p] \notin Publishing
  BY <1>1 DEF Publishing
<1>4. (Operating(p)' <=> Operating(p)) /\ ~Done(p)' /\ ~Done(p)
  BY <1>1 DEF Operating, Done
<1> QED BY <1>1, <1>2, <1>3, <1>4 DEF Silent

\* A write that begins.
LEMMA ChooseSilent ==
    ASSUME Inv, Inv', NEW p \in Procs, Overwrite(p) \/ TakeSlot(p)
    PROVE  Silent(p)
<1> USE DEF Goto, StartWrite, table, mutex, reader, history
<1>1. /\ UNCHANGED <<slot, dir, hurt, arg, op, lock, dead>> /\ pc[p] = "locked"
      /\ pc'[p] \in {"odd", "count"}
      /\ \A q \in Procs \ {p} : pc'[q] = pc[q]
  BY DEF Overwrite, TakeSlot, Inv, LocalInv
<1>2. pc[p] \notin Publishing
  BY <1>1 DEF Publishing
<1>3. (Operating(p)' <=> Operating(p)) /\ ~Done(p)' /\ ~Done(p)
  BY <1>1 DEF Operating, Done
<1> QED BY <1>1, <1>2, <1>3 DEF Silent

\* What p stores in its slot before the last store of publish_slot.
LEMMA StoreSilent ==
    ASSUME Inv, NEW p \in Procs,
           AddCount(p) \/ WriteOdd(p) \/ WriteHead(p) \/ WriteRest(p) \/ WriteMark(p)
    PROVE  Silent(p)
<1> USE DEF Goto, PutSlot, table, mutex, writer, reader, history
<1>1. /\ UNCHANGED <<dir, hurt, arg, op, lock, dead>> /\ pc[p] \in Publishing /\ pc[p] # "even"
      /\ pc'[p] \in Publishing
      /\ \A q \in Procs \ {p} : pc'[q] = pc[q]
      /\ pc[p] \in Writing /\ pc'[p] \in Writing
  BY DEF AddCount, WriteOdd, WriteHead, WriteRest, WriteMark, Inv, LocalInv, Publishing, Writing
<1>2. PICK i \in SlotIds : i = wi[p]
  BY <1>1, WriteMode
<1>3. /\ lock = p /\ slot[i] \in Entry /\ src[p] \in Entry /\ ws[p] \in Nat
      /\ ~dead => WriterInv(p) /\ arg[p].name \in Names
      /\ dead => RepairInv(p)
  BY <1>1, <1>2, WriteMode
<1>4. (Operating(p)' <=> Operating(p)) /\ ~Done(p)' /\ ~Done(p)
  BY <1>1 DEF Operating, Done, Publishing
<1>5. WritingNow(p) => WritingNow(p)'
  BY <1>1 DEF WritingNow
<1>6. \A j \in SlotIds \ {i} : slot'[j] = slot[j]
  BY <1>2 DEF AddCount, WriteOdd, WriteHead, WriteRest, WriteMark, Inv, TypeOK
<1>7. slot'[i].name # slot[i].name => pc[p] = "head" /\ slot'[i].name = src[p].name
  <2>1. CASE AddCount(p)
    BY <2>1 DEF AddCount
  <2>2. CASE WriteOdd(p) \/ WriteRest(p) \/ WriteMark(p)
    <3>1. slot'[i] = IF pc[p] = "odd" THEN [slot[i] EXCEPT !.seq = IF Odd(ws[p]) THEN ws[p] ELSE ws[p] + 1]
                     ELSE IF pc[p] = "rest" THEN [slot[i] EXCEPT !.info = src[p].info]
                     ELSE [slot[i] EXCEPT !.seq = ws[p] + 1]
      BY <1>2, <2>2 DEF WriteOdd, WriteRest, WriteMark, Inv, TypeOK
    <3>2. slot[i] \in Entry
      BY <1>3
    <3> QED BY <3>1, <3>2 DEF Entry
  <2>3. CASE WriteHead(p)
    <3>1. slot'[i] = [src[p] EXCEPT !.info = slot[i].info]
      BY <1>2, <2>3 DEF WriteHead, Inv, TypeOK
    <3> QED BY <1>3, <2>3, <3>1 DEF WriteHead, Entry
  <2> QED BY <2>1, <2>2, <2>3
<1>8. slot'[i].name # slot[i].name =>
        \/ slot'[i].name = NoName
        \/ slot'[i].name = arg[p].name /\ Operating(p) /\ op[p] = "register" /\ WritingNow(p)'
  <2>1. CASE dead
    BY <1>3, <1>7, <2>1, EmptyEntry DEF RepairInv
  <2>2. CASE ~dead
    <3>1. src[p] = IF op[p] = "register" THEN arg[p] ELSE Empty
      BY <1>3, <2>2 DEF WriterInv
    <3>2. WritingNow(p)
      BY <1>1, <1>3, <2>2 DEF WritingNow
    <3> QED BY <1>1, <1>5, <1>7, <3>1, <3>2, EmptyEntry DEF Operating, Publishing
  <2> QED BY <2>1, <2>2
<1>9. \A j \in SlotIds :
          \/ slot'[j].name \in {NoName, slot[j].name}
          \/ slot'[j].name = arg[p].name /\ Operating(p) /\ op[p] = "register" /\ WritingNow(p)' /\ pc'[p] \in Publishing
  BY <1>1, <1>6, <1>8
<1> QED BY <1>1, <1>4, <1>5, <1>9 DEF Silent

\* What p does to bit and count when the slot is written, and the end of a repair
\* of one slot.
LEMMA ClearSilent ==
    ASSUME Inv, NEW p \in Procs, ClearBit(p) \/ SubCount(p) \/ (WriteEven(p) /\ dead)
    PROVE  Silent(p)
<1> USE DEF Goto, PutSlot, table, mutex, writer, reader, history
<1>0. pc[p] \in Writing
  BY DEF ClearBit, SubCount, WriteEven, Writing
<1>1. lock = p /\ (dead => Repairing(p)) /\ (~dead => ~Repairing(p)) /\ wi[p] \in SlotIds /\ slot[wi[p]] \in Entry
  BY <1>0, WriteMode
<1>2. /\ UNCHANGED <<dir, hurt, arg, op, lock, dead>>
      /\ pc[p] \in {"clear_bit", "discount", "even"} /\ (pc[p] = "even" => dead)
      /\ pc'[p] \in {"clear_bit", "discount", "unlock", "recover"}
      /\ pc[p] = "discount" => ~dead /\ pc'[p] = "unlock"
      /\ pc[p] = "clear_bit" => pc'[p] = IF dead THEN "recover" ELSE "discount"
      /\ pc[p] = "even" => pc'[p] = "clear_bit"
      /\ \A q \in Procs \ {p} : pc'[q] = pc[q]
  <2>1. CASE ClearBit(p)
    BY <1>1, <2>1 DEF ClearBit, Inv, LocalInv
  <2>2. CASE SubCount(p)
    <3>1. ~dead
      BY <1>1, <2>2 DEF SubCount, Inv, SharedInv, HolderInv, RepairInv, Repair
    <3> QED BY <2>2, <3>1 DEF SubCount, Inv, LocalInv
  <2>3. CASE WriteEven(p) /\ dead
    BY <1>1, <2>3 DEF WriteEven, Inv, LocalInv
  <2> QED BY <2>1, <2>2, <2>3
<1>3. \A j \in SlotIds : slot'[j].name = slot[j].name
  <2>1. CASE WriteEven(p)
    <3>1. PICK m : slot' = [slot EXCEPT ![wi[p]] = [slot[wi[p]] EXCEPT !.seq = m]]
      BY <2>1 DEF WriteEven
    <3>2. [slot[wi[p]] EXCEPT !.seq = m].name = slot[wi[p]].name
      BY <1>1 DEF Entry
    <3> QED BY <1>1, <3>1, <3>2 DEF Inv, TypeOK
  <2>2. CASE ClearBit(p) \/ SubCount(p)
    BY <2>2 DEF ClearBit, SubCount
  <2> QED BY <2>1, <2>2
<1>4. ~(WritingNow(p) /\ pc[p] \in Publishing)
  BY <1>2 DEF WritingNow, Publishing
<1>5. Operating(p)' <=> Operating(p)
  BY <1>2 DEF Operating
<1>6. Done(p)' <=> Done(p)
  BY <1>1, <1>2 DEF Done, Repairing
<1> QED BY <1>2, <1>3, <1>4, <1>5, <1>6 DEF Silent

\* An operation begins.
LEMMA CallStep ==
    ASSUME Inv, Inv', ValueInv, NEW p \in Procs,
           \/ \E n \in Names : BeginRegister(p, n) \/ BeginUnregister(p, n)
           \/ \E e \in out[p] : BeginTouch(p, e)
    PROVE  ValueInv' /\ Dir!Call(p)
<1> USE DEF Begin, Goto, table, mutex, reader
<1>1. /\ UNCHANGED <<slot, lock, dead, dir, hurt>> /\ pc[p] = "idle" /\ pc'[p] = "lock"
      /\ op'[p] \in {"register", "unregister"}
      /\ \A q \in Procs \ {p} : pc'[q] = pc[q] /\ op'[q] = op[q] /\ arg'[q] = arg[q]
  BY DEF BeginRegister, BeginUnregister, BeginTouch, Inv, TypeOK, LocalInv
<1>2. arg'[p].name \in Names /\ (op'[p] = "register" => arg'[p].info \in 1 .. MaxOps)
  <2>0. ops < MaxOps /\ ops \in Nat
    BY DEF BeginRegister, BeginUnregister, BeginTouch, Inv, TypeOK
  <2>1. ops + 1 \in 1 .. MaxOps
    BY <2>0, RegistryAssumption
  <2>2. ASSUME NEW n \in Names, BeginRegister(p, n) PROVE arg'[p].name \in Names /\ arg'[p].info \in 1 .. MaxOps
    BY <2>1, <2>2 DEF BeginRegister, Inv, TypeOK
  <2>3. ASSUME NEW n \in Names, BeginUnregister(p, n) PROVE arg'[p].name \in Names /\ op'[p] # "register"
    <3>1. [Empty EXCEPT !.name = n].name = n
      BY DEF Empty
    <3> QED BY <2>3, <3>1 DEF BeginUnregister, Inv, TypeOK
  <2>4. ASSUME NEW e \in out[p], BeginTouch(p, e) PROVE arg'[p].name \in Names /\ arg'[p].info \in 1 .. MaxOps
    <3>1. e \in Entry
      BY <2>4 DEF Inv, TypeOK
    <3>2. [e EXCEPT !.info = ops + 1].name = e.name /\ [e EXCEPT !.info = ops + 1].info = ops + 1
      BY <3>1 DEF Entry
    <3> QED BY <2>1, <2>4, <3>2 DEF BeginTouch, Inv, TypeOK
  <2> QED BY <2>2, <2>3, <2>4
<1>3. ~Operating(p) /\ Operating(p)' /\ ~Done(p)' /\ pc[p] \notin Publishing
  BY <1>1 DEF Operating, Done, Publishing
<1>4. ValueInv'
  BY <1>1, <1>2, <1>3, KeepValues
<1>5. PICK r : r = Requests'[p]
  OBVIOUS
<1>6. Stages[p] = "idle" /\ Stages'[p] = "called"
      /\ r = [name |-> arg'[p].name, value |-> IF op'[p] = "register" THEN arg'[p].info ELSE 0]
  BY <1>3, <1>5, StageOf
<1>7. r \in Dir!Requests
  BY <1>2, <1>6 DEF Dir!Requests, Dir!NoEntry
<1>8. Stages' = [Stages EXCEPT ![p] = "called"] /\ Requests' = [Requests EXCEPT ![p] = r]
  BY <1>1, <1>5, <1>6, OneStage
<1>9. Entries' = Entries
  BY <1>1, EntriesKept
<1> QED BY <1>1, <1>4, <1>6, <1>7, <1>8, <1>9 DEF Dir!Call

\* register_segment or unregister returns.
LEMMA ReturnStep ==
    ASSUME Inv, Inv', ValueInv, NEW p \in Procs, Unlock(p)
    PROVE  ValueInv' /\ (op[p] # "list" => Dir!Return(p)) /\ (op[p] = "list" => Silent(p))
<1> USE DEF Goto, ForgetWriter, table, mutex, reader, history
<1>1. /\ UNCHANGED <<slot, dead, dir, hurt>> /\ pc[p] = "unlock" /\ op'[p] = "list"
      /\ pc'[p] = IF op[p] = "list" THEN "bit" ELSE "idle"
      /\ \A q \in Procs \ {p} : pc'[q] = pc[q] /\ op'[q] = op[q] /\ arg'[q] = arg[q]
  BY DEF Unlock, Inv, TypeOK, LocalInv
<1>2. lock = p /\ ~dead
  BY <1>1, LockedTable
<1>3. /\ ~Operating(p)' /\ (Operating(p) <=> op[p] # "list") /\ Done(p) /\ pc[p] \notin Publishing
  BY <1>1, <1>2 DEF Operating, Done, Repairing, Publishing
<1>4. ValueInv'
  BY <1>1, <1>2, <1>3, KeepValues
<1>5. ASSUME op[p] # "list" PROVE Dir!Return(p)
  <2>1. Stages[p] = "done" /\ Stages'[p] = "idle" /\ Requests'[p] = Dir!NoRequest
    BY <1>3, <1>5, StageOf DEF Dir!NoRequest, Dir!NoEntry, NoName
  <2>2. Stages' = [Stages EXCEPT ![p] = "idle"] /\ Requests' = [Requests EXCEPT ![p] = Dir!NoRequest]
    BY <1>1, <1>2, <2>1, OneStage
  <2>3. Entries' = Entries
    BY <1>1, EntriesKept
  <2> QED BY <1>1, <2>1, <2>2, <2>3 DEF Dir!Return, Dir!End
<1>6. ASSUME op[p] = "list" PROVE Silent(p)
  BY <1>1, <1>2, <1>3, <1>6 DEF Silent
<1> QED BY <1>4, <1>5, <1>6

\* Each intact name of the directory has a slot.
LEMMA PresentPlaced ==
    Inv /\ (\A n \in Names \ hurt : Holds(n)) => Dir!ExistsInjection(Dir!Present, SlotIds)
<1> SUFFICES ASSUME Inv, \A n \in Names \ hurt : Holds(n)
             PROVE  Dir!ExistsInjection(Dir!Present, SlotIds)
  OBVIOUS
<1>1. PICK f : f = [n \in Dir!Present |-> CHOOSE i \in SlotIds : slot[i].name = n]
  OBVIOUS
<1>2. ASSUME NEW n \in Dir!Present PROVE f[n] \in SlotIds /\ slot[f[n]].name = n
  <2>1. n \in Names /\ Content[n] # 0
    BY <1>2, EntriesContent DEF Dir!Present, Dir!NoEntry
  <2>2. n \notin hurt /\ dir[n] # 0
    BY <2>1 DEF Content
  <2>3. \E i \in SlotIds : slot[i].name = n
    BY <2>1, <2>2 DEF Holds
  <2> QED BY <1>1, <1>2, <2>3
<1>3. f \in [Dir!Present -> SlotIds] /\ DOMAIN f = Dir!Present
  BY <1>1, <1>2
<1>4. \A m, n \in Dir!Present : f[m] = f[n] => m = n
  BY <1>2
<1> QED BY <1>3, <1>4 DEF Dir!ExistsInjection, Dir!Injection, Dir!IsInjective

\* Names fill a table that has no free slot.
LEMMA FullTable ==
    ASSUME Inv, NEW p \in Procs, pc[p] = "locked", FreeSlots = {},
           NEW T, \A i \in SlotIds : slot[i].name \in Names => slot[i].name \in T
    PROVE  Dir!ExistsInjection(SlotIds, T)
<1>1. PICK f : f = [i \in SlotIds |-> slot[i].name]
  OBVIOUS
<1>2. \A i \in SlotIds : slot[i].name # NoName /\ slot[i].name \in Names
  BY LockedTable DEF Clean, FreeSlots, Inv, TypeOK, Entry
<1>3. \A i, j \in SlotIds : slot[i].name = slot[j].name => i = j
  BY <1>2 DEF Inv, SharedInv, NamesInv
<1>4. f \in [SlotIds -> T] /\ DOMAIN f = SlotIds /\ \A i, j \in SlotIds : f[i] = f[j] => i = j
  BY <1>1, <1>2, <1>3
<1> QED BY <1>4 DEF Dir!ExistsInjection, Dir!Injection, Dir!IsInjective

\* QuotaExceeded and NotFound.
LEMMA GiveUpStep ==
    ASSUME Inv, Inv', ValueInv, NEW p \in Procs, GiveUp(p)
    PROVE  ValueInv' /\ (Dir!Apply(p) \/ Dir!Refuse(p))
<1> USE DEF Goto, table, mutex, writer, reader
<1>0. PICK a : a = arg[p].name
  OBVIOUS
<1>1. /\ UNCHANGED <<slot, lock, dead, op, arg>> /\ pc[p] = "locked" /\ pc'[p] = "unlock"
      /\ op[p] # "list" /\ Matches(a) = {} /\ (op[p] = "register" => FreeSlots = {}) /\ a \in Names
      /\ \A q \in Procs \ {p} : pc'[q] = pc[q] /\ op'[q] = op[q] /\ arg'[q] = arg[q]
  BY <1>0 DEF GiveUp, Inv, TypeOK, LocalInv
<1>2. lock = p /\ ~dead /\ (\A q \in Procs : ~WritingNow(q)) /\ \A n \in Names \ hurt : Holds(n)
  BY <1>1, LockedTable
<1>3. \A i \in SlotIds : slot[i].name # a
  BY <1>1, MatchesFacts
<1>4. Operating(p) /\ Operating(p)' /\ ~Done(p) /\ Done(p)' /\ pc[p] \notin Publishing
  BY <1>1, <1>2 DEF Operating, Done, Repairing, Publishing
<1>5. /\ Stages[p] = "called" /\ Stages'[p] = "done" /\ Requests'[p] = Requests[p]
      /\ Requests[p] = [name |-> a, value |-> IF op[p] = "register" THEN arg[p].info ELSE 0]
  BY <1>0, <1>1, <1>4, StageOf
<1>6. Stages' = [Stages EXCEPT ![p] = "done"] /\ Requests' = [Requests EXCEPT ![p] = Requests[p]]
  BY <1>1, <1>5, OneStage
<1>7. Requests' = Requests
  BY <1>6 DEF Requests
<1>8. \A i \in SlotIds : slot[i].name # NoName => slot[i].name \in hurt \/ dir[slot[i].name] # 0
  BY <1>2 DEF ValueInv, Registering
<1>9. CASE op[p] = "register"
  <2>1. UNCHANGED <<dir, hurt>>
    BY <1>9 DEF GiveUp
  <2>2. arg'[p].info \in 1 .. MaxOps
    BY <1>1, <1>4, <1>9 DEF ValueInv
  <2>3. ValueInv'
    BY <1>1, <1>4, <2>1, <2>2, KeepValues
  <2>4. Entries' = Entries
    BY <2>1, EntriesKept
  <2>5. a \notin Dir!Present
    <3>1. CASE a \in hurt
      BY <1>1, <3>1, EntriesContent DEF Content, Dir!Present, Dir!NoEntry
    <3>2. CASE a \notin hurt
      <4>1. dir[a] = 0
        BY <1>1, <1>2, <1>3, <3>2 DEF Holds
      <4> QED BY <1>1, <4>1, EntriesContent DEF Content, Dir!Present, Dir!NoEntry
    <3> QED BY <3>1, <3>2
  <2>6. ASSUME NEW i \in SlotIds, slot[i].name \in Names
        PROVE  slot[i].name \in (Dir!Present \cup hurt) \ {a}
    <3>1. PICK n \in Names : n = slot[i].name
      BY <2>6
    <3>2. n # NoName /\ n # a
      BY <1>3, <3>1, RegistryAssumption DEF NoName
    <3>3. n \in hurt \/ dir[n] # 0
      BY <1>8, <3>1, <3>2
    <3>4. CASE n \in hurt
      BY <3>1, <3>2, <3>4
    <3>5. CASE n \notin hurt
      BY <3>1, <3>2, <3>3, <3>5, EntriesContent DEF Content, Dir!Present, Dir!NoEntry
    <3> QED BY <3>4, <3>5
  <2>7. Requests[p].name = a /\ Requests[p].value # Dir!NoEntry
    BY <1>1, <1>4, <1>5, <1>9 DEF ValueInv, Dir!NoEntry
  <2>8. Dir!ExistsInjection(Dir!Places, (Dir!Present \cup hurt) \ {Requests[p].name})
    <3>1. Dir!ExistsInjection(SlotIds, (Dir!Present \cup hurt) \ {a})
      BY <1>1, <1>9, <2>6, FullTable
    <3> QED BY <2>7, <3>1 DEF SlotIds, Dir!Places
  <2>9. /\ Stages[p] = "called" /\ UNCHANGED <<Entries, hurt, Requests>>
        /\ Requests[p].name \notin Dir!Present
    BY <1>5, <1>7, <2>1, <2>4, <2>5, <2>7
  <2>10. Dir!Refuse(p)
    BY <1>6, <2>7, <2>8, <2>9, Zenon DEF Dir!Refuse
  <2> QED BY <2>3, <2>10
<1>10. CASE op[p] # "register"
  <2>1. op[p] = "unregister"
    BY <1>1, <1>10 DEF Inv, TypeOK
  <2>2. dir' = [dir EXCEPT ![a] = 0] /\ hurt' = hurt \ {a}
    BY <1>0, <2>1 DEF GiveUp
  <2>3. dir'[a] = 0 /\ \A n \in Names \ {a} : dir'[n] = dir[n]
    BY <1>1, <2>2 DEF Inv, TypeOK
  <2>4. ValueInv'
    <3>1. ASSUME NEW q \in Procs, Operating(q)', op'[q] = "register" PROVE arg'[q].info \in 1 .. MaxOps
      <4>1. q # p
        BY <1>1, <2>1, <3>1
      <4>2. Operating(q) /\ op[q] = "register" /\ arg'[q] = arg[q]
        BY <1>1, <3>1, <4>1 DEF Operating
      <4> QED BY <4>2 DEF ValueInv
    <3>2. \A i \in SlotIds : slot'[i].name # NoName => slot'[i].name \in hurt' \/ dir'[slot'[i].name] # 0
      <4>1. \A i \in SlotIds : slot[i].name # NoName => slot[i].name \in Names
        BY DEF Inv, TypeOK, Entry
      <4> QED BY <1>1, <1>3, <1>8, <2>2, <2>3, <4>1
    <3> QED BY <3>1, <3>2 DEF ValueInv
  <2>5. Content' = [Content EXCEPT ![a] = 0]
    BY <1>1, <2>2, <2>3 DEF Content
  <2>6. (Entries = Content)'
    BY EntriesContent, PTL
  <2>7. Entries' = [Entries EXCEPT ![a] = 0]
    BY <2>5, <2>6, EntriesContent
  <2>8. \A q \in Procs : ~(WritingNow(q)' /\ pc'[q] \in Publishing)
    BY <1>1, <1>2 DEF WritingNow, Publishing
  <2>9. (\A n \in Names \ hurt : Holds(n))'
    BY <2>8 DEF Inv, SharedInv, ContentInv
  <2>10. Dir!ExistsInjection(Dir!Present', Dir!Places)
    <3>1. Dir!ExistsInjection(Dir!Present, SlotIds)'
      BY <2>9, PresentPlaced, PTL
    <3> QED BY <3>1 DEF SlotIds, Dir!Places
  <2>11. Requests[p].name = a /\ Requests[p].value = 0
    BY <1>5, <2>1
  <2>12. /\ Entries' = [Entries EXCEPT ![Requests[p].name] = Requests[p].value]
         /\ hurt' = hurt \ {Requests[p].name} /\ Stages[p] = "called"
    BY <1>5, <2>2, <2>7, <2>11
  <2>13. Dir!Apply(p)
    BY <1>6, <1>7, <2>10, <2>12, Zenon DEF Dir!Apply
  <2> QED BY <2>4, <2>13
<1> QED BY <1>9, <1>10

\* The last store of publish_slot: the operation takes effect.
LEMMA EvenStep ==
    ASSUME Inv, Inv', ValueInv, NEW p \in Procs, WriteEven(p), ~dead
    PROVE  ValueInv' /\ Dir!Apply(p)
<1> USE DEF Goto, PutSlot, table, mutex, writer, reader
<1>0. pc[p] = "even" /\ pc[p] \in Writing /\ pc[p] \in Publishing
  BY DEF WriteEven, Writing, Publishing
<1>1. PICK i \in SlotIds : i = wi[p]
  BY <1>0, WriteMode
<1>2. PICK a : a = arg[p].name
  OBVIOUS
<1>3. /\ slot[i] \in Entry /\ lock = p /\ WritingNow(p) /\ WriterInv(p) /\ a \in Names /\ ~Repairing(p)
  BY <1>0, <1>1, <1>2, WriteMode
<1>4. /\ UNCHANGED <<lock, dead, op, arg>> /\ dir' = [dir EXCEPT ![a] = src[p].info] /\ hurt' = hurt \ {a}
      /\ pc'[p] = IF op[p] = "unregister" THEN "clear_bit" ELSE "unlock"
      /\ \A q \in Procs \ {p} : pc'[q] = pc[q] /\ op'[q] = op[q] /\ arg'[q] = arg[q]
  BY <1>2, <1>3 DEF WriteEven, Inv, TypeOK, LocalInv
<1>5. /\ op[p] # "list" /\ src[p] = (IF op[p] = "register" THEN arg[p] ELSE Empty)
      /\ slot[i].name = src[p].name /\ \A j \in SlotIds \ {i} : slot[j].name # a
  BY <1>0, <1>1, <1>2, <1>3 DEF WriterInv
<1>6. \A j \in SlotIds : slot'[j].name = slot[j].name
  <2>1. PICK m : slot' = [slot EXCEPT ![i] = [slot[i] EXCEPT !.seq = m]]
    BY <1>1 DEF WriteEven
  <2>2. [slot[i] EXCEPT !.seq = m].name = slot[i].name
    BY <1>3 DEF Entry
  <2> QED BY <2>1, <2>2 DEF Inv, TypeOK
<1>7. Operating(p) /\ Operating(p)' /\ ~Done(p) /\ Done(p)'
  BY <1>0, <1>3, <1>4, <1>5 DEF Operating, Done, Repairing
<1>8. dir'[a] = src[p].info /\ \A n \in Names \ {a} : dir'[n] = dir[n]
  BY <1>3, <1>4 DEF Inv, TypeOK
<1>9. op[p] = "register" => src[p].info \in 1 .. MaxOps
  BY <1>5, <1>7 DEF ValueInv
<1>10. ValueInv'
  <2>1. ASSUME NEW q \in Procs, Operating(q)', op'[q] = "register" PROVE arg'[q].info \in 1 .. MaxOps
    <3>1. op[q] = "register" /\ arg'[q] = arg[q] /\ Operating(q)
      BY <1>4, <1>7, <2>1 DEF Operating
    <3> QED BY <3>1 DEF ValueInv
  <2>2. ASSUME NEW j \in SlotIds, slot'[j].name # NoName
        PROVE  slot'[j].name \in hurt' \/ dir'[slot'[j].name] # 0
    <3>1. slot'[j].name = slot[j].name /\ slot[j].name \in Names
      BY <1>6, <2>2 DEF Inv, TypeOK, Entry
    <3>2. CASE slot[j].name = a
      <4>1. j = i /\ src[p].name = a /\ a # NoName
        BY <1>5, <2>2, <3>1, <3>2
      <4>2. op[p] = "register"
        BY <1>5, <4>1, EmptyEntry
      <4> QED BY <1>8, <1>9, <3>1, <3>2, <4>2
    <3>3. CASE slot[j].name # a
      <4>1. ~Registering(slot[j].name)
        BY <1>2, <1>3, <3>3 DEF Registering, WritingNow
      <4> QED BY <1>4, <1>8, <2>2, <3>1, <3>3, <4>1 DEF ValueInv
    <3> QED BY <3>2, <3>3
  <2> QED BY <2>1, <2>2 DEF ValueInv
<1>11. /\ Stages[p] = "called" /\ Stages'[p] = "done" /\ Requests'[p] = Requests[p]
       /\ Requests[p] = [name |-> a, value |-> IF op[p] = "register" THEN arg[p].info ELSE 0]
  BY <1>2, <1>4, <1>7, StageOf
<1>12. Stages' = [Stages EXCEPT ![p] = "done"] /\ Requests' = [Requests EXCEPT ![p] = Requests[p]]
  BY <1>4, <1>11, OneStage
<1>13. Requests' = Requests
  BY <1>12 DEF Requests
<1>14. Requests[p].name = a /\ Requests[p].value = src[p].info
  BY <1>5, <1>11, EmptyEntry
<1>15. Content' = [Content EXCEPT ![a] = src[p].info]
  <2>1. PICK v : v = src[p].info
    OBVIOUS
  <2>2. a \notin hurt' /\ dir'[a] = v /\ \A n \in Names \ {a} : dir'[n] = dir[n] /\ (n \in hurt' <=> n \in hurt)
    BY <1>4, <1>8, <2>1
  <2>3. \A n \in Names : (IF n \in hurt' THEN 0 ELSE dir'[n])
                         = (IF n = a THEN v ELSE IF n \in hurt THEN 0 ELSE dir[n])
    BY <2>2
  <2> QED BY <1>3, <2>1, <2>3 DEF Content
<1>16. (Entries = Content)'
  BY EntriesContent, PTL
<1>17. Entries' = [Entries EXCEPT ![a] = src[p].info]
  BY <1>15, <1>16, EntriesContent
<1>18. \A q \in Procs : ~(WritingNow(q)' /\ pc'[q] \in Publishing)
  BY <1>3, <1>4 DEF WritingNow, Publishing
<1>19. (\A n \in Names \ hurt : Holds(n))'
  BY <1>18 DEF Inv, SharedInv, ContentInv
<1>20. Dir!ExistsInjection(Dir!Present', Dir!Places)
  <2>1. Dir!ExistsInjection(Dir!Present, SlotIds)'
    BY <1>19, PresentPlaced, PTL
  <2> QED BY <2>1 DEF SlotIds, Dir!Places
<1>21. /\ Entries' = [Entries EXCEPT ![Requests[p].name] = Requests[p].value]
       /\ hurt' = hurt \ {Requests[p].name} /\ Stages[p] = "called"
  BY <1>4, <1>11, <1>14, <1>17
<1>22. Dir!Apply(p)
  BY <1>12, <1>13, <1>20, <1>21, Zenon DEF Dir!Apply
<1> QED BY <1>10, <1>22

\* A death.
LEMMA CrashStep ==
    ASSUME Inv, Inv', ValueInv, NEW p \in Procs, Crash(p)
    PROVE  ValueInv' /\ (Dir!Die(p) \/ Dir!DieWriting(p) \/ Silent(p))
<1> USE DEF Goto, Forget, ForgetWriter, ForgetSnapshot, ForgetCopy, table
<1>0. PICK a : a = arg[p].name
  OBVIOUS
<1>1. /\ UNCHANGED <<slot, dir>> /\ pc'[p] = "idle"
      /\ hurt' = (IF pc[p] \in Writing /\ ~Repairing(p) THEN hurt \cup {a} ELSE hurt)
      /\ lock' = lock \/ lock = p
      /\ dead' = dead \/ lock = p
      /\ \A q \in Procs \ {p} : pc'[q] = pc[q] /\ op'[q] = op[q] /\ arg'[q] = arg[q]
  BY <1>0 DEF Crash, Inv, TypeOK, LocalInv
<1>2. pc[p] \in Writing /\ ~Repairing(p) => WritingNow(p) /\ WriterInv(p) /\ op[p] # "list" /\ a \in Names
  BY <1>0, WriteMode DEF WriterInv
<1>3. ~Operating(p)'
  BY <1>1 DEF Operating
<1>4. CASE pc[p] \in Writing /\ ~Repairing(p)
  <2>1. hurt' = hurt \cup {a} /\ lock = p
    BY <1>1, <1>2, <1>4 DEF WritingNow
  <2>2. ValueInv'
    <3>1. ASSUME NEW q \in Procs, Operating(q)', op'[q] = "register" PROVE arg'[q].info \in 1 .. MaxOps
      <4>1. q # p
        BY <1>3, <3>1
      <4>2. Operating(q) /\ op[q] = "register" /\ arg'[q] = arg[q]
        BY <1>1, <3>1, <4>1 DEF Operating
      <4> QED BY <4>2 DEF ValueInv
    <3>2. ASSUME NEW j \in SlotIds, slot'[j].name # NoName
          PROVE  slot'[j].name \in hurt' \/ dir'[slot'[j].name] # 0
      <4>1. CASE Registering(slot[j].name)
        BY <1>0, <1>1, <2>1, <4>1 DEF Registering, WritingNow
      <4>2. CASE ~Registering(slot[j].name)
        BY <1>1, <2>1, <3>2, <4>2 DEF ValueInv
      <4> QED BY <4>1, <4>2
    <3> QED BY <3>1, <3>2 DEF ValueInv
  <2>3. Operating(p) /\ (Done(p) => op[p] = "unregister")
    BY <1>2, <1>4 DEF Operating, Done, WriterInv, Writing
  <2>4. /\ Stages[p] = "called" \/ (Stages[p] = "done" /\ Requests[p].value = 0)
        /\ Requests[p].name = a /\ Stages'[p] = "idle" /\ Requests'[p] = Dir!NoRequest
    <3>1. Stages[p] = (IF Done(p) THEN "done" ELSE "called") /\ Stages'[p] = "idle"
      BY <1>3, <2>3, StageOf
    <3>2. Requests[p] = [name |-> a, value |-> IF op[p] = "register" THEN arg[p].info ELSE 0]
      BY <1>0, <2>3, StageOf
    <3>3. Requests'[p] = Dir!NoRequest
      BY <1>3, StageOf DEF Dir!NoRequest, Dir!NoEntry, NoName
    <3>4. Requests[p].name = a /\ (Done(p) => Requests[p].value = 0)
      BY <2>3, <3>2
    <3> QED BY <3>1, <3>3, <3>4
  <2>5. Stages' = [Stages EXCEPT ![p] = "idle"] /\ Requests' = [Requests EXCEPT ![p] = Dir!NoRequest]
    BY <1>1, <2>4, OneStage
  <2>6. Content' = [Content EXCEPT ![a] = 0]
    BY <1>1, <1>2, <1>4, <2>1 DEF Content
  <2>7. (Entries = Content)'
    BY EntriesContent, PTL
  <2>8. Entries' = [Entries EXCEPT ![a] = 0]
    BY <2>6, <2>7, EntriesContent
  <2>9. Dir!DieWriting(p)
    BY <2>1, <2>4, <2>5, <2>8 DEF Dir!DieWriting, Dir!End, Dir!NoEntry
  <2> QED BY <2>2, <2>9
<1>5. CASE ~(pc[p] \in Writing /\ ~Repairing(p))
  <2>1. hurt' = hurt
    BY <1>1, <1>5
  <2>2. ~(WritingNow(p) /\ pc[p] \in Publishing)
    BY <1>5 DEF WritingNow, Repairing
  <2>3. ValueInv'
    BY <1>1, <1>3, <2>1, <2>2, KeepValues
  <2>4. CASE Operating(p)
    <3>1. Stages[p] # "idle" /\ Stages'[p] = "idle" /\ Requests'[p] = Dir!NoRequest
      BY <1>3, <2>4, StageOf DEF Dir!NoRequest, Dir!NoEntry, NoName
    <3>2. Stages' = [Stages EXCEPT ![p] = "idle"] /\ Requests' = [Requests EXCEPT ![p] = Dir!NoRequest]
      BY <1>1, <3>1, OneStage
    <3>3. Entries' = Entries
      BY <1>1, <2>1, EntriesKept
    <3>4. Dir!Die(p)
      BY <2>1, <3>1, <3>2, <3>3 DEF Dir!Die, Dir!End
    <3> QED BY <2>3, <3>4
  <2>5. CASE ~Operating(p)
    <3>1. Silent(p)
      BY <1>1, <1>3, <2>1, <2>2, <2>5 DEF Silent
    <3> QED BY <2>3, <3>1
  <2> QED BY <2>4, <2>5
<1> QED BY <1>4, <1>5

\* register_segment and unregister of the registry implement the operations of
\* Directory: for any number of processes, names and slots, and through deaths
\* at any step, each takes effect in the table once between its call and its
\* return, a name is refused only while other names have all the slots, and a
\* death costs no entry but the one that was being written.
THEOREM DirectoryImplemented == Spec => ImplementsDirectory
<1>1. ASSUME Init PROVE ValueInv /\ Dir!Init
  <2>1. Inv
    BY <1>1, InitInv
  <2>2. /\ \A p \in Procs : ~Operating(p)
        /\ \A i \in SlotIds : slot[i].name = NoName
    BY <1>1, EmptyEntry DEF Init, Operating
  <2>3. ValueInv
    BY <2>2 DEF ValueInv
  <2>4. Content = [n \in Names |-> 0] /\ hurt = {}
    BY <1>1 DEF Init, Content
  <2>5. Entries = [n \in Names |-> 0]
    BY <2>1, <2>4, EntriesContent
  <2>6. Stages = [p \in Procs |-> "idle"]
    BY <2>2 DEF Stages
  <2>7. Requests = [p \in Procs |-> Dir!NoRequest]
    BY <2>2 DEF Requests, Dir!NoRequest, Dir!NoEntry, NoName
  <2> QED BY <2>3, <2>4, <2>5, <2>6, <2>7 DEF Dir!Init, Dir!NoEntry
<1>2. ASSUME Inv, Inv', ValueInv, NEW p \in Procs, Start(p) \/ Step(p) \/ Crash(p)
      PROVE  ValueInv' /\ [Dir!Next]_(Dir!dirVars)
  <2>1. CASE Silent(p)
    BY <1>2, <2>1, SilentValues, SilentStutters
  <2>2. CASE Start(p)
    BY <1>2, <2>1, <2>2, CallStep, ReadSilent DEF Start, Dir!Next
  <2>3. CASE Crash(p)
    BY <1>2, <2>1, <2>3, CrashStep DEF Dir!Next
  <2>4. CASE Step(p)
    <3>1. CASE Unlock(p)
      BY <1>2, <2>1, <3>1, ReturnStep DEF Dir!Next
    <3>2. CASE GiveUp(p)
      BY <1>2, <3>2, GiveUpStep DEF Dir!Next
    <3>3. CASE WriteEven(p) /\ ~dead
      BY <1>2, <3>3, EvenStep DEF Dir!Next
    <3>4. CASE ~(Unlock(p) \/ GiveUp(p) \/ (WriteEven(p) /\ ~dead))
      BY <1>2, <2>1, <2>4, <3>4, ReadSilent, LockSilent, ChooseSilent, StoreSilent, ClearSilent DEF Step
    <3> QED BY <3>1, <3>2, <3>3, <3>4
  <2> QED BY <1>2, <2>2, <2>3, <2>4
<1>3. ASSUME UNCHANGED vars, Inv, ValueInv, Inv' PROVE ValueInv' /\ UNCHANGED Dir!dirVars
  <2>1. UNCHANGED <<bit, slot, count, lock, dead, pc, op, arg, wi, ws, src, dir, hurt>>
    BY <1>3 DEF vars, table, mutex, writer, reader, history
  <2>2. \A q \in Procs : (Operating(q)' <=> Operating(q)) /\ (Done(q)' <=> Done(q))
    BY <2>1 DEF Operating, Done, Repairing
  <2>3. \A n : Registering(n)' <=> Registering(n)
    BY <2>1 DEF Registering, WritingNow
  <2>4. ValueInv'
    BY <1>3, <2>1, <2>2, <2>3 DEF ValueInv
  <2>5. Entries' = Entries
    BY <1>3, <2>1, EntriesKept
  <2>6. Stages' = Stages /\ Requests' = Requests
    BY <2>1, <2>2 DEF Stages, Requests
  <2> QED BY <2>1, <2>4, <2>5, <2>6 DEF Dir!dirVars
<1>4. ASSUME Inv, Inv', ValueInv, [Next]_vars PROVE ValueInv' /\ [Dir!Next]_(Dir!dirVars)
  BY <1>2, <1>3, <1>4 DEF Next
<1>5. Init /\ [][Next]_vars /\ []Inv => Dir!Init /\ [][Dir!Next]_(Dir!dirVars)
  BY <1>1, <1>4, PTL
<1> QED BY <1>5, Invariance, PTL DEF Spec, ImplementsDirectory, Dir!Spec
=============================================================================
