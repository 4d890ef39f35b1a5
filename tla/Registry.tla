------------------------------ MODULE Registry ------------------------------
(***************************************************************************)
(* The segment registry of src/src/shm_registry.cpp: a table of slots in   *)
(* shared memory with an occupancy bitmap and a count.  register_segment   *)
(* and unregister write it under a robust process-shared mutex; list reads *)
(* it without the mutex, through a sequence lock per slot.                 *)
(*                                                                         *)
(* A slot is three words: the sequence counter, the name and the rest of   *)
(* RegistryEntry (`info`).  The struct assignment of publish_slot copies   *)
(* ALL of them, the counter included, while readers look: the words are    *)
(* written one by one in ascending order, which is what the assignment     *)
(* compiles to.  A process may die between any two steps; the next one to  *)
(* lock the mutex repairs the table.                                       *)
(***************************************************************************)
EXTENDS Integers, FiniteSets

CONSTANTS
    Writers,      \* processes that register and unregister
    Listers,      \* processes that list, and touch what they listed
    Names,        \* segment names
    NSlots,       \* MAX_REGISTRY_ENTRIES
    SnapRetries,  \* retries of snapshot_slot
    MaxOps,       \* bound: number of operations
    MaxCrash,     \* bound: number of crashes
    None          \* no process

ASSUME RegistryAssumption ==
    /\ NSlots \in Nat \ {0} /\ SnapRetries \in Nat \ {0}
    /\ MaxOps \in Nat /\ MaxCrash \in Nat
    /\ None \notin Writers \cup Listers
    /\ "none" \notin Names

VARIABLES
    bit,      \* bitmap
    slot,     \* slots: seq, name and info words
    count,    \* count_storage
    lock,     \* process that holds header.control_mutex, or None
    dead,     \* its last owner died: the next lock returns EOWNERDEAD
    pc,       \* where each process is
    op,       \* the operation it runs
    arg,      \* the RegistryEntry it registers, or the name it unregisters
    wi, ws,   \* slot and sequence number of the write in progress
    src,      \* entry being written to the slot
    ri,       \* slot list is at
    retry,    \* retries of snapshot_slot
    s1, snap, \* local s1 and out of snapshot_slot
    out,      \* result of list so far
    deaths,   \* number of processes that died
    ops,      \* history: number of operations begun
    dir,      \* history: info last registered for each name, 0 when none
    hurt      \* history: names whose entry was being written at a crash

table == <<bit, slot, count>>
mutex == <<lock, dead>>
writer == <<arg, wi, ws, src>>
reader == <<ri, retry, s1, snap, out>>
history == <<ops, dir, hurt>>
vars == <<table, mutex, pc, op, writer, reader, deaths, history>>

Procs == Writers \cup Listers

SlotIds == 1 .. NSlots

NoName == "none"

Empty == [seq |-> 0, name |-> NoName, info |-> 0]

Odd(n) == n % 2 = 1

First(S) == CHOOSE i \in S : \A j \in S : i <= j

Goto(p, l) == pc' = [pc EXCEPT ![p] = l]

\* Locals that are no longer used.
ForgetWriter(p) ==
    /\ arg' = [arg EXCEPT ![p] = Empty] /\ src' = [src EXCEPT ![p] = Empty]
    /\ wi' = [wi EXCEPT ![p] = 1] /\ ws' = [ws EXCEPT ![p] = 0]

ForgetCopy(p) == s1' = [s1 EXCEPT ![p] = 0] /\ snap' = [snap EXCEPT ![p] = Empty]

ForgetSnapshot(p) == retry' = [retry EXCEPT ![p] = 0] /\ ForgetCopy(p)

Init ==
    /\ bit = [i \in SlotIds |-> FALSE]
    /\ slot = [i \in SlotIds |-> Empty]
    /\ count = 0 /\ lock = None /\ dead = FALSE
    /\ pc = [p \in Procs |-> "idle"]
    /\ op = [p \in Procs |-> "list"]
    /\ arg = [p \in Procs |-> Empty]
    /\ src = [p \in Procs |-> Empty]
    /\ wi = [p \in Procs |-> 1] /\ ws = [p \in Procs |-> 0]
    /\ ri = [p \in Procs |-> 1] /\ retry = [p \in Procs |-> 0]
    /\ s1 = [p \in Procs |-> 0] /\ snap = [p \in Procs |-> Empty]
    /\ out = [p \in Procs |-> {}]
    /\ deaths = 0 /\ ops = 0
    /\ dir = [n \in Names |-> 0] /\ hurt = {}

-----------------------------------------------------------------------------
(* The operations, up to their first access to shared memory *)

Begin(p, o, first) ==
    /\ pc[p] = "idle" /\ ops < MaxOps
    /\ op' = [op EXCEPT ![p] = o]
    /\ ops' = ops + 1
    /\ Goto(p, first)
    /\ UNCHANGED <<table, mutex, wi, ws, src, deaths, dir, hurt>>

\* ShmManager::create registers an entry whose sequence word is 0.
BeginRegister(p, n) ==
    /\ Begin(p, "register", "lock")
    /\ arg' = [arg EXCEPT ![p] = [seq |-> 0, name |-> n, info |-> ops + 1]]
    /\ UNCHANGED reader

\* gc registers an entry that it got from list again, with a new last_seen
\* (update_registry_last_seen); its sequence word comes from the slot.
BeginTouch(p, e) ==
    /\ e \in out[p] /\ e.name \in Names
    /\ Begin(p, "register", "lock")
    /\ arg' = [arg EXCEPT ![p] = [e EXCEPT !.info = ops + 1]]
    /\ UNCHANGED reader

BeginUnregister(p, n) ==
    /\ Begin(p, "unregister", "lock")
    /\ arg' = [arg EXCEPT ![p] = [Empty EXCEPT !.name = n]]
    /\ UNCHANGED reader

BeginList(p) ==
    /\ Begin(p, "list", "bit")
    /\ ri' = [ri EXCEPT ![p] = 1]
    /\ out' = [out EXCEPT ![p] = {}]
    /\ UNCHANGED <<arg, retry, s1, snap>>

-----------------------------------------------------------------------------
(* lock_registry_control and recover_registry_invariant *)

\* Mutant: the caller goes on whether or not it got the mutex.
LockNoWait(p) ==
    /\ pc[p] = "lock"
    /\ lock' = p
    /\ wi' = [wi EXCEPT ![p] = 1]
    /\ Goto(p, IF dead THEN "recover" ELSE "locked")
    /\ UNCHANGED <<table, dead, op, arg, ws, src, reader, deaths, history>>

\* pthread_mutex_lock; after EOWNERDEAD the table is repaired first.
Lock(p) ==
    /\ pc[p] = "lock" /\ lock = None
    /\ lock' = p
    /\ wi' = [wi EXCEPT ![p] = 1]
    /\ Goto(p, IF dead THEN "recover" ELSE "locked")
    /\ UNCHANGED <<table, dead, op, arg, ws, src, reader, deaths, history>>

\* Mutant: only a write in progress counts as damage.
DamagedOddOnly(i) == Odd(slot[i].seq)

\* The repair loop's test: a write was in progress, or bit and name differ.
Damaged(i) ==
    \/ Odd(slot[i].seq)
    \/ bit[i] # (slot[i].name # NoName)

\* One turn of the repair loop: a damaged slot is cleared.
Recover(p) ==
    /\ pc[p] = "recover" /\ wi[p] \in SlotIds
    /\ IF Damaged(wi[p])
       THEN /\ ws' = [ws EXCEPT ![p] = slot[wi[p]].seq]
            /\ src' = [src EXCEPT ![p] = Empty]
            /\ Goto(p, "odd")
            /\ UNCHANGED wi
       ELSE /\ wi' = [wi EXCEPT ![p] = @ + 1]
            /\ UNCHANGED <<ws, src, pc>>
    /\ UNCHANGED <<table, mutex, op, arg, reader, deaths, history>>

\* The count is stored and the mutex marked consistent.
MarkConsistent(p) ==
    /\ pc[p] = "recover" /\ wi[p] \notin SlotIds
    /\ count' = Cardinality({i \in SlotIds : bit[i]})
    /\ dead' = FALSE
    /\ Goto(p, "locked")
    /\ UNCHANGED <<bit, slot, lock, op, writer, reader, deaths, history>>

\* The guard goes out of scope; list goes on to the next slot.
Unlock(p) ==
    /\ pc[p] = "unlock"
    /\ lock' = None
    /\ Goto(p, IF op[p] = "list" THEN "bit" ELSE "idle")
    /\ op' = [op EXCEPT ![p] = "list"]
    /\ ForgetWriter(p)
    /\ UNCHANGED <<table, dead, reader, deaths, history>>

-----------------------------------------------------------------------------
(* register_segment and unregister, inside the mutex *)

\* Slots where snapshot_slot succeeds with the name looked for.
Matches(n) == {i \in SlotIds : bit[i] /\ ~Odd(slot[i].seq) /\ slot[i].name = n}

\* Mutant: the search for a free slot stops one short.
FreeSlotsButLast == {i \in 1 .. NSlots - 1 : ~bit[i]}

FreeSlots == {i \in SlotIds : ~bit[i]}

StartWrite(p, i, e) ==
    /\ wi' = [wi EXCEPT ![p] = i]
    /\ ws' = [ws EXCEPT ![p] = slot[i].seq]
    /\ src' = [src EXCEPT ![p] = e]

\* The name is there: publish over it.
Overwrite(p) ==
    /\ pc[p] = "locked" /\ op[p] # "list"
    /\ Matches(arg[p].name) # {}
    /\ StartWrite(p, First(Matches(arg[p].name)),
                  IF op[p] = "register" THEN arg[p] ELSE Empty)
    /\ Goto(p, "odd")
    /\ UNCHANGED <<table, mutex, op, arg, reader, deaths, history>>

\* A new name takes the first free slot: set_bit, then the count.
TakeSlot(p) ==
    /\ pc[p] = "locked" /\ op[p] = "register"
    /\ Matches(arg[p].name) = {} /\ FreeSlots # {}
    /\ StartWrite(p, First(FreeSlots), arg[p])
    /\ bit' = [bit EXCEPT ![First(FreeSlots)] = TRUE]
    /\ Goto(p, "count")
    /\ UNCHANGED <<slot, count, mutex, op, arg, reader, deaths, history>>

AddCount(p) ==
    /\ pc[p] = "count"
    /\ count' = count + 1
    /\ Goto(p, "odd")
    /\ UNCHANGED <<bit, slot, mutex, op, writer, reader, deaths, history>>

\* QuotaExceeded, or NotFound.
GiveUp(p) ==
    /\ pc[p] = "locked" /\ op[p] # "list"
    /\ Matches(arg[p].name) = {}
    /\ op[p] = "register" => FreeSlots = {}
    /\ hurt' = IF op[p] = "unregister" THEN hurt \ {arg[p].name} ELSE hurt
    /\ dir' = IF op[p] = "unregister" THEN [dir EXCEPT ![arg[p].name] = 0] ELSE dir
    /\ Goto(p, "unlock")
    /\ UNCHANGED <<table, mutex, op, writer, reader, deaths, ops>>

-----------------------------------------------------------------------------
(* publish_slot; clear_slot_for_recovery when the table is being repaired *)

Repairing(p) == dead /\ lock = p

PutSlot(i, e) == slot' = [slot EXCEPT ![i] = e]

\* The sequence word becomes odd.
WriteOdd(p) ==
    /\ pc[p] = "odd"
    /\ PutSlot(wi[p], [slot[wi[p]] EXCEPT !.seq = IF Odd(ws[p]) THEN ws[p] ELSE ws[p] + 1])
    /\ Goto(p, "head")
    /\ UNCHANGED <<bit, count, mutex, op, writer, reader, deaths, history>>

\* slot = source, first words: the sequence word of the SOURCE and the name.
WriteHead(p) ==
    /\ pc[p] = "head"
    /\ PutSlot(wi[p], [src[p] EXCEPT !.info = slot[wi[p]].info])
    /\ Goto(p, "rest")
    /\ UNCHANGED <<bit, count, mutex, op, writer, reader, deaths, history>>

\* slot = source, remaining words.
WriteRest(p) ==
    /\ pc[p] = "rest"
    /\ PutSlot(wi[p], [slot[wi[p]] EXCEPT !.info = src[p].info])
    /\ Goto(p, IF Repairing(p) THEN "even" ELSE "mark")
    /\ UNCHANGED <<bit, count, mutex, op, writer, reader, deaths, history>>

\* slot.seq_storage = s + 1, only in publish_slot.
WriteMark(p) ==
    /\ pc[p] = "mark"
    /\ PutSlot(wi[p], [slot[wi[p]] EXCEPT !.seq = ws[p] + 1])
    /\ Goto(p, "even")
    /\ UNCHANGED <<bit, count, mutex, op, writer, reader, deaths, history>>

\* The sequence word is even again; an entry that was removed still has
\* its bit.
WriteEven(p) ==
    /\ pc[p] = "even"
    /\ PutSlot(wi[p], [slot[wi[p]] EXCEPT !.seq = IF Odd(ws[p]) THEN ws[p] + 1 ELSE ws[p] + 2])
    /\ Goto(p, IF Repairing(p) \/ op[p] = "unregister" THEN "clear_bit" ELSE "unlock")
    /\ IF Repairing(p)
       THEN UNCHANGED <<dir, hurt>>
       ELSE /\ dir' = [dir EXCEPT ![arg[p].name] = src[p].info]
            /\ hurt' = hurt \ {arg[p].name}
    /\ UNCHANGED <<bit, count, mutex, op, writer, reader, deaths, ops>>

ClearBit(p) ==
    /\ pc[p] = "clear_bit"
    /\ bit' = [bit EXCEPT ![wi[p]] = FALSE]
    /\ IF Repairing(p)
       THEN wi' = [wi EXCEPT ![p] = @ + 1] /\ Goto(p, "recover")
       ELSE UNCHANGED wi /\ Goto(p, "discount")
    /\ UNCHANGED <<slot, count, mutex, op, arg, ws, src, reader, deaths, history>>

SubCount(p) ==
    /\ pc[p] = "discount"
    /\ count' = count - 1
    /\ Goto(p, "unlock")
    /\ UNCHANGED <<bit, slot, mutex, op, writer, reader, deaths, history>>

-----------------------------------------------------------------------------
(* list and snapshot_slot, outside the mutex *)

NextSlot(p) == ri' = [ri EXCEPT ![p] = @ + 1]

\* bit_is_set for the next slot; list returns after the last one.
CheckBit(p) ==
    /\ pc[p] = "bit"
    /\ IF ri[p] \notin SlotIds THEN Goto(p, "idle") /\ ri' = [ri EXCEPT ![p] = 1]
       ELSE IF bit[ri[p]] THEN Goto(p, "s1") /\ UNCHANGED ri
       ELSE NextSlot(p) /\ UNCHANGED pc
    /\ ForgetSnapshot(p)
    /\ UNCHANGED <<table, mutex, op, writer, out, deaths, history>>

\* Mutant: one retry too many.
RetrySnapshotOneMore(p) ==
    /\ retry' = [retry EXCEPT ![p] = @ + 1]
    /\ Goto(p, IF retry[p] < SnapRetries THEN "s1" ELSE "lock")
    /\ ForgetCopy(p)

\* Mutant: no fallback to the mutex.
RetrySnapshotForever(p) ==
    /\ Goto(p, "s1")
    /\ ForgetCopy(p)
    /\ UNCHANGED retry

\* The sequence word moved or is odd: again, or take the mutex.
RetrySnapshot(p) ==
    /\ retry' = [retry EXCEPT ![p] = @ + 1]
    /\ Goto(p, IF retry[p] + 1 < SnapRetries THEN "s1" ELSE "lock")
    /\ ForgetCopy(p)

LoadS1(p) ==
    /\ pc[p] = "s1"
    /\ IF Odd(slot[ri[p]].seq) THEN RetrySnapshot(p)
       ELSE /\ s1' = [s1 EXCEPT ![p] = slot[ri[p]].seq]
            /\ Goto(p, "copy_head")
            /\ UNCHANGED <<retry, snap>>
    /\ UNCHANGED <<table, mutex, op, writer, ri, out, deaths, history>>

\* out = slot, in two steps.
CopyHead(p) ==
    /\ pc[p] = "copy_head"
    /\ snap' = [snap EXCEPT ![p] = [slot[ri[p]] EXCEPT !.info = 0]]
    /\ Goto(p, "copy_rest")
    /\ UNCHANGED <<table, mutex, op, writer, ri, retry, s1, out, deaths, history>>

CopyRest(p) ==
    /\ pc[p] = "copy_rest"
    /\ snap' = [snap EXCEPT ![p].info = slot[ri[p]].info]
    /\ Goto(p, "s2")
    /\ UNCHANGED <<table, mutex, op, writer, ri, retry, s1, out, deaths, history>>

LoadS2(p) ==
    /\ pc[p] = "s2"
    /\ IF slot[ri[p]].seq = s1[p]
       THEN /\ out' = [out EXCEPT ![p] = @ \cup {snap[p]}]
            /\ NextSlot(p) /\ Goto(p, "bit") /\ ForgetSnapshot(p)
       ELSE RetrySnapshot(p) /\ UNCHANGED <<ri, out>>
    /\ UNCHANGED <<table, mutex, op, writer, deaths, history>>

\* snap = p.slots[i] inside the mutex, after the retries are spent.
ReadLocked(p) ==
    /\ pc[p] = "locked" /\ op[p] = "list"
    /\ out' = [out EXCEPT ![p] = @ \cup {slot[ri[p]]}]
    /\ NextSlot(p) /\ Goto(p, "unlock") /\ ForgetSnapshot(p)
    /\ UNCHANGED <<table, mutex, op, writer, deaths, history>>

-----------------------------------------------------------------------------
(* Crashes, specification *)

Writing == {"count", "odd", "head", "rest", "mark", "even", "clear_bit", "discount"}

\* What a process knows dies with it.
Forget(p) ==
    /\ Goto(p, "idle")
    /\ op' = [op EXCEPT ![p] = "list"]
    /\ ForgetWriter(p) /\ ForgetSnapshot(p)
    /\ ri' = [ri EXCEPT ![p] = 1]
    /\ out' = [out EXCEPT ![p] = {}]

\* A process dies in an operation and another takes its place; a mutex it
\* holds is left to the next owner.
Crash(p) ==
    /\ pc[p] # "idle" /\ deaths < MaxCrash
    /\ deaths' = deaths + 1
    /\ lock' = IF lock = p THEN None ELSE lock
    /\ dead' = (dead \/ lock = p)
    /\ hurt' = IF pc[p] \in Writing /\ ~Repairing(p) THEN hurt \cup {arg[p].name} ELSE hurt
    /\ Forget(p)
    /\ UNCHANGED <<table, ops, dir>>

Start(p) ==
    \/ p \in Writers /\ \E n \in Names : BeginRegister(p, n) \/ BeginUnregister(p, n)
    \/ p \in Listers /\ (BeginList(p) \/ \E e \in out[p] : BeginTouch(p, e))

Step(p) ==
    \/ Lock(p) \/ Recover(p) \/ MarkConsistent(p) \/ Unlock(p)
    \/ Overwrite(p) \/ TakeSlot(p) \/ AddCount(p) \/ GiveUp(p)
    \/ WriteOdd(p) \/ WriteHead(p) \/ WriteRest(p) \/ WriteMark(p) \/ WriteEven(p)
    \/ ClearBit(p) \/ SubCount(p)
    \/ CheckBit(p) \/ LoadS1(p) \/ CopyHead(p) \/ CopyRest(p) \/ LoadS2(p) \/ ReadLocked(p)

Next == \E p \in Procs : Start(p) \/ Step(p) \/ Crash(p)

Spec == Init /\ [][Next]_vars

\* Every live process keeps executing, and gets the mutex when it is free
\* again and again.
FairSpec == Spec /\ \A p \in Procs : WF_vars(Step(p)) /\ SF_vars(Lock(p))

-----------------------------------------------------------------------------
(* Properties *)

Entry == [seq : Nat, name : Names \cup {NoName}, info : 0 .. MaxOps]

\* Types, with the retry bound of snapshot_slot and the table's size.
TypeOK ==
    /\ bit \in [SlotIds -> BOOLEAN] /\ slot \in [SlotIds -> Entry]
    /\ count \in 0 .. NSlots
    /\ lock \in Procs \cup {None} /\ dead \in BOOLEAN
    /\ op \in [Procs -> {"register", "unregister", "list"}]
    /\ arg \in [Procs -> Entry] /\ src \in [Procs -> Entry] /\ snap \in [Procs -> Entry]
    /\ wi \in [Procs -> 1 .. NSlots + 1] /\ ri \in [Procs -> 1 .. NSlots + 1]
    /\ ws \in [Procs -> Nat] /\ s1 \in [Procs -> Nat]
    /\ retry \in [Procs -> 0 .. SnapRetries]
    /\ \A p \in Procs : out[p] \subseteq Entry
    /\ deaths \in 0 .. MaxCrash /\ hurt \subseteq Names
    /\ ops \in 0 .. MaxOps /\ dir \in [Names -> 0 .. MaxOps]

\* Nobody is in the critical section, or died there without a successor.
Settled == lock = None /\ ~dead

\* Whenever the mutex is free and consistent, also after writers died at any
\* step and others repaired the table: no slot is half written, bitmap and
\* names agree, the count is the number of bits and no name is there twice.
TableConsistent ==
    Settled =>
        /\ \A i \in SlotIds : ~Odd(slot[i].seq) /\ bit[i] = (slot[i].name # NoName)
        /\ count = Cardinality({i \in SlotIds : bit[i]})
        /\ \A i, j \in SlotIds : bit[i] /\ bit[j] /\ i # j => slot[i].name # slot[j].name

\* What a reader that holds the mutex finds for a name.
Lookup(n) ==
    LET found == {i \in SlotIds : bit[i] /\ slot[i].name = n}
    IN  IF found = {} THEN 0 ELSE slot[First(found)].info

\* A crash harms at most the entry being written: every other name has what
\* was last registered for it, through the repair and all later operations.
OthersIntact == Settled => \A n \in Names \ hurt : Lookup(n) = dir[n]

\* A register or unregister that has not returned.
Operating(p) == pc[p] # "idle" /\ op[p] # "list"

\* It has written its entry, or found that there is nothing to write.
Done(p) == pc[p] \in {"unlock", "clear_bit", "discount"} /\ ~Repairing(p)

\* The entry of n is being written: it still counts as what it was.
InWrite(n) ==
    \E p \in Procs : pc[p] \in Writing /\ arg[p].name = n /\ Operating(p) /\ ~Repairing(p) /\ ~Done(p)

\* The registry seen as a directory: entries are what a holder of the mutex
\* would find in the table, outside of writes and but for those harmed.
Entries ==
    [n \in Names |-> IF n \in hurt THEN 0 ELSE IF InWrite(n) THEN dir[n] ELSE Lookup(n)]

Stages ==
    [p \in Procs |-> IF ~Operating(p) THEN "idle" ELSE IF Done(p) THEN "done" ELSE "called"]

Requests ==
    [p \in Procs |-> IF Operating(p)
                     THEN [name |-> arg[p].name, value |-> IF op[p] = "register" THEN arg[p].info ELSE 0]
                     ELSE [name |-> NoName, value |-> 0]]

Dir == INSTANCE Directory WITH
    Values   <- 1 .. MaxOps,
    Capacity <- NSlots,
    entry    <- Entries,
    lost     <- hurt,
    stage    <- Stages,
    req      <- Requests

\* register_segment and unregister are the operations of Directory, whatever
\* the interleaving and wherever processes die: each takes effect in the table
\* once between its call and its return, a new name is refused only when other
\* names have all the slots, and the entry a death costs is the one that was
\* being written.
ImplementsDirectory == Dir!Spec

\* Every operation of a process that lives returns: list does not spin on a
\* slot whose writer died, and a dead owner's mutex is handed on.
OpTerminates ==
    \A p \in Procs : []<>(pc[p] = "idle")

\* list returns consistent snapshots: a name and the rest of its entry are
\* never mixed with those of the slot's previous or next content.
ConsistentSnapshots ==
    \A p \in Procs : \A e \in out[p] : (e.name # NoName) <=> (e.info # 0)
=============================================================================
