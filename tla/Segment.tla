------------------------------ MODULE Segment -------------------------------
(***************************************************************************)
(* The life of the shared-memory objects behind ONE segment name:          *)
(* ShmManager::create, attach and destroy, ShmHandle::reset                *)
(* (src/src/shm_manager.cpp), the janitor Registry::gc                     *)
(* (src/src/shm_registry.cpp) and the owner liveness test of               *)
(* src/src/shm_lifecycle.cpp.                                              *)
(*                                                                         *)
(* A name is bound to at most one object; unlinking frees the name while   *)
(* the object lives on in the processes that map it, so a name may have    *)
(* several objects in turn.  Every access to the header, the name or the   *)
(* registry is a step; registry operations are atomic here (they run under *)
(* the registry's mutex, see module Registry).  Time is what it does: a    *)
(* heartbeat gets stale (3 s), a registry entry gets old (1 h).            *)
(***************************************************************************)
EXTENDS Integers, FiniteSets

CONSTANTS
    Procs,        \* processes
    Creators,     \* those that create, and destroy, the segment
    Attachers,    \* those that attach ReadWrite
    Readers,      \* those that attach ReadOnly
    Sweepers,     \* those whose other attaches sweep this name now and then
    Mortal,       \* those that may die
    Opaque,       \* those whose /proc/<pid>/maps the others may not read
    MaxObjs,      \* bound: objects created under the name
    MaxCrash,     \* bound: processes that die
    EarlyAttach,  \* TRUE: attach also by a name that is not registered yet
    None

ASSUME SegmentAssumption ==
    /\ MaxObjs \in Nat \ {0} /\ MaxCrash \in Nat
    /\ EarlyAttach \in BOOLEAN /\ None \notin Procs /\ IsFiniteSet(Procs)
    /\ Creators \cup Attachers \cup Readers \cup Sweepers \cup Mortal \cup Opaque
           \subseteq Procs
    /\ Readers \cap (Creators \cup Attachers) = {}

VARIABLES
    bound,   \* object the name is bound to in /dev/shm, 0 when none
    nobj,    \* number of objects created so far
    hdr,     \* their headers
    mlock,   \* holder of each object's control_mutex
    reg,     \* the name's registry entry
    pc, loc, \* where each process is, and its locals
    handle,  \* the object of its ShmHandle, 0 when none
    own,     \* ShmHandle::owner_
    alive,
    slow     \* history: objects whose owner stalled for 3 s or more

shared == <<bound, nobj, hdr, mlock, reg>>
local == <<loc, handle, own>>
vars == <<shared, pc, local, alive, slow>>

Objs == 1 .. MaxObjs

\* magic/name written; owner_pid; ref_count; state; heartbeat older than
\* HEARTBEAT_DEAD_NS.
ZeroHeader == [valid |-> FALSE, owner |-> None, rc |-> 0, state |-> "Init", stale |-> FALSE]

\* Present, and last_seen_ns older than SEGMENT_ZOMBIE_NS.
NoEntry == [on |-> FALSE, old |-> FALSE]
FreshEntry == [on |-> TRUE, old |-> FALSE]

\* Object; gc's dead, rc and last_seen test; objects whose heartbeat is
\* stale at gc's now; attach waits for the sweep; gc has called munmap.
NoLocals == [o |-> 0, dead |-> FALSE, rc |-> 0, old |-> FALSE, late |-> {},
             attach |-> FALSE, unmapped |-> FALSE]

Goto(p, l) == pc' = [pc EXCEPT ![p] = l]

\* An operation of p ends at label l; its locals are gone.
Leave(p, l) == Goto(p, l) /\ loc' = [loc EXCEPT ![p] = NoLocals]

TakeHandle(p, owner) ==
    /\ handle' = [handle EXCEPT ![p] = loc[p].o]
    /\ own' = [own EXCEPT ![p] = owner]

\* Step of a live process from one label to another.
At(p, from) == p \in alive /\ pc[p] = from

Init ==
    /\ bound = 0 /\ nobj = 0
    /\ hdr = [o \in Objs |-> ZeroHeader]
    /\ mlock = [o \in Objs |-> None]
    /\ reg = NoEntry
    /\ pc = [p \in Procs |-> "idle"]
    /\ loc = [p \in Procs |-> NoLocals]
    /\ handle = [p \in Procs |-> 0]
    /\ own = [p \in Procs |-> FALSE]
    /\ alive = Procs /\ slow = {}

-----------------------------------------------------------------------------
(* ShmManager::create *)

\* shm_open(O_CREAT | O_EXCL): a new object, all zero.
CreateOpen(p) ==
    /\ At(p, "idle") /\ p \in Creators /\ handle[p] = 0 /\ bound = 0 /\ nobj < MaxObjs
    /\ nobj' = nobj + 1 /\ bound' = nobj + 1
    /\ loc' = [loc EXCEPT ![p] = [NoLocals EXCEPT !.o = nobj + 1]]
    /\ Goto(p, "c_magic")
    /\ UNCHANGED <<hdr, mlock, reg, handle, own, alive, slow>>

\* Plain stores into the header, in program order: magic and name, ...
CreateMagic(p) ==
    /\ At(p, "c_magic")
    /\ hdr' = [hdr EXCEPT ![loc[p].o].valid = TRUE]
    /\ Goto(p, "c_owner")
    /\ UNCHANGED <<bound, nobj, mlock, reg, local, alive, slow>>

\* ... owner_pid, ...
CreateOwner(p) ==
    /\ At(p, "c_owner")
    /\ hdr' = [hdr EXCEPT ![loc[p].o].owner = p]
    /\ Goto(p, "c_ref")
    /\ UNCHANGED <<bound, nobj, mlock, reg, local, alive, slow>>

\* ... ref_count = 1, ...
CreateRef(p) ==
    /\ At(p, "c_ref")
    /\ hdr' = [hdr EXCEPT ![loc[p].o].rc = 1]
    /\ Goto(p, "c_active")
    /\ UNCHANGED <<bound, nobj, mlock, reg, local, alive, slow>>

\* ... state = Active.
CreateActive(p) ==
    /\ At(p, "c_active")
    /\ hdr' = [hdr EXCEPT ![loc[p].o].state = "Active"]
    /\ Goto(p, "c_handle")
    /\ UNCHANGED <<bound, nobj, mlock, reg, local, alive, slow>>

\* fchmod, ftruncate or mmap fails before the header is written, the
\* signature or control_mutex after it: shm_unlink, and create returns.
CreateFail(p) ==
    /\ p \in alive /\ pc[p] \in {"c_magic", "c_handle"}
    /\ bound' = 0
    /\ Leave(p, "idle")
    /\ UNCHANGED <<nobj, hdr, mlock, reg, handle, own, alive, slow>>

\* The handle exists; register_heartbeat_owner ticks once.
CreateHandle(p) ==
    /\ At(p, "c_handle")
    /\ hdr' = [hdr EXCEPT ![loc[p].o].stale = FALSE]
    /\ TakeHandle(p, TRUE)
    /\ Leave(p, "c_register")
    /\ UNCHANGED <<bound, nobj, mlock, reg, alive, slow>>

\* Registry::register_segment; create returns.
CreateRegister(p) ==
    /\ At(p, "c_register")
    /\ reg' = FreshEntry
    /\ Goto(p, "idle")
    /\ UNCHANGED <<bound, nobj, hdr, mlock, local, alive, slow>>

\* It failed: shm_unlink, and the handle is destroyed on return.
CreateRefused(p) ==
    /\ At(p, "c_register")
    /\ bound' = 0
    /\ Goto(p, "r_sub")
    /\ UNCHANGED <<nobj, hdr, mlock, reg, local, alive, slow>>

Create(p) ==
    \/ CreateOpen(p) \/ CreateMagic(p) \/ CreateOwner(p) \/ CreateRef(p)
    \/ CreateActive(p) \/ CreateFail(p) \/ CreateHandle(p) \/ CreateRegister(p)
    \/ CreateRefused(p)

-----------------------------------------------------------------------------
(* ShmManager::attach; a sweep of the janitor comes first *)

\* Registry::list and now, at the start of a sweep: the entry, or nothing to do.
Sweep(p, attach) ==
    IF reg.on
    THEN /\ loc' = [loc EXCEPT ![p] = [NoLocals EXCEPT !.old = reg.old, !.attach = attach,
                                                   !.late = {o \in Objs : hdr[o].stale}]]
         /\ Goto(p, "g_open")
    ELSE Leave(p, IF attach THEN "a_open" ELSE "idle")

\* EarlyAttach: by a name the caller knows (Logger::init after create said
\* AlreadyExists); otherwise by a name found in the registry (LogCenter).
BeginAttach(p) ==
    /\ At(p, "idle") /\ p \in Attachers \cup Readers /\ handle[p] = 0
    /\ EarlyAttach \/ reg.on
    /\ Sweep(p, TRUE)
    /\ UNCHANGED <<shared, handle, own, alive, slow>>

\* shm_open, fstat, mmap, validate_header.
AttachOpen(p) ==
    /\ At(p, "a_open")
    /\ IF bound # 0 /\ hdr[bound].valid
       THEN Goto(p, "a_state") /\ loc' = [loc EXCEPT ![p].o = bound]
       ELSE Goto(p, "idle") /\ UNCHANGED loc
    /\ UNCHANGED <<shared, handle, own, alive, slow>>

\* Load state: a dead segment is refused; a ReadOnly handle is not counted.
AttachState(p) ==
    /\ At(p, "a_state")
    /\ IF hdr[loc[p].o].state = "Dead" THEN Leave(p, "idle") /\ UNCHANGED <<handle, own>>
       ELSE IF p \in Readers THEN TakeHandle(p, FALSE) /\ Leave(p, "idle")
       ELSE Goto(p, "a_bump") /\ UNCHANGED local
    /\ UNCHANGED <<shared, alive, slow>>

\* ref_count.fetch_add.
AttachBump(p) ==
    /\ At(p, "a_bump")
    /\ hdr' = [hdr EXCEPT ![loc[p].o].rc = @ + 1]
    /\ Goto(p, "a_check")
    /\ UNCHANGED <<bound, nobj, mlock, reg, local, alive, slow>>

\* Load state again: take the handle, or ...
AttachCheck(p) ==
    /\ At(p, "a_check")
    /\ IF hdr[loc[p].o].state = "Dead"
       THEN Goto(p, "a_undo") /\ UNCHANGED local
       ELSE TakeHandle(p, FALSE) /\ Leave(p, "idle")
    /\ UNCHANGED <<shared, alive, slow>>

\* Mutant: the increment stays when the attach is refused.
AttachUndoForgotten(p) ==
    /\ At(p, "a_undo")
    /\ Leave(p, "idle")
    /\ UNCHANGED <<shared, handle, own, alive, slow>>

\* Mutant: the increment is taken back twice.
AttachUndoTwice(p) ==
    /\ At(p, "a_undo")
    /\ hdr' = [hdr EXCEPT ![loc[p].o].rc = @ - 2]
    /\ Leave(p, "idle")
    /\ UNCHANGED <<bound, nobj, mlock, reg, handle, own, alive, slow>>

\* ... take the increment back.
AttachUndo(p) ==
    /\ At(p, "a_undo")
    /\ hdr' = [hdr EXCEPT ![loc[p].o].rc = @ - 1]
    /\ Leave(p, "idle")
    /\ UNCHANGED <<bound, nobj, mlock, reg, handle, own, alive, slow>>

Attach(p) ==
    AttachOpen(p) \/ AttachState(p) \/ AttachBump(p) \/ AttachCheck(p) \/ AttachUndo(p)

-----------------------------------------------------------------------------
(* ShmHandle::reset and ShmManager::destroy *)

\* unregister_heartbeat_owner: the owner's heartbeat stops.
BeginReset(p) ==
    /\ At(p, "idle") /\ handle[p] # 0
    /\ Goto(p, "r_sub")
    /\ UNCHANGED <<shared, local, alive, slow>>

\* ref_count.fetch_sub, not for ReadOnly; the rest is for the owner, when it
\* was the last.
ResetSub(p) ==
    /\ At(p, "r_sub")
    /\ hdr' = IF p \in Readers THEN hdr ELSE [hdr EXCEPT ![handle[p]].rc = @ - 1]
    /\ handle' = [handle EXCEPT ![p] = 0]
    /\ own' = [own EXCEPT ![p] = FALSE]
    /\ IF own[p] /\ hdr[handle[p]].rc = 1
       THEN Goto(p, "r_state") /\ loc' = [loc EXCEPT ![p].o = handle[p]]
       ELSE Leave(p, "idle")
    /\ UNCHANGED <<bound, nobj, mlock, reg, alive, slow>>

\* Load state: the owner removes a draining segment.
ResetState(p) ==
    /\ At(p, "r_state")
    /\ IF hdr[loc[p].o].state = "Draining" THEN Goto(p, "r_dead") /\ UNCHANGED loc
       ELSE Leave(p, "idle")
    /\ UNCHANGED <<shared, handle, own, alive, slow>>

ResetDead(p) ==
    /\ At(p, "r_dead")
    /\ hdr' = [hdr EXCEPT ![loc[p].o].state = "Dead"]
    /\ Goto(p, "unlink")
    /\ UNCHANGED <<bound, nobj, mlock, reg, local, alive, slow>>

\* destroy: shm_unlink whatever the name is bound to.
DestroyUnlink(p) ==
    /\ At(p, "idle") /\ p \in Creators /\ bound # 0
    /\ bound' = 0
    /\ Leave(p, "unregister")
    /\ UNCHANGED <<nobj, hdr, mlock, reg, handle, own, alive, slow>>

\* shm_unlink(name), in the janitor and in reset.
Unlink(p) ==
    /\ At(p, "unlink")
    /\ bound' = 0
    /\ Goto(p, "unregister")
    /\ UNCHANGED <<nobj, hdr, mlock, reg, local, alive, slow>>

\* A sweep, if it is one, is over: attach goes on; a control_mutex that is
\* held is released.
SweepDone(p) ==
    /\ Leave(p, IF loc[p].attach THEN "a_open" ELSE "idle")
    /\ mlock' = [o \in Objs |-> IF mlock[o] = p THEN None ELSE mlock[o]]

\* Registry::unregister(name).
Unregister(p) ==
    /\ At(p, "unregister")
    /\ reg' = NoEntry
    /\ SweepDone(p)
    /\ UNCHANGED <<bound, nobj, hdr, handle, own, alive, slow>>

Release(p) ==
    \/ ResetSub(p) \/ ResetState(p) \/ ResetDead(p) \/ Unlink(p) \/ Unregister(p)

-----------------------------------------------------------------------------
(* Registry::gc, for the one name *)

\* The heartbeat thread of o's owner ticks.
Beating(o) ==
    LET p == hdr[o].owner
    IN  p \in alive /\ handle[p] = o /\ own[p] /\ pc[p] # "r_sub"

\* Mutant: an owner whose heartbeat is not stale is dead.
owner_is_dead_inverted(p, o) ==
    \/ hdr[o].owner = None
    \/ hdr[o].owner \notin alive
    \/ o \notin loc[p].late

\* No owner, no such process (or another one with its pid), or a heartbeat
\* that is stale at now.
owner_is_dead(p, o) ==
    \/ hdr[o].owner = None
    \/ hdr[o].owner \notin alive
    \/ o \in loc[p].late /\ hdr[o].stale

BeginGc(p) ==
    /\ At(p, "idle") /\ p \in Sweepers /\ reg.on
    /\ Sweep(p, FALSE)
    /\ UNCHANGED <<shared, handle, own, alive, slow>>

\* shm_open, fstat, mmap, janitor_header_valid.
GcOpen(p) ==
    /\ At(p, "g_open")
    /\ IF bound # 0 /\ hdr[bound].valid
       THEN Goto(p, "g_owner") /\ loc' = [loc EXCEPT ![p].o = bound]
       ELSE Goto(p, "unregister") /\ UNCHANGED loc
    /\ UNCHANGED <<shared, handle, own, alive, slow>>

GcOwner(p) ==
    /\ At(p, "g_owner")
    /\ loc' = [loc EXCEPT ![p].dead = owner_is_dead(p, loc[p].o)]
    /\ Goto(p, "g_rc")
    /\ UNCHANGED <<shared, handle, own, alive, slow>>

GcRc(p) ==
    /\ At(p, "g_rc")
    /\ loc' = [loc EXCEPT ![p].rc = hdr[loc[p].o].rc]
    /\ Goto(p, "g_state")
    /\ UNCHANGED <<shared, handle, own, alive, slow>>

\* Load state and choose: reap, drain, look for a zombie, or leave alone.
GcState(p) ==
    /\ At(p, "g_state")
    /\ LET l == loc[p]
           state == hdr[l.o].state
           Choose(label, late) ==
               /\ Goto(p, label)
               /\ loc' = [loc EXCEPT ![p] = [NoLocals EXCEPT !.o = l.o, !.attach = l.attach,
                                                        !.late = late]]
               /\ UNCHANGED mlock
       IN  IF l.dead /\ l.rc = 0 THEN Choose("g_lock", l.late)
           ELSE IF l.dead /\ state = "Active" THEN Choose("g_drain", {})
           ELSE IF state = "Draining" /\ l.old THEN Choose("g_maps", {})
           ELSE SweepDone(p)
    /\ UNCHANGED <<bound, nobj, hdr, reg, handle, own, alive, slow>>

\* control_mutex, ref_count and owner again.
GcRecheck(p) ==
    /\ At(p, "g_lock") /\ mlock[loc[p].o] = None
    /\ IF hdr[loc[p].o].rc = 0 /\ owner_is_dead(p, loc[p].o)
       THEN Goto(p, "g_dead") /\ mlock' = [mlock EXCEPT ![loc[p].o] = p] /\ UNCHANGED loc
       ELSE SweepDone(p)
    /\ UNCHANGED <<bound, nobj, hdr, reg, handle, own, alive, slow>>

\* Store Dead; shm_unlink and unregister follow.
GcDead(p) ==
    /\ At(p, "g_dead")
    /\ hdr' = [hdr EXCEPT ![loc[p].o].state = "Dead"]
    /\ Goto(p, "unlink")
    /\ UNCHANGED <<bound, nobj, mlock, reg, local, alive, slow>>

\* Mutant: a plain store of Draining.
GcDrainStore(p) ==
    /\ At(p, "g_drain")
    /\ hdr' = [hdr EXCEPT ![loc[p].o].state = "Draining"]
    /\ Goto(p, "g_touch")
    /\ UNCHANGED <<bound, nobj, mlock, reg, local, alive, slow>>

\* compare_exchange Active -> Draining.
GcDrain(p) ==
    /\ At(p, "g_drain")
    /\ hdr' = [hdr EXCEPT ![loc[p].o].state = IF @ = "Active" THEN "Draining" ELSE @]
    /\ Goto(p, "g_touch")
    /\ UNCHANGED <<bound, nobj, mlock, reg, local, alive, slow>>

\* update_registry_last_seen registers the listed entry anew.
GcTouch(p) ==
    /\ At(p, "g_touch")
    /\ reg' = FreshEntry
    /\ SweepDone(p)
    /\ UNCHANGED <<bound, nobj, hdr, handle, own, alive, slow>>

\* Processes that map the name's object, or an unlinked one of the name.
Mapping(p) ==
    /\ p \in alive
    /\ \/ handle[p] # 0
       \/ pc[p] \in {"c_magic", "c_owner", "c_ref", "c_active", "c_handle", "a_state", "a_bump", "a_check",
                     "a_undo", "r_state", "r_dead", "g_owner", "g_rc", "g_state", "g_lock",
                     "g_dead", "g_drain", "g_touch"}
       \/ pc[p] \in {"unlink", "unregister"} /\ loc[p].o # 0 /\ ~loc[p].unmapped

\* any_process_maps_segment, called by p, reads the maps files it may read.
any_process_maps_segment(p) == \E q \in Procs \ (Opaque \ {p}) : Mapping(q)

\* Mutant: the janitor scans before its own munmap.
GcMapsSelf(p) ==
    /\ At(p, "g_maps")
    /\ SweepDone(p)
    /\ UNCHANGED <<bound, nobj, hdr, reg, handle, own, alive, slow>>

\* Mutant: an old draining segment is unlinked unseen.
GcMapsNoScan(p) ==
    /\ At(p, "g_maps")
    /\ Goto(p, "unlink")
    /\ loc' = [loc EXCEPT ![p].unmapped = TRUE]
    /\ UNCHANGED <<shared, handle, own, alive, slow>>

\* munmap, then any_process_maps_segment.
GcMaps(p) ==
    /\ At(p, "g_maps")
    /\ IF any_process_maps_segment(p) THEN SweepDone(p)
       ELSE /\ Goto(p, "unlink")
            /\ loc' = [loc EXCEPT ![p].unmapped = TRUE]
            /\ UNCHANGED mlock
    /\ UNCHANGED <<bound, nobj, hdr, reg, handle, own, alive, slow>>

\* The search is for a substring of a line: any process that maps a segment
\* whose name extends this one will do, at any scan, ...
GcMapsKin(p) ==
    /\ At(p, "g_maps")
    /\ Goto(p, "g_kin")
    /\ UNCHANGED <<shared, local, alive, slow>>

\* ... and the sweep leaves the segment alone.
GcKin(p) ==
    /\ At(p, "g_kin")
    /\ SweepDone(p)
    /\ UNCHANGED <<bound, nobj, hdr, reg, handle, own, alive, slow>>

Gc(p) ==
    \/ GcOpen(p) \/ GcOwner(p) \/ GcRc(p) \/ GcState(p) \/ GcRecheck(p)
    \/ GcDead(p) \/ GcDrain(p) \/ GcTouch(p) \/ GcMaps(p) \/ GcMapsKin(p)
    \/ GcKin(p)

-----------------------------------------------------------------------------
(* Crashes and time *)

\* Inside create or attach, with a reference counted and no handle yet.
Counted(p) == pc[p] \in {"c_handle", "a_check", "a_undo"}

\* A process dies.  A reference it has counted stays counted, which `handle`
\* keeps record of; its mutex is handed on.
Crash(p) ==
    /\ p \in alive \cap Mortal /\ Cardinality(Procs \ alive) < MaxCrash
    /\ alive' = alive \ {p}
    /\ handle' = IF Counted(p) THEN [handle EXCEPT ![p] = loc[p].o] ELSE handle
    /\ mlock' = [o \in Objs |-> IF mlock[o] = p THEN None ELSE mlock[o]]
    /\ Leave(p, "idle")
    /\ UNCHANGED <<bound, nobj, hdr, reg, own, slow>>

\* Three seconds without a heartbeat: the owner is gone, ...
GetStale(o) ==
    /\ hdr[o].state # "Init" /\ ~hdr[o].stale /\ ~Beating(o)
    /\ hdr' = [hdr EXCEPT ![o].stale = TRUE]
    /\ UNCHANGED <<bound, nobj, mlock, reg, pc, local, alive, slow>>

\* ... or stopped for that long, by a debugger, a suspend or a busy machine.
Stall(o) ==
    /\ Beating(o) /\ ~hdr[o].stale
    /\ hdr' = [hdr EXCEPT ![o].stale = TRUE]
    /\ slow' = slow \cup {o}
    /\ UNCHANGED <<bound, nobj, mlock, reg, pc, local, alive>>

\* An owner that stalled is scheduled again and ticks.
Tick(o) ==
    /\ Beating(o) /\ hdr[o].stale
    /\ hdr' = [hdr EXCEPT ![o].stale = FALSE]
    /\ UNCHANGED <<bound, nobj, mlock, reg, pc, local, alive, slow>>

\* One hour since last_seen.
GetOld ==
    /\ reg.on /\ ~reg.old
    /\ reg' = [reg EXCEPT !.old = TRUE]
    /\ UNCHANGED <<bound, nobj, hdr, mlock, pc, local, alive, slow>>

Start(p) == BeginAttach(p) \/ BeginReset(p) \/ DestroyUnlink(p) \/ BeginGc(p)

Step(p) == Create(p) \/ Attach(p) \/ Release(p) \/ Gc(p)

Next ==
    \/ \E p \in Procs : Start(p) \/ Step(p) \/ Crash(p)
    \/ \E o \in Objs : GetStale(o) \/ Stall(o) \/ Tick(o)
    \/ GetOld

Spec == Init /\ [][Next]_vars

\* Live processes keep executing, some process keeps sweeping (every attach
\* sweeps, and LogCenter does every few milliseconds), and time passes.
FairSpec ==
    /\ Spec
    /\ \A p \in Procs : WF_vars(Step(p))
    /\ WF_vars(\E p \in Procs : BeginGc(p))
    /\ \A o \in Objs : WF_vars(GetStale(o)) /\ WF_vars(Tick(o))
    /\ WF_vars(GetOld)

-----------------------------------------------------------------------------
(* Properties *)

States == <<"Init", "Active", "Draining", "Dead">>

Rank(s) == CHOOSE i \in DOMAIN States : States[i] = s

Headers == [valid : BOOLEAN, owner : Procs \cup {None}, rc : 0 .. Cardinality(Procs),
            state : {"Init", "Active", "Draining", "Dead"}, stale : BOOLEAN]

Locals == [o : 0 .. MaxObjs, dead : BOOLEAN, rc : Nat, old : BOOLEAN,
           late : SUBSET Objs, attach : BOOLEAN, unmapped : BOOLEAN]

\* Types: a reference count below zero would wrap around in the code.
TypeOK ==
    /\ bound \in 0 .. nobj /\ nobj \in 0 .. MaxObjs
    /\ hdr \in [Objs -> Headers]
    /\ mlock \in [Objs -> Procs \cup {None}]
    /\ reg \in [on : BOOLEAN, old : BOOLEAN]
    /\ handle \in [Procs -> 0 .. MaxObjs] /\ own \in [Procs -> BOOLEAN]
    /\ loc \in [Procs -> Locals]
    /\ alive \subseteq Procs /\ slow \subseteq Objs

\* ref_count of a segment that is in use is the number of RW handles, those
\* of dead processes included, and of creates and attaches that have counted
\* and not returned.
RefCountExact ==
    \A o \in Objs :
        hdr[o].state # "Init" /\ (o = bound \/ \E p \in Procs : handle[p] = o) =>
            hdr[o].rc = Cardinality({p \in Procs \ Readers : handle[p] = o})
                        + Cardinality({p \in Procs : Counted(p) /\ loc[p].o = o})

\* The janitor leaves a segment alone while its owner's heartbeat ticks.
LiveOwnerKept == \A o \in Objs : Beating(o) /\ o \notin slow => hdr[o].state = "Active"

\* An owner that stalls is taken for dead and its segment drained for good,
\* but while it holds its handle no janitor stores Dead, and none that may
\* read its maps file gets as far as unlink.
OwnerKept ==
    \A p \in alive : own[p] /\ handle[p] # 0 =>
        /\ hdr[handle[p]].state # "Dead"
        /\ p \notin Opaque => \A q \in Procs : pc[q] = "unlink" => loc[q].o # handle[p]

\* Active, Draining, Dead: no step goes back, although janitors, owner and
\* attachers act on what they read several steps ago.
StateForward ==
    [][\A o \in Objs : Rank(hdr[o].state) <= Rank(hdr'[o].state)]_vars

\* No live process holds the name's object or is about to.
Unheld ==
    \A p \in alive :
        handle[p] = 0 /\ pc[p] \notin {"c_magic", "c_owner", "c_ref", "c_active", "c_handle"}

\* A registered segment that every process has left, or died holding, is
\* unlinked in the end: at once when its count is 0, and as a zombie when
\* a dead process still counts, unless scans find, for ever, a mapping of a
\* segment whose name begins with this one's.
Reclaimed ==
    <>[](\A p \in Procs : pc[p] # "g_kin") =>
        (reg.on /\ bound # 0 /\ Unheld ~> (bound = 0 \/ ~Unheld))

\* Re-validating the state after the increment keeps attach from returning
\* a handle to a dead, unlinked segment.
NoDeadHandle == \A p \in alive : handle[p] # 0 => hdr[handle[p]].state # "Dead"

\* Janitor and owner unlink the object they examined, not one that another
\* process has created under the name since.
UnlinkOwn ==
    [][\A p \in Procs : pc[p] = "unlink" /\ pc'[p] = "unregister" => bound \in {0, loc[p].o}]_vars
=============================================================================
