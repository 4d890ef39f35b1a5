------------------------------- MODULE Logging -------------------------------
(***************************************************************************)
(* The logging application (src/apps/logging): loggers that publish into a *)
(* ring each, or share one by name, and the log center that discovers,     *)
(* attaches, drains and detaches the rings.  It composes the other parts   *)
(* at a coarser grain (module Segment has every word of the header, module *)
(* MpscRing every word of the ring), with a step of its own where another  *)
(* process may come in or a death makes a difference: a segment can be     *)
(* attached by name before create stores its count, it is registered       *)
(* before its ring is initialised, the ring can be bound before its slots  *)
(* are set, a record is claimed before it is published and freed before    *)
(* the head moves, and a janitor decides before it unlinks.                *)
(***************************************************************************)
EXTENDS Integers, FiniteSets, Sequences

CONSTANTS
    Loggers,     \* processes that use class Logger
    Names,       \* ring names, numbered in the order of Registry::list
    NameChoice,  \* names each logger may ask for: its own, or a shared one
    Prefixes,    \* the ways in which names may begin with one another
    Opaque,      \* loggers whose /proc/<pid>/maps the others may not read
    Leavers,     \* loggers that end; the others log for ever, or die
    Cap,         \* record_max
    Batch,       \* drain_batch
    MaxObjs,     \* bound: segments created
    MaxCrash     \* bound: processes that die

ASSUME LoggingAssumption ==
    /\ IsFiniteSet(Loggers) /\ "ready" \notin Loggers /\ Opaque \cup Leavers \subseteq Loggers
    /\ Names \subseteq Nat /\ NameChoice \in [Loggers -> SUBSET Names]
    /\ Prefixes \subseteq [Names -> SUBSET Names]
    /\ Cap \in Nat \ {0, 1} /\ Batch \in Nat \ {0} /\ MaxObjs \in Nat /\ MaxCrash \in Nat

VARIABLES
    obj,     \* the segments created so far: header and ring
    bound,   \* segment a name is bound to in /dev/shm, 0 when none
    listed,  \* names in the registry
    lg,      \* the loggers: where they are, their segment, owner_
    doom,    \* what a janitor in another process is about to remove
    c,       \* where the center is in poll_once, and its locals
    rings,   \* LogCenter::rings_, in the order they were attached
    longer,  \* for each name, the longer names that begin with it
    deaths

vars == <<obj, bound, listed, lg, doom, c, rings, longer, deaths>>

Objs == DOMAIN obj

First(S) == CHOOSE x \in S : \A y \in S : x <= y

Attached == {rings[i] : i \in DOMAIN rings}

\* The elements of rs outside gone, in their order: std::remove_if and erase.
\* (SelectSeq, in a form that can be reasoned about.)
Kept(rs, gone) ==
    LET keep == {i \in DOMAIN rs : rs[i] \notin gone}
        Rank(i) == Cardinality({j \in keep : j <= i})
    IN  [k \in 1 .. Cardinality(keep) |-> rs[CHOOSE i \in keep : Rank(i) = k]]

\* late: the heartbeat is 3 s old; old: an hour since it was drained.
\* ring: all zero; its metadata written; ready for use; or broken, with words
\* that fit no state of the ring, so that what is in it is not followed.
\* q: the records in it, "ready" or still being written by a logger.
\* History: lost, references that create's store overwrote; leak, those of
\* centers that died and of creates that failed.
NewSegment(l, n) ==
    [name |-> n, owner |-> l, rc |-> 0, state |-> "Init", late |-> FALSE, old |-> FALSE,
     ring |-> "zero", q |-> <<>>, lost |-> 0, leak |-> 0]

NoLogger == [pc |-> "idle", o |-> 0, own |-> FALSE]

Gone == [NoLogger EXCEPT !.pc = "gone"]

NoDoom == [n |-> 0, o |-> 0, kind |-> "none"]

\* todo: names discover_once has still to attach; o: the segment it is
\* binding; at: the ring drain_once is at; gone: rings with
\* remove_after_drain; taken: records drained.
IdleCenter == [pc |-> "idle", todo |-> {}, o |-> 0, at |-> 0, gone |-> {}, taken |-> 0]

Init ==
    /\ obj = <<>> /\ bound = [n \in Names |-> 0] /\ listed = {}
    /\ lg = [l \in Loggers |-> NoLogger]
    /\ doom = NoDoom /\ c = IdleCenter /\ rings = <<>> /\ longer \in Prefixes /\ deaths = 0

\* The handles of ob with d references more on those of S.
Counted(ob, S, d) == [o \in Objs |-> [ob[o] EXCEPT !.rc = IF o \in S THEN @ + d ELSE @]]

Goto(l, pc) == lg' = [lg EXCEPT ![l].pc = pc]

\* shm_unlink(name), and unregister(name).
Remove(n) == bound' = [bound EXCEPT ![n] = 0] /\ listed' = listed \ {n}

segment_dead(header) == header.state = "Dead"

others == <<doom, c, rings, longer, deaths>>

-----------------------------------------------------------------------------
(* Logger::init *)

\* ShmManager::create up to the header's name: the segment can be attached by
\* name.
Create(l, n) ==
    /\ lg[l].pc = "idle" /\ n \in NameChoice[l] /\ bound[n] = 0 /\ Len(obj) < MaxObjs
    /\ obj' = Append(obj, NewSegment(l, n))
    /\ bound' = [bound EXCEPT ![n] = Len(obj) + 1]
    /\ lg' = [lg EXCEPT ![l] = [pc |-> "create", o |-> Len(obj) + 1, own |-> TRUE]]
    /\ UNCHANGED <<listed, others>>

\* The rest of its header, with plain stores over what may have been counted.
Written(o) ==
    [obj[o] EXCEPT !.rc = 1, !.state = "Active", !.lost = @ + obj[o].rc]

\* Then the heartbeat ticks, and register_segment; the ring is still all zero.
Register(l) ==
    LET o == lg[l].o IN
    /\ lg[l].pc = "create"
    /\ obj' = [obj EXCEPT ![o] = Written(o)]
    /\ listed' = listed \cup {obj[o].name}
    /\ Goto(l, "made")
    /\ UNCHANGED <<bound, others>>

\* It is refused: shm_unlink, and the handle goes out of scope.
RegisterFail(l) ==
    LET o == lg[l].o IN
    /\ lg[l].pc = "create"
    /\ obj' = [obj EXCEPT ![o] = Written(o)]
    /\ bound' = [bound EXCEPT ![obj[o].name] = 0]
    /\ Goto(l, "close")
    /\ UNCHANGED <<listed, others>>

\* The signature or the mutex fails: shm_unlink, and there is no handle.
CreateFail(l) ==
    LET o == lg[l].o IN
    /\ lg[l].pc = "create"
    /\ obj' = [obj EXCEPT ![o] = [Written(o) EXCEPT !.leak = @ + 1]]
    /\ bound' = [bound EXCEPT ![obj[o].name] = 0]
    /\ lg' = [lg EXCEPT ![l] = Gone]
    /\ UNCHANGED <<listed, others>>

\* MpscRing::initialize: the metadata, ...
InitMeta(l) ==
    /\ lg[l].pc = "made"
    /\ obj' = [obj EXCEPT ![lg[l].o].ring = "half"]
    /\ Goto(l, "init")
    /\ UNCHANGED <<bound, listed, others>>

\* ... then the cursors and the slots.
InitSlots(l) ==
    /\ lg[l].pc = "init"
    /\ obj' = [obj EXCEPT ![lg[l].o].ring = IF @ = "half" THEN "ok" ELSE @]
    /\ Goto(l, "run")
    /\ UNCHANGED <<bound, listed, others>>

\* It refuses the options: destroy by name, and the handle goes out of scope.
InitFail(l) ==
    /\ lg[l].pc = "made"
    /\ Remove(obj[lg[l].o].name)
    /\ Goto(l, "close")
    /\ UNCHANGED <<obj, others>>

\* create said AlreadyExists: attach, which refuses a dead segment, ...
AttachExisting(l, n) ==
    /\ lg[l].pc = "idle" /\ n \in NameChoice[l] /\ bound[n] # 0
    /\ ~segment_dead(obj[bound[n]])
    /\ obj' = [obj EXCEPT ![bound[n]].rc = @ + 1]
    /\ lg' = [lg EXCEPT ![l] = [pc |-> "join", o |-> bound[n], own |-> FALSE]]
    /\ UNCHANGED <<bound, listed, others>>

\* ... and bind_logger_ring; when there is no ring the handle is given back.
Bind(l) ==
    /\ lg[l].pc = "join"
    /\ Goto(l, IF obj[lg[l].o].ring = "zero" THEN "close" ELSE "run")
    /\ UNCHANGED <<obj, bound, listed, others>>

-----------------------------------------------------------------------------
(* Logger::publish and the destructor *)

\* try_push claims a slot; a full ring only counts the loss.  What is claimed
\* before the slots are set breaks the ring.
Claim(l) ==
    LET o == lg[l].o IN
    /\ lg[l].pc = "run" /\ obj[o].ring \in {"half", "ok"} /\ Len(obj[o].q) < Cap
    /\ obj' = [obj EXCEPT ![o].q = IF obj[o].ring = "ok" THEN Append(@, l) ELSE @,
                          ![o].ring = IF @ = "half" THEN "broken" ELSE @]
    /\ Goto(l, "push")
    /\ UNCHANGED <<bound, listed, others>>

\* The record is copied and its sequence word published.
Publish(l) ==
    LET o == lg[l].o IN
    /\ lg[l].pc = "push"
    /\ obj' = [obj EXCEPT ![o].q = [i \in DOMAIN @ |-> IF @[i] = l THEN "ready" ELSE @[i]]]
    /\ Goto(l, "run")
    /\ UNCHANGED <<bound, listed, others>>

\* ~Logger, ShmHandle::reset: the heartbeat stops, ...
Close(l) ==
    /\ lg[l].pc = "run" /\ l \in Leavers
    /\ Goto(l, "close")
    /\ UNCHANGED <<obj, bound, listed, others>>

\* ... the count goes down; the last one out, if it is the owner of a
\* draining segment, ...
Release(l) ==
    LET o == lg[l].o IN
    /\ lg[l].pc = "close"
    /\ obj' = [obj EXCEPT ![o].rc = @ - 1]
    /\ lg' = [lg EXCEPT ![l] = IF lg[l].own /\ obj[o].rc = 1 /\ obj[o].state = "Draining"
                               THEN [@ EXCEPT !.pc = "reap"] ELSE Gone]
    /\ UNCHANGED <<bound, listed, others>>

\* ... removes it.
Reap(l) ==
    LET o == lg[l].o IN
    /\ lg[l].pc = "reap"
    /\ obj' = [obj EXCEPT ![o].state = "Dead"]
    /\ Remove(obj[o].name)
    /\ lg' = [lg EXCEPT ![l] = Gone]
    /\ UNCHANGED others

\* A logger dies, wherever it is; a reference it has counted stays counted,
\* and a record it was writing is never published.  (create has counted none.)
Die(l) ==
    /\ lg[l].pc \notin {"idle", "gone", "dead"} /\ deaths < MaxCrash
    /\ deaths' = deaths + 1
    /\ lg' = [lg EXCEPT ![l].pc = "dead", ![l].o = IF lg[l].pc \in {"create", "reap"} THEN 0 ELSE @]
    /\ UNCHANGED <<obj, bound, listed, doom, c, rings, longer>>

LoggerStep(l) ==
    \/ Register(l) \/ RegisterFail(l) \/ CreateFail(l) \/ InitMeta(l) \/ InitSlots(l)
    \/ InitFail(l) \/ Bind(l) \/ Publish(l) \/ Release(l) \/ Reap(l)

-----------------------------------------------------------------------------
(* Registry::gc on one name *)

\* The owner's heartbeat thread ticks for o.
Beating(o) ==
    LET w == lg[obj[o].owner] IN w.o = o /\ w.own /\ w.pc \in {"made", "init", "run", "push"}

\* No owner_pid yet, no such process, or a stale heartbeat.
owner_is_dead(o) ==
    obj[o].state = "Init" \/ obj[o].late \/ lg[obj[o].owner].pc = "dead"

\* A segment of a name in S is mapped, by a process whose maps can be read.
MappedIn(S) ==
    \/ \E l \in Loggers \ Opaque : lg[l].pc # "dead" /\ lg[l].o # 0 /\ obj[lg[l].o].name \in S
    \/ \E o \in Attached \cup ({c.o} \ {0}) : obj[o].name \in S

\* any_process_maps_segment: it finds the name as the beginning of a longer one.
Mapped(n) == MappedIn({n} \cup longer[n])

\* Mutant: a segment that is drained is never given up.
VerdictNoZombie(n) ==
    LET o == obj[bound[n]] IN
    IF n \notin listed THEN "none"
    ELSE IF bound[n] = 0 THEN "drop"
    ELSE IF ~owner_is_dead(bound[n]) THEN "none"
    ELSE IF o.rc = 0 THEN "reap"
    ELSE IF o.state = "Active" THEN "drain"
    ELSE "none"

\* What a sweep makes of a name.
Verdict(n) ==
    LET o == obj[bound[n]]
        dead == owner_is_dead(bound[n])
    IN  IF n \notin listed THEN "none"
        ELSE IF bound[n] = 0 THEN "drop"
        ELSE IF dead /\ o.rc = 0 THEN "reap"
        ELSE IF dead /\ o.state = "Active" THEN "drain"
        ELSE IF o.state = "Draining" /\ o.old /\ ~Mapped(n) THEN "zombie"
        ELSE "none"

\* Header of a segment after it.
Judged(o, kind) ==
    CASE kind = "reap" -> [obj[o] EXCEPT !.state = "Dead"]
      [] kind = "drain" -> [obj[o] EXCEPT !.state = "Draining", !.old = FALSE]
      [] OTHER -> obj[o]

\* A janitor in another process decides to remove a name, ...
JanitorDecide(n) ==
    /\ doom = NoDoom /\ Verdict(n) \in {"drop", "reap", "zombie"}
    /\ doom' = [n |-> n, o |-> bound[n], kind |-> Verdict(n)]
    /\ UNCHANGED <<obj, bound, listed, lg, c, rings, longer, deaths>>

\* ... and does: shm_unlink, unless it found nothing, and unregister.
JanitorAct ==
    /\ doom # NoDoom
    /\ obj' = [o \in Objs |-> IF o = doom.o THEN Judged(o, doom.kind) ELSE obj[o]]
    /\ bound' = IF doom.kind = "drop" THEN bound ELSE [bound EXCEPT ![doom.n] = 0]
    /\ listed' = listed \ {doom.n}
    /\ doom' = NoDoom
    /\ UNCHANGED <<lg, c, rings, longer, deaths>>

\* Three seconds without a heartbeat.
GetLate(o) ==
    /\ bound[obj[o].name] = o /\ ~owner_is_dead(o) /\ ~Beating(o)
    /\ obj' = [obj EXCEPT ![o].late = TRUE]
    /\ UNCHANGED <<bound, listed, lg, others>>

\* One hour since last_seen.
GetOld(o) ==
    /\ bound[obj[o].name] = o /\ obj[o].name \in listed /\ obj[o].state = "Draining" /\ ~obj[o].old
    /\ obj' = [obj EXCEPT ![o].old = TRUE]
    /\ UNCHANGED <<bound, listed, lg, others>>

TimePasses == \E o \in Objs : GetLate(o) \/ GetOld(o)

\* The center's own sweep, of all names, in one step.
SweptBound == [n \in Names |-> IF Verdict(n) \in {"reap", "zombie"} THEN 0 ELSE bound[n]]

SweptListed == {n \in listed : Verdict(n) \notin {"drop", "reap", "zombie"}}

Swept ==
    [o \in Objs |-> IF bound[obj[o].name] = o THEN Judged(o, Verdict(obj[o].name)) ELSE obj[o]]

-----------------------------------------------------------------------------
(* LogCenter::poll_once: discover_once, drain_once *)

\* Mutant: a ring that is not empty is kept.
VisitWhileFull(ob, rs, i, gone) ==
    IF i <= Len(rs)
    THEN /\ c' = [IdleCenter EXCEPT !.pc = "drain", !.at = i,
                     !.gone = IF segment_dead(ob[rs[i]]) /\ ob[rs[i]].q = <<>>
                              THEN gone \cup {rs[i]} ELSE gone]
         /\ rings' = rs /\ obj' = ob
    ELSE /\ c' = IdleCenter
         /\ rings' = Kept(rs, gone)
         /\ obj' = Counted(ob, gone, -1)

\* drain_once comes to ring i of rs and loads its state in ob, or is done: the
\* rings marked are erased with their handles (the center owns none of them).
Visit(ob, rs, i, gone) ==
    IF i <= Len(rs)
    THEN /\ c' = [IdleCenter EXCEPT !.pc = "drain", !.at = i,
                     !.gone = IF segment_dead(ob[rs[i]]) THEN gone \cup {rs[i]} ELSE gone]
         /\ rings' = rs /\ obj' = ob
    ELSE /\ c' = IdleCenter
         /\ rings' = Kept(rs, gone)
         /\ obj' = Counted(ob, gone, -1)

\* discover_once goes on with the names left, or is done.
Discover(ob, rs, left) ==
    IF left = {} THEN Visit(ob, rs, 1, {})
    ELSE c' = [IdleCenter EXCEPT !.pc = "attach", !.todo = left] /\ rings' = rs /\ obj' = ob

\* gc and list; a name that is attached is passed over.
Poll ==
    /\ c.pc = "idle"
    /\ bound' = SweptBound /\ listed' = SweptListed
    /\ Discover(Swept, rings, {n \in SweptListed : \A o \in Attached : obj[o].name # n})
    /\ UNCHANGED <<lg, doom, longer, deaths>>

\* attach_ring for the next name: attach, which sweeps first.  When it fails
\* discover_once ends.
AttachRing ==
    LET o == SweptBound[First(c.todo)] IN
    /\ c.pc = "attach"
    /\ bound' = SweptBound /\ listed' = SweptListed
    /\ IF o # 0 /\ ~segment_dead(Swept[o])
       THEN /\ obj' = Counted(Swept, {o}, 1)
            /\ c' = [c EXCEPT !.pc = "bind", !.o = o] /\ UNCHANGED rings
       ELSE Visit(Swept, rings, 1, {})
    /\ UNCHANGED <<lg, doom, longer, deaths>>

\* Mutant: a handle that cannot be bound is not given back.
BindRingLeak ==
    /\ c.pc = "bind"
    /\ IF obj[c.o].ring # "zero"
       THEN Discover(obj, Append(rings, c.o), c.todo \ {First(c.todo)})
       ELSE Visit(obj, rings, 1, {})
    /\ UNCHANGED <<bound, listed, lg, doom, longer, deaths>>

\* MpscRing::bind.  When it fails the handle is given back and discover_once
\* ends.
BindRing ==
    /\ c.pc = "bind"
    /\ IF obj[c.o].ring # "zero"
       THEN Discover(obj, Append(rings, c.o), c.todo \ {First(c.todo)})
       ELSE Visit(Counted(obj, {c.o}, -1), rings, 1, {})
    /\ UNCHANGED <<bound, listed, lg, doom, longer, deaths>>

\* try_pop finds the record at the head published.
Poppable(o) == obj[o].ring = "ok" /\ obj[o].q # <<>> /\ Head(obj[o].q) = "ready"

\* Mutant: one record more than the batch.
PopOneMore ==
    LET o == rings[c.at] IN
    /\ c.pc = "drain" /\ c.taken <= Batch /\ Poppable(o)
    /\ obj' = [obj EXCEPT ![o].q = Tail(@)]
    /\ c' = [c EXCEPT !.pc = "pop"]
    /\ UNCHANGED <<bound, listed, lg, doom, rings, longer, deaths>>

\* drain_ring: one more record, at most drain_batch of them: its slot is
\* freed, ...
Pop ==
    LET o == rings[c.at] IN
    /\ c.pc = "drain" /\ c.taken < Batch /\ Poppable(o)
    /\ obj' = [obj EXCEPT ![o].q = Tail(@)]
    /\ c' = [c EXCEPT !.pc = "pop"]
    /\ UNCHANGED <<bound, listed, lg, doom, rings, longer, deaths>>

\* Mutant: the records are not counted.
PopHeadAll ==
    /\ c.pc = "pop"
    /\ c' = [c EXCEPT !.pc = "drain"]
    /\ UNCHANGED <<obj, bound, listed, lg, doom, rings, longer, deaths>>

\* ... the head moves on, and the record goes to the sink.
PopHead ==
    /\ c.pc = "pop"
    /\ c' = [c EXCEPT !.pc = "drain", !.taken = @ + 1]
    /\ UNCHANGED <<obj, bound, listed, lg, doom, rings, longer, deaths>>

\* The next ring's turn comes.
EndRing ==
    /\ c.pc = "drain" /\ ~(c.taken < Batch /\ Poppable(rings[c.at]))
    /\ Visit(obj, rings, c.at + 1, c.gone)
    /\ UNCHANGED <<bound, listed, lg, doom, longer, deaths>>

\* The center dies and is started again; its references stay counted, and a
\* ring whose head it was to move is broken.
CenterDie ==
    /\ deaths < MaxCrash
    /\ deaths' = deaths + 1
    /\ obj' = [o \in Objs |->
                  [obj[o] EXCEPT !.leak = IF o \in Attached \/ o = c.o THEN @ + 1 ELSE @,
                                 !.ring = IF c.pc = "pop" /\ o = rings[c.at] THEN "broken" ELSE @,
                                 !.q = IF c.pc = "pop" /\ o = rings[c.at] THEN <<>> ELSE @]]
    /\ c' = IdleCenter /\ rings' = <<>>
    /\ UNCHANGED <<bound, listed, lg, doom, longer>>

CenterStep == Poll \/ AttachRing \/ BindRing \/ Pop \/ PopHead \/ EndRing

Next ==
    \/ \E l \in Loggers : LoggerStep(l) \/ Claim(l) \/ Close(l) \/ Die(l)
    \/ \E l \in Loggers, n \in Names : Create(l, n) \/ AttachExisting(l, n)
    \/ JanitorAct \/ \E n \in Names : JanitorDecide(n)
    \/ TimePasses
    \/ CenterStep \/ CenterDie

\* Live processes go on with what they have begun and the center polls for
\* ever; time passes.  Nobody has to log, close, attach or sweep.
FairSpec ==
    /\ Init /\ [][Next]_vars
    /\ WF_vars(CenterStep)
    /\ \A l \in Loggers : WF_vars(LoggerStep(l))
    /\ WF_vars(JanitorAct)
    /\ WF_vars(TimePasses)

-----------------------------------------------------------------------------
(* Properties *)

Segments ==
    [name : Names, owner : Loggers, rc : Int, state : {"Init", "Active", "Draining", "Dead"},
     late : BOOLEAN, old : BOOLEAN, ring : {"zero", "half", "ok", "broken"},
     q : Seq(Loggers \cup {"ready"}), lost : Int, leak : Nat]

\* Types, the ring's capacity and the batch.
TypeOK ==
    /\ obj \in Seq(Segments) /\ \A o \in Objs : Len(obj[o].q) <= Cap
    /\ bound \in [Names -> 0 .. Len(obj)] /\ listed \subseteq Names
    /\ lg \in [Loggers -> [pc : {"idle", "create", "made", "init", "join", "run", "push", "close",
                                 "reap", "gone", "dead"},
                           o : 0 .. Len(obj), own : BOOLEAN]]
    /\ rings \in Seq(Objs) /\ c.gone \subseteq Attached
    /\ c.taken \in 0 .. Batch /\ deaths \in 0 .. MaxCrash

\* The references to o that were counted: of loggers, dead ones included, of
\* the center, and of those that left none to give them back.
References(o) ==
    Cardinality({l \in Loggers : lg[l].o = o /\ lg[l].pc \notin {"create", "reap"}})
    + (IF o \in Attached THEN 1 ELSE 0) + (IF o = c.o THEN 1 ELSE 0) + obj[o].leak

\* The count of every ring is exact through failed binds, detached rings and
\* restarts of the center, less what create's plain store of 1 overwrote when
\* a logger attached by name before it.
RefsBalanced == \A o \in Objs : obj[o].rc + obj[o].lost = References(o)

\* Another ring of the name is attached, unlinked and will never be Dead: a
\* janitor scanned the maps before, and unlinked after, the center attached.
Shadowed(o) == \E r \in Attached : r # o /\ obj[r].name = obj[o].name /\ obj[r].state # "Dead"

\* A segment without a ring is kept for good, as long as one with a longer
\* name is mapped, and discover_once stops there.
Blocked ==
    \E n \in listed : bound[n] # 0 /\ obj[bound[n]].ring = "zero" /\ MappedIn(longer[n])

Live(o) ==
    /\ o \in Objs /\ obj[o].ring # "zero" /\ bound[obj[o].name] = o /\ obj[o].name \in listed
    /\ Beating(o) /\ ~Shadowed(o) /\ ~Blocked

\* Every ring in use is attached in the end, although discover_once stops at
\* the first ring it cannot bind, the creator of that ring may have died
\* before initialising it, and the center may have to start again.
Discovered == \A o \in 1 .. MaxObjs : []<>(o \in Attached \/ ~Live(o))

\* The record at the head will never be published: its logger died.
Abandoned(o) == obj[o].q # <<>> /\ \E l \in Loggers : Head(obj[o].q) = l /\ lg[l].pc = "dead"

Full(o) == o \in Attached /\ obj[o].ring = "ok" /\ Len(obj[o].q) = Cap /\ ~Abandoned(o)

\* A full ring gets room again although another ring is refilled faster than
\* it can be drained.
Relieved == \A o \in 1 .. MaxObjs : []<>~Full(o)

\* A ring that is dead is detached, so that a new ring of its name can be
\* attached.
DeadDetached ==
    \A o \in 1 .. MaxObjs : []<>~(o \in Attached /\ segment_dead(obj[o]))

\* "Dead-owner rings are drained one last time, then detached."
DeadOwnerDetached ==
    \A o \in 1 .. MaxObjs : (o \in Attached /\ lg[obj[o].owner].pc = "dead") ~> o \notin Attached
=============================================================================
