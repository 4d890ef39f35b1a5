------------------------------ MODULE Admission -----------------------------
(***************************************************************************)
(* Who gets a segment, and what a process that gets one may rely on:       *)
(* names, quotas, sizes and signatures in ShmManager::create and attach    *)
(* (src/src/shm_manager.cpp, src/src/shm_security.cpp), and the ring that  *)
(* Logger::init and LogCenter set up in it.  Sizes are those of Layout,    *)
(* digests those of Integrity.  Reference counts, states and the words of  *)
(* the registry are the matter of the modules Segment and Registry.        *)
(***************************************************************************)
EXTENDS Layout, Integrity, FiniteSets, FiniteSetsExt

CONSTANTS
    Procs, Names,
    Janitors,     \* processes that run Registry::gc or ShmManager::destroy
    Namespace,    \* of each name; "" when it is not /shmfx.<ns>.<leaf>
    Allowed,      \* kAllowedNamespaces
    Wants,        \* options each process may create or log with
    Attaches,     \* names each process may attach
    Envs,         \* values of SHMFX_HMAC_KEY in the processes
    FileKey,      \* contents of /etc/shmfx/hmac.key
    MaxSeg, Quota, MaxNs, NSlots, \* MAX_SEGMENT_SIZE, TOTAL_QUOTA_BYTES, kMaxNamespaceSegments, MAX_REGISTRY_ENTRIES
    Faults,       \* damage: a name and new values of fields of its header or ring
    MaxFaults,    \* bound: number of times there is damage
    MaxJobs       \* bound: number of entries janitors take up and of calls of destroy

\* Options as the callers give them, with the widths of their fields.
Options == [name : Names, total_size : 0 .. U64 - 1, meta_size : 0 .. U64 - 1, hmac : BOOLEAN,
            record_max : 0 .. U32 - 1, max_payload : 0 .. U32 - 1]

\* Words of a header and of a ring's metadata.
HeaderWords == {"total_size", "meta_offset", "meta_size", "payload_offset", "payload_size"}
RingWords == {"record_max", "record_stride"}

ASSUME AdmissionAssumption ==
    /\ Namespace \in [Names -> STRING] /\ Attaches \in [Procs -> SUBSET Names]
    /\ IsFiniteSet(Procs) /\ "none" \notin Names /\ \A p \in Procs : Wants[p] \subseteq Options
    /\ {MaxSeg, Quota, MaxNs, NSlots, MaxFaults, MaxJobs} \subseteq Nat /\ MaxSeg < U32 /\ MaxSeg <= Quota /\ MaxNs > 0
    /\ \A w \in Faults :
          /\ w.name \in Names
          /\ DOMAIN w.to \subseteq {"magic", "name", "hmac_enabled", "hmac"} \cup HeaderWords \cup RingWords
          /\ \A k \in DOMAIN w.to \cap (HeaderWords \cup RingWords) : w.to[k] \in 0 .. U64 - 1
          \* Raw bytes: damage computes no digest.
          /\ "hmac" \in DOMAIN w.to => \A i \in DOMAIN w.to.hmac : Len(w.to.hmac[i]) = 1

VARIABLES
    file,    \* the object each name is bound to, NoFile when none; history: its
             \* creator, and its header as it was signed
    reg,     \* registry entries; back: put back by a janitor, without a test
    env,     \* SHMFX_HMAC_KEY of each process
    pc, opt, \* where each process is; the options it creates with
    handle,  \* the header its ShmHandle was given, and the ring bound to it
    job,     \* the entry each janitor has listed, and what it has decided
    jobs,    \* how many jobs janitors took up
    faults   \* how often there was damage

vars == <<file, reg, env, pc, opt, handle, job, jobs, faults>>

NoFile == [mapped |-> 0]
NoOpt == [name |-> "none"]
NoHandle == [name |-> "none"]
NoJob == [kind |-> "none", name |-> "none", total_size |-> 0, hmac |-> FALSE]

\* The options of ShmManager::create and of Logger::init.
RawOptions(n, total_size, meta_size, hmac) ==
    [name |-> n, total_size |-> total_size, meta_size |-> meta_size, hmac |-> hmac,
     record_max |-> 0, max_payload |-> 0]

RingOptions(n, record_max, max_payload, hmac) ==
    [name |-> n, total_size |-> ring_total_size(record_max, max_payload), meta_size |-> RingMeta,
     hmac |-> hmac, record_max |-> record_max, max_payload |-> max_payload]

Goto(p, l) == pc' = [pc EXCEPT ![p] = l]

\* shm_unlink, whatever the name is bound to by now.
Unlink(n) == file' = [file EXCEPT ![n] = NoFile]

Others(n) == {e \in reg : e.name # n}

\* The name of p's new object is still bound to it; if not, what p writes
\* into its mapping is seen by nobody else.
Mine(p) == file[opt[p].name] # NoFile /\ file[opt[p].name].by = p

\* An operation ends: p is idle and has no handle.
Leave(p) ==
    /\ Goto(p, "idle")
    /\ opt' = [opt EXCEPT ![p] = NoOpt] /\ handle' = [handle EXCEPT ![p] = NoHandle]

Init ==
    /\ file = [n \in Names |-> NoFile] /\ reg = {}
    /\ env \in Envs
    /\ pc = [p \in Procs |-> "idle"] /\ opt = [p \in Procs |-> NoOpt]
    /\ handle = [p \in Procs |-> NoHandle] /\ job = [j \in Janitors |-> NoJob]
    /\ jobs = 0 /\ faults = 0

-----------------------------------------------------------------------------
(* Names, quotas and keys *)

\* Names that are no bootstrap names: those pass before all of this.
parse_and_validate_name(n) ==
    IF Namespace[n] = "" THEN "InvalidName"
    ELSE IF Namespace[n] \notin Allowed THEN "PermissionDenied" ELSE "Ok"

Bytes(entries) == MapThenSumSet(LAMBDA e : e.total_size, entries)

InNamespace(entries, ns) == Cardinality({e \in entries : Namespace[e.name] = ns})

\* Mutant: a namespace that is full has room for one more.
validate_create_security_full(o, entries) ==
    /\ parse_and_validate_name(o.name) = "Ok"
    /\ o.total_size >= (SegHdr + o.meta_size) % U64 /\ o.total_size <= MaxSeg
    /\ o.total_size + Bytes(entries) <= Quota
    /\ InNamespace(entries, Namespace[o.name]) <= MaxNs

\* Mutant: the new segment itself is not added up.
validate_create_security_others(o, entries) ==
    /\ parse_and_validate_name(o.name) = "Ok"
    /\ o.total_size >= (SegHdr + o.meta_size) % U64 /\ o.total_size <= MaxSeg
    /\ Bytes(entries) <= Quota
    /\ InNamespace(entries, Namespace[o.name]) < MaxNs

validate_create_security(o, entries) ==
    /\ parse_and_validate_name(o.name) = "Ok"
    /\ o.total_size >= (SegHdr + o.meta_size) % U64 /\ o.total_size <= MaxSeg
    /\ o.total_size + Bytes(entries) <= Quota
    /\ InNamespace(entries, Namespace[o.name]) < MaxNs

key_of(p) == load_hmac_key(env[p], FileKey)

\* Mutant: the signature does not cover the sizes.
Immutable_short(h) ==
    <<h.magic, h.hmac_enabled, "creator">> \o [i \in 1 .. 8 |-> <<h.name, i>>]

\* The 128 bytes a signature covers: 64 of fields, 64 of name, in units of 8.
Immutable(h) ==
    <<h.magic, h.hmac_enabled, h.total_size, h.payload_size, h.meta_offset, h.meta_size,
      h.payload_offset, "creator">> \o [i \in 1 .. 8 |-> <<h.name, i>>]

-----------------------------------------------------------------------------
(* ShmManager::create, and Logger::init on top of it *)

\* The list of the registry is taken and the quotas are checked, ...
Admit(p, o) ==
    /\ pc[p] = "idle" /\ validate_create_security(o, reg)
    /\ payload_offset_for(o.meta_size) <= o.total_size
    /\ opt' = [opt EXCEPT ![p] = o]
    /\ Goto(p, "open")
    /\ UNCHANGED <<file, reg, env, handle, job, jobs, faults>>

\* ... then the name is taken, if it is free, and the object is all zero, ...
Open(p) ==
    LET n == opt[p].name IN
    /\ pc[p] = "open"
    /\ IF file[n] = NoFile
       THEN /\ file' = [file EXCEPT ![n] = [mapped |-> opt[p].total_size, ring |-> NoRing, hmac |-> NoHmac,
                                            h |-> ZeroHeader, by |-> p, was |-> ZeroHeader]]
            /\ Goto(p, "write") /\ UNCHANGED <<opt, handle>>
       ELSE /\ IF opt[p].record_max = 0 THEN Leave(p) ELSE Goto(p, "join") /\ UNCHANGED <<opt, handle>>
            /\ UNCHANGED file
    /\ UNCHANGED <<reg, env, job, jobs, faults>>

\* The header create writes.
MyHeader(p) == HeaderOf(opt[p].name, opt[p].total_size, opt[p].meta_size, opt[p].hmac)

\* ... the header is written, ...
Write(p) ==
    /\ pc[p] = "write"
    /\ file' = IF Mine(p) THEN [file EXCEPT ![opt[p].name].h = MyHeader(p)] ELSE file
    /\ Goto(p, "sign")
    /\ UNCHANGED <<reg, env, opt, handle, job, jobs, faults>>

signature_of(p) ==
    IF opt[p].hmac THEN hmac_sha256(KeyBytes(key_of(p)), Immutable(MyHeader(p))) ELSE NoHmac

\* ... and signed; without a key it is unlinked again.
sign_header_if_enabled(p) ==
    LET n == opt[p].name IN
    /\ pc[p] = "sign"
    /\ IF opt[p].hmac /\ key_of(p) = NoKey
       THEN Unlink(n) /\ Leave(p)
       ELSE /\ file' = IF Mine(p) THEN [file EXCEPT ![n].hmac = signature_of(p), ![n].was = MyHeader(p)] ELSE file
            /\ Goto(p, "register") /\ UNCHANGED <<opt, handle>>
    /\ UNCHANGED <<reg, env, job, jobs, faults>>

\* Permissions, size, mapping or mutex cannot be set: the name is given back.
CreateFails(p) ==
    /\ pc[p] \in {"write", "register"}
    /\ Unlink(opt[p].name)
    /\ Leave(p)
    /\ UNCHANGED <<reg, env, job, jobs, faults>>

\* Mutant: off by one.
HasRoomOneMore(entries) == Cardinality(entries) <= NSlots

HasRoom(entries) == Cardinality(entries) < NSlots

\* Registry::register_segment; a full table refuses, and the name is unlinked.
Register(p) ==
    LET o == opt[p] IN
    /\ pc[p] = "register"
    /\ IF HasRoom(Others(o.name))
       THEN /\ reg' = Others(o.name)
                        \cup {[name |-> o.name, total_size |-> o.total_size, hmac |-> o.hmac, back |-> FALSE]}
            /\ handle' = [handle EXCEPT ![p] = [name |-> o.name, h |-> MyHeader(p),
                                                mapped |-> o.total_size, ring |-> NoRing]]
            /\ Goto(p, IF o.record_max = 0 THEN "held" ELSE "ring") /\ UNCHANGED <<file, opt>>
       ELSE Unlink(o.name) /\ Leave(p) /\ UNCHANGED reg
    /\ UNCHANGED <<env, job, jobs, faults>>

\* MpscRing::initialize in the new segment, or the unlink of destroy.  A ring
\* is its metadata, which binds from here on; the sequence words that follow
\* are in no state of this module (module Logging has them).
InitRing(p) ==
    LET o == opt[p] ring == RingFor(o.record_max, o.max_payload) IN
    /\ pc[p] = "ring"
    /\ IF initializes(o.record_max, o.max_payload, handle[p].h)
       THEN /\ file' = IF Mine(p) THEN [file EXCEPT ![o.name].ring = ring] ELSE file
            /\ handle' = [handle EXCEPT ![p].ring = ring]
            /\ Goto(p, "held")
       ELSE /\ Unlink(o.name)
            /\ handle' = [handle EXCEPT ![p] = NoHandle]
            /\ Goto(p, "unreg")
    /\ UNCHANGED <<reg, env, opt, job, jobs, faults>>

\* ShmHandle::reset of an owner that finds its segment draining and itself
\* the last one; when that is so is the matter of module Segment.
ResetLast(p) ==
    /\ pc[p] = "held" /\ opt[p] # NoOpt
    /\ Unlink(opt[p].name)
    /\ handle' = [handle EXCEPT ![p] = NoHandle]
    /\ Goto(p, "unreg")
    /\ UNCHANGED <<reg, env, opt, job, jobs, faults>>

\* The other half of destroy and of that reset: the entry goes.
Unregister(p) ==
    /\ pc[p] = "unreg"
    /\ reg' = Others(opt[p].name)
    /\ Leave(p)
    /\ UNCHANGED <<file, env, job, jobs, faults>>

-----------------------------------------------------------------------------
(* ShmManager::attach, and bind_logger_ring or attach_ring on top of it *)

Valid(n) == file[n] # NoFile /\ janitor_header_valid(file[n].h, file[n].mapped)

\* The gc of attach itself drops what is gone or does not look valid; what
\* else it does it may have done just before, as a janitor.
Swept == {e \in reg : Valid(e.name)}

registry_expects_hmac(n) == \E e \in Swept : e.name = n /\ e.hmac

verify_header_hmac(p, f) ==
    \/ ~f.h.hmac_enabled /\ f.hmac = NoHmac
    \/ /\ key_of(p) # NoKey
       /\ f.hmac = hmac_sha256(KeyBytes(key_of(p)), Immutable(f.h))

\* All tests of attach.
Accepts(p, n) ==
    /\ parse_and_validate_name(n) = "Ok" /\ file[n] # NoFile
    /\ file[n].mapped >= SegHdr
    /\ validate_header(file[n].h, file[n].mapped)
    /\ file[n].h.name = n
    /\ registry_expects_hmac(n) => file[n].h.hmac_enabled
    /\ verify_header_hmac(p, file[n])

\* By a process that has the name, or by Logger::init when the name is taken.
\* A logger or a LogCenter binds the ring, or gives the handle back.
attach(p, n, bind) ==
    LET f == file[n] IN
    /\ \/ pc[p] = "idle" /\ n \in Attaches[p]
       \/ pc[p] = "join" /\ n = opt[p].name /\ bind
    /\ reg' = Swept
    /\ opt' = [opt EXCEPT ![p] = NoOpt]
    /\ IF Accepts(p, n) /\ (bind => binds(f.ring, f.h))
       THEN /\ handle' = [handle EXCEPT ![p] = [name |-> n, h |-> f.h, mapped |-> f.mapped,
                                                ring |-> IF bind THEN f.ring ELSE NoRing]]
            /\ Goto(p, "held")
       ELSE Goto(p, "idle") /\ UNCHANGED handle
    /\ UNCHANGED <<file, env, job, jobs, faults>>

\* The handle goes; reference counts are the matter of module Segment.
Release(p) ==
    /\ pc[p] = "held"
    /\ Leave(p)
    /\ UNCHANGED <<file, reg, env, job, jobs, faults>>

-----------------------------------------------------------------------------
(* Registry::gc on one entry of the list it took, and ShmManager::destroy.   *)
(* Time passes between the list, the decision and the change of the table.   *)

List(j, e) ==
    /\ job[j] = NoJob /\ jobs < MaxJobs
    /\ job' = [job EXCEPT ![j] = [kind |-> "look", name |-> e.name, total_size |-> e.total_size, hmac |-> e.hmac]]
    /\ jobs' = jobs + 1
    /\ UNCHANGED <<file, reg, env, pc, opt, handle, faults>>

Dropping(n) == [kind |-> "drop", name |-> n, total_size |-> 0, hmac |-> FALSE]

\* The object is gone or does not look valid.
Invalid(j) ==
    LET n == job[j].name IN
    /\ job[j].kind = "look" /\ ~Valid(n)
    /\ job' = [job EXCEPT ![j] = Dropping(n)]
    /\ UNCHANGED <<file, reg, env, pc, opt, handle, jobs, faults>>

\* Its owner has stopped and it is held: Draining, and last_seen is renewed.
Drain(j) ==
    /\ job[j].kind = "look" /\ Valid(job[j].name)
    /\ job' = [job EXCEPT ![j].kind = "touch"]
    /\ UNCHANGED <<file, reg, env, pc, opt, handle, jobs, faults>>

\* Its owner has stopped and nobody holds it, or it is a zombie.  When each
\* of these is so is the matter of module Segment; here it may be at any time.
Reclaim(j) ==
    LET n == job[j].name IN
    /\ job[j].kind = "look" /\ Valid(n)
    /\ Unlink(n)
    /\ job' = [job EXCEPT ![j] = Dropping(n)]
    /\ UNCHANGED <<reg, env, pc, opt, handle, jobs, faults>>

\* None of this, or the object cannot be opened or mapped.
Skip(j) ==
    /\ job[j].kind = "look"
    /\ job' = [job EXCEPT ![j] = NoJob]
    /\ UNCHANGED <<file, reg, env, pc, opt, handle, jobs, faults>>

\* By any process that knows the name.
destroy(j, n) ==
    /\ job[j] = NoJob /\ jobs < MaxJobs /\ parse_and_validate_name(n) = "Ok" /\ file[n] # NoFile
    /\ Unlink(n)
    /\ job' = [job EXCEPT ![j] = Dropping(n)]
    /\ jobs' = jobs + 1
    /\ UNCHANGED <<reg, env, pc, opt, handle, faults>>

Drop(j) ==
    /\ job[j].kind = "drop"
    /\ reg' = Others(job[j].name)
    /\ job' = [job EXCEPT ![j] = NoJob]
    /\ UNCHANGED <<file, env, pc, opt, handle, jobs, faults>>

\* The listed entry is registered, in place of the one of that name or, if it
\* is no longer there, anew: there is no test of quotas.
update_registry_last_seen(j) ==
    LET n == job[j].name
        e(b) == [name |-> n, total_size |-> job[j].total_size, hmac |-> job[j].hmac, back |-> b]
    IN
    /\ job[j].kind = "touch"
    /\ reg' = IF e(FALSE) \in reg \/ ~HasRoom(Others(n)) THEN reg ELSE Others(n) \cup {e(TRUE)}
    /\ job' = [job EXCEPT ![j] = NoJob]
    /\ UNCHANGED <<file, env, pc, opt, handle, jobs, faults>>

-----------------------------------------------------------------------------
(* Damage, specification *)

Changed(r, to) == [k \in DOMAIN r |-> IF k \in DOMAIN to THEN to[k] ELSE r[k]]

\* Words of a header, of its signature or of a ring's metadata change, after
\* the object was created.
Damage(w) ==
    LET f == file[w.name] IN
    /\ faults < MaxFaults /\ \E e \in reg : e.name = w.name
    /\ f # NoFile /\ \A p \in Procs : pc[p] \in {"write", "sign", "register"} => opt[p].name # w.name
    /\ file' = [file EXCEPT ![w.name] =
                  [Changed(f, w.to) EXCEPT !.h = Changed(@, w.to), !.ring = Changed(@, w.to)]]
    /\ file' # file
    /\ faults' = faults + 1
    /\ UNCHANGED <<reg, env, pc, opt, handle, job, jobs>>

Create(p) ==
    \/ \E o \in Wants[p] : Admit(p, o)
    \/ Open(p) \/ Write(p) \/ sign_header_if_enabled(p) \/ CreateFails(p) \/ Register(p) \/ InitRing(p)

Leaves(p) == Release(p) \/ ResetLast(p) \/ Unregister(p)

Janitor(j) ==
    \/ \E e \in reg : List(j, e)
    \/ \E n \in Names : destroy(j, n)
    \/ Invalid(j) \/ Drain(j) \/ Reclaim(j) \/ Skip(j) \/ Drop(j) \/ update_registry_last_seen(j)

Next ==
    \/ \E p \in Procs : Create(p) \/ Leaves(p)
    \/ \E p \in Procs, n \in Names, bind \in BOOLEAN : attach(p, n, bind)
    \/ \E j \in Janitors : Janitor(j)
    \/ \E w \in Faults : Damage(w)

Spec == Init /\ [][Next]_vars

-----------------------------------------------------------------------------
(* Properties *)

\* Types; a table never holds more entries than slots.
TypeOK ==
    /\ pc \in [Procs -> {"idle", "open", "write", "sign", "register", "ring", "join", "held", "unreg"}]
    /\ \A p \in Procs : opt[p] = NoOpt \/ opt[p] \in Wants[p]
    /\ \A n \in Names : file[n] = NoFile \/ file[n].mapped \in 0 .. MaxSeg
    /\ \A j \in Janitors : job[j].kind \in {"none", "look", "touch", "drop"}
    /\ Cardinality(reg) <= NSlots /\ jobs \in 0 .. MaxJobs /\ faults \in 0 .. MaxFaults

Held == {p \in Procs : handle[p] # NoHandle}

\* The sums of create and of validate_header stay inside 64 bits.
NoWrap(p) ==
    /\ opt[p] # NoOpt => SegHdr + opt[p].meta_size < U64
    /\ handle[p].h.payload_offset + handle[p].h.payload_size < U64

\* And so does the size of a ring that this process has not set up itself.
RingNoWrap(p) ==
    LET ring == handle[p].ring
    IN  opt[p] = NoOpt => slot_meta_offset + SlotWord * ring.record_max + RecAlign
                            + ring.record_max * ring.record_stride <= U64

\* Metadata and payload of every handle lie inside the mapping, behind the
\* header and apart: for whatever sizes create accepts, and for whatever a
\* damaged header says that attach accepts, as long as no sum of these sizes
\* leaves 64 bits (NoWrap): where one does, the tests of the code may pass.
HeaderFits ==
    \A p \in Held : NoWrap(p) =>
        LET h == handle[p].h IN
        /\ h.meta_offset >= SegHdr
        /\ h.meta_offset + h.meta_size <= h.payload_offset
        /\ h.payload_offset + h.payload_size <= handle[p].mapped

\* The sequence words and records of a ring that initialize or bind returned
\* lie inside the payload, behind the cursors and apart from each other, and
\* a record of max_payload bytes fits, again as long as nothing wraps: the
\* sums of bind and of validate_header in 64 bits, the stride in 32.
RingFits ==
    \A p \in Held : handle[p].ring # NoRing /\ NoWrap(p) /\ RingNoWrap(p) =>
        LET ring == handle[p].ring
            last == ring.record_max - 1
        IN  /\ slot_header(0) >= 2 * Cursor
            /\ slot_header(last) + SlotWord <= record_bytes(ring, 0)
            /\ record_bytes(ring, last) + ring.record_stride <= handle[p].h.payload_size
            /\ opt[p] # NoOpt /\ RecHdr + opt[p].max_payload + Line <= U32 =>
                  slot_capacity(ring) >= opt[p].max_payload

Creators == {p \in Procs : Wants[p] # {}}

\* The entries that came into the table with a create and its tests.
Fresh == {e \in reg : ~e.back}

\* Creates that overlap may all pass the quota on the same list; what creates
\* have listed goes over it by no more than the largest segment for each
\* creating process but one, whatever is removed or put back meanwhile.  What
\* a janitor puts back, of a segment removed since it listed it, comes on top.
QuotaBounded == Bytes(Fresh) <= Quota + (Cardinality(Creators) - 1) * MaxSeg

\* The quota of a namespace is passed in the same way: by one segment for each
\* creating process but one, at most, and by what is put back.
NamespaceBounded ==
    \A ns \in Allowed : InNamespace(Fresh, ns) <= MaxNs + Cardinality(Creators) - 1

\* A segment that is registered as signed is attached only with the header
\* that was signed, through any damage to the header and the signature, not
\* while it is being created, and not when an unsigned one has its name by now.
DamageCaught ==
    [][\A p \in Procs, e \in reg' :
          /\ pc[p] \in {"idle", "join"} /\ handle[p] = NoHandle
          /\ e.hmac /\ handle'[p].name = e.name
          => handle'[p].h = file[e.name].was]_vars

\* What create signs with is HMAC-SHA256 as the standards define it, and
\* sha256 is right for messages that end anywhere in a block, those included
\* whose padding spills into another block.
DigestStandard ==
    \A p \in Procs : pc[p] = "register" /\ opt[p].hmac /\ Mine(p) =>
        LET f == file[opt[p].name]
            m == Immutable(f.h)
        IN  /\ f.hmac = Hmac(KeyBytes(key_of(p)), m)
            /\ \A n \in 0 .. Len(m) : sha256(SubSeq(m, 1, n)) = Sha(SubSeq(m, 1, n))
=============================================================================
