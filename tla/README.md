# shmfx in TLA+

Models, model checks and proofs for [shmfx](../src/README.md), a C++ library of
POSIX shared-memory segments with a registry, crash recovery and a lock-free
multi-producer ring, and a logging application on top of it.

## The system

| Part | State it keeps | Operations | Shared with |
|---|---|---|---|
| Record ring (`shm_ring`, `shm_sync`) | head and tail cursors, a sequence word and the bytes of each slot, `lost_count` | `initialize`, `bind`, `try_push`, `try_pop`, `drain_batch` | producers of any process, one consumer; no lock |
| Registry (`shm_registry`) | bitmap, count and 128-byte slots in `/shmfx.registry` | `register_segment`, `unregister`, `list`, repair after a crash | all processes; robust mutex for writers, a sequence lock per slot for readers |
| Segments (`shm_manager`) | header of each object: magic, name, owner, `ref_count`, `state`; the name in `/dev/shm` | `create`, `attach`, `ShmHandle::reset`, `destroy` | all processes; atomics, no lock |
| Janitor (`Registry::gc`, `shm_lifecycle`) | none | sweep before every attach: reap, drain, force-unlink zombies | headers, registry, names, `/proc` |
| Heartbeat worker (`shm_lifecycle`) | list of owned headers, one thread, a stop flag | register, unregister, tick | threads of one process; a mutex |
| Security (`shm_security`) | none | name rules, quotas, HMAC over the immutable header | called by create and attach |
| Logging (`apps/logging`) | a ring per service; the rings attached | `Logger::init`, `publish`; `LogCenter::discover_once`, `drain_once` | ring, registry, segments |

`create` writes a header, starts the heartbeat and registers the name; `attach`
runs a sweep of the janitor and then counts itself in the header; a handle's
`reset` takes the count back and, for the owner of a draining segment, removes
the segment. A logger pushes records into the ring in its segment; the log
center finds segments through the registry and pops.

What is hard in it: producers, consumer, readers, writers, owners, attachers
and janitors interleave at every shared word, most of them without a lock;
any process may die between any two instructions while its data stays; names
outlive and predate objects; decisions are made on counts, states and times
read some steps before. `PROJECT.json` lists these hazards by line.

What makes each part correct: the ring delivers each record once, whole, in
claim order, overwrites nothing, counts what it refuses, and never blocks a
producer; the registry's table is consistent whenever its mutex is free and
readers see whole entries; a reference count is the number of holders, a
segment in use is not removed and one that is not in use is; every open handle
keeps ticking; what create and attach accept lies inside the mapping and is
what was signed; every ring in use is found, drained in turn and let go.

## Modules

| Module | Models | Checked by |
|---|---|---|
| `MpscRing` | `try_push`, `try_pop` of `shm_ring.cpp` | `ring*` runs, `MpscRingProofs` |
| `RecordChannel` | what the ring promises: a bounded queue with reserve, commit, deliver, drop | as `ImplementsChannel` of `MpscRing` |
| `Directory` | what the registry promises to its writers: a bounded directory whose operations take effect at once | as `ImplementsDirectory` of `Registry` |
| `Registry` | table, mutex, repair and lock-free readers of `shm_registry.cpp` | `registry*` runs, `RegistryProofs` |
| `Segment` | `create`, `attach`, `reset`, `destroy` and `gc` for one name | `segment*` runs, `SegmentProofs` |
| `Heartbeat` | heartbeat worker of one process | `heartbeat_*` runs, `HeartbeatProofs` |
| `Logging` | `Logger` and `LogCenter` over segments, registry and rings | `logging_*` runs, `LoggingProofs` |
| `Layout` | offsets and sizes, header and ring validation, 32- and 64-bit words | as part of `Admission` |
| `Integrity` | SHA-256 buffering and padding, HMAC, keys | as part of `Admission`, `IntegrityProofs` |
| `Admission` | names, quotas, sizes, signatures in `create`, `attach` and `Logger::init` | `admission_check`, `AdmissionProofs`, `QuotaProofs` |
| `...Proofs` | proofs about the module they are named after; `QuotaProofs` goes on from `AdmissionProofs` | TLAPS |
| `MC...` | TLC instances: names, options, keys, damage | |

`Logging` composes the parts at a coarser grain: where `Segment` has one step
per word of a header, `MpscRing` one per word of a slot and `Registry` one per
word of an entry, it has steps only where another process may come in or a
death makes a difference: between the header's name and its count, its
registration and its ring, the metadata of the ring and its slots, the claim of
a record and its publication, the freeing of a slot and the new head, a
janitor's decision and its unlink. `Admission` composes `Layout` and `Integrity`
with the steps of create, attach, reset, destroy and gc that change names and
entries, and leaves counts and states to `Segment`: a janitor may drain or
reclaim there whenever the object looks valid.

Each module keeps mutants, operators marked `Mutant:`, next to the definition
they distort; every property of a passing run is violated when its mutant
(`PROJECT.json`) takes the definition's place.

### MpscRing

A step is one access to a shared word: `pc[p]` says where a producer stands in
`try_push`, `cpc` where the consumer stands in `try_pop`; `pos`, `retry`,
`cpos`, `cout` are their locals. Positions are unbounded (2^64 pushes are out of
reach). `hdr` and `body` are separate so that a torn record can be told from a
whole one; payload bytes are named by the record they belong to; sizes are
kept, for truncation and the consumer's buffer. `claims` and `popped` are
history. `CasFail` is always possible, as a weak compare-exchange may fail
spuriously. `Crash` stops a producer anywhere; `ConsumerCrash` replaces the
consumer by one that starts from shared memory. Interleaving stands for
acquire/release: the only plain accesses are to slot bytes, and
`SlotExclusive` says that they never overlap.

### Registry

A slot is its sequence word, its name and the rest. `publish_slot` assigns the
whole struct, the sequence word of the *source* included, so that the model
writes three words in turn (`WriteHead`, `WriteRest`, `WriteMark`) between the
odd and the even store; the mixture a reader may see is the point of run
`registry_snapshot`. `Crash` leaves the mutex to the next locker, which runs
`Recover` slot by slot and may die there too (a death between operations leaves
no trace in the table and is not a step). `dir` is the history of what was
last registered per name, `hurt` the names whose entry was being written at a
crash. Seen as a `Directory`, the entry of a name is what a holder of the mutex
would read in the table (`Lookup`), but while it is being written, when it still
counts as what it was, and after harm, when nothing is said of it (`lost`).
`Directory` makes no promise to `list`: its snapshots may be torn
(`registry_snapshot`).

### Segment

One name, up to `MaxObjs` objects bound to it in turn. `hdr[o]` is an object's
header, `bound` the object `/dev/shm` binds the name to, `reg` the registry
entry; the registry's operations are atomic (they run under its mutex). Every
load and store of a header in `create`, `attach`, `reset` and `gc` is a step.
`valid` stands for magic, version, sizes and name. Time is what it does to the
tests: `GetStale` (no heartbeat for 3 s), `Stall` and `Tick` (the same of an
owner that is alive and stopped, and its next tick; `slow` remembers it),
`GetOld` (`last_seen` an hour ago). `gc` takes `now` once, at the start
(`late`). `EarlyAttach` lets a process attach by a name it knows before the
name is registered, as `Logger::init` does after `AlreadyExists`. `Readers`
attach ReadOnly: they map and are not counted. Constants say which processes
create, attach, sweep and may die; a process has at most one handle.

`any_process_maps_segment` looks for the name anywhere in the lines of the maps
files it can open. So it misses the processes in `Opaque`, whose file the others
may not read (another user, no `ptrace` right), and it finds a segment whose
name only begins with this one: default logger names are `<service>_<pid>`, and
`svc_12` is found in `svc_123`. Since other names are outside the module, a scan
may find such a line at any time (`GcMapsKin`, `GcKin`).

### Heartbeat

Critical sections of `g_heartbeat_mutex` are steps. A thread stands for the
header of its handle. Worker ids are reused after the join; one more than the
threads is enough, since each thread joins at most one and one more can run.

### Logging

`obj` is the sequence of segments ever created, each with what matters of its
header, entry and ring; `bound` binds names to them. A logger creates a segment
in two steps: from `Create` on it can be attached by name, and `Register` (or
one of the failures `CreateFail`, `RegisterFail`) stores owner, count and state
over whatever was counted in between; `lost` is the history of that. (A create
that fails before its header is there leaves no trace.) The ring is
all zero until `InitMeta`, which makes it bindable, and has its slots after
`InitSlots`; a record claimed in between breaks it, and the contents of a broken
ring are not followed. A logger that finds the name taken attaches
(`AttachExisting`), then binds or gives its reference back (`Bind`). It claims and
publishes each record, closes in the steps of `reset`, and may die at every
step; a record whose logger dies before `Publish` stays in the ring.

`c` and `rings` are the log center: `Poll` sweeps and lists, `AttachRing` attaches
one ring (and sweeps first) and `BindRing` binds it, and where one fails the
discovery ends; `Pop`, `PopHead` and `EndRing` drain at most `Batch` records of
each ring, `Visit` marks rings that are `Dead` and erases them at the end of the
pass. A center that dies is started again and knows nothing; `leak` counts the
references it leaves, and a ring whose head it was about to move is broken.

A janitor of another process decides (`JanitorDecide`) and acts (`JanitorAct`) in
two steps, which leaves room for an attach; the center's own sweeps are one
step, and only these drain (`Segment` has several janitors that do, and
`Admission` their late touches). `longer` says which names begin with which, for
the scan of the maps (`Mapped`); the center's own maps file is readable.

### Layout, Integrity, Admission

Sizes are in units of 8 bytes and keep the code's proportions: header 32,
cache line 8, ring metadata 8, record header 2. `U32` and `U64` are the sizes of the
words; casts and sums are taken modulo them where the code's are. Messages to
hash are in units of 8 bytes as well: a block has 8, the length 1, a digest 4,
the immutable header 16. The compression function is a free constructor: the
chain of blocks compressed so far *is* the hash. So `DigestStandard` compares
which blocks are compressed in which order with the definitions of FIPS 180-4
and RFC 2104, and a signature matches only the bytes that were signed.

`create` is the list and the tests of options (`Admit`), `shm_open`, the header,
the signature, the registration and the ring, a step each, with the error paths
that unlink again; the order of the plain stores of the header is in `Segment`.
`attach` sweeps and makes all its tests in one step; a ring is bound in the
same step. A segment ends with the reset of its owner (`ResetLast`, then
`Unregister`), with a failed `initialize`, or through a janitor, in the steps of
`gc` on one entry: it is listed (`List`), found invalid, reclaimed or drained
(`Invalid`, `Reclaim`, `Drain`), then unregistered (`Drop`) or touched
(`update_registry_last_seen`). `destroy` is a janitor's unlink without a look. Names
and entries go by name, so that every one of these steps may hit what was
created since; `by` and `was` in a file record are the history of who created it
and what was signed, and `back` marks entries that a touch put (back) into the
table. `Damage` changes words of a registered segment's header, signature or
ring metadata, one or several at a time, when no create of that name is between
its header and its registration. The sequence words of a ring, and with them a
ring that is half initialised, are in `Logging`; creators do not die inside
`create` here, which leaves a bound name that is not registered (`Segment` and
`Logging` have it).

## Runs

| Run | Expect | Shows |
|---|---|---|
| `ring` | pass | capacity, exclusion, order, untorn records, accounting, honest refusals; the ring implements `RecordChannel`; a running `try_push` returns whatever the others do; with a polling consumer claimed records are delivered, but for two named crash points |
| `ring_one_slot` | violation | `record_max = 1` is accepted and overwrites unread records |
| `registry` | pass | the repaired table is consistent, other entries are intact, every operation returns; the registry implements `Directory`: every operation takes effect once, only a full table refuses; two processes, more names than slots, two deaths |
| `registry_snapshot` | violation | `list` returns a torn entry |
| `segment` | pass | exact reference counts, live owners kept, stalled owners drained and not removed, states only go forward, what is left is unlinked in the end unless scans keep finding a longer name; an owner, a user with an unreadable maps file, a reader that sweeps, one death |
| `segment_attach_race` | violation | `attach` returns a handle to a segment that is then dead |
| `segment_name_reuse` | violation | a sweep unlinks an object created under the name since |
| `heartbeat_check` | pass | no unmapped header ticked, no worker lost, all handles ticked, all workers end |
| `heartbeat_shared` | violation | two workers at once; a reset waits while any handle is open |
| `logging_check` | pass | references balance but for what create's store overwrites, rings in use are discovered, full rings are relieved, dead rings detached; two loggers, a center, a janitor, one death at any step |
| `logging_detach` | violation | the ring of a dead owner is never detached |
| `admission_check` | pass | regions lie inside the mapping and apart, what creates list exceeds the quotas only by overlapping creates, signatures are the standard's, damage to signed headers is refused |

Restrictions of the passing segment runs, each because the code does not do
better. One object per name: see `segment_name_reuse`. `EarlyAttach = FALSE`:
`create` stores `ref_count = 1` after the header is valid, so that an attach by
name in between is overwritten, and `RefCountExact` fails with TRUE.
`Reclaimed` speaks of registered segments: an object whose creator died before
`register_segment` is invisible to the janitor and stays. It also supposes that
from some time on no scan finds a longer name: as long as `svc_123` is mapped the
zombie `svc_12` is kept. `OwnerKept` leaves out the unlink (not the store of
`Dead`) for a stalled owner whose maps file the janitor may not read.

In `logging_check`, `RefsBalanced` has the references that were lost to create's
plain store: the count is too small by these, so that an early joiner's release
leaves 0 under a live owner. `Discovered` leaves out two cases. A ring whose name
is hidden by an attached ring that was unlinked as a zombie (`Shadowed`): the
center passes the name over, and nothing makes the old ring `Dead`. And rings
that wait behind a dead segment without a ring, while a longer name is mapped
(`Blocked`): that segment is never given up, and the discovery always ends
there. `Relieved` leaves out rings whose first record was claimed by a logger
that died (`Abandoned`) and broken ones: they never get room.

In `admission_check`, `QuotaBounded` and `NamespaceBounded` count what creates have
listed (`Fresh`). A janitor that listed an entry, drained its segment and touches
it after the owner has reset puts the entry back without any test: with the sum
over all of the table TLC exceeds both bounds. `HeaderFits`
and `RingFits` leave out sums that wrap around 2^64 (`NoWrap`): a `meta_size` near
2^64 in `create`, a damaged `payload_size` near 2^64 in `attach`; and `RingFits` a
ring found by `bind` whose size wraps (`RingNoWrap`): `record_max` and
`record_stride` both damaged to nearly 2^32. The theorems `HeadersFit` and `RingsFit`
say that these are the only sizes that pass the tests of the code wrongly.
`DamageCaught` is about segments the registry lists as signed; an unsigned header
is trusted as far as its sizes fit.

`findings` in `PROJECT.json` quotes the sentence of the docs each violation
contradicts.

Bounds. Two slots and three pushes make the ring full, contended and
wrapped, with a producer a lap behind; a retry budget of 2 reaches its end; a
payload larger than a slot and a buffer smaller than it are cut twice. Two
registry slots are filled, freed and used again, and a third name is refused
when they are full; two deaths allow one in the repair of the other. One owner,
one user and one janitor are what a segment's header can tell apart, and one
death leaks a reference. One object per name is enough where a property is
about a header; two are needed for reuse of the name, which is where the code
does not hold (`segment_name_reuse`). Two loggers with rings of two records and
a batch of one make a ring full while another is being drained, a ring that
cannot be bound come first in the list, and a name be used again; the second
name is another one or the first with a digit more (`Prefixes`), one logger ends
and one logs for ever (`Leavers`), one maps file is unreadable (`Opaque`). The sizes
of `admission_check` are below, at and one above the limits, or wrap; with three
slots for four names in two namespaces and a namespace quota of one, two creates
that overlap exceed the quotas, and a third segment fits in one of the
namespaces. One janitor with one job (`MaxJobs`) and one damage (`MaxFaults`) are
enough for a touch, an unlink or an unregister that comes too late; the proofs
have any number of each. Deadlock is not checked where the bounds (pushes,
operations, objects, jobs) let a model stop; the heartbeat never stops and is
checked.

Fairness. Producers inside `try_push`, processes inside an operation, workers
and the center's loop keep being scheduled (weak fairness of their steps): the
OS scheduler. `EventualDelivery` alone supposes a consumer that polls (the log
center does, in a loop) and that consumers do not die in `try_pop` for ever. A
registry mutex that is free again and again is got (strong fairness of `Lock`).
For `Reclaimed` some process keeps sweeping, as the log center does, and time
passes; a stalled owner ticks again or has died. In `Logging` time passes as a
whole (`TimePasses`): each of its steps is taken once per segment, so that every
one that stays possible is taken. Nothing obliges anyone to push, create,
attach, reset, log or close.

## Proofs

TLAPS checks the theorems below for every value of the constants that the
named assumptions allow; TLC has checked each inductive invariant on the
instance of the run first.

| Module | Theorem | States |
|---|---|---|
| `MpscRingProofs` | `TypeCorrect` | `TypeOK`, the retry budget included |
| | `Capacity` | `WithinCapacity` |
| | `Exclusion` | `SlotExclusive` |
| | `Fifo` | `FifoUntorn` |
| | `Refusal` | `HonestRefusal` |
| | `Accounted` | `Accounting` |
| | `Implementation` | `ImplementsChannel`: every step is a step of `RecordChannel` or a stutter |
| `RegistryProofs` | `TypeCorrect` | `TypeOK` |
| | `TableIsConsistent` | `TableConsistent`, through any number of deaths, in the repair too |
| | `OthersStayIntact` | `OthersIntact` |
| | `DirectoryImplemented` | `ImplementsDirectory`: every step is a step of `Directory` or a stutter |
| `SegmentProofs` | `TypeCorrect` | `TypeOK`: above all, no `fetch_sub` too many |
| (one object, no early attach) | `ReferencesExact` | `RefCountExact` |
| | `LiveOwnersKept` | `LiveOwnerKept` |
| | `OwnersKept` | `OwnerKept`: for an owner with a readable maps file the unlink too |
| | `StatesForward` | `StateForward` (an action property) |
| `HeartbeatProofs` | `TypeCorrect` | `TypeOK` |
| | `TicksMapped` | `TickMapped` |
| | `WorkersOwned` | `WorkerOwned` |
| | `HeadersServed` | a listed header has a running worker that is not told to stop |
| | `WorkerSpare` | the bound on worker ids keeps nobody from a step |
| `LoggingProofs` | `TypeCorrect` | `TypeOK`; nothing about the sign of a count |
| | `ReferencesBalanced` | `RefsBalanced`, with what create's store overwrote |
| `AdmissionProofs` | `TypeCorrect` | `TypeOK`, the size of the table included |
| | `HeadersFit` | `HeaderFits` |
| | `RingsFit` | `RingFits` |
| | `NamespacesBounded` | `NamespaceBounded`, for what creates have listed |
| | `DigestsStandard` | `DigestStandard` |
| | `DamageIsCaught` | `DamageCaught` (an action property) |
| `QuotaProofs` | `QuotasBounded` | `QuotaBounded`, for what creates have listed |
| `IntegrityProofs` | `Sha256Standard` | `sha256` is the hash of FIPS 180-4 for messages of any length |
| | `HmacStandard` | `hmac_sha256` is the signature of RFC 2104 |
| | `SignatureBinds` | equal signatures are of the same bytes with the same key |

None of the properties is inductive. What each proof adds, and why:

**Ring.** Assumed: `RingAssumption` (the constants are natural numbers, at least
one slot and one try) and `RecordMax >= 2`, which the code does not enforce;
with one slot the theorems are false (`ring_one_slot`). That a claimed slot is
free follows from what the sequence words of *all* positions say. With `F =
Len(popped)`, the positions given back: words of positions in `F .. tail-1` are
claimed or published, those of `tail .. F+record_max-1` are free, and no word is
behind a position offered so far (`SeqInv`); a producer between claim and
publish owns its position (`WriterInv`); `head` is `F`, or one behind between
the last two stores of `try_pop` and after a crash there (`CursorInv`); a
compare-exchange that can still succeed is on a free slot (`ClaimInv`); slots
hold what was claimed (`DataInv`). `Window`, that positions less than
`record_max` apart have different slots, carries the steps that write a
sequence word. There is one lemma per kind of step (`LoopStep`, `ClaimStep`,
`FillStep`, `PublishStep`, `ReadStep`, `FreeStep`, `AdvanceStep`). `Accounted`
has an invariant of its own, `CountInv`, and needs no bound on the slots.

**Registry.** Assumed: `RegistryAssumption`, with a value for "no name" that is
no name. The table is consistent only while nobody writes, so the invariant
says at each step of a write what the writer has done to its slot and to the
count, and that it has done nothing elsewhere (`WriterInv`); after a death, that
every slot is clean or holds a name that was being written (`DamageInv`); during
the repair, that what lies behind the loop is clean (`RepairInv`); and for every
name that was not being written at a death, that the table says what was last
registered (`ContentInv`). The first free slot, the least number of a set, is
reasoned about with the least-element theorem of `WellFoundedInduction`. For the
refinement, `EntriesContent` says that the table reads as `dir` for every name
that is not hurt, in every state; all steps but five kinds (`CallStep`,
`ReturnStep`, `GiveUpStep`, `EvenStep`, `CrashStep`) are then `Silent`. That a
refusal is honest needs one more invariant, `ValueInv`: a name in the table is
registered, is being registered, or is hurt, so that a table without free slots
holds as many names of the directory as there are slots.

**Segment.** Assumed: `SegmentAssumption` (finitely many processes) and
`OneObject`: one object under the name, found through the registry. Without it
the theorems are false: with `MaxObjs = 2` TLC has a counterexample to each of the
five, because the name of the old object is still registered while `create`
writes the header of the new one; with `EarlyAttach` it has one to `TypeOK`,
`RefCountExact` and `OwnerKept`. The invariant has two phases: `Unborn`, nobody
but the creator has seen the object, and `Born`, it was made `Active` and its
count is the number of references (`Refs`). `OwnerInv` says that no janitor is
past its decision to store `Dead` while a live owner has its handle (`Held`), nor
past its decision to unlink while that owner's maps are readable (`Seen`), `BeatInv` that
none has read a stale heartbeat while the owner beats; both are about values a
janitor read earlier, which is why they cannot be seen in the header alone.
`Placed` says what each process has at each step.

**Heartbeat.** Assumed: finitely many threads. The list is the set of open
handles (`ListInv`), the global worker runs while anything is listed
(`GlobalInv`), and a worker is the global one or is waited for by exactly one
thread (`JoinInv`).

**Logging.** Assumed: `LoggingAssumption` (finitely many loggers, natural
numbers as bounds, a ring of two records at least). A count can only be balanced
if the center attaches no ring twice, which follows from `CenterInv`: no name
left to attach is the name of an attached ring, and the segment being bound has
the first of these names; and if `Register` knows that the creator itself has not
been counted yet (`LoggerInv`). `Kept` (`remove_if` and
`erase`) is shown to leave out the elements marked and nothing else (`KeptFacts`).

**Layout and Admission.** Assumed: `LayoutAssumption` and
`AdmissionAssumption`. The proportions of words, lines, headers and cursors are
those of the code (`U64 = U32 * U32`, lines divide words and headers, a record
header, a slot word and the two cursors are small); a segment is smaller than
`U32` (`MAX_SEGMENT_SIZE` is); options and damaged words have the width of their
fields; a namespace may have one segment at least. First the arithmetic:
`AlignUp` and `Strides` (a stride is a whole number of lines also when the cast
to 32 bits wraps, so that it is at most `U32 - Line`), from which `RingSizes`
gets that the size of a ring set up by `initialize` never wraps 64 bits, and
`RingPlaced` and `HeaderPlaced` the order of the regions. Then the protocol.
Names and entries may change under everybody, so the invariant says of each
handle only what its process knows: the sizes in its own copy fit (`ProcsInv`);
files have the shape of a header that was written or damaged (`FilesInv`);
entries and what janitors remember of them have sizes a create was admitted
with (`RegInv`, `JobInv`). `SpaceInv` counts segments that creates listed in a
namespace and creates under way together, which is what two overlapping creates
cannot see of each other; a touch never adds to it, since what it puts back is
marked.

**Integrity.** Assumed: `IntegrityAssumption` (the length fits in a block and
leaves room for the mark; digest and key fit in a block). `sha256_update` is a
fold over the data, whatever its length, so its value is got by induction. The
induction is stated for a *set* of numbers, which the provers can instantiate
(`SetInduction`), and the fold is first shown to be a sequence of states, each a
`Put` after the last (`UpdateSteps`). `Absorbed(s, m)` is the invariant of the
loop: `s` has compressed the full blocks of `m` in order, its buffer begins
with the rest of `m`, and `total` is the length. The buffer is not cleared after
a block, so nothing is said of the bytes behind `used`; that `sha256_final`
overwrites exactly those is `FinalStandard`, with one case for the padding that fits
and one for the padding that spills. For `SignatureBinds` the padding is shown
to be injective (the length at its end tells the message), then the chain of
blocks, then both passes of the HMAC. The compression function is a free
constructor: the theorem says that the code around it adds no collision, not
that SHA-256 has none.

**Signatures.** `DamageCaught` needs an invariant on objects (`SignInv`): every
object has the signature of the header it was signed with (`was`), with some key,
or bytes that are no digest; and a creator between header and registration finds
what it has written, as long as the name is bound to its object (`Mine`). `AdmissionAssumption` says what damage is: raw bytes, that is, any
words in any field, but no digest computed with the key and none copied from
another segment (a copied signature together with its header is a valid
segment). A digest is not raw, so that a header accepted by `attach` has the
signature it was given by `create`, `SignatureBinds` gives the signed bytes, and
these cover every field of the header that a handle uses (`ImmutableCovers`).

**Quotas.** `Bytes` sums over a set, and the fold that defines it picks the
elements in an order of its own; `SumsUnique` shows that the order does not
matter, by induction on the cardinality, so that an entry adds its size
(`BytesPlus`) and removing it takes it away (`BytesLess`). The invariant
(`QuotaInv`) counts the bytes that creates listed together with `MaxSeg` for every create
that has passed the test and not registered yet. Counted so, the sum may exceed
the bound: the create that passed the test last was admitted on the list as it
was, and only its own size is known to fit. So the invariant says that the
bound holds with one of the waiting creates counted by what it asked for, or
with all of them counted by `MaxSeg`. `AdmissionAssumption` has `MaxSeg <= Quota`,
as `shm_types.h` has 1 GiB and 4 GiB.

Only model-checked: liveness (`PushTerminates`, `EventualDelivery`,
`OpTerminates`, `Reclaimed`, `KeepsTicking`, `Quiesces`, `Discovered`,
`Relieved`, `DeadDetached`), which is out of the prover's reach. Every safety
invariant and action property of the passing runs is a theorem.

## Not modelled

The 64 rounds of the SHA-256 compression function (arithmetic without state);
permissions (one system call, whose failure is an error path of create); the
characters of names and messages, and the formatting of records; error codes;
moves of handles and guards, which are C++ ownership within one thread; the
backoff, which only delays a poll; examples, demos, benchmark and tests. The
creation of the registry segment by the first process: the models start with
it in place (`PROJECT.json` lists the race of two first processes), and the
bootstrap names, which pass the name rules for it. Damage to a ring's metadata
after it was bound, and what happens in a ring that was used before its slots
were set. Weak memory beyond the argument under MpscRing.

## Plan

Done, in this order: ring, abstract channel and proofs; registry; segment
lifecycle, with stalls and readers; heartbeat; logging; layout, integrity and
admission.

Then the proofs: ring, heartbeat, logging, registry, segment, layout and
admission, digests and signatures, quotas, the registry as a directory.

Left: the bootstrap of the registry segment.
