--------------------------- MODULE SegmentProofs ----------------------------
(***************************************************************************)
(* Proofs about Segment for every finite set of processes, whatever each   *)
(* of them may do, and every number of deaths.  They are about ONE object  *)
(* under the name, attached by processes that found it in the registry.    *)
(* With a second object under the name each of the theorems has a          *)
(* counterexample, which TLC finds with MaxObjs = 2: the name of the old   *)
(* object is still registered, so the new one is attached and swept while  *)
(* create writes its header.  With EarlyAttach the same race breaks the    *)
(* types, the count and OwnerKept for the first object.                    *)
(***************************************************************************)
EXTENDS Segment, FiniteSetTheorems, TLAPS

-----------------------------------------------------------------------------
(* The inductive invariant *)

OneObject == MaxObjs = 1 /\ ~EarlyAttach

\* Inside create, before the object is Active.
Making == {"c_magic", "c_owner", "c_ref", "c_active"}

\* Steps that use the object of the process's locals.
Using == Making \cup {"c_handle", "a_state", "a_bump", "a_check", "a_undo", "r_state", "r_dead",
                      "g_owner", "g_rc", "g_state", "g_lock", "g_dead", "g_drain", "g_touch",
                      "g_maps", "g_kin", "unlink"}

Labels == Using \cup {"idle", "c_register", "a_open", "r_sub", "g_open", "unregister"}

\* What a process has at each step.
Placed(p) ==
    /\ p \notin alive => pc[p] = "idle"
    /\ pc[p] \in Using => loc[p].o = 1
    /\ pc[p] \in Making \cup {"c_handle", "a_open", "a_state", "a_bump", "a_check", "a_undo"} => handle[p] = 0
    /\ loc[p].attach => handle[p] = 0
    /\ pc[p] \in {"a_bump", "a_check", "a_undo", "c_handle"} => p \notin Readers
    /\ pc[p] \in Making => p \in Creators
    /\ pc[p] = "c_register" => own[p]
    /\ pc[p] = "r_sub" => handle[p] = 1
    /\ own[p] => p \notin Readers /\ hdr[1].owner = p /\ handle[p] = 1
    /\ pc[p] \in {"r_state", "r_dead"} => hdr[1].owner = p /\ ~own[p]

LocalInv == pc \in [Procs -> Labels] /\ \A p \in Procs : Placed(p)

\* Nobody but a creator has seen the object, or it was given up.
Unborn ==
    /\ ~reg.on
    /\ hdr[1].state # "Init" => bound = 0 /\ \A p \in Procs : pc[p] \notin Making
    /\ nobj = 0 => hdr[1].state = "Init" /\ \A p \in Procs : pc[p] \notin Making
    /\ \A p, q \in Procs : pc[p] \in Making /\ pc[q] \in Making => p = q
    /\ \A p \in Procs :
          /\ handle[p] = 0 /\ ~loc[p].attach /\ pc[p] \in {"idle", "unregister"} \cup Making
          /\ pc[p] \in {"c_ref", "c_active"} => hdr[1].owner = p
          /\ pc[p] = "c_active" => hdr[1].rc = 1

\* Processes with a reference that is counted.
Ref(p) == Counted(p) \/ (p \notin Readers /\ handle[p] = 1)
Refs == {p \in Procs : Ref(p)}

\* While the creator has no handle yet nobody else is there.
HandleInv ==
    \A p \in Procs : pc[p] = "c_handle" =>
        /\ hdr[1].owner = p /\ hdr[1].state = "Active" /\ ~reg.on
        /\ \A q \in Procs : handle[q] = 0 /\ ~loc[q].attach
        /\ \A q \in Procs \ {p} : pc[q] \in {"idle", "unregister"}

\* The owner has its handle; and its maps file is readable.
Held == \E p \in alive : own[p]
Seen == \E p \in alive \ Opaque : own[p]

\* Until it gives it up nobody stores Dead, or removes the name.
OwnerInv ==
    /\ Held => hdr[1].state # "Dead" /\ \A q \in Procs : pc[q] # "g_dead"
    /\ Seen => \A q \in Procs : pc[q] # "unlink"

\* While its heartbeat ticks no janitor takes the owner for dead.
BeatInv ==
    Beating(1) /\ 1 \notin slow =>
        /\ ~hdr[1].stale /\ hdr[1].state = "Active"
        /\ \A q \in Procs : /\ pc[q] # "g_drain"
                            /\ pc[q] \in {"g_rc", "g_state"} => ~loc[q].dead

Born ==
    /\ nobj = 1 /\ hdr[1].state # "Init" /\ hdr[1].rc = Cardinality(Refs)
    /\ \A p \in Procs : pc[p] \notin Making
    /\ HandleInv /\ OwnerInv /\ BeatInv

Inv == TypeOK /\ LocalInv /\ (Unborn \/ Born)

-----------------------------------------------------------------------------
(* Lemmas *)

LEMMA ProcsCount ==
    ASSUME NEW S \in SUBSET Procs
    PROVE  IsFiniteSet(S) /\ Cardinality(S) \in 0 .. Cardinality(Procs)
<1>1. IsFiniteSet(S) /\ Cardinality(S) <= Cardinality(Procs)
  BY FS_Subset, SegmentAssumption
<1> QED BY <1>1, FS_CardinalityType, SegmentAssumption

\* A step of p counts its own reference at most.
LEMMA RefsStep ==
    ASSUME NEW p \in Procs, \A q \in Procs \ {p} : pc'[q] = pc[q] /\ handle'[q] = handle[q]
    PROVE  /\ Cardinality(Refs) \in Nat /\ Cardinality(Refs)' \in 0 .. Cardinality(Procs)
           /\ (Ref(p)' <=> Ref(p)) => Cardinality(Refs)' = Cardinality(Refs)
           /\ Ref(p)' /\ ~Ref(p) => Cardinality(Refs)' = Cardinality(Refs) + 1
           /\ ~Ref(p)' /\ Ref(p) => Cardinality(Refs)' = Cardinality(Refs) - 1
<1>1. \A q \in Procs \ {p} : Ref(q)' <=> Ref(q)
  BY DEF Ref, Counted
<1>2. IsFiniteSet(Refs) /\ Cardinality(Refs) \in Nat
  <2>1. Refs \in SUBSET Procs
    BY DEF Refs
  <2> QED BY <2>1, ProcsCount
<1>3. Cardinality(Refs)' \in 0 .. Cardinality(Procs)
  <2>1. Refs' \in SUBSET Procs
    BY DEF Refs
  <2> QED BY <2>1, ProcsCount
<1>4. ASSUME Ref(p)' <=> Ref(p) PROVE Cardinality(Refs)' = Cardinality(Refs)
  <2>1. Refs' = Refs
    BY <1>1, <1>4 DEF Refs
  <2> QED BY <2>1
<1>5. ASSUME Ref(p)', ~Ref(p) PROVE Cardinality(Refs)' = Cardinality(Refs) + 1
  <2>1. Refs' = Refs \cup {p} /\ p \notin Refs
    BY <1>1, <1>5 DEF Refs
  <2> QED BY <1>2, <2>1, FS_AddElement
<1>6. ASSUME ~Ref(p)', Ref(p) PROVE Cardinality(Refs)' = Cardinality(Refs) - 1
  <2>1. Refs' = Refs \ {p} /\ p \in Refs
    BY <1>1, <1>6 DEF Refs
  <2> QED BY <1>2, <2>1, FS_RemoveElement
<1> QED BY <1>2, <1>3, <1>4, <1>5, <1>6

\* A process with a counted reference keeps the count above zero.
LEMMA RefCounts ==
    ASSUME NEW p \in Procs, Ref(p)
    PROVE  Cardinality(Refs) # 0
<1>1. Refs \in SUBSET Procs /\ p \in Refs
  BY DEF Refs
<1> QED BY <1>1, ProcsCount, FS_EmptySet

LEMMA OneFacts ==
    ASSUME OneObject, TypeOK
    PROVE  /\ Objs = {1} /\ MaxObjs = 1 /\ 0 \in 0 .. MaxObjs /\ 1 \in 0 .. MaxObjs
           /\ hdr[1] \in Headers /\ bound \in {0, 1} /\ nobj \in {0, 1} /\ (bound = 1 => nobj = 1)
           /\ \A p \in Procs : handle[p] \in {0, 1}
<1>1. Objs = {1} /\ MaxObjs = 1 /\ 0 \in 0 .. MaxObjs /\ 1 \in 0 .. MaxObjs
  BY DEF OneObject, Objs
<1>2. bound \in 0 .. nobj /\ nobj \in 0 .. 1 /\ \A p \in Procs : handle[p] \in 0 .. 1
  BY <1>1 DEF TypeOK
<1> QED BY <1>1, <1>2 DEF TypeOK

LEMMA NoLocalsType == NoLocals \in Locals /\ NoLocals.o = 0 /\ ~NoLocals.attach /\ ~NoLocals.dead
  BY SegmentAssumption DEF NoLocals, Locals

\* What a step of p leaves alone.
Others(p) ==
    \A q \in Procs \ {p} :
        pc'[q] = pc[q] /\ loc'[q] = loc[q] /\ handle'[q] = handle[q] /\ own'[q] = own[q]

\* A step of p writes its own locals and the header.
Moves(p) ==
    /\ pc' = [pc EXCEPT ![p] = pc'[p]] /\ pc'[p] \in Labels
    /\ loc' = [loc EXCEPT ![p] = loc'[p]] /\ loc'[p] \in Locals
    /\ handle' = [handle EXCEPT ![p] = handle'[p]] /\ handle'[p] \in 0 .. MaxObjs
    /\ own' = [own EXCEPT ![p] = own'[p]] /\ own'[p] \in BOOLEAN
    /\ hdr' = [hdr EXCEPT ![1] = hdr'[1]] /\ hdr'[1] \in Headers

SharedOK ==
    /\ bound \in 0 .. nobj /\ nobj \in 0 .. MaxObjs
    /\ mlock \in [Objs -> Procs \cup {None}]
    /\ reg \in [on : BOOLEAN, old : BOOLEAN]

\* What p's step has to show of types and places.
LEMMA PlacedStep ==
    ASSUME Inv, OneObject, NEW p \in Procs, Moves(p), SharedOK', Placed(p)',
           alive' \in {alive, alive \ {p}}, slow' = slow,
           hdr'[1].owner = hdr[1].owner \/ Unborn
    PROVE  TypeOK' /\ LocalInv' /\ Others(p)
<1>1. Others(p) /\ pc' \in [Procs -> Labels] /\ TypeOK'
  BY DEF Inv, TypeOK, LocalInv, Moves, SharedOK, Others, OneObject, Objs
<1>2. ASSUME NEW q \in Procs, q # p PROVE Placed(q)'
  <2>1. Placed(q) /\ (Unborn => ~own[q] /\ pc[q] \notin {"r_state", "r_dead"})
    BY DEF Inv, LocalInv, Placed, Unborn, Making
  <2>2. pc'[q] = pc[q] /\ loc'[q] = loc[q] /\ handle'[q] = handle[q] /\ own'[q] = own[q] /\ (q \in alive' <=> q \in alive)
    BY <1>1, <1>2 DEF Others
  <2> QED BY <2>1, <2>2 DEF Placed
<1> QED BY <1>1, <1>2 DEF LocalInv

\* A step of p after the object became Active.
LEMMA BornMove ==
    ASSUME Inv, OneObject, Born, NEW p \in Procs, Others(p),
           nobj' = nobj, alive' \subseteq alive, slow' = slow,
           hdr'[1].owner = hdr[1].owner, hdr'[1].state # "Init", hdr'[1].rc = Cardinality(Refs)',
           pc'[p] \notin Making, pc'[p] # "c_handle",
           \/ \A q \in Procs \ {p} : pc[q] # "c_handle"
           \/ /\ pc'[p] \in {"idle", "unregister"} /\ ~loc'[p].attach /\ ~reg'.on /\ handle'[p] = 0
              /\ hdr'[1] = hdr[1],
           p \in alive' /\ own'[p] => own[p] /\ pc[p] # "r_sub",
           Held' => hdr'[1].state # "Dead" /\ pc'[p] # "g_dead",
           Seen' => pc'[p] # "unlink",
           Beating(1) /\ 1 \notin slow /\ own'[hdr[1].owner] =>
               /\ ~hdr'[1].stale /\ hdr'[1].state = "Active" /\ pc'[p] # "g_drain"
               /\ pc'[p] \in {"g_rc", "g_state"} => ~loc'[p].dead
    PROVE  Born'
<1>1. alive \subseteq Procs
  BY DEF Inv, TypeOK
<1>2. HandleInv'
  <2> SUFFICES ASSUME NEW c \in Procs, pc'[c] = "c_handle"
               PROVE  /\ hdr'[1].owner = c /\ hdr'[1].state = "Active" /\ ~reg'.on
                      /\ \A q \in Procs : handle'[q] = 0 /\ ~loc'[q].attach
                      /\ \A q \in Procs \ {c} : pc'[q] \in {"idle", "unregister"}
    BY DEF HandleInv
  <2>1. c # p /\ pc[c] = "c_handle"
    BY DEF Others
  <2> QED BY <2>1 DEF Others, Born, HandleInv
<1>3. OwnerInv'
  <2>1. (Held' => Held) /\ (Seen' => Seen)
    BY <1>1 DEF Others, Held, Seen
  <2> QED BY <2>1 DEF Others, Born, OwnerInv
<1>4. BeatInv'
  <2> SUFFICES ASSUME Beating(1)', 1 \notin slow' PROVE BeatInv'
    BY DEF BeatInv
  <2>1. PICK c : c = hdr[1].owner
    OBVIOUS
  <2>2. c \in alive' /\ c \in Procs /\ own'[c] /\ pc'[c] # "r_sub"
    BY <1>1, <2>1 DEF Beating
  <2>3. own[c] /\ pc[c] # "r_sub"
    BY <2>2 DEF Others
  <2>4. Beating(1)
    BY <2>1, <2>2, <2>3 DEF Beating, Inv, LocalInv, Placed
  <2> QED BY <2>1, <2>2, <2>4 DEF Others, Born, BeatInv
<1>5. \A q \in Procs : pc'[q] \notin Making
  BY DEF Others, Born
<1> QED BY <1>2, <1>3, <1>4, <1>5 DEF Born

-----------------------------------------------------------------------------
(* Initially, and until the object is Active *)

LEMMA InitInv == OneObject /\ Init => Inv
<1> SUFFICES ASSUME OneObject, Init PROVE Inv
  OBVIOUS
<1>1. Objs = {1} /\ MaxObjs = 1
  BY DEF OneObject, Objs
<1>2. Cardinality(Procs) \in Nat
  BY SegmentAssumption, FS_CardinalityType
<1>3. ZeroHeader \in Headers /\ ZeroHeader.state = "Init"
  BY <1>2 DEF ZeroHeader, Headers
<1>4. TypeOK
  BY <1>1, <1>3, NoLocalsType DEF Init, TypeOK, NoEntry
<1>5. LocalInv
  BY NoLocalsType DEF Init, LocalInv, Placed, Labels, Using, Making
<1>6. Unborn
  BY <1>1, <1>3, NoLocalsType DEF Init, Unborn, NoEntry, Making
<1> QED BY <1>4, <1>5, <1>6 DEF Inv

\* Where an unborn object leaves the processes.
LEMMA UnbornMove ==
    ASSUME Unborn, NEW p \in Procs, Others(p), reg' = reg \/ ~reg'.on, nobj' = nobj \/ nobj' = 1,
           hdr'[1].state = hdr[1].state, hdr[1].state # "Init" => bound' = 0 /\ pc'[p] \notin Making,
           nobj' = 0 => pc'[p] \notin Making,
           handle'[p] = 0, ~loc'[p].attach, pc'[p] \in {"idle", "unregister"} \cup Making,
           pc[p] \notin Making /\ pc'[p] \in Making => nobj = 0,
           pc[p] \in Making \/ hdr'[1] = hdr[1] \/ (hdr'[1].owner = hdr[1].owner /\ hdr'[1].rc = hdr[1].rc),
           pc'[p] \in {"c_ref", "c_active"} => hdr'[1].owner = p,
           pc'[p] = "c_active" => hdr'[1].rc = 1
    PROVE  Unborn'
<1>1. ~reg'.on /\ (nobj' = 0 => nobj = 0)
  BY DEF Unborn
<1>2. \A q \in Procs \ {p} : pc'[q] \in Making => pc[q] \in Making /\ pc'[p] \notin Making /\ hdr'[1].owner = hdr[1].owner /\ hdr'[1].rc = hdr[1].rc
  BY DEF Unborn, Others
<1>3. \A q \in Procs :
          /\ handle'[q] = 0 /\ ~loc'[q].attach /\ pc'[q] \in {"idle", "unregister"} \cup Making
          /\ pc'[q] \in {"c_ref", "c_active"} => hdr'[1].owner = q
          /\ pc'[q] = "c_active" => hdr'[1].rc = 1
  BY <1>2 DEF Unborn, Others, Making
<1>4. \A q, r \in Procs : pc'[q] \in Making /\ pc'[r] \in Making => q = r
  BY <1>2 DEF Unborn, Others
<1> QED BY <1>1, <1>2, <1>3, <1>4 DEF Unborn, Others

\* No process can do anything else while the object is unborn.
LEMMA UnbornStep ==
    ASSUME Inv, OneObject, Unborn, NEW p \in Procs, Start(p) \/ Step(p) \/ Crash(p)
    PROVE  Inv'
<1>1. TypeOK /\ LocalInv /\ Placed(p)
  BY DEF Inv, LocalInv
<1>2. /\ Objs = {1} /\ MaxObjs = 1 /\ ~EarlyAttach /\ hdr[1] \in Headers
      /\ bound \in {0, 1} /\ nobj \in {0, 1} /\ (bound = 1 => nobj = 1)
  BY <1>1, OneFacts DEF OneObject
<1>3. 1 \in 0 .. Cardinality(Procs)
  <2>1. Cardinality({p}) = 1 /\ {p} \in SUBSET Procs
    BY FS_Singleton
  <2> QED BY <2>1, ProcsCount, FS_CardinalityType, SegmentAssumption
<1>4. NoLocals \in Locals /\ NoLocals.o = 0 /\ ~NoLocals.attach /\ [NoLocals EXCEPT !.o = 1] \in Locals
      /\ [NoLocals EXCEPT !.o = 1].o = 1 /\ ~[NoLocals EXCEPT !.o = 1].attach
  <2>1. 1 \in 0 .. MaxObjs
    BY <1>2
  <2>2. [NoLocals EXCEPT !.o = 1].o = 1 /\ ~[NoLocals EXCEPT !.o = 1].attach
    BY DEF NoLocals
  <2>3. [NoLocals EXCEPT !.o = 1] \in Locals
    BY <2>1, NoLocalsType DEF Locals
  <2> QED BY <2>2, <2>3, NoLocalsType
<1>5. pc[p] \in {"idle", "unregister"} \cup Making /\ handle[p] = 0 /\ ~own[p] /\ ~loc[p].attach /\ ~reg.on
  BY <1>1 DEF Unborn, Placed
<1>6. CASE CreateOpen(p)
  <2>1. /\ Moves(p) /\ SharedOK' /\ nobj = 0 /\ nobj' = 1 /\ reg' = reg /\ hdr' = hdr /\ alive' = alive /\ slow' = slow
        /\ pc'[p] = "c_magic" /\ loc'[p] = [NoLocals EXCEPT !.o = 1] /\ handle'[p] = 0 /\ own'[p] = own[p]
    BY <1>1, <1>2, <1>4, <1>5, <1>6 DEF CreateOpen, At, Goto, Moves, SharedOK, TypeOK, LocalInv, Labels, Using, Making
  <2>2. Placed(p)'
    BY <1>1, <1>4, <1>5, <1>6, <2>1 DEF CreateOpen, At, Placed, Using, Making
  <2>3. TypeOK' /\ LocalInv' /\ Others(p)
    BY <2>1, <2>2, PlacedStep
  <2>4. Unborn'
    BY <1>4, <1>6, <2>1, <2>3, UnbornMove DEF CreateOpen, At, Making, Unborn
  <2> QED BY <2>3, <2>4 DEF Inv
<1>7. CASE CreateMagic(p)
  <2>1. /\ hdr' = [hdr EXCEPT ![1].valid = TRUE] /\ hdr'[1] = [hdr[1] EXCEPT !.valid = TRUE]
        /\ [hdr[1] EXCEPT !.valid = TRUE] \in Headers
        /\ pc[p] = "c_magic" /\ p \in alive
    BY <1>1, <1>2, <1>7 DEF CreateMagic, At, Placed, Using, Making, TypeOK, Headers
  <2>2. /\ Moves(p) /\ SharedOK' /\ nobj' = nobj /\ bound' = bound /\ reg' = reg /\ alive' = alive /\ slow' = slow
        /\ pc'[p] = "c_owner" /\ loc'[p] = loc[p] /\ handle'[p] = handle[p] /\ own'[p] = own[p]
    BY <1>1, <1>2, <1>7, <2>1 DEF CreateMagic, local, Goto, Moves, SharedOK, TypeOK, LocalInv, Labels, Using, Making
  <2>3. hdr'[1].owner = hdr[1].owner /\ hdr'[1].rc = hdr[1].rc /\ hdr'[1].state = hdr[1].state
    BY <1>2, <2>1 DEF Headers
  <2>4. Placed(p)'
    BY <1>1, <1>5, <2>1, <2>2, <2>3 DEF Placed, Using, Making
  <2>5. TypeOK' /\ LocalInv' /\ Others(p)
    BY <2>2, <2>3, <2>4, PlacedStep
  <2>6. Unborn'
    BY <1>5, <2>1, <2>2, <2>3, <2>5, UnbornMove DEF Making, Unborn
  <2> QED BY <2>5, <2>6 DEF Inv

<1>8. CASE CreateOwner(p)
  <2>1. /\ hdr' = [hdr EXCEPT ![1].owner = p] /\ hdr'[1] = [hdr[1] EXCEPT !.owner = p]
        /\ [hdr[1] EXCEPT !.owner = p] \in Headers
        /\ pc[p] = "c_owner" /\ p \in alive
    BY <1>1, <1>2, <1>8 DEF CreateOwner, At, Placed, Using, Making, TypeOK, Headers
  <2>2. /\ Moves(p) /\ SharedOK' /\ nobj' = nobj /\ bound' = bound /\ reg' = reg /\ alive' = alive /\ slow' = slow
        /\ pc'[p] = "c_ref" /\ loc'[p] = loc[p] /\ handle'[p] = handle[p] /\ own'[p] = own[p]
    BY <1>1, <1>2, <1>8, <2>1 DEF CreateOwner, local, Goto, Moves, SharedOK, TypeOK, LocalInv, Labels, Using, Making
  <2>3. hdr'[1].owner = p /\ hdr'[1].rc = hdr[1].rc /\ hdr'[1].state = hdr[1].state
    BY <1>2, <2>1 DEF Headers
  <2>4. Placed(p)'
    BY <1>1, <1>5, <2>1, <2>2, <2>3 DEF Placed, Using, Making
  <2>5. TypeOK' /\ LocalInv' /\ Others(p)
    BY <2>2, <2>3, <2>4, PlacedStep
  <2>6. Unborn'
    BY <1>5, <2>1, <2>2, <2>3, <2>5, UnbornMove DEF Making, Unborn
  <2> QED BY <2>5, <2>6 DEF Inv
<1>9. CASE CreateRef(p)
  <2>1. /\ hdr' = [hdr EXCEPT ![1].rc = 1] /\ hdr'[1] = [hdr[1] EXCEPT !.rc = 1]
        /\ [hdr[1] EXCEPT !.rc = 1] \in Headers
        /\ pc[p] = "c_ref" /\ p \in alive
    BY <1>1, <1>2, <1>3, <1>9 DEF CreateRef, At, Placed, Using, Making, TypeOK, Headers
  <2>2. /\ Moves(p) /\ SharedOK' /\ nobj' = nobj /\ bound' = bound /\ reg' = reg /\ alive' = alive /\ slow' = slow
        /\ pc'[p] = "c_active" /\ loc'[p] = loc[p] /\ handle'[p] = handle[p] /\ own'[p] = own[p]
    BY <1>1, <1>2, <1>9, <2>1 DEF CreateRef, local, Goto, Moves, SharedOK, TypeOK, LocalInv, Labels, Using, Making
  <2>3. hdr'[1].owner = hdr[1].owner /\ hdr'[1].rc = 1 /\ hdr'[1].state = hdr[1].state
    BY <1>2, <2>1 DEF Headers
  <2>4. Placed(p)'
    BY <1>1, <1>5, <2>1, <2>2, <2>3 DEF Placed, Using, Making
  <2>5. TypeOK' /\ LocalInv' /\ Others(p)
    BY <2>2, <2>3, <2>4, PlacedStep
  <2>6. Unborn'
    BY <1>5, <2>1, <2>2, <2>3, <2>5, UnbornMove DEF Making, Unborn
  <2> QED BY <2>5, <2>6 DEF Inv
<1>10. CASE CreateActive(p)
  <2>1. /\ hdr' = [hdr EXCEPT ![1].state = "Active"] /\ hdr'[1] = [hdr[1] EXCEPT !.state = "Active"]
        /\ [hdr[1] EXCEPT !.state = "Active"] \in Headers
        /\ pc[p] = "c_active" /\ p \in alive
    BY <1>1, <1>2, <1>10 DEF CreateActive, At, Placed, Using, Making, TypeOK, Headers
  <2>2. /\ Moves(p) /\ SharedOK' /\ nobj' = nobj /\ bound' = bound /\ reg' = reg /\ alive' = alive /\ slow' = slow
        /\ pc'[p] = "c_handle" /\ loc'[p] = loc[p] /\ handle'[p] = handle[p] /\ own'[p] = own[p]
    BY <1>1, <1>2, <1>10, <2>1 DEF CreateActive, local, Goto, Moves, SharedOK, TypeOK, LocalInv, Labels, Using, Making
  <2>3. hdr'[1].owner = hdr[1].owner /\ hdr'[1].rc = hdr[1].rc /\ hdr'[1].state = "Active"
    BY <1>2, <2>1 DEF Headers
  <2>4. hdr[1].owner = p /\ hdr[1].rc = 1 /\ nobj = 1
    BY <1>2, <2>1 DEF Unborn, Making
  <2>5. Placed(p)'
    <3>1. p \notin Readers
      BY <1>1, <2>1, SegmentAssumption DEF Placed, Making
    <3> QED BY <1>1, <1>5, <2>1, <2>2, <2>3, <3>1 DEF Placed, Using, Making
  <2>6. TypeOK' /\ LocalInv' /\ Others(p)
    BY <2>2, <2>3, <2>5, PlacedStep
  <2>7. \A q \in Procs : handle'[q] = 0 /\ ~loc'[q].attach /\ ~own'[q] /\ (q # p => pc'[q] \in {"idle", "unregister"})
    <3>1. \A q \in Procs : handle[q] = 0 /\ ~loc[q].attach /\ ~own[q] /\ (q # p => pc[q] \in {"idle", "unregister"})
      BY <1>1, <2>1 DEF Unborn, LocalInv, Placed, Making
    <3> QED BY <1>5, <2>2, <2>6, <3>1 DEF Others
  <2>8. Cardinality(Refs)' = 1
    <3>1. Refs = {}
      BY DEF Refs, Ref, Counted, Unborn, Making
    <3>2. ~Ref(p) /\ Ref(p)'
      BY <2>2, <3>1 DEF Refs, Ref, Counted
    <3>3. Cardinality(Refs) = 0
      BY <3>1, FS_EmptySet
    <3>4. Cardinality(Refs)' = Cardinality(Refs) + 1
      BY <2>6, <3>2, RefsStep DEF Others
    <3> QED BY <3>3, <3>4
  <2>9. HandleInv'
    BY <1>5, <2>2, <2>3, <2>4, <2>7 DEF HandleInv
  <2>10. OwnerInv'
    <3>1. alive' \subseteq Procs
      BY <2>6 DEF TypeOK
    <3> QED BY <2>7, <3>1 DEF OwnerInv, Held, Seen
  <2>11. BeatInv'
    <3>1. alive' \subseteq Procs
      BY <2>6 DEF TypeOK
    <3> QED BY <2>7, <3>1 DEF BeatInv, Beating
  <2>12. Born'
    BY <2>2, <2>3, <2>4, <2>7, <2>8, <2>9, <2>10, <2>11 DEF Born, Making
  <2> QED BY <2>6, <2>12 DEF Inv
<1>11. CASE CreateFail(p)
  <2>1. /\ Moves(p) /\ SharedOK' /\ nobj' = nobj /\ bound' = 0 /\ reg' = reg /\ alive' = alive /\ slow' = slow
        /\ hdr' = hdr /\ pc[p] = "c_magic"
        /\ pc'[p] = "idle" /\ loc'[p] = NoLocals /\ handle'[p] = handle[p] /\ own'[p] = own[p]
    BY <1>1, <1>2, <1>4, <1>5, <1>11 DEF CreateFail, Leave, Goto, Moves, SharedOK, TypeOK, LocalInv, Labels, Using, Making
  <2>2. Placed(p)'
    BY <1>1, <1>4, <1>5, <2>1 DEF Placed, Using, Making
  <2>3. TypeOK' /\ LocalInv' /\ Others(p)
    BY <2>1, <2>2, PlacedStep
  <2>4. Unborn'
    BY <1>4, <1>5, <2>1, <2>3, UnbornMove DEF Making, Unborn
  <2> QED BY <2>3, <2>4 DEF Inv
<1>12. CASE DestroyUnlink(p)
  <2>1. /\ Moves(p) /\ SharedOK' /\ nobj' = nobj /\ bound' = 0 /\ reg' = reg /\ alive' = alive /\ slow' = slow
        /\ hdr' = hdr /\ pc[p] = "idle" /\ p \in alive
        /\ pc'[p] = "unregister" /\ loc'[p] = NoLocals /\ handle'[p] = handle[p] /\ own'[p] = own[p]
    BY <1>1, <1>2, <1>4, <1>5, <1>12 DEF DestroyUnlink, At, Leave, Goto, Moves, SharedOK, TypeOK, LocalInv, Labels, Using, Making
  <2>2. Placed(p)'
    BY <1>1, <1>4, <1>5, <2>1 DEF Placed, Using, Making
  <2>3. TypeOK' /\ LocalInv' /\ Others(p)
    BY <2>1, <2>2, PlacedStep
  <2>4. Unborn'
    BY <1>4, <1>5, <2>1, <2>3, UnbornMove DEF Making, Unborn
  <2> QED BY <2>3, <2>4 DEF Inv
<1>13. CASE Unregister(p)
  <2>1. /\ Moves(p) /\ SharedOK' /\ nobj' = nobj /\ bound' = bound /\ ~reg'.on /\ alive' = alive /\ slow' = slow
        /\ hdr' = hdr /\ pc[p] = "unregister" /\ p \in alive
        /\ pc'[p] = "idle" /\ loc'[p] = NoLocals /\ handle'[p] = handle[p] /\ own'[p] = own[p]
    BY <1>1, <1>2, <1>4, <1>5, <1>13 DEF Unregister, SweepDone, NoEntry, At, Leave, Goto, Moves, SharedOK, TypeOK, LocalInv, Labels, Using, Making
  <2>2. Placed(p)'
    BY <1>1, <1>4, <1>5, <2>1 DEF Placed, Using, Making
  <2>3. TypeOK' /\ LocalInv' /\ Others(p)
    BY <2>1, <2>2, PlacedStep
  <2>4. Unborn'
    BY <1>4, <1>5, <2>1, <2>3, UnbornMove DEF Making, Unborn
  <2> QED BY <2>3, <2>4 DEF Inv
<1>14. CASE Crash(p)
  <2>1. /\ Moves(p) /\ SharedOK' /\ nobj' = nobj /\ bound' = bound /\ reg' = reg /\ alive' = alive \ {p} /\ slow' = slow
        /\ hdr' = hdr /\ pc'[p] = "idle" /\ loc'[p] = NoLocals /\ handle'[p] = handle[p] /\ own'[p] = own[p]
    BY <1>1, <1>2, <1>4, <1>5, <1>14 DEF Crash, Counted, Leave, Goto, Moves, SharedOK, TypeOK, LocalInv, Labels, Using, Making
  <2>2. Placed(p)'
    BY <1>1, <1>4, <1>5, <2>1 DEF Placed, Using, Making
  <2>3. TypeOK' /\ LocalInv' /\ Others(p)
    BY <2>1, <2>2, PlacedStep
  <2>4. Unborn'
    BY <1>4, <1>5, <2>1, <2>3, UnbornMove DEF Making, Unborn
  <2> QED BY <2>3, <2>4 DEF Inv
<1>15. ~BeginAttach(p) /\ ~BeginReset(p) /\ ~BeginGc(p) /\ ~CreateHandle(p) /\ ~CreateRegister(p) /\ ~CreateRefused(p)
  BY <1>2, <1>5 DEF BeginAttach, BeginReset, BeginGc, CreateHandle, CreateRegister, CreateRefused, At, Making
<1>16. ~Attach(p)
  BY <1>5 DEF Attach, AttachOpen, AttachState, AttachBump, AttachCheck, AttachUndo, At, Making
<1>17. ~ResetSub(p) /\ ~ResetState(p) /\ ~ResetDead(p) /\ ~Unlink(p)
  BY <1>5 DEF ResetSub, ResetState, ResetDead, Unlink, At, Making
<1>18. ~Gc(p)
  BY <1>5 DEF Gc, GcOpen, GcOwner, GcRc, GcState, GcRecheck, GcDead, GcDrain, GcTouch, GcMaps, GcMapsKin, GcKin, At, Making
<1> QED
  BY <1>6, <1>7, <1>8, <1>9, <1>10, <1>11, <1>12, <1>13, <1>14, <1>15, <1>16, <1>17, <1>18
  DEF Start, Step, Create, Release

-----------------------------------------------------------------------------
(* From then on *)

\* Who is anywhere but between operations is not there with the creator.
LEMMA Alone ==
    ASSUME Born, NEW p \in Procs, reg.on \/ handle[p] # 0 \/ pc[p] \notin {"idle", "unregister"}
    PROVE  \A q \in Procs \ {p} : pc[q] # "c_handle"
  BY DEF Born, HandleInv

\* A step of p that leaves header, reference and ownership alone.
LEMMA BornLocal ==
    ASSUME Inv, OneObject, Born, NEW p \in Procs, Moves(p), SharedOK', Placed(p)',
           nobj' = nobj, alive' = alive, slow' = slow, hdr' = hdr, Ref(p)' <=> Ref(p),
           own'[p] => own[p] /\ pc[p] # "r_sub",
           pc'[p] \notin Making, pc'[p] # "c_handle",
           \/ \A q \in Procs \ {p} : pc[q] # "c_handle"
           \/ pc'[p] \in {"idle", "unregister"} /\ ~loc'[p].attach /\ ~reg'.on /\ handle'[p] = 0,
           pc'[p] = "g_dead" => ~Held, pc'[p] = "unlink" => ~Seen,
           Beating(1) /\ 1 \notin slow =>
               /\ pc'[p] # "g_drain"
               /\ pc'[p] \in {"g_rc", "g_state"} => ~loc'[p].dead
    PROVE  Inv'
<1>1. TypeOK' /\ LocalInv' /\ Others(p)
  BY PlacedStep
<1>2. Cardinality(Refs)' = Cardinality(Refs)
  BY <1>1, RefsStep DEF Others
<1>3. (Held' => hdr'[1].state # "Dead" /\ pc'[p] # "g_dead") /\ (Seen' => pc'[p] # "unlink")
  <2>1. (Held' => Held) /\ (Seen' => Seen)
    <3>1. alive \subseteq Procs
      BY DEF Inv, TypeOK
    <3> QED BY <1>1, <3>1 DEF Others, Held, Seen
  <2> QED BY <2>1 DEF Born, OwnerInv
<1>4. hdr[1].rc = Cardinality(Refs) /\ hdr[1].state # "Init" /\ BeatInv
  BY DEF Born
<1>5. Born'
  BY <1>1, <1>2, <1>3, <1>4, BornMove DEF BeatInv
<1> QED BY <1>1, <1>5 DEF Inv

\* What every step from a Born state starts from.
LEMMA BornFacts ==
    ASSUME Inv, OneObject, Born, NEW p \in Procs
    PROVE  /\ TypeOK /\ LocalInv /\ Placed(p)
           /\ Objs = {1} /\ MaxObjs = 1 /\ ~EarlyAttach /\ hdr[1] \in Headers
           /\ bound \in {0, 1} /\ nobj = 1 /\ handle[p] \in {0, 1}
           /\ NoLocals \in Locals /\ NoLocals.o = 0 /\ ~NoLocals.attach /\ ~NoLocals.dead
           /\ pc[p] \notin Making /\ hdr[1].rc = Cardinality(Refs) /\ hdr[1].state # "Init"
  BY OneFacts, NoLocalsType DEF Inv, LocalInv, Born, OneObject

\* The rest of create.
LEMMA BornCreate ==
    ASSUME Inv, OneObject, Born, NEW p \in Procs, Create(p)
    PROVE  Inv'
<1>1. /\ TypeOK /\ LocalInv /\ Placed(p)
      /\ Objs = {1} /\ MaxObjs = 1 /\ hdr[1] \in Headers
      /\ bound \in {0, 1} /\ nobj = 1 /\ handle[p] \in {0, 1}
      /\ NoLocals \in Locals /\ NoLocals.o = 0 /\ ~NoLocals.attach /\ ~NoLocals.dead
      /\ pc[p] \notin Making /\ hdr[1].rc = Cardinality(Refs) /\ hdr[1].state # "Init"
  BY BornFacts
<1>2. CASE CreateFail(p)
  <2>1. /\ Moves(p) /\ SharedOK' /\ nobj' = nobj /\ bound' = 0 /\ reg' = reg /\ alive' = alive /\ slow' = slow
        /\ hdr' = hdr /\ pc[p] = "c_handle" /\ p \in alive
        /\ pc'[p] = "idle" /\ loc'[p] = NoLocals /\ handle'[p] = handle[p] /\ own'[p] = own[p]
    BY <1>1, <1>2 DEF CreateFail, Leave, Goto, Moves, SharedOK, TypeOK, LocalInv, Labels, Using, Making
  <2>2. Placed(p)'
    BY <1>1, <2>1 DEF Placed, Using, Making
  <2>3. TypeOK' /\ LocalInv' /\ Others(p)
    BY <2>1, <2>2, PlacedStep
  <2>4. ~reg.on /\ handle'[p] = 0 /\ \A q \in Procs \ {p} :
            handle[q] = 0 /\ ~loc[q].attach /\ pc[q] \in {"idle", "unregister"}
    BY <2>1 DEF Born, HandleInv
  <2>5. \A q \in Procs : handle'[q] = 0 /\ ~loc'[q].attach /\ pc'[q] \in {"idle", "unregister"}
    BY <1>1, <2>1, <2>3, <2>4 DEF Others
  <2>6. Unborn'
    BY <1>1, <2>1, <2>4, <2>5 DEF Unborn, Making
  <2> QED BY <2>3, <2>6 DEF Inv
<1>3. CASE CreateHandle(p)
  <2>1. pc[p] = "c_handle" /\ p \in alive /\ loc[p].o = 1 /\ p \notin Readers
    BY <1>1, <1>3 DEF CreateHandle, At, Placed, Using
  <2>2. /\ hdr' = [hdr EXCEPT ![1].stale = FALSE] /\ hdr'[1] = [hdr[1] EXCEPT !.stale = FALSE]
        /\ [hdr[1] EXCEPT !.stale = FALSE] \in Headers
    BY <1>1, <1>3, <2>1 DEF CreateHandle, TypeOK, Headers
  <2>3. /\ Moves(p) /\ SharedOK' /\ nobj' = nobj /\ reg' = reg /\ alive' = alive /\ slow' = slow
        /\ pc'[p] = "c_register" /\ loc'[p] = NoLocals /\ handle'[p] = 1 /\ own'[p] = TRUE
    BY <1>1, <1>3, <2>1, <2>2 DEF CreateHandle, TakeHandle, Leave, Goto, Moves, SharedOK, TypeOK, LocalInv, Labels, Using, Making
  <2>4. hdr'[1].owner = hdr[1].owner /\ hdr'[1].rc = hdr[1].rc /\ hdr'[1].state = hdr[1].state /\ ~hdr'[1].stale
    BY <1>1, <2>2 DEF Headers
  <2>5. hdr[1].owner = p /\ hdr[1].state = "Active" /\ \A q \in Procs \ {p} : pc[q] \in {"idle", "unregister"}
    BY <2>1 DEF Born, HandleInv
  <2>6. Placed(p)'
    BY <1>1, <2>1, <2>3, <2>4, <2>5 DEF Placed, Using, Making
  <2>7. TypeOK' /\ LocalInv' /\ Others(p)
    BY <2>3, <2>4, <2>6, PlacedStep
  <2>8. \A q \in Procs : pc'[q] \in {"idle", "unregister", "c_register"}
    BY <2>3, <2>5, <2>7 DEF Others
  <2>9. Cardinality(Refs)' = Cardinality(Refs)
    <3>1. Ref(p) /\ Ref(p)'
      BY <2>1, <2>3 DEF Ref, Counted
    <3> QED BY <2>7, <3>1, RefsStep DEF Others
  <2>10. HandleInv' /\ OwnerInv' /\ BeatInv'
    BY <2>4, <2>5, <2>8 DEF HandleInv, OwnerInv, BeatInv
  <2>11. Born'
    BY <1>1, <2>3, <2>4, <2>8, <2>9, <2>10 DEF Born, Making
  <2> QED BY <2>7, <2>11 DEF Inv
<1>4. CASE CreateRegister(p)
  <2>1. /\ Moves(p) /\ SharedOK' /\ nobj' = nobj /\ alive' = alive /\ slow' = slow
        /\ hdr' = hdr /\ pc[p] = "c_register" /\ p \in alive
        /\ pc'[p] = "idle" /\ loc'[p] = loc[p] /\ handle'[p] = handle[p] /\ own'[p] = own[p]
    BY <1>1, <1>4 DEF CreateRegister, FreshEntry, At, Goto, local, Moves, SharedOK, TypeOK, LocalInv, Labels, Using, Making
  <2>2. Placed(p)'
    BY <1>1, <2>1 DEF Placed, Using, Making
  <2>3. Ref(p)' <=> Ref(p)
    BY <2>1 DEF Ref, Counted
  <2> QED BY <2>1, <2>2, <2>3, Alone, BornLocal DEF Making
<1>5. CASE CreateRefused(p)
  <2>1. /\ Moves(p) /\ SharedOK' /\ nobj' = nobj /\ alive' = alive /\ slow' = slow
        /\ hdr' = hdr /\ pc[p] = "c_register" /\ p \in alive
        /\ pc'[p] = "r_sub" /\ loc'[p] = loc[p] /\ handle'[p] = handle[p] /\ own'[p] = own[p]
    BY <1>1, <1>5 DEF CreateRefused, At, Goto, local, Moves, SharedOK, TypeOK, LocalInv, Labels, Using, Making
  <2>2. Placed(p)'
    BY <1>1, <2>1 DEF Placed, Using, Making
  <2>3. Ref(p)' <=> Ref(p)
    BY <2>1 DEF Ref, Counted
  <2> QED BY <2>1, <2>2, <2>3, Alone, BornLocal DEF Making
<1>6. ~CreateOpen(p) /\ ~CreateMagic(p) /\ ~CreateOwner(p) /\ ~CreateRef(p) /\ ~CreateActive(p)
  BY <1>1 DEF CreateOpen, CreateMagic, CreateOwner, CreateRef, CreateActive, At, Making
<1> QED BY <1>2, <1>3, <1>4, <1>5, <1>6 DEF Create

\* Reading the registry to sweep.
LEMMA SweepStep ==
    ASSUME Inv, OneObject, Born, NEW p \in Procs, NEW a \in BOOLEAN, reg.on, Sweep(p, a)
    PROVE  /\ pc' = [pc EXCEPT ![p] = "g_open"] /\ loc' = [loc EXCEPT ![p] = loc'[p]]
           /\ loc'[p] \in Locals /\ loc'[p].attach = a
<1>1. TypeOK /\ NoLocals \in Locals
  BY BornFacts
<1>2. PICK late \in SUBSET Objs : loc' = [loc EXCEPT ![p] = [NoLocals EXCEPT !.old = reg.old, !.attach = a, !.late = late]]
  BY DEF Sweep
<1>3. [NoLocals EXCEPT !.old = reg.old, !.attach = a, !.late = late] \in Locals
  BY <1>1 DEF TypeOK, Locals
<1>4. [NoLocals EXCEPT !.old = reg.old, !.attach = a, !.late = late].attach = a
  BY DEF NoLocals
<1>5. loc'[p] = [NoLocals EXCEPT !.old = reg.old, !.attach = a, !.late = late]
  BY <1>1, <1>2 DEF TypeOK
<1>6. pc' = [pc EXCEPT ![p] = "g_open"]
  BY DEF Sweep, Goto
<1> QED BY <1>2, <1>3, <1>4, <1>5, <1>6

LEMMA BornStart ==
    ASSUME Inv, OneObject, Born, NEW p \in Procs, Start(p)
    PROVE  Inv'
<1>1. /\ TypeOK /\ LocalInv /\ Placed(p)
      /\ Objs = {1} /\ MaxObjs = 1 /\ ~EarlyAttach /\ hdr[1] \in Headers
      /\ bound \in {0, 1} /\ nobj = 1 /\ handle[p] \in {0, 1}
      /\ NoLocals \in Locals /\ NoLocals.o = 0 /\ ~NoLocals.attach /\ ~NoLocals.dead
      /\ pc[p] \notin Making
  BY BornFacts
<1>2. CASE BeginAttach(p)
  <2>1. reg.on /\ pc[p] = "idle" /\ p \in alive /\ handle[p] = 0
    BY <1>1, <1>2 DEF BeginAttach, At
  <2>2. pc' = [pc EXCEPT ![p] = "g_open"] /\ loc' = [loc EXCEPT ![p] = loc'[p]] /\ loc'[p] \in Locals
    BY <1>2, <2>1, SweepStep DEF BeginAttach
  <2>3. /\ Moves(p) /\ SharedOK' /\ nobj' = nobj /\ alive' = alive /\ slow' = slow /\ hdr' = hdr
        /\ pc'[p] = "g_open" /\ handle'[p] = handle[p] /\ own'[p] = own[p]
    BY <1>1, <1>2, <2>2 DEF BeginAttach, shared, Moves, SharedOK, TypeOK, LocalInv, Labels, Using, Making
  <2>4. Placed(p)'
    BY <1>1, <2>1, <2>3 DEF Placed, Using, Making
  <2>5. Ref(p)' <=> Ref(p)
    BY <2>1, <2>3 DEF Ref, Counted
  <2> QED BY <2>1, <2>3, <2>4, <2>5, Alone, BornLocal DEF Making
<1>3. CASE BeginReset(p)
  <2>1. /\ Moves(p) /\ SharedOK' /\ nobj' = nobj /\ alive' = alive /\ slow' = slow
        /\ hdr' = hdr /\ pc[p] = "idle" /\ p \in alive /\ handle[p] = 1
        /\ pc'[p] = "r_sub" /\ loc'[p] = loc[p] /\ handle'[p] = handle[p] /\ own'[p] = own[p]
    BY <1>1, <1>3 DEF BeginReset, shared, local, At, Goto, Moves, SharedOK, TypeOK, LocalInv, Labels, Using, Making
  <2>2. Placed(p)'
    BY <1>1, <2>1 DEF Placed, Using, Making
  <2>3. Ref(p)' <=> Ref(p)
    BY <2>1 DEF Ref, Counted
  <2> QED BY <2>1, <2>2, <2>3, Alone, BornLocal DEF Making
<1>4. CASE DestroyUnlink(p)
  <2>1. /\ Moves(p) /\ SharedOK' /\ nobj' = nobj /\ reg' = reg /\ alive' = alive /\ slow' = slow
        /\ hdr' = hdr /\ pc[p] = "idle" /\ p \in alive
        /\ pc'[p] = "unregister" /\ loc'[p] = NoLocals /\ handle'[p] = handle[p] /\ own'[p] = own[p]
    BY <1>1, <1>4 DEF DestroyUnlink, At, Leave, Goto, Moves, SharedOK, TypeOK, LocalInv, Labels, Using, Making
  <2>2. Placed(p)'
    BY <1>1, <2>1 DEF Placed, Using, Making
  <2>3. Ref(p)' <=> Ref(p)
    BY <2>1 DEF Ref, Counted
  <2>4. \/ \A q \in Procs \ {p} : pc[q] # "c_handle"
        \/ pc'[p] \in {"idle", "unregister"} /\ ~loc'[p].attach /\ ~reg'.on /\ handle'[p] = 0
    BY <1>1, <2>1 DEF Born, HandleInv
  <2> QED BY <2>1, <2>2, <2>3, <2>4, BornLocal DEF Making
<1>5. CASE BeginGc(p)
  <2>1. reg.on /\ pc[p] = "idle" /\ p \in alive
    BY <1>1, <1>5 DEF BeginGc, At
  <2>2. pc' = [pc EXCEPT ![p] = "g_open"] /\ loc' = [loc EXCEPT ![p] = loc'[p]] /\ loc'[p] \in Locals /\ ~loc'[p].attach
    BY <1>5, <2>1, SweepStep DEF BeginGc
  <2>3. /\ Moves(p) /\ SharedOK' /\ nobj' = nobj /\ alive' = alive /\ slow' = slow /\ hdr' = hdr
        /\ pc'[p] = "g_open" /\ handle'[p] = handle[p] /\ own'[p] = own[p]
    BY <1>1, <1>5, <2>2 DEF BeginGc, shared, Moves, SharedOK, TypeOK, LocalInv, Labels, Using, Making
  <2>4. Placed(p)'
    BY <1>1, <2>1, <2>2, <2>3 DEF Placed, Using, Making
  <2>5. Ref(p)' <=> Ref(p)
    BY <2>1, <2>3 DEF Ref, Counted
  <2> QED BY <2>1, <2>3, <2>4, <2>5, Alone, BornLocal DEF Making
<1> QED BY <1>2, <1>3, <1>4, <1>5 DEF Start

LEMMA BornAttach ==
    ASSUME Inv, OneObject, Born, NEW p \in Procs, Attach(p)
    PROVE  Inv'
<1>1. /\ TypeOK /\ LocalInv /\ Placed(p)
      /\ Objs = {1} /\ MaxObjs = 1 /\ hdr[1] \in Headers
      /\ bound \in {0, 1} /\ nobj = 1 /\ handle[p] \in {0, 1}
      /\ NoLocals \in Locals /\ NoLocals.o = 0 /\ ~NoLocals.attach /\ ~NoLocals.dead
      /\ pc[p] \notin Making /\ hdr[1].rc = Cardinality(Refs) /\ hdr[1].state # "Init"
  BY BornFacts
<1>2. pc[p] \in {"a_open", "a_state", "a_bump", "a_check", "a_undo"} /\ p \in alive /\ handle[p] = 0 /\ ~own[p]
  <2>1. pc[p] \in {"a_open", "a_state", "a_bump", "a_check", "a_undo"} /\ p \in alive
    BY DEF Attach, AttachOpen, AttachState, AttachBump, AttachCheck, AttachUndo, At
  <2> QED BY <1>1, <2>1 DEF Placed
<1>3. \A q \in Procs \ {p} : pc[q] # "c_handle"
  BY <1>2, Alone
<1>4. CASE AttachOpen(p)
  <2>1. /\ SharedOK' /\ nobj' = nobj /\ alive' = alive /\ slow' = slow
        /\ hdr' = hdr /\ pc[p] = "a_open"
        /\ handle' = handle /\ own' = own
    BY <1>1, <1>4 DEF AttachOpen, At, shared, SharedOK, TypeOK
  <2>2. CASE bound # 0 /\ hdr[bound].valid
    <3>1. pc' = [pc EXCEPT ![p] = "a_state"] /\ loc' = [loc EXCEPT ![p].o = 1]
      BY <1>1, <1>4, <2>2 DEF AttachOpen, Goto
    <3>2. loc'[p] \in Locals /\ loc'[p].o = 1 /\ loc'[p].attach = loc[p].attach
      BY <1>1, <3>1 DEF TypeOK, Locals
    <3>3. Moves(p) /\ pc'[p] = "a_state" /\ handle'[p] = handle[p] /\ own'[p] = own[p]
      BY <1>1, <2>1, <3>1, <3>2 DEF Moves, TypeOK, LocalInv, Labels, Using
    <3>4. Placed(p)'
      BY <1>1, <1>2, <2>1, <3>2, <3>3 DEF Placed, Using, Making
    <3>5. Ref(p)' <=> Ref(p)
      BY <2>1, <3>3 DEF Ref, Counted
    <3> QED BY <1>3, <2>1, <3>3, <3>4, <3>5, BornLocal DEF Making
  <2>3. CASE ~(bound # 0 /\ hdr[bound].valid)
    <3>1. Moves(p) /\ pc'[p] = "idle" /\ loc'[p] = loc[p] /\ handle'[p] = handle[p] /\ own'[p] = own[p]
      BY <1>1, <1>4, <2>1, <2>3 DEF AttachOpen, Goto, Moves, TypeOK, LocalInv, Labels, Using
    <3>2. Placed(p)'
      BY <1>1, <1>2, <2>1, <3>1 DEF Placed, Using, Making
    <3>3. Ref(p)' <=> Ref(p)
      BY <2>1, <3>1 DEF Ref, Counted
    <3> QED BY <1>3, <2>1, <3>1, <3>2, <3>3, BornLocal DEF Making
  <2> QED BY <2>2, <2>3
<1>5. CASE AttachState(p)
  <2>1. /\ SharedOK' /\ nobj' = nobj /\ alive' = alive /\ slow' = slow
        /\ hdr' = hdr /\ pc[p] = "a_state" /\ loc[p].o = 1
    BY <1>1, <1>5 DEF AttachState, At, shared, SharedOK, TypeOK, Placed, Using
  <2>2. /\ Moves(p) /\ ~own'[p]
        /\ \/ pc'[p] = "idle" /\ loc'[p] = NoLocals /\ (handle'[p] = handle[p] \/ p \in Readers)
           \/ pc'[p] = "a_bump" /\ loc'[p] = loc[p] /\ handle'[p] = handle[p] /\ p \notin Readers
    <3>1. CASE hdr[loc[p].o].state = "Dead"
      BY <1>1, <1>2, <1>5, <2>1, <3>1 DEF AttachState, Leave, Goto, Moves, TypeOK, LocalInv, Labels, Using
    <3>2. CASE hdr[loc[p].o].state # "Dead" /\ p \in Readers
      BY <1>1, <1>5, <2>1, <3>2 DEF AttachState, TakeHandle, Leave, Goto, Moves, TypeOK, LocalInv, Labels, Using
    <3>3. CASE hdr[loc[p].o].state # "Dead" /\ p \notin Readers
      BY <1>1, <1>2, <1>5, <2>1, <3>3 DEF AttachState, Goto, local, Moves, TypeOK, LocalInv, Labels, Using
    <3> QED BY <3>1, <3>2, <3>3
  <2>3. Placed(p)'
    BY <1>1, <1>2, <2>1, <2>2 DEF Placed, Using, Making
  <2>4. Ref(p)' <=> Ref(p)
    BY <2>1, <2>2 DEF Ref, Counted
  <2> QED BY <1>3, <2>1, <2>2, <2>3, <2>4, BornLocal DEF Making
<1>6. CASE AttachBump(p)
  <2>1. pc[p] = "a_bump" /\ loc[p].o = 1 /\ p \notin Readers
    BY <1>1, <1>6 DEF AttachBump, At, Placed, Using
  <2>2. /\ pc' = [pc EXCEPT ![p] = "a_check"] /\ loc' = loc /\ handle' = handle /\ own' = own
        /\ hdr' = [hdr EXCEPT ![1].rc = @ + 1]
        /\ SharedOK' /\ nobj' = nobj /\ alive' = alive /\ slow' = slow
    BY <1>1, <1>6, <2>1 DEF AttachBump, local, Goto, SharedOK, TypeOK
  <2>3. Cardinality(Refs)' = Cardinality(Refs) + 1 /\ Cardinality(Refs)' \in 0 .. Cardinality(Procs)
    <3>1. ~Ref(p) /\ Ref(p)'
      BY <1>1, <1>2, <2>1, <2>2 DEF Ref, Counted, LocalInv
    <3>2. \A q \in Procs \ {p} : pc'[q] = pc[q] /\ handle'[q] = handle[q]
      BY <1>1, <2>2 DEF LocalInv
    <3> QED BY <3>1, <3>2, RefsStep
  <2>4. /\ hdr'[1] \in Headers /\ hdr'[1].rc = Cardinality(Refs)' /\ hdr'[1].owner = hdr[1].owner
        /\ hdr'[1].state = hdr[1].state /\ hdr'[1].stale = hdr[1].stale
    <3>1. PICK n : n = Cardinality(Refs)'
      OBVIOUS
    <3>2. n \in 0 .. Cardinality(Procs) /\ n = hdr[1].rc + 1
      BY <1>1, <2>3, <3>1
    <3>3. hdr'[1] = [hdr[1] EXCEPT !.rc = n]
      BY <1>1, <2>2, <3>2 DEF TypeOK
    <3> QED BY <1>1, <3>1, <3>2, <3>3 DEF Headers
  <2>5. Moves(p) /\ pc'[p] = "a_check" /\ loc'[p] = loc[p] /\ handle'[p] = handle[p] /\ own'[p] = own[p]
    BY <1>1, <2>2, <2>4 DEF Moves, TypeOK, LocalInv, Labels, Using
  <2>6. Placed(p)'
    BY <1>1, <1>2, <2>1, <2>2, <2>4, <2>5 DEF Placed, Using, Making
  <2>7. TypeOK' /\ LocalInv' /\ Others(p)
    BY <2>2, <2>4, <2>5, <2>6, PlacedStep
  <2>8. Born'
    BY <1>1, <1>2, <1>3, <2>2, <2>4, <2>5, <2>7, BornMove DEF Making, Born, OwnerInv, Held, Seen, BeatInv
  <2> QED BY <2>7, <2>8 DEF Inv
<1>7. CASE AttachCheck(p)
  <2>1. /\ SharedOK' /\ nobj' = nobj /\ alive' = alive /\ slow' = slow
        /\ hdr' = hdr /\ pc[p] = "a_check" /\ loc[p].o = 1 /\ p \notin Readers
    BY <1>1, <1>7 DEF AttachCheck, At, shared, SharedOK, TypeOK, Placed, Using
  <2>2. /\ Moves(p) /\ ~own'[p]
        /\ \/ pc'[p] = "idle" /\ loc'[p] = NoLocals /\ handle'[p] = 1
           \/ pc'[p] = "a_undo" /\ loc'[p] = loc[p] /\ handle'[p] = handle[p]
    <3>1. CASE hdr[loc[p].o].state = "Dead"
      BY <1>1, <1>2, <1>7, <2>1, <3>1 DEF AttachCheck, Goto, local, Moves, TypeOK, LocalInv, Labels, Using
    <3>2. CASE hdr[loc[p].o].state # "Dead"
      BY <1>1, <1>7, <2>1, <3>2 DEF AttachCheck, TakeHandle, Leave, Goto, Moves, TypeOK, LocalInv, Labels, Using
    <3> QED BY <3>1, <3>2
  <2>3. Placed(p)'
    BY <1>1, <1>2, <2>1, <2>2 DEF Placed, Using, Making
  <2>4. Ref(p)' <=> Ref(p)
    BY <2>1, <2>2 DEF Ref, Counted
  <2> QED BY <1>3, <2>1, <2>2, <2>3, <2>4, BornLocal DEF Making
<1>8. CASE AttachUndo(p)
  <2>1. pc[p] = "a_undo" /\ loc[p].o = 1 /\ p \notin Readers
    BY <1>1, <1>8 DEF AttachUndo, At, Placed, Using
  <2>2. /\ pc' = [pc EXCEPT ![p] = "idle"] /\ loc' = [loc EXCEPT ![p] = NoLocals] /\ handle' = handle /\ own' = own
        /\ hdr' = [hdr EXCEPT ![1].rc = @ - 1]
        /\ SharedOK' /\ nobj' = nobj /\ alive' = alive /\ slow' = slow
    BY <1>1, <1>8, <2>1 DEF AttachUndo, Leave, Goto, SharedOK, TypeOK
  <2>3. Cardinality(Refs)' = Cardinality(Refs) - 1 /\ Cardinality(Refs)' \in 0 .. Cardinality(Procs)
    <3>1. Ref(p) /\ ~Ref(p)'
      BY <1>1, <1>2, <2>1, <2>2 DEF Ref, Counted, LocalInv
    <3>2. \A q \in Procs \ {p} : pc'[q] = pc[q] /\ handle'[q] = handle[q]
      BY <1>1, <2>2 DEF LocalInv
    <3> QED BY <3>1, <3>2, RefsStep
  <2>4. /\ hdr'[1] \in Headers /\ hdr'[1].rc = Cardinality(Refs)' /\ hdr'[1].owner = hdr[1].owner
        /\ hdr'[1].state = hdr[1].state /\ hdr'[1].stale = hdr[1].stale
    <3>1. PICK n : n = Cardinality(Refs)'
      OBVIOUS
    <3>2. n \in 0 .. Cardinality(Procs) /\ n = hdr[1].rc - 1
      BY <1>1, <2>3, <3>1
    <3>3. hdr'[1] = [hdr[1] EXCEPT !.rc = n]
      BY <1>1, <2>2, <3>2 DEF TypeOK
    <3> QED BY <1>1, <3>1, <3>2, <3>3 DEF Headers
  <2>5. Moves(p) /\ pc'[p] = "idle" /\ loc'[p] = NoLocals /\ handle'[p] = handle[p] /\ own'[p] = own[p]
    BY <1>1, <2>2, <2>4 DEF Moves, TypeOK, LocalInv, Labels, Using
  <2>6. Placed(p)'
    BY <1>1, <1>2, <2>1, <2>2, <2>4, <2>5 DEF Placed, Using, Making
  <2>7. TypeOK' /\ LocalInv' /\ Others(p)
    BY <2>2, <2>4, <2>5, <2>6, PlacedStep
  <2>8. Born'
    BY <1>1, <1>2, <1>3, <2>2, <2>4, <2>5, <2>7, BornMove DEF Making, Born, OwnerInv, Held, Seen, BeatInv
  <2> QED BY <2>7, <2>8 DEF Inv
<1> QED BY <1>4, <1>5, <1>6, <1>7, <1>8 DEF Attach

\* The end of a sweep, or of an unregistration.
LEMMA SweepEnd ==
    ASSUME Inv, OneObject, Born, NEW p \in Procs, p \in alive, SweepDone(p),
           pc[p] \in {"unregister", "g_state", "g_lock", "g_touch", "g_maps", "g_kin"},
           reg' \in [on : BOOLEAN, old : BOOLEAN], pc[p] = "unregister" => ~reg'.on,
           bound' = bound, nobj' = nobj, hdr' = hdr, handle' = handle, own' = own,
           alive' = alive, slow' = slow
    PROVE  Inv'
<1>1. /\ TypeOK /\ LocalInv /\ Placed(p) /\ Objs = {1} /\ nobj = 1
      /\ NoLocals \in Locals /\ NoLocals.o = 0 /\ ~NoLocals.attach /\ ~NoLocals.dead
  BY BornFacts
<1>2. /\ pc' = [pc EXCEPT ![p] = pc'[p]] /\ pc'[p] = IF loc[p].attach THEN "a_open" ELSE "idle"
      /\ loc' = [loc EXCEPT ![p] = NoLocals] /\ loc'[p] = NoLocals
  BY <1>1 DEF SweepDone, Leave, Goto, TypeOK, LocalInv
<1>3. Moves(p) /\ pc'[p] \in {"a_open", "idle"}
  BY <1>1, <1>2 DEF Moves, TypeOK, Labels
<1>4. SharedOK'
  BY <1>1 DEF SharedOK, SweepDone, TypeOK
<1>5. Placed(p)'
  BY <1>1, <1>2, <1>3 DEF Placed, Using, Making
<1>6. Ref(p)' <=> Ref(p)
  BY <1>3 DEF Ref, Counted
<1>7. \/ \A q \in Procs \ {p} : pc[q] # "c_handle"
      \/ pc'[p] \in {"idle", "unregister"} /\ ~loc'[p].attach /\ ~reg'.on /\ handle'[p] = 0
  BY <1>1, <1>2 DEF Born, HandleInv
<1> QED BY <1>1, <1>2, <1>3, <1>4, <1>5, <1>6, <1>7, BornLocal DEF Making

LEMMA BornRelease ==
    ASSUME Inv, OneObject, Born, NEW p \in Procs, Release(p)
    PROVE  Inv'
<1>1. /\ TypeOK /\ LocalInv /\ Placed(p)
      /\ Objs = {1} /\ MaxObjs = 1 /\ hdr[1] \in Headers
      /\ bound \in {0, 1} /\ nobj = 1 /\ handle[p] \in {0, 1}
      /\ NoLocals \in Locals /\ NoLocals.o = 0 /\ ~NoLocals.attach /\ ~NoLocals.dead
      /\ pc[p] \notin Making /\ hdr[1].rc = Cardinality(Refs) /\ hdr[1].state # "Init"
  BY BornFacts
<1>2. CASE ResetSub(p)
  <2>1. pc[p] = "r_sub" /\ p \in alive /\ handle[p] = 1 /\ (own[p] => p \notin Readers /\ hdr[1].owner = p)
    BY <1>1, <1>2 DEF ResetSub, At, Placed
  <2>2. /\ handle' = [handle EXCEPT ![p] = 0] /\ own' = [own EXCEPT ![p] = FALSE]
        /\ SharedOK' /\ nobj' = nobj /\ alive' = alive /\ slow' = slow
    BY <1>1, <1>2 DEF ResetSub, SharedOK, TypeOK
  <2>3. /\ pc' = [pc EXCEPT ![p] = pc'[p]] /\ loc' = [loc EXCEPT ![p] = loc'[p]]
        /\ loc'[p] \in Locals /\ (loc'[p].attach => loc[p].attach)
        /\ \/ pc'[p] = "r_state" /\ own[p] /\ loc'[p].o = 1
           \/ pc'[p] = "idle"
    <3>1. CASE own[p] /\ hdr[handle[p]].rc = 1
      <4>1. pc' = [pc EXCEPT ![p] = "r_state"] /\ loc' = [loc EXCEPT ![p].o = 1]
        BY <1>2, <2>1, <3>1 DEF ResetSub, Goto
      <4>2. loc'[p] = [loc[p] EXCEPT !.o = 1] /\ loc[p] \in Locals /\ 1 \in 0 .. MaxObjs
        BY <1>1, <4>1 DEF TypeOK
      <4>3. loc'[p] \in Locals /\ loc'[p].o = 1 /\ loc'[p].attach = loc[p].attach
        BY <4>2 DEF Locals
      <4> QED BY <1>1, <3>1, <4>1, <4>2, <4>3 DEF LocalInv
    <3>2. CASE ~(own[p] /\ hdr[handle[p]].rc = 1)
      <4>1. pc' = [pc EXCEPT ![p] = "idle"] /\ loc' = [loc EXCEPT ![p] = NoLocals]
        BY <1>2, <3>2 DEF ResetSub, Leave, Goto
      <4> QED BY <1>1, <4>1 DEF LocalInv, TypeOK
    <3> QED BY <3>1, <3>2
  <2>4. \A q \in Procs \ {p} : pc[q] # "c_handle"
    BY <2>1, Alone
  <2>5. handle'[p] = 0 /\ ~own'[p] /\ pc'[p] \in {"idle", "r_state"} /\ (pc'[p] = "r_state" => own[p])
    BY <1>1, <2>2, <2>3 DEF TypeOK
  <2>6. \A q \in Procs \ {p} : pc'[q] = pc[q] /\ handle'[q] = handle[q]
    BY <1>1, <2>2, <2>3 DEF LocalInv, TypeOK
  <2>7. CASE p \in Readers
    <3>1. hdr' = hdr
      BY <1>2, <2>7 DEF ResetSub
    <3>2. Moves(p)
      BY <1>1, <2>2, <2>3, <3>1 DEF Moves, TypeOK, LocalInv, Labels, Using
    <3>3. Placed(p)'
      BY <1>1, <2>1, <2>2, <2>3, <2>5, <3>1 DEF Placed, Using, Making
    <3>4. Ref(p)' <=> Ref(p)
      BY <2>1, <2>5, <2>7 DEF Ref, Counted
    <3> QED BY <2>2, <2>4, <2>5, <3>1, <3>2, <3>3, <3>4, BornLocal DEF Making
  <2>8. CASE p \notin Readers
    <3>1. hdr' = [hdr EXCEPT ![1].rc = @ - 1]
      BY <1>2, <2>1, <2>8 DEF ResetSub
    <3>2. Cardinality(Refs)' = Cardinality(Refs) - 1 /\ Cardinality(Refs)' \in 0 .. Cardinality(Procs)
      <4>1. Ref(p) /\ ~Ref(p)'
        BY <2>1, <2>5, <2>8 DEF Ref, Counted
      <4> QED BY <2>6, <4>1, RefsStep
    <3>3. /\ hdr'[1] \in Headers /\ hdr'[1].rc = Cardinality(Refs)' /\ hdr'[1].owner = hdr[1].owner
          /\ hdr'[1].state = hdr[1].state /\ hdr'[1].stale = hdr[1].stale
      <4>1. PICK n : n = Cardinality(Refs)'
        OBVIOUS
      <4>2. n \in 0 .. Cardinality(Procs) /\ n = hdr[1].rc - 1
        BY <1>1, <3>2, <4>1
      <4>3. hdr'[1] = [hdr[1] EXCEPT !.rc = n]
        BY <1>1, <3>1, <4>2 DEF TypeOK
      <4> QED BY <1>1, <4>1, <4>2, <4>3 DEF Headers
    <3>4. Moves(p)
      BY <1>1, <2>2, <2>3, <3>1, <3>3 DEF Moves, TypeOK, LocalInv, Labels, Using
    <3>5. Placed(p)'
      BY <1>1, <2>1, <2>2, <2>3, <2>5, <3>3 DEF Placed, Using, Making
    <3>6. TypeOK' /\ LocalInv' /\ Others(p)
      BY <2>2, <3>3, <3>4, <3>5, PlacedStep
    <3>7. (\E q \in alive' : own'[q]) => \E q \in alive : own[q]
      <4>1. alive \subseteq Procs
        BY <1>1 DEF TypeOK
      <4> QED BY <2>2, <2>5, <3>6, <4>1 DEF Others
    <3>8. Born'
      BY <1>1, <2>2, <2>4, <2>5, <3>3, <3>6, <3>7, BornMove DEF Making, Born, OwnerInv, Held, Seen, BeatInv
    <3> QED BY <3>6, <3>8 DEF Inv
  <2> QED BY <2>7, <2>8
<1>3. CASE ResetState(p)
  <2>1. /\ SharedOK' /\ nobj' = nobj /\ alive' = alive /\ slow' = slow
        /\ hdr' = hdr /\ pc[p] = "r_state" /\ p \in alive /\ loc[p].o = 1
    BY <1>1, <1>3 DEF ResetState, At, shared, SharedOK, TypeOK, Placed, Using
  <2>2. /\ Moves(p) /\ own'[p] = own[p] /\ handle'[p] = handle[p]
        /\ \/ pc'[p] = "idle" /\ loc'[p] = NoLocals
           \/ pc'[p] = "r_dead" /\ loc'[p] = loc[p]
    BY <1>1, <1>3, <2>1 DEF ResetState, Leave, Goto, local, Moves, TypeOK, LocalInv, Labels, Using
  <2>3. Placed(p)'
    BY <1>1, <2>1, <2>2 DEF Placed, Using, Making
  <2>4. Ref(p)' <=> Ref(p)
    BY <2>1, <2>2 DEF Ref, Counted
  <2> QED BY <2>1, <2>2, <2>3, <2>4, Alone, BornLocal DEF Making
<1>4. CASE ResetDead(p)
  <2>1. pc[p] = "r_dead" /\ p \in alive /\ loc[p].o = 1 /\ hdr[1].owner = p /\ ~own[p]
    BY <1>1, <1>4 DEF ResetDead, At, Placed, Using
  <2>2. /\ hdr' = [hdr EXCEPT ![1].state = "Dead"] /\ hdr'[1] = [hdr[1] EXCEPT !.state = "Dead"]
        /\ [hdr[1] EXCEPT !.state = "Dead"] \in Headers
    BY <1>1, <1>4, <2>1 DEF ResetDead, TypeOK, Headers
  <2>3. /\ Moves(p) /\ SharedOK' /\ nobj' = nobj /\ alive' = alive /\ slow' = slow
        /\ pc'[p] = "unlink" /\ loc'[p] = loc[p] /\ handle'[p] = handle[p] /\ own'[p] = own[p]
    BY <1>1, <1>4, <2>1, <2>2 DEF ResetDead, local, Goto, Moves, SharedOK, TypeOK, LocalInv, Labels, Using, Making
  <2>4. hdr'[1].owner = hdr[1].owner /\ hdr'[1].rc = hdr[1].rc /\ hdr'[1].state = "Dead"
    BY <1>1, <2>2 DEF Headers
  <2>5. Placed(p)'
    BY <1>1, <2>1, <2>3, <2>4 DEF Placed, Using, Making
  <2>6. TypeOK' /\ LocalInv' /\ Others(p)
    BY <2>3, <2>4, <2>5, PlacedStep
  <2>7. \A q \in Procs : ~own'[q]
    BY <1>1, <2>1, <2>3, <2>6 DEF LocalInv, Placed, Others
  <2>8. Cardinality(Refs)' = Cardinality(Refs)
    <3>1. Ref(p) <=> Ref(p)'
      BY <2>1, <2>3 DEF Ref, Counted
    <3> QED BY <2>6, <3>1, RefsStep DEF Others
  <2>9. ~\E q \in alive' : own'[q]
    BY <2>6, <2>7 DEF TypeOK
  <2>10. \A q \in Procs \ {p} : pc[q] # "c_handle"
    BY <2>1, Alone
  <2>11. Born'
    BY <1>1, <2>1, <2>3, <2>4, <2>6, <2>7, <2>8, <2>9, <2>10, BornMove DEF Making, Held, Seen
  <2> QED BY <2>6, <2>11 DEF Inv
<1>5. CASE Unlink(p)
  <2>1. /\ Moves(p) /\ SharedOK' /\ nobj' = nobj /\ alive' = alive /\ slow' = slow
        /\ hdr' = hdr /\ pc[p] = "unlink" /\ p \in alive
        /\ pc'[p] = "unregister" /\ loc'[p] = loc[p] /\ handle'[p] = handle[p] /\ own'[p] = own[p]
    BY <1>1, <1>5 DEF Unlink, local, At, Goto, Moves, SharedOK, TypeOK, LocalInv, Labels, Using, Making
  <2>2. Placed(p)'
    BY <1>1, <2>1 DEF Placed, Using, Making
  <2>3. Ref(p)' <=> Ref(p)
    BY <2>1 DEF Ref, Counted
  <2> QED BY <2>1, <2>2, <2>3, Alone, BornLocal DEF Making
<1>6. CASE Unregister(p)
  <2>1. /\ p \in alive /\ pc[p] = "unregister" /\ SweepDone(p) /\ reg' \in [on : BOOLEAN, old : BOOLEAN] /\ ~reg'.on
        /\ bound' = bound /\ nobj' = nobj /\ hdr' = hdr /\ handle' = handle /\ own' = own
        /\ alive' = alive /\ slow' = slow
    BY <1>6 DEF Unregister, At, NoEntry
  <2> QED BY <2>1, SweepEnd
<1> QED BY <1>2, <1>3, <1>4, <1>5, <1>6 DEF Release

LEMMA BornGc ==
    ASSUME Inv, OneObject, Born, NEW p \in Procs, Gc(p)
    PROVE  Inv'
<1>1. /\ TypeOK /\ LocalInv /\ Placed(p)
      /\ Objs = {1} /\ MaxObjs = 1 /\ hdr[1] \in Headers
      /\ bound \in {0, 1} /\ nobj = 1 /\ handle[p] \in {0, 1}
      /\ NoLocals \in Locals /\ NoLocals.o = 0 /\ ~NoLocals.attach /\ ~NoLocals.dead
      /\ hdr[1].rc = Cardinality(Refs) /\ hdr[1].state # "Init"
  BY BornFacts
<1>2. /\ pc[p] \in {"g_open", "g_owner", "g_rc", "g_state", "g_lock", "g_dead", "g_drain", "g_touch", "g_maps", "g_kin"}
      /\ p \in alive
  BY DEF Gc, GcOpen, GcOwner, GcRc, GcState, GcRecheck, GcDead, GcDrain, GcTouch, GcMaps, GcMapsKin, GcKin, At
<1>3. \A q \in Procs \ {p} : pc[q] # "c_handle"
  BY <1>2, Alone
<1>4. loc[p] \in Locals /\ 1 \in 0 .. MaxObjs /\ alive \subseteq Procs
  BY <1>1 DEF TypeOK
<1>5. Beating(1) => hdr[1].owner \in alive /\ hdr[1].owner \in Procs /\ own[hdr[1].owner]
  BY <1>4 DEF Beating
\* Another place of the sweep, with locals l.
<1>6. ASSUME NEW label \in {"unregister", "g_owner", "g_rc", "g_state", "g_lock", "g_dead", "g_drain", "g_maps", "g_kin",
                            "unlink"},
             pc' = [pc EXCEPT ![p] = label],
             loc' = [loc EXCEPT ![p] = loc'[p]], loc'[p] \in Locals, loc'[p].attach => loc[p].attach,
             label # "unregister" => loc'[p].o = 1,
             label = "g_rc" /\ loc'[p].dead => owner_is_dead(p, 1),
             label = "g_state" => pc[p] = "g_rc" /\ loc'[p].dead = loc[p].dead,
             label = "g_drain" => pc[p] = "g_state" /\ loc[p].dead,
             label = "g_dead" => ~Held, label = "unlink" => ~Seen,
             mlock' \in [Objs -> Procs \cup {None}],
             UNCHANGED <<bound, nobj, hdr, reg, handle, own, alive, slow>>
      PROVE  Inv'
  <2>1. Moves(p) /\ pc'[p] = label /\ handle'[p] = handle[p] /\ own'[p] = own[p]
    BY <1>1, <1>6 DEF Moves, TypeOK, LocalInv, Labels, Using
  <2>2. SharedOK'
    BY <1>1, <1>6 DEF SharedOK, TypeOK
  <2>3. Placed(p)'
    BY <1>1, <1>2, <1>6, <2>1 DEF Placed, Using, Making
  <2>4. Ref(p)' <=> Ref(p)
    BY <1>2, <2>1 DEF Ref, Counted
  <2>5. ASSUME Beating(1), 1 \notin slow
        PROVE  label # "g_drain" /\ (label \in {"g_rc", "g_state"} => ~loc'[p].dead)
    <3>1. ~hdr[1].stale /\ (pc[p] \in {"g_rc", "g_state"} => ~loc[p].dead)
      BY <2>5 DEF Born, BeatInv
    <3>2. ~owner_is_dead(p, 1)
      BY <1>5, <2>5, <3>1, SegmentAssumption DEF owner_is_dead
    <3> QED BY <1>6, <3>1, <3>2
  <2> QED BY <1>2, <1>3, <1>6, <2>1, <2>2, <2>3, <2>4, <2>5, BornLocal DEF Making
<1>7. CASE GcOpen(p)
  <2>1. mlock' = mlock /\ UNCHANGED <<bound, nobj, hdr, reg, handle, own, alive, slow>> /\ mlock \in [Objs -> Procs \cup {None}]
    BY <1>1, <1>7 DEF GcOpen, shared, TypeOK
  <2>2. CASE bound # 0 /\ hdr[bound].valid
    <3>1. pc' = [pc EXCEPT ![p] = "g_owner"] /\ loc' = [loc EXCEPT ![p].o = 1]
      BY <1>1, <1>7, <2>2 DEF GcOpen, Goto
    <3>2. loc'[p] = [loc[p] EXCEPT !.o = 1]
      BY <1>1, <3>1 DEF TypeOK
    <3>3. loc'[p] \in Locals /\ loc'[p].o = 1 /\ loc'[p].attach = loc[p].attach
      BY <1>4, <3>2 DEF Locals
    <3>4. loc' = [loc EXCEPT ![p] = loc'[p]]
      BY <1>1, <3>1 DEF TypeOK
    <3> QED BY <1>6, <2>1, <3>1, <3>3, <3>4
  <2>3. CASE ~(bound # 0 /\ hdr[bound].valid)
    <3>1. pc' = [pc EXCEPT ![p] = "unregister"] /\ loc' = [loc EXCEPT ![p] = loc'[p]] /\ loc'[p] = loc[p]
      BY <1>1, <1>7, <2>3 DEF GcOpen, Goto, TypeOK
    <3> QED BY <1>4, <1>6, <2>1, <3>1
  <2> QED BY <2>2, <2>3
<1>8. CASE GcOwner(p)
  <2>1. /\ mlock' = mlock /\ UNCHANGED <<bound, nobj, hdr, reg, handle, own, alive, slow>> /\ mlock \in [Objs -> Procs \cup {None}]
        /\ pc' = [pc EXCEPT ![p] = "g_rc"] /\ loc[p].o = 1
        /\ loc' = [loc EXCEPT ![p].dead = owner_is_dead(p, 1)]
    BY <1>1, <1>8 DEF GcOwner, At, Goto, shared, TypeOK, Placed, Using
  <2>2. PICK d \in BOOLEAN : d <=> owner_is_dead(p, 1)
    OBVIOUS
  <2>3. owner_is_dead(p, 1) \in BOOLEAN
    BY DEF owner_is_dead
  <2>4. owner_is_dead(p, 1) = d
    BY <2>2, <2>3
  <2>5. loc'[p] = [loc[p] EXCEPT !.dead = d] /\ loc' = [loc EXCEPT ![p] = loc'[p]]
    BY <1>1, <2>1, <2>4 DEF TypeOK
  <2>6. loc'[p] \in Locals /\ loc'[p].attach = loc[p].attach /\ loc'[p].o = 1 /\ loc'[p].dead = d
    BY <1>4, <2>1, <2>5 DEF Locals
  <2> QED BY <1>6, <2>1, <2>2, <2>5, <2>6
<1>9. CASE GcRc(p)
  <2>1. /\ mlock' = mlock /\ UNCHANGED <<bound, nobj, hdr, reg, handle, own, alive, slow>> /\ mlock \in [Objs -> Procs \cup {None}]
        /\ pc' = [pc EXCEPT ![p] = "g_state"] /\ loc[p].o = 1 /\ pc[p] = "g_rc"
        /\ loc' = [loc EXCEPT ![p].rc = hdr[1].rc]
    BY <1>1, <1>9 DEF GcRc, At, Goto, shared, TypeOK, Placed, Using
  <2>2. hdr[1].rc \in Nat
    <3>1. Cardinality(Procs) \in Nat
      BY SegmentAssumption, FS_CardinalityType
    <3> QED BY <1>1, <3>1 DEF Headers
  <2>3. loc'[p] = [loc[p] EXCEPT !.rc = hdr[1].rc] /\ loc' = [loc EXCEPT ![p] = loc'[p]]
    BY <1>1, <2>1 DEF TypeOK
  <2>4. loc'[p] \in Locals /\ loc'[p].attach = loc[p].attach /\ loc'[p].o = 1 /\ loc'[p].dead = loc[p].dead
    BY <1>4, <2>1, <2>2, <2>3 DEF Locals
  <2> QED BY <1>6, <2>1, <2>3, <2>4
<1>10. CASE GcState(p)
  <2>1. /\ UNCHANGED <<bound, nobj, hdr, reg, handle, own, alive, slow>>
        /\ loc[p].o = 1 /\ pc[p] = "g_state"
    BY <1>1, <1>10 DEF GcState, At, Placed, Using
  <2>2. mlock \in [Objs -> Procs \cup {None}] /\ reg \in [on : BOOLEAN, old : BOOLEAN]
    BY <1>1 DEF TypeOK
  <2>3. ASSUME NEW label \in {"g_lock", "g_drain", "g_maps"}, NEW late \in SUBSET Objs, label = "g_drain" => loc[p].dead,
               pc' = [pc EXCEPT ![p] = label], mlock' = mlock,
               loc' = [loc EXCEPT ![p] = [NoLocals EXCEPT !.o = 1, !.attach = loc[p].attach, !.late = late]]
        PROVE  Inv'
    <3>1. loc'[p] = [NoLocals EXCEPT !.o = 1, !.attach = loc[p].attach, !.late = late] /\ loc' = [loc EXCEPT ![p] = loc'[p]]
      BY <1>1, <2>3 DEF TypeOK
    <3>2. [NoLocals EXCEPT !.o = 1, !.attach = loc[p].attach, !.late = late] \in Locals
      BY <1>1, <1>4, <2>3 DEF Locals
    <3>3. loc'[p].o = 1 /\ loc'[p].attach = loc[p].attach
      BY <3>1 DEF NoLocals
    <3> QED BY <1>6, <2>1, <2>2, <2>3, <3>1, <3>2, <3>3
  <2>4. loc[p].late \in SUBSET Objs
    BY <1>4 DEF Locals
  <2>5. CASE loc[p].dead /\ loc[p].rc = 0
    <3>1. /\ pc' = [pc EXCEPT ![p] = "g_lock"] /\ mlock' = mlock
          /\ loc' = [loc EXCEPT ![p] = [NoLocals EXCEPT !.o = 1, !.attach = loc[p].attach, !.late = loc[p].late]]
      BY <1>10, <2>1, <2>5 DEF GcState, Goto
    <3> QED BY <2>3, <2>4, <3>1
  <2>6. CASE ~(loc[p].dead /\ loc[p].rc = 0) /\ loc[p].dead /\ hdr[1].state = "Active"
    <3>1. PICK none \in SUBSET Objs : none = {}
      OBVIOUS
    <3>2. /\ pc' = [pc EXCEPT ![p] = "g_drain"] /\ mlock' = mlock
          /\ loc' = [loc EXCEPT ![p] = [NoLocals EXCEPT !.o = 1, !.attach = loc[p].attach, !.late = none]]
      BY <1>10, <2>1, <2>6, <3>1 DEF GcState, Goto
    <3> QED BY <2>3, <2>6, <3>2
  <2>7. CASE ~(loc[p].dead /\ loc[p].rc = 0) /\ ~(loc[p].dead /\ hdr[1].state = "Active") /\ hdr[1].state = "Draining" /\ loc[p].old
    <3>1. PICK none \in SUBSET Objs : none = {}
      OBVIOUS
    <3>2. /\ pc' = [pc EXCEPT ![p] = "g_maps"] /\ mlock' = mlock
          /\ loc' = [loc EXCEPT ![p] = [NoLocals EXCEPT !.o = 1, !.attach = loc[p].attach, !.late = none]]
      BY <1>10, <2>1, <2>7, <3>1 DEF GcState, Goto
    <3> QED BY <2>3, <3>2
  <2>8. CASE ~(loc[p].dead /\ loc[p].rc = 0) /\ ~(loc[p].dead /\ hdr[1].state = "Active") /\ ~(hdr[1].state = "Draining" /\ loc[p].old)
    <3>1. SweepDone(p)
      BY <1>10, <2>1, <2>8 DEF GcState
    <3> QED BY <1>2, <2>1, <2>2, <3>1, SweepEnd
  <2> QED BY <2>5, <2>6, <2>7, <2>8
<1>11. CASE GcRecheck(p)
  <2>1. /\ UNCHANGED <<bound, nobj, hdr, reg, handle, own, alive, slow>>
        /\ loc[p].o = 1 /\ pc[p] = "g_lock"
    BY <1>1, <1>11 DEF GcRecheck, At, Placed, Using
  <2>2. mlock \in [Objs -> Procs \cup {None}] /\ reg \in [on : BOOLEAN, old : BOOLEAN]
    BY <1>1 DEF TypeOK
  <2>3. CASE hdr[1].rc = 0 /\ owner_is_dead(p, 1)
    <3>1. pc' = [pc EXCEPT ![p] = "g_dead"] /\ mlock' = [mlock EXCEPT ![1] = p] /\ loc' = loc
      BY <1>11, <2>1, <2>3 DEF GcRecheck, Goto
    <3>2. \A q \in alive : ~own[q]
      <4> SUFFICES ASSUME NEW q \in alive, own[q] PROVE FALSE
        OBVIOUS
      <4>1. q \in Procs /\ Ref(q)
        BY <1>1, <1>4 DEF LocalInv, Placed, Ref
      <4> QED BY <1>1, <2>3, <4>1, RefCounts
    <3>3. mlock' \in [Objs -> Procs \cup {None}]
      BY <2>2, <3>1
    <3>4. loc'[p] = loc[p] /\ loc' = [loc EXCEPT ![p] = loc'[p]]
      BY <1>1, <3>1 DEF TypeOK
    <3> QED BY <1>4, <1>6, <2>1, <3>1, <3>2, <3>3, <3>4 DEF Held
  <2>4. CASE ~(hdr[1].rc = 0 /\ owner_is_dead(p, 1))
    <3>1. SweepDone(p)
      BY <1>11, <2>1, <2>4 DEF GcRecheck
    <3> QED BY <1>2, <2>1, <2>2, <3>1, SweepEnd
  <2> QED BY <2>3, <2>4
<1>12. CASE GcDead(p)
  <2>1. pc[p] = "g_dead" /\ loc[p].o = 1
    BY <1>1, <1>12 DEF GcDead, At, Placed, Using
  <2>2. /\ hdr' = [hdr EXCEPT ![1].state = "Dead"] /\ hdr'[1] = [hdr[1] EXCEPT !.state = "Dead"]
        /\ [hdr[1] EXCEPT !.state = "Dead"] \in Headers
    BY <1>1, <1>12, <2>1 DEF GcDead, TypeOK, Headers
  <2>3. /\ Moves(p) /\ SharedOK' /\ nobj' = nobj /\ alive' = alive /\ slow' = slow
        /\ pc'[p] = "unlink" /\ loc'[p] = loc[p] /\ handle'[p] = handle[p] /\ own'[p] = own[p]
    BY <1>1, <1>12, <2>1, <2>2 DEF GcDead, local, Goto, Moves, SharedOK, TypeOK, LocalInv, Labels, Using, Making
  <2>4. hdr'[1].owner = hdr[1].owner /\ hdr'[1].rc = hdr[1].rc /\ hdr'[1].state = "Dead"
    BY <1>1, <2>2 DEF Headers
  <2>5. Placed(p)'
    BY <1>1, <1>2, <2>1, <2>3, <2>4 DEF Placed, Using, Making
  <2>6. TypeOK' /\ LocalInv' /\ Others(p)
    BY <2>3, <2>4, <2>5, PlacedStep
  <2>7. \A q \in alive : ~own[q]
    BY <2>1 DEF Born, OwnerInv, Held, Seen
  <2>8. Cardinality(Refs)' = Cardinality(Refs)
    <3>1. Ref(p) <=> Ref(p)'
      BY <2>1, <2>3 DEF Ref, Counted
    <3> QED BY <2>6, <3>1, RefsStep DEF Others
  <2>9. ~\E q \in alive' : own'[q]
    BY <1>4, <2>3, <2>6, <2>7 DEF Others
  <2>10. ~Beating(1)
    BY <1>5, <2>7
  <2>11. Born'
    BY <1>1, <1>3, <2>1, <2>3, <2>4, <2>6, <2>7, <2>8, <2>9, <2>10, BornMove DEF Making, Held, Seen
  <2> QED BY <2>6, <2>11 DEF Inv
<1>13. CASE GcDrain(p)
  <2>1. pc[p] = "g_drain" /\ loc[p].o = 1
    BY <1>1, <1>13 DEF GcDrain, At, Placed, Using
  <2>2. PICK s \in {hdr[1].state, "Draining"} :
            /\ hdr' = [hdr EXCEPT ![1].state = s] /\ hdr'[1] = [hdr[1] EXCEPT !.state = s]
            /\ [hdr[1] EXCEPT !.state = s] \in Headers
    <3>1. PICK s \in {hdr[1].state, "Draining"} : hdr' = [hdr EXCEPT ![1].state = s]
      BY <1>13, <2>1 DEF GcDrain
    <3> QED BY <1>1, <3>1 DEF TypeOK, Headers
  <2>3. /\ Moves(p) /\ SharedOK' /\ nobj' = nobj /\ alive' = alive /\ slow' = slow
        /\ pc'[p] = "g_touch" /\ loc'[p] = loc[p] /\ handle'[p] = handle[p] /\ own'[p] = own[p]
    BY <1>1, <1>13, <2>1, <2>2 DEF GcDrain, local, Goto, Moves, SharedOK, TypeOK, LocalInv, Labels, Using, Making
  <2>4. hdr'[1].owner = hdr[1].owner /\ hdr'[1].rc = hdr[1].rc /\ hdr'[1].state = s /\ hdr'[1].stale = hdr[1].stale
    BY <1>1, <2>2 DEF Headers
  <2>5. Placed(p)'
    BY <1>1, <1>2, <2>1, <2>3, <2>4 DEF Placed, Using, Making
  <2>6. TypeOK' /\ LocalInv' /\ Others(p)
    BY <2>3, <2>4, <2>5, PlacedStep
  <2>7. Cardinality(Refs)' = Cardinality(Refs)
    <3>1. Ref(p) <=> Ref(p)'
      BY <2>1, <2>3 DEF Ref, Counted
    <3> QED BY <2>6, <3>1, RefsStep DEF Others
  <2>8. (\E q \in alive' : own'[q]) => \E q \in alive : own[q]
    BY <1>4, <2>3, <2>6 DEF Others
  <2>9. (\E q \in alive' : own'[q]) => hdr'[1].state # "Dead"
    BY <2>4, <2>8 DEF Born, OwnerInv, Held, Seen
  <2>10. ~(Beating(1) /\ 1 \notin slow)
    BY <2>1 DEF Born, BeatInv
  <2>11. Born'
    BY <1>1, <1>3, <2>1, <2>3, <2>4, <2>6, <2>7, <2>9, <2>10, BornMove DEF Making, Held, Seen
  <2> QED BY <2>6, <2>11 DEF Inv
<1>14. CASE GcTouch(p)
  <2>1. /\ pc[p] = "g_touch" /\ SweepDone(p) /\ reg' \in [on : BOOLEAN, old : BOOLEAN]
        /\ bound' = bound /\ nobj' = nobj /\ hdr' = hdr /\ handle' = handle /\ own' = own
        /\ alive' = alive /\ slow' = slow
    BY <1>14 DEF GcTouch, At, FreshEntry
  <2> QED BY <1>2, <2>1, SweepEnd
<1>15. CASE GcMaps(p)
  <2>1. /\ UNCHANGED <<bound, nobj, hdr, reg, handle, own, alive, slow>>
        /\ loc[p].o = 1 /\ pc[p] = "g_maps"
    BY <1>1, <1>15 DEF GcMaps, At, Placed, Using
  <2>2. mlock \in [Objs -> Procs \cup {None}] /\ reg \in [on : BOOLEAN, old : BOOLEAN]
    BY <1>1 DEF TypeOK
  <2>3. CASE any_process_maps_segment(p)
    <3>1. SweepDone(p)
      BY <1>15, <2>3 DEF GcMaps
    <3> QED BY <1>2, <2>1, <2>2, <3>1, SweepEnd
  <2>4. CASE ~any_process_maps_segment(p)
    <3>1. pc' = [pc EXCEPT ![p] = "unlink"] /\ mlock' = mlock /\ loc' = [loc EXCEPT ![p].unmapped = TRUE]
      BY <1>15, <2>4 DEF GcMaps, Goto
    <3>2. ~Seen
      <4> SUFFICES ASSUME NEW q \in alive \ Opaque, own[q] PROVE FALSE
        BY DEF Seen
      <4>1. q \in Procs \ (Opaque \ {p}) /\ handle[q] = 1
        BY <1>1, <1>4 DEF LocalInv, Placed
      <4> QED BY <2>4, <4>1 DEF any_process_maps_segment, Mapping
    <3>3. loc'[p] = [loc[p] EXCEPT !.unmapped = TRUE] /\ loc' = [loc EXCEPT ![p] = loc'[p]]
      BY <1>1, <3>1 DEF TypeOK
    <3>4. loc'[p] \in Locals /\ loc'[p].attach = loc[p].attach /\ loc'[p].o = 1
      BY <1>4, <2>1, <3>3 DEF Locals
    <3> QED BY <1>6, <2>1, <2>2, <3>1, <3>2, <3>3, <3>4
  <2> QED BY <2>3, <2>4
<1>16. CASE GcMapsKin(p)
  <2>1. UNCHANGED <<bound, nobj, hdr, reg, handle, own, alive, slow, mlock, loc>> /\ pc' = [pc EXCEPT ![p] = "g_kin"]
    BY <1>16 DEF GcMapsKin, Goto, shared, local
  <2>2. mlock' \in [Objs -> Procs \cup {None}] /\ loc' = [loc EXCEPT ![p] = loc'[p]] /\ loc'[p] = loc[p] /\ loc[p].o = 1
    BY <1>1, <1>16, <2>1 DEF TypeOK, GcMapsKin, At, Placed, Using
  <2> QED BY <1>4, <1>6, <2>1, <2>2
<1>17. CASE GcKin(p)
  <2>1. /\ pc[p] = "g_kin" /\ SweepDone(p) /\ UNCHANGED <<bound, nobj, hdr, reg, handle, own, alive, slow>>
    BY <1>17 DEF GcKin, At
  <2>2. reg' \in [on : BOOLEAN, old : BOOLEAN]
    BY <1>1, <2>1 DEF TypeOK
  <2> QED BY <1>2, <2>1, <2>2, SweepEnd
<1> QED BY <1>7, <1>8, <1>9, <1>10, <1>11, <1>12, <1>13, <1>14, <1>15, <1>16, <1>17 DEF Gc

\* A death: the reference stays counted, the ownership ends.
LEMMA BornCrash ==
    ASSUME Inv, OneObject, Born, NEW p \in Procs, Crash(p)
    PROVE  Inv'
<1>1. /\ TypeOK /\ LocalInv /\ Placed(p)
      /\ Objs = {1} /\ MaxObjs = 1 /\ hdr[1] \in Headers
      /\ bound \in {0, 1} /\ nobj = 1 /\ handle[p] \in {0, 1}
      /\ NoLocals \in Locals /\ NoLocals.o = 0 /\ ~NoLocals.attach /\ ~NoLocals.dead
      /\ pc[p] \notin Making /\ hdr[1].rc = Cardinality(Refs) /\ hdr[1].state # "Init"
  BY BornFacts
<1>2. /\ SharedOK' /\ nobj' = nobj /\ reg' = reg /\ alive' = alive \ {p} /\ slow' = slow /\ hdr' = hdr /\ own' = own
      /\ pc' = [pc EXCEPT ![p] = "idle"] /\ loc' = [loc EXCEPT ![p] = NoLocals] /\ p \in alive
  BY <1>1 DEF Crash, Leave, Goto, SharedOK, TypeOK
<1>3. /\ handle' = [handle EXCEPT ![p] = handle'[p]] /\ handle'[p] \in {0, 1}
      /\ IF Counted(p) THEN handle'[p] = 1 /\ p \notin Readers ELSE handle'[p] = handle[p]
  <2>1. CASE Counted(p)
    <3>1. loc[p].o = 1 /\ p \notin Readers
      BY <1>1, <2>1 DEF Counted, Placed, Using
    <3>2. handle' = [handle EXCEPT ![p] = 1]
      BY <2>1, <3>1 DEF Crash
    <3> QED BY <1>1, <2>1, <3>1, <3>2 DEF TypeOK
  <2>2. CASE ~Counted(p)
    <3>1. handle' = handle
      BY <2>2 DEF Crash
    <3> QED BY <1>1, <2>2, <3>1 DEF TypeOK
  <2> QED BY <2>1, <2>2
<1>4. Moves(p) /\ pc'[p] = "idle" /\ loc'[p] = NoLocals /\ own'[p] = own[p]
  BY <1>1, <1>2, <1>3 DEF Moves, TypeOK, LocalInv, Labels, Using
<1>5. Placed(p)'
  <2>1. own[p] => p \notin Readers /\ hdr[1].owner = p /\ handle[p] = 1 /\ ~Counted(p)
    BY <1>1 DEF Placed, Counted
  <2> QED BY <1>1, <1>2, <1>3, <1>4, <2>1 DEF Placed, Using, Making
<1>6. TypeOK' /\ LocalInv' /\ Others(p)
  BY <1>2, <1>4, <1>5, PlacedStep
<1>7. Cardinality(Refs)' = Cardinality(Refs)
  <2>1. Ref(p)' <=> Ref(p)
    <3>1. ~Counted(p)'
      BY <1>4 DEF Counted
    <3> QED BY <1>3, <3>1 DEF Ref
  <2> QED BY <1>6, <2>1, RefsStep DEF Others
<1>8. \/ \A q \in Procs \ {p} : pc[q] # "c_handle"
      \/ pc'[p] \in {"idle", "unregister"} /\ ~loc'[p].attach /\ ~reg'.on /\ handle'[p] = 0 /\ hdr'[1] = hdr[1]
  <2> SUFFICES ASSUME NEW q \in Procs \ {p}, pc[q] = "c_handle"
               PROVE  ~reg'.on /\ handle'[p] = 0
    BY <1>1, <1>2, <1>4
  <2>1. ~reg.on /\ handle[p] = 0 /\ pc[p] \in {"idle", "unregister"}
    BY DEF Born, HandleInv
  <2> QED BY <1>2, <1>3, <2>1 DEF Counted
<1>9. (Held' => hdr'[1].state # "Dead" /\ pc'[p] # "g_dead") /\ (Seen' => pc'[p] # "unlink")
  BY <1>2, <1>4 DEF Born, OwnerInv, Held, Seen
<1>10. BeatInv
  BY DEF Born
<1>11. Born'
  BY <1>1, <1>2, <1>4, <1>6, <1>7, <1>8, <1>9, <1>10, BornMove DEF Making, BeatInv
<1> QED BY <1>6, <1>11 DEF Inv

\* Time: a heartbeat gets stale, stalls or ticks, an entry gets old.
LEMMA TimeStep ==
    ASSUME Inv, OneObject, GetStale(1) \/ Stall(1) \/ Tick(1) \/ GetOld
    PROVE  Inv' /\ hdr'[1].state = hdr[1].state
<1>1. TypeOK /\ LocalInv /\ Objs = {1} /\ MaxObjs = 1 /\ hdr[1] \in Headers
  BY OneFacts DEF Inv
<1>2. /\ bound' = bound /\ nobj' = nobj /\ mlock' = mlock /\ pc' = pc /\ loc' = loc /\ handle' = handle /\ own' = own
      /\ alive' = alive /\ slow' \in SUBSET Objs /\ reg' \in [on : BOOLEAN, old : BOOLEAN] /\ reg'.on = reg.on
  <2>1. CASE GetStale(1) \/ Stall(1) \/ Tick(1)
    BY <1>1, <2>1 DEF GetStale, Stall, Tick, local, TypeOK
  <2>2. CASE GetOld
    BY <1>1, <2>2 DEF GetOld, local, TypeOK
  <2> QED BY <2>1, <2>2
<1>3. /\ hdr' = [hdr EXCEPT ![1] = hdr'[1]] /\ hdr'[1] \in Headers
      /\ hdr'[1].owner = hdr[1].owner /\ hdr'[1].rc = hdr[1].rc /\ hdr'[1].state = hdr[1].state
  <2>1. CASE GetOld
    BY <1>1, <2>1 DEF GetOld, TypeOK
  <2>2. CASE GetStale(1) \/ Stall(1) \/ Tick(1)
    <3>1. PICK b \in BOOLEAN : hdr' = [hdr EXCEPT ![1].stale = b]
      BY <2>2 DEF GetStale, Stall, Tick
    <3>2. hdr' = [hdr EXCEPT ![1] = hdr'[1]] /\ hdr'[1] = [hdr[1] EXCEPT !.stale = b]
      BY <1>1, <3>1 DEF TypeOK
    <3> QED BY <1>1, <3>2 DEF Headers
  <2> QED BY <2>1, <2>2
<1>4. TypeOK'
  BY <1>1, <1>2, <1>3 DEF TypeOK
<1>5. LocalInv'
  BY <1>1, <1>2, <1>3 DEF LocalInv, Placed
<1>6. ASSUME Unborn PROVE Unborn'
  BY <1>2, <1>3, <1>6 DEF Unborn
<1>7. ASSUME Born PROVE Born'
  <2>1. Refs' = Refs
    BY <1>2 DEF Refs, Ref, Counted
  <2>2. HandleInv'
    BY <1>2, <1>3, <1>7 DEF Born, HandleInv
  <2>3. OwnerInv'
    BY <1>2, <1>3, <1>7 DEF Born, OwnerInv, Held, Seen
  <2>4. BeatInv'
    <3>1. Beating(1)' <=> Beating(1)
      BY <1>2, <1>3 DEF Beating
    <3>2. CASE GetStale(1)
      BY <3>1, <3>2 DEF GetStale, BeatInv
    <3>3. CASE Stall(1)
      BY <3>3 DEF Stall, BeatInv
    <3>4. CASE Tick(1)
      <4>1. ~hdr'[1].stale /\ slow' = slow
        BY <1>1, <3>4 DEF Tick, TypeOK, Headers
      <4> QED BY <1>2, <1>3, <1>7, <3>1, <4>1 DEF Born, BeatInv
    <3>5. CASE GetOld
      BY <1>2, <1>3, <1>7, <3>1, <3>5 DEF GetOld, Born, BeatInv
    <3> QED BY <3>2, <3>3, <3>4, <3>5
  <2> QED BY <1>2, <1>3, <1>7, <2>1, <2>2, <2>3, <2>4 DEF Born
<1> QED BY <1>3, <1>4, <1>5, <1>6, <1>7 DEF Inv

LEMMA StutterStep ==
    ASSUME Inv, UNCHANGED vars
    PROVE  Inv'
<1>1. /\ bound' = bound /\ nobj' = nobj /\ hdr' = hdr /\ mlock' = mlock /\ reg' = reg /\ pc' = pc
      /\ loc' = loc /\ handle' = handle /\ own' = own /\ alive' = alive /\ slow' = slow
  BY DEF vars, shared, local
<1>2. TypeOK' /\ LocalInv'
  BY <1>1 DEF Inv, TypeOK, LocalInv, Placed
<1>3. Unborn => Unborn'
  BY <1>1 DEF Unborn
<1>4. Born => Born'
  <2>1. Refs' = Refs
    BY <1>1 DEF Refs, Ref, Counted
  <2>2. HandleInv => HandleInv'
    BY <1>1 DEF HandleInv
  <2>3. OwnerInv => OwnerInv'
    BY <1>1 DEF OwnerInv, Held, Seen
  <2>4. BeatInv => BeatInv'
    BY <1>1 DEF BeatInv, Beating
  <2> QED BY <1>1, <2>1, <2>2, <2>3, <2>4 DEF Born
<1> QED BY <1>2, <1>3, <1>4 DEF Inv

LEMMA NextInv == OneObject /\ Inv /\ [Next]_vars => Inv'
<1> SUFFICES ASSUME OneObject, Inv, [Next]_vars PROVE Inv'
  OBVIOUS
<1>1. ASSUME NEW p \in Procs, Start(p) \/ Step(p) \/ Crash(p) PROVE Inv'
  <2>1. CASE Unborn
    BY <1>1, <2>1, UnbornStep
  <2>2. CASE Born
    BY <1>1, <2>2, BornStart, BornCreate, BornAttach, BornRelease, BornGc, BornCrash DEF Step
  <2> QED BY <2>1, <2>2 DEF Inv
<1>2. ASSUME NEW o \in Objs, GetStale(o) \/ Stall(o) \/ Tick(o) PROVE Inv'
  <2>1. o = 1
    BY DEF OneObject, Objs
  <2> QED BY <1>2, <2>1, TimeStep
<1> QED BY <1>1, <1>2, TimeStep, StutterStep DEF Next

-----------------------------------------------------------------------------
(* Theorems *)

LEMMA Invariance ==
    ASSUME OneObject
    PROVE  Spec => []Inv
<1>1. Init => Inv
  BY InitInv
<1>2. Inv /\ [Next]_vars => Inv'
  BY NextInv
<1> QED BY <1>1, <1>2, PTL DEF Spec

\* Types hold of create, attach, reset, destroy and the janitor; above all no
\* fetch_sub of ref_count is one too many.
THEOREM TypeCorrect ==
    ASSUME OneObject
    PROVE  Spec => []TypeOK
<1>1. Inv => TypeOK
  BY DEF Inv
<1> QED BY <1>1, Invariance, PTL

\* ref_count is the number of read-write handles, those of dead processes
\* included, and of creates and attaches that have counted: no interleaving
\* of fetch_add, fetch_sub, the undo of a refused attach and a death loses one.
THEOREM ReferencesExact ==
    ASSUME OneObject
    PROVE  Spec => []RefCountExact
<1>1. Inv => RefCountExact
  <2> SUFFICES ASSUME Inv, hdr[1].state # "Init", 1 = bound \/ \E p \in Procs : handle[p] = 1
               PROVE  hdr[1].rc = Cardinality({p \in Procs \ Readers : handle[p] = 1})
                                  + Cardinality({p \in Procs : Counted(p) /\ loc[p].o = 1})
    <3>1. Objs = {1}
      BY DEF OneObject, Objs
    <3> QED BY <3>1 DEF RefCountExact
  <2>1. Born
    BY DEF Inv, Unborn
  <2>2. PICK A : A = {p \in Procs \ Readers : handle[p] = 1}
    OBVIOUS
  <2>3. PICK B : B = {p \in Procs : Counted(p) /\ loc[p].o = 1}
    OBVIOUS
  <2>4. \A p \in Procs : Counted(p) => loc[p].o = 1 /\ handle[p] = 0
    BY DEF Inv, LocalInv, Placed, Counted, Using
  <2>5. Refs = A \cup B /\ A \cap B = {}
    BY <2>2, <2>3, <2>4 DEF Refs, Ref
  <2>6. A \in SUBSET Procs /\ B \in SUBSET Procs
    BY <2>2, <2>3
  <2>7. Cardinality(Refs) = Cardinality(A) + Cardinality(B)
    <3>1. IsFiniteSet(A) /\ IsFiniteSet(B) /\ Cardinality(A) \in Nat /\ Cardinality(B) \in Nat
      BY <2>6, ProcsCount, FS_CardinalityType
    <3>2. Cardinality(A \cup B) = Cardinality(A) + Cardinality(B) - Cardinality(A \cap B)
      BY <3>1, FS_Union
    <3>3. Cardinality(A \cap B) = 0
      BY <2>5, FS_EmptySet
    <3> QED BY <2>5, <3>1, <3>2, <3>3
  <2> QED BY <2>1, <2>2, <2>3, <2>7 DEF Born
<1> QED BY <1>1, Invariance, PTL

\* No janitor, however old what it has read, drains or removes a segment
\* whose owner's heartbeat has never been late.
THEOREM LiveOwnersKept ==
    ASSUME OneObject
    PROVE  Spec => []LiveOwnerKept
<1>1. Inv => LiveOwnerKept
  <2> SUFFICES ASSUME Inv, Beating(1), 1 \notin slow PROVE hdr[1].state = "Active"
    <3>1. Objs = {1}
      BY DEF OneObject, Objs
    <3> QED BY <3>1 DEF LiveOwnerKept
  <2>1. hdr[1].owner \in Procs /\ handle[hdr[1].owner] = 1
    BY DEF Beating, Inv, TypeOK
  <2>2. Born
    BY <2>1 DEF Inv, Unborn
  <2> QED BY <2>2 DEF Born, BeatInv
<1> QED BY <1>1, Invariance, PTL

\* An owner that stalls may find its segment draining, never dead, while it
\* holds its handle, nor about to be unlinked by a janitor that may read its
\* maps file.
THEOREM OwnersKept ==
    ASSUME OneObject
    PROVE  Spec => []OwnerKept
<1>1. Inv => OwnerKept
  <2> SUFFICES ASSUME Inv, NEW p \in alive, own[p], handle[p] # 0
               PROVE  /\ hdr[handle[p]].state # "Dead"
                      /\ p \notin Opaque => \A q \in Procs : pc[q] = "unlink" => loc[q].o # handle[p]
    BY DEF OwnerKept
  <2>1. p \in Procs /\ handle[p] = 1
    BY DEF Inv, TypeOK, LocalInv, Placed
  <2>2. Born
    BY <2>1 DEF Inv, Unborn
  <2> QED BY <2>1, <2>2 DEF Born, OwnerInv, Held, Seen
<1> QED BY <1>1, Invariance, PTL

LEMMA Ranks == Rank("Init") = 1 /\ Rank("Active") = 2 /\ Rank("Draining") = 3 /\ Rank("Dead") = 4
<1>1. ASSUME NEW s, \E i \in DOMAIN States : States[i] = s
      PROVE  Rank(s) \in DOMAIN States /\ States[Rank(s)] = s
  BY <1>1, Zenon DEF Rank
<1>2. /\ DOMAIN States = 1 .. 4 /\ States[1] = "Init" /\ States[2] = "Active"
      /\ States[3] = "Draining" /\ States[4] = "Dead"
  BY DEF States
<1>3. \A i \in 1 .. 4 : i = 1 \/ i = 2 \/ i = 3 \/ i = 4
  OBVIOUS
<1>4. \A i \in DOMAIN States : /\ States[i] = "Init" => i = 1
                               /\ States[i] = "Active" => i = 2
                               /\ States[i] = "Draining" => i = 3
                               /\ States[i] = "Dead" => i = 4
  BY <1>2, <1>3
<1>5. 1 \in DOMAIN States /\ 2 \in DOMAIN States /\ 3 \in DOMAIN States /\ 4 \in DOMAIN States
  BY <1>2
<1> HIDE DEF Rank
<1> QED BY <1>1, <1>2, <1>4, <1>5

\* What a step does to the state of the header.
LEMMA StateStep ==
    ASSUME Inv, OneObject, Next
    PROVE  \/ hdr'[1].state = hdr[1].state
           \/ hdr[1].state = "Init" /\ hdr'[1].state = "Active"
           \/ hdr[1].state = "Active" /\ hdr'[1].state = "Draining"
           \/ hdr'[1].state = "Dead"
<1>1. TypeOK /\ LocalInv /\ Objs = {1} /\ hdr[1] \in Headers
  BY OneFacts DEF Inv
<1>2. CASE (\E o \in Objs : GetStale(o) \/ Stall(o) \/ Tick(o)) \/ GetOld
  BY <1>1, <1>2, TimeStep
<1>3. ASSUME NEW p \in Procs, Start(p) \/ Step(p) \/ Crash(p)
      PROVE  \/ hdr'[1].state = hdr[1].state
             \/ hdr[1].state = "Init" /\ hdr'[1].state = "Active"
             \/ hdr[1].state = "Active" /\ hdr'[1].state = "Draining"
             \/ hdr'[1].state = "Dead"
  <2>1. Placed(p) /\ (pc[p] \in Using => loc[p].o = 1)
    BY <1>1 DEF LocalInv, Placed
  <2>2. CASE Start(p) \/ Crash(p)
    BY <2>2 DEF Start, BeginAttach, BeginReset, DestroyUnlink, BeginGc, Crash, shared
  <2>3. CASE CreateActive(p)
    <3>1. pc[p] = "c_active" /\ loc[p].o = 1
      BY <2>1, <2>3 DEF CreateActive, At, Using, Making
    <3>2. hdr[1].state = "Init"
      BY <3>1 DEF Inv, Unborn, Born, Making
    <3>3. hdr'[1] = [hdr[1] EXCEPT !.state = "Active"]
      BY <1>1, <2>3, <3>1 DEF CreateActive, TypeOK
    <3> QED BY <1>1, <3>2, <3>3 DEF Headers
  <2>4. CASE Create(p) /\ ~CreateActive(p)
    <3>1. CASE CreateOpen(p) \/ CreateFail(p) \/ CreateRegister(p) \/ CreateRefused(p)
      BY <3>1 DEF CreateOpen, CreateFail, CreateRegister, CreateRefused
    <3>2. CASE CreateMagic(p) \/ CreateOwner(p) \/ CreateRef(p) \/ CreateHandle(p)
      <4>1. loc[p].o = 1
        BY <2>1, <3>2 DEF CreateMagic, CreateOwner, CreateRef, CreateHandle, At, Using, Making
      <4>2. \/ hdr'[1] = [hdr[1] EXCEPT !.valid = TRUE]
            \/ hdr'[1] = [hdr[1] EXCEPT !.owner = p]
            \/ hdr'[1] = [hdr[1] EXCEPT !.rc = 1]
            \/ hdr'[1] = [hdr[1] EXCEPT !.stale = FALSE]
        BY <1>1, <3>2, <4>1 DEF CreateMagic, CreateOwner, CreateRef, CreateHandle, TypeOK
      <4> QED BY <1>1, <4>2 DEF Headers
    <3> QED BY <2>4, <3>1, <3>2 DEF Create
  <2>5. CASE Attach(p)
    <3>1. CASE AttachOpen(p) \/ AttachState(p) \/ AttachCheck(p)
      BY <3>1 DEF AttachOpen, AttachState, AttachCheck, shared
    <3>2. CASE AttachBump(p) \/ AttachUndo(p)
      <4>1. loc[p].o = 1
        BY <2>1, <3>2 DEF AttachBump, AttachUndo, At, Using
      <4>2. hdr' = [hdr EXCEPT ![1].rc = @ + 1] \/ hdr' = [hdr EXCEPT ![1].rc = @ - 1]
        BY <3>2, <4>1 DEF AttachBump, AttachUndo
      <4>3. PICK n : hdr'[1] = [hdr[1] EXCEPT !.rc = n]
        BY <1>1, <4>2 DEF TypeOK
      <4> QED BY <1>1, <4>3 DEF Headers
    <3> QED BY <2>5, <3>1, <3>2 DEF Attach
  <2>6. CASE Release(p)
    <3>1. CASE ResetState(p) \/ Unlink(p) \/ Unregister(p)
      BY <3>1 DEF ResetState, Unlink, Unregister, shared
    <3>2. CASE ResetSub(p)
      <4>1. handle[p] = 1
        BY <2>1, <3>2 DEF ResetSub, At, Placed
      <4>2. hdr' = hdr \/ hdr' = [hdr EXCEPT ![1].rc = @ - 1]
        BY <3>2, <4>1 DEF ResetSub
      <4>3. hdr' = hdr \/ \E n : hdr'[1] = [hdr[1] EXCEPT !.rc = n]
        BY <1>1, <4>2 DEF TypeOK
      <4> QED BY <1>1, <4>3 DEF Headers
    <3>3. CASE ResetDead(p)
      <4>1. loc[p].o = 1
        BY <2>1, <3>3 DEF ResetDead, At, Using
      <4>2. hdr'[1] = [hdr[1] EXCEPT !.state = "Dead"]
        BY <1>1, <3>3, <4>1 DEF ResetDead, TypeOK
      <4> QED BY <1>1, <4>2 DEF Headers
    <3> QED BY <2>6, <3>1, <3>2, <3>3 DEF Release
  <2>7. CASE Gc(p)
    <3>1. CASE GcOpen(p) \/ GcOwner(p) \/ GcRc(p) \/ GcState(p) \/ GcRecheck(p) \/ GcTouch(p) \/ GcMaps(p)
                \/ GcMapsKin(p) \/ GcKin(p)
      BY <3>1 DEF GcOpen, GcOwner, GcRc, GcState, GcRecheck, GcTouch, GcMaps, GcMapsKin, GcKin, shared
    <3>2. CASE GcDead(p)
      <4>1. loc[p].o = 1
        BY <2>1, <3>2 DEF GcDead, At, Using
      <4>2. hdr'[1] = [hdr[1] EXCEPT !.state = "Dead"]
        BY <1>1, <3>2, <4>1 DEF GcDead, TypeOK
      <4> QED BY <1>1, <4>2 DEF Headers
    <3>3. CASE GcDrain(p)
      <4>1. loc[p].o = 1
        BY <2>1, <3>3 DEF GcDrain, At, Using
      <4>2. hdr'[1] = [hdr[1] EXCEPT !.state = IF @ = "Active" THEN "Draining" ELSE @]
        BY <1>1, <3>3, <4>1 DEF GcDrain, TypeOK
      <4> QED BY <1>1, <4>2 DEF Headers
    <3> QED BY <2>7, <3>1, <3>2, <3>3 DEF Gc
  <2> QED BY <1>3, <2>2, <2>3, <2>4, <2>5, <2>6, <2>7 DEF Step
<1> QED BY <1>2, <1>3 DEF Next

\* Active, Draining, Dead: the compare_exchange of the janitor, the store of
\* Dead by janitor or owner and the stores of create never take a step back.
THEOREM StatesForward ==
    ASSUME OneObject
    PROVE  Spec => StateForward
<1>1. Inv /\ [Next]_vars => [\A o \in Objs : Rank(hdr[o].state) <= Rank(hdr'[o].state)]_vars
  <2> SUFFICES ASSUME Inv, Next PROVE \A o \in Objs : Rank(hdr[o].state) <= Rank(hdr'[o].state)
    OBVIOUS
  <2>1. Objs = {1} /\ hdr[1] \in Headers
    BY OneFacts DEF Inv
  <2>2. hdr[1].state \in {"Init", "Active", "Draining", "Dead"}
    BY <2>1 DEF Headers
  <2>3. PICK s : s = hdr[1].state
    OBVIOUS
  <2>4. PICK t : t = hdr'[1].state
    OBVIOUS
  <2>5. /\ s \in {"Init", "Active", "Draining", "Dead"}
        /\ t = s \/ (s = "Init" /\ t = "Active") \/ (s = "Active" /\ t = "Draining") \/ t = "Dead"
    BY <2>2, <2>3, <2>4, StateStep
  <2>6. Rank(s) <= Rank(t)
    BY <2>5, Ranks
  <2> QED BY <2>1, <2>3, <2>4, <2>6
<1> QED BY <1>1, Invariance, PTL DEF Spec, StateForward

=============================================================================
