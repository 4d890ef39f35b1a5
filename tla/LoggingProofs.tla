--------------------------- MODULE LoggingProofs ----------------------------
(***************************************************************************)
(* Proofs about Logging for every finite set of loggers, every set of      *)
(* names, capacity, batch and number of segments and deaths.               *)
(***************************************************************************)
EXTENDS Logging, FiniteSetTheorems, SequenceTheorems, WellFoundedInduction, TLAPS

-----------------------------------------------------------------------------
(* The inductive invariant *)

\* Loggers with a counted reference to o.
Holders(o) == {l \in Loggers : lg[l].o = o /\ lg[l].pc \notin {"create", "reap"}}

\* The count of one segment.
Balanced(o) ==
    obj[o].rc + obj[o].lost =
        Cardinality(Holders(o)) + (IF o \in Attached THEN 1 ELSE 0) + (IF o = c.o THEN 1 ELSE 0)
        + obj[o].leak

\* Where a logger has its segment.
Busy == {"create", "made", "init", "join", "run", "push", "close", "reap"}

LoggerInv ==
    \A l \in Loggers :
        /\ lg[l].pc \in {"idle", "gone"} => lg[l].o = 0
        /\ lg[l].pc \in Busy => lg[l].o # 0

\* A name is bound to a segment of that name.
NameInv == \A n \in Names : bound[n] # 0 => obj[bound[n]].name = n

CenterLocals ==
    [pc : {"idle", "attach", "bind", "drain", "pop"}, todo : SUBSET Names, o : Nat, at : Nat,
     gone : SUBSET Nat, taken : Nat]

\* The center's locals: no ring of a name it has still to attach is attached,
\* and what it binds has the first of these names.
CenterInv ==
    /\ c \in CenterLocals
    /\ c.pc \in {"attach", "bind"} =>
          c.todo # {} /\ \A n \in c.todo : \A o \in Attached : obj[o].name # n
    /\ IF c.pc = "bind" THEN c.o \in Objs /\ obj[c.o].name = First(c.todo) ELSE c.o = 0
    /\ c.pc \in {"drain", "pop"} => c.at \in DOMAIN rings
    /\ c.pc = "pop" => c.taken < Batch

Inv == TypeOK /\ LoggerInv /\ NameInv /\ CenterInv /\ RefsBalanced

-----------------------------------------------------------------------------
(* Sequences *)

Ran(rs) == {rs[i] : i \in DOMAIN rs}

\* Indices and elements of a sequence.
LEMMA SeqFacts ==
    ASSUME NEW S, NEW s \in Seq(S)
    PROVE  /\ Len(s) \in Nat /\ DOMAIN s = 1 .. Len(s)
           /\ \A i \in DOMAIN s : s[i] \in S
  OBVIOUS

\* First is the least element of a set of numbers.
LEMMA FirstIn ==
    ASSUME NEW S \in SUBSET Nat, S # {}
    PROVE  First(S) \in S
<1>1. PICK R : R = OpToRel(<, Nat)
  OBVIOUS
<1>2. \A x, y \in Nat : x < y => <<x, y>> \in R
  BY <1>1 DEF OpToRel
<1>3. PICK x \in S : \A y \in S : <<y, x>> \notin R
  BY <1>1, NatLessThanWellFounded, WFMin
<1>4. ASSUME NEW y \in S PROVE x <= y
  <2>1. x \in Nat /\ y \in Nat /\ <<y, x>> \notin R
    BY <1>3
  <2> QED BY <1>2, <2>1
<1>5. \E z \in S : \A y \in S : z <= y
  BY <1>4
<1> QED BY <1>5 DEF First

\* The rank of an index among those kept: a bijection.
LEMMA Ranks ==
    ASSUME NEW n \in Nat, NEW keep \in SUBSET (1 .. n), NEW k \in 1 .. Cardinality(keep)
    PROVE  /\ IsFiniteSet(keep)
           /\ \E i \in keep : Cardinality({j \in keep : j <= i}) = k
<1> DEFINE Upto(i) == {j \in keep : j <= i}
           m == Cardinality(keep)
           f == [i \in keep |-> Cardinality(Upto(i))]
<1>1. IsFiniteSet(1 .. n)
  BY FS_Interval
<1>2. IsFiniteSet(keep)
  BY <1>1, FS_Subset
<1>3. m \in Nat
  BY <1>2, FS_CardinalityType
<1>4. ASSUME NEW i \in keep
      PROVE  IsFiniteSet(Upto(i)) /\ Cardinality(Upto(i)) \in 1 .. m
  <2>1. IsFiniteSet(Upto(i)) /\ Cardinality(Upto(i)) <= m
    BY <1>2, FS_Subset
  <2>2. i \in Upto(i)
    OBVIOUS
  <2>3. Cardinality(Upto(i)) \in Nat /\ Cardinality(Upto(i)) # 0
    BY <2>1, <2>2, FS_CardinalityType, FS_EmptySet
  <2> QED BY <1>3, <2>1, <2>3
<1>5. ASSUME NEW i \in keep, NEW j \in keep, i < j
      PROVE  Cardinality(Upto(i)) # Cardinality(Upto(j))
  <2>1. \A x \in keep : x \in Nat
    OBVIOUS
  <2>2. \A x \in keep : x <= i => x <= j
    BY <1>5, <2>1
  <2>3. Upto(i) \subseteq Upto(j)
    BY <2>2
  <2>4. j \in Upto(j) /\ j \notin Upto(i)
    BY <1>5, <2>1
  <2> HIDE DEF Upto
  <2> QED BY <1>4, <2>3, <2>4, FS_Subset
<1>6. f \in Injection(keep, 1 .. m)
  <2>1. f \in [keep -> 1 .. m]
    BY <1>4
  <2>2. \A i, j \in keep : i # j => i < j \/ j < i
    OBVIOUS
  <2>3. ASSUME NEW i \in keep, NEW j \in keep, f[i] = f[j] PROVE i = j
    BY <1>5, <2>2, <2>3
  <2> QED BY <2>1, <2>3 DEF Injection, IsInjective
<1>7. IsFiniteSet(1 .. m) /\ Cardinality(1 .. m) = m
  BY <1>3, FS_Interval
<1>8. f \in Surjection(keep, 1 .. m)
  BY <1>6, <1>7, FS_Injection
<1>9. PICK i \in keep : f[i] = k
  BY <1>8 DEF Surjection
<1> QED BY <1>2, <1>9

\* Kept leaves out the elements of gone and nothing else.
LEMMA KeptFacts ==
    ASSUME NEW S, NEW rs \in Seq(S), NEW gone
    PROVE  /\ Kept(rs, gone) \in Seq(S)
           /\ Ran(Kept(rs, gone)) = Ran(rs) \ gone
<1> DEFINE keep == {i \in DOMAIN rs : rs[i] \notin gone}
           Rank(i) == Cardinality({j \in keep : j <= i})
           m == Cardinality(keep)
           At(k) == CHOOSE i \in keep : Rank(i) = k
           ks == [k \in 1 .. m |-> rs[At(k)]]
<1>1. Kept(rs, gone) = ks
  BY DEF Kept
<1>2. Len(rs) \in Nat /\ keep \in SUBSET (1 .. Len(rs)) /\ \A i \in keep : rs[i] \in S
  BY SeqFacts
<1>3. IsFiniteSet(keep) /\ m \in Nat
  <2>1. IsFiniteSet(1 .. Len(rs))
    BY <1>2, FS_Interval
  <2>2. IsFiniteSet(keep)
    BY <1>2, <2>1, FS_Subset
  <2> QED BY <2>2, FS_CardinalityType
<1>4. \A k \in 1 .. m : At(k) \in keep /\ Rank(At(k)) = k
  <2> SUFFICES ASSUME NEW k \in 1 .. m PROVE \E i \in keep : Rank(i) = k
    OBVIOUS
  <2> QED BY <1>2, Ranks
<1> HIDE DEF At
<1>5. ASSUME NEW i \in keep PROVE \E k \in 1 .. m : ks[k] = rs[i]
  <2> DEFINE U == {j \in keep : j <= i}
  <2>1. IsFiniteSet(U) /\ Cardinality(U) <= m
    BY <1>3, FS_Subset
  <2>2. i \in U
    BY <1>2
  <2>3. Cardinality(U) \in Nat /\ Cardinality(U) # 0
    BY <2>1, <2>2, FS_CardinalityType, FS_EmptySet
  <2>4. Rank(i) \in 1 .. m
    BY <1>3, <2>1, <2>3
  <2>5. At(Rank(i)) = i
    <3> DEFINE j == At(Rank(i)) V == {x \in keep : x <= j}
    <3>1. j \in keep /\ Cardinality(V) = Cardinality(U)
      BY <1>4, <2>4
    <3>2. IsFiniteSet(V)
      BY <1>3, FS_Subset
    <3>3. i \in Nat /\ j \in Nat /\ j \in V
      BY <1>2, <3>1
    <3> HIDE DEF j
    <3>4. CASE i < j
      <4>1. U \in SUBSET V /\ j \notin U
        BY <1>2, <3>3, <3>4
      <4> QED BY <3>1, <3>2, <3>3, <4>1, FS_Subset
    <3>5. CASE j < i
      <4>1. V \in SUBSET U /\ i \notin V
        BY <1>2, <3>3, <3>5
      <4> QED BY <2>1, <2>2, <3>1, <4>1, FS_Subset
    <3> QED BY <3>3, <3>4, <3>5 DEF j
  <2> QED BY <2>4, <2>5
<1> HIDE DEF Rank, m
<1>6. ks \in [1 .. m -> S]
  BY <1>2, <1>4
<1>7. ks \in Seq(S) /\ DOMAIN ks = 1 .. m
  BY <1>3, <1>6
<1>8. ASSUME NEW k \in 1 .. m PROVE ks[k] \in Ran(rs) \ gone
  BY <1>4 DEF Ran
<1>9. Ran(ks) = Ran(rs) \ gone
  BY <1>5, <1>7, <1>8 DEF Ran
<1> QED BY <1>1, <1>7, <1>9

-----------------------------------------------------------------------------
(* The initial state, and one lemma for every step *)

LEMMA InitInv == Init => Inv
<1> SUFFICES ASSUME Init PROVE Inv
  OBVIOUS
<1> USE DEF Init, NoLogger, NoDoom, IdleCenter
<1>1. obj \in Seq(Segments) /\ Len(obj) = 0 /\ Objs = {}
  BY DEF Objs
<1>2. rings \in Seq(Objs) /\ Attached = {}
  BY DEF Attached
<1>3. TypeOK
  BY <1>1, <1>2, LoggingAssumption DEF TypeOK
<1>4. LoggerInv /\ NameInv
  BY DEF LoggerInv, NameInv, Busy
<1>5. CenterInv
  BY <1>2 DEF CenterInv, CenterLocals
<1>6. RefsBalanced
  BY <1>1 DEF RefsBalanced
<1> QED BY <1>3, <1>4, <1>5, <1>6 DEF Inv

\* A segment that fits its type and capacity.
Sound(e) == e \in Segments /\ Len(e.q) <= Cap

\* Segments, and the fields of one.
LEMMA ObjFacts ==
    ASSUME Inv
    PROVE  /\ Len(obj) \in Nat /\ Objs = 1 .. Len(obj)
           /\ \A o \in Objs : Sound(obj[o]) /\ Balanced(o)
           /\ \A n \in Names : bound[n] # 0 => bound[n] \in Objs
<1>1. /\ Len(obj) \in Nat /\ Objs = 1 .. Len(obj)
      /\ \A o \in Objs : Sound(obj[o])
  BY DEF Inv, TypeOK, Objs, Sound
<1>2. \A o \in Objs : Balanced(o)
  BY DEF Inv, RefsBalanced, References, Balanced, Holders
<1> QED BY <1>1, <1>2 DEF Inv, TypeOK

LEMMA FieldFacts ==
    ASSUME NEW e, Sound(e)
    PROVE  /\ e.name \in Names /\ e.rc \in Int /\ e.lost \in Int /\ e.leak \in Nat
           /\ e.q \in Seq(Loggers \cup {"ready"}) /\ Len(e.q) \in 0 .. Cap
  BY LoggingAssumption DEF Sound, Segments

LoggerRecords ==
    [pc : {"idle", "create", "made", "init", "join", "run", "push", "close", "reap", "gone", "dead"},
     o : 0 .. Len(obj), own : BOOLEAN]

\* What a step on the segments that exist has to show.
LEMMA StepInv ==
    ASSUME Inv, NEW ob, obj' = ob, ob \in Seq(Segments), Len(ob) = Len(obj),
           \A x \in Objs : Sound(ob[x]) /\ ob[x].name = obj[x].name,
           rings' \in Seq(Objs), c'.gone \subseteq Attached', c'.taken \in 0 .. Batch, CenterInv',
           bound' \in [Names -> 0 .. Len(obj)], \A n \in Names : bound'[n] \in {0, bound[n]},
           listed' \subseteq Names, deaths' \in 0 .. MaxCrash,
           lg' \in [Loggers -> LoggerRecords], LoggerInv',
           \A x \in Objs : Balanced(x)'
    PROVE  Inv'
<1>1. Objs = 1 .. Len(obj) /\ Objs' = Objs
  BY ObjFacts DEF Objs
<1>2. TypeOK'
  BY <1>1 DEF TypeOK, LoggerRecords, Sound
<1>3. NameInv'
  BY <1>1, ObjFacts DEF Inv, NameInv
<1>4. RefsBalanced'
  BY <1>1 DEF RefsBalanced, References, Balanced, Holders
<1> QED BY <1>2, <1>3, <1>4 DEF Inv

\* Holders of o form a finite set.
LEMMA HoldersFinite ==
    ASSUME NEW o
    PROVE  IsFiniteSet(Holders(o)) /\ Cardinality(Holders(o)) \in Nat
<1>1. Holders(o) \in SUBSET Loggers
  BY DEF Holders
<1>2. IsFiniteSet(Holders(o))
  BY <1>1, FS_Subset, LoggingAssumption
<1> QED BY <1>2, FS_CardinalityType

\* The center is not concerned.
LEMMA KeepCenter ==
    ASSUME Inv, c' = c, rings' = rings, Objs \subseteq Objs',
           \A o \in Objs : obj'[o].name = obj[o].name
    PROVE  CenterInv' /\ Attached' = Attached /\ c'.gone \subseteq Attached'
<1>1. Attached' = Attached /\ Attached \subseteq Objs /\ c.gone \subseteq Attached
  BY DEF Attached, Inv, TypeOK
<1> QED BY <1>1 DEF Inv, CenterInv

-----------------------------------------------------------------------------
(* Loggers *)

\* A step of a logger or of time on one segment: the count of that segment
\* moves with its holders.
LEMMA SegmentStep ==
    ASSUME Inv, NEW o \in Objs, NEW e, Sound(e), e.name = obj[o].name, obj' = [obj EXCEPT ![o] = e],
           UNCHANGED <<c, rings>>, deaths' \in 0 .. MaxCrash, listed' \subseteq Names,
           bound' \in [Names -> 0 .. Len(obj)], \A n \in Names : bound'[n] \in {0, bound[n]},
           lg' \in [Loggers -> LoggerRecords], LoggerInv',
           \A x \in Objs \ {o} : Holders(x)' = Holders(x),
           NEW d \in Int, Cardinality(Holders(o)') = Cardinality(Holders(o)) + d,
           e.rc + e.lost - e.leak = obj[o].rc + obj[o].lost - obj[o].leak + d
    PROVE  Inv'
<1>1. /\ obj' \in Seq(Segments) /\ Len(obj') = Len(obj) /\ Objs' = Objs
      /\ obj'[o] = e /\ \A x \in Objs \ {o} : obj'[x] = obj[x]
  BY DEF Inv, TypeOK, Objs, Sound
<1>2. \A x \in Objs : Sound(obj'[x]) /\ obj'[x].name = obj[x].name
  BY <1>1, ObjFacts
<1>3. CenterInv' /\ Attached' = Attached /\ c'.gone \subseteq Attached'
  BY <1>1, <1>2, KeepCenter
<1>4. rings' \in Seq(Objs) /\ c'.taken \in 0 .. Batch
  BY DEF Inv, TypeOK
<1>5. ASSUME NEW x \in Objs PROVE Balanced(x)'
  <2>1. CASE x # o
    BY <1>1, <1>3, <2>1, ObjFacts DEF Balanced
  <2>2. CASE x = o
    <3>1. /\ e.rc \in Int /\ e.lost \in Int /\ e.leak \in Nat
          /\ obj[o].rc \in Int /\ obj[o].lost \in Int /\ obj[o].leak \in Nat
      BY FieldFacts, ObjFacts
    <3>2. Cardinality(Holders(o)) \in Nat
      BY HoldersFinite
    <3>3. Balanced(o)
      BY ObjFacts
    <3>4. PICK a, b \in Nat : a = (IF o \in Attached THEN 1 ELSE 0) /\ b = (IF o = c.o THEN 1 ELSE 0)
      OBVIOUS
    <3>5. obj[o].rc + obj[o].lost = Cardinality(Holders(o)) + a + b + obj[o].leak
      BY <3>3, <3>4 DEF Balanced
    <3>6. e.rc + e.lost = Cardinality(Holders(o)') + a + b + e.leak
      <4>1. PICK h \in Nat : h = Cardinality(Holders(o))
        BY <3>2
      <4>2. Cardinality(Holders(o)') = h + d
        BY <4>1
      <4>3. e.rc + e.lost = h + d + a + b + e.leak
        <5>1. a \in Nat /\ b \in Nat /\ h \in Nat /\ d \in Int
          BY <3>4, <4>1
        <5>2. PICK r \in Int, t \in Int, k \in Nat, r1 \in Int, t1 \in Int, k1 \in Nat :
                 /\ r = obj[o].rc /\ t = obj[o].lost /\ k = obj[o].leak
                 /\ r1 = e.rc /\ t1 = e.lost /\ k1 = e.leak
          BY <3>1
        <5>3. r + t = h + a + b + k /\ r1 + t1 - k1 = r + t - k + d
          BY <3>5, <4>1, <5>2
        <5>4. r1 + t1 = h + d + a + b + k1
          BY ONLY <5>1, <5>3, r \in Int, t \in Int, k \in Nat, r1 \in Int, t1 \in Int, k1 \in Nat
        <5> QED BY <5>2, <5>4
      <4> QED BY <4>2, <4>3
    <3> QED BY <1>1, <1>3, <2>2, <3>4, <3>6 DEF Balanced
  <2> QED BY <2>1, <2>2
<1>6. PICK ob : ob = obj'
  OBVIOUS
<1> QED BY <1>1, <1>2, <1>3, <1>4, <1>5, <1>6, StepInv

\* The segment of a logger that has one.
LEMMA OwnSegment ==
    ASSUME Inv, NEW l \in Loggers, lg[l].pc \in Busy
    PROVE  lg[l].o \in Objs /\ Sound(obj[lg[l].o])
<1>1. lg[l].o \in 0 .. Len(obj) /\ lg[l].o # 0
  BY DEF Inv, TypeOK, LoggerInv
<1> QED BY <1>1, ObjFacts

\* Logger l goes to e, and others stay.
Moves(l, e) == e \in LoggerRecords /\ lg' = [lg EXCEPT ![l] = e]

LEMMA MoveFacts ==
    ASSUME Inv, NEW l \in Loggers, NEW e, Moves(l, e),
           e.pc \in {"idle", "gone"} => e.o = 0, e.pc \in Busy => e.o # 0
    PROVE  /\ lg' \in [Loggers -> LoggerRecords] /\ LoggerInv'
           /\ lg'[l] = e /\ \A k \in Loggers \ {l} : lg'[k] = lg[k]
<1>1. lg \in [Loggers -> LoggerRecords]
  BY DEF Inv, TypeOK, LoggerRecords
<1>2. /\ lg' \in [Loggers -> LoggerRecords]
      /\ lg'[l] = e /\ \A k \in Loggers \ {l} : lg'[k] = lg[k]
  BY <1>1 DEF Moves
<1> QED BY <1>2 DEF Inv, LoggerInv

\* Goto, the end of a logger, and its death.
LEMMA PlaceFacts ==
    ASSUME Inv, NEW l \in Loggers
    PROVE  /\ Moves(l, Gone) <=> lg' = [lg EXCEPT ![l] = Gone]
           /\ Gone.pc = "gone" /\ Gone.o = 0
           /\ \A p \in Busy \cup {"dead"}, o \in {0, lg[l].o} :
                 /\ [pc |-> p, o |-> o, own |-> lg[l].own] \in LoggerRecords
                 /\ [lg[l] EXCEPT !.pc = p] = [pc |-> p, o |-> lg[l].o, own |-> lg[l].own]
                 /\ [[lg[l] EXCEPT !.pc = p] EXCEPT !.o = o] = [pc |-> p, o |-> o, own |-> lg[l].own]
<1>1. lg[l] \in LoggerRecords /\ 0 \in 0 .. Len(obj)
  BY ObjFacts DEF Inv, TypeOK, LoggerRecords
<1>2. Gone \in LoggerRecords /\ Gone.pc = "gone" /\ Gone.o = 0
  BY <1>1 DEF Gone, NoLogger, LoggerRecords
<1>3. ASSUME NEW p \in Busy \cup {"dead"}, NEW o \in {0, lg[l].o}
      PROVE  /\ [pc |-> p, o |-> o, own |-> lg[l].own] \in LoggerRecords
             /\ [lg[l] EXCEPT !.pc = p] = [pc |-> p, o |-> lg[l].o, own |-> lg[l].own]
             /\ [[lg[l] EXCEPT !.pc = p] EXCEPT !.o = o] = [pc |-> p, o |-> o, own |-> lg[l].own]
  <2>1. lg[l] = [pc |-> lg[l].pc, o |-> lg[l].o, own |-> lg[l].own]
    BY <1>1 DEF LoggerRecords
  <2>2. /\ lg[l].o \in 0 .. Len(obj) /\ lg[l].own \in BOOLEAN /\ o \in 0 .. Len(obj)
        /\ p \in {"idle", "create", "made", "init", "join", "run", "push", "close", "reap", "gone", "dead"}
    BY <1>1 DEF LoggerRecords, Busy
  <2>3. [pc |-> p, o |-> o, own |-> lg[l].own] \in LoggerRecords
    BY <2>2 DEF LoggerRecords
  <2>4. [lg[l] EXCEPT !.pc = p] = [pc |-> p, o |-> lg[l].o, own |-> lg[l].own]
    BY <2>1
  <2>5. [[pc |-> p, o |-> lg[l].o, own |-> lg[l].own] EXCEPT !.o = o]
           = [pc |-> p, o |-> o, own |-> lg[l].own]
    OBVIOUS
  <2> QED BY <2>3, <2>4, <2>5
<1>4. Moves(l, Gone) <=> lg' = [lg EXCEPT ![l] = Gone]
  BY <1>2 DEF Moves
<1> QED BY <1>2, <1>3, <1>4

\* What a step of a logger leaves alone.
LEMMA NoCenter ==
    ASSUME Inv, NEW l \in Loggers,
           \/ LoggerStep(l) \/ Claim(l) \/ Close(l) \/ Die(l)
           \/ \E n \in Names : AttachExisting(l, n)
    PROVE  /\ UNCHANGED <<c, rings>> /\ deaths' \in 0 .. MaxCrash
           /\ bound' \in [Names -> 0 .. Len(obj)] /\ \A n \in Names : bound'[n] \in {0, bound[n]}
           /\ listed' \subseteq Names
<1> USE DEF LoggerStep, Register, RegisterFail, CreateFail, InitMeta, InitSlots, InitFail, Bind, Publish, Release,
            Reap, Claim, Close, Die, AttachExisting, others, Remove
<1>1. UNCHANGED <<c, rings>> /\ deaths' \in {deaths, deaths + 1} /\ (deaths' # deaths => deaths < MaxCrash)
  OBVIOUS
<1>2. bound' = bound \/ \E n : bound' = [bound EXCEPT ![n] = 0]
  OBVIOUS
<1>3. 0 \in 0 .. Len(obj) /\ bound \in [Names -> 0 .. Len(obj)]
  BY ObjFacts DEF Inv, TypeOK
<1>4. listed' \subseteq Names
  <2>1. CASE Register(l)
    <3>1. Sound(obj[lg[l].o])
      BY <2>1, OwnSegment DEF Busy
    <3> QED BY <2>1, <3>1, FieldFacts DEF Inv, TypeOK
  <2> QED BY <2>1 DEF Inv, TypeOK
<1>5. bound' \in [Names -> 0 .. Len(obj)] /\ \A n \in Names : bound'[n] \in {0, bound[n]}
  BY ONLY <1>2, <1>3
<1>6. deaths' \in 0 .. MaxCrash
  <2>1. deaths \in 0 .. MaxCrash /\ MaxCrash \in Nat
    BY LoggingAssumption DEF Inv, TypeOK
  <2> QED BY ONLY <1>1, <2>1
<1> QED BY ONLY <1>1, <1>4, <1>5, <1>6

\* Records are added, published and taken; the queue stays a sequence.
LEMMA QueueFacts ==
    ASSUME NEW q \in Seq(Loggers \cup {"ready"}), NEW l \in Loggers
    PROVE  /\ Append(q, l) \in Seq(Loggers \cup {"ready"}) /\ Len(Append(q, l)) = Len(q) + 1
           /\ [i \in DOMAIN q |-> IF q[i] = l THEN "ready" ELSE q[i]] \in Seq(Loggers \cup {"ready"})
           /\ Len([i \in DOMAIN q |-> IF q[i] = l THEN "ready" ELSE q[i]]) = Len(q)
<1>1. Append(q, l) \in Seq(Loggers \cup {"ready"}) /\ Len(Append(q, l)) = Len(q) + 1
  OBVIOUS
<1>2. PICK r : r = [i \in DOMAIN q |-> IF q[i] = l THEN "ready" ELSE q[i]]
  OBVIOUS
<1>3. Len(q) \in Nat /\ DOMAIN q = 1 .. Len(q) /\ r \in [1 .. Len(q) -> Loggers \cup {"ready"}]
  BY <1>2
<1>4. r \in Seq(Loggers \cup {"ready"}) /\ Len(r) = Len(q)
  BY <1>3
<1> QED BY <1>1, <1>2, <1>4

\* A segment with another ring or state and the same references.
SameRefs(e, f) == e.name = f.name /\ e.rc = f.rc /\ e.lost = f.lost /\ e.leak = f.leak

LEMMA RingUpdates ==
    ASSUME NEW e, Sound(e)
    PROVE  /\ \A r \in {"zero", "half", "ok", "broken"} :
                 Sound([e EXCEPT !.ring = r]) /\ SameRefs([e EXCEPT !.ring = r], e)
           /\ \A s \in {"Active", "Draining", "Dead"} :
                 Sound([e EXCEPT !.state = s]) /\ SameRefs([e EXCEPT !.state = s], e)
           /\ \A q \in Seq(Loggers \cup {"ready"}) :
                 Len(q) <= Cap => Sound([e EXCEPT !.q = q]) /\ SameRefs([e EXCEPT !.q = q], e)
  BY DEF Sound, SameRefs, Segments

\* Steps of a logger that keep its reference, or its lack of one.
LEMMA LoggerQuietInv ==
    ASSUME Inv, NEW l \in Loggers,
           InitMeta(l) \/ InitSlots(l) \/ InitFail(l) \/ Bind(l) \/ Claim(l) \/ Publish(l)
           \/ Close(l) \/ Reap(l) \/ Die(l)
    PROVE  Inv'
<1>1. lg[l].pc \in Busy
  BY DEF Inv, TypeOK, InitMeta, InitSlots, InitFail, Bind, Claim, Publish, Close, Reap, Die, Busy
<1>2. PICK o \in Objs : o = lg[l].o /\ Sound(obj[o]) /\ o # 0
  BY <1>1, OwnSegment, ObjFacts
<1>3. \E e : Sound(e) /\ obj' = [obj EXCEPT ![o] = e] /\ SameRefs(e, obj[o])
  <2>1. CASE obj' = obj
    <3>1. obj = [obj EXCEPT ![o] = obj[o]]
      BY <1>2 DEF Inv, TypeOK, Objs
    <3> QED BY <1>2, <2>1, <3>1 DEF SameRefs
  <2>2. CASE InitMeta(l)
    BY <1>2, <2>2, RingUpdates DEF InitMeta
  <2>3. CASE InitSlots(l)
    <3>1. PICK r \in {"ok", obj[o].ring} : obj' = [obj EXCEPT ![o].ring = r]
      BY <1>2, <2>3 DEF InitSlots
    <3>2. r \in {"zero", "half", "ok", "broken"}
      BY <1>2 DEF Sound, Segments
    <3> QED BY <1>2, <3>1, <3>2, RingUpdates
  <2>4. CASE Reap(l)
    BY <1>2, <2>4, RingUpdates DEF Reap
  <2>5. CASE Claim(l)
    <3> DEFINE q == Append(obj[o].q, l)
    <3>1. q \in Seq(Loggers \cup {"ready"}) /\ Len(q) <= Cap
      BY <1>2, <2>5, QueueFacts, FieldFacts, LoggingAssumption DEF Claim
    <3>2. /\ obj' = [obj EXCEPT ![o] = [[obj[o] EXCEPT !.q = IF obj[o].ring = "ok" THEN q ELSE obj[o].q]
                                        EXCEPT !.ring = IF obj[o].ring = "half" THEN "broken" ELSE obj[o].ring]]
      BY <1>2, <2>5 DEF Claim, Objs
    <3>3. obj[o].ring \in {"zero", "half", "ok", "broken"} /\ obj[o].q \in Seq(Loggers \cup {"ready"}) /\ Len(obj[o].q) <= Cap
      BY <1>2, FieldFacts, LoggingAssumption DEF Sound, Segments
    <3>4. PICK f : f = [obj[o] EXCEPT !.q = IF obj[o].ring = "ok" THEN q ELSE obj[o].q]
      OBVIOUS
    <3>5. PICK r \in {"zero", "half", "ok", "broken"} : r = IF obj[o].ring = "half" THEN "broken" ELSE obj[o].ring
      BY <3>3
    <3> HIDE DEF q
    <3>6. Sound(f) /\ SameRefs(f, obj[o])
      BY <1>2, <3>1, <3>3, <3>4, RingUpdates
    <3>7. Sound([f EXCEPT !.ring = r]) /\ SameRefs([f EXCEPT !.ring = r], f)
      BY <3>6, RingUpdates
    <3>8. obj' = [obj EXCEPT ![o] = [f EXCEPT !.ring = r]]
      BY <3>2, <3>4, <3>5
    <3> QED BY <3>6, <3>7, <3>8 DEF SameRefs
  <2>6. CASE Publish(l)
    <3> DEFINE q == [i \in DOMAIN obj[o].q |-> IF obj[o].q[i] = l THEN "ready" ELSE obj[o].q[i]]
    <3>1. q \in Seq(Loggers \cup {"ready"}) /\ Len(q) <= Cap
      BY <1>2, QueueFacts, FieldFacts
    <3>2. obj' = [obj EXCEPT ![o] = [obj[o] EXCEPT !.q = q]]
      BY <1>2, <2>6 DEF Publish
    <3> HIDE DEF q
    <3> QED BY <1>2, <3>1, <3>2, RingUpdates
  <2> QED BY <2>1, <2>2, <2>3, <2>4, <2>5, <2>6 DEF InitFail, Bind, Close, Die
<1>4. \E e : /\ Moves(l, e)
             /\ \/ e.o = o /\ e.pc \in {"init", "run", "push", "close", "dead"} /\ lg[l].pc \notin {"create", "reap"}
                \/ e.o = 0 /\ e.pc \in {"gone", "dead"} /\ lg[l].pc \in {"create", "reap"}
  <2>1. ASSUME NEW p \in {"init", "run", "push", "close"}, Goto(l, p), lg[l].pc \notin {"create", "reap"}
        PROVE  \E e : /\ Moves(l, e) /\ e.o = o
                      /\ e.pc \in {"init", "run", "push", "close", "dead"} /\ lg[l].pc \notin {"create", "reap"}
    <3>1. [lg[l] EXCEPT !.pc = p] \in LoggerRecords /\ [lg[l] EXCEPT !.pc = p].o = o /\ [lg[l] EXCEPT !.pc = p].pc = p
      <4>1. p \in Busy \cup {"dead"} /\ o \in {0, lg[l].o}
        BY <1>2 DEF Busy
      <4>2. /\ [pc |-> p, o |-> o, own |-> lg[l].own] \in LoggerRecords
            /\ [lg[l] EXCEPT !.pc = p] = [pc |-> p, o |-> o, own |-> lg[l].own]
        BY <1>2, <4>1, PlaceFacts
      <4> QED BY <4>2
    <3> QED BY <2>1, <3>1 DEF Moves, Goto
  <2>2. CASE Reap(l)
    BY <2>2, PlaceFacts DEF Reap
  <2>3. CASE Die(l)
    <3> DEFINE x == IF lg[l].pc \in {"create", "reap"} THEN 0 ELSE lg[l].o
               e == [pc |-> "dead", o |-> x, own |-> lg[l].own]
    <3>1. lg' = [lg EXCEPT ![l] = [[lg[l] EXCEPT !.pc = "dead"] EXCEPT !.o = x]]
      BY <2>3 DEF Die, Inv, TypeOK
    <3>2. e \in LoggerRecords /\ [[lg[l] EXCEPT !.pc = "dead"] EXCEPT !.o = x] = e
      BY PlaceFacts
    <3>3. Moves(l, e)
      BY <3>1, <3>2 DEF Moves
    <3> QED BY <1>2, <3>3
  <2> QED BY <2>1, <2>2, <2>3 DEF InitMeta, InitSlots, InitFail, Bind, Claim, Publish, Close
<1>5. /\ lg' \in [Loggers -> LoggerRecords] /\ LoggerInv' /\ \A k \in Loggers \ {l} : lg'[k] = lg[k]
      /\ \/ lg'[l].o = o /\ lg'[l].pc \notin {"create", "reap"} /\ lg[l].pc \notin {"create", "reap"}
         \/ lg'[l].o = 0 /\ lg[l].pc \in {"create", "reap"}
  BY <1>2, <1>4, MoveFacts DEF Busy
<1>6. \A x \in Objs : Holders(x)' = Holders(x)
  <2>1. \A x \in Objs : x # 0
    BY ObjFacts
  <2> QED BY <1>2, <1>5, <2>1 DEF Holders
<1>7. PICK e : Sound(e) /\ obj' = [obj EXCEPT ![o] = e] /\ SameRefs(e, obj[o])
  BY <1>3
<1>8. e.rc + e.lost - e.leak = obj[o].rc + obj[o].lost - obj[o].leak + 0
  BY <1>2, <1>7, FieldFacts DEF SameRefs
<1>9. Cardinality(Holders(o)') = Cardinality(Holders(o)) + 0
  BY <1>6, HoldersFinite
<1>10. /\ UNCHANGED <<c, rings>> /\ deaths' \in 0 .. MaxCrash
       /\ bound' \in [Names -> 0 .. Len(obj)] /\ \A n \in Names : bound'[n] \in {0, bound[n]}
       /\ listed' \subseteq Names
  BY NoCenter DEF LoggerStep
<1>11. e.name = obj[o].name /\ 0 \in Int
  BY <1>7 DEF SameRefs
<1>12. PICK d \in Int : d = 0
  OBVIOUS
<1>13. /\ e.rc + e.lost - e.leak = obj[o].rc + obj[o].lost - obj[o].leak + d
       /\ Cardinality(Holders(o)') = Cardinality(Holders(o)) + d
  BY <1>8, <1>9, <1>12
<1>14. \A x \in Objs \ {o} : Holders(x)' = Holders(x)
  BY <1>6
<1> QED BY <1>5, <1>7, <1>10, <1>11, <1>13, <1>14, SegmentStep

\* A logger whose reference is counted from now on.
LEMMA Joins ==
    ASSUME Inv, NEW l \in Loggers, NEW o \in Objs, l \notin Holders(o), lg[l].o \in {0, o},
           lg'[l].o = o, lg'[l].pc \notin {"create", "reap"}, \A k \in Loggers \ {l} : lg'[k] = lg[k]
    PROVE  /\ Cardinality(Holders(o)') = Cardinality(Holders(o)) + 1
           /\ \A x \in Objs \ {o} : Holders(x)' = Holders(x)
<1>1. Holders(o)' = Holders(o) \cup {l}
  BY DEF Holders
<1>2. \A x \in Objs : x # 0
  BY ObjFacts
<1>3. \A x \in Objs \ {o} : Holders(x)' = Holders(x)
  BY <1>2 DEF Holders
<1> QED BY <1>1, <1>3, HoldersFinite, FS_AddElement

\* A logger whose reference is no longer counted.
LEMMA Leaves ==
    ASSUME Inv, NEW l \in Loggers, NEW o \in Objs, l \in Holders(o),
           lg'[l].o = 0 \/ (lg'[l].o = o /\ lg'[l].pc = "reap"), \A k \in Loggers \ {l} : lg'[k] = lg[k]
    PROVE  /\ Cardinality(Holders(o)') = Cardinality(Holders(o)) + (-1)
           /\ \A x \in Objs \ {o} : Holders(x)' = Holders(x)
<1>1. \A x \in Objs : x # 0
  BY ObjFacts
<1>2. Holders(o)' = Holders(o) \ {l}
  BY <1>1 DEF Holders
<1>3. \A x \in Objs \ {o} : Holders(x)' = Holders(x)
  BY <1>1 DEF Holders
<1>4. Cardinality(Holders(o) \ {l}) = Cardinality(Holders(o)) - 1
  BY HoldersFinite, FS_RemoveElement
<1> QED BY <1>2, <1>3, <1>4, HoldersFinite

\* The header create writes: 1 replaces what was counted.
LEMMA WrittenFacts ==
    ASSUME NEW o, Sound(obj[o])
    PROVE  LET e == Written(o) IN
           /\ Sound(e) /\ e.name = obj[o].name /\ e.rc = 1 /\ e.lost = obj[o].lost + obj[o].rc
           /\ e.leak = obj[o].leak
<1>1. obj[o].rc \in Int /\ obj[o].lost \in Int
  BY FieldFacts
<1>2. PICK e : e = [obj[o] EXCEPT !.rc = 1, !.state = "Active", !.lost = obj[o].lost + obj[o].rc]
  OBVIOUS
<1>3. /\ e.name = obj[o].name /\ e.rc = 1 /\ e.lost = obj[o].lost + obj[o].rc /\ e.leak = obj[o].leak
      /\ e.q = obj[o].q
  BY <1>2 DEF Sound, Segments
<1>4. e \in Segments
  <2>1. PICK k \in Int : k = obj[o].lost + obj[o].rc
    BY <1>1
  <2>2. PICK f : f = [obj[o] EXCEPT !.rc = 1]
    OBVIOUS
  <2>3. f \in Segments
    BY <2>2 DEF Sound, Segments
  <2>4. PICK g : g = [f EXCEPT !.state = "Active"]
    OBVIOUS
  <2>5. g \in Segments
    BY <2>3, <2>4 DEF Segments
  <2>6. [g EXCEPT !.lost = k] \in Segments
    BY <2>1, <2>5 DEF Segments
  <2>7. e = [g EXCEPT !.lost = k]
    BY <1>2, <2>1, <2>2, <2>4
  <2> QED BY <2>6, <2>7
<1>5. Written(o) = e
  BY <1>2 DEF Written
<1>6. Sound(e)
  BY <1>3, <1>4 DEF Sound
<1> QED BY <1>3, <1>5, <1>6

\* create's own reference is counted by the store, or leaked by it.
LEMMA RegisterInv ==
    ASSUME Inv, NEW l \in Loggers, Register(l) \/ RegisterFail(l) \/ CreateFail(l)
    PROVE  Inv'
<1>1. lg[l].pc = "create" /\ lg[l].pc \in Busy
  BY DEF Register, RegisterFail, CreateFail, Busy
<1>2. PICK o \in Objs : o = lg[l].o /\ Sound(obj[o]) /\ o # 0
  BY <1>1, OwnSegment, ObjFacts
<1>3. PICK w : w = Written(o)
  OBVIOUS
<1>4. /\ Sound(w) /\ w.name = obj[o].name /\ w.rc = 1 /\ w.lost = obj[o].lost + obj[o].rc
      /\ w.leak = obj[o].leak
  BY <1>2, <1>3, WrittenFacts
<1>5. /\ UNCHANGED <<c, rings>> /\ deaths' \in 0 .. MaxCrash
      /\ bound' \in [Names -> 0 .. Len(obj)] /\ \A n \in Names : bound'[n] \in {0, bound[n]}
      /\ listed' \subseteq Names
  BY NoCenter DEF LoggerStep
<1>6. obj[o].rc \in Int /\ obj[o].lost \in Int /\ obj[o].leak \in Nat
  BY <1>2, FieldFacts
<1>7. l \notin Holders(o)
  BY <1>1 DEF Holders
<1>8. ASSUME NEW p \in {"made", "close"}, Goto(l, p), obj' = [obj EXCEPT ![o] = w]
      PROVE  Inv'
  <2> DEFINE e == [pc |-> p, o |-> o, own |-> lg[l].own]
  <2>1. p \in Busy \cup {"dead"} /\ o \in {0, lg[l].o}
    BY <1>2 DEF Busy
  <2>2. e \in LoggerRecords /\ [lg[l] EXCEPT !.pc = p] = e
    BY <1>2, <2>1, PlaceFacts
  <2>3. Moves(l, e)
    BY <1>8, <2>2 DEF Moves, Goto
  <2>4. e.pc \notin {"idle", "gone"} /\ e.o # 0
    BY <1>2
  <2>5. /\ lg' \in [Loggers -> LoggerRecords] /\ LoggerInv'
        /\ lg'[l] = e /\ \A k \in Loggers \ {l} : lg'[k] = lg[k]
    BY <2>3, <2>4, MoveFacts
  <2>6. lg'[l].o = o /\ lg'[l].pc \notin {"create", "reap"} /\ lg[l].o \in {0, o}
    BY <1>2, <2>5
  <2>7. /\ Cardinality(Holders(o)') = Cardinality(Holders(o)) + 1
        /\ \A x \in Objs \ {o} : Holders(x)' = Holders(x)
    BY <1>7, <2>5, <2>6, Joins
  <2>8. PICK d \in Int : d = 1
    OBVIOUS
  <2>9. w.rc + w.lost - w.leak = obj[o].rc + obj[o].lost - obj[o].leak + d
    BY <1>4, <1>6, <2>8
  <2>10. Cardinality(Holders(o)') = Cardinality(Holders(o)) + d
    BY <2>7, <2>8
  <2> HIDE DEF e
  <2> QED BY <1>4, <1>5, <1>8, <2>5, <2>7, <2>9, <2>10, SegmentStep
<1>9. CASE CreateFail(l)
  <2>1. PICK e : e = [w EXCEPT !.leak = w.leak + 1]
    OBVIOUS
  <2>2. obj' = [obj EXCEPT ![o] = e] /\ lg' = [lg EXCEPT ![l] = Gone]
    BY <1>2, <1>3, <1>9, <2>1 DEF CreateFail
  <2>3. Sound(e) /\ e.name = obj[o].name /\ e.rc = w.rc /\ e.lost = w.lost /\ e.leak = w.leak + 1
    BY <1>4, <2>1 DEF Sound, Segments
  <2>4. Moves(l, Gone) /\ Gone.pc = "gone" /\ Gone.o = 0
    BY <2>2, PlaceFacts
  <2>5. /\ lg' \in [Loggers -> LoggerRecords] /\ LoggerInv'
        /\ lg'[l] = Gone /\ \A k \in Loggers \ {l} : lg'[k] = lg[k]
    BY <2>4, MoveFacts DEF Busy
  <2>6. \A x \in Objs : Holders(x)' = Holders(x)
    <3>1. \A x \in Objs : x # 0
      BY ObjFacts
    <3> QED BY <1>1, <2>4, <2>5, <3>1 DEF Holders
  <2>7. PICK d \in Int : d = 0
    OBVIOUS
  <2>8. e.rc + e.lost - e.leak = obj[o].rc + obj[o].lost - obj[o].leak + d
    BY <1>4, <1>6, <2>3, <2>7
  <2>9. Cardinality(Holders(o)') = Cardinality(Holders(o)) + d
    BY <2>6, <2>7, HoldersFinite
  <2>10. \A x \in Objs \ {o} : Holders(x)' = Holders(x)
    BY <2>6
  <2>11. obj' = [obj EXCEPT ![o] = e] /\ lg' \in [Loggers -> LoggerRecords] /\ LoggerInv'
    BY <2>2, <2>5
  <2> QED BY <1>5, <2>3, <2>8, <2>9, <2>10, <2>11, SegmentStep
<1>10. CASE Register(l)
  BY <1>2, <1>3, <1>8, <1>10 DEF Register
<1>11. CASE RegisterFail(l)
  BY <1>2, <1>3, <1>8, <1>11 DEF RegisterFail
<1> QED BY <1>9, <1>10, <1>11

\* attach by name counts the logger in.
LEMMA AttachInv ==
    ASSUME Inv, NEW l \in Loggers, NEW n \in Names, AttachExisting(l, n)
    PROVE  Inv'
<1>1. PICK o \in Objs : o = bound[n] /\ o # 0 /\ Sound(obj[o])
  BY ObjFacts DEF AttachExisting
<1>2. obj[o].rc \in Int /\ obj[o].lost \in Int /\ obj[o].leak \in Nat
  BY <1>1, FieldFacts
<1>3. PICK w : w = [obj[o] EXCEPT !.rc = obj[o].rc + 1]
  OBVIOUS
<1>4. /\ Sound(w) /\ w.name = obj[o].name /\ w.rc = obj[o].rc + 1 /\ w.lost = obj[o].lost
      /\ w.leak = obj[o].leak
  BY <1>1, <1>2, <1>3 DEF Sound, Segments
<1>5. obj' = [obj EXCEPT ![o] = w]
  BY <1>1, <1>3 DEF AttachExisting
<1>6. /\ UNCHANGED <<c, rings>> /\ deaths' \in 0 .. MaxCrash
      /\ bound' \in [Names -> 0 .. Len(obj)] /\ \A m \in Names : bound'[m] \in {0, bound[m]}
      /\ listed' \subseteq Names
  BY NoCenter
<1> DEFINE e == [pc |-> "join", o |-> o, own |-> FALSE]
<1>7. e \in LoggerRecords /\ Moves(l, e)
  <2>1. o \in 0 .. Len(obj)
    BY <1>1, ObjFacts
  <2>2. e \in LoggerRecords
    BY <2>1 DEF LoggerRecords
  <2> QED BY <1>1, <2>2 DEF AttachExisting, Moves
<1>8. /\ lg' \in [Loggers -> LoggerRecords] /\ LoggerInv'
      /\ lg'[l] = e /\ \A k \in Loggers \ {l} : lg'[k] = lg[k]
  <2>1. e.pc \notin {"idle", "gone"} /\ e.o # 0
    BY <1>1
  <2> HIDE DEF e
  <2> QED BY <1>7, <2>1, MoveFacts
<1>9. lg[l].o = 0 /\ lg'[l].o = o /\ lg'[l].pc \notin {"create", "reap"}
  BY <1>8 DEF Inv, LoggerInv, AttachExisting
<1>10. l \notin Holders(o)
  BY <1>1, <1>9 DEF Holders
<1>11. /\ Cardinality(Holders(o)') = Cardinality(Holders(o)) + 1
       /\ \A x \in Objs \ {o} : Holders(x)' = Holders(x)
  BY <1>8, <1>9, <1>10, Joins
<1>12. PICK d \in Int : d = 1
  OBVIOUS
<1>13. w.rc + w.lost - w.leak = obj[o].rc + obj[o].lost - obj[o].leak + d
  BY <1>2, <1>4, <1>12
<1>14. Cardinality(Holders(o)') = Cardinality(Holders(o)) + d
  BY <1>11, <1>12
<1> HIDE DEF e
<1> QED BY <1>4, <1>5, <1>6, <1>8, <1>11, <1>13, <1>14, SegmentStep

\* reset counts it out.
LEMMA ReleaseInv ==
    ASSUME Inv, NEW l \in Loggers, Release(l)
    PROVE  Inv'
<1>1. lg[l].pc = "close" /\ lg[l].pc \in Busy
  BY DEF Release, Busy
<1>2. PICK o \in Objs : o = lg[l].o /\ Sound(obj[o]) /\ o # 0
  BY <1>1, OwnSegment, ObjFacts
<1>3. obj[o].rc \in Int /\ obj[o].lost \in Int /\ obj[o].leak \in Nat
  BY <1>2, FieldFacts
<1>4. PICK w : w = [obj[o] EXCEPT !.rc = obj[o].rc - 1]
  OBVIOUS
<1>5. /\ Sound(w) /\ w.name = obj[o].name /\ w.rc = obj[o].rc - 1 /\ w.lost = obj[o].lost
      /\ w.leak = obj[o].leak
  BY <1>2, <1>3, <1>4 DEF Sound, Segments
<1>6. obj' = [obj EXCEPT ![o] = w]
  BY <1>2, <1>4 DEF Release
<1>7. /\ UNCHANGED <<c, rings>> /\ deaths' \in 0 .. MaxCrash
      /\ bound' \in [Names -> 0 .. Len(obj)] /\ \A n \in Names : bound'[n] \in {0, bound[n]}
      /\ listed' \subseteq Names
  BY NoCenter DEF LoggerStep
<1>8. PICK e : Moves(l, e) /\ ((e.pc = "gone" /\ e.o = 0) \/ (e.pc = "reap" /\ e.o = o))
  <2>1. CASE lg' = [lg EXCEPT ![l] = Gone]
    BY <2>1, PlaceFacts
  <2>2. CASE lg' = [lg EXCEPT ![l] = [lg[l] EXCEPT !.pc = "reap"]]
    <3> DEFINE p == "reap" f == [pc |-> p, o |-> o, own |-> lg[l].own]
    <3>1. p \in Busy \cup {"dead"} /\ o \in {0, lg[l].o}
      BY <1>2 DEF Busy
    <3>2. f \in LoggerRecords /\ [lg[l] EXCEPT !.pc = p] = f
      <4> HIDE DEF p
      <4> QED BY <1>2, <3>1, PlaceFacts
    <3>3. Moves(l, f) /\ f.pc = "reap" /\ f.o = o
      BY <2>2, <3>2 DEF Moves
    <3> QED BY <3>3
  <2> QED BY <2>1, <2>2 DEF Release
<1>9. /\ lg' \in [Loggers -> LoggerRecords] /\ LoggerInv'
      /\ lg'[l] = e /\ \A k \in Loggers \ {l} : lg'[k] = lg[k]
  BY <1>2, <1>8, MoveFacts DEF Busy
<1>10. l \in Holders(o) /\ (lg'[l].o = 0 \/ (lg'[l].o = o /\ lg'[l].pc = "reap"))
  BY <1>1, <1>2, <1>8, <1>9 DEF Holders
<1>11. /\ Cardinality(Holders(o)') = Cardinality(Holders(o)) + (-1)
       /\ \A x \in Objs \ {o} : Holders(x)' = Holders(x)
  BY <1>9, <1>10, Leaves
<1>12. PICK d \in Int : d = -1
  OBVIOUS
<1>13. w.rc + w.lost - w.leak = obj[o].rc + obj[o].lost - obj[o].leak + d
  BY <1>3, <1>5, <1>12
<1>14. Cardinality(Holders(o)') = Cardinality(Holders(o)) + d
  BY <1>11, <1>12
<1> QED BY <1>5, <1>6, <1>7, <1>9, <1>11, <1>13, <1>14, SegmentStep

\* A new segment has no counted reference.
LEMMA CreateInv ==
    ASSUME Inv, NEW l \in Loggers, NEW n \in Names, Create(l, n)
    PROVE  Inv'
<1> DEFINE N == Len(obj) + 1
<1>1. /\ Len(obj) \in Nat /\ Objs = 1 .. Len(obj) /\ obj \in Seq(Segments)
      /\ \A o \in Objs : Sound(obj[o])
  BY ObjFacts DEF Inv, TypeOK
<1>2. NewSegment(l, n) \in Segments /\ Len(NewSegment(l, n).q) = 0
  BY LoggingAssumption DEF NewSegment, Segments
<1>3. /\ obj' \in Seq(Segments) /\ Len(obj') = N /\ Objs' = 1 .. N
      /\ obj'[N] = NewSegment(l, n) /\ \A o \in Objs : obj'[o] = obj[o]
  BY <1>1, <1>2 DEF Create, Objs
<1>4. Attached' = Attached /\ Attached \subseteq Objs /\ rings' \in Seq(Objs')
  <2>1. rings \in Seq(Objs) /\ rings' = rings
    BY DEF Inv, TypeOK, Create, others
  <2>2. Objs \subseteq Objs'
    BY <1>1, <1>3
  <2> QED BY <2>1, <2>2 DEF Attached
<1>5. bound' \in [Names -> 0 .. N] /\ \A m \in Names \ {n} : bound'[m] = bound[m]
  BY <1>1 DEF Inv, TypeOK, Create
<1>6. bound'[n] = N
  BY DEF Inv, TypeOK, Create
<1>7. lg' \in [Loggers -> LoggerRecords']
  <2>1. [pc |-> "create", o |-> N, own |-> TRUE] \in LoggerRecords'
    BY <1>1, <1>3 DEF LoggerRecords
  <2>2. lg \in [Loggers -> LoggerRecords] /\ LoggerRecords \subseteq LoggerRecords'
    BY <1>1, <1>3 DEF Inv, TypeOK, LoggerRecords
  <2> QED BY <2>1, <2>2 DEF Create
<1>8. TypeOK'
  <2>1. \A o \in Objs' : Len(obj'[o].q) <= Cap
    <3>1. \A o \in Objs : Len(obj'[o].q) <= Cap
      BY <1>1, <1>3 DEF Sound
    <3>2. Len(obj'[N].q) <= Cap
      BY <1>2, <1>3, LoggingAssumption
    <3> QED BY <1>1, <1>3, <3>1, <3>2
  <2>2. c'.gone \subseteq Attached' /\ c'.taken \in 0 .. Batch /\ deaths' \in 0 .. MaxCrash /\ listed' \subseteq Names
    BY <1>4 DEF Inv, TypeOK, Create, others
  <2> QED BY <1>3, <1>4, <1>5, <1>7, <2>1, <2>2 DEF TypeOK, LoggerRecords
<1>9. /\ lg[l].o = 0 /\ lg'[l].o = N /\ lg'[l].pc = "create"
      /\ \A k \in Loggers \ {l} : lg'[k] = lg[k]
  BY DEF Inv, TypeOK, LoggerInv, Create
<1>10. LoggerInv'
  BY <1>1, <1>9 DEF Inv, LoggerInv
<1>11. NameInv'
  <2>1. obj'[N].name = n
    BY <1>3 DEF NewSegment
  <2>2. ASSUME NEW m \in Names, m # n, bound'[m] # 0 PROVE obj'[bound'[m]].name = m
    <3>1. bound'[m] = bound[m] /\ bound[m] \in Objs
      BY <1>1, <1>5, <2>2 DEF Inv, TypeOK
    <3> QED BY <1>3, <2>2, <3>1 DEF Inv, NameInv
  <2> QED BY <1>6, <2>1, <2>2 DEF NameInv
<1>12. CenterInv'
  <2>1. Objs \subseteq Objs' /\ c' = c /\ rings' = rings
    BY <1>1, <1>3 DEF Create, others
  <2> QED BY <1>3, <2>1, KeepCenter
<1>13. RefsBalanced'
  <2> SUFFICES ASSUME NEW o \in Objs' PROVE Balanced(o)'
    BY DEF RefsBalanced, References, Balanced, Holders
  <2>0. c' = c
    BY DEF Create, others
  <2>1. CASE o \in Objs
    <3>1. Holders(o)' = Holders(o)
      BY <1>1, <1>9, <2>1 DEF Holders
    <3>2. Balanced(o)
      BY <2>1, ObjFacts
    <3> QED BY <1>3, <1>4, <2>0, <2>1, <3>1, <3>2 DEF Balanced
  <2>2. CASE o = N
    <3>1. \A k \in Loggers \ {l} : lg'[k].o # N
      <4>1. \A k \in Loggers : lg[k].o \in 0 .. Len(obj)
        BY DEF Inv, TypeOK
      <4> QED BY <1>1, <1>9, <4>1
    <3>2. Holders(o)' = {}
      BY <1>9, <2>2, <3>1 DEF Holders
    <3>3. Cardinality(Holders(o)') = 0
      BY <3>2, FS_EmptySet
    <3>4. /\ o \notin Attached' /\ obj'[o].rc = 0 /\ obj'[o].lost = 0 /\ obj'[o].leak = 0
      BY <1>1, <1>3, <1>4, <2>2 DEF NewSegment
    <3>5. o # c'.o
      <4>1. c.o \in Objs \/ c.o = 0
        BY DEF Inv, CenterInv
      <4> QED BY <1>1, <2>0, <2>2, <4>1
    <3> QED BY <3>3, <3>4, <3>5 DEF Balanced
  <2> QED BY <1>1, <1>3, <2>1, <2>2
<1> QED BY <1>8, <1>10, <1>11, <1>12, <1>13 DEF Inv

-----------------------------------------------------------------------------
(* Janitors and time *)

\* A verdict changes the state and the age of a segment, and nothing else.
LEMMA JudgedFacts ==
    ASSUME Inv, NEW o \in Objs, NEW kind
    PROVE  Sound(Judged(o, kind)) /\ SameRefs(Judged(o, kind), obj[o])
<1>1. Sound(obj[o])
  BY ObjFacts
<1>2. Sound([obj[o] EXCEPT !.state = "Dead"]) /\ SameRefs([obj[o] EXCEPT !.state = "Dead"], obj[o])
  BY <1>1, RingUpdates
<1>3. PICK e : e = [obj[o] EXCEPT !.state = "Draining", !.old = FALSE]
  OBVIOUS
<1>4. e \in Segments /\ SameRefs(e, obj[o]) /\ e.q = obj[o].q
  BY <1>1, <1>3 DEF Sound, Segments, SameRefs
<1>5. Sound(e)
  BY <1>1, <1>4 DEF Sound
<1> QED BY <1>1, <1>2, <1>3, <1>4, <1>5 DEF Judged, SameRefs

\* A step on the segments that counts nothing and concerns no process.
LEMMA QuietStep ==
    ASSUME Inv, NEW ob, obj' = ob, ob \in [Objs -> Segments],
           \A x \in Objs : Sound(ob[x]) /\ SameRefs(ob[x], obj[x]),
           UNCHANGED <<lg, c, rings, deaths>>, listed' \subseteq Names,
           bound' \in [Names -> 0 .. Len(obj)], \A n \in Names : bound'[n] \in {0, bound[n]}
    PROVE  Inv'
<1>1. Len(obj) \in Nat /\ Objs = 1 .. Len(obj)
  BY ObjFacts
<1>2. ob \in Seq(Segments) /\ Len(ob) = Len(obj) /\ Objs' = Objs
  BY <1>1 DEF Objs
<1>3. \A x \in Objs : ob[x].name = obj[x].name
  BY DEF SameRefs
<1>4. CenterInv' /\ Attached' = Attached /\ c'.gone \subseteq Attached'
  BY <1>2, <1>3, KeepCenter
<1>5. /\ rings' \in Seq(Objs) /\ c'.taken \in 0 .. Batch /\ deaths' \in 0 .. MaxCrash
      /\ lg' \in [Loggers -> LoggerRecords] /\ LoggerInv'
  BY DEF Inv, TypeOK, LoggerRecords, LoggerInv
<1>6. ASSUME NEW x \in Objs PROVE Balanced(x)'
  <2>1. Holders(x)' = Holders(x)
    BY DEF Holders
  <2>2. Balanced(x)
    BY ObjFacts
  <2> QED BY <1>4, <2>1, <2>2 DEF Balanced, SameRefs
<1> QED BY <1>2, <1>3, <1>4, <1>5, <1>6, StepInv

\* A janitor removes a segment; time passes.
LEMMA JanitorInv ==
    ASSUME Inv, JanitorAct \/ (\E n \in Names : JanitorDecide(n)) \/ TimePasses
    PROVE  Inv'
<1>0. /\ bound \in [Names -> 0 .. Len(obj)] /\ 0 \in 0 .. Len(obj) /\ listed \subseteq Names
      /\ \A o \in Objs : Sound(obj[o])
  BY ObjFacts DEF Inv, TypeOK
<1>1. CASE JanitorAct
  <2>1. PICK ob : ob = obj'
    OBVIOUS
  <2>2. ob = [o \in Objs |-> IF o = doom.o THEN Judged(o, doom.kind) ELSE obj[o]]
    BY <1>1, <2>1 DEF JanitorAct
  <2>3. \A x \in Objs : Sound(ob[x]) /\ SameRefs(ob[x], obj[x])
    BY <1>0, <2>2, JudgedFacts DEF SameRefs
  <2>4. ob \in [Objs -> Segments]
    BY <2>2, <2>3 DEF Sound
  <2>5. bound' = bound \/ \E n : bound' = [bound EXCEPT ![n] = 0]
    BY <1>1 DEF JanitorAct
  <2>6. bound' \in [Names -> 0 .. Len(obj)] /\ \A n \in Names : bound'[n] \in {0, bound[n]}
    BY <1>0, <2>5
  <2>7. UNCHANGED <<lg, c, rings, deaths>> /\ listed' \subseteq Names
    BY <1>0, <1>1 DEF JanitorAct
  <2> QED BY <2>1, <2>3, <2>4, <2>6, <2>7, QuietStep
<1>2. ASSUME NEW n \in Names, JanitorDecide(n) PROVE Inv'
  <2>1. UNCHANGED <<obj, bound, listed, lg, c, rings, deaths>>
    BY <1>2 DEF JanitorDecide
  <2>2. PICK ob : ob = obj'
    OBVIOUS
  <2>3. ob \in [Objs -> Segments] /\ \A x \in Objs : Sound(ob[x]) /\ SameRefs(ob[x], obj[x])
    BY <1>0, <2>1, <2>2 DEF SameRefs, Objs, Inv, TypeOK
  <2> QED BY <1>0, <2>1, <2>2, <2>3, QuietStep
<1>3. ASSUME NEW o \in Objs, GetLate(o) \/ GetOld(o) PROVE Inv'
  <2>1. \E e : obj' = [obj EXCEPT ![o] = e] /\ Sound(e) /\ SameRefs(e, obj[o])
    <3>1. /\ Sound([obj[o] EXCEPT !.late = TRUE])
          /\ Sound([obj[o] EXCEPT !.old = TRUE])
          /\ SameRefs([obj[o] EXCEPT !.late = TRUE], obj[o])
          /\ SameRefs([obj[o] EXCEPT !.old = TRUE], obj[o])
      BY <1>0 DEF Sound, Segments, SameRefs
    <3> QED BY <1>3, <3>1 DEF GetLate, GetOld
  <2>2. PICK e : obj' = [obj EXCEPT ![o] = e] /\ Sound(e) /\ SameRefs(e, obj[o])
    BY <2>1
  <2>3. UNCHANGED <<bound, listed, lg, c, rings, deaths>>
    BY <1>3 DEF GetLate, GetOld, others
  <2>4. PICK ob : ob = obj'
    OBVIOUS
  <2>5. obj \in [Objs -> Segments]
    BY DEF Objs, Inv, TypeOK
  <2>6. ob \in [Objs -> Segments] /\ \A x \in Objs : Sound(ob[x]) /\ SameRefs(ob[x], obj[x])
    BY <1>0, <2>2, <2>4, <2>5 DEF SameRefs, Sound
  <2> QED BY <1>0, <2>3, <2>4, <2>6, QuietStep
<1> QED BY <1>1, <1>2, <1>3 DEF TimePasses

-----------------------------------------------------------------------------
(* The center *)

\* The references to o, with rings rs and o = b being bound.
Counts(e, o, rs, b) ==
    e.rc + e.lost = Cardinality(Holders(o)) + (IF o \in Ran(rs) THEN 1 ELSE 0)
                    + (IF o = b THEN 1 ELSE 0) + e.leak

\* Segments ob and rings rs that the center may have after some of a poll, with
\* segment b being bound.
Consistent(ob, rs, b) ==
    /\ ob \in [Objs -> Segments] /\ rs \in Seq(Objs)
    /\ \A o \in Objs : Sound(ob[o]) /\ ob[o].name = obj[o].name /\ Counts(ob[o], o, rs, b)

\* Names are unbound at most, and nothing but the center moves.
CenterOnly ==
    /\ UNCHANGED <<lg, deaths>> /\ listed' \subseteq Names
    /\ bound' \in [Names -> 0 .. Len(obj)] /\ \A n \in Names : bound'[n] \in {0, bound[n]}

\* The state after a step of the center.
LEMMA CenterState ==
    ASSUME Inv, NEW ob, NEW rs, NEW b, Consistent(ob, rs, b), CenterOnly, obj' = ob, rings' = rs,
           c'.gone \subseteq Ran(rs), c'.taken \in 0 .. Batch, c'.o = b, CenterInv'
    PROVE  Inv'
<1>1. Len(obj) \in Nat /\ Objs = 1 .. Len(obj)
  BY ObjFacts
<1>2. ob \in Seq(Segments) /\ Len(ob) = Len(obj)
  BY <1>1 DEF Consistent
<1>3. Attached' = Ran(rs) /\ rings' \in Seq(Objs)
  BY DEF Consistent, Attached, Ran
<1>4. /\ deaths' \in 0 .. MaxCrash /\ lg' \in [Loggers -> LoggerRecords] /\ LoggerInv'
      /\ listed' \subseteq Names
      /\ bound' \in [Names -> 0 .. Len(obj)] /\ \A n \in Names : bound'[n] \in {0, bound[n]}
  BY DEF Inv, TypeOK, LoggerRecords, LoggerInv, CenterOnly
<1>5. ASSUME NEW x \in Objs PROVE Balanced(x)'
  <2>1. Holders(x)' = Holders(x)
    BY DEF Holders, CenterOnly
  <2>2. Counts(ob[x], x, rs, b)
    BY DEF Consistent
  <2> QED BY <1>3, <2>1, <2>2 DEF Balanced, Counts
<1>6. \A x \in Objs : Sound(ob[x]) /\ ob[x].name = obj[x].name
  BY DEF Consistent
<1>7. c'.gone \subseteq Attached'
  BY <1>3
<1> QED BY <1>2, <1>3, <1>4, <1>5, <1>6, <1>7, StepInv

\* References are added to the segments of S.
LEMMA CountedFacts ==
    ASSUME NEW ob \in [Objs -> Segments], NEW S, NEW d \in Int, \A o \in Objs : Sound(ob[o])
    PROVE  /\ Counted(ob, S, d) \in [Objs -> Segments]
           /\ \A o \in Objs :
                 LET e == Counted(ob, S, d)[o] IN
                 /\ Sound(e) /\ e.name = ob[o].name /\ e.lost = ob[o].lost /\ e.leak = ob[o].leak
                 /\ e.rc = IF o \in S THEN ob[o].rc + d ELSE ob[o].rc
<1>1. ASSUME NEW o \in Objs
      PROVE  LET e == Counted(ob, S, d)[o] IN
             /\ Sound(e) /\ e.name = ob[o].name /\ e.lost = ob[o].lost /\ e.leak = ob[o].leak
             /\ e.rc = IF o \in S THEN ob[o].rc + d ELSE ob[o].rc
  <2>1. Sound(ob[o]) /\ ob[o].rc \in Int
    BY FieldFacts
  <2>2. PICK r \in Int : r = IF o \in S THEN ob[o].rc + d ELSE ob[o].rc
    BY <2>1
  <2>3. PICK e : e = [ob[o] EXCEPT !.rc = r]
    OBVIOUS
  <2>4. Counted(ob, S, d)[o] = e
    BY <2>2, <2>3 DEF Counted
  <2>5. Sound(e) /\ e.name = ob[o].name /\ e.lost = ob[o].lost /\ e.leak = ob[o].leak /\ e.rc = r
    BY <2>1, <2>2, <2>3 DEF Sound, Segments
  <2> QED BY <2>2, <2>4, <2>5
<1>2. Counted(ob, S, d) \in [Objs -> Segments]
  <2>1. \A o \in Objs : Counted(ob, S, d)[o] \in Segments
    BY <1>1 DEF Sound
  <2> QED BY <2>1 DEF Counted
<1> QED BY <1>1, <1>2

\* drain_once comes to a ring, or gives back the handles of those marked.
LEMMA VisitInv ==
    ASSUME Inv, NEW ob, NEW rs, Consistent(ob, rs, 0), CenterOnly,
           NEW i \in Nat \ {0}, NEW gone \in SUBSET Ran(rs), Visit(ob, rs, i, gone)
    PROVE  Inv'
<1>0. Len(obj) \in Nat /\ Objs = 1 .. Len(obj)
  BY ObjFacts
<1>1. rs \in Seq(Objs) /\ Len(rs) \in Nat /\ DOMAIN rs = 1 .. Len(rs) /\ Ran(rs) \subseteq Objs
  BY DEF Consistent, Ran
<1>2. CASE i <= Len(rs)
  <2> DEFINE g == IF segment_dead(ob[rs[i]]) THEN gone \cup {rs[i]} ELSE gone
  <2>1. rings' = rs /\ obj' = ob /\ c' = [IdleCenter EXCEPT !.pc = "drain", !.at = i, !.gone = g]
    BY <1>2 DEF Visit
  <2>2. i \in DOMAIN rs /\ g \subseteq Ran(rs)
    BY <1>1, <1>2 DEF Ran
  <2>3. g \in SUBSET Nat
    BY <1>0, <1>1, <2>2
  <2> HIDE DEF g
  <2>4. c' = [pc |-> "drain", todo |-> {}, o |-> 0, at |-> i, gone |-> g, taken |-> 0]
    BY <2>1 DEF IdleCenter
  <2>5. CenterInv'
    <3>1. i \in Nat /\ i \in DOMAIN rings'
      BY <2>1, <2>2
    <3>2. c' \in CenterLocals
      BY <2>3, <2>4, <3>1 DEF CenterLocals
    <3>3. c'.pc = "drain" /\ c'.at = i /\ c'.o = 0
      BY <2>4
    <3> QED BY <3>1, <3>2, <3>3 DEF CenterInv
  <2>6. c'.gone \subseteq Ran(rs) /\ c'.taken \in 0 .. Batch /\ c'.o = 0
    BY <2>2, <2>4, LoggingAssumption
  <2> QED BY <2>1, <2>5, <2>6, CenterState
<1>3. CASE ~(i <= Len(rs))
  <2> DEFINE ob2 == Counted(ob, gone, -1) rs2 == Kept(rs, gone)
  <2>1. c' = IdleCenter /\ rings' = rs2 /\ obj' = ob2
    BY <1>3 DEF Visit
  <2>2. rs2 \in Seq(Objs) /\ Ran(rs2) = Ran(rs) \ gone
    BY <1>1, KeptFacts
  <2>3. /\ ob2 \in [Objs -> Segments]
        /\ \A o \in Objs :
              /\ Sound(ob2[o]) /\ ob2[o].name = ob[o].name
              /\ ob2[o].lost = ob[o].lost /\ ob2[o].leak = ob[o].leak
              /\ ob2[o].rc = IF o \in gone THEN ob[o].rc + (-1) ELSE ob[o].rc
    BY CountedFacts DEF Consistent
  <2>4. ASSUME NEW o \in Objs PROVE Counts(ob2[o], o, rs2, 0)
    <3>1. /\ ob[o].rc \in Int /\ ob[o].lost \in Int /\ ob[o].leak \in Nat
          /\ Cardinality(Holders(o)) \in Nat /\ o # 0
      BY <1>0, HoldersFinite, FieldFacts DEF Consistent
    <3>2. ob[o].rc + ob[o].lost = Cardinality(Holders(o)) + (IF o \in Ran(rs) THEN 1 ELSE 0) + ob[o].leak
      BY <3>1 DEF Consistent, Counts
    <3>3. /\ ob2[o].lost = ob[o].lost /\ ob2[o].leak = ob[o].leak
          /\ ob2[o].rc = IF o \in gone THEN ob[o].rc + (-1) ELSE ob[o].rc
      BY <2>3
    <3>4. o \in Ran(rs2) <=> o \in Ran(rs) /\ o \notin gone
      BY <2>2
    <3>5. o \in gone => o \in Ran(rs)
      OBVIOUS
    <3> HIDE DEF ob2, rs2
    <3>6. ob2[o].rc + ob2[o].lost
             = Cardinality(Holders(o)) + (IF o \in Ran(rs2) THEN 1 ELSE 0) + ob2[o].leak
      BY <3>1, <3>2, <3>3, <3>4, <3>5
    <3>7. ob2[o].leak \in Nat
      BY <3>1, <3>3
    <3> QED BY <3>1, <3>6, <3>7 DEF Counts
  <2>5. Consistent(ob2, rs2, 0)
    BY <2>2, <2>3, <2>4 DEF Consistent
  <2>6. CenterInv' /\ c'.gone \subseteq Ran(rs2) /\ c'.taken \in 0 .. Batch /\ c'.o = 0
    BY <2>1, LoggingAssumption DEF CenterInv, CenterLocals, IdleCenter
  <2> HIDE DEF ob2, rs2
  <2> QED BY <2>1, <2>5, <2>6, CenterState
<1> QED BY <1>2, <1>3

\* discover_once goes on with names of which no ring is attached, or ends.
LEMMA DiscoverInv ==
    ASSUME Inv, NEW ob, NEW rs, Consistent(ob, rs, 0), CenterOnly, NEW left \in SUBSET Names,
           \A n \in left : \A o \in Ran(rs) : obj[o].name # n, Discover(ob, rs, left)
    PROVE  Inv'
<1>1. CASE left = {}
  BY <1>1, VisitInv DEF Discover
<1>2. CASE left # {}
  <2>1. /\ rings' = rs /\ obj' = ob
        /\ c' = [pc |-> "attach", todo |-> left, o |-> 0, at |-> 0, gone |-> {}, taken |-> 0]
    BY <1>2 DEF Discover, IdleCenter
  <2>2. Ran(rs) \subseteq Objs /\ Attached' = Ran(rs)
    BY <2>1 DEF Consistent, Ran, Attached
  <2>3. CenterInv'
    BY <1>2, <2>1, <2>2 DEF CenterInv, CenterLocals, Consistent
  <2>4. c'.gone \subseteq Ran(rs) /\ c'.taken \in 0 .. Batch /\ c'.o = 0
    BY <2>1, LoggingAssumption
  <2> QED BY <2>1, <2>3, <2>4, CenterState
<1> QED BY <1>1, <1>2

\* The segments and rings as they are.
LEMMA AsIs ==
    ASSUME Inv
    PROVE  Consistent(obj, rings, c.o) /\ Ran(rings) = Attached /\ Attached \subseteq Objs
<1>1. Ran(rings) = Attached /\ Attached \subseteq Objs
  BY DEF Ran, Attached, Inv, TypeOK
<1>2. \A o \in Objs : Counts(obj[o], o, rings, c.o)
  BY <1>1, ObjFacts DEF Balanced, Counts
<1>3. obj \in [Objs -> Segments] /\ rings \in Seq(Objs)
  BY DEF Inv, TypeOK, Objs
<1> QED BY <1>1, <1>2, <1>3, ObjFacts DEF Consistent

\* The center's own sweep counts nothing and binds no name anew.
LEMMA SweepFacts ==
    ASSUME Inv
    PROVE  /\ Consistent(Swept, rings, c.o)
           /\ SweptBound \in [Names -> 0 .. Len(obj)] /\ SweptListed \subseteq Names
           /\ \A n \in Names : SweptBound[n] \in {0, bound[n]}
<1>0. /\ Len(obj) \in Nat /\ Objs = 1 .. Len(obj) /\ \A o \in Objs : Sound(obj[o])
      /\ bound \in [Names -> 0 .. Len(obj)] /\ listed \subseteq Names
  BY ObjFacts DEF Inv, TypeOK
<1>1. \A o \in Objs : Sound(Swept[o]) /\ SameRefs(Swept[o], obj[o])
  BY <1>0, JudgedFacts DEF Swept, SameRefs
<1>2. Swept \in [Objs -> Segments]
  BY <1>1 DEF Swept, Sound
<1>3. Consistent(Swept, rings, c.o)
  BY <1>1, <1>2, AsIs DEF Consistent, Counts, SameRefs
<1>4. \A n \in Names : SweptBound[n] \in {0, bound[n]}
  BY <1>0 DEF SweptBound
<1>5. SweptBound \in [Names -> 0 .. Len(obj)]
  <2>1. \A n \in Names : SweptBound[n] \in 0 .. Len(obj)
    BY <1>0, <1>4
  <2> QED BY <2>1 DEF SweptBound
<1>6. SweptListed \subseteq Names
  BY <1>0 DEF SweptListed
<1> QED BY <1>3, <1>4, <1>5, <1>6

LEMMA PollInv ==
    ASSUME Inv, Poll
    PROVE  Inv'
<1> DEFINE left == {n \in SweptListed : \A o \in Attached : obj[o].name # n}
<1>1. c.o = 0
  BY DEF Inv, CenterInv, Poll
<1>2. Consistent(Swept, rings, 0) /\ CenterOnly
  BY <1>1, SweepFacts DEF Poll, CenterOnly
<1>3. Discover(Swept, rings, left)
  BY DEF Poll
<1>4. left \in SUBSET Names /\ \A n \in left : \A o \in Ran(rings) : obj[o].name # n
  BY AsIs, SweepFacts
<1> HIDE DEF left
<1> QED BY <1>2, <1>3, <1>4, DiscoverInv

\* The first name still to be attached.
LEMMA TodoFacts ==
    ASSUME Inv, c.pc \in {"attach", "bind"}
    PROVE  /\ c.todo \in SUBSET Names /\ First(c.todo) \in c.todo
           /\ \A n \in c.todo : \A o \in Attached : obj[o].name # n
<1>1. /\ c.todo \in SUBSET Names /\ c.todo # {}
      /\ \A n \in c.todo : \A o \in Attached : obj[o].name # n
  BY DEF Inv, CenterInv, CenterLocals
<1>2. c.todo \in SUBSET Nat
  BY <1>1, LoggingAssumption
<1> QED BY <1>1, <1>2, FirstIn

\* The handle on the segment to be bound is counted.
LEMMA AttachRingInv ==
    ASSUME Inv, AttachRing
    PROVE  Inv'
<1>1. PICK n : n = First(c.todo)
  OBVIOUS
<1>2. c.pc = "attach" /\ c.o = 0 /\ n \in Names /\ n \in c.todo
  BY <1>1, TodoFacts DEF Inv, CenterInv, AttachRing
<1>3. PICK o : o = SweptBound[n]
  OBVIOUS
<1>4. Consistent(Swept, rings, 0) /\ CenterOnly
  BY <1>2, SweepFacts DEF AttachRing, CenterOnly
<1>5. CASE Visit(Swept, rings, 1, {})
  BY <1>4, <1>5, VisitInv
<1>6. CASE /\ o # 0 /\ obj' = Counted(Swept, {o}, 1) /\ rings' = rings
           /\ c' = [c EXCEPT !.pc = "bind", !.o = o]
  <2>1. Len(obj) \in Nat /\ Objs = 1 .. Len(obj)
    BY ObjFacts
  <2>2. o \in Objs /\ obj[o].name = n
    <3>1. o = bound[n] /\ o \in 0 .. Len(obj)
      BY <1>2, <1>3, <1>6, SweepFacts
    <3> QED BY <1>2, <1>6, <2>1, <3>1 DEF Inv, NameInv
  <2> DEFINE ob == Counted(Swept, {o}, 1)
  <2>3. /\ ob \in [Objs -> Segments]
        /\ \A x \in Objs :
              /\ Sound(ob[x]) /\ ob[x].name = Swept[x].name
              /\ ob[x].lost = Swept[x].lost /\ ob[x].leak = Swept[x].leak
              /\ ob[x].rc = IF x \in {o} THEN Swept[x].rc + 1 ELSE Swept[x].rc
    BY <1>4, CountedFacts DEF Consistent
  <2>4. ASSUME NEW x \in Objs PROVE Counts(ob[x], x, rings, o)
    <3>1. /\ Swept[x].rc \in Int /\ Swept[x].lost \in Int /\ Swept[x].leak \in Nat
          /\ Cardinality(Holders(x)) \in Nat /\ x # 0
      BY <1>4, <2>1, HoldersFinite, FieldFacts DEF Consistent
    <3>2. PICK a \in Nat : a = IF x \in Ran(rings) THEN 1 ELSE 0
      OBVIOUS
    <3>3. Swept[x].rc + Swept[x].lost = Cardinality(Holders(x)) + a + Swept[x].leak
      BY <1>4, <3>1, <3>2 DEF Consistent, Counts
    <3>4. /\ ob[x].lost = Swept[x].lost /\ ob[x].leak = Swept[x].leak
          /\ ob[x].rc = IF x = o THEN Swept[x].rc + 1 ELSE Swept[x].rc
      BY <2>3
    <3> HIDE DEF ob
    <3>5. ob[x].rc + ob[x].lost = Cardinality(Holders(x)) + a + (IF x = o THEN 1 ELSE 0) + ob[x].leak
      BY <3>1, <3>2, <3>3, <3>4
    <3> QED BY <3>2, <3>5 DEF Counts
  <2>5. Consistent(ob, rings, o)
    BY <1>4, <2>3, <2>4 DEF Consistent
  <2>6. c \in CenterLocals /\ o \in Nat
    BY <2>1, <2>2 DEF Inv, CenterInv
  <2>7. /\ c' \in CenterLocals /\ c'.pc = "bind" /\ c'.o = o /\ c'.todo = c.todo
        /\ c'.gone = c.gone /\ c'.taken = c.taken
    BY <1>6, <2>6 DEF CenterLocals
  <2>8. Objs' = Objs /\ obj'[o].name = n /\ Attached' = Attached
    BY <1>4, <1>6, <2>2, <2>3 DEF Objs, Attached, Consistent
  <2>9. \A m \in c.todo : \A x \in Attached : obj'[x].name # m
    BY <1>2, <1>4, <1>6, <2>3, AsIs, TodoFacts DEF Consistent
  <2>10. CenterInv'
    BY <1>1, <1>2, <2>2, <2>7, <2>8, <2>9 DEF CenterInv
  <2>11. c'.gone \subseteq Ran(rings) /\ c'.taken \in 0 .. Batch
    BY <2>7, AsIs DEF Inv, TypeOK
  <2> HIDE DEF ob
  <2>12. obj' = ob
    BY <1>6 DEF ob
  <2> QED BY <1>4, <1>6, <2>5, <2>7, <2>10, <2>11, <2>12, CenterState
<1> QED BY <1>1, <1>3, <1>5, <1>6 DEF AttachRing

\* The reference passes from the locals to rings_, which did not have the
\* segment: its name was still to be attached.  Or it is given back.
LEMMA BindRingInv ==
    ASSUME Inv, BindRing
    PROVE  Inv'
<1>1. PICK n : n = First(c.todo)
  OBVIOUS
<1>2. PICK o \in Objs : o = c.o /\ obj[o].name = n
  BY <1>1 DEF Inv, CenterInv, BindRing
<1>3. /\ c.todo \in SUBSET Names /\ n \in c.todo
      /\ \A m \in c.todo : \A x \in Attached : obj[x].name # m
  BY <1>1, TodoFacts DEF BindRing
<1>4. Consistent(obj, rings, o) /\ CenterOnly /\ Ran(rings) = Attached /\ rings \in Seq(Objs)
  BY <1>2, AsIs DEF CenterOnly, BindRing, Inv, TypeOK
<1>5. o \notin Attached
  BY <1>2, <1>3
<1>6. ASSUME NEW x \in Objs
      PROVE  /\ obj[x].rc \in Int /\ obj[x].lost \in Int /\ obj[x].leak \in Nat
             /\ Cardinality(Holders(x)) \in Nat /\ x # 0
             /\ obj[x].rc + obj[x].lost = Cardinality(Holders(x)) + (IF x \in Ran(rings) THEN 1 ELSE 0)
                                          + (IF x = o THEN 1 ELSE 0) + obj[x].leak
  BY <1>4, ObjFacts, HoldersFinite, FieldFacts DEF Consistent, Counts
<1>7. CASE Discover(obj, Append(rings, c.o), c.todo \ {First(c.todo)})
  <2> DEFINE rs == Append(rings, o)
  <2>1. rs \in Seq(Objs) /\ Ran(rs) = Attached \cup {o}
    <3>1. /\ rs \in Seq(Objs) /\ Len(rs) = Len(rings) + 1 /\ rs[Len(rings) + 1] = o
          /\ \A i \in 1 .. Len(rings) : rs[i] = rings[i]
      BY <1>4
    <3>2. DOMAIN rings = 1 .. Len(rings) /\ DOMAIN rs = 1 .. Len(rings) + 1 /\ Len(rings) \in Nat
      BY <1>4, <3>1
    <3> HIDE DEF rs
    <3> QED BY <3>1, <3>2 DEF Ran, Attached
  <2> HIDE DEF rs
  <2>2. ASSUME NEW x \in Objs PROVE Counts(obj[x], x, rs, 0)
    <3>1. x \in Ran(rs) <=> x \in Ran(rings) \/ x = o
      BY <1>4, <2>1
    <3>2. o \notin Ran(rings)
      BY <1>4, <1>5
    <3>3. obj[x].rc + obj[x].lost = Cardinality(Holders(x)) + (IF x \in Ran(rs) THEN 1 ELSE 0) + obj[x].leak
      BY <1>6, <3>1, <3>2
    <3> QED BY <1>6, <3>3 DEF Counts
  <2>3. Consistent(obj, rs, 0)
    BY <1>4, <2>1, <2>2 DEF Consistent
  <2>4. \A m \in c.todo \ {n} : \A x \in Ran(rs) : obj[x].name # m
    BY <1>2, <1>3, <2>1
  <2>5. Discover(obj, rs, c.todo \ {n}) /\ c.todo \ {n} \in SUBSET Names
    BY <1>1, <1>2, <1>3, <1>7 DEF rs
  <2> QED BY <1>4, <2>3, <2>4, <2>5, DiscoverInv
<1>8. CASE Visit(Counted(obj, {c.o}, -1), rings, 1, {})
  <2> DEFINE ob == Counted(obj, {o}, -1)
  <2>1. /\ ob \in [Objs -> Segments]
        /\ \A x \in Objs :
              /\ Sound(ob[x]) /\ ob[x].name = obj[x].name
              /\ ob[x].lost = obj[x].lost /\ ob[x].leak = obj[x].leak
              /\ ob[x].rc = IF x \in {o} THEN obj[x].rc + (-1) ELSE obj[x].rc
    BY <1>4, CountedFacts DEF Consistent
  <2>2. ASSUME NEW x \in Objs PROVE Counts(ob[x], x, rings, 0)
    <3>1. PICK a \in Nat : a = IF x \in Ran(rings) THEN 1 ELSE 0
      OBVIOUS
    <3>2. /\ ob[x].lost = obj[x].lost /\ ob[x].leak = obj[x].leak
          /\ ob[x].rc = IF x = o THEN obj[x].rc + (-1) ELSE obj[x].rc
      BY <2>1
    <3> HIDE DEF ob
    <3>3. ob[x].rc + ob[x].lost = Cardinality(Holders(x)) + a + ob[x].leak
      BY <1>6, <3>1, <3>2
    <3>4. ob[x].leak \in Nat
      BY <1>6, <3>2
    <3> QED BY <1>6, <3>1, <3>3, <3>4 DEF Counts
  <2>3. Consistent(ob, rings, 0)
    BY <1>4, <2>1, <2>2 DEF Consistent
  <2> HIDE DEF ob
  <2>4. Visit(ob, rings, 1, {})
    BY <1>2, <1>8 DEF ob
  <2> QED BY <1>4, <2>3, <2>4, VisitInv
<1> QED BY <1>7, <1>8 DEF BindRing

\* A record is freed in the ring drain_ring is at.
LEMMA PopInv ==
    ASSUME Inv, Pop
    PROVE  Inv'
<1>0. c.at \in DOMAIN rings /\ rings \in Seq(Objs) /\ c.pc = "drain" /\ c.o = 0
  BY DEF Inv, TypeOK, CenterInv, Pop
<1>1. PICK o \in Objs : o = rings[c.at] /\ Sound(obj[o])
  BY <1>0, ObjFacts
<1>2. PICK q : q = Tail(obj[o].q)
  OBVIOUS
<1>3. q \in Seq(Loggers \cup {"ready"}) /\ Len(q) <= Cap
  <2>1. obj[o].q \in Seq(Loggers \cup {"ready"}) /\ obj[o].q # <<>> /\ Len(obj[o].q) \in 0 .. Cap
    BY <1>1, FieldFacts DEF Pop, Poppable
  <2>2. q \in Seq(Loggers \cup {"ready"}) /\ Len(q) = Len(obj[o].q) - 1
    BY <1>2, <2>1
  <2> QED BY <2>1, <2>2, LoggingAssumption
<1>4. PICK e : e = [obj[o] EXCEPT !.q = q]
  OBVIOUS
<1>5. Sound(e) /\ SameRefs(e, obj[o])
  BY <1>1, <1>3, <1>4, RingUpdates
<1>6. /\ obj' = [obj EXCEPT ![o] = e] /\ UNCHANGED <<bound, listed, lg, rings, deaths>>
      /\ c' = [c EXCEPT !.pc = "pop"] /\ c.taken < Batch
  BY <1>1, <1>2, <1>4 DEF Pop
<1>7. PICK ob : ob = obj'
  OBVIOUS
<1>8. obj \in [Objs -> Segments] /\ Consistent(obj, rings, 0) /\ Ran(rings) = Attached
  BY <1>0, AsIs DEF Consistent
<1>9. ob \in [Objs -> Segments] /\ \A x \in Objs : Sound(ob[x]) /\ SameRefs(ob[x], obj[x])
  BY <1>5, <1>6, <1>7, <1>8, ObjFacts DEF Sound, SameRefs
<1>10. Consistent(ob, rings, 0) /\ CenterOnly
  BY <1>6, <1>8, <1>9 DEF Consistent, Counts, SameRefs, CenterOnly, Inv, TypeOK
<1>11. c \in CenterLocals /\ c.gone \subseteq Attached /\ c.taken \in 0 .. Batch
  BY DEF Inv, CenterInv, TypeOK
<1>12. /\ c' \in CenterLocals /\ c'.pc = "pop" /\ c'.at = c.at /\ c'.o = 0 /\ c'.gone = c.gone
       /\ c'.taken = c.taken
  BY <1>0, <1>6, <1>11 DEF CenterLocals
<1>13. CenterInv'
  BY <1>0, <1>6, <1>12 DEF CenterInv
<1>14. rings' = rings /\ c'.gone \subseteq Ran(rings) /\ c'.taken \in 0 .. Batch
  BY <1>6, <1>8, <1>11, <1>12
<1> QED BY <1>7, <1>10, <1>12, <1>13, <1>14, CenterState

\* It is counted when the head moves.
LEMMA PopHeadInv ==
    ASSUME Inv, PopHead
    PROVE  Inv'
<1>1. /\ c.at \in DOMAIN rings /\ c.o = 0 /\ c.taken < Batch /\ c \in CenterLocals
      /\ c.gone \subseteq Attached /\ c.taken \in 0 .. Batch
  BY DEF Inv, TypeOK, CenterInv, PopHead
<1>2. c' = [c EXCEPT !.pc = "drain", !.taken = c.taken + 1] /\ UNCHANGED <<obj, bound, listed, lg, rings, deaths>>
  BY DEF PopHead
<1>3. /\ c' \in CenterLocals /\ c'.pc = "drain" /\ c'.at = c.at /\ c'.o = 0 /\ c'.gone = c.gone
      /\ c'.taken = c.taken + 1
  <2>1. PICK k \in Nat : k = c.taken + 1
    BY <1>1
  <2>2. c' = [c EXCEPT !.pc = "drain", !.taken = k]
    BY <1>2, <2>1
  <2>3. c' \in CenterLocals
    BY <1>1, <2>1, <2>2 DEF CenterLocals
  <2> QED BY <1>1, <2>1, <2>2, <2>3 DEF CenterLocals
<1>4. CenterInv'
  BY <1>1, <1>2, <1>3 DEF CenterInv
<1>5. Consistent(obj, rings, 0) /\ CenterOnly /\ Ran(rings) = Attached
  BY <1>1, <1>2, AsIs DEF CenterOnly, Inv, TypeOK
<1>6. c'.gone \subseteq Ran(rings) /\ c'.taken \in 0 .. Batch
  BY <1>1, <1>3, <1>5, LoggingAssumption
<1>7. PICK ob, rs : ob = obj /\ rs = rings
  OBVIOUS
<1>8. Consistent(ob, rs, 0) /\ obj' = ob /\ rings' = rs /\ c'.gone \subseteq Ran(rs)
  BY <1>2, <1>5, <1>6, <1>7
<1> QED BY <1>3, <1>4, <1>5, <1>6, <1>8, CenterState

\* The next ring's turn.
LEMMA EndRingInv ==
    ASSUME Inv, EndRing
    PROVE  Inv'
<1>1. Consistent(obj, rings, 0) /\ CenterOnly
  BY AsIs DEF CenterOnly, EndRing, Inv, TypeOK, CenterInv
<1>2. c.at + 1 \in Nat \ {0} /\ c.gone \in SUBSET Ran(rings)
  BY AsIs DEF Inv, TypeOK, CenterInv, CenterLocals
<1> QED BY <1>1, <1>2, VisitInv DEF EndRing

\* The references of a center that dies are leaked, not forgotten.
LEMMA CenterDieInv ==
    ASSUME Inv, CenterDie
    PROVE  Inv'
<1>1. /\ Len(obj) \in Nat /\ Objs = 1 .. Len(obj) /\ Attached \subseteq Objs
      /\ \A o \in Objs : Sound(obj[o]) /\ Balanced(o)
  BY ObjFacts, AsIs
<1>2. PICK ob : ob = obj'
  OBVIOUS
<1>3. ASSUME NEW o \in Objs
      PROVE  /\ Sound(ob[o]) /\ ob[o].name = obj[o].name /\ ob[o].rc = obj[o].rc /\ ob[o].lost = obj[o].lost
             /\ ob[o].leak = IF o \in Attached \/ o = c.o THEN obj[o].leak + 1 ELSE obj[o].leak
  <2>1. obj[o].leak \in Nat /\ Sound(obj[o])
    BY <1>1, FieldFacts
  <2>2. PICK k \in Nat : k = IF o \in Attached \/ o = c.o THEN obj[o].leak + 1 ELSE obj[o].leak
    BY <2>1
  <2>3. PICK f : f = [obj[o] EXCEPT !.leak = k]
    OBVIOUS
  <2>4. /\ Sound(f) /\ f.name = obj[o].name /\ f.rc = obj[o].rc /\ f.lost = obj[o].lost /\ f.leak = k
        /\ f.ring = obj[o].ring /\ f.q = obj[o].q
    BY <2>1, <2>2, <2>3 DEF Sound, Segments
  <2>5. PICK r : r = IF c.pc = "pop" /\ o = rings[c.at] THEN "broken" ELSE obj[o].ring
    OBVIOUS
  <2>6. PICK q : q = IF c.pc = "pop" /\ o = rings[c.at] THEN <<>> ELSE obj[o].q
    OBVIOUS
  <2>7. /\ r \in {"zero", "half", "ok", "broken"}
        /\ q \in Seq(Loggers \cup {"ready"}) /\ Len(q) <= Cap
    BY <2>1, <2>5, <2>6, LoggingAssumption DEF Sound, Segments
  <2>8. PICK g : g = [f EXCEPT !.ring = r]
    OBVIOUS
  <2>9. Sound(g) /\ SameRefs(g, f)
    BY <2>4, <2>7, <2>8, RingUpdates
  <2>10. PICK h : h = [g EXCEPT !.q = q]
    OBVIOUS
  <2>11. Sound(h) /\ SameRefs(h, g)
    BY <2>7, <2>9, <2>10, RingUpdates
  <2>12. ob[o] = [obj[o] EXCEPT !.leak = k, !.ring = r, !.q = q]
    BY <1>2, <2>2, <2>5, <2>6 DEF CenterDie
  <2>13. ob[o] = h
    BY <2>3, <2>8, <2>10, <2>12
  <2> QED BY <2>2, <2>4, <2>9, <2>11, <2>13 DEF SameRefs
<1>4. ob \in Seq(Segments) /\ Len(ob) = Len(obj)
  <2>1. ob \in [1 .. Len(obj) -> Segments]
    <3>1. \A o \in Objs : ob[o] \in Segments
      BY <1>3 DEF Sound
    <3> QED BY <1>1, <1>2, <3>1 DEF CenterDie
  <2> QED BY <1>1, <2>1
<1>5. /\ rings' = <<>> /\ rings' \in Seq(Objs) /\ Attached' = {} /\ c' = IdleCenter
      /\ UNCHANGED <<bound, listed, lg>> /\ deaths' \in 0 .. MaxCrash
  <2>1. /\ rings' = <<>> /\ c' = IdleCenter /\ UNCHANGED <<bound, listed, lg>>
        /\ deaths' = deaths + 1 /\ deaths < MaxCrash
    BY DEF CenterDie
  <2>2. deaths' \in 0 .. MaxCrash
    BY <2>1, LoggingAssumption DEF Inv, TypeOK
  <2>3. rings' \in Seq(Objs) /\ Attached' = {}
    BY <2>1 DEF Attached
  <2> QED BY <2>1, <2>2, <2>3
<1>6. /\ c'.gone \subseteq Attached' /\ c'.taken \in 0 .. Batch /\ CenterInv' /\ c'.o = 0
  BY <1>5, LoggingAssumption DEF IdleCenter, CenterInv, CenterLocals
<1>7. /\ lg' \in [Loggers -> LoggerRecords] /\ LoggerInv' /\ listed' \subseteq Names
      /\ bound' \in [Names -> 0 .. Len(obj)] /\ \A n \in Names : bound'[n] \in {0, bound[n]}
  BY <1>5 DEF Inv, TypeOK, LoggerRecords, LoggerInv
<1>8. ASSUME NEW o \in Objs PROVE Balanced(o)'
  <2>1. Holders(o)' = Holders(o)
    BY <1>5 DEF Holders
  <2>2. /\ Balanced(o) /\ Cardinality(Holders(o)) \in Nat /\ obj[o].leak \in Nat /\ o # 0
        /\ obj[o].rc \in Int /\ obj[o].lost \in Int
    BY <1>1, HoldersFinite, FieldFacts
  <2>3. ~(o \in Attached /\ o = c.o)
    <3>1. CASE c.pc = "bind"
      <4>1. obj[c.o].name \in c.todo /\ \A x \in Attached : obj[x].name # obj[c.o].name
        BY <3>1, TodoFacts DEF Inv, CenterInv
      <4> QED BY <4>1
    <3>2. CASE c.pc # "bind"
      BY <2>2, <3>2 DEF Inv, CenterInv
    <3> QED BY <3>1, <3>2
  <2>4. obj[o].rc + obj[o].lost = Cardinality(Holders(o)) + (IF o \in Attached \/ o = c.o THEN 1 ELSE 0) + obj[o].leak
    BY <2>2, <2>3 DEF Balanced
  <2>5. ob[o].rc + ob[o].lost = Cardinality(Holders(o)) + ob[o].leak
    BY <1>3, <2>2, <2>4
  <2>6. o \notin Attached' /\ o # c'.o /\ ob[o].leak \in Nat
    BY <1>3, <1>5, <1>6, <2>2
  <2> QED BY <1>2, <2>1, <2>2, <2>5, <2>6 DEF Balanced
<1>9. \A x \in Objs : Sound(ob[x]) /\ ob[x].name = obj[x].name
  BY <1>3
<1> QED BY <1>2, <1>4, <1>5, <1>6, <1>7, <1>8, <1>9, StepInv

-----------------------------------------------------------------------------
(* Theorems *)

LEMMA NextInv == Inv /\ [Next]_vars => Inv'
<1> SUFFICES ASSUME Inv, [Next]_vars PROVE Inv'
  OBVIOUS
<1>1. CASE UNCHANGED vars
  <2>1. TypeOK'
    BY <1>1 DEF vars, Inv, TypeOK, Attached, Objs
  <2>2. LoggerInv' /\ NameInv'
    BY <1>1 DEF vars, Inv, LoggerInv, NameInv
  <2>3. CenterInv'
    BY <1>1 DEF vars, Inv, CenterInv, Attached, Objs
  <2>4. RefsBalanced'
    BY <1>1 DEF vars, Inv, RefsBalanced, References, Attached, Objs
  <2> QED BY <2>1, <2>2, <2>3, <2>4 DEF Inv
<1>2. ASSUME NEW l \in Loggers, LoggerStep(l) \/ Claim(l) \/ Close(l) \/ Die(l) PROVE Inv'
  BY <1>2, LoggerQuietInv, RegisterInv, ReleaseInv DEF LoggerStep
<1>3. CASE CenterStep \/ CenterDie
  BY <1>3, PollInv, AttachRingInv, BindRingInv, PopInv, PopHeadInv, EndRingInv, CenterDieInv DEF CenterStep
<1> QED BY <1>1, <1>2, <1>3, CreateInv, AttachInv, JanitorInv DEF Next

LEMMA Invariance == FairSpec => []Inv
  BY InitInv, NextInv, PTL DEF FairSpec

\* Types: no ring holds more than record_max records, no drain takes more
\* than drain_batch, every name, handle and ring of the center refers to a
\* segment that exists.  (It does not say that a count is never negative: one
\* that create's store overwrote may be.)
THEOREM TypeCorrect == FairSpec => []TypeOK
<1>1. Inv => TypeOK
  BY DEF Inv
<1> QED BY <1>1, Invariance, PTL

\* References balance for any number of loggers, rings and deaths: a failed
\* create or bind, a detached ring, a logger that closes and a restarted
\* center each leave exactly the references of those that hold a handle or
\* died with one, less those that create's plain store of 1 wrote over.
THEOREM ReferencesBalanced == FairSpec => []RefsBalanced
<1>1. Inv => RefsBalanced
  BY DEF Inv
<1> QED BY <1>1, Invariance, PTL
=============================================================================
