----------------------------- MODULE QuotaProofs ----------------------------
(***************************************************************************)
(* Proofs about Admission: the sum of the sizes in the registry, in any    *)
(* order, and how far creates that overlap pass the quota.                 *)
(***************************************************************************)
EXTENDS AdmissionProofs

-----------------------------------------------------------------------------
(* Sums *)

One(s) == CHOOSE x \in s : TRUE

\* g sums up every set of entries of S, in the order of One.
IsSum(g, S) ==
    g = [s \in SUBSET S |-> IF s = {} THEN 0 ELSE One(s).total_size + g[s \ {One(s)}]]

Sums(g, S) ==
    \A s \in SUBSET S : g[s] = IF s = {} THEN 0 ELSE One(s).total_size + g[s \ {One(s)}]

\* The same, in every order.
Adds(g, S) ==
    /\ g \in [SUBSET S -> Nat] /\ g[{}] = 0
    /\ \A s \in SUBSET S : \A x \in s : g[s] = x.total_size + g[s \ {x}]

Sized(S) == IsFiniteSet(S) /\ \A e \in S : e.total_size \in Nat

LEMMA OneIn == ASSUME NEW s, s # {} PROVE One(s) \in s
BY Zenon DEF One

LEMMA BytesIsSum ==
    ASSUME NEW S
    PROVE  Bytes(S) = (CHOOSE g : IsSum(g, S))[S]
BY DEF Bytes, MapThenSumSet, MapThenFoldSet, IsSum, One

LEMMA AddsSum == ASSUME NEW S, NEW g, Adds(g, S) PROVE IsSum(g, S) /\ Sums(g, S)
<1>1. ASSUME NEW s \in SUBSET S PROVE g[s] = IF s = {} THEN 0 ELSE One(s).total_size + g[s \ {One(s)}]
  <2>1. CASE s = {}
    BY <2>1 DEF Adds
  <2>2. CASE s # {}
    <3>1. One(s) \in s
      BY <2>2, OneIn
    <3> QED BY <2>2, <3>1 DEF Adds
  <2> QED BY <2>1, <2>2
<1>2. g = [s \in SUBSET S |-> g[s]]
  BY DEF Adds
<1> QED BY <1>1, <1>2 DEF IsSum, Sums

\* There is such a function, one entry more at a time.
LEMMA AddsExists == ASSUME NEW S, Sized(S) PROVE \E g : Adds(g, S)
<1> DEFINE P == {n \in Nat : \A T : Sized(T) /\ Cardinality(T) = n => \E g : Adds(g, T)}
<1>1. 0 \in P
  <2> SUFFICES ASSUME NEW T, Sized(T), Cardinality(T) = 0 PROVE \E g : Adds(g, T)
    OBVIOUS
  <2>1. T = {}
    BY FS_EmptySet DEF Sized
  <2>2. PICK g : g = [s \in SUBSET {} |-> 0]
    OBVIOUS
  <2>3. g \in [SUBSET {} -> Nat] /\ g[{}] = 0 /\ \A s \in SUBSET {} : s = {}
    BY <2>2
  <2>4. Adds(g, {})
    BY <2>3 DEF Adds
  <2> QED BY <2>1, <2>4
<1>2. ASSUME NEW n \in P PROVE n + 1 \in P
  <2> SUFFICES ASSUME NEW T, Sized(T), Cardinality(T) = n + 1 PROVE \E g : Adds(g, T)
    OBVIOUS
  <2>1. n \in Nat /\ IsFiniteSet(T)
    BY DEF Sized
  <2>2. T # {}
    BY <2>1, FS_EmptySet
  <2>3. PICK y \in T : TRUE
    BY <2>2
  <2>4. PICK R : R = T \ {y}
    OBVIOUS
  <2>5. Sized(R) /\ Cardinality(R) = n
    <3>1. IsFiniteSet(R) /\ Cardinality(R) = Cardinality(T) - 1
      BY <2>1, <2>3, <2>4, FS_RemoveElement
    <3> QED BY <2>1, <2>4, <3>1 DEF Sized
  <2>6. PICK h : Adds(h, R)
    BY <2>5
  <2>7. PICK t \in Nat : t = y.total_size
    BY <2>3 DEF Sized
  <2>8. PICK g : g = [s \in SUBSET T |-> IF y \in s THEN t + h[s \ {y}] ELSE h[s]]
    OBVIOUS
  <2>9. \A s \in SUBSET R : h[s] \in Nat
    BY <2>6 DEF Adds
  <2>10. \A s \in SUBSET T : (y \in s => s \ {y} \in SUBSET R) /\ (y \notin s => s \in SUBSET R)
    BY <2>4
  <2>11. g \in [SUBSET T -> Nat] /\ g[{}] = 0
    <3>1. \A s \in SUBSET T : g[s] \in Nat
      BY <2>8, <2>9, <2>10
    <3>2. g[{}] = h[{}]
      BY <2>8
    <3> QED BY <2>6, <2>8, <3>1, <3>2 DEF Adds
  <2>12. ASSUME NEW s \in SUBSET T, NEW x \in s PROVE g[s] = x.total_size + g[s \ {x}]
    <3>1. CASE x = y
      <4>1. s \ {x} \in SUBSET T /\ y \notin s \ {x}
        BY <3>1
      <4>2. g[s \ {x}] = h[s \ {x}]
        BY <2>8, <4>1
      <4>3. g[s] = t + h[s \ {y}]
        BY <2>8, <3>1
      <4> QED BY <2>7, <3>1, <4>2, <4>3
    <3>2. CASE x # y /\ y \in s
      <4>1. PICK r : r = s \ {y}
        OBVIOUS
      <4>2. r \in SUBSET R /\ x \in r
        BY <2>10, <3>2, <4>1
      <4>3. h[r] = x.total_size + h[r \ {x}] /\ h[r \ {x}] \in Nat
        BY <2>6, <2>9, <4>2 DEF Adds
      <4>4. PICK v : v = s \ {x}
        OBVIOUS
      <4>5. v \in SUBSET T /\ y \in v /\ v \ {y} = r \ {x}
        BY <3>2, <4>1, <4>4
      <4>6. g[v] = t + h[r \ {x}]
        BY <2>8, <4>5
      <4>7. g[s] = t + h[r]
        BY <2>8, <3>2, <4>1
      <4>8. x.total_size \in Nat
        BY DEF Sized
      <4> QED BY <4>3, <4>4, <4>6, <4>7, <4>8
    <3>3. CASE y \notin s
      <4>1. s \in SUBSET R /\ s \ {x} \in SUBSET T /\ y \notin s \ {x}
        BY <2>10, <3>3
      <4>2. g[s] = h[s] /\ g[s \ {x}] = h[s \ {x}]
        BY <2>8, <3>3, <4>1
      <4> QED BY <2>6, <4>1, <4>2 DEF Adds
    <3> QED BY <3>1, <3>2, <3>3
  <2>13. Adds(g, T)
    BY <2>11, <2>12 DEF Adds
  <2> QED BY <2>13
<1>3. P = Nat
  BY <1>1, <1>2, SetInduction
<1>4. Cardinality(S) \in Nat
  BY FS_CardinalityType DEF Sized
<1> QED BY <1>3, <1>4

\* And no other.
LEMMA SumsUnique ==
    ASSUME NEW S, IsFiniteSet(S), NEW T \in SUBSET S, NEW g, NEW h, Sums(g, S), Sums(h, T)
    PROVE  \A s \in SUBSET T : g[s] = h[s]
<1> DEFINE P == {n \in Nat : \A s \in SUBSET T : Cardinality(s) = n => g[s] = h[s]}
<1>1. \A s \in SUBSET T : s \in SUBSET S /\ IsFiniteSet(s) /\ Cardinality(s) \in Nat
  BY FS_Subset, FS_CardinalityType
<1>2. 0 \in P
  <2> SUFFICES ASSUME NEW s \in SUBSET T, Cardinality(s) = 0 PROVE g[s] = h[s]
    OBVIOUS
  <2>1. s = {}
    BY <1>1, FS_EmptySet
  <2> QED BY <1>1, <2>1 DEF Sums
<1>3. ASSUME NEW n \in P PROVE n + 1 \in P
  <2> SUFFICES ASSUME NEW s \in SUBSET T, Cardinality(s) = n + 1 PROVE g[s] = h[s]
    OBVIOUS
  <2>1. s # {} /\ n \in Nat
    <3>1. n \in Nat
      OBVIOUS
    <3>2. ASSUME s = {} PROVE FALSE
      <4>1. Cardinality({}) = 0 /\ Cardinality({}) = n + 1
        BY <3>2, FS_EmptySet, Zenon
      <4> QED BY <3>1, <4>1
    <3> QED BY <3>1, <3>2
  <2>2. One(s) \in s
    BY <2>1, OneIn
  <2>3. PICK r : r = s \ {One(s)}
    OBVIOUS
  <2>4. r \in SUBSET T /\ Cardinality(r) = n
    BY <1>1, <2>1, <2>2, <2>3, FS_RemoveElement
  <2>5. g[r] = h[r]
    BY <2>4
  <2>6. g[s] = One(s).total_size + g[r] /\ h[s] = One(s).total_size + h[r]
    BY <1>1, <2>1, <2>3 DEF Sums
  <2> QED BY <2>5, <2>6
<1>4. P = Nat
  BY <1>2, <1>3, SetInduction
<1> QED BY <1>1, <1>4

\* Bytes is that function, on every part of S.
LEMMA BytesAdds == ASSUME NEW S, Sized(S) PROVE \E g : Adds(g, S) /\ \A T \in SUBSET S : Bytes(T) = g[T]
<1>1. PICK g : Adds(g, S)
  BY AddsExists
<1>2. ASSUME NEW T \in SUBSET S PROVE Bytes(T) = g[T]
  <2>1. Sized(T) /\ IsFiniteSet(S)
    BY FS_Subset DEF Sized
  <2>2. \E h : IsSum(h, T)
    BY <2>1, AddsExists, AddsSum
  <2>3. PICK h : h = CHOOSE x : IsSum(x, T)
    OBVIOUS
  <2>4. IsSum(h, T)
    BY <2>2, <2>3, Zenon
  <2>5. Sums(h, T)
    BY <2>4 DEF IsSum, Sums
  <2>6. Sums(g, S)
    BY <1>1, AddsSum
  <2>7. g[T] = h[T]
    BY <2>1, <2>5, <2>6, SumsUnique
  <2> QED BY <2>3, <2>7, BytesIsSum
<1> QED BY <1>1, <1>2

LEMMA BytesEmpty == Bytes({}) = 0
<1>1. Sized({})
  BY FS_EmptySet DEF Sized
<1> QED BY <1>1, BytesAdds DEF Adds

LEMMA BytesNat == ASSUME NEW S, Sized(S) PROVE Bytes(S) \in Nat
<1>1. PICK g : Adds(g, S) /\ \A T \in SUBSET S : Bytes(T) = g[T]
  BY BytesAdds
<1>2. S \in SUBSET S
  OBVIOUS
<1> QED BY <1>1, <1>2 DEF Adds

LEMMA BytesPlus ==
    ASSUME NEW S, Sized(S), NEW e, e \notin S, e.total_size \in Nat
    PROVE  Bytes(S \cup {e}) = e.total_size + Bytes(S)
<1>1. PICK R : R = S \cup {e}
  OBVIOUS
<1>2. Sized(R) /\ S \in SUBSET R /\ R \in SUBSET R /\ R \ {e} = S /\ e \in R
  <2>1. IsFiniteSet(R)
    BY <1>1, FS_AddElement DEF Sized
  <2> QED BY <1>1, <2>1 DEF Sized
<1>3. PICK g : Adds(g, R) /\ \A T \in SUBSET R : Bytes(T) = g[T]
  BY <1>2, BytesAdds
<1>4. g[R] = e.total_size + g[S]
  BY <1>2, <1>3 DEF Adds
<1> QED BY <1>1, <1>2, <1>3, <1>4

LEMMA BytesLess ==
    ASSUME NEW S, Sized(S), NEW T \in SUBSET S
    PROVE  Bytes(T) <= Bytes(S)
<1>1. PICK g : Adds(g, S) /\ \A R \in SUBSET S : Bytes(R) = g[R]
  BY BytesAdds
<1> DEFINE P == {n \in Nat : \A R \in SUBSET S : Cardinality(S \ R) = n => g[R] <= g[S]}
<1>2. \A R \in SUBSET S : g[R] \in Nat /\ IsFiniteSet(S \ R) /\ Cardinality(S \ R) \in Nat
  <2>1. ASSUME NEW R \in SUBSET S PROVE g[R] \in Nat /\ IsFiniteSet(S \ R) /\ Cardinality(S \ R) \in Nat
    <3>1. S \ R \in SUBSET S /\ IsFiniteSet(S)
      BY DEF Sized
    <3> QED BY <1>1, <3>1, FS_Subset, FS_CardinalityType DEF Adds
  <2> QED BY <2>1
<1>3. 0 \in P
  <2> SUFFICES ASSUME NEW R \in SUBSET S, Cardinality(S \ R) = 0 PROVE g[R] <= g[S]
    OBVIOUS
  <2>1. S \ R = {}
    BY <1>2, FS_EmptySet
  <2>2. R = S
    BY <2>1
  <2> QED BY <1>2, <2>2
<1>4. ASSUME NEW n \in P PROVE n + 1 \in P
  <2> SUFFICES ASSUME NEW R \in SUBSET S, Cardinality(S \ R) = n + 1 PROVE g[R] <= g[S]
    OBVIOUS
  <2>1. n \in Nat /\ S \ R # {}
    <3>1. n \in Nat
      OBVIOUS
    <3>2. ASSUME S \ R = {} PROVE FALSE
      <4>1. Cardinality({}) = 0 /\ Cardinality({}) = n + 1
        BY <3>2, FS_EmptySet, Zenon
      <4> QED BY <3>1, <4>1
    <3> QED BY <3>1, <3>2
  <2>2. PICK x \in S : x \notin R
    BY <2>1
  <2>3. PICK Q : Q = R \cup {x}
    OBVIOUS
  <2>4. Q \in SUBSET S /\ S \ Q = (S \ R) \ {x} /\ Q \ {x} = R /\ x \in Q /\ x \in S \ R
    BY <2>2, <2>3
  <2>5. Cardinality(S \ Q) = n
    <3>1. PICK D : D = S \ R
      OBVIOUS
    <3>2. Cardinality(D \ {x}) = Cardinality(D) - 1
      BY <1>2, <2>4, <3>1, FS_RemoveElement
    <3>3. Cardinality(D) = n + 1
      BY <3>1, Zenon
    <3>4. S \ Q = D \ {x}
      BY <2>4, <3>1, Zenon
    <3>5. Cardinality(D \ {x}) = n
      BY <2>1, <3>2, <3>3
    <3> QED BY <3>4, <3>5, Zenon
  <2>6. g[Q] <= g[S]
    BY <2>4, <2>5
  <2>7. g[Q] = x.total_size + g[R] /\ x.total_size \in Nat
    BY <1>1, <2>2, <2>4 DEF Adds, Sized
  <2>8. S \in SUBSET S
    OBVIOUS
  <2>9. PICK a \in Nat, b \in Nat, c \in Nat, t \in Nat : a = g[R] /\ b = g[Q] /\ c = g[S] /\ t = x.total_size
    BY <1>2, <2>4, <2>7, <2>8
  <2>10. b <= c /\ b = t + a
    BY <2>6, <2>7, <2>9
  <2>11. a <= c
    BY <2>10
  <2> QED BY <2>9, <2>11
<1>5. P = Nat
  BY <1>3, <1>4, SetInduction
<1>6. g[T] <= g[S]
  BY <1>2, <1>5
<1> QED BY <1>1, <1>6


-----------------------------------------------------------------------------
(* The inductive invariant *)

Limit == Quota + (Cardinality(Creators) - 1) * MaxSeg

Waiting == {p \in Procs : pc[p] \in Entering}

\* What creates have listed and the creates that were admitted, each with the
\* largest segment, but one that checked the quota against the registry as it
\* is or was: with what it asked for.
QuotaInv ==
    \/ Bytes(Fresh) + MaxSeg * Cardinality(Waiting) <= Limit
    \/ \E p \in Waiting : Bytes(Fresh) + opt[p].total_size + MaxSeg * (Cardinality(Waiting) - 1) <= Limit

LEMMA Limits ==
    /\ MaxSeg \in Nat /\ Quota \in Nat /\ MaxSeg <= Quota /\ IsFiniteSet(Creators) /\ Cardinality(Creators) \in Nat
    /\ (Cardinality(Creators) - 1) * MaxSeg \in Int /\ Limit \in Nat
<1>1. MaxSeg \in Nat /\ Quota \in Nat /\ MaxSeg <= Quota
  BY AdmissionAssumption
<1>2. IsFiniteSet(Creators) /\ Cardinality(Creators) \in Nat
  <2>1. Creators \subseteq Procs
    BY DEF Creators
  <2> QED BY <2>1, FS_Subset, FS_CardinalityType, AdmissionAssumption
<1>3. PICK c \in Nat : c = Cardinality(Creators)
  BY <1>2
<1>4. (c - 1) * MaxSeg = c * MaxSeg - MaxSeg /\ c * MaxSeg \in Nat
  BY <1>1
<1> QED BY <1>1, <1>2, <1>3, <1>4 DEF Limit

LEMMA Waiters == ASSUME NEW W \in SUBSET Procs PROVE IsFiniteSet(W) /\ Cardinality(W) \in Nat
BY FS_Subset, FS_CardinalityType, AdmissionAssumption

LEMMA RegSized == ASSUME Inv PROVE Sized(reg) /\ Sized(Fresh) /\ Fresh \in SUBSET reg
<1>1. IsFiniteSet(reg) /\ reg \subseteq EntrySet /\ Fresh \in SUBSET reg
  BY DEF Inv, RegInv, Fresh
<1>2. \A e \in reg : e.total_size \in Nat
  BY <1>1, Limits DEF EntrySet
<1> QED BY <1>1, <1>2, FS_Subset DEF Sized

LEMMA OptSize == ASSUME Inv, NEW p \in Waiting PROVE opt[p].total_size \in 0 .. MaxSeg /\ p \in Creators
<1>1. p \in Procs /\ pc[p] \in Entering \cup {"ring", "join", "unreg"}
  BY DEF Waiting
<1> QED BY <1>1, Creating

LEMMA InitQuota == Init => QuotaInv
<1> SUFFICES ASSUME Init PROVE QuotaInv
  OBVIOUS
<1>1. Fresh = {} /\ Waiting = {}
  BY DEF Init, Fresh, Waiting, Entering
<1>2. Bytes(Fresh) = 0 /\ Cardinality(Waiting) = 0
  BY <1>1, BytesEmpty, FS_EmptySet
<1>3. MaxSeg * 0 = 0
  BY Limits
<1> QED BY <1>2, <1>3, Limits DEF QuotaInv

\* A step that lists nothing for a create and admits nobody.
LEMMA QuotaShrinks ==
    ASSUME Inv, QuotaInv, Fresh' \subseteq Fresh, AdmitsNone
    PROVE  QuotaInv'
<1>1. PICK b \in Nat, d \in Nat : b = Bytes(Fresh) /\ d = Bytes(Fresh') /\ d <= b
  <2>1. Sized(Fresh)
    BY RegSized
  <2>2. Sized(Fresh')
    <3>1. IsFiniteSet(Fresh')
      BY <2>1, FS_Subset DEF Sized
    <3> QED BY <2>1, <3>1 DEF Sized
  <2> QED BY <2>1, <2>2, BytesNat, BytesLess
<1>2. PICK V, W : V = Waiting /\ W = Waiting'
  OBVIOUS
<1>3. V \in SUBSET Procs /\ W \in SUBSET V /\ \A q \in W : opt'[q] = opt[q]
  BY <1>2 DEF Waiting, AdmitsNone
<1>4. PICK v \in Nat, w \in Nat : v = Cardinality(V) /\ w = Cardinality(W) /\ w <= v
  BY <1>3, Waiters, FS_Subset
<1>5. PICK s \in Nat : s = MaxSeg
  BY Limits
<1>6. s * w <= s * v /\ s * v \in Nat /\ s * w \in Nat /\ s * (w - 1) = s * w - s /\ s * (v - 1) = s * v - s
  BY <1>4
<1>7. PICK l \in Nat : l = Limit /\ l = Limit'
  BY Limits DEF Limit, Creators
<1>8. b + s * v <= l => QuotaInv'
  <2> SUFFICES ASSUME b + s * v <= l PROVE QuotaInv'
    OBVIOUS
  <2>1. d + s * w <= l
    BY <1>1, <1>6
  <2> QED BY <1>1, <1>2, <1>4, <1>5, <1>7, <2>1 DEF QuotaInv
<1>9. ASSUME NEW p \in V, b + opt[p].total_size + s * (v - 1) <= l PROVE QuotaInv'
  <2>1. PICK t \in 0 .. MaxSeg : t = opt[p].total_size
    BY <1>2, OptSize
  <2>2. CASE p \in W
    <3>1. d + t + s * (w - 1) <= l
      BY <1>1, <1>6, <1>9, <2>1
    <3>2. opt'[p].total_size = t
      BY <1>3, <2>1, <2>2
    <3> QED BY <1>1, <1>2, <1>4, <1>5, <1>7, <2>2, <3>1, <3>2 DEF QuotaInv
  <2>3. CASE p \notin W
    <3>1. W \in SUBSET (V \ {p}) /\ IsFiniteSet(V)
      BY <1>3, <2>3, Waiters
    <3>2. Cardinality(V \ {p}) = v - 1 /\ IsFiniteSet(V \ {p})
      BY <1>4, <3>1, FS_RemoveElement
    <3>3. w <= v - 1
      BY <1>4, <3>1, <3>2, FS_Subset
    <3>4. s * w <= s * (v - 1)
      BY <1>4, <3>3
    <3>5. d + s * w <= l
      BY <1>1, <1>6, <1>9, <2>1, <3>4
    <3> QED BY <1>1, <1>2, <1>4, <1>5, <1>7, <3>5 DEF QuotaInv
  <2> QED BY <2>2, <2>3
<1>10. QuotaInv'
  <2>1. \/ b + s * v <= l
        \/ \E p \in V : b + opt[p].total_size + s * (v - 1) <= l
    BY <1>1, <1>2, <1>4, <1>5, <1>7 DEF QuotaInv
  <2> QED BY <1>8, <1>9, <2>1
<1> QED BY <1>10

LEMMA AdmitQuota ==
    ASSUME Inv, Inv', QuotaInv, NEW p \in Procs, NEW o \in Wants[p], Admit(p, o)
    PROVE  QuotaInv'
<1>1. reg' = reg /\ pc'[p] = "open" /\ opt'[p] = o
  <2>1. DOMAIN opt = Procs /\ pc \in [Procs -> Labels]
    BY DEF Inv, Shapes
  <2> QED BY <2>1 DEF Admit, Goto
<1>2. p \in Waiting'
  BY <1>1 DEF Waiting, Entering
<1>3. PICK W : W = Waiting'
  OBVIOUS
<1>4. W \in SUBSET Creators
  <2>1. ASSUME NEW q \in W PROVE q \in Creators
    <3>1. q \in Procs /\ pc'[q] \in Entering
      BY <1>3, <2>1 DEF Waiting
    <3>2. opt'[q] \in Wants[q]
      BY <3>1 DEF Inv, ProcsInv, ProcOK
    <3> QED BY <3>1, <3>2 DEF Creators
  <2> QED BY <2>1
<1>5. PICK w \in Nat, c \in Nat : w = Cardinality(W) /\ c = Cardinality(Creators) /\ w <= c
  BY <1>4, Limits, FS_Subset, FS_CardinalityType
<1>6. (w - 1) * MaxSeg <= (c - 1) * MaxSeg /\ MaxSeg * (w - 1) = (w - 1) * MaxSeg
  BY <1>5, Limits
<1>7. PICK b \in Nat, a \in Nat : b = Bytes(Fresh) /\ a = Bytes(reg) /\ b <= a
  BY RegSized, BytesNat, BytesLess
<1>8. PICK t \in Nat : t = o.total_size
  BY OptFacts, Widths DEF Options
<1>9. t + a <= Quota
  BY <1>7, <1>8 DEF Admit, validate_create_security
<1>10. b + t + MaxSeg * (w - 1) <= Limit
  <2>1. PICK x \in Int, y \in Int : x = MaxSeg * (w - 1) /\ y = (c - 1) * MaxSeg
    BY <1>5, Limits
  <2>2. x <= y /\ Limit = Quota + y
    BY <1>5, <1>6, <2>1 DEF Limit
  <2> QED BY <1>7, <1>9, <2>1, <2>2, Limits
<1>11. Bytes(Fresh') = b /\ Limit' = Limit
  BY <1>1, <1>7 DEF Fresh, Limit, Creators
<1> QED BY <1>1, <1>2, <1>3, <1>5, <1>8, <1>10, <1>11 DEF QuotaInv

\* The entry takes the place of what was counted for the create.
LEMMA RegisterQuota ==
    ASSUME Inv, QuotaInv, NEW p \in Procs, Register(p), HasRoom(Others(opt[p].name))
    PROVE  QuotaInv'
<1>1. /\ pc[p] = "register" /\ opt' = opt
      /\ pc' = [pc EXCEPT ![p] = IF opt[p].record_max = 0 THEN "held" ELSE "ring"] /\ pc \in [Procs -> Labels]
  BY DEF Register, Goto, Inv, Shapes
<1>2. PICK e : e = [name |-> opt[p].name, total_size |-> opt[p].total_size, hmac |-> opt[p].hmac, back |-> FALSE]
  OBVIOUS
<1>3. PICK F : F = {x \in Fresh : x.name # opt[p].name}
  OBVIOUS
<1>4. Fresh' = F \cup {e} /\ e \notin F /\ F \in SUBSET Fresh
  <2>1. reg' = Others(opt[p].name) \cup {e}
    BY <1>2 DEF Register
  <2>2. e.name = opt[p].name /\ e.back = FALSE
    BY <1>2
  <2> QED BY <1>3, <2>1, <2>2 DEF Fresh, Others
<1>5. PICK V, W : V = Waiting /\ W = Waiting'
  OBVIOUS
<1>6. p \in V /\ W = V \ {p} /\ V \in SUBSET Procs
  BY <1>1, <1>5 DEF Waiting, Entering
<1>7. PICK t \in 0 .. MaxSeg : t = opt[p].total_size /\ t = e.total_size
  BY <1>2, <1>5, <1>6, OptSize
<1>8. PICK b \in Nat, a \in Nat : b = Bytes(Fresh) /\ a = Bytes(F) /\ a <= b
  <2>1. Sized(Fresh) /\ Sized(F)
    BY <1>4, RegSized, FS_Subset DEF Sized
  <2> QED BY <1>4, <2>1, BytesNat, BytesLess
<1>9. Bytes(Fresh') = t + a /\ t \in Nat
  <2>1. t \in Nat /\ Sized(F)
    BY <1>4, RegSized, FS_Subset, Limits DEF Sized
  <2> QED BY <1>4, <1>7, <1>8, <2>1, BytesPlus
<1>10. PICK v \in Nat, w \in Nat : v = Cardinality(V) /\ w = Cardinality(W) /\ w = v - 1
  BY <1>6, Waiters, FS_RemoveElement
<1>11. PICK s \in Nat : s = MaxSeg
  BY Limits
<1>12. s * v \in Nat /\ s * w = s * v - s /\ s * (v - 1) = s * v - s /\ s * (w - 1) = s * v - s - s
  BY <1>10
<1>13. PICK l \in Nat : l = Limit /\ l = Limit'
  BY Limits DEF Limit, Creators
<1>14. b + s * v <= l => QuotaInv'
  <2> SUFFICES ASSUME b + s * v <= l PROVE QuotaInv'
    OBVIOUS
  <2>1. t + a + s * w <= l
    BY <1>7, <1>8, <1>11, <1>12
  <2> QED BY <1>5, <1>9, <1>10, <1>11, <1>13, <2>1 DEF QuotaInv
<1>15. ASSUME NEW q \in V, b + opt[q].total_size + s * (v - 1) <= l PROVE QuotaInv'
  <2>1. PICK u \in 0 .. MaxSeg : u = opt[q].total_size
    BY <1>5, OptSize
  <2>2. CASE q = p
    <3>1. t + a + s * w <= l
      <4>1. u = t /\ b + u + s * (v - 1) <= l
        BY <1>7, <1>15, <2>1, <2>2
      <4> QED BY <1>8, <1>12, <4>1
    <3> QED BY <1>5, <1>9, <1>10, <1>11, <1>13, <3>1 DEF QuotaInv
  <2>3. CASE q # p
    <3>1. t + a + u + s * (w - 1) <= l
      BY <1>7, <1>8, <1>11, <1>12, <1>15, <2>1
    <3>2. q \in W /\ opt'[q].total_size = u
      BY <1>1, <1>6, <2>1, <2>3
    <3> QED BY <1>5, <1>9, <1>10, <1>11, <1>13, <3>1, <3>2 DEF QuotaInv
  <2> QED BY <2>2, <2>3
<1>16. QuotaInv'
  <2>1. \/ b + s * v <= l
        \/ \E q \in V : b + opt[q].total_size + s * (v - 1) <= l
    BY <1>5, <1>8, <1>10, <1>11, <1>13 DEF QuotaInv
  <2> QED BY <1>14, <1>15, <2>1
<1> QED BY <1>16

\* A create that is given up, or goes on.
LEMMA CreateQuota ==
    ASSUME Inv, Inv', QuotaInv, NEW p \in Procs, Create(p)
    PROVE  QuotaInv'
<1>1. pc \in [Procs -> Labels]
  BY DEF Inv, Shapes
<1>2. ASSUME Leave(p), reg' = reg PROVE QuotaInv'
  BY <1>2, LeaveFacts, QuotaShrinks DEF Fresh
<1>3. ASSUME opt' = opt, NEW l, Goto(p, l), l \in Entering => pc[p] \in Entering, reg' = reg PROVE QuotaInv'
  <2>1. AdmitsNone
    BY <1>1, <1>3 DEF Goto, AdmitsNone
  <2>2. Fresh' \subseteq Fresh
    BY <1>3 DEF Fresh
  <2> QED BY <2>1, <2>2, QuotaShrinks
<1>4. CASE \E o \in Wants[p] : Admit(p, o)
  BY <1>4, AdmitQuota
<1>5. CASE Open(p)
  <2>1. reg' = reg /\ pc[p] \in Entering
    BY <1>5 DEF Open, Entering
  <2>2. Leave(p) \/ (opt' = opt /\ (Goto(p, "write") \/ Goto(p, "join")))
    BY <1>5 DEF Open
  <2> QED BY <1>2, <1>3, <2>1, <2>2
<1>6. CASE Write(p)
  <2>1. reg' = reg /\ pc[p] \in Entering /\ opt' = opt /\ Goto(p, "sign")
    BY <1>6 DEF Write, Entering
  <2> QED BY <1>3, <2>1
<1>7. CASE sign_header_if_enabled(p)
  <2>1. reg' = reg /\ pc[p] \in Entering
    BY <1>7 DEF sign_header_if_enabled, Entering
  <2>2. Leave(p) \/ (opt' = opt /\ Goto(p, "register"))
    BY <1>7 DEF sign_header_if_enabled
  <2> QED BY <1>2, <1>3, <2>1, <2>2
<1>8. CASE CreateFails(p)
  <2>1. Leave(p) /\ reg' = reg
    BY <1>8 DEF CreateFails
  <2> QED BY <1>2, <2>1
<1>9. CASE Register(p)
  <2>1. CASE HasRoom(Others(opt[p].name))
    BY <1>9, <2>1, RegisterQuota
  <2>2. CASE ~HasRoom(Others(opt[p].name))
    <3>1. Leave(p) /\ reg' = reg
      BY <1>9, <2>2 DEF Register
    <3> QED BY <1>2, <3>1
  <2> QED BY <2>1, <2>2
<1>10. CASE InitRing(p)
  <2>1. reg' = reg
    BY <1>10 DEF InitRing
  <2>2. opt' = opt /\ (Goto(p, "unreg") \/ Goto(p, "held"))
    BY <1>10 DEF InitRing
  <2>3. "held" \notin Entering /\ "unreg" \notin Entering
    BY DEF Entering
  <2> QED BY <1>3, <2>1, <2>2, <2>3
<1> QED BY <1>4, <1>5, <1>6, <1>7, <1>8, <1>9, <1>10 DEF Create

\* A janitor moves no process, and what it puts back is no create's entry.
LEMMA JanitorAdds ==
    ASSUME NEW j \in Janitors, Janitor(j)
    PROVE  Fresh' \subseteq Fresh /\ pc' = pc /\ opt' = opt
<1>1. CASE (\E e \in reg : List(j, e)) \/ (\E n \in Names : destroy(j, n))
  BY <1>1 DEF List, destroy, Fresh
<1>2. CASE Invalid(j) \/ Drain(j) \/ Reclaim(j) \/ Skip(j)
  BY <1>2 DEF Invalid, Drain, Reclaim, Skip, Fresh
<1>3. CASE Drop(j)
  BY <1>3 DEF Drop, Others, Fresh
<1>4. CASE update_registry_last_seen(j)
  <2>1. PICK n, e : /\ n = job[j].name
                    /\ e = [name |-> n, total_size |-> job[j].total_size, hmac |-> job[j].hmac, back |-> TRUE]
    OBVIOUS
  <2>2. (reg' = reg \/ reg' = Others(n) \cup {e}) /\ e.back /\ pc' = pc /\ opt' = opt
    BY <1>4, <2>1 DEF update_registry_last_seen
  <2> QED BY <2>2 DEF Others, Fresh
<1> QED BY <1>1, <1>2, <1>3, <1>4 DEF Janitor

LEMMA NextQuota == Inv /\ Inv' /\ QuotaInv /\ [Next]_vars => QuotaInv'
<1> SUFFICES ASSUME Inv, Inv', QuotaInv, [Next]_vars PROVE QuotaInv'
  OBVIOUS
<1>1. pc \in [Procs -> Labels] /\ DOMAIN opt = Procs
  BY DEF Inv, Shapes
<1>2. ASSUME reg' \subseteq reg, AdmitsNone PROVE QuotaInv'
  <2>1. Fresh' \subseteq Fresh
    BY <1>2 DEF Fresh
  <2> QED BY <1>2, <2>1, QuotaShrinks
<1>3. ASSUME pc' = pc, opt' = opt PROVE AdmitsNone
  BY <1>3 DEF AdmitsNone
<1>4. ASSUME NEW p \in Procs, Create(p) PROVE QuotaInv'
  BY <1>4, CreateQuota
<1>5. ASSUME NEW p \in Procs, Leaves(p) PROVE QuotaInv'
  <2>1. CASE Release(p) \/ Unregister(p)
    <3>1. Leave(p) /\ reg' \subseteq reg
      BY <2>1, OthersLess DEF Release, Unregister
    <3> QED BY <1>2, <3>1, LeaveFacts
  <2>2. CASE ResetLast(p)
    <3>1. reg' \subseteq reg /\ opt' = opt /\ pc' = [pc EXCEPT ![p] = "unreg"]
      BY <2>2 DEF ResetLast, Goto
    <3>2. AdmitsNone
      BY <1>1, <3>1 DEF AdmitsNone, Entering
    <3> QED BY <1>2, <3>1, <3>2
  <2> QED BY <1>5, <2>1, <2>2 DEF Leaves
<1>6. ASSUME NEW p \in Procs, NEW n \in Names, NEW bind \in BOOLEAN, attach(p, n, bind) PROVE QuotaInv'
  <2>1. reg' \subseteq reg /\ pc' \in {[pc EXCEPT ![p] = "held"], [pc EXCEPT ![p] = "idle"]}
    BY <1>6 DEF attach, Swept, Goto
  <2>2. opt' = [opt EXCEPT ![p] = NoOpt]
    BY <1>6 DEF attach
  <2>3. "held" \notin Entering /\ "idle" \notin Entering
    BY DEF Entering
  <2>4. AdmitsNone
    BY <1>1, <2>1, <2>2, <2>3 DEF AdmitsNone
  <2> QED BY <1>2, <2>1, <2>4
<1>7. ASSUME NEW j \in Janitors, Janitor(j) PROVE QuotaInv'
  BY <1>3, <1>7, JanitorAdds, QuotaShrinks
<1>8. ASSUME NEW w \in Faults, Damage(w) PROVE QuotaInv'
  <2>1. reg' \subseteq reg /\ pc' = pc /\ opt' = opt
    BY <1>8 DEF Damage
  <2> QED BY <1>2, <1>3, <2>1
<1>9. CASE UNCHANGED vars
  <2>1. reg' \subseteq reg /\ pc' = pc /\ opt' = opt
    BY <1>9 DEF vars
  <2> QED BY <1>2, <1>3, <2>1
<1> QED BY <1>4, <1>5, <1>6, <1>7, <1>8, <1>9 DEF Next

-----------------------------------------------------------------------------
(* Theorem *)

\* validate_create_security adds up a list of the registry that other creates
\* may pass before they register: for any number of processes and segments
\* what creates have listed exceeds TOTAL_QUOTA_BYTES by the largest segment
\* for each creating process but one, at most, through every removal and every
\* touch of a janitor (update_registry_last_seen).  The entries a late touch
\* puts back are not in the sum: the code tests no quota for them, and nothing
\* but the size of the table bounds them.  MAX_SEGMENT_SIZE is within the
\* quota, as in shm_types.h.
THEOREM QuotasBounded == Spec => []QuotaBounded
<1>1. Inv /\ QuotaInv => QuotaBounded
  <2> SUFFICES ASSUME Inv, QuotaInv PROVE Bytes(Fresh) <= Limit
    BY DEF QuotaBounded, Limit
  <2>1. PICK b \in Nat : b = Bytes(Fresh)
    BY RegSized, BytesNat
  <2>2. PICK w \in Nat : w = Cardinality(Waiting)
    <3>1. Waiting \in SUBSET Procs
      BY DEF Waiting
    <3> QED BY <3>1, Waiters
  <2>3. PICK s \in Nat, l \in Nat : s = MaxSeg /\ l = Limit
    BY Limits
  <2>4. CASE b + s * w <= l
    <3>1. s * w \in Nat
      OBVIOUS
    <3> QED BY <2>1, <2>3, <2>4, <3>1
  <2>5. ASSUME NEW p \in Waiting, b + opt[p].total_size + s * (w - 1) <= l PROVE b <= l
    <3>1. PICK t \in Nat : t = opt[p].total_size
      BY OptSize, Limits
    <3>2. w # 0
      <4>1. IsFiniteSet(Waiting)
        <5>1. Waiting \in SUBSET Procs
          BY DEF Waiting
        <5> QED BY <5>1, Waiters
      <4> QED BY <2>2, <2>5, <4>1, FS_EmptySet
    <3>3. s * (w - 1) \in Nat
      <4>1. PICK k \in Nat : k = w - 1
        BY <3>2
      <4>2. s * k \in Nat
        OBVIOUS
      <4> QED BY <4>1, <4>2
    <3> QED BY <2>5, <3>1, <3>3
  <2>6. \/ b + s * w <= l
        \/ \E p \in Waiting : b + opt[p].total_size + s * (w - 1) <= l
    BY <2>1, <2>2, <2>3 DEF QuotaInv
  <2> QED BY <2>1, <2>3, <2>4, <2>5, <2>6
<1>2. Spec => []QuotaInv
  BY InitQuota, NextQuota, Invariance, PTL DEF Spec
<1> QED BY <1>1, <1>2, Invariance, PTL
=============================================================================
