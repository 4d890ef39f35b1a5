--------------------------- MODULE IntegrityProofs --------------------------
(***************************************************************************)
(* Proofs about Integrity, for every block, length and digest size and     *)
(* every message: the buffering and padding of the code hash what the      *)
(* standard says, and two messages with the same signature are equal.      *)
(***************************************************************************)
EXTENDS Integrity, WellFoundedInduction, SequenceTheorems, TLAPS

-----------------------------------------------------------------------------
(* FoldLeft *)

\* Induction, on a set of numbers.
LEMMA SetInduction ==
    ASSUME NEW P \in SUBSET Nat, 0 \in P, \A k \in P : k + 1 \in P
    PROVE  P = Nat
<1> SUFFICES ASSUME Nat \ P # {} PROVE FALSE
  OBVIOUS
<1>1. PICK R : R = OpToRel(<, Nat)
  OBVIOUS
<1>2. \A i, j \in Nat : i < j => <<i, j>> \in R
  BY <1>1 DEF OpToRel
<1>3. PICK k \in Nat \ P : \A j \in Nat \ P : ~(<<j, k>> \in R)
  BY <1>1, NatLessThanWellFounded, WFMin
<1>4. k # 0 /\ k - 1 \in Nat /\ (k - 1) + 1 = k /\ k - 1 < k
  OBVIOUS
<1>5. k - 1 \in P
  BY <1>2, <1>3, <1>4
<1> QED BY <1>4, <1>5

\* g folds data into s, for every set of positions.
IsFold(g, s, data) ==
    g = [t \in SUBSET DOMAIN data |->
            IF t = {} THEN s ELSE Put(g[t \ {Max(t)}], data[Max(t)])]

LEMMA UpdateIsFold ==
    ASSUME NEW s, NEW data
    PROVE  sha256_update(s, data) = (CHOOSE g : IsFold(g, s, data))[DOMAIN data]
BY DEF sha256_update, FoldLeft, MapThenFoldSet, IsFold

LEMMA MaxTop ==
    ASSUME NEW k \in Nat, NEW t \in SUBSET (1 .. k + 1), k + 1 \in t
    PROVE  Max(t) = k + 1
<1>1. \E x \in t : \A y \in t : x >= y
  <2>1. \A y \in t : k + 1 >= y
    OBVIOUS
  <2> QED BY <2>1
<1>2. Max(t) \in t /\ \A y \in t : Max(t) >= y
  BY <1>1, Zenon DEF Max
<1>3. Max(t) >= k + 1 /\ Max(t) \in 1 .. k + 1
  BY <1>2
<1> QED BY <1>3

LEMMA FoldExists ==
    ASSUME NEW s, NEW n \in Nat, NEW data, DOMAIN data = 1 .. n
    PROVE  \E g : IsFold(g, s, data)
<1> DEFINE Part(g, k) == g = [t \in SUBSET (1 .. k) |->
                                IF t = {} THEN s ELSE Put(g[t \ {Max(t)}], data[Max(t)])]
           P == {k \in Nat : \E g : Part(g, k)}
<1>1. 0 \in P
  <2>1. PICK g : g = [t \in SUBSET (1 .. 0) |-> s]
    OBVIOUS
  <2>2. \A t \in SUBSET (1 .. 0) : t = {}
    OBVIOUS
  <2>3. Part(g, 0)
    BY <2>1, <2>2
  <2> QED BY <2>3
<1>2. ASSUME NEW k \in P PROVE k + 1 \in P
  <2>1. PICK g : Part(g, k)
    OBVIOUS
  <2>2. k \in Nat
    OBVIOUS
  <2>3. PICK f : f = [t \in SUBSET (1 .. k + 1) |-> IF k + 1 \in t THEN Put(g[t \ {k + 1}], data[k + 1]) ELSE g[t]]
    OBVIOUS
  <2>4. ASSUME NEW t \in SUBSET (1 .. k + 1)
        PROVE  f[t] = IF t = {} THEN s ELSE Put(f[t \ {Max(t)}], data[Max(t)])
    <3>1. CASE k + 1 \in t
      <4>1. Max(t) = k + 1 /\ t \ {k + 1} \in SUBSET (1 .. k + 1) /\ k + 1 \notin t \ {k + 1} /\ t # {}
        <5>1. Max(t) = k + 1
          BY <2>2, <3>1, MaxTop
        <5> QED BY <3>1, <5>1
      <4>2. f[t] = Put(g[t \ {k + 1}], data[k + 1])
        BY <2>3, <3>1
      <4>3. f[t \ {k + 1}] = g[t \ {k + 1}]
        BY <2>3, <4>1
      <4> QED BY <4>1, <4>2, <4>3
    <3>2. CASE k + 1 \notin t
      <4>1. t \in SUBSET (1 .. k) /\ f[t] = g[t]
        BY <2>2, <2>3, <3>2
      <4>2. PICK r : r = t \ {Max(t)}
        OBVIOUS
      <4>3. f[r] = g[r]
        BY <2>3, <3>2, <4>1, <4>2
      <4>4. g[t] = IF t = {} THEN s ELSE Put(g[t \ {Max(t)}], data[Max(t)])
        BY <2>1, <4>1
      <4> QED BY <4>1, <4>2, <4>3, <4>4
    <3> QED BY <3>1, <3>2
  <2>5. Part(f, k + 1)
    BY <2>3, <2>4
  <2> HIDE DEF Part
  <2>6. k + 1 \in Nat
    BY <2>2
  <2> QED BY <2>5, <2>6
<1>3. P = Nat
  BY <1>1, <1>2, SetInduction
<1>4. PICK g : Part(g, n)
  BY <1>3
<1> QED BY <1>4 DEF IsFold

\* sha256_update puts one byte after the other into the block.
LEMMA UpdateSteps ==
    ASSUME NEW s, NEW n \in Nat, NEW data, DOMAIN data = 1 .. n
    PROVE  \E f : /\ f[0] = s /\ f[n] = sha256_update(s, data)
                  /\ \A k \in 0 .. n - 1 : f[k + 1] = Put(f[k], data[k + 1])
<1>1. PICK g : g = CHOOSE x : IsFold(x, s, data)
  OBVIOUS
<1>2. IsFold(g, s, data)
  BY <1>1, FoldExists, Zenon
<1>3. sha256_update(s, data) = g[1 .. n]
  BY <1>1, UpdateIsFold
<1>4. PICK f : f = [k \in 0 .. n |-> g[1 .. k]]
  OBVIOUS
<1>5. f[0] = s
  BY <1>2, <1>4 DEF IsFold
<1>6. ASSUME NEW k \in 0 .. n - 1 PROVE f[k + 1] = Put(f[k], data[k + 1])
  <2>1. PICK t : t = 1 .. k + 1
    OBVIOUS
  <2>2. t \in SUBSET (1 .. n) /\ k + 1 \in t /\ t \ {k + 1} = 1 .. k /\ k \in Nat
    BY <2>1
  <2>3. Max(t) = k + 1
    BY <2>1, <2>2, MaxTop
  <2>4. g[t] = Put(g[t \ {k + 1}], data[k + 1])
    BY <1>2, <2>2, <2>3 DEF IsFold
  <2>5. f[k + 1] = g[t] /\ f[k] = g[1 .. k]
    BY <1>4, <2>1
  <2> QED BY <2>2, <2>4, <2>5
<1>7. f[n] = sha256_update(s, data)
  BY <1>3, <1>4
<1> QED BY <1>5, <1>6, <1>7

-----------------------------------------------------------------------------
(* Blocks *)

LEMMA Sizes == /\ Block \in Nat /\ Block > 0 /\ LenBytes \in Nat /\ 1 <= LenBytes /\ LenBytes < Block
               /\ HmacBytes \in Nat /\ 1 <= HmacBytes /\ HmacBytes <= Block
BY IntegrityAssumption

\* A quotient and a remainder are the only ones.
LEMMA Division ==
    ASSUME NEW q \in Nat, NEW r \in 0 .. Block - 1
    PROVE  (q * Block + r) \div Block = q /\ (q * Block + r) % Block = r
<1>1. PICK n \in Nat : n = q * Block + r
  <2>1. q * Block \in Nat
    BY Sizes
  <2> QED BY <2>1, Sizes
<1>2. PICK d \in Nat : d = n \div Block
  BY Sizes
<1>3. PICK e \in 0 .. Block - 1 : e = n % Block
  BY Sizes
<1>4. n = Block * d + e
  BY <1>2, <1>3, Sizes
<1>5. d = q
  <2>1. ~(d < q)
    <3> SUFFICES ASSUME d + 1 <= q PROVE FALSE
      OBVIOUS
    <3>1. (d + 1) * Block <= q * Block
      BY Sizes
    <3>2. (d + 1) * Block = Block * d + Block
      BY Sizes
    <3> QED BY <1>1, <1>4, <3>1, <3>2, Sizes
  <2>2. ~(q < d)
    <3> SUFFICES ASSUME q + 1 <= d PROVE FALSE
      OBVIOUS
    <3>1. (q + 1) * Block <= d * Block
      BY Sizes
    <3>2. (q + 1) * Block = q * Block + Block /\ d * Block = Block * d
      BY Sizes
    <3> QED BY <1>1, <1>4, <3>1, <3>2, Sizes
  <2> QED BY <2>1, <2>2
<1>6. Block * d = q * Block
  BY <1>5, Sizes
<1> QED BY <1>1, <1>2, <1>3, <1>4, <1>5, <1>6, Sizes

\* The first q blocks of m.
Chop(m, q) == [k \in 1 .. q |-> [i \in 1 .. Block |-> m[(k - 1) * Block + i]]]

\* Position i of block k.
LEMMA Position ==
    ASSUME NEW q \in Nat, NEW k \in 1 .. q, NEW i \in 1 .. Block
    PROVE  (k - 1) * Block + i \in 1 .. q * Block
<1>1. 0 <= (k - 1) * Block /\ (k - 1) * Block + Block = k * Block /\ k * Block <= q * Block
  BY Sizes
<1>2. (k - 1) * Block \in Int /\ k * Block \in Int /\ q * Block \in Int
  BY Sizes
<1> QED BY <1>1, <1>2, Sizes

LEMMA BlocksAre ==
    ASSUME NEW T, NEW m \in Seq(T), NEW q \in Nat, Len(m) = q * Block
    PROVE  Blocks(m) = Chop(m, q)
<1>1. Len(m) \div Block = q
  <2>1. (q * Block + 0) \div Block = q /\ q * Block + 0 = q * Block
    BY Division, Sizes
  <2> QED BY <2>1
<1>2. ASSUME NEW k \in 1 .. q
      PROVE  SubSeq(m, (k - 1) * Block + 1, k * Block) = [i \in 1 .. Block |-> m[(k - 1) * Block + i]]
  <2>1. PICK a \in Nat : a = (k - 1) * Block /\ a + Block = k * Block
    <3>1. (k - 1) * Block \in Nat /\ (k - 1) * Block + Block = k * Block
      BY Sizes
    <3> QED BY <3>1
  <2>2. SubSeq(m, a + 1, a + Block) = [i \in 1 .. (a + Block) - (a + 1) + 1 |-> m[i + (a + 1) - 1]]
    BY <2>1, Sizes
  <2>3. 1 .. (a + Block) - (a + 1) + 1 = 1 .. Block /\ \A i \in 1 .. Block : i + (a + 1) - 1 = a + i
    BY <2>1, Sizes
  <2> QED BY <2>1, <2>2, <2>3
<1> QED BY <1>1, <1>2 DEF Blocks, Chop

\* s is the state of a hash that has seen m.
Absorbed(s, m) ==
    \E q \in Nat :
        /\ s.used \in 0 .. Block - 1 /\ Len(m) = q * Block + s.used /\ s.total = Len(m)
        /\ s.h = Chop(m, q)
        /\ DOMAIN s.block = 1 .. Block /\ \A i \in 1 .. s.used : s.block[i] = m[q * Block + i]

LEMMA InitAbsorbed == Absorbed(sha256_init, << >>)
<1>1. 0 * Block = 0 /\ 0 \in 0 .. Block - 1
  BY Sizes
<1>2. Chop(<< >>, 0) = << >>
  BY DEF Chop
<1>3. /\ sha256_init.used = 0 /\ sha256_init.total = 0 /\ sha256_init.h = << >>
      /\ DOMAIN sha256_init.block = 1 .. Block
  BY DEF sha256_init
<1> QED BY <1>1, <1>2, <1>3 DEF Absorbed

LEMMA AppendIs ==
    ASSUME NEW B, NEW hs \in Seq(B), NEW b \in B
    PROVE  Append(hs, b) = [k \in 1 .. Len(hs) + 1 |-> IF k = Len(hs) + 1 THEN b ELSE hs[k]]
<1>1. PICK n \in Nat : n = Len(hs)
  OBVIOUS
<1>2. PICK as : as = Append(hs, b)
  OBVIOUS
<1>3. as \in Seq(B) /\ Len(as) = n + 1 /\ as[n + 1] = b /\ \A k \in 1 .. n : as[k] = hs[k]
  BY <1>1, <1>2, AppendProperties
<1>4. \A k \in 1 .. n + 1 : k = n + 1 \/ k \in 1 .. n
  OBVIOUS
<1>5. PICK fs : fs = [k \in 1 .. n + 1 |-> IF k = n + 1 THEN b ELSE hs[k]]
  OBVIOUS
<1>6. fs \in Seq(B) /\ Len(fs) = n + 1 /\ \A k \in 1 .. n + 1 : fs[k] = IF k = n + 1 THEN b ELSE hs[k]
  <2>1. \A k \in 1 .. n : hs[k] \in B
    BY <1>1
  <2> QED BY <1>4, <1>5, <2>1
<1>7. as = fs
  BY <1>3, <1>4, <1>6, SeqEqual
<1> QED BY <1>1, <1>2, <1>5, <1>7

\* One block more.
LEMMA ChopAppend ==
    ASSUME NEW T, NEW n \in Seq(T), NEW q \in Nat, (q + 1) * Block <= Len(n)
    PROVE  Append(Chop(n, q), [i \in 1 .. Block |-> n[q * Block + i]]) = Chop(n, q + 1)
<1>1. PICK row : row = [i \in 1 .. Block |-> n[q * Block + i]]
  OBVIOUS
<1>2. \A k \in 1 .. q + 1, i \in 1 .. Block : n[(k - 1) * Block + i] \in T
  <2> SUFFICES ASSUME NEW k \in 1 .. q + 1, NEW i \in 1 .. Block PROVE n[(k - 1) * Block + i] \in T
    OBVIOUS
  <2>1. PICK c \in Nat : c = (q + 1) * Block
    <3>1. (q + 1) * Block \in Nat
      BY Sizes
    <3> QED BY <3>1
  <2>2. (k - 1) * Block + i \in 1 .. c
    BY <2>1, Position
  <2>3. PICK j \in 1 .. c : j = (k - 1) * Block + i
    BY <2>2
  <2>4. j \in 1 .. Len(n)
    BY <2>1
  <2> QED BY <2>3, <2>4
<1>3. Chop(n, q) \in Seq([1 .. Block -> T])
  <2>1. \A k \in 1 .. q : k \in 1 .. q + 1
    OBVIOUS
  <2> QED BY <1>2, <2>1 DEF Chop
<1>4. PICK hs \in Seq([1 .. Block -> T]) : hs = Chop(n, q)
  BY <1>3
<1>5. Len(hs) = q /\ \A k \in 1 .. q : hs[k] = [i \in 1 .. Block |-> n[(k - 1) * Block + i]]
  BY <1>4 DEF Chop
<1>6. (q + 1) - 1 = q /\ q + 1 \in 1 .. q + 1 /\ \A k \in 1 .. q + 1 : k # q + 1 => k \in 1 .. q
  OBVIOUS
<1>7. row \in [1 .. Block -> T]
  <2>1. \A i \in 1 .. Block : n[((q + 1) - 1) * Block + i] \in T
    BY <1>2, <1>6
  <2> QED BY <1>1, <1>6, <2>1
<1>8. Chop(n, q + 1) = [k \in 1 .. q + 1 |-> IF k = q + 1 THEN row ELSE hs[k]]
  <2>1. [i \in 1 .. Block |-> n[((q + 1) - 1) * Block + i]] = row
    BY <1>1, <1>6
  <2> QED BY <1>5, <1>6, <2>1 DEF Chop
<1>9. Append(hs, row) = [k \in 1 .. q + 1 |-> IF k = q + 1 THEN row ELSE hs[k]]
  BY <1>5, <1>7, AppendIs
<1> QED BY <1>1, <1>4, <1>8, <1>9

LEMMA PutAbsorbed ==
    ASSUME NEW T, NEW m \in Seq(T), NEW b \in T, NEW s, Absorbed(s, m)
    PROVE  Absorbed(Put(s, b), Append(m, b))
<1>1. PICK q \in Nat :
         /\ s.used \in 0 .. Block - 1 /\ Len(m) = q * Block + s.used /\ s.total = Len(m)
         /\ s.h = Chop(m, q)
         /\ DOMAIN s.block = 1 .. Block /\ \A i \in 1 .. s.used : s.block[i] = m[q * Block + i]
  BY DEF Absorbed
<1>2. PICK u \in 0 .. Block - 1 : u = s.used
  BY <1>1
<1>3. PICK a \in Nat : a = q * Block
  <2>1. q * Block \in Nat
    BY Sizes
  <2> QED BY <2>1
<1>4. PICK n : n = Append(m, b)
  OBVIOUS
<1>5. n \in Seq(T) /\ Len(n) = a + u + 1 /\ n[a + u + 1] = b /\ \A i \in 1 .. a + u : n[i] = m[i]
  BY <1>1, <1>2, <1>3, <1>4
<1>6. PICK block : block = [s.block EXCEPT ![u + 1] = b]
  OBVIOUS
<1>7. DOMAIN block = 1 .. Block /\ \A i \in 1 .. u + 1 : block[i] = n[a + i]
  <2>1. u + 1 \in 1 .. Block
    BY Sizes
  <2>2. DOMAIN block = 1 .. Block /\ block[u + 1] = b
    BY <1>1, <1>6, <2>1
  <2>3. \A i \in 1 .. u : block[i] = s.block[i] /\ i \in 1 .. Block
    BY <1>1, <1>6, <2>1, Sizes
  <2>4. \A i \in 1 .. u : a + i \in 1 .. a + u
    OBVIOUS
  <2>5. \A i \in 1 .. u : block[i] = n[a + i]
    BY <1>1, <1>2, <1>3, <1>5, <2>3, <2>4
  <2>6. block[u + 1] = n[a + (u + 1)]
    BY <1>5, <2>2
  <2>7. \A i \in 1 .. u + 1 : i \in 1 .. u \/ i = u + 1
    OBVIOUS
  <2> QED BY <2>2, <2>5, <2>6, <2>7
<1>8. PICK p : p = Put(s, b)
  OBVIOUS
<1>9. /\ p.h = IF u + 1 = Block THEN Append(s.h, block) ELSE s.h
      /\ p.block = block /\ p.used = (IF u + 1 = Block THEN 0 ELSE u + 1) /\ p.total = s.total + 1
  BY <1>2, <1>6, <1>8 DEF Put, sha256_transform
<1>10. p.total = Len(n)
  BY <1>1, <1>2, <1>3, <1>5, <1>9
<1>11. Chop(n, q) = Chop(m, q)
  <2>1. ASSUME NEW k \in 1 .. q, NEW i \in 1 .. Block
        PROVE  n[(k - 1) * Block + i] = m[(k - 1) * Block + i]
    <3>1. (k - 1) * Block + i \in 1 .. a
      BY <1>3, Position
    <3>2. (k - 1) * Block + i \in 1 .. a + u
      BY <3>1
    <3> QED BY <1>5, <3>2
  <2> QED BY <2>1 DEF Chop
<1>12. CASE u + 1 # Block
  <2>1. u + 1 \in 0 .. Block - 1 /\ Len(n) = q * Block + (u + 1)
    BY <1>3, <1>5, <1>12, Sizes
  <2>2. p.h = Chop(n, q) /\ p.used = u + 1 /\ p.block = block
    BY <1>1, <1>9, <1>11, <1>12
  <2>3. \A i \in 1 .. p.used : p.block[i] = n[q * Block + i]
    BY <1>3, <1>7, <2>2
  <2> QED BY <1>4, <1>7, <1>8, <1>10, <2>1, <2>2, <2>3 DEF Absorbed
<1>13. CASE u + 1 = Block
  <2>1. (q + 1) * Block = a + Block
    BY <1>3, Sizes
  <2>2. q + 1 \in Nat /\ Len(n) = (q + 1) * Block + 0 /\ 0 \in 0 .. Block - 1 /\ p.used = 0
    BY <1>5, <1>9, <1>13, <2>1, Sizes
  <2>3. block = [i \in 1 .. Block |-> n[a + i]]
    <3>1. block = [i \in 1 .. Block |-> block[i]]
      BY <1>1, <1>6
    <3> QED BY <1>7, <1>13, <3>1
  <2>4. Append(Chop(n, q), block) = Chop(n, q + 1)
    <3>1. (q + 1) * Block <= Len(n)
      BY <1>5, <1>13, <2>1
    <3> QED BY <1>3, <1>5, <2>3, <3>1, ChopAppend
  <2>9. p.h = Chop(n, q + 1)
    BY <1>1, <1>9, <1>11, <1>13, <2>4
  <2>10. /\ p.used \in 0 .. Block - 1 /\ Len(n) = (q + 1) * Block + p.used
         /\ \A i \in 1 .. p.used : p.block[i] = n[(q + 1) * Block + i]
    BY <2>2
  <2> QED BY <1>4, <1>7, <1>8, <1>9, <1>10, <2>2, <2>9, <2>10 DEF Absorbed
<1> QED BY <1>12, <1>13

\* What update has seen is appended.
LEMMA UpdateAbsorbed ==
    ASSUME NEW T, NEW m \in Seq(T), NEW data \in Seq(T), NEW s, Absorbed(s, m)
    PROVE  Absorbed(sha256_update(s, data), m \o data)
<1>1. Len(data) \in Nat /\ DOMAIN data = 1 .. Len(data)
  OBVIOUS
<1> DEFINE n == Len(data)
<1>2. PICK f : /\ f[0] = s /\ f[n] = sha256_update(s, data)
               /\ \A k \in 0 .. n - 1 : f[k + 1] = Put(f[k], data[k + 1])
  BY <1>1, UpdateSteps
<1> DEFINE P == {k \in Nat : k <= n => Absorbed(f[k], m \o SubSeq(data, 1, k))}
<1>3. 0 \in P
  <2>1. m \o SubSeq(data, 1, 0) = m
    OBVIOUS
  <2> QED BY <1>2, <2>1
<1>4. ASSUME NEW k \in P PROVE k + 1 \in P
  <2> SUFFICES ASSUME k + 1 <= n PROVE Absorbed(f[k + 1], m \o SubSeq(data, 1, k + 1))
    OBVIOUS
  <2>1. k \in 0 .. n - 1 /\ k + 1 \in 1 .. n /\ Absorbed(f[k], m \o SubSeq(data, 1, k))
    BY <1>1
  <2>2. PICK v : v = m \o SubSeq(data, 1, k)
    OBVIOUS
  <2>3. v \in Seq(T) /\ data[k + 1] \in T
    BY <1>1, <2>1, <2>2
  <2>4. m \o SubSeq(data, 1, k + 1) = Append(v, data[k + 1])
    BY <1>1, <2>1, <2>2
  <2>5. Absorbed(Put(f[k], data[k + 1]), Append(v, data[k + 1]))
    BY <2>1, <2>2, <2>3, PutAbsorbed
  <2> QED BY <1>2, <2>1, <2>4, <2>5
<1>5. P = Nat
  BY <1>3, <1>4, SetInduction
<1>6. Absorbed(f[n], m \o SubSeq(data, 1, n))
  BY <1>5
<1>7. SubSeq(data, 1, n) = data
  BY <1>1
<1> QED BY <1>2, <1>6, <1>7


-----------------------------------------------------------------------------
(* Padding *)

\* The zeros that fill up a block of which r bytes are taken.
LEMMA Fill ==
    ASSUME NEW q \in Nat, NEW r \in 0 .. Block - 1
    PROVE  (Block - ((q * Block + r) % Block)) % Block = IF r = 0 THEN 0 ELSE Block - r
<1>1. (q * Block + r) % Block = r
  BY Division
<1>2. CASE r = 0
  <2>1. 1 * Block + 0 = Block - r /\ 0 \in 0 .. Block - 1
    BY <1>2, Sizes
  <2>2. (1 * Block + 0) % Block = 0
    BY <2>1, Division
  <2> QED BY <1>1, <1>2, <2>1, <2>2
<1>3. CASE r # 0
  <2>1. 0 * Block + (Block - r) = Block - r /\ Block - r \in 0 .. Block - 1
    BY <1>3, Sizes
  <2>2. (0 * Block + (Block - r)) % Block = Block - r
    BY <2>1, Division
  <2> QED BY <1>1, <1>3, <2>1, <2>2
<1> QED BY <1>2, <1>3

\* The number of blocks of a message of q blocks and u bytes, when padded.
Padding(q, u) == IF u + 1 > Block - LenBytes THEN q + 2 ELSE q + 1

LEMMA PaddedLength ==
    ASSUME NEW q \in Nat, NEW u \in 0 .. Block - 1, NEW l, l = q * Block + u,
           NEW z, z = (Block - ((l + 1 + LenBytes) % Block)) % Block
    PROVE  z \in Nat /\ l + 1 + z + LenBytes = Padding(q, u) * Block
<1>1. PICK a \in Nat : a = q * Block
  <2>1. q * Block \in Nat
    BY Sizes
  <2> QED BY <2>1
<1>2. (q + 1) * Block = a + Block /\ (q + 2) * Block = a + Block + Block
  BY <1>1, Sizes
<1>3. CASE u + 1 + LenBytes < Block
  <2>1. PICK r \in 0 .. Block - 1 : r = u + 1 + LenBytes /\ r # 0
    BY <1>3, Sizes
  <2>2. l + 1 + LenBytes = q * Block + r
    BY <1>1, <2>1, Sizes
  <2>3. z = Block - r
    BY <2>1, <2>2, Fill
  <2>4. Padding(q, u) = q + 1
    BY <1>3, Sizes DEF Padding
  <2> QED BY <1>1, <1>2, <2>1, <2>2, <2>3, <2>4, Sizes
<1>4. CASE u + 1 + LenBytes = Block
  <2>1. l + 1 + LenBytes = (q + 1) * Block + 0 /\ q + 1 \in Nat /\ 0 \in 0 .. Block - 1
    BY <1>1, <1>2, <1>4, Sizes
  <2>2. z = 0
    BY <2>1, Fill
  <2>3. Padding(q, u) = q + 1
    BY <1>4, Sizes DEF Padding
  <2> QED BY <1>1, <1>2, <1>4, <2>2, <2>3, Sizes
<1>5. CASE u + 1 + LenBytes > Block
  <2>1. PICK r \in 0 .. Block - 1 : r = u + 1 + LenBytes - Block /\ r # 0
    BY <1>5, Sizes
  <2>2. l + 1 + LenBytes = (q + 1) * Block + r /\ q + 1 \in Nat
    BY <1>1, <1>2, <2>1, Sizes
  <2>3. z = Block - r
    BY <2>1, <2>2, Fill
  <2>4. Padding(q, u) = q + 2
    BY <1>5, Sizes DEF Padding
  <2> QED BY <1>1, <1>2, <2>1, <2>2, <2>3, <2>4, Sizes
<1> QED BY <1>3, <1>4, <1>5, Sizes

\* r is s and then t, of lengths k and n.
IsJoin(r, s, t, k, n) ==
    Len(r) = k + n /\ \A i \in 1 .. k + n : r[i] = IF i <= k THEN s[i] ELSE t[i - k]

LEMMA Joined ==
    ASSUME NEW W, NEW s \in Seq(W), NEW t \in Seq(W), NEW k \in Nat, NEW n \in Nat,
           Len(s) = k, Len(t) = n, NEW r, r = s \o t
    PROVE  r \in Seq(W) /\ IsJoin(r, s, t, k, n)
<1>1. /\ s \o t \in Seq(W) /\ Len(s \o t) = Len(s) + Len(t)
      /\ \A i \in 1 .. Len(s) + Len(t) : (s \o t)[i] = IF i <= Len(s) THEN s[i] ELSE t[i - Len(s)]
  BY ConcatProperties, Zenon
<1> QED BY <1>1, Zenon DEF IsJoin

LEMMA IsSeq ==
    ASSUME NEW W, NEW n \in Nat, NEW f, f = [i \in 1 .. n |-> f[i]], \A i \in 1 .. n : f[i] \in W
    PROVE  f \in Seq(W) /\ Len(f) = n
<1>1. f \in [1 .. n -> W]
  OBVIOUS
<1> QED BY <1>1

\* The message, the mark, zeros and the length, byte by byte; e bytes in all.
IsPadded(n, m, e) ==
    /\ e \in Nat /\ Len(m) + 1 <= e - LenBytes /\ Len(n) = e
    /\ \E W : n \in Seq(W)
    /\ \A j \in 1 .. e : n[j] =
          IF j <= Len(m) THEN m[j] ELSE IF j = Len(m) + 1 THEN Mark
          ELSE IF j <= e - LenBytes THEN Zero ELSE <<"len", Len(m), Block - (e - j)>>

LEMMA PaddedBytes ==
    ASSUME NEW T, NEW m \in Seq(T), NEW q \in Nat, NEW u \in 0 .. Block - 1, Len(m) = q * Block + u
    PROVE  IsPadded(Padded(m), m, Padding(q, u) * Block)
<1> DEFINE e == Padding(q, u) * Block
<1>1. PICK l \in Nat : l = Len(m)
  OBVIOUS
<1>2. PICK z : z = (Block - ((l + 1 + LenBytes) % Block)) % Block
  OBVIOUS
<1>3. z \in Nat /\ l + 1 + z + LenBytes = e
  BY <1>1, <1>2, PaddedLength
<1> HIDE DEF e
<1>4. PICK lens : lens = [i \in 1 .. LenBytes |-> <<"len", l, Block - LenBytes + i>>]
  OBVIOUS
<1>5. PICK W : W = T \cup {Mark, Zero} \cup {lens[i] : i \in 1 .. LenBytes}
  OBVIOUS
<1>6. m \in Seq(W)
  <2>1. \A i \in 1 .. Len(m) : m[i] \in W
    BY <1>5
  <2> QED BY <2>1
<1>7. PICK mk : mk = <<Mark>>
  OBVIOUS
<1>8. mk \in Seq(W) /\ Len(mk) = 1 /\ mk[1] = Mark
  <2>1. Mark \in W
    BY <1>5
  <2> QED BY <1>7, <2>1
<1>9. Zeros(z) \in Seq(W) /\ Len(Zeros(z)) = z /\ \A i \in 1 .. z : Zeros(z)[i] = Zero
  <2>1. Zero \in W
    BY <1>5
  <2> QED BY <1>3, <2>1 DEF Zeros
<1>10. lens \in Seq(W) /\ Len(lens) = LenBytes
  <2>1. \A i \in 1 .. LenBytes : lens[i] \in W
    BY <1>5
  <2>2. lens = [i \in 1 .. LenBytes |-> lens[i]]
    BY <1>4
  <2> QED BY <2>1, <2>2, Sizes, IsSeq
<1>11. PICK a : a = m \o mk
  OBVIOUS
<1>12. /\ a \in Seq(W) /\ Len(a) = l + 1
       /\ \A i \in 1 .. l + 1 : a[i] = IF i <= l THEN m[i] ELSE Mark
  <2>1. /\ a \in Seq(W) /\ Len(a) = l + 1
        /\ \A i \in 1 .. l + 1 : a[i] = IF i <= l THEN m[i] ELSE mk[i - l]
    <3>1. 1 \in Nat
      OBVIOUS
    <3>2. a \in Seq(W) /\ IsJoin(a, m, mk, l, 1)
      BY <1>1, <1>6, <1>8, <1>11, <3>1, Joined
    <3> QED BY <3>2 DEF IsJoin
  <2>2. \A i \in 1 .. l + 1 : i <= l \/ i - l = 1
    OBVIOUS
  <2> QED BY <1>8, <2>1, <2>2
<1>13. PICK b : b = a \o Zeros(z)
  OBVIOUS
<1>14. /\ b \in Seq(W) /\ Len(b) = l + 1 + z
       /\ \A i \in 1 .. l + 1 + z : b[i] = IF i <= l THEN m[i] ELSE IF i = l + 1 THEN Mark ELSE Zero
  <2>1. /\ b \in Seq(W) /\ Len(b) = l + 1 + z
        /\ \A i \in 1 .. l + 1 + z : b[i] = IF i <= l + 1 THEN a[i] ELSE Zeros(z)[i - (l + 1)]
    <3>1. l + 1 \in Nat
      OBVIOUS
    <3>2. b \in Seq(W) /\ IsJoin(b, a, Zeros(z), l + 1, z)
      BY <1>3, <1>9, <1>12, <1>13, <3>1, Joined
    <3> QED BY <3>2 DEF IsJoin
  <2>2. \A i \in 1 .. l + 1 + z : i <= l + 1 \/ i - (l + 1) \in 1 .. z
    BY <1>3
  <2>3. \A i \in 1 .. l + 1 + z : i <= l + 1 => i \in 1 .. l + 1
    BY <1>3
  <2>4. \A i \in 1 .. l + 1 + z : i <= l + 1 => (i <= l \/ i = l + 1)
    BY <1>3
  <2>5. \A i \in 1 .. l + 1 + z : i <= l + 1 => b[i] = IF i <= l THEN m[i] ELSE Mark
    BY <1>12, <2>1, <2>3
  <2>6. \A i \in 1 .. l + 1 + z : ~(i <= l + 1) => b[i] = Zero
    BY <1>9, <2>1, <2>2
  <2>7. \A i \in 1 .. l + 1 + z : ~(i <= l + 1) => ~(i <= l) /\ i # l + 1
    BY <1>3
  <2> QED BY <2>1, <2>4, <2>5, <2>6, <2>7
<1>15. Padded(m) = b \o lens
  BY <1>1, <1>2, <1>4, <1>7, <1>11, <1>13 DEF Padded
<1>16. /\ Padded(m) \in Seq(W) /\ Len(Padded(m)) = e
       /\ \A i \in 1 .. e : Padded(m)[i] = IF i <= e - LenBytes THEN b[i] ELSE lens[i - (e - LenBytes)]
  <2>1. PICK c \in Nat : c = l + 1 + z /\ c + LenBytes = e /\ c = e - LenBytes
    BY <1>3, Sizes
  <2>2. /\ b \o lens \in Seq(W) /\ Len(b \o lens) = c + LenBytes
        /\ \A i \in 1 .. c + LenBytes : (b \o lens)[i] = IF i <= c THEN b[i] ELSE lens[i - c]
    <3>1. LenBytes \in Nat
      BY Sizes
    <3>2. b \o lens \in Seq(W) /\ IsJoin(b \o lens, b, lens, c, LenBytes)
      BY <1>10, <1>14, <2>1, <3>1, Joined
    <3> QED BY <3>2 DEF IsJoin
  <2> QED BY <1>15, <2>1, <2>2
<1>17. e \in Nat /\ e - LenBytes = l + 1 + z /\ l + 1 <= e - LenBytes
  BY <1>3, Sizes
<1>18. ASSUME NEW j \in 1 .. e
       PROVE Padded(m)[j] =
                 IF j <= l THEN m[j] ELSE IF j = l + 1 THEN Mark
                 ELSE IF j <= e - LenBytes THEN Zero ELSE <<"len", l, Block - (e - j)>>
  <2>1. CASE j <= e - LenBytes
    <3>1. j \in 1 .. l + 1 + z
      BY <1>17, <2>1
    <3> QED BY <1>14, <1>16, <2>1, <3>1
  <2>2. CASE ~(j <= e - LenBytes)
    <3>1. PICK i \in 1 .. LenBytes : i = j - (e - LenBytes)
      BY <1>17, <2>2, Sizes
    <3>2. Block - LenBytes + i = Block - (e - j)
      BY <1>17, <3>1, Sizes
    <3>3. ~(j <= l) /\ j # l + 1
      BY <1>17, <2>2, Sizes
    <3>4. lens[i] = <<"len", l, Block - (e - j)>>
      BY <1>4, <3>2
    <3> QED BY <1>16, <2>2, <3>1, <3>3, <3>4
  <2> QED BY <2>1, <2>2
<1>19. IsPadded(Padded(m), m, e)
  BY <1>1, <1>16, <1>17, <1>18 DEF IsPadded
<1> QED BY <1>19 DEF e


\* The blocks that sha256_final compresses, one or two, are those of the
\* padded message.
LEMMA FinalStandard ==
    ASSUME NEW T, NEW m \in Seq(T), NEW s, Absorbed(s, m)
    PROVE  sha256_final(s) = Sha(m)
<1>1. PICK q \in Nat :
         /\ s.used \in 0 .. Block - 1 /\ Len(m) = q * Block + s.used /\ s.total = Len(m)
         /\ s.h = Chop(m, q)
         /\ DOMAIN s.block = 1 .. Block /\ \A i \in 1 .. s.used : s.block[i] = m[q * Block + i]
  BY DEF Absorbed
<1>2. PICK u \in 0 .. Block - 1 : u = s.used
  BY <1>1
<1>3. PICK a \in Nat : a = q * Block
  <2>1. q * Block \in Nat
    BY Sizes
  <2> QED BY <2>1
<1>4. PICK l \in Nat : l = Len(m) /\ l = a + u /\ s.total = l
  BY <1>1, <1>2, <1>3
<1>5. PICK e : e = Padding(q, u) * Block
  OBVIOUS
<1>6. PICK n : n = Padded(m)
  OBVIOUS
<1>7. /\ e \in Nat /\ l + 1 <= e - LenBytes /\ Len(n) = e
      /\ \E W : n \in Seq(W)
      /\ \A j \in 1 .. e : n[j] =
            IF j <= l THEN m[j] ELSE IF j = l + 1 THEN Mark
            ELSE IF j <= e - LenBytes THEN Zero ELSE <<"len", l, Block - (e - j)>>
  <2>1. Len(m) = q * Block + u
    BY <1>1, <1>2
  <2>2. IsPadded(n, m, e)
    BY <1>5, <1>6, <2>1, PaddedBytes
  <2> QED BY <1>4, <2>2 DEF IsPadded
<1>8. PICK W : n \in Seq(W)
  BY <1>7
<1>9. (q + 1) * Block = a + Block /\ (q + 2) * Block = a + Block + Block
  BY <1>3, Sizes
<1>10. s.h = Chop(n, q)
  <2>1. ASSUME NEW k \in 1 .. q, NEW i \in 1 .. Block
        PROVE  n[(k - 1) * Block + i] = m[(k - 1) * Block + i]
    <3>1. PICK j \in 1 .. a : j = (k - 1) * Block + i
      <4>1. (k - 1) * Block + i \in 1 .. a
        BY <1>3, Position
      <4> QED BY <4>1
    <3>2. j \in 1 .. e /\ j <= l
      BY <1>4, <1>7, Sizes
    <3> QED BY <1>7, <3>1, <3>2
  <2>2. Chop(n, q) = Chop(m, q)
    BY <2>1 DEF Chop
  <2> QED BY <1>1, <2>2
<1>11. PICK marked : marked = [i \in 1 .. Block |->
                                  IF i < u + 1 THEN s.block[i] ELSE IF i = u + 1 THEN Mark ELSE Zero]
  OBVIOUS
<1>12. \A i \in 1 .. Block : i < u + 1 => i \in 1 .. s.used
  BY <1>2
<1>13. \A i \in 1 .. Block : i < u + 1 => s.block[i] = m[a + i]
  BY <1>1, <1>3, <1>12
<1>14. CASE u + 1 > Block - LenBytes
  <2>1. e = a + Block + Block /\ Len(n) = (q + 2) * Block
    BY <1>5, <1>7, <1>9, <1>14 DEF Padding
  <2>2. marked = [i \in 1 .. Block |-> n[q * Block + i]]
    <3>1. ASSUME NEW i \in 1 .. Block PROVE marked[i] = n[a + i]
      <4>1. a + i \in 1 .. e /\ a + i <= e - LenBytes
        BY <2>1, Sizes
      <4>2. (i < u + 1 <=> a + i <= l) /\ (i = u + 1 <=> a + i = l + 1)
        BY <1>4
      <4> QED BY <1>7, <1>11, <1>13, <4>1, <4>2
    <3> QED BY <1>3, <1>11, <3>1
  <2>3. PICK last : last = [i \in 1 .. Block |-> IF i > Block - LenBytes THEN <<"len", l, i>> ELSE Zero]
    OBVIOUS
  <2>4. last = [i \in 1 .. Block |-> n[(q + 1) * Block + i]]
    <3>1. ASSUME NEW i \in 1 .. Block PROVE last[i] = n[a + Block + i]
      <4>1. PICK j \in 1 .. e : j = a + Block + i
        BY <2>1, Sizes
      <4>2. ~(j <= l) /\ j # l + 1 /\ Block - (e - j) = i /\ (j <= e - LenBytes <=> ~(i > Block - LenBytes))
        BY <1>4, <2>1, <4>1, Sizes
      <4> QED BY <1>7, <2>3, <4>1, <4>2
    <3> QED BY <1>9, <2>3, <3>1
  <2>5. sha256_final(s) = [i \in 1 .. HmacBytes |-> <<"digest", i, Append(Append(s.h, marked), last)>>]
    <3>1. last = [i \in 1 .. Block |-> IF i > Block - LenBytes THEN <<"len", s.total, i>>
                                       ELSE [k \in 1 .. Block |-> Zero][i]]
      BY <1>4, <2>3
    <3> QED BY <1>2, <1>11, <1>14, <3>1 DEF sha256_final, sha256_transform
  <2>6. Append(s.h, marked) = Chop(n, q + 1)
    <3>1. (q + 1) * Block <= Len(n)
      BY <1>7, <1>9, <2>1, Sizes
    <3> QED BY <1>8, <1>10, <2>2, <3>1, ChopAppend
  <2>7. Append(Chop(n, q + 1), last) = Chop(n, q + 2)
    <3>1. PICK r \in Nat : r = q + 1 /\ r + 1 = q + 2
      OBVIOUS
    <3>2. (r + 1) * Block <= Len(n) /\ last = [i \in 1 .. Block |-> n[r * Block + i]]
      <4>1. (q + 2) * Block <= Len(n)
        BY <1>7, <1>9, <2>1, Sizes
      <4> QED BY <2>4, <3>1, <4>1
    <3>3. Append(Chop(n, r), last) = Chop(n, r + 1)
      BY <1>8, <3>2, ChopAppend
    <3> QED BY <3>1, <3>3
  <2>8. Blocks(n) = Chop(n, q + 2)
    <3>1. q + 2 \in Nat
      OBVIOUS
    <3> QED BY <1>8, <2>1, <3>1, BlocksAre
  <2> QED BY <1>6, <2>5, <2>6, <2>7, <2>8 DEF Sha
<1>15. CASE ~(u + 1 > Block - LenBytes)
  <2>1. e = a + Block /\ Len(n) = (q + 1) * Block
    BY <1>5, <1>7, <1>9, <1>15 DEF Padding
  <2>2. PICK last : last = [i \in 1 .. Block |-> IF i > Block - LenBytes THEN <<"len", l, i>> ELSE marked[i]]
    OBVIOUS
  <2>3. last = [i \in 1 .. Block |-> n[q * Block + i]]
    <3>1. ASSUME NEW i \in 1 .. Block PROVE last[i] = n[a + i]
      <4>1. PICK j \in 1 .. e : j = a + i
        BY <2>1, Sizes
      <4>2. /\ (i < u + 1 <=> j <= l) /\ (i = u + 1 <=> j = l + 1)
            /\ Block - (e - j) = i /\ (j <= e - LenBytes <=> ~(i > Block - LenBytes))
        BY <1>4, <2>1, <4>1, Sizes
      <4>3. CASE i > Block - LenBytes
        <5>1. ~(j <= l) /\ j # l + 1
          BY <1>4, <1>15, <4>1, <4>3, Sizes
        <5> QED BY <1>7, <2>2, <4>1, <4>2, <4>3, <5>1
      <4>4. CASE ~(i > Block - LenBytes)
        <5>1. last[i] = IF i < u + 1 THEN m[a + i] ELSE IF i = u + 1 THEN Mark ELSE Zero
          BY <1>11, <1>13, <2>2, <4>4
        <5> QED BY <1>7, <4>1, <4>2, <4>4, <5>1
      <4> QED BY <4>3, <4>4
    <3> QED BY <1>3, <2>2, <3>1
  <2>4. sha256_final(s) = [i \in 1 .. HmacBytes |-> <<"digest", i, Append(s.h, last)>>]
    <3>1. last = [i \in 1 .. Block |-> IF i > Block - LenBytes THEN <<"len", s.total, i>> ELSE marked[i]]
      BY <1>4, <2>2
    <3> QED BY <1>2, <1>11, <1>15, <3>1 DEF sha256_final, sha256_transform
  <2>5. Append(s.h, last) = Chop(n, q + 1)
    <3>1. (q + 1) * Block <= Len(n)
      BY <1>7, <1>9, <2>1, Sizes
    <3> QED BY <1>8, <1>10, <2>3, <3>1, ChopAppend
  <2>6. Blocks(n) = Chop(n, q + 1)
    <3>1. q + 1 \in Nat
      OBVIOUS
    <3> QED BY <1>8, <2>1, <3>1, BlocksAre
  <2> QED BY <1>6, <2>4, <2>5, <2>6 DEF Sha
<1> QED BY <1>14, <1>15


-----------------------------------------------------------------------------
(* Digests *)

LEMMA Widen ==
    ASSUME NEW T, NEW W, T \subseteq W, NEW m \in Seq(T)
    PROVE  m \in Seq(W)
<1>1. PICK n \in Nat : n = Len(m)
  OBVIOUS
<1>2. m = [i \in 1 .. n |-> m[i]] /\ \A i \in 1 .. n : m[i] \in W
  <2>1. \A i \in 1 .. n : m[i] \in T
    BY <1>1
  <2>2. m \in [1 .. n -> T]
    BY <1>1
  <2> QED BY <2>1, <2>2
<1> QED BY <1>2, IsSeq

\* sha256_update over the whole message and sha256_final give the digest of
\* FIPS 180-4: a message of any length is cut into the same blocks, those with
\* the mark, the zeros and the length included.
THEOREM Sha256Standard ==
    ASSUME NEW T, NEW m \in Seq(T)
    PROVE  sha256(m) = Sha(m)
<1>1. << >> \in Seq(T) /\ << >> \o m = m
  OBVIOUS
<1>2. Absorbed(sha256_update(sha256_init, m), << >> \o m)
  BY <1>1, InitAbsorbed, UpdateAbsorbed
<1> QED BY <1>1, <1>2, FinalStandard DEF sha256

\* A pad of one block.
LEMMA KeyPadSeq ==
    ASSUME NEW key, NEW pad
    PROVE  \E W : KeyPad(key, pad) \in Seq(W) /\ Len(KeyPad(key, pad)) = Block
<1>1. PICK f : f = KeyPad(key, pad)
  OBVIOUS
<1>2. f = [i \in 1 .. Block |-> f[i]]
  BY <1>1 DEF KeyPad
<1>3. PICK W : W = {f[i] : i \in 1 .. Block}
  OBVIOUS
<1>4. \A i \in 1 .. Block : f[i] \in W
  BY <1>3
<1>5. f \in Seq(W) /\ Len(f) = Block
  BY <1>2, <1>4, Sizes, IsSeq
<1> QED BY <1>1, <1>5

\* The digest, as a message.
LEMMA ShaSeq ==
    ASSUME NEW m
    PROVE  \E W : Sha(m) \in Seq(W) /\ Len(Sha(m)) = HmacBytes
<1>1. PICK f : f = Sha(m)
  OBVIOUS
<1>2. f = [i \in 1 .. HmacBytes |-> f[i]]
  BY <1>1 DEF Sha
<1>3. PICK W : W = {f[i] : i \in 1 .. HmacBytes}
  OBVIOUS
<1>4. \A i \in 1 .. HmacBytes : f[i] \in W
  BY <1>3
<1>5. f \in Seq(W) /\ Len(f) = HmacBytes
  BY <1>2, <1>4, Sizes, IsSeq
<1> QED BY <1>1, <1>5

\* A pad and then the data, in two calls of sha256_update.
LEMMA KeyedStandard ==
    ASSUME NEW T, NEW m \in Seq(T), NEW key, NEW pad
    PROVE  sha256_final(sha256_update(sha256_update(sha256_init, KeyPad(key, pad)), m))
             = Sha(KeyPad(key, pad) \o m)
<1>1. PICK k : k = KeyPad(key, pad)
  OBVIOUS
<1>2. PICK V : k \in Seq(V)
  BY <1>1, KeyPadSeq
<1>3. PICK W : W = T \cup V
  OBVIOUS
<1>4. k \in Seq(W) /\ m \in Seq(W)
  <2>1. T \subseteq W /\ V \subseteq W
    BY <1>3
  <2> QED BY <1>2, <2>1, Widen
<1>5. << >> \in Seq(W) /\ << >> \o k = k /\ k \o m \in Seq(W)
  BY <1>4, ConcatProperties
<1>6. Absorbed(sha256_update(sha256_init, k), k)
  <2>1. Absorbed(sha256_update(sha256_init, k), << >> \o k)
    BY <1>4, <1>5, InitAbsorbed, UpdateAbsorbed
  <2> QED BY <1>5, <2>1
<1>7. Absorbed(sha256_update(sha256_update(sha256_init, k), m), k \o m)
  BY <1>4, <1>6, UpdateAbsorbed
<1> QED BY <1>1, <1>5, <1>7, FinalStandard

\* hmac_sha256 computes the signature of RFC 2104: the inner and the outer
\* hash, each continued after its pad of a full block.
THEOREM HmacStandard ==
    ASSUME NEW T, NEW m \in Seq(T), NEW key
    PROVE  hmac_sha256(key, m) = Hmac(key, m)
<1>1. PICK inner : inner = Sha(KeyPad(key, "ipad") \o m)
  OBVIOUS
<1>2. sha256_final(sha256_update(sha256_update(sha256_init, KeyPad(key, "ipad")), m)) = inner
  BY <1>1, KeyedStandard
<1>3. PICK W : inner \in Seq(W)
  BY <1>1, ShaSeq
<1>4. sha256_final(sha256_update(sha256_update(sha256_init, KeyPad(key, "opad")), inner))
        = Sha(KeyPad(key, "opad") \o inner)
  BY <1>3, KeyedStandard
<1>5. hmac_sha256(key, m) = Sha(KeyPad(key, "opad") \o inner)
  BY <1>2, <1>4 DEF hmac_sha256
<1>6. Hmac(key, m) = Sha(KeyPad(key, "opad") \o inner)
  BY <1>1 DEF Hmac, KeyPad
<1> QED BY <1>5, <1>6


-----------------------------------------------------------------------------
(* No two messages have one digest *)

\* Every length is a number of blocks and the bytes of the last one.
LEMMA Quotient ==
    ASSUME NEW n \in Nat
    PROVE  \E q \in Nat, u \in 0 .. Block - 1 : n = q * Block + u
<1>1. PICK q \in Nat : q = n \div Block
  BY Sizes
<1>2. PICK u \in 0 .. Block - 1 : u = n % Block
  BY Sizes
<1>3. n = Block * q + u /\ Block * q = q * Block
  BY <1>1, <1>2, Sizes
<1> QED BY <1>3

\* Byte j is in some block.
LEMMA Reached ==
    ASSUME NEW c \in Nat, NEW j \in 1 .. c * Block
    PROVE  \E k \in 1 .. c, i \in 1 .. Block : j = (k - 1) * Block + i
<1>1. PICK q \in Nat, u \in 0 .. Block - 1 : j - 1 = q * Block + u
  <2>1. j - 1 \in Nat
    BY Sizes
  <2> QED BY <2>1, Quotient
<1>2. q + 1 <= c
  <2> SUFFICES ASSUME c <= q PROVE FALSE
    OBVIOUS
  <2>1. c * Block <= q * Block /\ c * Block \in Int /\ q * Block \in Int
    BY Sizes
  <2> QED BY <1>1, <2>1
<1>3. PICK k \in 1 .. c : k = q + 1 /\ k - 1 = q
  BY <1>2
<1>4. PICK i \in 1 .. Block : i = u + 1
  BY Sizes
<1>5. j = (k - 1) * Block + i
  <2>1. PICK a \in Int : a = q * Block
    BY Sizes
  <2>2. j = a + i
    BY <1>1, <1>4, <2>1
  <2> QED BY <1>3, <2>1, <2>2
<1> QED BY <1>5

\* The blocks of a padded message tell its bytes.
LEMMA PaddedInjective ==
    ASSUME NEW T, NEW m1 \in Seq(T), NEW m2 \in Seq(T), Blocks(Padded(m1)) = Blocks(Padded(m2))
    PROVE  m1 = m2
<1>1. PICK q1 \in Nat, u1 \in 0 .. Block - 1 : Len(m1) = q1 * Block + u1
  <2>1. Len(m1) \in Nat
    OBVIOUS
  <2> QED BY <2>1, Quotient
<1>2. PICK q2 \in Nat, u2 \in 0 .. Block - 1 : Len(m2) = q2 * Block + u2
  <2>1. Len(m2) \in Nat
    OBVIOUS
  <2> QED BY <2>1, Quotient
<1>3. PICK c1 \in Nat : c1 = Padding(q1, u1)
  <2>1. Padding(q1, u1) \in Nat
    BY DEF Padding
  <2> QED BY <2>1
<1>4. PICK c2 \in Nat : c2 = Padding(q2, u2)
  <2>1. Padding(q2, u2) \in Nat
    BY DEF Padding
  <2> QED BY <2>1
<1>5. PICK n1, n2 : n1 = Padded(m1) /\ n2 = Padded(m2)
  OBVIOUS
<1>6. IsPadded(n1, m1, c1 * Block) /\ IsPadded(n2, m2, c2 * Block)
  BY <1>1, <1>2, <1>3, <1>4, <1>5, PaddedBytes
<1>7. Blocks(n1) = Chop(n1, c1) /\ Blocks(n2) = Chop(n2, c2)
  <2>1. (\E W : n1 \in Seq(W)) /\ (\E W : n2 \in Seq(W)) /\ Len(n1) = c1 * Block /\ Len(n2) = c2 * Block
    BY <1>6 DEF IsPadded
  <2> QED BY <2>1, BlocksAre
<1>8. PICK h : h = Chop(n1, c1) /\ h = Chop(n2, c2)
  BY <1>5, <1>7
<1>9. c1 = c2
  <2>1. DOMAIN h = 1 .. c1 /\ DOMAIN h = 1 .. c2
    BY <1>8 DEF Chop
  <2> QED BY <2>1
<1>10. PICK e \in Nat : e = c1 * Block
  BY <1>6 DEF IsPadded
<1>11. \A j \in 1 .. e : n1[j] = n2[j]
  <2> SUFFICES ASSUME NEW j \in 1 .. e PROVE n1[j] = n2[j]
    OBVIOUS
  <2>1. PICK k \in 1 .. c1, i \in 1 .. Block : j = (k - 1) * Block + i
    BY <1>10, Reached
  <2>2. h[k][i] = n1[(k - 1) * Block + i]
    BY <1>8 DEF Chop
  <2>3. h[k][i] = n2[(k - 1) * Block + i]
    <3>1. k \in 1 .. c2
      BY <1>9
    <3>2. h = Chop(n2, c2)
      BY <1>8
    <3> QED BY <3>1, <3>2 DEF Chop
  <2> QED BY <2>1, <2>2, <2>3
<1>12. IsPadded(n1, m1, e) /\ IsPadded(n2, m2, e)
  BY <1>6, <1>9, <1>10
<1>13. n1[e] = <<"len", Len(m1), Block - (e - e)>> /\ n2[e] = <<"len", Len(m2), Block - (e - e)>>
  <2>1. Len(m1) + 1 <= e - LenBytes /\ Len(m2) + 1 <= e - LenBytes /\ Len(m1) \in Nat /\ Len(m2) \in Nat
    BY <1>12 DEF IsPadded
  <2>2. e \in 1 .. e /\ ~(e <= e - LenBytes) /\ ~(e <= Len(m1)) /\ ~(e <= Len(m2)) /\ e # Len(m1) + 1 /\ e # Len(m2) + 1
    BY <2>1, Sizes
  <2> QED BY <1>12, <2>2 DEF IsPadded
<1>14. Len(m1) = Len(m2)
  <2>1. e \in 1 .. e
    BY <1>12, Sizes DEF IsPadded
  <2>2. <<"len", Len(m1), Block - (e - e)>> = <<"len", Len(m2), Block - (e - e)>>
    BY <1>11, <1>13, <2>1
  <2> QED BY <2>2
<1>15. \A j \in 1 .. Len(m1) : m1[j] = m2[j]
  <2> SUFFICES ASSUME NEW j \in 1 .. Len(m1) PROVE m1[j] = m2[j]
    OBVIOUS
  <2>1. j \in 1 .. e /\ j <= Len(m1) /\ j <= Len(m2)
    <3>1. Len(m1) + 1 <= e - LenBytes
      BY <1>12 DEF IsPadded
    <3> QED BY <1>14, <3>1, Sizes
  <2>2. n1[j] = m1[j] /\ n2[j] = m2[j]
    BY <1>12, <2>1 DEF IsPadded
  <2> QED BY <1>11, <2>1, <2>2
<1> QED BY <1>14, <1>15, SeqEqual

\* Padding and blocks of sha256 add no collision to those of the compression
\* function: with none there, two messages of one digest are the same.
LEMMA ShaInjective ==
    ASSUME NEW T, NEW m1 \in Seq(T), NEW m2 \in Seq(T), Sha(m1) = Sha(m2)
    PROVE  m1 = m2
<1>1. 1 \in 1 .. HmacBytes
  BY Sizes
<1>2. Sha(m1)[1] = <<"digest", 1, Blocks(Padded(m1))>> /\ Sha(m2)[1] = <<"digest", 1, Blocks(Padded(m2))>>
  BY <1>1 DEF Sha
<1>3. Blocks(Padded(m1)) = Blocks(Padded(m2))
  BY <1>2
<1> QED BY <1>3, PaddedInjective

LEMMA JoinCancel ==
    ASSUME NEW W, NEW s1 \in Seq(W), NEW s2 \in Seq(W), NEW t1 \in Seq(W), NEW t2 \in Seq(W),
           Len(s1) = Block, Len(s2) = Block, s1 \o t1 = s2 \o t2
    PROVE  s1 = s2 /\ t1 = t2
<1>1. PICK n1 \in Nat, n2 \in Nat : n1 = Len(t1) /\ n2 = Len(t2)
  OBVIOUS
<1>2. PICK r : r = s1 \o t1 /\ r = s2 \o t2
  OBVIOUS
<1>3. IsJoin(r, s1, t1, Block, n1) /\ IsJoin(r, s2, t2, Block, n2)
  BY <1>1, <1>2, Sizes, Joined
<1>4. n1 = n2
  <2>1. Block + n1 = Block + n2
    BY <1>3 DEF IsJoin
  <2> QED BY <2>1, Sizes
<1>5. \A i \in 1 .. Block : s1[i] = s2[i]
  <2>1. \A i \in 1 .. Block : i \in 1 .. Block + n1 /\ i <= Block
    BY Sizes
  <2> QED BY <1>3, <1>4, <2>1 DEF IsJoin
<1>6. \A i \in 1 .. n1 : t1[i] = t2[i]
  <2> SUFFICES ASSUME NEW i \in 1 .. n1 PROVE t1[i] = t2[i]
    OBVIOUS
  <2>1. PICK j \in 1 .. Block + n1 : j = Block + i /\ ~(j <= Block) /\ j - Block = i
    BY Sizes
  <2> QED BY <1>3, <1>4, <2>1 DEF IsJoin
<1> QED BY <1>1, <1>4, <1>5, <1>6, SeqEqual

\* The same for the signatures of the standard.
LEMMA HmacInjective ==
    ASSUME NEW T, NEW m1 \in Seq(T), NEW m2 \in Seq(T), NEW k1, NEW k2,
           Hmac(KeyBytes(k1), m1) = Hmac(KeyBytes(k2), m2)
    PROVE  m1 = m2 /\ k1 = k2
<1> DEFINE P1(pad) == KeyPad(KeyBytes(k1), pad)
           P2(pad) == KeyPad(KeyBytes(k2), pad)
           i1 == Sha(P1("ipad") \o m1)
           i2 == Sha(P2("ipad") \o m2)
<1>1. Hmac(KeyBytes(k1), m1) = Sha(P1("opad") \o i1) /\ Hmac(KeyBytes(k2), m2) = Sha(P2("opad") \o i2)
  BY DEF Hmac, KeyPad
<1>2. ASSUME NEW pad, NEW V, NEW t1 \in Seq(V), NEW t2 \in Seq(V), Sha(P1(pad) \o t1) = Sha(P2(pad) \o t2)
      PROVE  P1(pad) = P2(pad) /\ t1 = t2
  <2>1. PICK V1 : P1(pad) \in Seq(V1) /\ Len(P1(pad)) = Block
    BY KeyPadSeq
  <2>2. PICK V2 : P2(pad) \in Seq(V2) /\ Len(P2(pad)) = Block
    BY KeyPadSeq
  <2> HIDE DEF P1, P2
  <2>3. PICK W : W = V \cup V1 \cup V2
    OBVIOUS
  <2>4. V \subseteq W /\ V1 \subseteq W /\ V2 \subseteq W
    BY <2>3
  <2>5. t1 \in Seq(W) /\ t2 \in Seq(W) /\ P1(pad) \in Seq(W) /\ P2(pad) \in Seq(W)
    BY <2>1, <2>2, <2>4, Widen
  <2>6. P1(pad) \o t1 \in Seq(W) /\ P2(pad) \o t2 \in Seq(W)
    BY <2>5, ConcatProperties
  <2>7. P1(pad) \o t1 = P2(pad) \o t2
    BY <1>2, <2>6, ShaInjective
  <2>8. PICK v1, v2 : v1 = P1(pad) /\ v2 = P2(pad)
    OBVIOUS
  <2>9. v1 \in Seq(W) /\ v2 \in Seq(W) /\ Len(v1) = Block /\ Len(v2) = Block /\ v1 \o t1 = v2 \o t2
    BY <2>1, <2>2, <2>5, <2>7, <2>8
  <2>10. v1 = v2 /\ t1 = t2
    BY <2>5, <2>9, JoinCancel
  <2> QED BY <2>8, <2>10
<1>3. i1 = i2
  <2>1. PICK V1 : i1 \in Seq(V1)
    BY ShaSeq
  <2>2. PICK V2 : i2 \in Seq(V2)
    BY ShaSeq
  <2> HIDE DEF i1, i2
  <2>3. PICK V : V = V1 \cup V2
    OBVIOUS
  <2>4. V1 \subseteq V /\ V2 \subseteq V
    BY <2>3
  <2>5. i1 \in Seq(V) /\ i2 \in Seq(V)
    BY <2>1, <2>2, <2>4, Widen
  <2>6. Sha(P1("opad") \o i1) = Sha(P2("opad") \o i2)
    BY <1>1
  <2> HIDE DEF P1, P2
  <2> QED BY <1>2, <2>5, <2>6
<1>4. m1 = m2 /\ P1("ipad") = P2("ipad")
  BY <1>2, <1>3
<1>5. k1 = k2
  <2>1. 1 \in 1 .. Block /\ 1 \in 1 .. HmacBytes
    BY Sizes
  <2>2. Len(KeyBytes(k1)) = HmacBytes /\ Len(KeyBytes(k2)) = HmacBytes
    BY Sizes DEF KeyBytes
  <2>3. KeyBytes(k1)[1] = <<k1, 1>> /\ KeyBytes(k2)[1] = <<k2, 1>>
    BY <2>1 DEF KeyBytes
  <2>4. P1("ipad")[1] = <<"ipad", <<k1, 1>>>> /\ P2("ipad")[1] = <<"ipad", <<k2, 1>>>>
    BY <2>1, <2>2, <2>3, Sizes DEF KeyPad
  <2>5. <<"ipad", <<k1, 1>>>> = <<"ipad", <<k2, 1>>>>
    BY <1>4, <2>4
  <2> QED BY <2>5
<1> QED BY <1>4, <1>5


\* A signature that hmac_sha256 computes tells the key and the bytes that were
\* signed, those of any length: neither the pads nor the two hashes add a
\* collision to those of the compression function.
THEOREM SignatureBinds ==
    ASSUME NEW T, NEW m1 \in Seq(T), NEW m2 \in Seq(T), NEW k1, NEW k2,
           hmac_sha256(KeyBytes(k1), m1) = hmac_sha256(KeyBytes(k2), m2)
    PROVE  m1 = m2 /\ k1 = k2
<1>1. Hmac(KeyBytes(k1), m1) = Hmac(KeyBytes(k2), m2)
  BY HmacStandard
<1> QED BY <1>1, HmacInjective
=============================================================================
