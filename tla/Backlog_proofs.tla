--------------------------- MODULE Backlog_proofs ---------------------------
(***************************************************************************)
(* Proofs about what is staged outside the database until it is promoted,  *)
(* for any documents, processes and bounds: the audit of staged readings,  *)
(* the root of local OCR and the rebuild of a year.                        *)
(***************************************************************************)
EXTENDS StagedAudit, LocalSweep, Rebuild, SequenceTheorems, FiniteSetTheorems, WellFoundedInduction, TLAPS

-----------------------------------------------------------------------------
(* The bound that an audit computes.  First what the definitions compute:  *)
(* sums, largest numbers and counts.                                       *)

LEMMA FromZeroOn ==
  ASSUME NEW S \in SUBSET Nat, 0 \in S, \A n \in S : n + 1 \in S
  PROVE  \A n \in Nat : n \in S
<1> DEFINE less == OpToRel(<, Nat)
<1>1. IsWellFoundedOn(less, Nat)
  BY NatLessThanWellFounded
<1>2. \A x, y \in Nat : x < y => <<x, y>> \in less
  BY DEF OpToRel
<1> HIDE DEF less
<1> SUFFICES ASSUME Nat \ S # {} PROVE FALSE
  OBVIOUS
<1>3. PICK x \in Nat \ S : \A y \in Nat \ S : ~(<<y, x>> \in less)
  <2>1. Nat \ S \in SUBSET Nat
    OBVIOUS
  <2> QED BY <1>1, <2>1, WFMin
<1>4. x # 0 /\ x - 1 \in Nat /\ x - 1 < x
  BY <1>3
<1>5. x - 1 \in S
  BY <1>2, <1>3, <1>4
<1>6. (x - 1) + 1 = x
  BY <1>3
<1> QED BY <1>3, <1>5, <1>6

LEMMA LargestIs ==
  ASSUME NEW N \in Nat, NEW S \in SUBSET (0 .. N), S # {}
  PROVE  Max(S) \in S /\ \A y \in S : y <= Max(S)
<1> DEFINE has == {k \in Nat : \A U \in SUBSET (0 .. k) : U # {} => \E x \in U : \A y \in U : y <= x}
<1>1. 0 \in has
  <2> SUFFICES ASSUME NEW U \in SUBSET (0 .. 0), U # {} PROVE \E x \in U : \A y \in U : y <= x
    OBVIOUS
  <2>1. PICK x : x \in U
    OBVIOUS
  <2>2. x = 0 /\ \A y \in U : y = 0
    BY <2>1
  <2>3. \A y \in U : y <= x
    BY <2>2
  <2> QED BY <2>1, <2>3
<1>2. ASSUME NEW k \in has PROVE k + 1 \in has
  <2> SUFFICES ASSUME NEW U \in SUBSET (0 .. k + 1), U # {} PROVE \E x \in U : \A y \in U : y <= x
    OBVIOUS
  <2>1. CASE k + 1 \in U
    <3>1. \A y \in U : y <= k + 1
      OBVIOUS
    <3> QED BY <2>1, <3>1
  <2>2. CASE k + 1 \notin U
    <3>1. U \in SUBSET (0 .. k)
      BY <2>2
    <3> QED BY <3>1
  <2> QED BY <2>1, <2>2
<1>3. N \in has
  <2>1. has \in SUBSET Nat
    OBVIOUS
  <2> HIDE DEF has
  <2> QED BY <1>1, <1>2, <2>1, FromZeroOn
<1>4. \E x \in S : \A y \in S : y <= x
  BY <1>3
<1>5. \E x \in S : \A y \in S : x >= y
  BY <1>4
<1>6. Max(S) \in S /\ \A y \in S : Max(S) >= y
  BY <1>5 DEF Max
<1> QED BY <1>6

(* One of a set.                                                           *)
First(cells) == CHOOSE x \in cells : TRUE

Sums(g, f, sets) ==
  g = [cells \in sets |-> IF cells = {} THEN 0 ELSE f[First(cells)] + g[cells \ {First(cells)}]]

UpTo(k) == {cells \in SUBSET Cell : Cardinality(cells) <= k}

LEMMA FirstIsIn ==
  ASSUME NEW k \in Nat, NEW cells \in UpTo(k + 1), cells # {}
  PROVE  First(cells) \in Cell /\ First(cells) \in cells /\ cells \ {First(cells)} \in UpTo(k)
<1> USE BoundAssumption
<1>1. First(cells) \in cells
  BY DEF First
<1>2. IsFiniteSet(cells) /\ cells \subseteq Cell
  BY FS_Subset DEF UpTo, BoundAssumption
<1>3. Cardinality(cells) \in Nat /\ Cardinality(cells) <= k + 1
  BY <1>2, FS_CardinalityType DEF UpTo
<1>4. Cardinality(cells \ {First(cells)}) = Cardinality(cells) - 1
  BY <1>1, <1>2, FS_RemoveElement
<1> QED BY <1>1, <1>2, <1>3, <1>4 DEF UpTo

LEMMA SumsUpTo ==
  ASSUME NEW f \in [Cell -> Nat]
  PROVE  \A k \in Nat : \E g \in [UpTo(k) -> Nat] : Sums(g, f, UpTo(k))
<1> DEFINE has == {k \in Nat : \E g \in [UpTo(k) -> Nat] : Sums(g, f, UpTo(k))}
<1> USE BoundAssumption
<1>1. 0 \in has
  <2>1. \A cells \in UpTo(0) : cells = {}
    <3> SUFFICES ASSUME NEW cells \in UpTo(0) PROVE cells = {}
      OBVIOUS
    <3>1. IsFiniteSet(cells)
      BY FS_Subset DEF UpTo, BoundAssumption
    <3>2. Cardinality(cells) \in Nat /\ Cardinality(cells) <= 0
      BY <3>1, FS_CardinalityType DEF UpTo
    <3> QED BY <3>1, <3>2, FS_EmptySet
  <2> DEFINE g == [cells \in UpTo(0) |-> 0]
  <2>2. g \in [UpTo(0) -> Nat] /\ Sums(g, f, UpTo(0))
    BY <2>1 DEF Sums
  <2> QED BY <2>2
<1>2. ASSUME NEW k \in has PROVE k + 1 \in has
  <2>1. PICK g \in [UpTo(k) -> Nat] : Sums(g, f, UpTo(k))
    OBVIOUS
  <2> DEFINE h == [cells \in UpTo(k + 1) |->
                     IF cells = {} THEN 0 ELSE f[First(cells)] + g[cells \ {First(cells)}]]
  <2>2. \A cells \in UpTo(k + 1) :
          cells # {} => /\ First(cells) \in Cell /\ cells \ {First(cells)} \in UpTo(k)
                        /\ f[First(cells)] \in Nat /\ g[cells \ {First(cells)}] \in Nat
    BY FirstIsIn
  <2>3. h \in [UpTo(k + 1) -> Nat]
    <3> SUFFICES ASSUME NEW cells \in UpTo(k + 1) PROVE h[cells] \in Nat
      OBVIOUS
    <3>1. CASE cells = {}
      BY <3>1
    <3>2. CASE cells # {}
      BY <2>2, <3>2
    <3> QED BY <3>1, <3>2
  <2>4. \A cells \in UpTo(k) : cells \in UpTo(k + 1) /\ h[cells] = g[cells]
    <3>1. \A cells \in UpTo(k) : cells \in UpTo(k + 1)
      <4> SUFFICES ASSUME NEW cells \in UpTo(k) PROVE cells \in UpTo(k + 1)
        OBVIOUS
      <4>1. IsFiniteSet(cells)
        BY FS_Subset DEF UpTo, BoundAssumption
      <4>2. Cardinality(cells) \in Nat
        BY <4>1, FS_CardinalityType
      <4> QED BY <4>2 DEF UpTo
    <3> QED BY <2>1, <3>1 DEF Sums
  <2>5. \A cells \in UpTo(k + 1) :
          h[cells] = IF cells = {} THEN 0 ELSE f[First(cells)] + h[cells \ {First(cells)}]
    BY <2>2, <2>4
  <2>6. Sums(h, f, UpTo(k + 1))
    <3> HIDE DEF h
    <3> QED BY <2>3, <2>5 DEF Sums
  <2> HIDE DEF h
  <2>7. \E x \in [UpTo(k + 1) -> Nat] : Sums(x, f, UpTo(k + 1))
    BY <2>3, <2>6
  <2> QED BY <2>7
<1>3. has \in SUBSET Nat
  OBVIOUS
<1> HIDE DEF has
<1>4. \A k \in Nat : k \in has
  BY <1>1, <1>2, <1>3, FromZeroOn
<1> QED BY <1>4 DEF has

(* The sum of all cells is had by taking one after the other.              *)
LEMMA TotalIs ==
  ASSUME NEW f \in [Cell -> Nat]
  PROVE  \E g \in [SUBSET Cell -> Nat] :
           /\ Total(f) = g[Cell] /\ g[{}] = 0
           /\ \A cells \in (SUBSET Cell) \ {{}} :
                g[cells] = f[First(cells)] + g[cells \ {First(cells)}]
<1> USE BoundAssumption
<1>1. PICK n \in Nat : n = Cardinality(Cell)
  BY FS_CardinalityType DEF BoundAssumption
<1>2. UpTo(n) = SUBSET Cell
  BY <1>1, FS_Subset DEF UpTo, BoundAssumption
<1>3. PICK h \in [SUBSET Cell -> Nat] : Sums(h, f, SUBSET Cell)
  <2>1. \E g \in [UpTo(n) -> Nat] : Sums(g, f, UpTo(n))
    BY SumsUpTo
  <2> QED BY <1>2, <2>1
<1>4. PICK s : Sums(s, f, SUBSET Cell) /\ Total(f) = s[Cell]
  <2> DEFINE t == CHOOSE g : Sums(g, f, SUBSET Cell)
  <2>1. Sums(t, f, SUBSET Cell)
    BY <1>3
  <2>2. Total(f) = t[Cell]
    BY DEF Total, Sums, First
  <2> HIDE DEF t
  <2> QED BY <2>1, <2>2
<1>6. \A cells \in (SUBSET Cell) \ {{}} : s[cells] = f[First(cells)] + s[cells \ {First(cells)}]
  BY <1>4 DEF Sums
<1>7. s[{}] = 0
  BY <1>4 DEF Sums
<1>8. s \in [SUBSET Cell -> Nat]
  <2> DEFINE has == {k \in Nat : \A cells \in UpTo(k) : s[cells] \in Nat}
  <2>1. 0 \in has
    <3> SUFFICES ASSUME NEW cells \in UpTo(0) PROVE s[cells] \in Nat
      OBVIOUS
    <3>1. IsFiniteSet(cells)
      BY FS_Subset DEF UpTo, BoundAssumption
    <3>2. Cardinality(cells) \in Nat /\ Cardinality(cells) <= 0
      BY <3>1, FS_CardinalityType DEF UpTo
    <3>3. cells = {}
      BY <3>1, <3>2, FS_EmptySet
    <3> QED BY <1>7, <3>3
  <2>2. ASSUME NEW k \in has PROVE k + 1 \in has
    <3>0. k \in Nat /\ \A cells \in UpTo(k) : s[cells] \in Nat
      OBVIOUS
    <3> HIDE DEF has
    <3>1. ASSUME NEW cells \in UpTo(k + 1) PROVE s[cells] \in Nat
      <4>1. CASE cells = {}
        BY <1>7, <4>1
      <4>2. CASE cells # {}
        <5>1. First(cells) \in Cell /\ cells \ {First(cells)} \in UpTo(k)
          BY <3>0, <4>2, FirstIsIn
        <5>2. PICK a \in Nat : a = f[First(cells)]
          BY <5>1
        <5>3. PICK b \in Nat : b = s[cells \ {First(cells)}]
          BY <3>0, <5>1
        <5>4. cells \in (SUBSET Cell) \ {{}}
          BY <4>2 DEF UpTo
        <5>5. s[cells] = a + b
          BY <1>6, <5>2, <5>3, <5>4
        <5> QED BY <5>5
      <4> QED BY <4>1, <4>2
    <3>2. k + 1 \in Nat
      BY <3>0
    <3> QED BY <3>1, <3>2 DEF has
  <2>3. has \in SUBSET Nat
    OBVIOUS
  <2> HIDE DEF has
  <2>4. n \in has
    BY <2>1, <2>2, <2>3, FromZeroOn
  <2>5. \A cells \in SUBSET Cell : s[cells] \in Nat
    BY <1>2, <2>4 DEF has
  <2>6. s = [cells \in SUBSET Cell |-> s[cells]]
    BY <1>4 DEF Sums
  <2> QED BY <2>5, <2>6
<1> QED BY <1>4, <1>6, <1>7, <1>8

LEMMA TotalIsNat ==
  ASSUME NEW f \in [Cell -> Nat]
  PROVE  Total(f) \in Nat
<1>1. PICK g \in [SUBSET Cell -> Nat] : Total(f) = g[Cell]
  BY TotalIs
<1> QED BY <1>1

(* No number larger, no sum larger.                                        *)
LEMMA TotalGrows ==
  ASSUME NEW f \in [Cell -> Nat], NEW h \in [Cell -> Nat], \A c \in Cell : f[c] <= h[c]
  PROVE  Total(f) <= Total(h)
<1> USE BoundAssumption
<1>1. PICK n \in Nat : n = Cardinality(Cell)
  BY FS_CardinalityType DEF BoundAssumption
<1>2. PICK s \in [SUBSET Cell -> Nat] :
        /\ Total(f) = s[Cell] /\ s[{}] = 0
        /\ \A cells \in (SUBSET Cell) \ {{}} : s[cells] = f[First(cells)] + s[cells \ {First(cells)}]
  BY TotalIs
<1>3. PICK t \in [SUBSET Cell -> Nat] :
        /\ Total(h) = t[Cell] /\ t[{}] = 0
        /\ \A cells \in (SUBSET Cell) \ {{}} : t[cells] = h[First(cells)] + t[cells \ {First(cells)}]
  BY TotalIs
<1> DEFINE has == {k \in Nat : \A cells \in UpTo(k) : s[cells] <= t[cells]}
<1>4. 0 \in has
  <2> SUFFICES ASSUME NEW cells \in UpTo(0) PROVE s[cells] <= t[cells]
    OBVIOUS
  <2>1. IsFiniteSet(cells)
    BY FS_Subset DEF UpTo, BoundAssumption
  <2>2. Cardinality(cells) \in Nat /\ Cardinality(cells) <= 0
    BY <2>1, FS_CardinalityType DEF UpTo
  <2>3. cells = {}
    BY <2>1, <2>2, FS_EmptySet
  <2> QED BY <1>2, <1>3, <2>3
<1>5. ASSUME NEW k \in has PROVE k + 1 \in has
  <2>0. k \in Nat /\ \A cells \in UpTo(k) : s[cells] <= t[cells]
    OBVIOUS
  <2> HIDE DEF has
  <2>1. ASSUME NEW cells \in UpTo(k + 1) PROVE s[cells] <= t[cells]
    <3>1. CASE cells = {}
      BY <1>2, <1>3, <3>1
    <3>2. CASE cells # {}
      <4>1. First(cells) \in Cell /\ cells \ {First(cells)} \in UpTo(k)
        BY <2>0, <3>2, FirstIsIn
      <4>2. cells \ {First(cells)} \in SUBSET Cell /\ cells \in (SUBSET Cell) \ {{}}
        BY <3>2 DEF UpTo
      <4>3. PICK a \in Nat : a = f[First(cells)]
        BY <4>1
      <4>4. PICK b \in Nat : b = h[First(cells)]
        BY <4>1
      <4>5. PICK x \in Nat : x = s[cells \ {First(cells)}]
        BY <4>2
      <4>6. PICK y \in Nat : y = t[cells \ {First(cells)}]
        BY <4>2
      <4>7. a <= b /\ x <= y
        BY <2>0, <4>1, <4>3, <4>4, <4>5, <4>6
      <4>8. s[cells] = a + x
        BY <1>2, <4>2, <4>3, <4>5
      <4>9. t[cells] = b + y
        BY <1>3, <4>2, <4>4, <4>6
      <4> QED BY <4>7, <4>8, <4>9
    <3> QED BY <3>1, <3>2
  <2>2. k + 1 \in Nat
    BY <2>0
  <2> QED BY <2>1, <2>2 DEF has
<1>6. has \in SUBSET Nat
  OBVIOUS
<1> HIDE DEF has
<1>7. n \in has
  BY <1>4, <1>5, <1>6, FromZeroOn
<1>8. Cell \in UpTo(n)
  BY <1>1 DEF UpTo
<1>9. s[Cell] <= t[Cell]
  BY <1>7, <1>8 DEF has
<1> QED BY <1>2, <1>3, <1>9

(* Where there are two cells.                                              *)
LEMMA TotalOfTwo ==
  ASSUME NEW f \in [Cell -> Nat], NEW a, NEW b, a # b, Cell = {a, b}
  PROVE  Total(f) = f[a] + f[b]
<1>1. PICK s \in [SUBSET Cell -> Nat] :
        /\ Total(f) = s[Cell] /\ s[{}] = 0
        /\ \A cells \in (SUBSET Cell) \ {{}} : s[cells] = f[First(cells)] + s[cells \ {First(cells)}]
  BY TotalIs
<1>2. First(Cell) \in {a, b}
  BY DEF First
<1>3. PICK x \in Nat : x = f[a]
  OBVIOUS
<1>4. PICK y \in Nat : y = f[b]
  OBVIOUS
<1>5. s[{a}] = x + 0
  <2>1. First({a}) = a /\ {a} \ {First({a})} = {}
    BY DEF First
  <2>2. {a} \in (SUBSET Cell) \ {{}}
    OBVIOUS
  <2> QED BY <1>1, <1>3, <2>1, <2>2
<1>6. s[{b}] = y + 0
  <2>1. First({b}) = b /\ {b} \ {First({b})} = {}
    BY DEF First
  <2>2. {b} \in (SUBSET Cell) \ {{}}
    OBVIOUS
  <2> QED BY <1>1, <1>4, <2>1, <2>2
<1>7. Cell \in (SUBSET Cell) \ {{}}
  OBVIOUS
<1>8. CASE First(Cell) = a
  <2>1. Cell \ {First(Cell)} = {b}
    BY <1>8
  <2>2. s[Cell] = x + s[{b}]
    BY <1>1, <1>3, <1>7, <1>8, <2>1
  <2> QED BY <1>1, <1>3, <1>4, <1>6, <2>2
<1>9. CASE First(Cell) = b
  <2>1. Cell \ {First(Cell)} = {a}
    BY <1>9
  <2>2. s[Cell] = y + s[{a}]
    BY <1>1, <1>4, <1>7, <1>9, <2>1
  <2> QED BY <1>1, <1>3, <1>4, <1>5, <2>2
<1> QED BY <1>2, <1>8, <1>9

-----------------------------------------------------------------------------
(* The samples of a stratum.                                               *)

LEMMA DrawsAreFinite ==
  ASSUME NEW N \in Nat, NEW n \in Nat
  PROVE  /\ IsFiniteSet(Draws(N, n)) /\ Cardinality(Draws(N, n)) \in Nat
         /\ \A K, f \in Nat : AtMost(N, K, n, f) \in Nat
<1>1. IsFiniteSet(SUBSET (1 .. N))
  <2>1. IsFiniteSet(1 .. N)
    BY FS_Interval
  <2> QED BY <2>1, FS_SUBSET
<1>2. Draws(N, n) \in SUBSET SUBSET (1 .. N)
  BY DEF Draws, kSubset
<1>3. IsFiniteSet(Draws(N, n))
  BY <1>1, <1>2, FS_Subset
<1>4. Cardinality(Draws(N, n)) \in Nat
  BY <1>3, FS_CardinalityType
<1>5. ASSUME NEW K \in Nat, NEW f \in Nat PROVE AtMost(N, K, n, f) \in Nat
  <2> DEFINE some == {sample \in Draws(N, n) : Shown(sample, K) <= f}
  <2>1. some \in SUBSET Draws(N, n)
    OBVIOUS
  <2> HIDE DEF some
  <2>2. IsFiniteSet(some)
    BY <1>3, <2>1, FS_Subset
  <2>3. Cardinality(some) \in Nat
    BY <2>2, FS_CardinalityType
  <2> QED BY <2>3 DEF some, AtMost
<1> QED BY <1>3, <1>4, <1>5

(* A sample shows no more errors than there are, nor than it has           *)
(* documents, and no fewer when there are more.                            *)
LEMMA ShownIs ==
  ASSUME NEW N \in Nat, NEW n \in Nat, NEW sample \in Draws(N, n), NEW K \in Nat
  PROVE  /\ Shown(sample, K) \in Nat /\ Shown(sample, K) <= K /\ Shown(sample, K) <= n
         /\ \A L \in Nat : K <= L => Shown(sample, K) <= Shown(sample, L)
<1>1. sample \subseteq 1 .. N /\ Cardinality(sample) = n
  BY DEF Draws, kSubset
<1>2. IsFiniteSet(sample)
  <2>1. IsFiniteSet(1 .. N)
    BY FS_Interval
  <2> QED BY <1>1, <2>1, FS_Subset
<1>3. ASSUME NEW L \in Nat PROVE IsFiniteSet(sample \intersect (1 .. L)) /\ Shown(sample, L) \in Nat /\ Shown(sample, L) <= n
  <2>1. IsFiniteSet(sample \intersect (1 .. L)) /\ Cardinality(sample \intersect (1 .. L)) <= Cardinality(sample)
    BY <1>2, FS_Intersection
  <2>2. Cardinality(sample \intersect (1 .. L)) \in Nat
    BY <2>1, FS_CardinalityType
  <2> QED BY <1>1, <2>1, <2>2 DEF Shown
<1>4. Shown(sample, K) <= K
  <2>1. IsFiniteSet(1 .. K) /\ Cardinality(1 .. K) = K
    BY FS_Interval
  <2>2. sample \intersect (1 .. K) \in SUBSET (1 .. K)
    OBVIOUS
  <2>3. Cardinality(sample \intersect (1 .. K)) <= Cardinality(1 .. K)
    BY <2>1, <2>2, FS_Subset
  <2> QED BY <2>1, <2>3 DEF Shown
<1>5. ASSUME NEW L \in Nat, K <= L PROVE Shown(sample, K) <= Shown(sample, L)
  <2>1. sample \intersect (1 .. K) \in SUBSET (sample \intersect (1 .. L))
    BY <1>5
  <2>2. Cardinality(sample \intersect (1 .. K)) <= Cardinality(sample \intersect (1 .. L))
    BY <1>3, <2>1, FS_Subset
  <2> QED BY <2>2 DEF Shown
<1> QED BY <1>3, <1>4, <1>5

(* More errors leave fewer samples that show only so many, so no number of *)
(* errors is plausible when a smaller one is not; what is shown is.        *)
LEMMA FewerArePlausible ==
  ASSUME NEW N \in Nat, NEW n \in Nat, NEW f \in Nat, NEW tail \in Nat, tail >= 1, NEW L \in Nat
  PROVE  /\ L <= f => Plausible(N, L, n, f, tail)
         /\ Plausible(N, L, n, f, tail) => \A K \in 0 .. L : Plausible(N, K, n, f, tail)
<1> DEFINE some(K) == {sample \in Draws(N, n) : Shown(sample, K) <= f}
<1>1. IsFiniteSet(Draws(N, n)) /\ Cardinality(Draws(N, n)) \in Nat /\ \A K \in Nat : AtMost(N, K, n, f) \in Nat
  BY DrawsAreFinite
<1>2. ASSUME L <= f PROVE Plausible(N, L, n, f, tail)
  <2>1. some(L) = Draws(N, n)
    <3> SUFFICES ASSUME NEW sample \in Draws(N, n) PROVE Shown(sample, L) <= f
      OBVIOUS
    <3>1. Shown(sample, L) \in Nat /\ Shown(sample, L) <= L
      BY ShownIs
    <3> QED BY <1>2, <3>1
  <2>2. AtMost(N, L, n, f) = Cardinality(Draws(N, n))
    BY <2>1 DEF AtMost
  <2>3. PICK a \in Nat : a = Cardinality(Draws(N, n))
    BY <1>1
  <2>4. tail * a >= a
    <3>1. PICK t \in Nat : tail = t + 1
      <4>1. tail - 1 \in Nat /\ tail = (tail - 1) + 1
        OBVIOUS
      <4> QED BY <4>1
    <3>2. tail * a = t * a + a /\ t * a \in Nat
      BY <3>1
    <3> QED BY <3>2
  <2> QED BY <2>2, <2>3, <2>4 DEF Plausible
<1>3. ASSUME Plausible(N, L, n, f, tail), NEW K \in 0 .. L PROVE Plausible(N, K, n, f, tail)
  <2>1. some(L) \in SUBSET some(K)
    <3> SUFFICES ASSUME NEW sample \in Draws(N, n), Shown(sample, L) <= f PROVE Shown(sample, K) <= f
      OBVIOUS
    <3>1. Shown(sample, K) \in Nat /\ Shown(sample, L) \in Nat /\ Shown(sample, K) <= Shown(sample, L)
      BY ShownIs
    <3> QED BY <3>1
  <2>2. IsFiniteSet(some(K))
    <3>1. some(K) \in SUBSET Draws(N, n)
      OBVIOUS
    <3> QED BY <1>1, <3>1, FS_Subset
  <2>3. Cardinality(some(L)) <= Cardinality(some(K))
    BY <2>1, <2>2, FS_Subset
  <2>4. PICK a \in Nat : a = AtMost(N, L, n, f)
    BY <1>1
  <2>5. PICK b \in Nat : b = AtMost(N, K, n, f)
    BY <1>1
  <2>6. PICK all \in Nat : all = Cardinality(Draws(N, n))
    BY <1>1
  <2>7. a <= b
    BY <2>3, <2>4, <2>5 DEF AtMost
  <2>8. tail * a >= all
    BY <1>3, <2>4, <2>6 DEF Plausible
  <2>9. tail * a <= tail * b
    <3>1. PICK r \in Nat : b = a + r
      <4>1. b - a \in Nat /\ b = a + (b - a)
        BY <2>7
      <4> QED BY <4>1
    <3>2. tail * b = tail * a + tail * r /\ tail * r \in Nat /\ tail * a \in Nat
      BY <3>1
    <3> QED BY <3>2
  <2>10. tail * a \in Nat /\ tail * b \in Nat
    OBVIOUS
  <2>11. tail * b >= all
    BY <2>8, <2>9, <2>10
  <2> QED BY <2>5, <2>6, <2>11 DEF Plausible
<1> QED BY <1>2, <1>3

-----------------------------------------------------------------------------
(* The search for the largest plausible number of errors.                  *)

Middle(low, high) == (low + high + 1) \div 2

(* What is found between two numbers when b is the largest plausible one.  *)
Between(b, low, high) ==
  IF low >= high THEN low ELSE IF b < low THEN low ELSE IF b > high THEN high ELSE b

LEMMA HalvesMeet ==
  ASSUME NEW b \in Nat, NEW low \in Nat, NEW high \in Nat, low < high
  PROVE  /\ Middle(low, high) \in low + 1 .. high /\ Middle(low, high) - 1 \in low .. high
         /\ Between(b, low, high) =
              IF Middle(low, high) <= b THEN Between(b, Middle(low, high), high)
              ELSE Between(b, low, Middle(low, high) - 1)
<1>1. Middle(low, high) \in low + 1 .. high
  BY DEF Middle
<1>2. PICK m \in low + 1 .. high : m = Middle(low, high)
  BY <1>1
<1>3. Between(b, low, high) = IF m <= b THEN Between(b, m, high) ELSE Between(b, low, m - 1)
  BY <1>2 DEF Between
<1> QED BY <1>2, <1>3

Spans(N) == (0 .. N) \X (0 .. N)

Searches(g, N, n, f, tail) ==
  g = [span \in Spans(N) |->
         IF span[1] >= span[2] THEN span[1]
         ELSE IF Plausible(N, Middle(span[1], span[2]), n, f, tail)
              THEN g[<<Middle(span[1], span[2]), span[2]>>]
              ELSE g[<<span[1], Middle(span[1], span[2]) - 1>>]]

LEMMA SearchFinds ==
  ASSUME NEW N \in Nat, NEW n \in Nat, NEW f \in Nat, NEW tail \in Nat, NEW b \in 0 .. N,
         \A K \in 0 .. N : Plausible(N, K, n, f, tail) <=> K <= b
  PROVE  Search(N, n, f, tail) = b
<1> DEFINE found == [span \in Spans(N) |-> Between(b, span[1], span[2])]
<1>0. ASSUME NEW low \in 0 .. N, NEW high \in 0 .. N, low < high
      PROVE  /\ Middle(low, high) \in low + 1 .. high /\ Middle(low, high) - 1 \in low .. high
             /\ <<Middle(low, high), high>> \in Spans(N) /\ <<low, Middle(low, high) - 1>> \in Spans(N)
             /\ Plausible(N, Middle(low, high), n, f, tail) <=> Middle(low, high) <= b
             /\ Between(b, low, high) =
                  IF Middle(low, high) <= b THEN Between(b, Middle(low, high), high)
                  ELSE Between(b, low, Middle(low, high) - 1)
  <2>1. /\ Middle(low, high) \in low + 1 .. high /\ Middle(low, high) - 1 \in low .. high
        /\ Between(b, low, high) =
             IF Middle(low, high) <= b THEN Between(b, Middle(low, high), high)
             ELSE Between(b, low, Middle(low, high) - 1)
    BY <1>0, HalvesMeet
  <2>2. Middle(low, high) \in 0 .. N /\ Middle(low, high) - 1 \in 0 .. N
    BY <2>1
  <2> QED BY <2>1, <2>2 DEF Spans
<1>1. Searches(found, N, n, f, tail)
  <2>1. ASSUME NEW low \in 0 .. N, NEW high \in 0 .. N
        PROVE  found[<<low, high>>] =
                 IF low >= high THEN low
                 ELSE IF Plausible(N, Middle(low, high), n, f, tail)
                      THEN found[<<Middle(low, high), high>>]
                      ELSE found[<<low, Middle(low, high) - 1>>]
    <3>1. <<low, high>> \in Spans(N) /\ found[<<low, high>>] = Between(b, low, high)
      BY DEF Spans
    <3>2. CASE low >= high
      BY <3>1, <3>2 DEF Between
    <3>3. CASE ~(low >= high)
      <4>1. low < high
        BY <3>3
      <4>2. /\ found[<<Middle(low, high), high>>] = Between(b, Middle(low, high), high)
            /\ found[<<low, Middle(low, high) - 1>>] = Between(b, low, Middle(low, high) - 1)
        BY <1>0, <4>1
      <4> QED BY <1>0, <3>1, <3>3, <4>1, <4>2
    <3> QED BY <3>2, <3>3
  <2> HIDE DEF found
  <2>2. \A span \in Spans(N) : span[1] \in 0 .. N /\ span[2] \in 0 .. N /\ span = <<span[1], span[2]>>
    BY DEF Spans
  <2>3. \A span \in Spans(N) :
          found[span] =
            IF span[1] >= span[2] THEN span[1]
            ELSE IF Plausible(N, Middle(span[1], span[2]), n, f, tail)
                 THEN found[<<Middle(span[1], span[2]), span[2]>>]
                 ELSE found[<<span[1], Middle(span[1], span[2]) - 1>>]
    <3> SUFFICES ASSUME NEW span \in Spans(N)
                 PROVE  found[span] =
                          IF span[1] >= span[2] THEN span[1]
                          ELSE IF Plausible(N, Middle(span[1], span[2]), n, f, tail)
                               THEN found[<<Middle(span[1], span[2]), span[2]>>]
                               ELSE found[<<span[1], Middle(span[1], span[2]) - 1>>]
      OBVIOUS
    <3>1. PICK low \in 0 .. N : low = span[1]
      BY <2>2
    <3>2. PICK high \in 0 .. N : high = span[2]
      BY <2>2
    <3>3. span = <<low, high>>
      BY <2>2, <3>1, <3>2
    <3> QED BY <2>1, <3>1, <3>2, <3>3
  <2>4. found = [span \in Spans(N) |-> found[span]]
    BY DEF found
  <2> QED BY <2>3, <2>4 DEF Searches
<1> HIDE DEF found
<1>2. PICK g : Searches(g, N, n, f, tail) /\ Search(N, n, f, tail) = g[<<0, N>>]
  <2> DEFINE t == CHOOSE g : Searches(g, N, n, f, tail)
  <2>1. Searches(t, N, n, f, tail)
    BY <1>1
  <2>2. Search(N, n, f, tail) = t[<<0, N>>]
    BY DEF Search, Searches, Spans, Middle
  <2> HIDE DEF t
  <2> QED BY <2>1, <2>2
<1>3. ASSUME NEW low \in 0 .. N, NEW high \in 0 .. N
      PROVE  g[<<low, high>>] =
               IF low >= high THEN low
               ELSE IF Plausible(N, Middle(low, high), n, f, tail)
                    THEN g[<<Middle(low, high), high>>]
                    ELSE g[<<low, Middle(low, high) - 1>>]
  <2>1. <<low, high>> \in Spans(N)
    BY DEF Spans
  <2> QED BY <1>2, <2>1 DEF Searches
<1> DEFINE has == {k \in Nat : \A low, high \in 0 .. N : high <= low + k => g[<<low, high>>] = Between(b, low, high)}
<1>4. 0 \in has
  <2> SUFFICES ASSUME NEW low \in 0 .. N, NEW high \in 0 .. N, high <= low
               PROVE  g[<<low, high>>] = Between(b, low, high)
    OBVIOUS
  <2> QED BY <1>3 DEF Between
<1>5. ASSUME NEW k \in has PROVE k + 1 \in has
  <2>0. k \in Nat /\ \A low, high \in 0 .. N : high <= low + k => g[<<low, high>>] = Between(b, low, high)
    OBVIOUS
  <2> HIDE DEF has
  <2>1. ASSUME NEW low \in 0 .. N, NEW high \in 0 .. N, high <= low + (k + 1)
        PROVE  g[<<low, high>>] = Between(b, low, high)
    <3>1. CASE low >= high
      BY <1>3, <3>1 DEF Between
    <3>2. CASE low < high
      <4>1. PICK m \in low + 1 .. high : m = Middle(low, high)
        BY <1>0, <3>2
      <4>2. m \in 0 .. N /\ m - 1 \in 0 .. N /\ high <= m + k /\ m - 1 <= low + k
        BY <2>0, <2>1, <4>1
      <4>3. g[<<m, high>>] = Between(b, m, high) /\ g[<<low, m - 1>>] = Between(b, low, m - 1)
        BY <2>0, <4>2
      <4>4. g[<<low, high>>] = IF m <= b THEN g[<<m, high>>] ELSE g[<<low, m - 1>>]
        BY <1>0, <1>3, <3>2, <4>1
      <4>5. Between(b, low, high) = IF m <= b THEN Between(b, m, high) ELSE Between(b, low, m - 1)
        BY <1>0, <3>2, <4>1
      <4> QED BY <4>3, <4>4, <4>5
    <3> QED BY <3>1, <3>2
  <2>2. k + 1 \in Nat
    BY <2>0
  <2> QED BY <2>1, <2>2 DEF has
<1>6. has \in SUBSET Nat
  OBVIOUS
<1> HIDE DEF has
<1>7. N \in has
  BY <1>4, <1>5, <1>6, FromZeroOn
<1>8. g[<<0, N>>] = Between(b, 0, N)
  BY <1>7 DEF has
<1>9. Between(b, 0, N) = b
  BY DEF Between
<1> QED BY <1>2, <1>8, <1>9

(* The search finds the largest plausible number, and so none below what   *)
(* was shown.                                                              *)
LEMMA SearchIsLargest ==
  ASSUME NEW N \in Nat, NEW n \in Nat, NEW f \in 0 .. N, NEW tail \in Nat, tail >= 1
  PROVE  /\ Search(N, n, f, tail) = Max({K \in 0 .. N : Plausible(N, K, n, f, tail)})
         /\ Search(N, n, f, tail) \in f .. N
         /\ \A K \in 0 .. N : Plausible(N, K, n, f, tail) <=> K <= Search(N, n, f, tail)
<1> DEFINE all == {K \in 0 .. N : Plausible(N, K, n, f, tail)}
<1>1. f \in all
  BY FewerArePlausible
<1>2. PICK b : b = Max(all)
  OBVIOUS
<1>3. b \in all /\ \A K \in all : K <= b
  <2>1. all \in SUBSET (0 .. N) /\ all # {}
    BY <1>1
  <2> HIDE DEF all
  <2> QED BY <1>2, <2>1, LargestIs
<1>4. b \in 0 .. N /\ f <= b
  BY <1>1, <1>3
<1>5. \A K \in 0 .. N : Plausible(N, K, n, f, tail) <=> K <= b
  <2> SUFFICES ASSUME NEW K \in 0 .. N PROVE Plausible(N, K, n, f, tail) <=> K <= b
    OBVIOUS
  <2>1. ASSUME Plausible(N, K, n, f, tail) PROVE K <= b
    BY <1>3, <2>1
  <2>2. ASSUME K <= b PROVE Plausible(N, K, n, f, tail)
    <3>1. Plausible(N, b, n, f, tail) /\ b \in Nat /\ K \in 0 .. b
      BY <1>3, <2>2
    <3> QED BY <3>1, FewerArePlausible
  <2> QED BY <2>1, <2>2
<1>6. Search(N, n, f, tail) = b
  <2> HIDE DEF all
  <2> QED BY <1>4, <1>5, SearchFinds
<1> QED BY <1>2, <1>4, <1>5, <1>6

-----------------------------------------------------------------------------
(* The bound of a stratum.                                                 *)

Sampled == {s \in [population : Nat, draws : Nat] : s.draws <= s.population}

LEMMA TailIs ==
  ASSUME NEW d \in [Cell -> Sampled]
  PROVE  /\ IsFiniteSet(Uncertain(d)) /\ Cardinality(Uncertain(d)) \in Nat
         /\ TailOf(d) \in Nat /\ TailOf(d) >= 1
         /\ Uncertain(d) # {} => TailOf(d) = Odds * Cardinality(Uncertain(d)) /\ Cardinality(Uncertain(d)) >= 1
<1>1. IsFiniteSet(Uncertain(d))
  <2>1. Uncertain(d) \in SUBSET Cell
    BY DEF Uncertain
  <2> QED BY <2>1, BoundAssumption, FS_Subset DEF BoundAssumption
<1>2. PICK m \in Nat : m = Cardinality(Uncertain(d))
  BY <1>1, FS_CardinalityType
<1>3. Uncertain(d) # {} => m >= 1
  BY <1>1, <1>2, FS_EmptySet
<1>4. Odds \in Nat /\ Odds >= 1
  BY BoundAssumption DEF BoundAssumption
<1>5. ASSUME NEW k \in Nat, k >= 1 PROVE Odds * k \in Nat /\ Odds * k >= 1
  <2>1. PICK j \in Nat : k = j + 1
    <3>1. k - 1 \in Nat /\ k = (k - 1) + 1
      BY <1>5
    <3> QED BY <3>1
  <2>2. Odds * k = Odds * j + Odds /\ Odds * j \in Nat
    BY <1>4, <2>1
  <2> QED BY <1>4, <2>2
<1> QED BY <1>1, <1>2, <1>3, <1>4, <1>5 DEF TailOf

(* No stratum is bounded below what it shows.                              *)
LEMMA BoundIsAtLeast ==
  ASSUME NEW s \in Sampled, NEW f \in 0 .. s.draws, NEW tail \in Nat, tail >= 1
  PROVE  StratumBound(s, f, tail) \in Nat /\ f <= StratumBound(s, f, tail)
<1>1. PICK N \in Nat : N = s.population
  BY DEF Sampled
<1>2. PICK n \in Nat : n = s.draws
  BY DEF Sampled
<1>3. f \in 0 .. n /\ n <= N
  BY <1>1, <1>2 DEF Sampled
<1>4. f \in 0 .. N /\ Search(N, n, f, tail) \in f .. N
  <2>1. f \in 0 .. N
    BY <1>3
  <2> QED BY <2>1, SearchIsLargest
<1> QED BY <1>1, <1>2, <1>3, <1>4 DEF StratumBound, UpperFailures

(* Few samples of a stratum show so little that its errors are missed.     *)
LEMMA FewMissStratum ==
  ASSUME NEW s \in Sampled, s.draws > 0, s.draws < s.population,
         NEW K \in 0 .. s.population, NEW tail \in Nat, tail >= 1
  PROVE  tail * Cardinality({sample \in Draws(s.population, s.draws) :
                               StratumBound(s, Shown(sample, K), tail) < K})
           <= Cardinality(Draws(s.population, s.draws))
<1>1. PICK N \in Nat : N = s.population
  BY DEF Sampled
<1>2. PICK n \in Nat : n = s.draws
  BY DEF Sampled
<1>3. n > 0 /\ n < N /\ K \in 0 .. N /\ K \in Nat
  BY <1>1, <1>2
<1>4. IsFiniteSet(Draws(N, n)) /\ Cardinality(Draws(N, n)) \in Nat /\ \A f \in Nat : AtMost(N, K, n, f) \in Nat
  BY <1>3, DrawsAreFinite
<1> DEFINE missed == {sample \in Draws(N, n) : StratumBound(s, Shown(sample, K), tail) < K}
<1>5. missed \in SUBSET Draws(N, n)
  OBVIOUS
<1>6. CASE missed = {}
  <2>1. Cardinality(missed) = 0
    BY <1>6, FS_EmptySet
  <2>2. tail * Cardinality(missed) <= Cardinality(Draws(N, n))
    BY <1>4, <2>1
  <2> QED BY <1>1, <1>2, <2>2
<1>7. CASE missed # {}
  <2> DEFINE shown == {f \in 0 .. n : \E sample \in missed : Shown(sample, K) = f}
  <2>1. \A sample \in missed : Shown(sample, K) \in shown
    <3> SUFFICES ASSUME NEW sample \in missed PROVE Shown(sample, K) \in 0 .. n
      OBVIOUS
    <3>1. Shown(sample, K) \in Nat /\ Shown(sample, K) <= n
      BY <1>3, ShownIs
    <3> QED BY <3>1
  <2>2. PICK f : f = Max(shown)
    OBVIOUS
  <2>3. f \in shown /\ \A x \in shown : x <= f
    <3>1. shown \in SUBSET (0 .. n) /\ shown # {}
      BY <1>7, <2>1
    <3> HIDE DEF shown
    <3> QED BY <2>2, <3>1, LargestIs
  <2>4. PICK worst \in missed : Shown(worst, K) = f
    BY <2>3
  <2>5. f \in 0 .. n /\ f <= K
    BY <1>3, <2>3, <2>4, ShownIs
  <2>6. StratumBound(s, f, tail) < K
    BY <2>4
  <2>7. f < n /\ Search(N, n, f, tail) < K
    BY <1>1, <1>2, <1>3, <2>5, <2>6 DEF StratumBound, UpperFailures
  <2>8. ~Plausible(N, K, n, f, tail)
    <3>1. f \in 0 .. N
      BY <1>3, <2>5
    <3>2. Search(N, n, f, tail) \in f .. N
      BY <3>1, SearchIsLargest
    <3>3. ~(K <= Search(N, n, f, tail))
      BY <1>3, <2>7, <3>2
    <3> QED BY <1>3, <3>1, <3>3, SearchIsLargest
  <2> DEFINE few == {sample \in Draws(N, n) : Shown(sample, K) <= f}
  <2>9. missed \in SUBSET few
    <3> SUFFICES ASSUME NEW sample \in missed PROVE Shown(sample, K) <= f
      OBVIOUS
    <3> QED BY <2>1, <2>3
  <2>10. IsFiniteSet(few) /\ Cardinality(few) = AtMost(N, K, n, f)
    <3>1. few \in SUBSET Draws(N, n)
      OBVIOUS
    <3>2. Cardinality(few) = AtMost(N, K, n, f)
      BY DEF AtMost
    <3> HIDE DEF few
    <3> QED BY <1>4, <3>1, <3>2, FS_Subset
  <2> HIDE DEF few, missed
  <2>11. IsFiniteSet(missed) /\ Cardinality(missed) <= Cardinality(few)
    BY <2>9, <2>10, FS_Subset
  <2>12. PICK a \in Nat : a = Cardinality(missed)
    BY <2>11, FS_CardinalityType
  <2>13. PICK b \in Nat : b = AtMost(N, K, n, f)
    BY <1>4, <2>5
  <2>14. PICK all \in Nat : all = Cardinality(Draws(N, n))
    BY <1>4
  <2>15. a <= b
    BY <2>10, <2>11, <2>12, <2>13
  <2>16. tail * b < all
    <3>1. ~(tail * b >= all)
      BY <2>8, <2>13, <2>14 DEF Plausible
    <3>2. tail * b \in Nat
      OBVIOUS
    <3> QED BY <3>1, <3>2
  <2>17. tail * a <= tail * b
    <3>1. PICK r \in Nat : b = a + r
      <4>1. b - a \in Nat /\ b = a + (b - a)
        BY <2>15
      <4> QED BY <4>1
    <3>2. tail * b = tail * a + tail * r /\ tail * r \in Nat /\ tail * a \in Nat
      BY <3>1
    <3> QED BY <3>2
  <2>18. tail * a <= all
    <3>1. tail * a \in Nat /\ tail * b \in Nat
      OBVIOUS
    <3> QED BY <2>16, <2>17, <3>1
  <2> QED BY <1>1, <1>2, <2>12, <2>14, <2>18 DEF missed
<1> QED BY <1>6, <1>7

-----------------------------------------------------------------------------
(* Samples of all strata together.                                         *)

LEMMA FunctionsAreFinite ==
  ASSUME NEW U, IsFiniteSet(U)
  PROVE  IsFiniteSet([Cell -> U])
<1>1. IsFiniteSet(SUBSET (Cell \X U))
  <2>1. IsFiniteSet(Cell \X U)
    BY BoundAssumption, FS_Product DEF BoundAssumption
  <2> QED BY <2>1, FS_SUBSET
<1> DEFINE graph == [f \in [Cell -> U] |-> {<<c, f[c]>> : c \in Cell}]
<1>2. graph \in [[Cell -> U] -> SUBSET (Cell \X U)]
  OBVIOUS
<1>3. ASSUME NEW f \in [Cell -> U], NEW h \in [Cell -> U], graph[f] = graph[h] PROVE f = h
  <2>1. ASSUME NEW c \in Cell PROVE f[c] = h[c]
    <3>1. <<c, f[c]>> \in graph[f]
      OBVIOUS
    <3>2. <<c, f[c]>> \in {<<x, h[x]>> : x \in Cell}
      BY <1>3, <3>1
    <3> QED BY <3>2
  <2> QED BY <2>1
<1>4. graph \in Injection([Cell -> U], SUBSET (Cell \X U))
  <2> HIDE DEF graph
  <2> QED BY <1>2, <1>3 DEF Injection, IsInjective
<1> QED BY <1>1, <1>4, FS_Injection

(* One choice of each pool.                                                *)
Combined(pool, U) == {f \in [Cell -> U] : \A c \in Cell : f[c] \in pool[c]}

(* A part of the choices of one cell is the same part of all choices.      *)
LEMMA ChoicesOfPart ==
  ASSUME NEW U, IsFiniteSet(U), NEW pool \in [Cell -> SUBSET U], NEW c \in Cell,
         NEW X \in SUBSET pool[c], NEW x \in pool[c]
  PROVE  Cardinality({f \in Combined(pool, U) : f[c] \in X})
           = Cardinality(X) * Cardinality({f \in Combined(pool, U) : f[c] = x})
<1> DEFINE rest == {f \in Combined(pool, U) : f[c] = x}
           part == {f \in Combined(pool, U) : f[c] \in X}
           join == [p \in X \X rest |-> [p[2] EXCEPT ![c] = p[1]]]
<1>1. IsFiniteSet(X) /\ IsFiniteSet(rest)
  <2>1. X \in SUBSET U
    OBVIOUS
  <2>2. rest \in SUBSET [Cell -> U]
    BY DEF Combined
  <2>3. IsFiniteSet([Cell -> U])
    BY FunctionsAreFinite
  <2> HIDE DEF rest
  <2> QED BY <2>1, <2>2, <2>3, FS_Subset
<1>2. ASSUME NEW y \in X, NEW f \in rest
      PROVE  [f EXCEPT ![c] = y] \in part
  <2>1. f \in [Cell -> U] /\ y \in U /\ y \in pool[c]
    BY DEF Combined
  <2>2. [f EXCEPT ![c] = y] \in [Cell -> U]
    BY <2>1
  <2>3. \A e \in Cell : [f EXCEPT ![c] = y][e] = IF e = c THEN y ELSE f[e]
    BY <2>1
  <2>4. \A e \in Cell : [f EXCEPT ![c] = y][e] \in pool[e]
    BY <2>1, <2>3 DEF Combined
  <2> QED BY <2>2, <2>3, <2>4 DEF Combined
<1>3. join \in [X \X rest -> part]
  <2> HIDE DEF rest, part
  <2>1. \A p \in X \X rest : [p[2] EXCEPT ![c] = p[1]] \in part
    BY <1>2
  <2> QED BY <2>1
<1>4. ASSUME NEW p \in X \X rest, NEW q \in X \X rest, join[p] = join[q] PROVE p = q
  <2>1. PICK y \in X, f \in rest : p = <<y, f>>
    OBVIOUS
  <2>2. PICK z \in X, h \in rest : q = <<z, h>>
    OBVIOUS
  <2>3. f \in [Cell -> U] /\ h \in [Cell -> U] /\ f[c] = h[c]
    BY DEF Combined
  <2>4. [f EXCEPT ![c] = y] = [h EXCEPT ![c] = z]
    BY <1>4, <2>1, <2>2
  <2>5. \A e \in Cell : (IF e = c THEN y ELSE f[e]) = (IF e = c THEN z ELSE h[e])
    BY <2>3, <2>4
  <2>6. y = z /\ \A e \in Cell : f[e] = h[e]
    BY <2>3, <2>5
  <2>7. f = h
    BY <2>3, <2>6
  <2> QED BY <2>1, <2>2, <2>6, <2>7
<1>5. ASSUME NEW f \in part PROVE \E p \in X \X rest : join[p] = f
  <2>1. f \in [Cell -> U] /\ f[c] \in X /\ \A e \in Cell : f[e] \in pool[e]
    BY DEF Combined
  <2>2. PICK h : h = [f EXCEPT ![c] = x]
    OBVIOUS
  <2>3. h \in [Cell -> U] /\ \A e \in Cell : h[e] = IF e = c THEN x ELSE f[e]
    BY <2>1, <2>2
  <2>4. h \in rest
    BY <2>1, <2>3 DEF Combined
  <2>5. [h EXCEPT ![c] = f[c]] = f
    BY <2>1, <2>3
  <2>6. <<f[c], h>> \in X \X rest /\ join[<<f[c], h>>] = f
    BY <2>1, <2>4, <2>5
  <2> QED BY <2>6
<1> HIDE DEF join, rest, part
<1>6. join \in Bijection(X \X rest, part)
  BY <1>3, <1>4, <1>5 DEF Bijection, Injection, Surjection, IsInjective
<1>7. IsFiniteSet(X \X rest) /\ Cardinality(X \X rest) = Cardinality(X) * Cardinality(rest)
  BY <1>1, FS_Product
<1>8. Cardinality(part) = Cardinality(X \X rest)
  <2>1. ExistsBijection(X \X rest, part)
    BY <1>6 DEF ExistsBijection
  <2> QED BY <1>7, <2>1, FS_Bijection
<1> QED BY <1>7, <1>8 DEF part, rest

LEMMA RareInCell ==
  ASSUME NEW U, IsFiniteSet(U), NEW pool \in [Cell -> SUBSET U], NEW c \in Cell,
         NEW X \in SUBSET pool[c], NEW tail \in Nat, tail * Cardinality(X) <= Cardinality(pool[c])
  PROVE  tail * Cardinality({f \in Combined(pool, U) : f[c] \in X}) <= Cardinality(Combined(pool, U))
<1> DEFINE part == {f \in Combined(pool, U) : f[c] \in X}
<1>1. CASE pool[c] = {}
  <2>1. Combined(pool, U) = {} /\ part = {}
    BY <1>1 DEF Combined
  <2>2. Cardinality(Combined(pool, U)) = 0 /\ Cardinality(part) = 0
    BY <2>1, FS_EmptySet
  <2> HIDE DEF part
  <2>3. tail * Cardinality(part) <= Cardinality(Combined(pool, U))
    BY <2>2
  <2> QED BY <2>3 DEF part
<1>2. CASE pool[c] # {}
  <2>1. PICK x \in pool[c] : TRUE
    BY <1>2
  <2> DEFINE rest == {f \in Combined(pool, U) : f[c] = x}
  <2>2. Cardinality(part) = Cardinality(X) * Cardinality(rest)
    BY ChoicesOfPart
  <2>3. Cardinality(Combined(pool, U)) = Cardinality(pool[c]) * Cardinality(rest)
    <3>1. pool[c] \in SUBSET pool[c]
      OBVIOUS
    <3>2. {f \in Combined(pool, U) : f[c] \in pool[c]} = Combined(pool, U)
      BY DEF Combined
    <3>3. Cardinality({f \in Combined(pool, U) : f[c] \in pool[c]}) = Cardinality(pool[c]) * Cardinality(rest)
      BY <3>1, ChoicesOfPart
    <3> QED BY <3>2, <3>3
  <2>4. IsFiniteSet(X) /\ IsFiniteSet(pool[c]) /\ IsFiniteSet(rest)
    <3>1. X \in SUBSET U /\ pool[c] \in SUBSET U
      OBVIOUS
    <3>2. rest \in SUBSET [Cell -> U]
      BY DEF Combined
    <3>3. IsFiniteSet([Cell -> U])
      BY FunctionsAreFinite
    <3> HIDE DEF rest
    <3> QED BY <3>1, <3>2, <3>3, FS_Subset
  <2> HIDE DEF rest, part
  <2>5. PICK a \in Nat : a = Cardinality(X)
    BY <2>4, FS_CardinalityType
  <2>6. PICK b \in Nat : b = Cardinality(pool[c])
    BY <2>4, FS_CardinalityType
  <2>7. PICK r \in Nat : r = Cardinality(rest)
    BY <2>4, FS_CardinalityType
  <2>8. tail * a <= b
    BY <2>5, <2>6
  <2>9. tail * (a * r) <= b * r
    <3>1. PICK k \in Nat : b = tail * a + k
      <4>1. tail * a \in Nat
        OBVIOUS
      <4>2. b - tail * a \in Nat /\ b = tail * a + (b - tail * a)
        BY <2>8, <4>1
      <4> QED BY <4>2
    <3>2. b * r = tail * (a * r) + k * r /\ k * r \in Nat /\ tail * (a * r) \in Nat
      BY <3>1
    <3> QED BY <3>2
  <2> QED BY <2>2, <2>3, <2>5, <2>6, <2>7, <2>9 DEF part
<1> QED BY <1>1, <1>2

(* What is rare in every one of some cells is rare in any of them.         *)
LEMMA RareInAny ==
  ASSUME NEW J, IsFiniteSet(J), NEW W, IsFiniteSet(W), NEW B \in [W -> SUBSET J], NEW tail \in Nat,
         \A w \in W : tail * Cardinality(B[w]) <= Cardinality(J)
  PROVE  tail * Cardinality({j \in J : \E w \in W : j \in B[w]}) <= Cardinality(W) * Cardinality(J)
<1>1. PICK n \in Nat : n = Cardinality(W)
  BY FS_CardinalityType
<1>2. PICK all \in Nat : all = Cardinality(J)
  BY FS_CardinalityType
<1> DEFINE InSome(T) == {j \in J : \E w \in T : j \in B[w]}
           has == {k \in Nat : \A T \in SUBSET W : Cardinality(T) = k => tail * Cardinality(InSome(T)) <= k * all}
<1>3. 0 \in has
  <2> SUFFICES ASSUME NEW T \in SUBSET W, Cardinality(T) = 0 PROVE tail * Cardinality(InSome(T)) <= 0 * all
    OBVIOUS
  <2>1. IsFiniteSet(T)
    BY FS_Subset
  <2>2. T = {}
    BY <2>1, FS_EmptySet
  <2>3. InSome(T) = {}
    BY <2>2
  <2>4. Cardinality(InSome(T)) = 0
    BY <2>3, FS_EmptySet
  <2> HIDE DEF InSome
  <2> QED BY <2>4
<1>4. ASSUME NEW k \in has PROVE k + 1 \in has
  <2>0. k \in Nat /\ \A T \in SUBSET W : Cardinality(T) = k => tail * Cardinality(InSome(T)) <= k * all
    OBVIOUS
  <2> HIDE DEF has
  <2>1. ASSUME NEW T \in SUBSET W, Cardinality(T) = k + 1
        PROVE  tail * Cardinality(InSome(T)) <= (k + 1) * all
    <3>1. IsFiniteSet(T)
      BY FS_Subset
    <3>2. T # {}
      <4>1. k + 1 # 0
        BY <2>0
      <4> QED BY <2>1, <4>1, FS_EmptySet
    <3>3. PICK w \in T : TRUE
      BY <3>2
    <3>4. Cardinality(T \ {w}) = k
      <4>1. Cardinality(T \ {w}) = (k + 1) - 1
        BY <2>1, <3>1, FS_RemoveElement
      <4> QED BY <2>0, <4>1
    <3>5. tail * Cardinality(InSome(T \ {w})) <= k * all
      <4>1. T \ {w} \in SUBSET W
        OBVIOUS
      <4> HIDE DEF InSome
      <4> QED BY <2>0, <3>4, <4>1
    <3>6. InSome(T) = InSome(T \ {w}) \union B[w]
      OBVIOUS
    <3>7. IsFiniteSet(InSome(T \ {w})) /\ IsFiniteSet(B[w]) /\ IsFiniteSet(InSome(T \ {w}) \intersect B[w])
      <4>1. InSome(T \ {w}) \in SUBSET J /\ B[w] \in SUBSET J /\ InSome(T \ {w}) \intersect B[w] \in SUBSET J
        OBVIOUS
      <4> HIDE DEF InSome
      <4> QED BY <4>1, FS_Subset
    <3>8. Cardinality(InSome(T)) =
            Cardinality(InSome(T \ {w})) + Cardinality(B[w]) - Cardinality(InSome(T \ {w}) \intersect B[w])
      <4> HIDE DEF InSome
      <4> QED BY <3>6, <3>7, FS_Union
    <3> HIDE DEF InSome
    <3>9. PICK a \in Nat : a = Cardinality(InSome(T \ {w}))
      BY <3>7, FS_CardinalityType
    <3>10. PICK b \in Nat : b = Cardinality(B[w])
      BY <3>7, FS_CardinalityType
    <3>11. PICK i \in Nat : i = Cardinality(InSome(T \ {w}) \intersect B[w])
      BY <3>7, FS_CardinalityType
    <3>12. IsFiniteSet(InSome(T))
      <4>1. InSome(T) \in SUBSET J
        BY DEF InSome
      <4> QED BY <4>1, FS_Subset
    <3>13. PICK u \in Nat : u = Cardinality(InSome(T))
      BY <3>12, FS_CardinalityType
    <3>14. u + i = a + b
      BY <3>8, <3>9, <3>10, <3>11, <3>13
    <3>15. tail * a <= k * all
      BY <3>5, <3>9
    <3>16. tail * b <= all
      BY <1>2, <3>10
    <3>17. tail * u + tail * i = tail * a + tail * b
      BY <3>14
    <3>18. (k + 1) * all = k * all + all
      BY <2>0
    <3>19. tail * u \in Nat /\ tail * i \in Nat /\ tail * a \in Nat /\ tail * b \in Nat /\ k * all \in Nat
      BY <2>0
    <3>20. tail * u <= (k + 1) * all
      BY <3>15, <3>16, <3>17, <3>18, <3>19
    <3> QED BY <3>13, <3>20
  <2>2. k + 1 \in Nat
    BY <2>0
  <2> HIDE DEF InSome
  <2> QED BY <2>1, <2>2 DEF has
<1>5. has \in SUBSET Nat
  OBVIOUS
<1> HIDE DEF has
<1>6. n \in has
  BY <1>3, <1>4, <1>5, FromZeroOn
<1>7. tail * Cardinality(InSome(W)) <= n * all
  <2>1. W \in SUBSET W
    OBVIOUS
  <2> HIDE DEF InSome
  <2> QED BY <1>1, <1>6, <2>1 DEF has
<1> QED BY <1>1, <1>2, <1>7

-----------------------------------------------------------------------------
(* The bound covers what it was not shown.                                 *)

LEMMA CensusShowsAll ==
  ASSUME NEW N \in Nat, NEW K \in 0 .. N, NEW sample \in Draws(N, N)
  PROVE  Shown(sample, K) = K
<1>1. IsFiniteSet(1 .. N) /\ Cardinality(1 .. N) = N
  BY FS_Interval
<1>2. sample \in SUBSET (1 .. N) /\ Cardinality(sample) = N
  BY DEF Draws, kSubset
<1>3. sample = 1 .. N
  BY <1>1, <1>2, FS_Subset
<1>4. sample \intersect (1 .. K) = 1 .. K
  BY <1>3
<1>5. Cardinality(1 .. K) = K
  BY FS_Interval
<1> QED BY <1>4, <1>5 DEF Shown

(* A stratum whose errors are missed has a sample that is no census.       *)
LEMMA MissedIsUncertain ==
  ASSUME NEW d \in [Cell -> Sampled], NEW c \in Cell, NEW K \in 0 .. d[c].population,
         NEW sample \in Draws(d[c].population, d[c].draws), NEW tail,
         StratumBound(d[c], Shown(sample, K), tail) < K
  PROVE  c \in Uncertain(d)
<1>1. PICK N \in Nat : N = d[c].population
  BY DEF Sampled
<1>2. PICK n \in Nat : n = d[c].draws
  BY DEF Sampled
<1>3. n <= N
  BY <1>1, <1>2 DEF Sampled
<1>4. n # 0
  <2> SUFFICES ASSUME n = 0 PROVE FALSE
    OBVIOUS
  <2>1. N < K
    BY <1>1, <1>2 DEF StratumBound
  <2> QED BY <1>1, <2>1
<1>5. n # N
  <2> SUFFICES ASSUME n = N PROVE FALSE
    OBVIOUS
  <2>1. Shown(sample, K) = K
    BY <1>1, <1>2, CensusShowsAll
  <2>2. K < K
    BY <1>1, <1>2, <1>4, <2>1 DEF StratumBound
  <2> QED BY <1>1, <2>2
<1> QED BY <1>1, <1>2, <1>3, <1>4, <1>5 DEF Uncertain

(* Where the sum of the bounds misses, the bound of a stratum does.        *)
LEMMA MissedInCell ==
  ASSUME NEW d \in [Cell -> Sampled], NEW wrong \in [Cell -> Nat],
         \A c \in Cell : wrong[c] <= d[c].population,
         NEW found \in [Cell -> Nat], \A c \in Cell : found[c] <= d[c].draws,
         UpperTotal(d, found) < Total(wrong)
  PROVE  \E c \in Cell : StratumBound(d[c], found[c], TailOf(d)) < wrong[c]
<1> DEFINE upper == [c \in Cell |-> StratumBound(d[c], found[c], TailOf(d))]
<1>1. TailOf(d) \in Nat /\ TailOf(d) >= 1
  BY TailIs
<1>2. ASSUME NEW c \in Cell PROVE StratumBound(d[c], found[c], TailOf(d)) \in Nat
  <2>1. d[c] \in Sampled /\ found[c] \in 0 .. d[c].draws
    BY DEF Sampled
  <2> QED BY <1>1, <2>1, BoundIsAtLeast
<1>3. upper \in [Cell -> Nat] /\ \A c \in Cell : upper[c] = StratumBound(d[c], found[c], TailOf(d))
  BY <1>2
<1>4. UpperTotal(d, found) = Total(upper)
  BY DEF UpperTotal
<1> HIDE DEF upper
<1> SUFFICES ASSUME \A c \in Cell : ~(upper[c] < wrong[c]) PROVE FALSE
  BY <1>3
<1>5. \A c \in Cell : wrong[c] <= upper[c]
  BY <1>3
<1>6. Total(wrong) <= Total(upper)
  BY <1>3, <1>5, TotalGrows
<1>7. Total(wrong) \in Nat /\ Total(upper) \in Nat
  BY <1>3, TotalIsNat
<1> QED BY <1>4, <1>6, <1>7

LEMMA DesignIsSampled ==
  ASSUME BoundTypeOK
  PROVE  design \in [Cell -> Sampled] /\ \A c \in Cell : design[c].population \in 0 .. MaxPopulation
<1>1. Stratum \subseteq Sampled /\ \A s \in Stratum : s.population \in 0 .. MaxPopulation
  BY BoundAssumption DEF Stratum, Sampled, BoundAssumption
<1> QED BY <1>1 DEF BoundTypeOK

LEMMA BoundCoversAll ==
  ASSUME BoundTypeOK
  PROVE  BoundCovers
<1>1. PICK d : d = design
  OBVIOUS
<1>2. d \in [Cell -> Sampled] /\ \A c \in Cell : d[c].population \in 0 .. MaxPopulation
  BY <1>1, DesignIsSampled
<1>3. PICK last : last = Max({d[c].population : c \in Cell})
  OBVIOUS
<1>4. ASSUME NEW c \in Cell PROVE last \in Nat /\ d[c].population \in 0 .. last
  <2> DEFINE sizes == {d[x].population : x \in Cell}
  <2>1. sizes \in SUBSET (0 .. MaxPopulation) /\ sizes # {} /\ MaxPopulation \in Nat
    BY <1>2, BoundAssumption DEF BoundAssumption
  <2>2. d[c].population \in sizes
    OBVIOUS
  <2>3. last = Max(sizes)
    BY <1>3
  <2> HIDE DEF sizes
  <2>4. last \in sizes /\ d[c].population <= last
    BY <2>1, <2>2, <2>3, LargestIs
  <2> QED BY <1>2, <2>1, <2>4
<1>5. PICK U : U = UNION {Draws(d[c].population, d[c].draws) : c \in Cell}
  OBVIOUS
<1>6. PICK pool : pool = [c \in Cell |-> Draws(d[c].population, d[c].draws)]
  OBVIOUS
<1>7. pool \in [Cell -> SUBSET U] /\ \A c \in Cell : pool[c] = Draws(d[c].population, d[c].draws)
  BY <1>5, <1>6
<1>8. IsFiniteSet(U)
  <2>1. U \in SUBSET SUBSET (1 .. MaxPopulation)
    <3> SUFFICES ASSUME NEW c \in Cell, NEW sample \in Draws(d[c].population, d[c].draws)
                 PROVE  sample \subseteq 1 .. MaxPopulation
      BY <1>5
    <3>1. sample \subseteq 1 .. d[c].population
      BY DEF Draws, kSubset
    <3> QED BY <1>2, <3>1, BoundAssumption DEF BoundAssumption
  <2>2. IsFiniteSet(SUBSET (1 .. MaxPopulation))
    <3>1. IsFiniteSet(1 .. MaxPopulation)
      BY FS_Interval, BoundAssumption DEF BoundAssumption
    <3> QED BY <3>1, FS_SUBSET
  <2> QED BY <2>1, <2>2, FS_Subset
<1>9. Sampling = Combined(pool, U)
  BY <1>1, <1>5, <1>7 DEF Sampling, Combined
<1>10. PICK J : J = Combined(pool, U)
  OBVIOUS
<1>11. IsFiniteSet(J)
  <2>1. J \in SUBSET [Cell -> U]
    BY <1>10 DEF Combined
  <2>2. IsFiniteSet([Cell -> U])
    BY <1>8, FunctionsAreFinite
  <2> QED BY <2>1, <2>2, FS_Subset
<1>12. ASSUME NEW wrong \in [Cell -> 0 .. last], \A c \in Cell : wrong[c] <= d[c].population
       PROVE  Odds * Cardinality({samples \in J :
                UpperTotal(d, [c \in Cell |-> Shown(samples[c], wrong[c])]) < Total(wrong)}) <= Cardinality(J)
  <2> DEFINE missed == {samples \in J : UpperTotal(d, [c \in Cell |-> Shown(samples[c], wrong[c])]) < Total(wrong)}
             X(c) == {sample \in pool[c] : StratumBound(d[c], Shown(sample, wrong[c]), TailOf(d)) < wrong[c]}
  <2>1. wrong \in [Cell -> Nat] /\ \A c \in Cell : wrong[c] \in 0 .. d[c].population
    <3>1. ASSUME NEW c \in Cell PROVE wrong[c] \in Nat /\ wrong[c] \in 0 .. d[c].population
      <4>1. last \in Nat /\ d[c].population \in Nat
        BY <1>4
      <4>2. wrong[c] \in 0 .. last /\ wrong[c] <= d[c].population
        BY <1>12
      <4> QED BY <4>1, <4>2
    <3> QED BY <3>1
  <2>2. TailOf(d) \in Nat /\ TailOf(d) >= 1
    BY <1>2, TailIs
  <2>3. ASSUME NEW samples \in missed PROVE \E c \in Uncertain(d) : samples[c] \in X(c)
    <3> DEFINE found == [c \in Cell |-> Shown(samples[c], wrong[c])]
    <3>1. \A c \in Cell : samples[c] \in pool[c] /\ samples[c] \in Draws(d[c].population, d[c].draws)
      BY <1>7, <1>10 DEF Combined
    <3>2. ASSUME NEW c \in Cell PROVE Shown(samples[c], wrong[c]) \in Nat /\ Shown(samples[c], wrong[c]) <= d[c].draws
      <4>1. d[c].population \in Nat /\ d[c].draws \in Nat /\ wrong[c] \in Nat
        BY <1>2, <2>1 DEF Sampled
      <4> QED BY <3>1, <4>1, ShownIs
    <3>3. found \in [Cell -> Nat] /\ \A c \in Cell : found[c] = Shown(samples[c], wrong[c])
      BY <3>2
    <3>4. UpperTotal(d, found) < Total(wrong)
      OBVIOUS
    <3> HIDE DEF found, missed
    <3>5. PICK c \in Cell : StratumBound(d[c], found[c], TailOf(d)) < wrong[c]
      BY <1>2, <1>12, <2>1, <3>2, <3>3, <3>4, MissedInCell
    <3>6. StratumBound(d[c], Shown(samples[c], wrong[c]), TailOf(d)) < wrong[c]
      BY <3>3, <3>5
    <3>7. c \in Uncertain(d)
      BY <1>2, <2>1, <3>1, <3>6, MissedIsUncertain
    <3> QED BY <3>1, <3>6, <3>7
  <2>4. ASSUME NEW c \in Uncertain(d)
        PROVE  c \in Cell /\ TailOf(d) * Cardinality({f \in J : f[c] \in X(c)}) <= Cardinality(J)
    <3>1. c \in Cell /\ d[c] \in Sampled /\ d[c].draws > 0 /\ d[c].draws < d[c].population
      BY <1>2 DEF Uncertain
    <3>2. TailOf(d) * Cardinality(X(c)) <= Cardinality(pool[c])
      <4>1. wrong[c] \in 0 .. d[c].population
        BY <2>1, <3>1
      <4>2. TailOf(d) * Cardinality({sample \in Draws(d[c].population, d[c].draws) :
                                      StratumBound(d[c], Shown(sample, wrong[c]), TailOf(d)) < wrong[c]})
              <= Cardinality(Draws(d[c].population, d[c].draws))
        BY <2>2, <3>1, <4>1, FewMissStratum
      <4> QED BY <1>7, <3>1, <4>2
    <3>3. X(c) \in SUBSET pool[c]
      OBVIOUS
    <3> HIDE DEF X
    <3>4. TailOf(d) * Cardinality({f \in Combined(pool, U) : f[c] \in X(c)}) <= Cardinality(Combined(pool, U))
      BY <1>7, <1>8, <2>2, <3>1, <3>2, <3>3, RareInCell
    <3> QED BY <1>10, <3>1, <3>4
  <2>5. CASE Uncertain(d) = {}
    <3>1. missed = {}
      BY <2>3, <2>5
    <3>2. Cardinality(missed) = 0 /\ Cardinality(J) \in Nat
      BY <1>11, <3>1, FS_EmptySet, FS_CardinalityType
    <3> HIDE DEF missed
    <3>3. Odds \in Nat
      BY BoundAssumption DEF BoundAssumption
    <3>4. Odds * Cardinality(missed) <= Cardinality(J)
      BY <3>2, <3>3
    <3> QED BY <3>4 DEF missed
  <2>6. CASE Uncertain(d) # {}
    <3> DEFINE W == Uncertain(d)
               B == [c \in W |-> {f \in J : f[c] \in X(c)}]
               rare == {j \in J : \E w \in W : j \in B[w]}
    <3>1. B \in [W -> SUBSET J] /\ \A w \in W : TailOf(d) * Cardinality(B[w]) <= Cardinality(J)
      <4> HIDE DEF X
      <4>1. \A w \in W : B[w] = {f \in J : f[w] \in X(w)}
        OBVIOUS
      <4> QED BY <2>4, <4>1
    <3>2. missed \in SUBSET rare
      <4> SUFFICES ASSUME NEW samples \in missed PROVE samples \in rare
        OBVIOUS
      <4>1. PICK c \in W : samples[c] \in X(c)
        BY <2>3
      <4>2. samples \in J
        OBVIOUS
      <4> HIDE DEF X, missed
      <4> QED BY <4>1, <4>2
    <3>3. rare \in SUBSET J
      OBVIOUS
    <3>4. IsFiniteSet(W) /\ Cardinality(W) \in Nat /\ Cardinality(W) >= 1 /\ TailOf(d) = Odds * Cardinality(W)
      BY <1>2, <2>6, TailIs
    <3>5. TailOf(d) * Cardinality(rare) <= Cardinality(W) * Cardinality(J)
      <4> HIDE DEF W, B, missed, X
      <4> QED BY <1>11, <2>2, <3>1, <3>4, RareInAny
    <3> HIDE DEF W, B, missed, X, rare
    <3>6. IsFiniteSet(rare) /\ IsFiniteSet(missed) /\ Cardinality(missed) <= Cardinality(rare)
      <4>1. IsFiniteSet(rare)
        BY <1>11, <3>3, FS_Subset
      <4> QED BY <3>2, <4>1, FS_Subset
    <3>7. PICK a \in Nat : a = Cardinality(missed)
      BY <3>6, FS_CardinalityType
    <3>8. PICK b \in Nat : b = Cardinality(rare)
      BY <3>6, FS_CardinalityType
    <3>9. PICK all \in Nat : all = Cardinality(J)
      BY <1>11, FS_CardinalityType
    <3>10. PICK m \in Nat : m = Cardinality(W)
      BY <3>4
    <3>11. PICK odds \in Nat : odds = Odds
      BY BoundAssumption DEF BoundAssumption
    <3>12. (odds * m) * b <= m * all /\ m >= 1 /\ a <= b
      BY <3>4, <3>5, <3>6, <3>7, <3>8, <3>9, <3>10, <3>11
    <3>13. odds * b <= all
      <4> SUFFICES ASSUME odds * b > all PROVE FALSE
        BY SMT
      <4>1. PICK k \in Nat : odds * b = all + k + 1
        <5>1. odds * b \in Nat
          OBVIOUS
        <5>2. odds * b - all - 1 \in Nat /\ odds * b = all + (odds * b - all - 1) + 1
          BY <5>1
        <5> QED BY <5>2
      <4>2. (odds * m) * b = m * (odds * b)
        OBVIOUS
      <4>3. m * (odds * b) = m * all + m * k + m
        BY <4>1
      <4>4. m * k \in Nat /\ m * all \in Nat
        OBVIOUS
      <4> QED BY <3>12, <4>2, <4>3, <4>4
    <3>14. odds * a <= odds * b
      <4>1. PICK r \in Nat : b = a + r
        <5>1. b - a \in Nat /\ b = a + (b - a)
          BY <3>12
        <5> QED BY <5>1
      <4>2. odds * b = odds * a + odds * r /\ odds * r \in Nat /\ odds * a \in Nat
        BY <4>1
      <4> QED BY <4>2
    <3>15. odds * a <= all
      <4>1. odds * a \in Nat /\ odds * b \in Nat
        OBVIOUS
      <4> QED BY <3>13, <3>14, <4>1
    <3>16. Odds * Cardinality(missed) <= Cardinality(J)
      BY <3>7, <3>9, <3>11, <3>15
    <3> QED BY <3>16 DEF missed
  <2> QED BY <2>5, <2>6
<1>13. ASSUME NEW wrong \in [Cell -> 0 .. last], \A c \in Cell : wrong[c] <= d[c].population, NEW samples \in J
       PROVE  [c \in Cell |-> Shown(samples[c], wrong[c])] \in [Cell -> 0 .. last]
  <2>1. ASSUME NEW c \in Cell PROVE Shown(samples[c], wrong[c]) \in 0 .. last
    <3>1. last \in Nat /\ wrong[c] \in Nat /\ wrong[c] <= last
      <4>1. last \in Nat
        BY <1>4
      <4>2. wrong[c] \in 0 .. last
        OBVIOUS
      <4> QED BY <4>1, <4>2
    <3>2. samples[c] \in Draws(d[c].population, d[c].draws) /\ d[c].population \in Nat /\ d[c].draws \in Nat
      BY <1>2, <1>7, <1>10 DEF Combined, Sampled
    <3>3. Shown(samples[c], wrong[c]) \in Nat /\ Shown(samples[c], wrong[c]) <= wrong[c]
      BY <3>1, <3>2, ShownIs
    <3> QED BY <3>1, <3>3
  <2> QED BY <2>1
<1>14. PICK counts : counts = [Cell -> 0 .. last]
  OBVIOUS
<1>15. PICK bound : bound = [found \in counts |-> UpperTotal(d, found)]
  OBVIOUS
<1>16. ASSUME NEW wrong \in counts, \A c \in Cell : wrong[c] <= d[c].population
       PROVE  Odds * Cardinality({samples \in J :
                bound[[c \in Cell |-> Shown(samples[c], wrong[c])]] < Total(wrong)}) <= Cardinality(J)
  <2>1. \A samples \in J : bound[[c \in Cell |-> Shown(samples[c], wrong[c])]]
                             = UpperTotal(d, [c \in Cell |-> Shown(samples[c], wrong[c])])
    BY <1>13, <1>14, <1>15, <1>16
  <2>2. {samples \in J : bound[[c \in Cell |-> Shown(samples[c], wrong[c])]] < Total(wrong)}
          = {samples \in J : UpperTotal(d, [c \in Cell |-> Shown(samples[c], wrong[c])]) < Total(wrong)}
    BY <2>1
  <2> QED BY <1>12, <1>14, <1>16, <2>2
<1>17. counts = [Cell -> 0 .. Max({design[c].population : c \in Cell})]
  BY <1>1, <1>3, <1>14
<1>18. bound = [found \in counts |-> UpperTotal(design, found)] /\ J = Sampling
  BY <1>1, <1>9, <1>10, <1>15
<1>19. \A wrong \in counts :
         (\A c \in Cell : wrong[c] <= design[c].population) =>
           Odds * Cardinality({samples \in J :
             bound[[c \in Cell |-> Shown(samples[c], wrong[c])]] < Total(wrong)}) <= Cardinality(J)
  BY <1>1, <1>16
<1> QED BY <1>17, <1>18, <1>19, Zenon DEF BoundCovers

LEMMA SearchesAreExact ==
  ASSUME BoundTypeOK
  PROVE  SearchIsExact
<1> SUFFICES ASSUME NEW c \in Cell, NEW f \in 0 .. design[c].draws
             PROVE  LET s == design[c]  tail == TailOf(design) IN
                    s.draws \in 1 .. s.population - 1 /\ f < s.draws =>
                      Search(s.population, s.draws, f, tail) =
                        Max({K \in 0 .. s.population : Plausible(s.population, K, s.draws, f, tail)})
  BY DEF SearchIsExact
<1>1. design \in [Cell -> Sampled]
  BY DesignIsSampled
<1>2. TailOf(design) \in Nat /\ TailOf(design) >= 1
  BY <1>1, TailIs
<1>3. PICK N \in Nat : N = design[c].population
  BY <1>1 DEF Sampled
<1>4. PICK n \in Nat : n = design[c].draws
  BY <1>1 DEF Sampled
<1>5. f \in 0 .. N
  BY <1>1, <1>3, <1>4 DEF Sampled
<1>6. Search(N, n, f, TailOf(design)) = Max({K \in 0 .. N : Plausible(N, K, n, f, TailOf(design))})
  BY <1>2, <1>5, SearchIsLargest
<1> QED BY <1>3, <1>4, <1>6

(* The bound of an audit is the largest number of errors that is plausible *)
(* after what was shown, and of all the samples that could have been drawn *)
(* at most one in Odds makes it too small: whatever the strata, their      *)
(* errors and the confidence.                                              *)
THEOREM BoundHolds == BoundSpec => []BoundIsSound
<1>1. BoundInit => BoundTypeOK
  BY BoundAssumption DEF BoundInit, BoundTypeOK, Stratum, BoundAssumption
<1>2. BoundTypeOK /\ [FreezeDesign]_design => BoundTypeOK'
  BY DEF BoundTypeOK, FreezeDesign, Stratum
<1>3. BoundTypeOK => BoundIsSound
  BY BoundCoversAll, SearchesAreExact DEF BoundIsSound
<1> QED BY <1>1, <1>2, <1>3, PTL DEF BoundSpec

-----------------------------------------------------------------------------
(* The audit that guards promotion.                                        *)

InHand == {"deciding", "reviewing", "voided", "stamped"}

(* The operation under the audit lock, and what it has in hand.            *)
Operation ==
  UNION {{Free},
         [is : {"sampling"}, held : SUBSET Doc, seed : Seed, lot : Lot],
         [is : {"bundling"}, held : SUBSET Doc, left : SUBSET Doc],
         [is : {"bundling", "writing"}, held : SUBSET Doc, left : SUBSET Doc, doc : Doc],
         [is : InHand, doc : Doc, attempt : 0 .. MaxReadings, pass : BOOLEAN, critical : BOOLEAN],
         [is : {"reporting"}, result : Report],
         [is : {"offering"}, doc : Doc, attempt : 0 .. MaxReadings]}

AuditTypes ==
  /\ AuditTypeOK
  /\ lots \in [Seed -> Lot \union {Nothing}]
  /\ audit \in Operation

(* What is frozen later is what was drawn, unless the seed has its sample. *)
SampleFits == audit.is = "sampling" => lots[audit.seed] \in {Nothing, audit.lot}

(* A verdict in hand is on the reading that the record still has, once its *)
(* lock is taken, and on pixels of that reading.                           *)
VerdictIsBound ==
  audit.is \in InHand =>
    /\ Len(history) < MaxVerdicts
    /\ audit.is = "voided" => audit.attempt # 0
    /\ audit.attempt # 0 =>
         /\ bundle[audit.doc] \in {Nothing, 0, audit.attempt}
         /\ audit.is # "reviewing" => live[audit.doc] = audit.attempt /\ audit.doc \notin busy

(* A report that is complete covers the history, over a sample that has    *)
(* been judged; one that accepts found few critical failures in it.        *)
Covers(r) ==
  r.complete =>
    /\ r.of = history /\ r.seed \in Seed /\ lots[r.seed] # Nothing
    /\ lots[r.seed].docs # {} /\ \A d \in lots[r.seed].docs : \E e \in Range(history) : e.doc = d
    /\ r.met =>
         RateLimit * Cardinality({d \in lots[r.seed].docs : \E e \in Range(history) :
                                    e.doc = d /\ ~e.pass /\ e.critical}) <= Cardinality(lots[r.seed].frame)

ReportsCover ==
  /\ Covers(report)
  /\ audit.is = "reporting" => Covers(audit.result)
  /\ audit.is \in {"voided", "stamped"} => ~report.complete

OfferStands ==
  audit.is = "offering" => report.complete /\ report.met /\ BoundByVerdict(audit.doc) /\ audit.doc \notin busy

AuditInv == AuditTypes /\ SampleFits /\ VerdictIsBound /\ ReportsCover /\ OfferStands

(* What the operation is says which fields it has.                         *)
LEMMA OperationFields ==
  ASSUME audit \in Operation
  PROVE  /\ audit.is = "sampling" => audit.held \subseteq Doc /\ audit.seed \in Seed /\ audit.lot \in Lot
         /\ audit.is \in {"bundling", "writing"} => audit.held \subseteq Doc /\ audit.left \subseteq Doc
         /\ audit.is = "writing" => audit.doc \in Doc
         /\ audit.is \in InHand =>
              /\ audit.doc \in Doc /\ audit.attempt \in 0 .. MaxReadings
              /\ audit.pass \in BOOLEAN /\ audit.critical \in BOOLEAN
              /\ audit = [is |-> audit.is, doc |-> audit.doc, attempt |-> audit.attempt, pass |-> audit.pass,
                          critical |-> audit.critical]
         /\ audit.is = "reporting" => audit.result \in Report
         /\ audit.is = "offering" => audit.doc \in Doc
         /\ audit = Free => audit.is = "free"
<1>1. CASE audit = Free
  BY <1>1 DEF Free, InHand
<1>2. CASE audit \in [is : {"sampling"}, held : SUBSET Doc, seed : Seed, lot : Lot]
  BY <1>2 DEF InHand, Free
<1>3. CASE \/ audit \in [is : {"bundling"}, held : SUBSET Doc, left : SUBSET Doc]
           \/ audit \in [is : {"bundling", "writing"}, held : SUBSET Doc, left : SUBSET Doc, doc : Doc]
  BY <1>3 DEF InHand, Free
<1>4. CASE audit \in [is : InHand, doc : Doc, attempt : 0 .. MaxReadings, pass : BOOLEAN, critical : BOOLEAN]
  BY <1>4 DEF InHand, Free
<1>5. CASE audit \in [is : {"reporting"}, result : Report]
  BY <1>5 DEF InHand, Free
<1>6. CASE audit \in [is : {"offering"}, doc : Doc, attempt : 0 .. MaxReadings]
  BY <1>6 DEF InHand, Free
<1> QED BY <1>1, <1>2, <1>3, <1>4, <1>5, <1>6 DEF Operation

LEMMA AuditStarts == AuditInit => AuditInv
<1> SUFFICES ASSUME AuditInit PROVE AuditInv
  OBVIOUS
<1>1. audit.is = "free" /\ report.complete = FALSE /\ ~report.complete
  BY DEF AuditInit, Free, Void
<1>2. <<>> \in Seq(Verdict) /\ Len(<<>>) = 0 /\ Len(<<>>) <= MaxVerdicts
  BY AuditAssumption
<1>3. RecordTypeOK
  BY RecordAssumption DEF AuditInit, RecordInit, RecordTypeOK
<1>4. Void \in Report
  BY <1>2 DEF Void, Report
<1>5. AuditTypeOK
  BY <1>2, <1>3, <1>4 DEF AuditInit, RecordInit, AuditTypeOK
<1>6. AuditTypes
  BY <1>5 DEF AuditInit, AuditTypes, Operation
<1> QED BY <1>1, <1>6 DEF AuditInv, SampleFits, VerdictIsBound, ReportsCover, Covers, OfferStands, InHand

(* A record whose lock nobody has keeps its reading.                       *)
LEMMA UnlockedStays ==
  ASSUME RecordTypeOK, NEW d \in Doc, StagerStep(d), NEW e \in Doc, e \notin busy
  PROVE  /\ live'[e] = live[e]
         /\ AuditHolds(e) => e \notin busy'
BY DEF RecordTypeOK, StagerStep, Seize, Clear, Write, Release

LEMMA StagerKeeps ==
  ASSUME AuditInv, NEW d \in Doc, StagerStep(d)
  PROVE  AuditInv'
<1>1. UNCHANGED <<history, lots, bundle, report, audit>>
  BY DEF StagerStep
<1>2. AuditTypeOK /\ RecordTypeOK /\ audit \in Operation
  BY DEF AuditInv, AuditTypes, AuditTypeOK
<1>3. /\ RecordTypeOK' /\ parsed' \subseteq {e \in Doc : live'[e] # 0}
      /\ stamp' \in [Doc -> {"none", "pass", "fail"}]
      /\ \A e \in Doc : live'[e] = 0 => stamp'[e] = "none"
  <2>0. /\ live \in [Doc -> 0 .. MaxReadings] /\ busy \subseteq Doc /\ count \in 0 .. MaxReadings
        /\ parsed \subseteq {e \in Doc : live[e] # 0} /\ stamp \in [Doc -> {"none", "pass", "fail"}]
        /\ \A e \in Doc : live[e] = 0 => stamp[e] = "none"
    BY <1>2 DEF AuditTypeOK, RecordTypeOK
  <2>1. CASE \/ Seize(d) /\ UNCHANGED <<parsed, stamp>>
             \/ Release(d) /\ UNCHANGED <<parsed, stamp>>
    BY <2>0, <2>1 DEF RecordTypeOK, Seize, Release
  <2>2. CASE Clear(d) /\ parsed' = parsed \ {d} /\ stamp' = [stamp EXCEPT ![d] = "none"]
    BY <2>0, <2>2, RecordAssumption DEF RecordTypeOK, Clear
  <2>3. CASE Write(d) /\ parsed' \in {parsed, parsed \union {d}} /\ UNCHANGED stamp
    <3>1. /\ count + 1 \in 1 .. MaxReadings /\ count' = count + 1
          /\ live' = [live EXCEPT ![d] = count + 1] /\ busy' = busy \ {d}
      BY <2>0, <2>3, RecordAssumption DEF Write
    <3>2. live' \in [Doc -> 0 .. MaxReadings] /\ live'[d] # 0 /\ \A e \in Doc : e # d => live'[e] = live[e]
      BY <2>0, <3>1, RecordAssumption
    <3> QED BY <2>0, <2>3, <3>1, <3>2, RecordAssumption DEF RecordTypeOK
  <2> QED BY <2>1, <2>2, <2>3 DEF StagerStep
<1>4. AuditTypes'
  BY <1>1, <1>2, <1>3 DEF AuditInv, AuditTypes, AuditTypeOK
<1>5. SampleFits' /\ ReportsCover'
  BY <1>1 DEF AuditInv, SampleFits, ReportsCover, Covers
<1>6. VerdictIsBound'
  <2> SUFFICES ASSUME audit.is \in InHand, audit.attempt # 0, audit.is # "reviewing"
               PROVE  live'[audit.doc] = audit.attempt /\ audit.doc \notin busy'
    BY <1>1 DEF AuditInv, VerdictIsBound
  <2>1. audit.doc \in Doc /\ live[audit.doc] = audit.attempt /\ audit.doc \notin busy
    BY <1>2, OperationFields DEF AuditInv, VerdictIsBound
  <2>2. AuditHolds(audit.doc)
    BY DEF AuditHolds, InHand
  <2> QED BY <1>2, <2>1, <2>2, UnlockedStays
<1>7. OfferStands'
  <2> SUFFICES ASSUME audit.is = "offering"
               PROVE  report.complete /\ report.met /\ BoundByVerdict(audit.doc)' /\ audit.doc \notin busy'
    BY <1>1 DEF OfferStands
  <2>1. audit.doc \in Doc /\ report.complete /\ report.met /\ BoundByVerdict(audit.doc) /\ audit.doc \notin busy
    BY <1>2, OperationFields DEF AuditInv, OfferStands
  <2>2. AuditHolds(audit.doc)
    BY DEF AuditHolds
  <2>3. live'[audit.doc] = live[audit.doc] /\ audit.doc \notin busy'
    BY <1>2, <2>1, <2>2, UnlockedStays
  <2> QED BY <1>1, <2>1, <2>3 DEF BoundByVerdict, On
<1> QED BY <1>4, <1>5, <1>6, <1>7 DEF AuditInv

(* What an operation keeps that only moves the audit on.                   *)
LEMMA OperationMoves ==
  ASSUME AuditInv, UNCHANGED <<records, stamp, history, lots, bundle>>,
         report' \in {report, Void}, audit' \in Operation, audit'.is \notin InHand \union {"offering"},
         audit'.is = "sampling" => lots[audit'.seed] \in {Nothing, audit'.lot},
         audit'.is = "reporting" => Covers(audit'.result)
  PROVE  AuditInv'
<1>1. /\ AuditTypeOK /\ AuditTypes /\ ReportsCover
      /\ UNCHANGED <<live, busy, count, parsed, stamp, history, lots, bundle>>
  BY DEF AuditInv, AuditTypes, records, recordVars
<1>2. Void \in Report /\ ~Void.complete
  BY DEF Void, Report
<1>3. AuditTypes'
  BY <1>1, <1>2 DEF AuditTypes, AuditTypeOK, RecordTypeOK
<1>4. ReportsCover'
  <2>1. Covers(report)' \/ ~report'.complete
    BY <1>1, <1>2 DEF ReportsCover, Covers
  <2>2. audit'.is = "reporting" => Covers(audit.result)'
    BY <1>1 DEF Covers
  <2> QED BY <2>1, <2>2 DEF ReportsCover, Covers, InHand
<1> QED BY <1>1, <1>3, <1>4 DEF AuditInv, SampleFits, VerdictIsBound, OfferStands

LEMMA FreeIsOperation == Free \in Operation /\ Free.is = "free"
BY DEF Operation, Free

LEMMA BeginSampleKeeps ==
  ASSUME AuditInv, NEW seed \in Seed, NEW size \in Sizes, BeginSample(seed, size)
  PROVE  AuditInv'
<1> DEFINE known == {d \in Doc : live[d] # 0}
<1>1. PICK lot \in {FrozenLot(docs, parsed) : docs \in Samples(parsed, size)} :
        IF lots[seed] \in {Nothing, lot}
        THEN /\ audit' = [is |-> "sampling", held |-> known, seed |-> seed, lot |-> lot]
             /\ report' = IF lots[seed] = Nothing THEN Void ELSE report
        ELSE audit' = Free /\ report' = Void
  BY DEF BeginSample
<1>2. UNCHANGED <<records, stamp, history, lots, bundle>>
  BY DEF BeginSample
<1>3. lot \in Lot
  <2>1. PICK docs \in Samples(parsed, size) : lot = FrozenLot(docs, parsed)
    BY <1>1
  <2>2. docs \subseteq parsed /\ docs \subseteq Doc /\ parsed \subseteq Doc /\ live \in [Doc -> 0 .. MaxReadings]
    BY <2>1 DEF Samples, AuditInv, AuditTypes, AuditTypeOK, RecordTypeOK
  <2>3. 0 \in 0 .. MaxReadings
    BY RecordAssumption
  <2> QED BY <2>1, <2>2, <2>3 DEF FrozenLot, Lot
<1>4. CASE lots[seed] \in {Nothing, lot}
  <2>1. audit' = [is |-> "sampling", held |-> known, seed |-> seed, lot |-> lot] /\ report' \in {report, Void}
    BY <1>1, <1>4
  <2>2. audit' \in [is : {"sampling"}, held : SUBSET Doc, seed : Seed, lot : Lot]
    BY <1>3, <2>1
  <2>3. audit' \in Operation
    BY <2>2 DEF Operation
  <2> QED BY <1>2, <1>4, <2>1, <2>3, OperationMoves DEF InHand
<1>5. CASE lots[seed] \notin {Nothing, lot}
  BY <1>1, <1>2, <1>5, FreeIsOperation, OperationMoves DEF InHand
<1> QED BY <1>4, <1>5

(* An operation ends, by itself or with its process.                       *)
LEMMA EndingKeeps ==
  ASSUME AuditInv, EndSample \/ InsertRefused \/ AuditDies
  PROVE  AuditInv'
BY FreeIsOperation, OperationMoves DEF EndSample, InsertRefused, AuditDies, InHand

LEMMA FreezeLotKeeps ==
  ASSUME AuditInv, FreezeLot
  PROVE  AuditInv' /\ \A s \in Seed : lots[s] # Nothing => lots'[s] = lots[s]
<1> USE DEF AuditInv, AuditTypes
<1>1. /\ audit.is = "sampling" /\ lots' = [lots EXCEPT ![audit.seed] = audit.lot]
      /\ audit' = [is |-> "bundling", held |-> audit.held, left |-> audit.lot.docs]
      /\ UNCHANGED <<live, busy, count, parsed, stamp, history, bundle, report>>
  BY DEF FreezeLot, records, recordVars
<1>2. /\ audit.held \subseteq Doc /\ audit.seed \in Seed /\ audit.lot \in Lot
      /\ lots[audit.seed] \in {Nothing, audit.lot} /\ lots \in [Seed -> Lot \union {Nothing}]
  BY <1>1, OperationFields DEF SampleFits
<1>3. \A s \in Seed : lots[s] # Nothing => lots'[s] = lots[s] /\ lots'[s] # Nothing
  BY <1>1, <1>2, LotAssumption
<1>4. audit' \in [is : {"bundling"}, held : SUBSET Doc, left : SUBSET Doc]
  BY <1>1, <1>2 DEF Lot
<1>5. audit' \in Operation /\ audit'.is = "bundling"
  BY <1>4 DEF Operation
<1>6. lots' \in [Seed -> Lot \union {Nothing}]
  BY <1>1, <1>2
<1>7. AuditTypes'
  BY <1>1, <1>5, <1>6 DEF AuditTypeOK, RecordTypeOK
<1>8. Covers(report)'
  BY <1>1, <1>3 DEF ReportsCover, Covers
<1> QED BY <1>3, <1>5, <1>7, <1>8 DEF SampleFits, VerdictIsBound, ReportsCover, OfferStands, InHand

LEMMA BundlingKeeps ==
  ASSUME AuditInv, MakeBundle \/ FillBundle
  PROVE  AuditInv'
<1> USE DEF AuditInv, AuditTypes
<1>1. UNCHANGED <<live, busy, count, parsed, stamp, history, lots, report>>
  BY DEF MakeBundle, FillBundle, records, recordVars
<1>2. bundle \in [Doc -> {Nothing} \union (0 .. MaxReadings)] /\ live \in [Doc -> 0 .. MaxReadings]
  BY DEF AuditTypeOK, RecordTypeOK
<1>3. bundle' \in [Doc -> {Nothing} \union (0 .. MaxReadings)] /\ audit' \in Operation /\ audit'.is \in {"bundling", "writing"}
  <2>1. CASE MakeBundle
    <3>1. audit.is = "bundling" /\ audit.held \subseteq Doc /\ audit.left \subseteq Doc /\ audit.left # {}
      BY <2>1, OperationFields DEF MakeBundle
    <3>2. PICK d \in audit.left :
            /\ audit' = [is |-> IF bundle[d] = Nothing THEN "writing" ELSE "bundling",
                         held |-> audit.held, left |-> audit.left \ {d}, doc |-> d]
            /\ bundle' = IF bundle[d] = Nothing THEN [bundle EXCEPT ![d] = 0] ELSE bundle
      <4>1. (CHOOSE x \in audit.left : TRUE) \in audit.left
        BY <3>1
      <4> QED BY <2>1, <4>1 DEF MakeBundle
    <3>3. audit' \in [is : {"bundling", "writing"}, held : SUBSET Doc, left : SUBSET Doc, doc : Doc]
      BY <3>1, <3>2
    <3>4. bundle' \in [Doc -> {Nothing} \union (0 .. MaxReadings)]
      <4>1. 0 \in {Nothing} \union (0 .. MaxReadings) /\ d \in Doc
        BY <3>1, RecordAssumption
      <4>2. [bundle EXCEPT ![d] = 0] \in [Doc -> {Nothing} \union (0 .. MaxReadings)]
        BY <1>2, <4>1
      <4> QED BY <1>2, <3>2, <4>2
    <3> QED BY <3>3, <3>4 DEF Operation
  <2>2. CASE FillBundle
    <3>1. audit.held \subseteq Doc /\ audit.left \subseteq Doc /\ audit.doc \in Doc
      BY <2>2, OperationFields DEF FillBundle
    <3>2. audit' = [is |-> "bundling", held |-> audit.held, left |-> audit.left]
      BY <2>2 DEF FillBundle
    <3>3. audit' \in [is : {"bundling"}, held : SUBSET Doc, left : SUBSET Doc]
      BY <3>1, <3>2
    <3>4. bundle' \in [Doc -> {Nothing} \union (0 .. MaxReadings)]
      BY <1>2, <2>2, <3>1 DEF FillBundle
    <3> QED BY <3>3, <3>4 DEF Operation
  <2> QED BY <2>1, <2>2
<1>4. AuditTypes'
  BY <1>1, <1>3 DEF AuditTypeOK, RecordTypeOK
<1>5. Covers(report)'
  BY <1>1 DEF ReportsCover, Covers
<1> QED BY <1>3, <1>4, <1>5 DEF SampleFits, VerdictIsBound, ReportsCover, OfferStands, InHand

(* A verdict, up to the history.                                           *)
LEMMA VerdictStepKeeps ==
  ASSUME AuditInv,
         \/ \E d \in Doc, pass, critical \in BOOLEAN : BeginVerdict(d, pass, critical)
         \/ LockVerdict
         \/ VoidReport
  PROVE  AuditInv'
<1> USE DEF AuditInv, AuditTypes
<1>1. UNCHANGED <<live, busy, count, parsed, stamp, history, lots, bundle>>
  BY DEF BeginVerdict, LockVerdict, VoidReport, records, recordVars
<1>2. live \in [Doc -> 0 .. MaxReadings] /\ Void \in Report /\ ~Void.complete
  BY DEF AuditTypeOK, RecordTypeOK, Void, Report
<1>3. ASSUME NEW d \in Doc, NEW pass \in BOOLEAN, NEW critical \in BOOLEAN, BeginVerdict(d, pass, critical)
      PROVE  AuditInv'
  <2>1. /\ audit' = [is |-> IF live[d] = 0 THEN "deciding" ELSE "reviewing", doc |-> d,
                     attempt |-> live[d], pass |-> pass, critical |-> critical]
        /\ Len(history) < MaxVerdicts /\ (live[d] # 0 => BundleMatches(d)) /\ report' = report
    BY <1>3 DEF BeginVerdict
  <2>2. audit' \in [is : InHand, doc : Doc, attempt : 0 .. MaxReadings, pass : BOOLEAN, critical : BOOLEAN]
    BY <1>2, <2>1 DEF InHand
  <2>3. audit' \in Operation
    BY <2>2 DEF Operation
  <2>4. AuditTypes' /\ Covers(report)'
    BY <1>1, <2>1, <2>3 DEF AuditTypeOK, RecordTypeOK, ReportsCover, Covers
  <2>5. VerdictIsBound'
    BY <1>1, <2>1 DEF VerdictIsBound, BundleMatches
  <2>6. audit'.is \in {"deciding", "reviewing"}
    BY <2>1
  <2> QED BY <2>4, <2>5, <2>6 DEF SampleFits, ReportsCover, OfferStands
<1>4. CASE LockVerdict
  <2>1. CASE live[audit.doc] # audit.attempt
    BY <1>1, <1>4, <2>1, FreeIsOperation, OperationMoves DEF LockVerdict, InHand
  <2>2. CASE live[audit.doc] = audit.attempt
    <3>1. /\ audit.is = "reviewing" /\ audit.doc \notin busy /\ audit' = [audit EXCEPT !.is = "deciding"]
          /\ report' = report
      BY <1>4, <2>2 DEF LockVerdict
    <3>2. /\ audit' \in [is : InHand, doc : Doc, attempt : 0 .. MaxReadings, pass : BOOLEAN, critical : BOOLEAN]
          /\ audit'.is = "deciding" /\ audit'.doc = audit.doc /\ audit'.attempt = audit.attempt
      BY <3>1, OperationFields DEF InHand
    <3>3. audit' \in Operation
      BY <3>2 DEF Operation
    <3>4. AuditTypes' /\ Covers(report)'
      BY <1>1, <3>1, <3>3 DEF AuditTypeOK, RecordTypeOK, ReportsCover, Covers
    <3>5. VerdictIsBound'
      BY <1>1, <2>2, <3>1, <3>2 DEF VerdictIsBound, InHand
    <3> QED BY <3>2, <3>4, <3>5 DEF SampleFits, ReportsCover, OfferStands
  <2> QED BY <2>1, <2>2
<1>5. CASE VoidReport
  <2>1. /\ audit.is = "deciding" /\ report' = Void
        /\ audit' = [audit EXCEPT !.is = IF audit.attempt = 0 THEN "stamped" ELSE "voided"]
    BY <1>5 DEF VoidReport
  <2>2. /\ audit' \in [is : InHand, doc : Doc, attempt : 0 .. MaxReadings, pass : BOOLEAN, critical : BOOLEAN]
        /\ audit'.is = (IF audit.attempt = 0 THEN "stamped" ELSE "voided")
        /\ audit'.doc = audit.doc /\ audit'.attempt = audit.attempt
    BY <2>1, OperationFields DEF InHand
  <2>3. audit' \in Operation
    BY <2>2 DEF Operation
  <2>4. AuditTypes'
    BY <1>1, <1>2, <2>1, <2>3 DEF AuditTypeOK, RecordTypeOK
  <2>5. VerdictIsBound'
    BY <1>1, <2>1, <2>2 DEF VerdictIsBound, InHand
  <2>6. audit'.is \in {"voided", "stamped"} /\ ~report'.complete
    BY <1>2, <2>1, <2>2
  <2> QED BY <2>4, <2>5, <2>6 DEF SampleFits, ReportsCover, Covers, OfferStands
<1> QED BY <1>3, <1>4, <1>5

LEMMA StampRecordKeeps ==
  ASSUME AuditInv, StampRecord
  PROVE  /\ AuditInv'
         /\ \A d \in Doc : stamp'[d] \notin {stamp[d], "none"} => audit.attempt = live'[d]
<1> USE DEF AuditInv, AuditTypes
<1>1. /\ UNCHANGED <<live, busy, count, parsed, history, lots, bundle, report>>
      /\ audit.is = "voided" /\ audit' = [audit EXCEPT !.is = "stamped"]
      /\ stamp' = [stamp EXCEPT ![audit.doc] = IF audit.pass THEN "pass" ELSE "fail"]
  BY DEF StampRecord, records, recordVars
<1>2. /\ audit.doc \in Doc /\ audit.attempt # 0 /\ live[audit.doc] = audit.attempt
      /\ audit' \in [is : InHand, doc : Doc, attempt : 0 .. MaxReadings, pass : BOOLEAN, critical : BOOLEAN]
      /\ audit'.is = "stamped" /\ audit'.doc = audit.doc /\ audit'.attempt = audit.attempt
  BY <1>1, OperationFields DEF VerdictIsBound, InHand
<1>3. /\ stamp' \in [Doc -> {"none", "pass", "fail"}]
      /\ \A e \in Doc : e # audit.doc => stamp'[e] = stamp[e]
  BY <1>1 DEF AuditTypeOK
<1>4. audit' \in Operation
  BY <1>2 DEF Operation
<1>5. AuditTypes'
  BY <1>1, <1>2, <1>3, <1>4 DEF AuditTypeOK, RecordTypeOK
<1>6. VerdictIsBound' /\ ReportsCover'
  BY <1>1, <1>2 DEF VerdictIsBound, ReportsCover, Covers, InHand
<1>7. \A d \in Doc : stamp'[d] \notin {stamp[d], "none"} => audit.attempt = live'[d]
  BY <1>1, <1>2, <1>3
<1> QED BY <1>2, <1>5, <1>6, <1>7 DEF SampleFits, OfferStands

LEMMA AppendVerdictKeeps ==
  ASSUME AuditInv, AppendVerdict
  PROVE  /\ AuditInv'
         /\ Last(history').attempt = 0 \/ bundle[Last(history').doc] \in {Nothing, 0, Last(history').attempt}
<1> USE DEF AuditInv, AuditTypes
<1> DEFINE e == [doc |-> audit.doc, pass |-> audit.pass, critical |-> audit.critical, attempt |-> audit.attempt]
<1>1. /\ UNCHANGED <<live, busy, count, parsed, stamp, lots, bundle, report>>
      /\ audit.is = "stamped" /\ audit' = Free /\ history' = Append(history, e)
  BY DEF AppendVerdict, records, recordVars
<1>2. e \in Verdict /\ history \in Seq(Verdict) /\ Len(history) \in Nat /\ Len(history) < MaxVerdicts
  BY <1>1, OperationFields DEF Verdict, AuditTypeOK, VerdictIsBound, InHand
<1>3. audit.attempt # 0 => bundle[audit.doc] \in {Nothing, 0, audit.attempt}
  BY <1>1 DEF VerdictIsBound, InHand
<1>4. e.doc = audit.doc /\ e.attempt = audit.attempt
  OBVIOUS
<1> HIDE DEF e
<1>5. /\ history' \in Seq(Verdict) /\ Len(history') = Len(history) + 1 /\ history'[Len(history')] = e
  BY <1>1, <1>2
<1>6. AuditTypes'
  BY <1>1, <1>2, <1>5, FreeIsOperation, AuditAssumption DEF AuditTypeOK, RecordTypeOK
<1>7. ~report.complete
  BY <1>1 DEF ReportsCover
<1>8. Last(history') = e
  BY <1>5 DEF Last
<1> QED BY <1>1, <1>3, <1>4, <1>6, <1>7, <1>8, FreeIsOperation
     DEF SampleFits, VerdictIsBound, ReportsCover, Covers, OfferStands, InHand

(* What a report accepts: the bound is no less than what the sample shows. *)
LEMMA AcceptedRate ==
  ASSUME NEW seed \in Seed, lots[seed] \in Lot, Assess(seed).met
  PROVE  RateLimit * Cardinality({d \in lots[seed].docs : Critical(d)}) <= Cardinality(lots[seed].frame)
<1>1. PICK lot \in Lot : lot = lots[seed]
  OBVIOUS
<1>2. lot.docs \subseteq lot.frame /\ lot.frame \subseteq Doc /\ IsFiniteSet(Doc) /\ RateLimit \in Nat
  BY <1>1, AuditAssumption DEF Lot, AuditAssumption
<1>3. PICK wrong : wrong = {d \in lot.docs : Critical(d)}
  OBVIOUS
<1>4. PICK found : found = [c \in Cell |-> Cardinality({d \in Group(lot.docs)[c] : Critical(d)})]
  OBVIOUS
<1>5. RateLimit * UpperTotal(DesignOf(lot), found) <= Cardinality(lot.frame)
  BY <1>1, <1>4 DEF Assess
<1>6. IsFiniteSet(lot.docs) /\ IsFiniteSet(lot.frame) /\ IsFiniteSet(wrong)
  <2>1. lot.docs \in SUBSET Doc /\ lot.frame \in SUBSET Doc /\ wrong \in SUBSET Doc
    BY <1>2, <1>3
  <2> QED BY <1>2, <2>1, FS_Subset
<1>7. \A c \in Cell : /\ Group(lot.docs)[c] \in SUBSET lot.docs /\ Group(lot.frame)[c] \in SUBSET lot.frame
                      /\ Group(lot.docs)[c] \in SUBSET Group(lot.frame)[c]
  BY <1>2 DEF Group
<1>8. ASSUME NEW c \in Cell
      PROVE  /\ Cardinality(Group(lot.docs)[c]) \in Nat /\ Cardinality(Group(lot.frame)[c]) \in Nat
             /\ Cardinality(Group(lot.docs)[c]) <= Cardinality(Group(lot.frame)[c])
             /\ IsFiniteSet({d \in Group(lot.docs)[c] : Critical(d)})
             /\ found[c] \in Nat /\ found[c] <= Cardinality(Group(lot.docs)[c])
  <2>1. IsFiniteSet(Group(lot.docs)[c]) /\ IsFiniteSet(Group(lot.frame)[c])
    BY <1>6, <1>7, FS_Subset
  <2> DEFINE some == {d \in Group(lot.docs)[c] : Critical(d)}
  <2>2. some \in SUBSET Group(lot.docs)[c] /\ found[c] = Cardinality(some)
    BY <1>4
  <2>3. some = {d \in Group(lot.docs)[c] : Critical(d)}
    OBVIOUS
  <2> HIDE DEF some
  <2>4. IsFiniteSet(some) /\ Cardinality(some) <= Cardinality(Group(lot.docs)[c])
    BY <2>1, <2>2, FS_Subset
  <2>5. Cardinality(Group(lot.docs)[c]) <= Cardinality(Group(lot.frame)[c])
    BY <1>7, <2>1, FS_Subset
  <2> QED BY <2>1, <2>2, <2>3, <2>4, <2>5, FS_CardinalityType
<1>9. PICK d : d = DesignOf(lot)
  OBVIOUS
<1>10. d \in [Cell -> Sampled] /\ \A c \in Cell : d[c].draws = Cardinality(Group(lot.docs)[c])
  <2>1. ASSUME NEW c \in Cell PROVE d[c] \in Sampled /\ d[c].draws = Cardinality(Group(lot.docs)[c])
    <3>1. d[c] = [population |-> Cardinality(Group(lot.frame)[c]), draws |-> Cardinality(Group(lot.docs)[c])]
      BY <1>9 DEF DesignOf
    <3>2. PICK a \in Nat : a = Cardinality(Group(lot.frame)[c])
      BY <1>8
    <3>3. PICK b \in Nat : b = Cardinality(Group(lot.docs)[c])
      BY <1>8
    <3>4. b <= a
      BY <1>8, <3>2, <3>3
    <3>5. d[c] = [population |-> a, draws |-> b]
      BY <3>1, <3>2, <3>3
    <3>6. d[c] \in Sampled /\ d[c].draws = b
      BY <3>4, <3>5 DEF Sampled
    <3> QED BY <3>3, <3>6
  <2>2. d = [c \in Cell |-> d[c]]
    BY <1>9 DEF DesignOf
  <2> QED BY <2>1, <2>2
<1>11. PICK upper : upper = [c \in Cell |-> StratumBound(d[c], found[c], TailOf(d))]
  OBVIOUS
<1>12. ASSUME NEW c \in Cell PROVE upper[c] \in Nat /\ found[c] <= upper[c]
  <2>1. d[c] \in Sampled /\ found[c] \in 0 .. d[c].draws
    <3>1. PICK a \in Nat : a = found[c]
      BY <1>8
    <3>2. PICK b \in Nat : b = Cardinality(Group(lot.docs)[c])
      BY <1>8
    <3>3. a <= b
      BY <1>8, <3>1, <3>2
    <3>4. a \in 0 .. b
      BY <3>3
    <3>5. d[c].draws = b /\ d[c] \in Sampled
      BY <1>10, <3>2
    <3> QED BY <3>1, <3>4, <3>5
  <2>2. TailOf(d) \in Nat /\ TailOf(d) >= 1
    BY <1>10, TailIs
  <2>3. StratumBound(d[c], found[c], TailOf(d)) \in Nat /\ found[c] <= StratumBound(d[c], found[c], TailOf(d))
    BY <2>1, <2>2, BoundIsAtLeast
  <2> QED BY <1>11, <2>3
<1>13. found \in [Cell -> Nat] /\ upper \in [Cell -> Nat]
  BY <1>4, <1>8, <1>11, <1>12
<1>14. Total(found) <= Total(upper) /\ Total(found) \in Nat /\ Total(upper) \in Nat
  BY <1>12, <1>13, TotalGrows, TotalIsNat
<1>15. Total(upper) = UpperTotal(DesignOf(lot), found)
  BY <1>9, <1>11 DEF UpperTotal
<1>16. Total(found) = Cardinality(wrong)
  <2> DEFINE part(c) == {x \in Group(lot.docs)[c] : Critical(x)}
  <2>1. "flagged" \in Cell /\ "unflagged" \in Cell /\ Cell = {"flagged", "unflagged"}
    BY AuditAssumption DEF AuditAssumption
  <2>2. Total(found) = found["flagged"] + found["unflagged"]
    <3>1. "flagged" # "unflagged"
      OBVIOUS
    <3> QED BY <1>13, <2>1, <3>1, TotalOfTwo
  <2>3. found["flagged"] = Cardinality(part("flagged")) /\ found["unflagged"] = Cardinality(part("unflagged"))
    BY <1>4, <2>1
  <2>4. IsFiniteSet(part("flagged")) /\ IsFiniteSet(part("unflagged"))
    BY <1>8, <2>1
  <2>5. part("flagged") \union part("unflagged") = wrong /\ part("flagged") \intersect part("unflagged") = {}
    <3>1. /\ Group(lot.docs)["flagged"] = lot.docs \intersect Flagged
          /\ Group(lot.docs)["unflagged"] = lot.docs \ Flagged
      BY <2>1 DEF Group
    <3> QED BY <1>3, <3>1
  <2> HIDE DEF part
  <2>6. Cardinality(wrong) = Cardinality(part("flagged")) + Cardinality(part("unflagged")) - Cardinality({})
    BY <2>4, <2>5, FS_Union
  <2>7. Cardinality({}) = 0
    BY FS_EmptySet
  <2>8. Cardinality(part("flagged")) \in Nat /\ Cardinality(part("unflagged")) \in Nat
    BY <2>4, FS_CardinalityType
  <2> QED BY <2>2, <2>3, <2>6, <2>7, <2>8
<1>17. PICK a \in Nat : a = Cardinality(wrong)
  BY <1>14, <1>16
<1>18. PICK b \in Nat : b = Total(upper)
  BY <1>14
<1>19. PICK rate \in Nat : rate = RateLimit
  BY <1>2
<1>20. PICK size \in Nat : size = Cardinality(lot.frame)
  BY <1>6, FS_CardinalityType
<1>21. a <= b /\ rate * b <= size
  BY <1>5, <1>14, <1>15, <1>16, <1>17, <1>18, <1>19, <1>20
<1>22. rate * a <= rate * b
  <2>1. PICK r \in Nat : b = a + r
    <3>1. b - a \in Nat /\ b = a + (b - a)
      BY <1>21
    <3> QED BY <3>1
  <2>2. rate * b = rate * a + rate * r /\ rate * r \in Nat /\ rate * a \in Nat
    BY <2>1
  <2> QED BY <2>2
<1>23. rate * a <= size
  <2>1. rate * a \in Nat /\ rate * b \in Nat
    OBVIOUS
  <2> QED BY <1>21, <1>22, <2>1
<1> QED BY <1>1, <1>3, <1>17, <1>19, <1>20, <1>23

(* A report is complete only when the sample it is about has been judged.  *)
LEMMA ReportingKeeps ==
  ASSUME AuditInv, WriteReport \/ \E seed \in Seed : BeginReport(seed)
  PROVE  AuditInv'
<1> USE DEF AuditInv, AuditTypes
<1>1. UNCHANGED <<live, busy, count, parsed, stamp, history, lots, bundle>>
  BY DEF WriteReport, BeginReport, records, recordVars
<1>2. CASE WriteReport
  <2>1. audit.is = "reporting" /\ report' = audit.result /\ audit' = Free
    BY <1>2 DEF WriteReport
  <2>2. report' \in Report /\ Covers(report)'
    BY <1>1, <2>1, OperationFields DEF ReportsCover, Covers
  <2>3. AuditTypes'
    BY <1>1, <2>1, <2>2, FreeIsOperation DEF AuditTypeOK, RecordTypeOK
  <2> QED BY <2>1, <2>2, <2>3, FreeIsOperation DEF SampleFits, VerdictIsBound, ReportsCover, OfferStands, InHand
<1>3. ASSUME NEW seed \in Seed, BeginReport(seed) PROVE AuditInv'
  <2>1. PICK r : r = (IF lots[seed] = Nothing THEN Void ELSE Assess(seed))
    OBVIOUS
  <2>2. audit' = [is |-> "reporting", result |-> r] /\ UNCHANGED <<records, stamp, history, lots, bundle, report>>
    BY <1>3, <2>1 DEF BeginReport
  <2>3. r \in Report /\ Covers(r)
    <3>1. CASE lots[seed] = Nothing
      BY <2>1, <3>1 DEF Void, Report, Covers
    <3>2. CASE lots[seed] # Nothing
      <4>1. r = Assess(seed) /\ history \in Seq(Verdict)
        BY <2>1, <3>2 DEF AuditTypeOK
      <4>2. r \in Report /\ r.of = history /\ r.seed = seed
        BY <4>1 DEF Assess, Report
      <4>3. r.complete => lots[seed].docs # {} /\ \A d \in lots[seed].docs : Settled(d, lots[seed])
        BY <4>1 DEF Assess
      <4>4. ASSUME NEW d, Settled(d, lots[seed]) PROVE \E e \in Range(history) : e.doc = d
        BY <4>4 DEF Settled, Failed, On
      <4>5. ASSUME r.met
            PROVE  RateLimit * Cardinality({d \in lots[seed].docs : \E e \in Range(history) :
                                              e.doc = d /\ ~e.pass /\ e.critical}) <= Cardinality(lots[seed].frame)
        <5>1. lots[seed] \in Lot /\ Assess(seed).met
          BY <3>2, <4>1, <4>5 DEF AuditTypeOK
        <5>2. RateLimit * Cardinality({d \in lots[seed].docs : Critical(d)}) <= Cardinality(lots[seed].frame)
          BY <5>1, AcceptedRate
        <5>3. {d \in lots[seed].docs : Critical(d)} =
                {d \in lots[seed].docs : \E e \in Range(history) : e.doc = d /\ ~e.pass /\ e.critical}
          BY DEF Critical, On
        <5> QED BY <5>2, <5>3
      <4> QED BY <3>2, <4>2, <4>3, <4>4, <4>5 DEF Covers
    <3> QED BY <3>1, <3>2
  <2>4. audit' \in Operation
    <3>1. audit' \in [is : {"reporting"}, result : Report]
      BY <2>2, <2>3
    <3> QED BY <3>1 DEF Operation
  <2> QED BY <2>2, <2>3, <2>4, OperationMoves DEF InHand
<1> QED BY <1>2, <1>3

LEMMA OfferKeeps ==
  ASSUME AuditInv, NEW d \in Doc, Offer(d)
  PROVE  AuditInv'
<1> USE DEF AuditInv, AuditTypes
<1>1. /\ UNCHANGED <<live, busy, count, parsed, stamp, history, lots, bundle, report>>
      /\ audit' = [is |-> "offering", doc |-> d, attempt |-> live[d]]
      /\ report.complete /\ report.met /\ BoundByVerdict(d) /\ d \notin busy
  BY DEF Offer, GateOpen, records, recordVars
<1>2. audit' \in [is : {"offering"}, doc : Doc, attempt : 0 .. MaxReadings]
  BY <1>1 DEF AuditTypeOK, RecordTypeOK
<1>3. audit' \in Operation
  BY <1>2 DEF Operation
<1>4. AuditTypes' /\ Covers(report)'
  BY <1>1, <1>3 DEF AuditTypeOK, RecordTypeOK, ReportsCover, Covers
<1> QED BY <1>1, <1>4 DEF SampleFits, VerdictIsBound, ReportsCover, OfferStands, BoundByVerdict, On, InHand

LEMMA AuditSteps ==
  ASSUME AuditInv, [AuditNext]_<<records, stamp, history, lots, bundle, report, audit>>
  PROVE  AuditInv'
<1>1. CASE UNCHANGED <<records, stamp, history, lots, bundle, report, audit>>
  BY <1>1 DEF records, recordVars, AuditInv, AuditTypes, AuditTypeOK, RecordTypeOK, SampleFits, VerdictIsBound,
     ReportsCover, Covers, OfferStands, BoundByVerdict, On
<1>2. CASE AuditStep
  BY <1>2, BeginSampleKeeps, FreezeLotKeeps, BundlingKeeps, EndingKeeps, VerdictStepKeeps, StampRecordKeeps,
     AppendVerdictKeeps, ReportingKeeps, OfferKeeps DEF AuditStep
<1> QED BY <1>1, <1>2, StagerKeeps DEF AuditNext

(* Whoever dies when, and whatever is read meanwhile: a report in force    *)
(* covers the whole history, and what promotion offers has passed, on the  *)
(* reading it has, within a sample that was judged and in which critical   *)
(* failures, none of them undone, are within the accepted rate.            *)
THEOREM OffersAreJudged == AuditSpec => []GateIsSound
<1>1. AuditInv => AuditTypeOK /\ ReportIsCurrent /\ OfferedIsJudged
  BY DEF AuditInv, AuditTypes, ReportsCover, Covers, ReportIsCurrent, OfferStands, OfferedIsJudged, BoundByVerdict, On
<1>2. AuditInv => RateIsKept
  BY DEF AuditInv, ReportsCover, Covers, OfferStands, RateIsKept
<1>3. AuditInv => GateIsSound
  BY <1>1, <1>2 DEF GateIsSound
<1> QED BY <1>3, AuditStarts, AuditSteps, PTL DEF AuditSpec

(* What reviewers did stays bound to what they saw: a step stamps only the *)
(* reading that was judged, replaces no sample, and adds to the history    *)
(* only what was said about pixels of its reading.                         *)
LEMMA StepsAreBound ==
  ASSUME AuditInv, [AuditNext]_<<records, stamp, history, lots, bundle, report, audit>>
  PROVE  /\ \A d \in Doc : stamp'[d] \notin {stamp[d], "none"} => audit.attempt = live'[d]
         /\ \A s \in Seed : lots[s] # Nothing => lots'[s] = lots[s]
         /\ Len(history') > Len(history) =>
              LET e == Last(history') IN
              e.attempt = 0 \/ bundle[e.doc] \in {Nothing, 0, e.attempt}
<1>1. CASE stamp' = stamp /\ lots' = lots /\ history' = history
  BY <1>1 DEF AuditInv, AuditTypes, AuditTypeOK
<1>2. CASE StampRecord
  BY <1>2, StampRecordKeeps DEF StampRecord, AuditInv, AuditTypes, AuditTypeOK
<1>3. CASE FreezeLot
  BY <1>3, FreezeLotKeeps DEF FreezeLot, AuditInv, AuditTypes, AuditTypeOK
<1>4. CASE AppendVerdict
  BY <1>4, AppendVerdictKeeps DEF AppendVerdict
<1>5. ASSUME NEW d \in Doc, StagerStep(d)
      PROVE  /\ lots' = lots /\ history' = history
             /\ \A e \in Doc : stamp'[e] \in {stamp[e], "none"}
  BY <1>5 DEF StagerStep, AuditInv, AuditTypes, AuditTypeOK
<1>6. history \in Seq(Verdict)
  BY DEF AuditInv, AuditTypes, AuditTypeOK
<1>7. CASE \E d \in Doc : StagerStep(d)
  BY <1>5, <1>6, <1>7
<1> QED BY <1>1, <1>2, <1>3, <1>4, <1>7
     DEF AuditNext, AuditStep, BeginSample, MakeBundle, FillBundle, EndSample, Offer, BeginVerdict, LockVerdict,
         VoidReport, BeginReport, WriteReport, InsertRefused, AuditDies

THEOREM VerdictsStayBound == AuditSpec => VerdictsAreBound
<1>1. AuditInv /\ [AuditNext]_<<records, stamp, history, lots, bundle, report, audit>> =>
        /\ [\A d \in Doc : stamp'[d] \notin {stamp[d], "none"} => audit.attempt = live'[d]]_auditVars
        /\ [\A s \in Seed : lots[s] # Nothing => lots'[s] = lots[s]]_auditVars
        /\ [Len(history') > Len(history) =>
              LET e == Last(history') IN
              e.attempt = 0 \/ bundle[e.doc] \in {Nothing, 0, e.attempt}]_auditVars
  BY StepsAreBound
<1> QED BY <1>1, AuditStarts, AuditSteps, PTL
     DEF AuditSpec, VerdictsAreBound, StampsWereReviewed, LotsAreFrozen, VerdictsAreOnThePixels

-----------------------------------------------------------------------------
(* The staging root of local OCR.                                          *)

(* The steps of a publication that are under the lock.                     *)
Locked == {"owner", "rows", "archived"}

RunnerState ==
  [at : {"idle", "read", "staged", "editing"} \union Locked, script : Script \union {Nil},
   doc : Scan \union {Nil}, of : 0 .. MaxPdf, result : Envelope \union {Nil}]

SweepTypes ==
  /\ pdf \in [Scan -> 1 .. MaxPdf]
  /\ marker \in Script \union {Nil} /\ holder \in Runner \union {Nil}
  /\ envelopes \in [Scan -> Envelope \union {Nil}]
  /\ ingested \in [Scan -> Envelope \union {Nil}]
  /\ published \subseteq [doc : Scan, was : Envelope]
  /\ listing \in Manifest \union {Nil} /\ consumer \in Manifest \union {Nil}
  /\ runner \in [Runner -> RunnerState]

(* What a process has in hand, at each step.                               *)
RunnerReady(r) ==
  /\ runner[r].at \in {"read", "staged"} \union Locked => runner[r].script \in Script /\ runner[r].doc \in Scan
  /\ runner[r].at = "read" => runner[r].of \in 1 .. MaxPdf
  /\ runner[r].at \in Locked \union {"editing"} => holder = r
  /\ runner[r].at = "editing" => runner[r].script = "local"
  /\ runner[r].at \in Locked => runner[r].result \in Envelope /\ runner[r].result.evident
  /\ runner[r].at \in {"rows", "archived"} => RowsFile(runner[r].doc, runner[r].result) \in rowsFiles
  /\ runner[r].at = "archived" =>
       \/ envelopes[runner[r].doc] = Nil
       \/ [doc |-> runner[r].doc, was |-> envelopes[runner[r].doc]] \in attempts
  /\ runner[r].at = "staged" => envelopes[runner[r].doc] # Nil
  /\ runner[r].at \in {"idle", "read"} => holder # r

RunnersAreReady == \A r \in Runner : RunnerReady(r)

(* All that the root has is of one producer, and so is what is under way   *)
(* in it.                                                                  *)
ProducedBy(s) ==
  /\ marker \in {Nil, s}
  /\ listing # Nil => listing.by = s
  /\ \A d \in Scan : envelopes[d] # Nil => envelopes[d].by = s
  /\ \A r \in Runner :
       /\ runner[r].at \in {"staged", "editing"} \union Locked => runner[r].script = s
       /\ runner[r].at \in Locked \union {"editing"} => marker = s
       /\ runner[r].at \in Locked => runner[r].result.by = s

OneProducer == \E s \in Script : ProducedBy(s)

(* Whoever left rows left its name.                                        *)
RowsAreOwned == rowsFiles # {} => marker # Nil \/ \E d \in Scan : envelopes[d] # Nil

EnvelopesArePublished ==
  \A d \in Scan : envelopes[d] # Nil => [doc |-> d, was |-> envelopes[d]] \in published

SweepInv ==
  /\ SweepTypes /\ RunnersAreReady /\ OneProducer /\ RowsAreOwned /\ EnvelopesArePublished
  /\ EnvelopesAreWhole /\ StatusIsEvident /\ IngestedIsResolved /\ ListedWasPublished

(* Whatever the pages show, a reading is settled only by what is on them.  *)
LEMMA ReadIsEvident ==
  ASSUME NEW script \in Script, NEW version \in 1 .. MaxPdf, NEW e \in Read(script, version)
  PROVE  e \in Envelope /\ e.by = script /\ e.evident
<1>1. CASE script = "local"
  <2>1. PICK pages \in [Page -> Kind], dated \in BOOLEAN, member \in BOOLEAN, cascade \in BOOLEAN :
          e = Staged("local", LocalStatus(pages, dated, member, cascade), LocalRows(pages, cascade),
                     pages, dated, version)
    BY <1>1 DEF Read
  <2> DEFINE status == LocalStatus(pages, dated, member, cascade)
  <2>2. status \in Status
    BY DEF LocalStatus, Status
  <2>3. Evident(status, pages, dated) = TRUE
    <3>1. CASE status = "resolved"
      BY <3>1 DEF LocalStatus, Evident
    <3>2. CASE status = "no_txs"
      <4>1. Of("nothing", pages) = Page
        BY <3>2 DEF LocalStatus
      <4> QED BY <3>2, <4>1 DEF Evident, Of
    <3>3. CASE status = "unresolved"
      BY <3>3 DEF Evident
    <3>4. status \in {"resolved", "no_txs", "unresolved"}
      BY DEF LocalStatus
    <3> QED BY <3>1, <3>2, <3>3, <3>4
  <2>4. LocalRows(pages, cascade) \in BOOLEAN
    BY DEF LocalRows
  <2> HIDE DEF status
  <2> QED BY <1>1, <2>1, <2>2, <2>3, <2>4 DEF Staged, Envelope, status, Script
<1>2. CASE script = "scan"
  <2>1. PICK pages \in [Page -> Kind \ {"void"}], dated \in BOOLEAN, missed \in BOOLEAN :
          e = Staged("scan", ScanStatus(pages, dated, missed), Of("rows", pages) # {}, pages, dated, version)
    BY <1>2 DEF Read, Script
  <2> DEFINE status == ScanStatus(pages, dated, missed)
  <2>2. status \in Status
    BY DEF ScanStatus, Status
  <2>3. Evident(status, pages, dated) = TRUE
    <3>1. CASE status = "resolved"
      BY <3>1 DEF ScanStatus, Evident
    <3>2. CASE status = "no_transactions"
      <4>1. Of("unread", pages) = {} /\ Of("rows", pages) = {}
        BY <3>2 DEF ScanStatus
      <4>2. \A p \in Page : pages[p] \in {"nothing", "cover"}
        BY <4>1 DEF Of, Kind
      <4> QED BY <3>2, <4>2 DEF Evident
    <3>3. CASE status = "unresolved"
      BY <3>3 DEF Evident
    <3>4. status \in {"resolved", "no_transactions", "unresolved"}
      BY DEF ScanStatus
    <3> QED BY <3>1, <3>2, <3>3, <3>4
  <2> HIDE DEF status
  <2> QED BY <1>2, <2>1, <2>2, <2>3 DEF Staged, Envelope, status, Script
<1> QED BY <1>1, <1>2 DEF Script

(* A reclassification changes no more than the status.                     *)
LEMMA ReclassifiedIsLike ==
  ASSUME NEW e \in Envelope
  PROVE  /\ Reclassified(e) \in Envelope
         /\ Reclassified(e).by = e.by /\ Reclassified(e).pdf = e.pdf /\ Reclassified(e).rows = e.rows
         /\ e.evident \/ e = Legacy(FALSE) => Reclassified(e).evident
<1>1. CASE e.status = "no_txs" /\ ~e.nothing
  BY <1>1 DEF Reclassified, Envelope, Status
<1>2. CASE e.status = "unresolved" /\ e.marked /\ e.nothing
  <2>1. e # Legacy(FALSE)
    BY <1>2 DEF Legacy
  <2> QED BY <1>2, <2>1 DEF Reclassified, Envelope, Status
<1>3. CASE ~(e.status = "no_txs" /\ ~e.nothing) /\ ~(e.status = "unresolved" /\ e.marked /\ e.nothing)
  <2>1. Reclassified(e) = e
    BY <1>3 DEF Reclassified
  <2>2. e # Legacy(FALSE)
    BY <1>3 DEF Legacy
  <2> QED BY <2>1, <2>2
<1> QED BY <1>1, <1>2, <1>3

LEMMA SweepStarts == SweepInit => SweepInv
<1> SUFFICES ASSUME SweepInit PROVE SweepInv
  OBVIOUS
<1> USE NilAssumption
<1>1. Legacy(TRUE) \in Envelope /\ Legacy(FALSE) \in Envelope
  BY SweepAssumption DEF Legacy, Envelope, Script, Status
<1>2. /\ Legacy(TRUE).by = "local" /\ Legacy(FALSE).by = "local"
      /\ Legacy(TRUE).evident
  BY DEF Legacy
<1>3. \A d \in Scan : envelopes[d] # Nil => envelopes[d] \in {Legacy(TRUE), Legacy(FALSE)}
  BY DEF SweepInit
<1>4. \A r \in Runner : runner[r] = Resting /\ runner[r].at = "idle"
  BY DEF SweepInit, Resting
<1>5. SweepTypes
  <2>1. pdf \in [Scan -> 1 .. MaxPdf] /\ ingested \in [Scan -> Envelope \union {Nil}]
    BY SweepAssumption DEF SweepInit
  <2>2. envelopes \in [Scan -> Envelope \union {Nil}]
    BY <1>1 DEF SweepInit
  <2>3. published \subseteq [doc : Scan, was : Envelope]
    <3> SUFFICES ASSUME NEW e \in published PROVE e \in [doc : Scan, was : Envelope]
      OBVIOUS
    <3>1. PICK d \in Scan : envelopes[d] # Nil /\ e = [doc |-> d, was |-> envelopes[d]]
      BY DEF SweepInit
    <3> QED BY <1>1, <1>3, <3>1
  <2>4. Resting \in RunnerState
    BY SweepAssumption DEF Resting, RunnerState
  <2> QED BY <2>1, <2>2, <2>3, <2>4 DEF SweepInit, SweepTypes
<1>6. RunnersAreReady
  BY <1>4 DEF SweepInit, RunnersAreReady, RunnerReady, Locked
<1>7. ProducedBy("local")
  BY <1>2, <1>3, <1>4 DEF SweepInit, ProducedBy, Locked
<1>8. RowsAreOwned
  BY DEF SweepInit, RowsAreOwned
<1>9. EnvelopesArePublished /\ EnvelopesAreWhole
  <2>1. \A e \in published : \E d \in Scan : e = [doc |-> d, was |-> envelopes[d]]
    BY DEF SweepInit
  <2>2. \A d \in Scan : envelopes[d] # Nil => [doc |-> d, was |-> envelopes[d]] \in published
    BY DEF SweepInit
  <2>3. \A e \in published : RowsFile(e.doc, e.was) \in rowsFiles
    BY DEF SweepInit
  <2>4. \A d \in Scan : envelopes[d] # Nil => RowsFile(d, envelopes[d]) \in rowsFiles
    BY <2>2, <2>3
  <2> QED BY <2>1, <2>2, <2>4 DEF EnvelopesArePublished, EnvelopesAreWhole, AllPaired, Paired
<1>10. StatusIsEvident
  BY <1>2, <1>3 DEF StatusIsEvident
<1>11. IngestedIsResolved /\ ListedWasPublished
  BY DEF SweepInit, IngestedIsResolved, ListedWasPublished
<1> QED BY <1>5, <1>6, <1>7, <1>8, <1>9, <1>10, <1>11 DEF SweepInv, OneProducer, Script

(* What holds of the files as long as they stay as they are.               *)
FilesInv ==
  /\ RowsAreOwned /\ EnvelopesArePublished
  /\ EnvelopesAreWhole /\ StatusIsEvident /\ IngestedIsResolved /\ ListedWasPublished

LEMMA FilesStay ==
  ASSUME SweepInv, UNCHANGED rootVars, UNCHANGED <<pdf, ingested>>
  PROVE  FilesInv'
BY DEF SweepInv, FilesInv, rootVars, RowsAreOwned, EnvelopesArePublished, EnvelopesAreWhole, AllPaired, Paired,
       StatusIsEvident, IngestedIsResolved, ListedWasPublished

LEMMA RestingIsState == Resting \in RunnerState
BY SweepAssumption DEF Resting, RunnerState

LEMMA ProcessDocumentKeeps ==
  ASSUME SweepInv, NEW r \in Runner, NEW script \in Script, NEW d \in Scan, ProcessDocument(r, script, d)
  PROVE  SweepInv'
<1> DEFINE e == [at |-> "read", script |-> script, doc |-> d, of |-> pdf[d], result |-> Nil]
<1>1. /\ runner' = [runner EXCEPT ![r] = e] /\ runner[r].at = "idle"
      /\ UNCHANGED rootVars /\ UNCHANGED <<pdf, ingested, holder, consumer>>
  BY DEF ProcessDocument
<1>2. e \in RunnerState /\ e.at = "read" /\ e.script = script /\ e.doc = d /\ e.of \in 1 .. MaxPdf
  BY SweepAssumption DEF RunnerState, SweepInv, SweepTypes
<1> HIDE DEF e
<1>3. SweepTypes'
  BY <1>1, <1>2 DEF SweepInv, SweepTypes, rootVars
<1>4. \A q \in Runner : runner'[q] = IF q = r THEN e ELSE runner[q]
  BY <1>1 DEF SweepInv, SweepTypes
<1>5. RunnersAreReady'
  <2> SUFFICES ASSUME NEW q \in Runner PROVE RunnerReady(q)'
    BY DEF RunnersAreReady
  <2>1. RunnerReady(q) /\ RunnerReady(r)
    BY DEF SweepInv, RunnersAreReady
  <2>2. CASE q = r
    BY <1>1, <1>2, <1>4, <2>1, <2>2 DEF RunnerReady, rootVars, Locked
  <2>3. CASE q # r
    BY <1>1, <1>4, <2>1, <2>3 DEF RunnerReady, rootVars
  <2> QED BY <2>2, <2>3
<1>6. OneProducer'
  BY <1>1, <1>2, <1>4 DEF SweepInv, OneProducer, ProducedBy, rootVars, Locked
<1> QED BY <1>1, <1>3, <1>5, <1>6, FilesStay DEF SweepInv, FilesInv

LEMMA RunnerDiesKeeps ==
  ASSUME SweepInv, NEW r \in Runner, RunnerDies(r)
  PROVE  SweepInv'
<1>1. /\ runner' = [runner EXCEPT ![r] = Resting]
      /\ holder' = IF holder = r THEN Nil ELSE holder
      /\ UNCHANGED rootVars /\ UNCHANGED <<pdf, ingested, consumer>>
  BY DEF RunnerDies
<1>2. Resting.at = "idle"
  BY DEF Resting
<1>3. SweepTypes'
  BY <1>1, RestingIsState DEF SweepInv, SweepTypes, rootVars
<1>4. \A q \in Runner : runner'[q] = IF q = r THEN Resting ELSE runner[q]
  BY <1>1 DEF SweepInv, SweepTypes
<1>5. RunnersAreReady'
  BY <1>1, <1>2, <1>4, NilAssumption DEF SweepInv, RunnersAreReady, RunnerReady, rootVars, Locked
<1>6. OneProducer'
  BY <1>1, <1>2, <1>4 DEF SweepInv, OneProducer, ProducedBy, rootVars, Locked
<1> QED BY <1>1, <1>3, <1>5, <1>6, FilesStay DEF SweepInv, FilesInv

(* Who may write into the root is its one producer, or its first.          *)
LEMMA MineIsOnly ==
  ASSUME SweepInv, NEW script \in Script, Mine(script), holder = Nil
  PROVE  /\ marker \in {Nil, script}
         /\ listing # Nil => listing.by = script
         /\ \A d \in Scan : envelopes[d] # Nil => envelopes[d].by = script
         /\ \A q \in Runner : /\ runner[q].at \in {"idle", "read", "staged"}
                              /\ runner[q].at = "staged" => runner[q].script = script
<1>1. PICK s \in Script : ProducedBy(s)
  BY DEF SweepInv, OneProducer
<1>2. \A q \in Runner : RunnerReady(q) /\ runner[q].at \in {"idle", "read", "staged"}
  BY NilAssumption DEF SweepInv, SweepTypes, RunnerState, RunnersAreReady, RunnerReady, Locked
<1>3. marker \in {Nil, script}
  BY DEF Mine, Owner
<1>4. listing # Nil => s = script
  BY <1>1 DEF Mine, Owner, ProducedBy
<1>5. ASSUME NEW d \in Scan, envelopes[d] # Nil, listing = Nil PROVE s = script
  <2>1. envelopes[d].by \in Owner
    BY <1>5 DEF Owner
  <2> QED BY <1>1, <1>5, <2>1 DEF Mine, ProducedBy
<1>6. \A d \in Scan : envelopes[d] # Nil => envelopes[d].by = script
  BY <1>1, <1>4, <1>5 DEF ProducedBy
<1>7. \A q \in Runner : runner[q].at = "staged" => runner[q].script = script
  BY <1>1, <1>2, <1>4, <1>5 DEF ProducedBy, RunnerReady
<1> QED BY <1>1, <1>2, <1>3, <1>4, <1>6, <1>7 DEF ProducedBy

LEMMA EnterRootKeeps ==
  ASSUME SweepInv, NEW r \in Runner, EnterRoot(r)
  PROVE  SweepInv'
<1>0. /\ runner[r].at = "read" /\ runner[r].script \in Script /\ runner[r].of \in 1 .. MaxPdf /\ holder = Nil
      /\ runner[r].doc \in Scan /\ runner \in [Runner -> RunnerState]
  BY DEF EnterRoot, SweepInv, SweepTypes, RunnersAreReady, RunnerReady
<1>1. CASE ~Mine(runner[r].script)
  <2>1. /\ runner' = [runner EXCEPT ![r] = Resting] /\ UNCHANGED <<rootVars, pdf, ingested, holder, consumer>>
    BY <1>1 DEF EnterRoot, rootVars
  <2>2. Resting.at = "idle"
    BY DEF Resting
  <2>3. SweepTypes'
    BY <2>1, RestingIsState DEF SweepInv, SweepTypes, rootVars
  <2>4. \A q \in Runner : runner'[q] = IF q = r THEN Resting ELSE runner[q]
    BY <1>0, <2>1
  <2>5. RunnersAreReady'
    BY <1>0, <2>1, <2>2, <2>4, NilAssumption DEF SweepInv, RunnersAreReady, RunnerReady, rootVars, Locked
  <2>6. OneProducer'
    BY <2>1, <2>2, <2>4 DEF SweepInv, OneProducer, ProducedBy, rootVars, Locked
  <2> QED BY <2>1, <2>3, <2>5, <2>6, FilesStay DEF SweepInv, FilesInv
<1>2. CASE Mine(runner[r].script)
  <2>0. PICK s \in Script : s = runner[r].script
    BY <1>0
  <2>1. PICK e \in Read(s, runner[r].of) : runner' = [runner EXCEPT ![r].at = "owner", ![r].result = e]
    BY <1>2, <2>0 DEF EnterRoot
  <2>2. /\ holder' = r /\ marker' = s
        /\ UNCHANGED <<pdf, rowsFiles, envelopes, attempts, listing, published, consumer, ingested>>
    BY <1>2, <2>0 DEF EnterRoot
  <2>3. e \in Envelope /\ e.by = s /\ e.evident
    BY <1>0, <2>0, <2>1, ReadIsEvident
  <2>4. /\ runner' \in [Runner -> RunnerState]
        /\ runner'[r].at = "owner" /\ runner'[r].script = s /\ runner'[r].doc = runner[r].doc /\ runner'[r].result = e
        /\ \A q \in Runner : q # r => runner'[q] = runner[q]
    BY <1>0, <2>0, <2>1, <2>3 DEF RunnerState, Locked
  <2>6. SweepTypes'
    BY <2>2, <2>4 DEF SweepInv, SweepTypes
  <2>7. /\ listing # Nil => listing.by = s
        /\ \A d \in Scan : envelopes[d] # Nil => envelopes[d].by = s
        /\ \A q \in Runner : /\ runner[q].at \in {"idle", "read", "staged"}
                             /\ runner[q].at = "staged" => runner[q].script = s
    BY <1>0, <1>2, <2>0, MineIsOnly
  <2>8. RunnersAreReady'
    <3> SUFFICES ASSUME NEW q \in Runner PROVE RunnerReady(q)'
      BY DEF RunnersAreReady
    <3>1. RunnerReady(q) /\ RunnerReady(r)
      BY DEF SweepInv, RunnersAreReady
    <3>2. CASE q = r
      BY <1>0, <2>0, <2>2, <2>3, <2>4, <3>2 DEF RunnerReady, Locked
    <3>3. CASE q # r
      <4>1. runner'[q] = runner[q] /\ holder' = r /\ envelopes' = envelopes
        BY <2>2, <2>4, <3>3
      <4>2. runner[q].at \in {"idle", "read", "staged"}
        BY <2>7
      <4> QED BY <3>1, <3>3, <4>1, <4>2 DEF RunnerReady, Locked
    <3> QED BY <3>2, <3>3
  <2>9. ProducedBy(s)'
    <3> SUFFICES ASSUME NEW q \in Runner
                 PROVE  /\ runner'[q].at \in {"staged", "editing"} \union Locked => runner'[q].script = s
                        /\ runner'[q].at \in Locked => runner'[q].result.by = s
      BY <2>2, <2>7 DEF ProducedBy
    <3>1. CASE q = r
      BY <2>3, <2>4, <3>1
    <3>2. CASE q # r
      BY <2>4, <2>7, <3>2 DEF Locked
    <3> QED BY <3>1, <3>2
  <2>10. FilesInv'
    <3>1. marker' # Nil
      BY <2>2, NilAssumption
    <3> QED BY <2>2, <3>1 DEF SweepInv, FilesInv, RowsAreOwned, EnvelopesArePublished, EnvelopesAreWhole, AllPaired,
              Paired, StatusIsEvident, IngestedIsResolved, ListedWasPublished
  <2> QED BY <2>6, <2>8, <2>9, <2>10 DEF SweepInv, FilesInv, OneProducer
<1> QED BY <1>1, <1>2

(* While one process has the root, the others wait or read.                *)
LEMMA OthersAreOutside ==
  ASSUME SweepInv, NEW r \in Runner, NEW q \in Runner, holder = r, q # r
  PROVE  runner[q].at \in {"idle", "read", "staged"}
BY DEF SweepInv, SweepTypes, RunnerState, RunnersAreReady, RunnerReady, Locked

LEMMA PublishRowsKeeps ==
  ASSUME SweepInv, NEW r \in Runner, PublishRows(r)
  PROVE  SweepInv'
<1> DEFINE added == RowsFile(runner[r].doc, runner[r].result)
<1>1. /\ runner[r].at = "owner" /\ runner' = [runner EXCEPT ![r].at = "rows"] /\ rowsFiles' = rowsFiles \union {added}
      /\ UNCHANGED <<pdf, envelopes, attempts, listing, marker, published, holder, consumer, ingested>>
  BY DEF PublishRows
<1>2. runner \in [Runner -> RunnerState] /\ RunnerReady(r) /\ holder = r
  BY <1>1 DEF SweepInv, SweepTypes, RunnersAreReady, RunnerReady, Locked
<1>3. /\ runner' \in [Runner -> RunnerState]
      /\ runner'[r].at = "rows" /\ runner'[r].script = runner[r].script /\ runner'[r].doc = runner[r].doc
      /\ runner'[r].result = runner[r].result
      /\ \A q \in Runner : q # r => runner'[q] = runner[q]
  BY <1>1, <1>2 DEF RunnerState, Locked
<1>4. SweepTypes'
  BY <1>1, <1>3 DEF SweepInv, SweepTypes
<1>5. RunnersAreReady'
  <2> SUFFICES ASSUME NEW q \in Runner PROVE RunnerReady(q)'
    BY DEF RunnersAreReady
  <2>1. CASE q = r
    <3>1. RowsFile(runner'[r].doc, runner'[r].result) \in rowsFiles'
      BY <1>1, <1>3
    <3> HIDE DEF added
    <3> QED BY <1>1, <1>2, <1>3, <2>1, <3>1 DEF RunnerReady, Locked
  <2>2. CASE q # r
    <3>1. runner'[q] = runner[q] /\ runner[q].at \in {"idle", "read", "staged"} /\ RunnerReady(q)
      BY <1>2, <1>3, <2>2, OthersAreOutside DEF SweepInv, RunnersAreReady
    <3> HIDE DEF added
    <3> QED BY <1>1, <3>1 DEF RunnerReady, Locked
  <2> QED BY <2>1, <2>2
<1> HIDE DEF added
<1>6. PICK s \in Script : ProducedBy(s)
  BY DEF SweepInv, OneProducer
<1>7. ProducedBy(s)'
  BY <1>1, <1>3, <1>6 DEF ProducedBy, Locked
<1>8. RowsAreOwned'
  <2>1. marker = s
    BY <1>1, <1>6 DEF ProducedBy, Locked
  <2> QED BY <1>1, <2>1, NilAssumption DEF RowsAreOwned
<1> QED BY <1>1, <1>4, <1>5, <1>7, <1>8 DEF SweepInv, OneProducer, EnvelopesArePublished, EnvelopesAreWhole, AllPaired,
          Paired, StatusIsEvident, IngestedIsResolved, ListedWasPublished

LEMMA ArchiveEnvelopeKeeps ==
  ASSUME SweepInv, NEW r \in Runner, ArchiveEnvelope(r)
  PROVE  SweepInv'
<1> DEFINE old == [doc |-> runner[r].doc, was |-> envelopes[runner[r].doc]]
<1>1. /\ runner[r].at = "rows" /\ runner' = [runner EXCEPT ![r].at = "archived"]
      /\ attempts' = attempts \union ({old} \ {[doc |-> runner[r].doc, was |-> Nil]})
      /\ UNCHANGED <<pdf, rowsFiles, envelopes, listing, marker, published, holder, consumer, ingested>>
  BY DEF ArchiveEnvelope
<1>2. runner \in [Runner -> RunnerState] /\ RunnerReady(r) /\ holder = r
  BY <1>1 DEF SweepInv, SweepTypes, RunnersAreReady, RunnerReady, Locked
<1>3. /\ runner' \in [Runner -> RunnerState]
      /\ runner'[r].at = "archived" /\ runner'[r].script = runner[r].script /\ runner'[r].doc = runner[r].doc
      /\ runner'[r].result = runner[r].result
      /\ \A q \in Runner : q # r => runner'[q] = runner[q]
  BY <1>1, <1>2 DEF RunnerState, Locked
<1>4. SweepTypes'
  BY <1>1, <1>3 DEF SweepInv, SweepTypes
<1>5. envelopes[runner[r].doc] = Nil \/ old \in attempts'
  BY <1>1
<1>6. attempts \subseteq attempts'
  BY <1>1
<1>7. RunnersAreReady'
  <2> SUFFICES ASSUME NEW q \in Runner PROVE RunnerReady(q)'
    BY DEF RunnersAreReady
  <2>1. CASE q = r
    <3>1. \/ envelopes'[runner'[r].doc] = Nil
          \/ [doc |-> runner'[r].doc, was |-> envelopes'[runner'[r].doc]] \in attempts'
      BY <1>1, <1>3, <1>5
    <3> HIDE DEF old
    <3> QED BY <1>1, <1>2, <1>3, <2>1, <3>1 DEF RunnerReady, Locked
  <2>2. CASE q # r
    <3>1. runner'[q] = runner[q] /\ runner[q].at \in {"idle", "read", "staged"} /\ RunnerReady(q)
      BY <1>2, <1>3, <2>2, OthersAreOutside DEF SweepInv, RunnersAreReady
    <3> HIDE DEF old
    <3> QED BY <1>1, <3>1 DEF RunnerReady, Locked
  <2> QED BY <2>1, <2>2
<1> HIDE DEF old
<1>8. OneProducer'
  BY <1>1, <1>3 DEF SweepInv, OneProducer, ProducedBy, Locked
<1> QED BY <1>1, <1>4, <1>6, <1>7, <1>8 DEF SweepInv, RowsAreOwned, EnvelopesArePublished, EnvelopesAreWhole, AllPaired,
          Paired, StatusIsEvident, IngestedIsResolved, ListedWasPublished

LEMMA ReplaceEnvelopeKeeps ==
  ASSUME SweepInv, NEW r \in Runner, ReplaceEnvelope(r)
  PROVE  SweepInv'
<1>1. PICK d, e : d = runner[r].doc /\ e = runner[r].result
  OBVIOUS
<1>2. /\ runner[r].at = "archived" /\ runner' = [runner EXCEPT ![r].at = "staged", ![r].result = Nil, ![r].of = 0]
      /\ envelopes' = [envelopes EXCEPT ![d] = e]
      /\ published' = published \union {[doc |-> d, was |-> e]}
      /\ holder' \in {r, Nil}
      /\ UNCHANGED <<pdf, rowsFiles, attempts, listing, marker, consumer, ingested>>
  BY <1>1 DEF ReplaceEnvelope
<1>3. /\ runner \in [Runner -> RunnerState] /\ envelopes \in [Scan -> Envelope \union {Nil}]
      /\ RunnerReady(r) /\ holder = r
  BY <1>2 DEF SweepInv, SweepTypes, RunnersAreReady, RunnerReady, Locked
<1>4. /\ d \in Scan /\ e \in Envelope /\ e.evident /\ RowsFile(d, e) \in rowsFiles /\ e # Nil
      /\ envelopes[d] = Nil \/ [doc |-> d, was |-> envelopes[d]] \in attempts
  BY <1>1, <1>2, <1>3, NilAssumption DEF RunnerReady, Locked
<1>5. /\ runner' \in [Runner -> RunnerState]
      /\ runner'[r].at = "staged" /\ runner'[r].script = runner[r].script /\ runner'[r].doc = d
      /\ \A q \in Runner : q # r => runner'[q] = runner[q]
  <2> DEFINE after == [runner[r] EXCEPT !.at = "staged", !.result = Nil, !.of = 0]
  <2>1. after \in RunnerState
    <3>1. PICK y : y = [runner[r] EXCEPT !.at = "staged"]
      OBVIOUS
    <3>2. PICK z : z = [y EXCEPT !.result = Nil]
      OBVIOUS
    <3>3. z \in RunnerState
      BY <1>3, <3>1, <3>2 DEF RunnerState
    <3>4. [z EXCEPT !.of = 0] \in RunnerState
      BY <3>3, SweepAssumption DEF RunnerState
    <3> QED BY <3>1, <3>2, <3>4
  <2>2. after.at = "staged" /\ after.script = runner[r].script /\ after.doc = runner[r].doc
    BY <1>3 DEF RunnerState
  <2>3. runner' = [runner EXCEPT ![r] = after]
    BY <1>2, <1>3
  <2> HIDE DEF after
  <2> QED BY <1>1, <1>3, <2>1, <2>2, <2>3
<1>6. /\ envelopes' \in [Scan -> Envelope \union {Nil}] /\ envelopes'[d] = e
      /\ \A c \in Scan : c # d => envelopes'[c] = envelopes[c]
  BY <1>2, <1>3, <1>4
<1>7. SweepTypes'
  BY <1>2, <1>4, <1>5, <1>6 DEF SweepInv, SweepTypes
<1>8. RunnersAreReady'
  <2> SUFFICES ASSUME NEW q \in Runner PROVE RunnerReady(q)'
    BY DEF RunnersAreReady
  <2>1. CASE q = r
    BY <1>1, <1>2, <1>3, <1>4, <1>5, <1>6, <2>1 DEF RunnerReady, Locked
  <2>2. CASE q # r
    <3>1. runner'[q] = runner[q] /\ runner[q].at \in {"idle", "read", "staged"} /\ RunnerReady(q)
      BY <1>3, <1>5, <2>2, OthersAreOutside DEF SweepInv, RunnersAreReady
    <3>2. runner[q].at = "staged" => envelopes'[runner[q].doc] # Nil
      BY <1>4, <1>6, <3>1 DEF RunnerReady
    <3> QED BY <1>2, <2>2, <3>1, <3>2, NilAssumption DEF RunnerReady, Locked
  <2> QED BY <2>1, <2>2
<1>9. PICK s \in Script : ProducedBy(s)
  BY DEF SweepInv, OneProducer
<1>10. ProducedBy(s)'
  <2>1. e.by = s /\ runner[r].script = s
    BY <1>1, <1>2, <1>9 DEF ProducedBy, Locked
  <2>2. \A c \in Scan : envelopes'[c] # Nil => envelopes'[c].by = s
    BY <1>6, <1>9, <2>1 DEF ProducedBy
  <2> QED BY <1>2, <1>5, <1>9, <2>1, <2>2 DEF ProducedBy, Locked
<1>11. RowsAreOwned'
  BY <1>4, <1>6 DEF RowsAreOwned
<1>12. EnvelopesArePublished'
  BY <1>2, <1>6 DEF SweepInv, EnvelopesArePublished
<1>13. EnvelopesAreWhole'
  <2>1. AllPaired'
    BY <1>2, <1>4, <1>6 DEF SweepInv, EnvelopesAreWhole, AllPaired, Paired
  <2>2. ASSUME NEW x \in published' PROVE envelopes'[x.doc] = x.was \/ x \in attempts'
    <3>1. CASE x = [doc |-> d, was |-> e]
      BY <1>6, <3>1
    <3>2. CASE x \in published /\ x.doc = d
      <4>1. x = [doc |-> x.doc, was |-> x.was] /\ x.was # Nil
        BY <3>2, NilAssumption DEF SweepInv, SweepTypes
      <4>2. envelopes[d] = x.was \/ x \in attempts
        BY <3>2 DEF SweepInv, EnvelopesAreWhole
      <4> QED BY <1>2, <1>4, <3>2, <4>1, <4>2
    <3>3. CASE x \in published /\ x.doc # d
      BY <1>2, <1>6, <3>3 DEF SweepInv, SweepTypes, EnvelopesAreWhole
    <3> QED BY <1>2, <3>1, <3>2, <3>3
  <2> QED BY <2>1, <2>2 DEF EnvelopesAreWhole
<1>14. StatusIsEvident'
  BY <1>4, <1>6 DEF SweepInv, StatusIsEvident
<1>15. IngestedIsResolved' /\ ListedWasPublished'
  BY <1>2 DEF SweepInv, IngestedIsResolved, ListedWasPublished
<1> QED BY <1>7, <1>8, <1>10, <1>11, <1>12, <1>13, <1>14, <1>15 DEF SweepInv, OneProducer

(* A manifest is of the producer that writes it, and of what is there.     *)
LEMMA WritingKeeps ==
  ASSUME SweepInv, NEW r \in Runner, NEW s \in Script, ProducedBy(s),
         runner[r].script = s, runner[r].at \in {"staged", "editing"}, holder \in {Nil, r},
         WriteListing(s) \/ UNCHANGED listing, holder' = Nil, runner' = [runner EXCEPT ![r] = Resting],
         UNCHANGED <<pdf, rowsFiles, envelopes, attempts, marker, published, consumer, ingested>>
  PROVE  SweepInv'
<1>1. listing' \in Manifest \union {Nil} /\ (listing' # Nil => listing'.by = s)
  BY NilAssumption DEF SweepInv, SweepTypes, WriteListing, Manifest, ProducedBy
<1>2. runner \in [Runner -> RunnerState]
  BY DEF SweepInv, SweepTypes
<1>3. /\ runner' \in [Runner -> RunnerState] /\ runner'[r] = Resting /\ Resting.at = "idle"
      /\ \A q \in Runner : q # r => runner'[q] = runner[q]
  BY <1>2, RestingIsState DEF Resting
<1>4. SweepTypes'
  BY <1>1, <1>3 DEF SweepInv, SweepTypes
<1>5. RunnersAreReady'
  <2> SUFFICES ASSUME NEW q \in Runner PROVE RunnerReady(q)'
    BY DEF RunnersAreReady
  <2>1. CASE q = r
    BY <1>3, <2>1, NilAssumption DEF RunnerReady, Locked
  <2>2. CASE q # r
    <3>1. runner'[q] = runner[q] /\ RunnerReady(q) /\ holder # q
      BY <1>3, <2>2, NilAssumption DEF SweepInv, RunnersAreReady
    <3> QED BY <3>1, NilAssumption DEF RunnerReady, Locked
  <2> QED BY <2>1, <2>2
<1>6. ProducedBy(s)'
  BY <1>1, <1>3 DEF ProducedBy, Locked
<1>7. ListedWasPublished'
  BY DEF SweepInv, ListedWasPublished, WriteListing, EnvelopesArePublished
<1> QED BY <1>4, <1>5, <1>6, <1>7 DEF SweepInv, OneProducer, RowsAreOwned, EnvelopesArePublished, EnvelopesAreWhole,
          AllPaired, Paired, StatusIsEvident, IngestedIsResolved

LEMMA WriteManifestKeeps ==
  ASSUME SweepInv, NEW r \in Runner, WriteManifest(r) \/ EndReclassify(r)
  PROVE  SweepInv'
<1>1. PICK s \in Script : ProducedBy(s)
  BY DEF SweepInv, OneProducer
<1>2. CASE WriteManifest(r)
  <2>1. runner[r].script = s
    BY <1>1, <1>2 DEF WriteManifest, ProducedBy
  <2> QED BY <1>1, <1>2, <2>1, WritingKeeps DEF WriteManifest
<1>3. CASE EndReclassify(r)
  <2>1. runner[r].script = s /\ holder = r /\ marker = s
    BY <1>1, <1>3 DEF EndReclassify, ProducedBy, SweepInv, RunnersAreReady, RunnerReady
  <2>2. s = "local"
    BY <1>3, <2>1 DEF SweepInv, RunnersAreReady, RunnerReady, EndReclassify
  <2> QED BY <1>1, <1>3, <2>1, <2>2, WritingKeeps DEF EndReclassify
<1> QED BY <1>2, <1>3

LEMMA StartReclassifyKeeps ==
  ASSUME SweepInv, NEW r \in Runner, StartReclassify(r)
  PROVE  SweepInv'
<1> DEFINE e == [Resting EXCEPT !.at = "editing", !.script = "local"]
<1>1. /\ runner[r].at = "idle" /\ holder = Nil /\ Mine("local")
      /\ holder' = r /\ marker' = "local" /\ runner' = [runner EXCEPT ![r] = e]
      /\ UNCHANGED <<pdf, rowsFiles, envelopes, attempts, listing, published, consumer, ingested>>
  BY DEF StartReclassify
<1>2. e \in RunnerState /\ e.at = "editing" /\ e.script = "local" /\ "local" \in Script
  BY RestingIsState DEF RunnerState, Resting, Script
<1> HIDE DEF e
<1>3. runner \in [Runner -> RunnerState]
  BY DEF SweepInv, SweepTypes
<1>4. /\ runner' \in [Runner -> RunnerState] /\ runner'[r] = e
      /\ \A q \in Runner : q # r => runner'[q] = runner[q]
  BY <1>1, <1>2, <1>3
<1>5. SweepTypes'
  BY <1>1, <1>2, <1>4 DEF SweepInv, SweepTypes
<1>6. /\ listing # Nil => listing.by = "local"
      /\ \A d \in Scan : envelopes[d] # Nil => envelopes[d].by = "local"
      /\ \A q \in Runner : /\ runner[q].at \in {"idle", "read", "staged"}
                           /\ runner[q].at = "staged" => runner[q].script = "local"
  BY <1>1, <1>2, MineIsOnly
<1>7. RunnersAreReady'
  <2> SUFFICES ASSUME NEW q \in Runner PROVE RunnerReady(q)'
    BY DEF RunnersAreReady
  <2>1. CASE q = r
    BY <1>1, <1>2, <1>4, <2>1 DEF RunnerReady, Locked
  <2>2. CASE q # r
    <3>1. runner'[q] = runner[q] /\ RunnerReady(q) /\ holder' # q /\ envelopes' = envelopes
      BY <1>1, <1>4, <2>2 DEF SweepInv, RunnersAreReady
    <3>2. runner[q].at \in {"idle", "read", "staged"}
      BY <1>6
    <3> QED BY <3>1, <3>2 DEF RunnerReady, Locked
  <2> QED BY <2>1, <2>2
<1>8. ProducedBy("local")'
  <2> SUFFICES ASSUME NEW q \in Runner
               PROVE  /\ runner'[q].at \in {"staged", "editing"} \union Locked => runner'[q].script = "local"
                      /\ runner'[q].at \notin Locked
    BY <1>1, <1>6 DEF ProducedBy
  <2>1. CASE q = r
    BY <1>2, <1>4, <2>1 DEF Locked
  <2>2. CASE q # r
    BY <1>4, <1>6, <2>2 DEF Locked
  <2> QED BY <2>1, <2>2
<1>9. RowsAreOwned'
  <2>1. marker' # Nil
    BY <1>1, <1>2, NilAssumption
  <2> QED BY <2>1 DEF RowsAreOwned
<1> QED BY <1>1, <1>2, <1>5, <1>7, <1>8, <1>9 DEF SweepInv, OneProducer, EnvelopesArePublished, EnvelopesAreWhole,
          AllPaired, Paired, StatusIsEvident, IngestedIsResolved, ListedWasPublished

LEMMA EditEnvelopeKeeps ==
  ASSUME SweepInv, NEW r \in Runner, NEW d \in Scan, EditEnvelope(r, d)
  PROVE  SweepInv'
<1>1. PICK old, e : old = envelopes[d] /\ e = Reclassified(old)
  OBVIOUS
<1>2. /\ runner[r].at = "editing" /\ old # Nil
      /\ attempts' = attempts \union {[doc |-> d, was |-> old]}
      /\ envelopes' = [envelopes EXCEPT ![d] = e]
      /\ published' = published \union {[doc |-> d, was |-> e]}
      /\ UNCHANGED <<pdf, holder, runner, consumer, ingested, rowsFiles, marker, listing>>
  BY <1>1 DEF EditEnvelope, Reclassify
<1>3. envelopes \in [Scan -> Envelope \union {Nil}] /\ old \in Envelope /\ holder = r
  BY <1>1, <1>2 DEF SweepInv, SweepTypes, RunnersAreReady, RunnerReady
<1>4. e \in Envelope /\ e.by = old.by /\ e.pdf = old.pdf /\ e.rows = old.rows /\ e # Nil
  BY <1>1, <1>3, ReclassifiedIsLike, NilAssumption
<1>5. e.evident
  BY <1>1, <1>2, <1>3, ReclassifiedIsLike DEF SweepInv, StatusIsEvident
<1>6. /\ envelopes' \in [Scan -> Envelope \union {Nil}] /\ envelopes'[d] = e
      /\ \A c \in Scan : c # d => envelopes'[c] = envelopes[c]
  BY <1>2, <1>3, <1>4
<1>7. SweepTypes'
  BY <1>2, <1>4, <1>6 DEF SweepInv, SweepTypes
<1>8. RunnersAreReady'
  <2> SUFFICES ASSUME NEW q \in Runner PROVE RunnerReady(q)'
    BY DEF RunnersAreReady
  <2>1. RunnerReady(q) /\ runner[q].at \notin Locked
    BY <1>2, <1>3, OthersAreOutside DEF SweepInv, RunnersAreReady, Locked
  <2>2. runner[q].at = "staged" => envelopes'[runner[q].doc] # Nil
    BY <1>4, <1>6, <2>1 DEF RunnerReady
  <2> QED BY <1>2, <2>1, <2>2 DEF RunnerReady, Locked
<1>9. PICK s \in Script : ProducedBy(s)
  BY DEF SweepInv, OneProducer
<1>10. ProducedBy(s)'
  <2>1. \A c \in Scan : envelopes'[c] # Nil => envelopes'[c].by = s
    BY <1>1, <1>2, <1>4, <1>6, <1>9 DEF ProducedBy
  <2> QED BY <1>2, <1>9, <2>1 DEF ProducedBy
<1>11. RowsAreOwned'
  BY <1>4, <1>6 DEF RowsAreOwned
<1>12. EnvelopesArePublished'
  BY <1>2, <1>6 DEF SweepInv, EnvelopesArePublished
<1>13. EnvelopesAreWhole'
  <2>1. RowsFile(d, e) = RowsFile(d, old)
    BY <1>4 DEF RowsFile
  <2>2. AllPaired'
    BY <1>1, <1>2, <1>6, <2>1 DEF SweepInv, EnvelopesAreWhole, AllPaired, Paired
  <2>3. ASSUME NEW x \in published' PROVE envelopes'[x.doc] = x.was \/ x \in attempts'
    <3>1. CASE x = [doc |-> d, was |-> e]
      BY <1>6, <3>1
    <3>2. CASE x \in published /\ x.doc = d
      <4>1. x = [doc |-> x.doc, was |-> x.was]
        BY <3>2 DEF SweepInv, SweepTypes
      <4>2. envelopes[d] = x.was \/ x \in attempts
        BY <3>2 DEF SweepInv, EnvelopesAreWhole
      <4> QED BY <1>1, <1>2, <3>2, <4>1, <4>2
    <3>3. CASE x \in published /\ x.doc # d
      BY <1>2, <1>6, <3>3 DEF SweepInv, SweepTypes, EnvelopesAreWhole
    <3> QED BY <1>2, <3>1, <3>2, <3>3
  <2> QED BY <2>2, <2>3 DEF EnvelopesAreWhole
<1>14. StatusIsEvident'
  BY <1>5, <1>6 DEF SweepInv, StatusIsEvident
<1>15. IngestedIsResolved' /\ ListedWasPublished'
  BY <1>2 DEF SweepInv, IngestedIsResolved, ListedWasPublished
<1> QED BY <1>7, <1>8, <1>10, <1>11, <1>12, <1>13, <1>14, <1>15 DEF SweepInv, OneProducer

(* The staged database reads the root and writes itself.                   *)
LEMMA ConsumingKeeps ==
  ASSUME SweepInv,
         \/ ReadListing \/ IngestRefused
         \/ \E some \in SUBSET Scan : Ingest(some)
         \/ \E d \in Scan : ReplacePdf(d)
  PROVE  SweepInv'
<1>1. UNCHANGED <<rowsFiles, envelopes, attempts, listing, marker, published, holder, runner>>
  BY DEF ReadListing, IngestRefused, Ingest, ReplacePdf, rootVars
<1>2. /\ RunnersAreReady' /\ OneProducer' /\ RowsAreOwned' /\ EnvelopesArePublished' /\ EnvelopesAreWhole'
      /\ StatusIsEvident' /\ ListedWasPublished'
  BY <1>1 DEF SweepInv, RunnersAreReady, RunnerReady, OneProducer, ProducedBy, RowsAreOwned, EnvelopesArePublished,
     EnvelopesAreWhole, AllPaired, Paired, StatusIsEvident, ListedWasPublished
<1>3. CASE ReadListing \/ IngestRefused
  <2>1. SweepTypes' /\ IngestedIsResolved'
    BY <1>1, <1>3 DEF SweepInv, SweepTypes, IngestedIsResolved, ReadListing, IngestRefused
  <2> QED BY <1>2, <2>1 DEF SweepInv
<1>4. ASSUME NEW some \in SUBSET Scan, Ingest(some) PROVE SweepInv'
  <2>1. /\ ingested' = [d \in Scan |-> IF d \in some THEN envelopes[d] ELSE ingested[d]]
        /\ \A d \in some : envelopes[d] # Nil /\ envelopes[d].status = "resolved"
        /\ Matches(consumer) /\ consumer' = Nil /\ pdf' = pdf
    BY <1>4 DEF Ingest
  <2>2. SweepTypes'
    BY <1>1, <2>1 DEF SweepInv, SweepTypes
  <2>3. ASSUME NEW d \in some
        PROVE  envelopes[d].evident /\ envelopes[d].rows /\ envelopes[d].pdf = pdf[d]
    <3>1. envelopes[d] # Legacy(FALSE)
      BY <2>1 DEF Legacy
    <3> QED BY <2>1, <3>1 DEF SweepInv, StatusIsEvident, Matches
  <2>4. IngestedIsResolved'
    BY <2>1, <2>3 DEF SweepInv, IngestedIsResolved
  <2> QED BY <1>2, <2>2, <2>4 DEF SweepInv
<1>5. ASSUME NEW d \in Scan, ReplacePdf(d) PROVE SweepInv'
  <2>1. /\ pdf' = [pdf EXCEPT ![d] = pdf[d] + 1] /\ pdf[d] < MaxPdf
        /\ ingested' = [ingested EXCEPT ![d] = Nil] /\ consumer' = consumer
    BY <1>5 DEF ReplacePdf
  <2>2. SweepTypes'
    BY <1>1, <2>1, SweepAssumption DEF SweepInv, SweepTypes
  <2>3. IngestedIsResolved'
    BY <2>1 DEF SweepInv, SweepTypes, IngestedIsResolved
  <2> QED BY <1>2, <2>2, <2>3 DEF SweepInv
<1> QED BY <1>3, <1>4, <1>5

LEMMA SweepSteps == SweepInv /\ [SweepNext]_sweepVars => SweepInv'
<1> SUFFICES ASSUME SweepInv, [SweepNext]_sweepVars PROVE SweepInv'
  OBVIOUS
<1>1. CASE UNCHANGED sweepVars
  BY <1>1 DEF sweepVars, rootVars, SweepInv, SweepTypes, RunnersAreReady, RunnerReady, OneProducer, ProducedBy,
     RowsAreOwned, EnvelopesArePublished, EnvelopesAreWhole, AllPaired, Paired, StatusIsEvident, IngestedIsResolved,
     ListedWasPublished
<1>2. ASSUME NEW r \in Runner, RunnerStep(r) PROVE SweepInv'
  BY <1>2, ProcessDocumentKeeps, EnterRootKeeps, PublishRowsKeeps, ArchiveEnvelopeKeeps, ReplaceEnvelopeKeeps,
     WriteManifestKeeps, StartReclassifyKeeps, EditEnvelopeKeeps, RunnerDiesKeeps DEF RunnerStep
<1> QED BY <1>1, <1>2, ConsumingKeeps DEF SweepNext

(* The root can be used again after any death, by its producer and nobody  *)
(* else, and what the database takes from it is what its pages bear out.   *)
LEMMA SweepInvariant == SweepSpec => []SweepInv
  BY SweepStarts, SweepSteps, PTL DEF SweepSpec

LEMMA RootIsSound == SweepInv => SweepIsSound
<1> SUFFICES ASSUME SweepInv PROVE SweepIsSound
  OBVIOUS
<1>1. PICK s \in Script : ProducedBy(s)
  BY DEF SweepInv, OneProducer
<1> DEFINE by == {envelopes[d].by : d \in {c \in Scan : envelopes[c] # Nil}}
<1>2. Cardinality(by) <= 1
  <2>1. by = {} \/ by = {s}
    BY <1>1 DEF ProducedBy
  <2> HIDE DEF by
  <2>2. Cardinality({s}) = 1
    BY FS_Singleton
  <2>3. Cardinality({}) = 0
    BY FS_EmptySet
  <2> QED BY <2>1, <2>2, <2>3
<1>3. rowsFiles # {} => Mine(s)
  <2> SUFFICES ASSUME rowsFiles # {} PROVE Mine(s)
    OBVIOUS
  <2>1. by \subseteq {s}
    BY <1>1 DEF ProducedBy
  <2>2. Owner = {s}
    <3>1. CASE listing # Nil
      BY <1>1, <3>1 DEF Owner, ProducedBy
    <3>2. CASE listing = Nil /\ by # {}
      BY <2>1, <3>2 DEF Owner
    <3>3. CASE listing = Nil /\ by = {}
      <4>1. marker = s
        BY <1>1, <3>3 DEF SweepInv, RowsAreOwned, ProducedBy
      <4>2. marker # Nil
        BY <4>1, NilAssumption
      <4> QED BY <3>3, <4>1, <4>2 DEF Owner
    <3> QED BY <3>1, <3>2, <3>3
  <2> QED BY <1>1, <2>2 DEF Mine, ProducedBy
<1>4. SweepTypeOK
  BY DEF SweepInv, SweepTypes, SweepTypeOK, RunnersAreReady, RunnerReady
<1> QED BY <1>2, <1>3, <1>4 DEF SweepInv, SweepIsSound, RootHasOneOwner

THEOREM SweepsAreSound == SweepSpec => []SweepIsSound
  BY SweepInvariant, RootIsSound, PTL

-----------------------------------------------------------------------------
(* The staged rebuild.                                                     *)

Audited == [of : StagedYear, passed : BOOLEAN, file : StagedYear, manifest : House, unsettled : BOOLEAN]

(* Rows outside the date domain are rows.                                  *)
OddAreRows == \A d \in Filing : staged.docs[d].odd <= staged.docs[d].rows

(* A report that is not older than the last batch says what was read, so   *)
(* that it cannot agree with rows of which a repair has taken some.        *)
ReportsAreOfTheReading ==
  unsettled \/ \A d \in Filing : staged.docs[d].report \in {NoReport, staged.docs[d].raw}

(* As long as nobody takes the lease, what was audited is what there is.   *)
QuietStays ==
  quiet =>
    /\ promoter \in {"ready", "reading", "read", "verified"} => ~Owned /\ file = staged
    /\ promoter \in {"reading", "read", "verified"} => audited.of = staged
    /\ promoter = "verified" => audited.file = staged

RebuildInv ==
  /\ RebuildTypeOK /\ audited \in Audited
  /\ OddAreRows /\ ReportsAreOfTheReading /\ IncompleteIsSilent
  /\ VerifiedIsRebuildable /\ QuietStays /\ InstalledIsAudited

LEMMA BlankIsHouse == Blank \in House /\ AtRest.copy = Blank /\ AtRest.at = "idle"
BY RebuildAssumption DEF Blank, House, AtRest

StageState == [at : {"idle", "loaded", "owner", "done"}, cmd : Command \union {"none"}, copy : House, todo : SUBSET Filing]

LEMMA AtRestIsState == AtRest \in StageState
BY BlankIsHouse DEF AtRest, StageState, Command

LEMMA NothingIsYear == NothingStaged \in StagedYear /\ Unseen \in Document
<1>1. Unseen \in Document
  BY DEF Unseen, Document, Run, Count, NoReport
<1> QED BY <1>1, RebuildAssumption DEF NothingStaged, StagedYear

LEMMA RebuildStarts == RebuildInit => RebuildInv
<1> SUFFICES ASSUME RebuildInit PROVE RebuildInv
  OBVIOUS
<1>1. staged \in StagedYear /\ \A d \in Filing : staged.docs[d] = Unseen
  BY NothingIsYear DEF RebuildInit, NothingStaged
<1>2. stage \in [Worker -> StageState]
  BY AtRestIsState DEF RebuildInit
<1>3. RebuildTypeOK
  <2>1. {staged, file, installed} \subseteq StagedYear
    BY NothingIsYear DEF RebuildInit
  <2>2. manifest \in House
    BY BlankIsHouse DEF RebuildInit
  <2>3. mended \in 0 .. MaxMended
    BY RebuildAssumption DEF RebuildInit
  <2>4. {unsettled, quiet} \subseteq BOOLEAN
    BY DEF RebuildInit
  <2> QED BY <1>2, <2>1, <2>2, <2>3, <2>4 DEF RebuildInit, RebuildTypeOK, StageState
<1>4. NoAudit \in Audited /\ ~NoAudit.passed
  BY NothingIsYear, BlankIsHouse DEF NoAudit, Audited
<1>5. OddAreRows /\ ReportsAreOfTheReading /\ IncompleteIsSilent
  BY <1>1 DEF OddAreRows, ReportsAreOfTheReading, IncompleteIsSilent, Unseen
<1> QED BY <1>3, <1>4, <1>5 DEF RebuildInit, RebuildInv, VerifiedIsRebuildable, QuietStays, InstalledIsAudited

(* What a stage does to itself.                                            *)
LEMMA StageMoves ==
  ASSUME RebuildInv, NEW s \in Worker, NEW e \in StageState, stage' = [stage EXCEPT ![s] = e]
  PROVE  /\ stage' \in [Worker -> StageState] /\ stage'[s] = e
         /\ \A t \in Worker : t # s => stage'[t] = stage[t]
BY DEF RebuildInv, RebuildTypeOK, StageState

LEMMA StageFields ==
  ASSUME RebuildInv, NEW s \in Worker
  PROVE  /\ stage[s] \in StageState /\ stage[s].copy \in House /\ stage[s].todo \subseteq Filing
         /\ stage[s].at \in {"idle", "loaded", "owner", "done"} /\ stage[s].cmd \in Command \union {"none"}
BY DEF RebuildInv, RebuildTypeOK, StageState

(* Steps that leave the staged year, the file and the promotion alone and  *)
(* give the lease to nobody.                                               *)
LEMMA AsideKeeps ==
  ASSUME RebuildInv, stage' \in [Worker -> StageState], Owned' => Owned, manifest' \in House,
         UNCHANGED <<staged, file, promoter, audited, installed, mended, unsettled, quiet>>
  PROVE  RebuildInv'
BY DEF RebuildInv, RebuildTypeOK, StageState, Audited, OddAreRows, ReportsAreOfTheReading, IncompleteIsSilent,
       VerifiedIsRebuildable, QuietStays, InstalledIsAudited

LEMMA LoadManifestKeeps ==
  ASSUME RebuildInv, NEW s \in Worker, LoadManifest(s)
  PROVE  RebuildInv'
<1> DEFINE e == [AtRest EXCEPT !.at = "loaded", !.copy = manifest]
<1>1. manifest \in House
  BY DEF RebuildInv, RebuildTypeOK
<1>2. e \in StageState /\ e.at = "loaded"
  <2>1. PICK x : x = [AtRest EXCEPT !.at = "loaded"]
    OBVIOUS
  <2>2. x \in StageState /\ x.at = "loaded"
    BY <2>1, AtRestIsState DEF StageState
  <2>3. [x EXCEPT !.copy = manifest] \in StageState /\ [x EXCEPT !.copy = manifest].at = "loaded"
    BY <1>1, <2>2 DEF StageState
  <2> QED BY <2>1, <2>3
<1>3. stage' = [stage EXCEPT ![s] = e]
  BY DEF LoadManifest
<1> HIDE DEF e
<1>4. stage' \in [Worker -> StageState] /\ (Owned' => Owned)
  BY <1>2, <1>3, StageMoves DEF Owned
<1> QED BY <1>1, <1>4, AsideKeeps DEF LoadManifest

LEMMA LeavingKeeps ==
  ASSUME RebuildInv, NEW s \in Worker, promoter # "installed", SaveAndClose(s) \/ StageFails(s) \/ StageDies(s)
  PROVE  RebuildInv'
<1>1. /\ stage' = [stage EXCEPT ![s] = AtRest] /\ manifest' \in {manifest, stage[s].copy} /\ file' \in {file, staged}
      /\ stage[s].at \in {"owner", "done"}
      /\ UNCHANGED <<staged, promoter, audited, installed, mended, unsettled, quiet>>
  BY DEF SaveAndClose, StageFails, StageDies
<1>2. stage' \in [Worker -> StageState]
  BY <1>1, AtRestIsState, StageMoves
<1>3. manifest' \in House
  BY <1>1, StageFields DEF RebuildInv, RebuildTypeOK
<1>4. Owned
  BY <1>1 DEF Owned
<1>5. QuietStays'
  BY <1>1, <1>4 DEF RebuildInv, QuietStays
<1> QED BY <1>1, <1>2, <1>3, <1>5 DEF RebuildInv, RebuildTypeOK, StageState, Audited, OddAreRows, ReportsAreOfTheReading,
          IncompleteIsSilent, VerifiedIsRebuildable, InstalledIsAudited

LEMMA TakeLeaseKeeps ==
  ASSUME RebuildInv, NEW s \in Worker, NEW cmd \in Command, NEW force \in BOOLEAN, promoter # "installed",
         TakeLease(s, cmd, force)
  PROVE  RebuildInv'
<1>1. stage' \in [Worker -> StageState]
  <2>1. PICK todo \in SUBSET Filing :
          stage' = [stage EXCEPT ![s].at = "owner", ![s].cmd = cmd, ![s].todo = todo]
    BY DEF TakeLease, Unresolved
  <2>2. stage \in [Worker -> StageState]
    BY DEF RebuildInv, RebuildTypeOK, StageState
  <2>3. PICK one : one = [stage EXCEPT ![s].at = "owner"]
    OBVIOUS
  <2>4. PICK two : two = [one EXCEPT ![s].cmd = cmd]
    OBVIOUS
  <2>5. one \in [Worker -> StageState]
    BY <2>2, <2>3 DEF StageState
  <2>6. two \in [Worker -> StageState]
    BY <2>4, <2>5 DEF StageState
  <2>7. [two EXCEPT ![s].todo = todo] \in [Worker -> StageState]
    BY <2>6 DEF StageState
  <2> QED BY <2>1, <2>3, <2>4, <2>7
<1>2. /\ UNCHANGED <<staged, file, manifest, promoter, audited, installed, mended, unsettled>>
      /\ quiet' = (promoter = "idle")
  BY DEF TakeLease
<1> QED BY <1>1, <1>2 DEF RebuildInv, RebuildTypeOK, StageState, Audited, OddAreRows, ReportsAreOfTheReading,
          IncompleteIsSilent, VerifiedIsRebuildable, QuietStays, InstalledIsAudited

(* A stage that changes the staged year owns it, so the promotion is not   *)
(* quiet; what else the invariant says of the year is to be shown.         *)
LEMMA WritingYearKeeps ==
  ASSUME RebuildInv, NEW s \in Worker, stage[s].at = "owner", promoter # "installed",
         stage' \in [Worker -> StageState], staged' \in StagedYear,
         mended' \in 0 .. MaxMended, unsettled' \in BOOLEAN,
         OddAreRows', ReportsAreOfTheReading', IncompleteIsSilent',
         UNCHANGED <<file, manifest, promoter, audited, installed, quiet>>
  PROVE  RebuildInv'
<1>1. Owned
  BY DEF Owned
<1>2. QuietStays' /\ VerifiedIsRebuildable' /\ InstalledIsAudited'
  BY <1>1 DEF RebuildInv, QuietStays, VerifiedIsRebuildable, InstalledIsAudited
<1> QED BY <1>2 DEF RebuildInv, RebuildTypeOK, StageState, Audited

LEMMA DocumentFields ==
  ASSUME NEW x \in Document
  PROVE  /\ x.raw \in 0 .. 2 /\ x.count \in 0 .. 2 /\ x.rows \in 0 .. 2 /\ x.odd \in 0 .. 2
         /\ x.report \in 0 .. 3 /\ x.run \in Run
BY DEF Document, Count, NoReport

LEMMA YearFields ==
  ASSUME RebuildInv
  PROVE  /\ staged \in StagedYear /\ staged.gen \in 0 .. MaxGeneration /\ staged.complete \in BOOLEAN
         /\ staged.docs \in [Filing -> Document]
         /\ mended \in 0 .. MaxMended /\ unsettled \in BOOLEAN
BY DEF RebuildInv, RebuildTypeOK, StagedYear

(* A stage that is done keeps what it will save.                           *)
LEMMA FinishMoves ==
  ASSUME RebuildInv, NEW s \in Worker, NEW copy \in House, Finish(s, copy)
  PROVE  stage' \in [Worker -> StageState]
<1>1. PICK one : one = [stage EXCEPT ![s].at = "done"]
  OBVIOUS
<1>2. one \in [Worker -> StageState]
  BY <1>1 DEF RebuildInv, RebuildTypeOK, StageState
<1>3. [one EXCEPT ![s].copy = copy] \in [Worker -> StageState]
  BY <1>2 DEF StageState
<1> QED BY <1>1, <1>3 DEF Finish

LEMMA FetchHouseKeeps ==
  ASSUME RebuildInv, NEW s \in Worker, NEW kept \in SUBSET Filing, promoter # "installed", FetchHouse(s, kept)
  PROVE  RebuildInv'
<1> DEFINE docs == [d \in Filing |-> IF d \in kept THEN [staged.docs[d] EXCEPT !.report = NoReport] ELSE Unseen]
<1>1. staged' = [staged EXCEPT !.gen = staged.gen + 1, !.complete = FALSE, !.docs = docs]
  BY DEF FetchHouse
<1>2. staged.gen + 1 \in 0 .. MaxGeneration
  BY YearFields, RebuildAssumption DEF FetchHouse
<1>3. ASSUME NEW d \in Filing
      PROVE  docs[d] \in Document /\ docs[d].report = NoReport /\ docs[d].odd <= docs[d].rows
  <2>1. CASE d \in kept
    <3>1. staged.docs[d] \in Document /\ staged.docs[d].odd <= staged.docs[d].rows
      BY YearFields DEF RebuildInv, OddAreRows
    <3> QED BY <2>1, <3>1 DEF Document
  <2>2. CASE d \notin kept
    BY <2>2, NothingIsYear DEF Unseen
  <2> QED BY <2>1, <2>2
<1>4. docs \in [Filing -> Document]
  BY <1>3
<1>5. /\ staged' \in StagedYear /\ staged'.docs = docs
  <2> HIDE DEF docs
  <2>1. PICK one : one = [staged EXCEPT !.gen = staged.gen + 1]
    OBVIOUS
  <2>2. PICK two : two = [one EXCEPT !.complete = FALSE]
    OBVIOUS
  <2>3. two \in StagedYear
    BY <1>2, <2>1, <2>2, YearFields DEF StagedYear
  <2>4. [two EXCEPT !.docs = docs] \in StagedYear /\ [two EXCEPT !.docs = docs].docs = docs
    BY <1>4, <2>3 DEF StagedYear
  <2> QED BY <1>1, <2>1, <2>2, <2>4
<1>6. [gen |-> staged.gen + 1, complete |-> FALSE] \in House
  BY <1>2 DEF House
<1>7. stage' \in [Worker -> StageState]
  BY <1>6, FinishMoves DEF FetchHouse
<1> HIDE DEF docs
<1>8. OddAreRows' /\ ReportsAreOfTheReading' /\ IncompleteIsSilent'
  BY <1>3, <1>5 DEF OddAreRows, ReportsAreOfTheReading, IncompleteIsSilent
<1>9. unsettled' \in BOOLEAN /\ mended' \in 0 .. MaxMended
  BY YearFields DEF FetchHouse
<1> QED BY <1>5, <1>7, <1>8, <1>9, WritingYearKeeps DEF FetchHouse

LEMMA PersistBatchKeeps ==
  ASSUME RebuildInv, NEW s \in Worker, NEW d \in Filing, NEW run \in Run \ {"none"},
         NEW raw \in Count, NEW kept \in Count, NEW odd \in Count, promoter # "installed",
         PersistBatch(s, d, run, raw, kept, odd)
  PROVE  RebuildInv'
<1>1. PICK old \in Document : old = staged.docs[d] /\ old.odd <= old.rows
  BY YearFields DEF RebuildInv, OddAreRows
<1>2. PICK new : new = IF run = "success"
                       THEN [run |-> run, raw |-> raw, count |-> kept, rows |-> kept, odd |-> odd, report |-> old.report]
                       ELSE [old EXCEPT !.run = run, !.raw = raw, !.count = 0]
  OBVIOUS
<1>3. new \in Document /\ new.odd <= new.rows /\ new.report = old.report
  <2>1. CASE run = "success"
    BY <1>1, <1>2, <2>1 DEF Document, PersistBatch, Count
  <2>2. CASE run # "success"
    <3>1. PICK one : one = [old EXCEPT !.run = run]
      OBVIOUS
    <3>2. PICK two : two = [one EXCEPT !.raw = raw]
      OBVIOUS
    <3>3. two \in Document /\ two.odd = old.odd /\ two.rows = old.rows /\ two.report = old.report
      BY <1>1, <3>1, <3>2 DEF Document
    <3>4. /\ [two EXCEPT !.count = 0] \in Document /\ [two EXCEPT !.count = 0].odd = old.odd
          /\ [two EXCEPT !.count = 0].rows = old.rows /\ [two EXCEPT !.count = 0].report = old.report
      BY <3>3 DEF Document, Count
    <3> QED BY <1>1, <1>2, <2>2, <3>1, <3>2, <3>4
  <2> QED BY <2>1, <2>2
<1>4. staged' = [staged EXCEPT !.docs = [staged.docs EXCEPT ![d] = new]]
  BY <1>1, <1>2 DEF PersistBatch
<1>5. /\ staged' \in StagedYear /\ staged'.complete = staged.complete /\ staged'.docs[d] = new
      /\ \A c \in Filing : c # d => staged'.docs[c] = staged.docs[c]
  BY <1>3, <1>4, YearFields DEF StagedYear
<1>6. stage' \in [Worker -> StageState]
  BY DEF PersistBatch, RebuildInv, RebuildTypeOK, StageState
<1>7. unsettled' = TRUE /\ stage[s].at = "owner"
      /\ UNCHANGED <<file, manifest, promoter, audited, installed, mended, quiet>>
  BY DEF PersistBatch
<1>8. OddAreRows' /\ ReportsAreOfTheReading' /\ IncompleteIsSilent'
  BY <1>1, <1>3, <1>5, <1>7 DEF RebuildInv, OddAreRows, ReportsAreOfTheReading, IncompleteIsSilent
<1> QED BY <1>5, <1>6, <1>7, <1>8, YearFields, WritingYearKeeps

LEMMA RefreshCompletionKeeps ==
  ASSUME RebuildInv, NEW s \in Worker, promoter # "installed", RefreshCompletion(s)
  PROVE  RebuildInv'
<1>1. PICK done \in BOOLEAN : done = (Unresolved(staged) = {})
  OBVIOUS
<1> DEFINE docs == [d \in Filing |-> [staged.docs[d] EXCEPT !.report = IF done THEN staged.docs[d].count ELSE NoReport]]
<1>2. /\ stage[s].at = "owner" /\ (done => \A d \in Filing : Inventoried(staged.docs[d]))
      /\ staged' = [staged EXCEPT !.complete = done, !.docs = docs]
      /\ Finish(s, [stage[s].copy EXCEPT !.complete = done])
      /\ unsettled' = FALSE /\ UNCHANGED <<file, manifest, promoter, audited, installed, mended, quiet>>
  BY <1>1 DEF RefreshCompletion
<1>3. ASSUME NEW d \in Filing
      PROVE  /\ docs[d] \in Document /\ docs[d].odd <= docs[d].rows
             /\ docs[d].report \in {NoReport, docs[d].raw}
             /\ done \/ docs[d].report = NoReport
  <2>1. PICK old \in Document : old = staged.docs[d] /\ old.odd <= old.rows
    BY YearFields DEF RebuildInv, OddAreRows
  <2>2. done => old.raw = old.count
    BY <1>2, <2>1 DEF Inventoried
  <2>3. PICK told \in Count \union {NoReport} : told = IF done THEN old.count ELSE NoReport
    BY DEF Document
  <2>4. docs[d] = [old EXCEPT !.report = told]
    BY <2>1, <2>3
  <2> HIDE DEF docs
  <2> QED BY <2>1, <2>2, <2>3, <2>4 DEF Document
<1>4. docs \in [Filing -> Document]
  BY <1>3
<1> HIDE DEF docs
<1>5. staged' \in StagedYear /\ staged'.complete = done /\ staged'.docs = docs
  <2>1. PICK one : one = [staged EXCEPT !.complete = done]
    OBVIOUS
  <2>2. one \in StagedYear /\ one.complete = done
    BY <2>1, YearFields DEF StagedYear
  <2>3. /\ [one EXCEPT !.docs = docs] \in StagedYear /\ [one EXCEPT !.docs = docs].complete = done
        /\ [one EXCEPT !.docs = docs].docs = docs
    BY <1>4, <2>2 DEF StagedYear
  <2> QED BY <1>2, <2>1, <2>3
<1>6. [stage[s].copy EXCEPT !.complete = done] \in House
  BY StageFields DEF House
<1>7. stage' \in [Worker -> StageState]
  BY <1>2, <1>6, FinishMoves
<1>8. OddAreRows' /\ ReportsAreOfTheReading' /\ IncompleteIsSilent'
  BY <1>3, <1>5 DEF OddAreRows, ReportsAreOfTheReading, IncompleteIsSilent
<1> QED BY <1>2, <1>5, <1>7, <1>8, YearFields, WritingYearKeeps

(* A repair takes rows and leaves what the reading was.                    *)
LEMMA RepairKeeps ==
  ASSUME RebuildInv, NEW s \in Worker, promoter # "installed", RepairAuditGaps(s)
  PROVE  RebuildInv'
<1> DEFINE Left(doc) == IF doc.run = "success" THEN doc.rows - doc.odd ELSE 0
           Mended(doc) == [doc EXCEPT !.rows = Left(doc), !.odd = 0,
                             !.count = IF doc.run = "success" THEN Left(doc) ELSE doc.count,
                             !.run = IF doc.run = "success" /\ Left(doc) = 0 THEN "zero_rows" ELSE doc.run]
           docs == [d \in Filing |-> Mended(staged.docs[d])]
<1>1. /\ stage[s].at = "owner" /\ staged' = [staged EXCEPT !.docs = docs]
      /\ mended < MaxMended /\ mended' = mended + 1 /\ Finish(s, stage[s].copy)
      /\ UNCHANGED <<file, manifest, promoter, audited, installed, unsettled, quiet>>
  BY DEF RepairAuditGaps
<1>2. ASSUME NEW d \in Filing
      PROVE  /\ docs[d] \in Document /\ docs[d].odd <= docs[d].rows
             /\ docs[d].report = staged.docs[d].report /\ docs[d].raw = staged.docs[d].raw
  <2>1. PICK old \in Document : old = staged.docs[d] /\ old.odd <= old.rows
    BY YearFields DEF RebuildInv, OddAreRows
  <2>2. PICK left \in Count : left = Left(old)
    BY <2>1, DocumentFields DEF Count
  <2>3. PICK run \in Run : run = IF old.run = "success" /\ Left(old) = 0 THEN "zero_rows" ELSE old.run
    BY DocumentFields DEF Run
  <2>4. PICK counted \in Count : counted = IF old.run = "success" THEN Left(old) ELSE old.count
    BY <2>2, DocumentFields DEF Count
  <2>5. docs[d] = [old EXCEPT !.rows = left, !.odd = 0, !.count = counted, !.run = run]
    BY <2>1, <2>2, <2>3, <2>4
  <2> HIDE DEF docs
  <2>6. PICK one : one = [old EXCEPT !.rows = left]
    OBVIOUS
  <2>7. PICK two : two = [one EXCEPT !.odd = 0]
    OBVIOUS
  <2>8. PICK three : three = [two EXCEPT !.count = counted]
    OBVIOUS
  <2>9. /\ two \in Document /\ two.odd = 0 /\ two.rows = left /\ two.report = old.report /\ two.raw = old.raw
    <3>1. one \in Document /\ one.rows = left /\ one.report = old.report /\ one.raw = old.raw
      BY <2>6 DEF Document
    <3> QED BY <2>7, <3>1 DEF Document, Count
  <2>10. /\ three \in Document /\ three.odd = 0 /\ three.rows = left /\ three.report = old.report /\ three.raw = old.raw
    BY <2>8, <2>9 DEF Document
  <2>11. /\ [three EXCEPT !.run = run] \in Document /\ [three EXCEPT !.run = run].odd = 0
         /\ [three EXCEPT !.run = run].rows = left /\ [three EXCEPT !.run = run].report = old.report
         /\ [three EXCEPT !.run = run].raw = old.raw
    BY <2>10 DEF Document
  <2>12. docs[d] = [three EXCEPT !.run = run]
    BY <2>5, <2>6, <2>7, <2>8
  <2> QED BY <2>1, <2>11, <2>12 DEF Count
<1>3. docs \in [Filing -> Document]
  BY <1>2
<1> HIDE DEF docs
<1>4. staged' \in StagedYear /\ staged'.complete = staged.complete /\ staged'.docs = docs
  BY <1>1, <1>3, YearFields DEF StagedYear
<1>5. stage' \in [Worker -> StageState]
  BY <1>1, StageFields, FinishMoves
<1>6. OddAreRows' /\ ReportsAreOfTheReading' /\ IncompleteIsSilent'
  BY <1>1, <1>2, <1>4 DEF RebuildInv, OddAreRows, ReportsAreOfTheReading, IncompleteIsSilent
<1>7. mended' \in 0 .. MaxMended /\ unsettled' \in BOOLEAN
  BY <1>1, YearFields, RebuildAssumption
<1> QED BY <1>1, <1>4, <1>5, <1>6, <1>7, WritingYearKeeps

LEMMA FetchOtherKeeps ==
  ASSUME RebuildInv, NEW s \in Worker, FetchOther(s)
  PROVE  RebuildInv'
<1>1. /\ Finish(s, stage[s].copy) /\ stage[s].at = "owner"
      /\ UNCHANGED <<staged, file, manifest, promoter, audited, installed, mended, unsettled, quiet>>
  BY DEF FetchOther
<1>2. stage' \in [Worker -> StageState] /\ Owned
  BY <1>1, StageFields, FinishMoves DEF Owned
<1> QED BY <1>1, <1>2, AsideKeeps DEF RebuildInv, RebuildTypeOK

(* The steps of the promotion.  What the audit passes has reports that say *)
(* what is stored, and, once settled, what was read.                       *)
LEMMA PassedYear ==
  ASSUME RebuildInv, Verify(staged, manifest)
  PROVE  /\ staged.complete
         /\ \A d \in Filing : LET doc == staged.docs[d] IN
              Terminal(doc) /\ doc.report = doc.count /\ (unsettled \/ Inventoried(doc))
<1>1. staged.complete
  BY DEF Verify, VerifyHouse
<1>2. ASSUME NEW d \in Filing
      PROVE  /\ Terminal(staged.docs[d]) /\ staged.docs[d].report = staged.docs[d].count
             /\ unsettled \/ Inventoried(staged.docs[d])
  <2>1. PICK doc \in Document : doc = staged.docs[d]
    BY YearFields
  <2>2. Terminal(doc)
    BY <2>1 DEF Verify, VerifyHouse, Unresolved
  <2>3. doc.report = doc.rows
    BY <2>1 DEF Verify, ReconcileReports
  <2>4. doc.report = doc.count /\ doc.report # NoReport
    BY <2>1, <2>2, <2>3, DocumentFields DEF Terminal, NoReport
  <2>5. unsettled \/ doc.raw = doc.count
    BY <2>1, <2>4 DEF RebuildInv, ReportsAreOfTheReading
  <2> QED BY <2>1, <2>2, <2>4, <2>5 DEF Inventoried
<1> QED BY <1>1, <1>2

LEMMA CheckpointKeeps ==
  ASSUME RebuildInv, Checkpoint
  PROVE  RebuildInv'
<1>1. /\ promoter' = "ready" /\ file' = staged /\ quiet' = TRUE /\ ~Owned
      /\ UNCHANGED <<staged, manifest, stage, audited, installed, mended, unsettled>>
  BY DEF Checkpoint
<1>2. QuietStays' /\ InstalledIsAudited'
  BY <1>1 DEF QuietStays, InstalledIsAudited, Owned
<1> QED BY <1>1, <1>2 DEF RebuildInv, RebuildTypeOK, Audited, OddAreRows, ReportsAreOfTheReading, IncompleteIsSilent,
          VerifiedIsRebuildable

LEMMA OpenAuditKeeps ==
  ASSUME RebuildInv, OpenAudit
  PROVE  RebuildInv'
<1>1. PICK passed \in BOOLEAN : passed = Verify(staged, manifest)
  BY DEF Verify, VerifyHouse, ReconcileRuns, ReconcileReports
<1>2. PICK now : now = [of |-> staged, passed |-> passed, file |-> NothingStaged,
                        manifest |-> manifest, unsettled |-> unsettled]
  OBVIOUS
<1>3. /\ promoter = "ready" /\ promoter' = "reading" /\ audited' = now
      /\ UNCHANGED <<staged, file, manifest, stage, installed, mended, unsettled, quiet>>
  BY <1>1, <1>2 DEF OpenAudit
<1>4. now \in Audited
  BY <1>2, NothingIsYear DEF Audited, RebuildInv, RebuildTypeOK
<1>5. now.passed = passed /\ now.of = staged /\ now.unsettled = unsettled
  BY <1>2
<1>6. VerifiedIsRebuildable'
  BY <1>1, <1>3, <1>5, PassedYear DEF VerifiedIsRebuildable
<1>7. QuietStays' /\ InstalledIsAudited'
  BY <1>3, <1>5 DEF RebuildInv, QuietStays, InstalledIsAudited, Owned
<1> QED BY <1>3, <1>4, <1>6, <1>7 DEF RebuildInv, RebuildTypeOK, OddAreRows, ReportsAreOfTheReading, IncompleteIsSilent

LEMMA CloseAuditKeeps ==
  ASSUME RebuildInv, CloseAudit
  PROVE  RebuildInv'
BY DEF CloseAudit, RebuildInv, RebuildTypeOK, OddAreRows, ReportsAreOfTheReading, IncompleteIsSilent,
       VerifiedIsRebuildable, QuietStays, InstalledIsAudited, Owned

LEMMA NoAuditIsOne == NoAudit \in Audited /\ ~NoAudit.passed
BY NothingIsYear, BlankIsHouse DEF NoAudit, Audited

(* The verdict that failed, and the promotion that is refused or killed.   *)
LEMMA GivingUpKeeps ==
  ASSUME RebuildInv, promoter' = "idle", audited' = NoAudit, manifest' \in House,
         UNCHANGED <<staged, file, stage, installed, mended, unsettled, quiet>>
  PROVE  RebuildInv'
BY NoAuditIsOne DEF RebuildInv, RebuildTypeOK, OddAreRows, ReportsAreOfTheReading, IncompleteIsSilent,
       VerifiedIsRebuildable, QuietStays, InstalledIsAudited

LEMMA FingerprintKeeps ==
  ASSUME RebuildInv, Fingerprint
  PROVE  RebuildInv'
<1>1. /\ promoter = "read" /\ manifest' = audited.manifest
      /\ UNCHANGED <<staged, file, stage, installed, mended, unsettled, quiet>>
  BY DEF Fingerprint
<1>2. manifest' \in House /\ audited \in Audited /\ file \in StagedYear
  BY <1>1 DEF RebuildInv, RebuildTypeOK, Audited
<1>3. CASE audited.passed
  <2>1. promoter' = "verified" /\ audited' = [audited EXCEPT !.file = file]
    BY <1>3 DEF Fingerprint
  <2>2. /\ audited' \in Audited /\ audited'.file = file /\ audited'.of = audited.of
        /\ audited'.passed = audited.passed /\ audited'.unsettled = audited.unsettled
    BY <1>2, <2>1 DEF Audited
  <2>3. VerifiedIsRebuildable'
    BY <2>2 DEF RebuildInv, VerifiedIsRebuildable
  <2>4. QuietStays' /\ InstalledIsAudited'
    BY <1>1, <2>1, <2>2 DEF RebuildInv, QuietStays, InstalledIsAudited, Owned
  <2> QED BY <1>1, <1>2, <2>1, <2>2, <2>3, <2>4
          DEF RebuildInv, RebuildTypeOK, OddAreRows, ReportsAreOfTheReading, IncompleteIsSilent
<1>4. CASE ~audited.passed
  BY <1>1, <1>2, <1>4, GivingUpKeeps DEF Fingerprint
<1> QED BY <1>3, <1>4

LEMMA InstallKeeps ==
  ASSUME RebuildInv, Install
  PROVE  RebuildInv'
BY DEF Install, RebuildInv, RebuildTypeOK, OddAreRows, ReportsAreOfTheReading, IncompleteIsSilent,
       VerifiedIsRebuildable, QuietStays, InstalledIsAudited

LEMMA PromotionFailsKeeps ==
  ASSUME RebuildInv, PromotionFails
  PROVE  RebuildInv'
BY GivingUpKeeps DEF PromotionFails, RebuildInv, RebuildTypeOK

LEMMA RebuildSteps == RebuildInv /\ [RebuildNext]_rebuildVars => RebuildInv'
<1> SUFFICES ASSUME RebuildInv, [RebuildNext]_rebuildVars PROVE RebuildInv'
  OBVIOUS
<1>1. ASSUME NEW s \in Worker, StageStep(s), promoter # "installed" PROVE RebuildInv'
  <2>1. ASSUME NEW cmd \in Command, NEW force \in BOOLEAN, TakeLease(s, cmd, force) PROVE RebuildInv'
    BY <1>1, <2>1, TakeLeaseKeeps
  <2>2. ASSUME NEW kept \in SUBSET Filing, FetchHouse(s, kept) PROVE RebuildInv'
    BY <1>1, <2>2, FetchHouseKeeps
  <2>3. ASSUME NEW d \in Filing, NEW run \in Run \ {"none"}, NEW raw \in Count, NEW kept \in Count,
               NEW odd \in Count, PersistBatch(s, d, run, raw, kept, odd)
        PROVE  RebuildInv'
    BY <1>1, <2>3, PersistBatchKeeps
  <2> QED BY <1>1, <2>1, <2>2, <2>3, LoadManifestKeeps, RefreshCompletionKeeps, RepairKeeps, FetchOtherKeeps, LeavingKeeps
          DEF StageStep
<1>2. ASSUME UNCHANGED rebuildVars PROVE RebuildInv'
  BY <1>2 DEF rebuildVars, RebuildInv, RebuildTypeOK, Audited, OddAreRows, ReportsAreOfTheReading, IncompleteIsSilent,
              VerifiedIsRebuildable, QuietStays, InstalledIsAudited, Owned
<1> QED BY <1>1, <1>2, CheckpointKeeps, OpenAuditKeeps, CloseAuditKeeps, FingerprintKeeps, InstallKeeps,
          PromotionFailsKeeps
       DEF RebuildNext

(* The reports of the staged year are those of a complete year; whatever a *)
(* repair, a killed stage or a stale manifest has left, the audit passes a *)
(* year only when every document is stored as its report and its run say;  *)
(* and what is installed, when no stage worked meanwhile, is what passed.  *)
THEOREM RebuildsAreSound == RebuildSpec => []RebuildIsSound
<1>1. RebuildInit => RebuildInv
  BY RebuildStarts
<1>2. RebuildInv /\ [RebuildNext]_rebuildVars => RebuildInv'
  BY RebuildSteps
<1>3. RebuildInv => RebuildIsSound
  BY DEF RebuildInv, RebuildIsSound
<1> QED BY <1>1, <1>2, <1>3, PTL DEF RebuildSpec
=============================================================================
