------------------------- MODULE Portfolios_proofs -------------------------
(* Proofs about the two evaluations of a portfolio: the equal slots of     *)
(* EqualSlot, and the weighted targets of KellyTargets.  They share no     *)
(* state; what they share is that money is a sum over sets of positions.   *)
(* With the results about the sources they make up what Outside states.    *)
EXTENDS Outside, Sources_proofs

-----------------------------------------------------------------------------
(* Sums over finite sets.                                                  *)

LEMMA FromZeroOn ==
  ASSUME NEW S \in SUBSET Nat, 0 \in S, \A n \in S : n + 1 \in S
  PROVE  \A n \in Nat : n \in S
<1> DEFINE less == OpToRel(<, Nat)
<1>1. IsWellFoundedOn(less, Nat)
  BY NatLessThanWellFounded
<1>2. \A x, y \in Nat : x < y => <<x, y>> \in less
  BY DEF OpToRel
<1> HIDE DEF less
<1> SUFFICES ASSUME Nat \ S # {} PROVE FALSE
  OBVIOUS
<1>3. PICK x \in Nat \ S : \A y \in Nat \ S : ~(<<y, x>> \in less)
  <2>1. Nat \ S \in SUBSET Nat
    OBVIOUS
  <2> QED BY <1>1, <2>1, WFMin
<1>4. x # 0 /\ x - 1 \in Nat /\ x - 1 < x
  BY <1>3
<1>5. x - 1 \in S
  BY <1>2, <1>3, <1>4
<1>6. (x - 1) + 1 = x
  BY <1>3
<1> QED BY <1>3, <1>5, <1>6

(* One of a set.                                                           *)
OneOf(s) == CHOOSE x \in s : TRUE

(* The function that SumFunction computes the sum with.                    *)
Folds(g, f, sets) ==
  g = [s \in sets |-> IF s = {} THEN 0 ELSE f[OneOf(s)] + g[s \ {OneOf(s)}]]

(* The sums of f over the subsets of D, whatever is taken first.           *)
IsSum(g, f, D) ==
  /\ g \in [SUBSET D -> Int] /\ g[{}] = 0
  /\ \A s \in SUBSET D, x \in D : x \in s => g[s] = f[x] + g[s \ {x}]

Sized(D, k) == {s \in SUBSET D : Cardinality(s) <= k}

LEMMA SizedSets ==
  ASSUME NEW D, IsFiniteSet(D)
  PROVE  /\ \A s \in Sized(D, 0) : s = {}
         /\ \A k \in Nat : {} \in Sized(D, k) /\ Sized(D, k) \subseteq Sized(D, k + 1)
         /\ \A k \in Nat : \A s \in Sized(D, k + 1) : \A x \in s : s \ {x} \in Sized(D, k)
         /\ \A s \in SUBSET D : \E k \in Nat : s \in Sized(D, k)
<1>1. \A s \in SUBSET D : IsFiniteSet(s) /\ Cardinality(s) \in Nat
  BY FS_Subset, FS_CardinalityType
<1>2. \A s \in Sized(D, 0) : s = {}
  <2> SUFFICES ASSUME NEW s \in Sized(D, 0) PROVE s = {}
    OBVIOUS
  <2>1. s \in SUBSET D /\ Cardinality(s) <= 0
    BY DEF Sized
  <2>2. Cardinality(s) = 0
    BY <1>1, <2>1
  <2> QED BY <1>1, <2>1, <2>2, FS_EmptySet
<1>3. \A k \in Nat : {} \in Sized(D, k) /\ Sized(D, k) \subseteq Sized(D, k + 1)
  <2> SUFFICES ASSUME NEW k \in Nat PROVE {} \in Sized(D, k) /\ Sized(D, k) \subseteq Sized(D, k + 1)
    OBVIOUS
  <2>1. {} \in Sized(D, k)
    BY FS_EmptySet DEF Sized
  <2>2. ASSUME NEW s \in Sized(D, k) PROVE s \in Sized(D, k + 1)
    BY <1>1 DEF Sized
  <2> QED BY <2>1, <2>2
<1>4. ASSUME NEW k \in Nat, NEW s \in Sized(D, k + 1), NEW x \in s PROVE s \ {x} \in Sized(D, k)
  <2>1. s \in SUBSET D /\ Cardinality(s) <= k + 1
    BY DEF Sized
  <2>2. Cardinality(s \ {x}) = Cardinality(s) - 1
    BY <1>1, <2>1, FS_RemoveElement
  <2> QED BY <1>1, <2>1, <2>2 DEF Sized
<1>5. \A s \in SUBSET D : \E k \in Nat : s \in Sized(D, k)
  BY <1>1 DEF Sized
<1> QED BY <1>2, <1>3, <1>4, <1>5

(* The recursion of SumFunction has a solution.                            *)
LEMMA FoldsUpTo ==
  ASSUME NEW D, IsFiniteSet(D), NEW f \in [D -> Int]
  PROVE  \A k \in Nat : \E g \in [Sized(D, k) -> Int] : Folds(g, f, Sized(D, k))
<1> DEFINE has == {k \in Nat : \E g \in [Sized(D, k) -> Int] : Folds(g, f, Sized(D, k))}
<1>1. 0 \in has
  <2> DEFINE g == [s \in Sized(D, 0) |-> 0]
  <2>1. g \in [Sized(D, 0) -> Int] /\ Folds(g, f, Sized(D, 0))
    BY SizedSets DEF Folds
  <2> QED BY <2>1
<1>2. ASSUME NEW k \in has PROVE k + 1 \in has
  <2>1. PICK g \in [Sized(D, k) -> Int] : Folds(g, f, Sized(D, k))
    OBVIOUS
  <2> DEFINE h == [s \in Sized(D, k + 1) |-> IF s = {} THEN 0 ELSE f[OneOf(s)] + g[s \ {OneOf(s)}]]
  <2>2. ASSUME NEW s \in Sized(D, k + 1), s # {}
        PROVE  /\ OneOf(s) \in D /\ s \ {OneOf(s)} \in Sized(D, k)
               /\ f[OneOf(s)] \in Int /\ g[s \ {OneOf(s)}] \in Int
    <3>1. OneOf(s) \in s /\ s \subseteq D
      BY <2>2 DEF OneOf, Sized
    <3>2. k \in Nat
      OBVIOUS
    <3>3. s \ {OneOf(s)} \in Sized(D, k)
      BY <3>1, <3>2, SizedSets
    <3> QED BY <3>1, <3>3
  <2>3. h \in [Sized(D, k + 1) -> Int]
    <3> SUFFICES ASSUME NEW s \in Sized(D, k + 1) PROVE h[s] \in Int
      OBVIOUS
    <3>1. CASE s = {}
      BY <3>1
    <3>2. CASE s # {}
      <4>1. PICK a \in Int : a = f[OneOf(s)]
        BY <2>2, <3>2
      <4>2. PICK b \in Int : b = g[s \ {OneOf(s)}]
        BY <2>2, <3>2
      <4>3. h[s] = a + b
        BY <3>2, <4>1, <4>2
      <4> QED BY <4>3
    <3> QED BY <3>1, <3>2
  <2>4. \A s \in Sized(D, k) : s \in Sized(D, k + 1) /\ h[s] = g[s]
    <3>1. k \in Nat
      OBVIOUS
    <3>2. \A s \in Sized(D, k) : s \in Sized(D, k + 1)
      BY <3>1, SizedSets
    <3> QED BY <2>1, <3>2 DEF Folds
  <2>5. \A s \in Sized(D, k + 1) : h[s] = IF s = {} THEN 0 ELSE f[OneOf(s)] + h[s \ {OneOf(s)}]
    BY <2>2, <2>4
  <2>6. Folds(h, f, Sized(D, k + 1))
    <3> HIDE DEF h
    <3> QED BY <2>3, <2>5 DEF Folds
  <2> HIDE DEF h
  <2>7. \E x \in [Sized(D, k + 1) -> Int] : Folds(x, f, Sized(D, k + 1))
    BY <2>3, <2>6
  <2> QED BY <2>7
<1>3. has \in SUBSET Nat
  OBVIOUS
<1> HIDE DEF has
<1>4. \A k \in Nat : k \in has
  BY <1>1, <1>2, <1>3, FromZeroOn
<1> QED BY <1>4 DEF has

(* What is taken first makes no difference.                                *)
LEMMA FoldsCommute ==
  ASSUME NEW D, IsFiniteSet(D), NEW f \in [D -> Int], NEW g, Folds(g, f, SUBSET D)
  PROVE  IsSum(g, f, D)
<1>1. g[{}] = 0
  BY DEF Folds
<1>2. \A s \in SUBSET D : s # {} => /\ OneOf(s) \in s /\ OneOf(s) \in D
                                   /\ g[s] = f[OneOf(s)] + g[s \ {OneOf(s)}]
  BY DEF Folds, OneOf
<1> DEFINE has == {k \in Nat : \A s \in Sized(D, k) :
                     g[s] \in Int /\ \A x \in s : g[s] = f[x] + g[s \ {x}]}
<1>3. 0 \in has
  <2>1. \A s \in Sized(D, 0) : s = {}
    BY SizedSets
  <2>2. ASSUME NEW s \in Sized(D, 0) PROVE g[s] \in Int /\ \A x \in s : g[s] = f[x] + g[s \ {x}]
    <3>1. s = {}
      BY <2>1
    <3>2. g[s] = 0 /\ \A x \in s : FALSE
      BY <1>1, <3>1
    <3> QED BY <3>2
  <2> QED BY <2>2
<1>4. ASSUME NEW k \in has PROVE k + 1 \in has
  <2>1. k \in Nat /\ \A s \in Sized(D, k) : g[s] \in Int /\ \A x \in s : g[s] = f[x] + g[s \ {x}]
    OBVIOUS
  <2> HIDE DEF has
  <2>2. ASSUME NEW s \in Sized(D, k + 1) PROVE g[s] \in Int /\ \A x \in s : g[s] = f[x] + g[s \ {x}]
    <3>0. s \in SUBSET D
      BY DEF Sized
    <3>1. CASE s = {}
      BY <1>1, <3>1
    <3>2. CASE s # {}
      <4>1. PICK y : y = OneOf(s)
        OBVIOUS
      <4>2. y \in s /\ y \in D /\ g[s] = f[y] + g[s \ {y}]
        BY <1>2, <3>0, <3>2, <4>1
      <4>3. \A x \in s : s \ {x} \in Sized(D, k)
        BY <2>1, SizedSets
      <4>4. PICK a \in Int : a = f[y]
        BY <4>2
      <4>5. PICK b \in Int : b = g[s \ {y}]
        BY <2>1, <4>2, <4>3
      <4>6. g[s] \in Int
        BY <4>2, <4>4, <4>5
      <4>7. ASSUME NEW x \in s, x # y PROVE g[s] = f[x] + g[s \ {x}]
        <5>1. x \in s \ {y} /\ y \in s \ {x} /\ x \in D
          BY <3>0, <4>2, <4>7
        <5>2. (s \ {y}) \ {x} = (s \ {x}) \ {y}
          OBVIOUS
        <5>3. PICK c \in Int : c = g[s \ {x}]
          BY <2>1, <4>3
        <5>4. PICK d : d = g[(s \ {y}) \ {x}]
          OBVIOUS
        <5>5. b = f[x] + d
          BY <2>1, <4>2, <4>3, <4>5, <5>1, <5>4
        <5>6. c = a + d
          <6>1. g[s \ {x}] = f[y] + g[(s \ {x}) \ {y}]
            BY <2>1, <4>3, <5>1
          <6> QED BY <4>4, <5>2, <5>3, <5>4, <6>1
        <5>7. PICK e \in Int : e = f[x]
          BY <5>1
        <5>8. d \in Int
          <6>1. Sized(D, k) \subseteq Sized(D, k + 1)
            BY <2>1, SizedSets
          <6>2. s \ {y} \in Sized(D, k + 1) /\ x \in s \ {y}
            BY <4>2, <4>3, <5>1, <6>1
          <6>3. (s \ {y}) \ {x} \in Sized(D, k)
            BY <2>1, <6>2, SizedSets
          <6> QED BY <2>1, <5>4, <6>3
        <5>9. g[s] = a + b
          BY <4>2, <4>4, <4>5
        <5> QED BY <5>3, <5>5, <5>6, <5>7, <5>8, <5>9
      <4> QED BY <4>2, <4>6, <4>7
    <3> QED BY <3>1, <3>2
  <2> QED BY <2>1, <2>2 DEF has
<1>5. has \in SUBSET Nat
  OBVIOUS
<1> HIDE DEF has
<1>6. \A k \in Nat : k \in has
  BY <1>3, <1>4, <1>5, FromZeroOn
<1>7. \A s \in SUBSET D : g[s] \in Int /\ \A x \in s : g[s] = f[x] + g[s \ {x}]
  <2> SUFFICES ASSUME NEW s \in SUBSET D PROVE g[s] \in Int /\ \A x \in s : g[s] = f[x] + g[s \ {x}]
    OBVIOUS
  <2>1. PICK k \in Nat : s \in Sized(D, k)
    BY SizedSets
  <2>2. k \in has
    BY <1>6
  <2> QED BY <2>1, <2>2 DEF has
<1>8. g = [s \in SUBSET D |-> g[s]]
  BY DEF Folds
<1>9. g \in [SUBSET D -> Int]
  BY <1>7, <1>8
<1> QED BY <1>1, <1>7, <1>9 DEF IsSum

LEMMA SumIsUnique ==
  ASSUME NEW D, IsFiniteSet(D), NEW f \in [D -> Int], NEW g, NEW h, IsSum(g, f, D), IsSum(h, f, D)
  PROVE  \A s \in SUBSET D : g[s] = h[s]
<1> DEFINE has == {k \in Nat : \A s \in Sized(D, k) : g[s] = h[s]}
<1>1. 0 \in has
  BY SizedSets DEF IsSum
<1>2. ASSUME NEW k \in has PROVE k + 1 \in has
  <2>1. k \in Nat /\ \A s \in Sized(D, k) : g[s] = h[s]
    OBVIOUS
  <2> HIDE DEF has
  <2>2. ASSUME NEW s \in Sized(D, k + 1) PROVE g[s] = h[s]
    <3>0. s \in SUBSET D
      BY DEF Sized
    <3>1. CASE s = {}
      BY <3>1 DEF IsSum
    <3>2. ASSUME NEW x \in s PROVE g[s] = h[s]
      <4>1. s \ {x} \in Sized(D, k)
        BY <2>1, SizedSets
      <4>2. g[s] = f[x] + g[s \ {x}] /\ h[s] = f[x] + h[s \ {x}]
        BY <3>0 DEF IsSum
      <4> QED BY <2>1, <4>1, <4>2
    <3> QED BY <3>1, <3>2
  <2> QED BY <2>1, <2>2 DEF has
<1>3. has \in SUBSET Nat
  OBVIOUS
<1> HIDE DEF has
<1>4. \A k \in Nat : k \in has
  BY <1>1, <1>2, <1>3, FromZeroOn
<1> QED BY <1>4, SizedSets DEF has

LEMMA SumComputes ==
  ASSUME NEW D, IsFiniteSet(D), NEW f \in [D -> Int]
  PROVE  \E g : IsSum(g, f, D) /\ SumFunction(f) = g[D]
<1>1. PICK n \in Nat : n = Cardinality(D)
  BY FS_CardinalityType
<1>2. Sized(D, n) = SUBSET D
  BY <1>1, FS_Subset DEF Sized
<1>3. \E g : Folds(g, f, SUBSET D)
  <2>1. \E g \in [Sized(D, n) -> Int] : Folds(g, f, Sized(D, n))
    BY FoldsUpTo
  <2> QED BY <1>2, <2>1
<1>4. PICK s : Folds(s, f, SUBSET D) /\ SumFunction(f) = s[D]
  <2> DEFINE t == CHOOSE g : Folds(g, f, SUBSET D)
  <2>1. Folds(t, f, SUBSET D)
    BY <1>3
  <2>2. DOMAIN f = D
    OBVIOUS
  <2>3. SumFunction(f) = t[D]
    BY <2>2 DEF SumFunction, SumFunctionOnSet, FoldFunctionOnSet, MapThenFoldSet, Folds, OneOf
  <2> HIDE DEF t
  <2> QED BY <2>1, <2>3
<1> QED BY <1>4, FoldsCommute

(* One function gives the sums over all subsets.                           *)
LEMMA SumsAre ==
  ASSUME NEW D, IsFiniteSet(D), NEW f \in [D -> Int]
  PROVE  \E g : IsSum(g, f, D) /\ \A T \in SUBSET D : SumFunction([x \in T |-> f[x]]) = g[T]
<1>1. PICK g : IsSum(g, f, D)
  BY SumComputes
<1>2. ASSUME NEW T \in SUBSET D PROVE SumFunction([x \in T |-> f[x]]) = g[T]
  <2> DEFINE r == [x \in T |-> f[x]]
             c == [s \in SUBSET T |-> g[s]]
  <2>1. r \in [T -> Int] /\ IsFiniteSet(T)
    BY FS_Subset
  <2>2. IsSum(c, r, T)
    <3>1. c \in [SUBSET T -> Int] /\ c[{}] = 0
      BY <1>1 DEF IsSum
    <3>2. ASSUME NEW s \in SUBSET T, NEW x \in T, x \in s PROVE c[s] = r[x] + c[s \ {x}]
      <4>1. s \in SUBSET D /\ x \in D /\ s \ {x} \in SUBSET T
        OBVIOUS
      <4>2. g[s] = f[x] + g[s \ {x}]
        BY <1>1, <3>2, <4>1 DEF IsSum
      <4> QED BY <4>1, <4>2
    <3> HIDE DEF r, c
    <3> QED BY <3>1, <3>2 DEF IsSum
  <2>3. c[T] = g[T]
    OBVIOUS
  <2> HIDE DEF r, c
  <2>4. PICK h : IsSum(h, r, T) /\ SumFunction(r) = h[T]
    BY <2>1, SumComputes
  <2>5. h[T] = c[T]
    BY <2>1, <2>2, <2>4, SumIsUnique
  <2>6. SumFunction(r) = g[T]
    BY <2>3, <2>4, <2>5
  <2> QED BY <2>6 DEF r
<1> QED BY <1>1, <1>2

LEMMA SumOfNone ==
  ASSUME NEW f, DOMAIN f = {}, f = [x \in {} |-> f[x]]
  PROVE  SumFunction(f) = 0
<1>1. IsFiniteSet({})
  BY FS_EmptySet
<1>2. f \in [{} -> Int]
  OBVIOUS
<1>3. PICK g : IsSum(g, f, {}) /\ SumFunction(f) = g[{}]
  BY <1>1, <1>2, SumComputes
<1> QED BY <1>3 DEF IsSum

LEMMA SumTyped ==
  ASSUME NEW D, IsFiniteSet(D), NEW f \in [D -> Int]
  PROVE  SumFunction(f) \in Int
<1>1. PICK g : IsSum(g, f, D) /\ SumFunction(f) = g[D]
  BY SumComputes
<1> QED BY <1>1 DEF IsSum

(* A set in two parts.                                                     *)
LEMMA SumSplits ==
  ASSUME NEW D, IsFiniteSet(D), NEW f \in [D -> Int], NEW S, NEW T, D = S \cup T, S \cap T = {}
  PROVE  SumFunction(f) = SumFunction([x \in S |-> f[x]]) + SumFunction([x \in T |-> f[x]])
<1>1. PICK g : IsSum(g, f, D) /\ \A U \in SUBSET D : SumFunction([x \in U |-> f[x]]) = g[U]
  BY SumsAre
<1> DEFINE has == {k \in Nat : \A U \in Sized(D, k) : U \cap S = {} => g[S \cup U] = g[S] + g[U]}
<1>2. g[S] \in Int /\ g[{}] = 0
  BY <1>1 DEF IsSum
<1>3. 0 \in has
  <2>1. ASSUME NEW U \in Sized(D, 0) PROVE g[S \cup U] = g[S] + g[U]
    <3>1. U = {}
      BY SizedSets
    <3>2. S \cup U = S /\ g[U] = 0
      BY <1>2, <3>1
    <3> QED BY <1>2, <3>2
  <2> QED BY <2>1
<1>4. ASSUME NEW k \in has PROVE k + 1 \in has
  <2>1. k \in Nat /\ \A U \in Sized(D, k) : U \cap S = {} => g[S \cup U] = g[S] + g[U]
    OBVIOUS
  <2> HIDE DEF has
  <2>2. ASSUME NEW U \in Sized(D, k + 1), U \cap S = {} PROVE g[S \cup U] = g[S] + g[U]
    <3>1. CASE U = {}
      <4>1. S \cup U = S
        BY <3>1
      <4>2. g[S \cup U] = g[S]
        BY <4>1
      <4>3. g[U] = 0
        BY <1>2, <3>1
      <4> QED BY <1>2, <4>2, <4>3
    <3>2. ASSUME NEW x \in U PROVE g[S \cup U] = g[S] + g[U]
      <4>1. U \in SUBSET D /\ x \in D /\ S \cup U \in SUBSET D /\ U \ {x} \in SUBSET D
        BY DEF Sized
      <4>2. (S \cup U) \ {x} = S \cup (U \ {x}) /\ (U \ {x}) \cap S = {}
        BY <2>2
      <4>3. g[S \cup U] = f[x] + g[S \cup (U \ {x})]
        <5>1. x \in S \cup U
          OBVIOUS
        <5>2. g[S \cup U] = f[x] + g[(S \cup U) \ {x}]
          BY <1>1, <4>1, <5>1 DEF IsSum
        <5> QED BY <4>2, <5>2
      <4>4. g[U] = f[x] + g[U \ {x}]
        BY <1>1, <4>1 DEF IsSum
      <4>5. g[S \cup (U \ {x})] = g[S] + g[U \ {x}]
        BY <2>1, <4>2, SizedSets
      <4>6. f[x] \in Int /\ g[U \ {x}] \in Int
        BY <1>1, <4>1 DEF IsSum
      <4> QED BY <1>2, <4>3, <4>4, <4>5, <4>6
    <3> QED BY <3>1, <3>2
  <2>3. k + 1 \in Nat
    BY <2>1
  <2> QED BY <2>2, <2>3 DEF has
<1>5. has \in SUBSET Nat
  OBVIOUS
<1> HIDE DEF has
<1>6. \A k \in Nat : k \in has
  BY <1>3, <1>4, <1>5, FromZeroOn
<1>7. g[S \cup T] = g[S] + g[T]
  <2>1. T \in SUBSET D
    OBVIOUS
  <2>2. PICK k \in Nat : T \in Sized(D, k)
    BY <2>1, SizedSets
  <2>3. k \in has
    BY <1>6
  <2> QED BY <2>2, <2>3 DEF has
<1>8. f = [x \in D |-> f[x]]
  OBVIOUS
<1>9. SumFunction(f) = g[D] /\ SumFunction([x \in S |-> f[x]]) = g[S] /\ SumFunction([x \in T |-> f[x]]) = g[T]
  BY <1>1, <1>8
<1> QED BY <1>7, <1>9

LEMMA SumOfOne ==
  ASSUME NEW x, NEW f \in [{x} -> Int]
  PROVE  SumFunction(f) = f[x]
<1>1. IsFiniteSet({x})
  BY FS_Singleton
<1>2. PICK g : IsSum(g, f, {x}) /\ SumFunction(f) = g[{x}]
  BY <1>1, SumComputes
<1>3. g[{x}] = f[x] + g[{x} \ {x}]
  BY <1>2 DEF IsSum
<1>4. {x} \ {x} = {}
  OBVIOUS
<1>5. g[{x}] = f[x] + 0
  BY <1>2, <1>3, <1>4 DEF IsSum
<1> QED BY <1>2, <1>5

(* The elements under other names.                                         *)
LEMMA SumRenames ==
  ASSUME NEW D, IsFiniteSet(D), NEW E, NEW h \in [D -> E],
         \A x, y \in D : h[x] = h[y] => x = y, \A e \in E : \E x \in D : h[x] = e,
         NEW f \in [E -> Int]
  PROVE  IsFiniteSet(E) /\ SumFunction(f) = SumFunction([x \in D |-> f[h[x]]])
<1> DEFINE r == [x \in D |-> f[h[x]]]
           Image(s) == {h[x] : x \in s}
<1>1. IsFiniteSet(E)
  <2>1. h \in Surjection(D, E)
    BY DEF Surjection
  <2> QED BY <2>1, FS_Surjection
<1>2. r \in [D -> Int]
  OBVIOUS
<1>3. PICK g : IsSum(g, f, E) /\ SumFunction(f) = g[E]
  BY <1>1, SumComputes
<1> DEFINE c == [s \in SUBSET D |-> g[Image(s)]]
<1>4. IsSum(c, r, D)
  <2>1. \A s \in SUBSET D : Image(s) \in SUBSET E
    OBVIOUS
  <2>2. Image({}) = {}
    OBVIOUS
  <2>3. ASSUME NEW s \in SUBSET D, NEW x \in D, x \in s PROVE c[s] = r[x] + c[s \ {x}]
    <3>1. Image(s) \ {h[x]} = Image(s \ {x})
      BY <2>3
    <3>2. h[x] \in Image(s) /\ h[x] \in E /\ Image(s) \in SUBSET E
      BY <2>3
    <3> HIDE DEF Image
    <3>3. g[Image(s)] = f[h[x]] + g[Image(s) \ {h[x]}]
      BY <1>3, <3>2 DEF IsSum
    <3> QED BY <3>1, <3>3
  <2>4. c \in [SUBSET D -> Int] /\ c[{}] = 0
    <3> HIDE DEF Image
    <3>1. ASSUME NEW s \in SUBSET D PROVE g[Image(s)] \in Int
      <4>1. PICK i \in SUBSET E : i = Image(s)
        BY <2>1
      <4>2. g \in [SUBSET E -> Int]
        BY <1>3 DEF IsSum
      <4> QED BY <4>1, <4>2
    <3>2. g[{}] = 0
      BY <1>3 DEF IsSum
    <3>3. c[{}] = g[Image({})]
      OBVIOUS
    <3>4. c[{}] = 0
      BY <2>2, <3>2, <3>3
    <3> QED BY <3>1, <3>4
  <2> HIDE DEF c, r
  <2> QED BY <2>3, <2>4 DEF IsSum
<1>5. c[D] = g[E]
  <2>1. Image(D) = E
    OBVIOUS
  <2> HIDE DEF Image
  <2> QED BY <2>1
<1> HIDE DEF c, r
<1>6. PICK k : IsSum(k, r, D) /\ SumFunction(r) = k[D]
  BY <1>2, SumComputes
<1>7. k[D] = c[D]
  BY <1>2, <1>4, <1>6, SumIsUnique
<1>8. SumFunction(f) = SumFunction(r)
  BY <1>3, <1>5, <1>6, <1>7
<1> QED BY <1>1, <1>8 DEF r

LEMMA SumOfDifferences ==
  ASSUME NEW D, IsFiniteSet(D), NEW f \in [D -> Int], NEW h \in [D -> Int]
  PROVE  SumFunction([x \in D |-> f[x] - h[x]]) = SumFunction(f) - SumFunction(h)
<1> DEFINE r == [x \in D |-> f[x] - h[x]]
<1>1. PICK a : IsSum(a, f, D) /\ SumFunction(f) = a[D]
  BY SumComputes
<1>2. PICK b : IsSum(b, h, D) /\ SumFunction(h) = b[D]
  BY SumComputes
<1> DEFINE c == [s \in SUBSET D |-> a[s] - b[s]]
<1>3. r \in [D -> Int]
  OBVIOUS
<1>4. IsSum(c, r, D)
  <2>1. c \in [SUBSET D -> Int] /\ c[{}] = 0
    BY <1>1, <1>2 DEF IsSum
  <2>2. ASSUME NEW s \in SUBSET D, NEW x \in D, x \in s PROVE c[s] = r[x] + c[s \ {x}]
    <3>1. s \ {x} \in SUBSET D
      OBVIOUS
    <3>2. PICK m \in Int : m = a[s \ {x}]
      BY <1>1, <3>1 DEF IsSum
    <3>3. PICK n \in Int : n = b[s \ {x}]
      BY <1>2, <3>1 DEF IsSum
    <3>4. PICK u \in Int : u = f[x]
      OBVIOUS
    <3>5. PICK v \in Int : v = h[x]
      OBVIOUS
    <3>6. a[s] = u + m /\ b[s] = v + n
      BY <1>1, <1>2, <2>2, <3>2, <3>3, <3>4, <3>5 DEF IsSum
    <3>7. c[s] = (u + m) - (v + n) /\ r[x] = u - v /\ c[s \ {x}] = m - n
      BY <3>1, <3>2, <3>3, <3>4, <3>5, <3>6
    <3> HIDE DEF c, r
    <3> QED BY <3>7
  <2> HIDE DEF c, r
  <2> QED BY <2>1, <2>2 DEF IsSum
<1>5. c[D] = a[D] - b[D]
  OBVIOUS
<1> HIDE DEF c, r
<1>6. PICK k : IsSum(k, r, D) /\ SumFunction(r) = k[D]
  BY <1>3, SumComputes
<1>7. k[D] = c[D]
  BY <1>3, <1>4, <1>6, SumIsUnique
<1>8. SumFunction(r) = SumFunction(f) - SumFunction(h)
  BY <1>1, <1>2, <1>5, <1>6, <1>7
<1> QED BY <1>8 DEF r

LEMMA SumIsNat ==
  ASSUME NEW D, IsFiniteSet(D), NEW f \in [D -> Nat]
  PROVE  SumFunction(f) \in Nat
<1>1. f \in [D -> Int]
  OBVIOUS
<1>2. PICK g : IsSum(g, f, D) /\ SumFunction(f) = g[D]
  BY <1>1, SumComputes
<1> DEFINE has == {k \in Nat : \A s \in Sized(D, k) : g[s] \in Nat}
<1>3. 0 \in has
  <2>1. ASSUME NEW s \in Sized(D, 0) PROVE g[s] \in Nat
    <3>1. s = {}
      BY SizedSets
    <3> QED BY <1>2, <3>1 DEF IsSum
  <2> QED BY <2>1
<1>4. ASSUME NEW k \in has PROVE k + 1 \in has
  <2>1. k \in Nat /\ \A s \in Sized(D, k) : g[s] \in Nat
    OBVIOUS
  <2> HIDE DEF has
  <2>2. ASSUME NEW s \in Sized(D, k + 1) PROVE g[s] \in Nat
    <3>1. CASE s = {}
      BY <1>2, <3>1 DEF IsSum
    <3>2. ASSUME NEW x \in s PROVE g[s] \in Nat
      <4>1. s \in SUBSET D /\ x \in D
        BY DEF Sized
      <4>2. g[s] = f[x] + g[s \ {x}]
        BY <1>2, <4>1 DEF IsSum
      <4>3. s \ {x} \in Sized(D, k)
        BY <2>1, SizedSets
      <4> QED BY <2>1, <4>1, <4>2, <4>3
    <3> QED BY <3>1, <3>2
  <2>3. k + 1 \in Nat
    BY <2>1
  <2> QED BY <2>2, <2>3 DEF has
<1>5. has \in SUBSET Nat
  OBVIOUS
<1> HIDE DEF has
<1>6. \A k \in Nat : k \in has
  BY <1>3, <1>4, <1>5, FromZeroOn
<1>7. PICK k \in Nat : D \in Sized(D, k)
  BY SizedSets
<1>8. k \in has
  BY <1>6
<1> QED BY <1>2, <1>7, <1>8 DEF has

LEMMA ImageIs ==
  ASSUME NEW S, IsFiniteSet(S), NEW h, DOMAIN h = S
  PROVE  /\ IsFiniteSet({h[x] : x \in S}) /\ Cardinality({h[x] : x \in S}) <= Cardinality(S)
         /\ (\A x, y \in S : h[x] = h[y] => x = y) => Cardinality({h[x] : x \in S}) = Cardinality(S)
<1> DEFINE T == {h[x] : x \in S}
           g == [x \in S |-> h[x]]
<1>1. g \in Surjection(S, T)
  BY DEF Surjection
<1>2. (\A x, y \in S : h[x] = h[y] => x = y) => g \in Injection(S, T)
  BY DEF Injection, IsInjective
<1> HIDE DEF g, T
<1>3. /\ IsFiniteSet(T) /\ Cardinality(T) <= Cardinality(S)
      /\ (\A x, y \in S : h[x] = h[y] => x = y) => Cardinality(T) = Cardinality(S)
  BY <1>1, <1>2, FS_Surjection
<1> QED BY <1>3 DEF T

-----------------------------------------------------------------------------
(* First and last of a set of days.                                        *)

LEMMA LeastDay ==
  ASSUME NEW S \in SUBSET Nat, S # {}
  PROVE  Min(S) \in S /\ \A d \in S : Min(S) <= d
<1> DEFINE less == OpToRel(<, Nat)
<1>1. IsWellFoundedOn(less, Nat)
  BY NatLessThanWellFounded
<1>2. \A x, y \in Nat : x < y => <<x, y>> \in less
  BY DEF OpToRel
<1> HIDE DEF less
<1>3. PICK x \in S : \A y \in S : ~(<<y, x>> \in less)
  BY <1>1, WFMin
<1>4. ASSUME NEW y \in S PROVE x <= y
  <2>1. x \in Nat /\ y \in Nat
    BY <1>3
  <2>2. ~(<<y, x>> \in less)
    BY <1>3
  <2>3. ~(y < x)
    BY <1>2, <2>1, <2>2
  <2> QED BY <2>1, <2>3
<1>5. \E m \in S : \A d \in S : m <= d
  BY <1>3, <1>4
<1> QED BY <1>5 DEF Min

LEMMA GreatestDay ==
  ASSUME NEW n \in Nat, NEW S \in SUBSET (0 .. n), S # {}
  PROVE  Max(S) \in S /\ \A d \in S : d <= Max(S)
<1> DEFINE above == {k \in Nat : \A d \in S : d <= k}
<1>1. n \in above
  OBVIOUS
<1>2. Min(above) \in above /\ \A k \in above : Min(above) <= k
  <2>1. above \in SUBSET Nat
    OBVIOUS
  <2> HIDE DEF above
  <2> QED BY <1>1, <2>1, LeastDay
<1>3. PICK m \in Nat : m = Min(above) /\ m \in above
  BY <1>2
<1>4. m \in S
  <2> SUFFICES ASSUME m \notin S PROVE FALSE
    OBVIOUS
  <2>1. PICK d \in S : TRUE
    OBVIOUS
  <2>2. \A e \in S : e \in Nat /\ e <= m - 1
    BY <1>3
  <2>3. m - 1 \in Nat
    BY <1>3, <2>1, <2>2
  <2>4. m - 1 \in above
    BY <2>2, <2>3
  <2>5. m <= m - 1
    BY <1>2, <1>3, <2>4
  <2> QED BY <2>5
<1>5. \A d \in S : m >= d
  BY <1>3
<1>6. \E x \in S : \A y \in S : x >= y
  BY <1>4, <1>5
<1>7. Max(S) \in S /\ \A y \in S : Max(S) >= y
  BY <1>6 DEF Max
<1> QED BY <1>7

LEMMA FiniteHasGreatest ==
  ASSUME NEW S \in SUBSET Nat, S # {}, IsFiniteSet(S)
  PROVE  Max(S) \in S /\ \A d \in S : d <= Max(S)
<1> DEFINE has == {k \in Nat : \A s \in Sized(S, k) : \E n \in Nat : \A d \in s : d <= n}
<1>1. 0 \in has
  <2>1. ASSUME NEW s \in Sized(S, 0) PROVE \E n \in Nat : \A d \in s : d <= n
    <3>1. s = {}
      BY SizedSets
    <3>2. \A d \in s : d <= 0
      BY <3>1
    <3> QED BY <3>2
  <2> QED BY <2>1
<1>2. ASSUME NEW k \in has PROVE k + 1 \in has
  <2>1. k \in Nat /\ \A s \in Sized(S, k) : \E n \in Nat : \A d \in s : d <= n
    OBVIOUS
  <2> HIDE DEF has
  <2>2. ASSUME NEW s \in Sized(S, k + 1) PROVE \E n \in Nat : \A d \in s : d <= n
    <3>1. CASE s = {}
      <4>1. \A d \in s : d <= 0
        BY <3>1
      <4> QED BY <4>1
    <3>2. ASSUME NEW x \in s PROVE \E n \in Nat : \A d \in s : d <= n
      <4>1. s \ {x} \in Sized(S, k) /\ s \in SUBSET Nat /\ x \in Nat
        BY <2>1, SizedSets DEF Sized
      <4>2. PICK n \in Nat : \A d \in s \ {x} : d <= n
        BY <2>1, <4>1
      <4>3. n + x \in Nat /\ \A d \in s : d <= n + x
        BY <4>1, <4>2
      <4> QED BY <4>3
    <3> QED BY <3>1, <3>2
  <2>3. k + 1 \in Nat
    BY <2>1
  <2> QED BY <2>2, <2>3 DEF has
<1>3. has \in SUBSET Nat
  OBVIOUS
<1> HIDE DEF has
<1>4. \A k \in Nat : k \in has
  BY <1>1, <1>2, <1>3, FromZeroOn
<1>5. PICK k \in Nat : S \in Sized(S, k)
  BY SizedSets
<1>6. k \in has
  BY <1>4
<1>7. PICK n \in Nat : \A d \in S : d <= n
  BY <1>5, <1>6 DEF has
<1>8. S \in SUBSET (0 .. n)
  BY <1>7
<1> QED BY <1>8, GreatestDay

LEMMA ProductIsNat ==
  ASSUME NEW a \in Nat, NEW b \in Nat
  PROVE  a * b \in Nat /\ (a > 0 /\ b > 0 => a * b > 0)
OBVIOUS

LEMMA QuotientFits ==
  ASSUME NEW a \in Nat, NEW b \in Nat \ {0}
  PROVE  a \div b \in Nat /\ (a \div b) * b <= a
OBVIOUS

-----------------------------------------------------------------------------
(* The equal slots.                                                        *)
Holding == [ticker : Slotted, signalled : Nat, entered : TradingDay, shares : Nat \ {0}, cost : Nat \ {0}]
PendingOrder == [ticker : Slotted, signalled : Nat, execution : TradingDay, score : Int]
Sale == [position : Holding, exited : TradingDay, proceeds : Nat \ {0}]
Obstacles == {"max_positions", "execution_date_mismatch", "portfolio_valuation_unavailable", "insufficient_cash"}
Hindrances == {"already_held_or_pending", "no_price_history", "no_next_tradable_session"}
Refusal == [ticker : Slotted, day : Nat, reason : Obstacles \cup Hindrances]
Book ==
  [cash : Nat, positions : SUBSET Holding, pending : SUBSET PendingOrder, closed : SUBSET Sale,
   rejected : SUBSET Refusal, scheduled : SUBSET (Nat \X Slotted)]
SnapshotRow == [day : Nat, cash : Nat, total : Int, held : SUBSET Holding, realized : Int, unrealized : Int]

TaskTyped ==
  /\ task \in [status : {"set"}, quotes : [Slotted -> QuotePath], signals : SignalPlan, slots : SlotCount,
               end : WindowEnd]
  /\ clock \in [day : 1 .. task.end, step : {"exit", "enter", "done", "reported"}]
  /\ clock.step \in {"done", "reported"} => clock.day = task.end
BookTyped ==
  /\ book \in Book
  /\ \A s \in {book.positions, book.pending, book.closed, book.rejected, book.scheduled} : IsFiniteSet(s)
CurveTyped == curve \in [snapshots : SUBSET SnapshotRow, gaps : SUBSET Nat]

(* Everything happens in the order of the calendar.                        *)
UpToNow(d) == IF clock.step = "exit" THEN d < clock.day ELSE d <= clock.day
DatesHold ==
  /\ \A p \in Positions :
       /\ p.entered = NextSession(p.signalled) /\ UpToNow(p.entered)
       /\ p.cost = p.shares * Quote(p.ticker, p.entered) * (Unit + EntrySlippage)
  /\ \A o \in book.pending :
       /\ o.execution = NextSession(o.signalled) /\ Quote(o.ticker, o.execution) > 0
       /\ clock.step \in {"exit", "enter"} => o.signalled < clock.day
SalesHold ==
  \A c \in book.closed :
    /\ c = Closed(c.position) /\ c.position \notin book.positions /\ c.position.entered < clock.day
    /\ c.exited \in c.position.entered .. c.position.entered + HOLD_PERIOD
BalanceHolds ==
  /\ book.cash + Spent = Capital + Realized
  /\ \A s \in curve.snapshots : s.total = Capital + s.realized + s.unrealized
TickersHold ==
  /\ Cardinality(book.positions) <= task.slots
  /\ \A p, q \in book.positions : p.ticker = q.ticker => p = q
  /\ \A p, q \in book.pending : p.ticker = q.ticker => p = q
  /\ \A p \in book.positions, q \in book.pending : p.ticker # q.ticker
AnswersHold ==
  /\ EveryOrderIsAnswered
  /\ \A e \in book.scheduled : clock.step \in {"exit", "enter"} => e[1] < clock.day
  /\ \A r \in book.rejected :
       /\ UpToNow(r.day)
       /\ (clock.step = "enter" /\ r.day = clock.day) =>
            r.reason \in Obstacles /\ \A o \in book.pending : o.ticker # r.ticker
DaysHold ==
  /\ DaysAreAccounted
  /\ \A s, u \in curve.snapshots : s.day = u.day => s = u
  /\ (clock.step \in {"done", "reported"} /\ AllMarked) =>
       \E s \in curve.snapshots : s.day = task.end /\ s.total = book.cash + Exposure
MetricsHold ==
  /\ clock.step # "reported" => metrics = Unset
  /\ MetricsAreOfTheEnd
SlotInv ==
  clock.step # "idle" =>
    /\ TaskTyped /\ BookTyped /\ CurveTyped /\ DatesHold /\ SalesHold /\ BalanceHolds /\ TickersHold
    /\ AnswersHold /\ DaysHold /\ MetricsHold /\ ExitsAreTimely

LEMMA QuoteIsNat ==
  ASSUME TaskTyped
  PROVE  \A t \in Slotted : \A s : Quote(t, s) \in Nat
BY EqualSlotAssumption DEF TaskTyped, Quote

LEMMA LiquidationIs ==
  ASSUME NEW shares \in Nat, NEW price \in Nat
  PROVE  /\ Liquidation(shares, price) \in Nat
         /\ shares > 0 /\ price > 0 => Liquidation(shares, price) > 0
<1>1. PICK k \in Nat \ {0} : k = Unit - ExitSlippage
  BY EqualSlotAssumption DEF EqualSlotAssumption
<1>2. PICK v \in Nat : v = shares * price
  BY ProductIsNat
<1>3. v * k \in Nat /\ (v > 0 => v * k > 0)
  BY ProductIsNat
<1>4. shares > 0 /\ price > 0 => v > 0
  BY <1>2, ProductIsNat
<1>5. Liquidation(shares, price) = v * k
  BY <1>1, <1>2 DEF Liquidation
<1> QED BY <1>3, <1>4, <1>5

LEMMA EntryPriceIs ==
  ASSUME TaskTyped, NEW o \in PendingOrder
  PROVE  EntryPrice(o) \in Nat /\ (Quote(o.ticker, o.execution) > 0 => EntryPrice(o) > 0)
<1>1. PICK q \in Nat : q = Quote(o.ticker, o.execution)
  BY QuoteIsNat DEF PendingOrder
<1>2. PICK k \in Nat \ {0} : k = Unit + EntrySlippage
  BY EqualSlotAssumption DEF EqualSlotAssumption
<1>3. q * k \in Nat /\ (q > 0 => q * k > 0)
  BY ProductIsNat
<1>4. EntryPrice(o) = q * k
  BY <1>1, <1>2 DEF EntryPrice
<1> QED BY <1>1, <1>3, <1>4

LEMMA SpentOn ==
  ASSUME NEW P \in SUBSET Holding, IsFiniteSet(P)
  PROVE  SumFunction([p \in P |-> p.cost]) \in Nat
<1> DEFINE f == [p \in P |-> p.cost]
<1>1. f \in [P -> Nat]
  BY DEF Holding
<1> HIDE DEF f
<1>2. SumFunction(f) \in Nat
  BY <1>1, SumIsNat
<1> QED BY <1>2 DEF f

LEMMA RealizedBy ==
  ASSUME NEW C \in SUBSET Sale, IsFiniteSet(C)
  PROVE  SumFunction([c \in C |-> c.proceeds - c.position.cost]) \in Int
<1> DEFINE f == [c \in C |-> c.proceeds - c.position.cost]
<1>1. f \in [C -> Int]
  BY DEF Sale, Holding
<1> HIDE DEF f
<1>2. SumFunction(f) \in Int
  BY <1>1, SumTyped
<1> QED BY <1>2 DEF f

LEMMA MoneyIs ==
  ASSUME TaskTyped, BookTyped
  PROVE  /\ Exposure \in Nat /\ Spent \in Nat /\ Realized \in Int
         /\ IsFiniteSet(book.positions) /\ IsFiniteSet(book.pending) /\ IsFiniteSet(book.closed)
         /\ IsFiniteSet(book.rejected) /\ IsFiniteSet(book.scheduled)
<1>1. /\ IsFiniteSet(book.positions) /\ IsFiniteSet(book.pending) /\ IsFiniteSet(book.closed)
      /\ IsFiniteSet(book.rejected) /\ IsFiniteSet(book.scheduled)
  BY DEF BookTyped
<1>2. book.positions \subseteq Holding /\ book.closed \subseteq Sale
  BY DEF BookTyped, Book
<1>3. Exposure \in Nat
  <2> DEFINE f == [p \in book.positions |-> Liquidation(p.shares, Mark(p))]
  <2>1. f \in [book.positions -> Nat]
    <3> SUFFICES ASSUME NEW p \in book.positions PROVE Liquidation(p.shares, Mark(p)) \in Nat
      OBVIOUS
    <3>1. p.ticker \in Slotted /\ p.shares \in Nat
      BY <1>2 DEF Holding
    <3>2. Mark(p) \in Nat
      BY <3>1, QuoteIsNat DEF Mark
    <3> QED BY <3>1, <3>2, LiquidationIs
  <2>2. Exposure = SumFunction(f)
    BY DEF Exposure
  <2> HIDE DEF f
  <2> QED BY <1>1, <2>1, <2>2, SumIsNat
<1>4. Spent \in Nat
  BY <1>1, <1>2, SpentOn DEF Spent
<1>5. Realized \in Int
  BY <1>1, <1>2, RealizedBy DEF Realized
<1> QED BY <1>1, <1>3, <1>4, <1>5

LEMMA NextIs ==
  ASSUME TaskTyped, NEW d \in 0 .. task.end
  PROVE  /\ NextSession(d) \in TradingDay /\ NextSession(d) \in Nat /\ NextSession(d) > d
         /\ \A s \in TradingDay : s > d => NextSession(d) <= s
<1> DEFINE S == {s \in TradingDay : s > d}
<1>1. task.end \in WindowEnd /\ task.end \in Nat
  BY EqualSlotAssumption DEF EqualSlotAssumption, TaskTyped
<1>2. PICK s \in TradingDay : s > task.end
  BY <1>1, EqualSlotAssumption DEF EqualSlotAssumption
<1>3. TradingDay \subseteq Nat
  BY EqualSlotAssumption DEF EqualSlotAssumption
<1>4. S \in SUBSET Nat /\ s \in S
  <2>1. s \in Nat /\ d \in Nat /\ s > d
    BY <1>1, <1>2, <1>3
  <2>2. s \in S
    BY <2>1
  <2> QED BY <1>3, <2>2
<1>5. NextSession(d) = Min(S)
  BY DEF NextSession
<1>6. S # {}
  BY <1>4
<1>7. \A e \in S : e \in TradingDay /\ e \in Nat /\ e > d
  BY <1>3
<1>8. \A e \in TradingDay : e > d => e \in S
  OBVIOUS
<1> HIDE DEF S
<1>9. Min(S) \in S /\ \A e \in S : Min(S) <= e
  BY <1>4, <1>6, LeastDay
<1> QED BY <1>5, <1>7, <1>8, <1>9

LEMMA PreviousIs ==
  ASSUME NEW d \in Nat, NEW e \in TradingDay, e <= d
  PROVE  PreviousSession(d) \in TradingDay /\ PreviousSession(d) \in e .. d
<1> DEFINE S == {s \in TradingDay : s <= d}
<1>1. TradingDay \subseteq Nat
  BY EqualSlotAssumption DEF EqualSlotAssumption
<1>2. S \in SUBSET (0 .. d) /\ S # {} /\ e \in S
  <2>1. e \in S
    OBVIOUS
  <2>2. \A s \in S : s \in 0 .. d
    BY <1>1
  <2> QED BY <2>1, <2>2
<1>3. PreviousSession(d) = Max(S)
  BY DEF PreviousSession
<1>4. \A s \in S : s \in TradingDay /\ s \in Nat /\ s <= d
  BY <1>1
<1> HIDE DEF S
<1>5. Max(S) \in S /\ \A s \in S : s <= Max(S)
  BY <1>2, GreatestDay
<1>6. PICK m : m = Max(S)
  OBVIOUS
<1>7. m \in TradingDay /\ m \in Nat /\ m <= d /\ e <= m /\ e \in Nat
  BY <1>1, <1>2, <1>4, <1>5, <1>6
<1> QED BY <1>3, <1>6, <1>7

LEMMA ExitIs ==
  ASSUME NEW p \in Holding
  PROVE  ExpectedExit(p) \in TradingDay /\ ExpectedExit(p) \in p.entered .. p.entered + HOLD_PERIOD
<1>1. p.entered \in TradingDay /\ p.entered \in Nat /\ HOLD_PERIOD \in Nat
  BY EqualSlotAssumption DEF EqualSlotAssumption, Holding
<1>2. p.entered + HOLD_PERIOD \in Nat /\ p.entered <= p.entered + HOLD_PERIOD
  BY <1>1
<1> QED BY <1>1, <1>2, PreviousIs DEF ExpectedExit

(* A run starts with the capital and nothing else.                         *)
LEMMA SlotsStart ==
  ASSUME NEW quotes \in [Slotted -> QuotePath], NEW signals \in SignalPlan, NEW slots \in SlotCount,
         NEW end \in WindowEnd, Start(quotes, signals, slots, end)
  PROVE  SlotInv'
<1>1. /\ task' = [status |-> "set", quotes |-> quotes, signals |-> signals, slots |-> slots, end |-> end]
      /\ clock' = [day |-> 1, step |-> "exit"]
      /\ book' = EmptyBook /\ curve' = EmptyCurve /\ metrics' = Unset
  BY DEF Start, FirstDay
<1>2. end \in Nat \ {0} /\ Capital \in Nat /\ slots \in Nat
  BY EqualSlotAssumption DEF EqualSlotAssumption
<1>3. /\ book'.cash = Capital /\ book'.positions = {} /\ book'.pending = {} /\ book'.closed = {}
      /\ book'.rejected = {} /\ book'.scheduled = {}
  BY <1>1 DEF EmptyBook
<1>4. curve'.snapshots = {} /\ curve'.gaps = {} /\ metrics'.status = "none"
  BY <1>1 DEF EmptyCurve, Unset
<1>5. clock'.day = 1 /\ clock'.step = "exit" /\ task'.slots = slots /\ task'.end = end
  BY <1>1
<1>6. TaskTyped'
  BY <1>1, <1>2 DEF TaskTyped
<1>7. BookTyped'
  <2>1. book' \in Book
    BY <1>1, <1>2 DEF EmptyBook, Book
  <2> QED BY <1>3, <2>1, FS_EmptySet DEF BookTyped
<1>8. CurveTyped'
  BY <1>1 DEF CurveTyped, EmptyCurve
<1>9. DatesHold' /\ SalesHold' /\ ExitsAreTimely'
  BY <1>3 DEF DatesHold, SalesHold, Positions, ExitsAreTimely
<1>10. BalanceHolds'
  <2>1. Spent' = 0
    <3> DEFINE f == [p \in {} |-> p.cost]
    <3>1. Spent' = SumFunction(f)
      BY <1>3 DEF Spent
    <3>2. DOMAIN f = {} /\ f = [x \in {} |-> f[x]]
      OBVIOUS
    <3> HIDE DEF f
    <3> QED BY <3>1, <3>2, SumOfNone
  <2>2. Realized' = 0
    <3> DEFINE f == [c \in {} |-> c.proceeds - c.position.cost]
    <3>1. Realized' = SumFunction(f)
      BY <1>3 DEF Realized
    <3>2. DOMAIN f = {} /\ f = [x \in {} |-> f[x]]
      OBVIOUS
    <3> HIDE DEF f
    <3> QED BY <3>1, <3>2, SumOfNone
  <2>3. book'.cash + Spent' = Capital + Realized'
    BY <1>2, <1>3, <2>1, <2>2
  <2> QED BY <1>4, <2>3 DEF BalanceHolds
<1>11. TickersHold'
  BY <1>2, <1>3, <1>5, FS_EmptySet DEF TickersHold
<1>12. AnswersHold'
  <2>1. Positions' = {}
    BY <1>3 DEF Positions
  <2>2. EveryOrderIsAnswered'
    BY <1>3, <2>1, FS_EmptySet DEF EveryOrderIsAnswered
  <2> QED BY <1>3, <2>2 DEF AnswersHold
<1>13. DaysHold'
  <2>1. DaysAreAccounted'
    BY <1>4, <1>5 DEF DaysAreAccounted, FirstDay
  <2> QED BY <1>4, <1>5, <2>1 DEF DaysHold
<1>14. MetricsHold'
  BY <1>1, <1>4 DEF MetricsHold, MetricsAreOfTheEnd
<1> QED BY <1>6, <1>7, <1>8, <1>9, <1>10, <1>11, <1>12, <1>13, <1>14 DEF SlotInv

LEMMA ActiveSlots ==
  ASSUME SlotInv, clock.step # "idle"
  PROVE  /\ TaskTyped /\ BookTyped /\ CurveTyped /\ DatesHold /\ SalesHold /\ BalanceHolds /\ TickersHold
         /\ AnswersHold /\ DaysHold /\ MetricsHold /\ ExitsAreTimely
BY DEF SlotInv

(* Quotes and days are read from what a step of a day leaves alone.        *)
LEMMA QuotesStay ==
  ASSUME task' = task
  PROVE  /\ \A t, s : Quote(t, s)' = Quote(t, s)
         /\ \A p : ExitQuote(p)' = ExitQuote(p)
         /\ \A p : Closed(p)' = Closed(p)
BY DEF Quote, ExitQuote, Closed

-----------------------------------------------------------------------------
(* Exits.                                                                  *)
Proceeds == SumFunction([p \in Expired |-> Closed(p).proceeds])

LEMMA ExitMoves ==
  ASSUME TaskTyped, BookTyped, ExitExpired
  PROVE  /\ clock.step = "exit" /\ clock'.step = "enter" /\ clock'.day = clock.day
         /\ task' = task /\ curve' = curve /\ metrics' = metrics
         /\ book'.cash = book.cash + Proceeds
         /\ book'.positions = book.positions \ Expired
         /\ book'.closed = book.closed \cup {Closed(p) : p \in Expired}
         /\ book'.pending = book.pending /\ book'.rejected = book.rejected
         /\ book'.scheduled = book.scheduled
         /\ book' = [cash |-> book.cash + Proceeds, positions |-> book.positions \ Expired,
                     pending |-> book.pending, closed |-> book.closed \cup {Closed(p) : p \in Expired},
                     rejected |-> book.rejected, scheduled |-> book.scheduled]
BY DEF ExitExpired, Proceeds, TaskTyped, BookTyped, Book

LEMMA ExpiredAre ==
  ASSUME TaskTyped, BookTyped, clock.step = "exit"
  PROVE  /\ Expired \subseteq book.positions /\ IsFiniteSet(Expired)
         /\ \A p \in Expired : /\ p \in Holding /\ Closed(p) \in Sale /\ Closed(p).position = p
                               /\ Closed(p).exited \in p.entered .. p.entered + HOLD_PERIOD
                               /\ ExpectedExit(p) <= clock.day
<1>1. Expired \subseteq book.positions /\ book.positions \subseteq Holding
  BY DEF Expired, BookTyped, Book
<1>2. IsFiniteSet(Expired)
  BY <1>1, MoneyIs, FS_Subset
<1>3. ASSUME NEW p \in Expired
      PROVE  /\ p \in Holding /\ Closed(p) \in Sale /\ Closed(p).position = p
             /\ Closed(p).exited \in p.entered .. p.entered + HOLD_PERIOD
             /\ ExpectedExit(p) <= clock.day
  <2>1. p \in Holding /\ p.shares \in Nat /\ p.shares > 0 /\ p.ticker \in Slotted
    BY <1>1 DEF Holding
  <2>2. PICK q \in Nat : q = ExitQuote(p) /\ q > 0
    BY <2>1, QuoteIsNat DEF ExitQuote, Expired
  <2>3. Liquidation(p.shares, ExitQuote(p)) \in Nat \ {0}
    <3>1. PICK n \in Nat : n = p.shares /\ n > 0
      BY <2>1
    <3>2. Liquidation(n, q) \in Nat /\ Liquidation(n, q) > 0
      BY <2>2, <3>1, LiquidationIs
    <3> QED BY <2>2, <3>1, <3>2
  <2>4. ExpectedExit(p) \in TradingDay /\ ExpectedExit(p) \in p.entered .. p.entered + HOLD_PERIOD
    BY <2>1, ExitIs
  <2>5. ExpectedExit(p) <= clock.day
    <3>1. ExpectedExit(p) \in Nat /\ clock.day \in Nat
      BY <2>4, EqualSlotAssumption DEF EqualSlotAssumption, TaskTyped
    <3> QED BY <3>1 DEF Expired
  <2> QED BY <2>1, <2>3, <2>4, <2>5 DEF Closed, Sale
<1> QED BY <1>1, <1>2, <1>3

LEMMA ExitTypes ==
  ASSUME TaskTyped, BookTyped, CurveTyped, ExitExpired
  PROVE  TaskTyped' /\ BookTyped' /\ CurveTyped' /\ Proceeds \in Nat
<1>1. clock.step = "exit"
  BY DEF ExitExpired
<1> DEFINE f == [p \in Expired |-> Closed(p).proceeds]
           C == {Closed(p) : p \in Expired}
<1>2. f \in [Expired -> Nat]
  BY <1>1, ExpiredAre DEF Sale
<1>3. Proceeds \in Nat
  <2>1. Proceeds = SumFunction(f)
    BY DEF Proceeds
  <2> HIDE DEF f
  <2> QED BY <1>1, <1>2, <2>1, ExpiredAre, SumIsNat
<1>4. C \subseteq Sale /\ IsFiniteSet(C)
  <2>1. C \subseteq Sale
    BY <1>1, ExpiredAre
  <2>2. IsFiniteSet(C)
    <3> DEFINE h == [p \in Expired |-> Closed(p)]
    <3>1. C = {h[p] : p \in Expired} /\ DOMAIN h = Expired
      OBVIOUS
    <3> HIDE DEF h, C
    <3> QED BY <1>1, <3>1, ExpiredAre, ImageIs
  <2> QED BY <2>1, <2>2
<1> HIDE DEF f, C
<1>5. book' = [cash |-> book.cash + Proceeds, positions |-> book.positions \ Expired,
               pending |-> book.pending, closed |-> book.closed \cup C,
               rejected |-> book.rejected, scheduled |-> book.scheduled]
  BY ExitMoves DEF C
<1>6. book' \in Book
  BY <1>3, <1>4, <1>5 DEF BookTyped, Book
<1>7. BookTyped'
  <2>1. IsFiniteSet(book.positions \ Expired)
    BY MoneyIs, FS_Subset
  <2>2. IsFiniteSet(book.closed \cup C)
    BY <1>4, MoneyIs, FS_Union
  <2> QED BY <1>5, <1>6, <2>1, <2>2, MoneyIs DEF BookTyped
<1>8. TaskTyped'
  <2>1. clock' = [clock EXCEPT !.step = "enter"]
    BY DEF ExitExpired
  <2> QED BY <2>1, ExitMoves DEF TaskTyped
<1>9. CurveTyped'
  BY ExitMoves DEF CurveTyped
<1> QED BY <1>3, <1>7, <1>8, <1>9

(* The cash of the exits is what the positions cost and what they earned.  *)
LEMMA ExitBalances ==
  ASSUME TaskTyped, BookTyped, SalesHold, ExitExpired, Proceeds \in Nat
  PROVE  book'.cash + Spent' - Realized' = book.cash + Spent - Realized
<1>0. clock.step = "exit"
  BY DEF ExitExpired
<1> DEFINE P == book.positions
           E == Expired
           C == {Closed(p) : p \in E}
           D == book.closed \cup C
           cost == [p \in P |-> p.cost]
           gain == [c \in D |-> c.proceeds - c.position.cost]
<1>1. E \subseteq P /\ IsFiniteSet(P) /\ IsFiniteSet(E) /\ IsFiniteSet(book.closed) /\ P = (P \ E) \cup E
  BY <1>0, ExpiredAre, MoneyIs
<1>2. \A p \in E : p \in Holding /\ Closed(p) \in Sale /\ Closed(p).position = p
  BY <1>0, ExpiredAre
<1>3. IsFiniteSet(C) /\ IsFiniteSet(D)
  <2>1. IsFiniteSet(C)
    <3> DEFINE h == [p \in E |-> Closed(p)]
    <3>1. C = {h[p] : p \in E} /\ DOMAIN h = E
      OBVIOUS
    <3> HIDE DEF h, C, E
    <3> QED BY <1>1, <3>1, ImageIs
  <2> QED BY <1>1, <2>1, FS_Union
<1>4. P \subseteq Holding /\ D \subseteq Sale
  BY <1>2 DEF BookTyped, Book
<1>5. cost \in [P -> Int] /\ gain \in [D -> Int]
  BY <1>4 DEF Holding, Sale
<1>6. book.closed \cap C = {}
  BY <1>1, <1>2 DEF SalesHold
<1>7. Spent = SumFunction([p \in P \ E |-> cost[p]]) + SumFunction([p \in E |-> cost[p]])
  <2>1. Spent = SumFunction(cost)
    BY DEF Spent
  <2>2. (P \ E) \cap E = {}
    OBVIOUS
  <2> HIDE DEF P, E, cost
  <2> QED BY <1>1, <1>5, <2>1, <2>2, SumSplits
<1>8. Spent' = SumFunction([p \in P \ E |-> cost[p]])
  <2>1. [p \in P \ E |-> p.cost] = [p \in P \ E |-> cost[p]]
    OBVIOUS
  <2>2. Spent' = SumFunction([p \in P \ E |-> p.cost])
    BY ExitMoves DEF Spent
  <2> QED BY <2>1, <2>2
<1>9. Realized' = SumFunction([c \in book.closed |-> gain[c]]) + SumFunction([c \in C |-> gain[c]])
  <2>1. Realized' = SumFunction(gain)
    BY ExitMoves DEF Realized
  <2>2. D = book.closed \cup C
    OBVIOUS
  <2> HIDE DEF D, C, gain
  <2> QED BY <1>3, <1>5, <1>6, <2>1, <2>2, SumSplits
<1>10. Realized = SumFunction([c \in book.closed |-> gain[c]])
  <2>1. [c \in book.closed |-> gain[c]] = [c \in book.closed |-> c.proceeds - c.position.cost]
    OBVIOUS
  <2> QED BY <2>1 DEF Realized
<1>11. SumFunction([c \in C |-> gain[c]]) = Proceeds - SumFunction([p \in E |-> cost[p]])
  <2> DEFINE sale == [p \in E |-> Closed(p)]
             partial == [c \in C |-> gain[c]]
             income == [p \in E |-> Closed(p).proceeds]
             price == [p \in E |-> cost[p]]
  <2>1. sale \in [E -> C] /\ (\A x, y \in E : sale[x] = sale[y] => x = y) /\ (\A c \in C : \E x \in E : sale[x] = c)
    BY <1>2
  <2>2. partial \in [C -> Int]
    BY <1>5
  <2>3. SumFunction(partial) = SumFunction([x \in E |-> partial[sale[x]]])
    <3> HIDE DEF E, C, sale, partial
    <3> QED BY <1>1, <2>1, <2>2, SumRenames
  <2>4. income \in [E -> Int] /\ price \in [E -> Int]
    <3>1. \A p \in E : Closed(p).proceeds \in Int
      BY <1>2 DEF Sale
    <3>2. \A p \in E : cost[p] \in Int
      BY <1>1, <1>5
    <3> QED BY <3>1, <3>2
  <2>5. [x \in E |-> partial[sale[x]]] = [x \in E |-> income[x] - price[x]]
    <3>1. ASSUME NEW x \in E PROVE partial[sale[x]] = income[x] - price[x]
      <4>1. Closed(x) \in C /\ Closed(x) \in D /\ x \in P
        BY <1>1
      <4>2. partial[sale[x]] = Closed(x).proceeds - Closed(x).position.cost
        BY <4>1
      <4> QED BY <1>2, <4>1, <4>2
    <3> HIDE DEF E, partial, sale, income, price
    <3> QED BY <3>1
  <2>6. SumFunction([x \in E |-> income[x] - price[x]]) = SumFunction(income) - SumFunction(price)
    <3> HIDE DEF E, income, price
    <3> QED BY <1>1, <2>4, SumOfDifferences
  <2>7. SumFunction(income) = Proceeds
    BY DEF Proceeds
  <2> HIDE DEF E, C, partial, sale, income
  <2>8. SumFunction(partial) = Proceeds - SumFunction(price)
    BY <2>3, <2>5, <2>6, <2>7
  <2> QED BY <2>8 DEF partial
<1>12. PICK a \in Int : a = SumFunction([p \in P \ E |-> cost[p]])
  <2>1. IsFiniteSet(P \ E) /\ [p \in P \ E |-> cost[p]] \in [P \ E -> Int]
    BY <1>1, <1>5, FS_Subset
  <2> HIDE DEF P, E, cost
  <2> QED BY <2>1, SumTyped
<1>13. PICK b \in Int : b = SumFunction([p \in E |-> cost[p]])
  <2>1. [p \in E |-> cost[p]] \in [E -> Int]
    BY <1>1, <1>5
  <2> HIDE DEF E, cost
  <2> QED BY <1>1, <2>1, SumTyped
<1>14. PICK r \in Int : r = Realized
  BY MoneyIs
<1>15. book'.cash = book.cash + Proceeds /\ book.cash \in Int
  BY ExitMoves DEF BookTyped, Book
<1> HIDE DEF P, E, C, D, cost, gain
<1>16. Spent = a + b /\ Spent' = a
  BY <1>7, <1>8, <1>12, <1>13
<1>17. Realized' = r + (Proceeds - b)
  BY <1>9, <1>10, <1>11, <1>13, <1>14
<1> QED BY <1>14, <1>15, <1>16, <1>17

LEMMA ExitKeepsRest ==
  ASSUME SlotInv, ExitExpired, TaskTyped', BookTyped', CurveTyped'
  PROVE  DatesHold' /\ SalesHold' /\ TickersHold' /\ AnswersHold' /\ DaysHold' /\ MetricsHold' /\ ExitsAreTimely'
<1>0. clock.step = "exit"
  BY DEF ExitExpired
<1>1. /\ TaskTyped /\ BookTyped /\ CurveTyped /\ DatesHold /\ SalesHold /\ BalanceHolds /\ TickersHold
      /\ AnswersHold /\ DaysHold /\ MetricsHold /\ ExitsAreTimely
  BY <1>0, ActiveSlots
<1>2. /\ clock'.step = "enter" /\ clock'.day = clock.day
      /\ task' = task /\ curve' = curve /\ metrics' = metrics
      /\ book'.positions = book.positions \ Expired
      /\ book'.closed = book.closed \cup {Closed(p) : p \in Expired}
      /\ book'.pending = book.pending /\ book'.rejected = book.rejected
      /\ book'.scheduled = book.scheduled
  BY <1>1, ExitMoves
<1>3. /\ \A t, s : Quote(t, s)' = Quote(t, s)
      /\ \A p : ExitQuote(p)' = ExitQuote(p)
      /\ \A p : Closed(p)' = Closed(p)
  BY <1>2, QuotesStay
<1>4. /\ Expired \subseteq book.positions /\ IsFiniteSet(Expired)
      /\ \A p \in Expired : /\ p \in Holding /\ Closed(p) \in Sale /\ Closed(p).position = p
                            /\ Closed(p).exited \in p.entered .. p.entered + HOLD_PERIOD
                            /\ ExpectedExit(p) <= clock.day
  BY <1>0, <1>1, ExpiredAre
<1>5. Positions' = Positions
  BY <1>2, <1>4 DEF Positions
<1>6. clock.day \in Nat /\ TradingDay \subseteq Nat
  BY <1>1, EqualSlotAssumption DEF EqualSlotAssumption, TaskTyped
<1>7. \A d \in Nat : UpToNow(d) => UpToNow(d)'
  BY <1>0, <1>2, <1>6 DEF UpToNow
<1>8. DatesHold'
  <2>1. \A p \in Positions : p.entered \in Nat
    BY <1>1, <1>6 DEF Positions, BookTyped, Book, Sale, Holding
  <2>2. \A p \in Positions :
          /\ p.entered = NextSession(p.signalled) /\ UpToNow(p.entered)
          /\ p.cost = p.shares * Quote(p.ticker, p.entered) * (Unit + EntrySlippage)
    BY <1>1 DEF DatesHold
  <2>3. \A o \in book.pending :
          /\ o.execution = NextSession(o.signalled) /\ Quote(o.ticker, o.execution) > 0
          /\ o.signalled < clock.day
    BY <1>0, <1>1 DEF DatesHold
  <2>4. \A p \in Positions :
          /\ p.entered = NextSession(p.signalled) /\ UpToNow(p.entered)'
          /\ p.cost = p.shares * Quote(p.ticker, p.entered)' * (Unit + EntrySlippage)
    BY <1>3, <1>7, <2>1, <2>2
  <2>5. \A o \in book'.pending :
          /\ o.execution = NextSession(o.signalled) /\ Quote(o.ticker, o.execution)' > 0
          /\ o.signalled < clock'.day
    BY <1>2, <1>3, <2>3
  <2> QED BY <1>5, <2>4, <2>5 DEF DatesHold, NextSession
<1>9. SalesHold'
  <2>1. \A p \in book.positions : p.entered < clock.day
    BY <1>0, <1>1 DEF DatesHold, Positions, UpToNow
  <2> SUFFICES ASSUME NEW c \in book'.closed
               PROVE  /\ c = Closed(c.position)' /\ c.position \notin book'.positions
                      /\ c.position.entered < clock'.day
                      /\ c.exited \in c.position.entered .. c.position.entered + HOLD_PERIOD
    BY DEF SalesHold
  <2>2. CASE c \in book.closed
    BY <1>1, <1>2, <1>3, <2>2 DEF SalesHold
  <2>3. ASSUME NEW p \in Expired, c = Closed(p)
        PROVE  /\ c = Closed(c.position)' /\ c.position \notin book'.positions
               /\ c.position.entered < clock'.day
               /\ c.exited \in c.position.entered .. c.position.entered + HOLD_PERIOD
    <3>1. c.position = p /\ p \in book.positions
      BY <1>4, <2>3
    <3> QED BY <1>2, <1>3, <1>4, <2>1, <2>3, <3>1
  <2> QED BY <1>2, <2>2, <2>3
<1>10. TickersHold'
  <2>1. Cardinality(book'.positions) <= task'.slots
    <3>1. IsFiniteSet(book.positions) /\ book'.positions \subseteq book.positions
      BY <1>1, <1>2, MoneyIs
    <3>2. /\ Cardinality(book'.positions) \in Nat /\ Cardinality(book.positions) \in Nat
          /\ Cardinality(book'.positions) <= Cardinality(book.positions)
      BY <3>1, FS_Subset, FS_CardinalityType
    <3>3. task.slots \in Nat /\ Cardinality(book.positions) <= task.slots
      BY <1>1, EqualSlotAssumption DEF EqualSlotAssumption, TaskTyped, TickersHold
    <3> QED BY <1>2, <3>2, <3>3
  <2> QED BY <1>1, <1>2, <2>1 DEF TickersHold
<1>11. AnswersHold'
  <2>1. EveryOrderIsAnswered'
    BY <1>1, <1>2, <1>5 DEF AnswersHold, EveryOrderIsAnswered
  <2>2. \A r \in book.rejected : r.day \in Nat /\ r.day < clock.day
    BY <1>0, <1>1 DEF AnswersHold, UpToNow, BookTyped, Book, Refusal
  <2>3. \A r \in book'.rejected : UpToNow(r.day)' /\ r.day # clock'.day
    BY <1>2, <1>6, <2>2 DEF UpToNow
  <2>4. \A e \in book'.scheduled : e[1] < clock'.day
    BY <1>0, <1>1, <1>2 DEF AnswersHold
  <2> QED BY <2>1, <2>3, <2>4 DEF AnswersHold
<1>12. DaysHold'
  <2>1. DaysAreAccounted'
    BY <1>0, <1>1, <1>2 DEF DaysHold, DaysAreAccounted
  <2> QED BY <1>1, <1>2, <2>1 DEF DaysHold
<1>13. MetricsHold'
  BY <1>0, <1>1, <1>2 DEF MetricsHold, MetricsAreOfTheEnd, Unset
<1>14. ExitsAreTimely'
  <2> SUFFICES ASSUME NEW p \in book'.positions, ExpectedExit(p) <= clock.day PROVE ExitQuote(p) = 0
    BY <1>2, <1>3 DEF ExitsAreTimely, ExpectedExit, PreviousSession
  <2>1. p \in book.positions /\ p \notin Expired /\ p \in Holding
    BY <1>1, <1>2 DEF BookTyped, Book
  <2>2. ExitQuote(p) \in Nat
    BY <1>1, <2>1, QuoteIsNat DEF ExitQuote, Holding
  <2>3. ExpectedExit(p) \in Nat
    BY <1>6, <2>1, ExitIs
  <2> QED BY <1>6, <2>1, <2>2, <2>3 DEF Expired
<1> QED BY <1>8, <1>9, <1>10, <1>11, <1>12, <1>13, <1>14

LEMMA ExitKeeps ==
  ASSUME SlotInv, ExitExpired
  PROVE  SlotInv'
<1>0. clock.step = "exit" /\ clock'.step = "enter" /\ curve' = curve
  <2>1. clock.step = "exit"
    BY DEF ExitExpired
  <2> QED BY <2>1, ActiveSlots, ExitMoves
<1>1. TaskTyped /\ BookTyped /\ CurveTyped /\ SalesHold /\ BalanceHolds
  BY <1>0, ActiveSlots
<1>2. TaskTyped' /\ BookTyped' /\ CurveTyped' /\ Proceeds \in Nat
  BY <1>1, ExitTypes
<1>3. DatesHold' /\ SalesHold' /\ TickersHold' /\ AnswersHold' /\ DaysHold' /\ MetricsHold' /\ ExitsAreTimely'
  BY <1>2, ExitKeepsRest
<1>4. BalanceHolds'
  <2>1. book'.cash + Spent' - Realized' = book.cash + Spent - Realized
    BY <1>1, <1>2, ExitBalances
  <2>2. PICK a \in Int, b \in Int, r \in Int : a = book.cash /\ b = Spent /\ r = Realized
    BY <1>1, MoneyIs DEF BookTyped, Book
  <2>3. Spent' \in Nat /\ Realized' \in Int
    <3>1. /\ book'.positions \in SUBSET Holding /\ IsFiniteSet(book'.positions)
          /\ book'.closed \in SUBSET Sale /\ IsFiniteSet(book'.closed)
      BY <1>2 DEF BookTyped, Book
    <3> QED BY <3>1, SpentOn, RealizedBy DEF Spent, Realized
  <2>4. PICK u \in Int, v \in Int, w \in Int : u = book'.cash /\ v = Spent' /\ w = Realized'
    BY <1>2, <2>3 DEF BookTyped, Book
  <2>5. a + b = Capital + r
    BY <1>1, <2>2 DEF BalanceHolds
  <2>6. Capital \in Int
    BY EqualSlotAssumption DEF EqualSlotAssumption
  <2>7. u + v - w = a + b - r
    BY <2>1, <2>2, <2>4
  <2>8. u + v = Capital + w
    BY <2>2, <2>4, <2>5, <2>6, <2>7
  <2> QED BY <1>0, <1>1, <2>4, <2>8 DEF BalanceHolds
<1> QED BY <1>2, <1>3, <1>4 DEF SlotInv

-----------------------------------------------------------------------------
(* Entries.                                                                *)
LEMMA ObstacleIs ==
  ASSUME NEW o
  PROVE  /\ Obstacle(o) = "none" => /\ ~(Cardinality(book.positions) >= task.slots)
                                    /\ o.execution = clock.day /\ Shares(o) # 0
         /\ Obstacle(o) # "none" => Obstacle(o) \in Obstacles
BY DEF Obstacle, Obstacles

LEMMA Products ==
  ASSUME NEW a \in Nat, NEW b \in Nat, NEW c \in Nat
  PROVE  a * (b * c) = a * b * c
OBVIOUS

(* What is entered is paid from the cash.                                  *)
LEMMA EntryFits ==
  ASSUME TaskTyped, BookTyped, NEW o \in book.pending, clock.step = "enter",
         Quote(o.ticker, o.execution) > 0, Obstacle(o) = "none"
  PROVE  /\ Entered(o) \in Holding /\ Entered(o).entered = clock.day /\ o.execution = clock.day
         /\ Entered(o).ticker = o.ticker /\ Entered(o).signalled = o.signalled
         /\ Entered(o).cost \in Nat /\ Entered(o).cost <= book.cash
         /\ Entered(o).cost
              = Entered(o).shares * Quote(Entered(o).ticker, Entered(o).entered) * (Unit + EntrySlippage)
<1>1. o \in PendingOrder
  BY DEF BookTyped, Book
<1>2. o.execution = clock.day /\ Shares(o) # 0
  BY ObstacleIs
<1>3. PICK e \in Nat : e = EntryPrice(o) /\ e > 0
  BY <1>1, EntryPriceIs
<1>4. PICK c \in Nat : c = book.cash
  BY DEF BookTyped, Book
<1>5. PICK x \in Nat : x = (book.cash + Exposure) \div task.slots
  <2>1. task.slots \in Nat \ {0}
    BY EqualSlotAssumption DEF EqualSlotAssumption, TaskTyped
  <2>2. PICK s \in Nat \ {0} : s = task.slots
    BY <2>1
  <2>3. PICK v \in Nat : v = book.cash + Exposure
    BY <1>4, MoneyIs
  <2>4. v \div s \in Nat
    BY QuotientFits
  <2> QED BY <2>2, <2>3, <2>4
<1>6. PICK m \in Nat : m = Min({x, c}) /\ m <= c
  <2>1. {x, c} \in SUBSET Nat /\ {x, c} # {}
    OBVIOUS
  <2>2. Min({x, c}) \in {x, c} /\ \A d \in {x, c} : Min({x, c}) <= d
    BY <2>1, LeastDay
  <2> QED BY <2>2
<1>7. Shares(o) = m \div e
  BY <1>3, <1>4, <1>5, <1>6 DEF Shares
<1>8. PICK n \in Nat : n = m \div e /\ n * e <= m
  BY <1>3, QuotientFits
<1>9. n > 0 /\ n * e > 0 /\ n * e \in Nat /\ n * e <= c
  <2>1. n > 0
    BY <1>2, <1>7, <1>8
  <2>2. n * e \in Nat /\ n * e > 0
    BY <1>3, <2>1, ProductIsNat
  <2> QED BY <1>6, <1>8, <2>1, <2>2
<1>10. Entered(o) = [ticker |-> o.ticker, signalled |-> o.signalled, entered |-> clock.day,
                     shares |-> n, cost |-> n * e]
  BY <1>3, <1>7, <1>8 DEF Entered
<1>11. PICK k \in Nat : k = n * e /\ k > 0 /\ k <= c
  BY <1>9
<1>12. Entered(o) = [ticker |-> o.ticker, signalled |-> o.signalled, entered |-> clock.day,
                     shares |-> n, cost |-> k]
  BY <1>10, <1>11
<1>13. Entered(o) \in Holding
  BY <1>1, <1>2, <1>9, <1>11, <1>12 DEF PendingOrder, Holding
<1>14. k = n * Quote(o.ticker, clock.day) * (Unit + EntrySlippage)
  <2>1. PICK q \in Nat : q = Quote(o.ticker, o.execution)
    BY <1>1, QuoteIsNat DEF PendingOrder
  <2>2. PICK u \in Nat : u = Unit + EntrySlippage
    BY EqualSlotAssumption DEF EqualSlotAssumption
  <2>3. e = q * u
    BY <1>3, <2>1, <2>2 DEF EntryPrice
  <2>4. k = n * q * u
    BY <1>11, <2>3, Products
  <2> QED BY <1>2, <2>1, <2>2, <2>4
<1> QED BY <1>2, <1>4, <1>11, <1>12, <1>13, <1>14

LEMMA FillMoves ==
  ASSUME TaskTyped, BookTyped, NEW o \in book.pending, ExecutePending(o)
  PROVE  /\ clock.step = "enter" /\ clock' = clock /\ task' = task /\ curve' = curve /\ metrics' = metrics
         /\ Obstacle(o) = "none" =>
              book' = [cash |-> book.cash - Entered(o).cost, positions |-> book.positions \cup {Entered(o)},
                       pending |-> book.pending \ {o}, closed |-> book.closed,
                       rejected |-> book.rejected, scheduled |-> book.scheduled]
         /\ Obstacle(o) # "none" =>
              book' = [cash |-> book.cash, positions |-> book.positions,
                       pending |-> book.pending \ {o}, closed |-> book.closed,
                       rejected |-> book.rejected \cup {Rejection(o.ticker, Obstacle(o))},
                       scheduled |-> book.scheduled]
<1>1. clock.step = "enter" /\ clock' = clock /\ task' = task /\ curve' = curve /\ metrics' = metrics
  BY DEF ExecutePending
<1>2. ASSUME Obstacle(o) = "none"
      PROVE  book' = [cash |-> book.cash - Entered(o).cost, positions |-> book.positions \cup {Entered(o)},
                      pending |-> book.pending \ {o}, closed |-> book.closed,
                      rejected |-> book.rejected, scheduled |-> book.scheduled]
  BY <1>2 DEF ExecutePending, BookTyped, Book
<1>3. ASSUME Obstacle(o) # "none"
      PROVE  book' = [cash |-> book.cash, positions |-> book.positions,
                      pending |-> book.pending \ {o}, closed |-> book.closed,
                      rejected |-> book.rejected \cup {Rejection(o.ticker, Obstacle(o))},
                      scheduled |-> book.scheduled]
  BY <1>3 DEF ExecutePending, BookTyped, Book
<1> QED BY <1>1, <1>2, <1>3

LEMMA FillKeeps ==
  ASSUME SlotInv, NEW o \in book.pending, ExecutePending(o), Obstacle(o) = "none"
  PROVE  SlotInv'
<1>0. clock.step = "enter"
  BY DEF ExecutePending
<1>1. /\ TaskTyped /\ BookTyped /\ CurveTyped /\ DatesHold /\ SalesHold /\ BalanceHolds /\ TickersHold
      /\ AnswersHold /\ DaysHold /\ MetricsHold /\ ExitsAreTimely
  BY <1>0, ActiveSlots
<1>2. PICK e : e = Entered(o)
  OBVIOUS
<1>3. /\ e \in Holding /\ e.entered = clock.day /\ o.execution = clock.day
      /\ e.ticker = o.ticker /\ e.signalled = o.signalled
      /\ e.cost \in Nat /\ e.cost <= book.cash
      /\ e.cost = e.shares * Quote(e.ticker, e.entered) * (Unit + EntrySlippage)
      /\ o.execution = NextSession(o.signalled)
  <2>1. Quote(o.ticker, o.execution) > 0 /\ o.execution = NextSession(o.signalled)
    BY <1>1 DEF DatesHold
  <2> QED BY <1>0, <1>1, <1>2, <2>1, EntryFits
<1>4. clock' = clock /\ task' = task /\ curve' = curve /\ metrics' = metrics
  BY <1>1, FillMoves
<1>5. book' = [cash |-> book.cash - e.cost, positions |-> book.positions \cup {e},
               pending |-> book.pending \ {o}, closed |-> book.closed,
               rejected |-> book.rejected, scheduled |-> book.scheduled]
  BY <1>1, <1>2, FillMoves
<1>6. /\ book'.cash = book.cash - e.cost /\ book'.positions = book.positions \cup {e}
      /\ book'.pending = book.pending \ {o} /\ book'.closed = book.closed
      /\ book'.rejected = book.rejected /\ book'.scheduled = book.scheduled
  BY <1>5
<1>7. /\ IsFiniteSet(book.positions) /\ IsFiniteSet(book.pending) /\ IsFiniteSet(book.closed)
      /\ IsFiniteSet(book.rejected) /\ IsFiniteSet(book.scheduled)
      /\ book.positions \subseteq Holding /\ book.closed \subseteq Sale /\ book.cash \in Nat
      /\ clock.day \in Nat
  BY <1>1, MoneyIs, EqualSlotAssumption DEF BookTyped, Book, TaskTyped, EqualSlotAssumption
<1>8. e \notin book.positions /\ e \notin Positions
  <2>1. e \notin book.positions
    BY <1>1, <1>3 DEF TickersHold
  <2>2. \A c \in book.closed : c.position # e
    BY <1>1, <1>3, <1>7 DEF SalesHold
  <2> QED BY <2>1, <2>2 DEF Positions
<1>9. Positions' = Positions \cup {e}
  BY <1>6 DEF Positions
<1>10. TaskTyped' /\ CurveTyped'
  BY <1>1, <1>4 DEF TaskTyped, CurveTyped
<1>11. BookTyped'
  <2>1. book' \in Book
    <3>1. book.cash - e.cost \in Nat
      BY <1>3, <1>7
    <3>2. book.positions \cup {e} \in SUBSET Holding
      BY <1>3, <1>7
    <3>3. /\ book.pending \ {o} \in SUBSET PendingOrder /\ book.closed \in SUBSET Sale
          /\ book.rejected \in SUBSET Refusal /\ book.scheduled \in SUBSET (Nat \X Slotted)
      BY <1>1 DEF BookTyped, Book
    <3> QED BY <1>5, <3>1, <3>2, <3>3 DEF Book
  <2>2. IsFiniteSet(book'.positions)
    <3>1. IsFiniteSet(book.positions \cup {e})
      BY <1>7, FS_AddElement
    <3> QED BY <1>6, <3>1
  <2>3. IsFiniteSet(book'.pending)
    BY <1>6, <1>7, FS_RemoveElement
  <2> QED BY <1>6, <1>7, <2>1, <2>2, <2>3 DEF BookTyped
<1>12. /\ \A t, s : Quote(t, s)' = Quote(t, s)
       /\ \A p : ExitQuote(p)' = ExitQuote(p)
       /\ \A p : Closed(p)' = Closed(p)
  BY <1>4, QuotesStay
<1>13. DatesHold'
  <2>1. \A p \in Positions :
          /\ p.entered = NextSession(p.signalled) /\ UpToNow(p.entered)
          /\ p.cost = p.shares * Quote(p.ticker, p.entered) * (Unit + EntrySlippage)
    BY <1>1 DEF DatesHold
  <2>2. UpToNow(e.entered)
    BY <1>0, <1>3, <1>7 DEF UpToNow
  <2>3. \A p \in Positions' :
          /\ p.entered = NextSession(p.signalled) /\ UpToNow(p.entered)'
          /\ p.cost = p.shares * Quote(p.ticker, p.entered)' * (Unit + EntrySlippage)
    <3>1. \A d : UpToNow(d)' = UpToNow(d)
      BY <1>4 DEF UpToNow
    <3> QED BY <1>3, <1>9, <1>12, <2>1, <2>2, <3>1
  <2>4. \A q \in book'.pending :
          /\ q.execution = NextSession(q.signalled) /\ Quote(q.ticker, q.execution)' > 0
          /\ clock'.step \in {"exit", "enter"} => q.signalled < clock'.day
    BY <1>1, <1>4, <1>6, <1>12 DEF DatesHold
  <2> QED BY <2>3, <2>4 DEF DatesHold, NextSession
<1>14. SalesHold'
  <2>1. \A c \in book.closed : c.position # e
    BY <1>1, <1>3, <1>7 DEF SalesHold
  <2> QED BY <1>1, <1>4, <1>6, <1>12, <2>1 DEF SalesHold
<1>15. BalanceHolds'
  <2> DEFINE P == book.positions
             D == P \cup {e}
             cost == [p \in D |-> p.cost]
  <2>1. IsFiniteSet(D) /\ D \subseteq Holding
    BY <1>3, <1>7, FS_AddElement
  <2>2. cost \in [D -> Int]
    BY <2>1 DEF Holding
  <2>3. Spent' = SumFunction(cost)
    BY <1>6 DEF Spent
  <2>4. [p \in P |-> cost[p]] = [p \in P |-> p.cost] /\ [p \in {e} |-> cost[p]] \in [{e} -> Int]
        /\ [p \in {e} |-> cost[p]][e] = e.cost
    BY <2>2
  <2>5. Spent = SumFunction([p \in P |-> cost[p]])
    BY <2>4 DEF Spent
  <2>6. SumFunction([p \in {e} |-> cost[p]]) = e.cost
    <3> HIDE DEF cost
    <3> QED BY <2>4, SumOfOne
  <2>7. SumFunction(cost) = SumFunction([p \in P |-> cost[p]]) + SumFunction([p \in {e} |-> cost[p]])
    <3>1. P \cap {e} = {} /\ D = P \cup {e}
      BY <1>8
    <3> HIDE DEF P, D, cost
    <3> QED BY <2>1, <2>2, <3>1, SumSplits
  <2> HIDE DEF P, D, cost
  <2>8. Spent' = Spent + e.cost
    BY <2>3, <2>5, <2>6, <2>7
  <2>9. Realized' = Realized
    BY <1>6 DEF Realized
  <2>10. PICK a \in Int, b \in Int, r \in Int, k \in Int : a = book.cash /\ b = Spent /\ r = Realized /\ k = e.cost
    BY <1>1, <1>3, <1>7, MoneyIs
  <2>11. a + b = Capital + r
    BY <1>1, <2>10 DEF BalanceHolds
  <2>12. (a - k) + (b + k) = a + b
    BY <2>10
  <2>13. book'.cash + Spent' = Capital + Realized'
    BY <1>6, <2>8, <2>9, <2>10, <2>11, <2>12
  <2> QED BY <1>1, <1>4, <2>13 DEF BalanceHolds
<1>16. TickersHold'
  <2>1. Cardinality(book'.positions) <= task'.slots
    <3>1. Cardinality(book'.positions) = Cardinality(book.positions) + 1
      BY <1>6, <1>7, <1>8, FS_AddElement
    <3>2. ~(Cardinality(book.positions) >= task.slots) /\ Cardinality(book.positions) \in Nat
      BY <1>7, ObstacleIs, FS_CardinalityType
    <3>3. task.slots \in Nat
      BY <1>1, EqualSlotAssumption DEF EqualSlotAssumption, TaskTyped
    <3> QED BY <1>4, <3>1, <3>2, <3>3
  <2>2. \A p \in book.positions : p.ticker # o.ticker
    BY <1>1 DEF TickersHold
  <2>3. \A q \in book.pending \ {o} : q.ticker # o.ticker
    BY <1>1 DEF TickersHold
  <2> QED BY <1>1, <1>3, <1>6, <2>1, <2>2, <2>3 DEF TickersHold
<1>17. AnswersHold'
  <2>1. EveryOrderIsAnswered'
    <3>1. IsFiniteSet(Positions)
      <4> DEFINE h == [c \in book.closed |-> c.position]
                 left == {c.position : c \in book.closed}
      <4>1. left = {h[c] : c \in book.closed} /\ DOMAIN h = book.closed
        OBVIOUS
      <4>2. Positions = book.positions \cup left
        BY DEF Positions
      <4> HIDE DEF h, left
      <4>3. IsFiniteSet(left)
        BY <1>7, <4>1, ImageIs
      <4> QED BY <1>7, <4>2, <4>3, FS_Union
    <3>2. Cardinality(Positions') = Cardinality(Positions) + 1 /\ Cardinality(Positions) \in Nat
      BY <1>8, <1>9, <3>1, FS_AddElement, FS_CardinalityType
    <3>3. Cardinality(book'.pending) = Cardinality(book.pending) - 1 /\ Cardinality(book.pending) \in Nat
      BY <1>6, <1>7, FS_RemoveElement, FS_CardinalityType
    <3>4. Cardinality(book.rejected) \in Nat
      BY <1>7, FS_CardinalityType
    <3>5. Cardinality(book.scheduled)
            = Cardinality(book.pending) + Cardinality(book.rejected) + Cardinality(Positions)
      BY <1>1 DEF AnswersHold, EveryOrderIsAnswered
    <3> QED BY <1>6, <3>2, <3>3, <3>4, <3>5 DEF EveryOrderIsAnswered
  <2>2. \A d : UpToNow(d)' = UpToNow(d)
    BY <1>4 DEF UpToNow
  <2> QED BY <1>1, <1>4, <1>6, <2>1, <2>2 DEF AnswersHold
<1>18. DaysHold'
  <2>1. DaysAreAccounted'
    BY <1>1, <1>4 DEF DaysHold, DaysAreAccounted
  <2> QED BY <1>0, <1>1, <1>4, <2>1 DEF DaysHold
<1>19. MetricsHold'
  BY <1>0, <1>1, <1>4 DEF MetricsHold, MetricsAreOfTheEnd, Unset
<1>20. ExitsAreTimely'
  <2>1. \A p \in book.positions : (p.entered < clock.day /\ ExpectedExit(p) <= clock.day) => ExitQuote(p) = 0
    BY <1>0, <1>1 DEF ExitsAreTimely
  <2>2. ~(e.entered < clock.day)
    BY <1>3, <1>7
  <2> QED BY <1>4, <1>6, <1>12, <2>1, <2>2 DEF ExitsAreTimely, ExpectedExit, PreviousSession
<1> QED BY <1>10, <1>11, <1>13, <1>14, <1>15, <1>16, <1>17, <1>18, <1>19, <1>20 DEF SlotInv

LEMMA RefuseKeeps ==
  ASSUME SlotInv, NEW o \in book.pending, ExecutePending(o), Obstacle(o) # "none"
  PROVE  SlotInv'
<1>0. clock.step = "enter"
  BY DEF ExecutePending
<1>1. /\ TaskTyped /\ BookTyped /\ CurveTyped /\ DatesHold /\ SalesHold /\ BalanceHolds /\ TickersHold
      /\ AnswersHold /\ DaysHold /\ MetricsHold /\ ExitsAreTimely
  BY <1>0, ActiveSlots
<1>2. PICK r : r = Rejection(o.ticker, Obstacle(o))
  OBVIOUS
<1>3. r = [ticker |-> o.ticker, day |-> clock.day, reason |-> Obstacle(o)] /\ Obstacle(o) \in Obstacles
  BY <1>2, ObstacleIs DEF Rejection
<1>4. clock' = clock /\ task' = task /\ curve' = curve /\ metrics' = metrics
  BY <1>1, FillMoves
<1>5. book' = [cash |-> book.cash, positions |-> book.positions,
               pending |-> book.pending \ {o}, closed |-> book.closed,
               rejected |-> book.rejected \cup {r}, scheduled |-> book.scheduled]
  BY <1>1, <1>2, FillMoves
<1>6. /\ book'.cash = book.cash /\ book'.positions = book.positions
      /\ book'.pending = book.pending \ {o} /\ book'.closed = book.closed
      /\ book'.rejected = book.rejected \cup {r} /\ book'.scheduled = book.scheduled
  BY <1>5
<1>7. /\ IsFiniteSet(book.positions) /\ IsFiniteSet(book.pending) /\ IsFiniteSet(book.closed)
      /\ IsFiniteSet(book.rejected) /\ IsFiniteSet(book.scheduled)
      /\ clock.day \in Nat /\ o \in PendingOrder
  BY <1>1, MoneyIs, EqualSlotAssumption DEF BookTyped, Book, TaskTyped, EqualSlotAssumption
<1>8. r \in Refusal /\ r \notin book.rejected
  <2>1. r \in Refusal
    BY <1>3, <1>7 DEF Refusal, PendingOrder
  <2>2. \A q \in book.rejected : q.day = clock.day => q.ticker # o.ticker
    BY <1>0, <1>1 DEF AnswersHold
  <2> QED BY <1>3, <2>1, <2>2
<1>9. Positions' = Positions
  BY <1>6 DEF Positions
<1>10. TaskTyped' /\ CurveTyped'
  BY <1>1, <1>4 DEF TaskTyped, CurveTyped
<1>11. BookTyped'
  <2>1. book' \in Book
    <3>1. /\ book.pending \ {o} \in SUBSET PendingOrder /\ book.closed \in SUBSET Sale
          /\ book.rejected \cup {r} \in SUBSET Refusal /\ book.scheduled \in SUBSET (Nat \X Slotted)
          /\ book.cash \in Nat /\ book.positions \in SUBSET Holding
      BY <1>1, <1>8 DEF BookTyped, Book
    <3> QED BY <1>5, <3>1 DEF Book
  <2>2. IsFiniteSet(book'.rejected)
    <3>1. IsFiniteSet(book.rejected \cup {r})
      BY <1>7, FS_AddElement
    <3> QED BY <1>6, <3>1
  <2>3. IsFiniteSet(book'.pending)
    BY <1>6, <1>7, FS_RemoveElement
  <2> QED BY <1>6, <1>7, <2>1, <2>2, <2>3 DEF BookTyped
<1>12. /\ \A t, s : Quote(t, s)' = Quote(t, s)
       /\ \A p : ExitQuote(p)' = ExitQuote(p)
       /\ \A p : Closed(p)' = Closed(p)
       /\ \A d : UpToNow(d)' = UpToNow(d)
  <2>1. \A d : UpToNow(d)' = UpToNow(d)
    BY <1>4 DEF UpToNow
  <2> QED BY <1>4, <2>1, QuotesStay
<1>13. DatesHold'
  BY <1>1, <1>4, <1>6, <1>9, <1>12 DEF DatesHold, NextSession
<1>14. SalesHold'
  BY <1>1, <1>4, <1>6, <1>12 DEF SalesHold
<1>15. BalanceHolds'
  BY <1>1, <1>4, <1>6 DEF BalanceHolds, Spent, Realized
<1>16. TickersHold'
  BY <1>1, <1>4, <1>6 DEF TickersHold
<1>17. AnswersHold'
  <2>1. EveryOrderIsAnswered'
    <3>1. Cardinality(book'.rejected) = Cardinality(book.rejected) + 1 /\ Cardinality(book.rejected) \in Nat
      BY <1>6, <1>7, <1>8, FS_AddElement, FS_CardinalityType
    <3>2. Cardinality(book'.pending) = Cardinality(book.pending) - 1 /\ Cardinality(book.pending) \in Nat
      BY <1>6, <1>7, FS_RemoveElement, FS_CardinalityType
    <3>3. Cardinality(book.scheduled)
            = Cardinality(book.pending) + Cardinality(book.rejected) + Cardinality(Positions)
      BY <1>1 DEF AnswersHold, EveryOrderIsAnswered
    <3>4. Cardinality(book.pending) + Cardinality(book.rejected)
            = Cardinality(book'.pending) + Cardinality(book'.rejected)
      BY <3>1, <3>2
    <3> QED BY <1>6, <1>9, <3>3, <3>4 DEF EveryOrderIsAnswered
  <2>2. \A q \in book.pending \ {o} : q.ticker # o.ticker
    BY <1>1 DEF TickersHold
  <2>3. \A q \in book'.rejected :
          /\ UpToNow(q.day)
          /\ q.day = clock.day => q.reason \in Obstacles /\ \A p \in book'.pending : p.ticker # q.ticker
    <3> SUFFICES ASSUME NEW q \in book'.rejected
                 PROVE  /\ UpToNow(q.day)
                        /\ q.day = clock.day =>
                             q.reason \in Obstacles /\ \A p \in book'.pending : p.ticker # q.ticker
      OBVIOUS
    <3>1. CASE q \in book.rejected
      BY <1>0, <1>1, <1>6, <3>1 DEF AnswersHold
    <3>2. CASE q = r
      <4>1. UpToNow(clock.day)
        BY <1>0, <1>7 DEF UpToNow
      <4> QED BY <1>3, <1>6, <2>2, <3>2, <4>1
    <3> QED BY <1>6, <3>1, <3>2
  <2> QED BY <1>1, <1>4, <1>6, <1>12, <2>1, <2>3 DEF AnswersHold
<1>18. DaysHold'
  <2>1. DaysAreAccounted'
    BY <1>1, <1>4 DEF DaysHold, DaysAreAccounted
  <2> QED BY <1>0, <1>1, <1>4, <2>1 DEF DaysHold
<1>19. MetricsHold'
  BY <1>0, <1>1, <1>4 DEF MetricsHold, MetricsAreOfTheEnd, Unset
<1>20. ExitsAreTimely'
  BY <1>0, <1>1, <1>4, <1>6, <1>12 DEF ExitsAreTimely, ExpectedExit, PreviousSession
<1> QED BY <1>10, <1>11, <1>13, <1>14, <1>15, <1>16, <1>17, <1>18, <1>19, <1>20 DEF SlotInv

-----------------------------------------------------------------------------
(* The end of a day.                                                       *)
Scheduled == {c \in Candidates : Hindrance(c) = "none"}
Hindered == {c \in Candidates : Hindrance(c) # "none"}
Orders == {Order(r) : r \in Scheduled}
Refusals == {Rejection(r.ticker, Hindrance(r)) : r \in Hindered}
Considered == {<<clock.day, r.ticker>> : r \in Candidates}

LEMMA HindranceIs ==
  ASSUME NEW r
  PROVE  /\ Hindrance(r) = "none" => ~Taken(r.ticker) /\ Quote(r.ticker, NextSession(clock.day)) # 0
         /\ Hindrance(r) # "none" => Hindrance(r) \in Hindrances
BY DEF Hindrance, Hindrances

LEMMA CandidatesAre ==
  ASSUME TaskTyped
  PROVE  /\ IsFiniteSet(Candidates) /\ clock.day \in Nat
         /\ \A r \in Candidates : r.ticker \in Slotted /\ r.score \in Int
         /\ \A r, q \in Candidates : r.ticker = q.ticker => r = q
<1>1. /\ IsFiniteSet(task.signals) /\ task.signals \subseteq [day : Nat, ticker : Slotted, score : Int]
      /\ clock.day \in Nat
  BY EqualSlotAssumption DEF EqualSlotAssumption, TaskTyped
<1>2. Candidates \subseteq task.signals
  BY DEF Candidates
<1>3. IsFiniteSet(Candidates)
  BY <1>1, <1>2, FS_Subset
<1>4. ASSUME NEW r \in Candidates, NEW q \in Candidates, r.ticker = q.ticker PROVE r = q
  <2>1. r \in [day : Nat, ticker : Slotted, score : Int] /\ q \in [day : Nat, ticker : Slotted, score : Int]
    BY <1>1, <1>2
  <2>2. r.day = clock.day /\ q.day = clock.day /\ q.score <= r.score /\ r.score <= q.score
    BY <1>2, <1>4 DEF Candidates
  <2>3. r.score = q.score
    BY <2>1, <2>2
  <2> QED BY <1>4, <2>1, <2>2, <2>3
<1> QED BY <1>1, <1>2, <1>3, <1>4

(* Each candidate is counted once on either side.                          *)
LEMMA ConsideredAre ==
  ASSUME TaskTyped
  PROVE  /\ IsFiniteSet(Orders) /\ IsFiniteSet(Refusals) /\ IsFiniteSet(Considered)
         /\ Cardinality(Considered) = Cardinality(Orders) + Cardinality(Refusals)
<1>1. IsFiniteSet(Scheduled) /\ IsFiniteSet(Hindered)
      /\ Candidates = Scheduled \cup Hindered /\ Scheduled \cap Hindered = {}
  <2>1. Scheduled \subseteq Candidates /\ Hindered \subseteq Candidates
    BY DEF Scheduled, Hindered
  <2>2. Candidates = Scheduled \cup Hindered /\ Scheduled \cap Hindered = {}
    BY DEF Scheduled, Hindered
  <2> QED BY <2>1, <2>2, CandidatesAre, FS_Subset
<1>2. Cardinality(Candidates) = Cardinality(Scheduled) + Cardinality(Hindered)
  <2>1. Cardinality(Scheduled \cup Hindered)
          = Cardinality(Scheduled) + Cardinality(Hindered) - Cardinality(Scheduled \cap Hindered)
    BY <1>1, FS_Union
  <2>2. Cardinality(Scheduled \cap Hindered) = 0
    BY <1>1, FS_EmptySet
  <2>3. Cardinality(Scheduled) \in Nat /\ Cardinality(Hindered) \in Nat
    BY <1>1, FS_CardinalityType
  <2> QED BY <1>1, <2>1, <2>2, <2>3
<1>3. IsFiniteSet(Orders) /\ Cardinality(Orders) = Cardinality(Scheduled)
  <2> DEFINE h == [r \in Scheduled |-> Order(r)]
  <2>1. DOMAIN h = Scheduled /\ Orders = {h[r] : r \in Scheduled}
    BY DEF Orders
  <2>2. \A r, q \in Scheduled : h[r] = h[q] => r = q
    <3> SUFFICES ASSUME NEW r \in Scheduled, NEW q \in Scheduled, Order(r) = Order(q) PROVE r = q
      OBVIOUS
    <3>1. r.ticker = q.ticker
      BY DEF Order
    <3> QED BY <1>1, <3>1, CandidatesAre
  <2> HIDE DEF h
  <2> QED BY <1>1, <2>1, <2>2, ImageIs
<1>4. IsFiniteSet(Refusals) /\ Cardinality(Refusals) = Cardinality(Hindered)
  <2> DEFINE h == [r \in Hindered |-> Rejection(r.ticker, Hindrance(r))]
  <2>1. DOMAIN h = Hindered /\ Refusals = {h[r] : r \in Hindered}
    BY DEF Refusals
  <2>2. \A r, q \in Hindered : h[r] = h[q] => r = q
    <3> SUFFICES ASSUME NEW r \in Hindered, NEW q \in Hindered,
                        Rejection(r.ticker, Hindrance(r)) = Rejection(q.ticker, Hindrance(q))
                 PROVE  r = q
      OBVIOUS
    <3>1. r.ticker = q.ticker
      BY DEF Rejection
    <3> QED BY <1>1, <3>1, CandidatesAre
  <2> HIDE DEF h
  <2> QED BY <1>1, <2>1, <2>2, ImageIs
<1>5. IsFiniteSet(Considered) /\ Cardinality(Considered) = Cardinality(Candidates)
  <2> DEFINE h == [r \in Candidates |-> <<clock.day, r.ticker>>]
  <2>1. DOMAIN h = Candidates /\ Considered = {h[r] : r \in Candidates}
    BY DEF Considered
  <2>2. \A r, q \in Candidates : h[r] = h[q] => r = q
    BY CandidatesAre
  <2> HIDE DEF h
  <2> QED BY <2>1, <2>2, CandidatesAre, ImageIs
<1> QED BY <1>2, <1>3, <1>4, <1>5

LEMMA EndMoves ==
  ASSUME TaskTyped, BookTyped, EndDay
  PROVE  /\ clock.step = "enter" /\ task' = task /\ metrics' = metrics
         /\ book' = [cash |-> book.cash, positions |-> book.positions,
                     pending |-> book.pending \cup Orders, closed |-> book.closed,
                     rejected |-> book.rejected \cup Refusals,
                     scheduled |-> book.scheduled \cup Considered]
         /\ \/ /\ clock.day = task.end /\ clock' = [clock EXCEPT !.step = "done"]
               /\ clock'.step = "done" /\ clock'.day = clock.day
            \/ /\ clock.day # task.end /\ clock' = [day |-> clock.day + 1, step |-> "exit"]
<1>1. clock.step = "enter" /\ task' = task /\ metrics' = metrics
  BY DEF EndDay
<1>2. book' = [book EXCEPT !.pending = @ \cup Orders, !.rejected = @ \cup Refusals, !.scheduled = @ \cup Considered]
  BY DEF EndDay, Orders, Refusals, Considered, Scheduled, Hindered
<1>3. book' = [cash |-> book.cash, positions |-> book.positions,
               pending |-> book.pending \cup Orders, closed |-> book.closed,
               rejected |-> book.rejected \cup Refusals,
               scheduled |-> book.scheduled \cup Considered]
  BY <1>2 DEF BookTyped, Book
<1>4. CASE clock.day = task.end
  <2>1. clock' = [clock EXCEPT !.step = "done"]
    BY <1>4 DEF EndDay
  <2>2. clock'.step = "done" /\ clock'.day = clock.day
    BY <2>1 DEF TaskTyped
  <2> QED BY <1>1, <1>3, <1>4, <2>1, <2>2
<1>5. CASE clock.day # task.end
  BY <1>1, <1>3, <1>5 DEF EndDay
<1> QED BY <1>4, <1>5

LEMMA EndIsTyped ==
  ASSUME TaskTyped, BookTyped, EndDay
  PROVE  TaskTyped' /\ BookTyped' /\ Orders \subseteq PendingOrder /\ Refusals \subseteq Refusal
<1>1. task.end \in Nat /\ clock.day \in 1 .. task.end /\ clock.day \in Nat
  <2>1. task.end \in Nat
    BY EqualSlotAssumption DEF EqualSlotAssumption, TaskTyped
  <2>2. clock.day \in 1 .. task.end
    BY DEF TaskTyped
  <2> QED BY <2>1, <2>2
<1>2. TaskTyped'
  <2>1. CASE clock.day = task.end /\ clock' = [clock EXCEPT !.step = "done"]
    BY <2>1, EndMoves DEF TaskTyped
  <2>2. CASE clock.day # task.end /\ clock' = [day |-> clock.day + 1, step |-> "exit"]
    <3>1. clock.day + 1 \in 1 .. task.end
      BY <1>1, <2>2
    <3> QED BY <2>2, <3>1, EndMoves DEF TaskTyped
  <2> QED BY <2>1, <2>2, EndMoves
<1>3. Orders \subseteq PendingOrder
  <2> SUFFICES ASSUME NEW r \in Scheduled PROVE Order(r) \in PendingOrder
    BY DEF Orders
  <2>1. r.ticker \in Slotted /\ r.score \in Int
    BY CandidatesAre DEF Scheduled
  <2>2. clock.day \in 0 .. task.end
    BY <1>1
  <2>3. NextSession(clock.day) \in TradingDay
    BY <2>2, NextIs
  <2> QED BY <1>1, <2>1, <2>3 DEF Order, PendingOrder
<1>4. Refusals \subseteq Refusal
  <2> SUFFICES ASSUME NEW r \in Hindered PROVE Rejection(r.ticker, Hindrance(r)) \in Refusal
    BY DEF Refusals
  <2>1. r.ticker \in Slotted
    BY CandidatesAre DEF Hindered
  <2>2. Hindrance(r) \in Hindrances
    BY HindranceIs DEF Hindered
  <2> QED BY <1>1, <2>1, <2>2 DEF Rejection, Refusal
<1>5. Considered \subseteq Nat \X Slotted
  BY <1>1, CandidatesAre DEF Considered
<1>6. /\ book' = [cash |-> book.cash, positions |-> book.positions,
                  pending |-> book.pending \cup Orders, closed |-> book.closed,
                  rejected |-> book.rejected \cup Refusals,
                  scheduled |-> book.scheduled \cup Considered]
  BY EndMoves
<1>7. book' \in Book
  <2>1. /\ book.pending \cup Orders \in SUBSET PendingOrder /\ book.closed \in SUBSET Sale
        /\ book.rejected \cup Refusals \in SUBSET Refusal
        /\ book.scheduled \cup Considered \in SUBSET (Nat \X Slotted)
        /\ book.cash \in Nat /\ book.positions \in SUBSET Holding
    BY <1>3, <1>4, <1>5 DEF BookTyped, Book
  <2> QED BY <1>6, <2>1 DEF Book
<1>8. BookTyped'
  <2>1. /\ IsFiniteSet(book.pending \cup Orders) /\ IsFiniteSet(book.rejected \cup Refusals)
        /\ IsFiniteSet(book.scheduled \cup Considered)
    BY MoneyIs, ConsideredAre, FS_Union
  <2> QED BY <1>6, <1>7, <2>1, MoneyIs DEF BookTyped
<1> QED BY <1>2, <1>3, <1>4, <1>8

LEMMA EndValues ==
  ASSUME SlotInv, EndDay
  PROVE  CurveTyped' /\ BalanceHolds' /\ DaysHold'
<1>0. clock.step = "enter"
  BY DEF EndDay
<1>1. /\ TaskTyped /\ BookTyped /\ CurveTyped /\ DatesHold /\ SalesHold /\ BalanceHolds /\ TickersHold
      /\ AnswersHold /\ DaysHold /\ MetricsHold /\ ExitsAreTimely
  BY <1>0, ActiveSlots
<1>2. task' = task /\ book'.cash = book.cash /\ book'.positions = book.positions /\ book'.closed = book.closed
  BY <1>1, EndMoves
<1>3. PICK today \in Nat : today = clock.day
  BY <1>1, CandidatesAre
<1>4. PICK x \in Nat, s \in Nat, r \in Int, c \in Nat : x = Exposure /\ s = Spent /\ r = Realized /\ c = book.cash
  BY <1>1, MoneyIs DEF BookTyped, Book
<1>5. c + s = Capital + r
  BY <1>1, <1>4 DEF BalanceHolds
<1>6. PICK k \in Int : k = Capital
  BY EqualSlotAssumption DEF EqualSlotAssumption
<1>7. PICK shot : shot = Snapshot
  OBVIOUS
<1>8. shot = [day |-> today, cash |-> c, total |-> c + x, held |-> book.positions, realized |-> r, unrealized |-> x - s]
  BY <1>3, <1>4, <1>7 DEF Snapshot
<1>9. shot \in SnapshotRow /\ shot.day = today /\ shot.total = Capital + shot.realized + shot.unrealized
  <2>1. book.positions \in SUBSET Holding
    BY <1>1 DEF BookTyped, Book
  <2>2. c + x \in Int /\ x - s \in Int
    OBVIOUS
  <2>3. c + x = k + r + (x - s)
    BY <1>5, <1>6
  <2> QED BY <1>6, <1>8, <2>1, <2>2, <2>3 DEF SnapshotRow
<1>10. PICK shots, missed : curve = [snapshots |-> shots, gaps |-> missed]
                            /\ shots \subseteq SnapshotRow /\ missed \subseteq Nat
  BY <1>1 DEF CurveTyped
<1>11. \/ /\ AllMarked /\ curve' = [snapshots |-> shots \cup {shot}, gaps |-> missed]
       \/ /\ ~AllMarked /\ curve' = [snapshots |-> shots, gaps |-> missed \cup {today}]
  BY <1>3, <1>7, <1>10 DEF EndDay
<1>12. CurveTyped'
  <2>1. shots \cup {shot} \in SUBSET SnapshotRow /\ missed \cup {today} \in SUBSET Nat
    BY <1>9, <1>10
  <2>2. shots \in SUBSET SnapshotRow /\ missed \in SUBSET Nat
    BY <1>10
  <2>3. PICK more, less : /\ curve' = [snapshots |-> more, gaps |-> less]
                          /\ more \in SUBSET SnapshotRow /\ less \in SUBSET Nat
    BY <1>11, <2>1, <2>2
  <2> QED BY <2>3 DEF CurveTyped
<1>13. BalanceHolds'
  <2>1. Spent' = Spent /\ Realized' = Realized
    BY <1>2 DEF Spent, Realized
  <2>2. \A u \in curve'.snapshots : u.total = Capital + u.realized + u.unrealized
    BY <1>1, <1>9, <1>10, <1>11 DEF BalanceHolds
  <2> QED BY <1>1, <1>2, <2>1, <2>2 DEF BalanceHolds
<1>14. PICK valued : valued = {u.day : u \in shots}
  OBVIOUS
<1>15. valued \cup missed = 1 .. today - 1 /\ valued \cap missed = {}
  BY <1>0, <1>1, <1>3, <1>10, <1>14 DEF DaysHold, DaysAreAccounted, FirstDay
<1>16. today \notin valued /\ today \notin missed /\ (1 .. today - 1) \cup {today} = 1 .. today
  <2>1. today \notin 1 .. today - 1
    OBVIOUS
  <2>2. today > 0
    BY <1>1, <1>3 DEF TaskTyped
  <2> QED BY <1>15, <2>1, <2>2
<1>17. \/ /\ clock.day = task.end /\ clock'.step = "done" /\ clock'.day = today
       \/ /\ clock'.step = "exit" /\ clock'.day = today + 1
  BY <1>1, <1>3, EndMoves
<1>18. DaysAreAccounted'
  <2>1. FirstDay .. (IF clock'.step \in {"done", "reported"} THEN clock'.day ELSE clock'.day - 1) = 1 .. today
    BY <1>17 DEF FirstDay
  <2>2. {u.day : u \in curve'.snapshots} \cup curve'.gaps = 1 .. today
        /\ {u.day : u \in curve'.snapshots} \cap curve'.gaps = {}
    <3>1. CASE curve' = [snapshots |-> shots \cup {shot}, gaps |-> missed]
      <4>1. {u.day : u \in curve'.snapshots} = valued \cup {today} /\ curve'.gaps = missed
        BY <1>9, <1>14, <3>1
      <4> QED BY <1>15, <1>16, <4>1
    <3>2. CASE curve' = [snapshots |-> shots, gaps |-> missed \cup {today}]
      <4>1. {u.day : u \in curve'.snapshots} = valued /\ curve'.gaps = missed \cup {today}
        BY <1>14, <3>2
      <4> QED BY <1>15, <1>16, <4>1
    <3> QED BY <1>11, <3>1, <3>2
  <2> QED BY <2>1, <2>2 DEF DaysAreAccounted
<1>19. \A u, v \in curve'.snapshots : u.day = v.day => u = v
  <2>1. \A u, v \in shots : u.day = v.day => u = v
    BY <1>1, <1>10 DEF DaysHold
  <2>2. \A u \in shots : u.day # today
    BY <1>14, <1>16
  <2>3. curve'.snapshots \subseteq shots \cup {shot}
    BY <1>11
  <2> QED BY <1>9, <2>1, <2>2, <2>3
<1>20. ASSUME clock'.step \in {"done", "reported"}, AllMarked'
       PROVE  \E u \in curve'.snapshots : u.day = task'.end /\ u.total = book'.cash + Exposure'
  <2>1. clock.day = task.end /\ clock'.day = clock.day
    BY <1>3, <1>17, <1>20
  <2>2. \A p : Mark(p)' = Mark(p)
    BY <1>2, <2>1 DEF Mark, Quote, PreviousSession
  <2>3. AllMarked
    BY <1>2, <1>20, <2>2 DEF AllMarked
  <2>4. Exposure' = Exposure
    BY <1>2, <2>2 DEF Exposure
  <2>5. shot \in curve'.snapshots
    BY <1>11, <2>3
  <2>6. shot.day = task'.end /\ shot.total = book'.cash + Exposure'
    BY <1>2, <1>3, <1>4, <1>8, <2>1, <2>4
  <2> QED BY <2>5, <2>6
<1> QED BY <1>12, <1>13, <1>18, <1>19, <1>20 DEF DaysHold

LEMMA EndKeepsRest ==
  ASSUME SlotInv, EndDay
  PROVE  DatesHold' /\ SalesHold' /\ TickersHold' /\ AnswersHold' /\ MetricsHold' /\ ExitsAreTimely'
<1>0. clock.step = "enter"
  BY DEF EndDay
<1>1. /\ TaskTyped /\ BookTyped /\ CurveTyped /\ DatesHold /\ SalesHold /\ BalanceHolds /\ TickersHold
      /\ AnswersHold /\ DaysHold /\ MetricsHold /\ ExitsAreTimely
  BY <1>0, ActiveSlots
<1>2. /\ task' = task /\ metrics' = metrics
      /\ book'.positions = book.positions /\ book'.pending = book.pending \cup Orders
      /\ book'.closed = book.closed /\ book'.rejected = book.rejected \cup Refusals
      /\ book'.scheduled = book.scheduled \cup Considered
  BY <1>1, EndMoves
<1>3. PICK today \in Nat : today = clock.day
  BY <1>1, CandidatesAre
<1>4. \/ /\ clock.day = task.end /\ clock'.step = "done" /\ clock'.day = today
      \/ /\ clock'.step = "exit" /\ clock'.day = today + 1
  BY <1>1, <1>3, EndMoves
<1>5. /\ \A t, s : Quote(t, s)' = Quote(t, s)
      /\ \A p : ExitQuote(p)' = ExitQuote(p)
      /\ \A p : Closed(p)' = Closed(p)
  BY <1>2, QuotesStay
<1>6. \A d \in Nat : UpToNow(d) => UpToNow(d)'
  BY <1>0, <1>3, <1>4 DEF UpToNow
<1>7. Positions' = Positions /\ \A p \in Positions : p.entered \in Nat
  <2>1. TradingDay \subseteq Nat
    BY EqualSlotAssumption DEF EqualSlotAssumption
  <2> QED BY <1>1, <1>2, <2>1 DEF Positions, BookTyped, Book, Sale, Holding
<1>8. \A o \in Orders : /\ o.signalled = today /\ o.execution = NextSession(today)
                        /\ Quote(o.ticker, o.execution) > 0 /\ ~Taken(o.ticker)
  <2> SUFFICES ASSUME NEW r \in Scheduled
               PROVE  /\ Order(r).signalled = today /\ Order(r).execution = NextSession(today)
                      /\ Quote(Order(r).ticker, Order(r).execution) > 0 /\ ~Taken(Order(r).ticker)
    BY DEF Orders
  <2>1. r.ticker \in Slotted /\ ~Taken(r.ticker) /\ Quote(r.ticker, NextSession(today)) # 0
    BY <1>1, <1>3, CandidatesAre, HindranceIs DEF Scheduled
  <2>2. Quote(r.ticker, NextSession(today)) \in Nat
    BY <1>1, <2>1, QuoteIsNat
  <2> QED BY <1>3, <2>1, <2>2 DEF Order
<1>9. \A o, q \in Orders : o.ticker = q.ticker => o = q
  <2> SUFFICES ASSUME NEW r \in Scheduled, NEW u \in Scheduled, Order(r).ticker = Order(u).ticker
               PROVE  Order(r) = Order(u)
    BY DEF Orders
  <2>1. r.ticker = u.ticker
    BY DEF Order
  <2>2. r = u
    BY <1>1, <2>1, CandidatesAre DEF Scheduled
  <2> QED BY <2>2
<1>10. \A q \in Refusals : q.day = today /\ q.reason \in Hindrances
  BY <1>3, HindranceIs DEF Refusals, Hindered, Rejection
<1>11. \A e \in Considered : e[1] = today
  BY <1>3 DEF Considered
<1>12. DatesHold'
  <2>1. \A p \in Positions' :
          /\ p.entered = NextSession(p.signalled) /\ UpToNow(p.entered)'
          /\ p.cost = p.shares * Quote(p.ticker, p.entered)' * (Unit + EntrySlippage)
    BY <1>1, <1>5, <1>6, <1>7 DEF DatesHold
  <2>2. \A o \in book.pending : o.signalled \in Nat
    BY <1>1 DEF BookTyped, Book, PendingOrder
  <2>3. \A o \in book'.pending :
          /\ o.execution = NextSession(o.signalled) /\ Quote(o.ticker, o.execution)' > 0
          /\ clock'.step \in {"exit", "enter"} => o.signalled < clock'.day
    <3>1. \A o \in book.pending : o.signalled < today + 1 /\ o.execution = NextSession(o.signalled)
                                  /\ Quote(o.ticker, o.execution) > 0
      BY <1>0, <1>1, <1>3, <2>2 DEF DatesHold
    <3>2. \A o \in Orders : o.signalled < today + 1 /\ o.execution = NextSession(o.signalled)
                            /\ Quote(o.ticker, o.execution) > 0
      BY <1>8
    <3> QED BY <1>2, <1>4, <1>5, <3>1, <3>2
  <2> QED BY <2>1, <2>3 DEF DatesHold, NextSession
<1>13. SalesHold'
  <2>1. \A c \in book.closed : c.position.entered \in Nat
    BY <1>7 DEF Positions
  <2> QED BY <1>1, <1>2, <1>3, <1>4, <1>5, <2>1 DEF SalesHold
<1>14. TickersHold'
  <2>1. \A p \in book.positions \cup book.pending, o \in Orders : p.ticker # o.ticker
    BY <1>8 DEF Taken
  <2> QED BY <1>1, <1>2, <1>9, <2>1 DEF TickersHold
<1>15. AnswersHold'
  <2>1. EveryOrderIsAnswered'
    <3>1. /\ IsFiniteSet(Orders) /\ IsFiniteSet(Refusals) /\ IsFiniteSet(Considered)
          /\ Cardinality(Considered) = Cardinality(Orders) + Cardinality(Refusals)
          /\ IsFiniteSet(book.pending) /\ IsFiniteSet(book.rejected) /\ IsFiniteSet(book.scheduled)
      BY <1>1, ConsideredAre, MoneyIs
    <3>2. /\ Cardinality(Orders) \in Nat /\ Cardinality(Refusals) \in Nat /\ Cardinality(book.pending) \in Nat
          /\ Cardinality(book.rejected) \in Nat
      BY <3>1, FS_CardinalityType
    <3>3. book.pending \cap Orders = {} /\ book.rejected \cap Refusals = {} /\ book.scheduled \cap Considered = {}
      <4>1. \A o \in book.pending : o.signalled # today
        BY <1>0, <1>1, <1>3 DEF DatesHold, BookTyped, Book, PendingOrder
      <4>2. \A q \in book.rejected : q.day = today => q.reason \in Obstacles
        BY <1>0, <1>1, <1>3 DEF AnswersHold
      <4>3. Obstacles \cap Hindrances = {}
        BY DEF Obstacles, Hindrances
      <4>4. \A e \in book.scheduled : e[1] \in Nat /\ e[1] < today
        BY <1>0, <1>1, <1>3 DEF AnswersHold, BookTyped, Book
      <4> QED BY <1>8, <1>10, <1>11, <4>1, <4>2, <4>3, <4>4
    <3>4. Cardinality(book'.pending) = Cardinality(book.pending) + Cardinality(Orders)
      <4>1. Cardinality(book.pending \cup Orders)
              = Cardinality(book.pending) + Cardinality(Orders) - Cardinality(book.pending \cap Orders)
        BY <3>1, FS_Union
      <4>2. Cardinality(book.pending \cap Orders) = 0
        BY <3>3, FS_EmptySet
      <4> QED BY <1>2, <3>2, <4>1, <4>2
    <3>5. Cardinality(book'.rejected) = Cardinality(book.rejected) + Cardinality(Refusals)
      <4>1. Cardinality(book.rejected \cup Refusals)
              = Cardinality(book.rejected) + Cardinality(Refusals) - Cardinality(book.rejected \cap Refusals)
        BY <3>1, FS_Union
      <4>2. Cardinality(book.rejected \cap Refusals) = 0
        BY <3>3, FS_EmptySet
      <4> QED BY <1>2, <3>2, <4>1, <4>2
    <3>6. Cardinality(book'.scheduled) = Cardinality(book.scheduled) + Cardinality(Considered)
      <4>1. Cardinality(book.scheduled \cup Considered)
              = Cardinality(book.scheduled) + Cardinality(Considered)
                  - Cardinality(book.scheduled \cap Considered)
        BY <3>1, FS_Union
      <4>2. Cardinality(book.scheduled) \in Nat /\ Cardinality(Considered) \in Nat
        BY <3>1, FS_CardinalityType
      <4>3. Cardinality(book.scheduled \cap Considered) = 0
        BY <3>3, FS_EmptySet
      <4> QED BY <1>2, <4>1, <4>2, <4>3
    <3>7. Cardinality(book.scheduled)
            = Cardinality(book.pending) + Cardinality(book.rejected) + Cardinality(Positions)
      BY <1>1 DEF AnswersHold, EveryOrderIsAnswered
    <3>8. Cardinality(Positions) \in Nat
      <4> DEFINE h == [c \in book.closed |-> c.position]
                 left == {c.position : c \in book.closed}
      <4>1. left = {h[c] : c \in book.closed} /\ DOMAIN h = book.closed
        OBVIOUS
      <4>2. Positions = book.positions \cup left
        BY DEF Positions
      <4> HIDE DEF h, left
      <4>3. IsFiniteSet(left)
        BY <1>1, <4>1, MoneyIs, ImageIs
      <4> QED BY <1>1, <4>2, <4>3, MoneyIs, FS_Union, FS_CardinalityType
    <3> QED BY <1>7, <3>1, <3>2, <3>4, <3>5, <3>6, <3>7, <3>8 DEF EveryOrderIsAnswered
  <2>2. \A e \in book'.scheduled : clock'.step \in {"exit", "enter"} => e[1] < clock'.day
    <3>1. \A e \in book.scheduled : e[1] \in Nat /\ e[1] < today
      BY <1>0, <1>1, <1>3 DEF AnswersHold, BookTyped, Book
    <3>2. \A e \in book'.scheduled : e[1] \in Nat /\ e[1] < today + 1
      BY <1>2, <1>11, <3>1
    <3> QED BY <1>4, <3>2
  <2>3. \A q \in book'.rejected : UpToNow(q.day)'
    <3>1. \A q \in book.rejected : q.day \in Nat /\ UpToNow(q.day)
      BY <1>1 DEF AnswersHold, BookTyped, Book, Refusal
    <3>2. UpToNow(today)
      BY <1>0, <1>3 DEF UpToNow
    <3> QED BY <1>2, <1>6, <1>10, <3>1, <3>2
  <2> QED BY <1>4, <2>1, <2>2, <2>3 DEF AnswersHold
<1>16. MetricsHold'
  BY <1>0, <1>1, <1>2 DEF MetricsHold, MetricsAreOfTheEnd, Unset
<1>17. ExitsAreTimely'
  <2>1. CASE clock'.step = "exit"
    BY <2>1 DEF ExitsAreTimely
  <2>2. CASE clock'.step = "done" /\ clock'.day = today
    BY <1>0, <1>1, <1>2, <1>3, <1>5, <2>2 DEF ExitsAreTimely, ExpectedExit, PreviousSession
  <2> QED BY <1>4, <2>1, <2>2
<1> QED BY <1>12, <1>13, <1>14, <1>15, <1>16, <1>17

-----------------------------------------------------------------------------
(* Metrics.                                                                *)
LEMMA LastSnapshotIs ==
  ASSUME TaskTyped, CurveTyped, DaysHold, clock.step = "done",
         NEW s \in curve.snapshots, s.day = task.end
  PROVE  LastSnapshot = s
<1>1. clock.day = task.end /\ task.end \in Nat
  BY EqualSlotAssumption DEF EqualSlotAssumption, TaskTyped
<1>2. \A u \in curve.snapshots : u.day \in 1 .. task.end
  BY <1>1 DEF DaysHold, DaysAreAccounted, FirstDay
<1>3. \A u \in curve.snapshots : u.day <= s.day
  BY <1>1, <1>2
<1>4. PICK u : u = LastSnapshot /\ u \in curve.snapshots /\ \A other \in curve.snapshots : other.day <= u.day
  BY <1>3 DEF LastSnapshot
<1>5. u.day = s.day
  BY <1>1, <1>2, <1>4
<1> QED BY <1>4, <1>5 DEF DaysHold

LEMMA MetricsKeep ==
  ASSUME SlotInv, ComputeMetrics
  PROVE  SlotInv'
<1>0. clock.step = "done"
  BY DEF ComputeMetrics
<1>1. /\ TaskTyped /\ BookTyped /\ CurveTyped /\ DatesHold /\ SalesHold /\ BalanceHolds /\ TickersHold
      /\ AnswersHold /\ DaysHold /\ MetricsHold /\ ExitsAreTimely
  BY <1>0, ActiveSlots
<1>2. task' = task /\ book' = book /\ curve' = curve /\ clock' = [clock EXCEPT !.step = "reported"]
  BY DEF ComputeMetrics
<1>3. clock'.step = "reported" /\ clock'.day = clock.day /\ clock.day = task.end
  BY <1>0, <1>1, <1>2 DEF TaskTyped
<1>4. TaskTyped' /\ BookTyped' /\ CurveTyped'
  BY <1>0, <1>1, <1>2 DEF TaskTyped, BookTyped, CurveTyped
<1>5. /\ \A t, s : Quote(t, s)' = Quote(t, s)
      /\ \A p : ExitQuote(p)' = ExitQuote(p)
      /\ \A p : Closed(p)' = Closed(p)
      /\ \A d : UpToNow(d)' = UpToNow(d)
      /\ \A p : Mark(p)' = Mark(p)
  <2>1. \A d : UpToNow(d)' = UpToNow(d)
    BY <1>0, <1>3 DEF UpToNow
  <2>2. \A p : Mark(p)' = Mark(p)
    BY <1>2, <1>3 DEF Mark, Quote, PreviousSession
  <2> QED BY <1>2, <2>1, <2>2, QuotesStay
<1>6. Positions' = Positions /\ Spent' = Spent /\ Realized' = Realized /\ Exposure' = Exposure
      /\ (AllMarked' <=> AllMarked)
  BY <1>2, <1>5 DEF Positions, Spent, Realized, Exposure, AllMarked
<1>7. DatesHold'
  BY <1>1, <1>2, <1>3, <1>5, <1>6 DEF DatesHold, NextSession
<1>8. SalesHold' /\ BalanceHolds' /\ TickersHold'
  BY <1>1, <1>2, <1>3, <1>5, <1>6 DEF SalesHold, BalanceHolds, TickersHold
<1>9. AnswersHold'
  BY <1>1, <1>2, <1>3, <1>5, <1>6 DEF AnswersHold, EveryOrderIsAnswered
<1>10. DaysHold'
  <2>1. DaysAreAccounted'
    BY <1>0, <1>1, <1>2, <1>3 DEF DaysHold, DaysAreAccounted
  <2> QED BY <1>0, <1>1, <1>2, <1>6, <2>1 DEF DaysHold
<1>11. ExitsAreTimely'
  BY <1>0, <1>1, <1>2, <1>3, <1>5 DEF ExitsAreTimely, ExpectedExit, PreviousSession
<1>12. MetricsHold'
  <2>1. CASE Unresolved # {}
    BY <1>3, <2>1 DEF ComputeMetrics, MetricsHold, MetricsAreOfTheEnd
  <2>2. CASE Unresolved = {}
    <3>1. \A p \in book.positions : ~(clock.day >= ExpectedExit(p)) /\ Mark(p) # 0
      BY <2>2 DEF Unresolved
    <3>2. \A p \in book.positions : p \in Holding
      BY <1>1 DEF BookTyped, Book
    <3>3. AllMarked
      <4>1. \A p \in book.positions : Mark(p) \in Nat
        BY <1>1, <3>2, QuoteIsNat DEF Mark, Holding
      <4> QED BY <3>1, <4>1 DEF AllMarked
    <3>4. \A p \in book.positions : ExpectedExit(p) > task.end
      <4>1. \A p \in book.positions : ExpectedExit(p) \in Nat
        BY <3>2, ExitIs, EqualSlotAssumption DEF EqualSlotAssumption
      <4>2. task.end \in Nat
        BY <1>1, EqualSlotAssumption DEF EqualSlotAssumption, TaskTyped
      <4> QED BY <1>3, <3>1, <4>1, <4>2
    <3>5. PICK s \in curve.snapshots : s.day = task.end /\ s.total = book.cash + Exposure
      BY <1>0, <1>1, <3>3 DEF DaysHold
    <3>6. LastSnapshot = s
      BY <1>0, <1>1, <3>5, LastSnapshotIs
    <3>7. metrics'.on = task.end /\ metrics'.final = book.cash + Exposure /\ metrics'.open = Exposure
      BY <2>2, <3>5, <3>6 DEF ComputeMetrics
    <3>8. \A p \in book'.positions : ExpectedExit(p)' > task'.end
      BY <1>2, <3>4 DEF ExpectedExit, PreviousSession
    <3>9. MetricsAreOfTheEnd'
      BY <1>2, <3>7, <3>8 DEF MetricsAreOfTheEnd
    <3> QED BY <1>3, <3>9 DEF MetricsHold
  <2> QED BY <2>1, <2>2
<1> QED BY <1>4, <1>7, <1>8, <1>9, <1>10, <1>11, <1>12 DEF SlotInv

LEMMA SlotsStay ==
  ASSUME SlotInv, UNCHANGED slotVars
  PROVE  SlotInv'
<1>1. CASE clock.step = "idle"
  BY <1>1 DEF slotVars, SlotInv
<1>2. CASE clock.step # "idle"
  <2>1. /\ TaskTyped /\ BookTyped /\ CurveTyped /\ DatesHold /\ SalesHold /\ BalanceHolds /\ TickersHold
        /\ AnswersHold /\ DaysHold /\ MetricsHold /\ ExitsAreTimely
    BY <1>2, ActiveSlots
  <2>2. task' = task /\ book' = book /\ curve' = curve /\ clock' = clock /\ metrics' = metrics
    BY DEF slotVars
  <2>3. /\ \A t, s : Quote(t, s)' = Quote(t, s)
        /\ \A p : ExitQuote(p)' = ExitQuote(p)
        /\ \A p : Closed(p)' = Closed(p)
        /\ \A d : UpToNow(d)' = UpToNow(d)
        /\ \A p : Mark(p)' = Mark(p)
    <3>1. \A d : UpToNow(d)' = UpToNow(d)
      BY <2>2 DEF UpToNow
    <3>2. \A p : Mark(p)' = Mark(p)
      BY <2>2 DEF Mark, Quote, PreviousSession
    <3> QED BY <2>2, <3>1, <3>2, QuotesStay
  <2>4. Positions' = Positions /\ Spent' = Spent /\ Realized' = Realized /\ Exposure' = Exposure
        /\ (AllMarked' <=> AllMarked)
    BY <2>2, <2>3 DEF Positions, Spent, Realized, Exposure, AllMarked
  <2>5. TaskTyped' /\ BookTyped' /\ CurveTyped'
    BY <2>1, <2>2 DEF TaskTyped, BookTyped, CurveTyped
  <2>6. DatesHold'
    BY <2>1, <2>2, <2>3, <2>4 DEF DatesHold, NextSession
  <2>7. SalesHold' /\ BalanceHolds' /\ TickersHold'
    BY <2>1, <2>2, <2>3, <2>4 DEF SalesHold, BalanceHolds, TickersHold
  <2>8. AnswersHold'
    BY <2>1, <2>2, <2>3, <2>4 DEF AnswersHold, EveryOrderIsAnswered
  <2>9. DaysHold'
    BY <2>1, <2>2, <2>3, <2>4 DEF DaysHold, DaysAreAccounted
  <2>10. ExitsAreTimely' /\ MetricsHold'
    BY <2>1, <2>2, <2>3 DEF ExitsAreTimely, MetricsHold, MetricsAreOfTheEnd, ExpectedExit, PreviousSession
  <2> QED BY <2>5, <2>6, <2>7, <2>8, <2>9, <2>10 DEF SlotInv
<1> QED BY <1>1, <1>2

LEMMA SlotSteps == SlotInv /\ [SlotNext]_slotVars => SlotInv'
<1> SUFFICES ASSUME SlotInv, [SlotNext]_slotVars PROVE SlotInv'
  OBVIOUS
<1>1. Max(WindowEnd) \in WindowEnd
  <2>1. WindowEnd \in SUBSET Nat /\ WindowEnd # {} /\ IsFiniteSet(WindowEnd)
    BY EqualSlotAssumption DEF EqualSlotAssumption
  <2> QED BY <2>1, FiniteHasGreatest
<1>2. CASE Evaluate
  <2>1. PICK quotes \in [Slotted -> QuotePath], signals \in SignalPlan, slots \in SlotCount :
          Start(quotes, signals, slots, Max(WindowEnd))
    BY <1>2 DEF Evaluate
  <2> QED BY <1>1, <2>1, SlotsStart
<1>3. CASE EvaluateShorter
  <2>1. clock.step = "reported"
    BY <1>3 DEF EvaluateShorter
  <2>2. task.quotes \in [Slotted -> QuotePath] /\ task.signals \in SignalPlan /\ task.slots \in SlotCount
    BY <2>1, ActiveSlots DEF TaskTyped
  <2>3. PICK end \in WindowEnd : Start(task.quotes, task.signals, task.slots, end)
    BY <1>3 DEF EvaluateShorter
  <2> QED BY <2>2, <2>3, SlotsStart
<1>4. CASE ExitExpired
  BY <1>4, ExitKeeps
<1>5. CASE \E o \in book.pending : ExecutePending(o)
  <2>1. PICK o \in book.pending : ExecutePending(o)
    BY <1>5
  <2>2. CASE Obstacle(o) = "none"
    BY <2>1, <2>2, FillKeeps
  <2>3. CASE Obstacle(o) # "none"
    BY <2>1, <2>3, RefuseKeeps
  <2> QED BY <2>2, <2>3
<1>6. CASE EndDay
  <2>1. clock.step = "enter"
    BY <1>6 DEF EndDay
  <2>2. TaskTyped /\ BookTyped
    BY <2>1, ActiveSlots
  <2>3. TaskTyped' /\ BookTyped'
    BY <1>6, <2>2, EndIsTyped
  <2> QED BY <1>6, <2>3, EndValues, EndKeepsRest DEF SlotInv
<1>7. CASE ComputeMetrics
  BY <1>7, MetricsKeep
<1>8. CASE Leave
  BY <1>8 DEF Leave, SlotInv
<1>9. CASE UNCHANGED slotVars
  BY <1>9, SlotsStay
<1> QED BY <1>2, <1>3, <1>4, <1>5, <1>6, <1>7, <1>8, <1>9 DEF SlotNext

LEMMA InvKeepsBooks == SlotInv => SlotsKeepBooks
<1> SUFFICES ASSUME SlotInv, clock.step # "idle"
             PROVE  /\ BooksBalance /\ SlotsAreDistinct /\ EveryOrderIsAnswered /\ FillsAreExact
                    /\ ExitsAreTimely /\ DaysAreAccounted /\ MetricsAreOfTheEnd
  BY DEF SlotsKeepBooks
<1>1. /\ TaskTyped /\ BookTyped /\ CurveTyped /\ DatesHold /\ SalesHold /\ BalanceHolds /\ TickersHold
      /\ AnswersHold /\ DaysHold /\ MetricsHold /\ ExitsAreTimely
  BY ActiveSlots
<1>2. BooksBalance
  BY <1>1 DEF BooksBalance, BalanceHolds, BookTyped, Book
<1>3. SlotsAreDistinct
  BY <1>1 DEF SlotsAreDistinct, TickersHold
<1>4. FillsAreExact
  <2>1. \A p \in Positions : p.shares > 0 /\ p.cost > 0
    BY <1>1 DEF Positions, BookTyped, Book, Sale, Holding
  <2>2. \A c \in book.closed : c.proceeds > 0
    BY <1>1 DEF BookTyped, Book, Sale
  <2> QED BY <1>1, <2>1, <2>2 DEF FillsAreExact, DatesHold, SalesHold
<1> QED BY <1>1, <1>2, <1>3, <1>4 DEF AnswersHold, DaysHold, MetricsHold

-----------------------------------------------------------------------------
(* No later quote.  A moment is what the rest of an evaluation depends on; *)
(* from the quotes, the signals and the slots follows which moment is the  *)
(* next, whatever the end of the window is.                                *)
PriceOf(quotes, t, s) == IF s \in DOMAIN quotes[t] THEN quotes[t][s] ELSE 0
Moment(d, step, b, c) ==
  [day |-> d, step |-> step, cash |-> b.cash, positions |-> b.positions, pending |-> b.pending,
   closed |-> b.closed, curve |-> c]
Now == Moment(clock.day, clock.step, book, curve)

ExpiredAt(quotes, m) ==
  {p \in m.positions : m.day >= ExpectedExit(p) /\ PriceOf(quotes, p.ticker, ExpectedExit(p)) > 0}
SoldAt(quotes, p) ==
  [position |-> p, exited |-> ExpectedExit(p),
   proceeds |-> Liquidation(p.shares, PriceOf(quotes, p.ticker, ExpectedExit(p)))]
ExitTo(quotes, m, w) ==
  /\ m.step = "exit" /\ w.step = "enter" /\ w.day = m.day
  /\ w.cash = m.cash + SumFunction([p \in ExpiredAt(quotes, m) |-> SoldAt(quotes, p).proceeds])
  /\ w.positions = m.positions \ ExpiredAt(quotes, m)
  /\ w.closed = m.closed \cup {SoldAt(quotes, p) : p \in ExpiredAt(quotes, m)}
  /\ w.pending = m.pending /\ w.curve = m.curve

MarkAt(quotes, d, p) == PriceOf(quotes, p.ticker, PreviousSession(d))
MarkedAt(quotes, m) == \A p \in m.positions : MarkAt(quotes, m.day, p) > 0
ExposureAt(quotes, m) == SumFunction([p \in m.positions |-> Liquidation(p.shares, MarkAt(quotes, m.day, p))])
DueAt(m) == {o \in m.pending : o.execution <= m.day}
PriceToEnter(quotes, o) == PriceOf(quotes, o.ticker, o.execution) * (Unit + EntrySlippage)
SharesAt(quotes, slots, m, o) ==
  Min({(m.cash + ExposureAt(quotes, m)) \div slots, m.cash}) \div PriceToEnter(quotes, o)
Enters(quotes, slots, m, o) ==
  /\ ~(Cardinality(m.positions) >= slots) /\ o.execution = m.day /\ MarkedAt(quotes, m)
  /\ SharesAt(quotes, slots, m, o) # 0
PositionAt(quotes, slots, m, o) ==
  [ticker |-> o.ticker, signalled |-> o.signalled, entered |-> m.day, shares |-> SharesAt(quotes, slots, m, o),
   cost |-> SharesAt(quotes, slots, m, o) * PriceToEnter(quotes, o)]
FillTo(quotes, slots, m, o, w) ==
  /\ m.step = "enter" /\ o \in DueAt(m) /\ \A p \in DueAt(m) \ {o} : ~Before(p, o)
  /\ w.step = "enter" /\ w.day = m.day /\ w.pending = m.pending \ {o}
  /\ w.closed = m.closed /\ w.curve = m.curve
  /\ Enters(quotes, slots, m, o) =>
       /\ w.cash = m.cash - PositionAt(quotes, slots, m, o).cost
       /\ w.positions = m.positions \cup {PositionAt(quotes, slots, m, o)}
  /\ ~Enters(quotes, slots, m, o) => w.cash = m.cash /\ w.positions = m.positions

BestRows(signals, d) ==
  {r \in signals : /\ (d - FirstDay) % REBALANCE_FREQ = 0 /\ r.day = d
                   /\ \A other \in signals : (other.day = r.day /\ other.ticker = r.ticker) => other.score <= r.score}
TakenAt(m, t) == \E p \in m.positions \cup m.pending : p.ticker = t
OrdersAt(run, m) ==
  {[ticker |-> r.ticker, signalled |-> m.day, execution |-> NextSession(m.day), score |-> r.score] :
     r \in {c \in BestRows(run.signals, m.day) :
              /\ ~TakenAt(m, c.ticker) /\ NextSession(m.day) <= run.end
              /\ PriceOf(run.quotes, c.ticker, NextSession(m.day)) # 0}}
SnapshotAt(quotes, m) ==
  [day |-> m.day, cash |-> m.cash, total |-> m.cash + ExposureAt(quotes, m), held |-> m.positions,
   realized |-> SumFunction([c \in m.closed |-> c.proceeds - c.position.cost]),
   unrealized |-> ExposureAt(quotes, m) - SumFunction([p \in m.positions |-> p.cost])]
CurveAfter(quotes, m) ==
  IF MarkedAt(quotes, m) THEN [m.curve EXCEPT !.snapshots = @ \cup {SnapshotAt(quotes, m)}]
                         ELSE [m.curve EXCEPT !.gaps = @ \cup {m.day}]
EndTo(run, m, w) ==
  /\ m.step = "enter" /\ DueAt(m) = {} /\ w.step = "exit" /\ w.day = m.day + 1
  /\ w.cash = m.cash /\ w.positions = m.positions /\ w.closed = m.closed
  /\ w.pending = m.pending \cup OrdersAt(run, m) /\ w.curve = CurveAfter(run.quotes, m)

Leads(run, m, w) ==
  ExitTo(run.quotes, m, w) \/ (\E o : FillTo(run.quotes, run.slots, m, o, w)) \/ EndTo(run, m, w)
IsLast(run, m) == m.day = run.end /\ m.step = "enter" /\ DueAt(m) = {}

(* What an evaluation that came to a moment had seen.                      *)
UpTo(c, d) == [snapshots |-> {s \in c.snapshots : s.day < d}, gaps |-> {g \in c.gaps : g < d}]
InOrder(m) ==
  /\ m.day \in Nat
  /\ \A o \in m.pending :
       /\ o.signalled \in Nat /\ o.execution \in Nat
       /\ o.execution = NextSession(o.signalled) /\ o.signalled < m.day
Trail(seen, c) ==
  /\ Moment(FirstDay, "exit", EmptyBook, EmptyCurve) \in seen
  /\ \A m \in seen : InOrder(m) /\ m.curve = UpTo(c, m.day)
Continues(before, seen, run) == \A m \in before : IsLast(run, m) \/ \E w \in seen : Leads(run, m, w)

Running == clock.step \in {"exit", "enter"}
Tracked ==
  \E seen :
    /\ Trail(seen, curve) /\ \A m \in seen : m.day <= clock.day
    /\ Running => Now \in seen /\ Continues(seen \ {Now}, seen, task)
    /\ ~Running => Continues(seen, seen, task)
Shows(m) ==
  /\ m.day = clock.day /\ m.step = clock.step /\ m.cash = book.cash /\ m.positions = book.positions
  /\ m.closed = book.closed /\ m.curve = curve
  /\ book.pending = {o \in m.pending : o.execution <= task.end}
Extends(run) ==
  /\ run.quotes = task.quotes /\ run.signals = task.signals /\ run.slots = task.slots
  /\ run.end \in Nat /\ run.end > task.end
Followed ==
  \E seen, run :
    /\ Extends(run) /\ Trail(seen, longer) /\ Continues(seen, seen, run)
    /\ Running => \E m \in seen : Shows(m)
    /\ ~Running => curve = UpTo(longer, clock.day + 1)
PrefixInv ==
  /\ clock.step = "idle" => longer = Unset
  /\ longer # Unset => longer \in [snapshots : SUBSET SnapshotRow, gaps : SUBSET Nat]
  /\ clock.step # "idle" =>
       /\ \A o \in book.pending : \E r \in task.signals : r.day = o.signalled /\ r.ticker = o.ticker
       /\ longer = Unset => Tracked
       /\ longer # Unset => Followed

LEMMA PastQuotes ==
  ASSUME TaskTyped, NEW t, NEW s, s <= task.end
  PROVE  Quote(t, s) = PriceOf(task.quotes, t, s)
BY DEF Quote, PriceOf

LEMMA DaysAre ==
  ASSUME TaskTyped
  PROVE  /\ clock.day \in Nat \ {0} /\ task.end \in Nat /\ clock.day <= task.end /\ task.slots \in Nat \ {0}
         /\ TradingDay \subseteq Nat
<1>1. task.end \in Nat /\ task.slots \in Nat \ {0} /\ TradingDay \subseteq Nat
  BY EqualSlotAssumption DEF EqualSlotAssumption, TaskTyped
<1>2. clock.day \in 1 .. task.end
  BY DEF TaskTyped
<1> QED BY <1>1, <1>2

LEMMA MomentIs ==
  ASSUME NEW d, NEW step, NEW b, NEW c
  PROVE  /\ Moment(d, step, b, c).day = d /\ Moment(d, step, b, c).step = step
         /\ Moment(d, step, b, c).cash = b.cash /\ Moment(d, step, b, c).positions = b.positions
         /\ Moment(d, step, b, c).pending = b.pending /\ Moment(d, step, b, c).closed = b.closed
         /\ Moment(d, step, b, c).curve = c
BY DEF Moment

LEMMA NowIs ==
  /\ Now.day = clock.day /\ Now.step = clock.step /\ Now.cash = book.cash
  /\ Now.positions = book.positions /\ Now.pending = book.pending /\ Now.closed = book.closed
  /\ Now.curve = curve
  /\ Now'.day = clock'.day /\ Now'.step = clock'.step /\ Now'.cash = book'.cash
  /\ Now'.positions = book'.positions /\ Now'.pending = book'.pending /\ Now'.closed = book'.closed
  /\ Now'.curve = curve'
BY MomentIs DEF Now

LEMMA ExpiredNow ==
  ASSUME TaskTyped, BookTyped
  PROVE  /\ Expired = ExpiredAt(task.quotes, Now)
         /\ \A p \in Expired : Closed(p) = SoldAt(task.quotes, p)
<1>1. ASSUME NEW p \in book.positions, clock.day >= ExpectedExit(p)
      PROVE  ExitQuote(p) = PriceOf(task.quotes, p.ticker, ExpectedExit(p))
  <2>1. p \in Holding
    BY DEF BookTyped, Book
  <2>2. ExpectedExit(p) \in Nat
    BY <2>1, ExitIs, DaysAre
  <2>3. ExpectedExit(p) <= task.end
    BY <1>1, <2>2, DaysAre
  <2> QED BY <2>3, PastQuotes DEF ExitQuote
<1>2. Expired = ExpiredAt(task.quotes, Now)
  BY <1>1, NowIs DEF Expired, ExpiredAt
<1>3. \A p \in Expired : Closed(p) = SoldAt(task.quotes, p)
  BY <1>1 DEF Expired, Closed, SoldAt
<1> QED BY <1>2, <1>3

LEMMA ExitLeads ==
  ASSUME SlotInv, ExitExpired
  PROVE  ExitTo(task.quotes, Now, Now')
<1>0. clock.step = "exit"
  BY DEF ExitExpired
<1>1. TaskTyped /\ BookTyped
  BY <1>0, ActiveSlots
<1> DEFINE E == ExpiredAt(task.quotes, Now)
           f == [p \in Expired |-> Closed(p).proceeds]
           g == [p \in E |-> SoldAt(task.quotes, p).proceeds]
<1>2. Expired = E /\ \A p \in Expired : Closed(p) = SoldAt(task.quotes, p)
  BY <1>1, ExpiredNow
<1>3. f = g
  BY <1>2
<1>4. Proceeds = SumFunction(g)
  BY <1>3 DEF Proceeds
<1>5. {Closed(p) : p \in Expired} = {SoldAt(task.quotes, p) : p \in E}
  BY <1>2
<1>6. /\ clock'.step = "enter" /\ clock'.day = clock.day /\ curve' = curve
      /\ book'.cash = book.cash + Proceeds /\ book'.positions = book.positions \ Expired
      /\ book'.closed = book.closed \cup {Closed(p) : p \in Expired} /\ book'.pending = book.pending
  BY <1>1, ExitMoves
<1>7. Now'.cash = Now.cash + SumFunction(g)
  BY <1>4, <1>6, NowIs
<1>8. Now'.positions = Now.positions \ E /\ Now'.closed = Now.closed \cup {SoldAt(task.quotes, p) : p \in E}
  BY <1>2, <1>5, <1>6, NowIs
<1> QED BY <1>0, <1>6, <1>7, <1>8, NowIs DEF ExitTo

LEMMA MarksNow ==
  ASSUME SlotInv, clock.step = "enter"
  PROVE  /\ \A p \in book.positions : Mark(p) = MarkAt(task.quotes, Now.day, p)
         /\ AllMarked <=> MarkedAt(task.quotes, Now)
         /\ Exposure = ExposureAt(task.quotes, Now)
<1>1. TaskTyped /\ BookTyped /\ DatesHold
  BY ActiveSlots
<1>2. ASSUME NEW p \in book.positions PROVE Mark(p) = MarkAt(task.quotes, Now.day, p)
  <2>1. p.entered \in TradingDay /\ p.entered \in Nat /\ p.entered <= clock.day
    <3>1. p \in Holding /\ UpToNow(p.entered)
      BY <1>1 DEF BookTyped, Book, DatesHold, Positions
    <3> QED BY <1>1, <3>1, DaysAre DEF Holding, UpToNow
  <2>2. PreviousSession(clock.day) \in p.entered .. clock.day
    BY <1>1, <2>1, DaysAre, PreviousIs
  <2>3. PreviousSession(clock.day) <= task.end
    BY <1>1, <2>1, <2>2, DaysAre
  <2> QED BY <1>1, <2>3, PastQuotes, NowIs DEF Mark, MarkAt
<1>3. AllMarked <=> MarkedAt(task.quotes, Now)
  BY <1>2, NowIs DEF AllMarked, MarkedAt
<1>4. [p \in book.positions |-> Liquidation(p.shares, Mark(p))]
        = [p \in Now.positions |-> Liquidation(p.shares, MarkAt(task.quotes, Now.day, p))]
  BY <1>2, NowIs
<1> QED BY <1>2, <1>3, <1>4 DEF Exposure, ExposureAt

LEMMA DueNow == Due = DueAt(Now)
BY NowIs DEF Due, DueAt

LEMMA FillLeads ==
  ASSUME SlotInv, NEW o \in book.pending, ExecutePending(o)
  PROVE  FillTo(task.quotes, task.slots, Now, o, Now')
<1>0. clock.step = "enter" /\ o \in Due /\ \A p \in Due \ {o} : ~Before(p, o)
  BY DEF ExecutePending
<1>1. TaskTyped /\ BookTyped /\ DatesHold
  BY <1>0, ActiveSlots
<1>2. EntryPrice(o) = PriceToEnter(task.quotes, o)
  <2>1. o.execution \in Nat /\ o.execution <= clock.day
    BY <1>0, <1>1, DaysAre DEF Due, BookTyped, Book, PendingOrder
  <2>2. o.execution <= task.end
    BY <1>1, <2>1, DaysAre
  <2> QED BY <1>1, <2>2, PastQuotes DEF EntryPrice, PriceToEnter
<1>3. Shares(o) = SharesAt(task.quotes, task.slots, Now, o)
  BY <1>0, <1>2, MarksNow, NowIs DEF Shares, SharesAt
<1>4. Obstacle(o) = "none" <=> Enters(task.quotes, task.slots, Now, o)
  <2>1. Obstacle(o) = "none" <=>
          /\ ~(Cardinality(book.positions) >= task.slots) /\ o.execution = clock.day /\ AllMarked /\ Shares(o) # 0
    BY DEF Obstacle
  <2> QED BY <1>0, <1>3, <2>1, MarksNow, NowIs DEF Enters
<1>5. Entered(o) = PositionAt(task.quotes, task.slots, Now, o)
  BY <1>2, <1>3, NowIs DEF Entered, PositionAt
<1>6. clock' = clock /\ curve' = curve
  BY <1>1, FillMoves
<1>7. book'.pending = book.pending \ {o} /\ book'.closed = book.closed
  BY <1>1, FillMoves
<1>8. /\ Obstacle(o) = "none" => /\ book'.cash = book.cash - Entered(o).cost
                                /\ book'.positions = book.positions \cup {Entered(o)}
      /\ Obstacle(o) # "none" => book'.cash = book.cash /\ book'.positions = book.positions
  BY <1>1, FillMoves
<1>9. Enters(task.quotes, task.slots, Now, o) =>
        /\ Now'.cash = Now.cash - PositionAt(task.quotes, task.slots, Now, o).cost
        /\ Now'.positions = Now.positions \cup {PositionAt(task.quotes, task.slots, Now, o)}
  BY <1>4, <1>5, <1>8, NowIs
<1>10. ~Enters(task.quotes, task.slots, Now, o) => Now'.cash = Now.cash /\ Now'.positions = Now.positions
  BY <1>4, <1>8, NowIs
<1>11. /\ Now.step = "enter" /\ o \in DueAt(Now) /\ \A p \in DueAt(Now) \ {o} : ~Before(p, o)
       /\ Now'.step = "enter" /\ Now'.day = Now.day /\ Now'.pending = Now.pending \ {o}
       /\ Now'.closed = Now.closed /\ Now'.curve = Now.curve
  BY <1>0, <1>6, <1>7, DueNow, NowIs
<1> QED BY <1>9, <1>10, <1>11 DEF FillTo

LEMMA OrdersNow ==
  ASSUME TaskTyped
  PROVE  Orders = OrdersAt(task, Now)
<1>1. Candidates = BestRows(task.signals, Now.day)
  BY NowIs DEF Candidates, BestRows
<1>2. NextSession(clock.day) \in TradingDay /\ NextSession(clock.day) \in Nat
  BY NextIs, DaysAre
<1>3. ASSUME NEW r
      PROVE  Hindrance(r) = "none" <=>
               /\ ~TakenAt(Now, r.ticker) /\ NextSession(Now.day) <= task.end
               /\ PriceOf(task.quotes, r.ticker, NextSession(Now.day)) # 0
  <2>1. TakenAt(Now, r.ticker) <=> Taken(r.ticker)
    BY NowIs DEF TakenAt, Taken
  <2>2. Quote(r.ticker, NextSession(clock.day)) # 0 <=>
          /\ NextSession(Now.day) <= task.end
          /\ PriceOf(task.quotes, r.ticker, NextSession(Now.day)) # 0
    BY NowIs DEF Quote, PriceOf
  <2>3. Hindrance(r) = "none" <=> ~Taken(r.ticker) /\ Quote(r.ticker, NextSession(clock.day)) # 0
    BY <1>2 DEF Hindrance
  <2> QED BY <2>1, <2>2, <2>3
<1>4. \A r : Order(r) = [ticker |-> r.ticker, signalled |-> Now.day, execution |-> NextSession(Now.day), score |-> r.score]
  BY NowIs DEF Order
<1> QED BY <1>1, <1>3, <1>4 DEF Orders, Scheduled, OrdersAt

LEMMA EndLeads ==
  ASSUME SlotInv, EndDay
  PROVE  /\ DueAt(Now) = {} /\ Now.step = "enter" /\ curve' = CurveAfter(task.quotes, Now)
         /\ clock.day # task.end => EndTo(task, Now, Now')
<1>0. clock.step = "enter" /\ Due = {}
  BY DEF EndDay
<1>1. TaskTyped /\ BookTyped
  BY <1>0, ActiveSlots
<1>2. Snapshot = SnapshotAt(task.quotes, Now)
  BY <1>0, MarksNow, NowIs DEF Snapshot, SnapshotAt, Realized, Spent
<1>3. curve' = CurveAfter(task.quotes, Now)
  BY <1>0, <1>2, MarksNow, NowIs DEF EndDay, CurveAfter
<1>4. book'.cash = book.cash /\ book'.positions = book.positions /\ book'.closed = book.closed
      /\ book'.pending = book.pending \cup OrdersAt(task, Now)
  BY <1>1, EndMoves, OrdersNow
<1>5. clock.day # task.end => clock'.step = "exit" /\ clock'.day = clock.day + 1
  BY <1>1, EndMoves
<1>6. DueAt(Now) = {} /\ Now.step = "enter"
  BY <1>0, DueNow, NowIs
<1> QED BY <1>3, <1>4, <1>5, <1>6, NowIs DEF EndTo

-----------------------------------------------------------------------------
(* An evaluation leaves a trail.                                           *)
LEMMA StepsAre ==
  ASSUME SlotInv, clock.step # "idle"
  PROVE  Running \/ clock.step \in {"done", "reported"}
BY ActiveSlots DEF TaskTyped, Running

LEMMA CurveIsPast ==
  SlotInv /\ clock.step # "idle" =>
    /\ curve \in [snapshots : SUBSET SnapshotRow, gaps : SUBSET Nat]
    /\ Running => curve = UpTo(curve, clock.day)
    /\ ~Running => curve = UpTo(curve, clock.day + 1)
<1> SUFFICES ASSUME SlotInv, clock.step # "idle"
             PROVE  /\ curve \in [snapshots : SUBSET SnapshotRow, gaps : SUBSET Nat]
                    /\ Running => curve = UpTo(curve, clock.day)
                    /\ ~Running => curve = UpTo(curve, clock.day + 1)
  OBVIOUS
<1>1. TaskTyped /\ CurveTyped /\ DaysHold
  BY ActiveSlots
<1>2. clock.day \in Nat \ {0}
  BY <1>1, DaysAre
<1>3. curve \in [snapshots : SUBSET SnapshotRow, gaps : SUBSET Nat]
  BY <1>1 DEF CurveTyped
<1>4. {s.day : s \in curve.snapshots} \cup curve.gaps
        = 1 .. (IF clock.step \in {"done", "reported"} THEN clock.day ELSE clock.day - 1)
  BY <1>1 DEF DaysHold, DaysAreAccounted, FirstDay
<1>5. ASSUME Running PROVE curve = UpTo(curve, clock.day)
  <2>1. clock.step \notin {"done", "reported"}
    BY <1>5 DEF Running
  <2>2. {s.day : s \in curve.snapshots} \cup curve.gaps = 1 .. clock.day - 1
    BY <1>4, <2>1
  <2>3. \A s \in curve.snapshots : s.day \in 1 .. clock.day - 1
    BY <2>2
  <2>4. \A g \in curve.gaps : g \in 1 .. clock.day - 1
    BY <2>2
  <2>5. \A d \in 1 .. clock.day - 1 : d < clock.day
    BY <1>2
  <2> QED BY <1>3, <2>3, <2>4, <2>5 DEF UpTo
<1>6. ASSUME ~Running PROVE curve = UpTo(curve, clock.day + 1)
  <2>1. clock.step \in {"done", "reported"}
    BY <1>6, StepsAre
  <2>2. {s.day : s \in curve.snapshots} \cup curve.gaps = 1 .. clock.day
    BY <1>4, <2>1
  <2>3. \A s \in curve.snapshots : s.day \in 1 .. clock.day
    BY <2>2
  <2>4. \A g \in curve.gaps : g \in 1 .. clock.day
    BY <2>2
  <2>5. \A d \in 1 .. clock.day : d < clock.day + 1
    BY <1>2
  <2> QED BY <1>3, <2>3, <2>4, <2>5 DEF UpTo
<1> QED BY <1>3, <1>5, <1>6

LEMMA NowIsInOrder == SlotInv /\ Running => InOrder(Now)
<1> SUFFICES ASSUME SlotInv, Running PROVE InOrder(Now)
  OBVIOUS
<1>0. clock.step \in {"exit", "enter"}
  BY DEF Running
<1>1. TaskTyped /\ BookTyped /\ DatesHold
  BY <1>0, ActiveSlots
<1>2. ASSUME NEW o \in book.pending
      PROVE  /\ o.signalled \in Nat /\ o.execution \in Nat
             /\ o.execution = NextSession(o.signalled) /\ o.signalled < clock.day
  BY <1>0, <1>1, DaysAre DEF BookTyped, Book, PendingOrder, DatesHold
<1> QED BY <1>1, <1>2, DaysAre, NowIs DEF InOrder

LEMMA EndGrows ==
  ASSUME SlotInv, EndDay, NEW d \in Nat, d <= clock.day
  PROVE  UpTo(curve', d) = UpTo(curve, d)
<1>0. clock.step = "enter"
  BY DEF EndDay
<1>1. CurveTyped /\ clock.day \in Nat
  BY <1>0, ActiveSlots, DaysAre
<1>2. CASE AllMarked
  <2>1. curve' = [curve EXCEPT !.snapshots = @ \cup {Snapshot}]
    BY <1>2 DEF EndDay
  <2>2. curve'.snapshots = curve.snapshots \cup {Snapshot} /\ curve'.gaps = curve.gaps
    BY <1>1, <2>1 DEF CurveTyped
  <2>3. ~(Snapshot.day < d)
    BY <1>1 DEF Snapshot
  <2> QED BY <2>2, <2>3 DEF UpTo
<1>3. CASE ~AllMarked
  <2>1. curve' = [curve EXCEPT !.gaps = @ \cup {clock.day}]
    BY <1>3 DEF EndDay
  <2>2. curve'.gaps = curve.gaps \cup {clock.day} /\ curve'.snapshots = curve.snapshots
    BY <1>1, <2>1 DEF CurveTyped
  <2>3. ~(clock.day < d)
    BY <1>1
  <2> QED BY <2>2, <2>3 DEF UpTo
<1> QED BY <1>2, <1>3

LEMMA TrailGrows ==
  ASSUME SlotInv, SlotInv', Running, Running', Tracked, task' = task, Leads(task, Now, Now'),
         clock.day <= clock'.day, \A d \in Nat : d <= clock.day => UpTo(curve', d) = UpTo(curve, d)
  PROVE  Tracked'
<1>0. clock.step # "idle" /\ clock'.step # "idle"
  BY DEF Running
<1>1. TaskTyped /\ TaskTyped'
  BY <1>0, ActiveSlots DEF SlotInv
<1>2. clock.day \in Nat /\ clock'.day \in Nat
  BY <1>1, DaysAre DEF TaskTyped
<1>3. PICK seen : /\ Trail(seen, curve) /\ \A m \in seen : m.day <= clock.day
                  /\ Now \in seen /\ Continues(seen \ {Now}, seen, task)
  BY DEF Tracked
<1> DEFINE more == seen \cup {Now'}
<1>4. curve' = UpTo(curve', clock'.day)
  <2>1. (SlotInv /\ clock.step # "idle" =>
           /\ curve \in [snapshots : SUBSET SnapshotRow, gaps : SUBSET Nat]
           /\ Running => curve = UpTo(curve, clock.day)
           /\ ~Running => curve = UpTo(curve, clock.day + 1))'
    BY CurveIsPast, PTL
  <2> QED BY <1>0, <2>1
<1>5. InOrder(Now')
  <2>1. (SlotInv /\ Running => InOrder(Now))'
    BY NowIsInOrder, PTL
  <2> QED BY <2>1
<1>6. Trail(more, curve')
  <2>1. ASSUME NEW m \in seen PROVE m.curve = UpTo(curve', m.day)
    BY <1>3 DEF Trail, InOrder
  <2> QED BY <1>3, <1>4, <1>5, <2>1, NowIs DEF Trail
<1>7. \A m \in more : m.day <= clock'.day
  <2>1. ASSUME NEW m \in seen PROVE m.day <= clock'.day
    <3>1. m.day \in Nat /\ m.day <= clock.day
      BY <1>3 DEF Trail, InOrder
    <3> QED BY <1>2, <3>1
  <2> QED BY <1>2, <2>1, NowIs
<1>8. Continues(more \ {Now'}, more, task)
  BY <1>3 DEF Continues
<1>9. Now' \in more
  OBVIOUS
<1> HIDE DEF more
<1>10. \E s : /\ Trail(s, curve') /\ \A m \in s : m.day <= clock'.day
              /\ Now' \in s /\ Continues(s \ {Now'}, s, task')
  BY <1>6, <1>7, <1>8, <1>9
<1> QED BY <1>10 DEF Tracked

-----------------------------------------------------------------------------
(* A shorter evaluation follows the trail.                                 *)
LEMMA ShownIs ==
  ASSUME NEW m, Shows(m)
  PROVE  /\ m.day = Now.day /\ m.step = Now.step /\ m.cash = Now.cash /\ m.positions = Now.positions
         /\ m.closed = Now.closed /\ m.curve = Now.curve
         /\ Now.pending = {o \in m.pending : o.execution <= task.end}
BY NowIs DEF Shows

LEMMA ShownAfter ==
  ASSUME NEW w, task' = task,
         w.day = Now'.day, w.step = Now'.step, w.cash = Now'.cash, w.positions = Now'.positions,
         w.closed = Now'.closed, w.curve = Now'.curve,
         Now'.pending = {o \in w.pending : o.execution <= task.end}
  PROVE  Shows(w)'
BY NowIs DEF Shows

LEMMA ExitFollows ==
  ASSUME NEW q, NEW m, NEW w, Shows(m), ExitTo(q, Now, Now'), ExitTo(q, m, w), task' = task
  PROVE  Shows(w)'
<1>1. /\ m.day = Now.day /\ m.cash = Now.cash /\ m.positions = Now.positions
      /\ m.closed = Now.closed /\ m.curve = Now.curve
      /\ Now.pending = {o \in m.pending : o.execution <= task.end}
  BY ShownIs
<1>2. ExpiredAt(q, m) = ExpiredAt(q, Now)
  BY <1>1 DEF ExpiredAt
<1>3. PICK income : /\ income = SumFunction([p \in ExpiredAt(q, m) |-> SoldAt(q, p).proceeds])
                    /\ income = SumFunction([p \in ExpiredAt(q, Now) |-> SoldAt(q, p).proceeds])
  BY <1>2
<1>4. w.cash = m.cash + income /\ Now'.cash = Now.cash + income
  BY <1>3 DEF ExitTo
<1>5. w.closed = Now'.closed /\ w.positions = Now'.positions
  BY <1>1, <1>2 DEF ExitTo
<1>6. w.day = Now'.day /\ w.step = Now'.step /\ w.curve = Now'.curve
      /\ Now'.pending = {o \in w.pending : o.execution <= task.end}
  BY <1>1 DEF ExitTo
<1> QED BY <1>1, <1>4, <1>5, <1>6, ShownAfter

(* Orders for a day that the shorter evaluation reaches are in both.       *)
LEMMA DueFollows ==
  ASSUME TaskTyped, NEW m, InOrder(m), Shows(m)
  PROVE  DueAt(m) = DueAt(Now)
<1>1. m.day = Now.day /\ Now.pending = {o \in m.pending : o.execution <= task.end}
  BY ShownIs
<1>2. m.day \in Nat /\ m.day <= task.end /\ task.end \in Nat
  BY <1>1, DaysAre, NowIs
<1>3. \A o \in m.pending : o.execution \in Nat
  BY DEF InOrder
<1>4. \A o \in m.pending : o.execution <= m.day => o.execution <= task.end
  BY <1>2, <1>3
<1> QED BY <1>1, <1>4 DEF DueAt

LEMMA OneIsFirst ==
  ASSUME SlotInv, Running, \A o \in book.pending : \E r \in task.signals : r.day = o.signalled /\ r.ticker = o.ticker,
         NEW o \in Due, NEW p \in Due, \A a \in Due \ {o} : ~Before(a, o), \A a \in Due \ {p} : ~Before(a, p)
  PROVE  o = p
<1>1. TaskTyped /\ BookTyped /\ TickersHold
  BY ActiveSlots DEF Running
<1>2. o \in book.pending /\ p \in book.pending /\ book.pending \subseteq PendingOrder
  BY <1>1 DEF Due, BookTyped, Book
<1>3. /\ o.score \in Int /\ o.signalled \in Nat /\ o.ticker \in Slotted
      /\ p.score \in Int /\ p.signalled \in Nat /\ p.ticker \in Slotted
  BY <1>2 DEF PendingOrder
<1> SUFFICES ASSUME o # p PROVE FALSE
  OBVIOUS
<1>4. ~Before(o, p) /\ ~Before(p, o)
  OBVIOUS
<1>5. o.score = p.score
  BY <1>3, <1>4 DEF Before
<1>6. o.signalled = p.signalled
  BY <1>3, <1>4, <1>5 DEF Before
<1>7. PICK r \in task.signals : r.day = o.signalled /\ r.ticker = o.ticker
  BY <1>2
<1>8. PICK s \in task.signals : s.day = p.signalled /\ s.ticker = p.ticker
  BY <1>2
<1>9. /\ RowOf(r.day, r.ticker) \in Nat /\ RowOf(s.day, s.ticker) \in Nat
      /\ r.day = s.day /\ RowOf(r.day, r.ticker) = RowOf(s.day, s.ticker) => r.ticker = s.ticker
  <2>1. task.signals \in SignalPlan
    BY <1>1 DEF TaskTyped
  <2>2. \A plan \in SignalPlan : \A a, b \in plan :
          /\ RowOf(a.day, a.ticker) \in Nat
          /\ a.day = b.day /\ RowOf(a.day, a.ticker) = RowOf(b.day, b.ticker) => a.ticker = b.ticker
    BY EqualSlotAssumption DEF EqualSlotAssumption
  <2> QED BY <2>1, <2>2
<1>10. ~(RowOf(o.signalled, o.ticker) < RowOf(p.signalled, p.ticker))
       /\ ~(RowOf(p.signalled, p.ticker) < RowOf(o.signalled, o.ticker))
  BY <1>4, <1>5, <1>6 DEF Before
<1>11. RowOf(r.day, r.ticker) = RowOf(s.day, s.ticker)
  BY <1>7, <1>8, <1>9, <1>10
<1>12. o.ticker = p.ticker
  BY <1>6, <1>7, <1>8, <1>9, <1>11
<1> QED BY <1>1, <1>2, <1>12 DEF TickersHold

LEMMA FillFollows ==
  ASSUME NEW q, NEW slots, NEW o, NEW m, NEW w, Shows(m), FillTo(q, slots, Now, o, Now'), FillTo(q, slots, m, o, w),
         task' = task
  PROVE  Shows(w)'
<1>1. /\ m.day = Now.day /\ m.cash = Now.cash /\ m.positions = Now.positions
      /\ m.closed = Now.closed /\ m.curve = Now.curve
      /\ Now.pending = {a \in m.pending : a.execution <= task.end}
  BY ShownIs
<1>2. (MarkedAt(q, m) <=> MarkedAt(q, Now)) /\ ExposureAt(q, m) = ExposureAt(q, Now)
  BY <1>1 DEF MarkedAt, ExposureAt
<1>3. SharesAt(q, slots, m, o) = SharesAt(q, slots, Now, o)
  BY <1>1, <1>2 DEF SharesAt
<1>4. (Enters(q, slots, m, o) <=> Enters(q, slots, Now, o))
      /\ PositionAt(q, slots, m, o) = PositionAt(q, slots, Now, o)
  BY <1>1, <1>2, <1>3 DEF Enters, PositionAt
<1>5. w.cash = Now'.cash /\ w.positions = Now'.positions
  <2>1. CASE Enters(q, slots, m, o)
    BY <1>1, <1>4, <2>1 DEF FillTo
  <2>2. CASE ~Enters(q, slots, m, o)
    BY <1>1, <1>4, <2>2 DEF FillTo
  <2> QED BY <2>1, <2>2
<1>6. /\ w.day = Now'.day /\ w.step = Now'.step /\ w.closed = Now'.closed /\ w.curve = Now'.curve
      /\ w.pending = m.pending \ {o} /\ Now'.pending = Now.pending \ {o}
  BY <1>1 DEF FillTo
<1>7. Now'.pending = {a \in w.pending : a.execution <= task.end}
  BY <1>1, <1>6
<1> QED BY <1>5, <1>6, <1>7, ShownAfter

(* At the end of a day the longer evaluation may schedule more: orders for *)
(* a session behind the end of the shorter one.                            *)
LEMMA OrdersFollow ==
  ASSUME TaskTyped, NEW run, Extends(run), NEW m, InOrder(m), Shows(m)
  PROVE  OrdersAt(task, Now) = {o \in OrdersAt(run, m) : o.execution <= task.end}
<1>1. m.day = Now.day /\ m.positions = Now.positions /\ Now.pending = {o \in m.pending : o.execution <= task.end}
  BY ShownIs
<1>2. /\ m.day \in Nat /\ m.day <= task.end /\ task.end \in Nat /\ run.end \in Nat /\ run.end > task.end
      /\ run.quotes = task.quotes /\ run.signals = task.signals
  BY <1>1, DaysAre, NowIs DEF Extends
<1>3. NextSession(m.day) \in Nat /\ \A s \in TradingDay : s > m.day => NextSession(m.day) <= s
  BY <1>2, NextIs
<1>4. ASSUME NEW t, NextSession(m.day) <= task.end PROVE TakenAt(m, t) <=> TakenAt(Now, t)
  <2>1. ASSUME NEW o \in m.pending PROVE o.execution <= task.end
    <3>1. o.signalled \in Nat /\ o.execution = NextSession(o.signalled) /\ o.signalled < m.day
      BY DEF InOrder
    <3>2. o.signalled \in 0 .. task.end
      BY <1>2, <3>1
    <3>3. NextSession(m.day) \in TradingDay /\ NextSession(m.day) > m.day
      BY <1>2, NextIs
    <3>4. NextSession(m.day) > o.signalled
      BY <1>2, <1>3, <3>1, <3>3
    <3>5. NextSession(o.signalled) <= NextSession(m.day) /\ NextSession(o.signalled) \in Nat
      BY <3>2, <3>3, <3>4, NextIs
    <3> QED BY <1>2, <1>3, <1>4, <3>1, <3>5
  <2>2. Now.pending = m.pending
    BY <1>1, <2>1
  <2> QED BY <1>1, <2>2 DEF TakenAt
<1>5. CASE NextSession(m.day) <= task.end
  <2>1. NextSession(m.day) <= run.end
    BY <1>2, <1>3, <1>5
  <2>2. OrdersAt(task, Now) = OrdersAt(run, m)
    BY <1>1, <1>2, <1>4, <1>5, <2>1 DEF OrdersAt
  <2>3. \A o \in OrdersAt(run, m) : o.execution <= task.end
    BY <1>5 DEF OrdersAt
  <2> QED BY <2>2, <2>3
<1>6. CASE ~(NextSession(m.day) <= task.end)
  <2>1. OrdersAt(task, Now) = {}
    BY <1>1, <1>6 DEF OrdersAt
  <2>2. \A o \in OrdersAt(run, m) : ~(o.execution <= task.end)
    BY <1>6 DEF OrdersAt
  <2> QED BY <2>1, <2>2
<1> QED BY <1>5, <1>6

LEMMA CurveFollows ==
  ASSUME NEW q, NEW m, Shows(m)
  PROVE  CurveAfter(q, m) = CurveAfter(q, Now)
<1>1. /\ m.day = Now.day /\ m.cash = Now.cash /\ m.positions = Now.positions
      /\ m.closed = Now.closed /\ m.curve = Now.curve
  BY ShownIs
<1>2. (MarkedAt(q, m) <=> MarkedAt(q, Now)) /\ ExposureAt(q, m) = ExposureAt(q, Now)
  BY <1>1 DEF MarkedAt, ExposureAt
<1>3. SnapshotAt(q, m) = SnapshotAt(q, Now)
  BY <1>1, <1>2 DEF SnapshotAt
<1> QED BY <1>1, <1>2, <1>3 DEF CurveAfter

LEMMA EndFollows ==
  ASSUME TaskTyped, NEW run, Extends(run), NEW m, InOrder(m), Shows(m), NEW w,
         EndTo(task, Now, Now'), EndTo(run, m, w), task' = task
  PROVE  Shows(w)'
<1>1. /\ m.day = Now.day /\ m.cash = Now.cash /\ m.positions = Now.positions /\ m.closed = Now.closed
      /\ Now.pending = {a \in m.pending : a.execution <= task.end}
  BY ShownIs
<1>2. OrdersAt(task, Now) = {o \in OrdersAt(run, m) : o.execution <= task.end}
  BY OrdersFollow
<1>3. run.quotes = task.quotes
  BY DEF Extends
<1>4. w.curve = Now'.curve
  BY <1>3, CurveFollows DEF EndTo
<1>5. /\ w.day = Now'.day /\ w.step = Now'.step /\ w.cash = Now'.cash /\ w.positions = Now'.positions
      /\ w.closed = Now'.closed
      /\ w.pending = m.pending \cup OrdersAt(run, m) /\ Now'.pending = Now.pending \cup OrdersAt(task, Now)
  BY <1>1 DEF EndTo
<1>6. Now'.pending = {a \in w.pending : a.execution <= task.end}
  BY <1>1, <1>2, <1>5
<1> QED BY <1>4, <1>5, <1>6, ShownAfter

-----------------------------------------------------------------------------
(* Every step.                                                             *)
RowsOrdered == \A o \in book.pending : \E r \in task.signals : r.day = o.signalled /\ r.ticker = o.ticker

LEMMA PrefixParts ==
  ASSUME PrefixInv, clock.step # "idle"
  PROVE  /\ longer # Unset => longer \in [snapshots : SUBSET SnapshotRow, gaps : SUBSET Nat]
         /\ RowsOrdered /\ (longer = Unset => Tracked) /\ (longer # Unset => Followed)
BY DEF PrefixInv, RowsOrdered

LEMMA PrefixWhole ==
  ASSUME clock'.step # "idle", longer' # Unset => longer' \in [snapshots : SUBSET SnapshotRow, gaps : SUBSET Nat],
         RowsOrdered', longer' = Unset => Tracked', longer' # Unset => Followed'
  PROVE  PrefixInv'
BY DEF PrefixInv, RowsOrdered

(* A step within the window of both evaluations.                           *)
LEMMA StepFollows ==
  ASSUME Followed, Running, Running', task' = task, longer' = longer,
         NEW seen, NEW run, Extends(run), Trail(seen, longer), Continues(seen, seen, run),
         NEW m \in seen, Shows(m), NEW w \in seen, Shows(w)'
  PROVE  Followed'
<1>1. Extends(run)'
  BY DEF Extends
<1>2. Trail(seen, longer') /\ Continues(seen, seen, run)
  OBVIOUS
<1>3. \E s, r : /\ Extends(r)' /\ Trail(s, longer') /\ Continues(s, s, r)
               /\ (Running' => \E n \in s : Shows(n)')
               /\ (~Running' => curve' = UpTo(longer', clock'.day + 1))
  BY <1>1, <1>2
<1> QED BY <1>3 DEF Followed

LEMMA ExitKeepsPrefix ==
  ASSUME SlotInv, SlotInv', PrefixInv, ExitExpired
  PROVE  PrefixInv'
<1>0. clock.step = "exit" /\ Running
  BY DEF ExitExpired, Running
<1>1. TaskTyped /\ BookTyped
  BY <1>0, ActiveSlots
<1>2. /\ clock'.step = "enter" /\ clock'.day = clock.day /\ task' = task /\ curve' = curve
      /\ book'.pending = book.pending /\ longer' = longer
  BY <1>1, ExitMoves DEF ExitExpired
<1>3. Running'
  BY <1>2 DEF Running
<1>4. /\ longer # Unset => longer \in [snapshots : SUBSET SnapshotRow, gaps : SUBSET Nat]
      /\ RowsOrdered /\ (longer = Unset => Tracked) /\ (longer # Unset => Followed)
  BY <1>0, PrefixParts
<1>5. ExitTo(task.quotes, Now, Now')
  BY ExitLeads
<1>6. ASSUME longer = Unset PROVE Tracked'
  <2>1. Leads(task, Now, Now')
    BY <1>5 DEF Leads
  <2>2. clock.day <= clock'.day
    BY <1>1, <1>2, DaysAre
  <2> QED BY <1>0, <1>2, <1>3, <1>4, <1>6, <2>1, <2>2, TrailGrows
<1>7. ASSUME longer # Unset PROVE Followed'
  <2>1. PICK seen, run : /\ Extends(run) /\ Trail(seen, longer) /\ Continues(seen, seen, run)
                         /\ \E m \in seen : Shows(m)
    BY <1>0, <1>4, <1>7 DEF Followed
  <2>2. PICK m \in seen : Shows(m)
    BY <2>1
  <2>3. m.step = "exit"
    BY <1>0, <2>2 DEF Shows
  <2>4. PICK w \in seen : Leads(run, m, w)
    BY <2>1, <2>3 DEF Continues, IsLast
  <2>5. ExitTo(task.quotes, m, w)
    BY <2>1, <2>3, <2>4 DEF Leads, FillTo, EndTo, Extends
  <2>6. Shows(w)'
    BY <1>2, <1>5, <2>2, <2>5, ExitFollows
  <2> QED BY <1>0, <1>2, <1>3, <1>4, <1>7, <2>1, <2>2, <2>6, StepFollows
<1>8. RowsOrdered'
  BY <1>2, <1>4 DEF RowsOrdered
<1> QED BY <1>2, <1>4, <1>6, <1>7, <1>8, PrefixWhole

LEMMA FillKeepsPrefix ==
  ASSUME SlotInv, SlotInv', PrefixInv, NEW o \in book.pending, ExecutePending(o)
  PROVE  PrefixInv'
<1>0. clock.step = "enter" /\ Running /\ o \in Due /\ \A a \in Due \ {o} : ~Before(a, o)
  BY DEF ExecutePending, Running
<1>1. TaskTyped /\ BookTyped
  BY <1>0, ActiveSlots
<1>2. clock' = clock /\ task' = task /\ curve' = curve /\ book'.pending = book.pending \ {o} /\ longer' = longer
  BY <1>1, FillMoves DEF ExecutePending
<1>3. Running'
  BY <1>0, <1>2 DEF Running
<1>4. /\ longer # Unset => longer \in [snapshots : SUBSET SnapshotRow, gaps : SUBSET Nat]
      /\ RowsOrdered /\ (longer = Unset => Tracked) /\ (longer # Unset => Followed)
  BY <1>0, PrefixParts
<1>5. FillTo(task.quotes, task.slots, Now, o, Now')
  BY FillLeads
<1>6. ASSUME longer = Unset PROVE Tracked'
  <2>1. Leads(task, Now, Now')
    BY <1>5 DEF Leads
  <2>2. clock.day <= clock'.day
    BY <1>1, <1>2, DaysAre
  <2> QED BY <1>0, <1>2, <1>3, <1>4, <1>6, <2>1, <2>2, TrailGrows
<1>7. ASSUME longer # Unset PROVE Followed'
  <2>1. PICK seen, run : /\ Extends(run) /\ Trail(seen, longer) /\ Continues(seen, seen, run)
                         /\ \E m \in seen : Shows(m)
    BY <1>0, <1>4, <1>7 DEF Followed
  <2>2. PICK m \in seen : Shows(m)
    BY <2>1
  <2>3. m.step = "enter" /\ InOrder(m)
    BY <1>0, <2>1, <2>2 DEF Shows, Trail
  <2>4. DueAt(m) = Due
    BY <1>1, <2>2, <2>3, DueFollows, DueNow
  <2>5. PICK w \in seen : Leads(run, m, w)
    BY <1>0, <2>1, <2>4 DEF Continues, IsLast
  <2>6. PICK p : FillTo(run.quotes, run.slots, m, p, w)
    BY <1>0, <2>3, <2>4, <2>5 DEF Leads, ExitTo, EndTo
  <2>7. p \in Due /\ \A a \in Due \ {p} : ~Before(a, p)
    BY <2>4, <2>6 DEF FillTo
  <2>8. p = o
    BY <1>0, <1>4, <2>7, OneIsFirst DEF RowsOrdered
  <2>9. FillTo(task.quotes, task.slots, m, o, w)
    BY <2>1, <2>6, <2>8 DEF Extends
  <2>10. Shows(w)'
    BY <1>2, <1>5, <2>2, <2>9, FillFollows
  <2> QED BY <1>0, <1>2, <1>3, <1>4, <1>7, <2>1, <2>2, <2>10, StepFollows
<1>8. RowsOrdered'
  BY <1>2, <1>4 DEF RowsOrdered
<1>9. clock'.step # "idle"
  BY <1>0, <1>2
<1> QED BY <1>2, <1>4, <1>6, <1>7, <1>8, <1>9, PrefixWhole

LEMMA OrdersHaveRows ==
  ASSUME TaskTyped
  PROVE  \A o \in OrdersAt(task, Now) : \E r \in task.signals : r.day = o.signalled /\ r.ticker = o.ticker
BY NowIs DEF OrdersAt, BestRows

LEMMA EndKeepsPrefix ==
  ASSUME SlotInv, SlotInv', PrefixInv, EndDay
  PROVE  PrefixInv'
<1>0. clock.step = "enter" /\ Running
  BY DEF EndDay, Running
<1>1. TaskTyped /\ BookTyped
  BY <1>0, ActiveSlots
<1>2. task' = task /\ longer' = longer /\ book'.pending = book.pending \cup OrdersAt(task, Now)
  BY <1>1, EndMoves, OrdersNow DEF EndDay
<1>3. /\ longer # Unset => longer \in [snapshots : SUBSET SnapshotRow, gaps : SUBSET Nat]
      /\ RowsOrdered /\ (longer = Unset => Tracked) /\ (longer # Unset => Followed)
  BY <1>0, PrefixParts
<1>4. /\ DueAt(Now) = {} /\ Now.step = "enter" /\ curve' = CurveAfter(task.quotes, Now)
      /\ clock.day # task.end => EndTo(task, Now, Now')
  BY EndLeads
<1>5. RowsOrdered'
  BY <1>1, <1>2, <1>3, OrdersHaveRows DEF RowsOrdered
<1>6. \A d \in Nat : d <= clock.day => UpTo(curve', d) = UpTo(curve, d)
  BY EndGrows
<1>7. /\ clock.day \in Nat /\ clock.day <= task.end /\ task.end \in Nat
  BY <1>1, DaysAre
<1>8. CASE clock.day # task.end
  <2>1. clock'.step = "exit" /\ clock'.day = clock.day + 1 /\ Running'
    BY <1>1, <1>8, EndMoves DEF Running
  <2>2. ASSUME longer = Unset PROVE Tracked'
    <3>1. Leads(task, Now, Now')
      BY <1>4, <1>8 DEF Leads
    <3>2. clock.day <= clock'.day
      BY <1>7, <2>1
    <3> QED BY <1>0, <1>2, <1>3, <1>6, <2>1, <2>2, <3>1, <3>2, TrailGrows
  <2>3. ASSUME longer # Unset PROVE Followed'
    <3>1. PICK seen, run : /\ Extends(run) /\ Trail(seen, longer) /\ Continues(seen, seen, run)
                           /\ \E m \in seen : Shows(m)
      BY <1>0, <1>3, <2>3 DEF Followed
    <3>2. PICK m \in seen : Shows(m)
      BY <3>1
    <3>3. m.step = "enter" /\ m.day = clock.day /\ InOrder(m)
      BY <1>0, <3>1, <3>2 DEF Shows, Trail
    <3>4. DueAt(m) = {}
      BY <1>1, <1>4, <3>2, <3>3, DueFollows
    <3>5. m.day # run.end
      BY <1>7, <3>1, <3>3 DEF Extends
    <3>6. PICK w \in seen : Leads(run, m, w)
      BY <3>1, <3>5 DEF Continues, IsLast
    <3>7. EndTo(run, m, w)
      BY <3>3, <3>4, <3>6 DEF Leads, ExitTo, FillTo
    <3>8. Shows(w)'
      BY <1>1, <1>2, <1>4, <1>8, <3>1, <3>2, <3>3, <3>7, EndFollows
    <3> QED BY <1>0, <1>2, <1>3, <2>1, <2>3, <3>1, <3>2, <3>8, StepFollows
  <2>4. clock'.step # "idle"
    BY <2>1
  <2> QED BY <1>2, <1>3, <1>5, <2>2, <2>3, <2>4, PrefixWhole
<1>9. CASE clock.day = task.end
  <2>1. clock'.step = "done" /\ clock'.day = clock.day /\ ~Running'
    BY <1>1, <1>9, EndMoves DEF Running
  <2>2. ASSUME longer = Unset PROVE Tracked'
    <3>1. PICK seen : /\ Trail(seen, curve) /\ \A m \in seen : m.day <= clock.day
                      /\ Now \in seen /\ Continues(seen \ {Now}, seen, task)
      BY <1>0, <1>3, <2>2 DEF Tracked
    <3>2. Trail(seen, curve')
      BY <1>6, <3>1 DEF Trail, InOrder
    <3>3. IsLast(task, Now)
      BY <1>4, <1>9, NowIs DEF IsLast
    <3>4. Continues(seen, seen, task)
      BY <3>1, <3>3 DEF Continues
    <3>5. \E s : /\ Trail(s, curve') /\ \A m \in s : m.day <= clock'.day
                /\ (Running' => Now' \in s /\ Continues(s \ {Now'}, s, task'))
                /\ (~Running' => Continues(s, s, task'))
      BY <1>2, <2>1, <3>1, <3>2, <3>4
    <3> QED BY <3>5 DEF Tracked
  <2>3. ASSUME longer # Unset PROVE Followed'
    <3>1. PICK seen, run : /\ Extends(run) /\ Trail(seen, longer) /\ Continues(seen, seen, run)
                           /\ \E m \in seen : Shows(m)
      BY <1>0, <1>3, <2>3 DEF Followed
    <3>2. PICK m \in seen : Shows(m)
      BY <3>1
    <3>3. m.step = "enter" /\ m.day = clock.day /\ InOrder(m)
      BY <1>0, <3>1, <3>2 DEF Shows, Trail
    <3>4. DueAt(m) = {}
      BY <1>1, <1>4, <3>2, <3>3, DueFollows
    <3>5. m.day # run.end
      BY <1>7, <3>1, <3>3, <1>9 DEF Extends
    <3>6. PICK w \in seen : Leads(run, m, w)
      BY <3>1, <3>5 DEF Continues, IsLast
    <3>7. EndTo(run, m, w)
      BY <3>3, <3>4, <3>6 DEF Leads, ExitTo, FillTo
    <3>8. w.curve = curve' /\ w.day = clock.day + 1
      <4>1. w.curve = CurveAfter(task.quotes, m) /\ w.day = m.day + 1
        BY <3>1, <3>7 DEF EndTo, Extends
      <4> QED BY <1>4, <3>2, <3>3, <4>1, CurveFollows
    <3>9. curve' = UpTo(longer', clock'.day + 1)
      BY <1>2, <2>1, <3>1, <3>6, <3>8 DEF Trail
    <3>10. Extends(run)'
      BY <1>2, <3>1 DEF Extends
    <3>11. \E s, r : /\ Extends(r)' /\ Trail(s, longer') /\ Continues(s, s, r)
                    /\ (Running' => \E n \in s : Shows(n)')
                    /\ (~Running' => curve' = UpTo(longer', clock'.day + 1))
      BY <1>2, <2>1, <3>1, <3>9, <3>10
    <3> QED BY <3>11 DEF Followed
  <2>4. clock'.step # "idle"
    BY <2>1
  <2> QED BY <1>2, <1>3, <1>5, <2>2, <2>3, <2>4, PrefixWhole
<1> QED BY <1>8, <1>9

LEMMA MetricsKeepPrefix ==
  ASSUME SlotInv, PrefixInv, ComputeMetrics
  PROVE  PrefixInv'
<1>0. clock.step = "done" /\ ~Running
  BY DEF ComputeMetrics, Running
<1>1. TaskTyped
  BY <1>0, ActiveSlots
<1>2. task' = task /\ book' = book /\ curve' = curve /\ longer' = longer
      /\ clock'.step = "reported" /\ clock'.day = clock.day /\ ~Running'
  BY <1>1 DEF ComputeMetrics, TaskTyped, Running
<1>3. /\ longer # Unset => longer \in [snapshots : SUBSET SnapshotRow, gaps : SUBSET Nat]
      /\ RowsOrdered /\ (longer = Unset => Tracked) /\ (longer # Unset => Followed)
  BY <1>0, PrefixParts
<1>4. ASSUME longer = Unset PROVE Tracked'
  <2>1. PICK seen : /\ Trail(seen, curve) /\ \A m \in seen : m.day <= clock.day
                    /\ Continues(seen, seen, task)
    BY <1>0, <1>3, <1>4 DEF Tracked
  <2>2. \E s : /\ Trail(s, curve') /\ \A m \in s : m.day <= clock'.day
              /\ (Running' => Now' \in s /\ Continues(s \ {Now'}, s, task'))
              /\ (~Running' => Continues(s, s, task'))
    BY <1>2, <2>1
  <2> QED BY <2>2 DEF Tracked
<1>5. ASSUME longer # Unset PROVE Followed'
  <2>1. PICK seen, run : /\ Extends(run) /\ Trail(seen, longer) /\ Continues(seen, seen, run)
                         /\ curve = UpTo(longer, clock.day + 1)
    BY <1>0, <1>3, <1>5 DEF Followed
  <2>2. Extends(run)'
    BY <1>2, <2>1 DEF Extends
  <2>3. \E s, r : /\ Extends(r)' /\ Trail(s, longer') /\ Continues(s, s, r)
                 /\ (Running' => \E n \in s : Shows(n)')
                 /\ (~Running' => curve' = UpTo(longer', clock'.day + 1))
    BY <1>2, <2>1, <2>2
  <2> QED BY <2>3 DEF Followed
<1>6. RowsOrdered'
  BY <1>2, <1>3 DEF RowsOrdered
<1>7. clock'.step # "idle"
  BY <1>2
<1> QED BY <1>2, <1>3, <1>4, <1>5, <1>6, <1>7, PrefixWhole

LEMMA StartIsThere ==
  ASSUME NEW quotes, NEW signals, NEW slots, NEW end, Start(quotes, signals, slots, end)
  PROVE  /\ Running' /\ clock'.step # "idle" /\ clock'.day = 1 /\ RowsOrdered'
         /\ Now' = Moment(FirstDay, "exit", EmptyBook, EmptyCurve) /\ curve' = EmptyCurve /\ book' = EmptyBook
         /\ task'.quotes = quotes /\ task'.signals = signals /\ task'.slots = slots /\ task'.end = end
<1>1. /\ clock' = [day |-> FirstDay, step |-> "exit"] /\ book' = EmptyBook /\ curve' = EmptyCurve
      /\ task' = [status |-> "set", quotes |-> quotes, signals |-> signals, slots |-> slots, end |-> end]
  BY DEF Start
<1>2. clock'.step = "exit" /\ clock'.day = FirstDay
  BY <1>1
<1>3. Now' = Moment(FirstDay, "exit", EmptyBook, EmptyCurve)
  BY <1>1, <1>2 DEF Now
<1>4. book'.pending = {}
  BY <1>1 DEF EmptyBook
<1> QED BY <1>1, <1>2, <1>3, <1>4 DEF Running, FirstDay, RowsOrdered

LEMMA EvaluateTracks ==
  ASSUME PrefixInv, Evaluate
  PROVE  PrefixInv'
<1>1. longer = Unset /\ longer' = longer
  BY DEF PrefixInv, Evaluate
<1>2. PICK quotes, signals, slots, end : Start(quotes, signals, slots, end)
  BY DEF Evaluate
<1>3. /\ Running' /\ clock'.step # "idle" /\ clock'.day = 1 /\ RowsOrdered'
      /\ Now' = Moment(FirstDay, "exit", EmptyBook, EmptyCurve) /\ curve' = EmptyCurve
  BY <1>2, StartIsThere
<1> DEFINE first == Moment(FirstDay, "exit", EmptyBook, EmptyCurve)
<1>4. first.day = 1 /\ first.pending = {} /\ first.curve = EmptyCurve
  BY MomentIs DEF FirstDay, EmptyBook
<1>5. InOrder(first)
  BY <1>4 DEF InOrder
<1>6. EmptyCurve = UpTo(EmptyCurve, 1)
  BY DEF EmptyCurve, UpTo
<1>7. Now' = first
  BY <1>3
<1>8. Trail({first}, curve')
  BY <1>3, <1>4, <1>5, <1>6 DEF Trail
<1> HIDE DEF first
<1>9. \A m \in {first} : m.day <= clock'.day
  BY <1>3, <1>4
<1>10. Continues({first} \ {Now'}, {first}, task')
  BY <1>7 DEF Continues
<1>11. \E s : /\ Trail(s, curve') /\ \A m \in s : m.day <= clock'.day
             /\ (Running' => Now' \in s /\ Continues(s \ {Now'}, s, task'))
             /\ (~Running' => Continues(s, s, task'))
  BY <1>3, <1>7, <1>8, <1>9, <1>10
<1>12. Tracked'
  BY <1>11 DEF Tracked
<1> QED BY <1>1, <1>3, <1>12, PrefixWhole

LEMMA ShorterFollows ==
  ASSUME SlotInv, PrefixInv, EvaluateShorter
  PROVE  PrefixInv'
<1>0. clock.step = "reported" /\ ~Running /\ longer = Unset /\ longer' = curve
  BY DEF EvaluateShorter, Running
<1>1. TaskTyped
  BY <1>0, ActiveSlots
<1>2. PICK end \in WindowEnd : end < task.end /\ Start(task.quotes, task.signals, task.slots, end)
  BY DEF EvaluateShorter
<1>3. /\ Running' /\ clock'.step # "idle" /\ clock'.day = 1 /\ RowsOrdered'
      /\ Now' = Moment(FirstDay, "exit", EmptyBook, EmptyCurve) /\ curve' = EmptyCurve /\ book' = EmptyBook
      /\ task'.quotes = task.quotes /\ task'.signals = task.signals /\ task'.slots = task.slots /\ task'.end = end
  BY <1>2, StartIsThere
<1>4. curve \in [snapshots : SUBSET SnapshotRow, gaps : SUBSET Nat]
  BY <1>0, CurveIsPast
<1>5. longer' # Unset
  <2>1. DOMAIN curve = {"snapshots", "gaps"}
    BY <1>4
  <2>2. DOMAIN Unset = {"status"}
    BY DEF Unset
  <2> QED BY <1>0, <2>1, <2>2
<1>6. PICK seen : Trail(seen, curve) /\ Continues(seen, seen, task)
  BY <1>0, PrefixParts DEF Tracked
<1>7. PICK run : run = task
  OBVIOUS
<1>8. Extends(run)'
  <2>1. run.end \in Nat /\ run.end > end
    BY <1>1, <1>2, <1>7, DaysAre, EqualSlotAssumption DEF EqualSlotAssumption
  <2> QED BY <1>3, <1>7, <2>1 DEF Extends
<1> DEFINE first == Moment(FirstDay, "exit", EmptyBook, EmptyCurve)
<1>9. first \in seen
  BY <1>6 DEF Trail
<1>10. /\ first.day = Now'.day /\ first.step = Now'.step /\ first.cash = Now'.cash
       /\ first.positions = Now'.positions /\ first.closed = Now'.closed /\ first.curve = Now'.curve
  BY <1>3
<1>11. first.pending = {} /\ book'.pending = {}
  BY <1>3, MomentIs DEF EmptyBook
<1> HIDE DEF first
<1>12. Shows(first)'
  BY <1>10, <1>11, NowIs DEF Shows
<1>13. \E s, r : /\ Extends(r)' /\ Trail(s, longer') /\ Continues(s, s, r)
                /\ (Running' => \E n \in s : Shows(n)')
                /\ (~Running' => curve' = UpTo(longer', clock'.day + 1))
  BY <1>0, <1>3, <1>6, <1>7, <1>8, <1>9, <1>12
<1>14. Followed'
  BY <1>13 DEF Followed
<1>15. longer' \in [snapshots : SUBSET SnapshotRow, gaps : SUBSET Nat]
  BY <1>0, <1>4
<1> QED BY <1>3, <1>5, <1>14, <1>15, PrefixWhole

LEMMA PrefixStays ==
  ASSUME PrefixInv, UNCHANGED slotVars
  PROVE  PrefixInv'
<1>1. task' = task /\ clock' = clock /\ book' = book /\ curve' = curve /\ longer' = longer
  BY DEF slotVars
<1>2. CASE clock.step = "idle"
  BY <1>1, <1>2 DEF PrefixInv
<1>3. CASE clock.step # "idle"
  <2>1. /\ longer # Unset => longer \in [snapshots : SUBSET SnapshotRow, gaps : SUBSET Nat]
        /\ RowsOrdered /\ (longer = Unset => Tracked) /\ (longer # Unset => Followed)
    BY <1>3, PrefixParts
  <2>2. (Running' <=> Running) /\ Now' = Now
    BY <1>1 DEF Running, Now
  <2>3. RowsOrdered'
    BY <1>1, <2>1 DEF RowsOrdered
  <2>4. Tracked => Tracked'
    <3> SUFFICES ASSUME Tracked PROVE Tracked'
      OBVIOUS
    <3>1. PICK seen : /\ Trail(seen, curve) /\ \A m \in seen : m.day <= clock.day
                      /\ (Running => Now \in seen /\ Continues(seen \ {Now}, seen, task))
                      /\ (~Running => Continues(seen, seen, task))
      BY DEF Tracked
    <3>2. \E s : /\ Trail(s, curve') /\ \A m \in s : m.day <= clock'.day
                /\ (Running' => Now' \in s /\ Continues(s \ {Now'}, s, task'))
                /\ (~Running' => Continues(s, s, task'))
      BY <1>1, <2>2, <3>1
    <3> QED BY <3>2 DEF Tracked
  <2>5. Followed => Followed'
    <3> SUFFICES ASSUME Followed PROVE Followed'
      OBVIOUS
    <3>1. PICK seen, run : /\ Extends(run) /\ Trail(seen, longer) /\ Continues(seen, seen, run)
                           /\ (Running => \E m \in seen : Shows(m))
                           /\ (~Running => curve = UpTo(longer, clock.day + 1))
      BY DEF Followed
    <3>2. Extends(run)' /\ \A m : Shows(m) => Shows(m)'
      BY <1>1, <3>1 DEF Extends, Shows
    <3>3. \E s, r : /\ Extends(r)' /\ Trail(s, longer') /\ Continues(s, s, r)
                   /\ (Running' => \E n \in s : Shows(n)')
                   /\ (~Running' => curve' = UpTo(longer', clock'.day + 1))
      BY <1>1, <2>2, <3>1, <3>2
    <3> QED BY <3>3 DEF Followed
  <2> QED BY <1>1, <1>3, <2>1, <2>3, <2>4, <2>5, PrefixWhole
<1> QED BY <1>2, <1>3

LEMMA PrefixSteps == SlotInv /\ PrefixInv /\ [SlotNext]_slotVars => PrefixInv'
<1> SUFFICES ASSUME SlotInv, PrefixInv, [SlotNext]_slotVars PROVE PrefixInv'
  OBVIOUS
<1>1. SlotInv'
  BY SlotSteps
<1>2. CASE Evaluate
  BY <1>2, EvaluateTracks
<1>3. CASE ExitExpired
  BY <1>1, <1>3, ExitKeepsPrefix
<1>4. CASE \E o \in book.pending : ExecutePending(o)
  BY <1>1, <1>4, FillKeepsPrefix
<1>5. CASE EndDay
  BY <1>1, <1>5, EndKeepsPrefix
<1>6. CASE ComputeMetrics
  BY <1>6, MetricsKeepPrefix
<1>7. CASE EvaluateShorter
  BY <1>7, ShorterFollows
<1>8. CASE Leave
  BY <1>8 DEF Leave, PrefixInv
<1>9. CASE UNCHANGED slotVars
  BY <1>9, PrefixStays
<1> QED BY <1>2, <1>3, <1>4, <1>5, <1>6, <1>7, <1>8, <1>9 DEF SlotNext

LEMMA InvLooksBack == SlotInv /\ PrefixInv => ShorterIsAPrefix
<1> SUFFICES ASSUME SlotInv, PrefixInv, longer # Unset
             PROVE  /\ curve.snapshots = {s \in longer.snapshots : s.day < clock.day \/ s \in curve.snapshots}
                    /\ curve.gaps = {d \in longer.gaps : d < clock.day \/ d \in curve.gaps}
  BY DEF ShorterIsAPrefix
<1>1. clock.step # "idle"
  BY DEF PrefixInv
<1>2. Followed /\ longer \in [snapshots : SUBSET SnapshotRow, gaps : SUBSET Nat]
  BY <1>1, PrefixParts
<1>3. clock.day \in Nat
  BY <1>1, ActiveSlots, DaysAre
<1>4. (\A s \in longer.snapshots : s.day \in Nat) /\ \A g \in longer.gaps : g \in Nat
  BY <1>2 DEF SnapshotRow
<1>5. CASE Running
  <2>1. curve = UpTo(longer, clock.day)
    BY <1>2, <1>5 DEF Followed, Trail, Shows
  <2> QED BY <2>1 DEF UpTo
<1>6. CASE ~Running
  <2>1. curve = UpTo(longer, clock.day + 1)
    BY <1>2, <1>6 DEF Followed
  <2>2. \A d \in Nat : d < clock.day => d < clock.day + 1
    BY <1>3
  <2> QED BY <1>4, <2>1, <2>2 DEF UpTo
<1> QED BY <1>5, <1>6

(* The equal-slot evaluation is sound (portfolio/equal_slot.py): it keeps  *)
(* its books, and no day of its curve rests on a quote of a later one: the *)
(* same command with an earlier --end shows the same days, whatever the    *)
(* quotes, the signals and the ends are.                                   *)
THEOREM EqualSlotHolds == SlotSpec => []EqualSlotIsSound
<1>1. SlotInit => SlotInv /\ PrefixInv
  BY DEF SlotInit, SlotInv, PrefixInv
<1>2. SlotInv /\ PrefixInv /\ [SlotNext]_slotVars => SlotInv' /\ PrefixInv'
  BY SlotSteps, PrefixSteps
<1>3. SlotInv /\ PrefixInv => EqualSlotIsSound
  BY InvKeepsBooks, InvLooksBack DEF EqualSlotIsSound
<1> QED BY <1>1, <1>2, <1>3, PTL DEF SlotSpec

-----------------------------------------------------------------------------
(* Sums that are compared, for the caps.                                   *)

LEMMA SumGrows ==
  ASSUME NEW D, IsFiniteSet(D), NEW f \in [D -> Int], NEW h \in [D -> Int], \A x \in D : f[x] <= h[x]
  PROVE  SumFunction(f) <= SumFunction(h)
<1> DEFINE r == [x \in D |-> h[x] - f[x]]
<1>1. r \in [D -> Nat]
  <2> SUFFICES ASSUME NEW x \in D PROVE h[x] - f[x] \in Nat
    OBVIOUS
  <2>1. PICK a \in Int : a = f[x]
    OBVIOUS
  <2>2. PICK b \in Int : b = h[x]
    OBVIOUS
  <2>3. a <= b
    BY <2>1, <2>2
  <2>4. b - a \in Nat
    BY <2>3
  <2> QED BY <2>1, <2>2, <2>4
<1>2. SumFunction(r) = SumFunction(h) - SumFunction(f)
  BY SumOfDifferences
<1> HIDE DEF r
<1>3. SumFunction(r) \in Nat
  BY <1>1, SumIsNat
<1>4. SumFunction(f) \in Int /\ SumFunction(h) \in Int
  BY SumTyped
<1> QED BY <1>2, <1>3, <1>4

LEMMA SumOfPart ==
  ASSUME NEW D, IsFiniteSet(D), NEW f \in [D -> Nat], NEW T \in SUBSET D
  PROVE  SumFunction([x \in T |-> f[x]]) <= SumFunction(f)
<1> DEFINE a == [x \in T |-> f[x]]
           b == [x \in D \ T |-> f[x]]
<1>1. IsFiniteSet(T) /\ IsFiniteSet(D \ T)
  BY FS_Subset
<1>2. a \in [T -> Nat] /\ b \in [D \ T -> Nat] /\ f \in [D -> Int]
  OBVIOUS
<1>3. SumFunction(f) = SumFunction(a) + SumFunction(b)
  <2>1. D = T \cup (D \ T) /\ T \cap (D \ T) = {}
    OBVIOUS
  <2> QED BY <1>2, <2>1, SumSplits
<1> HIDE DEF a, b
<1>4. SumFunction(a) \in Nat /\ SumFunction(b) \in Nat
  BY <1>1, <1>2, SumIsNat
<1> QED BY <1>3, <1>4 DEF a

LEMMA Spread ==
  ASSUME NEW a \in Int, NEW b \in Int, NEW n \in Int
  PROVE  (a + b) * n = a * n + b * n
OBVIOUS

LEMMA QuotientsAdd ==
  ASSUME NEW a \in Nat, NEW b \in Nat, NEW x \in Nat, NEW y \in Nat, NEW k \in Nat, NEW n \in Nat,
         a * n <= x * k, b * n <= y * k
  PROVE  (a + b) * n <= (x + y) * k
<1>1. PICK p \in Int : p = a * n
  OBVIOUS
<1>2. PICK q \in Int : q = b * n
  OBVIOUS
<1>3. PICK v \in Int : v = x * k
  OBVIOUS
<1>4. PICK w \in Int : w = y * k
  OBVIOUS
<1>5. (a + b) * n = p + q
  BY <1>1, <1>2, Spread
<1>6. (x + y) * k = v + w
  BY <1>3, <1>4, Spread
<1>7. p + q <= v + w
  BY <1>1, <1>2, <1>3, <1>4
<1> QED BY <1>5, <1>6, <1>7

LEMMA Cancels ==
  ASSUME NEW a \in Nat, NEW k \in Nat, NEW n \in Nat \ {0}, a * n <= n * k
  PROVE  a <= k
OBVIOUS

(* Shares of n that are rounded down make no more than they are of.        *)
LEMMA SharesFit ==
  ASSUME NEW D, IsFiniteSet(D), NEW f \in [D -> Nat], NEW k \in Nat, NEW n \in Nat \ {0}
  PROVE  SumFunction([x \in D |-> (f[x] * k) \div n]) * n <= SumFunction(f) * k
<1> DEFINE r == [x \in D |-> (f[x] * k) \div n]
<1>0. ASSUME NEW x \in D PROVE r[x] \in Nat /\ r[x] * n <= f[x] * k
  <2>1. PICK a \in Nat : a = f[x]
    OBVIOUS
  <2>2. PICK b \in Nat : b = a * k
    BY ProductIsNat
  <2>3. r[x] = b \div n
    BY <2>1, <2>2
  <2>4. b \div n \in Nat /\ (b \div n) * n <= b
    BY QuotientFits
  <2> HIDE DEF r
  <2> QED BY <2>1, <2>2, <2>3, <2>4
<1>1. r \in [D -> Nat]
  BY <1>0
<1> HIDE DEF r
<1>2. r \in [D -> Int] /\ f \in [D -> Int]
  BY <1>1
<1>3. PICK a : IsSum(a, f, D) /\ SumFunction(f) = a[D]
  BY <1>2, SumComputes
<1>4. PICK b : IsSum(b, r, D) /\ SumFunction(r) = b[D]
  BY <1>2, SumComputes
<1> DEFINE has == {i \in Nat : \A s \in Sized(D, i) : a[s] \in Nat /\ b[s] \in Nat /\ b[s] * n <= a[s] * k}
<1>5. 0 \in has
  <2>1. ASSUME NEW s \in Sized(D, 0) PROVE a[s] \in Nat /\ b[s] \in Nat /\ b[s] * n <= a[s] * k
    <3>1. s = {}
      BY SizedSets
    <3>2. a[s] = 0 /\ b[s] = 0
      BY <1>3, <1>4, <3>1 DEF IsSum
    <3>3. 0 * n <= 0 * k
      OBVIOUS
    <3> QED BY <3>2, <3>3
  <2> QED BY <2>1
<1>6. ASSUME NEW i \in has PROVE i + 1 \in has
  <2>1. i \in Nat /\ \A s \in Sized(D, i) : a[s] \in Nat /\ b[s] \in Nat /\ b[s] * n <= a[s] * k
    OBVIOUS
  <2> HIDE DEF has
  <2>2. ASSUME NEW s \in Sized(D, i + 1) PROVE a[s] \in Nat /\ b[s] \in Nat /\ b[s] * n <= a[s] * k
    <3>1. CASE s = {}
      <4>1. a[s] = 0 /\ b[s] = 0
        BY <1>3, <1>4, <3>1 DEF IsSum
      <4>2. 0 * n <= 0 * k
        OBVIOUS
      <4> QED BY <4>1, <4>2
    <3>2. ASSUME NEW x \in s PROVE a[s] \in Nat /\ b[s] \in Nat /\ b[s] * n <= a[s] * k
      <4>1. s \in SUBSET D /\ x \in D
        BY DEF Sized
      <4>2. a[s] = f[x] + a[s \ {x}] /\ b[s] = r[x] + b[s \ {x}]
        BY <1>3, <1>4, <4>1 DEF IsSum
      <4>3. s \ {x} \in Sized(D, i)
        BY <2>1, SizedSets
      <4>4. PICK u \in Nat : u = f[x]
        BY <4>1
      <4>5. PICK v \in Nat : v = r[x]
        BY <1>0, <4>1
      <4>6. PICK y \in Nat : y = a[s \ {x}]
        BY <2>1, <4>3
      <4>7. PICK z \in Nat : z = b[s \ {x}]
        BY <2>1, <4>3
      <4>8. v * n <= u * k /\ z * n <= y * k
        BY <1>0, <2>1, <4>1, <4>3, <4>4, <4>5, <4>6, <4>7
      <4>9. (v + z) * n <= (u + y) * k
        BY <4>8, QuotientsAdd
      <4>10. a[s] = u + y /\ b[s] = v + z
        BY <4>2, <4>4, <4>5, <4>6, <4>7
      <4> QED BY <4>9, <4>10
    <3> QED BY <3>1, <3>2
  <2>3. i + 1 \in Nat
    BY <2>1
  <2> QED BY <2>2, <2>3 DEF has
<1>7. has \in SUBSET Nat
  OBVIOUS
<1> HIDE DEF has
<1>8. \A i \in Nat : i \in has
  BY <1>5, <1>6, <1>7, FromZeroOn
<1>9. PICK i \in Nat : D \in Sized(D, i)
  BY SizedSets
<1>10. i \in has
  BY <1>8
<1>11. b[D] * n <= a[D] * k
  BY <1>9, <1>10 DEF has
<1>12. SumFunction(r) * n <= SumFunction(f) * k
  BY <1>3, <1>4, <1>11
<1> QED BY <1>12 DEF r

-----------------------------------------------------------------------------
(* The weighted targets.                                                   *)
Members == {e.member : e \in UNION {plan.sizing : plan \in SizingPlan}}
Target == [day : Nat, ticker : Sizable, member : Members, weight : Nat]
Stake == [target : Target, entered : Nat, price : Nat \ {0}, cost : Nat \ {0}, exitTarget : Nat]
Return == [position : Stake, on : Nat, proceeds : Nat]
AnswerTexts == {"executed", "already_open", "no_valuation", "no_cash", "no_price"}

ResearchTyped ==
  /\ research.plan \in SizingPlan /\ research.prices \in [Sizable -> PricePath] /\ research.until \in Nat
  /\ WeightedTargets(research.plan) # {}
  /\ research = Prepared(research.plan, WeightedTargets(research.plan), research.prices, research.until)
DayTyped == day \in [at : Nat, step : {"next", "exit", "enter", "done"}]
Executed == {a \in account.answers : a[2] = "executed"}
AccountTyped ==
  /\ account \in [cash : Nat, open : SUBSET Stake, closed : SUBSET Return,
                  answers : SUBSET (research.targets \X AnswerTexts)]
  /\ IsFiniteSet(account.open) /\ IsFiniteSet(account.closed) /\ IsFiniteSet(Executed)

Stakes == account.open \cup {c.position : c \in account.closed}
Answered(t) == \E a \in account.answers : a[1] = t
StakesHold ==
  /\ \A p \in Stakes :
       /\ [target |-> p.target, on |-> p.entered] \in research.schedule
       /\ p.exitTarget = SessionBy(p.entered + HORIZON_DAYS)
       /\ IF day.step = "exit" THEN p.entered < day.at ELSE p.entered <= day.at
       /\ Answered(p.target)
  /\ \A p, q \in Stakes : p.target = q.target => p = q
  /\ \A p, q \in account.open : p.target.ticker = q.target.ticker => p = q
ReturnsHold ==
  /\ \A c \in account.closed : c.position \notin account.open /\ c.on - c.position.exitTarget \in 0 .. MAX_DELAY
  /\ \A c, e \in account.closed : c.position = e.position => c = e
AnswersStand ==
  /\ \A a, b \in account.answers : a[1] = b[1] => a = b
  /\ Cardinality(Executed) = Cardinality(account.open) + Cardinality(account.closed)
  /\ day.step # "done" => \A a \in account.answers : \E e \in research.schedule : e.target = a[1]
  /\ day.step = "done" => {a[1] : a \in account.answers} = research.targets
  /\ \A e \in research.schedule :
       (IF day.step = "next" THEN e.on <= day.at ELSE e.on < day.at) => Answered(e.target)
(* What is open had no price on a day it could have been closed.           *)
Closable(p, d) ==
  d > p.entered /\ d <= research.until
    /\ d - p.exitTarget \in 0 .. MAX_DELAY
OpenHold ==
  \A p \in account.open : \A d \in DOMAIN research.prices[p.target.ticker] :
    Closable(p, d) => IF day.step = "exit" THEN d >= day.at ELSE day.step # "done" /\ d > day.at
Capped(plan, targets) ==
  \A at \in {t.day : t \in targets} :
    LET ofDay == {t \in targets : t.day = at}
    IN  /\ TotalWeight(ofDay) <= TOTAL_EXPOSURE
        /\ \A t \in ofDay : /\ t.weight <= MAX_TICKER
                            /\ TotalWeight({u \in ofDay : u.member = t.member}) <= MAX_MEMBER
                            /\ \E e \in plan.sizing :
                                 /\ e.ticker = t.ticker /\ e.member = t.member /\ e.day <= at
                                 /\ t.weight <= HalfKelly(e)
KellyInv ==
  IF day.step = "idle" THEN account = NewAccount
  ELSE /\ ResearchTyped /\ DayTyped /\ AccountTyped /\ AccountBalances /\ StakesHold /\ ReturnsHold
       /\ AnswersStand /\ OpenHold

LEMMA PlansAre ==
  ASSUME NEW plan \in SizingPlan
  PROVE  /\ IsFiniteSet(plan.picks) /\ IsFiniteSet(plan.sizing)
         /\ \A p \in plan.picks : p.day \in Nat /\ p.ticker \in Sizable /\ \E s \in NyseDay : s > p.day
         /\ \A e \in plan.sizing :
              /\ e.day \in Nat /\ e.ticker \in Sizable /\ e.member \in Members
              /\ e.win \in 1 .. ThousandUnits - 1 /\ e.gain \in Nat \ {0} /\ e.loss \in Nat \ {0}
BY KellyAssumption DEF KellyAssumption, Members

LEMMA LatestIs ==
  ASSUME NEW S, IsFiniteSet(S), S # {}, \A e \in S : e.day \in Nat
  PROVE  Latest(S) \in S
<1> DEFINE h == [e \in S |-> e.day]
           days == {h[e] : e \in S}
<1>1. IsFiniteSet(days)
  BY ImageIs
<1>2. days \in SUBSET Nat /\ days # {}
  OBVIOUS
<1>3. \A e \in S : e.day \in days
  OBVIOUS
<1>4. \A d \in days : \E e \in S : e.day = d
  OBVIOUS
<1> HIDE DEF days
<1>5. Max(days) \in days /\ \A d \in days : d <= Max(days)
  BY <1>1, <1>2, FiniteHasGreatest
<1>6. PICK e \in S : e.day = Max(days)
  BY <1>4, <1>5
<1>7. \A other \in S : other.day <= e.day
  BY <1>3, <1>5, <1>6
<1> QED BY <1>7 DEF Latest

LEMMA HalfKellyIs ==
  ASSUME NEW plan \in SizingPlan, NEW e \in plan.sizing
  PROVE  HalfKelly(e) \in Nat
<1>1. PICK w \in Int : w = e.win
  BY PlansAre
<1>2. PICK g \in Nat \ {0} : g = e.gain
  BY PlansAre
<1>3. PICK l \in Int : l = e.loss
  BY PlansAre
<1>4. ThousandUnits \in Int
  BY KellyAssumption DEF KellyAssumption
<1>5. PICK x \in Int : x = w * g - (ThousandUnits - w) * l
  BY <1>4
<1>6. PICK y \in Int : y = x \div g
  OBVIOUS
<1>7. PICK z \in Int : z = y \div 2
  OBVIOUS
<1>8. HalfKelly(e) = Max({0, z})
  BY <1>1, <1>2, <1>3, <1>5, <1>6, <1>7 DEF HalfKelly
<1>9. \E m \in {0, z} : \A d \in {0, z} : m >= d
  OBVIOUS
<1>10. Max({0, z}) \in {0, z} /\ \A d \in {0, z} : Max({0, z}) >= d
  BY <1>9 DEF Max
<1> QED BY <1>8, <1>10

(* What the builder starts from: one estimate for each ticker.             *)
OnePerTicker(S) == \A s, u \in S : s.ticker = u.ticker => s = u
Recommended(plan, at, ticker) == \E p \in plan.picks : p.day = at /\ p.ticker = ticker

LEMMA EstimatesAre ==
  ASSUME NEW plan \in SizingPlan, NEW at \in Nat
  PROVE  /\ Estimated(plan, at) \subseteq Target /\ IsFiniteSet(Estimated(plan, at))
         /\ OnePerTicker(Estimated(plan, at))
         /\ \A x \in Estimated(plan, at) : x.day = at /\ Recommended(plan, at, x.ticker)
         /\ \A x \in Estimated(plan, at) :
              \E e \in plan.sizing : /\ e.ticker = x.ticker /\ e.member = x.member /\ e.day <= at
                                     /\ x.weight <= HalfKelly(e)
<1> DEFINE of == [r \in plan.picks |-> Latest(EstimateFor(plan.sizing, at, r.ticker))]
           here == {p \in plan.picks : p.day = at /\ EstimateFor(plan.sizing, at, p.ticker) # {}}
           made(e) == [day |-> at, ticker |-> e.ticker, member |-> e.member, weight |-> HalfKelly(e)]
<1>1. ASSUME NEW r \in here
      PROVE  /\ of[r] = Latest(EstimateFor(plan.sizing, at, r.ticker)) /\ of[r] \in plan.sizing
             /\ of[r].ticker = r.ticker /\ of[r].day <= at
  <2> DEFINE S == EstimateFor(plan.sizing, at, r.ticker)
  <2>1. S \subseteq plan.sizing /\ S # {}
    BY DEF EstimateFor
  <2>2. IsFiniteSet(S) /\ \A e \in S : e.day \in Nat
    BY <2>1, PlansAre, FS_Subset
  <2>3. Latest(S) \in S
    BY <2>1, <2>2, LatestIs
  <2> QED BY <2>3 DEF EstimateFor
<1>2. Estimated(plan, at) = {made(of[r]) : r \in here}
  BY DEF Estimated
<1>3. ASSUME NEW r \in here
      PROVE  made(of[r]) \in Target /\ made(of[r]).ticker = r.ticker /\ made(of[r]).day = at
  <2>1. PICK e \in plan.sizing : e = of[r] /\ e.ticker = r.ticker
    BY <1>1
  <2>2. HalfKelly(e) \in Nat
    BY HalfKellyIs
  <2>3. e.ticker \in Sizable /\ e.member \in Members
    BY PlansAre
  <2> QED BY <2>1, <2>2, <2>3 DEF Target
<1>4. IsFiniteSet(Estimated(plan, at))
  <2>1. IsFiniteSet(here)
    BY PlansAre, FS_Subset
  <2> DEFINE h == [r \in here |-> made(of[r])]
  <2>2. IsFiniteSet({h[r] : r \in here})
    <3> HIDE DEF here, of, made
    <3>1. DOMAIN h = here
      OBVIOUS
    <3> HIDE DEF h
    <3> QED BY <2>1, <3>1, ImageIs
  <2>3. {h[r] : r \in here} = {made(of[r]) : r \in here}
    OBVIOUS
  <2> QED BY <1>2, <2>2, <2>3
<1>5. OnePerTicker(Estimated(plan, at))
  <2> SUFFICES ASSUME NEW x \in Estimated(plan, at), NEW y \in Estimated(plan, at), x.ticker = y.ticker
               PROVE  x = y
    BY DEF OnePerTicker
  <2>1. PICK r \in here : x = made(of[r])
    BY <1>2
  <2>2. PICK q \in here : y = made(of[q])
    BY <1>2
  <2>3. r.ticker = q.ticker
    BY <1>3, <2>1, <2>2
  <2>4. of[r] = of[q]
    BY <1>1, <2>3
  <2> QED BY <2>1, <2>2, <2>4
<1>6. ASSUME NEW x \in Estimated(plan, at)
      PROVE  x \in Target /\ x.day = at /\ \E e \in plan.sizing : /\ e.ticker = x.ticker /\ e.member = x.member /\ e.day <= at
                                    /\ x.weight <= HalfKelly(e)
  <2>1. PICK r \in here : x = made(of[r])
    BY <1>2
  <2>2. PICK e \in plan.sizing : e = of[r] /\ e.ticker = r.ticker /\ e.day <= at
    BY <1>1
  <2>3. HalfKelly(e) \in Nat
    BY HalfKellyIs
  <2>4. x.ticker = e.ticker /\ x.member = e.member /\ x.weight = HalfKelly(e)
    BY <2>1, <2>2
  <2>5. x.weight <= HalfKelly(e)
    BY <2>3, <2>4
  <2>6. x \in Target /\ x.day = at
    BY <1>3, <2>1
  <2> QED BY <2>2, <2>4, <2>5, <2>6
<1>7. ASSUME NEW x \in Estimated(plan, at) PROVE Recommended(plan, at, x.ticker)
  <2>1. PICK r \in here : x = made(of[r])
    BY <1>2
  <2>2. x.ticker = r.ticker /\ r \in plan.picks /\ r.day = at
    BY <1>3, <2>1
  <2> QED BY <2>2 DEF Recommended
<1> QED BY <1>4, <1>5, <1>6, <1>7

LEMMA WeightsAdd ==
  ASSUME NEW S \in SUBSET Target, IsFiniteSet(S)
  PROVE  /\ TotalWeight(S) \in Nat
         /\ \A T \in SUBSET S : TotalWeight(T) \in Nat /\ TotalWeight(T) <= TotalWeight(S)
         /\ \A x \in S : TotalWeight({x}) = x.weight
<1> DEFINE f == [x \in S |-> x.weight]
<1>1. f \in [S -> Nat]
  BY DEF Target
<1>2. ASSUME NEW T \in SUBSET S PROVE [x \in T |-> f[x]] = [x \in T |-> x.weight] /\ IsFiniteSet(T)
  BY FS_Subset
<1>3. ASSUME NEW T \in SUBSET S PROVE TotalWeight(T) \in Nat /\ TotalWeight(T) <= TotalWeight(S)
  <2>1. [x \in T |-> f[x]] \in [T -> Nat]
    BY <1>1
  <2>2. SumFunction([x \in T |-> f[x]]) \in Nat
    BY <1>2, <2>1, SumIsNat
  <2>3. SumFunction([x \in T |-> f[x]]) <= SumFunction(f)
    BY <1>1, SumOfPart
  <2> QED BY <1>2, <2>2, <2>3 DEF TotalWeight
<1>4. ASSUME NEW x \in S PROVE TotalWeight({x}) = x.weight
  <2> DEFINE o == [y \in {x} |-> y.weight]
  <2>1. o \in [{x} -> Int]
    BY DEF Target
  <2>2. SumFunction(o) = o[x]
    BY <2>1, SumOfOne
  <2> QED BY <2>2 DEF TotalWeight
<1>5. TotalWeight(S) \in Nat
  BY <1>3
<1> QED BY <1>3, <1>4, <1>5

LEMMA RenamedWeighs ==
  ASSUME NEW T, IsFiniteSet(T), NEW E \in SUBSET Target, NEW k \in [T -> E],
         \A x, y \in T : k[x] = k[y] => x = y, \A e \in E : \E x \in T : k[x] = e
  PROVE  IsFiniteSet(E) /\ TotalWeight(E) = SumFunction([x \in T |-> k[x].weight])
<1> DEFINE f == [y \in E |-> y.weight]
<1>1. f \in [E -> Int]
  BY DEF Target
<1>2. [x \in T |-> f[k[x]]] = [x \in T |-> k[x].weight]
  OBVIOUS
<1> HIDE DEF f
<1>3. IsFiniteSet(E) /\ SumFunction(f) = SumFunction([x \in T |-> f[k[x]]])
  BY <1>1, SumRenames
<1> QED BY <1>2, <1>3 DEF f, TotalWeight

LEMMA ImageWeighs ==
  ASSUME NEW S \in SUBSET Target, IsFiniteSet(S), OnePerTicker(S), NEW h \in [S -> Target],
         \A x \in S : h[x].ticker = x.ticker
  PROVE  \A T \in SUBSET S :
           /\ {h[x] : x \in T} \in SUBSET Target /\ IsFiniteSet({h[x] : x \in T}) /\ OnePerTicker({h[x] : x \in T})
           /\ TotalWeight({h[x] : x \in T}) = SumFunction([x \in T |-> h[x].weight])
<1> TAKE T \in SUBSET S
<1> DEFINE E == {h[x] : x \in T}
           k == [x \in T |-> h[x]]
<1>1. \A x, y \in T : h[x] = h[y] => x = y
  BY DEF OnePerTicker
<1>2. k \in [T -> E] /\ \A x \in T : k[x] = h[x]
  OBVIOUS
<1>3. E \in SUBSET Target
  OBVIOUS
<1>4. IsFiniteSet(T)
  BY FS_Subset
<1>5. (\A x, y \in T : k[x] = k[y] => x = y) /\ \A e \in E : \E x \in T : k[x] = e
  BY <1>1
<1>6. [x \in T |-> k[x].weight] = [x \in T |-> h[x].weight]
  OBVIOUS
<1>7. OnePerTicker(E)
  BY DEF OnePerTicker
<1> HIDE DEF k, E
<1>8. IsFiniteSet(E) /\ TotalWeight(E) = SumFunction([x \in T |-> k[x].weight])
  BY <1>2, <1>3, <1>4, <1>5, RenamedWeighs
<1> QED BY <1>3, <1>6, <1>7, <1>8 DEF E

(* A cap keeps everything of a target but its weight, which it reduces.    *)
Reduces(h, S) ==
  /\ h \in [S -> Target]
  /\ \A x \in S : h[x].day = x.day /\ h[x].ticker = x.ticker /\ h[x].member = x.member /\ h[x].weight <= x.weight

LEMMA ReducedWeighs ==
  ASSUME NEW S \in SUBSET Target, IsFiniteSet(S), OnePerTicker(S), NEW h, Reduces(h, S)
  PROVE  \A T \in SUBSET S :
           /\ {h[x] : x \in T} \in SUBSET Target /\ IsFiniteSet({h[x] : x \in T}) /\ OnePerTicker({h[x] : x \in T})
           /\ TotalWeight({h[x] : x \in T}) <= TotalWeight(T)
<1> TAKE T \in SUBSET S
<1>1. /\ {h[x] : x \in T} \in SUBSET Target /\ IsFiniteSet({h[x] : x \in T}) /\ OnePerTicker({h[x] : x \in T})
      /\ TotalWeight({h[x] : x \in T}) = SumFunction([x \in T |-> h[x].weight])
  <2>1. h \in [S -> Target] /\ \A x \in S : h[x].ticker = x.ticker
    BY DEF Reduces
  <2> QED BY <2>1, ImageWeighs
<1> DEFINE a == [x \in T |-> h[x].weight]
           b == [x \in T |-> x.weight]
<1>2. a \in [T -> Int] /\ b \in [T -> Int] /\ \A x \in T : a[x] <= b[x]
  BY DEF Target, Reduces
<1>3. IsFiniteSet(T)
  BY FS_Subset
<1> HIDE DEF a, b
<1>4. SumFunction(a) <= SumFunction(b)
  BY <1>2, <1>3, SumGrows
<1> QED BY <1>1, <1>4 DEF a, b, TotalWeight

(* The groups of a cap are what the function g tells apart.                *)
CapOf(h, S, g, cap) ==
  /\ Reduces(h, S) /\ CappedBy(g, cap) = {h[x] : x \in S}
  /\ \A v : TotalWeight({h[x] : x \in {o \in S : g[o] = v}}) <= cap

LEMMA CapIs ==
  ASSUME NEW S \in SUBSET Target, IsFiniteSet(S), OnePerTicker(S), NEW g, DOMAIN g = S, NEW cap \in Nat
  PROVE  \E h : CapOf(h, S, g, cap)
<1> DEFINE Group(v) == {o \in S : g[o] = v}
           Of(x) == Scaled(x.weight, cap, TotalWeight(Group(g[x])))
           h == [x \in S |-> [x EXCEPT !.weight = Of(x)]]
<1>1. \A v : Group(v) \in SUBSET S /\ IsFiniteSet(Group(v)) /\ TotalWeight(Group(v)) \in Nat
  <2> SUFFICES ASSUME NEW v PROVE Group(v) \in SUBSET S /\ IsFiniteSet(Group(v)) /\ TotalWeight(Group(v)) \in Nat
    OBVIOUS
  <2>1. Group(v) \in SUBSET S
    OBVIOUS
  <2> HIDE DEF Group
  <2> QED BY <2>1, WeightsAdd, FS_Subset
<1>2. ASSUME NEW x \in S
      PROVE  /\ Of(x) \in Nat /\ Of(x) <= x.weight
             /\ h[x] = [day |-> x.day, ticker |-> x.ticker, member |-> x.member, weight |-> Of(x)]
  <2>1. PICK n \in Nat : n = TotalWeight(Group(g[x]))
    BY <1>1
  <2>2. PICK w \in Nat : w = x.weight
    BY DEF Target
  <2>3. Of(x) = IF n > cap THEN (w * cap) \div n ELSE w
    BY <2>1, <2>2 DEF Scaled, ScaledTo
  <2> HIDE DEF Of
  <2>4. Of(x) \in Nat /\ Of(x) <= w
    <3>1. CASE n > cap
      <4>1. PICK y \in Nat : y = w * cap
        BY ProductIsNat
      <4>2. n \in Nat \ {0}
        BY <3>1
      <4>3. PICK q \in Nat : q = y \div n /\ q * n <= y
        BY <4>2, QuotientFits
      <4>4. w * cap <= w * n
        BY <3>1
      <4>5. w * n = n * w
        OBVIOUS
      <4>6. q * n <= n * w
        BY <4>1, <4>3, <4>4, <4>5
      <4>7. q <= w
        BY <4>2, <4>6, Cancels
      <4> QED BY <2>3, <3>1, <4>1, <4>3, <4>7
    <3>2. CASE ~(n > cap)
      BY <2>3, <3>2
    <3> QED BY <3>1, <3>2
  <2>5. h[x] = [day |-> x.day, ticker |-> x.ticker, member |-> x.member, weight |-> Of(x)]
    BY DEF Target
  <2> QED BY <2>2, <2>4, <2>5
<1>3. Reduces(h, S)
  <2> HIDE DEF Of
  <2>1. ASSUME NEW x \in S
        PROVE  /\ h[x] \in Target /\ h[x].day = x.day /\ h[x].ticker = x.ticker /\ h[x].member = x.member
               /\ h[x].weight <= x.weight
    <3>1. x.day \in Nat /\ x.ticker \in Sizable /\ x.member \in Members
      BY DEF Target
    <3>2. PICK w \in Nat : w = Of(x)
      BY <1>2
    <3>3. h[x] = [day |-> x.day, ticker |-> x.ticker, member |-> x.member, weight |-> w] /\ w <= x.weight
      BY <1>2, <3>2
    <3>4. h[x] \in Target
      BY <3>1, <3>3 DEF Target
    <3> HIDE DEF h
    <3> QED BY <3>3, <3>4
  <2>2. DOMAIN h = S /\ h = [x \in S |-> h[x]]
    OBVIOUS
  <2> HIDE DEF h
  <2> QED BY <2>1, <2>2 DEF Reduces
<1>4. CappedBy(g, cap) = {h[x] : x \in S}
  BY DEF CappedBy
<1>5. ASSUME NEW v PROVE TotalWeight({h[x] : x \in Group(v)}) <= cap
  <2>1. PICK T : T = Group(v)
    OBVIOUS
  <2>2. PICK n \in Nat : n = TotalWeight(T)
    BY <1>1, <2>1
  <2>3. \A x \in T : x \in S /\ Of(x) = ScaledTo(x.weight, cap, n)
    BY <2>1, <2>2 DEF Scaled
  <2>4. T \in SUBSET S /\ IsFiniteSet(T)
    BY <1>1, <2>1
  <2> HIDE DEF h, Of, Group
  <2>5. \A x \in T : h[x].weight = ScaledTo(x.weight, cap, n)
    <3> SUFFICES ASSUME NEW x \in T PROVE h[x].weight = ScaledTo(x.weight, cap, n)
      OBVIOUS
    <3>1. h[x] = [day |-> x.day, ticker |-> x.ticker, member |-> x.member, weight |-> Of(x)]
      BY <1>2, <2>3
    <3>2. h[x].weight = Of(x)
      BY <3>1
    <3> QED BY <2>3, <3>2
  <2>6. TotalWeight({h[x] : x \in T}) <= TotalWeight(T)
    BY <1>3, <2>4, ReducedWeighs
  <2>7. CASE n <= cap
    <3>1. TotalWeight({h[x] : x \in T}) \in Nat
      <4>1. {h[x] : x \in T} \in SUBSET Target /\ IsFiniteSet({h[x] : x \in T})
        BY <1>3, <2>4, ReducedWeighs
      <4> QED BY <4>1, WeightsAdd
    <3> QED BY <2>1, <2>2, <2>6, <2>7, <3>1
  <2>8. CASE n > cap
    <3>1. n \in Nat \ {0}
      BY <2>8
    <3> DEFINE f == [x \in T |-> x.weight]
               r == [x \in T |-> (f[x] * cap) \div n]
    <3>2. f \in [T -> Nat]
      BY <2>4 DEF Target
    <3>3. SumFunction(f) = n
      BY <2>2 DEF TotalWeight
    <3>4. \A x \in T : r[x] = h[x].weight
      BY <2>5, <2>8 DEF ScaledTo
    <3>5. r = [x \in T |-> h[x].weight]
      BY <3>4
    <3>6. r \in [T -> Nat]
      <4>1. h \in [S -> Target]
        BY <1>3 DEF Reduces
      <4>2. \A x \in T : h[x].weight \in Nat
        BY <2>4, <4>1 DEF Target
      <4>3. \A x \in T : r[x] \in Nat
        BY <3>4, <4>2
      <4>4. r = [x \in T |-> r[x]]
        OBVIOUS
      <4> HIDE DEF r
      <4> QED BY <4>3, <4>4
    <3> HIDE DEF f
    <3>7. SumFunction(r) * n <= SumFunction(f) * cap
      BY <2>4, <3>1, <3>2, SharesFit
    <3> HIDE DEF r
    <3>8. PICK s \in Nat : s = SumFunction(r)
      BY <2>4, <3>6, SumIsNat
    <3>9. s * n <= n * cap
      BY <3>3, <3>7, <3>8
    <3>10. s <= cap
      BY <3>1, <3>9, Cancels
    <3>11. TotalWeight({h[x] : x \in T}) = SumFunction([x \in T |-> h[x].weight])
      <4>1. h \in [S -> Target] /\ \A x \in S : h[x].ticker = x.ticker
        BY <1>3 DEF Reduces
      <4> QED BY <2>4, <4>1, ImageWeighs
    <3> QED BY <2>1, <3>5, <3>8, <3>10, <3>11
  <2>9. cap \in Nat
    OBVIOUS
  <2> QED BY <2>2, <2>7, <2>8, <2>9
<1> HIDE DEF h
<1>6. CapOf(h, S, g, cap)
  BY <1>3, <1>4, <1>5 DEF CapOf
<1> QED BY <1>6

OfMember(S, m) == {x \in S : x.member = m}

(* One cap after the other.                                                *)
LEMMA PortfolioIs ==
  ASSUME NEW plan \in SizingPlan, NEW at \in Nat
  PROVE  /\ Portfolio(plan, at) \in SUBSET Target /\ IsFiniteSet(Portfolio(plan, at))
         /\ OnePerTicker(Portfolio(plan, at))
         /\ \A x \in Portfolio(plan, at) : Recommended(plan, at, x.ticker)
         /\ \A x \in Portfolio(plan, at) :
              /\ x.day = at /\ x.weight <= MAX_TICKER
              /\ \E e \in plan.sizing : /\ e.ticker = x.ticker /\ e.member = x.member /\ e.day <= at
                                        /\ x.weight <= HalfKelly(e)
         /\ TotalWeight(Portfolio(plan, at)) <= TOTAL_EXPOSURE
         /\ \A m : TotalWeight(OfMember(Portfolio(plan, at), m)) <= MAX_MEMBER
<1>0. MAX_TICKER \in Nat /\ MAX_MEMBER \in Nat /\ TOTAL_EXPOSURE \in Nat
  BY KellyAssumption DEF KellyAssumption
<1>1. PICK A : A = Above(Estimated(plan, at))
  OBVIOUS
<1>2. /\ A \in SUBSET Target /\ IsFiniteSet(A) /\ OnePerTicker(A)
      /\ \A x \in A : /\ x.day = at
                      /\ \E e \in plan.sizing : /\ e.ticker = x.ticker /\ e.member = x.member /\ e.day <= at
                                                /\ x.weight <= HalfKelly(e)
  <2>1. A \subseteq Estimated(plan, at)
    BY <1>1 DEF Above
  <2>2. IsFiniteSet(A)
    BY <2>1, EstimatesAre, FS_Subset
  <2> QED BY <2>1, <2>2, EstimatesAre DEF OnePerTicker
<1>2a. ASSUME NEW x \in A PROVE Recommended(plan, at, x.ticker)
  BY <1>1, EstimatesAre DEF Above
<1>3. PICK B : B = CappedBy(ByTicker(A), MAX_TICKER)
  OBVIOUS
<1>4. PICK h : /\ Reduces(h, A) /\ B = {h[x] : x \in A}
               /\ \A v : TotalWeight({h[x] : x \in {o \in A : ByTicker(A)[o] = v}}) <= MAX_TICKER
  <2>1. DOMAIN ByTicker(A) = A
    BY DEF ByTicker
  <2>2. PICK x : CapOf(x, A, ByTicker(A), MAX_TICKER)
    BY <1>0, <1>2, <2>1, CapIs
  <2>3. /\ Reduces(x, A) /\ CappedBy(ByTicker(A), MAX_TICKER) = {x[y] : y \in A}
        /\ \A v : TotalWeight({x[y] : y \in {o \in A : ByTicker(A)[o] = v}}) <= MAX_TICKER
    BY <2>2 DEF CapOf
  <2>4. B = {x[y] : y \in A}
    BY <1>3, <2>3
  <2> QED BY <2>3, <2>4
<1>5. B \in SUBSET Target /\ IsFiniteSet(B) /\ OnePerTicker(B)
  <2>1. A \in SUBSET A
    OBVIOUS
  <2> QED BY <1>2, <1>4, <2>1, ReducedWeighs
<1>6. ASSUME NEW x \in A PROVE h[x].weight <= MAX_TICKER
  <2>1. {o \in A : ByTicker(A)[o] = x.ticker} = {x}
    BY <1>2 DEF ByTicker, OnePerTicker
  <2>2. {h[y] : y \in {x}} = {h[x]}
    OBVIOUS
  <2>3. TotalWeight({h[x]}) <= MAX_TICKER
    BY <1>4, <2>1, <2>2
  <2>4. h[x] \in B
    BY <1>4
  <2>5. TotalWeight({h[x]}) = h[x].weight
    BY <1>5, <2>4, WeightsAdd
  <2> QED BY <2>3, <2>5
<1>7. PICK C : C = CappedBy(ByMember(B), MAX_MEMBER)
  OBVIOUS
<1>8. PICK k : /\ Reduces(k, B) /\ C = {k[x] : x \in B}
               /\ \A v : TotalWeight({k[x] : x \in {o \in B : ByMember(B)[o] = v}}) <= MAX_MEMBER
  <2>1. DOMAIN ByMember(B) = B
    BY DEF ByMember
  <2>2. PICK x : CapOf(x, B, ByMember(B), MAX_MEMBER)
    BY <1>0, <1>5, <2>1, CapIs
  <2>3. /\ Reduces(x, B) /\ CappedBy(ByMember(B), MAX_MEMBER) = {x[y] : y \in B}
        /\ \A v : TotalWeight({x[y] : y \in {o \in B : ByMember(B)[o] = v}}) <= MAX_MEMBER
    BY <2>2 DEF CapOf
  <2>4. C = {x[y] : y \in B}
    BY <1>7, <2>3
  <2> QED BY <2>3, <2>4
<1>9. C \in SUBSET Target /\ IsFiniteSet(C) /\ OnePerTicker(C)
  <2>1. B \in SUBSET B
    OBVIOUS
  <2> QED BY <1>5, <1>8, <2>1, ReducedWeighs
<1>10. ASSUME NEW m PROVE TotalWeight({x \in C : x.member = m}) <= MAX_MEMBER
  <2>1. {o \in B : ByMember(B)[o] = m} = {o \in B : o.member = m}
    BY DEF ByMember
  <2>2. {k[x] : x \in {o \in B : o.member = m}} = {x \in C : x.member = m}
    BY <1>8 DEF Reduces
  <2> QED BY <1>8, <2>1, <2>2
<1>11. PICK D : D = Portfolio(plan, at)
  OBVIOUS
<1>12. D = CappedBy(Together(C), TOTAL_EXPOSURE)
  BY <1>1, <1>3, <1>7, <1>11 DEF Portfolio
<1>13. PICK g : /\ Reduces(g, C) /\ D = {g[x] : x \in C}
                /\ \A v : TotalWeight({g[x] : x \in {o \in C : Together(C)[o] = v}}) <= TOTAL_EXPOSURE
  <2>1. DOMAIN Together(C) = C
    BY DEF Together
  <2>2. PICK x : CapOf(x, C, Together(C), TOTAL_EXPOSURE)
    BY <1>0, <1>9, <2>1, CapIs
  <2>3. /\ Reduces(x, C) /\ CappedBy(Together(C), TOTAL_EXPOSURE) = {x[y] : y \in C}
        /\ \A v : TotalWeight({x[y] : y \in {o \in C : Together(C)[o] = v}}) <= TOTAL_EXPOSURE
    BY <2>2 DEF CapOf
  <2>4. D = {x[y] : y \in C}
    BY <1>12, <2>3
  <2> QED BY <2>3, <2>4
<1>14. D \in SUBSET Target /\ IsFiniteSet(D) /\ OnePerTicker(D)
  <2>1. C \in SUBSET C
    OBVIOUS
  <2> QED BY <1>9, <1>13, <2>1, ReducedWeighs
<1>15. TotalWeight(D) <= TOTAL_EXPOSURE
  <2>1. {o \in C : Together(C)[o] = TRUE} = C
    BY DEF Together
  <2> QED BY <1>13, <2>1
<1>16. ASSUME NEW m PROVE TotalWeight({x \in D : x.member = m}) <= MAX_MEMBER
  <2>1. PICK T \in SUBSET C : T = {x \in C : x.member = m}
    OBVIOUS
  <2>2. {g[x] : x \in T} = {x \in D : x.member = m}
    BY <1>13, <2>1 DEF Reduces
  <2>3. TotalWeight({g[x] : x \in T}) <= TotalWeight(T)
    BY <1>9, <1>13, ReducedWeighs
  <2>4. TotalWeight(T) <= MAX_MEMBER
    BY <1>10, <2>1
  <2>5. {x \in D : x.member = m} \in SUBSET D
    OBVIOUS
  <2>6. TotalWeight(T) \in Nat /\ TotalWeight({x \in D : x.member = m}) \in Nat
    BY <1>9, <1>14, <2>5, WeightsAdd
  <2> QED BY <1>0, <2>2, <2>3, <2>4, <2>6
<1>17. ASSUME NEW x \in D
       PROVE  /\ x.day = at /\ x.weight <= MAX_TICKER
              /\ \E e \in plan.sizing : /\ e.ticker = x.ticker /\ e.member = x.member /\ e.day <= at
                                        /\ x.weight <= HalfKelly(e)
  <2>1. PICK c \in C : x = g[c]
    BY <1>13
  <2>2. PICK b \in B : c = k[b]
    BY <1>8
  <2>3. PICK a \in A : b = h[a]
    BY <1>4
  <2>4. x.day = c.day /\ x.ticker = c.ticker /\ x.member = c.member /\ x.weight <= c.weight
    BY <1>13, <2>1 DEF Reduces
  <2>5. c.day = b.day /\ c.ticker = b.ticker /\ c.member = b.member /\ c.weight <= b.weight
    BY <1>8, <2>2 DEF Reduces
  <2>6. b.day = a.day /\ b.ticker = a.ticker /\ b.member = a.member /\ b.weight <= a.weight
    BY <1>4, <2>3 DEF Reduces
  <2>7. PICK e \in plan.sizing : e.ticker = a.ticker /\ e.member = a.member /\ e.day <= at /\ a.weight <= HalfKelly(e)
    BY <1>2
  <2>8. PICK most \in Nat : most = HalfKelly(e)
    BY HalfKellyIs
  <2>9. x.weight \in Nat /\ c.weight \in Nat /\ b.weight \in Nat /\ a.weight \in Nat
    BY <1>2, <1>5, <1>9, <1>14 DEF Target
  <2>10. b.weight <= MAX_TICKER
    BY <1>6, <2>3
  <2>11. x.weight <= MAX_TICKER /\ x.weight <= most
    BY <1>0, <2>4, <2>5, <2>6, <2>7, <2>8, <2>9, <2>10
  <2>12. x.day = at
    BY <1>2, <2>4, <2>5, <2>6
  <2>13. e.ticker = x.ticker /\ e.member = x.member
    BY <2>4, <2>5, <2>6, <2>7
  <2> QED BY <2>7, <2>8, <2>11, <2>12, <2>13
<1>18. ASSUME NEW x \in D PROVE Recommended(plan, at, x.ticker)
  <2>1. PICK c \in C : x = g[c] /\ x.ticker = c.ticker
    BY <1>13 DEF Reduces
  <2>2. PICK b \in B : c = k[b] /\ c.ticker = b.ticker
    BY <1>8 DEF Reduces
  <2>3. PICK a \in A : b = h[a] /\ b.ticker = a.ticker
    BY <1>4 DEF Reduces
  <2> QED BY <1>2a, <2>1, <2>2, <2>3
<1>19. \A m : TotalWeight(OfMember(D, m)) <= MAX_MEMBER
  BY <1>16 DEF OfMember
<1> QED BY <1>11, <1>14, <1>15, <1>17, <1>18, <1>19

LEMMA TargetsAre ==
  ASSUME NEW plan \in SizingPlan
  PROVE  /\ WeightedTargets(plan) \in SUBSET Target /\ Capped(plan, WeightedTargets(plan))
         /\ \A t \in WeightedTargets(plan) : t.weight > 0 /\ \E s \in NyseDay : s > t.day
<1> DEFINE W == WeightedTargets(plan)
<1>1. ASSUME NEW t \in W
      PROVE  /\ t.day \in Nat /\ t \in Portfolio(plan, t.day) /\ t \in Target /\ t.weight > 0
             /\ \E s \in NyseDay : s > t.day
  <2>1. PICK p \in plan.picks : t \in Portfolio(plan, p.day) /\ t.weight > 0
    BY DEF WeightedTargets
  <2>2. p.day \in Nat /\ \E s \in NyseDay : s > p.day
    BY PlansAre
  <2>3. t.day = p.day /\ t \in Target
    BY <2>1, <2>2, PortfolioIs
  <2> QED BY <2>1, <2>2, <2>3
<1> HIDE DEF W
<1>2. ASSUME NEW at \in {t.day : t \in W}
      PROVE  LET ofDay == {t \in W : t.day = at}
             IN  /\ TotalWeight(ofDay) <= TOTAL_EXPOSURE
                 /\ \A t \in ofDay : /\ t.weight <= MAX_TICKER
                                     /\ TotalWeight({u \in ofDay : u.member = t.member}) <= MAX_MEMBER
                                     /\ \E e \in plan.sizing :
                                          /\ e.ticker = t.ticker /\ e.member = t.member /\ e.day <= at
                                          /\ t.weight <= HalfKelly(e)
  <2>1. at \in Nat
    BY <1>1
  <2>2. PICK P : P = Portfolio(plan, at)
    OBVIOUS
  <2>3. PICK S : S = {t \in W : t.day = at}
    OBVIOUS
  <2>4. S \in SUBSET P
    BY <1>1, <2>2, <2>3
  <2>5. /\ P \in SUBSET Target /\ IsFiniteSet(P)
        /\ \A x \in P :
              /\ x.weight <= MAX_TICKER
              /\ \E e \in plan.sizing : /\ e.ticker = x.ticker /\ e.member = x.member /\ e.day <= at
                                        /\ x.weight <= HalfKelly(e)
        /\ TotalWeight(P) <= TOTAL_EXPOSURE
        /\ \A m : TotalWeight({x \in P : x.member = m}) <= MAX_MEMBER
    <3>1. P \in SUBSET Target /\ IsFiniteSet(P) /\ TotalWeight(P) <= TOTAL_EXPOSURE
      BY <2>1, <2>2, PortfolioIs
    <3>2. ASSUME NEW x \in P
          PROVE  /\ x.weight <= MAX_TICKER
                 /\ \E e \in plan.sizing : /\ e.ticker = x.ticker /\ e.member = x.member /\ e.day <= at
                                           /\ x.weight <= HalfKelly(e)
      BY <2>1, <2>2, PortfolioIs
    <3>3. ASSUME NEW m PROVE TotalWeight({x \in P : x.member = m}) <= MAX_MEMBER
      <4>1. TotalWeight(OfMember(Portfolio(plan, at), m)) <= MAX_MEMBER
        BY <2>1, PortfolioIs
      <4> QED BY <2>2, <4>1 DEF OfMember
    <3> QED BY <3>1, <3>2, <3>3
  <2>6. MAX_MEMBER \in Nat /\ TOTAL_EXPOSURE \in Nat
    BY KellyAssumption DEF KellyAssumption
  <2>7. TotalWeight(S) <= TOTAL_EXPOSURE
    <3>1. TotalWeight(S) \in Nat /\ TotalWeight(S) <= TotalWeight(P) /\ TotalWeight(P) \in Nat
      BY <2>4, <2>5, WeightsAdd
    <3> QED BY <2>5, <2>6, <3>1
  <2>8. ASSUME NEW t \in S PROVE TotalWeight({u \in S : u.member = t.member}) <= MAX_MEMBER
    <3>1. PICK T \in SUBSET P : T = {x \in P : x.member = t.member}
      OBVIOUS
    <3>2. PICK X \in SUBSET T : X = {u \in S : u.member = t.member}
      BY <2>4, <3>1
    <3>3. T \in SUBSET Target /\ IsFiniteSet(T)
      BY <2>5, FS_Subset
    <3>4. TotalWeight(X) \in Nat /\ TotalWeight(X) <= TotalWeight(T) /\ TotalWeight(T) \in Nat
      BY <3>3, WeightsAdd
    <3>5. TotalWeight(T) <= MAX_MEMBER
      BY <2>5, <3>1
    <3> QED BY <2>6, <3>2, <3>4, <3>5
  <2> QED BY <2>3, <2>4, <2>5, <2>7, <2>8
<1>3. Capped(plan, W)
  BY <1>2 DEF Capped
<1> QED BY <1>1, <1>3 DEF W

(* The targets of a day are in one order.                                  *)
LEMMA TargetsDiffer ==
  ASSUME NEW plan \in SizingPlan, NEW t \in WeightedTargets(plan), NEW u \in WeightedTargets(plan)
  PROVE  /\ PlaceOf(t.day, t.ticker) \in Nat
         /\ t.day = u.day /\ PlaceOf(t.day, t.ticker) = PlaceOf(u.day, u.ticker) => t = u
<1>1. ASSUME NEW x \in WeightedTargets(plan)
      PROVE  x.day \in Nat /\ x \in Portfolio(plan, x.day) /\ Recommended(plan, x.day, x.ticker)
  <2>1. PICK p \in plan.picks : x \in Portfolio(plan, p.day)
    BY DEF WeightedTargets
  <2>2. p.day \in Nat
    BY PlansAre
  <2>3. x.day = p.day /\ Recommended(plan, p.day, x.ticker)
    BY <2>1, <2>2, PortfolioIs
  <2> QED BY <2>1, <2>2, <2>3
<1>2. \A p, q \in plan.picks :
        /\ PlaceOf(p.day, p.ticker) \in Nat
        /\ p.day = q.day /\ PlaceOf(p.day, p.ticker) = PlaceOf(q.day, q.ticker) => p.ticker = q.ticker
  BY KellyAssumption DEF KellyAssumption
<1>3. PICK p \in plan.picks : p.day = t.day /\ p.ticker = t.ticker
  BY <1>1 DEF Recommended
<1>4. PICK q \in plan.picks : q.day = u.day /\ q.ticker = u.ticker
  BY <1>1 DEF Recommended
<1>5. ASSUME t.day = u.day, t.ticker = u.ticker PROVE t = u
  <2>1. OnePerTicker(Portfolio(plan, t.day))
    BY <1>1, PortfolioIs
  <2> QED BY <1>1, <1>5, <2>1 DEF OnePerTicker
<1> QED BY <1>2, <1>3, <1>4, <1>5

-----------------------------------------------------------------------------
(* The calendar of a simulation.                                           *)

LEMMA PathsAre ==
  ASSUME NEW prices \in [Sizable -> PricePath]
  PROVE  /\ \A x \in Sizable : /\ IsFiniteSet(DOMAIN prices[x]) /\ DOMAIN prices[x] \subseteq Nat
                               /\ \A d \in DOMAIN prices[x] : prices[x][d] \in Nat
         /\ AllDates(prices) \in SUBSET Nat /\ IsFiniteSet(AllDates(prices))
         /\ \A x \in Sizable : DOMAIN prices[x] \subseteq AllDates(prices)
<1>1. ASSUME NEW x \in Sizable
      PROVE  /\ IsFiniteSet(DOMAIN prices[x]) /\ DOMAIN prices[x] \subseteq Nat
             /\ \A d \in DOMAIN prices[x] : prices[x][d] \in Nat
  <2>1. PICK path \in PricePath : path = prices[x]
    OBVIOUS
  <2>2. /\ IsFiniteSet(DOMAIN path) /\ DOMAIN path \subseteq Nat /\ \A d \in DOMAIN path : path[d] \in Nat
    BY KellyAssumption DEF KellyAssumption
  <2> QED BY <2>1, <2>2
<1>2. IsFiniteSet(AllDates(prices))
  <2> DEFINE h == [x \in Sizable |-> DOMAIN prices[x]]
             all == {h[x] : x \in Sizable}
  <2>1. IsFiniteSet(Sizable)
    BY KellyAssumption DEF KellyAssumption
  <2>2. IsFiniteSet(all)
    <3>1. DOMAIN h = Sizable
      OBVIOUS
    <3> HIDE DEF h
    <3> QED BY <2>1, <3>1, ImageIs
  <2>3. \A s \in all : IsFiniteSet(s)
    BY <1>1
  <2>4. UNION all = AllDates(prices)
    BY DEF AllDates
  <2> HIDE DEF all
  <2>5. IsFiniteSet(UNION all)
    BY <2>2, <2>3, FS_UNION
  <2> QED BY <2>4, <2>5
<1>3. AllDates(prices) \in SUBSET Nat /\ \A x \in Sizable : DOMAIN prices[x] \subseteq AllDates(prices)
  BY <1>1 DEF AllDates
<1> QED BY <1>1, <1>2, <1>3

LEMMA SessionsAre ==
  ASSUME NEW on \in Nat, NEW s \in NyseDay, s <= on
  PROVE  SessionBy(on) \in Nat /\ SessionBy(on) <= on
<1>1. NyseDay \subseteq Nat
  BY KellyAssumption DEF KellyAssumption
<1>2. PICK S \in SUBSET (0 .. on) : S = {x \in NyseDay : x <= on} /\ s \in S
  <2>1. \A x \in NyseDay : x <= on => x \in 0 .. on
    BY <1>1
  <2>2. {x \in NyseDay : x <= on} \in SUBSET (0 .. on)
    BY <2>1
  <2> QED BY <2>2
<1>3. Max(S) \in S
  BY <1>2, GreatestDay
<1> QED BY <1>2, <1>3 DEF SessionBy

LEMMA NextSessionIs ==
  ASSUME NEW at \in Nat, NEW s \in NyseDay, s > at
  PROVE  SessionAfter(at) \in NyseDay /\ SessionAfter(at) \in Nat /\ SessionAfter(at) > at
<1>0. NyseDay \subseteq Nat
  BY KellyAssumption DEF KellyAssumption
<1>1. PICK S \in SUBSET Nat : S = {x \in NyseDay : x > at} /\ s \in S
  <2>1. {x \in NyseDay : x > at} \in SUBSET Nat
    BY <1>0
  <2> QED BY <2>1
<1>2. Min(S) \in S
  BY <1>1, LeastDay
<1> QED BY <1>1, <1>2 DEF SessionAfter

(* One entry of the schedule.                                              *)
LEMMA EligibleIs ==
  ASSUME NEW t \in Target, NEW prices \in [Sizable -> PricePath], NEW until \in Nat,
         NEW s \in NyseDay, s > t.day, Eligible(t, prices, until) # {}
  PROVE  LET on == Min(Eligible(t, prices, until))
         IN  /\ on \in Nat /\ on > t.day /\ on <= until /\ on \in DOMAIN prices[t.ticker]
             /\ prices[t.ticker][on] \in Nat \ {0}
             /\ SessionBy(on + HORIZON_DAYS) \in Nat /\ SessionBy(on + HORIZON_DAYS) <= on + HORIZON_DAYS
<1>1. t.day \in Nat /\ t.ticker \in Sizable
  BY DEF Target
<1>2. PICK n \in Nat : n = SessionAfter(t.day) /\ n \in NyseDay /\ n > t.day
  BY <1>1, NextSessionIs
<1>3. PICK S : S = Eligible(t, prices, until)
  OBVIOUS
<1>4. \A d \in S : /\ d \in DOMAIN prices[t.ticker] /\ d \in Nat /\ n <= d /\ d <= until
                   /\ prices[t.ticker][d] > 0 /\ prices[t.ticker][d] \in Nat
  <2> SUFFICES ASSUME NEW d \in S
               PROVE  /\ d \in DOMAIN prices[t.ticker] /\ d \in Nat /\ n <= d /\ d <= until
                      /\ prices[t.ticker][d] > 0 /\ prices[t.ticker][d] \in Nat
    OBVIOUS
  <2>1. d \in DOMAIN prices[t.ticker] /\ d \in n .. until /\ prices[t.ticker][d] > 0
    BY <1>2, <1>3 DEF Eligible
  <2>2. d \in Nat /\ prices[t.ticker][d] \in Nat
    BY <1>1, <2>1, PathsAre
  <2> QED BY <2>1, <2>2
<1>5. S \in SUBSET Nat /\ S # {}
  BY <1>3, <1>4
<1>6. PICK on \in S : on = Min(S)
  BY <1>5, LeastDay
<1>7. HORIZON_DAYS \in Nat
  BY KellyAssumption DEF KellyAssumption
<1>8. on + HORIZON_DAYS \in Nat /\ n <= on + HORIZON_DAYS
  BY <1>2, <1>4, <1>7
<1>9. SessionBy(on + HORIZON_DAYS) \in Nat /\ SessionBy(on + HORIZON_DAYS) <= on + HORIZON_DAYS
  BY <1>2, <1>8, SessionsAre
<1>10. on > t.day /\ on <= until
  BY <1>1, <1>2, <1>4
<1>11. prices[t.ticker][on] \in Nat \ {0}
  <2>1. PICK q \in Nat : q = prices[t.ticker][on] /\ q > 0
    BY <1>4
  <2> QED BY <2>1
<1> QED BY <1>3, <1>4, <1>6, <1>9, <1>10, <1>11

(* What a simulation is prepared with.                                     *)
EntryIs(e, r) ==
  /\ e.target \in r.targets /\ e = [target |-> e.target, on |-> e.on]
  /\ e.on \in Nat /\ e.on \in DOMAIN r.prices[e.target.ticker] /\ r.prices[e.target.ticker][e.on] \in Nat \ {0}
  /\ e.on - e.target.day \in 1 .. MAX_DELAY
  /\ e.on \in r.dates /\ e.on <= r.lastEntry
  /\ SessionBy(e.on + HORIZON_DAYS) \in Nat /\ SessionBy(e.on + HORIZON_DAYS) <= e.on + HORIZON_DAYS
  /\ \A d \in AllDates(r.prices) :
       (d > e.on /\ d <= r.until /\ d <= e.on + HORIZON_DAYS + MAX_DELAY) => d \in r.dates
Calendar(r) ==
  /\ r.targets \in SUBSET Target /\ r.dates \in SUBSET Nat /\ r.until \in Nat
  /\ r.prices \in [Sizable -> PricePath] /\ Capped(r.plan, r.targets)
  /\ r.lastEntry \in Nat
  /\ \A e \in r.schedule : EntryIs(e, r)
  /\ \A e, f \in r.schedule : e.target = f.target => e = f

LEMMA PreparedIs ==
  ASSUME NEW plan \in SizingPlan, NEW prices \in [Sizable -> PricePath], NEW until \in Nat,
         WeightedTargets(plan) # {}, NEW r, r = Prepared(plan, WeightedTargets(plan), prices, until)
  PROVE  /\ Calendar(r) /\ r.plan = plan /\ r.targets = WeightedTargets(plan) /\ r.prices = prices
         /\ r.until = until
<1>1. PICK W \in SUBSET Target : W = WeightedTargets(plan)
  BY TargetsAre
<1>2. PICK S : S = Schedule(W, prices, until)
  OBVIOUS
<1>3. PICK start \in Nat : start = Min({t.day : t \in W}) /\ \A t \in W : start <= t.day
  <2>1. {t.day : t \in W} \in (SUBSET Nat) \ {{}}
    BY <1>1 DEF Target
  <2>2. PICK D \in SUBSET Nat : D = {t.day : t \in W} /\ D # {}
    BY <2>1
  <2>3. Min(D) \in D /\ \A d \in D : Min(D) <= d
    BY <2>2, LeastDay
  <2> QED BY <2>2, <2>3
<1>4. PICK last : last = LastEntry(S, start)
  OBVIOUS
<1>5. PICK dates : dates = EventDates(S, start, prices, until)
  OBVIOUS
<1>6. /\ r.plan = plan /\ r.targets = W /\ r.prices = prices /\ r.until = until
      /\ r.schedule = S /\ r.lastEntry = last /\ r.dates = dates
  BY <1>1, <1>2, <1>3, <1>4, <1>5 DEF Prepared
<1>7. HORIZON_DAYS \in Nat /\ MAX_DELAY \in Nat
  BY KellyAssumption DEF KellyAssumption
<1>8. ASSUME NEW e \in S
      PROVE  /\ e.target \in W /\ e = [target |-> e.target, on |-> e.on]
             /\ e.on = Min(Eligible(e.target, prices, until))
             /\ e.on \in Nat /\ e.on \in DOMAIN prices[e.target.ticker] /\ prices[e.target.ticker][e.on] \in Nat \ {0}
             /\ e.on - e.target.day \in 1 .. MAX_DELAY /\ e.on <= until /\ start <= e.on
             /\ SessionBy(e.on + HORIZON_DAYS) \in Nat /\ SessionBy(e.on + HORIZON_DAYS) <= e.on + HORIZON_DAYS
  <2>1. PICK t \in W : /\ e = [target |-> t, on |-> Min(Eligible(t, prices, until))]
                       /\ Eligible(t, prices, until) # {} /\ Min(Eligible(t, prices, until)) - t.day <= MAX_DELAY
    BY <1>2 DEF Schedule
  <2>2. PICK s \in NyseDay : s > t.day
    BY <1>1, TargetsAre
  <2>3. PICK on : on = Min(Eligible(t, prices, until))
    OBVIOUS
  <2>4. /\ on \in Nat /\ on > t.day /\ on <= until /\ on \in DOMAIN prices[t.ticker]
        /\ prices[t.ticker][on] \in Nat \ {0}
        /\ SessionBy(on + HORIZON_DAYS) \in Nat /\ SessionBy(on + HORIZON_DAYS) <= on + HORIZON_DAYS
    BY <2>1, <2>2, <2>3, EligibleIs
  <2>5. e.target = t /\ e.on = on /\ e = [target |-> t, on |-> on] /\ on - t.day <= MAX_DELAY
    BY <2>1, <2>3
  <2>6. t.day \in Nat /\ start <= t.day
    BY <1>3 DEF Target
  <2>7. on - t.day \in 1 .. MAX_DELAY /\ start <= on
    BY <1>7, <2>4, <2>5, <2>6
  <2> QED BY <2>3, <2>4, <2>5, <2>7
<1>9. last \in Nat /\ \A e \in S : e.on <= last
  <2>1. CASE S = {}
    BY <1>4, <2>1 DEF LastEntry
  <2>2. CASE S # {}
    <3>1. PICK D \in SUBSET (0 .. until) : D = {e.on : e \in S} /\ D # {}
      <4>1. \A e \in S : e.on \in 0 .. until
        BY <1>8
      <4>2. {e.on : e \in S} \in SUBSET (0 .. until)
        BY <4>1
      <4>3. PICK e \in S : e.on \in {x.on : x \in S}
        BY <2>2
      <4> QED BY <4>2, <4>3
    <3>2. Max(D) \in D /\ \A d \in D : d <= Max(D)
      BY <3>1, GreatestDay
    <3>3. last = Max(D)
      BY <1>4, <2>2, <3>1 DEF LastEntry
    <3> QED BY <3>1, <3>2, <3>3
  <2> QED BY <2>1, <2>2
<1>10. dates \in SUBSET Nat /\ \A d \in AllDates(prices) :
         (d <= until /\ start <= d /\ d <= last + HORIZON_DAYS + MAX_DELAY) => d \in dates
  <2>1. AllDates(prices) \in SUBSET Nat
    BY PathsAre
  <2>2. dates \in SUBSET Nat
    BY <1>5, <2>1 DEF EventDates
  <2>3. ASSUME NEW d \in AllDates(prices), d <= until, start <= d, d <= last + HORIZON_DAYS + MAX_DELAY
        PROVE  d \in dates
    <3>1. d \in start .. last + HORIZON_DAYS + MAX_DELAY
      BY <1>7, <1>9, <2>1, <2>3
    <3> QED BY <1>4, <1>5, <2>3, <3>1 DEF EventDates
  <2> QED BY <2>2, <2>3
<1>11. ASSUME NEW e \in S PROVE EntryIs(e, r)
  <2>1. PICK on \in Nat : on = e.on
    BY <1>8
  <2>2. on <= last /\ on <= until /\ start <= on
    BY <1>8, <1>9, <2>1
  <2>3. e.target.ticker \in Sizable
    BY <1>8 DEF Target
  <2>4. on \in AllDates(prices)
    BY <1>8, <2>1, <2>3, PathsAre
  <2>5. on <= last + HORIZON_DAYS + MAX_DELAY
    BY <1>7, <1>9, <2>2
  <2>6. on \in dates
    BY <1>10, <2>2, <2>4, <2>5
  <2>7. ASSUME NEW d \in AllDates(prices), d > on, d <= until, d <= on + HORIZON_DAYS + MAX_DELAY PROVE d \in dates
    <3>1. d \in Nat
      BY PathsAre
    <3>2. start <= d /\ d <= last + HORIZON_DAYS + MAX_DELAY
      BY <1>7, <1>9, <2>2, <2>7, <3>1
    <3> QED BY <1>10, <2>7, <3>2
  <2> QED BY <1>6, <1>8, <2>1, <2>2, <2>6, <2>7 DEF EntryIs
<1>12. ASSUME NEW e \in S, NEW f \in S, e.target = f.target PROVE e = f
  BY <1>8, <1>12
<1>13. Capped(plan, W)
  BY <1>1, TargetsAre
<1> QED BY <1>1, <1>6, <1>9, <1>10, <1>11, <1>12, <1>13 DEF Calendar

LEMMA ResearchIs ==
  ResearchTyped => Calendar(research) /\ research.plan \in SizingPlan
<1> SUFFICES ASSUME ResearchTyped PROVE Calendar(research)
  BY DEF ResearchTyped
<1>1. PICK r : r = research
  OBVIOUS
<1>2. /\ r.plan \in SizingPlan /\ r.prices \in [Sizable -> PricePath] /\ r.until \in Nat
      /\ WeightedTargets(r.plan) # {} /\ r = Prepared(r.plan, WeightedTargets(r.plan), r.prices, r.until)
  BY <1>1 DEF ResearchTyped
<1>3. Calendar(r)
  BY <1>2, PreparedIs
<1> QED BY <1>1, <1>3

-----------------------------------------------------------------------------
(* A simulation begins.                                                    *)
LEMMA BeginIs ==
  ASSUME NEW plan \in SizingPlan, NEW prices \in [Sizable -> PricePath], NEW until \in Nat,
         WeightedTargets(plan) # {}, research' = Prepared(plan, WeightedTargets(plan), prices, until),
         day' = [at |-> 0, step |-> "next"], account' = NewAccount
  PROVE  KellyInv'
<1>1. PICK r : r = Prepared(plan, WeightedTargets(plan), prices, until)
  OBVIOUS
<1>2. /\ Calendar(r) /\ r.plan = plan /\ r.targets = WeightedTargets(plan) /\ r.prices = prices /\ r.until = until
  BY <1>1, PreparedIs
<1>3. research' = r
  BY <1>1
<1>4. ResearchTyped'
  BY <1>1, <1>2, <1>3 DEF ResearchTyped
<1>5. DayTyped'
  BY DEF DayTyped
<1>6. /\ account'.cash = Bank /\ account'.open = {} /\ account'.closed = {} /\ account'.answers = {}
      /\ account' = [cash |-> Bank, open |-> {}, closed |-> {}, answers |-> {}]
  BY DEF NewAccount
<1>7. Bank \in Nat
  BY KellyAssumption DEF KellyAssumption
<1>8. Executed' = {}
  BY <1>6 DEF Executed
<1>9. AccountTyped'
  <2>1. IsFiniteSet({})
    BY FS_EmptySet
  <2> QED BY <1>6, <1>7, <1>8, <2>1 DEF AccountTyped
<1>10. AccountBalances'
  <2>1. CostOf(account'.open) = 0
    <3>1. [p \in {} |-> p.cost] = [x \in {} |-> [p \in {} |-> p.cost][x]] /\ DOMAIN [p \in {} |-> p.cost] = {}
      OBVIOUS
    <3>2. SumFunction([p \in {} |-> p.cost]) = 0
      BY <3>1, SumOfNone
    <3> QED BY <1>6, <3>2 DEF CostOf
  <2>2. SumFunction([c \in account'.closed |-> c.proceeds - c.position.cost]) = 0
    <3> DEFINE f == [c \in {} |-> c.proceeds - c.position.cost]
    <3>1. f = [x \in {} |-> f[x]] /\ DOMAIN f = {}
      OBVIOUS
    <3> HIDE DEF f
    <3>2. SumFunction(f) = 0
      BY <3>1, SumOfNone
    <3>3. [c \in account'.closed |-> c.proceeds - c.position.cost] = f
      BY <1>6 DEF f
    <3> QED BY <3>2, <3>3
  <2> QED BY <1>6, <1>7, <2>1, <2>2 DEF AccountBalances
<1>11. Stakes' = {}
  BY <1>6 DEF Stakes
<1>12. StakesHold'
  BY <1>6, <1>11 DEF StakesHold
<1>13. ReturnsHold'
  BY <1>6 DEF ReturnsHold
<1>14. AnswersStand'
  <2>1. Cardinality({}) = 0
    BY FS_EmptySet
  <2>2. Cardinality(Executed') = Cardinality(account'.open) + Cardinality(account'.closed)
    BY <1>6, <1>8, <2>1
  <2>3. \A e \in research'.schedule : ~(e.on <= 0)
    <3> SUFFICES ASSUME NEW e \in r.schedule PROVE ~(e.on <= 0)
      BY <1>3
    <3>1. EntryIs(e, r) /\ r.targets \in SUBSET Target /\ MAX_DELAY \in Nat
      BY <1>2, KellyAssumption DEF Calendar, KellyAssumption
    <3>2. e.on \in Nat /\ e.target.day \in Nat /\ e.on - e.target.day \in 1 .. MAX_DELAY
      BY <3>1 DEF EntryIs, Target
    <3> QED BY <3>1, <3>2
  <2> QED BY <1>6, <2>2, <2>3 DEF AnswersStand
<1>15. OpenHold'
  BY <1>6 DEF OpenHold
<1> QED BY <1>4, <1>5, <1>9, <1>10, <1>12, <1>13, <1>14, <1>15 DEF KellyInv

LEMMA SimulateKeeps ==
  ASSUME KellyInv, NEW plan \in SizingPlan, NEW prices \in [Sizable -> PricePath], Simulate(plan, prices)
  PROVE  KellyInv'
<1>1. account' = NewAccount /\ WeightedTargets(plan) # {} /\ AllDates(prices) # {}
  BY DEF KellyInv, Simulate
<1>2. AllDates(prices) \in SUBSET Nat /\ IsFiniteSet(AllDates(prices))
  BY PathsAre
<1>3. PICK until \in Nat : until = Max(AllDates(prices))
  BY <1>1, <1>2, FiniteHasGreatest
<1>4. research' = Prepared(plan, WeightedTargets(plan), prices, until) /\ day' = [at |-> 0, step |-> "next"]
  BY <1>3 DEF Simulate
<1> QED BY <1>1, <1>4, BeginIs

LEMMA SimulateUntilKeeps ==
  ASSUME KellyInv, SimulateUntil
  PROVE  KellyInv'
<1>1. ResearchTyped
  BY DEF KellyInv, SimulateUntil
<1>2. PICK until \in AllDates(research.prices) : research' = Prepared(research.plan, research.targets, research.prices, until)
  BY DEF SimulateUntil
<1>3. /\ research.plan \in SizingPlan /\ research.prices \in [Sizable -> PricePath]
      /\ WeightedTargets(research.plan) # {}
      /\ research.targets = WeightedTargets(research.plan)
  <2>1. PICK plan \in SizingPlan : plan = research.plan
    BY <1>1 DEF ResearchTyped
  <2>2. PICK r : r = research
    OBVIOUS
  <2>3. r = Prepared(r.plan, WeightedTargets(r.plan), r.prices, r.until)
    BY <1>1, <2>2 DEF ResearchTyped
  <2>4. r.targets = WeightedTargets(r.plan)
    BY <2>3 DEF Prepared
  <2> QED BY <1>1, <2>2, <2>4 DEF ResearchTyped
<1>4. until \in Nat
  BY <1>3, PathsAre
<1>5. day' = [at |-> 0, step |-> "next"] /\ account' = NewAccount
  BY DEF SimulateUntil
<1>6. PICK plan \in SizingPlan : plan = research.plan
  BY <1>3
<1>7. PICK prices \in [Sizable -> PricePath] : prices = research.prices
  BY <1>3
<1> QED BY <1>2, <1>3, <1>4, <1>5, <1>6, <1>7, BeginIs

-----------------------------------------------------------------------------
(* Money and positions of an account.                                      *)
Gains(returns) == SumFunction([c \in returns |-> c.proceeds - c.position.cost])

LEMMA CostsAdd ==
  ASSUME NEW P \in SUBSET Stake, IsFiniteSet(P), NEW E \in SUBSET P
  PROVE  /\ CostOf(P) = CostOf(P \ E) + CostOf(E)
         /\ CostOf(P) \in Nat /\ CostOf(P \ E) \in Nat /\ CostOf(E) \in Nat
<1> DEFINE f == [p \in P |-> p.cost]
<1>1. f \in [P -> Nat] /\ f \in [P -> Int]
  BY DEF Stake
<1>2. ASSUME NEW T \in SUBSET P PROVE CostOf(T) = SumFunction([p \in T |-> f[p]]) /\ CostOf(T) \in Nat
  <2>1. [p \in T |-> f[p]] = [p \in T |-> p.cost]
    OBVIOUS
  <2>2. [p \in T |-> f[p]] \in [T -> Nat] /\ IsFiniteSet(T)
    BY <1>1, FS_Subset
  <2>3. SumFunction([p \in T |-> f[p]]) \in Nat
    BY <2>2, SumIsNat
  <2> QED BY <2>1, <2>3 DEF CostOf
<1>3. P = (P \ E) \cup E /\ (P \ E) \cap E = {} /\ P \ E \in SUBSET P
  OBVIOUS
<1>4. CostOf(P) = SumFunction(f)
  BY DEF CostOf
<1> HIDE DEF f
<1>5. SumFunction(f) = SumFunction([p \in P \ E |-> f[p]]) + SumFunction([p \in E |-> f[p]])
  BY <1>1, <1>3, SumSplits
<1> QED BY <1>2, <1>3, <1>4, <1>5

LEMMA GainsAdd ==
  ASSUME NEW C \in SUBSET Return, IsFiniteSet(C), NEW N \in SUBSET Return, IsFiniteSet(N), C \cap N = {}
  PROVE  Gains(C \cup N) = Gains(C) + Gains(N) /\ Gains(C) \in Int /\ Gains(N) \in Int
<1> DEFINE D == C \cup N
           f == [c \in D |-> c.proceeds - c.position.cost]
<1>1. f \in [D -> Int]
  BY DEF Return, Stake
<1>2. ASSUME NEW T \in SUBSET D PROVE Gains(T) = SumFunction([c \in T |-> f[c]]) /\ (IsFiniteSet(T) => Gains(T) \in Int)
  <2>1. [c \in T |-> f[c]] = [c \in T |-> c.proceeds - c.position.cost]
    OBVIOUS
  <2>2. [c \in T |-> f[c]] \in [T -> Int]
    BY <1>1
  <2>3. IsFiniteSet(T) => SumFunction([c \in T |-> f[c]]) \in Int
    BY <2>2, SumTyped
  <2> QED BY <2>1, <2>3 DEF Gains
<1>3. Gains(D) = SumFunction(f)
  BY DEF Gains
<1>4. IsFiniteSet(D)
  BY FS_Union
<1>5. C \in SUBSET D /\ N \in SUBSET D /\ D = C \cup N
  OBVIOUS
<1> HIDE DEF D, f
<1>6. SumFunction(f) = SumFunction([c \in C |-> f[c]]) + SumFunction([c \in N |-> f[c]])
  BY <1>1, <1>4, <1>5, SumSplits
<1> QED BY <1>2, <1>3, <1>5, <1>6

LEMMA GainsRenamed ==
  ASSUME NEW E, IsFiniteSet(E), NEW N \in SUBSET Return, NEW k \in [E -> N],
         \A x, y \in E : k[x] = k[y] => x = y, \A c \in N : \E x \in E : k[x] = c
  PROVE  Gains(N) = SumFunction([x \in E |-> k[x].proceeds - k[x].position.cost])
<1> DEFINE f == [c \in N |-> c.proceeds - c.position.cost]
<1>1. f \in [N -> Int]
  BY DEF Return, Stake
<1>2. [x \in E |-> f[k[x]]] = [x \in E |-> k[x].proceeds - k[x].position.cost]
  OBVIOUS
<1> HIDE DEF f
<1>3. IsFiniteSet(N) /\ SumFunction(f) = SumFunction([x \in E |-> f[k[x]]])
  BY <1>1, SumRenames
<1> QED BY <1>2, <1>3 DEF f, Gains

(* What sales earn is what they bring less what was paid.                  *)
LEMMA SalesEarn ==
  ASSUME NEW E \in SUBSET Stake, IsFiniteSet(E), NEW N \in SUBSET Return, NEW k \in [E -> N],
         \A p \in E : k[p].position = p, \A c \in N : \E p \in E : k[p] = c
  PROVE  /\ IsFiniteSet(N) /\ Cardinality(N) = Cardinality(E)
         /\ SumFunction([p \in E |-> k[p].proceeds]) \in Nat
         /\ Gains(N) = SumFunction([p \in E |-> k[p].proceeds]) - CostOf(E)
<1> DEFINE a == [p \in E |-> k[p].proceeds]
           b == [p \in E |-> p.cost]
<1>1. a \in [E -> Nat] /\ a \in [E -> Int] /\ b \in [E -> Int]
  BY DEF Return, Stake
<1>2. \A p, q \in E : k[p] = k[q] => p = q
  OBVIOUS
<1>3. [p \in E |-> k[p].proceeds - k[p].position.cost] = [p \in E |-> a[p] - b[p]]
  <2>1. ASSUME NEW p \in E PROVE k[p].proceeds - k[p].position.cost = a[p] - b[p]
    OBVIOUS
  <2> HIDE DEF a, b
  <2> QED BY <2>1
<1>4. CostOf(E) = SumFunction(b)
  BY DEF CostOf
<1>5. Gains(N) = SumFunction([p \in E |-> k[p].proceeds - k[p].position.cost])
  BY <1>2, GainsRenamed
<1>6. IsFiniteSet(N) /\ Cardinality(N) = Cardinality(E)
  <2>1. DOMAIN k = E /\ N = {k[p] : p \in E}
    OBVIOUS
  <2>2. /\ IsFiniteSet({k[p] : p \in E}) /\ Cardinality({k[p] : p \in E}) <= Cardinality(E)
        /\ (\A x, y \in E : k[x] = k[y] => x = y) => Cardinality({k[p] : p \in E}) = Cardinality(E)
    BY <2>1, ImageIs
  <2> QED BY <1>2, <2>1, <2>2
<1> HIDE DEF a, b
<1>7. SumFunction([p \in E |-> a[p] - b[p]]) = SumFunction(a) - SumFunction(b)
  BY <1>1, SumOfDifferences
<1>8. SumFunction(a) \in Nat
  BY <1>1, SumIsNat
<1> QED BY <1>3, <1>4, <1>5, <1>6, <1>7, <1>8 DEF a

LEMMA ValueIs ==
  ASSUME NEW p \in Stake, NEW q \in Nat
  PROVE  Value(p, q) \in Nat
<1>1. PICK c \in Nat : c = p.cost
  BY DEF Stake
<1>2. PICK n \in Nat \ {0} : n = p.price
  BY DEF Stake
<1>3. PICK m \in Nat : m = c * q
  BY ProductIsNat
<1>4. m \div n \in Nat
  BY QuotientFits
<1> QED BY <1>1, <1>2, <1>3, <1>4 DEF Value

LEMMA ActiveAccount ==
  ASSUME KellyInv, day.step # "idle"
  PROVE  /\ ResearchTyped /\ DayTyped /\ AccountTyped /\ AccountBalances /\ StakesHold /\ ReturnsHold
         /\ AnswersStand /\ OpenHold
         /\ Calendar(research) /\ day.at \in Nat
         /\ account.cash \in Nat /\ account.open \in SUBSET Stake /\ account.closed \in SUBSET Return
         /\ IsFiniteSet(account.open) /\ IsFiniteSet(account.closed) /\ IsFiniteSet(Executed)
         /\ account = [cash |-> account.cash, open |-> account.open, closed |-> account.closed,
                       answers |-> account.answers]
         /\ account.answers \in SUBSET (research.targets \X AnswerTexts)
         /\ CostOf(account.open) \in Nat /\ Gains(account.closed) \in Int
         /\ account.cash + CostOf(account.open) = Bank + Gains(account.closed)
         /\ Bank \in Nat /\ HORIZON_DAYS \in Nat /\ MAX_DELAY \in Nat
<1>1. /\ ResearchTyped /\ DayTyped /\ AccountTyped /\ AccountBalances /\ StakesHold /\ ReturnsHold
      /\ AnswersStand /\ OpenHold
  BY DEF KellyInv
<1>2. Calendar(research) /\ day.at \in Nat
  BY <1>1, ResearchIs DEF DayTyped
<1>3. /\ account.cash \in Nat /\ account.open \in SUBSET Stake /\ account.closed \in SUBSET Return
      /\ IsFiniteSet(account.open) /\ IsFiniteSet(account.closed) /\ IsFiniteSet(Executed)
      /\ account = [cash |-> account.cash, open |-> account.open, closed |-> account.closed,
                    answers |-> account.answers]
      /\ account.answers \in SUBSET (research.targets \X AnswerTexts)
  BY <1>1 DEF AccountTyped
<1>4. CostOf(account.open) \in Nat
  <2>1. account.open \in SUBSET account.open
    OBVIOUS
  <2> QED BY <1>3, <2>1, CostsAdd
<1>5. Gains(account.closed) \in Int
  <2>1. {} \in SUBSET Return /\ IsFiniteSet({}) /\ account.closed \cap {} = {}
    BY FS_EmptySet
  <2> QED BY <1>3, <2>1, GainsAdd
<1>6. account.cash + CostOf(account.open) = Bank + Gains(account.closed)
  BY <1>1 DEF AccountBalances, Gains
<1>7. Bank \in Nat /\ HORIZON_DAYS \in Nat /\ MAX_DELAY \in Nat
  BY KellyAssumption DEF KellyAssumption
<1> QED BY <1>1, <1>2, <1>3, <1>4, <1>5, <1>6, <1>7

-----------------------------------------------------------------------------
(* The exits of a day.                                                     *)
Paid == SumFunction([p \in Exits |-> ClosedNow(p).proceeds])
NewlyClosed == {ClosedNow(p) : p \in Exits}

LEMMA ExitsAre ==
  ASSUME KellyInv, day.step # "idle"
  PROVE  /\ Exits \in SUBSET account.open /\ Exits \in SUBSET Stake /\ IsFiniteSet(Exits)
         /\ NewlyClosed \in SUBSET Return
         /\ \A p \in Exits : /\ ClosedNow(p).position = p /\ ClosedNow(p).on = day.at
                             /\ day.at - p.exitTarget \in 0 .. MAX_DELAY
         /\ \A c \in NewlyClosed : c.position \in Exits /\ c = ClosedNow(c.position)
         /\ NewlyClosed \cap account.closed = {}
         /\ IsFiniteSet(NewlyClosed) /\ Cardinality(NewlyClosed) = Cardinality(Exits)
         /\ Paid \in Nat /\ Gains(NewlyClosed) = Paid - CostOf(Exits)
<1>1. /\ account.open \in SUBSET Stake /\ IsFiniteSet(account.open) /\ day.at \in Nat /\ Calendar(research)
      /\ ReturnsHold /\ MAX_DELAY \in Nat
  BY ActiveAccount
<1>2. Exits \in SUBSET account.open /\ Exits \in SUBSET Stake /\ IsFiniteSet(Exits)
  <2>1. Exits \in SUBSET account.open
    BY DEF Exits
  <2> QED BY <1>1, <2>1, FS_Subset
<1>3. ASSUME NEW p \in Exits
      PROVE  /\ ClosedNow(p) \in Return /\ ClosedNow(p).position = p /\ ClosedNow(p).on = day.at
             /\ day.at - p.exitTarget \in 0 .. MAX_DELAY
  <2>1. p.target.ticker \in Sizable /\ p.exitTarget \in Nat /\ p \in Stake
    BY <1>2 DEF Stake, Target
  <2>2. PICK prices \in [Sizable -> PricePath] : prices = research.prices
    BY <1>1 DEF Calendar
  <2>3. day.at >= p.exitTarget /\ day.at - p.exitTarget <= MAX_DELAY /\ day.at \in DOMAIN prices[p.target.ticker]
    BY <2>2 DEF Exits
  <2>4. PICK q \in Nat : q = PriceAt(p.target.ticker, day.at)
    BY <2>1, <2>2, <2>3, PathsAre DEF PriceAt
  <2>5. PICK v \in Nat : v = Value(p, PriceAt(p.target.ticker, day.at))
    BY <2>1, <2>4, ValueIs
  <2>6. ClosedNow(p) = [position |-> p, on |-> day.at, proceeds |-> v]
    BY <2>5 DEF ClosedNow
  <2>7. day.at - p.exitTarget \in 0 .. MAX_DELAY
    BY <1>1, <2>1, <2>3
  <2> QED BY <1>1, <2>1, <2>6, <2>7 DEF Return
<1>4. NewlyClosed \in SUBSET Return /\ \A c \in NewlyClosed : c.position \in Exits /\ c = ClosedNow(c.position)
  BY <1>3 DEF NewlyClosed
<1>5. NewlyClosed \cap account.closed = {}
  BY <1>1, <1>2, <1>4 DEF ReturnsHold
<1>6. PICK k \in [Exits -> NewlyClosed] : k = [p \in Exits |-> ClosedNow(p)]
  BY DEF NewlyClosed
<1>7. (\A p \in Exits : k[p].position = p) /\ \A c \in NewlyClosed : \E p \in Exits : k[p] = c
  BY <1>3, <1>4, <1>6
<1>8. /\ IsFiniteSet(NewlyClosed) /\ Cardinality(NewlyClosed) = Cardinality(Exits)
      /\ SumFunction([p \in Exits |-> k[p].proceeds]) \in Nat
      /\ Gains(NewlyClosed) = SumFunction([p \in Exits |-> k[p].proceeds]) - CostOf(Exits)
  BY <1>2, <1>4, <1>7, SalesEarn
<1>9. SumFunction([p \in Exits |-> k[p].proceeds]) = Paid
  <2>1. [p \in Exits |-> k[p].proceeds] = [p \in Exits |-> ClosedNow(p).proceeds]
    BY <1>6
  <2> QED BY <2>1 DEF Paid
<1> QED BY <1>2, <1>3, <1>4, <1>5, <1>8, <1>9

LEMMA ExitDueMoves ==
  ASSUME KellyInv, ExitDue
  PROVE  /\ day.step = "exit" /\ day'.step = "enter" /\ day'.at = day.at /\ day' = [at |-> day.at, step |-> "enter"]
         /\ research' = research /\ account'.answers = account.answers
         /\ account'.cash = account.cash + Paid /\ account'.open = account.open \ Exits
         /\ account'.closed = account.closed \cup NewlyClosed
         /\ account' = [cash |-> account.cash + Paid, open |-> account.open \ Exits,
                        closed |-> account.closed \cup NewlyClosed, answers |-> account.answers]
<1>1. day.step = "exit" /\ research' = research /\ day' = [day EXCEPT !.step = "enter"]
  BY DEF ExitDue
<1>2. DayTyped /\ AccountTyped
  BY <1>1, ActiveAccount
<1>3. account' = [account EXCEPT !.cash = @ + Paid, !.open = @ \ Exits, !.closed = @ \cup NewlyClosed]
  BY DEF ExitDue, Paid, NewlyClosed
<1>4. account' = [cash |-> account.cash + Paid, open |-> account.open \ Exits,
                  closed |-> account.closed \cup NewlyClosed, answers |-> account.answers]
  BY <1>2, <1>3 DEF AccountTyped
<1>5. day' = [at |-> day.at, step |-> "enter"]
  BY <1>1, <1>2 DEF DayTyped
<1> QED BY <1>1, <1>4, <1>5

LEMMA ExitDueKeeps ==
  ASSUME KellyInv, ExitDue
  PROVE  KellyInv'
<1>0. day.step = "exit"
  BY DEF ExitDue
<1>1. /\ ResearchTyped /\ DayTyped /\ AccountTyped /\ AccountBalances /\ StakesHold /\ ReturnsHold
      /\ AnswersStand /\ OpenHold
      /\ Calendar(research) /\ day.at \in Nat
      /\ account.cash \in Nat /\ account.open \in SUBSET Stake /\ account.closed \in SUBSET Return
      /\ IsFiniteSet(account.open) /\ IsFiniteSet(account.closed) /\ IsFiniteSet(Executed)
      /\ account.answers \in SUBSET (research.targets \X AnswerTexts)
      /\ CostOf(account.open) \in Nat /\ Gains(account.closed) \in Int
      /\ account.cash + CostOf(account.open) = Bank + Gains(account.closed)
      /\ Bank \in Nat
  BY <1>0, ActiveAccount
<1>2. /\ day'.step = "enter" /\ day'.at = day.at /\ day' = [at |-> day.at, step |-> "enter"]
      /\ research' = research /\ account'.answers = account.answers
      /\ account'.cash = account.cash + Paid /\ account'.open = account.open \ Exits
      /\ account'.closed = account.closed \cup NewlyClosed
      /\ account' = [cash |-> account.cash + Paid, open |-> account.open \ Exits,
                     closed |-> account.closed \cup NewlyClosed, answers |-> account.answers]
  BY ExitDueMoves
<1>3. /\ Exits \in SUBSET account.open /\ Exits \in SUBSET Stake /\ IsFiniteSet(Exits)
      /\ NewlyClosed \in SUBSET Return
      /\ \A p \in Exits : /\ ClosedNow(p).position = p /\ ClosedNow(p).on = day.at
                          /\ day.at - p.exitTarget \in 0 .. MAX_DELAY
      /\ \A c \in NewlyClosed : c.position \in Exits /\ c = ClosedNow(c.position)
      /\ NewlyClosed \cap account.closed = {}
      /\ IsFiniteSet(NewlyClosed) /\ Cardinality(NewlyClosed) = Cardinality(Exits)
      /\ Paid \in Nat /\ Gains(NewlyClosed) = Paid - CostOf(Exits)
  BY <1>0, ExitsAre
<1>4. ResearchTyped' /\ DayTyped'
  BY <1>1, <1>2 DEF ResearchTyped, DayTyped
<1>5. Executed' = Executed
  BY <1>2 DEF Executed
<1>6. AccountTyped'
  <2>1. IsFiniteSet(account.open \ Exits) /\ IsFiniteSet(account.closed \cup NewlyClosed)
    BY <1>1, <1>3, FS_Subset, FS_Union
  <2>2. account.cash + Paid \in Nat
    BY <1>1, <1>3
  <2> QED BY <1>1, <1>2, <1>3, <1>5, <2>1, <2>2 DEF AccountTyped
<1>7. AccountBalances'
  <2>1. /\ CostOf(account.open) = CostOf(account.open \ Exits) + CostOf(Exits)
        /\ CostOf(account.open \ Exits) \in Nat /\ CostOf(Exits) \in Nat
    BY <1>1, <1>3, CostsAdd
  <2>2. Gains(account.closed \cup NewlyClosed) = Gains(account.closed) + Gains(NewlyClosed) /\ Gains(NewlyClosed) \in Int
    BY <1>1, <1>3, GainsAdd
  <2>3. account.cash + Paid \in Nat
    BY <1>1, <1>3
  <2>4. (account.cash + Paid) + CostOf(account.open \ Exits) = Bank + Gains(account.closed \cup NewlyClosed)
    BY <1>1, <1>3, <2>1, <2>2
  <2>5. account'.cash + CostOf(account'.open) = Bank + Gains(account'.closed)
    BY <1>2, <2>4
  <2>6. account'.cash >= 0
    BY <1>2, <2>3
  <2> QED BY <2>5, <2>6 DEF AccountBalances, Gains
<1>8. Stakes' = Stakes
  BY <1>2, <1>3 DEF Stakes, NewlyClosed
<1>9. \A t : Answered(t)' = Answered(t)
  BY <1>2 DEF Answered
<1>10. StakesHold'
  <2>1. \A p \in Stakes : p.entered < day.at => p.entered <= day.at
    <3>1. \A p \in Stakes : p.entered \in Nat
      BY <1>1 DEF Stakes, Stake, Return
    <3> QED BY <1>1, <3>1
  <2> QED BY <1>0, <1>1, <1>2, <1>8, <1>9, <2>1 DEF StakesHold
<1>11. ReturnsHold'
  <2>1. ASSUME NEW c \in account'.closed
        PROVE  c.position \notin account'.open /\ c.on - c.position.exitTarget \in 0 .. MAX_DELAY
    <3>1. CASE c \in account.closed
      BY <1>1, <1>2, <3>1 DEF ReturnsHold
    <3>2. CASE c \in NewlyClosed
      <4>1. c.position \in Exits /\ c = ClosedNow(c.position)
        BY <1>3, <3>2
      <4>2. c.on = day.at /\ day.at - c.position.exitTarget \in 0 .. MAX_DELAY
        BY <1>3, <4>1
      <4> QED BY <1>2, <4>1, <4>2
    <3> QED BY <1>2, <3>1, <3>2
  <2>2. ASSUME NEW c \in account'.closed, NEW e \in account'.closed, c.position = e.position PROVE c = e
    <3>1. \A x \in account.closed : x.position \notin Exits
      BY <1>1, <1>3 DEF ReturnsHold
    <3>2. CASE c \in account.closed /\ e \in account.closed
      BY <1>1, <2>2, <3>2 DEF ReturnsHold
    <3>3. CASE c \in NewlyClosed /\ e \in NewlyClosed
      BY <1>3, <2>2, <3>3
    <3> QED BY <1>2, <1>3, <2>2, <3>1, <3>2, <3>3
  <2> QED BY <2>1, <2>2 DEF ReturnsHold
<1>12. AnswersStand'
  <2>1. Cardinality(account.open \ Exits) + Cardinality(account.closed \cup NewlyClosed)
          = Cardinality(account.open) + Cardinality(account.closed)
    <3>1. account.open \cap Exits = Exits /\ account.closed \cap NewlyClosed = {}
      BY <1>3
    <3>2. Cardinality(account.open \ Exits) = Cardinality(account.open) - Cardinality(Exits)
      BY <1>1, <3>1, FS_Difference
    <3>3. Cardinality({}) = 0
      BY FS_EmptySet
    <3>4. Cardinality(account.closed \cup NewlyClosed) = Cardinality(account.closed) + Cardinality(NewlyClosed) - 0
      BY <1>1, <1>3, <3>1, <3>3, FS_Union
    <3>5. Cardinality(account.open) \in Nat /\ Cardinality(account.closed) \in Nat /\ Cardinality(Exits) \in Nat
      BY <1>1, <1>3, FS_CardinalityType
    <3> QED BY <1>3, <3>2, <3>4, <3>5
  <2>2. Cardinality(Executed') = Cardinality(account'.open) + Cardinality(account'.closed)
    BY <1>1, <1>2, <1>5, <2>1 DEF AnswersStand
  <2> QED BY <1>0, <1>1, <1>2, <1>9, <2>2 DEF AnswersStand
<1>13. OpenHold'
  <2>1. ASSUME NEW p \in account'.open, NEW d \in DOMAIN research.prices[p.target.ticker], Closable(p, d)
        PROVE  d > day.at
    <3>1. p \in account.open /\ p \notin Exits
      BY <1>2
    <3>2. d >= day.at
      BY <1>0, <1>1, <2>1, <3>1 DEF OpenHold
    <3>3. d # day.at
      <4>1. p.exitTarget \in Nat
        BY <1>1, <3>1 DEF Stake
      <4>2. d = day.at => day.at >= p.exitTarget /\ day.at - p.exitTarget <= MAX_DELAY
        <5>1. d - p.exitTarget \in 0 .. MAX_DELAY
          BY <2>1 DEF Closable
        <5>2. MAX_DELAY \in Nat
          BY KellyAssumption DEF KellyAssumption
        <5> QED BY <1>1, <4>1, <5>1, <5>2
      <4>3. d = day.at => p \in Exits
        BY <2>1, <3>1, <4>2 DEF Exits
      <4> QED BY <3>1, <4>3
    <3>4. d \in Nat
      <4>1. PICK prices \in [Sizable -> PricePath] : prices = research.prices
        BY <1>1 DEF Calendar
      <4>2. p.target.ticker \in Sizable
        BY <1>1, <3>1 DEF Stake, Target
      <4> QED BY <4>1, <4>2, PathsAre
    <3>5. PICK now \in Nat : now = day.at
      BY <1>1
    <3>6. d >= now /\ d # now
      BY <3>2, <3>3, <3>5
    <3>7. d > now
      BY <3>4, <3>6
    <3> QED BY <3>5, <3>7
  <2>2. \A p, d : Closable(p, d)' = Closable(p, d)
    BY <1>2 DEF Closable
  <2> QED BY <1>2, <2>1, <2>2 DEF OpenHold
<1>14. day'.step # "idle"
  BY <1>2
<1> QED BY <1>4, <1>6, <1>7, <1>10, <1>11, <1>12, <1>13, <1>14 DEF KellyInv

-----------------------------------------------------------------------------
(* The steps of the curve that leave the account alone, or only answer.    *)
LEMMA AccountStays ==
  ASSUME KellyInv, day.step # "idle", research' = research, account' = account
  PROVE  /\ ResearchTyped' /\ AccountTyped' /\ AccountBalances' /\ ReturnsHold' /\ Stakes' = Stakes
         /\ Executed' = Executed /\ (\A t : Answered(t)' = Answered(t))
         /\ \A p, d : Closable(p, d)' = Closable(p, d)
<1>1. ResearchTyped /\ AccountTyped /\ AccountBalances /\ ReturnsHold
  BY ActiveAccount
<1>2. Executed' = Executed /\ Stakes' = Stakes
  BY DEF Executed, Stakes
<1>3. (\A t : Answered(t)' = Answered(t)) /\ \A p, d : Closable(p, d)' = Closable(p, d)
  BY DEF Answered, Closable
<1>4. ResearchTyped'
  BY <1>1 DEF ResearchTyped
<1>5. AccountTyped'
  BY <1>1, <1>2 DEF AccountTyped
<1>6. AccountBalances' /\ ReturnsHold'
  BY <1>1 DEF AccountBalances, ReturnsHold
<1> QED BY <1>2, <1>3, <1>4, <1>5, <1>6

LEMMA RecordRowKeeps ==
  ASSUME KellyInv, RecordRow
  PROVE  KellyInv'
<1>0. /\ day.step = "enter" /\ Waiting = {} /\ research' = research /\ account' = account
      /\ day' = [day EXCEPT !.step = "next"]
  BY DEF RecordRow
<1>1. /\ DayTyped /\ StakesHold /\ AnswersStand /\ OpenHold /\ Calendar(research) /\ day.at \in Nat
  BY <1>0, ActiveAccount
<1>2. /\ ResearchTyped' /\ AccountTyped' /\ AccountBalances' /\ ReturnsHold' /\ Stakes' = Stakes
      /\ Executed' = Executed /\ (\A t : Answered(t)' = Answered(t))
      /\ \A p, d : Closable(p, d)' = Closable(p, d)
  BY <1>0, AccountStays
<1>3. day' = [at |-> day.at, step |-> "next"] /\ DayTyped' /\ day'.step = "next" /\ day'.at = day.at
  BY <1>0, <1>1 DEF DayTyped
<1>4. StakesHold'
  BY <1>0, <1>1, <1>2, <1>3 DEF StakesHold
<1>5. AnswersStand'
  <2>1. ASSUME NEW e \in research.schedule, e.on <= day.at PROVE Answered(e.target)
    <3>1. CASE e.on < day.at
      BY <1>0, <1>1, <3>1 DEF AnswersStand
    <3>2. CASE e.on = day.at
      BY <1>0, <3>2 DEF Waiting, Answered
    <3>3. e.on \in Nat
      BY <1>1 DEF Calendar, EntryIs
    <3> QED BY <1>1, <2>1, <3>1, <3>2, <3>3
  <2> QED BY <1>0, <1>1, <1>2, <1>3, <2>1 DEF AnswersStand
<1>6. OpenHold'
  BY <1>0, <1>1, <1>2, <1>3 DEF OpenHold
<1> QED BY <1>2, <1>3, <1>4, <1>5, <1>6 DEF KellyInv

(* What is still open on a day can be closed on dates of the curve only.   *)
LEMMA ClosableIsDated ==
  ASSUME KellyInv, day.step # "idle", NEW p \in account.open,
         NEW d \in DOMAIN research.prices[p.target.ticker], Closable(p, d)
  PROVE  d \in research.dates /\ d \in Nat
<1>1. /\ StakesHold /\ Calendar(research) /\ account.open \in SUBSET Stake
  BY ActiveAccount
<1>2. PICK prices \in [Sizable -> PricePath] : prices = research.prices
  BY <1>1 DEF Calendar
<1>3. p.target.ticker \in Sizable /\ p.entered \in Nat /\ p.exitTarget \in Nat
  BY <1>1 DEF Stake, Target
<1>4. d \in AllDates(prices) /\ d \in Nat
  BY <1>2, <1>3, PathsAre
<1>5. PICK e \in research.schedule : e = [target |-> p.target, on |-> p.entered]
  BY <1>1 DEF StakesHold, Stakes
<1>6. EntryIs(e, research) /\ p.exitTarget = SessionBy(p.entered + HORIZON_DAYS)
  BY <1>1 DEF Calendar, StakesHold, Stakes
<1>7. HORIZON_DAYS \in Nat /\ MAX_DELAY \in Nat
  BY KellyAssumption DEF KellyAssumption
<1>8. PICK last \in Nat : last = p.exitTarget /\ last <= p.entered + HORIZON_DAYS
  BY <1>3, <1>5, <1>6 DEF EntryIs
<1>9. PICK on \in Nat : on = p.entered
  BY <1>3
<1>10. d > on /\ d <= research.until /\ d - last \in 0 .. MAX_DELAY
  BY <1>8, <1>9 DEF Closable
<1>11. d <= on + HORIZON_DAYS + MAX_DELAY
  BY <1>4, <1>7, <1>8, <1>9, <1>10
<1>12. d \in research.dates
  BY <1>2, <1>4, <1>5, <1>6, <1>9, <1>10, <1>11 DEF EntryIs
<1> QED BY <1>4, <1>12

LEMMA NextDateKeeps ==
  ASSUME KellyInv, NextDate
  PROVE  KellyInv'
<1>0. /\ day.step = "next" /\ ~CurveEnded /\ research' = research /\ account' = account
      /\ day' = [at |-> Min(Remaining), step |-> "exit"]
  BY DEF NextDate
<1>1. /\ DayTyped /\ StakesHold /\ AnswersStand /\ OpenHold /\ Calendar(research) /\ day.at \in Nat
      /\ account.open \in SUBSET Stake /\ account.closed \in SUBSET Return
  BY <1>0, ActiveAccount
<1>2. /\ ResearchTyped' /\ AccountTyped' /\ AccountBalances' /\ ReturnsHold' /\ Stakes' = Stakes
      /\ Executed' = Executed /\ (\A t : Answered(t)' = Answered(t))
      /\ \A p, d : Closable(p, d)' = Closable(p, d)
  BY <1>0, AccountStays
<1>3. PICK next \in Nat : /\ next = Min(Remaining) /\ next > day.at /\ \A d \in research.dates : d > day.at => next <= d
  <2>1. PICK R \in SUBSET Nat : R = Remaining /\ R # {}
    <3>1. Remaining \in SUBSET Nat
      BY <1>1 DEF Calendar, Remaining
    <3> QED BY <1>0, <3>1 DEF CurveEnded
  <2>2. Min(R) \in R /\ \A d \in R : Min(R) <= d
    BY <2>1, LeastDay
  <2> QED BY <2>1, <2>2 DEF Remaining
<1>4. day' = [at |-> next, step |-> "exit"] /\ DayTyped' /\ day'.step = "exit" /\ day'.at = next
  BY <1>0, <1>3 DEF DayTyped
<1>5. StakesHold'
  <2>1. \A p \in Stakes : p.entered <= day.at => p.entered < next
    <3>1. \A p \in Stakes : p.entered \in Nat
      BY <1>1 DEF Stakes, Stake, Return
    <3> QED BY <1>1, <1>3, <3>1
  <2> QED BY <1>0, <1>1, <1>2, <1>4, <2>1 DEF StakesHold
<1>6. AnswersStand'
  <2>1. ASSUME NEW e \in research.schedule, e.on < next PROVE Answered(e.target)
    <3>1. EntryIs(e, research)
      BY <1>1 DEF Calendar
    <3>2. e.on \in Nat /\ e.on \in research.dates
      BY <3>1 DEF EntryIs
    <3>3. ~(e.on > day.at)
      BY <1>3, <2>1, <3>2
    <3>4. e.on <= day.at
      BY <1>1, <3>2, <3>3
    <3> QED BY <1>0, <1>1, <3>4 DEF AnswersStand
  <2> QED BY <1>0, <1>1, <1>2, <1>4, <2>1 DEF AnswersStand
<1>7. OpenHold'
  <2>1. ASSUME NEW p \in account.open, NEW d \in DOMAIN research.prices[p.target.ticker], Closable(p, d)
        PROVE  d >= next
    <3>1. d \in research.dates /\ d \in Nat
      BY <1>0, <2>1, ClosableIsDated
    <3>2. d > day.at
      BY <1>0, <1>1, <2>1 DEF OpenHold
    <3> QED BY <1>3, <3>1, <3>2
  <2> QED BY <1>0, <1>2, <1>4, <2>1 DEF OpenHold
<1> QED BY <1>2, <1>4, <1>5, <1>6, <1>7 DEF KellyInv

LEMMA FinishCurveKeeps ==
  ASSUME KellyInv, FinishCurve
  PROVE  KellyInv'
<1> DEFINE left == research.targets \ {e.target : e \in research.schedule}
           added == {<<t, "no_price">> : t \in left}
<1>0. /\ day.step = "next" /\ CurveEnded /\ research' = research /\ day' = [day EXCEPT !.step = "done"]
      /\ account' = [account EXCEPT !.answers = @ \cup added]
  BY DEF FinishCurve
<1>1. /\ ResearchTyped /\ DayTyped /\ AccountTyped /\ AccountBalances /\ StakesHold /\ ReturnsHold
      /\ AnswersStand /\ OpenHold /\ Calendar(research) /\ day.at \in Nat
      /\ account.open \in SUBSET Stake /\ account.closed \in SUBSET Return
      /\ account.answers \in SUBSET (research.targets \X AnswerTexts)
  BY <1>0, ActiveAccount
<1>2. day' = [at |-> day.at, step |-> "done"] /\ DayTyped' /\ day'.step = "done" /\ day'.at = day.at
  BY <1>0, <1>1 DEF DayTyped
<1>3. /\ account' = [cash |-> account.cash, open |-> account.open, closed |-> account.closed,
                     answers |-> account.answers \cup added]
      /\ account'.cash = account.cash /\ account'.open = account.open /\ account'.closed = account.closed
      /\ account'.answers = account.answers \cup added
  BY <1>0, <1>1 DEF AccountTyped
<1>4. added \in SUBSET (research.targets \X AnswerTexts)
  BY DEF AnswerTexts
<1>5. Executed' = Executed /\ Stakes' = Stakes
  BY <1>3 DEF Executed, Stakes
<1>6. ResearchTyped' /\ AccountTyped' /\ AccountBalances' /\ ReturnsHold'
  <2>1. ResearchTyped'
    BY <1>0, <1>1 DEF ResearchTyped
  <2>2. AccountTyped'
    BY <1>0, <1>1, <1>3, <1>4, <1>5 DEF AccountTyped
  <2>3. AccountBalances' /\ ReturnsHold'
    BY <1>1, <1>3 DEF AccountBalances, ReturnsHold
  <2> QED BY <2>1, <2>2, <2>3
<1>7. \A t : Answered(t) => Answered(t)'
  BY <1>3 DEF Answered
<1>8. StakesHold'
  BY <1>0, <1>1, <1>2, <1>3, <1>5, <1>7 DEF StakesHold
<1>9. \A e \in research.schedule : Answered(e.target)
  <2> SUFFICES ASSUME NEW e \in research.schedule PROVE Answered(e.target)
    OBVIOUS
  <2>1. EntryIs(e, research) /\ research.lastEntry \in Nat
    BY <1>1 DEF Calendar
  <2>2. e.on \in Nat /\ e.on \in research.dates /\ e.on <= research.lastEntry
    BY <2>1 DEF EntryIs
  <2>3. e.on <= day.at
    <3>1. CASE Remaining = {}
      <4>1. ~(e.on > day.at)
        BY <2>2, <3>1 DEF Remaining
      <4> QED BY <1>1, <2>2, <4>1
    <3>2. CASE day.at >= research.lastEntry
      BY <1>1, <2>1, <2>2, <3>2
    <3> QED BY <1>0, <3>1, <3>2 DEF CurveEnded
  <2> QED BY <1>0, <1>1, <2>3 DEF AnswersStand
<1>10. AnswersStand'
  <2>1. ASSUME NEW a \in account'.answers, NEW b \in account'.answers, a[1] = b[1] PROVE a = b
    <3>1. \A x \in account.answers : \E e \in research.schedule : e.target = x[1]
      BY <1>0, <1>1 DEF AnswersStand
    <3>2. \A x \in added : x[1] \in left /\ x = <<x[1], "no_price">>
      OBVIOUS
    <3>3. \A x \in account.answers : x[1] \notin left
      BY <3>1
    <3>4. CASE a \in account.answers /\ b \in account.answers
      BY <1>1, <2>1, <3>4 DEF AnswersStand
    <3>5. CASE a \in added /\ b \in added
      BY <2>1, <3>2, <3>5
    <3> HIDE DEF left, added
    <3> QED BY <1>3, <2>1, <3>2, <3>3, <3>4, <3>5
  <2>2. Cardinality(Executed') = Cardinality(account'.open) + Cardinality(account'.closed)
    BY <1>1, <1>3, <1>5 DEF AnswersStand
  <2>3. {a[1] : a \in account'.answers} = research'.targets
    <3>1. \A a \in account'.answers : a[1] \in research.targets
      BY <1>1, <1>3, <1>4
    <3>2. ASSUME NEW t \in research.targets PROVE \E a \in account'.answers : a[1] = t
      <4>1. CASE t \in left
        <5>1. <<t, "no_price">> \in account'.answers
          BY <1>3, <4>1
        <5> QED BY <5>1
      <4>2. CASE t \notin left
        <5>1. PICK e \in research.schedule : e.target = t
          BY <4>2
        <5>2. Answered(t)
          BY <1>9, <5>1
        <5> QED BY <1>3, <5>2 DEF Answered
      <4> QED BY <4>1, <4>2
    <3> QED BY <1>0, <3>1, <3>2
  <2>4. \A e \in research'.schedule : Answered(e.target)'
    BY <1>0, <1>7, <1>9
  <2> QED BY <1>2, <2>1, <2>2, <2>3, <2>4 DEF AnswersStand
<1>11. OpenHold'
  <2>1. ASSUME NEW p \in account.open, NEW d \in DOMAIN research.prices[p.target.ticker], Closable(p, d)
        PROVE  FALSE
    <3>1. d \in research.dates /\ d \in Nat
      BY <1>0, <2>1, ClosableIsDated
    <3>2. d > day.at
      BY <1>0, <1>1, <2>1 DEF OpenHold
    <3>3. d \in Remaining
      BY <3>1, <3>2 DEF Remaining
    <3> QED BY <1>0, <3>3 DEF CurveEnded
  <2>2. \A p, d : Closable(p, d)' = Closable(p, d)
    BY <1>0 DEF Closable
  <2> QED BY <1>0, <1>3, <2>1, <2>2 DEF OpenHold
<1> QED BY <1>2, <1>6, <1>8, <1>10, <1>11 DEF KellyInv

-----------------------------------------------------------------------------
(* A target is filled or skipped.                                          *)
LEMMA AnswerIs ==
  \A t : /\ Answer(t) \in AnswerTexts
         /\ Answer(t) = "executed" =>
              /\ \A p \in account.open : p.target.ticker # t.ticker
              /\ Valued /\ ~(Requested(t) <= 0) /\ ~(Requested(t) > account.cash)
BY DEF Answer, AnswerTexts

LEMMA MarketValueIs ==
  ASSUME KellyInv, day.step # "idle", Valued
  PROVE  MarketValue \in Nat
<1>1. account.open \in SUBSET Stake /\ IsFiniteSet(account.open) /\ day.at \in Nat /\ Calendar(research)
  BY ActiveAccount
<1> DEFINE f == [p \in account.open |-> Value(p, PriceAt(p.target.ticker, Max(Observed(p))))]
<1>2. ASSUME NEW p \in account.open PROVE f[p] \in Nat
  <2>1. PICK prices \in [Sizable -> PricePath] : prices = research.prices
    BY <1>1 DEF Calendar
  <2>2. p.target.ticker \in Sizable /\ p \in Stake
    BY <1>1 DEF Stake, Target
  <2>3. /\ DOMAIN prices[p.target.ticker] \subseteq Nat
        /\ \A d \in DOMAIN prices[p.target.ticker] : prices[p.target.ticker][d] \in Nat
    BY <2>2, PathsAre
  <2>4. PICK S \in SUBSET (0 .. day.at) : S = Observed(p)
    <3>1. \A d \in DOMAIN prices[p.target.ticker] : d <= day.at => d \in 0 .. day.at
      BY <1>1, <2>3
    <3>2. Observed(p) \in SUBSET (0 .. day.at)
      BY <2>1, <3>1 DEF Observed
    <3> QED BY <3>2
  <2>5. S # {}
    BY <2>4 DEF Valued, FreshMark
  <2>6. Max(S) \in S
    BY <1>1, <2>5, GreatestDay
  <2>7. PICK last \in DOMAIN prices[p.target.ticker] : last = Max(Observed(p))
    BY <2>1, <2>4, <2>6 DEF Observed
  <2>8. PICK q \in Nat : q = PriceAt(p.target.ticker, Max(Observed(p)))
    BY <2>1, <2>3, <2>7 DEF PriceAt
  <2> QED BY <2>2, <2>8, ValueIs
<1>3. f \in [account.open -> Nat]
  BY <1>2
<1>4. MarketValue = SumFunction(f)
  BY DEF MarketValue
<1> HIDE DEF f
<1> QED BY <1>1, <1>3, <1>4, SumIsNat

LEMMA RequestedIs ==
  ASSUME KellyInv, day.step # "idle", Valued, NEW t \in Target
  PROVE  Requested(t) \in Nat
<1>1. PICK c \in Nat : c = account.cash
  BY ActiveAccount
<1>2. PICK m \in Nat : m = MarketValue
  BY MarketValueIs
<1>3. PICK w \in Nat : w = t.weight
  BY DEF Target
<1>4. PICK x \in Nat : x = c + m
  OBVIOUS
<1>5. PICK y \in Nat : y = x * w
  BY ProductIsNat
<1>6. ThousandUnits \in Nat \ {0}
  BY KellyAssumption DEF KellyAssumption
<1>7. y \div ThousandUnits \in Nat
  BY <1>6, QuotientFits
<1> QED BY <1>1, <1>2, <1>3, <1>4, <1>5, <1>7 DEF Requested

LEMMA WaitingIs ==
  ASSUME KellyInv, day.step = "enter", NEW t \in Waiting
  PROVE  /\ [target |-> t, on |-> day.at] \in research.schedule /\ t \in research.targets /\ t \in Target
         /\ ~Answered(t) /\ PriceAt(t.ticker, day.at) \in Nat \ {0}
         /\ SessionBy(day.at + HORIZON_DAYS) \in Nat
<1>1. PICK e \in research.schedule : e.on = day.at /\ e.target = t /\ \A a \in account.answers : a[1] # t
  BY DEF Waiting
<1>2. Calendar(research)
  BY ActiveAccount
<1>3. EntryIs(e, research) /\ research.targets \in SUBSET Target
  BY <1>2 DEF Calendar
<1>4. t \in research.targets /\ t \in Target /\ e = [target |-> t, on |-> day.at]
      /\ research.prices[t.ticker][day.at] \in Nat \ {0} /\ SessionBy(day.at + HORIZON_DAYS) \in Nat
  BY <1>1, <1>3 DEF EntryIs
<1> QED BY <1>1, <1>4 DEF PriceAt, Answered

(* The answer is given once, and only then.                                *)
AnswersWith(given, t) ==
  /\ given \in SUBSET (research.targets \X AnswerTexts)
  /\ \A a, b \in given : a[1] = b[1] => a = b
  /\ \A a \in given : \E e \in research.schedule : e.target = a[1]
  /\ \A e \in research.schedule : e.on < day.at => \E a \in given : a[1] = e.target
  /\ \A u : Answered(u) => \E a \in given : a[1] = u
  /\ \E a \in given : a[1] = t

LEMMA AnswerStands ==
  ASSUME KellyInv, day.step = "enter", NEW t \in Waiting, NEW text \in AnswerTexts, NEW given,
         given = account.answers \cup {<<t, text>>}
  PROVE  AnswersWith(given, t)
<1>1. AnswersStand /\ account.answers \in SUBSET (research.targets \X AnswerTexts)
  BY ActiveAccount
<1>2. /\ [target |-> t, on |-> day.at] \in research.schedule /\ t \in research.targets /\ ~Answered(t)
  BY WaitingIs
<1>3. given \in SUBSET (research.targets \X AnswerTexts)
  BY <1>1, <1>2
<1>4. \A a, b \in given : a[1] = b[1] => a = b
  <2>1. \A a, b \in account.answers : a[1] = b[1] => a = b
    BY <1>1 DEF AnswersStand
  <2>2. \A a \in account.answers : a[1] # t
    BY <1>2 DEF Answered
  <2>3. <<t, text>>[1] = t
    OBVIOUS
  <2> QED BY <2>1, <2>2, <2>3
<1>5. \A a \in given : \E e \in research.schedule : e.target = a[1]
  <2>1. \A a \in account.answers : \E e \in research.schedule : e.target = a[1]
    BY <1>1 DEF AnswersStand
  <2>2. \E e \in research.schedule : e.target = <<t, text>>[1]
    BY <1>2
  <2> QED BY <2>1, <2>2
<1>6. \A u : Answered(u) => \E a \in given : a[1] = u
  BY DEF Answered
<1>7. \A e \in research.schedule : e.on < day.at => Answered(e.target)
  BY <1>1 DEF AnswersStand
<1>8. \E a \in given : a[1] = t
  <2>1. <<t, text>> \in given /\ <<t, text>>[1] = t
    OBVIOUS
  <2> QED BY <2>1
<1> QED BY <1>3, <1>4, <1>5, <1>6, <1>7, <1>8 DEF AnswersWith

LEMMA SkipKeeps ==
  ASSUME KellyInv, NEW t \in Waiting, FillTarget(t), Answer(t) # "executed"
  PROVE  KellyInv'
<1>0. /\ day.step = "enter" /\ research' = research /\ day' = day
      /\ account' = [account EXCEPT !.answers = @ \cup {<<t, Answer(t)>>}]
  BY DEF FillTarget
<1>1. /\ ResearchTyped /\ DayTyped /\ AccountTyped /\ AccountBalances /\ StakesHold /\ ReturnsHold
      /\ AnswersStand /\ OpenHold
  BY <1>0, ActiveAccount
<1>2. PICK given : given = account.answers \cup {<<t, Answer(t)>>}
  OBVIOUS
<1>3. /\ account' = [cash |-> account.cash, open |-> account.open, closed |-> account.closed, answers |-> given]
      /\ account'.cash = account.cash /\ account'.open = account.open /\ account'.closed = account.closed
      /\ account'.answers = given
  BY <1>0, <1>1, <1>2 DEF AccountTyped
<1>4. /\ given \in SUBSET (research.targets \X AnswerTexts)
      /\ \A a, b \in given : a[1] = b[1] => a = b
      /\ \A a \in given : \E e \in research.schedule : e.target = a[1]
      /\ \A e \in research.schedule : e.on < day.at => \E a \in given : a[1] = e.target
      /\ \A u : Answered(u) => \E a \in given : a[1] = u
  <2>1. PICK text \in AnswerTexts : text = Answer(t)
    BY AnswerIs
  <2>2. AnswersWith(given, t)
    BY <1>0, <1>2, <2>1, AnswerStands
  <2> QED BY <2>2 DEF AnswersWith
<1>5. Executed' = Executed
  <2>1. <<t, Answer(t)>>[2] # "executed"
    OBVIOUS
  <2> QED BY <1>2, <1>3, <2>1 DEF Executed
<1>6. Stakes' = Stakes /\ \A u : Answered(u) => Answered(u)'
  BY <1>3, <1>4 DEF Stakes, Answered
<1>7. ResearchTyped' /\ DayTyped' /\ AccountTyped' /\ AccountBalances' /\ ReturnsHold'
  <2>1. ResearchTyped' /\ DayTyped'
    BY <1>0, <1>1 DEF ResearchTyped, DayTyped
  <2>2. AccountTyped'
    BY <1>0, <1>1, <1>3, <1>4, <1>5 DEF AccountTyped
  <2>3. AccountBalances' /\ ReturnsHold'
    BY <1>1, <1>3 DEF AccountBalances, ReturnsHold
  <2> QED BY <2>1, <2>2, <2>3
<1>8. StakesHold'
  BY <1>0, <1>1, <1>3, <1>6 DEF StakesHold
<1>9. AnswersStand'
  <2>1. Cardinality(Executed') = Cardinality(account'.open) + Cardinality(account'.closed)
    BY <1>1, <1>3, <1>5 DEF AnswersStand
  <2> QED BY <1>0, <1>3, <1>4, <2>1 DEF AnswersStand, Answered
<1>10. OpenHold'
  <2>1. \A p, d : Closable(p, d)' = Closable(p, d)
    BY <1>0 DEF Closable
  <2> QED BY <1>0, <1>1, <1>3, <2>1 DEF OpenHold
<1> QED BY <1>0, <1>7, <1>8, <1>9, <1>10 DEF KellyInv

LEMMA BuyKeeps ==
  ASSUME KellyInv, NEW t \in Waiting, FillTarget(t), Answer(t) = "executed"
  PROVE  KellyInv'
<1>0. /\ day.step = "enter" /\ research' = research /\ day' = day
      /\ account' = [account EXCEPT !.cash = @ - Requested(t), !.open = @ \cup {Bought(t)},
                                    !.answers = @ \cup {<<t, "executed">>}]
  BY DEF FillTarget
<1>1. /\ ResearchTyped /\ DayTyped /\ AccountTyped /\ AccountBalances /\ StakesHold /\ ReturnsHold
      /\ AnswersStand /\ OpenHold
      /\ day.at \in Nat
      /\ account.cash \in Nat /\ account.open \in SUBSET Stake /\ account.closed \in SUBSET Return
      /\ IsFiniteSet(account.open) /\ IsFiniteSet(account.closed) /\ IsFiniteSet(Executed)
      /\ CostOf(account.open) \in Nat /\ Gains(account.closed) \in Int
      /\ account.cash + CostOf(account.open) = Bank + Gains(account.closed) /\ Bank \in Nat
  BY <1>0, ActiveAccount
<1>2. PICK given : given = account.answers \cup {<<t, "executed">>}
  OBVIOUS
<1>3. PICK b : b = Bought(t)
  OBVIOUS
<1>4. /\ [target |-> t, on |-> day.at] \in research.schedule /\ t \in research.targets /\ t \in Target
      /\ ~Answered(t) /\ PriceAt(t.ticker, day.at) \in Nat \ {0}
      /\ SessionBy(day.at + HORIZON_DAYS) \in Nat
  BY <1>0, WaitingIs
<1>5. PICK n \in Nat : n = Requested(t) /\ n > 0 /\ n <= account.cash
  <2>1. Valued /\ ~(Requested(t) <= 0) /\ ~(Requested(t) > account.cash)
    BY AnswerIs
  <2>2. PICK n \in Nat : n = Requested(t)
    BY <1>0, <1>4, <2>1, RequestedIs
  <2>3. n > 0 /\ n <= account.cash
    BY <1>1, <2>1, <2>2
  <2> QED BY <2>2, <2>3
<1>6. /\ b \in Stake /\ b.target = t /\ b.entered = day.at /\ b.cost = n
      /\ b.exitTarget = SessionBy(day.at + HORIZON_DAYS)
  <2>1. b = [target |-> t, entered |-> day.at, price |-> PriceAt(t.ticker, day.at), cost |-> n,
             exitTarget |-> SessionBy(day.at + HORIZON_DAYS)]
    BY <1>3, <1>5 DEF Bought
  <2>2. n \in Nat \ {0}
    BY <1>5
  <2> QED BY <1>1, <1>4, <2>1, <2>2 DEF Stake
<1>7. /\ account' = [cash |-> account.cash - n, open |-> account.open \cup {b}, closed |-> account.closed,
                     answers |-> given]
      /\ account'.cash = account.cash - n /\ account'.open = account.open \cup {b}
      /\ account'.closed = account.closed /\ account'.answers = given
  BY <1>0, <1>1, <1>2, <1>3, <1>5 DEF AccountTyped
<1>8. /\ given \in SUBSET (research.targets \X AnswerTexts)
      /\ \A a, c \in given : a[1] = c[1] => a = c
      /\ \A a \in given : \E e \in research.schedule : e.target = a[1]
      /\ \A e \in research.schedule : e.on < day.at => \E a \in given : a[1] = e.target
      /\ (\A u : Answered(u) => \E a \in given : a[1] = u)
      /\ \E a \in given : a[1] = t
  <2>1. "executed" \in AnswerTexts
    BY DEF AnswerTexts
  <2>2. AnswersWith(given, t)
    BY <1>0, <1>2, <2>1, AnswerStands
  <2> QED BY <2>2 DEF AnswersWith
<1>9. \A p \in Stakes : p.target # t
  BY <1>1, <1>4 DEF StakesHold
<1>10. b \notin Stakes /\ b \notin account.open
  BY <1>6, <1>9 DEF Stakes
<1>11. Stakes' = Stakes \cup {b}
  BY <1>7 DEF Stakes
<1>12. Executed' = Executed \cup {<<t, "executed">>} /\ <<t, "executed">> \notin Executed
  <2>1. <<t, "executed">>[2] = "executed" /\ <<t, "executed">>[1] = t
    OBVIOUS
  <2>2. <<t, "executed">> \notin account.answers
    BY <1>4, <2>1 DEF Answered
  <2> QED BY <1>2, <1>7, <2>1, <2>2 DEF Executed
<1>13. ResearchTyped' /\ DayTyped'
  BY <1>0, <1>1 DEF ResearchTyped, DayTyped
<1>14. AccountTyped'
  <2>1. IsFiniteSet(account.open \cup {b}) /\ IsFiniteSet(Executed \cup {<<t, "executed">>})
    BY <1>1, FS_AddElement
  <2>2. account.cash - n \in Nat
    BY <1>1, <1>5
  <2>3. account.open \cup {b} \in SUBSET Stake
    BY <1>1, <1>6
  <2> QED BY <1>0, <1>1, <1>7, <1>8, <1>12, <2>1, <2>2, <2>3 DEF AccountTyped
<1>15. AccountBalances'
  <2>1. CostOf(account.open \cup {b}) = CostOf(account.open) + n
    <3>1. PICK P : P = account.open \cup {b}
      OBVIOUS
    <3>2. P \in SUBSET Stake /\ IsFiniteSet(P) /\ {b} \in SUBSET P /\ P \ {b} = account.open
      BY <1>1, <1>6, <1>10, <3>1, FS_AddElement
    <3>3. CostOf(P) = CostOf(P \ {b}) + CostOf({b})
      BY <3>2, CostsAdd
    <3>4. CostOf({b}) = n
      <4> DEFINE f == [p \in {b} |-> p.cost]
      <4>1. f \in [{b} -> Int] /\ f[b] = n
        BY <1>6
      <4>2. CostOf({b}) = SumFunction(f)
        BY DEF CostOf
      <4> HIDE DEF f
      <4> QED BY <4>1, <4>2, SumOfOne
    <3> QED BY <3>1, <3>2, <3>3, <3>4
  <2>2. (account.cash - n) + CostOf(account.open \cup {b}) = Bank + Gains(account.closed)
    BY <1>1, <2>1
  <2>3. account'.cash + CostOf(account'.open) = Bank + Gains(account'.closed)
    BY <1>7, <2>2
  <2>4. account'.cash >= 0
    BY <1>1, <1>5, <1>7
  <2> QED BY <2>3, <2>4 DEF AccountBalances, Gains
<1>16. \A u : Answered(u) => Answered(u)'
  BY <1>7, <1>8 DEF Answered
<1>17. StakesHold'
  <2>1. ASSUME NEW p \in Stakes'
        PROVE  /\ [target |-> p.target, on |-> p.entered] \in research.schedule
               /\ p.exitTarget = SessionBy(p.entered + HORIZON_DAYS)
               /\ p.entered <= day.at /\ Answered(p.target)'
    <3>1. CASE p \in Stakes
      BY <1>0, <1>1, <1>16, <3>1 DEF StakesHold
    <3>2. CASE p = b
      <4>1. Answered(t)'
        BY <1>7, <1>8 DEF Answered
      <4>2. day.at <= day.at
        BY <1>1
      <4> QED BY <1>4, <1>6, <3>2, <4>1, <4>2
    <3> QED BY <1>11, <3>1, <3>2
  <2>2. ASSUME NEW p \in Stakes', NEW q \in Stakes', p.target = q.target PROVE p = q
    <3>1. \A x, y \in Stakes : x.target = y.target => x = y
      BY <1>1 DEF StakesHold
    <3> QED BY <1>6, <1>9, <1>11, <2>2, <3>1
  <2>3. ASSUME NEW p \in account'.open, NEW q \in account'.open, p.target.ticker = q.target.ticker PROVE p = q
    <3>1. \A x, y \in account.open : x.target.ticker = y.target.ticker => x = y
      BY <1>1 DEF StakesHold
    <3>2. \A x \in account.open : x.target.ticker # t.ticker
      BY AnswerIs
    <3> QED BY <1>6, <1>7, <2>3, <3>1, <3>2
  <2> QED BY <1>0, <2>1, <2>2, <2>3 DEF StakesHold
<1>18. ReturnsHold'
  <2>1. \A c \in account.closed : c.position # b
    BY <1>10 DEF Stakes
  <2> QED BY <1>1, <1>7, <2>1 DEF ReturnsHold
<1>19. AnswersStand'
  <2>1. Cardinality(Executed') = Cardinality(Executed) + 1
    BY <1>1, <1>12, FS_AddElement
  <2>2. Cardinality(account'.open) = Cardinality(account.open) + 1
    BY <1>1, <1>7, <1>10, FS_AddElement
  <2>3. /\ Cardinality(Executed) \in Nat /\ Cardinality(account.open) \in Nat /\ Cardinality(account.closed) \in Nat
    BY <1>1, FS_CardinalityType
  <2>4. Cardinality(Executed) = Cardinality(account.open) + Cardinality(account.closed)
    BY <1>1 DEF AnswersStand
  <2>5. Cardinality(Executed') = Cardinality(account'.open) + Cardinality(account'.closed)
    BY <1>7, <2>1, <2>2, <2>3, <2>4
  <2> QED BY <1>0, <1>7, <1>8, <2>5 DEF AnswersStand, Answered
<1>20. OpenHold'
  <2>1. \A p, d : Closable(p, d)' = Closable(p, d)
    BY <1>0 DEF Closable
  <2>2. \A d : Closable(b, d) => d > day.at
    BY <1>6 DEF Closable
  <2>3. \A p \in account.open : \A d \in DOMAIN research.prices[p.target.ticker] : Closable(p, d) => d > day.at
    BY <1>0, <1>1 DEF OpenHold
  <2> QED BY <1>0, <1>7, <2>1, <2>2, <2>3 DEF OpenHold
<1> QED BY <1>0, <1>13, <1>14, <1>15, <1>17, <1>18, <1>19, <1>20 DEF KellyInv

-----------------------------------------------------------------------------
LEMMA KellySteps == KellyInv /\ [KellyNext]_kellyVars => KellyInv'
<1> SUFFICES ASSUME KellyInv, [KellyNext]_kellyVars PROVE KellyInv'
  OBVIOUS
<1>1. CASE \E plan \in SizingPlan, prices \in [Sizable -> PricePath] : Simulate(plan, prices)
  BY <1>1, SimulateKeeps
<1>2. CASE NextDate
  BY <1>2, NextDateKeeps
<1>3. CASE ExitDue
  BY <1>3, ExitDueKeeps
<1>4. CASE RecordRow
  BY <1>4, RecordRowKeeps
<1>5. CASE FinishCurve
  BY <1>5, FinishCurveKeeps
<1>6. CASE SimulateUntil
  BY <1>6, SimulateUntilKeeps
<1>7. CASE Forget
  <2>1. day'.step = "idle" /\ account' = NewAccount
    BY <1>7 DEF Forget
  <2> QED BY <2>1 DEF KellyInv, NewAccount
<1>8. CASE day.step = "enter" /\ \E t \in Waiting : FillTarget(t)
  <2>1. PICK t \in Waiting : FillTarget(t)
    BY <1>8
  <2>2. CASE Answer(t) = "executed"
    BY <2>1, <2>2, BuyKeeps
  <2>3. CASE Answer(t) # "executed"
    BY <2>1, <2>3, SkipKeeps
  <2> QED BY <2>2, <2>3
<1>9. CASE UNCHANGED kellyVars
  <2>1. research' = research /\ day' = day /\ account' = account
    BY <1>9 DEF kellyVars
  <2>2. CASE day.step = "idle"
    BY <2>1, <2>2 DEF KellyInv, NewAccount
  <2>3. CASE day.step # "idle"
    <3>1. /\ ResearchTyped' /\ AccountTyped' /\ AccountBalances' /\ ReturnsHold' /\ Stakes' = Stakes
          /\ Executed' = Executed /\ (\A t : Answered(t)' = Answered(t))
          /\ \A p, d : Closable(p, d)' = Closable(p, d)
      BY <2>1, <2>3, AccountStays
    <3>2. DayTyped /\ StakesHold /\ AnswersStand /\ OpenHold
      BY <2>3, ActiveAccount
    <3>3. DayTyped' /\ StakesHold'
      BY <2>1, <3>1, <3>2 DEF DayTyped, StakesHold
    <3>4. AnswersStand' /\ OpenHold'
      BY <2>1, <3>1, <3>2 DEF AnswersStand, OpenHold
    <3> QED BY <2>1, <2>3, <3>1, <3>3, <3>4 DEF KellyInv
  <2> QED BY <2>2, <2>3
<1> QED BY <1>1, <1>2, <1>3, <1>4, <1>5, <1>6, <1>7, <1>8, <1>9 DEF KellyNext

LEMMA InvKeepsTargets == KellyInv => TargetsAreKept
<1> SUFFICES ASSUME KellyInv, day.step # "idle"
             PROVE  AccountBalances /\ CapsHold /\ TargetsAreAnswered /\ WaitsAreBounded
  BY DEF TargetsAreKept
<1>1. /\ DayTyped /\ AccountBalances /\ StakesHold /\ ReturnsHold /\ AnswersStand /\ OpenHold
      /\ Calendar(research) /\ day.at \in Nat
      /\ account.open \in SUBSET Stake /\ account.closed \in SUBSET Return
  BY ActiveAccount
<1>2. CapsHold
  <2>1. Capped(research.plan, research.targets)
    BY <1>1 DEF Calendar
  <2> QED BY <2>1 DEF CapsHold, Capped
<1>3. TargetsAreAnswered
  BY <1>1 DEF TargetsAreAnswered, AnswersStand, StakesHold, Executed
<1>4. WaitsAreBounded
  <2>1. ASSUME NEW p \in Stakes
        PROVE  p.entered - p.target.day \in 1 .. MAX_DELAY /\ p.exitTarget - p.entered <= HORIZON_DAYS
    <3>1. PICK e \in research.schedule : e = [target |-> p.target, on |-> p.entered]
      BY <1>1 DEF StakesHold
    <3>2. EntryIs(e, research) /\ p.exitTarget = SessionBy(p.entered + HORIZON_DAYS)
      BY <1>1 DEF Calendar, StakesHold
    <3>3. p.entered - p.target.day \in 1 .. MAX_DELAY
      BY <3>1, <3>2 DEF EntryIs
    <3>4. PICK on \in Nat : on = p.entered
      BY <3>1, <3>2 DEF EntryIs
    <3>5. PICK last \in Nat : last = p.exitTarget /\ last <= on + HORIZON_DAYS
      BY <3>1, <3>2, <3>4 DEF EntryIs
    <3>6. HORIZON_DAYS \in Nat
      BY KellyAssumption DEF KellyAssumption
    <3>7. last - on <= HORIZON_DAYS
      BY <3>5, <3>6
    <3> QED BY <3>3, <3>4, <3>5, <3>7
  <2>2. \A c \in account.closed : c.on - c.position.exitTarget \in 0 .. MAX_DELAY
    BY <1>1 DEF ReturnsHold
  <2>3. ASSUME day.step = "done", NEW p \in account.open, NEW d \in DOMAIN research.prices[p.target.ticker],
               d \in p.entered + 1 .. research.until, d - p.exitTarget \in 0 .. MAX_DELAY
        PROVE  FALSE
    <3>1. PICK on \in Nat : on = p.entered
      BY <1>1 DEF Stake
    <3>2. PICK most \in Nat : most = research.until
      BY <1>1 DEF Calendar
    <3>3. d > on /\ d <= most
      BY <2>3, <3>1, <3>2
    <3>4. Closable(p, d)
      BY <2>3, <3>1, <3>2, <3>3 DEF Closable
    <3> QED BY <1>1, <2>3, <3>4 DEF OpenHold
  <2> QED BY <2>1, <2>2, <2>3 DEF WaitsAreBounded, Stakes
<1> QED BY <1>1, <1>2, <1>3, <1>4

-----------------------------------------------------------------------------
(* No later price.  A point is all that the rest of a simulation depends   *)
(* on, besides what it was prepared with.                                  *)
Point(d, a, c) == [at |-> d.at, step |-> d.step, account |-> a, rows |-> c]
Here == Point(day, account, rows)
Outset == Point([at |-> 0, step |-> "next"], NewAccount, {})

ExitsOn(prices, m) ==
  {p \in m.account.open : /\ m.at >= p.exitTarget /\ m.at - p.exitTarget <= MAX_DELAY
                          /\ m.at \in DOMAIN prices[p.target.ticker]}
ClosedOn(prices, m, p) ==
  [position |-> p, on |-> m.at, proceeds |-> Value(p, prices[p.target.ticker][m.at])]
AfterExits(prices, m) ==
  [at |-> m.at, step |-> "enter", rows |-> m.rows,
   account |-> [m.account EXCEPT !.cash = @ + SumFunction([p \in ExitsOn(prices, m) |-> ClosedOn(prices, m, p).proceeds]),
                                 !.open = @ \ ExitsOn(prices, m),
                                 !.closed = @ \cup {ClosedOn(prices, m, p) : p \in ExitsOn(prices, m)}]]

SeenOf(prices, m, p) == {d \in DOMAIN prices[p.target.ticker] : d <= m.at}
ValuedAt(prices, m) ==
  \A p \in m.account.open : SeenOf(prices, m, p) # {} /\ m.at - Max(SeenOf(prices, m, p)) <= MAX_STALENESS
WorthAt(prices, m) ==
  SumFunction([p \in m.account.open |-> Value(p, prices[p.target.ticker][Max(SeenOf(prices, m, p))])])
RequestAt(prices, m, t) == ((m.account.cash + WorthAt(prices, m)) * t.weight) \div ThousandUnits
AnswerAt(prices, m, t) ==
  CASE \E p \in m.account.open : p.target.ticker = t.ticker                      -> "already_open"
    [] ~ValuedAt(prices, m)                                                      -> "no_valuation"
    [] RequestAt(prices, m, t) <= 0 \/ RequestAt(prices, m, t) > m.account.cash  -> "no_cash"
    [] OTHER                                                                     -> "executed"
BoughtAt(prices, m, t) ==
  [target |-> t, entered |-> m.at, price |-> prices[t.ticker][m.at], cost |-> RequestAt(prices, m, t),
   exitTarget |-> SessionBy(m.at + HORIZON_DAYS)]
AfterFill(prices, m, t) ==
  [at |-> m.at, step |-> "enter", rows |-> m.rows,
   account |-> IF AnswerAt(prices, m, t) = "executed"
               THEN [m.account EXCEPT !.cash = @ - RequestAt(prices, m, t), !.open = @ \cup {BoughtAt(prices, m, t)},
                                      !.answers = @ \cup {<<t, "executed">>}]
               ELSE [m.account EXCEPT !.answers = @ \cup {<<t, AnswerAt(prices, m, t)>>}]]

WaitingAt(r, m) ==
  {e.target : e \in {f \in r.schedule : f.on = m.at /\ \A a \in m.account.answers : a[1] # f.target}}
AfterRow(prices, m) ==
  [at |-> m.at, step |-> "next", account |-> m.account,
   rows |-> m.rows \cup {[on |-> m.at, cash |-> m.account.cash, open |-> m.account.open,
                          complete |-> ValuedAt(prices, m),
                          equity |-> IF ValuedAt(prices, m) THEN m.account.cash + WorthAt(prices, m) ELSE -1]}]
RemainingAt(r, m) == {d \in r.dates : d > m.at}
EndedAt(r, m) == RemainingAt(r, m) = {} \/ (m.rows # {} /\ m.at >= r.lastEntry /\ m.account.open = {})
AfterNext(r, m) == [at |-> Min(RemainingAt(r, m)), step |-> "exit", account |-> m.account, rows |-> m.rows]

IsFirst(r, m, t) == t \in WaitingAt(r, m) /\ \A u \in WaitingAt(r, m) \ {t} : ~First(u, t)
Reaches(r, m, w) ==
  \/ m.step = "next" /\ ~EndedAt(r, m) /\ w = AfterNext(r, m)
  \/ m.step = "exit" /\ w = AfterExits(r.prices, m)
  \/ m.step = "enter" /\ \E t : IsFirst(r, m, t) /\ w = AfterFill(r.prices, m, t)
  \/ m.step = "enter" /\ WaitingAt(r, m) = {} /\ w = AfterRow(r.prices, m)

LEMMA HereIs ==
  /\ Here = [at |-> day.at, step |-> day.step, account |-> account, rows |-> rows]
  /\ Here.at = day.at /\ Here.step = day.step /\ Here.account = account /\ Here.rows = rows
  /\ Here' = [at |-> day'.at, step |-> day'.step, account |-> account', rows |-> rows']
  /\ Here'.at = day'.at /\ Here'.step = day'.step /\ Here'.account = account' /\ Here'.rows = rows'
BY DEF Here, Point

LEMMA ValuesHere ==
  /\ Waiting = WaitingAt(research, Here) /\ Remaining = RemainingAt(research, Here)
  /\ CurveEnded <=> EndedAt(research, Here)
  /\ Exits = ExitsOn(research.prices, Here)
  /\ \A p : ClosedNow(p) = ClosedOn(research.prices, Here, p)
  /\ Valued <=> ValuedAt(research.prices, Here)
  /\ MarketValue = WorthAt(research.prices, Here)
  /\ \A t : /\ Requested(t) = RequestAt(research.prices, Here, t)
            /\ Answer(t) = AnswerAt(research.prices, Here, t)
            /\ Bought(t) = BoughtAt(research.prices, Here, t)
<1>1. Waiting = WaitingAt(research, Here) /\ Remaining = RemainingAt(research, Here)
  BY HereIs DEF Waiting, WaitingAt, Remaining, RemainingAt
<1>2. CurveEnded <=> EndedAt(research, Here)
  BY <1>1, HereIs DEF CurveEnded, EndedAt
<1>3. Exits = ExitsOn(research.prices, Here)
  BY HereIs DEF Exits, ExitsOn
<1>4. \A p : ClosedNow(p) = ClosedOn(research.prices, Here, p)
  BY HereIs DEF ClosedNow, ClosedOn, PriceAt
<1>5. \A p : Observed(p) = SeenOf(research.prices, Here, p)
  BY HereIs DEF Observed, SeenOf
<1>6. Valued <=> ValuedAt(research.prices, Here)
  BY <1>5, HereIs DEF Valued, ValuedAt, FreshMark
<1>7. MarketValue = WorthAt(research.prices, Here)
  BY <1>5, HereIs DEF MarketValue, WorthAt, PriceAt
<1>8. \A t : Requested(t) = RequestAt(research.prices, Here, t)
  BY <1>7, HereIs DEF Requested, RequestAt
<1>9. \A t : Answer(t) = AnswerAt(research.prices, Here, t)
  BY <1>6, <1>8, HereIs DEF Answer, AnswerAt
<1>10. \A t : Bought(t) = BoughtAt(research.prices, Here, t)
  BY <1>8, HereIs DEF Bought, BoughtAt, PriceAt
<1> QED BY <1>1, <1>2, <1>3, <1>4, <1>6, <1>7, <1>8, <1>9, <1>10

LEMMA NextReaches ==
  ASSUME KellyInv, NextDate
  PROVE  Reaches(research, Here, Here')
<1>1. day.step = "next" /\ ~CurveEnded /\ day' = [at |-> Min(Remaining), step |-> "exit"]
      /\ account' = account /\ rows' = rows
  BY DEF NextDate
<1>2. day'.at = Min(RemainingAt(research, Here)) /\ day'.step = "exit"
  BY <1>1, ValuesHere
<1>3. Here' = AfterNext(research, Here)
  BY <1>1, <1>2, HereIs DEF AfterNext
<1> QED BY <1>1, <1>3, HereIs, ValuesHere DEF Reaches

LEMMA ExitReaches ==
  ASSUME KellyInv, ExitDue
  PROVE  Reaches(research, Here, Here')
<1>1. day.step = "exit" /\ day'.step = "enter" /\ day'.at = day.at /\ rows' = rows
  BY ExitDueMoves DEF ExitDue
<1> DEFINE f == [p \in Exits |-> ClosedNow(p).proceeds]
           g == [p \in ExitsOn(research.prices, Here) |-> ClosedOn(research.prices, Here, p).proceeds]
<1>2. f = g
  BY ValuesHere
<1>3. {ClosedNow(p) : p \in Exits} = {ClosedOn(research.prices, Here, p) : p \in ExitsOn(research.prices, Here)}
  BY ValuesHere
<1>4. account' = [account EXCEPT !.cash = @ + SumFunction(g), !.open = @ \ ExitsOn(research.prices, Here),
                                 !.closed = @ \cup {ClosedOn(research.prices, Here, p) : p \in ExitsOn(research.prices, Here)}]
  <2>1. account' = [account EXCEPT !.cash = @ + SumFunction(f), !.open = @ \ Exits,
                                   !.closed = @ \cup {ClosedNow(p) : p \in Exits}]
    BY DEF ExitDue
  <2> QED BY <1>2, <1>3, <2>1, ValuesHere
<1>5. Here' = AfterExits(research.prices, Here)
  BY <1>1, <1>4, HereIs DEF AfterExits
<1> QED BY <1>1, <1>5, HereIs DEF Reaches

LEMMA FillReaches ==
  ASSUME KellyInv, NEW t \in Waiting, FillTarget(t)
  PROVE  Reaches(research, Here, Here')
<1>1. /\ day.step = "enter" /\ day' = day /\ rows' = rows /\ \A u \in Waiting \ {t} : ~First(u, t)
      /\ account' = IF Answer(t) = "executed"
                    THEN [account EXCEPT !.cash = @ - Requested(t), !.open = @ \cup {Bought(t)},
                                         !.answers = @ \cup {<<t, "executed">>}]
                    ELSE [account EXCEPT !.answers = @ \cup {<<t, Answer(t)>>}]
  BY DEF FillTarget
<1>2. IsFirst(research, Here, t)
  BY <1>1, ValuesHere DEF IsFirst
<1>3. Here' = AfterFill(research.prices, Here, t)
  BY <1>1, HereIs, ValuesHere DEF AfterFill
<1> QED BY <1>1, <1>2, <1>3, HereIs DEF Reaches

LEMMA RowReaches ==
  ASSUME KellyInv, RecordRow
  PROVE  Reaches(research, Here, Here')
<1>1. day.step = "enter" /\ Waiting = {} /\ day' = [day EXCEPT !.step = "next"] /\ account' = account
  BY DEF RecordRow
<1>2. DayTyped
  BY <1>1, ActiveAccount
<1>3. day'.at = day.at /\ day'.step = "next"
  BY <1>1, <1>2 DEF DayTyped
<1>4. rows' = rows \cup {[on |-> day.at, cash |-> account.cash, open |-> account.open, complete |-> Valued,
                          equity |-> IF Valued THEN account.cash + MarketValue ELSE -1]}
  BY DEF RecordRow
<1>5. Valued = ValuedAt(research.prices, Here)
  BY ValuesHere DEF Valued, ValuedAt
<1>6. Here' = AfterRow(research.prices, Here)
  BY <1>1, <1>3, <1>4, <1>5, HereIs, ValuesHere DEF AfterRow
<1> QED BY <1>1, <1>6, HereIs, ValuesHere DEF Reaches

-----------------------------------------------------------------------------
(* The same targets on a price frame that ends earlier.                    *)
ShorterThan(r, run) ==
  /\ r.plan \in SizingPlan /\ r.prices \in [Sizable -> PricePath] /\ r.until \in Nat
  /\ WeightedTargets(r.plan) # {}
  /\ r = Prepared(r.plan, WeightedTargets(r.plan), r.prices, r.until)
  /\ run = Prepared(r.plan, WeightedTargets(r.plan), r.prices, run.until)
  /\ run.until \in Nat /\ run.until > r.until

LEMMA EligibleAgrees ==
  ASSUME NEW t \in Target, NEW prices \in [Sizable -> PricePath], NEW until \in Nat, NEW later \in Nat,
         later > until, NEW s \in NyseDay, s > t.day
  PROVE  /\ Eligible(t, prices, until) # {} =>
              /\ Eligible(t, prices, later) # {}
              /\ Min(Eligible(t, prices, later)) = Min(Eligible(t, prices, until))
         /\ (Eligible(t, prices, later) # {} /\ Min(Eligible(t, prices, later)) <= until) =>
              Eligible(t, prices, until) # {}
<1>1. t.day \in Nat /\ t.ticker \in Sizable
  BY DEF Target
<1>2. PICK n \in Nat : n = SessionAfter(t.day)
  BY <1>1, NextSessionIs
<1>3. PICK A : A = Eligible(t, prices, until)
  OBVIOUS
<1>4. PICK B : B = Eligible(t, prices, later)
  OBVIOUS
<1>5. DOMAIN prices[t.ticker] \subseteq Nat
  BY <1>1, PathsAre
<1>6. A = {d \in DOMAIN prices[t.ticker] : d \in n .. until /\ prices[t.ticker][d] > 0}
  BY <1>2, <1>3 DEF Eligible
<1>7. B = {d \in DOMAIN prices[t.ticker] : d \in n .. later /\ prices[t.ticker][d] > 0}
  BY <1>2, <1>4 DEF Eligible
<1>8. A \in SUBSET Nat /\ B \in SUBSET Nat
  BY <1>5, <1>6, <1>7
<1>9. \A d \in Nat : (d \in n .. until) <=> (d \in n .. later /\ d <= until)
  BY <1>2
<1>10. \A d : d \in A <=> d \in B /\ d <= until
  BY <1>5, <1>6, <1>7, <1>9
<1>11. ASSUME A # {} PROVE B # {} /\ Min(B) = Min(A)
  <2>1. Min(A) \in A /\ \A d \in A : Min(A) <= d
    BY <1>8, <1>11, LeastDay
  <2>2. Min(A) \in B
    BY <1>10, <2>1
  <2>3. Min(B) \in B /\ \A d \in B : Min(B) <= d
    BY <1>8, <2>2, LeastDay
  <2>4. PICK a \in Nat : a = Min(A) /\ a \in A /\ a <= until
    BY <1>8, <1>10, <2>1
  <2>5. PICK b \in Nat : b = Min(B) /\ b \in B
    BY <1>8, <2>3
  <2>6. b <= a
    BY <2>2, <2>3, <2>4, <2>5
  <2>7. b \in A
    BY <1>10, <2>4, <2>5, <2>6
  <2>8. a <= b
    BY <2>1, <2>4, <2>7
  <2> QED BY <2>2, <2>4, <2>5, <2>6, <2>8
<1>12. ASSUME B # {}, Min(B) <= until PROVE A # {}
  <2>1. Min(B) \in B
    BY <1>8, <1>12, LeastDay
  <2> QED BY <1>10, <1>12, <2>1
<1> QED BY <1>3, <1>4, <1>11, <1>12

LEMMA EntriesAgree ==
  ASSUME NEW r, NEW run, ShorterThan(r, run)
  PROVE  /\ r.schedule \subseteq run.schedule
         /\ \A e \in run.schedule : e.on <= r.until => e \in r.schedule
<1>1. PICK plan \in SizingPlan, prices \in [Sizable -> PricePath], until \in Nat, later \in Nat :
        /\ plan = r.plan /\ prices = r.prices /\ until = r.until /\ later = run.until /\ later > until
        /\ r = Prepared(plan, WeightedTargets(plan), prices, until)
        /\ run = Prepared(plan, WeightedTargets(plan), prices, later)
  BY DEF ShorterThan
<1>2. PICK W \in SUBSET Target : W = WeightedTargets(plan) /\ \A t \in W : \E s \in NyseDay : s > t.day
  BY TargetsAre
<1>3. r.schedule = Schedule(W, prices, until) /\ run.schedule = Schedule(W, prices, later)
  BY <1>1, <1>2 DEF Prepared
<1>4. \A t \in W : /\ Eligible(t, prices, until) # {} =>
                        /\ Eligible(t, prices, later) # {}
                        /\ Min(Eligible(t, prices, later)) = Min(Eligible(t, prices, until))
                   /\ (Eligible(t, prices, later) # {} /\ Min(Eligible(t, prices, later)) <= until) =>
                        Eligible(t, prices, until) # {}
  BY <1>1, <1>2, EligibleAgrees
<1>5. ASSUME NEW e \in r.schedule PROVE e \in run.schedule
  <2>1. PICK t \in W : /\ e = [target |-> t, on |-> Min(Eligible(t, prices, until))]
                       /\ Eligible(t, prices, until) # {} /\ Min(Eligible(t, prices, until)) - t.day <= MAX_DELAY
    BY <1>3 DEF Schedule
  <2>2. PICK on : on = Min(Eligible(t, prices, until)) /\ on = Min(Eligible(t, prices, later))
    BY <1>4, <2>1
  <2>3. /\ e = [target |-> t, on |-> Min(Eligible(t, prices, later))]
        /\ Eligible(t, prices, later) # {} /\ Min(Eligible(t, prices, later)) - t.day <= MAX_DELAY
    BY <1>4, <2>1, <2>2
  <2> QED BY <1>3, <2>3 DEF Schedule
<1>6. ASSUME NEW e \in run.schedule, e.on <= until PROVE e \in r.schedule
  <2>1. PICK t \in W : /\ e = [target |-> t, on |-> Min(Eligible(t, prices, later))]
                       /\ Eligible(t, prices, later) # {} /\ Min(Eligible(t, prices, later)) - t.day <= MAX_DELAY
    BY <1>3 DEF Schedule
  <2>2. Min(Eligible(t, prices, later)) <= until
    BY <1>6, <2>1
  <2>3. Eligible(t, prices, until) # {} /\ Min(Eligible(t, prices, later)) = Min(Eligible(t, prices, until))
    BY <1>4, <2>1, <2>2
  <2>4. /\ e = [target |-> t, on |-> Min(Eligible(t, prices, until))]
        /\ Min(Eligible(t, prices, until)) - t.day <= MAX_DELAY
    BY <2>1, <2>3
  <2> QED BY <1>3, <2>3, <2>4 DEF Schedule
<1> QED BY <1>1, <1>5, <1>6

LEMMA LastEntryIs ==
  ASSUME NEW start \in Nat, NEW n \in Nat, NEW S, \A e \in S : e.on \in Nat /\ start <= e.on /\ e.on <= n
  PROVE  /\ LastEntry(S, start) \in Nat /\ start <= LastEntry(S, start)
         /\ \A e \in S : e.on <= LastEntry(S, start)
         /\ LastEntry(S, start) = start \/ \E e \in S : e.on = LastEntry(S, start)
<1>1. CASE S = {}
  BY <1>1 DEF LastEntry
<1>2. CASE S # {}
  <2>1. PICK D \in SUBSET (0 .. n) : D = {e.on : e \in S} /\ D # {}
    <3>1. {e.on : e \in S} \in SUBSET (0 .. n)
      OBVIOUS
    <3>2. PICK e \in S : e.on \in {x.on : x \in S}
      BY <1>2
    <3> QED BY <3>1, <3>2
  <2>2. Max(D) \in D /\ \A d \in D : d <= Max(D)
    BY <2>1, GreatestDay
  <2>3. LastEntry(S, start) = Max(D)
    BY <1>2, <2>1 DEF LastEntry
  <2> QED BY <2>1, <2>2, <2>3
<1> QED BY <1>1, <1>2

LEMMA DatesAgree ==
  ASSUME NEW r, NEW run, ShorterThan(r, run)
  PROVE  /\ Calendar(r) /\ Calendar(run) /\ r.lastEntry <= run.lastEntry
         /\ \A d \in r.dates : d \in run.dates /\ d <= r.until
         /\ \A d \in run.dates : \A e \in r.dates : d <= e => d \in r.dates
         /\ run.prices = r.prices /\ run.plan = r.plan
<1>1. PICK plan \in SizingPlan, prices \in [Sizable -> PricePath], until \in Nat, later \in Nat :
        /\ plan = r.plan /\ prices = r.prices /\ until = r.until /\ later = run.until /\ later > until
        /\ r = Prepared(plan, WeightedTargets(plan), prices, until)
        /\ run = Prepared(plan, WeightedTargets(plan), prices, later) /\ WeightedTargets(plan) # {}
  BY DEF ShorterThan
<1>2. Calendar(r) /\ Calendar(run) /\ run.prices = prices /\ run.plan = plan
  BY <1>1, PreparedIs
<1>3. PICK W \in SUBSET Target : W = WeightedTargets(plan) /\ W # {}
  BY <1>1, TargetsAre
<1>4. PICK start \in Nat : start = Min({t.day : t \in W}) /\ \A t \in W : start <= t.day
  <2>1. {t.day : t \in W} \in (SUBSET Nat) \ {{}}
    BY <1>3 DEF Target
  <2>2. PICK D \in SUBSET Nat : D = {t.day : t \in W} /\ D # {}
    BY <2>1
  <2>3. Min(D) \in D /\ \A d \in D : Min(D) <= d
    BY <2>2, LeastDay
  <2> QED BY <2>2, <2>3
<1>5. PICK S : S = r.schedule
  OBVIOUS
<1>6. PICK T : T = run.schedule
  OBVIOUS
<1>7. r.targets = W /\ run.targets = W /\ r.lastEntry = LastEntry(S, start) /\ run.lastEntry = LastEntry(T, start)
      /\ r.dates = EventDates(S, start, prices, until) /\ run.dates = EventDates(T, start, prices, later)
  BY <1>1, <1>3, <1>4, <1>5, <1>6 DEF Prepared
<1>8. \A e \in T : e.on \in Nat /\ start <= e.on /\ e.on <= run.lastEntry
  <2> SUFFICES ASSUME NEW e \in T PROVE e.on \in Nat /\ start <= e.on /\ e.on <= run.lastEntry
    OBVIOUS
  <2>1. EntryIs(e, run)
    BY <1>2, <1>6 DEF Calendar
  <2>2. e.target \in W /\ e.on \in Nat /\ e.on - e.target.day \in 1 .. MAX_DELAY /\ e.on <= run.lastEntry
    BY <1>7, <2>1 DEF EntryIs
  <2>3. e.target.day \in Nat /\ start <= e.target.day /\ MAX_DELAY \in Nat
    BY <1>4, <2>2, KellyAssumption DEF Target, KellyAssumption
  <2> QED BY <1>4, <2>2, <2>3
<1>9. S \subseteq T
  BY <1>5, <1>6, EntriesAgree
<1>10. r.lastEntry \in Nat /\ run.lastEntry \in Nat
  BY <1>2 DEF Calendar
<1>11. PICK first \in Nat, last \in Nat : first = LastEntry(S, start) /\ last = LastEntry(T, start) /\ first <= last
  <2>1. start <= LastEntry(T, start) /\ \A e \in T : e.on <= LastEntry(T, start)
    BY <1>4, <1>8, <1>10, LastEntryIs
  <2>2. LastEntry(S, start) = start \/ \E e \in S : e.on = LastEntry(S, start)
    <3>1. \A e \in S : e.on \in Nat /\ start <= e.on /\ e.on <= run.lastEntry
      BY <1>8, <1>9
    <3> QED BY <1>4, <1>10, <3>1, LastEntryIs
  <2> QED BY <1>7, <1>9, <1>10, <2>1, <2>2
<1>12. HORIZON_DAYS \in Nat /\ MAX_DELAY \in Nat
  BY KellyAssumption DEF KellyAssumption
<1>13. AllDates(prices) \in SUBSET Nat
  BY PathsAre
<1>14. \A d : d \in r.dates <=> d \in AllDates(prices) /\ d <= until /\ d \in start .. first + HORIZON_DAYS + MAX_DELAY
  BY <1>7, <1>11 DEF EventDates
<1>15. \A d : d \in run.dates <=> d \in AllDates(prices) /\ d <= later /\ d \in start .. last + HORIZON_DAYS + MAX_DELAY
  BY <1>7, <1>11 DEF EventDates
<1>16. ASSUME NEW d \in r.dates PROVE d \in run.dates /\ d <= until
  <2>1. d \in Nat /\ d \in AllDates(prices) /\ d <= until /\ d \in start .. first + HORIZON_DAYS + MAX_DELAY
    BY <1>13, <1>14
  <2>2. d <= later /\ d \in start .. last + HORIZON_DAYS + MAX_DELAY
    BY <1>1, <1>4, <1>11, <1>12, <2>1
  <2> QED BY <1>15, <2>1, <2>2
<1>17. ASSUME NEW d \in run.dates, NEW e \in r.dates, d <= e PROVE d \in r.dates
  <2>1. e \in Nat /\ e <= until /\ e \in start .. first + HORIZON_DAYS + MAX_DELAY
    BY <1>13, <1>14
  <2>2. d \in Nat /\ d \in AllDates(prices) /\ d \in start .. last + HORIZON_DAYS + MAX_DELAY
    BY <1>13, <1>15
  <2>3. d <= until /\ d \in start .. first + HORIZON_DAYS + MAX_DELAY
    BY <1>4, <1>11, <1>12, <1>17, <2>1, <2>2
  <2> QED BY <1>14, <2>2, <2>3
<1> QED BY <1>1, <1>2, <1>7, <1>11, <1>16, <1>17

-----------------------------------------------------------------------------
(* Up to the end of the shorter frame both simulations take the same step. *)
LEMMA WaitingAgrees ==
  ASSUME NEW r, NEW run, ShorterThan(r, run), NEW m, m.at <= r.until
  PROVE  WaitingAt(run, m) = WaitingAt(r, m)
<1>1. \A e : (e \in run.schedule /\ e.on = m.at) <=> (e \in r.schedule /\ e.on = m.at)
  BY EntriesAgree
<1> QED BY <1>1 DEF WaitingAt

LEMMA OneComesFirst ==
  ASSUME NEW r, NEW run, ShorterThan(r, run), NEW m, NEW t, NEW u, IsFirst(r, m, t), IsFirst(r, m, u)
  PROVE  t = u
<1>1. Calendar(r) /\ r.plan \in SizingPlan /\ r.targets = WeightedTargets(r.plan)
  <2>1. Calendar(r)
    BY DatesAgree
  <2>2. PICK plan, prices, until :
          /\ plan \in SizingPlan /\ plan = r.plan
          /\ r = Prepared(plan, WeightedTargets(plan), prices, until)
    BY DEF ShorterThan
  <2>3. r.targets = WeightedTargets(plan)
    BY <2>2 DEF Prepared
  <2> QED BY <2>1, <2>2, <2>3
<1>2. t \in r.targets /\ u \in r.targets
  BY <1>1 DEF IsFirst, WaitingAt, Calendar, EntryIs
<1>3. t.day \in Nat /\ u.day \in Nat /\ t.weight \in Nat /\ u.weight \in Nat
  BY <1>1, <1>2 DEF Calendar, Target
<1>4. /\ PlaceOf(t.day, t.ticker) \in Nat /\ PlaceOf(u.day, u.ticker) \in Nat
      /\ t.day = u.day /\ PlaceOf(t.day, t.ticker) = PlaceOf(u.day, u.ticker) => t = u
  BY <1>1, <1>2, TargetsDiffer
<1>5. t # u => ~First(u, t) /\ ~First(t, u)
  BY DEF IsFirst
<1>6. t # u => t.day = u.day /\ t.weight = u.weight /\ PlaceOf(t.day, t.ticker) = PlaceOf(u.day, u.ticker)
  BY <1>3, <1>4, <1>5 DEF First
<1> QED BY <1>4, <1>6

LEMMA DatesGoOn ==
  ASSUME NEW r, NEW run, ShorterThan(r, run), NEW m, m.at \in Nat, ~EndedAt(r, m)
  PROVE  ~EndedAt(run, m) /\ AfterNext(run, m) = AfterNext(r, m)
<1>1. /\ Calendar(r) /\ Calendar(run) /\ r.lastEntry <= run.lastEntry
      /\ \A d \in r.dates : d \in run.dates
      /\ \A d \in run.dates : \A e \in r.dates : d <= e => d \in r.dates
  BY DatesAgree
<1>2. r.lastEntry \in Nat /\ run.lastEntry \in Nat /\ r.dates \in SUBSET Nat /\ run.dates \in SUBSET Nat
  BY <1>1 DEF Calendar
<1>3. PICK A \in SUBSET Nat : A = RemainingAt(r, m) /\ A # {}
  BY <1>2 DEF RemainingAt, EndedAt
<1>4. PICK B \in SUBSET Nat : B = RemainingAt(run, m)
  BY <1>2 DEF RemainingAt
<1>5. A \subseteq B
  BY <1>1, <1>3, <1>4 DEF RemainingAt
<1>6. /\ Min(A) \in A /\ \A d \in A : Min(A) <= d
      /\ Min(B) \in B /\ \A d \in B : Min(B) <= d
  BY <1>3, <1>4, <1>5, LeastDay
<1>7. PICK a \in Nat, b \in Nat : a = Min(A) /\ b = Min(B)
  BY <1>6
<1>8. b <= a
  BY <1>5, <1>6, <1>7
<1>9. b \in A
  BY <1>1, <1>3, <1>4, <1>6, <1>7, <1>8 DEF RemainingAt
<1>10. Min(B) = Min(A)
  BY <1>6, <1>7, <1>8, <1>9
<1>11. ~EndedAt(run, m)
  <2>1. ~(m.rows # {} /\ m.at >= r.lastEntry /\ m.account.open = {})
    BY DEF EndedAt
  <2>2. m.at >= run.lastEntry => m.at >= r.lastEntry
    BY <1>1, <1>2
  <2> QED BY <1>3, <1>4, <1>5, <2>1, <2>2 DEF EndedAt
<1> QED BY <1>3, <1>4, <1>10, <1>11 DEF AfterNext

LEMMA SameStep ==
  ASSUME NEW r, NEW run, ShorterThan(r, run), NEW m, m.at \in Nat, m.at <= r.until,
         NEW w, Reaches(r, m, w)
  PROVE  /\ ~(m.step = "next" /\ EndedAt(run, m))
         /\ \A x : Reaches(run, m, x) => x = w
<1>1. run.prices = r.prices
  BY DatesAgree
<1>2. CASE m.step = "next"
  <2>1. ~EndedAt(r, m) /\ w = AfterNext(r, m)
    BY <1>2 DEF Reaches
  <2>2. ~EndedAt(run, m) /\ AfterNext(run, m) = AfterNext(r, m)
    BY <2>1, DatesGoOn
  <2> QED BY <1>2, <2>1, <2>2 DEF Reaches
<1>3. CASE m.step = "exit"
  BY <1>1, <1>3 DEF Reaches
<1>4. CASE m.step = "enter"
  <2>1. WaitingAt(run, m) = WaitingAt(r, m)
    BY WaitingAgrees
  <2>2. \A t : IsFirst(run, m, t) <=> IsFirst(r, m, t)
    BY <2>1 DEF IsFirst
  <2>3. \A t, u : IsFirst(r, m, t) /\ IsFirst(r, m, u) => t = u
    BY OneComesFirst
  <2>4. \A t : IsFirst(r, m, t) => WaitingAt(r, m) # {}
    BY DEF IsFirst
  <2> QED BY <1>1, <1>4, <2>1, <2>2, <2>3, <2>4 DEF Reaches
<1> QED BY <1>2, <1>3, <1>4 DEF Reaches

-----------------------------------------------------------------------------
(* The points a simulation came by, each followed by the next.             *)
HasNext(seen, r, m) == (m.step = "next" /\ EndedAt(r, m)) \/ \E w \in seen : Reaches(r, m, w)
Course(seen, c) == Outset \in seen /\ \A m \in seen : m.rows \subseteq c
Simulated ==
  \E seen :
    /\ Course(seen, rows)
    /\ day.step # "done" => Here \in seen /\ \A m \in seen \ {Here} : HasNext(seen, research, m)
    /\ day.step = "done" => \A m \in seen : HasNext(seen, research, m)
RanAgain ==
  \E seen, run :
    /\ ShorterThan(research, run) /\ Course(seen, whole.rows) /\ \A m \in seen : HasNext(seen, run, m)
    /\ day.step # "done" => Here \in seen
    /\ day.step = "done" => rows \subseteq whole.rows
CurveInv ==
  /\ day.step = "idle" => whole = NoInputs /\ rows = {}
  /\ day.step # "idle" =>
       /\ day.at <= research.until
       /\ whole = NoInputs => Simulated
       /\ whole # NoInputs => RanAgain

LEMMA CurveParts ==
  ASSUME CurveInv, day.step # "idle"
  PROVE  day.at <= research.until /\ (whole = NoInputs => Simulated) /\ (whole # NoInputs => RanAgain)
BY DEF CurveInv

LEMMA CourseGrows ==
  ASSUME Simulated, day.step # "done", day'.step # "done", research' = research,
         Reaches(research, Here, Here'), rows \subseteq rows'
  PROVE  Simulated'
<1>1. PICK seen : Course(seen, rows) /\ Here \in seen /\ \A m \in seen \ {Here} : HasNext(seen, research, m)
  BY DEF Simulated
<1> DEFINE more == seen \cup {Here'}
<1>2. Course(more, rows')
  BY <1>1, HereIs DEF Course
<1>3. \A m \in more \ {Here'} : HasNext(more, research, m)
  BY <1>1 DEF HasNext
<1>4. Here' \in more
  OBVIOUS
<1> HIDE DEF more
<1>5. \E s : Course(s, rows') /\ Here' \in s /\ \A m \in s \ {Here'} : HasNext(s, research', m)
  BY <1>2, <1>3, <1>4
<1> QED BY <1>5 DEF Simulated

LEMMA CourseIsKept ==
  ASSUME RanAgain, day.step # "done", day'.step # "done", research' = research, whole' = whole,
         day.at \in Nat, day.at <= research.until, Reaches(research, Here, Here')
  PROVE  RanAgain'
<1>1. PICK seen, run : /\ ShorterThan(research, run) /\ Course(seen, whole.rows)
                       /\ (\A m \in seen : HasNext(seen, run, m)) /\ Here \in seen
  BY DEF RanAgain
<1>2. PICK r, m, w : r = research /\ m = Here /\ w = Here'
  OBVIOUS
<1>3. ShorterThan(r, run) /\ m.at \in Nat /\ m.at <= r.until /\ Reaches(r, m, w)
  BY <1>1, <1>2, HereIs
<1>4. ~(m.step = "next" /\ EndedAt(run, m)) /\ \A x : Reaches(run, m, x) => x = w
  BY <1>3, SameStep
<1>5. PICK x \in seen : Reaches(run, m, x)
  BY <1>1, <1>2, <1>4 DEF HasNext
<1>6. Here' \in seen
  BY <1>2, <1>4, <1>5
<1>7. \E s, n : /\ ShorterThan(research', n) /\ Course(s, whole'.rows)
                /\ (\A y \in s : HasNext(s, n, y)) /\ Here' \in s
  BY <1>1, <1>6
<1> QED BY <1>7 DEF RanAgain

LEMMA StepKeepsCurve ==
  ASSUME KellyInv, CurveInv, day.step \notin {"idle", "done"}, day'.step \notin {"idle", "done"},
         research' = research, whole' = whole, Reaches(research, Here, Here'), rows \subseteq rows',
         day'.at <= research.until
  PROVE  CurveInv'
<1>1. day.at \in Nat
  BY ActiveAccount
<1>2. whole = NoInputs => Simulated'
  BY CurveParts, CourseGrows
<1>3. whole # NoInputs => RanAgain'
  BY <1>1, CurveParts, CourseIsKept
<1>4. whole' = NoInputs <=> whole = NoInputs
  BY DEF NoInputs
<1> QED BY <1>2, <1>3, <1>4 DEF CurveInv

LEMMA SimulateBegins ==
  ASSUME KellyInv, CurveInv, NEW plan \in SizingPlan, NEW prices \in [Sizable -> PricePath], Simulate(plan, prices)
  PROVE  CurveInv'
<1>1. /\ account = NewAccount /\ rows = {} /\ whole = NoInputs
      /\ account' = account /\ rows' = rows /\ whole' = whole /\ day' = [at |-> 0, step |-> "next"]
      /\ WeightedTargets(plan) # {} /\ AllDates(prices) # {}
  BY DEF KellyInv, CurveInv, Simulate
<1>2. AllDates(prices) \in SUBSET Nat /\ IsFiniteSet(AllDates(prices))
  BY PathsAre
<1>3. PICK until \in Nat : until = Max(AllDates(prices))
  BY <1>1, <1>2, FiniteHasGreatest
<1>4. research'.until = until
  BY <1>3 DEF Simulate, Prepared
<1>5. Here' = Outset
  BY <1>1, HereIs DEF Outset, Point
<1>6. Course({Outset}, rows')
  BY <1>1 DEF Course, Outset, Point
<1>7. Here' \in {Outset} /\ \A m \in {Outset} \ {Here'} : HasNext({Outset}, research', m)
  BY <1>5
<1>8. \E s : Course(s, rows') /\ Here' \in s /\ \A m \in s \ {Here'} : HasNext(s, research', m)
  BY <1>6, <1>7
<1>9. Simulated'
  BY <1>1, <1>8 DEF Simulated
<1> QED BY <1>1, <1>3, <1>4, <1>9 DEF CurveInv

LEMMA UntilRepeats ==
  ASSUME KellyInv, CurveInv, SimulateUntil
  PROVE  CurveInv'
<1>1. /\ day.step = "done" /\ whole = NoInputs /\ whole' = [status |-> "set", rows |-> rows]
      /\ day' = [at |-> 0, step |-> "next"] /\ account' = NewAccount /\ rows' = {}
  BY DEF SimulateUntil
<1>2. PICK seen : Course(seen, rows) /\ \A m \in seen : HasNext(seen, research, m)
  BY <1>1, CurveParts DEF Simulated
<1>3. PICK run : run = research
  OBVIOUS
<1>4. /\ run.plan \in SizingPlan /\ run.prices \in [Sizable -> PricePath] /\ run.until \in Nat
      /\ WeightedTargets(run.plan) # {} /\ run = Prepared(run.plan, WeightedTargets(run.plan), run.prices, run.until)
  BY <1>1, <1>3, ActiveAccount DEF ResearchTyped
<1>5. run.targets = WeightedTargets(run.plan)
  BY <1>4 DEF Prepared
<1>6. PICK until \in AllDates(run.prices) :
        until < run.until /\ research' = Prepared(run.plan, run.targets, run.prices, until)
  BY <1>3 DEF SimulateUntil
<1>7. until \in Nat
  BY <1>4, <1>6, PathsAre
<1>8. PICK r : r = Prepared(run.plan, WeightedTargets(run.plan), run.prices, until)
  OBVIOUS
<1>9. r.plan = run.plan /\ r.prices = run.prices /\ r.until = until /\ research' = r
  BY <1>5, <1>6, <1>8 DEF Prepared
<1>10. ShorterThan(r, run)
  BY <1>4, <1>6, <1>7, <1>8, <1>9 DEF ShorterThan
<1>11. Here' = Outset /\ Outset \in seen
  BY <1>1, <1>2, HereIs DEF Outset, Point, Course
<1>12. whole' # NoInputs /\ whole'.rows = rows
  BY <1>1 DEF NoInputs
<1>13. \E s, n : /\ ShorterThan(research', n) /\ Course(s, whole'.rows)
                 /\ (\A y \in s : HasNext(s, n, y)) /\ Here' \in s
  BY <1>2, <1>3, <1>9, <1>10, <1>11, <1>12
<1>14. RanAgain'
  BY <1>1, <1>13 DEF RanAgain
<1> QED BY <1>1, <1>7, <1>9, <1>12, <1>14 DEF CurveInv

LEMMA FinishSettles ==
  ASSUME KellyInv, CurveInv, FinishCurve
  PROVE  CurveInv'
<1>1. /\ day.step = "next" /\ CurveEnded /\ day' = [day EXCEPT !.step = "done"]
      /\ research' = research /\ rows' = rows /\ whole' = whole
  BY DEF FinishCurve
<1>2. DayTyped
  BY <1>1, ActiveAccount
<1>3. day'.at = day.at /\ day'.step = "done"
  BY <1>1, <1>2 DEF DayTyped
<1>4. EndedAt(research, Here)
  BY <1>1, ValuesHere
<1>5. whole = NoInputs => Simulated'
  <2> SUFFICES ASSUME whole = NoInputs PROVE Simulated'
    OBVIOUS
  <2>1. PICK seen : Course(seen, rows) /\ Here \in seen /\ \A m \in seen \ {Here} : HasNext(seen, research, m)
    BY <1>1, CurveParts DEF Simulated
  <2>2. HasNext(seen, research, Here)
    BY <1>1, <1>4, HereIs DEF HasNext
  <2>3. \E s : Course(s, rows') /\ \A m \in s : HasNext(s, research', m)
    BY <1>1, <2>1, <2>2
  <2> QED BY <1>3, <2>3 DEF Simulated
<1>6. whole # NoInputs => RanAgain'
  <2> SUFFICES ASSUME whole # NoInputs PROVE RanAgain'
    OBVIOUS
  <2>1. PICK seen, run : /\ ShorterThan(research, run) /\ Course(seen, whole.rows)
                         /\ (\A m \in seen : HasNext(seen, run, m)) /\ Here \in seen
    BY <1>1, CurveParts DEF RanAgain
  <2>2. rows \subseteq whole.rows
    BY <2>1, HereIs DEF Course
  <2>3. \E s, n : /\ ShorterThan(research', n) /\ Course(s, whole'.rows)
                  /\ (\A y \in s : HasNext(s, n, y)) /\ rows' \subseteq whole'.rows
    BY <1>1, <2>1, <2>2
  <2> QED BY <1>3, <2>3 DEF RanAgain
<1>7. day.at <= research.until /\ (whole' = NoInputs <=> whole = NoInputs)
  BY <1>1, CurveParts DEF NoInputs
<1> QED BY <1>1, <1>3, <1>5, <1>6, <1>7 DEF CurveInv

LEMMA DatesEnd ==
  ASSUME KellyInv, day.step = "next", ~CurveEnded
  PROVE  Min(Remaining) <= research.until
<1>1. PICK r : r = research
  OBVIOUS
<1>2. /\ r.plan \in SizingPlan /\ r.prices \in [Sizable -> PricePath] /\ r.until \in Nat
      /\ r = Prepared(r.plan, WeightedTargets(r.plan), r.prices, r.until) /\ Calendar(r)
  BY <1>1, ActiveAccount DEF ResearchTyped
<1>3. \A d \in r.dates : d <= r.until
  <2>1. PICK targets, prices, until :
          r = Prepared(r.plan, targets, prices, until) /\ until = r.until
    BY <1>2
  <2>2. PICK schedule, start : r.dates = EventDates(schedule, start, prices, until)
    BY <2>1 DEF Prepared
  <2> QED BY <2>1, <2>2 DEF EventDates
<1>4. PICK R \in SUBSET Nat : R = Remaining /\ R # {}
  BY <1>1, <1>2 DEF Remaining, CurveEnded, Calendar
<1>5. Min(R) \in R
  BY <1>4, LeastDay
<1> QED BY <1>1, <1>3, <1>4, <1>5 DEF Remaining

LEMMA CurveSteps == KellyInv /\ CurveInv /\ [KellyNext]_kellyVars => CurveInv'
<1> SUFFICES ASSUME KellyInv, CurveInv, [KellyNext]_kellyVars PROVE CurveInv'
  OBVIOUS
<1>1. CASE \E plan \in SizingPlan, prices \in [Sizable -> PricePath] : Simulate(plan, prices)
  BY <1>1, SimulateBegins
<1>2. CASE NextDate
  <2>1. /\ day.step = "next" /\ ~CurveEnded /\ day' = [at |-> Min(Remaining), step |-> "exit"]
        /\ research' = research /\ rows' = rows /\ whole' = whole
    BY <1>2 DEF NextDate
  <2>2. day'.at <= research.until /\ day'.step = "exit"
    BY <2>1, DatesEnd
  <2>3. Reaches(research, Here, Here')
    BY <1>2, NextReaches
  <2> QED BY <2>1, <2>2, <2>3, StepKeepsCurve
<1>3. CASE ExitDue
  <2>1. day.step = "exit" /\ day'.step = "enter" /\ day'.at = day.at
        /\ research' = research /\ rows' = rows /\ whole' = whole
    BY <1>3, ExitDueMoves DEF ExitDue
  <2>2. Reaches(research, Here, Here')
    BY <1>3, ExitReaches
  <2> QED BY <2>1, <2>2, CurveParts, StepKeepsCurve
<1>4. CASE RecordRow
  <2>1. /\ day.step = "enter" /\ day' = [day EXCEPT !.step = "next"] /\ rows \subseteq rows'
        /\ research' = research /\ whole' = whole
    BY <1>4 DEF RecordRow
  <2>2. day'.step = "next" /\ day'.at = day.at
    BY <2>1, ActiveAccount DEF DayTyped
  <2>3. Reaches(research, Here, Here')
    BY <1>4, RowReaches
  <2> QED BY <2>1, <2>2, <2>3, CurveParts, StepKeepsCurve
<1>5. CASE FinishCurve
  BY <1>5, FinishSettles
<1>6. CASE SimulateUntil
  BY <1>6, UntilRepeats
<1>7. CASE Forget
  <2>1. day'.step = "idle" /\ rows' = {} /\ whole' = NoInputs
    BY <1>7 DEF Forget
  <2>2. NoInputs' = NoInputs
    BY DEF NoInputs
  <2> QED BY <2>1, <2>2 DEF CurveInv
<1>8. CASE day.step = "enter" /\ \E t \in Waiting : FillTarget(t)
  <2>1. PICK t \in Waiting : FillTarget(t)
    BY <1>8
  <2>2. day' = day /\ research' = research /\ rows' = rows /\ whole' = whole
    BY <2>1 DEF FillTarget
  <2>3. Reaches(research, Here, Here')
    BY <2>1, FillReaches
  <2> QED BY <1>8, <2>2, <2>3, CurveParts, StepKeepsCurve
<1>9. CASE UNCHANGED kellyVars
  <2>1. research' = research /\ day' = day /\ account' = account /\ rows' = rows /\ whole' = whole
    BY <1>9 DEF kellyVars
  <2>2. Here' = Here
    BY <2>1, HereIs
  <2>3. Simulated => Simulated'
    BY <2>1, <2>2 DEF Simulated
  <2>4. RanAgain => RanAgain'
    BY <2>1, <2>2 DEF RanAgain
  <2> QED BY <2>1, <2>3, <2>4 DEF CurveInv, NoInputs
<1> QED BY <1>1, <1>2, <1>3, <1>4, <1>5, <1>6, <1>7, <1>8, <1>9 DEF KellyNext

LEMMA InvKeepsPrefix == CurveInv => CurveIsAPrefix
<1> SUFFICES ASSUME CurveInv, whole # NoInputs PROVE rows \subseteq whole.rows
  BY DEF CurveIsAPrefix
<1>1. RanAgain
  BY DEF CurveInv
<1> QED BY <1>1, HereIs DEF RanAgain, Course

(* The evaluation of weighted targets is sound (portfolio/kelly.py,        *)
(* portfolio/simulation.py): it keeps its caps, its cash and its bounds,   *)
(* and no row of its curve rests on a price of a later day: on a price     *)
(* frame that ends earlier every row is a row of the whole curve, whatever *)
(* the prices, the estimates and the two ends are.                         *)
THEOREM KellyHolds == KellySpec => []KellyIsSound
<1>1. KellyInit => KellyInv /\ CurveInv
  BY DEF KellyInit, KellyInv, CurveInv
<1>2. KellyInv /\ CurveInv /\ [KellyNext]_kellyVars => KellyInv' /\ CurveInv'
  BY KellySteps, CurveSteps
<1>3. KellyInv /\ CurveInv => KellyIsSound
  BY InvKeepsTargets, InvKeepsPrefix DEF KellyIsSound
<1> QED BY <1>1, <1>2, <1>3, PTL DEF KellySpec

-----------------------------------------------------------------------------
(* All of them, in whatever order they move: the evaluations keep their    *)
(* books and look at no later price, and what is fetched is stored once    *)
(* and complete (portfolio/equal_slot.py, portfolio/kelly.py,              *)
(* portfolio/simulation.py, form4.py, form13f.py, capitol_trades.py).      *)
THEOREM PortfoliosAndSourcesHold ==
  SlotSpec /\ KellySpec /\ SecSpec /\ CapitolSpec => []PortfoliosAndSourcesAreSound
<1>1. EqualSlotIsSound /\ KellyIsSound /\ SecIsSound /\ CapitolIsSound => PortfoliosAndSourcesAreSound
  BY DEF PortfoliosAndSourcesAreSound
<1> QED BY <1>1, EqualSlotHolds, KellyHolds, FilingsAreSound, ResultsAreSound, PTL
=============================================================================
