------------------------------ MODULE Induction ------------------------------
(***************************************************************************)
(* Lemmas by induction, on numbers and on finite sets, and what they say   *)
(* about the operators of the community modules that are defined by        *)
(* recursion.  The library's induction theorems have a predicate as their  *)
(* parameter; here it is the set of those it holds for.                    *)
(***************************************************************************)
EXTENDS Naturals, FiniteSets, Functions, FiniteSetTheorems, WellFoundedInduction, TLAPS

-----------------------------------------------------------------------------
(* Induction *)

(* A set of numbers has a least one.                                       *)
LEMMA LeastNumber ==
  ASSUME NEW S \in SUBSET Nat, S # {}
  PROVE  \E n \in S : \A m \in S : n <= m
<1>1. PICK n \in S : \A m \in S : ~ (<<m, n>> \in OpToRel(<, Nat))
  BY NatLessThanWellFounded, WFMin
<1>2. ASSUME NEW m \in S PROVE n <= m
  <2>1. ~ (m < n)
    BY <1>1 DEF OpToRel
  <2> QED
    BY <2>1
<1> QED
  BY <1>2

(* Induction on numbers, with a set in place of the predicate.             *)
LEMMA NatSetInduction ==
  ASSUME NEW Q \in SUBSET Nat, 0 \in Q, \A n \in Q : n + 1 \in Q
  PROVE  Q = Nat
<1> SUFFICES ASSUME Nat \ Q # {} PROVE FALSE
  OBVIOUS
<1>1. PICK n \in Nat \ Q : \A m \in Nat \ Q : n <= m
  BY LeastNumber
<1>2. n # 0 /\ n - 1 \in Nat /\ n - 1 \notin Q
  <2>1. n # 0
    OBVIOUS
  <2>2. n - 1 \in Nat /\ (n - 1) + 1 = n
    BY <2>1
  <2> QED
    BY <2>1, <2>2
<1> QED
  BY <1>1, <1>2

(* Induction on the subsets of a finite set, likewise.                     *)
LEMMA SubsetInduction ==
  ASSUME NEW S, IsFiniteSet(S), NEW Q,
         \A T \in SUBSET S : (\A U \in SUBSET T : U # T => U \in Q) => T \in Q
  PROVE  SUBSET S \subseteq Q
<1> SUFFICES ASSUME (SUBSET S) \ Q # {} PROVE FALSE
  OBVIOUS
<1>1. PICK T \in (SUBSET S) \ Q :
        \A U \in (SUBSET S) \ Q : ~ (<<U, T>> \in StrictSubsetOrdering(S))
  <2>1. IsWellFoundedOn(StrictSubsetOrdering(S), FiniteSubsetsOf(S))
    BY FS_StrictSubsetOrderingWellFounded
  <2>2. FiniteSubsetsOf(S) = SUBSET S
    BY FS_FiniteSubsetsOfFinite
  <2>3. IsWellFoundedOn(StrictSubsetOrdering(S), SUBSET S)
    BY <2>1, <2>2, Zenon
  <2> DEFINE P == SUBSET S
             R == StrictSubsetOrdering(S)
             others == P \ Q
  <2>4. others \subseteq P /\ others # {}
    OBVIOUS
  <2>5. IsWellFoundedOn(R, P)
    BY <2>3
  <2> HIDE DEF P, R, others
  <2>6. \E T \in others : \A U \in others : ~ (<<U, T>> \in R)
    BY <2>4, <2>5, WFMin
  <2> QED
    BY <2>6 DEF P, R, others
<1>2. ASSUME NEW U \in SUBSET T, U # T PROVE U \in Q
  <2>1. U \in SUBSET S /\ T \in SUBSET S
    OBVIOUS
  <2>2. <<U, T>> \in StrictSubsetOrdering(S)
    BY <1>2, <2>1 DEF StrictSubsetOrdering
  <2> QED
    BY <1>1, <2>1, <2>2
<1> QED
  BY <1>1, <1>2

-----------------------------------------------------------------------------
(* Sums over sets *)

(* What one round of the fold adds to what it has of the rest.             *)
SumRound(f, rest, s) ==
  IF s = {} THEN 0 ELSE f[CHOOSE x \in s : TRUE] + rest[s \ {CHOOSE x \in s : TRUE}]

Sums(f, S, sum) == sum = [s \in SUBSET S |-> SumRound(f, sum, s)]

LEMMA SumsExist ==
  ASSUME NEW f, NEW S, IsFiniteSet(S)
  PROVE  \E sum : Sums(f, S, sum)
<1> DEFINE Q == {n \in Nat : \E sum : \A s \in SUBSET S :
                    Cardinality(s) <= n => sum[s] = SumRound(f, sum, s)}
<1>1. 0 \in Q
  <2> DEFINE sum == [s \in SUBSET S |-> 0]
  <2>1. ASSUME NEW s \in SUBSET S, Cardinality(s) <= 0 PROVE sum[s] = SumRound(f, sum, s)
    <3>1. IsFiniteSet(s)
      BY FS_Subset
    <3>2. s = {}
      BY <2>1, <3>1, FS_CardinalityType, FS_EmptySet
    <3> QED
      BY <3>2 DEF SumRound
  <2> HIDE DEF sum
  <2> QED
    BY <2>1
<1>2. ASSUME NEW n \in Q PROVE n + 1 \in Q
  <2>1. PICK sum : \A s \in SUBSET S : Cardinality(s) <= n => sum[s] = SumRound(f, sum, s)
    OBVIOUS
  <2> DEFINE next == [s \in SUBSET S |-> SumRound(f, sum, s)]
  <2>2. ASSUME NEW s \in SUBSET S, Cardinality(s) <= n + 1
        PROVE  next[s] = SumRound(f, next, s)
    <3>1. CASE s = {}
      BY <3>1 DEF SumRound
    <3>2. CASE s # {}
      <4> DEFINE x == CHOOSE x \in s : TRUE
      <4>1. x \in s
        BY <3>2
      <4>2. IsFiniteSet(s)
        BY FS_Subset
      <4>3. Cardinality(s \ {x}) = Cardinality(s) - 1 /\ Cardinality(s) \in Nat
        BY <4>1, <4>2, FS_RemoveElement, FS_CardinalityType
      <4>4. s \ {x} \in SUBSET S /\ Cardinality(s \ {x}) <= n
        BY <2>2, <4>3
      <4>5. next[s \ {x}] = sum[s \ {x}]
        BY <2>1, <4>4
      <4>6. next[s] = SumRound(f, sum, s)
        OBVIOUS
      <4> HIDE DEF next
      <4> QED
        BY <3>2, <4>5, <4>6 DEF SumRound
    <3> QED
      BY <3>1, <3>2
  <2> HIDE DEF next
  <2> QED
    BY <2>2
<1>3. Q = Nat
  <2> HIDE DEF Q
  <2>1. Q \in SUBSET Nat
    BY DEF Q
  <2> QED
    BY <1>1, <1>2, <2>1, NatSetInduction
<1>4. Cardinality(S) \in Q
  BY <1>3, FS_CardinalityType
<1>5. PICK sum : \A s \in SUBSET S : Cardinality(s) <= Cardinality(S) => sum[s] = SumRound(f, sum, s)
  BY <1>4
<1>6. \A s \in SUBSET S : sum[s] = SumRound(f, sum, s)
  BY <1>5, FS_Subset
<1> DEFINE total == [s \in SUBSET S |-> sum[s]]
<1>7. ASSUME NEW s \in SUBSET S PROVE total[s] = SumRound(f, total, s)
  <2>1. s # {} => s \ {CHOOSE x \in s : TRUE} \in SUBSET S
    OBVIOUS
  <2> QED
    BY <1>6, <2>1 DEF SumRound
<1>8. Sums(f, S, total)
  BY <1>7 DEF Sums
<1> QED
  BY <1>8

LEMMA SumIsOne ==
  ASSUME NEW f, NEW S, IsFiniteSet(S)
  PROVE  \E sum : Sums(f, S, sum) /\ SumFunctionOnSet(f, S) = sum[S]
<1> DEFINE sum == CHOOSE sum : Sums(f, S, sum)
<1>1. Sums(f, S, sum)
  BY SumsExist
<1>2. SumFunctionOnSet(f, S) = sum[S]
  BY DEF SumFunctionOnSet, FoldFunctionOnSet, MapThenFoldSet, Sums, SumRound
<1> QED
  BY <1>1, <1>2

LEMMA SumsTake ==
  ASSUME NEW f, NEW S, NEW sum, Sums(f, S, sum), NEW s \in SUBSET S, s # {}
  PROVE  \E x \in s : x = (CHOOSE y \in s : TRUE) /\ sum[s] = f[x] + sum[s \ {x}]
<1>1. sum[s] = SumRound(f, sum, s)
  BY DEF Sums
<1> QED
  BY <1>1 DEF SumRound

LEMMA SumsNat ==
  ASSUME NEW f, NEW S, IsFiniteSet(S), \A x \in S : f[x] \in Nat,
         NEW sum, Sums(f, S, sum)
  PROVE  \A s \in SUBSET S : sum[s] \in Nat
<1> DEFINE Q == {s \in SUBSET S : sum[s] \in Nat}
<1>1. ASSUME NEW s \in SUBSET S, \A t \in SUBSET s : t # s => t \in Q
      PROVE  sum[s] \in Nat
  <2>1. CASE s = {}
    BY <2>1 DEF Sums, SumRound
  <2>2. CASE s # {}
    <3>1. PICK x \in s : sum[s] = f[x] + sum[s \ {x}]
      BY <2>2, SumsTake
    <3>2. sum[s \ {x}] \in Nat
      BY <1>1
    <3> QED
      BY <3>1, <3>2
  <2> QED
    BY <2>1, <2>2
<1>2. \A s \in SUBSET S : (\A t \in SUBSET s : t # s => t \in Q) => s \in Q
  BY <1>1
<1> HIDE DEF Q
<1>3. SUBSET S \subseteq Q
  BY <1>2, SubsetInduction
<1> QED
  BY <1>3 DEF Q

AnyFirst(f, sum, s) == \A x \in s : sum[s] = f[x] + sum[s \ {x}]

(* Any element may be taken out first.                                     *)
LEMMA SumsAnyOrder ==
  ASSUME NEW f, NEW S, IsFiniteSet(S), \A x \in S : f[x] \in Nat,
         NEW sum, Sums(f, S, sum)
  PROVE  \A s \in SUBSET S : AnyFirst(f, sum, s)
<1> DEFINE Q == {s \in SUBSET S : \A x \in s : sum[s] = f[x] + sum[s \ {x}]}
<1>1. ASSUME NEW s \in SUBSET S, \A t \in SUBSET s : t # s => t \in Q, NEW x \in s
      PROVE  sum[s] = f[x] + sum[s \ {x}]
  <2>1. PICK y \in s : sum[s] = f[y] + sum[s \ {y}]
    BY SumsTake
  <2>2. CASE x = y
    BY <2>1, <2>2
  <2>3. CASE x # y
    <3>1. sum[s \ {y}] = f[x] + sum[(s \ {y}) \ {x}]
      BY <1>1, <2>3
    <3>2. sum[s \ {x}] = f[y] + sum[(s \ {x}) \ {y}]
      BY <1>1, <2>3
    <3>3. (s \ {x}) \ {y} = (s \ {y}) \ {x}
      OBVIOUS
    <3>4. f[x] \in Nat /\ f[y] \in Nat /\ sum[(s \ {y}) \ {x}] \in Nat
      BY SumsNat
    <3> DEFINE rest == sum[(s \ {y}) \ {x}]
    <3>5. sum[s] = f[y] + (f[x] + rest) /\ sum[s \ {x}] = f[y] + rest
      BY <2>1, <3>1, <3>2, <3>3, Zenon
    <3> HIDE DEF rest
    <3>6. rest \in Nat
      BY <3>4 DEF rest
    <3>7. \A a, b, c \in Nat : a + (b + c) = b + (a + c)
      OBVIOUS
    <3> QED
      BY <3>4, <3>5, <3>6, <3>7
  <2> QED
    BY <2>2, <2>3
<1>2. \A s \in SUBSET S : (\A t \in SUBSET s : t # s => t \in Q) => s \in Q
  BY <1>1
<1> HIDE DEF Q
<1>3. SUBSET S \subseteq Q
  BY <1>2, SubsetInduction
<1> QED
  BY <1>3 DEF Q, AnyFirst

(* A sum depends on what is added up only.                                 *)
LEMMA SumsAgree ==
  ASSUME NEW f, NEW g, NEW S, NEW T, NEW sum, NEW other,
         Sums(f, S, sum), Sums(g, T, other),
         NEW s, s \subseteq S, s \subseteq T, IsFiniteSet(s), \A x \in s : f[x] = g[x]
  PROVE  sum[s] = other[s]
<1> DEFINE Q == {r \in SUBSET s : sum[r] = other[r]}
<1>1. ASSUME NEW r \in SUBSET s, \A t \in SUBSET r : t # r => t \in Q
      PROVE  sum[r] = other[r]
  <2>1. CASE r = {}
    BY <2>1 DEF Sums, SumRound
  <2>2. CASE r # {}
    <3>1. PICK x \in r : x = (CHOOSE y \in r : TRUE) /\ sum[r] = f[x] + sum[r \ {x}]
      BY <2>2, SumsTake
    <3>2. PICK z \in r : z = (CHOOSE y \in r : TRUE) /\ other[r] = g[z] + other[r \ {z}]
      BY <2>2, SumsTake
    <3>3. sum[r \ {x}] = other[r \ {x}]
      BY <1>1
    <3> QED
      BY <3>1, <3>2, <3>3
  <2> QED
    BY <2>1, <2>2
<1>2. \A r \in SUBSET s : (\A t \in SUBSET r : t # r => t \in Q) => r \in Q
  BY <1>1
<1> HIDE DEF Q
<1>3. SUBSET s \subseteq Q
  BY <1>2, SubsetInduction
<1> QED
  BY <1>3 DEF Q

(* The laws of sums.                                                       *)
LEMMA SumOfNothing ==
  ASSUME NEW f PROVE SumFunctionOnSet(f, {}) = 0
<1>1. IsFiniteSet({})
  BY FS_EmptySet
<1>2. PICK sum : Sums(f, {}, sum) /\ SumFunctionOnSet(f, {}) = sum[{}]
  BY <1>1, SumIsOne
<1> QED
  BY <1>2 DEF Sums, SumRound

LEMMA SumType ==
  ASSUME NEW S, IsFiniteSet(S), NEW f, \A x \in S : f[x] \in Nat
  PROVE  SumFunctionOnSet(f, S) \in Nat
BY SumIsOne, SumsNat

LEMMA SumOfSame ==
  ASSUME NEW S, IsFiniteSet(S), NEW f, NEW g, \A x \in S : f[x] = g[x]
  PROVE  SumFunctionOnSet(f, S) = SumFunctionOnSet(g, S)
<1>1. PICK sum : Sums(f, S, sum) /\ SumFunctionOnSet(f, S) = sum[S]
  BY SumIsOne
<1>2. PICK other : Sums(g, S, other) /\ SumFunctionOnSet(g, S) = other[S]
  BY SumIsOne
<1> QED
  BY <1>1, <1>2, SumsAgree

LEMMA SumWithout ==
  ASSUME NEW T, IsFiniteSet(T), NEW f, \A y \in T : f[y] \in Nat, NEW x \in T
  PROVE  SumFunctionOnSet(f, T) = f[x] + SumFunctionOnSet(f, T \ {x})
<1>1. PICK sum : Sums(f, T, sum) /\ SumFunctionOnSet(f, T) = sum[T]
  BY SumIsOne
<1>2. Sums(f, T, sum)
  BY <1>1
<1>3. AnyFirst(f, sum, T)
  BY <1>2, SumsAnyOrder
<1>4. IsFiniteSet(T \ {x})
  BY FS_RemoveElement
<1>5. PICK other : Sums(f, T \ {x}, other) /\ SumFunctionOnSet(f, T \ {x}) = other[T \ {x}]
  BY <1>4, SumIsOne
<1>6. sum[T \ {x}] = other[T \ {x}]
  BY <1>2, <1>4, <1>5, SumsAgree
<1> QED
  BY <1>1, <1>3, <1>5, <1>6 DEF AnyFirst

LEMMA SumOfOneMore ==
  ASSUME NEW S, IsFiniteSet(S), NEW x, x \notin S, NEW f,
         \A y \in S \cup {x} : f[y] \in Nat
  PROVE  SumFunctionOnSet(f, S \cup {x}) = f[x] + SumFunctionOnSet(f, S)
<1>1. IsFiniteSet(S \cup {x})
  BY FS_AddElement
<1>2. (S \cup {x}) \ {x} = S
  OBVIOUS
<1> QED
  BY <1>1, <1>2, SumWithout
=============================================================================
