-------------------------- MODULE ComparisonProofs --------------------------
(***************************************************************************)
(* The comparison tool reports every case and ranks the rows fairly, for   *)
(* any contexts, schedulers, placements, arguments and outputs of the C    *)
(* programs.                                                               *)
(***************************************************************************)
EXTENDS Comparison, SequenceTheorems, FiniteSetTheorems, TLAPS

-----------------------------------------------------------------------------
(* Sums and bounds of the values of a function over a finite set.          *)

Added(sum, n) == n + sum
Adding == INSTANCE FoldProofs WITH Op <- Added
Joining == INSTANCE FoldProofs WITH Op <- Joined

(* A sum takes out one element after the other, for any function the same. *)
LEMMA SumSteps ==
    ASSUME NEW S, IsFiniteSet(S), NEW f
    PROVE  /\ SumFunctionOnSet(f, {}) = 0
           /\ \A s \in SUBSET S : s # {} =>
                 LET x == Adding!Chosen(s)
                 IN  x \in s /\ SumFunctionOnSet(f, s) = f[x] + SumFunctionOnSet(f, s \ {x})
<1>1. \A s : SumFunctionOnSet(f, s) = Adding!FoldedSet(0, f, s)
  BY DEF SumFunctionOnSet, FoldFunctionOnSet, MapThenFoldSet, Added,
         Adding!FoldedSet, Adding!FoldFunctionOnSet, Adding!MapThenFoldSet
<1>2. Adding!IsFiniteSet(S)
  BY DEF Adding!IsFiniteSet, IsFiniteSet
<1> QED
  BY <1>1, <1>2, Adding!FoldSetSteps DEF Added

(* Induction on the size of a subset of a finite set.                      *)
LEMMA SubsetInduction ==
    ASSUME NEW S, IsFiniteSet(S), NEW Good \in SUBSET SUBSET S, {} \in Good,
           \A s \in SUBSET S :
              s # {} /\ (\A t \in SUBSET S : Cardinality(t) + 1 = Cardinality(s) => t \in Good)
                => s \in Good
    PROVE  S \in Good
<1> DEFINE Sizes == {n \in Nat : \A s \in SUBSET S : Cardinality(s) = n => s \in Good}
<1>1. \A s \in SUBSET S : IsFiniteSet(s) /\ Cardinality(s) \in Nat
  BY FS_Subset, FS_CardinalityType
<1>2. 0 \in Sizes
  BY <1>1, FS_EmptySet
<1>3. ASSUME NEW n \in Nat, n \in Sizes PROVE n + 1 \in Sizes
  <2>1. ASSUME NEW s \in SUBSET S, Cardinality(s) = n + 1 PROVE s \in Good
    <3>1. s # {}
      BY <2>1, FS_EmptySet
    <3>2. ASSUME NEW t \in SUBSET S, Cardinality(t) + 1 = Cardinality(s) PROVE t \in Good
      <4>1. Cardinality(t) \in Nat
        BY <1>1
      <4>2. Cardinality(t) = n
        BY <2>1, <3>2, <4>1
      <4> QED
        BY <1>3, <4>2
    <3> QED
      BY <3>1, <3>2
  <2> QED
    BY <2>1
<1>4. \A n \in Nat : n \in Sizes
  <2> HIDE DEF Sizes
  <2> QED
    BY <1>2, <1>3, Adding!Induction
<1> QED
  BY <1>1, <1>4

(* The indices of a sequence are as many as it has elements.               *)
LEMMA Intervals == \A n \in Nat : IsFiniteSet(1 .. n) /\ Cardinality(1 .. n) = n
  BY FS_Interval

(* A set with an element less is smaller by one.                           *)
LEMMA OneLess ==
    ASSUME NEW S, IsFiniteSet(S), NEW s \in SUBSET S, NEW x \in s
    PROVE  /\ s \ {x} \in SUBSET S /\ Cardinality(s \ {x}) + 1 = Cardinality(s)
           /\ Cardinality(s) \in Nat /\ Cardinality(s \ {x}) \in Nat /\ IsFiniteSet(s \ {x})
<1>1. IsFiniteSet(s) /\ Cardinality(s) \in Nat
  BY FS_Subset, FS_CardinalityType
<1>2. IsFiniteSet(s \ {x}) /\ Cardinality(s \ {x}) = Cardinality(s) - 1
  BY <1>1, FS_RemoveElement
<1>3. Cardinality(s \ {x}) \in Nat
  BY <1>2, FS_CardinalityType
<1> QED
  BY <1>1, <1>2, <1>3

(* A sum of integers is one, and at most as many times the greatest.       *)
LEMMA SumAtMost ==
    ASSUME NEW S, IsFiniteSet(S), NEW f, NEW m \in Int,
           \A x \in S : f[x] \in Int /\ f[x] =< m
    PROVE  /\ SumFunctionOnSet(f, S) \in Int
           /\ SumFunctionOnSet(f, S) =< m * Cardinality(S)
<1> DEFINE Sum(s) == SumFunctionOnSet(f, s)
           Bounded(s) == Sum(s) \in Int /\ Sum(s) =< m * Cardinality(s)
           Good == {s \in SUBSET S : Bounded(s)}
<1>1. /\ Sum({}) = 0
      /\ \A s \in SUBSET S : s # {} =>
            Adding!Chosen(s) \in s /\ Sum(s) = f[Adding!Chosen(s)] + Sum(s \ {Adding!Chosen(s)})
  BY SumSteps
<1>2. {} \in Good
  <2>1. Cardinality({}) = 0 /\ m * 0 = 0
    BY FS_EmptySet
  <2> QED
    BY <1>1, <2>1
<1>3. ASSUME NEW s \in SUBSET S, s # {},
             \A t \in SUBSET S : Cardinality(t) + 1 = Cardinality(s) => t \in Good
      PROVE  s \in Good
  <2> DEFINE x == Adding!Chosen(s)
             t == s \ {x}
  <2>1. x \in s /\ Sum(s) = f[x] + Sum(t)
    BY <1>1, <1>3
  <2>2. t \in SUBSET S /\ Cardinality(t) + 1 = Cardinality(s) /\ Cardinality(t) \in Nat
    <3> HIDE DEF x, Sum
    <3> QED
      BY <2>1, OneLess
  <2>3. Sum(t) \in Int /\ Sum(t) =< m * Cardinality(t)
    BY <1>3, <2>2
  <2>4. f[x] \in Int /\ f[x] =< m
    BY <2>1
  <2>5. \A a, b, n \in Int : a =< m /\ b =< m * n => a + b =< m * (n + 1)
    <3>1. \A n \in Int : m * (n + 1) = m * n + m /\ m * n \in Int
      OBVIOUS
    <3> QED
      BY <3>1
  <2> HIDE DEF Sum, t, x
  <2>6. Sum(s) \in Int /\ Sum(s) =< m * Cardinality(s)
    BY <2>1, <2>2, <2>3, <2>4, <2>5
  <2> QED
    BY <2>6
<1>4. S \in Good
  <2>1. Good \in SUBSET SUBSET S
    OBVIOUS
  <2> HIDE DEF Good
  <2> QED
    BY <1>2, <1>3, <2>1, SubsetInduction
<1> QED
  BY <1>4

(* A sum of lesser values is less.                                         *)
LEMMA SumLess ==
    ASSUME NEW S, IsFiniteSet(S), S # {}, NEW f, NEW g,
           \A x \in S : f[x] \in Int /\ g[x] \in Int /\ f[x] < g[x]
    PROVE  SumFunctionOnSet(f, S) < SumFunctionOnSet(g, S)
<1> DEFINE F(s) == SumFunctionOnSet(f, s)
           G(s) == SumFunctionOnSet(g, s)
           Lower(s) == F(s) \in Int /\ G(s) \in Int /\ (IF s = {} THEN F(s) = G(s) ELSE F(s) < G(s))
           Good == {s \in SUBSET S : Lower(s)}
<1>1. /\ F({}) = 0 /\ G({}) = 0
      /\ \A s \in SUBSET S : s # {} =>
            /\ Adding!Chosen(s) \in s
            /\ F(s) = f[Adding!Chosen(s)] + F(s \ {Adding!Chosen(s)})
            /\ G(s) = g[Adding!Chosen(s)] + G(s \ {Adding!Chosen(s)})
  BY SumSteps
<1>2. {} \in Good
  BY <1>1
<1>3. ASSUME NEW s \in SUBSET S, s # {},
             \A t \in SUBSET S : Cardinality(t) + 1 = Cardinality(s) => t \in Good
      PROVE  s \in Good
  <2> DEFINE x == Adding!Chosen(s)
             t == s \ {x}
  <2>1. x \in s /\ F(s) = f[x] + F(t) /\ G(s) = g[x] + G(t)
    BY <1>1, <1>3
  <2>2. t \in SUBSET S /\ Cardinality(t) + 1 = Cardinality(s)
    <3> HIDE DEF x, F, G
    <3> QED
      BY <2>1, OneLess
  <2>3. F(t) \in Int /\ G(t) \in Int /\ F(t) =< G(t)
    BY <1>3, <2>2
  <2>4. f[x] \in Int /\ g[x] \in Int /\ f[x] < g[x]
    BY <2>1
  <2> HIDE DEF F, G, t, x
  <2>5. F(s) \in Int /\ G(s) \in Int /\ F(s) < G(s)
    BY <2>1, <2>3, <2>4
  <2> QED
    BY <1>3, <2>5
<1>4. S \in Good
  <2>1. Good \in SUBSET SUBSET S
    OBVIOUS
  <2> HIDE DEF Good
  <2> QED
    BY <1>2, <1>3, <2>1, SubsetInduction
<1> QED
  BY <1>4

(* A finite set of integers has a greatest and a least one.                *)
LEMMA Extremes ==
    ASSUME NEW S, IsFiniteSet(S), S # {}, \A x \in S : x \in Int
    PROVE  /\ Max(S) \in S /\ \A x \in S : x =< Max(S)
           /\ Min(S) \in S /\ \A x \in S : Min(S) =< x
<1> DEFINE Bounds(s) == /\ \E x \in s : \A y \in s : x >= y
                        /\ \E x \in s : \A y \in s : x =< y
           Good == {s \in SUBSET S : s # {} => Bounds(s)}
<1>1. {} \in Good
  OBVIOUS
<1>2. ASSUME NEW s \in SUBSET S, s # {},
             \A t \in SUBSET S : Cardinality(t) + 1 = Cardinality(s) => t \in Good
      PROVE  s \in Good
  <2>1. PICK x \in s : TRUE
    BY <1>2
  <2> DEFINE t == s \ {x}
  <2>2. t \in Good
    <3>1. t \in SUBSET S /\ Cardinality(t) + 1 = Cardinality(s)
      BY <2>1, OneLess
    <3> QED
      BY <1>2, <3>1
  <2>3. CASE t = {}
    <3>1. \A y \in s : y = x
      BY <2>3
    <3> QED
      BY <2>1, <3>1
  <2>4. CASE t # {}
    <3>1. PICK g \in t : \A y \in t : g >= y
      BY <2>2, <2>4
    <3>2. PICK l \in t : \A y \in t : l =< y
      BY <2>2, <2>4
    <3>3. \A y \in s : y = x \/ y \in t
      OBVIOUS
    <3>4. x \in Int /\ g \in Int /\ l \in Int /\ \A y \in s : y \in Int
      OBVIOUS
    <3>5. \E z \in s : \A y \in s : z >= y
      <4>1. CASE x >= g
        <5>1. \A y \in s : x >= y
          BY <3>1, <3>3, <3>4, <4>1
        <5> QED
          BY <5>1
      <4>2. CASE g >= x
        <5>1. \A y \in s : g >= y
          BY <3>1, <3>3, <3>4, <4>2
        <5> QED
          BY <5>1
      <4> QED
        BY <3>4, <4>1, <4>2
    <3>6. \E z \in s : \A y \in s : z =< y
      <4>1. CASE x =< l
        <5>1. \A y \in s : x =< y
          BY <3>2, <3>3, <3>4, <4>1
        <5> QED
          BY <5>1
      <4>2. CASE l =< x
        <5>1. \A y \in s : l =< y
          BY <3>2, <3>3, <3>4, <4>2
        <5> QED
          BY <5>1
      <4> QED
        BY <3>4, <4>1, <4>2
    <3> QED
      BY <3>5, <3>6
  <2> QED
    BY <2>3, <2>4
<1>3. S \in Good
  <2>1. Good \in SUBSET SUBSET S
    OBVIOUS
  <2> HIDE DEF Good
  <2> QED
    BY <1>1, <1>2, <2>1, SubsetInduction
<1>4. (\E x \in S : \A y \in S : x >= y) /\ (\E x \in S : \A y \in S : x =< y)
  BY <1>3
<1>5. Max(S) \in S /\ \A y \in S : Max(S) >= y
  BY <1>4 DEF Max
<1>6. Min(S) \in S /\ \A y \in S : Min(S) =< y
  BY <1>4 DEF Min
<1>7. \A x, y \in Int : x >= y => y =< x
  OBVIOUS
<1> QED
  BY <1>5, <1>6, <1>7

(* A function on a finite set has finitely many values.                    *)
LEMMA RangeIsFinite ==
    ASSUME NEW S, IsFiniteSet(S), NEW f, DOMAIN f = S, f = [x \in S |-> f[x]]
    PROVE  IsFiniteSet(Range(f)) /\ (S # {} => Range(f) # {})
<1>1. f \in Surjection(S, Range(f))
  BY DEF Surjection, Range
<1>2. IsFiniteSet(Range(f))
  BY <1>1, FS_Surjection
<1> QED
  BY <1>2 DEF Range

-----------------------------------------------------------------------------
(* Strict total orders on finite sets, as sets of pairs.                   *)

Orders(R, S) ==
    /\ \A x, y \in S : x # y => (<<x, y>> \in R <=> <<y, x>> \notin R)
    /\ \A x \in S : <<x, x>> \notin R
    /\ \A x, y, z \in S : <<x, y>> \in R /\ <<y, z>> \in R => <<x, z>> \in R

Preceding(R, S, x) == {y \in S : <<y, x>> \in R}

(* Some element comes first.                                               *)
LEMMA SomeFirst ==
    ASSUME NEW S, IsFiniteSet(S), S # {}, NEW R, Orders(R, S)
    PROVE  \E x \in S : \A y \in S \ {x} : <<x, y>> \in R
<1> DEFINE First(s) == \E x \in s : \A y \in s \ {x} : <<x, y>> \in R
           Good == {s \in SUBSET S : s = {} \/ First(s)}
<1>1. {} \in Good
  OBVIOUS
<1>2. ASSUME NEW s \in SUBSET S, s # {},
             \A t \in SUBSET S : Cardinality(t) + 1 = Cardinality(s) => t \in Good
      PROVE  s \in Good
  <2>1. PICK x \in s : TRUE
    BY <1>2
  <2>2. s \ {x} \in Good
    <3>1. s \ {x} \in SUBSET S /\ Cardinality(s \ {x}) + 1 = Cardinality(s)
      BY <2>1, OneLess
    <3> QED
      BY <1>2, <3>1
  <2>3. CASE s \ {x} = {}
    BY <2>1, <2>3
  <2>4. CASE s \ {x} # {}
    <3>1. PICK f \in s \ {x} : \A y \in (s \ {x}) \ {f} : <<f, y>> \in R
      BY <2>2, <2>4
    <3>2. CASE <<f, x>> \in R
      BY <3>1, <3>2
    <3>3. CASE <<x, f>> \in R
      <4>1. \A y \in s \ {x} : <<x, y>> \in R
        BY <3>1, <3>3 DEF Orders
      <4> QED
        BY <4>1
    <3> QED
      BY <3>1, <3>2, <3>3 DEF Orders
  <2> QED
    BY <2>3, <2>4
<1>3. S \in Good
  <2>1. Good \in SUBSET SUBSET S
    OBVIOUS
  <2> HIDE DEF Good
  <2> QED
    BY <1>1, <1>2, <2>1, SubsetInduction
<1> QED
  BY <1>3

(* Each place in the order is taken.                                       *)
LEMMA EachPlace ==
    ASSUME NEW S, IsFiniteSet(S), NEW R, Orders(R, S)
    PROVE  \A k \in 1 .. Cardinality(S) : \E x \in S :
              Cardinality(Preceding(R, S, x)) = k - 1
<1> DEFINE Placed(s) == \A k \in 1 .. Cardinality(s) : \E x \in s :
                           Cardinality(Preceding(R, s, x)) = k - 1
           Good == {s \in SUBSET S : Placed(s)}
<1>1. {} \in Good
  BY FS_EmptySet
<1>2. ASSUME NEW s \in SUBSET S, s # {},
             \A t \in SUBSET S : Cardinality(t) + 1 = Cardinality(s) => t \in Good
      PROVE  s \in Good
  <2>1. IsFiniteSet(s) /\ Orders(R, s)
    BY FS_Subset DEF Orders
  <2>2. PICK f \in s : \A y \in s \ {f} : <<f, y>> \in R
    BY <1>2, <2>1, SomeFirst
  <2> DEFINE t == s \ {f}
  <2>3. /\ t \in Good /\ IsFiniteSet(t) /\ Cardinality(t) \in Nat
        /\ Cardinality(t) + 1 = Cardinality(s)
    BY <1>2, OneLess
  <2>4. Cardinality(Preceding(R, s, f)) = 0
    <3>1. Preceding(R, s, f) = {}
      BY <2>1, <2>2 DEF Preceding, Orders
    <3> QED
      BY <3>1, FS_EmptySet
  <2>5. ASSUME NEW x \in t
        PROVE  /\ Cardinality(Preceding(R, t, x)) \in Nat
               /\ Cardinality(Preceding(R, s, x)) = Cardinality(Preceding(R, t, x)) + 1
    <3>1. Preceding(R, s, x) = Preceding(R, t, x) \cup {f} /\ f \notin Preceding(R, t, x)
      BY <2>2, <2>5 DEF Preceding
    <3>2. IsFiniteSet(Preceding(R, t, x))
      BY <2>3, FS_Subset DEF Preceding
    <3>3. Cardinality(Preceding(R, t, x)) \in Nat
      BY <3>2, FS_CardinalityType
    <3> QED
      BY <3>1, <3>2, <3>3, FS_AddElement
  <2>6. ASSUME NEW k \in 1 .. Cardinality(s)
        PROVE  \E x \in s : Cardinality(Preceding(R, s, x)) = k - 1
    <3>1. CASE k = 1
      BY <2>4, <3>1
    <3>2. CASE k # 1
      <4>1. k - 1 \in 1 .. Cardinality(t)
        BY <2>3, <2>6, <3>2
      <4>2. PICK x \in t : Cardinality(Preceding(R, t, x)) = (k - 1) - 1
        BY <2>3, <4>1
      <4>3. Cardinality(Preceding(R, s, x)) = k - 1
        BY <2>5, <4>2
      <4> QED
        BY <4>3
    <3> QED
      BY <3>1, <3>2
  <2> QED
    BY <2>6
<1>3. S \in Good
  <2>1. Good \in SUBSET SUBSET S
    OBVIOUS
  <2> HIDE DEF Good
  <2> QED
    BY <1>1, <1>2, <2>1, SubsetInduction
<1> QED
  BY <1>3

(* Who comes earlier has fewer before him.                                 *)
LEMMA EarlierHasFewer ==
    ASSUME NEW S, IsFiniteSet(S), NEW R, Orders(R, S), NEW x \in S, NEW y \in S,
           <<x, y>> \in R
    PROVE  /\ Cardinality(Preceding(R, S, x)) \in Nat /\ Cardinality(Preceding(R, S, y)) \in Nat
           /\ Cardinality(Preceding(R, S, x)) < Cardinality(Preceding(R, S, y))
<1> DEFINE X == Preceding(R, S, x)
           Y == Preceding(R, S, y)
<1>1. IsFiniteSet(X) /\ IsFiniteSet(Y)
  BY FS_Subset DEF Preceding
<1>2. X \subseteq Y \ {x} /\ x \in Y
  BY DEF Preceding, Orders
<1>3. Cardinality(X) \in Nat /\ Cardinality(Y) \in Nat
  BY <1>1, FS_CardinalityType
<1>4. IsFiniteSet(Y \ {x}) /\ Cardinality(Y \ {x}) = Cardinality(Y) - 1
  BY <1>1, <1>2, FS_RemoveElement
<1>5. Cardinality(X) =< Cardinality(Y \ {x})
  BY <1>2, <1>4, FS_Subset
<1> QED
  BY <1>3, <1>4, <1>5

-----------------------------------------------------------------------------
(* Fractions.                                                              *)

Fractions == Int \X (Nat \ {0})

(* Products of integers, as far as the fractions need them.                *)
LEMMA Products ==
    /\ \A a, b \in Int : a * b \in Int /\ a * b = b * a
    /\ \A a, b, c \in Int : (a * b) * c = (a * c) * b
    /\ \A a, b, c \in Int : c > 0 => (a < b <=> a * c < b * c)
    /\ \A a, b, c \in Int : c > 0 => (a =< b <=> a * c =< b * c)
    /\ \A a, b \in Int : a > 0 /\ b > 0 => a * b > 0
<1>1. \A a, b \in Int : a * b \in Int /\ a * b = b * a
  OBVIOUS
<1>2. \A a, b, c \in Int : (a * b) * c = (a * c) * b
  OBVIOUS
<1>3. \A a, b \in Int : a > 0 /\ b > 0 => a * b > 0
  OBVIOUS
<1>4. ASSUME NEW a \in Int, NEW b \in Int, NEW c \in Int, c > 0
      PROVE  (a < b <=> a * c < b * c) /\ (a =< b <=> a * c =< b * c)
  <2>1. b * c = a * c + (b - a) * c /\ a * c \in Int /\ b * c \in Int /\ (b - a) * c \in Int
    OBVIOUS
  <2>2. a * c = b * c + (a - b) * c /\ (a - b) * c \in Int
    OBVIOUS
  <2>3. b - a > 0 => (b - a) * c > 0
    BY <1>3, <1>4
  <2>4. a - b > 0 => (a - b) * c > 0
    BY <1>3, <1>4
  <2>5. a = b => a * c = b * c
    OBVIOUS
  <2> QED
    BY <2>1, <2>2, <2>3, <2>4, <2>5
<1> QED
  BY <1>1, <1>2, <1>3, <1>4

(* Comparisons of three fractions a/b, c/d and e/f, the second not strict. *)
LEMMA ThreeFractions ==
    ASSUME NEW a \in Int, NEW c \in Int, NEW e \in Int,
           NEW b \in Nat \ {0}, NEW d \in Nat \ {0}, NEW f \in Nat \ {0}
    PROVE  /\ a * d < c * b /\ c * f =< e * d => a * f < e * b
           /\ a * d =< c * b /\ c * f < e * d => a * f < e * b
           /\ a * d =< c * b /\ c * f =< e * d => a * f =< e * b
<1>1. b \in Int /\ d \in Int /\ f \in Int /\ b > 0 /\ d > 0 /\ f > 0
  OBVIOUS
<1>2. /\ a * d \in Int /\ c * b \in Int /\ c * f \in Int /\ e * d \in Int
      /\ a * f \in Int /\ e * b \in Int
  BY <1>1, Products
<1>3. /\ (a * d) * f = (a * f) * d /\ (c * b) * f = (c * f) * b
      /\ (e * d) * b = (e * b) * d
  BY <1>1, Products
<1>4. /\ (a * d) * f \in Int /\ (c * b) * f \in Int /\ (e * d) * b \in Int
  BY <1>1, <1>2, Products
<1>5. /\ a * d < c * b => (a * d) * f < (c * b) * f
      /\ a * d =< c * b => (a * d) * f =< (c * b) * f
  BY <1>1, <1>2, Products
<1>6. /\ c * f < e * d => (c * f) * b < (e * d) * b
      /\ c * f =< e * d => (c * f) * b =< (e * d) * b
  BY <1>1, <1>2, Products
<1>7. /\ (a * f) * d < (e * b) * d => a * f < e * b
      /\ (a * f) * d =< (e * b) * d => a * f =< e * b
  BY <1>1, <1>2, Products
<1>8. \A x, y, z \in Int : /\ x < y /\ y =< z => x < z
                           /\ x =< y /\ y < z => x < z
                           /\ x =< y /\ y =< z => x =< z
  OBVIOUS
<1> QED
  BY <1>3, <1>4, <1>5, <1>6, <1>7, <1>8

(* The order of fractions.                                                 *)
LEMMA LessOrders ==
    /\ \A x, y \in Fractions : Less(x, y) => ~Less(y, x)
    /\ \A x \in Fractions : ~Less(x, x)
    /\ \A x, y, z \in Fractions :
          /\ Less(x, y) /\ ~Less(z, y) => Less(x, z)
          /\ ~Less(y, x) /\ Less(y, z) => Less(x, z)
          /\ ~Less(y, x) /\ ~Less(z, y) => ~Less(z, x)
<1>1. ASSUME NEW x \in Fractions, NEW y \in Fractions
      PROVE  /\ Less(x, y) => ~Less(y, x)
             /\ ~Less(x, x)
             /\ x[1] * y[2] \in Int /\ y[1] * x[2] \in Int
             /\ ~Less(y, x) <=> x[1] * y[2] =< y[1] * x[2]
  <2>1. /\ x[1] \in Int /\ x[2] \in Int /\ y[1] \in Int /\ y[2] \in Int
    BY DEF Fractions
  <2>2. x[1] * y[2] \in Int /\ y[1] * x[2] \in Int /\ x[1] * x[2] \in Int
    BY <2>1, Products
  <2> QED
    BY <2>2 DEF Less
<1>2. ASSUME NEW x \in Fractions, NEW y \in Fractions, NEW z \in Fractions
      PROVE  /\ Less(x, y) /\ ~Less(z, y) => Less(x, z)
             /\ ~Less(y, x) /\ Less(y, z) => Less(x, z)
             /\ ~Less(y, x) /\ ~Less(z, y) => ~Less(z, x)
  <2>1. /\ x[1] \in Int /\ y[1] \in Int /\ z[1] \in Int
        /\ x[2] \in Nat \ {0} /\ y[2] \in Nat \ {0} /\ z[2] \in Nat \ {0}
    BY DEF Fractions
  <2> DEFINE xy == x[1] * y[2]
             yx == y[1] * x[2]
             yz == y[1] * z[2]
             zy == z[1] * y[2]
             xz == x[1] * z[2]
             zx == z[1] * x[2]
  <2>2. /\ xy < yx /\ yz =< zy => xz < zx
        /\ xy =< yx /\ yz < zy => xz < zx
        /\ xy =< yx /\ yz =< zy => xz =< zx
    <3> DEFINE a == x[1]
               b == x[2]
               c == y[1]
               d == y[2]
               e == z[1]
               f == z[2]
    <3>1. /\ a \in Int /\ c \in Int /\ e \in Int
          /\ b \in Nat \ {0} /\ d \in Nat \ {0} /\ f \in Nat \ {0}
      BY <2>1
    <3>2. xy = a * d /\ yx = c * b /\ yz = c * f /\ zy = e * d /\ xz = a * f /\ zx = e * b
      OBVIOUS
    <3> HIDE DEF a, b, c, d, e, f, xy, yx, yz, zy, xz, zx
    <3>3. /\ a * d < c * b /\ c * f =< e * d => a * f < e * b
          /\ a * d =< c * b /\ c * f < e * d => a * f < e * b
          /\ a * d =< c * b /\ c * f =< e * d => a * f =< e * b
      BY <3>1, ThreeFractions
    <3> QED
      BY <3>2, <3>3
  <2>3. /\ Less(x, y) <=> xy < yx
        /\ Less(y, z) <=> yz < zy
        /\ Less(x, z) <=> xz < zx
    BY DEF Less
  <2>4. /\ ~Less(y, x) <=> xy =< yx
        /\ ~Less(z, y) <=> yz =< zy
        /\ ~Less(z, x) <=> xz =< zx
    BY <1>1
  <2> HIDE DEF xy, yx, yz, zy, xz, zx
  <2> QED
    BY <2>2, <2>3, <2>4
<1> QED
  BY <1>1, <1>2

(* Sums of fractions are fractions.                                        *)
LEMMA PlusType ==
    ASSUME NEW x \in Fractions, NEW y \in Fractions
    PROVE  Plus(x, y) \in Fractions
<1>1. /\ x[1] \in Int /\ y[1] \in Int /\ x[2] \in Int /\ y[2] \in Int
      /\ x[2] > 0 /\ y[2] > 0
  BY DEF Fractions
<1>2. /\ x[1] * y[2] \in Int /\ y[1] * x[2] \in Int
      /\ x[2] * y[2] \in Int /\ x[2] * y[2] > 0
  BY <1>1, Products
<1>3. x[1] * y[2] + y[1] * x[2] \in Int /\ x[2] * y[2] \in Nat \ {0}
  BY <1>2
<1> QED
  BY <1>3 DEF Plus, Fractions

(* Sums keep the order.                                                    *)
LEMMA PlusKeepsOrder ==
    ASSUME NEW x \in Fractions, NEW y \in Fractions, NEW u \in Fractions, NEW v \in Fractions,
           ~Less(u, x), ~Less(v, y)
    PROVE  ~Less(Plus(u, v), Plus(x, y))
<1> DEFINE a == x[1]
           b == x[2]
           c == y[1]
           d == y[2]
           e == u[1]
           f == u[2]
           g == v[1]
           h == v[2]
<1>1. /\ a \in Int /\ c \in Int /\ e \in Int /\ g \in Int
      /\ b \in Int /\ d \in Int /\ f \in Int /\ h \in Int
      /\ b > 0 /\ d > 0 /\ f > 0 /\ h > 0
  BY DEF Fractions
<1>2. ~(e * b < a * f) /\ ~(g * d < c * h)
  BY DEF Less
<1>3. Less(Plus(u, v), Plus(x, y))
         <=> (e * h + g * f) * (b * d) < (a * d + c * b) * (f * h)
  BY DEF Less, Plus
<1> HIDE DEF a, b, c, d, e, f, g, h
<1>4. /\ a * f =< e * b /\ c * h =< g * d
      /\ a * f \in Int /\ e * b \in Int /\ c * h \in Int /\ g * d \in Int
      /\ d * h \in Int /\ d * h > 0 /\ b * f \in Int /\ b * f > 0
  BY <1>1, <1>2, Products
<1>5. (a * f) * (d * h) =< (e * b) * (d * h) /\ (c * h) * (b * f) =< (g * d) * (b * f)
  BY <1>4, Products
<1>6. /\ (e * h + g * f) * (b * d) = (e * b) * (d * h) + (g * d) * (b * f)
      /\ (a * d + c * b) * (f * h) = (a * f) * (d * h) + (c * h) * (b * f)
  BY <1>1
<1>7. /\ (a * f) * (d * h) \in Int /\ (e * b) * (d * h) \in Int
      /\ (c * h) * (b * f) \in Int /\ (g * d) * (b * f) \in Int
  BY <1>4, Products
<1>8. ~((e * h + g * f) * (b * d) < (a * d + c * b) * (f * h))
  <2>1. \A p, q, r, s \in Int : p =< q /\ r =< s => ~(q + s < p + r)
    OBVIOUS
  <2> QED
    BY <1>5, <1>6, <1>7, <2>1
<1> QED
  BY <1>3, <1>8

(* So does taking x/y times p/q, or half of it, p and q positive.          *)
LEMMA ScalingKeepsOrder ==
    ASSUME NEW x \in Fractions, NEW u \in Fractions, ~Less(u, x),
           NEW p \in Nat \ {0}, NEW q \in Nat \ {0}
    PROVE  /\ <<x[1] * p, x[2] * q>> \in Fractions
           /\ ~Less(<<u[1] * p, u[2] * q>>, <<x[1] * p, x[2] * q>>)
<1> DEFINE a == x[1]
           b == x[2]
           e == u[1]
           f == u[2]
<1>1. /\ a \in Int /\ e \in Int /\ b \in Int /\ f \in Int /\ b > 0 /\ f > 0
      /\ p \in Int /\ q \in Int /\ p > 0 /\ q > 0
  BY DEF Fractions
<1>2. ~(e * b < a * f)
  BY DEF Less
<1>3. Less(<<u[1] * p, u[2] * q>>, <<x[1] * p, x[2] * q>>)
         <=> (e * p) * (b * q) < (a * p) * (f * q)
  BY DEF Less
<1>4. a * p \in Int /\ b * q \in Int /\ b * q > 0
  BY <1>1, Products
<1>5. <<a * p, b * q>> \in Fractions
  <2> HIDE DEF a, b
  <2>1. b * q \in Nat \ {0}
    BY <1>4
  <2> QED
    BY <1>4, <2>1 DEF Fractions
<1>6. (e * p) * (b * q) = (e * b) * (p * q) /\ (a * p) * (f * q) = (a * f) * (p * q)
  <2> HIDE DEF a, b, e, f
  <2> QED
    BY <1>1
<1>7. e * b \in Int /\ a * f \in Int /\ p * q \in Int /\ p * q > 0 /\ a * f =< e * b
  <2> HIDE DEF a, b, e, f
  <2> QED
    BY <1>1, <1>2, Products
<1>8. ~((e * b) * (p * q) < (a * f) * (p * q))
  <2> HIDE DEF a, b, e, f
  <2>1. (a * f) * (p * q) =< (e * b) * (p * q)
    BY <1>7, Products
  <2>2. (a * f) * (p * q) \in Int /\ (e * b) * (p * q) \in Int
    BY <1>7, Products
  <2> QED
    BY <2>1, <2>2
<1> QED
  BY <1>3, <1>5, <1>6, <1>8

(* A finite set of fractions has a least and a greatest one.               *)
LEMMA ExtremeFractions ==
    ASSUME NEW S, IsFiniteSet(S), S # {}, S \subseteq Fractions
    PROVE  /\ \E v \in S : \A w \in S : ~Less(w, v)
           /\ \E v \in S : \A w \in S : ~Less(v, w)
<1> DEFINE Bounds(s) == /\ \E v \in s : \A w \in s : ~Less(w, v)
                        /\ \E v \in s : \A w \in s : ~Less(v, w)
           Good == {s \in SUBSET S : s # {} => Bounds(s)}
<1>1. {} \in Good
  OBVIOUS
<1>2. ASSUME NEW s \in SUBSET S, s # {},
             \A t \in SUBSET S : Cardinality(t) + 1 = Cardinality(s) => t \in Good
      PROVE  s \in Good
  <2>1. PICK x \in s : TRUE
    BY <1>2
  <2> DEFINE t == s \ {x}
  <2>2. t \in Good
    <3>1. t \in SUBSET S /\ Cardinality(t) + 1 = Cardinality(s)
      BY <2>1, OneLess
    <3> QED
      BY <1>2, <3>1
  <2>3. CASE t = {}
    <3>1. \A y \in s : y = x
      BY <2>3
    <3>2. ~Less(x, x)
      BY LessOrders
    <3> QED
      BY <2>1, <3>1, <3>2
  <2>4. CASE t # {}
    <3>1. PICK g \in t : \A y \in t : ~Less(g, y)
      BY <2>2, <2>4
    <3>2. PICK l \in t : \A y \in t : ~Less(y, l)
      BY <2>2, <2>4
    <3>3. \A y \in s : y = x \/ y \in t
      OBVIOUS
    <3>4. x \in Fractions /\ g \in Fractions /\ l \in Fractions /\ \A y \in s : y \in Fractions
      OBVIOUS
    <3>5. \E z \in s : \A y \in s : ~Less(z, y)
      <4>1. CASE Less(g, x)
        <5>1. \A y \in s : ~Less(x, y)
          BY <3>1, <3>3, <3>4, <4>1, LessOrders
        <5> QED
          BY <5>1
      <4>2. CASE ~Less(g, x)
        <5>1. \A y \in s : ~Less(g, y)
          BY <3>1, <3>3, <3>4, <4>2
        <5> QED
          BY <5>1
      <4> QED
        BY <4>1, <4>2
    <3>6. \E z \in s : \A y \in s : ~Less(y, z)
      <4>1. CASE Less(x, l)
        <5>1. \A y \in s : ~Less(y, x)
          BY <3>2, <3>3, <3>4, <4>1, LessOrders
        <5> QED
          BY <5>1
      <4>2. CASE ~Less(x, l)
        <5>1. \A y \in s : ~Less(y, l)
          BY <3>2, <3>3, <3>4, <4>2
        <5> QED
          BY <5>1
      <4> QED
        BY <4>1, <4>2
    <3> QED
      BY <3>5, <3>6
  <2> QED
    BY <2>3, <2>4
<1>3. S \in Good
  <2>1. Good \in SUBSET SUBSET S
    OBVIOUS
  <2> HIDE DEF Good
  <2> QED
    BY <1>1, <1>2, <2>1, SubsetInduction
<1> QED
  BY <1>3

-----------------------------------------------------------------------------
(* The rows of the tool, and their ranks.                                  *)

MemoryFigures ==
    {"avg_external_fragmentation_pct", "max_external_fragmentation_pct",
     "avg_internal_waste_mb", "max_internal_waste_mb", "avg_free_block_count",
     "min_free_memory_mb", "peak_used_memory_mb"}
FigureNames == Statistics \cup MemoryFigures
CaseRecords ==
    [context : ToSet(CONTEXTS), scheduler : ToSet(SCHEDULERS),
     memory : ToSet(MEMORY_STRATEGIES)]
Seeds == {a.seed : a \in Invocations}
RowRecords ==
    [context : ToSet(CONTEXTS), scheduler : ToSet(SCHEDULERS),
     memory : ToSet(MEMORY_STRATEGIES), figures : [FigureNames -> Fractions],
     run : [config : CaseRecords, seed : Seeds, state : {"DEAD"}]]

(* The metrics of a score are figures of a row.                            *)
LEMMA MetricsAreFigures ==
    ASSUME NEW key \in DOMAIN Metrics
    PROVE  /\ DOMAIN Metrics[key] = 1 .. 6
           /\ ToSet(Metrics[key]) = {Metrics[key][k] : k \in 1 .. 6}
           /\ \A k \in 1 .. 6 :
                 /\ Metrics[key][k].metric \in FigureNames
                 /\ Metrics[key][k].higher \in BOOLEAN
                 /\ Metrics[key][k].higher <=> Metrics[key][k].metric \in HigherIsBetter
<1>1. key \in {"performance", "memory"}
  BY DEF Metrics
<1>2. \A k \in 1 .. 6 : k \in {1, 2, 3, 4, 5, 6}
  OBVIOUS
<1>3. CASE key = "performance"
  <2>1. Metrics[key] = PerformanceMetrics
    BY <1>3 DEF Metrics
  <2>2. DOMAIN PerformanceMetrics = 1 .. 6
    BY DEF PerformanceMetrics
  <2>3. \A k \in 1 .. 6 :
           /\ PerformanceMetrics[k].metric \in FigureNames
           /\ PerformanceMetrics[k].higher \in BOOLEAN
           /\ PerformanceMetrics[k].higher <=> PerformanceMetrics[k].metric \in HigherIsBetter
    <3>1. /\ PerformanceMetrics[1].metric = "avg_turnaround" /\ PerformanceMetrics[1].higher = FALSE
          /\ PerformanceMetrics[2].metric = "avg_ready_time" /\ PerformanceMetrics[2].higher = FALSE
          /\ PerformanceMetrics[3].metric = "avg_response" /\ PerformanceMetrics[3].higher = FALSE
          /\ PerformanceMetrics[4].metric = "total_time" /\ PerformanceMetrics[4].higher = FALSE
          /\ PerformanceMetrics[5].metric = "throughput" /\ PerformanceMetrics[5].higher = TRUE
          /\ PerformanceMetrics[6].metric = "cpu_util" /\ PerformanceMetrics[6].higher = TRUE
      BY DEF PerformanceMetrics
    <3>2. /\ "avg_turnaround" \in FigureNames /\ ("avg_turnaround" \in HigherIsBetter) = FALSE
          /\ "avg_ready_time" \in FigureNames /\ ("avg_ready_time" \in HigherIsBetter) = FALSE
          /\ "avg_response" \in FigureNames /\ ("avg_response" \in HigherIsBetter) = FALSE
          /\ "total_time" \in FigureNames /\ ("total_time" \in HigherIsBetter) = FALSE
          /\ "throughput" \in FigureNames /\ ("throughput" \in HigherIsBetter) = TRUE
          /\ "cpu_util" \in FigureNames /\ ("cpu_util" \in HigherIsBetter) = TRUE
      BY DEF FigureNames, Statistics, HigherIsBetter
    <3> QED
      BY <1>2, <3>1, <3>2, Zenon
  <2> QED
    BY <2>1, <2>2, <2>3 DEF ToSet
<1>4. CASE key = "memory"
  <2>1. Metrics[key] = MemoryMetrics
    BY <1>4 DEF Metrics
  <2>2. DOMAIN MemoryMetrics = 1 .. 6
    BY DEF MemoryMetrics
  <2>3. \A k \in 1 .. 6 :
           /\ MemoryMetrics[k].metric \in FigureNames
           /\ MemoryMetrics[k].higher \in BOOLEAN
           /\ MemoryMetrics[k].higher <=> MemoryMetrics[k].metric \in HigherIsBetter
    <3>1. /\ MemoryMetrics[1].metric = "avg_external_fragmentation_pct" /\ MemoryMetrics[1].higher = FALSE
          /\ MemoryMetrics[2].metric = "max_external_fragmentation_pct" /\ MemoryMetrics[2].higher = FALSE
          /\ MemoryMetrics[3].metric = "avg_internal_waste_mb" /\ MemoryMetrics[3].higher = FALSE
          /\ MemoryMetrics[4].metric = "max_internal_waste_mb" /\ MemoryMetrics[4].higher = FALSE
          /\ MemoryMetrics[5].metric = "swap_outs" /\ MemoryMetrics[5].higher = FALSE
          /\ MemoryMetrics[6].metric = "avg_free_block_count" /\ MemoryMetrics[6].higher = FALSE
      BY DEF MemoryMetrics
    <3>2. /\ "avg_external_fragmentation_pct" \in FigureNames /\ ("avg_external_fragmentation_pct" \in HigherIsBetter) = FALSE
          /\ "max_external_fragmentation_pct" \in FigureNames /\ ("max_external_fragmentation_pct" \in HigherIsBetter) = FALSE
          /\ "avg_internal_waste_mb" \in FigureNames /\ ("avg_internal_waste_mb" \in HigherIsBetter) = FALSE
          /\ "max_internal_waste_mb" \in FigureNames /\ ("max_internal_waste_mb" \in HigherIsBetter) = FALSE
          /\ "swap_outs" \in FigureNames /\ ("swap_outs" \in HigherIsBetter) = FALSE
          /\ "avg_free_block_count" \in FigureNames /\ ("avg_free_block_count" \in HigherIsBetter) = FALSE
      BY DEF FigureNames, Statistics, MemoryFigures, HigherIsBetter
    <3> QED
      BY <1>2, <3>1, <3>2, Zenon
  <2> QED
    BY <2>1, <2>2, <2>3 DEF ToSet
<1> QED
  BY <1>1, <1>3, <1>4

AheadPairs(rs, group, m) == {p \in group \X group : Ahead(rs, p[1], p[2], m)}

(* A stable sort puts the rows in a strict total order.                    *)
LEMMA AheadOrders ==
    ASSUME NEW rs \in Seq(RowRecords), NEW group \in SUBSET (DOMAIN rs), NEW m,
           m.metric \in FigureNames, m.higher \in BOOLEAN
    PROVE  Orders(AheadPairs(rs, group, m), group)
<1> DEFINE x(i) == rs[i].figures[m.metric]
           R == AheadPairs(rs, group, m)
<1>1. \A i \in group : x(i) \in Fractions /\ i \in Int
  <2>1. \A i \in group : i \in 1 .. Len(rs) /\ rs[i] \in RowRecords
    BY LenProperties
  <2> QED
    BY <2>1 DEF RowRecords
<1>2. \A i, j \in group : <<i, j>> \in R <=> Ahead(rs, i, j, m)
  BY DEF AheadPairs
<1>3. \A i, j \in group : Better(rs[i], rs[j], m) <=>
         IF m.higher THEN Less(x(j), x(i)) ELSE Less(x(i), x(j))
  BY DEF Better
<1> HIDE DEF x, R
<1>4. \A i, j \in group : i # j => (Ahead(rs, i, j, m) <=> ~Ahead(rs, j, i, m))
  <2>1. ASSUME NEW i \in group, NEW j \in group, i # j
        PROVE  Ahead(rs, i, j, m) <=> ~Ahead(rs, j, i, m)
    <3>1. (i < j /\ ~(j < i)) \/ (j < i /\ ~(i < j))
      BY <1>1, <2>1
    <3>2. ~(Better(rs[i], rs[j], m) /\ Better(rs[j], rs[i], m))
      BY <1>1, <1>3, LessOrders
    <3> QED
      BY <3>1, <3>2 DEF Ahead
  <2> QED
    BY <2>1
<1>5. \A i \in group : ~Ahead(rs, i, i, m)
  <2>1. ASSUME NEW i \in group PROVE ~Ahead(rs, i, i, m)
    <3>1. ~Better(rs[i], rs[i], m) /\ ~(i < i)
      BY <1>1, <1>3, LessOrders
    <3> QED
      BY <3>1 DEF Ahead
  <2> QED
    BY <2>1
<1>6. ASSUME NEW i \in group, NEW j \in group, NEW k \in group,
             Ahead(rs, i, j, m), Ahead(rs, j, k, m)
      PROVE  Ahead(rs, i, k, m)
  <2>1. i < j /\ j < k => i < k
    BY <1>1
  <2>2. x(i) \in Fractions /\ x(j) \in Fractions /\ x(k) \in Fractions
    BY <1>1
  <2>3. /\ Better(rs[i], rs[j], m) /\ ~Better(rs[k], rs[j], m) => Better(rs[i], rs[k], m)
        /\ ~Better(rs[j], rs[i], m) /\ Better(rs[j], rs[k], m) => Better(rs[i], rs[k], m)
        /\ ~Better(rs[j], rs[i], m) /\ ~Better(rs[k], rs[j], m) => ~Better(rs[k], rs[i], m)
    <3>1. CASE m.higher
      BY <1>3, <2>2, <3>1, LessOrders
    <3>2. CASE ~m.higher
      BY <1>3, <2>2, <3>2, LessOrders
    <3> QED
      BY <3>1, <3>2
  <2>4. /\ Better(rs[i], rs[j], m) => ~Better(rs[j], rs[i], m)
        /\ Better(rs[j], rs[k], m) => ~Better(rs[k], rs[j], m)
    BY <1>3, <2>2, LessOrders
  <2> QED
    BY <1>6, <2>1, <2>3, <2>4 DEF Ahead
<1> QED
  BY <1>2, <1>4, <1>5, <1>6 DEF Orders, R

(* A rank is a place in this order: who is ahead has the lesser one.       *)
LEMMA RankIsLess ==
    ASSUME NEW rs \in Seq(RowRecords), NEW group \in SUBSET (DOMAIN rs), NEW m,
           m.metric \in FigureNames, m.higher \in BOOLEAN, NEW i \in group
    PROVE  /\ Rank(rs, group, i, m) \in Int
           /\ \A j \in group : Ahead(rs, i, j, m) =>
                 Rank(rs, group, i, m) < Rank(rs, group, j, m)
<1> DEFINE R == AheadPairs(rs, group, m)
           before(k) == Cardinality(Preceding(R, group, k))
<1>1. IsFiniteSet(group) /\ Orders(R, group)
  <2>1. IsFiniteSet(DOMAIN rs)
    BY LenProperties, FS_Interval
  <2> QED
    BY <2>1, AheadOrders, FS_Subset
<1>2. \A k \in group : Rank(rs, group, k, m) = 1 + before(k)
  <2>1. ASSUME NEW k \in group PROVE {j \in group : Ahead(rs, j, k, m)} = Preceding(R, group, k)
    BY DEF AheadPairs, Preceding
  <2> QED
    BY <2>1 DEF Rank
<1>3. before(i) \in Nat
  BY <1>1, FS_Subset, FS_CardinalityType DEF Preceding
<1>4. ASSUME NEW j \in group, Ahead(rs, i, j, m)
      PROVE  Rank(rs, group, i, m) < Rank(rs, group, j, m)
  <2>1. <<i, j>> \in R
    BY <1>4 DEF AheadPairs
  <2>2. before(i) \in Nat /\ before(j) \in Nat /\ before(i) < before(j)
    <3> HIDE DEF R
    <3> QED
      BY <1>1, <2>1, EarlierHasFewer
  <2> HIDE DEF before
  <2> QED
    BY <1>2, <2>2
<1> HIDE DEF before
<1> QED
  BY <1>2, <1>3, <1>4

(* A sum of integers is one.                                               *)
LEMMA SumIsInt ==
    ASSUME NEW S, IsFiniteSet(S), NEW f, \A x \in S : f[x] \in Int
    PROVE  SumFunctionOnSet(f, S) \in Int
<1> DEFINE Sum(s) == SumFunctionOnSet(f, s)
           Good == {s \in SUBSET S : Sum(s) \in Int}
<1>1. /\ Sum({}) = 0
      /\ \A s \in SUBSET S : s # {} =>
            /\ Adding!Chosen(s) \in s
            /\ Sum(s) = f[Adding!Chosen(s)] + Sum(s \ {Adding!Chosen(s)})
  BY SumSteps
<1> HIDE DEF Sum
<1>2. {} \in Good
  BY <1>1
<1>3. ASSUME NEW s \in SUBSET S, s # {},
             \A t \in SUBSET S : Cardinality(t) + 1 = Cardinality(s) => t \in Good
      PROVE  s \in Good
  <2> DEFINE x == Adding!Chosen(s)
  <2>1. x \in s /\ Sum(s) = f[x] + Sum(s \ {x})
    BY <1>1, <1>3
  <2> HIDE DEF x
  <2>2. s \ {x} \in SUBSET S /\ Cardinality(s \ {x}) + 1 = Cardinality(s)
    BY <2>1, OneLess
  <2>3. Sum(s \ {x}) \in Int /\ f[x] \in Int
    BY <1>3, <2>1, <2>2
  <2> QED
    BY <2>1, <2>3
<1>4. S \in Good
  <2>1. Good \in SUBSET SUBSET S
    OBVIOUS
  <2> HIDE DEF Good
  <2> QED
    BY <1>2, <1>3, <2>1, SubsetInduction
<1> QED
  BY <1>4 DEF Sum

(* Who is ahead by every metric has the lesser score.                      *)
LEMMA ScoreIsLess ==
    ASSUME NEW rs \in Seq(RowRecords), NEW key \in DOMAIN Metrics, NEW i \in DOMAIN rs
    PROVE  /\ AddScores(rs)[i][key] \in Int
           /\ \A j \in DOMAIN rs :
                 rs[i].context = rs[j].context
                   /\ (\A k \in 1 .. 6 : Ahead(rs, i, j, Metrics[key][k]))
                 => AddScores(rs)[i][key] < AddScores(rs)[j][key]
<1> DEFINE group == Group(rs, rs[i].context)
           ranks(n) == [k \in 1 .. 6 |-> Rank(rs, group, n, Metrics[key][k])]
<1>1. group \in SUBSET (DOMAIN rs) /\ i \in group
  BY DEF Group
<1>2. /\ DOMAIN Metrics[key] = 1 .. 6
      /\ \A k \in 1 .. 6 : Metrics[key][k].metric \in FigureNames /\ Metrics[key][k].higher \in BOOLEAN
  BY MetricsAreFigures
<1>3. \A n \in group : AddScores(rs)[n][key] = SumFunctionOnSet(ranks(n), 1 .. 6)
  <2>1. ASSUME NEW n \in group PROVE AddScores(rs)[n][key] = ApplyRankScore(rs, Metrics[key], n)
    BY <1>1 DEF AddScores, Metrics
  <2>2. ASSUME NEW n \in group PROVE Group(rs, rs[n].context) = group
    BY DEF Group
  <2>3. ASSUME NEW n \in group
        PROVE  ApplyRankScore(rs, Metrics[key], n) = SumFunctionOnSet(ranks(n), 1 .. 6)
    BY <1>2, <2>2 DEF ApplyRankScore, SumFunction
  <2> QED
    BY <2>1, <2>3
<1>4. ASSUME NEW n \in group, NEW k \in 1 .. 6
      PROVE  /\ ranks(n)[k] \in Int
             /\ \A j \in group : Ahead(rs, n, j, Metrics[key][k]) => ranks(n)[k] < ranks(j)[k]
  <2>1. Metrics[key][k].metric \in FigureNames /\ Metrics[key][k].higher \in BOOLEAN
    BY <1>2
  <2> DEFINE m == Metrics[key][k]
  <2> HIDE DEF group, m
  <2>2. /\ Rank(rs, group, n, m) \in Int
        /\ \A j \in group : Ahead(rs, n, j, m) => Rank(rs, group, n, m) < Rank(rs, group, j, m)
    BY <1>1, <2>1, RankIsLess DEF m
  <2> QED
    BY <2>2 DEF m
<1>5. IsFiniteSet(1 .. 6) /\ 1 .. 6 # {}
  <2>1. \A n \in Nat : IsFiniteSet(1 .. n)
    BY Intervals
  <2>2. 1 \in 1 .. 6
    OBVIOUS
  <2> QED
    BY <2>1, <2>2
<1> HIDE DEF ranks
<1>6. AddScores(rs)[i][key] \in Int
  BY <1>1, <1>3, <1>4, <1>5, SumIsInt
<1>7. ASSUME NEW j \in DOMAIN rs, rs[i].context = rs[j].context,
             \A k \in 1 .. 6 : Ahead(rs, i, j, Metrics[key][k])
      PROVE  AddScores(rs)[i][key] < AddScores(rs)[j][key]
  <2>1. j \in group
    BY <1>7 DEF Group
  <2>2. \A k \in 1 .. 6 : ranks(i)[k] \in Int /\ ranks(j)[k] \in Int /\ ranks(i)[k] < ranks(j)[k]
    BY <1>1, <1>4, <1>7, <2>1
  <2>3. SumFunctionOnSet(ranks(i), 1 .. 6) < SumFunctionOnSet(ranks(j), 1 .. 6)
    BY <1>5, <2>2, SumLess
  <2> QED
    BY <1>1, <1>3, <2>1, <2>3
<1> QED
  BY <1>6, <1>7

BeforePairs(scores, key, S) == {p \in S \X S : Before(scores, key, p[1], p[2])}

(* Rows are in a strict total order by score and position.                 *)
LEMMA BeforeOrders ==
    ASSUME NEW scores, NEW key, NEW S \in SUBSET Int, \A i \in S : scores[i][key] \in Int
    PROVE  Orders(BeforePairs(scores, key, S), S)
<1> DEFINE x(i) == scores[i][key]
           R == BeforePairs(scores, key, S)
<1>1. \A i, j \in S : <<i, j>> \in R <=> x(i) < x(j) \/ (x(i) = x(j) /\ i < j)
  BY DEF BeforePairs, Before
<1>2. \A i \in S : x(i) \in Int /\ i \in Int
  OBVIOUS
<1> HIDE DEF x, R
<1>3. \A i, j \in S : i # j => (<<i, j>> \in R <=> <<j, i>> \notin R)
  BY <1>1, <1>2
<1>4. \A i \in S : <<i, i>> \notin R
  BY <1>1, <1>2
<1>5. \A i, j, k \in S : <<i, j>> \in R /\ <<j, k>> \in R => <<i, k>> \in R
  BY <1>1, <1>2
<1> QED
  BY <1>3, <1>4, <1>5 DEF Orders, R

(* The winner of a context comes before the others of the context.         *)
LEMMA WinnerIsFirst ==
    ASSUME NEW rs \in Seq(RowRecords), NEW key \in DOMAIN Metrics, NEW i \in DOMAIN rs,
           NEW c, c = rs[i].context
    PROVE  /\ Winner(rs, AddScores(rs), key, c) \in Group(rs, c)
           /\ \A j \in Group(rs, c) \ {Winner(rs, AddScores(rs), key, c)} :
                 Before(AddScores(rs), key, Winner(rs, AddScores(rs), key, c), j)
<1> DEFINE S == Group(rs, c)
           R == BeforePairs(AddScores(rs), key, S)
<1>1. S \in SUBSET (DOMAIN rs) /\ i \in S
  BY DEF Group
<1>2. IsFiniteSet(S) /\ S \in SUBSET Int
  <2>1. DOMAIN rs = 1 .. Len(rs) /\ Len(rs) \in Nat
    BY LenProperties
  <2>2. IsFiniteSet(1 .. Len(rs)) /\ 1 .. Len(rs) \subseteq Int
    BY <2>1, FS_Interval
  <2> QED
    BY <1>1, <2>1, <2>2, FS_Subset
<1>3. \A j \in S : AddScores(rs)[j][key] \in Int
  BY <1>1, ScoreIsLess
<1> HIDE DEF S
<1>4. Orders(R, S)
  BY <1>2, <1>3, BeforeOrders
<1>5. PICK w \in S : \A j \in S \ {w} : <<w, j>> \in R
  <2>1. S # {}
    BY <1>1
  <2> HIDE DEF R
  <2>2. \E w \in S : \A j \in S \ {w} : <<w, j>> \in R
    BY <1>2, <1>4, <2>1, SomeFirst
  <2> QED
    BY <2>2
<1>6. \A j \in S \ {w} : Before(AddScores(rs), key, w, j)
  BY <1>5 DEF BeforePairs
<1> QED
  BY <1>6 DEF Winner, S

(* Nobody comes before the first of a ranking.                             *)
LEMMA RankingIsSorted ==
    ASSUME NEW rs \in Seq(RowRecords), rs # <<>>, NEW key \in DOMAIN Metrics
    PROVE  LET r == Ranking(rs, AddScores(rs), key)[1]
           IN  r \in DOMAIN rs /\ \A j \in DOMAIN rs : ~Before(AddScores(rs), key, j, r)
<1> DEFINE S == DOMAIN rs
           R == BeforePairs(AddScores(rs), key, S)
           Earlier(i) == {j \in S : Before(AddScores(rs), key, j, i)}
           r == Ranking(rs, AddScores(rs), key)[1]
<1>1. S = 1 .. Len(rs) /\ Len(rs) \in Nat /\ Len(rs) # 0
  BY LenProperties, EmptySeq
<1>2. IsFiniteSet(S) /\ S \in SUBSET Int /\ Cardinality(S) = Len(rs)
  <2>1. \A n \in Nat : IsFiniteSet(1 .. n) /\ Cardinality(1 .. n) = n
    BY Intervals
  <2> QED
    BY <1>1, <2>1
<1>3. \A j \in S : AddScores(rs)[j][key] \in Int
  BY ScoreIsLess
<1>4. Orders(R, S)
  BY <1>2, <1>3, BeforeOrders
<1>5. \A i \in S : Earlier(i) = Preceding(R, S, i)
  BY DEF BeforePairs, Preceding
<1>6. r = CHOOSE i \in S : Cardinality(Earlier(i)) = 0
  <2>1. 1 \in 1 .. Cardinality(S) /\ 1 - 1 = 0
    BY <1>1, <1>2
  <2> QED
    BY <2>1 DEF Ranking, Sorted
<1> HIDE DEF S, R, Earlier, r
<1>7. \E i \in S : Cardinality(Earlier(i)) = 0
  <2>1. 1 \in 1 .. Cardinality(S) /\ 1 - 1 = 0
    BY <1>1, <1>2
  <2>2. \E i \in S : Cardinality(Preceding(R, S, i)) = 0
    BY <1>2, <1>4, <2>1, EachPlace
  <2> QED
    BY <1>5, <2>2
<1>8. r \in S /\ Cardinality(Earlier(r)) = 0
  BY <1>6, <1>7
<1>9. Earlier(r) = {}
  <2>1. IsFiniteSet(Earlier(r))
    BY <1>2, FS_Subset DEF Earlier
  <2> QED
    BY <1>8, <2>1, FS_EmptySet
<1> QED
  BY <1>8, <1>9 DEF S, Earlier, r

(* A row that is nowhere worse is as green.                                *)
LEMMA HeatKeepsOrder ==
    ASSUME NEW rs \in Seq(RowRecords), NEW i \in DOMAIN rs, NEW j \in DOMAIN rs,
           rs[i].context = rs[j].context,
           ~Less(rs[j].figures["avg_turnaround"], rs[i].figures["avg_turnaround"]),
           ~Less(rs[j].figures["avg_external_fragmentation_pct"],
                 rs[i].figures["avg_external_fragmentation_pct"])
    PROVE  ~Less(Heat(rs, j), Heat(rs, i))
<1> DEFINE group == Group(rs, rs[i].context)
           values == UNION {TatAndFragmentation(rs[k]) : k \in group}
           low == CHOOSE v \in values : \A w \in values : ~Less(w, v)
           high == CHOOSE v \in values : \A w \in values : ~Less(v, w)
           minus == <<-low[1], low[2]>>
           value(k) == Plus(rs[k].figures["avg_turnaround"],
                            rs[k].figures["avg_external_fragmentation_pct"])
           height(k) == Plus(<<value(k)[1], 2 * value(k)[2]>>, minus)
           width == Plus(high, minus)
           heat(k) == IF ~Less(low, high) THEN Whole(0)
                      ELSE <<height(k)[1] * width[2], height(k)[2] * width[1]>>
<1>1. Heat(rs, i) = heat(i) /\ Heat(rs, j) = heat(j)
  BY DEF Heat
<1>2. \A k \in DOMAIN rs : /\ rs[k].figures["avg_turnaround"] \in Fractions
                           /\ rs[k].figures["avg_external_fragmentation_pct"] \in Fractions
  <2>1. \A k \in DOMAIN rs : rs[k] \in RowRecords
    BY LenProperties
  <2> QED
    BY <2>1 DEF RowRecords, FigureNames, Statistics, MemoryFigures
<1>3. IsFiniteSet(values) /\ values # {} /\ values \subseteq Fractions
  <2>1. group \in SUBSET (DOMAIN rs) /\ i \in group
    BY DEF Group
  <2>2. IsFiniteSet(group)
    <3>1. \A n \in Nat : IsFiniteSet(1 .. n)
      BY Intervals
    <3> QED
      BY <2>1, <3>1, LenProperties, FS_Subset
  <2> DEFINE tat == [k \in group |-> rs[k].figures["avg_turnaround"]]
             frag == [k \in group |-> rs[k].figures["avg_external_fragmentation_pct"]]
  <2>3. values = Range(tat) \cup Range(frag)
    BY DEF TatAndFragmentation, Range
  <2>4. Range(tat) \subseteq Fractions /\ Range(frag) \subseteq Fractions
    BY <1>2, <2>1 DEF Range
  <2>5. IsFiniteSet(Range(tat)) /\ Range(tat) # {} /\ IsFiniteSet(Range(frag))
    <3>1. group # {} /\ DOMAIN tat = group /\ DOMAIN frag = group
      BY <2>1
    <3>2. tat = [k \in group |-> tat[k]] /\ frag = [k \in group |-> frag[k]]
      OBVIOUS
    <3> HIDE DEF tat, frag, group
    <3> QED
      BY <2>2, <3>1, <3>2, RangeIsFinite
  <2> HIDE DEF tat, frag
  <2>6. IsFiniteSet(Range(tat) \cup Range(frag))
    BY <2>5, FS_Union
  <2> QED
    BY <2>3, <2>4, <2>5, <2>6
<1> HIDE DEF values
<1>4. low \in Fractions /\ high \in Fractions
  BY <1>3, ExtremeFractions
<1> HIDE DEF low, high
<1>5. minus \in Fractions
  BY <1>4 DEF Fractions
<1>6. width \in Fractions
  <2> HIDE DEF minus
  <2> QED
    BY <1>4, <1>5, PlusType
<1>7. Less(low, high) => width[1] > 0
  <2>1. width[1] = high[1] * low[2] + (-low[1]) * high[2]
    BY DEF Plus
  <2>2. /\ high[1] \in Int /\ high[2] \in Int /\ low[1] \in Int /\ low[2] \in Int
    BY <1>4 DEF Fractions
  <2>3. /\ high[1] * low[2] \in Int /\ low[1] * high[2] \in Int
        /\ (-low[1]) * high[2] = -(low[1] * high[2])
    BY <2>2
  <2> QED
    BY <2>1, <2>3 DEF Less
<1> HIDE DEF minus, width
<1>8. /\ value(i) \in Fractions /\ value(j) \in Fractions
      /\ ~Less(value(j), value(i))
  BY <1>2, PlusType, PlusKeepsOrder
<1>9. \A k \in {i, j} : <<value(k)[1], 2 * value(k)[2]>> = <<value(k)[1] * 1, value(k)[2] * 2>>
  <2> HIDE DEF value
  <2>1. \A k \in {i, j} : value(k)[1] \in Int /\ value(k)[2] \in Int
    BY <1>8 DEF Fractions
  <2> QED
    BY <2>1
<1> HIDE DEF value
<1>10. /\ <<value(i)[1], 2 * value(i)[2]>> \in Fractions
       /\ <<value(j)[1], 2 * value(j)[2]>> \in Fractions
       /\ ~Less(<<value(j)[1], 2 * value(j)[2]>>, <<value(i)[1], 2 * value(i)[2]>>)
  <2>1. 1 \in Nat \ {0} /\ 2 \in Nat \ {0} /\ i \in {i, j} /\ j \in {i, j}
    OBVIOUS
  <2>2. ~Less(value(i), value(i)) /\ ~Less(value(j), value(j))
    BY <1>8, LessOrders
  <2>3. /\ <<value(i)[1] * 1, value(i)[2] * 2>> \in Fractions
        /\ ~Less(<<value(j)[1] * 1, value(j)[2] * 2>>, <<value(i)[1] * 1, value(i)[2] * 2>>)
    BY <1>8, <2>1, ScalingKeepsOrder
  <2>4. <<value(j)[1] * 1, value(j)[2] * 2>> \in Fractions
    BY <1>8, <2>1, <2>2, ScalingKeepsOrder
  <2> QED
    BY <1>9, <2>1, <2>3, <2>4
<1>11. height(i) \in Fractions /\ height(j) \in Fractions /\ ~Less(height(j), height(i))
  <2>1. ~Less(minus, minus)
    BY <1>5, LessOrders
  <2> QED
    BY <1>5, <1>10, <2>1, PlusType, PlusKeepsOrder
<1> HIDE DEF height
<1>12. ~Less(heat(j), heat(i))
  <2>1. CASE ~Less(low, high)
    <3>1. Whole(0) \in Fractions
      BY DEF Whole, Fractions
    <3>2. ~Less(Whole(0), Whole(0))
      BY <3>1, LessOrders
    <3> QED
      BY <2>1, <3>2
  <2>2. CASE Less(low, high)
    <3>1. width[1] \in Nat \ {0} /\ width[2] \in Nat \ {0}
      BY <1>6, <1>7, <2>2 DEF Fractions
    <3>2. ~Less(<<height(j)[1] * width[2], height(j)[2] * width[1]>>,
                <<height(i)[1] * width[2], height(i)[2] * width[1]>>)
      BY <1>11, <3>1, ScalingKeepsOrder
    <3> QED
      BY <2>2, <3>2
  <2> QED
    BY <2>1, <2>2
<1> HIDE DEF heat
<1> QED
  BY <1>1, <1>12

(* What a report says of rows is fair.                                     *)
LEMMA ReportIsFair ==
    ASSUME rows \in Seq(RowRecords), rows # <<>>, report = Report(rows, details)
    PROVE  RanksAreFair
<1> DEFINE scores == AddScores(rows)
<1>1. /\ report.rows = rows /\ report.scores = scores
      /\ \A key \in DOMAIN Metrics :
            /\ report.rankings[key] = Ranking(rows, scores, key)
            /\ \A i \in DOMAIN rows :
                  /\ rows[i].context \in DOMAIN report.winners
                  /\ report.winners[rows[i].context][key]
                        = Winner(rows, scores, key, rows[i].context)
      /\ \A i \in DOMAIN rows : report.heat[i] = Heat(rows, i)
  BY DEF Report, Metrics
<1>2. DOMAIN rows \in SUBSET Int
  BY LenProperties
<1>3. ASSUME NEW key \in DOMAIN Metrics, NEW i \in DOMAIN rows, NEW j \in DOMAIN rows
      PROVE  /\ AgainstAll(Metrics[key], i, j) <=>
                   \A k \in 1 .. 6 : Better(rows[i], rows[j], Metrics[key][k])
             /\ AsGood(Metrics[key], i, j) <=>
                   \A k \in 1 .. 6 : ~Better(rows[j], rows[i], Metrics[key][k])
  <2>1. \A k \in 1 .. 6 :
           /\ Beats(i, j, Metrics[key][k].metric) <=> Better(rows[i], rows[j], Metrics[key][k])
           /\ Beats(j, i, Metrics[key][k].metric) <=> Better(rows[j], rows[i], Metrics[key][k])
    BY <1>1, MetricsAreFigures DEF Beats, Better
  <2>2. ToSet(Metrics[key]) = {Metrics[key][k] : k \in 1 .. 6}
    BY MetricsAreFigures
  <2> QED
    BY <2>1, <2>2 DEF AgainstAll, AsGood
<1>4. ASSUME NEW key \in DOMAIN Metrics, NEW i \in DOMAIN rows, NEW j \in DOMAIN rows,
             rows[i].context = rows[j].context
      PROVE  /\ AgainstAll(Metrics[key], i, j) => scores[i][key] < scores[j][key]
             /\ i < j /\ AsGood(Metrics[key], i, j) => scores[i][key] < scores[j][key]
  <2>1. AgainstAll(Metrics[key], i, j) => \A k \in 1 .. 6 : Ahead(rows, i, j, Metrics[key][k])
    BY <1>3 DEF Ahead
  <2>2. i < j /\ AsGood(Metrics[key], i, j) => \A k \in 1 .. 6 : Ahead(rows, i, j, Metrics[key][k])
    BY <1>3 DEF Ahead
  <2> HIDE DEF scores
  <2>3. (\A k \in 1 .. 6 : Ahead(rows, i, j, Metrics[key][k])) => scores[i][key] < scores[j][key]
    BY <1>4, ScoreIsLess DEF scores
  <2> QED
    BY <2>1, <2>2, <2>3
<1>5. ASSUME NEW key \in DOMAIN Metrics, NEW i \in DOMAIN rows, NEW j \in DOMAIN rows,
             rows[i].context = rows[j].context, AgainstAll(Metrics[key], i, j)
      PROVE  report.winners[rows[i].context][key] # j
  <2> SUFFICES ASSUME Winner(rows, scores, key, rows[i].context) = j PROVE FALSE
    BY <1>1
  <2>1. scores[i][key] < scores[j][key] /\ scores[i][key] \in Int /\ scores[j][key] \in Int
    BY <1>4, <1>5, ScoreIsLess
  <2>2. i \in Group(rows, rows[i].context) /\ i # j
    BY <2>1 DEF Group
  <2> HIDE DEF scores
  <2>3. Before(scores, key, j, i)
    BY <2>2, WinnerIsFirst DEF scores
  <2> QED
    BY <2>1, <2>3 DEF Before
<1>6. ASSUME NEW key \in DOMAIN Metrics
      PROVE  report.rankings[key][1] \in {report.winners[c][key] : c \in DOMAIN report.winners}
  <2> DEFINE r == Ranking(rows, scores, key)[1]
             c == rows[r].context
             w == Winner(rows, scores, key, c)
  <2>1. r \in DOMAIN rows /\ \A j \in DOMAIN rows : ~Before(scores, key, j, r)
    BY RankingIsSorted
  <2>2. /\ w \in Group(rows, c)
        /\ \A j \in Group(rows, c) \ {w} : Before(scores, key, w, j)
    <3> HIDE DEF r, scores
    <3> QED
      BY <2>1, WinnerIsFirst DEF scores
  <2> HIDE DEF r, w, scores
  <2>3. r \in Group(rows, c) /\ w \in DOMAIN rows
    BY <2>1, <2>2 DEF Group
  <2>4. r = w
    BY <2>1, <2>2, <2>3
  <2>5. /\ report.rankings[key][1] = r /\ c \in DOMAIN report.winners
        /\ report.winners[c][key] = w
    BY <1>1, <2>1 DEF r, w
  <2> QED
    BY <2>4, <2>5
<1>7. ASSUME NEW i \in DOMAIN rows, NEW j \in DOMAIN rows,
             rows[i].context = rows[j].context, \A k \in DOMAIN Metrics : AsGood(Metrics[k], i, j)
      PROVE  ~Less(report.heat[j], report.heat[i])
  <2>1. /\ [metric |-> "avg_turnaround", higher |-> FALSE] \in ToSet(Metrics["performance"])
        /\ [metric |-> "avg_external_fragmentation_pct", higher |-> FALSE] \in ToSet(Metrics["memory"])
        /\ "performance" \in DOMAIN Metrics /\ "memory" \in DOMAIN Metrics
    <3>1. /\ Metrics["performance"][1] = [metric |-> "avg_turnaround", higher |-> FALSE]
          /\ Metrics["memory"][1] = [metric |-> "avg_external_fragmentation_pct", higher |-> FALSE]
          /\ "performance" \in DOMAIN Metrics /\ "memory" \in DOMAIN Metrics
      BY DEF Metrics, PerformanceMetrics, MemoryMetrics
    <3>2. 1 \in 1 .. 6
      OBVIOUS
    <3> QED
      BY <3>1, <3>2, MetricsAreFigures
  <2>2. ~Beats(j, i, "avg_turnaround") /\ ~Beats(j, i, "avg_external_fragmentation_pct")
    BY <1>7, <2>1 DEF AsGood
  <2>3. /\ ~Less(rows[j].figures["avg_turnaround"], rows[i].figures["avg_turnaround"])
        /\ ~Less(rows[j].figures["avg_external_fragmentation_pct"],
                 rows[i].figures["avg_external_fragmentation_pct"])
    BY <1>1, <2>2 DEF Beats, HigherIsBetter
  <2>4. ~Less(Heat(rows, j), Heat(rows, i))
    BY <1>7, <2>3, HeatKeepsOrder
  <2> QED
    BY <1>1, <2>4
<1> HIDE DEF scores
<1> QED
  BY <1>1, <1>4, <1>5, <1>6, <1>7 DEF RanksAreFair

-----------------------------------------------------------------------------
(* summarize_memory and summarize_simulation.                              *)

(* Mean and extremes of some integers; the mean is not above the greatest. *)
LEMMA FiguresOfIntegers ==
    ASSUME NEW S, IsFiniteSet(S), S # {}, NEW f, DOMAIN f = S, f = [x \in S |-> f[x]],
           \A x \in S : f[x] \in Int
    PROVE  /\ Mean(f) \in Fractions /\ Largest(f) \in Fractions /\ Smallest(f) \in Fractions
           /\ ~Less(Largest(f), Mean(f))
           /\ \A x \in S : f[x] =< Max(Range(f)) /\ Min(Range(f)) =< f[x]
           /\ \E x \in S : f[x] = Max(Range(f))
           /\ \E x \in S : f[x] = Min(Range(f))
           /\ Max(Range(f)) \in Int /\ Min(Range(f)) \in Int
<1> DEFINE top == Max(Range(f))
           bottom == Min(Range(f))
           sum == SumFunctionOnSet(f, S)
           n == Cardinality(S)
<1>1. /\ \A x \in S : f[x] \in Range(f)
      /\ \A y \in Range(f) : y \in Int /\ \E x \in S : f[x] = y
  BY DEF Range
<1>2. /\ top \in Range(f) /\ \A y \in Range(f) : y =< top
      /\ bottom \in Range(f) /\ \A y \in Range(f) : bottom =< y
  <2>1. IsFiniteSet(Range(f)) /\ Range(f) # {}
    BY RangeIsFinite
  <2> QED
    BY <1>1, <2>1, Extremes
<1> HIDE DEF top, bottom
<1>3. /\ top \in Int /\ bottom \in Int
      /\ \A x \in S : f[x] =< top /\ bottom =< f[x]
      /\ \E x \in S : f[x] = top
      /\ \E x \in S : f[x] = bottom
  BY <1>1, <1>2
<1>4. n \in Nat \ {0}
  BY FS_CardinalityType, FS_EmptySet
<1>5. sum \in Int /\ sum =< top * n
  <2> HIDE DEF n
  <2> QED
    BY <1>3, SumAtMost DEF n
<1> HIDE DEF sum, n
<1>6. Mean(f) = <<sum, n>>
  BY DEF Mean, SumFunction, sum, n
<1>7. Largest(f) = <<top, 1>> /\ Smallest(f) = <<bottom, 1>>
  BY DEF Largest, Smallest, Whole, top, bottom
<1>8. <<sum, n>> \in Fractions /\ <<top, 1>> \in Fractions /\ <<bottom, 1>> \in Fractions
  BY <1>3, <1>4, <1>5 DEF Fractions
<1>9. ~Less(<<top, 1>>, <<sum, n>>)
  <2>1. top * n \in Int /\ sum * 1 = sum
    BY <1>3, <1>4, <1>5
  <2> QED
    BY <1>5, <2>1 DEF Less
<1> QED
  BY <1>3, <1>6, <1>7, <1>8, <1>9 DEF top, bottom

(* What is computed from one snapshot is an integer; what is not free is   *)
(* used.                                                                   *)
LEMMA OneSnapshot ==
    ASSUME ComparisonAssumption, NEW s \in Snapshots
    PROVE  /\ ExternalFragmentation(s) \in Int /\ InternalWaste(s) \in Int
           /\ Len(s.holes) \in Int /\ s.free \in Int /\ Empty.total \in Int
           /\ UsedMemory(s) = Empty.total - s.free
<1>1. /\ s.total = Empty.total /\ Empty.total \in Nat /\ s.free \in 0 .. Empty.total
      /\ s.holes \in Seq(Nat) /\ s.waste \in Seq(Nat)
  BY DEF Snapshots, ComparisonAssumption
<1>2. IsFiniteSet(1 .. Len(s.holes)) /\ IsFiniteSet(1 .. Len(s.waste))
  <2>1. \A n \in Nat : IsFiniteSet(1 .. n)
    BY Intervals
  <2> QED
    BY <1>1, <2>1, LenProperties
<1>3. /\ DOMAIN s.holes = 1 .. Len(s.holes) /\ Len(s.holes) \in Nat
      /\ s.holes = [k \in 1 .. Len(s.holes) |-> s.holes[k]]
      /\ \A k \in 1 .. Len(s.holes) : s.holes[k] \in Int
  <2>1. \A h \in Seq(Nat) : /\ DOMAIN h = 1 .. Len(h) /\ Len(h) \in Nat
                            /\ h = [k \in 1 .. Len(h) |-> h[k]]
                            /\ \A k \in 1 .. Len(h) : h[k] \in Int
    <3> SUFFICES ASSUME NEW h \in Seq(Nat)
                 PROVE  /\ DOMAIN h = 1 .. Len(h) /\ Len(h) \in Nat
                        /\ h = [k \in 1 .. Len(h) |-> h[k]]
                        /\ \A k \in 1 .. Len(h) : h[k] \in Int
      OBVIOUS
    <3> QED
      BY LenProperties
  <2> QED
    BY <1>1, <2>1
<1>4. LargestFree(s) \in Int
  <2>1. ToSet(s.holes) = Range(s.holes) /\ \A x \in ToSet(s.holes) : x \in Int
    BY <1>3 DEF ToSet, Range
  <2>2. IsFiniteSet(Range(s.holes))
    BY <1>2, <1>3, RangeIsFinite
  <2>3. IsFiniteSet({0} \cup ToSet(s.holes))
    BY <2>1, <2>2, FS_Singleton, FS_Union
  <2>4. {0} \cup ToSet(s.holes) # {} /\ \A x \in {0} \cup ToSet(s.holes) : x \in Int
    BY <2>1
  <2> QED
    BY <2>3, <2>4, Extremes DEF LargestFree
<1>5. ExternalFragmentation(s) \in Int
  <2>1. \A a \in Int : \A b \in Int : b > 0 => a \div b \in Int
    OBVIOUS
  <2>2. 100 * (s.free - LargestFree(s)) \in Int /\ s.free \in Int
    BY <1>1, <1>4
  <2>3. s.free > 0 => (100 * (s.free - LargestFree(s))) \div s.free \in Int
    BY <2>1, <2>2
  <2> QED
    BY <2>2, <2>3 DEF ExternalFragmentation
<1>6. InternalWaste(s) \in Int
  <2>1. DOMAIN s.waste = 1 .. Len(s.waste) /\ \A k \in 1 .. Len(s.waste) : s.waste[k] \in Int
    BY <1>1, LenProperties
  <2> QED
    BY <1>2, <2>1, SumIsInt DEF InternalWaste, SumFunction
<1>7. UsedMemory(s) = Empty.total - s.free
  <2>1. s.total - s.free \in Nat
    BY <1>1
  <2>2. ASSUME NEW n \in Nat
        PROVE  IsFiniteSet({0, n}) /\ {0, n} # {} /\ \A x \in {0, n} : x \in Int
    <3>1. IsFiniteSet({0})
      BY FS_Singleton
    <3>2. IsFiniteSet({0} \cup {n})
      BY <3>1, FS_AddElement
    <3>3. {0, n} = {0} \cup {n}
      OBVIOUS
    <3>4. IsFiniteSet({0, n})
      BY <3>2, <3>3
    <3> QED
      BY <3>4
  <2>3. \A n \in Nat : Max({0, n}) \in {0, n} /\ n =< Max({0, n})
    BY <2>2, Extremes
  <2>4. Max({0, s.total - s.free}) = s.total - s.free
    BY <2>1, <2>3
  <2> QED
    BY <1>1, <2>4 DEF UsedMemory
<1> QED
  BY <1>1, <1>3, <1>5, <1>6, <1>7

(* summarize_memory looks at some snapshot, and its figures agree.         *)
LEMMA MemoryIsSound ==
    ASSUME ComparisonAssumption, NEW states \in Seq(Snapshots), states # <<>>
    PROVE  LET memory == SummarizeMemory(states)
           IN  /\ memory \in [MemoryFigures -> Fractions]
               /\ ~Less(memory["max_external_fragmentation_pct"],
                        memory["avg_external_fragmentation_pct"])
               /\ Plus(memory["min_free_memory_mb"], memory["peak_used_memory_mb"])
                     = Whole(Empty.total)
<1> DEFINE runtime == RuntimeStates(states)
           external == [i \in runtime |-> ExternalFragmentation(states[i])]
           waste == [i \in runtime |-> InternalWaste(states[i])]
           counts == [i \in runtime |-> Len(states[i].holes)]
           free == [i \in runtime |-> states[i].free]
           used == [i \in runtime |-> UsedMemory(states[i])]
           memory == SummarizeMemory(states)
<1>1. DOMAIN states = 1 .. Len(states) /\ Len(states) \in Nat /\ Len(states) # 0
  BY LenProperties, EmptySeq
<1>2. runtime \subseteq DOMAIN states /\ runtime # {}
  <2>1. 1 \in DOMAIN states
    BY <1>1
  <2> QED
    BY <2>1 DEF RuntimeStates
<1>3. IsFiniteSet(runtime)
  <2>1. \A n \in Nat : IsFiniteSet(1 .. n)
    BY Intervals
  <2> QED
    BY <1>1, <1>2, <2>1, FS_Subset
<1>4. \A i \in runtime :
         /\ ExternalFragmentation(states[i]) \in Int /\ InternalWaste(states[i]) \in Int
         /\ Len(states[i].holes) \in Int /\ states[i].free \in Int
         /\ UsedMemory(states[i]) \in Int
         /\ UsedMemory(states[i]) = Empty.total - states[i].free
  <2>1. \A i \in runtime : states[i] \in Snapshots
    BY <1>2
  <2>2. \A i \in runtime :
           /\ ExternalFragmentation(states[i]) \in Int /\ InternalWaste(states[i]) \in Int
           /\ Len(states[i].holes) \in Int /\ states[i].free \in Int /\ Empty.total \in Int
           /\ UsedMemory(states[i]) = Empty.total - states[i].free
    BY <2>1, OneSnapshot
  <2> QED
    BY <2>2
<1>5. \A f \in {external, waste, counts, free, used} :
         DOMAIN f = runtime /\ f = [i \in runtime |-> f[i]] /\ \A i \in runtime : f[i] \in Int
  <2> HIDE DEF runtime
  <2> QED
    BY <1>4
<1>6. memory = [avg_external_fragmentation_pct |-> Mean(external),
                max_external_fragmentation_pct |-> Largest(external),
                avg_internal_waste_mb |-> Mean(waste),
                max_internal_waste_mb |-> Largest(waste),
                avg_free_block_count |-> Mean(counts),
                min_free_memory_mb |-> Smallest(free),
                peak_used_memory_mb |-> Largest(used)]
  BY DEF SummarizeMemory
<1>7. \A i \in runtime : used[i] = Empty.total - free[i]
  BY <1>4
<1> HIDE DEF runtime, external, waste, counts, free, used, memory
<1>8. \A f \in {external, waste, counts, free, used} :
         /\ Mean(f) \in Fractions /\ Largest(f) \in Fractions /\ Smallest(f) \in Fractions
         /\ ~Less(Largest(f), Mean(f))
         /\ \A i \in runtime : f[i] =< Max(Range(f)) /\ Min(Range(f)) =< f[i]
         /\ \E i \in runtime : f[i] = Max(Range(f))
         /\ \E i \in runtime : f[i] = Min(Range(f))
         /\ Max(Range(f)) \in Int /\ Min(Range(f)) \in Int
  BY <1>2, <1>3, <1>5, FiguresOfIntegers
<1>9. memory \in [MemoryFigures -> Fractions]
  <2>1. /\ Mean(external) \in Fractions /\ Largest(external) \in Fractions
        /\ Mean(waste) \in Fractions /\ Largest(waste) \in Fractions
        /\ Mean(counts) \in Fractions /\ Smallest(free) \in Fractions
        /\ Largest(used) \in Fractions
    BY <1>8
  <2> QED
    BY <1>6, <2>1 DEF MemoryFigures
<1>10. ~Less(memory["max_external_fragmentation_pct"], memory["avg_external_fragmentation_pct"])
  <2>1. ~Less(Largest(external), Mean(external))
    BY <1>8
  <2> QED
    BY <1>6, <2>1
<1>11. Plus(memory["min_free_memory_mb"], memory["peak_used_memory_mb"]) = Whole(Empty.total)
  <2> DEFINE bottom == Min(Range(free))
             top == Max(Range(used))
             total == Empty.total
  <2>1. total \in Int
    BY DEF ComparisonAssumption
  <2>2. /\ \A i \in runtime : bottom =< free[i] /\ free[i] \in Int
        /\ \E i \in runtime : free[i] = bottom
        /\ \A i \in runtime : used[i] =< top
        /\ \E i \in runtime : used[i] = top
        /\ bottom \in Int /\ top \in Int
    BY <1>5, <1>8
  <2>3. memory["min_free_memory_mb"] = <<bottom, 1>> /\ memory["peak_used_memory_mb"] = <<top, 1>>
    BY <1>6 DEF Smallest, Largest, Whole
  <2> HIDE DEF bottom, top, total
  <2>4. PICK i \in runtime : free[i] = bottom
    BY <2>2
  <2>5. PICK j \in runtime : used[j] = top
    BY <2>2
  <2>6. used[i] = total - bottom /\ top = total - free[j]
    BY <1>7, <2>4, <2>5 DEF total
  <2>7. used[i] =< top /\ bottom =< free[j] /\ free[j] \in Int
    BY <2>2
  <2>8. bottom + top = total
    BY <2>1, <2>2, <2>6, <2>7
  <2>9. bottom * 1 + top * 1 = total /\ 1 * 1 = 1
    BY <2>2, <2>8
  <2> QED
    BY <2>3, <2>9 DEF Plus, Whole, total
<1> QED
  BY <1>9, <1>10, <1>11 DEF memory

(* What a C program that served a case gives to a row.                     *)
ServedBy(c, case) ==
    /\ c.sent \in Seq(Snapshots) /\ c.sent # <<>>
    /\ Last(c.sent).stats["completed"] = TEST_PROCESSES
    /\ c.config = case /\ c.state = "DEAD" /\ c.processes = args.seed

Label(r) == [context |-> r.context, scheduler |-> r.scheduler, memory |-> r.memory]

(* What a row says that the report keeps.                                  *)
RowIsComplete(r) ==
    LET f == r.figures
    IN  /\ r.run = [config |-> Label(r), seed |-> args.seed, state |-> "DEAD"]
        /\ f["completed"] = Whole(TEST_PROCESSES)
        /\ ~Less(f["max_external_fragmentation_pct"], f["avg_external_fragmentation_pct"])
        /\ Plus(f["min_free_memory_mb"], f["peak_used_memory_mb"]) = Whole(Empty.total)

(* The row of such a program is complete.                                  *)
LEMMA RowIsSound ==
    ASSUME ComparisonAssumption, NEW case \in CaseRecords, args.seed \in Seeds,
           NEW c, ServedBy(c, case)
    PROVE  LET r == SummarizeSimulation(case, c)
           IN  r \in RowRecords /\ Label(r) = case /\ RowIsComplete(r)
<1> DEFINE stats == Last(c.sent).stats
           memory == SummarizeMemory(c.sent)
           figures == [f \in DOMAIN stats \cup DOMAIN memory |->
                           IF f \in DOMAIN memory THEN memory[f] ELSE Whole(stats[f])]
           r == SummarizeSimulation(case, c)
<1>1. /\ memory \in [MemoryFigures -> Fractions]
      /\ ~Less(memory["max_external_fragmentation_pct"], memory["avg_external_fragmentation_pct"])
      /\ Plus(memory["min_free_memory_mb"], memory["peak_used_memory_mb"]) = Whole(Empty.total)
  BY MemoryIsSound DEF ServedBy
<1>2. stats \in [Statistics -> Int] /\ stats["completed"] = TEST_PROCESSES
  <2>1. Last(c.sent) \in Snapshots
    BY LenProperties, EmptySeq DEF ServedBy, Last
  <2> QED
    BY <2>1 DEF Snapshots, ServedBy
<1>3. r = [context |-> case.context, scheduler |-> case.scheduler, memory |-> case.memory,
           figures |-> figures,
           run |-> [config |-> c.config, seed |-> c.processes, state |-> c.state]]
  BY DEF SummarizeSimulation
<1>4. /\ c.config = case /\ c.state = "DEAD" /\ c.processes = args.seed
      /\ case \in [context : ToSet(CONTEXTS), scheduler : ToSet(SCHEDULERS),
                   memory : ToSet(MEMORY_STRATEGIES)]
  BY DEF ServedBy, CaseRecords
<1>5. /\ figures = [f \in FigureNames |-> IF f \in MemoryFigures THEN memory[f] ELSE Whole(stats[f])]
      /\ figures \in [FigureNames -> Fractions]
  <2> HIDE DEF stats, memory
  <2>1. \A f \in Statistics : Whole(stats[f]) \in Fractions
    BY <1>2 DEF Whole, Fractions
  <2>2. figures = [f \in FigureNames |-> IF f \in MemoryFigures THEN memory[f] ELSE Whole(stats[f])]
    BY <1>1, <1>2 DEF FigureNames
  <2> HIDE DEF figures
  <2> QED
    BY <1>1, <2>1, <2>2 DEF FigureNames
<1> HIDE DEF stats, memory, figures, r
<1>6. \A f \in MemoryFigures : figures[f] = memory[f]
  <2>1. \A f \in MemoryFigures : f \in FigureNames /\ f \notin Statistics
    BY DEF FigureNames, MemoryFigures, Statistics
  <2> QED
    BY <1>5, <2>1
<1>7. figures["completed"] = Whole(TEST_PROCESSES)
  <2>1. "completed" \in FigureNames /\ "completed" \notin MemoryFigures
    BY DEF FigureNames, Statistics, MemoryFigures
  <2> QED
    BY <1>2, <1>5, <2>1
<1>8. /\ ~Less(figures["max_external_fragmentation_pct"], figures["avg_external_fragmentation_pct"])
      /\ Plus(figures["min_free_memory_mb"], figures["peak_used_memory_mb"]) = Whole(Empty.total)
  BY <1>1, <1>6 DEF MemoryFigures
<1>9. Label(r) = case
  BY <1>3, <1>4 DEF Label
<1>10. r \in RowRecords
  BY <1>3, <1>4, <1>5 DEF RowRecords, CaseRecords
<1>11. RowIsComplete(r)
  <2>1. r.figures = figures /\ r.run = [config |-> case, seed |-> args.seed, state |-> "DEAD"]
    BY <1>3, <1>4
  <2> QED
    BY <1>7, <1>8, <1>9, <2>1 DEF RowIsComplete
<1> QED
  BY <1>9, <1>10, <1>11 DEF r

-----------------------------------------------------------------------------
(* The cases.                                                              *)

(* Sequences are joined one after the other.                               *)
LEMMA JoiningSteps ==
    ASSUME NEW n \in Nat, NEW seq, DOMAIN seq = 1 .. n
    PROVE  \E r : /\ r[0] = <<>> /\ r[n] = Joining!Folded(<<>>, seq)
                  /\ \A k \in 1 .. n : r[k] = Joined(r[k - 1], seq[k])
  BY Joining!FoldLeftSteps

(* Joined sequences, none of them empty, are a sequence that is not empty. *)
LEMMA JoinedSequences ==
    ASSUME NEW T, NEW n \in Nat \ {0}, NEW seq, DOMAIN seq = 1 .. n,
           \A k \in 1 .. n : seq[k] \in Seq(T) /\ seq[k] # <<>>
    PROVE  Joining!Folded(<<>>, seq) \in Seq(T) /\ Joining!Folded(<<>>, seq) # <<>>
<1>1. PICK r : /\ r[0] = <<>> /\ r[n] = Joining!Folded(<<>>, seq)
               /\ \A k \in 1 .. n : r[k] = Joined(r[k - 1], seq[k])
  <2>1. n \in Nat /\ DOMAIN seq = 1 .. n
    OBVIOUS
  <2> QED
    BY ONLY <2>1, JoiningSteps
<1> DEFINE Good == {k \in 0 .. n : r[k] \in Seq(T) /\ (k > 0 => r[k] # <<>>)}
<1>2. 0 \in Good
  <2>1. r[0] \in Seq(T) /\ 0 \in 0 .. n
    BY <1>1, EmptySeq
  <2> QED
    BY <2>1
<1>3. ASSUME NEW k \in 1 .. n, k - 1 \in Good PROVE k \in Good
  <2>1. r[k] = r[k - 1] \o seq[k] /\ r[k - 1] \in Seq(T) /\ seq[k] \in Seq(T) /\ seq[k] # <<>>
    BY <1>1, <1>3 DEF Joined
  <2>2. r[k] \in Seq(T) /\ Len(r[k]) = Len(r[k - 1]) + Len(seq[k])
    BY <2>1, ConcatProperties
  <2>3. Len(r[k - 1]) \in Nat /\ Len(seq[k]) \in Nat /\ Len(seq[k]) # 0
    BY <2>1, LenProperties, EmptySeq
  <2>4. Len(r[k]) # 0
    BY <2>2, <2>3
  <2>5. r[k] # <<>>
    BY <2>4, EmptySeq
  <2> QED
    BY <2>2, <2>5
<1>4. \A k \in 0 .. n : k \in Good
  <2> HIDE DEF Good
  <2> QED
    BY <1>2, <1>3, Adding!InductionTo
<1>5. n \in 0 .. n /\ n > 0
  OBVIOUS
<1> QED
  BY <1>1, <1>4, <1>5

(* A sequence of the configuration has places, with its members in them.   *)
LEMMA ConfiguredSequence ==
    ASSUME ComparisonAssumption, NEW s, s \in {CONTEXTS, SCHEDULERS, MEMORY_STRATEGIES}
    PROVE  /\ DOMAIN s = 1 .. Len(s) /\ Len(s) \in Nat \ {0} /\ s \in Seq(ToSet(s))
           /\ \A k \in 1 .. Len(s) : s[k] \in ToSet(s)
<1>1. s \in Seq(ToSet(s)) /\ s # <<>>
  BY DEF ComparisonAssumption
<1>2. Len(s) \in Nat /\ Len(s) # 0 /\ DOMAIN s = 1 .. Len(s)
  BY <1>1, LenProperties, EmptySeq
<1> QED
  BY <1>1, <1>2 DEF ToSet

(* The cases of a context, and those of the selected contexts.             *)
LEMMA ContextHasCases ==
    ASSUME ComparisonAssumption, NEW context \in ToSet(CONTEXTS)
    PROVE  InContext(context) \in Seq(CaseRecords) /\ InContext(context) # <<>>
<1> DEFINE n == Len(SCHEDULERS)
           seq == [s \in DOMAIN SCHEDULERS |-> Under(context, SCHEDULERS[s])]
<1>1. n \in Nat \ {0} /\ DOMAIN seq = 1 .. n
  BY ConfiguredSequence
<1>2. ASSUME NEW k \in 1 .. n
      PROVE  seq[k] \in Seq(CaseRecords) /\ seq[k] # <<>>
  <2>1. seq[k] = Under(context, SCHEDULERS[k]) /\ SCHEDULERS[k] \in ToSet(SCHEDULERS)
    BY <1>2, ConfiguredSequence
  <2>2. /\ DOMAIN MEMORY_STRATEGIES = 1 .. Len(MEMORY_STRATEGIES)
        /\ Len(MEMORY_STRATEGIES) \in Nat \ {0}
        /\ \A m \in 1 .. Len(MEMORY_STRATEGIES) :
              MEMORY_STRATEGIES[m] \in ToSet(MEMORY_STRATEGIES)
    BY ConfiguredSequence
  <2>3. \A m \in 1 .. Len(MEMORY_STRATEGIES) :
           [context |-> context, scheduler |-> SCHEDULERS[k],
            memory |-> MEMORY_STRATEGIES[m]] \in CaseRecords
    BY <2>1, <2>2 DEF CaseRecords
  <2> DEFINE last == Len(MEMORY_STRATEGIES)
             case(m) == [context |-> context, scheduler |-> SCHEDULERS[k],
                         memory |-> MEMORY_STRATEGIES[m]]
  <2>4. seq[k] = [m \in 1 .. last |-> case(m)]
    BY <2>1, <2>2 DEF Under
  <2> HIDE DEF seq, last, case
  <2>5. seq[k] \in Seq(CaseRecords)
    BY <2>2, <2>3, <2>4, IsASeq DEF last, case
  <2>6. 1 \in DOMAIN seq[k]
    BY <2>2, <2>4 DEF last
  <2>7. DOMAIN <<>> = {}
    OBVIOUS
  <2> QED
    BY <2>5, <2>6, <2>7
<1>3. InContext(context) = Joining!Folded(<<>>, seq)
  BY DEF InContext, FoldLeft, MapThenFoldSet, Max, Joining!Folded, Joining!FoldLeft,
         Joining!MapThenFoldSet, Joining!Max
<1> HIDE DEF n, seq
<1> QED
  BY <1>1, <1>2, <1>3, JoinedSequences

LEMMA ProductHasCases ==
    ASSUME ComparisonAssumption, args \in Arguments
    PROVE  Product \in Seq(CaseRecords) /\ Product # <<>>
<1> DEFINE n == Len(SelectedContexts)
           seq == [c \in DOMAIN SelectedContexts |-> InContext(SelectedContexts[c])]
<1>1. /\ DOMAIN SelectedContexts = 1 .. n /\ n \in Nat \ {0}
      /\ \A c \in 1 .. n : SelectedContexts[c] \in ToSet(CONTEXTS)
  <2>1. CASE args.context = NULL
    <3>1. SelectedContexts = CONTEXTS
      BY <2>1 DEF SelectedContexts
    <3> QED
      BY <3>1, ConfiguredSequence
  <2>2. CASE args.context # NULL
    <3>1. SelectedContexts = <<args.context>> /\ args.context \in ToSet(CONTEXTS)
      BY <2>2 DEF SelectedContexts, Arguments
    <3> QED
      BY <3>1
  <2> QED
    BY <2>1, <2>2
<1>2. DOMAIN seq = 1 .. n
  BY <1>1
<1>3. \A k \in 1 .. n : seq[k] \in Seq(CaseRecords) /\ seq[k] # <<>>
  BY <1>1, ContextHasCases
<1>4. Product = Joining!Folded(<<>>, seq)
  BY DEF Product, FoldLeft, MapThenFoldSet, Max, Joining!Folded, Joining!FoldLeft,
         Joining!MapThenFoldSet, Joining!Max
<1> HIDE DEF n, seq
<1> QED
  BY <1>1, <1>2, <1>3, <1>4, JoinedSequences

(* There are cases, whatever the limit.                                    *)
LEMMA ThereAreCases ==
    ASSUME ComparisonAssumption, args \in Arguments
    PROVE  Cases \in Seq(CaseRecords) /\ Cases # <<>>
<1>1. /\ Product \in Seq(CaseRecords) /\ Product # <<>>
      /\ Len(Product) \in Nat /\ Len(Product) # 0
  BY ProductHasCases, LenProperties, EmptySeq
<1>2. CASE args.limit > 0 /\ args.limit < Len(Product)
  <2>1. args.limit \in 1 .. Len(Product)
    BY <1>1, <1>2 DEF Arguments
  <2>2. /\ SubSeq(Product, 1, args.limit) \in Seq(CaseRecords)
        /\ Len(SubSeq(Product, 1, args.limit)) = args.limit
    <3>1. \A s \in Seq(CaseRecords) : \A k \in 1 .. Len(s) :
             SubSeq(s, 1, k) \in Seq(CaseRecords) /\ Len(SubSeq(s, 1, k)) = k
      <4> SUFFICES ASSUME NEW s \in Seq(CaseRecords), NEW k \in 1 .. Len(s)
                   PROVE  SubSeq(s, 1, k) \in Seq(CaseRecords) /\ Len(SubSeq(s, 1, k)) = k
        OBVIOUS
      <4>1. Len(s) \in Nat
        BY LenProperties
      <4> QED
        BY <4>1
    <3> QED
      BY <1>1, <2>1, <3>1
  <2>3. Cases = SubSeq(Product, 1, args.limit)
    BY <1>2 DEF Cases
  <2> QED
    BY <1>2, <2>2, <2>3, EmptySeq
<1>3. CASE ~(args.limit > 0 /\ args.limit < Len(Product))
  <2>1. Cases = Product
    BY <1>3 DEF Cases
  <2> QED
    BY <1>1, <2>1
<1> QED
  BY <1>2, <1>3

-----------------------------------------------------------------------------
(* The invariant of the tool: what is reported so far belongs to the cases *)
(* that are behind, and the C program to the case that it serves.          *)

DetailRecords ==
    [context : ToSet(CONTEXTS), scheduler : ToSet(SCHEDULERS),
     memory : ToSet(MEMORY_STRATEGIES), turnaround_time : Int]

Typed ==
    /\ args \in Arguments
    /\ cases \in Seq(CaseRecords) /\ rows \in Seq(RowRecords) /\ details \in Seq(DetailRecords)
    /\ place = "start" => rows = <<>>
    /\ place = "waiting" => cases # <<>>

(* The rows are those of the cases that are not to run any more.           *)
CasesInOrder == place \in {"next", "waiting", "returned 0"} =>
    /\ Len(rows) + Len(cases) = Len(Cases)
    /\ \A i \in 1 .. Len(rows) : Label(rows[i]) = Cases[i]
    /\ \A k \in 1 .. Len(cases) : cases[k] = Cases[Len(rows) + k]

RowsComplete == \A i \in 1 .. Len(rows) : RowIsComplete(rows[i])

DetailsOfCases == \A i \in 1 .. Len(details) : Label(details[i]) \in ToSet(Cases)

(* The C program has read some of the commands, in their order; of what it *)
(* holds, the last part is due to the last command.                        *)
Seeded == child.config = Head(cases) /\ child.processes = args.seed
Serving ==
    \/ /\ child.state = "PAUSE" /\ child.pipe = Commands
    \/ /\ child.state = "PAUSE" /\ child.pipe = Tail(Commands)
       /\ child.config = Head(cases)
    \/ /\ child.state = "PAUSE" /\ child.pipe = Tail(Tail(Commands))
       /\ child.config = Head(cases) /\ child.rng = args.seed
    \/ /\ child.state = "PAUSE" /\ child.pipe = Tail(Tail(Tail(Commands))) /\ Seeded
    \/ /\ child.state = "RUN" /\ child.pipe = <<>> /\ Seeded
    \/ /\ child.state = "DEAD" /\ child.code # 0
    \/ /\ child.state = "DEAD" /\ ServedBy(child, Head(cases))
ChildServes == place = "waiting" =>
    /\ DOMAIN child = DOMAIN NoChild /\ child.sent \in Seq(Snapshots)
    /\ child.sent # <<>>
    /\ Serving

ReportOfRows == Written =>
    /\ place = "returned 0" /\ ~legacy /\ cases = <<>>
    /\ report = Report(rows, details)

ComparisonInv ==
    /\ Typed /\ CasesInOrder /\ RowsComplete /\ DetailsOfCases /\ ChildServes /\ ReportOfRows

(* The arguments that tell the cases do not change.                        *)
LEMMA CasesStay ==
    ASSUME args'.context = args.context, args'.limit = args.limit
    PROVE  Cases' = Cases
<1>1. SelectedContexts' = SelectedContexts
  BY DEF SelectedContexts
<1>2. Product' = Product
  BY <1>1 DEF Product
<1> QED
  BY <1>2 DEF Cases

(* In a step that changes no argument each part depends on fewer variables.*)
LEMMA Unmoved ==
    ASSUME args' = args
    PROVE  /\ Cases' = Cases
           /\ rows' = rows => (RowsComplete => RowsComplete')
           /\ details' = details => (DetailsOfCases => DetailsOfCases')
           /\ rows' = rows /\ cases' = cases => \A i : rows'[i] = rows[i] /\ cases'[i] = cases[i]
<1>1. Cases' = Cases
  BY CasesStay
<1> QED
  BY <1>1 DEF RowsComplete, RowIsComplete, Label, DetailsOfCases

(* The commands, and what is left of them after each.                      *)
LEMMA CommandsInOrder ==
    /\ Commands # <<>> /\ Tail(Commands) # <<>> /\ Tail(Tail(Commands)) # <<>>
    /\ Tail(Tail(Tail(Commands))) # <<>> /\ Tail(Tail(Tail(Tail(Commands)))) = <<>>
    /\ Head(Commands).name = "SET_CONFIG" /\ Head(Commands).config = Head(cases)
    /\ Head(Tail(Commands)).name = "SET_SEED"
    /\ Head(Tail(Tail(Commands))).name = "TEST"
    /\ Head(Tail(Tail(Tail(Commands)))).name = "RUN"
<1> DEFINE a == [name |-> "SET_CONFIG", config |-> Head(cases)]
           b == [name |-> "SET_SEED"]
           c == [name |-> "TEST"]
           d == [name |-> "RUN"]
<1>1. Commands = <<a, b, c, d>>
  BY DEF Commands
<1>2. /\ a.name = "SET_CONFIG" /\ a.config = Head(cases) /\ b.name = "SET_SEED"
      /\ c.name = "TEST" /\ d.name = "RUN"
  OBVIOUS
<1> HIDE DEF a, b, c, d
<1>3. /\ Tail(Commands) = <<b, c, d>> /\ Tail(<<b, c, d>>) = <<c, d>>
      /\ Tail(<<c, d>>) = <<d>> /\ Tail(<<d>>) = <<>>
  BY <1>1
<1>4. /\ Head(Commands) = a /\ Head(<<b, c, d>>) = b /\ Head(<<c, d>>) = c /\ Head(<<d>>) = d
  BY <1>1
<1>5. /\ Commands # <<>> /\ <<b, c, d>> # <<>> /\ <<c, d>> # <<>> /\ <<d>> # <<>>
  BY <1>1
<1> QED
  BY <1>2, <1>3, <1>4, <1>5

(* What the C program does leaves alone all but itself.                    *)
LEMMA ReadKeepsServing ==
    ASSUME ComparisonAssumption, ComparisonInv, place = "waiting", ReadCommand
    PROVE  /\ DOMAIN child' = DOMAIN NoChild /\ child'.sent \in Seq(Snapshots)
           /\ child'.sent # <<>> /\ Serving'
<1> DEFINE line == Head(child.pipe)
           c == [child EXCEPT !.pipe = Tail(child.pipe), !.sent = Sends(child)]
<1>1. /\ DOMAIN child = DOMAIN NoChild /\ child.sent \in Seq(Snapshots) /\ Serving
      /\ args' = args /\ cases' = cases
  BY DEF ComparisonInv, ChildServes, ReadCommand
<1>2. DOMAIN child = {"state", "code", "pipe", "config", "rng", "processes", "sent"}
  BY <1>1 DEF NoChild
<1>3. Sends(child) \in Seq(Snapshots) /\ Sends(child) # <<>>
  <2>1. Sends(child) = Append(child.sent, Empty) /\ Empty \in Snapshots
    BY DEF Sends, ComparisonAssumption
  <2> QED
    BY <1>1, <2>1, AppendProperties
<1>4. /\ DOMAIN c = DOMAIN child /\ c.sent = Sends(child) /\ c.pipe = Tail(child.pipe)
      /\ c.state = child.state /\ c.config = child.config /\ c.rng = child.rng
      /\ c.processes = child.processes /\ c.code = child.code
  BY <1>2
<1>5. child' = CASE line.name = "SET_CONFIG" -> [c EXCEPT !.config = line.config]
                 [] line.name = "SET_SEED" -> [c EXCEPT !.rng = args.seed]
                 [] line.name = "TEST" -> [c EXCEPT !.processes = c.rng]
                 [] line.name = "RUN" -> [c EXCEPT !.state = "RUN"]
  BY DEF ReadCommand
<1>6. child.state \in {"PAUSE", "RUN"} /\ child.pipe # <<>> /\ Commands' = Commands
  BY <1>1 DEF ReadCommand, Commands
<1> HIDE DEF c, line
<1>7. CASE child.state = "PAUSE" /\ child.pipe = Commands
  <2>1. line.name = "SET_CONFIG" /\ line.config = Head(cases)
    BY <1>7, CommandsInOrder DEF line
  <2>2. child' = [c EXCEPT !.config = line.config]
    BY <1>5, <2>1
  <2>3. /\ DOMAIN child' = DOMAIN NoChild /\ child'.sent = Sends(child)
        /\ child'.state = "PAUSE" /\ child'.pipe = Tail(Commands) /\ child'.config = Head(cases)
    BY <1>1, <1>2, <1>4, <1>7, <2>1, <2>2
  <2>4. Serving'
    BY <1>1, <1>6, <2>3 DEF Serving
  <2> QED
    BY <1>3, <2>3, <2>4
<1>8. CASE child.state = "PAUSE" /\ child.pipe = Tail(Commands) /\ child.config = Head(cases)
  <2>1. line.name = "SET_SEED"
    BY <1>8, CommandsInOrder DEF line
  <2>2. child' = [c EXCEPT !.rng = args.seed]
    BY <1>5, <2>1
  <2>3. /\ DOMAIN child' = DOMAIN NoChild /\ child'.sent = Sends(child)
        /\ child'.state = "PAUSE" /\ child'.pipe = Tail(Tail(Commands))
        /\ child'.config = Head(cases) /\ child'.rng = args.seed
    BY <1>1, <1>2, <1>4, <1>8, <2>2
  <2>4. Serving'
    BY <1>1, <1>6, <2>3 DEF Serving
  <2> QED
    BY <1>3, <2>3, <2>4
<1>9. CASE /\ child.state = "PAUSE" /\ child.pipe = Tail(Tail(Commands))
           /\ child.config = Head(cases) /\ child.rng = args.seed
  <2>1. line.name = "TEST"
    BY <1>9, CommandsInOrder DEF line
  <2>2. child' = [c EXCEPT !.processes = c.rng]
    BY <1>5, <2>1
  <2>3. /\ DOMAIN child' = DOMAIN NoChild /\ child'.sent = Sends(child)
        /\ child'.state = "PAUSE" /\ child'.pipe = Tail(Tail(Tail(Commands)))
        /\ child'.config = Head(cases) /\ child'.processes = args.seed
    BY <1>1, <1>2, <1>4, <1>9, <2>2
  <2>4. Serving'
    BY <1>1, <1>6, <2>3 DEF Serving, Seeded
  <2> QED
    BY <1>3, <2>3, <2>4
<1>10. CASE child.state = "PAUSE" /\ child.pipe = Tail(Tail(Tail(Commands))) /\ Seeded
  <2>1. line.name = "RUN"
    BY <1>10, CommandsInOrder DEF line
  <2>2. child' = [c EXCEPT !.state = "RUN"]
    BY <1>5, <2>1
  <2>3. /\ DOMAIN child' = DOMAIN NoChild /\ child'.sent = Sends(child)
        /\ child'.state = "RUN" /\ child'.pipe = <<>>
        /\ child'.config = Head(cases) /\ child'.processes = args.seed
    BY <1>1, <1>2, <1>4, <1>10, <2>2, CommandsInOrder DEF Seeded
  <2>4. Serving'
    BY <1>1, <2>3 DEF Serving, Seeded
  <2> QED
    BY <1>3, <2>3, <2>4
<1> QED
  BY <1>1, <1>6, <1>7, <1>8, <1>9, <1>10 DEF Serving

LEMMA EndKeepsServing ==
    ASSUME ComparisonAssumption, ComparisonInv, place = "waiting", RunToEnd \/ Crash
    PROVE  /\ DOMAIN child' = DOMAIN NoChild /\ child'.sent \in Seq(Snapshots)
           /\ child'.sent # <<>> /\ Serving'
<1>1. /\ DOMAIN child = DOMAIN NoChild /\ child.sent \in Seq(Snapshots) /\ child.sent # <<>>
      /\ Serving /\ args' = args /\ cases' = cases
  BY DEF ComparisonInv, ChildServes, RunToEnd, Crash
<1>2. DOMAIN child = {"state", "code", "pipe", "config", "rng", "processes", "sent"}
  BY <1>1 DEF NoChild
<1>3. CASE Crash
  <2>1. child' = [child EXCEPT !.state = "DEAD", !.code = 1]
    BY <1>3 DEF Crash
  <2>2. /\ DOMAIN child' = DOMAIN child /\ child'.sent = child.sent
        /\ child'.state = "DEAD" /\ child'.code = 1
    BY <1>2, <2>1
  <2> QED
    BY <1>1, <2>2 DEF Serving
<1>4. CASE RunToEnd
  <2>1. PICK o \in Outputs : child' = [child EXCEPT !.state = "DEAD", !.code = 0,
                                                    !.sent = child.sent \o o]
    BY <1>4 DEF RunToEnd
  <2>2. /\ o \in Seq(Snapshots) /\ o # <<>>
        /\ Last(o).stats["completed"] = TEST_PROCESSES
    BY DEF ComparisonAssumption
  <2>3. /\ DOMAIN child' = DOMAIN child /\ child'.sent = child.sent \o o
        /\ child'.state = "DEAD" /\ child'.config = child.config
        /\ child'.processes = child.processes
    BY <1>2, <2>1
  <2>4. /\ child'.sent \in Seq(Snapshots) /\ child'.sent # <<>>
        /\ Last(child'.sent) = Last(o)
    <3>1. \A s, t \in Seq(Snapshots) : t # <<>> =>
             s \o t \in Seq(Snapshots) /\ s \o t # <<>> /\ Last(s \o t) = Last(t)
      <4> SUFFICES ASSUME NEW s \in Seq(Snapshots), NEW t \in Seq(Snapshots), t # <<>>
                   PROVE  s \o t \in Seq(Snapshots) /\ s \o t # <<>> /\ Last(s \o t) = Last(t)
        OBVIOUS
      <4>1. /\ s \o t \in Seq(Snapshots) /\ Len(s \o t) = Len(s) + Len(t)
            /\ Len(s) \in Nat /\ Len(t) \in Nat /\ Len(t) # 0
        BY ConcatProperties, LenProperties, EmptySeq
      <4>2. s \o t # <<>>
        BY <4>1, EmptySeq
      <4>3. (s \o t)[Len(s) + Len(t)] = t[Len(t)]
        BY <4>1, ConcatProperties
      <4> QED
        BY <4>1, <4>2, <4>3 DEF Last
    <3> QED
      BY <1>1, <2>2, <2>3, <3>1
  <2>5. child.state = "RUN" /\ Seeded
    <3>1. child.state = "RUN"
      BY <1>4 DEF RunToEnd
    <3> QED
      BY <1>1, <3>1 DEF Serving
  <2>6. ServedBy(child, Head(cases))'
    BY <1>1, <2>2, <2>3, <2>4, <2>5 DEF ServedBy, Seeded
  <2> QED
    BY <1>1, <2>3, <2>4, <2>6 DEF Serving
<1> QED
  BY <1>3, <1>4

(* The details of a case carry its label.                                  *)
LEMMA DetailsAreSound ==
    ASSUME ComparisonAssumption, NEW case \in CaseRecords, NEW c, ServedBy(c, case)
    PROVE  /\ SummarizeProcesses(case, c) \in Seq(DetailRecords)
           /\ \A i \in 1 .. Len(SummarizeProcesses(case, c)) :
                 Label(SummarizeProcesses(case, c)[i]) = case
<1> DEFINE tats == Last(c.sent).processes
           n == Len(tats)
           detail(i) == [context |-> case.context, scheduler |-> case.scheduler,
                         memory |-> case.memory, turnaround_time |-> tats[i]]
           new == SummarizeProcesses(case, c)
<1>1. tats \in Seq(Int)
  <2>1. Last(c.sent) \in Snapshots
    BY LenProperties, EmptySeq DEF ServedBy, Last
  <2> QED
    BY <2>1 DEF Snapshots
<1>2. n \in Nat /\ DOMAIN tats = 1 .. n /\ \A i \in 1 .. n : tats[i] \in Int
  BY <1>1, LenProperties
<1>3. new = [i \in 1 .. n |-> detail(i)]
  BY <1>2 DEF SummarizeProcesses
<1>4. \A i \in 1 .. n : detail(i) \in DetailRecords /\ Label(detail(i)) = case
  <2> HIDE DEF tats
  <2>1. case \in [context : ToSet(CONTEXTS), scheduler : ToSet(SCHEDULERS),
                  memory : ToSet(MEMORY_STRATEGIES)]
    BY DEF CaseRecords
  <2> QED
    BY <1>2, <2>1 DEF DetailRecords, Label
<1> HIDE DEF n, detail, new
<1>5. new \in Seq(DetailRecords)
  BY <1>2, <1>3, <1>4, IsASeq
<1>6. Len(new) = n
  BY <1>2, <1>3, <1>5, LenProperties
<1> QED
  BY <1>3, <1>4, <1>5, <1>6 DEF new

(* The invariant holds at first.                                           *)
LEMMA ComparisonInvInit ==
    ASSUME ComparisonAssumption, Init PROVE ComparisonInv
<1>1. args \in Arguments /\ place = "start" /\ report = NoReport
  BY DEF Init, ComparisonAssumption
<1>2. /\ cases = <<>> /\ rows = <<>> /\ details = <<>>
      /\ \A T : <<>> \in Seq(T) /\ Len(<<>>) = 0
  BY EmptySeq DEF Init
<1>3. Typed
  BY <1>1, <1>2 DEF Typed
<1>4. RowsComplete /\ DetailsOfCases
  BY <1>2 DEF RowsComplete, DetailsOfCases
<1> QED
  BY <1>1, <1>3, <1>4
  DEF ComparisonInv, CasesInOrder, ChildServes, ReportOfRows, Written

(* The tool starts with all cases before it.                               *)
LEMMA StartKeepsInv ==
    ASSUME ComparisonAssumption, ComparisonInv, Start PROVE ComparisonInv'
<1>1. /\ Typed /\ RowsComplete /\ DetailsOfCases /\ place = "start" /\ rows = <<>>
      /\ rows' = rows /\ details' = details /\ report' = report /\ report = NoReport
  BY DEF ComparisonInv, Typed, Start, ReportOfRows, Written
<1>2. /\ args' \in Arguments /\ args'.context = args.context /\ args'.limit = args.limit
      /\ args'.seed = args.seed
  <2>1. args' = [args EXCEPT !.executable = Built] /\ args \in Arguments
    BY <1>1 DEF Start, Typed
  <2>2. Built \in {"good", "missing", "broken"}
    BY <2>1 DEF Built, Arguments
  <2> QED
    BY <2>1, <2>2 DEF Arguments
<1>3. Cases' = Cases /\ Cases \in Seq(CaseRecords)
  BY <1>1, <1>2, CasesStay, ThereAreCases DEF Typed
<1>4. \/ place' \in {"raised", "returned 1"} /\ cases' = cases
      \/ place' = "next" /\ cases' = Cases
  BY DEF Start
<1>5. Typed'
  BY <1>1, <1>2, <1>3, <1>4 DEF Typed
<1>6. CasesInOrder'
  <2>1. SUFFICES ASSUME place' = "next" PROVE CasesInOrder'
    BY <1>4 DEF CasesInOrder
  <2>2. cases' = Cases /\ Len(rows') = 0 /\ Len(Cases) \in Nat
    BY <1>1, <1>3, <1>4, <2>1, LenProperties
  <2>3. /\ Len(rows') + Len(cases') = Len(Cases) /\ 1 .. Len(rows') = {}
        /\ \A k \in 1 .. Len(cases') : Len(rows') + k = k
    BY <2>2
  <2> QED
    BY <1>3, <2>2, <2>3 DEF CasesInOrder
<1>7. RowsComplete' /\ DetailsOfCases'
  BY <1>1, <1>2, <1>3 DEF RowsComplete, RowIsComplete, Label, DetailsOfCases
<1>8. ChildServes' /\ ReportOfRows'
  BY <1>1, <1>4 DEF ChildServes, ReportOfRows, Written
<1> QED
  BY <1>5, <1>6, <1>7, <1>8 DEF ComparisonInv

(* It starts a C program with the commands of the case.                    *)
LEMMA LaunchKeepsInv ==
    ASSUME ComparisonAssumption, ComparisonInv, Launch PROVE ComparisonInv'
<1>1. /\ Typed /\ CasesInOrder /\ RowsComplete /\ DetailsOfCases
      /\ place = "next" /\ cases # <<>> /\ report = NoReport
      /\ args' = args /\ cases' = cases /\ rows' = rows /\ details' = details /\ report' = report
  BY DEF ComparisonInv, Launch, ReportOfRows, Written
<1>2. \/ place' = "raised"
      \/ /\ place' = "waiting"
         /\ child' = [NoChild EXCEPT !.state = "PAUSE", !.pipe = Commands,
                                     !.rng = "clock", !.sent = <<Empty>>]
  BY DEF Launch
<1>3. Cases' = Cases /\ Commands' = Commands
  BY <1>1, Unmoved DEF Commands
<1>4. Typed' /\ RowsComplete' /\ DetailsOfCases'
  <2>1. Typed'
    BY <1>1, <1>2 DEF Typed
  <2> QED
    BY <1>1, <2>1, Unmoved
<1>5. CasesInOrder'
  BY <1>1, <1>2, <1>3 DEF CasesInOrder, Label
<1>6. ChildServes'
  <2>1. SUFFICES ASSUME place' = "waiting" PROVE ChildServes'
    BY DEF ChildServes
  <2>2. /\ DOMAIN child' = DOMAIN NoChild /\ child'.state = "PAUSE"
        /\ child'.pipe = Commands /\ child'.sent = <<Empty>>
    BY <1>2, <2>1 DEF NoChild
  <2>3. <<Empty>> \in Seq(Snapshots) /\ <<Empty>> # <<>>
    BY DEF ComparisonAssumption
  <2> QED
    BY <1>3, <2>2, <2>3 DEF ChildServes, Serving
<1>7. ReportOfRows'
  BY <1>1 DEF ReportOfRows, Written
<1> QED
  BY <1>4, <1>5, <1>6, <1>7 DEF ComparisonInv

(* It adds the row of the case, and goes on to the next one.               *)
LEMMA CollectKeepsInv ==
    ASSUME ComparisonAssumption, ComparisonInv, Collect PROVE ComparisonInv'
<1> DEFINE case == Head(cases)
           row == SummarizeSimulation(case, child)
           new == SummarizeProcesses(case, child)
<1>1. /\ Typed /\ CasesInOrder /\ RowsComplete /\ DetailsOfCases
      /\ place = "waiting" /\ cases # <<>> /\ report = NoReport /\ ServedBy(child, case)
  <2>1. place = "waiting" /\ child.state = "DEAD" /\ child.code = 0 /\ ComparisonInv
    BY DEF Collect, EndedWell
  <2>2. ServedBy(child, case)
    BY <2>1 DEF ComparisonInv, ChildServes, Serving
  <2> QED
    BY <2>1, <2>2 DEF ComparisonInv, Typed, ReportOfRows, Written
<1>2. /\ rows' = Append(rows, row) /\ details' = details \o new /\ cases' = Tail(cases)
      /\ place' = "next" /\ args' = args /\ report' = report
  BY DEF Collect
<1>3. /\ cases \in Seq(CaseRecords) /\ rows \in Seq(RowRecords)
      /\ details \in Seq(DetailRecords) /\ args \in Arguments /\ args.seed \in Seeds
  BY <1>1 DEF Typed, Arguments, Seeds
<1>4. /\ case \in CaseRecords /\ Tail(cases) \in Seq(CaseRecords)
      /\ Len(cases) \in Nat /\ Len(Tail(cases)) = Len(cases) - 1 /\ Len(cases) # 0
      /\ \A k \in 1 .. Len(Tail(cases)) : Tail(cases)[k] = cases[k + 1]
      /\ case = cases[1]
  BY <1>1, <1>3, HeadTailProperties, EmptySeq, LenProperties
<1> HIDE DEF case
<1>5. row \in RowRecords /\ Label(row) = case /\ RowIsComplete(row)
  BY <1>1, <1>3, <1>4, RowIsSound
<1>6. /\ new \in Seq(DetailRecords)
      /\ \A i \in 1 .. Len(new) : Label(new[i]) = case
  BY <1>1, <1>4, DetailsAreSound
<1> HIDE DEF row, new
<1>7. /\ rows' \in Seq(RowRecords) /\ Len(rows') = Len(rows) + 1 /\ Len(rows) \in Nat
      /\ rows'[Len(rows) + 1] = row
      /\ \A i \in 1 .. Len(rows) : rows'[i] = rows[i]
  BY <1>2, <1>3, <1>5, AppendProperties, LenProperties
<1>8. /\ details' \in Seq(DetailRecords) /\ Len(details') = Len(details) + Len(new)
      /\ Len(details) \in Nat /\ Len(new) \in Nat
      /\ \A i \in 1 .. Len(details') :
            \/ i \in 1 .. Len(details) /\ details'[i] = details[i]
            \/ i - Len(details) \in 1 .. Len(new) /\ details'[i] = new[i - Len(details)]
  <2>1. /\ details' \in Seq(DetailRecords) /\ Len(details') = Len(details) + Len(new)
        /\ Len(details) \in Nat /\ Len(new) \in Nat
        /\ \A i \in 1 .. Len(details) + Len(new) :
              details'[i] = IF i =< Len(details) THEN details[i] ELSE new[i - Len(details)]
    BY <1>2, <1>3, <1>6, ConcatProperties, LenProperties
  <2> QED
    BY <2>1
<1>9. Cases' = Cases /\ Cases \in Seq(CaseRecords) /\ Len(Cases) \in Nat
  BY <1>2, <1>3, Unmoved, ThereAreCases, LenProperties
<1>10. /\ Len(rows) + Len(cases) = Len(Cases)
       /\ \A i \in 1 .. Len(rows) : Label(rows[i]) = Cases[i]
       /\ \A k \in 1 .. Len(cases) : cases[k] = Cases[Len(rows) + k]
  BY <1>1 DEF CasesInOrder
<1>11. case = Cases[Len(rows) + 1] /\ case \in ToSet(Cases)
  <2>1. 1 \in 1 .. Len(cases) /\ Len(rows) + 1 \in 1 .. Len(Cases)
    BY <1>4, <1>7, <1>9, <1>10
  <2>2. case = Cases[Len(rows) + 1]
    BY <1>4, <1>10, <2>1
  <2>3. DOMAIN Cases = 1 .. Len(Cases)
    BY <1>9, LenProperties
  <2> QED
    BY <2>1, <2>2, <2>3 DEF ToSet
<1>12. Typed'
  BY <1>2, <1>3, <1>4, <1>7, <1>8 DEF Typed
<1>13. CasesInOrder'
  <2>1. Len(rows') + Len(cases') = Len(Cases)
    BY <1>2, <1>4, <1>7, <1>10
  <2>2. \A i \in 1 .. Len(rows') : Label(rows'[i]) = Cases[i]
    <3>1. \A i \in 1 .. Len(rows') : i \in 1 .. Len(rows) \/ i = Len(rows) + 1
      BY <1>7
    <3> QED
      BY <1>5, <1>7, <1>10, <1>11, <3>1
  <2>3. \A k \in 1 .. Len(cases') : cases'[k] = Cases[Len(rows') + k]
    <3>1. ASSUME NEW k \in 1 .. Len(cases')
          PROVE  k + 1 \in 1 .. Len(cases) /\ Len(rows) + (k + 1) = Len(rows') + k
      <4>1. k \in 1 .. (Len(cases) - 1) /\ k \in Int
        BY <1>2, <1>4
      <4>2. Len(cases) \in Int /\ Len(rows) \in Int /\ Len(rows') = Len(rows) + 1
        BY <1>4, <1>7
      <4> QED
        BY <4>1, <4>2
    <3> QED
      BY <1>2, <1>4, <1>10, <3>1
  <2> QED
    BY <1>9, <2>1, <2>2, <2>3 DEF CasesInOrder, Label
<1>14. RowsComplete'
  <2>1. \A i \in 1 .. Len(rows') : RowIsComplete(rows'[i])
    <3>1. \A i \in 1 .. Len(rows') : i \in 1 .. Len(rows) \/ i = Len(rows) + 1
      BY <1>7
    <3> QED
      BY <1>1, <1>5, <1>7, <3>1 DEF RowsComplete
  <2> QED
    BY <1>2, <2>1 DEF RowsComplete, RowIsComplete, Label
<1>15. DetailsOfCases'
  <2>1. \A i \in 1 .. Len(details') : Label(details'[i]) \in ToSet(Cases)
    BY <1>1, <1>6, <1>8, <1>11 DEF DetailsOfCases
  <2> QED
    BY <1>9, <2>1 DEF DetailsOfCases, Label
<1>16. ChildServes' /\ ReportOfRows'
  BY <1>1, <1>2 DEF ChildServes, ReportOfRows, Written
<1> QED
  BY <1>12, <1>13, <1>14, <1>15, <1>16 DEF ComparisonInv

(* The other steps leave rows, details and cases alone.                    *)
LEMMA RestKeepsInv ==
    ASSUME ComparisonAssumption, ComparisonInv,
           Raise \/ TimeOut \/ WriteReport \/ Simulator \/ Over \/ UNCHANGED vars
    PROVE  ComparisonInv'
<1>1. /\ Typed /\ CasesInOrder /\ RowsComplete /\ DetailsOfCases /\ ChildServes /\ ReportOfRows
      /\ args' = args /\ cases' = cases /\ rows' = rows /\ details' = details
  BY DEF ComparisonInv, Raise, TimeOut, WriteReport, Simulator, ReadCommand, RunToEnd, Crash,
         Over, vars
<1>2. /\ Cases' = Cases /\ RowsComplete' /\ DetailsOfCases'
  BY <1>1, Unmoved
<1>3. \/ place = "waiting" /\ place' = "raised" /\ report' = report
      \/ place = "next" /\ place' = "returned 0" /\ WriteReport
      \/ /\ place' = place /\ report' = report /\ legacy' = legacy
         /\ Simulator \/ child' = child
  BY DEF Raise, TimeOut, WriteReport, Simulator, ReadCommand, RunToEnd, Crash, Over, vars
<1>4. Typed'
  BY <1>1, <1>3 DEF Typed
<1>5. CasesInOrder'
  BY <1>1, <1>2, <1>3 DEF CasesInOrder, Label
<1>6. ChildServes'
  <2>1. SUFFICES ASSUME place' = "waiting" PROVE ChildServes'
    BY DEF ChildServes
  <2>2. CASE Simulator
    <3>1. place = "waiting"
      BY <1>3, <2>1
    <3>2. /\ DOMAIN child' = DOMAIN NoChild /\ child'.sent \in Seq(Snapshots)
          /\ child'.sent # <<>> /\ Serving'
      BY <2>2, <3>1, ReadKeepsServing, EndKeepsServing DEF Simulator
    <3> QED
      BY <3>2 DEF ChildServes, NoChild
  <2>3. CASE child' = child
    <3>1. place = "waiting"
      BY <1>3, <2>1 DEF WriteReport
    <3> QED
      BY <1>1, <2>3, <3>1 DEF ChildServes, Serving, Seeded, Commands, ServedBy, NoChild
  <2> QED
    BY <1>3, <2>1, <2>2, <2>3
<1>7. ReportOfRows'
  <2>1. CASE WriteReport
    BY <1>1, <2>1 DEF WriteReport, ReportOfRows, Written
  <2>2. CASE report' = report /\ place = "waiting"
    BY <1>1, <2>2 DEF ReportOfRows, Written
  <2>3. CASE report' = report /\ place' = place /\ legacy' = legacy
    BY <1>1, <2>3 DEF ReportOfRows, Written
  <2> QED
    BY <1>3, <2>1, <2>2, <2>3
<1> QED
  BY <1>2, <1>4, <1>5, <1>6, <1>7 DEF ComparisonInv

(* Every state satisfies the invariant.                                    *)
THEOREM ComparisonInvariant == Spec => []ComparisonInv
<1>1. Init => ComparisonInv
  BY ComparisonAssumption, ComparisonInvInit
<1>2. ComparisonInv /\ [Next]_vars => ComparisonInv'
  <2> SUFFICES ASSUME ComparisonInv, [Next]_vars PROVE ComparisonInv'
    OBVIOUS
  <2>1. CASE Start
    BY <2>1, ComparisonAssumption, StartKeepsInv
  <2>2. CASE Launch
    BY <2>2, ComparisonAssumption, LaunchKeepsInv
  <2>3. CASE Collect
    BY <2>3, ComparisonAssumption, CollectKeepsInv
  <2>4. CASE Raise \/ TimeOut \/ WriteReport \/ Simulator \/ Over \/ UNCHANGED vars
    BY <2>4, ComparisonAssumption, RestKeepsInv
  <2> QED
    BY <2>1, <2>2, <2>3, <2>4 DEF Next, Tool
<1> QED
  BY <1>1, <1>2, PTL DEF Spec

-----------------------------------------------------------------------------
(* The members of a sorted set are members of the set.                     *)
LEMMA WorstAreDetails ==
    ASSUME ComparisonAssumption, NEW ds \in Seq(DetailRecords)
    PROVE  \A k \in DOMAIN WorstProcesses(ds) : WorstProcesses(ds)[k] \in DOMAIN ds
<1> DEFINE S == DOMAIN ds
           Worse(i, j) == \/ ds[i].turnaround_time > ds[j].turnaround_time
                          \/ ds[i].turnaround_time = ds[j].turnaround_time /\ i < j
           R == {p \in S \X S : Worse(p[1], p[2])}
           n == Len(ds)
           Earlier(i) == {j \in S : Worse(j, i)}
           sorted == [k \in 1 .. Cardinality(S) |->
                        CHOOSE i \in S : Cardinality(Earlier(i)) = k - 1]
           last == IF Len(ds) < WORST THEN Len(ds) ELSE WORST
<1>1. S = 1 .. n /\ n \in Nat
  BY LenProperties
<1>2. IsFiniteSet(S) /\ Cardinality(S) = n
  <2> HIDE DEF S, n
  <2> QED
    BY <1>1, Intervals
<1>3. \A i \in S : ds[i].turnaround_time \in Int /\ i \in Int
  <2>1. \A i \in S : ds[i] \in DetailRecords /\ i \in Int
    BY <1>1
  <2> HIDE DEF S
  <2> QED
    BY <2>1 DEF DetailRecords
<1>4. \A i, j \in S : <<i, j>> \in R <=> Worse(i, j)
  OBVIOUS
<1>5. \A i, j \in S : Worse(i, j) <=>
         \/ ds[i].turnaround_time > ds[j].turnaround_time
         \/ ds[i].turnaround_time = ds[j].turnaround_time /\ i < j
  OBVIOUS
<1>6. WorstProcesses(ds) = SubSeq(sorted, 1, last)
  BY DEF WorstProcesses, Sorted
<1>7. \A i \in S : Earlier(i) = Preceding(R, S, i)
  BY DEF Preceding
<1> HIDE DEF Worse, R, Earlier, S
<1>8. Orders(R, S)
  <2>1. ASSUME NEW i \in S, NEW j \in S, i # j PROVE Worse(i, j) <=> ~Worse(j, i)
    <3>1. i < j <=> ~(j < i)
      BY <1>3, <2>1
    <3>2. ds[i].turnaround_time \in Int /\ ds[j].turnaround_time \in Int
      BY <1>3
    <3> QED
      BY <1>5, <3>1, <3>2
  <2>2. \A i \in S : ~Worse(i, i)
    BY <1>3, <1>5
  <2>3. ASSUME NEW i \in S, NEW j \in S, NEW k \in S, Worse(i, j), Worse(j, k)
        PROVE  Worse(i, k)
    <3> DEFINE x(e) == ds[e].turnaround_time
    <3>1. \A e \in {i, j, k} : x(e) \in Int /\ e \in Int
      BY <1>3
    <3>2. /\ x(i) > x(j) \/ (x(i) = x(j) /\ i < j)
          /\ x(j) > x(k) \/ (x(j) = x(k) /\ j < k)
      BY <1>5, <2>3
    <3> HIDE DEF x
    <3>3. x(i) > x(k) \/ (x(i) = x(k) /\ i < k)
      BY <3>1, <3>2
    <3> QED
      BY <1>5, <3>3 DEF x
  <2> QED
    BY <1>4, <2>1, <2>2, <2>3 DEF Orders
<1>9. \A k \in 1 .. n : \E i \in S : Cardinality(Earlier(i)) = k - 1
  <2>1. \A k \in 1 .. Cardinality(S) : \E i \in S : Cardinality(Preceding(R, S, i)) = k - 1
    BY <1>2, <1>8, EachPlace
  <2> QED
    BY <1>2, <1>7, <2>1
<1>10. DOMAIN sorted = 1 .. n /\ \A k \in 1 .. n : sorted[k] \in S
  BY <1>2, <1>9
<1>11. last \in 0 .. n
  BY <1>1 DEF ComparisonAssumption
<1> HIDE DEF sorted, last
<1>12. /\ DOMAIN SubSeq(sorted, 1, last) = 1 .. last
       /\ \A k \in 1 .. last : SubSeq(sorted, 1, last)[k] = sorted[k]
  <2>1. sorted = [k \in 1 .. n |-> sorted[k]]
    BY <1>2 DEF sorted
  <2>2. sorted \in Seq(S)
    BY <1>1, <1>10, <2>1, IsASeq
  <2>3. Len(sorted) = n
    BY <1>1, <1>10, <2>2, LenProperties
  <2>4. \A s \in Seq(S) : \A m \in 0 .. Len(s) :
           DOMAIN SubSeq(s, 1, m) = 1 .. m /\ \A k \in 1 .. m : SubSeq(s, 1, m)[k] = s[k]
    <3> SUFFICES ASSUME NEW s \in Seq(S), NEW m \in 0 .. Len(s)
                 PROVE  /\ DOMAIN SubSeq(s, 1, m) = 1 .. m
                        /\ \A k \in 1 .. m : SubSeq(s, 1, m)[k] = s[k]
      OBVIOUS
    <3>1. Len(s) \in Nat
      BY LenProperties
    <3> QED
      BY <3>1
  <2> QED
    BY <1>11, <2>2, <2>3, <2>4
<1>13. \A k \in 1 .. last : k \in 1 .. n
  BY <1>1, <1>11
<1> QED
  BY <1>6, <1>10, <1>12, <1>13 DEF S

(* The report has a row per case, in order, each of a program of its own   *)
(* that ended under the settings of its label (summarize_simulation, main).*)
THEOREM ReportAlwaysComplete == Spec => []ReportIsComplete
<1>1. ComparisonInv => ReportIsComplete
  <2> SUFFICES ASSUME ComparisonInv, Written PROVE ReportIsComplete
    BY DEF ReportIsComplete
  <2>1. /\ place = "returned 0" /\ ~legacy /\ cases = <<>> /\ report = Report(rows, details)
        /\ args \in Arguments /\ rows \in Seq(RowRecords) /\ details \in Seq(DetailRecords)
        /\ RowsComplete /\ DetailsOfCases /\ CasesInOrder
    BY DEF ComparisonInv, ReportOfRows, Typed
  <2>2. /\ report.rows = rows
        /\ report.worst = [i \in DOMAIN WorstProcesses(details) |->
                             details[WorstProcesses(details)[i]]]
    BY <2>1 DEF Report
  <2>3. /\ Len(rows) \in Nat /\ DOMAIN rows = 1 .. Len(rows) /\ Len(Cases) = Len(rows)
        /\ \A i \in 1 .. Len(rows) : Label(rows[i]) = Cases[i]
    <3>1. Len(rows) \in Nat /\ DOMAIN rows = 1 .. Len(rows) /\ Len(cases) = 0
      BY <2>1, LenProperties
    <3>2. /\ Len(rows) + Len(cases) = Len(Cases)
          /\ \A i \in 1 .. Len(rows) : Label(rows[i]) = Cases[i]
      BY <2>1 DEF CasesInOrder
    <3> QED
      BY <3>1, <3>2
  <2>4. \A i \in DOMAIN rows : Label(rows[i]) = Cases[i] /\ RowIsComplete(rows[i])
    BY <2>1, <2>3 DEF RowsComplete
  <2>5. \A d \in ToSet(report.worst) : Label(d) \in ToSet(Cases)
    <3>1. \A k \in DOMAIN report.worst : \E i \in 1 .. Len(details) : report.worst[k] = details[i]
      <4>1. DOMAIN details = 1 .. Len(details)
        BY <2>1, LenProperties
      <4>2. \A k \in DOMAIN WorstProcesses(details) :
               WorstProcesses(details)[k] \in DOMAIN details
        BY <2>1, ComparisonAssumption, WorstAreDetails
      <4> QED
        BY <2>2, <4>1, <4>2
    <3>2. \A k \in DOMAIN report.worst : Label(report.worst[k]) \in ToSet(Cases)
      BY <2>1, <3>1 DEF DetailsOfCases
    <3> QED
      BY <3>2 DEF ToSet
  <2> QED
    BY <2>1, <2>2, <2>3, <2>4, <2>5 DEF ReportIsComplete, RowIsComplete, Label
<1> QED
  BY <1>1, ComparisonInvariant, PTL

(* Ranks, scores, winners and heat are fair (add_scores, html_ranking,     *)
(* html_matrix).                                                           *)
THEOREM RanksAlwaysFair == Spec => []RanksAreFair
<1>1. ComparisonInv => RanksAreFair
  <2> SUFFICES ASSUME ComparisonInv, Written PROVE RanksAreFair
    BY DEF RanksAreFair
  <2>1. /\ place = "returned 0" /\ cases = <<>> /\ report = Report(rows, details)
        /\ args \in Arguments /\ rows \in Seq(RowRecords)
        /\ Len(rows) + Len(cases) = Len(Cases)
    BY DEF ComparisonInv, ReportOfRows, Typed, CasesInOrder
  <2>2. Len(Cases) \in Nat \ {0}
    BY <2>1, ComparisonAssumption, ThereAreCases, EmptySeq
  <2>3. Len(cases) = 0 /\ Len(rows) \in Nat
    BY <2>1, LenProperties
  <2>4. rows # <<>>
    <3>1. Len(rows) + Len(cases) = Len(Cases)
      BY <2>1
    <3>2. Len(rows) # 0
      BY <2>2, <2>3, <3>1
    <3> QED
      BY <3>2, EmptySeq
  <2> QED
    BY <2>1, <2>4, ReportIsFair
<1> QED
  BY <1>1, ComparisonInvariant, PTL

=============================================================================
