----------------------------- MODULE FoldProofs -----------------------------
(***************************************************************************)
(* Induction, and what it says of the folds of the community modules: a    *)
(* fold over a finite set exists, and a fold over a sequence takes one     *)
(* element at a time, from left to right.                                  *)
(*                                                                         *)
(* The induction principle is stated with sets instead of predicates, and  *)
(* the operator that is folded is a constant of this module, which the     *)
(* module that folds instantiates: so the lemmas are first-order.          *)
(***************************************************************************)
EXTENDS Integers, Sequences, FiniteSetsExt, SequencesExt, Folds,
        FiniteSetTheorems, SequenceTheorems, WellFoundedInduction, TLAPS

CONSTANT Op(_, _)       \* from the value so far and an element to the next value

(* The natural numbers are well founded.                                   *)
LEMMA LessIsWellFounded ==
    \E R : IsWellFoundedOn(R, Nat) /\ \A m, n \in Nat : m < n => <<m, n>> \in R
<1>1. IsWellFoundedOn(OpToRel(<, Nat), Nat)
  BY NatLessThanWellFounded
<1>2. \A m, n \in Nat : m < n => <<m, n>> \in OpToRel(<, Nat)
  BY DEF OpToRel
<1> QED
  BY <1>1, <1>2, Zenon

(* Every set of natural numbers has a least one.                           *)
LEMMA LeastNatural ==
    ASSUME NEW S \in SUBSET Nat, S # {}
    PROVE  \E n \in S : \A m \in S : n =< m
<1>1. PICK R : IsWellFoundedOn(R, Nat) /\ \A m, n \in Nat : m < n => <<m, n>> \in R
  BY LessIsWellFounded
<1>2. IsWellFoundedOn(R, Nat) /\ S \subseteq Nat /\ S # {}
  BY <1>1, Zenon
<1>3. \E x \in S : \A y \in S : ~(<<y, x>> \in R)
  BY <1>2, WFMin
<1>4. \A m, n \in Nat : ~(m < n) => n =< m
  OBVIOUS
<1>5. PICK x \in S : \A y \in S : ~(<<y, x>> \in R)
  BY <1>3
<1>6. \A y \in S : ~(y < x)
  BY <1>1, <1>2, <1>5, Zenon
<1> QED
  BY <1>2, <1>4, <1>6

(* Induction on the natural numbers.                                       *)
LEMMA Induction ==
    ASSUME NEW S, 0 \in S, \A n \in Nat : n \in S => n + 1 \in S
    PROVE  \A n \in Nat : n \in S
<1> SUFFICES ASSUME Nat \ S # {} PROVE FALSE
  OBVIOUS
<1>1. PICK n \in Nat \ S : \A m \in Nat \ S : n =< m
  BY LeastNatural
<1>2. n # 0 /\ n - 1 \in Nat
  BY <1>1
<1>3. n - 1 \in S
  BY <1>1, <1>2
<1> QED
  BY <1>1, <1>2, <1>3
(* Induction up to a bound.                                                *)
LEMMA InductionTo ==
    ASSUME NEW n \in Nat, NEW S, 0 \in S, \A k \in 1 .. n : k - 1 \in S => k \in S
    PROVE  \A k \in 0 .. n : k \in S
<1> DEFINE Good == {k \in Nat : k =< n => k \in S}
<1>1. 0 \in Good
  OBVIOUS
<1>2. ASSUME NEW k \in Nat, k \in Good PROVE k + 1 \in Good
  <2>1. k + 1 =< n => k + 1 \in 1 .. n /\ k =< n /\ (k + 1) - 1 = k
    OBVIOUS
  <2> QED
    BY <1>2, <2>1
<1>3. \A k \in Nat : k \in Good
  <2> HIDE DEF Good
  <2> QED
    BY <1>1, <1>2, Induction
<1> QED
  BY <1>3

-----------------------------------------------------------------------------
(* A fold over the subsets of S that takes out pick[s] first.              *)
Picks(pick, S) == \A s \in SUBSET S : s # {} => pick[s] \in s

Solves(it, S, base, value, pick) ==
    it = [s \in SUBSET S |->
             IF s = {} THEN base ELSE Op(it[s \ {pick[s]}], value[pick[s]])]

(* The equation of a fold determines its values, also on a part of S.      *)
LEMMA FoldUnique ==
    ASSUME NEW S, IsFiniteSet(S), NEW base, NEW value, NEW pick, Picks(pick, S),
           NEW U \in SUBSET S, NEW f, Solves(f, S, base, value, pick),
           NEW g, Solves(g, U, base, value, pick)
    PROVE  \A s \in SUBSET U : g[s] = f[s]
<1> DEFINE Good == {n \in Nat : \A s \in SUBSET U : Cardinality(s) = n => g[s] = f[s]}
<1>1. \A s \in SUBSET U : IsFiniteSet(s) /\ Cardinality(s) \in Nat /\ s \in SUBSET S
  BY FS_Subset, FS_CardinalityType
<1>2. 0 \in Good
  BY <1>1, FS_EmptySet DEF Solves
<1>3. ASSUME NEW n \in Nat, n \in Good PROVE n + 1 \in Good
  <2> SUFFICES ASSUME NEW s \in SUBSET U, Cardinality(s) = n + 1 PROVE g[s] = f[s]
    OBVIOUS
  <2>0. n + 1 # 0 /\ (n + 1) - 1 = n
    OBVIOUS
  <2>1. s # {}
    BY <2>0, FS_EmptySet
  <2>2. pick[s] \in s
    BY <1>1, <2>1 DEF Picks
  <2> DEFINE t == s \ {pick[s]}
  <2>3. Cardinality(t) = n /\ t \in SUBSET U
    <3>1. IsFiniteSet(s) /\ s \in SUBSET S
      BY <1>1
    <3>2. Cardinality(s \ {pick[s]}) = Cardinality(s) - 1
      BY <2>2, <3>1, FS_RemoveElement
    <3> QED
      BY <2>0, <3>1, <3>2
  <2>4. g[t] = f[t]
    BY <1>3, <2>3
  <2>5. g[s] = Op(g[t], value[pick[s]]) /\ f[s] = Op(f[t], value[pick[s]])
    BY <1>1, <2>1 DEF Solves
  <2> QED
    BY <2>4, <2>5
<1>4. \A n \in Nat : n \in Good
  <2> HIDE DEF Good
  <2> QED
    BY <1>2, <1>3, Induction
<1> QED
  BY <1>1, <1>4

(* The equation of a fold over a finite set has a solution.                *)
LEMMA FoldExists ==
    ASSUME NEW S, IsFiniteSet(S), NEW base, NEW value, NEW pick, Picks(pick, S)
    PROVE  \E it : Solves(it, S, base, value, pick)
<1> DEFINE Sets(n) == {s \in SUBSET S : Cardinality(s) =< n}
           Value(it, s) == IF s = {} THEN base ELSE Op(it[s \ {pick[s]}], value[pick[s]])
           UpTo(it, n) == \A s \in Sets(n) : it[s] = Value(it, s)
           Good == {n \in Nat : \E it : UpTo(it, n)}
<1>1. \A s \in SUBSET S : IsFiniteSet(s) /\ Cardinality(s) \in Nat
                            /\ Cardinality(s) =< Cardinality(S)
  BY FS_Subset, FS_CardinalityType
<1>2. 0 \in Good
  <2>1. \A s \in Sets(0) : s = {}
    BY <1>1, FS_EmptySet
  <2>2. UpTo([r \in {{}} |-> base], 0)
    BY <2>1
  <2> HIDE DEF UpTo
  <2> QED
    BY <2>2
<1>3. ASSUME NEW n \in Nat, n \in Good PROVE n + 1 \in Good
  <2>1. PICK it : UpTo(it, n)
    BY <1>3
  <2> DEFINE next == [s \in SUBSET S |-> Value(it, s)]
  <2>2. ASSUME NEW s \in Sets(n + 1) PROVE next[s] = Value(next, s)
    <3>1. CASE s = {}
      BY <3>1
    <3>2. CASE s # {}
      <4> DEFINE t == s \ {pick[s]}
      <4>1. t \in Sets(n)
        <5>1. pick[s] \in s /\ IsFiniteSet(s) /\ Cardinality(s) \in Nat
          BY <1>1, <3>2 DEF Picks
        <5>2. Cardinality(t) = Cardinality(s) - 1
          BY <5>1, FS_RemoveElement
        <5> QED
          BY <5>1, <5>2
      <4>2. it[t] = Value(it, t) /\ next[t] = Value(it, t)
        BY <2>1, <4>1
      <4> QED
        BY <3>2, <4>2
    <3> QED
      BY <3>1, <3>2
  <2>3. UpTo(next, n + 1)
    BY <2>2
  <2> HIDE DEF UpTo, next
  <2> QED
    BY <2>3
<1>4. \A n \in Nat : n \in Good
  <2> HIDE DEF Good
  <2> QED
    BY <1>2, <1>3, Induction
<1>5. Cardinality(S) \in Good /\ Sets(Cardinality(S)) = SUBSET S
  <2>1. Cardinality(S) \in Nat
    BY FS_CardinalityType
  <2>2. Sets(Cardinality(S)) = SUBSET S
    BY <1>1
  <2> HIDE DEF Good, Sets
  <2> QED
    BY <1>4, <2>1, <2>2
<1>6. PICK it : \A s \in SUBSET S : it[s] = Value(it, s)
  <2>1. PICK it : UpTo(it, Cardinality(S))
    BY <1>5
  <2> QED
    BY <1>5, <2>1
<1>7. Solves([s \in SUBSET S |-> it[s]], S, base, value, pick)
  BY <1>6 DEF Solves, Picks
<1> QED
  BY <1>7

-----------------------------------------------------------------------------
(* Folds over sequences, from left to right.                               *)

(* FoldLeft takes the greatest index out first.                            *)
Rightmost(n) == [s \in SUBSET (1 .. n) |-> Max(s)]

(* The greatest of a finite set of numbers.                                *)
LEMMA GreatestOf ==
    ASSUME NEW n \in Nat, NEW s \in SUBSET (1 .. n), s # {}
    PROVE  Max(s) \in s /\ \A m \in s : Max(s) >= m
<1> DEFINE Above == {k \in Nat : \A m \in s : m =< k}
<1>1. n \in Above /\ Above \in SUBSET Nat
  OBVIOUS
<1>2. PICK k \in Above : \A m \in Above : k =< m
  <2> HIDE DEF Above
  <2> QED
    BY <1>1, LeastNatural
<1>3. k \in s
  <2> SUFFICES ASSUME k \notin s PROVE FALSE
    OBVIOUS
  <2>1. \A m \in s : m =< k - 1 /\ 1 =< m
    BY <1>2
  <2>2. k - 1 \in Nat
    <3>1. PICK m \in s : m =< k - 1 /\ 1 =< m
      BY <2>1
    <3>2. m \in Nat /\ k \in Nat
      BY <1>2
    <3> QED
      BY <3>1, <3>2
  <2> QED
    BY <1>2, <2>1, <2>2
<1>4. \E x \in s : \A y \in s : x >= y
  BY <1>2, <1>3
<1> QED
  BY <1>4 DEF Max

(* From 1 .. k it takes k.                                                 *)
LEMMA RightmostPicks ==
    ASSUME NEW n \in Nat
    PROVE  /\ Picks(Rightmost(n), 1 .. n)
           /\ \A k \in 1 .. n : Rightmost(n)[1 .. k] = k /\ (1 .. k) \ {k} = 1 .. k - 1
<1>1. Picks(Rightmost(n), 1 .. n)
  BY GreatestOf DEF Picks, Rightmost
<1>2. ASSUME NEW k \in 1 .. n PROVE Max(1 .. k) = k
  <2>1. 1 .. k \in SUBSET (1 .. n) /\ 1 .. k # {} /\ k \in 1 .. k
    OBVIOUS
  <2>2. Max(1 .. k) \in 1 .. k /\ Max(1 .. k) >= k
    BY <2>1, GreatestOf
  <2> QED
    BY <2>2
<1>3. \A k \in 1 .. n : 1 .. k \in SUBSET (1 .. n) /\ (1 .. k) \ {k} = 1 .. k - 1
  OBVIOUS
<1> QED
  BY <1>1, <1>2, <1>3 DEF Rightmost

(* The indices up to k are some of those up to n.                          *)
LEMMA Beginnings ==
    ASSUME NEW n \in Nat, NEW k \in 1 .. n
    PROVE  /\ 1 .. k \in SUBSET (1 .. n) /\ 1 .. k # {}
           /\ k \in 0 .. n /\ k - 1 \in 0 .. n
<1>1. k \in 1 .. k
  OBVIOUS
<1> QED
  BY <1>1

(* The fold, under a name that hides its operator: a term of first order.  *)
Folded(base, seq) == FoldLeft(Op, base, seq)

(* The values that a fold over a sequence goes through, one per element.   *)
LEMMA FoldLeftSteps ==
    ASSUME NEW n \in Nat, NEW seq, DOMAIN seq = 1 .. n, NEW base
    PROVE  \E r : /\ r[0] = base /\ r[n] = Folded(base, seq)
                  /\ \A k \in 1 .. n : r[k] = Op(r[k - 1], seq[k])
<1> DEFINE S == 1 .. n
           Fold(it) == it = [s \in SUBSET S |->
               IF s = {} THEN base ELSE Op(it[s \ {Max(s)}], seq[Max(s)])]
           g == CHOOSE it : Fold(it)
<1>1. Folded(base, seq) = g[S]
  BY DEF Folded, FoldLeft, MapThenFoldSet
<1>2. PICK h : Solves(h, S, base, seq, Rightmost(n))
  <2>1. IsFiniteSet(S) /\ Picks(Rightmost(n), S)
    BY FS_Interval, RightmostPicks
  <2> QED
    BY <2>1, FoldExists
<1>3. Fold(h)
  BY <1>2 DEF Solves, Rightmost
<1>4. Fold(g)
  <2> HIDE DEF Fold
  <2> QED
    BY <1>3
<1> HIDE DEF g
<1> DEFINE r == [k \in 0 .. n |-> g[1 .. k]]
<1>5. r[0] = base
  <2>1. 1 .. 0 = {} /\ 0 \in 0 .. n /\ {} \in SUBSET S
    OBVIOUS
  <2> QED
    BY <1>4, <2>1
<1>6. ASSUME NEW k \in 1 .. n PROVE r[k] = Op(r[k - 1], seq[k])
  <2>1. 1 .. k \in SUBSET S /\ 1 .. k # {} /\ k \in 0 .. n /\ k - 1 \in 0 .. n
    BY Beginnings
  <2>2. Max(1 .. k) = k /\ (1 .. k) \ {k} = 1 .. k - 1
    BY <2>1, RightmostPicks DEF Rightmost
  <2>3. g[1 .. k] = Op(g[1 .. k - 1], seq[k])
    BY <1>4, <2>1, <2>2
  <2> QED
    BY <2>1, <2>3
<1>7. r[n] = g[S]
  OBVIOUS
<1> QED
  BY <1>1, <1>5, <1>6, <1>7

-----------------------------------------------------------------------------
(* Folds of the values of a function over a finite set.                    *)

FoldedSet(base, f, s) == FoldFunctionOnSet(LAMBDA e, v : Op(v, e), base, f, s)

(* The element that is taken out first.                                    *)
Chosen(s) == CHOOSE x \in s : TRUE

(* The fold takes out one element after the other.                         *)
LEMMA FoldSetSteps ==
    ASSUME NEW S, IsFiniteSet(S), NEW base, NEW f
    PROVE  /\ FoldedSet(base, f, {}) = base
           /\ \A s \in SUBSET S : s # {} =>
                 /\ Chosen(s) \in s
                 /\ FoldedSet(base, f, s) = Op(FoldedSet(base, f, s \ {Chosen(s)}), f[Chosen(s)])
<1> DEFINE pick == [s \in SUBSET S |-> CHOOSE x \in s : TRUE]
           Fold(it, s) ==
               it = [t \in SUBSET s |->
                      IF t = {} THEN base
                      ELSE Op(it[t \ {CHOOSE x \in t : TRUE}], f[CHOOSE x \in t : TRUE])]
<1>1. Picks(pick, S) /\ S \in SUBSET S
  BY DEF Picks
<1>2. \A s \in SUBSET S : FoldedSet(base, f, s) = (CHOOSE it : Fold(it, s))[s]
  BY DEF FoldedSet, FoldFunctionOnSet, MapThenFoldSet
<1>3. \A s \in SUBSET S : \A it : Fold(it, s) <=> Solves(it, s, base, f, pick)
  BY DEF Solves
<1>4. PICK h : Solves(h, S, base, f, pick)
  <2> HIDE DEF pick
  <2> QED
    BY <1>1, FoldExists
<1>5. ASSUME NEW s \in SUBSET S PROVE FoldedSet(base, f, s) = h[s]
  <2> DEFINE g == CHOOSE it : Fold(it, s)
  <2>1. Fold([t \in SUBSET s |-> h[t]], s)
    BY <1>4 DEF Solves
  <2>2. Solves(g, s, base, f, pick)
    <3> HIDE DEF Fold
    <3> QED
      BY <1>3, <2>1
  <2>3. g[s] = h[s]
    <3> HIDE DEF g, pick
    <3>1. \A t \in SUBSET s : g[t] = h[t]
      BY <1>1, <1>4, <2>2, FoldUnique
    <3> QED
      BY <3>1
  <2> QED
    BY <1>2, <2>3
<1>6. /\ h[{}] = base
      /\ \A s \in SUBSET S : s # {} => pick[s] \in s /\ h[s] = Op(h[s \ {pick[s]}], f[pick[s]])
  BY <1>1, <1>4 DEF Solves, Picks
<1>7. ASSUME NEW s \in SUBSET S, s # {}
      PROVE  /\ Chosen(s) \in s
             /\ FoldedSet(base, f, s) = Op(FoldedSet(base, f, s \ {Chosen(s)}), f[Chosen(s)])
  <2> DEFINE x == Chosen(s)
  <2>1. x = pick[s] /\ s \ {x} \in SUBSET S
    BY DEF Chosen
  <2>2. FoldedSet(base, f, s) = h[s] /\ FoldedSet(base, f, s \ {x}) = h[s \ {x}]
    BY <1>5, <2>1
  <2>3. x \in s /\ h[s] = Op(h[s \ {x}], f[x])
    BY <1>6, <1>7, <2>1
  <2> QED
    BY <2>2, <2>3
<1> QED
  BY <1>5, <1>6, <1>7

=============================================================================
