---------------------------- MODULE MemoryProofs ----------------------------
(***************************************************************************)
(* The block list is sound after any sequence of kmalloc and kfree, and    *)
(* with its cached counters it implements the memory map.                  *)
(*                                                                         *)
(* The argument goes through the used blocks of a list: two lists that     *)
(* tile the memory and have the same used blocks describe the same memory, *)
(* kmerge does not change the used blocks, kmalloc adds one and kfree      *)
(* takes the blocks of one owner out.                                      *)
(***************************************************************************)
EXTENDS Memory, FiniteSetTheorems, TLAPS

Merging == INSTANCE FoldProofs WITH Op <- Absorb
Counting == INSTANCE FoldProofs WITH Op <- CountFree
Reserving == INSTANCE FoldProofs WITH Op <- Reserve

Plus(sum, n) == sum + n
Adding == INSTANCE FoldProofs WITH Op <- Plus

-----------------------------------------------------------------------------
(* Lists that tile the memory.                                             *)

Records == [start : 0 .. TOTAL_BLOCKS, limit : 0 .. TOTAL_BLOCKS,
            length : 1 .. TOTAL_BLOCKS, owner : Owners \cup {NULL}]

(* The list covers 0 .. end - 1, one block after the other.                *)
Tiles(l, end) ==
    /\ l \in Seq(Records) /\ Len(l) > 0
    /\ l[1].start = 0 /\ l[Len(l)].limit = end
    /\ \A i \in 1 .. Len(l) : l[i].length = l[i].limit - l[i].start
    /\ \A i \in 2 .. Len(l) : l[i].start = l[i - 1].limit

Coalesced(l) ==
    \A i \in 2 .. Len(l) : l[i].owner # NULL \/ l[i - 1].owner # NULL

Covers(x, b) == x.start =< b /\ b < x.limit

Used(l) == {x \in Range(l) : x.owner # NULL}

(* The fields of the blocks of a list that tiles the memory.               *)
LEMMA Fields ==
    ASSUME NEW l, NEW end, Tiles(l, end), NEW i \in 1 .. Len(l)
    PROVE  /\ l[i] \in Records /\ DOMAIN l = 1 .. Len(l) /\ Len(l) \in Nat
           /\ l[i].start \in Nat /\ l[i].limit \in Nat /\ l[i].length \in Nat
           /\ l[i].length = l[i].limit - l[i].start
           /\ l[i].start < l[i].limit /\ l[i].limit =< TOTAL_BLOCKS
           /\ l[i].owner \in Owners \cup {NULL}
<1>1. Len(l) \in Nat /\ l \in [1 .. Len(l) -> Records]
  BY DEF Tiles
<1>2. l[i] \in Records
  BY <1>1
<1>3. TOTAL_BLOCKS \in Nat
  BY MemoryAssumption
<1>4. /\ l[i].start \in 0 .. TOTAL_BLOCKS /\ l[i].limit \in 0 .. TOTAL_BLOCKS
      /\ l[i].length \in 1 .. TOTAL_BLOCKS /\ l[i].owner \in Owners \cup {NULL}
  BY <1>2 DEF Records
<1>5. l[i].length = l[i].limit - l[i].start
  BY DEF Tiles
<1> QED
  BY <1>1, <1>2, <1>3, <1>4, <1>5

(* A block that comes earlier in the list ends before the later one.       *)
LEMMA InOrder ==
    ASSUME NEW l, NEW end, Tiles(l, end)
    PROVE  \A j \in 1 .. Len(l) : \A i \in 1 .. j - 1 : l[i].limit =< l[j].start
<1> DEFINE S == {j \in Nat : j \in 1 .. Len(l) => \A i \in 1 .. j - 1 : l[i].limit =< l[j].start}
<1>1. 0 \in S
  OBVIOUS
<1>2. ASSUME NEW j \in Nat, j \in S PROVE j + 1 \in S
  <2> SUFFICES ASSUME j + 1 \in 1 .. Len(l), NEW i \in 1 .. j
               PROVE  l[i].limit =< l[j + 1].start
    OBVIOUS
  <2>1. j \in 1 .. Len(l) /\ i \in 1 .. Len(l) /\ Len(l) \in Nat /\ j + 1 \in 2 .. Len(l)
    BY DEF Tiles
  <2>2. l[j + 1].start = l[j].limit
    <3>1. (j + 1) - 1 = j
      OBVIOUS
    <3> QED
      BY <2>1, <3>1 DEF Tiles
  <2>3. CASE i = j
    BY <2>1, <2>2, <2>3, Fields
  <2>4. CASE i < j
    <3>1. l[i].limit =< l[j].start
      BY <1>2, <2>1, <2>4
    <3>2. /\ l[i].limit \in Nat /\ l[j].start \in Nat /\ l[j].limit \in Nat
          /\ l[j].start < l[j].limit
      BY <2>1, Fields
    <3> QED
      BY <2>2, <3>1, <3>2
  <2> QED
    BY <2>3, <2>4
<1>3. \A j \in Nat : j \in S
  <2> HIDE DEF S
  <2> QED
    BY <1>1, <1>2, Merging!Induction
<1> QED
  BY <1>3

(* No two blocks cover the same address.                                   *)
LEMMA OneCovers ==
    ASSUME NEW l, NEW end, Tiles(l, end), NEW b \in Nat,
           NEW i \in 1 .. Len(l), NEW j \in 1 .. Len(l),
           Covers(l[i], b), Covers(l[j], b)
    PROVE  i = j
<1>1. Len(l) \in Nat
  BY DEF Tiles
<1>2. /\ l[i].limit \in Nat /\ l[j].start \in Nat
      /\ l[j].limit \in Nat /\ l[i].start \in Nat
  BY Fields
<1>3. i < j => l[i].limit =< l[j].start
  BY <1>1, InOrder
<1>4. j < i => l[j].limit =< l[i].start
  BY <1>1, InOrder
<1> QED
  BY <1>1, <1>2, <1>3, <1>4 DEF Covers

(* Some block covers each address.                                         *)
LEMMA SomeCovers ==
    ASSUME NEW l, NEW end \in Nat, Tiles(l, end), NEW b \in 0 .. end - 1
    PROVE  \E i \in 1 .. Len(l) : Covers(l[i], b)
<1> DEFINE S == {i \in 1 .. Len(l) : b < l[i].limit}
<1>1. Len(l) \in Nat /\ Len(l) \in S /\ S \in SUBSET Nat
  BY DEF Tiles
<1>2. PICK i \in S : \A j \in S : i =< j
  <2> HIDE DEF S
  <2> QED
    BY <1>1, Merging!LeastNatural
<1>3. l[i].start =< b
  <2>1. CASE i = 1
    BY <2>1 DEF Tiles
  <2>2. CASE i # 1
    <3>1. i - 1 \in 1 .. Len(l) /\ i \in 2 .. Len(l)
      BY <1>1, <2>2
    <3>2. l[i].start = l[i - 1].limit
      BY <3>1 DEF Tiles
    <3>3. l[i - 1].limit \in Nat
      BY <3>1, Fields
    <3>4. ~(b < l[i - 1].limit)
      BY <1>2, <3>1
    <3> QED
      BY <3>2, <3>3, <3>4
  <2> QED
    BY <2>1, <2>2
<1> QED
  BY <1>3 DEF Covers

-----------------------------------------------------------------------------
(* The memory that a list describes.                                       *)

(* An address belongs to the owner of the block that covers it.            *)
LEMMA CellOfBlock ==
    ASSUME NEW l, Tiles(l, TOTAL_BLOCKS), NEW b \in 0 .. TOTAL_BLOCKS - 1,
           NEW i \in 1 .. Len(l), Covers(l[i], b)
    PROVE  Cells(l)[b] = l[i].owner
<1> DEFINE x == CHOOSE y \in Range(l) : y.start =< b /\ b < y.limit
<1>1. DOMAIN l = 1 .. Len(l)
  BY Fields
<1>2. x \in Range(l) /\ Covers(x, b)
  <2>1. l[i] \in Range(l) /\ l[i].start =< b /\ b < l[i].limit
    BY <1>1 DEF Range, Covers
  <2> QED
    BY <2>1 DEF Covers
<1>3. Cells(l)[b] = x.owner
  BY DEF Cells
<1> HIDE DEF x
<1>4. PICK j \in 1 .. Len(l) : x = l[j]
  BY <1>1, <1>2 DEF Range
<1>5. i = j
  <2>1. b \in Nat
    OBVIOUS
  <2>2. Covers(l[j], b)
    BY <1>2, <1>4
  <2> QED
    BY <2>1, <2>2, OneCovers
<1> QED
  BY <1>3, <1>4, <1>5

(* It is that of the used block that covers the address, or NULL.          *)
LEMMA CellOfUsed ==
    ASSUME NEW l, Tiles(l, TOTAL_BLOCKS), NEW b \in 0 .. TOTAL_BLOCKS - 1
    PROVE  /\ \A x \in Used(l) : Covers(x, b) => Cells(l)[b] = x.owner
           /\ (\A x \in Used(l) : ~Covers(x, b)) => Cells(l)[b] = NULL
<1>1. TOTAL_BLOCKS \in Nat
  BY MemoryAssumption
<1>2. PICK i \in 1 .. Len(l) : Covers(l[i], b)
  BY <1>1, SomeCovers
<1>3. DOMAIN l = 1 .. Len(l)
  BY Fields
<1>4. ASSUME NEW x \in Used(l), Covers(x, b) PROVE Cells(l)[b] = x.owner
  <2>1. PICK j \in 1 .. Len(l) : x = l[j]
    BY <1>3 DEF Used, Range
  <2> QED
    BY <1>4, <2>1, CellOfBlock
<1>5. ASSUME \A x \in Used(l) : ~Covers(x, b) PROVE Cells(l)[b] = NULL
  <2>1. l[i].owner = NULL
    BY <1>2, <1>3, <1>5 DEF Used, Range
  <2> QED
    BY <1>2, <2>1, CellOfBlock
<1> QED
  BY <1>4, <1>5

(* A used block more is a claim of its addresses.                          *)
LEMMA CellsClaimed ==
    ASSUME NEW l, Tiles(l, TOTAL_BLOCKS), NEW m, Tiles(m, TOTAL_BLOCKS),
           NEW s \in Nat, NEW n \in Nat, NEW p, p # NULL,
           Used(m) = Used(l) \cup {Block(s, s + n, p)}
    PROVE  Cells(m) = Map!Claim(Cells(l), s, n, p)
<1> DEFINE x == Block(s, s + n, p)
<1>1. x.start = s /\ x.limit = s + n /\ x.owner = p
  BY DEF Block
<1>2. ASSUME NEW b \in 0 .. TOTAL_BLOCKS - 1
      PROVE  Cells(m)[b] = IF b \in s .. s + n - 1 THEN p ELSE Cells(l)[b]
  <2>1. Covers(x, b) <=> b \in s .. s + n - 1
    BY <1>1 DEF Covers
  <2> HIDE DEF x
  <2>2. CASE Covers(x, b)
    <3>1. x \in Used(m)
      BY DEF x
    <3>2. Cells(m)[b] = x.owner
      BY <2>2, <3>1, CellOfUsed
    <3> QED
      BY <1>1, <2>1, <2>2, <3>2
  <2>3. CASE ~Covers(x, b)
    <3>1. \A y \in Used(m) : Covers(y, b) => y \in Used(l)
      BY <2>3 DEF x
    <3>2. Cells(m)[b] = Cells(l)[b]
      <4>1. CASE \E y \in Used(l) : Covers(y, b)
        <5>1. PICK y \in Used(l) : Covers(y, b)
          BY <4>1
        <5>2. y \in Used(m)
          BY <5>1
        <5> QED
          BY <5>1, <5>2, CellOfUsed
      <4>2. CASE \A y \in Used(l) : ~Covers(y, b)
        <5>1. \A y \in Used(m) : ~Covers(y, b)
          BY <3>1, <4>2
        <5>2. Cells(l)[b] = NULL
          BY <4>2, CellOfUsed
        <5>3. Cells(m)[b] = NULL
          BY <5>1, CellOfUsed
        <5> QED
          BY <5>2, <5>3
      <4> QED
        BY <4>1, <4>2
    <3> QED
      BY <2>1, <2>3, <3>2
  <2> QED
    BY <2>2, <2>3
<1> QED
  BY <1>2 DEF Cells, Map!Claim, Map!Blocks

(* Without the used blocks of an owner, its addresses are free.            *)
LEMMA CellsReleased ==
    ASSUME NEW l, Tiles(l, TOTAL_BLOCKS), NEW m, Tiles(m, TOTAL_BLOCKS),
           NEW p, p # NULL, Used(m) = {x \in Used(l) : x.owner # p}
    PROVE  Cells(m) = Map!Release(Cells(l), p)
<1>1. ASSUME NEW b \in 0 .. TOTAL_BLOCKS - 1
      PROVE  Cells(m)[b] = IF Cells(l)[b] = p THEN NULL ELSE Cells(l)[b]
  <2>1. CASE \E x \in Used(l) : Covers(x, b)
    <3>1. PICK x \in Used(l) : Covers(x, b)
      BY <2>1
    <3>2. \A y \in Used(l) : Covers(y, b) => Cells(l)[b] = y.owner
      BY CellOfUsed
    <3>3. CASE x.owner = p
      <4>1. \A y \in Used(m) : ~Covers(y, b)
        BY <3>1, <3>2, <3>3
      <4>2. Cells(m)[b] = NULL
        BY <4>1, CellOfUsed
      <4> QED
        BY <3>1, <3>2, <3>3, <4>2
    <3>4. CASE x.owner # p
      <4>1. x \in Used(m)
        BY <3>1, <3>4
      <4>2. Cells(m)[b] = x.owner
        BY <3>1, <4>1, CellOfUsed
      <4> QED
        BY <3>1, <3>2, <3>4, <4>2
    <3> QED
      BY <3>3, <3>4
  <2>2. CASE \A x \in Used(l) : ~Covers(x, b)
    <3>1. Cells(l)[b] = NULL
      BY <2>2, CellOfUsed
    <3>2. \A x \in Used(m) : ~Covers(x, b)
      BY <2>2
    <3>3. Cells(m)[b] = NULL
      BY <3>2, CellOfUsed
    <3> QED
      BY <3>1, <3>3
  <2> QED
    BY <2>1, <2>2
<1> QED
  BY <1>1 DEF Cells, Map!Release, Map!Blocks

-----------------------------------------------------------------------------
(* kfree: the blocks of an owner are disowned, and neighbours merged.      *)

(* Disown takes the used blocks of p out and moves no bound.               *)
LEMMA DisownTiles ==
    ASSUME NEW l, Tiles(l, TOTAL_BLOCKS), NEW p \in Owners, p # NULL
    PROVE  /\ Tiles(Disown(l, p), TOTAL_BLOCKS)
           /\ Used(Disown(l, p)) = {x \in Used(l) : x.owner # p}
<1> DEFINE m == Disown(l, p)
<1>1. DOMAIN l = 1 .. Len(l) /\ Len(l) \in Nat /\ Len(l) > 0
  BY DEF Tiles
<1>2. m = [i \in 1 .. Len(l) |-> IF l[i].owner = p THEN [l[i] EXCEPT !.owner = NULL]
                                                   ELSE l[i]]
  BY <1>1 DEF Disown
<1> HIDE DEF m
<1>3. ASSUME NEW i \in 1 .. Len(l)
      PROVE  /\ m[i] \in Records
             /\ m[i].start = l[i].start /\ m[i].limit = l[i].limit
             /\ m[i].length = l[i].length
             /\ IF l[i].owner = p THEN m[i].owner = NULL ELSE m[i] = l[i]
  <2>1. l[i] \in Records
    BY Fields
  <2>2. m[i] = IF l[i].owner = p THEN [l[i] EXCEPT !.owner = NULL] ELSE l[i]
    BY <1>2
  <2> QED
    BY <2>1, <2>2 DEF Records
<1>4. m \in Seq(Records) /\ Len(m) = Len(l) /\ DOMAIN m = 1 .. Len(l)
  BY <1>1, <1>2, <1>3
<1>5. Tiles(m, TOTAL_BLOCKS)
  <2>1. \A i \in 2 .. Len(l) : i - 1 \in 1 .. Len(l) /\ i \in 1 .. Len(l)
    BY <1>1
  <2>2. 1 \in 1 .. Len(l) /\ Len(l) \in 1 .. Len(l)
    BY <1>1
  <2> QED
    BY <1>3, <1>4, <2>1, <2>2 DEF Tiles
<1>6. Used(m) = {x \in Used(l) : x.owner # p}
  <2>1. \A i \in 1 .. Len(l) : m[i].owner # NULL => m[i] = l[i] /\ l[i].owner # p
    BY <1>3
  <2>2. \A i \in 1 .. Len(l) : l[i].owner # p => m[i] = l[i]
    BY <1>3
  <2> QED
    BY <1>1, <1>4, <2>1, <2>2 DEF Used, Range
<1> QED
  BY <1>5, <1>6 DEF m

(* What kmerge does with the next block.                                   *)
LEMMA AbsorbTiles ==
    ASSUME NEW m, NEW end, Tiles(m, end), Coalesced(m),
           NEW b \in Records, b.start = end, b.length = b.limit - b.start
    PROVE  /\ Tiles(Absorb(m, b), b.limit) /\ Coalesced(Absorb(m, b))
           /\ Used(Absorb(m, b)) = IF b.owner = NULL THEN Used(m) ELSE Used(m) \cup {b}
<1> DEFINE k == Len(m)
           x == m[k]
           y == [x EXCEPT !.limit = b.limit, !.length = @ + b.length]
           a == Absorb(m, b)
<1>1. /\ k \in Nat /\ k > 0 /\ m # <<>> /\ m \in Seq(Records) /\ DOMAIN m = 1 .. k
      /\ x.limit = end /\ Last(m) = x
  BY DEF Tiles, Last
<1>2. /\ x \in Records /\ x.start \in Nat /\ x.start < x.limit /\ x.limit \in Nat
      /\ x.length = x.limit - x.start
  BY <1>1, Fields
<1>3. TOTAL_BLOCKS \in Nat
  BY MemoryAssumption
<1>4. CASE x.owner = NULL /\ b.owner = NULL
  <2>1. /\ y \in Records /\ y.start = x.start /\ y.limit = b.limit
        /\ y.length = y.limit - y.start /\ y.owner = NULL
    <3>1. /\ b.limit \in 0 .. TOTAL_BLOCKS /\ b.length \in 1 .. TOTAL_BLOCKS
          /\ b.length = b.limit - x.limit
      BY <1>1 DEF Records
    <3>2. y = [x EXCEPT !.limit = b.limit, !.length = b.limit - x.start]
      <4>1. x.length + b.length = b.limit - x.start
        BY <1>2, <1>3, <3>1
      <4>2. x.length = m[k].length /\ "length" \in DOMAIN x
        BY <1>2 DEF Records
      <4> HIDE DEF x
      <4>3. y = [x EXCEPT !.limit = b.limit, !.length = x.length + b.length]
        BY <1>2, <4>2 DEF Records
      <4> QED
        BY <4>1, <4>3
    <3>3. b.limit - x.start \in 1 .. TOTAL_BLOCKS
      BY <1>2, <1>3, <3>1
    <3> HIDE DEF y
    <3> QED
      BY <1>2, <1>4, <3>1, <3>2, <3>3 DEF Records
  <2>2. a = Append(Front(m), y)
    BY <1>1, <1>4 DEF Absorb
  <2> HIDE DEF y, a
  <2>3. /\ Front(m) \in Seq(Records) /\ Len(Front(m)) = k - 1
        /\ \A i \in 1 .. k - 1 : Front(m)[i] = m[i]
    BY <1>1 DEF Front
  <2>4. /\ a \in Seq(Records) /\ Len(a) = k /\ DOMAIN a = 1 .. k /\ a[k] = y
        /\ \A i \in 1 .. k - 1 : a[i] = m[i]
    <3> DEFINE f == Front(m)
    <3> HIDE DEF f
    <3>1. f \in Seq(Records) /\ Len(f) = k - 1 /\ \A i \in 1 .. k - 1 : f[i] = m[i]
      BY <2>3 DEF f
    <3>2. a = Append(f, y) /\ y \in Records /\ k \in Nat
      BY <1>1, <2>1, <2>2 DEF f
    <3> HIDE DEF k
    <3>3. (k - 1) + 1 = k
      BY <3>2
    <3> QED
      BY <3>1, <3>2, <3>3
  <2>5. Tiles(a, b.limit)
    <3>1. a[1].start = 0
      <4>1. CASE k = 1
        BY <2>1, <2>4, <4>1 DEF Tiles
      <4>2. CASE k > 1
        BY <1>1, <2>4, <4>2 DEF Tiles
      <4> QED
        BY <1>1, <4>1, <4>2
    <3>2. \A i \in 1 .. k : a[i].length = a[i].limit - a[i].start
      BY <1>1, <2>1, <2>4 DEF Tiles
    <3>3. \A i \in 2 .. k : a[i].start = a[i - 1].limit
      BY <1>1, <2>1, <2>4 DEF Tiles
    <3> QED
      BY <1>1, <2>1, <2>4, <3>1, <3>2, <3>3 DEF Tiles
  <2>6. Coalesced(a)
    BY <1>1, <1>4, <2>1, <2>4 DEF Coalesced
  <2>7. Used(a) = Used(m)
    BY <1>1, <1>4, <2>1, <2>4 DEF Used, Range
  <2> QED
    BY <1>4, <2>5, <2>6, <2>7 DEF a
<1>5. CASE ~(x.owner = NULL /\ b.owner = NULL)
  <2>1. a = Append(m, b)
    BY <1>1, <1>5 DEF Absorb
  <2> HIDE DEF a
  <2>2. /\ a \in Seq(Records) /\ Len(a) = k + 1 /\ DOMAIN a = 1 .. k + 1 /\ a[k + 1] = b
        /\ \A i \in 1 .. k : a[i] = m[i]
    BY <1>1, <2>1
  <2>3. Tiles(a, b.limit)
    <3>1. \A i \in 1 .. k + 1 : a[i].length = a[i].limit - a[i].start
      BY <1>1, <2>2 DEF Tiles
    <3>2. \A i \in 2 .. k + 1 : a[i].start = a[i - 1].limit
      <4>1. ASSUME NEW i \in 2 .. k PROVE a[i].start = a[i - 1].limit
        BY <1>1, <2>2 DEF Tiles
      <4>2. a[k + 1].start = a[k].limit
        BY <1>1, <2>2
      <4> QED
        BY <1>1, <4>1, <4>2
    <3> QED
      BY <1>1, <2>2, <3>1, <3>2 DEF Tiles
  <2>4. Coalesced(a)
    BY <1>1, <1>5, <2>2 DEF Coalesced
  <2>5. Used(a) = IF b.owner = NULL THEN Used(m) ELSE Used(m) \cup {b}
    BY <1>1, <2>2 DEF Used, Range
  <2> QED
    BY <2>3, <2>4, <2>5 DEF a
<1> QED
  BY <1>4, <1>5

(* kmerge leaves no two neighbours free and changes no used block.         *)
LEMMA MergeTiles ==
    ASSUME NEW l, Tiles(l, TOTAL_BLOCKS)
    PROVE  /\ Tiles(KMerge(l), TOTAL_BLOCKS) /\ Coalesced(KMerge(l))
           /\ Used(KMerge(l)) = Used(l)
<1> DEFINE n == Len(l)
           UsedTo(k) == {l[j] : j \in {i \in 1 .. k : l[i].owner # NULL}}
           Done(m, k) == Tiles(m, l[k].limit) /\ Coalesced(m) /\ Used(m) = UsedTo(k)
<1>1. n \in Nat /\ n > 0 /\ DOMAIN l = 1 .. n
  BY DEF Tiles
<1>2. \E r : /\ r[0] = <<>> /\ r[n] = Merging!Folded(<<>>, l)
             /\ \A k \in 1 .. n : r[k] = Absorb(r[k - 1], l[k])
  BY <1>1, Merging!FoldLeftSteps
<1>3. KMerge(l) = Merging!Folded(<<>>, l)
  BY DEF KMerge, FoldLeft, MapThenFoldSet, Max, Merging!Folded, Merging!FoldLeft,
         Merging!MapThenFoldSet, Merging!Max
<1>4. PICK r : /\ r[0] = <<>> /\ r[n] = KMerge(l)
               /\ \A k \in 1 .. n : r[k] = Absorb(r[k - 1], l[k])
  BY <1>2, <1>3
<1> DEFINE S == {k \in 0 .. n : k > 0 => Done(r[k], k)}
<1>5. 0 \in S
  BY <1>1
<1>6. ASSUME NEW k \in 1 .. n, k - 1 \in S PROVE k \in S
  <2>1. r[k] = Absorb(r[k - 1], l[k])
    BY <1>4
  <2>2. /\ l[k] \in Records /\ l[k].length = l[k].limit - l[k].start
    BY Fields
  <2>3. CASE k = 1
    <3> DEFINE m == <<l[1]>>
    <3>1. r[1] = m
      <4>1. r[0] = <<>> /\ 1 - 1 = 0
        BY <1>4
      <4>2. Absorb(<<>>, l[1]) = m
        BY DEF Absorb
      <4> QED
        BY <2>1, <2>3, <4>1, <4>2
    <3>2. m \in Seq(Records) /\ Len(m) = 1 /\ m[1] = l[1] /\ DOMAIN m = 1 .. 1
      BY <2>2, <2>3
    <3> HIDE DEF m
    <3>3. Tiles(m, l[1].limit)
      BY <2>2, <2>3, <3>2 DEF Tiles
    <3>4. Coalesced(m)
      BY <3>2 DEF Coalesced
    <3>5. Used(m) = UsedTo(1)
      BY <3>2 DEF Used, Range
    <3> QED
      BY <2>3, <3>1, <3>3, <3>4, <3>5
  <2>4. CASE k > 1
    <3>1. k - 1 \in 1 .. n /\ k \in 2 .. n
      BY <1>1, <2>4
    <3> DEFINE m == r[k - 1]
    <3> HIDE DEF m
    <3>2. Tiles(m, l[k - 1].limit) /\ Coalesced(m) /\ Used(m) = UsedTo(k - 1)
      BY <1>6, <3>1 DEF m
    <3>3. l[k].start = l[k - 1].limit
      BY <3>1 DEF Tiles
    <3>4. /\ Tiles(Absorb(m, l[k]), l[k].limit) /\ Coalesced(Absorb(m, l[k]))
          /\ Used(Absorb(m, l[k])) = IF l[k].owner = NULL THEN Used(m)
                                     ELSE Used(m) \cup {l[k]}
      BY <2>2, <3>2, <3>3, AbsorbTiles
    <3>5. UsedTo(k) = IF l[k].owner = NULL THEN UsedTo(k - 1)
                      ELSE UsedTo(k - 1) \cup {l[k]}
      BY <1>1
    <3>6. r[k] = Absorb(m, l[k])
      BY <2>1 DEF m
    <3> HIDE DEF UsedTo
    <3>7. Done(r[k], k)
      BY <3>2, <3>4, <3>5, <3>6
    <3> QED
      BY <3>7
  <2> QED
    BY <1>1, <2>3, <2>4
<1>7. \A k \in 0 .. n : k \in S
  <2> HIDE DEF S
  <2> QED
    BY <1>1, <1>5, <1>6, Merging!InductionTo
<1>8. Done(KMerge(l), n)
  <2>1. n \in 0 .. n
    BY <1>1
  <2>2. n \in S
    <3> HIDE DEF S
    <3> QED
      BY <1>7, <2>1
  <2> QED
    BY <1>1, <1>4, <2>2
<1>9. l[n].limit = TOTAL_BLOCKS /\ UsedTo(n) = Used(l)
  BY <1>1 DEF Tiles, Used, Range
<1> QED
  BY <1>8, <1>9

-----------------------------------------------------------------------------
(* kmalloc: the front of a free block is cut off.                          *)

(* The elements of two sequences in a row.                                 *)
LEMMA Joined ==
    ASSUME NEW X, NEW f \in Seq(X), NEW g \in Seq(X)
    PROVE  /\ f \o g \in Seq(X) /\ Len(f \o g) = Len(f) + Len(g)
           /\ \A j \in 1 .. Len(f) : (f \o g)[j] = f[j]
           /\ \A j \in 1 .. Len(g) : (f \o g)[Len(f) + j] = g[j]
<1>1. f \o g \in Seq(X) /\ Len(f \o g) = Len(f) + Len(g)
  OBVIOUS
<1>2. \A j \in 1 .. Len(f) : (f \o g)[j] = f[j]
  OBVIOUS
<1>3. ASSUME NEW j \in 1 .. Len(g) PROVE (f \o g)[Len(f) + j] = g[j]
  <2>1. Len(f) + j \in 1 .. Len(f) + Len(g) /\ ~(Len(f) + j =< Len(f))
    OBVIOUS
  <2>2. Len(f) + j - Len(f) = j
    OBVIOUS
  <2> QED
    BY <2>1, <2>2
<1> QED
  BY <1>1, <1>2, <1>3

(* The i-th element of l is cut in two.                                    *)
HasCut(m, l, i, x, y) ==
    /\ Len(m) = Len(l) + 1
    /\ \A j \in 1 .. i - 1 : m[j] = l[j]
    /\ m[i] = x /\ m[i + 1] = y
    /\ \A j \in i + 1 .. Len(l) : m[j + 1] = l[j]

(* The i-th element is replaced, and another one is put before it.         *)
LEMMA Inserted ==
    ASSUME NEW X, NEW l \in Seq(X), NEW i \in 1 .. Len(l), NEW x \in X, NEW y \in X,
           NEW m, m = InsertAt(ReplaceAt(l, i, y), i, x)
    PROVE  m \in Seq(X) /\ HasCut(m, l, i, x, y)
<1> DEFINE n == Len(l)
           s == [l EXCEPT ![i] = y]
           head == SubSeq(s, 1, i - 1)
           tail == SubSeq(s, i, n)
<1>1. n \in Nat /\ i \in Nat /\ i >= 1 /\ i =< n
  OBVIOUS
<1>2. /\ s \in Seq(X) /\ Len(s) = n /\ s[i] = y
      /\ \A j \in 1 .. n : j # i => s[j] = l[j]
  OBVIOUS
<1>3. m = (head \o <<x>>) \o tail
  BY <1>2 DEF InsertAt, ReplaceAt
<1> HIDE DEF s, n
<1>4. head \in Seq(X) /\ Len(head) = i - 1 /\ \A j \in 1 .. i - 1 : head[j] = s[j]
  BY <1>1, <1>2
<1>5. /\ tail \in Seq(X) /\ Len(tail) = n - i + 1
      /\ \A j \in 1 .. n - i + 1 : tail[j] = s[i + j - 1]
  BY <1>1, <1>2
<1> HIDE DEF head, tail
<1>6. /\ m \in Seq(X) /\ Len(m) = n + 1
      /\ \A j \in 1 .. i - 1 : m[j] = head[j]
      /\ m[i] = x
      /\ \A j \in 1 .. n - i + 1 : m[i + j] = tail[j]
  <2> DEFINE f == head \o <<x>>
  <2>1. /\ f \in Seq(X) /\ Len(f) = i /\ f[i] = x
        /\ \A j \in 1 .. i - 1 : f[j] = head[j]
    BY <1>1, <1>4
  <2> HIDE DEF f
  <2>2. /\ m \in Seq(X) /\ Len(m) = Len(f) + Len(tail)
        /\ \A j \in 1 .. Len(f) : m[j] = f[j]
        /\ \A j \in 1 .. Len(tail) : m[Len(f) + j] = tail[j]
    <3>1. m = f \o tail
      BY <1>3 DEF f
    <3>2. f \in Seq(X) /\ tail \in Seq(X)
      BY <1>5, <2>1
    <3>3. /\ f \o tail \in Seq(X) /\ Len(f \o tail) = Len(f) + Len(tail)
          /\ \A j \in 1 .. Len(f) : (f \o tail)[j] = f[j]
          /\ \A j \in 1 .. Len(tail) : (f \o tail)[Len(f) + j] = tail[j]
      BY <3>2, Joined
    <3> QED
      BY <3>1, <3>3, Zenon
  <2>3. Len(f) + Len(tail) = n + 1
    BY <1>1, <1>5, <2>1
  <2> QED
    BY <1>1, <1>5, <2>1, <2>2, <2>3
<1>7. m[i + 1] = y
  BY <1>1, <1>2, <1>5, <1>6
<1>8. ASSUME NEW j \in i + 1 .. n PROVE m[j + 1] = l[j]
  <2>1. j - i + 1 \in 1 .. n - i + 1 /\ i + (j - i + 1) = j + 1 /\ i + (j - i + 1) - 1 = j
    BY <1>1
  <2>2. m[j + 1] = tail[j - i + 1] /\ tail[j - i + 1] = s[j]
    BY <1>5, <1>6, <2>1
  <2> QED
    BY <1>1, <1>2, <2>2
<1>9. \A j \in 1 .. i - 1 : m[j] = l[j]
  BY <1>1, <1>2, <1>4, <1>6
<1> QED
  BY <1>6, <1>7, <1>8, <1>9 DEF n, HasCut

Taken(l, i, n, p) == Block(l[i].start, l[i].start + n, p)
Rest(l, i, n) == Block(l[i].start + n, l[i].limit, NULL)

(* allocate_block: a block of n is replaced, a longer one is cut in two.   *)
LEMMA AllocateShape ==
    ASSUME NEW l, Tiles(l, TOTAL_BLOCKS), NEW i \in 1 .. Len(l), l[i].owner = NULL,
           NEW n \in 1 .. l[i].length, NEW p \in Owners
    PROVE  /\ Taken(l, i, n, p) \in Records
           /\ n = l[i].length =>
                 /\ Allocate(l, i, n, p) \in Seq(Records)
                 /\ Len(Allocate(l, i, n, p)) = Len(l)
                 /\ Allocate(l, i, n, p)[i] = Taken(l, i, n, p)
                 /\ \A j \in 1 .. Len(l) : j # i => Allocate(l, i, n, p)[j] = l[j]
           /\ n < l[i].length =>
                 /\ Rest(l, i, n) \in Records
                 /\ Allocate(l, i, n, p) \in Seq(Records)
                 /\ HasCut(Allocate(l, i, n, p), l, i, Taken(l, i, n, p), Rest(l, i, n))
<1> DEFINE x == Taken(l, i, n, p)
           y == Rest(l, i, n)
           m == Allocate(l, i, n, p)
<1>1. /\ l \in Seq(Records) /\ Len(l) \in Nat
      /\ l[i].start \in Nat /\ l[i].limit \in Nat /\ l[i].length \in Nat
      /\ l[i].length = l[i].limit - l[i].start /\ l[i].limit =< TOTAL_BLOCKS
      /\ TOTAL_BLOCKS \in Nat /\ n \in Nat /\ 1 =< n /\ n =< l[i].length
  <2>1. /\ l[i].start \in Nat /\ l[i].limit \in Nat /\ l[i].length \in Nat
        /\ l[i].length = l[i].limit - l[i].start /\ l[i].limit =< TOTAL_BLOCKS
    BY Fields
  <2>2. l \in Seq(Records) /\ Len(l) \in Nat
    BY DEF Tiles
  <2>3. TOTAL_BLOCKS \in Nat
    BY MemoryAssumption
  <2> QED
    BY <2>1, <2>2, <2>3
<1>2. x \in Records
  <2>1. /\ l[i].start \in 0 .. TOTAL_BLOCKS /\ l[i].start + n \in 0 .. TOTAL_BLOCKS
        /\ (l[i].start + n) - l[i].start \in 1 .. TOTAL_BLOCKS
    BY <1>1
  <2> QED
    BY <2>1 DEF Taken, Block, Records
<1>3. ASSUME n < l[i].length PROVE y \in Records
  <2>1. /\ l[i].start + n \in 0 .. TOTAL_BLOCKS /\ l[i].limit \in 0 .. TOTAL_BLOCKS
        /\ l[i].limit - (l[i].start + n) \in 1 .. TOTAL_BLOCKS
    BY <1>1, <1>3, SMTT(40)
  <2> QED
    BY <2>1 DEF Rest, Block, Records
<1>4. m = IF n = l[i].length THEN [l EXCEPT ![i] = x]
          ELSE InsertAt(ReplaceAt(l, i, y), i, x)
  BY DEF Allocate, ReplaceAt, Taken, Rest
<1> HIDE DEF x, y, m
<1>5. CASE n = l[i].length
  BY <1>1, <1>2, <1>4, <1>5 DEF x, m
<1>6. CASE n < l[i].length
  <2>1. m = InsertAt(ReplaceAt(l, i, y), i, x)
    BY <1>1, <1>4, <1>6
  <2>2. m \in Seq(Records) /\ HasCut(m, l, i, x, y)
    <3>1. l \in Seq(Records) /\ x \in Records /\ y \in Records
      BY <1>1, <1>2, <1>3, <1>6
    <3> QED
      BY ONLY <2>1, <3>1, i \in 1 .. Len(l), Inserted
  <2> QED
    BY <1>2, <1>3, <1>6, <2>2 DEF x, y, m
<1> QED
  BY <1>1, <1>5, <1>6

(* The new list tiles the memory, and its new used block is the one taken. *)
LEMMA AllocateTiles ==
    ASSUME NEW l, Tiles(l, TOTAL_BLOCKS), Coalesced(l),
           NEW i \in 1 .. Len(l), l[i].owner = NULL,
           NEW n \in 1 .. l[i].length, NEW p \in Owners, p # NULL
    PROVE  /\ Tiles(Allocate(l, i, n, p), TOTAL_BLOCKS)
           /\ Coalesced(Allocate(l, i, n, p))
           /\ Used(Allocate(l, i, n, p)) = Used(l) \cup {Taken(l, i, n, p)}
<1> DEFINE x == Taken(l, i, n, p)
           y == Rest(l, i, n)
           m == Allocate(l, i, n, p)
           k == Len(l)
<1>1. /\ l \in Seq(Records) /\ k \in Nat /\ i \in 1 .. k /\ DOMAIN l = 1 .. k
      /\ l[i].start \in Nat /\ l[i].limit \in Nat /\ l[i].length \in Nat
      /\ l[i].length = l[i].limit - l[i].start
      /\ n \in Nat /\ 1 =< n /\ n =< l[i].length
  BY Fields DEF Tiles
<1>2. /\ l[1].start = 0 /\ l[k].limit = TOTAL_BLOCKS
      /\ \A j \in 1 .. k : l[j].length = l[j].limit - l[j].start
      /\ \A j \in 2 .. k : l[j].start = l[j - 1].limit
  BY DEF Tiles
<1>3. /\ x.start = l[i].start /\ x.limit = l[i].start + n /\ x.owner = p
      /\ x.length = x.limit - x.start
      /\ y.start = l[i].start + n /\ y.limit = l[i].limit /\ y.owner = NULL
      /\ y.length = y.limit - y.start
  BY DEF Taken, Rest, Block
<1>4. CASE n = l[i].length
  <2>1. /\ m \in Seq(Records) /\ Len(m) = k /\ m[i] = x
        /\ \A j \in 1 .. k : j # i => m[j] = l[j]
    BY <1>4, AllocateShape
  <2>2. x.limit = l[i].limit
    BY <1>1, <1>3, <1>4
  <2> HIDE DEF x, y, m, k
  <2>3. \A j \in 1 .. k : /\ m[j].start = l[j].start /\ m[j].limit = l[j].limit
                          /\ m[j].length = m[j].limit - m[j].start
                          /\ m[j].owner = NULL => l[j].owner = NULL
    BY <1>2, <1>3, <2>1, <2>2
  <2>4. \A j \in 2 .. k : j \in 1 .. k /\ j - 1 \in 1 .. k
    BY <1>1
  <2>5. 1 \in 1 .. k /\ k \in 1 .. k
    BY <1>1
  <2>6. Tiles(m, TOTAL_BLOCKS)
    BY <1>1, <1>2, <2>1, <2>3, <2>4, <2>5 DEF Tiles
  <2>7. Coalesced(m)
    BY <2>1, <2>3, <2>4 DEF Coalesced, k
  <2>8. Used(m) = Used(l) \cup {x}
    <3>1. DOMAIN m = 1 .. k
      BY <2>1
    <3> QED
      BY <1>1, <1>3, <2>1, <3>1 DEF Used, Range
  <2> QED
    BY <2>6, <2>7, <2>8 DEF x, m
<1>5. CASE n < l[i].length
  <2>1. /\ m \in Seq(Records) /\ Len(m) = k + 1
        /\ \A j \in 1 .. i - 1 : m[j] = l[j]
        /\ m[i] = x /\ m[i + 1] = y
        /\ \A j \in i + 1 .. k : m[j + 1] = l[j]
    <3>1. m \in Seq(Records) /\ HasCut(m, l, i, x, y)
      BY <1>5, AllocateShape
    <3> QED
      BY <3>1 DEF HasCut
  <2> HIDE DEF x, y, m, k
  <2>2. \A j \in i + 2 .. k + 1 : m[j] = l[j - 1]
    <3> TAKE j \in i + 2 .. k + 1
    <3>1. j - 1 \in i + 1 .. k /\ (j - 1) + 1 = j
      BY <1>1
    <3> QED
      BY <2>1, <3>1
  <2>3. \A j \in 1 .. k + 1 : j \in 1 .. i - 1 \/ j = i \/ j = i + 1 \/ j \in i + 2 .. k + 1
    BY <1>1
  <2>4. \A j \in 1 .. k + 1 : m[j].length = m[j].limit - m[j].start
    <3> TAKE j \in 1 .. k + 1
    <3>1. j \in i + 2 .. k + 1 => j - 1 \in 1 .. k
      BY <1>1
    <3>2. j \in 1 .. i - 1 => j \in 1 .. k
      BY <1>1
    <3> QED
      BY <1>2, <1>3, <2>1, <2>2, <2>3, <3>1, <3>2
  <2>5. \A j \in 2 .. k + 1 :
           \/ j \in 2 .. i - 1 /\ m[j] = l[j] /\ m[j - 1] = l[j - 1]
           \/ j = i /\ m[j] = x /\ m[j - 1] = l[i - 1] /\ i \in 2 .. k
           \/ j = i + 1 /\ m[j] = y /\ m[j - 1] = x
           \/ j = i + 2 /\ m[j] = l[i + 1] /\ m[j - 1] = y /\ i + 1 \in 2 .. k
           \/ j \in i + 3 .. k + 1 /\ m[j] = l[j - 1] /\ m[j - 1] = l[j - 2]
    <3> TAKE j \in 2 .. k + 1
    <3>1. CASE j < i
      BY <1>1, <2>1, <3>1
    <3>2. CASE j = i
      BY <1>1, <2>1, <3>2
    <3>3. CASE j = i + 1
      BY <1>1, <2>1, <3>3
    <3>4. CASE j = i + 2
      <4>1. j \in i + 2 .. k + 1 /\ j - 1 = i + 1 /\ i + 1 \in 2 .. k
        BY <1>1, <3>4
      <4> QED
        BY <2>1, <2>2, <3>4, <4>1
    <3>5. CASE j > i + 2
      <4>1. /\ j \in i + 2 .. k + 1 /\ j - 1 \in i + 2 .. k + 1 /\ j \in i + 3 .. k + 1
            /\ (j - 1) - 1 = j - 2
        BY <1>1, <3>5
      <4> QED
        BY <2>2, <4>1
    <3> QED
      BY <1>1, <3>1, <3>2, <3>3, <3>4, <3>5
  <2>6. \A j \in i + 3 .. k + 1 : j - 1 \in 2 .. k /\ (j - 1) - 1 = j - 2
    BY <1>1
  <2>7. \A j \in 2 .. i - 1 : j \in 2 .. k
    BY <1>1
  <2>8. (i + 1) - 1 = i
    BY <1>1
  <2>9. \A j \in 2 .. k + 1 : m[j].start = m[j - 1].limit
    <3> TAKE j \in 2 .. k + 1
    <3> QED
      BY <1>2, <1>3, <2>5, <2>6, <2>7, <2>8
  <2>10. m[1].start = 0
    <3>1. i = 1 \/ 1 \in 1 .. i - 1
      BY <1>1
    <3> QED
      BY <1>2, <1>3, <2>1, <3>1
  <2>11. m[k + 1].limit = TOTAL_BLOCKS
    <3>1. k = i \/ k \in i + 1 .. k
      BY <1>1
    <3> QED
      BY <1>2, <1>3, <2>1, <3>1
  <2>12. Tiles(m, TOTAL_BLOCKS)
    <3>1. k + 1 > 0
      BY <1>1
    <3> QED
      BY <2>1, <2>4, <2>9, <2>10, <2>11, <3>1 DEF Tiles
  <2>13. Coalesced(m)
    <3>1. \A j \in 2 .. k : l[j].owner # NULL \/ l[j - 1].owner # NULL
      BY DEF Coalesced, k
    <3>2. \A j \in 2 .. k + 1 : m[j].owner # NULL \/ m[j - 1].owner # NULL
      <4> TAKE j \in 2 .. k + 1
      <4> QED
        BY <1>3, <2>5, <2>6, <2>7, <2>8, <3>1
    <3> QED
      BY <2>1, <3>2 DEF Coalesced
  <2>14. Used(m) = Used(l) \cup {x}
    <3>1. DOMAIN m = 1 .. k + 1
      BY <2>1
    <3>2. ASSUME NEW j \in 1 .. k + 1, m[j].owner # NULL
          PROVE  m[j] \in Used(l) \cup {x}
      <4>1. j \in 1 .. i - 1 => j \in 1 .. k /\ m[j] = l[j]
        BY <1>1, <2>1
      <4>2. j \in i + 2 .. k + 1 => j - 1 \in 1 .. k /\ m[j] = l[j - 1]
        BY <1>1, <2>2
      <4> QED
        BY <1>1, <1>3, <2>1, <2>3, <3>2, <4>1, <4>2 DEF Used, Range
    <3>3. ASSUME NEW j \in 1 .. k, l[j].owner # NULL PROVE l[j] \in Used(m)
      <4>1. j \in 1 .. i - 1 => j \in 1 .. k + 1 /\ m[j] = l[j]
        BY <1>1, <2>1
      <4>2. j \in i + 1 .. k => j + 1 \in 1 .. k + 1 /\ m[j + 1] = l[j]
        BY <1>1, <2>1
      <4>3. j \in 1 .. i - 1 \/ j \in i + 1 .. k
        BY <1>1, <3>3
      <4> QED
        BY <3>1, <3>3, <4>1, <4>2, <4>3 DEF Used, Range
    <3>4. x \in Used(m)
      <4>1. i \in 1 .. k + 1
        BY <1>1
      <4> QED
        BY <1>3, <2>1, <3>1, <4>1 DEF Used, Range
    <3> QED
      BY <1>1, <3>1, <3>2, <3>3, <3>4 DEF Used, Range
  <2> QED
    BY <2>12, <2>13, <2>14 DEF x, m
<1> QED
  BY <1>1, <1>4, <1>5

-----------------------------------------------------------------------------
(* kmalloc: the free block that the policy prefers.                        *)

Fits(l, n) == {i \in FreeAt(l) : l[i].length >= n}

Better(l, policy, i, j) ==
    CASE policy = "FIRST" -> FALSE
      [] policy = "BEST" -> l[i].length < l[j].length
      [] policy = "WORST" -> l[i].length > l[j].length

(* The block comes before each other one, by the policy or by its place.   *)
Best(l, policy, n, i) ==
    \A j \in Fits(l, n) \ {i} :
        Better(l, policy, i, j) \/ (i < j /\ ~Better(l, policy, j, i))

(* The walk of kmalloc finds the block that is best among those that fit.  *)
LEMMA SearchFinds ==
    ASSUME NEW l, Tiles(l, TOTAL_BLOCKS), NEW policy \in AlgorithmMem, NEW n \in Nat,
           Fits(l, n) # {}
    PROVE  /\ Search(l, policy, n) \in Fits(l, n)
           /\ Best(l, policy, n, Search(l, policy, n))
<1> DEFINE F == Fits(l, n)
<1>1. /\ F \in SUBSET Nat
      /\ \A i \in F : i \in Nat /\ l[i].length \in Nat /\ TOTAL_BLOCKS - l[i].length \in Nat
  <2>1. DOMAIN l = 1 .. Len(l) /\ Len(l) \in Nat /\ TOTAL_BLOCKS \in Nat
    BY MemoryAssumption DEF Tiles
  <2>2. ASSUME NEW i \in 1 .. Len(l)
        PROVE  l[i].length \in Nat /\ TOTAL_BLOCKS - l[i].length \in Nat
    <3>1. /\ l[i].length \in Nat /\ l[i].start \in Nat /\ l[i].limit \in Nat
          /\ l[i].length = l[i].limit - l[i].start /\ l[i].limit =< TOTAL_BLOCKS
      BY Fields
    <3> QED
      BY <2>1, <3>1
  <2> QED
    BY <2>1, <2>2 DEF Fits, FreeAt
<1> HIDE DEF F
<1>2. ASSUME NEW rank, \A i \in F : rank[i] \in Nat
      PROVE  \E i \in F : \A j \in F \ {i} : rank[i] < rank[j] \/ (i < j /\ rank[i] = rank[j])
  <2> DEFINE R == {rank[i] : i \in F}
  <2>1. R \in SUBSET Nat /\ R # {}
    BY <1>2 DEF F
  <2>2. PICK r \in R : \A q \in R : r =< q
    <3> HIDE DEF R
    <3> QED
      BY <2>1, Merging!LeastNatural
  <2> DEFINE G == {i \in F : rank[i] = r}
  <2>3. G \in SUBSET Nat /\ G # {}
    BY <1>1, <2>2
  <2>4. PICK i \in G : \A j \in G : i =< j
    <3> HIDE DEF G
    <3> QED
      BY <2>3, Merging!LeastNatural
  <2>5. ASSUME NEW j \in F \ {i}
        PROVE  rank[i] < rank[j] \/ (i < j /\ rank[i] = rank[j])
    <3>1. r \in Nat /\ rank[j] \in Nat /\ r =< rank[j] /\ rank[i] = r /\ i \in Nat /\ j \in Nat
      BY <1>1, <1>2, <2>2
    <3>2. rank[j] = r => i =< j /\ i # j
      BY <2>4
    <3> QED
      BY <3>1, <3>2
  <2> QED
    BY <2>5
<1>3. \E i \in F : Best(l, policy, n, i)
  <2>1. CASE policy = "FIRST"
    <3>1. PICK i \in F : \A j \in F : i =< j
      BY <1>1, Merging!LeastNatural DEF F
    <3>2. \A j \in F \ {i} : i < j
      BY <1>1, <3>1
    <3> QED
      BY <2>1, <3>2 DEF Best, Better, F
  <2>2. CASE policy = "BEST"
    <3> DEFINE rank == [i \in F |-> l[i].length]
    <3>1. \A i \in F : rank[i] \in Nat
      BY <1>1
    <3>2. PICK i \in F : \A j \in F \ {i} : rank[i] < rank[j] \/ (i < j /\ rank[i] = rank[j])
      <4> HIDE DEF rank
      <4> QED
        BY <1>2, <3>1
    <3>3. \A j \in F \ {i} : l[i].length < l[j].length \/ (i < j /\ l[i].length = l[j].length)
      BY <3>2
    <3> QED
      BY <1>1, <2>2, <3>3 DEF Best, Better, F
  <2>3. CASE policy = "WORST"
    <3> DEFINE rank == [i \in F |-> TOTAL_BLOCKS - l[i].length]
    <3>1. \A i \in F : rank[i] \in Nat
      BY <1>1
    <3>2. PICK i \in F : \A j \in F \ {i} : rank[i] < rank[j] \/ (i < j /\ rank[i] = rank[j])
      <4> HIDE DEF rank
      <4> QED
        BY <1>2, <3>1
    <3>3. \A j \in F : TOTAL_BLOCKS \in Nat /\ l[j].length \in Nat
      BY <1>1, MemoryAssumption
    <3>4. \A j \in F \ {i} : l[i].length > l[j].length \/ (i < j /\ l[i].length = l[j].length)
      BY <3>2, <3>3
    <3> QED
      BY <2>3, <3>3, <3>4 DEF Best, Better, F
  <2> QED
    BY <2>1, <2>2, <2>3 DEF AlgorithmMem
<1>4. Search(l, policy, n) = CHOOSE i \in F : Best(l, policy, n, i)
  BY DEF Search, Best, Better, Fits, F
<1> QED
  BY <1>3, <1>4 DEF F

-----------------------------------------------------------------------------
(* The cached counters.                                                    *)

(* update_max_mem: 0 or the length of a free block, and no free block is   *)
(* longer.                                                                 *)
LEMMA MaxIsFresh ==
    ASSUME NEW l, Tiles(l, TOTAL_BLOCKS)
    PROVE  /\ MaxFree(l) \in 0 .. TOTAL_BLOCKS
           /\ \A i \in FreeAt(l) : l[i].length =< MaxFree(l)
           /\ MaxFree(l) = 0 \/ \E i \in FreeAt(l) : l[i].length = MaxFree(l)
<1> DEFINE S == {l[i].length : i \in FreeAt(l)}
<1>1. TOTAL_BLOCKS \in Nat
  BY MemoryAssumption
<1>2. CASE FreeAt(l) = {}
  BY <1>1, <1>2 DEF MaxFree
<1>3. CASE FreeAt(l) # {}
  <2>1. S \in SUBSET (1 .. TOTAL_BLOCKS) /\ S # {}
    <3>1. ASSUME NEW i \in FreeAt(l) PROVE l[i].length \in 1 .. TOTAL_BLOCKS
      <4>1. i \in 1 .. Len(l)
        BY DEF Tiles, FreeAt
      <4>2. l[i] \in Records
        BY <4>1, Fields
      <4> QED
        BY <4>2 DEF Records
    <3> QED
      BY <1>3, <3>1
  <2>2. MaxFree(l) = Max(S) /\ Merging!Max(S) = Max(S)
    BY <1>3 DEF MaxFree, Max, Merging!Max
  <2>3. Merging!Max(S) \in S /\ \A m \in S : Merging!Max(S) >= m
    <3> HIDE DEF S
    <3> QED
      BY <1>1, <2>1, Merging!GreatestOf
  <2>4. \A m \in S : m \in Nat /\ m =< TOTAL_BLOCKS
    BY <1>1, <2>1
  <2>5. MaxFree(l) \in S /\ \A m \in S : m =< MaxFree(l)
    <3> HIDE DEF S
    <3> QED
      BY <2>2, <2>3, <2>4
  <2> QED
    BY <1>1, <2>4, <2>5
<1> QED
  BY <1>2, <1>3

FreeCells(c) == {b \in 0 .. TOTAL_BLOCKS - 1 : c[b] = NULL}

(* The lengths of the free blocks add up to the number of free addresses.  *)
LEMMA FreeIsCounted ==
    ASSUME NEW l, Tiles(l, TOTAL_BLOCKS)
    PROVE  FoldLeft(CountFree, 0, l) = Cardinality(FreeCells(Cells(l)))
<1> DEFINE n == Len(l)
           c == Cells(l)
           FreeTo(e) == {b \in 0 .. e - 1 : c[b] = NULL}
<1>1. n \in Nat /\ n > 0 /\ DOMAIN l = 1 .. n /\ TOTAL_BLOCKS \in Nat
  BY MemoryAssumption DEF Tiles
<1>2. \E r : /\ r[0] = 0 /\ r[n] = Counting!Folded(0, l)
             /\ \A k \in 1 .. n : r[k] = CountFree(r[k - 1], l[k])
  BY <1>1, Counting!FoldLeftSteps
<1>3. FoldLeft(CountFree, 0, l) = Counting!Folded(0, l)
  BY DEF FoldLeft, MapThenFoldSet, Max, Counting!Folded, Counting!FoldLeft,
         Counting!MapThenFoldSet, Counting!Max
<1>4. PICK r : /\ r[0] = 0 /\ r[n] = FoldLeft(CountFree, 0, l)
               /\ \A k \in 1 .. n : r[k] = CountFree(r[k - 1], l[k])
  BY <1>2, <1>3
<1> DEFINE End(k) == IF k = 0 THEN 0 ELSE l[k].limit
           S == {k \in 0 .. n : IsFiniteSet(FreeTo(End(k)))
                                   /\ r[k] = Cardinality(FreeTo(End(k)))}
<1>5. 0 \in S
  <2>1. FreeTo(End(0)) = {} /\ 0 \in 0 .. n
    BY <1>1
  <2>2. IsFiniteSet({}) /\ Cardinality({}) = 0
    BY FS_EmptySet
  <2> QED
    BY <1>4, <2>1, <2>2
<1>6. ASSUME NEW k \in 1 .. n, k - 1 \in S PROVE k \in S
  <2> DEFINE x == l[k]
             New == x.start .. x.limit - 1
             Old == FreeTo(End(k - 1))
  <2>1. /\ x.start \in Nat /\ x.limit \in Nat /\ x.start < x.limit
        /\ x.length = x.limit - x.start /\ x.limit =< TOTAL_BLOCKS
    BY Fields
  <2>2. End(k - 1) = x.start
    BY <1>1 DEF Tiles
  <2>3. IsFiniteSet(Old) /\ r[k - 1] = Cardinality(Old)
    BY <1>6
  <2>4. \A b \in New : b \in 0 .. TOTAL_BLOCKS - 1 /\ c[b] = x.owner
    <3> TAKE b \in New
    <3>1. b \in 0 .. TOTAL_BLOCKS - 1 /\ Covers(x, b)
      BY <1>1, <2>1 DEF Covers
    <3> QED
      BY <3>1, CellOfBlock
  <2>5. r[k] = CountFree(r[k - 1], x) /\ End(k) = x.limit /\ k \in 0 .. n
    BY <1>1, <1>4
  <2> HIDE DEF c, x
  <2>6. FreeTo(x.limit) = IF x.owner = NULL THEN Old \cup New ELSE Old
    <3> HIDE DEF New
    <3>1. 0 .. x.limit - 1 = (0 .. x.start - 1) \cup New
      BY <2>1 DEF New
    <3> QED
      BY <2>2, <2>4, <3>1
  <2>7. IsFiniteSet(New) /\ Cardinality(New) = x.length /\ Old \cap New = {}
    <3>1. IsFiniteSet(New) /\ Cardinality(New) = x.length
      <4>1. /\ x.start \in Int /\ x.limit - 1 \in Int /\ ~(x.start > x.limit - 1)
            /\ (x.limit - 1) - x.start + 1 = x.length
        BY <2>1
      <4> QED
        BY <4>1, FS_Interval
    <3>2. Old \cap New = {}
      BY <2>1, <2>2
    <3> QED
      BY <3>1, <3>2
  <2> HIDE DEF New, Old, FreeTo, End
  <2>8. CASE x.owner # NULL
    BY <2>3, <2>5, <2>6, <2>8 DEF CountFree
  <2>9. CASE x.owner = NULL
    <3>1. /\ IsFiniteSet(Old \cup New)
          /\ Cardinality(Old \cup New) = Cardinality(Old) + Cardinality(New)
                                             - Cardinality(Old \cap New)
      BY <2>3, <2>7, FS_Union
    <3>2. Cardinality(Old \cap New) = 0 /\ Cardinality(Old) \in Nat
      BY <2>3, <2>7, FS_EmptySet, FS_CardinalityType
    <3>3. Cardinality(Old \cup New) = Cardinality(Old) + x.length
      BY <2>1, <2>7, <3>1, <3>2
    <3> QED
      BY <2>3, <2>5, <2>6, <2>9, <3>1, <3>3 DEF CountFree
  <2> QED
    BY <2>8, <2>9
<1>7. \A k \in 0 .. n : k \in S
  <2> HIDE DEF S
  <2> QED
    BY <1>1, <1>5, <1>6, Counting!InductionTo
<1>8. r[n] = Cardinality(FreeTo(TOTAL_BLOCKS))
  <2>1. n \in 0 .. n /\ End(n) = TOTAL_BLOCKS
    BY <1>1 DEF Tiles
  <2>2. r[n] = Cardinality(FreeTo(End(n)))
    BY <1>7, <2>1
  <2> HIDE DEF End, FreeTo
  <2> QED
    BY <2>1, <2>2
<1> QED
  BY <1>4, <1>8 DEF FreeCells

-----------------------------------------------------------------------------
(* The holes of the memory are the free blocks of a coalesced list.        *)

Hole(l, i) == [start |-> l[i].start, length |-> l[i].length]

(* The cells of a block belong to its owner.                               *)
LEMMA CellsOfBlock ==
    ASSUME NEW l, Tiles(l, TOTAL_BLOCKS), NEW i \in 1 .. Len(l)
    PROVE  \A b \in l[i].start .. l[i].limit - 1 :
              b \in 0 .. TOTAL_BLOCKS - 1 /\ Cells(l)[b] = l[i].owner
<1> TAKE b \in l[i].start .. l[i].limit - 1
<1>1. l[i].start \in Nat /\ l[i].limit \in Nat /\ l[i].limit =< TOTAL_BLOCKS
  BY Fields
<1>2. b \in 0 .. TOTAL_BLOCKS - 1 /\ Covers(l[i], b)
  BY <1>1, MemoryAssumption DEF Covers
<1> QED
  BY <1>2, CellOfBlock

(* The neighbours of a block end where it begins, and begin where it ends. *)
LEMMA Neighbours ==
    ASSUME NEW l, Tiles(l, TOTAL_BLOCKS), NEW i \in 1 .. Len(l)
    PROVE  /\ l[i].start > 0 => /\ i - 1 \in 1 .. Len(l) /\ i \in 2 .. Len(l)
                                /\ l[i].start - 1 \in 0 .. TOTAL_BLOCKS - 1
                                /\ Cells(l)[l[i].start - 1] = l[i - 1].owner
           /\ l[i].limit < TOTAL_BLOCKS =>
                                /\ i + 1 \in 2 .. Len(l) /\ (i + 1) - 1 = i
                                /\ l[i].limit \in 0 .. TOTAL_BLOCKS - 1
                                /\ Cells(l)[l[i].limit] = l[i + 1].owner
<1>1. /\ l[i].start \in Nat /\ l[i].limit \in Nat /\ l[i].limit =< TOTAL_BLOCKS
      /\ l[i].start < l[i].limit /\ Len(l) \in Nat /\ TOTAL_BLOCKS \in Nat
  BY Fields, MemoryAssumption
<1>2. ASSUME l[i].start > 0
      PROVE  /\ i - 1 \in 1 .. Len(l) /\ i \in 2 .. Len(l)
             /\ l[i].start - 1 \in 0 .. TOTAL_BLOCKS - 1
             /\ Cells(l)[l[i].start - 1] = l[i - 1].owner
  <2>1. i # 1
    BY <1>1, <1>2 DEF Tiles
  <2>2. i - 1 \in 1 .. Len(l) /\ i \in 2 .. Len(l)
    BY <1>1, <2>1
  <2>3. l[i].start = l[i - 1].limit
    BY <2>2 DEF Tiles
  <2>4. l[i - 1].start \in Nat /\ l[i - 1].start < l[i - 1].limit
    BY <2>2, Fields
  <2>5. l[i].start - 1 \in l[i - 1].start .. l[i - 1].limit - 1
    BY <1>1, <2>3, <2>4
  <2>6. l[i].start - 1 \in 0 .. TOTAL_BLOCKS - 1
        /\ Cells(l)[l[i].start - 1] = l[i - 1].owner
    BY <2>2, <2>5, CellsOfBlock
  <2> QED
    BY <2>2, <2>6
<1>3. ASSUME l[i].limit < TOTAL_BLOCKS
      PROVE  /\ i + 1 \in 2 .. Len(l) /\ (i + 1) - 1 = i
             /\ l[i].limit \in 0 .. TOTAL_BLOCKS - 1
             /\ Cells(l)[l[i].limit] = l[i + 1].owner
  <2>1. i # Len(l)
    BY <1>1, <1>3 DEF Tiles
  <2>2. i + 1 \in 1 .. Len(l) /\ i + 1 \in 2 .. Len(l) /\ (i + 1) - 1 = i
    BY <1>1, <2>1
  <2>3. l[i + 1].start = l[i].limit
    BY <2>2 DEF Tiles
  <2>4. /\ l[i + 1].start \in Nat /\ l[i + 1].limit \in Nat
        /\ l[i + 1].start < l[i + 1].limit
    BY <2>2, Fields
  <2>5. l[i].limit \in l[i + 1].start .. l[i + 1].limit - 1
    BY <1>1, <2>3, <2>4
  <2>6. l[i].limit \in 0 .. TOTAL_BLOCKS - 1 /\ Cells(l)[l[i].limit] = l[i + 1].owner
    BY <2>2, <2>5, CellsOfBlock
  <2> QED
    BY <2>2, <2>6
<1> QED
  BY <1>2, <1>3

(* Each free block is a hole.                                              *)
LEMMA FreeIsHole ==
    ASSUME NEW l, Tiles(l, TOTAL_BLOCKS), Coalesced(l), NEW i \in FreeAt(l)
    PROVE  Hole(l, i) \in Map!Holes(Cells(l))
<1> DEFINE first == l[i].start
           length == l[i].length
           c == Cells(l)
<1>1. i \in 1 .. Len(l) /\ l[i].owner = NULL
  BY DEF Tiles, FreeAt
<1>2. /\ first \in Nat /\ l[i].limit \in Nat /\ l[i].limit =< TOTAL_BLOCKS
      /\ length = l[i].limit - first /\ first < l[i].limit /\ TOTAL_BLOCKS \in Nat
  BY <1>1, Fields, MemoryAssumption
<1>3. first + length = l[i].limit
  BY <1>2
<1>4. Map!IsFree(c, first, length)
  <2>1. \A b \in first .. l[i].limit - 1 : c[b] = NULL
    BY <1>1, CellsOfBlock
  <2> QED
    BY <1>2, <1>3, <2>1 DEF Map!IsFree
<1>5. first > 0 => c[first - 1] # NULL
  BY <1>1, Neighbours DEF Coalesced
<1>6. l[i].limit < TOTAL_BLOCKS => c[l[i].limit] # NULL
  BY <1>1, Neighbours DEF Coalesced
<1>7. first \in 0 .. TOTAL_BLOCKS - 1 /\ length \in 1 .. TOTAL_BLOCKS
  BY <1>2
<1>8. Map!IsHole(c, first, length)
  BY <1>3, <1>4, <1>5, <1>6 DEF Map!IsHole
<1> HIDE DEF first, length
<1>9. [start |-> first, length |-> length] \in Map!Holes(c)
  BY <1>7, <1>8 DEF Map!Holes, Map!Blocks
<1> QED
  BY <1>9 DEF Hole, first, length

(* Each hole is a free block.                                              *)
LEMMA HoleIsFree ==
    ASSUME NEW l, Tiles(l, TOTAL_BLOCKS), Coalesced(l), NEW h \in Map!Holes(Cells(l))
    PROVE  \E i \in FreeAt(l) : h = Hole(l, i)
<1> DEFINE c == Cells(l)
           end == h.start + h.length
<1>1. /\ h \in [start : 0 .. TOTAL_BLOCKS - 1, length : 1 .. TOTAL_BLOCKS]
      /\ h.start + h.length =< TOTAL_BLOCKS
      /\ \A b \in h.start .. h.start + h.length - 1 : c[b] = NULL
      /\ h.start > 0 => c[h.start - 1] # NULL
      /\ h.start + h.length < TOTAL_BLOCKS => c[h.start + h.length] # NULL
  BY DEF Map!Holes, Map!IsHole, Map!IsFree, Map!Blocks
<1>2. /\ TOTAL_BLOCKS \in Nat /\ h.start \in Nat /\ h.length \in Nat /\ h.length > 0
      /\ end \in Nat /\ h.start < end /\ end =< TOTAL_BLOCKS
      /\ h.start \in 0 .. TOTAL_BLOCKS - 1 /\ end = h.start + h.length
      /\ h.length = end - h.start
  BY <1>1, MemoryAssumption
<1>3. /\ \A b \in h.start .. end - 1 : c[b] = NULL
      /\ h.start > 0 => c[h.start - 1] # NULL
      /\ end < TOTAL_BLOCKS => c[end] # NULL
  BY <1>1
<1> HIDE DEF end
<1>4. PICK i \in 1 .. Len(l) : Covers(l[i], h.start)
  BY <1>2, SomeCovers
<1> HIDE DEF c
<1>5. /\ l[i].start \in Nat /\ l[i].limit \in Nat /\ l[i].limit =< TOTAL_BLOCKS
      /\ l[i].length = l[i].limit - l[i].start
      /\ l[i].start =< h.start /\ h.start < l[i].limit
  BY <1>4, Fields DEF Covers
<1>6. \A b \in l[i].start .. l[i].limit - 1 : c[b] = l[i].owner
  BY CellsOfBlock DEF c
<1>7. l[i].owner = NULL
  <2>1. h.start \in l[i].start .. l[i].limit - 1 /\ h.start \in h.start .. end - 1
    BY <1>2, <1>5
  <2> QED
    BY <1>3, <1>6, <2>1
<1>8. l[i].start = h.start
  <2> SUFFICES ASSUME l[i].start < h.start PROVE FALSE
    BY <1>2, <1>5
  <2>1. h.start - 1 \in l[i].start .. l[i].limit - 1 /\ h.start > 0
    BY <1>2, <1>5, SMTT(40)
  <2> QED
    BY <1>3, <1>6, <1>7, <2>1
<1>9. ~(end < l[i].limit)
  <2> SUFFICES ASSUME end < l[i].limit PROVE FALSE
    OBVIOUS
  <2>1. end \in l[i].start .. l[i].limit - 1 /\ end < TOTAL_BLOCKS
    BY <1>2, <1>5
  <2> QED
    BY <1>3, <1>6, <1>7, <2>1
<1>10. ~(l[i].limit < end)
  <2> SUFFICES ASSUME l[i].limit < end PROVE FALSE
    OBVIOUS
  <2>1. l[i].limit \in h.start .. end - 1 /\ l[i].limit < TOTAL_BLOCKS
    BY <1>2, <1>5
  <2>2. i + 1 \in 2 .. Len(l) /\ (i + 1) - 1 = i /\ c[l[i].limit] = l[i + 1].owner
    BY <2>1, Neighbours DEF c
  <2>3. l[i + 1].owner # NULL
    BY <1>7, <2>2 DEF Coalesced
  <2> QED
    BY <1>3, <2>1, <2>2, <2>3
<1>11. l[i].length = h.length
  BY <1>2, <1>5, <1>8, <1>9, <1>10
<1>12. i \in FreeAt(l)
  BY <1>7 DEF FreeAt, Tiles
<1> QED
  BY <1>1, <1>8, <1>11, <1>12 DEF Hole

(* Some hole is large enough exactly when the cached largest block is.     *)
LEMMA FitsByMax ==
    ASSUME NEW l, Tiles(l, TOTAL_BLOCKS), Coalesced(l), NEW n \in Nat
    PROVE  /\ n > 0 /\ n =< MaxFree(l) => Fits(l, n) # {}
           /\ Map!CanFit(Cells(l), n) <=> n > 0 /\ n =< MaxFree(l)
<1>1. \A i \in FreeAt(l) : i \in 1 .. Len(l) /\ l[i].length \in Nat
  <2> TAKE i \in FreeAt(l)
  <2>1. i \in 1 .. Len(l)
    BY DEF Tiles, FreeAt
  <2> QED
    BY <2>1, Fields
<1>2. /\ MaxFree(l) \in Nat /\ \A i \in FreeAt(l) : l[i].length =< MaxFree(l)
      /\ MaxFree(l) = 0 \/ \E i \in FreeAt(l) : l[i].length = MaxFree(l)
  BY MaxIsFresh
<1>3. ASSUME n > 0, n =< MaxFree(l)
      PROVE  Fits(l, n) # {} /\ Map!CanFit(Cells(l), n)
  <2>1. PICK i \in FreeAt(l) : l[i].length = MaxFree(l)
    BY <1>2, <1>3
  <2>2. l[i].length >= n
    BY <1>2, <1>3, <2>1
  <2>3. i \in Fits(l, n)
    BY <2>2 DEF Fits
  <2>4. Hole(l, i) \in Map!Holes(Cells(l)) /\ Hole(l, i).length = l[i].length
    BY FreeIsHole DEF Hole
  <2> QED
    BY <1>3, <2>2, <2>3, <2>4 DEF Map!CanFit
<1>4. ASSUME Map!CanFit(Cells(l), n) PROVE n > 0 /\ n =< MaxFree(l)
  <2>1. n > 0 /\ \E h \in Map!Holes(Cells(l)) : h.length >= n
    BY <1>4 DEF Map!CanFit
  <2>2. PICK h \in Map!Holes(Cells(l)) : h.length >= n
    BY <2>1
  <2>3. PICK i \in FreeAt(l) : h = Hole(l, i)
    BY HoleIsFree
  <2>4. h.length = l[i].length
    BY <2>3 DEF Hole
  <2>5. l[i].length \in Nat /\ l[i].length =< MaxFree(l)
    BY <1>1, <1>2
  <2> QED
    BY <1>2, <2>1, <2>2, <2>4, <2>5
<1> QED
  BY <1>3, <1>4

(* kmalloc's walk ends at the hole that the policy prefers.                *)
LEMMA SearchSelects ==
    ASSUME NEW l, Tiles(l, TOTAL_BLOCKS), Coalesced(l), NEW policy \in AlgorithmMem,
           NEW n \in Nat, Fits(l, n) # {}
    PROVE  /\ Search(l, policy, n) \in Fits(l, n)
           /\ Hole(l, Search(l, policy, n)) \in Map!Selected(policy, Cells(l), n)
<1> DEFINE i == Search(l, policy, n)
           c == Cells(l)
<1>1. i \in Fits(l, n) /\ Best(l, policy, n, i)
  BY SearchFinds
<1> HIDE DEF i
<1>2. \A j \in Fits(l, n) : j \in FreeAt(l) /\ j \in 1 .. Len(l) /\ l[j].length >= n
  BY DEF Tiles, Fits, FreeAt
<1>3. \A j \in 1 .. Len(l) : l[j].start \in Nat /\ l[j].length \in Nat
  BY Fields
<1>4. ASSUME NEW j \in Fits(l, n) \ {i}, i < j PROVE l[i].start =< l[j].start
  <2>1. i \in 1 .. Len(l) /\ j \in 1 .. Len(l)
    BY <1>1, <1>2
  <2>2. i \in 1 .. j - 1
    BY <1>4, <2>1
  <2>3. l[i].limit =< l[j].start
    BY <2>1, <2>2, InOrder
  <2>4. l[i].limit \in Nat /\ l[i].start \in Nat /\ l[j].start \in Nat /\ l[i].start < l[i].limit
    BY <2>1, Fields
  <2> QED
    BY <2>3, <2>4
<1>5. ASSUME NEW j \in Fits(l, n) PROVE Map!Preferred(policy, Hole(l, i), Hole(l, j))
  <2>1. /\ l[i].start \in Nat /\ l[i].length \in Nat
        /\ l[j].start \in Nat /\ l[j].length \in Nat
    BY <1>1, <1>2, <1>3
  <2>2. /\ Hole(l, i).start = l[i].start /\ Hole(l, i).length = l[i].length
        /\ Hole(l, j).start = l[j].start /\ Hole(l, j).length = l[j].length
    BY DEF Hole
  <2>3. CASE j = i
    BY <2>1, <2>2, <2>3 DEF Map!Preferred, AlgorithmMem
  <2>4. CASE j # i
    <3>1. Better(l, policy, i, j)
          \/ (l[i].start =< l[j].start /\ ~Better(l, policy, j, i))
      BY <1>1, <1>4, <2>4 DEF Best
    <3>2. CASE policy = "FIRST"
      BY <2>2, <3>1, <3>2 DEF Map!Preferred, Better
    <3>3. CASE policy = "BEST"
      BY <2>1, <2>2, <3>1, <3>3 DEF Map!Preferred, Better
    <3>4. CASE policy = "WORST"
      BY <2>1, <2>2, <3>1, <3>4 DEF Map!Preferred, Better
    <3> QED
      BY <3>2, <3>3, <3>4 DEF AlgorithmMem
  <2> QED
    BY <2>3, <2>4
<1>6. \A g \in Map!Holes(c) : g.length >= n => \E j \in Fits(l, n) : g = Hole(l, j)
  <2> TAKE g \in Map!Holes(c)
  <2>1. PICK j \in FreeAt(l) : g = Hole(l, j)
    BY HoleIsFree
  <2>2. g.length = l[j].length
    BY <2>1 DEF Hole
  <2> QED
    BY <2>1, <2>2 DEF Fits
<1>7. Hole(l, i) \in Map!Holes(c) /\ Hole(l, i).length >= n
  BY <1>1, <1>2, FreeIsHole DEF Hole
<1>8. Hole(l, i) \in Map!Selected(policy, c, n)
  BY <1>5, <1>6, <1>7 DEF Map!Selected
<1> QED
  BY <1>1, <1>8 DEF i

-----------------------------------------------------------------------------
(* create_system_processes: the reserve is placed in a row from 0.         *)

(* What has been dealt never exceeds the sum.                              *)
LEMMA PartialSums ==
    ASSUME NEW n \in Nat, NEW s, s[0] = 0, NEW size, \A k \in 1 .. n : size[k] \in Nat,
           \A k \in 1 .. n : s[k] = s[k - 1] + size[k]
    PROVE  \A k \in 0 .. n : s[k] \in Nat /\ s[k] =< s[n]
<1> DEFINE S == {k \in 0 .. n : s[k] \in Nat /\ \A j \in 0 .. k : s[j] \in Nat /\ s[j] =< s[k]}
<1>1. 0 \in S
  <2>1. \A j \in 0 .. 0 : j = 0
    OBVIOUS
  <2> QED
    BY <2>1
<1>2. ASSUME NEW k \in 1 .. n, k - 1 \in S PROVE k \in S
  <2>1. s[k - 1] \in Nat /\ size[k] \in Nat /\ s[k] = s[k - 1] + size[k] /\ k \in 0 .. n
    BY <1>2
  <2>2. s[k] \in Nat /\ s[k - 1] =< s[k]
    BY <2>1
  <2>3. ASSUME NEW j \in 0 .. k PROVE s[j] \in Nat /\ s[j] =< s[k]
    <3>1. j = k \/ j \in 0 .. k - 1
      OBVIOUS
    <3>2. j \in 0 .. k - 1 => s[j] \in Nat /\ s[j] =< s[k - 1]
      BY <1>2
    <3> QED
      BY <2>1, <2>2, <3>1, <3>2
  <2> QED
    BY <2>1, <2>2, <2>3
<1>3. \A k \in 0 .. n : k \in S
  <2> HIDE DEF S
  <2> QED
    BY <1>1, <1>2, Adding!InductionTo
<1>4. n \in S
  <2>1. n \in 0 .. n
    OBVIOUS
  <2> HIDE DEF S
  <2> QED
    BY <1>3, <2>1
<1> QED
  BY <1>4

(* The first k processes of the system occupy the blocks below end.        *)
Placed(l, k, end) ==
    /\ Tiles(l, TOTAL_BLOCKS) /\ Coalesced(l) /\ Len(l) = k + 1
    /\ l[k + 1].owner = NULL /\ l[k + 1].start = end
    /\ \A i \in 1 .. k : l[i].owner \in Range(OsProcs)

(* One more process of the system, behind those that are placed.           *)
LEMMA ReserveTiles ==
    ASSUME NEW l, NEW k \in Nat, Placed(l, k, l[k + 1].start),
           NEW os, os.owner \in Range(OsProcs),
           os.size \in Nat, 0 < os.size, os.size < l[k + 1].length
    PROVE  Placed(Reserve(l, os), k + 1, l[k + 1].start + os.size)
<1> DEFINE i == k + 1
           m == Allocate(l, i, os.size, os.owner)
<1>0. /\ Tiles(l, TOTAL_BLOCKS) /\ Coalesced(l) /\ Len(l) = k + 1
      /\ l[k + 1].owner = NULL
      /\ \A j \in 1 .. k : l[j].owner \in Range(OsProcs)
  BY DEF Placed
<1>1. /\ i \in 1 .. Len(l) /\ l[i].length \in Nat /\ os.owner \in Owners
      /\ os.size \in 1 .. l[i].length /\ NULL \notin Range(OsProcs)
  <2>1. i \in 1 .. Len(l) /\ NULL \notin Range(OsProcs) /\ os.owner \in Owners
    BY <1>0, MemoryAssumption DEF Owners
  <2>2. l[i].length \in Nat
    BY <1>0, <2>1, Fields
  <2> QED
    BY <2>1, <2>2
<1>2. Fits(l, os.size) = {i}
  <2>1. \A j \in FreeAt(l) : j = i
    <3> TAKE j \in FreeAt(l)
    <3>1. j \in 1 .. k + 1 /\ l[j].owner = NULL
      BY <1>0 DEF FreeAt, Tiles
    <3>2. ~(j \in 1 .. k)
      BY <1>0, <1>1, <3>1
    <3> QED
      BY <3>1, <3>2
  <2>2. i \in FreeAt(l) /\ l[i].length >= os.size
    BY <1>0, <1>1 DEF FreeAt, Tiles
  <2> QED
    BY <2>1, <2>2 DEF Fits
<1>3. Search(l, "FIRST", os.size) = i
  <2>1. "FIRST" \in AlgorithmMem /\ Fits(l, os.size) # {}
    BY <1>2 DEF AlgorithmMem
  <2>2. Search(l, "FIRST", os.size) \in Fits(l, os.size)
    BY <1>0, <2>1, SearchFinds
  <2> QED
    BY <1>2, <2>2
<1>4. Reserve(l, os) = m
  BY <1>3 DEF Reserve
<1>5. Tiles(m, TOTAL_BLOCKS) /\ Coalesced(m)
  BY <1>0, <1>1, AllocateTiles
<1>6. HasCut(m, l, i, Taken(l, i, os.size, os.owner), Rest(l, i, os.size))
  BY <1>0, <1>1, AllocateShape
<1> HIDE DEF m
<1>7. /\ Len(m) = k + 2
      /\ \A j \in 1 .. k : m[j] = l[j]
      /\ m[k + 1].owner = os.owner
      /\ m[k + 2].owner = NULL /\ m[k + 2].start = l[k + 1].start + os.size
  <2>1. i - 1 = k /\ i + 1 = k + 2 /\ Len(l) + 1 = k + 2
    BY <1>0
  <2> QED
    BY <1>6, <2>1 DEF HasCut, Taken, Rest, Block
<1>8. \A j \in 1 .. k + 1 : m[j].owner \in Range(OsProcs)
  <2> TAKE j \in 1 .. k + 1
  <2>1. j \in 1 .. k \/ j = k + 1
    OBVIOUS
  <2> QED
    BY <1>0, <1>7, <2>1
<1>9. k + 2 = (k + 1) + 1
  OBVIOUS
<1> QED
  BY <1>4, <1>5, <1>7, <1>8, <1>9 DEF Placed

(* After start-up the system owns exactly the blocks of the reserve.       *)
LEMMA OsIsPlaced ==
    ASSUME NEW sizes \in [DOMAIN OsProcs -> 1 .. OS_RESERVED],
           Dealt(sizes) = OS_RESERVED
    PROVE  \E k \in Nat : Placed(ReserveForOs(sizes), k, OS_RESERVED)
<1> DEFINE n == Len(OsProcs)
           first == <<Block(0, TOTAL_BLOCKS, NULL)>>
           os == [i \in DOMAIN OsProcs |-> [owner |-> OsProcs[i], size |-> sizes[i]]]
<1>1. /\ n \in Nat /\ DOMAIN OsProcs = 1 .. n /\ DOMAIN sizes = 1 .. n /\ DOMAIN os = 1 .. n
      /\ TOTAL_BLOCKS \in Nat /\ OS_RESERVED \in Nat /\ OS_RESERVED < TOTAL_BLOCKS
      /\ 0 < OS_RESERVED
  BY MemoryAssumption
<1>2. \A i \in 1 .. n : /\ os[i].owner \in Range(OsProcs) /\ os[i].size = sizes[i]
                        /\ sizes[i] \in Nat /\ 0 < sizes[i]
  BY <1>1 DEF Range
<1> HIDE DEF n, os
<1>3. PICK s : /\ s[0] = 0 /\ s[n] = OS_RESERVED
               /\ \A k \in 1 .. n : s[k] = s[k - 1] + sizes[k]
  <2>1. Adding!Folded(0, sizes) = Dealt(sizes)
    BY DEF Dealt, Plus, FoldLeft, MapThenFoldSet, Max, Adding!Folded, Adding!FoldLeft,
           Adding!MapThenFoldSet, Adding!Max
  <2>2. \E s : /\ s[0] = 0 /\ s[n] = Adding!Folded(0, sizes)
               /\ \A k \in 1 .. n : s[k] = Plus(s[k - 1], sizes[k])
    BY <1>1, Adding!FoldLeftSteps
  <2> QED
    BY <2>1, <2>2 DEF Plus
<1>4. PICK r : /\ r[0] = first /\ r[n] = ReserveForOs(sizes)
               /\ \A k \in 1 .. n : r[k] = Reserve(r[k - 1], os[k])
  <2>1. Reserving!Folded(first, os) = ReserveForOs(sizes)
    BY DEF ReserveForOs, os, FoldLeft, MapThenFoldSet, Max, Reserving!Folded,
           Reserving!FoldLeft, Reserving!MapThenFoldSet, Reserving!Max
  <2>2. \E r : /\ r[0] = first /\ r[n] = Reserving!Folded(first, os)
               /\ \A k \in 1 .. n : r[k] = Reserve(r[k - 1], os[k])
    <3> HIDE DEF first
    <3> QED
      BY <1>1, Reserving!FoldLeftSteps
  <2> QED
    BY <2>1, <2>2
<1>5. \A k \in 0 .. n : s[k] \in Nat /\ s[k] =< OS_RESERVED
  BY <1>1, <1>2, <1>3, PartialSums
<1> DEFINE S == {k \in 0 .. n : Placed(r[k], k, s[k])}
<1>6. 0 \in S
  <2> DEFINE x == Block(0, TOTAL_BLOCKS, NULL)
  <2>1. /\ x \in Records /\ x.start = 0 /\ x.limit = TOTAL_BLOCKS /\ x.owner = NULL
        /\ x.length = x.limit - x.start
    <3>1. TOTAL_BLOCKS - 0 = TOTAL_BLOCKS /\ TOTAL_BLOCKS \in 1 .. TOTAL_BLOCKS
      BY <1>1
    <3> QED
      BY <3>1 DEF Block, Records
  <2> HIDE DEF x
  <2>2. r[0] = <<x>>
    BY <1>4 DEF x
  <2>3. /\ <<x>> \in Seq(Records) /\ Len(<<x>>) = 1 /\ <<x>>[1] = x
    BY <2>1
  <2>4. Placed(<<x>>, 0, 0)
    BY <2>1, <2>3 DEF Placed, Tiles, Coalesced
  <2> QED
    BY <1>1, <1>3, <2>2, <2>4
<1>7. ASSUME NEW k \in 1 .. n, k - 1 \in S PROVE k \in S
  <2> DEFINE l == r[k - 1]
  <2>1. Placed(l, k - 1, s[k - 1]) /\ (k - 1) + 1 = k /\ k - 1 \in Nat /\ k \in 0 .. n
    BY <1>1, <1>7
  <2>2. r[k] = Reserve(l, os[k]) /\ s[k] = s[k - 1] + sizes[k]
    BY <1>3, <1>4
  <2> HIDE DEF l
  <2>3. /\ Tiles(l, TOTAL_BLOCKS) /\ Len(l) = k /\ l[k].start = s[k - 1]
    BY <2>1 DEF Placed
  <2>4. l[k].limit = TOTAL_BLOCKS /\ l[k].length = TOTAL_BLOCKS - s[k - 1]
    <3>1. k \in 1 .. Len(l)
      BY <1>1, <2>3
    <3> QED
      BY <2>3, <3>1 DEF Tiles
  <2>5. os[k].size < l[k].length
    <3>1. s[k - 1] \in Nat /\ s[k] \in Nat /\ s[k] =< OS_RESERVED /\ k - 1 \in 0 .. n
      BY <1>1, <1>5
    <3>2. os[k].size = sizes[k] /\ sizes[k] \in Nat
      BY <1>2
    <3> QED
      BY <1>1, <2>2, <2>4, <3>1, <3>2
  <2>6. os[k].owner \in Range(OsProcs) /\ os[k].size \in Nat /\ 0 < os[k].size
    BY <1>2
  <2>7. Placed(l, k - 1, l[(k - 1) + 1].start) /\ os[k].size < l[(k - 1) + 1].length
    BY <2>1, <2>3, <2>5
  <2>8. Placed(Reserve(l, os[k]), (k - 1) + 1, l[(k - 1) + 1].start + os[k].size)
    BY <2>1, <2>6, <2>7, ReserveTiles
  <2>9. os[k].size = sizes[k]
    BY <1>2
  <2>10. Placed(r[k], k, s[k])
    BY <2>1, <2>2, <2>3, <2>8, <2>9
  <2> QED
    BY <2>1, <2>10
<1>8. \A k \in 0 .. n : k \in S
  <2> HIDE DEF S
  <2> QED
    BY <1>1, <1>6, <1>7, Reserving!InductionTo
<1>9. n \in 0 .. n
  BY <1>1
<1> QED
  BY <1>1, <1>3, <1>4, <1>8, <1>9

(* The memory at start-up: the reserve, and free blocks after it.          *)
LEMMA CellsAtStart ==
    ASSUME NEW l, NEW k \in Nat, Placed(l, k, OS_RESERVED)
    PROVE  /\ \A b \in 0 .. OS_RESERVED - 1 : Cells(l)[b] \in Range(OsProcs)
           /\ \A b \in OS_RESERVED .. TOTAL_BLOCKS - 1 : Cells(l)[b] = NULL
<1>1. /\ Tiles(l, TOTAL_BLOCKS) /\ Len(l) = k + 1 /\ k + 1 \in 1 .. Len(l)
      /\ l[k + 1].owner = NULL /\ l[k + 1].start = OS_RESERVED
      /\ l[k + 1].limit = TOTAL_BLOCKS
      /\ \A i \in 1 .. k : l[i].owner \in Range(OsProcs)
  BY DEF Placed, Tiles
<1>2. TOTAL_BLOCKS \in Nat /\ OS_RESERVED \in Nat /\ OS_RESERVED < TOTAL_BLOCKS
  BY MemoryAssumption
<1>3. ASSUME NEW b \in 0 .. OS_RESERVED - 1 PROVE Cells(l)[b] \in Range(OsProcs)
  <2>1. b \in 0 .. TOTAL_BLOCKS - 1
    BY <1>2
  <2>2. PICK i \in 1 .. Len(l) : Covers(l[i], b)
    BY <1>1, <1>2, <2>1, SomeCovers
  <2>3. i # k + 1
    BY <1>1, <1>2, <2>2 DEF Covers
  <2>4. i \in 1 .. k
    BY <1>1, <2>3
  <2>5. Cells(l)[b] = l[i].owner
    BY <1>1, <2>1, <2>2, CellOfBlock
  <2> QED
    BY <1>1, <2>4, <2>5
<1>4. \A b \in OS_RESERVED .. TOTAL_BLOCKS - 1 : Cells(l)[b] = NULL
  BY <1>1, CellsOfBlock
<1> QED
  BY <1>3, <1>4

-----------------------------------------------------------------------------
(* The inductive invariant: ListIsSound, said of the used blocks and of    *)
(* the free addresses.                                                     *)

OwnBlocks(l, p) == {x \in Used(l) : x.owner = p}

OwnersKnown ==
    \A p \in Procs : OwnBlocks(list, p) =
        IF Resident(p) THEN {Block(mem[p].start, mem[p].limit, p)} ELSE {}

PcbsTyped ==
    /\ mem \in [Procs -> [start : 0 .. TOTAL_BLOCKS, limit : 0 .. TOTAL_BLOCKS,
                          waste_kb : 0 .. BLOCK_SIZE_KB - 1]]
    /\ alg_memory \in AlgorithmMem
    /\ granted \in BOOLEAN

Counted == free = Cardinality(FreeCells(Cells(list))) /\ max = MaxFree(list)

Sound ==
    PcbsTyped /\ Tiles(list, TOTAL_BLOCKS) /\ Coalesced(list) /\ Counted /\ OwnersKnown

(* The free addresses are some of all.                                     *)
LEMMA FreeCellsType ==
    ASSUME NEW c
    PROVE  /\ IsFiniteSet(FreeCells(c)) /\ Cardinality(FreeCells(c)) \in Nat
           /\ Cardinality(FreeCells(c)) =< TOTAL_BLOCKS
<1>1. TOTAL_BLOCKS \in Nat /\ TOTAL_BLOCKS > 0
  BY MemoryAssumption
<1>2. IsFiniteSet(0 .. TOTAL_BLOCKS - 1) /\ Cardinality(0 .. TOTAL_BLOCKS - 1) = TOTAL_BLOCKS
  <2>1. /\ 0 \in Int /\ TOTAL_BLOCKS - 1 \in Int /\ ~(0 > TOTAL_BLOCKS - 1)
        /\ (TOTAL_BLOCKS - 1) - 0 + 1 = TOTAL_BLOCKS
    BY <1>1
  <2> QED
    BY <2>1, FS_Interval
<1>3. FreeCells(c) \in SUBSET (0 .. TOTAL_BLOCKS - 1)
  BY DEF FreeCells
<1>4. IsFiniteSet(FreeCells(c)) /\ Cardinality(FreeCells(c)) =< TOTAL_BLOCKS
  BY <1>2, <1>3, FS_Subset
<1> QED
  BY <1>4, FS_CardinalityType

(* It is as strong as the invariant that the runs check.                   *)
LEMMA SoundImplies ==
    ASSUME Sound
    PROVE  ListIsSound
<1>1. Tiles(list, TOTAL_BLOCKS) /\ list \in Seq(Records) /\ DOMAIN list = 1 .. Len(list)
  BY DEF Sound, Tiles
<1>2. TypeOK
  <2>1. max \in 0 .. TOTAL_BLOCKS
    BY <1>1, MaxIsFresh DEF Sound, Counted
  <2>2. free \in 0 .. TOTAL_BLOCKS
    BY FreeCellsType DEF Sound, Counted
  <2> QED
    BY <1>1, <2>1, <2>2 DEF TypeOK, Sound, PcbsTyped, Records
<1>3. ListTilesMemory
  <2>1. \A i \in 1 .. Len(list) : i > 1 => i \in 2 .. Len(list)
    BY <1>1
  <2> QED
    BY <1>1, <2>1 DEF ListTilesMemory, Tiles, Last
<1>4. FreeBlocksCoalesced
  BY DEF Sound, Coalesced, FreeBlocksCoalesced
<1>5. CountersFresh
  BY <1>1, FreeIsCounted, MaxIsFresh DEF CountersFresh, Sound, Counted
<1>6. PcbAgreesWithList
  <2> SUFFICES ASSUME NEW p \in Procs
               PROVE  {[start |-> b.start, limit |-> b.limit] :
                          b \in {list[i] : i \in {j \in DOMAIN list : list[j].owner = p}}}
                      = IF Resident(p)
                        THEN {[start |-> mem[p].start, limit |-> mem[p].limit]} ELSE {}
    BY DEF PcbAgreesWithList
  <2>1. p # NULL
    BY MemoryAssumption
  <2>2. {list[i] : i \in {j \in DOMAIN list : list[j].owner = p}} = OwnBlocks(list, p)
    BY <1>1, <2>1 DEF OwnBlocks, Used, Range
  <2>3. OwnBlocks(list, p) = IF Resident(p) THEN {Block(mem[p].start, mem[p].limit, p)}
                             ELSE {}
    BY DEF Sound, OwnersKnown
  <2>4. /\ Block(mem[p].start, mem[p].limit, p).start = mem[p].start
        /\ Block(mem[p].start, mem[p].limit, p).limit = mem[p].limit
    BY DEF Block
  <2> QED
    BY <2>2, <2>3, <2>4
<1> QED
  BY <1>2, <1>3, <1>4, <1>5, <1>6 DEF ListIsSound

(* Start-up.                                                               *)
LEMMA InitSound ==
    ASSUME Init
    PROVE  Sound /\ Map!Init
<1>1. PICK sizes \in [DOMAIN OsProcs -> 1 .. OS_RESERVED] :
         Dealt(sizes) = OS_RESERVED /\ list = ReserveForOs(sizes)
  BY DEF Init
<1>2. PICK k \in Nat : Placed(list, k, OS_RESERVED)
  BY <1>1, OsIsPlaced
<1>3. /\ \A b \in 0 .. OS_RESERVED - 1 : Cells(list)[b] \in Range(OsProcs)
      /\ \A b \in OS_RESERVED .. TOTAL_BLOCKS - 1 : Cells(list)[b] = NULL
  BY <1>2, CellsAtStart
<1>4. /\ TOTAL_BLOCKS \in Nat /\ OS_RESERVED \in Nat /\ OS_RESERVED < TOTAL_BLOCKS
      /\ BLOCK_SIZE_KB \in Nat /\ BLOCK_SIZE_KB > 0
  BY MemoryAssumption
<1>5. PcbsTyped
  <2>1. 0 \in 0 .. TOTAL_BLOCKS /\ 0 \in 0 .. BLOCK_SIZE_KB - 1
    BY <1>4
  <2> QED
    BY <2>1 DEF Init, PcbsTyped, Absent, AlgorithmMem
<1>6. Tiles(list, TOTAL_BLOCKS) /\ Coalesced(list)
  BY <1>2 DEF Placed
<1>7. Counted
  <2>1. FreeCells(Cells(list)) = OS_RESERVED .. TOTAL_BLOCKS - 1
    <3>1. NULL \notin Range(OsProcs)
      BY MemoryAssumption
    <3>2. \A b \in 0 .. TOTAL_BLOCKS - 1 :
             b \in 0 .. OS_RESERVED - 1 \/ b \in OS_RESERVED .. TOTAL_BLOCKS - 1
      BY <1>4
    <3>3. \A b \in OS_RESERVED .. TOTAL_BLOCKS - 1 : b \in 0 .. TOTAL_BLOCKS - 1
      BY <1>4
    <3> QED
      BY <1>3, <3>1, <3>2, <3>3 DEF FreeCells
  <2>2. Cardinality(OS_RESERVED .. TOTAL_BLOCKS - 1) = TOTAL_BLOCKS - OS_RESERVED
    <3>1. /\ OS_RESERVED \in Int /\ TOTAL_BLOCKS - 1 \in Int
          /\ ~(OS_RESERVED > TOTAL_BLOCKS - 1)
          /\ (TOTAL_BLOCKS - 1) - OS_RESERVED + 1 = TOTAL_BLOCKS - OS_RESERVED
      BY <1>4
    <3> QED
      BY <3>1, FS_Interval
  <2> QED
    BY <2>1, <2>2 DEF Init, Counted
<1>8. OwnersKnown
  <2> SUFFICES ASSUME NEW p \in Procs PROVE OwnBlocks(list, p) = {} /\ ~Resident(p)
    BY DEF OwnersKnown
  <2>1. ~Resident(p)
    BY DEF Init, Resident
  <2>2. ASSUME NEW i \in 1 .. Len(list) PROVE list[i].owner # p
    <3>1. Len(list) = k + 1 /\ list[k + 1].owner = NULL
      BY <1>2 DEF Placed
    <3>2. i \in 1 .. k => list[i].owner \in Range(OsProcs)
      BY <1>2 DEF Placed
    <3>3. i \in 1 .. k \/ i = k + 1
      BY <3>1
    <3> QED
      BY <3>1, <3>2, <3>3, MemoryAssumption
  <2>3. DOMAIN list = 1 .. Len(list)
    BY <1>6 DEF Tiles
  <2> QED
    BY <2>1, <2>2, <2>3 DEF OwnBlocks, Used, Range
<1>9. Map!Init
  <2> DEFINE os == [b \in 0 .. OS_RESERVED - 1 |-> Cells(list)[b]]
  <2>1. os \in [0 .. OS_RESERVED - 1 -> Range(OsProcs)]
    BY <1>3
  <2>2. \A b \in 0 .. TOTAL_BLOCKS - 1 :
           Cells(list)[b] = IF b < OS_RESERVED THEN os[b] ELSE NULL
    <3> TAKE b \in 0 .. TOTAL_BLOCKS - 1
    <3>1. b < OS_RESERVED => b \in 0 .. OS_RESERVED - 1
      BY <1>4
    <3>2. ~(b < OS_RESERVED) => b \in OS_RESERVED .. TOTAL_BLOCKS - 1
      BY <1>4
    <3> QED
      BY <1>3, <3>1, <3>2
  <2> HIDE DEF os
  <2>3. Cells(list) = [b \in 0 .. TOTAL_BLOCKS - 1 |-> IF b < OS_RESERVED THEN os[b] ELSE NULL]
    BY <2>2 DEF Cells
  <2> QED
    BY <2>1, <2>3 DEF Map!Init, Map!Blocks, Init
<1> QED
  BY <1>5, <1>6, <1>7, <1>8, <1>9 DEF Sound

(* A size is rounded up to blocks, and less than a block is wasted.        *)
LEMMA NeededRounds ==
    ASSUME NEW kb \in Nat
    PROVE  Needed(kb) \in Nat /\ Needed(kb) * BLOCK_SIZE_KB - kb \in 0 .. BLOCK_SIZE_KB - 1
<1> DEFINE d == BLOCK_SIZE_KB
           a == kb + d - 1
           q == a \div d
<1>1. d \in Nat /\ d > 0 /\ a \in Nat
  BY MemoryAssumption
<1>2. q \in Nat /\ d * q =< a /\ a < d * q + d
  <2> HIDE DEF a, d
  <2>1. a = d * q + (a % d) /\ a % d \in 0 .. d - 1 /\ q \in Int
    BY <1>1
  <2>2. q >= 0
    BY <1>1
  <2> QED
    BY <1>1, <2>1, <2>2
<1>3. q * d = d * q /\ q * d \in Int
  BY <1>1, <1>2
<1> QED
  BY <1>1, <1>2, <1>3 DEF Needed

(* A process that is out of memory owns no address.                        *)
LEMMA AbsentOwnsNothing ==
    ASSUME Sound, NEW p \in Procs, ~Resident(p)
    PROVE  Map!OwnedBy(Cells(list), p) = {}
<1> SUFFICES ASSUME NEW b \in 0 .. TOTAL_BLOCKS - 1, Cells(list)[b] = p PROVE FALSE
  BY DEF Map!OwnedBy, Map!Blocks
<1>1. p # NULL /\ Tiles(list, TOTAL_BLOCKS) /\ OwnBlocks(list, p) = {}
  BY MemoryAssumption DEF Sound, OwnersKnown
<1>2. PICK x \in Used(list) : Covers(x, b)
  BY <1>1, CellOfUsed
<1>3. Cells(list)[b] = x.owner
  BY <1>1, <1>2, CellOfUsed
<1> QED
  BY <1>1, <1>2, <1>3 DEF OwnBlocks

(* kmalloc keeps the list sound and grants what the map grants.            *)
LEMMA MallocSound ==
    ASSUME Sound, NEW p \in Procs, NEW kb \in RequestsKb, KMalloc(p, kb)
    PROVE  Sound' /\ Map!Grant(p, Needed(kb))
<1> DEFINE n == Needed(kb)
           i == Search(list, alg_memory, n)
           s == list[i].start
           c == Cells(list)
           d == Cells(list')
           m == Allocate(list, i, n, p)
<1>1. /\ Tiles(list, TOTAL_BLOCKS) /\ Coalesced(list) /\ PcbsTyped /\ OwnersKnown
      /\ free = Cardinality(FreeCells(c)) /\ max = MaxFree(list)
      /\ alg_memory \in AlgorithmMem
  BY DEF Sound, Counted, PcbsTyped
<1>2. /\ ~Resident(p) /\ n > 0 /\ n =< max /\ list' = m
      /\ mem' = [mem EXCEPT ![p] = [start |-> s, limit |-> s + n,
                                    waste_kb |-> n * BLOCK_SIZE_KB - kb]]
      /\ free' = free - n /\ max' = MaxFree(list') /\ granted' = TRUE
      /\ alg_memory' = alg_memory
  BY DEF KMalloc, MemoryCanFit
<1>3. n \in Nat /\ n * BLOCK_SIZE_KB - kb \in 0 .. BLOCK_SIZE_KB - 1
  BY NeededRounds, MemoryAssumption
<1>4. p # NULL /\ p \in Owners /\ TOTAL_BLOCKS \in Nat
  BY MemoryAssumption DEF Owners
<1> HIDE DEF n
<1>5. Fits(list, n) # {}
  BY <1>1, <1>2, <1>3, FitsByMax
<1>6. i \in Fits(list, n) /\ Hole(list, i) \in Map!Selected(alg_memory, c, n)
  BY <1>1, <1>3, <1>5, SearchSelects
<1> HIDE DEF i
<1>7. i \in 1 .. Len(list) /\ list[i].owner = NULL /\ list[i].length >= n
  BY <1>1, <1>6 DEF Fits, FreeAt, Tiles
<1>8. /\ s \in Nat /\ list[i].limit \in Nat /\ list[i].limit =< TOTAL_BLOCKS
      /\ list[i].length = list[i].limit - s
  BY <1>1, <1>7, Fields
<1>9. n \in 1 .. list[i].length /\ s + n \in Nat /\ s + n =< list[i].limit /\ s + n # 0
  BY <1>2, <1>3, <1>7, <1>8
<1> HIDE DEF m
<1>10. Tiles(m, TOTAL_BLOCKS) /\ Coalesced(m) /\ Used(m) = Used(list) \cup {Block(s, s + n, p)}
  BY <1>1, <1>4, <1>7, <1>9, AllocateTiles DEF Taken, m
<1>11. Cells(m) = [b \in 0 .. TOTAL_BLOCKS - 1 |-> IF b \in s .. s + n - 1 THEN p ELSE c[b]]
  <2>1. Cells(m) = Map!Claim(c, s, n, p)
    BY <1>1, <1>3, <1>4, <1>8, <1>10, CellsClaimed
  <2> QED
    BY <2>1 DEF Map!Claim, Map!Blocks
<1>12. FreeCells(Cells(m)) = FreeCells(c) \ (s .. s + n - 1)
  BY <1>4, <1>11 DEF FreeCells
<1>13. s .. s + n - 1 \subseteq FreeCells(c)
  <2>1. \A b \in s .. list[i].limit - 1 : b \in 0 .. TOTAL_BLOCKS - 1 /\ c[b] = NULL
    BY <1>1, <1>7, CellsOfBlock
  <2>2. \A b \in s .. s + n - 1 : b \in s .. list[i].limit - 1
    BY <1>3, <1>8, <1>9
  <2> HIDE DEF s, c
  <2> QED
    BY <2>1, <2>2 DEF FreeCells
<1>14. Cardinality(FreeCells(Cells(m))) = free - n
  <2> DEFINE F == FreeCells(c)
             G == s .. s + n - 1
  <2>1. IsFiniteSet(F) /\ Cardinality(F) = free
    BY <1>1, FreeCellsType
  <2>2. Cardinality(G) = n
    <3>1. s \in Int /\ s + n - 1 \in Int /\ ~(s > s + n - 1) /\ (s + n - 1) - s + 1 = n
      BY <1>3, <1>8, <1>9
    <3> HIDE DEF s
    <3> QED
      BY <3>1, FS_Interval
  <2> HIDE DEF F, G
  <2>3. Cardinality(F \ G) = Cardinality(F) - Cardinality(F \cap G)
    BY <2>1, FS_Difference
  <2>4. F \cap G = G /\ FreeCells(Cells(m)) = F \ G
    BY <1>12, <1>13 DEF F, G
  <2> QED
    BY <2>1, <2>2, <2>3, <2>4
<1>15. Counted'
  BY <1>2, <1>14 DEF Counted
<1>16. PcbsTyped'
  <2>1. s \in 0 .. TOTAL_BLOCKS /\ s + n \in 0 .. TOTAL_BLOCKS
    BY <1>4, <1>8, <1>9
  <2> HIDE DEF s
  <2> QED
    BY <1>1, <1>2, <1>3, <2>1 DEF PcbsTyped
<1>17. OwnersKnown'
  <2> SUFFICES ASSUME NEW q \in Procs
               PROVE  OwnBlocks(m, q) = IF mem'[q] # Absent
                          THEN {Block(mem'[q].start, mem'[q].limit, q)} ELSE {}
    BY <1>2 DEF OwnersKnown, Resident
  <2>1. OwnBlocks(list, q) = IF mem[q] # Absent
                             THEN {Block(mem[q].start, mem[q].limit, q)} ELSE {}
    BY <1>1 DEF OwnersKnown, Resident
  <2>2. Block(s, s + n, p).owner = p
    BY DEF Block
  <2> HIDE DEF s
  <2>3. CASE q = p
    <3>1. OwnBlocks(list, q) = {}
      BY <1>2, <2>1, <2>3 DEF Resident
    <3>2. OwnBlocks(m, q) = {Block(s, s + n, p)}
      BY <1>10, <2>2, <2>3, <3>1 DEF OwnBlocks
    <3>3. mem'[q].start = s /\ mem'[q].limit = s + n
      BY <1>1, <1>2, <2>3 DEF PcbsTyped
    <3>4. mem'[q] # Absent
      BY <1>9, <3>3 DEF Absent
    <3> QED
      BY <2>3, <3>2, <3>3, <3>4
  <2>4. CASE q # p
    <3>1. OwnBlocks(m, q) = OwnBlocks(list, q)
      BY <1>10, <2>2, <2>4 DEF OwnBlocks
    <3>2. mem'[q] = mem[q]
      BY <1>1, <1>2, <2>4 DEF PcbsTyped
    <3> QED
      BY <2>1, <3>1, <3>2
  <2> QED
    BY <2>3, <2>4
<1>18. Sound'
  BY <1>2, <1>10, <1>15, <1>16, <1>17 DEF Sound
<1>19. Map!Grant(p, n)
  <2>1. Map!OwnedBy(c, p) = {}
    BY <1>2, AbsentOwnsNothing
  <2>2. Hole(list, i).start = s
    BY DEF Hole
  <2>3. d = Map!Claim(c, s, n, p)
    BY <1>2, <1>11 DEF Map!Claim, Map!Blocks
  <2> HIDE DEF s
  <2>4. \E h \in Map!Selected(alg_memory, c, n) : d = Map!Claim(c, h.start, n, p)
    BY <1>6, <2>2, <2>3
  <2> QED
    BY <1>2, <2>1, <2>4 DEF Map!Grant
<1> QED
  BY <1>18, <1>19 DEF n

(* kmalloc refuses exactly when no hole of the map is large enough.        *)
LEMMA FailSound ==
    ASSUME Sound, NEW p \in Procs, NEW kb \in RequestsKb, KMallocFails(p, kb)
    PROVE  Sound' /\ Map!Refuse(p, Needed(kb))
<1>1. /\ ~Resident(p) /\ ~(Needed(kb) > 0 /\ Needed(kb) =< max) /\ granted' = FALSE
      /\ UNCHANGED <<list, free, max, mem, alg_memory>>
  BY DEF KMallocFails, MemoryCanFit
<1>2. Sound'
  BY <1>1 DEF Sound, PcbsTyped, Counted, OwnersKnown, Resident
<1>3. Needed(kb) \in Nat
  BY NeededRounds, MemoryAssumption
<1>4. ~Map!CanFit(Cells(list), Needed(kb))
  BY <1>1, <1>3, FitsByMax DEF Sound, Counted
<1>5. Map!OwnedBy(Cells(list), p) = {}
  BY <1>1, AbsentOwnsNothing
<1> QED
  BY <1>1, <1>2, <1>4, <1>5 DEF Map!Refuse

(* kfree keeps the list sound and gives back what the map gives back.      *)
LEMMA FreeSound ==
    ASSUME Sound, NEW p \in Procs, KFree(p)
    PROVE  Sound' /\ Map!Free(p)
<1> DEFINE s == mem[p].start
           e == mem[p].limit
           x == Block(s, e, p)
           c == Cells(list)
           m == KMerge(Disown(list, p))
<1>1. /\ Tiles(list, TOTAL_BLOCKS) /\ Coalesced(list) /\ PcbsTyped /\ OwnersKnown
      /\ free = Cardinality(FreeCells(c)) /\ max = MaxFree(list)
  BY DEF Sound, Counted
<1>2. /\ Resident(p) /\ list' = m /\ mem' = [mem EXCEPT ![p] = Absent]
      /\ free' = free + e - s /\ max' = MaxFree(list')
      /\ UNCHANGED <<alg_memory, granted>>
  BY DEF KFree
<1>3. p # NULL /\ p \in Owners /\ TOTAL_BLOCKS \in Nat /\ 0 \in 0 .. TOTAL_BLOCKS
      /\ 0 \in 0 .. BLOCK_SIZE_KB - 1
  BY MemoryAssumption DEF Owners
<1>4. OwnBlocks(list, p) = {x}
  BY <1>1, <1>2 DEF OwnersKnown
<1>5. x.start = s /\ x.limit = e /\ x.owner = p
  BY DEF Block
<1> HIDE DEF x, m
<1>6. /\ Tiles(m, TOTAL_BLOCKS) /\ Coalesced(m)
      /\ Used(m) = {y \in Used(list) : y.owner # p}
  <2>1. /\ Tiles(Disown(list, p), TOTAL_BLOCKS)
        /\ Used(Disown(list, p)) = {y \in Used(list) : y.owner # p}
    BY <1>1, <1>3, DisownTiles
  <2> QED
    BY <2>1, MergeTiles DEF m
<1>7. Cells(m) = [b \in 0 .. TOTAL_BLOCKS - 1 |-> IF c[b] = p THEN NULL ELSE c[b]]
  <2>1. Cells(m) = Map!Release(c, p)
    BY <1>1, <1>3, <1>6, CellsReleased
  <2> QED
    BY <2>1 DEF Map!Release, Map!Blocks
<1>8. PICK i \in 1 .. Len(list) : list[i] = x
  <2>1. x \in Range(list) /\ DOMAIN list = 1 .. Len(list)
    BY <1>1, <1>4 DEF OwnBlocks, Used, Tiles
  <2> QED
    BY <2>1 DEF Range
<1>9. /\ s \in Nat /\ e \in Nat /\ s < e /\ e =< TOTAL_BLOCKS
  BY <1>1, <1>5, <1>8, Fields
<1>10. \A b \in s .. e - 1 : b \in 0 .. TOTAL_BLOCKS - 1 /\ c[b] = p
  <2> HIDE DEF s, e
  <2> QED
    BY <1>1, <1>5, <1>8, CellsOfBlock
<1>11. ASSUME NEW b \in 0 .. TOTAL_BLOCKS - 1, c[b] = p PROVE b \in s .. e - 1
  <2>1. PICK y \in Used(list) : Covers(y, b)
    BY <1>1, <1>3, <1>11, CellOfUsed
  <2>2. y.owner = p
    BY <1>1, <1>11, <2>1, CellOfUsed
  <2>3. y = x
    BY <1>4, <2>1, <2>2 DEF OwnBlocks
  <2> HIDE DEF s, e
  <2> QED
    BY <1>5, <1>9, <2>1, <2>3 DEF Covers
<1> HIDE DEF c
<1>12. FreeCells(Cells(m)) = FreeCells(c) \cup (s .. e - 1) /\ FreeCells(c) \cap (s .. e - 1) = {}
  <2> HIDE DEF s, e
  <2>1. \A b \in 0 .. TOTAL_BLOCKS - 1 : Cells(m)[b] = NULL <=> c[b] = NULL \/ b \in s .. e - 1
    BY <1>3, <1>7, <1>10, <1>11
  <2> QED
    BY <1>3, <1>10, <2>1 DEF FreeCells
<1>13. Cardinality(FreeCells(Cells(m))) = free + e - s
  <2> DEFINE F == FreeCells(c)
             G == s .. e - 1
  <2>1. IsFiniteSet(F) /\ Cardinality(F) = free /\ Cardinality(F) \in Nat
    BY <1>1, FreeCellsType DEF c
  <2>2. IsFiniteSet(G) /\ Cardinality(G) = e - s
    <3>1. s \in Int /\ e - 1 \in Int /\ ~(s > e - 1) /\ (e - 1) - s + 1 = e - s
      BY <1>9
    <3> HIDE DEF s, e
    <3> QED
      BY <3>1, FS_Interval
  <2> HIDE DEF F, G
  <2>3. Cardinality(F \cup G) = Cardinality(F) + Cardinality(G) - Cardinality(F \cap G)
    BY <2>1, <2>2, FS_Union
  <2>4. Cardinality(F \cap G) = 0 /\ FreeCells(Cells(m)) = F \cup G
    BY <1>12, FS_EmptySet DEF F, G
  <2> HIDE DEF s, e
  <2>5. s \in Nat /\ e \in Nat /\ free \in Nat
    BY <1>9, <2>1
  <2> QED
    BY <2>1, <2>2, <2>3, <2>4, <2>5
<1>14. Counted'
  BY <1>2, <1>13 DEF Counted
<1>15. PcbsTyped'
  BY <1>1, <1>2, <1>3 DEF PcbsTyped, Absent
<1>16. OwnersKnown'
  <2> SUFFICES ASSUME NEW q \in Procs
               PROVE  OwnBlocks(m, q) = IF mem'[q] # Absent
                          THEN {Block(mem'[q].start, mem'[q].limit, q)} ELSE {}
    BY <1>2 DEF OwnersKnown, Resident
  <2>1. OwnBlocks(list, q) = IF mem[q] # Absent
                             THEN {Block(mem[q].start, mem[q].limit, q)} ELSE {}
    BY <1>1 DEF OwnersKnown, Resident
  <2>2. CASE q = p
    <3>1. mem'[q] = Absent
      BY <1>1, <1>2, <2>2 DEF PcbsTyped
    <3> QED
      BY <1>6, <2>2, <3>1 DEF OwnBlocks
  <2>3. CASE q # p
    <3>1. mem'[q] = mem[q]
      BY <1>1, <1>2, <2>3 DEF PcbsTyped
    <3>2. OwnBlocks(m, q) = OwnBlocks(list, q)
      BY <1>6, <2>3 DEF OwnBlocks
    <3> QED
      BY <2>1, <3>1, <3>2
  <2> QED
    BY <2>2, <2>3
<1>17. Sound'
  BY <1>2, <1>6, <1>14, <1>15, <1>16 DEF Sound
<1>18. Map!Free(p)
  BY <1>2, <1>7 DEF Map!Free, Map!Release, Map!Blocks, c
<1> QED
  BY <1>17, <1>18

(* Every step keeps the list sound and is a step or a stutter of the map.  *)
LEMMA StepSound ==
    ASSUME Sound, [Next]_memVars
    PROVE  Sound' /\ [Map!Next]_(Map!mapVars)
<1>1. ASSUME NEW p \in Procs, NEW kb \in RequestsKb, KMalloc(p, kb)
      PROVE  Sound' /\ Map!Next
  <2>1. Sound' /\ Map!Grant(p, Needed(kb))
    BY <1>1, MallocSound
  <2> QED
    BY <2>1 DEF Map!Next
<1>2. ASSUME NEW p \in Procs, NEW kb \in RequestsKb, KMallocFails(p, kb)
      PROVE  Sound' /\ Map!Next
  <2>1. Sound' /\ Map!Refuse(p, Needed(kb))
    BY <1>2, FailSound
  <2> QED
    BY <2>1 DEF Map!Next
<1>3. ASSUME NEW p \in Procs, KFree(p) PROVE Sound' /\ Map!Next
  <2>1. Sound' /\ Map!Free(p)
    BY <1>3, FreeSound
  <2> QED
    BY <2>1 DEF Map!Next
<1>4. ASSUME NEW policy \in AlgorithmMem, SetAlgMem(policy) PROVE Sound' /\ Map!Next
  <2>1. alg_memory' = policy /\ UNCHANGED <<list, free, max, mem, granted>>
    BY <1>4 DEF SetAlgMem
  <2>2. Sound'
    BY <2>1 DEF Sound, PcbsTyped, Counted, OwnersKnown, Resident
  <2>3. Map!SetPolicy(policy)
    BY <2>1 DEF Map!SetPolicy
  <2> QED
    BY <2>2, <2>3 DEF Map!Next, Map!AlgorithmMem, AlgorithmMem
<1>5. CASE UNCHANGED memVars
  <2>1. UNCHANGED <<list, free, max, mem, alg_memory, granted>>
    BY <1>5 DEF memVars
  <2>2. Sound'
    BY <2>1 DEF Sound, PcbsTyped, Counted, OwnersKnown, Resident
  <2>3. UNCHANGED Map!mapVars
    BY <2>1 DEF Map!mapVars
  <2> QED
    BY <2>2, <2>3
<1> QED
  BY <1>1, <1>2, <1>3, <1>4, <1>5 DEF Next

(* The strengthened invariant: whatever was allocated and freed, in any    *)
(* order and under any policy, the list tiles the memory, has no two free  *)
(* neighbours, and agrees with its counters and with the PCBs.             *)
THEOREM SoundAlways == Spec => []Sound
<1>1. Init => Sound
  BY InitSound
<1>2. Sound /\ [Next]_memVars => Sound'
  BY StepSound
<1> QED
  BY <1>1, <1>2, PTL DEF Spec

(* The invariant that the run checks, for memories of any size.            *)
THEOREM ListStaysSound == Spec => []ListIsSound
<1>1. Sound => ListIsSound
  BY SoundImplies
<1> QED
  BY <1>1, SoundAlways, PTL

(* The block list with its cached counters implements the memory map: each *)
(* answer of kmalloc, and each place, is that of the map.                  *)
THEOREM ListImplementsMap == Spec => ImplementsMap
<1>1. Init => Map!Init
  BY InitSound
<1>2. Sound /\ [Next]_memVars => [Map!Next]_(Map!mapVars)
  BY StepSound
<1> QED
  BY <1>1, <1>2, SoundAlways, PTL DEF Spec, ImplementsMap, Map!Spec
=============================================================================
