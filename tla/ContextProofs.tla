--------------------------- MODULE ContextProofs ---------------------------
(***************************************************************************)
(* Proofs about the context of the CPU: whatever else ran meanwhile, and   *)
(* wherever it was loaded again, a process goes on where it stopped.       *)
(***************************************************************************)
EXTENDS Context, KernelProofs

(* What memory.c keeps in the PCB of a process, as far as addresses go.    *)
SegmentTable ==
    [TEXT : [start : Nat, limit : Int], DATA : [start : Int, limit : Int],
     BSS : [start : Int, limit : Int], HEAP : [start : Int, limit : Int],
     STACK : [start : Int, limit : Nat]]

Registers ==
    [program_counter : Int, stack_pointer : Int, pc_offset : Int, sp_offset : Int]

(* The registers of a process, on the CPU or in its PCB.                   *)
Current(p) == IF p = running THEN cpu_ctx ELSE saved[p]

PointsInto(c, s) == c.program_counter = s.TEXT.start + c.pc_offset

Resumes(p) ==
    /\ Current(p).pc_offset * TICK = sched[p].cpu
    /\ Current(p).pc_offset >= 0
    /\ IF resident[p]
       THEN segments[p] \in SegmentTable /\ PointsInto(Current(p), segments[p])
       ELSE segments[p] = NULL

(* The inductive invariant: ResumesWhereItStopped, with types, and no      *)
(* segments outside memory, from which kfree would take wrong offsets.     *)
ContextInv ==
    /\ cpu_ctx \in Registers /\ saved \in [Procs -> Registers]
    /\ segments \in [Procs -> SegmentTable \cup {NULL}]
    /\ \A p \in Procs : Resumes(p)

-----------------------------------------------------------------------------
(* The operators on numbers, segments and registers.                       *)

(* The lesser of two numbers is one of them.                               *)
LEMMA MinOfTwo ==
    ASSUME NEW a \in Int, NEW b \in Int
    PROVE  Min({a, b}) \in {a, b}
<1>1. \E x \in {a, b} : \A y \in {a, b} : x =< y
  <2>1. CASE a =< b
    BY <2>1
  <2>2. CASE b =< a
    BY <2>2
  <2> QED
    BY <2>1, <2>2
<1> QED
  BY <1>1 DEF Min

(* Neither of them is less.                                                *)
LEMMA MinIsLeast ==
    ASSUME NEW a \in Int, NEW b \in Int, NEW c, c = Min({a, b})
    PROVE  c \in Int /\ c =< a /\ c =< b /\ (c = a \/ c = b)
<1>1. \E x \in {a, b} : \A y \in {a, b} : x =< y
  <2>1. CASE a =< b
    BY <2>1
  <2>2. CASE b =< a
    BY <2>2
  <2> QED
    BY <2>1, <2>2
<1>2. c \in {a, b} /\ \A y \in {a, b} : c =< y
  BY <1>1 DEF Min
<1> QED
  BY <1>2

(* max_int returns one of its arguments, and none is larger.               *)
LEMMA AtLeastOfTwo ==
    ASSUME NEW a \in Int, NEW b \in Int
    PROVE  AtLeast(a, b) \in {a, b} /\ AtLeast(a, b) >= a /\ AtLeast(a, b) >= b
<1>1. \E x \in {a, b} : \A y \in {a, b} : x >= y
  <2>1. CASE a >= b
    BY <2>1
  <2>2. CASE b >= a
    BY <2>2
  <2> QED
    BY <2>1, <2>2
<1>2. AtLeast(a, b) \in {a, b} /\ \A y \in {a, b} : AtLeast(a, b) >= y
  BY <1>1 DEF AtLeast, Max
<1> QED
  BY <1>2

(* memory_restore_cpu_addresses points into the segments it is given.      *)
LEMMA AddressesProperties ==
    ASSUME NEW c \in Registers, NEW s \in SegmentTable
    PROVE  /\ Addresses(c, s) \in Registers
           /\ Addresses(c, s).pc_offset = c.pc_offset
           /\ PointsInto(Addresses(c, s), s)
<1>1. s.TEXT.start \in Nat /\ s.STACK.limit \in Nat
  BY DEF SegmentTable
<1> DEFINE pc_at == s.TEXT.start + c.pc_offset
           sp_at == s.STACK.limit - c.sp_offset
<1>2. pc_at \in Int /\ sp_at \in Int
  BY <1>1 DEF Registers
<1>3. Addresses(c, s) = [c EXCEPT !.program_counter = pc_at, !.stack_pointer = sp_at]
  BY DEF Addresses
<1> HIDE DEF sp_at
<1>4. Addresses(c, s).program_counter = pc_at /\ Addresses(c, s).pc_offset = c.pc_offset
  BY <1>3 DEF Registers
<1>5. PointsInto(Addresses(c, s), s)
  BY <1>4 DEF PointsInto
<1> HIDE DEF pc_at
<1>6. Addresses(c, s) \in Registers
  BY <1>2, <1>3 DEF Registers
<1> QED
  BY <1>4, <1>5, <1>6

(* memory_save_cpu_offsets finds the offsets of registers that point into  *)
(* the segments, and leaves the registers there.                           *)
LEMMA OffsetsProperties ==
    ASSUME NEW c \in Registers, NEW s \in SegmentTable
    PROVE  /\ Offsets(c, s) \in Registers
           /\ PointsInto(c, s) /\ c.pc_offset >= 0 =>
                 /\ Offsets(c, s).pc_offset = c.pc_offset
                 /\ PointsInto(Offsets(c, s), s)
<1> DEFINE text == AtLeast(0, c.program_counter - s.TEXT.start)
           stack == AtLeast(0, s.STACK.limit - c.stack_pointer)
<1>1. /\ s.TEXT.start \in Nat /\ s.STACK.limit \in Nat
      /\ c.program_counter \in Int /\ c.stack_pointer \in Int
      /\ c.pc_offset \in Int /\ c.sp_offset \in Int
  BY DEF SegmentTable, Registers
<1>2. /\ text \in {0, c.program_counter - s.TEXT.start}
      /\ text >= 0 /\ text >= c.program_counter - s.TEXT.start
      /\ stack \in {0, s.STACK.limit - c.stack_pointer}
      /\ stack >= 0 /\ stack >= s.STACK.limit - c.stack_pointer
  BY <1>1, AtLeastOfTwo
<1> HIDE DEF text, stack
<1>3. Offsets(c, s) =
         [c EXCEPT !.pc_offset = IF c.program_counter < 0 THEN c.pc_offset ELSE text,
                   !.sp_offset = IF c.stack_pointer < 0 THEN c.sp_offset ELSE stack]
  BY DEF Offsets, text, stack
<1>4. Offsets(c, s) \in Registers
  <2> DEFINE pc_off == IF c.program_counter < 0 THEN c.pc_offset ELSE text
             sp_off == IF c.stack_pointer < 0 THEN c.sp_offset ELSE stack
  <2>1. pc_off \in Int /\ sp_off \in Int
    BY <1>1, <1>2
  <2>2. Offsets(c, s) = [c EXCEPT !.pc_offset = pc_off, !.sp_offset = sp_off]
    BY <1>3
  <2> HIDE DEF pc_off, sp_off
  <2> QED
    BY <2>1, <2>2 DEF Registers
<1>5. /\ Offsets(c, s).program_counter = c.program_counter
      /\ Offsets(c, s).pc_offset = IF c.program_counter < 0 THEN c.pc_offset ELSE text
  BY <1>3 DEF Registers
<1>6. ASSUME PointsInto(c, s), c.pc_offset >= 0
      PROVE  /\ Offsets(c, s).pc_offset = c.pc_offset
             /\ PointsInto(Offsets(c, s), s)
  BY <1>1, <1>2, <1>5, <1>6 DEF PointsInto
<1> QED
  BY <1>4, <1>6

-----------------------------------------------------------------------------
(* Growth at once and growth block by block.                               *)

(* Of so many more blocks, those that HEAP gets, when STACK is larger by   *)
(* `lack` at first.                                                        *)
Risen(blocks, lack) == AtLeast(0, Min({blocks, (blocks + lack + 1) \div 2}))

(* All, none or half of them, whichever makes the two even.                *)
LEMMA RisenProperties ==
    ASSUME NEW blocks \in Nat, NEW lack \in Int
    PROVE  /\ Risen(blocks, lack) \in 0 .. blocks
           /\ blocks =< lack + 1 => Risen(blocks, lack) = blocks
           /\ blocks + lack =< 0 => Risen(blocks, lack) = 0
           /\ ~(blocks =< lack + 1) /\ ~(blocks + lack =< 0) =>
                 /\ 2 * Risen(blocks, lack) =< blocks + lack + 1
                 /\ blocks + lack =< 2 * Risen(blocks, lack)
<1> DEFINE sum == blocks + lack + 1
           half == sum \div 2
           least == Min({blocks, half})
<1>1. sum \in Int /\ sum = blocks + lack + 1
  OBVIOUS
<1>2. half \in Int /\ 2 * half =< sum /\ sum =< 2 * half + 1
  <2> HIDE DEF sum
  <2> QED
    BY <1>1
<1>3. Risen(blocks, lack) = AtLeast(0, least)
  BY DEF Risen
<1> HIDE DEF sum, half
<1>4. least \in Int /\ (least = blocks \/ least = half) /\ least =< blocks /\ least =< half
  <2>1. blocks \in Int /\ half \in Int
    BY <1>2
  <2> QED
    BY <2>1, MinIsLeast
<1> HIDE DEF least
<1>5. least \in Int
  BY <1>4
<1>6. /\ AtLeast(0, least) \in {0, least}
      /\ AtLeast(0, least) >= 0 /\ AtLeast(0, least) >= least
  BY <1>5, AtLeastOfTwo
<1> DEFINE risen == Risen(blocks, lack)
<1>7. risen \in Int /\ risen \in {0, least} /\ risen >= 0 /\ risen >= least
  BY <1>3, <1>5, <1>6
<1> HIDE DEF risen
<1>8. risen \in 0 .. blocks
  BY <1>4, <1>5, <1>7
<1>9. blocks =< lack + 1 => risen = blocks
  BY <1>1, <1>2, <1>4, <1>5, <1>7
<1>10. blocks + lack =< 0 => risen = 0
  BY <1>1, <1>2, <1>4, <1>5, <1>7
<1>11. ASSUME ~(blocks =< lack + 1), ~(blocks + lack =< 0)
       PROVE  2 * risen =< blocks + lack + 1 /\ blocks + lack =< 2 * risen
  BY <1>1, <1>2, <1>4, <1>5, <1>7, <1>11
<1> QED
  BY <1>8, <1>9, <1>10, <1>11 DEF risen

(* Segments after so many blocks of growth.                                *)
Lack(s) == Size(s.STACK) - Size(s.HEAP)

Taller(s, up) == [s.HEAP EXCEPT !.limit = s.HEAP.limit + up]
Deeper(s, down) == [s.STACK EXCEPT !.start = s.STACK.start - down]

AfterGrowth(s, blocks) ==
    [s EXCEPT !.HEAP = Taller(s, Risen(blocks, Lack(s))),
              !.STACK = Deeper(s, blocks - Risen(blocks, Lack(s)))]

(* What growth leaves alone and what it moves.                             *)
LEMMA AfterGrowthProperties ==
    ASSUME NEW s \in SegmentTable, NEW blocks \in Nat
    PROVE  LET t  == AfterGrowth(s, blocks)
               up == Risen(blocks, Lack(s))
           IN  /\ t \in SegmentTable
               /\ t.TEXT = s.TEXT /\ t.DATA = s.DATA /\ t.BSS = s.BSS
               /\ t.HEAP.start = s.HEAP.start /\ t.STACK.limit = s.STACK.limit
               /\ t.HEAP.limit = s.HEAP.limit + up
               /\ t.STACK.start = s.STACK.start - (blocks - up)
<1> DEFINE up == Risen(blocks, Lack(s))
           heap == Taller(s, up)
           stack == Deeper(s, blocks - up)
<1>1. /\ s.HEAP.start \in Int /\ s.HEAP.limit \in Int
      /\ s.STACK.start \in Int /\ s.STACK.limit \in Nat
  BY DEF SegmentTable
<1>2. up \in Int
  <2>1. Lack(s) \in Int
    BY <1>1 DEF Lack, Size
  <2> QED
    BY <2>1, RisenProperties
<1> HIDE DEF up
<1>3. /\ heap \in [start : Int, limit : Int] /\ heap.start = s.HEAP.start
      /\ heap.limit = s.HEAP.limit + up
  BY <1>1, <1>2 DEF Taller, SegmentTable
<1>4. /\ stack \in [start : Int, limit : Nat] /\ stack.limit = s.STACK.limit
      /\ stack.start = s.STACK.start - (blocks - up)
  BY <1>1, <1>2 DEF Deeper, SegmentTable
<1>5. AfterGrowth(s, blocks) = [s EXCEPT !.HEAP = heap, !.STACK = stack]
  BY DEF AfterGrowth, up
<1> HIDE DEF heap, stack
<1>6. AfterGrowth(s, blocks) \in SegmentTable
  BY <1>3, <1>4, <1>5 DEF SegmentTable
<1>7. LET t == AfterGrowth(s, blocks)
      IN  /\ t.TEXT = s.TEXT /\ t.DATA = s.DATA /\ t.BSS = s.BSS
          /\ t.HEAP = heap /\ t.STACK = stack
  BY <1>5 DEF SegmentTable
<1> QED
  BY <1>3, <1>4, <1>6, <1>7 DEF up

(* One block more continues the growth.                                    *)
LEMMA GrowthContinues ==
    ASSUME NEW s \in SegmentTable, NEW k \in Nat
    PROVE  GrowOne(AfterGrowth(s, k)) = AfterGrowth(s, k + 1)
<1> DEFINE t == AfterGrowth(s, k)
           lack == Lack(s)
           now == Risen(k, lack)
           next == Risen(k + 1, lack)
<1>1. /\ t \in SegmentTable /\ t.TEXT = s.TEXT /\ t.DATA = s.DATA /\ t.BSS = s.BSS
      /\ t.HEAP.start = s.HEAP.start /\ t.STACK.limit = s.STACK.limit
      /\ t.HEAP.limit = s.HEAP.limit + now
      /\ t.STACK.start = s.STACK.start - (k - now)
  BY AfterGrowthProperties
<1>2. /\ s.HEAP.start \in Int /\ s.HEAP.limit \in Int
      /\ s.STACK.start \in Int /\ s.STACK.limit \in Int
  BY DEF SegmentTable
<1>3. lack \in Int /\ lack = (s.STACK.limit - s.STACK.start) - (s.HEAP.limit - s.HEAP.start)
  BY <1>2 DEF Lack, Size
<1> HIDE DEF lack
<1>4. /\ now \in 0 .. k /\ (k =< lack + 1 => now = k) /\ (k + lack =< 0 => now = 0)
      /\ ~(k =< lack + 1) /\ ~(k + lack =< 0) =>
            2 * now =< k + lack + 1 /\ k + lack =< 2 * now
  BY <1>3, RisenProperties
<1>5. /\ next \in 0 .. k + 1 /\ (k + 1 =< lack + 1 => next = k + 1)
      /\ (k + 1 + lack =< 0 => next = 0)
      /\ ~(k + 1 =< lack + 1) /\ ~(k + 1 + lack =< 0) =>
            2 * next =< k + 1 + lack + 1 /\ k + 1 + lack =< 2 * next
  BY <1>3, RisenProperties
<1> HIDE DEF t, now, next
<1>6. Size(t.HEAP) =< Size(t.STACK) <=> 2 * now =< k + lack
  <2>1. now \in Int
    BY <1>4
  <2>2. /\ Size(t.HEAP) = s.HEAP.limit + now - s.HEAP.start
        /\ Size(t.STACK) = s.STACK.limit - (s.STACK.start - (k - now))
    BY <1>1, <1>2, <2>1 DEF Size
  <2> QED
    BY <1>2, <1>3, <2>1, <2>2
<1>7. IF Size(t.HEAP) =< Size(t.STACK) THEN next = now + 1 ELSE next = now
  BY <1>3, <1>4, <1>5, <1>6
<1>8. AfterGrowth(s, k + 1) =
         [s EXCEPT !.HEAP = Taller(s, next), !.STACK = Deeper(s, (k + 1) - next)]
  BY DEF AfterGrowth, lack, next
<1>9. t = [s EXCEPT !.HEAP = Taller(s, now), !.STACK = Deeper(s, k - now)]
  BY DEF AfterGrowth, lack, now, t
<1>10. now \in Int /\ next \in Int
  BY <1>4, <1>5
<1>11. t \in SegmentTable /\ t.HEAP = Taller(s, now) /\ t.STACK = Deeper(s, k - now)
  BY <1>1, <1>9 DEF SegmentTable
<1>12. CASE Size(t.HEAP) =< Size(t.STACK)
  <2>1. GrowOne(t) = [t EXCEPT !.HEAP = Taller(t, 1)]
    BY <1>11, <1>12 DEF GrowOne, Taller, SegmentTable
  <2>2. s.HEAP.limit + now + 1 = s.HEAP.limit + next
    BY <1>2, <1>7, <1>10, <1>12
  <2>3. Taller(t, 1) = Taller(s, next)
    BY <1>1, <1>11, <2>2 DEF Taller, SegmentTable
  <2>4. (k + 1) - next = k - now
    BY <1>7, <1>10, <1>12
  <2>5. GrowOne(t) = [s EXCEPT !.HEAP = Taller(s, next), !.STACK = Deeper(s, k - now)]
    BY <1>9, <2>1, <2>3 DEF SegmentTable
  <2>6. GrowOne(t) = AfterGrowth(s, k + 1)
    BY <1>8, <2>4, <2>5
  <2> QED
    BY <2>6 DEF t
<1>13. CASE ~(Size(t.HEAP) =< Size(t.STACK))
  <2>1. GrowOne(t) = [t EXCEPT !.STACK = Deeper(t, 1)]
    BY <1>11, <1>13 DEF GrowOne, Deeper, SegmentTable
  <2>2. (s.STACK.start - (k - now)) - 1 = s.STACK.start - ((k + 1) - next)
    BY <1>2, <1>7, <1>10, <1>13
  <2>3. Deeper(t, 1) = Deeper(s, (k + 1) - next)
    BY <1>1, <1>11, <2>2 DEF Deeper, SegmentTable
  <2>4. GrowOne(t) = [s EXCEPT !.HEAP = Taller(s, now), !.STACK = Deeper(s, (k + 1) - next)]
    BY <1>9, <2>1, <2>3 DEF SegmentTable
  <2>5. GrowOne(t) = AfterGrowth(s, k + 1)
    BY <1>7, <1>8, <1>13, <2>4
  <2> QED
    BY <2>5 DEF t
<1> QED
  BY <1>12, <1>13

(* The blocks that are missing are a number.                               *)
LEMMA MissingProperties ==
    ASSUME NEW s \in SegmentTable, NEW cpuTime \in Int, NEW burst \in Nat \ {0}
    PROVE  /\ Target(s, cpuTime, burst) \in Int /\ Missing(s, cpuTime, burst) \in Nat
           /\ \/ Missing(s, cpuTime, burst) = 0
              \/ Missing(s, cpuTime, burst) =< Gap(s)
           /\ \/ Used(s) + Missing(s, cpuTime, burst) >= Target(s, cpuTime, burst)
              \/ Missing(s, cpuTime, burst) >= Gap(s)
<1> DEFINE target == Target(s, cpuTime, burst)
           owed == target - Used(s)
           gap == Gap(s)
           least == Min({owed, gap})
           missing == Missing(s, cpuTime, burst)
<1>1. /\ s.HEAP.start \in Int /\ s.HEAP.limit \in Int
      /\ s.STACK.start \in Int /\ s.STACK.limit \in Int
  BY DEF SegmentTable
<1>2. gap \in Int /\ Used(s) \in Int
  BY <1>1 DEF Size, Gap, Used
<1>3. target \in Int
  <2> DEFINE capacity == s.STACK.limit - s.HEAP.start
             base == capacity \div 2
             progress == Min({cpuTime, burst})
  <2>1. capacity \in Int /\ base \in Int
    BY <1>1
  <2>2. progress \in Int
    BY MinOfTwo
  <2> HIDE DEF capacity, base, progress
  <2>3. (capacity - base) * progress \in Int
    BY <2>1, <2>2
  <2>4. ((capacity - base) * progress) \div burst \in Int
    BY <2>3
  <2> QED
    BY <2>1, <2>4 DEF Target, capacity, base, progress
<1> HIDE DEF target, gap
<1>4. owed \in Int /\ owed = target - Used(s)
  BY <1>2, <1>3
<1> HIDE DEF owed
<1>5. least \in Int /\ least =< owed /\ least =< gap /\ (least = owed \/ least = gap)
  BY <1>2, <1>4, MinIsLeast
<1>6. missing = AtLeast(0, least)
  BY DEF Missing, missing, least, owed, target, gap
<1> HIDE DEF least
<1>7. missing \in {0, least} /\ missing >= 0 /\ missing >= least
  BY <1>5, <1>6, AtLeastOfTwo
<1> HIDE DEF missing
<1>8. /\ missing \in Nat /\ (missing = 0 \/ missing =< gap)
      /\ Used(s) + missing >= target \/ missing >= gap
  BY <1>2, <1>3, <1>4, <1>5, <1>7
<1> QED
  BY <1>3, <1>8 DEF missing, target, gap

(* Growth at once is growth by the missing blocks.                         *)
LEMMA GrownAtOnce ==
    ASSUME NEW s \in SegmentTable, NEW cpuTime \in Int, NEW burst \in Nat \ {0}
    PROVE  Grown(s, cpuTime, burst) = AfterGrowth(s, Missing(s, cpuTime, burst))
<1> DEFINE blocks == Missing(s, cpuTime, burst)
           up == AtLeast(0, Min({blocks,
                    (blocks + Size(s.STACK) - Size(s.HEAP) + 1) \div 2}))
<1>1. blocks \in Int
  BY MissingProperties
<1>2. Size(s.STACK) \in Int /\ Size(s.HEAP) \in Int
  BY DEF SegmentTable, Size
<1>3. Grown(s, cpuTime, burst) =
         [s EXCEPT !.HEAP.limit = @ + up, !.STACK.start = @ - (blocks - up)]
  BY DEF Grown, blocks, up
<1> HIDE DEF blocks
<1>4. blocks + Size(s.STACK) - Size(s.HEAP) + 1 = blocks + Lack(s) + 1
  BY <1>1, <1>2 DEF Lack
<1>5. up = Risen(blocks, Lack(s))
  BY <1>4 DEF Risen
<1> HIDE DEF up
<1>6. Grown(s, cpuTime, burst) =
         [s EXCEPT !.HEAP = Taller(s, up), !.STACK = Deeper(s, blocks - up)]
  BY <1>3 DEF Taller, Deeper, SegmentTable
<1> QED
  BY <1>5, <1>6 DEF AfterGrowth, blocks

(* The loop of memory_tick_dynamic_segments, as a fold of its body.        *)
GrowNext(s, i) == GrowOne(s)

Growing == INSTANCE FoldProofs WITH Op <- GrowNext

(* The loop does what the model does at once.                              *)
LEMMA LoopGrowsAlike ==
    ASSUME NEW s \in SegmentTable, NEW cpuTime \in Int, NEW burst \in Nat \ {0}
    PROVE  Grown(s, cpuTime, burst) = GrownByLoop(s, cpuTime, burst)
<1> DEFINE n == Missing(s, cpuTime, burst)
           rounds == [i \in 1 .. n |-> i]
<1>1. n \in Nat
  BY MissingProperties
<1>2. GrownByLoop(s, cpuTime, burst) = Growing!Folded(s, rounds)
  BY DEF GrownByLoop, GrowNext, FoldLeft, MapThenFoldSet, Max, Growing!Folded,
         Growing!FoldLeft, Growing!MapThenFoldSet, Growing!Max
<1> HIDE DEF n
<1>3. DOMAIN rounds = 1 .. n
  OBVIOUS
<1> HIDE DEF rounds
<1>4. \E r : /\ r[0] = s /\ r[n] = Growing!Folded(s, rounds)
             /\ \A k \in 1 .. n : r[k] = GrowNext(r[k - 1], rounds[k])
  BY <1>1, <1>3, Growing!FoldLeftSteps
<1>5. PICK r : /\ r[0] = s /\ r[n] = GrownByLoop(s, cpuTime, burst)
               /\ \A k \in 1 .. n : r[k] = GrowOne(r[k - 1])
  BY <1>2, <1>4 DEF GrowNext
<1> DEFINE Alike == {k \in 0 .. n : r[k] = AfterGrowth(s, k)}
<1>6. 0 \in Alike
  <2>1. Lack(s) \in Int /\ 0 \in Nat
    BY DEF Lack, Size, SegmentTable
  <2>2. Risen(0, Lack(s)) \in 0 .. 0
    BY <2>1, RisenProperties
  <2>3. Risen(0, Lack(s)) = 0
    BY <2>2
  <2>4. AfterGrowth(s, 0) = [s EXCEPT !.HEAP = Taller(s, 0), !.STACK = Deeper(s, 0 - 0)]
    BY <2>3 DEF AfterGrowth
  <2>5. Taller(s, 0) = s.HEAP /\ Deeper(s, 0 - 0) = s.STACK
    BY DEF Taller, Deeper, SegmentTable
  <2>6. AfterGrowth(s, 0) = s
    BY <2>4, <2>5 DEF SegmentTable
  <2> QED
    BY <1>1, <1>5, <2>6
<1>7. ASSUME NEW k \in 1 .. n, k - 1 \in Alike PROVE k \in Alike
  <2>1. r[k] = GrowOne(r[k - 1]) /\ r[k - 1] = AfterGrowth(s, k - 1)
    BY <1>5, <1>7
  <2>2. k - 1 \in Nat /\ (k - 1) + 1 = k
    BY <1>1
  <2>3. GrowOne(AfterGrowth(s, k - 1)) = AfterGrowth(s, k)
    BY <2>2, GrowthContinues
  <2> QED
    BY <1>1, <2>1, <2>3
<1> HIDE DEF Alike
<1>8. \A k \in 0 .. n : k \in Alike
  BY <1>1, <1>6, <1>7, Growing!InductionTo
<1>9. r[n] = AfterGrowth(s, n)
  BY <1>1, <1>8 DEF Alike
<1> QED
  BY <1>5, <1>9, GrownAtOnce DEF n

(* Growth moves neither the start of TEXT nor the end of STACK.            *)
LEMMA GrowthKeepsEnds ==
    ASSUME NEW s \in SegmentTable, NEW cpuTime \in Int, NEW burst \in Nat \ {0}
    PROVE  /\ Grown(s, cpuTime, burst) \in SegmentTable
           /\ Grown(s, cpuTime, burst).TEXT.start = s.TEXT.start
           /\ Grown(s, cpuTime, burst).STACK.limit = s.STACK.limit
  BY GrownAtOnce, MissingProperties, AfterGrowthProperties

-----------------------------------------------------------------------------
(* Segments of a process whose shares leave room for them all.             *)

(* Each begins where the one before ends, and HEAP and STACK are apart.    *)
InLine(s) ==
    /\ s.TEXT.start =< s.TEXT.limit /\ s.TEXT.limit = s.DATA.start
    /\ s.DATA.start =< s.DATA.limit /\ s.DATA.limit = s.BSS.start
    /\ s.BSS.start =< s.BSS.limit /\ s.BSS.limit = s.HEAP.start
    /\ s.HEAP.start =< s.HEAP.limit /\ s.HEAP.limit =< s.STACK.start
    /\ s.STACK.start =< s.STACK.limit

Level(s) == Size(s.HEAP) - Size(s.STACK) \in -1 .. 1

Sum(n) == n.TEXT + n.DATA + n.BSS + n.HEAP + n.STACK

(* There are five segments, but their number does not matter here.         *)
LEMMA SegmentsAreCounted == Cardinality(SegmentType) \in Nat
<1> DEFINE S1 == {} \cup {"TEXT"}
           S2 == S1 \cup {"DATA"}
           S3 == S2 \cup {"BSS"}
           S4 == S3 \cup {"HEAP"}
           S5 == S4 \cup {"STACK"}
<1>1. SegmentType = S5
  BY DEF SegmentType
<1>2. IsFiniteSet(S1)
  BY FS_EmptySet, FS_AddElement
<1> HIDE DEF S1
<1>3. IsFiniteSet(S2)
  BY <1>2, FS_AddElement
<1> HIDE DEF S2
<1>4. IsFiniteSet(S3)
  BY <1>3, FS_AddElement
<1> HIDE DEF S3
<1>5. IsFiniteSet(S4)
  BY <1>4, FS_AddElement
<1> HIDE DEF S4
<1>6. IsFiniteSet(S5)
  BY <1>5, FS_AddElement
<1> QED
  BY <1>1, <1>6, FS_CardinalityType

(* Blocks at first: none is negative, and HEAP and STACK are alike.        *)
LEMMA InitialSizesProperties ==
    ASSUME NEW total \in Nat \ {0}, NEW share \in Share
    PROVE  LET n == InitialSizes(total, share)
           IN  /\ n.TEXT \in Nat /\ n.DATA \in Nat /\ n.BSS \in Nat
               /\ n.HEAP \in Nat /\ n.STACK \in Nat
               /\ total >= Cardinality(SegmentType) => n.HEAP - n.STACK \in -1 .. 1
<1> DEFINE text == AtLeast(1, (total * share.text) \div 100)
           area == AtLeast(2, (total * share.data) \div 100)
           part == AtLeast(1, (area * BSS_PERCENT_OF_DATA) \div 100)
           bss == Min({part, area - 1})
           dynamic == AtLeast(2, total - text - area)
           initial == AtLeast(2, dynamic \div 2)
           heap == AtLeast(1, initial \div 2)
<1>1. share.text \in Int /\ share.data \in Int /\ BSS_PERCENT_OF_DATA \in Int
  BY SegmentsAssumption DEF Share
<1>2. (total * share.text) \div 100 \in Int /\ (total * share.data) \div 100 \in Int
  BY <1>1
<1>3. text \in Nat /\ area \in Nat /\ area >= 2
  <2> HIDE DEF text, area
  <2> QED
    BY <1>2, AtLeastOfTwo DEF text, area
<1> HIDE DEF text, area
<1>4. (area * BSS_PERCENT_OF_DATA) \div 100 \in Int
  BY <1>1, <1>3
<1>5. part \in Nat /\ part >= 1
  BY <1>4, AtLeastOfTwo
<1> HIDE DEF part
<1>6. bss \in Nat /\ area - bss \in Nat
  <2>1. part \in Int /\ area - 1 \in Int
    BY <1>3, <1>5
  <2>2. bss \in Int /\ bss =< area - 1 /\ (bss = part \/ bss = area - 1)
    BY <2>1, MinIsLeast
  <2> QED
    BY <1>3, <1>5, <2>2
<1> HIDE DEF bss
<1>7. dynamic \in Int
  BY <1>3, AtLeastOfTwo
<1> HIDE DEF dynamic
<1>8. initial \in Nat /\ initial >= 2
  BY <1>7, AtLeastOfTwo
<1> HIDE DEF initial
<1>9. heap \in Nat /\ initial - heap \in Nat /\ heap - (initial - heap) \in -1 .. 1
  <2>1. initial \div 2 \in Int /\ initial \div 2 >= 1
    BY <1>8
  <2>2. heap = initial \div 2
    BY <2>1, AtLeastOfTwo
  <2> QED
    BY <1>8, <2>1, <2>2
<1> HIDE DEF heap
<1>10. InitialSizes(total, share) =
          IF total < Cardinality(SegmentType)
          THEN [TEXT |-> IF 1 =< total THEN 1 ELSE 0, DATA |-> IF 2 =< total THEN 1 ELSE 0,
                BSS |-> IF 3 =< total THEN 1 ELSE 0, HEAP |-> IF 4 =< total THEN 1 ELSE 0,
                STACK |-> IF 5 =< total THEN 1 ELSE 0]
          ELSE [TEXT |-> text, DATA |-> area - bss, BSS |-> bss,
                HEAP |-> heap, STACK |-> initial - heap]
  BY DEF InitialSizes, text, area, part, bss, dynamic, initial, heap
<1>11. CASE total < Cardinality(SegmentType)
  BY <1>10, <1>11, SegmentsAreCounted
<1>12. CASE ~(total < Cardinality(SegmentType))
  BY <1>3, <1>6, <1>9, <1>10, <1>12
<1> QED
  BY <1>11, <1>12

(* Segments in memory begin at a block that exists, fill the blocks of the *)
(* process, and follow each other if they have room.                       *)
LEMMA LayoutProperties ==
    ASSUME NEW first \in Nat, NEW total \in Nat \ {0}, NEW share \in Share
    PROVE  LET s == Layout(first, total, share)
           IN  /\ s \in SegmentTable
               /\ s.TEXT.start = first /\ s.STACK.limit = first + total
               /\ Sum(InitialSizes(total, share)) =< total =>
                     /\ InLine(s)
                     /\ total >= Cardinality(SegmentType) => Level(s)
<1> DEFINE n == InitialSizes(total, share)
           limit == first + total
           data == first + n.TEXT
           bss == data + n.DATA
           heap == bss + n.BSS
           free == heap + n.HEAP
           stack == AtLeast(free, limit - n.STACK)
           s == Layout(first, total, share)
<1>1. /\ n.TEXT \in Nat /\ n.DATA \in Nat /\ n.BSS \in Nat
      /\ n.HEAP \in Nat /\ n.STACK \in Nat
      /\ total >= Cardinality(SegmentType) => n.HEAP - n.STACK \in -1 .. 1
  BY InitialSizesProperties
<1>2. s = [TEXT |-> [start |-> first, limit |-> data],
           DATA |-> [start |-> data, limit |-> bss],
           BSS |-> [start |-> bss, limit |-> heap],
           HEAP |-> [start |-> heap, limit |-> free],
           STACK |-> [start |-> stack, limit |-> limit]]
  BY DEF Layout
<1> HIDE DEF n, s
<1>3. /\ data \in Int /\ bss \in Int /\ heap \in Int /\ free \in Int /\ limit \in Nat
  BY <1>1
<1>4. /\ stack \in Int /\ stack >= free /\ (stack = free \/ stack = limit - n.STACK)
      /\ stack >= limit - n.STACK
  BY <1>1, <1>3, AtLeastOfTwo
<1> HIDE DEF stack
<1>5. Sum(n) = n.TEXT + n.DATA + n.BSS + n.HEAP + n.STACK
  BY DEF Sum
<1>6. Sum(n) =< total => free =< limit - n.STACK
  BY <1>1, <1>5
<1>7. Sum(n) =< total => stack = limit - n.STACK
  BY <1>1, <1>3, <1>4, <1>6
<1>8. /\ first =< data /\ data =< bss /\ bss =< heap /\ heap =< free /\ free - heap = n.HEAP
  BY <1>1
<1> HIDE DEF limit, data, bss, heap, free
<1>9. s \in SegmentTable
  BY <1>2, <1>3, <1>4 DEF SegmentTable
<1>10. s.TEXT.start = first /\ s.STACK.limit = first + total
  BY <1>2 DEF limit
<1>11. ASSUME Sum(n) =< total
       PROVE  InLine(s) /\ (total >= Cardinality(SegmentType) => Level(s))
  <2>1. stack =< limit
    BY <1>1, <1>3, <1>7, <1>11
  <2>2. InLine(s)
    BY <1>2, <1>3, <1>4, <1>8, <2>1 DEF InLine
  <2>3. limit - stack = n.STACK
    BY <1>1, <1>3, <1>7, <1>11
  <2>4. Size(s.HEAP) = n.HEAP /\ Size(s.STACK) = n.STACK
    BY <1>2, <1>8, <2>3 DEF Size
  <2> QED
    BY <1>1, <2>2, <2>4 DEF Level
<1> QED
  BY <1>9, <1>10, <1>11 DEF n, s

(* A share of a number is not more than the number.                        *)
LEMMA ShareOfAll ==
    ASSUME NEW all \in Nat, NEW part \in Int, NEW whole \in Nat \ {0}, part =< whole
    PROVE  (all * part) \div whole =< all
<1> DEFINE product == all * part
           q == product \div whole
<1>1. product \in Int /\ all * whole \in Int
  OBVIOUS
<1>2. product =< all * whole
  <2>1. whole - part \in Nat
    OBVIOUS
  <2>2. all * (whole - part) >= 0
    BY <2>1
  <2>3. all * (whole - part) = all * whole - all * part
    OBVIOUS
  <2> QED
    BY <1>1, <2>2, <2>3
<1> HIDE DEF product
<1>3. q \in Int /\ whole * q =< product
  BY <1>1
<1> HIDE DEF q
<1>4. ASSUME q > all PROVE FALSE
  <2>1. q - all \in Nat \ {0}
    BY <1>3, <1>4
  <2>2. whole * (q - all) > 0
    BY <2>1
  <2>3. whole * (q - all) = whole * q - whole * all
    BY <1>3
  <2>4. whole * all = all * whole /\ whole * q \in Int
    BY <1>3
  <2> QED
    BY <1>1, <1>2, <1>3, <2>2, <2>3, <2>4
<1> QED
  BY <1>3, <1>4 DEF q, product

(* Growth keeps the segments apart and HEAP and STACK level, and goes on   *)
(* until they have what the progress calls for.                            *)
LEMMA GrowthProperties ==
    ASSUME NEW s \in SegmentTable, NEW cpuTime \in Int, NEW burst \in Nat \ {0}, InLine(s)
    PROVE  LET t == Grown(s, cpuTime, burst)
           IN  /\ InLine(t) /\ (Level(s) => Level(t))
               /\ Used(t) >= Target(t, cpuTime, burst)
<1> DEFINE blocks == Missing(s, cpuTime, burst)
           lack == Lack(s)
           up == Risen(blocks, lack)
           t == Grown(s, cpuTime, burst)
           target == Target(s, cpuTime, burst)
<1>1. /\ blocks \in Nat /\ target \in Int /\ (blocks = 0 \/ blocks =< Gap(s))
      /\ Used(s) + blocks >= target \/ blocks >= Gap(s)
  BY MissingProperties
<1>2. /\ s.TEXT \in [start : Nat, limit : Int] /\ s.DATA \in [start : Int, limit : Int]
      /\ s.BSS \in [start : Int, limit : Int]
      /\ s.HEAP.start \in Int /\ s.HEAP.limit \in Int
      /\ s.STACK.start \in Int /\ s.STACK.limit \in Int
  BY DEF SegmentTable
<1>3. /\ lack \in Int
      /\ lack = (s.STACK.limit - s.STACK.start) - (s.HEAP.limit - s.HEAP.start)
      /\ Gap(s) = s.STACK.start - s.HEAP.limit
      /\ Used(s) = (s.HEAP.limit - s.HEAP.start) + (s.STACK.limit - s.STACK.start)
  BY <1>2 DEF Lack, Size, Gap, Used
<1>4. s.HEAP.limit =< s.STACK.start
  BY DEF InLine
<1>5. t = AfterGrowth(s, blocks)
  BY GrownAtOnce
<1> HIDE DEF blocks, lack, t, target
<1>6. /\ up \in 0 .. blocks /\ (blocks =< lack + 1 => up = blocks)
      /\ (blocks + lack =< 0 => up = 0)
      /\ ~(blocks =< lack + 1) /\ ~(blocks + lack =< 0) =>
            2 * up =< blocks + lack + 1 /\ blocks + lack =< 2 * up
  <2>1. blocks \in Nat /\ lack \in Int
    BY <1>1, <1>3
  <2> QED
    BY <2>1, RisenProperties
<1>7. /\ t.TEXT = s.TEXT /\ t.DATA = s.DATA /\ t.BSS = s.BSS
      /\ t.HEAP.start = s.HEAP.start /\ t.STACK.limit = s.STACK.limit
      /\ t.HEAP.limit = s.HEAP.limit + up
      /\ t.STACK.start = s.STACK.start - (blocks - up)
  BY <1>1, <1>5, AfterGrowthProperties DEF lack
<1> HIDE DEF up
<1>8. up \in Int
  BY <1>6
<1>9. /\ t.HEAP.limit >= s.HEAP.limit /\ t.STACK.start =< s.STACK.start
      /\ t.HEAP.limit =< t.STACK.start
      /\ t.HEAP.limit \in Int /\ t.STACK.start \in Int
  BY <1>1, <1>2, <1>3, <1>4, <1>6, <1>7, <1>8
<1>10. InLine(t)
  BY <1>2, <1>7, <1>9 DEF InLine
<1>11. /\ Size(t.HEAP) = s.HEAP.limit - s.HEAP.start + up
       /\ Size(t.STACK) = s.STACK.limit - s.STACK.start + (blocks - up)
  BY <1>1, <1>2, <1>7, <1>8 DEF Size
<1>12. ASSUME Level(s) PROVE Level(t)
  <2>1. lack \in -1 .. 1
    BY <1>2, <1>3, <1>12 DEF Level, Size
  <2>2. Size(t.HEAP) - Size(t.STACK) = 2 * up - blocks - lack
    BY <1>1, <1>2, <1>3, <1>8, <1>11
  <2>3. 2 * up - blocks - lack \in -1 .. 1
    BY <1>1, <1>3, <1>6, <1>8, <2>1
  <2> QED
    BY <2>2, <2>3 DEF Level
<1>13. Target(t, cpuTime, burst) = target
  BY <1>7 DEF Target, target
<1>14. Used(t) = Used(s) + blocks
  BY <1>1, <1>2, <1>3, <1>8, <1>11 DEF Used
<1> DEFINE capacity == s.STACK.limit - s.HEAP.start
           base == capacity \div 2
           progress == Min({cpuTime, burst})
           rest == capacity - base
<1>15. target =< capacity
  <2>1. capacity \in Nat
    BY <1>2, <1>4 DEF InLine
  <2> HIDE DEF capacity
  <2>2. base \in Nat /\ rest \in Nat /\ base + rest = capacity
    BY <2>1
  <2>3. progress \in Int /\ progress =< burst
    <3>1. burst \in Int
      OBVIOUS
    <3> QED
      BY <3>1, MinIsLeast
  <2>4. target = base + (rest * progress) \div burst
    BY DEF Target, target, capacity
  <2> HIDE DEF base, rest, progress
  <2>5. (rest * progress) \div burst =< rest
    BY <2>2, <2>3, ShareOfAll
  <2>6. rest * progress \in Int
    BY <2>2, <2>3
  <2>7. (rest * progress) \div burst \in Int
    BY <2>6
  <2> QED
    BY <2>1, <2>2, <2>4, <2>5, <2>7
<1>16. capacity = Used(s) + Gap(s)
  BY <1>2, <1>3
<1>17. Used(t) >= target
  <2>1. capacity \in Int /\ Used(s) \in Int /\ Gap(s) \in Int
    BY <1>2, <1>3
  <2> HIDE DEF capacity
  <2> QED
    BY <1>1, <1>14, <1>15, <1>16, <2>1
<1> QED
  BY <1>10, <1>12, <1>13, <1>17 DEF t

-----------------------------------------------------------------------------
(* Each step of the kernel, with its context.                              *)

(* Whom a step does not concern goes on as before.                         *)
LEMMA ResumesFrame ==
    ASSUME NEW q \in Procs, Resumes(q), sched'[q].cpu = sched[q].cpu,
           resident'[q] = resident[q], segments'[q] = segments[q],
           Current(q)' = Current(q)
    PROVE  Resumes(q)'
  BY DEF Resumes

(* The registers of a process have the types of the code.                  *)
LEMMA CurrentType ==
    ASSUME ContextInv, NEW q \in Procs
    PROVE  Current(q) \in Registers
  BY DEF ContextInv, Current

(* A process that is blocked gives up its memory with its offsets.         *)
LEMMA UnloadResumes ==
    ASSUME KernelInv, ContextInv, NEW p \in Procs, p # running, running' = running,
           Quiet \/ Cancels, resident' = [resident EXCEPT ![p] = FALSE],
           Unload(p, saved[p], segments[p]), UNCHANGED cpu_ctx
    PROVE  ContextInv'
<1>0. /\ TypeOK /\ saved \in [Procs -> Registers]
      /\ segments \in [Procs -> SegmentTable \cup {NULL}]
      /\ segments[p] \in SegmentTable \cup {NULL} /\ Resumes(p)
  BY DEF KernelInv, TypeInv, ContextInv
<1> DEFINE left == IF segments[p] = NULL THEN saved[p] ELSE Offsets(saved[p], segments[p])
<1>1. /\ segments' = [segments EXCEPT ![p] = NULL]
      /\ saved' = [saved EXCEPT ![p] = left]
  BY DEF Unload
<1>2. /\ left \in Registers
      /\ left.pc_offset = saved[p].pc_offset
  BY <1>0, OffsetsProperties DEF Resumes, Current
<1> HIDE DEF left
<1>3. Resumes(p)'
  BY <1>0, <1>1, <1>2, CpuTimeStays DEF Resumes, Current, TypeOK
<1>4. ASSUME NEW q \in Procs \ {p} PROVE Resumes(q)'
  BY <1>0, <1>1, CpuTimeStays, ResumesFrame DEF ContextInv, Current, TypeOK
<1> QED
  BY <1>0, <1>1, <1>2, <1>3, <1>4 DEF ContextInv

(* swap_out and cancel_by_keyboard.                                        *)
LEMMA EvictsResumes ==
    ASSUME KernelInv, ContextInv, Evicts \/ CancelsRequest
    PROVE  ContextInv'
<1>0. TypeOK
  BY DEF KernelInv, TypeInv
<1>1. CASE Evicts
  <2>1. PICK v \in Candidates : resident' = [resident EXCEPT ![v] = FALSE]
    BY <1>1 DEF Evicts, SwapOut
  <2>2. v \in Procs /\ v # running
    BY <2>1 DEF Candidates, KernelInv, Structure, OnePlaceEach, InPlace
  <2>3. Unload(v, saved[v], segments[v]) /\ UNCHANGED <<cpu_ctx, running>> /\ Quiet
    BY <1>0, <1>1, <2>1, <2>2, QuietSteps DEF Evicts, SwapOut, Swapper, TypeOK, cpu
  <2> QED
    BY <2>1, <2>2, <2>3, UnloadResumes
<1>2. CASE CancelsRequest
  <2>1. /\ KeyboardCancel /\ CompleteIo
        /\ Unload(Requester, saved[Requester], segments[Requester])
        /\ UNCHANGED <<cpu_ctx, running>>
    BY <1>2 DEF CancelsRequest, KeyboardCancel, CompleteIo, AtDevice, cpu
  <2>2. Requester \in Procs /\ Requester # running
    BY <2>1, HeadsOfWalks
  <2>3. resident' = [resident EXCEPT ![Requester] = FALSE]
    BY <2>1 DEF KeyboardCancel, Finish
  <2> QED
    BY <2>1, <2>2, <2>3, CancelSteps, UnloadResumes
<1> QED
  BY <1>1, <1>2

(* swap_in and admission: the addresses follow from the offsets.           *)
LEMMA LoadsResumes ==
    ASSUME KernelInv, MemoryMatchesResidence, MemoryMatchesResidence', ContextInv, Loads
    PROVE  ContextInv'
<1>0. /\ TypeOK /\ saved \in [Procs -> Registers]
      /\ segments \in [Procs -> SegmentTable \cup {NULL}]
  BY DEF KernelInv, TypeInv, ContextInv
<1>1. PICK p \in Procs : p = Head(todo) /\ ~resident[p] /\ p # running
  <2>1. CASE SwapIn
    BY <1>0, <2>1, WalkProperties
    DEF SwapIn, Waits, TypeOK, KernelInv, Structure, OnePlaceEach, InPlace
  <2>2. CASE Admit
    BY <2>2, HeadsOfWalks
    DEF Admit, KernelInv, Structure, OnePlaceEach, InPlace, OnlyResidentsCompete
  <2> QED
    BY <2>1, <2>2 DEF Loads
<1> DEFINE n == profile[p].blocks
<1>2. /\ Load(p) /\ resident' = [resident EXCEPT ![p] = TRUE]
      /\ UNCHANGED <<running, profile>>
  BY <1>1 DEF Loads, SwapIn, Admit, cpu, setup
<1>3. Quiet
  BY QuietSteps DEF Loads, Swapper
<1>4. n \in Nat \ {0} /\ Shares[p] \in Share
  BY <1>0, <1>1, FieldTypes, ContextAssumption
<1>5. PICK first \in Blocks : OwnedBy(cells', p) = first .. first + n - 1
  BY <1>0, <1>1, <1>2 DEF MemoryMatchesResidence, TypeOK
<1>6. Min(OwnedBy(cells', p)) = first /\ first \in Nat
  <2>1. first \in Nat /\ first \in OwnedBy(cells', p)
        /\ \A b \in OwnedBy(cells', p) : b \in Nat /\ first =< b
    BY <1>4, <1>5, TotalBlocksAssumption DEF Blocks
  <2>2. /\ Min(OwnedBy(cells', p)) \in OwnedBy(cells', p)
        /\ \A b \in OwnedBy(cells', p) : Min(OwnedBy(cells', p)) =< b
    BY <2>1 DEF Min
  <2> HIDE DEF Min
  <2>3. Min(OwnedBy(cells', p)) \in Nat /\ first =< Min(OwnedBy(cells', p))
    BY <2>1, <2>2
  <2>4. Min(OwnedBy(cells', p)) =< first
    BY <2>1, <2>2
  <2> QED
    BY <2>1, <2>3, <2>4
<1> DEFINE laid == Layout(first, n, Shares[p])
<1>7. laid \in SegmentTable
  BY <1>4, <1>6, LayoutProperties
<1>8. /\ segments' = [segments EXCEPT ![p] = laid]
      /\ saved' = [saved EXCEPT ![p] = Addresses(saved[p], laid)]
      /\ UNCHANGED cpu_ctx
  BY <1>0, <1>1, <1>2, <1>6 DEF Load
<1> HIDE DEF laid
<1>9. saved[p] \in Registers /\ Resumes(p) /\ Current(p) = saved[p]
  BY <1>0, <1>1 DEF ContextInv, Current
<1> DEFINE moved == Addresses(saved[p], laid)
<1>10. /\ moved \in Registers /\ PointsInto(moved, laid)
       /\ moved.pc_offset = saved[p].pc_offset
  BY <1>7, <1>9, AddressesProperties DEF Resumes
<1>11. Current(p)' = moved /\ resident'[p] /\ segments'[p] = laid
  BY <1>0, <1>1, <1>2, <1>8 DEF Current, TypeOK
<1> HIDE DEF moved
<1>12. Resumes(p)'
  BY <1>1, <1>3, <1>7, <1>9, <1>10, <1>11, CpuTimeStays DEF Resumes
<1>13. ASSUME NEW q \in Procs \ {p} PROVE Resumes(q)'
  BY <1>0, <1>1, <1>2, <1>3, <1>8, CpuTimeStays, ResumesFrame
  DEF ContextInv, Current, TypeOK
<1> QED
  <2>1. /\ saved' \in [Procs -> Registers] /\ cpu_ctx' \in Registers
        /\ segments' \in [Procs -> SegmentTable \cup {NULL}]
    BY <1>0, <1>7, <1>8, <1>10 DEF ContextInv, moved
  <2> QED
    BY <1>12, <1>13, <2>1 DEF ContextInv

(* dispatch and preemption: the registers come from the PCB and go there.  *)
LEMMA DispatchesResumes ==
    ASSUME KernelInv, ContextInv, Dispatches
    PROVE  ContextInv'
<1>0. /\ TypeOK /\ saved \in [Procs -> Registers] /\ NULL \notin Procs
      /\ segments \in [Procs -> SegmentTable \cup {NULL}]
  BY KernelAssumption DEF KernelInv, TypeInv, ContextInv
<1>1. PICK p \in Procs :
        /\ running = NULL /\ running' = p /\ resident[p]
        /\ UNCHANGED resident /\ (Quiet \/ GetsCpu)
  <2>1. CASE SelectNext /\ running' # NULL
    <3>1. PICK x \in ChosenFrom(ready_q) :
            running = NULL /\ running' = x /\ UNCHANGED resident
      BY <2>1 DEF SelectNext, Dispatch, memory
    <3> QED
      BY <2>1, <3>1, ChosenIsReady, SelectSteps
      DEF KernelInv, Structure, OnePlaceEach, InPlace
  <2>2. CASE SwitchDone
    <3>1. /\ next_pcb \in Procs /\ running = NULL /\ running' = next_pcb
          /\ UNCHANGED resident
      BY <1>0, <2>2 DEF SwitchDone, Dispatch, memory, KernelInv, TypeInv, TypeOK,
         TickHasOwner, Structure, OnlyResidentsCompete
    <3> QED
      BY <2>2, <3>1, SwitchDoneDispatches DEF KernelInv, Structure, OnePlaceEach, InPlace
  <2> QED
    BY <2>1, <2>2 DEF Dispatches
<1>2. /\ saved' = [saved EXCEPT ![p] = Addresses(saved[p], segments[p])]
      /\ cpu_ctx' = saved'[p] /\ UNCHANGED segments
  BY <1>1 DEF Dispatches, Restore
<1>3. /\ saved[p] \in Registers /\ segments[p] \in SegmentTable
      /\ Current(p) = saved[p] /\ Resumes(p)
  BY <1>0, <1>1 DEF ContextInv, Current, Resumes
<1>4. Resumes(p)'
  BY <1>0, <1>1, <1>2, <1>3, CpuTimeStays, AddressesProperties DEF Resumes, Current
<1>5. ASSUME NEW q \in Procs \ {p} PROVE Resumes(q)'
  BY <1>0, <1>1, <1>2, CpuTimeStays, ResumesFrame DEF ContextInv, Current
<1> QED
  BY <1>0, <1>2, <1>3, <1>4, <1>5, AddressesProperties DEF ContextInv

(* preempt_running_process saves the registers of whom it stops.           *)
LEMMA PreemptsResumes ==
    ASSUME KernelInv, ContextInv, Preempts
    PROVE  ContextInv'
<1>0. /\ TypeOK /\ saved \in [Procs -> Registers] /\ NULL \notin Procs
      /\ cpu_ctx \in Registers
  BY KernelAssumption DEF KernelInv, TypeInv, ContextInv
<1>1. PICK p \in Procs :
        /\ p = running /\ resident[p] /\ running' = NULL
        /\ UNCHANGED <<resident, cpu_ctx, segments>>
        /\ saved' = [saved EXCEPT ![p] = Offsets(cpu_ctx, segments[p])]
  BY <1>0 DEF Preempts, Preempt, ShouldPreempt, Save, memory, TypeOK,
     KernelInv, Structure, OnlyResidentsCompete
<1>2. Quiet
  BY QuietSteps DEF Preempts
<1>3. segments[p] \in SegmentTable /\ Current(p) = cpu_ctx /\ Resumes(p)
  BY <1>0, <1>1 DEF ContextInv, Current, Resumes
<1> DEFINE left == Offsets(cpu_ctx, segments[p])
<1>4. /\ left \in Registers /\ PointsInto(left, segments[p])
      /\ left.pc_offset = cpu_ctx.pc_offset
  BY <1>0, <1>1, <1>3, OffsetsProperties DEF Resumes
<1>5. Current(p)' = left /\ saved' = [saved EXCEPT ![p] = left]
  BY <1>0, <1>1 DEF Current
<1> HIDE DEF left
<1>6. Resumes(p)'
  BY <1>1, <1>2, <1>3, <1>4, <1>5, CpuTimeStays DEF Resumes
<1>7. ASSUME NEW q \in Procs \ {p} PROVE Resumes(q)'
  BY <1>0, <1>1, <1>2, <1>5, CpuTimeStays, ResumesFrame DEF ContextInv, Current
<1> QED
  BY <1>0, <1>1, <1>4, <1>5, <1>6, <1>7 DEF ContextInv

(* One instruction, and growth: what the running process has at the end of *)
(* a tick of the CPU, for the three ways in which it may go on.            *)
LEMMA TickOfTheCpu ==
    ASSUME KernelInv, ContextInv, Cpu, NEW p \in Procs, p = running
    PROVE  /\ resident[p] /\ segments[p] \in SegmentTable /\ GrownSegments \in SegmentTable
           /\ Advanced \in Registers /\ PointsInto(Advanced, GrownSegments)
           /\ Advanced.pc_offset >= 0
           /\ Advanced.pc_offset * TICK = sched'[p].cpu
           /\ \A q \in Procs \ {p} : sched'[q].cpu = sched[q].cpu
<1>0. /\ TypeOK /\ cpu_ctx \in Registers /\ Resumes(p) /\ Current(p) = cpu_ctx
      /\ resident[p] /\ segments[p] \in SegmentTable
  BY DEF KernelInv, TypeInv, ContextInv, Structure, OnlyResidentsCompete, Current, Resumes
<1>1. /\ TICK \in Nat /\ sched[p].cpu \in Int /\ profile[p].burst \in Nat \ {0}
      /\ cpu_ctx.pc_offset \in Int /\ cpu_ctx.program_counter \in Int
  BY <1>0, BurstTypes DEF Registers
<1>2. /\ Ran[p].cpu = sched[p].cpu + TICK
      /\ \A q \in Procs \ {p} : Ran[q].cpu = sched[q].cpu + 0
  BY <1>0, RanTimes
<1>3. \A q \in Procs \ {p} : sched[q].cpu \in Int
  BY <1>0, BurstTypes
<1>4. /\ sched'[p].cpu = sched[p].cpu + TICK
      /\ \A q \in Procs \ {p} : sched'[q].cpu = sched[q].cpu
  BY <1>2, <1>3, CpuFields DEF HasRan
<1>5. /\ GrownSegments \in SegmentTable
      /\ GrownSegments.TEXT.start = segments[p].TEXT.start
      /\ GrownSegments.STACK.limit = segments[p].STACK.limit
  <2>1. Ran[p].cpu \in Int
    BY <1>1, <1>2
  <2> QED
    BY <1>0, <1>1, <2>1, GrowthKeepsEnds DEF GrownSegments
<1>6. /\ Advanced \in Registers
      /\ Advanced.program_counter = cpu_ctx.program_counter + 1
      /\ Advanced.pc_offset = cpu_ctx.pc_offset + 1
  <2> DEFINE counter == cpu_ctx.program_counter + 1
             offset  == cpu_ctx.pc_offset + 1
  <2>1. counter \in Int /\ offset \in Int
    BY <1>1
  <2>2. Advanced = [cpu_ctx EXCEPT !.program_counter = counter, !.pc_offset = offset]
    BY <1>0 DEF Advanced, Registers
  <2>3. counter = cpu_ctx.program_counter + 1 /\ offset = cpu_ctx.pc_offset + 1
    OBVIOUS
  <2> HIDE DEF counter, offset
  <2>4. /\ Advanced \in Registers
        /\ Advanced.program_counter = counter /\ Advanced.pc_offset = offset
    BY <1>0, <2>1, <2>2 DEF Registers
  <2> QED
    BY <2>3, <2>4
<1>7. segments[p].TEXT.start \in Int
  BY <1>0 DEF SegmentTable
<1>8. PointsInto(Advanced, GrownSegments) /\ Advanced.pc_offset >= 0
  BY <1>0, <1>1, <1>5, <1>6, <1>7 DEF Resumes, PointsInto
<1>9. Advanced.pc_offset * TICK = sched'[p].cpu
  <2>1. cpu_ctx.pc_offset * TICK = sched[p].cpu
    BY <1>0 DEF Resumes
  <2>2. (cpu_ctx.pc_offset + 1) * TICK = cpu_ctx.pc_offset * TICK + TICK
    BY <1>1
  <2> QED
    BY <1>4, <1>6, <2>1, <2>2
<1> QED
  BY <1>0, <1>4, <1>5, <1>6, <1>8, <1>9

(* tick_running_process, whatever its outcome.                             *)
LEMMA RunsResumes ==
    ASSUME KernelInv, ContextInv, Runs
    PROVE  ContextInv'
<1>0. /\ TypeOK /\ saved \in [Procs -> Registers] /\ NULL \notin Procs
      /\ segments \in [Procs -> SegmentTable \cup {NULL}] /\ Cpu
  BY KernelAssumption
  DEF KernelInv, TypeInv, ContextInv, Runs, RunsOn, LeavesCpu, EndsOnCpu, Cpu
<1>1. PICK p \in Procs : p = running
  BY <1>0, CpuCases
<1> DEFINE after == Advanced
           grown == GrownSegments
<1>2. /\ resident[p] /\ segments[p] \in SegmentTable /\ grown \in SegmentTable
      /\ after \in Registers /\ PointsInto(after, grown)
      /\ after.pc_offset >= 0
      /\ after.pc_offset * TICK = sched'[p].cpu
      /\ \A q \in Procs \ {p} : sched'[q].cpu = sched[q].cpu
  BY <1>0, <1>1, TickOfTheCpu
<1>3. cpu_ctx' = after /\ running' \in {p, NULL}
  BY <1>0, <1>1, CpuCases DEF Runs
<1> DEFINE kept == Offsets(after, grown)
<1>4. /\ kept \in Registers /\ PointsInto(kept, grown)
      /\ kept.pc_offset = after.pc_offset
  BY <1>2, OffsetsProperties
<1>5. /\ Offsets(kept, grown) \in Registers
      /\ Offsets(kept, grown).pc_offset = after.pc_offset
  BY <1>2, <1>4, OffsetsProperties
<1>6. GrownContext \in Registers
  <2> DEFINE offset == saved[p].sp_offset + segments[p].STACK.start - grown.STACK.start
  <2>1. offset \in Int
    BY <1>0, <1>2 DEF Registers, SegmentTable
  <2> HIDE DEF offset
  <2>2. [saved[p] EXCEPT !.sp_offset = offset] \in Registers
    BY <1>0, <2>1 DEF Registers
  <2>3. GrownContext = IF grown = segments[p] THEN saved[p]
                       ELSE Addresses([saved[p] EXCEPT !.sp_offset = offset], grown)
    BY <1>1 DEF GrownContext, offset
  <2> QED
    BY <1>0, <1>2, <2>2, <2>3, AddressesProperties
<1>7. ASSUME NEW context \in Registers, NEW table2 \in SegmentTable \cup {NULL},
             saved' = [saved EXCEPT ![p] = context],
             segments' = [segments EXCEPT ![p] = table2],
             \A q \in Procs \ {p} : resident'[q] = resident[q],
             Resumes(p)'
      PROVE  ContextInv'
  <2>1. ASSUME NEW q \in Procs \ {p} PROVE Resumes(q)'
    BY <1>0, <1>1, <1>2, <1>3, <1>7, ResumesFrame DEF ContextInv, Current
  <2> QED
    BY <1>0, <1>2, <1>3, <1>7, <2>1 DEF ContextInv
<1> HIDE DEF after, grown, kept
<1>8. CASE RunsOn
  <2>1. /\ saved' = [saved EXCEPT ![p] = GrownContext]
        /\ segments' = [segments EXCEPT ![p] = grown]
        /\ running' = p /\ UNCHANGED resident
    BY <1>1, <1>8 DEF RunsOn, CpuContinue, memory, grown
  <2>2. Current(p)' = after /\ segments'[p] = grown
    BY <1>0, <1>3, <2>1 DEF Current
  <2>3. Resumes(p)'
    BY <1>2, <2>1, <2>2 DEF Resumes
  <2> QED
    BY <1>2, <1>6, <1>7, <2>1, <2>3
<1>9. CASE LeavesCpu
  <2>1. /\ saved' = [saved EXCEPT ![p] = kept]
        /\ segments' = [segments EXCEPT ![p] = grown]
        /\ running' = NULL /\ UNCHANGED resident
    BY <1>1, <1>9 DEF LeavesCpu, CpuBlock, CpuQuantum, LeaveCpu, Save, memory,
       kept, after, grown
  <2>2. Current(p)' = kept /\ segments'[p] = grown
    BY <1>0, <2>1 DEF Current
  <2>3. Resumes(p)'
    BY <1>2, <1>4, <2>1, <2>2 DEF Resumes
  <2> QED
    BY <1>2, <1>4, <1>7, <2>1, <2>3
<1>10. CASE EndsOnCpu
  <2> DEFINE last == IF grown = NULL THEN kept ELSE Offsets(kept, grown)
  <2>1. /\ saved' = [saved EXCEPT ![p] = last]
        /\ segments' = [segments EXCEPT ![p] = NULL]
        /\ running' = NULL /\ resident' = [resident EXCEPT ![p] = FALSE]
    BY <1>1, <1>10 DEF EndsOnCpu, CpuFail, CpuTerminate, LeaveCpu, Finish, Unload,
       kept, after, grown
  <2>2. /\ last \in Registers /\ last.pc_offset = after.pc_offset
    BY <1>4, <1>5
  <2> HIDE DEF last
  <2>3. /\ Current(p)' = last /\ segments'[p] = NULL /\ ~resident'[p]
        /\ \A q \in Procs \ {p} : resident'[q] = resident[q]
    BY <1>0, <2>1 DEF Current, TypeOK
  <2>4. Resumes(p)'
    BY <1>2, <2>2, <2>3 DEF Resumes
  <2> QED
    BY <1>7, <2>1, <2>2, <2>3, <2>4
<1> QED
  BY <1>8, <1>9, <1>10 DEF Runs

(* The other steps move nobody, in memory and out.                         *)
LEMMA ElsewhereStays ==
    ASSUME KernelInv, Elsewhere
    PROVE  running' = running /\ UNCHANGED resident
<1>0. TypeOK
  BY DEF KernelInv, TypeInv
<1> USE DEF cpu, memory
<1>1. CASE Reject
  <2>1. PICK p \in Procs : p = Head(todo) /\ state[p] = "NEW"
    BY <1>1, HeadsOfWalks DEF Reject
  <2>2. ~resident[p]
    BY <2>1 DEF KernelInv, Structure, OnlyResidentsCompete
  <2> QED
    BY <1>0, <1>1, <2>1, <2>2 DEF Reject, Finish, TypeOK
<1>2. CASE SelectNext /\ running' = NULL
  BY <1>2 DEF SelectNext
<1>3. CASE Arrival \/ SkipSwapIn \/ MidTermDone \/ SkipJob \/ JobDone
  BY <1>3 DEF Arrival, BeginTick, Arrive, SkipRow, ArrivalDone, SkipSwapIn, MidTermDone,
     SkipJob, JobDone
<1>4. CASE \/ KeepRunning \/ StopSimulation \/ EndTick \/ SwitchTick \/ IdleTick
           \/ RunTick \/ DeviceWorks \/ IoComplete \/ TickDone \/ Stopped
  BY <1>4 DEF KeepRunning, StopSimulation, EndTick, SwitchTick, IdleTick, RunTick,
     StartTick, DeviceWorks, IoComplete, CompleteIo, AtDevice, TickDone, Stopped, vars
<1> QED
  BY <1>1, <1>2, <1>3, <1>4 DEF Elsewhere

(* The other steps leave every process where it is, in memory and out.     *)
LEMMA ElsewhereResumes ==
    ASSUME KernelInv, ContextInv, Elsewhere
    PROVE  ContextInv'
<1>0. TypeOK
  BY DEF KernelInv, TypeInv
<1>1. Quiet \/ GetsCpu \/ Ticks \/ Cancels
  BY QuietSteps, SelectSteps, TickSteps, CancelSteps DEF Elsewhere, Swapper
<1>2. running' = running /\ UNCHANGED resident
  BY ElsewhereStays
<1>3. UNCHANGED contextVars
  BY DEF Elsewhere
<1>4. ASSUME NEW q \in Procs PROVE Resumes(q)'
  BY <1>1, <1>2, <1>3, CpuTimeStays, ResumesFrame DEF ContextInv, Current, contextVars
<1> QED
  BY <1>3, <1>4 DEF ContextInv, contextVars

-----------------------------------------------------------------------------

(* The context adds no step to the kernel and allows none it does not have.*)
LEMMA ContextStepsKernel == ContextNext => Next
  BY DEF ContextNext, Loads, Evicts, CancelsRequest, Dispatches, Preempts, Runs, RunsOn,
     LeavesCpu, EndsOnCpu, Elsewhere, Next, Swapper, Admission, Decision, Device, Cpu

(* Every step keeps the registers with their process.                      *)
LEMMA StepContext ==
    KernelInv /\ MemoryMatchesResidence /\ ContextInv
        /\ [ContextNext]_<<vars, contextVars>>
    => ContextInv'
<1> SUFFICES ASSUME KernelInv, MemoryMatchesResidence, ContextInv,
                    [ContextNext]_<<vars, contextVars>>
             PROVE  ContextInv'
  OBVIOUS
<1>1. CASE ContextNext
  <2>1. MemoryMatchesResidence'
    BY <1>1, ContextStepsKernel, StepMemory
  <2> QED
    BY <1>1, <2>1, LoadsResumes, EvictsResumes, DispatchesResumes, PreemptsResumes,
       RunsResumes, ElsewhereResumes
    DEF ContextNext
<1>2. CASE UNCHANGED <<vars, contextVars>>
  BY <1>2 DEF ContextInv, Resumes, Current, vars, contextVars, cpu, pcb, memory
<1> QED
  BY <1>1, <1>2

(* Before the first tick nobody has run or is in memory.                   *)
LEMMA InitContext == ContextInit => ContextInv
  BY KernelAssumption
  DEF ContextInit, ContextInv, Init, Initially, Resumes, Current, Registers

(* A process goes on where it stopped, whoever used the registers of the   *)
(* CPU meanwhile and wherever in memory it was loaded again.               *)
THEOREM GoesOnWhereItStopped == ContextSpec => []ResumesWhereItStopped
<1>1. ContextInit => KernelInv /\ MemoryMatchesResidence /\ ContextInv
  BY InitContext, InitKernelInv, InitMemory, KernelAssumption
  DEF ContextInit, Init, SimulatorState
<1>2. [ContextNext]_<<vars, contextVars>> => [Next]_vars
  BY ContextStepsKernel
<1>3. ContextInv => ResumesWhereItStopped
  BY DEF ContextInv, Resumes, Current, PointsInto, ResumesWhereItStopped
<1> QED
  BY <1>1, <1>2, <1>3, StepKernelInv, StepMemory, StepContext, PTL DEF ContextSpec

-----------------------------------------------------------------------------
(* The segments of the processes in memory.                                *)

Large(p) == profile[p].blocks >= Cardinality(SegmentType)

(* The segments of p fill the memory it owns.                              *)
Housed(p) ==
    resident[p] =>
        /\ OwnedBy(cells, p) = segments[p].TEXT.start .. segments[p].STACK.limit - 1
        /\ Even(p) => InLine(segments[p]) /\ (Large(p) => Level(segments[p]))

Supplied(p) ==
    Even(p) =>
        Used(segments[p]) >= Target(segments[p], sched[p].cpu, profile[p].burst)

(* The inductive invariant: as SegmentsInOwnMemory, but in terms of the    *)
(* borders of the segments, and level from the beginning.                  *)
SegmentInv ==
    /\ \A p \in Procs : Housed(p)
    /\ pc = "mid3" /\ running # NULL => Supplied(running)

(* Whoever is in memory after a step was there before, with the same       *)
(* blocks, or has just been let in.                                        *)
LEMMA OwnersStay ==
    ASSUME KernelInv, MemoryMatchesResidence, Next, NEW q \in Procs, resident'[q]
    PROVE  \/ resident[q] /\ OwnedBy(cells', q) = OwnedBy(cells, q)
           \/ ~resident[q] /\ (SwapIn \/ Admit) /\ q = Head(todo)
<1>1. TypeOK /\ Structure /\ resident \in [Procs -> BOOLEAN]
  BY DEF KernelInv, TypeInv, TypeOK
<1> DEFINE Stays == resident[q] /\ OwnedBy(cells', q) = OwnedBy(cells, q)
<1>2. ASSUME UNCHANGED <<resident, cells>> PROVE Stays
  BY <1>2
<1>3. ASSUME NEW p \in Procs, cells' = Release(cells, p),
             resident' = [resident EXCEPT ![p] = FALSE]
      PROVE  Stays
  <2>1. q # p /\ resident[q]
    BY <1>1, <1>3
  <2>2. \A o \in Procs \ {p} : OwnedBy(cells', o) = OwnedBy(cells, o)
    BY <1>1, <1>3, ReleaseProperties, SMTT(60) DEF TypeOK
  <2> QED
    BY <2>1, <2>2
<1>4. ASSUME NEW p \in Procs, ~resident[p], resident' = [resident EXCEPT ![p] = TRUE],
             NEW h \in HoleFor(p), cells' = Claim(cells, h.start, profile[p].blocks, p)
      PROVE  Stays \/ (~resident[q] /\ q = p)
  <2>1. /\ OwnedBy(cells, p) = {} /\ profile[p].blocks \in Nat \ {0}
        /\ cells \in [Blocks -> Procs \cup {NULL}]
    BY <1>1, <1>4, FieldTypes DEF MemoryMatchesResidence, TypeOK
  <2>2. \A o \in Procs \ {p} : OwnedBy(cells', o) = OwnedBy(cells, o)
    BY <1>4, <2>1, ClaimProperties DEF HoleFor
  <2> QED
    BY <1>1, <1>4, <2>2
<1> HIDE DEF Stays
<1> SUFFICES Stays \/ (~resident[q] /\ (SwapIn \/ Admit) /\ q = Head(todo))
  BY DEF Stays
<1> USE DEF memory
<1>5. CASE Arrival \/ SkipSwapIn \/ MidTermDone \/ SkipJob \/ JobDone \/ Decision
  BY <1>2, <1>5 DEF Arrival, BeginTick, Arrive, SkipRow, ArrivalDone, SkipSwapIn,
     MidTermDone, SkipJob, JobDone, Decision, Preempt, KeepRunning, StopSimulation,
     EndTick, SelectNext, SwitchTick, IdleTick, RunTick, StartTick
<1>6. CASE \/ DeviceWorks \/ IoComplete \/ SwitchDone \/ TickDone
           \/ CpuBlock \/ CpuQuantum \/ CpuContinue \/ Stopped
  BY <1>2, <1>6 DEF DeviceWorks, IoComplete, CompleteIo, AtDevice, SwitchDone, TickDone,
     CpuBlock, CpuQuantum, CpuContinue, Stopped, vars
<1>7. CASE SwapIn
  <2> DEFINE p == Head(todo)
  <2>1. /\ ~resident[p] /\ resident' = [resident EXCEPT ![p] = TRUE]
        /\ \E h \in HoleFor(p) : cells' = Claim(cells, h.start, profile[p].blocks, p)
    BY <1>7 DEF SwapIn, Waits
  <2>2. p \in Procs
    BY <1>1, <1>7, WalkProperties DEF SwapIn, TypeOK
  <2> HIDE DEF p
  <2>3. Stays \/ (~resident[q] /\ q = p)
    BY <1>4, <2>1, <2>2
  <2> QED
    BY <1>7, <2>3 DEF p
<1>8. CASE Admit
  <2> DEFINE p == Head(todo)
  <2>1. /\ resident' = [resident EXCEPT ![p] = TRUE]
        /\ \E h \in HoleFor(p) : cells' = Claim(cells, h.start, profile[p].blocks, p)
    BY <1>8 DEF Admit
  <2>2. p \in Procs /\ ~resident[p]
    BY <1>1, <1>8, HeadsOfWalks DEF Admit, Structure, OnlyResidentsCompete
  <2> HIDE DEF p
  <2>3. Stays \/ (~resident[q] /\ q = p)
    BY <1>4, <2>1, <2>2
  <2> QED
    BY <1>8, <2>3 DEF p
<1>9. CASE SwapOut
  BY <1>3, <1>9 DEF SwapOut, Candidates
<1>10. CASE Reject
  <2>1. Head(todo) \in Procs
    BY <1>1, <1>10, WalkProperties DEF Reject, TypeOK
  <2> QED
    BY <1>3, <1>10, <2>1 DEF Reject, Finish
<1>11. CASE KeyboardCancel
  <2>1. CompleteIo /\ Finish(Requester, TRUE, sched)
    BY <1>11 DEF KeyboardCancel, CompleteIo
  <2>2. Requester \in Procs
    BY <2>1, ServedRequest
  <2> QED
    BY <1>3, <2>1, <2>2 DEF Finish
<1>12. CASE CpuFail \/ CpuTerminate
  <2>1. running \in Procs
    BY <1>1, <1>12 DEF KernelInv, TypeInv, TypeOK, TickHasOwner, CpuFail, CpuTerminate, Run
  <2> QED
    BY <1>3, <1>12, <2>1 DEF CpuFail, CpuTerminate, Run, Finish
<1> QED
  BY <1>5, <1>6, <1>7, <1>8, <1>9, <1>10, <1>11, <1>12
  DEF Next, Swapper, Admission, Device, Cpu

(* Only the CPU's tick, and the walk that follows it, are followed by that *)
(* walk; the walk changes neither who runs nor any time.                   *)
LEMMA ComesToLastWalk ==
    ASSUME ContextNext, pc' = "mid3"
    PROVE  Runs \/ (~Runs /\ pc = "mid3" /\ running' = running /\ sched' = sched)
<1> DEFINE Walks == pc = "mid3" /\ running' = running /\ sched' = sched
<1>1. pc = "mid3" => ~Runs
  BY DEF Runs, RunsOn, LeavesCpu, EndsOnCpu, CpuContinue, CpuBlock, CpuQuantum,
     CpuFail, CpuTerminate, Run
<1> SUFFICES ASSUME ~Runs PROVE Walks
  BY <1>1
<1> USE DEF Goto
<1>2. CASE Swapper
  <2>1. pc \in MidTerm /\ running' = running /\ sched' = sched
    BY <1>2 DEF Swapper, SwapIn, SkipSwapIn, SwapOut, MidTermDone, cpu, pcb
  <2>2. pc = "mid3"
    BY <1>2, <2>1 DEF Swapper, SwapIn, SkipSwapIn, SwapOut, MidTermDone, MidTerm
  <2> QED
    BY <2>1, <2>2
<1>3. CASE Admission
  BY <1>3 DEF Admission, Reject, Admit, SkipJob, JobDone, Job
<1>4. CASE Arrival
  BY <1>4 DEF Arrival, BeginTick, Arrive, SkipRow, ArrivalDone
<1>5. CASE Stopped
  <2>1. pc' = pc /\ pc = "idle"
    BY <1>5 DEF Stopped, vars, walk
  <2> QED
    BY <2>1
<1>6. CASE Decision
  BY <1>6 DEF Decision, Preempt, KeepRunning, StopSimulation, EndTick, SelectNext,
     SwitchTick, IdleTick, RunTick, StartTick
<1>7. CASE Device
  BY <1>7 DEF Device, DeviceWorks, IoComplete, KeyboardCancel, CompleteIo, AtDevice,
     BackgroundDone, Background, SwitchDone, TickDone
<1> HIDE DEF Walks
<1>8. Loads \/ Evicts \/ CancelsRequest \/ Dispatches \/ Preempts \/ Elsewhere
  BY DEF ContextNext
<1>9. Swapper \/ Admission \/ Arrival \/ Stopped \/ Decision \/ Device
  BY <1>8 DEF Loads, Evicts, CancelsRequest, Dispatches, Preempts, Elsewhere, Swapper,
     Admission, Decision, Device
<1> QED
  BY <1>2, <1>3, <1>4, <1>5, <1>6, <1>7, <1>9

(* Whoever is let in gets segments.                                        *)
LEMMA LetInWithSegments ==
    ASSUME KernelInv, ContextInv, ContextNext, NEW q \in Procs, ~resident[q], resident'[q]
    PROVE  segments'[q] = Layout(Min(OwnedBy(cells', q)), profile[q].blocks, Shares[q])
<1>0. /\ TypeOK /\ resident \in [Procs -> BOOLEAN]
      /\ segments \in [Procs -> SegmentTable \cup {NULL}]
  BY DEF KernelInv, TypeInv, TypeOK, ContextInv
<1>1. CASE Loads
  <2>1. resident' = [resident EXCEPT ![Head(todo)] = TRUE] /\ Load(Head(todo))
    BY <1>1 DEF Loads, SwapIn, Admit
  <2>2. q = Head(todo)
    BY <1>0, <2>1
  <2> QED
    BY <1>0, <2>1, <2>2 DEF Load
<1>2. CASE Evicts
  BY <1>0, <1>2 DEF Evicts, SwapOut
<1>3. CASE CancelsRequest
  BY <1>0, <1>3 DEF CancelsRequest, KeyboardCancel, Finish
<1>4. CASE Dispatches \/ Preempts
  BY <1>4 DEF Dispatches, SelectNext, SwitchDone, Preempts, Preempt, memory
<1>5. CASE Runs
  BY <1>0, <1>5 DEF Runs, RunsOn, LeavesCpu, EndsOnCpu, CpuContinue, CpuBlock, CpuQuantum,
     CpuFail, CpuTerminate, Finish, memory
<1>6. CASE Elsewhere
  BY <1>6, ElsewhereStays
<1> QED
  BY <1>1, <1>2, <1>3, <1>4, <1>5, <1>6 DEF ContextNext

(* Segments change hands with the memory only, or grow on the CPU.         *)
LEMMA SegmentsStay ==
    ASSUME KernelInv, ContextInv, ContextNext, NEW q \in Procs,
           resident[q], resident'[q], ~(Runs /\ q = running)
    PROVE  segments'[q] = segments[q]
<1>0. /\ TypeOK /\ segments \in [Procs -> SegmentTable \cup {NULL}]
  BY DEF KernelInv, TypeInv, ContextInv
<1>1. CASE Loads
  <2>1. ~resident[Head(todo)]
    BY <1>1, HeadsOfWalks
    DEF Loads, SwapIn, Waits, Admit, KernelInv, Structure, OnlyResidentsCompete
  <2>2. q # Head(todo)
    BY <2>1
  <2> QED
    BY <1>0, <1>1, <2>2 DEF Loads, Load
<1>2. CASE Evicts
  BY <1>0, <1>2 DEF Evicts, Unload
<1>3. CASE CancelsRequest
  <2>1. resident' = [resident EXCEPT ![Requester] = FALSE]
    BY <1>3 DEF CancelsRequest, KeyboardCancel, Finish
  <2>2. q # Requester
    BY <1>0, <2>1 DEF TypeOK
  <2> QED
    BY <1>0, <1>3, <2>2 DEF CancelsRequest, Unload
<1>4. CASE Dispatches \/ Preempts \/ Elsewhere
  BY <1>4 DEF Dispatches, Restore, Preempts, Elsewhere, contextVars
<1>5. CASE Runs
  <2>1. q # running
    BY <1>5
  <2> QED
    BY <1>0, <1>5, <2>1 DEF Runs, RunsOn, LeavesCpu, EndsOnCpu, Unload
<1> QED
  BY <1>1, <1>2, <1>3, <1>4, <1>5 DEF ContextNext

(* The least of consecutive numbers is the first.                          *)
LEMMA FirstOfInterval ==
    ASSUME NEW first \in Nat, NEW n \in Nat \ {0}
    PROVE  Min(first .. first + n - 1) = first
<1> DEFINE S == first .. first + n - 1
<1>1. first \in S /\ \A b \in S : b \in Nat /\ first =< b
  OBVIOUS
<1>2. Min(S) \in S /\ \A b \in S : Min(S) =< b
  BY <1>1 DEF Min
<1> HIDE DEF Min
<1>3. Min(S) \in Nat /\ first =< Min(S) /\ Min(S) =< first
  BY <1>1, <1>2
<1> QED
  BY <1>3


(* Whoever is in memory after a step has its segments in the memory it     *)
(* owns: laid out there, grown there or left there.                        *)
LEMMA StepHoused ==
    ASSUME KernelInv, MemoryMatchesResidence, MemoryMatchesResidence', ContextInv,
           SegmentInv, ContextNext, NEW q \in Procs
    PROVE  Housed(q)'
<1>0. /\ TypeOK /\ Housed(q) /\ Next /\ profile[q].blocks \in Nat \ {0}
      /\ segments \in [Procs -> SegmentTable \cup {NULL}]
  BY ContextStepsKernel, FieldTypes DEF KernelInv, TypeInv, SegmentInv, ContextInv
<1>1. profile' = profile
  BY <1>0, ProfileStays
<1> DEFINE room == Sum(InitialSizes(profile[q].blocks, Shares[q])) =< profile[q].blocks
<1>2. /\ Even(q) <=> room
      /\ Even(q)' <=> room
      /\ Large(q)' <=> Large(q)
  BY <1>1 DEF Even, Sum, Large
<1> HIDE DEF room
<1> SUFFICES ASSUME resident'[q]
             PROVE  /\ OwnedBy(cells', q) =
                          segments'[q].TEXT.start .. segments'[q].STACK.limit - 1
                    /\ room => InLine(segments'[q]) /\ (Large(q) => Level(segments'[q]))
  BY <1>2 DEF Housed, InLine, Level
<1>3. \/ resident[q] /\ OwnedBy(cells', q) = OwnedBy(cells, q)
      \/ ~resident[q] /\ (SwapIn \/ Admit) /\ q = Head(todo)
  BY <1>0, OwnersStay
<1>4. CASE resident[q] /\ ~(Runs /\ q = running)
  <2>1. segments'[q] = segments[q]
    BY <1>4, SegmentsStay
  <2> QED
    BY <1>0, <1>2, <1>3, <1>4, <2>1 DEF Housed
<1>5. CASE resident[q] /\ Runs /\ q = running
  <2> DEFINE s == segments[q]
             cpuTime == Ran[q].cpu
             burst == profile[q].burst
  <2>1. Cpu /\ segments'[q] = Grown(s, cpuTime, burst)
    <3>1. CASE RunsOn \/ LeavesCpu
      BY <1>0, <1>5, <3>1 DEF RunsOn, LeavesCpu, Save, GrownSegments, Cpu
    <3>2. CASE EndsOnCpu
      BY <1>0, <1>5, <3>2 DEF EndsOnCpu, CpuFail, CpuTerminate, Finish, TypeOK
    <3> QED
      BY <1>5, <3>1, <3>2 DEF Runs
  <2>2. s \in SegmentTable /\ cpuTime \in Int /\ burst \in Nat \ {0}
    <3>1. s \in SegmentTable
      BY <1>5 DEF ContextInv, Resumes
    <3>2. cpuTime = sched[q].cpu + TICK /\ sched[q].cpu \in Int /\ TICK \in Int
      BY <1>0, <1>5, RanTimes, BurstTypes
    <3> QED
      BY <1>0, <3>1, <3>2, BurstTypes
  <2> HIDE DEF s, cpuTime, burst
  <2>3. /\ segments'[q].TEXT.start = s.TEXT.start
        /\ segments'[q].STACK.limit = s.STACK.limit
    BY <2>1, <2>2, GrowthKeepsEnds
  <2>4. InLine(s) => InLine(segments'[q]) /\ (Level(s) => Level(segments'[q]))
    BY <2>1, <2>2, GrowthProperties
  <2> QED
    BY <1>0, <1>2, <1>3, <1>5, <2>3, <2>4 DEF Housed, s
<1>6. CASE ~resident[q]
  <2> DEFINE n == profile[q].blocks
  <2>1. /\ segments'[q] = Layout(Min(OwnedBy(cells', q)), n, Shares[q])
        /\ Shares[q] \in Share
    BY <1>6, ContextAssumption, LetInWithSegments
  <2>2. PICK first \in Blocks : OwnedBy(cells', q) = first .. first + n - 1
    BY <1>1 DEF MemoryMatchesResidence
  <2>3. Min(OwnedBy(cells', q)) = first /\ first \in Nat
    <3>1. first \in Nat /\ n \in Nat \ {0}
      BY <1>0, TotalBlocksAssumption DEF Blocks
    <3> HIDE DEF n
    <3>2. Min(first .. first + n - 1) = first
      BY <3>1, FirstOfInterval
    <3> QED
      BY <2>2, <3>1, <3>2
  <2> DEFINE s == Layout(first, n, Shares[q])
  <2>4. /\ s.TEXT.start = first /\ s.STACK.limit = first + n
        /\ room => InLine(s) /\ (Large(q) => Level(s))
    BY <1>0, <2>1, <2>3, LayoutProperties DEF room, Large
  <2>5. segments'[q] = s
    BY <2>1, <2>3
  <2>6. n \in Nat \ {0}
    BY <1>0
  <2> HIDE DEF s, n
  <2>7. OwnedBy(cells', q) = s.TEXT.start .. s.STACK.limit - 1
    BY <2>2, <2>3, <2>4, <2>6
  <2> QED
    BY <2>4, <2>5, <2>7
<1> QED
  BY <1>4, <1>5, <1>6

(* Whoever keeps the CPU after a tick has grown in it, and the walk that   *)
(* follows leaves it alone.                                                *)
LEMMA StepSupplied ==
    ASSUME KernelInv, KernelInv', MemoryMatchesResidence, ContextInv, SegmentInv,
           ContextNext, pc' = "mid3", running' # NULL
    PROVE  Supplied(running)'
<1>0. /\ TypeOK /\ Next /\ profile' = profile /\ running' \in Procs
      /\ segments \in [Procs -> SegmentTable \cup {NULL}]
  BY ContextStepsKernel, ProfileStays DEF KernelInv, TypeInv, TypeOK, ContextInv
<1>1. PICK p \in Procs : p = running'
  BY <1>0
<1>2. resident'[p]
  BY <1>1 DEF KernelInv, Structure, OnlyResidentsCompete
<1>3. Even(p)' <=> Even(p)
  BY <1>0 DEF Even
<1> SUFFICES ASSUME Even(p)
             PROVE  Used(segments'[p]) >=
                       Target(segments'[p], sched'[p].cpu, profile[p].burst)
  BY <1>0, <1>1, <1>3 DEF Supplied, Used, Size, Target
<1>4. Runs \/ (~Runs /\ pc = "mid3" /\ running' = running /\ sched' = sched)
  BY ComesToLastWalk
<1>5. CASE ~Runs /\ pc = "mid3" /\ running' = running /\ sched' = sched
  <2>1. resident[p] /\ Supplied(p) /\ p = running
    BY <1>0, <1>1, <1>5 DEF KernelInv, Structure, OnlyResidentsCompete, SegmentInv
  <2>2. segments'[p] = segments[p]
    BY <1>2, <1>5, <2>1, SegmentsStay
  <2> QED
    BY <1>5, <2>1, <2>2 DEF Supplied
<1>6. CASE Runs
  <2>1. RunsOn /\ Cpu /\ p = running
    BY <1>1, <1>6 DEF Runs, RunsOn, LeavesCpu, EndsOnCpu, CpuContinue, CpuBlock,
       CpuQuantum, CpuFail, CpuTerminate, LeaveCpu, Cpu
  <2> DEFINE s == segments[p]
             cpuTime == Ran[p].cpu
             burst == profile[p].burst
  <2>2. /\ segments'[p] = Grown(s, cpuTime, burst) /\ sched'[p].cpu = cpuTime
    BY <1>0, <2>1 DEF RunsOn, GrownSegments, CpuContinue
  <2>3. resident[p] /\ Housed(p)
    BY <1>6, <2>1 DEF KernelInv, Structure, OnlyResidentsCompete, SegmentInv
  <2>4. s \in SegmentTable /\ InLine(s)
    BY <2>3 DEF ContextInv, Resumes, Housed
  <2>5. cpuTime \in Int /\ burst \in Nat \ {0}
    <3>1. cpuTime = sched[p].cpu + TICK /\ sched[p].cpu \in Int /\ TICK \in Int
      BY <1>0, <1>6, <2>1, RanTimes, BurstTypes
    <3> QED
      BY <1>0, <3>1, BurstTypes
  <2> HIDE DEF s, cpuTime, burst
  <2>6. Used(Grown(s, cpuTime, burst)) >= Target(Grown(s, cpuTime, burst), cpuTime, burst)
    BY <2>4, <2>5, GrowthProperties
  <2> QED
    BY <2>2, <2>6 DEF burst
<1> QED
  BY <1>4, <1>5, <1>6

(* Every step keeps the segments in the memory of their process.           *)
LEMMA StepSegments ==
    KernelInv /\ MemoryMatchesResidence /\ ContextInv /\ SegmentInv
        /\ [ContextNext]_<<vars, contextVars>>
    => SegmentInv'
<1> SUFFICES ASSUME KernelInv, MemoryMatchesResidence, ContextInv, SegmentInv,
                    [ContextNext]_<<vars, contextVars>>
             PROVE  SegmentInv'
  OBVIOUS
<1>1. CASE ContextNext
  <2>1. KernelInv' /\ MemoryMatchesResidence'
    BY <1>1, ContextStepsKernel, StepKernelInv, StepMemory
  <2>2. \A q \in Procs : Housed(q)'
    BY <1>1, <2>1, StepHoused
  <2>3. pc' = "mid3" /\ running' # NULL => Supplied(running)'
    BY <1>1, <2>1, StepSupplied
  <2> QED
    BY <2>2, <2>3 DEF SegmentInv
<1>2. CASE UNCHANGED <<vars, contextVars>>
  <2>1. UNCHANGED <<pc, running, resident, cells, segments, profile, sched>>
    BY <1>2 DEF vars, contextVars, cpu, pcb, memory, setup, walk
  <2>2. \A p \in Procs : Housed(p)'
    BY <2>1 DEF SegmentInv, Housed, Even, Large
  <2>3. pc' = "mid3" /\ running' # NULL => Supplied(running)'
    BY <2>1 DEF SegmentInv, Supplied, Even
  <2> QED
    BY <2>2, <2>3 DEF SegmentInv
<1> QED
  BY <1>1, <1>2

(* Segments that follow each other share no block and leave none outside.  *)
LEMMA InLineIsApart ==
    ASSUME NEW s \in SegmentTable, InLine(s)
    PROVE  LET blocksOf(type) == s[type].start .. s[type].limit - 1
           IN  /\ \A type \in SegmentType : Size(s[type]) >= 0
               /\ \A type \in SegmentType :
                     blocksOf(type) \subseteq s.TEXT.start .. s.STACK.limit - 1
               /\ \A t1, t2 \in SegmentType :
                     t1 # t2 => blocksOf(t1) \cap blocksOf(t2) = {}
<1> DEFINE from(type) == s[type].start
           to(type) == s[type].limit
<1>1. \A type \in SegmentType : from(type) \in Int /\ to(type) \in Int
  BY DEF SegmentTable, SegmentType
<1>2. \A type \in SegmentType : /\ from("TEXT") =< from(type) /\ from(type) =< to(type)
                                /\ to(type) =< to("STACK")
  BY <1>1 DEF InLine, SegmentType
<1>3. \A t1, t2 \in SegmentType : t1 # t2 => to(t1) =< from(t2) \/ to(t2) =< from(t1)
  BY <1>1 DEF InLine, SegmentType
<1>4. "TEXT" \in SegmentType /\ "STACK" \in SegmentType
  BY DEF SegmentType
<1>5. /\ \A type \in SegmentType : Size(s[type]) = to(type) - from(type)
      /\ s.TEXT.start = from("TEXT") /\ s.STACK.limit = to("STACK")
  BY DEF Size
<1> HIDE DEF from, to
<1>6. \A type \in SegmentType : Size(s[type]) >= 0
  BY <1>1, <1>2, <1>5
<1>7. \A type \in SegmentType :
         from(type) .. to(type) - 1 \subseteq from("TEXT") .. to("STACK") - 1
  BY <1>1, <1>2, <1>4
<1>8. \A t1, t2 \in SegmentType :
         t1 # t2 => (from(t1) .. to(t1) - 1) \cap (from(t2) .. to(t2) - 1) = {}
  BY <1>1, <1>3
<1> QED
  BY <1>6, <1>7, <1>8 DEF from, to

(* No segments are not some segments.                                      *)
LEMMA NullIsNoTable == NULL \notin SegmentTable
<1> SUFFICES ASSUME NULL \in SegmentTable PROVE NULL \in [SegmentType -> Segment]
  BY ContextAssumption
<1> QED
  BY DEF SegmentTable, SegmentType, Segment

(* The segments of a process stay inside the memory it owns and apart,     *)
(* grow with its progress also after it lost them in a swap, and share the *)
(* growth evenly, as the loop of the code does block by block.             *)
THEOREM SegmentsAreHoused == ContextSpec => []SegmentsFollowProcess
<1>1. ContextInit => KernelInv /\ MemoryMatchesResidence /\ ContextInv /\ SegmentInv
  <2>1. ContextInit => KernelInv /\ MemoryMatchesResidence /\ ContextInv
    BY InitContext, InitKernelInv, InitMemory, KernelAssumption
    DEF ContextInit, Init, SimulatorState
  <2>2. ContextInit => pc # "mid3" /\ \A p \in Procs : ~resident[p]
    BY DEF ContextInit, Init, Initially
  <2> QED
    BY <2>1, <2>2 DEF SegmentInv, Housed
<1>2. [ContextNext]_<<vars, contextVars>> => [Next]_vars
  BY ContextStepsKernel
<1>3. KernelInv /\ ContextInv /\ SegmentInv => SegmentsFollowProcess
  <2> SUFFICES ASSUME KernelInv, ContextInv, SegmentInv PROVE SegmentsFollowProcess
    OBVIOUS
  <2>0. TypeOK /\ \A p \in Procs : Resumes(p) /\ Housed(p)
    BY DEF KernelInv, TypeInv, ContextInv, SegmentInv
  <2>1. SegmentsInOwnMemory
    <3> SUFFICES ASSUME NEW p \in Procs
                 PROVE  /\ resident[p] <=> segments[p] # NULL
                        /\ resident[p] /\ Even(p) =>
                           LET s == segments[p]
                               blocksOf(type) == s[type].start .. s[type].limit - 1
                           IN  /\ \A type \in SegmentType : Size(s[type]) >= 0
                               /\ \A type \in SegmentType :
                                     blocksOf(type) \subseteq OwnedBy(cells, p)
                               /\ \A t1, t2 \in SegmentType :
                                     t1 # t2 => blocksOf(t1) \cap blocksOf(t2) = {}
      BY DEF SegmentsInOwnMemory
    <3>1. resident[p] <=> segments[p] # NULL
      BY <2>0, NullIsNoTable DEF Resumes
    <3>2. CASE resident[p] /\ Even(p)
      <4>1. /\ segments[p] \in SegmentTable /\ InLine(segments[p])
            /\ OwnedBy(cells, p) =
                  segments[p].TEXT.start .. segments[p].STACK.limit - 1
        BY <2>0, <3>2 DEF Resumes, Housed
      <4> QED
        BY <3>1, <4>1, InLineIsApart
    <3> QED
      BY <3>1, <3>2
  <2>2. DynamicMemoryFollowsProgress
    <3> SUFFICES ASSUME pc = "mid3", running # NULL, Even(running)
                 PROVE  /\ Used(segments[running]) >=
                              Target(segments[running], sched[running].cpu,
                                     profile[running].burst)
                        /\ Large(running) => Level(segments[running])
      BY DEF DynamicMemoryFollowsProgress, Large, Level
    <3>1. Supplied(running)
      BY DEF SegmentInv
    <3>2. running \in Procs /\ resident[running]
      BY <2>0 DEF TypeOK, KernelInv, Structure, OnlyResidentsCompete
    <3> QED
      BY <2>0, <3>1, <3>2 DEF Supplied, Housed
  <2>3. GrowthIsTheLoop
    <3> SUFFICES ASSUME pc = "cpu"
                 PROVE  GrownSegments = GrownByLoop(segments[running], Ran[running].cpu,
                                                    profile[running].burst)
      BY DEF GrowthIsTheLoop
    <3>1. running \in Procs /\ segments[running] \in SegmentTable
      BY <2>0 DEF TypeOK, KernelInv, TypeInv, TickHasOwner, Structure,
         OnlyResidentsCompete, Resumes
    <3>2. profile[running].burst \in Nat \ {0} /\ Ran[running].cpu \in Int
      <4>1. /\ Ran[running].cpu = sched[running].cpu + TICK
            /\ sched[running].cpu \in Int /\ TICK \in Int
        BY <2>0, <3>1, RanTimes, BurstTypes
      <4> QED
        BY <2>0, <3>1, <4>1, BurstTypes
    <3> QED
      BY <3>1, <3>2, LoopGrowsAlike DEF GrownSegments
  <2> QED
    BY <2>1, <2>2, <2>3 DEF SegmentsFollowProcess
<1> QED
  BY <1>1, <1>2, <1>3, StepKernelInv, StepMemory, StepContext, StepSegments, PTL
  DEF ContextSpec
=============================================================================
