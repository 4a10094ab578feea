------------------------------ MODULE Segments ------------------------------
(***************************************************************************)
(* The memory of a process, divided into segments: memory_layout_segments  *)
(* and memory_tick_dynamic_segments of src/simulator/memory.c.  A segment  *)
(* is a record of its first block and the block after its last; how much   *)
(* of its last block is wasted is left out.                                *)
(***************************************************************************)
EXTENDS Integers, Sequences, FiniteSetsExt, SequencesExt

(* A definition whose comment begins with "Mutant" is not part of the      *)
(* model: it is a plausible mistake in the definition that follows it.     *)

CONSTANT BSS_PERCENT_OF_DATA

ASSUME SegmentsAssumption == BSS_PERCENT_OF_DATA \in 0 .. 100

(* Percentages of a process, as ADD validates them.                        *)
Share ==
    {s \in [text : 1 .. 98, data : 1 .. 98, dynamic : 1 .. 98] :
        s.text + s.data + s.dynamic = 100}

SegmentType == {"TEXT", "DATA", "BSS", "HEAP", "STACK"}

Segment == [start : Int, limit : Int]
Size(segment) == segment.limit - segment.start
AtLeast(least, n) == Max({least, n})

(* Blocks of each segment at first; the rest of the dynamic part is a gap  *)
(* between HEAP and STACK.  Each minimum may take more than its share.     *)
InitialSizes(total, share) ==
    LET text == AtLeast(1, (total * share.text) \div 100)
        area == AtLeast(2, (total * share.data) \div 100)
        bss == Min({AtLeast(1, (area * BSS_PERCENT_OF_DATA) \div 100), area - 1})
        dynamic == AtLeast(2, total - text - area)
        initial == AtLeast(2, dynamic \div 2)
        heap == AtLeast(1, initial \div 2)
        one(i) == IF i =< total THEN 1 ELSE 0
    IN  IF total < Cardinality(SegmentType)
        THEN [TEXT |-> one(1), DATA |-> one(2), BSS |-> one(3),
              HEAP |-> one(4), STACK |-> one(5)]
        ELSE [TEXT |-> text, DATA |-> area - bss, BSS |-> bss,
              HEAP |-> heap, STACK |-> initial - heap]

(* memory_layout_segments for the blocks first .. first + total - 1: STACK *)
(* is at the end, the others follow each other from the beginning.         *)
Layout(first, total, share) ==
    LET n == InitialSizes(total, share)
        limit == first + total
        data == first + n.TEXT
        bss == data + n.DATA
        heap == bss + n.BSS
        stack == AtLeast(heap + n.HEAP, limit - n.STACK)
    IN  [TEXT |-> [start |-> first, limit |-> data],
         DATA |-> [start |-> data, limit |-> bss],
         BSS |-> [start |-> bss, limit |-> heap],
         HEAP |-> [start |-> heap, limit |-> heap + n.HEAP],
         STACK |-> [start |-> stack, limit |-> limit]]

-----------------------------------------------------------------------------
(* Growth of HEAP and STACK towards each other.                            *)

Gap(s) == s.STACK.start - s.HEAP.limit
Used(s) == Size(s.HEAP) + Size(s.STACK)

(* One block more: HEAP, unless STACK is smaller.                          *)
GrowOne(s) ==
    IF Size(s.HEAP) =< Size(s.STACK)
    THEN [s EXCEPT !.HEAP.limit = @ + 1]
    ELSE [s EXCEPT !.STACK.start = @ - 1]

(* Blocks that HEAP and STACK should have once a process has had `cpu` of  *)
(* its burst: half of the dynamic part first, all of it at the end.        *)
Target(s, cpu, burst) ==
    LET capacity == s.STACK.limit - s.HEAP.start
        base == capacity \div 2
    IN  base + ((capacity - base) * Min({cpu, burst})) \div burst

(* Mutant: one block per tick at most.                                     *)
GrownByOne(s, cpu, burst) ==
    IF Used(s) < Target(s, cpu, burst) /\ Gap(s) > 0 THEN GrowOne(s) ELSE s

(* The blocks that memory_tick_dynamic_segments adds: up to the target, or *)
(* until HEAP and STACK meet.                                              *)
Missing(s, cpu, burst) == AtLeast(0, Min({Target(s, cpu, burst) - Used(s), Gap(s)}))

(* Its loop, block by block.                                               *)
GrownByLoop(s, cpu, burst) ==
    FoldLeft(LAMBDA t, i : GrowOne(t), s, [i \in 1 .. Missing(s, cpu, burst) |-> i])

(* The same at once: HEAP gets what makes the two even, or one block more. *)
Grown(s, cpu, burst) ==
    LET blocks == Missing(s, cpu, burst)
        even == (blocks + Size(s.STACK) - Size(s.HEAP) + 1) \div 2
        up == AtLeast(0, Min({blocks, even}))
    IN  [s EXCEPT !.HEAP.limit = @ + up, !.STACK.start = @ - (blocks - up)]
=============================================================================
