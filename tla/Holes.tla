------------------------------- MODULE Holes -------------------------------
(***************************************************************************)
(* User memory seen as a row of equal blocks, each free or owned by a      *)
(* process: what the block list of src/simulator/memory.c represents.      *)
(* A hole is a maximal run of free blocks.  Memory.tla shows that the      *)
(* linked list with its cached counters implements these operators, and    *)
(* Kernel.tla uses them to allocate and release memory.                    *)
(***************************************************************************)
EXTENDS Naturals

CONSTANTS
    TOTAL_BLOCKS,   \* number of blocks of the memory
    NULL            \* the owner of a free block: not a process

ASSUME TotalBlocksAssumption == TOTAL_BLOCKS \in Nat \ {0}

Blocks == 0 .. TOTAL_BLOCKS - 1

AlgorithmMem == {"FIRST", "BEST", "WORST"}

-----------------------------------------------------------------------------

(* The holes of a memory c, as records of their first block and length.    *)
IsFree(c, first, length) ==
    /\ first + length =< TOTAL_BLOCKS
    /\ \A b \in first .. first + length - 1 : c[b] = NULL

IsHole(c, first, length) ==
    /\ IsFree(c, first, length)
    /\ first > 0 => c[first - 1] # NULL
    /\ first + length < TOTAL_BLOCKS => c[first + length] # NULL

Holes(c) ==
    {h \in [start : Blocks, length : 1 .. TOTAL_BLOCKS] :
        IsHole(c, h.start, h.length)}

(* memory_can_fit: some hole is large enough for n blocks.                 *)
CanFit(c, n) == n > 0 /\ \E h \in Holes(c) : h.length >= n

(* The search of kmalloc: h is visited before g, or is strictly better     *)
(* under the policy, so that ties go to the lower address.                 *)
Preferred(policy, h, g) ==
    \/ policy = "FIRST" /\ h.start =< g.start
    \/ policy = "BEST" /\ \/ h.length < g.length
                          \/ h.length = g.length /\ h.start =< g.start
    \/ policy = "WORST" /\ \/ h.length > g.length
                           \/ h.length = g.length /\ h.start =< g.start

(* The holes kmalloc may select: one when n blocks fit, none otherwise.    *)
Selected(policy, c, n) ==
    LET enough == {h \in Holes(c) : h.length >= n}
    IN  {h \in enough : \A g \in enough : Preferred(policy, h, g)}

(* allocate_block: the first n blocks of the hole that starts at first.    *)
Claim(c, first, n, p) ==
    [b \in Blocks |-> IF b \in first .. first + n - 1 THEN p ELSE c[b]]

(* Mutant, not part of the model: only the first block of p is freed.      *)
ReleaseFirst(c, p) ==
    [b \in Blocks |-> IF c[b] = p /\ (b = 0 \/ c[b - 1] # p) THEN NULL ELSE c[b]]

(* kfree: every block of p is free again; a process without blocks has     *)
(* none to release, which is the early return of the code.                 *)
Release(c, p) == [b \in Blocks |-> IF c[b] = p THEN NULL ELSE c[b]]

OwnedBy(c, p) == {b \in Blocks : c[b] = p}
=============================================================================
