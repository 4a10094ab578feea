------------------------------- MODULE Memory -------------------------------
(***************************************************************************)
(* The memory manager of src/simulator/memory.c: a linked list of blocks   *)
(* in address order, the counter of free blocks and the largest free block *)
(* it caches, and the part of each PCB that points into the list.          *)
(***************************************************************************)
EXTENDS Naturals, Sequences, SequencesExt

CONSTANTS
    TOTAL_BLOCKS,   \* blocks of the whole memory
    BLOCK_SIZE_KB,  \* size of a block
    NULL,           \* owner of a free block
    OsProcs,        \* the processes of the operating system, in order
    OsBase,         \* the blocks each of them gets at least
    OS_RESERVED,    \* the blocks they get together
    Procs,          \* user processes
    RequestsKb      \* memory sizes that user processes ask for, in KB

ASSUME MemoryAssumption ==
    /\ {TOTAL_BLOCKS, BLOCK_SIZE_KB} \subseteq Nat \ {0}
    /\ OS_RESERVED \in 1 .. TOTAL_BLOCKS - 1
    /\ RequestsKb \subseteq Nat
    /\ OsProcs \in Seq(Range(OsProcs))
    /\ Procs \cap Range(OsProcs) = {}        \* their pids differ
    /\ NULL \notin Procs \cup Range(OsProcs)

Owners == Procs \cup Range(OsProcs)
AlgorithmMem == {"FIRST", "BEST", "WORST"}

(* A definition whose comment begins with "Mutant" is not part of the      *)
(* model: it is a plausible mistake in the definition that follows it.     *)

(* Blocks for a size in KB, rounded up.                                    *)
Needed(kb) == (kb + BLOCK_SIZE_KB - 1) \div BLOCK_SIZE_KB

VARIABLES
    list,           \* memory_list, from head to tail
    free,           \* memory_list.free: number of free blocks
    max,            \* length of memory_list.max, 0 when it is NULL
    mem,            \* start, limit and waste of each PCB's MemoryData
    alg_memory,     \* placement policy
    granted         \* what the last kmalloc returned

memVars == <<list, free, max, mem, alg_memory, granted>>

Absent == [start |-> 0, limit |-> 0, waste_kb |-> 0]     \* mem.block = NULL
Resident(p) == mem[p] # Absent
-----------------------------------------------------------------------------
(* Operators on a list of blocks.                                          *)

Block(start, limit, owner) ==
    [start |-> start, limit |-> limit, length |-> limit - start, owner |-> owner]

FreeAt(l) == {i \in DOMAIN l : l[i].owner = NULL}

(* update_max_mem: length of the first largest free block.                 *)
MaxFree(l) ==
    IF FreeAt(l) = {} THEN 0 ELSE Max({l[i].length : i \in FreeAt(l)})

(* Mutant: the last of equally good blocks.                                *)
SearchLast(l, policy, n) ==
    LET fits == {i \in FreeAt(l) : l[i].length >= n}
        better(i, j) == CASE policy = "FIRST" -> FALSE
                          [] policy = "BEST" -> l[i].length < l[j].length
                          [] policy = "WORST" -> l[i].length > l[j].length
    IN  CHOOSE i \in fits : \A j \in fits \ {i} :
            better(i, j) \/ (i > j /\ ~better(j, i))

(* kmalloc's walk: the first fit, or the first best or worst fit.          *)
Search(l, policy, n) ==
    LET fits == {i \in FreeAt(l) : l[i].length >= n}
        better(i, j) == CASE policy = "FIRST" -> FALSE
                          [] policy = "BEST" -> l[i].length < l[j].length
                          [] policy = "WORST" -> l[i].length > l[j].length
    IN  CHOOSE i \in fits : \A j \in fits \ {i} :
            better(i, j) \/ (i < j /\ ~better(j, i))

(* allocate_block: the whole block, or its front cut off it.               *)
Allocate(l, i, n, p) ==
    LET b == l[i]
        taken == Block(b.start, b.start + n, p)
    IN  IF n = b.length
        THEN ReplaceAt(l, i, taken)
        ELSE InsertAt(ReplaceAt(l, i, Block(b.start + n, b.limit, NULL)),
                      i, taken)

(* Mutant: neighbours are left alone.                                      *)
KMergeNothing(l) == l

(* kmerge: one pass from the head, absorbing a free successor.             *)
Absorb(done, b) ==
    IF done # <<>> /\ Last(done).owner = NULL /\ b.owner = NULL
    THEN Append(Front(done), [Last(done) EXCEPT
             !.limit = b.limit, !.length = @ + b.length])
    ELSE Append(done, b)

KMerge(l) == FoldLeft(Absorb, <<>>, l)

Disown(l, p) ==
    [i \in DOMAIN l |-> IF l[i].owner = p THEN [l[i] EXCEPT !.owner = NULL]
                                          ELSE l[i]]
-----------------------------------------------------------------------------
(* create_system_processes: every process of the system gets its base and  *)
(* the rest of the reserve is dealt at random; FIRST places them in a row. *)
Dealt(sizes) == FoldLeft(LAMBDA n, k : n + k, 0, sizes)

Reserve(l, os) == Allocate(l, Search(l, "FIRST", os.size), os.size, os.owner)

ReserveForOs(sizes) ==
    FoldLeft(Reserve, <<Block(0, TOTAL_BLOCKS, NULL)>>,
             [i \in DOMAIN OsProcs |-> [owner |-> OsProcs[i], size |-> sizes[i]]])

Init ==
    /\ \E sizes \in [DOMAIN OsProcs -> 1 .. OS_RESERVED] :
          /\ \A i \in DOMAIN OsProcs : sizes[i] >= OsBase[i]
          /\ Dealt(sizes) = OS_RESERVED
          /\ list = ReserveForOs(sizes)
    /\ free = TOTAL_BLOCKS - OS_RESERVED
    /\ max = MaxFree(list)
    /\ mem = [p \in Procs |-> Absent]
    /\ alg_memory = "FIRST"
    /\ granted = TRUE

(* memory_can_fit reads the cached largest block, not the list.            *)
MemoryCanFit(n) == n > 0 /\ n =< max

KMalloc(p, kb) ==
    LET n == Needed(kb)
        i == Search(list, alg_memory, n)
    IN  /\ ~Resident(p)
        /\ MemoryCanFit(n)
        /\ list' = Allocate(list, i, n, p)
        /\ mem' = [mem EXCEPT ![p] =
              [start |-> list[i].start, limit |-> list[i].start + n,
               waste_kb |-> n * BLOCK_SIZE_KB - kb]]
        /\ free' = free - n
        /\ max' = MaxFree(list')
        /\ granted' = TRUE
        /\ UNCHANGED alg_memory

KMallocFails(p, kb) ==
    /\ ~Resident(p)
    /\ ~MemoryCanFit(Needed(kb))
    /\ granted' = FALSE
    /\ UNCHANGED <<list, free, max, mem, alg_memory>>

KFree(p) ==
    /\ Resident(p)
    /\ list' = KMerge(Disown(list, p))
    /\ mem' = [mem EXCEPT ![p] = Absent]
    /\ free' = free + mem[p].limit - mem[p].start
    /\ max' = MaxFree(list')
    /\ UNCHANGED <<alg_memory, granted>>

(* SET_ALG_MEM and SET_CONFIG change the policy at any time.               *)
SetAlgMem(policy) ==
    /\ alg_memory' = policy
    /\ UNCHANGED <<list, free, max, mem, granted>>

Next ==
    \/ \E p \in Procs : \/ \E kb \in RequestsKb : KMalloc(p, kb)
                        \/ \E kb \in RequestsKb : KMallocFails(p, kb)
                        \/ KFree(p)
    \/ \E policy \in AlgorithmMem : SetAlgMem(policy)

Spec == Init /\ [][Next]_memVars
-----------------------------------------------------------------------------
(* The blocks, the cached counters and the PCBs have their types.          *)
TypeOK ==
    /\ list \in Seq([start : 0 .. TOTAL_BLOCKS, limit : 0 .. TOTAL_BLOCKS,
                     length : 1 .. TOTAL_BLOCKS, owner : Owners \cup {NULL}])
    /\ {free, max} \subseteq 0 .. TOTAL_BLOCKS
    /\ mem \in [Procs -> [start : 0 .. TOTAL_BLOCKS, limit : 0 .. TOTAL_BLOCKS,
                          waste_kb : 0 .. BLOCK_SIZE_KB - 1]]
    /\ alg_memory \in AlgorithmMem
    /\ granted \in BOOLEAN

(* Whatever sequence of splits and merges led here, the list covers the    *)
(* memory from the first block to the last with neither gap nor overlap,   *)
(* and each block's length agrees with its bounds (allocate_block and      *)
(* kmerge update them separately).                                         *)
ListTilesMemory ==
    /\ list # <<>> /\ list[1].start = 0 /\ Last(list).limit = TOTAL_BLOCKS
    /\ \A i \in DOMAIN list :
          /\ list[i].length = list[i].limit - list[i].start
          /\ i > 1 => list[i].start = list[i - 1].limit

(* No two neighbouring blocks are free: kfree leaves no hole split in two, *)
(* so a process that fits is never refused by fragmentation of the list.   *)
FreeBlocksCoalesced ==
    \A i \in 2 .. Len(list) :
        list[i].owner # NULL \/ list[i - 1].owner # NULL

CountFree(n, b) == IF b.owner = NULL THEN n + b.length ELSE n

(* The two counters that memory_can_fit and the GUI read instead of the    *)
(* list are never stale.                                                   *)
CountersFresh ==
    /\ free = FoldLeft(CountFree, 0, list)
    /\ \A i \in FreeAt(list) : list[i].length =< max
    /\ max = 0 \/ \E i \in FreeAt(list) : list[i].length = max

(* A process is resident in exactly one block and its PCB knows the bounds *)
(* of that block; a process that is out of memory owns none.               *)
PcbAgreesWithList ==
    \A p \in Procs :
        {[start |-> b.start, limit |-> b.limit] :
            b \in {list[i] : i \in {j \in DOMAIN list : list[j].owner = p}}}
        = IF Resident(p)
          THEN {[start |-> mem[p].start, limit |-> mem[p].limit]} ELSE {}

(* The four together and the types: the list that kmalloc and kfree        *)
(* maintain is sound, and so is what they remember of it elsewhere.        *)
ListIsSound ==
    TypeOK /\ ListTilesMemory /\ FreeBlocksCoalesced /\ CountersFresh
    /\ PcbAgreesWithList

(* The owner of each block of the memory that a list l describes.          *)
Cells(l) ==
    [b \in 0 .. TOTAL_BLOCKS - 1 |->
        (CHOOSE x \in Range(l) : x.start =< b /\ b < x.limit).owner]

Map == INSTANCE MemoryMap WITH
    OsProcs <- Range(OsProcs),
    Sizes <- {Needed(kb) : kb \in RequestsKb},
    policy <- alg_memory,
    cells <- Cells(list)

(* The list with its counters implements the memory map: kmalloc answers   *)
(* and places exactly as the map does, and kfree gives back exactly the    *)
(* blocks of the process.                                                  *)
ImplementsMap == Map!Spec
=============================================================================
