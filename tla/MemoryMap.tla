----------------------------- MODULE MemoryMap -----------------------------
(***************************************************************************)
(* What the memory manager promises: a request is granted exactly when     *)
(* some hole is large enough, it gets the first blocks of the hole its     *)
(* policy prefers, freed blocks are available again at once, and nothing   *)
(* ever touches the blocks reserved for the operating system.              *)
(***************************************************************************)
EXTENDS Holes

CONSTANTS
    OsProcs,        \* processes of the simulated operating system
    OS_RESERVED,    \* blocks reserved for them at start-up
    Procs,          \* user processes
    Sizes           \* sizes of their requests, in blocks

VARIABLES
    cells,          \* the owner of each block
    policy,         \* the placement policy, changed by the user at any time
    granted         \* answer to the last request

mapVars == <<cells, policy, granted>>

Init ==
    /\ \E os \in [0 .. OS_RESERVED - 1 -> OsProcs] :
          cells = [b \in Blocks |-> IF b < OS_RESERVED THEN os[b] ELSE NULL]
    /\ policy = "FIRST"
    /\ granted = TRUE

Grant(p, n) ==
    /\ OwnedBy(cells, p) = {}
    /\ \E h \in Selected(policy, cells, n) :
          cells' = Claim(cells, h.start, n, p)
    /\ granted' = TRUE
    /\ UNCHANGED policy

Refuse(p, n) ==
    /\ OwnedBy(cells, p) = {}
    /\ ~CanFit(cells, n)
    /\ granted' = FALSE
    /\ UNCHANGED <<cells, policy>>

Free(p) ==
    /\ cells' = Release(cells, p)
    /\ UNCHANGED <<policy, granted>>

SetPolicy(new) ==
    /\ policy' = new
    /\ UNCHANGED <<cells, granted>>

Next ==
    \/ \E p \in Procs :
          \/ \E n \in Sizes : Grant(p, n) \/ Refuse(p, n)
          \/ Free(p)
    \/ \E new \in AlgorithmMem : SetPolicy(new)

Spec == Init /\ [][Next]_mapVars
=============================================================================
