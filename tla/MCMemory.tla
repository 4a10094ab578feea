------------------------------ MODULE MCMemory ------------------------------
(* The memory manager with three user processes of one to three blocks.    *)
EXTENDS Memory

MCOsProcs == <<"Kernel", "Swapper">>
MCOsBase == <<1, 1>>
Symmetry == Permutations(Procs)
=============================================================================
