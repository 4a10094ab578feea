----------------------------- MODULE MCTimeline -----------------------------
(***************************************************************************)
(* Three processes under the six algorithms, with memory for everybody or  *)
(* for two of them, so that one is swapped, or one that never fits is      *)
(* rejected; a few periodic interrupts and a ring of three events.         *)
(***************************************************************************)
EXTENDS MCKernel, Timeline

PeriodicTargets == p1 :> 2 @@ p2 :> 1 @@ p3 :> 0

SwappedWorkloads ==
    Workload(
        Both(Request(Compute(0, 7, 2, 3), 3, 4, Keyboard), 5),
        UNION {WithOrWithoutIo(Compute(a, 5, 1, 2), 2, 3, {Keyboard, Disk}) :
               a \in {0, 3}},
        {Compute(9, 4, 0, 1), Compute(9, 4, 0, 6), Faulty(Compute(30, 3, 0, 3), 2)})

CpuAndSwapWorkloads == CpuWorkloads \cup SwappedWorkloads
=============================================================================
