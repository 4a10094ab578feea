----------------------------- MODULE MCMachine -----------------------------
(***************************************************************************)
(* Four processes that do not fit together into a memory of 13 blocks,     *)
(* with the context of the CPU, their segments and what the panels show.   *)
(***************************************************************************)
EXTENDS MCKernel, Dashboard, Context

(* Too little memory: admission waits, the swapper evicts and loads again  *)
(* elsewhere, a request may be larger than the whole memory.               *)
MemoryWorkloads ==
    {w @@ p4 :> f : f \in {Request(Compute(2, 3, 1, 5), 1, 3, Disk),
                            Faulty(Compute(2, 5, 1, 5), 3)},
     w \in Workload(
        {Request(Compute(0, 5, 2, 8), 2, 5, Keyboard)},
        UNION {WithOrWithoutIo(Compute(a, 4, 1, m), 2, 6, {Disk}) :
               a \in {0, 3}, m \in {5, 10, 14}},
        UNION {WithOrWithoutIo(Compute(a, 3, 0, m), 1, 3, {Keyboard}) :
               <<a, m>> \in {<<1, 5>>, <<5, 3>>}})}

MemoryConfigs ==
    {[alg_sched |-> s, alg_memory |-> m, quantum |-> 3, switch_cost |-> 3] :
     s \in {"P_SJF", "ROUND"}, m \in AlgorithmMem}
    \cup {[alg_sched |-> "FCFS", alg_memory |-> m, quantum |-> 3, switch_cost |-> 0] :
          m \in AlgorithmMem}

(* Percentages that leave the dynamic part of a process its blocks and let *)
(* it grow by several in a tick, or take them from p3.                     *)
UnevenShares ==
    [p \in Procs |-> IF p = p3 THEN [text |-> 80, data |-> 19, dynamic |-> 1]
                               ELSE [text |-> 20, data |-> 20, dynamic |-> 60]]

(* Two processes that take turns, the first for long enough to grow twice. *)
TurnWorkloads == {p1 :> Compute(0, 9, 1, 8) @@ p2 :> Compute(0, 3, 1, 5)}
TurnConfigs ==
    {[alg_sched |-> "ROUND", alg_memory |-> "FIRST", quantum |-> 3, switch_cost |-> 0]}
TwoProcs == {p1, p2}
TwoRows == <<p1, p2>>
=============================================================================
