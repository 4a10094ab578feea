----------------------------- MODULE MCSession ------------------------------
(***************************************************************************)
(* Two processes under up to two changes of the configuration that         *)
(* simulator_init starts with; they arrive before or after they are        *)
(* created, one of them perhaps when the other has long ended.             *)
(***************************************************************************)
EXTENDS MCKernel, Session

TwoProcs == {p1, p2}
TwoRows == <<p1, p2>>

CommandWorkloads ==
    {p1 :> Request(Compute(0, 4, 2, 3), 1, 3, Disk) @@ p2 :> Compute(a, 3, 1, 2) : a \in {1, 12}}

InitialConfig ==
    [alg_sched |-> "FCFS", alg_memory |-> "FIRST", quantum |-> 2, switch_cost |-> 1]

InitialConfigs == {InitialConfig}

Requested ==
    {[alg_sched |-> "ROUND", alg_memory |-> "WORST", quantum |-> 3, switch_cost |-> 0],
     [alg_sched |-> "P_SJF", alg_memory |-> "FIRST", quantum |-> 0, switch_cost |-> 3]}
=============================================================================
