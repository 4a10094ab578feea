------------------------------ MODULE MCKernel ------------------------------
(***************************************************************************)
(* Workloads and configurations for the simulated kernel.  A tick lasts 2  *)
(* units, so that arrivals, bursts, requests and switch costs fall between *)
(* two ticks as they do in the program; user memory has 4 or 13 blocks.    *)
(***************************************************************************)
EXTENDS KernelProperties

CONSTANTS p1, p2, p3, p4

ThreeProcs == {p1, p2, p3}
ThreeRows == <<p1, p2, p3>>
FourProcs == {p1, p2, p3, p4}
FourRows == <<p1, p2, p3, p4>>

Compute(arrival, burst, priority, blocks) ==
    [arrival |-> arrival, burst |-> burst, priority |-> priority,
     blocks |-> blocks, has_io |-> FALSE, io_start |-> 0, io_duration |-> 1,
     device |-> 0, planned |-> FALSE, trigger |-> 0]

Request(p, start, duration, device) ==
    [p EXCEPT !.has_io = TRUE, !.io_start = start, !.io_duration = duration,
              !.device = device]

Faulty(p, at) == [p EXCEPT !.planned = TRUE, !.trigger = at]

Workload(w1, w2, w3) ==
    {p1 :> f1 @@ p2 :> f2 @@ p3 :> f3 : f1 \in w1, f2 \in w2, f3 \in w3}

Keyboard == 0
Disk == 1

Both(p, at) == {p, Faulty(p, at)}
WithOrWithoutIo(p, start, duration, devices) ==
    {p} \cup {Request(p, start, duration, d) : d \in devices}

(* Memory for everybody: the processes compete for the CPU and devices.    *)
CpuWorkloads ==
    Workload(
        Both(Request(Compute(0, 7, 2, 1), 3, 4, Keyboard), 5),
        UNION {WithOrWithoutIo(Compute(a, b, 1, 1), 2, 3, {Keyboard, Disk}) :
               a \in {0, 5}, b \in {3, 6}},
        UNION {WithOrWithoutIo(Compute(3, 5, r, 2), 1, 4, {Disk}) : r \in {0, 2}})

CpuConfigs ==
    {[alg_sched |-> s, alg_memory |-> "FIRST", quantum |-> 3, switch_cost |-> c] :
     s \in AlgorithmSched, c \in {0, 3}}
=============================================================================
