-------------------------- MODULE KernelProperties --------------------------
(***************************************************************************)
(* What the simulated kernel must guarantee, whatever the workload, the    *)
(* algorithms and the outcome of the keyboard requests.                    *)
(***************************************************************************)
EXTENDS Kernel

Steps == {"idle", "arrival", "preempt", "decide", "cpu", "finish"}
         \cup MidTerm \cup Job \cup Background

(* Every variable has the type of the field of struct Simulator or struct  *)
(* Pcb it stands for.                                                      *)
TypeOK ==
    /\ pc \in Steps /\ todo \in Seq(Procs)
    /\ dev \in 0 .. IO_DEVICE_COUNT /\ delta \in 0 .. TICK
    /\ sim_state \in SimulatorState /\ current_time \in Nat
    /\ table \in Seq(Procs) /\ profile \in [Procs -> Profile] /\ config \in Config
    /\ state \in [Procs -> ProcessState]
    /\ resident \in [Procs -> BOOLEAN] /\ failed \in [Procs -> BOOLEAN]
    /\ sched \in [Procs -> SchedData] /\ io \in [Procs -> IoState]
    /\ job_q \in Seq(Procs) /\ ready_q \in Seq(Procs)
    /\ nonresident_q \in Seq(Procs) /\ finished_q \in Seq(Procs)
    /\ device_q \in [Devices -> Seq(Procs)]
    /\ running \in Procs \cup {NULL} /\ next_pcb \in Procs \cup {NULL}
    /\ switch_remaining \in Nat
    /\ cells \in [Blocks -> Procs \cup {NULL}]
    /\ stats \in Stats

-----------------------------------------------------------------------------
(* Queues and states.                                                      *)

NoDuplicates(q) == \A i, j \in DOMAIN q : q[i] = q[j] => i = j

QueuesDistinct ==
    /\ \A q \in {job_q, ready_q, nonresident_q, finished_q} : NoDuplicates(q)
    /\ \A d \in Devices : NoDuplicates(device_q[d])

(* p is in the one place its state tells.                                  *)
InPlace(p) ==
    /\ (state[p] = "NEW") <=> (p \in Range(job_q))
    /\ (state[p] = "READY" /\ ~resident[p]) <=> (p \in Range(nonresident_q))
    /\ (state[p] = "READY" /\ resident[p])
          <=> (p \in Range(ready_q) \/ p = next_pcb)
    /\ ~(p \in Range(ready_q) /\ p = next_pcb)
    /\ (state[p] = "RUNNING") <=> (p = running)
    /\ (state[p] = "TERMINATED") <=> (p \in Range(finished_q))
    /\ \A d \in Devices :
          (p \in Range(device_q[d]))
              <=> (state[p] = "BLOCKED" /\ d = profile[p].device)

(* The queues are lists of pointers: nothing but the order of the calls    *)
(* keeps a PCB from being linked in two of them, or in none.  A process is *)
(* in the one place its state tells, and in that place once.               *)
OnePlaceEach == QueuesDistinct /\ \A p \in Procs : InPlace(p)

(* The CPU is never given to two processes, nor to one whose memory was    *)
(* taken by the swapper while it waited; processes without memory yet, or  *)
(* finished, hold none.                                                    *)
OnlyResidentsCompete ==
    /\ running # NULL => next_pcb = NULL
    /\ \A p \in Procs :
          /\ p = running => resident[p]
          /\ state[p] \in {"NONE", "NEW", "TERMINATED"} => ~resident[p]

(* Memory across admission, swapping and termination: a resident process   *)
(* owns as many blocks as it needs, in one piece; any other owns none.     *)
MemoryMatchesResidence ==
    \A p \in Procs :
        IF resident[p]
        THEN \E first \in Blocks :
                OwnedBy(cells, p) = first .. first + profile[p].blocks - 1
        ELSE OwnedBy(cells, p) = {}

-----------------------------------------------------------------------------
(* Scheduling.                                                             *)

(* The CPU is never idle while an arrived process waits for memory: the    *)
(* two rounds of mid_term_scheduler and job_scheduler that open a tick     *)
(* always find room for somebody when every resident process is blocked.   *)
IdleMeansNobodyWaits ==
    pc = "bg_idle" /\ dev = 0 => job_q = <<>> /\ nonresident_q = <<>>

(* Under the preemptive algorithms no tick of the CPU is given to a        *)
(* process while a strictly better one is ready, even when the better one  *)
(* arrived, came back from I/O or was swapped in during a context switch   *)
(* that had chosen another.                                                *)
BestProcessRuns ==
    pc = "bg_run" /\ dev = 0 =>
        \A p \in Range(ready_q) :
            /\ config.alg_sched = "P_SJF" => ~Shorter(p, running)
            /\ config.alg_sched = "P_PRIOR" => ~MoreUrgent(p, running)

(* Round Robin: whoever has the CPU has some of its quantum left, and      *)
(* never more than a whole one, also after it left the CPU for I/O or with *)
(* its quantum used up exactly.                                            *)
QuantumRespected ==
    config.alg_sched = "ROUND" /\ running # NULL =>
        sched[running].quantum \in 1 .. config.quantum

-----------------------------------------------------------------------------
(* Accounting: the figures the GUI and compare_policies report.            *)

(* The tick of the CPU that has begun and is charged when it ends.         *)
PendingTick == IF pc \in {"bg_run", "cpu"} THEN TICK ELSE 0

(* Every unit of simulated time is charged once: to a process, to a        *)
(* context switch or to the idle CPU.                                      *)
ClockIsCharged ==
    current_time = stats.cpu_time + stats.idle_time + stats.switch_time + PendingTick

CpuTimeIsShared == stats.cpu_time = SumFunction([p \in Procs |-> sched[p].cpu])

(* Each context switch is charged its cost exactly, in ticks of which the  *)
(* last may be short: no dispatch comes early, none is charged twice.      *)
SwitchesCharged ==
    stats.switch_time = stats.switches * config.switch_cost - switch_remaining

(* No process is charged twice for the same instant: the time it was       *)
(* ready, blocked or running, or out of memory in either state, fits       *)
(* between its arrival and now, or its end.                                *)
WaitingFitsTurnaround ==
    \A p \in Procs : state[p] # "NONE" =>
        LET s == sched[p]
            end == IF state[p] = "TERMINATED" THEN s.finish ELSE current_time
        IN  /\ s.ready + s.cpu + Max({s.blocked, s.nonresident})
                  =< end - profile[p].arrival
            /\ s.start >= 0 => s.start \in profile[p].arrival .. end

(* The clock, the totals of the simulator and the times of each process    *)
(* are advanced by different functions at different points of a tick, and  *)
(* ticks have unequal lengths; they always account for the same time.      *)
TimeIsCharged ==
    /\ ClockIsCharged /\ CpuTimeIsShared
    /\ SwitchesCharged /\ WaitingFitsTurnaround

(* A process that ends well was given its burst, to the tick, before its   *)
(* planned error was due; one that fails keeps the rest of its burst.      *)
BurstServed ==
    \A p \in Procs : state[p] = "TERMINATED" =>
        LET served == sched[p].cpu
        IN  IF failed[p]
            THEN sched[p].remaining = profile[p].burst - served
            ELSE /\ sched[p].remaining = 0
                 /\ served - profile[p].burst \in 0 .. TICK - 1
                 /\ profile[p].planned => served < profile[p].trigger

(* A device serves one request at a time, in order: only the first of its  *)
(* queue has begun, and it has time left.                                  *)
DeviceServesInOrder ==
    \A d \in Devices : \A i \in DOMAIN device_q[d] :
        LET p == device_q[d][i]
        IN  /\ io[p].started /\ ~io[p].completed
            /\ IF i = 1 THEN io[p].remaining \in 1 .. profile[p].io_duration
                        ELSE io[p].remaining = profile[p].io_duration

-----------------------------------------------------------------------------
(* Refinement and progress.                                                *)

(* Every step of main_loop is a legal step in the life of one process, or  *)
(* changes no process: no state is skipped or undone, only blocked         *)
(* processes are evicted, and the CPU has one process at a time.           *)
Life == INSTANCE Lifecycle WITH
    Capacity <- TOTAL_BLOCKS,
    size <- [p \in Procs |-> profile[p].blocks],
    phase <- state,
    loaded <- resident,
    ended <- [p \in Procs |-> IF state[p] # "TERMINATED" THEN "no"
                              ELSE IF failed[p] THEN "error" ELSE "ok"]

ImplementsLifecycle == Life!Spec

(* As long as main keeps calling main_loop, every process ends, however    *)
(* large it is, whatever its priority and whoever bypasses it, and the     *)
(* simulation stops by itself.                                             *)
EverybodyFinishes ==
    <>[](sim_state = "STOP" /\ \A p \in Procs : state[p] = "TERMINATED")
=============================================================================
