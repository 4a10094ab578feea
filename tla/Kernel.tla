------------------------------- MODULE Kernel -------------------------------
(***************************************************************************)
(* The simulated kernel: one call of main_loop (src/simulator/loop.c) is   *)
(* a tick, and the program counter pc forces its steps into the order of   *)
(* the code, so that no step is optional.  A walk over a queue is a step   *)
(* per node; `todo` holds the nodes the walk has still to visit.           *)
(*                                                                         *)
(* Times are integers: a tick lasts TICK units, and arrivals, bursts, the  *)
(* quantum and the switch cost need not be multiples of it.                *)
(***************************************************************************)
EXTENDS Integers, Sequences, SequencesExt, Holes

CONSTANTS
    Procs,              \* user processes
    Workloads,          \* parameters of the processes, one function each
    Configs,            \* scheduler, placement, quantum and switch cost
    Table,              \* the process table: every process, in ADD order
    TICK,               \* units of time of a tick
    IO_DEVICE_COUNT,    \* devices are numbered from 0 as in enum IoDevice
    IO_KEYBOARD         \* the device whose requests can be cancelled

Devices == 0 .. IO_DEVICE_COUNT - 1
AlgorithmSched == {"FCFS", "NP_SJF", "P_SJF", "ROUND", "NP_PRIOR", "P_PRIOR"}
ProcessState == {"NONE", "NEW", "READY", "RUNNING", "BLOCKED", "TERMINATED"}

Profile ==
    [arrival : Nat, burst : Nat \ {0}, priority : Nat, blocks : Nat \ {0},
     has_io : BOOLEAN, io_start : Nat, io_duration : Nat \ {0},
     device : Devices, planned : BOOLEAN, trigger : Nat]

SimulatorState == {"PAUSE", "RUN", "STOP"}

Settings ==
    [alg_sched : AlgorithmSched, alg_memory : AlgorithmMem,
     quantum : Nat, switch_cost : Nat]

(* valid_config: only Round Robin needs a quantum.                         *)
ValidConfig(c) == c.alg_sched = "ROUND" => c.quantum > 0
Config == {c \in Settings : ValidConfig(c)}

ASSUME KernelAssumption ==
    /\ NULL \notin Procs
    /\ TICK \in Nat \ {0}
    /\ IO_DEVICE_COUNT \in Nat \ {0}
    /\ IO_KEYBOARD \in Devices
    /\ Workloads \subseteq [Procs -> Profile]
    /\ Configs \subseteq Config
    /\ Table \in Seq(Procs)
    /\ \A p \in Procs : \E i \in DOMAIN Table : Table[i] = p

VARIABLES
    pc,                 \* step of main_loop about to run; "idle" between calls
    todo,               \* rest of the queue walk in progress
    dev, delta,         \* device tick_device_queues visits next, its time
    sim_state, current_time,
    table,              \* process table, in ADD order
    profile, config,    \* parameters of the processes and of the simulator
    state, resident, failed,
    sched, io,          \* SchedulerData and IoData of each process
    job_q, ready_q, nonresident_q, finished_q, device_q,
    running, next_pcb, switch_remaining,
    cells,              \* owner of each block of user memory
    stats               \* counters and accumulated times of the simulator

walk == <<pc, todo, dev, delta>>
clock == <<sim_state, current_time>>
setup == <<table, profile, config>>
pcb == <<state, failed, sched, io>>
queues == <<job_q, ready_q, nonresident_q, finished_q, device_q>>
cpu == <<running, next_pcb, switch_remaining>>
memory == <<resident, cells>>
vars == <<walk, clock, setup, pcb, queues, cpu, memory, stats>>

SchedData ==
    [remaining : Int, cpu : Nat, quantum : Int, start : Int, finish : Int,
     ready : Nat, blocked : Nat, nonresident : Nat]
IoState == [started : BOOLEAN, completed : BOOLEAN, remaining : Int]
Stats ==
    [cpu_time : Nat, idle_time : Nat, switch_time : Nat, switches : Nat,
     swap_in : Nat, swap_out : Nat, completed : Nat, errors : Nat]

(* simulator_init, with create_user_pcb for every process of `rows`.       *)
Initially(rows, st) ==
    /\ table = rows
    /\ profile \in Workloads
    /\ config \in Configs
    /\ pc = "idle" /\ todo = <<>> /\ dev = 0 /\ delta = 0
    /\ sim_state = st /\ current_time = 0
    /\ state = [p \in Procs |-> "NONE"]
    /\ resident = [p \in Procs |-> FALSE]
    /\ failed = [p \in Procs |-> FALSE]
    /\ sched = [p \in Procs |->
          [remaining |-> profile[p].burst, cpu |-> 0, quantum |-> config.quantum,
           start |-> -1, finish |-> -1, ready |-> 0, blocked |-> 0,
           nonresident |-> 0]]
    /\ io = [p \in Procs |->
          [started |-> FALSE, completed |-> FALSE,
           remaining |-> IF profile[p].has_io THEN profile[p].io_duration ELSE -1]]
    /\ job_q = <<>> /\ ready_q = <<>> /\ nonresident_q = <<>> /\ finished_q = <<>>
    /\ device_q = [d \in Devices |-> <<>>]
    /\ running = NULL /\ next_pcb = NULL /\ switch_remaining = 0
    /\ cells = [b \in Blocks |-> NULL]
    /\ stats = [cpu_time |-> 0, idle_time |-> 0, switch_time |-> 0, switches |-> 0,
                swap_in |-> 0, swap_out |-> 0, completed |-> 0, errors |-> 0]

(* The whole table is there before RUN.                                    *)
Init == Initially(Table, "RUN")
-----------------------------------------------------------------------------
(* A definition whose comment begins with "Mutant" is not part of the      *)
(* model: it is a plausible mistake in the definition that follows it.     *)

(* Mutant: whoever is first is unlinked.                                   *)
DequeueHead(q, p) == IF q = <<>> THEN q ELSE Tail(q)

(* dequeue_pcb: the queue without the first node of p, if it has one.      *)
Dequeue(q, p) ==
    IF p \in Range(q)
    THEN RemoveAt(q, CHOOSE i \in DOMAIN q :
                        q[i] = p /\ \A j \in 1 .. i - 1 : q[j] # p)
    ELSE q

Goto(step, nodes) == pc' = step /\ todo' = nodes /\ UNCHANGED <<dev, delta>>

Counted(field) == [stats EXCEPT ![field] = @ + 1]
CountedFailure == [Counted("completed") EXCEPT !.errors = @ + 1]

(* finish_process: p leaves the system, and its memory is freed.           *)
Finish(p, fails, times) ==
    /\ state' = [state EXCEPT ![p] = "TERMINATED"]
    /\ failed' = [failed EXCEPT ![p] = fails]
    /\ sched' = [times EXCEPT ![p].remaining = IF fails THEN @ ELSE 0,
                              ![p].finish = current_time]
    /\ resident' = [resident EXCEPT ![p] = FALSE]
    /\ cells' = Release(cells, p)
    /\ finished_q' = Append(finished_q, p)

(* Mutant: a used up quantum is not renewed.                               *)
SameQuantum(p) == sched[p].quantum

QuantumFor(p) ==
    IF config.alg_sched = "ROUND" /\ sched[p].quantum =< 0
    THEN config.quantum ELSE sched[p].quantum

(* dispatch: p gets the CPU, with its context restored.                    *)
Dispatch(p) ==
    /\ running' = p
    /\ next_pcb' = NULL
    /\ switch_remaining' = 0
    /\ state' = [state EXCEPT ![p] = "RUNNING"]
    /\ sched' = [sched EXCEPT
          ![p].start = IF @ < 0 THEN current_time ELSE @,
          ![p].quantum = QuantumFor(p)]

-----------------------------------------------------------------------------
(* process_arrival walks the process table.                                *)

BeginTick ==
    /\ pc = "idle" /\ sim_state = "RUN"
    /\ Goto("arrival", table)
    /\ UNCHANGED <<clock, setup, pcb, queues, cpu, memory, stats>>

HasArrived(p) == profile[p].arrival =< current_time
Arrives(p) == state[p] = "NONE" /\ HasArrived(p)

Arrive ==
    /\ pc = "arrival" /\ todo # <<>> /\ Arrives(Head(todo))
    /\ state' = [state EXCEPT ![Head(todo)] = "NEW"]
    /\ job_q' = Append(job_q, Head(todo))
    /\ Goto("arrival", Tail(todo))
    /\ UNCHANGED <<clock, setup, failed, sched, io, ready_q, nonresident_q,
                   finished_q, device_q, cpu, memory, stats>>

SkipRow ==
    /\ pc = "arrival" /\ todo # <<>> /\ ~Arrives(Head(todo))
    /\ Goto("arrival", Tail(todo))
    /\ UNCHANGED <<clock, setup, pcb, queues, cpu, memory, stats>>

ArrivalDone ==
    /\ pc = "arrival" /\ todo = <<>>
    /\ Goto("mid1", nonresident_q)
    /\ UNCHANGED <<clock, setup, pcb, queues, cpu, memory, stats>>

-----------------------------------------------------------------------------
(* mid_term_scheduler: a walk of swap_in_ready_processes; then, as long as *)
(* the first process that waits for memory does not fit, one blocked       *)
(* process is swapped out and the walk starts again.                       *)

MidTerm == {"mid1", "mid2", "mid3"}

(* What kmalloc needs: p fits, in the hole the placement policy selects.   *)
HoleFor(p) == Selected(config.alg_memory, cells, profile[p].blocks)

Waits(p) == state[p] = "READY" /\ ~resident[p]

SwapIn ==
    /\ pc \in MidTerm /\ todo # <<>>
    /\ LET p == Head(todo)
       IN  /\ Waits(p)
           /\ \E h \in HoleFor(p) :
                 cells' = Claim(cells, h.start, profile[p].blocks, p)
           /\ resident' = [resident EXCEPT ![p] = TRUE]
           /\ nonresident_q' = Dequeue(nonresident_q, p)
           /\ ready_q' = Append(ready_q, p)
    /\ stats' = Counted("swap_in")
    /\ Goto(pc, Tail(todo))
    /\ UNCHANGED <<clock, setup, pcb, job_q, finished_q, device_q, cpu>>

SkipSwapIn ==
    /\ pc \in MidTerm /\ todo # <<>>
    /\ ~(Waits(Head(todo)) /\ CanFit(cells, profile[Head(todo)].blocks))
    /\ Goto(pc, Tail(todo))
    /\ UNCHANGED <<clock, setup, pcb, queues, cpu, memory, stats>>

(* Mutant: room is made for swapped out processes only.                    *)
WaitingToReturn ==
    LET back == SelectInSeq(nonresident_q, Waits)
    IN  IF back > 0 THEN nonresident_q[back] ELSE NULL

(* waiting_for_memory: who the swapper makes room for, the first that is   *)
(* ready and swapped out, else the first that has arrived.                 *)
WaitingForMemory ==
    LET back == SelectInSeq(nonresident_q, Waits)
        new == SelectInSeq(job_q, HasArrived)
    IN  CASE back > 0 -> nonresident_q[back]
          [] back = 0 /\ new > 0 -> job_q[new]
          [] back = 0 /\ new = 0 -> NULL

NeedsRoom ==
    /\ WaitingForMemory # NULL
    /\ ~CanFit(cells, profile[WaitingForMemory].blocks)

(* Mutant: the process that has the CPU may be swapped out too.            *)
RunningOrBlocked == {p \in Procs : state[p] \in {"RUNNING", "BLOCKED"} /\ resident[p]}

(* blocked_swap_candidate: the longest I/O left, then the largest process, *)
(* then the first one met on the walk over the devices.                    *)
Candidates == {p \in Procs : state[p] = "BLOCKED" /\ resident[p]}

MetBefore(p, q) ==
    \E d, e \in Devices : \E i \in DOMAIN device_q[d], j \in DOMAIN device_q[e] :
        /\ device_q[d][i] = p /\ device_q[e][j] = q
        /\ d < e \/ (d = e /\ i < j)

BetterVictim(p, q) ==
    \/ io[p].remaining > io[q].remaining
    \/ /\ io[p].remaining = io[q].remaining
       /\ \/ profile[p].blocks > profile[q].blocks
          \/ profile[p].blocks = profile[q].blocks /\ MetBefore(p, q)

SwapOut ==
    /\ pc \in MidTerm /\ todo = <<>> /\ NeedsRoom
    /\ \E victim \in Candidates :
          /\ \A p \in Candidates \ {victim} : BetterVictim(victim, p)
          /\ resident' = [resident EXCEPT ![victim] = FALSE]
          /\ cells' = Release(cells, victim)
    /\ stats' = Counted("swap_out")
    /\ Goto(pc, nonresident_q)
    /\ UNCHANGED <<clock, setup, pcb, queues, cpu>>

MidTermDone ==
    /\ pc \in MidTerm /\ todo = <<>>
    /\ ~(NeedsRoom /\ Candidates # {})
    /\ CASE pc = "mid1" -> Goto("job1", job_q)
         [] pc = "mid2" -> Goto("job2", job_q)
         [] pc = "mid3" -> Goto("finish", <<>>)
    /\ UNCHANGED <<clock, setup, pcb, queues, cpu, memory, stats>>

-----------------------------------------------------------------------------
(* job_scheduler walks job_q: reject, skip or admit.                       *)

Job == {"job1", "job2"}

(* ERR_MEM_SIZE: larger than the whole user memory.                        *)
Oversized(p) == profile[p].blocks > TOTAL_BLOCKS

Reject ==
    /\ pc \in Job /\ todo # <<>> /\ Oversized(Head(todo))
    /\ job_q' = Dequeue(job_q, Head(todo))
    /\ Finish(Head(todo), TRUE, sched)
    /\ stats' = CountedFailure
    /\ Goto(pc, Tail(todo))
    /\ UNCHANGED <<clock, setup, io, ready_q, nonresident_q, device_q, cpu>>

Admit ==
    /\ pc \in Job /\ todo # <<>> /\ ~Oversized(Head(todo))
    /\ LET p == Head(todo)
       IN  /\ \E h \in HoleFor(p) :
                 cells' = Claim(cells, h.start, profile[p].blocks, p)
           /\ resident' = [resident EXCEPT ![p] = TRUE]
           /\ job_q' = Dequeue(job_q, p)
           /\ state' = [state EXCEPT ![p] = "READY"]
           /\ ready_q' = Append(ready_q, p)
    /\ Goto(pc, Tail(todo))
    /\ UNCHANGED <<clock, setup, failed, sched, io, nonresident_q, finished_q,
                   device_q, cpu, stats>>

SkipJob ==
    /\ pc \in Job /\ todo # <<>> /\ ~Oversized(Head(todo))
    /\ ~CanFit(cells, profile[Head(todo)].blocks)
    /\ Goto(pc, Tail(todo))
    /\ UNCHANGED <<clock, setup, pcb, queues, cpu, memory, stats>>

JobDone ==
    /\ pc \in Job /\ todo = <<>>
    /\ IF pc = "job1" THEN Goto("mid2", nonresident_q) ELSE Goto("preempt", <<>>)
    /\ UNCHANGED <<clock, setup, pcb, queues, cpu, memory, stats>>

-----------------------------------------------------------------------------
(* should_preempt and what main_loop does about it.                        *)

Shorter(p, q) == sched[p].remaining < sched[q].remaining
MoreUrgent(p, q) == profile[p].priority < profile[q].priority

(* Mutant: only the first ready process is compared.                       *)
ShouldPreemptForFirst ==
    /\ running # NULL /\ ready_q # <<>>
    /\ \/ config.alg_sched = "P_SJF" /\ Shorter(Head(ready_q), running)
       \/ config.alg_sched = "P_PRIOR" /\ MoreUrgent(Head(ready_q), running)

ShouldPreempt ==
    /\ running # NULL
    /\ \E p \in Range(ready_q) :
          \/ config.alg_sched = "P_SJF" /\ Shorter(p, running)
          \/ config.alg_sched = "P_PRIOR" /\ MoreUrgent(p, running)

Preempt ==
    /\ pc = "preempt" /\ ShouldPreempt
    /\ state' = [state EXCEPT ![running] = "READY"]
    /\ ready_q' = Append(ready_q, running)
    /\ running' = NULL
    /\ Goto("decide", <<>>)
    /\ UNCHANGED <<clock, setup, failed, sched, io, job_q, nonresident_q, finished_q,
                   device_q, next_pcb, switch_remaining, memory, stats>>

KeepRunning ==
    /\ pc = "preempt" /\ ~ShouldPreempt
    /\ Goto("decide", <<>>)
    /\ UNCHANGED <<clock, setup, pcb, queues, cpu, memory, stats>>

(* Mutant: processes that wait for a device are forgotten.                 *)
FinishedDespiteDevices ==
    /\ \A p \in Range(table) : state[p] # "NONE"
    /\ job_q = <<>> /\ ready_q = <<>> /\ nonresident_q = <<>>
    /\ running = NULL /\ next_pcb = NULL
    /\ table # <<>>

(* Mutant: processes still to arrive are forgotten.                        *)
FinishedDespiteArrivals ==
    /\ job_q = <<>> /\ ready_q = <<>> /\ nonresident_q = <<>>
    /\ running = NULL /\ next_pcb = NULL
    /\ \A d \in Devices : device_q[d] = <<>>
    /\ table # <<>>

(* simulation_finished: every process has arrived and left every queue.    *)
SimulationFinished ==
    /\ \A p \in Range(table) : state[p] # "NONE"
    /\ job_q = <<>> /\ ready_q = <<>> /\ nonresident_q = <<>>
    /\ running = NULL /\ next_pcb = NULL
    /\ \A d \in Devices : device_q[d] = <<>>
    /\ table # <<>>

(* main_loop tests for the end twice: before the tick and after a CPU tick *)
StopSimulation ==
    /\ pc \in {"decide", "finish"} /\ SimulationFinished
    /\ sim_state' = "STOP"
    /\ Goto("idle", <<>>)
    /\ UNCHANGED <<current_time, setup, pcb, queues, cpu, memory, stats>>

EndTick ==
    /\ pc = "finish" /\ ~SimulationFinished
    /\ Goto("idle", <<>>)
    /\ UNCHANGED <<clock, setup, pcb, queues, cpu, memory, stats>>

-----------------------------------------------------------------------------
(* scheduler and begin_context_switch.                                     *)

(* alg_fcfs, alg_sjf and alg_priority: the first best process of ready_q.  *)
BetterChoice(p, q) ==
    CASE config.alg_sched \in {"FCFS", "ROUND"} -> FALSE
      [] config.alg_sched \in {"NP_SJF", "P_SJF"} -> Shorter(p, q)
      [] config.alg_sched \in {"NP_PRIOR", "P_PRIOR"} -> MoreUrgent(p, q)

ChosenFrom(q) ==
    {q[i] : i \in {i \in DOMAIN q :
        /\ \A j \in DOMAIN q : ~BetterChoice(q[j], q[i])
        /\ \A j \in 1 .. i - 1 : BetterChoice(q[i], q[j])}}

(* Without a switch cost the process is dispatched at once, and the same   *)
(* call of main_loop goes on to run it.                                    *)
SelectNext ==
    /\ pc = "decide" /\ ~SimulationFinished
    /\ next_pcb = NULL /\ running = NULL
    /\ \E p \in ChosenFrom(ready_q) :
          /\ ready_q' = Dequeue(ready_q, p)
          /\ \/ config.switch_cost = 0 /\ Dispatch(p)
             \/ /\ config.switch_cost > 0
                /\ next_pcb' = p
                /\ switch_remaining' = config.switch_cost
                /\ UNCHANGED <<running, state, sched>>
    /\ stats' = Counted("switches")
    /\ Goto("decide", <<>>)
    /\ UNCHANGED <<clock, setup, failed, io, job_q, nonresident_q, finished_q,
                   device_q, memory>>

-----------------------------------------------------------------------------
(* The three kinds of tick.  The clock advances and tick_background first  *)
(* charges the time to every process that waits.                           *)

(* Mutant: the running process is charged as ready, too.                   *)
WaitsOrRuns(p) == p \in Range(ready_q) \cup {next_pcb, running}

WaitsForCpu(p) == p \in Range(ready_q) \cup {next_pcb}

Charge(p, d) ==
    LET s == sched[p]
        blocked == \E e \in Devices : p \in Range(device_q[e])
        out == (blocked /\ ~resident[p]) \/ p \in Range(nonresident_q)
    IN  [s EXCEPT !.ready = @ + IF WaitsForCpu(p) THEN d ELSE 0,
                  !.blocked = @ + IF blocked THEN d ELSE 0,
                  !.nonresident = @ + IF out THEN d ELSE 0]

StartTick(kind, d) ==
    /\ current_time' = current_time + d
    /\ sched' = [p \in Procs |-> Charge(p, d)]
    /\ pc' = kind /\ dev' = 0 /\ delta' = d
    /\ UNCHANGED <<todo, sim_state, setup, state, failed, io, queues, memory>>

(* Mutant: the whole switch in one tick.                                   *)
WholeSwitch == switch_remaining

SwitchShare == IF switch_remaining < TICK THEN switch_remaining ELSE TICK

SwitchTick ==
    LET d == SwitchShare
    IN  /\ pc = "decide" /\ next_pcb # NULL
        /\ StartTick("bg_switch", d)
        /\ switch_remaining' = switch_remaining - d
        /\ stats' = [stats EXCEPT !.switch_time = @ + d]
        /\ UNCHANGED <<running, next_pcb>>

IdleTick ==
    /\ pc = "decide" /\ ~SimulationFinished
    /\ next_pcb = NULL /\ running = NULL /\ ready_q = <<>>
    /\ StartTick("bg_idle", TICK)
    /\ stats' = [stats EXCEPT !.idle_time = @ + TICK]
    /\ UNCHANGED cpu

RunTick ==
    /\ pc = "decide" /\ next_pcb = NULL /\ running # NULL
    /\ StartTick("bg_run", TICK)
    /\ UNCHANGED <<cpu, stats>>

-----------------------------------------------------------------------------
(* tick_device_queues: one step per device, only its first request moves.  *)

Background == {"bg_switch", "bg_idle", "bg_run"}

(* Mutant: the latest request is served first.                             *)
LastRequester == Last(device_q[dev])

Requester == Head(device_q[dev])
Served == io[Requester].remaining =< delta

AtDevice ==
    /\ pc \in Background /\ dev < IO_DEVICE_COUNT
    /\ dev' = dev + 1
    /\ UNCHANGED <<pc, todo, delta, clock, setup, cpu>>

DeviceWorks ==
    /\ AtDevice
    /\ device_q[dev] # <<>> => ~Served
    /\ io' = IF device_q[dev] = <<>> THEN io
             ELSE [io EXCEPT ![Requester].remaining = @ - delta]
    /\ UNCHANGED <<state, failed, sched, queues, memory, stats>>

(* The first request is served: what both outcomes have in common.         *)
CompleteIo ==
    /\ AtDevice
    /\ device_q[dev] # <<>> /\ Served
    /\ io' = [io EXCEPT ![Requester].remaining = 0, ![Requester].completed = TRUE]
    /\ device_q' = [device_q EXCEPT ![dev] = Dequeue(@, Requester)]

(* blocked_to_ready, or the same for a process that is out of memory.      *)
IoComplete ==
    /\ CompleteIo
    /\ state' = [state EXCEPT ![Requester] = "READY"]
    /\ IF resident[Requester]
       THEN ready_q' = Append(ready_q, Requester) /\ UNCHANGED nonresident_q
       ELSE nonresident_q' = Append(nonresident_q, Requester) /\ UNCHANGED ready_q
    /\ UNCHANGED <<failed, sched, job_q, finished_q, memory, stats>>

(* cancel_by_keyboard: one time in five the user cancels the process.      *)
KeyboardCancel ==
    /\ CompleteIo
    /\ profile[Requester].device = IO_KEYBOARD
    /\ Finish(Requester, TRUE, sched)
    /\ stats' = CountedFailure
    /\ UNCHANGED <<job_q, ready_q, nonresident_q>>

BackgroundDone == pc \in Background /\ dev = IO_DEVICE_COUNT

(* The end of a switch tick (dispatch when the cost is paid) and of an     *)
(* idle tick; a tick of the CPU goes on to tick_running_process.           *)
SwitchDone ==
    /\ BackgroundDone /\ pc = "bg_switch" /\ switch_remaining =< 0
    /\ Dispatch(next_pcb)
    /\ Goto("idle", <<>>)
    /\ UNCHANGED <<clock, setup, failed, io, queues, memory, stats>>

TickDone ==
    /\ BackgroundDone
    /\ \/ pc = "bg_switch" /\ switch_remaining > 0 /\ Goto("idle", <<>>)
       \/ pc = "bg_idle" /\ Goto("idle", <<>>)
       \/ pc = "bg_run" /\ Goto("cpu", <<>>)
    /\ UNCHANGED <<clock, setup, pcb, queues, cpu, memory, stats>>

-----------------------------------------------------------------------------
(* tick_running_process: the tick is charged to the running process, and   *)
(* the first of five outcomes that applies, in the order of the code.      *)

Ran == [sched EXCEPT
    ![running].remaining = @ - TICK,
    ![running].cpu = @ + TICK,
    ![running].quantum = IF config.alg_sched = "ROUND" THEN @ - TICK ELSE @]

Fails == /\ profile[running].planned /\ ~failed[running]
         /\ Ran[running].cpu >= profile[running].trigger
(* Mutant: a process with nothing left runs for one tick more.             *)
CompletesLate == Ran[running].remaining < 0

Completes == Ran[running].remaining =< 0
RequestsIo == /\ profile[running].has_io /\ ~io[running].started
              /\ Ran[running].cpu >= profile[running].io_start
QuantumExpires == config.alg_sched = "ROUND" /\ Ran[running].quantum =< 0

Run(counted) ==
    /\ pc = "cpu"
    /\ stats' = [counted EXCEPT !.cpu_time = @ + TICK]
    /\ Goto("mid3", nonresident_q)
    /\ UNCHANGED <<clock, setup, job_q, nonresident_q, next_pcb, switch_remaining>>

LeaveCpu == running' = NULL

(* fail_running_process                                                    *)
CpuFail ==
    /\ Run(CountedFailure)
    /\ Fails
    /\ Finish(running, TRUE, Ran)
    /\ LeaveCpu
    /\ UNCHANGED <<io, ready_q, device_q>>

(* terminate_running_process                                               *)
CpuTerminate ==
    /\ Run(Counted("completed"))
    /\ ~Fails /\ Completes
    /\ Finish(running, FALSE, Ran)
    /\ LeaveCpu
    /\ UNCHANGED <<io, ready_q, device_q>>

(* running_to_blocked                                                      *)
CpuBlock ==
    /\ Run(stats)
    /\ ~Fails /\ ~Completes /\ RequestsIo
    /\ sched' = Ran
    /\ io' = [io EXCEPT ![running].started = TRUE,
                        ![running].remaining = profile[running].io_duration]
    /\ state' = [state EXCEPT ![running] = "BLOCKED"]
    /\ device_q' = [device_q EXCEPT
          ![profile[running].device] = Append(@, running)]
    /\ LeaveCpu
    /\ UNCHANGED <<failed, ready_q, finished_q, memory>>

CpuQuantum ==
    /\ Run(stats)
    /\ ~Fails /\ ~Completes /\ ~RequestsIo /\ QuantumExpires
    /\ sched' = [Ran EXCEPT ![running].quantum = config.quantum]
    /\ state' = [state EXCEPT ![running] = "READY"]
    /\ ready_q' = Append(ready_q, running)
    /\ LeaveCpu
    /\ UNCHANGED <<failed, io, finished_q, device_q, memory>>

CpuContinue ==
    /\ Run(stats)
    /\ ~Fails /\ ~Completes /\ ~RequestsIo /\ ~QuantumExpires
    /\ sched' = Ran
    /\ UNCHANGED <<running, state, failed, io, ready_q, finished_q, device_q, memory>>

-----------------------------------------------------------------------------
(* After STOP main leaves its loop and the program ends.                   *)
Stopped == pc = "idle" /\ sim_state = "STOP" /\ UNCHANGED vars

Arrival == BeginTick \/ Arrive \/ SkipRow \/ ArrivalDone
Swapper == SwapIn \/ SkipSwapIn \/ SwapOut \/ MidTermDone
Admission == Reject \/ Admit \/ SkipJob \/ JobDone
Decision == \/ Preempt \/ KeepRunning \/ StopSimulation \/ EndTick
            \/ SelectNext \/ SwitchTick \/ IdleTick \/ RunTick
Device == \/ DeviceWorks \/ IoComplete \/ KeyboardCancel
          \/ SwitchDone \/ TickDone
Cpu == CpuFail \/ CpuTerminate \/ CpuBlock \/ CpuQuantum \/ CpuContinue

Next == Arrival \/ Swapper \/ Admission \/ Decision \/ Device \/ Cpu \/ Stopped

Spec == Init /\ [][Next]_vars
=============================================================================
