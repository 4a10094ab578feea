-------------------------- MODULE SimulatorProofs --------------------------
(***************************************************************************)
(* Proofs about what stands around the kernel.  Commands at any moment     *)
(* between two ticks keep what is proved of it, and what the session adds  *)
(* holds for any number of commands, processes and changes of the          *)
(* configuration.  The records tell what the kernel did: the Gantt chart   *)
(* adds up to the times it charged, for any costs and lengths, and the     *)
(* interrupts of every process tell what it went through, for any number   *)
(* of them and any size of the ring.  The panels of a window and the       *)
(* comparison tool count the same, each by its own code: the counters of   *)
(* the kernel are what its states, its queues and its block list tell.     *)
(***************************************************************************)
EXTENDS Session, Timeline, Dashboard, KernelProofs

-----------------------------------------------------------------------------
(* The session.                                                            *)

(* A call of main_loop is under way only while the simulation runs.        *)
CallRuns == pc # "idle" => sim_state = "RUN"

SessionInv ==
    /\ KernelInv /\ MemoryMatchesResidence
    /\ closed \in BOOLEAN /\ fresh \in BOOLEAN
    /\ CallRuns /\ QuietIsShown

(* What a command may change of the kernel while it is between two ticks.  *)
Commanded ==
    /\ pc = "idle"
    /\ UNCHANGED <<walk, current_time, state, failed, queues, cpu, memory, stats>>
    /\ sim_state' \in SimulatorState
    /\ table' \in Seq(Procs)
    /\ config' \in Config
    /\ sched' \in [Procs -> SchedData]
    /\ io' \in [Procs -> IoState]
    /\ profile' \in [Procs -> Profile]
    /\ \A p \in Procs : profile'[p].blocks = profile[p].blocks
                        /\ profile'[p].device = profile[p].device

(* A command between two ticks keeps what is proved of the kernel.         *)
LEMMA CommandedKeeps ==
    ASSUME KernelInv, MemoryMatchesResidence, Commanded
    PROVE  KernelInv' /\ MemoryMatchesResidence'
<1> USE DEF Commanded, walk, queues, cpu, memory
<1>1. TypeInv'
  BY DEF KernelInv, TypeInv, TypeOK, TickHasOwner
<1>2. Structure'
  BY DEF KernelInv, Structure, OnePlaceEach, QueuesDistinct, InPlace,
         OnlyResidentsCompete
<1>3. WalkStaysInQueue'
  BY DEF WalkStaysInQueue, Job
<1>4. MemoryMatchesResidence'
  BY DEF MemoryMatchesResidence
<1> QED
  BY <1>1, <1>2, <1>3, <1>4 DEF KernelInv

(* RUN, PAUSE and STOP are such commands.                                  *)
LEMMA EnterCommands ==
    ASSUME KernelInv, NEW st \in SimulatorState, Enter(st)
    PROVE  Commanded
  BY DEF KernelInv, TypeInv, TypeOK, Enter, Reads, Commanded, setup, pcb

(* So are the SET_ commands.                                               *)
LEMMA ConfigureCommands ==
    ASSUME KernelInv, NEW c \in Config, Configure(c)
    PROVE  Commanded
  BY DEF KernelInv, TypeInv, TypeOK, Configure, Reads, Commanded, setup, pcb, clock

(* Only valid settings come into force.                                    *)
LEMMA ConfigureProperties ==
    ASSUME KernelInv, SetConfig \/ SetAlgSched \/ SetAlgMem \/ SetQuantum \/ SetSwitchCost
    PROVE  \E c \in Config : Configure(c)
<1>1. config \in Settings /\ ValidConfig(config)
  BY DEF KernelInv, TypeInv, TypeOK, Config
<1>2. \A c \in Asked : c \in Settings
  BY SessionAssumption
<1>3. CASE SetConfig
  BY <1>2, <1>3 DEF SetConfig, Config
<1>4. CASE SetAlgSched
  <2>1. PICK c \in Asked :
           /\ ValidConfig([config EXCEPT !.alg_sched = c.alg_sched])
           /\ Configure([config EXCEPT !.alg_sched = c.alg_sched])
    BY <1>4 DEF SetAlgSched
  <2>2. [config EXCEPT !.alg_sched = c.alg_sched] \in Settings
    BY <1>1, <1>2 DEF Settings
  <2> QED
    BY <2>1, <2>2 DEF Config
<1>5. CASE SetAlgMem
  <2>1. PICK c \in Asked : Configure([config EXCEPT !.alg_memory = c.alg_memory])
    BY <1>5 DEF SetAlgMem
  <2>2. [config EXCEPT !.alg_memory = c.alg_memory] \in Config
    BY <1>1, <1>2 DEF Settings, Config, ValidConfig
  <2> QED
    BY <2>1, <2>2
<1>6. CASE SetQuantum
  <2>1. PICK c \in Asked : c.quantum > 0 /\ Configure([config EXCEPT !.quantum = c.quantum])
    BY <1>6 DEF SetQuantum
  <2>2. [config EXCEPT !.quantum = c.quantum] \in Config
    BY <1>1, <1>2, <2>1 DEF Settings, Config, ValidConfig
  <2> QED
    BY <2>1, <2>2
<1>7. CASE SetSwitchCost
  <2>1. PICK c \in Asked : Configure([config EXCEPT !.switch_cost = c.switch_cost])
    BY <1>7 DEF SetSwitchCost
  <2>2. [config EXCEPT !.switch_cost = c.switch_cost] \in Config
    BY <1>1, <1>2 DEF Settings, Config, ValidConfig
  <2> QED
    BY <2>1, <2>2
<1> QED
  BY <1>3, <1>4, <1>5, <1>6, <1>7

(* Creating processes.                                                     *)

(* The table with one more process is a table of processes.                *)
LEMMA NextRowsType ==
    ASSUME table \in Seq(Procs), NEW n \in Nat, Len(table) + n =< Len(Table)
    PROVE  NextRows(n) \in Seq(Procs)
<1> DEFINE first == Len(table) + 1
           last == Len(table) + n
<1>1. first \in Nat /\ last \in Nat /\ first >= 1 /\ last =< Len(Table)
  OBVIOUS
<1>2. Table \in Seq(Procs)
  BY KernelAssumption
<1>3. \A i \in first .. last : Table[i] \in Procs
  BY <1>1, <1>2
<1>4. SubSeq(Table, first, last) \in Seq(Procs)
  BY <1>1, <1>2, <1>3
<1> QED
  BY <1>4 DEF NextRows

(* A process that is created has the request of its profile.               *)
LEMMA RequestsGiven ==
    ASSUME KernelInv, NEW rows
    PROVE  /\ WithRequests(rows) \in [Procs -> Profile]
           /\ \A p \in Procs :
                 /\ WithRequests(rows)[p].blocks = profile[p].blocks
                 /\ WithRequests(rows)[p].device = profile[p].device
<1>1. \A p \in Procs : profile[p] \in Profile
  BY DEF KernelInv, TypeInv, TypeOK
<1>2. ASSUME NEW w \in Profile, NEW b
      PROVE  LET v == [w EXCEPT !.has_io = w.has_io \/ b]
             IN  v \in Profile /\ v.blocks = w.blocks /\ v.device = w.device
  BY DEF Profile
<1> QED
  BY <1>1, <1>2 DEF WithRequests

(* Creating a process is a command in this sense.                          *)
LEMMA CreateCommands ==
    ASSUME KernelInv, NEW n \in Nat, NEW workload \in [Procs -> Profile],
           \A p \in Procs : workload[p].blocks = profile[p].blocks
                             /\ workload[p].device = profile[p].device,
           Create(n, workload)
    PROVE  Commanded
<1>1. TypeOK /\ pc = "idle"
  BY DEF KernelInv, TypeInv, Create, Reads
<1>2. table' \in Seq(Procs)
  BY <1>1, NextRowsType DEF Create, TypeOK
<1>3. \A p \in Procs : sched[p] \in SchedData /\ io[p] \in IoState
                        /\ workload[p] \in Profile /\ config.quantum \in Int
  BY <1>1, FieldTypes
<1>4. sched' \in [Procs -> SchedData]
  BY <1>3 DEF Create, SchedData
<1>5. io' \in [Procs -> IoState]
  <2>1. \A p \in Procs : [io[p] EXCEPT !.remaining = workload[p].io_duration] \in IoState
    BY <1>3 DEF IoState, Profile
  <2> QED
    BY <1>3, <2>1 DEF Create
<1> QED
  BY <1>1, <1>2, <1>4, <1>5 DEF Create, Commanded, TypeOK, clock

(* So is everything process_stdin does.                                    *)
LEMMA CommandsCommand == KernelInv /\ Commands => Commanded
<1> SUFFICES ASSUME KernelInv, Commands PROVE Commanded
  OBVIOUS
<1>1. CASE RunCommand \/ PauseCommand \/ StopCommand
  BY <1>1, EnterCommands DEF RunCommand, PauseCommand, StopCommand, SimulatorState
<1>2. CASE Refresh
  BY <1>2 DEF Refresh, Reads, vars, clock, setup, pcb, KernelInv, TypeInv, TypeOK,
              Commanded
<1>3. CASE SetConfig \/ SetAlgSched \/ SetAlgMem \/ SetQuantum \/ SetSwitchCost
  BY <1>3, ConfigureProperties, ConfigureCommands
<1>4. CASE Add \/ Test
  BY <1>4, CreateCommands, SessionAssumption DEF Add, Test, KernelInv, TypeInv, TypeOK
<1>5. ASSUME NEW n \in 1 .. Len(Table), Random(n) PROVE Commanded
  <2>1. n \in Nat
    BY KernelAssumption
  <2>2. Create(n, WithRequests(NextRows(n)))
    BY <1>5 DEF Random
  <2> QED
    BY <2>1, <2>2, RequestsGiven, CreateCommands
<1> QED
  BY <1>1, <1>2, <1>3, <1>4, <1>5 DEF Commands

-----------------------------------------------------------------------------
(* The steps of main.                                                      *)

(* A tick is a step of the kernel.                                         *)
LEMMA TickIsNext == Tick => Next
  BY DEF Tick, Next

(* A tick begins only while the simulation runs, and only its last step    *)
(* may stop it.                                                            *)
LEMMA TickNeedsRun == CallRuns /\ Tick => sim_state = "RUN"
  BY DEF CallRuns, Tick, Arrival, BeginTick, Arrive, SkipRow, ArrivalDone,
         Swapper, SwapIn, SkipSwapIn, SwapOut, MidTermDone, MidTerm,
         Admission, Reject, Admit, SkipJob, JobDone, Job,
         Decision, Preempt, KeepRunning, StopSimulation, EndTick, SelectNext,
         SwitchTick, IdleTick, RunTick, StartTick, Goto,
         Device, DeviceWorks, IoComplete, KeyboardCancel, CompleteIo, AtDevice,
         SwitchDone, TickDone, Background,
         Cpu, CpuFail, CpuTerminate, CpuBlock, CpuQuantum, CpuContinue, Run

(* A tick leaves the simulation running, or stops it as its last step.     *)
LEMMA TickEndsRunning ==
    CallRuns /\ Tick => \/ sim_state' = "RUN"
                        \/ sim_state' = "STOP" /\ pc' = "idle"
<1> SUFFICES ASSUME CallRuns, Tick
             PROVE  sim_state' = sim_state \/ (sim_state' = "STOP" /\ pc' = "idle")
  BY TickNeedsRun
<1> QED
  BY DEF Tick, Arrival, BeginTick, Arrive, SkipRow, ArrivalDone,
         Swapper, SwapIn, SkipSwapIn, SwapOut, MidTermDone, MidTerm,
         Admission, Reject, Admit, SkipJob, JobDone, Job,
         Decision, Preempt, KeepRunning, StopSimulation, EndTick, SelectNext,
         SwitchTick, IdleTick, RunTick, StartTick, Goto,
         Device, DeviceWorks, IoComplete, KeyboardCancel, CompleteIo, AtDevice,
         SwitchDone, TickDone, Background,
         Cpu, CpuFail, CpuTerminate, CpuBlock, CpuQuantum, CpuContinue, Run, clock

(* A call that is under way finds the simulation running.                  *)
LEMMA TickKeepsCallRuns == CallRuns /\ Tick => CallRuns'
  BY TickEndsRunning DEF CallRuns

(* Every step of a session keeps the invariant.                            *)
LEMMA SessionStep == SessionInv /\ [SessionNext]_allVars => SessionInv'
<1> SUFFICES ASSUME SessionInv, [SessionNext]_allVars PROVE SessionInv'
  OBVIOUS
<1> USE DEF SessionInv
<1>1. CASE Commands
  <2>1. Commanded /\ Forced
    BY <1>1, CommandsCommand
       DEF Commands, RunCommand, PauseCommand, StopCommand, Enter, Refresh, SetConfig,
           SetAlgSched, SetAlgMem, SetQuantum, SetSwitchCost, Configure, Add, Test,
           Random, Create
  <2>2. pc' = "idle" /\ fresh' = TRUE /\ closed' = closed
    BY <2>1 DEF Commanded, Forced, walk
  <2> QED
    BY <2>1, <2>2, CommandedKeeps DEF CallRuns, QuietIsShown
<1>2. CASE Tick
  <2>1. KernelInv' /\ MemoryMatchesResidence'
    BY <1>2, TickIsNext, StepKernelInv, StepMemory
  <2>2. CallRuns'
    BY <1>2, TickKeepsCallRuns
  <2>3. closed' = closed /\ fresh' \in BOOLEAN
    BY <1>2 DEF Tick
  <2>4. QuietIsShown'
    BY <1>2, TickEndsRunning DEF QuietIsShown, Tick
  <2> QED
    BY <2>1, <2>2, <2>3, <2>4
<1>3. CASE Idles \/ Over \/ CloseInput \/ UNCHANGED allVars
  <2>1. UNCHANGED vars /\ fresh' = fresh /\ closed' \in BOOLEAN
        /\ (closed => closed')
    BY <1>3 DEF Idles, Over, Stopped, CloseInput, allVars, session
  <2>2. KernelInv' /\ MemoryMatchesResidence'
    BY <2>1, StepKernelInv, StepMemory
  <2>3. pc' = pc /\ sim_state' = sim_state
    BY <2>1 DEF vars, walk, clock
  <2> QED
    BY <2>1, <2>2, <2>3 DEF CallRuns, QuietIsShown
<1>4. CASE EndOfInput
  <2>1. Commanded
    BY <1>4 DEF EndOfInput, Commanded, setup, pcb, SimulatorState, KernelInv, TypeInv,
                TypeOK
  <2>2. KernelInv' /\ MemoryMatchesResidence'
    BY <2>1, CommandedKeeps
  <2> QED
    BY <1>4, <2>2 DEF EndOfInput, CallRuns, QuietIsShown, walk
<1> QED
  BY <1>1, <1>2, <1>3, <1>4 DEF SessionNext

(* A session starts with it.                                               *)
LEMMA SessionStart == SessionInit => SessionInv
<1> SUFFICES ASSUME SessionInit PROVE SessionInv
  OBVIOUS
<1>1. Initially(<<>>, "PAUSE") /\ <<>> \in Seq(Procs) /\ "PAUSE" \in SimulatorState
  BY DEF SessionInit, SimulatorState
<1>2. KernelInv /\ MemoryMatchesResidence
  BY <1>1, InitKernelInv, InitMemory
<1> QED
  BY <1>1, <1>2 DEF SessionInit, SessionInv, CallRuns, QuietIsShown, Initially

(* The invariant of the kernel, its memory and what the snapshots show     *)
(* survive every command: input.c.                                         *)
THEOREM SessionInvariant == SessionSpec => []SessionInv
  BY SessionStart, SessionStep, PTL DEF SessionSpec

-----------------------------------------------------------------------------
(* What follows for the user.                                              *)

(* Commands between ticks never link a PCB twice or lose it.               *)
THEOREM SessionKeepsPlaces == SessionSpec => []OnePlaceEach
<1>1. SessionInv => OnePlaceEach
  BY DEF SessionInv, KernelInv, Structure
<1> QED
  BY <1>1, SessionInvariant, PTL

(* A change of the placement policy or a process created late never makes  *)
(* two processes share a block, or one keep a block after its end.         *)
THEOREM SessionKeepsMemory == SessionSpec => []MemoryMatchesResidence
<1>1. SessionInv => MemoryMatchesResidence
  BY DEF SessionInv
<1> QED
  BY <1>1, SessionInvariant, PTL

(* While the simulation stands still the last snapshot shows it as it is.  *)
THEOREM QuietSimulationIsShown == SessionSpec => []QuietIsShown
<1>1. SessionInv => QuietIsShown
  BY DEF SessionInv
<1> QED
  BY <1>1, SessionInvariant, PTL

(* Nothing in the pipe behind STOP has an effect.                          *)
THEOREM StopHolds == SessionSpec => StopIsFinal
<1>1. SessionInv /\ [SessionNext]_allVars => [sim_state = "STOP" => UNCHANGED vars]_allVars
  <2> SUFFICES ASSUME SessionInv, [SessionNext]_allVars, sim_state = "STOP"
               PROVE  UNCHANGED vars
    OBVIOUS
  <2>1. pc = "idle"
    BY DEF SessionInv, CallRuns
  <2>2. ~Commands
    BY DEF Commands, RunCommand, PauseCommand, StopCommand, Enter, Refresh, SetConfig,
           SetAlgSched, SetAlgMem, SetQuantum, SetSwitchCost, Configure, Add, Test,
           Random, Create, Reads
  <2>3. ~Tick
    BY <2>1, TickNeedsRun DEF SessionInv
  <2> QED
    BY <2>2, <2>3 DEF SessionNext, Idles, CloseInput, EndOfInput, Over, Stopped, allVars
<1> QED
  BY <1>1, SessionInvariant, PTL DEF SessionSpec, StopIsFinal

(* In a tick only StopSimulation changes the state of the simulator.       *)
LEMMA OnlyTheEndStops == Tick => sim_state' = sim_state \/ StopSimulation
  BY DEF Tick, Arrival, BeginTick, Arrive, SkipRow, ArrivalDone,
         Swapper, SwapIn, SkipSwapIn, SwapOut, MidTermDone,
         Admission, Reject, Admit, SkipJob, JobDone,
         Decision, Preempt, KeepRunning, EndTick, SelectNext,
         SwitchTick, IdleTick, RunTick, StartTick, Goto,
         Device, DeviceWorks, IoComplete, KeyboardCancel, CompleteIo, AtDevice,
         SwitchDone, TickDone,
         Cpu, CpuFail, CpuTerminate, CpuBlock, CpuQuantum, CpuContinue, Run, clock

(* When nobody is left to arrive and every queue is empty, all have ended. *)
LEMMA FinishedMeansEnded ==
    ASSUME KernelInv, SimulationFinished, NEW p \in Range(table)
    PROVE  state[p] = "TERMINATED"
<1>1. TypeOK /\ OnePlaceEach
  BY DEF KernelInv, TypeInv, Structure
<1>2. p \in Procs
  BY <1>1 DEF TypeOK, Range
<1>3. /\ state[p] # "NONE" /\ running = NULL /\ next_pcb = NULL /\ p # NULL
      /\ job_q = <<>> /\ ready_q = <<>> /\ nonresident_q = <<>>
      /\ \A d \in Devices : device_q[d] = <<>>
  BY <1>2, KernelAssumption DEF SimulationFinished
<1>4. p \notin Range(<<>>)
  BY DEF Range
<1>5. profile[p].device \in Devices
  BY <1>1, <1>2, FieldTypes
<1>6. state[p] \notin {"NEW", "READY", "RUNNING", "BLOCKED"}
  BY <1>1, <1>2, <1>3, <1>4, <1>5 DEF OnePlaceEach, InPlace
<1> QED
  BY <1>1, <1>2, <1>3, <1>6 DEF TypeOK, ProcessState

(* The simulation never ends by itself with a process left behind.         *)
THEOREM EndsComplete == SessionSpec => EndsWhenAllEnded
<1>1. SessionInv /\ [SessionNext]_allVars
      => [pc # "idle" /\ sim_state' = "STOP"
             => \A p \in Range(table) : state[p] = "TERMINATED"]_allVars
  <2> SUFFICES ASSUME SessionInv, SessionNext, pc # "idle", sim_state' = "STOP",
                      NEW p \in Range(table)
               PROVE  state[p] = "TERMINATED"
    OBVIOUS
  <2>1. sim_state = "RUN" /\ KernelInv
    BY DEF SessionInv, CallRuns
  <2>2. ~Commands /\ ~EndOfInput /\ ~Idles /\ ~Over /\ ~CloseInput
    BY DEF Commands, RunCommand, PauseCommand, StopCommand, Enter, Refresh, SetConfig,
           SetAlgSched, SetAlgMem, SetQuantum, SetSwitchCost, Configure, Add, Test,
           Random, Create, Reads, EndOfInput, Idles, Capped, Over, Stopped, CloseInput
  <2>3. StopSimulation
    BY <2>1, <2>2, OnlyTheEndStops DEF SessionNext
  <2> QED
    BY <2>1, <2>3, FinishedMeansEnded DEF StopSimulation
<1> QED
  BY <1>1, SessionInvariant, PTL DEF SessionSpec, EndsWhenAllEnded

(* What dispatch leaves to a process under Round Robin.                    *)
LEMMA DispatchRenews ==
    ASSUME TypeOK, NEW p \in Procs, Dispatch(p), config.alg_sched = "ROUND"
    PROVE  running' = p /\ sched'[p].quantum > 0
<1>1. config.quantum > 0 /\ config.quantum \in Nat
  BY DEF TypeOK, Config, ValidConfig, Settings
<1>2. sched[p].quantum \in Int
  BY FieldTypes
<1>3. QuantumFor(p) > 0
  BY <1>1, <1>2 DEF QuantumFor
<1>4. sched'[p].quantum = QuantumFor(p)
  <2>1. sched[p] \in SchedData
    BY FieldTypes
  <2> QED
    BY <2>1 DEF Dispatch, TypeOK, SchedData
<1> QED
  BY <1>3, <1>4 DEF Dispatch

(* Only a dispatch puts a process on the CPU.                              *)
LEMMA OnlyDispatchRuns ==
    ASSUME KernelInv, Tick, running' \notin {running, NULL}
    PROVE  \E p \in Procs : Dispatch(p)
<1>1. TypeOK
  BY DEF KernelInv, TypeInv
<1>2. CASE SelectNext
  <2>1. PICK p \in ChosenFrom(ready_q) :
           \/ Dispatch(p)
           \/ UNCHANGED running
    BY <1>2 DEF SelectNext
  <2>2. p \in Procs
    BY <1>1 DEF ChosenFrom, TypeOK
  <2> QED
    BY <2>1, <2>2
<1>3. CASE SwitchDone
  BY <1>1, <1>3 DEF SwitchDone, KernelInv, TypeInv, TickHasOwner, TypeOK
<1>4. CASE ~SelectNext /\ ~SwitchDone
  BY <1>4 DEF Tick, Arrival, BeginTick, Arrive, SkipRow, ArrivalDone,
         Swapper, SwapIn, SkipSwapIn, SwapOut, MidTermDone,
         Admission, Reject, Admit, SkipJob, JobDone,
         Decision, Preempt, KeepRunning, StopSimulation, EndTick,
         SwitchTick, IdleTick, RunTick, cpu,
         Device, DeviceWorks, IoComplete, KeyboardCancel, CompleteIo, AtDevice, TickDone,
         Cpu, CpuFail, CpuTerminate, CpuBlock, CpuQuantum, CpuContinue, LeaveCpu
<1> QED
  BY <1>2, <1>3, <1>4

(* Whatever was configured before, a process that Round Robin dispatches   *)
(* has a quantum left.                                                     *)
THEOREM RoundRobinGivesTime == SessionSpec => DispatchedWithQuantum
<1>1. SessionInv /\ [SessionNext]_allVars
      => [running' \notin {running, NULL} /\ config.alg_sched = "ROUND"
             => sched'[running'].quantum > 0]_allVars
  <2> SUFFICES ASSUME SessionInv, SessionNext, running' \notin {running, NULL},
                      config.alg_sched = "ROUND"
               PROVE  sched'[running'].quantum > 0
    OBVIOUS
  <2>1. KernelInv /\ TypeOK
    BY DEF SessionInv, KernelInv, TypeInv
  <2>2. ~Commands
    BY <2>1, CommandsCommand DEF Commanded, cpu
  <2>3. ~EndOfInput /\ ~Idles /\ ~Over /\ ~CloseInput
    BY DEF EndOfInput, Idles, Over, Stopped, CloseInput, allVars, vars, cpu
  <2>4. PICK p \in Procs : Dispatch(p)
    BY <2>1, <2>2, <2>3, OnlyDispatchRuns DEF SessionNext
  <2> QED
    BY <2>1, <2>4, DispatchRenews
<1> QED
  BY <1>1, SessionInvariant, PTL DEF SessionSpec, DispatchedWithQuantum

-----------------------------------------------------------------------------
(* The records are kept beside the kernel: they never change what it does. *)

(* Every step with its records is a step of the kernel.                    *)
LEMMA TimelineSteps ==
    ASSUME TimelineNext
    PROVE  Next
  BY DEF TimelineNext, Draws, Completions, CpuInterrupts, Unrecorded, Next, Decision,
         Device, Cpu

(* With its records the kernel is still the kernel: every behaviour of     *)
(* TimelineSpec is one of Kernel's Spec, so what is proved of that holds.  *)
THEOREM TimelineImplementsKernel == TimelineSpec => Spec
<1>1. TimelineInit => Init
  BY DEF TimelineInit
<1>2. [TimelineNext]_<<vars, timelineVars>> => [Next]_vars
  BY TimelineSteps
<1> QED
  BY <1>1, <1>2, PTL DEF TimelineSpec, Spec

-----------------------------------------------------------------------------
(* The Gantt chart.                                                        *)

Kinds == {"CONTEXT_SWITCH", "IDLE", "PROCESS"}
Interval == [type : Kinds, owner : Procs \cup {NULL}, start : Nat, limit : Nat]

(* The last interval lasts longer by d.                                    *)
Grows(type, owner, d) ==
    LET n == Len(gantt)
    IN  /\ n >= 1 /\ gantt' \in Seq(Interval) /\ Len(gantt') = n
        /\ \A i \in 1 .. n - 1 : gantt'[i] = gantt[i]
        /\ gantt[n].type = type /\ gantt[n].owner = owner
        /\ gantt'[n].type = type /\ gantt'[n].owner = owner
        /\ gantt'[n].start = gantt[n].start /\ gantt'[n].limit = gantt[n].limit + d

(* A new one follows, of length d.                                         *)
Begins(type, owner, d) ==
    LET n == Len(gantt)
    IN  /\ gantt' \in Seq(Interval) /\ Len(gantt') = n + 1
        /\ \A i \in 1 .. n : gantt'[i] = gantt[i]
        /\ gantt'[n + 1].type = type /\ gantt'[n + 1].owner = owner
        /\ gantt'[n + 1].start = current_time /\ gantt'[n + 1].limit = current_time + d
        /\ n >= 1 => gantt[n].type # type \/ gantt[n].owner # owner

(* update_gantt_interval does one or the other.                            *)
LEMMA DrawSteps ==
    ASSUME gantt \in Seq(Interval), current_time \in Nat, NEW type \in Kinds,
           NEW owner \in Procs \cup {NULL}, NEW d \in Nat, Draw(type, owner, d)
    PROVE  Grows(type, owner, d) \/ Begins(type, owner, d)
<1> DEFINE n == Len(gantt)
           new == [type |-> type, owner |-> owner, start |-> current_time,
                   limit |-> current_time + d]
<1>1. n \in Nat /\ DOMAIN gantt = 1 .. n /\ \A i \in 1 .. n : gantt[i] \in Interval
  BY LenProperties, ElementOfSeq
<1>2. CASE gantt # <<>> /\ Last(gantt).type = type /\ Last(gantt).owner = owner
  <2> DEFINE last == gantt[n]
             longer == [last EXCEPT !.limit = @ + d]
  <2>1. n \in 1 .. n /\ n >= 1
    BY <1>1, <1>2, EmptySeq
  <2>2. last \in Interval
    BY <1>1, <2>1
  <2>3. last.type = type /\ last.owner = owner
    BY <1>2 DEF Last
  <2>4. /\ longer \in Interval /\ longer.type = last.type /\ longer.owner = last.owner
        /\ longer.start = last.start /\ longer.limit = last.limit + d
    <3> HIDE DEF last
    <3> QED
      BY <2>2 DEF Interval
  <2>5. gantt' = [gantt EXCEPT ![n] = longer]
    BY <1>2 DEF Draw
  <2> HIDE DEF longer
  <2>6. gantt' \in Seq(Interval) /\ Len(gantt') = n
        /\ \A i \in 1 .. n : gantt'[i] = IF i = n THEN longer ELSE gantt[i]
    BY <1>1, <2>1, <2>4, <2>5, ExceptSeq
  <2>7. \A i \in 1 .. n - 1 : i \in 1 .. n /\ i # n
    <3> HIDE DEF n
    <3> QED
      BY <1>1
  <2>8. \A i \in 1 .. n - 1 : gantt'[i] = gantt[i]
    BY <2>6, <2>7
  <2>9. gantt'[n] = longer
    BY <2>1, <2>6
  <2> QED
    BY <2>1, <2>3, <2>4, <2>6, <2>8, <2>9 DEF Grows
<1>3. CASE ~(gantt # <<>> /\ Last(gantt).type = type /\ Last(gantt).owner = owner)
  <2>1. gantt' = Append(gantt, new)
    BY <1>3 DEF Draw
  <2>2. /\ new \in Interval /\ new.type = type /\ new.owner = owner
        /\ new.start = current_time /\ new.limit = current_time + d
    BY DEF Interval
  <2> HIDE DEF new
  <2>3. /\ gantt' \in Seq(Interval) /\ Len(gantt') = n + 1 /\ gantt'[n + 1] = new
        /\ \A i \in 1 .. n : gantt'[i] = gantt[i]
    BY <2>1, <2>2, AppendProperties
  <2>4. n >= 1 => gantt[n].type # type \/ gantt[n].owner # owner
    BY <1>1, <1>3, EmptySeq DEF Last
  <2> QED
    BY <2>2, <2>3, <2>4 DEF Begins
<1> QED
  BY <1>2, <1>3

(* What the interval i of a chart counts for.                              *)
Part(g, type, owner) ==
    [i \in DOMAIN g |-> IF g[i].type = type /\ g[i].owner = owner
                        THEN g[i].limit - g[i].start ELSE 0]

(* Only the time of its owner gets longer, and by d.                       *)
LEMMA DrawnLengths ==
    ASSUME gantt \in Seq(Interval), current_time \in Nat, NEW type, NEW owner, NEW d \in Nat,
           Grows(type, owner, d) \/ Begins(type, owner, d), NEW t, NEW o
    PROVE  Lengths(t, o)' = Lengths(t, o) + IF t = type /\ o = owner THEN d ELSE 0
<1> DEFINE n == Len(gantt)
           f == Part(gantt, t, o)
           g == Part(gantt', t, o)
           drawn == IF t = type /\ o = owner THEN d ELSE 0
<1>1. n \in Nat /\ DOMAIN gantt = 1 .. n /\ \A i \in 1 .. n : gantt[i] \in Interval
  BY LenProperties, ElementOfSeq
<1>2. /\ gantt' \in Seq(Interval) /\ DOMAIN gantt' = 1 .. Len(gantt')
      /\ \A i \in 1 .. Len(gantt') : gantt'[i] \in Interval
  <2>1. gantt' \in Seq(Interval)
    BY DEF Grows, Begins
  <2> QED
    BY <2>1, LenProperties, ElementOfSeq
<1>3. /\ DOMAIN f = 1 .. n /\ DOMAIN g = 1 .. Len(gantt')
      /\ \A i \in 1 .. n : f[i] \in Int
      /\ \A i \in 1 .. Len(gantt') : g[i] \in Int
  BY <1>1, <1>2 DEF Part, Interval
<1>4. Lengths(t, o) = SumFunctionOnSet(f, 1 .. n)
      /\ Lengths(t, o)' = SumFunctionOnSet(g, 1 .. Len(gantt'))
  BY <1>3 DEF Lengths, Part, SumFunction
<1>5. CASE Grows(type, owner, d)
  <2>1. Len(gantt') = n /\ n \in 1 .. n
    BY <1>1, <1>5 DEF Grows
  <2>2. \A i \in (1 .. n) \ {n} : g[i] = f[i]
    <3>1. \A i \in (1 .. n) \ {n} : i \in 1 .. n - 1
      <4> HIDE DEF n
      <4> QED
        BY <1>1
    <3> QED
      BY <1>1, <1>2, <1>5, <2>1, <3>1 DEF Grows, Part
  <2>3. g[n] = f[n] + drawn
    BY <1>1, <1>2, <1>5, <2>1 DEF Grows, Part, Interval
  <2>4. IsFiniteSet(1 .. n)
    BY <1>1, FS_Interval
  <2> HIDE DEF n, f, g, drawn
  <2>5. /\ SumFunctionOnSet(f, 1 .. n) \in Int
        /\ SumFunctionOnSet(g, 1 .. n) = SumFunctionOnSet(f, 1 .. n) + (g[n] - f[n])
    BY <1>3, <2>1, <2>2, <2>4, SumChanges
  <2>6. g[n] - f[n] = drawn
    BY <1>3, <2>1, <2>3 DEF drawn
  <2> QED
    BY <1>4, <2>1, <2>5, <2>6 DEF drawn
<1>6. CASE Begins(type, owner, d)
  <2>1. Len(gantt') = n + 1 /\ n + 1 \in 1 .. n + 1 /\ (1 .. n + 1) \ {n + 1} = 1 .. n
    BY <1>1, <1>6 DEF Begins
  <2>2. \A i \in 1 .. n : g[i] = f[i]
    BY <1>1, <1>2, <1>6, <2>1 DEF Begins, Part
  <2>3. g[n + 1] = drawn
    <3> DEFINE i == gantt'[n + 1]
    <3>1. /\ n + 1 \in DOMAIN gantt' /\ i.type = type /\ i.owner = owner
          /\ i.start = current_time /\ i.limit = current_time + d
      BY <1>2, <1>6, <2>1 DEF Begins
    <3>2. g[n + 1] = IF i.type = t /\ i.owner = o THEN i.limit - i.start ELSE 0
      BY <3>1 DEF Part
    <3> HIDE DEF i, g, n
    <3>3. (current_time + d) - current_time = d
      OBVIOUS
    <3> QED
      BY <3>1, <3>2, <3>3
  <2>4. IsFiniteSet(1 .. n) /\ IsFiniteSet(1 .. n + 1)
    BY <1>1, FS_Interval
  <2> DEFINE m == n + 1
             U == 1 .. n + 1
             S == 1 .. n
  <2>5. m \in U /\ U \ {m} = S /\ U \in SUBSET U /\ IsFiniteSet(U) /\ IsFiniteSet(S)
        /\ (\A i \in U : g[i] \in Int) /\ (\A i \in S : f[i] \in Int /\ g[i] = f[i])
        /\ g[m] = drawn
    BY <1>3, <2>1, <2>2, <2>3, <2>4
  <2>6. Lengths(t, o)' = SumFunctionOnSet(g, U) /\ Lengths(t, o) = SumFunctionOnSet(f, S)
    BY <1>4, <2>1
  <2> HIDE DEF m, n, f, g, drawn, U, S
  <2>7. SumFunctionOnSet(g, U) = g[m] + SumFunctionOnSet(g, U \ {m})
    BY <2>5, SumTakesOut
  <2>8. SumFunctionOnSet(g, S) = SumFunctionOnSet(f, S)
    BY <2>5, SumAgrees
  <2>9. SumFunctionOnSet(f, S) \in Int
    BY <2>5, SumUnfolds
  <2>10. drawn \in Int
    BY DEF drawn
  <2>11. Lengths(t, o)' = drawn + SumFunctionOnSet(f, S)
    BY <2>5, <2>6, <2>7, <2>8
  <2>12. Lengths(t, o)' = Lengths(t, o) + drawn
    BY <2>6, <2>9, <2>10, <2>11
  <2> QED
    BY <2>12 DEF drawn
<1> QED
  BY <1>5, <1>6

(* The chart covers the time that passes.                                  *)
LEMMA DrawnTiles ==
    ASSUME gantt \in Seq(Interval), current_time \in Nat, GanttTilesTime,
           NEW type, NEW owner, NEW d \in Nat \ {0}, current_time' = current_time + d,
           Grows(type, owner, d) \/ Begins(type, owner, d)
    PROVE  GanttTilesTime'
<1> DEFINE n == Len(gantt)
<1>1. n \in Nat /\ DOMAIN gantt = 1 .. n /\ \A i \in 1 .. n : gantt[i] \in Interval
  BY LenProperties, ElementOfSeq
<1>2. /\ gantt' \in Seq(Interval) /\ DOMAIN gantt' = 1 .. Len(gantt')
      /\ \A i \in 1 .. Len(gantt') : gantt'[i] \in Interval
      /\ Len(gantt') >= 1 /\ gantt' # <<>>
  <2>1. gantt' \in Seq(Interval) /\ Len(gantt') >= 1
    BY <1>1 DEF Grows, Begins
  <2> QED
    BY <2>1, LenProperties, ElementOfSeq
<1>3. /\ n >= 1 => gantt[n].limit = current_time
      /\ n = 0 => current_time = 0
      /\ \A i \in 1 .. n : /\ gantt[i].start = IF i = 1 THEN 0 ELSE gantt[i - 1].limit
                           /\ gantt[i].start < gantt[i].limit
  BY <1>1 DEF GanttTilesTime, Last
<1>4. CASE Grows(type, owner, d)
  <2>1. Len(gantt') = n /\ n >= 1
    BY <1>4 DEF Grows
  <2>2. ASSUME NEW i \in 1 .. n
        PROVE  /\ gantt'[i].start = IF i = 1 THEN 0 ELSE gantt'[i - 1].limit
               /\ gantt'[i].start < gantt'[i].limit
    <3>1. i # 1 => i - 1 \in 1 .. n - 1
      BY <1>1
    <3>2. gantt[i].limit \in Nat /\ gantt[i].start \in Nat
      BY <1>1 DEF Interval
    <3>3. CASE i = n
      BY <1>1, <1>3, <1>4, <3>1, <3>2, <3>3 DEF Grows
    <3>4. CASE i # n
      <4>1. i \in 1 .. n - 1
        <5> HIDE DEF n
        <5> QED
          BY <1>1, <3>4
      <4> QED
        BY <1>3, <1>4, <3>1, <4>1 DEF Grows
    <3> QED
      BY <3>3, <3>4
  <2>3. gantt'[n].limit = current_time'
    BY <1>3, <1>4, <2>1 DEF Grows
  <2> QED
    BY <1>2, <2>1, <2>2, <2>3 DEF GanttTilesTime, Last
<1>5. CASE Begins(type, owner, d)
  <2>1. Len(gantt') = n + 1
    BY <1>5 DEF Begins
  <2>2. ASSUME NEW i \in 1 .. n + 1
        PROVE  /\ gantt'[i].start = IF i = 1 THEN 0 ELSE gantt'[i - 1].limit
               /\ gantt'[i].start < gantt'[i].limit
    <3>1. i # 1 => i - 1 \in 1 .. n
      BY <1>1
    <3>2. CASE i = n + 1
      <4>1. i # 1 => gantt'[i - 1] = gantt[n] /\ n >= 1
        BY <1>1, <1>5, <3>1, <3>2 DEF Begins
      <4> QED
        BY <1>1, <1>3, <1>5, <3>2, <4>1 DEF Begins
    <3>3. CASE i # n + 1
      <4>1. i \in 1 .. n
        BY <1>1, <3>3
      <4> QED
        BY <1>3, <1>5, <3>1, <4>1 DEF Begins
    <3> QED
      BY <3>2, <3>3
  <2>3. gantt'[n + 1].limit = current_time'
    BY <1>5 DEF Begins
  <2> QED
    BY <1>2, <2>1, <2>2, <2>3 DEF GanttTilesTime, Last
<1> QED
  BY <1>4, <1>5

-----------------------------------------------------------------------------
(* The intervals of the switches.                                          *)

(* So long take some number of switches.                                   *)
Whole(n, cost) == \E k \in Nat : n = k * cost

Length(i) == gantt[i].limit - gantt[i].start

(* With what the switch in progress has still to pay, the intervals of     *)
(* switches are whole; and only a switch that is not over has to pay.      *)
SwitchesWhole ==
    /\ \A i \in DOMAIN gantt : gantt[i].type = "CONTEXT_SWITCH" =>
          /\ gantt[i].owner = NULL
          /\ Whole(Length(i) + IF i = Len(gantt) THEN switch_remaining ELSE 0,
                   config.switch_cost)
    /\ gantt = <<>> \/ Last(gantt).type # "CONTEXT_SWITCH"
          => Whole(switch_remaining, config.switch_cost)
    /\ next_pcb # NULL /\ pc # "bg_switch" => switch_remaining > 0

(* The chart, with what was drawn before it is charged.                    *)
ChartAgrees ==
    /\ \A p \in Procs : Lengths("PROCESS", p) = sched[p].cpu + Owed(p)
    /\ Lengths("IDLE", NULL) = stats.idle_time
    /\ Lengths("CONTEXT_SWITCH", NULL) = stats.switch_time

ChartInv == gantt \in Seq(Interval) /\ GanttTilesTime /\ ChartAgrees /\ SwitchesWhole

(* One more switch.                                                        *)
LEMMA OneMoreSwitch ==
    ASSUME NEW c \in Nat
    PROVE  /\ Whole(0, c) /\ Whole(c, c)
           /\ \A n : Whole(n, c) => n \in Nat /\ Whole(n + c, c)
<1>1. \A k \in Nat : k * c \in Nat /\ (k + 1) * c = k * c + c /\ k + 1 \in Nat
  OBVIOUS
<1>2. 0 * c = 0 /\ 1 * c = c
  OBVIOUS
<1> QED
  BY <1>1, <1>2 DEF Whole

(* What no step but the end of a tick of the CPU and the start of a tick   *)
(* changes, of what the chart is compared with.                            *)
NoTick ==
    /\ current_time' = current_time /\ config' = config
    /\ PendingTick' = PendingTick
    /\ pc \in {"bg_run", "cpu"} => running' = running
    /\ stats'.idle_time = stats.idle_time /\ stats'.switch_time = stats.switch_time
    /\ \/ switch_remaining' = switch_remaining
       \/ switch_remaining = 0 /\ switch_remaining' = config.switch_cost
    /\ (next_pcb # NULL /\ pc # "bg_switch" => switch_remaining > 0)
         => (next_pcb' # NULL /\ pc' # "bg_switch" => switch_remaining' > 0)

Frozen == UNCHANGED <<current_time, config, running, next_pcb, switch_remaining>>

(* The steps between two ticks.                                            *)
Waitless ==
    \/ Arrival \/ Swapper \/ Admission \/ Device \/ Stopped
    \/ Preempt \/ KeepRunning \/ StopSimulation \/ EndTick \/ SelectNext

(* A step that leaves clock, CPU and totals alone.                         *)
LEMMA NoTickFrame ==
    ASSUME KernelInv, Frozen,
           stats'.idle_time = stats.idle_time, stats'.switch_time = stats.switch_time,
           PendingTick' = PendingTick, pc = "bg_switch" => pc' = pc \/ switch_remaining > 0
    PROVE  NoTick
  BY DEF NoTick, Frozen

(* All steps between two ticks are like that, or begin a switch.           *)
LEMMA NoTickSteps ==
    ASSUME KernelInv, TotalsInv, Waitless
    PROVE  NoTick
<1> USE DEF PendingTick, Goto, setup, cpu, clock, Frozen
<1>0. stats \in Stats /\ switch_remaining \in Nat /\ config.switch_cost \in Nat
  BY TotalsTypes
<1>1. CASE SwapIn \/ SwapOut
  <2>1. stats'.idle_time = stats.idle_time /\ stats'.switch_time = stats.switch_time
    BY <1>0, <1>1, CountedTotals DEF SwapIn, SwapOut, Totals
  <2> QED
    BY <1>1, <2>1, NoTickFrame DEF SwapIn, SwapOut, MidTerm
<1>2. CASE Reject
  <2>1. stats'.idle_time = stats.idle_time /\ stats'.switch_time = stats.switch_time
    BY <1>0, <1>2, CountedTotals DEF Reject, Totals
  <2> QED
    BY <1>2, <2>1, NoTickFrame DEF Reject, Job
<1>3. CASE KeyboardCancel
  <2>1. stats'.idle_time = stats.idle_time /\ stats'.switch_time = stats.switch_time
    BY <1>0, <1>3, CountedTotals DEF KeyboardCancel, Totals
  <2> QED
    BY <1>3, <2>1, NoTickFrame DEF KeyboardCancel, CompleteIo, AtDevice
<1>4. CASE SelectNext
  <2>1. stats'.idle_time = stats.idle_time /\ stats'.switch_time = stats.switch_time
    BY <1>0, <1>4, CountedTotals DEF SelectNext
  <2>2. /\ pc = "decide" /\ pc' = "decide" /\ next_pcb = NULL
        /\ UNCHANGED <<current_time, config>>
    BY <1>4 DEF SelectNext
  <2>3. \/ config.switch_cost = 0 /\ next_pcb' = NULL /\ switch_remaining' = 0
        \/ config.switch_cost > 0 /\ switch_remaining' = config.switch_cost
    BY <1>4 DEF SelectNext, Dispatch
  <2> QED
    BY <1>0, <2>1, <2>2, <2>3 DEF NoTick, TotalsInv
<1>5. CASE SwitchDone
  <2>1. /\ pc = "bg_switch" /\ pc' = "idle" /\ next_pcb' = NULL /\ switch_remaining' = 0
        /\ switch_remaining = 0 /\ UNCHANGED <<current_time, config, stats>>
    BY <1>0, <1>5 DEF SwitchDone, Dispatch
  <2> QED
    BY <2>1 DEF NoTick
<1>6. CASE Preempt
  <2>1. /\ pc = "preempt" /\ pc' = "decide" /\ next_pcb' = next_pcb
        /\ UNCHANGED <<current_time, config, stats, switch_remaining>>
    BY <1>6 DEF Preempt
  <2> QED
    BY <2>1 DEF NoTick
<1>7. CASE Arrival \/ SkipSwapIn \/ MidTermDone \/ Admit \/ SkipJob \/ JobDone
  BY <1>7, NoTickFrame DEF Arrival, BeginTick, Arrive, SkipRow, ArrivalDone, SkipSwapIn,
              MidTermDone, Admit, SkipJob, JobDone, MidTerm, Job
<1>8. CASE KeepRunning \/ StopSimulation \/ EndTick
  BY <1>8, NoTickFrame DEF KeepRunning, StopSimulation, EndTick
<1>9. CASE DeviceWorks \/ IoComplete \/ TickDone
  BY <1>9, NoTickFrame DEF DeviceWorks, IoComplete, CompleteIo, AtDevice, TickDone
<1>10. CASE Stopped
  BY <1>10, NoTickFrame DEF Stopped, vars, walk
<1> QED
  BY <1>1, <1>2, <1>3, <1>4, <1>5, <1>6, <1>7, <1>8, <1>9, <1>10
  DEF Waitless, Swapper, Admission, Device

(* So nobody's CPU time changes, either.                                   *)
LEMMA NoTickTimes ==
    ASSUME KernelInv, Waitless
    PROVE  \A p \in Procs : sched'[p].cpu = sched[p].cpu
<1>1. Quiet \/ GetsCpu \/ Ticks \/ Cancels
  BY QuietSteps, SelectSteps, CancelSteps, SwitchDoneDispatches
  DEF Waitless, Admission, Device
<1> QED
  BY <1>1, CpuTimeStays

(* A chart that does not grow stays right.                                 *)
LEMMA ChartStays ==
    ASSUME KernelInv, TotalsInv, ChartInv, Waitless, gantt' = gantt
    PROVE  ChartInv'
<1>1. NoTick /\ config.switch_cost \in Nat /\ switch_remaining \in Nat
  BY NoTickSteps, TotalsTypes
<1>2. GanttTilesTime'
  BY <1>1 DEF ChartInv, GanttTilesTime, NoTick
<1>3. \A type, owner : Lengths(type, owner)' = Lengths(type, owner)
  BY DEF Lengths
<1>4. \A p \in Procs : Owed(p)' = Owed(p)
  BY <1>1 DEF NoTick, Owed, PendingTick
<1>5. ChartAgrees'
  BY <1>1, <1>3, <1>4, NoTickTimes DEF ChartInv, ChartAgrees, NoTick
<1>6. /\ config'.switch_cost = config.switch_cost
      /\ \/ switch_remaining' = switch_remaining
         \/ switch_remaining = 0 /\ switch_remaining' = config.switch_cost
  BY <1>1 DEF NoTick
<1> DEFINE c == config.switch_cost
<1>7. ASSUME NEW i \in DOMAIN gantt, gantt[i].type = "CONTEXT_SWITCH"
      PROVE  Whole(Length(i) + IF i = Len(gantt) THEN switch_remaining' ELSE 0, c)
  <2> DEFINE rest == IF i = Len(gantt) THEN switch_remaining ELSE 0
             rest2 == IF i = Len(gantt) THEN switch_remaining' ELSE 0
  <2> SUFFICES Whole(Length(i) + rest2, c)
    OBVIOUS
  <2>1. Whole(Length(i) + rest, c)
    BY <1>7 DEF ChartInv, SwitchesWhole
  <2>2. Length(i) \in Int
    <3>1. gantt[i] \in Interval
      BY ElementOfSeq, LenProperties DEF ChartInv
    <3> QED
      BY <3>1 DEF Length, Interval
  <2>3. rest2 = rest \/ (rest = 0 /\ rest2 = c)
    BY <1>6
  <2> HIDE DEF rest, rest2, c
  <2>4. CASE rest2 = rest
    BY <2>1, <2>4
  <2>5. CASE rest = 0 /\ rest2 = c
    <3>1. c \in Nat /\ Length(i) + rest = Length(i) /\ Length(i) + rest2 = Length(i) + c
      BY <1>1, <2>2, <2>5 DEF c
    <3>2. Whole(Length(i), c)
      BY <2>1, <3>1
    <3>3. Whole(Length(i) + c, c)
      BY <3>1, <3>2, OneMoreSwitch
    <3> QED
      BY <3>1, <3>3
  <2> QED
    BY <2>3, <2>4, <2>5
<1>8. SwitchesWhole'
  <2>1. gantt = <<>> \/ Last(gantt).type # "CONTEXT_SWITCH" => Whole(switch_remaining', c)
    <3>1. Whole(c, c)
      BY <1>1, OneMoreSwitch
    <3> QED
      BY <1>6, <3>1 DEF ChartInv, SwitchesWhole
  <2>2. next_pcb' # NULL /\ pc' # "bg_switch" => switch_remaining' > 0
    BY <1>1 DEF ChartInv, SwitchesWhole, NoTick
  <2>3. \A i \in DOMAIN gantt : Length(i)' = Length(i)
    BY DEF Length
  <2>4. \A i \in DOMAIN gantt : gantt[i].type = "CONTEXT_SWITCH" => gantt[i].owner = NULL
    BY DEF ChartInv, SwitchesWhole
  <2> QED
    BY <1>6, <1>7, <2>1, <2>2, <2>3, <2>4 DEF SwitchesWhole
<1> QED
  BY <1>2, <1>5, <1>8 DEF ChartInv

(* A tick of the CPU has drawn its interval already: now it is charged.    *)
LEMMA ChartIsPaid ==
    ASSUME KernelInv, ChartInv, Cpu, gantt' = gantt
    PROVE  ChartInv'
<1>1. PICK counted \in {stats, CountedFailure, Counted("completed")} : Run(counted)
  BY DEF Cpu, CpuFail, CpuTerminate, CpuBlock, CpuQuantum, CpuContinue
<1>2. /\ counted \in Stats /\ counted.idle_time = stats.idle_time
      /\ counted.switch_time = stats.switch_time
  BY <1>1, TotalsTypes, CountedTotals, CountedType DEF Totals
<1>3. /\ stats'.idle_time = stats.idle_time /\ stats'.switch_time = stats.switch_time
      /\ pc = "cpu" /\ pc' = "mid3"
      /\ UNCHANGED <<current_time, config, next_pcb, switch_remaining>>
  BY <1>1, <1>2 DEF Run, Stats, Goto, setup, clock
<1>4. \A type, owner : Lengths(type, owner)' = Lengths(type, owner)
  BY DEF Lengths
<1>5. ASSUME NEW p \in Procs
      PROVE  Lengths("PROCESS", p)' = sched'[p].cpu + Owed(p)'
  <2>1. sched'[p].cpu = sched[p].cpu + IF p = running THEN TICK ELSE 0
    BY CpuCases, CpuFields, RanTimes DEF HasRan
  <2>2. Owed(p) = (IF p = running THEN TICK ELSE 0) /\ Owed(p)' = 0
    BY <1>3 DEF Owed, PendingTick
  <2>3. sched[p].cpu \in Int /\ TICK \in Int
    BY CpuCases, FieldTypes, KernelAssumption
  <2> QED
    BY <1>4, <2>1, <2>2, <2>3 DEF ChartInv, ChartAgrees
<1>6. ChartAgrees'
  BY <1>3, <1>4, <1>5 DEF ChartInv, ChartAgrees
<1>7. GanttTilesTime'
  BY <1>3 DEF ChartInv, GanttTilesTime
<1>8. SwitchesWhole'
  <2>1. \A i \in DOMAIN gantt : Length(i)' = Length(i)
    BY DEF Length
  <2> QED
    BY <1>3, <2>1 DEF ChartInv, SwitchesWhole
<1> QED
  BY <1>6, <1>7, <1>8 DEF ChartInv

(* What is drawn of a switch is no more to pay, and nothing is to pay when *)
(* anything else is drawn.                                                 *)
LEMMA DrawnSwitches ==
    ASSUME gantt \in Seq(Interval), SwitchesWhole, current_time \in Nat,
           switch_remaining \in Nat, config.switch_cost \in Nat, config' = config,
           NEW type, NEW owner, NEW d \in Nat,
           Grows(type, owner, d) \/ Begins(type, owner, d),
           \/ /\ type = "CONTEXT_SWITCH" /\ owner = NULL /\ pc' = "bg_switch"
              /\ switch_remaining' = switch_remaining - d
           \/ /\ type # "CONTEXT_SWITCH" /\ next_pcb' = NULL
              /\ switch_remaining = 0 /\ switch_remaining' = 0
    PROVE  SwitchesWhole'
<1> DEFINE n == Len(gantt)
           m == Len(gantt')
           c == config.switch_cost
           Rest(i) == IF i = n THEN switch_remaining ELSE 0
           Rest2(i) == IF i = m THEN switch_remaining' ELSE 0
           Length2(i) == gantt'[i].limit - gantt'[i].start
<1>1. n \in Nat /\ DOMAIN gantt = 1 .. n /\ \A i \in 1 .. n : gantt[i] \in Interval
  BY LenProperties, ElementOfSeq
<1>2. /\ gantt' \in Seq(Interval) /\ m \in Nat /\ m >= 1 /\ DOMAIN gantt' = 1 .. m
      /\ gantt' # <<>> /\ m \in 1 .. m
  <2>1. gantt' \in Seq(Interval) /\ m >= 1
    BY <1>1 DEF Grows, Begins
  <2> QED
    BY <2>1, LenProperties
<1>3. \A i \in 1 .. n : gantt[i].type = "CONTEXT_SWITCH" =>
          gantt[i].owner = NULL /\ Whole(Length(i) + Rest(i), c)
  BY <1>1 DEF SwitchesWhole
<1>4. n >= 1 \/ gantt = <<>>
  BY <1>1, EmptySeq
<1>5. \A i \in 1 .. n : Length(i) \in Int
  BY <1>1 DEF Length, Interval
<1>6. /\ gantt'[m].type = type /\ gantt'[m].owner = owner
      /\ \A i \in 1 .. m - 1 : i \in 1 .. n /\ gantt'[i] = gantt[i]
  <2>1. \A i \in 1 .. n - 1 : i \in 1 .. n
    <3> HIDE DEF n
    <3> QED
      BY <1>1
  <2>2. (n + 1) - 1 = n
    BY <1>1
  <2> QED
    BY <2>1, <2>2 DEF Grows, Begins
<1>7. ASSUME NEW i \in 1 .. m - 1, gantt'[i].type = "CONTEXT_SWITCH"
      PROVE  gantt'[i].owner = NULL /\ Whole(Length2(i) + Rest2(i), c)
  <2>1. /\ i \in 1 .. n /\ gantt'[i] = gantt[i] /\ gantt[i].owner = NULL
        /\ Whole(Length(i) + Rest(i), c)
    BY <1>3, <1>6, <1>7
  <2>2. Length2(i) = Length(i)
    BY <2>1 DEF Length
  <2>3. Rest2(i) = 0
    <3>1. i # m
      <4> HIDE DEF m
      <4> QED
        BY <1>2
    <3> QED
      BY <3>1
  <2>4. Rest(i) = 0
    <3>1. CASE Grows(type, owner, d)
      <4>1. i # n
        <5>1. n = m
          BY <3>1 DEF Grows
        <5> HIDE DEF n, m
        <5> QED
          BY <1>2, <5>1
      <4> QED
        BY <4>1
    <3>2. CASE Begins(type, owner, d) /\ i = n
      <4>1. gantt[n].type # type \/ gantt[n].owner # owner
        BY <1>1, <2>1, <3>2 DEF Begins
      <4>2. type # "CONTEXT_SWITCH"
        BY <1>7, <2>1, <3>2, <4>1
      <4> QED
        BY <4>2
    <3>3. CASE i # n
      BY <3>3
    <3> QED
      BY <3>1, <3>2, <3>3
  <2> HIDE DEF Rest, Rest2, Length2
  <2> QED
    BY <2>1, <2>2, <2>3, <2>4
<1>8. ASSUME type = "CONTEXT_SWITCH"
      PROVE  Whole(Length2(m) + Rest2(m), c)
  <2>1. switch_remaining' = switch_remaining - d /\ owner = NULL
    BY <1>8
  <2>2. Rest2(m) = switch_remaining - d
    BY <2>1
  <2>3. CASE Grows(type, owner, d)
    <3>1. m = n /\ n \in 1 .. n
      BY <1>2, <2>3 DEF Grows
    <3>2. Length2(m) = Length(n) + d /\ gantt[n].type = "CONTEXT_SWITCH"
      <4>1. /\ gantt'[m].start = gantt[n].start /\ gantt'[m].limit = gantt[n].limit + d
            /\ gantt[n].type = type
        BY <2>3, <3>1 DEF Grows
      <4>2. gantt[n].start \in Int /\ gantt[n].limit \in Int
        BY <1>1, <3>1 DEF Interval
      <4> QED
        BY <1>8, <4>1, <4>2 DEF Length
    <3>3. Rest(n) = switch_remaining /\ Whole(Length(n) + Rest(n), c)
      BY <1>3, <3>1, <3>2
    <3>4. Length(n) \in Int
      BY <1>5, <3>1
    <3> HIDE DEF Rest, Rest2, Length2, m, n
    <3>5. Length2(m) + Rest2(m) = Length(n) + Rest(n)
      BY <2>2, <3>2, <3>3, <3>4
    <3> QED
      BY <3>3, <3>5
  <2>4. CASE Begins(type, owner, d)
    <3>1. m = n + 1 /\ Length2(m) = d
      BY <1>1, <2>4 DEF Begins
    <3>2. gantt = <<>> \/ Last(gantt).type # "CONTEXT_SWITCH"
      <4>1. CASE n >= 1
        <5>1. n \in 1 .. n /\ (gantt[n].type # type \/ gantt[n].owner # owner)
          BY <1>1, <2>4, <4>1 DEF Begins
        <5> QED
          BY <1>3, <1>8, <2>1, <5>1 DEF Last
      <4> QED
        BY <1>4, <4>1
    <3>3. Whole(switch_remaining, c)
      BY <3>2 DEF SwitchesWhole
    <3> HIDE DEF Rest2, Length2
    <3>4. Length2(m) + Rest2(m) = switch_remaining
      BY <2>2, <3>1
    <3> QED
      BY <3>3, <3>4
  <2> QED
    BY <2>3, <2>4
<1>9. \A i \in 1 .. m : i = m \/ i \in 1 .. m - 1
  <2> HIDE DEF m
  <2> QED
    BY <1>2
<1>10. ASSUME NEW i \in 1 .. m, gantt'[i].type = "CONTEXT_SWITCH"
       PROVE  gantt'[i].owner = NULL /\ Whole(Length2(i) + Rest2(i), c)
  BY <1>6, <1>7, <1>8, <1>9, <1>10
<1>11. gantt' = <<>> \/ Last(gantt').type # "CONTEXT_SWITCH" => Whole(switch_remaining', c)
  <2>1. Whole(0, c)
    BY OneMoreSwitch
  <2> QED
    BY <1>2, <1>6, <2>1 DEF Last
<1> QED
  BY <1>2, <1>10, <1>11 DEF SwitchesWhole, Length

(* What a tick draws is what it charges.                                   *)
LEMMA ChartGrows ==
    ASSUME KernelInv, TotalsInv, ChartInv, Draws
    PROVE  ChartInv'
<1>1. /\ TICK \in Nat \ {0} /\ current_time \in Nat /\ switch_remaining \in Nat
      /\ config.switch_cost \in Nat /\ stats \in Stats /\ stats.idle_time \in Nat
      /\ stats.switch_time \in Nat
  BY TotalsTypes
<1>2. /\ gantt \in Seq(Interval) /\ GanttTilesTime /\ ChartAgrees /\ SwitchesWhole
  BY DEF ChartInv
<1>3. SwitchTick \/ IdleTick \/ RunTick
  BY DEF Draws
<1>4. \A p \in Procs : sched'[p].cpu = sched[p].cpu /\ sched[p].cpu \in Int
  BY <1>3, TickSteps, CpuTimeStays, FieldTypes DEF KernelInv, TypeInv
<1>5. NULL \notin Procs
  BY KernelAssumption
<1>6. PICK type \in Kinds, owner \in Procs \cup {NULL}, d \in Nat \ {0} :
        /\ Draw(type, owner, d)
        /\ current_time' = current_time + d /\ config' = config /\ pc = "decide"
        /\ \/ /\ type = "CONTEXT_SWITCH" /\ owner = NULL /\ pc' = "bg_switch"
              /\ switch_remaining' = switch_remaining - d
              /\ stats'.idle_time = stats.idle_time
              /\ stats'.switch_time = stats.switch_time + d
           \/ /\ type = "IDLE" /\ owner = NULL /\ pc' = "bg_idle"
              /\ next_pcb' = NULL /\ switch_remaining = 0 /\ switch_remaining' = 0
              /\ stats'.idle_time = stats.idle_time + d
              /\ stats'.switch_time = stats.switch_time
           \/ /\ type = "PROCESS" /\ owner = running /\ owner # NULL
              /\ running' = running /\ pc' = "bg_run" /\ d = TICK
              /\ next_pcb' = NULL /\ switch_remaining = 0 /\ switch_remaining' = 0
              /\ stats'.idle_time = stats.idle_time
              /\ stats'.switch_time = stats.switch_time
  <2>1. CASE SwitchTick /\ Draw("CONTEXT_SWITCH", NULL, SwitchShare)
    <3>1. SwitchShare \in Nat \ {0}
      <4>1. switch_remaining > 0
        BY <1>2, <2>1 DEF SwitchTick, SwitchesWhole
      <4> QED
        BY <1>1, <4>1 DEF SwitchShare
    <3>2. /\ current_time' = current_time + SwitchShare /\ config' = config
          /\ pc = "decide" /\ pc' = "bg_switch"
          /\ switch_remaining' = switch_remaining - SwitchShare
          /\ stats' = [stats EXCEPT !.switch_time = stats.switch_time + SwitchShare]
      BY <2>1 DEF SwitchTick, StartTick, setup
    <3>3. /\ stats'.idle_time = stats.idle_time
          /\ stats'.switch_time = stats.switch_time + SwitchShare
      BY <1>1, <3>2 DEF Stats
    <3> QED
      BY <2>1, <3>1, <3>2, <3>3 DEF Kinds
  <2>2. CASE IdleTick /\ Draw("IDLE", NULL, TICK)
    <3>1. /\ current_time' = current_time + TICK /\ config' = config
          /\ pc = "decide" /\ pc' = "bg_idle" /\ next_pcb' = NULL /\ next_pcb = NULL
          /\ switch_remaining' = switch_remaining
          /\ stats' = [stats EXCEPT !.idle_time = stats.idle_time + TICK]
      BY <2>2 DEF IdleTick, StartTick, setup, cpu
    <3>2. switch_remaining = 0
      BY <3>1 DEF TotalsInv
    <3>3. /\ stats'.idle_time = stats.idle_time + TICK
          /\ stats'.switch_time = stats.switch_time
      BY <1>1, <3>1 DEF Stats
    <3> QED
      BY <1>1, <2>2, <3>1, <3>2, <3>3 DEF Kinds
  <2>3. CASE RunTick /\ Draw("PROCESS", running, TICK)
    <3>1. /\ current_time' = current_time + TICK /\ config' = config /\ stats' = stats
          /\ pc = "decide" /\ pc' = "bg_run" /\ next_pcb' = NULL /\ next_pcb = NULL
          /\ switch_remaining' = switch_remaining /\ running # NULL /\ running' = running
      BY <2>3 DEF RunTick, StartTick, setup, cpu
    <3>2. switch_remaining = 0
      BY <3>1 DEF TotalsInv
    <3>3. running \in Procs \cup {NULL}
      BY DEF KernelInv, TypeInv, TypeOK
    <3> QED
      BY <1>1, <2>3, <3>1, <3>2, <3>3 DEF Kinds
  <2> QED
    BY <2>1, <2>2, <2>3 DEF Draws
<1>7. Grows(type, owner, d) \/ Begins(type, owner, d)
  BY <1>1, <1>2, <1>6, DrawSteps
<1>8. gantt' \in Seq(Interval)
  BY <1>7 DEF Grows, Begins
<1>9. GanttTilesTime'
  BY <1>1, <1>2, <1>6, <1>7, DrawnTiles
<1>10. SwitchesWhole'
  <2>1. \/ /\ type = "CONTEXT_SWITCH" /\ owner = NULL /\ pc' = "bg_switch"
           /\ switch_remaining' = switch_remaining - d
        \/ /\ type # "CONTEXT_SWITCH" /\ next_pcb' = NULL
           /\ switch_remaining = 0 /\ switch_remaining' = 0
    BY <1>6
  <2> QED
    BY <1>1, <1>2, <1>6, <1>7, <2>1, DrawnSwitches
<1>11. \A t, o : Lengths(t, o)' = Lengths(t, o) + IF t = type /\ o = owner THEN d ELSE 0
  BY <1>1, <1>2, <1>7, DrawnLengths
<1>12. \A p \in Procs : Lengths("PROCESS", p)' = sched'[p].cpu + Owed(p)'
  <2> TAKE p \in Procs
  <2>1. Lengths("PROCESS", p) = sched[p].cpu
    BY <1>2, <1>4, <1>6 DEF ChartAgrees, Owed, PendingTick
  <2>2. Owed(p)' = IF type = "PROCESS" /\ p = owner THEN d ELSE 0
    BY <1>5, <1>6 DEF Owed, PendingTick
  <2> QED
    BY <1>4, <1>11, <2>1, <2>2
<1>13. ChartAgrees'
  <2>1. Lengths("IDLE", NULL)' = stats'.idle_time
    BY <1>1, <1>2, <1>6, <1>11 DEF ChartAgrees
  <2>2. Lengths("CONTEXT_SWITCH", NULL)' = stats'.switch_time
    BY <1>1, <1>2, <1>6, <1>11 DEF ChartAgrees
  <2> QED
    BY <1>12, <2>1, <2>2 DEF ChartAgrees
<1> QED
  BY <1>8, <1>9, <1>10, <1>13 DEF ChartInv

(* Every step of the kernel, with what it draws.                           *)
LEMMA StepChart ==
    KernelInv /\ TotalsInv /\ ChartInv /\ [TimelineNext]_<<vars, timelineVars>> => ChartInv'
<1> SUFFICES ASSUME KernelInv, TotalsInv, ChartInv, [TimelineNext]_<<vars, timelineVars>>
             PROVE  ChartInv'
  OBVIOUS
<1>1. CASE Draws
  BY <1>1, ChartGrows
<1>2. CASE Completions
  BY <1>2, ChartStays DEF Completions, Record, Waitless, Device
<1>3. CASE CpuInterrupts
  BY <1>3, ChartIsPaid DEF CpuInterrupts, Outcome, Record, Cpu
<1>4. CASE Unrecorded
  BY <1>4, ChartStays DEF Unrecorded, timelineVars, Waitless, Admission, Device
<1>5. CASE UNCHANGED <<vars, timelineVars>>
  <2>1. Stopped \/ UNCHANGED vars
    BY <1>5
  <2> QED
    BY <1>5 DEF vars, walk, clock, setup, pcb, cpu, timelineVars, ChartInv, GanttTilesTime,
       ChartAgrees, SwitchesWhole, Lengths, Owed, PendingTick, Length
<1> QED
  BY <1>1, <1>2, <1>3, <1>4, <1>5 DEF TimelineNext

(* An empty chart, before the first tick.                                  *)
LEMMA InitChart == TimelineInit => ChartInv
<1> SUFFICES ASSUME TimelineInit PROVE ChartInv
  OBVIOUS
<1>1. gantt = <<>> /\ DOMAIN gantt = {} /\ gantt \in Seq(Interval) /\ Len(gantt) = 0
  BY DEF TimelineInit
<1>2. /\ current_time = 0 /\ pc = "idle" /\ next_pcb = NULL /\ switch_remaining = 0
      /\ stats.idle_time = 0 /\ stats.switch_time = 0
      /\ \A p \in Procs : sched[p].cpu = 0
      /\ config \in Config
  BY KernelAssumption DEF TimelineInit, Init, Initially
<1>3. \A type, owner : Lengths(type, owner) = 0
  <2> TAKE type, owner
  <2> DEFINE f == Part(gantt, type, owner)
  <2>1. Lengths(type, owner) = SumFunctionOnSet(f, {})
    BY <1>1 DEF Lengths, Part, SumFunction
  <2> HIDE DEF f
  <2>2. \A x \in {} : f[x] = 0
    OBVIOUS
  <2> QED
    BY <2>1, <2>2, SumOfZeros, FS_EmptySet
<1>4. Whole(0, config.switch_cost)
  <2>1. config.switch_cost \in Nat
    BY <1>2 DEF Config, Settings
  <2> QED
    BY <2>1, OneMoreSwitch
<1>5. GanttTilesTime
  BY <1>1, <1>2 DEF GanttTilesTime
<1>6. ChartAgrees
  BY <1>2, <1>3 DEF ChartAgrees, Owed, PendingTick
<1>7. SwitchesWhole
  BY <1>1, <1>2, <1>4 DEF SwitchesWhole
<1> QED
  BY <1>1, <1>5, <1>6, <1>7 DEF ChartInv

(* A whole number of switches of some cost has no rest.                    *)
LEMMA NoRest ==
    ASSUME NEW c \in Nat \ {0}, NEW k \in Nat
    PROVE  (k * c) % c = 0
  OBVIOUS

(* The invariant says more than the property.                              *)
LEMMA ChartIsRight ==
    ASSUME KernelInv, TotalsInv, ChartInv
    PROVE  GanttAgreesWithTimes
<1> DEFINE c == config.switch_cost
<1>1. gantt \in Seq(Interval) /\ GanttTilesTime /\ ChartAgrees /\ SwitchesWhole
      /\ c \in Nat /\ switch_remaining \in Nat
  BY TotalsTypes DEF ChartInv
<1>2. \A p \in Procs : Owed(p) = IF pc \in {"bg_run", "cpu"} /\ p = running
                                THEN TICK ELSE 0
  BY DEF Owed, PendingTick
<1>3. ASSUME NEW i \in DOMAIN gantt, gantt[i].type = "CONTEXT_SWITCH",
             i < Len(gantt) \/ next_pcb = NULL
      PROVE  (gantt[i].limit - gantt[i].start) % c = 0
  <2>1. Length(i) \in Int /\ Length(i) > 0
    <3>1. gantt[i] \in Interval
      BY <1>1, ElementOfSeq, LenProperties
    <3> QED
      BY <1>1, <3>1 DEF Length, Interval, GanttTilesTime
  <2>2. Whole(Length(i), c)
    <3>1. Whole(Length(i) + IF i = Len(gantt) THEN switch_remaining ELSE 0, c)
      BY <1>1, <1>3 DEF SwitchesWhole
    <3>2. i = Len(gantt) => switch_remaining = 0
      BY <1>1, <1>3, LenProperties DEF TotalsInv
    <3>3. Length(i) + (IF i = Len(gantt) THEN switch_remaining ELSE 0) = Length(i)
      BY <2>1, <3>2
    <3> QED
      BY <3>1, <3>3
  <2> HIDE DEF c
  <2>3. PICK k \in Nat : Length(i) = k * c
    BY <2>2 DEF Whole
  <2>4. c # 0
    <3>1. \A n \in Nat : n * 0 = 0
      OBVIOUS
    <3> QED
      BY <2>1, <2>3, <3>1
  <2> QED
    BY <1>1, <2>3, <2>4, NoRest DEF Length
<1> QED
  BY <1>1, <1>2, <1>3 DEF GanttAgreesWithTimes, ChartAgrees

(* The chart tells what the CPU did since the beginning: it tiles the      *)
(* time, a process has as much of it as its CPU time, and no switch is     *)
(* drawn in part (update_gantt_interval before the clock advances).        *)
THEOREM ChartTellsTheTimes == TimelineSpec => []GanttAgreesWithTimes
<1>1. TimelineSpec => [](KernelInv /\ TotalsInv)
  BY TimelineImplementsKernel, KernelInvariant, TotalsInvariant, PTL
<1>2. KernelInv /\ TotalsInv /\ ChartInv => GanttAgreesWithTimes
  BY ChartIsRight
<1> QED
  BY <1>1, <1>2, InitChart, StepChart, PTL DEF TimelineSpec

-----------------------------------------------------------------------------
(* The interrupts of a process.                                            *)

Recording == INSTANCE FoldProofs WITH Op <- Recorded

Event == [type : IntType, fatal : BOOLEAN, time : Nat]

InterruptData ==
    [history : Seq(Event), total : Nat, by_type : [IntType -> Nat], periodic_done : Nat]

(* A record at the time t: the counters agree, and the ring has the latest *)
(* events, none of them of later, and no fatal one before the last.        *)
Sound(data, t) ==
    LET h == data.history
    IN  /\ data \in InterruptData
        /\ data.total = SumFunction(data.by_type)
        /\ Len(h) = Min({data.total, MAX_INTERRUPT_HISTORY})
        /\ \A i \in DOMAIN h : h[i].time =< t
        /\ \A i \in DOMAIN h : i < Len(h) => ~h[i].fatal
        /\ \A i, j \in DOMAIN h : i < j => h[i].time =< h[j].time

Ended(data) == data.history # <<>> /\ Last(data.history).fatal

(* The smaller of two numbers.                                             *)
LEMMA MinOfTwo ==
    ASSUME NEW a \in Int, NEW b \in Int
    PROVE  Min({a, b}) = IF a =< b THEN a ELSE b
<1>1. \E x \in {a, b} : \A y \in {a, b} : x =< y
  <2>1. CASE a =< b
    BY <2>1
  <2>2. CASE b =< a
    BY <2>2
  <2> QED
    BY <2>1, <2>2
<1>2. Min({a, b}) \in {a, b} /\ Min({a, b}) =< a /\ Min({a, b}) =< b
  BY <1>1 DEF Min
<1> QED
  BY <1>2

(* The ring keeps the end of what was recorded.                            *)
LEMMA KeptProperties ==
    ASSUME NEW S, NEW e \in Seq(S), e # <<>>
    PROVE  /\ Len(Kept(e)) = Min({Len(e), MAX_INTERRUPT_HISTORY})
           /\ Len(Kept(e)) \in 1 .. Len(e) /\ Kept(e) \in Seq(S)
           /\ \A i \in 1 .. Len(Kept(e)) : Kept(e)[i] = e[Len(e) - Len(Kept(e)) + i]
<1> DEFINE n == Len(e)
           k == Min({n, MAX_INTERRUPT_HISTORY})
           m == n - k + 1
<1>1. n \in Nat /\ n >= 1 /\ MAX_INTERRUPT_HISTORY \in Nat \ {0}
  BY LenProperties, EmptySeq, TimelineAssumption
<1>2. k = IF n =< MAX_INTERRUPT_HISTORY THEN n ELSE MAX_INTERRUPT_HISTORY
  <2> HIDE DEF n
  <2> QED
    BY <1>1, MinOfTwo
<1>3. k \in Nat /\ 1 =< k /\ k =< n
  <2> HIDE DEF n, k
  <2> QED
    BY <1>1, <1>2
<1>4. Kept(e) = SubSeq(e, m, n)
  BY DEF Kept
<1>5. /\ m \in Int /\ n \in Int /\ m =< n /\ n - m + 1 = k
      /\ \A i \in m .. n : i \in 1 .. n
      /\ \A i \in 1 .. k : m + i - 1 = n - k + i
  <2> HIDE DEF n, k
  <2> QED
    BY <1>1, <1>3
<1>6. \A i \in m .. n : e[i] \in S
  BY <1>5, ElementOfSeq, LenProperties
<1> HIDE DEF m, k
<1>7. /\ SubSeq(e, m, n) \in Seq(S)
      /\ Len(SubSeq(e, m, n)) = IF m =< n THEN n - m + 1 ELSE 0
      /\ \A i \in 1 .. n - m + 1 : SubSeq(e, m, n)[i] = e[m + i - 1]
  BY <1>5, <1>6, SubSeqProperties
<1>8. Len(Kept(e)) = k /\ Kept(e) \in Seq(S)
  BY <1>4, <1>5, <1>7
<1>9. \A i \in 1 .. k : Kept(e)[i] = e[n - k + i]
  BY <1>4, <1>5, <1>7
<1>10. k \in 1 .. n
  <2> HIDE DEF n
  <2> QED
    BY <1>1, <1>3
<1> QED
  BY <1>8, <1>9, <1>10 DEF k

(* A pair is finite.                                                       *)
LEMMA TwoAreFinite ==
    ASSUME NEW a, NEW b
    PROVE  IsFiniteSet({a, b})
<1>1. IsFiniteSet({a}) /\ IsFiniteSet({b}) /\ {a, b} = {a} \cup {b}
  BY FS_Singleton
<1> QED
  BY <1>1, FS_Union

(* The places of the last k of n events.                                   *)
LEMMA EndPlaces ==
    ASSUME NEW n \in Nat, NEW k \in 1 .. n
    PROVE  \A i \in 1 .. k : /\ n - k + i \in 1 .. n
                            /\ i < k => n - k + i < n
                            /\ \A j \in 1 .. k : i < j => n - k + i < n - k + j
<1>1. \A i \in 1 .. k : n - k + i \in 1 .. n
  OBVIOUS
<1>2. \A i \in 1 .. k : i < k => n - k + i < n
  OBVIOUS
<1>3. \A i, j \in 1 .. k : i < j => n - k + i < n - k + j
  OBVIOUS
<1> QED
  BY <1>1, <1>2, <1>3

(* There are only so many kinds of interrupts.                             *)
LEMMA KindsAreFinite == IsFiniteSet(IntType)
<1>1. IsFiniteSet({"HW_TIMER", "SW_SYSCALL"}) /\ IsFiniteSet({"EXC_DIV_ZERO", "EXC_MEM"})
      /\ IsFiniteSet({"IO_REQUEST", "IO_COMPLETE"})
  BY TwoAreFinite
<1> QED
  BY <1>1, FS_Union DEF IntType, PeriodicType, ExceptionType

(* One type of event is counted once more.                                 *)
LEMMA CountedOnce ==
    ASSUME NEW f \in [IntType -> Nat], NEW t \in IntType
    PROVE  LET g == [f EXCEPT ![t] = f[t] + 1]
           IN  /\ g \in [IntType -> Nat]
               /\ SumFunction(f) \in Int
               /\ SumFunction(g) = SumFunction(f) + 1
               /\ \A u \in IntType : g[u] = f[u] + IF u = t THEN 1 ELSE 0
<1> DEFINE g == [f EXCEPT ![t] = f[t] + 1]
<1>1. /\ g \in [IntType -> Nat]
      /\ \A u \in IntType : g[u] = f[u] + IF u = t THEN 1 ELSE 0
      /\ \A u \in IntType : f[u] \in Int /\ g[u] \in Int
      /\ \A u \in IntType \ {t} : g[u] = f[u]
      /\ g[t] - f[t] = 1
      /\ DOMAIN f = IntType /\ DOMAIN g = IntType
  OBVIOUS
<1>2. IsFiniteSet(IntType)
  BY KindsAreFinite
<1> HIDE DEF g
<1>3. /\ SumFunctionOnSet(f, IntType) \in Int
      /\ SumFunctionOnSet(g, IntType) = SumFunctionOnSet(f, IntType) + (g[t] - f[t])
  BY <1>1, <1>2, SumChanges
<1>4. SumFunction(f) \in Int /\ SumFunction(g) = SumFunction(f) + 1
  BY <1>1, <1>3 DEF SumFunction
<1> QED
  BY <1>1, <1>4 DEF g

(* record_interrupt keeps a record sound, until a fatal one.               *)
LEMMA RecordedSound ==
    ASSUME NEW t \in Nat, NEW data, Sound(data, t), ~Ended(data),
           NEW event \in Event, event.time = t
    PROVE  LET new == Recorded(data, event)
           IN  /\ Sound(new, t)
               /\ new.total = data.total + 1 /\ new.periodic_done = data.periodic_done
               /\ new.history # <<>> /\ Last(new.history) = event
               /\ \A u \in IntType :
                     new.by_type[u] = data.by_type[u] + IF u = event.type THEN 1 ELSE 0
<1> DEFINE h == data.history
           e == Append(h, event)
           n == Len(e)
           ring == Kept(e)
           k == Len(ring)
           counts == [data.by_type EXCEPT ![event.type] = data.by_type[event.type] + 1]
           new == [data EXCEPT !.history = ring, !.total = data.total + 1,
                               !.by_type = counts]
<1>1. /\ data \in InterruptData /\ h \in Seq(Event) /\ data.total \in Nat
      /\ data.by_type \in [IntType -> Nat] /\ event.type \in IntType
  BY DEF Sound, InterruptData, Event
<1>2. /\ counts \in [IntType -> Nat] /\ SumFunction(data.by_type) \in Int
      /\ SumFunction(counts) = SumFunction(data.by_type) + 1
      /\ \A u \in IntType :
            counts[u] = data.by_type[u] + IF u = event.type THEN 1 ELSE 0
  BY <1>1, CountedOnce
<1>3. /\ e \in Seq(Event) /\ n = Len(h) + 1 /\ e[n] = event /\ Len(h) \in Nat
      /\ DOMAIN h = 1 .. Len(h)
      /\ \A i \in 1 .. Len(h) : e[i] = h[i] /\ h[i] \in Event
  BY <1>1, AppendProperties, LenProperties, ElementOfSeq
<1>4. e # <<>> /\ n \in Nat
  BY <1>1, <1>3, AppendProperties, LenProperties
<1>5. /\ k = Min({n, MAX_INTERRUPT_HISTORY}) /\ k \in 1 .. n /\ ring \in Seq(Event)
      /\ \A i \in 1 .. k : ring[i] = e[n - k + i]
  <2> HIDE DEF e
  <2> QED
    BY <1>3, <1>4, KeptProperties
<1>6. Recorded(data, event) = new
  BY DEF Recorded
<1>7. /\ new \in InterruptData /\ new.history = ring /\ new.total = data.total + 1
      /\ new.by_type = counts /\ new.periodic_done = data.periodic_done
  <2>1. ring \in Seq(Event) /\ data.total + 1 \in Nat
    BY <1>1, <1>5
  <2> HIDE DEF ring, counts, h
  <2>2. /\ new.history = ring /\ new.total = data.total + 1
        /\ new.by_type = counts /\ new.periodic_done = data.periodic_done
    BY <1>1 DEF InterruptData
  <2>3. new \in InterruptData
    BY <1>1, <1>2, <2>1 DEF InterruptData
  <2> QED
    BY <2>2, <2>3
<1>8. DOMAIN ring = 1 .. k /\ ring # <<>>
  BY <1>4, <1>5, LenProperties, EmptySeq
<1>9. k = Min({data.total + 1, MAX_INTERRUPT_HISTORY})
  <2>1. /\ Min({data.total, MAX_INTERRUPT_HISTORY})
           = IF data.total =< MAX_INTERRUPT_HISTORY THEN data.total ELSE MAX_INTERRUPT_HISTORY
        /\ Min({data.total + 1, MAX_INTERRUPT_HISTORY})
           = IF data.total + 1 =< MAX_INTERRUPT_HISTORY
             THEN data.total + 1 ELSE MAX_INTERRUPT_HISTORY
        /\ k = IF n =< MAX_INTERRUPT_HISTORY THEN n ELSE MAX_INTERRUPT_HISTORY
        /\ MAX_INTERRUPT_HISTORY \in Nat \ {0}
    <3> HIDE DEF n, k
    <3>1. MAX_INTERRUPT_HISTORY \in Nat \ {0}
      BY TimelineAssumption
    <3>2. MAX_INTERRUPT_HISTORY \in Int /\ data.total \in Int /\ data.total + 1 \in Int
          /\ n \in Int
      BY <1>1, <1>4, <3>1
    <3>3. \A a, b \in Int : Min({a, b}) = IF a =< b THEN a ELSE b
      BY MinOfTwo
    <3> QED
      BY <1>5, <3>1, <3>2, <3>3
  <2>2. Len(h) = Min({data.total, MAX_INTERRUPT_HISTORY})
    BY DEF Sound
  <2> HIDE DEF n, k, h
  <2> QED
    BY <1>1, <1>3, <2>1, <2>2
<1>10. data.total + 1 = SumFunction(counts)
  BY <1>1, <1>2 DEF Sound
<1>11. \A i \in 1 .. n : /\ e[i].time \in Nat /\ e[i].time =< t
                         /\ i < n => ~e[i].fatal
  <2> TAKE i \in 1 .. n
  <2>1. CASE i = n
    BY <1>3, <2>1
  <2>2. CASE i # n
    <3>1. i \in 1 .. Len(h)
      <4> HIDE DEF n, h
      <4> QED
        BY <1>3, <2>2
    <3>2. e[i] = h[i] /\ h[i] \in Event /\ h[i].time =< t
      BY <1>3, <3>1 DEF Sound
    <3>3. ~h[i].fatal
      <4>1. CASE i < Len(h)
        BY <1>3, <3>1, <4>1 DEF Sound
      <4>2. CASE i = Len(h)
        <5>1. h # <<>>
          BY <1>1, <3>1, EmptySeq
        <5> QED
          BY <4>2, <5>1 DEF Ended, Last
      <4> QED
        BY <1>3, <3>1, <4>1, <4>2
    <3> QED
      BY <3>2, <3>3 DEF Event
  <2> QED
    BY <2>1, <2>2
<1>12. \A i, j \in 1 .. n : i < j => e[i].time =< e[j].time
  <2> TAKE i, j \in 1 .. n
  <2> HAVE i < j
  <2>1. CASE j = n
    BY <1>3, <1>11, <2>1
  <2>2. CASE j # n
    <3>1. i \in 1 .. Len(h) /\ j \in 1 .. Len(h)
      <4> HIDE DEF n, h
      <4> QED
        BY <1>3, <2>2
    <3> QED
      BY <1>3, <3>1 DEF Sound
  <2> QED
    BY <2>1, <2>2
<1>13. \A i \in 1 .. k : /\ n - k + i \in 1 .. n
                         /\ i < k => n - k + i < n
                         /\ \A j \in 1 .. k : i < j => n - k + i < n - k + j
  <2> HIDE DEF n, k
  <2>1. n \in Nat /\ k \in 1 .. n
    BY <1>4, <1>5
  <2> QED
    BY <2>1, EndPlaces
<1>14. Sound(new, t)
  <2>1. /\ \A i \in DOMAIN ring : ring[i].time =< t
        /\ \A i \in DOMAIN ring : i < Len(ring) => ~ring[i].fatal
    BY <1>5, <1>8, <1>11, <1>13
  <2>2. \A i, j \in DOMAIN ring : i < j => ring[i].time =< ring[j].time
    <3> TAKE i, j \in DOMAIN ring
    <3> HAVE i < j
    <3>1. ring[i] = e[n - k + i] /\ ring[j] = e[n - k + j]
      BY <1>5, <1>8
    <3>2. n - k + i \in 1 .. n /\ n - k + j \in 1 .. n /\ n - k + i < n - k + j
      BY <1>8, <1>13
    <3> QED
      BY <1>12, <3>1, <3>2
  <2>3. Len(ring) = Min({data.total + 1, MAX_INTERRUPT_HISTORY})
    BY <1>5, <1>9
  <2> HIDE DEF new, ring, counts
  <2> QED
    BY <1>7, <1>10, <2>1, <2>2, <2>3 DEF Sound
<1>15. Last(ring) = event
  <2>1. k \in 1 .. k /\ n - k + k = n
    <3> HIDE DEF n, k
    <3> QED
      BY <1>4, <1>5
  <2> QED
    BY <1>3, <1>5, <2>1 DEF Last
<1> QED
  BY <1>2, <1>6, <1>7, <1>8, <1>14, <1>15

IoType == {"IO_REQUEST", "IO_COMPLETE"}

(* What the periodic interrupts of a step are, and its others: one at most.*)
PeriodicNow(events, t) ==
    /\ events \in Seq(Event)
    /\ \A i \in 1 .. Len(events) :
          events[i].time = t /\ ~events[i].fatal /\ events[i].type \in PeriodicType

OneNow(events, t) ==
    events = <<>> \/ \E e \in Event : e.time = t /\ events = <<e>>

(* The records r that the first n interrupts of seq leave, one by one.     *)
Follows(r, base, seq, n) ==
    r[0] = base /\ \A k \in 1 .. n : r[k] = Recorded(r[k - 1], seq[k])

(* The first n are periodic interrupts of the time t.                      *)
PeriodicUpTo(seq, n, t) ==
    \A k \in 1 .. n : /\ seq[k] \in Event /\ seq[k].time = t
                      /\ ~seq[k].fatal /\ seq[k].type \in PeriodicType

(* One record after the other.                                             *)
LEMMA RecordedInSteps ==
    ASSUME NEW n \in Nat, NEW seq, DOMAIN seq = 1 .. n, NEW base
    PROVE  \E r : Follows(r, base, seq, n) /\ r[n] = AllRecorded(base, seq)
<1>1. n \in Nat /\ DOMAIN seq = 1 .. n
  OBVIOUS
<1>2. \E r : /\ r[0] = base /\ r[n] = Recording!Folded(base, seq)
             /\ \A k \in 1 .. n : r[k] = Recorded(r[k - 1], seq[k])
  BY <1>1, Recording!FoldLeftSteps
<1>3. AllRecorded(base, seq) = Recording!Folded(base, seq)
  BY DEF AllRecorded, FoldLeft, MapThenFoldSet, Max, Recording!Folded,
         Recording!FoldLeft, Recording!MapThenFoldSet, Recording!Max
<1> QED
  BY <1>2, <1>3 DEF Follows

(* What becomes of a record by the periodic interrupts of a step.          *)
LEMMA PeriodicRecorded ==
    ASSUME NEW t \in Nat, NEW data, Sound(data, t), ~Ended(data),
           NEW r, NEW m \in Nat, NEW events,
           Follows(r, data, events, m), PeriodicUpTo(events, m, t)
    PROVE  /\ Sound(r[m], t) /\ ~Ended(r[m]) /\ r[m].total = data.total + m
           /\ r[m].periodic_done = data.periodic_done
           /\ \A u \in IoType : r[m].by_type[u] = data.by_type[u]
<1> DEFINE Good == {k \in 0 .. m :
             /\ Sound(r[k], t) /\ ~Ended(r[k]) /\ r[k].total = data.total + k
             /\ r[k].periodic_done = data.periodic_done
             /\ \A u \in IoType : r[k].by_type[u] = data.by_type[u]}
<1>0. /\ r[0] = data
      /\ \A k \in 1 .. m : /\ r[k] = Recorded(r[k - 1], events[k])
                            /\ events[k] \in Event /\ events[k].time = t
                            /\ ~events[k].fatal /\ events[k].type \in PeriodicType
  BY DEF Follows, PeriodicUpTo
<1>1. data.total \in Nat /\ data.by_type \in [IntType -> Nat] /\ IoType \subseteq IntType
      /\ IoType \cap PeriodicType = {}
  BY DEF Sound, InterruptData, IoType, IntType, PeriodicType
<1>2. 0 \in Good
  BY <1>0, <1>1
<1>3. ASSUME NEW k \in 1 .. m, k - 1 \in Good PROVE k \in Good
  <2> DEFINE q == r[k - 1]
             e == events[k]
  <2>1. /\ Sound(q, t) /\ ~Ended(q) /\ q.total = data.total + (k - 1)
        /\ q.periodic_done = data.periodic_done
        /\ \A u \in IoType : q.by_type[u] = data.by_type[u]
    BY <1>3
  <2>2. /\ r[k] = Recorded(q, e) /\ e \in Event /\ e.time = t
        /\ ~e.fatal /\ e.type \in PeriodicType
    BY <1>0, <1>3
  <2> HIDE DEF q, e
  <2>3. /\ Sound(r[k], t) /\ r[k].total = q.total + 1 /\ r[k].periodic_done = q.periodic_done
        /\ Last(r[k].history) = e
        /\ \A u \in IntType : r[k].by_type[u] = q.by_type[u] + IF u = e.type THEN 1 ELSE 0
    BY <2>1, <2>2, RecordedSound
  <2>4. ~Ended(r[k])
    BY <2>2, <2>3 DEF Ended
  <2>5. \A u \in IoType : r[k].by_type[u] = data.by_type[u]
    <3> TAKE u \in IoType
    <3>1. u \in IntType /\ u # e.type /\ q.by_type[u] = data.by_type[u]
      BY <1>1, <2>1, <2>2
    <3>2. data.by_type[u] \in Nat
      BY <1>1, <3>1
    <3> QED
      BY <2>3, <3>1, <3>2
  <2>6. r[k].total = data.total + k
    BY <1>1, <2>1, <2>3
  <2> QED
    BY <2>1, <2>3, <2>4, <2>5, <2>6
<1> HIDE DEF Good
<1>4. \A k \in 0 .. m : k \in Good
  BY <1>2, <1>3, Recording!InductionTo
<1>5. m \in 0 .. m
  OBVIOUS
<1> QED
  BY <1>4, <1>5 DEF Good

(* And by all interrupts of a step.                                        *)
LEMMA AllAreRecorded ==
    ASSUME NEW t \in Nat, NEW data, Sound(data, t), ~Ended(data),
           NEW periodic, PeriodicNow(periodic, t), NEW others, OneNow(others, t)
    PROVE  LET new == AllRecorded(data, periodic \o others)
           IN  /\ Sound(new, t)
               /\ new.total = data.total + Len(periodic) + Len(others)
               /\ new.periodic_done = data.periodic_done
               /\ Len(periodic) \in Nat /\ Len(others) \in Nat
               /\ Len(periodic \o others) = Len(periodic) + Len(others)
               /\ Ended(new) <=> others # <<>> /\ others[1].fatal
               /\ \A u \in IoType :
                     new.by_type[u] = data.by_type[u]
                         + IF others # <<>> /\ others[1].type = u THEN 1 ELSE 0
<1> DEFINE m == Len(periodic)
           events == periodic \o others
           new == AllRecorded(data, events)
<1>0. data.total \in Nat /\ data.by_type \in [IntType -> Nat] /\ IoType \subseteq IntType
  BY DEF Sound, InterruptData, IoType, IntType
<1>1. periodic \in Seq(Event) /\ m \in Nat /\ others \in Seq(Event)
  <2>1. periodic \in Seq(Event)
    BY DEF PeriodicNow
  <2>2. \A e \in Event : <<e>> \in Seq(Event)
    OBVIOUS
  <2>3. <<>> \in Seq(Event)
    OBVIOUS
  <2> QED
    BY <2>1, <2>2, <2>3, LenProperties DEF OneNow
<1>2. /\ events \in Seq(Event) /\ Len(events) = m + Len(others)
      /\ \A i \in 1 .. m + Len(others) :
            events[i] = IF i =< m THEN periodic[i] ELSE others[i - m]
  BY <1>1, ConcatProperties
<1>3. PeriodicUpTo(events, m, t)
  <2> SUFFICES \A k \in 1 .. m : /\ events[k] \in Event /\ events[k].time = t
                                 /\ ~events[k].fatal /\ events[k].type \in PeriodicType
    BY DEF PeriodicUpTo
  <2> TAKE k \in 1 .. m
  <2>1. Len(others) \in Nat /\ k \in 1 .. m + Len(others) /\ k =< m
    BY <1>1, LenProperties
  <2>2. events[k] = periodic[k] /\ periodic[k] \in Event
    BY <1>1, <1>2, <2>1, ElementOfSeq
  <2> QED
    BY <2>2 DEF PeriodicNow
<1>5. CASE others = <<>>
  <2>1. Len(others) = 0 /\ Len(events) = m /\ DOMAIN events = 1 .. m
    BY <1>1, <1>2, <1>5, LenProperties
  <2> HIDE DEF events, m, new
  <2>2. \E r : Follows(r, data, events, m) /\ r[m] = AllRecorded(data, events)
    BY <1>1, <2>1, RecordedInSteps
  <2>3. PICK r : Follows(r, data, events, m) /\ r[m] = new
    BY <2>2 DEF new
  <2>4. /\ Sound(new, t) /\ ~Ended(new) /\ new.total = data.total + m
        /\ new.periodic_done = data.periodic_done
        /\ \A u \in IoType : new.by_type[u] = data.by_type[u]
    BY <1>1, <1>3, <2>3, PeriodicRecorded
  <2>5. \A u \in IoType : data.by_type[u] \in Nat
    BY <1>0
  <2> QED
    BY <1>0, <1>1, <1>2, <1>5, <2>1, <2>4, <2>5 DEF events, m, new
<1>6. ASSUME NEW e \in Event, e.time = t, others = <<e>>
      PROVE  /\ Len(others) = 1 /\ others # <<>> /\ others[1] = e
             /\ Sound(new, t) /\ new.total = data.total + m + 1
             /\ new.periodic_done = data.periodic_done
             /\ Ended(new) <=> e.fatal
             /\ \A u \in IoType :
                   new.by_type[u] = data.by_type[u] + IF e.type = u THEN 1 ELSE 0
  <2>1. Len(others) = 1 /\ others # <<>> /\ others[1] = e
    BY <1>6
  <2> DEFINE n == m + 1
  <2>2. /\ n \in Nat /\ Len(events) = n /\ DOMAIN events = 1 .. n /\ n - 1 = m
        /\ n \in 1 .. n /\ \A k \in 1 .. m : k \in 1 .. n
    BY <1>1, <1>2, <2>1, LenProperties
  <2>3. events[n] = e
    <3>1. n \in 1 .. m + Len(others) /\ ~(n =< m) /\ n - m = 1
      <4> HIDE DEF m
      <4> QED
        BY <1>1, <2>1
    <3> QED
      BY <1>2, <2>1, <3>1
  <2> HIDE DEF events, m, n, new
  <2>4. \E r : Follows(r, data, events, n) /\ r[n] = AllRecorded(data, events)
    <3>1. n \in Nat /\ DOMAIN events = 1 .. n
      BY <2>2
    <3> QED
      BY <3>1, RecordedInSteps
  <2>5. PICK r : Follows(r, data, events, n) /\ r[n] = new
    BY <2>4 DEF new
  <2>6. Follows(r, data, events, m)
    BY <2>2, <2>5 DEF Follows
  <2> DEFINE q == r[m]
  <2>7. /\ Sound(q, t) /\ ~Ended(q) /\ q.total = data.total + m
        /\ q.periodic_done = data.periodic_done
        /\ \A u \in IoType : q.by_type[u] = data.by_type[u]
    BY <1>1, <1>3, <2>6, PeriodicRecorded
  <2>8. new = Recorded(q, e)
    BY <2>2, <2>3, <2>5 DEF Follows
  <2> HIDE DEF q
  <2>9. /\ Sound(new, t) /\ new.total = q.total + 1
        /\ new.periodic_done = q.periodic_done
        /\ new.history # <<>> /\ Last(new.history) = e
        /\ \A u \in IntType : new.by_type[u] = q.by_type[u] + IF u = e.type THEN 1 ELSE 0
    <3>1. Sound(q, t) /\ ~Ended(q) /\ e \in Event /\ e.time = t
      BY <1>6, <2>7
    <3>2. LET made == Recorded(q, e)
          IN  /\ Sound(made, t) /\ made.total = q.total + 1
              /\ made.periodic_done = q.periodic_done
              /\ made.history # <<>> /\ Last(made.history) = e
              /\ \A u \in IntType :
                    made.by_type[u] = q.by_type[u] + IF u = e.type THEN 1 ELSE 0
      BY <3>1, RecordedSound
    <3> QED
      BY <2>8, <3>2
  <2>10. \A u \in IoType :
            new.by_type[u] = data.by_type[u] + IF e.type = u THEN 1 ELSE 0
    BY <1>0, <2>7, <2>9
  <2>11. Ended(new) <=> e.fatal
    BY <2>9 DEF Ended
  <2> QED
    BY <2>1, <2>7, <2>9, <2>10, <2>11
<1> HIDE DEF new
<1>7. CASE \E e \in Event : e.time = t /\ others = <<e>>
  <2>1. PICK e \in Event : e.time = t /\ others = <<e>>
    BY <1>7
  <2>2. /\ Len(others) = 1 /\ others # <<>> /\ others[1] = e
        /\ Sound(new, t) /\ new.total = data.total + m + 1
        /\ new.periodic_done = data.periodic_done
        /\ Ended(new) <=> e.fatal
        /\ \A u \in IoType :
              new.by_type[u] = data.by_type[u] + IF e.type = u THEN 1 ELSE 0
    BY <1>6, <2>1
  <2>3. Len(events) = m + 1
    BY <1>2, <2>2
  <2>4. \A u \in IoType :
            new.by_type[u] = data.by_type[u]
                + IF others # <<>> /\ others[1].type = u THEN 1 ELSE 0
    BY <2>2
  <2>5. new.total = data.total + m + Len(others) /\ Len(others) \in Nat
    BY <2>2
  <2>6. Ended(new) <=> others # <<>> /\ others[1].fatal
    BY <2>2
  <2> QED
    BY <1>1, <2>2, <2>3, <2>4, <2>5, <2>6 DEF new
<1> QED
  BY <1>5, <1>7 DEF OneNow

-----------------------------------------------------------------------------
(* The periodic interrupts.                                                *)

(* Division, as the code does it.                                          *)
LEMMA Quotient ==
    ASSUME NEW a \in Nat, NEW b \in Nat \ {0}
    PROVE  /\ a \div b \in Nat
           /\ (a \div b) * b =< a /\ a < (a \div b + 1) * b
  OBVIOUS

(* Multiples keep their order.                                             *)
LEMMA MultiplesOrdered ==
    ASSUME NEW m \in Nat, NEW n \in Nat, m =< n, NEW b \in Nat
    PROVE  m * b =< n * b /\ m * b \in Nat /\ n * b \in Nat
<1>1. n - m \in Nat /\ (n - m) * b \in Nat /\ n * b = m * b + (n - m) * b /\ m * b \in Nat
  OBVIOUS
<1> QED
  BY <1>1

(* A larger number has no smaller quotient.                                *)
LEMMA QuotientGrows ==
    ASSUME NEW a \in Nat, NEW c \in Nat, a =< c, NEW b \in Nat \ {0}
    PROVE  a \div b =< c \div b
<1> DEFINE m == a \div b
           n == c \div b
<1>1. m \in Nat /\ n \in Nat /\ m * b =< a /\ c < (n + 1) * b
  BY Quotient
<1> HIDE DEF m, n
<1>2. n + 1 =< m => (n + 1) * b =< m * b
  BY <1>1, MultiplesOrdered
<1>3. m * b \in Nat /\ (n + 1) * b \in Nat
  BY <1>1, MultiplesOrdered
<1>4. ~(n + 1 =< m)
  BY <1>1, <1>2, <1>3
<1>5. m =< n
  BY <1>1, <1>4
<1> QED
  BY <1>5 DEF m, n

(* How many are due depends on the part of the burst that was executed.    *)
LEMMA DueProperties ==
    ASSUME TypeOK, NEW p \in Procs, NEW n \in Nat
    PROVE  LET due == Due(p, n)
               burst == profile[p].burst
           IN  /\ due \in Nat /\ due * burst =< n * (Targets[p] + 1)
               /\ due < Targets[p] => (due + 1) * burst > n * (Targets[p] + 1)
               /\ n >= burst => due = Targets[p]
               /\ n = 0 => due = 0
               /\ \A m \in Nat : due =< Due(p, n + m)
<1> DEFINE due == Due(p, n)
           burst == profile[p].burst
           t == Targets[p]
           q == (n * (t + 1)) \div burst
<1>1. burst \in Nat \ {0} /\ t \in Nat
  BY BurstTypes, TimelineAssumption
<1>2. \A m \in Nat : m * (t + 1) \in Nat
  <2> HIDE DEF t
  <2> QED
    BY <1>1
<1>3. q \in Nat /\ q * burst =< n * (t + 1) /\ n * (t + 1) < (q + 1) * burst
  <2> HIDE DEF t, burst
  <2>1. n * (t + 1) \in Nat
    BY <1>2
  <2> QED
    BY <1>1, <2>1, Quotient
<1>4. due = IF t =< q THEN t ELSE q
  <2>1. due = Min({t, q})
    BY DEF Due
  <2> HIDE DEF due, t, q
  <2> QED
    BY <1>1, <1>3, <2>1, MinOfTwo
<1>5. \A m \in Nat : due =< Due(p, n + m)
  <2> TAKE m \in Nat
  <2> DEFINE r == ((n + m) * (t + 1)) \div burst
  <2>1. n + m \in Nat /\ n =< n + m
    OBVIOUS
  <2>2. q =< r /\ r \in Nat
    <3> HIDE DEF t, burst
    <3>1. /\ n * (t + 1) =< (n + m) * (t + 1)
          /\ n * (t + 1) \in Nat /\ (n + m) * (t + 1) \in Nat
      BY <1>1, <1>2, <2>1, MultiplesOrdered
    <3>2. r \in Nat
      BY <1>1, <3>1, Quotient
    <3>3. q =< r
      BY <1>1, <3>1, QuotientGrows
    <3> QED
      BY <3>2, <3>3
  <2>3. Due(p, n + m) = IF t =< r THEN t ELSE r
    <3>1. Due(p, n + m) = Min({t, r})
      BY DEF Due
    <3>2. t \in Nat /\ r \in Nat
      BY <1>1, <2>2
    <3> HIDE DEF due, t, q, r
    <3> QED
      BY <3>1, <3>2, MinOfTwo
  <2> HIDE DEF due, t, q, r
  <2> QED
    BY <1>1, <1>3, <1>4, <2>2, <2>3
<1> HIDE DEF due, t, q, burst
<1>6. due \in Nat /\ due =< q
  BY <1>1, <1>3, <1>4
<1>7. due * burst =< n * (t + 1)
  <2>1. due * burst =< q * burst /\ due * burst \in Nat /\ q * burst \in Nat
    BY <1>1, <1>3, <1>6, MultiplesOrdered
  <2> QED
    BY <1>2, <1>3, <2>1
<1>8. due < t => (due + 1) * burst > n * (t + 1)
  <2>1. due < t => due = q
    BY <1>1, <1>3, <1>4
  <2>2. (q + 1) * burst \in Nat /\ n * (t + 1) \in Nat
    BY <1>1, <1>2, <1>3
  <2> QED
    BY <1>3, <2>1, <2>2
<1>9. n >= burst => due = t
  <2> SUFFICES ASSUME n >= burst PROVE t =< q
    BY <1>1, <1>3, <1>4
  <2>1. burst * (t + 1) =< n * (t + 1) /\ burst * (t + 1) \in Nat
    BY <1>1, MultiplesOrdered
  <2>2. burst * (t + 1) = (t + 1) * burst
    BY <1>1
  <2>3. q + 1 =< t => (q + 1) * burst =< (t + 1) * burst
    <3>1. q + 1 =< t => q + 1 =< t + 1
      BY <1>1, <1>3
    <3> QED
      BY <1>1, <1>3, <3>1, MultiplesOrdered
  <2>4. (q + 1) * burst \in Nat /\ (t + 1) * burst \in Nat /\ n * (t + 1) \in Nat
    BY <1>1, <1>2, <1>3
  <2>5. ~(q + 1 =< t)
    BY <1>3, <2>1, <2>2, <2>3, <2>4
  <2> QED
    BY <1>1, <1>3, <2>5
<1>10. n = 0 => due = 0
  <2> SUFFICES ASSUME n = 0 PROVE due = 0
    OBVIOUS
  <2>1. n * (t + 1) = 0
    BY <1>1
  <2>2. q * burst \in Nat /\ q * burst =< 0
    BY <1>1, <1>3, <2>1
  <2>3. q >= 1 => 1 * burst =< q * burst
    BY <1>1, <1>3, MultiplesOrdered
  <2>4. q = 0
    BY <1>1, <1>3, <2>2, <2>3
  <2> QED
    BY <1>6, <2>4
<1> QED
  BY <1>5, <1>6, <1>7, <1>8, <1>9, <1>10 DEF due, t, burst

-----------------------------------------------------------------------------
(* The interrupts tell the story of the process.                           *)

Story(p) ==
    LET data == interrupt[p]
    IN  /\ Sound(data, current_time)
        /\ data.by_type["IO_REQUEST"] = IF io[p].started THEN 1 ELSE 0
        /\ data.by_type["IO_COMPLETE"] = IF io[p].completed THEN 1 ELSE 0
        /\ data.periodic_done = Due(p, sched[p].cpu)
        /\ Ended(data) <=> failed[p] /\ ~Oversized(p)

Totalled == [p \in Procs |-> interrupt[p].total]

StoryInv ==
    /\ interrupt \in [Procs -> InterruptData]
    /\ \A p \in Procs : Story(p)
    /\ interrupt_count = SumFunction(Totalled)

(* A process that nothing happens to, while time may pass.                 *)
LEMMA StoryFrame ==
    ASSUME NEW p \in Procs, Story(p), interrupt'[p] = interrupt[p],
           current_time \in Nat, current_time' \in Nat, current_time =< current_time',
           profile' = profile, sched'[p].cpu = sched[p].cpu,
           io'[p].started = io[p].started, io'[p].completed = io[p].completed,
           failed'[p] /\ ~Oversized(p) <=> failed[p] /\ ~Oversized(p)
    PROVE  Story(p)'
<1> DEFINE data == interrupt[p]
           h == data.history
<1>1. Sound(data, current_time)
  BY DEF Story
<1>2. \A i \in DOMAIN h : h[i].time \in Nat
  <2>1. h \in Seq(Event)
    BY <1>1 DEF Sound, InterruptData
  <2>2. \A i \in DOMAIN h : h[i] \in Event
    BY <2>1, LenProperties, ElementOfSeq
  <2> QED
    BY <2>2 DEF Event
<1>3. Sound(data, current_time')
  <2>1. \A i \in DOMAIN h : h[i].time =< current_time'
    <3>1. \A i \in DOMAIN h : h[i].time =< current_time
      BY <1>1 DEF Sound
    <3> HIDE DEF h
    <3> QED
      BY <1>2, <3>1
  <2> HIDE DEF data
  <2> QED
    BY <1>1, <2>1 DEF Sound
<1>4. Due(p, sched[p].cpu)' = Due(p, sched[p].cpu) /\ (Oversized(p)' <=> Oversized(p))
  BY DEF Due, Oversized
<1> QED
  BY <1>3, <1>4 DEF Story

(* What a step that records interrupts of p does to the records.           *)
LEMMA RecordSteps ==
    ASSUME current_time \in Nat, StoryInv, NEW p \in Procs, ~Ended(interrupt[p]),
           NEW periodic, PeriodicNow(periodic, current_time),
           NEW others, OneNow(others, current_time),
           Record(p, periodic, others)
    PROVE  /\ interrupt' \in [Procs -> InterruptData]
           /\ \A q \in Procs \ {p} : interrupt'[q] = interrupt[q]
           /\ Sound(interrupt'[p], current_time)
           /\ interrupt'[p].periodic_done = interrupt[p].periodic_done + Len(periodic)
           /\ Ended(interrupt'[p]) <=> others # <<>> /\ others[1].fatal
           /\ \A u \in IoType :
                 interrupt'[p].by_type[u] = interrupt[p].by_type[u]
                     + IF others # <<>> /\ others[1].type = u THEN 1 ELSE 0
           /\ interrupt_count' = SumFunction(Totalled)'
<1> DEFINE data == interrupt[p]
           new == AllRecorded(data, periodic \o others)
           newer == [new EXCEPT !.periodic_done = new.periodic_done + Len(periodic)]
<1>1. /\ Sound(data, current_time) /\ interrupt \in [Procs -> InterruptData]
      /\ data \in InterruptData
  BY DEF StoryInv, Story
<1> HIDE DEF data
<1>2. /\ Sound(new, current_time)
      /\ new.total = data.total + Len(periodic) + Len(others)
      /\ new.periodic_done = data.periodic_done
      /\ Len(periodic) \in Nat /\ Len(others) \in Nat
      /\ Len(periodic \o others) = Len(periodic) + Len(others)
      /\ Ended(new) <=> others # <<>> /\ others[1].fatal
      /\ \A u \in IoType :
            new.by_type[u] = data.by_type[u]
                + IF others # <<>> /\ others[1].type = u THEN 1 ELSE 0
  <2>1. ~Ended(data)
    BY DEF data
  <2> HIDE DEF new
  <2> QED
    BY <1>1, <2>1, AllAreRecorded DEF new
<1>3. interrupt' = [interrupt EXCEPT ![p] = newer]
  BY DEF Record, data
<1>4. interrupt_count' = interrupt_count + Len(periodic \o others)
  BY DEF Record
<1> HIDE DEF new
<1>5. new \in InterruptData
  BY <1>2 DEF Sound
<1>6. /\ newer.history = new.history /\ newer.total = new.total
      /\ newer.by_type = new.by_type
      /\ newer.periodic_done = new.periodic_done + Len(periodic)
  BY <1>5 DEF InterruptData
<1>7. newer \in InterruptData
  <2>1. new.periodic_done + Len(periodic) \in Nat
    BY <1>2, <1>5 DEF InterruptData
  <2> QED
    BY <1>5, <2>1 DEF InterruptData
<1> HIDE DEF newer
<1>8. Sound(newer, current_time) /\ (Ended(newer) <=> Ended(new))
  BY <1>2, <1>6, <1>7 DEF Sound, Ended
<1>9. interrupt'[p] = newer /\ \A q \in Procs \ {p} : interrupt'[q] = interrupt[q]
  BY <1>1, <1>3
<1>10. interrupt' \in [Procs -> InterruptData]
  BY <1>1, <1>3, <1>7
<1>11. interrupt_count' = SumFunction(Totalled)'
  <2> DEFINE f == Totalled
             g == Totalled'
  <2>1. /\ \A q \in Procs : f[q] \in Int /\ g[q] \in Int
        /\ DOMAIN f = Procs /\ DOMAIN g = Procs
    BY <1>1, <1>10 DEF Totalled, InterruptData
  <2>2. \A q \in Procs \ {p} : g[q] = f[q]
    BY <1>9 DEF Totalled
  <2>3. f[p] = data.total /\ g[p] = data.total + Len(periodic) + Len(others)
        /\ data.total \in Nat
    BY <1>1, <1>2, <1>6, <1>9 DEF Totalled, InterruptData, data
  <2>4. interrupt_count = SumFunctionOnSet(f, Procs)
    BY <2>1 DEF StoryInv, SumFunction
  <2>5. SumFunction(Totalled)' = SumFunctionOnSet(g, Procs)
    BY <2>1 DEF SumFunction
  <2> HIDE DEF f, g
  <2>6. /\ SumFunctionOnSet(f, Procs) \in Int
        /\ SumFunctionOnSet(g, Procs) = SumFunctionOnSet(f, Procs) + (g[p] - f[p])
    BY <2>1, <2>2, ProcsAreFinite, SumChanges
  <2>7. g[p] - f[p] = Len(periodic) + Len(others)
    BY <1>2, <2>3
  <2> QED
    BY <1>2, <1>4, <2>4, <2>5, <2>6, <2>7
<1> QED
  BY <1>2, <1>6, <1>8, <1>9, <1>10, <1>11 DEF data

(* The records of a step tell what it does.                                *)
LEMMA RecordedStory ==
    ASSUME TypeOK, StoryInv, NEW p \in Procs, ~failed[p], ~Oversized(p),
           NEW periodic, PeriodicNow(periodic, current_time),
           NEW others, OneNow(others, current_time),
           Record(p, periodic, others),
           profile' = profile, current_time' = current_time,
           \A q \in Procs \ {p} :
               /\ sched'[q].cpu = sched[q].cpu /\ failed'[q] = failed[q]
               /\ io'[q].started = io[q].started /\ io'[q].completed = io[q].completed,
           failed'[p] <=> others # <<>> /\ others[1].fatal,
           Due(p, sched'[p].cpu) = Due(p, sched[p].cpu) + Len(periodic),
           (IF io'[p].started THEN 1 ELSE 0) = (IF io[p].started THEN 1 ELSE 0)
               + IF others # <<>> /\ others[1].type = "IO_REQUEST" THEN 1 ELSE 0,
           (IF io'[p].completed THEN 1 ELSE 0) = (IF io[p].completed THEN 1 ELSE 0)
               + IF others # <<>> /\ others[1].type = "IO_COMPLETE" THEN 1 ELSE 0
    PROVE  StoryInv'
<1>1. current_time \in Nat
  BY DEF TypeOK
<1>2. /\ Sound(interrupt[p], current_time) /\ ~Ended(interrupt[p])
      /\ interrupt[p].by_type["IO_REQUEST"] = IF io[p].started THEN 1 ELSE 0
      /\ interrupt[p].by_type["IO_COMPLETE"] = IF io[p].completed THEN 1 ELSE 0
      /\ interrupt[p].periodic_done = Due(p, sched[p].cpu)
  BY DEF StoryInv, Story
<1>3. /\ interrupt' \in [Procs -> InterruptData]
      /\ \A q \in Procs \ {p} : interrupt'[q] = interrupt[q]
      /\ Sound(interrupt'[p], current_time)
      /\ interrupt'[p].periodic_done = interrupt[p].periodic_done + Len(periodic)
      /\ Ended(interrupt'[p]) <=> others # <<>> /\ others[1].fatal
      /\ \A u \in IoType :
            interrupt'[p].by_type[u] = interrupt[p].by_type[u]
                + IF others # <<>> /\ others[1].type = u THEN 1 ELSE 0
      /\ interrupt_count' = SumFunction(Totalled)'
  BY <1>1, <1>2, RecordSteps
<1>4. Story(p)'
  <2>1. Due(p, sched[p].cpu)' = Due(p, sched'[p].cpu) /\ (Oversized(p)' <=> Oversized(p))
    BY DEF Due, Oversized
  <2>2. /\ interrupt'[p].by_type["IO_REQUEST"] = IF io'[p].started THEN 1 ELSE 0
        /\ interrupt'[p].by_type["IO_COMPLETE"] = IF io'[p].completed THEN 1 ELSE 0
    BY <1>2, <1>3 DEF IoType
  <2> QED
    BY <1>2, <1>3, <2>1, <2>2 DEF Story
<1>5. ASSUME NEW q \in Procs \ {p} PROVE Story(q)'
  <2>1. Story(q) /\ current_time =< current_time'
    BY <1>1 DEF StoryInv
  <2> QED
    BY <1>1, <1>3, <2>1, StoryFrame
<1> QED
  BY <1>3, <1>4, <1>5 DEF StoryInv
-----------------------------------------------------------------------------
(* The steps that record nothing.                                          *)

Silent ==
    \/ Arrival \/ Swapper \/ Admission \/ Stopped
    \/ Preempt \/ KeepRunning \/ StopSimulation \/ EndTick \/ SelectNext
    \/ SwitchTick \/ IdleTick \/ RunTick
    \/ DeviceWorks \/ SwitchDone \/ TickDone

(* They make no request and answer none, and fail no process but one that  *)
(* was never let in.                                                       *)
LEMMA SilentFlags ==
    ASSUME KernelInv, Silent, NEW p \in Procs
    PROVE  /\ io'[p].started = io[p].started /\ io'[p].completed = io[p].completed
           /\ failed'[p] /\ ~Oversized(p) <=> failed[p] /\ ~Oversized(p)
<1>0. TypeOK
  BY DEF KernelInv, TypeInv
<1>1. CASE Reject
  <2>1. /\ Head(todo) \in Procs /\ Oversized(Head(todo)) /\ io' = io
        /\ Finish(Head(todo), TRUE, sched)
    BY <1>1, HeadsOfWalks DEF Reject
  <2>2. failed'[p] = IF p = Head(todo) THEN TRUE ELSE failed[p]
    BY <1>0, <2>1, CancelledTimes
  <2> QED
    BY <2>1, <2>2
<1>2. CASE DeviceWorks
  <2>1. io[p] \in IoState /\ failed' = failed
    BY <1>0, <1>2 DEF TypeOK, DeviceWorks
  <2>2. io' = io \/ io' = [io EXCEPT ![Requester].remaining = @ - delta]
    BY <1>2 DEF DeviceWorks
  <2> DEFINE new == [io[p] EXCEPT !.remaining = @ - delta]
  <2>3. new.started = io[p].started /\ new.completed = io[p].completed
    BY <2>1 DEF IoState
  <2>4. io'[p] \in {io[p], new}
    BY <1>0, <2>2 DEF TypeOK
  <2> HIDE DEF new
  <2> QED
    BY <2>1, <2>3, <2>4
<1>3. CASE Arrival \/ Swapper \/ Admit \/ SkipJob \/ JobDone
  BY <1>3 DEF Arrival, BeginTick, Arrive, SkipRow, ArrivalDone, Swapper, SwapIn,
              SkipSwapIn, SwapOut, MidTermDone, Admit, SkipJob, JobDone, pcb
<1>4. CASE \/ Preempt \/ KeepRunning \/ StopSimulation \/ EndTick \/ SelectNext
           \/ SwitchDone \/ TickDone \/ Stopped
  BY <1>4 DEF Preempt, KeepRunning, StopSimulation, EndTick, SelectNext, SwitchDone,
              TickDone, Stopped, vars, pcb
<1>5. CASE SwitchTick \/ IdleTick \/ RunTick
  BY <1>5 DEF SwitchTick, IdleTick, RunTick, StartTick
<1> QED
  BY <1>1, <1>2, <1>3, <1>4, <1>5 DEF Silent, Admission

(* So every story goes on as it was.                                       *)
LEMMA SilentStory ==
    ASSUME KernelInv, StoryInv, Silent, UNCHANGED <<interrupt, interrupt_count>>
    PROVE  StoryInv'
<1>1. Next
  BY DEF Silent, Next, Decision, Device
<1>2. Quiet \/ GetsCpu \/ Ticks \/ Cancels
  BY QuietSteps, SelectSteps, TickSteps, CancelSteps, SwitchDoneDispatches
  DEF Silent, Admission
<1>3. /\ current_time \in Nat /\ current_time' \in Nat /\ current_time =< current_time'
      /\ profile' = profile
  <2>1. current_time \in Nat
    BY DEF KernelInv, TypeInv, TypeOK
  <2>2. current_time' = current_time \/ \E d \in Nat : current_time' = current_time + d
    BY <1>2 DEF Quiet, GetsCpu, Ticks, Cancels
  <2> QED
    BY <1>1, <2>1, <2>2, ProfileStays
<1>4. ASSUME NEW p \in Procs PROVE Story(p)'
  <2>1. sched'[p].cpu = sched[p].cpu
    BY <1>2, CpuTimeStays
  <2>2. Story(p) /\ interrupt'[p] = interrupt[p]
    BY DEF StoryInv
  <2> QED
    BY <1>3, <2>1, <2>2, SilentFlags, StoryFrame
<1>5. SumFunction(Totalled)' = SumFunction(Totalled)
  BY DEF Totalled
<1> QED
  BY <1>4, <1>5 DEF StoryInv

-----------------------------------------------------------------------------
(* The steps that record something.                                        *)

(* A process that lives has neither failed nor been turned away.           *)
LEMMA GoodSoFar ==
    ASSUME BurstInv, SizesFit, NEW p \in Procs, state[p] \in {"RUNNING", "BLOCKED"}
    PROVE  ~failed[p] /\ ~Oversized(p)
  BY DEF BurstInv, BurstGoesOn, SizesFit

(* What is recorded now is an event of now.                                *)
LEMMA RaisedNow ==
    ASSUME TypeOK, NEW type \in IntType, NEW fatal \in BOOLEAN
    PROVE  LET e == Raised(type, fatal)
           IN  /\ e \in Event /\ e.type = type /\ e.fatal = fatal
               /\ e.time = current_time /\ OneNow(<<e>>, current_time)
               /\ <<e>> # <<>> /\ <<e>>[1] = e
<1> DEFINE e == Raised(type, fatal)
<1>1. e \in Event /\ e.type = type /\ e.fatal = fatal /\ e.time = current_time
  BY DEF TypeOK, Raised, Event
<1> HIDE DEF e
<1>2. OneNow(<<e>>, current_time) /\ <<e>> # <<>> /\ <<e>>[1] = e
  BY <1>1 DEF OneNow
<1> QED
  BY <1>1, <1>2 DEF e

(* A device answers the request of a process, or the user cancels it.      *)
LEMMA CompletionStory ==
    ASSUME KernelInv, BurstInv, DeviceInv, SizesFit, StoryInv, Completions
    PROVE  StoryInv'
<1> DEFINE p == Requester
           periodic == <<>>
<1>1. PICK fatal \in BOOLEAN :
          /\ CompleteIo /\ Record(p, <<>>, <<Raised("IO_COMPLETE", fatal)>>)
          /\ \/ ~fatal /\ failed' = failed
             \/ fatal /\ Finish(p, TRUE, sched)
  BY DEF Completions, IoComplete, KeyboardCancel
<1> DEFINE others == <<Raised("IO_COMPLETE", fatal)>>
<1>2. TypeOK /\ p \in Procs /\ state[p] = "BLOCKED" /\ dev \in Devices
  BY <1>1, ServedRequest DEF KernelInv, TypeInv
<1>3. io[p].started /\ ~io[p].completed
  <2>1. device_q[dev] # <<>> /\ device_q[dev] \in Seq(Procs)
    BY <1>1, <1>2 DEF CompleteIo, TypeOK
  <2>2. 1 \in DOMAIN device_q[dev] /\ device_q[dev][1] = p
    BY <2>1 DEF Requester
  <2> QED
    BY <1>2, <2>2 DEF DeviceInv, DeviceServesInOrder
<1>4. ~failed[p] /\ ~Oversized(p)
  BY <1>2, GoodSoFar
<1>5. /\ profile' = profile /\ current_time' = current_time
      /\ io' = [io EXCEPT ![p].remaining = 0, ![p].completed = TRUE]
  BY <1>1 DEF CompleteIo, AtDevice, setup, clock
<1>6. \A q \in Procs : sched'[q].cpu = sched[q].cpu
  BY NoTickTimes DEF Completions, Waitless, Device
<1>7. \A q \in Procs : failed'[q] = IF q = p THEN fatal ELSE failed[q]
  <2>1. CASE ~fatal /\ failed' = failed
    <3>1. failed[p] = fatal
      BY <1>2, <1>4, <2>1 DEF TypeOK
    <3> QED
      BY <2>1, <3>1
  <2>2. CASE fatal /\ Finish(p, TRUE, sched)
    BY <1>2, <2>2, CancelledTimes
  <2> QED
    BY <1>1, <2>1, <2>2
<1>8. /\ io'[p].started /\ io'[p].completed
      /\ \A q \in Procs \ {p} : io'[q] = io[q]
  <2>1. io \in [Procs -> IoState] /\ io[p] \in IoState
    BY <1>2 DEF TypeOK
  <2> HIDE DEF p
  <2> QED
    BY <1>2, <1>3, <1>5, <2>1 DEF IoState
<1>9. /\ OneNow(others, current_time) /\ others # <<>>
      /\ others[1].fatal = fatal /\ others[1].type = "IO_COMPLETE"
  <2>1. "IO_COMPLETE" \in IntType
    BY DEF IntType
  <2> QED
    BY <1>2, <2>1, RaisedNow
<1>10. PeriodicNow(periodic, current_time) /\ Len(periodic) = 0
  BY DEF PeriodicNow
<1>11. Record(p, periodic, others)
  BY <1>1
<1>12. Due(p, sched'[p].cpu) = Due(p, sched[p].cpu) + Len(periodic)
  <2>1. sched[p].cpu \in Nat
    BY <1>2, BurstTypes
  <2>2. Due(p, sched[p].cpu) \in Nat
    BY <1>2, <2>1, DueProperties
  <2> QED
    BY <1>2, <1>6, <1>10, <2>2
<1> HIDE DEF p, periodic, others
<1>13. failed'[p] <=> others # <<>> /\ others[1].fatal
  BY <1>2, <1>7, <1>9
<1>14. /\ (IF io'[p].started THEN 1 ELSE 0) = (IF io[p].started THEN 1 ELSE 0)
            + IF others # <<>> /\ others[1].type = "IO_REQUEST" THEN 1 ELSE 0
       /\ (IF io'[p].completed THEN 1 ELSE 0) = (IF io[p].completed THEN 1 ELSE 0)
            + IF others # <<>> /\ others[1].type = "IO_COMPLETE" THEN 1 ELSE 0
  BY <1>3, <1>8, <1>9
<1>15. \A q \in Procs \ {p} :
          /\ sched'[q].cpu = sched[q].cpu /\ failed'[q] = failed[q]
          /\ io'[q].started = io[q].started /\ io'[q].completed = io[q].completed
  BY <1>6, <1>7, <1>8
<1> QED
  BY <1>2, <1>4, <1>5, <1>9, <1>10, <1>11, <1>12, <1>13, <1>14, <1>15, RecordedStory
(* A tick of the CPU raises the periodic interrupts now due, and one other *)
(* at most: the one that tells its outcome.                                *)
LEMMA TickStory ==
    ASSUME KernelInv, BurstInv, SizesFit, StoryInv, Cpu,
           NEW others, OneNow(others, current_time), Outcome(others),
           failed'[running] <=> others # <<>> /\ others[1].fatal,
           \A q \in Procs \ {running} : failed'[q] = failed[q] /\ io'[q] = io[q],
           (IF io'[running].started THEN 1 ELSE 0)
               = (IF io[running].started THEN 1 ELSE 0)
                     + IF others # <<>> /\ others[1].type = "IO_REQUEST" THEN 1 ELSE 0,
           io'[running].completed = io[running].completed,
           ~(others # <<>> /\ others[1].type = "IO_COMPLETE")
    PROVE  StoryInv'
<1> DEFINE p == running
           cpu_time == sched[p].cpu
           due == Due(p, Ran[p].cpu) - interrupt[p].periodic_done
<1>1. /\ TypeOK /\ p \in Procs /\ state[p] = "RUNNING"
      /\ UNCHANGED <<profile, current_time>>
  BY CpuCases
<1>2. ~failed[p] /\ ~Oversized(p)
  BY <1>1, GoodSoFar
<1>3. /\ Ran[p].cpu = cpu_time + TICK /\ sched'[p].cpu = Ran[p].cpu
      /\ \A q \in Procs \ {p} : sched'[q].cpu = sched[q].cpu
  <2>1. \A q \in Procs :
            /\ sched'[q].cpu = Ran[q].cpu
            /\ Ran[q].cpu = sched[q].cpu + IF q = running THEN TICK ELSE 0
    BY <1>1, CpuFields, RanTimes DEF HasRan
  <2>2. \A q \in Procs : sched[q].cpu \in Nat
    BY <1>1, BurstTypes
  <2> QED
    BY <1>1, <2>1, <2>2
<1>4. cpu_time \in Nat /\ TICK \in Nat /\ cpu_time + TICK \in Nat
  <2>1. cpu_time \in Nat /\ TICK \in Nat
    BY <1>1, BurstTypes
  <2> HIDE DEF cpu_time
  <2> QED
    BY <2>1
<1>5. interrupt[p].periodic_done = Due(p, cpu_time)
  BY <1>1 DEF StoryInv, Story
<1>6. due \in Nat /\ Due(p, sched'[p].cpu) = Due(p, cpu_time) + due
  <2> HIDE DEF cpu_time
  <2>1. Due(p, cpu_time) \in Nat /\ Due(p, cpu_time) =< Due(p, cpu_time + TICK)
    BY <1>1, <1>4, DueProperties
  <2>2. Due(p, cpu_time + TICK) \in Nat
    BY <1>1, <1>4, DueProperties
  <2> QED
    BY <1>3, <1>5, <2>1, <2>2
<1>7. PICK kinds \in [1 .. due -> PeriodicType] :
          Record(p, [i \in 1 .. due |-> Raised(kinds[i], FALSE)], others)
  BY DEF Outcome
<1> DEFINE periodic == [i \in 1 .. due |-> Raised(kinds[i], FALSE)]
<1> HIDE DEF due
<1>8. \A i \in 1 .. due : /\ periodic[i] \in Event /\ periodic[i].time = current_time
                          /\ ~periodic[i].fatal /\ periodic[i].type \in PeriodicType
  <2> TAKE i \in 1 .. due
  <2>1. kinds[i] \in PeriodicType /\ kinds[i] \in IntType /\ FALSE \in BOOLEAN
    BY <1>7 DEF IntType
  <2>2. periodic[i] = Raised(kinds[i], FALSE)
    OBVIOUS
  <2> DEFINE fatal == FALSE
  <2>3. /\ Raised(kinds[i], fatal) \in Event /\ Raised(kinds[i], fatal).time = current_time
        /\ Raised(kinds[i], fatal).fatal = fatal
        /\ Raised(kinds[i], fatal).type = kinds[i]
    BY <1>1, <2>1, RaisedNow
  <2> HIDE DEF periodic
  <2> QED
    BY <2>1, <2>2, <2>3
<1>9. periodic \in Seq(Event) /\ Len(periodic) = due
  <2>1. DOMAIN periodic = 1 .. due
    OBVIOUS
  <2>2. periodic \in [1 .. due -> Event]
    BY <1>8
  <2> HIDE DEF periodic
  <2> QED
    BY <1>6, <2>1, <2>2
<1>10. Record(p, periodic, others)
  BY <1>7
<1> HIDE DEF periodic
<1>11. PeriodicNow(periodic, current_time)
  BY <1>8, <1>9 DEF PeriodicNow
<1>12. Due(p, sched'[p].cpu) = Due(p, sched[p].cpu) + Len(periodic)
  BY <1>6, <1>9
<1>13. (IF io'[p].completed THEN 1 ELSE 0) = (IF io[p].completed THEN 1 ELSE 0)
            + IF others # <<>> /\ others[1].type = "IO_COMPLETE" THEN 1 ELSE 0
  OBVIOUS
<1>14. \A q \in Procs \ {p} :
          /\ sched'[q].cpu = sched[q].cpu /\ failed'[q] = failed[q]
          /\ io'[q].started = io[q].started /\ io'[q].completed = io[q].completed
  BY <1>3
<1> QED
  BY <1>1, <1>2, <1>10, <1>11, <1>12, <1>13, <1>14, RecordedStory

(* Each of the five outcomes of a tick of the CPU.                         *)
LEMMA CpuStory ==
    ASSUME KernelInv, BurstInv, SizesFit, StoryInv, CpuInterrupts
    PROVE  StoryInv'
<1>1. /\ TypeOK /\ running \in Procs /\ state[running] = "RUNNING"
      /\ Ran \in [Procs -> SchedData] /\ Cpu
  BY CpuCases DEF CpuInterrupts, Cpu
<1>2. failed[running] = FALSE
  BY <1>1, GoodSoFar DEF TypeOK
<1>3. CASE CpuFail
  <2>1. PICK type \in ExceptionType : Outcome(<<Raised(type, TRUE)>>)
    BY <1>3 DEF CpuInterrupts, CpuFail, CpuTerminate, CpuBlock, CpuQuantum, CpuContinue
  <2> DEFINE fatal == TRUE
             others == <<Raised(type, fatal)>>
  <2>2. type \in IntType /\ type \notin IoType /\ fatal \in BOOLEAN
    BY DEF IntType, ExceptionType, IoType
  <2>3. /\ Finish(running, fatal, Ran) /\ io' = io
    BY <1>3 DEF CpuFail
  <2>4. Outcome(others) /\ fatal
    BY <2>1
  <2> HIDE DEF fatal
  <2>5. /\ OneNow(others, current_time) /\ others # <<>>
        /\ others[1].fatal = fatal /\ others[1].type = type
    BY <1>1, <2>2, RaisedNow
  <2> HIDE DEF others
  <2>6. \A q \in Procs : failed'[q] = IF q = running THEN fatal ELSE failed[q]
    BY <1>1, <2>3, FinishedTimes
  <2>7. /\ failed'[running] <=> others # <<>> /\ others[1].fatal
        /\ \A q \in Procs \ {running} : failed'[q] = failed[q] /\ io'[q] = io[q]
    BY <1>1, <2>3, <2>5, <2>6
  <2>8. /\ (IF io'[running].started THEN 1 ELSE 0) = (IF io[running].started THEN 1 ELSE 0)
              + IF others # <<>> /\ others[1].type = "IO_REQUEST" THEN 1 ELSE 0
        /\ io'[running].completed = io[running].completed
        /\ ~(others # <<>> /\ others[1].type = "IO_COMPLETE")
    BY <2>2, <2>3, <2>5 DEF IoType
  <2> QED
    BY <1>1, <2>4, <2>5, <2>7, <2>8, TickStory
<1>4. CASE CpuTerminate
  <2> DEFINE fatal == FALSE
             others == <<>>
  <2>1. Finish(running, fatal, Ran) /\ io' = io /\ ~fatal
    BY <1>4 DEF CpuTerminate
  <2>2. Outcome(others) /\ OneNow(others, current_time) /\ others = <<>>
    BY <1>4
    DEF CpuInterrupts, CpuFail, CpuTerminate, CpuBlock, CpuQuantum, CpuContinue, OneNow
  <2> HIDE DEF fatal, others
  <2>3. \A q \in Procs : failed'[q] = IF q = running THEN fatal ELSE failed[q]
    BY <1>1, <2>1, FinishedTimes
  <2>4. /\ failed'[running] <=> others # <<>> /\ others[1].fatal
        /\ \A q \in Procs \ {running} : failed'[q] = failed[q] /\ io'[q] = io[q]
    BY <1>1, <2>1, <2>2, <2>3
  <2>5. /\ (IF io'[running].started THEN 1 ELSE 0) = (IF io[running].started THEN 1 ELSE 0)
              + IF others # <<>> /\ others[1].type = "IO_REQUEST" THEN 1 ELSE 0
        /\ io'[running].completed = io[running].completed
        /\ ~(others # <<>> /\ others[1].type = "IO_COMPLETE")
    BY <2>1, <2>2
  <2> QED
    BY <1>1, <2>2, <2>4, <2>5, TickStory
<1>5. CASE CpuBlock
  <2> DEFINE fatal == FALSE
             others == <<Raised("IO_REQUEST", fatal)>>
  <2>1. /\ "IO_REQUEST" \in IntType /\ fatal \in BOOLEAN /\ ~fatal
    BY DEF IntType
  <2>2. Outcome(others)
    BY <1>5 DEF CpuInterrupts, CpuFail, CpuTerminate, CpuBlock, CpuQuantum, CpuContinue
  <2> HIDE DEF fatal
  <2>3. /\ OneNow(others, current_time) /\ others # <<>>
        /\ others[1].fatal = fatal /\ others[1].type = "IO_REQUEST"
    BY <1>1, <2>1, RaisedNow
  <2> HIDE DEF others
  <2>4. /\ failed' = failed /\ ~io[running].started
        /\ io' = [io EXCEPT ![running].started = TRUE,
                            ![running].remaining = profile[running].io_duration]
    BY <1>5 DEF CpuBlock, RequestsIo
  <2>5. /\ io'[running].started /\ io'[running].completed = io[running].completed
        /\ \A q \in Procs \ {running} : io'[q] = io[q]
    <3>1. io \in [Procs -> IoState] /\ io[running] \in IoState
      BY <1>1 DEF TypeOK
    <3> QED
      BY <1>1, <2>4, <3>1 DEF IoState
  <2>6. /\ failed'[running] <=> others # <<>> /\ others[1].fatal
        /\ \A q \in Procs \ {running} : failed'[q] = failed[q] /\ io'[q] = io[q]
    BY <1>2, <2>1, <2>3, <2>4, <2>5
  <2>7. /\ (IF io'[running].started THEN 1 ELSE 0) = (IF io[running].started THEN 1 ELSE 0)
              + IF others # <<>> /\ others[1].type = "IO_REQUEST" THEN 1 ELSE 0
        /\ ~(others # <<>> /\ others[1].type = "IO_COMPLETE")
    BY <2>3, <2>4, <2>5
  <2> QED
    BY <1>1, <2>2, <2>3, <2>5, <2>6, <2>7, TickStory
<1>6. CASE CpuQuantum
  <2> DEFINE fatal == FALSE
             others == <<Raised("HW_TIMER", fatal)>>
  <2>1. /\ "HW_TIMER" \in IntType /\ fatal \in BOOLEAN /\ ~fatal
    BY DEF IntType, PeriodicType
  <2>2. Outcome(others) /\ failed' = failed /\ io' = io
    BY <1>6 DEF CpuInterrupts, CpuFail, CpuTerminate, CpuBlock, CpuQuantum, CpuContinue
  <2> HIDE DEF fatal
  <2>3. /\ OneNow(others, current_time) /\ others # <<>>
        /\ others[1].fatal = fatal /\ others[1].type = "HW_TIMER"
    BY <1>1, <2>1, RaisedNow
  <2> HIDE DEF others
  <2>4. /\ failed'[running] <=> others # <<>> /\ others[1].fatal
        /\ \A q \in Procs \ {running} : failed'[q] = failed[q] /\ io'[q] = io[q]
    BY <1>2, <2>1, <2>2, <2>3
  <2>5. /\ (IF io'[running].started THEN 1 ELSE 0) = (IF io[running].started THEN 1 ELSE 0)
              + IF others # <<>> /\ others[1].type = "IO_REQUEST" THEN 1 ELSE 0
        /\ io'[running].completed = io[running].completed
        /\ ~(others # <<>> /\ others[1].type = "IO_COMPLETE")
    BY <2>2, <2>3
  <2> QED
    BY <1>1, <2>2, <2>3, <2>4, <2>5, TickStory
<1>7. CASE CpuContinue
  <2> DEFINE others == <<>>
  <2>1. Outcome(others) /\ failed' = failed /\ io' = io
    BY <1>7 DEF CpuInterrupts, CpuFail, CpuTerminate, CpuBlock, CpuQuantum, CpuContinue
  <2>2. OneNow(others, current_time) /\ others = <<>>
    BY DEF OneNow
  <2> HIDE DEF others
  <2>3. /\ failed'[running] <=> others # <<>> /\ others[1].fatal
        /\ \A q \in Procs \ {running} : failed'[q] = failed[q] /\ io'[q] = io[q]
    BY <1>2, <2>1, <2>2
  <2>4. /\ (IF io'[running].started THEN 1 ELSE 0) = (IF io[running].started THEN 1 ELSE 0)
              + IF others # <<>> /\ others[1].type = "IO_REQUEST" THEN 1 ELSE 0
        /\ io'[running].completed = io[running].completed
        /\ ~(others # <<>> /\ others[1].type = "IO_COMPLETE")
    BY <2>1, <2>2
  <2> QED
    BY <1>1, <2>1, <2>2, <2>3, <2>4, TickStory
<1> QED
  BY <1>1, <1>3, <1>4, <1>5, <1>6, <1>7 DEF Cpu
-----------------------------------------------------------------------------
(* Every step, with what it records.                                       *)
LEMMA StepStory ==
    KernelInv /\ BurstInv /\ DeviceInv /\ SizesFit /\ StoryInv
        /\ [TimelineNext]_<<vars, timelineVars>> => StoryInv'
<1> SUFFICES ASSUME KernelInv, BurstInv, DeviceInv, SizesFit, StoryInv,
                    [TimelineNext]_<<vars, timelineVars>>
             PROVE  StoryInv'
  OBVIOUS
<1>1. CASE Draws
  BY <1>1, SilentStory DEF Draws, Silent
<1>2. CASE Completions
  BY <1>2, CompletionStory
<1>3. CASE CpuInterrupts
  BY <1>3, CpuStory
<1>4. CASE Unrecorded
  BY <1>4, SilentStory DEF Unrecorded, timelineVars, Silent
<1>5. CASE UNCHANGED <<vars, timelineVars>>
  BY <1>5 DEF vars, clock, setup, pcb, timelineVars, StoryInv, Story, Totalled, Due, Oversized
<1> QED
  BY <1>1, <1>2, <1>3, <1>4, <1>5 DEF TimelineNext

(* Before the first tick nothing was raised, and nothing is due.           *)
LEMMA InitStory == TimelineInit => StoryInv
<1> SUFFICES ASSUME TimelineInit PROVE StoryInv
  OBVIOUS
<1> DEFINE zeros == [t \in IntType |-> 0]
           blank == [history |-> <<>>, total |-> 0, by_type |-> zeros,
                     periodic_done |-> 0]
<1>1. /\ KernelInv /\ current_time = 0 /\ interrupt_count = 0
      /\ interrupt = [p \in Procs |-> blank]
      /\ \A p \in Procs : /\ sched[p].cpu = 0 /\ ~failed[p]
                          /\ ~io[p].started /\ ~io[p].completed
  <2>1. Init /\ KernelInv
    BY InitKernelInv, KernelAssumption DEF TimelineInit, Init, SimulatorState
  <2>2. interrupt = [p \in Procs |-> blank] /\ interrupt_count = 0
    BY DEF TimelineInit
  <2> HIDE DEF blank
  <2> QED
    BY <2>1, <2>2 DEF Init, Initially
<1>2. zeros \in [IntType -> Nat] /\ \A t \in IntType : zeros[t] = 0
  OBVIOUS
<1>3. SumFunction(zeros) = 0
  <2>1. IsFiniteSet(IntType) /\ DOMAIN zeros = IntType
    BY KindsAreFinite
  <2>2. SumFunction(zeros) = SumFunctionOnSet(zeros, IntType)
    BY <2>1 DEF SumFunction
  <2> HIDE DEF zeros
  <2> QED
    BY <1>2, <2>1, <2>2, SumOfZeros
<1>4. "IO_REQUEST" \in IntType /\ "IO_COMPLETE" \in IntType
  BY DEF IntType
<1> HIDE DEF zeros
<1>5. blank \in InterruptData /\ blank.history = <<>> /\ blank.total = 0
      /\ blank.by_type = zeros /\ blank.periodic_done = 0
  BY <1>2 DEF InterruptData
<1> HIDE DEF blank
<1>6. Sound(blank, 0) /\ ~Ended(blank)
  <2>1. Len(blank.history) = 0 /\ DOMAIN blank.history = {}
    BY <1>5
  <2>2. Min({0, MAX_INTERRUPT_HISTORY}) = 0
    BY TimelineAssumption, MinOfTwo
  <2> QED
    BY <1>3, <1>5, <2>1, <2>2 DEF Sound, Ended
<1>7. ASSUME NEW p \in Procs PROVE Story(p)
  <2>1. Due(p, sched[p].cpu) = 0
    <3>1. TypeOK /\ sched[p].cpu = 0
      BY <1>1 DEF KernelInv, TypeInv
    <3> QED
      BY <3>1, DueProperties
  <2>2. interrupt[p] = blank
    BY <1>1
  <2> QED
    BY <1>1, <1>2, <1>4, <1>5, <1>6, <2>1, <2>2 DEF Story
<1>8. SumFunction(Totalled) = 0
  <2>1. DOMAIN Totalled = Procs /\ \A p \in Procs : Totalled[p] = 0
    BY <1>1, <1>5 DEF Totalled
  <2>2. SumFunction(Totalled) = SumFunctionOnSet(Totalled, Procs)
    BY <2>1 DEF SumFunction
  <2> HIDE DEF Totalled
  <2> QED
    BY <2>1, <2>2, SumOfZeros, ProcsAreFinite
<1>9. interrupt \in [Procs -> InterruptData]
  BY <1>1, <1>5
<1> QED
  BY <1>1, <1>7, <1>8, <1>9 DEF StoryInv

(* What the story of every process says of it.                             *)
LEMMA StoryIsTold ==
    KernelInv /\ BurstInv /\ StoryInv => InterruptsTellTheStory
<1> SUFFICES ASSUME KernelInv, BurstInv, StoryInv PROVE InterruptsTellTheStory
  OBVIOUS
<1>1. TypeOK
  BY DEF KernelInv, TypeInv
<1>2. CountersOutliveRing
  BY DEF StoryInv, Story, Sound, Totalled, CountersOutliveRing
<1>3. PeriodicInterruptsDelivered
  <2> SUFFICES ASSUME NEW p \in Procs
               PROVE  LET done == interrupt[p].periodic_done
                      IN  /\ done * profile[p].burst =< sched[p].cpu * (Targets[p] + 1)
                          /\ done < Targets[p] =>
                                (done + 1) * profile[p].burst
                                    > sched[p].cpu * (Targets[p] + 1)
                          /\ state[p] = "TERMINATED" /\ ~failed[p] => done = Targets[p]
    BY DEF PeriodicInterruptsDelivered
  <2>1. sched[p].cpu \in Nat /\ profile[p].burst \in Nat /\ TICK \in Nat
    BY <1>1, BurstTypes
  <2>2. interrupt[p].periodic_done = Due(p, sched[p].cpu)
    BY DEF StoryInv, Story
  <2>3. state[p] = "TERMINATED" /\ ~failed[p] => sched[p].cpu >= profile[p].burst
    <3>1. state[p] = "TERMINATED" /\ ~failed[p]
            => sched[p].cpu - profile[p].burst \in 0 .. TICK - 1
      BY DEF BurstInv, BurstOver
    <3> QED
      BY <2>1, <3>1
  <2> DEFINE n == sched[p].cpu
  <2> HIDE DEF n
  <2>4. /\ Due(p, n) * profile[p].burst =< n * (Targets[p] + 1)
        /\ Due(p, n) < Targets[p] => (Due(p, n) + 1) * profile[p].burst > n * (Targets[p] + 1)
        /\ n >= profile[p].burst => Due(p, n) = Targets[p]
    BY <1>1, <2>1, DueProperties DEF n
  <2> QED
    BY <2>2, <2>3, <2>4 DEF n
<1>4. ASSUME NEW p \in Procs
      PROVE  LET h == interrupt[p].history
                 count == interrupt[p].by_type
             IN  /\ count["IO_REQUEST"] = IF io[p].started THEN 1 ELSE 0
                 /\ count["IO_COMPLETE"] = IF io[p].completed THEN 1 ELSE 0
                 /\ failed[p] /\ ~Oversized(p) <=> h # <<>> /\ Last(h).fatal
                 /\ \A i \in 1 .. Len(h) - 1 : ~h[i].fatal
  <2> DEFINE h == interrupt[p].history
  <2>1. Story(p) /\ h \in Seq(Event)
    BY DEF StoryInv, InterruptData
  <2>2. \A i \in DOMAIN h : i < Len(h) => ~h[i].fatal
    BY <2>1 DEF Story, Sound
  <2>3. \A i \in 1 .. Len(h) - 1 : i \in DOMAIN h /\ i < Len(h)
    <3> HIDE DEF h
    <3> QED
      BY <2>1, LenProperties
  <2> QED
    BY <2>1, <2>2, <2>3 DEF Story, Ended
<1> QED
  BY <1>2, <1>3, <1>4 DEF InterruptsTellTheStory

(* The interrupts of every process tell what it went through: none of the  *)
(* periodic ones is lost or raised twice, its request and the answer are   *)
(* counted although the ring forgets, and the fatal one is its last        *)
(* (record_interrupt, tick_running_process, tick_device_queues).           *)
THEOREM InterruptsTellIt == TimelineSpec => []InterruptsTellTheStory
<1>1. TimelineSpec => [](KernelInv /\ BurstInv /\ DeviceInv /\ SizesFit)
  BY TimelineImplementsKernel, KernelInvariant, BurstInvariant, DeviceInvariant,
     SizesInvariant, PTL
<1> QED
  BY <1>1, InitStory, StepStory, StoryIsTold, PTL DEF TimelineSpec

-----------------------------------------------------------------------------
(* What the panels count.                                                  *)

Outsiders == {p \in Procs : state[p] \in {"READY", "BLOCKED"} /\ ~resident[p]}
Finished == {p \in Procs : state[p] = "TERMINATED"}
Failures == {p \in Procs : failed[p]}
Cancelled == {p \in Procs : failed[p] /\ io[p].completed}

Figures == <<stats.completed, stats.errors, stats.swap_in, stats.swap_out>>

(* Swapped out and not in again: who is still out, and some of those who   *)
(* failed after their request was answered.                                *)
SwapsBalance ==
    stats.swap_out - stats.swap_in - Cardinality(Outsiders) \in 0 .. Cardinality(Cancelled)

CountersInv ==
    /\ table = Table
    /\ stats.completed = Cardinality(Finished)
    /\ stats.errors = Cardinality(Failures)
    /\ SwapsBalance
    /\ \A p \in Procs : state[p] = "BLOCKED" => profile[p].has_io

(* Every set of processes is finite.                                       *)
LEMMA SomeProcs ==
    ASSUME NEW S \in SUBSET Procs
    PROVE  IsFiniteSet(S) /\ Cardinality(S) \in Nat
  BY ProcsAreFinite, FS_Subset, FS_CardinalityType

(* One more, and one less.                                                 *)
LEMMA OneMore ==
    ASSUME NEW S \in SUBSET Procs, NEW p \in Procs
    PROVE  /\ Cardinality(S \cup {p}) = IF p \in S THEN Cardinality(S) ELSE Cardinality(S) + 1
           /\ Cardinality(S \ {p}) = IF p \in S THEN Cardinality(S) - 1 ELSE Cardinality(S)
<1>1. IsFiniteSet(S) /\ Cardinality(S) \in Nat
  BY SomeProcs
<1>2. CASE p \in S
  <2>1. S \cup {p} = S
    BY <1>2
  <2>2. Cardinality(S \ {p}) = Cardinality(S) - 1
    BY <1>1, <1>2, FS_RemoveElement
  <2> QED
    BY <1>2, <2>1, <2>2
<1>3. CASE p \notin S
  <2>1. S \ {p} = S
    BY <1>3
  <2>2. Cardinality(S \cup {p}) = Cardinality(S) + 1
    BY <1>1, <1>3, FS_AddElement
  <2> QED
    BY <1>3, <2>1, <2>2
<1> QED
  BY <1>2, <1>3

(* The counters as numbers, and after one more.                            *)
LEMMA CountedFigures ==
    ASSUME stats \in Stats
    PROVE  /\ stats.completed \in Nat /\ stats.errors \in Nat
           /\ stats.swap_in \in Nat /\ stats.swap_out \in Nat
           /\ LET t == Counted("swap_in")
              IN  /\ t.swap_in = stats.swap_in + 1
                  /\ <<t.completed, t.errors, t.swap_out>>
                        = <<stats.completed, stats.errors, stats.swap_out>>
           /\ LET t == Counted("swap_out")
              IN  /\ t.swap_out = stats.swap_out + 1
                  /\ <<t.completed, t.errors, t.swap_in>>
                        = <<stats.completed, stats.errors, stats.swap_in>>
           /\ LET t == Counted("completed")
              IN  /\ t.completed = stats.completed + 1
                  /\ <<t.errors, t.swap_in, t.swap_out>>
                        = <<stats.errors, stats.swap_in, stats.swap_out>>
           /\ LET t == CountedFailure
              IN  /\ t.completed = stats.completed + 1 /\ t.errors = stats.errors + 1
                  /\ <<t.swap_in, t.swap_out>> = <<stats.swap_in, stats.swap_out>>
           /\ LET t == Counted("switches")
              IN  <<t.completed, t.errors, t.swap_in, t.swap_out>> = Figures
  BY DEF Stats, Counted, CountedFailure, Figures

(* What an end does to the counters.                                       *)
EndsOne(p, fails) ==
    /\ state[p] # "TERMINATED" /\ ~failed[p]
    /\ state' = [state EXCEPT ![p] = "TERMINATED"]
    /\ failed' = [failed EXCEPT ![p] = fails]
    /\ resident' = [resident EXCEPT ![p] = FALSE]
    /\ stats'.completed = stats.completed + 1
    /\ stats'.errors = stats.errors + (IF fails THEN 1 ELSE 0)
    /\ stats'.swap_in = stats.swap_in /\ stats'.swap_out = stats.swap_out
    /\ \A q \in Procs \ {p} : io'[q].completed = io[q].completed
    /\ p \in Outsiders => fails /\ io'[p].completed
    /\ UNCHANGED <<table, profile>>

(* What a swap does to them.                                               *)
Swaps ==
    /\ \/ \E p \in Outsiders :
            /\ state[p] = "READY" /\ resident' = [resident EXCEPT ![p] = TRUE]
            /\ stats'.swap_in = stats.swap_in + 1 /\ stats'.swap_out = stats.swap_out
       \/ \E p \in Procs \ Outsiders :
            /\ state[p] = "BLOCKED" /\ resident' = [resident EXCEPT ![p] = FALSE]
            /\ stats'.swap_in = stats.swap_in /\ stats'.swap_out = stats.swap_out + 1
    /\ stats'.completed = stats.completed /\ stats'.errors = stats.errors
    /\ UNCHANGED <<table, profile, state, failed, io>>

(* Every other step leaves them alone.                                     *)
Keeps ==
    /\ Figures' = Figures
    /\ \A q \in Procs :
          /\ (state'[q] = "TERMINATED") <=> (state[q] = "TERMINATED")
          /\ (q \in Outsiders) <=> (q \in Outsiders')
          /\ state'[q] = "BLOCKED" => state[q] = "BLOCKED" \/ profile[q].has_io
          /\ ~failed[q] \/ io'[q].completed = io[q].completed
    /\ UNCHANGED <<table, profile, failed>>

(* Steps that move nobody out of the memory and end nobody.                *)
LEMMA SwapsAreCounted ==
    ASSUME TypeOK, CountersInv, Swaps
    PROVE  CountersInv'
<1>1. Finished' = Finished /\ Failures' = Failures /\ Cancelled' = Cancelled
  BY DEF Swaps, Finished, Failures, Cancelled
<1>2. /\ stats.swap_in \in Nat /\ stats.swap_out \in Nat
      /\ Outsiders \in SUBSET Procs /\ Cardinality(Outsiders) \in Nat
      /\ Cardinality(Cancelled) \in Nat
  <2>1. Outsiders \in SUBSET Procs /\ Cancelled \in SUBSET Procs
    BY DEF Outsiders, Cancelled
  <2> QED
    BY <2>1, CountedFigures, SomeProcs DEF TypeOK
<1>3. stats'.swap_out - stats'.swap_in - Cardinality(Outsiders')
         = stats.swap_out - stats.swap_in - Cardinality(Outsiders)
  <2>1. CASE \E p \in Outsiders :
               /\ state[p] = "READY" /\ resident' = [resident EXCEPT ![p] = TRUE]
               /\ stats'.swap_in = stats.swap_in + 1 /\ stats'.swap_out = stats.swap_out
    <3>1. PICK p \in Outsiders :
               /\ state[p] = "READY" /\ resident' = [resident EXCEPT ![p] = TRUE]
               /\ stats'.swap_in = stats.swap_in + 1 /\ stats'.swap_out = stats.swap_out
      BY <2>1
    <3>2. Outsiders' = Outsiders \ {p} /\ p \in Procs
      BY <3>1 DEF Swaps, Outsiders, TypeOK
    <3>3. Cardinality(Outsiders') = Cardinality(Outsiders) - 1
      BY <1>2, <3>2, OneMore
    <3> QED
      BY <1>2, <3>1, <3>3
  <2>2. CASE \E p \in Procs \ Outsiders :
               /\ state[p] = "BLOCKED" /\ resident' = [resident EXCEPT ![p] = FALSE]
               /\ stats'.swap_in = stats.swap_in /\ stats'.swap_out = stats.swap_out + 1
    <3>1. PICK p \in Procs \ Outsiders :
               /\ state[p] = "BLOCKED" /\ resident' = [resident EXCEPT ![p] = FALSE]
               /\ stats'.swap_in = stats.swap_in /\ stats'.swap_out = stats.swap_out + 1
      BY <2>2
    <3>2. Outsiders' = Outsiders \cup {p}
      BY <3>1 DEF Swaps, Outsiders, TypeOK
    <3>3. Cardinality(Outsiders') = Cardinality(Outsiders) + 1
      BY <1>2, <3>2, OneMore
    <3> QED
      BY <1>2, <3>1, <3>3
  <2> QED
    BY <2>1, <2>2 DEF Swaps
<1> QED
  BY <1>1, <1>3 DEF Swaps, CountersInv, SwapsBalance

(* Steps that change no counter.                                           *)
LEMMA KeptCounters ==
    ASSUME CountersInv, Keeps
    PROVE  CountersInv'
<1>1. Finished' = Finished /\ Failures' = Failures /\ Cancelled' = Cancelled
  BY DEF Keeps, Finished, Failures, Cancelled
<1>2. Outsiders' = Outsiders
  <2>1. Outsiders \subseteq Procs /\ Outsiders' \subseteq Procs
    BY DEF Outsiders
  <2> QED
    BY <2>1 DEF Keeps
<1> QED
  BY <1>1, <1>2 DEF Keeps, CountersInv, SwapsBalance, Figures

(* An end is counted once, as an error if it is one, and whoever ends out  *)
(* of memory was cancelled there.                                          *)
LEMMA EndsAreCounted ==
    ASSUME TypeOK, CountersInv, NEW p \in Procs, NEW fails \in BOOLEAN, EndsOne(p, fails)
    PROVE  CountersInv'
<1>1. /\ Finished' = Finished \cup {p} /\ p \notin Finished
      /\ Failures' = (IF fails THEN Failures \cup {p} ELSE Failures) /\ p \notin Failures
      /\ Outsiders' = Outsiders \ {p}
  BY DEF EndsOne, Finished, Failures, Outsiders, TypeOK
<1>2. /\ p \notin Cancelled /\ Cancelled' \in {Cancelled, Cancelled \cup {p}}
      /\ p \in Outsiders => Cancelled' = Cancelled \cup {p}
  <2>1. p \notin Cancelled /\ Cancelled \subseteq Procs /\ Cancelled' \subseteq Procs
    BY DEF EndsOne, Cancelled
  <2>2. \A q \in Procs \ {p} : q \in Cancelled' <=> q \in Cancelled
    BY DEF EndsOne, Cancelled, TypeOK
  <2>3. p \in Outsiders => p \in Cancelled'
    BY DEF EndsOne, Cancelled, TypeOK
  <2> QED
    BY <2>1, <2>2, <2>3
<1>3. /\ Outsiders \in SUBSET Procs /\ Cancelled \in SUBSET Procs
      /\ Finished \in SUBSET Procs /\ Failures \in SUBSET Procs
  BY DEF Outsiders, Cancelled, Finished, Failures
<1>4. /\ stats.swap_in \in Nat /\ stats.swap_out \in Nat
      /\ Cardinality(Outsiders) \in Nat /\ Cardinality(Cancelled) \in Nat
      /\ Cardinality(Finished) \in Nat /\ Cardinality(Failures) \in Nat
  BY <1>3, CountedFigures, SomeProcs DEF TypeOK
<1>5. stats'.completed = Cardinality(Finished')
  BY <1>1, <1>3, <1>4, OneMore DEF EndsOne, CountersInv
<1>6. stats'.errors = Cardinality(Failures')
  BY <1>1, <1>3, <1>4, OneMore DEF EndsOne, CountersInv
<1>7. SwapsBalance'
  <2> DEFINE n == stats.swap_out - stats.swap_in
  <2>1. /\ n \in Int /\ stats'.swap_out - stats'.swap_in = n
        /\ n - Cardinality(Outsiders) \in 0 .. Cardinality(Cancelled)
    BY <1>4 DEF EndsOne, CountersInv, SwapsBalance
  <2> HIDE DEF n
  <2>2. CASE p \in Outsiders
    <3>1. /\ Cardinality(Outsiders') = Cardinality(Outsiders) - 1
          /\ Cardinality(Cancelled') = Cardinality(Cancelled) + 1
      BY <1>1, <1>2, <1>3, <2>2, OneMore
    <3>2. n - Cardinality(Outsiders') \in 0 .. Cardinality(Cancelled')
      BY <1>4, <2>1, <3>1
    <3> QED
      BY <2>1, <3>2 DEF SwapsBalance
  <2>3. CASE p \notin Outsiders
    <3>1. /\ Outsiders' = Outsiders
          /\ Cardinality(Cancelled') \in {Cardinality(Cancelled), Cardinality(Cancelled) + 1}
      BY <1>1, <1>2, <1>3, <2>3, OneMore
    <3>2. n - Cardinality(Outsiders') \in 0 .. Cardinality(Cancelled')
      BY <1>4, <2>1, <3>1
    <3> QED
      BY <2>1, <3>2 DEF SwapsBalance
  <2> QED
    BY <2>2, <2>3
<1>8. \A q \in Procs : state'[q] = "BLOCKED" => profile'[q].has_io
  BY DEF EndsOne, CountersInv, TypeOK
<1> QED
  BY <1>5, <1>6, <1>7, <1>8 DEF EndsOne, CountersInv

(* Where a process is that a step moves.                                   *)
LEMMA WhoIsWhere ==
    ASSUME KernelInv
    PROVE  /\ TypeOK /\ Structure
           /\ pc \in MidTerm \cup Job \cup {"arrival"} /\ todo # <<>> => Head(todo) \in Procs
           /\ next_pcb # NULL =>
                 next_pcb \in Procs /\ state[next_pcb] = "READY" /\ resident[next_pcb]
           /\ running # NULL =>
                 running \in Procs /\ state[running] = "RUNNING" /\ resident[running]
           /\ \A p \in Range(ready_q) : p \in Procs /\ state[p] = "READY" /\ resident[p]
<1>1. TypeOK /\ Structure
  BY DEF KernelInv, TypeInv
<1>2. todo # <<>> => Head(todo) \in Procs
  BY <1>1, WalkProperties DEF TypeOK
<1>3. \A p \in Range(ready_q) : p \in Procs
  BY <1>1 DEF TypeOK, Range
<1> QED
  BY <1>1, <1>2, <1>3
  DEF TypeOK, Structure, OnePlaceEach, InPlace, OnlyResidentsCompete

(* Steps that touch nothing that is counted.                               *)
LEMMA NothingCounted ==
    ASSUME UNCHANGED <<setup, pcb, memory>>, Figures' = Figures
    PROVE  Keeps
  BY DEF Keeps, setup, pcb, memory, Outsiders

(* Walks and decisions.                                                    *)
LEMMA WalksKeep ==
    ASSUME KernelInv,
           \/ Arrival \/ SkipSwapIn \/ MidTermDone \/ Admit \/ SkipJob \/ JobDone
    PROVE  Keeps
<1>1. /\ TypeOK /\ Structure
      /\ pc \in MidTerm \cup Job \cup {"arrival"} /\ todo # <<>> => Head(todo) \in Procs
  BY WhoIsWhere
<1>2. CASE Arrive
  <2> DEFINE p == Head(todo)
  <2>1. /\ p \in Procs /\ state[p] = "NONE" /\ state' = [state EXCEPT ![p] = "NEW"]
        /\ UNCHANGED <<table, profile, failed, io, resident, stats>>
    BY <1>1, <1>2 DEF Arrive, Arrives, setup, memory
  <2> HIDE DEF p
  <2> QED
    BY <1>1, <2>1 DEF Keeps, Outsiders, Figures, TypeOK
<1>3. CASE Admit
  <2> DEFINE p == Head(todo)
  <2>1. /\ p \in Procs /\ state[p] = "NEW" /\ state' = [state EXCEPT ![p] = "READY"]
        /\ resident' = [resident EXCEPT ![p] = TRUE]
        /\ UNCHANGED <<table, profile, failed, io, stats>>
    BY <1>1, <1>3, HeadsOfWalks DEF Admit, setup
  <2> HIDE DEF p
  <2> QED
    BY <1>1, <2>1 DEF Keeps, Outsiders, Figures, TypeOK
<1>4. CASE BeginTick \/ SkipRow \/ ArrivalDone \/ SkipSwapIn \/ MidTermDone \/ SkipJob \/ JobDone
  BY <1>4, NothingCounted
  DEF BeginTick, SkipRow, ArrivalDone, SkipSwapIn, MidTermDone, SkipJob, JobDone, Figures
<1> QED
  BY <1>2, <1>3, <1>4 DEF Arrival

(* Decisions and the three kinds of tick.                                  *)
LEMMA DecisionsKeep ==
    ASSUME KernelInv, Decision
    PROVE  Keeps
<1>1. /\ TypeOK /\ stats \in Stats
      /\ running # NULL =>
            running \in Procs /\ state[running] = "RUNNING" /\ resident[running]
      /\ \A p \in Range(ready_q) : p \in Procs /\ state[p] = "READY" /\ resident[p]
  BY WhoIsWhere DEF TypeOK
<1>2. CASE Preempt
  <2>1. /\ running \in Procs /\ state' = [state EXCEPT ![running] = "READY"]
        /\ UNCHANGED <<table, profile, failed, io, resident, stats>>
    BY <1>1, <1>2 DEF Preempt, ShouldPreempt, setup, memory
  <2> QED
    BY <1>1, <1>2, <2>1 DEF Keeps, Outsiders, Figures, TypeOK, Preempt, ShouldPreempt
<1>3. CASE SelectNext
  <2>1. PICK p \in ChosenFrom(ready_q) :
           \/ config.switch_cost = 0 /\ Dispatch(p)
           \/ UNCHANGED <<running, state, sched>>
    BY <1>3 DEF SelectNext
  <2>2. p \in Range(ready_q)
    BY DEF ChosenFrom, Range
  <2>3. state' = [state EXCEPT ![p] = "RUNNING"] \/ state' = state
    BY <2>1 DEF Dispatch
  <2>4. Figures' = Figures
    BY <1>1, <1>3, CountedFigures DEF SelectNext, Figures
  <2>5. UNCHANGED <<table, profile, failed, io, resident>>
    BY <1>3 DEF SelectNext, setup, memory
  <2> QED
    BY <1>1, <2>2, <2>3, <2>4, <2>5 DEF Keeps, Outsiders, TypeOK
<1>4. CASE SwitchTick \/ IdleTick \/ RunTick
  <2>1. Figures' = Figures
    BY <1>1, <1>4 DEF SwitchTick, IdleTick, RunTick, Figures, Stats
  <2>2. UNCHANGED <<table, profile, failed, io, resident, state>>
    BY <1>4 DEF SwitchTick, IdleTick, RunTick, StartTick, setup, memory
  <2> QED
    BY <2>1, <2>2 DEF Keeps, Outsiders
<1>5. CASE KeepRunning \/ StopSimulation \/ EndTick
  BY <1>5, NothingCounted DEF KeepRunning, StopSimulation, EndTick, Figures
<1> QED
  BY <1>2, <1>3, <1>4, <1>5 DEF Decision

(* Devices, as long as the user does not cancel.                           *)
LEMMA DevicesKeep ==
    ASSUME KernelInv, BurstInv, DeviceWorks \/ IoComplete \/ SwitchDone \/ TickDone
    PROVE  Keeps
<1>2. CASE DeviceWorks
  <2>1. /\ Figures' = Figures
        /\ UNCHANGED <<table, profile, failed, resident, state>>
    BY <1>2 DEF DeviceWorks, AtDevice, Figures, setup, memory
  <2>2. \A q \in Procs : io'[q].completed = io[q].completed
    <3>1. \A q \in Procs : io[q] \in IoState
      BY WhoIsWhere DEF TypeOK
    <3>2. io' = io \/ io' = [io EXCEPT ![Requester].remaining = @ - delta]
      BY <1>2 DEF DeviceWorks
    <3>3. io \in [Procs -> IoState]
      BY WhoIsWhere DEF TypeOK
    <3> QED
      BY <3>1, <3>2, <3>3 DEF IoState
  <2> QED
    BY <2>1, <2>2 DEF Keeps, Outsiders
<1>3. CASE IoComplete
  <2>1. CompleteIo
    BY <1>3 DEF IoComplete, CompleteIo
  <2>2. /\ Requester \in Procs /\ state[Requester] = "BLOCKED"
        /\ state' = [state EXCEPT ![Requester] = "READY"]
        /\ UNCHANGED <<table, profile, failed, resident, stats>>
    BY <1>3, <2>1, ServedRequest DEF IoComplete, CompleteIo, AtDevice, setup, memory
  <2>3. \A q \in Procs \ {Requester} : io'[q].completed = io[q].completed
    <3>1. io \in [Procs -> IoState]
      BY WhoIsWhere DEF TypeOK
    <3>2. io' = [io EXCEPT ![Requester].remaining = 0, ![Requester].completed = TRUE]
      BY <2>1 DEF CompleteIo
    <3> QED
      BY <3>1, <3>2
  <2>4. ~failed[Requester]
    BY <2>2 DEF BurstInv, BurstGoesOn
  <2>5. state \in [Procs -> ProcessState]
    BY WhoIsWhere DEF TypeOK
  <2> HIDE DEF Requester
  <2> QED
    BY <2>2, <2>3, <2>4, <2>5 DEF Keeps, Outsiders, Figures
<1>4. CASE SwitchDone
  <2>1. next_pcb # NULL
    BY <1>4 DEF SwitchDone, KernelInv, TypeInv, TickHasOwner
  <2>2. /\ next_pcb \in Procs /\ state[next_pcb] = "READY" /\ resident[next_pcb]
        /\ state \in [Procs -> ProcessState]
    BY <2>1, WhoIsWhere DEF TypeOK
  <2>3. /\ state' = [state EXCEPT ![next_pcb] = "RUNNING"]
        /\ UNCHANGED <<table, profile, failed, io, resident, stats>>
    BY <1>4 DEF SwitchDone, Dispatch, setup, memory
  <2> QED
    BY <2>2, <2>3 DEF Keeps, Outsiders, Figures
<1>5. CASE TickDone
  BY <1>5, NothingCounted DEF TickDone, Figures
<1> QED
  BY <1>2, <1>3, <1>4, <1>5

(* A tick of the CPU that is not the last of the process.                  *)
LEMMA CpuKeeps ==
    ASSUME KernelInv, CpuBlock \/ CpuQuantum \/ CpuContinue
    PROVE  Keeps
<1>1. /\ running \in Procs /\ state[running] = "RUNNING" /\ resident[running]
      /\ TypeOK /\ stats \in Stats /\ state \in [Procs -> ProcessState]
      /\ io \in [Procs -> IoState]
  <2>1. pc = "cpu"
    BY DEF CpuBlock, CpuQuantum, CpuContinue, Run
  <2> QED
    BY <2>1, WhoIsWhere DEF KernelInv, TypeInv, TickHasOwner, TypeOK
<1>2. /\ Run(stats)
      /\ UNCHANGED <<table, profile, failed, resident>>
  BY DEF CpuBlock, CpuQuantum, CpuContinue, Run, setup, memory
<1>3. Figures' = Figures
  BY <1>1, <1>2 DEF Run, Figures, Stats
<1>4. CASE CpuBlock
  <2>1. /\ state' = [state EXCEPT ![running] = "BLOCKED"] /\ profile[running].has_io
        /\ io' = [io EXCEPT ![running].started = TRUE,
                            ![running].remaining = profile[running].io_duration]
    BY <1>4 DEF CpuBlock, RequestsIo
  <2>2. \A q \in Procs : io'[q].completed = io[q].completed
    BY <1>1, <2>1 DEF IoState
  <2> QED
    BY <1>1, <1>2, <1>3, <2>1, <2>2 DEF Keeps, Outsiders
<1>5. CASE CpuQuantum
  BY <1>1, <1>2, <1>3, <1>5 DEF CpuQuantum, Keeps, Outsiders
<1>6. CASE CpuContinue
  BY <1>1, <1>2, <1>3, <1>6 DEF CpuContinue, Keeps, Outsiders
<1> QED
  BY <1>4, <1>5, <1>6

(* Rejections, cancellations and ends.                                     *)
LEMMA EndingSteps ==
    ASSUME KernelInv, BurstInv, Reject \/ KeyboardCancel \/ CpuFail \/ CpuTerminate
    PROVE  \E p \in Procs : \E fails \in BOOLEAN : EndsOne(p, fails)
<1>1. TypeOK /\ stats \in Stats /\ io \in [Procs -> IoState] /\ failed \in [Procs -> BOOLEAN]
  BY WhoIsWhere DEF TypeOK
<1>2. \A p \in Procs : state[p] # "TERMINATED" => ~failed[p]
  BY DEF BurstInv, BurstGoesOn
<1>3. CASE Reject
  <2> DEFINE p == Head(todo)
  <2>1. p \in Procs /\ state[p] = "NEW"
    BY <1>3, HeadsOfWalks DEF Reject
  <2>2. /\ Finish(p, TRUE, sched) /\ stats' = CountedFailure
        /\ UNCHANGED <<table, profile, io>>
    BY <1>3 DEF Reject, setup
  <2> HIDE DEF p
  <2>3. EndsOne(p, TRUE)
    BY <1>1, <1>2, <2>1, <2>2, CountedFigures DEF EndsOne, Finish, Outsiders, Figures
  <2> QED
    BY <2>1, <2>3
<1>4. CASE KeyboardCancel
  <2> DEFINE p == Requester
  <2>1. CompleteIo /\ Finish(p, TRUE, sched) /\ stats' = CountedFailure
    BY <1>4 DEF KeyboardCancel, CompleteIo
  <2>2. p \in Procs /\ state[p] = "BLOCKED" /\ UNCHANGED <<table, profile>>
    BY <2>1, ServedRequest DEF CompleteIo, AtDevice, setup
  <2>3. io' = [io EXCEPT ![p].remaining = 0, ![p].completed = TRUE]
    BY <2>1 DEF CompleteIo
  <2> HIDE DEF p
  <2>4. io'[p].completed /\ \A q \in Procs \ {p} : io'[q].completed = io[q].completed
    BY <1>1, <2>2, <2>3 DEF IoState
  <2>5. EndsOne(p, TRUE)
    BY <1>1, <1>2, <2>1, <2>2, <2>4, CountedFigures DEF EndsOne, Finish, Outsiders, Figures
  <2> QED
    BY <2>2, <2>5
<1>5. CASE CpuFail \/ CpuTerminate
  <2>1. running \in Procs /\ state[running] = "RUNNING"
    <3>1. pc = "cpu"
      BY <1>5 DEF CpuFail, CpuTerminate, Run
    <3> QED
      BY <3>1, WhoIsWhere DEF KernelInv, TypeInv, TickHasOwner
  <2>2. UNCHANGED <<table, profile, io>>
    BY <1>5 DEF CpuFail, CpuTerminate, Run, setup
  <2>3. CASE CpuFail
    <3>1. Finish(running, TRUE, Ran) /\ stats' = [CountedFailure EXCEPT !.cpu_time = @ + TICK]
      BY <2>3 DEF CpuFail, Run
    <3>2. CountedFailure \in Stats
      BY <1>1, CountedType
    <3>3. /\ stats'.completed = CountedFailure.completed /\ stats'.errors = CountedFailure.errors
          /\ stats'.swap_in = CountedFailure.swap_in /\ stats'.swap_out = CountedFailure.swap_out
      BY <3>1, <3>2 DEF Stats
    <3>4. EndsOne(running, TRUE)
      BY <1>1, <1>2, <2>1, <2>2, <3>1, <3>3, CountedFigures
      DEF EndsOne, Finish, Outsiders, Figures
    <3> QED
      BY <2>1, <3>4
  <2>4. CASE CpuTerminate
    <3> DEFINE counted == Counted("completed")
    <3>1. Finish(running, FALSE, Ran) /\ stats' = [counted EXCEPT !.cpu_time = @ + TICK]
      BY <2>4 DEF CpuTerminate, Run
    <3>2. counted \in Stats
      BY <1>1, CountedType
    <3>3. /\ stats'.completed = counted.completed /\ stats'.errors = counted.errors
          /\ stats'.swap_in = counted.swap_in /\ stats'.swap_out = counted.swap_out
      <4> HIDE DEF counted
      <4> QED
        BY <3>1, <3>2 DEF Stats
    <3>4. EndsOne(running, FALSE)
      BY <1>1, <1>2, <2>1, <2>2, <3>1, <3>3, CountedFigures
      DEF EndsOne, Finish, Outsiders, Figures
    <3> QED
      BY <2>1, <3>4
  <2> QED
    BY <1>5, <2>3, <2>4
<1> QED
  BY <1>3, <1>4, <1>5

(* Swaps.                                                                  *)
LEMMA SwappingSteps ==
    ASSUME KernelInv, SwapIn \/ SwapOut
    PROVE  Swaps
<1>1. TypeOK /\ stats \in Stats /\ resident \in [Procs -> BOOLEAN]
  BY WhoIsWhere DEF TypeOK
<1>2. CASE SwapIn
  <2> DEFINE p == Head(todo)
  <2>1. p \in Procs
    BY <1>2, WhoIsWhere DEF SwapIn
  <2>2. /\ Waits(p) /\ resident' = [resident EXCEPT ![p] = TRUE]
        /\ stats' = Counted("swap_in") /\ UNCHANGED <<table, profile, state, failed, io>>
    BY <1>2 DEF SwapIn, setup, pcb
  <2> HIDE DEF p
  <2>3. p \in Outsiders
    BY <2>1, <2>2 DEF Outsiders, Waits
  <2> QED
    BY <1>1, <2>2, <2>3, CountedFigures DEF Swaps, Waits
<1>3. CASE SwapOut
  <2>1. PICK victim \in Candidates : resident' = [resident EXCEPT ![victim] = FALSE]
    BY <1>3 DEF SwapOut
  <2>2. stats' = Counted("swap_out") /\ UNCHANGED <<table, profile, state, failed, io>>
    BY <1>3 DEF SwapOut, setup, pcb
  <2>3. victim \in Procs \ Outsiders /\ state[victim] = "BLOCKED"
    BY <2>1 DEF Candidates, Outsiders
  <2> QED
    BY <1>1, <2>1, <2>2, <2>3, CountedFigures DEF Swaps
<1> QED
  BY <1>2, <1>3

(* Every step keeps the counters true.                                     *)
LEMMA StepCounters == KernelInv /\ BurstInv /\ CountersInv /\ [Next]_vars => CountersInv'
<1> SUFFICES ASSUME KernelInv, BurstInv, CountersInv, [Next]_vars PROVE CountersInv'
  OBVIOUS
<1>1. TypeOK
  BY DEF KernelInv, TypeInv
<1>2. CASE SwapIn \/ SwapOut
  BY <1>1, <1>2, SwappingSteps, SwapsAreCounted
<1>3. CASE Reject \/ KeyboardCancel \/ CpuFail \/ CpuTerminate
  BY <1>1, <1>3, EndingSteps, EndsAreCounted
<1>4. CASE \/ Arrival \/ SkipSwapIn \/ MidTermDone \/ Admit \/ SkipJob \/ JobDone
           \/ Decision \/ DeviceWorks \/ IoComplete \/ SwitchDone \/ TickDone
           \/ CpuBlock \/ CpuQuantum \/ CpuContinue
  BY <1>4, WalksKeep, DecisionsKeep, DevicesKeep, CpuKeeps, KeptCounters
<1>5. CASE UNCHANGED vars
  BY <1>5, NothingCounted, KeptCounters DEF vars, Figures
<1> QED
  BY <1>2, <1>3, <1>4, <1>5 DEF Next, Swapper, Admission, Device, Cpu, Stopped

(* At the start nobody is counted.                                         *)
LEMMA InitCounters == Init => CountersInv
<1> SUFFICES ASSUME Init PROVE CountersInv
  OBVIOUS
<1>1. /\ Finished = {} /\ Failures = {} /\ Outsiders = {} /\ table = Table
      /\ stats.completed = 0 /\ stats.errors = 0
      /\ stats.swap_out = 0 /\ stats.swap_in = 0
      /\ \A p \in Procs : state[p] # "BLOCKED"
  BY DEF Init, Initially, Finished, Failures, Outsiders
<1>2. Cardinality({}) = 0
  BY FS_EmptySet
<1>3. Cancelled = {}
  BY <1>1 DEF Failures, Cancelled
<1> QED
  BY <1>1, <1>2, <1>3 DEF CountersInv, SwapsBalance

LEMMA CountersInvariant == Spec => []CountersInv
  BY InitCounters, StepCounters, KernelInvariant, BurstInvariant, PTL DEF Spec

-----------------------------------------------------------------------------
(* Counting the rows of a list.                                            *)

(* A list without duplicates has as many rows in a set as the set has      *)
(* elements.                                                               *)
LEMMA RowsOfSet ==
    ASSUME NEW T, NEW q \in Seq(T), NoDuplicates(q), NEW S \in SUBSET Range(q)
    PROVE  /\ IsFiniteSet({i \in DOMAIN q : q[i] \in S}) /\ IsFiniteSet(S)
           /\ Cardinality({i \in DOMAIN q : q[i] \in S}) = Cardinality(S)
           /\ Cardinality(S) \in Nat
<1> DEFINE rows == {i \in DOMAIN q : q[i] \in S}
           at == [i \in rows |-> q[i]]
<1>1. IsFiniteSet(rows)
  <2>1. DOMAIN q = 1 .. Len(q) /\ Len(q) \in Nat
    OBVIOUS
  <2>2. IsFiniteSet(1 .. Len(q))
    BY <2>1, FS_Interval
  <2> QED
    BY <2>1, <2>2, FS_Subset
<1>2. at \in Bijection(rows, S)
  <2>1. at \in [rows -> S]
    OBVIOUS
  <2>2. \A i, j \in rows : at[i] = at[j] => i = j
    BY DEF NoDuplicates
  <2>3. \A x \in S : \E i \in rows : at[i] = x
    BY DEF Range
  <2> HIDE DEF rows, at
  <2> QED
    BY <2>1, <2>2, <2>3 DEF Bijection, Injection, Surjection, IsInjective
<1>3. ExistsBijection(rows, S)
  BY <1>2 DEF ExistsBijection
<1> HIDE DEF rows
<1>4. IsFiniteSet(S) /\ Cardinality(S) = Cardinality(rows)
  BY <1>1, <1>3, FS_Bijection
<1> QED
  BY <1>1, <1>4, FS_CardinalityType DEF rows

(* It is as long as it has elements.                                       *)
LEMMA LengthIsSize ==
    ASSUME NEW T, NEW q \in Seq(T), NoDuplicates(q)
    PROVE  Cardinality(Range(q)) = Len(q) /\ Len(q) \in Nat
<1>1. {i \in DOMAIN q : q[i] \in Range(q)} = 1 .. Len(q) /\ Len(q) \in Nat
  BY DEF Range
<1>2. Cardinality(1 .. Len(q)) = Len(q)
  <2> DEFINE n == Len(q)
  <2>1. n \in Nat /\ 1 \in Int /\ n \in Int
    BY <1>1
  <2> HIDE DEF n
  <2>2. Cardinality(1 .. n) = IF 1 > n THEN 0 ELSE n - 1 + 1
    BY <2>1, FS_Interval
  <2>3. Cardinality(1 .. n) = n
    BY <2>1, <2>2
  <2> QED
    BY <2>3 DEF n
<1>3. Range(q) \in SUBSET Range(q)
  OBVIOUS
<1>4. Cardinality({i \in DOMAIN q : q[i] \in Range(q)}) = Cardinality(Range(q))
  BY <1>3, RowsOfSet
<1> QED
  BY <1>1, <1>2, <1>4

(* The lists of a window have one row for each process.                    *)
LEMMA RowsAreProcesses ==
    ASSUME KernelInv, CountersInv
    PROVE  /\ table \in Seq(Procs) /\ NoDuplicates(table) /\ Range(table) = Procs
           /\ DOMAIN Processes = DOMAIN table /\ DOMAIN table = 1 .. Len(table)
           /\ Len(table) \in Nat /\ Cardinality(Procs) = Len(table)
           /\ \A i \in DOMAIN table : Processes[i] = UiProcess(table[i]) /\ table[i] \in Procs
           /\ PidsOf(DOMAIN Processes) = Procs
<1>1. table = Table /\ Table \in Seq(Procs) /\ NoDuplicates(table)
  BY KernelAssumption, DashboardAssumption DEF CountersInv
<1>2. Range(table) = Procs
  BY <1>1, KernelAssumption DEF Range
<1>3. DOMAIN Processes = DOMAIN table /\ \A i \in DOMAIN table : Processes[i] = UiProcess(table[i])
  BY DEF Processes
<1>4. Cardinality(Procs) = Len(table)
  BY <1>1, <1>2, LengthIsSize
<1>5. \A i \in DOMAIN table : Processes[i].pid = table[i]
  BY <1>3 DEF UiProcess
<1>6. PidsOf(DOMAIN Processes) = Procs
  BY <1>2, <1>3, <1>5 DEF PidsOf, Range
<1> QED
  BY <1>1, <1>2, <1>3, <1>4, <1>6

(* The rows in a state.                                                    *)
LEMMA RowsInState ==
    ASSUME KernelInv, CountersInv, NEW s
    PROVE  Cardinality({i \in DOMAIN Processes : Processes[i].state = s})
              = Cardinality({p \in Procs : state[p] = s})
<1> DEFINE S == {p \in Procs : state[p] = s}
<1>1. \A i \in DOMAIN table : Processes[i].state = state[table[i]]
  BY RowsAreProcesses DEF UiProcess
<1>2. {i \in DOMAIN Processes : Processes[i].state = s} = {i \in DOMAIN table : table[i] \in S}
  BY <1>1, RowsAreProcesses
<1>3. S \in SUBSET Range(table)
  BY RowsAreProcesses
<1> HIDE DEF S
<1> QED
  <2>1. table \in Seq(Procs) /\ NoDuplicates(table)
    BY RowsAreProcesses
  <2>2. Cardinality({i \in DOMAIN table : table[i] \in S}) = Cardinality(S)
    BY <1>3, <2>1, RowsOfSet
  <2> QED
    BY <1>2, <2>2 DEF S

(* Two sets that share nothing.                                            *)
LEMMA DisjointSizes ==
    ASSUME NEW S \in SUBSET Procs, NEW T \in SUBSET Procs, S \cap T = {}
    PROVE  Cardinality(S \cup T) = Cardinality(S) + Cardinality(T)
<1>1. IsFiniteSet(S) /\ IsFiniteSet(T) /\ Cardinality(S) \in Nat /\ Cardinality(T) \in Nat
  BY SomeProcs
<1>2. Cardinality(S \cup T) = Cardinality(S) + Cardinality(T) - Cardinality({})
  BY <1>1, FS_Union
<1> QED
  BY <1>1, <1>2, FS_EmptySet

-----------------------------------------------------------------------------
(* The queues tab.                                                         *)

Laying == INSTANCE FoldProofs WITH Op <- Extended

(* One list after another.                                                 *)
LEMMA ExtendedProperties ==
    ASSUME NEW T, NEW s \in Seq(T), NEW t \in Seq(T)
    PROVE  /\ Extended(s, t) \in Seq(T)
           /\ Range(Extended(s, t)) = Range(s) \cup Range(t)
           /\ NoDuplicates(s) /\ NoDuplicates(t) /\ Range(s) \cap Range(t) = {}
                 => NoDuplicates(Extended(s, t))
<1> DEFINE r == s \o t
           m == Len(s)
           n == Len(t)
<1>1. /\ r \in Seq(T) /\ Len(r) = m + n /\ m \in Nat /\ n \in Nat
      /\ \A i \in 1 .. m + n : r[i] = IF i =< m THEN s[i] ELSE t[i - m]
  BY ConcatProperties
<1>2. DOMAIN r = 1 .. m + n /\ DOMAIN s = 1 .. m /\ DOMAIN t = 1 .. n
  BY <1>1
<1>3. Extended(s, t) = r
  BY DEF Extended
<1> HIDE DEF r, m, n
<1>4. \A i \in 1 .. m + n :
         \/ i \in 1 .. m /\ r[i] = s[i]
         \/ i - m \in 1 .. n /\ r[i] = t[i - m]
  BY <1>1
<1>5. /\ \A i \in 1 .. m : i \in 1 .. m + n /\ r[i] = s[i]
      /\ \A j \in 1 .. n : j + m \in 1 .. m + n /\ r[j + m] = t[j]
  <2>1. ASSUME NEW j \in 1 .. n PROVE j + m \in 1 .. m + n /\ ~(j + m =< m) /\ (j + m) - m = j
    BY <1>1
  <2>2. \A i \in 1 .. m : i \in 1 .. m + n /\ i =< m
    BY <1>1
  <2> QED
    BY <1>1, <2>1, <2>2
<1>6. Range(r) = Range(s) \cup Range(t)
  BY <1>2, <1>4, <1>5 DEF Range
<1>7. ASSUME NoDuplicates(s), NoDuplicates(t), Range(s) \cap Range(t) = {},
             NEW i \in 1 .. m + n, NEW j \in 1 .. m + n, r[i] = r[j]
      PROVE  i = j
  <2>1. \A k \in 1 .. m : \A l \in 1 .. n : s[k] # t[l]
    BY <1>2, <1>7 DEF Range
  <2>2. CASE i \in 1 .. m /\ r[i] = s[i] /\ j \in 1 .. m /\ r[j] = s[j]
    BY <1>2, <1>7, <2>2 DEF NoDuplicates
  <2>3. CASE i - m \in 1 .. n /\ r[i] = t[i - m] /\ j - m \in 1 .. n /\ r[j] = t[j - m]
    <3>1. i - m = j - m
      BY <1>2, <1>7, <2>3 DEF NoDuplicates
    <3> QED
      BY <1>1, <3>1
  <2> QED
    BY <1>4, <1>7, <2>1, <2>2, <2>3
<1> QED
  BY <1>1, <1>2, <1>3, <1>6, <1>7 DEF NoDuplicates

Blocked == {p \in Procs : state[p] = "BLOCKED"}

(* The cards of the devices are those of the blocked processes, each once. *)
LEMMA DeviceCardsProperties ==
    ASSUME KernelInv
    PROVE  /\ DeviceCards \in Seq(Procs) /\ NoDuplicates(DeviceCards)
           /\ Range(DeviceCards) = Blocked
<1> DEFINE N == IO_DEVICE_COUNT
           seq == [d \in 1 .. N |-> device_q[d - 1]]
           Of(k) == {p \in Procs : state[p] = "BLOCKED" /\ profile[p].device < k}
<1>1. /\ N \in Nat /\ DOMAIN seq = 1 .. N /\ TypeOK /\ OnePlaceEach
      /\ \A k \in 1 .. N : k - 1 \in Devices /\ seq[k] = device_q[k - 1]
  BY KernelAssumption DEF KernelInv, TypeInv, Structure, Devices
<1>2. DeviceCards = Laying!Folded(<<>>, seq)
  BY DEF DeviceCards, FoldLeft, MapThenFoldSet, Max, Laying!Folded, Laying!FoldLeft,
         Laying!MapThenFoldSet, Laying!Max
<1>3. PICK r : /\ r[0] = <<>> /\ r[N] = DeviceCards
               /\ \A k \in 1 .. N : r[k] = Extended(r[k - 1], seq[k])
  <2> HIDE DEF seq, N
  <2>1. \E r : /\ r[0] = <<>> /\ r[N] = Laying!Folded(<<>>, seq)
               /\ \A k \in 1 .. N : r[k] = Extended(r[k - 1], seq[k])
    BY <1>1, Laying!FoldLeftSteps
  <2> QED
    BY <1>2, <2>1
<1> DEFINE Good == {k \in 0 .. N : /\ r[k] \in Seq(Procs) /\ NoDuplicates(r[k])
                                   /\ Range(r[k]) = Of(k)}
<1>4. \A p \in Procs : profile[p].device \in 0 .. N - 1
  BY <1>1, FieldTypes DEF Devices
<1>5. 0 \in Good
  <2>1. Of(0) = {}
    BY <1>4
  <2>2. Range(<<>>) = {} /\ NoDuplicates(<<>>) /\ <<>> \in Seq(Procs)
    BY DEF Range, NoDuplicates
  <2>3. 0 \in 0 .. N /\ r[0] = <<>>
    BY <1>1, <1>3
  <2> HIDE DEF Of, N
  <2> QED
    BY <2>1, <2>2, <2>3
<1>6. ASSUME NEW k \in 1 .. N, k - 1 \in Good PROVE k \in Good
  <2>1. /\ seq[k] \in Seq(Procs) /\ NoDuplicates(seq[k])
        /\ Range(seq[k]) = {p \in Procs : state[p] = "BLOCKED" /\ profile[p].device = k - 1}
    <3>1. device_q[k - 1] \in Seq(Procs) /\ NoDuplicates(device_q[k - 1])
      BY <1>1 DEF TypeOK, OnePlaceEach, QueuesDistinct
    <3>2. Range(device_q[k - 1]) \subseteq Procs
      BY <3>1 DEF Range
    <3>3. \A p \in Procs : p \in Range(device_q[k - 1])
                <=> state[p] = "BLOCKED" /\ k - 1 = profile[p].device
      BY <1>1 DEF OnePlaceEach, InPlace
    <3> QED
      BY <1>1, <3>1, <3>2, <3>3
  <2>2. Of(k) = Of(k - 1) \cup {p \in Procs : state[p] = "BLOCKED" /\ profile[p].device = k - 1}
    BY <1>1, <1>4
  <2>3. Of(k - 1) \cap {p \in Procs : state[p] = "BLOCKED" /\ profile[p].device = k - 1} = {}
    BY <1>1, <1>4
  <2> HIDE DEF seq, Of
  <2>4. /\ r[k - 1] \in Seq(Procs) /\ NoDuplicates(r[k - 1]) /\ Range(r[k - 1]) = Of(k - 1)
        /\ r[k] = Extended(r[k - 1], seq[k]) /\ k \in 0 .. N
    BY <1>1, <1>3, <1>6
  <2>5. /\ Extended(r[k - 1], seq[k]) \in Seq(Procs)
        /\ Range(Extended(r[k - 1], seq[k])) = Range(r[k - 1]) \cup Range(seq[k])
        /\ NoDuplicates(Extended(r[k - 1], seq[k]))
    BY <2>1, <2>3, <2>4, ExtendedProperties
  <2> QED
    BY <2>1, <2>2, <2>4, <2>5
<1>7. N \in Good
  <2> HIDE DEF Good, N
  <2>1. \A k \in 0 .. N : k \in Good
    BY <1>1, <1>5, <1>6, Laying!InductionTo
  <2> QED
    BY <1>1, <2>1
<1>8. Of(N) = Blocked
  BY <1>1, <1>4 DEF Blocked
<1> QED
  BY <1>3, <1>7, <1>8

(* The list that has no positions.                                         *)
LEMMA NothingListed ==
    ASSUME NEW q, DOMAIN q = 1 .. 0, q = [k \in DOMAIN q |-> q[k]]
    PROVE  q = <<>>
<1>1. q \in Seq({})
  <2>1. q \in [1 .. 0 -> {}]
    OBVIOUS
  <2>2. 0 \in Nat
    OBVIOUS
  <2> QED
    BY <2>1, <2>2, SeqDef
<1>2. Len(q) = 0
  <2>1. Len(q) \in Nat /\ 1 .. Len(q) = 1 .. 0
    BY <1>1, LenProperties
  <2> QED
    BY <2>1
<1> QED
  BY <1>1, <1>2, EmptySeq

(* The rows of a state in which nobody is.                                 *)
LEMMA NobodyInState ==
    ASSUME KernelInv, CountersInv, NEW s, \A p \in Procs : state[p] # s
    PROVE  InState(s) = <<>>
<1>1. \A i \in DOMAIN Processes : Processes[i].state = state[table[i]] /\ table[i] \in Procs
  BY RowsAreProcesses DEF UiProcess
<1>2. {i \in DOMAIN Processes : Processes[i].state = s} = {}
  BY <1>1
<1>3. Cardinality({}) = 0 /\ 1 .. 0 = {}
  BY FS_EmptySet
<1> DEFINE rows == {i \in DOMAIN Processes : Processes[i].state = s}
           at == [k \in 1 .. Cardinality(rows) |->
                    Processes[CHOOSE i \in rows :
                                 Cardinality({j \in rows : j < i}) = k - 1].pid]
<1>4. InState(s) = at
  BY DEF InState, RowsWhere
<1>5. at = [k \in DOMAIN at |-> at[k]] /\ DOMAIN at = 1 .. Cardinality(rows)
  OBVIOUS
<1> HIDE DEF at
<1>6. at = <<>>
  <2>1. DOMAIN at = 1 .. 0
    BY <1>2, <1>3, <1>5
  <2> HIDE DEF rows
  <2> QED
    BY <1>5, <2>1, NothingListed
<1> QED
  BY <1>4, <1>6

(* No guess by state is ever needed.                                       *)
LEMMA ColumnsAreQueues ==
    ASSUME KernelInv, CountersInv
    PROVE  Columns = [job |-> job_q, ready |-> ready_q,
                      running |-> IF running # NULL THEN <<running>> ELSE <<>>,
                      blocked |-> DeviceCards, nonresident |-> nonresident_q,
                      finished |-> finished_q]
<1>1. \A p \in Procs : InPlace(p)
  BY DEF KernelInv, Structure, OnePlaceEach
<1>2. Range(<<>>) = {}
  BY DEF Range
<1>3. BlockedPids = DeviceCards
  <2>1. CASE DeviceCards = <<>>
    <3>1. \A p \in Procs : state[p] # "BLOCKED"
      BY <1>2, <2>1, DeviceCardsProperties DEF Blocked
    <3> QED
      BY <2>1, <3>1, NobodyInState DEF BlockedPids
  <2> QED
    BY <2>1 DEF BlockedPids
<1>4. FinishedPids = finished_q
  <2>1. CASE finished_q = <<>>
    <3>1. \A p \in Procs : state[p] # "TERMINATED"
      BY <1>1, <1>2, <2>1 DEF InPlace
    <3> QED
      BY <2>1, <3>1, NobodyInState DEF FinishedPids
  <2> QED
    BY <2>1 DEF FinishedPids
<1>5. RunningPids = IF running # NULL THEN <<running>> ELSE <<>>
  <2>1. CASE running = NULL
    <3>1. \A p \in Procs : state[p] # "RUNNING"
      BY <1>1, <2>1, KernelAssumption DEF InPlace
    <3> QED
      BY <2>1, <3>1, NobodyInState DEF RunningPids
  <2> QED
    BY <2>1 DEF RunningPids
<1> QED
  BY <1>3, <1>4, <1>5 DEF Columns

(* The column in which the card of a process lies.                         *)
ColumnOf(p) ==
    CASE state[p] = "NEW" -> "job"
      [] state[p] = "RUNNING" -> "running"
      [] state[p] = "BLOCKED" -> "blocked"
      [] state[p] = "TERMINATED" -> "finished"
      [] state[p] = "READY" /\ resident[p] -> "ready"
      [] OTHER -> "nonresident"

ColumnNames == {"job", "ready", "running", "blocked", "nonresident", "finished"}

(* A column has the processes whose state tells it, each once.             *)
LEMMA WhoIsInAColumn ==
    ASSUME KernelInv, CountersInv
    PROVE  /\ DOMAIN Columns = ColumnNames
           /\ \A c \in ColumnNames :
                 /\ Columns[c] \in Seq(Procs) /\ NoDuplicates(Columns[c])
                 /\ \A p \in Procs :
                       p \in Range(Columns[c])
                          <=> state[p] # "NONE" /\ p # next_pcb /\ c = ColumnOf(p)
<1>1. /\ TypeOK /\ QueuesDistinct /\ \A p \in Procs : InPlace(p) /\ state[p] \in ProcessState
  BY DEF KernelInv, TypeInv, TypeOK, Structure, OnePlaceEach
<1> DEFINE on == IF running # NULL THEN <<running>> ELSE <<>>
<1>2. /\ DOMAIN Columns = ColumnNames
      /\ Columns["job"] = job_q /\ Columns["ready"] = ready_q /\ Columns["running"] = on
      /\ Columns["blocked"] = DeviceCards /\ Columns["nonresident"] = nonresident_q
      /\ Columns["finished"] = finished_q
  BY ColumnsAreQueues DEF ColumnNames
<1>3. /\ on \in Seq(Procs) /\ NoDuplicates(on)
      /\ \A p \in Procs : p \in Range(on) <=> p = running
  <2>1. CASE running = NULL
    BY <2>1, KernelAssumption DEF Range, NoDuplicates
  <2>2. CASE running # NULL
    <3>1. running \in Procs /\ on = <<running>>
      BY <1>1, <2>2 DEF TypeOK
    <3> HIDE DEF on
    <3>2. on \in Seq(Procs) /\ DOMAIN on = {1} /\ on[1] = running
      BY <3>1
    <3> QED
      BY <3>2 DEF Range, NoDuplicates
  <2> QED
    BY <2>1, <2>2
<1>4. ASSUME NEW p \in Procs
      PROVE  /\ p \in Range(job_q) <=> state[p] = "NEW"
             /\ p \in Range(ready_q) <=> state[p] = "READY" /\ resident[p] /\ p # next_pcb
             /\ p \in Range(nonresident_q) <=> state[p] = "READY" /\ ~resident[p]
             /\ p = running <=> state[p] = "RUNNING"
             /\ p \in Range(finished_q) <=> state[p] = "TERMINATED"
             /\ p = next_pcb => state[p] = "READY" /\ resident[p]
             /\ p \in Range(DeviceCards) <=> state[p] = "BLOCKED"
  BY <1>1, DeviceCardsProperties DEF InPlace, Blocked
<1>5. ASSUME NEW p \in Procs
      PROVE  /\ state[p] = "NEW" <=> state[p] # "NONE" /\ ColumnOf(p) = "job"
             /\ state[p] = "RUNNING" <=> state[p] # "NONE" /\ ColumnOf(p) = "running"
             /\ state[p] = "BLOCKED" <=> state[p] # "NONE" /\ ColumnOf(p) = "blocked"
             /\ state[p] = "TERMINATED" <=> state[p] # "NONE" /\ ColumnOf(p) = "finished"
             /\ state[p] = "READY" /\ resident[p]
                   <=> state[p] # "NONE" /\ ColumnOf(p) = "ready"
             /\ state[p] = "READY" /\ ~resident[p]
                   <=> state[p] # "NONE" /\ ColumnOf(p) = "nonresident"
  BY <1>1 DEF ColumnOf, ProcessState
<1>6. /\ job_q \in Seq(Procs) /\ ready_q \in Seq(Procs) /\ nonresident_q \in Seq(Procs)
      /\ finished_q \in Seq(Procs) /\ DeviceCards \in Seq(Procs)
      /\ NoDuplicates(job_q) /\ NoDuplicates(ready_q) /\ NoDuplicates(nonresident_q)
      /\ NoDuplicates(finished_q) /\ NoDuplicates(DeviceCards)
  BY <1>1, DeviceCardsProperties DEF TypeOK, QueuesDistinct
<1> HIDE DEF on
<1>7. ASSUME NEW c \in ColumnNames
      PROVE  /\ Columns[c] \in Seq(Procs) /\ NoDuplicates(Columns[c])
             /\ \A p \in Procs :
                   p \in Range(Columns[c])
                      <=> state[p] # "NONE" /\ p # next_pcb /\ c = ColumnOf(p)
  <2>1. CASE c = "job"
    BY <1>2, <1>4, <1>5, <1>6, <2>1
  <2>2. CASE c = "ready"
    BY <1>2, <1>4, <1>5, <1>6, <2>2
  <2>3. CASE c = "running"
    BY <1>2, <1>3, <1>4, <1>5, <2>3
  <2>4. CASE c = "blocked"
    BY <1>2, <1>4, <1>5, <1>6, <2>4
  <2>5. CASE c = "nonresident"
    BY <1>2, <1>4, <1>5, <1>6, <2>5
  <2>6. CASE c = "finished"
    BY <1>2, <1>4, <1>5, <1>6, <2>6
  <2> QED
    BY <2>1, <2>2, <2>3, <2>4, <2>5, <2>6 DEF ColumnNames
<1> QED
  BY <1>2, <1>7

(* A column is no longer than the list of the processes.                   *)
LEMMA ColumnsFit ==
    ASSUME KernelInv, CountersInv, NEW c \in ColumnNames
    PROVE  /\ Len(Columns[c]) \in Nat /\ DOMAIN Columns[c] = 1 .. Len(Columns[c])
           /\ Len(Columns[c]) =< Len(table)
<1>1. Columns[c] \in Seq(Procs) /\ NoDuplicates(Columns[c])
  BY WhoIsInAColumn
<1>2. Cardinality(Range(Columns[c])) = Len(Columns[c]) /\ Len(Columns[c]) \in Nat
  BY <1>1, LengthIsSize
<1>3. Range(Columns[c]) \subseteq Procs
  BY <1>1 DEF Range
<1>4. Cardinality(Range(Columns[c])) =< Cardinality(Procs)
  BY <1>3, ProcsAreFinite, FS_Subset
<1> QED
  BY <1>1, <1>2, <1>4, RowsAreProcesses

(* One card for each process that arrived, but for the one that is loaded. *)
LEMMA CardsOfOne ==
    ASSUME KernelInv, CountersInv, NEW p \in Procs
    PROVE  Cardinality(CardsOf(p)) = IF p \in ArrivedRows \ {next_pcb} THEN 1 ELSE 0
<1>1. /\ DOMAIN Columns = ColumnNames /\ DOMAIN table = 1 .. Len(table) /\ Len(table) \in Nat
      /\ Range(table) = Procs
  BY WhoIsInAColumn, RowsAreProcesses
<1>2. \A c \in ColumnNames : p \in Range(Columns[c])
                                <=> p \in ArrivedRows \ {next_pcb} /\ c = ColumnOf(p)
  BY <1>1, WhoIsInAColumn DEF ArrivedRows
<1>3. \A c \in ColumnNames : \A k \in DOMAIN table :
         k =< Len(Columns[c]) => k \in DOMAIN Columns[c]
  BY <1>1, ColumnsFit
<1>4. CASE p \notin ArrivedRows \ {next_pcb}
  <2>1. \A card \in CardsOf(p) : FALSE
    <3> TAKE card \in CardsOf(p)
    <3>1. /\ card[1] \in ColumnNames /\ card[2] \in DOMAIN table
          /\ card[2] =< Len(Columns[card[1]]) /\ Columns[card[1]][card[2]] = p
      BY <1>1 DEF CardsOf
    <3> QED
      BY <1>2, <1>3, <1>4, <3>1 DEF Range
  <2>2. CardsOf(p) = {} /\ Cardinality({}) = 0
    BY <2>1, FS_EmptySet
  <2> QED
    BY <1>4, <2>2
<1>5. CASE p \in ArrivedRows \ {next_pcb}
  <2> DEFINE c == ColumnOf(p)
  <2>1. c \in ColumnNames
    BY DEF ColumnOf, ColumnNames
  <2>2. PICK k \in DOMAIN Columns[c] : Columns[c][k] = p
    BY <1>2, <1>5, <2>1 DEF Range
  <2>3. NoDuplicates(Columns[c]) /\ k \in DOMAIN table /\ k =< Len(Columns[c])
    BY <1>1, <2>1, <2>2, ColumnsFit, WhoIsInAColumn
  <2>4. <<c, k>> \in CardsOf(p)
    BY <1>1, <2>1, <2>2, <2>3 DEF CardsOf
  <2> HIDE DEF c
  <2>5. ASSUME NEW card \in CardsOf(p) PROVE card = <<c, k>>
    <3>1. /\ card = <<card[1], card[2]>>
          /\ card[1] \in ColumnNames /\ card[2] \in DOMAIN table
          /\ card[2] =< Len(Columns[card[1]]) /\ Columns[card[1]][card[2]] = p
      BY <1>1 DEF CardsOf
    <3>2. card[2] \in DOMAIN Columns[card[1]]
      BY <1>3, <3>1
    <3>3. card[1] = c
      BY <1>2, <3>1, <3>2 DEF Range, c
    <3>4. card[2] = k
      BY <2>2, <2>3, <3>1, <3>2, <3>3 DEF NoDuplicates
    <3> QED
      BY <3>1, <3>3, <3>4
  <2>6. CardsOf(p) = {<<c, k>>}
    BY <2>4, <2>5
  <2>7. Cardinality({<<c, k>>}) = 1
    BY FS_Singleton
  <2> QED
    BY <1>5, <2>6, <2>7
<1> QED
  BY <1>4, <1>5

(* The queues tab shows each process once, in the column its state tells:  *)
(* the hook list of the C queues, the columns of the tab and its guesses   *)
(* by state never disagree.                                                *)
LEMMA OneCardEachHolds ==
    ASSUME KernelInv, CountersInv
    PROVE  OneCardEach
<1>1. Range(table) = Procs
  BY RowsAreProcesses
<1>2. \A p \in Range(Columns.running) : state[p] = "RUNNING" /\ p = running
  <2> TAKE p \in Range(Columns.running)
  <2>1. Columns.running = IF running # NULL THEN <<running>> ELSE <<>>
    BY ColumnsAreQueues
  <2>2. running # NULL /\ p = running
    BY <2>1 DEF Range
  <2>3. running \in Procs
    BY <2>2 DEF KernelInv, TypeInv, TypeOK
  <2> QED
    BY <2>2, <2>3 DEF KernelInv, Structure, OnePlaceEach, InPlace
<1>3. \A p \in Range(Columns.ready) : resident[p]
  <2> TAKE p \in Range(Columns.ready)
  <2>1. Columns.ready = ready_q /\ ready_q \in Seq(Procs)
    BY ColumnsAreQueues DEF KernelInv, TypeInv, TypeOK
  <2>2. p \in Procs
    BY <2>1 DEF Range
  <2> QED
    BY <2>1, <2>2 DEF KernelInv, Structure, OnePlaceEach, InPlace
<1>4. Columns.blocked = DeviceCards /\ Columns.finished = finished_q
  BY ColumnsAreQueues
<1> QED
  BY <1>1, <1>2, <1>3, <1>4, CardsOfOne DEF OneCardEach

(* Whatever the table, the devices and the moves of the simulation, a      *)
(* window that shows a snapshot has each process that arrived on one card, *)
(* in the column of its state (_normalize_queues of process_queues_tab.py).*)
THEOREM OneCardAlways == Spec => []OneCardEach
  BY KernelInvariant, CountersInvariant, OneCardEachHolds, PTL

-----------------------------------------------------------------------------
(* Sums of what is counted.                                                *)

(* The members of S that are of class d.                                   *)
ClassOf(S, class, d) == {x \in S : class[x] = d}

(* The sizes of the classes of a set add up to its size.                   *)
LEMMA SumOfClasses ==
    ASSUME NEW S, IsFiniteSet(S), NEW D, IsFiniteSet(D), NEW class, NEW f,
           \A x \in S : class[x] \in D,
           \A d \in D : f[d] = Cardinality(ClassOf(S, class, d))
    PROVE  SumFunctionOnSet(f, D) = Cardinality(S)
<1> DEFINE Of(e) == {x \in S : class[x] \in e}
           Right(e) == SumFunctionOnSet(f, e) = Cardinality(Of(e))
           Good == {n \in Nat : \A e \in SUBSET D : Cardinality(e) = n => Right(e)}
<1>0. \A d \in D : f[d] \in Int
  <2> TAKE d \in D
  <2> DEFINE C == ClassOf(S, class, d)
  <2>1. C \subseteq S /\ f[d] = Cardinality(C)
    BY DEF ClassOf
  <2> HIDE DEF C
  <2>2. Cardinality(C) \in Nat
    BY <2>1, FS_Subset, FS_CardinalityType
  <2> QED
    BY <2>1, <2>2
<1>1. \A e \in SUBSET D : IsFiniteSet(e) /\ Cardinality(e) \in Nat
  BY FS_Subset, FS_CardinalityType
<1>2. 0 \in Good
  <2>1. ASSUME NEW e \in SUBSET D, Cardinality(e) = 0 PROVE Right(e)
    <3>1. e = {} /\ Of(e) = {}
      BY <1>1, <2>1, FS_EmptySet
    <3>2. SumFunctionOnSet(f, {}) = 0 /\ Cardinality({}) = 0
      BY <1>0, SumUnfolds, FS_EmptySet
    <3> HIDE DEF Of
    <3> QED
      BY <3>1, <3>2
  <2> QED
    BY <2>1
<1>3. ASSUME NEW n \in Nat, n \in Good PROVE n + 1 \in Good
  <2>0. (n + 1) - 1 = n /\ n + 1 # 0
    OBVIOUS
  <2>1. ASSUME NEW e \in SUBSET D, Cardinality(e) = n + 1 PROVE Right(e)
    <3>1. PICK d \in e : TRUE
      BY <2>0, <2>1, FS_EmptySet
    <3>2. Cardinality(e \ {d}) = n /\ e \ {d} \in SUBSET D
      BY <1>1, <2>0, <2>1, FS_RemoveElement
    <3>3. Right(e \ {d})
      BY <1>3, <3>2
    <3>4. SumFunctionOnSet(f, e) = f[d] + SumFunctionOnSet(f, e \ {d})
      BY <1>0, SumTakesOut
    <3> DEFINE C == ClassOf(S, class, d)
               R == Of(e \ {d})
    <3>5. Of(e) = C \cup R /\ C \cap R = {} /\ C \subseteq S /\ R \subseteq S
          /\ f[d] = Cardinality(C)
      BY <3>1 DEF ClassOf
    <3> HIDE DEF C
    <3>6. IsFiniteSet(C) /\ IsFiniteSet(R) /\ Cardinality(C) \in Nat /\ Cardinality(R) \in Nat
      <4> HIDE DEF R
      <4> QED
        BY <3>5, FS_Subset, FS_CardinalityType
    <3>7. Cardinality(C \cup R) = Cardinality(C) + Cardinality(R) - Cardinality({})
      <4> HIDE DEF R
      <4> QED
        BY <3>5, <3>6, FS_Union
    <3>8. Cardinality({}) = 0
      BY FS_EmptySet
    <3>9. SumFunctionOnSet(f, e \ {d}) = Cardinality(R)
      BY <3>3
    <3>10. Cardinality(Of(e)) = Cardinality(C) + Cardinality(R)
      <4> HIDE DEF R, Of
      <4> QED
        BY <3>5, <3>6, <3>7, <3>8
    <3>11. SumFunctionOnSet(f, e) = Cardinality(Of(e))
      <4> HIDE DEF R, Of
      <4> QED
        BY <3>4, <3>5, <3>6, <3>9, <3>10
    <3> QED
      BY <3>11
  <2> QED
    BY <2>1
<1>4. \A n \in Nat : n \in Good
  <2> HIDE DEF Good
  <2> QED
    BY <1>2, <1>3, Adding!Induction
<1>5. Right(D)
  BY <1>1, <1>4
<1>6. Of(D) = S
  OBVIOUS
<1> QED
  BY <1>5, <1>6

(* A sum is the same over the names of what is summed.                     *)
LEMMA SumReindexed ==
    ASSUME NEW S, IsFiniteSet(S), NEW T, NEW m, NEW f, NEW g,
           \A x \in S : m[x] \in T /\ f[x] = g[m[x]],
           \A x, y \in S : m[x] = m[y] => x = y,
           \A t \in T : g[t] \in Int /\ \E x \in S : m[x] = t
    PROVE  IsFiniteSet(T) /\ SumFunctionOnSet(f, S) = SumFunctionOnSet(g, T)
<1> DEFINE To(s) == {m[x] : x \in s}
           Same(s) == SumFunctionOnSet(f, s) = SumFunctionOnSet(g, To(s))
           Good == {n \in Nat : \A s \in SUBSET S : Cardinality(s) = n => Same(s)}
<1>0. \A x \in S : f[x] \in Int
  OBVIOUS
<1>1. \A s \in SUBSET S : IsFiniteSet(s) /\ Cardinality(s) \in Nat
  BY FS_Subset, FS_CardinalityType
<1>2. To(S) = T
  OBVIOUS
<1>3. IsFiniteSet(T)
  <2> DEFINE h == [x \in S |-> m[x]]
  <2>1. h \in Surjection(S, T)
    BY DEF Surjection
  <2> QED
    BY <2>1, FS_Surjection
<1>4. 0 \in Good
  <2>1. ASSUME NEW s \in SUBSET S, Cardinality(s) = 0 PROVE Same(s)
    <3>1. s = {} /\ To(s) = {}
      BY <1>1, <2>1, FS_EmptySet
    <3>2. SumFunctionOnSet(f, {}) = 0 /\ SumFunctionOnSet(g, {}) = 0
      BY <1>0, <1>3, SumUnfolds
    <3> HIDE DEF To
    <3> QED
      BY <3>1, <3>2
  <2> QED
    BY <2>1
<1>5. ASSUME NEW n \in Nat, n \in Good PROVE n + 1 \in Good
  <2>0. (n + 1) - 1 = n /\ n + 1 # 0
    OBVIOUS
  <2>1. ASSUME NEW s \in SUBSET S, Cardinality(s) = n + 1 PROVE Same(s)
    <3>1. PICK x \in s : TRUE
      BY <2>0, <2>1, FS_EmptySet
    <3>2. Cardinality(s \ {x}) = n /\ s \ {x} \in SUBSET S
      BY <1>1, <2>0, <2>1, FS_RemoveElement
    <3>3. Same(s \ {x})
      BY <1>5, <3>2
    <3>4. SumFunctionOnSet(f, s) = f[x] + SumFunctionOnSet(f, s \ {x})
      BY <1>0, SumTakesOut
    <3>5. To(s) \in SUBSET T /\ m[x] \in To(s) /\ To(s) \ {m[x]} = To(s \ {x}) /\ f[x] = g[m[x]]
      BY <3>1
    <3> HIDE DEF To
    <3>6. SumFunctionOnSet(g, To(s)) = g[m[x]] + SumFunctionOnSet(g, To(s) \ {m[x]})
      BY <1>3, <3>5, SumTakesOut
    <3> QED
      BY <3>3, <3>4, <3>5, <3>6
  <2> QED
    BY <2>1
<1>6. \A n \in Nat : n \in Good
  <2> HIDE DEF Good
  <2> QED
    BY <1>4, <1>5, Adding!Induction
<1>7. Same(S)
  BY <1>1, <1>6
<1> HIDE DEF To
<1> QED
  BY <1>2, <1>3, <1>7

(* NonNegative cuts at zero.                                               *)
LEMMA CutAtZero ==
    ASSUME NEW x \in Int
    PROVE  NonNegative(x) = IF x < 0 THEN 0 ELSE x
<1> DEFINE least == IF x < 0 THEN 0 ELSE x
<1>1. least \in {0, x} /\ \A y \in {0, x} : least >= y
  OBVIOUS
<1>2. \A z \in {0, x} : (\A y \in {0, x} : z >= y) => z = least
  OBVIOUS
<1> QED
  BY <1>1, <1>2 DEF NonNegative, Max

(* The execution tab: what it counts from the rows is what the queues hold.*)
LEMMA StatesAreCounted ==
    ASSUME KernelInv, CountersInv
    PROVE  /\ Counters.NUEVOS = Len(job_q)
           /\ Counters.LISTOS = Len(ready_q) + Len(nonresident_q)
                                 + IF next_pcb = NULL THEN 0 ELSE 1
           /\ Counters.EJECUTANDO = IF running = NULL THEN 0 ELSE 1
           /\ Counters.BLOQUEADOS = Len(DeviceCards)
           /\ Counters.BLOQUEADOS = Cardinality(Blocked)
           /\ Counters.TERMINADOS = Len(finished_q)
           /\ Counters.TERMINADOS = Cardinality(Finished)
<1> DEFINE In(s) == {p \in Procs : state[p] = s}
<1>1. /\ TypeOK /\ QueuesDistinct /\ \A p \in Procs : InPlace(p)
  BY DEF KernelInv, TypeInv, Structure, OnePlaceEach
<1>2. /\ Counters.NUEVOS = Cardinality(In("NEW")) /\ Counters.LISTOS = Cardinality(In("READY"))
      /\ Counters.EJECUTANDO = Cardinality(In("RUNNING"))
      /\ Counters.BLOQUEADOS = Cardinality(In("BLOCKED"))
      /\ Counters.TERMINADOS = Cardinality(In("TERMINATED"))
  BY RowsInState DEF Counters, Count, RowsWhere
<1>3. /\ job_q \in Seq(Procs) /\ ready_q \in Seq(Procs) /\ nonresident_q \in Seq(Procs)
      /\ finished_q \in Seq(Procs) /\ DeviceCards \in Seq(Procs)
      /\ NoDuplicates(job_q) /\ NoDuplicates(ready_q) /\ NoDuplicates(nonresident_q)
      /\ NoDuplicates(finished_q) /\ NoDuplicates(DeviceCards)
  BY <1>1, DeviceCardsProperties DEF TypeOK, QueuesDistinct
<1>4. \A q \in {job_q, ready_q, nonresident_q, finished_q, DeviceCards} :
         /\ Range(q) \subseteq Procs
         /\ Cardinality(Range(q)) = Len(q) /\ Len(q) \in Nat
  <2>1. \A q : q \in Seq(Procs) => Range(q) \subseteq Procs
    BY DEF Range
  <2> QED
    BY <1>3, <2>1, LengthIsSize
<1>5. /\ In("NEW") = Range(job_q) /\ In("TERMINATED") = Range(finished_q)
      /\ In("BLOCKED") = Range(DeviceCards)
  BY <1>1, <1>4, DeviceCardsProperties DEF InPlace, Blocked
<1> DEFINE loading == {p \in Procs : p = next_pcb}
           waiting == Range(ready_q) \cup loading
<1>6. /\ In("READY") = waiting \cup Range(nonresident_q)
      /\ waiting \cap Range(nonresident_q) = {} /\ Range(ready_q) \cap loading = {}
      /\ waiting \in SUBSET Procs /\ loading \in SUBSET Procs
      /\ Range(ready_q) \in SUBSET Procs /\ Range(nonresident_q) \in SUBSET Procs
  <2>1. \A p \in Procs : /\ (state[p] = "READY" /\ ~resident[p]) <=> (p \in Range(nonresident_q))
                         /\ (state[p] = "READY" /\ resident[p])
                               <=> (p \in Range(ready_q) \/ p = next_pcb)
                         /\ ~(p \in Range(ready_q) /\ p = next_pcb)
    BY <1>1 DEF InPlace
  <2> QED
    BY <1>4, <2>1
<1>7. Cardinality(loading) = IF next_pcb = NULL THEN 0 ELSE 1
  <2>1. CASE next_pcb = NULL
    <3>1. loading = {}
      BY <2>1, KernelAssumption
    <3> QED
      BY <2>1, <3>1, FS_EmptySet
  <2>2. CASE next_pcb # NULL
    <3>1. loading = {next_pcb}
      BY <1>1, <2>2 DEF TypeOK
    <3> HIDE DEF loading
    <3> QED
      BY <2>2, <3>1, FS_Singleton
  <2> QED
    BY <2>1, <2>2
<1>8. Cardinality(In("READY"))
         = (Len(ready_q) + IF next_pcb = NULL THEN 0 ELSE 1) + Len(nonresident_q)
  <2> HIDE DEF In, loading
  <2>1. Cardinality(waiting) = Cardinality(Range(ready_q)) + Cardinality(loading)
    BY <1>6, DisjointSizes
  <2> HIDE DEF waiting
  <2>2. Cardinality(waiting \cup Range(nonresident_q))
           = Cardinality(waiting) + Cardinality(Range(nonresident_q))
    BY <1>6, DisjointSizes
  <2> QED
    BY <1>4, <1>6, <1>7, <2>1, <2>2
<1>9. Cardinality(In("RUNNING")) = IF running = NULL THEN 0 ELSE 1
  <2>1. \A p \in Procs : (state[p] = "RUNNING") <=> (p = running)
    BY <1>1 DEF InPlace
  <2>2. CASE running = NULL
    <3>1. In("RUNNING") = {}
      BY <2>1, <2>2, KernelAssumption
    <3> QED
      BY <2>2, <3>1, FS_EmptySet
  <2>3. CASE running # NULL
    <3>1. In("RUNNING") = {running}
      BY <1>1, <2>1, <2>3 DEF TypeOK
    <3> HIDE DEF In
    <3> QED
      BY <2>3, <3>1, FS_Singleton
  <2> QED
    BY <2>2, <2>3
<1>10. Finished = In("TERMINATED") /\ Blocked = In("BLOCKED")
  BY DEF Finished, Blocked
<1>11. Len(ready_q) \in Nat /\ Len(nonresident_q) \in Nat
  BY <1>4
<1> HIDE DEF In
<1>12. /\ Counters.NUEVOS = Len(job_q) /\ Counters.BLOQUEADOS = Len(DeviceCards)
       /\ Counters.TERMINADOS = Len(finished_q)
  BY <1>2, <1>4, <1>5
<1> QED
  BY <1>2, <1>8, <1>9, <1>10, <1>11, <1>12

(* The counters of the devices.                                            *)
LEMMA DevicesAreCounted ==
    ASSUME KernelInv, CountersInv
    PROVE  SumFunction(DeviceCounters) = Cardinality(Blocked)
<1> DEFINE class == [p \in Blocked |-> profile[p].device]
           f == DeviceCounters
<1>1. \A p \in Procs : profile[p].device \in Devices
  BY FieldTypes DEF KernelInv, TypeInv
<1>2. IsFiniteSet(Devices)
  BY KernelAssumption, FS_Interval DEF Devices
<1>3. ASSUME NEW d \in Devices
      PROVE  f[d] = Cardinality(ClassOf(Blocked, class, d))
  <2> DEFINE S == {p \in Procs : state[p] = "BLOCKED" /\ profile[p].device = d}
  <2>1. ClassOf(Blocked, class, d) = S
    BY DEF Blocked, ClassOf
  <2>2. f[d] = Cardinality({i \in DOMAIN Processes :
                  Processes[i].state = "BLOCKED" /\ Processes[i].io_device = d})
    BY DEF DeviceCounters, Count, RowsWhere
  <2>3. \A i \in DOMAIN table :
           /\ table[i] \in Procs /\ Processes[i].state = state[table[i]]
           /\ Processes[i].io_device
                = IF profile[table[i]].has_io THEN profile[table[i]].device ELSE None
    BY RowsAreProcesses DEF UiProcess
  <2>4. {i \in DOMAIN Processes : Processes[i].state = "BLOCKED" /\ Processes[i].io_device = d}
           = {i \in DOMAIN table : table[i] \in S}
    BY <2>3, RowsAreProcesses DEF CountersInv
  <2>5. S \in SUBSET Range(table)
    BY RowsAreProcesses
  <2>6. table \in Seq(Procs) /\ NoDuplicates(table)
    BY RowsAreProcesses
  <2> HIDE DEF S, f, class
  <2>7. Cardinality({i \in DOMAIN table : table[i] \in S}) = Cardinality(S)
    BY <2>5, <2>6, RowsOfSet
  <2> QED
    BY <2>1, <2>2, <2>4, <2>7
<1>4. IsFiniteSet(Blocked) /\ \A p \in Blocked : class[p] \in Devices
  BY <1>1, SomeProcs DEF Blocked
<1>5. DOMAIN f = Devices
  BY DEF DeviceCounters
<1> HIDE DEF class, f
<1>6. SumFunctionOnSet(f, Devices) = Cardinality(Blocked)
  BY <1>2, <1>3, <1>4, SumOfClasses
<1> QED
  BY <1>5, <1>6 DEF SumFunction, f

(* The averages that the reducer computes when the C program sent none.    *)
LEMMA StatsAreTheSame ==
    ASSUME KernelInv, CountersInv
    PROVE  BuiltStats = SentStats
<1> DEFINE ended == {i \in DOMAIN table : table[i] \in Finished}
           built == [i \in ended |-> Processes[i].ready]
           sent == [i \in DOMAIN finished_q |-> sched[finished_q[i]].ready]
           served == [p \in Finished |-> sched[p].ready]
<1>1. /\ TypeOK /\ finished_q \in Seq(Procs) /\ NoDuplicates(finished_q)
      /\ Range(finished_q) = Finished
  <2>1. TypeOK /\ finished_q \in Seq(Procs) /\ NoDuplicates(finished_q)
    BY DEF KernelInv, TypeInv, TypeOK, Structure, OnePlaceEach, QueuesDistinct
  <2>2. Range(finished_q) \subseteq Procs
    BY <2>1 DEF Range
  <2>3. \A p \in Procs : (state[p] = "TERMINATED") <=> (p \in Range(finished_q))
    BY DEF KernelInv, Structure, OnePlaceEach, InPlace
  <2> QED
    BY <2>1, <2>2, <2>3 DEF Finished
<1>2. \A i \in DOMAIN table : /\ table[i] \in Procs /\ Processes[i].state = state[table[i]]
                              /\ Processes[i].ready = sched[table[i]].ready
  BY RowsAreProcesses DEF UiProcess
<1>3. {i \in DOMAIN Processes : Processes[i].state = "TERMINATED"} = ended
  BY <1>2, RowsAreProcesses DEF Finished
<1>4. \A p \in Finished : served[p] \in Int
  BY <1>1 DEF Finished, TypeOK, SchedData
<1>5. /\ Finished \in SUBSET Range(table) /\ IsFiniteSet(ended)
      /\ Cardinality(ended) = Cardinality(Finished) /\ Cardinality(Finished) = Len(finished_q)
  <2>1. Finished \in SUBSET Range(table)
    BY RowsAreProcesses DEF Finished
  <2> QED
    BY <1>1, <2>1, RowsAreProcesses, RowsOfSet, LengthIsSize
<1>6. IsFiniteSet(DOMAIN finished_q)
  <2>1. DOMAIN finished_q = 1 .. Len(finished_q) /\ Len(finished_q) \in Nat
    BY <1>1
  <2> QED
    BY <2>1, FS_Interval
<1>7. SumFunctionOnSet(built, ended) = SumFunctionOnSet(served, Finished)
  <2>1. \A i \in ended : table[i] \in Finished /\ built[i] = served[table[i]]
    BY <1>2
  <2>2. \A i, j \in ended : table[i] = table[j] => i = j
    BY RowsAreProcesses DEF NoDuplicates
  <2>3. \A p \in Finished : \E i \in ended : table[i] = p
    BY <1>5 DEF Range
  <2> HIDE DEF built, ended, served
  <2> QED
    BY <1>4, <1>5, <2>1, <2>2, <2>3, SumReindexed
<1>8. SumFunctionOnSet(sent, DOMAIN finished_q) = SumFunctionOnSet(served, Finished)
  <2>1. \A i \in DOMAIN finished_q : finished_q[i] \in Finished /\ sent[i] = served[finished_q[i]]
    BY <1>1 DEF Range
  <2>2. \A i, j \in DOMAIN finished_q : finished_q[i] = finished_q[j] => i = j
    BY <1>1 DEF NoDuplicates
  <2>3. \A p \in Finished : \E i \in DOMAIN finished_q : finished_q[i] = p
    BY <1>1 DEF Range
  <2> HIDE DEF sent, served
  <2> QED
    BY <1>4, <1>6, <2>1, <2>2, <2>3, SumReindexed
<1>9. DOMAIN built = ended /\ DOMAIN sent = DOMAIN finished_q
  OBVIOUS
<1>10. BuiltStats = [ready |-> <<SumFunction(built), Cardinality(ended)>>,
                     throughput |-> <<Cardinality(ended), current_time>>]
  BY <1>3 DEF BuiltStats, RowsWhere
<1>11. SentStats = [ready |-> <<SumFunction(sent), Len(finished_q)>>,
                    throughput |-> <<stats.completed, current_time>>]
  BY DEF SentStats
<1>12. SumFunction(built) = SumFunction(sent)
  BY <1>7, <1>8, <1>9 DEF SumFunction
<1>13. stats.completed = Cardinality(Finished)
  BY DEF CountersInv
<1> HIDE DEF built, sent, ended
<1> QED
  BY <1>5, <1>10, <1>11, <1>12, <1>13

(* A bar is full exactly when the process ended by itself.                 *)
LEMMA BarsAreFull ==
    ASSUME KernelInv, BurstInv, NEW p \in Procs
    PROVE  /\ Progress(p)[1] = Progress(p)[2] => state[p] = "TERMINATED"
           /\ state[p] = "TERMINATED" /\ ~failed[p] => Progress(p)[1] = Progress(p)[2]
<1>1. sched[p].remaining \in Int /\ profile[p].burst \in Nat
  BY BurstTypes DEF KernelInv, TypeInv
<1>2. UiProcess(p).remaining = NonNegative(sched[p].remaining)
  BY DEF UiProcess
<1>3. /\ Progress(p)[1] = profile[p].burst - NonNegative(sched[p].remaining)
      /\ Progress(p)[2] = profile[p].burst
  BY <1>2 DEF Progress
<1>4. NonNegative(sched[p].remaining)
         = IF sched[p].remaining < 0 THEN 0 ELSE sched[p].remaining
  BY <1>1, CutAtZero
<1>5. Progress(p)[1] = Progress(p)[2] <=> sched[p].remaining =< 0
  BY <1>1, <1>3, <1>4
<1>6. state[p] # "TERMINATED" => sched[p].remaining > 0
  BY DEF BurstInv, BurstGoesOn
<1>7. state[p] = "TERMINATED" /\ ~failed[p] => sched[p].remaining = 0
  BY DEF BurstInv, BurstOver
<1> QED
  BY <1>1, <1>5, <1>6, <1>7

(* Every panel of the execution tab tells the same.                        *)
LEMMA PanelsAgreeHolds ==
    ASSUME KernelInv, CountersInv, BurstInv
    PROVE  PanelsAgree
<1>1. /\ Columns.job = job_q /\ Columns.ready = ready_q
      /\ Columns.nonresident = nonresident_q /\ Columns.blocked = DeviceCards
  BY ColumnsAreQueues
<1>2. OnCpuPanel = running
  <2>1. running # NULL => running \in PidsOf(DOMAIN Processes)
    BY RowsAreProcesses DEF KernelInv, TypeInv, TypeOK
  <2> QED
    BY <2>1 DEF OnCpuPanel
<1>3. Counters.TERMINADOS = stats.completed /\ stats.errors = Cardinality({p \in Procs : failed[p]})
  BY StatesAreCounted DEF CountersInv, Failures
<1>4. Counters.BLOQUEADOS = SumFunction(DeviceCounters)
  BY StatesAreCounted, DevicesAreCounted
<1>5. \A p \in Range(table) :
         /\ Progress(p)[1] = Progress(p)[2] => state[p] = "TERMINATED"
         /\ state[p] = "TERMINATED" /\ ~failed[p] => Progress(p)[1] = Progress(p)[2]
  BY RowsAreProcesses, BarsAreFull
<1> QED
  BY <1>1, <1>2, <1>3, <1>4, <1>5, StatesAreCounted, StatsAreTheSame DEF PanelsAgree

(* The counters of rows, the lengths of queues and the statistics of the C *)
(* program never contradict each other (execute_tab.py and                 *)
(* simulation_state_reducer.py against process_lifecycle.c).               *)
THEOREM PanelsAlwaysAgree == Spec => []PanelsAgree
  BY KernelInvariant, CountersInvariant, BurstInvariant, PanelsAgreeHolds, PTL

-----------------------------------------------------------------------------
(* The holes of the memory.                                                *)

RunOf(h) == h.start .. h.start + h.length - 1

FreeOnes == OwnedBy(cells, NULL)

(* A hole is made of free blocks, as many as its length.                   *)
LEMMA HoleIsFree ==
    ASSUME NEW h \in Holes(cells)
    PROVE  /\ h.start \in Nat /\ h.length \in Nat \ {0} /\ h.start + h.length =< TOTAL_BLOCKS
           /\ h.length \in 1 .. TOTAL_BLOCKS /\ h = [start |-> h.start, length |-> h.length]
           /\ RunOf(h) \subseteq FreeOnes /\ h.start \in RunOf(h)
           /\ IsFiniteSet(RunOf(h)) /\ Cardinality(RunOf(h)) = h.length
<1>1. /\ h.start \in Blocks /\ h.length \in 1 .. TOTAL_BLOCKS
      /\ h = [start |-> h.start, length |-> h.length]
      /\ h.start + h.length =< TOTAL_BLOCKS
      /\ \A b \in RunOf(h) : cells[b] = NULL
  BY DEF Holes, IsHole, IsFree, RunOf
<1>2. h.start \in Nat /\ h.length \in Nat \ {0} /\ TOTAL_BLOCKS \in Nat
  BY <1>1, TotalBlocksAssumption DEF Blocks
<1>3. RunOf(h) \subseteq Blocks /\ h.start \in RunOf(h)
  BY <1>1, <1>2 DEF RunOf, Blocks
<1>4. IsFiniteSet(RunOf(h)) /\ Cardinality(RunOf(h)) = h.length
  <2>1. h.start \in Int /\ h.start + h.length - 1 \in Int
        /\ ~(h.start > h.start + h.length - 1)
        /\ (h.start + h.length - 1) - h.start + 1 = h.length
    BY <1>2
  <2> QED
    BY <2>1, FS_Interval DEF RunOf
<1> QED
  BY <1>1, <1>2, <1>3, <1>4 DEF FreeOnes, OwnedBy

(* Two holes share no block.                                               *)
LEMMA HolesAreApart ==
    ASSUME NEW h \in Holes(cells), NEW g \in Holes(cells), RunOf(h) \cap RunOf(g) # {}
    PROVE  h = g
<1>1. PICK b : b \in RunOf(h) /\ b \in RunOf(g)
  OBVIOUS
<1>2. /\ h.start \in Nat /\ h.length \in Nat /\ h.start + h.length =< TOTAL_BLOCKS
      /\ g.start \in Nat /\ g.length \in Nat /\ g.start + g.length =< TOTAL_BLOCKS
      /\ h = [start |-> h.start, length |-> h.length]
      /\ g = [start |-> g.start, length |-> g.length]
  BY HoleIsFree
<1>3. /\ b \in Nat /\ h.start =< b /\ b < h.start + h.length
      /\ g.start =< b /\ b < g.start + g.length
  BY <1>1, <1>2 DEF RunOf
<1>4. /\ \A k \in h.start .. h.start + h.length - 1 : cells[k] = NULL
      /\ \A k \in g.start .. g.start + g.length - 1 : cells[k] = NULL
      /\ h.start > 0 => cells[h.start - 1] # NULL
      /\ g.start > 0 => cells[g.start - 1] # NULL
      /\ h.start + h.length < TOTAL_BLOCKS => cells[h.start + h.length] # NULL
      /\ g.start + g.length < TOTAL_BLOCKS => cells[g.start + g.length] # NULL
  BY DEF Holes, IsHole, IsFree
<1>5. h.start = g.start
  <2>1. ~(h.start < g.start)
    <3> SUFFICES ASSUME h.start < g.start PROVE FALSE
      OBVIOUS
    <3>1. g.start > 0 /\ g.start - 1 \in h.start .. h.start + h.length - 1
      BY <1>2, <1>3
    <3> QED
      BY <1>4, <3>1
  <2>2. ~(g.start < h.start)
    <3> SUFFICES ASSUME g.start < h.start PROVE FALSE
      OBVIOUS
    <3>1. h.start > 0 /\ h.start - 1 \in g.start .. g.start + g.length - 1
      BY <1>2, <1>3
    <3> QED
      BY <1>4, <3>1
  <2> QED
    BY <1>2, <2>1, <2>2
<1>6. h.length = g.length
  <2>1. ~(h.length < g.length)
    <3> SUFFICES ASSUME h.length < g.length PROVE FALSE
      OBVIOUS
    <3>1. /\ h.start + h.length < TOTAL_BLOCKS
          /\ h.start + h.length \in g.start .. g.start + g.length - 1
      BY <1>2, <1>5, TotalBlocksAssumption
    <3> QED
      BY <1>4, <3>1
  <2>2. ~(g.length < h.length)
    <3> SUFFICES ASSUME g.length < h.length PROVE FALSE
      OBVIOUS
    <3>1. /\ g.start + g.length < TOTAL_BLOCKS
          /\ g.start + g.length \in h.start .. h.start + h.length - 1
      BY <1>2, <1>5, TotalBlocksAssumption
    <3> QED
      BY <1>4, <3>1
  <2> QED
    BY <1>2, <2>1, <2>2
<1> QED
  BY <1>2, <1>5, <1>6

(* A free block lies in a hole: from the first of the free blocks that     *)
(* lead to it, to the last of those that follow.                           *)
LEMMA HoleAround ==
    ASSUME NEW b \in FreeOnes
    PROVE  \E h \in Holes(cells) : b \in RunOf(h)
<1>1. b \in Nat /\ b < TOTAL_BLOCKS /\ TOTAL_BLOCKS \in Nat /\ cells[b] = NULL
  BY TotalBlocksAssumption DEF FreeOnes, OwnedBy, Blocks
<1> DEFINE From == {i \in Nat : i =< b /\ \A k \in i .. b : cells[k] = NULL}
           To == {j \in Nat : b < j /\ j =< TOTAL_BLOCKS
                              /\ (j < TOTAL_BLOCKS => cells[j] # NULL)}
<1>2. PICK first \in From : \A i \in From : first =< i
  <2>1. b \in From /\ From \in SUBSET Nat
    BY <1>1
  <2> HIDE DEF From
  <2> QED
    BY <2>1, Adding!LeastNatural
<1>3. PICK limit \in To : \A j \in To : limit =< j
  <2>1. TOTAL_BLOCKS \in To /\ To \in SUBSET Nat
    BY <1>1
  <2> HIDE DEF To
  <2> QED
    BY <2>1, Adding!LeastNatural
<1>4. first \in Nat /\ first =< b /\ \A k \in first .. b : cells[k] = NULL
  BY <1>2
<1>5. /\ limit \in Nat /\ b < limit /\ limit =< TOTAL_BLOCKS
      /\ limit < TOTAL_BLOCKS => cells[limit] # NULL
  BY <1>3
<1>6. first > 0 => cells[first - 1] # NULL
  <2> SUFFICES ASSUME first > 0, cells[first - 1] = NULL PROVE FALSE
    OBVIOUS
  <2>1. first - 1 \in Nat /\ first - 1 =< b /\ ~(first =< first - 1)
    BY <1>1, <1>4
  <2>2. \A k \in first - 1 .. b : k = first - 1 \/ k \in first .. b
    BY <1>1, <1>4
  <2>3. first - 1 \in From
    BY <1>4, <2>1, <2>2
  <2> HIDE DEF From
  <2> QED
    BY <1>2, <2>1, <2>3
<1>7. \A k \in first .. limit - 1 : cells[k] = NULL
  <2> SUFFICES ASSUME NEW k \in first .. limit - 1, cells[k] # NULL PROVE FALSE
    OBVIOUS
  <2>1. k \in Nat /\ k < limit /\ k < TOTAL_BLOCKS /\ ~(limit =< k) /\ k \notin first .. b
    BY <1>1, <1>4, <1>5
  <2>2. b < k
    BY <1>1, <1>4, <2>1
  <2>3. k =< TOTAL_BLOCKS
    BY <1>1, <2>1
  <2>4. k \in To
    BY <2>1, <2>2, <2>3
  <2> HIDE DEF To
  <2> QED
    BY <1>3, <2>1, <2>4
<1> DEFINE n == limit - first
           h == [start |-> first, length |-> n]
<1>8. /\ n \in 1 .. TOTAL_BLOCKS /\ first \in Blocks /\ first + n = limit
      /\ first + n - 1 = limit - 1 /\ b \in first .. first + n - 1
  BY <1>1, <1>4, <1>5 DEF Blocks
<1>9. h \in Holes(cells)
  <2> HIDE DEF n
  <2>1. h \in [start : Blocks, length : 1 .. TOTAL_BLOCKS]
    BY <1>8
  <2>2. IsHole(cells, first, n)
    BY <1>5, <1>6, <1>7, <1>8 DEF IsHole, IsFree
  <2> QED
    BY <2>1, <2>2 DEF Holes
<1>10. b \in RunOf(h)
  <2> HIDE DEF n
  <2> QED
    BY <1>8 DEF RunOf
<1> QED
  BY <1>9, <1>10

(* There are finitely many holes: where one starts tells it.               *)
LEMMA HolesAreFinite == IsFiniteSet(Holes(cells)) /\ Cardinality(Holes(cells)) \in Nat
<1> DEFINE starts == {h.start : h \in Holes(cells)}
           at == [s \in starts |-> CHOOSE h \in Holes(cells) : h.start = s]
<1>1. \A h \in Holes(cells) : h.start \in Nat /\ h.start =< TOTAL_BLOCKS /\ h.start \in RunOf(h)
  BY HoleIsFree, TotalBlocksAssumption
<1>2. IsFiniteSet(starts)
  <2>1. TOTAL_BLOCKS \in Nat /\ starts \in SUBSET Nat /\ \A s \in starts : s =< TOTAL_BLOCKS
    BY <1>1, TotalBlocksAssumption
  <2> HIDE DEF starts
  <2> QED
    BY <2>1, FS_BoundedSetOfNaturals
<1>3. \A h, g \in Holes(cells) : h.start = g.start => h = g
  BY <1>1, HolesAreApart
<1>4. \A s \in starts : at[s] \in Holes(cells) /\ at[s].start = s
  OBVIOUS
<1>5. \A h \in Holes(cells) : h.start \in starts /\ at[h.start] = h
  BY <1>3, <1>4
<1>6. at \in [starts -> Holes(cells)]
  BY <1>4
<1> HIDE DEF at, starts
<1>7. at \in Surjection(starts, Holes(cells))
  BY <1>5, <1>6 DEF Surjection
<1> QED
  BY <1>2, <1>7, FS_Surjection, FS_CardinalityType

(* The blocks of the memory are finitely many.                             *)
LEMMA SomeBlocks ==
    /\ IsFiniteSet(Blocks) /\ Cardinality(Blocks) = TOTAL_BLOCKS /\ TOTAL_BLOCKS \in Nat
    /\ \A S \in SUBSET Blocks : IsFiniteSet(S) /\ Cardinality(S) \in Nat
<1>1. TOTAL_BLOCKS \in Nat \ {0} /\ 0 \in Int /\ TOTAL_BLOCKS - 1 \in Int
      /\ ~(0 > TOTAL_BLOCKS - 1) /\ (TOTAL_BLOCKS - 1) - 0 + 1 = TOTAL_BLOCKS
  BY TotalBlocksAssumption
<1>2. IsFiniteSet(Blocks) /\ Cardinality(Blocks) = TOTAL_BLOCKS
  BY <1>1, FS_Interval DEF Blocks
<1> QED
  BY <1>1, <1>2, FS_Subset, FS_CardinalityType

(* The figure of the fragmentation is zero when there is one hole at most. *)
LEMMA FragmentedByHoles == FreeBlocks - LargestFree = 0 <=> FreeHoles =< 1
<1> DEFINE H == Holes(cells)
<1>1. IsFiniteSet(H) /\ FreeHoles = Cardinality(H) /\ Cardinality(H) \in Nat
  BY HolesAreFinite DEF FreeHoles
<1>2. FreeOnes \in SUBSET Blocks /\ FreeBlocks = Cardinality(FreeOnes)
      /\ IsFiniteSet(FreeOnes) /\ Cardinality(FreeOnes) \in Nat
  <2>1. FreeOnes \in SUBSET Blocks /\ FreeBlocks = Cardinality(FreeOnes)
    BY DEF FreeOnes, OwnedBy, FreeBlocks
  <2> QED
    BY <2>1, SomeBlocks
<1>3. CASE H = {}
  <2>1. FreeOnes = {} /\ FreeLengths = {}
    BY <1>3, HoleAround DEF FreeLengths
  <2>2. Cardinality({}) = 0
    BY FS_EmptySet
  <2>3. LargestFree = 0
    BY <2>1 DEF LargestFree
  <2> QED
    BY <1>1, <1>2, <1>3, <2>1, <2>2, <2>3
<1>4. CASE H # {}
  <2>1. /\ TOTAL_BLOCKS \in Nat /\ FreeLengths \in SUBSET (1 .. TOTAL_BLOCKS)
        /\ FreeLengths # {} /\ \A h \in H : h.length \in FreeLengths
        /\ \A n \in FreeLengths : \E h \in H : h.length = n
    BY <1>4, HoleIsFree, SomeBlocks DEF FreeLengths
  <2>2. LargestFree \in FreeLengths /\ \A n \in FreeLengths : LargestFree >= n
    <3>1. LargestFree = Adding!Max(FreeLengths)
      BY <2>1 DEF LargestFree, Max, Adding!Max
    <3> QED
      BY <2>1, <3>1, Adding!GreatestOf
  <2>3. PICK h \in H : h.length = LargestFree
    BY <2>1, <2>2
  <2>4. /\ RunOf(h) \subseteq FreeOnes /\ IsFiniteSet(RunOf(h))
        /\ Cardinality(RunOf(h)) = LargestFree /\ LargestFree \in Nat
    BY <2>3, HoleIsFree
  <2>5. CASE H = {h}
    <3>1. FreeOnes = RunOf(h)
      BY <2>4, <2>5, HoleAround
    <3>2. Cardinality({h}) = 1
      BY FS_Singleton
    <3> QED
      BY <1>1, <1>2, <2>4, <2>5, <3>1, <3>2
  <2>6. CASE H # {h}
    <3>1. PICK g \in H : g # h
      BY <2>6
    <3>2. /\ RunOf(g) \subseteq FreeOnes /\ g.start \in RunOf(g)
          /\ RunOf(h) \cap RunOf(g) = {}
      BY <3>1, HoleIsFree, HolesAreApart
    <3>3. RunOf(h) # FreeOnes
      BY <3>2
    <3>4. Cardinality(RunOf(h)) =< Cardinality(FreeOnes)
          /\ Cardinality(RunOf(h)) # Cardinality(FreeOnes)
      BY <1>2, <2>4, <3>3, FS_Subset
    <3>5. Cardinality(H) > 1
      <4>1. {g, h} \in SUBSET H
        BY <3>1
      <4>2. Cardinality({g}) = 1 /\ IsFiniteSet({g})
        BY FS_Singleton
      <4>3. Cardinality({g} \cup {h}) = Cardinality({g}) + 1
        BY <3>1, <4>2, FS_AddElement
      <4>4. {g} \cup {h} = {g, h}
        OBVIOUS
      <4>5. Cardinality({g, h}) =< Cardinality(H)
        BY <1>1, <4>1, FS_Subset
      <4> HIDE DEF H
      <4> QED
        BY <1>1, <4>2, <4>3, <4>4, <4>5
    <3> HIDE DEF H
    <3> QED
      BY <1>1, <1>2, <2>4, <3>4, <3>5
  <2> QED
    BY <2>5, <2>6
<1> QED
  BY <1>3, <1>4

-----------------------------------------------------------------------------
(* What is in RAM, by rows and by blocks.                                  *)

InMemory == {p \in Procs : resident[p]}
InUse == Blocks \ FreeOnes
OutBlocked == {p \in Procs : state[p] = "BLOCKED" /\ ~resident[p]}

(* The three ways of choosing the rows of the processes in RAM agree.      *)
LEMMA WhoIsInRam ==
    ASSUME KernelInv, CountersInv
    PROVE  /\ PidsOf({i \in DOMAIN Processes :
                         Processes[i].resident /\ Processes[i].state # "TERMINATED"}) = InMemory
           /\ {p \in Range(table) : InRam(p)} = InMemory
           /\ {p \in Range(table) : resident[p]} = InMemory
<1>1. \A p \in Procs : resident[p] => state[p] # "TERMINATED"
  BY DEF KernelInv, Structure, OnlyResidentsCompete
<1>2. Range(table) = Procs /\ DOMAIN Processes = DOMAIN table
  BY RowsAreProcesses
<1>3. \A i \in DOMAIN table :
         /\ table[i] \in Procs /\ Processes[i].pid = table[i]
         /\ Processes[i].state = state[table[i]] /\ Processes[i].resident = resident[table[i]]
  BY RowsAreProcesses DEF UiProcess
<1>4. \A p \in Procs : \E i \in DOMAIN table : table[i] = p
  BY <1>2 DEF Range
<1>5. PidsOf({i \in DOMAIN Processes :
                Processes[i].resident /\ Processes[i].state # "TERMINATED"}) = InMemory
  BY <1>1, <1>2, <1>3, <1>4 DEF PidsOf, InMemory
<1> QED
  BY <1>1, <1>2, <1>5 DEF InRam, InMemory

(* Blocks in use belong to the processes in RAM.                           *)
LEMMA OwnersOfBlocks ==
    ASSUME KernelInv, MemoryMatchesResidence
    PROVE  /\ \A b \in InUse : cells[b] \in InMemory
           /\ \A p \in InMemory :
                 /\ OwnedBy(cells, p) = {b \in InUse : cells[b] = p}
                 /\ OwnedBy(cells, p) # {}
                 /\ Cardinality(OwnedBy(cells, p)) = profile[p].blocks
<1>1. cells \in [Blocks -> Procs \cup {NULL}]
  BY DEF KernelInv, TypeInv, TypeOK
<1>2. \A b \in InUse : b \in Blocks /\ cells[b] \in Procs
  BY <1>1 DEF InUse, FreeOnes, OwnedBy
<1>3. \A b \in InUse : cells[b] \in InMemory
  BY <1>2 DEF MemoryMatchesResidence, OwnedBy, InMemory
<1>4. ASSUME NEW p \in InMemory
      PROVE  /\ OwnedBy(cells, p) = {b \in InUse : cells[b] = p}
             /\ OwnedBy(cells, p) # {}
             /\ Cardinality(OwnedBy(cells, p)) = profile[p].blocks
  <2>1. p \in Procs /\ p # NULL /\ profile[p].blocks \in Nat \ {0}
    BY KernelAssumption, FieldTypes DEF InMemory, KernelInv, TypeInv
  <2>2. PICK first \in Blocks :
           OwnedBy(cells, p) = first .. first + profile[p].blocks - 1
    BY <2>1 DEF MemoryMatchesResidence, InMemory
  <2> DEFINE n == profile[p].blocks
  <2>3. /\ first \in Int /\ first + n - 1 \in Int /\ ~(first > first + n - 1)
        /\ (first + n - 1) - first + 1 = n /\ first \in first .. first + n - 1
    BY <2>1, TotalBlocksAssumption DEF Blocks
  <2>4. Cardinality(first .. first + n - 1) = n
    <3> HIDE DEF n
    <3> QED
      BY <2>3, FS_Interval
  <2>5. OwnedBy(cells, p) = {b \in InUse : cells[b] = p}
    BY <2>1 DEF OwnedBy, InUse, FreeOnes
  <2> QED
    BY <2>2, <2>3, <2>4, <2>5
<1> QED
  BY <1>3, <1>4

(* The blocks in use are those assigned to the processes in RAM.           *)
LEMMA UsedIsAssigned ==
    ASSUME KernelInv, MemoryMatchesResidence
    PROVE  /\ AssignedTo(InMemory) = TOTAL_BLOCKS - FreeBlocks
           /\ FreeBlocks \in 0 .. TOTAL_BLOCKS
<1> DEFINE f == [p \in InMemory |-> profile[p].blocks]
<1>1. /\ FreeOnes \in SUBSET Blocks /\ InUse \in SUBSET Blocks
      /\ InUse \cup FreeOnes = Blocks /\ InUse \cap FreeOnes = {}
      /\ FreeBlocks = Cardinality(FreeOnes)
  BY DEF FreeOnes, InUse, OwnedBy, FreeBlocks
<1>2. /\ IsFiniteSet(InUse) /\ IsFiniteSet(FreeOnes)
      /\ Cardinality(InUse) \in Nat /\ Cardinality(FreeOnes) \in Nat
  BY <1>1, SomeBlocks
<1>3. Cardinality(Blocks) = Cardinality(InUse) + Cardinality(FreeOnes)
  <2>1. Cardinality(InUse \cup FreeOnes)
           = Cardinality(InUse) + Cardinality(FreeOnes) - Cardinality(InUse \cap FreeOnes)
    BY <1>2, FS_Union
  <2>2. Cardinality(InUse \cap FreeOnes) = 0
    BY <1>1, FS_EmptySet
  <2>3. Cardinality(Blocks) = Cardinality(InUse \cup FreeOnes)
    BY <1>1
  <2> QED
    BY <1>2, <2>1, <2>2, <2>3
<1>4. IsFiniteSet(InMemory)
  BY SomeProcs DEF InMemory
<1>5. \A p \in InMemory : f[p] = Cardinality(ClassOf(InUse, cells, p))
  <2> TAKE p \in InMemory
  <2>1. OwnedBy(cells, p) = {b \in InUse : cells[b] = p}
        /\ Cardinality(OwnedBy(cells, p)) = profile[p].blocks
    BY OwnersOfBlocks
  <2>2. f[p] = profile[p].blocks /\ ClassOf(InUse, cells, p) = {b \in InUse : cells[b] = p}
    BY DEF ClassOf
  <2> HIDE DEF f
  <2> QED
    BY <2>1, <2>2
<1>6. \A b \in InUse : cells[b] \in InMemory
  BY OwnersOfBlocks
<1>7. AssignedTo(InMemory) = SumFunctionOnSet(f, InMemory)
  BY DEF AssignedTo, SumFunction
<1> HIDE DEF f
<1>8. SumFunctionOnSet(f, InMemory) = Cardinality(InUse)
  <2>1. IsFiniteSet(InUse) /\ IsFiniteSet(InMemory)
    BY <1>2, <1>4
  <2> QED
    BY <1>5, <1>6, <2>1, SumOfClasses
<1> QED
  BY <1>1, <1>2, <1>3, <1>7, <1>8, SomeBlocks

(* The owners that the memory map colours.                                 *)
LEMMA OwnersAreResidents ==
    ASSUME KernelInv, MemoryMatchesResidence
    PROVE  MemoryMapOwners = InMemory
<1>1. \A b \in Blocks : cells[b] # NULL => b \in InUse
  BY DEF InUse, FreeOnes, OwnedBy
<1>2. MemoryMapOwners \subseteq InMemory
  BY <1>1, OwnersOfBlocks DEF MemoryMapOwners
<1>3. ASSUME NEW p \in InMemory PROVE p \in MemoryMapOwners
  <2>1. p # NULL
    BY KernelAssumption DEF InMemory
  <2>2. PICK b \in Blocks : cells[b] = p
    BY OwnersOfBlocks DEF OwnedBy
  <2> QED
    BY <2>1, <2>2 DEF MemoryMapOwners
<1> QED
  BY <1>2, <1>3

(* Who arrived is in RAM, or waits out of it, or has not entered it yet,   *)
(* or has left it for good.                                                *)
LEMMA ArrivalsAreSomewhere ==
    ASSUME KernelInv, CountersInv
    PROVE  /\ Cardinality(ArrivedRows)
                 = Cardinality(InMemory) + Len(nonresident_q) + Cardinality(OutBlocked)
                   + Len(job_q) + Len(finished_q)
           /\ Cardinality(Outsiders) = Len(nonresident_q) + Cardinality(OutBlocked)
           /\ Len(nonresident_q) \in Nat /\ Cardinality(OutBlocked) \in Nat
<1>1. /\ TypeOK /\ QueuesDistinct /\ OnlyResidentsCompete
      /\ \A p \in Procs : InPlace(p) /\ state[p] \in ProcessState
  BY DEF KernelInv, TypeInv, TypeOK, Structure, OnePlaceEach
<1> DEFINE N == Range(nonresident_q)
           J == Range(job_q)
           F == Range(finished_q)
<1>2. /\ \A q \in {nonresident_q, job_q, finished_q} :
            Range(q) \in SUBSET Procs /\ Cardinality(Range(q)) = Len(q) /\ Len(q) \in Nat
  <2>1. \A q \in {nonresident_q, job_q, finished_q} : q \in Seq(Procs) /\ NoDuplicates(q)
    BY <1>1 DEF TypeOK, QueuesDistinct
  <2>2. \A q : q \in Seq(Procs) => Range(q) \in SUBSET Procs
    BY DEF Range
  <2> QED
    BY <2>1, <2>2, LengthIsSize
<1>3. ASSUME NEW p \in Procs
      PROVE  /\ p \in N <=> state[p] = "READY" /\ ~resident[p]
             /\ p \in J <=> state[p] = "NEW"
             /\ p \in F <=> state[p] = "TERMINATED"
             /\ state[p] \in {"NONE", "NEW", "TERMINATED"} => ~resident[p]
             /\ state[p] = "RUNNING" => resident[p]
  BY <1>1 DEF InPlace, OnlyResidentsCompete
<1>4. /\ N \in SUBSET Procs /\ J \in SUBSET Procs /\ F \in SUBSET Procs
      /\ InMemory \in SUBSET Procs /\ OutBlocked \in SUBSET Procs
  BY <1>2 DEF InMemory, OutBlocked
<1> HIDE DEF N, J, F
<1>5. /\ Outsiders = N \cup OutBlocked /\ N \cap OutBlocked = {}
  BY <1>3, <1>4 DEF Outsiders, OutBlocked
<1>6. /\ ArrivedRows = ((InMemory \cup Outsiders) \cup J) \cup F
      /\ InMemory \cap Outsiders = {} /\ (InMemory \cup Outsiders) \cap J = {}
      /\ ((InMemory \cup Outsiders) \cup J) \cap F = {}
  <2>1. ArrivedRows = {p \in Procs : state[p] # "NONE"}
    BY RowsAreProcesses DEF ArrivedRows
  <2>2. \A p \in Procs : /\ p \in InMemory <=> resident[p]
                         /\ p \in Outsiders <=> state[p] \in {"READY", "BLOCKED"} /\ ~resident[p]
    BY DEF InMemory, Outsiders
  <2>3. Outsiders \in SUBSET Procs
    BY DEF Outsiders
  <2> QED
    BY <1>1, <1>3, <1>4, <2>1, <2>2, <2>3 DEF ProcessState
<1>7. Outsiders \in SUBSET Procs /\ InMemory \cup Outsiders \in SUBSET Procs
      /\ (InMemory \cup Outsiders) \cup J \in SUBSET Procs
  BY <1>4, <1>5
<1>8. Cardinality(Outsiders) = Cardinality(N) + Cardinality(OutBlocked)
  BY <1>4, <1>5, DisjointSizes
<1>9. Cardinality(InMemory \cup Outsiders) = Cardinality(InMemory) + Cardinality(Outsiders)
  BY <1>4, <1>6, <1>7, DisjointSizes
<1>10. Cardinality((InMemory \cup Outsiders) \cup J)
          = Cardinality(InMemory \cup Outsiders) + Cardinality(J)
  BY <1>4, <1>6, <1>7, DisjointSizes
<1>11. Cardinality(ArrivedRows)
          = Cardinality((InMemory \cup Outsiders) \cup J) + Cardinality(F)
  BY <1>4, <1>6, <1>7, DisjointSizes
<1>12. /\ Cardinality(N) = Len(nonresident_q) /\ Cardinality(J) = Len(job_q)
       /\ Cardinality(F) = Len(finished_q) /\ Len(nonresident_q) \in Nat
       /\ Len(job_q) \in Nat /\ Len(finished_q) \in Nat
  BY <1>2 DEF N, J, F
<1>13. Cardinality(InMemory) \in Nat /\ Cardinality(OutBlocked) \in Nat
  BY <1>4, SomeProcs
<1> QED
  BY <1>8, <1>9, <1>10, <1>11, <1>12, <1>13

(* The statistics tab, the memory history and the comparison tool, each by *)
(* its own code, find the same figures.                                    *)
LEMMA MemoryFiguresHold ==
    ASSUME KernelInv, CountersInv, MemoryMatchesResidence
    PROVE  MemoryFiguresAgree
<1> DEFINE m == MemoryMetrics
           h == HistorySample
           t == ToolSample
           out == {p \in Range(table) : state[p] = "BLOCKED" /\ ~resident[p]}
           cancelled == {p \in Range(table) : failed[p] /\ io[p].completed}
           used == NonNegative(AllBlocks - FreeBlocks)
           user == NonNegative(UserBlocks - FreeBlocks)
           assigned == AssignedTo(InMemory)
           residents == Cardinality(InMemory)
<1>1. m = [used_user |-> user, used |-> used, fragmentation |-> Fragmentation,
           free_holes |-> FreeHoles, assigned |-> assigned, residents |-> residents,
           nonresidents |-> Len(nonresident_q)]
  BY WhoIsInRam DEF MemoryMetrics, RowsWhere
<1>2. h = [used_user |-> user, used |-> used, fragmentation |-> Fragmentation,
           free_holes |-> FreeHoles, assigned |-> assigned, residents |-> residents]
  BY WhoIsInRam DEF HistorySample
<1>3. t = [used |-> used, fragmentation |-> Fragmentation,
           free_holes |-> FreeHoles, assigned |-> assigned, residents |-> residents]
  BY WhoIsInRam DEF ToolSample
<1>4. out = OutBlocked /\ cancelled = Cancelled
  BY RowsAreProcesses DEF OutBlocked, Cancelled
<1>5. user = assigned /\ used = assigned + OS_BLOCKS
  <2>1. /\ TOTAL_BLOCKS \in Nat /\ OS_BLOCKS \in Nat /\ FreeBlocks \in 0 .. TOTAL_BLOCKS
        /\ assigned = TOTAL_BLOCKS - FreeBlocks
    BY UsedIsAssigned, SomeBlocks, DashboardAssumption
  <2> HIDE DEF assigned
  <2>2. AllBlocks = TOTAL_BLOCKS + OS_BLOCKS
    BY DEF AllBlocks
  <2>3. UserBlocks = TOTAL_BLOCKS
    <3>1. AllBlocks - OS_BLOCKS = TOTAL_BLOCKS /\ TOTAL_BLOCKS \in Int /\ ~(TOTAL_BLOCKS < 0)
      BY <2>1, <2>2
    <3> QED
      BY <3>1, CutAtZero DEF UserBlocks
  <2>4. UserBlocks - FreeBlocks \in Int /\ ~(UserBlocks - FreeBlocks < 0)
        /\ AllBlocks - FreeBlocks \in Int /\ ~(AllBlocks - FreeBlocks < 0)
    BY <2>1, <2>2, <2>3
  <2>5. user = UserBlocks - FreeBlocks /\ used = AllBlocks - FreeBlocks
    BY <2>4, CutAtZero
  <2> HIDE DEF user, used
  <2> QED
    BY <2>1, <2>2, <2>3, <2>5
<1> HIDE DEF m, h, t, out, cancelled, used, user, assigned, residents
<1>6. \A f \in DOMAIN h : h[f] = m[f]
  BY <1>1, <1>2
<1>7. \A f \in DOMAIN t : t[f] = h[f]
  BY <1>2, <1>3
<1>8. h.used_user = h.assigned /\ h.used = h.assigned + OS_BLOCKS
  BY <1>2, <1>5
<1>9. h.fragmentation[1] = 0 <=> h.free_holes =< 1
  <2>1. h.fragmentation = Fragmentation /\ h.free_holes = FreeHoles
    BY <1>2
  <2>2. Fragmentation[1] = FreeBlocks - LargestFree
    BY DEF Fragmentation
  <2> QED
    BY <2>1, <2>2, FragmentedByHoles
<1>10. Cardinality(MemoryMapOwners) = h.residents
  BY <1>2, OwnersAreResidents DEF residents
<1>11. \A p \in MemoryMapOwners : p \in PidsOf(DOMAIN Processes)
  BY OwnersAreResidents, RowsAreProcesses DEF InMemory
<1>12. Cardinality(ArrivedRows)
          = m.residents + m.nonresidents + Cardinality(out) + Len(job_q) + Len(finished_q)
  BY <1>1, <1>4, ArrivalsAreSomewhere DEF residents
<1>13. stats.swap_out - stats.swap_in - Len(nonresident_q) - Cardinality(out)
          \in 0 .. Cardinality(cancelled)
  <2>1. stats.swap_out \in Nat /\ stats.swap_in \in Nat
    BY CountedFigures DEF KernelInv, TypeInv, TypeOK
  <2>2. /\ Cardinality(Outsiders) = Len(nonresident_q) + Cardinality(OutBlocked)
        /\ Len(nonresident_q) \in Nat /\ Cardinality(OutBlocked) \in Nat
    BY ArrivalsAreSomewhere
  <2>3. stats.swap_out - stats.swap_in - Len(nonresident_q) - Cardinality(OutBlocked)
           = stats.swap_out - stats.swap_in - Cardinality(Outsiders)
    BY <2>1, <2>2
  <2>4. stats.swap_out - stats.swap_in - Cardinality(Outsiders) \in 0 .. Cardinality(Cancelled)
    BY DEF CountersInv, SwapsBalance
  <2> QED
    BY <1>4, <2>3, <2>4
<1> QED
  BY <1>6, <1>7, <1>8, <1>9, <1>10, <1>11, <1>12, <1>13
     DEF MemoryFiguresAgree, m, h, t, out, cancelled

(* Nor do the three programs that compute the use of the memory, nor what  *)
(* they compute and what the processes were assigned; swaps balance        *)
(* (statistics_tab.py, simulation_state_reducer.py, compare_policies.py).  *)
THEOREM MemoryFiguresAlwaysAgree == Spec => []MemoryFiguresAgree
  BY KernelInvariant, CountersInvariant, MemoryIsAccountedFor, MemoryFiguresHold, PTL
=============================================================================
