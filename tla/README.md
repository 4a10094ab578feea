# SimuladorSO: formal models, checks and proofs

SimuladorSO teaches operating systems. A C program (`src/src/simulator`) simulates a
machine tick by tick and writes JSON snapshots; a Qt application in Python
(`src/src/gui`) drives one such program per window over a pipe and draws what it does;
a batch tool (`src/tools/compare_policies.py`) compares policies. This directory
holds TLA+ models of that code, the TLC configurations that check them on small
instances, and proofs, checked by TLAPS, that hold for every instance.

## 1. Inventory

### The simulator (C, one thread)

| Part | State it keeps | Operations |
|---|---|---|
| Main loop (`loop.c`) | `sim_state`, `current_time`, accumulated CPU, idle and switch time | `main_loop`: arrivals, two rounds of mid- and long-term scheduling, preemption, test for the end, then a switch, idle or CPU tick; `tick_background`; `simulation_finished` |
| Schedulers (`scheduler.c`) | none of their own: `process_table`, `job_q`, `ready_q` | `process_arrival`, `job_scheduler` (reject, admit, skip), `alg_fcfs/sjf/priority`, `scheduler`, `should_preempt` |
| Swapper (`swap.c`) | `nonresident_q`, swap counters | `swap_in_ready_processes`, `waiting_for_memory`, `blocked_swap_candidate`, `mid_term_scheduler` |
| CPU, dispatcher (`cpu.c`, `dispatcher.c`) | `running`, `next_pcb`, `switch_remaining`, `cpu_ctx` | `tick_running_process` (fail, terminate, block, quantum, continue), `begin_context_switch`, `dispatch`, save and restore of the context |
| I/O (`io.c`) | one queue per device, `IoData` of each PCB | `running_to_blocked`, `tick_device_queues`, `blocked_to_ready`, `cancel_by_keyboard` |
| Processes (`process.c`) | PCBs: `sched`, `io`, `err`, `mem`, state | creation of user and system processes, random and test sets, `finish_process`, `terminate_running_process`, `fail_running_process` |
| Queues, table (`queue.c`, `process_table.c`) | linked lists of PCB pointers | enqueue, dequeue of the head, dequeue of a PCB, `accumulate_queue_time` |
| Memory (`memory.c`) | block list, number of free blocks, pointer to the largest free one, segments of each PCB | `kmalloc`, `kfree`, `kmerge`, `allocate_block`, `update_max_mem`, `memory_can_fit`; layout, growth and saved offsets of segments |
| Interrupts (`interrupt.c`) | ring of 32 events, counters by type | `raise_interrupt`; periodic ones come from `cpu.c` |
| Gantt (`gantt.c`) | intervals of the time line | `gantt_tick`, coalescing equal neighbours |
| Commands (`input.c`, `simulator_main.c`) | configuration, `sim_state` | ADD, RANDOM, TEST, SET_*, SPEED, RUN, PAUSE, STOP between ticks; end of input |
| Protocol (`protocol.c`, `names.c`) | sequence number, time of the last snapshot | `send_data`: a JSON line, at most one per 100 ms unless forced |
| Host (`host_*.c`) | none | wrappers of select and sleep |

Inside the simulator nothing runs concurrently. The parts share `struct Simulator` and
interact by calls in the order `main_loop` fixes; the hard behaviour is in *the order*:
the PCBs are linked in queues without a membership test, about ten functions move them,
walks unlink the nodes they stand on, memory is taken from processes that sit in a device
queue, and the process chosen for the CPU is chosen several ticks before it gets it.
User input (keyboard cancellation, commands) and the workload are the nondeterminism.

### The GUI (Python, one Qt thread and two reader threads per C process)

| Part | State it keeps | Operations |
|---|---|---|
| Gateway (`c_process_gateway.py`) | the child process, output and error queues | start, send, poll, terminate; one reader thread per pipe |
| Service (`simulation_service.py`) | gateway, store, current algorithm | configure, add, random, run, pause, stop, restart after a change |
| Store, reducer (`state/`) | process list, statistics, event log, next PID | apply a snapshot, rebuild the process list, record transitions |
| Windows (`windows/`, `factories/`) | flags, header, controls, poll timer | one handler per control, poll every 120 ms, back to the menu |
| Panels (`execute_tab.py`, `process_queues_tab.py`, `process_table.py`) | caches of the last processes, system processes and state; cards | draw the current tab; counters, CPU panel, queues, memory and statistics figures derived from a snapshot |
| Widgets (`process_input.py`, `visual_widgets.py`) | percentages and active handle of the slider; scroll, mode and drag of the Gantt chart | mouse, wheel and resize events; new intervals from a poll |
| Comparison tool (`tools/`) | rows and details collected so far | runs the C program once per context, scheduler and placement; summarises, ranks, writes an HTML report |

The GUI and the simulator run concurrently and talk over two pipes: commands one way,
snapshots the other, so a snapshot may describe a moment before a command the GUI has
already sent. `src/legacy/main.c` is an older one-file copy no build script compiles.

`PROJECT.json` lists every part with its status under `components` and, under
`hazards`, what can go wrong at which line and which property would show it.

### What makes each part correct

* Memory: the list tiles the memory, free neighbours are merged, the cached counters are
  fresh, PCBs and list agree, each request is granted exactly when a hole is large enough
  and is placed where the policy says.
* Kernel: each process is in the one queue, device or CPU its state tells; only resident
  processes compete for the CPU; a resident process owns exactly its blocks; the CPU is
  not idle while somebody waits for memory; preemption never leaves a better process
  waiting during a CPU tick; a quantum is respected; devices serve in order; every unit of
  time is charged once; the simulation ends with everybody terminated.
* Context and segments: a process goes on at the instruction where it stopped, wherever it is
  loaded by then; its segments stay inside its memory and grow with its progress; the stack
  pointer follows STACK.
* Gantt and interrupts: intervals tile the time line and agree with the counters.
* Session: a command takes effect between two ticks, whole or not at all; no sequence of
  settings leaves Round Robin without a quantum; the last snapshot shows the truth
  whenever time stands still; the program ends when its input does.
* Panels: a process shows up in one column, and the counters, the CPU panel, the
  statistics and the three memory summaries, computed by separate code, agree.
* Window: the C program has the settings the window shows, from whichever window, program
  or order of changes they come; store, caches, tabs and cards agree; the chart comes back.
* Widgets: the percentages sent with ADD are valid; the chart stays in its range.
* Comparison: a report has every case, each under its own settings and about the same
  processes; the ranks are fair; the tool ends even if a C program never does.
* Client: whatever guesses and stale snapshots come between, the GUI's list ends up as the
  simulator's; PIDs never clash; no line of an earlier C process or another window reaches
  the store; a memory history is that of one run; the end of a simulation is noticed, and
  shown with its last snapshot.

## 2. Modules

| Module | Role |
|---|---|
| `Holes` | pure operators on a row of blocks: holes, fit, policy, claim, release |
| `MemoryMap` | abstract memory manager: what a user may rely on |
| `Memory` | the block list of `memory.c` with its cached counters; refines `MemoryMap` |
| `Kernel` | one call of `main_loop`, step by step; uses `Holes` for its memory |
| `KernelProperties` | what the kernel guarantees; instantiates `Lifecycle` |
| `Lifecycle` | abstract specification: the life of a process, without queues, times or policies |
| `Segments` | pure operators: layout and growth of the segments of a process |
| `Context` | extends the kernel by the CPU's registers, their copies and the segments |
| `Timeline` | extends the kernel by the Gantt chart and the interrupt records |
| `Session` | composes the kernel with the commands of its user, the loop of `main` and the snapshots |
| `Client` | the windows, service, store and gateway of the GUI around one C process after another |
| `Dashboard` | extends the kernel by what panels, history and comparison tool derive from a snapshot |
| `Window` | settings, form, store, tabs and cards of an algorithm window, with the C program's answers |
| `Widgets` | the slider of segments and the Gantt chart under the mouse and the poll timer |
| `Comparison` | the batch tool: cases, C programs, summaries, ranks, report |
| `MCMemory`, `MCKernel`, `MCMachine`, `MCTimeline`, `MCSession`, `MCClient`, `MCWindow`, `MCWidgets`, `MCComparison` | instances for TLC |
| `FoldProofs` | a left fold goes element by element, for any sequence and operation |
| `KernelProofs` | types, queues, residence, quanta, bursts, devices, preemption, charged times, memory; nobody waits for memory while the CPU is idle; the kernel implements `Lifecycle` |
| `ContextProofs` | a process goes on where it stopped, wherever it is loaded again; its segments stay inside its memory |
| `SimulatorProofs` | the kernel's invariants under any commands, and what commands promise; chart and interrupt records tell what the kernel did; panels, history and tool agree on every snapshot |
| `MemoryProofs` | the block list is sound and implements the memory map |
| `ClientProofs` | a window reads what its own process says; PIDs never clash; histories are of one run; the end is shown complete |
| `WindowProofs` | the settings shown are in force, the views agree; the slider's percentages add up, the chart stays in range |
| `ComparisonProofs` | a report is complete, its ranks are fair |

### Kernel and code

The variables are the fields of `struct Simulator` and `struct Pcb` under their names in
the code, grouped: `sched` and `io` are records per process (`SchedulerData`,
`IoData`), `stats` the counters of the simulator. Two things stand for control: `pc`
names the step of `main_loop` about to run and `todo` holds the nodes a queue walk has
still to visit (the C code saves `next` before it moves a node, and no walk's queue loses
a later node meanwhile; the proof needs that fact and has it as `WalkStaysInQueue`). A
call of `main_loop` is then

    idle -> arrival -> mid1 -> job1 -> mid2 -> job2 -> preempt -> decide
         -> bg_switch | bg_idle            -> idle
         -> bg_run -> cpu -> mid3 -> finish -> idle

and no step can be skipped: each value of `pc` enables exactly one action, except where
the environment chooses (the keyboard user of `cancel_by_keyboard`, whose probability of
one in five is a free choice). Every loop of the code appears: `mid1`-`mid3` are the
three calls of `mid_term_scheduler`, each alternating a walk over `nonresident_q`
(`SwapIn`, `SkipSwapIn`) with one eviction (`SwapOut`) until `NeedsRoom` fails or nobody
is left to evict; `job1`, `job2` the walks of `job_scheduler`; `bg_*` the walk over the
devices. The trailing effects of a handler are in its action: `Finish` frees memory and
links the process in `finished_q`, as `finish_process` does through `kfree`.

Times are integers; a tick lasts `TICK` units and nothing has to be a multiple of it. The
code has `double` milliseconds and ticks of 0.1, which no `double` is exactly, so its sums
round; the model is exact. Nearly all comparisons of the code allow for the rounding with
`TIME_EPSILON`, and there the model decides as the code does. The choice of the shortest
job and the test for preemption compare remainders without it (`scheduler.c`): of two
remainders that are equal but for rounding, the code may take either for the shorter, while
the model keeps the order of the queue and does not preempt. Which of two processes with
the same remainder goes first is therefore outside what the model shows of the code.
The random draws of PCB creation (error trigger, I/O instant, device) are ranges of
`Workloads`. Left out of `Kernel`: names, snapshots, allocation failure of `malloc` for
queue nodes; the records and registers below, which no decision of the kernel reads.

### Memory and code

`list` is the linked list from head to tail, `free` and `max` its two caches (`max`
is the length of the block the C pointer names, 0 for `NULL`), `mem` the bounds each PCB
stores. `Init` runs `mem_init` and `create_system_processes`, which deals the blocks
reserved for the operating system at random. `KMalloc` decides with the cache, as
`memory_can_fit` does, searches the list, splits the block and recomputes the cache;
`KFree` disowns, merges and recomputes. The kernel then does not repeat the list: it uses
the operators of `Holes`, and the run `memory` shows that the list implements exactly
these operators (`ImplementsMap`), so the kernel's memory is the code's.

### Context, segments and code

`Context` conjoins to each action of `Kernel` what it does to `cpu_ctx`, to its copy
`saved` in the PCB and to the segments. Segments are laid out in `allocate_block` and
cleared in `kfree`, so they exist exactly while the process is resident; a swap therefore
loses all growth, and the next tick of the CPU makes up for it. The code grows in a loop,
block by block (`GrownByLoop`); the model uses the closed form `Grown`, and
`GrowthIsTheLoop` in `SegmentsFollowProcess` compares the two at every tick: TLC for the
instance, `SegmentsAreHoused` for any.
`memory_grow_stack` adds to the `sp_offset` of the PCB, not of the CPU: `GrownContext`
models that assignment, and the next `dispatch_save_ctx` overwrites it. So the stack
pointer stays at STACK's limit for ever, which is a finding (run `stack_pointer`), and
`ResumesWhereItStopped` is about the program counter only. `Target` is the exact floor of
what `memory.c:313-319` computes as a `double` and truncates, so it may be one block off
where the exact product is an integer. Left out is how many KB of a segment's last block are wasted.

### Timeline and code

`Timeline` does the same for `update_gantt_interval` and `record_interrupt`. A chart interval
is drawn before the clock advances, hence `current_time` and not its successor. The C code
keeps the instant of the next periodic interrupt, a fraction of the burst; the model counts
those due instead (`Due`), the same number without fractions. Which of the two kinds of
periodic or exception interrupt is raised is a free choice, as is the draw in the code. An
interval is one switch long, or several: when the process that a switch dispatched is
preempted before it ran a tick, the next switch grows the same interval.

### Session and code

`main` reads commands only between two calls of `main_loop`, so every command needs `pc =
"idle"`; it may read none, one or many before the next call. `Session` starts where
`simulator_init` does, paused and without processes, and adds three variables: `closed`
(the pipe of commands is closed at its other end), `fresh` (the last snapshot shows the
present state: `send_data` is forced after a command and at the end, and may drop any
other snapshot for its rate, a free choice here) and `changes`, a bound. A command whose
arguments are not valid is only logged, a stuttering step. `Configure` is what
`apply_config` and the five `SET_` commands have in common; which of them checks what is
the code's: SET_CONFIG accepts a quantum of zero except for Round Robin, SET_QUANTUM never
does, SET_ALG_SCHED looks at the quantum there is. `Create` gives a process the quantum of
that moment, as `create_user_pcb` does, whatever the clock says; `table` grows along
`Table`, which holds the processes in the order of creation. `Asking` is the count by which
RANDOM sees to a minimum of I/O requests. After `fgets` fails, `main` stops the program if
it is paused and goes on ticking if it runs (`EndOfInput`). A simulation that runs without
processes never ends, as `simulation_finished` asks for a nonempty table; the model stops
its clock at `IDLE_LIMIT` (`Capped`), and `ClosedInputEnds` excludes exactly that case.

### Client and code

Three kinds of process interleave: the GUI thread, a reader thread per C process (only the
one of stdout matters), and the C process. The GUI thread runs one handler at a time, and
`task` says where in it: a click decides what to send from what the window knows and
whether the C process runs (*decide*, the actions of `User`); `send` writes to the process
there is, finds it gone, breaks a pipe or starts another one (`_send_command_lines`,
`_send_control`); `wait` is `wait_for_exit`, ended by the process or by its termination;
`poll` and `check` are the two halves of `_poll_c_output`, before and after it asks whether
the C process runs. Between any two of these the readers and the C process may step, which
is where the code could go wrong. A handler that sends several lines writes them in one
step: the C process reads them one by one all the same, and a pipe that breaks in the
middle has the effect of one that breaks before the first, as nobody reads the rest.

`gen` counts the C processes started, and every line carries the one it comes from, a mark
the properties use and the code does not have. `queue` is the queue the gateway has now;
`Delivered` drops what an old reader puts into its own old queue, which nobody reads any
more. `JOINS_IN_TIME` decides whether `join(timeout=0.1)` always waits long enough: if
not, `Joined` chooses how far the reader came. `store` holds per algorithm what
`SimulationSessionStore` does: a list of PIDs (`Pids(n)`, as the C program numbers the
processes in order), the next PID, the count of random processes asked for, and the memory
history. `Sampled` is `_append_memory_history` for one snapshot after the other.

The C process here is a small one: it counts its processes, has a state and a sequence
number, reads one command per step (a line in lower case is unknown to it and changes
nothing, while the log entry of the GUI takes `run` for RUN), and may finish as soon as it
runs with processes. What happens inside it is the subject of `Session`. It says a line
after each command it obeys, at its start and at its end; snapshots of ticks that change
nothing the GUI tells apart are left out, and so are names, colours, the pipe of errors, the
system processes, the change of the quantum (a write followed by a poll, as a typed command is), and
the end of the application. RESERVED_PID_COUNT is 1 instead of 100.

### Dashboard and code

`Dashboard` has no variables: it derives, from the state of the kernel between two calls of
`main_loop` (`pc = "idle"`, when a snapshot may be sent), what each consumer derives from
the JSON of that snapshot. `UiProcess` is the row that `ui_process_from_pcb` builds;
`Columns` are the six columns of the queues tab with their guesses by state for queues that
are empty; `Counters` and `OnCpuPanel` are the execution tab's, and a loop of the code over the
list of processes is the set of the rows it counts (`RowsWhere`); `MemoryMetrics`,
`HistorySample` and `ToolSample` are the three computations of the memory figures, by the
statistics tab, by `_append_memory_history` and by `summarize_memory`. Percentages are left
as the pair they divide, averages as sum and count. The reserve of the operating system is
a number of blocks, `OS_BLOCKS`, that the kernel's memory does not contain.

### Window and code

`Window` leaves the threads to `Client` and keeps what `Client` leaves out: the settings
(`store`), the flags and header (`ui`), the form's slider (`split`), and the caches and
drawings of the panels (`view`). `view.processes`, `view.system` and `view.state` are the
three caches of `Execute_Tab`, `view.shown` is what its current tab drew last, `view.cards`
the cards of the process table. Each handler is one action, with the poll that some of them
end with (`PollWith`). The C program `c` reads its pipe line by line; `out` is its last
snapshot that no poll has read (a poll applies all that are queued, and the last one
decides). Names count as characters and bytes, since `_sanitize_name` cuts at 15 characters
and ADD reads 15 bytes: a longer one is rejected (`Valid`). Typed commands are RUN, PAUSE,
STOP and SET_SWITCH_COST; each process has a mark `entered`, which the code does not have,
with the percentages chosen for it.

### Widgets and code

Each mouse, wheel or resize event is an action, with `button` for the state Qt keeps. The
chart's intervals matter by the end of the last one, `total`; a poll may replace them at any
moment (`SetSegments`).

### Comparison and code

`place` says where `main` is: a case is launched, waited for (`communicate`), collected or
raised, and the report is written at the end. The C program reads its four commands and
then runs to its end, with one of the `Outputs`; it may crash at any time and need not step
at all. A row carries a mark, `run`, of the configuration and the random numbers its C
program really had. The cases are the
product of three configured sequences, joined loop by loop as the comprehension of `main`
does. Figures are exact fractions, so ties and rounding do not depend on floats; only fragmentation is rounded, to a percent. The ranks are sums instead of means,
all over the same number of metrics. A report is the set of decisions that the HTML shows:
rows, scores, winners, rankings, heat and worst processes.

## 3. Runs

| Run | Instance | States | What it shows |
|---|---|---|---|
| `memory` | 3 processes, requests of 1 to 3 blocks, 2 system processes, policies changing at any time | 6.6 k | the list is sound after any sequence of splits and merges and refines the memory map |
| `machine` | 4 processes of 3 to 14 blocks in 13, all placement policies, even and uneven percentages | 473 k | places, residence, memory, swapping, cancellation while out, accounting, refinement of `Lifecycle`, termination; a process goes on where it stopped after preemptions and swaps to other places, its segments stay inside its memory and grow with its progress; the panels and figures agree on every snapshot |
| `timeline` | 3 processes, one of which may be larger than the memory, 2 devices, 6 algorithms, with and without switch cost, in memory for all or for two of them; up to 2 periodic interrupts, a ring of 3 events | 2.3 M | preemption, quantum, bursts, device order; chart and interrupt records agree with what the kernel did |
| `commands` | 2 processes created by ADD, TEST or RANDOM, before and after their arrival; every command at any time; up to 2 changes of the configuration (Round Robin, quantum 0, another switch cost) | 2.0 M | quantum, snapshots, STOP; nobody is left behind; the end of the input |
| `client` | 2 algorithms, 4 clicks, any command typed, joins that may time out | 1.6 M | lists, histories and queues of different runs and windows are never mixed; the end is noticed and shown with the last snapshot; the list becomes the C program's |
| `window` | 2 algorithms, 2 values of every setting and of the slider, 2 names of which one is rejected, 5 clicks | 924 k | the C program has the settings shown; store, caches, tabs and cards agree; the chart comes back |
| `widgets` | 6 places on the slider, 4 on a chart of 2 widths, intervals of 3 lengths | 250 k | valid percentages, chart in range |
| `comparison` | 2 contexts, 3 schedulers, 1 placement, up to 4 cases, 4 outputs, 6 ways to call the tool | 7.5 k | complete reports, fair ranks, the tool ends |
| `stack_pointer` | 2 processes that take turns under Round Robin | - | finding, see below |
| `late_add`, `empty_start` | 1 and 2 algorithms, 5 clicks, nothing typed | - | findings, see below |
| `lost_segments` | 1 algorithm, 2 splits, 5 clicks | - | finding, see below |

The properties of each run:

| Run | Module | Properties |
|---|---|---|
| `memory` | `MCMemory` (`MCMemory.cfg`) | `ListIsSound`, `ImplementsMap` |
| `machine` | `MCMachine` (`MCMachine.cfg`) | `TypeOK`, `OnePlaceEach`, `OnlyResidentsCompete`, `MemoryMatchesResidence`, `IdleMeansNobodyWaits`, `TimeIsCharged`, `OneCardEach`, `PanelsAgree`, `MemoryFiguresAgree`, `ResumesWhereItStopped`, `SegmentsFollowProcess`, `ImplementsLifecycle`, `EverybodyFinishes` |
| `timeline` | `MCTimeline` (`MCTimeline.cfg`) | `GanttAgreesWithTimes`, `InterruptsTellTheStory`, `BestProcessRuns`, `QuantumRespected`, `BurstServed`, `DeviceServesInOrder` |
| `commands` | `MCSession` (`MCSessionCommands.cfg`) | `QuietIsShown`, `StopIsFinal`, `DispatchedWithQuantum`, `ClosedInputEnds`, `EndsWhenAllEnded` |
| `client` | `MCClient` (`MCClient.cfg`) | `PidsUnique`, `NothingCrosses`, `HistoryIsOfOneRun`, `FinalIsComplete`, `EndIsNoticed`, `ListCatchesUp` |
| `window` | `MCWindow` (`MCWindow.cfg`) | `SettingsInForce`, `ViewsAgree`, `ChartComesBack` |
| `widgets` | `MCWidgets` (`MCWidgets.cfg`) | `SegmentsAddUp`, `ChartInRange` |
| `comparison` | `MCComparison` (`MCComparison.cfg`) | `ReportIsComplete`, `RanksAreFair`, `ToolEnds` |
| `stack_pointer` | `MCMachine` (`MCMachineStack.cfg`) | `StackPointerInStack` |
| `late_add` | `MCClient` (`MCClientLateAdd.cfg`) | `RunningIsRunning` |
| `empty_start` | `MCClient` (`MCClientEmptyStart.cfg`) | `NeverRunsEmpty` |
| `lost_segments` | `MCWindow` (`MCWindowSegments.cfg`) | `SegmentsAsEntered` |

Why the bounds are enough to be interesting: in `timeline` a tick is 2 units and bursts, I/O
instants, arrivals, the quantum (3) and the switch cost (3) are odd, so last ticks are short
or overrun, a burst, an error, a request and the end of the quantum fall due in the same tick,
and arrivals happen during a switch. In `machine` the four processes need up to 32 blocks of
the 13 there are: one is larger than the memory (rejected), some wait for a hole, some are
evicted while blocked and come back elsewhere, are ready while out, or are cancelled while
out. A process of 8 blocks that lost its growth in a swap has to grow by two in one tick, and
`p3` has percentages whose minimum sizes exceed its blocks in half of the workloads. In
`timeline` a ring of 3 stands for the 32 of the code, and a process raises up to seven
events, so the ring overflows. In `commands` one of the two settings is Round
Robin, the other has the quantum 0 that only other algorithms allow, and two changes suffice
to combine them in either order; its processes arrive at 0, 1 or 12, so that some are created
long after their arrival and some arrive when the other has ended. There are no state
constraints: every run exhausts its reachable states, as the simulation ends by itself. The
only bounds are the sets of workloads and configurations in `MCKernel.tla` and the constants
of the `.cfg` files. In the client runs `MAX_CLICKS` is that bound: four clicks open a window,
add or ask for processes, start, and leave room for one more in the wrong moment (back, stop,
add, another window), each of them with every place of readers and C process; the same four,
in other orders, start up to four C processes. A history of 3 samples stands for 2000, and one
run of the C program says more than three lines; RANDOM creates 2, so that guesses and facts
differ. In `window` five clicks open a window, change a setting or add, start, stop or clear,
and leave room for a second window or a change of tab in between; at most two processes and
one unit of time suffice, as the panels treat all alike. In `comparison` the outputs hold a
run that is worse than another in every figure, two that tie in some figures and differ in
others, and one too short for a snapshot under way. `SYMMETRY` is used in `memory` only, which
has no liveness property. Deadlock is checked everywhere; after `STOP` the loop of `main` has
ended, which `Stopped` states as an explicit stuttering step.

Fairness: `ContextFairSpec`, the kernel with its context, adds `WF_vars(Next)`: `main` keeps calling `main_loop`
and each call runs to its end, since its loops are bounded and it waits for nobody. No
choice of the environment is assumed fair; `EverybodyFinishes` holds if the keyboard user
always cancels and if he never does.

`SessionFairSpec` assumes less: a writer that never ceases keeps `main` in its inner loop, so
nothing is fair before the pipe is closed, and then `Tick` and `EndOfInput` are.

The `FairSpec` of `Client` is fair to the GUI thread, each reader and the C process's
reading and exit, one condition for each, since the operating system schedules them
separately. It is not fair to the user nor to `Finish`: a simulation need not end. That the
gateway's writes get through (`Gateway`) rests on pipes that hold a few lines without
blocking.

In `Window`, `FairSpec` is fair to the C program's reading of commands, before each tick, and
to the poll timer of an open window, not to the user nor to the simulation. In `Comparison`
it is fair to the tool only, whose `communicate` watches a clock; a C program may hang.

Every property has a mutant in `PROJECT.json`: a plausible mistake in one mapped
definition that makes TLC find that property violated. The mutated definitions stand
before the ones they change, marked `Mutant`.

### Findings

* `stack_pointer`: the field is an address inside STACK ("Direccion fisica dentro de STACK",
  `simulator.h:100`). A process is loaded with it at STACK's limit, the block after its last
  one. When STACK grows, `memory_grow_stack` moves it into STACK (`memory.c:284`), but in the
  PCB of the running process, while its registers are those of the simulator; the next
  `dispatch_save_ctx` (`dispatcher.c:12`) writes these over the PCB and the update is lost.
  `StackPointerInStack` asks for it only once STACK has grown, of processes that do not run:
  the trace shows the pointer at 7, inside STACK, during the tick that grows it, and at the
  limit, 8, when its quantum is used up. The snapshots and the GUI show that address.
* `late_add`: a process added after the C program ended by itself, and before the next poll
  (120 ms), starts a new C program, which waits in PAUSE with that process alone; the window
  still believes that the old run goes on and shows C EJECUTANDO with "Proceso agregado
  durante la ejecución." (`algorithm_window.py:128-133`). Nothing runs until the user
  pauses and continues.
* `empty_start`: a reopened window starts a new C program, while the store still lists the
  processes of the last one until the first snapshot is polled. Start in that moment passes
  the test "Agrega al menos un proceso." (`algorithm_window.py:163`) on the old list, and
  `run` sends only CONFIG and RUN, as the C program runs already
  (`simulation_service.py:246`): an empty simulation runs, which never ends by itself.
* `lost_segments`: the user chooses how the memory of a process is split into segments
  ("Segmentos:", `process_input.py:223`), and ADD sends it; the list is then rebuilt from
  snapshots, which do not tell the percentages, by `ui_process_from_pcb`
  (`process_mapper.py:52`), with the defaults of `models.py:41-43`. Start after a run has
  ended or was stopped sends this list to a new C program, and the process runs with other
  segments.

Known disagreements between the code and its texts for which there is no run:

* `program_counter` grows by one every tick (`cpu.c:24`) and nothing bounds it; a process with
  more ticks than blocks of TEXT leaves TEXT, though `simulator.h:99` calls the field an
  address inside TEXT. No instruction is fetched, so only the number shown is off.
* With few blocks and uneven percentages, such as 7 blocks at 80/19/1 %, the minimum sizes of
  `memory.c:185-199` add up to more blocks than the process has; STACK then has a negative
  size, and no address is inside it. `SegmentsFollowProcess` states that segments stay inside the process for
  all other processes, which `Even` tells apart. The slider of the GUI, with its minimum of
  10 %, does not reach such percentages; ADD accepts them.
* A name of 15 characters of which some take two bytes passes `_sanitize_name`
  (`simulation_service.py:372-374`) and is rejected by ADD, while the window shows "Proceso
  cargado en C." (`algorithm_window.py:135`) until the next snapshot drops it from the list.

## 4. Proofs

All theorems hold for any set of processes, workload, algorithm, memory size, number of
devices, tick and switch cost, number of periodic interrupts and size of the ring; those
about the client and the window for any algorithms, settings, number of clicks and lines
typed, size of the history, with joins in time or not. They assume only `KernelAssumption`,
`TotalBlocksAssumption`, `MemoryAssumption`, `SegmentsAssumption`, `ContextAssumption`,
`TimelineAssumption`, `DashboardAssumption`, `SessionAssumption`, `ClientAssumption`,
`WindowAssumption`, `WidgetsAssumption` and `ComparisonAssumption`, which say that constants
have their types, that every process has a row in the table, and only one as far as panels
count rows, that the shares of its segments add up to 100, that no chart is narrower than a
unit of time, and that a C program that ended well has sent a last snapshot in which all
processes of TEST have ended, which is `EndsComplete`; TLC evaluates them in every run that
uses them. `Spec` below is that of
the module of the property.

| Theorem | Says |
|---|---|
| `TypeCorrect` | `Spec => []TypeOK` |
| `EachProcessInOnePlace` | `Spec => []OnePlaceEach` |
| `CpuHasResidents` | `Spec => []OnlyResidentsCompete` |
| `KernelImplementsLifecycle` | `Spec => ImplementsLifecycle` |
| `MemoryIsAccountedFor` | `Spec => []MemoryMatchesResidence` |
| `IdleCpuMeansNobodyWaits` | `Spec => []IdleMeansNobodyWaits` |
| `QuantaAreRespected`, `TheBestRuns` | `Spec => []QuantumRespected`, `Spec => []BestProcessRuns` |
| `BurstsAreServed`, `DevicesServeInOrder` | `Spec => []BurstServed`, `Spec => []DeviceServesInOrder` |
| `TimeIsAccountedFor` | `Spec => []TimeIsCharged` |
| `ListStaysSound`, `ListImplementsMap` | the `Spec` of `Memory` implies `[]ListIsSound`, `ImplementsMap` |
| `GoesOnWhereItStopped`, `SegmentsAreHoused` | `ContextSpec` implies `[]ResumesWhereItStopped`, `[]SegmentsFollowProcess`, for any percentages of the segments |
| `TimelineImplementsKernel` | `TimelineSpec => Spec`: records decide nothing |
| `ChartTellsTheTimes`, `InterruptsTellIt` | `TimelineSpec` implies `[]GanttAgreesWithTimes`, `[]InterruptsTellTheStory` |
| `OneCardAlways`, `PanelsAlwaysAgree`, `MemoryFiguresAlwaysAgree` | the `Spec` of the kernel implies `[]OneCardEach`, `[]PanelsAgree`, `[]MemoryFiguresAgree` of `Dashboard` |
| `SessionKeepsPlaces`, `SessionKeepsMemory` | `SessionSpec => []OnePlaceEach`, `SessionSpec => []MemoryMatchesResidence` |
| `QuietSimulationIsShown` | `SessionSpec => []QuietIsShown` |
| `StopHolds`, `EndsComplete`, `RoundRobinGivesTime` | `SessionSpec` implies `StopIsFinal`, `EndsWhenAllEnded`, `DispatchedWithQuantum` |
| `WindowsReadTheirOwn`, `PidsNeverClash` | the `Spec` of `Client` implies `[]NothingCrosses`, `[]PidsUnique` |
| `HistoriesAreOfOneRun`, `EndIsComplete` | the `Spec` of `Client` implies `[]HistoryIsOfOneRun`, `[]FinalIsComplete` |
| `SettingsAreInForce`, `ViewsAlwaysAgree` | the `Spec` of `Window` implies `[]SettingsInForce`, `[]ViewsAgree` |
| `SegmentsAlwaysAddUp`, `ChartStaysInRange` | `WidgetsSpec` implies `[]SegmentsAddUp`, `[]ChartInRange` |
| `ReportAlwaysComplete`, `RanksAlwaysFair` | the `Spec` of `Comparison` implies `[]ReportIsComplete`, `[]RanksAreFair` |

The argument. `OnePlaceEach` is not inductive: unlinking a node needs to know that it is
linked, and a step of a walk only knows that its node *was* in the queue when the walk
began. `KernelInv` adds what is missing: `TypeInv` (the types, plus the ranges the sums
of times need), `Structure` (`OnePlaceEach`, `OnlyResidentsCompete`, and that a CPU tick has
a running process and a switch tick a pending one) and `WalkStaysInQueue`: during
`job_scheduler` the nodes still to visit are in `job_q`, in order and once. The walk of
`nonresident_q` does not need it, since the code tests state and residence again
(`Waits`). One lemma per action shows that it preserves `Structure`; the lemmas
`DequeueProperties` and `EnqueueProperties` reduce each to which queue the
process leaves and enters.

`MemoryMatchesResidence` is inductive together with `KernelInv`: `ClaimProperties` and
`SelectedIsFree` say that a claimed hole was free, so a claim changes the blocks of one
process only; `ReleaseProperties` the same for a release. The refinement proof maps each
action to the transition of `Lifecycle` it performs or to a stutter; `Dispatch(p)` of the
abstract specification needs that nobody else runs and that `p` is resident, which is
where the invariant enters.

The properties of times need five kinds of step (`StepCases`): a quiet one (walks, decisions,
devices), which changes no time and no runner; a dispatch; a tick, which charges a time to
everybody and moves the clock by it; the cancelling of a process that does not run; and the
CPU's. For each, one lemma says what every field of every process becomes (`RanTimes`,
`DispatchedTimes`, `FinishedTimes`), and what a property lacks to be inductive is then:
everybody's quantum, not only the runner's, is at most the whole (`QuantumInv`); CPU time and
remainder of a living process add up to its burst and it has not passed its error
(`BurstInv`); from the decision to the start of the CPU's tick nobody who is ready is better
(`BestInv`); a switch that is not pending has no remainder (`TotalsInv`); a process in the
system has arrived, and the tick that has begun is owed to the running process (`WaitInv`).
That the CPU times of all processes add up to the time the CPU was busy is a statement on a
sum over a finite set: `SumUnfolds` takes one element out of it, `SumAgrees` and `SumChanges`
follow, and a tick changes the time of one process (`CpuTickIsShared`).
`DeviceServesInOrder` is inductive with `KernelInv`, which says that a process is in the queue
of its own device only, and once.

`IdleMeansNobodyWaits` is about one call of `main_loop`, and `RoomInv` follows it from the
second round of the swapper to the idle tick, as long as nobody is ready or on the CPU: whom
the walk of `mid2` has passed does not fit; so at its end either nobody is outside, or
somebody is and memory, with every resident evicted, is one hole, in which he fits, since
whatever was admitted is not larger than the memory (`SizesFit`). Then either nobody is
resident or the first of `job_q` fits, so `job2` rejects or admits until the queue is empty or
somebody is ready. It uses `MemoryMatchesResidence` (memory without residents is one hole),
`KernelInv` (residents who are not ready are blocked, hence candidates) and `WaitInv` (what is
in `job_q` has arrived).

`ResumesWhereItStopped` speaks of addresses, which change with each swap, while what survives
a swap are offsets. `ContextInv` relates the two for every process: its program counter, that
of the CPU for the runner and that of the PCB for the others, has an offset that is the number
of ticks it ran, and is relative to its segments when it is resident; when it is not, it has no
segments, or a second `kfree` would take offsets from addresses of blocks that are gone.
`AddressesProperties` and `OffsetsProperties` say that loading and unloading keep offsets and
make the program counter point where it belongs; `GrowthKeepsEnds` that growth never moves
the start of TEXT, to which it is relative, so a runner may grow under its own registers. Every step of `Context` is one of `Kernel`, so who runs, who is
resident and who is charged comes from `KernelInv` and the lemmas on the kinds of step.

The session keeps the same invariants: every step of the kernel is a step of `Session`, so
the lemmas on single steps are used again, and a command changes none of the variables
that `KernelInv` constrains except `sim_state`, `config`, `table`, `profile`, and the
quantum and I/O time of processes that do not exist yet, each within its type
(`Commanded`). `RoundRobinGivesTime` rests on `config \in Config`, that is on the checks
of every single `SET_` command; `EndsComplete` on `simulation_finished` and `OnePlaceEach`
together: all queues are empty, nobody has state `NONE`, so everybody is in `finished_q`.

`TimelineImplementsKernel` lets chart and records use what is proved of the kernel.
`GanttAgreesWithTimes` is not inductive, as the interval of a switch grows before the kernel
charges it and may hold several switches: `ChartInv` says that the intervals tile the time,
that each sum of lengths is the charged time plus what the present tick owes, and that the
last interval, plus what the switch in progress has still to pay, is a whole number of switch
costs (`SwitchesWhole`). `StoryInv` follows the record of every process: events in the order
of time, as many in the ring as fit, of each type as many as the process made requests and
completions, as many periodic ones as were due at its CPU time (`DueProperties`, on the
division that spaces them), and a fatal one exactly when it failed after it was admitted.

What the panels show agrees because rows, queues, blocks and counters tell the same. Most of
it follows from `KernelInv`, `BurstInv` and `MemoryMatchesResidence`; `CountersInv` adds that
the counters of the C program are the numbers of those who ended and who failed, that whoever
is blocked has I/O to do, and that swaps out exceed swaps in by those who are out and at most
those cancelled while they were out. Queues hold exactly those whose state says so
(`OnePlaceEach`), so a column is as long as there are rows in its state (`LengthIsSize`,
`RowsOfSet`) and a queue is empty only if the guess by state would be (`ColumnsAreQueues`);
averages agree since a sum does not depend on the order (`SumReindexed`). The blocks used are
those of the residents (`UsedIsAssigned`), and the free ones are the holes, which are apart
(`HolesAreApart`, `HoleAround`), so a memory is fragmented exactly when it has two of them
(`FragmentedByHoles`).

`ListIsSound` and `ImplementsMap` come from one invariant of the block list, `Sound`: the
blocks tile the memory without a gap, no two free neighbours, both caches fresh, and the
blocks of each PCB are in the list as it recorded them. `DisownTiles`, `AbsorbTiles`,
`MergeTiles` and `AllocateTiles` say that each operation on the list keeps the tiling and what
it does to the owner of every address (`CellsClaimed`, `CellsReleased`); `FreeIsHole` and
`HoleIsFree` that the free blocks of a list without free neighbours are exactly the holes of
the map, so that search and caches decide as `MemoryMap` does (`FitsByMax`, `SearchSelects`).
The system processes are placed at the start by a walk over prefix sums (`ReserveTiles`,
`OsIsPlaced`).

What is folded or repeated, over a list of blocks, the events of a snapshot, the blocks of a
segment, is proved by induction. `FoldProofs` derives it from the well-foundedness of the
naturals, with a set in the place of a predicate and the folded operator as a constant of
the module, so that every fact about it is first-order; `FoldLeftSteps` says that a left fold
over `Append(s, e)` is the operation on the fold over `s` and on `e`.

`SegmentsFollowProcess` follows from `SegmentInv`, that the segments of every resident process
lie in its blocks in their order and are as large as its progress made them, and that the
running process has its supply until the third round of the swapper; `OwnersStay` tells
who keeps his blocks in a step.

`NothingCrosses` speaks of the queue alone; `LinesInv` adds what the pipes may hold (every
`out[g]` only lines of process `g`, the last one's only lines of its algorithm), that an
open window's process simulates its algorithm as soon as the opening handler is done, also
after STOP, and that a handler that may start a process has a click left to pay for it
(`gen < clicks`), so that `gen` stays a valid index. Then a new process starts with an empty
queue, an old reader delivers nowhere, and a poll can only shorten. `PidsUnique` follows from
`StoreInv`: a list is distinct and below its next PID, which adding keeps; a snapshot
replaces list and next PID by `1 .. n` and `n + 1`, and its count is a number because of
`LinesInv`.

`HistoryIsOfOneRun` looks at a history; `HistoryInv` also at what is yet to come: the lines
under way, from the C process's pipe through the queue, are numbered in order and a history
goes on where the next of them starts. `FinalIsComplete` needs to know where a handler stands
between the two halves of a poll (`HandlerInv`), what a header can mean (`HeaderInv`), and
`CompleteInv`: whenever nothing is left unread, the store has all processes of the C process
and its last sample has its state, up to the one sample that may be skipped.

`WindowInv` carries the settings from the window to the C program: it has those of the store
and its pipe sets nothing more, or the last line of the pipe that sets anything sets them
(`SettingsTold`); a living program has a configuration, or reads one first (`Begins`).
`ViewsAgree` is inductive: every handler redraws what it changed.

`SegmentsAddUp` and `ChartInRange` are inductive with the types of the fields: a dragged
handle stays between the minimum and its neighbour less the minimum (`CutAddsUp`,
`MoveKeepsSplit`), and every event that changes the size, the intervals or the scroll of the
chart ends by clamping the scroll.

`ComparisonInv` says that the rows are those of the first cases and `cases` the rest
(`CasesInOrder`), and what the C program of the case under way holds after each of its four
commands (`Serving`): only one that has read them all can end well. A row of such a program is
complete (`RowIsSound`): a mean is not above the greatest value (`SumAtMost`), and in every
snapshot what is not free is used (`MemoryIsSound`). The fairness of a report is a statement
on data alone (`ReportIsFair`). By each metric the rows of a context are in a strict total
order, whatever ties the figures have (`AheadOrders`, on fractions that are compared by
cross-multiplication, `LessOrders`); a rank counts who comes earlier, so it is less for who is
ahead (`RankIsLess`), and so is a sum of ranks (`SumLess`). `WinnerIsFirst` and
`RankingIsSorted` say that the `CHOOSE` of a first one has something to choose (`SomeFirst`,
`EachPlace`), and `HeatKeepsOrder` that scaling to the least and greatest figure keeps the
order. The inductions on sizes of sets are `SubsetInduction`.

Model-checked only:

* liveness under fairness, which the prover does not reach: `EverybodyFinishes`,
  `ClosedInputEnds`, `EndIsNoticed`, `ListCatchesUp`, `ChartComesBack`, `ToolEnds`.

Every other property of a passing run is stated by a theorem.

## 5. Not modelled, and the plan

Next: the client's C process as an abstraction of `Session`, a refinement instead of a second
description.

Known and without a property, as no text of the repository says what should happen: PAUSE
written while the C program ends leaves the header at PAUSA with Start disabled until Stop is
pressed; a typed `run` shows C EJECUTANDO although the C program, which minds the case,
rejects it; if a join times out, the last lines of a run are lost to its last poll; Clear
pressed when the C program has ended but before the poll that reads its last lines
(`algorithm_window.py:222`) is undone by that poll; the slider of speed of a reopened window
shows 5x while the store keeps the speed chosen before; a C program that takes too long for the
comparison tool is reported as failed and not ended.

Outside: the host layer (wrappers of system calls), the text of snapshots, CSV and HTML files
and the parsers of JSON, the pipe of stderr, Qt's painting, layout, footer, theme and
placement of windows, the ring charts and the memory map under the mouse (they draw a
snapshot and keep nothing), the summary of the history for exports, and the legacy copy,
which nothing builds.
