----------------------------- MODULE Dashboard -----------------------------
(***************************************************************************)
(* What the panels of a window and the comparison tool compute from one    *)
(* snapshot of the kernel (src/gui/mappers, state, components and          *)
(* tools/compare_policies.py).  They derive the same figures by separate   *)
(* code, from the table of processes, from the queues, from the block list *)
(* and from counters; a snapshot is sent between two calls of main_loop.   *)
(*                                                                         *)
(* A row of a list is a process in ADD order, which is the order of PIDs.  *)
(* Sizes are in blocks; percentages are left as the pair they divide.      *)
(***************************************************************************)
EXTENDS KernelProperties

CONSTANT OS_BLOCKS      \* blocks reserved for the operating system

ASSUME DashboardAssumption ==
    /\ OS_BLOCKS \in Nat
    /\ NoDuplicates(Table)      \* the C program makes a PCB for each row

None == -1              \* None and null of Python and JSON

-----------------------------------------------------------------------------
(* Processes: send_pcb, and the mapper that builds the rows of the lists.  *)

NonNegative(x) == Max({0, x})

UiProcess(p) ==
    [pid |-> p, state |-> state[p], resident |-> resident[p],
     remaining |-> NonNegative(sched[p].remaining),
     ready |-> sched[p].ready, priority |-> profile[p].priority,
     assigned_blocks |-> profile[p].blocks,
     io_device |-> IF profile[p].has_io THEN profile[p].device ELSE None,
     io_remaining |-> NonNegative(io[p].remaining),
     start |-> IF sched[p].start < 0 THEN None ELSE sched[p].start,
     finish |-> IF sched[p].finish < 0 THEN None ELSE sched[p].finish]

(* progress: the share of the burst that was served, as a fraction.        *)
Progress(p) == <<profile[p].burst - UiProcess(p).remaining, profile[p].burst>>

Processes == [i \in DOMAIN table |-> UiProcess(table[i])]

(* The rows that satisfy F, by their positions, and how many they are.     *)
RowsWhere(F(_)) == {i \in DOMAIN Processes : F(Processes[i])}
Count(F(_)) == Cardinality(RowsWhere(F))
PidsOf(rows) == {Processes[i].pid : i \in rows}

(* The PIDs of the rows in a state, in the order of the list.              *)
InState(s) ==
    LET rows == RowsWhere(LAMBDA r : r.state = s)
    IN  [k \in 1 .. Cardinality(rows) |->
            Processes[CHOOSE i \in rows :
                         Cardinality({j \in rows : j < i}) = k - 1].pid]

-----------------------------------------------------------------------------
(* The queues tab: six columns of cards.                                   *)

Extended(cards, pids) == cards \o pids
DeviceCards ==
    FoldLeft(Extended, <<>>, [d \in 1 .. IO_DEVICE_COUNT |-> device_q[d - 1]])

(* Each column has the queue of the snapshot, or a guess by state.         *)
BlockedPids == IF DeviceCards # <<>> THEN DeviceCards ELSE InState("BLOCKED")
FinishedPids == IF finished_q # <<>> THEN finished_q ELSE InState("TERMINATED")
RunningPids ==
    IF running # NULL THEN <<running>>
    ELSE IF InState("RUNNING") # <<>> THEN <<Head(InState("RUNNING"))>>
    ELSE <<>>

(* Mutant: the card of the running process comes from its state only after *)
(* the process that waits for the context switch.                          *)
ColumnsByDispatch ==
    [job |-> job_q, ready |-> ready_q,
     running |-> IF next_pcb # NULL THEN <<next_pcb>> ELSE RunningPids,
     blocked |-> BlockedPids, nonresident |-> nonresident_q,
     finished |-> FinishedPids]

Columns ==
    [job |-> job_q, ready |-> ready_q, running |-> RunningPids,
     blocked |-> BlockedPids, nonresident |-> nonresident_q,
     finished |-> FinishedPids]

-----------------------------------------------------------------------------
(* The execution tab: counters by state and by device, the CPU panel.      *)

(* Mutant: whoever waits for memory out of RAM is not counted as ready.    *)
CountersOfResidents ==
    [TOTAL |-> Len(Processes), NUEVOS |-> Count(LAMBDA r : r.state = "NEW"),
     LISTOS |-> Count(LAMBDA r : r.state = "READY" /\ r.resident),
     EJECUTANDO |-> Count(LAMBDA r : r.state = "RUNNING"),
     BLOQUEADOS |-> Count(LAMBDA r : r.state = "BLOCKED"),
     TERMINADOS |-> Count(LAMBDA r : r.state = "TERMINATED")]

Counters ==
    [TOTAL |-> Len(Processes), NUEVOS |-> Count(LAMBDA r : r.state = "NEW"),
     LISTOS |-> Count(LAMBDA r : r.state = "READY"),
     EJECUTANDO |-> Count(LAMBDA r : r.state = "RUNNING"),
     BLOQUEADOS |-> Count(LAMBDA r : r.state = "BLOCKED"),
     TERMINADOS |-> Count(LAMBDA r : r.state = "TERMINATED")]

DeviceCounters ==
    [d \in Devices |-> Count(LAMBDA r : r.state = "BLOCKED" /\ r.io_device = d)]

(* The process of the CPU panel: the running one if it is in the list.     *)
OnCpuPanel ==
    IF running = NULL THEN NULL
    ELSE IF running \in PidsOf(DOMAIN Processes) THEN running ELSE NULL

(* Averages as pairs of a sum and a count: the fallback of the reducer     *)
(* takes them over the rows that ended, the C program over finished_q.     *)
BuiltStats ==
    LET ended == RowsWhere(LAMBDA r : r.state = "TERMINATED")
    IN  [ready |-> <<SumFunction([i \in ended |-> Processes[i].ready]),
                     Cardinality(ended)>>,
         throughput |-> <<Cardinality(ended), current_time>>]
SentStats ==
    [ready |-> <<SumFunction([i \in DOMAIN finished_q |-> sched[finished_q[i]].ready]),
                 Len(finished_q)>>,
     throughput |-> <<stats.completed, current_time>>]

-----------------------------------------------------------------------------
(* Memory, three times: the statistics tab, the history that the reducer   *)
(* keeps and the samples of the comparison tool.                           *)

(* send_memory: the free blocks of the list, and the free total.           *)
FreeLengths == {h.length : h \in Holes(cells)}
FreeHoles == Cardinality(Holes(cells))
LargestFree == IF FreeLengths = {} THEN 0 ELSE Max(FreeLengths)
FreeBlocks == Cardinality(OwnedBy(cells, NULL))
AllBlocks == TOTAL_BLOCKS + OS_BLOCKS
UserBlocks == NonNegative(AllBlocks - OS_BLOCKS)

(* (free - largest) / free, and 0 when nothing is free.                    *)
Fragmentation == <<FreeBlocks - LargestFree, FreeBlocks>>

InRam(p) == resident[p] /\ state[p] # "TERMINATED"
AssignedTo(S) == SumFunction([p \in S |-> profile[p].blocks])

(* _fill_memory_metrics: rows that are resident and have not ended.        *)
MemoryMetrics ==
    LET rows == PidsOf(RowsWhere(LAMBDA r : r.resident /\ r.state # "TERMINATED"))
    IN  [used_user |-> NonNegative(UserBlocks - FreeBlocks),
         used |-> NonNegative(AllBlocks - FreeBlocks),
         fragmentation |-> Fragmentation, free_holes |-> FreeHoles,
         assigned |-> AssignedTo(rows), residents |-> Cardinality(rows),
         nonresidents |-> Len(nonresident_q)]

(* Mutant: the reserve of the operating system counts as used by users.    *)
SampleWithReserve ==
    LET pcbs == {p \in Range(table) : InRam(p)}
    IN  [used_user |-> NonNegative(AllBlocks - FreeBlocks),
         used |-> NonNegative(AllBlocks - FreeBlocks),
         fragmentation |-> Fragmentation, free_holes |-> FreeHoles,
         assigned |-> AssignedTo(pcbs), residents |-> Cardinality(pcbs)]

(* _append_memory_history.                                                 *)
HistorySample ==
    LET pcbs == {p \in Range(table) : InRam(p)}
    IN  [used_user |-> NonNegative(UserBlocks - FreeBlocks),
         used |-> NonNegative(AllBlocks - FreeBlocks),
         fragmentation |-> Fragmentation, free_holes |-> FreeHoles,
         assigned |-> AssignedTo(pcbs), residents |-> Cardinality(pcbs)]

(* summarize_memory: it relies on a process that ended being out of RAM.   *)
ToolSample ==
    LET pcbs == {p \in Range(table) : resident[p]}
    IN  [used |-> NonNegative(AllBlocks - FreeBlocks),
         fragmentation |-> Fragmentation, free_holes |-> FreeHoles,
         assigned |-> AssignedTo(pcbs), residents |-> Cardinality(pcbs)]

(* _build_memory_map: the owner of each block is a row of the lists, with  *)
(* its name and colour, and a block without one is shown as Libre.         *)
MemoryMapOwners == {cells[b] : b \in Blocks} \ {NULL}

-----------------------------------------------------------------------------
(* The properties: what a reader may conclude from any snapshot.           *)

Snapshot == pc = "idle"

ArrivedRows == {p \in Range(table) : state[p] # "NONE"}
CardsOf(p) ==
    {card \in (DOMAIN Columns) \X (DOMAIN table) :
        /\ card[2] =< Len(Columns[card[1]])
        /\ Columns[card[1]][card[2]] = p}

(* The queues tab has one card for each process that arrived, none for one *)
(* that did not, and none while a context switch loads it; a card never    *)
(* lies in the column of another state, and no guess by state is needed.   *)
OneCardEach == Snapshot =>
    /\ \A p \in Range(table) :
          Cardinality(CardsOf(p)) = IF p \in ArrivedRows \ {next_pcb} THEN 1 ELSE 0
    /\ \A p \in Range(Columns.running) : state[p] = "RUNNING" /\ p = running
    /\ \A p \in Range(Columns.ready) : resident[p]
    /\ Columns.blocked = DeviceCards /\ Columns.finished = finished_q

(* The counters of the execution tab, taken from the rows, agree with the  *)
(* lengths of the columns, with the statistics of the C program and with   *)
(* the CPU panel.                                                          *)
PanelsAgree == Snapshot =>
    LET switching == IF next_pcb = NULL THEN 0 ELSE 1
    IN  /\ Counters.NUEVOS = Len(Columns.job)
        /\ Counters.LISTOS = Len(Columns.ready) + Len(Columns.nonresident) + switching
        /\ Counters.EJECUTANDO = IF OnCpuPanel = NULL THEN 0 ELSE 1
        /\ Counters.BLOQUEADOS = Len(Columns.blocked)
        /\ Counters.BLOQUEADOS = SumFunction(DeviceCounters)
        /\ Counters.TERMINADOS = stats.completed
        /\ stats.errors = Cardinality({p \in Procs : failed[p]})
        /\ BuiltStats = SentStats
        /\ \A p \in Range(table) :
              /\ Progress(p)[1] = Progress(p)[2] => state[p] = "TERMINATED"
              /\ state[p] = "TERMINATED" /\ ~failed[p] => Progress(p)[1] = Progress(p)[2]

(* The statistics tab, the memory history and the comparison tool give the *)
(* same figures for the same snapshot; what the block list calls used is   *)
(* what the processes in RAM were assigned, and who is out of RAM is       *)
(* waiting in a queue or for a device.  Every process swapped out is       *)
(* swapped in again, is still out, or was cancelled while it was out.      *)
MemoryFiguresAgree == Snapshot =>
    LET m == MemoryMetrics
        h == HistorySample
        t == ToolSample
        out == {p \in Range(table) : state[p] = "BLOCKED" /\ ~resident[p]}
        cancelled == {p \in Range(table) : failed[p] /\ io[p].completed}
    IN  /\ \A f \in DOMAIN h : h[f] = m[f]
        /\ \A f \in DOMAIN t : t[f] = h[f]
        /\ h.used_user = h.assigned /\ h.used = h.assigned + OS_BLOCKS
        /\ h.fragmentation[1] = 0 <=> h.free_holes =< 1
        /\ Cardinality(MemoryMapOwners) = h.residents
        /\ \A p \in MemoryMapOwners : p \in PidsOf(DOMAIN Processes)
        /\ Cardinality(ArrivedRows)
              = m.residents + m.nonresidents + Cardinality(out)
                + Len(job_q) + Len(finished_q)
        /\ stats.swap_out - stats.swap_in - Len(nonresident_q) - Cardinality(out)
              \in 0 .. Cardinality(cancelled)
=============================================================================
