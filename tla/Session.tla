------------------------------ MODULE Session -------------------------------
(***************************************************************************)
(* The simulator as its user meets it: commands that main reads from its   *)
(* input between two calls of main_loop (src/simulator/simulator_main.c,   *)
(* input.c), and the snapshots it sends.  Processes are created, and the   *)
(* configuration is changed, while others are in flight.                   *)
(*                                                                         *)
(* A command whose arguments are not valid is only logged: it is a         *)
(* stuttering step.  The workload is drawn in advance, as in Kernel; a row *)
(* of Table is the next process that a command creates.                    *)
(***************************************************************************)
EXTENDS KernelProperties

CONSTANTS
    Asked,                    \* arguments of the SET_ commands
    TEST_COUNT,                 \* processes that TEST creates
    MIN_RANDOM_IO_REQUESTS,     \* requests that RANDOM sees to
    MAX_CHANGES,                \* bound: commands that change the configuration
    IDLE_LIMIT                  \* bound: clock of a simulation without processes

ASSUME SessionAssumption ==
    /\ Asked \subseteq Settings
    /\ TEST_COUNT \in Nat \ {0}
    /\ MIN_RANDOM_IO_REQUESTS \in Nat
    /\ MAX_CHANGES \in Nat
    /\ IDLE_LIMIT \in Nat

VARIABLES
    closed,             \* whoever writes commands has closed the pipe
    fresh,              \* the last snapshot shows the present state
    changes             \* commands that changed the configuration so far

session == <<closed, fresh, changes>>
allVars == <<vars, session>>

(* simulator_init and the snapshot main sends first.                       *)
SessionInit ==
    /\ Initially(<<>>, "PAUSE")
    /\ closed = FALSE /\ fresh = TRUE /\ changes = 0

-----------------------------------------------------------------------------
(* main reads commands between two ticks, and none after STOP.             *)

(* Mutant: the commands that follow STOP in the pipe are read, too.        *)
ReadsOn == pc = "idle" /\ ~closed

Reads == pc = "idle" /\ ~closed /\ sim_state # "STOP"

(* send_data(s, true): a snapshot at once, whenever the last one was sent. *)
Forced == fresh' = TRUE /\ UNCHANGED closed

(* Mutant: the snapshot may be held back by the limit on their rate.       *)
EnterQuietly(st) ==
    /\ Reads
    /\ sim_state' = st
    /\ fresh' \in BOOLEAN
    /\ UNCHANGED <<walk, current_time, setup, pcb, queues, cpu, memory, stats,
                   closed, changes>>

(* RUN, PAUSE and STOP                                                     *)
Enter(st) ==
    /\ Reads
    /\ sim_state' = st
    /\ Forced
    /\ UNCHANGED <<walk, current_time, setup, pcb, queues, cpu, memory, stats,
                   changes>>

RunCommand == Enter("RUN")
PauseCommand == Enter("PAUSE")
StopCommand == Enter("STOP")

(* SPEED, SET_SPEED and SET_SEED touch nothing that the kernel decides on. *)
Refresh ==
    /\ Reads
    /\ Forced
    /\ UNCHANGED <<vars, changes>>

-----------------------------------------------------------------------------
(* Configuration.                                                          *)

Configure(new) ==
    /\ Reads
    /\ changes < MAX_CHANGES
    /\ config' = new
    /\ changes' = changes + 1
    /\ Forced
    /\ UNCHANGED <<walk, clock, table, profile, pcb, queues, cpu, memory, stats>>

SetConfig == \E c \in Asked : ValidConfig(c) /\ Configure(c)

(* Mutant: Round Robin is accepted with whatever quantum there is.         *)
SetAlgSchedUnchecked ==
    \E c \in Asked : Configure([config EXCEPT !.alg_sched = c.alg_sched])

SetAlgSched ==
    \E c \in Asked :
        LET new == [config EXCEPT !.alg_sched = c.alg_sched]
        IN  ValidConfig(new) /\ Configure(new)

SetAlgMem ==
    \E c \in Asked : Configure([config EXCEPT !.alg_memory = c.alg_memory])

SetQuantum ==
    \E c \in Asked :
        c.quantum > 0 /\ Configure([config EXCEPT !.quantum = c.quantum])

SetSwitchCost ==
    \E c \in Asked : Configure([config EXCEPT !.switch_cost = c.switch_cost])

-----------------------------------------------------------------------------
(* Creation of processes.                                                  *)

NextRows(n) == SubSeq(Table, Len(table) + 1, Len(table) + n)

(* create_user_pcb and process_table_add, for each of the next n rows:     *)
(* a process starts with the quantum of the moment it is created.          *)
Create(n, workload) ==
    LET new == Range(NextRows(n))
    IN  /\ Reads
        /\ Len(table) + n =< Len(Table)
        /\ table' = table \o NextRows(n)
        /\ profile' = workload
        /\ sched' = [p \in Procs |->
              IF p \in new THEN [sched[p] EXCEPT !.quantum = config.quantum]
              ELSE sched[p]]
        /\ io' = [p \in Procs |->
              IF p \in new /\ workload[p].has_io
              THEN [io[p] EXCEPT !.remaining = workload[p].io_duration]
              ELSE io[p]]
        /\ Forced
        /\ UNCHANGED <<walk, clock, config, state, failed, queues, cpu, memory,
                       stats, changes>>

Add == Create(1, profile)
Test == Create(TEST_COUNT, profile)

(* create_random_processes: a process that drew no request gets one when   *)
(* those still owed would not fit in the processes that are left.          *)
Asking(rows) ==
    LET n == Len(rows)
        target == Min({n, MIN_RANDOM_IO_REQUESTS})
        Asks(i, owed) == profile[rows[i]].has_io \/ owed >= n - i + 1
        count[i \in 0 .. n] ==
            IF i = 0 THEN 0
            ELSE count[i - 1] + IF Asks(i, target - count[i - 1]) THEN 1 ELSE 0
    IN  {rows[i] : i \in {i \in 1 .. n : Asks(i, target - count[i - 1])}}

WithRequests(rows) ==
    [p \in Procs |-> [profile[p] EXCEPT !.has_io = @ \/ p \in Asking(rows)]]

Random(n) == Create(n, WithRequests(NextRows(n)))

-----------------------------------------------------------------------------
(* The loop of main.                                                       *)

(* Without processes simulation_finished is never true and time goes by    *)
(* for ever; the model stops the clock there.                              *)
Capped == pc = "idle" /\ sim_state = "RUN" /\ table = <<>>
          /\ current_time >= IDLE_LIMIT

Idles == Capped /\ UNCHANGED allVars

(* A call of main_loop ends with a snapshot: forced if the simulation is   *)
(* over, else sent only if the last one is old enough.                     *)
Tick ==
    /\ ~Capped
    /\ Arrival \/ Swapper \/ Admission \/ Decision \/ Device \/ Cpu
    /\ fresh' \in IF pc' # "idle" THEN {FALSE}
                  ELSE IF sim_state' = "STOP" THEN {TRUE} ELSE BOOLEAN
    /\ UNCHANGED <<closed, changes>>

(* The other end of the pipe.                                              *)
CloseInput ==
    /\ pc = "idle" /\ ~closed /\ sim_state # "STOP"
    /\ closed' = TRUE
    /\ UNCHANGED <<vars, fresh, changes>>

(* Mutant: main goes round and round once there are processes.             *)
EndOfInputIfEmpty ==
    /\ pc = "idle" /\ closed /\ sim_state = "PAUSE"
    /\ sim_state' = IF table = <<>> THEN "STOP" ELSE sim_state
    /\ fresh' = (fresh /\ table # <<>>)
    /\ UNCHANGED <<walk, current_time, setup, pcb, queues, cpu, memory, stats,
                   closed, changes>>

(* fgets fails: nobody can send RUN any more, and no snapshot is sent.     *)
EndOfInput ==
    /\ pc = "idle" /\ closed /\ sim_state = "PAUSE"
    /\ sim_state' = "STOP"
    /\ fresh' = FALSE
    /\ UNCHANGED <<walk, current_time, setup, pcb, queues, cpu, memory, stats,
                   closed, changes>>

Over == Stopped /\ UNCHANGED session

Commands ==
    \/ RunCommand \/ PauseCommand \/ StopCommand \/ Refresh
    \/ SetConfig \/ SetAlgSched \/ SetAlgMem \/ SetQuantum \/ SetSwitchCost
    \/ Add \/ Test \/ \E n \in 1 .. Len(Table) : Random(n)

SessionNext == Commands \/ Tick \/ Idles \/ CloseInput \/ EndOfInput \/ Over

SessionSpec == SessionInit /\ [][SessionNext]_allVars

(* Commands that never cease may keep main from ticking; once the pipe is  *)
(* closed nothing does.                                                    *)
SessionFairSpec ==
    SessionSpec /\ WF_allVars(closed /\ Tick) /\ WF_allVars(EndOfInput)

-----------------------------------------------------------------------------
(* Properties.                                                             *)

(* What the GUI shows while the simulation stands still is the truth: the  *)
(* rate limit may drop the snapshot of any tick, but not that of a command *)
(* or of the end.  Only the end of the input stops the program unseen.     *)
QuietIsShown ==
    pc = "idle" => \/ sim_state = "RUN" \/ fresh
                   \/ sim_state = "STOP" /\ closed

(* STOP is final: a RUN or an ADD that is already in the pipe behind it,   *)
(* or behind the end of the simulation, changes nothing any more.          *)
StopIsFinal == [][sim_state = "STOP" => UNCHANGED vars]_allVars

(* Whatever sequence of SET_ commands came before, and whatever quantum    *)
(* the process was created with, Round Robin gives the CPU for some time.  *)
DispatchedWithQuantum ==
    [][running' \notin {running, NULL} /\ config.alg_sched = "ROUND"
          => sched'[running'].quantum > 0]_allVars

(* main_loop ends the simulation by itself only when every process that    *)
(* any command created has ended, those with a late arrival included.      *)
EndsWhenAllEnded ==
    [][pc # "idle" /\ sim_state' = "STOP"
          => \A p \in Range(table) : state[p] = "TERMINATED"]_allVars

(* Once the pipe is closed the program ends, whatever was changed in the   *)
(* middle of the simulation, unless it was told to run without processes.  *)
ClosedInputEnds ==
    closed /\ (sim_state = "PAUSE" \/ table # <<>>) ~> sim_state = "STOP"
=============================================================================
