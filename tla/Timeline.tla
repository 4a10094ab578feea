------------------------------ MODULE Timeline ------------------------------
(***************************************************************************)
(* The two records the kernel keeps of its past for the GUI: the Gantt     *)
(* chart, and the interrupts of each process with their counters.  Every   *)
(* action of Kernel that advances the clock or raises an interrupt, with   *)
(* what it writes down.                                                    *)
(***************************************************************************)
EXTENDS KernelProperties

CONSTANTS
    Targets,                    \* periodic interrupts of each process
    MAX_INTERRUPT_HISTORY       \* events a process keeps

ASSUME TimelineAssumption ==
    /\ Targets \in [Procs -> Nat]
    /\ MAX_INTERRUPT_HISTORY \in Nat \ {0}

VARIABLES
    gantt,              \* intervals of the chart, oldest first
    interrupt,          \* InterruptData of each process
    interrupt_count

timelineVars == <<gantt, interrupt, interrupt_count>>

PeriodicType == {"HW_TIMER", "SW_SYSCALL"}
ExceptionType == {"EXC_DIV_ZERO", "EXC_MEM"}
IntType == PeriodicType \cup ExceptionType \cup {"IO_REQUEST", "IO_COMPLETE"}

TimelineInit ==
    /\ Init
    /\ gantt = <<>>
    /\ interrupt = [p \in Procs |->
          [history |-> <<>>, total |-> 0, by_type |-> [t \in IntType |-> 0],
           periodic_done |-> 0]]
    /\ interrupt_count = 0

-----------------------------------------------------------------------------
(* Mutant: intervals of different processes grow together.                 *)
DrawByType(type, owner, d) ==
    gantt' = IF gantt # <<>> /\ Last(gantt).type = type
             THEN [gantt EXCEPT ![Len(gantt)].limit = @ + d]
             ELSE Append(gantt, [type |-> type, owner |-> owner,
                                 start |-> current_time, limit |-> current_time + d])

(* update_gantt_interval: the last interval grows if it is of the same     *)
(* kind and owner, otherwise a new one begins.                             *)
Draw(type, owner, d) ==
    gantt' = IF gantt # <<>> /\ Last(gantt).type = type /\ Last(gantt).owner = owner
             THEN [gantt EXCEPT ![Len(gantt)].limit = @ + d]
             ELSE Append(gantt, [type |-> type, owner |-> owner,
                                 start |-> current_time, limit |-> current_time + d])

Draws ==
    /\ \/ SwitchTick /\ Draw("CONTEXT_SWITCH", NULL, SwitchShare)
       \/ IdleTick /\ Draw("IDLE", NULL, TICK)
       \/ RunTick /\ Draw("PROCESS", running, TICK)
    /\ UNCHANGED <<interrupt, interrupt_count>>

-----------------------------------------------------------------------------
(* The ring of a process: its last MAX_INTERRUPT_HISTORY events.           *)
Kept(events) ==
    SubSeq(events, Len(events) - Min({Len(events), MAX_INTERRUPT_HISTORY}) + 1,
           Len(events))

Raised(type, fatal) == [type |-> type, fatal |-> fatal, time |-> current_time]

(* record_interrupt                                                        *)
Recorded(data, event) ==
    [data EXCEPT !.history = Kept(Append(@, event)),
                 !.total = @ + 1,
                 !.by_type[event.type] = @ + 1]

(* Several of them, in their order.                                        *)
AllRecorded(data, events) == FoldLeft(Recorded, data, events)

(* The interrupts of p in one step: first its periodic ones, then others.  *)
Record(p, periodic, others) ==
    /\ LET new == AllRecorded(interrupt[p], periodic \o others)
       IN  interrupt' = [interrupt EXCEPT
               ![p] = [new EXCEPT !.periodic_done = @ + Len(periodic)]]
    /\ interrupt_count' = interrupt_count + Len(periodic \o others)
    /\ UNCHANGED gantt

(* Mutant: the last periodic interrupt is due with the end of the burst.   *)
DueLate(p, executed) ==
    Min({Targets[p], (executed * Targets[p]) \div profile[p].burst})

(* Interrupts due when p has executed so long: they divide its burst into  *)
(* equal parts, without one at its end.                                    *)
Due(p, executed) ==
    Min({Targets[p], (executed * (Targets[p] + 1)) \div profile[p].burst})

(* cancel_by_keyboard reports the same interrupt, but a fatal one.         *)
Completions ==
    \/ IoComplete /\ Record(Requester, <<>>, <<Raised("IO_COMPLETE", FALSE)>>)
    \/ KeyboardCancel /\ Record(Requester, <<>>, <<Raised("IO_COMPLETE", TRUE)>>)

(* tick_running_process: the periodic interrupts now due, of either kind,  *)
(* and the one its outcome raises.                                         *)
Outcome(others) ==
    LET due == Due(running, Ran[running].cpu) - interrupt[running].periodic_done
    IN  \E kinds \in [1 .. due -> PeriodicType] :
            Record(running, [i \in 1 .. due |-> Raised(kinds[i], FALSE)], others)

CpuInterrupts ==
    \/ CpuFail /\ \E type \in ExceptionType : Outcome(<<Raised(type, TRUE)>>)
    \/ CpuTerminate /\ Outcome(<<>>)
    \/ CpuBlock /\ Outcome(<<Raised("IO_REQUEST", FALSE)>>)
    \/ CpuQuantum /\ Outcome(<<Raised("HW_TIMER", FALSE)>>)
    \/ CpuContinue /\ Outcome(<<>>)

(* What happens in the kernel without being written down.                  *)
Unrecorded ==
    /\ \/ Arrival \/ Swapper \/ Admission \/ Stopped
       \/ Preempt \/ KeepRunning \/ StopSimulation \/ EndTick \/ SelectNext
       \/ DeviceWorks \/ SwitchDone \/ TickDone
    /\ UNCHANGED timelineVars

TimelineNext == Draws \/ Completions \/ CpuInterrupts \/ Unrecorded

TimelineSpec == TimelineInit /\ [][TimelineNext]_<<vars, timelineVars>>
-----------------------------------------------------------------------------
Lengths(type, owner) ==
    SumFunction([i \in DOMAIN gantt |->
        IF gantt[i].type = type /\ gantt[i].owner = owner
        THEN gantt[i].limit - gantt[i].start ELSE 0])

(* The chart has neither gaps nor overlaps, from the start to now,         *)
(* although every tick writes its end before the clock advances, and ticks *)
(* are not all of the same length.                                         *)
GanttTilesTime ==
    /\ gantt = <<>> => current_time = 0
    /\ \A i \in DOMAIN gantt :
          /\ gantt[i].start = IF i = 1 THEN 0 ELSE gantt[i - 1].limit
          /\ gantt[i].start < gantt[i].limit
    /\ gantt # <<>> => Last(gantt).limit = current_time

(* The chart and the accumulated times tell the same story: the intervals  *)
(* of a process add up to its CPU time, the others to the idle and switch  *)
(* times.  No switch that is over is drawn in part: an interval lasts the  *)
(* cost of one switch, or of several when the process that was dispatched  *)
(* was preempted before it had run.                                        *)
GanttAgreesWithTimes ==
    /\ GanttTilesTime
    /\ \A p \in Procs :
          Lengths("PROCESS", p) = sched[p].cpu
              + IF pc \in {"bg_run", "cpu"} /\ p = running THEN TICK ELSE 0
    /\ Lengths("IDLE", NULL) = stats.idle_time
    /\ Lengths("CONTEXT_SWITCH", NULL) = stats.switch_time
    /\ \A i \in DOMAIN gantt :
          gantt[i].type = "CONTEXT_SWITCH" /\ (i < Len(gantt) \/ next_pcb = NULL)
              => (gantt[i].limit - gantt[i].start) % config.switch_cost = 0

(* The counters go on when the ring is full, and the ring has the latest   *)
(* events in the order of their times.                                     *)
CountersOutliveRing ==
    /\ interrupt_count = SumFunction([p \in Procs |-> interrupt[p].total])
    /\ \A p \in Procs :
          LET h == interrupt[p].history
          IN  /\ interrupt[p].total = SumFunction(interrupt[p].by_type)
              /\ Len(h) = Min({interrupt[p].total, MAX_INTERRUPT_HISTORY})
              /\ \A i, j \in DOMAIN h : i < j => h[i].time =< h[j].time

(* A process gets the periodic interrupts its progress calls for, none     *)
(* twice and none lost to a preemption or a swap: all of them if it ends   *)
(* well, however long its last tick.                                       *)
PeriodicInterruptsDelivered ==
    \A p \in Procs :
        LET done == interrupt[p].periodic_done
        IN  /\ done * profile[p].burst =< sched[p].cpu * (Targets[p] + 1)
            /\ done < Targets[p] =>
                  (done + 1) * profile[p].burst > sched[p].cpu * (Targets[p] + 1)
            /\ state[p] = "TERMINATED" /\ ~failed[p] => done = Targets[p]

(* The interrupts of a process tell its story: a request and a completion  *)
(* exactly if it made one and got it, and a fatal one exactly if it ended  *)
(* with an error (after it was admitted), as the last it ever raised.  The *)
(* counters tell it to the end although the ring forgets its beginning,    *)
(* and none of the periodic ones was lost on the way.                      *)
InterruptsTellTheStory ==
    /\ CountersOutliveRing /\ PeriodicInterruptsDelivered
    /\ \A p \in Procs :
           LET h == interrupt[p].history
               count == interrupt[p].by_type
           IN  /\ count["IO_REQUEST"] = IF io[p].started THEN 1 ELSE 0
               /\ count["IO_COMPLETE"] = IF io[p].completed THEN 1 ELSE 0
               /\ failed[p] /\ ~Oversized(p) <=> h # <<>> /\ Last(h).fatal
               /\ \A i \in 1 .. Len(h) - 1 : ~h[i].fatal
=============================================================================
