------------------------------ MODULE Context ------------------------------
(***************************************************************************)
(* The context of the CPU and the segments it points into, on top of the   *)
(* kernel: every action of Kernel that loads, evicts, dispatches, runs or  *)
(* stops a process, with what it does to the registers, to the copy of     *)
(* them in the PCB and to the segments.                                    *)
(***************************************************************************)
EXTENDS KernelProperties, Segments

CONSTANT Shares         \* percentages of TEXT, DATA and dynamic memory

ASSUME ContextAssumption ==
    /\ Shares \in [Procs -> Share]
    /\ NULL \notin [SegmentType -> Segment]     \* no segments: not some of them

VARIABLES
    cpu_ctx,            \* registers of the CPU
    saved,              \* cpu_ctx of each PCB
    segments            \* segments of each PCB, NULL when it has none

contextVars == <<cpu_ctx, saved, segments>>

ContextInit ==
    /\ Init
    /\ cpu_ctx = [program_counter |-> 0, stack_pointer |-> 0,
                  pc_offset |-> 0, sp_offset |-> 0]
    /\ saved = [p \in Procs |-> [cpu_ctx EXCEPT !.stack_pointer = -1]]
    /\ segments = [p \in Procs |-> NULL]

-----------------------------------------------------------------------------
(* Mutant: the program counter is not moved with the memory.               *)
AddressesOfStack(c, s) ==
    [c EXCEPT !.stack_pointer = s.STACK.limit - c.sp_offset]

(* memory_restore_cpu_addresses: from the offsets, where p is now.         *)
Addresses(c, s) ==
    [c EXCEPT !.program_counter = s.TEXT.start + c.pc_offset,
              !.stack_pointer = s.STACK.limit - c.sp_offset]

(* memory_save_cpu_offsets: from the addresses, before p moves.            *)
Offsets(c, s) ==
    [c EXCEPT !.pc_offset = IF c.program_counter < 0 THEN @
                            ELSE AtLeast(0, c.program_counter - s.TEXT.start),
              !.sp_offset = IF c.stack_pointer < 0 THEN @
                            ELSE AtLeast(0, s.STACK.limit - c.stack_pointer)]

(* allocate_block: new segments, where kmalloc has just placed p.          *)
Load(p) ==
    /\ segments' = [segments EXCEPT ![p] =
          Layout(Min(OwnedBy(cells', p)), profile[p].blocks, Shares[p])]
    /\ saved' = [saved EXCEPT ![p] = Addresses(@, segments'[p])]
    /\ UNCHANGED cpu_ctx

(* kfree: offsets of the context c are saved, the segments s given up.  A  *)
(* process without memory keeps what it has.                               *)
Unload(p, c, s) ==
    /\ segments' = [segments EXCEPT ![p] = NULL]
    /\ saved' = [saved EXCEPT ![p] = IF s = NULL THEN c ELSE Offsets(c, s)]

(* dispatch_restore_ctx and dispatch_save_ctx.                             *)
Restore(p) ==
    /\ saved' = [saved EXCEPT ![p] = Addresses(@, segments[p])]
    /\ cpu_ctx' = saved'[p]
    /\ UNCHANGED segments

Save(p, registers, s) == saved' = [saved EXCEPT ![p] = Offsets(registers, s)]
-----------------------------------------------------------------------------
Loads ==
    \/ SwapIn /\ Load(Head(todo))
    \/ Admit /\ Load(Head(todo))

Evicts ==
    /\ SwapOut
    /\ \E p \in Procs : /\ resident[p] /\ ~resident'[p]
                        /\ Unload(p, saved[p], segments[p])
    /\ UNCHANGED cpu_ctx

CancelsRequest ==
    /\ KeyboardCancel
    /\ Unload(Requester, saved[Requester], segments[Requester])
    /\ UNCHANGED cpu_ctx

Dispatches ==
    \/ SelectNext /\ running' # NULL /\ Restore(running')
    \/ SwitchDone /\ Restore(running')

Preempts ==
    /\ Preempt
    /\ Save(running, cpu_ctx, segments[running])
    /\ UNCHANGED <<cpu_ctx, segments>>

(* The start of tick_running_process: one instruction, and growth.         *)
Advanced ==
    [cpu_ctx EXCEPT !.program_counter = @ + 1, !.pc_offset = @ + 1]

GrownSegments ==
    Grown(segments[running], Ran[running].cpu, profile[running].burst)

(* memory_grow_heap and memory_grow_stack change the PCB of the running    *)
(* process, not the registers.                                             *)
GrownContext ==
    LET old == segments[running]
        grown == saved[running].sp_offset
                 + old.STACK.start - GrownSegments.STACK.start
    IN  IF GrownSegments = old THEN saved[running]
        ELSE Addresses([saved[running] EXCEPT !.sp_offset = grown], GrownSegments)

RunsOn ==
    /\ CpuContinue
    /\ saved' = [saved EXCEPT ![running] = GrownContext]
    /\ segments' = [segments EXCEPT ![running] = GrownSegments]

LeavesCpu ==
    /\ CpuBlock \/ CpuQuantum
    /\ Save(running, Advanced, GrownSegments)
    /\ segments' = [segments EXCEPT ![running] = GrownSegments]

EndsOnCpu ==
    /\ CpuFail \/ CpuTerminate
    /\ Unload(running, Offsets(Advanced, GrownSegments), GrownSegments)

Runs == (RunsOn \/ LeavesCpu \/ EndsOnCpu) /\ cpu_ctx' = Advanced

(* What happens in the kernel without touching a context.                  *)
Elsewhere ==
    /\ \/ Arrival \/ SkipSwapIn \/ MidTermDone
       \/ Reject \/ SkipJob \/ JobDone
       \/ KeepRunning \/ StopSimulation \/ EndTick
       \/ SelectNext /\ running' = NULL
       \/ SwitchTick \/ IdleTick \/ RunTick
       \/ DeviceWorks \/ IoComplete \/ TickDone \/ Stopped
    /\ UNCHANGED contextVars

ContextNext ==
    \/ Loads \/ Evicts \/ CancelsRequest \/ Dispatches \/ Preempts \/ Runs
    \/ Elsewhere

ContextSpec == ContextInit /\ [][ContextNext]_<<vars, contextVars>>

(* main keeps calling main_loop, and each call runs to its end.            *)
ContextFairSpec == ContextSpec /\ WF_vars(Next)
-----------------------------------------------------------------------------
(* A process goes on where it stopped, wherever it is loaded by then and   *)
(* whoever used the registers meanwhile: its program counter is as many    *)
(* instructions from the start of its TEXT as it has had ticks of the CPU. *)
(* Nothing keeps it before the end of TEXT, which the code never tests.    *)
ResumesWhereItStopped ==
    \A p \in Procs :
        LET c == IF p = running THEN cpu_ctx ELSE saved[p]
        IN  /\ c.pc_offset * TICK = sched[p].cpu
            /\ resident[p] =>
                  c.program_counter = segments[p].TEXT.start + c.pc_offset

(* The shares leave at least two blocks for HEAP and STACK.                *)
Even(p) ==
    LET n == InitialSizes(profile[p].blocks, Shares[p])
    IN  n.TEXT + n.DATA + n.BSS + n.HEAP + n.STACK =< profile[p].blocks

StackGrew(p) ==
    Size(segments[p].STACK) > InitialSizes(profile[p].blocks, Shares[p]).STACK

(* What simulator.h:100 says of the stack pointer, "Direccion fisica       *)
(* dentro de STACK", of the context that the PCB keeps while its process   *)
(* is not on the CPU: once STACK has grown in memory_grow_stack, which     *)
(* moves the stack pointer with it, it is an address inside STACK.  Before *)
(* that, an empty STACK may have its pointer at its limit.                 *)
StackPointerInStack ==
    \A p \in Procs \ {running} :
        resident[p] /\ Even(p) /\ StackGrew(p) =>
            saved[p].stack_pointer
                \in segments[p].STACK.start .. segments[p].STACK.limit - 1

(* The segments of a process are inside the blocks it owns and do not      *)
(* overlap, however much they grew and however often it was moved; so no   *)
(* segment of a process shares a block with any other process.  They exist *)
(* exactly as long as the process is in memory.                            *)
SegmentsInOwnMemory ==
    \A p \in Procs :
        /\ resident[p] <=> segments[p] # NULL
        /\ resident[p] /\ Even(p) =>
            LET s == segments[p]
                blocksOf(type) == s[type].start .. s[type].limit - 1
            IN  /\ \A type \in SegmentType : Size(s[type]) >= 0
                /\ \A type \in SegmentType : blocksOf(type) \subseteq OwnedBy(cells, p)
                /\ \A t1, t2 \in SegmentType :
                      t1 # t2 => blocksOf(t1) \cap blocksOf(t2) = {}

(* HEAP and STACK have what the progress of the process calls for as soon  *)
(* as it has run a tick, also if it lost all growth in a swap, and share   *)
(* it evenly.                                                              *)
DynamicMemoryFollowsProgress ==
    pc = "mid3" /\ running # NULL =>
        LET s == segments[running]
        IN  Even(running) =>
               /\ Used(s) >= Target(s, sched[running].cpu, profile[running].burst)
               /\ profile[running].blocks >= Cardinality(SegmentType) =>
                     Size(s.HEAP) - Size(s.STACK) \in -1 .. 1

(* Growth at once is what the loop of the code does, also for a process    *)
(* that lost several blocks in a swap or has no room between the two.      *)
GrowthIsTheLoop ==
    pc = "cpu" =>
        GrownSegments =
            GrownByLoop(segments[running], Ran[running].cpu, profile[running].burst)

(* The segments of a process in memory, however often it was moved: where  *)
(* they are and how large.                                                 *)
SegmentsFollowProcess ==
    SegmentsInOwnMemory /\ DynamicMemoryFollowsProgress /\ GrowthIsTheLoop
=============================================================================
