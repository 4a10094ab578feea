----------------------------- MODULE Lifecycle -----------------------------
(***************************************************************************)
(* The life of a process as a user of the simulator knows it: the states   *)
(* of enum ProcessState, whether the process is loaded in memory, how it   *)
(* ended, and the single CPU.  Queues, times and algorithms are left out:  *)
(* they only decide which of these transitions happens when.               *)
(***************************************************************************)
EXTENDS Naturals

CONSTANTS
    Procs,
    Capacity            \* blocks of user memory

VARIABLES
    size,               \* blocks each process needs
    phase,              \* state of each process
    loaded,             \* is it in memory?
    ended               \* how it ended: "no" (not yet), "ok" or "error"

lifeVars == <<size, phase, loaded, ended>>

Init ==
    /\ size \in [Procs -> Nat]
    /\ phase = [p \in Procs |-> "NONE"]
    /\ loaded = [p \in Procs |-> FALSE]
    /\ ended = [p \in Procs |-> "no"]

(* p goes from one state to another, with or without its memory.           *)
Move(p, from, to, inMemory) ==
    /\ phase[p] = from
    /\ phase' = [phase EXCEPT ![p] = to]
    /\ loaded' = [loaded EXCEPT ![p] = inMemory]
    /\ ended' = ended
    /\ size' = size

End(p, from, how) ==
    /\ phase[p] = from
    /\ phase' = [phase EXCEPT ![p] = "TERMINATED"]
    /\ loaded' = [loaded EXCEPT ![p] = FALSE]
    /\ ended' = [ended EXCEPT ![p] = how]
    /\ size' = size

Arrive(p) == Move(p, "NONE", "NEW", FALSE)
Reject(p) == size[p] > Capacity /\ End(p, "NEW", "error")
Admit(p) == size[p] =< Capacity /\ Move(p, "NEW", "READY", TRUE)
Dispatch(p) ==
    /\ loaded[p] /\ \A q \in Procs : phase[q] # "RUNNING"
    /\ Move(p, "READY", "RUNNING", TRUE)
Yield(p) == Move(p, "RUNNING", "READY", TRUE)
Block(p) == Move(p, "RUNNING", "BLOCKED", TRUE)
Wake(p) == Move(p, "BLOCKED", "READY", loaded[p])
Evict(p) == loaded[p] /\ Move(p, "BLOCKED", "BLOCKED", FALSE)
Load(p) == ~loaded[p] /\ Move(p, "READY", "READY", TRUE)
Complete(p) == End(p, "RUNNING", "ok")
Fail(p) == End(p, "RUNNING", "error")
Cancel(p) == End(p, "BLOCKED", "error")

Next ==
    \E p \in Procs :
        \/ Arrive(p) \/ Reject(p) \/ Admit(p) \/ Dispatch(p) \/ Yield(p)
        \/ Block(p) \/ Wake(p) \/ Evict(p) \/ Load(p)
        \/ Complete(p) \/ Fail(p) \/ Cancel(p)

Spec == Init /\ [][Next]_lifeVars
=============================================================================
