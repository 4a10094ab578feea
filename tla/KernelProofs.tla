---------------------------- MODULE KernelProofs ----------------------------
(***************************************************************************)
(* Proofs about the simulated kernel for any number of processes, any      *)
(* workload, configuration, memory size and number of devices: first who   *)
(* is where and who runs; then what it does with time, quanta, bursts,     *)
(* requests of devices, who gets a tick of the CPU and what it is charged; *)
(* then that no block is lost, shared or kept, whatever is admitted,       *)
(* swapped, cancelled or ended.                                            *)
(***************************************************************************)
EXTENDS KernelProperties, SequenceTheorems, FiniteSetTheorems, TLAPS

-----------------------------------------------------------------------------
(* Queues.                                                                 *)

(* Unlinking p from a queue without duplicates leaves the other processes, *)
(* each still once: queue.c, dequeue_pcb.                                  *)
LEMMA DequeueProperties ==
    ASSUME NEW S, NEW q \in Seq(S), NEW p, NoDuplicates(q)
    PROVE  /\ Dequeue(q, p) \in Seq(S)
           /\ NoDuplicates(Dequeue(q, p))
           /\ Range(Dequeue(q, p)) = Range(q) \ {p}
<1>1. CASE p \notin Range(q)
  BY <1>1 DEF Dequeue
<1>2. CASE p \in Range(q)
  <2>1. PICK k \in DOMAIN q : q[k] = p
    BY <1>2 DEF Range
  <2>2. k \in 1 .. Len(q) /\ DOMAIN q = 1 .. Len(q)
    BY <2>1
  <2>3. Dequeue(q, p) = RemoveAt(q, k)
    <3>1. \A i \in DOMAIN q : q[i] = p => i = k
      BY <2>1 DEF NoDuplicates
    <3>2. \A j \in 1 .. k - 1 : q[j] # p
      BY <2>2, <3>1
    <3>3. k = CHOOSE i \in DOMAIN q : q[i] = p /\ \A j \in 1 .. i - 1 : q[j] # p
      BY <2>1, <3>1, <3>2
    <3> QED
      BY <1>2, <3>3 DEF Dequeue
  <2> DEFINE r == RemoveAt(q, k)
  <2>4. /\ r \in Seq(S) /\ Len(r) = Len(q) - 1
        /\ \A i \in 1 .. Len(r) : r[i] = IF i < k THEN q[i] ELSE q[i + 1]
    <3> DEFINE front == SubSeq(q, 1, k - 1)
               back == SubSeq(q, k + 1, Len(q))
    <3>1. /\ front \in Seq(S) /\ Len(front) = k - 1
          /\ \A i \in 1 .. k - 1 : front[i] = q[i]
      BY <2>2
    <3>2. /\ back \in Seq(S) /\ Len(back) = Len(q) - k
          /\ \A i \in 1 .. Len(q) - k : back[i] = q[i + k]
      BY <2>2
    <3>3. r = front \o back
      BY DEF RemoveAt
    <3> HIDE DEF front, back, r
    <3>4. /\ r \in Seq(S) /\ Len(r) = Len(front) + Len(back)
          /\ \A i \in 1 .. Len(r) : r[i] = IF i <= Len(front) THEN front[i]
                                          ELSE back[i - Len(front)]
      <4>1. /\ front \o back \in Seq(S)
            /\ Len(front \o back) = Len(front) + Len(back)
            /\ \A i \in 1 .. Len(front) + Len(back) : (front \o back)[i] =
                  IF i <= Len(front) THEN front[i] ELSE back[i - Len(front)]
        BY <3>1, <3>2, ConcatProperties, Zenon
      <4> QED
        BY <4>1, <3>3, Zenon
    <3>5. ASSUME NEW i \in 1 .. Len(r)
          PROVE  r[i] = IF i < k THEN q[i] ELSE q[i + 1]
      <4>1. CASE i < k
        BY <2>2, <3>1, <3>4, <4>1
      <4>2. CASE i >= k
        <5>1. i - (k - 1) \in 1 .. Len(q) - k /\ (i - (k - 1)) + k = i + 1
          BY <2>2, <3>1, <3>2, <3>4, <4>2
        <5>2. r[i] = back[i - (k - 1)]
          BY <2>2, <3>1, <3>4, <4>2
        <5>3. back[i - (k - 1)] = q[(i - (k - 1)) + k]
          BY <3>2, <5>1
        <5>4. r[i] = q[i + 1] /\ ~(i < k)
          BY <2>2, <4>2, <5>1, <5>2, <5>3
        <5> QED
          BY <5>4
      <4> QED
        BY <2>2, <4>1, <4>2
    <3> QED
      BY <2>2, <3>1, <3>2, <3>4, <3>5
  <2> HIDE DEF r
  <2>5. NoDuplicates(r)
    <3>1. DOMAIN r = 1 .. Len(q) - 1
      BY <2>2, <2>4
    <3>2. ASSUME NEW i \in DOMAIN r, NEW j \in DOMAIN r, r[i] = r[j]
          PROVE  i = j
      <4> DEFINE at(x) == IF x < k THEN x ELSE x + 1
      <4>1. at(i) \in DOMAIN q /\ at(j) \in DOMAIN q
        BY <2>2, <3>1
      <4>2. q[at(i)] = q[at(j)]
        BY <2>4, <3>1, <3>2
      <4>3. at(i) = at(j)
        BY <4>1, <4>2 DEF NoDuplicates
      <4> QED
        BY <2>2, <3>1, <4>3
    <3> QED
      BY <3>2 DEF NoDuplicates
  <2>6. Range(r) = Range(q) \ {p}
    <3>1. DOMAIN r = 1 .. Len(q) - 1
      BY <2>2, <2>4
    <3>2. ASSUME NEW x \in Range(r)
          PROVE  x \in Range(q) /\ x # p
      <4>1. PICK i \in DOMAIN r : x = r[i]
        BY DEF Range
      <4>2. x = q[IF i < k THEN i ELSE i + 1]
        BY <2>4, <3>1, <4>1
      <4>3. (IF i < k THEN i ELSE i + 1) \in DOMAIN q \ {k}
        BY <2>2, <3>1
      <4> QED
        BY <2>1, <4>2, <4>3 DEF Range, NoDuplicates
    <3>3. ASSUME NEW x \in Range(q), x # p
          PROVE  x \in Range(r)
      <4>1. PICK j \in DOMAIN q : x = q[j]
        BY DEF Range
      <4>2. j # k
        BY <2>1, <3>3, <4>1
      <4>3. (IF j < k THEN j ELSE j - 1) \in DOMAIN r
        BY <2>2, <3>1, <4>2
      <4>4. x = r[IF j < k THEN j ELSE j - 1]
        BY <2>2, <2>4, <3>1, <4>1, <4>2
      <4> QED
        BY <4>3, <4>4 DEF Range
    <3> QED
      BY <3>2, <3>3
  <2> QED
    BY <2>3, <2>4, <2>5, <2>6 DEF r
<1> QED
  BY <1>1, <1>2

(* Linking a process that is not in the queue: queue.c, enqueue.           *)
LEMMA EnqueueProperties ==
    ASSUME NEW S, NEW q \in Seq(S), NEW p \in S, NoDuplicates(q), p \notin Range(q)
    PROVE  /\ Append(q, p) \in Seq(S)
           /\ NoDuplicates(Append(q, p))
           /\ Range(Append(q, p)) = Range(q) \cup {p}
  BY DEF NoDuplicates, Range

(* A walk over a queue meets each process once.                            *)
LEMMA WalkProperties ==
    ASSUME NEW S, NEW q \in Seq(S), q # <<>>
    PROVE  /\ Head(q) \in S /\ Head(q) \in Range(q)
           /\ Tail(q) \in Seq(S)
           /\ Range(Tail(q)) \subseteq Range(q)
           /\ NoDuplicates(q) => /\ NoDuplicates(Tail(q))
                                 /\ Head(q) \notin Range(Tail(q))
  BY DEF NoDuplicates, Range

-----------------------------------------------------------------------------
(* Type correctness.                                                       *)

(* TypeOK is not inductive alone: a tick of the CPU, or of a context       *)
(* switch, must still have the process it was started for.                 *)
TickHasOwner ==
    /\ pc \in {"bg_run", "cpu"} => running # NULL
    /\ pc = "bg_switch" => next_pcb # NULL

TypeInv == TypeOK /\ TickHasOwner

(* The walk of job_scheduler meets only processes that are still in job_q. *)
WalkStaysInQueue ==
    pc \in Job => NoDuplicates(todo) /\ Range(todo) \subseteq Range(job_q)

Structure == OnePlaceEach /\ OnlyResidentsCompete

(* The inductive invariant: types, places, and where the steps of a tick   *)
(* are.  Types need the places: what dequeue_pcb returns is known only for *)
(* a queue without duplicates.                                             *)
KernelInv == TypeInv /\ Structure /\ WalkStaysInQueue

(* The operators the actions share.                                        *)

(* Claiming and releasing blocks keeps owners in the memory.               *)
LEMMA CellsType ==
    ASSUME cells \in [Blocks -> Procs \cup {NULL}], NEW p \in Procs
    PROVE  /\ Release(cells, p) \in [Blocks -> Procs \cup {NULL}]
           /\ \A first, n : Claim(cells, first, n, p) \in [Blocks -> Procs \cup {NULL}]
  BY DEF Release, Claim

(* The counters stay counters.                                             *)
LEMMA CountedType ==
    ASSUME stats \in Stats
    PROVE  /\ \A field \in {"switches", "swap_in", "swap_out", "completed"} :
                 Counted(field) \in Stats
           /\ CountedFailure \in Stats
<1>1. ASSUME NEW field \in {"switches", "swap_in", "swap_out", "completed"}
      PROVE  Counted(field) \in Stats
  <2>1. stats[field] + 1 \in Nat
    BY DEF Stats
  <2> QED
    BY <2>1 DEF Stats, Counted
<1>2. [Counted("completed") EXCEPT !.errors = @ + 1] \in Stats
  <2>1. Counted("completed") \in Stats
    BY <1>1
  <2> QED
    BY <2>1 DEF Stats
<1> QED
  BY <1>1, <1>2 DEF CountedFailure

(* A time that is added to stays a time.                                   *)
LEMMA ChargedType ==
    ASSUME NEW counted \in Stats, NEW d \in Nat
    PROVE  /\ [counted EXCEPT !.switch_time = @ + d] \in Stats
           /\ [counted EXCEPT !.idle_time = @ + d] \in Stats
           /\ [counted EXCEPT !.cpu_time = @ + d] \in Stats
<1>1. /\ counted.switch_time + d \in Nat /\ counted.idle_time + d \in Nat
      /\ counted.cpu_time + d \in Nat
  BY DEF Stats
<1> QED
  BY <1>1 DEF Stats

(* So do the totals.                                                       *)
LEMMA TickStatsType ==
    ASSUME stats \in Stats, switch_remaining \in Nat
    PROVE  /\ SwitchTick => stats' \in Stats
           /\ IdleTick => stats' \in Stats
<1>1. TICK \in Nat /\ SwitchShare \in Nat
  BY KernelAssumption DEF SwitchShare
<1>2. [stats EXCEPT !.switch_time = @ + SwitchShare] \in Stats
  BY <1>1, ChargedType
<1>3. [stats EXCEPT !.idle_time = @ + TICK] \in Stats
  BY <1>1, ChargedType
<1> QED
  BY <1>2, <1>3 DEF SwitchTick, IdleTick

(* The types of the fields of a process.                                   *)
LEMMA FieldTypes ==
    ASSUME TypeOK, NEW p \in Procs
    PROVE  /\ sched[p] \in SchedData
           /\ sched[p].remaining \in Int /\ sched[p].quantum \in Int
           /\ sched[p].cpu \in Nat /\ sched[p].start \in Int
           /\ io[p] \in IoState /\ io[p].remaining \in Int
           /\ profile[p] \in Profile /\ profile[p].blocks \in Nat \ {0}
           /\ profile[p].device \in Devices /\ profile[p].io_duration \in Int
           /\ config.quantum \in Int /\ config.switch_cost \in Nat
<1>1. sched[p] \in SchedData /\ io[p] \in IoState /\ profile[p] \in Profile
  BY DEF TypeOK
<1>2. config \in Config
  BY DEF TypeOK
<1> QED
  BY <1>1, <1>2 DEF SchedData, IoState, Profile, Config, Settings

(* A request that is made or served stays a request.                       *)
LEMMA RequestTypes ==
    ASSUME NEW r \in IoState, NEW n \in Int
    PROVE  /\ [r EXCEPT !.remaining = n] \in IoState
           /\ [r EXCEPT !.started = TRUE, !.remaining = n] \in IoState
  BY DEF IoState

(* So does one that is answered.                                           *)
LEMMA ServedType ==
    ASSUME TypeOK, NEW p \in Procs
    PROVE  [io EXCEPT ![p].remaining = 0, ![p].completed = TRUE] \in [Procs -> IoState]
<1> DEFINE r == [io[p] EXCEPT !.remaining = 0]
           new == [r EXCEPT !.completed = TRUE]
<1>1. r \in IoState
  <2>1. io[p] \in IoState
    BY DEF TypeOK
  <2> QED
    BY <2>1 DEF IoState
<1>2. new \in IoState
  <2> HIDE DEF r
  <2> QED
    BY <1>1 DEF IoState
<1>3. [io EXCEPT ![p].remaining = 0, ![p].completed = TRUE] = [io EXCEPT ![p] = new]
  BY DEF TypeOK, IoState
<1> HIDE DEF new
<1> QED
  BY <1>2, <1>3 DEF TypeOK

(* finish_process keeps the types of the times.                            *)
LEMMA FinishedSched ==
    ASSUME NEW p \in Procs, NEW fails \in BOOLEAN,
           NEW times \in [Procs -> SchedData], TypeOK, Finish(p, fails, times)
    PROVE  sched' \in [Procs -> SchedData]
<1> DEFINE left == IF fails THEN times[p].remaining ELSE 0
           new == [times[p] EXCEPT !.remaining = left, !.finish = current_time]
<1>1. new \in SchedData
  <2>1. times[p] \in SchedData /\ left \in Int /\ current_time \in Int
    BY DEF TypeOK, SchedData
  <2> HIDE DEF left
  <2> QED
    BY <2>1 DEF SchedData
<1>2. sched' = [times EXCEPT ![p] = new]
  BY DEF Finish
<1> QED
  BY <1>1, <1>2

(* So does dispatch.                                                       *)
LEMMA DispatchType ==
    ASSUME NEW p \in Procs, TypeOK, Dispatch(p)
    PROVE  /\ running' \in Procs \cup {NULL} /\ next_pcb' \in Procs \cup {NULL}
           /\ switch_remaining' \in Nat /\ state' \in [Procs -> ProcessState]
           /\ sched' \in [Procs -> SchedData]
<1>1. QuantumFor(p) \in Int
  BY DEF TypeOK, QuantumFor, SchedData, Config, Settings
<1> DEFINE start == IF sched[p].start < 0 THEN current_time ELSE sched[p].start
           new == [sched[p] EXCEPT !.start = start, !.quantum = QuantumFor(p)]
<1>2. new \in SchedData
  <2>1. sched[p] \in SchedData /\ start \in Int
    BY DEF TypeOK, SchedData
  <2> HIDE DEF start
  <2> QED
    BY <1>1, <2>1 DEF SchedData
<1>3. sched' = [sched EXCEPT ![p] = new]
  BY DEF Dispatch
<1> HIDE DEF new
<1>4. sched' \in [Procs -> SchedData]
  BY <1>2, <1>3 DEF TypeOK
<1> QED
  BY <1>4 DEF TypeOK, Dispatch, ProcessState

(* So does tick_background.                                                *)
LEMMA ChargeType ==
    ASSUME TypeOK, NEW d \in Nat
    PROVE  [p \in Procs |-> Charge(p, d)] \in [Procs -> SchedData]
<1> SUFFICES ASSUME NEW p \in Procs PROVE Charge(p, d) \in SchedData
  OBVIOUS
<1>1. /\ sched[p] \in SchedData
      /\ sched[p].ready \in Nat /\ sched[p].blocked \in Nat
      /\ sched[p].nonresident \in Nat
  BY DEF TypeOK, SchedData
<1> DEFINE blocked == \E e \in Devices : p \in Range(device_q[e])
           out == (blocked /\ ~resident[p]) \/ p \in Range(nonresident_q)
           a == sched[p].ready + IF WaitsForCpu(p) THEN d ELSE 0
           b == sched[p].blocked + IF blocked THEN d ELSE 0
           c == sched[p].nonresident + IF out THEN d ELSE 0
<1>2. a \in Nat /\ b \in Nat /\ c \in Nat
  <2> HIDE DEF blocked, out
  <2> QED
    BY <1>1
<1>3. Charge(p, d) = [sched[p] EXCEPT !.ready = a, !.blocked = b, !.nonresident = c]
  BY DEF Charge
<1> HIDE DEF a, b, c
<1> QED
  BY <1>1, <1>2, <1>3 DEF SchedData

(* So does tick_running_process.                                           *)
LEMMA RanType ==
    ASSUME TypeOK, running \in Procs
    PROVE  Ran \in [Procs -> SchedData]
<1> DEFINE s == sched[running]
           left == IF config.alg_sched = "ROUND" THEN s.quantum - TICK ELSE s.quantum
           new == [s EXCEPT !.remaining = s.remaining - TICK, !.cpu = s.cpu + TICK,
                            !.quantum = left]
<1>1. /\ s \in SchedData /\ left \in Int
      /\ s.remaining - TICK \in Int /\ s.cpu + TICK \in Nat
  BY FieldTypes, KernelAssumption, SMTT(120)
<1>2. Ran = [sched EXCEPT ![running] = new]
  BY DEF Ran
<1>3. new \in SchedData
  <2> HIDE DEF left
  <2> QED
    BY <1>1 DEF SchedData
<1> HIDE DEF new
<1> QED
  BY <1>2, <1>3 DEF TypeOK

(* Types hold in the initial states.                                       *)
LEMMA InitTypeInv ==
    ASSUME NEW rows \in Seq(Procs), NEW st \in SimulatorState, Initially(rows, st)
    PROVE  TypeInv
<1> USE KernelAssumption, TotalBlocksAssumption
<1>1. profile \in [Procs -> Profile] /\ config \in Config
  BY DEF Initially
<1>2. sched \in [Procs -> SchedData]
  BY <1>1 DEF Initially, SchedData, Profile, Config, Settings
<1>3. io \in [Procs -> IoState]
  BY <1>1 DEF Initially, IoState, Profile
<1>4. device_q \in [Devices -> Seq(Procs)]
  BY DEF Initially
<1>5. stats \in Stats
  BY DEF Initially, Stats
<1> QED
  BY <1>1, <1>2, <1>3, <1>4, <1>5
  DEF Initially, TypeInv, TypeOK, TickHasOwner, Steps, ProcessState, Devices

(* Types, through process_arrival.                                         *)
LEMMA ArrivalTypeInv == TypeInv /\ Arrival => TypeInv'
<1> SUFFICES ASSUME TypeInv, Arrival PROVE TypeInv'
  OBVIOUS
<1> USE KernelAssumption DEF TypeInv, TypeOK, TickHasOwner, Goto, walk, clock,
        setup, pcb, queues, cpu, memory, Steps, MidTerm, Job, Background
<1>1. CASE BeginTick
  BY <1>1 DEF BeginTick
<1>2. CASE Arrive
  BY <1>2, WalkProperties, SMTT(120) DEF Arrive, ProcessState
<1>3. CASE SkipRow
  BY <1>3, WalkProperties DEF SkipRow
<1>4. CASE ArrivalDone
  BY <1>4 DEF ArrivalDone
<1> QED
  BY <1>1, <1>2, <1>3, <1>4 DEF Arrival

(* Types, through mid_term_scheduler.                                      *)
LEMMA SwapperTypeInv == KernelInv /\ Swapper => TypeInv'
<1> SUFFICES ASSUME KernelInv, Swapper PROVE TypeInv'
  OBVIOUS
<1> USE KernelAssumption DEF KernelInv, TypeInv, TypeOK, TickHasOwner, Goto, walk,
        clock, setup, pcb, queues, cpu, memory, Steps, MidTerm, Job, Background
<1>1. CASE SwapIn
  <2> DEFINE p == Head(todo)
  <2>1. p \in Procs /\ Tail(todo) \in Seq(Procs)
    BY <1>1, WalkProperties DEF SwapIn
  <2>2. Dequeue(nonresident_q, p) \in Seq(Procs)
    BY DequeueProperties DEF Structure, OnePlaceEach, QueuesDistinct
  <2>3. cells' \in [Blocks -> Procs \cup {NULL}]
    BY <1>1, <2>1, CellsType, SMTT(120) DEF SwapIn
  <2>4. stats' \in Stats
    BY <1>1, CountedType DEF SwapIn
  <2> QED
    BY <1>1, <2>1, <2>2, <2>3, <2>4, SMTT(120) DEF SwapIn
<1>2. CASE SkipSwapIn
  BY <1>2, WalkProperties DEF SkipSwapIn
<1>3. CASE SwapOut
  <2>1. cells' \in [Blocks -> Procs \cup {NULL}]
    BY <1>3, CellsType DEF SwapOut, Candidates
  <2>2. stats' \in Stats
    BY <1>3, CountedType DEF SwapOut
  <2> QED
    BY <1>3, <2>1, <2>2 DEF SwapOut
<1>4. CASE MidTermDone
  BY <1>4 DEF MidTermDone
<1> QED
  BY <1>1, <1>2, <1>3, <1>4 DEF Swapper

(* Types, through job_scheduler.                                           *)
LEMMA AdmissionTypeInv == KernelInv /\ Admission => TypeInv'
<1> SUFFICES ASSUME KernelInv, Admission PROVE TypeInv'
  OBVIOUS
<1> USE KernelAssumption DEF KernelInv, TypeInv, TypeOK, TickHasOwner, Goto, walk,
        clock, setup, pcb, queues, cpu, memory, Steps, MidTerm, Job, Background
<1> DEFINE p == Head(todo)
<1>1. ASSUME todo # <<>> PROVE p \in Procs /\ Tail(todo) \in Seq(Procs)
  BY <1>1, WalkProperties
<1>2. Dequeue(job_q, p) \in Seq(Procs)
  BY DequeueProperties DEF Structure, OnePlaceEach, QueuesDistinct
<1>3. CASE Reject
  <2>1. p \in Procs /\ Tail(todo) \in Seq(Procs)
    BY <1>1, <1>3 DEF Reject
  <2>2. sched' \in [Procs -> SchedData]
    BY <1>3, <2>1, FinishedSched DEF Reject
  <2>3. cells' \in [Blocks -> Procs \cup {NULL}]
    BY <1>3, <2>1, CellsType DEF Reject, Finish
  <2>4. stats' \in Stats
    BY <1>3, CountedType DEF Reject
  <2> QED
    BY <1>2, <1>3, <2>1, <2>2, <2>3, <2>4, SMTT(120) DEF Reject, Finish, ProcessState
<1>4. CASE Admit
  <2>1. p \in Procs /\ Tail(todo) \in Seq(Procs)
    BY <1>1, <1>4 DEF Admit
  <2>2. cells' \in [Blocks -> Procs \cup {NULL}]
    BY <1>4, <2>1, CellsType DEF Admit
  <2> QED
    BY <1>2, <1>4, <2>1, <2>2, SMTT(120) DEF Admit, ProcessState
<1>5. CASE SkipJob
  BY <1>1, <1>5 DEF SkipJob
<1>6. CASE JobDone
  BY <1>6 DEF JobDone
<1> QED
  BY <1>3, <1>4, <1>5, <1>6 DEF Admission

(* Types, through should_preempt, the scheduler and the ticks.             *)
LEMMA DecisionTypeInv == KernelInv /\ Decision => TypeInv'
<1> SUFFICES ASSUME KernelInv, Decision PROVE TypeInv'
  OBVIOUS
<1> USE KernelAssumption DEF KernelInv, TypeInv, TypeOK, TickHasOwner, Goto, walk,
        clock, setup, pcb, queues, cpu, memory, Steps, MidTerm, Job, Background
<1>1. CASE Preempt
  <2>1. running \in Procs
    BY <1>1 DEF Preempt, ShouldPreempt
  <2> QED
    BY <1>1, <2>1, SMTT(40) DEF Preempt, ProcessState
<1>2. CASE KeepRunning
  BY <1>2 DEF KeepRunning
<1>3. CASE StopSimulation
  BY <1>3, SMTT(40) DEF StopSimulation, SimulatorState
<1>4. CASE EndTick
  BY <1>4 DEF EndTick
<1>5. CASE SelectNext
  <2>1. PICK p \in ChosenFrom(ready_q) :
           /\ ready_q' = Dequeue(ready_q, p)
           /\ \/ Dispatch(p)
              \/ /\ next_pcb' = p
                 /\ switch_remaining' = config.switch_cost
                 /\ UNCHANGED <<running, state, sched>>
    BY <1>5 DEF SelectNext
  <2>2. p \in Procs
    BY DEF ChosenFrom
  <2>3. ready_q' \in Seq(Procs)
    BY <2>1, DequeueProperties DEF Structure, OnePlaceEach, QueuesDistinct
  <2>4. stats' \in Stats
    BY <1>5, CountedType DEF SelectNext
  <2>5. /\ running' \in Procs \cup {NULL} /\ next_pcb' \in Procs \cup {NULL}
        /\ switch_remaining' \in Nat /\ state' \in [Procs -> ProcessState]
        /\ sched' \in [Procs -> SchedData]
    BY <2>1, <2>2, DispatchType DEF Config, Settings
  <2> QED
    BY <1>5, <2>3, <2>4, <2>5, SMTT(120) DEF SelectNext
<1>6. CASE SwitchTick
  <2>1. SwitchShare \in 0 .. TICK /\ switch_remaining - SwitchShare \in Nat
    BY SMTT(120) DEF SwitchShare
  <2>2. StartTick("bg_switch", SwitchShare)
    BY <1>6 DEF SwitchTick
  <2>3. stats' \in Stats
    BY <1>6, TickStatsType
  <2>4. sched' \in [Procs -> SchedData]
    BY <2>1, <2>2, ChargeType DEF StartTick
  <2> QED
    BY <1>6, <2>1, <2>2, <2>3, <2>4, SMTT(120) DEF SwitchTick, StartTick
<1>7. CASE IdleTick
  <2>1. StartTick("bg_idle", TICK)
    BY <1>7 DEF IdleTick
  <2>2. stats' \in Stats
    BY <1>7, TickStatsType
  <2>3. sched' \in [Procs -> SchedData]
    BY <2>1, ChargeType DEF StartTick
  <2> QED
    BY <1>7, <2>1, <2>2, <2>3, SMTT(120) DEF IdleTick, StartTick
<1>8. CASE RunTick
  <2>1. StartTick("bg_run", TICK)
    BY <1>8 DEF RunTick
  <2>2. sched' \in [Procs -> SchedData]
    BY <2>1, ChargeType DEF StartTick
  <2> QED
    BY <1>8, <2>1, <2>2, SMTT(120) DEF RunTick, StartTick
<1> QED
  BY <1>1, <1>2, <1>3, <1>4, <1>5, <1>6, <1>7, <1>8 DEF Decision

(* The device being visited exists.                                        *)
LEMMA VisitedDevice ==
    ASSUME TypeOK, AtDevice
    PROVE  dev \in Devices /\ device_q[dev] \in Seq(Procs)
<1>1. dev \in Devices
  BY KernelAssumption DEF TypeOK, AtDevice, Devices
<1> QED
  BY <1>1 DEF TypeOK

(* What a visit leaves alone.                                              *)
LEMMA AtDeviceStep ==
    ASSUME TypeOK, AtDevice
    PROVE  /\ dev' \in 0 .. IO_DEVICE_COUNT /\ pc \in Background
           /\ UNCHANGED <<pc, todo, delta, clock, setup, cpu>>
<1>1. dev \in 0 .. IO_DEVICE_COUNT - 1 /\ dev' = dev + 1
  BY VisitedDevice DEF AtDevice, Devices
<1>2. IO_DEVICE_COUNT \in Nat
  BY KernelAssumption
<1>3. dev' \in 0 .. IO_DEVICE_COUNT
  BY <1>1, <1>2
<1> QED
  BY <1>3 DEF AtDevice

(* Types, through tick_device_queues and the end of a tick.                *)
LEMMA DeviceTypeInv == KernelInv /\ Device => TypeInv'
<1> SUFFICES ASSUME KernelInv, Device PROVE TypeInv'
  OBVIOUS
<1> USE KernelAssumption DEF KernelInv, TypeInv, TypeOK, TickHasOwner, Goto, walk,
        clock, setup, pcb, queues, cpu, memory, Steps, MidTerm, Job, Background
<1> DEFINE p == Requester
<1>1. ASSUME AtDevice
      PROVE  /\ dev \in Devices /\ dev' \in 0 .. IO_DEVICE_COUNT
             /\ pc \in Background
             /\ UNCHANGED <<pc, todo, delta, clock, setup, cpu>>
             /\ device_q[dev] # <<>> => p \in Procs
  <2>1. dev \in Devices /\ device_q[dev] \in Seq(Procs)
    BY <1>1, VisitedDevice
  <2>2. device_q[dev] # <<>> => p \in Procs
    BY <2>1, WalkProperties DEF Requester
  <2> QED
    BY <1>1, <2>1, <2>2, AtDeviceStep
<1>2. ASSUME AtDevice, CompleteIo
      PROVE  /\ p \in Procs /\ io' \in [Procs -> IoState]
             /\ device_q' \in [Devices -> Seq(Procs)]
  <2>1. p \in Procs /\ dev \in Devices
    BY <1>1, <1>2 DEF CompleteIo
  <2>2. Dequeue(device_q[dev], p) \in Seq(Procs)
    BY <2>1, DequeueProperties DEF Structure, OnePlaceEach, QueuesDistinct
  <2>3. io' \in [Procs -> IoState]
    BY <1>2, <2>1, ServedType DEF CompleteIo
  <2>4. device_q' = [device_q EXCEPT ![dev] = Dequeue(device_q[dev], p)]
    BY <1>2 DEF CompleteIo
  <2> QED
    BY <2>1, <2>2, <2>3, <2>4
<1>3. CASE DeviceWorks
  <2>1. AtDevice
    BY <1>3 DEF DeviceWorks
  <2>2. io' \in [Procs -> IoState]
    <3>1. CASE device_q[dev] = <<>>
      BY <1>3, <3>1 DEF DeviceWorks
    <3>2. CASE device_q[dev] # <<>>
      <4>1. p \in Procs /\ io[p] \in IoState /\ io[p].remaining - delta \in Int
        <5>1. p \in Procs
          BY <1>1, <2>1, <3>2
        <5>2. io[p] \in IoState /\ io[p].remaining \in Int
          BY <5>1, FieldTypes
        <5> QED
          BY <5>1, <5>2
      <4>2. [io[p] EXCEPT !.remaining = io[p].remaining - delta] \in IoState
        BY <4>1, RequestTypes
      <4>3. io' = [io EXCEPT ![p] = [io[p] EXCEPT !.remaining = io[p].remaining - delta]]
        BY <1>3, <3>2 DEF DeviceWorks
      <4> QED
        BY <4>1, <4>2, <4>3
    <3> QED
      BY <3>1, <3>2
  <2> QED
    <3> HIDE DEF AtDevice
    <3>1. UNCHANGED <<state, failed, sched, queues, memory, stats>>
      BY <1>3 DEF DeviceWorks
    <3> QED
      BY <1>1, <2>1, <2>2, <3>1, SMTT(120)
<1>4. CASE IoComplete
  <2>1. AtDevice /\ CompleteIo
    BY <1>4 DEF IoComplete, CompleteIo
  <2>2. ready_q' \in Seq(Procs) /\ nonresident_q' \in Seq(Procs)
    <3>1. \/ ready_q' = Append(ready_q, p) /\ UNCHANGED nonresident_q
          \/ nonresident_q' = Append(nonresident_q, p) /\ UNCHANGED ready_q
      BY <1>4 DEF IoComplete
    <3>2. p \in Procs
      BY <1>2, <2>1
    <3>3. Append(ready_q, p) \in Seq(Procs) /\ Append(nonresident_q, p) \in Seq(Procs)
      BY <3>2
    <3> HIDE DEF p
    <3> QED
      BY <3>1, <3>3
  <2> QED
    BY <1>1, <1>2, <1>4, <2>1, <2>2, SMTT(120) DEF IoComplete, ProcessState
<1>5. CASE KeyboardCancel
  <2>1. AtDevice /\ CompleteIo
    BY <1>5 DEF KeyboardCancel, CompleteIo
  <2>2. Finish(p, TRUE, sched)
    BY <1>5 DEF KeyboardCancel
  <2>3. sched' \in [Procs -> SchedData]
    BY <1>2, <2>1, <2>2, FinishedSched
  <2>4. cells' \in [Blocks -> Procs \cup {NULL}]
    BY <1>2, <2>1, <2>2, CellsType DEF Finish
  <2>5. stats' \in Stats
    BY <1>5, CountedType DEF KeyboardCancel
  <2> QED
    BY <1>1, <1>2, <1>5, <2>1, <2>2, <2>3, <2>4, <2>5, SMTT(120)
    DEF KeyboardCancel, Finish, ProcessState
<1>6. CASE SwitchDone
  <2>1. next_pcb \in Procs /\ Dispatch(next_pcb)
    BY <1>6 DEF SwitchDone
  <2>2. /\ running' \in Procs \cup {NULL} /\ next_pcb' \in Procs \cup {NULL}
        /\ switch_remaining' \in Nat /\ state' \in [Procs -> ProcessState]
        /\ sched' \in [Procs -> SchedData]
    BY <2>1, DispatchType
  <2> QED
    BY <1>6, <2>2, SMTT(120) DEF SwitchDone
<1>7. CASE TickDone
  <2>1. /\ UNCHANGED <<clock, setup, pcb, queues, cpu, memory, stats>>
        /\ pc' \in {"idle", "cpu"} /\ todo' = <<>> /\ UNCHANGED <<dev, delta>>
        /\ pc' = "cpu" => pc = "bg_run"
    BY <1>7 DEF TickDone
  <2> QED
    BY <2>1, SMTT(120)
<1> QED
  BY <1>3, <1>4, <1>5, <1>6, <1>7 DEF Device

(* Types, through tick_running_process.                                    *)
LEMMA CpuTypeInv == KernelInv /\ Cpu => TypeInv'
<1> SUFFICES ASSUME KernelInv, Cpu PROVE TypeInv'
  OBVIOUS
<1> USE KernelAssumption DEF KernelInv, TypeInv, TypeOK, TickHasOwner, Goto, walk,
        clock, setup, pcb, queues, cpu, memory, Steps, MidTerm, Job, Background
<1>1. pc = "cpu" /\ running \in Procs
  BY DEF Cpu, CpuFail, CpuTerminate, CpuBlock, CpuQuantum, CpuContinue, Run
<1>2. Ran \in [Procs -> SchedData]
  BY <1>1, RanType
<1>3. ASSUME NEW counted \in Stats, Run(counted)
      PROVE  /\ stats' \in Stats /\ pc' = "mid3" /\ todo' = nonresident_q
             /\ UNCHANGED <<dev, delta, clock, setup, job_q, nonresident_q,
                            next_pcb, switch_remaining>>
  <2>1. [counted EXCEPT !.cpu_time = @ + TICK] \in Stats
    BY ChargedType
  <2> QED
    BY <1>3, <2>1 DEF Run
<1>4. CASE CpuFail
  <2>1. Finish(running, TRUE, Ran)
    BY <1>4 DEF CpuFail
  <2>2. sched' \in [Procs -> SchedData]
    BY <1>1, <1>2, <2>1, FinishedSched
  <2>3. cells' \in [Blocks -> Procs \cup {NULL}]
    BY <1>1, <2>1, CellsType DEF Finish
  <2>4. CountedFailure \in Stats /\ Run(CountedFailure)
    BY <1>4, CountedType DEF CpuFail
  <2> QED
    BY <1>1, <1>3, <1>4, <2>1, <2>2, <2>3, <2>4, SMTT(120)
    DEF CpuFail, Finish, LeaveCpu, ProcessState
<1>5. CASE CpuTerminate
  <2>1. Finish(running, FALSE, Ran)
    BY <1>5 DEF CpuTerminate
  <2>2. sched' \in [Procs -> SchedData]
    BY <1>1, <1>2, <2>1, FinishedSched
  <2>3. cells' \in [Blocks -> Procs \cup {NULL}]
    BY <1>1, <2>1, CellsType DEF Finish
  <2>4. Counted("completed") \in Stats /\ Run(Counted("completed"))
    BY <1>5, CountedType DEF CpuTerminate
  <2> QED
    BY <1>1, <1>3, <1>5, <2>1, <2>2, <2>3, <2>4, SMTT(120)
    DEF CpuTerminate, Finish, LeaveCpu, ProcessState
<1>6. CASE CpuBlock
  <2>1. /\ profile[running].device \in Devices
        /\ profile[running].io_duration \in Int
        /\ io[running] \in IoState
    BY <1>1, FieldTypes
  <2> DEFINE new == [io[running] EXCEPT !.started = TRUE,
                                        !.remaining = profile[running].io_duration]
  <2>2. io' \in [Procs -> IoState]
    <3>1. new \in IoState
      BY <2>1, RequestTypes
    <3>2. io' = [io EXCEPT ![running] = new]
      BY <1>6 DEF CpuBlock
    <3> QED
      BY <1>1, <3>1, <3>2
  <2>3. device_q' \in [Devices -> Seq(Procs)]
    BY <1>1, <1>6, <2>1, SMTT(120) DEF CpuBlock
  <2>4. Run(stats)
    BY <1>6 DEF CpuBlock
  <2> QED
    BY <1>1, <1>2, <1>3, <1>6, <2>2, <2>3, <2>4, SMTT(120)
    DEF CpuBlock, LeaveCpu, ProcessState
<1>7. CASE CpuQuantum
  <2>1. config.quantum \in Int
    BY <1>1, FieldTypes
  <2>2. sched' \in [Procs -> SchedData]
    <3>1. [Ran[running] EXCEPT !.quantum = config.quantum] \in SchedData
      <4>1. Ran[running] \in SchedData
        BY <1>1, <1>2
      <4> QED
        BY <2>1, <4>1 DEF SchedData
    <3>2. sched' = [Ran EXCEPT ![running] =
                        [Ran[running] EXCEPT !.quantum = config.quantum]]
      BY <1>7 DEF CpuQuantum
    <3> QED
      BY <1>1, <1>2, <3>1, <3>2
  <2>3. Run(stats)
    BY <1>7 DEF CpuQuantum
  <2> QED
    BY <1>1, <1>3, <1>7, <2>2, <2>3, SMTT(120) DEF CpuQuantum, LeaveCpu, ProcessState
<1>8. CASE CpuContinue
  <2>1. Run(stats)
    BY <1>8 DEF CpuContinue
  <2> QED
    BY <1>1, <1>2, <1>3, <1>8, <2>1, SMTT(120) DEF CpuContinue
<1> QED
  BY <1>4, <1>5, <1>6, <1>7, <1>8 DEF Cpu

-----------------------------------------------------------------------------
(* Queues, states and the CPU.                                             *)

(* The variables that Structure is about.                                  *)
places == <<state, resident, job_q, ready_q, nonresident_q, finished_q, device_q,
            running, next_pcb, profile>>

(* Who moves nobody keeps everybody's place.                               *)
LEMMA PlacesUnchanged == Structure /\ UNCHANGED places => Structure'
  BY DEF Structure, OnePlaceEach, QueuesDistinct, InPlace, OnlyResidentsCompete, places

(* No queue has a process twice.                                           *)
LEMMA QueuesAreDistinct ==
    ASSUME Structure
    PROVE  /\ NoDuplicates(job_q) /\ NoDuplicates(ready_q)
           /\ NoDuplicates(nonresident_q) /\ NoDuplicates(finished_q)
           /\ \A d \in Devices : NoDuplicates(device_q[d])
  BY DEF Structure, OnePlaceEach, QueuesDistinct

(* Places, when a job is admitted.                                         *)
LEMMA AdmitStructure == KernelInv /\ Admit => Structure'
<1> SUFFICES ASSUME KernelInv, Admit PROVE Structure'
  OBVIOUS
<1> DEFINE p == Head(todo)
<1>1. /\ TypeOK /\ Structure /\ pc \in Job /\ todo # <<>>
      /\ p \in Range(job_q) /\ p \in Procs
  BY WalkProperties DEF KernelInv, TypeInv, TypeOK, WalkStaysInQueue, Admit
<1>2. /\ state' = [state EXCEPT ![p] = "READY"]
      /\ resident' = [resident EXCEPT ![p] = TRUE]
      /\ job_q' = Dequeue(job_q, p) /\ ready_q' = Append(ready_q, p)
      /\ UNCHANGED <<nonresident_q, finished_q, device_q, running, next_pcb, profile>>
  BY DEF Admit, setup, cpu
<1>3. /\ state[p] = "NEW" /\ p # running /\ p # next_pcb
      /\ p \notin Range(ready_q) /\ p \notin Range(nonresident_q)
      /\ p \notin Range(finished_q) /\ \A d \in Devices : p \notin Range(device_q[d])
  BY <1>1 DEF Structure, OnePlaceEach, InPlace
<1>4. NoDuplicates(job_q') /\ Range(job_q') = Range(job_q) \ {p}
  BY <1>1, <1>2, QueuesAreDistinct, DequeueProperties DEF TypeOK
<1>5. NoDuplicates(ready_q') /\ Range(ready_q') = Range(ready_q) \cup {p}
  BY <1>1, <1>2, <1>3, QueuesAreDistinct, EnqueueProperties DEF TypeOK
<1> HIDE DEF p
<1>6. QueuesDistinct'
  BY <1>1, <1>2, <1>4, <1>5, QueuesAreDistinct DEF QueuesDistinct
<1>7. ASSUME NEW x \in Procs PROVE InPlace(x)'
  BY <1>1, <1>2, <1>3, <1>4, <1>5 DEF TypeOK, Structure, OnePlaceEach, InPlace
<1>8. OnlyResidentsCompete'
  BY <1>1, <1>2, <1>3 DEF TypeOK, Structure, OnlyResidentsCompete
<1> QED
  BY <1>6, <1>7, <1>8 DEF Structure, OnePlaceEach

(* Places, when a process arrives.                                         *)
LEMMA ArriveStructure == KernelInv /\ Arrive => Structure'
<1> SUFFICES ASSUME KernelInv, Arrive PROVE Structure'
  OBVIOUS
<1> DEFINE p == Head(todo)
<1>1. TypeOK /\ Structure /\ p \in Procs /\ state[p] = "NONE"
  BY WalkProperties DEF KernelInv, TypeInv, TypeOK, Arrive, Arrives
<1>2. /\ state' = [state EXCEPT ![p] = "NEW"] /\ job_q' = Append(job_q, p)
      /\ UNCHANGED <<resident, ready_q, nonresident_q, finished_q, device_q,
                     running, next_pcb, profile>>
  BY DEF Arrive, setup, cpu, memory
<1>3. /\ ~resident[p] /\ p # running /\ p # next_pcb /\ p \notin Range(job_q)
      /\ p \notin Range(ready_q) /\ p \notin Range(nonresident_q)
      /\ p \notin Range(finished_q) /\ \A d \in Devices : p \notin Range(device_q[d])
  BY <1>1 DEF Structure, OnePlaceEach, InPlace, OnlyResidentsCompete
<1>4. NoDuplicates(job_q') /\ Range(job_q') = Range(job_q) \cup {p}
  BY <1>1, <1>2, <1>3, QueuesAreDistinct, EnqueueProperties DEF TypeOK
<1>5. QueuesDistinct'
  BY <1>1, <1>2, <1>3, <1>4, QueuesAreDistinct DEF TypeOK, QueuesDistinct
<1>6. ASSUME NEW x \in Procs PROVE InPlace(x)'
  BY <1>1, <1>2, <1>3, <1>4, KernelAssumption, SMTT(60)
  DEF TypeOK, Structure, OnePlaceEach, InPlace
<1>7. OnlyResidentsCompete'
  BY <1>1, <1>2, <1>3, <1>4, KernelAssumption, SMTT(60)
  DEF TypeOK, Structure, OnePlaceEach, InPlace, OnlyResidentsCompete
<1> QED
  BY <1>5, <1>6, <1>7 DEF Structure, OnePlaceEach

(* Places, when a process is swapped in.                                   *)
LEMMA SwapInStructure == KernelInv /\ SwapIn => Structure'
<1> SUFFICES ASSUME KernelInv, SwapIn PROVE Structure'
  OBVIOUS
<1> DEFINE p == Head(todo)
<1>1. /\ TypeOK /\ Structure /\ p \in Procs
      /\ state[p] = "READY" /\ ~resident[p]
  BY WalkProperties DEF KernelInv, TypeInv, TypeOK, SwapIn, Waits
<1>2. /\ resident' = [resident EXCEPT ![p] = TRUE]
      /\ nonresident_q' = Dequeue(nonresident_q, p) /\ ready_q' = Append(ready_q, p)
      /\ UNCHANGED <<state, job_q, finished_q, device_q, running, next_pcb, profile>>
  BY DEF SwapIn, setup, cpu, pcb
<1>3. /\ p # running /\ p # next_pcb
      /\ p \notin Range(job_q) /\ p \notin Range(ready_q)
      /\ p \notin Range(finished_q) /\ \A d \in Devices : p \notin Range(device_q[d])
  BY <1>1 DEF Structure, OnePlaceEach, InPlace, OnlyResidentsCompete
<1>4. NoDuplicates(nonresident_q') /\ Range(nonresident_q') = Range(nonresident_q) \ {p}
  BY <1>1, <1>2, QueuesAreDistinct, DequeueProperties DEF TypeOK
<1>5. NoDuplicates(ready_q') /\ Range(ready_q') = Range(ready_q) \cup {p}
  BY <1>1, <1>2, <1>3, QueuesAreDistinct, EnqueueProperties DEF TypeOK
<1>6. QueuesDistinct'
  BY <1>1, <1>2, <1>3, <1>4, <1>5, QueuesAreDistinct DEF TypeOK, QueuesDistinct
<1>7. ASSUME NEW x \in Procs PROVE InPlace(x)'
  BY <1>1, <1>2, <1>3, <1>4, <1>5, KernelAssumption, SMTT(60)
  DEF TypeOK, Structure, OnePlaceEach, InPlace
<1>8. OnlyResidentsCompete'
  BY <1>1, <1>2, <1>3, <1>4, <1>5, KernelAssumption, SMTT(60)
  DEF TypeOK, Structure, OnePlaceEach, InPlace, OnlyResidentsCompete
<1> QED
  BY <1>6, <1>7, <1>8 DEF Structure, OnePlaceEach

(* Places, when a job is rejected.                                         *)
LEMMA RejectStructure == KernelInv /\ Reject => Structure'
<1> SUFFICES ASSUME KernelInv, Reject PROVE Structure'
  OBVIOUS
<1> DEFINE p == Head(todo)
<1>1. /\ TypeOK /\ Structure /\ pc \in Job /\ todo # <<>>
      /\ p \in Range(job_q) /\ p \in Procs
  BY WalkProperties DEF KernelInv, TypeInv, TypeOK, WalkStaysInQueue, Reject
<1>2. /\ state' = [state EXCEPT ![p] = "TERMINATED"]
      /\ resident' = [resident EXCEPT ![p] = FALSE]
      /\ job_q' = Dequeue(job_q, p) /\ finished_q' = Append(finished_q, p)
      /\ UNCHANGED <<ready_q, nonresident_q, device_q, running, next_pcb, profile>>
  BY DEF Reject, Finish, setup, cpu
<1>3. /\ state[p] = "NEW" /\ p # running /\ p # next_pcb
      /\ p \notin Range(ready_q) /\ p \notin Range(nonresident_q)
      /\ p \notin Range(finished_q) /\ \A d \in Devices : p \notin Range(device_q[d])
  BY <1>1 DEF Structure, OnePlaceEach, InPlace, OnlyResidentsCompete
<1>4. NoDuplicates(job_q') /\ Range(job_q') = Range(job_q) \ {p}
  BY <1>1, <1>2, QueuesAreDistinct, DequeueProperties DEF TypeOK
<1>5. NoDuplicates(finished_q') /\ Range(finished_q') = Range(finished_q) \cup {p}
  BY <1>1, <1>2, <1>3, QueuesAreDistinct, EnqueueProperties DEF TypeOK
<1>6. QueuesDistinct'
  BY <1>1, <1>2, <1>3, <1>4, <1>5, QueuesAreDistinct DEF TypeOK, QueuesDistinct
<1>7. ASSUME NEW x \in Procs PROVE InPlace(x)'
  BY <1>1, <1>2, <1>3, <1>4, <1>5, KernelAssumption, SMTT(60)
  DEF TypeOK, Structure, OnePlaceEach, InPlace
<1>8. OnlyResidentsCompete'
  BY <1>1, <1>2, <1>3, <1>4, <1>5, KernelAssumption, SMTT(60)
  DEF TypeOK, Structure, OnePlaceEach, InPlace, OnlyResidentsCompete
<1> QED
  BY <1>6, <1>7, <1>8 DEF Structure, OnePlaceEach

(* Places, when the running process is preempted.                          *)
LEMMA PreemptStructure == KernelInv /\ Preempt => Structure'
<1> SUFFICES ASSUME KernelInv, Preempt PROVE Structure'
  OBVIOUS
<1> DEFINE p == running
<1>1. TypeOK /\ Structure /\ p \in Procs
  BY DEF KernelInv, TypeInv, TypeOK, Preempt, ShouldPreempt
<1>2. /\ state' = [state EXCEPT ![p] = "READY"]
      /\ ready_q' = Append(ready_q, p) /\ running' = NULL
      /\ UNCHANGED <<resident, job_q, nonresident_q, finished_q, device_q,
                     next_pcb, profile>>
  BY DEF Preempt, setup, memory
<1>3. /\ state[p] = "RUNNING" /\ resident[p] /\ p # next_pcb /\ p \notin Range(job_q)
      /\ p \notin Range(ready_q) /\ p \notin Range(nonresident_q)
      /\ p \notin Range(finished_q) /\ \A d \in Devices : p \notin Range(device_q[d])
  BY <1>1 DEF Structure, OnePlaceEach, InPlace, OnlyResidentsCompete
<1>4. NoDuplicates(ready_q') /\ Range(ready_q') = Range(ready_q) \cup {p}
  BY <1>1, <1>2, <1>3, QueuesAreDistinct, EnqueueProperties DEF TypeOK
<1>5. QueuesDistinct'
  BY <1>1, <1>2, <1>3, <1>4, QueuesAreDistinct DEF TypeOK, QueuesDistinct
<1>6. ASSUME NEW x \in Procs PROVE InPlace(x)'
  BY <1>1, <1>2, <1>3, <1>4, KernelAssumption, SMTT(60)
  DEF TypeOK, Structure, OnePlaceEach, InPlace
<1>7. OnlyResidentsCompete'
  BY <1>1, <1>2, <1>3, <1>4, KernelAssumption, SMTT(60)
  DEF TypeOK, Structure, OnePlaceEach, InPlace, OnlyResidentsCompete
<1> QED
  BY <1>5, <1>6, <1>7 DEF Structure, OnePlaceEach

(* Places, when a blocked process is swapped out.                          *)
LEMMA SwapOutStructure == KernelInv /\ SwapOut => Structure'
<1> SUFFICES ASSUME KernelInv, SwapOut PROVE Structure'
  OBVIOUS
<1>1. PICK p \in Candidates : resident' = [resident EXCEPT ![p] = FALSE]
  BY DEF SwapOut
<1>2. /\ TypeOK /\ Structure /\ p \in Procs /\ state[p] = "BLOCKED"
      /\ UNCHANGED <<state, job_q, ready_q, nonresident_q, finished_q, device_q,
                     running, next_pcb, profile>>
  BY DEF KernelInv, TypeInv, Candidates, SwapOut, setup, pcb, queues, cpu
<1>3. /\ p # running /\ p # next_pcb /\ p \notin Range(job_q)
      /\ p \notin Range(ready_q) /\ p \notin Range(nonresident_q)
      /\ p \notin Range(finished_q)
  BY <1>2 DEF Structure, OnePlaceEach, InPlace
<1>4. QueuesDistinct'
  BY <1>1, <1>2, <1>3, QueuesAreDistinct DEF TypeOK, QueuesDistinct
<1>5. ASSUME NEW x \in Procs PROVE InPlace(x)'
  BY <1>1, <1>2, <1>3, KernelAssumption, SMTT(60)
  DEF TypeOK, Structure, OnePlaceEach, InPlace
<1>6. OnlyResidentsCompete'
  BY <1>1, <1>2, <1>3, KernelAssumption, SMTT(60)
  DEF TypeOK, Structure, OnePlaceEach, InPlace, OnlyResidentsCompete
<1> QED
  BY <1>4, <1>5, <1>6 DEF Structure, OnePlaceEach

(* Places, when the scheduler selects a process.                           *)
LEMMA SelectNextStructure == KernelInv /\ SelectNext => Structure'
<1> SUFFICES ASSUME KernelInv, SelectNext PROVE Structure'
  OBVIOUS
<1>1. PICK p \in ChosenFrom(ready_q) :
         /\ ready_q' = Dequeue(ready_q, p)
         /\ \/ Dispatch(p)
            \/ next_pcb' = p /\ UNCHANGED <<running, state, sched>>
  BY DEF SelectNext
<1>2. /\ TypeOK /\ Structure /\ running = NULL /\ next_pcb = NULL
      /\ UNCHANGED <<resident, job_q, nonresident_q, finished_q, device_q, profile>>
  BY DEF KernelInv, TypeInv, SelectNext, setup, memory
<1>3. p \in Range(ready_q) /\ p \in Procs
  BY <1>2 DEF TypeOK, ChosenFrom, Range
<1>4. /\ state[p] = "READY" /\ resident[p] /\ p \notin Range(job_q)
      /\ p \notin Range(nonresident_q) /\ p \notin Range(finished_q)
      /\ \A d \in Devices : p \notin Range(device_q[d])
  BY <1>2, <1>3 DEF Structure, OnePlaceEach, InPlace
<1>5. NoDuplicates(ready_q') /\ Range(ready_q') = Range(ready_q) \ {p}
  BY <1>1, <1>2, QueuesAreDistinct, DequeueProperties DEF TypeOK
<1>6. \/ /\ running' = p /\ next_pcb' = NULL
         /\ state' = [state EXCEPT ![p] = "RUNNING"]
      \/ next_pcb' = p /\ UNCHANGED <<running, state>>
  BY <1>1 DEF Dispatch
<1>7. QueuesDistinct'
  BY <1>2, <1>5, QueuesAreDistinct DEF QueuesDistinct
<1>8. ASSUME NEW x \in Procs PROVE InPlace(x)'
  BY <1>2, <1>3, <1>4, <1>5, <1>6, KernelAssumption
  DEF TypeOK, Structure, OnePlaceEach, InPlace
<1>9. OnlyResidentsCompete'
  BY <1>2, <1>3, <1>4, <1>5, <1>6, KernelAssumption
  DEF TypeOK, Structure, OnePlaceEach, InPlace, OnlyResidentsCompete
<1> QED
  BY <1>7, <1>8, <1>9 DEF Structure, OnePlaceEach

(* Places, when a context switch is over.                                  *)
LEMMA SwitchDoneStructure == KernelInv /\ SwitchDone => Structure'
<1> SUFFICES ASSUME KernelInv, SwitchDone PROVE Structure'
  OBVIOUS
<1> DEFINE p == next_pcb
<1>1. TypeOK /\ Structure /\ p \in Procs
  BY DEF KernelInv, TypeInv, TypeOK, TickHasOwner, SwitchDone
<1>2. /\ running' = p /\ next_pcb' = NULL /\ state' = [state EXCEPT ![p] = "RUNNING"]
      /\ UNCHANGED <<resident, job_q, ready_q, nonresident_q, finished_q, device_q,
                     profile>>
  BY DEF SwitchDone, Dispatch, setup, queues, memory
<1>3. /\ state[p] = "READY" /\ resident[p] /\ running = NULL
      /\ p \notin Range(job_q) /\ p \notin Range(ready_q)
      /\ p \notin Range(nonresident_q) /\ p \notin Range(finished_q)
      /\ \A d \in Devices : p \notin Range(device_q[d])
  BY <1>1, KernelAssumption
  DEF Structure, OnePlaceEach, InPlace, OnlyResidentsCompete
<1>4. QueuesDistinct'
  BY <1>1, <1>2, <1>3, QueuesAreDistinct DEF TypeOK, QueuesDistinct
<1>5. ASSUME NEW x \in Procs PROVE InPlace(x)'
  BY <1>1, <1>2, <1>3, KernelAssumption, SMTT(60)
  DEF TypeOK, Structure, OnePlaceEach, InPlace
<1>6. OnlyResidentsCompete'
  BY <1>1, <1>2, <1>3, KernelAssumption, SMTT(60)
  DEF TypeOK, Structure, OnePlaceEach, InPlace, OnlyResidentsCompete
<1> QED
  BY <1>4, <1>5, <1>6 DEF Structure, OnePlaceEach

(* The first request of a device is served, whatever happens to p then.    *)
LEMMA ServedRequest ==
    ASSUME KernelInv, CompleteIo
    PROVE  LET p == Requester
           IN  /\ dev \in Devices /\ p \in Procs /\ state[p] = "BLOCKED"
               /\ dev = profile[p].device
               /\ device_q' = [device_q EXCEPT ![dev] = Dequeue(device_q[dev], p)]
               /\ \A d \in Devices :
                     /\ NoDuplicates(device_q'[d])
                     /\ Range(device_q'[d]) = Range(device_q[d]) \ {p}
               /\ p # running /\ p # next_pcb /\ p \notin Range(job_q)
               /\ p \notin Range(ready_q) /\ p \notin Range(nonresident_q)
               /\ p \notin Range(finished_q)
               /\ UNCHANGED <<running, next_pcb, profile>>
<1> DEFINE p == Requester
<1>1. /\ TypeOK /\ Structure /\ dev \in Devices /\ device_q[dev] # <<>>
      /\ device_q' = [device_q EXCEPT ![dev] = Dequeue(device_q[dev], p)]
      /\ UNCHANGED <<running, next_pcb, profile>>
  <2>1. TypeOK /\ Structure
    BY DEF KernelInv, TypeInv
  <2>2. dev \in Devices
    BY <2>1, KernelAssumption DEF TypeOK, CompleteIo, AtDevice, Devices
  <2> QED
    BY <2>1, <2>2 DEF CompleteIo, AtDevice, setup, cpu
<1>2. p \in Procs /\ p \in Range(device_q[dev])
  BY <1>1, WalkProperties DEF Requester, TypeOK
<1>3. /\ state[p] = "BLOCKED" /\ dev = profile[p].device
      /\ p # running /\ p # next_pcb /\ p \notin Range(job_q)
      /\ p \notin Range(ready_q) /\ p \notin Range(nonresident_q)
      /\ p \notin Range(finished_q)
  BY <1>1, <1>2 DEF Structure, OnePlaceEach, InPlace
<1>4. /\ NoDuplicates(Dequeue(device_q[dev], p))
      /\ Range(Dequeue(device_q[dev], p)) = Range(device_q[dev]) \ {p}
  BY <1>1, QueuesAreDistinct, DequeueProperties DEF TypeOK
<1>5. ASSUME NEW d \in Devices
      PROVE  /\ NoDuplicates(device_q'[d])
             /\ Range(device_q'[d]) = Range(device_q[d]) \ {p}
  <2>1. d # dev => p \notin Range(device_q[d])
    BY <1>1, <1>2, <1>3 DEF Structure, OnePlaceEach, InPlace
  <2> HIDE DEF p
  <2> QED
    BY <1>1, <1>4, <2>1, QueuesAreDistinct DEF TypeOK
<1> QED
  BY <1>1, <1>2, <1>3, <1>5

(* Places, when a device answers.                                          *)
LEMMA IoCompleteStructure == KernelInv /\ IoComplete => Structure'
<1> SUFFICES ASSUME KernelInv, IoComplete PROVE Structure'
  OBVIOUS
<1> DEFINE p == Requester
<1>1. TypeOK /\ Structure /\ CompleteIo
  BY DEF KernelInv, TypeInv, IoComplete, CompleteIo
<1>2. /\ state' = [state EXCEPT ![p] = "READY"]
      /\ \/ /\ resident[p] /\ ready_q' = Append(ready_q, p)
            /\ UNCHANGED nonresident_q
         \/ /\ ~resident[p] /\ nonresident_q' = Append(nonresident_q, p)
            /\ UNCHANGED ready_q
      /\ UNCHANGED <<resident, job_q, finished_q>>
  BY DEF IoComplete, memory
<1>3. /\ dev \in Devices /\ p \in Procs /\ state[p] = "BLOCKED"
      /\ dev = profile[p].device
      /\ \A d \in Devices : /\ NoDuplicates(device_q'[d])
                            /\ Range(device_q'[d]) = Range(device_q[d]) \ {p}
      /\ p # running /\ p # next_pcb /\ p \notin Range(job_q)
      /\ p \notin Range(ready_q) /\ p \notin Range(nonresident_q)
      /\ p \notin Range(finished_q)
      /\ UNCHANGED <<running, next_pcb, profile>>
  BY <1>1, ServedRequest
<1>4. \/ /\ resident[p] /\ UNCHANGED nonresident_q
         /\ NoDuplicates(ready_q') /\ Range(ready_q') = Range(ready_q) \cup {p}
      \/ /\ ~resident[p] /\ UNCHANGED ready_q
         /\ NoDuplicates(nonresident_q')
         /\ Range(nonresident_q') = Range(nonresident_q) \cup {p}
  <2>1. ready_q \in Seq(Procs) /\ nonresident_q \in Seq(Procs)
    BY <1>1 DEF TypeOK
  <2>2. /\ NoDuplicates(Append(ready_q, p))
        /\ Range(Append(ready_q, p)) = Range(ready_q) \cup {p}
    BY <1>1, <1>3, <2>1, QueuesAreDistinct, EnqueueProperties
  <2>3. /\ NoDuplicates(Append(nonresident_q, p))
        /\ Range(Append(nonresident_q, p)) = Range(nonresident_q) \cup {p}
    BY <1>1, <1>3, <2>1, QueuesAreDistinct, EnqueueProperties
  <2> HIDE DEF p
  <2> QED
    BY <1>2, <2>2, <2>3
<1> HIDE DEF p
<1>5. QueuesDistinct'
  BY <1>1, <1>2, <1>3, <1>4, QueuesAreDistinct DEF QueuesDistinct
<1>6. ASSUME NEW x \in Procs PROVE InPlace(x)'
  BY <1>1, <1>2, <1>3, <1>4 DEF TypeOK, Structure, OnePlaceEach, InPlace
<1>7. OnlyResidentsCompete'
  BY <1>1, <1>2, <1>3, <1>4 DEF TypeOK, Structure, OnlyResidentsCompete
<1> QED
  BY <1>5, <1>6, <1>7 DEF Structure, OnePlaceEach

(* Places, when the user cancels a request.                                *)
LEMMA KeyboardCancelStructure == KernelInv /\ KeyboardCancel => Structure'
<1> SUFFICES ASSUME KernelInv, KeyboardCancel PROVE Structure'
  OBVIOUS
<1> DEFINE p == Requester
<1>1. TypeOK /\ Structure /\ CompleteIo
  BY DEF KernelInv, TypeInv, KeyboardCancel, CompleteIo
<1>2. /\ state' = [state EXCEPT ![p] = "TERMINATED"]
      /\ resident' = [resident EXCEPT ![p] = FALSE]
      /\ finished_q' = Append(finished_q, p)
      /\ UNCHANGED <<job_q, ready_q, nonresident_q>>
  BY DEF KeyboardCancel, Finish
<1>3. /\ dev \in Devices /\ p \in Procs /\ state[p] = "BLOCKED"
      /\ dev = profile[p].device
      /\ \A d \in Devices : /\ NoDuplicates(device_q'[d])
                            /\ Range(device_q'[d]) = Range(device_q[d]) \ {p}
      /\ p # running /\ p # next_pcb /\ p \notin Range(job_q)
      /\ p \notin Range(ready_q) /\ p \notin Range(nonresident_q)
      /\ p \notin Range(finished_q)
      /\ UNCHANGED <<running, next_pcb, profile>>
  BY <1>1, ServedRequest
<1>4. NoDuplicates(finished_q') /\ Range(finished_q') = Range(finished_q) \cup {p}
  BY <1>1, <1>2, <1>3, QueuesAreDistinct, EnqueueProperties DEF TypeOK
<1> HIDE DEF p
<1>5. QueuesDistinct'
  BY <1>1, <1>2, <1>3, <1>4, QueuesAreDistinct DEF QueuesDistinct
<1>6. ASSUME NEW x \in Procs PROVE InPlace(x)'
  BY <1>1, <1>2, <1>3, <1>4 DEF TypeOK, Structure, OnePlaceEach, InPlace
<1>7. OnlyResidentsCompete'
  BY <1>1, <1>2, <1>3, <1>4 DEF TypeOK, Structure, OnlyResidentsCompete
<1> QED
  BY <1>5, <1>6, <1>7 DEF Structure, OnePlaceEach

(* The running process ends, well or not.                                  *)
LEMMA EndStructure ==
    ASSUME TypeOK, Structure, running \in Procs, NEW fails, NEW times,
           Finish(running, fails, times), running' = NULL,
           UNCHANGED <<job_q, ready_q, nonresident_q, device_q, next_pcb, profile>>
    PROVE  Structure'
<1> DEFINE p == running
<1>1. /\ state' = [state EXCEPT ![p] = "TERMINATED"]
      /\ resident' = [resident EXCEPT ![p] = FALSE]
      /\ finished_q' = Append(finished_q, p)
  BY DEF Finish
<1>2. /\ state[p] = "RUNNING" /\ p # next_pcb /\ p \notin Range(job_q)
      /\ p \notin Range(ready_q) /\ p \notin Range(nonresident_q)
      /\ p \notin Range(finished_q) /\ \A d \in Devices : p \notin Range(device_q[d])
  BY DEF Structure, OnePlaceEach, InPlace
<1>3. NoDuplicates(finished_q') /\ Range(finished_q') = Range(finished_q) \cup {p}
  BY <1>1, <1>2, QueuesAreDistinct, EnqueueProperties DEF TypeOK
<1>4. QueuesDistinct'
  BY <1>3, QueuesAreDistinct DEF TypeOK, QueuesDistinct
<1>5. ASSUME NEW x \in Procs PROVE InPlace(x)'
  BY <1>1, <1>2, <1>3, KernelAssumption, SMTT(60)
  DEF TypeOK, Structure, OnePlaceEach, InPlace
<1>6. OnlyResidentsCompete'
  BY <1>1, <1>2, <1>3, KernelAssumption
  DEF TypeOK, Structure, OnePlaceEach, InPlace, OnlyResidentsCompete
<1> QED
  BY <1>4, <1>5, <1>6 DEF Structure, OnePlaceEach

(* Places, when a quantum expires.                                         *)
LEMMA CpuQuantumStructure == KernelInv /\ CpuQuantum => Structure'
<1> SUFFICES ASSUME KernelInv, CpuQuantum PROVE Structure'
  OBVIOUS
<1> DEFINE p == running
<1>1. TypeOK /\ Structure /\ p \in Procs
  BY DEF KernelInv, TypeInv, TypeOK, TickHasOwner, CpuQuantum, Run
<1>2. /\ state' = [state EXCEPT ![p] = "READY"]
      /\ ready_q' = Append(ready_q, p) /\ running' = NULL
      /\ UNCHANGED <<resident, job_q, nonresident_q, finished_q, device_q,
                     next_pcb, profile>>
  BY DEF CpuQuantum, Run, LeaveCpu, setup, memory
<1>3. /\ state[p] = "RUNNING" /\ resident[p] /\ p # next_pcb /\ p \notin Range(job_q)
      /\ p \notin Range(ready_q) /\ p \notin Range(nonresident_q)
      /\ p \notin Range(finished_q) /\ \A d \in Devices : p \notin Range(device_q[d])
  BY <1>1 DEF Structure, OnePlaceEach, InPlace, OnlyResidentsCompete
<1>4. NoDuplicates(ready_q') /\ Range(ready_q') = Range(ready_q) \cup {p}
  BY <1>1, <1>2, <1>3, QueuesAreDistinct, EnqueueProperties DEF TypeOK
<1>5. QueuesDistinct'
  BY <1>1, <1>2, <1>3, <1>4, QueuesAreDistinct DEF TypeOK, QueuesDistinct
<1>6. ASSUME NEW x \in Procs PROVE InPlace(x)'
  BY <1>1, <1>2, <1>3, <1>4, KernelAssumption, SMTT(60)
  DEF TypeOK, Structure, OnePlaceEach, InPlace
<1>7. OnlyResidentsCompete'
  BY <1>1, <1>2, <1>3, <1>4, KernelAssumption, SMTT(60)
  DEF TypeOK, Structure, OnePlaceEach, InPlace, OnlyResidentsCompete
<1> QED
  BY <1>5, <1>6, <1>7 DEF Structure, OnePlaceEach

(* Places, when the running process asks for a device.                     *)
LEMMA CpuBlockStructure == KernelInv /\ CpuBlock => Structure'
<1> SUFFICES ASSUME KernelInv, CpuBlock PROVE Structure'
  OBVIOUS
<1> DEFINE p == running
           own == profile[p].device
<1>1. TypeOK /\ Structure /\ p \in Procs /\ own \in Devices
  <2>1. TypeOK /\ Structure /\ p \in Procs
    BY DEF KernelInv, TypeInv, TypeOK, TickHasOwner, CpuBlock, Run
  <2> QED
    BY <2>1, FieldTypes
<1>2. /\ state' = [state EXCEPT ![p] = "BLOCKED"] /\ running' = NULL
      /\ device_q' = [device_q EXCEPT ![own] = Append(device_q[own], p)]
      /\ UNCHANGED <<resident, job_q, ready_q, nonresident_q, finished_q,
                     next_pcb, profile>>
  BY DEF CpuBlock, Run, LeaveCpu, setup, memory
<1>3. /\ state[p] = "RUNNING" /\ resident[p] /\ p # next_pcb /\ p \notin Range(job_q)
      /\ p \notin Range(ready_q) /\ p \notin Range(nonresident_q)
      /\ p \notin Range(finished_q) /\ \A d \in Devices : p \notin Range(device_q[d])
  BY <1>1 DEF Structure, OnePlaceEach, InPlace, OnlyResidentsCompete
<1>4. /\ NoDuplicates(Append(device_q[own], p))
      /\ Range(Append(device_q[own], p)) = Range(device_q[own]) \cup {p}
  BY <1>1, <1>3, QueuesAreDistinct, EnqueueProperties DEF TypeOK
<1>5. ASSUME NEW d \in Devices
      PROVE  /\ NoDuplicates(device_q'[d])
             /\ Range(device_q'[d]) =
                    IF d = own THEN Range(device_q[d]) \cup {p} ELSE Range(device_q[d])
  BY <1>1, <1>2, <1>4, QueuesAreDistinct DEF TypeOK
<1>6. QueuesDistinct'
  BY <1>1, <1>2, <1>3, <1>4, <1>5, QueuesAreDistinct DEF TypeOK, QueuesDistinct
<1>7. ASSUME NEW x \in Procs PROVE InPlace(x)'
  BY <1>1, <1>2, <1>3, <1>4, <1>5, KernelAssumption, SMTT(60)
  DEF TypeOK, Structure, OnePlaceEach, InPlace
<1>8. OnlyResidentsCompete'
  BY <1>1, <1>2, <1>3, <1>4, <1>5, KernelAssumption, SMTT(60)
  DEF TypeOK, Structure, OnePlaceEach, InPlace, OnlyResidentsCompete
<1> QED
  BY <1>6, <1>7, <1>8 DEF Structure, OnePlaceEach

(* Every step keeps every process in the place its state tells.            *)
LEMMA NextStructure == KernelInv /\ Next => Structure'
<1> SUFFICES ASSUME KernelInv, Next PROVE Structure'
  OBVIOUS
<1>1. Structure /\ TypeOK
  BY DEF KernelInv, TypeInv
<1>2. ASSUME UNCHANGED places PROVE Structure'
  BY <1>1, <1>2, PlacesUnchanged
<1> USE DEF places, setup, pcb, queues, cpu, memory
<1>3. CASE Arrival
  <2>1. CASE Arrive
    BY <2>1, ArriveStructure
  <2>2. CASE BeginTick \/ SkipRow \/ ArrivalDone
    BY <1>2, <2>2 DEF BeginTick, SkipRow, ArrivalDone
  <2> QED
    BY <1>3, <2>1, <2>2 DEF Arrival
<1>4. CASE Swapper
  <2>1. CASE SwapIn \/ SwapOut
    BY <2>1, SwapInStructure, SwapOutStructure
  <2>2. CASE SkipSwapIn \/ MidTermDone
    BY <1>2, <2>2 DEF SkipSwapIn, MidTermDone
  <2> QED
    BY <1>4, <2>1, <2>2 DEF Swapper
<1>5. CASE Admission
  <2>1. CASE Reject \/ Admit
    BY <2>1, RejectStructure, AdmitStructure
  <2>2. CASE SkipJob \/ JobDone
    BY <1>2, <2>2 DEF SkipJob, JobDone
  <2> QED
    BY <1>5, <2>1, <2>2 DEF Admission
<1>6. CASE Decision
  <2>1. CASE Preempt \/ SelectNext
    BY <2>1, PreemptStructure, SelectNextStructure
  <2>2. CASE KeepRunning \/ StopSimulation \/ EndTick
    BY <1>2, <2>2 DEF KeepRunning, StopSimulation, EndTick
  <2>3. CASE SwitchTick \/ IdleTick \/ RunTick
    BY <1>2, <2>3 DEF SwitchTick, IdleTick, RunTick, StartTick
  <2> QED
    BY <1>6, <2>1, <2>2, <2>3 DEF Decision
<1>7. CASE Device
  <2>1. CASE IoComplete \/ KeyboardCancel \/ SwitchDone
    BY <2>1, IoCompleteStructure, KeyboardCancelStructure, SwitchDoneStructure
  <2>2. CASE DeviceWorks \/ TickDone
    BY <1>2, <2>2 DEF DeviceWorks, AtDevice, TickDone
  <2> QED
    BY <1>7, <2>1, <2>2 DEF Device
<1>8. CASE Cpu
  <2>1. CASE CpuFail
    <3>1. running \in Procs
      BY <2>1 DEF KernelInv, TypeInv, TypeOK, TickHasOwner, CpuFail, Run
    <3> QED
      BY <1>1, <2>1, <3>1, EndStructure DEF CpuFail, Run, LeaveCpu
  <2>2. CASE CpuTerminate
    <3>1. running \in Procs
      BY <2>2 DEF KernelInv, TypeInv, TypeOK, TickHasOwner, CpuTerminate, Run
    <3> QED
      BY <1>1, <2>2, <3>1, EndStructure DEF CpuTerminate, Run, LeaveCpu
  <2>3. CASE CpuBlock \/ CpuQuantum
    BY <2>3, CpuBlockStructure, CpuQuantumStructure
  <2>4. CASE CpuContinue
    BY <1>2, <2>4 DEF CpuContinue, Run
  <2> QED
    BY <1>8, <2>1, <2>2, <2>3, <2>4 DEF Cpu
<1>9. CASE Stopped
  BY <1>2, <1>9 DEF Stopped, vars
<1> QED
  BY <1>3, <1>4, <1>5, <1>6, <1>7, <1>8, <1>9 DEF Next

(* Types, through every step.                                              *)
LEMMA NextTypeInv == KernelInv /\ Next => TypeInv'
<1> SUFFICES ASSUME KernelInv, Next PROVE TypeInv'
  OBVIOUS
<1>1. CASE Stopped
  <2>1. TypeInv /\ UNCHANGED vars
    BY <1>1 DEF KernelInv, Stopped
  <2> QED
    BY <2>1 DEF vars, walk, clock, setup, pcb, queues, cpu, memory, TypeInv, TypeOK,
                TickHasOwner
<1>2. CASE Arrival \/ Swapper \/ Admission \/ Decision \/ Device \/ Cpu
  BY <1>2, ArrivalTypeInv, SwapperTypeInv, AdmissionTypeInv, DecisionTypeInv,
     DeviceTypeInv, CpuTypeInv DEF KernelInv
<1> QED
  BY <1>1, <1>2 DEF Next

(* What the walk over job_q has ahead is still in job_q.                   *)
LEMMA NextWalk == KernelInv /\ Next => WalkStaysInQueue'
<1> SUFFICES ASSUME KernelInv, Next, pc' \in Job
             PROVE  NoDuplicates(todo') /\ Range(todo') \subseteq Range(job_q')
  BY DEF WalkStaysInQueue
<1>1. TypeOK /\ Structure
  BY DEF KernelInv, TypeInv
<1>2. CASE MidTermDone
  <2>1. todo' = job_q /\ job_q' = job_q
    BY <1>2 DEF MidTermDone, MidTerm, Job, Goto, queues
  <2> QED
    BY <1>1, <2>1, QueuesAreDistinct
<1>3. CASE Reject \/ Admit \/ SkipJob
  <2> DEFINE p == Head(todo)
  <2>1. /\ pc \in Job /\ todo # <<>> /\ todo' = Tail(todo)
        /\ job_q' = Dequeue(job_q, p) \/ job_q' = job_q
    BY <1>3 DEF Reject, Admit, SkipJob, Goto, queues
  <2>2. NoDuplicates(todo) /\ Range(todo) \subseteq Range(job_q)
    BY <2>1 DEF KernelInv, WalkStaysInQueue
  <2>3. /\ NoDuplicates(Tail(todo)) /\ Range(Tail(todo)) \subseteq Range(todo)
        /\ p \notin Range(Tail(todo))
    BY <1>1, <2>1, <2>2, WalkProperties DEF TypeOK
  <2>4. Range(Dequeue(job_q, p)) = Range(job_q) \ {p}
    BY <1>1, QueuesAreDistinct, DequeueProperties DEF TypeOK
  <2> QED
    BY <2>1, <2>2, <2>3, <2>4
<1>4. CASE JobDone
  BY <1>4 DEF JobDone, Job, Goto
<1>5. CASE Arrival
  BY <1>5 DEF Arrival, BeginTick, Arrive, SkipRow, ArrivalDone, Goto, Job
<1>6. CASE SwapIn \/ SkipSwapIn \/ SwapOut
  BY <1>6 DEF SwapIn, SkipSwapIn, SwapOut, Goto, Job, MidTerm
<1>7. CASE Decision
  BY <1>7 DEF Decision, Preempt, KeepRunning, StopSimulation, EndTick, SelectNext,
              SwitchTick, IdleTick, RunTick, StartTick, Goto, Job
<1>8. CASE Device
  BY <1>8 DEF Device, DeviceWorks, IoComplete, KeyboardCancel, CompleteIo, AtDevice,
              SwitchDone, TickDone, Goto, Job, Background
<1>9. CASE Cpu
  BY <1>9 DEF Cpu, CpuFail, CpuTerminate, CpuBlock, CpuQuantum, CpuContinue, Run,
              Goto, Job
<1>10. CASE Stopped
  BY <1>10 DEF Stopped, vars, walk, Job
<1> QED
  BY <1>2, <1>3, <1>4, <1>5, <1>6, <1>7, <1>8, <1>9, <1>10
  DEF Next, Swapper, Admission

(* The invariant holds at the start, for any table and before RUN, too.    *)
LEMMA InitKernelInv ==
    ASSUME NEW rows \in Seq(Procs), NEW st \in SimulatorState, Initially(rows, st)
    PROVE  KernelInv
<1>1. Structure
  BY KernelAssumption DEF Initially, Structure, OnePlaceEach, QueuesDistinct, InPlace,
     OnlyResidentsCompete, NoDuplicates, Range
<1>2. WalkStaysInQueue
  BY DEF Initially, WalkStaysInQueue, Job
<1> QED
  BY <1>1, <1>2, InitTypeInv DEF KernelInv

(* Every step keeps it.                                                    *)
LEMMA StepKernelInv == KernelInv /\ [Next]_vars => KernelInv'
<1>1. CASE Next
  BY <1>1, NextTypeInv, NextStructure, NextWalk DEF KernelInv
<1>2. CASE UNCHANGED vars
  BY <1>2 DEF vars, walk, clock, setup, pcb, queues, cpu, memory, KernelInv, TypeInv,
     TypeOK, TickHasOwner, Structure, OnePlaceEach, QueuesDistinct, InPlace,
     OnlyResidentsCompete, WalkStaysInQueue
<1> QED
  BY <1>1, <1>2

(* The conjunction is inductive: it holds in every reachable state.        *)
THEOREM KernelInvariant == Spec => []KernelInv
<1>1. Init => KernelInv
  BY InitKernelInv, KernelAssumption DEF Init, SimulatorState
<1> QED
  BY <1>1, StepKernelInv, PTL DEF Spec

(* The variables keep the types of the fields of the program they stand    *)
(* for, however long the simulation.                                       *)
THEOREM TypeCorrect == Spec => []TypeOK
<1>1. KernelInv => TypeOK
  BY DEF KernelInv, TypeInv
<1> QED
  BY <1>1, KernelInvariant, PTL

(* No PCB is ever linked in two queues of the simulator, linked twice in   *)
(* one, or in none that its state allows.                                  *)
THEOREM EachProcessInOnePlace == Spec => []OnePlaceEach
<1>1. KernelInv => OnePlaceEach
  BY DEF KernelInv, Structure
<1> QED
  BY <1>1, KernelInvariant, PTL

(* The CPU has one process at a time, and it is in memory.                 *)
THEOREM CpuHasResidents == Spec => []OnlyResidentsCompete
<1>1. KernelInv => OnlyResidentsCompete
  BY DEF KernelInv, Structure
<1> QED
  BY <1>1, KernelInvariant, PTL

-----------------------------------------------------------------------------
(* The kernel implements the abstract life of a process (Lifecycle.tla):   *)
(* every step of main_loop is one legal transition of one process, or      *)
(* leaves every process as it is.                                          *)
(*                                                                         *)
(* From a change of the kernel's variables to a change of the abstract     *)
(* ones; `ending` is the third component of the mapping.                   *)

size == [p \in Procs |-> profile[p].blocks]
ending == [p \in Procs |-> IF state[p] # "TERMINATED" THEN "no"
                           ELSE IF failed[p] THEN "error" ELSE "ok"]

Frame == UNCHANGED <<state, resident, failed, profile>>

(* What the life cycle does not see is a stutter.                          *)
LEMMA FrameStutters == Frame => UNCHANGED Life!lifeVars
  BY DEF Frame, Life!lifeVars

(* A change of state that is no end leaves ends and sizes alone.           *)
LEMMA NobodyEnds ==
    ASSUME TypeOK, NEW p \in Procs, NEW to,
           state[p] # "TERMINATED", to # "TERMINATED",
           state' = [state EXCEPT ![p] = to], UNCHANGED <<failed, profile>>
    PROVE  ending' = ending /\ size' = size
  BY DEF TypeOK, ending, size

(* finish_process is an end of the life cycle.                             *)
LEMMA EndMaps ==
    ASSUME TypeOK, NEW p \in Procs, NEW from, NEW fails \in BOOLEAN, NEW times,
           state[p] = from, Finish(p, fails, times), UNCHANGED profile
    PROVE  Life!End(p, from, IF fails THEN "error" ELSE "ok")
<1>1. /\ state' = [state EXCEPT ![p] = "TERMINATED"]
      /\ resident' = [resident EXCEPT ![p] = FALSE]
      /\ failed' = [failed EXCEPT ![p] = fails]
  BY DEF Finish
<1>2. ending' = [ending EXCEPT ![p] = IF fails THEN "error" ELSE "ok"]
  BY <1>1 DEF TypeOK, ending
<1> QED
  BY <1>1, <1>2 DEF Life!End, ending

-----------------------------------------------------------------------------
(* Arrivals, seen as steps of the life cycle.                              *)
LEMMA ArrivalMaps == KernelInv /\ Arrival => [Life!Next]_(Life!lifeVars)
<1> SUFFICES ASSUME KernelInv, Arrival PROVE Life!Next \/ UNCHANGED Life!lifeVars
  OBVIOUS
<1>1. TypeOK /\ Structure
  BY DEF KernelInv, TypeInv
<1>2. CASE Arrive
  <2>1. PICK p \in Procs : p = Head(todo) /\ state[p] = "NONE" /\ ~resident[p]
    BY <1>1, <1>2, WalkProperties
    DEF Arrive, Arrives, TypeOK, Structure, OnlyResidentsCompete
  <2>2. /\ state' = [state EXCEPT ![p] = "NEW"]
        /\ UNCHANGED <<resident, failed, profile>>
    BY <1>2, <2>1 DEF Arrive, setup, memory
  <2>3. ending' = ending /\ size' = size
    BY <1>1, <2>1, <2>2, NobodyEnds
  <2>4. resident' = [resident EXCEPT ![p] = FALSE]
    BY <1>1, <2>1, <2>2 DEF TypeOK
  <2>5. Life!Arrive(p)
    BY <2>1, <2>2, <2>3, <2>4 DEF Life!Arrive, Life!Move, ending, size
  <2> QED
    BY <2>1, <2>5 DEF Life!Next
<1>3. CASE BeginTick \/ SkipRow \/ ArrivalDone
  BY <1>3, FrameStutters DEF BeginTick, SkipRow, ArrivalDone, Frame, setup, pcb, memory
<1> QED
  BY <1>2, <1>3 DEF Arrival

(* Swaps, seen as steps of the life cycle.                                 *)
LEMMA SwapperMaps == KernelInv /\ Swapper => [Life!Next]_(Life!lifeVars)
<1> SUFFICES ASSUME KernelInv, Swapper PROVE Life!Next \/ UNCHANGED Life!lifeVars
  OBVIOUS
<1>1. TypeOK /\ Structure
  BY DEF KernelInv, TypeInv
<1>2. CASE SwapIn
  <2>1. PICK p \in Procs :
           /\ p = Head(todo) /\ state[p] = "READY" /\ ~resident[p]
           /\ resident' = [resident EXCEPT ![p] = TRUE]
           /\ UNCHANGED <<state, failed, profile>>
    BY <1>1, <1>2, WalkProperties DEF SwapIn, Waits, TypeOK, setup, pcb
  <2>2. state' = [state EXCEPT ![p] = "READY"]
    BY <1>1, <2>1 DEF TypeOK
  <2>3. ending' = ending /\ size' = size
    BY <2>1 DEF ending, size
  <2>4. Life!Load(p)
    BY <2>1, <2>2, <2>3 DEF Life!Load, Life!Move, ending, size
  <2> QED
    BY <2>1, <2>4 DEF Life!Next
<1>3. CASE SwapOut
  <2>1. PICK p \in Candidates : resident' = [resident EXCEPT ![p] = FALSE]
    BY <1>3 DEF SwapOut
  <2>2. /\ p \in Procs /\ state[p] = "BLOCKED" /\ resident[p]
        /\ UNCHANGED <<state, failed, profile>>
    BY <1>3 DEF Candidates, SwapOut, setup, pcb
  <2>3. state' = [state EXCEPT ![p] = "BLOCKED"]
    BY <1>1, <2>2 DEF TypeOK
  <2>4. ending' = ending /\ size' = size
    BY <2>2 DEF ending, size
  <2>5. Life!Evict(p)
    BY <2>1, <2>2, <2>3, <2>4 DEF Life!Evict, Life!Move, ending, size
  <2> QED
    BY <2>2, <2>5 DEF Life!Next
<1>4. CASE SkipSwapIn \/ MidTermDone
  BY <1>4, FrameStutters DEF SkipSwapIn, MidTermDone, Frame, setup, pcb, memory
<1> QED
  BY <1>2, <1>3, <1>4 DEF Swapper

(* Admissions, seen as steps of the life cycle.                            *)
LEMMA AdmissionMaps == KernelInv /\ Admission => [Life!Next]_(Life!lifeVars)
<1> SUFFICES ASSUME KernelInv, Admission PROVE Life!Next \/ UNCHANGED Life!lifeVars
  OBVIOUS
<1>1. TypeOK /\ Structure
  BY DEF KernelInv, TypeInv
<1>2. ASSUME Reject \/ Admit
      PROVE  /\ Head(todo) \in Procs /\ state[Head(todo)] = "NEW"
             /\ UNCHANGED profile
  <2>1. pc \in Job /\ todo # <<>> /\ UNCHANGED profile
    BY <1>2 DEF Reject, Admit, setup
  <2>2. Head(todo) \in Procs /\ Head(todo) \in Range(job_q)
    BY <1>1, <2>1, WalkProperties DEF TypeOK, KernelInv, WalkStaysInQueue
  <2> QED
    BY <1>1, <2>1, <2>2 DEF Structure, OnePlaceEach, InPlace
<1>3. CASE Reject
  <2>1. PICK p \in Procs : p = Head(todo) /\ state[p] = "NEW" /\ UNCHANGED profile
    BY <1>2, <1>3
  <2>2. Finish(p, TRUE, sched) /\ profile[p].blocks > TOTAL_BLOCKS
    BY <1>3, <2>1 DEF Reject, Oversized
  <2>3. Life!End(p, "NEW", "error")
    BY <1>1, <2>1, <2>2, EndMaps
  <2>4. Life!Reject(p)
    BY <2>1, <2>2, <2>3 DEF Life!Reject
  <2> QED
    BY <2>2, <2>4 DEF Life!Next
<1>4. CASE Admit
  <2>1. PICK p \in Procs : p = Head(todo) /\ state[p] = "NEW" /\ UNCHANGED profile
    BY <1>2, <1>4
  <2>2. /\ ~(profile[p].blocks > TOTAL_BLOCKS)
        /\ state' = [state EXCEPT ![p] = "READY"]
        /\ resident' = [resident EXCEPT ![p] = TRUE] /\ UNCHANGED failed
    BY <1>4, <2>1 DEF Admit, Oversized
  <2>3. ending' = ending /\ size' = size
    BY <1>1, <2>1, <2>2, NobodyEnds
  <2>4. profile[p].blocks =< TOTAL_BLOCKS
    BY <1>1, <2>1, <2>2, FieldTypes, TotalBlocksAssumption
  <2>5. Life!Admit(p)
    BY <2>1, <2>2, <2>3, <2>4 DEF Life!Admit, Life!Move, ending, size
  <2> QED
    BY <2>2, <2>5 DEF Life!Next
<1>5. CASE SkipJob \/ JobDone
  BY <1>5, FrameStutters DEF SkipJob, JobDone, Frame, setup, pcb, memory
<1> QED
  BY <1>3, <1>4, <1>5 DEF Admission

(* A process gets the CPU: at once or when its context switch is paid.     *)
LEMMA DispatchMaps ==
    ASSUME TypeOK, Structure, NEW p \in Procs, state[p] = "READY", resident[p],
           running = NULL, Dispatch(p), UNCHANGED <<resident, failed, profile>>
    PROVE  Life!Next
<1>1. state' = [state EXCEPT ![p] = "RUNNING"]
  BY DEF Dispatch
<1>2. ending' = ending /\ size' = size
  BY <1>1, NobodyEnds
<1>3. resident' = [resident EXCEPT ![p] = TRUE]
  BY DEF TypeOK
<1>4. \A q \in Procs : state[q] # "RUNNING"
  BY KernelAssumption DEF Structure, OnePlaceEach, InPlace
<1>5. Life!Dispatch(p)
  BY <1>1, <1>2, <1>3, <1>4 DEF Life!Dispatch, Life!Move, ending, size
<1> QED
  BY <1>5 DEF Life!Next

(* Decisions, seen as steps of the life cycle.                             *)
LEMMA DecisionMaps == KernelInv /\ Decision => [Life!Next]_(Life!lifeVars)
<1> SUFFICES ASSUME KernelInv, Decision PROVE Life!Next \/ UNCHANGED Life!lifeVars
  OBVIOUS
<1>1. TypeOK /\ Structure
  BY DEF KernelInv, TypeInv
<1>2. CASE Preempt
  <2>1. PICK p \in Procs :
           /\ p = running /\ state' = [state EXCEPT ![p] = "READY"]
           /\ UNCHANGED <<resident, failed, profile>>
    BY <1>1, <1>2 DEF Preempt, ShouldPreempt, TypeOK, setup, memory
  <2>2. state[p] = "RUNNING" /\ resident[p]
    BY <1>1, <2>1 DEF Structure, OnePlaceEach, InPlace, OnlyResidentsCompete
  <2>3. ending' = ending /\ size' = size
    BY <1>1, <2>1, <2>2, NobodyEnds
  <2>4. resident' = [resident EXCEPT ![p] = TRUE]
    BY <1>1, <2>1, <2>2 DEF TypeOK
  <2>5. Life!Yield(p)
    BY <2>1, <2>2, <2>3, <2>4 DEF Life!Yield, Life!Move, ending, size
  <2> QED
    BY <2>1, <2>5 DEF Life!Next
<1>3. CASE SelectNext
  <2>1. PICK p \in ChosenFrom(ready_q) :
           Dispatch(p) \/ UNCHANGED state
    BY <1>3 DEF SelectNext
  <2>2. p \in Range(ready_q) /\ p \in Procs
    BY <1>1 DEF TypeOK, ChosenFrom, Range
  <2>3. state[p] = "READY" /\ resident[p]
    BY <1>1, <2>2 DEF Structure, OnePlaceEach, InPlace
  <2>4. running = NULL /\ UNCHANGED <<resident, failed, profile>>
    BY <1>3 DEF SelectNext, setup, memory
  <2>5. CASE Dispatch(p)
    BY <1>1, <2>2, <2>3, <2>4, <2>5, DispatchMaps
  <2>6. CASE UNCHANGED state
    BY <2>4, <2>6, FrameStutters DEF Frame
  <2> QED
    BY <2>1, <2>5, <2>6
<1>4. CASE KeepRunning \/ StopSimulation \/ EndTick
  BY <1>4, FrameStutters DEF KeepRunning, StopSimulation, EndTick, Frame, setup, pcb,
     memory
<1>5. CASE SwitchTick \/ IdleTick \/ RunTick
  BY <1>5, FrameStutters DEF SwitchTick, IdleTick, RunTick, StartTick, Frame, setup,
     memory
<1> QED
  BY <1>2, <1>3, <1>4, <1>5 DEF Decision

(* Device steps, seen as steps of the life cycle.                          *)
LEMMA DeviceMaps == KernelInv /\ Device => [Life!Next]_(Life!lifeVars)
<1> SUFFICES ASSUME KernelInv, Device PROVE Life!Next \/ UNCHANGED Life!lifeVars
  OBVIOUS
<1>1. TypeOK /\ Structure
  BY DEF KernelInv, TypeInv
<1>2. ASSUME CompleteIo
      PROVE  /\ Requester \in Procs /\ state[Requester] = "BLOCKED"
             /\ UNCHANGED profile
  BY <1>2, ServedRequest
<1>3. CASE IoComplete
  <2>1. PICK p \in Procs : p = Requester /\ state[p] = "BLOCKED" /\ UNCHANGED profile
    BY <1>2, <1>3 DEF IoComplete, CompleteIo
  <2>2. state' = [state EXCEPT ![p] = "READY"] /\ UNCHANGED <<resident, failed>>
    BY <1>3, <2>1 DEF IoComplete, memory
  <2>3. ending' = ending /\ size' = size
    BY <1>1, <2>1, <2>2, NobodyEnds
  <2>4. resident' = [resident EXCEPT ![p] = resident[p]]
    BY <1>1, <2>1, <2>2 DEF TypeOK
  <2>5. Life!Wake(p)
    BY <2>1, <2>2, <2>3, <2>4 DEF Life!Wake, Life!Move, ending, size
  <2> QED
    BY <2>2, <2>5 DEF Life!Next
<1>4. CASE KeyboardCancel
  <2>1. PICK p \in Procs : p = Requester /\ state[p] = "BLOCKED" /\ UNCHANGED profile
    BY <1>2, <1>4 DEF KeyboardCancel, CompleteIo
  <2>2. Finish(p, TRUE, sched)
    BY <1>4, <2>1 DEF KeyboardCancel
  <2>3. Life!End(p, "BLOCKED", "error")
    BY <1>1, <2>1, <2>2, EndMaps
  <2>4. Life!Cancel(p)
    BY <2>3 DEF Life!Cancel
  <2> QED
    BY <2>2, <2>4 DEF Life!Next
<1>5. CASE SwitchDone
  <2>1. /\ next_pcb \in Procs /\ Dispatch(next_pcb)
        /\ UNCHANGED <<resident, failed, profile>>
    BY <1>5 DEF KernelInv, TypeInv, TypeOK, TickHasOwner, SwitchDone, setup, memory
  <2>2. state[next_pcb] = "READY" /\ resident[next_pcb]
    BY <1>1, <2>1 DEF Structure, OnePlaceEach, InPlace
  <2>3. running = NULL
    BY <1>1, <2>1, KernelAssumption DEF Structure, OnlyResidentsCompete
  <2> QED
    BY <1>1, <2>1, <2>2, <2>3, DispatchMaps
<1>6. CASE DeviceWorks \/ TickDone
  BY <1>6, FrameStutters DEF DeviceWorks, AtDevice, TickDone, Frame, setup, pcb, memory
<1> QED
  BY <1>3, <1>4, <1>5, <1>6 DEF Device

(* Ticks of the CPU, seen as steps of the life cycle.                      *)
LEMMA CpuMaps == KernelInv /\ Cpu => [Life!Next]_(Life!lifeVars)
<1> SUFFICES ASSUME KernelInv, Cpu PROVE Life!Next \/ UNCHANGED Life!lifeVars
  OBVIOUS
<1>1. TypeOK /\ Structure /\ UNCHANGED profile
  BY DEF KernelInv, TypeInv, Cpu, CpuFail, CpuTerminate, CpuBlock, CpuQuantum,
     CpuContinue, Run, setup
<1>2. PICK p \in Procs : p = running
  BY DEF KernelInv, TypeInv, TypeOK, TickHasOwner, Cpu, CpuFail, CpuTerminate,
     CpuBlock, CpuQuantum, CpuContinue, Run
<1>3. state[p] = "RUNNING" /\ resident[p]
  BY <1>1, <1>2 DEF Structure, OnePlaceEach, InPlace, OnlyResidentsCompete
<1>4. CASE CpuFail
  <2>1. Life!End(p, "RUNNING", "error")
    BY <1>1, <1>2, <1>3, <1>4, EndMaps DEF CpuFail
  <2>2. Life!Fail(p)
    BY <2>1 DEF Life!Fail
  <2> QED
    BY <2>2 DEF Life!Next
<1>5. CASE CpuTerminate
  <2>1. Life!End(p, "RUNNING", "ok")
    BY <1>1, <1>2, <1>3, <1>5, EndMaps DEF CpuTerminate
  <2>2. Life!Complete(p)
    BY <2>1 DEF Life!Complete
  <2> QED
    BY <2>2 DEF Life!Next
<1>6. CASE CpuBlock \/ CpuQuantum
  <2>1. PICK to \in {"BLOCKED", "READY"} :
           state' = [state EXCEPT ![p] = to] /\ UNCHANGED <<resident, failed>>
    BY <1>2, <1>6 DEF CpuBlock, CpuQuantum, memory
  <2>2. ending' = ending /\ size' = size
    BY <1>1, <1>3, <2>1, NobodyEnds
  <2>3. resident' = [resident EXCEPT ![p] = TRUE]
    BY <1>1, <1>3, <2>1 DEF TypeOK
  <2>4. Life!Block(p) \/ Life!Yield(p)
    BY <1>3, <2>1, <2>2, <2>3 DEF Life!Block, Life!Yield, Life!Move, ending, size
  <2> QED
    BY <2>4 DEF Life!Next
<1>7. CASE CpuContinue
  BY <1>1, <1>7, FrameStutters DEF CpuContinue, Frame, memory
<1> QED
  BY <1>4, <1>5, <1>6, <1>7 DEF Cpu

(* The kernel with its queues, clock, devices and swapper is a correct     *)
(* implementation of the life of its processes: main_loop never skips or   *)
(* undoes a state, evicts only blocked processes, rejects only those that  *)
(* can never fit, and gives the CPU to one process at a time.              *)
THEOREM KernelImplementsLifecycle == Spec => ImplementsLifecycle
<1>1. Init => Life!Init
  <2> SUFFICES ASSUME Init PROVE Life!Init
    OBVIOUS
  <2>1. profile \in [Procs -> Profile]
    BY KernelAssumption DEF Init, Initially
  <2>2. \A p \in Procs : profile[p].blocks \in Nat
    BY <2>1 DEF Profile
  <2> QED
    BY <2>2 DEF Init, Initially, Life!Init
<1>2. KernelInv /\ [Next]_vars => [Life!Next]_(Life!lifeVars)
  <2> SUFFICES ASSUME KernelInv, [Next]_vars PROVE [Life!Next]_(Life!lifeVars)
    OBVIOUS
  <2>1. CASE Stopped \/ UNCHANGED vars
    BY <2>1, FrameStutters DEF Stopped, vars, setup, pcb, memory, Frame
  <2> QED
    BY <2>1, ArrivalMaps, SwapperMaps, AdmissionMaps, DecisionMaps, DeviceMaps, CpuMaps
    DEF Next
<1> QED
  BY <1>1, <1>2, KernelInvariant, PTL DEF Spec, ImplementsLifecycle, Life!Spec

-----------------------------------------------------------------------------
(* The five ways in which a step changes the times of the processes.       *)

(* Nobody's time changes; the CPU may lose its process.                    *)
Quiet ==
    /\ UNCHANGED <<sched, failed, profile, config, current_time>>
    /\ running' \in {running, NULL}
    /\ \A p \in Procs : (state'[p] = "TERMINATED") <=> (state[p] = "TERMINATED")

(* A resident process gets the CPU.                                        *)
GetsCpu ==
    \E p \in Procs :
        /\ state[p] = "READY" /\ Dispatch(p)
        /\ UNCHANGED <<failed, profile, config, current_time>>

(* The waiting processes are charged.                                      *)
Ticks ==
    \E d \in Nat :
        /\ sched' = [p \in Procs |-> Charge(p, d)]
        /\ current_time' = current_time + d
        /\ UNCHANGED <<failed, profile, config, running, state>>

(* A process that waits is rejected or cancelled.                          *)
Cancels ==
    \E p \in Procs :
        /\ p # running /\ state[p] \in {"NEW", "BLOCKED"} /\ Finish(p, TRUE, sched)
        /\ UNCHANGED <<running, profile, config, current_time>>

(* A process that begins a walk or a device queue has the state it needs.  *)
LEMMA HeadsOfWalks ==
    ASSUME KernelInv
    PROVE  /\ pc \in Job /\ todo # <<>> =>
                  /\ Head(todo) \in Procs /\ Head(todo) \in Range(job_q)
                  /\ state[Head(todo)] = "NEW"
           /\ CompleteIo =>
                  /\ Requester \in Procs /\ state[Requester] = "BLOCKED"
                  /\ Requester # running
<1>1. TypeOK /\ Structure
  BY DEF KernelInv, TypeInv
<1>2. ASSUME pc \in Job, todo # <<>>
      PROVE  /\ Head(todo) \in Procs /\ Head(todo) \in Range(job_q)
             /\ state[Head(todo)] = "NEW"
  <2>1. Head(todo) \in Procs /\ Head(todo) \in Range(job_q)
    BY <1>1, <1>2, WalkProperties DEF KernelInv, WalkStaysInQueue, TypeOK
  <2> QED
    BY <1>1, <2>1 DEF Structure, OnePlaceEach, InPlace
<1> QED
  BY <1>2, ServedRequest

(* Walks, admissions, decisions and device steps leave times and CPU alone.  *)
LEMMA QuietSteps ==
    ASSUME KernelInv,
           \/ Arrival \/ Swapper \/ Admit \/ SkipJob \/ JobDone
           \/ Preempt \/ KeepRunning \/ StopSimulation \/ EndTick
           \/ DeviceWorks \/ IoComplete \/ TickDone \/ Stopped
    PROVE  Quiet
<1> USE DEF Quiet, setup, pcb, cpu, clock
<1>0. TypeOK
  BY DEF KernelInv, TypeInv
<1>1. CASE Arrival
  BY <1>0, <1>1, WalkProperties
  DEF Arrival, BeginTick, Arrive, SkipRow, ArrivalDone, Arrives, TypeOK
<1>2. CASE Swapper
  BY <1>2 DEF Swapper, SwapIn, SkipSwapIn, SwapOut, MidTermDone
<1>3. CASE Admit
  <2>1. state' = [state EXCEPT ![Head(todo)] = "READY"] /\ state[Head(todo)] = "NEW"
    BY <1>3, HeadsOfWalks DEF Admit
  <2> QED
    BY <1>0, <1>3, <2>1 DEF Admit, TypeOK
<1>4. CASE SkipJob \/ JobDone
  BY <1>4 DEF SkipJob, JobDone
<1>5. CASE Preempt
  <2>1. running \in Procs /\ state[running] = "RUNNING"
    BY <1>0, <1>5 DEF Preempt, ShouldPreempt, TypeOK, KernelInv, Structure,
                      OnePlaceEach, InPlace
  <2> QED
    BY <1>0, <1>5, <2>1 DEF Preempt, TypeOK
<1>6. CASE KeepRunning \/ StopSimulation \/ EndTick
  BY <1>6 DEF KeepRunning, StopSimulation, EndTick
<1>7. CASE DeviceWorks \/ TickDone
  BY <1>7 DEF DeviceWorks, AtDevice, TickDone
<1>8. CASE IoComplete
  <2>1. /\ state' = [state EXCEPT ![Requester] = "READY"]
        /\ state[Requester] = "BLOCKED"
    BY <1>8, HeadsOfWalks DEF IoComplete
  <2> QED
    BY <1>0, <1>8, <2>1 DEF IoComplete, CompleteIo, AtDevice, TypeOK
<1>9. CASE Stopped
  BY <1>9 DEF Stopped, vars
<1> QED
  BY <1>1, <1>2, <1>3, <1>4, <1>5, <1>6, <1>7, <1>8, <1>9

(* Whom the scheduler selects was in ready_q.                              *)
LEMMA ChosenIsReady ==
    ASSUME KernelInv, NEW p \in ChosenFrom(ready_q)
    PROVE  p \in Procs /\ p \in Range(ready_q) /\ state[p] = "READY"
<1>1. p \in Procs /\ p \in Range(ready_q)
  BY DEF ChosenFrom, KernelInv, TypeInv, TypeOK, Range
<1> QED
  BY <1>1 DEF KernelInv, Structure, OnePlaceEach, InPlace

(* select_next dispatches a process, or prepares its switch and dispatches nobody. *)
LEMMA SelectSteps ==
    ASSUME KernelInv, SelectNext
    PROVE  Quiet \/ GetsCpu
<1>1. PICK p \in ChosenFrom(ready_q) :
        \/ Dispatch(p)
        \/ UNCHANGED <<running, state, sched>>
  BY DEF SelectNext
<1>2. UNCHANGED <<failed, profile, config, current_time>>
  BY DEF SelectNext, setup, clock
<1> QED
  BY <1>1, <1>2, ChosenIsReady DEF Quiet, GetsCpu

(* The three kinds of tick charge a time to everybody and move the clock by it. *)
LEMMA TickSteps ==
    ASSUME KernelInv, SwitchTick \/ IdleTick \/ RunTick
    PROVE  Ticks
<1>1. TICK \in Nat /\ SwitchShare \in Nat
  BY KernelAssumption DEF SwitchShare, KernelInv, TypeInv, TypeOK
<1>2. CASE SwitchTick
  BY <1>1, <1>2 DEF SwitchTick, StartTick, Ticks, setup
<1>3. CASE IdleTick
  BY <1>1, <1>3 DEF IdleTick, StartTick, Ticks, setup, cpu
<1>4. CASE RunTick
  BY <1>1, <1>4 DEF RunTick, StartTick, Ticks, setup, cpu
<1> QED
  BY <1>2, <1>3, <1>4

(* A rejected job and a cancelled request end a process that does not run.   *)
LEMMA CancelSteps ==
    ASSUME KernelInv, Reject \/ KeyboardCancel
    PROVE  Cancels
<1>1. CASE Reject
  <2>1. /\ Head(todo) \in Procs /\ state[Head(todo)] = "NEW"
        /\ Finish(Head(todo), TRUE, sched)
    BY <1>1, HeadsOfWalks DEF Reject
  <2>2. Head(todo) # running
    BY <2>1 DEF KernelInv, Structure, OnePlaceEach, InPlace
  <2>3. UNCHANGED <<running, profile, config, current_time>>
    BY <1>1 DEF Reject, setup, cpu, clock
  <2> QED
    BY <2>1, <2>2, <2>3 DEF Cancels
<1>2. CASE KeyboardCancel
  BY <1>2, HeadsOfWalks
  DEF KeyboardCancel, CompleteIo, AtDevice, Cancels, setup, cpu, clock
<1> QED
  BY <1>1, <1>2

(* Dispatch at the end of a switch: its process is still ready.            *)
LEMMA SwitchDoneDispatches ==
    ASSUME KernelInv, SwitchDone
    PROVE  GetsCpu
<1>1. next_pcb \in Procs
  BY DEF SwitchDone, KernelInv, TypeInv, TypeOK, TickHasOwner
<1>2. state[next_pcb] = "READY"
  BY <1>1 DEF KernelInv, Structure, OnePlaceEach, InPlace
<1> QED
  BY <1>1, <1>2 DEF SwitchDone, GetsCpu, setup, clock

(* So every step is one of these, or the end of a tick of the CPU.         *)
LEMMA StepCases ==
    ASSUME KernelInv, Next
    PROVE  Quiet \/ GetsCpu \/ Ticks \/ Cancels \/ Cpu
<1>1. CASE SelectNext
  BY <1>1, SelectSteps
<1>2. CASE SwitchTick \/ IdleTick \/ RunTick
  BY <1>2, TickSteps
<1>3. CASE Reject \/ KeyboardCancel
  BY <1>3, CancelSteps
<1>4. CASE SwitchDone
  BY <1>4, SwitchDoneDispatches
<1>5. CASE \/ Arrival \/ Swapper \/ Admit \/ SkipJob \/ JobDone
           \/ Preempt \/ KeepRunning \/ StopSimulation \/ EndTick
           \/ DeviceWorks \/ IoComplete \/ TickDone \/ Stopped
  BY <1>5, QuietSteps
<1> QED
  BY <1>1, <1>2, <1>3, <1>4, <1>5 DEF Next, Admission, Decision, Device

(* What each of them does to the fields of SchedulerData.                  *)

(* tick_background leaves what the CPU counts alone.                       *)
LEMMA ChargedTimes ==
    ASSUME TypeOK, NEW p \in Procs, NEW d \in Nat
    PROVE  /\ Charge(p, d).remaining = sched[p].remaining
           /\ Charge(p, d).cpu = sched[p].cpu
           /\ Charge(p, d).quantum = sched[p].quantum
           /\ Charge(p, d).start = sched[p].start
           /\ Charge(p, d).finish = sched[p].finish
<1>1. sched[p] \in SchedData
  BY DEF TypeOK
<1> QED
  BY <1>1 DEF Charge, SchedData

(* What run_process charges: a tick, to the running process alone.           *)
LEMMA RanTimes ==
    ASSUME TypeOK, running \in Procs, NEW p \in Procs
    PROVE  /\ Ran[p].remaining = sched[p].remaining - IF p = running THEN TICK ELSE 0
           /\ Ran[p].cpu = sched[p].cpu + IF p = running THEN TICK ELSE 0
           /\ Ran[p].quantum = IF p = running /\ config.alg_sched = "ROUND"
                               THEN sched[p].quantum - TICK ELSE sched[p].quantum
           /\ Ran[p].start = sched[p].start /\ Ran[p].finish = sched[p].finish
           /\ Ran[p].ready = sched[p].ready
           /\ Ran[p].blocked = sched[p].blocked
           /\ Ran[p].nonresident = sched[p].nonresident
<1> DEFINE s == sched[running]
           left == IF config.alg_sched = "ROUND" THEN s.quantum - TICK ELSE s.quantum
           new == [s EXCEPT !.remaining = s.remaining - TICK, !.cpu = s.cpu + TICK,
                            !.quantum = left]
<1>1. sched \in [Procs -> SchedData] /\ s \in SchedData
  BY DEF TypeOK
<1>2. Ran = [sched EXCEPT ![running] = new]
  BY DEF Ran
<1>3. /\ new.remaining = s.remaining - TICK /\ new.cpu = s.cpu + TICK
      /\ new.quantum = left /\ new.start = s.start /\ new.ready = s.ready
      /\ new.blocked = s.blocked /\ new.nonresident = s.nonresident
      /\ new.finish = s.finish
  <2> HIDE DEF left
  <2> QED
    BY <1>1 DEF SchedData
<1> HIDE DEF new
<1>4. /\ sched[p].remaining \in Int /\ sched[p].cpu \in Int
      /\ Ran[p] = IF p = running THEN new ELSE sched[p]
  BY <1>1, <1>2, FieldTypes
<1> QED
  BY <1>3, <1>4

(* What dispatch_process changes: quantum and first start of one process.    *)
LEMMA DispatchedTimes ==
    ASSUME TypeOK, NEW p \in Procs, Dispatch(p), NEW q \in Procs
    PROVE  /\ sched'[q].remaining = sched[q].remaining
           /\ sched'[q].cpu = sched[q].cpu
           /\ sched'[q].quantum = IF q = p THEN QuantumFor(p) ELSE sched[q].quantum
           /\ sched'[q].start = IF q = p /\ sched[p].start < 0 THEN current_time
                                ELSE sched[q].start
           /\ sched'[q].finish = sched[q].finish
           /\ sched'[q].ready = sched[q].ready
           /\ sched'[q].blocked = sched[q].blocked
           /\ sched'[q].nonresident = sched[q].nonresident
<1> DEFINE start == IF sched[p].start < 0 THEN current_time ELSE sched[p].start
           new == [sched[p] EXCEPT !.start = start, !.quantum = QuantumFor(p)]
<1>1. sched \in [Procs -> SchedData] /\ sched[p] \in SchedData
  BY DEF TypeOK
<1>2. sched' = [sched EXCEPT ![p] = new]
  BY DEF Dispatch
<1>3. /\ new.remaining = sched[p].remaining /\ new.cpu = sched[p].cpu
      /\ new.quantum = QuantumFor(p) /\ new.start = start
      /\ new.finish = sched[p].finish /\ new.ready = sched[p].ready
      /\ new.blocked = sched[p].blocked /\ new.nonresident = sched[p].nonresident
  <2> HIDE DEF start
  <2> QED
    BY <1>1 DEF SchedData
<1> HIDE DEF new
<1> QED
  BY <1>1, <1>2, <1>3

(* What finish_process changes: finish, and the remainder of a success.      *)
LEMMA FinishedTimes ==
    ASSUME TypeOK, NEW p \in Procs, NEW fails,
           NEW times \in [Procs -> SchedData], Finish(p, fails, times),
           NEW q \in Procs
    PROVE  /\ sched'[q].remaining = IF q = p /\ ~fails THEN 0 ELSE times[q].remaining
           /\ sched'[q].finish = IF q = p THEN current_time ELSE times[q].finish
           /\ sched'[q].cpu = times[q].cpu
           /\ sched'[q].quantum = times[q].quantum
           /\ sched'[q].start = times[q].start
           /\ sched'[q].ready = times[q].ready
           /\ sched'[q].blocked = times[q].blocked
           /\ sched'[q].nonresident = times[q].nonresident
           /\ state'[q] = IF q = p THEN "TERMINATED" ELSE state[q]
           /\ failed'[q] = IF q = p THEN fails ELSE failed[q]
<1> DEFINE left == IF fails THEN times[p].remaining ELSE 0
           new == [times[p] EXCEPT !.remaining = left, !.finish = current_time]
<1>1. sched' = [times EXCEPT ![p] = new]
  BY DEF Finish
<1>2. /\ new.remaining = left /\ new.cpu = times[p].cpu
      /\ new.quantum = times[p].quantum /\ new.start = times[p].start
      /\ new.finish = current_time /\ new.ready = times[p].ready
      /\ new.blocked = times[p].blocked /\ new.nonresident = times[p].nonresident
  <2>1. times[p] \in SchedData
    OBVIOUS
  <2> HIDE DEF left
  <2> QED
    BY <2>1 DEF SchedData
<1> HIDE DEF new
<1>3. /\ state' = [state EXCEPT ![p] = "TERMINATED"]
      /\ failed' = [failed EXCEPT ![p] = fails]
  BY DEF Finish
<1> QED
  BY <1>1, <1>2, <1>3 DEF TypeOK

(* The same for a process that fails without having run.                     *)
LEMMA CancelledTimes ==
    ASSUME TypeOK, NEW p \in Procs, Finish(p, TRUE, sched), NEW q \in Procs
    PROVE  /\ sched'[q].remaining = sched[q].remaining
           /\ sched'[q].finish = IF q = p THEN current_time ELSE sched[q].finish
           /\ sched'[q].cpu = sched[q].cpu
           /\ sched'[q].quantum = sched[q].quantum
           /\ sched'[q].start = sched[q].start
           /\ sched'[q].ready = sched[q].ready
           /\ sched'[q].blocked = sched[q].blocked
           /\ sched'[q].nonresident = sched[q].nonresident
           /\ state'[q] = IF q = p THEN "TERMINATED" ELSE state[q]
           /\ failed'[q] = IF q = p THEN TRUE ELSE failed[q]
<1> DEFINE fails == TRUE
<1>1. fails
  OBVIOUS
<1>2. sched \in [Procs -> SchedData] /\ Finish(p, fails, sched)
  BY DEF TypeOK
<1> HIDE DEF fails
<1>3. /\ sched'[q].remaining = IF q = p /\ ~fails THEN 0 ELSE sched[q].remaining
      /\ sched'[q].finish = IF q = p THEN current_time ELSE sched[q].finish
      /\ sched'[q].cpu = sched[q].cpu
      /\ sched'[q].quantum = sched[q].quantum
      /\ sched'[q].start = sched[q].start
      /\ sched'[q].ready = sched[q].ready
      /\ sched'[q].blocked = sched[q].blocked
      /\ sched'[q].nonresident = sched[q].nonresident
      /\ state'[q] = IF q = p THEN "TERMINATED" ELSE state[q]
      /\ failed'[q] = IF q = p THEN fails ELSE failed[q]
  BY <1>2, FinishedTimes
<1> QED
  BY <1>1, <1>3 DEF fails

(* A tick of the CPU: the running process ran for TICK, and then ended,    *)
(* left the CPU or keeps it.                                               *)
LEMMA CpuCases ==
    ASSUME KernelInv, Cpu
    PROVE  /\ TypeOK /\ running \in Procs /\ state[running] = "RUNNING"
           /\ Ran \in [Procs -> SchedData] /\ pc' = "mid3"
           /\ UNCHANGED <<profile, config, current_time>>
           /\ \/ /\ Fails /\ Finish(running, TRUE, Ran)
                 /\ running' = NULL
              \/ /\ ~Fails /\ Completes /\ Finish(running, FALSE, Ran)
                 /\ running' = NULL
              \/ /\ ~Fails /\ ~Completes /\ UNCHANGED failed
                 /\ \A p \in Procs :
                       (state'[p] = "TERMINATED") <=> (state[p] = "TERMINATED")
                 /\ \/ running' = NULL /\ sched' = Ran
                    \/ /\ running' = NULL
                       /\ sched' = [Ran EXCEPT ![running].quantum = config.quantum]
                    \/ running' = running /\ sched' = Ran /\ ~QuantumExpires
<1>1. TypeOK /\ pc = "cpu" /\ running \in Procs
  BY DEF KernelInv, TypeInv, TypeOK, TickHasOwner,
         Cpu, CpuFail, CpuTerminate, CpuBlock, CpuQuantum, CpuContinue, Run
<1>2. state[running] = "RUNNING" /\ Ran \in [Procs -> SchedData]
  BY <1>1, RanType DEF KernelInv, Structure, OnePlaceEach, InPlace
<1>3. UNCHANGED <<profile, config, current_time>> /\ pc' = "mid3"
  BY DEF Cpu, CpuFail, CpuTerminate, CpuBlock, CpuQuantum, CpuContinue, Run, setup, clock,
         Goto
<1>4. CASE CpuFail
  BY <1>1, <1>2, <1>3, <1>4 DEF CpuFail, LeaveCpu
<1>5. CASE CpuTerminate
  BY <1>1, <1>2, <1>3, <1>5 DEF CpuTerminate, LeaveCpu
<1>6. CASE CpuBlock
  BY <1>1, <1>2, <1>3, <1>6 DEF CpuBlock, LeaveCpu, TypeOK
<1>7. CASE CpuQuantum
  BY <1>1, <1>2, <1>3, <1>7 DEF CpuQuantum, LeaveCpu, TypeOK
<1>8. CASE CpuContinue
  BY <1>1, <1>2, <1>3, <1>8 DEF CpuContinue
<1> QED
  BY <1>4, <1>5, <1>6, <1>7, <1>8 DEF Cpu

-----------------------------------------------------------------------------
(* Round Robin.                                                            *)

(* QuantumRespected speaks of the running process only; it takes its       *)
(* quantum along when it leaves the CPU, and comes back with it.           *)
QuantumInv ==
    config.alg_sched = "ROUND" =>
        /\ \A p \in Procs : sched[p].quantum =< config.quantum
        /\ running # NULL => sched[running].quantum > 0

(* Before the first tick nobody has more than the whole quantum.             *)
LEMMA InitQuantum == Init => QuantumInv
<1> SUFFICES ASSUME Init PROVE QuantumInv
  OBVIOUS
<1>1. config \in Config
  BY KernelAssumption DEF Init, Initially
<1> QED
  BY <1>1 DEF Init, Initially, QuantumInv, Config, Settings

(* No step gives more than the quantum or leaves a runner without any.       *)
LEMMA StepQuantum == KernelInv /\ QuantumInv /\ Next => QuantumInv'
<1> SUFFICES ASSUME KernelInv, QuantumInv, Next, config'.alg_sched = "ROUND"
             PROVE  /\ \A p \in Procs : sched'[p].quantum =< config'.quantum
                    /\ running' # NULL => sched'[running'].quantum > 0
  BY DEF QuantumInv
<1>0. /\ TypeOK /\ running \in Procs \cup {NULL} /\ config.quantum \in Int
      /\ config.alg_sched = "ROUND" => config.quantum > 0
      /\ \A p \in Procs : sched[p].quantum \in Int
      /\ NULL \notin Procs /\ TICK \in Nat \ {0}
  <2>1. TypeOK /\ config \in Config
    BY DEF KernelInv, TypeInv, TypeOK
  <2> QED
    BY <2>1, FieldTypes, KernelAssumption, SMTT(40) DEF TypeOK, Config, Settings, ValidConfig
<1>1. CASE Quiet
  BY <1>0, <1>1 DEF Quiet, QuantumInv
<1>2. CASE GetsCpu
  <2>1. PICK p \in Procs : Dispatch(p) /\ config' = config
    BY <1>2 DEF GetsCpu
  <2>2. \A q \in Procs : sched'[q].quantum = IF q = p THEN QuantumFor(p)
                                             ELSE sched[q].quantum
    BY <1>0, <2>1, DispatchedTimes
  <2>3. running' = p /\ QuantumFor(p) \in Int
        /\ QuantumFor(p) > 0 /\ QuantumFor(p) =< config.quantum
    BY <1>0, <2>1 DEF Dispatch, QuantumFor, QuantumInv
  <2> QED
    BY <1>0, <2>1, <2>2, <2>3 DEF QuantumInv
<1>3. CASE Ticks
  <2>1. /\ \A p \in Procs : sched'[p].quantum = sched[p].quantum
        /\ UNCHANGED <<config, running>>
    BY <1>0, <1>3, ChargedTimes DEF Ticks
  <2> QED
    BY <1>0, <2>1 DEF QuantumInv
<1>4. CASE Cancels
  <2>1. PICK p \in Procs : Finish(p, TRUE, sched) /\ UNCHANGED <<config, running>>
    BY <1>4 DEF Cancels
  <2>2. \A q \in Procs : sched'[q].quantum = sched[q].quantum
    BY <1>0, <2>1, CancelledTimes
  <2> QED
    BY <1>0, <2>1, <2>2 DEF QuantumInv
<1>5. CASE Cpu
  <2>1. /\ running \in Procs /\ config' = config /\ Ran \in [Procs -> SchedData]
        /\ \A p \in Procs : Ran[p].quantum \in Int /\ Ran[p].quantum =< config.quantum
    BY <1>0, <1>5, CpuCases, RanTimes DEF QuantumInv
  <2>2. ASSUME NEW fails \in BOOLEAN, running' = NULL, Finish(running, fails, Ran)
        PROVE  \A p \in Procs : sched'[p].quantum =< config.quantum
    <3>1. \A p \in Procs : sched'[p].quantum = Ran[p].quantum
      BY <1>0, <2>1, <2>2, FinishedTimes, SMT
    <3> QED
      BY <2>1, <3>1
  <2>3. CASE sched' = Ran /\ (running' = NULL \/ (running' = running /\ ~QuantumExpires))
    BY <1>0, <2>1, <2>3 DEF QuantumExpires
  <2>4. CASE /\ running' = NULL
             /\ sched' = [Ran EXCEPT ![running].quantum = config.quantum]
    <3>1. \A p \in Procs : Ran[p] \in SchedData
      BY <2>1
    <3>2. \A p \in Procs : sched'[p].quantum \in {Ran[p].quantum, config.quantum}
      BY <2>1, <2>4, <3>1 DEF SchedData
    <3> QED
      BY <1>0, <2>1, <2>4, <3>2
  <2> QED
    BY <1>5, <2>1, <2>2, <2>3, <2>4, CpuCases
<1> QED
  BY <1>1, <1>2, <1>3, <1>4, <1>5, StepCases

(* Under Round Robin nobody ever runs without a quantum, or with more than *)
(* a whole one.                                                            *)
THEOREM QuantaAreRespected == Spec => []QuantumRespected
<1>1. QuantumInv /\ UNCHANGED vars => QuantumInv'
  BY DEF QuantumInv, vars, setup, pcb, cpu
<1>2. KernelInv /\ QuantumInv => QuantumRespected
  <2> SUFFICES ASSUME KernelInv, QuantumInv PROVE QuantumRespected
    OBVIOUS
  <2>1. /\ running \in Procs \cup {NULL} /\ config.quantum \in Int
        /\ \A p \in Procs : sched[p].quantum \in Int
    <3>1. TypeOK /\ config \in Config
      BY DEF KernelInv, TypeInv, TypeOK
    <3> QED
      BY <3>1, FieldTypes DEF TypeOK, Config, Settings
  <2> QED
    BY <2>1 DEF QuantumInv, QuantumRespected
<1> QED
  BY <1>1, <1>2, InitQuantum, StepQuantum, KernelInvariant, PTL DEF Spec

-----------------------------------------------------------------------------
(* Bursts.                                                                 *)

(* While p lives, what is left of its burst and what it was given make the *)
(* whole, and it has not reached the end of its burst nor its error.       *)
BurstGoesOn(p) ==
    /\ ~failed[p]
    /\ sched[p].remaining = profile[p].burst - sched[p].cpu
    /\ sched[p].remaining > 0
    /\ profile[p].planned /\ sched[p].cpu > 0 => sched[p].cpu < profile[p].trigger

BurstOver(p) ==
    IF failed[p]
    THEN sched[p].remaining = profile[p].burst - sched[p].cpu
    ELSE /\ sched[p].remaining = 0
         /\ sched[p].cpu - profile[p].burst \in 0 .. TICK - 1
         /\ profile[p].planned => sched[p].cpu < profile[p].trigger

BurstInv == \A p \in Procs : IF state[p] = "TERMINATED" THEN BurstOver(p) ELSE BurstGoesOn(p)

(* The types that the arithmetic of bursts needs.                            *)
LEMMA BurstTypes ==
    ASSUME TypeOK, NEW p \in Procs
    PROVE  /\ sched[p].remaining \in Int /\ sched[p].cpu \in Nat
           /\ profile[p].burst \in Nat \ {0} /\ profile[p].trigger \in Nat
           /\ TICK \in Nat \ {0}
<1>1. profile[p] \in Profile /\ sched[p] \in SchedData
  BY DEF TypeOK
<1> QED
  BY <1>1, KernelAssumption DEF Profile, SchedData

(* Before the first tick the whole burst remains.                            *)
LEMMA InitBurst == Init => BurstInv
<1> SUFFICES ASSUME Init, NEW p \in Procs PROVE state[p] = "NONE" /\ BurstGoesOn(p)
  BY DEF BurstInv
<1>1. profile \in [Procs -> Profile]
  BY KernelAssumption DEF Init, Initially
<1>2. profile[p].burst \in Nat \ {0}
  BY <1>1 DEF Profile
<1>3. /\ state[p] = "NONE" /\ ~failed[p]
      /\ sched[p].remaining = profile[p].burst /\ sched[p].cpu = 0
  BY DEF Init, Initially
<1> QED
  BY <1>2, <1>3 DEF BurstGoesOn

(* Nothing but a tick of the CPU, or the end, disturbs it.                 *)
LEMMA BurstFrame ==
    ASSUME NEW p \in Procs, IF state[p] = "TERMINATED" THEN BurstOver(p) ELSE BurstGoesOn(p),
           (state'[p] = "TERMINATED") <=> (state[p] = "TERMINATED"),
           failed'[p] = failed[p], profile' = profile,
           sched'[p].remaining = sched[p].remaining, sched'[p].cpu = sched[p].cpu
    PROVE  IF state'[p] = "TERMINATED" THEN BurstOver(p)' ELSE BurstGoesOn(p)'
  BY DEF BurstOver, BurstGoesOn

(* What remains and what was served add up to the burst after every step.    *)
LEMMA StepBurst == KernelInv /\ BurstInv /\ Next => BurstInv'
<1> SUFFICES ASSUME KernelInv, BurstInv, Next, NEW q \in Procs
             PROVE  IF state'[q] = "TERMINATED" THEN BurstOver(q)' ELSE BurstGoesOn(q)'
  BY DEF BurstInv
<1>0. TypeOK /\ IF state[q] = "TERMINATED" THEN BurstOver(q) ELSE BurstGoesOn(q)
  BY DEF KernelInv, TypeInv, BurstInv
<1>1. CASE Quiet
  BY <1>0, <1>1, BurstFrame DEF Quiet
<1>2. CASE GetsCpu
  <2>1. PICK p \in Procs : /\ Dispatch(p) /\ state[p] = "READY"
                          /\ UNCHANGED <<failed, profile>>
    BY <1>2 DEF GetsCpu
  <2>2. (state'[q] = "TERMINATED") <=> (state[q] = "TERMINATED")
    BY <1>0, <2>1 DEF Dispatch, TypeOK
  <2> QED
    BY <1>0, <2>1, <2>2, DispatchedTimes, BurstFrame
<1>3. CASE Ticks
  <2>1. sched'[q].remaining = sched[q].remaining /\ sched'[q].cpu = sched[q].cpu
    BY <1>0, <1>3, ChargedTimes DEF Ticks
  <2> QED
    BY <1>0, <1>3, <2>1, BurstFrame DEF Ticks
<1>4. CASE Cancels
  <2>1. PICK p \in Procs : /\ Finish(p, TRUE, sched) /\ state[p] # "TERMINATED"
                          /\ UNCHANGED profile
    BY <1>4 DEF Cancels
  <2>2. /\ sched'[q].remaining = sched[q].remaining /\ sched'[q].cpu = sched[q].cpu
        /\ state'[q] = IF q = p THEN "TERMINATED" ELSE state[q]
        /\ failed'[q] = IF q = p THEN TRUE ELSE failed[q]
    BY <1>0, <2>1, CancelledTimes
  <2>3. CASE q = p
    BY <1>0, <2>1, <2>2, <2>3 DEF BurstGoesOn, BurstOver
  <2>4. CASE q # p
    BY <1>0, <2>1, <2>2, <2>4, BurstFrame
  <2> QED
    BY <2>3, <2>4
<1>5. CASE Cpu
  <2>1. /\ running \in Procs /\ state[running] = "RUNNING" /\ UNCHANGED profile
        /\ Ran \in [Procs -> SchedData]
        /\ Ran[q].remaining = sched[q].remaining - IF q = running THEN TICK ELSE 0
        /\ Ran[q].cpu = sched[q].cpu + IF q = running THEN TICK ELSE 0
    BY <1>0, <1>5, CpuCases, RanTimes
  <2>2. CASE Fails /\ Finish(running, TRUE, Ran)
    <3>1. /\ sched'[q].remaining = Ran[q].remaining /\ sched'[q].cpu = Ran[q].cpu
          /\ state'[q] = IF q = running THEN "TERMINATED" ELSE state[q]
          /\ failed'[q] = IF q = running THEN TRUE ELSE failed[q]
      <4> DEFINE fails == TRUE
      <4>1. Finish(running, fails, Ran)
        BY <2>2
      <4> HIDE DEF fails
      <4>2. /\ sched'[q].remaining = IF q = running /\ ~fails THEN 0
                                     ELSE Ran[q].remaining
            /\ sched'[q].cpu = Ran[q].cpu
            /\ state'[q] = IF q = running THEN "TERMINATED" ELSE state[q]
            /\ failed'[q] = IF q = running THEN fails ELSE failed[q]
        BY <1>0, <2>1, <4>1, FinishedTimes
      <4> QED
        BY <4>2 DEF fails
    <3>2. CASE q = running
      BY <1>0, <2>1, <3>1, <3>2, BurstTypes DEF BurstGoesOn, BurstOver
    <3>3. CASE q # running
      BY <1>0, <2>1, <3>1, <3>3, BurstTypes, BurstFrame
    <3> QED
      BY <3>2, <3>3
  <2>3. CASE ~Fails /\ Completes /\ Finish(running, FALSE, Ran)
    <3>1. /\ sched'[q].remaining = IF q = running THEN 0 ELSE Ran[q].remaining
          /\ sched'[q].cpu = Ran[q].cpu
          /\ state'[q] = IF q = running THEN "TERMINATED" ELSE state[q]
          /\ failed'[q] = IF q = running THEN FALSE ELSE failed[q]
      <4> DEFINE fails == FALSE
      <4>1. Finish(running, fails, Ran)
        BY <2>3
      <4> HIDE DEF fails
      <4>2. /\ sched'[q].remaining = IF q = running /\ ~fails THEN 0
                                     ELSE Ran[q].remaining
            /\ sched'[q].cpu = Ran[q].cpu
            /\ state'[q] = IF q = running THEN "TERMINATED" ELSE state[q]
            /\ failed'[q] = IF q = running THEN fails ELSE failed[q]
        BY <1>0, <2>1, <4>1, FinishedTimes
      <4> QED
        BY <4>2 DEF fails
    <3>2. CASE q = running
      BY <1>0, <2>1, <2>3, <3>1, <3>2, BurstTypes
      DEF BurstGoesOn, BurstOver, Fails, Completes
    <3>3. CASE q # running
      BY <1>0, <2>1, <3>1, <3>3, BurstTypes, BurstFrame
    <3> QED
      BY <3>2, <3>3
  <2>4. CASE /\ ~Fails /\ ~Completes /\ UNCHANGED failed
             /\ \A p \in Procs : (state'[p] = "TERMINATED") <=> (state[p] = "TERMINATED")
             /\ \/ sched' = Ran
                \/ sched' = [Ran EXCEPT ![running].quantum = config.quantum]
    <3>1. sched'[q].remaining = Ran[q].remaining /\ sched'[q].cpu = Ran[q].cpu
      <4>1. Ran[q] \in SchedData
        BY <2>1
      <4> QED
        BY <2>1, <2>4, <4>1 DEF SchedData
    <3>2. CASE q = running
      BY <1>0, <2>1, <2>4, <3>1, <3>2, BurstTypes
      DEF BurstGoesOn, BurstOver, Fails, Completes
    <3>3. CASE q # running
      BY <1>0, <2>1, <2>4, <3>1, <3>3, BurstTypes, BurstFrame
    <3> QED
      BY <3>2, <3>3
  <2> QED
    BY <1>5, <2>2, <2>3, <2>4, CpuCases
<1> QED
  BY <1>1, <1>2, <1>3, <1>4, <1>5, StepCases

(* The burst of every process, while it lives and after.                   *)
LEMMA BurstInvariant == Spec => []BurstInv
<1>1. BurstInv /\ UNCHANGED vars => BurstInv'
  BY DEF BurstInv, BurstOver, BurstGoesOn, vars, setup, pcb
<1> QED
  BY <1>1, InitBurst, StepBurst, KernelInvariant, PTL DEF Spec

(* Whatever takes the CPU, the device or the memory away from a process,   *)
(* it ends with its whole burst or with its error, and the figures say so. *)
THEOREM BurstsAreServed == Spec => []BurstServed
<1>1. BurstInv => BurstServed
  BY DEF BurstInv, BurstOver, BurstServed
<1> QED
  BY <1>1, BurstInvariant, PTL

-----------------------------------------------------------------------------
(* Devices.                                                                *)

(* A request is answered only after it was made, so a process that runs    *)
(* and has not made its request has nothing answered.                      *)
DeviceInv ==
    /\ DeviceServesInOrder
    /\ \A p \in Procs : io[p].completed => io[p].started

(* The request of p, at place i of a queue, has begun only at the head.    *)
Waiting(p, i) ==
    /\ io[p].started /\ ~io[p].completed
    /\ IF i = 1 THEN io[p].remaining \in 1 .. profile[p].io_duration
                ELSE io[p].remaining = profile[p].io_duration

(* Before the first tick no device has a queue.                              *)
LEMMA InitDevice == Init => DeviceInv
  BY DEF Init, Initially, DeviceInv, DeviceServesInOrder

(* Only requests, devices and workload matter to the order of service.       *)
LEMMA DeviceFrame ==
    ASSUME DeviceInv, UNCHANGED <<io, device_q, profile>>
    PROVE  DeviceInv'
  BY DEF DeviceInv, DeviceServesInOrder

(* The device's queue without its head.                                    *)
LEMMA DequeueOfHead ==
    ASSUME NEW S, NEW q \in Seq(S), q # <<>>, NoDuplicates(q)
    PROVE  Dequeue(q, Head(q)) = Tail(q)
<1>1. 1 \in DOMAIN q /\ Head(q) = q[1] /\ Head(q) \in Range(q)
  BY WalkProperties
<1>2. (CHOOSE i \in DOMAIN q : q[i] = Head(q) /\ \A j \in 1 .. i - 1 : q[j] # Head(q)) = 1
  <2>1. q[1] = Head(q) /\ \A j \in 1 .. 1 - 1 : q[j] # Head(q)
    BY <1>1
  <2>2. \A i \in DOMAIN q : q[i] = Head(q) => i = 1
    BY <1>1 DEF NoDuplicates
  <2> QED
    BY <1>1, <2>1, <2>2
<1>3. RemoveAt(q, 1) = Tail(q)
  <2>1. SubSeq(q, 1, 0) = <<>> /\ SubSeq(q, 2, Len(q)) = Tail(q)
    OBVIOUS
  <2>2. Tail(q) \in Seq(S)
    OBVIOUS
  <2> QED
    BY <2>1, <2>2 DEF RemoveAt
<1> QED
  BY <1>1, <1>2, <1>3 DEF Dequeue

(* The types of one place in the queue of a device.                          *)
LEMMA DeviceTypes ==
    ASSUME KernelInv, NEW d \in Devices, NEW i \in DOMAIN device_q[d]
    PROVE  /\ TypeOK /\ device_q[d] \in Seq(Procs) /\ device_q[d][i] \in Procs
           /\ io[device_q[d][i]] \in IoState
           /\ profile[device_q[d][i]].io_duration \in Nat \ {0}
           /\ d = profile[device_q[d][i]].device
           /\ device_q[d][i] # running
<1>1. TypeOK /\ device_q[d] \in Seq(Procs)
  BY DEF KernelInv, TypeInv, TypeOK
<1>2. device_q[d][i] \in Procs /\ device_q[d][i] \in Range(device_q[d])
  BY <1>1 DEF Range
<1>3. profile[device_q[d][i]] \in Profile /\ io[device_q[d][i]] \in IoState
  BY <1>1, <1>2 DEF TypeOK
<1>4. d = profile[device_q[d][i]].device /\ device_q[d][i] # running
  BY <1>2 DEF KernelInv, Structure, OnePlaceEach, InPlace
<1> QED
  BY <1>1, <1>2, <1>3, <1>4 DEF Profile

(* Only the request at the head changes, and no other queue has it.        *)
LEMMA OnlyTheHead ==
    ASSUME KernelInv, AtDevice, device_q[dev] # <<>>,
           NEW d \in Devices, NEW i \in DOMAIN device_q[d],
           device_q[d][i] = Requester
    PROVE  d = dev /\ i = 1
<1>1. dev \in Devices /\ device_q[dev] \in Seq(Procs)
  BY VisitedDevice DEF KernelInv, TypeInv
<1>2. 1 \in DOMAIN device_q[dev] /\ Requester = device_q[dev][1]
  BY <1>1 DEF Requester
<1>3. d = dev
  BY <1>1, <1>2, DeviceTypes
<1>4. NoDuplicates(device_q[dev])
  BY <1>1 DEF KernelInv, Structure, OnePlaceEach, QueuesDistinct
<1> QED
  BY <1>2, <1>3, <1>4 DEF NoDuplicates

(* A device serves the head of its queue only, and not beyond its end.       *)
LEMMA DeviceWorksInOrder ==
    ASSUME KernelInv, DeviceInv, DeviceWorks
    PROVE  DeviceInv'
<1>0. /\ TypeOK /\ AtDevice /\ UNCHANGED <<device_q, profile>>
      /\ delta \in Nat
  <2>1. TypeOK /\ delta \in 0 .. TICK /\ TICK \in Nat
    BY KernelAssumption DEF KernelInv, TypeInv, TypeOK
  <2> QED
    BY <2>1 DEF DeviceWorks, AtDevice, setup, queues
<1>1. CASE device_q[dev] = <<>>
  BY <1>0, <1>1, DeviceFrame DEF DeviceWorks
<1>2. CASE device_q[dev] # <<>>
  <2> DEFINE r == Requester
  <2>1. dev \in Devices /\ device_q[dev] \in Seq(Procs) /\ 1 \in DOMAIN device_q[dev]
        /\ r = device_q[dev][1]
    BY <1>0, <1>2, VisitedDevice DEF Requester
  <2>2. /\ r \in Procs /\ io[r] \in IoState
        /\ io[r].remaining \in 1 .. profile[r].io_duration
        /\ profile[r].io_duration \in Nat
        /\ io[r].started /\ ~io[r].completed
    BY <2>1, DeviceTypes DEF DeviceInv, DeviceServesInOrder
  <2>3. /\ io' = [io EXCEPT ![r].remaining = io[r].remaining - delta]
        /\ ~(io[r].remaining =< delta)
    BY <1>2 DEF DeviceWorks, Served
  <2>4. /\ io'[r].started = io[r].started /\ io'[r].completed = io[r].completed
        /\ io'[r].remaining = io[r].remaining - delta
        /\ \A p \in Procs : p # r => io'[p] = io[p]
    BY <1>0, <2>2, <2>3 DEF TypeOK, IoState
  <2>5. io'[r].remaining \in 1 .. profile[r].io_duration
    BY <1>0, <2>2, <2>3, <2>4
  <2> HIDE DEF r
  <2>6. ASSUME NEW d \in Devices, NEW i \in DOMAIN device_q'[d]
        PROVE  Waiting(device_q[d][i], i)'
    <3>1. Waiting(device_q[d][i], i) /\ device_q[d][i] \in Procs
      BY <1>0, <2>6, DeviceTypes DEF DeviceInv, DeviceServesInOrder, Waiting
    <3>2. CASE device_q[d][i] = r
      <4>1. i = 1
        BY <1>0, <1>2, <2>6, <3>2, OnlyTheHead DEF r
      <4> QED
        BY <1>0, <2>2, <2>4, <2>5, <3>1, <3>2, <4>1 DEF Waiting
    <3>3. CASE device_q[d][i] # r
      BY <1>0, <2>4, <3>1, <3>3 DEF Waiting
    <3> QED
      BY <3>2, <3>3
  <2>7. \A p \in Procs : io'[p].completed => io'[p].started
    BY <2>2, <2>4 DEF DeviceInv
  <2> QED
    BY <1>0, <2>6, <2>7 DEF DeviceInv, DeviceServesInOrder, Waiting
<1> QED
  BY <1>1, <1>2

(* When the head leaves, the next one has not been served yet.               *)
LEMMA CompleteIoInOrder ==
    ASSUME KernelInv, DeviceInv, CompleteIo
    PROVE  DeviceInv'
<1> DEFINE r == Requester
<1>1. /\ TypeOK /\ AtDevice /\ UNCHANGED profile /\ device_q[dev] # <<>>
      /\ dev \in Devices /\ device_q[dev] \in Seq(Procs)
  BY VisitedDevice DEF KernelInv, TypeInv, CompleteIo, AtDevice, setup
<1>2. 1 \in DOMAIN device_q[dev] /\ r = device_q[dev][1]
  BY <1>1 DEF Requester
<1>3. r \in Procs /\ io[r].started
  BY <1>1, <1>2, DeviceTypes DEF DeviceInv, DeviceServesInOrder
<1>4. device_q' = [device_q EXCEPT ![dev] = Tail(device_q[dev])]
  <2>1. NoDuplicates(device_q[dev])
    BY <1>1 DEF KernelInv, Structure, OnePlaceEach, QueuesDistinct
  <2> QED
    BY <1>1, <2>1, DequeueOfHead DEF CompleteIo, Requester
<1>5. /\ io' = [io EXCEPT ![r].remaining = 0, ![r].completed = TRUE]
      /\ io[r] \in IoState
  BY <1>1, <1>3 DEF CompleteIo, TypeOK
<1>6. /\ \A p \in Procs : p # r => io'[p] = io[p]
      /\ io'[r].started = io[r].started
  BY <1>1, <1>3, <1>5 DEF TypeOK, IoState
<1> HIDE DEF r
<1>7. ASSUME NEW d \in Devices, NEW i \in DOMAIN device_q'[d]
      PROVE  Waiting(device_q[d][i], i)'
  <2>1. PICK j \in DOMAIN device_q[d] :
          /\ device_q'[d][i] = device_q[d][j] /\ (i # 1 => j # 1)
          /\ d = dev => j # 1
    <3>1. CASE d = dev
      <4>1. device_q'[d] = Tail(device_q[d])
        BY <1>1, <1>4, <3>1 DEF TypeOK
      <4>2. i + 1 \in DOMAIN device_q[d] /\ i + 1 # 1
            /\ device_q'[d][i] = device_q[d][i + 1]
        BY <1>1, <1>7, <3>1, <4>1
      <4> QED
        BY <4>2
    <3>2. CASE d # dev
      BY <1>1, <1>4, <1>7, <3>2 DEF TypeOK
    <3> QED
      BY <3>1, <3>2
  <2>2. device_q[d][j] \in Procs /\ device_q[d][j] # r
    BY <1>1, <2>1, DeviceTypes, OnlyTheHead DEF r
  <2>3. Waiting(device_q[d][j], j) /\ profile[device_q[d][j]].io_duration \in Nat \ {0}
    BY DeviceTypes DEF DeviceInv, DeviceServesInOrder, Waiting
  <2> QED
    BY <1>1, <1>6, <2>1, <2>2, <2>3 DEF Waiting
<1>8. \A p \in Procs : io'[p].completed => io'[p].started
  BY <1>3, <1>6 DEF DeviceInv
<1> QED
  BY <1>7, <1>8 DEF DeviceInv, DeviceServesInOrder, Waiting

(* A new request enters at the end of the queue, unserved.                   *)
LEMMA CpuBlockInOrder ==
    ASSUME KernelInv, DeviceInv, CpuBlock
    PROVE  DeviceInv'
<1> DEFINE r == running
           at == profile[running].device
<1>1. /\ TypeOK /\ r \in Procs /\ UNCHANGED profile
  BY CpuCases DEF Cpu
<1>2. /\ at \in Devices /\ io[r] \in IoState /\ device_q[at] \in Seq(Procs)
      /\ profile[r].io_duration \in Nat \ {0}
  BY <1>1 DEF TypeOK, Profile
<1>3. /\ device_q' = [device_q EXCEPT ![at] = Append(device_q[at], r)]
      /\ io' = [io EXCEPT ![r].started = TRUE, ![r].remaining = profile[r].io_duration]
      /\ ~io[r].started
  BY DEF CpuBlock, RequestsIo
<1>4. /\ \A p \in Procs : p # r => io'[p] = io[p]
      /\ io'[r].started /\ ~io'[r].completed
      /\ io'[r].remaining = profile[r].io_duration
  BY <1>1, <1>2, <1>3 DEF TypeOK, IoState, DeviceInv
<1> HIDE DEF r, at
<1>5. ASSUME NEW d \in Devices, NEW i \in DOMAIN device_q'[d]
      PROVE  Waiting(device_q[d][i], i)'
  <2>1. \/ i \in DOMAIN device_q[d] /\ device_q'[d][i] = device_q[d][i]
        \/ device_q'[d][i] = r
    <3>1. CASE d = at
      <4>1. device_q'[d] = Append(device_q[d], r) /\ device_q[d] \in Seq(Procs)
        BY <1>1, <1>2, <1>3, <3>1 DEF TypeOK
      <4> QED
        BY <1>1, <1>5, <4>1
    <3>2. CASE d # at
      BY <1>1, <1>2, <1>3, <1>5, <3>2 DEF TypeOK
    <3> QED
      BY <3>1, <3>2
  <2>2. CASE i \in DOMAIN device_q[d] /\ device_q'[d][i] = device_q[d][i]
    <3>1. device_q[d][i] \in Procs /\ device_q[d][i] # r
      BY <2>2, DeviceTypes DEF r
    <3>2. Waiting(device_q[d][i], i)
      BY <2>2 DEF DeviceInv, DeviceServesInOrder, Waiting
    <3> QED
      BY <1>1, <1>4, <2>2, <3>1, <3>2 DEF Waiting
  <2>3. CASE device_q'[d][i] = r
    BY <1>1, <1>2, <1>4, <2>3 DEF Waiting
  <2> QED
    BY <2>1, <2>2, <2>3
<1>6. \A p \in Procs : io'[p].completed => io'[p].started
  BY <1>4 DEF DeviceInv
<1> QED
  BY <1>5, <1>6 DEF DeviceInv, DeviceServesInOrder, Waiting

(* Every step keeps the devices in order.                                    *)
LEMMA StepDevice == KernelInv /\ DeviceInv /\ [Next]_vars => DeviceInv'
<1> SUFFICES ASSUME KernelInv, DeviceInv, [Next]_vars PROVE DeviceInv'
  OBVIOUS
<1> USE DEF setup, pcb, queues
<1>1. CASE DeviceWorks
  BY <1>1, DeviceWorksInOrder
<1>2. CASE IoComplete \/ KeyboardCancel
  BY <1>2, CompleteIoInOrder DEF IoComplete, KeyboardCancel
<1>3. CASE CpuBlock
  BY <1>3, CpuBlockInOrder
<1>4. CASE Arrival \/ Swapper \/ Admission \/ Decision
  BY <1>4, DeviceFrame
  DEF Arrival, BeginTick, Arrive, SkipRow, ArrivalDone,
      Swapper, SwapIn, SkipSwapIn, SwapOut, MidTermDone,
      Admission, Reject, Admit, SkipJob, JobDone,
      Decision, Preempt, KeepRunning, StopSimulation, EndTick, SelectNext,
      SwitchTick, IdleTick, RunTick, StartTick
<1>5. CASE SwitchDone \/ TickDone \/ Stopped \/ UNCHANGED vars
  BY <1>5, DeviceFrame DEF SwitchDone, TickDone, Stopped, vars
<1>6. CASE CpuFail \/ CpuTerminate \/ CpuQuantum \/ CpuContinue
  BY <1>6, DeviceFrame DEF CpuFail, CpuTerminate, CpuQuantum, CpuContinue, Run
<1> QED
  BY <1>1, <1>2, <1>3, <1>4, <1>5, <1>6 DEF Next, Device, Cpu

(* The requests of every device and every process.                         *)
LEMMA DeviceInvariant == Spec => []DeviceInv
  BY InitDevice, StepDevice, KernelInvariant, PTL DEF Spec

(* No device works on two requests, overtakes, or forgets one, whichever   *)
(* processes are swapped out or cancelled meanwhile.                       *)
THEOREM DevicesServeInOrder == Spec => []DeviceServesInOrder
<1>1. DeviceInv => DeviceServesInOrder
  BY DEF DeviceInv
<1> QED
  BY <1>1, DeviceInvariant, PTL

-----------------------------------------------------------------------------
(* Preemption.                                                             *)

(* Nobody in ready_q should have the CPU instead of p.                     *)
NoneBetter(p) ==
    \A q \in Range(ready_q) :
        /\ config.alg_sched = "P_SJF" => ~Shorter(q, p)
        /\ config.alg_sched = "P_PRIOR" => ~MoreUrgent(q, p)

(* From should_preempt, or from the choice of the scheduler, on until the  *)
(* tick begins.                                                            *)
BestInv ==
    (pc = "decide" /\ running # NULL) \/ (pc = "bg_run" /\ dev = 0) => NoneBetter(running)

(* Whom select_next dispatches, nobody left in ready_q precedes.             *)
LEMMA SelectedIsBest ==
    ASSUME KernelInv, SelectNext, running' # NULL
    PROVE  NoneBetter(running)'
<1>1. PICK p \in ChosenFrom(ready_q) :
        /\ ready_q' = Dequeue(ready_q, p)
        /\ Dispatch(p) \/ running' = running
  BY DEF SelectNext
<1>2. Dispatch(p) /\ running' = p /\ UNCHANGED <<profile, config>>
  BY <1>1 DEF SelectNext, Dispatch, setup
<1>3. TypeOK /\ ready_q \in Seq(Procs) /\ NoDuplicates(ready_q)
  BY QueuesAreDistinct DEF KernelInv, TypeInv, TypeOK
<1>4. p \in Procs /\ p \in Range(ready_q)
  BY ChosenIsReady
<1>5. ASSUME NEW q \in Range(ready_q')
      PROVE  q \in Procs /\ ~BetterChoice(q, p)
  <2>1. q \in Range(ready_q)
    BY <1>1, <1>3, DequeueProperties
  <2> QED
    BY <1>3, <2>1 DEF ChosenFrom, Range
<1>6. \A q \in Procs : sched'[q].remaining = sched[q].remaining
  BY <1>2, <1>3, <1>4, DispatchedTimes
<1>7. /\ config.alg_sched = "P_SJF" => \A q : BetterChoice(q, p) = Shorter(q, p)
      /\ config.alg_sched = "P_PRIOR" => \A q : BetterChoice(q, p) = MoreUrgent(q, p)
  BY DEF BetterChoice
<1> QED
  BY <1>2, <1>4, <1>5, <1>6, <1>7 DEF NoneBetter, Shorter, MoreUrgent

(* From the decision to the tick of the CPU nobody better becomes ready.     *)
LEMMA StepBest == KernelInv /\ BestInv /\ Next => BestInv'
<1> SUFFICES ASSUME KernelInv, BestInv, Next,
                    (pc' = "decide" /\ running' # NULL) \/ (pc' = "bg_run" /\ dev' = 0)
             PROVE  NoneBetter(running)'
  BY DEF BestInv
<1>1. CASE Preempt
  BY <1>1 DEF Preempt, Goto
<1>2. CASE KeepRunning
  <2>1. NoneBetter(running) /\ UNCHANGED <<running, ready_q, sched, profile, config>>
    BY <1>2, KernelAssumption
    DEF KeepRunning, ShouldPreempt, NoneBetter, Goto, setup, pcb, queues, cpu
  <2> QED
    BY <2>1 DEF NoneBetter, Shorter, MoreUrgent
<1>3. CASE SelectNext
  BY <1>3, SelectedIsBest DEF SelectNext, Goto
<1>4. CASE RunTick
  <2>0. TypeOK /\ TICK \in Nat
    BY KernelAssumption DEF KernelInv, TypeInv
  <2>1. /\ NoneBetter(running) /\ running \in Procs
        /\ UNCHANGED <<running, ready_q, profile, config>>
        /\ sched' = [p \in Procs |-> Charge(p, TICK)]
    BY <1>4, <2>0 DEF RunTick, StartTick, BestInv, TypeOK, setup, queues, cpu
  <2>2. \A p \in Procs : sched'[p].remaining = sched[p].remaining
    BY <2>0, <2>1, ChargedTimes
  <2>3. \A q \in Range(ready_q) : q \in Procs
    BY <2>0 DEF TypeOK, Range
  <2> QED
    BY <2>1, <2>2, <2>3 DEF NoneBetter, Shorter, MoreUrgent
<1>5. CASE DeviceWorks \/ IoComplete \/ KeyboardCancel
  <2>1. AtDevice
    BY <1>5 DEF DeviceWorks, IoComplete, KeyboardCancel, CompleteIo
  <2>2. dev \in Nat
    BY <2>1, VisitedDevice, KernelAssumption DEF KernelInv, TypeInv, Devices
  <2> QED
    BY <2>1, <2>2 DEF AtDevice, Background
<1>6. CASE Arrival \/ Swapper \/ Admission
  BY <1>6
  DEF Arrival, BeginTick, Arrive, SkipRow, ArrivalDone,
      Swapper, SwapIn, SkipSwapIn, SwapOut, MidTermDone,
      Admission, Reject, Admit, SkipJob, JobDone, Goto, MidTerm, Job
<1>7. CASE StopSimulation \/ EndTick \/ SwitchTick \/ IdleTick
  BY <1>7 DEF StopSimulation, EndTick, SwitchTick, IdleTick, StartTick, Goto
<1>8. CASE SwitchDone \/ TickDone \/ Stopped
  BY <1>8 DEF SwitchDone, TickDone, Stopped, Goto, vars, walk
<1>9. CASE Cpu
  BY <1>9, CpuCases
<1> QED
  BY <1>1, <1>2, <1>3, <1>4, <1>5, <1>6, <1>7, <1>8, <1>9 DEF Next, Decision, Device

(* Preemptive SJF and priority: whatever arrived, came back or was swapped *)
(* in before a tick of the CPU, the best process gets it.                  *)
THEOREM TheBestRuns == Spec => []BestProcessRuns
<1>1. Init => BestInv
  BY DEF Init, Initially, BestInv
<1>2. BestInv /\ UNCHANGED vars => BestInv'
  BY DEF BestInv, NoneBetter, Shorter, MoreUrgent, vars, walk, setup, pcb, queues, cpu
<1>3. BestInv => BestProcessRuns
  BY DEF BestInv, NoneBetter, BestProcessRuns
<1> QED
  BY <1>1, <1>2, <1>3, StepBest, KernelInvariant, PTL DEF Spec

-----------------------------------------------------------------------------
(* The clock and the totals.                                               *)

(* The switch in progress is paid for as it goes on.                       *)
TotalsInv ==
    /\ ClockIsCharged /\ SwitchesCharged
    /\ next_pcb = NULL => switch_remaining = 0

Totals == <<stats.cpu_time, stats.idle_time, stats.switch_time, stats.switches>>

(* The counters of swaps and ends are not the totals of time.                *)
LEMMA CountedTotals ==
    ASSUME stats \in Stats
    PROVE  /\ \A field \in {"swap_in", "swap_out", "completed"} :
                 LET t == Counted(field)
                 IN  <<t.cpu_time, t.idle_time, t.switch_time, t.switches>> = Totals
           /\ LET t == CountedFailure
              IN  <<t.cpu_time, t.idle_time, t.switch_time, t.switches>> = Totals
           /\ LET t == Counted("switches")
              IN  /\ t.switches = stats.switches + 1
                  /\ <<t.cpu_time, t.idle_time, t.switch_time>>
                        = <<stats.cpu_time, stats.idle_time, stats.switch_time>>
  BY DEF Stats, Counted, CountedFailure, Totals

(* Steps that charge nothing and neither begin nor end a switch.           *)
LEMMA TotalsFrame ==
    ASSUME TotalsInv, Totals' = Totals, PendingTick' = PendingTick,
           UNCHANGED <<current_time, config, next_pcb, switch_remaining>>
    PROVE  TotalsInv'
  BY DEF TotalsInv, ClockIsCharged, SwitchesCharged, Totals

(* The types that the sums of times need.                                    *)
LEMMA TotalsTypes ==
    ASSUME KernelInv
    PROVE  /\ stats \in Stats /\ current_time \in Nat /\ TICK \in Nat \ {0}
           /\ stats.cpu_time \in Nat /\ stats.idle_time \in Nat
           /\ stats.switch_time \in Nat /\ stats.switches \in Nat
           /\ config.switch_cost \in Nat /\ switch_remaining \in Nat
<1>1. /\ stats \in Stats /\ config \in Config /\ current_time \in Nat
      /\ switch_remaining \in Nat
  BY DEF KernelInv, TypeInv, TypeOK
<1> QED
  BY <1>1, KernelAssumption DEF Stats, Config, Settings

(* Steps that start no tick and no switch leave the totals alone.            *)
LEMMA QuietTotals ==
    ASSUME KernelInv, TotalsInv,
           \/ Arrival \/ Swapper \/ Admission
           \/ Preempt \/ KeepRunning \/ StopSimulation \/ EndTick
           \/ DeviceWorks \/ IoComplete \/ KeyboardCancel \/ TickDone
    PROVE  TotalsInv'
<1> USE DEF PendingTick, Goto, setup, cpu, clock
<1>0. stats \in Stats
  BY TotalsTypes
<1>1. stats' = stats => Totals' = Totals
  BY DEF Totals
<1>2. CASE Arrival
  BY <1>1, <1>2, TotalsFrame
  DEF Arrival, BeginTick, Arrive, SkipRow, ArrivalDone
<1>3. CASE SwapIn \/ SwapOut
  <2>1. Totals' = Totals
    BY <1>0, <1>3, CountedTotals DEF SwapIn, SwapOut, Totals
  <2> QED
    BY <1>3, <2>1, TotalsFrame DEF SwapIn, SwapOut
<1>4. CASE SkipSwapIn \/ MidTermDone
  BY <1>1, <1>4, TotalsFrame DEF SkipSwapIn, MidTermDone, MidTerm
<1>5. CASE Reject
  <2>1. Totals' = Totals
    BY <1>0, <1>5, CountedTotals DEF Reject, Totals
  <2> QED
    BY <1>5, <2>1, TotalsFrame DEF Reject
<1>6. CASE Admit \/ SkipJob \/ JobDone
  BY <1>1, <1>6, TotalsFrame DEF Admit, SkipJob, JobDone, Job
<1>7. CASE Preempt \/ KeepRunning \/ StopSimulation \/ EndTick
  BY <1>1, <1>7, TotalsFrame DEF Preempt, KeepRunning, StopSimulation, EndTick
<1>8. CASE DeviceWorks \/ IoComplete
  BY <1>1, <1>8, TotalsFrame DEF DeviceWorks, IoComplete, CompleteIo, AtDevice
<1>9. CASE KeyboardCancel
  <2>1. Totals' = Totals
    BY <1>0, <1>9, CountedTotals DEF KeyboardCancel, Totals
  <2> QED
    BY <1>9, <2>1, TotalsFrame DEF KeyboardCancel, CompleteIo, AtDevice
<1>10. CASE TickDone
  BY <1>1, <1>10, TotalsFrame DEF TickDone
<1> QED
  BY <1>2, <1>3, <1>4, <1>5, <1>6, <1>7, <1>8, <1>9, <1>10 DEF Swapper, Admission

(* A switch is counted when it is prepared, with its whole cost ahead.       *)
LEMMA SelectTotals ==
    ASSUME KernelInv, TotalsInv, SelectNext
    PROVE  TotalsInv'
<1>1. PICK p \in ChosenFrom(ready_q) :
        \/ config.switch_cost = 0 /\ Dispatch(p)
        \/ /\ config.switch_cost > 0 /\ next_pcb' = p
           /\ switch_remaining' = config.switch_cost
  BY DEF SelectNext
<1>2. p # NULL
  BY ChosenIsReady, KernelAssumption
<1>3. /\ UNCHANGED <<current_time, config>> /\ PendingTick' = PendingTick
      /\ switch_remaining = 0
  BY DEF SelectNext, Goto, setup, clock, PendingTick, TotalsInv
<1>4. /\ stats'.switches = stats.switches + 1
      /\ stats'.cpu_time = stats.cpu_time /\ stats'.idle_time = stats.idle_time
      /\ stats'.switch_time = stats.switch_time
  BY TotalsTypes, CountedTotals DEF SelectNext
<1>5. ClockIsCharged'
  BY <1>3, <1>4 DEF TotalsInv, ClockIsCharged
<1>6. \A n, c \in Nat : (n + 1) * c = n * c + c
  OBVIOUS
<1>7. /\ stats.switch_time = stats.switches * config.switch_cost
      /\ switch_remaining' = config.switch_cost
      /\ next_pcb' = NULL => switch_remaining' = 0
  <2>1. stats.switches * config.switch_cost \in Nat
    BY TotalsTypes
  <2> QED
    BY <1>1, <1>2, <1>3, <2>1 DEF Dispatch, TotalsInv, SwitchesCharged
<1>8. SwitchesCharged'
  BY <1>3, <1>4, <1>6, <1>7, TotalsTypes DEF SwitchesCharged
<1> QED
  BY <1>5, <1>7, <1>8 DEF TotalsInv

(* A tick goes to one of the totals, or is owed until the CPU has run.       *)
LEMMA TickTotals ==
    ASSUME KernelInv, TotalsInv, SwitchTick \/ IdleTick \/ RunTick
    PROVE  TotalsInv'
<1> USE TotalsTypes
<1>1. CASE SwitchTick
  <2> DEFINE d == SwitchShare
  <2>1. d \in Nat /\ d =< switch_remaining
    BY DEF SwitchShare
  <2>2. /\ current_time' = current_time + d /\ pc' = "bg_switch" /\ pc = "decide"
        /\ switch_remaining' = switch_remaining - d
        /\ next_pcb' = next_pcb /\ next_pcb # NULL /\ config' = config
        /\ stats' = [stats EXCEPT !.switch_time = stats.switch_time + d]
    BY <1>1 DEF SwitchTick, StartTick, setup
  <2> HIDE DEF d
  <2>3. /\ stats'.switch_time = stats.switch_time + d
        /\ stats'.switches = stats.switches /\ stats'.cpu_time = stats.cpu_time
        /\ stats'.idle_time = stats.idle_time
    BY <2>2 DEF Stats
  <2>4. stats.switches * config.switch_cost \in Nat
    OBVIOUS
  <2> QED
    BY <2>1, <2>2, <2>3, <2>4
    DEF TotalsInv, ClockIsCharged, SwitchesCharged, PendingTick
<1>2. CASE IdleTick
  <2>1. /\ current_time' = current_time + TICK /\ pc' = "bg_idle" /\ pc = "decide"
        /\ UNCHANGED <<switch_remaining, next_pcb, config>>
        /\ stats' = [stats EXCEPT !.idle_time = stats.idle_time + TICK]
    BY <1>2 DEF IdleTick, StartTick, setup, cpu
  <2>2. /\ stats'.idle_time = stats.idle_time + TICK
        /\ stats'.switches = stats.switches /\ stats'.cpu_time = stats.cpu_time
        /\ stats'.switch_time = stats.switch_time
    BY <2>1 DEF Stats
  <2> QED
    BY <2>1, <2>2 DEF TotalsInv, ClockIsCharged, SwitchesCharged, PendingTick
<1>3. CASE RunTick
  BY <1>3 DEF RunTick, StartTick, setup, cpu,
              TotalsInv, ClockIsCharged, SwitchesCharged, PendingTick
<1> QED
  BY <1>1, <1>2, <1>3

(* A switch ends when nothing of its cost remains.                           *)
LEMMA SwitchDoneTotals ==
    ASSUME KernelInv, TotalsInv, SwitchDone
    PROVE  TotalsInv'
<1>1. /\ switch_remaining = 0 /\ switch_remaining' = 0
      /\ pc = "bg_switch" /\ pc' = "idle" /\ UNCHANGED <<current_time, config, stats>>
  BY TotalsTypes DEF SwitchDone, Dispatch, Goto, setup, clock
<1> QED
  BY <1>1 DEF TotalsInv, ClockIsCharged, SwitchesCharged, PendingTick

(* The CPU pays the tick that was owed.                                      *)
LEMMA CpuTotals ==
    ASSUME KernelInv, TotalsInv, Cpu
    PROVE  TotalsInv'
<1> DEFINE counts == {stats, CountedFailure, Counted("completed")}
<1>1. PICK counted \in counts : Run(counted)
  BY DEF Cpu, CpuFail, CpuTerminate, CpuBlock, CpuQuantum, CpuContinue
<1>2. /\ counted \in Stats
      /\ <<counted.cpu_time, counted.idle_time, counted.switch_time, counted.switches>>
            = Totals
  BY <1>1, TotalsTypes, CountedTotals, CountedType DEF Totals
<1>3. /\ stats' = [counted EXCEPT !.cpu_time = counted.cpu_time + TICK]
      /\ pc = "cpu" /\ pc' = "mid3"
      /\ UNCHANGED <<current_time, config, next_pcb, switch_remaining>>
  BY <1>1 DEF Run, Goto, setup, clock
<1>4. /\ stats'.cpu_time = stats.cpu_time + TICK /\ stats'.idle_time = stats.idle_time
      /\ stats'.switch_time = stats.switch_time /\ stats'.switches = stats.switches
  BY <1>2, <1>3 DEF Stats, Totals
<1> QED
  BY <1>3, <1>4, TotalsTypes
  DEF TotalsInv, ClockIsCharged, SwitchesCharged, PendingTick

(* Every step keeps clock and totals equal.                                  *)
LEMMA StepTotals == KernelInv /\ TotalsInv /\ [Next]_vars => TotalsInv'
<1> SUFFICES ASSUME KernelInv, TotalsInv, [Next]_vars PROVE TotalsInv'
  OBVIOUS
<1>1. CASE SelectNext
  BY <1>1, SelectTotals
<1>2. CASE SwitchTick \/ IdleTick \/ RunTick
  BY <1>2, TickTotals
<1>3. CASE SwitchDone
  BY <1>3, SwitchDoneTotals
<1>4. CASE Cpu
  BY <1>4, CpuTotals
<1>5. CASE Stopped \/ UNCHANGED vars
  BY <1>5, TotalsFrame DEF Stopped, vars, walk, clock, setup, cpu, Totals, PendingTick
<1>6. CASE \/ Arrival \/ Swapper \/ Admission
           \/ Preempt \/ KeepRunning \/ StopSimulation \/ EndTick
           \/ DeviceWorks \/ IoComplete \/ KeyboardCancel \/ TickDone
  BY <1>6, QuietTotals
<1> QED
  BY <1>1, <1>2, <1>3, <1>4, <1>5, <1>6 DEF Next, Decision, Device

(* The totals and the switch in progress, in every state.                  *)
LEMMA TotalsInvariant == Spec => []TotalsInv
<1>1. Init => TotalsInv
  <2> SUFFICES ASSUME Init PROVE TotalsInv
    OBVIOUS
  <2>1. config \in Config
    BY KernelAssumption DEF Init, Initially
  <2>2. config.switch_cost \in Nat
    BY <2>1 DEF Config, Settings
  <2> QED
    BY <2>2 DEF Init, Initially, TotalsInv, ClockIsCharged, SwitchesCharged, PendingTick
<1> QED
  BY <1>1, StepTotals, KernelInvariant, PTL DEF Spec

(* The clock is the sum of the CPU's, the idle and the switch time, and a  *)
(* switch costs what was configured, in however many ticks.                *)
THEOREM TotalsAreCharged == Spec => [](ClockIsCharged /\ SwitchesCharged)
<1>1. TotalsInv => ClockIsCharged /\ SwitchesCharged
  BY DEF TotalsInv
<1> QED
  BY <1>1, TotalsInvariant, PTL

-----------------------------------------------------------------------------
(* Waiting times.                                                          *)

(* The part of its tick that p has had and is not charged for yet.         *)
Owed(p) == IF p = running THEN PendingTick ELSE 0

End(p) == IF state[p] = "TERMINATED" THEN sched[p].finish ELSE current_time

(* A process out of memory is charged for two things at once if it is      *)
(* blocked, too, so there are two sums; and nothing before its arrival.    *)
Timed(p) ==
    LET s == sched[p]
    IN  IF state[p] = "NONE"
        THEN s.ready = 0 /\ s.cpu = 0 /\ s.blocked = 0 /\ s.nonresident = 0 /\ s.start = -1
        ELSE /\ s.ready + s.cpu + Owed(p) + s.blocked =< End(p) - profile[p].arrival
             /\ s.ready + s.cpu + Owed(p) + s.nonresident =< End(p) - profile[p].arrival
             /\ s.start >= 0 => profile[p].arrival =< s.start /\ s.start =< End(p)

WaitInv ==
    \A p \in Procs :
        /\ Timed(p)
        /\ state[p] # "NONE" => profile[p].arrival =< current_time

(* The types of the times of one process.                                    *)
LEMMA TimedTypes ==
    ASSUME TypeOK, NEW p \in Procs
    PROVE  /\ sched[p].ready \in Nat /\ sched[p].cpu \in Nat
           /\ sched[p].blocked \in Nat /\ sched[p].nonresident \in Nat
           /\ sched[p].start \in Int /\ sched[p].finish \in Int
           /\ profile[p].arrival \in Nat /\ current_time \in Nat
           /\ Owed(p) \in {0, TICK} /\ TICK \in Nat \ {0}
<1>1. profile[p] \in Profile /\ sched[p] \in SchedData /\ current_time \in Nat
  BY DEF TypeOK
<1> QED
  BY <1>1, KernelAssumption DEF Profile, SchedData, Owed, PendingTick

(* What the actions without charge do to states and to the tick owed.      *)
LEMMA QuietDetails ==
    ASSUME KernelInv, NEW p \in Procs,
           \/ Arrival \/ Swapper \/ Admit \/ SkipJob \/ JobDone
           \/ Preempt \/ KeepRunning \/ StopSimulation \/ EndTick
           \/ DeviceWorks \/ IoComplete \/ TickDone \/ Stopped
    PROVE  /\ pc' \in {"bg_run", "cpu"} => pc \in {"bg_run", "cpu"}
           /\ state[p] # "NONE" => state'[p] # "NONE"
           /\ state[p] = "NONE" /\ state'[p] # "NONE" => profile[p].arrival =< current_time
<1> USE DEF Goto, pcb
<1>0. TypeOK
  BY DEF KernelInv, TypeInv
<1>1. CASE Arrive
  BY <1>0, <1>1, WalkProperties DEF Arrive, Arrives, HasArrived, TypeOK
<1>2. CASE BeginTick \/ SkipRow \/ ArrivalDone
  BY <1>2 DEF BeginTick, SkipRow, ArrivalDone
<1>3. CASE Swapper
  BY <1>3 DEF Swapper, SwapIn, SkipSwapIn, SwapOut, MidTermDone, MidTerm
<1>4. CASE Admit
  BY <1>0, <1>4, HeadsOfWalks DEF Admit, Job, TypeOK
<1>5. CASE SkipJob \/ JobDone
  BY <1>5 DEF SkipJob, JobDone, Job
<1>6. CASE Preempt
  <2>1. p = running => state[p] = "RUNNING"
    BY DEF KernelInv, Structure, OnePlaceEach, InPlace
  <2> QED
    BY <1>0, <1>6, <2>1 DEF Preempt, TypeOK
<1>7. CASE KeepRunning \/ StopSimulation \/ EndTick \/ TickDone
  BY <1>7 DEF KeepRunning, StopSimulation, EndTick, TickDone
<1>8. CASE DeviceWorks
  BY <1>8 DEF DeviceWorks, AtDevice
<1>9. CASE IoComplete
  BY <1>0, <1>9, HeadsOfWalks DEF IoComplete, CompleteIo, AtDevice, TypeOK
<1>10. CASE Stopped
  BY <1>10 DEF Stopped, vars, walk
<1> QED
  BY <1>1, <1>2, <1>3, <1>4, <1>5, <1>6, <1>7, <1>8, <1>9, <1>10 DEF Arrival

(* Steps after which p has the same times and owes no more.                *)
LEMMA TimedFrame ==
    ASSUME TypeOK, NEW p \in Procs, Timed(p),
           state[p] # "NONE" => profile[p].arrival =< current_time,
           UNCHANGED <<profile, current_time>>,
           sched'[p].ready = sched[p].ready, sched'[p].cpu = sched[p].cpu,
           sched'[p].blocked = sched[p].blocked,
           sched'[p].nonresident = sched[p].nonresident,
           sched'[p].start = sched[p].start, sched'[p].finish = sched[p].finish,
           Owed(p)' \in Int, Owed(p)' =< Owed(p),
           (state'[p] = "TERMINATED") <=> (state[p] = "TERMINATED"),
           state[p] # "NONE" => state'[p] # "NONE",
           state[p] = "NONE" /\ state'[p] # "NONE" =>
               profile[p].arrival =< current_time /\ Owed(p)' = 0
    PROVE  Timed(p)' /\ (state'[p] # "NONE" => profile'[p].arrival =< current_time')
<1> USE TimedTypes
<1>1. End(p)' = End(p)
  BY DEF End
<1>2. CASE state'[p] = "NONE"
  BY <1>2 DEF Timed
<1>3. CASE state[p] = "NONE" /\ state'[p] # "NONE"
  <2>1. End(p)' = current_time
    BY <1>1, <1>3 DEF End
  <2> QED
    BY <1>3, <2>1 DEF Timed
<1>4. CASE state[p] # "NONE"
  <2>1. End(p) \in Int
    BY DEF End
  <2> QED
    BY <1>1, <1>4, <2>1 DEF Timed
<1> QED
  BY <1>2, <1>3, <1>4

(* Steps that charge nothing keep the times of a process within its stay.    *)
LEMMA QuietTimes ==
    ASSUME KernelInv, WaitInv, NEW p \in Procs,
           \/ Arrival \/ Swapper \/ Admit \/ SkipJob \/ JobDone
           \/ Preempt \/ KeepRunning \/ StopSimulation \/ EndTick
           \/ DeviceWorks \/ IoComplete \/ TickDone \/ Stopped
    PROVE  Timed(p)' /\ (state'[p] # "NONE" => profile'[p].arrival =< current_time')
<1>1. TypeOK /\ Timed(p) /\ (state[p] # "NONE" => profile[p].arrival =< current_time)
  BY DEF KernelInv, TypeInv, WaitInv
<1>2. /\ Quiet
      /\ pc' \in {"bg_run", "cpu"} => pc \in {"bg_run", "cpu"}
      /\ state[p] # "NONE" => state'[p] # "NONE"
      /\ state[p] = "NONE" /\ state'[p] # "NONE" => profile[p].arrival =< current_time
  BY QuietSteps, QuietDetails
<1>3. /\ Owed(p)' \in Int /\ Owed(p)' =< Owed(p)
      /\ state[p] = "NONE" => Owed(p)' = 0
  <2>1. running' = running \/ running' # p
    BY <1>2, KernelAssumption DEF Quiet
  <2>2. state[p] = "NONE" => p # running
    BY DEF KernelInv, Structure, OnePlaceEach, InPlace
  <2>3. PendingTick' \in Nat /\ PendingTick' =< PendingTick /\ PendingTick \in Nat
    BY <1>2, KernelAssumption DEF PendingTick
  <2> QED
    BY <2>1, <2>2, <2>3, <1>2 DEF Owed, Quiet
<1> QED
  BY <1>1, <1>2, <1>3, TimedFrame DEF Quiet

(* A first start lies between arrival and the present.                       *)
LEMMA DispatchTimes ==
    ASSUME KernelInv, WaitInv, NEW q \in Procs, SelectNext \/ SwitchDone
    PROVE  Timed(q)' /\ (state'[q] # "NONE" => profile'[q].arrival =< current_time')
<1>1. TypeOK /\ Timed(q) /\ (state[q] # "NONE" => profile[q].arrival =< current_time)
  BY DEF KernelInv, TypeInv, WaitInv
<1>2. Owed(q) = 0 /\ Owed(q)' = 0
  BY DEF SelectNext, SwitchDone, Goto, Owed, PendingTick
<1>3. CASE Quiet /\ UNCHANGED state
  BY <1>1, <1>2, <1>3, TimedFrame DEF Quiet
<1>4. CASE GetsCpu
  <2>1. PICK p \in Procs : /\ state[p] = "READY" /\ Dispatch(p)
                          /\ UNCHANGED <<profile, current_time>>
    BY <1>4 DEF GetsCpu
  <2>2. /\ sched'[q].start = IF q = p /\ sched[p].start < 0 THEN current_time
                             ELSE sched[q].start
        /\ sched'[q].finish = sched[q].finish /\ sched'[q].ready = sched[q].ready
        /\ sched'[q].cpu = sched[q].cpu /\ sched'[q].blocked = sched[q].blocked
        /\ sched'[q].nonresident = sched[q].nonresident
    BY <1>1, <2>1, DispatchedTimes
  <2>3. state'[q] = IF q = p THEN "RUNNING" ELSE state[q]
    BY <1>1, <2>1 DEF Dispatch, TypeOK
  <2>4. CASE q = p
    BY <1>1, <1>2, <2>1, <2>2, <2>3, <2>4, TimedTypes DEF Timed, End
  <2>5. CASE q # p
    BY <1>1, <1>2, <2>1, <2>2, <2>3, <2>5, TimedFrame
  <2> QED
    BY <2>4, <2>5
<1>5. (Quiet /\ UNCHANGED state) \/ GetsCpu
  <2>1. CASE SelectNext
    <3>1. PICK p \in ChosenFrom(ready_q) :
            Dispatch(p) \/ UNCHANGED <<running, state, sched>>
      BY <2>1 DEF SelectNext
    <3>2. UNCHANGED <<failed, profile, config, current_time>>
      BY <2>1 DEF SelectNext, setup, clock
    <3> QED
      BY <3>1, <3>2, ChosenIsReady DEF Quiet, GetsCpu
  <2>2. CASE SwitchDone
    BY <2>2, SwitchDoneDispatches
  <2> QED
    BY <2>1, <2>2
<1> QED
  BY <1>3, <1>4, <1>5

(* A tick charges each process for at most one of: the wait for the CPU,   *)
(* the wait for memory, the device, its own turn.                          *)
LEMMA TickTimes ==
    ASSUME KernelInv, WaitInv, NEW p \in Procs, SwitchTick \/ IdleTick \/ RunTick
    PROVE  Timed(p)' /\ (state'[p] # "NONE" => profile'[p].arrival =< current_time')
<1>1. TypeOK /\ Timed(p) /\ (state[p] # "NONE" => profile[p].arrival =< current_time)
  BY DEF KernelInv, TypeInv, WaitInv
<1>2. PICK d \in Nat :
        /\ sched' = [x \in Procs |-> Charge(x, d)]
        /\ current_time' = current_time + d
        /\ UNCHANGED <<profile, running, state>>
        /\ Owed(p) = 0 /\ Owed(p)' =< d
        /\ p # running => Owed(p)' = 0
        /\ Owed(p)' \in Nat
  <2>1. TICK \in Nat /\ SwitchShare \in Nat
    BY <1>1, KernelAssumption DEF SwitchShare, TypeOK
  <2>2. CASE SwitchTick
    BY <2>1, <2>2 DEF SwitchTick, StartTick, setup, Owed, PendingTick
  <2>3. CASE IdleTick
    BY <2>1, <2>3 DEF IdleTick, StartTick, setup, cpu, Owed, PendingTick
  <2>4. CASE RunTick
    BY <2>1, <2>4 DEF RunTick, StartTick, setup, cpu, Owed, PendingTick
  <2> QED
    BY <2>2, <2>3, <2>4
<1> DEFINE blocked == \E e \in Devices : p \in Range(device_q[e])
           out == (blocked /\ ~resident[p]) \/ p \in Range(nonresident_q)
<1>3. /\ sched'[p].ready = sched[p].ready + IF WaitsForCpu(p) THEN d ELSE 0
      /\ sched'[p].blocked = sched[p].blocked + IF blocked THEN d ELSE 0
      /\ sched'[p].nonresident = sched[p].nonresident + IF out THEN d ELSE 0
  <2> DEFINE a == sched[p].ready + IF WaitsForCpu(p) THEN d ELSE 0
             b == sched[p].blocked + IF blocked THEN d ELSE 0
             c == sched[p].nonresident + IF out THEN d ELSE 0
  <2>1. Charge(p, d) = [sched[p] EXCEPT !.ready = a, !.blocked = b, !.nonresident = c]
    BY DEF Charge
  <2>2. sched[p] \in SchedData /\ sched'[p] = Charge(p, d)
    BY <1>1, <1>2 DEF TypeOK
  <2> HIDE DEF a, b, c
  <2>3. sched'[p].ready = a /\ sched'[p].blocked = b /\ sched'[p].nonresident = c
    BY <2>1, <2>2 DEF SchedData
  <2> QED
    BY <2>3 DEF a, b, c
<1>4. /\ sched'[p].cpu = sched[p].cpu /\ sched'[p].start = sched[p].start
      /\ sched'[p].finish = sched[p].finish
  BY <1>1, <1>2, ChargedTimes
<1>5. /\ WaitsForCpu(p) => state[p] = "READY" /\ resident[p]
      /\ p \in Range(nonresident_q) => state[p] = "READY" /\ ~resident[p]
      /\ blocked => state[p] = "BLOCKED"
      /\ p = running => state[p] = "RUNNING"
  BY DEF KernelInv, Structure, OnePlaceEach, InPlace, WaitsForCpu
<1> HIDE DEF blocked
<1>6. CASE state[p] \in {"NONE", "NEW", "TERMINATED"}
  <2>1. ~WaitsForCpu(p) /\ ~blocked /\ ~out /\ p # running
    BY <1>5, <1>6
  <2> HIDE DEF out
  <2>2. /\ sched'[p].ready = sched[p].ready /\ sched'[p].blocked = sched[p].blocked
        /\ sched'[p].nonresident = sched[p].nonresident /\ Owed(p)' = 0
        /\ state'[p] = state[p]
    BY <1>1, <1>2, <1>3, <2>1, TimedTypes
  <2>3. CASE state[p] = "NONE"
    BY <1>1, <1>4, <2>2, <2>3 DEF Timed
  <2>4. CASE state[p] # "NONE"
    <3>1. End(p) \in Int /\ End(p)' \in Int /\ End(p) =< End(p)'
      BY <1>1, <1>2, <1>4, <2>2, TimedTypes DEF End
    <3> QED
      BY <1>1, <1>2, <1>4, <2>2, <2>4, <3>1, TimedTypes DEF Timed
  <2> QED
    BY <2>3, <2>4
<1>7. CASE state[p] \notin {"NONE", "NEW", "TERMINATED"}
  <2> HIDE DEF out
  <2>1. /\ End(p) = current_time /\ End(p)' = current_time + d
        /\ sched'[p].ready + sched'[p].cpu + Owed(p)' + sched'[p].blocked
              =< sched[p].ready + sched[p].cpu + sched[p].blocked + d
        /\ sched'[p].ready + sched'[p].cpu + Owed(p)' + sched'[p].nonresident
              =< sched[p].ready + sched[p].cpu + sched[p].nonresident + d
    <3>1. End(p) = current_time /\ End(p)' = current_time + d
      BY <1>2, <1>7 DEF End
    <3>2. ~(WaitsForCpu(p) /\ out) /\ ~(WaitsForCpu(p) /\ blocked)
          /\ (p = running => ~WaitsForCpu(p) /\ ~out /\ ~blocked)
      BY <1>5 DEF out
    <3> QED
      BY <1>1, <1>2, <1>3, <1>4, <3>1, <3>2, TimedTypes
  <2> QED
    BY <1>1, <1>2, <1>3, <1>4, <1>7, <2>1, TimedTypes DEF Timed
<1> QED
  BY <1>6, <1>7

(* A cancelled process ends now, with its times as they are.                 *)
LEMMA CancelTimes ==
    ASSUME KernelInv, WaitInv, NEW q \in Procs, Reject \/ KeyboardCancel
    PROVE  Timed(q)' /\ (state'[q] # "NONE" => profile'[q].arrival =< current_time')
<1>1. TypeOK /\ Timed(q) /\ (state[q] # "NONE" => profile[q].arrival =< current_time)
  BY DEF KernelInv, TypeInv, WaitInv
<1>2. PICK p \in Procs :
        /\ p # running /\ state[p] \in {"NEW", "BLOCKED"} /\ Finish(p, TRUE, sched)
        /\ UNCHANGED <<running, profile, current_time>>
  BY CancelSteps DEF Cancels
<1>3. PendingTick' = PendingTick
  BY DEF Reject, KeyboardCancel, CompleteIo, AtDevice, Goto, PendingTick
<1>4. /\ sched'[q].finish = IF q = p THEN current_time ELSE sched[q].finish
      /\ sched'[q].start = sched[q].start /\ sched'[q].ready = sched[q].ready
      /\ sched'[q].cpu = sched[q].cpu /\ sched'[q].blocked = sched[q].blocked
      /\ sched'[q].nonresident = sched[q].nonresident
      /\ state'[q] = IF q = p THEN "TERMINATED" ELSE state[q]
  BY <1>1, <1>2, CancelledTimes
<1>5. Owed(q)' = Owed(q) /\ Owed(q) \in Int
  BY <1>1, <1>2, <1>3, TimedTypes DEF Owed
<1>6. CASE q = p
  <2>1. Owed(q)' = 0
    BY <1>2, <1>6 DEF Owed
  <2> QED
    BY <1>1, <1>2, <1>4, <1>5, <1>6, <2>1, TimedTypes DEF Timed, End
<1>7. CASE q # p
  BY <1>1, <1>2, <1>4, <1>5, <1>7, TimedFrame
<1> QED
  BY <1>6, <1>7

(* The times of q after a tick of the CPU.                                 *)
HasRan(q) ==
    /\ sched'[q].cpu = Ran[q].cpu /\ sched'[q].start = Ran[q].start
    /\ sched'[q].ready = Ran[q].ready /\ sched'[q].blocked = Ran[q].blocked
    /\ sched'[q].nonresident = Ran[q].nonresident
    /\ sched'[q].finish = IF state'[q] = "TERMINATED" /\ state[q] # "TERMINATED"
                          THEN current_time ELSE Ran[q].finish
    /\ q # running => state'[q] = state[q]
    /\ q = running => state'[q] # "NONE" /\ state[q] = "RUNNING"

(* What a step of the CPU does to the times of any process.                  *)
LEMMA CpuFields ==
    ASSUME KernelInv, Cpu, NEW q \in Procs
    PROVE  HasRan(q)
<1>1. /\ TypeOK /\ running \in Procs /\ state[running] = "RUNNING"
      /\ Ran \in [Procs -> SchedData]
  BY CpuCases
<1>2. ASSUME NEW fails, Finish(running, fails, Ran)
      PROVE  HasRan(q)
  <2>1. /\ sched'[q].finish = IF q = running THEN current_time ELSE Ran[q].finish
        /\ sched'[q].cpu = Ran[q].cpu /\ sched'[q].start = Ran[q].start
        /\ sched'[q].ready = Ran[q].ready /\ sched'[q].blocked = Ran[q].blocked
        /\ sched'[q].nonresident = Ran[q].nonresident
        /\ state'[q] = IF q = running THEN "TERMINATED" ELSE state[q]
    BY <1>1, <1>2, FinishedTimes
  <2> QED
    BY <1>1, <2>1 DEF HasRan
<1>3. ASSUME sched' = Ran \/ sched' = [Ran EXCEPT ![running].quantum = config.quantum],
             \/ state' = state
             \/ state' = [state EXCEPT ![running] = "READY"]
             \/ state' = [state EXCEPT ![running] = "BLOCKED"]
      PROVE  HasRan(q)
  <2>1. Ran[q] \in SchedData
    BY <1>1
  <2>2. /\ sched'[q].finish = Ran[q].finish
        /\ sched'[q].cpu = Ran[q].cpu /\ sched'[q].start = Ran[q].start
        /\ sched'[q].ready = Ran[q].ready /\ sched'[q].blocked = Ran[q].blocked
        /\ sched'[q].nonresident = Ran[q].nonresident
    BY <1>1, <1>3, <2>1 DEF SchedData
  <2> QED
    BY <1>1, <1>3, <2>2 DEF TypeOK, HasRan
<1>4. CASE CpuFail
  <2> DEFINE fails == TRUE
  <2>1. Finish(running, fails, Ran)
    BY <1>4 DEF CpuFail
  <2> HIDE DEF fails
  <2> QED
    BY <1>2, <2>1
<1>5. CASE CpuTerminate
  <2> DEFINE fails == FALSE
  <2>1. Finish(running, fails, Ran)
    BY <1>5 DEF CpuTerminate
  <2> HIDE DEF fails
  <2> QED
    BY <1>2, <2>1
<1>6. CASE CpuBlock \/ CpuQuantum \/ CpuContinue
  BY <1>3, <1>6 DEF CpuBlock, CpuQuantum, CpuContinue
<1> QED
  BY <1>4, <1>5, <1>6 DEF Cpu

(* The owed tick becomes CPU time of the running process, nothing else does. *)
LEMMA CpuTimes ==
    ASSUME KernelInv, WaitInv, NEW q \in Procs, Cpu
    PROVE  Timed(q)' /\ (state'[q] # "NONE" => profile'[q].arrival =< current_time')
<1>1. TypeOK /\ Timed(q) /\ (state[q] # "NONE" => profile[q].arrival =< current_time)
  BY DEF KernelInv, TypeInv, WaitInv
<1>2. /\ running \in Procs /\ UNCHANGED <<profile, current_time>>
      /\ running' \in {running, NULL}
      /\ PendingTick = TICK /\ PendingTick' = 0
  <2>1. pc = "cpu" /\ pc' = "mid3"
    BY CpuCases DEF Cpu, CpuFail, CpuTerminate, CpuBlock, CpuQuantum, CpuContinue, Run
  <2> QED
    BY <2>1, CpuCases DEF PendingTick
<1>3. /\ sched'[q].cpu = sched[q].cpu + IF q = running THEN TICK ELSE 0
      /\ sched'[q].start = sched[q].start
      /\ sched'[q].ready = sched[q].ready /\ sched'[q].blocked = sched[q].blocked
      /\ sched'[q].nonresident = sched[q].nonresident
      /\ sched'[q].finish = IF state'[q] = "TERMINATED" /\ state[q] # "TERMINATED"
                            THEN current_time ELSE sched[q].finish
  BY <1>1, <1>2, CpuFields, RanTimes DEF HasRan
<1>4. /\ q # running => state'[q] = state[q]
      /\ q = running => state'[q] # "NONE" /\ state[q] = "RUNNING"
  BY CpuFields DEF HasRan
<1>5. Owed(q)' = 0 /\ Owed(q) = IF q = running THEN TICK ELSE 0
  BY <1>2 DEF Owed
<1>6. CASE q = running
  <2>1. End(q) = current_time /\ End(q)' = current_time
    BY <1>2, <1>3, <1>4, <1>6 DEF End
  <2> QED
    BY <1>1, <1>2, <1>3, <1>4, <1>5, <1>6, <2>1, TimedTypes DEF Timed
<1>7. CASE q # running
  <2>1. sched'[q].finish = sched[q].finish
    BY <1>3, <1>4, <1>7
  <2> QED
    BY <1>1, <1>2, <1>3, <1>4, <1>5, <1>7, <2>1, TimedTypes, TimedFrame
<1> QED
  BY <1>6, <1>7

(* Every step keeps the times of every process within its stay.              *)
LEMMA StepWait == KernelInv /\ WaitInv /\ [Next]_vars => WaitInv'
<1> SUFFICES ASSUME KernelInv, WaitInv, [Next]_vars, NEW p \in Procs
             PROVE  Timed(p)' /\ (state'[p] # "NONE" => profile'[p].arrival =< current_time')
  BY DEF WaitInv
<1>1. CASE SelectNext \/ SwitchDone
  BY <1>1, DispatchTimes
<1>2. CASE SwitchTick \/ IdleTick \/ RunTick
  BY <1>2, TickTimes
<1>3. CASE Reject \/ KeyboardCancel
  BY <1>3, CancelTimes
<1>4. CASE Cpu
  BY <1>4, CpuTimes
<1>5. CASE \/ Arrival \/ Swapper \/ Admit \/ SkipJob \/ JobDone
           \/ Preempt \/ KeepRunning \/ StopSimulation \/ EndTick
           \/ DeviceWorks \/ IoComplete \/ TickDone \/ Stopped
  BY <1>5, QuietTimes
<1>6. CASE UNCHANGED vars
  BY <1>6 DEF WaitInv, Timed, Owed, End, PendingTick, vars, walk, clock, setup, pcb, cpu
<1> QED
  BY <1>1, <1>2, <1>3, <1>4, <1>5, <1>6 DEF Next, Admission, Decision, Device

(* The larger of two numbers is one of them.                                 *)
LEMMA MaxOfTwo ==
    ASSUME NEW a \in Int, NEW b \in Int
    PROVE  Max({a, b}) \in {a, b}
<1>1. \E x \in {a, b} : \A y \in {a, b} : x >= y
  <2>1. CASE a >= b
    BY <2>1
  <2>2. CASE b >= a
    BY <2>2
  <2> QED
    BY <2>1, <2>2
<1> QED
  BY <1>1 DEF Max

(* The times of every process fit into its stay so far.                    *)
THEOREM StayInvariant == Spec => []WaitInv
<1>1. Init => WaitInv
  BY DEF Init, Initially, WaitInv, Timed
<1> QED
  BY <1>1, StepWait, KernelInvariant, PTL DEF Spec

(* The times that the GUI shows of a process never add up to more than its *)
(* time in the system, and its first turn lies within it.                  *)
THEOREM WaitingIsBounded == Spec => []WaitingFitsTurnaround
<1>1. KernelInv /\ WaitInv => WaitingFitsTurnaround
  <2> SUFFICES ASSUME KernelInv, WaitInv, NEW p \in Procs, state[p] # "NONE"
               PROVE  LET s == sched[p]
                      IN  /\ s.ready + s.cpu + Max({s.blocked, s.nonresident})
                                =< End(p) - profile[p].arrival
                          /\ s.start >= 0 => s.start \in profile[p].arrival .. End(p)
    BY DEF WaitingFitsTurnaround, End
  <2>1. TypeOK /\ Timed(p)
    BY DEF KernelInv, TypeInv, WaitInv
  <2>2. Max({sched[p].blocked, sched[p].nonresident})
          \in {sched[p].blocked, sched[p].nonresident}
    BY <2>1, TimedTypes, MaxOfTwo
  <2>3. End(p) \in Int
    BY <2>1, TimedTypes DEF End
  <2> QED
    BY <2>1, <2>2, <2>3, TimedTypes DEF Timed
<1> QED
  BY <1>1, StayInvariant, KernelInvariant, PTL

-----------------------------------------------------------------------------
(* Sums over finite sets.                                                  *)

Plus(sum, n) == n + sum
Adding == INSTANCE FoldProofs WITH Op <- Plus

(* What is summed first does not matter here: some element is.             *)
LEMMA SumUnfolds ==
    ASSUME NEW S, IsFiniteSet(S), NEW f, \A x \in S : f[x] \in Int
    PROVE  /\ SumFunctionOnSet(f, {}) = 0
           /\ \A s \in SUBSET S :
                 /\ SumFunctionOnSet(f, s) \in Int
                 /\ s # {} => \E x \in s :
                       SumFunctionOnSet(f, s) = f[x] + SumFunctionOnSet(f, s \ {x})
<1> DEFINE pick == [s \in SUBSET S |-> CHOOSE x \in s : TRUE]
           Fold(it, s) ==
               it = [t \in SUBSET s |->
                      IF t = {} THEN 0
                      ELSE f[CHOOSE x \in t : TRUE] + it[t \ {CHOOSE x \in t : TRUE}]]
<1>1. Adding!Picks(pick, S) /\ S \in SUBSET S /\ Adding!IsFiniteSet(S)
  BY DEF Adding!Picks, Adding!IsFiniteSet, IsFiniteSet
<1>2. \A s \in SUBSET S : SumFunctionOnSet(f, s) = (CHOOSE it : Fold(it, s))[s]
  BY DEF SumFunctionOnSet, FoldFunctionOnSet, MapThenFoldSet
<1>3. \A s \in SUBSET S : \A it : Fold(it, s) <=> Adding!Solves(it, s, 0, f, pick)
  BY DEF Adding!Solves, Plus
<1>4. PICK h : Adding!Solves(h, S, 0, f, pick)
  <2> HIDE DEF pick
  <2> QED
    BY <1>1, Adding!FoldExists
<1>5. ASSUME NEW s \in SUBSET S PROVE SumFunctionOnSet(f, s) = h[s]
  <2> DEFINE g == CHOOSE it : Fold(it, s)
  <2>1. Fold([t \in SUBSET s |-> h[t]], s)
    BY <1>4 DEF Adding!Solves, Plus
  <2>2. Adding!Solves(g, s, 0, f, pick)
    <3> HIDE DEF Fold
    <3> QED
      BY <1>3, <2>1
  <2>3. g[s] = h[s]
    <3> HIDE DEF g, pick
    <3>1. \A t \in SUBSET s : g[t] = h[t]
      BY <1>1, <1>4, <2>2, Adding!FoldUnique
    <3> QED
      BY <3>1
  <2> QED
    BY <1>2, <2>3
<1>6. /\ h[{}] = 0
      /\ \A s \in SUBSET S : s # {} => pick[s] \in s /\ h[s] = f[pick[s]] + h[s \ {pick[s]}]
  BY <1>1, <1>4 DEF Adding!Solves, Adding!Picks, Plus
<1> HIDE DEF pick
<1>7. \A s \in SUBSET S : h[s] \in Int
  <2> DEFINE Good == {n \in Nat : \A s \in SUBSET S : Cardinality(s) = n => h[s] \in Int}
  <2>1. \A s \in SUBSET S : IsFiniteSet(s) /\ Cardinality(s) \in Nat
    BY FS_Subset, FS_CardinalityType
  <2>2. 0 \in Good
    <3>1. h[{}] \in Int
      BY <1>6
    <3>2. \A s \in SUBSET S : Cardinality(s) = 0 => s = {}
      BY <2>1, FS_EmptySet
    <3> QED
      BY <3>1, <3>2
  <2>3. ASSUME NEW n \in Nat, n \in Good PROVE n + 1 \in Good
    <3>1. ASSUME NEW s \in SUBSET S, Cardinality(s) = n + 1 PROVE h[s] \in Int
      <4>0. (n + 1) - 1 = n /\ n + 1 # 0
        OBVIOUS
      <4>1. s # {}
        BY <3>1, <4>0, FS_EmptySet
      <4>2. pick[s] \in s /\ h[s] = f[pick[s]] + h[s \ {pick[s]}]
        BY <1>6, <4>1
      <4>3. Cardinality(s \ {pick[s]}) = n
        <5>1. pick[s] \in s /\ IsFiniteSet(s) /\ Cardinality(s) \in Nat
          BY <2>1, <4>2
        <5>2. Cardinality(s \ {pick[s]}) = Cardinality(s) - 1
          BY <5>1, FS_RemoveElement
        <5> QED
          BY <3>1, <4>0, <5>2
      <4>4. h[s \ {pick[s]}] \in Int /\ f[pick[s]] \in Int
        BY <2>3, <4>2, <4>3
      <4> QED
        BY <4>2, <4>4
    <3> QED
      BY <3>1
  <2>4. \A n \in Nat : n \in Good
    <3> HIDE DEF Good
    <3> QED
      BY <2>2, <2>3, Adding!Induction
  <2> QED
    BY <2>1, <2>4
<1>8. ASSUME NEW s \in SUBSET S, s # {}
      PROVE  \E x \in s : SumFunctionOnSet(f, s) = f[x] + SumFunctionOnSet(f, s \ {x})
  <2>1. s \ {pick[s]} \in SUBSET S
    OBVIOUS
  <2> QED
    BY <1>5, <1>6, <1>8, <2>1
<1> QED
  BY <1>5, <1>6, <1>7, <1>8

(* A sum may be taken in any order: take out any one element.              *)
LEMMA SumTakesOut ==
    ASSUME NEW S, IsFiniteSet(S), NEW f, \A x \in S : f[x] \in Int
    PROVE  \A s \in SUBSET S : \A x \in s :
              SumFunctionOnSet(f, s) = f[x] + SumFunctionOnSet(f, s \ {x})
<1> DEFINE Sum(s) == SumFunctionOnSet(f, s)
           Takes(s) == \A x \in s : Sum(s) = f[x] + Sum(s \ {x})
           Good == {n \in Nat : \A s \in SUBSET S : Cardinality(s) = n => Takes(s)}
<1>1. \A s \in SUBSET S : IsFiniteSet(s) /\ Cardinality(s) \in Nat /\ Sum(s) \in Int
  BY FS_Subset, FS_CardinalityType, SumUnfolds
<1>2. 0 \in Good
  BY <1>1, FS_EmptySet
<1>3. ASSUME NEW n \in Nat, n \in Good PROVE n + 1 \in Good
  <2>0. (n + 1) - 1 = n
    OBVIOUS
  <2>1. ASSUME NEW s \in SUBSET S, Cardinality(s) = n + 1, NEW x \in s
        PROVE  Sum(s) = f[x] + Sum(s \ {x})
    <3>1. \A y \in s : Cardinality(s \ {y}) = n /\ s \ {y} \in SUBSET S
      BY <1>1, <2>0, <2>1, FS_RemoveElement
    <3>2. \A y \in s : Takes(s \ {y})
      BY <1>3, <3>1
    <3>3. PICK y \in s : Sum(s) = f[y] + Sum(s \ {y})
      BY <2>1, SumUnfolds
    <3>4. CASE y # x
      <4>1. Sum(s \ {y}) = f[x] + Sum((s \ {y}) \ {x})
        BY <3>2, <3>4
      <4>2. Sum(s \ {x}) = f[y] + Sum((s \ {x}) \ {y})
        BY <3>2, <3>4
      <4>3. (s \ {y}) \ {x} = (s \ {x}) \ {y} /\ (s \ {x}) \ {y} \in SUBSET S
        OBVIOUS
      <4>4. f[x] \in Int /\ f[y] \in Int /\ Sum((s \ {x}) \ {y}) \in Int
        BY <1>1, <4>3
      <4> DEFINE rest == Sum((s \ {x}) \ {y})
      <4>5. Sum(s \ {y}) = f[x] + rest
        BY <4>1, <4>3
      <4>6. \A a, b, c, d, fx, fy \in Int :
               a = fy + b /\ b = fx + c /\ d = fy + c => a = fx + d
        OBVIOUS
      <4>7. Sum(s) \in Int /\ Sum(s \ {x}) \in Int /\ Sum(s \ {y}) \in Int
        BY <1>1, <3>1
      <4> HIDE DEF Sum, rest
      <4> QED
        BY <3>3, <4>2, <4>4, <4>5, <4>6, <4>7 DEF rest
    <3> QED
      BY <3>3, <3>4
  <2> QED
    BY <2>1
<1>4. \A n \in Nat : n \in Good
  <2> HIDE DEF Good
  <2> QED
    BY <1>2, <1>3, Adding!Induction
<1> QED
  BY <1>1, <1>4

(* Functions that agree on a set have the same sum over it.                *)
LEMMA SumAgrees ==
    ASSUME NEW S, IsFiniteSet(S), NEW f, NEW g,
           \A x \in S : f[x] \in Int /\ g[x] = f[x]
    PROVE  SumFunctionOnSet(g, S) = SumFunctionOnSet(f, S)
<1> DEFINE Same(s) == SumFunctionOnSet(g, s) = SumFunctionOnSet(f, s)
           Good == {n \in Nat : \A s \in SUBSET S : Cardinality(s) = n => Same(s)}
<1>0. \A x \in S : g[x] \in Int /\ f[x] \in Int
  OBVIOUS
<1>1. \A s \in SUBSET S : IsFiniteSet(s) /\ Cardinality(s) \in Nat
  BY FS_Subset, FS_CardinalityType
<1>2. 0 \in Good
  <2>1. SumFunctionOnSet(g, {}) = 0 /\ SumFunctionOnSet(f, {}) = 0
    BY <1>0, SumUnfolds
  <2> QED
    BY <1>1, <2>1, FS_EmptySet
<1>3. ASSUME NEW n \in Nat, n \in Good PROVE n + 1 \in Good
  <2>0. (n + 1) - 1 = n /\ n + 1 # 0
    OBVIOUS
  <2>1. ASSUME NEW s \in SUBSET S, Cardinality(s) = n + 1 PROVE Same(s)
    <3>1. PICK x \in s : TRUE
      BY <2>0, <2>1, FS_EmptySet
    <3>2. Cardinality(s \ {x}) = n /\ s \ {x} \in SUBSET S
      BY <1>1, <2>0, <2>1, FS_RemoveElement
    <3>3. Same(s \ {x})
      BY <1>3, <3>2
    <3>4. /\ SumFunctionOnSet(f, s) = f[x] + SumFunctionOnSet(f, s \ {x})
          /\ SumFunctionOnSet(g, s) = g[x] + SumFunctionOnSet(g, s \ {x})
      BY <1>0, SumTakesOut
    <3> QED
      BY <3>3, <3>4
  <2> QED
    BY <2>1
<1>4. \A n \in Nat : n \in Good
  <2> HIDE DEF Good
  <2> QED
    BY <1>2, <1>3, Adding!Induction
<1>5. Cardinality(S) \in Good /\ S \in SUBSET S
  BY <1>1, <1>4
<1> QED
  BY <1>5

(* A sum changes as much as the only element that changes.                 *)
LEMMA SumChanges ==
    ASSUME NEW S, IsFiniteSet(S), NEW f, NEW g, NEW x \in S,
           \A y \in S : f[y] \in Int /\ g[y] \in Int,
           \A y \in S \ {x} : g[y] = f[y]
    PROVE  /\ SumFunctionOnSet(f, S) \in Int
           /\ SumFunctionOnSet(g, S) = SumFunctionOnSet(f, S) + (g[x] - f[x])
<1>1. SumFunctionOnSet(f, S) = f[x] + SumFunctionOnSet(f, S \ {x})
  BY SumTakesOut
<1>2. SumFunctionOnSet(g, S) = g[x] + SumFunctionOnSet(g, S \ {x})
  BY SumTakesOut
<1>3. SumFunctionOnSet(g, S \ {x}) = SumFunctionOnSet(f, S \ {x})
  <2>1. IsFiniteSet(S \ {x})
    BY FS_RemoveElement
  <2> QED
    BY <2>1, SumAgrees
<1>4. SumFunctionOnSet(f, S) \in Int /\ SumFunctionOnSet(f, S \ {x}) \in Int
  BY SumUnfolds
<1> QED
  BY <1>1, <1>2, <1>3, <1>4

(* A sum of zeros.                                                         *)
LEMMA SumOfZeros ==
    ASSUME NEW S, IsFiniteSet(S), NEW f, \A x \in S : f[x] = 0
    PROVE  SumFunctionOnSet(f, S) = 0
<1> DEFINE Zero(s) == SumFunctionOnSet(f, s) = 0
           Good == {n \in Nat : \A s \in SUBSET S : Cardinality(s) = n => Zero(s)}
<1>0. \A x \in S : f[x] \in Int
  OBVIOUS
<1>1. \A s \in SUBSET S : IsFiniteSet(s) /\ Cardinality(s) \in Nat
  BY FS_Subset, FS_CardinalityType
<1>2. 0 \in Good
  <2>1. SumFunctionOnSet(f, {}) = 0
    BY <1>0, SumUnfolds
  <2> QED
    BY <1>1, <2>1, FS_EmptySet
<1>3. ASSUME NEW n \in Nat, n \in Good PROVE n + 1 \in Good
  <2>0. (n + 1) - 1 = n /\ n + 1 # 0
    OBVIOUS
  <2>1. ASSUME NEW s \in SUBSET S, Cardinality(s) = n + 1 PROVE Zero(s)
    <3>1. PICK x \in s : TRUE
      BY <2>0, <2>1, FS_EmptySet
    <3>2. Cardinality(s \ {x}) = n /\ s \ {x} \in SUBSET S
      BY <1>1, <2>0, <2>1, FS_RemoveElement
    <3>3. Zero(s \ {x})
      BY <1>3, <3>2
    <3>4. SumFunctionOnSet(f, s) = f[x] + SumFunctionOnSet(f, s \ {x})
      BY <1>0, SumTakesOut
    <3> QED
      BY <3>3, <3>4
  <2> QED
    BY <2>1
<1>4. \A n \in Nat : n \in Good
  <2> HIDE DEF Good
  <2> QED
    BY <1>2, <1>3, Adding!Induction
<1>5. Cardinality(S) \in Good /\ S \in SUBSET S
  BY <1>1, <1>4
<1> QED
  BY <1>5

-----------------------------------------------------------------------------
(* The CPU time of the simulator is the sum of its processes'.             *)

(* The process table has a row for every process, so there are finitely    *)
(* many of them, and their times have a sum.                               *)
LEMMA ProcsAreFinite == IsFiniteSet(Procs)
<1>1. DOMAIN Table = 1 .. Len(Table) /\ Len(Table) \in Nat /\ Table \in [1 .. Len(Table) -> Procs]
  BY KernelAssumption
<1>2. Table \in Surjection(1 .. Len(Table), Procs)
  BY <1>1, KernelAssumption DEF Surjection
<1>3. IsFiniteSet(1 .. Len(Table))
  BY <1>1, FS_Interval
<1> QED
  BY <1>2, <1>3, FS_Surjection

CpuTime == [p \in Procs |-> sched[p].cpu]

(* Only tick_running_process adds to the total.                            *)
LEMMA CpuTotalStays ==
    ASSUME KernelInv, Next, ~Cpu
    PROVE  stats'.cpu_time = stats.cpu_time
<1>0. stats \in Stats
  BY TotalsTypes
<1>1. CASE SwapIn \/ SwapOut \/ Reject \/ KeyboardCancel \/ SelectNext
  BY <1>0, <1>1, CountedTotals
  DEF SwapIn, SwapOut, Reject, KeyboardCancel, SelectNext, Totals
<1>2. CASE SwitchTick \/ IdleTick
  BY <1>0, <1>2 DEF SwitchTick, IdleTick, Stats
<1>3. CASE Arrival \/ SkipSwapIn \/ MidTermDone \/ Admit \/ SkipJob \/ JobDone
  BY <1>3 DEF Arrival, BeginTick, Arrive, SkipRow, ArrivalDone, SkipSwapIn,
              MidTermDone, Admit, SkipJob, JobDone
<1>4. CASE \/ Preempt \/ KeepRunning \/ StopSimulation \/ EndTick \/ RunTick
           \/ DeviceWorks \/ IoComplete \/ SwitchDone \/ TickDone \/ Stopped
  BY <1>4 DEF Preempt, KeepRunning, StopSimulation, EndTick, RunTick, DeviceWorks,
              IoComplete, SwitchDone, TickDone, Stopped, vars
<1> QED
  BY <1>1, <1>2, <1>3, <1>4 DEF Next, Swapper, Admission, Decision, Device

(* Only the CPU adds to the time a process has run.                        *)
LEMMA CpuTimeStays ==
    ASSUME KernelInv, Quiet \/ GetsCpu \/ Ticks \/ Cancels, NEW q \in Procs
    PROVE  sched'[q].cpu = sched[q].cpu
<1>0. TypeOK
  BY DEF KernelInv, TypeInv
<1>1. CASE Quiet
  BY <1>1 DEF Quiet
<1>2. CASE GetsCpu
  BY <1>0, <1>2, DispatchedTimes DEF GetsCpu
<1>3. CASE Ticks
  BY <1>0, <1>3, ChargedTimes DEF Ticks
<1>4. CASE Cancels
  BY <1>0, <1>4, CancelledTimes DEF Cancels
<1> QED
  BY <1>1, <1>2, <1>3, <1>4

(* A tick of the CPU adds as much to the total as to one process.          *)
LEMMA CpuTickIsShared ==
    ASSUME KernelInv, CpuTimeIsShared, Cpu
    PROVE  CpuTimeIsShared'
<1>1. PICK counted \in {stats, CountedFailure, Counted("completed")} : Run(counted)
  BY DEF Cpu, CpuFail, CpuTerminate, CpuBlock, CpuQuantum, CpuContinue
<1>2. counted \in Stats /\ counted.cpu_time = stats.cpu_time
  BY <1>1, TotalsTypes, CountedTotals, CountedType DEF Totals
<1>3. stats'.cpu_time = stats.cpu_time + TICK
  BY <1>1, <1>2 DEF Run, Stats
<1>4. /\ TypeOK /\ running \in Procs
      /\ \A p \in Procs :
            sched'[p].cpu = sched[p].cpu + IF p = running THEN TICK ELSE 0
  BY CpuCases, CpuFields, RanTimes DEF HasRan
<1>5. \A p \in Procs : sched[p].cpu \in Int /\ TICK \in Int
  BY <1>4, FieldTypes, KernelAssumption
<1>6. /\ \A p \in Procs : CpuTime[p] \in Int /\ CpuTime'[p] \in Int
      /\ \A p \in Procs \ {running} : CpuTime'[p] = CpuTime[p]
      /\ CpuTime'[running] - CpuTime[running] = TICK
  BY <1>4, <1>5 DEF CpuTime
<1> HIDE DEF CpuTime
<1>7. /\ SumFunctionOnSet(CpuTime, Procs) \in Int
      /\ SumFunctionOnSet(CpuTime', Procs)
            = SumFunctionOnSet(CpuTime, Procs) + (CpuTime'[running] - CpuTime[running])
  BY <1>4, <1>6, ProcsAreFinite, SumChanges
<1> QED
  BY <1>3, <1>6, <1>7 DEF CpuTimeIsShared, CpuTime, SumFunction

(* Every other step leaves the total and the times of the processes.       *)
LEMMA StepShares == KernelInv /\ CpuTimeIsShared /\ [Next]_vars => CpuTimeIsShared'
<1> SUFFICES ASSUME KernelInv, CpuTimeIsShared, [Next]_vars PROVE CpuTimeIsShared'
  OBVIOUS
<1>1. CASE Cpu
  BY <1>1, CpuTickIsShared
<1>2. CASE Next /\ ~Cpu
  <2>1. \A p \in Procs : sched'[p].cpu = sched[p].cpu
    BY <1>2, StepCases, CpuTimeStays
  <2>2. CpuTime' = CpuTime
    BY <2>1 DEF CpuTime
  <2> QED
    BY <1>2, <2>2, CpuTotalStays DEF CpuTimeIsShared, CpuTime
<1>3. CASE UNCHANGED vars
  BY <1>3 DEF vars, pcb, CpuTimeIsShared
<1> QED
  BY <1>1, <1>2, <1>3

(* At the beginning nobody has run.                                        *)
LEMMA InitShares == Init => CpuTimeIsShared
<1> SUFFICES ASSUME Init PROVE CpuTimeIsShared
  OBVIOUS
<1>1. stats.cpu_time = 0 /\ \A p \in Procs : CpuTime[p] = 0
  BY DEF Init, Initially, CpuTime
<1> HIDE DEF CpuTime
<1>2. SumFunctionOnSet(CpuTime, Procs) = 0
  BY <1>1, ProcsAreFinite, SumOfZeros
<1> QED
  BY <1>1, <1>2 DEF CpuTimeIsShared, CpuTime, SumFunction

(* The clock, the totals of the simulator and the times of the processes,  *)
(* advanced by different functions in ticks of unequal lengths, account    *)
(* for the same time: loop.c, dispatcher.c and cpu.c.                      *)
THEOREM TimeIsAccountedFor == Spec => []TimeIsCharged
<1>1. ClockIsCharged /\ SwitchesCharged /\ CpuTimeIsShared /\ WaitingFitsTurnaround
      => TimeIsCharged
  BY DEF TimeIsCharged
<1> QED
  BY <1>1, InitShares, StepShares, KernelInvariant, TotalsAreCharged, WaitingIsBounded, PTL
  DEF Spec

-----------------------------------------------------------------------------
(* User memory: the operators of Holes.                                    *)

(* kfree takes the blocks of p, and only those: memory.c.                  *)
LEMMA ReleaseProperties ==
    ASSUME NEW c \in [Blocks -> Procs \cup {NULL}], NEW p \in Procs
    PROVE  /\ OwnedBy(Release(c, p), p) = {}
           /\ \A q \in Procs \ {p} : OwnedBy(Release(c, p), q) = OwnedBy(c, q)
  BY KernelAssumption DEF OwnedBy, Release

(* What kmalloc selects is free and long enough: memory.c.                 *)
LEMMA SelectedIsFree ==
    ASSUME NEW policy, NEW c, NEW n \in Nat \ {0}, NEW h \in Selected(policy, c, n)
    PROVE  /\ h.start \in Blocks
           /\ h.start .. h.start + n - 1 \subseteq Blocks
           /\ \A b \in h.start .. h.start + n - 1 : c[b] = NULL
<1>1. /\ h.start \in Blocks /\ h.length \in 1 .. TOTAL_BLOCKS /\ h.length >= n
      /\ IsFree(c, h.start, h.length)
  BY DEF Selected, Holes, IsHole
<1>2. h.start + h.length =< TOTAL_BLOCKS /\ h.start \in Nat /\ h.length \in Nat
  BY <1>1, TotalBlocksAssumption DEF IsFree, Blocks
<1>3. \A b \in h.start .. h.start + h.length - 1 : c[b] = NULL
  BY <1>1 DEF IsFree
<1>4. h.start .. h.start + n - 1 \subseteq h.start .. h.start + h.length - 1
  BY <1>1, <1>2
<1>5. h.start .. h.start + n - 1 \subseteq Blocks
  BY <1>2, <1>4, TotalBlocksAssumption DEF Blocks
<1> QED
  BY <1>1, <1>3, <1>4, <1>5

(* allocate_block gives p one piece of memory and takes none from others.  *)
LEMMA ClaimProperties ==
    ASSUME NEW c \in [Blocks -> Procs \cup {NULL}], NEW p \in Procs,
           NEW policy, NEW n \in Nat \ {0}, NEW h \in Selected(policy, c, n),
           OwnedBy(c, p) = {}
    PROVE  /\ h.start \in Blocks
           /\ OwnedBy(Claim(c, h.start, n, p), p) = h.start .. h.start + n - 1
           /\ \A q \in Procs \ {p} :
                 OwnedBy(Claim(c, h.start, n, p), q) = OwnedBy(c, q)
<1> DEFINE piece == h.start .. h.start + n - 1
<1>1. /\ h.start \in Blocks /\ piece \subseteq Blocks
      /\ \A b \in piece : c[b] = NULL
  BY SelectedIsFree
<1> HIDE DEF piece
<1>2. Claim(c, h.start, n, p) = [b \in Blocks |-> IF b \in piece THEN p ELSE c[b]]
  BY DEF Claim, piece
<1>3. OwnedBy(Claim(c, h.start, n, p), p) = piece
  BY <1>1, <1>2 DEF OwnedBy
<1>4. ASSUME NEW q \in Procs \ {p}
      PROVE  OwnedBy(Claim(c, h.start, n, p), q) = OwnedBy(c, q)
  BY <1>1, <1>2, KernelAssumption DEF OwnedBy
<1> QED
  BY <1>1, <1>3, <1>4 DEF piece

-----------------------------------------------------------------------------
(* Each step of the kernel that changes memory.                            *)

(* A process that gets its hole owns exactly that.                         *)
LEMMA MemoryTaken ==
    ASSUME TypeOK, MemoryMatchesResidence, NEW p \in Procs, ~resident[p],
           NEW h \in HoleFor(p), cells' = Claim(cells, h.start, profile[p].blocks, p),
           resident' = [resident EXCEPT ![p] = TRUE], UNCHANGED profile
    PROVE  MemoryMatchesResidence'
<1> DEFINE n == profile[p].blocks
<1>1. OwnedBy(cells, p) = {}
  BY DEF MemoryMatchesResidence
<1>2. n \in Nat \ {0} /\ cells \in [Blocks -> Procs \cup {NULL}]
  BY FieldTypes DEF TypeOK
<1>3. /\ h.start \in Blocks
      /\ OwnedBy(cells', p) = h.start .. h.start + n - 1
      /\ \A q \in Procs \ {p} : OwnedBy(cells', q) = OwnedBy(cells, q)
  BY <1>1, <1>2, ClaimProperties DEF HoleFor
<1>4. resident'[p] /\ \A q \in Procs \ {p} : resident'[q] = resident[q]
  BY DEF TypeOK
<1> SUFFICES ASSUME NEW q \in Procs
             PROVE  IF resident'[q]
                    THEN \E first \in Blocks : OwnedBy(cells', q) =
                            first .. first + profile[q].blocks - 1
                    ELSE OwnedBy(cells', q) = {}
  BY DEF MemoryMatchesResidence
<1>5. CASE q = p
  BY <1>3, <1>4, <1>5
<1>6. CASE q # p
  BY <1>3, <1>4, <1>6 DEF MemoryMatchesResidence
<1> QED
  BY <1>5, <1>6

(* A process that gives its memory back owns none.                         *)
LEMMA MemoryGivenBack ==
    ASSUME TypeOK, MemoryMatchesResidence, NEW p \in Procs, cells' = Release(cells, p),
           resident' = [resident EXCEPT ![p] = FALSE], UNCHANGED profile
    PROVE  MemoryMatchesResidence'
<1>1. /\ OwnedBy(cells', p) = {}
      /\ \A q \in Procs \ {p} : OwnedBy(cells', q) = OwnedBy(cells, q)
  BY ReleaseProperties, SMTT(60) DEF TypeOK
<1>2. ~resident'[p] /\ \A q \in Procs \ {p} : resident'[q] = resident[q]
  BY DEF TypeOK
<1> SUFFICES ASSUME NEW q \in Procs
             PROVE  IF resident'[q]
                    THEN \E first \in Blocks : OwnedBy(cells', q) =
                            first .. first + profile[q].blocks - 1
                    ELSE OwnedBy(cells', q) = {}
  BY DEF MemoryMatchesResidence
<1>3. CASE q = p
  BY <1>1, <1>2, <1>3
<1>4. CASE q # p
  BY <1>1, <1>2, <1>4 DEF MemoryMatchesResidence
<1> QED
  BY <1>3, <1>4

(* Every step keeps memory and residence in agreement.                     *)
LEMMA NextMemory ==
    KernelInv /\ MemoryMatchesResidence /\ Next => MemoryMatchesResidence'
<1> SUFFICES ASSUME KernelInv, MemoryMatchesResidence, Next
             PROVE  MemoryMatchesResidence'
  OBVIOUS
<1>1. TypeOK /\ Structure
  BY DEF KernelInv, TypeInv
<1>2. ASSUME UNCHANGED <<resident, cells, profile>> PROVE MemoryMatchesResidence'
  BY <1>2 DEF MemoryMatchesResidence
<1> USE DEF setup, memory
<1>3. CASE Arrival
  BY <1>2, <1>3 DEF Arrival, BeginTick, Arrive, SkipRow, ArrivalDone
<1>4. CASE SkipSwapIn \/ MidTermDone
  BY <1>2, <1>4 DEF SkipSwapIn, MidTermDone
<1>5. CASE SwapIn
  <2> DEFINE p == Head(todo)
  <2>1. /\ ~resident[p] /\ resident' = [resident EXCEPT ![p] = TRUE]
        /\ \E h \in HoleFor(p) : cells' = Claim(cells, h.start, profile[p].blocks, p)
        /\ UNCHANGED profile
    BY <1>5 DEF SwapIn, Waits
  <2>2. p \in Procs
    BY <1>1, <1>5, WalkProperties DEF SwapIn, TypeOK
  <2> HIDE DEF p
  <2> QED
    BY <1>1, <2>1, <2>2, MemoryTaken
<1>6. CASE SwapOut
  BY <1>1, <1>6, MemoryGivenBack DEF SwapOut, Candidates
<1>7. CASE Admit
  <2> DEFINE p == Head(todo)
  <2>1. /\ resident' = [resident EXCEPT ![p] = TRUE]
        /\ \E h \in HoleFor(p) : cells' = Claim(cells, h.start, profile[p].blocks, p)
        /\ UNCHANGED profile
    BY <1>7 DEF Admit
  <2>2. p \in Procs /\ p \in Range(job_q)
    BY <1>1, <1>7, WalkProperties DEF Admit, TypeOK, KernelInv, WalkStaysInQueue
  <2>3. ~resident[p]
    BY <1>1, <2>2 DEF Structure, OnePlaceEach, InPlace, OnlyResidentsCompete
  <2> HIDE DEF p
  <2> QED
    BY <1>1, <2>1, <2>2, <2>3, MemoryTaken
<1>8. CASE Reject
  <2>1. Head(todo) \in Procs
    BY <1>1, <1>8, WalkProperties DEF Reject, TypeOK
  <2> QED
    BY <1>1, <1>8, <2>1, MemoryGivenBack DEF Reject, Finish
<1>9. CASE SkipJob \/ JobDone
  BY <1>2, <1>9 DEF SkipJob, JobDone
<1>10. CASE Decision
  BY <1>2, <1>10 DEF Decision, Preempt, KeepRunning, StopSimulation, EndTick,
        SelectNext, SwitchTick, IdleTick, RunTick, StartTick
<1>11. CASE DeviceWorks \/ IoComplete \/ SwitchDone \/ TickDone
  BY <1>2, <1>11 DEF DeviceWorks, IoComplete, CompleteIo, AtDevice, SwitchDone, TickDone
<1>12. CASE KeyboardCancel
  <2>1. CompleteIo /\ Finish(Requester, TRUE, sched)
    BY <1>12 DEF KeyboardCancel, CompleteIo
  <2>2. Requester \in Procs /\ UNCHANGED profile
    BY <2>1, ServedRequest
  <2> QED
    BY <1>1, <2>1, <2>2, MemoryGivenBack DEF Finish
<1>13. CASE CpuFail \/ CpuTerminate
  <2>1. running \in Procs
    BY <1>1, <1>13 DEF KernelInv, TypeInv, TypeOK, TickHasOwner, CpuFail, CpuTerminate, Run
  <2> QED
    BY <1>1, <1>13, <2>1, MemoryGivenBack DEF CpuFail, CpuTerminate, Run, Finish
<1>14. CASE CpuBlock \/ CpuQuantum \/ CpuContinue
  BY <1>2, <1>14 DEF CpuBlock, CpuQuantum, CpuContinue, Run
<1>15. CASE Stopped
  BY <1>2, <1>15 DEF Stopped, vars
<1> QED
  BY <1>3, <1>4, <1>5, <1>6, <1>7, <1>8, <1>9, <1>10, <1>11, <1>12, <1>13, <1>14, <1>15
  DEF Next, Swapper, Admission, Device, Cpu

(* At the start nobody is resident and every block is free.                *)
LEMMA InitMemory ==
    ASSUME NEW rows \in Seq(Procs), NEW st \in SimulatorState, Initially(rows, st)
    PROVE  MemoryMatchesResidence
  BY KernelAssumption DEF Initially, MemoryMatchesResidence, OwnedBy

(* The same, with stutters.                                                *)
LEMMA StepMemory ==
    KernelInv /\ MemoryMatchesResidence /\ [Next]_vars => MemoryMatchesResidence'
<1>1. CASE Next
  BY <1>1, NextMemory
<1>2. CASE UNCHANGED vars
  BY <1>2 DEF vars, setup, memory, MemoryMatchesResidence
<1> QED
  BY <1>1, <1>2

(* A resident process owns one piece of memory of exactly its size and any *)
(* other process owns nothing: no block is leaked by a rejection, a swap,  *)
(* a cancellation or an end, and none is given to two processes.           *)
THEOREM MemoryIsAccountedFor == Spec => []MemoryMatchesResidence
<1>1. Init => MemoryMatchesResidence
  BY InitMemory, KernelAssumption DEF Init, SimulatorState
<1> QED
  BY <1>1, StepMemory, KernelInvariant, PTL DEF Spec

-----------------------------------------------------------------------------
(* Room for those who wait.                                                *)

(* Nobody could have the next tick of the CPU.                             *)
Starved == running = NULL /\ next_pcb = NULL /\ ready_q = <<>>

Deserted == \A p \in Procs : ~resident[p]

Fits(p) == CanFit(cells, profile[p].blocks)

NobodyWaits == job_q = <<>> /\ nonresident_q = <<>>

(* What job_scheduler rejects never gets further.                          *)
SizesFit ==
    \A p \in Procs : state[p] \in {"READY", "RUNNING", "BLOCKED"} => ~Oversized(p)

(* As long as nobody is ready: whom the second swap-in walk has passed     *)
(* does not fit; then nobody is left outside, and the walk over job_q has  *)
(* the whole queue ahead and will admit its first process.                 *)
RoomInv ==
    /\ SizesFit
    /\ pc = "mid2" /\ Starved =>
          \A p \in Range(nonresident_q) \ Range(todo) : ~Fits(p)
    /\ pc = "job2" /\ Starved =>
          /\ nonresident_q = <<>> /\ Range(job_q) \subseteq Range(todo)
          /\ Deserted \/ (todo # <<>> => Fits(Head(todo)))
    /\ pc \in {"preempt", "decide"} /\ Starved => NobodyWaits
    /\ pc = "bg_idle" /\ dev = 0 => NobodyWaits

(* Memory without residents is one hole.                                   *)
LEMMA EmptyMemoryFits ==
    ASSUME TypeOK, MemoryMatchesResidence, Deserted, NEW p \in Procs, ~Oversized(p)
    PROVE  Fits(p)
<1> DEFINE whole == [start |-> 0, length |-> TOTAL_BLOCKS]
<1>1. \A b \in Blocks : cells[b] = NULL
  BY DEF TypeOK, MemoryMatchesResidence, Deserted, OwnedBy
<1>2. whole \in Holes(cells)
  BY <1>1, TotalBlocksAssumption DEF Holes, IsHole, IsFree, Blocks
<1>3. profile[p].blocks \in Nat \ {0} /\ whole.length >= profile[p].blocks
  BY FieldTypes, TotalBlocksAssumption DEF Oversized
<1> QED
  BY <1>2, <1>3 DEF Fits, CanFit

(* No hole is larger than the memory.                                      *)
LEMMA OversizedNeverFits ==
    ASSUME TypeOK, NEW p \in Procs, Oversized(p)
    PROVE  ~Fits(p)
  BY FieldTypes, TotalBlocksAssumption DEF Fits, CanFit, Holes, Oversized

(* While nobody is ready, whoever is in memory is blocked.                 *)
LEMMA ResidentsAreBlocked ==
    ASSUME KernelInv, Starved, NEW p \in Procs, resident[p]
    PROVE  p \in Candidates
<1>1. /\ InPlace(p) /\ state[p] \in ProcessState /\ p \notin Range(ready_q)
      /\ p # running /\ p # next_pcb
      /\ state[p] \notin {"NONE", "NEW", "TERMINATED"}
  BY KernelAssumption DEF Starved, KernelInv, TypeInv, TypeOK, Structure,
     OnePlaceEach, OnlyResidentsCompete, Range
<1> QED
  BY <1>1 DEF InPlace, Candidates, ProcessState

(* The first index is the least.                                           *)
LEMMA LeastIsFirst ==
    ASSUME NEW I \in SUBSET (Nat \ {0}), 1 \in I
    PROVE  Min(I) = 1
<1>1. \A y \in I : 1 =< y
  OBVIOUS
<1>2. Min(I) \in I /\ \A y \in I : Min(I) =< y
  BY <1>1 DEF Min
<1> HIDE DEF Min
<1>3. Min(I) =< 1 /\ Min(I) \in Nat \ {0}
  BY <1>2
<1> QED
  BY <1>3

(* waiting_for_memory returns the head of nonresident_q, or of job_q: what *)
(* is in these queues waits, and has arrived.                              *)
LEMMA FirstInLine ==
    ASSUME KernelInv, WaitInv
    PROVE  WaitingForMemory =
              IF nonresident_q # <<>> THEN Head(nonresident_q)
              ELSE IF job_q # <<>> THEN Head(job_q) ELSE NULL
<1> DEFINE out == {i \in 1 .. Len(nonresident_q) : Waits(nonresident_q[i])}
           new == {i \in 1 .. Len(job_q) : HasArrived(job_q[i])}
<1>1. /\ nonresident_q \in Seq(Procs) /\ job_q \in Seq(Procs)
      /\ \A p \in Procs : InPlace(p)
  BY DEF KernelInv, TypeInv, TypeOK, Structure, OnePlaceEach
<1>2. nonresident_q # <<>> => 1 \in out
  <2> SUFFICES ASSUME nonresident_q # <<>> PROVE 1 \in out
    OBVIOUS
  <2>1. /\ 1 \in 1 .. Len(nonresident_q) /\ nonresident_q[1] \in Procs
        /\ nonresident_q[1] \in Range(nonresident_q)
    BY <1>1 DEF Range
  <2> QED
    BY <1>1, <2>1 DEF InPlace, Waits
<1>3. job_q # <<>> => 1 \in new
  <2> SUFFICES ASSUME job_q # <<>> PROVE 1 \in new
    OBVIOUS
  <2>1. 1 \in 1 .. Len(job_q) /\ job_q[1] \in Procs /\ job_q[1] \in Range(job_q)
    BY <1>1 DEF Range
  <2>2. state[job_q[1]] # "NONE"
    BY <1>1, <2>1 DEF InPlace
  <2> QED
    BY <2>1, <2>2 DEF WaitInv, HasArrived
<1>4. /\ SelectInSeq(nonresident_q, Waits) = IF out # {} THEN Min(out) ELSE 0
      /\ SelectInSeq(job_q, HasArrived) = IF new # {} THEN Min(new) ELSE 0
  BY DEF SelectInSeq
<1>5. SelectInSeq(nonresident_q, Waits) = IF nonresident_q # <<>> THEN 1 ELSE 0
  BY <1>1, <1>2, <1>4, LeastIsFirst
<1>6. SelectInSeq(job_q, HasArrived) = IF job_q # <<>> THEN 1 ELSE 0
  BY <1>1, <1>3, <1>4, LeastIsFirst
<1> QED
  BY <1>1, <1>5, <1>6 DEF WaitingForMemory

(* The second round of the swapper leaves nobody outside, and room for the *)
(* first of job_q, if nobody is ready after it.                            *)
LEMMA RoomWasMade ==
    ASSUME KernelInv, WaitInv, MemoryMatchesResidence, RoomInv,
           MidTermDone, pc = "mid2", Starved
    PROVE  /\ nonresident_q = <<>>
           /\ Deserted \/ (job_q # <<>> => Fits(Head(job_q)))
<1>1. /\ TypeOK /\ nonresident_q \in Seq(Procs) /\ job_q \in Seq(Procs)
      /\ todo = <<>> /\ ~(NeedsRoom /\ Candidates # {})
      /\ \A p \in Procs : InPlace(p)
  BY DEF KernelInv, TypeInv, TypeOK, Structure, OnePlaceEach, MidTermDone
<1>2. NeedsRoom => Deserted
  BY <1>1, ResidentsAreBlocked DEF Deserted
<1>3. nonresident_q = <<>>
  <2> SUFFICES ASSUME nonresident_q # <<>> PROVE FALSE
    OBVIOUS
  <2> DEFINE p == Head(nonresident_q)
  <2>1. p \in Procs /\ p \in Range(nonresident_q) /\ p \notin Range(todo)
    BY <1>1, WalkProperties DEF Range
  <2>2. ~Fits(p) /\ ~Oversized(p)
    BY <1>1, <2>1 DEF RoomInv, SizesFit, InPlace
  <2>3. NeedsRoom
    BY <2>1, <2>2, FirstInLine, KernelAssumption DEF NeedsRoom, Fits
  <2> QED
    BY <1>1, <1>2, <2>1, <2>2, <2>3, EmptyMemoryFits
<1>4. ASSUME job_q # <<>>, ~Fits(Head(job_q)) PROVE NeedsRoom
  <2>1. Head(job_q) \in Procs
    BY <1>1, <1>4, WalkProperties
  <2> QED
    BY <1>3, <1>4, <2>1, FirstInLine, KernelAssumption DEF NeedsRoom, Fits
<1> QED
  BY <1>2, <1>3, <1>4

(* The processes never change their size.                                  *)
LEMMA ProfileStays == Next => profile' = profile
  BY DEF Next, Arrival, Swapper, Admission, Decision, Device, Cpu, BeginTick, Arrive,
     SkipRow, ArrivalDone, SwapIn, SkipSwapIn, SwapOut, MidTermDone, Reject, Admit,
     SkipJob, JobDone, Preempt, KeepRunning, StopSimulation, EndTick, SelectNext,
     SwitchTick, IdleTick, RunTick, StartTick, DeviceWorks, IoComplete,
     KeyboardCancel, CompleteIo, AtDevice, SwitchDone, TickDone, CpuFail,
     CpuTerminate, CpuBlock, CpuQuantum, CpuContinue, Run, Stopped, vars, setup

(* Only admission lets a process in, and never one that is too large.      *)
LEMMA StepSizes ==
    ASSUME KernelInv, SizesFit, Next
    PROVE  SizesFit'
<1> DEFINE Inside == {"READY", "RUNNING", "BLOCKED"}
<1>0. TypeOK /\ Structure /\ \A p \in Procs : InPlace(p)
  BY DEF KernelInv, TypeInv, Structure, OnePlaceEach
<1>1. profile' = profile
  BY ProfileStays
<1>2. ASSUME NEW q \in Procs, state'[q] \in Inside, ~Oversized(q) \/ state[q] \in Inside
      PROVE  ~Oversized(q)'
  BY <1>1, <1>2 DEF SizesFit, Oversized
<1> SUFFICES ASSUME NEW q \in Procs, state'[q] \in Inside
             PROVE  ~Oversized(q) \/ state[q] \in Inside
  BY <1>2 DEF SizesFit
<1>3. ASSUME state' = state PROVE state[q] \in Inside
  BY <1>3
<1>4. ASSUME NEW p \in Procs, NEW st, state' = [state EXCEPT ![p] = st],
             state[p] \in Inside \/ st \notin Inside \/ ~Oversized(p)
      PROVE  ~Oversized(q) \/ state[q] \in Inside
  BY <1>0, <1>4 DEF TypeOK
<1> USE DEF pcb
<1>5. CASE Arrival
  <2>1. CASE Arrive
    <3>1. Head(todo) \in Procs /\ state' = [state EXCEPT ![Head(todo)] = "NEW"]
      BY <1>0, <2>1, WalkProperties DEF Arrive, TypeOK
    <3> QED
      BY <1>4, <3>1
  <2> QED
    BY <1>3, <1>5, <2>1 DEF Arrival, BeginTick, SkipRow, ArrivalDone
<1>6. CASE Swapper \/ SkipJob \/ JobDone
  BY <1>3, <1>6 DEF Swapper, SwapIn, SkipSwapIn, SwapOut, MidTermDone, SkipJob, JobDone
<1>7. CASE Admit
  <2>1. /\ Head(todo) \in Procs /\ ~Oversized(Head(todo))
        /\ state' = [state EXCEPT ![Head(todo)] = "READY"]
    BY <1>0, <1>7, WalkProperties DEF Admit, TypeOK
  <2> QED
    BY <1>4, <2>1
<1>8. CASE Reject \/ KeyboardCancel
  <2>1. PICK p \in Procs : Finish(p, TRUE, sched)
    BY <1>8, CancelSteps DEF Cancels
  <2> QED
    BY <1>4, <2>1 DEF Finish
<1>9. CASE Preempt
  <2>1. running \in Procs /\ state[running] \in Inside
    BY <1>0, <1>9 DEF Preempt, ShouldPreempt, TypeOK, InPlace
  <2> QED
    BY <1>4, <1>9, <2>1 DEF Preempt
<1>10. CASE KeepRunning \/ StopSimulation \/ EndTick \/ SwitchTick \/ IdleTick \/ RunTick
            \/ DeviceWorks \/ TickDone \/ Stopped
  BY <1>3, <1>10 DEF KeepRunning, StopSimulation, EndTick, SwitchTick, IdleTick, RunTick,
     StartTick, DeviceWorks, TickDone, Stopped, vars
<1>11. CASE SelectNext \/ SwitchDone
  <2>1. ASSUME NEW p \in Procs, state[p] = "READY", Dispatch(p)
        PROVE  ~Oversized(q) \/ state[q] \in Inside
    BY <1>4, <2>1 DEF Dispatch
  <2>2. CASE SelectNext
    <3>1. PICK p \in ChosenFrom(ready_q) : Dispatch(p) \/ state' = state
      BY <2>2 DEF SelectNext
    <3> QED
      BY <1>3, <2>1, <3>1, ChosenIsReady
  <2> QED
    BY <1>11, <2>1, <2>2, SwitchDoneDispatches DEF GetsCpu
<1>12. CASE IoComplete
  <2>1. /\ Requester \in Procs /\ state[Requester] \in Inside
        /\ state' = [state EXCEPT ![Requester] = "READY"]
    BY <1>12, HeadsOfWalks DEF IoComplete
  <2> QED
    BY <1>4, <2>1
<1>13. CASE Cpu
  <2>1. running \in Procs /\ state[running] \in Inside
    BY <1>13, CpuCases
  <2> QED
    BY <1>3, <1>4, <1>13, <2>1
    DEF Cpu, CpuFail, CpuTerminate, CpuBlock, CpuQuantum, CpuContinue, Finish
<1> QED
  BY <1>5, <1>6, <1>7, <1>8, <1>9, <1>10, <1>11, <1>12, <1>13
  DEF Next, Admission, Decision, Device

(* A walk has its next node and the rest ahead.                            *)
LEMMA WalkIsCovered ==
    ASSUME NEW S, NEW q \in Seq(S), q # <<>>
    PROVE  Range(q) \subseteq Range(Tail(q)) \cup {Head(q)}
<1> SUFFICES ASSUME NEW i \in DOMAIN q, q[i] # Head(q)
             PROVE  q[i] \in Range(Tail(q))
  BY DEF Range
<1>1. i \in 1 .. Len(q) /\ i # 1
  OBVIOUS
<1>2. i - 1 \in DOMAIN Tail(q) /\ Tail(q)[i - 1] = q[i]
  BY <1>1
<1> QED
  BY <1>2 DEF Range

(* One step of the walks, for those who wait.                              *)
LEMMA StepRoom ==
    KernelInv /\ WaitInv /\ MemoryMatchesResidence /\ RoomInv /\ Next => RoomInv'
<1> SUFFICES ASSUME KernelInv, WaitInv, MemoryMatchesResidence, RoomInv, Next
             PROVE  RoomInv'
  OBVIOUS
<1>0. /\ TypeOK /\ nonresident_q \in Seq(Procs) /\ job_q \in Seq(Procs)
      /\ ready_q \in Seq(Procs) /\ todo \in Seq(Procs)
      /\ \A p \in Procs : InPlace(p)
      /\ SizesFit'
  BY StepSizes DEF KernelInv, TypeInv, TypeOK, Structure, OnePlaceEach, RoomInv
<1> USE DEF Goto, queues, cpu, MidTerm, Job, Background
<1>1. ASSUME pc' \notin {"mid2", "job2", "preempt", "decide", "bg_idle"} PROVE RoomInv'
  BY <1>0, <1>1 DEF RoomInv
<1>2. ASSUME ~Starved', pc' # "bg_idle" PROVE RoomInv'
  BY <1>0, <1>2 DEF RoomInv
<1>3. ASSUME NEW p, ready_q' = Append(ready_q, p) PROVE ~Starved'
  BY <1>0, <1>3 DEF Starved
<1>4. CASE Arrival
  BY <1>1, <1>4 DEF Arrival, BeginTick, Arrive, SkipRow, ArrivalDone
<1>5. CASE SwapIn
  BY <1>2, <1>3, <1>5 DEF SwapIn
<1>6. CASE SkipSwapIn
  <2>1. CASE pc = "mid2" /\ Starved
    <3>1. /\ pc' = "mid2" /\ todo # <<>> /\ todo' = Tail(todo)
          /\ ~(Waits(Head(todo)) /\ Fits(Head(todo)))
          /\ UNCHANGED <<nonresident_q, cells, profile>>
      BY <1>6, <2>1 DEF SkipSwapIn, Fits, memory, setup
    <3>2. ASSUME NEW p \in Range(nonresident_q), p \notin Range(Tail(todo))
          PROVE  ~Fits(p)
      <4>1. p \in Procs /\ Waits(p)
        BY <1>0, <3>2 DEF InPlace, Waits, Range
      <4>2. p = Head(todo) \/ p \notin Range(todo)
        BY <1>0, <3>1, <3>2, WalkIsCovered
      <4> QED
        BY <2>1, <3>1, <4>1, <4>2 DEF RoomInv
    <3> QED
      BY <1>0, <3>1, <3>2 DEF RoomInv, Fits
  <2>2. CASE ~(pc = "mid2" /\ Starved)
    BY <1>0, <1>6, <2>2 DEF SkipSwapIn, RoomInv, Starved
  <2> QED
    BY <2>1, <2>2
<1>7. CASE SwapOut
  BY <1>0, <1>7 DEF SwapOut, RoomInv
<1>8. CASE MidTermDone
  <2>1. CASE pc = "mid2" /\ Starved
    <3>1. /\ pc' = "job2" /\ todo' = job_q
          /\ UNCHANGED <<nonresident_q, job_q, resident, cells, profile>>
      BY <1>8, <2>1 DEF MidTermDone, memory, setup
    <3> QED
      BY <1>0, <1>8, <2>1, <3>1, RoomWasMade DEF RoomInv, Deserted, Fits
  <2>2. CASE ~(pc = "mid2" /\ Starved)
    BY <1>0, <1>8, <2>2 DEF MidTermDone, RoomInv, Starved
  <2> QED
    BY <2>1, <2>2
<1>9. CASE Reject
  <2>1. CASE pc = "job2" /\ Starved
    <3> DEFINE p == Head(todo)
    <3>1. /\ pc' = "job2" /\ todo # <<>> /\ todo' = Tail(todo) /\ p \in Procs
          /\ Oversized(p) /\ job_q' = Dequeue(job_q, p) /\ nonresident_q' = nonresident_q
          /\ resident' = [resident EXCEPT ![p] = FALSE]
      BY <1>9, <2>1, HeadsOfWalks DEF Reject, Finish
    <3>2. ~Fits(p)
      BY <1>0, <3>1, OversizedNeverFits
    <3>3. Deserted'
      BY <1>0, <2>1, <3>1, <3>2 DEF RoomInv, Deserted, TypeOK
    <3>4. Range(job_q') = Range(job_q) \ {p}
      BY <1>0, <3>1, DequeueProperties DEF KernelInv, Structure, OnePlaceEach, QueuesDistinct
    <3>5. Range(todo) \subseteq Range(Tail(todo)) \cup {p}
      BY <1>0, <3>1, WalkIsCovered
    <3>6. nonresident_q' = <<>> /\ Range(job_q') \subseteq Range(todo')
      BY <2>1, <3>1, <3>4, <3>5 DEF RoomInv
    <3> QED
      BY <1>0, <3>1, <3>3, <3>6 DEF RoomInv
  <2>2. CASE ~(pc = "job2" /\ Starved)
    BY <1>0, <1>9, <2>2 DEF Reject, RoomInv, Starved
  <2> QED
    BY <2>1, <2>2
<1>10. CASE Admit
  BY <1>2, <1>3, <1>10 DEF Admit
<1>11. CASE SkipJob
  <2>1. CASE pc = "job2" /\ Starved
    <3>1. /\ todo # <<>> /\ ~Oversized(Head(todo)) /\ ~Fits(Head(todo))
          /\ Head(todo) \in Procs
      BY <1>11, HeadsOfWalks DEF SkipJob, Fits
    <3>2. Deserted
      BY <2>1, <3>1 DEF RoomInv
    <3> QED
      BY <1>0, <3>1, <3>2, EmptyMemoryFits
  <2>2. CASE ~(pc = "job2" /\ Starved)
    BY <1>0, <1>11, <2>2 DEF SkipJob, RoomInv, Starved
  <2> QED
    BY <2>1, <2>2
<1>12. CASE JobDone
  <2>1. CASE pc = "job1"
    BY <1>0, <1>12, <2>1 DEF JobDone, RoomInv
  <2>2. CASE pc = "job2"
    <3>1. pc' = "preempt" /\ todo = <<>> /\ UNCHANGED <<queues, cpu>>
      BY <1>12, <2>2 DEF JobDone
    <3>2. Starved => NobodyWaits
      BY <1>0, <2>2, <3>1, WalkProperties DEF RoomInv, NobodyWaits, Range
    <3> QED
      BY <1>0, <3>1, <3>2 DEF RoomInv, Starved, NobodyWaits
  <2> QED
    BY <1>12, <2>1, <2>2 DEF JobDone
<1>13. CASE Preempt
  BY <1>2, <1>3, <1>13 DEF Preempt
<1>14. CASE KeepRunning
  BY <1>0, <1>14 DEF KeepRunning, RoomInv, Starved, NobodyWaits
<1>15. CASE SelectNext
  <2>1. PICK p \in ChosenFrom(ready_q) : running' = p \/ next_pcb' = p
    BY <1>15 DEF SelectNext, Dispatch
  <2>2. ~Starved' /\ pc' = "decide"
    BY <1>15, <2>1, ChosenIsReady, KernelAssumption DEF Starved, SelectNext
  <2> QED
    BY <1>2, <2>2
<1>16. CASE SwitchTick \/ RunTick \/ StopSimulation \/ EndTick
  BY <1>1, <1>16 DEF SwitchTick, RunTick, StopSimulation, EndTick, StartTick
<1>17. CASE IdleTick
  <2>1. pc = "decide" /\ pc' = "bg_idle" /\ Starved /\ UNCHANGED queues
    BY <1>17 DEF IdleTick, StartTick, Starved
  <2> QED
    BY <1>0, <2>1 DEF RoomInv, NobodyWaits
<1>18. CASE DeviceWorks \/ IoComplete \/ KeyboardCancel
  <2>1. AtDevice
    BY <1>18 DEF DeviceWorks, IoComplete, KeyboardCancel, CompleteIo
  <2>2. dev \in Nat
    BY <1>0, KernelAssumption DEF TypeOK
  <2>3. pc' \in Background /\ dev' # 0
    BY <2>1, <2>2 DEF AtDevice
  <2> QED
    BY <1>0, <2>3 DEF RoomInv
<1>19. CASE SwitchDone \/ TickDone
  BY <1>1, <1>19 DEF SwitchDone, TickDone
<1>20. CASE Cpu
  BY <1>1, <1>20, CpuCases
<1>21. CASE Stopped
  BY <1>1, <1>21 DEF Stopped, vars, walk
<1> QED
  BY <1>4, <1>5, <1>6, <1>7, <1>8, <1>9, <1>10, <1>11, <1>12, <1>13, <1>14, <1>15,
     <1>16, <1>17, <1>18, <1>19, <1>20, <1>21
  DEF Next, Swapper, Admission, Decision, Device

(* Whoever was admitted fits into an empty memory.                         *)
LEMMA SizesInvariant == Spec => []SizesFit
<1>1. Init => SizesFit
  BY DEF Init, Initially, SizesFit
<1>2. SizesFit /\ UNCHANGED vars => SizesFit'
  BY DEF SizesFit, Oversized, vars, setup, pcb
<1> QED
  BY <1>1, <1>2, StepSizes, KernelInvariant, PTL DEF Spec

(* Whenever a tick of the CPU is wasted, nobody waits for memory.          *)
THEOREM IdleCpuMeansNobodyWaits == Spec => []IdleMeansNobodyWaits
<1>1. Init => RoomInv
  BY DEF Init, Initially, RoomInv, SizesFit
<1>2. RoomInv /\ UNCHANGED vars => RoomInv'
  BY DEF RoomInv, SizesFit, Oversized, Starved, Deserted, Fits, NobodyWaits,
     vars, walk, setup, pcb, queues, cpu, memory
<1>3. RoomInv => IdleMeansNobodyWaits
  BY DEF RoomInv, NobodyWaits, IdleMeansNobodyWaits
<1> QED
  BY <1>1, <1>2, <1>3, StepRoom, KernelInvariant, StayInvariant,
     MemoryIsAccountedFor, PTL DEF Spec
=============================================================================
