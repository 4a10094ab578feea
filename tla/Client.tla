------------------------------- MODULE Client -------------------------------
(***************************************************************************)
(* The GUI and the C program it drives (src/gui): an algorithm window, the *)
(* simulation service with its store of processes and histories, and the   *)
(* gateway with its pipes, reader thread and queue of lines.  The GUI      *)
(* thread, the reader threads and the C process interleave; a C process    *)
(* ends by itself while the GUI decides, writes or waits.                  *)
(*                                                                         *)
(* Of a process only its PID matters here, and it stands for its place in  *)
(* the order of creation (the C program counts from RESERVED_PID_COUNT).   *)
(* Of the C program only what the GUI can tell apart is kept.              *)
(***************************************************************************)
EXTENDS Integers, Sequences, FiniteSetsExt, SequencesExt

CONSTANTS
    NONE,                       \* no window, no active algorithm
    Algorithms,
    RANDOM_COUNT,               \* processes that RANDOM creates
    MEMORY_HISTORY_LIMIT,
    TypedLines,                 \* what the user may type into the log
    JOINS_IN_TIME,              \* readers end within the timeout of a join
    MAX_CLICKS                  \* bound: what the user does

ASSUME ClientAssumption ==
    /\ NONE \notin Algorithms
    /\ RANDOM_COUNT \in Nat \ {0}
    /\ MEMORY_HISTORY_LIMIT \in Nat \ {0}
    /\ TypedLines \subseteq {"ADD", "PAUSE", "RUN", "STOP", "run"}
    /\ JOINS_IN_TIME \in BOOLEAN
    /\ MAX_CLICKS \in Nat

VARIABLES
    window,             \* algorithm of the open window
    ui,                 \* flags and header of the window
    store,              \* per algorithm: list, next PID, random count, history
    active,             \* _active_algorithm
    handle,             \* the gateway's _process is not None
    queue,              \* _stdout_queue
    task,               \* what the GUI thread is in the middle of
    clicks,             \* what the user did so far
    gen,                \* C processes started so far
    c,                  \* the last of them
    inp,                \* its stdin
    out                 \* the stdout of each, as far as it is unread

gui == <<window, ui, store, active, handle, queue, task, clicks>>
program == <<gen, c, inp, out>>
vars == <<gui, program>>

Gens == 0 .. MAX_CLICKS
Snapshot ==
    [gen : Gens, alg : Algorithms, sequence : Nat, count : Nat,
     state : {"PAUSE", "RUN", "STOP"}]

Ready == [name |-> "none", step |-> "ready", lines |-> <<>>, starts |-> FALSE]
NewWindow ==
    [timer |-> FALSE, header |-> "INACTIVO", controls |-> FALSE,
     paused |-> FALSE, started |-> FALSE]
NoProcesses == [list |-> <<>>, next_pid |-> 1, random |-> 0, history |-> <<>>]

Init ==
    /\ window = NONE /\ ui = NewWindow /\ task = Ready /\ clicks = 0
    /\ store = [a \in Algorithms |-> NoProcesses]
    /\ active = NONE /\ handle = FALSE /\ queue = <<>>
    /\ gen = 0 /\ inp = <<>> /\ out = [g \in Gens |-> <<>>]
    /\ c = [alive |-> FALSE, state |-> "STOP", count |-> 0, sequence |-> 0,
            alg |-> NONE]

Running == handle /\ c.alive
Pids(n) == [i \in 1 .. n |-> i]
HasProcesses(a) == store[a].list # <<>> \/ store[a].random > 0

-----------------------------------------------------------------------------
(* The user.  A handler first decides what to send, from whether the C     *)
(* process runs at that moment, and sends it afterwards.                   *)

Click == task = Ready /\ clicks < MAX_CLICKS /\ clicks' = clicks + 1
InWindow == window # NONE /\ Click /\ UNCHANGED <<window, active, handle, queue, program>>

(* send_command: to the process there is.                                  *)
Write(name, lines) ==
    task' = [name |-> name, step |-> "send", lines |-> lines, starts |-> FALSE]

(* _send_command_lines: to a process of this window, if need be a new one. *)
StartAndWrite(name, lines) ==
    task' = [name |-> name, step |-> "send", lines |-> lines, starts |-> TRUE]

Open(a) ==
    /\ window = NONE /\ Click
    /\ window' = a /\ ui' = NewWindow
    /\ StartAndWrite("open", <<"CONFIG">>)
    /\ UNCHANGED <<store, active, handle, queue, program>>

(* Only the timer of the window stops; the C process goes on.              *)
GoBack ==
    /\ window # NONE /\ task = Ready
    /\ window' = NONE /\ ui' = NewWindow
    /\ UNCHANGED <<store, active, handle, queue, task, clicks, program>>

AddProcess ==
    /\ InWindow
    /\ store' = [store EXCEPT ![window] =
                    [list |-> Append(@.list, @.next_pid), next_pid |-> @.next_pid + 1,
                     random |-> @.random, history |-> @.history]]
    /\ IF Running /\ active = window THEN Write("add", <<"ADD">>)
       ELSE StartAndWrite("add", <<"CONFIG", "ADD">>)
    /\ UNCHANGED ui

AddRandom ==
    /\ InWindow /\ ~ui.controls /\ ~ui.started
    /\ store' = [store EXCEPT ![window].random = @ + RANDOM_COUNT]
    /\ StartAndWrite("random", <<"CONFIG", "RANDOM">>)
    /\ UNCHANGED ui

Adds(a) == [i \in DOMAIN store[a].list |-> "ADD"]

StartSimulation ==
    /\ InWindow /\ ~ui.controls
    /\ IF ~HasProcesses(window)
       THEN ui' = [ui EXCEPT !.header = "SIN PROCESOS"] /\ UNCHANGED task
       ELSE /\ StartAndWrite("start",
                   IF Running /\ active = window THEN <<"CONFIG", "RUN">>
                   ELSE <<"CONFIG">> \o Adds(window) \o <<"RUN">>)
            /\ UNCHANGED ui
    /\ UNCHANGED store

PauseSimulation ==
    /\ InWindow /\ ui.controls
    /\ IF ui.paused THEN Write("continue", <<"RUN">>) ELSE Write("pause", <<"PAUSE">>)
    /\ UNCHANGED <<ui, store>>

StopButton ==
    /\ InWindow /\ ui.controls
    /\ Write("stop", <<"STOP">>)
    /\ UNCHANGED <<ui, store>>

ClearProcesses ==
    /\ InWindow /\ ~ui.controls
    /\ IF Running THEN Write("clear", <<"STOP">>) /\ UNCHANGED <<ui, store>>
       ELSE /\ store' = [store EXCEPT ![window] = NoProcesses]
            /\ ui' = [ui EXCEPT !.header = "INACTIVO"]
            /\ UNCHANGED task

(* Memory policy, switch cost, speed: nothing else changes unless sent.    *)
ChangeSettings ==
    /\ InWindow /\ Running /\ active = window
    /\ Write("settings", <<"CONFIG">>)
    /\ UNCHANGED <<ui, store>>

SendLogCommand ==
    /\ InWindow
    /\ \E line \in TypedLines : Write("typed", <<line>>)
    /\ UNCHANGED <<ui, store>>

User ==
    \/ \E a \in Algorithms : Open(a)
    \/ GoBack \/ AddProcess \/ AddRandom \/ StartSimulation \/ PauseSimulation
    \/ StopButton \/ ClearProcesses \/ ChangeSettings \/ SendLogCommand

-----------------------------------------------------------------------------
(* What a handler shows once its lines are written, or are refused.        *)

(* Mutant: the window that loads processes does not poll.                  *)
LoadingUnpolled(header) == [ui EXCEPT !.header = header]

Loading(header) == [ui EXCEPT !.timer = TRUE, !.header = header]
RunShown ==
    [ui EXCEPT !.paused = FALSE, !.started = TRUE, !.controls = TRUE,
               !.timer = TRUE, !.header = "C EJECUTANDO"]
StopShown ==
    [ui EXCEPT !.paused = FALSE, !.started = FALSE, !.controls = FALSE,
               !.header = "DETENIDO"]

(* The GUI does not care for case; the C program does.                     *)
TypedShown(line) ==
    CASE line \in {"RUN", "run"} -> RunShown
      [] line = "PAUSE" -> [ui EXCEPT !.paused = TRUE, !.timer = TRUE, !.header = "PAUSA"]
      [] line = "STOP" -> [StopShown EXCEPT !.timer = TRUE]
      [] OTHER -> Loading(IF ui.started THEN ui.header ELSE "CARGANDO")

SentShown ==
    CASE task.name = "open" -> [ui EXCEPT !.timer = TRUE]
      [] task.name = "add" -> Loading(IF ~ui.started THEN "CARGADO"
                                      ELSE IF ui.paused THEN "PAUSA" ELSE "C EJECUTANDO")
      [] task.name = "random" -> Loading("CARGANDO")
      [] task.name = "start" -> RunShown
      [] task.name = "pause" -> [ui EXCEPT !.paused = TRUE, !.header = "PAUSA"]
      [] task.name = "continue" -> [ui EXCEPT !.paused = FALSE, !.header = "C EJECUTANDO"]
      [] task.name = "typed" -> TypedShown(task.lines[1])
      [] OTHER -> ui

Stops == task.name \in {"stop", "clear"}

RefusedShown ==
    IF Stops \/ task.name \in {"pause", "continue"} THEN ui
    ELSE [ui EXCEPT !.header = "ERROR"]

Step(s) == task' = IF s = "ready" THEN Ready ELSE [task EXCEPT !.step = s]

Accepted ==
    /\ ui' = SentShown
    /\ Step(IF Stops THEN "wait" ELSE IF task.name = "typed" THEN "poll" ELSE "ready")

Rejected ==
    /\ ui' = RefusedShown
    /\ Step(IF Stops THEN "poll" ELSE "ready")

-----------------------------------------------------------------------------
(* Writing, and starting a C process.                                      *)

Sending == task.step = "send" /\ UNCHANGED <<window, store, clicks>>

Reaches == Running /\ (task.starts => active = window)

SendLines ==
    /\ Sending /\ Reaches
    /\ inp' = inp \o task.lines
    /\ Accepted
    /\ UNCHANGED <<active, handle, queue, gen, c, out>>

(* The process exits in between: the pipe breaks.                          *)
BrokenPipe ==
    /\ Sending /\ Reaches /\ c.state = "STOP"
    /\ c' = [c EXCEPT !.alive = FALSE] /\ inp' = <<>>
    /\ Rejected
    /\ UNCHANGED <<active, handle, queue, gen, out>>

NotRunning ==
    /\ Sending /\ ~Running /\ ~task.starts
    /\ Rejected
    /\ UNCHANGED <<active, handle, queue, program>>

Shows(g, p) ==
    [gen |-> g, alg |-> p.alg, sequence |-> p.sequence, count |-> p.count,
     state |-> p.state]

(* The process of another window is terminated; queue and reader are new.  *)
StartProcess ==
    /\ Sending /\ task.starts /\ ~Reaches
    /\ gen' = gen + 1
    /\ c' = [alive |-> TRUE, state |-> "PAUSE", count |-> 0, sequence |-> 1,
             alg |-> window]
    /\ inp' = task.lines
    /\ out' = [out EXCEPT ![gen + 1] = <<Shows(gen + 1, c')>>]
    /\ handle' = TRUE /\ queue' = <<>> /\ active' = window
    /\ Accepted

-----------------------------------------------------------------------------
(* Reading.                                                                *)

(* Mutant: the reader of an old process uses the queue of the new one.     *)
DeliveredToNew(line) == Append(queue, line)

(* Each reader thread keeps the queue it was started with.                 *)
Delivered(line) == IF line.gen = gen THEN Append(queue, line) ELSE queue

ReadLine(g) ==
    /\ out[g] # <<>>
    /\ queue' = Delivered(Head(out[g]))
    /\ out' = [out EXCEPT ![g] = Tail(@)]
    /\ UNCHANGED <<window, ui, store, active, handle, task, clicks, gen, c, inp>>

(* How many lines the reader has put into the queue when a join returns.   *)
Joined == IF JOINS_IN_TIME THEN {Len(out[gen])} ELSE 0 .. Len(out[gen])

Drained(k) == queue \o SubSeq(out[gen], 1, k)
Left(k) == [out EXCEPT ![gen] = SubSeq(@, k + 1, Len(@))]

(* read_stdout_lines joins the reader of a process that has exited.        *)
Readable == IF handle /\ ~c.alive THEN Joined ELSE {0}

-----------------------------------------------------------------------------
(* The reducer.                                                            *)

(* The oldest samples beyond the limit are deleted.                        *)
Trimmed(history) ==
    IF Len(history) > MEMORY_HISTORY_LIMIT
    THEN SubSeq(history, Len(history) - MEMORY_HISTORY_LIMIT + 1, Len(history))
    ELSE history

(* Mutant: a new process is not recognised by its sequence.                *)
SampledOn(history, events) == Trimmed(history \o events)

(* _append_memory_history, what it makes of each history: a sequence       *)
(* number that falls back starts a new one, one that repeats is skipped.   *)
AppendMemoryHistory(event) ==
    [history \in Seq(Snapshot) |->
        LET previous == IF history = <<>> THEN 0 ELSE Last(history).sequence
        IN  CASE event.sequence = previous -> history
              [] event.sequence < previous -> <<event>>
              [] OTHER -> Trimmed(Append(history, event))]

(* The history after the snapshots that a poll brings.                     *)
Sampled(history, events) ==
    LET after[i \in 0 .. Len(events)] ==
            IF i = 0 THEN history ELSE AppendMemoryHistory(events[i])[after[i - 1]]
    IN  after[Len(events)]

(* Mutant: the next PID is left to the additions made by hand.             *)
SameNextPid(a, n) == store[a].next_pid

NextPid(a, n) == IF n > 0 THEN n + 1 ELSE store[a].next_pid

(* The last snapshot replaces the list, whatever was added meanwhile.      *)
Reduced(a, events) ==
    IF events = <<>> THEN store
    ELSE [store EXCEPT ![a] =
            [list |-> Pids(Last(events).count),
             next_pid |-> NextPid(a, Last(events).count),
             random |-> 0,
             history |-> Sampled(@.history, events)]]

Loaded(events) ==
    IF events = <<>> \/ ui.started THEN ui ELSE [ui EXCEPT !.header = "CARGADO"]

-----------------------------------------------------------------------------
(* Polling.                                                                *)

PollRead ==
    /\ \/ task = Ready /\ ui.timer
          /\ task' = [Ready EXCEPT !.name = "poll", !.step = "check"]
       \/ task.step = "poll" /\ Step("check")
    /\ \E k \in Readable :
          /\ store' = Reduced(window, Drained(k))
          /\ ui' = Loaded(Drained(k))
          /\ out' = Left(k)
    /\ queue' = <<>>
    /\ UNCHANGED <<window, active, handle, clicks, gen, c, inp>>

(* Mutant: the end is only shown with the lines that announce it.          *)
EndSeenWithLines(shown, events) ==
    IF shown.header = "C EJECUTANDO" /\ events # <<>>
    THEN [shown EXCEPT !.timer = FALSE, !.started = FALSE, !.controls = FALSE,
                       !.header = "FINALIZADO"]
    ELSE [shown EXCEPT !.timer = FALSE, !.started = FALSE]

EndSeen(shown, events) ==
    IF shown.header = "C EJECUTANDO"
    THEN [shown EXCEPT !.timer = FALSE, !.started = FALSE, !.controls = FALSE,
                       !.header = "FINALIZADO"]
    ELSE [shown EXCEPT !.timer = FALSE, !.started = FALSE]

(* Mutant: lines that arrive after the first look are left in the queue.   *)
FinalEventsUnread(k) == <<>>

FinalEvents(k) == Drained(k)

PollCheck ==
    /\ task.step = "check" /\ ~Stops
    /\ Step("ready")
    /\ IF Running THEN UNCHANGED <<store, ui, queue, out>>
       ELSE /\ \E k \in Readable :
                  /\ store' = Reduced(window, FinalEvents(k))
                  /\ ui' = EndSeen(Loaded(FinalEvents(k)), FinalEvents(k))
                  /\ out' = Left(k)
            /\ queue' = <<>>
    /\ UNCHANGED <<window, active, handle, clicks, gen, c, inp>>

(* wait_for_exit, and terminate if it times out.                           *)
WaitForExit ==
    /\ task.step = "wait" /\ Step("poll")
    /\ c' = [c EXCEPT !.alive = FALSE] /\ inp' = <<>>
    /\ handle' = FALSE /\ active' = NONE
    /\ \E k \in Joined : queue' = Drained(k) /\ out' = Left(k)
    /\ UNCHANGED <<window, ui, store, clicks, gen>>

(* The rest of stop_simulation and clear_processes.                        *)
StopDone ==
    /\ task.step = "check" /\ Stops
    /\ Step("ready")
    /\ \E k \in Readable :
          /\ store' = IF task.name = "clear" THEN [store EXCEPT ![window] = NoProcesses]
                      ELSE Reduced(window, FinalEvents(k))
          /\ out' = Left(k)
    /\ queue' = <<>>
    /\ ui' = [StopShown EXCEPT !.timer = FALSE,
                 !.header = IF task.name = "clear" THEN "INACTIVO" ELSE @]
    /\ UNCHANGED <<window, active, handle, clicks, gen, c, inp>>

-----------------------------------------------------------------------------
(* The C process.                                                          *)

Obeyed(line) ==
    CASE line = "ADD" -> [c EXCEPT !.count = @ + 1]
      [] line = "RANDOM" -> [c EXCEPT !.count = @ + RANDOM_COUNT]
      [] line \in {"PAUSE", "RUN", "STOP"} -> [c EXCEPT !.state = line]
      [] OTHER -> c

Says(p) ==
    /\ c' = [p EXCEPT !.sequence = @ + 1]
    /\ out' = [out EXCEPT ![gen] = Append(@, Shows(gen, c'))]

ReadCommand ==
    /\ c.alive /\ c.state # "STOP" /\ inp # <<>>
    /\ inp' = Tail(inp)
    /\ IF Head(inp) = "run" THEN UNCHANGED <<c, out>> ELSE Says(Obeyed(Head(inp)))
    /\ UNCHANGED <<gui, gen>>

(* All processes have ended.                                               *)
Finish ==
    /\ c.alive /\ c.state = "RUN" /\ c.count > 0
    /\ Says([c EXCEPT !.state = "STOP"])
    /\ UNCHANGED <<gui, gen, inp>>

Exit ==
    /\ c.alive /\ c.state = "STOP"
    /\ c' = [c EXCEPT !.alive = FALSE] /\ inp' = <<>>
    /\ UNCHANGED <<gui, gen, out>>

Gateway == SendLines \/ BrokenPipe \/ NotRunning \/ StartProcess \/ WaitForExit
Poll == PollRead \/ PollCheck \/ StopDone
Reader == \E g \in Gens : ReadLine(g)

(* The user has no more to do.                                             *)
Quiet == clicks = MAX_CLICKS /\ window = NONE /\ UNCHANGED vars

Next == User \/ Gateway \/ Poll \/ Reader \/ ReadCommand \/ Finish \/ Exit \/ Quiet

Spec == Init /\ [][Next]_vars

(* The GUI thread comes to the end of its handlers and to its timer, each  *)
(* reader reads, and the C process reads its commands and exits; nothing   *)
(* says that the user acts or that a simulation ends.                      *)
FairSpec ==
    /\ Spec
    /\ WF_vars(Gateway) /\ WF_vars(Poll)
    /\ \A g \in Gens : WF_vars(ReadLine(g))
    /\ WF_vars(ReadCommand) /\ WF_vars(Exit)

-----------------------------------------------------------------------------
(* Properties.                                                             *)

(* The PIDs that the GUI guesses for what it adds never clash with those   *)
(* the C program reports, however additions and stale snapshots alternate. *)
PidsUnique ==
    \A a \in Algorithms :
        LET list == store[a].list
        IN  /\ IsInjective(list)
            /\ \A i \in DOMAIN list : list[i] < store[a].next_pid

(* What a window is about to read was said by the C process that runs now, *)
(* and that process simulates the algorithm of this window: nothing of an  *)
(* earlier process or of another window slips in around a restart.         *)
NothingCrosses ==
    \A i \in DOMAIN queue :
        /\ queue[i].gen = gen
        /\ window # NONE /\ task.name # "open" => queue[i].alg = window

(* The memory history, from which averages and peaks are shown, is that of *)
(* one run of its own algorithm, in order; only the snapshot of an empty   *)
(* simulator that every run starts with may be an earlier run's.  However  *)
(* many samples one poll brings, it stays within its limit.                *)
HistoryIsOfOneRun ==
    \A a \in Algorithms :
        LET h == store[a].history
        IN  /\ Len(h) =< MEMORY_HISTORY_LIMIT
            /\ \A j \in DOMAIN h :
                  /\ h[j].alg = a
                  /\ \A i \in 1 .. j - 1 :
                        /\ h[i].sequence < h[j].sequence
                        /\ h[i].gen = h[j].gen \/ h[i].sequence = 1

(* When the header says FINALIZADO, the window has seen the last snapshot  *)
(* unless it is still unread: the process table it shows misses nobody and *)
(* is final.  (It may end in a process whose ADD the C program exited      *)
(* without reading.)                                                       *)
FinalIsComplete ==
    task = Ready /\ ui.header = "FINALIZADO" /\ queue = <<>> /\ out[gen] = <<>> =>
        /\ IsPrefix(Pids(c.count), store[window].list)
        /\ store[window].history # <<>>
        /\ Last(store[window].history).state = "STOP"

(* A window that shows a running simulation notices that it has ended.     *)
EndIsNoticed ==
    window # NONE /\ ui.header = "C EJECUTANDO" /\ ~Running
        ~> ui.header # "C EJECUTANDO" \/ Running

(* Whatever guesses and stale snapshots came before, in the end the window *)
(* shows exactly the processes that the C program has.                     *)
ListCatchesUp ==
    <>[](window # NONE /\ Running => store[window].list = Pids(c.count))

(* C EJECUTANDO, "C is executing": once commands and lines have gone       *)
(* through and the window polls, the C program does run.                   *)
RunningIsRunning ==
    task = Ready /\ ui.header = "C EJECUTANDO" /\ Running
        /\ inp = <<>> /\ out[gen] = <<>> /\ queue = <<>>
        => c.state # "PAUSE"

(* "Agrega al menos un proceso": Start never runs an empty simulation.     *)
NeverRunsEmpty == c.alive /\ c.state = "RUN" => c.count > 0
=============================================================================
