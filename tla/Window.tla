------------------------------- MODULE Window -------------------------------
(***************************************************************************)
(* What an algorithm window shows and sends: its settings, its form, its   *)
(* tabs and cards, and the C program that answers (src/gui/windows,        *)
(* components, services and state).  Client has the threads, queues and    *)
(* races of the pipes; here the C program's lines arrive in order and only *)
(* the last snapshot that was not read matters.                            *)
(*                                                                         *)
(* A process is the length of its name, the segments it is sent with and,  *)
(* for the properties only, those the user had chosen for it.              *)
(***************************************************************************)
EXTENDS Integers, FiniteSets, SequencesExt

CONSTANTS
    Algorithms, ROUND_ROBIN,
    Memories, Costs, Quanta, Speeds,    \* what the controls can be set to
    Names,          \* [length, wide]: characters, those of two bytes
    Splits,         \* text, data and dynamic percentages of the slider
    RandomCounts,
    MAX_PROCESSES, MAX_TIME, MAX_CLICKS,    \* bounds
    NULL

Percentages == [text |-> 30, data |-> 30, dynamic |-> 40]
SwitchCost == 5                 \* tenths of a unit of time
Quantum == 50
Speed == 5

ASSUME WindowAssumption ==
    /\ ROUND_ROBIN \in Algorithms /\ NULL \notin Algorithms
    /\ \A s \in Splits : s.text + s.data + s.dynamic = 100
    /\ SwitchCost \in Costs /\ Quantum \in Quanta /\ Speed \in Speeds
    /\ 0 \in Memories
    /\ \A n \in Names : n.length \in Nat /\ n.wide \in Nat
    /\ RandomCounts \subseteq Nat

VARIABLES
    store,      \* SimulationSessionStore
    active,     \* _active_algorithm of the service
    window,     \* algorithm of the open window, or NULL
    ui,         \* its flags, header and slider of speed
    split,      \* its slider of segments
    view,       \* caches of execute_tab, what its tab shows, the cards
    c,          \* the C program, with the commands it has not read
    out,        \* its last snapshot that was not polled
    typed,      \* a typed command changed a setting behind the store
    clicks

vars == <<store, active, window, ui, split, view, c, out, typed, clicks>>

Tabs == {"EXECUTION", "QUEUES", "STATS", "PCB", "SYSTEM"}

-----------------------------------------------------------------------------
(* The store, and the commands of the service.                             *)

Cleared(session) ==
    [session EXCEPT !.processes = <<>>, !.random = 0, !.speed = Speed, !.state = NULL]
NewSession ==
    [processes |-> <<>>, random |-> 0, speed |-> Speed, state |-> NULL,
     cost |-> SwitchCost, quantum |-> Quantum, system |-> FALSE]
EmptyStore == [memory |-> 0, of |-> [a \in Algorithms |-> NewSession]]

Mine == store.of[window]
HasProcesses == Mine.processes # <<>> \/ Mine.random > 0

Config(s, a) ==
    [alg |-> a, memory |-> s.memory, cost |-> s.of[a].cost,
     quantum |-> IF a = ROUND_ROBIN THEN s.of[a].quantum ELSE 0,
     speed |-> s.of[a].speed]

SetConfig(s, a) == [name |-> "SET_CONFIG", config |-> Config(s, a)]
Add(p) == [name |-> "ADD", process |-> p]
Plain(name) == [name |-> name]

(* _sanitize_name: no more than 15 characters, a short one for an empty    *)
(* one; the C program counts bytes.                                        *)
AtMost(x, bound) == IF x > bound THEN bound ELSE x
Bytes(n) ==
    IF n.length = 0 THEN 2 ELSE AtMost(n.length, 15) + AtMost(n.wide, 15)
Process(n) == [bytes |-> Bytes(n), split |-> split, entered |-> split]
RandomProcess == [bytes |-> 3, split |-> Percentages, entered |-> Percentages]

-----------------------------------------------------------------------------
(* The C program.                                                          *)

NewC == [alive |-> TRUE, mode |-> "PAUSE", config |-> NULL, processes |-> <<>>,
         time |-> 0, pipe |-> <<>>]
Dead(p) == [p EXCEPT !.alive = FALSE, !.pipe = <<>>]

(* A snapshot does not tell the percentages of a process: the list that is *)
(* rebuilt from it has the default ones.                                   *)
FromPcb(p) == [p EXCEPT !.split = Percentages]
Snapshot(p) ==
    [time |-> p.time,
     processes |-> [i \in DOMAIN p.processes |-> FromPcb(p.processes[i])]]

(* ADD reads 15 bytes as the name; more make the rest unreadable.          *)
Valid(line) == line.name = "ADD" => line.process.bytes <= 15

(* Mutant: PAUSE is obeyed without a snapshot.                             *)
AnswersUnlessPause(line) == Valid(line) /\ line.name # "PAUSE"

Answers(line) == Valid(line)

Obeyed(p, line) ==
    CASE line.name = "SET_CONFIG" -> [p EXCEPT !.config = line.config]
      [] line.name = "SET_SWITCH_COST" -> [p EXCEPT !.config.cost = line.cost]
      [] line.name = "ADD" /\ Valid(line) ->
            [p EXCEPT !.processes = Append(@, line.process)]
      [] line.name = "RANDOM" ->
            [p EXCEPT !.processes = @ \o [i \in 1 .. line.count |-> RandomProcess]]
      [] line.name \in {"RUN", "PAUSE", "STOP"} -> [p EXCEPT !.mode = line.name]
      [] OTHER -> p

(* What the pipe holds up to a STOP is obeyed before the program exits.    *)
ObeyedUnlessStopped(p, line) == IF p.mode = "STOP" THEN p ELSE Obeyed(p, line)
Drained(p) == FoldLeft(ObeyedUnlessStopped, [p EXCEPT !.pipe = <<>>], p.pipe)

ReadCommand ==
    /\ c.alive /\ c.pipe # <<>>
    /\ LET line == Head(c.pipe)
           p == Obeyed([c EXCEPT !.pipe = Tail(@)], line)
       IN  /\ c' = IF p.mode = "STOP" THEN Dead(p) ELSE p
           /\ out' = IF Answers(line) THEN Snapshot(p) ELSE out
    /\ UNCHANGED <<store, active, window, ui, split, view, typed, clicks>>

Tick ==
    /\ c.alive /\ c.mode = "RUN" /\ c.time < MAX_TIME
    /\ c' = [c EXCEPT !.time = @ + 1]
    /\ out' \in {out, Snapshot(c')}
    /\ UNCHANGED <<store, active, window, ui, split, view, typed, clicks>>

EndOfSimulation ==
    /\ c.alive /\ c.mode = "RUN" /\ c.processes # <<>>
    /\ c' = Dead([c EXCEPT !.mode = "STOP"])
    /\ out' = Snapshot(c')
    /\ UNCHANGED <<store, active, window, ui, split, view, typed, clicks>>

-----------------------------------------------------------------------------
(* The tabs: only the current one is drawn, from the three caches.  (The   *)
(* averages of the statistics tab, which stay when there is no state, are  *)
(* left out.)                                                              *)

Drawn(v) ==
    CASE v.tab = "PCB" -> <<v.processes>>
      [] v.tab = "SYSTEM" -> <<v.system>>
      [] OTHER -> <<v.processes, v.state>>
RefreshCurrentTab(v) == [v EXCEPT !.shown = Drawn(v)]

NewView ==
    RefreshCurrentTab([tab |-> "EXECUTION", processes |-> <<>>, system |-> FALSE,
                       state |-> NULL, shown |-> <<>>, cards |-> <<>>])

(* set_processes, and set_bridge_result: the state is forgotten.           *)
Reset(v, session) ==
    RefreshCurrentTab([v EXCEPT !.processes = session.processes,
                                !.system = session.system, !.state = NULL])
SetLiveState(v, session) ==
    RefreshCurrentTab([v EXCEPT !.processes = session.processes,
                                !.system = session.system, !.state = session.state])

(* ProcessTable.set_processes.                                             *)
SetCards(v, processes) == [v EXCEPT !.cards = processes]

(* Mutant: the cards of the process table stay.                            *)
ClearedTabs(v, session) ==
    LET blank == RefreshCurrentTab([NewView EXCEPT !.tab = v.tab])
    IN  [blank EXCEPT !.cards = v.cards,
                      !.shown = IF v.tab = "SYSTEM" THEN <<session.system>> ELSE @]

(* clear, and set_system_processes, which draws past the cache.            *)
ClearedView(v, session) ==
    LET blank == RefreshCurrentTab([NewView EXCEPT !.tab = v.tab])
    IN  [blank EXCEPT !.shown = IF v.tab = "SYSTEM" THEN <<session.system>> ELSE @]

-----------------------------------------------------------------------------
(* Polling: the last snapshot goes into the store, the tabs and the cards. *)

Applied(s, snapshot) ==
    IF snapshot = NULL THEN s
    ELSE [s EXCEPT !.of[window].processes = snapshot.processes,
                   !.of[window].random = 0, !.of[window].system = TRUE,
                   !.of[window].state = snapshot]
PolledView(v, session, snapshot) ==
    IF snapshot = NULL THEN v
    ELSE SetCards(SetLiveState(v, session), session.processes)
PolledUi(u, snapshot, alive) ==
    LET told == IF snapshot = NULL THEN u
                ELSE [u EXCEPT !.executing = @ /\ u.started]
    IN  IF alive THEN told
        ELSE [told EXCEPT !.timer = FALSE, !.started = FALSE, !.executing = FALSE,
                          !.running = @ /\ ~told.executing]

(* _poll_c_output, at the end of a handler that left s, v and u.           *)
PollWith(s, v, u) ==
    /\ store' = Applied(s, out)
    /\ view' = PolledView(v, store'.of[window], out)
    /\ ui' = PolledUi(u, out, c.alive)
    /\ out' = NULL

Poll ==
    /\ window # NULL /\ ui.timer
    /\ PollWith(store, view, ui)
    /\ UNCHANGED <<active, window, split, c, typed, clicks>>

-----------------------------------------------------------------------------
(* Writing to the C program.                                               *)

Ours == c.alive /\ active = window
Sent(lines) == [c EXCEPT !.pipe = @ \o lines]

(* _send_command_lines: to a program of w, a new one unless it runs.       *)
SendCommandLines(w, lines) ==
    LET ours == c.alive /\ active = w
    IN  /\ active' = w
        /\ c' = IF ours THEN Sent(lines) ELSE [NewC EXCEPT !.pipe = lines]
        /\ out' = IF ours THEN out ELSE Snapshot(NewC)

-----------------------------------------------------------------------------
(* Opening and leaving a window.                                           *)

NewUi(s, a) ==
    [started |-> FALSE, paused |-> FALSE, running |-> FALSE, timer |-> TRUE,
     executing |-> FALSE, memory |-> s.memory,
     cost |-> s.of[a].cost, quantum |-> s.of[a].quantum, speed |-> Speed]

Init ==
    /\ store = EmptyStore
    /\ active = NULL /\ window = NULL
    /\ ui = [NewUi(EmptyStore, ROUND_ROBIN) EXCEPT !.timer = FALSE]
    /\ split = Percentages
    /\ view = NewView
    /\ c = Dead(NewC) /\ out = NULL
    /\ typed = FALSE
    /\ clicks = 0

Click == clicks < MAX_CLICKS /\ clicks' = clicks + 1
InWindow == window # NULL /\ Click

OpenWindow(a) ==
    /\ Click /\ window = NULL
    /\ window' = a
    /\ SendCommandLines(a, <<SetConfig(store, a)>>)
    /\ ui' = NewUi(store, a)
    /\ split' = Percentages
    /\ view' = SetCards(Reset(NewView, store.of[a]), store.of[a].processes)
    /\ typed' = FALSE
    /\ UNCHANGED store

GoBack ==
    /\ InWindow
    /\ window' = NULL
    /\ ui' = [ui EXCEPT !.timer = FALSE]
    /\ UNCHANGED <<store, active, split, view, c, out, typed>>

-----------------------------------------------------------------------------
(* Settings: stored, and sent with all the others if the C program is the  *)
(* window's.                                                               *)

(* Mutant: a program that executes is not told.                            *)
ConfiguredUnlessRunning(s) ==
    IF Ours /\ c.mode # "RUN" THEN Sent(<<SetConfig(s, window)>>) ELSE c

Configured(s) == IF Ours THEN Sent(<<SetConfig(s, window)>>) ELSE c

Change(s, u) ==
    /\ InWindow
    /\ store' = s /\ ui' = u
    /\ c' = Configured(s)
    /\ typed' = (typed /\ ~Ours)
    /\ UNCHANGED <<active, window, split, view, out>>

ChangeMemoryAlgorithm(m) ==
    m # ui.memory /\ Change([store EXCEPT !.memory = m], [ui EXCEPT !.memory = m])
ChangeSwitchCost(x) ==
    x # ui.cost /\ Change([store EXCEPT !.of[window].cost = x], [ui EXCEPT !.cost = x])
ChangeSpeed(x) ==
    x # ui.speed /\ Change([store EXCEPT !.of[window].speed = x], [ui EXCEPT !.speed = x])

(* The window also refreshes the cards and polls.                          *)
ChangeQuantum(q) ==
    /\ InWindow /\ window = ROUND_ROBIN /\ q # ui.quantum
    /\ LET s == [store EXCEPT !.of[window].quantum = q]
       IN  /\ c' = Configured(s)
           /\ PollWith(s, SetCards(view, Mine.processes),
                       [ui EXCEPT !.quantum = q, !.timer = TRUE])
    /\ typed' = (typed /\ ~Ours)
    /\ UNCHANGED <<active, window, split>>

MoveSlider(s) ==
    /\ InWindow /\ s # split
    /\ split' = s
    /\ UNCHANGED <<store, active, window, ui, view, c, out, typed>>

SelectTab(t) ==
    /\ InWindow /\ t # view.tab
    /\ view' = RefreshCurrentTab([view EXCEPT !.tab = t])
    /\ UNCHANGED <<store, active, window, ui, split, c, out, typed>>

-----------------------------------------------------------------------------
(* Processes.                                                              *)

LoadCommands(lines) == <<SetConfig(store, window)>> \o lines
LoadProcess(p) == IF Ours THEN <<Add(p)>> ELSE LoadCommands(<<Add(p)>>)
RandomProcesses(n) == <<[name |-> "RANDOM", count |-> n]>>

AddProcess(n) ==
    /\ InWindow /\ Len(Mine.processes) + Mine.random < MAX_PROCESSES
    /\ store' = [store EXCEPT !.of[window].processes = Append(@, Process(n))]
    /\ SendCommandLines(window, LoadProcess(Process(n)))
    /\ view' = SetCards(Reset(view, store'.of[window]), store'.of[window].processes)
    /\ ui' = [ui EXCEPT !.timer = TRUE, !.executing = ui.started /\ ~ui.paused]
    /\ typed' = (typed /\ Ours)
    /\ UNCHANGED <<window, split>>

AddRandomProcesses(n) ==
    /\ InWindow /\ ~ui.running /\ ~ui.started
    /\ Len(Mine.processes) + Mine.random + n <= MAX_PROCESSES
    /\ store' = [store EXCEPT !.of[window].random = @ + n]
    /\ SendCommandLines(window, LoadCommands(RandomProcesses(n)))
    /\ view' = Reset(view, Mine)
    /\ ui' = [ui EXCEPT !.timer = TRUE, !.executing = FALSE]
    /\ typed' = FALSE
    /\ UNCHANGED <<window, split>>

-----------------------------------------------------------------------------
(* The simulation.                                                         *)

Executing(u) ==
    [u EXCEPT !.paused = FALSE, !.started = TRUE, !.running = TRUE,
              !.executing = TRUE, !.timer = TRUE]
Stopped(u) ==
    [u EXCEPT !.paused = FALSE, !.started = FALSE, !.running = FALSE,
              !.executing = FALSE]

(* run: a new C program needs the processes of the list.                   *)
Adds == [i \in DOMAIN Mine.processes |-> Add(Mine.processes[i])]
RunCommands ==
    LoadCommands(IF Ours THEN <<>> ELSE Adds) \o <<Plain("RUN")>>

StartWithout ==
    /\ InWindow /\ ~ui.running /\ ~HasProcesses
    /\ ui' = [ui EXCEPT !.executing = FALSE]
    /\ UNCHANGED <<store, active, window, split, view, c, out, typed>>

StartSimulation ==
    /\ InWindow /\ ~ui.running /\ HasProcesses
    /\ SendCommandLines(window, RunCommands)
    /\ view' = SetCards(Reset(view, Mine), Mine.processes)
    /\ ui' = Executing(ui)
    /\ typed' = FALSE
    /\ UNCHANGED <<store, window, split>>

PauseSimulation ==
    /\ InWindow /\ ui.running
    /\ IF c.alive
       THEN /\ c' = Sent(<<Plain(IF ui.paused THEN "RUN" ELSE "PAUSE")>>)
            /\ ui' = [ui EXCEPT !.paused = ~@, !.executing = ui.paused]
       ELSE UNCHANGED <<ui, c>>
    /\ view' = Reset(view, Mine)
    /\ UNCHANGED <<store, active, window, split, out, typed>>

(* stop: the program obeys what is in the pipe, or is terminated before;   *)
(* what it said is polled at once.                                         *)
LastWords ==
    {out} \cup (IF c.alive THEN {Snapshot(Drained(c))} ELSE {})
Ended ==
    /\ c' = Dead(c) /\ out' = NULL
    /\ active' = IF c.alive THEN NULL ELSE active

StopSimulation ==
    /\ InWindow /\ ui.running
    /\ \E last \in LastWords :
          /\ store' = Applied(store, last)
          /\ view' = Reset(PolledView(view, store'.of[window], last), store'.of[window])
    /\ ui' = [Stopped(ui) EXCEPT !.timer = FALSE]
    /\ Ended
    /\ UNCHANGED <<window, split, typed>>

(* The system processes, the cost and the quantum stay in the store; the   *)
(* slider of speed keeps its place.                                        *)
ClearProcesses ==
    /\ InWindow /\ ~ui.running
    /\ \E last \in LastWords :
          LET s == IF c.alive THEN Applied(store, last) ELSE store
          IN  store' = [s EXCEPT !.of[window] = Cleared(@)]
    /\ view' = ClearedView(view, store'.of[window])
    /\ IF c.alive THEN Ended /\ ui' = [Stopped(ui) EXCEPT !.timer = FALSE]
       ELSE ui' = [ui EXCEPT !.executing = FALSE]
            /\ UNCHANGED <<active, c, out>>
    /\ UNCHANGED <<window, split, typed>>

-----------------------------------------------------------------------------
(* Commands typed into the log.                                            *)

TypedLines ==
    {Plain("RUN"), Plain("PAUSE"), Plain("STOP")}
    \cup {[name |-> "SET_SWITCH_COST", cost |-> x] : x \in Costs}

TypedUi(line) ==
    CASE line.name = "RUN" -> Executing(ui)
      [] line.name = "PAUSE" -> [ui EXCEPT !.paused = TRUE, !.executing = FALSE]
      [] line.name = "STOP" -> Stopped(ui)
      [] OTHER -> [ui EXCEPT !.executing = @ /\ ui.started]

SendLogCommand(line) ==
    /\ InWindow
    /\ IF c.alive
       THEN /\ c' = Sent(<<line>>)
            /\ typed' = (typed \/ line.name = "SET_SWITCH_COST")
            /\ PollWith(store, view, [TypedUi(line) EXCEPT !.timer = TRUE])
       ELSE /\ ui' = [ui EXCEPT !.executing = FALSE]
            /\ UNCHANGED <<store, view, c, out, typed>>
    /\ UNCHANGED <<active, window, split>>

-----------------------------------------------------------------------------
(* The specification.                                                      *)

User ==
    \/ \E a \in Algorithms : OpenWindow(a)
    \/ GoBack
    \/ \E m \in Memories : ChangeMemoryAlgorithm(m)
    \/ \E x \in Costs : ChangeSwitchCost(x)
    \/ \E x \in Speeds : ChangeSpeed(x)
    \/ \E q \in Quanta : ChangeQuantum(q)
    \/ \E s \in Splits : MoveSlider(s)
    \/ \E t \in Tabs : SelectTab(t)
    \/ \E n \in Names : AddProcess(n)
    \/ \E n \in RandomCounts : AddRandomProcesses(n)
    \/ StartWithout \/ StartSimulation \/ PauseSimulation \/ StopSimulation
    \/ ClearProcesses
    \/ \E line \in TypedLines : SendLogCommand(line)

(* The user has no more to do.                                             *)
Quiet == clicks = MAX_CLICKS /\ UNCHANGED vars

Next == User \/ ReadCommand \/ Tick \/ EndOfSimulation \/ Poll \/ Quiet

(* The C program reads its input before every tick and the timer of an     *)
(* open window fires every 120 ms; nothing makes the user act, or a        *)
(* simulation go on while it is paused.                                    *)
Spec == Init /\ [][Next]_vars
FairSpec == Spec /\ WF_vars(ReadCommand) /\ WF_vars(Poll)

-----------------------------------------------------------------------------
(* The properties.                                                         *)

(* The C program of the open window, once it has read its commands, has    *)
(* the settings of the store, and the header shows them; so whichever      *)
(* window, program or order of changes they come from.  Costs typed into   *)
(* the log are not in the store and are excepted until the next change;    *)
(* the slider of speed is another matter (it does not follow the store).   *)
SettingsInForce == window # NULL =>
    /\ ui.memory = store.memory /\ ui.cost = Mine.cost
    /\ window = ROUND_ROBIN => ui.quantum = Mine.quantum
    /\ c.alive => active = window
    /\ c.alive /\ c.pipe = <<>> /\ ~typed => c.config = Config(store, window)

(* The cards, the tabs and the store have the same processes, no tab shows *)
(* a state that is not the store's last one, and the current tab is drawn  *)
(* from the present caches (but the system processes after Limpiar todo,   *)
(* which are drawn from the store).                                        *)
ViewsAgree == window # NULL =>
    /\ view.cards = Mine.processes /\ view.processes = Mine.processes
    /\ view.state \in {NULL, Mine.state}
    /\ view.shown = Drawn(view) \/ (view.tab = "SYSTEM" /\ view.shown = <<Mine.system>>)

(* Every handler forgets the state and blanks the chart; it comes back as  *)
(* long as the C program lives and no ADD was rejected, even if paused.    *)
Blank ==
    /\ window # NULL /\ c.alive
    /\ view.state = NULL /\ Mine.state # NULL
    /\ \A i \in DOMAIN Mine.processes : Mine.processes[i].bytes <= 15
ChartComesBack == Blank ~> ~Blank

(* A process of the C program has the segments that the user chose for it  *)
(* in the form ("Segmentos:", process_input.py:223).                       *)
SegmentsAsEntered ==
    \A i \in DOMAIN c.processes : c.processes[i].split = c.processes[i].entered
=============================================================================
