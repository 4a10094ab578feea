---------------------------- MODULE ClientProofs ----------------------------
(***************************************************************************)
(* Proofs about the GUI and the C process: whatever restarts, reader       *)
(* threads and handlers interleave, a window reads only what the process   *)
(* of its own algorithm says, and the PIDs it shows never clash; for any   *)
(* algorithms, any number of clicks and readers as slow as they may be.    *)
(***************************************************************************)
EXTENDS Client, SequenceTheorems, TLAPS

Appended(history, event) == AppendMemoryHistory(event)[history]

Sampling == INSTANCE FoldProofs WITH Op <- Appended

(* What process g, started for algorithm a, may have said.                 *)
SaidBy(g, a) == {line \in Snapshot : line.gen = g /\ line.alg = a}

Record(t) == t = [name |-> t.name, step |-> t.step, lines |-> t.lines, starts |-> t.starts]

Counting ==
    /\ gen \in Nat /\ clicks \in Nat
    /\ gen =< clicks /\ clicks =< MAX_CLICKS
    /\ task.step = "send" => gen < clicks

ProcessType ==
    /\ c \in [alive : BOOLEAN, state : {"PAUSE", "RUN", "STOP"}, count : Nat,
              sequence : Nat, alg : Algorithms \cup {NONE}]
    /\ c.alive => c.alg \in Algorithms

(* A window drives the process of its algorithm, from its opening on.      *)
WindowDrives ==
    /\ Record(task)
    /\ window \in Algorithms \cup {NONE}
    /\ task.step # "ready" => window # NONE
    /\ window = NONE => ui.timer = FALSE
    /\ task.name = "open" => task.step = "send" /\ task.starts
    /\ active \in {NONE, c.alg}
    /\ window # NONE /\ task.name # "open" => c.alg = window

LinesInOrder ==
    /\ queue \in Seq(SaidBy(gen, c.alg))
    /\ out \in [Gens -> Seq(Snapshot)]
    /\ \A g \in Gens : out[g] \in Seq({line \in Snapshot : line.gen = g})
    /\ out[gen] \in Seq(SaidBy(gen, c.alg))

LinesInv == Counting /\ ProcessType /\ WindowDrives /\ LinesInOrder

(* Before the first window the lines are in order: there are none.         *)
LEMMA InitLines == Init => LinesInv
<1> SUFFICES ASSUME Init PROVE LinesInv
  OBVIOUS
<1>1. Counting /\ ProcessType
  BY ClientAssumption DEF Init, Ready, Counting, ProcessType
<1>2. WindowDrives
  BY ClientAssumption DEF Init, Ready, WindowDrives, Record, NewWindow
<1>3. LinesInOrder
  <2>1. \A S : <<>> \in Seq(S)
    BY EmptySeq
  <2>2. gen \in Gens
    BY ClientAssumption DEF Init, Gens
  <2> QED
    BY <2>1, <2>2 DEF Init, LinesInOrder
<1> QED
  BY <1>1, <1>2, <1>3 DEF LinesInv

(* What the user does only starts a handler.                               *)
LEMMA UserLines == LinesInv /\ User => LinesInv'
<1> SUFFICES ASSUME LinesInv, User PROVE LinesInv'
  OBVIOUS
<1>1. UNCHANGED <<active, handle, queue, program>>
  BY DEF User, Open, GoBack, AddProcess, AddRandom, StartSimulation, PauseSimulation,
         StopButton, ClearProcesses, ChangeSettings, SendLogCommand, InWindow
<1>2. task = Ready
  BY DEF User, Open, GoBack, AddProcess, AddRandom, StartSimulation, PauseSimulation,
         StopButton, ClearProcesses, ChangeSettings, SendLogCommand, InWindow, Click
<1>3. \/ GoBack
      \/ \E a \in Algorithms : Open(a)
      \/ /\ InWindow
         /\ \/ task' = task
            \/ \E name \in {"add", "random", "start", "continue", "pause", "stop",
                            "clear", "settings", "typed"} : \E lines, starts :
                  task' = [name |-> name, step |-> "send", lines |-> lines,
                           starts |-> starts]
  BY DEF User, AddProcess, AddRandom, StartSimulation, PauseSimulation, StopButton,
         ClearProcesses, ChangeSettings, SendLogCommand, Write, StartAndWrite
<1>4. ProcessType' /\ LinesInOrder'
  BY <1>1 DEF LinesInv, ProcessType, LinesInOrder, program
<1>5. Counting'
  <2>1. \/ clicks' = clicks + 1 /\ clicks < MAX_CLICKS
        \/ clicks' = clicks /\ task'.step # "send"
    BY <1>2, <1>3 DEF GoBack, Open, InWindow, Click, Ready
  <2> QED
    BY <1>1, <2>1, ClientAssumption DEF LinesInv, Counting, Ready, program
<1>6. WindowDrives'
  <2>1. CASE GoBack
    BY <1>1, <1>2, <2>1
       DEF GoBack, LinesInv, WindowDrives, Ready, Record, NewWindow, program
  <2>2. CASE \E a \in Algorithms : Open(a)
    BY <1>1, <1>2, <2>2, ClientAssumption
       DEF Open, StartAndWrite, LinesInv, WindowDrives, Record, program
  <2>3. CASE InWindow /\ task' = task
    BY <1>1, <2>3 DEF InWindow, LinesInv, WindowDrives, Record, program
  <2>4. CASE /\ InWindow
             /\ \E name \in {"add", "random", "start", "continue", "pause", "stop",
                             "clear", "settings", "typed"} : \E lines, starts :
                   task' = [name |-> name, step |-> "send", lines |-> lines,
                            starts |-> starts]
    <3>1. Record(task') /\ task'.name # "open" /\ window # NONE /\ window' = window
      BY <2>4 DEF InWindow, Record
    <3> QED
      BY <1>1, <1>2, <3>1 DEF LinesInv, WindowDrives, Ready, program
  <2> QED
    BY <1>3, <2>1, <2>2, <2>3, <2>4
<1> QED
  BY <1>4, <1>5, <1>6 DEF LinesInv

(* What becomes of the handler once its lines are sent or refused.         *)
LEMMA SentTask ==
    ASSUME LinesInv, Sending, Accepted \/ Rejected
    PROVE  /\ Record(task') /\ task'.step \in {"wait", "poll", "ready"}
           /\ task'.name # "open" /\ window # NONE /\ window' = window
           /\ clicks' = clicks
  BY DEF Sending, Accepted, Rejected, Step, Stops, Ready, LinesInv, WindowDrives, Record

(* Writing to the process there is.                                        *)
LEMMA SendLinesLines == LinesInv /\ SendLines => LinesInv'
<1> SUFFICES ASSUME LinesInv, SendLines PROVE LinesInv'
  OBVIOUS
<1>1. /\ Record(task') /\ task'.step \in {"wait", "poll", "ready"}
      /\ task'.name # "open" /\ window # NONE /\ window' = window /\ clicks' = clicks
  BY SentTask DEF SendLines
<1>2. c.alg = window
  BY <1>1 DEF SendLines, Reaches, LinesInv, WindowDrives
<1> QED
  BY <1>1, <1>2 DEF SendLines, LinesInv, Counting, ProcessType, WindowDrives, LinesInOrder

(* A command that finds the pipe broken keeps the lines in order.          *)
LEMMA BrokenPipeLines == LinesInv /\ BrokenPipe => LinesInv'
<1> SUFFICES ASSUME LinesInv, BrokenPipe PROVE LinesInv'
  OBVIOUS
<1>1. /\ Record(task') /\ task'.step \in {"wait", "poll", "ready"}
      /\ task'.name # "open" /\ window # NONE /\ window' = window /\ clicks' = clicks
  BY SentTask DEF BrokenPipe
<1>2. c.alg = window
  BY <1>1 DEF BrokenPipe, Reaches, LinesInv, WindowDrives
<1>3. ProcessType' /\ c'.alg = c.alg
  BY DEF BrokenPipe, LinesInv, ProcessType
<1> QED
  BY <1>1, <1>2, <1>3 DEF BrokenPipe, LinesInv, Counting, WindowDrives, LinesInOrder

(* So does one that finds no program.                                      *)
LEMMA NotRunningLines == LinesInv /\ NotRunning => LinesInv'
<1> SUFFICES ASSUME LinesInv, NotRunning PROVE LinesInv'
  OBVIOUS
<1>1. /\ Record(task') /\ task'.step \in {"wait", "poll", "ready"}
      /\ task'.name # "open" /\ window # NONE /\ window' = window /\ clicks' = clicks
  BY SentTask DEF NotRunning
<1>2. c.alg = window
  BY <1>1 DEF NotRunning, LinesInv, WindowDrives
<1> QED
  BY <1>1, <1>2 DEF NotRunning, program, LinesInv, Counting, ProcessType, WindowDrives,
                    LinesInOrder

(* A new process: nothing of the old one is left in the new queue.         *)
LEMMA StartProcessLines == LinesInv /\ StartProcess => LinesInv'
<1> SUFFICES ASSUME LinesInv, StartProcess PROVE LinesInv'
  OBVIOUS
<1>1. /\ Record(task') /\ task'.step \in {"wait", "poll", "ready"}
      /\ task'.name # "open" /\ window # NONE /\ window' = window /\ clicks' = clicks
  BY SentTask DEF StartProcess
<1>2. gen' = gen + 1 /\ gen + 1 \in Gens /\ gen \in Gens
  BY ClientAssumption DEF StartProcess, Sending, LinesInv, Counting, Gens
<1>3. Counting'
  BY <1>1, <1>2 DEF StartProcess, Sending, LinesInv, Counting
<1>4. window \in Algorithms
  BY <1>1 DEF LinesInv, WindowDrives
<1>5. ProcessType' /\ c'.alg = window
  BY <1>4 DEF StartProcess, ProcessType
<1>6. WindowDrives'
  BY <1>1, <1>4, <1>5 DEF StartProcess, WindowDrives
<1>7. LinesInOrder'
  <2> DEFINE line == Shows(gen + 1, c')
  <2>1. line \in SaidBy(gen + 1, window)
    BY <1>2, <1>4 DEF StartProcess, Shows, SaidBy, Snapshot
  <2> HIDE DEF line
  <2>2. /\ <<line>> \in Seq(SaidBy(gen + 1, window))
        /\ <<line>> \in Seq(Snapshot)
        /\ <<line>> \in Seq({l \in Snapshot : l.gen = gen + 1})
    BY <2>1 DEF SaidBy
  <2>3. out' = [out EXCEPT ![gen + 1] = <<line>>]
    BY DEF StartProcess, line
  <2>4. out' \in [Gens -> Seq(Snapshot)]
    BY <1>2, <2>2, <2>3 DEF LinesInv, LinesInOrder
  <2>5. \A g \in Gens : out'[g] \in Seq({l \in Snapshot : l.gen = g})
    BY <1>2, <2>2, <2>3 DEF LinesInv, LinesInOrder
  <2>6. out'[gen'] \in Seq(SaidBy(gen', c'.alg))
    BY <1>2, <1>5, <2>2, <2>3 DEF LinesInv, LinesInOrder
  <2>7. queue' \in Seq(SaidBy(gen', c'.alg))
    BY EmptySeq DEF StartProcess
  <2>8. Gens' = Gens /\ Snapshot' = Snapshot
    BY DEF Gens, Snapshot
  <2> QED
    BY <2>4, <2>5, <2>6, <2>7, <2>8 DEF LinesInOrder, SaidBy
<1> QED
  BY <1>3, <1>5, <1>6, <1>7 DEF LinesInv

(* A reader thread: a line of an old process goes to nobody.               *)
LEMMA ReadLineLines == ASSUME LinesInv, NEW g \in Gens, ReadLine(g) PROVE LinesInv'
<1>1. UNCHANGED <<window, ui, active, task, clicks, gen, c>>
  BY DEF ReadLine
<1>2. Counting' /\ ProcessType' /\ WindowDrives'
  BY <1>1 DEF LinesInv, Counting, ProcessType, WindowDrives
<1>3. out[g] \in Seq({l \in Snapshot : l.gen = g}) /\ out[g] \in Seq(Snapshot)
      /\ out[g] # <<>>
  BY DEF ReadLine, LinesInv, LinesInOrder
<1>4. Head(out[g]) \in {l \in Snapshot : l.gen = g}
  BY <1>3, HeadTailProperties
<1>5. g = gen => out[g] \in Seq(SaidBy(gen, c.alg))
  BY DEF LinesInv, LinesInOrder
<1>6. queue' \in Seq(SaidBy(gen, c.alg))
  <2>1. CASE g = gen
    <3>1. Head(out[g]) \in SaidBy(gen, c.alg)
      BY <1>3, <1>5, <2>1, HeadTailProperties
    <3> QED
      BY <1>4, <2>1, <3>1, AppendProperties DEF ReadLine, Delivered, LinesInv, LinesInOrder
  <2>2. CASE g # gen
    BY <1>4, <2>2 DEF ReadLine, Delivered, LinesInv, LinesInOrder
  <2> QED
    BY <2>1, <2>2
<1>7. /\ Tail(out[g]) \in Seq({l \in Snapshot : l.gen = g})
      /\ Tail(out[g]) \in Seq(Snapshot)
      /\ g = gen => Tail(out[g]) \in Seq(SaidBy(gen, c.alg))
  BY <1>3, <1>5, HeadTailProperties
<1>8. /\ out' \in [Gens -> Seq(Snapshot)]
      /\ \A h \in Gens : out'[h] \in Seq({l \in Snapshot : l.gen = h})
      /\ out'[gen] \in Seq(SaidBy(gen, c.alg))
  <2>1. gen \in Gens
    BY ClientAssumption DEF LinesInv, Counting, Gens
  <2>2. out \in [Gens -> Seq(Snapshot)] /\ out' = [out EXCEPT ![g] = Tail(out[g])]
    BY DEF ReadLine, LinesInv, LinesInOrder
  <2>3. out' \in [Gens -> Seq(Snapshot)]
    BY <1>7, <2>2
  <2>4. \A h \in Gens : out'[h] \in Seq({l \in Snapshot : l.gen = h})
    BY <1>7, <2>2 DEF LinesInv, LinesInOrder
  <2>5. out'[gen] \in Seq(SaidBy(gen, c.alg))
    BY <1>7, <2>1, <2>2 DEF LinesInv, LinesInOrder
  <2> QED
    BY <2>3, <2>4, <2>5
<1>9. LinesInOrder'
  BY <1>1, <1>6, <1>8 DEF LinesInOrder, SaidBy, Gens, Snapshot
<1> QED
  BY <1>2, <1>9 DEF LinesInv

(* Draining the queue, with or without what is left in the pipe.           *)
LEMMA LeftLines ==
    ASSUME LinesInv, NEW k \in 0 .. Len(out[gen])
    PROVE  /\ Drained(k) \in Seq(SaidBy(gen, c.alg))
           /\ Left(k) \in [Gens -> Seq(Snapshot)]
           /\ \A g \in Gens : Left(k)[g] \in Seq({l \in Snapshot : l.gen = g})
           /\ Left(k)[gen] \in Seq(SaidBy(gen, c.alg))
<1> DEFINE s == out[gen]
           rest == SubSeq(s, k + 1, Len(s))
<1>1. gen \in Gens
  BY ClientAssumption DEF LinesInv, Counting, Gens
<1>2. s \in Seq(SaidBy(gen, c.alg)) /\ queue \in Seq(SaidBy(gen, c.alg))
  BY DEF LinesInv, LinesInOrder
<1>3. Len(s) \in Nat /\ k \in Nat /\ k =< Len(s)
  BY <1>2, LenProperties
<1>4. \A i \in 1 .. Len(s) : s[i] \in SaidBy(gen, c.alg)
  BY <1>2, ElementOfSeq
<1>5. SubSeq(s, 1, k) \in Seq(SaidBy(gen, c.alg))
  BY <1>3, <1>4, SubSeqProperties
<1>6. rest \in Seq(SaidBy(gen, c.alg))
  BY <1>3, <1>4, SubSeqProperties
<1>7. Drained(k) \in Seq(SaidBy(gen, c.alg))
  BY <1>2, <1>5, ConcatProperties DEF Drained
<1>8. /\ rest \in Seq(Snapshot)
      /\ rest \in Seq({l \in Snapshot : l.gen = gen})
  BY <1>6, SeqMonotonic DEF SaidBy
<1>9. Left(k) = [out EXCEPT ![gen] = rest]
  BY DEF Left
<1> HIDE DEF rest
<1> QED
  BY <1>1, <1>6, <1>7, <1>8, <1>9 DEF LinesInv, LinesInOrder

(* Joining and reading stop at places of the output.                       *)
LEMMA ReadableLines ==
    ASSUME LinesInv
    PROVE  Joined \subseteq 0 .. Len(out[gen]) /\ Readable \subseteq 0 .. Len(out[gen])
<1>1. Len(out[gen]) \in Nat
  BY LenProperties DEF LinesInv, LinesInOrder
<1> QED
  BY <1>1 DEF Joined, Readable

(* A poll empties the queue.                                               *)
LEMMA PollLines == LinesInv /\ Poll => LinesInv'
<1> SUFFICES ASSUME LinesInv, Poll PROVE LinesInv'
  OBVIOUS
<1>1. UNCHANGED <<window, active, clicks, gen, c>>
  BY DEF Poll, PollRead, PollCheck, StopDone
<1>2. /\ Record(task') /\ task'.step \in {"check", "ready"} /\ task'.name # "open"
      /\ task'.step = "check" => window # NONE
  <2>1. CASE PollRead
    <3>1. CASE task = Ready /\ ui.timer /\ task' = [Ready EXCEPT !.name = "poll", !.step = "check"]
      BY <3>1 DEF Ready, LinesInv, WindowDrives, Record
    <3>2. CASE task.step = "poll" /\ task' = [task EXCEPT !.step = "check"]
      BY <3>2 DEF LinesInv, WindowDrives, Record
    <3> QED
      BY <2>1, <3>1, <3>2 DEF PollRead, Step
  <2>2. CASE PollCheck \/ StopDone
    BY <2>2 DEF PollCheck, StopDone, Step, Ready, Record
  <2> QED
    BY <2>1, <2>2 DEF Poll
<1>3. Counting' /\ ProcessType'
  BY <1>1, <1>2 DEF LinesInv, Counting, ProcessType
<1>4. LinesInOrder'
  <2>1. UNCHANGED <<queue, out>> \/ \E k \in Readable : queue' = <<>> /\ out' = Left(k)
    BY DEF Poll, PollRead, PollCheck, StopDone
  <2>2. CASE UNCHANGED <<queue, out>>
    BY <1>1, <2>2 DEF LinesInv, LinesInOrder, SaidBy, Gens, Snapshot
  <2>3. CASE \E k \in Readable : queue' = <<>> /\ out' = Left(k)
    <3>1. PICK k \in 0 .. Len(out[gen]) : queue' = <<>> /\ out' = Left(k)
      BY <2>3, ReadableLines
    <3>2. <<>> \in Seq(SaidBy(gen, c.alg))
      BY EmptySeq
    <3> QED
      BY <1>1, <3>1, <3>2, LeftLines DEF LinesInOrder, SaidBy, Gens, Snapshot
  <2> QED
    BY <2>1, <2>2, <2>3
<1>5. WindowDrives'
  BY <1>1, <1>2 DEF Poll, PollRead, PollCheck, StopDone, LinesInv, WindowDrives, Ready
<1> QED
  BY <1>3, <1>4, <1>5 DEF LinesInv

(* The end of a process that the window stops, in time or terminated.      *)
LEMMA WaitForExitLines == LinesInv /\ WaitForExit => LinesInv'
<1> SUFFICES ASSUME LinesInv, WaitForExit PROVE LinesInv'
  OBVIOUS
<1>1. /\ UNCHANGED <<window, clicks, gen>> /\ active' = NONE
      /\ task' = [task EXCEPT !.step = "poll"]
      /\ c' = [c EXCEPT !.alive = FALSE]
  BY DEF WaitForExit, Step
<1>2. Record(task') /\ task'.step = "poll" /\ task'.name = task.name
  BY <1>1 DEF LinesInv, WindowDrives, Record
<1>3. Counting'
  BY <1>1, <1>2 DEF LinesInv, Counting
<1>4. ProcessType' /\ c'.alg = c.alg
  BY <1>1 DEF LinesInv, ProcessType
<1>5. task.name # "open" /\ window # NONE
  BY DEF WaitForExit, LinesInv, WindowDrives
<1>6. WindowDrives'
  BY <1>1, <1>2, <1>4, <1>5 DEF LinesInv, WindowDrives
<1>7. PICK k \in 0 .. Len(out[gen]) : queue' = Drained(k) /\ out' = Left(k)
  BY ReadableLines DEF WaitForExit
<1>8. LinesInOrder'
  BY <1>1, <1>4, <1>7, LeftLines DEF LinesInOrder, SaidBy, Gens, Snapshot
<1> QED
  BY <1>3, <1>4, <1>6, <1>8 DEF LinesInv

(* What the C process says carries its own mark.                           *)
LEMMA SaysLines ==
    ASSUME LinesInv, c.alive, NEW p, p.alg = c.alg, Says(p), UNCHANGED <<gui, gen>>,
           p \in [alive : BOOLEAN, state : {"PAUSE", "RUN", "STOP"}, count : Nat,
                  sequence : Nat, alg : Algorithms \cup {NONE}]
    PROVE  LinesInv'
<1>1. ProcessType' /\ c'.alg = c.alg
  BY DEF Says, LinesInv, ProcessType
<1>2. Counting' /\ WindowDrives'
  BY <1>1 DEF gui, LinesInv, Counting, WindowDrives
<1>3. gen \in Gens
  BY ClientAssumption DEF LinesInv, Counting, Gens
<1> DEFINE line == Shows(gen, c')
<1>4. line \in SaidBy(gen, c.alg)
  BY <1>1, <1>3 DEF Shows, SaidBy, Snapshot, LinesInv, ProcessType
<1>5. out' = [out EXCEPT ![gen] = Append(@, line)]
  BY DEF Says
<1> HIDE DEF line
<1>6. /\ Append(out[gen], line) \in Seq(SaidBy(gen, c.alg))
      /\ Append(out[gen], line) \in Seq(Snapshot)
      /\ Append(out[gen], line) \in Seq({l \in Snapshot : l.gen = gen})
  <2>1. line \in Snapshot /\ line \in {l \in Snapshot : l.gen = gen}
    BY <1>4 DEF SaidBy
  <2> QED
    BY <1>3, <1>4, <2>1, AppendProperties DEF LinesInv, LinesInOrder
<1>7. LinesInOrder'
  BY <1>1, <1>3, <1>5, <1>6 DEF gui, LinesInv, LinesInOrder, SaidBy, Gens, Snapshot
<1> QED
  BY <1>1, <1>2, <1>7 DEF LinesInv

(* What the C program does to its lines.                                   *)
LEMMA ProgramLines == LinesInv /\ (ReadCommand \/ Finish \/ Exit) => LinesInv'
<1> SUFFICES ASSUME LinesInv, ReadCommand \/ Finish \/ Exit PROVE LinesInv'
  OBVIOUS
<1>1. CASE ReadCommand
  <2>1. CASE UNCHANGED <<c, out>>
    BY <1>1, <2>1 DEF ReadCommand, gui, LinesInv, Counting, ProcessType, WindowDrives,
                      LinesInOrder, SaidBy, Gens, Snapshot
  <2>2. CASE Says(Obeyed(Head(inp)))
    <3>1. /\ Obeyed(Head(inp)) \in
                [alive : BOOLEAN, state : {"PAUSE", "RUN", "STOP"}, count : Nat,
                 sequence : Nat, alg : Algorithms \cup {NONE}]
          /\ Obeyed(Head(inp)).alg = c.alg
      BY ClientAssumption DEF Obeyed, LinesInv, ProcessType
    <3> QED
      BY <1>1, <2>2, <3>1, SaysLines DEF ReadCommand
  <2> QED
    BY <1>1, <2>1, <2>2 DEF ReadCommand
<1>2. CASE Finish
  <2> DEFINE p == [c EXCEPT !.state = "STOP"]
  <2>1. /\ p \in [alive : BOOLEAN, state : {"PAUSE", "RUN", "STOP"}, count : Nat,
                  sequence : Nat, alg : Algorithms \cup {NONE}]
        /\ p.alg = c.alg
    BY DEF LinesInv, ProcessType
  <2> HIDE DEF p
  <2>2. c.alive /\ Says(p) /\ UNCHANGED <<gui, gen>>
    BY <1>2 DEF Finish, p
  <2> QED
    BY <2>1, <2>2, SaysLines
<1>3. CASE Exit
  <2>1. ProcessType' /\ c'.alg = c.alg
    BY <1>3 DEF Exit, LinesInv, ProcessType
  <2> QED
    BY <1>3, <2>1 DEF Exit, gui, LinesInv, Counting, WindowDrives, LinesInOrder, SaidBy,
                      Gens, Snapshot
<1> QED
  BY <1>1, <1>2, <1>3

(* Every step keeps the lines in order.                                    *)
LEMMA NextLines == LinesInv /\ [Next]_vars => LinesInv'
<1> SUFFICES ASSUME LinesInv, [Next]_vars PROVE LinesInv'
  OBVIOUS
<1>1. CASE UNCHANGED vars
  BY <1>1 DEF vars, gui, program, LinesInv, Counting, ProcessType, WindowDrives,
              LinesInOrder, SaidBy, Gens, Snapshot
<1>2. CASE Gateway
  BY <1>2, SendLinesLines, BrokenPipeLines, NotRunningLines, StartProcessLines,
     WaitForExitLines DEF Gateway
<1>3. CASE Reader
  BY <1>3, ReadLineLines DEF Reader
<1> QED
  BY <1>1, <1>2, <1>3, UserLines, PollLines, ProgramLines DEF Next, Quiet

(* What a window is about to read comes from the process that runs now and *)
(* simulates the algorithm of that window (NothingCrosses), however slow   *)
(* the readers of earlier processes are.                                   *)
THEOREM WindowsReadTheirOwn == Spec => []NothingCrosses
<1>1. LinesInv => NothingCrosses
  <2> SUFFICES ASSUME LinesInv PROVE NothingCrosses
    OBVIOUS
  <2>1. \A i \in DOMAIN queue : queue[i] \in SaidBy(gen, c.alg)
    BY ElementOfSeq, LenProperties DEF LinesInv, LinesInOrder
  <2> QED
    BY <2>1 DEF NothingCrosses, SaidBy, LinesInv, WindowDrives
<1> QED
  BY InitLines, NextLines, <1>1, PTL DEF Spec

-----------------------------------------------------------------------------
(* The store.                                                              *)

Sheet(r) == r = [list |-> r.list, next_pid |-> r.next_pid, random |-> r.random,
                 history |-> r.history]

(* A list to which next_pid can be added.                                  *)
Fresh(r) ==
    /\ r.list \in Seq(Nat) /\ r.next_pid \in Nat
    /\ IsInjective(r.list)
    /\ \A i \in DOMAIN r.list : r.list[i] < r.next_pid

StoreInv ==
    /\ store = [a \in Algorithms |-> store[a]]
    /\ \A a \in Algorithms : Sheet(store[a]) /\ Fresh(store[a])

(* Random processes leave the rest of a record alone.                      *)
LEMMA RandomUpdated ==
    ASSUME NEW r, Sheet(r), NEW n
    PROVE  [r EXCEPT !.random = n] =
                [list |-> r.list, next_pid |-> r.next_pid, random |-> n,
                 history |-> r.history]
  BY DEF Sheet

(* An empty list is one whose next PID is free.                            *)
LEMMA NoProcessesFresh == Sheet(NoProcesses) /\ Fresh(NoProcesses)
<1>1. <<>> \in Seq(Nat) /\ DOMAIN <<>> = {}
  BY EmptySeq
<1> QED
  BY <1>1 DEF NoProcesses, Sheet, Fresh, IsInjective

(* A record with a free next PID may be stored.                            *)
LEMMA StoreUpdated ==
    ASSUME StoreInv, NEW w \in Algorithms \cup {NONE}, NEW r, Sheet(r), Fresh(r),
           store' = [store EXCEPT ![w] = r]
    PROVE  StoreInv'
<1>1. store' = [a \in Algorithms |-> store'[a]]
  BY DEF StoreInv
<1>2. \A a \in Algorithms : store'[a] = store[a] \/ store'[a] = r
  BY DEF StoreInv
<1>3. \A a \in Algorithms : Sheet(store'[a]) /\ Fresh(store'[a])
  BY <1>2 DEF StoreInv
<1> QED
  BY <1>1, <1>3 DEF StoreInv

(* The PIDs 1 to n are distinct, and the next one is free.                 *)
LEMMA PidsAreFresh ==
    ASSUME NEW n \in Nat
    PROVE  /\ Pids(n) \in Seq(Nat) /\ IsInjective(Pids(n))
           /\ \A i \in DOMAIN Pids(n) : Pids(n)[i] < n + 1
           /\ n = 0 => DOMAIN Pids(n) = {}
<1>1. Pids(n) \in Seq(Nat)
  BY DEF Pids
<1>2. DOMAIN Pids(n) = 1 .. n /\ \A i \in 1 .. n : Pids(n)[i] = i
  BY DEF Pids
<1> QED
  BY <1>1, <1>2 DEF IsInjective

(* The reducer: the PIDs of the last snapshot, the next one after them.    *)
LEMMA ReducedStore ==
    ASSUME StoreInv, NEW g, NEW a, NEW events \in Seq(SaidBy(g, a)),
           NEW w \in Algorithms, store' = Reduced(w, events)
    PROVE  StoreInv'
<1>1. CASE events = <<>>
  BY <1>1 DEF Reduced, StoreInv, Sheet, Fresh, IsInjective
<1>2. CASE events # <<>>
  <2> DEFINE n == Last(events).count
             r == [list |-> Pids(n), next_pid |-> NextPid(w, n), random |-> 0,
                   history |-> Sampled(store[w].history, events)]
  <2>1. n \in Nat
    <3>1. Len(events) \in 1 .. Len(events) /\ Len(events) \in Nat
      BY <1>2, EmptySeq, LenProperties
    <3>2. Last(events) \in SaidBy(g, a)
      BY <3>1, ElementOfSeq DEF Last
    <3> QED
      BY <3>2 DEF SaidBy, Snapshot
  <2>2. Sheet(r)
    BY DEF Sheet
  <2>3. Fresh(store[w])
    BY DEF StoreInv
  <2>4. NextPid(w, n) \in Nat /\ (n > 0 => NextPid(w, n) = n + 1)
    BY <2>1, <2>3 DEF NextPid, Fresh
  <2>5. Fresh(r)
    <3>1. r.list = Pids(n) /\ r.next_pid = NextPid(w, n)
      OBVIOUS
    <3> HIDE DEF n, r
    <3>2. n = 0 \/ n > 0
      BY <2>1
    <3> QED
      BY <2>1, <2>4, <3>1, <3>2, PidsAreFresh DEF Fresh
  <2>6. store' = [store EXCEPT ![w] = r]
    BY <1>2 DEF Reduced, StoreInv
  <2> HIDE DEF r
  <2> QED
    BY <2>2, <2>5, <2>6, StoreUpdated
<1> QED
  BY <1>1, <1>2

(* A poll keeps the next PIDs free.                                        *)
LEMMA PollStore == LinesInv /\ StoreInv /\ Poll => StoreInv'
<1> SUFFICES ASSUME LinesInv, StoreInv, Poll PROVE StoreInv'
  OBVIOUS
<1>1. window \in Algorithms
  BY DEF Poll, PollRead, PollCheck, StopDone, LinesInv, WindowDrives, Ready
<1>2. \/ store' = store
      \/ \E k \in Readable : store' = Reduced(window, Drained(k))
      \/ store' = [store EXCEPT ![window] = NoProcesses]
  BY DEF Poll, PollRead, PollCheck, StopDone, FinalEvents
<1>3. CASE store' = store
  BY <1>3 DEF StoreInv, Sheet, Fresh, IsInjective
<1>4. CASE \E k \in Readable : store' = Reduced(window, Drained(k))
  BY <1>1, <1>4, ReadableLines, LeftLines, ReducedStore
<1>5. CASE store' = [store EXCEPT ![window] = NoProcesses]
  BY <1>1, <1>5, NoProcessesFresh, StoreUpdated
<1> QED
  BY <1>2, <1>3, <1>4, <1>5

(* So does every click.                                                    *)
LEMMA UserStore == LinesInv /\ StoreInv /\ User => StoreInv'
<1> SUFFICES ASSUME LinesInv, StoreInv, User PROVE StoreInv'
  OBVIOUS
<1>1. CASE store' = store
  BY <1>1 DEF StoreInv, Sheet, Fresh, IsInjective
<1>2. CASE AddProcess
  <2> DEFINE old == store[window]
             r == [list |-> Append(old.list, old.next_pid), next_pid |-> old.next_pid + 1,
                   random |-> old.random, history |-> old.history]
  <2>1. window \in Algorithms
    BY <1>2 DEF AddProcess, InWindow, LinesInv, WindowDrives
  <2>2. Sheet(old) /\ Fresh(old)
    BY <2>1 DEF StoreInv
  <2>3. store' = [store EXCEPT ![window] = r]
    BY <1>2 DEF AddProcess
  <2>4. Sheet(r)
    BY DEF Sheet
  <2>5. Fresh(r)
    <3> DEFINE list == Append(old.list, old.next_pid)
    <3>1. /\ list \in Seq(Nat) /\ Len(list) = Len(old.list) + 1
          /\ \A i \in 1 .. Len(old.list) : list[i] = old.list[i]
          /\ list[Len(old.list) + 1] = old.next_pid
          /\ DOMAIN list = 1 .. Len(old.list) + 1
      BY <2>2, AppendProperties, LenProperties DEF Fresh
    <3>2. Len(old.list) \in Nat /\ DOMAIN old.list = 1 .. Len(old.list)
      BY <2>2, LenProperties DEF Fresh
    <3>3. /\ \A i \in DOMAIN old.list : old.list[i] \in Nat /\ old.list[i] < old.next_pid
          /\ old.next_pid \in Nat
          /\ \A i, j \in DOMAIN old.list : old.list[i] = old.list[j] => i = j
      BY <2>2, <3>2, ElementOfSeq DEF Fresh, IsInjective
    <3> HIDE DEF list, old
    <3>4. \A i \in DOMAIN list : i \in DOMAIN old.list \/ i = Len(old.list) + 1
      BY <3>1, <3>2
    <3>5. \A i, j \in DOMAIN list : list[i] = list[j] => i = j
      BY <3>1, <3>2, <3>3, <3>4
    <3>6. \A i \in DOMAIN list : list[i] < old.next_pid + 1
      BY <3>1, <3>2, <3>3, <3>4
    <3>7. r.list = list /\ r.next_pid = old.next_pid + 1
      BY DEF list
    <3> HIDE DEF r
    <3> QED
      BY <3>1, <3>3, <3>5, <3>6, <3>7 DEF Fresh, IsInjective
  <2> HIDE DEF r
  <2> QED
    BY <2>1, <2>3, <2>4, <2>5, StoreUpdated
<1>3. CASE AddRandom
  <2> DEFINE old == store[window]
             r == [list |-> old.list, next_pid |-> old.next_pid,
                   random |-> old.random + RANDOM_COUNT, history |-> old.history]
  <2>1. window \in Algorithms
    BY <1>3 DEF AddRandom, InWindow, LinesInv, WindowDrives
  <2>2. Sheet(old) /\ Fresh(old)
    BY <2>1 DEF StoreInv
  <2>3. store' = [store EXCEPT ![window] = r]
    <3> HIDE DEF old
    <3>1. [old EXCEPT !.random = old.random + RANDOM_COUNT] = r
      BY <2>2, RandomUpdated
    <3> USE DEF old
    <3> QED
      BY <1>3, <3>1 DEF AddRandom
  <2>4. Sheet(r) /\ Fresh(r)
    BY <2>2 DEF Sheet, Fresh, IsInjective
  <2> HIDE DEF r
  <2> QED
    BY <2>1, <2>3, <2>4, StoreUpdated
<1>4. CASE ClearProcesses /\ store' # store
  <2>1. window \in Algorithms /\ store' = [store EXCEPT ![window] = NoProcesses]
    BY <1>4 DEF ClearProcesses, InWindow, LinesInv, WindowDrives
  <2> QED
    BY <2>1, NoProcessesFresh, StoreUpdated
<1> QED
  BY <1>1, <1>2, <1>3, <1>4
     DEF User, Open, GoBack, StartSimulation, PauseSimulation, StopButton, ClearProcesses,
         ChangeSettings, SendLogCommand

(* So does every step.                                                     *)
LEMMA NextStore == LinesInv /\ StoreInv /\ [Next]_vars => StoreInv'
<1> SUFFICES ASSUME LinesInv, StoreInv, [Next]_vars PROVE StoreInv'
  OBVIOUS
<1>1. CASE store' = store
  BY <1>1 DEF StoreInv, Sheet, Fresh, IsInjective
<1>2. User \/ Poll \/ store' = store
  BY DEF Next, Gateway, Reader, Quiet, vars, gui, SendLines, BrokenPipe, NotRunning,
         StartProcess, WaitForExit, Sending, ReadLine, ReadCommand, Finish, Exit
<1> QED
  BY <1>1, <1>2, UserStore, PollStore

(* Two processes of a window never get the same PID, although the window   *)
(* numbers them itself before the C program confirms them (PidsUnique).    *)
THEOREM PidsNeverClash == Spec => []PidsUnique
<1>1. Init => StoreInv
  BY NoProcessesFresh DEF Init, StoreInv
<1>2. StoreInv => PidsUnique
  BY DEF StoreInv, Fresh, PidsUnique
<1> QED
  BY <1>1, <1>2, InitLines, NextLines, NextStore, PTL DEF Spec

-----------------------------------------------------------------------------
(* The memory history.                                                     *)

(* The snapshots that c of algorithm a may have said, numbered from 1.     *)
Numbered(a) == {s \in Snapshot : s.alg = a /\ s.sequence >= 1}

(* What HistoryIsOfOneRun says of the history h of algorithm a.            *)
OneRun(h, a) ==
    /\ h \in Seq(Numbered(a))
    /\ Len(h) =< MEMORY_HISTORY_LIMIT
    /\ \A j \in 1 .. Len(h) : \A i \in 1 .. j - 1 :
          /\ h[i].sequence < h[j].sequence
          /\ h[i].gen = h[j].gen \/ h[i].sequence = 1

(* A snapshot of number n of process g goes on where h ends, or starts a   *)
(* new run.                                                                *)
GoesOn(h, g, n) ==
    \/ n = 1
    \/ h = <<>>
    \/ /\ Last(h).gen = g \/ Last(h).sequence = 1
       /\ Last(h).sequence < n

(* What a history of one run ends with, when h is not empty.               *)
LEMMA LastSample ==
    ASSUME NEW a, NEW h, OneRun(h, a), h # <<>>
    PROVE  /\ Len(h) \in Nat /\ Len(h) \in 1 .. Len(h) /\ Last(h) = h[Len(h)]
           /\ Last(h) \in Numbered(a)
           /\ \A i \in 1 .. Len(h) : h[i] \in Numbered(a)
<1>1. h \in Seq(Numbered(a))
  BY DEF OneRun
<1>2. Len(h) \in Nat /\ Len(h) \in 1 .. Len(h)
  BY <1>1, EmptySeq, LenProperties
<1>3. \A i \in 1 .. Len(h) : h[i] \in Numbered(a)
  BY <1>1, ElementOfSeq
<1> QED
  BY <1>2, <1>3 DEF Last

(* The history of a single snapshot.                                       *)
LEMMA OneSample ==
    ASSUME NEW a, NEW e \in Numbered(a)
    PROVE  OneRun(<<e>>, a) /\ <<e>> # <<>> /\ Last(<<e>>) = e
<1>1. <<e>> \in Seq(Numbered(a)) /\ Len(<<e>>) = 1
  OBVIOUS
<1> QED
  BY <1>1, ClientAssumption DEF OneRun, Last

(* A history with one more snapshot of the same run, trimmed.              *)
LEMMA OneMoreSample ==
    ASSUME NEW a, NEW h, OneRun(h, a), h # <<>>, NEW e \in Numbered(a),
           GoesOn(h, e.gen, e.sequence), Last(h).sequence < e.sequence
    PROVE  /\ OneRun(Trimmed(Append(h, e)), a)
           /\ Trimmed(Append(h, e)) # <<>> /\ Last(Trimmed(Append(h, e))) = e
<1> DEFINE n == Len(h)
           all == Append(h, e)
<1>1. /\ h \in Seq(Numbered(a)) /\ n \in Nat /\ n \in 1 .. n /\ n =< MEMORY_HISTORY_LIMIT
      /\ Last(h) = h[n] /\ \A i \in 1 .. n : h[i] \in Numbered(a)
  BY LastSample DEF OneRun
<1>2. /\ all \in Seq(Numbered(a)) /\ Len(all) = n + 1 /\ all[n + 1] = e
      /\ \A i \in 1 .. n : all[i] = h[i]
  BY <1>1, AppendProperties
<1>3. \A i \in 1 .. n : h[i].sequence \in Nat /\ h[i].sequence >= 1
  BY <1>1 DEF Numbered, Snapshot
<1>4. e.sequence \in Nat /\ e.sequence >= 1
  BY DEF Numbered, Snapshot
<1>5. ASSUME NEW i \in 1 .. n
      PROVE  h[i].sequence < e.sequence /\ (h[i].gen = e.gen \/ h[i].sequence = 1)
  <2>1. h[n].sequence < e.sequence /\ h[n].sequence \in Nat /\ h[n].sequence >= 1
    BY <1>1, <1>3
  <2>2. CASE i = n
    BY <1>1, <1>3, <1>4, <2>1, <2>2 DEF GoesOn
  <2>3. CASE i # n
    <3>1. /\ i \in 1 .. n - 1 /\ n \in 1 .. Len(h)
          /\ h[i].sequence \in Nat /\ h[i].sequence >= 1
      BY <1>1, <1>3, <2>3
    <3>2. h[i].sequence < h[n].sequence /\ (h[i].gen = h[n].gen \/ h[i].sequence = 1)
      BY <3>1 DEF OneRun
    <3>3. h[n].gen = e.gen
      BY <1>1, <1>4, <2>1, <3>1, <3>2 DEF GoesOn
    <3> QED
      BY <1>4, <2>1, <3>1, <3>2, <3>3
  <2> QED
    BY <2>2, <2>3
<1>6. \A j \in 1 .. n + 1 : \A i \in 1 .. j - 1 :
         /\ all[i].sequence < all[j].sequence
         /\ all[i].gen = all[j].gen \/ all[i].sequence = 1
  <2> SUFFICES ASSUME NEW j \in 1 .. n + 1, NEW i \in 1 .. j - 1
               PROVE  /\ all[i].sequence < all[j].sequence
                      /\ all[i].gen = all[j].gen \/ all[i].sequence = 1
    OBVIOUS
  <2> HIDE DEF all
  <2>1. CASE j = n + 1
    <3>1. i \in 1 .. n
      BY <1>1, <2>1
    <3> QED
      BY <1>2, <1>5, <2>1, <3>1
  <2>2. CASE j # n + 1
    <3>1. i \in 1 .. n /\ j \in 1 .. n
      BY <1>1, <2>2
    <3> QED
      BY <1>2, <3>1 DEF OneRun
  <2> QED
    BY <2>1, <2>2
<1> HIDE DEF all
<1>7. MEMORY_HISTORY_LIMIT \in Nat /\ MEMORY_HISTORY_LIMIT >= 1
  BY ClientAssumption
<1>8. CASE n + 1 =< MEMORY_HISTORY_LIMIT
  <2>1. Trimmed(all) = all
    BY <1>1, <1>2, <1>7, <1>8 DEF Trimmed
  <2>2. all # <<>> /\ Last(all) = e
    BY <1>1, <1>2, EmptySeq DEF Last
  <2>3. OneRun(all, a)
    BY <1>2, <1>6, <1>8 DEF OneRun
  <2> QED
    BY <2>1, <2>2, <2>3 DEF all
<1>9. CASE n + 1 > MEMORY_HISTORY_LIMIT
  <2> DEFINE t == SubSeq(all, 2, n + 1)
  <2>0. n = MEMORY_HISTORY_LIMIT
    BY <1>1, <1>7, <1>9
  <2>1. Trimmed(all) = t
    <3>1. (n + 1) - MEMORY_HISTORY_LIMIT + 1 = 2
      BY <1>1, <2>0
    <3> QED
      BY <1>2, <1>9, <3>1 DEF Trimmed
  <2>2. /\ t \in Seq(Numbered(a)) /\ Len(t) = n
        /\ \A i \in 1 .. n : t[i] = all[i + 1]
    <3>1. \A i \in 1 .. Len(all) : all[i] \in Numbered(a)
      BY <1>2, ElementOfSeq
    <3>2. \A i \in 2 .. n + 1 : all[i] \in Numbered(a)
      BY <1>2, <3>1
    <3> QED
      BY <1>1, <1>2, <3>2, SubSeqProperties
  <2> HIDE DEF t
  <2>3. t # <<>> /\ Last(t) = e
    BY <1>1, <1>2, <2>2, EmptySeq DEF Last
  <2>4. OneRun(t, a)
    <3>1. ASSUME NEW j \in 1 .. n, NEW i \in 1 .. j - 1
          PROVE  /\ t[i].sequence < t[j].sequence
                 /\ t[i].gen = t[j].gen \/ t[i].sequence = 1
      <4>1. /\ i \in 1 .. n /\ j + 1 \in 1 .. n + 1 /\ i + 1 \in 1 .. (j + 1) - 1
        BY <1>1
      <4> QED
        BY <1>6, <2>2, <4>1
    <3> QED
      BY <2>0, <2>2, <3>1, <1>7 DEF OneRun
  <2> QED
    BY <2>1, <2>3, <2>4 DEF all
<1> QED
  BY <1>1, <1>7, <1>8, <1>9

(* One snapshot that goes on where the history ends.                       *)
LEMMA SampleAppended ==
    ASSUME NEW a, NEW h, OneRun(h, a), NEW e \in Numbered(a),
           GoesOn(h, e.gen, e.sequence)
    PROVE  LET next == AppendMemoryHistory(e)[h]
           IN  /\ OneRun(next, a) /\ next # <<>>
               /\ Last(next).sequence = e.sequence
               /\ Last(next) = e \/ e.sequence = 1
<1> DEFINE next == AppendMemoryHistory(e)[h]
           previous == IF h = <<>> THEN 0 ELSE Last(h).sequence
<1>1. h \in Seq(Snapshot) /\ e \in Snapshot
  <2>1. Numbered(a) \subseteq Snapshot
    BY DEF Numbered
  <2> QED
    BY <2>1, SeqMonotonic DEF OneRun
<1>2. next = CASE e.sequence = previous -> h
               [] e.sequence < previous -> <<e>>
               [] OTHER -> Trimmed(Append(h, e))
  BY <1>1 DEF AppendMemoryHistory
<1> HIDE DEF next
<1>3. e.sequence \in Nat /\ e.sequence >= 1
  BY DEF Numbered, Snapshot
<1>4. CASE h = <<>>
  <2>1. next = Trimmed(Append(h, e))
    BY <1>2, <1>3, <1>4
  <2>2. Append(h, e) = <<e>> /\ Len(<<e>>) = 1
    BY <1>4
  <2>3. next = <<e>>
    BY <2>1, <2>2, ClientAssumption DEF Trimmed
  <2> QED
    BY <2>3, OneSample DEF next
<1>5. CASE h # <<>>
  <2>1. Last(h).sequence \in Nat /\ Last(h).sequence >= 1 /\ previous = Last(h).sequence
    BY <1>5, LastSample DEF Numbered, Snapshot
  <2>2. CASE e.sequence = previous
    <3>1. next = h
      BY <1>2, <1>3, <2>1, <2>2
    <3>2. e.sequence = 1
      BY <1>3, <1>5, <2>1, <2>2 DEF GoesOn
    <3> QED
      BY <1>5, <2>1, <2>2, <3>1, <3>2 DEF next
  <2>3. CASE e.sequence < previous
    <3>1. next = <<e>>
      BY <1>2, <1>3, <2>1, <2>3
    <3> QED
      BY <3>1, OneSample DEF next
  <2>4. CASE previous < e.sequence
    <3>1. next = Trimmed(Append(h, e))
      BY <1>2, <1>3, <2>1, <2>4
    <3> QED
      BY <1>5, <2>1, <2>4, <3>1, OneMoreSample DEF next
  <2> QED
    BY <1>3, <2>1, <2>2, <2>3, <2>4
<1> QED
  BY <1>4, <1>5

(* Appending one snapshot after the other, as a fold.                      *)
LEMMA AppendedSteps ==
    ASSUME NEW n \in Nat, NEW seq, DOMAIN seq = 1 .. n, NEW base
    PROVE  \E r : /\ r[0] = base /\ r[n] = Sampling!Folded(base, seq)
                  /\ \A k \in 1 .. n : r[k] = Appended(r[k - 1], seq[k])
<1>1. n \in Nat /\ DOMAIN seq = 1 .. n
  OBVIOUS
<1>2. \E r : /\ r[0] = base /\ r[n] = Sampling!Folded(base, seq)
             /\ \A k \in 1 .. n : r[k] = Appended(r[k - 1], seq[k])
  BY <1>1, Sampling!FoldLeftSteps
<1> QED
  BY <1>2

(* The histories that a poll goes through, one per snapshot.               *)
LEMMA SampledSteps ==
    ASSUME NEW S, NEW seq \in Seq(S), NEW base
    PROVE  \E r : /\ r[0] = base /\ r[Len(seq)] = Sampled(base, seq)
                  /\ \A k \in 1 .. Len(seq) :
                        r[k] = AppendMemoryHistory(seq[k])[r[k - 1]]
<1> DEFINE n == Len(seq)
<1>0. n \in Nat /\ DOMAIN seq = 1 .. n
  BY LenProperties
<1>1. \E r : /\ r[0] = base /\ r[n] = Sampling!Folded(base, seq)
             /\ \A k \in 1 .. n : r[k] = Appended(r[k - 1], seq[k])
  <2> HIDE DEF n
  <2> QED
    BY <1>0, AppendedSteps
<1> DEFINE Fits(it) == it = [i \in 0 .. n |->
               IF i = 0 THEN base ELSE AppendMemoryHistory(seq[i])[it[i - 1]]]
           g == CHOOSE it : Fits(it)
<1>2. Sampled(base, seq) = g[n]
  BY DEF Sampled
<1>3. \E it : Fits(it)
  <2>1. PICK r : /\ r[0] = base
                 /\ \A k \in 1 .. n : r[k] = Appended(r[k - 1], seq[k])
    BY <1>1
  <2>2. \A k \in 1 .. n : k \in 0 .. n /\ k - 1 \in 0 .. n /\ k # 0
    OBVIOUS
  <2>3. \A k \in 0 .. n : k # 0 => k \in 1 .. n
    OBVIOUS
  <2>4. Fits([i \in 0 .. n |-> r[i]])
    BY <2>1, <2>2, <2>3 DEF Appended
  <2> HIDE DEF Fits
  <2> QED
    BY <2>4
<1>4. Fits(g)
  <2> HIDE DEF Fits
  <2> QED
    BY <1>3
<1> HIDE DEF g
<1>5. g[0] = base /\ \A k \in 1 .. n : g[k] = AppendMemoryHistory(seq[k])[g[k - 1]]
  <2>1. 0 \in 0 .. n /\ \A k \in 1 .. n : k \in 0 .. n /\ k # 0
    OBVIOUS
  <2> QED
    BY <1>4, <2>1
<1> QED
  BY <1>2, <1>5

(* Snapshots in the order in which they are said.                          *)
Rising(u) ==
    \A j \in 1 .. Len(u) :
        u[j].sequence >= 1 /\ \A i \in 1 .. j - 1 : u[i].sequence < u[j].sequence

(* What a poll makes of a history: it is of one run, and ends where the    *)
(* snapshots end.                                                          *)
LEMMA SampledOneRun ==
    ASSUME NEW a, NEW g, NEW events \in Seq(SaidBy(g, a)), events # <<>>, Rising(events),
           NEW h, OneRun(h, a), GoesOn(h, g, events[1].sequence)
    PROVE  /\ OneRun(Sampled(h, events), a) /\ Sampled(h, events) # <<>>
           /\ Last(Sampled(h, events)).sequence = Last(events).sequence
           /\ Last(Sampled(h, events)) = Last(events) \/ Last(events).sequence = 1
<1> DEFINE n == Len(events)
<1>1. PICK r : /\ r[0] = h /\ r[n] = Sampled(h, events)
               /\ \A k \in 1 .. n : r[k] = AppendMemoryHistory(events[k])[r[k - 1]]
  BY SampledSteps
<1>2. /\ n \in Nat /\ n \in 1 .. n /\ Last(events) = events[n]
      /\ \A i \in 1 .. n : events[i] \in SaidBy(g, a)
  BY EmptySeq, LenProperties, ElementOfSeq DEF Last
<1>3. \A i \in 1 .. n : /\ events[i] \in Numbered(a) /\ events[i].gen = g
                        /\ events[i].sequence \in Nat
  BY <1>2 DEF SaidBy, Numbered, Rising, Snapshot
<1>4. \A i \in 1 .. n - 1 : events[i].sequence < events[i + 1].sequence
  <2> SUFFICES ASSUME NEW i \in 1 .. n - 1
               PROVE  events[i].sequence < events[i + 1].sequence
    OBVIOUS
  <2>1. i + 1 \in 1 .. n /\ i \in 1 .. (i + 1) - 1
    BY <1>2
  <2> QED
    BY <2>1 DEF Rising
<1> DEFINE Ends(q, e) == /\ OneRun(q, a) /\ q # <<>> /\ Last(q).sequence = e.sequence
                         /\ Last(q) = e \/ e.sequence = 1
           Good == {k \in 0 .. n : k # 0 => Ends(r[k], events[k])}
<1>5. 0 \in Good
  BY <1>2
<1>6. ASSUME NEW k \in 1 .. n, k - 1 \in Good PROVE k \in Good
  <2> DEFINE q == r[k - 1]
             e == events[k]
  <2>1. e \in Numbered(a) /\ e.gen = g /\ k \in 0 .. n
    BY <1>3
  <2>2. OneRun(q, a) /\ GoesOn(q, g, e.sequence)
    <3>1. CASE k = 1
      BY <1>1, <3>1
    <3>2. CASE k # 1
      <4> DEFINE d == events[k - 1]
      <4>1. k - 1 \in 1 .. n - 1 /\ k - 1 \in 1 .. n /\ (k - 1) + 1 = k /\ k - 1 # 0
        BY <1>2, <3>2
      <4>2. Ends(q, d)
        BY <1>6, <4>1
      <4>3. d.sequence < e.sequence /\ d.gen = g
        BY <1>3, <1>4, <4>1
      <4> QED
        BY <4>2, <4>3 DEF GoesOn
    <3> QED
      BY <3>1, <3>2
  <2>3. r[k] = AppendMemoryHistory(e)[q]
    BY <1>1
  <2> HIDE DEF q, e
  <2>4. Ends(r[k], e)
    BY <2>1, <2>2, <2>3, SampleAppended
  <2> QED
    BY <2>1, <2>4 DEF e
<1> HIDE DEF Good
<1>7. \A k \in 0 .. n : k \in Good
  BY <1>2, <1>5, <1>6, Sampling!InductionTo
<1>8. Ends(r[n], events[n])
  <2>1. n \in 0 .. n /\ n # 0
    BY <1>2
  <2> QED
    BY <1>7, <2>1 DEF Good
<1> QED
  BY <1>1, <1>2, <1>8

-----------------------------------------------------------------------------
(* The snapshots on their way from the C process to the window.            *)

Unread == queue \o out[gen]

(* In order, and the last one shows the C process as it is.                *)
InOrder(u) ==
    /\ Rising(u)
    /\ u # <<>> => /\ Last(u).sequence = c.sequence /\ Last(u).count = c.count
                   /\ Last(u).state = c.state

(* The number of the next snapshot to be read.                             *)
NextNumber == IF Unread = <<>> THEN c.sequence + 1 ELSE Unread[1].sequence

HistoryInv ==
    /\ InOrder(Unread)
    /\ \A a \in Algorithms : OneRun(store[a].history, a)
    /\ c.alg \in Algorithms => GoesOn(store[c.alg].history, gen, NextNumber)

(* Nothing of the store but its histories matters.                         *)
SameHistories == \A a \in Algorithms : store'[a].history = store[a].history

(* What is unread is what the process said.                                *)
LEMMA UnreadLines ==
    ASSUME LinesInv
    PROVE  /\ Unread \in Seq(SaidBy(gen, c.alg)) /\ gen \in Gens
           /\ queue \in Seq(SaidBy(gen, c.alg)) /\ out[gen] \in Seq(SaidBy(gen, c.alg))
           /\ Len(Unread) = Len(queue) + Len(out[gen])
           /\ Len(queue) \in Nat /\ Len(out[gen]) \in Nat
           /\ \A i \in 1 .. Len(queue) : Unread[i] = queue[i]
           /\ \A i \in 1 .. Len(out[gen]) : Unread[Len(queue) + i] = out[gen][i]
<1>1. queue \in Seq(SaidBy(gen, c.alg)) /\ out[gen] \in Seq(SaidBy(gen, c.alg))
  BY DEF LinesInv, LinesInOrder
<1>2. gen \in Gens
  BY ClientAssumption DEF LinesInv, Counting, Gens
<1>3. /\ Unread \in Seq(SaidBy(gen, c.alg))
      /\ Len(Unread) = Len(queue) + Len(out[gen])
      /\ \A i \in 1 .. Len(queue) + Len(out[gen]) :
            Unread[i] = IF i =< Len(queue) THEN queue[i] ELSE out[gen][i - Len(queue)]
  BY <1>1, ConcatProperties DEF Unread
<1>4. Len(queue) \in Nat /\ Len(out[gen]) \in Nat
  BY <1>1, LenProperties
<1>5. \A i \in 1 .. Len(queue) : Unread[i] = queue[i]
  BY <1>3, <1>4
<1>6. \A i \in 1 .. Len(out[gen]) : Unread[Len(queue) + i] = out[gen][i]
  <2> SUFFICES ASSUME NEW i \in 1 .. Len(out[gen])
               PROVE  Unread[Len(queue) + i] = out[gen][i]
    OBVIOUS
  <2>1. /\ Len(queue) + i \in 1 .. Len(queue) + Len(out[gen])
        /\ ~(Len(queue) + i =< Len(queue)) /\ (Len(queue) + i) - Len(queue) = i
    BY <1>4
  <2> QED
    BY <1>3, <2>1
<1> QED
  BY <1>1, <1>2, <1>3, <1>4, <1>5, <1>6

(* What a poll reads comes first, and the rest stays unread.               *)
LEMMA ReadPart ==
    ASSUME LinesInv, NEW k \in 0 .. Len(out[gen])
    PROVE  LET events == Drained(k)
               rest == Left(k)[gen]
           IN  /\ events \in Seq(SaidBy(gen, c.alg)) /\ rest \in Seq(SaidBy(gen, c.alg))
               /\ Len(events) + Len(rest) = Len(Unread)
               /\ \A i \in 1 .. Len(events) : events[i] = Unread[i]
               /\ \A i \in 1 .. Len(rest) : rest[i] = Unread[Len(events) + i]
               /\ events \o rest = Unread
<1> DEFINE s == out[gen]
           events == Drained(k)
           front == SubSeq(s, 1, k)
           rest == SubSeq(s, k + 1, Len(s))
           said == SaidBy(gen, c.alg)
<1>1. /\ Unread \in Seq(said) /\ queue \in Seq(said) /\ s \in Seq(said) /\ gen \in Gens
      /\ Len(Unread) = Len(queue) + Len(s) /\ Len(queue) \in Nat /\ Len(s) \in Nat
      /\ \A i \in 1 .. Len(queue) : Unread[i] = queue[i]
      /\ \A i \in 1 .. Len(s) : Unread[Len(queue) + i] = s[i]
  BY UnreadLines
<1>2. Left(k)[gen] = rest
  BY <1>1 DEF Left, LinesInv, LinesInOrder
<1>3. k \in Nat /\ k =< Len(s) /\ \A i \in 1 .. Len(s) : s[i] \in said
  BY <1>1, ElementOfSeq
<1> HIDE DEF s, said
<1>4. front \in Seq(said) /\ Len(front) = k /\ \A i \in 1 .. k : front[i] = s[i]
  BY <1>1, <1>3, SubSeqProperties
<1>5. /\ rest \in Seq(said) /\ Len(rest) = Len(s) - k
      /\ \A i \in 1 .. Len(s) - k : rest[i] = s[k + i]
  BY <1>1, <1>3, SubSeqProperties
<1> HIDE DEF front, rest
<1>6. events = queue \o front
  BY DEF Drained, s, front
<1> HIDE DEF events
<1>7. /\ events \in Seq(said) /\ Len(events) = Len(queue) + k
      /\ \A i \in 1 .. Len(queue) + k :
            events[i] = IF i =< Len(queue) THEN queue[i] ELSE front[i - Len(queue)]
  BY <1>1, <1>4, <1>6, ConcatProperties
<1>8. \A i \in 1 .. Len(events) : events[i] = Unread[i]
  <2> SUFFICES ASSUME NEW i \in 1 .. Len(queue) + k PROVE events[i] = Unread[i]
    BY <1>7
  <2>1. CASE i =< Len(queue)
    BY <1>1, <1>7, <2>1
  <2>2. CASE ~(i =< Len(queue))
    <3>1. i - Len(queue) \in 1 .. k /\ Len(queue) + (i - Len(queue)) = i
      BY <1>1, <1>3, <2>2
    <3>2. i - Len(queue) \in 1 .. Len(s)
      BY <1>1, <1>3, <3>1
    <3> QED
      BY <1>1, <1>4, <1>7, <2>2, <3>1, <3>2
  <2> QED
    BY <2>1, <2>2
<1>9. \A i \in 1 .. Len(rest) : rest[i] = Unread[Len(events) + i]
  <2> SUFFICES ASSUME NEW i \in 1 .. Len(s) - k PROVE rest[i] = Unread[Len(events) + i]
    BY <1>5
  <2>1. k + i \in 1 .. Len(s) /\ Len(queue) + (k + i) = (Len(queue) + k) + i
    BY <1>1, <1>3
  <2> QED
    BY <1>1, <1>5, <1>7, <2>1
<1>10. Len(events) + Len(rest) = Len(Unread) /\ Len(events) \in Nat /\ Len(rest) \in Nat
  BY <1>1, <1>3, <1>5, <1>7
<1>11. events \o rest = Unread
  <2>1. /\ events \o rest \in Seq(said)
        /\ Len(events \o rest) = Len(events) + Len(rest)
        /\ \A i \in 1 .. Len(events) + Len(rest) :
              (events \o rest)[i] = IF i =< Len(events) THEN events[i]
                                    ELSE rest[i - Len(events)]
    BY <1>5, <1>7, ConcatProperties
  <2>2. ASSUME NEW i \in 1 .. Len(Unread) PROVE (events \o rest)[i] = Unread[i]
    <3>1. CASE i =< Len(events)
      BY <1>8, <1>10, <2>1, <3>1
    <3>2. CASE ~(i =< Len(events))
      <4>1. i - Len(events) \in 1 .. Len(rest) /\ Len(events) + (i - Len(events)) = i
        BY <1>10, <3>2
      <4> QED
        BY <1>9, <1>10, <2>1, <3>2, <4>1
    <3> QED
      BY <3>1, <3>2
  <2> QED
    BY <1>1, <1>10, <2>1, <2>2, SeqEqual
<1> QED
  BY <1>2, <1>5, <1>7, <1>8, <1>9, <1>10, <1>11 DEF events, rest, s, said

(* Both parts are in order, and the last of all is the last of the second  *)
(* part, or of the first if that is all.                                   *)
LEMMA PartsInOrder ==
    ASSUME LinesInv, InOrder(Unread), NEW k \in 0 .. Len(out[gen])
    PROVE  LET events == Drained(k)
               rest == Left(k)[gen]
           IN  /\ Rising(events) /\ InOrder(rest)
               /\ events # <<>> => /\ events[1] = Unread[1] /\ Unread # <<>>
                                   /\ Last(events) \in SaidBy(gen, c.alg)
               /\ events = <<>> => rest = Unread
               /\ events # <<>> /\ rest # <<>> => Last(events).sequence < rest[1].sequence
               /\ events # <<>> /\ rest = <<>> => Last(events) = Last(Unread)
<1> DEFINE events == Drained(k)
           rest == Left(k)[gen]
           m == Len(events)
           n == Len(rest)
<1>1. /\ events \in Seq(SaidBy(gen, c.alg)) /\ rest \in Seq(SaidBy(gen, c.alg))
      /\ m + n = Len(Unread)
      /\ \A i \in 1 .. m : events[i] = Unread[i]
      /\ \A i \in 1 .. n : rest[i] = Unread[m + i]
      /\ events \o rest = Unread
  BY ReadPart
<1>2. Unread \in Seq(SaidBy(gen, c.alg))
  BY UnreadLines
<1> HIDE DEF events, rest
<1>3. m \in Nat /\ n \in Nat /\ Len(Unread) \in Nat
  BY <1>1, <1>2, LenProperties
<1>4. (events = <<>> <=> m = 0) /\ (rest = <<>> <=> n = 0) /\ (Unread = <<>> <=> m + n = 0)
  BY <1>1, <1>2, EmptySeq
<1>5. Rising(events)
  <2>1. ASSUME NEW j \in 1 .. m
        PROVE  /\ events[j].sequence >= 1
               /\ \A i \in 1 .. j - 1 : events[i].sequence < events[j].sequence
    <3>1. j \in 1 .. Len(Unread) /\ \A i \in 1 .. j - 1 : i \in 1 .. m
      BY <1>1, <1>3
    <3> QED
      BY <1>1, <3>1 DEF InOrder, Rising
  <2> QED
    BY <2>1 DEF Rising
<1>6. InOrder(rest)
  <2>1. ASSUME NEW j \in 1 .. n
        PROVE  /\ rest[j].sequence >= 1
               /\ \A i \in 1 .. j - 1 : rest[i].sequence < rest[j].sequence
    <3>1. /\ m + j \in 1 .. Len(Unread)
          /\ \A i \in 1 .. j - 1 : i \in 1 .. n /\ m + i \in 1 .. (m + j) - 1
      BY <1>1, <1>3
    <3> QED
      BY <1>1, <3>1 DEF InOrder, Rising
  <2>2. rest # <<>> => Last(rest) = Last(Unread) /\ Unread # <<>>
    <3> SUFFICES ASSUME rest # <<>> PROVE Last(rest) = Last(Unread) /\ Unread # <<>>
      OBVIOUS
    <3>1. n \in 1 .. n
      BY <1>3, <1>4
    <3>2. Last(rest) = rest[n] /\ rest[n] = Unread[m + n]
      BY <1>1, <3>1 DEF Last
    <3>3. Len(Unread) = m + n /\ m + n # 0
      BY <1>1, <1>3, <3>1
    <3>4. Last(Unread) = Unread[m + n]
      BY <3>3 DEF Last
    <3> QED
      BY <1>4, <3>2, <3>3, <3>4
  <2> QED
    BY <2>1, <2>2 DEF InOrder, Rising
<1>7. ASSUME events # <<>>
      PROVE  /\ events[1] = Unread[1] /\ Unread # <<>>
             /\ Last(events) = Unread[m] /\ m \in 1 .. m
             /\ Last(events) \in SaidBy(gen, c.alg)
  <2>1. 1 \in 1 .. m /\ m \in 1 .. m
    BY <1>3, <1>4, <1>7
  <2>2. events[1] = Unread[1] /\ Last(events) = events[m] /\ events[m] = Unread[m]
    BY <1>1, <2>1 DEF Last
  <2>3. events[m] \in SaidBy(gen, c.alg)
    BY <1>1, <2>1, ElementOfSeq
  <2> QED
    BY <1>3, <1>4, <1>7, <2>1, <2>2, <2>3
<1>8. ASSUME events = <<>> PROVE rest = Unread
  <2>1. m = 0
    BY <1>4, <1>8
  <2>2. \A i \in 1 .. n : rest[i] = Unread[i]
    BY <1>1, <1>3, <2>1
  <2> QED
    BY <1>1, <1>2, <1>3, <2>1, <2>2, SeqEqual
<1>9. ASSUME events # <<>>, rest # <<>> PROVE Last(events).sequence < rest[1].sequence
  <2>1. 1 \in 1 .. n /\ m + 1 \in 1 .. Len(Unread) /\ m \in 1 .. (m + 1) - 1
    BY <1>1, <1>3, <1>4, <1>7, <1>9
  <2> QED
    BY <1>1, <1>7, <1>9, <2>1 DEF InOrder, Rising
<1>10. ASSUME events # <<>>, rest = <<>> PROVE Last(events) = Last(Unread)
  <2>1. Len(Unread) = m
    BY <1>1, <1>3, <1>4, <1>10
  <2> QED
    BY <1>7, <1>10, <2>1 DEF Last
<1> QED
  BY <1>5, <1>6, <1>7, <1>8, <1>9, <1>10 DEF events, rest

(* Nothing said or read, and no history but an emptied one.                *)
LEMMA HistoryKept ==
    ASSUME HistoryInv, Unread' = Unread, gen' = gen, c'.alg = c.alg,
           c'.sequence = c.sequence, c'.count = c.count, c'.state = c.state,
           \A a \in Algorithms : store'[a].history \in {store[a].history, <<>>}
    PROVE  HistoryInv'
<1>1. InOrder(Unread)'
  BY DEF HistoryInv, InOrder
<1>2. \A a : OneRun(<<>>, a)
  <2>1. \A a : <<>> \in Seq(Numbered(a)) /\ Len(<<>>) = 0
    BY EmptySeq
  <2> QED
    BY <2>1, ClientAssumption DEF OneRun
<1>3. \A a \in Algorithms : OneRun(store'[a].history, a)
  BY <1>2 DEF HistoryInv
<1>4. NextNumber' = NextNumber
  BY DEF NextNumber
<1>5. c.alg \in Algorithms => GoesOn(store'[c.alg].history, gen, NextNumber)
  BY DEF HistoryInv, GoesOn
<1> QED
  BY <1>1, <1>3, <1>4, <1>5 DEF HistoryInv

(* A poll of the window that drives the C process.                         *)
LEMMA HistoryRead ==
    ASSUME LinesInv, StoreInv, HistoryInv, window \in Algorithms, c.alg = window,
           NEW k \in 0 .. Len(out[gen]), queue' = <<>>, out' = Left(k),
           UNCHANGED <<gen, c>>,
           \/ store' = Reduced(window, Drained(k))
           \/ store' = [store EXCEPT ![window] = NoProcesses]
    PROVE  HistoryInv'
<1> DEFINE events == Drained(k)
           rest == Left(k)[gen]
           old == store[window].history
           new == store'[window].history
<1>1. /\ Rising(events) /\ InOrder(rest)
      /\ events # <<>> => events[1] = Unread[1] /\ Unread # <<>>
                          /\ Last(events) \in SaidBy(gen, c.alg)
      /\ events = <<>> => rest = Unread
      /\ events # <<>> /\ rest # <<>> => Last(events).sequence < rest[1].sequence
      /\ events # <<>> /\ rest = <<>> => Last(events) = Last(Unread)
  BY PartsInOrder DEF HistoryInv
<1>2. events \in Seq(SaidBy(gen, window)) /\ rest \in Seq(SaidBy(gen, window))
  BY ReadPart
<1>3. Unread' = rest
  BY <1>2 DEF Unread
<1>4. InOrder(Unread)'
  BY <1>1, <1>3 DEF InOrder
<1>5. /\ \A a \in Algorithms \ {window} : store'[a] = store[a]
      /\ \/ new = <<>>
         \/ events = <<>> /\ new = old
         \/ events # <<>> /\ new = Sampled(old, events)
  <2>1. CASE store' = [store EXCEPT ![window] = NoProcesses]
    BY <2>1 DEF NoProcesses, StoreInv
  <2>2. CASE store' = Reduced(window, events)
    BY <2>2 DEF Reduced, StoreInv
  <2> QED
    BY <2>1, <2>2
<1>6. OneRun(old, window) /\ GoesOn(old, gen, NextNumber)
  BY DEF HistoryInv
<1>7. OneRun(new, window) /\ GoesOn(new, gen, NextNumber')
  <2>1. CASE new = <<>>
    <3>1. <<>> \in Seq(Numbered(window)) /\ Len(<<>>) = 0
      BY EmptySeq
    <3> QED
      BY <2>1, <3>1, ClientAssumption DEF OneRun, GoesOn
  <2>2. CASE events = <<>> /\ new = old
    <3>1. NextNumber' = NextNumber
      BY <1>1, <1>3, <2>2 DEF NextNumber
    <3> QED
      BY <1>6, <2>2, <3>1
  <2>3. CASE events # <<>> /\ new = Sampled(old, events)
    <3>1. NextNumber = events[1].sequence
      BY <1>1, <2>3 DEF NextNumber
    <3> HIDE DEF events, rest, old, new
    <3>2. /\ OneRun(new, window) /\ new # <<>>
          /\ Last(new).sequence = Last(events).sequence
          /\ Last(new) = Last(events) \/ Last(events).sequence = 1
      BY <1>1, <1>2, <1>6, <2>3, <3>1, SampledOneRun
    <3>3. Last(events) \in SaidBy(gen, c.alg) /\ Last(events).gen = gen
          /\ Last(events).sequence \in Nat
      BY <1>1, <2>3 DEF SaidBy, Snapshot
    <3>4. Last(events).sequence < NextNumber'
      <4>1. CASE rest # <<>>
        BY <1>1, <1>3, <2>3, <4>1 DEF NextNumber
      <4>2. CASE rest = <<>>
        <5>1. Last(events).sequence = c.sequence
          BY <1>1, <2>3, <4>2 DEF HistoryInv, InOrder
        <5>2. NextNumber' = c.sequence + 1
          BY <1>3, <4>2 DEF NextNumber
        <5> QED
          BY <3>3, <5>1, <5>2
      <4> QED
        BY <4>1, <4>2
    <3>5. Last(new).gen = gen \/ Last(new).sequence = 1
      BY <3>2, <3>3
    <3>6. Last(new).sequence < NextNumber'
      BY <3>2, <3>4
    <3> QED
      BY <3>2, <3>5, <3>6 DEF GoesOn
  <2> QED
    BY <1>5, <2>1, <2>2, <2>3
<1>8. \A a \in Algorithms : OneRun(store'[a].history, a)
  BY <1>5, <1>7 DEF HistoryInv
<1> QED
  BY <1>4, <1>7, <1>8 DEF HistoryInv

(* A new process: its first snapshot is all there is to read.              *)
LEMMA StartProcessHistory == LinesInv /\ HistoryInv /\ StartProcess => HistoryInv'
<1> SUFFICES ASSUME LinesInv, HistoryInv, StartProcess PROVE HistoryInv'
  OBVIOUS
<1> DEFINE line == Shows(gen + 1, c')
<1>1. gen' = gen + 1 /\ gen + 1 \in Gens /\ store' = store
  BY ClientAssumption DEF StartProcess, Sending, LinesInv, Counting, Gens
<1>2. /\ queue' = <<>> /\ out'[gen + 1] = <<line>>
  BY <1>1 DEF StartProcess, LinesInv, LinesInOrder
<1>3. Unread' = <<line>>
  BY <1>1, <1>2 DEF Unread
<1>4. line.sequence = 1 /\ c'.sequence = 1 /\ line.count = c'.count /\ line.state = c'.state
  BY DEF StartProcess, Shows
<1> HIDE DEF line
<1>5. /\ Len(<<line>>) = 1 /\ <<line>>[1] = line /\ Last(<<line>>) = line
      /\ <<line>> # <<>>
  BY DEF Last
<1>6. InOrder(Unread)'
  BY <1>3, <1>4, <1>5 DEF InOrder, Rising
<1>7. NextNumber' = 1
  BY <1>3, <1>4, <1>5 DEF NextNumber
<1> QED
  BY <1>1, <1>6, <1>7 DEF HistoryInv, GoesOn

(* A sequence is its head followed by its tail.                            *)
LEMMA HeadAndTail ==
    ASSUME NEW S, NEW s \in Seq(S), s # <<>>
    PROVE  Head(s) \in S /\ Tail(s) \in Seq(S) /\ s = <<Head(s)>> \o Tail(s)
<1> DEFINE first == <<Head(s)>>
           rest == Tail(s)
<1>1. Head(s) \in S /\ rest \in Seq(S) /\ Len(rest) = Len(s) - 1
      /\ Len(s) \in Nat /\ \A i \in 1 .. Len(rest) : rest[i] = s[i + 1]
  BY HeadTailProperties, LenProperties
<1>2. first \in Seq(S) /\ Len(first) = 1 /\ first[1] = s[1]
  BY <1>1
<1> HIDE DEF first, rest
<1>3. /\ first \o rest \in Seq(S) /\ Len(first \o rest) = Len(first) + Len(rest)
      /\ \A i \in 1 .. Len(first) + Len(rest) :
            (first \o rest)[i] = IF i =< Len(first) THEN first[i] ELSE rest[i - Len(first)]
  <2>1. first \in Seq(S) /\ rest \in Seq(S)
    BY <1>1, <1>2
  <2> QED
    BY <2>1, ConcatProperties
<1>4. ASSUME NEW i \in 1 .. Len(s) PROVE s[i] = (first \o rest)[i]
  <2>1. CASE i = 1
    BY <1>1, <1>2, <1>3, <2>1
  <2>2. CASE i # 1
    <3>1. i - 1 \in 1 .. Len(rest) /\ (i - 1) + 1 = i /\ ~(i =< 1)
      BY <1>1, <2>2
    <3> QED
      BY <1>1, <1>2, <1>3, <3>1
  <2> QED
    BY <2>1, <2>2
<1>5. s = first \o rest
  <2>1. Len(first \o rest) = Len(s)
    BY <1>1, <1>2, <1>3
  <2> QED
    BY <1>3, <1>4, <2>1, SeqEqual
<1> QED
  BY <1>1, <1>5 DEF first, rest

(* A reader thread only passes on what is unread.                          *)
LEMMA ReadLineUnread == ASSUME LinesInv, NEW g \in Gens, ReadLine(g) PROVE Unread' = Unread
<1>1. gen' = gen /\ gen \in Gens /\ queue \in Seq(SaidBy(gen, c.alg))
      /\ out[gen] \in Seq(SaidBy(gen, c.alg))
  BY UnreadLines DEF ReadLine
<1>2. CASE g # gen
  <2>1. out'[gen] = out[gen]
    BY <1>1, <1>2 DEF ReadLine, LinesInv, LinesInOrder
  <2>2. Head(out[g]) \in {l \in Snapshot : l.gen = g}
    BY HeadTailProperties DEF ReadLine, LinesInv, LinesInOrder
  <2>3. queue' = queue
    BY <1>2, <2>2 DEF ReadLine, Delivered
  <2> QED
    BY <1>1, <2>1, <2>3 DEF Unread
<1>3. CASE g = gen
  <2> DEFINE s == out[gen]
  <2>1. s # <<>> /\ out'[gen] = Tail(s)
    BY <1>1, <1>3 DEF ReadLine, LinesInv, LinesInOrder
  <2>2. Head(s) \in SaidBy(gen, c.alg) /\ Tail(s) \in Seq(SaidBy(gen, c.alg))
        /\ s = <<Head(s)>> \o Tail(s)
    <3> HIDE DEF s
    <3> QED
      BY <1>1, <2>1, HeadAndTail DEF s
  <2>3. queue' = Append(queue, Head(s))
    BY <1>3, <2>2 DEF ReadLine, Delivered, SaidBy
  <2> HIDE DEF s
  <2>4. Append(queue, Head(s)) = queue \o <<Head(s)>> /\ <<Head(s)>> \in Seq(SaidBy(gen, c.alg))
    BY <1>1, <2>2, AppendIsConcat
  <2>5. (queue \o <<Head(s)>>) \o Tail(s) = queue \o (<<Head(s)>> \o Tail(s))
    BY <1>1, <2>2, <2>4, ConcatAssociative
  <2>6. Unread' = queue \o s
    BY <1>1, <2>1, <2>2, <2>3, <2>4, <2>5 DEF Unread
  <2> QED
    BY <2>6 DEF Unread, s
<1> QED
  BY <1>2, <1>3

(* What the C process says goes to the end.                                *)
LEMMA SaysHistory ==
    ASSUME LinesInv, HistoryInv, NEW p, p.alg = c.alg, p.sequence = c.sequence, Says(p),
           p \in [alive : BOOLEAN, state : {"PAUSE", "RUN", "STOP"}, count : Nat,
                  sequence : Nat, alg : Algorithms \cup {NONE}],
           UNCHANGED <<gui, gen>>
    PROVE  HistoryInv'
<1> DEFINE line == Shows(gen, c')
           n == Len(Unread)
<1>1. /\ c'.sequence = c.sequence + 1 /\ c'.alg = c.alg /\ c.sequence \in Nat
      /\ c'.count = p.count /\ c'.state = p.state
  BY DEF Says, LinesInv, ProcessType
<1>2. /\ line.sequence = c.sequence + 1 /\ line.count = c'.count /\ line.state = c'.state
      /\ line.gen = gen /\ line.alg = c.alg
  BY <1>1 DEF Shows
<1>3. /\ queue \in Seq(SaidBy(gen, c.alg)) /\ out[gen] \in Seq(SaidBy(gen, c.alg))
      /\ Unread \in Seq(SaidBy(gen, c.alg)) /\ gen \in Gens
  BY UnreadLines
<1>4. line \in SaidBy(gen, c.alg) \cup {line}
  OBVIOUS
<1>5. out'[gen] = Append(out[gen], line) /\ queue' = queue /\ gen' = gen
  BY <1>3 DEF Says, gui, LinesInv, LinesInOrder
<1> HIDE DEF line
<1> DEFINE All == SaidBy(gen, c.alg) \cup {line}
<1>6. /\ queue \in Seq(All) /\ out[gen] \in Seq(All) /\ Unread \in Seq(All)
      /\ <<line>> \in Seq(All) /\ line \in All
  BY <1>3, SeqMonotonic
<1> HIDE DEF All
<1>7. Unread' = Append(Unread, line)
  <2>1. Append(out[gen], line) = out[gen] \o <<line>>
        /\ Append(Unread, line) = Unread \o <<line>>
    BY <1>6, AppendIsConcat
  <2>2. (queue \o out[gen]) \o <<line>> = queue \o (out[gen] \o <<line>>)
    <3> DEFINE t == out[gen]
               u == <<line>>
    <3>1. queue \in Seq(All) /\ t \in Seq(All) /\ u \in Seq(All)
      BY <1>6
    <3> HIDE DEF t, u
    <3>2. (queue \o t) \o u = queue \o (t \o u)
      BY <3>1, ConcatAssociative
    <3> QED
      BY <3>2 DEF t, u
  <2> QED
    BY <1>5, <2>1, <2>2 DEF Unread
<1>8. /\ n \in Nat /\ Len(Append(Unread, line)) = n + 1
      /\ Append(Unread, line)[n + 1] = line
      /\ \A i \in 1 .. n : Append(Unread, line)[i] = Unread[i]
      /\ Append(Unread, line) # <<>> /\ Last(Append(Unread, line)) = line
  <2>1. n \in Nat
    BY <1>6, LenProperties
  <2>2. /\ Len(Append(Unread, line)) = n + 1
        /\ Append(Unread, line)[n + 1] = line
        /\ \A i \in 1 .. n : Append(Unread, line)[i] = Unread[i]
        /\ Append(Unread, line) # <<>>
    BY <1>6, AppendProperties
  <2> QED
    BY <2>1, <2>2 DEF Last
<1>9. \A i \in 1 .. n : Unread[i].sequence \in Nat /\ Unread[i].sequence =< c.sequence
  <2> SUFFICES ASSUME NEW i \in 1 .. n
               PROVE  Unread[i].sequence \in Nat /\ Unread[i].sequence =< c.sequence
    OBVIOUS
  <2>1. \A j \in 1 .. n : Unread[j] \in SaidBy(gen, c.alg)
    BY <1>3, ElementOfSeq
  <2>2. \A j \in 1 .. n : Unread[j].sequence \in Nat
    BY <2>1 DEF SaidBy, Snapshot
  <2>3. Unread # <<>> /\ n \in 1 .. n
    BY <1>3, <1>8, EmptySeq
  <2>4. Unread[n].sequence = c.sequence
    BY <2>3 DEF HistoryInv, InOrder, Last
  <2>5. i = n \/ i \in 1 .. n - 1
    BY <1>8
  <2>6. i \in 1 .. n - 1 => Unread[i].sequence < Unread[n].sequence
    BY <2>3 DEF HistoryInv, InOrder, Rising
  <2> QED
    BY <1>1, <2>2, <2>3, <2>4, <2>5, <2>6
<1>10. Rising(Append(Unread, line))
  <2> SUFFICES ASSUME NEW j \in 1 .. n + 1
               PROVE  /\ Append(Unread, line)[j].sequence >= 1
                      /\ \A i \in 1 .. j - 1 : Append(Unread, line)[i].sequence
                                                 < Append(Unread, line)[j].sequence
    BY <1>8 DEF Rising
  <2>1. CASE j = n + 1
    <3>1. \A i \in 1 .. j - 1 : i \in 1 .. n
      BY <1>8, <2>1
    <3>2. \A i \in 1 .. n : Unread[i].sequence < c.sequence + 1
      BY <1>1, <1>9
    <3> QED
      BY <1>1, <1>2, <1>8, <2>1, <3>1, <3>2
  <2>2. CASE j \in 1 .. n
    <3>1. \A i \in 1 .. j - 1 : i \in 1 .. n
      BY <1>8, <2>2
    <3> QED
      BY <1>8, <2>2, <3>1 DEF HistoryInv, InOrder, Rising
  <2> QED
    BY <1>8, <2>1, <2>2
<1>11. InOrder(Unread)'
  <2>1. Last(Unread').sequence = c'.sequence /\ Last(Unread').count = c'.count
        /\ Last(Unread').state = c'.state
    BY <1>1, <1>2, <1>7, <1>8
  <2> QED
    BY <1>7, <1>10, <2>1 DEF InOrder, Rising
<1>12. NextNumber' = NextNumber
  <2>1. CASE Unread = <<>>
    <3>1. n = 0
      BY <2>1
    <3>2. Append(Unread, line)[1] = line
      BY <1>8, <3>1
    <3> QED
      BY <1>2, <1>7, <1>8, <2>1, <3>2 DEF NextNumber
  <2>2. CASE Unread # <<>>
    <3>1. 1 \in 1 .. n
      BY <1>3, <1>8, <2>2, EmptySeq
    <3> QED
      BY <1>7, <1>8, <2>2, <3>1 DEF NextNumber
  <2> QED
    BY <2>1, <2>2
<1>13. store' = store
  BY DEF gui
<1> QED
  BY <1>1, <1>5, <1>11, <1>12, <1>13 DEF HistoryInv

(* What the user does leaves the histories alone, or empties one.          *)
LEMMA UserHistory == LinesInv /\ StoreInv /\ HistoryInv /\ User => HistoryInv'
<1> SUFFICES ASSUME LinesInv, StoreInv, HistoryInv, User PROVE HistoryInv'
  OBVIOUS
<1>1. UNCHANGED <<queue, gen, c, out>>
  BY DEF User, Open, GoBack, AddProcess, AddRandom, StartSimulation, PauseSimulation,
         StopButton, ClearProcesses, ChangeSettings, SendLogCommand, InWindow, program
<1>2. \A a \in Algorithms : store'[a].history \in {store[a].history, <<>>}
  <2>1. CASE store' = store
    BY <2>1
  <2>2. CASE AddProcess
    BY <2>2 DEF AddProcess, StoreInv
  <2>3. CASE AddRandom
    <3>1. PICK n : store' = [store EXCEPT ![window].random = n]
      BY <2>3 DEF AddRandom
    <3> QED
      BY <3>1 DEF StoreInv, Sheet
  <2>4. CASE ClearProcesses
    BY <2>4 DEF ClearProcesses, NoProcesses, StoreInv
  <2> QED
    BY <2>1, <2>2, <2>3, <2>4
       DEF User, Open, GoBack, StartSimulation, PauseSimulation, StopButton,
           ChangeSettings, SendLogCommand
<1>3. Unread' = Unread
  BY <1>1 DEF Unread
<1> QED
  BY <1>1, <1>2, <1>3, HistoryKept

(* Nor does the end of a process lose or add a snapshot.                   *)
LEMMA WaitForExitUnread == LinesInv /\ WaitForExit => Unread' = Unread
<1> SUFFICES ASSUME LinesInv, WaitForExit PROVE Unread' = Unread
  OBVIOUS
<1>1. PICK k \in 0 .. Len(out[gen]) : queue' = Drained(k) /\ out' = Left(k)
  BY ReadableLines DEF WaitForExit
<1>2. gen' = gen
  BY DEF WaitForExit
<1>3. Drained(k) \o Left(k)[gen] = Unread
  BY ReadPart
<1> QED
  BY <1>1, <1>2, <1>3 DEF Unread

(* The gateway changes no history, and what is unread only with a new      *)
(* process.                                                                *)
LEMMA GatewayHistory == LinesInv /\ HistoryInv /\ Gateway => HistoryInv'
<1> SUFFICES ASSUME LinesInv, HistoryInv, Gateway PROVE HistoryInv'
  OBVIOUS
<1>1. CASE StartProcess
  BY <1>1, StartProcessHistory
<1>2. CASE SendLines \/ BrokenPipe \/ NotRunning
  <2>1. UNCHANGED <<queue, gen, out, store>>
    BY <1>2 DEF SendLines, BrokenPipe, NotRunning, Sending, program
  <2>2. /\ c'.alg = c.alg /\ c'.sequence = c.sequence /\ c'.count = c.count
        /\ c'.state = c.state
    BY <1>2 DEF SendLines, BrokenPipe, NotRunning, program, LinesInv, ProcessType
  <2>3. Unread' = Unread
    BY <2>1 DEF Unread
  <2> QED
    BY <2>1, <2>2, <2>3, HistoryKept
<1>3. CASE WaitForExit
  <2>1. UNCHANGED <<gen, store>>
    BY <1>3 DEF WaitForExit
  <2>2. /\ c'.alg = c.alg /\ c'.sequence = c.sequence /\ c'.count = c.count
        /\ c'.state = c.state
    BY <1>3 DEF WaitForExit, LinesInv, ProcessType
  <2> QED
    BY <1>3, <2>1, <2>2, WaitForExitUnread, HistoryKept
<1> QED
  BY <1>1, <1>2, <1>3 DEF Gateway

(* What a poll does to the store, the queue and the pipe.                  *)
LEMMA PollReads ==
    ASSUME LinesInv, Poll
    PROVE  /\ window \in Algorithms /\ c.alg = window /\ UNCHANGED <<gen, c, window>>
           /\ \/ UNCHANGED <<queue, out, store>>
              \/ \E k \in 0 .. Len(out[gen]) :
                    /\ queue' = <<>> /\ out' = Left(k)
                    /\ \/ store' = Reduced(window, Drained(k))
                       \/ store' = [store EXCEPT ![window] = NoProcesses]
<1>1. window \in Algorithms /\ c.alg = window
  <2>1. task.name # "open" /\ window # NONE
    BY DEF Poll, PollRead, PollCheck, StopDone, LinesInv, WindowDrives, Ready
  <2> QED
    BY <2>1 DEF LinesInv, WindowDrives
<1>2. UNCHANGED <<gen, c, window>>
  BY DEF Poll, PollRead, PollCheck, StopDone
<1>3. \/ UNCHANGED <<queue, out, store>>
      \/ \E k \in Readable :
            /\ queue' = <<>> /\ out' = Left(k)
            /\ \/ store' = Reduced(window, Drained(k))
               \/ store' = [store EXCEPT ![window] = NoProcesses]
  BY DEF Poll, PollRead, PollCheck, StopDone, FinalEvents
<1> QED
  BY <1>1, <1>2, <1>3, ReadableLines

(* A poll appends samples of one run, in order.                            *)
LEMMA PollHistory == LinesInv /\ StoreInv /\ HistoryInv /\ Poll => HistoryInv'
<1> SUFFICES ASSUME LinesInv, StoreInv, HistoryInv, Poll PROVE HistoryInv'
  OBVIOUS
<1>1. window \in Algorithms /\ c.alg = window /\ UNCHANGED <<gen, c, window>>
  BY PollReads
<1>2. CASE UNCHANGED <<queue, out, store>>
  <2>1. Unread' = Unread
    BY <1>1, <1>2 DEF Unread
  <2> QED
    BY <1>1, <1>2, <2>1, HistoryKept
<1>3. CASE \E k \in 0 .. Len(out[gen]) :
              /\ queue' = <<>> /\ out' = Left(k)
              /\ \/ store' = Reduced(window, Drained(k))
                 \/ store' = [store EXCEPT ![window] = NoProcesses]
  BY <1>1, <1>3, HistoryRead
<1> QED
  BY <1>2, <1>3, PollReads

(* The C process and the readers.                                          *)
LEMMA ProgramHistory ==
    LinesInv /\ HistoryInv /\ (ReadCommand \/ Finish \/ Exit \/ Reader) => HistoryInv'
<1> SUFFICES ASSUME LinesInv, HistoryInv, ReadCommand \/ Finish \/ Exit \/ Reader
             PROVE  HistoryInv'
  OBVIOUS
<1>1. CASE Reader
  <2>1. PICK g \in Gens : ReadLine(g)
    BY <1>1 DEF Reader
  <2>2. Unread' = Unread /\ UNCHANGED <<gen, c, store>>
    BY <2>1, ReadLineUnread DEF ReadLine
  <2> QED
    BY <2>2, HistoryKept
<1>2. CASE Exit \/ (ReadCommand /\ UNCHANGED <<c, out>>)
  <2>1. /\ UNCHANGED <<queue, gen, out, store>>
        /\ c'.alg = c.alg /\ c'.sequence = c.sequence /\ c'.count = c.count
        /\ c'.state = c.state
    BY <1>2 DEF Exit, ReadCommand, gui, LinesInv, ProcessType
  <2>2. Unread' = Unread
    BY <2>1 DEF Unread
  <2> QED
    BY <2>1, <2>2, HistoryKept
<1>3. CASE ReadCommand /\ Says(Obeyed(Head(inp)))
  <2>1. /\ Obeyed(Head(inp)) \in
              [alive : BOOLEAN, state : {"PAUSE", "RUN", "STOP"}, count : Nat,
               sequence : Nat, alg : Algorithms \cup {NONE}]
        /\ Obeyed(Head(inp)).alg = c.alg /\ Obeyed(Head(inp)).sequence = c.sequence
    BY ClientAssumption DEF Obeyed, LinesInv, ProcessType
  <2> QED
    BY <1>3, <2>1, SaysHistory DEF ReadCommand
<1>4. CASE Finish
  <2> DEFINE p == [c EXCEPT !.state = "STOP"]
  <2>1. /\ p \in [alive : BOOLEAN, state : {"PAUSE", "RUN", "STOP"}, count : Nat,
                  sequence : Nat, alg : Algorithms \cup {NONE}]
        /\ p.alg = c.alg /\ p.sequence = c.sequence
    BY DEF LinesInv, ProcessType
  <2>2. Says(p) /\ UNCHANGED <<gui, gen>>
    BY <1>4 DEF Finish
  <2> HIDE DEF p
  <2> QED
    BY <2>1, <2>2, SaysHistory
<1> QED
  BY <1>1, <1>2, <1>3, <1>4 DEF ReadCommand

(* Every step keeps the history of one run.                                *)
LEMMA NextHistory == LinesInv /\ StoreInv /\ HistoryInv /\ [Next]_vars => HistoryInv'
<1> SUFFICES ASSUME LinesInv, StoreInv, HistoryInv, [Next]_vars PROVE HistoryInv'
  OBVIOUS
<1>1. CASE UNCHANGED vars
  <2>1. Unread' = Unread /\ UNCHANGED <<gen, c, store>>
    BY <1>1 DEF Unread, vars, gui, program
  <2> QED
    BY <2>1, HistoryKept
<1> QED
  BY <1>1, UserHistory, GatewayHistory, PollHistory, ProgramHistory DEF Next, Quiet

(* Histories begin empty.                                                  *)
LEMMA InitHistory == Init => HistoryInv
<1> SUFFICES ASSUME Init PROVE HistoryInv
  OBVIOUS
<1>1. Unread = <<>>
  BY ClientAssumption DEF Init, Unread, Gens
<1>2. InOrder(Unread)
  BY <1>1 DEF InOrder, Rising
<1>3. \A a \in Algorithms : OneRun(store[a].history, a)
  <2>1. \A a : <<>> \in Seq(Numbered(a)) /\ Len(<<>>) = 0
    BY EmptySeq
  <2>2. \A a : OneRun(<<>>, a)
    BY <2>1, ClientAssumption DEF OneRun
  <2>3. \A a \in Algorithms : store[a].history = <<>>
    BY DEF Init, NoProcesses
  <2> QED
    BY <2>2, <2>3
<1> QED
  BY <1>2, <1>3, ClientAssumption DEF HistoryInv, Init

(* The memory history of a window, from which its averages and peaks are   *)
(* computed, is of one run of its own algorithm, in order and within its   *)
(* limit (HistoryIsOfOneRun), whatever processes came before, however the  *)
(* snapshots are spread over polls and whatever the readers bring late.    *)
THEOREM HistoriesAreOfOneRun == Spec => []HistoryIsOfOneRun
<1>1. HistoryInv => HistoryIsOfOneRun
  <2> SUFFICES ASSUME HistoryInv, NEW a \in Algorithms
               PROVE  LET h == store[a].history
                      IN  /\ Len(h) =< MEMORY_HISTORY_LIMIT
                          /\ \A j \in DOMAIN h :
                                /\ h[j].alg = a
                                /\ \A i \in 1 .. j - 1 :
                                      /\ h[i].sequence < h[j].sequence
                                      /\ h[i].gen = h[j].gen \/ h[i].sequence = 1
    BY DEF HistoryIsOfOneRun
  <2> DEFINE h == store[a].history
  <2>1. OneRun(h, a)
    BY DEF HistoryInv
  <2> HIDE DEF h
  <2>2. DOMAIN h = 1 .. Len(h) /\ \A j \in 1 .. Len(h) : h[j] \in Numbered(a)
    BY <2>1, LenProperties, ElementOfSeq DEF OneRun
  <2>3. /\ Len(h) =< MEMORY_HISTORY_LIMIT
        /\ \A j \in DOMAIN h :
              /\ h[j].alg = a
              /\ \A i \in 1 .. j - 1 :
                    /\ h[i].sequence < h[j].sequence
                    /\ h[i].gen = h[j].gen \/ h[i].sequence = 1
    BY <2>1, <2>2 DEF OneRun, Numbered
  <2> QED
    BY <2>3 DEF h
<1>2. Init => StoreInv
  BY NoProcessesFresh DEF Init, StoreInv
<1> QED
  BY <1>1, <1>2, InitLines, NextLines, NextStore, InitHistory, NextHistory, PTL DEF Spec

-----------------------------------------------------------------------------
(* The end of a simulation.                                                *)

ShowsRun == ui.header = "C EJECUTANDO"
ShowsEnd == ui.header = "FINALIZADO"

(* Where a handler is, and what the gateway holds of the process.          *)
HandlerInv ==
    /\ task.step = "wait" => Stops
    /\ Stops /\ task.step \in {"poll", "check"} => ~Running
    /\ task.step = "send" /\ task.starts => task.name \in {"open", "add", "random", "start"}
    /\ handle => c.sequence >= 1
    /\ handle /\ c.state = "STOP" => c.sequence > 1
    /\ handle /\ ~c.alive => c.state = "STOP"

(* What the header can say of the process.                                 *)
Headers == {"INACTIVO", "SIN PROCESOS", "CARGADO", "CARGANDO", "C EJECUTANDO", "PAUSA",
            "DETENIDO", "FINALIZADO", "ERROR"}

Flags(u) == u \in [timer : BOOLEAN, header : Headers, controls : BOOLEAN,
                   paused : BOOLEAN, started : BOOLEAN]

HeaderInv ==
    /\ Flags(ui)
    /\ window = NONE \/ task.name = "open" => ui.header = "INACTIVO"
    /\ ShowsRun => handle \/ Stops
    /\ ShowsEnd => handle /\ ~c.alive /\ ~ui.controls /\ ~Stops

(* A handler starts from the decision of the user.                         *)
LEMMA UserTask ==
    ASSUME User
    PROVE  /\ task = Ready /\ UNCHANGED <<handle, c>>
           /\ \/ task' = Ready
              \/ /\ task'.step = "send"
                 /\ task'.starts => task'.name \in {"open", "add", "random", "start"}
<1>1. task = Ready /\ UNCHANGED <<handle, c>>
  BY DEF User, Open, GoBack, AddProcess, AddRandom, StartSimulation, PauseSimulation,
         StopButton, ClearProcesses, ChangeSettings, SendLogCommand, InWindow, Click,
         program
<1>2. CASE task' = task
  BY <1>1, <1>2
<1>3. ASSUME NEW name, NEW lines, Write(name, lines)
      PROVE  task'.step = "send" /\ ~task'.starts
  BY <1>3 DEF Write
<1>4. ASSUME NEW name \in {"open", "add", "random", "start"}, NEW lines,
             StartAndWrite(name, lines)
      PROVE  task'.step = "send" /\ task'.name \in {"open", "add", "random", "start"}
  BY <1>4 DEF StartAndWrite
<1>5. \/ task' = task
      \/ \E name, lines : Write(name, lines)
      \/ \E name \in {"open", "add", "random", "start"} : \E lines : StartAndWrite(name, lines)
  BY DEF User, Open, GoBack, AddProcess, AddRandom, StartSimulation, PauseSimulation,
         StopButton, ClearProcesses, ChangeSettings, SendLogCommand
<1> QED
  BY <1>1, <1>2, <1>3, <1>4, <1>5

(* A click begins a handler at its first command.                          *)
LEMMA UserHandler == HandlerInv /\ User => HandlerInv'
<1> SUFFICES ASSUME HandlerInv, User PROVE HandlerInv'
  OBVIOUS
<1>1. task = Ready /\ UNCHANGED <<handle, c>>
  BY UserTask
<1>2. CASE task' = Ready
  BY <1>1, <1>2 DEF HandlerInv, Stops, Ready
<1>3. CASE /\ task'.step = "send"
           /\ task'.starts => task'.name \in {"open", "add", "random", "start"}
  BY <1>1, <1>3 DEF HandlerInv
<1> QED
  BY <1>2, <1>3, UserTask

(* The steps of the gateway end in waiting, polling or at rest.            *)
LEMMA GatewayHandler == LinesInv /\ HandlerInv /\ Gateway => HandlerInv'
<1> SUFFICES ASSUME LinesInv, HandlerInv, Gateway PROVE HandlerInv'
  OBVIOUS
<1>1. Record(task)
  BY DEF LinesInv, WindowDrives
<1>2. CASE SendLines
  <2>1. /\ UNCHANGED <<handle, c>>
        /\ \/ Stops /\ task' = [task EXCEPT !.step = "wait"]
           \/ ~Stops /\ task' = [task EXCEPT !.step = "poll"]
           \/ task' = Ready
    BY <1>2 DEF SendLines, Accepted, Step, Stops
  <2> QED
    BY <1>1, <2>1 DEF HandlerInv, Stops, Ready, Record
<1>3. CASE BrokenPipe
  <2>1. /\ handle' = handle /\ c' = [c EXCEPT !.alive = FALSE] /\ c.state = "STOP"
        /\ task' = [task EXCEPT !.step = "poll"] \/ task' = Ready
    BY <1>3 DEF BrokenPipe, Rejected, Step
  <2>2. ~c'.alive /\ c'.state = c.state /\ c'.sequence = c.sequence
    BY <2>1 DEF LinesInv, ProcessType
  <2> QED
    BY <1>1, <2>1, <2>2 DEF HandlerInv, Stops, Ready, Record, Running
<1>4. CASE NotRunning
  <2>1. /\ UNCHANGED <<handle, c>> /\ ~Running
        /\ task' = [task EXCEPT !.step = "poll"] \/ task' = Ready
    BY <1>4 DEF NotRunning, Rejected, Step, program
  <2> QED
    BY <1>1, <2>1 DEF HandlerInv, Stops, Ready, Record, Running
<1>5. CASE StartProcess
  <2>1. c'.state = "PAUSE" /\ c'.sequence = 1 /\ c'.alive
    BY <1>5 DEF StartProcess
  <2>2. ~Stops /\ task.name # "typed"
    BY <1>5 DEF StartProcess, Sending, HandlerInv, Stops
  <2>3. task' = Ready
    BY <1>5, <2>2 DEF StartProcess, Accepted, Step
  <2> QED
    BY <2>1, <2>3 DEF HandlerInv, Stops, Ready
<1>6. CASE WaitForExit
  <2>1. handle' = FALSE /\ task' = [task EXCEPT !.step = "poll"]
    BY <1>6 DEF WaitForExit, Step
  <2> QED
    BY <1>1, <2>1 DEF HandlerInv, Stops, Record, Running
<1> QED
  BY <1>2, <1>3, <1>4, <1>5, <1>6 DEF Gateway

(* A poll leaves the handler at a step the invariant knows.                *)
LEMMA PollHandler == LinesInv /\ HandlerInv /\ Poll => HandlerInv'
<1> SUFFICES ASSUME LinesInv, HandlerInv, Poll PROVE HandlerInv'
  OBVIOUS
<1>1. Record(task) /\ UNCHANGED <<handle, c>>
  BY DEF LinesInv, WindowDrives, Poll, PollRead, PollCheck, StopDone
<1>2. \/ task' = Ready
      \/ task' = [Ready EXCEPT !.name = "poll", !.step = "check"]
      \/ task.step = "poll" /\ task' = [task EXCEPT !.step = "check"]
  BY DEF Poll, PollRead, PollCheck, StopDone, Step
<1>3. Running' = Running
  BY <1>1 DEF Running
<1>4. CASE task' = [Ready EXCEPT !.name = "poll", !.step = "check"]
  <2>1. task'.name = "poll" /\ task'.step = "check"
    BY <1>4 DEF Ready
  <2> QED
    BY <1>1, <2>1 DEF HandlerInv, Stops
<1>5. CASE task' = Ready
  BY <1>1, <1>5 DEF HandlerInv, Stops, Ready
<1>6. CASE task.step = "poll" /\ task' = [task EXCEPT !.step = "check"]
  <2>1. Stops' = Stops /\ task'.step = "check"
    BY <1>1, <1>6 DEF Stops, Record
  <2> QED
    BY <1>1, <1>3, <1>6, <2>1 DEF HandlerInv
<1> QED
  BY <1>2, <1>4, <1>5, <1>6

(* The C process answers only while it runs, and exits when it stopped.    *)
LEMMA ProgramHandler ==
    LinesInv /\ HandlerInv /\ (ReadCommand \/ Finish \/ Exit \/ Reader) => HandlerInv'
<1> SUFFICES ASSUME LinesInv, HandlerInv, ReadCommand \/ Finish \/ Exit \/ Reader
             PROVE  HandlerInv'
  OBVIOUS
<1>1. UNCHANGED <<task, handle>>
  BY DEF ReadCommand, Finish, Exit, Reader, ReadLine, gui
<1>2. CASE c' = c
  BY <1>1, <1>2 DEF HandlerInv, Stops, Running
<1>3. CASE c.alive /\ c'.alive /\ c'.sequence = c.sequence + 1
  <2>1. c.sequence \in Nat
    BY DEF LinesInv, ProcessType
  <2> QED
    BY <1>1, <1>3, <2>1 DEF HandlerInv, Stops, Running
<1>4. CASE Exit
  <2>1. ~c'.alive /\ c'.state = "STOP" /\ c.state = "STOP" /\ c'.sequence = c.sequence
    BY <1>4 DEF Exit, LinesInv, ProcessType
  <2> QED
    BY <1>1, <2>1 DEF HandlerInv, Stops, Running
<1>5. CASE ReadCommand /\ Says(Obeyed(Head(inp)))
  <2>1. c'.alive = c.alive /\ c'.sequence = c.sequence + 1 /\ c.alive
    BY <1>5 DEF ReadCommand, Says, Obeyed, LinesInv, ProcessType
  <2> QED
    BY <1>3, <2>1
<1>6. CASE Finish
  <2>1. c'.alive = c.alive /\ c'.sequence = c.sequence + 1 /\ c.alive
    BY <1>6 DEF Finish, Says, LinesInv, ProcessType
  <2> QED
    BY <1>3, <2>1
<1>7. Reader => c' = c
  BY DEF Reader, ReadLine
<1> QED
  BY <1>2, <1>4, <1>5, <1>6, <1>7 DEF ReadCommand

(* Every step does.                                                        *)
LEMMA NextHandler == LinesInv /\ HandlerInv /\ [Next]_vars => HandlerInv'
<1>1. HandlerInv /\ UNCHANGED vars => HandlerInv'
  BY DEF vars, gui, program, HandlerInv, Stops, Running
<1> QED
  BY <1>1, UserHandler, GatewayHandler, PollHandler, ProgramHandler DEF Next, Quiet

(* Sending never shows the end, and only some handlers leave it shown.     *)
LEMMA SentHeader ==
    ASSUME Flags(ui)
    PROVE  /\ Flags(SentShown) /\ Flags(RefusedShown)
           /\ SentShown.header = "FINALIZADO" => ShowsEnd
           /\ task.name \in {"add", "random", "start"} => SentShown.header # "FINALIZADO"
           /\ task.name = "open" => SentShown.header = ui.header
           /\ RefusedShown = ui \/ (Flags(RefusedShown) /\ RefusedShown.header = "ERROR")
           /\ Stops => SentShown = ui /\ RefusedShown = ui
<1>1. ASSUME NEW header \in Headers
      PROVE  Flags(Loading(header)) /\ Loading(header).header = header
  BY DEF Loading, Flags, Headers
<1>2. Flags(RunShown) /\ RunShown.header = "C EJECUTANDO"
  BY DEF RunShown, Flags, Headers
<1>3. Flags(StopShown) /\ StopShown.header = "DETENIDO"
  BY DEF StopShown, Flags, Headers
<1>4. ASSUME NEW line
      PROVE  /\ Flags(TypedShown(line))
             /\ TypedShown(line).header = "FINALIZADO" => ShowsEnd
  <2>1. CASE line \in {"RUN", "run"}
    <3>1. TypedShown(line) = RunShown
      BY <2>1 DEF TypedShown
    <3> QED
      BY <1>2, <3>1
  <2>2. CASE line = "PAUSE"
    <3>1. TypedShown(line) = [ui EXCEPT !.paused = TRUE, !.timer = TRUE, !.header = "PAUSA"]
      BY <2>2 DEF TypedShown
    <3> QED
      BY <3>1 DEF Flags, Headers
  <2>3. CASE line = "STOP"
    <3>1. TypedShown(line) = [StopShown EXCEPT !.timer = TRUE]
      BY <2>3 DEF TypedShown
    <3> QED
      BY <1>3, <3>1 DEF Flags, Headers
  <2>4. CASE line \notin {"RUN", "run", "PAUSE", "STOP"}
    <3>1. TypedShown(line) = Loading(IF ui.started THEN ui.header ELSE "CARGANDO")
      BY <2>4 DEF TypedShown
    <3> QED
      BY <1>1, <3>1 DEF ShowsEnd, Flags, Headers
  <2> QED
    BY <2>1, <2>2, <2>3, <2>4
<1>5. Flags(RefusedShown) /\ (RefusedShown = ui \/ RefusedShown.header = "ERROR")
      /\ (Stops => RefusedShown = ui)
  BY DEF RefusedShown, Flags, Headers
<1>6. /\ Flags(SentShown) /\ (SentShown.header = "FINALIZADO" => ShowsEnd)
      /\ task.name \in {"add", "random", "start"} => SentShown.header # "FINALIZADO"
      /\ task.name = "open" => SentShown.header = ui.header
      /\ Stops => SentShown = ui
  <2>1. CASE task.name = "open"
    <3>1. SentShown = [ui EXCEPT !.timer = TRUE]
      BY <2>1 DEF SentShown
    <3> QED
      BY <2>1, <3>1 DEF Flags, Headers, Stops, ShowsEnd
  <2>2. CASE task.name \in {"add", "random", "start"}
    <3>1. \/ SentShown = RunShown
          \/ \E header \in {"CARGADO", "PAUSA", "C EJECUTANDO", "CARGANDO"} :
                SentShown = Loading(header)
      BY <2>2 DEF SentShown
    <3> QED
      BY <1>1, <1>2, <2>2, <3>1 DEF Stops, Headers
  <2>3. CASE task.name \in {"pause", "continue"}
    <3>1. \/ SentShown = [ui EXCEPT !.paused = TRUE, !.header = "PAUSA"]
          \/ SentShown = [ui EXCEPT !.paused = FALSE, !.header = "C EJECUTANDO"]
      BY <2>3 DEF SentShown
    <3> QED
      BY <2>3, <3>1 DEF Flags, Headers, Stops
  <2>4. CASE task.name = "typed"
    <3>1. SentShown = TypedShown(task.lines[1])
      BY <2>4 DEF SentShown
    <3> QED
      BY <1>4, <2>4, <3>1 DEF Stops
  <2>5. CASE task.name \notin {"open", "add", "random", "start", "pause", "continue", "typed"}
    <3>1. SentShown = ui
      BY <2>5 DEF SentShown
    <3> QED
      BY <2>5, <3>1 DEF ShowsEnd
  <2> QED
    BY <2>1, <2>2, <2>3, <2>4, <2>5
<1> QED
  BY <1>5, <1>6

(* After a click the header still fits the handler.                        *)
LEMMA UserHeader == LinesInv /\ HeaderInv /\ User => HeaderInv'
<1> SUFFICES ASSUME LinesInv, HeaderInv, User PROVE HeaderInv'
  OBVIOUS
<1>1. task = Ready /\ UNCHANGED <<handle, c>> /\ ~Stops
  BY UserTask DEF Stops, Ready
<1>2. Flags(NewWindow) /\ NewWindow.header = "INACTIVO"
  BY DEF NewWindow, Flags, Headers
<1>3. CASE ui' = NewWindow
  BY <1>2, <1>3 DEF HeaderInv, ShowsRun, ShowsEnd
<1>4. CASE InWindow /\ task' = Ready /\ \E header \in {"SIN PROCESOS", "INACTIVO"} :
              ui' = [ui EXCEPT !.header = header]
  <2>1. PICK header \in {"SIN PROCESOS", "INACTIVO"} : ui' = [ui EXCEPT !.header = header]
    BY <1>4
  <2>2. Flags(ui') /\ ui'.header = header
    BY <2>1 DEF HeaderInv, Flags, Headers
  <2>3. window' # NONE /\ task'.name # "open"
    BY <1>4 DEF InWindow, Ready
  <2> QED
    BY <2>2, <2>3 DEF HeaderInv, ShowsRun, ShowsEnd
<1>5. CASE /\ InWindow /\ ui' = ui /\ task'.name # "open"
           /\ task'.name \in {"stop", "clear"} => ui.controls \/ Running
  <2>1. ShowsEnd => task'.name \notin {"stop", "clear"}
    BY <1>5 DEF HeaderInv, Running
  <2>2. window' = window /\ window # NONE
    BY <1>5 DEF InWindow
  <2>3. ShowsEnd' = ShowsEnd /\ ShowsRun' = ShowsRun
    BY <1>5 DEF ShowsEnd, ShowsRun
  <2>4. ShowsEnd => ~Stops'
    BY <2>1 DEF Stops
  <2>5. ShowsRun => handle
    BY <1>1 DEF HeaderInv
  <2> QED
    BY <1>1, <1>5, <2>2, <2>3, <2>4, <2>5 DEF HeaderInv
<1>6. ASSUME InWindow, ui' = ui, UNCHANGED task PROVE HeaderInv'
  BY <1>1, <1>5, <1>6 DEF Ready
<1>7. CASE AddProcess \/ AddRandom \/ PauseSimulation \/ ChangeSettings \/ SendLogCommand
  <2>1. InWindow /\ ui' = ui /\ task'.name \in {"add", "random", "continue", "pause",
                                                "settings", "typed"}
    BY <1>7 DEF AddProcess, AddRandom, PauseSimulation, ChangeSettings, SendLogCommand,
                Write, StartAndWrite
  <2> QED
    BY <1>5, <2>1
<1>8. CASE StopButton
  BY <1>5, <1>8 DEF StopButton, Write
<1>9. CASE StartSimulation
  <2>1. CASE ui' = ui /\ \E lines : StartAndWrite("start", lines)
    <3>1. InWindow
      BY <1>9 DEF StartSimulation
    <3>2. PICK lines : StartAndWrite("start", lines)
      BY <2>1
    <3>3. task'.name = "start"
      BY <3>2 DEF StartAndWrite
    <3> QED
      BY <1>5, <2>1, <3>1, <3>3
  <2>2. CASE ui' = [ui EXCEPT !.header = "SIN PROCESOS"] /\ UNCHANGED task
    <3>1. InWindow /\ task' = Ready
      BY <1>1, <1>9, <2>2 DEF StartSimulation
    <3>2. \E header \in {"SIN PROCESOS", "INACTIVO"} : ui' = [ui EXCEPT !.header = header]
      BY <2>2
    <3> QED
      BY <1>4, <3>1, <3>2
  <2> QED
    BY <1>9, <2>1, <2>2 DEF StartSimulation
<1>10. CASE ClearProcesses
  <2>1. CASE Running /\ ui' = ui /\ Write("clear", <<"STOP">>)
    BY <1>5, <1>10, <2>1 DEF ClearProcesses, Write
  <2>2. CASE ui' = [ui EXCEPT !.header = "INACTIVO"] /\ UNCHANGED task
    BY <1>1, <1>4, <1>10, <2>2 DEF ClearProcesses
  <2> QED
    BY <1>10, <2>1, <2>2 DEF ClearProcesses
<1> QED
  BY <1>3, <1>7, <1>8, <1>9, <1>10 DEF User, Open, GoBack

(* The gateway never leaves a header that says what is not so.             *)
LEMMA GatewayHeader == LinesInv /\ HandlerInv /\ HeaderInv /\ Gateway => HeaderInv'
<1> SUFFICES ASSUME LinesInv, HandlerInv, HeaderInv, Gateway PROVE HeaderInv'
  OBVIOUS
<1>1. Record(task) /\ window # NONE
  BY DEF LinesInv, WindowDrives, Gateway, SendLines, BrokenPipe, NotRunning, StartProcess,
         WaitForExit, Sending
<1>2. window' = window /\ task'.name # "open"
  <2>1. CASE WaitForExit
    <3>1. task' = [task EXCEPT !.step = "poll"] /\ window' = window
      BY <2>1 DEF WaitForExit, Step
    <3>2. task.name # "open"
      BY <2>1 DEF WaitForExit, LinesInv, WindowDrives
    <3> QED
      BY <1>1, <3>1, <3>2 DEF Record
  <2> QED
    BY <2>1, SentTask DEF Gateway, SendLines, BrokenPipe, NotRunning, StartProcess
<1>3. /\ Flags(SentShown) /\ Flags(RefusedShown)
      /\ SentShown.header = "FINALIZADO" => ShowsEnd
      /\ task.name \in {"add", "random", "start"} => SentShown.header # "FINALIZADO"
      /\ task.name = "open" => SentShown.header = ui.header
      /\ RefusedShown = ui \/ (Flags(RefusedShown) /\ RefusedShown.header = "ERROR")
      /\ Stops => SentShown = ui /\ RefusedShown = ui
  BY SentHeader DEF HeaderInv
<1>4. CASE SendLines
  <2>1. handle /\ ~ShowsEnd /\ handle' = handle /\ ui' = SentShown
    BY <1>4 DEF SendLines, Accepted, Reaches, Running, HeaderInv
  <2> QED
    BY <1>1, <1>2, <1>3, <2>1 DEF HeaderInv, ShowsRun, ShowsEnd
<1>5. CASE BrokenPipe
  <2>1. handle /\ ~ShowsEnd /\ handle' = handle /\ ui' = RefusedShown
    BY <1>5 DEF BrokenPipe, Rejected, Reaches, Running, HeaderInv
  <2> QED
    BY <1>1, <1>2, <1>3, <2>1 DEF HeaderInv, ShowsRun, ShowsEnd
<1>6. CASE NotRunning
  <2>1. UNCHANGED <<handle, c>> /\ ui' = RefusedShown
    BY <1>6 DEF NotRunning, Rejected, program
  <2>2. CASE RefusedShown.header = "ERROR"
    BY <1>1, <1>2, <1>3, <2>1, <2>2 DEF HeaderInv, ShowsRun, ShowsEnd
  <2>3. CASE RefusedShown = ui
    <3>1. task' = Ready \/ task'.name = task.name
      BY <1>1, <1>6 DEF NotRunning, Rejected, Step, Record
    <3>2. Stops => task'.name = task.name
      BY <1>1, <1>6 DEF NotRunning, Rejected, Step, Record
    <3>3. Stops' = Stops
      BY <3>1, <3>2 DEF Stops, Ready
    <3> QED
      BY <1>1, <1>2, <2>1, <2>3, <3>3 DEF HeaderInv, ShowsRun, ShowsEnd
  <2> QED
    BY <1>3, <2>2, <2>3
<1>7. CASE StartProcess
  <2>1. handle' /\ ui' = SentShown /\ task.name \in {"open", "add", "random", "start"}
    BY <1>7 DEF StartProcess, Accepted, Sending, HandlerInv
  <2>2. ui'.header # "FINALIZADO"
    BY <1>3, <2>1 DEF HeaderInv
  <2> QED
    BY <1>1, <1>2, <1>3, <2>1, <2>2 DEF HeaderInv, ShowsRun, ShowsEnd
<1>8. CASE WaitForExit
  <2>1. ui' = ui /\ Stops /\ task' = [task EXCEPT !.step = "poll"]
    BY <1>8 DEF WaitForExit, Step, HandlerInv
  <2>2. Stops'
    BY <1>1, <2>1 DEF Stops, Record
  <2> QED
    BY <1>1, <1>2, <2>1, <2>2 DEF HeaderInv, ShowsRun, ShowsEnd
<1> QED
  BY <1>4, <1>5, <1>6, <1>7, <1>8 DEF Gateway

(* A poll shows the end only where a run was shown, and the process ended. *)
LEMMA PollHeader == LinesInv /\ HeaderInv /\ Poll => HeaderInv'
<1> SUFFICES ASSUME LinesInv, HeaderInv, Poll PROVE HeaderInv'
  OBVIOUS
<1>1. /\ Record(task) /\ window # NONE /\ window' = window /\ UNCHANGED <<handle, c>>
      /\ task.name # "open"
  BY DEF LinesInv, WindowDrives, Poll, PollRead, PollCheck, StopDone, Ready
<1>2. ASSUME NEW events
      PROVE  /\ Flags(Loaded(events)) /\ Loaded(events).controls = ui.controls
             /\ Loaded(events).header \in {ui.header, "CARGADO"}
  BY DEF Loaded, HeaderInv, Flags, Headers
<1>3. CASE PollRead
  <2>1. PICK k : ui' = Loaded(Drained(k))
    BY <1>3 DEF PollRead
  <2>2. Flags(ui') /\ ui'.controls = ui.controls /\ ui'.header \in {ui.header, "CARGADO"}
    BY <1>2, <2>1
  <2>3. task'.name # "open" /\ Stops' = Stops
    <3>1. CASE task = Ready /\ task' = [Ready EXCEPT !.name = "poll", !.step = "check"]
      <4>1. task'.name = "poll" /\ task.name = "none"
        BY <3>1 DEF Ready
      <4> QED
        BY <4>1 DEF Stops
    <3>2. CASE task' = [task EXCEPT !.step = "check"]
      BY <1>1, <3>2 DEF Stops, Record
    <3> QED
      BY <1>3, <3>1, <3>2 DEF PollRead, Step
  <2> QED
    BY <1>1, <2>2, <2>3 DEF HeaderInv, ShowsRun, ShowsEnd
<1>4. CASE PollCheck
  <2>1. ~Stops /\ ~Stops' /\ task'.name # "open"
    BY <1>4 DEF PollCheck, Step, Stops, Ready
  <2>2. CASE ui' = ui
    BY <1>1, <2>1, <2>2 DEF HeaderInv, ShowsRun, ShowsEnd
  <2>3. CASE ~Running /\ \E k : ui' = EndSeen(Loaded(FinalEvents(k)), FinalEvents(k))
    <3>1. PICK k : ui' = EndSeen(Loaded(FinalEvents(k)), FinalEvents(k))
      BY <2>3
    <3> DEFINE u == Loaded(FinalEvents(k))
    <3>2. Flags(u) /\ u.controls = ui.controls /\ u.header \in {ui.header, "CARGADO"}
      BY <1>2
    <3> HIDE DEF u
    <3>3. CASE u.header = "C EJECUTANDO"
      <4>1. ui' = [u EXCEPT !.timer = FALSE, !.started = FALSE, !.controls = FALSE,
                            !.header = "FINALIZADO"]
        BY <3>1, <3>3 DEF EndSeen, u
      <4>2. Flags(ui') /\ ~ui'.controls /\ ui'.header = "FINALIZADO"
        BY <3>2, <4>1 DEF Flags, Headers
      <4>3. handle /\ ~c.alive
        BY <2>1, <2>3, <3>2, <3>3 DEF HeaderInv, ShowsRun, Running
      <4> QED
        BY <1>1, <2>1, <4>2, <4>3 DEF HeaderInv, ShowsRun, ShowsEnd
    <3>4. CASE u.header # "C EJECUTANDO"
      <4>1. ui' = [u EXCEPT !.timer = FALSE, !.started = FALSE]
        BY <3>1, <3>4 DEF EndSeen, u
      <4>2. Flags(ui') /\ ui'.controls = ui.controls /\ ui'.header = u.header
        BY <3>2, <4>1 DEF Flags
      <4> QED
        BY <1>1, <2>1, <3>2, <3>4, <4>2 DEF HeaderInv, ShowsRun, ShowsEnd
    <3> QED
      BY <3>3, <3>4
  <2> QED
    BY <1>4, <2>2, <2>3 DEF PollCheck
<1>5. CASE StopDone
  <2>1. task' = Ready
    BY <1>5 DEF StopDone, Step
  <2>2. Flags(StopShown) /\ StopShown.header = "DETENIDO"
    BY DEF StopShown, HeaderInv, Flags, Headers
  <2>3. PICK header \in {"INACTIVO", "DETENIDO"} :
               ui' = [StopShown EXCEPT !.timer = FALSE, !.header = header]
    <3>1. ui' = [StopShown EXCEPT !.timer = FALSE,
                    !.header = IF task.name = "clear" THEN "INACTIVO" ELSE @]
      BY <1>5 DEF StopDone
    <3> QED
      BY <2>2, <3>1 DEF Flags
  <2>4. Flags(ui') /\ ui'.header = header
    BY <2>2, <2>3 DEF Flags, Headers
  <2> QED
    BY <1>1, <2>1, <2>4 DEF HeaderInv, ShowsRun, ShowsEnd, Ready
<1> QED
  BY <1>3, <1>4, <1>5 DEF Poll

(* Every step keeps the header to what is so.                              *)
LEMMA NextHeader == LinesInv /\ HandlerInv /\ HeaderInv /\ [Next]_vars => HeaderInv'
<1> SUFFICES ASSUME LinesInv, HandlerInv, HeaderInv, [Next]_vars PROVE HeaderInv'
  OBVIOUS
<1>1. CASE UNCHANGED <<window, ui, handle, task>> /\ (c'.alive => c.alive)
  BY <1>1 DEF HeaderInv, ShowsRun, ShowsEnd, Stops
<1>2. CASE Reader \/ Exit \/ UNCHANGED vars
  BY <1>1, <1>2 DEF Reader, ReadLine, Exit, vars, gui, program
<1>3. CASE ReadCommand \/ Finish
  BY <1>1, <1>3 DEF ReadCommand, Finish, gui
<1> QED
  BY <1>2, <1>3, UserHeader, GatewayHeader, PollHeader DEF Next, Quiet

-----------------------------------------------------------------------------
(* What a window that shows a run, or its end, knows of the process.       *)

StartsWith(list, n) == n =< Len(list) /\ \A i \in 1 .. n : list[i] = i

Complete(r) ==
    /\ StartsWith(r.list, c.count)
    /\ r.history # <<>>
    /\ Last(r.history).state = c.state \/ c.sequence = 1

Showing == Running \/ ShowsRun \/ ShowsEnd

(* Once all is read, the window has every process there is, and its last   *)
(* sample shows how the C process is (the first of a run may be skipped).  *)
CompleteInv == Showing /\ Unread = <<>> => Complete(store[c.alg])

(* A window that shows something shows a known algorithm.                  *)
LEMMA ShowingAlgorithm == LinesInv /\ HeaderInv /\ Showing => c.alg \in Algorithms
<1> SUFFICES ASSUME LinesInv, HeaderInv, Showing PROVE c.alg \in Algorithms
  OBVIOUS
<1>1. CASE Running
  BY <1>1 DEF Running, LinesInv, ProcessType
<1>2. CASE ShowsRun \/ ShowsEnd
  <2>1. window # NONE /\ task.name # "open"
    BY <1>2 DEF HeaderInv, ShowsRun, ShowsEnd
  <2> QED
    BY <2>1 DEF LinesInv, WindowDrives
<1> QED
  BY <1>1, <1>2 DEF Showing

(* Nothing said or read, nothing newly shown.                              *)
LEMMA CompleteKept ==
    ASSUME CompleteInv, Showing' => Showing, Unread' = Unread, c'.alg = c.alg,
           c'.count = c.count, c'.state = c.state, c'.sequence = c.sequence,
           store'[c.alg] = store[c.alg]
    PROVE  CompleteInv'
  BY DEF CompleteInv, Complete

(* An addition keeps the processes that were shown.                        *)
LEMMA UserComplete == LinesInv /\ StoreInv /\ HeaderInv /\ CompleteInv /\ User => CompleteInv'
<1> SUFFICES ASSUME LinesInv, StoreInv, HeaderInv, CompleteInv, User PROVE CompleteInv'
  OBVIOUS
<1>1. UNCHANGED <<queue, gen, c, out, handle>>
  BY DEF User, Open, GoBack, AddProcess, AddRandom, StartSimulation, PauseSimulation,
         StopButton, ClearProcesses, ChangeSettings, SendLogCommand, InWindow, program
<1>2. Unread' = Unread /\ Running' = Running
  BY <1>1 DEF Unread, Running
<1>3. ui' = ui \/ \E header \in {"SIN PROCESOS", "INACTIVO"} : ui'.header = header
  <2>1. \A header \in Headers : [ui EXCEPT !.header = header].header = header
    BY DEF HeaderInv, Flags
  <2>2. NewWindow.header = "INACTIVO"
    BY DEF NewWindow
  <2> QED
    BY <2>1, <2>2
       DEF User, Open, GoBack, AddProcess, AddRandom, StartSimulation, PauseSimulation,
           StopButton, ClearProcesses, ChangeSettings, SendLogCommand, Headers
<1>4. Showing' => Showing
  BY <1>2, <1>3 DEF Showing, ShowsRun, ShowsEnd
<1>5. CASE store' = store
  BY <1>1, <1>2, <1>4, <1>5, CompleteKept
<1>6. CASE AddProcess
  <2> DEFINE old == store[c.alg]
             new == store'[c.alg]
  <2> SUFFICES ASSUME Showing', Unread' = <<>> PROVE Complete(store[c.alg])'
    BY <1>1 DEF CompleteInv
  <2>1. Complete(old) /\ c.alg \in Algorithms
    BY <1>2, <1>4, ShowingAlgorithm DEF CompleteInv
  <2>2. Fresh(old)
    BY <2>1 DEF StoreInv
  <2>3. new.history = old.history /\ (new.list = old.list
                                      \/ new.list = Append(old.list, old.next_pid))
    BY <1>6, <2>1 DEF AddProcess, StoreInv
  <2> HIDE DEF old, new
  <2>4. StartsWith(new.list, c.count)
    <3>1. old.list \in Seq(Nat) /\ old.next_pid \in Nat /\ c.count \in Nat
      BY <2>2 DEF Fresh, LinesInv, ProcessType
    <3>2. /\ Len(old.list) \in Nat
          /\ Len(Append(old.list, old.next_pid)) = Len(old.list) + 1
          /\ \A i \in 1 .. Len(old.list) : Append(old.list, old.next_pid)[i] = old.list[i]
      BY <3>1, AppendProperties, LenProperties
    <3>3. CASE new.list = old.list
      BY <2>1, <3>3 DEF Complete, StartsWith
    <3>4. CASE new.list = Append(old.list, old.next_pid)
      <4> DEFINE l == old.list
                 m == new.list
      <4>1. /\ c.count =< Len(l) /\ \A i \in 1 .. c.count : l[i] = i
            /\ Len(m) = Len(l) + 1 /\ \A i \in 1 .. Len(l) : m[i] = l[i]
            /\ Len(l) \in Nat
        BY <2>1, <3>2, <3>4 DEF Complete, StartsWith
      <4> HIDE DEF l, m
      <4>2. c.count =< Len(m) /\ \A i \in 1 .. c.count : m[i] = i
        BY <3>1, <4>1
      <4> QED
        BY <4>2 DEF StartsWith, m
    <3> QED
      BY <2>3, <3>3, <3>4
  <2>5. Complete(new)
    BY <2>1, <2>3, <2>4 DEF Complete
  <2> QED
    BY <1>1, <2>5 DEF Complete, new
<1>7. CASE AddRandom
  <2> DEFINE old == store[c.alg]
             new == store'[c.alg]
  <2> SUFFICES ASSUME Showing', Unread' = <<>> PROVE Complete(store[c.alg])'
    BY <1>1 DEF CompleteInv
  <2>1. Complete(old) /\ c.alg \in Algorithms
    BY <1>2, <1>4, ShowingAlgorithm DEF CompleteInv
  <2>2. PICK n : store' = [store EXCEPT ![window].random = n]
    BY <1>7 DEF AddRandom
  <2>3. new.history = old.history /\ new.list = old.list
    BY <2>1, <2>2 DEF StoreInv, Sheet
  <2> HIDE DEF old, new
  <2>4. Complete(new)
    BY <2>1, <2>3 DEF Complete
  <2> QED
    BY <1>1, <2>4 DEF Complete, new
<1>8. CASE ClearProcesses /\ store' # store
  <2>1. ~Running /\ ui' = [ui EXCEPT !.header = "INACTIVO"]
    BY <1>8 DEF ClearProcesses
  <2>2. ui'.header = "INACTIVO"
    BY <2>1 DEF HeaderInv, Flags
  <2> QED
    BY <1>2, <2>1, <2>2 DEF CompleteInv, Showing, ShowsRun, ShowsEnd
<1> QED
  BY <1>5, <1>6, <1>7, <1>8
     DEF User, Open, GoBack, StartSimulation, PauseSimulation, StopButton, ChangeSettings,
         SendLogCommand

(* Only a running process is written to; a new one has all to say.         *)
LEMMA GatewayComplete ==
    LinesInv /\ HandlerInv /\ HeaderInv /\ CompleteInv /\ Gateway => CompleteInv'
<1> SUFFICES ASSUME LinesInv, HandlerInv, HeaderInv, CompleteInv, Gateway
             PROVE  CompleteInv'
  OBVIOUS
<1>1. CASE StartProcess
  <2>1. /\ gen' = gen + 1 /\ gen + 1 \in Gens /\ queue' = <<>>
        /\ out'[gen + 1] = <<Shows(gen + 1, c')>>
    BY <1>1, ClientAssumption
       DEF StartProcess, Sending, LinesInv, Counting, LinesInOrder, Gens
  <2>2. Unread' = <<Shows(gen + 1, c')>>
    BY <2>1 DEF Unread
  <2>3. Unread' # <<>>
    BY <2>2
  <2> QED
    BY <2>3 DEF CompleteInv
<1>2. CASE SendLines \/ BrokenPipe \/ NotRunning
  <2>1. UNCHANGED <<queue, gen, out, store>>
    BY <1>2 DEF SendLines, BrokenPipe, NotRunning, Sending, program
  <2>2. /\ c'.alg = c.alg /\ c'.sequence = c.sequence /\ c'.count = c.count
        /\ c'.state = c.state
    BY <1>2 DEF SendLines, BrokenPipe, NotRunning, program, LinesInv, ProcessType
  <2>3. Unread' = Unread
    BY <2>1 DEF Unread
  <2>4. Running \/ (NotRunning /\ (Showing' => Showing))
    <3>1. CASE NotRunning
      <4>1. ui' = RefusedShown /\ UNCHANGED <<handle, c>>
        BY <3>1 DEF NotRunning, Rejected, program
      <4>2. RefusedShown = ui \/ RefusedShown.header = "ERROR"
        BY DEF RefusedShown, HeaderInv, Flags
      <4> QED
        BY <3>1, <4>1, <4>2 DEF Showing, ShowsRun, ShowsEnd, Running
    <3>2. CASE SendLines \/ BrokenPipe
      BY <3>2 DEF SendLines, BrokenPipe, Reaches
    <3> QED
      BY <1>2, <3>1, <3>2
  <2>5. Showing' => Showing
    BY <2>4 DEF Showing
  <2> QED
    BY <2>1, <2>2, <2>3, <2>5, CompleteKept
<1>3. CASE WaitForExit
  <2>1. UNCHANGED <<gen, store, ui>> /\ ~Running'
    BY <1>3 DEF WaitForExit, Running
  <2>2. /\ c'.alg = c.alg /\ c'.sequence = c.sequence /\ c'.count = c.count
        /\ c'.state = c.state
    BY <1>3 DEF WaitForExit, LinesInv, ProcessType
  <2>3. Showing' => Showing
    BY <2>1 DEF Showing, ShowsRun, ShowsEnd
  <2> QED
    BY <1>3, <2>1, <2>2, <2>3, WaitForExitUnread, CompleteKept
<1> QED
  BY <1>1, <1>2, <1>3 DEF Gateway

(* A poll shows a run or its end only where it was shown, and reads the    *)
(* store of its window.                                                    *)
LEMMA PollShows ==
    ASSUME LinesInv, HandlerInv, HeaderInv, Poll, Showing'
    PROVE  /\ Showing
           /\ \/ UNCHANGED <<queue, out, store>>
              \/ \E k \in 0 .. Len(out[gen]) :
                    /\ queue' = <<>> /\ out' = Left(k)
                    /\ store' = Reduced(window, Drained(k))
<1>1. Running' = Running
  BY DEF Running, Poll, PollRead, PollCheck, StopDone
<1>2. ASSUME NEW events
      PROVE  /\ Flags(Loaded(events)) /\ Loaded(events).header \in {ui.header, "CARGADO"}
  BY DEF Loaded, HeaderInv, Flags, Headers
<1>3. CASE PollRead
  <2>1. PICK k \in Readable : ui' = Loaded(Drained(k)) /\ queue' = <<>> /\ out' = Left(k)
                              /\ store' = Reduced(window, Drained(k))
    BY <1>3 DEF PollRead
  <2>2. ui'.header \in {ui.header, "CARGADO"}
    BY <1>2, <2>1
  <2> QED
    BY <1>1, <2>1, <2>2, ReadableLines DEF Showing, ShowsRun, ShowsEnd
<1>4. CASE PollCheck /\ Running
  BY <1>4 DEF PollCheck, Showing
<1>5. CASE PollCheck /\ ~Running
  <2>1. PICK k \in Readable : /\ queue' = <<>> /\ out' = Left(k)
                              /\ ui' = EndSeen(Loaded(FinalEvents(k)), FinalEvents(k))
                              /\ store' = Reduced(window, Drained(k))
    BY <1>5 DEF PollCheck, FinalEvents
  <2> DEFINE u == Loaded(FinalEvents(k))
  <2>2. Flags(u) /\ u.header \in {ui.header, "CARGADO"}
    BY <1>2
  <2>3. /\ u.header = "C EJECUTANDO" => ui'.header = "FINALIZADO"
        /\ u.header # "C EJECUTANDO" => ui'.header = u.header
    <3>1. ui' = IF u.header = "C EJECUTANDO"
                THEN [u EXCEPT !.timer = FALSE, !.started = FALSE, !.controls = FALSE,
                               !.header = "FINALIZADO"]
                ELSE [u EXCEPT !.timer = FALSE, !.started = FALSE]
      BY <2>1 DEF EndSeen
    <3> HIDE DEF u
    <3> QED
      BY <2>2, <3>1 DEF Flags
  <2> HIDE DEF u
  <2>4. Showing
    BY <1>1, <1>5, <2>2, <2>3 DEF Showing, ShowsRun, ShowsEnd
  <2> QED
    BY <2>1, <2>4, ReadableLines
<1>6. CASE StopDone
  <2>1. ~Running
    BY <1>6 DEF StopDone, HandlerInv
  <2>2. ui'.header \in {"INACTIVO", "DETENIDO"}
    <3>1. Flags(StopShown) /\ StopShown.header = "DETENIDO"
      BY DEF StopShown, HeaderInv, Flags, Headers
    <3>2. ui' = [StopShown EXCEPT !.timer = FALSE,
                    !.header = IF task.name = "clear" THEN "INACTIVO" ELSE @]
      BY <1>6 DEF StopDone
    <3> QED
      BY <3>1, <3>2 DEF Flags
  <2> QED
    BY <1>1, <2>1, <2>2 DEF Showing, ShowsRun, ShowsEnd
<1> QED
  BY <1>3, <1>4, <1>5, <1>6 DEF Poll

(* The last snapshot that is read brings all there is.                     *)
LEMMA PollComplete ==
    LinesInv /\ StoreInv /\ HistoryInv /\ HandlerInv /\ HeaderInv /\ CompleteInv /\ Poll
        => CompleteInv'
<1> SUFFICES ASSUME LinesInv, StoreInv, HistoryInv, HandlerInv, HeaderInv, CompleteInv,
                    Poll, Showing', Unread' = <<>>
             PROVE  Complete(store[c.alg])'
  BY DEF CompleteInv
<1>1. window \in Algorithms /\ c.alg = window /\ UNCHANGED <<gen, c, window>>
  BY PollReads
<1>2. Showing
  BY PollShows
<1>3. CASE UNCHANGED <<queue, out, store>>
  <2>1. Unread = <<>>
    BY <1>1, <1>3 DEF Unread
  <2> QED
    BY <1>1, <1>2, <1>3, <2>1 DEF CompleteInv, Complete
<1>4. ASSUME NEW k \in 0 .. Len(out[gen]), queue' = <<>>, out' = Left(k),
             store' = Reduced(window, Drained(k))
      PROVE  Complete(store[c.alg])'
  <2> DEFINE events == Drained(k)
             rest == Left(k)[gen]
             old == store[window].history
             new == store'[window]
  <2>1. /\ Rising(events)
        /\ events # <<>> => events[1] = Unread[1] /\ Unread # <<>>
        /\ events = <<>> => rest = Unread
        /\ events # <<>> /\ rest = <<>> => Last(events) = Last(Unread)
    BY PartsInOrder DEF HistoryInv
  <2>2. events \in Seq(SaidBy(gen, window)) /\ rest \in Seq(SaidBy(gen, window))
    BY <1>1, ReadPart
  <2>3. rest = <<>>
    BY <1>1, <1>4, <2>2 DEF Unread
  <2>4. OneRun(old, window) /\ GoesOn(old, gen, NextNumber)
    BY <1>1 DEF HistoryInv
  <2>5. CASE events = <<>>
    <3>1. store' = store /\ Unread = <<>>
      BY <1>4, <2>1, <2>3, <2>5 DEF Reduced
    <3> QED
      BY <1>1, <1>2, <3>1 DEF CompleteInv, Complete
  <2>6. CASE events # <<>>
    <3>1. /\ new.list = Pids(Last(events).count)
          /\ new.history = Sampled(old, events)
      BY <1>1, <1>4, <2>6 DEF Reduced, StoreInv
    <3>2. /\ Unread # <<>> /\ Last(events).count = c.count /\ Last(events).state = c.state
          /\ Last(events).sequence = c.sequence
      BY <2>1, <2>3, <2>6 DEF HistoryInv, InOrder
    <3>3. NextNumber = events[1].sequence
      BY <2>1, <2>6 DEF NextNumber
    <3> HIDE DEF events, old, new, rest
    <3>4. /\ Sampled(old, events) # <<>>
          /\ Last(Sampled(old, events)) = Last(events) \/ Last(events).sequence = 1
      BY <2>1, <2>2, <2>4, <2>6, <3>3, SampledOneRun
    <3>5. StartsWith(new.list, c.count)
      <4>1. c.count \in Nat
        BY DEF LinesInv, ProcessType
      <4> QED
        BY <3>1, <3>2, <4>1 DEF StartsWith, Pids
    <3>6. Complete(new)
      BY <3>1, <3>2, <3>4, <3>5 DEF Complete
    <3> QED
      BY <1>1, <3>6 DEF Complete, new
  <2> QED
    BY <2>5, <2>6
<1> QED
  BY <1>3, <1>4, PollShows

(* What is unread is in the queue or in the output.                        *)
LEMMA UnreadLength ==
    LinesInv => Len(Unread) = Len(queue) + Len(out[gen]) /\ Len(queue) \in Nat
  BY UnreadLines

(* What the process says is there to be read.                              *)
LEMMA ProgramComplete ==
    LinesInv /\ LinesInv' /\ CompleteInv /\ (ReadCommand \/ Finish \/ Exit \/ Reader)
        => CompleteInv'
<1> SUFFICES ASSUME LinesInv, LinesInv', CompleteInv, ReadCommand \/ Finish \/ Exit \/ Reader
             PROVE  CompleteInv'
  OBVIOUS
<1>1. CASE Reader
  <2>1. PICK g \in Gens : ReadLine(g)
    BY <1>1 DEF Reader
  <2>2. Unread' = Unread /\ UNCHANGED <<gen, c, store, ui, handle>>
    BY <2>1, ReadLineUnread DEF ReadLine
  <2>3. Showing' = Showing
    BY <2>2 DEF Showing, Running, ShowsRun, ShowsEnd
  <2> QED
    BY <2>2, <2>3, CompleteKept
<1>2. CASE Exit \/ (ReadCommand /\ UNCHANGED <<c, out>>)
  <2>1. /\ UNCHANGED <<queue, gen, out, store, ui, handle>>
        /\ c'.alg = c.alg /\ c'.sequence = c.sequence /\ c'.count = c.count
        /\ c'.state = c.state /\ c.alive
    BY <1>2 DEF Exit, ReadCommand, gui, LinesInv, ProcessType
  <2>2. Unread' = Unread
    BY <2>1 DEF Unread
  <2>3. Showing' => Showing
    BY <2>1 DEF Showing, Running, ShowsRun, ShowsEnd
  <2> QED
    BY <2>1, <2>2, <2>3, CompleteKept
<1>3. ASSUME NEW p, Says(p), UNCHANGED <<gui, gen>>
      PROVE  Unread' # <<>>
  <2> DEFINE line == Shows(gen, c')
  <2>1. out[gen] \in Seq(SaidBy(gen, c.alg)) /\ gen \in Gens /\ Len(out[gen]) \in Nat
    BY UnreadLines
  <2>2. out'[gen] = Append(out[gen], line)
    BY <1>3, <2>1 DEF Says, LinesInv, LinesInOrder
  <2> HIDE DEF line
  <2>3. Len(out'[gen]) = Len(out[gen]) + 1
    BY <2>1, <2>2
  <2>4. (Len(Unread) = Len(queue) + Len(out[gen]) /\ Len(queue) \in Nat)'
    BY UnreadLength, PTL
  <2>5. Len(Unread') >= 1
    BY <1>3, <2>1, <2>3, <2>4
  <2> QED
    BY <2>5
<1>4. CASE (ReadCommand /\ Says(Obeyed(Head(inp)))) \/ Finish
  <2>1. Unread' # <<>>
    BY <1>3, <1>4 DEF ReadCommand, Finish
  <2> QED
    BY <2>1 DEF CompleteInv
<1> QED
  BY <1>1, <1>2, <1>4 DEF ReadCommand

(* Every step keeps what was said in the store or unread.                  *)
LEMMA NextComplete ==
    LinesInv /\ LinesInv' /\ StoreInv /\ HistoryInv /\ HandlerInv /\ HeaderInv /\ CompleteInv
        /\ [Next]_vars => CompleteInv'
<1> SUFFICES ASSUME LinesInv, LinesInv', StoreInv, HistoryInv, HandlerInv, HeaderInv,
                    CompleteInv, [Next]_vars
             PROVE  CompleteInv'
  OBVIOUS
<1>1. CASE UNCHANGED vars
  <2>1. Unread' = Unread /\ UNCHANGED <<gen, c, store, ui, handle>>
    BY <1>1 DEF Unread, vars, gui, program
  <2>2. Showing' = Showing
    BY <2>1 DEF Showing, Running, ShowsRun, ShowsEnd
  <2> QED
    BY <2>1, <2>2, CompleteKept
<1> QED
  BY <1>1, UserComplete, GatewayComplete, PollComplete, ProgramComplete DEF Next, Quiet

(* At the start nothing is shown.                                          *)
LEMMA InitEnd == Init => HandlerInv /\ HeaderInv /\ CompleteInv
<1> SUFFICES ASSUME Init PROVE HandlerInv /\ HeaderInv /\ CompleteInv
  OBVIOUS
<1>1. HandlerInv
  BY DEF Init, HandlerInv, Ready, Stops
<1>2. HeaderInv
  BY DEF Init, HeaderInv, NewWindow, Flags, Headers, ShowsRun, ShowsEnd
<1>3. CompleteInv
  BY DEF Init, CompleteInv, Showing, Running, ShowsRun, ShowsEnd, NewWindow
<1> QED
  BY <1>1, <1>2, <1>3

(* When the header says FINALIZADO and nothing is left to read, the table  *)
(* of the window misses no process of the C program and its last sample is *)
(* that of a simulation that has stopped (FinalIsComplete), wherever the   *)
(* exit of the process fell between the steps of the GUI.                  *)
THEOREM EndIsComplete == Spec => []FinalIsComplete
<1>1. LinesInv /\ HandlerInv /\ HeaderInv /\ CompleteInv => FinalIsComplete
  <2> SUFFICES ASSUME LinesInv, HandlerInv, HeaderInv, CompleteInv,
                      task = Ready, ShowsEnd, queue = <<>>, out[gen] = <<>>
               PROVE  /\ IsPrefix(Pids(c.count), store[window].list)
                      /\ store[window].history # <<>>
                      /\ Last(store[window].history).state = "STOP"
    BY DEF FinalIsComplete, ShowsEnd
  <2> DEFINE list == store[window].list
             n == c.count
  <2>1. window # NONE /\ task.name # "open" /\ handle /\ ~c.alive
    BY DEF HeaderInv, ShowsEnd
  <2>2. c.alg = window
    BY <2>1 DEF LinesInv, WindowDrives
  <2>3. Unread = <<>>
    BY DEF Unread
  <2>4. Complete(store[window])
    BY <2>2, <2>3 DEF CompleteInv, Showing
  <2>5. c.state = "STOP" /\ c.sequence > 1 /\ c.sequence \in Nat /\ n \in Nat
    BY <2>1 DEF HandlerInv, LinesInv, ProcessType
  <2>6. StartsWith(list, n)
    BY <2>4 DEF Complete
  <2> HIDE DEF list, n
  <2>7. IsPrefix(Pids(n), list)
    <3>1. Len(Pids(n)) = n
      BY <2>5 DEF Pids
    <3>2. SubSeq(Pids(n), 1, n) = SubSeq(list, 1, n)
      BY <2>5, <2>6 DEF StartsWith, Pids
    <3> QED
      BY <2>6, <3>1, <3>2 DEF IsPrefix, StartsWith
  <2> QED
    BY <2>4, <2>5, <2>7 DEF Complete, list, n
<1>2. Init => StoreInv
  BY NoProcessesFresh DEF Init, StoreInv
<1> QED
  BY <1>1, <1>2, InitLines, NextLines, NextStore, InitHistory, NextHistory, InitEnd,
     NextHandler, NextHeader, NextComplete, PTL DEF Spec
=============================================================================
