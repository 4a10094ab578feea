---------------------------- MODULE WindowProofs ----------------------------
(***************************************************************************)
(* What a window shows is what its program has been told and what the      *)
(* store holds, for any settings, names, segments and number of clicks;    *)
(* the slider and the chart in it stay in range for every size, threshold  *)
(* and position of the mouse.                                              *)
(***************************************************************************)
EXTENDS Window, Widgets, SequenceTheorems, TLAPS

-----------------------------------------------------------------------------
(* The types of the fields.                                                *)

Shares == Splits \cup {Percentages}
Rows == [bytes : Int, split : Shares, entered : Shares]
Snapshots == [time : Nat, processes : Seq(Rows)]
LastSnapshot == Snapshots \cup {NULL}
Configs ==
    [alg : Algorithms, memory : Memories, cost : Costs, quantum : Quanta \cup {0},
     speed : Speeds]
Sessions ==
    [processes : Seq(Rows), random : Nat, speed : Speeds, state : LastSnapshot,
     cost : Costs, quantum : Quanta, system : BOOLEAN]
Stores == [memory : Memories, of : [Algorithms -> Sessions]]
UiFlags ==
    [started : BOOLEAN, paused : BOOLEAN, running : BOOLEAN, timer : BOOLEAN,
     executing : BOOLEAN, memory : Memories, cost : Costs, quantum : Quanta,
     speed : Speeds]
Views ==
    [tab : Tabs, processes : Seq(Rows), system : BOOLEAN, state : LastSnapshot,
     shown : Seq(Seq(Rows) \cup BOOLEAN \cup LastSnapshot), cards : Seq(Rows)]
Lines ==
    [name : {"SET_CONFIG"}, config : Configs] \cup [name : {"ADD"}, process : Rows]
    \cup [name : {"RANDOM"}, count : Nat] \cup [name : {"SET_SWITCH_COST"}, cost : Costs]
    \cup [name : {"RUN", "PAUSE", "STOP"}]
Programs ==
    [alive : BOOLEAN, mode : {"PAUSE", "RUN", "STOP"}, config : Configs \cup {NULL},
     processes : Seq(Rows), time : Nat, pipe : Seq(Lines)]

Types ==
    /\ store \in Stores
    /\ active \in Algorithms \cup {NULL} /\ window \in Algorithms \cup {NULL}
    /\ ui \in UiFlags /\ split \in Shares /\ view \in Views
    /\ c \in Programs /\ out \in LastSnapshot /\ typed \in BOOLEAN

(* A line that changes settings.                                           *)
Sets(line) == line.name \in {"SET_CONFIG", "SET_SWITCH_COST"}
Silent(lines) == \A i \in 1 .. Len(lines) : ~Sets(lines[i])

(* A program that lives has a configuration, or reads one first: typed     *)
(* settings change one that is there.                                      *)
Begins(p) == p.config \in Configs \/ (p.pipe # <<>> /\ p.pipe[1].name = "SET_CONFIG")

(* It has the settings k, or will have them when it has read its pipe.     *)
Told(p, k) ==
    \/ p.config = k /\ Silent(p.pipe)
    \/ \E i \in 1 .. Len(p.pipe) :
          /\ p.pipe[i] = [name |-> "SET_CONFIG", config |-> k]
          /\ \A j \in i + 1 .. Len(p.pipe) : ~Sets(p.pipe[j])

(* SettingsInForce, whatever is in the pipe.                               *)
SettingsTold == window # NULL =>
    /\ ui.memory = store.memory /\ ui.cost = Mine.cost
    /\ window = ROUND_ROBIN => ui.quantum = Mine.quantum
    /\ c.alive => active = window
    /\ c.alive /\ ~typed => Told(c, Config(store, window))

WindowInv ==
    /\ Types
    /\ c.alive => Begins(c)
    /\ SettingsTold
    /\ ViewsAgree

-----------------------------------------------------------------------------
(* Lines and pipes.                                                        *)

(* What a line carries.                                                    *)
LEMMA LineFields ==
    ASSUME NEW line \in Lines
    PROVE  /\ line.name \in {"SET_CONFIG", "ADD", "RANDOM", "SET_SWITCH_COST",
                             "RUN", "PAUSE", "STOP"}
           /\ line.name = "SET_CONFIG" => line.config \in Configs
           /\ line.name = "ADD" => line.process \in Rows
           /\ line.name = "RANDOM" => line.count \in Nat
           /\ line.name = "SET_SWITCH_COST" => line.cost \in Costs
  BY DEF Lines

(* The configuration of a stored algorithm is one the program may have.    *)
LEMMA ConfigType ==
    ASSUME NEW s \in Stores, NEW a \in Algorithms
    PROVE  Config(s, a) \in Configs
  BY DEF Config, Stores, Sessions, Configs

(* The lines that the window writes.                                       *)
LEMMA LineTypes ==
    /\ \A k \in Configs : [name |-> "SET_CONFIG", config |-> k] \in Lines
    /\ \A p \in Rows : Add(p) \in Lines
    /\ \A n \in Nat : [name |-> "RANDOM", count |-> n] \in Lines
    /\ \A x \in Costs : [name |-> "SET_SWITCH_COST", cost |-> x] \in Lines
    /\ \A name \in {"RUN", "PAUSE", "STOP"} : Plain(name) \in Lines
  BY DEF Lines, Add, Plain

(* What one line does to the program.                                      *)
LEMMA ObeyedType ==
    ASSUME NEW p \in Programs, NEW line \in Lines,
           p.config \in Configs \/ line.name = "SET_CONFIG"
    PROVE  /\ Obeyed(p, line) \in Programs
           /\ Obeyed(p, line).alive = p.alive /\ Obeyed(p, line).pipe = p.pipe
           /\ Obeyed(p, line).config \in Configs
           /\ line.name = "SET_CONFIG" => Obeyed(p, line).config = line.config
           /\ ~Sets(line) => Obeyed(p, line).config = p.config
<1>0. RandomProcess \in Rows
  BY DEF RandomProcess, Rows, Shares
<1>1. CASE line.name = "SET_CONFIG"
  <2>1. line.config \in Configs
    BY <1>1, LineFields
  <2>2. Obeyed(p, line) = [p EXCEPT !.config = line.config]
    BY <1>1 DEF Obeyed
  <2> QED
    BY <1>1, <2>1, <2>2 DEF Programs, Sets
<1>2. CASE line.name = "SET_SWITCH_COST"
  <2>1. line.cost \in Costs /\ p.config \in Configs
    BY <1>2, LineFields
  <2>2. Obeyed(p, line) = [p EXCEPT !.config.cost = line.cost]
    BY <1>2 DEF Obeyed
  <2>3. [p.config EXCEPT !.cost = line.cost] \in Configs
    BY <2>1 DEF Configs
  <2>4. Obeyed(p, line) = [p EXCEPT !.config = [p.config EXCEPT !.cost = line.cost]]
    BY <2>2 DEF Programs
  <2> QED
    BY <1>2, <2>3, <2>4 DEF Programs, Sets
<1>3. CASE line.name = "ADD" /\ Valid(line)
  <2>1. line.process \in Rows /\ p.processes \in Seq(Rows)
    BY <1>3, LineFields DEF Programs
  <2>2. Append(p.processes, line.process) \in Seq(Rows)
    BY <2>1
  <2>3. Obeyed(p, line) = [p EXCEPT !.processes = Append(p.processes, line.process)]
    BY <1>3 DEF Obeyed, Programs
  <2> QED
    BY <1>3, <2>2, <2>3 DEF Programs, Sets
<1>4. CASE line.name = "RANDOM"
  <2> DEFINE more == [i \in 1 .. line.count |-> RandomProcess]
  <2>1. line.count \in Nat /\ p.processes \in Seq(Rows)
    BY <1>4, LineFields DEF Programs
  <2>2. more \in Seq(Rows)
    BY <1>0, <2>1, IsASeq
  <2>3. p.processes \o more \in Seq(Rows)
    BY <2>1, <2>2, ConcatProperties
  <2>4. Obeyed(p, line) = [p EXCEPT !.processes = p.processes \o more]
    BY <1>4 DEF Obeyed, Programs
  <2> QED
    BY <1>4, <2>3, <2>4 DEF Programs, Sets
<1>5. CASE line.name \in {"RUN", "PAUSE", "STOP"}
  <2>1. Obeyed(p, line) = [p EXCEPT !.mode = line.name]
    BY <1>5 DEF Obeyed
  <2> QED
    BY <1>5, <2>1 DEF Programs, Sets
<1>6. CASE line.name = "ADD" /\ ~Valid(line)
  <2>1. Obeyed(p, line) = p
    BY <1>6 DEF Obeyed
  <2> QED
    BY <1>6, <2>1 DEF Sets
<1> QED
  BY <1>1, <1>2, <1>3, <1>4, <1>5, <1>6, LineFields

(* Two rows of lines, one behind the other.                                *)
LEMMA Joined ==
    ASSUME NEW s \in Seq(Lines), NEW t \in Seq(Lines)
    PROVE  /\ s \o t \in Seq(Lines) /\ Len(s \o t) = Len(s) + Len(t)
           /\ Len(s) \in Nat /\ Len(t) \in Nat
           /\ \A i \in 1 .. Len(s) : (s \o t)[i] = s[i]
           /\ \A i \in Len(s) + 1 .. Len(s) + Len(t) : (s \o t)[i] = t[i - Len(s)]
  BY ConcatProperties, LenProperties

(* More lines in the pipe; if they set nothing, the program is as well     *)
(* informed as it was.                                                     *)
LEMMA MoreLines ==
    ASSUME NEW p \in Programs, NEW lines \in Seq(Lines), NEW k
    PROVE  /\ [p EXCEPT !.pipe = p.pipe \o lines] \in Programs
           /\ Begins(p) => Begins([p EXCEPT !.pipe = p.pipe \o lines])
           /\ Silent(lines) /\ Told(p, k) => Told([p EXCEPT !.pipe = p.pipe \o lines], k)
<1> DEFINE all == p.pipe \o lines
           q == [p EXCEPT !.pipe = all]
<1>1. p.pipe \in Seq(Lines)
  BY DEF Programs
<1>2. /\ all \in Seq(Lines) /\ Len(all) = Len(p.pipe) + Len(lines)
      /\ Len(p.pipe) \in Nat /\ Len(lines) \in Nat
      /\ \A i \in 1 .. Len(p.pipe) : all[i] = p.pipe[i]
      /\ \A i \in Len(p.pipe) + 1 .. Len(p.pipe) + Len(lines) :
            all[i] = lines[i - Len(p.pipe)]
  BY <1>1, Joined
<1> HIDE DEF all
<1>3. q \in Programs /\ q.pipe = all /\ q.config = p.config
  BY <1>2 DEF Programs
<1> HIDE DEF q
<1>4. ASSUME Silent(lines)
      PROVE  \A i \in Len(p.pipe) + 1 .. Len(all) : ~Sets(all[i])
  <2> TAKE i \in Len(p.pipe) + 1 .. Len(all)
  <2>1. i - Len(p.pipe) \in 1 .. Len(lines)
    BY <1>2
  <2> QED
    BY <1>2, <1>4, <2>1 DEF Silent
<1>5. ASSUME Begins(p) PROVE Begins(q)
  <2>1. CASE p.config \in Configs
    BY <1>3, <2>1 DEF Begins
  <2>2. CASE p.pipe # <<>> /\ p.pipe[1].name = "SET_CONFIG"
    <3>1. Len(p.pipe) >= 1
      BY <1>1, <1>2, <2>2
    <3>2. all[1] = p.pipe[1] /\ all # <<>>
      BY <1>2, <3>1
    <3> QED
      BY <1>3, <2>2, <3>2 DEF Begins
  <2> QED
    BY <1>5, <2>1, <2>2 DEF Begins
<1>6. ASSUME Silent(lines), Told(p, k) PROVE Told(q, k)
  <2>1. CASE p.config = k /\ Silent(p.pipe)
    <3>1. \A i \in 1 .. Len(all) : ~Sets(all[i])
      BY <1>2, <1>4, <1>6, <2>1 DEF Silent
    <3> QED
      BY <1>3, <2>1, <3>1 DEF Told, Silent
  <2>2. ASSUME NEW i \in 1 .. Len(p.pipe),
               p.pipe[i] = [name |-> "SET_CONFIG", config |-> k],
               \A j \in i + 1 .. Len(p.pipe) : ~Sets(p.pipe[j])
        PROVE  Told(q, k)
    <3>1. i \in 1 .. Len(all) /\ all[i] = p.pipe[i]
      BY <1>2
    <3>2. \A j \in i + 1 .. Len(all) : ~Sets(all[j])
      <4> TAKE j \in i + 1 .. Len(all)
      <4>1. j \in i + 1 .. Len(p.pipe) \/ j \in Len(p.pipe) + 1 .. Len(all)
        BY <1>2
      <4> QED
        BY <1>2, <1>4, <1>6, <2>2, <4>1
    <3> QED
      BY <1>3, <2>2, <3>1, <3>2 DEF Told
  <2> QED
    BY <1>6, <2>1, <2>2 DEF Told
<1> QED
  BY <1>3, <1>5, <1>6 DEF q, all

(* SET_CONFIG followed by lines that set nothing tells a program all,      *)
(* whatever it had in its pipe before.                                     *)
Leads(lines, k) ==
    /\ lines # <<>> /\ lines[1] = [name |-> "SET_CONFIG", config |-> k]
    /\ \A j \in 2 .. Len(lines) : ~Sets(lines[j])

(* Commands written to the pipe are what the program will be told.         *)
LEMMA ConfigIsTold ==
    ASSUME NEW p \in Programs, NEW k, NEW lines \in Seq(Lines), Leads(lines, k)
    PROVE  /\ [p EXCEPT !.pipe = p.pipe \o lines] \in Programs
           /\ Begins(p) \/ p.pipe = <<>> => Begins([p EXCEPT !.pipe = p.pipe \o lines])
           /\ Told([p EXCEPT !.pipe = p.pipe \o lines], k)
<1> DEFINE all == p.pipe \o lines
           q == [p EXCEPT !.pipe = all]
<1>1. p.pipe \in Seq(Lines)
  BY DEF Programs
<1>2. /\ all \in Seq(Lines) /\ Len(all) = Len(p.pipe) + Len(lines)
      /\ Len(p.pipe) \in Nat /\ Len(lines) \in Nat
      /\ \A i \in 1 .. Len(p.pipe) : all[i] = p.pipe[i]
      /\ \A i \in Len(p.pipe) + 1 .. Len(p.pipe) + Len(lines) :
            all[i] = lines[i - Len(p.pipe)]
  BY <1>1, Joined
<1>3. Len(lines) >= 1 /\ (p.pipe = <<>> => Len(p.pipe) = 0)
      /\ (p.pipe # <<>> => Len(p.pipe) >= 1)
  BY <1>1, <1>2 DEF Leads
<1> HIDE DEF all
<1>4. q \in Programs /\ q.pipe = all /\ q.config = p.config
  BY <1>2 DEF Programs
<1> HIDE DEF q
<1> DEFINE i == Len(p.pipe) + 1
<1>5. i \in 1 .. Len(all) /\ all[i] = [name |-> "SET_CONFIG", config |-> k]
  <2>1. i \in Len(p.pipe) + 1 .. Len(p.pipe) + Len(lines) /\ i - Len(p.pipe) = 1
        /\ i \in 1 .. Len(all)
    BY <1>2, <1>3
  <2> HIDE DEF i
  <2>2. all[i] = lines[1]
    BY <1>2, <2>1
  <2> QED
    BY <2>1, <2>2 DEF Leads
<1>6. \A j \in i + 1 .. Len(all) : ~Sets(all[j])
  <2> TAKE j \in i + 1 .. Len(all)
  <2>1. j \in Len(p.pipe) + 1 .. Len(p.pipe) + Len(lines)
        /\ j - Len(p.pipe) \in 2 .. Len(lines)
    BY <1>2
  <2> QED
    BY <1>2, <2>1 DEF Leads
<1>7. Told(q, k)
  BY <1>4, <1>5, <1>6 DEF Told
<1>8. ASSUME Begins(p) \/ p.pipe = <<>> PROVE Begins(q)
  <2>1. all # <<>>
    BY <1>2, <1>3
  <2>2. CASE p.pipe = <<>>
    BY <1>3, <1>4, <1>5, <2>1, <2>2 DEF Begins
  <2>3. CASE p.pipe # <<>> /\ Begins(p)
    <3>1. all[1] = p.pipe[1]
      BY <1>2, <1>3, <2>3
    <3> QED
      BY <1>4, <2>1, <2>3, <3>1 DEF Begins
  <2> QED
    BY <1>8, <2>2, <2>3
<1> QED
  BY <1>4, <1>7, <1>8 DEF q, all

(* Reading a line keeps a program informed.                                *)
LEMMA ReadingKeeps ==
    ASSUME NEW p \in Programs, p.pipe # <<>>, Begins(p), NEW k
    PROVE  LET q == Obeyed([p EXCEPT !.pipe = Tail(@)], Head(p.pipe))
           IN  /\ q \in Programs /\ q.alive = p.alive /\ q.config \in Configs
               /\ Told(p, k) => Told(q, k)
<1> DEFINE line == Head(p.pipe)
           rest == Tail(p.pipe)
           r == [p EXCEPT !.pipe = rest]
           q == Obeyed(r, line)
<1>1. /\ p.pipe \in Seq(Lines) /\ line \in Lines /\ rest \in Seq(Lines)
      /\ Len(rest) = Len(p.pipe) - 1 /\ Len(p.pipe) \in Nat
      /\ \A i \in 1 .. Len(rest) : rest[i] = p.pipe[i + 1]
      /\ line = p.pipe[1]
  <2>1. p.pipe \in Seq(Lines)
    BY DEF Programs
  <2> QED
    BY <2>1, HeadTailProperties, LenProperties
<1> HIDE DEF line, rest
<1>2. r \in Programs /\ r.pipe = rest /\ r.config = p.config /\ r.alive = p.alive
  BY <1>1 DEF Programs
<1> HIDE DEF r
<1>3. /\ q \in Programs /\ q.alive = p.alive /\ q.pipe = rest /\ q.config \in Configs
      /\ line.name = "SET_CONFIG" => q.config = line.config
      /\ ~Sets(line) => q.config = p.config
  <2>1. r.config \in Configs \/ line.name = "SET_CONFIG"
    BY <1>1, <1>2 DEF Begins
  <2> QED
    BY <1>1, <1>2, <2>1, ObeyedType
<1> HIDE DEF q
<1>4. ASSUME Told(p, k) PROVE Told(q, k)
  <2>1. CASE p.config = k /\ Silent(p.pipe)
    <3>1. ~Sets(line)
      BY <1>1, <2>1 DEF Silent
    <3>2. Silent(rest)
      BY <1>1, <2>1 DEF Silent
    <3> QED
      BY <1>3, <2>1, <3>1, <3>2 DEF Told
  <2>2. ASSUME NEW i \in 1 .. Len(p.pipe),
               p.pipe[i] = [name |-> "SET_CONFIG", config |-> k],
               \A j \in i + 1 .. Len(p.pipe) : ~Sets(p.pipe[j])
        PROVE  Told(q, k)
    <3>1. CASE i = 1
      <4>1. q.config = k
        BY <1>1, <1>3, <2>2, <3>1
      <4>2. Silent(rest)
        BY <1>1, <2>2, <3>1 DEF Silent
      <4> QED
        BY <1>3, <4>1, <4>2 DEF Told
    <3>2. CASE i # 1
      <4>1. i - 1 \in 1 .. Len(rest) /\ rest[i - 1] = p.pipe[i]
        BY <1>1, <3>2
      <4>2. \A j \in (i - 1) + 1 .. Len(rest) : ~Sets(rest[j])
        <5> TAKE j \in (i - 1) + 1 .. Len(rest)
        <5>1. j + 1 \in i + 1 .. Len(p.pipe) /\ j \in 1 .. Len(rest)
          BY <1>1, <3>2
        <5> QED
          BY <1>1, <2>2, <5>1
      <4> QED
        BY <1>3, <2>2, <4>1, <4>2 DEF Told
    <3> QED
      BY <3>1, <3>2
  <2> QED
    BY <1>4, <2>1, <2>2 DEF Told
<1>5. q = Obeyed([p EXCEPT !.pipe = Tail(@)], Head(p.pipe))
  BY DEF q, r, line, rest, Programs
<1> QED
  BY <1>3, <1>4, <1>5

-----------------------------------------------------------------------------
(* The operators of the window.                                            *)

(* What stop may still hear of the program: it obeys what is in its pipe,  *)
(* one line after the other, and each snapshot has the type of one.        *)
Draining == INSTANCE FoldProofs WITH Op <- ObeyedUnlessStopped

(* A snapshot has the fields the window reads.                             *)
LEMMA SnapshotType ==
    ASSUME NEW p \in Programs
    PROVE  Snapshot(p) \in Snapshots
<1>1. p.time \in Nat /\ p.processes \in Seq(Rows)
  BY DEF Programs
<1>2. ASSUME NEW x \in Rows PROVE FromPcb(x) \in Rows
  BY DEF FromPcb, Rows, Shares
<1> DEFINE list == [i \in DOMAIN p.processes |-> FromPcb(p.processes[i])]
<1>3. list \in Seq(Rows)
  <2>1. DOMAIN p.processes = 1 .. Len(p.processes) /\ Len(p.processes) \in Nat
        /\ \A i \in 1 .. Len(p.processes) : p.processes[i] \in Rows
    BY <1>1, LenProperties
  <2>2. \A i \in 1 .. Len(p.processes) : FromPcb(p.processes[i]) \in Rows
    BY <1>2, <2>1
  <2> QED
    BY <2>1, <2>2
<1> QED
  BY <1>1, <1>3 DEF Snapshot, Snapshots

(* A program that has read its commands is still a program.                *)
LEMMA DrainedType ==
    ASSUME NEW p \in Programs, Begins(p)
    PROVE  Drained(p) \in Programs
<1> DEFINE n == Len(p.pipe)
           start == [p EXCEPT !.pipe = <<>>]
           lines == p.pipe
<1>1. lines \in Seq(Lines) /\ n \in Nat /\ DOMAIN lines = 1 .. n
      /\ \A i \in 1 .. n : lines[i] \in Lines
  <2>1. lines \in Seq(Lines)
    BY DEF Programs
  <2> QED
    BY <2>1, LenProperties
<1>2. Drained(p) = Draining!Folded(start, lines)
  BY DEF Drained, FoldLeft, MapThenFoldSet, Max, Draining!Folded,
         Draining!FoldLeft, Draining!MapThenFoldSet, Draining!Max
<1>3. start \in Programs /\ start.config = p.config
  <2>1. <<>> \in Seq(Lines)
    OBVIOUS
  <2> QED
    BY <2>1 DEF Programs
<1>4. p.config \in Configs \/ (n >= 1 /\ lines[1].name = "SET_CONFIG")
  BY <1>1 DEF Begins
<1> HIDE DEF n, start, lines
<1>5. \E r : /\ r[0] = start /\ r[n] = Draining!Folded(start, lines)
             /\ \A k \in 1 .. n : r[k] = ObeyedUnlessStopped(r[k - 1], lines[k])
  BY <1>1, Draining!FoldLeftSteps
<1>6. PICK r : /\ r[0] = start /\ r[n] = Drained(p)
               /\ \A k \in 1 .. n : r[k] = ObeyedUnlessStopped(r[k - 1], lines[k])
  BY <1>2, <1>5
<1> DEFINE Well(q, k) ==
             /\ q \in Programs
             /\ q.mode = "STOP" \/ q.config \in Configs \/ (k = 0 /\ q.config = p.config)
           Good == {k \in 0 .. n : Well(r[k], k)}
<1>7. 0 \in Good
  BY <1>1, <1>3, <1>6
<1>8. ASSUME NEW k \in 1 .. n, k - 1 \in Good PROVE k \in Good
  <2>1. r[k] = ObeyedUnlessStopped(r[k - 1], lines[k]) /\ lines[k] \in Lines
        /\ r[k - 1] \in Programs
    BY <1>1, <1>6, <1>8
  <2>2. CASE r[k - 1].mode = "STOP"
    BY <1>1, <2>1, <2>2 DEF ObeyedUnlessStopped
  <2>3. CASE r[k - 1].mode # "STOP"
    <3>1. r[k - 1].config \in Configs \/ lines[k].name = "SET_CONFIG"
      BY <1>1, <1>4, <1>8, <2>3
    <3>2. r[k] = Obeyed(r[k - 1], lines[k])
      BY <2>1, <2>3 DEF ObeyedUnlessStopped
    <3> QED
      BY <1>1, <2>1, <3>1, <3>2, ObeyedType
  <2> QED
    BY <2>2, <2>3
<1> HIDE DEF Good
<1>9. \A k \in 0 .. n : k \in Good
  BY <1>1, <1>7, <1>8, Draining!InductionTo
<1> QED
  BY <1>1, <1>6, <1>9 DEF Good

(* Any last words are a snapshot, or none.                                 *)
LEMMA LastWordsType ==
    ASSUME Types, c.alive => Begins(c)
    PROVE  LastWords \subseteq LastSnapshot
<1>1. c \in Programs /\ out \in LastSnapshot
  BY DEF Types
<1>2. CASE c.alive
  <2>1. Snapshot(Drained(c)) \in Snapshots
    BY <1>1, <1>2, DrainedType, SnapshotType
  <2> QED
    BY <1>1, <2>1 DEF LastWords, LastSnapshot
<1>3. CASE ~c.alive
  BY <1>1, <1>3 DEF LastWords
<1> QED
  BY <1>2, <1>3

(* A snapshot changes neither the settings of the store nor another        *)
(* algorithm.                                                              *)
LEMMA AppliedType ==
    ASSUME NEW s \in Stores, NEW snapshot \in LastSnapshot, window \in Algorithms
    PROVE  /\ Applied(s, snapshot) \in Stores
           /\ Applied(s, snapshot).memory = s.memory
           /\ Applied(s, snapshot).of[window].cost = s.of[window].cost
           /\ Applied(s, snapshot).of[window].quantum = s.of[window].quantum
           /\ Config(Applied(s, snapshot), window) = Config(s, window)
           /\ snapshot # NULL =>
                /\ Applied(s, snapshot).of[window].processes = snapshot.processes
                /\ Applied(s, snapshot).of[window].state = snapshot
           /\ snapshot = NULL => Applied(s, snapshot) = s
<1>1. CASE snapshot = NULL
  <2>1. Applied(s, snapshot) = s
    BY <1>1 DEF Applied
  <2> QED
    BY <1>1, <2>1
<1>2. CASE snapshot # NULL
  <2>1. snapshot \in Snapshots /\ snapshot.processes \in Seq(Rows)
    BY <1>2 DEF LastSnapshot, Snapshots
  <2> DEFINE mine == s.of[window]
             told == [mine EXCEPT !.processes = snapshot.processes, !.random = 0,
                                  !.system = TRUE, !.state = snapshot]
  <2>2. mine \in Sessions
    BY DEF Stores
  <2>3. /\ told \in Sessions /\ told.processes = snapshot.processes
        /\ told.state = snapshot /\ told.cost = mine.cost
        /\ told.quantum = mine.quantum /\ told.speed = mine.speed
    BY <2>1, <2>2 DEF Sessions, LastSnapshot
  <2>4. Applied(s, snapshot) = [s EXCEPT !.of[window] = told]
    BY <1>2, <2>2 DEF Applied, Stores, Sessions
  <2> HIDE DEF told
  <2>5. /\ Applied(s, snapshot) \in Stores /\ Applied(s, snapshot).memory = s.memory
        /\ Applied(s, snapshot).of[window] = told
    BY <2>3, <2>4 DEF Stores
  <2> QED
    BY <1>2, <2>3, <2>5 DEF Config
<1> QED
  BY <1>1, <1>2

(* What the window shows of the settings of algorithm w.                   *)
UiAgrees(u, s, w) ==
    /\ u.memory = s.memory /\ u.cost = s.of[w].cost
    /\ w = ROUND_ROBIN => u.quantum = s.of[w].quantum

(* What its tabs and cards show of a session.                              *)
Agrees(v, session) ==
    /\ v.cards = session.processes /\ v.processes = session.processes
    /\ v.state \in {NULL, session.state}
    /\ v.shown = Drawn(v) \/ (v.tab = "SYSTEM" /\ v.shown = <<session.system>>)

(* What a tab may show.                                                    *)
Pictures == Seq(Seq(Rows) \cup BOOLEAN \cup LastSnapshot)

(* Rows of one and of two.                                                 *)
LEMMA ShortRows ==
    ASSUME NEW S
    PROVE  \A x, y \in S : <<x>> \in Seq(S) /\ <<x, y>> \in Seq(S)
  OBVIOUS

(* Drawing the current tab changes nothing but what it shows.              *)
LEMMA RefreshedType ==
    ASSUME NEW v \in Views
    PROVE  /\ RefreshCurrentTab(v) \in Views
           /\ RefreshCurrentTab(v).shown = Drawn(RefreshCurrentTab(v))
           /\ RefreshCurrentTab(v).cards = v.cards /\ RefreshCurrentTab(v).tab = v.tab
           /\ RefreshCurrentTab(v).processes = v.processes
           /\ RefreshCurrentTab(v).state = v.state
           /\ RefreshCurrentTab(v).system = v.system
<1> DEFINE drawn == Drawn(v)
           w == [v EXCEPT !.shown = drawn]
<1>1. drawn \in Pictures
  <2> DEFINE S == Seq(Rows) \cup BOOLEAN \cup LastSnapshot
  <2>1. v.processes \in S /\ v.system \in S /\ v.state \in S
    BY DEF Views
  <2>2. drawn \in {<<v.processes>>, <<v.system>>, <<v.processes, v.state>>}
    BY DEF Drawn
  <2> HIDE DEF S, drawn
  <2>3. drawn \in Seq(S)
    BY <2>1, <2>2, ShortRows
  <2> QED
    BY <2>3 DEF S, Pictures
<1>2. drawn = Drawn(w)
  BY DEF Drawn, Views
<1>3. RefreshCurrentTab(v) = w
  BY DEF RefreshCurrentTab
<1> HIDE DEF drawn
<1> QED
  BY <1>1, <1>2, <1>3 DEF Views, Pictures

(* A handler that hands the list to the tabs makes them agree with it, as  *)
(* do the cards if they are set as well.                                   *)
LEMMA ResetAgrees ==
    ASSUME NEW v \in Views, NEW session \in Sessions
    PROVE  /\ Reset(v, session) \in Views
           /\ v.cards = session.processes => Agrees(Reset(v, session), session)
           /\ SetCards(Reset(v, session), session.processes) \in Views
           /\ Agrees(SetCards(Reset(v, session), session.processes), session)
<1> DEFINE u == [v EXCEPT !.processes = session.processes,
                          !.system = session.system, !.state = NULL]
           w == RefreshCurrentTab(u)
           x == [w EXCEPT !.cards = session.processes]
<1>1. u \in Views /\ u.processes = session.processes /\ u.state = NULL /\ u.cards = v.cards
  BY DEF Views, Sessions, LastSnapshot
<1>2. Reset(v, session) = w
  BY DEF Reset
<1> HIDE DEF u
<1>3. w \in Views /\ w.processes = session.processes /\ w.state = NULL
      /\ w.cards = v.cards /\ w.shown = Drawn(w)
  BY <1>1, RefreshedType
<1> HIDE DEF w
<1>4. x \in Views /\ x.processes = session.processes /\ x.state = NULL
      /\ x.cards = session.processes /\ x.shown = w.shown /\ x.tab = w.tab
  BY <1>3 DEF Views, Sessions
<1>5. Drawn(x) = Drawn(w)
  BY <1>3 DEF Drawn, Views
<1>6. SetCards(w, session.processes) = x
  BY DEF SetCards
<1> HIDE DEF x
<1> QED
  BY <1>2, <1>3, <1>4, <1>5, <1>6 DEF Agrees

(* A poll that finds a snapshot shows the whole store; one that does not   *)
(* changes nothing.                                                        *)
LEMMA PolledAgrees ==
    ASSUME NEW v \in Views, NEW session \in Sessions, NEW snapshot,
           snapshot = NULL => Agrees(v, session)
    PROVE  /\ PolledView(v, session, snapshot) \in Views
           /\ Agrees(PolledView(v, session, snapshot), session)
<1>1. CASE snapshot = NULL
  BY <1>1 DEF PolledView
<1>2. CASE snapshot # NULL
  <2> DEFINE u == [v EXCEPT !.processes = session.processes,
                            !.system = session.system, !.state = session.state]
             w == RefreshCurrentTab(u)
             x == [w EXCEPT !.cards = session.processes]
  <2>1. u \in Views /\ u.processes = session.processes /\ u.state = session.state
    BY DEF Views, Sessions
  <2>2. SetLiveState(v, session) = w
    BY DEF SetLiveState
  <2> HIDE DEF u
  <2>3. w \in Views /\ w.processes = session.processes /\ w.state = session.state
        /\ w.shown = Drawn(w)
    BY <2>1, RefreshedType
  <2> HIDE DEF w
  <2>4. x \in Views /\ x.processes = session.processes /\ x.state = session.state
        /\ x.cards = session.processes /\ x.shown = w.shown /\ x.tab = w.tab
    BY <2>3 DEF Views, Sessions
  <2>5. Drawn(x) = Drawn(w)
    BY <2>3 DEF Drawn, Views
  <2>6. PolledView(v, session, snapshot) = x
    BY <1>2, <2>2 DEF PolledView, SetCards
  <2> HIDE DEF x
  <2> QED
    BY <2>3, <2>4, <2>5, <2>6 DEF Agrees
<1> QED
  BY <1>1, <1>2

(* Limpiar todo empties all, but keeps the tab and the system processes.   *)
LEMMA ClearedAgrees ==
    ASSUME NEW v \in Views, NEW s \in Sessions
    PROVE  /\ Cleared(s) \in Sessions /\ Cleared(s).cost = s.cost
           /\ Cleared(s).quantum = s.quantum
           /\ ClearedView(v, Cleared(s)) \in Views
           /\ Agrees(ClearedView(v, Cleared(s)), Cleared(s))
<1>1. <<>> \in Seq(Rows) /\ <<>> \in Pictures
  BY DEF Pictures
<1>2. /\ Cleared(s) \in Sessions /\ Cleared(s).cost = s.cost
      /\ Cleared(s).quantum = s.quantum /\ Cleared(s).processes = <<>>
      /\ Cleared(s).state = NULL /\ Cleared(s).system \in BOOLEAN
  BY <1>1, WindowAssumption DEF Cleared, Sessions, LastSnapshot
<1> DEFINE first == [tab |-> "EXECUTION", processes |-> <<>>, system |-> FALSE,
                     state |-> NULL, shown |-> <<>>, cards |-> <<>>]
           u == [NewView EXCEPT !.tab = v.tab]
           blank == RefreshCurrentTab(u)
           shown == IF v.tab = "SYSTEM" THEN <<Cleared(s).system>> ELSE blank.shown
           w == [blank EXCEPT !.shown = shown]
<1>3. first \in Views
  BY <1>1 DEF Views, Tabs, LastSnapshot, Pictures
<1>4. NewView \in Views /\ NewView.processes = <<>> /\ NewView.state = NULL
      /\ NewView.cards = <<>>
  <2>1. NewView = RefreshCurrentTab(first) /\ first.processes = <<>>
        /\ first.state = NULL /\ first.cards = <<>>
    BY DEF NewView
  <2> HIDE DEF first
  <2> QED
    BY <1>3, <2>1, RefreshedType
<1>5. u \in Views /\ u.processes = <<>> /\ u.state = NULL /\ u.cards = <<>> /\ u.tab = v.tab
  BY <1>4 DEF Views
<1> HIDE DEF u
<1>6. blank \in Views /\ blank.processes = <<>> /\ blank.state = NULL
      /\ blank.cards = <<>> /\ blank.tab = v.tab /\ blank.shown = Drawn(blank)
  BY <1>5, RefreshedType
<1> HIDE DEF blank
<1>7. shown \in Pictures
  <2> DEFINE S == Seq(Rows) \cup BOOLEAN \cup LastSnapshot
  <2>1. Cleared(s).system \in S /\ blank.shown \in Seq(S)
    BY <1>2, <1>6 DEF Views
  <2> HIDE DEF S
  <2>2. shown \in Seq(S)
    BY <2>1, ShortRows
  <2> QED
    BY <2>2 DEF S, Pictures
<1>8. ClearedView(v, Cleared(s)) = w
  BY <1>6 DEF ClearedView, blank, u, Views
<1>9. w \in Views /\ w.processes = <<>> /\ w.state = NULL /\ w.cards = <<>>
      /\ w.tab = v.tab /\ w.shown = shown
  BY <1>6, <1>7 DEF Views, Pictures
<1>10. Drawn(w) = Drawn(blank)
  BY <1>6 DEF Drawn, Views
<1> HIDE DEF w
<1> QED
  BY <1>2, <1>6, <1>8, <1>9, <1>10 DEF Agrees

-----------------------------------------------------------------------------
(* Writing to the program.                                                 *)

(* One line by itself.                                                     *)
LEMMA SingleLine ==
    ASSUME NEW line \in Lines
    PROVE  /\ <<line>> \in Seq(Lines) /\ Len(<<line>>) = 1 /\ <<line>>[1] = line
           /\ ~Sets(line) => Silent(<<line>>)
<1>1. <<line>> \in Seq(Lines) /\ Len(<<line>>) = 1 /\ <<line>>[1] = line
  OBVIOUS
<1> QED
  BY <1>1 DEF Silent

(* SET_CONFIG by itself.                                                   *)
LEMMA ConfigLeads ==
    ASSUME NEW s \in Stores, NEW a \in Algorithms
    PROVE  <<SetConfig(s, a)>> \in Seq(Lines) /\ Leads(<<SetConfig(s, a)>>, Config(s, a))
<1> DEFINE line == [name |-> "SET_CONFIG", config |-> Config(s, a)]
<1>1. line \in Lines /\ SetConfig(s, a) = line
  BY ConfigType, LineTypes DEF SetConfig
<1> HIDE DEF line
<1>2. <<line>> \in Seq(Lines) /\ Len(<<line>>) = 1 /\ <<line>>[1] = line
  BY <1>1, SingleLine
<1>3. <<line>> # <<>> /\ \A j \in 2 .. Len(<<line>>) : ~Sets(<<line>>[j])
  BY <1>2
<1> QED
  BY <1>1, <1>2, <1>3 DEF Leads, line

(* What leads still leads when lines that set nothing follow.              *)
LEMMA LeadsOn ==
    ASSUME NEW lines \in Seq(Lines), NEW more \in Seq(Lines), NEW k,
           Leads(lines, k), Silent(more)
    PROVE  lines \o more \in Seq(Lines) /\ Leads(lines \o more, k)
<1> DEFINE all == lines \o more
<1>1. /\ all \in Seq(Lines) /\ Len(all) = Len(lines) + Len(more)
      /\ Len(lines) \in Nat /\ Len(more) \in Nat
      /\ \A i \in 1 .. Len(lines) : all[i] = lines[i]
      /\ \A i \in Len(lines) + 1 .. Len(lines) + Len(more) : all[i] = more[i - Len(lines)]
  BY Joined
<1>2. Len(lines) >= 1
  BY <1>1 DEF Leads
<1> HIDE DEF all
<1>3. all # <<>> /\ all[1] = lines[1]
  BY <1>1, <1>2
<1>4. ASSUME NEW j \in 2 .. Len(all) PROVE ~Sets(all[j])
  <2>1. CASE j \in 2 .. Len(lines)
    BY <1>1, <2>1 DEF Leads
  <2>2. CASE j \in Len(lines) + 1 .. Len(all)
    <3>1. j - Len(lines) \in 1 .. Len(more) /\ all[j] = more[j - Len(lines)]
      BY <1>1, <2>2
    <3> QED
      BY <3>1 DEF Silent
  <2> QED
    BY <1>1, <2>1, <2>2
<1> QED
  BY <1>1, <1>3, <1>4 DEF all, Leads

(* load_processes and run write the configuration first.                   *)
LEMMA LoadLeads ==
    ASSUME store \in Stores, window \in Algorithms,
           NEW lines \in Seq(Lines), Silent(lines)
    PROVE  LoadCommands(lines) \in Seq(Lines)
           /\ Leads(LoadCommands(lines), Config(store, window))
  BY ConfigLeads, LeadsOn DEF LoadCommands

(* Lines for a new program, which is loaded first, or for one that runs.   *)
LEMMA SentLines ==
    ASSUME Types, c.alive => Begins(c), NEW w \in Algorithms,
           NEW lines \in Seq(Lines), SendCommandLines(w, lines)
    PROVE  /\ c' \in Programs /\ active' = w /\ out' \in LastSnapshot
           /\ \A k : Leads(lines, k) => Begins(c') /\ Told(c', k)
           /\ Silent(lines) /\ c.alive /\ active = w =>
                Begins(c') /\ \A k : Told(c, k) => Told(c', k)
<1>0. c \in Programs /\ out \in LastSnapshot /\ active' = w
  BY DEF Types, SendCommandLines
<1>1. NewC \in Programs /\ NewC.pipe = <<>>
  <2>1. <<>> \in Seq(Rows) /\ <<>> \in Seq(Lines)
    OBVIOUS
  <2> QED
    BY <2>1 DEF NewC, Programs
<1>2. CASE c.alive /\ active = w
  <2>1. c' = [c EXCEPT !.pipe = c.pipe \o lines] /\ out' = out
    BY <1>2 DEF SendCommandLines, Sent
  <2>2. ASSUME NEW k, Leads(lines, k)
        PROVE  c' \in Programs /\ Begins(c') /\ Told(c', k)
    BY <1>0, <1>2, <2>1, <2>2, ConfigIsTold
  <2>3. ASSUME NEW k, Silent(lines), Told(c, k)
        PROVE  Told(c', k)
    BY <1>0, <1>2, <2>1, <2>3, MoreLines
  <2>4. Silent(lines) => Begins(c')
    BY <1>0, <1>2, <2>1, MoreLines
  <2>5. c' \in Programs
    <3>1. c.pipe \o lines \in Seq(Lines)
      BY <1>0, ConcatProperties DEF Programs
    <3> QED
      BY <1>0, <2>1, <3>1 DEF Programs
  <2> QED
    BY <1>0, <2>1, <2>2, <2>3, <2>4, <2>5
<1>3. CASE ~(c.alive /\ active = w)
  <2>1. c' = [NewC EXCEPT !.pipe = lines] /\ out' = Snapshot(NewC)
    BY <1>3 DEF SendCommandLines
  <2>2. NewC.pipe \o lines = lines
    BY <1>1, ConcatEmptySeq
  <2>3. c' = [NewC EXCEPT !.pipe = NewC.pipe \o lines]
    BY <2>1, <2>2
  <2>4. out' \in LastSnapshot
    BY <1>1, <2>1, SnapshotType DEF LastSnapshot
  <2>5. c' \in Programs
    BY <1>1, <2>1 DEF Programs
  <2>6. ASSUME NEW k, Leads(lines, k) PROVE Begins(c') /\ Told(c', k)
    BY <1>1, <2>3, <2>6, ConfigIsTold
  <2> QED
    BY <1>0, <1>3, <2>4, <2>5, <2>6
<1> QED
  BY <1>2, <1>3

-----------------------------------------------------------------------------
(* The steps.                                                              *)

(* The invariant of the next state, by its parts.                          *)
LEMMA Concluded ==
    ASSUME Types', c'.alive => Begins(c'),
           window' # NULL =>
              /\ UiAgrees(ui', store', window') /\ Agrees(view', store'.of[window'])
              /\ c'.alive => active' = window'
              /\ c'.alive /\ ~typed' => Told(c', Config(store', window'))
    PROVE  WindowInv'
<1>1. SettingsTold'
  BY DEF SettingsTold, UiAgrees, Mine
<1>2. ViewsAgree'
  BY DEF ViewsAgree, Agrees, Mine
<1> QED
  BY <1>1, <1>2 DEF WindowInv

(* What it says of a window that is open.                                  *)
LEMMA OpenWindowKnows ==
    ASSUME WindowInv, window # NULL
    PROVE  /\ window \in Algorithms /\ Mine \in Sessions
           /\ UiAgrees(ui, store, window) /\ Agrees(view, Mine)
           /\ c.alive => active = window
           /\ c.alive /\ ~typed => Told(c, Config(store, window))
<1>1. window \in Algorithms /\ Mine \in Sessions
  BY DEF WindowInv, Types, Mine, Stores
<1> QED
  BY <1>1 DEF WindowInv, SettingsTold, ViewsAgree, UiAgrees, Agrees, Mine

(* A program that ends is a program, and has nothing to tell.              *)
LEMMA DeadType ==
    ASSUME NEW p \in Programs
    PROVE  Dead(p) \in Programs /\ ~Dead(p).alive
<1>1. <<>> \in Seq(Lines)
  OBVIOUS
<1> QED
  BY <1>1 DEF Dead, Programs

(* What the program does by itself.                                        *)
LEMMA ProgramSteps ==
    ASSUME WindowInv, ReadCommand \/ Tick \/ EndOfSimulation
    PROVE  WindowInv'
<1>1. UNCHANGED <<store, active, window, ui, split, view, typed>> /\ Types /\ c.alive
      /\ Begins(c) /\ c \in Programs /\ out \in LastSnapshot
  BY DEF ReadCommand, Tick, EndOfSimulation, WindowInv, Types
<1>2. ASSUME c' \in Programs, out' \in LastSnapshot, c'.alive => Begins(c'),
             \A k : Told(c, k) /\ c'.alive => Told(c', k)
      PROVE  WindowInv'
  <2>1. Types'
    BY <1>1, <1>2 DEF Types
  <2> QED
    BY <1>1, <1>2, <2>1, OpenWindowKnows, Concluded DEF Mine
<1>3. CASE ReadCommand
  <2> DEFINE p == Obeyed([c EXCEPT !.pipe = Tail(@)], Head(c.pipe))
  <2>1. /\ c.pipe # <<>> /\ c' = IF p.mode = "STOP" THEN Dead(p) ELSE p
        /\ out' \in {Snapshot(p), out}
    BY <1>3 DEF ReadCommand
  <2>2. p \in Programs /\ p.config \in Configs /\ \A k : Told(c, k) => Told(p, k)
    BY <1>1, <2>1, ReadingKeeps
  <2> HIDE DEF p
  <2>3. Dead(p) \in Programs /\ ~Dead(p).alive /\ Snapshot(p) \in Snapshots
    BY <2>2, DeadType, SnapshotType
  <2>4. p.config \in Configs => Begins(p)
    BY DEF Begins
  <2> QED
    BY <1>1, <1>2, <2>1, <2>2, <2>3, <2>4 DEF LastSnapshot
<1>4. CASE Tick
  <2>1. c' = [c EXCEPT !.time = c.time + 1] /\ out' \in {out, Snapshot(c')}
    BY <1>4 DEF Tick
  <2>2. c' \in Programs /\ c'.config = c.config /\ c'.pipe = c.pipe
    BY <1>1, <2>1 DEF Programs
  <2>3. Snapshot(c') \in Snapshots
    BY <2>2, SnapshotType
  <2>4. Begins(c') /\ \A k : Told(c, k) => Told(c', k)
    BY <1>1, <2>2 DEF Begins, Told, Silent
  <2> QED
    BY <1>1, <1>2, <2>1, <2>2, <2>3, <2>4 DEF LastSnapshot
<1>5. CASE EndOfSimulation
  <2> DEFINE p == [c EXCEPT !.mode = "STOP"]
  <2>1. c' = Dead(p) /\ out' = Snapshot(c')
    BY <1>5 DEF EndOfSimulation
  <2>2. p \in Programs
    BY <1>1 DEF Programs
  <2> HIDE DEF p
  <2>3. c' \in Programs /\ ~c'.alive
    BY <2>1, <2>2, DeadType
  <2>4. out' \in Snapshots
    BY <2>1, <2>3, SnapshotType
  <2> QED
    BY <1>2, <2>3, <2>4 DEF LastSnapshot
<1> QED
  BY <1>3, <1>4, <1>5

(* The flags after a poll.                                                 *)
LEMMA PolledUiType ==
    ASSUME NEW u \in UiFlags, NEW snapshot, NEW alive \in BOOLEAN
    PROVE  /\ PolledUi(u, snapshot, alive) \in UiFlags
           /\ PolledUi(u, snapshot, alive).memory = u.memory
           /\ PolledUi(u, snapshot, alive).cost = u.cost
           /\ PolledUi(u, snapshot, alive).quantum = u.quantum
<1> DEFINE told == IF snapshot = NULL THEN u
                   ELSE [u EXCEPT !.executing = u.executing /\ u.started]
<1>1. /\ told \in UiFlags /\ told.memory = u.memory
      /\ told.cost = u.cost /\ told.quantum = u.quantum
  BY DEF UiFlags
<1>2. PolledUi(u, snapshot, alive) =
        IF alive THEN told
        ELSE [told EXCEPT !.timer = FALSE, !.started = FALSE, !.executing = FALSE,
                          !.running = told.running /\ ~told.executing]
  BY <1>1 DEF PolledUi, UiFlags
<1> HIDE DEF told
<1> QED
  BY <1>1, <1>2 DEF UiFlags

(* A poll, alone or at the end of a handler, keeps what the window shows.  *)
LEMMA PollKnows ==
    ASSUME Types, window \in Algorithms,
           NEW s \in Stores, NEW v \in Views, NEW u \in UiFlags,
           UiAgrees(u, s, window), Agrees(v, s.of[window]), PollWith(s, v, u)
    PROVE  /\ store' \in Stores /\ view' \in Views /\ ui' \in UiFlags
           /\ out' \in LastSnapshot
           /\ Config(store', window) = Config(s, window)
           /\ UiAgrees(ui', store', window) /\ Agrees(view', store'.of[window])
<1>1. out \in LastSnapshot /\ c.alive \in BOOLEAN
  BY DEF Types, Programs
<1>2. /\ store' = Applied(s, out) /\ view' = PolledView(v, store'.of[window], out)
      /\ ui' = PolledUi(u, out, c.alive) /\ out' = NULL
  BY DEF PollWith
<1>3. /\ store' \in Stores /\ store'.memory = s.memory
      /\ store'.of[window].cost = s.of[window].cost
      /\ store'.of[window].quantum = s.of[window].quantum
      /\ Config(store', window) = Config(s, window)
      /\ out = NULL => store' = s
  BY <1>1, <1>2, AppliedType
<1>4. store'.of[window] \in Sessions
  BY <1>3 DEF Stores
<1>5. view' \in Views /\ Agrees(view', store'.of[window])
  BY <1>2, <1>3, <1>4, PolledAgrees
<1>6. /\ ui' \in UiFlags /\ ui'.memory = u.memory
      /\ ui'.cost = u.cost /\ ui'.quantum = u.quantum
  BY <1>1, <1>2, PolledUiType
<1> QED
  BY <1>2, <1>3, <1>5, <1>6 DEF UiAgrees, LastSnapshot

(* A poll keeps the invariant.                                             *)
LEMMA Polls ==
    ASSUME WindowInv, Poll
    PROVE  WindowInv'
<1>1. /\ window \in Algorithms /\ Types /\ store \in Stores /\ view \in Views
      /\ ui \in UiFlags /\ PollWith(store, view, ui)
      /\ UNCHANGED <<active, window, split, c, typed>>
  BY OpenWindowKnows DEF WindowInv, Types, Poll
<1>2. /\ UiAgrees(ui, store, window) /\ Agrees(view, store.of[window])
      /\ c.alive => Begins(c)
  BY OpenWindowKnows DEF Poll, Mine, WindowInv
<1>3. /\ store' \in Stores /\ view' \in Views /\ ui' \in UiFlags
      /\ out' \in LastSnapshot
      /\ Config(store', window) = Config(store, window)
      /\ UiAgrees(ui', store', window) /\ Agrees(view', store'.of[window])
  BY <1>1, <1>2, PollKnows
<1>4. Types'
  BY <1>1, <1>3 DEF Types
<1>5. c.alive => active = window
  BY OpenWindowKnows DEF Poll
<1>6. c.alive /\ ~typed => Told(c, Config(store, window))
  BY OpenWindowKnows DEF Poll
<1> QED
  BY <1>1, <1>2, <1>3, <1>4, <1>5, <1>6, Concluded

(* Opening a window tells the program everything.                          *)
LEMMA Opens ==
    ASSUME WindowInv, NEW a \in Algorithms, OpenWindow(a)
    PROVE  WindowInv'
<1> DEFINE lines == <<SetConfig(store, a)>>
<1>1. /\ Types /\ store \in Stores /\ store.of[a] \in Sessions
      /\ c.alive => Begins(c)
      /\ SendCommandLines(a, lines)
      /\ window' = a /\ store' = store /\ typed' = FALSE /\ split' = Percentages
      /\ ui' = NewUi(store, a)
      /\ view' = SetCards(Reset(NewView, store.of[a]), store.of[a].processes)
  BY DEF OpenWindow, WindowInv, Types, Stores
<1>2. lines \in Seq(Lines) /\ Leads(lines, Config(store, a))
  BY <1>1, ConfigLeads
<1> HIDE DEF lines
<1>3. /\ c' \in Programs /\ active' = a /\ out' \in LastSnapshot
      /\ Begins(c') /\ Told(c', Config(store, a))
  BY <1>1, <1>2, SentLines
<1>4. NewView \in Views
  <2> DEFINE first == [tab |-> "EXECUTION", processes |-> <<>>, system |-> FALSE,
                       state |-> NULL, shown |-> <<>>, cards |-> <<>>]
  <2>1. <<>> \in Seq(Rows) /\ <<>> \in Seq(Seq(Rows) \cup BOOLEAN \cup LastSnapshot)
    OBVIOUS
  <2>2. first \in Views
    BY <2>1 DEF Views, Tabs, LastSnapshot
  <2>3. NewView = RefreshCurrentTab(first)
    BY DEF NewView
  <2> QED
    BY <2>2, <2>3, RefreshedType
<1>5. view' \in Views /\ Agrees(view', store.of[a])
  BY <1>1, <1>4, ResetAgrees
<1>6. ui' \in UiFlags /\ UiAgrees(ui', store, a)
  <2>1. NewUi(store, a) \in UiFlags
    BY <1>1, WindowAssumption DEF NewUi, UiFlags, Stores, Sessions
  <2>2. UiAgrees(NewUi(store, a), store, a)
    BY DEF NewUi, UiAgrees
  <2> QED
    BY <1>1, <2>1, <2>2
<1>7. Types'
  BY <1>1, <1>3, <1>5, <1>6 DEF Types, Shares
<1> QED
  BY <1>1, <1>3, <1>5, <1>6, <1>7, Concluded

(* So does going back to the menu.                                         *)
LEMMA GoesBack ==
    ASSUME WindowInv, GoBack
    PROVE  WindowInv'
<1>1. /\ window' = NULL /\ ui' = [ui EXCEPT !.timer = FALSE]
      /\ UNCHANGED <<store, active, split, view, c, out, typed>>
  BY DEF GoBack
<1>2. Types /\ ui' \in UiFlags
  BY <1>1 DEF WindowInv, Types, UiFlags
<1>3. Types'
  BY <1>1, <1>2 DEF Types
<1>4. c'.alive => Begins(c')
  BY <1>1 DEF WindowInv
<1> QED
  BY <1>1, <1>3, <1>4, Concluded

(* The program is told every setting that is stored while it is the        *)
(* window's own, and otherwise there is none that lives.                   *)
LEMMA ConfiguredIsTold ==
    ASSUME WindowInv, window # NULL, NEW s \in Stores, c' = Configured(s)
    PROVE  /\ c' \in Programs
           /\ c'.alive => Begins(c') /\ active = window
           /\ c'.alive /\ ~(typed /\ ~Ours) => Told(c', Config(s, window))
<1>1. /\ c \in Programs /\ window \in Algorithms
      /\ c.alive => Begins(c) /\ active = window
  BY OpenWindowKnows DEF WindowInv, Types
<1>2. CASE Ours
  <2> DEFINE lines == <<SetConfig(s, window)>>
  <2>1. lines \in Seq(Lines) /\ Leads(lines, Config(s, window))
    BY <1>1, ConfigLeads
  <2>2. c' = [c EXCEPT !.pipe = c.pipe \o lines]
    BY <1>2 DEF Configured, Sent
  <2> HIDE DEF lines
  <2>3. c' \in Programs /\ Begins(c') /\ Told(c', Config(s, window))
    BY <1>1, <1>2, <2>1, <2>2, ConfigIsTold DEF Ours
  <2> QED
    BY <1>1, <1>2, <2>3 DEF Ours
<1>3. CASE ~Ours
  <2>1. c' = c /\ ~c.alive
    BY <1>1, <1>3 DEF Configured, Ours
  <2> QED
    BY <1>1, <2>1
<1> QED
  BY <1>2, <1>3

(* A session of the window is replaced.                                    *)
LEMMA SessionReplaced ==
    ASSUME NEW s \in Stores, window \in Algorithms, NEW x \in Sessions
    PROVE  /\ [s EXCEPT !.of[window] = x] \in Stores
           /\ [s EXCEPT !.of[window] = x].of[window] = x
           /\ [s EXCEPT !.of[window] = x].memory = s.memory
  BY DEF Stores

(* A setting is stored, shown and told.                                    *)
LEMMA ChangeKnows ==
    ASSUME WindowInv, window # NULL, NEW s \in Stores, NEW u \in UiFlags,
           UiAgrees(u, s, window), Agrees(view, s.of[window]), Change(s, u)
    PROVE  WindowInv'
<1>1. /\ store' = s /\ ui' = u /\ c' = Configured(s) /\ typed' = (typed /\ ~Ours)
      /\ UNCHANGED <<active, window, split, view, out>> /\ Types
  BY DEF Change, WindowInv
<1>2. /\ c' \in Programs
      /\ c'.alive => Begins(c') /\ active = window
      /\ c'.alive /\ ~(typed /\ ~Ours) => Told(c', Config(s, window))
  BY <1>1, ConfiguredIsTold
<1>3. (typed /\ ~Ours) \in BOOLEAN
  OBVIOUS
<1>4. Types'
  BY <1>1, <1>2, <1>3 DEF Types
<1> QED
  BY <1>1, <1>2, <1>4, Concluded

(* So does a change of the memory.                                         *)
LEMMA ChangesMemory ==
    ASSUME WindowInv, NEW m \in Memories, ChangeMemoryAlgorithm(m)
    PROVE  WindowInv'
<1> DEFINE s == [store EXCEPT !.memory = m]
           u == [ui EXCEPT !.memory = m]
<1>1. Change(s, u) /\ window # NULL /\ store \in Stores /\ ui \in UiFlags
  BY DEF ChangeMemoryAlgorithm, Change, InWindow, WindowInv, Types
<1>2. UiAgrees(ui, store, window) /\ Agrees(view, store.of[window])
  BY <1>1, OpenWindowKnows DEF Mine
<1>3. s \in Stores /\ s.memory = m /\ s.of = store.of
  BY <1>1 DEF Stores
<1>4. u \in UiFlags /\ UiAgrees(u, s, window)
  BY <1>1, <1>2, <1>3 DEF UiFlags, UiAgrees
<1> HIDE DEF s, u
<1> QED
  BY <1>1, <1>2, <1>3, <1>4, ChangeKnows

(* So does a change of the switch cost.                                    *)
LEMMA ChangesCost ==
    ASSUME WindowInv, NEW x \in Costs, ChangeSwitchCost(x)
    PROVE  WindowInv'
<1> DEFINE mine == [Mine EXCEPT !.cost = x]
           s == [store EXCEPT !.of[window] = mine]
           u == [ui EXCEPT !.cost = x]
<1>1. /\ Change([store EXCEPT !.of[window].cost = x], u) /\ window # NULL
      /\ store \in Stores /\ ui \in UiFlags
  BY DEF ChangeSwitchCost, Change, InWindow, WindowInv, Types
<1>2. /\ UiAgrees(ui, store, window) /\ Agrees(view, Mine)
      /\ Mine \in Sessions /\ window \in Algorithms
  BY <1>1, OpenWindowKnows
<1>3. /\ mine \in Sessions /\ mine.cost = x /\ mine.quantum = Mine.quantum
      /\ mine.processes = Mine.processes /\ mine.state = Mine.state
      /\ mine.system = Mine.system
  BY <1>2 DEF Sessions
<1>4. [store EXCEPT !.of[window].cost = x] = s
  BY <1>1, <1>2 DEF Mine, Stores
<1> HIDE DEF mine
<1>5. s \in Stores /\ s.memory = store.memory /\ s.of[window] = mine
  BY <1>1, <1>2, <1>3, SessionReplaced
<1>6. Agrees(view, mine)
  BY <1>2, <1>3 DEF Agrees
<1>7. u \in UiFlags /\ u.memory = ui.memory /\ u.cost = x /\ u.quantum = ui.quantum
  BY <1>1 DEF UiFlags
<1>8. UiAgrees(u, s, window)
  BY <1>2, <1>3, <1>5, <1>7 DEF UiAgrees, Mine
<1> HIDE DEF s, u
<1> QED
  BY <1>1, <1>4, <1>5, <1>6, <1>7, <1>8, ChangeKnows

(* So does a change of the speed.                                          *)
LEMMA ChangesSpeed ==
    ASSUME WindowInv, NEW x \in Speeds, ChangeSpeed(x)
    PROVE  WindowInv'
<1> DEFINE mine == [Mine EXCEPT !.speed = x]
           s == [store EXCEPT !.of[window] = mine]
           u == [ui EXCEPT !.speed = x]
<1>1. /\ Change([store EXCEPT !.of[window].speed = x], u) /\ window # NULL
      /\ store \in Stores /\ ui \in UiFlags
  BY DEF ChangeSpeed, Change, InWindow, WindowInv, Types
<1>2. /\ UiAgrees(ui, store, window) /\ Agrees(view, Mine)
      /\ Mine \in Sessions /\ window \in Algorithms
  BY <1>1, OpenWindowKnows
<1>3. /\ mine \in Sessions /\ mine.cost = Mine.cost /\ mine.quantum = Mine.quantum
      /\ mine.processes = Mine.processes /\ mine.state = Mine.state
      /\ mine.system = Mine.system
  BY <1>2 DEF Sessions
<1>4. [store EXCEPT !.of[window].speed = x] = s
  BY <1>1, <1>2 DEF Mine, Stores
<1> HIDE DEF mine
<1>5. s \in Stores /\ s.memory = store.memory /\ s.of[window] = mine
  BY <1>1, <1>2, <1>3, SessionReplaced
<1>6. Agrees(view, mine)
  BY <1>2, <1>3 DEF Agrees
<1>7. u \in UiFlags /\ u.memory = ui.memory /\ u.cost = ui.cost /\ u.quantum = ui.quantum
  BY <1>1 DEF UiFlags
<1>8. UiAgrees(u, s, window)
  BY <1>2, <1>3, <1>5, <1>7 DEF UiAgrees, Mine
<1> HIDE DEF s, u
<1> QED
  BY <1>1, <1>4, <1>5, <1>6, <1>7, <1>8, ChangeKnows

(* The cards that a change of the quantum sets again are the same.         *)
LEMMA ChangesQuantum ==
    ASSUME WindowInv, NEW q \in Quanta, ChangeQuantum(q)
    PROVE  WindowInv'
<1> DEFINE mine == [Mine EXCEPT !.quantum = q]
           s == [store EXCEPT !.of[window] = mine]
           u == [ui EXCEPT !.quantum = q, !.timer = TRUE]
           v == SetCards(view, Mine.processes)
<1>1. /\ window # NULL /\ Types /\ store \in Stores /\ ui \in UiFlags /\ view \in Views
      /\ UNCHANGED <<active, window, split>>
  BY DEF ChangeQuantum, InWindow, WindowInv, Types
<1>2. /\ UiAgrees(ui, store, window) /\ Agrees(view, Mine)
      /\ Mine \in Sessions /\ window \in Algorithms
  BY <1>1, OpenWindowKnows
<1>3. /\ mine \in Sessions /\ mine.cost = Mine.cost /\ mine.quantum = q
      /\ mine.processes = Mine.processes /\ mine.state = Mine.state
      /\ mine.system = Mine.system
  BY <1>2 DEF Sessions
<1>4. [store EXCEPT !.of[window].quantum = q] = s
  BY <1>1, <1>2 DEF Mine, Stores
<1>5. v = view
  BY <1>1, <1>2 DEF SetCards, Agrees, Views
<1>6. c' = Configured(s) /\ PollWith(s, v, u) /\ typed' = (typed /\ ~Ours)
  BY <1>4 DEF ChangeQuantum
<1> HIDE DEF mine
<1>7. s \in Stores /\ s.memory = store.memory /\ s.of[window] = mine
  BY <1>1, <1>2, <1>3, SessionReplaced
<1>8. Agrees(view, mine)
  BY <1>2, <1>3 DEF Agrees
<1>9. u \in UiFlags /\ u.memory = ui.memory /\ u.cost = ui.cost /\ u.quantum = q
  BY <1>1 DEF UiFlags
<1>10. UiAgrees(u, s, window)
  BY <1>2, <1>3, <1>7, <1>9 DEF UiAgrees, Mine
<1> HIDE DEF s, u, v
<1>11. /\ store' \in Stores /\ view' \in Views /\ ui' \in UiFlags
       /\ out' \in LastSnapshot
       /\ Config(store', window) = Config(s, window)
       /\ UiAgrees(ui', store', window) /\ Agrees(view', store'.of[window])
  BY <1>1, <1>2, <1>5, <1>6, <1>7, <1>8, <1>9, <1>10, PollKnows
<1>12. /\ c' \in Programs
       /\ c'.alive => Begins(c') /\ active = window
       /\ c'.alive /\ ~(typed /\ ~Ours) => Told(c', Config(s, window))
  BY <1>1, <1>6, <1>7, ConfiguredIsTold
<1>13. (typed /\ ~Ours) \in BOOLEAN
  OBVIOUS
<1>14. Types'
  BY <1>1, <1>6, <1>11, <1>12, <1>13 DEF Types
<1> QED
  BY <1>1, <1>6, <1>11, <1>12, <1>14, Concluded

(* Handlers that neither store nor send.                                   *)
LEMMA LocalSteps ==
    ASSUME WindowInv, window # NULL,
           \/ \E s \in Splits : MoveSlider(s)
           \/ \E t \in Tabs : SelectTab(t)
           \/ StartWithout
    PROVE  WindowInv'
<1>1. UNCHANGED <<store, active, window, c, out, typed>> /\ Types
  BY DEF MoveSlider, SelectTab, StartWithout, WindowInv
<1>2. view \in Views /\ ui \in UiFlags /\ split \in Shares
  BY <1>1 DEF Types
<1>3. UiAgrees(ui, store, window) /\ Agrees(view, Mine)
  BY OpenWindowKnows
<1>4. split' \in Shares
  BY <1>2 DEF MoveSlider, SelectTab, StartWithout, Shares
<1>5. ui' \in UiFlags /\ UiAgrees(ui', store, window)
  <2>1. CASE ui' = ui
    BY <1>2, <1>3, <2>1
  <2>2. CASE ui' = [ui EXCEPT !.executing = FALSE]
    BY <1>2, <1>3, <2>2 DEF UiFlags, UiAgrees
  <2> QED
    BY <2>1, <2>2 DEF MoveSlider, SelectTab, StartWithout
<1>6. view' \in Views /\ Agrees(view', Mine)
  <2>1. CASE view' = view
    BY <1>2, <1>3, <2>1
  <2>2. ASSUME NEW t \in Tabs, view' = RefreshCurrentTab([view EXCEPT !.tab = t])
        PROVE  view' \in Views /\ Agrees(view', Mine)
    <3> DEFINE w == [view EXCEPT !.tab = t]
    <3>1. w \in Views /\ w.processes = view.processes /\ w.cards = view.cards
          /\ w.state = view.state
      BY <1>2 DEF Views
    <3> HIDE DEF w
    <3> QED
      BY <1>3, <2>2, <3>1, RefreshedType DEF Agrees, w
  <2> QED
    BY <2>1, <2>2 DEF MoveSlider, SelectTab, StartWithout
<1>7. Types'
  BY <1>1, <1>4, <1>5, <1>6 DEF Types
<1>8. c'.alive => Begins(c')
  BY <1>1 DEF WindowInv
<1>9. c'.alive => active' = window'
  BY <1>1, OpenWindowKnows
<1>10. c'.alive /\ ~typed' => Told(c', Config(store', window'))
  BY <1>1, OpenWindowKnows
<1> QED
  BY <1>1, <1>5, <1>6, <1>7, <1>8, <1>9, <1>10, Concluded DEF Mine

(* The window's own program gets lines that set nothing, or a program is   *)
(* told everything: the settings of the store stay.                        *)
LEMMA SendKnows ==
    ASSUME WindowInv, window # NULL, NEW lines \in Seq(Lines),
           SendCommandLines(window, lines),
           \/ Leads(lines, Config(store, window)) /\ typed' \in {FALSE, typed}
           \/ Ours /\ Silent(lines) /\ typed' = typed
    PROVE  /\ c' \in Programs /\ out' \in LastSnapshot /\ active' = window
           /\ Begins(c') /\ (~typed' => Told(c', Config(store, window)))
<1>1. /\ window \in Algorithms /\ Types /\ c \in Programs
      /\ c.alive => Begins(c)
      /\ c.alive /\ ~typed => Told(c, Config(store, window))
  BY OpenWindowKnows DEF WindowInv, Types
<1>2. /\ c' \in Programs /\ active' = window /\ out' \in LastSnapshot
      /\ \A k : Leads(lines, k) => Begins(c') /\ Told(c', k)
      /\ Silent(lines) /\ c.alive /\ active = window =>
           Begins(c') /\ \A k : Told(c, k) => Told(c', k)
  BY <1>1, SentLines
<1> QED
  BY <1>1, <1>2 DEF Ours

(* The form's process, and the line that adds it.                          *)
LEMMA ProcessType ==
    ASSUME NEW n \in Names, split \in Shares
    PROVE  Process(n) \in Rows /\ Add(Process(n)) \in Lines /\ ~Sets(Add(Process(n)))
<1>1. n.length \in Nat /\ n.wide \in Nat
  BY WindowAssumption
<1>2. Bytes(n) \in Int
  BY <1>1 DEF Bytes, AtMost
<1>3. Process(n) \in Rows
  BY <1>2 DEF Process, Rows
<1>4. Add(Process(n)) \in Lines
  BY <1>3, LineTypes
<1> QED
  BY <1>3, <1>4 DEF Add, Sets

(* So does adding a process.                                               *)
LEMMA AddsProcess ==
    ASSUME WindowInv, NEW n \in Names, AddProcess(n)
    PROVE  WindowInv'
<1> DEFINE p == Process(n)
           list == Append(Mine.processes, p)
           mine == [Mine EXCEPT !.processes = list]
           s == [store EXCEPT !.of[window] = mine]
<1>1. /\ window # NULL /\ Types /\ store \in Stores /\ ui \in UiFlags /\ view \in Views
      /\ split \in Shares /\ c \in Programs /\ typed \in BOOLEAN
      /\ UNCHANGED <<window, split>>
  BY DEF AddProcess, InWindow, WindowInv, Types
<1>2. /\ UiAgrees(ui, store, window) /\ Mine \in Sessions /\ window \in Algorithms
  BY <1>1, OpenWindowKnows
<1>3. p \in Rows /\ Add(p) \in Lines /\ ~Sets(Add(p))
  BY <1>1, ProcessType
<1>4. /\ store' = [store EXCEPT !.of[window].processes = Append(@, p)]
      /\ SendCommandLines(window, LoadProcess(p))
      /\ view' = SetCards(Reset(view, store'.of[window]), store'.of[window].processes)
      /\ ui' = [ui EXCEPT !.timer = TRUE, !.executing = ui.started /\ ~ui.paused]
      /\ typed' = (typed /\ Ours)
  BY DEF AddProcess
<1> HIDE DEF p
<1>5. list \in Seq(Rows)
  BY <1>2, <1>3 DEF Sessions
<1>6. store' = s
  BY <1>1, <1>2, <1>4 DEF Mine, Stores, Sessions
<1> HIDE DEF list
<1>7. /\ mine \in Sessions /\ mine.cost = Mine.cost /\ mine.quantum = Mine.quantum
      /\ mine.speed = Mine.speed
  BY <1>2, <1>5 DEF Sessions
<1> HIDE DEF mine
<1>8. s \in Stores /\ s.memory = store.memory /\ s.of[window] = mine
  BY <1>1, <1>2, <1>7, SessionReplaced
<1> HIDE DEF s
<1>9. Config(store', window) = Config(store, window)
  BY <1>6, <1>7, <1>8 DEF Config, Mine
<1>10. view' \in Views /\ Agrees(view', store'.of[window])
  BY <1>1, <1>4, <1>6, <1>7, <1>8, ResetAgrees
<1>11. ui' \in UiFlags /\ UiAgrees(ui', store', window)
  BY <1>1, <1>2, <1>4, <1>6, <1>7, <1>8 DEF UiFlags, UiAgrees, Mine
<1> DEFINE lines == LoadProcess(p)
<1>12. /\ lines \in Seq(Lines)
       /\ \/ Leads(lines, Config(store, window)) /\ typed' \in {FALSE, typed}
          \/ Ours /\ Silent(lines) /\ typed' = typed
  <2>1. <<Add(p)>> \in Seq(Lines) /\ Silent(<<Add(p)>>)
    BY <1>3, SingleLine
  <2>2. CASE Ours
    <3>1. typed' = typed
      BY <1>1, <1>4, <2>2
    <3> QED
      BY <2>1, <2>2, <3>1 DEF LoadProcess
  <2>3. CASE ~Ours
    <3>1. LoadCommands(<<Add(p)>>) \in Seq(Lines)
          /\ Leads(LoadCommands(<<Add(p)>>), Config(store, window))
      BY <1>1, <1>2, <2>1, LoadLeads
    <3>2. typed' = FALSE
      BY <1>1, <1>4, <2>3
    <3> QED
      BY <2>3, <3>1, <3>2 DEF LoadProcess
  <2> QED
    BY <2>2, <2>3
<1> HIDE DEF lines
<1>13. /\ c' \in Programs /\ out' \in LastSnapshot /\ active' = window
       /\ Begins(c') /\ (~typed' => Told(c', Config(store, window)))
  BY <1>1, <1>4, <1>12, SendKnows DEF lines
<1>14. typed' \in BOOLEAN
  BY <1>1, <1>4
<1>15. Types'
  BY <1>1, <1>2, <1>6, <1>8, <1>10, <1>11, <1>13, <1>14 DEF Types
<1> QED
  BY <1>1, <1>9, <1>10, <1>11, <1>13, <1>15, Concluded

(* So does adding random processes.                                        *)
LEMMA AddsRandomProcesses ==
    ASSUME WindowInv, NEW n \in RandomCounts, AddRandomProcesses(n)
    PROVE  WindowInv'
<1> DEFINE count == Mine.random + n
           mine == [Mine EXCEPT !.random = count]
           s == [store EXCEPT !.of[window] = mine]
           lines == LoadCommands(RandomProcesses(n))
<1>1. /\ window # NULL /\ Types /\ store \in Stores /\ ui \in UiFlags /\ view \in Views
      /\ c \in Programs /\ UNCHANGED <<window, split>> /\ n \in Nat
  BY WindowAssumption DEF AddRandomProcesses, InWindow, WindowInv, Types
<1>2. /\ UiAgrees(ui, store, window) /\ Agrees(view, Mine)
      /\ Mine \in Sessions /\ window \in Algorithms
  BY <1>1, OpenWindowKnows
<1>3. count \in Nat
  BY <1>1, <1>2 DEF Sessions
<1>4. /\ store' = [store EXCEPT !.of[window].random = @ + n]
      /\ SendCommandLines(window, lines)
      /\ view' = Reset(view, Mine)
      /\ ui' = [ui EXCEPT !.timer = TRUE, !.executing = FALSE]
      /\ typed' = FALSE
  BY DEF AddRandomProcesses
<1>5. store' = s
  BY <1>1, <1>2, <1>4 DEF Mine, Stores, Sessions
<1> HIDE DEF count
<1>6. /\ mine \in Sessions /\ mine.cost = Mine.cost /\ mine.quantum = Mine.quantum
      /\ mine.speed = Mine.speed /\ mine.processes = Mine.processes
      /\ mine.state = Mine.state /\ mine.system = Mine.system
  BY <1>2, <1>3 DEF Sessions
<1> HIDE DEF mine
<1>7. s \in Stores /\ s.memory = store.memory /\ s.of[window] = mine
  BY <1>1, <1>2, <1>6, SessionReplaced
<1> HIDE DEF s
<1>8. Config(store', window) = Config(store, window)
  BY <1>5, <1>6, <1>7 DEF Config, Mine
<1>9. view' \in Views /\ Agrees(view', store'.of[window])
  <2>1. view' \in Views /\ Agrees(view', Mine)
    BY <1>1, <1>2, <1>4, ResetAgrees DEF Agrees
  <2> QED
    BY <1>5, <1>6, <1>7, <2>1 DEF Agrees
<1>10. ui' \in UiFlags /\ UiAgrees(ui', store', window)
  BY <1>1, <1>2, <1>4, <1>5, <1>6, <1>7 DEF UiFlags, UiAgrees, Mine
<1>11. lines \in Seq(Lines) /\ Leads(lines, Config(store, window))
  <2> DEFINE line == [name |-> "RANDOM", count |-> n]
  <2>1. line \in Lines /\ ~Sets(line) /\ RandomProcesses(n) = <<line>>
    BY <1>1, LineTypes DEF Sets, RandomProcesses
  <2> HIDE DEF line
  <2>2. RandomProcesses(n) \in Seq(Lines) /\ Silent(RandomProcesses(n))
    BY <2>1, SingleLine
  <2> QED
    BY <1>1, <1>2, <2>2, LoadLeads
<1> HIDE DEF lines
<1>12. /\ c' \in Programs /\ out' \in LastSnapshot /\ active' = window
       /\ Begins(c') /\ (~typed' => Told(c', Config(store, window)))
  BY <1>1, <1>4, <1>11, SendKnows
<1>13. Types'
  BY <1>1, <1>2, <1>4, <1>5, <1>7, <1>9, <1>10, <1>12 DEF Types
<1> QED
  BY <1>1, <1>8, <1>9, <1>10, <1>12, <1>13, Concluded

(* Start writes the configuration, the processes for a new program, and    *)
(* RUN.                                                                    *)
LEMMA RunLeads ==
    ASSUME store \in Stores, window \in Algorithms
    PROVE  RunCommands \in Seq(Lines) /\ Leads(RunCommands, Config(store, window))
<1> DEFINE new == IF Ours THEN <<>> ELSE Adds
           run == <<Plain("RUN")>>
<1>1. Mine.processes \in Seq(Rows)
  BY DEF Mine, Stores, Sessions
<1>2. Adds \in Seq(Lines) /\ Silent(Adds)
  <2>1. /\ Len(Mine.processes) \in Nat
        /\ DOMAIN Mine.processes = 1 .. Len(Mine.processes)
        /\ \A i \in 1 .. Len(Mine.processes) : Mine.processes[i] \in Rows
    BY <1>1, LenProperties
  <2>2. \A i \in 1 .. Len(Mine.processes) :
           Add(Mine.processes[i]) \in Lines /\ ~Sets(Add(Mine.processes[i]))
    BY <2>1, LineTypes DEF Add, Sets
  <2>3. Adds = [i \in 1 .. Len(Mine.processes) |-> Add(Mine.processes[i])]
    BY <2>1 DEF Adds
  <2>4. Adds \in Seq(Lines) /\ Len(Adds) = Len(Mine.processes)
    BY <2>1, <2>2, <2>3
  <2>5. \A i \in 1 .. Len(Adds) : ~Sets(Adds[i])
    BY <2>2, <2>3, <2>4
  <2> QED
    BY <2>4, <2>5 DEF Silent
<1>3. new \in Seq(Lines) /\ Silent(new)
  <2>1. <<>> \in Seq(Lines) /\ Silent(<<>>)
    BY DEF Silent
  <2> QED
    BY <1>2, <2>1
<1> HIDE DEF new
<1>4. LoadCommands(new) \in Seq(Lines) /\ Leads(LoadCommands(new), Config(store, window))
  BY <1>3, LoadLeads
<1>5. run \in Seq(Lines) /\ Silent(run)
  <2>1. Plain("RUN") \in Lines /\ ~Sets(Plain("RUN"))
    BY LineTypes DEF Plain, Sets
  <2> QED
    BY <2>1, SingleLine
<1> HIDE DEF run
<1>6. RunCommands = LoadCommands(new) \o run
  BY DEF RunCommands, new, run
<1> QED
  BY <1>4, <1>5, <1>6, LeadsOn

(* So does starting.                                                       *)
LEMMA Starts ==
    ASSUME WindowInv, StartSimulation
    PROVE  WindowInv'
<1>1. /\ window # NULL /\ Types /\ store \in Stores /\ ui \in UiFlags /\ view \in Views
      /\ UNCHANGED <<store, window, split>> /\ SendCommandLines(window, RunCommands)
      /\ view' = SetCards(Reset(view, Mine), Mine.processes)
      /\ ui' = Executing(ui) /\ typed' = FALSE
  BY DEF StartSimulation, InWindow, WindowInv, Types
<1>2. /\ UiAgrees(ui, store, window) /\ Mine \in Sessions /\ window \in Algorithms
  BY <1>1, OpenWindowKnows
<1>3. RunCommands \in Seq(Lines) /\ Leads(RunCommands, Config(store, window))
  BY <1>1, <1>2, RunLeads
<1>4. /\ c' \in Programs /\ out' \in LastSnapshot /\ active' = window
      /\ Begins(c') /\ (~typed' => Told(c', Config(store, window)))
  BY <1>1, <1>3, SendKnows
<1>5. view' \in Views /\ Agrees(view', Mine)
  BY <1>1, <1>2, ResetAgrees
<1>6. ui' \in UiFlags /\ UiAgrees(ui', store, window)
  BY <1>1, <1>2 DEF Executing, UiFlags, UiAgrees
<1>7. Types'
  BY <1>1, <1>2, <1>4, <1>5, <1>6 DEF Types
<1> QED
  BY <1>1, <1>4, <1>5, <1>6, <1>7, Concluded DEF Mine

(* So does pausing.                                                        *)
LEMMA Pauses ==
    ASSUME WindowInv, PauseSimulation
    PROVE  WindowInv'
<1>1. /\ window # NULL /\ Types /\ ui \in UiFlags /\ view \in Views /\ c \in Programs
      /\ UNCHANGED <<store, active, window, split, out, typed>>
      /\ view' = Reset(view, Mine)
      /\ c.alive => Begins(c)
  BY DEF PauseSimulation, InWindow, WindowInv, Types
<1>2. /\ UiAgrees(ui, store, window) /\ Agrees(view, Mine)
      /\ Mine \in Sessions /\ window \in Algorithms
      /\ c.alive => active = window
      /\ c.alive /\ ~typed => Told(c, Config(store, window))
  BY <1>1, OpenWindowKnows
<1>3. view' \in Views /\ Agrees(view', Mine)
  BY <1>1, <1>2, ResetAgrees DEF Agrees
<1>4. ASSUME c' \in Programs, c'.alive => c.alive /\ Begins(c'),
             \A k : Told(c, k) /\ c'.alive => Told(c', k),
             ui' \in UiFlags, UiAgrees(ui', store, window)
      PROVE  WindowInv'
  <2>1. Types'
    BY <1>1, <1>3, <1>4 DEF Types
  <2> QED
    BY <1>1, <1>2, <1>3, <1>4, <2>1, Concluded DEF Mine
<1>5. CASE c.alive
  <2> DEFINE line == Plain(IF ui.paused THEN "RUN" ELSE "PAUSE")
  <2>1. line \in Lines /\ ~Sets(line)
    BY LineTypes DEF Plain, Sets
  <2>2. c' = [c EXCEPT !.pipe = c.pipe \o <<line>>]
        /\ ui' = [ui EXCEPT !.paused = ~ui.paused, !.executing = ui.paused]
    BY <1>5 DEF PauseSimulation, Sent
  <2> HIDE DEF line
  <2>3. <<line>> \in Seq(Lines) /\ Silent(<<line>>)
    BY <2>1, SingleLine
  <2>4. c' \in Programs /\ Begins(c') /\ \A k : Told(c, k) => Told(c', k)
    BY <1>1, <1>5, <2>2, <2>3, MoreLines
  <2>5. ui' \in UiFlags /\ UiAgrees(ui', store, window)
    BY <1>1, <1>2, <2>2 DEF UiFlags, UiAgrees
  <2> QED
    BY <1>4, <1>5, <2>4, <2>5
<1>6. CASE ~c.alive
  <2>1. c' = c /\ ui' = ui
    BY <1>6 DEF PauseSimulation
  <2> QED
    BY <1>1, <1>2, <1>4, <1>6, <2>1
<1> QED
  BY <1>5, <1>6

(* Stop shows the last words and leaves no program.                        *)
LEMMA Stops ==
    ASSUME WindowInv, StopSimulation
    PROVE  WindowInv'
<1>1. /\ window # NULL /\ Types /\ ui \in UiFlags /\ view \in Views /\ c \in Programs
      /\ store \in Stores /\ active \in Algorithms \cup {NULL}
      /\ UNCHANGED <<window, split, typed>> /\ Ended
      /\ ui' = [Stopped(ui) EXCEPT !.timer = FALSE]
      /\ c.alive => Begins(c)
  BY DEF StopSimulation, InWindow, WindowInv, Types
<1>2. /\ UiAgrees(ui, store, window) /\ Agrees(view, Mine) /\ window \in Algorithms
  BY <1>1, OpenWindowKnows
<1>3. PICK last \in LastWords :
         /\ store' = Applied(store, last)
         /\ view' = Reset(PolledView(view, store'.of[window], last), store'.of[window])
  BY DEF StopSimulation
<1>4. last \in LastSnapshot
  BY <1>1, LastWordsType
<1>5. /\ store' \in Stores /\ store'.memory = store.memory
      /\ store'.of[window].cost = store.of[window].cost
      /\ store'.of[window].quantum = store.of[window].quantum
      /\ last = NULL => store' = store
  BY <1>1, <1>2, <1>3, <1>4, AppliedType
<1> DEFINE session == store'.of[window]
           polled == PolledView(view, session, last)
<1>6. session \in Sessions
  BY <1>2, <1>5 DEF Stores
<1>7. last = NULL => Agrees(view, session)
  BY <1>2, <1>5 DEF Mine
<1> HIDE DEF session
<1>8. polled \in Views /\ Agrees(polled, session)
  BY <1>1, <1>6, <1>7, PolledAgrees
<1> HIDE DEF polled
<1>9. Reset(polled, session) \in Views /\ Agrees(Reset(polled, session), session)
  BY <1>6, <1>8, ResetAgrees DEF Agrees
<1>10. view' \in Views /\ Agrees(view', store'.of[window])
  BY <1>3, <1>9 DEF polled, session
<1>11. ui' \in UiFlags /\ UiAgrees(ui', store', window)
  BY <1>1, <1>2, <1>5 DEF Stopped, UiFlags, UiAgrees
<1>12. c' \in Programs /\ ~c'.alive /\ out' \in LastSnapshot
       /\ active' \in Algorithms \cup {NULL}
  BY <1>1, DeadType DEF Ended, LastSnapshot
<1>13. Types'
  BY <1>1, <1>5, <1>10, <1>11, <1>12 DEF Types
<1> QED
  BY <1>1, <1>10, <1>11, <1>12, <1>13, Concluded

(* Limpiar todo needs no running simulation, but may end a program.        *)
LEMMA Clears ==
    ASSUME WindowInv, ClearProcesses
    PROVE  WindowInv'
<1>1. /\ window # NULL /\ Types /\ ui \in UiFlags /\ view \in Views /\ c \in Programs
      /\ store \in Stores /\ active \in Algorithms \cup {NULL} /\ out \in LastSnapshot
      /\ UNCHANGED <<window, split, typed>>
      /\ view' = ClearedView(view, store'.of[window])
      /\ c.alive => Begins(c)
  BY DEF ClearProcesses, InWindow, WindowInv, Types
<1>2. UiAgrees(ui, store, window) /\ window \in Algorithms
  BY <1>1, OpenWindowKnows
<1>3. PICK last \in LastWords :
         store' = [(IF c.alive THEN Applied(store, last) ELSE store)
                      EXCEPT !.of[window] = Cleared(@)]
  BY DEF ClearProcesses
<1> DEFINE s == IF c.alive THEN Applied(store, last) ELSE store
<1>4. last \in LastSnapshot
  BY <1>1, LastWordsType
<1>5. /\ s \in Stores /\ s.memory = store.memory
      /\ s.of[window].cost = store.of[window].cost
      /\ s.of[window].quantum = store.of[window].quantum
  BY <1>1, <1>2, <1>4, AppliedType
<1>6. store' = [s EXCEPT !.of[window] = Cleared(@)]
  BY <1>3
<1> HIDE DEF s
<1> DEFINE mine == s.of[window]
           blank == Cleared(mine)
<1>7. mine \in Sessions
  BY <1>2, <1>5 DEF Stores
<1>8. store' = [s EXCEPT !.of[window] = blank]
  BY <1>2, <1>5, <1>6 DEF Stores
<1> HIDE DEF mine
<1>9. /\ blank \in Sessions /\ blank.cost = mine.cost /\ blank.quantum = mine.quantum
      /\ ClearedView(view, blank) \in Views /\ Agrees(ClearedView(view, blank), blank)
  BY <1>1, <1>7, ClearedAgrees
<1> HIDE DEF blank
<1>10. store' \in Stores /\ store'.memory = s.memory /\ store'.of[window] = blank
  BY <1>2, <1>5, <1>8, <1>9, SessionReplaced
<1>11. view' \in Views /\ Agrees(view', store'.of[window])
  BY <1>1, <1>9, <1>10
<1>12. store'.of[window].cost = store.of[window].cost
       /\ store'.of[window].quantum = store.of[window].quantum
       /\ store'.memory = store.memory
  BY <1>5, <1>9, <1>10 DEF mine
<1>13. ui' \in UiFlags /\ UiAgrees(ui', store', window)
  <2>1. \/ ui' = [Stopped(ui) EXCEPT !.timer = FALSE]
        \/ ui' = [ui EXCEPT !.executing = FALSE]
    BY DEF ClearProcesses
  <2> QED
    BY <1>1, <1>2, <1>12, <2>1 DEF Stopped, UiFlags, UiAgrees
<1>14. c' \in Programs /\ ~c'.alive /\ out' \in LastSnapshot
       /\ active' \in Algorithms \cup {NULL}
  <2>1. CASE c.alive
    BY <1>1, <2>1, DeadType DEF ClearProcesses, Ended, LastSnapshot
  <2>2. CASE ~c.alive
    BY <1>1, <2>2 DEF ClearProcesses
  <2> QED
    BY <2>1, <2>2
<1>15. Types'
  BY <1>1, <1>10, <1>11, <1>13, <1>14 DEF Types
<1> QED
  BY <1>1, <1>11, <1>13, <1>14, <1>15, Concluded

(* A typed line; one that sets the cost is excepted from then on.          *)
LEMMA TypesLine ==
    ASSUME WindowInv, NEW line \in TypedLines, SendLogCommand(line)
    PROVE  WindowInv'
<1>1. /\ window # NULL /\ Types /\ ui \in UiFlags /\ view \in Views /\ c \in Programs
      /\ store \in Stores /\ typed \in BOOLEAN
      /\ UNCHANGED <<active, window, split>>
      /\ c.alive => Begins(c)
  BY DEF SendLogCommand, InWindow, WindowInv, Types
<1>2. /\ UiAgrees(ui, store, window) /\ Agrees(view, store.of[window])
      /\ window \in Algorithms
      /\ c.alive => active = window
      /\ c.alive /\ ~typed => Told(c, Config(store, window))
  BY <1>1, OpenWindowKnows DEF Mine
<1>3. line \in Lines /\ line.name \in {"RUN", "PAUSE", "STOP", "SET_SWITCH_COST"}
  BY LineTypes DEF TypedLines, Plain
<1>4. CASE c.alive
  <2> DEFINE u == [TypedUi(line) EXCEPT !.timer = TRUE]
  <2>1. /\ c' = [c EXCEPT !.pipe = c.pipe \o <<line>>]
        /\ typed' = (typed \/ line.name = "SET_SWITCH_COST")
        /\ PollWith(store, view, u)
    BY <1>4 DEF SendLogCommand, Sent
  <2>2. u \in UiFlags /\ UiAgrees(u, store, window)
    <3> DEFINE v == TypedUi(line)
    <3>1. v \in UiFlags /\ UiAgrees(v, store, window)
      BY <1>1, <1>2 DEF TypedUi, Executing, Stopped, UiFlags, UiAgrees
    <3> HIDE DEF v
    <3>2. u = [v EXCEPT !.timer = TRUE]
      BY DEF v
    <3> HIDE DEF u
    <3> QED
      BY <3>1, <3>2 DEF UiFlags, UiAgrees
  <2> HIDE DEF u
  <2>3. /\ store' \in Stores /\ view' \in Views /\ ui' \in UiFlags
        /\ out' \in LastSnapshot
        /\ Config(store', window) = Config(store, window)
        /\ UiAgrees(ui', store', window) /\ Agrees(view', store'.of[window])
    BY <1>1, <1>2, <2>1, <2>2, PollKnows
  <2>4. <<line>> \in Seq(Lines) /\ (~Sets(line) => Silent(<<line>>))
    BY <1>3, SingleLine
  <2>5. /\ c' \in Programs /\ Begins(c')
        /\ Silent(<<line>>) => \A k : Told(c, k) => Told(c', k)
    BY <1>1, <1>4, <2>1, <2>4, MoreLines
  <2>6. typed' \in BOOLEAN /\ (~typed' => ~typed /\ ~Sets(line))
    BY <1>1, <1>3, <2>1 DEF Sets
  <2>7. Types'
    BY <1>1, <2>3, <2>5, <2>6 DEF Types
  <2>8. ~typed' => Told(c', Config(store', window'))
    BY <1>1, <1>2, <1>4, <2>3, <2>4, <2>5, <2>6
  <2> QED
    BY <1>1, <1>2, <1>4, <2>3, <2>5, <2>7, <2>8, Concluded
<1>5. CASE ~c.alive
  <2>1. ui' = [ui EXCEPT !.executing = FALSE] /\ UNCHANGED <<store, view, c, out, typed>>
    BY <1>5 DEF SendLogCommand
  <2>2. ui' \in UiFlags /\ UiAgrees(ui', store, window)
    BY <1>1, <1>2, <2>1 DEF UiFlags, UiAgrees
  <2>3. Types'
    BY <1>1, <2>1, <2>2 DEF Types
  <2> QED
    BY <1>1, <1>2, <1>5, <2>1, <2>2, <2>3, Concluded
<1> QED
  BY <1>4, <1>5

-----------------------------------------------------------------------------
(* The theorems.                                                           *)

(* It holds before the first window.                                       *)
LEMMA WindowStarts ==
    ASSUME Init
    PROVE  WindowInv
<1>1. <<>> \in Seq(Rows) /\ <<>> \in Seq(Lines)
      /\ <<>> \in Seq(Seq(Rows) \cup BOOLEAN \cup LastSnapshot)
  OBVIOUS
<1>2. NewSession \in Sessions
  BY <1>1, WindowAssumption DEF NewSession, Sessions, LastSnapshot
<1>3. store \in Stores /\ store = EmptyStore
  BY <1>2, WindowAssumption DEF Init, EmptyStore, Stores
<1>4. NewUi(EmptyStore, ROUND_ROBIN) \in UiFlags
  BY <1>3, WindowAssumption DEF NewUi, UiFlags, Stores, Sessions
<1>5. ui \in UiFlags
  BY <1>4 DEF Init, UiFlags
<1>6. view \in Views
  <2> DEFINE first == [tab |-> "EXECUTION", processes |-> <<>>, system |-> FALSE,
                       state |-> NULL, shown |-> <<>>, cards |-> <<>>]
  <2>1. first \in Views
    BY <1>1 DEF Views, Tabs, LastSnapshot
  <2>2. view = RefreshCurrentTab(first)
    BY DEF Init, NewView
  <2> QED
    BY <2>1, <2>2, RefreshedType
<1>7. NewC \in Programs
  BY <1>1 DEF NewC, Programs
<1>8. c \in Programs /\ ~c.alive
  BY <1>7, DeadType DEF Init
<1>9. Types
  BY <1>3, <1>5, <1>6, <1>8 DEF Init, Types, Shares, LastSnapshot
<1> QED
  BY <1>8, <1>9 DEF Init, WindowInv, SettingsTold, ViewsAgree

(* Every step keeps it.                                                    *)
LEMMA WindowSteps ==
    ASSUME WindowInv, [Next]_vars
    PROVE  WindowInv'
<1>1. CASE \E a \in Algorithms : OpenWindow(a)
  BY <1>1, Opens
<1>2. CASE GoBack
  BY <1>2, GoesBack
<1>3. CASE \E m \in Memories : ChangeMemoryAlgorithm(m)
  BY <1>3, ChangesMemory
<1>4. CASE \E x \in Costs : ChangeSwitchCost(x)
  BY <1>4, ChangesCost
<1>5. CASE \E x \in Speeds : ChangeSpeed(x)
  BY <1>5, ChangesSpeed
<1>6. CASE \E q \in Quanta : ChangeQuantum(q)
  BY <1>6, ChangesQuantum
<1>7. CASE \/ \E s \in Splits : MoveSlider(s)
           \/ \E t \in Tabs : SelectTab(t)
           \/ StartWithout
  <2>1. window # NULL
    BY <1>7 DEF MoveSlider, SelectTab, StartWithout, InWindow
  <2> QED
    BY <1>7, <2>1, LocalSteps
<1>8. CASE \E n \in Names : AddProcess(n)
  BY <1>8, AddsProcess
<1>9. CASE \E n \in RandomCounts : AddRandomProcesses(n)
  BY <1>9, AddsRandomProcesses
<1>10. CASE StartSimulation
  BY <1>10, Starts
<1>11. CASE PauseSimulation
  BY <1>11, Pauses
<1>12. CASE StopSimulation
  BY <1>12, Stops
<1>13. CASE ClearProcesses
  BY <1>13, Clears
<1>14. CASE \E line \in TypedLines : SendLogCommand(line)
  BY <1>14, TypesLine
<1>15. CASE ReadCommand \/ Tick \/ EndOfSimulation
  BY <1>15, ProgramSteps
<1>16. CASE Poll
  BY <1>16, Polls
<1>17. CASE UNCHANGED vars
  BY <1>17 DEF vars, WindowInv, Types, SettingsTold, ViewsAgree, Mine, Begins, Told,
               Silent, Config, Drawn
<1> QED
  BY <1>1, <1>2, <1>3, <1>4, <1>5, <1>6, <1>7, <1>8, <1>9, <1>10, <1>11, <1>12,
     <1>13, <1>14, <1>15, <1>16, <1>17 DEF Next, User, Quiet

(* Whatever windows, handlers, typed commands and polls come between, the  *)
(* program that lives has been told, by the last SET_CONFIG in its pipe or *)
(* by one it has read, every setting that the store holds for the open     *)
(* window, and the tabs and cards show what the store holds.               *)
THEOREM WindowInvariant == Spec => []WindowInv
  BY WindowStarts, WindowSteps, PTL DEF Spec

(* A program that has read its commands has the settings that the header   *)
(* of its window shows.                                                    *)
THEOREM SettingsAreInForce == Spec => []SettingsInForce
<1>1. WindowInv => SettingsInForce
  <2> SUFFICES ASSUME WindowInv, window # NULL PROVE SettingsInForce
    BY DEF SettingsInForce
  <2>1. ASSUME c.alive, c.pipe = <<>>, Told(c, Config(store, window))
        PROVE  c.config = Config(store, window)
    <3>1. Len(c.pipe) = 0
      BY <2>1
    <3> QED
      BY <2>1, <3>1 DEF Told
  <2> QED
    BY <2>1 DEF WindowInv, SettingsTold, SettingsInForce
<1> QED
  BY <1>1, WindowInvariant, PTL

(* Cards, tabs and store agree after every handler and poll.               *)
THEOREM ViewsAlwaysAgree == Spec => []ViewsAgree
<1>1. WindowInv => ViewsAgree
  BY DEF WindowInv
<1> QED
  BY <1>1, WindowInvariant, PTL

-----------------------------------------------------------------------------
(* The slider and the chart.                                               *)

SliderType ==
    slider \in [text : Int, data : Int, dynamic : Int, handle : {0, 1, 2}]
ChartType ==
    chart \in [total : Nat \ {0}, mode : {"slide", "fit"}, scroll : Int,
               width : Widths, press_x : Int, press_scroll : Int,
               dragging : BOOLEAN, follow : BOOLEAN]

(* Both widgets with the types of their fields, which is inductive: a held *)
(* handle or the beginning of a drag may be out of date, but is never used *)
(* without being clamped.                                                  *)
WidgetsInv == SliderType /\ SegmentsAddUp /\ ChartType /\ ChartInRange

-----------------------------------------------------------------------------
SliderRecord == [text : Int, data : Int, dynamic : Int, handle : {0, 1, 2}]
AddsUp(s) ==
    /\ {s.text, s.data, s.dynamic} \subseteq 10 .. 100
    /\ s.text + s.data + s.dynamic = 100

(* Two cuts that are far enough apart, and from the ends.                  *)
LEMMA CutAddsUp ==
    ASSUME NEW s \in SliderRecord, NEW first \in Int, NEW second \in Int,
           10 <= first, first + 10 <= second, second <= 90
    PROVE  Cut(s, first, second) \in SliderRecord /\ AddsUp(Cut(s, first, second))
<1> DEFINE t == Cut(s, first, second)
<1>1. t \in SliderRecord
  <2>1. second - first \in Int /\ 100 - second \in Int
    OBVIOUS
  <2> DEFINE data == second - first
             dynamic == 100 - second
  <2>2. t = [s EXCEPT !.text = first, !.data = data, !.dynamic = dynamic]
    BY DEF Cut
  <2> HIDE DEF data, dynamic, t
  <2>3. data \in Int /\ dynamic \in Int
    BY <2>1 DEF data, dynamic
  <2> QED BY <2>2, <2>3 DEF SliderRecord
<1>2. t.text = first /\ t.data = second - first /\ t.dynamic = 100 - second
  BY DEF Cut, SliderRecord
<1> QED BY <1>1, <1>2 DEF AddsUp

(* Moving a handle keeps the percentages in order whatever the position.   *)
LEMMA MoveKeepsSplit ==
    ASSUME NEW s \in SliderRecord, NEW at \in 0 .. 100, AddsUp(s)
    PROVE  MoveActiveHandle(s, at) \in SliderRecord /\ AddsUp(MoveActiveHandle(s, at))
<1>0. /\ s.text \in Int /\ s.data \in Int /\ s.dynamic \in Int
      /\ s.text >= 10 /\ s.data >= 10 /\ s.dynamic >= 10
      /\ s.text + s.data + s.dynamic = 100
  BY DEF SliderRecord, AddsUp
<1>1. CASE s.handle = 1
  <2>1. FirstCut(s, at) \in Int /\ 10 <= FirstCut(s, at)
        /\ FirstCut(s, at) + 10 <= s.text + s.data
    BY <1>0 DEF FirstCut, SecondHandle, Greater, Lesser, MinSegmentPercent
  <2>2. MoveActiveHandle(s, at) = Cut(s, FirstCut(s, at), s.text + s.data)
    BY <1>1 DEF MoveActiveHandle, SecondHandle
  <2>3. s.text + s.data \in Int /\ s.text + s.data <= 90
    BY <1>0
  <2> QED BY <2>1, <2>2, <2>3, CutAddsUp
<1>2. CASE s.handle = 2
  <2>1. SecondCut(s, at) \in Int /\ s.text + 10 <= SecondCut(s, at)
        /\ SecondCut(s, at) <= 90
    BY <1>0 DEF SecondCut, FirstHandle, Greater, Lesser, MinSegmentPercent
  <2>2. MoveActiveHandle(s, at) = Cut(s, s.text, SecondCut(s, at))
    BY <1>2 DEF MoveActiveHandle, FirstHandle
  <2> QED BY <1>0, <2>1, <2>2, CutAddsUp
<1>3. CASE s.handle = 0
  BY <1>3 DEF MoveActiveHandle
<1> QED BY <1>1, <1>2, <1>3 DEF SliderRecord

-----------------------------------------------------------------------------
(* The chart.                                                              *)

ChartRecord ==
    [total : Nat \ {0}, mode : {"slide", "fit"}, scroll : Int,
     width : Widths, press_x : Int, press_scroll : Int,
     dragging : BOOLEAN, follow : BOOLEAN]
ScrollInRange(g) == g.scroll \in 0 .. MaxScroll(g) /\ (g.follow => g.scroll = MaxScroll(g))

(* The far end of a chart is a number of pixels, and 0 for one that fits.  *)
LEMMA MaxScrollType ==
    ASSUME NEW g \in ChartRecord
    PROVE  MaxScroll(g) \in Nat /\ (g.mode = "fit" => MaxScroll(g) = 0)
<1>1. g.width \in Nat /\ g.width >= 1
  <2>1. g.width \in Widths
    BY DEF ChartRecord
  <2>2. \A w \in Widths : w \in Nat /\ w >= 1
    <3>1. PIXELS_PER_TIME_UNIT \in Nat /\ PIXELS_PER_TIME_UNIT >= 1
      BY WidgetsAssumption
    <3>2. \A w \in Widths : w \in Nat /\ w >= PIXELS_PER_TIME_UNIT
      BY WidgetsAssumption
    <3> QED BY <3>1, <3>2
  <2> QED BY <2>1, <2>2
<1>2. g.total * PIXELS_PER_TIME_UNIT \in Nat
  <2>1. g.total \in Nat /\ PIXELS_PER_TIME_UNIT \in Nat
    BY WidgetsAssumption DEF ChartRecord
  <2>2. \A x, y \in Nat : x * y \in Nat
    OBVIOUS
  <2> QED BY <2>1, <2>2
<1> QED BY <1>1, <1>2 DEF MaxScroll, ContentWidth, Greater

(* The far end depends on the intervals, the mode and the width only.      *)
LEMMA MaxScrollSame ==
    ASSUME NEW g \in ChartRecord, NEW h \in ChartRecord,
           g.total = h.total, g.mode = h.mode, g.width = h.width
    PROVE  MaxScroll(g) = MaxScroll(h)
BY DEF MaxScroll, ContentWidth

(* Clamping puts the position in range; a chart that was followed must     *)
(* have been at its end already.                                           *)
LEMMA ClampedInRange ==
    ASSUME NEW g \in ChartRecord, ~g.follow \/ g.mode = "fit"
    PROVE  Clamped(g) \in ChartRecord /\ ScrollInRange(Clamped(g))
<1> DEFINE k == Greater(Lesser(g.scroll, MaxScroll(g)), 0)
           h == [g EXCEPT !.scroll = k]
<1>1. MaxScroll(g) \in Nat /\ (g.mode = "fit" => MaxScroll(g) = 0)
  BY MaxScrollType
<1>2. k \in 0 .. MaxScroll(g)
  BY <1>1 DEF Greater, Lesser, ChartRecord
<1>3. Clamped(g) = h
  BY DEF Clamped
<1>4. h \in ChartRecord /\ h.scroll = k
  BY <1>2 DEF ChartRecord
<1>5. MaxScroll(h) = MaxScroll(g)
  BY <1>4, MaxScrollSame DEF ChartRecord
<1>6. h.follow = g.follow
  BY DEF ChartRecord
<1> QED BY <1>1, <1>2, <1>3, <1>4, <1>5, <1>6 DEF ScrollInRange

(* New intervals or a new width leave the chart in range.                  *)
LEMMA SettledInRange ==
    ASSUME NEW g \in ChartRecord
    PROVE  Settled(g) \in ChartRecord /\ ScrollInRange(Settled(g))
<1>1. CASE g.mode = "slide" /\ g.follow
  <2> DEFINE h == [g EXCEPT !.scroll = MaxScroll(g)]
  <2>1. MaxScroll(g) \in Nat
    BY MaxScrollType
  <2>2. h \in ChartRecord /\ h.scroll = MaxScroll(g)
    BY <2>1 DEF ChartRecord
  <2>3. MaxScroll(h) = MaxScroll(g)
    BY <2>2, MaxScrollSame DEF ChartRecord
  <2> QED BY <1>1, <2>1, <2>2, <2>3 DEF Settled, ScrollInRange
<1>2. CASE ~(g.mode = "slide" /\ g.follow)
  <2>1. ~g.follow \/ g.mode = "fit"
    BY <1>2 DEF ChartRecord
  <2>2. Settled(g) = Clamped(g)
    BY <1>2 DEF Settled
  <2> QED BY <2>1, <2>2, ClampedInRange
<1> QED BY <1>1, <1>2

(* A toggle shows the end of a chart that slides, or all of one that fits. *)
LEMMA ToggledInRange ==
    ASSUME NEW g \in ChartRecord
    PROVE  ToggleMode(g) \in ChartRecord /\ ScrollInRange(ToggleMode(g))
<1>1. CASE g.mode = "fit"
  <2> DEFINE h == [Slide(g) EXCEPT !.scroll = MaxScroll(Slide(g))]
  <2>1. Slide(g) \in ChartRecord
    BY DEF Slide, ChartRecord
  <2>2. MaxScroll(Slide(g)) \in Nat
    BY <2>1, MaxScrollType
  <2>3. h \in ChartRecord /\ h.scroll = MaxScroll(Slide(g))
    BY <2>1, <2>2 DEF ChartRecord
  <2>4. MaxScroll(h) = MaxScroll(Slide(g))
    BY <2>1, <2>3, MaxScrollSame DEF ChartRecord
  <2> QED BY <1>1, <2>2, <2>3, <2>4 DEF ToggleMode, ScrollInRange
<1>2. CASE g.mode # "fit"
  <2> DEFINE h == [g EXCEPT !.mode = "fit", !.scroll = 0, !.follow = TRUE]
  <2>1. h \in ChartRecord /\ h.mode = "fit" /\ h.scroll = 0
    <3> DEFINE f == [g EXCEPT !.follow = TRUE]
    <3>1. f \in ChartRecord
      BY DEF ChartRecord
    <3>2. h = [f EXCEPT !.mode = "fit", !.scroll = 0]
      BY DEF ChartRecord
    <3> HIDE DEF f, h
    <3>3. h \in ChartRecord
      <4> DEFINE e == [f EXCEPT !.mode = "fit"]
      <4>1. e \in ChartRecord
        BY <3>1 DEF ChartRecord
      <4>2. h = [e EXCEPT !.scroll = 0]
        BY <3>1, <3>2 DEF ChartRecord
      <4> HIDE DEF e
      <4> QED BY <4>1, <4>2 DEF ChartRecord
    <3>4. h.mode = "fit"
      BY <3>1, <3>2 DEF ChartRecord
    <3>5. h.scroll = 0
      BY <3>1, <3>2 DEF ChartRecord
    <3> QED BY <3>3, <3>4, <3>5
  <2>2. MaxScroll(h) = 0
    BY <2>1, MaxScrollType
  <2> QED BY <1>2, <2>1, <2>2 DEF ToggleMode, ScrollInRange
<1> QED BY <1>1, <1>2

-----------------------------------------------------------------------------
(* The invariant.                                                          *)

(* The slider and the chart of a new window.                               *)
LEMMA WidgetsStart == WidgetsInit => WidgetsInv
<1> SUFFICES ASSUME WidgetsInit PROVE WidgetsInv
  OBVIOUS
<1>1. SliderType /\ SegmentsAddUp
  BY DEF WidgetsInit, SliderType, SegmentsAddUp, MinSegmentPercent, NoHandle
<1>2. PICK w \in Widths :
         chart = [total |-> 1, mode |-> "slide", scroll |-> 0, width |-> w,
                  press_x |-> 0, press_scroll |-> 0, dragging |-> FALSE,
                  follow |-> TRUE]
  BY DEF WidgetsInit
<1>3. ChartType
  BY <1>2 DEF ChartType
<1>4. MaxScroll(chart) = 0
  BY <1>2, WidgetsAssumption DEF MaxScroll, ContentWidth, Greater
<1> QED BY <1>1, <1>2, <1>3, <1>4 DEF WidgetsInv, ChartInRange

(* Steps of the chart leave the slider alone.                              *)
LEMMA SliderKept ==
    ASSUME WidgetsInv, UNCHANGED slider
    PROVE  SliderType' /\ SegmentsAddUp'
BY DEF WidgetsInv, SliderType, SegmentsAddUp

(* Steps of the slider leave the chart alone.                              *)
LEMMA ChartKept ==
    ASSUME WidgetsInv, UNCHANGED chart
    PROVE  ChartType' /\ ChartInRange'
BY DEF WidgetsInv, ChartType, ChartInRange, MaxScroll, ContentWidth

(* The mouse on the slider.                                                *)
LEMMA SliderSteps ==
    ASSUME WidgetsInv, NEW at \in Percents, PressSlider(at) \/ DragSlider(at)
    PROVE  SliderType' /\ SegmentsAddUp'
<1>0. at \in 0 .. 100 /\ slider \in SliderRecord /\ AddsUp(slider)
  BY WidgetsAssumption
  DEF WidgetsInv, SliderType, SegmentsAddUp, SliderRecord, AddsUp, MinSegmentPercent
<1>1. PICK s \in SliderRecord : AddsUp(s) /\ slider' = MoveActiveHandle(s, at)
  <2>1. CASE PressSlider(at)
    <3> DEFINE s == [slider EXCEPT !.handle = NearestHandle(slider, at)]
    <3>1. s \in SliderRecord /\ AddsUp(s)
      BY <1>0 DEF SliderRecord, AddsUp, NearestHandle
    <3> QED BY <2>1, <3>1 DEF PressSlider
  <2>2. CASE DragSlider(at)
    BY <1>0, <2>2 DEF DragSlider
  <2> QED BY <2>1, <2>2
<1>2. slider' \in SliderRecord /\ AddsUp(slider')
  BY <1>0, <1>1, MoveKeepsSplit
<1> QED BY <1>2 DEF SliderType, SegmentsAddUp, SliderRecord, AddsUp, MinSegmentPercent

(* A chart that is in range, named apart from its variable.                *)
LEMMA ChartIs ==
    ASSUME NEW g \in ChartRecord, ScrollInRange(g), chart' = g
    PROVE  ChartType' /\ ChartInRange'
BY DEF ChartRecord, ScrollInRange, ChartType, ChartInRange, MaxScroll, ContentWidth

(* A chart that the user moves is no longer followed.                      *)
LEMMA Unfollowed ==
    ASSUME NEW g \in ChartRecord, NEW at \in Int
    PROVE  LET h == [g EXCEPT !.follow = FALSE, !.scroll = at]
           IN  h \in ChartRecord /\ ~h.follow
<1>1. [g EXCEPT !.follow = FALSE] \in ChartRecord
  BY DEF ChartRecord
<1>2. ~[g EXCEPT !.follow = FALSE].follow
  BY DEF ChartRecord
<1> DEFINE f == [g EXCEPT !.follow = FALSE]
           h == [g EXCEPT !.follow = FALSE, !.scroll = at]
<1>3. h = [f EXCEPT !.scroll = at]
  BY DEF ChartRecord
<1> HIDE DEF f, h
<1>4. f \in ChartRecord /\ ~f.follow
  BY <1>1, <1>2 DEF f
<1>5. h \in ChartRecord /\ h.follow = f.follow
  BY <1>3, <1>4 DEF ChartRecord
<1> QED BY <1>4, <1>5 DEF h

(* The mouse on the chart.                                                 *)
LEMMA ChartSteps ==
    ASSUME WidgetsInv, NEW x \in Pixels,
           PressChart(x) \/ DragChart(x) \/ ReleaseChart \/ TurnWheel(x)
    PROVE  ChartType' /\ ChartInRange'
<1>0. chart \in ChartRecord /\ ScrollInRange(chart) /\ x \in Int
  BY WidgetsAssumption DEF WidgetsInv, ChartType, ChartRecord, ChartInRange, ScrollInRange
<1>1. CASE PressChart(x)
  <2> DEFINE g == [chart EXCEPT !.press_x = x, !.press_scroll = chart.scroll,
                                !.dragging = FALSE]
  <2>1. g \in ChartRecord
    BY <1>0 DEF ChartRecord
  <2>2. MaxScroll(g) = MaxScroll(chart)
    BY <1>0, <2>1, MaxScrollSame DEF ChartRecord
  <2>3. ScrollInRange(g)
    BY <1>0, <2>2 DEF ScrollInRange, ChartRecord
  <2> QED BY <1>1, <2>1, <2>3, ChartIs DEF PressChart
<1>2. CASE DragChart(x)
  <2> DEFINE g == [chart EXCEPT !.dragging = TRUE, !.follow = FALSE,
                       !.scroll = chart.press_scroll - (x - chart.press_x)]
  <2>1. g \in ChartRecord /\ ~g.follow
    <3>1. [chart EXCEPT !.dragging = TRUE] \in ChartRecord
      BY <1>0 DEF ChartRecord
    <3>2. chart.press_scroll - (x - chart.press_x) \in Int
      BY <1>0 DEF ChartRecord
    <3>3. g = [[chart EXCEPT !.dragging = TRUE] EXCEPT !.follow = FALSE,
                   !.scroll = chart.press_scroll - (x - chart.press_x)]
      BY <1>0 DEF ChartRecord
    <3> QED BY <3>1, <3>2, <3>3, Unfollowed
  <2> QED BY <1>2, <2>1, ClampedInRange, ChartIs DEF DragChart
<1>3. CASE ReleaseChart
  BY <1>0, <1>3, ToggledInRange, ChartIs DEF ReleaseChart
<1>4. CASE TurnWheel(x)
  <2> DEFINE g == [chart EXCEPT !.scroll = @ - x, !.follow = FALSE]
  <2>1. g \in ChartRecord /\ ~g.follow
    <3>1. chart.scroll - x \in Int
      BY <1>0 DEF ChartRecord
    <3>2. g = [chart EXCEPT !.follow = FALSE, !.scroll = chart.scroll - x]
      BY <1>0 DEF ChartRecord
    <3> QED BY <1>0, <3>1, <3>2, Unfollowed
  <2> QED BY <1>4, <2>1, ClampedInRange, ChartIs DEF TurnWheel
<1> QED BY <1>1, <1>2, <1>3, <1>4

(* Every gesture and every poll keeps both widgets in order.               *)
LEMMA WidgetsSteps == WidgetsInv /\ [WidgetsNext]_widgetVars => WidgetsInv'
<1> SUFFICES ASSUME WidgetsInv, [WidgetsNext]_widgetVars PROVE WidgetsInv'
  OBVIOUS
<1>1. ASSUME NEW at \in Percents, PressSlider(at) \/ DragSlider(at) PROVE WidgetsInv'
  BY <1>1, SliderSteps, ChartKept DEF WidgetsInv, PressSlider, DragSlider
<1>2. CASE ReleaseSlider
  <2>1. SliderType' /\ SegmentsAddUp'
    BY <1>2 DEF ReleaseSlider, NoHandle, WidgetsInv, SliderType, SegmentsAddUp
  <2> QED BY <1>2, <2>1, ChartKept DEF WidgetsInv, ReleaseSlider
<1>3. ASSUME NEW time \in Times, SetSegments(time) PROVE WidgetsInv'
  <2> DEFINE g == [chart EXCEPT !.total = Greater(time, 1)]
  <2>1. Greater(time, 1) \in Nat \ {0}
    BY WidgetsAssumption DEF Greater
  <2>2. g \in ChartRecord
    BY <2>1 DEF ChartRecord, WidgetsInv, ChartType
  <2> QED BY <1>3, <2>2, SettledInRange, ChartIs, SliderKept DEF WidgetsInv, SetSegments
<1>4. CASE ClearChart
  <2> DEFINE g == [chart EXCEPT !.total = 1, !.scroll = 0, !.follow = TRUE]
  <2>0. chart \in ChartRecord
    BY DEF ChartRecord, WidgetsInv, ChartType
  <2>1. g \in ChartRecord /\ g.scroll = 0 /\ g.total = 1
    <3> DEFINE f == [chart EXCEPT !.follow = TRUE]
    <3>1. f \in ChartRecord
      BY <2>0 DEF ChartRecord
    <3>2. g = [f EXCEPT !.total = 1, !.scroll = 0]
      BY <2>0 DEF ChartRecord
    <3> HIDE DEF f, g
    <3>3. g \in ChartRecord
      <4> DEFINE e == [f EXCEPT !.total = 1]
      <4>1. e \in ChartRecord
        BY <3>1 DEF ChartRecord
      <4>2. g = [e EXCEPT !.scroll = 0]
        BY <3>1, <3>2 DEF ChartRecord
      <4> HIDE DEF e
      <4> QED BY <4>1, <4>2 DEF ChartRecord
    <3>4. g.total = 1
      BY <3>1, <3>2 DEF ChartRecord
    <3>5. g.scroll = 0
      BY <3>1, <3>2 DEF ChartRecord
    <3> QED BY <3>3, <3>4, <3>5
  <2>2. g.width \in Nat /\ g.width >= PIXELS_PER_TIME_UNIT
    BY <2>1, WidgetsAssumption DEF ChartRecord
  <2>3. MaxScroll(g) = 0
    BY <2>1, <2>2, WidgetsAssumption DEF MaxScroll, ContentWidth, Greater
  <2>4. ScrollInRange(g)
    BY <2>1, <2>3 DEF ScrollInRange
  <2> QED BY <1>4, <2>1, <2>4, ChartIs, SliderKept DEF ClearChart, WidgetsInv
<1>5. ASSUME NEW w \in Widths, ResizeChart(w) PROVE WidgetsInv'
  <2> DEFINE g == [chart EXCEPT !.width = w]
  <2>1. g \in ChartRecord
    BY DEF ChartRecord, WidgetsInv, ChartType
  <2> QED BY <1>5, <2>1, SettledInRange, ChartIs, SliderKept DEF WidgetsInv, ResizeChart
<1>6. ASSUME NEW x \in Pixels, PressChart(x) \/ DragChart(x) \/ TurnWheel(x)
      PROVE  WidgetsInv'
  BY <1>6, ChartSteps, SliderKept DEF WidgetsInv, PressChart, DragChart, TurnWheel
<1>7. CASE ReleaseChart
  <2>1. chart \in ChartRecord /\ ScrollInRange(chart)
    BY DEF WidgetsInv, ChartType, ChartRecord, ChartInRange, ScrollInRange
  <2> QED BY <1>7, <2>1, ToggledInRange, ChartIs, SliderKept DEF WidgetsInv, ReleaseChart
<1>8. CASE UNCHANGED widgetVars
  BY <1>8, SliderKept, ChartKept DEF widgetVars, WidgetsInv
<1> QED BY <1>1, <1>2, <1>3, <1>4, <1>5, <1>6, <1>7, <1>8 DEF WidgetsNext

-----------------------------------------------------------------------------
(* Whatever the mouse does on a bar of any width, the three percentages    *)
(* add up to 100 and none is below the minimum.                            *)
THEOREM SegmentsAlwaysAddUp == WidgetsSpec => []SegmentsAddUp
<1>1. WidgetsInv => SegmentsAddUp
  BY DEF WidgetsInv
<1> QED BY <1>1, WidgetsStart, WidgetsSteps, PTL DEF WidgetsSpec

(* Whatever arrives during a drag, a turn of the wheel or a toggle, the    *)
(* chart shows no more than it has, and its end while it is followed.      *)
THEOREM ChartStaysInRange == WidgetsSpec => []ChartInRange
<1>1. WidgetsInv => ChartInRange
  BY DEF WidgetsInv
<1> QED BY <1>1, WidgetsStart, WidgetsSteps, PTL DEF WidgetsSpec
=============================================================================
