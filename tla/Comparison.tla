----------------------------- MODULE Comparison -----------------------------
(***************************************************************************)
(* tools/compare_policies.py: one C program after the other runs TEST      *)
(* under every scheduler and placement policy; each run is summarised as a *)
(* row, the rows are ranked and the report is written.                     *)
(*                                                                         *)
(* A figure is a fraction <<numerator, denominator>>, the denominator      *)
(* positive; the fragmentation of a snapshot is rounded to a percent.  A   *)
(* score is the sum of the ranks whose mean the tool takes.                *)
(***************************************************************************)
EXTENDS Integers, FiniteSetsExt, Functions, SequencesExt

CONSTANTS
    CONTEXTS, SCHEDULERS, MEMORY_STRATEGIES,    \* sequences
    Invocations,    \* arguments of the tool and the executable it finds
    Outputs,        \* what a C program may send between RUN and its end
    Empty,          \* its snapshot while it has no processes
    TEST_PROCESSES, \* processes of TEST, the 20 of summarize_memory
    WORST,          \* rows of the table of processes, 15
    NULL

Statistics ==
    {"completed", "avg_turnaround", "avg_ready_time", "avg_response", "total_time",
     "throughput", "cpu_util", "swap_outs"}
Snapshots ==
    [current_time : Int, total : {Empty.total}, free : 0 .. Empty.total,
     holes : Seq(Nat), waste : Seq(Nat), processes : Seq(Int), stats : [Statistics -> Int]]
Arguments ==
    [context : ToSet(CONTEXTS) \cup {NULL}, limit : Int,
     seed : {a.seed : a \in Invocations}, executable : {"good", "missing", "broken"},
     build : BOOLEAN, compiles : BOOLEAN]

ASSUME ComparisonAssumption ==
    /\ \A s \in {CONTEXTS, SCHEDULERS, MEMORY_STRATEGIES} :
          s \in Seq(ToSet(s)) /\ s # <<>>
    /\ TEST_PROCESSES \in Nat \ {0} /\ WORST \in Nat \ {0}
    /\ NULL \notin ToSet(CONTEXTS)
    /\ Invocations \subseteq Arguments     \* argparse checks types and choices
    /\ Empty.total \in Nat /\ Empty \in Snapshots
    /\ Outputs \subseteq Seq(Snapshots)    \* main_loop ends when all have ended
    /\ \A o \in Outputs : o # <<>> /\ Last(o).stats["completed"] = TEST_PROCESSES

VARIABLES
    args,       \* Namespace, with the state of the executable
    place,      \* where main is
    cases,      \* cases still to run, the current one first
    child,      \* the C program of the current case
    rows,       \* combination_rows
    details,    \* process_rows
    report,     \* comparison_report.html
    legacy      \* the outputs of older versions are in the folder

vars == <<args, place, cases, child, rows, details, report, legacy>>

-----------------------------------------------------------------------------
(* Fractions.                                                              *)

Less(x, y) == x[1] * y[2] < y[1] * x[2]
Plus(x, y) == <<x[1] * y[2] + y[1] * x[2], x[2] * y[2]>>
Whole(n) == <<n, 1>>
Mean(values) ==
    IF DOMAIN values = {} THEN Whole(0)
    ELSE <<SumFunction(values), Cardinality(DOMAIN values)>>
Largest(values) == Whole(Max(Range(values)))
Smallest(values) == Whole(Min(Range(values)))

-----------------------------------------------------------------------------
(* summarize_memory: a snapshot has the time, how many processes ended, KB *)
(* in all and free, the KB of each free block and the KB wasted by each    *)
(* resident process.                                                       *)

(* The positions of the snapshots that it looks at.                        *)
RuntimeStates(states) ==
    LET running == {i \in DOMAIN states : /\ states[i].current_time > 0
                                         /\ states[i].stats["completed"] < TEST_PROCESSES}
    IN  IF running = {} THEN DOMAIN states ELSE running

LargestFree(s) == Max({0} \cup ToSet(s.holes))
ExternalFragmentation(s) ==
    IF s.free <= 0 THEN 0 ELSE (100 * (s.free - LargestFree(s))) \div s.free
InternalWaste(s) == SumFunction(s.waste)
UsedMemory(s) == Max({0, s.total - s.free})

SummarizeMemory(states) ==
    LET runtime == RuntimeStates(states)
        external == [i \in runtime |-> ExternalFragmentation(states[i])]
        waste == [i \in runtime |-> InternalWaste(states[i])]
        counts == [i \in runtime |-> Len(states[i].holes)]
        free == [i \in runtime |-> states[i].free]
        used == [i \in runtime |-> UsedMemory(states[i])]
    IN  [avg_external_fragmentation_pct |-> Mean(external),
         max_external_fragmentation_pct |-> Largest(external),
         avg_internal_waste_mb |-> Mean(waste),
         max_internal_waste_mb |-> Largest(waste),
         avg_free_block_count |-> Mean(counts),
         min_free_memory_mb |-> Smallest(free),
         peak_used_memory_mb |-> Largest(used)]

-----------------------------------------------------------------------------
(* summarize_simulation and summarize_processes.  "run" is not a field of  *)
(* the tool's rows: it keeps what the C program that they came from did.   *)

PerformanceMetrics ==
    <<[metric |-> "avg_turnaround", higher |-> FALSE],
      [metric |-> "avg_ready_time", higher |-> FALSE],
      [metric |-> "avg_response", higher |-> FALSE],
      [metric |-> "total_time", higher |-> FALSE],
      [metric |-> "throughput", higher |-> TRUE],
      [metric |-> "cpu_util", higher |-> TRUE]>>

MemoryMetrics ==
    <<[metric |-> "avg_external_fragmentation_pct", higher |-> FALSE],
      [metric |-> "max_external_fragmentation_pct", higher |-> FALSE],
      [metric |-> "avg_internal_waste_mb", higher |-> FALSE],
      [metric |-> "max_internal_waste_mb", higher |-> FALSE],
      [metric |-> "swap_outs", higher |-> FALSE],
      [metric |-> "avg_free_block_count", higher |-> FALSE]>>

SummarizeSimulation(case, c) ==
    LET stats == Last(c.sent).stats
        memory == SummarizeMemory(c.sent)
    IN  [context |-> case.context, scheduler |-> case.scheduler,
         memory |-> case.memory,
         figures |-> [f \in DOMAIN stats \cup DOMAIN memory |->
                        IF f \in DOMAIN memory THEN memory[f] ELSE Whole(stats[f])],
         run |-> [config |-> c.config, seed |-> c.processes, state |-> c.state]]

SummarizeProcesses(case, c) ==
    [i \in DOMAIN Last(c.sent).processes |->
        [context |-> case.context, scheduler |-> case.scheduler,
         memory |-> case.memory,
         turnaround_time |-> Last(c.sent).processes[i]]]

-----------------------------------------------------------------------------
(* add_scores: within a context, a row's rank by a metric is its place in  *)
(* a stable sort, so that of equal rows the earlier one comes first.       *)

(* Mutant: throughput and use of the CPU are sorted like the other ones.   *)
BetterIfLower(r, s, m) == Less(r.figures[m.metric], s.figures[m.metric])

Better(r, s, m) ==
    IF m.higher THEN Less(s.figures[m.metric], r.figures[m.metric])
                ELSE Less(r.figures[m.metric], s.figures[m.metric])

Ahead(rs, j, i, m) ==
    Better(rs[j], rs[i], m) \/ (j < i /\ ~Better(rs[i], rs[j], m))

Rank(rs, group, i, m) == 1 + Cardinality({j \in group : Ahead(rs, j, i, m)})

Group(rs, context) == {i \in DOMAIN rs : rs[i].context = context}

ApplyRankScore(rs, metrics, i) ==
    LET group == Group(rs, rs[i].context)
    IN  SumFunction([k \in DOMAIN metrics |-> Rank(rs, group, i, metrics[k])])

AddScores(rs) ==
    [i \in DOMAIN rs |->
        [performance |-> ApplyRankScore(rs, PerformanceMetrics, i),
         memory |-> ApplyRankScore(rs, MemoryMetrics, i)]]

-----------------------------------------------------------------------------
(* generate_html_report.                                                   *)

Before(scores, key, i, j) ==
    scores[i][key] < scores[j][key] \/ (scores[i][key] = scores[j][key] /\ i < j)

(* The members of S in the order that Precedes tells.                      *)
Sorted(S, Precedes(_, _)) ==
    [k \in 1 .. Cardinality(S) |->
        CHOOSE i \in S : Cardinality({j \in S : Precedes(j, i)}) = k - 1]

(* html_ranking: the rows of all contexts, by the score of their own one.  *)
Ranking(rs, scores, key) ==
    Sorted(DOMAIN rs, LAMBDA i, j : Before(scores, key, i, j))

Winner(rs, scores, key, context) ==
    CHOOSE i \in Group(rs, context) :
        \A j \in Group(rs, context) \ {i} : Before(scores, key, i, j)

(* html_matrix: the heat of a cell lies between that of the least and the  *)
(* greatest figure of the context.                                         *)
TatAndFragmentation(r) ==
    {r.figures["avg_turnaround"], r.figures["avg_external_fragmentation_pct"]}
Heat(rs, i) ==
    LET group == Group(rs, rs[i].context)
        values == UNION {TatAndFragmentation(rs[j]) : j \in group}
        minimum == CHOOSE v \in values : \A w \in values : ~Less(w, v)
        maximum == CHOOSE v \in values : \A w \in values : ~Less(v, w)
        minus == <<-minimum[1], minimum[2]>>
        value == Plus(rs[i].figures["avg_turnaround"],
                      rs[i].figures["avg_external_fragmentation_pct"])
        height == Plus(<<value[1], 2 * value[2]>>, minus)
        width == Plus(maximum, minus)
    IN  IF ~Less(minimum, maximum) THEN Whole(0)
        ELSE <<height[1] * width[2], height[2] * width[1]>>

(* html_process_table.                                                     *)
WorstProcesses(ds) ==
    LET sorted == Sorted(DOMAIN ds, LAMBDA i, j :
                      \/ ds[i].turnaround_time > ds[j].turnaround_time
                      \/ ds[i].turnaround_time = ds[j].turnaround_time /\ i < j)
    IN  SubSeq(sorted, 1, IF Len(ds) < WORST THEN Len(ds) ELSE WORST)

Report(rs, ds) ==
    LET scores == AddScores(rs)
    IN  [rows |-> rs, scores |-> scores,
         winners |-> [c \in {rs[i].context : i \in DOMAIN rs} |->
             [k \in {"performance", "memory"} |-> Winner(rs, scores, k, c)]],
         rankings |-> [k \in {"performance", "memory"} |-> Ranking(rs, scores, k)],
         heat |-> [i \in DOMAIN rs |-> Heat(rs, i)],
         worst |-> [i \in DOMAIN WorstProcesses(ds) |-> ds[WorstProcesses(ds)[i]]]]

-----------------------------------------------------------------------------
(* main.                                                                   *)

NoChild == [state |-> "NONE", code |-> NULL, pipe |-> <<>>, config |-> NULL,
            rng |-> NULL, processes |-> NULL, sent |-> <<>>]
NoReport == [rows |-> <<>>]

SelectedContexts == IF args.context = NULL THEN CONTEXTS ELSE <<args.context>>

(* Cases by context, scheduler and placement, in this order of loops.      *)
Joined(some, more) == some \o more
Under(context, scheduler) ==
    [m \in DOMAIN MEMORY_STRATEGIES |->
        [context |-> context, scheduler |-> scheduler, memory |-> MEMORY_STRATEGIES[m]]]
InContext(context) ==
    FoldLeft(Joined, <<>>, [s \in DOMAIN SCHEDULERS |-> Under(context, SCHEDULERS[s])])
Product ==
    FoldLeft(Joined, <<>>, [c \in DOMAIN SelectedContexts |-> InContext(SelectedContexts[c])])
Cases ==
    IF args.limit > 0 /\ args.limit < Len(Product)
    THEN SubSeq(Product, 1, args.limit) ELSE Product

Init ==
    /\ args \in Invocations
    /\ legacy \in BOOLEAN
    /\ place = "start"
    /\ cases = <<>> /\ rows = <<>> /\ details = <<>>
    /\ child = NoChild
    /\ report = NoReport

Built == IF args.build THEN "good" ELSE args.executable

Start ==
    /\ place = "start"
    /\ args' = [args EXCEPT !.executable = Built]
    /\ IF args.build /\ ~args.compiles THEN place' = "raised" /\ UNCHANGED cases
       ELSE IF Built = "missing" THEN place' = "returned 1" /\ UNCHANGED cases
       ELSE place' = "next" /\ cases' = Cases
    /\ UNCHANGED <<child, rows, details, report, legacy>>

(* run_simulation: what Popen and communicate write, at once.              *)
Commands ==
    <<[name |-> "SET_CONFIG", config |-> Head(cases)], [name |-> "SET_SEED"],
      [name |-> "TEST"], [name |-> "RUN"]>>

Launch ==
    /\ place = "next" /\ cases # <<>>
    /\ IF args.executable = "broken" THEN place' = "raised" /\ UNCHANGED child
       ELSE /\ place' = "waiting"
            /\ child' = [NoChild EXCEPT !.state = "PAUSE", !.pipe = Commands,
                                        !.rng = "clock", !.sent = <<Empty>>]
    /\ UNCHANGED <<args, cases, rows, details, report, legacy>>

(* Mutant: a C program that failed leaves a row of what it sent till then. *)
EndedAnyhow == child.state = "DEAD"

EndedWell == child.state = "DEAD" /\ child.code = 0 /\ child.sent # <<>>

Collect ==
    /\ place = "waiting"
    /\ EndedWell
    /\ rows' = Append(rows, SummarizeSimulation(Head(cases), child))
    /\ details' = details \o SummarizeProcesses(Head(cases), child)
    /\ cases' = Tail(cases)
    /\ place' = "next"
    /\ child' = NoChild
    /\ UNCHANGED <<args, report, legacy>>

Raise ==
    /\ place = "waiting"
    /\ child.state = "DEAD" /\ ~EndedWell
    /\ place' = "raised"
    /\ UNCHANGED <<args, cases, child, rows, details, report, legacy>>

(* Mutant: communicate without timeout.                                    *)
NeverTimesOut == FALSE

(* communicate gives up; the exception leaves the C program as it is.      *)
TimeOut ==
    /\ place = "waiting" /\ child.state # "DEAD"
    /\ place' = "raised"
    /\ UNCHANGED <<args, cases, child, rows, details, report, legacy>>

WriteReport ==
    /\ place = "next" /\ cases = <<>>
    /\ legacy' = FALSE
    /\ report' = Report(rows, details)
    /\ place' = "returned 0"
    /\ UNCHANGED <<args, cases, child, rows, details>>

-----------------------------------------------------------------------------
(* The C program.                                                          *)

Sends(c) == Append(c.sent, Empty)

ReadCommand ==
    /\ child.state \in {"PAUSE", "RUN"} /\ child.pipe # <<>>
    /\ LET line == Head(child.pipe)
           c == [child EXCEPT !.pipe = Tail(@), !.sent = Sends(child)]
       IN  child' =
             CASE line.name = "SET_CONFIG" -> [c EXCEPT !.config = line.config]
               [] line.name = "SET_SEED" -> [c EXCEPT !.rng = args.seed]
               [] line.name = "TEST" -> [c EXCEPT !.processes = c.rng]
               [] line.name = "RUN" -> [c EXCEPT !.state = "RUN"]
    /\ UNCHANGED <<args, place, cases, rows, details, report, legacy>>

(* All ticks up to the end of the simulation: the end of the input, after  *)
(* RUN, does not stop it.  Nobody reads what the child                     *)
(* sends once the tool is gone.                                            *)
RunToEnd ==
    /\ child.state = "RUN" /\ child.pipe = <<>>
    /\ \E o \in Outputs :
          child' = [child EXCEPT !.state = "DEAD", !.code = 0, !.sent = @ \o o]
    /\ UNCHANGED <<args, place, cases, rows, details, report, legacy>>

(* The child is killed, or a pipe without reader ends it.                  *)
Crash ==
    /\ child.state \in {"PAUSE", "RUN"}
    /\ child' = [child EXCEPT !.state = "DEAD", !.code = 1]
    /\ UNCHANGED <<args, place, cases, rows, details, report, legacy>>

Tool == Start \/ Launch \/ Collect \/ Raise \/ TimeOut \/ WriteReport
Simulator == ReadCommand \/ RunToEnd \/ Crash

Over ==
    /\ place \in {"raised", "returned 0", "returned 1"}
    /\ child.state \in {"NONE", "DEAD"}
    /\ UNCHANGED vars

Next == Tool \/ Simulator \/ Over

Spec == Init /\ [][Next]_vars

(* The clock that communicate watches goes on; a C program may take for    *)
(* ever.                                                                   *)
FairSpec == Spec /\ WF_vars(Tool)

-----------------------------------------------------------------------------
(* Properties.                                                             *)

Written == report # NoReport
HigherIsBetter == {"throughput", "cpu_util"}
Beats(i, j, metric) ==
    LET x == report.rows[i].figures[metric]
        y == report.rows[j].figures[metric]
    IN  IF metric \in HigherIsBetter THEN Less(y, x) ELSE Less(x, y)
AgainstAll(metrics, i, j) == \A m \in ToSet(metrics) : Beats(i, j, m.metric)
AsGood(metrics, i, j) == \A m \in ToSet(metrics) : ~Beats(j, i, m.metric)
Metrics == [performance |-> PerformanceMetrics, memory |-> MemoryMetrics]

(* A report is written only when every case ended well.  It has one row    *)
(* per case, in order, each from a C program of its own that ran under the *)
(* settings of its label until all processes ended; all rows are about the *)
(* same processes, those drawn from the seed of the report, and show       *)
(* memory that was free or used at the same time.                          *)
ReportIsComplete == Written =>
    /\ place = "returned 0" /\ ~legacy
    /\ Len(report.rows) = Len(Cases)
    /\ \A i \in DOMAIN report.rows :
          LET r == report.rows[i]
              f == r.figures
              case == [context |-> r.context, scheduler |-> r.scheduler,
                       memory |-> r.memory]
          IN  /\ case = Cases[i]
              /\ r.run = [config |-> case, seed |-> args.seed, state |-> "DEAD"]
              /\ f["completed"] = Whole(TEST_PROCESSES)
              /\ ~Less(f["max_external_fragmentation_pct"],
                       f["avg_external_fragmentation_pct"])
              /\ Plus(f["min_free_memory_mb"], f["peak_used_memory_mb"])
                    = Whole(Empty.total)
    /\ \A d \in ToSet(report.worst) : \E c \in ToSet(Cases) :
          c = [context |-> d.context, scheduler |-> d.scheduler, memory |-> d.memory]

(* Within a context the ranks of a metric are all different, so equal rows *)
(* do not score the same, but the order is fair otherwise: a row that is   *)
(* better by every metric has the better score, and so has the earlier of  *)
(* two when it is nowhere worse; the winner is beaten by nobody, heads its *)
(* context in the ranking, and is greener than what it beats.              *)
RanksAreFair == Written =>
    \A key \in DOMAIN Metrics :
      /\ report.rankings[key][1] \in
            {report.winners[c][key] : c \in DOMAIN report.winners}
      /\ \A i, j \in DOMAIN report.rows :
            LET better == report.scores[i][key] < report.scores[j][key]
            IN  report.rows[i].context = report.rows[j].context =>
                  /\ AgainstAll(Metrics[key], i, j) => better
                  /\ i < j /\ AsGood(Metrics[key], i, j) => better
                  /\ AgainstAll(Metrics[key], i, j) =>
                        report.winners[report.rows[i].context][key] # j
                  /\ (\A k \in DOMAIN Metrics : AsGood(Metrics[k], i, j))
                        => ~Less(report.heat[j], report.heat[i])

(* The tool ends, even if a C program never does.                          *)
ToolEnds == <>[](place \in {"raised", "returned 0", "returned 1"})
=============================================================================
