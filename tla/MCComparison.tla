---------------------------- MODULE MCComparison ----------------------------
(***************************************************************************)
(* Two contexts, three schedulers and one placement, cut to at most four  *)
(* cases; a TEST of two processes whose runs differ in some figures, tie   *)
(* in others, and leave memory in one or two holes.                        *)
(***************************************************************************)
EXTENDS Comparison

TwoContexts == <<"base", "costoso">>
ThreeSchedulers == <<"FCFS", "SJF", "ROUND">>
OnePlacement == <<"FIRST">>

At(time, holes, free, waste, stats) ==
    [current_time |-> time, total |-> 12, free |-> free, holes |-> holes,
     waste |-> waste, processes |-> <<>>, stats |-> stats]

Figures(completed, tat, ready, response, total, throughput, cpu, swaps) ==
    [completed |-> completed, avg_turnaround |-> tat, avg_ready_time |-> ready,
     avg_response |-> response, total_time |-> total,
     throughput |-> throughput, cpu_util |-> cpu, swap_outs |-> swaps]

NoFigures == Figures(0, 0, 0, 0, 0, 0, 0, 0)
EmptySnapshot == At(0, <<12>>, 12, <<>>, NoFigures)

(* A quick run and one that is worse in everything, a run as quick with    *)
(* other memory figures, and one too short for a snapshot under way.       *)
Ended(time, tats, stats) ==
    [At(time, <<12>>, 12, <<>>, stats) EXCEPT !.processes = tats]
SomeOutputs ==
    {<<At(1, <<8>>, 8, <<1>>, NoFigures), At(2, <<6>>, 6, <<1, 0>>, NoFigures),
       Ended(3, <<3, 2>>, Figures(2, 2, 1, 1, 3, 9, 90, 0))>>,
     <<At(1, <<4, 4>>, 8, <<2>>, NoFigures), At(2, <<1, 4>>, 5, <<2, 1>>, NoFigures),
       Ended(6, <<6, 4>>, Figures(2, 5, 3, 2, 6, 4, 50, 2))>>,
     <<At(1, <<2, 6>>, 8, <<1>>, NoFigures), At(2, <<2>>, 2, <<1, 1>>, NoFigures),
       Ended(3, <<3, 3>>, Figures(2, 3, 1, 2, 3, 9, 90, 1))>>,
     <<Ended(1, <<1, 1>>, Figures(2, 1, 0, 0, 1, 12, 95, 0))>>}

Call(context, limit, executable, build, compiles) ==
    [context |-> context, limit |-> limit, seed |-> "1234",
     executable |-> executable, build |-> build, compiles |-> compiles]
SomeInvocations ==
    {Call(NULL, 4, "good", FALSE, TRUE), Call("costoso", 0, "good", FALSE, TRUE),
     Call("base", 2, "missing", TRUE, TRUE), Call("base", 2, "missing", TRUE, FALSE),
     Call(NULL, 0, "missing", FALSE, TRUE), Call(NULL, 0, "broken", FALSE, TRUE)}
=============================================================================
