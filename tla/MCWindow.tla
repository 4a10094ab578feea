------------------------------ MODULE MCWindow ------------------------------
(***************************************************************************)
(* Two algorithms, two values for every control, and a user who does a few *)
(* things in every order.                                                  *)
(***************************************************************************)
EXTENDS Window

CONSTANTS rr, fcfs

OneAlgorithm == {rr}
BothAlgorithms == {rr, fcfs}
UsualCost == {SwitchCost}
TwoCosts == {0, SwitchCost}
UsualQuantum == {Quantum}
TwoQuanta == {20, Quantum}
UsualSpeed == {Speed}
TwoSpeeds == {Speed, 20}
UsualSplit == {Percentages}
TwoSplits == {Percentages, [text |-> 80, data |-> 10, dynamic |-> 10]}
OneName == {[length |-> 0, wide |-> 0]}
TwoNames == OneName \cup {[length |-> 15, wide |-> 1]}
=============================================================================
