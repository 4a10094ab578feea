------------------------------ MODULE MCClient ------------------------------
(***************************************************************************)
(* Two algorithms, and a user who does a few things in every order.        *)
(***************************************************************************)
EXTENDS Client, TLC

CONSTANTS a, b
TwoAlgorithms == {a, b}
OneAlgorithm == {a}
Anything == {"ADD", "PAUSE", "RUN", "STOP", "run"}
=============================================================================
