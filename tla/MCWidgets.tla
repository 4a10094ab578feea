----------------------------- MODULE MCWidgets ------------------------------
(***************************************************************************)
(* A bar pressed at its ends, at a handle and between them, and a chart    *)
(* narrower and wider than what it shows.                                  *)
(***************************************************************************)
EXTENDS Widgets

SomePixels == {-4, 0, 1, 4}
=============================================================================
