------------------------------ MODULE MCMotPap ------------------------------
(***************************************************************************)
(* Instances of MotPap for TLC: the rates and counts of the firmware scaled*)
(* down so that several supervisions, a stall, an arrival and a wrapped    *)
(* request fit in a few edges.                                             *)
(***************************************************************************)
EXTENDS MotPapMoves

CONSTANTS x, y

\* None, too high for the timer, and negative.
Oob == {0, 400000, -1000}
=============================================================================
