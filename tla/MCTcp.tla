-------------------------------- MODULE MCTcp --------------------------------
(***************************************************************************)
(* Connections small enough to enumerate: segments of two units, a window  *)
(* of two segments, and sequence numbers that wrap in all of them.         *)
(***************************************************************************)
EXTENDS Tcp

Mishaps == {"lost", "repeated", "overtaken", "too soon", "no memory", "dies"}

\* In all of them the server's numbers wrap.
Scenario(in, ask, out, peerIss, wnd, early, n, mishaps) ==
  [in |-> in, ask |-> ask, out |-> out, iss |-> Modulus - 3, peerIss |-> peerIss,
   wnd |-> wnd, early |-> early, faults |-> n, mishaps |-> mishaps]

Wire == {"lost", "repeated", "overtaken"}

MCScenarios ==
  { \* The numbers of both sides wrap.
    Scenario(2, 2, 3, Modulus - 2, 4, FALSE, 2, Mishaps),
    \* The client takes two units at a time: closed windows, a full send buffer.
    Scenario(1, 1, 5, 0, 2, FALSE, 1, Mishaps),
    \* More than the window of the server takes: refused data, closed windows.
    Scenario(5, 5, 1, 0, 2, FALSE, 0, {}),
    \* Three segments may wait out of sequence.
    Scenario(4, 4, 1, 0, 2, FALSE, 1, Wire),
    \* Small segments, so that a third duplicate comes back.
    Scenario(1, 1, 3, 0, 3, FALSE, 2, Wire \ {"overtaken"}),
    \* A window open by less than a segment, and its update lost.
    Scenario(1, 1, 6, 0, 5, FALSE, 1, {"lost"}),
    \* The client closes before it has its answer.
    Scenario(2, 1, 2, 0, 4, TRUE, 1, Wire \cup {"dies"}) }

\* The right edge of the server's window is past the wrap while the segments
\* out of sequence are not.
WrapScenarios == { Scenario(5, 5, 1, Modulus - 5, 4, FALSE, 2, {"lost"}) }
=============================================================================
