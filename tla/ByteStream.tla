----------------------------- MODULE ByteStream -----------------------------
(***************************************************************************)
(* What TCP promises in one direction: the reader gets the units that were *)
(* written, in their order, each once, none before it was written; and it  *)
(* is told of the end when it has all that was ever written.               *)
(***************************************************************************)
EXTENDS Naturals, Sequences

VARIABLES
  written,   \* how many units the writer has handed over
  read,      \* the units the reader has got
  ended      \* the reader has been told of the end

vars == <<written, read, ended>>

Init == written = 0 /\ read = <<>> /\ ended = FALSE

Write ==
  /\ ~ended
  /\ written' > written
  /\ UNCHANGED <<read, ended>>

\* The end may come with the last units or alone.
Read ==
  /\ ~ended
  /\ Len(read') >= Len(read) /\ Len(read') <= written
  /\ read' = [i \in 1 .. Len(read') |-> i]
  /\ ended' = FALSE \/ (ended' = TRUE /\ Len(read') = written)
  /\ UNCHANGED written

Next == Write \/ Read

Spec == Init /\ [][Next]_vars
=============================================================================
