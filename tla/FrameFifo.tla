------------------------------ MODULE FrameFifo ------------------------------
(***************************************************************************)
(* What a descriptor ring promises to the two sides of it: the frames put  *)
(* in on one side come out on the other, each once, whole and in order, no *)
(* more than Capacity of them are under way, and none stays inside.        *)
(***************************************************************************)
EXTENDS Naturals, Sequences

CONSTANTS Frame,     \* what may be put in
          Capacity   \* the number of descriptors

VARIABLES queue,     \* the frames that are inside
          last       \* the frame that came out last

Init == queue = << >> /\ last \in Frame

Put ==
    /\ UNCHANGED last
    /\ Len(queue) < Capacity
    /\ \E frame \in Frame : queue' = Append(queue, frame)

Get ==
    /\ queue # << >>
    /\ last' = Head(queue)
    /\ queue' = Tail(queue)

Next == Get \/ Put

Safety == Init /\ [][Next]_<<queue, last>>

Spec == Safety /\ WF_<<queue, last>>(Get)
=============================================================================
