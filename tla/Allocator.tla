----------------------------- MODULE Allocator -----------------------------
(***************************************************************************)
(* What pvPortMalloc and vPortFree promise to the tasks: a block that no   *)
(* one else has, at least as large as asked for; and a refusal only when no*)
(* gap between the blocks in use is large enough.                          *)
(***************************************************************************)
EXTENDS Integers

CONSTANTS
  Limit,     \* the heap is 0 .. Limit - 1
  Lengths,   \* the lengths, header and alignment included, that can be asked for
  Slack,     \* how much longer than asked for a block may be
  NoAddress  \* the answer to a call that gets no block

VARIABLES
  blocks,   \* the blocks in use, as [at, len]
  answer    \* what the last call asked for and got

vars == <<blocks, answer>>

Range(at, len) == at .. at + len - 1
Free(at, len) ==
  /\ at >= 0 /\ at + len <= Limit
  /\ \A b \in blocks : Range(b.at, b.len) \cap Range(at, len) = {}

Init == blocks = {} /\ answer = <<>>

\* A block in use is one more than before, where nobody had anything.
Allocate(len) ==
  \E b \in blocks' \ blocks :
    /\ len <= b.len /\ b.len <= len + Slack
    /\ Free(b.at, b.len)
    /\ blocks' = blocks \cup {b}
    /\ answer' = <<len, b.at>>

Refuse(len) ==
  /\ \A at \in 0 .. Limit - len : ~Free(at, len)
  /\ answer' = <<len, NoAddress>>
  /\ UNCHANGED blocks

\* A request for nothing gets nothing.
RefuseNothing ==
  /\ answer' = <<0, NoAddress>>
  /\ UNCHANGED blocks

Release ==
  \E b \in blocks :
    /\ blocks' = blocks \ {b}
    /\ answer' = <<>>

Next ==
  \/ \E len \in Lengths : Allocate(len) \/ Refuse(len)
  \/ RefuseNothing
  \/ Release

Spec == Init /\ [][Next]_vars
=============================================================================
