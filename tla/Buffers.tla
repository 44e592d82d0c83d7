------------------------------ MODULE Buffers ------------------------------
(***************************************************************************)
(* What queue.c promises its callers: bounded buffers, each first in first *)
(* out, that a call acts on in one step, at once or after a wait.  A wait  *)
(* without limit does not end in failure, and one to receive only when     *)
(* there is nothing to get.  A semaphore is a buffer of tokens, a mutex    *)
(* the buffer of one.                                                      *)
(***************************************************************************)
EXTENDS Naturals, Sequences

CONSTANTS Task, Handles, Calls, Length, FromISR, Isr, Token, Messages, None

VARIABLES
  buffer,   \* what each handle holds
  wants     \* the call each task is in, None between calls

vars == <<buffer, wants>>

Content(q, sender) == IF q \in Messages THEN sender ELSE Token

Init ==
  /\ buffer \in [Handles -> {<<>>, <<Token>>}]
  /\ wants = [t \in Task |-> None]

\* A call that finds what it needs at once, or the one a task waits in.
Wanted(t) == IF wants[t] = None THEN Calls ELSE {wants[t]}

Wait(t) ==
  /\ wants[t] = None
  /\ \E c \in Calls : wants' = [wants EXCEPT ![t] = c]
  /\ UNCHANGED buffer

Post(t) ==
  \E c \in Wanted(t) :
    /\ c.op = "send" /\ Len(buffer[c.q]) < Length[c.q]
    /\ buffer' = [buffer EXCEPT ![c.q] = Append(@, Content(c.q, t))]
    /\ wants' = [wants EXCEPT ![t] = None]

Fetch(t) ==
  \E c \in Wanted(t) :
    /\ c.op = "receive" /\ buffer[c.q] # <<>>
    /\ buffer' = [buffer EXCEPT ![c.q] = Tail(@)]
    /\ wants' = [wants EXCEPT ![t] = None]

GiveUp(t) ==
  /\ wants[t] # None /\ wants[t].patience # "forever"
  /\ wants[t].op = "receive" => buffer[wants[t].q] = <<>>
  /\ wants' = [wants EXCEPT ![t] = None]
  /\ UNCHANGED buffer

Interrupt(q) ==
  /\ Len(buffer[q]) < Length[q]
  /\ buffer' = [buffer EXCEPT ![q] = Append(@, Content(q, Isr))]
  /\ UNCHANGED wants

Next ==
  \/ \E t \in Task : Wait(t) \/ Post(t) \/ Fetch(t) \/ GiveUp(t)
  \/ \E q \in FromISR : Interrupt(q)

Spec == Init /\ [][Next]_vars
=============================================================================
