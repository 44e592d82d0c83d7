---------------------------- MODULE MotPapMoves ----------------------------
(***************************************************************************)
(* MotPap, used by a patient client, implements AxisMoves.                 *)
(***************************************************************************)
EXTENDS MotPap

\* Marked stalled, and the timer cut.
Tripped(a) == axis[a].stalled /\ ~tmr[a].started

ModeOf(a) ==
  IF Commanded(a) THEN "accepted"
  ELSE IF axis[a].type = "STOP" \/ Tripped(a) THEN "rest"
  ELSE IF axis[a].type = "STEPS" THEN "steps"
  ELSE "free"

\* The edges of a free run are not counted, nor the last move's while a new one
\* is set up.
CountsEdges(a) == ~Commanded(a) /\ axis[a].type # "FREE_RUNNING"

DoneOf(a) == IF CountsEdges(a) THEN axis[a].half_steps_curr ELSE 0
GoalOf(a) == IF CountsEdges(a) THEN Goal(axis[a]) ELSE 0

mode == [a \in Axes |-> ModeOf(a)]
done == [a \in Axes |-> DoneOf(a)]
goal == [a \in Axes |-> GoalOf(a)]

Moves == INSTANCE AxisMoves

\* The firmware, driven by a patient client, keeps the promise of AxisMoves: the
\* commands of net_commands.c, mot_pap_isr and the supervisor map each of their
\* steps to a step of it or to none.
ImplementsAxisMoves == Moves!Spec
=============================================================================
