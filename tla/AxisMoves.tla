----------------------------- MODULE AxisMoves -----------------------------
(***************************************************************************)
(* What the stepper-motor core promises a client about each axis: a command*)
(* is taken only by an axis at rest, a STEPS move gives edges one at a time*)
(* up to its goal and comes to rest exactly there, unless it is tripped by *)
(* the stall detection, and an axis at rest gives no edge.                 *)
(***************************************************************************)
EXTENDS Integers

CONSTANT Axes

VARIABLES
  mode,   \* what the axis is doing
  done,   \* edges given in the current or last STEPS move
  goal    \* edges asked for in the current or last STEPS move

vars == <<mode, done, goal>>

Init ==
  /\ mode = [a \in Axes |-> "rest"]
  /\ done = [a \in Axes |-> 0]
  /\ goal = [a \in Axes |-> 0]

Becomes(a, from, to) == mode[a] = from /\ mode' = [mode EXCEPT ![a] = to]

\* A move command is taken; what the last move did is forgotten.
Accept(a) ==
  /\ Becomes(a, "rest", "accepted")
  /\ done' = [done EXCEPT ![a] = 0]
  /\ goal' = [goal EXCEPT ![a] = 0]

StartSteps(a) ==
  /\ Becomes(a, "accepted", "steps")
  /\ goal' = [goal EXCEPT ![a] = goal'[a]] /\ goal'[a] \in Nat
  /\ UNCHANGED done

StartFreeRun(a) ==
  /\ Becomes(a, "accepted", "free")
  /\ UNCHANGED <<done, goal>>

Edge(a) ==
  /\ mode[a] = "steps" /\ done[a] < goal[a]
  /\ done' = [done EXCEPT ![a] = @ + 1]
  /\ UNCHANGED <<mode, goal>>

Arrive(a) ==
  /\ Becomes(a, "steps", "rest")
  /\ done[a] = goal[a]
  /\ UNCHANGED <<done, goal>>

\* The stall detection stops the axis where it is.
Trip(a) ==
  /\ Becomes(a, "steps", "rest") \/ Becomes(a, "free", "rest")
  /\ UNCHANGED <<done, goal>>

Next ==
  \E a \in Axes :
    Accept(a) \/ StartSteps(a) \/ StartFreeRun(a) \/ Edge(a) \/ Arrive(a) \/ Trip(a)

Spec == Init /\ [][Next]_vars
=============================================================================
