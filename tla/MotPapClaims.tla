---------------------------- MODULE MotPapClaims ----------------------------
(***************************************************************************)
(* What a comment of mot_pap.c says the stepper core does, and it does     *)
(* not for some client: one that commands an axis that moves or pulls the  *)
(* cable.                                                                  *)
(***************************************************************************)
EXTENDS MotPap

CONSTANTS x, y

\* mot_pap.c:182 on mot_pap_stop: "if there is a movement in process, stops it".
\* An axis stopped by AXIS_STOP (its type says so and it has not arrived) gives
\* no more edges until another command.
StopHolds ==
  \A a \in Axes :
    (tcp = "idle" /\ axis[a].type = "STOP" /\ ~axis[a].already_there)
      => ~Moving(a)
=============================================================================
