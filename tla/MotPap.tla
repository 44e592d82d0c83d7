------------------------------- MODULE MotPap -------------------------------
(***************************************************************************)
(* The stepper-motor core of the firmware: struct mot_pap and its timer    *)
(* for each axis (mot_pap.c, tmr.c, x_axis.c, y_axis.c, z_axis.c), the     *)
(* commands that reach it from the network (net_commands.c), the encoder   *)
(* count (encoders.c), the relays (relay.c) and the link monitor that      *)
(* drives one of them (lwip_init.c).                                       *)
(*                                                                         *)
(* Who takes steps, and who can preempt whom:                              *)
(*   - the timer ISR of an axis, above every task; the ISRs of two axes    *)
(*     have the same NVIC priority and do not nest, so an ISR is one step; *)
(*   - the encoder ISR, above everything;                                  *)
(*   - tcp_server_task (priority 3), which executes the commands; its      *)
(*     steps are split wherever an ISR can come between two accesses that  *)
(*     matter to it;                                                       *)
(*   - mot_pap_supervisor_task (priority 2), which runs only while the TCP *)
(*     task is blocked (in recv(), "idle", or in vTaskDelay(), "delay") and*)
(*     which a command can preempt between any two of its steps;           *)
(*   - the link monitor (priority 1), while both are blocked.              *)
(* tmr_stop, tmr_set_freq and tmr_start are taken as atomic.               *)
(***************************************************************************)
EXTENDS Integers, Sequences

CONSTANTS
  Axes,             \* the struct mot_pap instances: x_axis, y_axis, z_axis
  XAxis,            \* the one AXIS_FREE_RUN and AXIS_STOP are wired to
  Speeds,           \* "speed" values a client sends
  Steps,            \* "steps" values a client sends
  Dividers,         \* "step_amplitude_divider" values a client sends
  OobFreqs,         \* what reading past mot_pap_free_run_freqs may give, in Hz,
                    \* once in an int32_t: it may be negative
  SupervisorRate,   \* MOT_PAP_SUPERVISOR_RATE (625)
  StallThreshold,   \* MOT_PAP_STALL_THRESHOLD (3)
  StallMaxCount,    \* MOT_PAP_STALL_MAX_COUNT (40)
  WordHalf,         \* 2^31: an int holds -WordHalf .. WordHalf - 1
  FreqHalf,         \* 2^31 for the frequencies, which TLC scales differently
  MaxCmds,          \* bound: commands accepted in a behaviour
  MaxCount          \* bound: encoder edges in a behaviour

ASSUME AxesAssumption == XAxis \in Axes
ASSUME InputAssumption ==
  /\ Speeds \subseteq Nat /\ Steps \subseteq Nat /\ Dividers \subseteq Nat
  /\ OobFreqs \subseteq -FreqHalf .. FreqHalf - 1
\* Two frequencies the timer takes add up within an int32_t.
ASSUME FreqAssumption == FreqHalf \in Nat /\ FreqHalf > 2 * 300000
ASSUME ParameterAssumption ==
  /\ SupervisorRate \in Nat \ {0} /\ StallMaxCount \in Nat \ {0}
  /\ StallThreshold \in Nat /\ WordHalf \in Nat \ {0}
  /\ MaxCmds \in Nat /\ MaxCount \in Nat

VARIABLES
  axis,             \* [Axes -> struct mot_pap]
  tmr,              \* [Axes -> the timer: counting with its IRQ on, and its rate]
  pin,              \* [Axes -> level of the direction pin, as a direction]
  queue,            \* mot_pap_supervisor_task_queue, of length 1
  sup,              \* mot_pap_supervisor_task: where it is, and its locals
  tcp,              \* where the TCP task is inside a command
  cmd,              \* the arguments of the command it executes
  power,            \* relay_1, the main power relay
  stall_detection,  \* net_commands.c: stall_detection
  count_a,          \* encoders.c: count_a
  cmds              \* commands accepted so far

vars == <<axis, tmr, pin, queue, sup, tcp, cmd, power, stall_detection,
          count_a, cmds>>
-----------------------------------------------------------------------------
Dirs == {"CW", "CCW"}
MotTypes == {"FREE_RUNNING", "STEPS", "STOP"}

\* An int after a computation that may overflow it.
Wrapped(x, half) == ((x + half) % (2 * half)) - half
Wrap(x) == Wrapped(x, WordHalf)
Word == -WordHalf .. WordHalf - 1
FreqWord == -FreqHalf .. FreqHalf - 1
Abs(x) == IF x < 0 THEN -x ELSE x

MOT_PAP_MAX_SPEED_FREE_RUN == 8
MOT_PAP_COMPUMOTOR_MAX_FREQ == 300000

\* The table, in Hz; its indexes are 0 .. 7.
mot_pap_free_run_freqs ==
  <<0, 5000, 15000, 25000, 50000, 75000, 100000, 125000>>
mot_pap_free_run_speed_ok(speed) == speed > 0 /\ speed <= MOT_PAP_MAX_SPEED_FREE_RUN
InTable(speed) == speed + 1 \in 1 .. 8
\* The frequencies indexing the table with speed may give.
RequestedFreqs(speed) ==
  IF InTable(speed) THEN {mot_pap_free_run_freqs[speed + 1]} ELSE OobFreqs
\* UDIV: a division by zero gives zero (DIV_0_TRP is left clear).
Quotient(n, d) == IF d = 0 THEN 0 ELSE n \div d
\* An int32_t divided by a uint32_t: as unsigned numbers, then back to int32_t.
FirstFreq(f, div) == Wrapped(Quotient(f % (2 * FreqHalf), div), FreqHalf)

\* tmr.c, as functions on the timer.
Timer == [started: BOOLEAN, freq: 0 .. MOT_PAP_COMPUMOTOR_MAX_FREQ]
tmr_stop(t) == [t EXCEPT !.started = FALSE]
\* Mutant of tmr_set_freq: a signed parameter, with the upper limit only.
tmr_set_freq_signed(t, hz) ==
  IF hz > MOT_PAP_COMPUMOTOR_MAX_FREQ THEN t ELSE [t EXCEPT !.freq = hz]
\* As a uint32_t a negative rate is above the limit.
tmr_set_freq(t, hz) ==
  IF hz \in 0 .. MOT_PAP_COMPUMOTOR_MAX_FREQ THEN [t EXCEPT !.freq = hz] ELSE t
tmr_start(t) == [t EXCEPT !.started = TRUE]

MotPapStruct ==
  [type: MotTypes, dir: Dirs, posAct: Nat, last_pos: Nat,
   already_there: BOOLEAN, stalled: BOOLEAN, stalled_counter: Nat,
   half_pulses: 0 .. SupervisorRate - 1,
   half_steps_curr: Int, half_steps_requested: Int, half_steps_to_middle: Int,
   requested_freq: FreqWord, freq_delta: FreqWord, current_freq: FreqWord,
   max_speed_reached: BOOLEAN, max_speed_reached_distance: Int]

\* .bss zeroes what x_axis_init and its siblings do not assign.
AtReset ==
  [type |-> "STOP", dir |-> "CW", posAct |-> 0, last_pos |-> 0,
   already_there |-> FALSE, stalled |-> FALSE, stalled_counter |-> 0,
   half_pulses |-> 0,
   half_steps_curr |-> 0, half_steps_requested |-> 0, half_steps_to_middle |-> 0,
   requested_freq |-> 0, freq_delta |-> 0, current_freq |-> 0,
   max_speed_reached |-> FALSE, max_speed_reached_distance |-> 0]

NoCmd == [op |-> "none", axis |-> XAxis, dir |-> "CW", speed |-> 0,
          steps |-> 0, div |-> 0]
NoSup == [pc |-> "wait", me |-> XAxis, pos |-> 0, n |-> 0, half |-> FALSE]

Init ==
  /\ axis = [a \in Axes |-> AtReset]
  /\ tmr = [a \in Axes |-> [started |-> FALSE, freq |-> 0]]
  /\ pin = [a \in Axes |-> "CW"]
  /\ queue = <<>>
  /\ sup = NoSup
  /\ tcp = "idle"
  /\ cmd = NoCmd
  /\ power = FALSE
  /\ stall_detection = TRUE
  /\ count_a = 0
  /\ cmds = 0

-----------------------------------------------------------------------------
(***************************************************************************)
(* The commands, executed by the TCP task.                                 *)
(***************************************************************************)
Put(a, me) == axis' = [axis EXCEPT ![a] = me]

\* Mutant of AssumeNotStalled: the arrival of the last move stays.
AssumeNotStalledButArrived(me) ==
  [me EXCEPT !.stalled = FALSE, !.stalled_counter = 0]

\* A move command whose speed is accepted: the struct leaves the state a stall
\* or an arrival left it in.  A refused speed changes nothing.
AssumeNotStalled(me) ==
  [me EXCEPT !.stalled = FALSE, !.stalled_counter = 0, !.already_there = FALSE]

BeginMove(c) ==
  /\ tcp = "idle" /\ cmds < MaxCmds
  /\ mot_pap_free_run_speed_ok(c.speed)
  /\ Put(c.axis, AssumeNotStalled(axis[c.axis]))
  /\ tcp' = "test" /\ cmd' = c /\ cmds' = cmds + 1
  /\ UNCHANGED <<tmr, pin, queue, sup, power, stall_detection, count_a>>

BeginFreeRun ==
  \E d \in Dirs, s \in Speeds :
    BeginMove([op |-> "free_run", axis |-> XAxis, dir |-> d, speed |-> s,
               steps |-> 0, div |-> 0])
BeginSteps ==
  \E a \in Axes, d \in Dirs, s \in Speeds, n \in Steps, v \in Dividers :
    BeginMove([op |-> "steps", axis |-> a, dir |-> d, speed |-> s,
               steps |-> n, div |-> v])

\* if ((me->dir != direction) && (me->type != MOT_PAP_TYPE_STOP))
Reversal(me) == me.dir # cmd.dir /\ me.type # "STOP"

TestReversal ==
  /\ tcp = "test"
  /\ tcp' = IF Reversal(axis[cmd.axis]) THEN "halt" ELSE "type"
  /\ UNCHANGED <<axis, tmr, pin, queue, sup, cmd, power, stall_detection,
                 count_a, cmds>>

HaltToReverse ==
  /\ tcp = "halt"
  /\ tmr' = [tmr EXCEPT ![cmd.axis] = tmr_stop(@)]
  /\ tcp' = "delay"
  /\ UNCHANGED <<axis, pin, queue, sup, cmd, power, stall_detection, count_a,
                 cmds>>

\* vTaskDelay(pdMS_TO_TICKS(MOT_PAP_DIRECTION_CHANGE_DELAY_MS)) returns.
WakeFromDelay ==
  /\ tcp = "delay"
  /\ tcp' = "type"
  /\ UNCHANGED <<axis, tmr, pin, queue, sup, cmd, power, stall_detection,
                 count_a, cmds>>

SetTypeFreeRun ==
  /\ tcp = "type" /\ cmd.op = "free_run"
  /\ \E f \in RequestedFreqs(cmd.speed) :
       Put(cmd.axis, [axis[cmd.axis] EXCEPT !.type = "FREE_RUNNING",
                                            !.dir = cmd.dir,
                                            !.requested_freq = f])
  /\ pin' = [pin EXCEPT ![cmd.axis] = cmd.dir]
  /\ tcp' = "launch"
  /\ UNCHANGED <<tmr, queue, sup, cmd, power, stall_detection, count_a, cmds>>

SetTypeSteps ==
  /\ tcp = "type" /\ cmd.op = "steps"
  /\ Put(cmd.axis, [axis[cmd.axis] EXCEPT !.type = "STEPS", !.dir = cmd.dir])
  /\ tcp' = "count"
  /\ UNCHANGED <<tmr, pin, queue, sup, cmd, power, stall_detection, count_a,
                 cmds>>

\* Mutant of ResetCount: the edges of the last move count for this one.
ResetCountForgotten ==
  /\ tcp = "count"
  /\ tcp' = "request"
  /\ UNCHANGED <<axis, tmr, pin, queue, sup, cmd, power, stall_detection,
                 count_a, cmds>>

ResetCount ==
  /\ tcp = "count"
  /\ Put(cmd.axis, [axis[cmd.axis] EXCEPT !.half_steps_curr = 0])
  /\ tcp' = "request"
  /\ UNCHANGED <<tmr, pin, queue, sup, cmd, power, stall_detection, count_a,
                 cmds>>

\* The request and the ramp: the first frequency is freq_delta.
PlanSteps(me, f) ==
  LET requested == Wrap(2 * cmd.steps)
  IN  [me EXCEPT !.half_steps_requested = requested,
                 !.half_steps_to_middle = requested \div 2,
                 !.requested_freq = f,
                 !.freq_delta = FirstFreq(f, cmd.div),
                 !.current_freq = FirstFreq(f, cmd.div),
                 !.max_speed_reached = FALSE]

SetRequest ==
  /\ tcp = "request"
  /\ \E f \in RequestedFreqs(cmd.speed) :
       Put(cmd.axis, PlanSteps(axis[cmd.axis], f))
  /\ pin' = [pin EXCEPT ![cmd.axis] = cmd.dir]
  /\ tcp' = "launch"
  /\ UNCHANGED <<tmr, queue, sup, cmd, power, stall_detection, count_a, cmds>>

LaunchFreq(me) ==
  IF cmd.op = "free_run" THEN me.requested_freq ELSE me.current_freq

\* tmr_stop; tmr_set_freq; tmr_start: nothing can come between them, the
\* ISR being off and the supervisor of a lower priority.
Launch ==
  /\ tcp = "launch"
  /\ tmr' = [tmr EXCEPT ![cmd.axis] =
               tmr_start(tmr_set_freq(tmr_stop(@), LaunchFreq(axis[cmd.axis])))]
  /\ tcp' = "idle" /\ cmd' = NoCmd
  /\ UNCHANGED <<axis, pin, queue, sup, power, stall_detection, count_a, cmds>>

\* AXIS_STOP: mot_pap_stop(&x_axis), in two steps.
BeginStop ==
  /\ tcp = "idle" /\ cmds < MaxCmds
  /\ Put(XAxis, [axis[XAxis] EXCEPT !.type = "STOP"])
  /\ tcp' = "stop" /\ cmd' = [NoCmd EXCEPT !.op = "stop"] /\ cmds' = cmds + 1
  /\ UNCHANGED <<tmr, pin, queue, sup, power, stall_detection, count_a>>

FinishStop ==
  /\ tcp = "stop"
  /\ tmr' = [tmr EXCEPT ![cmd.axis] = tmr_stop(@)]
  /\ tcp' = "idle" /\ cmd' = NoCmd
  /\ UNCHANGED <<axis, pin, queue, sup, power, stall_detection, count_a, cmds>>

\* CONTROL_ENABLE
ControlEnable ==
  /\ tcp = "idle" /\ cmds < MaxCmds
  /\ power' \in BOOLEAN
  /\ cmds' = cmds + 1
  /\ UNCHANGED <<axis, tmr, pin, queue, sup, tcp, cmd, stall_detection, count_a>>

\* STALL_CONTROL
StallControl ==
  /\ tcp = "idle" /\ cmds < MaxCmds
  /\ stall_detection' \in BOOLEAN
  /\ cmds' = cmds + 1
  /\ UNCHANGED <<axis, tmr, pin, queue, sup, tcp, cmd, power, count_a>>

\* Steps of a command already begun.
TcpStep ==
  \/ TestReversal \/ HaltToReverse \/ WakeFromDelay
  \/ SetTypeFreeRun \/ SetTypeSteps \/ ResetCount \/ SetRequest
  \/ Launch \/ FinishStop

TcpBegin ==
  \/ BeginFreeRun \/ BeginSteps \/ BeginStop \/ ControlEnable \/ StallControl

-----------------------------------------------------------------------------
(***************************************************************************)
(* The interrupts.                                                         *)
(***************************************************************************)
\* xQueueSendFromISR on a queue of length 1, its result ignored.
Send(q, a) == IF q = <<>> THEN <<a>> ELSE q

\* Mutant of Arrived: one edge late.
ArrivedLate(me) ==
  \/ me.type = "STEPS" /\ me.half_steps_curr > me.half_steps_requested
  \/ me.type # "STEPS" /\ me.already_there

\* The arrival test of a STEPS move; another type keeps the flag it has.
Arrived(me) ==
  \/ me.type = "STEPS" /\ me.half_steps_curr >= me.half_steps_requested
  \/ me.type # "STEPS" /\ me.already_there

\* The 625th half step since the last call to the supervisor.
SupervisorDue(me) == me.half_pulses + 1 = SupervisorRate

\* Mutant of Halted: the axis stops without saying that it has arrived.
HaltedUnmarked(me) ==
  [me EXCEPT !.posAct = count_a, !.last_pos = count_a, !.type = "STOP"]

Halted(me) ==
  [me EXCEPT !.posAct = count_a, !.last_pos = count_a,
             !.already_there = TRUE, !.type = "STOP"]
Pulsed(me) ==
  [me EXCEPT !.posAct = count_a, !.last_pos = count_a,
             !.already_there = Arrived(me),
             !.half_steps_curr = Wrap(@ + 1),
             !.half_pulses = IF SupervisorDue(me) THEN 0 ELSE @ + 1]

\* mot_pap_isr when the movement is over ...
IsrHalt(a) ==
  /\ tmr[a].started
  /\ Arrived(axis[a])
  /\ Put(a, Halted(axis[a]))
  /\ tmr' = [tmr EXCEPT ![a] = tmr_stop(@)]
  /\ queue' = Send(queue, a)
  /\ UNCHANGED <<pin, sup, tcp, cmd, power, stall_detection, count_a, cmds>>

\* ... and when it is not: one edge on the step pin.
IsrPulse(a) ==
  /\ tmr[a].started
  /\ ~Arrived(axis[a])
  /\ Put(a, Pulsed(axis[a]))
  /\ queue' = IF SupervisorDue(axis[a]) THEN Send(queue, a) ELSE queue
  /\ UNCHANGED <<tmr, pin, sup, tcp, cmd, power, stall_detection, count_a, cmds>>

mot_pap_isr(a) == IsrHalt(a) \/ IsrPulse(a)

\* GPIO2_IRQHandler
EncoderEdge ==
  /\ count_a < MaxCount
  /\ count_a' = count_a + 1
  /\ UNCHANGED <<axis, tmr, pin, queue, sup, tcp, cmd, power, stall_detection,
                 cmds>>

-----------------------------------------------------------------------------
(***************************************************************************)
(* mot_pap_supervisor_task.                                                *)
(***************************************************************************)
SupervisorRuns == tcp \in {"idle", "delay"}

\* The supervisor goes on at pc, or back to xQueueReceive.
SupAt(pc) == sup' = IF pc = "wait" THEN NoSup ELSE [sup EXCEPT !.pc = pc]
me_ == axis[sup.me]

SupReceive ==
  /\ SupervisorRuns /\ sup.pc = "wait" /\ queue # <<>>
  /\ LET a == Head(queue)
     IN  IF stall_detection
         THEN sup' = [NoSup EXCEPT !.pc = "moved", !.me = a, !.pos = axis[a].posAct]
         ELSE sup' = [NoSup EXCEPT !.pc = "check", !.me = a]
  /\ queue' = Tail(queue)
  /\ UNCHANGED <<axis, tmr, pin, tcp, cmd, power, stall_detection, count_a, cmds>>

\* abs(me->posAct - me->last_pos) < MOT_PAP_STALL_THRESHOLD; the ISR may have
\* run between the two reads.
Still(me) == Abs(sup.pos - me.last_pos) < StallThreshold
StallReached(me) == me.stalled_counter + 1 >= StallMaxCount

SupCountStall ==
  /\ SupervisorRuns /\ sup.pc = "moved"
  /\ IF Still(me_)
     THEN /\ Put(sup.me, [me_ EXCEPT !.stalled_counter = @ + 1])
          /\ SupAt(IF StallReached(me_) THEN "mark" ELSE "check")
     ELSE /\ Put(sup.me, [me_ EXCEPT !.stalled_counter = 0])
          /\ SupAt("check")
  /\ UNCHANGED <<tmr, pin, queue, tcp, cmd, power, stall_detection, count_a, cmds>>

SupMarkStalled ==
  /\ SupervisorRuns /\ sup.pc = "mark"
  /\ Put(sup.me, [me_ EXCEPT !.stalled = TRUE])
  /\ SupAt("cut")
  /\ UNCHANGED <<tmr, pin, queue, tcp, cmd, power, stall_detection, count_a, cmds>>

SupCutTimer ==
  /\ SupervisorRuns /\ sup.pc = "cut"
  /\ tmr' = [tmr EXCEPT ![sup.me] = tmr_stop(@)]
  /\ SupAt("power")
  /\ UNCHANGED <<axis, pin, queue, tcp, cmd, power, stall_detection, count_a, cmds>>

\* relay_main_pwr(0)
SupCutPower ==
  /\ SupervisorRuns /\ sup.pc = "power"
  /\ power' = FALSE
  /\ SupAt("wait")
  /\ UNCHANGED <<axis, tmr, pin, queue, tcp, cmd, stall_detection, count_a, cmds>>

\* Mutants of SupMustLeave: one of the two checks is missing.
SupLeavesStalled(me) == me.stalled
SupLeavesArrived(me) == me.already_there

SupMustLeave(me) == me.stalled \/ me.already_there

\* Leaves a stalled or arrived axis alone, and one whose step_time is not over
\* (the tick count is abstracted: a step_time may or may not be over).
SupCheck ==
  /\ SupervisorRuns /\ sup.pc = "check"
  /\ \/ SupMustLeave(me_) /\ SupAt("wait")
     \/ ~SupMustLeave(me_) /\ \E pc \in {"wait", "half"} : SupAt(pc)
  /\ UNCHANGED <<axis, tmr, pin, queue, tcp, cmd, power, stall_detection, count_a,
                 cmds>>

FirstHalfPassed(me) ==
  me.type = "STEPS" /\ me.half_steps_curr > me.half_steps_to_middle

SupFirstHalf ==
  /\ SupervisorRuns /\ sup.pc = "half"
  /\ LET passed == FirstHalfPassed(me_)
         accelerates == ~me_.max_speed_reached /\ ~passed
     IN  sup' = [sup EXCEPT !.half = passed,
                            !.pc = IF accelerates THEN "faster" ELSE "brake",
                            !.n = IF accelerates
                                  THEN Wrapped(me_.current_freq + me_.freq_delta,
                                               FreqHalf)
                                  ELSE 0]
  /\ UNCHANGED <<axis, tmr, pin, queue, tcp, cmd, power, stall_detection, count_a,
                 cmds>>

\* Mutant of Accelerated: no cap.
AcceleratedUncapped(me, freq) == [me EXCEPT !.current_freq = freq]

\* current_freq reached freq: capped, and the distance remembered.
Accelerated(me, freq) ==
  IF freq >= me.requested_freq
  THEN [me EXCEPT !.current_freq = me.requested_freq,
                  !.max_speed_reached = TRUE,
                  !.max_speed_reached_distance =
                      IF me.type = "STEPS" THEN me.half_steps_curr ELSE @]
  ELSE [me EXCEPT !.current_freq = freq]

SupAccelerate ==
  /\ SupervisorRuns /\ sup.pc = "faster"
  /\ Put(sup.me, Accelerated(me_, sup.n))
  /\ sup' = [sup EXCEPT !.pc = "brake", !.n = 0]
  /\ UNCHANGED <<tmr, pin, queue, tcp, cmd, power, stall_detection, count_a, cmds>>

\* distance_left is not initialised unless the type is STEPS: the comparison
\* may then come out either way.
NearEnd(me) ==
  IF me.type = "STEPS"
  THEN {me.half_steps_requested - me.half_steps_curr <= me.max_speed_reached_distance}
  ELSE BOOLEAN
MustBrake(me, near) ==
  (me.max_speed_reached /\ near) \/ (~me.max_speed_reached /\ sup.half)
\* Mutant of Braked: no floor.
BrakedToZero(me) ==
  [me EXCEPT !.current_freq = IF @ > me.freq_delta THEN @ - me.freq_delta ELSE 0]

Braked(me) ==
  LET slower == Wrapped(me.current_freq - me.freq_delta, FreqHalf)
  IN  [me EXCEPT !.current_freq =
         IF slower <= me.freq_delta THEN me.freq_delta ELSE slower]

SupBrake ==
  /\ SupervisorRuns /\ sup.pc = "brake"
  /\ \E near \in NearEnd(me_) :
       IF MustBrake(me_, near) THEN Put(sup.me, Braked(me_)) ELSE UNCHANGED axis
  /\ SupAt("retime")
  /\ UNCHANGED <<tmr, pin, queue, tcp, cmd, power, stall_detection, count_a, cmds>>

\* tmr_stop; tmr_set_freq
SupRetime ==
  /\ SupervisorRuns /\ sup.pc = "retime"
  /\ tmr' = [tmr EXCEPT ![sup.me] = tmr_set_freq(tmr_stop(@), me_.current_freq)]
  /\ SupAt("restart")
  /\ UNCHANGED <<axis, pin, queue, tcp, cmd, power, stall_detection, count_a, cmds>>

\* tmr_start
SupRestart ==
  /\ SupervisorRuns /\ sup.pc = "restart"
  /\ tmr' = [tmr EXCEPT ![sup.me] = tmr_start(@)]
  /\ SupAt("wait")
  /\ UNCHANGED <<axis, pin, queue, tcp, cmd, power, stall_detection, count_a, cmds>>

Supervise ==
  \/ SupReceive \/ SupCountStall \/ SupMarkStalled \/ SupCutTimer \/ SupCutPower
  \/ SupCheck \/ SupFirstHalf \/ SupAccelerate \/ SupBrake
  \/ SupRetime \/ SupRestart

-----------------------------------------------------------------------------
\* relay_spare_led, called by the link monitor (vStackIpSetup, priority 1, hence
\* only while the other tasks are blocked) when the cable comes or goes: its pin,
\* relay_4, is the direction pin of the X axis.
LinkChange ==
  /\ SupervisorRuns /\ sup.pc = "wait" /\ queue = <<>>
  /\ \E connected \in Dirs : pin' = [pin EXCEPT ![XAxis] = connected]
  /\ UNCHANGED <<axis, tmr, queue, sup, tcp, cmd, power, stall_detection,
                 count_a, cmds>>

-----------------------------------------------------------------------------
Next ==
  \/ TcpBegin
  \/ TcpStep
  \/ Supervise
  \/ \E a \in Axes : mot_pap_isr(a)
  \/ EncoderEdge
  \/ LinkChange

\* Every client.
Spec == Init /\ [][Next]_vars

\* Work of the machine itself goes on: an enabled step of the TCP task or of the
\* supervisor is taken (nothing of a higher priority runs for ever) and a timer
\* with a rate interrupts.  Clients and encoders owe nothing.
MachineFairness ==
  /\ WF_vars(TcpStep)
  /\ WF_vars(Supervise)
  /\ \A a \in Axes : WF_vars(mot_pap_isr(a) /\ tmr[a].freq > 0)
FairSpec == Spec /\ MachineFairness

-----------------------------------------------------------------------------
(***************************************************************************)
(* Nothing in the firmware refuses a move command to an axis that still    *)
(* moves, and nothing tells a client that it does.  A patient client is one*)
(* that commands a move only when the axis is at rest, and whose arguments *)
(* have a frequency; what the firmware guarantees, it guarantees to it.    *)
(***************************************************************************)
Supervised(a) == sup.pc # "wait" /\ sup.me = a
Queued(a) == queue # <<>> /\ Head(queue) = a
InFlight(a) == tmr[a].started \/ Queued(a) \/ Supervised(a)

PatientClient ==
  (tcp = "idle" /\ tcp' # "idle") =>
     /\ cmd'.op \in {"free_run", "steps"}
     /\ ~InFlight(cmd'.axis)
     /\ InTable(cmd'.speed)
     /\ cmd'.op = "steps" => cmd'.div > 0

PatientSpec == Init /\ [][Next /\ PatientClient]_vars
PatientFairSpec == PatientSpec /\ MachineFairness

-----------------------------------------------------------------------------
(***************************************************************************)
(* Properties.                                                             *)
(***************************************************************************)
CmdRecords ==
  [op: {"none", "free_run", "steps", "stop"}, axis: Axes, dir: Dirs,
   speed: Nat, steps: Nat, div: Nat]
TcpPcs == {"idle", "test", "halt", "delay", "type", "count", "request",
           "launch", "stop"}
SupPcs == {"wait", "moved", "mark", "cut", "power", "check", "half", "faster",
           "brake", "retime", "restart"}

\* Every variable has its type; the lines of struct mot_pap and the queue's
\* length of 1 among them.  The rate of a timer is one the drive takes, whatever
\* frequency, negative or too high, a command or the ramp asks for.
TypeOK ==
  /\ axis \in [Axes -> MotPapStruct]
  /\ tmr \in [Axes -> Timer]
  /\ pin \in [Axes -> Dirs]
  /\ queue \in {<<>>} \cup {<<a>> : a \in Axes}
  /\ sup \in [pc: SupPcs, me: Axes, pos: Nat, n: FreqWord, half: BOOLEAN]
  /\ tcp \in TcpPcs
  /\ cmd \in CmdRecords
  /\ power \in BOOLEAN /\ stall_detection \in BOOLEAN
  /\ count_a \in Nat /\ cmds \in Nat

Goal(me) == IF me.half_steps_requested < 0 THEN 0 ELSE me.half_steps_requested
Between(a) == tcp \in {"count", "request"} /\ cmd.axis = a

\* A STEPS move never gives more edges than were asked for, and an axis that
\* reports its arrival has given all of them, whatever the supervisor was doing
\* when the ISR counted the last one (mot_pap_isr against the retiming of the
\* timer in mot_pap_supervisor_task).
ExactMove ==
  \A a \in Axes :
    /\ (axis[a].type = "STEPS" /\ ~Between(a))
          => axis[a].half_steps_curr <= Goal(axis[a])
    /\ (axis[a].already_there /\ ~Between(a))
          => axis[a].half_steps_curr = Goal(axis[a])

\* A timer the supervisor restarts behind the back of an ISR that has just
\* halted the axis cannot move it: whatever is still in flight for a stopped axis
\* finds already_there set, so the next ISR stops the timer without an edge.
StoppedCannotMove ==
  \A a \in Axes :
    (InFlight(a) /\ axis[a].type = "STOP") => axis[a].already_there

\* Once an axis is marked stalled its timer is stopped and no message, late
\* restart or other axis starts it again without a new command; only the step
\* between the mark and the cut sees it running.
StalledHalted ==
  \A a \in Axes :
    (axis[a].stalled /\ ~(Supervised(a) /\ sup.pc = "cut")) => ~tmr[a].started

\* The ramp never drives the motor faster than the commanded speed nor below the
\* ramp's increment, although the supervisor computes it from fields that the ISR
\* changes meanwhile.
RampInRange ==
  \A a \in Axes :
    (axis[a].type = "STEPS" /\ tmr[a].started) =>
       tmr[a].freq \in axis[a].freq_delta .. axis[a].requested_freq

\* No STEPS move lasts for ever: it arrives, or the axis is found stalled, and the
\* timer stops.
MoveEnds ==
  \A a \in Axes :
    []<>(axis[a].type = "STEPS" =>
           ~tmr[a].started /\ (axis[a].already_there \/ axis[a].stalled))

\* The timer interrupts, hence edges or the end of the movement are to come.
Moving(a) == tmr[a].started /\ tmr[a].freq > 0

\* Under any client, an axis that has arrived comes to rest for good once the last
\* command has been executed: late messages and a supervisor caught between its
\* checks and tmr_start may restart the timer, but not for ever.
ArrivedRests ==
  \A a \in Axes :
    (tcp = "idle" /\ cmds = MaxCmds /\ axis[a].already_there) ~> [](~Moving(a))

-----------------------------------------------------------------------------
(***************************************************************************)
(* The inductive invariant behind the properties a patient client sees.    *)
(***************************************************************************)
\* A command in execution: its axis is at rest, and the struct holds what the
\* command has written so far.
CommandInv ==
  tcp # "idle" =>
    /\ tcp # "stop" /\ cmd.op \in {"free_run", "steps"} /\ InTable(cmd.speed)
    /\ ~InFlight(cmd.axis)
    /\ ~axis[cmd.axis].already_there /\ ~axis[cmd.axis].stalled
    /\ tcp \in {"count", "request"} =>
         cmd.op = "steps" /\ axis[cmd.axis].type = "STEPS"
    /\ tcp = "launch" =>
         axis[cmd.axis].type = IF cmd.op = "steps" THEN "STEPS" ELSE "FREE_RUNNING"
    /\ (tcp \in {"request", "launch"} /\ cmd.op = "steps") =>
         axis[cmd.axis].half_steps_curr = 0

\* The ramp of a STEPS move.
RampPlanned(me) ==
  /\ 0 <= me.freq_delta
  /\ me.freq_delta <= me.current_freq /\ me.current_freq <= me.requested_freq
  /\ me.requested_freq <= MOT_PAP_COMPUMOTOR_MAX_FREQ

\* Past its checks, the supervisor holds an axis that is not stalled, and
\* frequencies that suit its ramp; before it cuts a timer, one that is.
SupervisorInv ==
  /\ sup.pc = "cut" => axis[sup.me].stalled
  /\ sup.pc \in {"half", "faster", "brake", "retime", "restart"}
       => ~axis[sup.me].stalled
  /\ (sup.pc = "faster" /\ axis[sup.me].type = "STEPS")
       => sup.n >= axis[sup.me].freq_delta
  /\ (sup.pc = "restart" /\ axis[sup.me].type = "STEPS")
       => tmr[sup.me].freq \in axis[sup.me].freq_delta .. axis[sup.me].requested_freq

Commanded(a) == tcp # "idle" /\ cmd.axis = a

CountInv(a) ==
  /\ axis[a].half_steps_curr \in Word /\ axis[a].half_steps_requested \in Word
  /\ (axis[a].type = "STEPS" /\ ~(tcp = "count" /\ cmd.axis = a))
       => axis[a].half_steps_curr >= 0
  /\ (axis[a].type = "STEPS" /\ ~Between(a))
       => axis[a].half_steps_curr <= Goal(axis[a])
  /\ (axis[a].already_there /\ ~Between(a))
       => axis[a].half_steps_curr = Goal(axis[a])
  /\ axis[a].type = "FREE_RUNNING" => ~axis[a].already_there

RampInv(a) ==
  /\ (axis[a].type = "STEPS" /\ ~Between(a)) => RampPlanned(axis[a])
  /\ (axis[a].type = "STEPS" /\ tmr[a].started) =>
       tmr[a].freq \in axis[a].freq_delta .. axis[a].requested_freq

\* A stopped axis cannot move, a stalled one does not, and one that is neither
\* does or is about to.
RestInv(a) ==
  /\ (InFlight(a) /\ axis[a].type = "STOP") => axis[a].already_there
  /\ (axis[a].stalled /\ ~(Supervised(a) /\ sup.pc = "cut")) => ~tmr[a].started
  /\ (axis[a].type # "STOP" /\ ~axis[a].stalled /\ ~Commanded(a)) =>
       tmr[a].started \/ (Supervised(a) /\ sup.pc = "restart")

\* What holds between any two steps under a patient client: it contains
\* ExactMove, StoppedCannotMove, StalledHalted and RampInRange, and what the
\* three actors owe each other for these to be preserved (CommandInv: no actor
\* touches the axis of a command in execution; SupervisorInv: the supervisor
\* acts on checks that still hold).
PatientInv ==
  /\ TypeOK
  /\ CommandInv
  /\ SupervisorInv
  /\ \A a \in Axes : CountInv(a) /\ RampInv(a) /\ RestInv(a)
=============================================================================
