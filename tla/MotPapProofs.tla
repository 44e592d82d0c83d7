---------------------------- MODULE MotPapProofs ----------------------------
(***************************************************************************)
(* Theorems about MotPap, for every value of its constants: type           *)
(* correctness under any client, and, to a patient one, that PatientInv is *)
(* inductive, the properties follow from it and AxisMoves is implemented.  *)
(***************************************************************************)
EXTENDS MotPapMoves, TLAPS

(***************************************************************************)
(* Types of the operators the actions are built from.                      *)
(***************************************************************************)
LEMMA DivideLess == \A n \in Nat, d \in Nat \ {0} : n \div d <= n
OBVIOUS

LEMMA ModInRange == \A k \in Nat \ {0} : \A j \in Int : j % k \in 0 .. k - 1
OBVIOUS

LEMMA ModSmall == \A k \in Nat \ {0} : \A j \in 0 .. k - 1 : j % k = j
OBVIOUS

\* Truncation gives a number of the width, and leaves such a number alone.
LEMMA WrappedWord ==
  ASSUME NEW half \in Nat \ {0}
  PROVE  /\ \A i \in Int : Wrapped(i, half) \in -half .. half - 1
         /\ \A i \in -half .. half - 1 : Wrapped(i, half) = i
<1>1. 2 * half \in Nat \ {0} OBVIOUS
<1>2. ASSUME NEW i \in Int PROVE Wrapped(i, half) \in -half .. half - 1
  <2>1. i + half \in Int OBVIOUS
  <2>2. (i + half) % (2 * half) \in 0 .. 2 * half - 1
    BY <1>1, <2>1, ModInRange
  <2> QED BY <1>1, <2>2 DEF Wrapped
<1>3. ASSUME NEW i \in -half .. half - 1 PROVE Wrapped(i, half) = i
  <2>1. i + half \in 0 .. 2 * half - 1 OBVIOUS
  <2>2. (i + half) % (2 * half) = i + half
    BY <1>1, <2>1, ModSmall
  <2> QED BY <1>1, <2>2 DEF Wrapped
<1> QED BY <1>2, <1>3

\* The same of the int of the counts and of the int32_t of the frequencies.
LEMMA WrapWord ==
  /\ \A i \in Int : Wrap(i) \in Word
  /\ \A i \in Word : Wrap(i) = i
BY WrappedWord, ParameterAssumption DEF Wrap, Word

LEMMA WrapFreqWord ==
  /\ \A i \in Int : Wrapped(i, FreqHalf) \in FreqWord
  /\ \A i \in FreqWord : Wrapped(i, FreqHalf) = i
BY WrappedWord, FreqAssumption DEF FreqWord

\* Truncation to an int gives an integer.
LEMMA WrapType == \A i \in Int : Wrap(i) \in Int
BY WrapWord, ParameterAssumption DEF Word

LEMMA MaxFreq ==
  MOT_PAP_COMPUMOTOR_MAX_FREQ \in Nat /\ 2 * MOT_PAP_COMPUMOTOR_MAX_FREQ < FreqHalf
BY FreqAssumption DEF MOT_PAP_COMPUMOTOR_MAX_FREQ

\* The frequencies the timer takes, and their sums and differences, are numbers
\* of 32 bits.
LEMMA SmallFreqs ==
  \A i \in Int :
    (-MOT_PAP_COMPUMOTOR_MAX_FREQ <= i /\ i <= 2 * MOT_PAP_COMPUMOTOR_MAX_FREQ)
      => i \in FreqWord
BY FreqAssumption, MaxFreq DEF FreqWord

\* A frequency of the table is within what the timer takes.
LEMMA TableFreq ==
  ASSUME NEW s \in Nat, InTable(s), NEW f \in RequestedFreqs(s)
  PROVE  f \in 0 .. MOT_PAP_COMPUMOTOR_MAX_FREQ
<1>1. s + 1 \in 1 .. 8 BY DEF InTable
<1>2. /\ mot_pap_free_run_freqs[s + 1] \in Nat
      /\ mot_pap_free_run_freqs[s + 1] <= MOT_PAP_COMPUMOTOR_MAX_FREQ
  BY <1>1 DEF mot_pap_free_run_freqs, MOT_PAP_COMPUMOTOR_MAX_FREQ
<1> QED BY <1>2, MaxFreq DEF RequestedFreqs

\* A frequency the table, or what lies past it, gives is an int32_t.
LEMMA FreqType ==
  ASSUME NEW s \in Nat, NEW f \in RequestedFreqs(s)
  PROVE  f \in FreqWord
<1>1. CASE InTable(s)
  <2>1. f \in 0 .. MOT_PAP_COMPUMOTOR_MAX_FREQ BY <1>1, TableFreq
  <2> QED BY <2>1, SmallFreqs, MaxFreq
<1>2. CASE ~InTable(s)
  BY <1>2, InputAssumption DEF RequestedFreqs, FreqWord
<1> QED BY <1>1, <1>2

\* Division of natural numbers, by zero too, gives a natural number.
LEMMA QuotientType ==
  \A n, d \in Nat : Quotient(n, d) \in Nat
BY DEF Quotient

\* It is at most the dividend.
LEMMA QuotientLess == \A n, d \in Nat : Quotient(n, d) <= n
BY DivideLess DEF Quotient

\* The first frequency of a ramp is an int32_t; when the last is one the timer
\* takes, it is at most the last.
LEMMA FirstFreqType ==
  ASSUME NEW f \in FreqWord, NEW d \in Nat
  PROVE  FirstFreq(f, d) \in FreqWord
<1>1. 2 * FreqHalf \in Nat \ {0} /\ f \in Int BY FreqAssumption DEF FreqWord
<1> DEFINE k == 2 * FreqHalf
<1>2. f % k \in Nat
  <2> HIDE DEF k
  <2>1. k \in Nat \ {0} /\ f \in Int BY <1>1 DEF k
  <2> QED BY <2>1, ModInRange
<1>3. Quotient(f % (2 * FreqHalf), d) \in Int BY <1>2, QuotientType
<1> QED BY <1>3, WrapFreqWord DEF FirstFreq

LEMMA FirstFreqLess ==
  ASSUME NEW f \in 0 .. MOT_PAP_COMPUMOTOR_MAX_FREQ, NEW d \in Nat
  PROVE  FirstFreq(f, d) \in 0 .. f
<1>1. 2 * FreqHalf \in Nat \ {0} /\ f \in 0 .. 2 * FreqHalf - 1 /\ f \in Nat
  BY FreqAssumption, MaxFreq
<1>2. f % (2 * FreqHalf) = f BY <1>1, ModSmall
<1>3. Quotient(f, d) \in 0 .. f
  <2>1. Quotient(f, d) \in Nat /\ Quotient(f, d) <= f
    BY <1>1, QuotientType, QuotientLess
  <2> QED BY <1>1, <2>1
<1>4. Quotient(f, d) \in FreqWord
  BY <1>3, SmallFreqs, MaxFreq
<1> QED BY <1>2, <1>3, <1>4, WrapFreqWord DEF FirstFreq

\* The timer operations keep the type of a timer.
LEMMA TmrType ==
  ASSUME NEW t \in Timer, NEW hz \in Int
  PROVE  /\ tmr_stop(t) \in Timer
         /\ tmr_start(t) \in Timer
         /\ tmr_set_freq(t, hz) \in Timer
BY DEF Timer, tmr_stop, tmr_start, tmr_set_freq

\* The frequencies of an axis are numbers; those of a planned ramp add up, and
\* subtract, without overflow.
LEMMA FreqInts ==
  ASSUME NEW me \in MotPapStruct
  PROVE  me.requested_freq \in Int /\ me.freq_delta \in Int /\ me.current_freq \in Int
BY FreqAssumption DEF MotPapStruct, FreqWord

LEMMA RampSums ==
  ASSUME NEW me \in MotPapStruct, RampPlanned(me)
  PROVE  /\ me.requested_freq \in 0 .. MOT_PAP_COMPUMOTOR_MAX_FREQ
         /\ me.current_freq \in 0 .. MOT_PAP_COMPUMOTOR_MAX_FREQ
         /\ Wrapped(me.current_freq + me.freq_delta, FreqHalf)
              = me.current_freq + me.freq_delta
         /\ Wrapped(me.current_freq - me.freq_delta, FreqHalf)
              = me.current_freq - me.freq_delta
<1>1. /\ me.requested_freq \in 0 .. MOT_PAP_COMPUMOTOR_MAX_FREQ
      /\ me.current_freq \in 0 .. MOT_PAP_COMPUMOTOR_MAX_FREQ
      /\ me.freq_delta \in 0 .. MOT_PAP_COMPUMOTOR_MAX_FREQ
  BY FreqInts, MaxFreq DEF RampPlanned
<1>2. /\ me.current_freq + me.freq_delta \in FreqWord
      /\ me.current_freq - me.freq_delta \in FreqWord
  BY <1>1, SmallFreqs, MaxFreq
<1> QED BY <1>1, <1>2, WrapFreqWord

\* The ISR and the supervisor keep the type of struct mot_pap.
LEMMA IsrType ==
  ASSUME NEW me \in MotPapStruct, count_a \in Nat
  PROVE  Halted(me) \in MotPapStruct /\ Pulsed(me) \in MotPapStruct
<1>1. Halted(me) \in MotPapStruct
  BY DEF Halted, MotPapStruct, MotTypes
<1>2. Arrived(me) \in BOOLEAN
  BY DEF Arrived, MotPapStruct
<1>3. Wrap(me.half_steps_curr + 1) \in Int
  BY WrapType DEF MotPapStruct
<1>4. (IF SupervisorDue(me) THEN 0 ELSE me.half_pulses + 1) \in 0 .. SupervisorRate - 1
  BY ParameterAssumption DEF SupervisorDue, MotPapStruct
<1>5. Pulsed(me) \in MotPapStruct
  BY <1>2, <1>3, <1>4 DEF Pulsed, MotPapStruct
<1> QED BY <1>1, <1>5

LEMMA RampType ==
  ASSUME NEW me \in MotPapStruct, NEW f \in FreqWord
  PROVE  Accelerated(me, f) \in MotPapStruct /\ Braked(me) \in MotPapStruct
<1>1. Accelerated(me, f) \in MotPapStruct
  BY DEF Accelerated, MotPapStruct
<1>2. me.current_freq - me.freq_delta \in Int BY DEF MotPapStruct, FreqWord
<1>3. Wrapped(me.current_freq - me.freq_delta, FreqHalf) \in FreqWord
  BY <1>2, WrapFreqWord
<1>4. Braked(me) \in MotPapStruct
  BY <1>3 DEF Braked, MotPapStruct
<1> QED BY <1>1, <1>4

\* The assignments of the commands keep the type of struct mot_pap.
LEMMA CommandType ==
  ASSUME NEW me \in MotPapStruct, NEW d \in Dirs, NEW f \in FreqWord
  PROVE  /\ AssumeNotStalled(me) \in MotPapStruct
         /\ [me EXCEPT !.type = "STOP"] \in MotPapStruct
         /\ [me EXCEPT !.type = "STEPS", !.dir = d] \in MotPapStruct
         /\ [me EXCEPT !.type = "FREE_RUNNING", !.dir = d, !.requested_freq = f]
               \in MotPapStruct
         /\ [me EXCEPT !.half_steps_curr = 0] \in MotPapStruct
<1>1. AssumeNotStalled(me) \in MotPapStruct
  BY DEF AssumeNotStalled, MotPapStruct
<1>2. [me EXCEPT !.type = "STOP"] \in MotPapStruct
  BY DEF MotPapStruct, MotTypes
<1>3. [me EXCEPT !.type = "STEPS", !.dir = d] \in MotPapStruct
  BY DEF MotPapStruct, MotTypes
<1>4. [me EXCEPT !.type = "FREE_RUNNING", !.dir = d, !.requested_freq = f]
         \in MotPapStruct
  BY DEF MotPapStruct, MotTypes
<1>5. [me EXCEPT !.half_steps_curr = 0] \in MotPapStruct
  BY DEF MotPapStruct
<1> QED BY <1>1, <1>2, <1>3, <1>4, <1>5

\* The assignments of the supervisor keep it too.
LEMMA SupervisionType ==
  ASSUME NEW me \in MotPapStruct
  PROVE  /\ [me EXCEPT !.stalled_counter = @ + 1] \in MotPapStruct
         /\ [me EXCEPT !.stalled_counter = 0] \in MotPapStruct
         /\ [me EXCEPT !.stalled = TRUE] \in MotPapStruct
<1>1. [me EXCEPT !.stalled_counter = @ + 1] \in MotPapStruct
  BY DEF MotPapStruct
<1>2. [me EXCEPT !.stalled_counter = 0] \in MotPapStruct
  BY DEF MotPapStruct
<1>3. [me EXCEPT !.stalled = TRUE] \in MotPapStruct
  BY DEF MotPapStruct
<1> QED BY <1>1, <1>2, <1>3

\* A struct written back into its place keeps the type of the array of axes.
LEMMA PutType ==
  ASSUME axis \in [Axes -> MotPapStruct], NEW a \in Axes,
         NEW me \in MotPapStruct, Put(a, me)
  PROVE  axis' \in [Axes -> MotPapStruct]
BY DEF Put

\* What xQueueSendFromISR leaves is a queue of at most one axis.
LEMMA SendType ==
  ASSUME NEW a \in Axes, queue \in {<<>>} \cup {<<b>> : b \in Axes}
  PROVE  Send(queue, a) \in {<<>>} \cup {<<b>> : b \in Axes}
BY DEF Send

-----------------------------------------------------------------------------
(***************************************************************************)
(* Type correctness, one step per group of actions.                        *)
(***************************************************************************)
LEMMA InitType == Init => TypeOK
<1> SUFFICES ASSUME Init PROVE TypeOK OBVIOUS
<1>0. 0 \in FreqWord BY FreqAssumption DEF FreqWord
<1>1. AtReset \in MotPapStruct
  BY <1>0, ParameterAssumption DEF AtReset, MotPapStruct, MotTypes, Dirs
<1>2. NoSup \in [pc: SupPcs, me: Axes, pos: Nat, n: FreqWord, half: BOOLEAN]
  BY <1>0, AxesAssumption DEF NoSup, SupPcs
<1>3. NoCmd \in CmdRecords
  BY AxesAssumption DEF NoCmd, CmdRecords, Dirs
<1>4. [started |-> FALSE, freq |-> 0] \in Timer BY MaxFreq DEF Timer
<1> QED BY <1>1, <1>2, <1>3, <1>4 DEF Init, TypeOK, Dirs, TcpPcs

LEMMA TcpBeginType == TypeOK /\ TcpBegin => TypeOK'
<1> SUFFICES ASSUME TypeOK, TcpBegin PROVE TypeOK' OBVIOUS
<1> USE DEF TypeOK
<1>1. ASSUME NEW c \in CmdRecords, BeginMove(c) PROVE TypeOK'
  <2>1. c.axis \in Axes BY DEF CmdRecords
  <2>2. AssumeNotStalled(axis[c.axis]) \in MotPapStruct
    <3>1. axis[c.axis] \in MotPapStruct BY <2>1
    <3> QED BY <3>1, CommandType DEF Dirs
  <2>3. axis' \in [Axes -> MotPapStruct]
    BY <1>1, <2>1, <2>2, PutType DEF BeginMove
  <2> QED BY <1>1, <2>3 DEF BeginMove, TcpPcs
<1>2. CASE BeginFreeRun
  <2>1. PICK d \in Dirs, s \in Speeds :
          BeginMove([op |-> "free_run", axis |-> XAxis, dir |-> d, speed |-> s,
                     steps |-> 0, div |-> 0])
    BY <1>2 DEF BeginFreeRun
  <2>2. [op |-> "free_run", axis |-> XAxis, dir |-> d, speed |-> s,
         steps |-> 0, div |-> 0] \in CmdRecords
    BY AxesAssumption, InputAssumption DEF CmdRecords
  <2> QED BY <2>1, <2>2, <1>1
<1>3. CASE BeginSteps
  <2>1. PICK a \in Axes, d \in Dirs, s \in Speeds, n \in Steps, v \in Dividers :
          BeginMove([op |-> "steps", axis |-> a, dir |-> d, speed |-> s,
                     steps |-> n, div |-> v])
    BY <1>3 DEF BeginSteps
  <2>2. [op |-> "steps", axis |-> a, dir |-> d, speed |-> s,
         steps |-> n, div |-> v] \in CmdRecords
    BY InputAssumption DEF CmdRecords
  <2> QED BY <2>1, <2>2, <1>1
<1>4. CASE BeginStop
  <2>1. [axis[XAxis] EXCEPT !.type = "STOP"] \in MotPapStruct
    <3>1. axis[XAxis] \in MotPapStruct BY AxesAssumption
    <3> QED BY <3>1, CommandType DEF Dirs
  <2>2. axis' \in [Axes -> MotPapStruct]
    BY <1>4, <2>1, AxesAssumption, PutType DEF BeginStop
  <2>3. [NoCmd EXCEPT !.op = "stop"] \in CmdRecords
    BY AxesAssumption DEF NoCmd, CmdRecords, Dirs
  <2> QED BY <1>4, <2>2, <2>3 DEF BeginStop, TcpPcs
<1>5. CASE ControlEnable
  BY <1>5 DEF ControlEnable
<1>6. CASE StallControl
  BY <1>6 DEF StallControl
<1> QED BY <1>2, <1>3, <1>4, <1>5, <1>6 DEF TcpBegin

LEMMA TcpStepType == TypeOK /\ TcpStep => TypeOK'
<1> SUFFICES ASSUME TypeOK, TcpStep PROVE TypeOK' OBVIOUS
<1> USE DEF TypeOK
<1>a. cmd.axis \in Axes /\ cmd.dir \in Dirs /\ cmd.speed \in Nat
      /\ cmd.steps \in Nat /\ cmd.div \in Nat
  BY DEF CmdRecords
<1>b. NoCmd \in CmdRecords
  BY AxesAssumption DEF NoCmd, CmdRecords, Dirs
<1>c. axis[cmd.axis] \in MotPapStruct /\ tmr[cmd.axis] \in Timer
  BY <1>a
<1>1. CASE TestReversal
  BY <1>1 DEF TestReversal, TcpPcs
<1>2. CASE HaltToReverse
  <2>1. tmr_stop(tmr[cmd.axis]) \in Timer
    BY <1>c, TmrType
  <2>2. tmr' \in [Axes -> Timer]
    BY <1>2, <2>1 DEF HaltToReverse
  <2> QED BY <1>2, <2>2 DEF HaltToReverse, TcpPcs
<1>3. CASE WakeFromDelay
  BY <1>3 DEF WakeFromDelay, TcpPcs
<1>4. CASE SetTypeFreeRun
  <2>1. PICK f \in RequestedFreqs(cmd.speed) :
          Put(cmd.axis, [axis[cmd.axis] EXCEPT !.type = "FREE_RUNNING",
                                               !.dir = cmd.dir,
                                               !.requested_freq = f])
    BY <1>4 DEF SetTypeFreeRun
  <2>2. f \in FreqWord BY <1>a, FreqType
  <2>3. [axis[cmd.axis] EXCEPT !.type = "FREE_RUNNING", !.dir = cmd.dir,
                               !.requested_freq = f] \in MotPapStruct
    BY <1>a, <1>c, <2>2, CommandType
  <2>4. axis' \in [Axes -> MotPapStruct]
    BY <1>a, <2>1, <2>3, PutType
  <2> QED BY <1>4, <1>a, <2>4 DEF SetTypeFreeRun, TcpPcs
<1>5. CASE SetTypeSteps
  <2>1. [axis[cmd.axis] EXCEPT !.type = "STEPS", !.dir = cmd.dir] \in MotPapStruct
    BY <1>a, <1>c, CommandType
  <2>2. axis' \in [Axes -> MotPapStruct]
    BY <1>a, <1>5, <2>1, PutType DEF SetTypeSteps
  <2> QED BY <1>5, <2>2 DEF SetTypeSteps, TcpPcs
<1>6. CASE ResetCount
  <2>1. [axis[cmd.axis] EXCEPT !.half_steps_curr = 0] \in MotPapStruct
    BY <1>a, <1>c, CommandType
  <2>2. axis' \in [Axes -> MotPapStruct]
    BY <1>a, <1>6, <2>1, PutType DEF ResetCount
  <2> QED BY <1>6, <2>2 DEF ResetCount, TcpPcs
<1>7. CASE SetRequest
  <2>1. PICK f \in RequestedFreqs(cmd.speed) :
          Put(cmd.axis, PlanSteps(axis[cmd.axis], f))
    BY <1>7 DEF SetRequest
  <2>2. f \in FreqWord /\ FirstFreq(f, cmd.div) \in FreqWord
    BY <1>a, FreqType, FirstFreqType
  <2>3. Wrap(2 * cmd.steps) \in Int /\ Wrap(2 * cmd.steps) \div 2 \in Int
    <3>1. 2 * cmd.steps \in Int BY <1>a
    <3>2. Wrap(2 * cmd.steps) \in Int BY <3>1, WrapType
    <3>3. \A i \in Int : i \div 2 \in Int OBVIOUS
    <3> QED BY <3>2, <3>3
  <2>4. PlanSteps(axis[cmd.axis], f) \in MotPapStruct
    BY <1>c, <2>2, <2>3 DEF PlanSteps, MotPapStruct
  <2>5. axis' \in [Axes -> MotPapStruct]
    BY <1>a, <2>1, <2>4, PutType
  <2> QED BY <1>7, <1>a, <2>5 DEF SetRequest, TcpPcs
<1>8. CASE Launch
  <2>1. LaunchFreq(axis[cmd.axis]) \in Int
    BY <1>c, FreqInts DEF LaunchFreq
  <2>2. tmr_start(tmr_set_freq(tmr_stop(tmr[cmd.axis]), LaunchFreq(axis[cmd.axis])))
          \in Timer
    BY <1>c, <2>1, TmrType
  <2>3. tmr' \in [Axes -> Timer]
    BY <1>8, <2>2 DEF Launch
  <2> QED BY <1>8, <1>b, <2>3 DEF Launch, TcpPcs
<1>9. CASE FinishStop
  <2>1. tmr_stop(tmr[cmd.axis]) \in Timer
    BY <1>c, TmrType
  <2>2. tmr' \in [Axes -> Timer]
    BY <1>9, <2>1 DEF FinishStop
  <2> QED BY <1>9, <1>b, <2>2 DEF FinishStop, TcpPcs
<1> QED BY <1>1, <1>2, <1>3, <1>4, <1>5, <1>6, <1>7, <1>8, <1>9 DEF TcpStep

LEMMA InterruptType ==
  TypeOK /\ (EncoderEdge \/ \E a \in Axes : mot_pap_isr(a)) => TypeOK'
<1> SUFFICES ASSUME TypeOK, EncoderEdge \/ \E a \in Axes : mot_pap_isr(a)
             PROVE  TypeOK'
  OBVIOUS
<1> USE DEF TypeOK
<1>1. CASE EncoderEdge
  BY <1>1 DEF EncoderEdge
<1>2. ASSUME NEW a \in Axes, IsrHalt(a) PROVE TypeOK'
  <2>1. Halted(axis[a]) \in MotPapStruct
    <3>1. axis[a] \in MotPapStruct OBVIOUS
    <3> QED BY <3>1, IsrType
  <2>2. axis' \in [Axes -> MotPapStruct]
    BY <1>2, <2>1, PutType DEF IsrHalt
  <2>3. tmr_stop(tmr[a]) \in Timer
    BY TmrType
  <2>4. tmr' \in [Axes -> Timer]
    BY <1>2, <2>3 DEF IsrHalt
  <2>5. queue' \in {<<>>} \cup {<<b>> : b \in Axes}
    BY <1>2, SendType DEF IsrHalt
  <2> QED BY <1>2, <2>2, <2>4, <2>5 DEF IsrHalt
<1>3. ASSUME NEW a \in Axes, IsrPulse(a) PROVE TypeOK'
  <2>1. Pulsed(axis[a]) \in MotPapStruct
    <3>1. axis[a] \in MotPapStruct OBVIOUS
    <3> QED BY <3>1, IsrType
  <2>2. axis' \in [Axes -> MotPapStruct]
    BY <1>3, <2>1, PutType DEF IsrPulse
  <2>3. queue' \in {<<>>} \cup {<<b>> : b \in Axes}
    BY <1>3, SendType DEF IsrPulse
  <2> QED BY <1>3, <2>2, <2>3 DEF IsrPulse
<1> QED BY <1>1, <1>2, <1>3 DEF mot_pap_isr

LEMMA SuperviseType == TypeOK /\ Supervise => TypeOK'
<1> SUFFICES ASSUME TypeOK, Supervise PROVE TypeOK' OBVIOUS
<1> DEFINE SupType == [pc: SupPcs, me: Axes, pos: Nat, n: FreqWord, half: BOOLEAN]
<1> USE DEF TypeOK
<1>a. /\ sup.me \in Axes /\ sup.n \in FreqWord
      /\ axis[sup.me] \in MotPapStruct
      /\ tmr[sup.me] \in Timer
  OBVIOUS
<1>0. 0 \in FreqWord BY FreqAssumption DEF FreqWord
<1>b. ASSUME NEW pc \in SupPcs, SupAt(pc) PROVE sup' \in SupType
  <2>1. NoSup \in SupType
    BY <1>0, AxesAssumption DEF NoSup, SupPcs
  <2>2. [sup EXCEPT !.pc = pc] \in SupType
    OBVIOUS
  <2> QED BY <1>b, <2>1, <2>2 DEF SupAt
<1>1. CASE SupReceive
  <2>1. PICK a \in Axes : queue = <<a>>
    BY <1>1 DEF SupReceive
  <2>2. Head(queue) = a /\ Tail(queue) = <<>>
    BY <2>1
  <2>3. axis[a].posAct \in Nat
    BY DEF MotPapStruct
  <2>4. sup' \in SupType
    <3>1. CASE stall_detection
      <4>1. sup' = [NoSup EXCEPT !.pc = "moved", !.me = a, !.pos = axis[a].posAct]
        BY <1>1, <2>2, <3>1 DEF SupReceive
      <4> QED BY <1>0, <4>1, <2>3 DEF NoSup, SupPcs
    <3>2. CASE ~stall_detection
      <4>1. sup' = [NoSup EXCEPT !.pc = "check", !.me = a]
        BY <1>1, <2>2, <3>2 DEF SupReceive
      <4> QED BY <1>0, <4>1 DEF NoSup, SupPcs
    <3> QED BY <3>1, <3>2
  <2> QED BY <1>1, <2>2, <2>4 DEF SupReceive
<1>2. CASE SupCountStall
  <2>1. \E pc \in SupPcs : SupAt(pc)
    BY <1>2 DEF SupCountStall, SupPcs
  <2>2. axis' \in [Axes -> MotPapStruct]
    BY <1>2, <1>a, SupervisionType, PutType DEF SupCountStall, me_
  <2> QED BY <1>2, <1>b, <2>1, <2>2 DEF SupCountStall
<1>3. CASE SupMarkStalled
  <2>1. sup' \in SupType
    BY <1>3, <1>b DEF SupMarkStalled, SupPcs
  <2>2. axis' \in [Axes -> MotPapStruct]
    BY <1>3, <1>a, SupervisionType, PutType DEF SupMarkStalled, me_
  <2> QED BY <1>3, <2>1, <2>2 DEF SupMarkStalled
<1>4. CASE SupCutTimer
  <2>1. sup' \in SupType
    BY <1>4, <1>b DEF SupCutTimer, SupPcs
  <2>2. tmr_stop(tmr[sup.me]) \in Timer
    BY <1>a, TmrType
  <2>3. tmr' \in [Axes -> Timer]
    BY <1>4, <2>2 DEF SupCutTimer
  <2> QED BY <1>4, <2>1, <2>3 DEF SupCutTimer
<1>5. CASE SupCutPower
  <2>1. sup' \in SupType
    BY <1>5, <1>b DEF SupCutPower, SupPcs
  <2> QED BY <1>5, <2>1 DEF SupCutPower
<1>6. CASE SupCheck
  <2>1. \E pc \in SupPcs : SupAt(pc)
    BY <1>6 DEF SupCheck, SupPcs
  <2> QED BY <1>6, <1>b, <2>1 DEF SupCheck
<1>7. CASE SupFirstHalf
  <2>1. FirstHalfPassed(me_) \in BOOLEAN
    BY DEF FirstHalfPassed
  <2>2. Wrapped(me_.current_freq + me_.freq_delta, FreqHalf) \in FreqWord
    BY <1>a, FreqInts, WrapFreqWord DEF me_
  <2>3. sup' \in SupType
    BY <1>0, <1>7, <2>1, <2>2 DEF SupFirstHalf, SupPcs
  <2> QED BY <1>7, <2>3 DEF SupFirstHalf
<1>8. CASE SupAccelerate
  <2>1. sup' \in SupType
    BY <1>0, <1>8 DEF SupAccelerate, SupPcs
  <2>2. axis' \in [Axes -> MotPapStruct]
    BY <1>8, <1>a, RampType, PutType DEF SupAccelerate, me_
  <2> QED BY <1>8, <2>1, <2>2 DEF SupAccelerate
<1>9. CASE SupBrake
  <2>1. sup' \in SupType
    BY <1>9, <1>b DEF SupBrake, SupPcs
  <2>2. axis' \in [Axes -> MotPapStruct]
    BY <1>9, <1>a, RampType, PutType DEF SupBrake, me_
  <2> QED BY <1>9, <2>1, <2>2 DEF SupBrake
<1>10. CASE SupRetime
  <2>1. sup' \in SupType
    BY <1>10, <1>b DEF SupRetime, SupPcs
  <2>2. tmr_set_freq(tmr_stop(tmr[sup.me]), me_.current_freq)
          \in Timer
    BY <1>a, FreqInts, TmrType DEF me_
  <2>3. tmr' \in [Axes -> Timer]
    BY <1>10, <2>2 DEF SupRetime
  <2> QED BY <1>10, <2>1, <2>3 DEF SupRetime
<1>11. CASE SupRestart
  <2>1. sup' \in SupType
    BY <1>11, <1>b DEF SupRestart, SupPcs
  <2>2. tmr_start(tmr[sup.me]) \in Timer
    BY <1>a, TmrType
  <2>3. tmr' \in [Axes -> Timer]
    BY <1>11, <2>2 DEF SupRestart
  <2> QED BY <1>11, <2>1, <2>3 DEF SupRestart
<1> QED
  BY <1>1, <1>2, <1>3, <1>4, <1>5, <1>6, <1>7, <1>8, <1>9, <1>10, <1>11
  DEF Supervise

LEMMA NextType == TypeOK /\ [Next]_vars => TypeOK'
<1> SUFFICES ASSUME TypeOK, [Next]_vars PROVE TypeOK' OBVIOUS
<1>1. CASE Next
  <2>1. CASE LinkChange
    BY <2>1 DEF LinkChange, TypeOK
  <2> QED
    BY <1>1, <2>1, TcpBeginType, TcpStepType, SuperviseType, InterruptType DEF Next
<1>2. CASE UNCHANGED vars
  BY <1>2 DEF vars, TypeOK
<1> QED BY <1>1, <1>2

\* Whatever the clients send and however the tasks and interrupts interleave,
\* every field of struct mot_pap keeps its type, the rate of a timer is one the
\* drive takes although a frequency read past the table may be negative or too
\* high, and
\* the supervisor's queue holds at most one axis.
THEOREM TypeCorrect == Spec => []TypeOK
BY InitType, NextType, PTL DEF Spec

-----------------------------------------------------------------------------
(***************************************************************************)
(* The axes a step does not touch.                                         *)
(***************************************************************************)
AxisInv(a) == CountInv(a) /\ RampInv(a) /\ RestInv(a)

LEMMA OtherAxis ==
  ASSUME NEW a \in Axes, AxisInv(a),
         axis'[a] = axis[a], tmr'[a] = tmr[a],
         Queued(a)' => Queued(a),
         Supervised(a)' <=> Supervised(a),
         Supervised(a) => sup'.pc = sup.pc,
         Commanded(a)' <=> Commanded(a),
         Commanded(a) => tcp' = tcp
  PROVE  AxisInv(a)'
<1>1. Between(a)' <=> Between(a)
  BY DEF Between, Commanded
<1>2. (tcp = "count" /\ cmd.axis = a)' <=> (tcp = "count" /\ cmd.axis = a)
  BY DEF Commanded
<1>3. InFlight(a)' => InFlight(a)
  BY DEF InFlight
<1>4. CountInv(a)'
  BY <1>1, <1>2 DEF AxisInv, CountInv
<1>5. RampInv(a)'
  BY <1>1 DEF AxisInv, RampInv
<1>6. RestInv(a)'
  BY <1>3 DEF AxisInv, RestInv
<1> QED BY <1>4, <1>5, <1>6 DEF AxisInv

-----------------------------------------------------------------------------
LEMMA PatientInit == Init => PatientInv
<1> SUFFICES ASSUME Init PROVE PatientInv OBVIOUS
<1>1. TypeOK BY InitType
<1>2. CommandInv BY DEF Init, CommandInv
<1>3. SupervisorInv BY DEF Init, SupervisorInv, NoSup
<1>4. ASSUME NEW a \in Axes PROVE CountInv(a) /\ RampInv(a) /\ RestInv(a)
  <2>1. axis[a] = AtReset /\ ~tmr[a].started
    BY DEF Init
  <2>2. 0 \in Word BY ParameterAssumption DEF Word
  <2> QED
    BY <2>1, <2>2
    DEF Init, CountInv, RampInv, RestInv, AtReset, Goal, InFlight, Queued,
        Supervised, NoSup
<1> QED BY <1>1, <1>2, <1>3, <1>4 DEF PatientInv

\* A command is taken.
LEMMA PatientBegin == PatientInv /\ TcpBegin /\ PatientClient => PatientInv'
<1> SUFFICES ASSUME PatientInv, TcpBegin, PatientClient PROVE PatientInv'
  OBVIOUS
<1>t. TypeOK /\ TypeOK'
  BY TcpBeginType DEF PatientInv
<1>1. ASSUME NEW c, BeginMove(c) PROVE PatientInv'
  <2> DEFINE b == c.axis
  <2>1. /\ tcp = "idle" /\ tcp' = "test" /\ cmd' = c
        /\ axis' = [axis EXCEPT ![b] = AssumeNotStalled(axis[b])]
        /\ UNCHANGED <<tmr, queue, sup>>
    BY <1>1 DEF BeginMove, Put
  <2>2. /\ c.op \in {"free_run", "steps"} /\ InTable(c.speed) /\ ~InFlight(b)
    BY <2>1 DEF PatientClient
  <2>3. b \in Axes
    BY <1>t, <2>1 DEF TypeOK, CmdRecords
  <2>4. /\ axis[b] \in MotPapStruct
        /\ axis'[b] = AssumeNotStalled(axis[b])
        /\ \A a \in Axes \ {b} : axis'[a] = axis[a]
    BY <1>t, <2>1, <2>3 DEF TypeOK
  <2>5. ~axis'[b].already_there /\ ~axis'[b].stalled
    BY <2>4 DEF AssumeNotStalled, MotPapStruct
  <2>6. \A a : InFlight(a)' <=> InFlight(a)
    BY <2>1 DEF InFlight, Queued, Supervised
  <2>7. CommandInv'
    BY <2>1, <2>2, <2>5, <2>6 DEF CommandInv
  <2>8. sup.pc # "wait" => sup.me # b
    BY <2>2 DEF InFlight, Supervised
  <2>9. SupervisorInv'
    BY <1>t, <2>1, <2>4, <2>8 DEF PatientInv, SupervisorInv, TypeOK
  <2>10. AxisInv(b)'
    <3>1. CountInv(b)'
      BY <2>1, <2>3, <2>4, <2>5
      DEF PatientInv, CountInv, AssumeNotStalled, MotPapStruct, Between, Goal
    <3>2. RampInv(b)'
      BY <2>1, <2>2, <2>3, <2>4
      DEF PatientInv, RampInv, AssumeNotStalled, MotPapStruct, Between,
          RampPlanned, InFlight
    <3>3. RestInv(b)'
      BY <2>1, <2>2, <2>5, <2>6 DEF RestInv, Commanded
    <3> QED BY <3>1, <3>2, <3>3 DEF AxisInv
  <2>11. ASSUME NEW a \in Axes, a # b PROVE AxisInv(a)'
    <3>1. ~Commanded(a) /\ ~Commanded(a)'
      BY <2>1, <2>11 DEF Commanded
    <3> QED
      BY <2>1, <2>4, <2>11, <3>1, OtherAxis
      DEF PatientInv, AxisInv, Queued, Supervised
  <2> QED BY <1>t, <2>7, <2>9, <2>10, <2>11 DEF PatientInv, AxisInv
<1>2. CASE BeginFreeRun
  BY <1>1, <1>2 DEF BeginFreeRun
<1>3. CASE BeginSteps
  BY <1>1, <1>3 DEF BeginSteps
<1>4. CASE BeginStop
  <2>1. tcp = "idle" /\ tcp' = "stop" /\ cmd'.op = "stop"
    BY <1>4 DEF BeginStop, NoCmd
  <2> QED BY <2>1 DEF PatientClient
<1>5. CASE ControlEnable \/ StallControl
  <2>1. UNCHANGED <<axis, tmr, queue, sup, tcp, cmd>>
    BY <1>5 DEF ControlEnable, StallControl
  <2>2. CommandInv'
    BY <2>1 DEF PatientInv, CommandInv, InFlight, Queued, Supervised
  <2>3. SupervisorInv'
    BY <2>1 DEF PatientInv, SupervisorInv
  <2>4. ASSUME NEW a \in Axes PROVE AxisInv(a)'
    BY <2>1, OtherAxis DEF PatientInv, AxisInv, Queued, Supervised, Commanded
  <2> QED BY <1>t, <2>2, <2>3, <2>4 DEF PatientInv, AxisInv
<1> QED BY <1>2, <1>3, <1>4, <1>5 DEF TcpBegin

\* A command goes on.  Its axis b is at rest, so no other actor is involved.
LEMMA PatientTcp == PatientInv /\ TcpStep => PatientInv'
<1> SUFFICES ASSUME PatientInv, TcpStep PROVE PatientInv' OBVIOUS
<1>t. TypeOK /\ TypeOK'
  BY TcpStepType DEF PatientInv
<1>0. PICK b \in Axes : b = cmd.axis
  BY <1>t DEF TypeOK, CmdRecords
<1> DEFINE me == axis[b]
<1> USE <1>0
<1>a. tcp # "idle"
  BY DEF TcpStep, TestReversal, HaltToReverse, WakeFromDelay, SetTypeFreeRun,
         SetTypeSteps, ResetCount, SetRequest, Launch, FinishStop
<1>b. /\ tcp # "stop" /\ cmd.op \in {"free_run", "steps"} /\ InTable(cmd.speed)
      /\ ~InFlight(b) /\ ~me.already_there /\ ~me.stalled
  BY <1>a DEF PatientInv, CommandInv
<1>c. /\ b \in Axes /\ me \in MotPapStruct
      /\ tmr[b] \in Timer
      /\ cmd.dir \in Dirs /\ cmd.speed \in Nat /\ cmd.steps \in Nat /\ cmd.div \in Nat
  BY <1>t DEF TypeOK, CmdRecords
<1>d. /\ CountInv(b) /\ RampInv(b) /\ RestInv(b)
      /\ Commanded(b)
      /\ ~tmr[b].started /\ ~Queued(b) /\ ~Supervised(b)
  BY <1>a, <1>b, <1>c DEF PatientInv, InFlight, Commanded
<1>e. UNCHANGED <<queue, sup>>
  BY DEF TcpStep, TestReversal, HaltToReverse, WakeFromDelay, SetTypeFreeRun,
         SetTypeSteps, ResetCount, SetRequest, Launch, FinishStop
<1>f. /\ \A a \in Axes \ {b} : axis'[a] = axis[a] /\ tmr'[a] = tmr[a]
      /\ tcp' = "idle" \/ cmd' = cmd
  BY <1>t, <1>b
  DEF TypeOK, TcpStep, TestReversal, HaltToReverse, WakeFromDelay, SetTypeFreeRun,
      SetTypeSteps, ResetCount, SetRequest, Launch, FinishStop, Put
<1>g. ASSUME NEW a \in Axes, a # b PROVE AxisInv(a)'
  <2>1. ~Commanded(a) /\ ~Commanded(a)'
    BY <1>f, <1>g DEF Commanded
  <2> QED
    BY <1>e, <1>f, <1>g, <2>1, OtherAxis DEF PatientInv, AxisInv, Queued, Supervised
<1>h. SupervisorInv'
  <2>1. CASE sup.pc = "wait"
    BY <1>e, <2>1 DEF SupervisorInv
  <2>2. CASE sup.pc # "wait"
    <3>1. sup.me \in Axes /\ sup.me # b
      BY <1>t, <1>d, <2>2 DEF TypeOK, Supervised
    <3> QED BY <1>e, <1>f, <3>1 DEF PatientInv, SupervisorInv
  <2> QED BY <2>1, <2>2
<1>i. /\ ~Queued(b)' /\ ~Supervised(b)'
      /\ InFlight(b)' <=> tmr'[b].started
  BY <1>d, <1>e DEF Queued, Supervised, InFlight
<1>1. CASE TestReversal \/ HaltToReverse \/ WakeFromDelay
  <2>1. /\ axis' = axis /\ cmd' = cmd
        /\ tcp' \in {"halt", "delay", "type"}
        /\ tcp \in {"test", "halt", "delay"}
    BY <1>1 DEF TestReversal, HaltToReverse, WakeFromDelay
  <2>2. ~tmr'[b].started
    <3>1. CASE tmr' = tmr
      BY <1>d, <3>1
    <3>2. CASE HaltToReverse
      <4>1. tmr'[b] = tmr_stop(tmr[b])
        BY <1>t, <3>2 DEF TypeOK, HaltToReverse
      <4> QED BY <1>c, <4>1 DEF tmr_stop
    <3> QED BY <1>1, <3>1, <3>2 DEF TestReversal, WakeFromDelay
  <2>3. CommandInv'
    BY <1>b, <1>i, <2>1, <2>2 DEF CommandInv
  <2>4. AxisInv(b)'
    <3>1. CountInv(b)'
      BY <1>d, <2>1 DEF CountInv, Between
    <3>2. RampInv(b)'
      BY <1>d, <2>1, <2>2 DEF RampInv, Between
    <3>3. RestInv(b)'
      BY <1>b, <1>i, <2>1, <2>2 DEF RestInv, Commanded
    <3> QED BY <3>1, <3>2, <3>3 DEF AxisInv
  <2> QED BY <1>t, <1>g, <1>h, <2>3, <2>4 DEF PatientInv, AxisInv
<1>2. CASE SetTypeFreeRun
  <2>1. PICK f \in RequestedFreqs(cmd.speed) :
          Put(b, [me EXCEPT !.type = "FREE_RUNNING", !.dir = cmd.dir,
                            !.requested_freq = f])
    BY <1>2 DEF SetTypeFreeRun
  <2>2. axis'[b] = [me EXCEPT !.type = "FREE_RUNNING", !.dir = cmd.dir,
                              !.requested_freq = f]
    BY <1>t, <1>c, <2>1 DEF TypeOK, Put
  <2>3. /\ tcp = "type" /\ tcp' = "launch" /\ cmd.op = "free_run"
        /\ UNCHANGED <<tmr, cmd>>
    BY <1>2 DEF SetTypeFreeRun
  <2>4. /\ axis'[b].type = "FREE_RUNNING"
        /\ axis'[b].already_there = me.already_there
        /\ axis'[b].stalled = me.stalled
        /\ axis'[b].half_steps_curr = me.half_steps_curr
        /\ axis'[b].half_steps_requested = me.half_steps_requested
    BY <1>c, <2>2 DEF MotPapStruct
  <2>5. CommandInv'
    BY <1>b, <1>d, <1>i, <2>3, <2>4 DEF CommandInv
  <2>6. AxisInv(b)'
    <3>1. CountInv(b)'
      BY <1>b, <1>d, <2>3, <2>4 DEF CountInv
    <3>2. RampInv(b)'
      BY <2>4 DEF RampInv
    <3>3. RestInv(b)'
      BY <1>b, <1>d, <1>i, <2>3, <2>4 DEF RestInv, Commanded
    <3> QED BY <3>1, <3>2, <3>3 DEF AxisInv
  <2> QED BY <1>t, <1>g, <1>h, <2>5, <2>6 DEF PatientInv, AxisInv
<1>3. CASE SetTypeSteps
  <2>1. /\ axis'[b] = [me EXCEPT !.type = "STEPS", !.dir = cmd.dir]
        /\ tcp = "type" /\ tcp' = "count" /\ cmd.op = "steps"
        /\ UNCHANGED <<tmr, cmd>>
    BY <1>t, <1>c, <1>3 DEF TypeOK, SetTypeSteps, Put
  <2>2. /\ axis'[b].type = "STEPS"
        /\ axis'[b].already_there = me.already_there
        /\ axis'[b].stalled = me.stalled
        /\ axis'[b].half_steps_curr = me.half_steps_curr
        /\ axis'[b].half_steps_requested = me.half_steps_requested
    BY <1>c, <2>1 DEF MotPapStruct
  <2>3. CommandInv'
    BY <1>b, <1>d, <1>i, <2>1, <2>2 DEF CommandInv
  <2>4. AxisInv(b)'
    <3>1. CountInv(b)'
      BY <1>b, <1>d, <2>1, <2>2 DEF CountInv, Between
    <3>2. RampInv(b)'
      BY <1>d, <2>1 DEF RampInv, Between
    <3>3. RestInv(b)'
      BY <1>b, <1>d, <1>i, <2>1, <2>2 DEF RestInv, Commanded
    <3> QED BY <3>1, <3>2, <3>3 DEF AxisInv
  <2> QED BY <1>t, <1>g, <1>h, <2>3, <2>4 DEF PatientInv, AxisInv
<1>4. CASE ResetCount
  <2>1. /\ axis'[b] = [me EXCEPT !.half_steps_curr = 0]
        /\ tcp = "count" /\ tcp' = "request"
        /\ UNCHANGED <<tmr, cmd>>
    BY <1>t, <1>c, <1>4 DEF TypeOK, ResetCount, Put
  <2>2. cmd.op = "steps" /\ me.type = "STEPS"
    BY <2>1 DEF PatientInv, CommandInv
  <2>3. /\ axis'[b].type = "STEPS" /\ axis'[b].half_steps_curr = 0
        /\ axis'[b].already_there = me.already_there
        /\ axis'[b].stalled = me.stalled
        /\ axis'[b].half_steps_requested = me.half_steps_requested
    BY <1>c, <2>1, <2>2 DEF MotPapStruct
  <2>4. CommandInv'
    BY <1>b, <1>d, <1>i, <2>1, <2>2, <2>3 DEF CommandInv
  <2>5. AxisInv(b)'
    <3>1. CountInv(b)'
      <4>1. 0 \in Word BY ParameterAssumption DEF Word
      <4> QED BY <1>b, <1>d, <2>1, <2>3, <4>1 DEF CountInv, Between
    <3>2. RampInv(b)'
      BY <1>d, <2>1 DEF RampInv, Between
    <3>3. RestInv(b)'
      BY <1>b, <1>d, <1>i, <2>1, <2>3 DEF RestInv, Commanded
    <3> QED BY <3>1, <3>2, <3>3 DEF AxisInv
  <2> QED BY <1>t, <1>g, <1>h, <2>4, <2>5 DEF PatientInv, AxisInv
<1>5. CASE SetRequest
  <2>1. PICK f \in RequestedFreqs(cmd.speed) : Put(b, PlanSteps(me, f))
    BY <1>5 DEF SetRequest
  <2>2. axis'[b] = PlanSteps(me, f)
    BY <1>t, <1>c, <2>1 DEF TypeOK, Put
  <2>3. tcp = "request" /\ tcp' = "launch" /\ UNCHANGED <<tmr, cmd>>
    BY <1>5 DEF SetRequest
  <2>4. cmd.op = "steps" /\ me.type = "STEPS" /\ me.half_steps_curr = 0
    BY <2>3 DEF PatientInv, CommandInv
  <2>5. /\ f \in 0 .. MOT_PAP_COMPUMOTOR_MAX_FREQ
        /\ FirstFreq(f, cmd.div) \in 0 .. f
    BY <1>b, <1>c, TableFreq, FirstFreqLess
  <2>6. Wrap(2 * cmd.steps) \in Word
    <3>1. 2 * cmd.steps \in Int BY <1>c
    <3> QED BY <3>1, WrapWord
  <2>7. /\ axis'[b].type = "STEPS" /\ axis'[b].half_steps_curr = 0
        /\ axis'[b].already_there = me.already_there
        /\ axis'[b].stalled = me.stalled
        /\ axis'[b].half_steps_requested = Wrap(2 * cmd.steps)
    BY <1>c, <2>2, <2>4 DEF PlanSteps, MotPapStruct
  <2>8. /\ axis'[b].requested_freq = f
        /\ axis'[b].freq_delta = FirstFreq(f, cmd.div)
        /\ axis'[b].current_freq = FirstFreq(f, cmd.div)
    BY <1>c, <2>2 DEF PlanSteps, MotPapStruct
  <2>9. CommandInv'
    BY <1>b, <1>d, <1>i, <2>3, <2>4, <2>7 DEF CommandInv
  <2>10. AxisInv(b)'
    <3>1. CountInv(b)'
      <4>1. 0 \in Word BY ParameterAssumption DEF Word
      <4>2. 0 <= Goal(axis'[b])
        BY <2>6, <2>7, ParameterAssumption DEF Goal, Word
      <4> QED BY <1>b, <2>3, <2>6, <2>7, <4>1, <4>2 DEF CountInv
    <3>2. RampPlanned(axis'[b])
      BY <2>5, <2>8, MaxFreq DEF RampPlanned
    <3>3. RampInv(b)'
      BY <1>d, <2>3, <3>2 DEF RampInv
    <3>4. RestInv(b)'
      BY <1>b, <1>d, <1>i, <2>3, <2>7 DEF RestInv, Commanded
    <3> QED BY <3>1, <3>3, <3>4 DEF AxisInv
  <2> QED BY <1>t, <1>g, <1>h, <2>9, <2>10 DEF PatientInv, AxisInv
<1>6. CASE Launch
  <2>1. /\ tcp = "launch" /\ tcp' = "idle" /\ axis' = axis
        /\ tmr' = [tmr EXCEPT ![b] =
             tmr_start(tmr_set_freq(tmr_stop(tmr[b]), LaunchFreq(me)))]
    BY <1>6 DEF Launch
  <2>2. tmr'[b] = tmr_start(tmr_set_freq(tmr_stop(tmr[b]), LaunchFreq(me)))
    BY <1>t, <1>c, <2>1 DEF TypeOK
  <2>3. tmr'[b].started
    BY <1>c, <2>2 DEF Timer, tmr_start, tmr_set_freq, tmr_stop
  <2>4. me.type = IF cmd.op = "steps" THEN "STEPS" ELSE "FREE_RUNNING"
    BY <2>1 DEF PatientInv, CommandInv
  <2>5. CommandInv'
    BY <2>1 DEF CommandInv
  <2>6. CountInv(b)'
    BY <1>d, <2>1 DEF CountInv, Between
  <2>7. RampInv(b)'
    <3>1. CASE cmd.op = "free_run"
      BY <2>1, <2>4, <3>1 DEF RampInv
    <3>2. CASE cmd.op = "steps"
      <4>1. RampPlanned(me)
        BY <1>d, <2>1, <2>4, <3>2 DEF RampInv, Between
      <4>2. LaunchFreq(me) = me.current_freq
        BY <3>2 DEF LaunchFreq
      <4>3. me.current_freq \in 0 .. MOT_PAP_COMPUMOTOR_MAX_FREQ
        BY <1>c, <4>1, RampSums
      <4>4. tmr'[b].freq = me.current_freq
        BY <1>c, <2>2, <4>2, <4>3 DEF Timer, tmr_start, tmr_set_freq, tmr_stop
      <4>5. me.current_freq \in me.freq_delta .. me.requested_freq
        BY <1>c, <4>1, FreqInts DEF RampPlanned
      <4> QED BY <2>1, <4>1, <4>4, <4>5 DEF RampInv
    <3> QED BY <1>b, <3>1, <3>2
  <2>8. RestInv(b)'
    BY <1>b, <2>1, <2>3, <2>4 DEF RestInv
  <2> QED BY <1>t, <1>g, <1>h, <2>5, <2>6, <2>7, <2>8 DEF PatientInv, AxisInv
<1>7. CASE FinishStop
  BY <1>7, <1>b DEF FinishStop
<1> QED BY <1>1, <1>2, <1>3, <1>4, <1>5, <1>6, <1>7 DEF TcpStep

-----------------------------------------------------------------------------
\* A message for one axis is no message for another.
LEMMA SendOther ==
  ASSUME NEW a \in Axes, NEW c \in Axes, c # a, TypeOK,
         queue' = Send(queue, a) \/ queue' = queue, Queued(c)'
  PROVE  Queued(c)
<1>1. CASE queue' = queue
  BY <1>1 DEF Queued
<1>2. CASE queue = <<>> /\ queue' = Send(queue, a)
  BY <1>2 DEF Queued, Send
<1>3. CASE queue # <<>> /\ queue' = Send(queue, a)
  BY <1>3 DEF Queued, Send
<1> QED BY <1>1, <1>2, <1>3

\* What an interrupt of axis a must show: no other axis is disturbed.
LEMMA IsrElsewhere ==
  ASSUME NEW a \in Axes, PatientInv, TypeOK', tmr[a].started,
         \A c \in Axes \ {a} : axis'[c] = axis[c] /\ tmr'[c] = tmr[c],
         queue' = Send(queue, a) \/ queue' = queue,
         UNCHANGED <<sup, tcp, cmd>>,
         SupervisorInv', AxisInv(a)'
  PROVE  PatientInv'
<1>t. TypeOK BY DEF PatientInv
<1>1. \A c \in Axes : c # a /\ Queued(c)' => Queued(c)
  BY <1>t, SendOther
<1>2. \A c : Supervised(c)' <=> Supervised(c)
  BY DEF Supervised
<1>3. ASSUME NEW c \in Axes, c # a PROVE AxisInv(c)'
  <2>1. Commanded(c)' <=> Commanded(c)
    BY DEF Commanded
  <2> QED BY <1>1, <1>2, <1>3, <2>1, OtherAxis DEF PatientInv, AxisInv
<1>4. CommandInv'
  <2> SUFFICES ASSUME tcp # "idle" PROVE CommandInv'
    BY DEF CommandInv
  <2>0. PICK b \in Axes : b = cmd.axis
    BY <1>t DEF TypeOK, CmdRecords
  <2>1. ~InFlight(b) /\ b # a
    BY <2>0 DEF PatientInv, CommandInv, InFlight
  <2>2. ~InFlight(b)' /\ axis'[b] = axis[b]
    BY <1>1, <1>2, <2>1 DEF InFlight
  <2> QED BY <2>0, <2>2 DEF PatientInv, CommandInv
<1> QED BY <1>3, <1>4 DEF PatientInv, AxisInv

\* The timer's interrupt: a STEPS move is not over until its last edge, and gives
\* none after it.
LEMMA PatientIsr ==
  ASSUME NEW a \in Axes, PatientInv, mot_pap_isr(a)
  PROVE  PatientInv'
<1> DEFINE me == axis[a]
<1>t. TypeOK /\ TypeOK'
  BY InterruptType DEF PatientInv
<1>0. /\ me \in MotPapStruct /\ tmr[a] \in Timer
      /\ CountInv(a) /\ RampInv(a) /\ RestInv(a) /\ SupervisorInv
      /\ tmr[a].started
  BY <1>t DEF PatientInv, TypeOK, mot_pap_isr, IsrHalt, IsrPulse
<1>1. InFlight(a) /\ ~Commanded(a)
  BY <1>0 DEF PatientInv, CommandInv, InFlight, Commanded
<1>2. /\ ~Between(a) /\ ~(tcp = "count" /\ cmd.axis = a)
  BY <1>1 DEF Between, Commanded
<1>3. CASE IsrHalt(a)
  <2>1. /\ axis'[a] = Halted(me) /\ tmr'[a] = tmr_stop(tmr[a])
        /\ \A c \in Axes \ {a} : axis'[c] = axis[c] /\ tmr'[c] = tmr[c]
        /\ queue' = Send(queue, a) /\ Arrived(me)
        /\ UNCHANGED <<sup, tcp, cmd>>
    BY <1>t, <1>3 DEF TypeOK, IsrHalt, Put
  <2>2. /\ axis'[a].type = "STOP" /\ axis'[a].already_there
        /\ axis'[a].half_steps_curr = me.half_steps_curr
        /\ axis'[a].half_steps_requested = me.half_steps_requested
        /\ axis'[a].stalled = me.stalled
    BY <1>0, <2>1 DEF Halted, MotPapStruct
  <2>3. ~tmr'[a].started
    BY <1>0, <2>1 DEF tmr_stop
  <2>4. me.half_steps_curr = Goal(me)
    <3>1. CASE me.type = "STEPS"
      BY <1>0, <1>2, <2>1, <3>1 DEF Arrived, CountInv, Goal, MotPapStruct
    <3>2. CASE me.type # "STEPS"
      BY <1>0, <1>2, <2>1, <3>2 DEF Arrived, CountInv
    <3> QED BY <3>1, <3>2
  <2>5. SupervisorInv'
    <3>1. CASE sup.me = a
      BY <1>0, <2>1, <2>2, <3>1 DEF SupervisorInv
    <3>2. CASE sup.me # a
      BY <1>t, <1>0, <2>1, <3>2 DEF SupervisorInv, TypeOK
    <3> QED BY <3>1, <3>2
  <2>6. AxisInv(a)'
    <3>1. CountInv(a)'
      BY <1>0, <2>2, <2>4 DEF CountInv, Goal
    <3>2. RampInv(a)'
      BY <2>2 DEF RampInv
    <3>3. RestInv(a)'
      BY <2>2, <2>3 DEF RestInv
    <3> QED BY <3>1, <3>2, <3>3 DEF AxisInv
  <2> QED BY <1>t, <1>0, <2>1, <2>5, <2>6, IsrElsewhere
<1>4. CASE IsrPulse(a)
  <2>1. /\ axis'[a] = Pulsed(me) /\ tmr' = tmr
        /\ \A c \in Axes \ {a} : axis'[c] = axis[c]
        /\ queue' = Send(queue, a) \/ queue' = queue
        /\ ~Arrived(me)
        /\ UNCHANGED <<sup, tcp, cmd>>
    BY <1>t, <1>4 DEF TypeOK, IsrPulse, Put
  <2>2. /\ axis'[a].type = me.type /\ ~axis'[a].already_there
        /\ axis'[a].half_steps_curr = Wrap(me.half_steps_curr + 1)
        /\ axis'[a].half_steps_requested = me.half_steps_requested
        /\ axis'[a].stalled = me.stalled
        /\ axis'[a].freq_delta = me.freq_delta
        /\ axis'[a].current_freq = me.current_freq
        /\ axis'[a].requested_freq = me.requested_freq
    BY <1>0, <2>1 DEF Pulsed, MotPapStruct
  <2>3. Wrap(me.half_steps_curr + 1) \in Word
    BY <1>0, WrapWord DEF MotPapStruct
  <2>4. me.type # "STOP"
    BY <1>0, <1>1, <2>1 DEF RestInv, Arrived
  <2>5. CountInv(a)'
    <3>1. CASE me.type = "STEPS"
      <4>1. /\ me.half_steps_curr >= 0
            /\ me.half_steps_curr < me.half_steps_requested
            /\ me.half_steps_requested \in Word /\ me.half_steps_curr \in Word
        BY <1>0, <1>2, <2>1, <3>1 DEF CountInv, Arrived, MotPapStruct
      <4>2. me.half_steps_curr + 1 \in Word
        BY <4>1, ParameterAssumption DEF Word
      <4>3. axis'[a].half_steps_curr = me.half_steps_curr + 1
        BY <2>2, <4>2, WrapWord
      <4>4. /\ axis'[a].half_steps_curr >= 0
            /\ axis'[a].half_steps_curr <= Goal(axis'[a])
        BY <1>0, <2>2, <4>1, <4>3 DEF Goal, MotPapStruct
      <4> QED BY <1>0, <2>2, <2>3, <4>1, <4>4 DEF CountInv
    <3>2. CASE me.type # "STEPS"
      BY <1>0, <2>2, <2>3, <3>2 DEF CountInv
    <3> QED BY <3>1, <3>2
  <2>7. SupervisorInv'
    <3>1. CASE sup.me = a
      BY <1>0, <2>1, <2>2, <3>1 DEF SupervisorInv
    <3>2. CASE sup.me # a
      <4>1. sup.me \in Axes \ {a} BY <1>t, <3>2 DEF TypeOK
      <4> QED BY <1>0, <2>1, <4>1 DEF SupervisorInv
    <3> QED BY <3>1, <3>2
  <2>8. RampInv(a)'
    BY <1>0, <1>2, <2>1, <2>2 DEF RampInv, RampPlanned
  <2>9. RestInv(a)'
    <3>1. Supervised(a)' <=> Supervised(a)
      BY <2>1 DEF Supervised
    <3> QED BY <1>0, <2>1, <2>2, <2>4, <3>1 DEF RestInv
  <2>10. AxisInv(a)'
    BY <2>5, <2>8, <2>9 DEF AxisInv
  <2> QED BY <1>t, <1>0, <2>1, <2>7, <2>10, IsrElsewhere
<1> QED BY <1>3, <1>4 DEF mot_pap_isr

-----------------------------------------------------------------------------
\* What a step of the supervisor must show once it has taken a message for axis
\* m: no other axis is disturbed, and none under a command is m.
LEMMA SupElsewhere ==
  ASSUME NEW m \in Axes, PatientInv, TypeOK', sup.pc # "wait", sup.me = m,
         \A c \in Axes \ {m} : axis'[c] = axis[c] /\ tmr'[c] = tmr[c],
         sup' = NoSup \/ sup'.me = m,
         UNCHANGED <<queue, tcp, cmd>>,
         SupervisorInv', AxisInv(m)'
  PROVE  PatientInv'
<1>t. TypeOK BY DEF PatientInv
<1>1. \A c : c # m => ~Supervised(c) /\ ~Supervised(c)'
  BY DEF Supervised, NoSup
<1>2. \A c : Queued(c)' <=> Queued(c)
  BY DEF Queued
<1>3. ASSUME NEW c \in Axes, c # m PROVE AxisInv(c)'
  <2>1. /\ Commanded(c)' <=> Commanded(c)
        /\ Commanded(c) => tcp' = tcp
    BY DEF Commanded
  <2> QED BY <1>1, <1>2, <1>3, <2>1, OtherAxis DEF PatientInv, AxisInv
<1>4. CommandInv'
  <2> SUFFICES ASSUME tcp # "idle" PROVE CommandInv'
    BY DEF CommandInv
  <2>0. PICK b \in Axes : b = cmd.axis
    BY <1>t DEF TypeOK, CmdRecords
  <2>1. ~InFlight(b) /\ b # m
    BY <2>0 DEF PatientInv, CommandInv, InFlight, Supervised
  <2>2. ~InFlight(b)' /\ axis'[b] = axis[b]
    BY <1>1, <1>2, <2>1 DEF InFlight
  <2> QED BY <2>0, <2>2 DEF PatientInv, CommandInv
<1> QED BY <1>3, <1>4 DEF PatientInv, AxisInv

\* A step that writes no more than the supervisor's own state keeps the axis as
\* it is: it is not at the point where a timer it cut or retimed is down.
LEMMA SupQuiet ==
  ASSUME NEW m \in Axes, PatientInv, TypeOK', sup.pc # "wait", sup.me = m,
         sup.pc \notin {"cut", "restart"},
         sup' = NoSup \/ sup'.me = m,
         UNCHANGED <<axis, tmr, queue, tcp, cmd>>,
         SupervisorInv'
  PROVE  PatientInv'
<1>1. CountInv(m)' /\ RampInv(m)'
  BY DEF PatientInv, CountInv, RampInv, Between
<1>2. RestInv(m)'
  <2>1. Supervised(m) /\ InFlight(m)
    BY DEF Supervised, InFlight
  <2>2. Commanded(m)' <=> Commanded(m)
    BY DEF Commanded
  <2> QED BY <2>1, <2>2 DEF PatientInv, RestInv
<1> QED BY <1>1, <1>2, SupElsewhere DEF AxisInv

\* A step of the supervisor: what it checked still holds when it acts on it.
LEMMA PatientSupervise == PatientInv /\ Supervise => PatientInv'
<1> SUFFICES ASSUME PatientInv, Supervise PROVE PatientInv' OBVIOUS
<1>t. TypeOK /\ TypeOK'
  BY SuperviseType DEF PatientInv
<1>1. CASE SupReceive
  <2>1. PICK a \in Axes : queue = <<a>>
    BY <1>t, <1>1 DEF TypeOK, SupReceive
  <2>2. /\ sup.pc = "wait" /\ sup'.me = a /\ sup'.pc \in {"moved", "check"}
        /\ queue' = <<>> /\ UNCHANGED <<axis, tmr, tcp, cmd>>
    <3>1. Head(queue) = a /\ Tail(queue) = <<>>
      BY <2>1
    <3>2. \/ sup' = [NoSup EXCEPT !.pc = "moved", !.me = a, !.pos = axis[a].posAct]
          \/ sup' = [NoSup EXCEPT !.pc = "check", !.me = a]
      BY <1>1, <3>1 DEF SupReceive
    <3>3. sup'.me = a /\ sup'.pc \in {"moved", "check"}
      BY <3>2 DEF NoSup
    <3> QED BY <1>1, <3>1, <3>3 DEF SupReceive
  <2>3. Queued(a) /\ InFlight(a)
    BY <2>1 DEF Queued, InFlight
  <2>4. \A c : ~Supervised(c) /\ ~Queued(c)' /\ (Supervised(c)' <=> c = a)
    BY <2>2 DEF Queued, Supervised
  <2>5. CommandInv'
    <3> SUFFICES ASSUME tcp # "idle" PROVE CommandInv'
      BY <2>2 DEF CommandInv
    <3>1. ~InFlight(cmd.axis)
      BY DEF PatientInv, CommandInv
    <3>2. cmd.axis # a BY <2>3, <3>1
    <3>3. ~InFlight(cmd.axis)' BY <2>2, <2>4, <3>1, <3>2 DEF InFlight
    <3> QED BY <2>2, <3>3 DEF PatientInv, CommandInv
  <2>6. SupervisorInv'
    BY <2>2 DEF SupervisorInv
  <2>7. AxisInv(a)'
    <3>1. CountInv(a)' /\ RampInv(a)'
      BY <2>2 DEF PatientInv, CountInv, RampInv, Between
    <3>2. RestInv(a) /\ ~Supervised(a) /\ sup'.pc # "cut"
      BY <2>2, <2>4 DEF PatientInv
    <3>3. Commanded(a)' <=> Commanded(a)
      BY <2>2 DEF Commanded
    <3>4. RestInv(a)'
      BY <2>2, <2>3, <3>2, <3>3 DEF RestInv
    <3> QED BY <3>1, <3>4 DEF AxisInv
  <2>8. ASSUME NEW c \in Axes, c # a PROVE AxisInv(c)'
    <3>1. /\ Commanded(c)' <=> Commanded(c)
          /\ Commanded(c) => tcp' = tcp
      BY <2>2 DEF Commanded
    <3> QED BY <2>2, <2>4, <2>8, <3>1, OtherAxis DEF PatientInv, AxisInv
  <2> QED BY <1>t, <2>5, <2>6, <2>7, <2>8 DEF PatientInv, AxisInv
<1>2. ASSUME sup.pc # "wait" PROVE PatientInv'
  <2>0. PICK m \in Axes : m = sup.me
    BY <1>t DEF TypeOK
  <2> DEFINE me == axis[m]
  <2>a. /\ me \in MotPapStruct /\ tmr[m] \in Timer
        /\ CountInv(m) /\ RampInv(m) /\ RestInv(m) /\ SupervisorInv
    BY <1>t DEF TypeOK, PatientInv
  <2>b. Supervised(m) /\ InFlight(m) /\ ~Commanded(m) /\ ~Between(m)
    BY <1>2, <2>0
    DEF PatientInv, CommandInv, Supervised, InFlight, Commanded, Between
  <2>c. me_ = me /\ sup \in [pc: SupPcs, me: Axes, pos: Nat, n: FreqWord, half: BOOLEAN]
    BY <1>t, <2>0 DEF me_, TypeOK
  <2>1. CASE SupCountStall
    <3>1. /\ sup.pc = "moved" /\ UNCHANGED <<tmr, queue, tcp, cmd>>
          /\ \A c \in Axes \ {m} : axis'[c] = axis[c]
      BY <1>t, <2>0, <2>1 DEF SupCountStall, Put, TypeOK
    <3>2. sup'.me = m /\ sup'.pc \in {"mark", "check"}
      BY <2>0, <2>1, <2>c DEF SupCountStall, SupAt
    <3>3. \/ axis'[m] = [me EXCEPT !.stalled_counter = @ + 1]
          \/ axis'[m] = [me EXCEPT !.stalled_counter = 0]
      BY <1>t, <2>0, <2>1, <2>c DEF SupCountStall, Put, TypeOK
    <3>4. /\ axis'[m].type = me.type /\ axis'[m].stalled = me.stalled
          /\ axis'[m].already_there = me.already_there
          /\ axis'[m].half_steps_curr = me.half_steps_curr
          /\ axis'[m].half_steps_requested = me.half_steps_requested
          /\ axis'[m].freq_delta = me.freq_delta
          /\ axis'[m].current_freq = me.current_freq
          /\ axis'[m].requested_freq = me.requested_freq
      BY <2>a, <3>3 DEF MotPapStruct
    <3>5. SupervisorInv'
      BY <3>2 DEF SupervisorInv
    <3>6. CountInv(m)' /\ RampInv(m)'
      BY <2>a, <2>b, <3>1, <3>4 DEF CountInv, RampInv, Goal, RampPlanned
    <3>7. RestInv(m)'
      BY <2>a, <2>b, <3>1, <3>2, <3>4 DEF RestInv
    <3> QED BY <1>t, <1>2, <2>0, <3>1, <3>2, <3>5, <3>6, <3>7, SupElsewhere DEF AxisInv
  <2>2. CASE SupMarkStalled
    <3>1. /\ sup.pc = "mark" /\ UNCHANGED <<tmr, queue, tcp, cmd>>
          /\ axis'[m] = [me EXCEPT !.stalled = TRUE]
          /\ \A c \in Axes \ {m} : axis'[c] = axis[c]
      BY <1>t, <2>0, <2>2, <2>c DEF SupMarkStalled, Put, TypeOK
    <3>2. sup'.me = m /\ sup'.pc = "cut"
      BY <2>0, <2>2, <2>c DEF SupMarkStalled, SupAt
    <3>3. /\ axis'[m].type = me.type /\ axis'[m].stalled
          /\ axis'[m].already_there = me.already_there
          /\ axis'[m].half_steps_curr = me.half_steps_curr
          /\ axis'[m].half_steps_requested = me.half_steps_requested
          /\ axis'[m].freq_delta = me.freq_delta
          /\ axis'[m].current_freq = me.current_freq
          /\ axis'[m].requested_freq = me.requested_freq
      BY <2>a, <3>1 DEF MotPapStruct
    <3>4. SupervisorInv'
      BY <3>2, <3>3 DEF SupervisorInv
    <3>5. CountInv(m)' /\ RampInv(m)'
      BY <2>a, <2>b, <3>1, <3>3 DEF CountInv, RampInv, Goal, RampPlanned
    <3>6. RestInv(m)'
      BY <2>a, <2>b, <3>2, <3>3 DEF RestInv, Supervised
    <3> QED BY <1>t, <1>2, <2>0, <3>1, <3>2, <3>4, <3>5, <3>6, SupElsewhere DEF AxisInv
  <2>3. CASE SupCutTimer
    <3>1. /\ sup.pc = "cut" /\ UNCHANGED <<axis, queue, tcp, cmd>>
          /\ tmr'[m] = tmr_stop(tmr[m])
          /\ \A c \in Axes \ {m} : tmr'[c] = tmr[c]
      BY <1>t, <2>0, <2>3 DEF SupCutTimer, TypeOK
    <3>2. sup'.me = m /\ sup'.pc = "power"
      BY <2>0, <2>3, <2>c DEF SupCutTimer, SupAt
    <3>3. ~tmr'[m].started
      BY <2>a, <3>1 DEF tmr_stop
    <3>4. me.stalled
      BY <2>0, <2>a, <3>1 DEF SupervisorInv
    <3>5. SupervisorInv'
      BY <3>2 DEF SupervisorInv
    <3>6. CountInv(m)' /\ RampInv(m)'
      BY <2>a, <3>1, <3>3 DEF CountInv, RampInv, Between
    <3>7. RestInv(m)'
      BY <2>a, <2>b, <3>1, <3>3, <3>4 DEF RestInv
    <3> QED BY <1>t, <1>2, <2>0, <3>1, <3>2, <3>5, <3>6, <3>7, SupElsewhere DEF AxisInv
  <2>4. CASE SupCutPower
    <3>1. /\ sup.pc = "power" /\ sup' = NoSup
          /\ UNCHANGED <<axis, tmr, queue, tcp, cmd>>
      BY <2>4 DEF SupCutPower, SupAt
    <3>2. SupervisorInv'
      BY <3>1 DEF SupervisorInv, NoSup
    <3> QED BY <1>t, <1>2, <2>0, <3>1, <3>2, SupQuiet
  <2>5. CASE SupCheck
    <3>1. sup.pc = "check" /\ UNCHANGED <<axis, tmr, queue, tcp, cmd>>
      BY <2>5 DEF SupCheck
    <3>2. CASE sup' = NoSup
      <4>1. SupervisorInv'
        BY <3>2 DEF SupervisorInv, NoSup
      <4> QED BY <1>t, <1>2, <2>0, <3>1, <3>2, <4>1, SupQuiet
    <3>3. CASE ~SupMustLeave(me_) /\ sup' = [sup EXCEPT !.pc = "half"]
      <4>1. sup'.me = m /\ sup'.pc = "half" /\ ~me.stalled
        BY <2>0, <2>c, <3>3 DEF SupMustLeave
      <4>2. SupervisorInv'
        BY <3>1, <4>1 DEF SupervisorInv
      <4> QED BY <1>t, <1>2, <2>0, <3>1, <4>1, <4>2, SupQuiet
    <3> QED BY <2>5, <3>2, <3>3 DEF SupCheck, SupAt
  <2>6. CASE SupFirstHalf
    <3>1. sup.pc = "half" /\ UNCHANGED <<axis, tmr, queue, tcp, cmd>>
      BY <2>6 DEF SupFirstHalf
    <3>2. /\ sup'.me = m /\ sup'.pc \in {"faster", "brake"}
          /\ sup'.pc = "faster" =>
               sup'.n = Wrapped(me.current_freq + me.freq_delta, FreqHalf)
      BY <2>0, <2>6, <2>c DEF SupFirstHalf
    <3>3. (sup'.pc = "faster" /\ me.type = "STEPS") => sup'.n >= me.freq_delta
      <4>1. me.type = "STEPS" => RampPlanned(me)
        BY <2>a, <2>b DEF RampInv
      <4>2. me.type = "STEPS" =>
              Wrapped(me.current_freq + me.freq_delta, FreqHalf) >= me.freq_delta
        BY <2>a, <4>1, RampSums, FreqInts, MaxFreq
      <4> QED BY <3>2, <4>2
    <3>4. SupervisorInv'
      BY <2>0, <2>a, <3>1, <3>2, <3>3 DEF SupervisorInv
    <3> QED BY <1>t, <1>2, <2>0, <3>1, <3>2, <3>4, SupQuiet
  <2>7. CASE SupAccelerate
    <3>1. /\ sup.pc = "faster" /\ UNCHANGED <<tmr, queue, tcp, cmd>>
          /\ axis'[m] = Accelerated(me, sup.n)
          /\ \A c \in Axes \ {m} : axis'[c] = axis[c]
          /\ sup'.me = m /\ sup'.pc = "brake"
      BY <1>t, <2>0, <2>7, <2>c DEF SupAccelerate, Put, TypeOK
    <3>2. /\ axis'[m].type = me.type /\ axis'[m].stalled = me.stalled
          /\ axis'[m].already_there = me.already_there
          /\ axis'[m].half_steps_curr = me.half_steps_curr
          /\ axis'[m].half_steps_requested = me.half_steps_requested
          /\ axis'[m].freq_delta = me.freq_delta
          /\ axis'[m].requested_freq = me.requested_freq
          /\ axis'[m].current_freq =
               IF sup.n >= me.requested_freq THEN me.requested_freq ELSE sup.n
      BY <2>a, <3>1 DEF Accelerated, MotPapStruct
    <3>3. SupervisorInv'
      BY <2>0, <2>a, <3>1, <3>2 DEF SupervisorInv
    <3>4. CountInv(m)'
      BY <2>a, <2>b, <3>1, <3>2 DEF CountInv, Goal
    <3>5. RampInv(m)'
      <4>1. me.type = "STEPS" => RampPlanned(me) /\ sup.n >= me.freq_delta
        BY <2>0, <2>a, <2>b, <3>1 DEF RampInv, SupervisorInv
      <4>2. me.type = "STEPS" => RampPlanned(axis'[m])
        <5>1. sup.n \in Int BY <2>c, FreqAssumption DEF FreqWord
        <5> QED BY <2>a, <3>2, <4>1, <5>1, FreqInts DEF RampPlanned
      <4> QED BY <2>a, <3>1, <3>2, <4>2 DEF RampInv
    <3>6. RestInv(m)'
      BY <2>a, <2>b, <3>1, <3>2 DEF RestInv
    <3> QED BY <1>t, <1>2, <2>0, <3>1, <3>3, <3>4, <3>5, <3>6, SupElsewhere DEF AxisInv
  <2>8. CASE SupBrake
    <3>1. /\ sup.pc = "brake" /\ UNCHANGED <<tmr, queue, tcp, cmd>>
          /\ axis'[m] = Braked(me) \/ axis'[m] = me
          /\ \A c \in Axes \ {m} : axis'[c] = axis[c]
      BY <1>t, <2>0, <2>8, <2>c DEF SupBrake, Put, TypeOK
    <3>2. sup'.me = m /\ sup'.pc = "retime"
      BY <2>0, <2>8, <2>c DEF SupBrake, SupAt
    <3>3. /\ axis'[m].type = me.type /\ axis'[m].stalled = me.stalled
          /\ axis'[m].already_there = me.already_there
          /\ axis'[m].half_steps_curr = me.half_steps_curr
          /\ axis'[m].half_steps_requested = me.half_steps_requested
          /\ axis'[m].freq_delta = me.freq_delta
          /\ axis'[m].requested_freq = me.requested_freq
      BY <2>a, <3>1 DEF Braked, MotPapStruct
    <3>4. SupervisorInv'
      BY <2>0, <2>a, <3>1, <3>2, <3>3 DEF SupervisorInv
    <3>5. CountInv(m)'
      BY <2>a, <2>b, <3>1, <3>3 DEF CountInv, Goal
    <3>6. RampInv(m)'
      <4>1. me.type = "STEPS" => RampPlanned(me)
        BY <2>a, <2>b DEF RampInv
      <4>2. me.type = "STEPS" => RampPlanned(axis'[m])
        <5>1. CASE axis'[m] = me
          BY <4>1, <5>1
        <5>2. CASE axis'[m] = Braked(me)
          <6>1. me.type = "STEPS" => axis'[m].current_freq =
                  IF me.current_freq - me.freq_delta <= me.freq_delta
                  THEN me.freq_delta ELSE me.current_freq - me.freq_delta
            BY <2>a, <4>1, <5>2, RampSums DEF Braked, MotPapStruct
          <6> QED BY <2>a, <3>3, <4>1, <6>1, FreqInts DEF RampPlanned
        <5> QED BY <3>1, <5>1, <5>2
      <4> QED BY <2>a, <3>1, <3>3, <4>2 DEF RampInv
    <3>7. RestInv(m)'
      BY <2>a, <2>b, <3>1, <3>2, <3>3 DEF RestInv
    <3> QED BY <1>t, <1>2, <2>0, <3>1, <3>2, <3>4, <3>5, <3>6, <3>7, SupElsewhere DEF AxisInv
  <2>9. CASE SupRetime
    <3>1. /\ sup.pc = "retime" /\ UNCHANGED <<axis, queue, tcp, cmd>>
          /\ tmr'[m] = tmr_set_freq(tmr_stop(tmr[m]), me.current_freq)
          /\ \A c \in Axes \ {m} : tmr'[c] = tmr[c]
      BY <1>t, <2>0, <2>9, <2>c DEF SupRetime, TypeOK
    <3>2. sup'.me = m /\ sup'.pc = "restart"
      BY <2>0, <2>9, <2>c DEF SupRetime, SupAt
    <3>3. ~tmr'[m].started
      BY <2>a, <3>1 DEF tmr_stop, tmr_set_freq
    <3>4. me.type = "STEPS" => tmr'[m].freq \in me.freq_delta .. me.requested_freq
      <4>1. me.type = "STEPS" => RampPlanned(me)
        BY <2>a, <2>b DEF RampInv
      <4>2. me.type = "STEPS" => me.current_freq \in 0 .. MOT_PAP_COMPUMOTOR_MAX_FREQ
        BY <2>a, <4>1, RampSums
      <4>3. me.type = "STEPS" => tmr'[m].freq = me.current_freq
        BY <2>a, <3>1, <4>2 DEF Timer, tmr_set_freq, tmr_stop
      <4> QED BY <2>a, <4>1, <4>3, FreqInts DEF RampPlanned
    <3>5. ~me.stalled
      BY <2>0, <2>a, <3>1 DEF SupervisorInv
    <3>6. SupervisorInv'
      BY <3>1, <3>2, <3>4, <3>5 DEF SupervisorInv
    <3>7. CountInv(m)' /\ RampInv(m)'
      BY <2>a, <3>1, <3>3 DEF CountInv, RampInv, Between
    <3>8. RestInv(m)'
      BY <2>a, <2>b, <3>1, <3>2, <3>3 DEF RestInv, Supervised
    <3> QED BY <1>t, <1>2, <2>0, <3>1, <3>2, <3>6, <3>7, <3>8, SupElsewhere DEF AxisInv
  <2>10. CASE SupRestart
    <3>1. /\ sup.pc = "restart" /\ sup' = NoSup
          /\ UNCHANGED <<axis, queue, tcp, cmd>>
          /\ tmr'[m] = tmr_start(tmr[m])
          /\ \A c \in Axes \ {m} : tmr'[c] = tmr[c]
      BY <1>t, <2>0, <2>10 DEF SupRestart, SupAt, TypeOK
    <3>2. tmr'[m].started /\ tmr'[m].freq = tmr[m].freq
      BY <2>a, <3>1 DEF tmr_start
    <3>3. /\ ~me.stalled
          /\ me.type = "STEPS" => tmr[m].freq \in me.freq_delta .. me.requested_freq
      BY <2>0, <2>a, <3>1 DEF SupervisorInv
    <3>4. SupervisorInv'
      BY <3>1 DEF SupervisorInv, NoSup
    <3>5. CountInv(m)' /\ RampInv(m)'
      BY <2>a, <3>1, <3>2, <3>3 DEF CountInv, RampInv, Between
    <3>6. RestInv(m)'
      BY <2>a, <2>b, <3>1, <3>2, <3>3 DEF RestInv
    <3> QED BY <1>t, <1>2, <2>0, <3>1, <3>4, <3>5, <3>6, SupElsewhere DEF AxisInv
  <2>11. ~SupReceive
    BY <1>2 DEF SupReceive
  <2> QED
    BY <2>1, <2>2, <2>3, <2>4, <2>5, <2>6, <2>7, <2>8, <2>9, <2>10, <2>11
    DEF Supervise
<1>3. SupReceive \/ sup.pc # "wait"
  BY DEF Supervise, SupCountStall, SupMarkStalled, SupCutTimer, SupCutPower,
         SupCheck, SupFirstHalf, SupAccelerate, SupBrake, SupRetime, SupRestart
<1> QED BY <1>1, <1>2, <1>3

LEMMA PatientNext == PatientInv /\ [Next /\ PatientClient]_vars => PatientInv'
<1> SUFFICES ASSUME PatientInv, [Next /\ PatientClient]_vars PROVE PatientInv'
  OBVIOUS
<1>1. CASE TcpBegin /\ PatientClient
  BY <1>1, PatientBegin
<1>2. CASE TcpStep
  BY <1>2, PatientTcp
<1>3. CASE Supervise
  BY <1>3, PatientSupervise
<1>4. CASE \E a \in Axes : mot_pap_isr(a)
  BY <1>4, PatientIsr
<1>5. CASE EncoderEdge \/ LinkChange \/ UNCHANGED vars
  <2>1. UNCHANGED <<axis, tmr, queue, sup, tcp, cmd>>
    BY <1>5 DEF EncoderEdge, LinkChange, vars
  <2>2. TypeOK'
    BY <1>5, NextType DEF PatientInv, Next
  <2>3. CommandInv' /\ SupervisorInv'
    BY <2>1 DEF PatientInv, CommandInv, SupervisorInv, InFlight, Queued, Supervised
  <2>4. ASSUME NEW a \in Axes PROVE AxisInv(a)'
    BY <2>1, OtherAxis DEF PatientInv, AxisInv, Queued, Supervised, Commanded
  <2> QED BY <2>2, <2>3, <2>4 DEF PatientInv, AxisInv
<1> QED BY <1>1, <1>2, <1>3, <1>4, <1>5 DEF Next

-----------------------------------------------------------------------------
\* PatientInv holds in every state a patient client can reach: of the commands
\* of net_commands.c, mot_pap_isr and mot_pap_supervisor_task, in any interleaving
\* and for any number of axes.
THEOREM PatientInvariant == PatientSpec => []PatientInv
<1>1. PatientInv /\ [Next /\ PatientClient]_vars => PatientInv'
  BY PatientNext
<1> QED BY <1>1, PatientInit, PTL DEF PatientSpec

\* No edge too many, and none missing at an arrival (mot_pap_isr).
THEOREM MovesExact == PatientSpec => []ExactMove
<1>1. PatientInv => ExactMove
  BY DEF PatientInv, ExactMove, CountInv
<1> QED BY <1>1, PatientInvariant, PTL

\* A timer restarted behind a halt cannot move the axis (the retiming of
\* mot_pap_supervisor_task against mot_pap_isr).
THEOREM StoppedStays == PatientSpec => []StoppedCannotMove
<1>1. PatientInv => StoppedCannotMove
  BY DEF PatientInv, StoppedCannotMove, RestInv
<1> QED BY <1>1, PatientInvariant, PTL

\* A stalled axis is not driven (mot_pap_supervisor_task).
THEOREM StalledStays == PatientSpec => []StalledHalted
<1>1. PatientInv => StalledHalted
  BY DEF PatientInv, StalledHalted, RestInv
<1> QED BY <1>1, PatientInvariant, PTL

\* The ramp stays between its increment and the commanded speed.
THEOREM RampStays == PatientSpec => []RampInRange
<1>1. PatientInv => RampInRange
  BY DEF PatientInv, RampInRange, RampInv
<1> QED BY <1>1, PatientInvariant, PTL

-----------------------------------------------------------------------------
(* MotPap, used by a patient client, implements AxisMoves: under PatientInv *)
(* every step of the firmware is a step of the promise, on one axis, or     *)
(* leaves what the promise sees as it is.                                   *)

SameView(a) ==
  ModeOf(a)' = ModeOf(a) /\ DoneOf(a)' = DoneOf(a) /\ GoalOf(a)' = GoalOf(a)

\* A step that no axis shows is a stutter of the promise.
LEMMA Stutters ==
  ASSUME \A a \in Axes : SameView(a)
  PROVE  UNCHANGED Moves!vars
<1>1. mode' = mode /\ done' = done /\ goal' = goal
  BY DEF SameView, mode, done, goal
<1> QED BY <1>1 DEF Moves!vars

\* A step that only axis b shows is an update of b.
LEMMA ShownBy ==
  ASSUME NEW b \in Axes, \A a \in Axes \ {b} : SameView(a)
  PROVE  /\ mode[b] = ModeOf(b) /\ done[b] = DoneOf(b) /\ goal[b] = GoalOf(b)
         /\ goal'[b] = GoalOf(b)'
         /\ mode' = [mode EXCEPT ![b] = ModeOf(b)']
         /\ done' = [done EXCEPT ![b] = DoneOf(b)']
         /\ goal' = [goal EXCEPT ![b] = GoalOf(b)']
         /\ DoneOf(b)' = DoneOf(b) => done' = done
         /\ GoalOf(b)' = GoalOf(b) => goal' = goal
         /\ ModeOf(b)' = ModeOf(b) => mode' = mode
BY DEF SameView, mode, done, goal

\* What leaves an axis as the promise sees it.
LEMMA Unseen ==
  ASSUME NEW a \in Axes,
         axis'[a].type = axis[a].type,
         axis[a].type # "FREE_RUNNING" =>
           /\ axis'[a].half_steps_curr = axis[a].half_steps_curr
           /\ axis'[a].half_steps_requested = axis[a].half_steps_requested,
         axis[a].type # "STOP" => (Tripped(a)' <=> Tripped(a)),
         Commanded(a)' <=> Commanded(a)
  PROVE  SameView(a)
<1>1. CountsEdges(a)' <=> CountsEdges(a)
  BY DEF CountsEdges
<1>2. DoneOf(a)' = DoneOf(a) /\ GoalOf(a)' = GoalOf(a)
  BY <1>1 DEF DoneOf, GoalOf, Goal, CountsEdges
<1>3. ModeOf(a)' = ModeOf(a)
  BY DEF ModeOf
<1> QED BY <1>2, <1>3 DEF SameView

\* ... in particular an axis the step does not touch.
LEMMA Untouched ==
  ASSUME NEW a \in Axes, axis'[a] = axis[a], tmr'[a] = tmr[a],
         Commanded(a)' <=> Commanded(a)
  PROVE  SameView(a)
BY Unseen DEF Tripped

-----------------------------------------------------------------------------
LEMMA MovesInit == Init => Moves!Init
<1> SUFFICES ASSUME Init PROVE Moves!Init OBVIOUS
<1>1. \A a \in Axes : ModeOf(a) = "rest" /\ DoneOf(a) = 0 /\ GoalOf(a) = 0
  BY DEF Init, ModeOf, DoneOf, GoalOf, CountsEdges, Commanded, Goal, AtReset
<1> QED BY <1>1 DEF Moves!Init, mode, done, goal

\* A command is taken by an axis at rest: neither its timer nor the supervisor
\* is concerned with it, so RestInv says it is stopped or stalled.
LEMMA MovesBegin ==
  PatientInv /\ TcpBegin /\ PatientClient => [Moves!Next]_Moves!vars
<1> SUFFICES ASSUME PatientInv, TcpBegin, PatientClient
             PROVE  [Moves!Next]_Moves!vars
  OBVIOUS
<1>t. TypeOK /\ TypeOK'
  BY TcpBeginType DEF PatientInv
<1>1. ASSUME NEW c, BeginMove(c) PROVE [Moves!Next]_Moves!vars
  <2> DEFINE b == c.axis
  <2>1. /\ tcp = "idle" /\ tcp' = "test" /\ cmd' = c /\ tmr' = tmr
        /\ axis' = [axis EXCEPT ![b] = AssumeNotStalled(axis[b])]
    BY <1>1 DEF BeginMove, Put
  <2>2. b \in Axes
    BY <1>t, <2>1 DEF TypeOK, CmdRecords
  <2>3. ~InFlight(b)
    BY <2>1 DEF PatientClient
  <2>4. ASSUME NEW a \in Axes, a # b PROVE SameView(a)
    BY <1>t, <2>1, <2>2, <2>4, Untouched DEF TypeOK, Commanded
  <2>5. ModeOf(b) = "rest"
    BY <2>1, <2>2, <2>3
    DEF PatientInv, RestInv, ModeOf, Tripped, Commanded, InFlight
  <2>6. Commanded(b)'
    BY <2>1 DEF Commanded
  <2>7. ModeOf(b)' = "accepted" /\ DoneOf(b)' = 0 /\ GoalOf(b)' = 0
    BY <2>6 DEF ModeOf, DoneOf, GoalOf, CountsEdges
  <2>8. Moves!Accept(b)
    BY <2>2, <2>4, <2>5, <2>7, ShownBy DEF Moves!Accept, Moves!Becomes
  <2> QED BY <2>2, <2>8 DEF Moves!Next
<1>2. CASE BeginFreeRun
  BY <1>1, <1>2 DEF BeginFreeRun
<1>3. CASE BeginSteps
  BY <1>1, <1>3 DEF BeginSteps
<1>4. CASE BeginStop
  <2>1. tcp = "idle" /\ tcp' = "stop" /\ cmd'.op = "stop"
    BY <1>4 DEF BeginStop, NoCmd
  <2> QED BY <2>1 DEF PatientClient
<1>5. CASE ControlEnable \/ StallControl
  <2>1. UNCHANGED <<axis, tmr, tcp, cmd>>
    BY <1>5 DEF ControlEnable, StallControl
  <2>2. \A a \in Axes : SameView(a)
    BY <2>1, Untouched DEF Commanded
  <2> QED BY <2>2, Stutters
<1> QED BY <1>2, <1>3, <1>4, <1>5 DEF TcpBegin

\* The steps of a command show nothing until the launch starts the run.
LEMMA MovesTcp == PatientInv /\ TcpStep => [Moves!Next]_Moves!vars
<1> SUFFICES ASSUME PatientInv, TcpStep PROVE [Moves!Next]_Moves!vars
  OBVIOUS
<1>t. TypeOK /\ TypeOK'
  BY TcpStepType DEF PatientInv
<1>a. tcp # "idle"
  BY DEF TcpStep, TestReversal, HaltToReverse, WakeFromDelay, SetTypeFreeRun,
         SetTypeSteps, ResetCount, SetRequest, Launch, FinishStop
<1>b. PICK b \in Axes : b = cmd.axis
  BY <1>t DEF TypeOK, CmdRecords
<1>c. /\ tcp # "stop" /\ cmd.op \in {"free_run", "steps"}
      /\ Commanded(b)
      /\ axis[b] \in MotPapStruct /\ tmr[b] \in Timer
  BY <1>t, <1>a, <1>b DEF PatientInv, CommandInv, Commanded, TypeOK
<1>d. /\ \A a \in Axes \ {b} : axis'[a] = axis[a] /\ tmr'[a] = tmr[a]
      /\ tcp' = "idle" \/ cmd' = cmd
  BY <1>t, <1>b, <1>c
  DEF TypeOK, TcpStep, TestReversal, HaltToReverse, WakeFromDelay, SetTypeFreeRun,
      SetTypeSteps, ResetCount, SetRequest, Launch, FinishStop, Put
<1>e. ASSUME NEW a \in Axes, a # b PROVE SameView(a)
  <2>1. ~Commanded(a) /\ ~Commanded(a)'
    BY <1>b, <1>d, <1>e DEF Commanded
  <2> QED BY <1>d, <1>e, <2>1, Untouched
<1>f. ModeOf(b) = "accepted" /\ DoneOf(b) = 0 /\ GoalOf(b) = 0
  BY <1>c DEF ModeOf, DoneOf, GoalOf, CountsEdges
<1>1. CASE ~Launch
  <2>1. tcp' # "idle" /\ cmd' = cmd
    BY <1>1, <1>c
    DEF TcpStep, TestReversal, HaltToReverse, WakeFromDelay, SetTypeFreeRun,
        SetTypeSteps, ResetCount, SetRequest, FinishStop
  <2>2. Commanded(b)'
    BY <1>b, <2>1 DEF Commanded
  <2>3. SameView(b)
    BY <1>f, <2>2 DEF SameView, ModeOf, DoneOf, GoalOf, CountsEdges
  <2>4. \A a \in Axes : SameView(a)
    BY <1>e, <2>3
  <2> QED BY <2>4, Stutters
<1>2. CASE Launch
  <2>1. tcp = "launch" /\ tcp' = "idle" /\ axis' = axis
    BY <1>2 DEF Launch
  <2>2. tmr'[b].started
    <3>1. tmr'[b] = tmr_start(tmr_set_freq(tmr_stop(tmr[b]), LaunchFreq(axis[b])))
      BY <1>t, <1>2, <1>b DEF TypeOK, Launch
    <3> QED BY <1>c, <3>1 DEF tmr_start, tmr_set_freq, tmr_stop
  <2>3. ~Commanded(b)' /\ ~Tripped(b)'
    BY <2>1, <2>2 DEF Commanded, Tripped
  <2>4. CASE cmd.op = "steps"
    <3>1. axis[b].type = "STEPS" /\ axis[b].half_steps_curr = 0
      BY <1>b, <2>1, <2>4 DEF PatientInv, CommandInv
    <3>2. /\ ModeOf(b)' = "steps" /\ DoneOf(b)' = 0
          /\ GoalOf(b)' = Goal(axis[b])
      BY <2>1, <2>3, <3>1 DEF ModeOf, DoneOf, GoalOf, CountsEdges
    <3>3. Goal(axis[b]) \in Nat
      BY <1>c DEF Goal, MotPapStruct
    <3>4. /\ mode[b] = "accepted" /\ mode' = [mode EXCEPT ![b] = "steps"]
          /\ done' = done
          /\ goal'[b] = Goal(axis[b]) /\ goal' = [goal EXCEPT ![b] = Goal(axis[b])]
      BY <1>b, <1>e, <1>f, <3>2, ShownBy
    <3>5. Moves!StartSteps(b)
      BY <3>3, <3>4 DEF Moves!StartSteps, Moves!Becomes
    <3> QED BY <3>5 DEF Moves!Next
  <2>5. CASE cmd.op = "free_run"
    <3>1. axis[b].type = "FREE_RUNNING"
      BY <1>b, <2>1, <2>5 DEF PatientInv, CommandInv
    <3>2. ModeOf(b)' = "free" /\ DoneOf(b)' = 0 /\ GoalOf(b)' = 0
      BY <2>1, <2>3, <3>1 DEF ModeOf, DoneOf, GoalOf, CountsEdges
    <3>3. Moves!StartFreeRun(b)
      BY <1>b, <1>e, <1>f, <3>2, ShownBy DEF Moves!StartFreeRun, Moves!Becomes
    <3> QED BY <3>3 DEF Moves!Next
  <2> QED BY <1>c, <2>4, <2>5
<1> QED BY <1>1, <1>2

-----------------------------------------------------------------------------
\* An interrupt of a STEPS move is an edge short of the goal or the arrival at
\* it; of a free run it shows nothing; of a stopped axis it stops the timer.
LEMMA MovesIsr ==
  ASSUME NEW a \in Axes, PatientInv, mot_pap_isr(a)
  PROVE  [Moves!Next]_Moves!vars
<1> DEFINE me == axis[a]
<1>t. TypeOK /\ TypeOK'
  BY InterruptType DEF PatientInv
<1>0. /\ me \in MotPapStruct /\ tmr[a] \in Timer
      /\ CountInv(a) /\ RestInv(a)
      /\ tmr[a].started /\ UNCHANGED <<tcp, cmd>>
  BY <1>t DEF PatientInv, TypeOK, mot_pap_isr, IsrHalt, IsrPulse
<1>1. InFlight(a) /\ ~Commanded(a) /\ ~Commanded(a)'
  BY <1>0 DEF PatientInv, CommandInv, InFlight, Commanded
<1>2. ~Between(a) /\ ~(tcp = "count" /\ cmd.axis = a) /\ ~Tripped(a)
  BY <1>0, <1>1 DEF Between, Commanded, Tripped
<1>3. ASSUME NEW c \in Axes, c # a PROVE SameView(c)
  <2>1. axis'[c] = axis[c] /\ tmr'[c] = tmr[c]
    BY <1>t, <1>3 DEF mot_pap_isr, IsrHalt, IsrPulse, Put, TypeOK
  <2> QED BY <1>0, <2>1, Untouched DEF Commanded
<1>4. CASE IsrHalt(a)
  <2>1. axis'[a] = Halted(me) /\ Arrived(me)
    BY <1>t, <1>4 DEF TypeOK, IsrHalt, Put
  <2>2. /\ axis'[a].type = "STOP"
        /\ axis'[a].half_steps_curr = me.half_steps_curr
        /\ axis'[a].half_steps_requested = me.half_steps_requested
    BY <1>0, <2>1 DEF Halted, MotPapStruct
  <2>3. me.type # "FREE_RUNNING"
    BY <1>0, <2>1 DEF CountInv, Arrived
  <2>4. SameView(a) \/ me.type = "STEPS"
    <3>1. me.type = "STOP" \/ me.type = "STEPS"
      BY <1>0, <2>3 DEF MotPapStruct, MotTypes
    <3> QED BY <1>1, <2>2, <3>1, Unseen
  <2>5. /\ ModeOf(a)' = "rest"
        /\ DoneOf(a) = me.half_steps_curr /\ DoneOf(a)' = DoneOf(a)
        /\ GoalOf(a) = Goal(me) /\ GoalOf(a)' = GoalOf(a)
    BY <1>1, <2>2, <2>3 DEF ModeOf, DoneOf, GoalOf, CountsEdges, Goal
  <2>6. CASE me.type = "STEPS"
    <3>1. me.half_steps_curr = Goal(me)
      BY <1>0, <1>2, <2>1, <2>6 DEF Arrived, CountInv, Goal, MotPapStruct
    <3>2. ModeOf(a) = "steps"
      BY <1>1, <1>2, <2>6 DEF ModeOf
    <3>3. Moves!Arrive(a)
      BY <1>3, <2>5, <3>1, <3>2, ShownBy DEF Moves!Arrive, Moves!Becomes
    <3> QED BY <3>3 DEF Moves!Next
  <2>7. CASE SameView(a)
    BY <1>3, <2>7, Stutters
  <2> QED BY <2>4, <2>6, <2>7
<1>5. CASE IsrPulse(a)
  <2>1. axis'[a] = Pulsed(me) /\ tmr' = tmr /\ ~Arrived(me)
    BY <1>t, <1>5 DEF TypeOK, IsrPulse, Put
  <2>2. /\ axis'[a].type = me.type
        /\ axis'[a].half_steps_curr = Wrap(me.half_steps_curr + 1)
        /\ axis'[a].half_steps_requested = me.half_steps_requested
        /\ axis'[a].stalled = me.stalled
    BY <1>0, <2>1 DEF Pulsed, MotPapStruct
  <2>3. Tripped(a)' <=> Tripped(a)
    BY <2>1, <2>2 DEF Tripped
  <2>4. me.type = "STEPS" \/ me.type = "FREE_RUNNING"
    BY <1>0, <1>1, <2>1 DEF RestInv, Arrived, MotPapStruct, MotTypes
  <2>5. CASE me.type = "STEPS"
    <3>1. /\ me.half_steps_curr >= 0
          /\ me.half_steps_curr < me.half_steps_requested
          /\ me.half_steps_requested \in Word /\ me.half_steps_curr \in Word
      BY <1>0, <1>2, <2>1, <2>5 DEF CountInv, Arrived, MotPapStruct
    <3>2. me.half_steps_curr + 1 \in Word
      BY <3>1, ParameterAssumption DEF Word
    <3>3. axis'[a].half_steps_curr = me.half_steps_curr + 1
      BY <2>2, <3>2, WrapWord
    <3>4. me.half_steps_curr < Goal(me)
      BY <1>0, <3>1 DEF Goal, MotPapStruct
    <3>5. /\ ModeOf(a) = "steps" /\ ModeOf(a)' = ModeOf(a)
          /\ DoneOf(a) = me.half_steps_curr /\ DoneOf(a)' = me.half_steps_curr + 1
          /\ GoalOf(a) = Goal(me) /\ GoalOf(a)' = GoalOf(a)
      BY <1>1, <1>2, <2>2, <2>3, <2>5, <3>3
      DEF ModeOf, DoneOf, GoalOf, CountsEdges, Goal
    <3>6. /\ mode[a] = "steps" /\ done[a] < goal[a]
          /\ mode' = mode /\ goal' = goal
          /\ done[a] = me.half_steps_curr
          /\ done' = [done EXCEPT ![a] = me.half_steps_curr + 1]
      BY <1>3, <3>4, <3>5, ShownBy
    <3>7. Moves!Edge(a)
      BY <3>6 DEF Moves!Edge
    <3> QED BY <3>7 DEF Moves!Next
  <2>6. CASE me.type = "FREE_RUNNING"
    <3>1. SameView(a)
      BY <1>1, <2>2, <2>3, <2>6, Unseen
    <3> QED BY <1>3, <3>1, Stutters
  <2> QED BY <2>4, <2>5, <2>6
<1> QED BY <1>4, <1>5 DEF mot_pap_isr

-----------------------------------------------------------------------------
\* Of the supervisor's steps, the promise sees only the one that cuts the timer
\* of a stalled axis.  The mark before it shows nothing because the timer still
\* runs, and the retiming because the axis is not stalled.
LEMMA MovesSupervise == PatientInv /\ Supervise => [Moves!Next]_Moves!vars
<1> SUFFICES ASSUME PatientInv, Supervise PROVE [Moves!Next]_Moves!vars
  OBVIOUS
<1>t. TypeOK /\ TypeOK'
  BY SuperviseType DEF PatientInv
<1>0. PICK m \in Axes : m = sup.me
  BY <1>t DEF TypeOK
<1> DEFINE me == axis[m]
<1>1. /\ me \in MotPapStruct /\ tmr[m] \in Timer
      /\ me_ = me /\ RestInv(m) /\ SupervisorInv
  BY <1>t, <1>0 DEF TypeOK, PatientInv, me_
<1>2. UNCHANGED <<tcp, cmd>>
  BY DEF Supervise, SupReceive, SupCountStall, SupMarkStalled, SupCutTimer,
         SupCutPower, SupCheck, SupFirstHalf, SupAccelerate, SupBrake, SupRetime,
         SupRestart
<1>3. \A a : Commanded(a)' <=> Commanded(a)
  BY <1>2 DEF Commanded
<1>4. ASSUME NEW a \in Axes, a # m PROVE SameView(a)
  <2>1. axis'[a] = axis[a]
    BY <1>t, <1>0, <1>4
    DEF TypeOK, Put, Supervise, SupReceive, SupCountStall, SupMarkStalled,
        SupCutTimer, SupCutPower, SupCheck, SupFirstHalf, SupAccelerate, SupBrake,
        SupRetime, SupRestart
  <2>2. tmr'[a] = tmr[a]
    BY <1>t, <1>0, <1>4
    DEF TypeOK, Supervise, SupReceive, SupCountStall, SupMarkStalled,
        SupCutTimer, SupCutPower, SupCheck, SupFirstHalf, SupAccelerate, SupBrake,
        SupRetime, SupRestart
  <2> QED BY <1>3, <2>1, <2>2, Untouched
<1>5. SameView(m) => UNCHANGED Moves!vars
  BY <1>4, Stutters
<1>6. CASE SupReceive \/ SupCutPower \/ SupCheck \/ SupFirstHalf
  <2>1. UNCHANGED <<axis, tmr>>
    BY <1>6 DEF SupReceive, SupCutPower, SupCheck, SupFirstHalf
  <2> QED BY <1>3, <1>5, <2>1, Untouched
<1>7. CASE SupCountStall \/ SupAccelerate \/ SupBrake
  <2>1. /\ tmr' = tmr
        /\ axis'[m] \in {[me EXCEPT !.stalled_counter = @ + 1],
                         [me EXCEPT !.stalled_counter = 0],
                         Accelerated(me, sup.n), Braked(me), me}
    BY <1>t, <1>0, <1>1, <1>7
    DEF SupCountStall, SupAccelerate, SupBrake, Put, TypeOK
  <2>2. /\ axis'[m].type = me.type /\ axis'[m].stalled = me.stalled
        /\ axis'[m].half_steps_curr = me.half_steps_curr
        /\ axis'[m].half_steps_requested = me.half_steps_requested
    BY <1>1, <2>1 DEF MotPapStruct, Accelerated, Braked
  <2>3. Tripped(m)' <=> Tripped(m)
    BY <2>1, <2>2 DEF Tripped
  <2> QED BY <1>3, <1>5, <2>2, <2>3, Unseen
<1>8. CASE SupMarkStalled
  <2>1. /\ tmr' = tmr /\ sup.pc = "mark"
        /\ axis'[m] = [me EXCEPT !.stalled = TRUE]
    BY <1>t, <1>0, <1>1, <1>8 DEF SupMarkStalled, Put, TypeOK
  <2>2. /\ axis'[m].type = me.type /\ axis'[m].stalled
        /\ axis'[m].half_steps_curr = me.half_steps_curr
        /\ axis'[m].half_steps_requested = me.half_steps_requested
    BY <1>1, <2>1 DEF MotPapStruct
  <2>3. ~Commanded(m)
    BY <1>0, <2>1 DEF PatientInv, CommandInv, Commanded, InFlight, Supervised
  <2>4. me.type # "STOP" => (Tripped(m)' <=> Tripped(m))
    BY <1>1, <2>1, <2>2, <2>3 DEF RestInv, Tripped
  <2> QED BY <1>3, <1>5, <2>2, <2>4, Unseen
<1>9. CASE SupCutTimer
  <2>1. sup.pc = "cut" /\ axis' = axis /\ tmr'[m] = tmr_stop(tmr[m])
    BY <1>t, <1>0, <1>9 DEF SupCutTimer, TypeOK
  <2>2. me.stalled /\ Tripped(m)'
    BY <1>0, <1>1, <2>1 DEF SupervisorInv, Tripped, tmr_stop
  <2>3. ~Commanded(m) /\ ~Commanded(m)'
    BY <1>0, <1>3, <2>1 DEF PatientInv, CommandInv, Commanded, InFlight, Supervised
  <2>4. DoneOf(m)' = DoneOf(m) /\ GoalOf(m)' = GoalOf(m) /\ ModeOf(m)' = "rest"
    BY <2>1, <2>2, <2>3 DEF DoneOf, GoalOf, ModeOf, CountsEdges
  <2>5. ModeOf(m) \in {"rest", "steps", "free"}
    BY <2>3 DEF ModeOf
  <2>6. CASE ModeOf(m) = "rest"
    BY <1>5, <2>4, <2>6 DEF SameView
  <2>7. CASE ModeOf(m) # "rest"
    <3>1. Moves!Trip(m)
      BY <1>4, <2>4, <2>5, <2>7, ShownBy DEF Moves!Trip, Moves!Becomes
    <3> QED BY <3>1 DEF Moves!Next
  <2> QED BY <2>6, <2>7
<1>10. CASE SupRetime \/ SupRestart
  <2>1. axis' = axis /\ sup.pc \in {"retime", "restart"}
    BY <1>10 DEF SupRetime, SupRestart
  <2>2. ~me.stalled
    BY <1>0, <1>1, <2>1 DEF SupervisorInv
  <2>3. Tripped(m)' <=> Tripped(m)
    BY <2>1, <2>2 DEF Tripped
  <2> QED BY <1>3, <1>5, <2>1, <2>3, Unseen
<1> QED BY <1>6, <1>7, <1>8, <1>9, <1>10 DEF Supervise

LEMMA MovesNext ==
  PatientInv /\ [Next /\ PatientClient]_vars => [Moves!Next]_Moves!vars
<1> SUFFICES ASSUME PatientInv, [Next /\ PatientClient]_vars
             PROVE  [Moves!Next]_Moves!vars
  OBVIOUS
<1>1. CASE TcpBegin /\ PatientClient
  BY <1>1, MovesBegin
<1>2. CASE TcpStep
  BY <1>2, MovesTcp
<1>3. CASE Supervise
  BY <1>3, MovesSupervise
<1>4. CASE \E a \in Axes : mot_pap_isr(a)
  BY <1>4, MovesIsr
<1>5. CASE EncoderEdge \/ LinkChange \/ UNCHANGED vars
  <2>1. UNCHANGED <<axis, tmr, tcp, cmd>>
    BY <1>5 DEF EncoderEdge, LinkChange, vars
  <2>2. \A a \in Axes : SameView(a)
    BY <2>1, Untouched DEF Commanded
  <2> QED BY <2>2, Stutters
<1> QED BY <1>1, <1>2, <1>3, <1>4, <1>5 DEF Next

\* Driven by a patient client, the commands of net_commands.c, mot_pap_isr and
\* mot_pap_supervisor_task keep the promise of AxisMoves, for any number of axes,
\* edges and messages.
THEOREM MovesImplemented == PatientSpec => ImplementsAxisMoves
<1>1. Init => Moves!Init
  BY MovesInit
<1>2. PatientInv /\ [Next /\ PatientClient]_vars => [Moves!Next]_Moves!vars
  BY MovesNext
<1> QED
  BY <1>1, <1>2, PatientInvariant, PTL
  DEF PatientSpec, ImplementsAxisMoves, Moves!Spec
=============================================================================
