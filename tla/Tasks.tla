-------------------------------- MODULE Tasks --------------------------------
(***************************************************************************)
(* The scheduler of tasks.c, as functions from one state of the kernel to  *)
(* the next: what Queue calls within its critical sections.  A kernel is a *)
(* record of the file's static variables:                                  *)
(*   current    pxCurrentTCB                                               *)
(*   priority   uxPriority of every task, inherited ones included          *)
(*   held       uxMutexesHeld of every task                                *)
(*   ready      pxReadyTasksLists: a ring for each priority, read from     *)
(*              pxIndex on, with the list's end marker in it               *)
(*   delayed, overflowed    the two delayed lists, ordered by wake time    *)
(*   wake       the wake time of the tasks in them                         *)
(*   events     the event lists of the queues, in the order of priority    *)
(*   pending    xPendingReadyList                                          *)
(*   tick, unblock    xTickCount, xNextTaskUnblockTime                     *)
(*   suspended, ticks, yield    uxSchedulerSuspended, uxPendedTicks,       *)
(*              xYieldPending                                              *)
(*   pendsv     a context switch is requested                              *)
(* A task in no list is in xSuspendedTaskList: it waits without limit.     *)
(***************************************************************************)
EXTENDS Integers, SequencesExt

CONSTANTS
  Task,            \* the tasks that call the kernel
  Idle,            \* and the idle task, which never blocks
  BasePriority,    \* uxBasePriority of each
  portMAX_DELAY    \* the largest tick count: 2^32 - 1 in the program

End == "xListEnd"

ASSUME PriorityAssumption ==
  /\ IsFiniteSet(Task) /\ Task # {} /\ Idle \notin Task
  /\ End \notin Task \cup {Idle}
  /\ BasePriority \in [Task \cup {Idle} -> Nat]
  /\ \A t \in Task : BasePriority[t] > BasePriority[Idle]
ASSUME TickAssumption == portMAX_DELAY \in Nat \ {0}

Tasks == Task \cup {Idle}
Priorities == {BasePriority[t] : t \in Tasks}
Ticks == 0 .. portMAX_DELAY
Later(time, n) == (time + n) % (portMAX_DELAY + 1)
Elapsed(from, to) == (to - from) % (portMAX_DELAY + 1)

-----------------------------------------------------------------------------
(* Lists *)

\* uxListRemove, from the list if t is in it
Without(list, t) ==
  IF t \in ToSet(list) THEN RemoveAt(list, CHOOSE i \in DOMAIN list : list[i] = t)
  ELSE list

\* uxListRemove: the index steps back from an element that leaves.
RingRemove(ring, t) ==
  IF ring[1] = t THEN <<Last(ring)>> \o SubSeq(ring, 2, Len(ring) - 1)
                 ELSE Without(ring, t)

Rotate(ring) == Append(Tail(ring), Head(ring))

\* Mutant of RingNext: the first ready task is selected again.
RingFirst(ring) == IF ring[1] = End THEN Rotate(ring) ELSE ring

\* listGET_OWNER_OF_NEXT_ENTRY: the index moves on, over the end marker.
RingNext(ring) == LET next == Rotate(ring)
                  IN  IF next[1] = End THEN Rotate(next) ELSE next

\* vListInsert: behind the elements whose value is not greater.
Insert(list, t, value) ==
  LET greater == {i \in DOMAIN list : value[list[i]] > value[t]}
  IN  InsertAt(list, Min(greater \cup {Len(list) + 1}), t)

-----------------------------------------------------------------------------
(* Which task runs *)

HasReady(k, p) == Len(k.ready[p]) > 1
TopPriority(k) == Max({p \in Priorities : HasReady(k, p)})

\* prvAddTaskToReadyList
AddToReady(k, t) == [k EXCEPT !.ready[k.priority[t]] = Append(@, t)]

\* The state item of a task leaves the list it is in.
Unlist(k, t) ==
  [k EXCEPT !.ready = [p \in Priorities |-> RingRemove(@[p], t)],
            !.delayed = Without(@, t), !.overflowed = Without(@, t),
            !.wake[t] = 0]

\* taskSELECT_HIGHEST_PRIORITY_TASK
SelectHighest(k) ==
  LET ring == RingNext(k.ready[TopPriority(k)])
  IN  [k EXCEPT !.ready[TopPriority(k)] = ring, !.current = ring[1]]

vTaskSwitchContext(k) ==
  IF k.suspended THEN [k EXCEPT !.pendsv = FALSE, !.yield = TRUE]
  ELSE SelectHighest([k EXCEPT !.pendsv = FALSE, !.yield = FALSE])

\* PendSV is taken at the end of the critical section or interrupt that requests it.
\* An interrupt that came first would leave the same lists to select from.
PendSV(k) == IF k.pendsv THEN vTaskSwitchContext(k) ELSE k

-----------------------------------------------------------------------------
(* Waiting *)

\* prvAddCurrentTaskToDelayedList.  A wake time beyond the end of the count goes
\* to the list that is looked at when the count has wrapped.
Delay(k, ticks, indefinitely) ==
  LET t == k.current
      time == Later(k.tick, ticks)
      out == [Unlist(k, t) EXCEPT !.wake[t] = time]
  IN  IF ticks = portMAX_DELAY /\ indefinitely THEN Unlist(k, t)
      ELSE IF time < k.tick
      THEN [out EXCEPT !.overflowed = Insert(@, t, out.wake)]
      ELSE [out EXCEPT !.delayed = Insert(@, t, out.wake),
                       !.unblock = Min({@, time})]

\* The value of an event item: configMAX_PRIORITIES less the priority.
EventValue(k) == [t \in Tasks |-> -k.priority[t]]

vTaskPlaceOnEventList(k, list, ticks) ==
  Delay([k EXCEPT !.events[list] = Insert(@, k.current, EventValue(k))], ticks, TRUE)

\* xTaskRemoveFromEventList
RemoveFromEventList(k, list) ==
  LET t == k.events[list][1]
      out == [k EXCEPT !.events[list] = Tail(@),
                       !.yield = @ \/ k.priority[t] > k.priority[k.current]]
  IN  IF k.suspended THEN [out EXCEPT !.pending = Append(@, t)]
                     ELSE AddToReady(Unlist(out, t), t)

\* The callers' "if there was a task waiting, unblock it, and yield if it has a
\* priority higher than our own".
Wake(k, list) ==
  IF k.events[list] = <<>> THEN k
  ELSE [RemoveFromEventList(k, list) EXCEPT
          !.pendsv = @ \/ k.priority[k.events[list][1]] > k.priority[k.current]]

-----------------------------------------------------------------------------
(* Time *)

\* prvResetNextTaskUnblockTime
ResetUnblock(k) ==
  [k EXCEPT !.unblock = IF k.delayed = <<>> THEN portMAX_DELAY
                        ELSE k.wake[k.delayed[1]]]

\* The count goes on; when it wraps, taskSWITCH_DELAYED_LISTS.
Advance(k) ==
  LET next == [k EXCEPT !.tick = Later(@, 1)]
  IN  IF next.tick # 0 THEN next
      ELSE ResetUnblock([next EXCEPT !.delayed = k.overflowed, !.overflowed = <<>>])

\* How many tasks at the head of the list have waited as long as they were to.
Due(k) ==
  IF k.tick < k.unblock THEN 0
  ELSE Max({n \in 0 .. Len(k.delayed) :
              \A i \in 1 .. n : k.wake[k.delayed[i]] <= k.tick})

\* Mutant of Expire: the task stays in the list of the event it waited for.
ExpireWaiting(k, t) == AddToReady(Unlist(k, t), t)

\* A task whose time has come leaves the list of the event it waited for.
Expire(k, t) ==
  AddToReady([Unlist(k, t) EXCEPT
                !.events = [list \in DOMAIN @ |-> Without(@[list], t)]], t)

\* xTaskIncrementTick; with the scheduler suspended the tick is put off.
IncrementTick(k) ==
  LET on == Advance(k)
      out[i \in 0 .. Due(on)] == IF i = 0 THEN on ELSE Expire(out[i - 1], on.delayed[i])
  IN  IF k.suspended THEN [k EXCEPT !.ticks = @ + 1]
      ELSE IF on.tick < on.unblock THEN on ELSE ResetUnblock(out[Due(on)])

\* What xTaskIncrementTick returns: a task as important as the current one has
\* become ready, or shares its priority, or a yield was missed.
SwitchRequired(k) ==
  \/ k.yield
  \/ /\ ~k.suspended
     /\ \/ \E i \in 1 .. Due(Advance(k)) :
             k.priority[Advance(k).delayed[i]] >= k.priority[k.current]
        \/ Len(IncrementTick(k).ready[k.priority[k.current]]) > 2

-----------------------------------------------------------------------------
(* xTaskResumeAll *)

\* A task that was unblocked meanwhile becomes ready.
ReadyOne(k, t) ==
  [AddToReady(Unlist(k, t), t) EXCEPT !.yield = @ \/ k.priority[t] >= k.priority[k.current]]

ReadyPending(k) ==
  LET out[i \in 0 .. Len(k.pending)] ==
        IF i = 0 THEN [k EXCEPT !.pending = <<>>] ELSE ReadyOne(out[i - 1], k.pending[i])
  IN  IF k.pending = <<>> THEN k ELSE ResetUnblock(out[Len(k.pending)])

\* A tick that was put off is counted.
CatchUpOne(k) == [IncrementTick(k) EXCEPT !.yield = SwitchRequired(k)]

CatchUp(k) ==
  LET out[i \in 0 .. k.ticks] ==
        IF i = 0 THEN [k EXCEPT !.ticks = 0] ELSE CatchUpOne(out[i - 1])
  IN  out[k.ticks]

\* Mutant of xTaskResumeAll: the pending yield is left to the next tick.
ResumeWithoutYield(k) == CatchUp(ReadyPending([k EXCEPT !.suspended = FALSE]))

\* pendsv: taskYIELD_IF_USING_PREEMPTION when a yield is pending
xTaskResumeAll(k) ==
  LET out == CatchUp(ReadyPending([k EXCEPT !.suspended = FALSE]))
  IN  [out EXCEPT !.pendsv = @ \/ out.yield]

-----------------------------------------------------------------------------
(* Priority inheritance *)

\* A task gets a priority, in its ready list if it is in one.
SetPriority(k, t, p) ==
  LET here == t \in ToSet(k.ready[k.priority[t]])
      out == [IF here THEN Unlist(k, t) ELSE k EXCEPT !.priority[t] = p]
  IN  IF here THEN AddToReady(out, t) ELSE out

\* Mutant of xTaskPriorityInherit: the holder stays as it is.
NoPriorityInherit(k, holder) == k

xTaskPriorityInherit(k, holder) ==
  IF holder \in Tasks /\ k.priority[holder] < k.priority[k.current]
  THEN SetPriority(k, holder, k.priority[k.current]) ELSE k

\* Mutant of MustDisinherit: a count that is read after it has gone down.
MustDisinheritLate(k, t) ==
  k.priority[t] # BasePriority[t] /\ k.held[t] = 0

\* Whether the task that gives a mutex back must let a priority go.
MustDisinherit(k, t) ==
  k.priority[t] # BasePriority[t] /\ k.held[t] = 1

\* Mutant of xTaskPriorityDisinherit: as if no mutex were held within another.
DisinheritAll(k, t) ==
  LET out == [k EXCEPT !.held[t] = 0]
  IN  IF MustDisinherit(k, t) THEN SetPriority(out, t, BasePriority[t]) ELSE out

xTaskPriorityDisinherit(k, t) ==
  LET out == [k EXCEPT !.held[t] = @ - 1]
  IN  IF MustDisinherit(k, t) THEN SetPriority(out, t, BasePriority[t]) ELSE out
=============================================================================
