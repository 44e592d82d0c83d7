-------------------------------- MODULE Queue --------------------------------
(***************************************************************************)
(* Queues, semaphores and mutexes of queue.c, as the tasks of the network  *)
(* stack use them through sys_arch_freertos.c: tasks of several priorities *)
(* that call them and wait with or without a limit, the interrupts that    *)
(* give to them, the tick, and the context switches.  A step is what the   *)
(* code does in one critical section: an interrupt may come between any    *)
(* two steps, another task between any two with the scheduler running.     *)
(***************************************************************************)
EXTENDS Tasks

CONSTANTS
  Mailboxes, Semaphores, Mutexes,   \* handles of the queues
  Length,                           \* uxLength of each
  FromISR,                          \* those that an interrupt gives to
  Programs,                         \* what each task calls: one of these; per
                                    \* task, without a mutex and within each
  Isr, None,
  MaxPended                         \* bound: ticks put off by one suspension

Handles == Mailboxes \cup Semaphores \cup Mutexes
Sides == {"send", "receive"}

ASSUME QueueAssumption ==
  /\ Length \in [Handles -> Nat \ {0}]
  /\ \A q \in Mutexes : Length[q] = 1
  /\ IsFiniteSet(Mutexes)
  /\ Mailboxes \cap Semaphores = {} /\ Mutexes \cap (Mailboxes \cup Semaphores) = {}
  /\ FromISR \subseteq Mailboxes \cup Semaphores
  /\ MaxPended \in 1 .. portMAX_DELAY
  /\ None \notin Tasks \cup Handles

\* Who waits with a limit only fetches from a mailbox: every post is tried once or
\* waits for ever, and so does every semaphore and every mutex.  A mutex is given by
\* who has taken it.
Requests ==
  [op : Sides, q : Handles, xTicksToWait : Ticks]
    \cup [op : {"delay"}, q : {None}, xTicksToWait : Ticks \ {0}]

ASSUME CallsAssumption ==
  \A p \in Programs :
    /\ p \in [Task -> [Mutexes \cup {None} -> SUBSET Requests]]
    /\ \A t \in Task : \A m \in Mutexes \cup {None} : \A c \in p[t][m] :
         \/ c.op = "delay" \/ (c.q \in Mailboxes /\ c.op = "receive")
         \/ c.xTicksToWait \in {0, portMAX_DELAY} /\ (c.q \in Mutexes => c.op = "receive")

\* Who calls anything with a mutex taken has the highest priority, and calls nothing
\* with one taken within it.  In the program that is the transmit cleanup task, which
\* frees the packets that were sent with TXLockMutex taken (emac.c:82, :740-800).
Highest == Max(Priorities)
Nests(p, t) == {m \in Mutexes : p[t][m] # {}}
ASSUME NestingAssumption ==
  \A p \in Programs : \A t \in Task : \A m \in Nests(p, t) :
    /\ BasePriority[t] = Highest
    /\ \A c \in p[t][m] : c.q \notin Nests(p, t)

VARIABLES
  kernel,   \* the state of tasks.c
  queue,    \* the Queue_t of each handle
  call,     \* per task: where it is in a call, and the locals of it
  left,     \* ticks left of a wait with a limit: what the caller was promised
  program   \* the calls that each task makes

vars == <<kernel, queue, call, left, program>>

queueUNLOCKED == -1
queueLOCKED_UNMODIFIED == 0

NoCall == [pc |-> "app", op |-> "none", q |-> None, xTicksToWait |-> 0,
           set |-> FALSE, since |-> 0, wrapped |-> FALSE]

Init ==
  /\ kernel =
       [current |-> CHOOSE t \in Task : \A u \in Task : BasePriority[u] <= BasePriority[t],
        priority |-> BasePriority, held |-> [t \in Tasks |-> 0],
        ready |-> [p \in Priorities |->
                     <<End>> \o SetToSeq({t \in Tasks : BasePriority[t] = p})],
        delayed |-> <<>>, overflowed |-> <<>>, wake |-> [t \in Tasks |-> 0],
        events |-> [list \in Handles \X Sides |-> <<>>], pending |-> <<>>,
        tick |-> 0, unblock |-> portMAX_DELAY,
        suspended |-> FALSE, ticks |-> 0, yield |-> FALSE, pendsv |-> FALSE]
  /\ queue = [q \in Handles |->
       [items |-> [i \in 0 .. Length[q] - 1 |-> None],
        waiting |-> IF q \in Mutexes THEN 1 ELSE 0,
        writeTo |-> 0, readFrom |-> Length[q] - 1,
        txLock |-> queueUNLOCKED, rxLock |-> queueUNLOCKED, holder |-> None]]
  /\ call = [t \in Task |-> NoCall]
  /\ left = [t \in Task |-> 0]
  /\ program \in Programs

-----------------------------------------------------------------------------
(* The store of a queue *)

Succ(q, i) == (i + 1) % Length[q]

\* prvCopyDataToQueue, without the mutex
CopyDataToQueue(q, sender) ==
  LET s == queue[q]
  IN  IF q \in Mailboxes
      THEN [s EXCEPT !.items[s.writeTo] = sender, !.writeTo = Succ(q, @),
                     !.waiting = @ + 1]
      ELSE [s EXCEPT !.waiting = @ + 1, !.holder = None]

\* Mutant of CopyDataFromQueue: the index moves on after the copy.
CopyThenAdvance(q) ==
  LET s == queue[q]
  IN  IF q \in Mailboxes
      THEN [s EXCEPT !.items[s.readFrom] = None, !.readFrom = Succ(q, @), !.waiting = @ - 1]
      ELSE [s EXCEPT !.waiting = @ - 1]

\* prvCopyDataFromQueue; what was read is forgotten.
CopyDataFromQueue(q) ==
  LET s == queue[q]
      from == Succ(q, s.readFrom)
  IN  IF q \in Mailboxes
      THEN [s EXCEPT !.items[from] = None, !.readFrom = from, !.waiting = @ - 1]
      ELSE [s EXCEPT !.waiting = @ - 1]

IsQueueEmpty(q) == queue[q].waiting = 0
IsQueueFull(q) == queue[q].waiting = Length[q]
Blocked(c) == IF c.op = "send" THEN IsQueueFull(c.q) ELSE IsQueueEmpty(c.q)

\* The list of those that wait to do what c does.
Waiters(c) == <<c.q, c.op>>

-----------------------------------------------------------------------------
(* The calls, up to the first critical section *)

At(t, pc) == kernel.current = t /\ call[t].pc = pc
Goto(t, pc) == call' = [call EXCEPT ![t].pc = pc]
Return(t) == call' = [call EXCEPT ![t] = NoCall]

\* The mutexes a task holds, and those of them that it took nothing within.
Held(t) == {m \in Mutexes : queue[m].holder = t}
Inner(t) == {m \in Held(t) : \A c \in program[t][m] : c.q \notin Held(t)}

\* What a task that runs calls now, or is about to try again.  One that holds a mutex
\* goes on with what it does within the one taken last, or gives that one back.
Menu(t) ==
  IF Held(t) = {} THEN program[t][None]
  ELSE (UNION {program[t][m] : m \in Inner(t)})
         \cup {[op |-> "send", q |-> m, xTicksToWait |-> 0] : m \in Inner(t)}
Called(c) ==
  [NoCall EXCEPT !.pc = "test", !.op = c.op, !.q = c.q, !.xTicksToWait = c.xTicksToWait]
Asked(t) ==
  IF At(t, "app") THEN {Called(c) : c \in Menu(t)}
  ELSE IF At(t, "test") THEN {call[t]} ELSE {}

\* xQueueGenericSend finds room: for a mutex, the priority it brought goes with it.
Send(t) ==
  \E c \in Asked(t) :
    LET given == IF c.q \in Mutexes THEN xTaskPriorityDisinherit(kernel, t) ELSE kernel
        list == <<c.q, "receive">>
    IN  /\ c.op = "send" /\ ~IsQueueFull(c.q)
        /\ queue' = [queue EXCEPT ![c.q] = CopyDataToQueue(c.q, t)]
        /\ kernel' = PendSV(
             IF given.events[list] # <<>> THEN Wake(given, list)
             ELSE [given EXCEPT !.pendsv = c.q \in Mutexes /\ MustDisinherit(kernel, t)])
        /\ Return(t)
        /\ UNCHANGED <<left, program>>

\* xQueueReceive finds a message.
Receive(t) ==
  \E c \in Asked(t) :
    /\ c.op = "receive" /\ c.q \in Mailboxes /\ ~IsQueueEmpty(c.q)
    /\ queue' = [queue EXCEPT ![c.q] = CopyDataFromQueue(c.q)]
    /\ kernel' = PendSV(Wake(kernel, <<c.q, "send">>))
    /\ Return(t)
    /\ UNCHANGED <<left, program>>

\* xQueueSemaphoreTake finds the semaphore, or the mutex, which it then holds.
Take(t) ==
  \E c \in Asked(t) :
    LET mutex == c.q \in Mutexes
        taken == CopyDataFromQueue(c.q)
    IN  /\ c.op = "receive" /\ c.q \notin Mailboxes /\ ~IsQueueEmpty(c.q)
        /\ queue' = [queue EXCEPT ![c.q] =
                       IF mutex THEN [taken EXCEPT !.holder = t] ELSE taken]
        /\ kernel' = PendSV(Wake(
             IF mutex THEN [kernel EXCEPT !.held[t] = @ + 1] ELSE kernel, <<c.q, "send">>))
        /\ Return(t)
        /\ UNCHANGED <<left, program>>

\* Full, or empty, and no time to wait is left, or none was given.
Refused(t) ==
  \E c \in Asked(t) :
    /\ c.op \in Sides /\ Blocked(c) /\ c.xTicksToWait = 0
    /\ Return(t)
    /\ UNCHANGED <<kernel, queue, left, program>>

\* Full, or empty: the first time, vTaskInternalSetTimeOutState, which matters to a
\* wait with a limit only.
Enter(t) ==
  \E c \in Asked(t) :
    LET starts == ~c.set /\ c.xTicksToWait # portMAX_DELAY
    IN  /\ c.op \in Sides /\ Blocked(c) /\ c.xTicksToWait > 0
        /\ call' = [call EXCEPT ![t] =
                      [c EXCEPT !.pc = "suspend", !.set = c.set \/ starts,
                                !.since = IF starts THEN kernel.tick ELSE c.since]]
        /\ left' = IF starts THEN [left EXCEPT ![t] = c.xTicksToWait] ELSE left
        /\ UNCHANGED <<kernel, queue, program>>

-----------------------------------------------------------------------------
(* With the scheduler suspended and the queue locked *)

vTaskSuspendAll(t) ==
  /\ At(t, "suspend")
  /\ kernel' = [kernel EXCEPT !.suspended = TRUE]
  /\ Goto(t, "lock")
  /\ UNCHANGED <<queue, left, program>>

\* xTaskCheckForTimeOut: over, or what is left of the wait counts from now on.
TimedOut(c) ==
  /\ c.xTicksToWait # portMAX_DELAY
  /\ \/ c.wrapped /\ kernel.tick >= c.since
     \/ Elapsed(c.since, kernel.tick) >= c.xTicksToWait

\* Mutant of StillWaiting: the whole time to wait is given again.
WaitingAfresh(c) == [c EXCEPT !.since = kernel.tick, !.wrapped = FALSE]

StillWaiting(c) ==
  IF c.xTicksToWait = portMAX_DELAY THEN c
  ELSE [c EXCEPT !.xTicksToWait = @ - Elapsed(c.since, kernel.tick),
                 !.since = kernel.tick, !.wrapped = FALSE]

\* prvLockQueue, and the check of the time, which stands still here.
Lock(t) ==
  LET c == call[t]
      Locked(lock) == IF lock = queueUNLOCKED THEN queueLOCKED_UNMODIFIED ELSE lock
  IN  /\ At(t, "lock")
      /\ queue' = [queue EXCEPT ![c.q].txLock = Locked(@), ![c.q].rxLock = Locked(@)]
      /\ call' = [call EXCEPT ![t] =
                    IF TimedOut(c) THEN [c EXCEPT !.pc = "unlock_late", !.xTicksToWait = 0]
                    ELSE [StillWaiting(c) EXCEPT !.pc = "look"]]
      /\ UNCHANGED <<kernel, left, program>>

\* Mutant of Place: what was seen before the queue was locked is taken for true.
PlaceUnlooked(t) ==
  /\ At(t, "look")
  /\ kernel' = vTaskPlaceOnEventList(kernel, Waiters(call[t]), call[t].xTicksToWait)
  /\ Goto(t, "unlock_blocked")
  /\ UNCHANGED <<queue, left, program>>

\* Still full, or empty: to the event list, a mutex's holder inheriting first.
Place(t) ==
  LET c == call[t]
      heir == IF c.q \in Mutexes THEN xTaskPriorityInherit(kernel, queue[c.q].holder)
              ELSE kernel
  IN  /\ At(t, "look") /\ Blocked(c)
      /\ kernel' = vTaskPlaceOnEventList(heir, Waiters(c), c.xTicksToWait)
      /\ Goto(t, "unlock_blocked")
      /\ UNCHANGED <<queue, left, program>>

TryAgain(t) ==
  /\ At(t, "look") /\ ~Blocked(call[t])
  /\ Goto(t, "unlock")
  /\ UNCHANGED <<kernel, queue, left, program>>

\* A task is woken for each item that came, or went, while the queue was locked; the
\* yield is left to xTaskResumeAll.
DrainOne(k, list) ==
  IF k.events[list] = <<>> THEN k
  ELSE [RemoveFromEventList(k, list) EXCEPT
          !.yield = @ \/ k.priority[k.events[list][1]] > k.priority[k.current]]

Drain(k, list, lock) ==
  LET out[i \in 0 .. lock] == IF i = 0 THEN k ELSE DrainOne(out[i - 1], list)
  IN  out[lock]

After == [unlock |-> "resume", unlock_blocked |-> "resume_blocked",
          unlock_late |-> "resume_late"]

\* Its two critical sections are one step: interrupts do not touch what the second
\* looks at.
prvUnlockQueue(t) ==
  LET q == call[t].q
      unlocked == Drain(kernel, <<q, "receive">>, queue[q].txLock)
  IN  /\ \E pc \in DOMAIN After : At(t, pc)
      /\ kernel' = Drain(unlocked, <<q, "send">>, queue[q].rxLock)
      /\ queue' = [queue EXCEPT ![q].txLock = queueUNLOCKED, ![q].rxLock = queueUNLOCKED]
      /\ Goto(t, After[call[t].pc])
      /\ UNCHANGED <<left, program>>

\* vTaskDelay, which has the scheduler suspended too, up to xTaskResumeAll
vTaskDelay(t) ==
  \E c \in Asked(t) :
    /\ c.op = "delay"
    /\ kernel' = Delay([kernel EXCEPT !.suspended = TRUE], c.xTicksToWait, FALSE)
    /\ left' = [left EXCEPT ![t] = c.xTicksToWait]
    /\ call' = [call EXCEPT ![t] = [c EXCEPT !.pc = "resume_delay"]]
    /\ UNCHANGED <<queue, program>>

\* What the ticks from k to l change of the waits.  A task kept in the middle of a
\* call while the count, 49 days long in the program, wraps twice is late all the
\* same: the second time, its since is taken for passed.
Left(k, l) == [t \in Task |-> Max({0, left[t] - Elapsed(k.tick, l.tick)})]
WrapSeen(k, l, c) ==
  [t \in Task |->
     IF ~c[t].set \/ l.tick >= k.tick THEN c[t]
     ELSE [c[t] EXCEPT !.wrapped = TRUE, !.since = IF c[t].wrapped THEN 0 ELSE @]]

\* xTaskResumeAll, with the portYIELD_WITHIN_API of a task that blocks.
Resume(t) ==
  LET pc == call[t].pc
      out == xTaskResumeAll(kernel)
      next == [resume |-> "test", resume_blocked |-> "test", resume_late |-> "last",
               resume_delay |-> "slept"]
  IN  /\ \E p \in DOMAIN next : At(t, p)
      /\ kernel' = PendSV([out EXCEPT !.pendsv = @ \/ pc \in {"resume_blocked", "resume_delay"}])
      /\ call' = WrapSeen(kernel, out, [call EXCEPT ![t].pc = next[pc]])
      /\ left' = Left(kernel, out)
      /\ UNCHANGED <<queue, program>>

\* A receiver whose time is over looks once more.
LookAgain(t) ==
  /\ At(t, "last") /\ ~Blocked(call[t])
  /\ Goto(t, "test")
  /\ UNCHANGED <<kernel, queue, left, program>>

GiveUp(t) ==
  /\ At(t, "last") /\ Blocked(call[t])
  /\ Return(t)
  /\ UNCHANGED <<kernel, queue, left, program>>

Awake(t) ==
  /\ At(t, "slept")
  /\ Return(t)
  /\ UNCHANGED <<kernel, queue, left, program>>

Step(t) ==
  \/ Send(t) \/ Receive(t) \/ Take(t) \/ Refused(t) \/ Enter(t)
  \/ vTaskSuspendAll(t) \/ Lock(t) \/ Place(t) \/ TryAgain(t)
  \/ prvUnlockQueue(t) \/ vTaskDelay(t) \/ Resume(t)
  \/ LookAgain(t) \/ GiveUp(t) \/ Awake(t)

-----------------------------------------------------------------------------
(* Interrupts *)

\* xQueueSendFromISR and xQueueGiveFromISR: a queue that is locked is only told
\* that something came.
GiveFromISR(q) ==
  LET given == CopyDataToQueue(q, Isr)
  IN  /\ ~IsQueueFull(q)
      /\ IF queue[q].txLock = queueUNLOCKED
         THEN /\ queue' = [queue EXCEPT ![q] = given]
              /\ kernel' = PendSV(Wake(kernel, <<q, "receive">>))
         ELSE /\ queue' = [queue EXCEPT ![q] = [given EXCEPT !.txLock = @ + 1]]
              /\ UNCHANGED kernel
      /\ UNCHANGED <<call, left, program>>

\* xPortSysTickHandler
Tick ==
  LET out == [IncrementTick(kernel) EXCEPT !.pendsv = SwitchRequired(kernel)]
  IN  /\ kernel.ticks < MaxPended
      /\ kernel' = PendSV(out)
      /\ call' = WrapSeen(kernel, out, call)
      /\ left' = Left(kernel, out)
      /\ UNCHANGED <<queue, program>>

Next ==
  \/ \E t \in Task : Step(t)
  \/ \E q \in FromISR : GiveFromISR(q)
  \/ Tick

\* Strong fairness of the tick and of every task that runs again and again, however
\* often it is interrupted: SF_vars(Tick) and SF_vars(Step(t)), with ENABLED put as
\* what it comes to here.
Fairness ==
  /\ []<>(kernel.ticks < MaxPended) => []<><<Tick>>_vars
  /\ \A t \in Task : []<>(kernel.current = t) => []<><<Step(t)>>_vars

Spec == Init /\ [][Next]_vars
FairSpec == Spec /\ Fairness

-----------------------------------------------------------------------------
(* Properties *)

Timed(t) == t \in ToSet(kernel.delayed) \cup ToSet(kernel.overflowed)
Waiting(t, list) == t \in ToSet(kernel.events[list])
IsReady(t) == t \in ToSet(kernel.ready[kernel.priority[t]])

\* The tasks that are in a call of op on q and not asleep: they will look again.
Looking(q, op) ==
  {t \in Task : /\ call[t].q = q /\ call[t].op = op
                /\ call[t].pc # "app"
                /\ ~Waiting(t, <<q, op>>)}

\* No wake-up is lost: while a task waits on a queue there are no more messages
\* (for a sender, places) in it than tasks on their way to take them, or noted in
\* the lock for prvUnlockQueue to wake one each.
NoLostWakeup ==
  \A q \in Handles :
    /\ kernel.events[<<q, "receive">>] # <<>>
         => queue[q].waiting <= Cardinality(Looking(q, "receive")) + Max({0, queue[q].txLock})
    /\ kernel.events[<<q, "send">>] # <<>>
         => Length[q] - queue[q].waiting
              <= Cardinality(Looking(q, "send")) + Max({0, queue[q].rxLock})

\* Unless the scheduler is suspended, the task that runs is ready and none that is
\* ready has a higher priority.
HighestRuns ==
  kernel.suspended
    \/ (IsReady(kernel.current) /\ kernel.priority[kernel.current] = TopPriority(kernel))

\* A wait with a limit ends when it was promised to, whether the tick count wraps,
\* the wait is taken up again or ticks are put off: its wake time is as far away as
\* what is left of it, and it is woken when nothing is; what gave up had nothing left.
\* For that the delays are in order, and xNextTaskUnblockTime is not after the first.
DeadlinesKept ==
  /\ kernel.delayed # <<>> => kernel.unblock <= kernel.wake[kernel.delayed[1]]
  /\ \A i, j \in DOMAIN kernel.delayed :
       i < j => kernel.wake[kernel.delayed[i]] <= kernel.wake[kernel.delayed[j]]
  /\ \A t \in Task : Timed(t) =>
       /\ left[t] > 0
       /\ Elapsed(kernel.tick, kernel.wake[t]) = left[t]
  /\ \A t \in Task :
       call[t].pc \in {"unlock_late", "resume_late", "last", "slept"}
         => Timed(t) \/ left[t] = 0

\* No task that waits for a mutex waits for one of less priority that holds it
\* (mutexes of queue.c inherit), and a task that holds none has its own priority.
NoInversion ==
  /\ \A q \in Mutexes : \A t \in ToSet(kernel.events[<<q, "receive">>]) :
       queue[q].holder \in Task => kernel.priority[queue[q].holder] >= kernel.priority[t]
  /\ \A t \in Tasks : kernel.held[t] = 0 => kernel.priority[t] = BasePriority[t]

-----------------------------------------------------------------------------
(* What holds between any two steps *)

Events == Handles \X Sides

\* A task in Critical has suspended the scheduler; in Gone it has left the ready
\* lists and runs on until it resumes it; in Locking it has locked its queue.
Critical == {"lock", "look", "unlock", "unlock_blocked", "unlock_late", "resume",
             "resume_blocked", "resume_late", "resume_delay"}
Gone == {"unlock_blocked", "resume_blocked", "resume_delay"}
Locking == {"look", "unlock", "unlock_blocked", "unlock_late"}

Kernels ==
  [current : Tasks, priority : [Tasks -> Priorities], held : [Tasks -> Nat],
   ready : [Priorities -> Seq(Tasks \cup {End})], delayed : Seq(Task),
   overflowed : Seq(Task), wake : [Tasks -> Ticks], events : [Events -> Seq(Task)],
   pending : Seq(Task), tick : Ticks, unblock : Ticks, suspended : BOOLEAN,
   ticks : Nat, yield : BOOLEAN, pendsv : BOOLEAN]

Message == Task \cup {Isr, None}
QueueType(q) ==
  [items : [0 .. Length[q] - 1 -> Message], waiting : 0 .. Length[q],
   writeTo : 0 .. Length[q] - 1, readFrom : 0 .. Length[q] - 1,
   txLock : Nat \cup {queueUNLOCKED}, rxLock : {queueUNLOCKED, queueLOCKED_UNMODIFIED},
   holder : Task \cup {None}]

Calls ==
  [pc : {"app", "test", "suspend", "last", "slept"} \cup Critical,
   op : Sides \cup {"delay", "none"}, q : Handles \cup {None}, xTicksToWait : Ticks,
   set : BOOLEAN, since : Ticks, wrapped : BOOLEAN]

TypeOK ==
  /\ kernel \in Kernels
  /\ queue = [q \in Handles |-> queue[q]] /\ \A q \in Handles : queue[q] \in QueueType(q)
  /\ call \in [Task -> Calls] /\ left \in [Task -> Ticks] /\ program \in Programs

ReadyTasks(k) == {t \in Tasks : t \in ToSet(k.ready[k.priority[t]])}
Sleeping(k) == ToSet(k.delayed) \cup ToSet(k.overflowed)
Listed(k, t) == \E list \in Events : t \in ToSet(k.events[list])

\* A ready list holds its end and, once each, the tasks of its priority.
RingsInv(k) ==
  /\ \A p \in Priorities :
       /\ IsInjective(k.ready[p]) /\ End \in ToSet(k.ready[p])
       /\ \A t \in ToSet(k.ready[p]) \ {End} : k.priority[t] = p
  /\ Idle \in ReadyTasks(k)

\* Who is ready waits for nothing, and who waits does so in one list of each kind.
WaitsInv(k) ==
  /\ IsInjective(k.delayed) /\ IsInjective(k.overflowed) /\ IsInjective(k.pending)
  /\ Sleeping(k) \cap ReadyTasks(k) = {} /\ ToSet(k.delayed) \cap ToSet(k.overflowed) = {}
  /\ \A t \in ToSet(k.pending) \cup ReadyTasks(k) : ~Listed(k, t)
  /\ ToSet(k.pending) \cap ReadyTasks(k) = {}

\* No one waits for two events.  Event lists are in the order of the priorities, which
\* no one has inherited there, and who waits for a mutex has no time set.
EventsInv(k) ==
  /\ \A t \in Tasks : Listed(k, t) => k.priority[t] = BasePriority[t]
  /\ \A list \in Events :
       /\ IsInjective(k.events[list])
       /\ \A i, j \in DOMAIN k.events[list] :
            i < j => BasePriority[k.events[list][i]] >= BasePriority[k.events[list][j]]
       /\ \A t \in ToSet(k.events[list]) :
            /\ list[1] \in Mutexes => t \notin Sleeping(k)
            /\ \A other \in Events : t \in ToSet(k.events[other]) => other = list

ListsInv(k) == RingsInv(k) /\ WaitsInv(k) /\ EventsInv(k)

\* The task that runs is ready, and none that is ready has a higher priority.
Running(k) ==
  /\ k.current \in ReadyTasks(k)
  /\ \A t \in ReadyTasks(k) : k.priority[t] <= k.priority[k.current]

\* Only the task that runs can have suspended the scheduler, and what is put off then
\* is put off no longer.
ControlInv ==
  /\ {t \in Task : call[t].pc \in Critical} =
       IF kernel.suspended THEN {kernel.current} ELSE {}
  /\ ~kernel.suspended => kernel.pending = <<>> /\ kernel.ticks = 0
  /\ ~kernel.pendsv
  /\ Running(kernel) \/ (kernel.suspended /\ call[kernel.current].pc \in Gone)

\* A task is in the list of the event its call waits for, and of no other.
CallsInv ==
  \A t \in Task :
    LET c == call[t]
    IN  /\ c.pc \in {"slept", "resume_delay"} => c.op = "delay"
        /\ c.pc \notin {"app", "slept", "resume_delay"} => c.op \in Sides /\ c.q \in Handles
        /\ c.pc # "app" /\ c.q \in Mutexes =>
             c.op = "receive" /\ c.xTicksToWait = portMAX_DELAY
        /\ \A list \in Events : Waiting(t, list) =>
             list = Waiters(c) /\ c.pc \in {"test", "unlock_blocked", "resume_blocked"}
        /\ kernel.held[t] > 0 => c.pc = "app" \/ BasePriority[t] = Highest

\* A queue is locked while a task is between prvLockQueue and prvUnlockQueue.
LocksInv ==
  \A q \in Handles :
    /\ IF \E t \in Task : call[t].q = q /\ call[t].pc \in Locking
       THEN queue[q].txLock >= 0 /\ queue[q].rxLock = queueLOCKED_UNMODIFIED
       ELSE queue[q].txLock = queueUNLOCKED /\ queue[q].rxLock = queueUNLOCKED
    /\ q \in Mutexes => queue[q].txLock <= 0

\* A task of less than the highest priority holds one mutex or none, and calls nothing
\* meanwhile; it has a priority that is not its own from one who waits for that mutex,
\* and gives way to none who does.  While a mutex that is waited for is free, one of
\* those it was given to is about to take it.
MutexInv ==
  /\ \A q \in Mutexes :
       LET s == queue[q]
           waiters == ToSet(kernel.events[<<q, "receive">>])
       IN  /\ s.holder = None <=> s.waiting = 1
           /\ s.holder # None =>
                /\ \A t \in waiters : kernel.priority[t] <= kernel.priority[s.holder]
                /\ \A r \in Mutexes : queue[r].holder = s.holder =>
                     r = q \/ BasePriority[s.holder] = Highest
           /\ s.holder = None /\ waiters # {} =>
                \E t \in Task :
                  /\ t \in ReadyTasks(kernel) /\ call[t].pc = "test"
                  /\ Waiters(call[t]) = <<q, "receive">>
                  /\ \A u \in waiters : kernel.priority[u] <= kernel.priority[t]
  /\ \A t \in Tasks :
       /\ kernel.held[t] = Cardinality(Held(t))
       /\ kernel.priority[t] >= BasePriority[t]
       /\ kernel.priority[t] # BasePriority[t] =>
            \E q \in Mutexes :
              /\ queue[q].holder = t
              /\ \E u \in ToSet(kernel.events[<<q, "receive">>]) :
                   kernel.priority[u] = kernel.priority[t]

\* The lists, the scheduler's state, the calls, the locks and the mutexes agree.
KernelInv ==
  /\ TypeOK /\ ListsInv(kernel) /\ ControlInv /\ CallsInv /\ LocksInv /\ MutexInv

-----------------------------------------------------------------------------
(* What the queues promise *)

Contents(q) ==
  [i \in 1 .. queue[q].waiting |->
     IF q \in Mailboxes THEN queue[q].items[(queue[q].readFrom + i) % Length[q]] ELSE None]

Patience(c) == IF c.xTicksToWait = portMAX_DELAY THEN "forever" ELSE "some"

Wants(t) ==
  LET c == call[t]
  IN  IF c.op \in Sides THEN [op |-> c.op, q |-> c.q, patience |-> Patience(c)] ELSE None

Promised == INSTANCE Buffers WITH
  Calls <- [op : Sides, q : Handles, patience : {"forever", "some"}],
  Messages <- Mailboxes, Token <- None,
  buffer <- [q \in Handles |-> Contents(q)],
  wants <- [t \in Task |-> Wants(t)]

\* queue.c keeps the promise of Buffers: between locks, unlocks, the store's two
\* indexes and the interrupts, every call acts once and in the order of the store.
ImplementsBuffers == Promised!Spec

\* Who else of the highest priority takes the mutex that t wants: one that is woken for
\* a mutex may find that the task that gave it has taken it again.
Rivals(t) ==
  {u \in Task \ {t} : /\ BasePriority[u] = Highest
                      /\ \E m \in Mutexes \cup {None} : \E c \in program[u][m] :
                           c.q = call[t].q}

\* A call that ends: one with a limit, or for a mutex without rivals.
Prompt(t) ==
  /\ call[t].pc # "app"
  /\ call[t].xTicksToWait < portMAX_DELAY \/ (call[t].q \in Mutexes /\ Rivals(t) = {})

\* At the highest priority a call with a limit comes back, and one for a mutex too:
\* its holder, of less priority, inherits the processor although other tasks never
\* stop, and although who waits holds another mutex meanwhile.
CallsReturn ==
  \A t \in {t \in Task : BasePriority[t] = Highest} : []<>(~Prompt(t))
=============================================================================
