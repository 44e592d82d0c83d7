---------------------------- MODULE DeadlineProofs ----------------------------
(***************************************************************************)
(* The waits with a limit end when they were promised to, for any tasks,   *)
(* programs and tick width: the delayed lists are in the order of the wake *)
(* times, those times are as far away as what is left of the waits, and    *)
(* what a call makes of the tick count agrees with both, however often the *)
(* count wraps and the ticks are put off.                                  *)
(***************************************************************************)
EXTENDS QueueProofs

-----------------------------------------------------------------------------
(* The tick count *)

\* What is left of n after m.
Less(n, m) == IF n > m THEN n - m ELSE 0

(* One turn of the count is one tick more than the largest.                *)
LEMMA ElapsedIs ==
  ASSUME NEW a \in Ticks, NEW b \in Ticks
  PROVE  Elapsed(a, b) = IF b >= a THEN b - a ELSE b - a + portMAX_DELAY + 1
<1>1. PICK max \in Nat \ {0} : max = portMAX_DELAY BY TickAssumption
<1>2. PICK n \in Nat \ {0} : n = max + 1 OBVIOUS
<1>3. a \in 0 .. max /\ b \in 0 .. max BY <1>1 DEF Ticks
<1>4. PICK d \in Int : d = b - a BY <1>3
<1>5. Elapsed(a, b) = d % n BY <1>1, <1>2, <1>4 DEF Elapsed
<1>6. \A j \in 0 .. n - 1 : j % n = j OBVIOUS
<1>7. CASE b >= a
  <2>1. d \in 0 .. n - 1 BY <1>2, <1>3, <1>4, <1>7
  <2> QED BY <1>4, <1>5, <1>6, <1>7, <2>1
<1>8. CASE ~(b >= a)
  <2>1. PICK r \in 0 .. n - 1, p \in Int : r = d % n /\ d = n * p + r
    <3>1. PICK r, p : r = d % n /\ p = d \div n OBVIOUS
    <3>2. d = n * p + r /\ r \in 0 .. n - 1 /\ p \in Int BY <3>1, DivisionIs
    <3> QED BY <3>1, <3>2
  <2>2. d < 0 /\ d > -n BY <1>2, <1>3, <1>4, <1>8
  <2>3. p = -1
    <3>1. ASSUME p >= 0 PROVE FALSE
      <4>1. n * p >= 0 BY <3>1
      <4> QED BY <2>1, <2>2, <4>1
    <3>2. ASSUME p <= -2 PROVE FALSE
      <4>1. n * p <= -(n + n) BY <3>2
      <4> QED BY <2>1, <2>2, <4>1
    <3> QED BY <3>1, <3>2
  <2>4. n * p = -n BY <2>3
  <2>5. r = d + n BY <2>1, <2>4
  <2> QED BY <1>1, <1>2, <1>3, <1>4, <1>5, <1>8, <2>1, <2>5
<1> QED BY <1>7, <1>8

LEMMA LaterIs ==
  ASSUME NEW a \in Ticks, NEW n \in Ticks
  PROVE  /\ Later(a, n) \in Ticks
         /\ Later(a, n) = IF a + n <= portMAX_DELAY THEN a + n ELSE a + n - portMAX_DELAY - 1
<1>1. PICK max \in Nat \ {0} : max = portMAX_DELAY BY TickAssumption
<1>2. PICK m \in Nat \ {0} : m = max + 1 OBVIOUS
<1>3. a \in 0 .. max /\ n \in 0 .. max BY <1>1 DEF Ticks
<1>4. PICK s \in 0 .. 2 * m : s = a + n BY <1>2, <1>3
<1>5. Later(a, n) = s % m BY <1>1, <1>2, <1>4 DEF Later
<1>6. s % m = Round(s, m) BY <1>2, <1>4, RoundIs
<1>7. Later(a, n) \in Ticks BY <1>3, TicksAre
<1> QED BY <1>1, <1>2, <1>3, <1>4, <1>5, <1>6, <1>7 DEF Round

(* Ticks that pass count down what is left, and add up.                    *)
LEMMA LessIs ==
  ASSUME NEW n \in Nat, NEW m \in Nat, NEW p \in Nat
  PROVE  Less(n, m) \in Nat /\ Less(Less(n, m), p) = Less(n, m + p) /\ Less(n, 0) = n
         /\ Less(0, m) = 0 /\ (Less(n, m) > 0 => n > 0)
BY DEF Less

LEMMA LaterTwice ==
  ASSUME NEW a \in Ticks, NEW n \in Ticks, NEW m \in Ticks, n + m \in Ticks
  PROVE  Later(Later(a, n), m) = Later(a, n + m) /\ Later(a, 0) = a
         /\ Elapsed(a, Later(a, n)) = n
<1>1. PICK max \in Nat \ {0} : max = portMAX_DELAY BY TickAssumption
<1>2. a \in 0 .. max /\ n \in 0 .. max /\ m \in 0 .. max /\ n + m \in 0 .. max /\ 0 \in Ticks
  BY <1>1, TicksAre DEF Ticks
<1>3. PICK b \in Ticks : b = Later(a, n) /\ b = IF a + n <= max THEN a + n ELSE a + n - max - 1
  BY <1>1, LaterIs
<1>4. b \in 0 .. max BY <1>1, <1>3 DEF Ticks
<1>5. Later(b, m) = IF b + m <= max THEN b + m ELSE b + m - max - 1 BY <1>1, LaterIs
<1>6. Later(a, n + m) = IF a + (n + m) <= max THEN a + (n + m) ELSE a + (n + m) - max - 1
  BY <1>1, LaterIs
<1>7. Later(a, 0) = a BY <1>1, <1>2, LaterIs
<1>8. Elapsed(a, b) = IF b >= a THEN b - a ELSE b - a + max + 1 BY <1>1, ElapsedIs
<1> QED BY <1>2, <1>3, <1>4, <1>5, <1>6, <1>7, <1>8

-----------------------------------------------------------------------------
(* The delayed lists *)

\* What is left of the time that a task sleeps.
Rest(k, t) == IF t \in Sleeping(k) THEN Elapsed(k.tick, k.wake[t]) ELSE 0

\* Between two ticks: the delayed lists are in order, who is in the first is woken
\* before the count wraps, who is in the second after it has, and
\* xNextTaskUnblockTime is not too late.
InOrder(k) == Sorted(k.delayed, k.wake) /\ Sorted(k.overflowed, k.wake)
InTime(k) ==
  /\ InOrder(k)
  /\ \A t \in ToSet(k.delayed) : k.tick < k.wake[t] /\ k.unblock <= k.wake[t]
  /\ \A t \in ToSet(k.overflowed) : k.wake[t] < k.tick

\* Who waits for an event, or was given it while the scheduler was suspended.
Awaits(k, t) == Listed(k, t) \/ t \in ToSet(k.pending)

\* l is k when n ticks have passed, and some that await an event have been woken.
Aged(l, k, n) ==
  /\ InTime(l) /\ l.tick = Later(k.tick, n)
  /\ \A t : Awaits(l, t) => Awaits(k, t)
  /\ \A t : Rest(l, t) = Less(Rest(k, t), n) \/ (Rest(l, t) = 0 /\ Awaits(k, t))

LEMMA RestIs ==
  ASSUME NEW k \in Kernels, NEW t
  PROVE  /\ Rest(k, t) \in Ticks /\ Rest(k, t) \in Nat
         /\ t \in Sleeping(k) => t \in Task /\ k.wake[t] \in Ticks
         /\ InTime(k) => (Rest(k, t) > 0 <=> t \in Sleeping(k))
<1>1. /\ k.tick \in Ticks /\ k.wake \in [Tasks -> Ticks] /\ k.delayed \in Seq(Task)
      /\ k.overflowed \in Seq(Task)
  BY DEF Kernels
<1>2. t \in Sleeping(k) => t \in Task BY <1>1, ToSetOf DEF Sleeping
<1>3. t \in Sleeping(k) => k.wake[t] \in Ticks BY <1>1, <1>2, PrioritiesAre
<1>4. Rest(k, t) \in Ticks
  <2>1. CASE t \in Sleeping(k)
    <3>1. k.tick \in Int /\ k.wake[t] \in Int BY <1>1, <1>3, <2>1, TicksAre
    <3> QED BY <2>1, <3>1, TicksAre DEF Rest
  <2>2. CASE t \notin Sleeping(k) BY <2>2, TicksAre DEF Rest
  <2> QED BY <2>1, <2>2
<1>5. Rest(k, t) \in Nat BY <1>4, TicksAre
<1>6. ASSUME InTime(k), t \in Sleeping(k) PROVE Rest(k, t) > 0
  <2>1. PICK max \in Nat \ {0} : max = portMAX_DELAY BY TickAssumption
  <2>2. PICK a \in Ticks, b \in Ticks : a = k.tick /\ b = k.wake[t] BY <1>1, <1>3, <1>6
  <2>3. a \in 0 .. max /\ b \in 0 .. max BY <2>1, <2>2 DEF Ticks
  <2>4. a < b \/ b < a BY <1>6, <2>2 DEF InTime, Sleeping
  <2>5. Rest(k, t) = IF b >= a THEN b - a ELSE b - a + max + 1
    BY <1>6, <2>1, <2>2, ElapsedIs DEF Rest
  <2> QED BY <2>3, <2>4, <2>5
<1>7. t \notin Sleeping(k) => Rest(k, t) = 0 BY DEF Rest
<1> QED BY <1>2, <1>3, <1>4, <1>5, <1>6, <1>7

\* Nothing that has to do with time changes.
SameTimes(l, k) ==
  /\ l.delayed = k.delayed /\ l.overflowed = k.overflowed /\ l.wake = k.wake
  /\ l.tick = k.tick /\ l.unblock = k.unblock

LEMMA SameTimesIs ==
  ASSUME NEW k, NEW l, SameTimes(l, k)
  PROVE  /\ InTime(k) => InTime(l)
         /\ InOrder(k) => InOrder(l)
         /\ \A t : Rest(l, t) = Rest(k, t)
         /\ Sleeping(l) = Sleeping(k)
BY DEF SameTimes, InTime, InOrder, Rest, Sleeping

LEMMA SameAged ==
  ASSUME NEW k \in Kernels, NEW l, InTime(k), SameTimes(l, k),
         \A t : Awaits(l, t) => Awaits(k, t)
  PROVE  Aged(l, k, 0)
<1>1. \A t : Rest(l, t) = Less(Rest(k, t), 0)
  <2>1. \A t : Rest(k, t) \in Nat BY RestIs
  <2>2. \A n \in Nat : Less(n, 0) = n BY LessIs
  <2> QED BY <2>1, <2>2, SameTimesIs
<1>2. k.tick \in Ticks /\ 0 \in Ticks /\ 0 + 0 \in Ticks BY TicksAre DEF Kernels
<1>3. Later(k.tick, 0) = k.tick BY <1>2, LaterTwice
<1> QED BY <1>1, <1>3, SameTimesIs DEF Aged, SameTimes

LEMMA AgedTwice ==
  ASSUME NEW k \in Kernels, NEW l \in Kernels, NEW m \in Kernels, NEW n \in Ticks,
         NEW p \in Ticks, n + p \in Ticks, Aged(l, k, n), Aged(m, l, p)
  PROVE  Aged(m, k, n + p)
<1>1. \A t : Awaits(m, t) => Awaits(k, t) BY DEF Aged
<1>2. m.tick = Later(k.tick, n + p)
  <2>1. k.tick \in Ticks BY DEF Kernels
  <2> QED BY <2>1, LaterTwice DEF Aged
<1>3. ASSUME NEW t
      PROVE  Rest(m, t) = Less(Rest(k, t), n + p) \/ (Rest(m, t) = 0 /\ Awaits(k, t))
  <2>1. PICK a \in Nat, b \in Nat, c \in Nat : a = Rest(k, t) /\ b = Rest(l, t) /\ c = Rest(m, t)
    BY RestIs
  <2>2. n \in Nat /\ p \in Nat BY TicksAre
  <2>3. b = Less(a, n) \/ (b = 0 /\ Awaits(k, t)) BY <2>1 DEF Aged
  <2>4. c = Less(b, p) \/ (c = 0 /\ Awaits(l, t)) BY <2>1 DEF Aged
  <2>5. Awaits(l, t) => Awaits(k, t) BY DEF Aged
  <2>6. Less(Less(a, n), p) = Less(a, n + p) /\ Less(0, p) = 0 BY <2>2, LessIs
  <2> QED BY <2>1, <2>3, <2>4, <2>5, <2>6
<1> QED BY <1>1, <1>2, <1>3 DEF Aged

\* A task has left the delayed lists, if it was in one.
Roused(l, k, t) ==
  /\ l.tick = k.tick /\ l.unblock = k.unblock
  /\ ToSet(l.delayed) = ToSet(k.delayed) \ {t}
  /\ ToSet(l.overflowed) = ToSet(k.overflowed) \ {t}
  /\ \A u \in Tasks : u # t => l.wake[u] = k.wake[u]
  /\ InOrder(k) => InOrder(l)

LEMMA LacksSorted ==
  ASSUME NEW sub, NEW list, NEW t, Lacks(sub, list, t), NEW value, NEW wake,
         ToSet(list) \subseteq Tasks, Sorted(list, value),
         \A u \in Tasks : u # t => wake[u] = value[u]
  PROVE  Sorted(sub, wake)
<1>1. ASSUME NEW i \in DOMAIN sub, NEW j \in DOMAIN sub, i < j
      PROVE  wake[sub[i]] <= wake[sub[j]]
  <2>1. PICK a \in DOMAIN list, b \in DOMAIN list :
          a < b /\ sub[i] = list[a] /\ sub[j] = list[b]
    BY <1>1 DEF Lacks
  <2>2. sub[i] \in ToSet(sub) /\ sub[j] \in ToSet(sub) BY DEF ToSet
  <2>3. sub[i] # t /\ sub[j] # t /\ sub[i] \in Tasks /\ sub[j] \in Tasks BY <2>2 DEF Lacks
  <2>4. value[list[a]] <= value[list[b]] BY <2>1 DEF Sorted
  <2> QED BY <2>1, <2>3, <2>4
<1> QED BY <1>1 DEF Sorted

LEMMA UnlistRouses ==
  ASSUME NEW k \in Kernels, IsInjective(k.delayed), IsInjective(k.overflowed), NEW t \in Task
  PROVE  Roused(Unlist(k, t), k, t)
<1>1. PICK l : l = Unlist(k, t) OBVIOUS
<1>2. PICK delayed : delayed = Without(k.delayed, t) OBVIOUS
<1>3. PICK overflowed : overflowed = Without(k.overflowed, t) OBVIOUS
<1>4. PICK wake : wake = [k.wake EXCEPT ![t] = 0] OBVIOUS
<1>5. /\ l.delayed = delayed /\ l.overflowed = overflowed /\ l.wake = wake
      /\ l.tick = k.tick /\ l.unblock = k.unblock
  BY <1>1, <1>2, <1>3, <1>4 DEF Unlist, Kernels
<1>6. k.delayed \in Seq(Task) /\ k.overflowed \in Seq(Task) BY DEF Kernels
<1>7. Lacks(delayed, k.delayed, t) /\ Lacks(overflowed, k.overflowed, t)
  BY <1>2, <1>3, <1>6, WithoutIs
<1>8. \A u \in Tasks : u # t => wake[u] = k.wake[u] BY <1>4 DEF Kernels
<1>9. ToSet(k.delayed) \subseteq Tasks /\ ToSet(k.overflowed) \subseteq Tasks
  BY <1>6, ToSetOf, PrioritiesAre
<1>10. InOrder(k) => InOrder(l) BY <1>5, <1>7, <1>8, <1>9, LacksSorted DEF InOrder
<1> QED BY <1>1, <1>5, <1>7, <1>8, <1>10 DEF Roused, Lacks

LEMMA RousedIs ==
  ASSUME NEW k \in Kernels, NEW l, NEW t, Roused(l, k, t)
  PROVE  /\ InTime(k) => InTime(l)
         /\ Sleeping(l) = Sleeping(k) \ {t} /\ Rest(l, t) = 0
         /\ \A u : u # t => Rest(l, u) = Rest(k, u)
<1>1. Sleeping(l) = Sleeping(k) \ {t} BY DEF Sleeping, Roused
<1>2. ASSUME NEW u, u # t PROVE Rest(l, u) = Rest(k, u)
  <2>1. u \in Sleeping(k) => u \in Tasks BY RestIs, PrioritiesAre
  <2> QED BY <1>1, <1>2, <2>1 DEF Rest, Roused
<1>3. Rest(l, t) = 0 BY <1>1 DEF Rest
<1>4. ASSUME InTime(k) PROVE InTime(l)
  <2>1. InOrder(l) BY <1>4 DEF InTime, Roused
  <2>2. ASSUME NEW u \in ToSet(l.delayed) PROVE l.tick < l.wake[u] /\ l.unblock <= l.wake[u]
    <3>1. u \in ToSet(k.delayed) /\ u # t /\ u \in Tasks
      BY RestIs, PrioritiesAre DEF Roused, Sleeping
    <3>2. k.tick < k.wake[u] /\ k.unblock <= k.wake[u] BY <1>4, <3>1 DEF InTime
    <3> QED BY <3>1, <3>2 DEF Roused
  <2>3. ASSUME NEW u \in ToSet(l.overflowed) PROVE l.wake[u] < l.tick
    <3>1. u \in ToSet(k.overflowed) /\ u # t /\ u \in Tasks
      BY RestIs, PrioritiesAre DEF Roused, Sleeping
    <3>2. k.wake[u] < k.tick BY <1>4, <3>1 DEF InTime
    <3> QED BY <3>1, <3>2 DEF Roused
  <2> QED BY <2>1, <2>2, <2>3 DEF InTime
<1> QED BY <1>1, <1>2, <1>3, <1>4

LEMMA RousedSame ==
  ASSUME NEW k, NEW l, NEW m, NEW t, Roused(l, k, t), SameTimes(m, l)
  PROVE  Roused(m, k, t)
BY DEF Roused, SameTimes, InOrder

LEMMA SameRoused ==
  ASSUME NEW k, NEW l, NEW m, NEW t, SameTimes(l, k), Roused(m, l, t)
  PROVE  Roused(m, k, t)
BY DEF Roused, SameTimes, InOrder

LEMMA RousedAged ==
  ASSUME NEW k \in Kernels, NEW l, NEW t, InTime(k), Roused(l, k, t), Awaits(k, t),
         \A u : Awaits(l, u) => Awaits(k, u)
  PROVE  Aged(l, k, 0)
<1>1. /\ InTime(l) /\ Rest(l, t) = 0 /\ \A u : u # t => Rest(l, u) = Rest(k, u)
  BY RousedIs
<1>2. \A u : Rest(k, u) = Less(Rest(k, u), 0)
  <2>1. \A u : Rest(k, u) \in Nat BY RestIs
  <2>2. \A n \in Nat : Less(n, 0) = n BY LessIs
  <2> QED BY <2>1, <2>2
<1>3. k.tick \in Ticks /\ 0 \in Ticks /\ 0 + 0 \in Ticks BY TicksAre DEF Kernels
<1>4. Later(k.tick, 0) = k.tick BY <1>3, LaterTwice
<1>5. l.tick = k.tick BY DEF Roused
<1>6. \A u : Rest(l, u) = Less(Rest(k, u), 0) \/ (Rest(l, u) = 0 /\ Awaits(k, u))
  BY <1>1, <1>2
<1> QED BY <1>1, <1>4, <1>5, <1>6 DEF Aged

-----------------------------------------------------------------------------
(* Who is woken by an event, and who is not *)

LEMMA AddToReadyTimes ==
  ASSUME NEW k \in Kernels, NEW t
  PROVE  SameTimes(AddToReady(k, t), k)
<1>1. PICK ready : ready = [k.ready EXCEPT ![k.priority[t]] = Append(@, t)] OBVIOUS
<1>2. AddToReady(k, t) = [k EXCEPT !.ready = ready] BY <1>1 DEF AddToReady
<1> QED BY <1>2 DEF SameTimes, Kernels

LEMMA ReadyRouses ==
  ASSUME NEW k \in Kernels, RingsInv(k), IsInjective(k.delayed), IsInjective(k.overflowed),
         NEW t \in Task
  PROVE  Roused(AddToReady(Unlist(k, t), t), k, t)
<1>1. PICK m : m = Unlist(k, t) OBVIOUS
<1>2. m \in Kernels BY <1>1, UnlistIs
<1>3. Roused(m, k, t) BY <1>1, UnlistRouses
<1>4. SameTimes(AddToReady(m, t), m) BY <1>2, AddToReadyTimes
<1> QED BY <1>1, <1>3, <1>4, RousedSame

LEMMA SelectTimes ==
  ASSUME NEW k \in Kernels, RingsInv(k)
  PROVE  SameTimes(SelectHighest(k), k)
<1>1. PICK l : l = SelectHighest(k) OBVIOUS
<1>2. l = [k EXCEPT !.ready = l.ready, !.current = l.current] BY <1>1, SelectIs
<1> QED BY <1>1, <1>2 DEF SameTimes, Kernels

LEMMA PendSVTimes ==
  ASSUME NEW k \in Kernels, ListsInv(k)
  PROVE  SameTimes(PendSV(k), k)
<1>1. PICK l : l = PendSV(k) OBVIOUS
<1>2. k.pendsv \in BOOLEAN /\ k.suspended \in BOOLEAN BY DEF Kernels
<1>3. CASE ~k.pendsv
  <2>1. l = k BY <1>1, <1>3 DEF PendSV
  <2> QED BY <1>1, <2>1 DEF SameTimes
<1>4. CASE k.pendsv /\ k.suspended
  <2>1. l = [k EXCEPT !.pendsv = FALSE, !.yield = TRUE]
    BY <1>1, <1>4 DEF PendSV, vTaskSwitchContext
  <2> QED BY <1>1, <2>1 DEF SameTimes, Kernels
<1>5. CASE k.pendsv /\ ~k.suspended
  <2>1. PICK m : m = [k EXCEPT !.pendsv = FALSE, !.yield = FALSE] OBVIOUS
  <2>2. m \in Kernels /\ Alike(m, k) /\ SameTimes(m, k) BY <2>1 DEF Kernels, Alike, SameTimes
  <2>3. RingsInv(m) BY <2>2, AlikeLists DEF ListsInv
  <2>4. l = SelectHighest(m) BY <1>1, <1>5, <2>1 DEF PendSV, vTaskSwitchContext
  <2>5. SameTimes(l, m) BY <2>2, <2>3, <2>4, SelectTimes
  <2> QED BY <1>1, <2>2, <2>5 DEF SameTimes
<1> QED BY <1>2, <1>3, <1>4, <1>5

(* A switch changes nothing that waits.                                    *)
LEMMA PendSVAges ==
  ASSUME NEW k \in Kernels, ListsInv(k), InTime(k), k.suspended \/ k.pendsv \/ Running(k)
  PROVE  Aged(PendSV(k), k, 0)
<1>1. PICK l : l = PendSV(k) OBVIOUS
<1>2. SameTimes(l, k) BY <1>1, PendSVTimes
<1>3. Steady(l, k) BY <1>1, PendSVIs
<1>4. \A t : Awaits(l, t) => Awaits(k, t) BY <1>3 DEF Awaits, Listed, Steady
<1> QED BY <1>1, <1>2, <1>4, SameAged

\* What is woken was awaited, or is put by.
LEMMA WokenAwaits ==
  ASSUME NEW k \in Kernels, ListsInv(k), NEW list \in Events, k.events[list] # <<>>,
         NEW m, Woken(m, k, list), NEW t, Awaits(m, t)
  PROVE  Awaits(k, t)
<1>1. PICK first : first = k.events[list][1] OBVIOUS
<1>2. /\ first \in Task /\ Listed(k, first)
      /\ ToSet(Tail(k.events[list])) = ToSet(k.events[list]) \ {first}
  BY <1>1, FirstIs DEF Lacks
<1>3. \A other \in Events :
        m.events[other] = IF other = list THEN Tail(k.events[list]) ELSE k.events[other]
  BY DEF Woken, Kernels
<1>4. Listed(m, t) => Listed(k, t) BY <1>2, <1>3 DEF Listed
<1>5. k.pending \in Seq(Task) BY DEF Kernels
<1>6. ToSet(Append(k.pending, first)) = ToSet(k.pending) \cup {first}
  BY <1>2, <1>5, FirstIs, <1>1, AppendIs DEF ListsInv, WaitsInv
<1>7. t \in ToSet(m.pending) => Awaits(k, t) BY <1>1, <1>2, <1>6 DEF Woken, Awaits
<1> QED BY <1>4, <1>7 DEF Awaits

LEMMA RemoveAges ==
  ASSUME NEW k \in Kernels, ListsInv(k), InTime(k), NEW list \in Events, k.events[list] # <<>>
  PROVE  /\ Aged(RemoveFromEventList(k, list), k, 0)
         /\ k.suspended => SameTimes(RemoveFromEventList(k, list), k)
<1>1. PICK t \in Task : t = k.events[list][1] /\ Listed(k, t)
  BY FirstIs
<1>2. PICK m : m = RemoveFromEventList(k, list) OBVIOUS
<1>3. Woken(m, k, list) BY <1>2, RemoveIs
<1>4. \A u : Awaits(m, u) => Awaits(k, u) BY <1>3, WokenAwaits
<1>5. PICK events : events = [k.events EXCEPT ![list] = Tail(@)] OBVIOUS
<1>6. PICK yield : yield = (k.yield \/ k.priority[t] > k.priority[k.current]) OBVIOUS
<1>7. PICK out : out = [k EXCEPT !.events = events, !.yield = yield] OBVIOUS
<1>8. m = IF k.suspended THEN [out EXCEPT !.pending = Append(@, t)]
                         ELSE AddToReady(Unlist(out, t), t)
  BY <1>1, <1>2, <1>5, <1>6, <1>7 DEF RemoveFromEventList, Kernels
<1>9. yield \in BOOLEAN /\ events \in [Events -> Seq(Task)]
  <2>1. Tail(k.events[list]) \in Seq(Task) BY FirstIs
  <2> QED BY <1>5, <1>6, <2>1 DEF Kernels
<1>10. /\ out \in Kernels /\ SameTimes(out, k) /\ out.ready = k.ready
       /\ out.priority = k.priority
  BY <1>7, <1>9 DEF Kernels, SameTimes
<1>11. CASE k.suspended
  <2>1. m = [out EXCEPT !.pending = Append(@, t)] BY <1>8, <1>11
  <2>2. SameTimes(m, k) BY <1>10, <2>1 DEF Kernels, SameTimes
  <2> QED BY <1>2, <1>4, <2>2, SameAged
<1>12. CASE ~k.suspended
  <2>1. RingsInv(k) /\ IsInjective(k.delayed) /\ IsInjective(k.overflowed)
    BY DEF ListsInv, WaitsInv
  <2>2. ReadyTasks(out) = ReadyTasks(k) BY <1>10 DEF ReadyTasks
  <2>3. RingsInv(out) /\ IsInjective(out.delayed) /\ IsInjective(out.overflowed)
    BY <1>10, <2>1, <2>2 DEF RingsInv, SameTimes
  <2>4. Roused(m, out, t) BY <1>8, <1>10, <1>12, <2>3, ReadyRouses
  <2>5. Roused(m, k, t) BY <1>10, <2>4, SameRoused
  <2>6. Awaits(k, t) BY <1>1 DEF Awaits
  <2> QED BY <1>2, <1>4, <1>12, <2>5, <2>6, RousedAged
<1> QED BY <1>11, <1>12

\* What differs in neither lists nor times is as old.
LEMMA AlikeAged ==
  ASSUME NEW k, NEW l, NEW m, NEW n, Aged(l, k, n), SameTimes(m, l),
         m.events = l.events, m.pending = l.pending
  PROVE  Aged(m, k, n)
<1>1. \A t : Awaits(m, t) <=> Awaits(l, t) BY DEF Awaits, Listed
<1> QED BY <1>1, SameTimesIs DEF Aged, SameTimes

LEMMA WakeAges ==
  ASSUME NEW k \in Kernels, ListsInv(k), InTime(k), NEW list \in Events
  PROVE  Aged(Wake(k, list), k, 0)
<1>1. CASE k.events[list] = <<>>
  <2>1. Wake(k, list) = k BY <1>1 DEF Wake
  <2>2. SameTimes(k, k) BY DEF SameTimes
  <2> QED BY <2>1, <2>2, SameAged
<1>2. CASE k.events[list] # <<>>
  <2>1. PICK out : out = RemoveFromEventList(k, list) OBVIOUS
  <2>2. Aged(out, k, 0) BY <1>2, <2>1, RemoveAges
  <2>3. out \in Kernels BY <1>2, <2>1, RemoveIs DEF Woken
  <2>4. PICK pendsv : Wake(k, list) = [out EXCEPT !.pendsv = pendsv]
    BY <1>2, <2>1 DEF Wake
  <2>5. PICK m : m = [out EXCEPT !.pendsv = pendsv] OBVIOUS
  <2>6. SameTimes(m, out) /\ m.events = out.events /\ m.pending = out.pending
    BY <2>3, <2>5 DEF Kernels, SameTimes
  <2> QED BY <2>2, <2>4, <2>5, <2>6, AlikeAged
<1> QED BY <1>1, <1>2

LEMMA DrainOneAges ==
  ASSUME NEW k \in Kernels, ListsInv(k), InTime(k), NEW list \in Events
  PROVE  Aged(DrainOne(k, list), k, 0)
<1>1. CASE k.events[list] = <<>>
  <2>1. DrainOne(k, list) = k BY <1>1 DEF DrainOne
  <2>2. SameTimes(k, k) BY DEF SameTimes
  <2> QED BY <2>1, <2>2, SameAged
<1>2. CASE k.events[list] # <<>>
  <2>1. PICK out : out = RemoveFromEventList(k, list) OBVIOUS
  <2>2. Aged(out, k, 0) BY <1>2, <2>1, RemoveAges
  <2>3. out \in Kernels BY <1>2, <2>1, RemoveIs DEF Woken
  <2>4. PICK yield : DrainOne(k, list) = [out EXCEPT !.yield = yield]
    BY <1>2, <2>1 DEF DrainOne
  <2>5. PICK m : m = [out EXCEPT !.yield = yield] OBVIOUS
  <2>6. SameTimes(m, out) /\ m.events = out.events /\ m.pending = out.pending
    BY <2>3, <2>5 DEF Kernels, SameTimes
  <2> QED BY <2>2, <2>4, <2>5, <2>6, AlikeAged
<1> QED BY <1>1, <1>2

\* What DrainAges carries from one round to the next.
DrainKernels == {k \in Kernels : ListsInv(k) /\ InTime(k) /\ k.suspended}

LEMMA DrainKeeps ==
  ASSUME NEW k \in DrainKernels, NEW list \in Events
  PROVE  DrainOne(k, list) \in DrainKernels /\ Aged(DrainOne(k, list), k, 0)
<1>1. k \in Kernels /\ ListsInv(k) /\ InTime(k) /\ k.suspended BY DEF DrainKernels
<1>2. Aged(DrainOne(k, list), k, 0) BY <1>1, DrainOneAges
<1>3. Drained(k, k, list) BY <1>1 DEF Drained
<1>4. Drained(DrainOne(k, list), k, list) BY <1>1, <1>3, DrainRoundIs
<1> QED BY <1>2, <1>4 DEF DrainKernels, Drained, Aged

(* prvUnlockQueue leaves the waits as they were but for those it wakes.    *)
LEMMA DrainAges ==
  ASSUME NEW k \in DrainKernels, NEW list \in Events, NEW lock \in Nat
  PROVE  Drain(k, list, lock) \in DrainKernels /\ Aged(Drain(k, list, lock), k, 0)
<1> DEFINE step == [x \in DrainKernels \X (1 .. lock) |-> DrainOne(x[1], list)]
<1>1. step \in [DrainKernels \X (1 .. lock) -> DrainKernels] BY DrainKeeps
<1>2. \A l \in DrainKernels : \A i \in 1 .. lock : step[<<l, i>>] = DrainOne(l, list) OBVIOUS
<1> HIDE DEF step
<1>3. PICK f \in [0 .. lock -> DrainKernels] : Loops(f, lock, k, step) BY <1>1, LoopRuns
<1>4. f = [i \in 0 .. lock |-> IF i = 0 THEN k ELSE DrainOne(f[i - 1], list)]
  <2>1. ASSUME NEW i \in 0 .. lock
        PROVE  f[i] = IF i = 0 THEN k ELSE DrainOne(f[i - 1], list)
    <3>1. i # 0 => i \in 1 .. lock /\ i - 1 \in 0 .. lock OBVIOUS
    <3>2. i # 0 => f[i - 1] \in DrainKernels BY <1>3, <3>1
    <3>3. f[i] = IF i = 0 THEN k ELSE step[<<f[i - 1], i>>] BY <1>3 DEF Loops
    <3> QED BY <1>2, <3>1, <3>2, <3>3
  <2>2. f = [i \in 0 .. lock |-> f[i]] BY <1>3
  <2> QED BY <2>1, <2>2
<1>5. PICK out : out = Draining(k, list, lock) OBVIOUS
<1>6. out = [i \in 0 .. lock |-> IF i = 0 THEN k ELSE DrainOne(out[i - 1], list)]
  BY <1>4, <1>5, Zenon DEF Draining
<1>7. \A i \in 0 .. lock : out[i] = IF i = 0 THEN k ELSE DrainOne(out[i - 1], list)
  BY <1>6
<1> DEFINE Good == {i \in 0 .. lock : out[i] \in DrainKernels /\ Aged(out[i], k, 0)}
<1>8. k \in Kernels /\ ListsInv(k) /\ InTime(k) BY DEF DrainKernels
<1>9. 0 \in Good
  <2>1. 0 \in 0 .. lock OBVIOUS
  <2>2. out[0] = k BY <1>7, <2>1
  <2>3. SameTimes(k, k) BY DEF SameTimes
  <2>4. Aged(k, k, 0) BY <1>8, <2>3, SameAged
  <2> QED BY <2>1, <2>2, <2>4
<1>10. ASSUME NEW i \in 1 .. lock, i - 1 \in Good PROVE i \in Good
  <2>1. PICK l : l = out[i - 1] OBVIOUS
  <2>2. PICK m : m = out[i] OBVIOUS
  <2>3. m = DrainOne(l, list) BY <1>7, <2>1, <2>2
  <2>4. l \in DrainKernels /\ Aged(l, k, 0) BY <1>10, <2>1
  <2>5. m \in DrainKernels /\ Aged(m, l, 0) BY <2>3, <2>4, DrainKeeps
  <2>6. l \in Kernels /\ m \in Kernels /\ 0 \in Ticks /\ 0 + 0 = 0
    BY <2>4, <2>5, TicksAre DEF DrainKernels
  <2>7. Aged(m, k, 0 + 0) BY <1>8, <2>4, <2>5, <2>6, AgedTwice
  <2> QED BY <2>2, <2>5, <2>6, <2>7
<1>11. lock \in Good
  <2> HIDE DEF Good
  <2> QED BY <1>9, <1>10, Rounds
<1>12. Drain(k, list, lock) = out[lock] BY <1>5 DEF Drain, Draining
<1> QED BY <1>11, <1>12

-----------------------------------------------------------------------------
(* A priority that changes wakes no one *)

LEMMA SetPriorityAges ==
  ASSUME NEW k \in Kernels, ListsInv(k), InTime(k), NEW t \in Task, NEW p \in Priorities,
         ~Listed(k, t)
  PROVE  Aged(SetPriority(k, t, p), k, 0)
<1>1. t \in Tasks /\ k.priority \in [Tasks -> Priorities] BY PrioritiesAre DEF Kernels
<1>2. PICK priority : priority = [k.priority EXCEPT ![t] = p] OBVIOUS
<1>3. priority \in [Tasks -> Priorities] BY <1>1, <1>2
<1>4. PICK l : l = SetPriority(k, t, p) OBVIOUS
<1>5. RingsInv(k) /\ IsInjective(k.delayed) /\ IsInjective(k.overflowed)
  BY DEF ListsInv, WaitsInv
<1>6. l.events = k.events /\ l.pending = k.pending BY <1>4, SetPriorityIs
<1>7. \A u : Awaits(l, u) => Awaits(k, u) BY <1>6 DEF Awaits, Listed
<1>8. CASE t \in ToSet(k.ready[k.priority[t]])
  <2>1. PICK m : m = Unlist(k, t) OBVIOUS
  <2>2. m \in Kernels /\ Roused(m, k, t) /\ m.priority = k.priority
    BY <1>5, <2>1, UnlistIs, UnlistRouses DEF Keeps
  <2>3. PICK out : out = [m EXCEPT !.priority = priority] OBVIOUS
  <2>4. out \in Kernels /\ SameTimes(out, m) BY <1>3, <2>2, <2>3 DEF Kernels, SameTimes
  <2>5. l = AddToReady(out, t)
    BY <1>2, <1>4, <1>8, <2>1, <2>2, <2>3 DEF SetPriority, Kernels
  <2>6. SameTimes(l, out) BY <2>4, <2>5, AddToReadyTimes
  <2>7. Roused(l, k, t) BY <2>2, <2>4, <2>6, RousedSame
  <2>8. t \notin Sleeping(k)
    <3>1. t \in ReadyTasks(k) BY <1>1, <1>8 DEF ReadyTasks
    <3> QED BY <3>1 DEF ListsInv, WaitsInv
  <2>9. /\ InTime(l) /\ Rest(l, t) = 0 /\ \A u : u # t => Rest(l, u) = Rest(k, u)
    BY <2>7, RousedIs
  <2>10. \A u : Rest(l, u) = Rest(k, u) BY <2>8, <2>9 DEF Rest
  <2>11. \A u : Rest(k, u) = Less(Rest(k, u), 0)
    <3>1. \A u : Rest(k, u) \in Nat BY RestIs
    <3>2. \A n \in Nat : Less(n, 0) = n BY LessIs
    <3> QED BY <3>1, <3>2
  <2>12. l.tick = Later(k.tick, 0)
    <3>1. k.tick \in Ticks /\ 0 \in Ticks /\ 0 + 0 \in Ticks BY TicksAre DEF Kernels
    <3> QED BY <2>7, <3>1, LaterTwice DEF Roused
  <2> QED BY <1>4, <1>7, <2>9, <2>10, <2>11, <2>12 DEF Aged
<1>9. CASE t \notin ToSet(k.ready[k.priority[t]])
  <2>1. l = [k EXCEPT !.priority = priority]
    BY <1>2, <1>4, <1>9 DEF SetPriority, Kernels
  <2>2. SameTimes(l, k) BY <2>1 DEF Kernels, SameTimes
  <2> QED BY <1>4, <1>7, <2>2, SameAged
<1> QED BY <1>8, <1>9

LEMMA InheritAges ==
  ASSUME NEW k \in Kernels, ListsInv(k), InTime(k), NEW holder \in Task,
         k.priority[holder] < k.priority[k.current] => ~Listed(k, holder)
  PROVE  Aged(xTaskPriorityInherit(k, holder), k, 0)
<1>1. PICK p \in Priorities : p = k.priority[k.current] BY DEF Kernels
<1>2. k.priority[holder] < p => Aged(SetPriority(k, holder, p), k, 0)
  BY <1>1, SetPriorityAges
<1>3. SameTimes(k, k) BY DEF SameTimes
<1>4. Aged(k, k, 0) BY <1>3, SameAged
<1> QED BY <1>1, <1>2, <1>4 DEF xTaskPriorityInherit

LEMMA DisinheritAges ==
  ASSUME NEW k \in Kernels, ListsInv(k), InTime(k), NEW t \in Task, ~Listed(k, t),
         k.held[t] > 0
  PROVE  Aged(xTaskPriorityDisinherit(k, t), k, 0)
<1>1. t \in Tasks /\ BasePriority[t] \in Priorities BY PrioritiesAre
<1>2. PICK held : held = [k.held EXCEPT ![t] = @ - 1] OBVIOUS
<1>3. held \in [Tasks -> Nat]
  <2>1. k.held \in [Tasks -> Nat] BY DEF Kernels
  <2>2. PICK less \in Nat : less = k.held[t] - 1 BY <1>1, <2>1
  <2>3. held = [k.held EXCEPT ![t] = less] BY <1>2, <2>2
  <2> QED BY <2>1, <2>2, <2>3
<1>4. PICK out : out = [k EXCEPT !.held = held] OBVIOUS
<1>5. out \in Kernels /\ Alike(out, k) /\ SameTimes(out, k)
  BY <1>3, <1>4 DEF Kernels, Alike, SameTimes
<1>6. ListsInv(out) /\ InTime(out) /\ ~Listed(out, t)
  BY <1>5, AlikeLists, SameTimesIs DEF Alike, Listed
<1>7. \A u : Awaits(out, u) => Awaits(k, u) BY <1>5 DEF Awaits, Listed, Alike
<1>8. Aged(out, k, 0) BY <1>5, <1>7, SameAged
<1>9. PICK l : l = SetPriority(out, t, BasePriority[t]) OBVIOUS
<1>10. Aged(l, out, 0) /\ l \in Kernels BY <1>1, <1>5, <1>6, <1>9, SetPriorityAges, SetPriorityIs
<1>11. 0 \in Ticks /\ 0 + 0 = 0 BY TicksAre
<1>12. Aged(l, k, 0 + 0) BY <1>5, <1>8, <1>10, <1>11, AgedTwice
<1>13. out = [k EXCEPT !.held[t] = @ - 1] BY <1>2, <1>4 DEF Kernels
<1> QED BY <1>8, <1>9, <1>11, <1>12, <1>13 DEF xTaskPriorityDisinherit

-----------------------------------------------------------------------------
(* A task is put to sleep *)

LEMMA SortedAlike ==
  ASSUME NEW list, NEW value, NEW wake, Sorted(list, value),
         \A u \in ToSet(list) : wake[u] = value[u]
  PROVE  Sorted(list, wake)
<1>1. \A i \in DOMAIN list : list[i] \in ToSet(list) BY DEF ToSet
<1> QED BY <1>1 DEF Sorted

\* A wait without limit has no time left.
Allowed(ticks, indefinitely) == IF ticks = portMAX_DELAY /\ indefinitely THEN 0 ELSE ticks

\* l is k with t asleep for n ticks.
Asleep(l, k, t, n) ==
  /\ InTime(l) /\ l.tick = k.tick /\ Rest(l, t) = n
  /\ \A u : u # t => Rest(l, u) = Rest(k, u)

LEMMA LaterSleeps ==
  ASSUME NEW a \in Ticks, NEW n \in Ticks, n > 0, NEW b, b = Later(a, n)
  PROVE  b \in Ticks /\ Elapsed(a, b) = n /\ (b < a \/ a < b) /\ (b < a => ~(a < b))
<1>1. PICK max \in Nat \ {0} : max = portMAX_DELAY BY TickAssumption
<1>2. a \in 0 .. max /\ n \in 0 .. max /\ 0 \in Ticks /\ n + 0 \in Ticks
  BY <1>1, TicksAre DEF Ticks
<1>3. b \in Ticks /\ b = IF a + n <= max THEN a + n ELSE a + n - max - 1
  BY <1>1, LaterIs
<1>4. Elapsed(a, b) = n BY <1>2, LaterTwice
<1> QED BY <1>2, <1>3, <1>4

LEMMA DelaySleeps ==
  ASSUME NEW k \in Kernels, RingsInv(k), IsInjective(k.delayed), IsInjective(k.overflowed),
         NEW t \in Task, t = k.current, InTime(k), NEW ticks \in Ticks, ticks > 0,
         NEW indefinitely \in BOOLEAN
  PROVE  Asleep(Delay(k, ticks, indefinitely), k, t, Allowed(ticks, indefinitely))
<1>1. PICK m : m = Unlist(k, t) OBVIOUS
<1>2. /\ m \in Kernels /\ Roused(m, k, t)
      /\ IsInjective(m.delayed) /\ IsInjective(m.overflowed)
  BY <1>1, UnlistIs, UnlistRouses
<1>3. /\ InTime(m) /\ Sleeping(m) = Sleeping(k) \ {t} /\ Rest(m, t) = 0 /\ m.tick = k.tick
      /\ \A u : u # t => Rest(m, u) = Rest(k, u)
  BY <1>2, RousedIs DEF Roused
<1>4. PICK time : time = Later(k.tick, ticks) OBVIOUS
<1>5. k.tick \in Ticks /\ m.delayed \in Seq(Task) /\ m.overflowed \in Seq(Task)
      /\ m.wake \in [Tasks -> Ticks] /\ m.unblock \in Ticks
  BY <1>2 DEF Kernels
<1>6. /\ time \in Ticks /\ Elapsed(k.tick, time) = ticks
      /\ time < k.tick \/ k.tick < time
      /\ time < k.tick => ~(k.tick < time)
  BY <1>4, <1>5, LaterSleeps
<1>7. PICK wake : wake = [m.wake EXCEPT ![t] = time] OBVIOUS
<1>8. /\ t \in Tasks /\ wake \in [Tasks -> Ticks] /\ wake[t] = time
      /\ \A u \in Tasks : u # t => wake[u] = m.wake[u]
  BY <1>5, <1>6, <1>7, PrioritiesAre
<1>9. PICK out : out = [m EXCEPT !.wake = wake] OBVIOUS
<1>10. /\ out.delayed = m.delayed /\ out.overflowed = m.overflowed /\ out.wake = wake
       /\ out.tick = m.tick /\ out.unblock = m.unblock /\ out \in Kernels
  BY <1>2, <1>8, <1>9 DEF Kernels
<1>11. PICK l : l = Delay(k, ticks, indefinitely) OBVIOUS
<1>12. l = IF ticks = portMAX_DELAY /\ indefinitely THEN m
           ELSE IF time < k.tick THEN [out EXCEPT !.overflowed = Insert(@, t, out.wake)]
           ELSE [out EXCEPT !.delayed = Insert(@, t, out.wake), !.unblock = Min({@, time})]
  BY <1>1, <1>2, <1>4, <1>7, <1>9, <1>11 DEF Delay, Kernels
<1>13. /\ t \notin ToSet(m.delayed) /\ t \notin ToSet(m.overflowed)
       /\ \A u \in ToSet(m.delayed) \cup ToSet(m.overflowed) : u # t /\ u \in Tasks
  <2>1. t \notin ToSet(m.delayed) /\ t \notin ToSet(m.overflowed) BY <1>3 DEF Sleeping
  <2> QED BY <1>5, <2>1, ToSetOf, PrioritiesAre
<1>14. \A u \in ToSet(m.delayed) \cup ToSet(m.overflowed) : wake[u] = m.wake[u]
  BY <1>8, <1>13
<1>15. Sorted(m.delayed, wake) /\ Sorted(m.overflowed, wake)
  BY <1>3, <1>14, SortedAlike DEF InTime, InOrder
<1>16. \A u \in Task : wake[u] \in Int BY <1>8, PrioritiesAre, TicksAre
<1>17. ASSUME ticks = portMAX_DELAY /\ indefinitely
       PROVE  Asleep(l, k, t, Allowed(ticks, indefinitely))
  <2>1. l = m BY <1>12, <1>17
  <2> QED BY <1>3, <1>17, <2>1 DEF Asleep, Allowed
<1>18. ASSUME l.tick = k.tick, l.wake = wake, Sleeping(l) = Sleeping(m) \cup {t},
              InTime(l), ~(ticks = portMAX_DELAY /\ indefinitely)
       PROVE  Asleep(l, k, t, Allowed(ticks, indefinitely))
  <2>1. Rest(l, t) = ticks BY <1>6, <1>8, <1>18 DEF Rest
  <2>2. ASSUME NEW u, u # t PROVE Rest(l, u) = Rest(k, u)
    <3>1. u \in Sleeping(m) => wake[u] = m.wake[u] BY <1>14 DEF Sleeping
    <3>2. Rest(l, u) = Rest(m, u) BY <1>3, <1>18, <2>2, <3>1 DEF Rest
    <3> QED BY <1>3, <2>2, <3>2
  <2> QED BY <1>18, <2>1, <2>2 DEF Asleep, Allowed
<1>19. ASSUME ~(ticks = portMAX_DELAY /\ indefinitely), time < k.tick
       PROVE  Asleep(l, k, t, Allowed(ticks, indefinitely))
  <2>1. PICK list : list = Insert(out.overflowed, t, wake) OBVIOUS
  <2>2. l = [out EXCEPT !.overflowed = list] BY <1>10, <1>12, <1>19, <2>1
  <2>3. ToSet(list) = ToSet(m.overflowed) \cup {t} /\ Sorted(list, wake)
    BY <1>2, <1>5, <1>10, <1>13, <1>15, <1>16, <2>1, InsertIs
  <2>4. /\ l.overflowed = list /\ l.delayed = m.delayed /\ l.wake = wake
        /\ l.tick = k.tick /\ l.unblock = m.unblock
    BY <1>3, <1>10, <2>2 DEF Kernels
  <2>5. Sleeping(l) = Sleeping(m) \cup {t} BY <2>3, <2>4 DEF Sleeping
  <2>6. InTime(l)
    <3>1. InOrder(l) BY <1>15, <2>3, <2>4 DEF InOrder
    <3>2. \A u \in ToSet(l.delayed) : l.tick < l.wake[u] /\ l.unblock <= l.wake[u]
      BY <1>3, <1>14, <2>4 DEF InTime
    <3>3. \A u \in ToSet(l.overflowed) : l.wake[u] < l.tick
      BY <1>3, <1>8, <1>14, <1>19, <2>3, <2>4 DEF InTime
    <3> QED BY <3>1, <3>2, <3>3 DEF InTime
  <2> QED BY <1>18, <1>19, <2>4, <2>5, <2>6
<1>20. ASSUME ~(ticks = portMAX_DELAY /\ indefinitely), ~(time < k.tick)
       PROVE  Asleep(l, k, t, Allowed(ticks, indefinitely))
  <2>1. PICK list : list = Insert(out.delayed, t, wake) OBVIOUS
  <2>2. PICK unblock : unblock = Min({out.unblock, time}) OBVIOUS
  <2>3. l = [out EXCEPT !.delayed = list, !.unblock = unblock]
    BY <1>10, <1>12, <1>20, <2>1, <2>2
  <2>4. ToSet(list) = ToSet(m.delayed) \cup {t} /\ Sorted(list, wake)
    BY <1>2, <1>5, <1>10, <1>13, <1>15, <1>16, <2>1, InsertIs
  <2>5. /\ l.delayed = list /\ l.overflowed = m.overflowed /\ l.wake = wake
        /\ l.tick = k.tick /\ l.unblock = unblock
    BY <1>3, <1>10, <2>3 DEF Kernels
  <2>6. Sleeping(l) = Sleeping(m) \cup {t} BY <2>4, <2>5 DEF Sleeping
  <2>7. unblock <= time /\ unblock <= m.unblock /\ unblock \in Nat /\ m.unblock \in Nat
        /\ time \in Nat
    <3>1. {m.unblock, time} \in SUBSET Nat /\ {m.unblock, time} # {}
      BY <1>5, <1>6, TicksAre
    <3>2. unblock = Min({m.unblock, time}) BY <1>10, <2>2
    <3> QED BY <3>1, <3>2, MinIs
  <2>8. InTime(l)
    <3>1. InOrder(l) BY <1>15, <2>4, <2>5 DEF InOrder
    <3>2. ASSUME NEW u \in ToSet(l.delayed) PROVE l.tick < l.wake[u] /\ l.unblock <= l.wake[u]
      <4>1. CASE u = t BY <1>6, <1>8, <1>20, <2>5, <2>7, <4>1
      <4>2. CASE u # t
        <5>1. u \in ToSet(m.delayed) BY <2>4, <2>5, <4>2
        <5>2. m.tick < m.wake[u] /\ m.unblock <= m.wake[u] BY <1>3, <5>1 DEF InTime
        <5>3. wake[u] = m.wake[u] /\ m.wake[u] \in Nat BY <1>5, <1>13, <1>14, <5>1, TicksAre
        <5> QED BY <1>3, <2>5, <2>7, <5>2, <5>3
      <4> QED BY <4>1, <4>2
    <3>3. \A u \in ToSet(l.overflowed) : l.wake[u] < l.tick
      BY <1>3, <1>14, <2>5 DEF InTime
    <3> QED BY <3>1, <3>2, <3>3 DEF InTime
  <2> QED BY <1>18, <1>20, <2>5, <2>6, <2>8
<1> QED BY <1>11, <1>17, <1>19, <1>20

-----------------------------------------------------------------------------
(* A tick *)

\* While a tick is counted: a time that has come is not yet over.
Near(k) ==
  /\ InOrder(k)
  /\ \A t \in ToSet(k.delayed) : k.tick <= k.wake[t] /\ k.unblock <= k.wake[t]
  /\ \A t \in ToSet(k.overflowed) : k.wake[t] < k.tick

LEMMA OneTickLess ==
  ASSUME NEW a \in Ticks, NEW b \in Ticks, a # b, NEW c, c = Later(a, 1)
  PROVE  /\ c \in Ticks
         /\ Elapsed(c, b) = Less(Elapsed(a, b), 1)
         /\ IF a = portMAX_DELAY THEN c = 0 ELSE c = a + 1
<1>1. PICK max \in Nat \ {0} : max = portMAX_DELAY BY TickAssumption
<1>2. a \in 0 .. max /\ b \in 0 .. max /\ 1 \in Ticks BY <1>1 DEF Ticks
<1>3. c \in Ticks /\ c = IF a + 1 <= max THEN a + 1 ELSE a + 1 - max - 1 BY <1>1, <1>2, LaterIs
<1>4. c \in 0 .. max BY <1>1, <1>3 DEF Ticks
<1>5. Elapsed(a, b) = IF b >= a THEN b - a ELSE b - a + max + 1 BY <1>1, ElapsedIs
<1>6. Elapsed(c, b) = IF b >= c THEN b - c ELSE b - c + max + 1 BY <1>1, <1>3, ElapsedIs
<1> QED BY <1>1, <1>2, <1>3, <1>4, <1>5, <1>6 DEF Less

(* xNextTaskUnblockTime is the first wake time.                            *)
LEMMA ResetUnblockTimes ==
  ASSUME NEW k \in Kernels, InOrder(k)
  PROVE  LET l == ResetUnblock(k)
         IN  /\ l.delayed = k.delayed /\ l.overflowed = k.overflowed /\ l.wake = k.wake
             /\ l.tick = k.tick /\ l.events = k.events /\ l.pending = k.pending
             /\ InOrder(l) /\ \A t \in ToSet(l.delayed) : l.unblock <= l.wake[t]
<1>1. PICK unblock : unblock = IF k.delayed = <<>> THEN portMAX_DELAY ELSE k.wake[k.delayed[1]]
  OBVIOUS
<1>2. PICK l : l = [k EXCEPT !.unblock = unblock] OBVIOUS
<1>3. ResetUnblock(k) = l BY <1>1, <1>2 DEF ResetUnblock
<1>4. /\ l.delayed = k.delayed /\ l.overflowed = k.overflowed /\ l.wake = k.wake
      /\ l.tick = k.tick /\ l.events = k.events /\ l.pending = k.pending
      /\ l.unblock = unblock
  BY <1>2 DEF Kernels
<1>5. InOrder(l) BY <1>4 DEF InOrder
<1>6. ASSUME NEW t \in ToSet(k.delayed) PROVE unblock <= k.wake[t]
  <2>1. k.delayed \in Seq(Task) /\ k.wake \in [Tasks -> Ticks] BY DEF Kernels
  <2>2. PICK i \in DOMAIN k.delayed : t = k.delayed[i] BY <2>1, ToSetOf
  <2>3. DOMAIN k.delayed = 1 .. Len(k.delayed) /\ Len(k.delayed) \in Nat
    BY <2>1, LenProperties
  <2>4. 1 \in DOMAIN k.delayed /\ (i = 1 \/ 1 < i) /\ Len(k.delayed) # 0 BY <2>2, <2>3
  <2>5. k.delayed # <<>> BY <2>1, <2>4, EmptySeq
  <2>6. t \in Tasks /\ k.wake[t] \in Int BY <2>1, ToSetOf, PrioritiesAre, TicksAre
  <2>7. 1 < i => k.wake[k.delayed[1]] <= k.wake[k.delayed[i]] BY <2>4 DEF InOrder, Sorted
  <2> QED BY <1>1, <2>2, <2>4, <2>5, <2>6, <2>7
<1> QED BY <1>3, <1>4, <1>5, <1>6

(* The count goes on, and what is left of each wait is one tick less.      *)
LEMMA AdvanceAges ==
  ASSUME NEW k \in Kernels, InTime(k)
  PROVE  LET on == Advance(k)
         IN  /\ Near(on) /\ on.tick = Later(k.tick, 1)
             /\ on.events = k.events /\ on.pending = k.pending
             /\ \A t : Rest(on, t) = Less(Rest(k, t), 1)
<1>1. PICK max \in Nat \ {0} : max = portMAX_DELAY BY TickAssumption
<1>2. PICK tick : tick = Later(k.tick, 1) OBVIOUS
<1>3. /\ k.tick \in Ticks /\ k.delayed \in Seq(Task) /\ k.overflowed \in Seq(Task)
      /\ k.wake \in [Tasks -> Ticks] /\ k.unblock \in Ticks
  BY DEF Kernels
<1>4. PICK now \in 0 .. max : now = k.tick BY <1>1, <1>3 DEF Ticks
<1>5. tick \in Ticks /\ IF now = max THEN tick = 0 ELSE tick = now + 1
  <2>1. 1 \in Ticks BY <1>1 DEF Ticks
  <2>2. tick \in Ticks /\ tick = IF now + 1 <= max THEN now + 1 ELSE now + 1 - max - 1
    BY <1>1, <1>2, <1>3, <1>4, <2>1, LaterIs
  <2> QED BY <1>4, <2>2
<1>6. \A t \in Sleeping(k) : k.wake[t] \in 0 .. max /\ k.wake[t] \in Ticks /\ k.wake[t] # k.tick
  <2>1. ASSUME NEW t \in Sleeping(k) PROVE k.wake[t] # k.tick
    <3>1. k.tick < k.wake[t] \/ k.wake[t] < k.tick BY DEF InTime, Sleeping
    <3>2. k.wake[t] \in Int /\ k.tick \in Int BY <1>3, RestIs, TicksAre
    <3> QED BY <3>1, <3>2
  <2>2. \A t \in Sleeping(k) : k.wake[t] \in Ticks BY RestIs
  <2> QED BY <1>1, <2>1, <2>2 DEF Ticks
<1>7. PICK next : next = [k EXCEPT !.tick = tick] OBVIOUS
<1>8. PICK turn : turn = [next EXCEPT !.delayed = k.overflowed, !.overflowed = <<>>] OBVIOUS
<1>9. PICK on : on = Advance(k) OBVIOUS
<1>10. on = IF tick # 0 THEN next ELSE ResetUnblock(turn)
  BY <1>2, <1>7, <1>8, <1>9 DEF Advance, Kernels
<1>11. /\ next \in Kernels /\ next.tick = tick /\ next.delayed = k.delayed
       /\ next.overflowed = k.overflowed /\ next.wake = k.wake /\ next.unblock = k.unblock
       /\ next.events = k.events /\ next.pending = k.pending
  BY <1>5, <1>7 DEF Kernels
<1>12. /\ turn \in Kernels /\ turn.tick = tick /\ turn.delayed = k.overflowed
       /\ turn.overflowed = <<>> /\ turn.wake = k.wake
       /\ turn.events = k.events /\ turn.pending = k.pending
  <2>1. <<>> \in Seq(Task) BY EmptySeq
  <2> QED BY <1>8, <1>11, <2>1 DEF Kernels
<1>13. ASSUME Sleeping(on) = Sleeping(k), on.wake = k.wake, on.tick = tick
       PROVE  \A t : Rest(on, t) = Less(Rest(k, t), 1)
  <2> SUFFICES ASSUME NEW t PROVE Rest(on, t) = Less(Rest(k, t), 1) OBVIOUS
  <2>1. CASE t \in Sleeping(k)
    <3>1. k.wake[t] \in Ticks /\ k.wake[t] # k.tick BY <1>6, <2>1
    <3>2. Elapsed(tick, k.wake[t]) = Less(Elapsed(k.tick, k.wake[t]), 1)
      BY <1>2, <1>3, <3>1, OneTickLess
    <3> QED BY <1>13, <2>1, <3>2 DEF Rest
  <2>2. CASE t \notin Sleeping(k) BY <1>13, <2>2 DEF Rest, Less
  <2> QED BY <2>1, <2>2
<1>14. ASSUME now # max
       PROVE  /\ Near(on) /\ on.tick = tick /\ on.events = k.events /\ on.pending = k.pending
              /\ Sleeping(on) = Sleeping(k) /\ on.wake = k.wake
  <2>1. tick = now + 1 BY <1>5, <1>14
  <2>2. on = next BY <1>4, <1>10, <2>1
  <2>3. InOrder(on) BY <1>11, <2>2 DEF InTime, InOrder
  <2>4. \A t \in ToSet(k.delayed) : tick <= k.wake[t] /\ k.unblock <= k.wake[t]
    BY <1>4, <1>6, <2>1 DEF InTime, Sleeping
  <2>5. \A t \in ToSet(k.overflowed) : k.wake[t] < tick
    BY <1>4, <1>6, <2>1 DEF InTime, Sleeping
  <2> QED BY <1>11, <2>2, <2>3, <2>4, <2>5 DEF Near, Sleeping
<1>15. ASSUME now = max
       PROVE  /\ Near(on) /\ on.tick = tick /\ on.events = k.events /\ on.pending = k.pending
              /\ Sleeping(on) = Sleeping(k) /\ on.wake = k.wake
  <2>1. tick = 0 BY <1>5, <1>15
  <2>2. on = ResetUnblock(turn) BY <1>10, <2>1
  <2>3. ToSet(<<>>) = {} /\ Sorted(<<>>, k.wake) BY DEF ToSet, Sorted
  <2>4. InOrder(turn) BY <1>12, <2>3 DEF InTime, InOrder
  <2>5. /\ on.delayed = k.overflowed /\ on.overflowed = <<>> /\ on.wake = k.wake
        /\ on.tick = tick /\ on.events = k.events /\ on.pending = k.pending
        /\ InOrder(on) /\ \A t \in ToSet(on.delayed) : on.unblock <= on.wake[t]
    BY <1>12, <2>2, <2>4, ResetUnblockTimes
  <2>6. ToSet(k.delayed) = {}
    <3>1. ASSUME NEW t \in ToSet(k.delayed) PROVE FALSE
      <4>1. k.wake[t] \in 0 .. max /\ k.tick < k.wake[t] BY <1>6 DEF InTime, Sleeping
      <4> QED BY <1>4, <1>15, <4>1
    <3> QED BY <3>1
  <2>7. Sleeping(on) = Sleeping(k) BY <2>3, <2>5, <2>6 DEF Sleeping
  <2>8. \A t \in ToSet(on.delayed) : tick <= on.wake[t] BY <1>6, <2>1, <2>5 DEF Sleeping
  <2> QED BY <2>3, <2>5, <2>7, <2>8 DEF Near
<1> QED BY <1>2, <1>9, <1>13, <1>14, <1>15

(* The tasks that are due are those whose time has come.                   *)
LEMMA DueSplits ==
  ASSUME NEW k \in Kernels, Near(k), ~(k.tick < k.unblock)
  PROVE  /\ Due(k) \in 0 .. Len(k.delayed)
         /\ \A i \in 1 .. Due(k) : k.wake[k.delayed[i]] = k.tick
         /\ \A i \in DOMAIN k.delayed : i > Due(k) => k.tick < k.wake[k.delayed[i]]
<1>1. k.delayed \in Seq(Task) /\ k.wake \in [Tasks -> Ticks] /\ k.tick \in Ticks
  BY DEF Kernels
<1>2. PICK len \in Nat : len = Len(k.delayed) /\ DOMAIN k.delayed = 1 .. len
  BY <1>1, LenProperties
<1>3. ASSUME NEW i \in 1 .. len
      PROVE  /\ k.wake[k.delayed[i]] \in Int /\ k.tick \in Int
             /\ k.tick <= k.wake[k.delayed[i]]
  <2>1. k.delayed[i] \in ToSet(k.delayed) /\ k.delayed[i] \in Tasks
    BY <1>1, <1>2, ToSetOf, PrioritiesAre
  <2>2. k.wake[k.delayed[i]] \in Ticks BY <1>1, <2>1
  <2> QED BY <1>1, <2>1, <2>2, TicksAre DEF Near
<1> DEFINE S == {n \in 0 .. len : \A i \in 1 .. n : k.wake[k.delayed[i]] <= k.tick}
<1>4. 0 \in S BY <1>2
<1>5. S \in SUBSET Int /\ S \in SUBSET (0 .. len) BY <1>2
<1>6. IsFiniteSet(0 .. len) BY <1>2, FS_Interval
<1>7. PICK n : n = Max(S) OBVIOUS
<1>8. n \in S /\ \A m \in S : m <= n
  <2>1. IsFiniteSet(S)
    <3> HIDE DEF S
    <3> QED BY <1>5, <1>6, FS_Subset
  <2> HIDE DEF S
  <2> QED BY <1>4, <1>5, <1>7, <2>1, MaxIs
<1>9. Due(k) = n BY <1>2, <1>7 DEF Due
<1>10. n \in 0 .. len /\ \A i \in 1 .. n : k.wake[k.delayed[i]] <= k.tick BY <1>8
<1>11. \A i \in 1 .. n : k.wake[k.delayed[i]] = k.tick
  <2> TAKE i \in 1 .. n
  <2>1. i \in 1 .. len BY <1>2, <1>10
  <2>2. k.wake[k.delayed[i]] <= k.tick BY <1>10
  <2> QED BY <1>3, <2>1, <2>2
<1>12. ASSUME n + 1 \in 1 .. len PROVE k.tick < k.wake[k.delayed[n + 1]]
  <2>1. ASSUME k.wake[k.delayed[n + 1]] <= k.tick PROVE FALSE
    <3>1. \A i \in 1 .. n + 1 : i \in 1 .. n \/ i = n + 1 BY <1>10
    <3>2. \A i \in 1 .. n + 1 : k.wake[k.delayed[i]] <= k.tick BY <1>10, <2>1, <3>1
    <3>3. n + 1 \in S BY <1>12, <3>2
    <3>4. n + 1 <= n BY <1>8, <3>3
    <3> QED BY <1>10, <3>4
  <2> QED BY <1>3, <1>12, <2>1
<1>13. ASSUME NEW i \in 1 .. len, i > n PROVE k.tick < k.wake[k.delayed[i]]
  <2>1. n + 1 \in 1 .. len /\ (i = n + 1 \/ n + 1 < i) BY <1>10, <1>13
  <2>2. n + 1 < i => k.wake[k.delayed[n + 1]] <= k.wake[k.delayed[i]]
    BY <1>2, <2>1 DEF Near, InOrder, Sorted
  <2> QED BY <1>3, <1>12, <2>1, <2>2
<1> QED BY <1>2, <1>9, <1>10, <1>11, <1>13

LEMMA ExpireRouses ==
  ASSUME NEW k \in Kernels, ListsInv(k), NEW t \in Task
  PROVE  Roused(Expire(k, t), k, t)
<1>1. PICK m : m = Unlist(k, t) OBVIOUS
<1>2. RingsInv(k) /\ IsInjective(k.delayed) /\ IsInjective(k.overflowed)
  BY DEF ListsInv, WaitsInv
<1>3. m \in Kernels /\ Roused(m, k, t) BY <1>1, <1>2, UnlistIs, UnlistRouses
<1>4. m.events = k.events
  <2>1. m = [k EXCEPT !.ready = m.ready, !.delayed = m.delayed,
                      !.overflowed = m.overflowed, !.wake = m.wake]
    BY <1>1, <1>2, UnlistIs
  <2> QED BY <2>1 DEF Kernels
<1>5. PICK events : events = [list \in Events |-> Without(k.events[list], t)] OBVIOUS
<1>6. ASSUME NEW list \in Events PROVE events[list] \in Seq(Task)
  <2>1. k.events[list] \in Seq(Task) /\ IsInjective(k.events[list])
    BY DEF Kernels, ListsInv, EventsInv
  <2> QED BY <1>5, <2>1, WithoutIs
<1>7. events \in [Events -> Seq(Task)]
  <2>1. DOMAIN events = Events /\ events = [list \in Events |-> events[list]] BY <1>5
  <2> QED BY <1>6, <2>1
<1>8. PICK out : out = [m EXCEPT !.events = events] OBVIOUS
<1>9. Expire(k, t) = AddToReady(out, t)
  <2>1. DOMAIN m.events = Events BY <1>3 DEF Kernels
  <2> QED BY <1>1, <1>3, <1>4, <1>5, <1>8, <2>1 DEF Expire, Kernels
<1>10. out \in Kernels /\ SameTimes(out, m) BY <1>3, <1>7, <1>8 DEF Kernels, SameTimes
<1>11. SameTimes(AddToReady(out, t), out) BY <1>10, AddToReadyTimes
<1> QED BY <1>3, <1>9, <1>10, <1>11, RousedSame

\* The first i that are due have been woken.
Woke(l, on, i) ==
  /\ Wakes(l, on) /\ l.pending = <<>> /\ l.tick = on.tick /\ InOrder(l)
  /\ ToSet(l.delayed) = ToSet(on.delayed) \ {on.delayed[j] : j \in 1 .. i}
  /\ ToSet(l.overflowed) = ToSet(on.overflowed)
  /\ \A u \in Sleeping(l) : l.wake[u] = on.wake[u]
  /\ \A t : Awaits(l, t) => Awaits(on, t)

LEMMA ExpireWakes ==
  ASSUME NEW on \in Kernels, ListsInv(on), on.pending = <<>>, NEW i \in Nat \ {0},
         i \in DOMAIN on.delayed, NEW l, Woke(l, on, i - 1)
  PROVE  Woke(Expire(l, on.delayed[i]), on, i)
<1>1. PICK t \in Task : t = on.delayed[i] /\ t \in ToSet(on.delayed)
  <2>1. on.delayed \in Seq(Task) BY DEF Kernels
  <2> QED BY <2>1, LenProperties DEF ToSet
<1>2. l \in Kernels /\ ListsInv(l) /\ l.pending = <<>> BY DEF Woke, Wakes
<1>3. \A list \in Events : list[1] \in Mutexes => t \notin ToSet(l.events[list])
  BY <1>1 DEF Woke, Wakes, Sleeping, ListsInv, EventsInv
<1>4. PICK m : m = Expire(l, t) OBVIOUS
<1>5. Wakes(m, l) /\ m.pending = <<>> BY <1>2, <1>3, <1>4, ExpireIs
<1>6. Roused(m, l, t) BY <1>2, <1>4, ExpireRouses
<1>7. Wakes(m, on) BY <1>5, WakesAgain DEF Woke
<1>8. m.tick = on.tick /\ InOrder(m) BY <1>6 DEF Woke, Roused
<1>9. ToSet(m.delayed) = ToSet(on.delayed) \ {on.delayed[j] : j \in 1 .. i}
  <2>1. {on.delayed[j] : j \in 1 .. i} = {on.delayed[j] : j \in 1 .. i - 1} \cup {on.delayed[i]}
    <3>1. \A j \in 1 .. i : j \in 1 .. i - 1 \/ j = i OBVIOUS
    <3>2. \A j \in 1 .. i - 1 : j \in 1 .. i OBVIOUS
    <3>3. i \in 1 .. i OBVIOUS
    <3> QED BY <3>1, <3>2, <3>3
  <2> QED BY <1>1, <1>6, <2>1 DEF Woke, Roused
<1>10. ToSet(m.overflowed) = ToSet(on.overflowed)
  <2>1. t \notin ToSet(on.overflowed) BY <1>1 DEF ListsInv, WaitsInv
  <2> QED BY <1>6, <2>1 DEF Woke, Roused
<1>11. ASSUME NEW u \in Sleeping(m) PROVE m.wake[u] = on.wake[u]
  <2>1. Sleeping(m) = Sleeping(l) \ {t} BY <1>2, <1>6, RousedIs
  <2>2. u \in Tasks BY <1>2, <2>1, RestIs, PrioritiesAre
  <2> QED BY <1>6, <2>1, <2>2 DEF Woke, Roused
<1>12. ASSUME NEW u, Awaits(m, u) PROVE Awaits(on, u)
  <2>1. u \notin ToSet(m.pending) BY <1>5 DEF ToSet
  <2>2. Listed(m, u) BY <1>12, <2>1 DEF Awaits
  <2>3. Listed(on, u) BY <1>7, <2>2 DEF Wakes, Listed
  <2> QED BY <2>3 DEF Awaits
<1>13. Woke(m, on, i) BY <1>5, <1>7, <1>8, <1>9, <1>10, <1>11, <1>12 DEF Woke
<1> QED BY <1>1, <1>4, <1>13

LEMMA ExpiredWakes ==
  ASSUME NEW on \in Kernels, ListsInv(on), on.pending = <<>>, InOrder(on)
  PROVE  Woke(Expired(on)[Due(on)], on, Due(on))
<1>1. PICK n : n = Due(on) OBVIOUS
<1>2. n \in Nat /\ \A i \in 1 .. n : i \in DOMAIN on.delayed
  <2>1. on.delayed \in Seq(Task) BY DEF Kernels
  <2>2. Len(on.delayed) \in Nat /\ DOMAIN on.delayed = 1 .. Len(on.delayed)
    BY <2>1, LenProperties
  <2> QED BY <1>1, <2>2, DueIs
<1> DEFINE S == {i \in 0 .. n : \E f \in [0 .. i -> Kernels] :
                   /\ \A j \in 0 .. i :
                        f[j] = IF j = 0 THEN on ELSE Expire(f[j - 1], on.delayed[j])
                   /\ \A j \in 0 .. i : Woke(f[j], on, j)}
<1>3. 0 \in S
  <2> DEFINE f == [i \in 0 .. 0 |-> on]
  <2>1. Woke(on, on, 0)
    <3>1. {on.delayed[j] : j \in 1 .. 0} = {} OBVIOUS
    <3>2. Wakes(on, on) BY DEF Wakes
    <3> QED BY <3>1, <3>2 DEF Woke
  <2>2. f \in [0 .. 0 -> Kernels] /\ \A j \in 0 .. 0 : j = 0 /\ f[j] = on OBVIOUS
  <2>3. 0 \in 0 .. n BY <1>2
  <2> HIDE DEF f
  <2> QED BY <2>1, <2>2, <2>3
<1>4. ASSUME NEW i \in 1 .. n, i - 1 \in S PROVE i \in S
  <2>1. PICK f \in [0 .. i - 1 -> Kernels] :
          /\ \A j \in 0 .. i - 1 :
               f[j] = IF j = 0 THEN on ELSE Expire(f[j - 1], on.delayed[j])
          /\ \A j \in 0 .. i - 1 : Woke(f[j], on, j)
    BY <1>4
  <2>2. i - 1 \in 0 .. i - 1 /\ i \in DOMAIN on.delayed /\ i \in Nat \ {0} BY <1>2
  <2>3. PICK last : last = Expire(f[i - 1], on.delayed[i]) OBVIOUS
  <2>4. Woke(last, on, i) BY <2>1, <2>2, <2>3, ExpireWakes
  <2>5. last \in Kernels BY <2>4 DEF Woke, Wakes
  <2> DEFINE g == [j \in 0 .. i |-> IF j = i THEN last ELSE f[j]]
  <2>6. \A j \in 0 .. i : j = i \/ j \in 0 .. i - 1 OBVIOUS
  <2>7. g \in [0 .. i -> Kernels] BY <2>1, <2>5, <2>6
  <2>8. \A j \in 0 .. i : j # i => g[j] = f[j] OBVIOUS
  <2>9. g[i] = last OBVIOUS
  <2> HIDE DEF g
  <2>10. ASSUME NEW j \in 0 .. i
         PROVE  /\ g[j] = IF j = 0 THEN on ELSE Expire(g[j - 1], on.delayed[j])
                /\ Woke(g[j], on, j)
    <3>1. CASE j = i
      <4>1. i - 1 \in 0 .. i /\ i - 1 # i /\ i # 0 OBVIOUS
      <4>2. g[i - 1] = f[i - 1] BY <2>8, <4>1
      <4> QED BY <2>3, <2>4, <2>9, <3>1, <4>1, <4>2
    <3>2. CASE j # i
      <4>1. j \in 0 .. i - 1 /\ g[j] = f[j] BY <2>6, <2>8, <3>2
      <4>2. j # 0 => j - 1 \in 0 .. i /\ j - 1 # i BY <4>1
      <4>3. j # 0 => g[j - 1] = f[j - 1] BY <2>8, <4>2
      <4> QED BY <2>1, <4>1, <4>3
    <3> QED BY <3>1, <3>2
  <2>11. i \in 0 .. n OBVIOUS
  <2> QED BY <2>7, <2>10, <2>11
<1>5. n \in S
  <2> HIDE DEF S
  <2> QED BY <1>2, <1>3, <1>4, Rounds
<1>6. PICK f \in [0 .. n -> Kernels] :
        /\ \A j \in 0 .. n : f[j] = IF j = 0 THEN on ELSE Expire(f[j - 1], on.delayed[j])
        /\ \A j \in 0 .. n : Woke(f[j], on, j)
  BY <1>5
<1>7. f = [i \in 0 .. n |-> IF i = 0 THEN on ELSE Expire(f[i - 1], on.delayed[i])]
  <2>1. f = [i \in 0 .. n |-> f[i]] BY <1>6
  <2> QED BY <1>6, <2>1
<1>8. PICK out : out = Expired(on) OBVIOUS
<1>9. out = [i \in 0 .. n |-> IF i = 0 THEN on ELSE Expire(out[i - 1], on.delayed[i])]
  BY <1>1, <1>7, <1>8, Zenon DEF Expired
<1>10. \A i \in 0 .. n : out[i] = IF i = 0 THEN on ELSE Expire(out[i - 1], on.delayed[i])
  BY <1>9
<1> DEFINE Good == {i \in 0 .. n : out[i] = f[i]}
<1>11. 0 \in Good
  <2>1. 0 \in 0 .. n BY <1>2
  <2> QED BY <1>6, <1>10, <2>1
<1>12. ASSUME NEW i \in 1 .. n, i - 1 \in Good PROVE i \in Good
  <2>1. i \in 0 .. n /\ i # 0 OBVIOUS
  <2> QED BY <1>6, <1>10, <1>12, <2>1
<1>13. n \in Good
  <2> HIDE DEF Good
  <2> QED BY <1>2, <1>11, <1>12, Rounds
<1>14. Woke(out[n], on, n)
  <2>1. n \in 0 .. n BY <1>2
  <2> QED BY <1>6, <1>13, <2>1
<1> QED BY <1>1, <1>8, <1>14

(* xTaskIncrementTick: every wait is one tick shorter, and over at none.   *)
LEMMA TickAges ==
  ASSUME NEW k \in Kernels, ListsInv(k), k.pending = <<>>, InTime(k), ~k.suspended
  PROVE  Aged(IncrementTick(k), k, 1)
<1>1. PICK l : l = IncrementTick(k) OBVIOUS
<1>2. PICK on : on = Advance(k) OBVIOUS
<1>3. Wakes(on, k) /\ on.pending = <<>> BY <1>2, AdvanceIs
<1>4. on \in Kernels /\ ListsInv(on) BY <1>3 DEF Wakes
<1>5. /\ Near(on) /\ on.tick = Later(k.tick, 1)
      /\ on.events = k.events /\ on.pending = k.pending
      /\ \A t : Rest(on, t) = Less(Rest(k, t), 1)
  BY <1>2, AdvanceAges
<1>6. \A t : Awaits(on, t) <=> Awaits(k, t) BY <1>5 DEF Awaits, Listed
<1>7. PICK last : last = Expired(on)[Due(on)] OBVIOUS
<1>8. l = IF on.tick < on.unblock THEN on ELSE ResetUnblock(last)
  BY <1>1, <1>2, <1>7 DEF IncrementTick, Expired
<1>9. /\ on.tick \in Int /\ on.unblock \in Int
      /\ \A t \in Sleeping(on) : on.wake[t] \in Int /\ t \in Tasks
  <2>1. on.tick \in Ticks /\ on.unblock \in Ticks BY <1>4 DEF Kernels
  <2> QED BY <1>4, <2>1, RestIs, TicksAre, PrioritiesAre
<1>10. ASSUME on.tick < on.unblock PROVE Aged(l, k, 1)
  <2>1. \A t \in ToSet(on.delayed) : on.tick < on.wake[t] /\ on.unblock <= on.wake[t]
    BY <1>5, <1>9, <1>10 DEF Near, Sleeping
  <2>2. InTime(on) BY <1>5, <2>1 DEF Near, InTime
  <2> QED BY <1>5, <1>6, <1>8, <1>10, <2>2 DEF Aged
<1>11. ASSUME ~(on.tick < on.unblock) PROVE Aged(l, k, 1)
  <2>1. l = ResetUnblock(last) BY <1>8, <1>11
  <2>2. PICK n : n = Due(on) OBVIOUS
  <2>3. InOrder(on) BY <1>5 DEF Near
  <2>4. Woke(last, on, n) BY <1>4, <1>3, <1>7, <2>2, <2>3, ExpiredWakes
  <2>5. /\ n \in 0 .. Len(on.delayed)
        /\ \A i \in 1 .. n : on.wake[on.delayed[i]] = on.tick
        /\ \A i \in DOMAIN on.delayed : i > n => on.tick < on.wake[on.delayed[i]]
    BY <1>4, <1>5, <1>11, <2>2, DueSplits
  <2>6. last \in Kernels /\ InOrder(last) BY <2>4 DEF Woke, Wakes
  <2>7. /\ l.delayed = last.delayed /\ l.overflowed = last.overflowed /\ l.wake = last.wake
        /\ l.tick = last.tick /\ l.events = last.events /\ l.pending = last.pending
        /\ InOrder(l) /\ \A t \in ToSet(l.delayed) : l.unblock <= l.wake[t]
    BY <2>1, <2>6, ResetUnblockTimes
  <2>8. on.delayed \in Seq(Task) BY <1>4 DEF Kernels
  <2>9. PICK len \in Nat : len = Len(on.delayed) /\ DOMAIN on.delayed = 1 .. len
    BY <2>8, LenProperties
  <2>10. ASSUME NEW t \in ToSet(last.delayed) PROVE on.tick < on.wake[t]
    <3>1. t \in ToSet(on.delayed) /\ t \notin {on.delayed[j] : j \in 1 .. n}
      BY <2>4 DEF Woke
    <3>2. PICK i \in DOMAIN on.delayed : t = on.delayed[i] BY <2>8, <3>1, ToSetOf
    <3>3. i > n BY <2>5, <2>9, <3>1, <3>2
    <3> QED BY <2>5, <3>2, <3>3
  <2>11. \A t \in Sleeping(l) : l.wake[t] = on.wake[t] BY <2>4, <2>7 DEF Woke, Sleeping
  <2>12. l.tick = on.tick BY <2>4, <2>7 DEF Woke
  <2>13. InTime(l)
    <3>1. \A t \in ToSet(l.delayed) : l.tick < l.wake[t] BY <2>7, <2>10, <2>11, <2>12 DEF Sleeping
    <3>2. \A t \in ToSet(l.overflowed) : l.wake[t] < l.tick
      BY <1>5, <2>4, <2>7, <2>11, <2>12 DEF Near, Woke, Sleeping
    <3> QED BY <2>7, <3>1, <3>2 DEF InTime
  <2>14. ASSUME NEW t PROVE Rest(l, t) = Rest(on, t)
    <3>1. CASE t \in Sleeping(l)
      <4>1. t \in Sleeping(on) BY <2>4, <2>7, <3>1 DEF Woke, Sleeping
      <4> QED BY <2>11, <2>12, <3>1, <4>1 DEF Rest
    <3>2. CASE t \notin Sleeping(l) /\ t \notin Sleeping(on) BY <3>2 DEF Rest
    <3>3. CASE t \notin Sleeping(l) /\ t \in Sleeping(on)
      <4>1. t \in {on.delayed[j] : j \in 1 .. n} BY <2>4, <2>7, <3>3 DEF Woke, Sleeping
      <4>2. on.wake[t] = on.tick BY <2>5, <4>1
      <4>3. on.tick \in Ticks /\ 0 \in Ticks /\ 0 + 0 \in Ticks BY <1>4, TicksAre DEF Kernels
      <4>4. Elapsed(on.tick, on.tick) = 0 BY <4>3, LaterTwice
      <4> QED BY <3>3, <4>2, <4>4 DEF Rest
    <3> QED BY <3>1, <3>2, <3>3
  <2>15. \A t : Awaits(l, t) => Awaits(k, t)
    <3>1. \A t : Awaits(l, t) => Awaits(last, t) BY <2>7 DEF Awaits, Listed
    <3> QED BY <1>6, <2>4, <3>1 DEF Woke
  <2> QED BY <1>5, <2>12, <2>13, <2>14, <2>15 DEF Aged
<1> QED BY <1>1, <1>10, <1>11

-----------------------------------------------------------------------------
(* The scheduler is resumed *)

LEMMA CatchUpOneAges ==
  ASSUME NEW k \in Kernels, ListsInv(k), k.pending = <<>>, InTime(k), ~k.suspended
  PROVE  Aged(CatchUpOne(k), k, 1)
<1>1. PICK m : m = IncrementTick(k) OBVIOUS
<1>2. Aged(m, k, 1) BY <1>1, TickAges
<1>3. m \in Kernels BY <1>1, TickIs DEF Wakes
<1>4. PICK yield : yield = SwitchRequired(k) OBVIOUS
<1>5. PICK l : l = [m EXCEPT !.yield = yield] OBVIOUS
<1>6. CatchUpOne(k) = l BY <1>1, <1>4, <1>5 DEF CatchUpOne
<1>7. SameTimes(l, m) /\ l.events = m.events /\ l.pending = m.pending
  BY <1>3, <1>5 DEF Kernels, SameTimes
<1> QED BY <1>2, <1>6, <1>7, AlikeAged

\* Between two of the ticks that were put off.
CatchKernels ==
  {k \in Kernels : ListsInv(k) /\ k.pending = <<>> /\ InTime(k) /\ ~k.suspended}

LEMMA CatchKeeps ==
  ASSUME NEW k \in CatchKernels
  PROVE  CatchUpOne(k) \in CatchKernels /\ Aged(CatchUpOne(k), k, 1)
<1>1. k \in Kernels /\ ListsInv(k) /\ k.pending = <<>> /\ InTime(k) /\ ~k.suspended
  BY DEF CatchKernels
<1>2. PICK l : l = CatchUpOne(k) OBVIOUS
<1>3. Aged(l, k, 1) BY <1>1, <1>2, CatchUpOneAges
<1>4. Wakes(l, k) /\ l.pending = <<>> BY <1>1, <1>2, CatchUpOneIs
<1> QED BY <1>1, <1>2, <1>3, <1>4 DEF CatchKernels, Wakes, Aged

LEMMA CatchUpAges ==
  ASSUME NEW k \in CatchKernels, k.ticks <= MaxPended
  PROVE  Aged(CatchUp(k), k, k.ticks)
<1>1. k \in Kernels /\ ListsInv(k) /\ k.pending = <<>> /\ InTime(k) /\ ~k.suspended
  BY DEF CatchKernels
<1>2. PICK n \in Nat : n = k.ticks BY <1>1 DEF Kernels
<1>3. \A i \in 0 .. n : i \in Ticks
  <2>1. PICK max \in Nat \ {0} : max = portMAX_DELAY BY TickAssumption
  <2>2. MaxPended \in 1 .. max BY <2>1, QueueAssumption
  <2> QED BY <1>2, <2>1, <2>2 DEF Ticks
<1>4. PICK first : first = [k EXCEPT !.ticks = 0] OBVIOUS
<1>5. first \in Kernels /\ SameTimes(first, k) /\ Alike(first, k)
      /\ first.suspended = k.suspended
  BY <1>1, <1>4 DEF Kernels, SameTimes, Alike
<1>6. first \in CatchKernels
  BY <1>1, <1>5, AlikeLists, SameTimesIs DEF CatchKernels, Alike
<1>7. Aged(first, k, 0)
  <2>1. \A t : Awaits(first, t) => Awaits(k, t) BY <1>5 DEF Awaits, Listed, Alike
  <2> QED BY <1>1, <1>5, <2>1, SameAged
<1> DEFINE step == [x \in CatchKernels \X (1 .. n) |-> CatchUpOne(x[1])]
<1>8. step \in [CatchKernels \X (1 .. n) -> CatchKernels] BY CatchKeeps
<1>9. \A l \in CatchKernels : \A i \in 1 .. n : step[<<l, i>>] = CatchUpOne(l) OBVIOUS
<1> HIDE DEF step
<1>10. PICK f \in [0 .. n -> CatchKernels] : Loops(f, n, first, step)
  BY <1>6, <1>8, LoopRuns
<1>11. f = [i \in 0 .. n |-> IF i = 0 THEN first ELSE CatchUpOne(f[i - 1])]
  <2>1. ASSUME NEW i \in 0 .. n
        PROVE  f[i] = IF i = 0 THEN first ELSE CatchUpOne(f[i - 1])
    <3>1. i # 0 => i \in 1 .. n /\ i - 1 \in 0 .. n OBVIOUS
    <3>2. i # 0 => f[i - 1] \in CatchKernels BY <1>10, <3>1
    <3>3. f[i] = IF i = 0 THEN first ELSE step[<<f[i - 1], i>>] BY <1>10 DEF Loops
    <3> QED BY <1>9, <3>1, <3>2, <3>3
  <2>2. f = [i \in 0 .. n |-> f[i]] BY <1>10
  <2> QED BY <2>1, <2>2
<1>12. PICK out : out = Caught(k) OBVIOUS
<1>13. out = [i \in 0 .. n |-> IF i = 0 THEN first ELSE CatchUpOne(out[i - 1])]
  BY <1>2, <1>4, <1>11, <1>12, Zenon DEF Caught
<1>14. \A i \in 0 .. n : out[i] = IF i = 0 THEN first ELSE CatchUpOne(out[i - 1])
  BY <1>13
<1> DEFINE Good == {i \in 0 .. n : out[i] \in CatchKernels /\ Aged(out[i], k, i)}
<1>15. 0 \in Good
  <2>1. 0 \in 0 .. n OBVIOUS
  <2>2. out[0] = first BY <1>14, <2>1
  <2> QED BY <1>6, <1>7, <2>1, <2>2
<1>16. ASSUME NEW i \in 1 .. n, i - 1 \in Good PROVE i \in Good
  <2>1. PICK l : l = out[i - 1] OBVIOUS
  <2>2. PICK m : m = out[i] OBVIOUS
  <2>3. m = CatchUpOne(l) BY <1>14, <2>1, <2>2
  <2>4. l \in CatchKernels /\ Aged(l, k, i - 1) BY <1>16, <2>1
  <2>5. m \in CatchKernels /\ Aged(m, l, 1) BY <2>3, <2>4, CatchKeeps
  <2>6. l \in Kernels /\ m \in Kernels BY <2>4, <2>5 DEF CatchKernels
  <2>7. PICK j : j = i - 1 OBVIOUS
  <2>8. j \in Ticks /\ 1 \in Ticks /\ j + 1 = i /\ i \in Ticks
    <3>1. i - 1 \in 0 .. n /\ i \in 0 .. n /\ 1 \in 0 .. n /\ (i - 1) + 1 = i OBVIOUS
    <3> QED BY <1>3, <2>7, <3>1
  <2>9. Aged(m, k, j + 1) BY <1>1, <2>4, <2>5, <2>6, <2>7, <2>8, AgedTwice
  <2> QED BY <2>2, <2>5, <2>8, <2>9
<1>17. n \in Good
  <2> HIDE DEF Good
  <2> QED BY <1>15, <1>16, Rounds
<1>18. CatchUp(k) = out[n] BY <1>2, <1>12 DEF CatchUp, Caught
<1> QED BY <1>2, <1>17, <1>18

LEMMA ResetUnblockAges ==
  ASSUME NEW k, NEW l \in Kernels, NEW n, Aged(l, k, n)
  PROVE  Aged(ResetUnblock(l), k, n)
<1>1. PICK m : m = ResetUnblock(l) OBVIOUS
<1>2. InOrder(l) BY DEF Aged, InTime
<1>3. /\ m.delayed = l.delayed /\ m.overflowed = l.overflowed /\ m.wake = l.wake
      /\ m.tick = l.tick /\ m.events = l.events /\ m.pending = l.pending
      /\ InOrder(m) /\ \A t \in ToSet(m.delayed) : m.unblock <= m.wake[t]
  BY <1>1, <1>2, ResetUnblockTimes
<1>4. InTime(m) BY <1>3 DEF InTime, Aged
<1>5. \A t : Rest(m, t) = Rest(l, t) BY <1>3 DEF Rest, Sleeping
<1>6. \A t : Awaits(m, t) <=> Awaits(l, t) BY <1>3 DEF Awaits, Listed
<1> QED BY <1>1, <1>3, <1>4, <1>5, <1>6 DEF Aged

\* Someone that waited for an event is woken as well.
LEMMA RousedToo ==
  ASSUME NEW k \in Kernels, NEW l \in Kernels, NEW m, NEW t, Aged(l, k, 0), Roused(m, l, t),
         Awaits(k, t), \A u : Awaits(m, u) => Awaits(l, u)
  PROVE  Aged(m, k, 0)
<1>1. /\ InTime(m) /\ Rest(m, t) = 0 /\ \A u : u # t => Rest(m, u) = Rest(l, u)
  BY RousedIs DEF Aged
<1>2. m.tick = l.tick BY DEF Roused
<1> QED BY <1>1, <1>2 DEF Aged

\* While the pending ready list of k is emptied.
PendKernels(k) ==
  {l \in Kernels : ListsInv(l) /\ l.pending = <<>> /\ l.events = k.events /\ Aged(l, k, 0)}

LEMMA PendKeeps ==
  ASSUME NEW k \in Kernels, NEW l \in PendKernels(k), NEW t \in Task, ~Listed(k, t),
         t \in ToSet(k.pending)
  PROVE  ReadyOne(l, t) \in PendKernels(k)
<1>1. /\ l \in Kernels /\ ListsInv(l) /\ l.pending = <<>> /\ l.events = k.events
      /\ Aged(l, k, 0)
  BY DEF PendKernels
<1>2. ~Listed(l, t) BY <1>1 DEF Listed
<1>3. PICK m : m = ReadyOne(l, t) OBVIOUS
<1>4. Wakes(m, l) /\ m.events = l.events /\ m.pending = <<>> BY <1>1, <1>2, <1>3, ReadyOneIs
<1>5. Roused(m, l, t)
  <2>1. PICK out : out = AddToReady(Unlist(l, t), t) OBVIOUS
  <2>2. RingsInv(l) /\ IsInjective(l.delayed) /\ IsInjective(l.overflowed)
    BY <1>1 DEF ListsInv, WaitsInv
  <2>3. Roused(out, l, t) BY <1>1, <2>1, <2>2, ReadyRouses
  <2>4. out \in Kernels BY <1>1, <2>1, <2>2, ReadyIs DEF Readied
  <2>5. PICK yield : m = [out EXCEPT !.yield = yield] BY <1>3, <2>1 DEF ReadyOne
  <2>6. PICK mm : mm = [out EXCEPT !.yield = yield] OBVIOUS
  <2>7. SameTimes(mm, out) BY <2>4, <2>6 DEF Kernels, SameTimes
  <2> QED BY <2>3, <2>5, <2>6, <2>7, RousedSame
<1>6. \A u : Awaits(m, u) => Awaits(l, u) BY <1>1, <1>4 DEF Awaits, Listed
<1>7. Awaits(k, t) BY DEF Awaits
<1>8. Aged(m, k, 0) BY <1>1, <1>5, <1>6, <1>7, RousedToo
<1> QED BY <1>1, <1>3, <1>4, <1>8 DEF PendKernels, Wakes

LEMMA PendedAges ==
  ASSUME NEW k \in Kernels, ListsInv(k), InTime(k)
  PROVE  Pended(k)[Len(k.pending)] \in PendKernels(k)
<1>1. PICK n : n = Len(k.pending) OBVIOUS
<1>2. n \in Nat /\ \A i \in 1 .. n :
                     /\ k.pending[i] \in Task /\ ~Listed(k, k.pending[i])
                     /\ k.pending[i] \in ToSet(k.pending)
  <2>1. k.pending \in Seq(Task) BY DEF Kernels
  <2>2. \A t \in ToSet(k.pending) : ~Listed(k, t) BY DEF ListsInv, WaitsInv
  <2>3. n \in Nat /\ DOMAIN k.pending = 1 .. n /\ \A i \in 1 .. n : k.pending[i] \in ToSet(k.pending)
    BY <1>1, <2>1, ToSetOf
  <2> QED BY <2>1, <2>2, <2>3, ToSetOf
<1>3. PICK first : first = [k EXCEPT !.pending = <<>>] OBVIOUS
<1>4. first \in PendKernels(k)
  <2>1. <<>> \in Seq(Task) /\ ToSet(<<>>) = {} /\ IsInjective(<<>>)
    BY EmptySeq DEF ToSet, IsInjective
  <2>2. /\ first \in Kernels /\ first.ready = k.ready /\ first.priority = k.priority
        /\ first.delayed = k.delayed /\ first.overflowed = k.overflowed
        /\ first.events = k.events /\ first.pending = <<>> /\ SameTimes(first, k)
    BY <1>3, <2>1 DEF Kernels, SameTimes
  <2>3. /\ ReadyTasks(first) = ReadyTasks(k) /\ Sleeping(first) = Sleeping(k)
        /\ \A t : Listed(first, t) <=> Listed(k, t)
    BY <2>2 DEF ReadyTasks, Sleeping, Listed
  <2>4. RingsInv(first) BY <2>2, <2>3 DEF ListsInv, RingsInv
  <2>5. WaitsInv(first) BY <2>1, <2>2, <2>3 DEF ListsInv, WaitsInv
  <2>6. EventsInv(first) BY <2>2, <2>3 DEF ListsInv, EventsInv
  <2>7. \A u : Awaits(first, u) => Awaits(k, u) BY <2>1, <2>2, <2>3 DEF Awaits
  <2>8. Aged(first, k, 0) BY <2>2, <2>7, SameAged
  <2> QED BY <2>2, <2>4, <2>5, <2>6, <2>8 DEF PendKernels, ListsInv
<1> DEFINE K == PendKernels(k)
<1>5. \A l \in K : \A i \in 1 .. n : ReadyOne(l, k.pending[i]) \in K BY <1>2, PendKeeps
<1>6. first \in K BY <1>4
<1> HIDE DEF K
<1> DEFINE step == [x \in K \X (1 .. n) |-> ReadyOne(x[1], k.pending[x[2]])]
<1>7. step \in [K \X (1 .. n) -> K] BY <1>5
<1>8. \A l \in K : \A i \in 1 .. n : step[<<l, i>>] = ReadyOne(l, k.pending[i])
  OBVIOUS
<1> HIDE DEF step
<1>9. PICK f \in [0 .. n -> K] : Loops(f, n, first, step) BY <1>2, <1>6, <1>7, LoopRuns
<1>10. f = [i \in 0 .. n |-> IF i = 0 THEN first ELSE ReadyOne(f[i - 1], k.pending[i])]
  <2>1. ASSUME NEW i \in 0 .. n
        PROVE  f[i] = IF i = 0 THEN first ELSE ReadyOne(f[i - 1], k.pending[i])
    <3>1. i # 0 => i \in 1 .. n /\ i - 1 \in 0 .. n BY <1>2
    <3>2. i # 0 => f[i - 1] \in K BY <1>9, <3>1
    <3>3. f[i] = IF i = 0 THEN first ELSE step[<<f[i - 1], i>>] BY <1>9 DEF Loops
    <3> QED BY <1>8, <3>1, <3>2, <3>3
  <2>2. f = [i \in 0 .. n |-> f[i]] BY <1>9
  <2> QED BY <2>1, <2>2
<1>11. PICK out : out = Pended(k) OBVIOUS
<1>12. out = [i \in 0 .. n |-> IF i = 0 THEN first ELSE ReadyOne(out[i - 1], k.pending[i])]
  BY <1>1, <1>3, <1>10, <1>11, Zenon DEF Pended
<1>13. \A i \in 0 .. n : out[i] = IF i = 0 THEN first ELSE ReadyOne(out[i - 1], k.pending[i])
  BY <1>12
<1> DEFINE Good == {i \in 0 .. n : out[i] \in K}
<1>14. 0 \in Good
  <2>1. 0 \in 0 .. n BY <1>2
  <2>2. out[0] = first BY <1>13, <2>1
  <2> QED BY <1>6, <2>1, <2>2
<1>15. ASSUME NEW i \in 1 .. n, i - 1 \in Good PROVE i \in Good
  <2>1. out[i] = ReadyOne(out[i - 1], k.pending[i]) BY <1>2, <1>13
  <2> QED BY <1>5, <1>15, <2>1
<1>16. n \in Good
  <2> HIDE DEF Good
  <2> QED BY <1>2, <1>14, <1>15, Rounds
<1>17. out[n] \in K BY <1>16
<1> QED BY <1>1, <1>11, <1>17 DEF K

LEMMA ReadyPendingAges ==
  ASSUME NEW k \in Kernels, ListsInv(k), InTime(k)
  PROVE  Aged(ReadyPending(k), k, 0)
<1>1. PICK last : last = Pended(k)[Len(k.pending)] OBVIOUS
<1>2. last \in Kernels /\ Aged(last, k, 0) BY <1>1, PendedAges DEF PendKernels
<1>3. Aged(ResetUnblock(last), k, 0) BY <1>2, ResetUnblockAges
<1>4. ReadyPending(k) = IF k.pending = <<>> THEN k ELSE ResetUnblock(last)
  BY <1>1 DEF ReadyPending, Pended
<1>5. SameTimes(k, k) BY DEF SameTimes
<1>6. Aged(k, k, 0) BY <1>5, SameAged
<1> QED BY <1>3, <1>4, <1>6

(* xTaskResumeAll: the ticks that were put off are counted.                *)
LEMMA ResumeAllAges ==
  ASSUME NEW k \in Kernels, ListsInv(k), InTime(k), k.ticks <= MaxPended
  PROVE  Aged(xTaskResumeAll(k), k, k.ticks)
<1>1. PICK first : first = [k EXCEPT !.suspended = FALSE] OBVIOUS
<1>2. /\ first \in Kernels /\ Alike(first, k) /\ SameTimes(first, k) /\ ~first.suspended
      /\ first.ticks = k.ticks
  BY <1>1 DEF Kernels, Alike, SameTimes
<1>3. ListsInv(first) /\ InTime(first) BY <1>2, AlikeLists, SameTimesIs
<1>4. Aged(first, k, 0)
  <2>1. \A t : Awaits(first, t) => Awaits(k, t) BY <1>2 DEF Awaits, Listed, Alike
  <2> QED BY <1>2, <2>1, SameAged
<1>5. PICK mid : mid = ReadyPending(first) OBVIOUS
<1>6. Wakes(mid, first) /\ mid.pending = <<>> /\ mid.ticks = first.ticks
  BY <1>2, <1>3, <1>5, ReadyPendingIs
<1>7. Aged(mid, first, 0) BY <1>2, <1>3, <1>5, ReadyPendingAges
<1>8. mid \in Kernels /\ mid \in CatchKernels
  BY <1>2, <1>6, <1>7 DEF CatchKernels, Wakes, Aged
<1>9. PICK out : out = CatchUp(mid) OBVIOUS
<1>10. PICK n \in Nat : n = k.ticks BY DEF Kernels
<1>11. n \in Ticks /\ 0 \in Ticks /\ 0 + 0 = 0 /\ 0 + n = n
  <2>1. PICK max \in Nat \ {0} : max = portMAX_DELAY BY TickAssumption
  <2>2. MaxPended \in 1 .. max BY <2>1, QueueAssumption
  <2> QED BY <1>10, <2>1, <2>2 DEF Ticks
<1>12. Aged(out, mid, n) BY <1>2, <1>6, <1>8, <1>9, <1>10, CatchUpAges
<1>13. out \in Kernels
  <2>1. ListsInv(mid) /\ mid.pending = <<>> /\ ~mid.suspended BY <1>8 DEF CatchKernels
  <2> QED BY <1>8, <1>9, <2>1, CatchUpIs DEF Wakes
<1>14. Aged(mid, k, 0 + 0) BY <1>2, <1>4, <1>7, <1>8, <1>11, AgedTwice
<1>15. Aged(out, k, 0 + n) BY <1>8, <1>11, <1>12, <1>13, <1>14, AgedTwice
<1>16. PICK pendsv : pendsv = (out.pendsv \/ out.yield) OBVIOUS
<1>17. PICK l : l = [out EXCEPT !.pendsv = pendsv] OBVIOUS
<1>18. xTaskResumeAll(k) = l
  <2>1. out = CatchUp(ReadyPending([k EXCEPT !.suspended = FALSE])) BY <1>1, <1>5, <1>9
  <2>2. l = [out EXCEPT !.pendsv = @ \/ out.yield] BY <1>13, <1>16, <1>17 DEF Kernels
  <2> QED BY <2>1, <2>2 DEF xTaskResumeAll
<1>19. SameTimes(l, out) /\ l.events = out.events /\ l.pending = out.pending
  BY <1>13, <1>17 DEF Kernels, SameTimes
<1>20. Aged(l, k, 0 + n) BY <1>15, <1>19, AlikeAged
<1> QED BY <1>10, <1>11, <1>18, <1>20

-----------------------------------------------------------------------------
(* What a call makes of the tick count *)

\* What is left of the time to wait of c, as xTaskCheckForTimeOut would have it.
Remains(c, tick) ==
  IF c.wrapped /\ tick >= c.since THEN 0 ELSE Less(c.xTicksToWait, Elapsed(c.since, tick))

\* A call that may wait, but not for ever.
Limited(c) == c.pc \notin {"app", "slept", "resume_delay"} /\ c.xTicksToWait # portMAX_DELAY

\* Where a task may be that awaits an event.
Awaiting == {"test", "unlock_blocked", "resume_blocked"}

\* The call c of t, of which n ticks are left, and the lists agree.
Kept(k, c, n, t) ==
  /\ Rest(k, t) > 0 => n = Rest(k, t)
  /\ t \in ToSet(k.pending) => c.pc \in Awaiting
  /\ c.pc \in {"slept", "resume_delay"} => n = Rest(k, t)
  /\ Limited(c) => c.set /\ (~c.wrapped => c.since <= k.tick) /\ n = Remains(c, k.tick)
  /\ Limited(c) /\ c.pc = "look" => c.xTicksToWait > 0 /\ ~c.wrapped /\ c.since = k.tick
  /\ c.pc \in Late => c.xTicksToWait = 0

\* What the call c sees of the ticks from k to l: WrapSeen, of one task.
Seen(k, l, c) ==
  IF ~c.set \/ l.tick >= k.tick THEN c
  ELSE [c EXCEPT !.wrapped = TRUE, !.since = IF c.wrapped THEN 0 ELSE @]

LEMMA SeenIs ==
  ASSUME NEW k \in Kernels, NEW l \in Kernels, NEW c \in Calls
  PROVE  LET d == Seen(k, l, c)
         IN  /\ d \in Calls /\ d.pc = c.pc /\ d.set = c.set /\ d.xTicksToWait = c.xTicksToWait
             /\ c.set => /\ d.wrapped = (c.wrapped \/ ~(l.tick >= k.tick))
                         /\ d.since = IF c.wrapped /\ ~(l.tick >= k.tick) THEN 0 ELSE c.since
             /\ l.tick = k.tick => d = c
<1>1. 0 \in Ticks /\ c.since \in Ticks /\ c.wrapped \in BOOLEAN BY TicksAre DEF Calls
<1>2. PICK since \in Ticks : since = IF c.wrapped THEN 0 ELSE c.since BY <1>1
<1>3. PICK e : e = [c EXCEPT !.wrapped = TRUE, !.since = since] OBVIOUS
<1>4. /\ e \in Calls /\ e.pc = c.pc /\ e.set = c.set /\ e.xTicksToWait = c.xTicksToWait
      /\ e.wrapped = TRUE /\ e.since = since
  BY <1>3 DEF Calls
<1>5. PICK d : d = Seen(k, l, c) OBVIOUS
<1>6. d = IF ~c.set \/ l.tick >= k.tick THEN c ELSE e
  BY <1>2, <1>3, <1>5 DEF Seen, Calls
<1>7. l.tick \in Int /\ k.tick \in Int BY TicksAre DEF Kernels
<1>8. l.tick = k.tick => d = c BY <1>6, <1>7
<1>9. CASE ~c.set \/ l.tick >= k.tick BY <1>1, <1>5, <1>6, <1>8, <1>9
<1>10. CASE c.set /\ ~(l.tick >= k.tick)
  <2>1. d = e BY <1>6, <1>10
  <2> QED BY <1>1, <1>2, <1>4, <1>5, <1>8, <1>10, <2>1
<1> QED BY <1>9, <1>10

(* The count may wrap once, or twice, while a call is under way: what it   *)
(* takes for left is what is left.                                         *)
LEMMA RemainsLess ==
  ASSUME NEW a \in Ticks, NEW n \in Ticks, NEW b, b = Later(a, n), NEW c \in Calls,
         NEW d \in Calls, d.xTicksToWait = c.xTicksToWait, ~c.wrapped => c.since <= a,
         d.wrapped = (c.wrapped \/ ~(b >= a)),
         d.since = IF c.wrapped /\ ~(b >= a) THEN 0 ELSE c.since
  PROVE  Remains(d, b) = Less(Remains(c, a), n) /\ (~d.wrapped => d.since <= b)
<1>1. PICK max \in Nat \ {0} : max = portMAX_DELAY BY TickAssumption
<1>2. /\ c.since \in Ticks /\ c.wrapped \in BOOLEAN /\ c.xTicksToWait \in Ticks
      /\ d.since \in Ticks /\ d.wrapped \in BOOLEAN
  BY DEF Calls
<1>3. PICK wait \in 0 .. max : wait = c.xTicksToWait BY <1>1, <1>2 DEF Ticks
<1>4. PICK s \in 0 .. max : s = c.since BY <1>1, <1>2 DEF Ticks
<1>5. PICK r \in 0 .. max : r = d.since BY <1>1, <1>2 DEF Ticks
<1>6. a \in 0 .. max /\ n \in 0 .. max BY <1>1 DEF Ticks
<1>7. b \in Ticks /\ b = IF a + n <= max THEN a + n ELSE a + n - max - 1 BY <1>1, LaterIs
<1>8. b \in 0 .. max BY <1>1, <1>7 DEF Ticks
<1>9. PICK e \in Int : e = Elapsed(s, a) /\ e = IF a >= s THEN a - s ELSE a - s + max + 1
  BY <1>1, <1>2, <1>4, <1>6, ElapsedIs
<1>10. PICK g \in Int : g = Elapsed(r, b) /\ g = IF b >= r THEN b - r ELSE b - r + max + 1
  BY <1>1, <1>2, <1>5, <1>7, <1>8, ElapsedIs
<1>11. PICK x : x = Remains(c, a) OBVIOUS
<1>12. PICK y : y = Remains(d, b) OBVIOUS
<1>13. x = IF c.wrapped /\ a >= s THEN 0 ELSE IF wait > e THEN wait - e ELSE 0
  BY <1>3, <1>4, <1>9, <1>11 DEF Remains, Less
<1>14. y = IF d.wrapped /\ b >= r THEN 0 ELSE IF wait > g THEN wait - g ELSE 0
  BY <1>3, <1>5, <1>10, <1>12 DEF Remains, Less
<1>15. y = IF x > n THEN x - n ELSE 0
  <2>1. CASE ~c.wrapped /\ b >= a
    <3>1. ~d.wrapped /\ r = s /\ s <= a BY <1>4, <1>5, <2>1
    <3>2. b = a + n BY <1>6, <1>7, <2>1
    <3> QED BY <1>6, <1>8, <1>9, <1>10, <1>13, <1>14, <2>1, <3>1, <3>2
  <2>2. CASE ~c.wrapped /\ ~(b >= a)
    <3>1. d.wrapped /\ r = s /\ s <= a BY <1>4, <1>5, <2>2
    <3>2. b = a + n - max - 1 BY <1>6, <1>7, <2>2
    <3> QED BY <1>6, <1>8, <1>9, <1>10, <1>13, <1>14, <2>2, <3>1, <3>2
  <2>3. CASE c.wrapped /\ b >= a
    <3>1. d.wrapped /\ r = s BY <1>4, <1>5, <2>3
    <3>2. b = a + n BY <1>6, <1>7, <2>3
    <3> QED BY <1>6, <1>8, <1>9, <1>10, <1>13, <1>14, <2>3, <3>1, <3>2
  <2>4. CASE c.wrapped /\ ~(b >= a)
    <3>1. d.wrapped /\ r = 0 BY <1>5, <2>4
    <3>2. b = a + n - max - 1 BY <1>6, <1>7, <2>4
    <3> QED BY <1>6, <1>8, <1>9, <1>10, <1>13, <1>14, <2>4, <3>1, <3>2
  <2> QED BY <1>2, <2>1, <2>2, <2>3, <2>4
<1>16. ~d.wrapped => d.since <= b
  <2>1. ~d.wrapped => ~c.wrapped /\ b >= a /\ r = s BY <1>4, <1>5, <1>2
  <2>2. ~d.wrapped => s <= a BY <1>4, <2>1
  <2> QED BY <1>4, <1>5, <1>6, <1>8, <2>1, <2>2
<1> QED BY <1>11, <1>12, <1>15, <1>16 DEF Less

(* Ticks that pass, and those that are woken, leave a call as true as it was. *)
LEMMA KeptAged ==
  ASSUME NEW k \in Kernels, NEW l \in Kernels, NEW n \in Ticks, NEW t, NEW c \in Calls,
         NEW m \in Ticks, Kept(k, c, m, t), l.tick = Later(k.tick, n),
         Awaits(l, t) => Awaits(k, t), Awaits(k, t) => c.pc \in Awaiting,
         Rest(l, t) = Less(Rest(k, t), n) \/ (Rest(l, t) = 0 /\ Awaits(k, t)),
         n = 0 \/ c.pc # "look"
  PROVE  Kept(l, Seen(k, l, c), Less(m, n), t)
<1>1. PICK d : d = Seen(k, l, c) OBVIOUS
<1>2. /\ d \in Calls /\ d.pc = c.pc /\ d.set = c.set /\ d.xTicksToWait = c.xTicksToWait
      /\ c.set => /\ d.wrapped = (c.wrapped \/ ~(l.tick >= k.tick))
                  /\ d.since = IF c.wrapped /\ ~(l.tick >= k.tick) THEN 0 ELSE c.since
      /\ l.tick = k.tick => d = c
  BY <1>1, SeenIs
<1>3. k.tick \in Ticks /\ l.tick \in Ticks BY DEF Kernels
<1>4. PICK x \in Nat : x = Rest(k, t) BY RestIs
<1>5. PICK y \in Nat : y = Rest(l, t) BY RestIs
<1>6. m \in Nat /\ n \in Nat BY TicksAre
<1>7. Less(0, n) = 0 /\ (Less(x, n) > 0 => x > 0) BY <1>6, LessIs
<1>8. Rest(l, t) > 0 => Less(m, n) = Rest(l, t)
  BY <1>4, <1>5, <1>7 DEF Kept
<1>9. t \in ToSet(l.pending) => d.pc \in Awaiting BY <1>2 DEF Awaits
<1>10. ASSUME d.pc \in {"slept", "resume_delay"} PROVE Less(m, n) = Rest(l, t)
  <2>1. c.pc \notin Awaiting BY <1>2, <1>10 DEF Awaiting
  <2>2. Rest(l, t) = Less(Rest(k, t), n) BY <2>1
  <2>3. m = Rest(k, t) BY <1>2, <1>10 DEF Kept
  <2> QED BY <2>2, <2>3
<1>11. Limited(d) <=> Limited(c) BY <1>2 DEF Limited
<1>12. ASSUME Limited(d)
       PROVE  d.set /\ (~d.wrapped => d.since <= l.tick) /\ Less(m, n) = Remains(d, l.tick)
  <2>1. c.set /\ (~c.wrapped => c.since <= k.tick) /\ m = Remains(c, k.tick)
    BY <1>11, <1>12 DEF Kept
  <2>2. Remains(d, l.tick) = Less(Remains(c, k.tick), n) /\ (~d.wrapped => d.since <= l.tick)
    BY <1>2, <1>3, <2>1, RemainsLess
  <2> QED BY <1>2, <2>1, <2>2
<1>13. ASSUME Limited(d), d.pc = "look"
       PROVE  d.xTicksToWait > 0 /\ ~d.wrapped /\ d.since = l.tick
  <2>1. n = 0 BY <1>2, <1>13
  <2>2. 0 \in Ticks /\ 0 + 0 \in Ticks BY TicksAre
  <2>3. l.tick = k.tick BY <1>3, <2>1, <2>2, LaterTwice
  <2> QED BY <1>2, <1>11, <1>13, <2>3 DEF Kept
<1>14. d.pc \in Late => d.xTicksToWait = 0 BY <1>2 DEF Kept
<1> QED BY <1>1, <1>8, <1>9, <1>10, <1>12, <1>13, <1>14 DEF Kept

-----------------------------------------------------------------------------
(* The invariant *)

AllKept == \A t \in Task : Kept(kernel, call[t], left[t], t)
Deadlines == InTime(kernel) /\ kernel.ticks <= MaxPended /\ AllKept
DeadlineInv == KernelInv /\ Deadlines

LEMMA KernelsAre ==
  ASSUME KernelInv
  PROVE  /\ kernel \in Kernels /\ ListsInv(kernel)
         /\ call \in [Task -> Calls] /\ left \in [Task -> Ticks]
BY DEF KernelInv, TypeOK

(* Who awaits an event is in a call that waits for it.                     *)
LEMMA AwaitingIs ==
  ASSUME DeadlineInv, NEW t \in Task, Awaits(kernel, t)
  PROVE  call[t].pc \in Awaiting
<1>1. CASE Listed(kernel, t)
  <2>1. PICK list \in Events : Waiting(t, list) BY <1>1 DEF Listed, Waiting
  <2> QED BY <2>1 DEF DeadlineInv, KernelInv, CallsInv, Awaiting
<1>2. CASE t \in ToSet(kernel.pending)
  BY <1>2 DEF DeadlineInv, Deadlines, AllKept, Kept
<1> QED BY <1>1, <1>2 DEF Awaits

(* Who runs, and has not put itself away, waits for nothing.               *)
LEMMA RunsAwake ==
  ASSUME DeadlineInv, NEW t \in Task, kernel.current = t, call[t].pc \notin Gone
  PROVE  /\ t \in ReadyTasks(kernel) /\ ~Awaits(kernel, t)
         /\ t \notin ToSet(kernel.pending) /\ Rest(kernel, t) = 0
<1>1. KernelInv BY DEF DeadlineInv
<1>2. t \in ReadyTasks(kernel) /\ ~Listed(kernel, t)
  <2>1. CASE call[t].pc \in Critical BY <1>1, <2>1, Busy
  <2>2. CASE call[t].pc \notin Critical BY <1>1, <2>2, Free
  <2> QED BY <2>1, <2>2
<1>3. t \notin Sleeping(kernel) /\ t \notin ToSet(kernel.pending)
  BY <1>1, <1>2 DEF KernelInv, ListsInv, WaitsInv
<1> QED BY <1>2, <1>3 DEF Rest, Awaits

LEMMA WrapSeenIs ==
  ASSUME NEW k, NEW l, NEW c, NEW t \in Task
  PROVE  WrapSeen(k, l, c)[t] = Seen(k, l, c[t])
BY DEF WrapSeen, Seen

LEMMA LeftLess ==
  ASSUME NEW k \in Kernels, NEW l, NEW n \in Ticks, l.tick = Later(k.tick, n), NEW t \in Task,
         left \in [Task -> Ticks]
  PROVE  Left(k, l)[t] = Less(left[t], n)
<1>1. k.tick \in Ticks /\ 0 \in Ticks /\ n + 0 \in Ticks BY TicksAre DEF Kernels
<1>2. Elapsed(k.tick, l.tick) = n BY <1>1, LaterTwice
<1>3. PICK m \in Nat : m = left[t] BY TicksAre
<1>4. n \in Nat BY TicksAre
<1>5. PICK x \in Int : x = m - n BY <1>4
<1>6. Max({0, x}) = IF x >= 0 THEN x ELSE 0 BY MaxZero
<1>7. Left(k, l)[t] = Max({0, x}) BY <1>2, <1>3, <1>5 DEF Left
<1>8. Less(m, n) = IF m > n THEN m - n ELSE 0 BY DEF Less
<1> QED BY <1>3, <1>4, <1>5, <1>6, <1>7, <1>8

\* The calls as they are when the time of a step passes.
Calling(mid) ==
  /\ mid \in [Task -> Calls]
  /\ \A t \in Task : /\ Kept(kernel, mid[t], left[t], t)
                     /\ Awaits(kernel, t) => mid[t].pc \in Awaiting

LEMMA CallingIs ==
  ASSUME DeadlineInv
  PROVE  Calling(call)
<1>1. call \in [Task -> Calls] BY KernelsAre DEF DeadlineInv
<1>2. \A t \in Task : Kept(kernel, call[t], left[t], t)
  BY DEF DeadlineInv, Deadlines, AllKept
<1> QED BY <1>1, <1>2, AwaitingIs DEF Calling

(* A step in which n ticks pass for all.                                   *)
LEMMA AllAged ==
  ASSUME DeadlineInv, KernelInv', NEW mid, Calling(mid), NEW n \in Ticks,
         n = 0 \/ \A t \in Task : mid[t].pc # "look",
         Aged(kernel', kernel, n), kernel'.ticks <= MaxPended,
         \A t \in Task : call'[t] = Seen(kernel, kernel', mid[t]),
         \A t \in Task : left'[t] = Less(left[t], n)
  PROVE  Deadlines'
<1>1. kernel \in Kernels /\ left \in [Task -> Ticks] BY KernelsAre DEF DeadlineInv
<1>2. kernel' \in Kernels BY DEF KernelInv, TypeOK
<1>3. ASSUME NEW t \in Task PROVE Kept(kernel', call'[t], left'[t], t)
  <2>1. /\ mid[t] \in Calls /\ Kept(kernel, mid[t], left[t], t)
        /\ Awaits(kernel, t) => mid[t].pc \in Awaiting
    BY DEF Calling
  <2>2. PICK c \in Calls : c = mid[t] BY <2>1
  <2>3. PICK m \in Ticks : m = left[t] BY <1>1
  <2>4. kernel'.tick = Later(kernel.tick, n) BY DEF Aged
  <2>5. PICK l \in Kernels : l = kernel' BY <1>2
  <2>6. Kept(l, Seen(kernel, l, c), Less(m, n), t)
    <3>1. l.tick = Later(kernel.tick, n) BY <2>4, <2>5
    <3>2. Awaits(l, t) => Awaits(kernel, t)
      <4>1. \A u : Awaits(kernel', u) => Awaits(kernel, u) BY DEF Aged
      <4> QED BY <2>5, <4>1
    <3>3. Rest(l, t) = Less(Rest(kernel, t), n) \/ (Rest(l, t) = 0 /\ Awaits(kernel, t))
      <4>1. \A u : \/ Rest(kernel', u) = Less(Rest(kernel, u), n)
                   \/ Rest(kernel', u) = 0 /\ Awaits(kernel, u)
        BY DEF Aged
      <4> QED BY <2>5, <4>1
    <3>4. Kept(kernel, c, m, t) /\ (Awaits(kernel, t) => c.pc \in Awaiting)
          /\ (n = 0 \/ c.pc # "look")
      BY <2>1, <2>2, <2>3
    <3> QED BY <1>1, <3>1, <3>2, <3>3, <3>4, KeptAged
  <2>7. call'[t] = Seen(kernel, l, c) /\ left'[t] = Less(m, n) BY <2>2, <2>3, <2>5
  <2> QED BY <2>5, <2>6, <2>7
<1>4. InTime(kernel') BY DEF Aged
<1> QED BY <1>3, <1>4 DEF Deadlines, AllKept

(* A step in which no time passes.                                         *)
LEMMA NoneAged ==
  ASSUME DeadlineInv, KernelInv', NEW mid, Calling(mid), Aged(kernel', kernel, 0),
         kernel'.ticks <= MaxPended,
         \A t \in Task : call'[t] = mid[t] /\ left'[t] = left[t]
  PROVE  Deadlines'
<1>1. kernel \in Kernels /\ left \in [Task -> Ticks] BY KernelsAre DEF DeadlineInv
<1>2. PICK l \in Kernels : l = kernel' BY DEF KernelInv, TypeOK
<1>3. kernel.tick \in Ticks /\ 0 \in Ticks /\ 0 + 0 \in Ticks BY <1>1, TicksAre DEF Kernels
<1>4. l.tick = kernel.tick
  <2>1. kernel'.tick = Later(kernel.tick, 0) BY DEF Aged
  <2> QED BY <1>2, <1>3, <2>1, LaterTwice
<1>5. \A t \in Task : call'[t] = Seen(kernel, l, mid[t])
  <2>1. \A t \in Task : Seen(kernel, l, mid[t]) = mid[t]
    <3>1. \A t \in Task : mid[t] \in Calls BY DEF Calling
    <3> QED BY <1>1, <1>4, <3>1, SeenIs
  <2> QED BY <2>1
<1>6. \A t \in Task : left'[t] = Less(left[t], 0)
  <2>1. \A t \in Task : left[t] \in Nat BY <1>1, TicksAre
  <2>2. 0 \in Nat OBVIOUS
  <2> QED BY <2>1, <2>2, LessIs
<1> QED BY <1>2, <1>3, <1>5, <1>6, AllAged

(* A task moves on in a call.                                              *)
LEMMA MovesOn ==
  ASSUME NEW k, NEW c \in Calls, NEW n, NEW t, Kept(k, c, n, t),
         c.pc \notin {"app", "slept", "resume_delay"}, NEW pc \in PCs,
         pc \notin {"app", "slept", "resume_delay", "look"},
         pc \in Late => c.xTicksToWait = 0,
         t \in ToSet(k.pending) => pc \in Awaiting, NEW d, d = [c EXCEPT !.pc = pc]
  PROVE  d \in Calls /\ d.pc = pc /\ Kept(k, d, n, t)
<1>1. /\ d \in Calls /\ d.pc = pc /\ d.set = c.set /\ d.since = c.since
      /\ d.wrapped = c.wrapped /\ d.xTicksToWait = c.xTicksToWait
  BY DEF Calls, PCs
<1>2. Limited(d) => Limited(c) BY <1>1 DEF Limited
<1>3. Remains(d, k.tick) = Remains(c, k.tick) BY <1>1 DEF Remains
<1>4. Limited(d) => d.set /\ (~d.wrapped => d.since <= k.tick) /\ n = Remains(d, k.tick)
  BY <1>1, <1>2, <1>3 DEF Kept
<1>5. Rest(k, t) > 0 => n = Rest(k, t) BY DEF Kept
<1> QED BY <1>1, <1>4, <1>5 DEF Kept

\* t alone has moved on, to d.
Moves(mid, t, d) ==
  /\ mid \in [Task -> Calls] /\ mid[t] = d
  /\ \A u \in Task : u # t => mid[u] = call[u]

LEMMA MovesIs ==
  ASSUME DeadlineInv, NEW t \in Task, NEW d \in Calls, NEW mid, mid = [call EXCEPT ![t] = d]
  PROVE  Moves(mid, t, d)
<1>1. call \in [Task -> Calls] BY KernelsAre DEF DeadlineInv
<1> QED BY <1>1 DEF Moves

LEMMA MovesCalling ==
  ASSUME DeadlineInv, NEW t \in Task, NEW d, NEW mid, Moves(mid, t, d),
         Kept(kernel, d, left[t], t), Awaits(kernel, t) => d.pc \in Awaiting
  PROVE  Calling(mid)
<1>1. Calling(call) BY CallingIs
<1>2. ASSUME NEW u \in Task
      PROVE  /\ Kept(kernel, mid[u], left[u], u)
             /\ Awaits(kernel, u) => mid[u].pc \in Awaiting
  <2>1. CASE u = t BY <2>1 DEF Moves
  <2>2. CASE u # t
    <3>1. mid[u] = call[u] BY <2>2 DEF Moves
    <3> QED BY <1>1, <3>1 DEF Calling
  <2> QED BY <2>1, <2>2
<1> QED BY <1>2 DEF Calling, Moves

-----------------------------------------------------------------------------
(* The steps *)

(* A step of t that leaves the other calls alone.                          *)
LEMMA TaskMoves ==
  ASSUME DeadlineInv, KernelInv', NEW t \in Task, NEW d, Moves(call', t, d),
         Kept(kernel, d, left[t], t), Awaits(kernel, t) => d.pc \in Awaiting,
         Aged(kernel', kernel, 0), kernel'.ticks <= MaxPended, left' = left
  PROVE  Deadlines'
<1>1. PICK mid : mid = call' OBVIOUS
<1>2. Moves(mid, t, d) BY <1>1
<1>3. Calling(mid) BY <1>2, MovesCalling
<1>4. \A u \in Task : call'[u] = mid[u] /\ left'[u] = left[u] BY <1>1
<1> QED BY <1>3, <1>4, NoneAged

LEMMA NoCallKept ==
  ASSUME NEW k, NEW n, NEW t, Rest(k, t) = 0, t \notin ToSet(k.pending)
  PROVE  Kept(k, NoCall, n, t)
<1>1. NoCall.pc = "app" BY DEF NoCall
<1>2. ~(0 > 0) OBVIOUS
<1>3. "app" \notin Late BY DEF Late
<1> QED BY <1>1, <1>2, <1>3 DEF Kept, Limited

(* A call returns.                                                         *)
LEMMA ReturnMoves ==
  ASSUME DeadlineInv, KernelInv', NEW t \in Task, kernel.current = t, call[t].pc \notin Gone,
         Return(t), Aged(kernel', kernel, 0), kernel'.ticks <= MaxPended, left' = left
  PROVE  Deadlines'
<1>1. ~Awaits(kernel, t) /\ t \notin ToSet(kernel.pending) /\ Rest(kernel, t) = 0
  BY RunsAwake
<1>2. PICK d : d = NoCall OBVIOUS
<1>3. d \in Calls /\ Kept(kernel, d, left[t], t) BY <1>1, <1>2, NoCallIs, NoCallKept
<1>4. call' = [call EXCEPT ![t] = d] BY <1>2 DEF Return
<1>5. PICK mid : mid = call' OBVIOUS
<1>6. Moves(mid, t, d) BY <1>3, <1>4, <1>5, MovesIs
<1> QED BY <1>1, <1>3, <1>5, <1>6, TaskMoves

(* A call goes on, to where it has as much to wait as before.              *)
LEMMA GotoMoves ==
  ASSUME DeadlineInv, KernelInv', NEW t \in Task, kernel.current = t,
         call[t].pc \notin {"app", "slept", "resume_delay"}, NEW pc \in PCs, Goto(t, pc),
         pc \notin {"app", "slept", "resume_delay", "look"},
         pc \in Late => call[t].xTicksToWait = 0,
         call[t].pc \notin Gone \/ pc \in Awaiting,
         Aged(kernel', kernel, 0), kernel'.ticks <= MaxPended, left' = left
  PROVE  Deadlines'
<1>1. PICK c \in Calls : c = call[t] BY KernelsAre DEF DeadlineInv
<1>2. PICK d : d = [c EXCEPT !.pc = pc] OBVIOUS
<1>3. Kept(kernel, c, left[t], t) BY <1>1 DEF DeadlineInv, Deadlines, AllKept
<1>4. Awaits(kernel, t) => pc \in Awaiting
  <2>1. call[t].pc \notin Gone => ~Awaits(kernel, t) BY RunsAwake
  <2> QED BY <2>1
<1>5. t \in ToSet(kernel.pending) => pc \in Awaiting BY <1>4 DEF Awaits
<1>6. d \in Calls /\ d.pc = pc /\ Kept(kernel, d, left[t], t)
  BY <1>1, <1>2, <1>3, <1>5, MovesOn
<1>7. call' = [call EXCEPT ![t] = d] BY <1>1, <1>2 DEF Goto
<1>8. PICK mid : mid = call' OBVIOUS
<1>9. Moves(mid, t, d) BY <1>6, <1>7, <1>8, MovesIs
<1> QED BY <1>4, <1>6, <1>8, <1>9, TaskMoves

(* Who suspends the scheduler for no one has put nothing off.              *)
LEMMA NothingPutOff ==
  ASSUME KernelInv', kernel'.suspended => kernel'.ticks <= MaxPended
  PROVE  kernel'.ticks <= MaxPended
<1>1. MaxPended >= 0
  <2>1. PICK max \in Nat \ {0} : max = portMAX_DELAY BY TickAssumption
  <2> QED BY <2>1, QueueAssumption
<1>2. ~kernel'.suspended => kernel'.ticks = 0 BY DEF KernelInv, ControlInv
<1> QED BY <1>1, <1>2

(* The kernel is as it was.                                                *)
LEMMA SameKernel ==
  ASSUME DeadlineInv, kernel' = kernel
  PROVE  Aged(kernel', kernel, 0) /\ kernel'.ticks <= MaxPended
<1>1. kernel \in Kernels /\ InTime(kernel) BY KernelsAre DEF DeadlineInv, Deadlines
<1>2. SameTimes(kernel, kernel) BY DEF SameTimes
<1>3. Aged(kernel, kernel, 0) BY <1>1, <1>2, SameAged
<1> QED BY <1>3 DEF DeadlineInv, Deadlines

(* A wake-up, and the switch it may ask for.                               *)
LEMMA HandAges ==
  ASSUME NEW k \in Kernels, ListsInv(k), InTime(k), NEW list \in Events,
         \/ k.suspended \/ Running(k) \/ k.pendsv
         \/ k.events[list] # <<>> /\ k.priority[k.events[list][1]] > k.priority[k.current]
  PROVE  Aged(PendSV(Wake(k, list)), k, 0)
<1>1. PICK m : m = Wake(k, list) OBVIOUS
<1>2. Aged(m, k, 0) BY <1>1, WakeAges
<1>3. InTime(m) BY <1>2 DEF Aged
<1>4. m \in Kernels /\ ListsInv(m) /\ (m.suspended \/ m.pendsv \/ Running(m))
  <2>1. CASE k.events[list] = <<>>
    <3>1. m = k BY <1>1, <2>1 DEF Wake
    <3> QED BY <2>1, <3>1
  <2>2. CASE k.events[list] # <<>>
    <3>1. PICK t : t = k.events[list][1] OBVIOUS
    <3>2. Woken(m, k, list) /\ m.pendsv = (k.pendsv \/ k.priority[t] > k.priority[k.current])
      BY <1>1, <2>2, <3>1, WakeIs
    <3>3. /\ m \in Kernels /\ ListsInv(m) /\ m.suspended = k.suspended
          /\ m.current = k.current /\ m.priority = k.priority
      BY <3>2 DEF Woken
    <3>4. CASE k.suspended BY <3>3, <3>4
    <3>5. CASE k.pendsv \/ k.priority[t] > k.priority[k.current] BY <3>2, <3>3, <3>5
    <3>6. CASE ~k.suspended /\ Running(k) /\ ~(k.priority[t] > k.priority[k.current])
      <4>1. ReadyTasks(m) = ReadyTasks(k) \cup {t} BY <3>1, <3>2, <3>6 DEF Woken
      <4>2. t \in Tasks /\ k.current \in Tasks BY <2>2, <3>1, FirstIs DEF Kernels
      <4>3. PICK p \in Nat, r \in Nat : p = k.priority[t] /\ r = k.priority[k.current]
        <5>1. k.priority[t] \in Priorities /\ k.priority[k.current] \in Priorities
          BY <4>2 DEF Kernels
        <5>2. k.priority[t] \in Nat /\ k.priority[k.current] \in Nat
          BY <5>1, PrioritiesAre
        <5> QED BY <5>2
      <4>4. k.priority[t] <= k.priority[k.current]
        <5>1. ~(p > r) BY <3>6, <4>3
        <5>2. p <= r BY <5>1
        <5> QED BY <4>3, <5>2
      <4>5. Running(m) BY <3>3, <3>6, <4>1, <4>4 DEF Running
      <4> QED BY <3>3, <4>5
    <3> QED BY <3>1, <3>4, <3>5, <3>6
  <2> QED BY <2>1, <2>2
<1>5. PICK l : l = PendSV(m) OBVIOUS
<1>6. Aged(l, m, 0) BY <1>3, <1>4, <1>5, PendSVAges
<1>7. l \in Kernels BY <1>4, <1>5, PendSVIs
<1>8. 0 \in Ticks /\ 0 + 0 = 0 BY TicksAre
<1>9. Aged(l, k, 0 + 0) BY <1>2, <1>4, <1>6, <1>7, <1>8, AgedTwice
<1> QED BY <1>1, <1>5, <1>8, <1>9

(* A switch moves no task from list to list.                               *)
LEMMA PendSVKeeps ==
  ASSUME NEW k \in Kernels, ListsInv(k)
  PROVE  PendSV(k).events = k.events /\ PendSV(k).pending = k.pending
<1>1. PICK l : l = PendSV(k) OBVIOUS
<1>2. k.pendsv \in BOOLEAN /\ k.suspended \in BOOLEAN BY DEF Kernels
<1>3. CASE ~k.pendsv
  <2>1. l = k BY <1>1, <1>3 DEF PendSV
  <2> QED BY <1>1, <2>1
<1>4. CASE k.pendsv \/ k.suspended
  <2>1. Steady(l, k) BY <1>1, <1>4, PendSVIs
  <2> QED BY <1>1, <2>1 DEF Steady
<1> QED BY <1>2, <1>3, <1>4

(* While no one has suspended the scheduler no tick is put off.            *)
LEMMA RunsOnTime ==
  ASSUME KernelInv', \A u \in Task : call'[u].pc \notin Critical
  PROVE  kernel'.ticks <= MaxPended
<1>1. {u \in Task : call'[u].pc \in Critical} =
        IF kernel'.suspended THEN {kernel'.current} ELSE {}
  BY DEF KernelInv, ControlInv
<1>2. ~kernel'.suspended BY <1>1
<1> QED BY <1>2, NothingPutOff

(* xQueueGenericSend: for a mutex, the priority it brought goes first.     *)
LEMMA SendDeadlines ==
  ASSUME DeadlineInv, KernelInv', NEW t \in Task, Send(t)
  PROVE  Deadlines'
<1>1. PICK c \in Asked(t) :
        LET given == IF c.q \in Mutexes THEN xTaskPriorityDisinherit(kernel, t) ELSE kernel
            list == <<c.q, "receive">>
        IN  /\ c.op = "send" /\ ~IsQueueFull(c.q)
            /\ kernel' = PendSV(
                 IF given.events[list] # <<>> THEN Wake(given, list)
                 ELSE [given EXCEPT !.pendsv = c.q \in Mutexes /\ MustDisinherit(kernel, t)])
            /\ Return(t)
            /\ UNCHANGED <<left, program>>
  BY DEF Send
<1>2. KernelInv BY DEF DeadlineInv
<1>3. PICK q : q = c.q OBVIOUS
<1>4. PICK list : list = <<q, "receive">> OBVIOUS
<1>5. Asks(t, c) /\ kernel.current = t /\ call[t].pc \notin Critical BY <1>2, AskedIs
<1>6. call[t].pc \notin Gone BY <1>5 DEF Critical, Gone
<1>7. q \in Handles /\ list \in Events
  BY <1>1, <1>3, <1>4, <1>5 DEF Asks, Sides, Events
<1>8. ~kernel.suspended /\ Running(kernel) /\ ~Listed(kernel, t) BY <1>2, <1>5, Free
<1>9. /\ kernel \in Kernels /\ ListsInv(kernel) /\ ~kernel.pendsv /\ InTime(kernel)
  BY <1>2, KernelsAre DEF KernelInv, ControlInv, DeadlineInv, Deadlines
<1>10. PICK k : k = IF q \in Mutexes THEN xTaskPriorityDisinherit(kernel, t) ELSE kernel
  OBVIOUS
<1>11. PICK must \in BOOLEAN : must = (q \in Mutexes /\ MustDisinherit(kernel, t))
  BY DEF MustDisinherit
<1>12. kernel' = PendSV(IF k.events[list] # <<>> THEN Wake(k, list)
                        ELSE [k EXCEPT !.pendsv = must])
  BY <1>1, <1>3, <1>4, <1>10, <1>11
<1>13. Aged(k, kernel, 0) /\ k \in Kernels /\ ListsInv(k) /\ InTime(k)
  <2>1. CASE q \notin Mutexes
    <3>1. k = kernel BY <1>10, <2>1
    <3>2. SameTimes(k, kernel) /\ \A u : Awaits(k, u) => Awaits(kernel, u)
      BY <3>1 DEF SameTimes
    <3>3. Aged(k, kernel, 0) BY <1>9, <3>2, SameAged
    <3> QED BY <1>9, <3>1, <3>3
  <2>2. CASE q \in Mutexes
    <3>1. kernel.held[t] > 0 /\ queue[q].holder = t BY <1>1, <1>3, <1>5, <2>2 DEF Asks
    <3>2. k = xTaskPriorityDisinherit(kernel, t) BY <1>10, <2>2
    <3>3. Aged(k, kernel, 0) BY <1>8, <1>9, <3>1, <3>2, DisinheritAges
    <3>4. kernel.held[t] = 1 \/ BasePriority[t] = Highest
      <4>1. queue[q].holder # None BY <3>1, HandlesAre
      <4> QED BY <1>2, <2>2, <3>1, <4>1, HolderIs
    <3>5. kernel.priority[t] = BasePriority[t] \/ kernel.held[t] = 1
      <4>1. CASE BasePriority[t] = Highest
        BY <1>2, <4>1, BaseIs, PrioritiesAre DEF KernelInv, MayCall
      <4> QED BY <3>4, <4>1
    <3>6. Repriced(k, kernel) BY <1>8, <1>9, <3>1, <3>2, <3>5, DisinheritIs
    <3> QED BY <3>3, <3>6 DEF Repriced, Aged
  <2> QED BY <2>1, <2>2
<1>14. Aged(kernel', k, 0)
  <2>1. PICK m : m = IF k.events[list] # <<>> THEN Wake(k, list) ELSE [k EXCEPT !.pendsv = must]
    OBVIOUS
  <2>2. m \in Kernels /\ ListsInv(m) /\ Aged(m, k, 0)
    <3>1. CASE k.events[list] # <<>>
      <4>1. m = Wake(k, list) BY <2>1, <3>1
      <4>2. Woken(m, k, list) BY <1>7, <1>13, <3>1, <4>1, WakeIs
      <4> QED BY <1>7, <1>13, <4>1, <4>2, WakeAges DEF Woken
    <3>2. CASE k.events[list] = <<>>
      <4>1. m = [k EXCEPT !.pendsv = must] BY <2>1, <3>2
      <4>2. m \in Kernels /\ ListsInv(m) /\ Alike(m, k) BY <1>13, <4>1, RequestedIs
      <4>3. SameTimes(m, k) BY <1>13, <4>1 DEF Kernels, SameTimes
      <4>4. \A u : Awaits(m, u) => Awaits(k, u) BY <4>2 DEF Alike, Awaits, Listed
      <4> QED BY <1>13, <4>2, <4>3, <4>4, SameAged
    <3> QED BY <3>1, <3>2
  <2>3. kernel' = PendSV(m) BY <1>12, <2>1
  <2>4. SameTimes(kernel', m) BY <2>2, <2>3, PendSVTimes
  <2>5. kernel'.events = m.events /\ kernel'.pending = m.pending
    BY <2>2, <2>3, PendSVKeeps
  <2> QED BY <2>2, <2>4, <2>5, AlikeAged
<1>15. Aged(kernel', kernel, 0)
  <2>1. 0 \in Ticks /\ 0 + 0 = 0 BY TicksAre
  <2>2. kernel' \in Kernels BY DEF KernelInv, TypeOK
  <2>3. Aged(kernel', kernel, 0 + 0) BY <1>9, <1>13, <1>14, <2>1, <2>2, AgedTwice
  <2> QED BY <2>1, <2>3
<1>16. kernel'.ticks <= MaxPended
  <2>1. \A u \in Task : call'[u].pc \notin Critical
    <3>1. \A u \in Task : call[u].pc \notin Critical BY <1>2, <1>5, Free
    <3>2. OneCall(t, call'[t]) /\ call'[t].pc = "app"
      BY <1>1, <1>2, ReturnIs DEF KernelInv
    <3> QED BY <3>1, <3>2 DEF OneCall, Others, Critical
  <2> QED BY <2>1, RunsOnTime
<1> QED BY <1>1, <1>5, <1>6, <1>15, <1>16, ReturnMoves

(* xQueueReceive and xQueueSemaphoreTake                                   *)
LEMMA FetchDeadlines ==
  ASSUME DeadlineInv, KernelInv', NEW t \in Task, Receive(t) \/ Take(t)
  PROVE  Deadlines'
<1>1. KernelInv BY DEF DeadlineInv
<1>2. PICK c \in Asked(t) :
        LET held == IF c.q \in Mutexes THEN [kernel EXCEPT !.held[t] = @ + 1] ELSE kernel
        IN  /\ c.op = "receive" /\ (c.q \in Mutexes => c.q \notin Mailboxes)
            /\ kernel' = PendSV(Wake(held, <<c.q, "send">>))
            /\ Return(t) /\ left' = left
  <2>1. CASE Receive(t)
    <3>1. PICK c \in Asked(t) :
            /\ c.op = "receive" /\ c.q \in Mailboxes
            /\ kernel' = PendSV(Wake(kernel, <<c.q, "send">>)) /\ Return(t) /\ left' = left
      BY <2>1 DEF Receive
    <3>2. c.q \notin Mutexes BY <3>1, HandlesAre
    <3> QED BY <3>1, <3>2
  <2>2. CASE Take(t) BY <2>2, HandlesAre DEF Take
  <2> QED BY <2>1, <2>2
<1>3. PICK q : q = c.q OBVIOUS
<1>4. PICK list : list = <<q, "send">> OBVIOUS
<1>5. Asks(t, c) /\ kernel.current = t /\ call[t].pc \notin Critical BY <1>1, AskedIs
<1>6. call[t].pc \notin Gone BY <1>5 DEF Critical, Gone
<1>7. q \in Handles /\ list \in Events
  BY <1>2, <1>3, <1>4, <1>5 DEF Asks, Sides, Events
<1>8. Running(kernel) BY <1>1, <1>5, Free
<1>9. kernel \in Kernels /\ ListsInv(kernel) /\ InTime(kernel)
  BY <1>1, KernelsAre DEF DeadlineInv, Deadlines
<1>10. PICK k : k = IF q \in Mutexes THEN [kernel EXCEPT !.held[t] = @ + 1] ELSE kernel
  OBVIOUS
<1>11. k \in Kernels /\ ListsInv(k) /\ Running(k) /\ Aged(k, kernel, 0)
  <2>1. CASE q \notin Mutexes
    <3>1. k = kernel BY <1>10, <2>1
    <3> QED BY <1>8, <1>9, <3>1, SameAged DEF SameTimes
  <2>2. CASE q \in Mutexes
    <3>1. kernel.held \in [Tasks -> Nat] /\ t \in Tasks
      BY <1>9, PrioritiesAre DEF Kernels
    <3>2. PICK n \in Nat : n = kernel.held[t] BY <3>1
    <3>3. PICK more \in Nat : more = kernel.held[t] + 1 BY <3>2
    <3>4. PICK held \in [Tasks -> Nat] : held = [kernel.held EXCEPT ![t] = more]
      BY <3>1, <3>3
    <3>5. k = [kernel EXCEPT !.held = held]
      <4>1. k = [kernel EXCEPT !.held[t] = @ + 1] BY <1>10, <2>2
      <4> QED BY <1>9, <3>3, <3>4, <4>1 DEF Kernels
    <3>6. /\ k \in Kernels /\ Alike(k, kernel) /\ SameTimes(k, kernel)
          /\ k.current = kernel.current
      BY <1>9, <3>5 DEF Kernels, Alike, SameTimes
    <3>7. ListsInv(k) /\ ReadyTasks(k) = ReadyTasks(kernel) BY <1>9, <3>6, AlikeLists
    <3>8. Running(k) BY <1>8, <3>6, <3>7 DEF Running, Alike
    <3>9. \A u : Awaits(k, u) => Awaits(kernel, u) BY <3>6 DEF Awaits, Listed, Alike
    <3> QED BY <1>9, <3>6, <3>7, <3>8, <3>9, SameAged
  <2> QED BY <2>1, <2>2
<1>12. kernel' = PendSV(Wake(k, list)) BY <1>2, <1>3, <1>4, <1>10
<1>13. Aged(kernel', kernel, 0)
  <2>1. 0 \in Ticks /\ 0 + 0 = 0 BY TicksAre
  <2>2. kernel' \in Kernels BY DEF KernelInv, TypeOK
  <2>3. InTime(k) BY <1>11 DEF Aged
  <2>4. Aged(kernel', k, 0) BY <1>7, <1>11, <1>12, <2>3, HandAges
  <2>5. Aged(kernel', kernel, 0 + 0) BY <1>9, <1>11, <2>1, <2>2, <2>4, AgedTwice
  <2> QED BY <2>1, <2>5
<1>14. kernel'.ticks <= MaxPended
  <2>1. \A u \in Task : call'[u].pc \notin Critical
    <3>1. \A u \in Task : call[u].pc \notin Critical BY <1>1, <1>5, Free
    <3>2. OneCall(t, call'[t]) /\ call'[t].pc = "app"
      BY <1>1, <1>2, ReturnIs DEF KernelInv
    <3> QED BY <3>1, <3>2 DEF OneCall, Others, Critical
  <2> QED BY <2>1, RunsOnTime
<1> QED BY <1>2, <1>5, <1>6, <1>13, <1>14, ReturnMoves

(* A call fails, or ends a sleep.                                          *)
LEMMA ReturnDeadlines ==
  ASSUME DeadlineInv, KernelInv', NEW t \in Task, Refused(t) \/ GiveUp(t) \/ Awake(t)
  PROVE  Deadlines'
<1>1. KernelInv BY DEF DeadlineInv
<1>2. kernel.current = t /\ call[t].pc \notin Critical
  <2>1. CASE Refused(t)
    <3>1. PICK c : c \in Asked(t) BY <2>1 DEF Refused
    <3> QED BY <1>1, <3>1, AskedIs
  <2>2. CASE GiveUp(t) \/ Awake(t) BY <2>2 DEF GiveUp, Awake, At, Critical
  <2> QED BY <2>1, <2>2
<1>3. call[t].pc \notin Gone BY <1>2 DEF Gone, Critical
<1>4. Return(t) /\ kernel' = kernel /\ left' = left BY DEF Refused, GiveUp, Awake
<1> QED BY <1>2, <1>3, <1>4, SameKernel, ReturnMoves

LEMMA GoesOnDeadlines ==
  ASSUME DeadlineInv, KernelInv', NEW t \in Task, TryAgain(t) \/ LookAgain(t)
  PROVE  Deadlines'
<1>1. PICK pc \in {"unlock", "test"} :
        /\ kernel.current = t /\ call[t].pc \in {"look", "last"} /\ Goto(t, pc)
        /\ kernel' = kernel /\ left' = left
  BY DEF TryAgain, LookAgain, At
<1>2. pc \in PCs /\ pc \notin {"app", "slept", "resume_delay", "look"} /\ pc \notin Late
  BY DEF PCs, Critical, Late
<1>3. call[t].pc \notin {"app", "slept", "resume_delay"} /\ call[t].pc \notin Gone
  BY <1>1 DEF Gone
<1> QED BY <1>1, <1>2, <1>3, SameKernel, GotoMoves

LEMMA SuspendDeadlines ==
  ASSUME DeadlineInv, KernelInv', NEW t \in Task, vTaskSuspendAll(t)
  PROVE  Deadlines'
<1>1. PICK pc \in {"lock"} :
        /\ kernel.current = t /\ call[t].pc = "suspend" /\ Goto(t, pc)
        /\ kernel' = [kernel EXCEPT !.suspended = TRUE] /\ left' = left
  BY DEF vTaskSuspendAll, At
<1>2. pc \in PCs /\ pc \notin {"app", "slept", "resume_delay", "look"} /\ pc \notin Late
  BY DEF PCs, Critical, Late
<1>3. call[t].pc \notin {"app", "slept", "resume_delay"} /\ call[t].pc \notin Gone
  BY <1>1 DEF Gone
<1>4. kernel \in Kernels /\ InTime(kernel) BY KernelsAre DEF DeadlineInv, Deadlines
<1>5. PICK l : l = kernel' OBVIOUS
<1>6. /\ SameTimes(l, kernel) /\ l.events = kernel.events /\ l.pending = kernel.pending
      /\ l.ticks = kernel.ticks
  BY <1>1, <1>4, <1>5 DEF Kernels, SameTimes
<1>7. \A u : Awaits(l, u) => Awaits(kernel, u) BY <1>6 DEF Awaits, Listed
<1>8. Aged(l, kernel, 0) BY <1>4, <1>6, <1>7, SameAged
<1>9. kernel'.ticks <= MaxPended BY <1>5, <1>6 DEF DeadlineInv, Deadlines
<1> QED BY <1>1, <1>2, <1>3, <1>5, <1>8, <1>9, GotoMoves

(* prvUnlockQueue                                                          *)
LEMMA UnlockDeadlines ==
  ASSUME DeadlineInv, KernelInv', NEW t \in Task, prvUnlockQueue(t)
  PROVE  Deadlines'
<1>1. KernelInv BY DEF DeadlineInv
<1>2. PICK q : q = call[t].q OBVIOUS
<1>3. /\ kernel.current = t /\ call[t].pc \in {"unlock", "unlock_blocked", "unlock_late"}
      /\ kernel' = Drain(Drain(kernel, <<q, "receive">>, queue[q].txLock), <<q, "send">>,
                         queue[q].rxLock)
      /\ Goto(t, After[call[t].pc]) /\ left' = left
  BY <1>2, AfterIs DEF prvUnlockQueue, At
<1>4. call[t].pc \in Critical BY <1>3 DEF Critical
<1>5. kernel.suspended BY <1>1, <1>3, <1>4, Busy
<1>6. Unlocked(t) BY <1>1, UnlockedIs
<1>7. /\ <<q, "receive">> \in Events /\ <<q, "send">> \in Events /\ queue[q].txLock \in Nat
      /\ queue[q].rxLock \in Nat
  BY <1>2, <1>6 DEF Unlocked, Events, Sides, queueLOCKED_UNMODIFIED
<1>8. kernel \in DrainKernels
  BY <1>1, <1>5, KernelsAre DEF DrainKernels, DeadlineInv, Deadlines
<1>9. PICK m : m = Drain(kernel, <<q, "receive">>, queue[q].txLock) OBVIOUS
<1>10. m \in DrainKernels /\ Aged(m, kernel, 0) BY <1>7, <1>8, <1>9, DrainAges
<1>11. kernel' = Drain(m, <<q, "send">>, queue[q].rxLock) BY <1>3, <1>9
<1>12. kernel' \in DrainKernels /\ Aged(kernel', m, 0) BY <1>7, <1>10, <1>11, DrainAges
<1>13. Aged(kernel', kernel, 0)
  <2>1. 0 \in Ticks /\ 0 + 0 = 0 BY TicksAre
  <2>2. kernel' \in Kernels /\ m \in Kernels /\ kernel \in Kernels
    BY <1>8, <1>10, <1>12 DEF DrainKernels
  <2>3. Aged(kernel', kernel, 0 + 0) BY <1>10, <1>12, <2>1, <2>2, AgedTwice
  <2> QED BY <2>1, <2>3
<1>14. kernel'.ticks <= MaxPended
  <2>1. kernel'.ticks = kernel.ticks BY <1>6 DEF Unlocked, Drained
  <2> QED BY <2>1 DEF DeadlineInv, Deadlines
<1>15. PICK pc : pc = After[call[t].pc] OBVIOUS
<1>16. /\ pc \in {"resume", "resume_blocked", "resume_late"}
       /\ call[t].pc = "unlock_blocked" => pc = "resume_blocked"
       /\ pc = "resume_late" => call[t].pc = "unlock_late"
  BY <1>3, <1>15, AfterIs
<1>17. pc \in PCs /\ pc \notin {"app", "slept", "resume_delay", "look"}
  BY <1>16 DEF PCs, Critical
<1>18. pc \in Late => call[t].xTicksToWait = 0
  <2>1. call[t].pc \in Late => call[t].xTicksToWait = 0
    BY DEF DeadlineInv, Deadlines, AllKept, Kept
  <2>2. pc \in Late => call[t].pc \in Late BY <1>16 DEF Late
  <2> QED BY <2>1, <2>2
<1>19. call[t].pc \notin Gone \/ pc \in Awaiting BY <1>3, <1>16 DEF Gone, Awaiting
<1>20. call[t].pc \notin {"app", "slept", "resume_delay"} BY <1>3
<1>21. Goto(t, pc) BY <1>3, <1>15
<1> QED BY <1>3, <1>13, <1>14, <1>17, <1>18, <1>19, <1>20, <1>21, GotoMoves

(* What a task asks for: what it has begun, or what is new.                *)
LEMMA AskedAnew ==
  ASSUME KernelInv, NEW t \in Task, NEW c \in Asked(t)
  PROVE  \/ call[t].pc = "test" /\ c = call[t]
         \/ /\ call[t].pc = "app" /\ ~c.set /\ ~c.wrapped
            /\ c.op = "delay" => c.xTicksToWait > 0
<1>1. kernel.current = t /\ call[t].pc \in {"app", "test"} BY DEF Asked, At
<1>2. CASE call[t].pc = "test"
  <2>1. c = call[t] BY <1>1, <1>2 DEF Asked, At
  <2> QED BY <1>2, <2>1
<1>3. CASE call[t].pc = "app"
  <2>1. PICK r \in Menu(t) : c = Called(r) BY <1>1, <1>3 DEF Asked, At
  <2>2. ~c.set /\ ~c.wrapped /\ c.op = r.op /\ c.xTicksToWait = r.xTicksToWait
    BY <2>1 DEF Called, NoCall
  <2>3. r.op = "delay" => r.xTicksToWait > 0
    <3>1. ASSUME NEW m \in Mutexes \cup {None}, r \in program[t][m]
          PROVE  r.op = "delay" => r.xTicksToWait > 0
      <4>1. program \in [Task -> [Mutexes \cup {None} -> SUBSET Requests]]
        BY CallsAssumption DEF KernelInv, TypeOK
      <4>2. program[t] \in [Mutexes \cup {None} -> SUBSET Requests] BY <4>1
      <4>3. r \in Requests BY <3>1, <4>2
      <4>4. r.op = "delay" => r.xTicksToWait \in Ticks \ {0} BY <4>3 DEF Requests, Sides
      <4>5. \A n \in Ticks \ {0} : n > 0
        <5>1. \A n \in Ticks : n \in Nat BY TicksAre
        <5> QED BY <5>1
      <4> QED BY <4>4, <4>5
    <3>2. \A m \in Inner(t) : m \in Mutexes BY DEF Inner, Held
    <3>3. \/ \E m \in Mutexes \cup {None} : r \in program[t][m]
          \/ \E m \in Inner(t) : r = [op |-> "send", q |-> m, xTicksToWait |-> 0]
      BY <2>1, <3>2 DEF Menu
    <3>4. \A m : [op |-> "send", q |-> m, xTicksToWait |-> 0].op # "delay" OBVIOUS
    <3> QED BY <3>1, <3>3, <3>4
  <2> QED BY <1>3, <2>2, <2>3
<1> QED BY <1>1, <1>2, <1>3

(* vTaskInternalSetTimeOutState                                            *)
LEMMA EnterDeadlines ==
  ASSUME DeadlineInv, KernelInv', NEW t \in Task, Enter(t)
  PROVE  Deadlines'
<1>1. KernelInv BY DEF DeadlineInv
<1>2. PICK c \in Asked(t) :
        LET starts == ~c.set /\ c.xTicksToWait # portMAX_DELAY
        IN  /\ c.op \in Sides
            /\ call' = [call EXCEPT ![t] =
                          [c EXCEPT !.pc = "suspend", !.set = c.set \/ starts,
                                    !.since = IF starts THEN kernel.tick ELSE c.since]]
            /\ left' = IF starts THEN [left EXCEPT ![t] = c.xTicksToWait] ELSE left
            /\ kernel' = kernel
  BY DEF Enter
<1>3. Asks(t, c) /\ kernel.current = t /\ call[t].pc \notin Critical BY <1>1, AskedIs
<1>4. call[t].pc \notin Gone BY <1>3 DEF Critical, Gone
<1>5. /\ ~Awaits(kernel, t) /\ t \notin ToSet(kernel.pending) /\ Rest(kernel, t) = 0
  BY <1>3, <1>4, RunsAwake
<1>6. /\ kernel \in Kernels /\ call \in [Task -> Calls] /\ left \in [Task -> Ticks]
      /\ InTime(kernel)
  BY <1>1, KernelsAre DEF DeadlineInv, Deadlines
<1>7. c \in Calls /\ kernel.tick \in Ticks BY <1>3, <1>6 DEF Asks, Kernels
<1>8. /\ c.set \in BOOLEAN /\ c.xTicksToWait \in Ticks /\ c.since \in Ticks
      /\ c.wrapped \in BOOLEAN
  BY <1>7 DEF Calls
<1>9. PICK starts \in BOOLEAN : starts = (~c.set /\ c.xTicksToWait # portMAX_DELAY)
  BY <1>8
<1>10. PICK set \in BOOLEAN : set = (c.set \/ starts) BY <1>8
<1>11. PICK since \in Ticks : since = IF starts THEN kernel.tick ELSE c.since BY <1>7, <1>8
<1>12. PICK d : d = [c EXCEPT !.pc = "suspend", !.set = set, !.since = since] OBVIOUS
<1>13. /\ d \in Calls /\ d.pc = "suspend" /\ d.set = set /\ d.since = since
       /\ d.wrapped = c.wrapped /\ d.xTicksToWait = c.xTicksToWait
  BY <1>7, <1>12 DEF Calls
<1>14. PICK mid : mid = call' OBVIOUS
<1>15. Moves(mid, t, d)
  <2>1. call' = [call EXCEPT ![t] = d] BY <1>2, <1>9, <1>10, <1>11, <1>12
  <2> QED BY <1>13, <1>14, <2>1, MovesIs
<1>16. PICK n : n = left'[t] OBVIOUS
<1>17. n = (IF starts THEN c.xTicksToWait ELSE left[t])
       /\ \A u \in Task : u # t => left'[u] = left[u]
  BY <1>2, <1>6, <1>9, <1>16
<1>18. Limited(d) => d.set /\ (~d.wrapped => d.since <= kernel.tick)
                     /\ n = Remains(d, kernel.tick)
  <2> SUFFICES ASSUME Limited(d)
               PROVE  d.set /\ (~d.wrapped => d.since <= kernel.tick)
                      /\ n = Remains(d, kernel.tick)
    OBVIOUS
  <2>1. c.xTicksToWait # portMAX_DELAY BY <1>13 DEF Limited
  <2>2. d.set BY <1>9, <1>10, <1>13, <2>1
  <2>3. CASE starts
    <3>1. ~c.wrapped
      <4>1. Limited(call[t]) => call[t].set BY DEF DeadlineInv, Deadlines, AllKept, Kept
      <4>2. c = call[t] /\ call[t].pc = "test" => Limited(call[t])
        BY <2>1 DEF Limited
      <4> QED BY <1>1, <1>9, <2>3, <4>1, <4>2, AskedAnew
    <3>2. PICK tick \in Nat : tick = kernel.tick BY <1>7, TicksAre
    <3>3. d.since = tick /\ tick <= tick BY <1>11, <1>13, <2>3, <3>2
    <3>4. Elapsed(tick, tick) = 0
      <4>1. tick \in Ticks BY <1>7, <3>2
      <4>2. Elapsed(tick, tick) = IF tick >= tick THEN tick - tick
                                  ELSE tick - tick + portMAX_DELAY + 1
        BY <4>1, ElapsedIs
      <4> QED BY <4>2
    <3>5. PICK wait \in Nat : wait = c.xTicksToWait BY <1>8, TicksAre
    <3>6. Less(wait, 0) = wait BY <3>5 DEF Less
    <3>7. Remains(d, tick) = wait
      BY <1>13, <3>1, <3>3, <3>4, <3>5, <3>6 DEF Remains
    <3> QED BY <1>17, <2>2, <2>3, <3>2, <3>3, <3>5, <3>7
  <2>4. CASE ~starts
    <3>1. c = call[t] /\ call[t].pc = "test" BY <1>1, <1>9, <2>1, <2>4, AskedAnew
    <3>2. Limited(c) BY <2>1, <3>1 DEF Limited
    <3>3. (~c.wrapped => c.since <= kernel.tick) /\ left[t] = Remains(c, kernel.tick)
      BY <3>1, <3>2 DEF DeadlineInv, Deadlines, AllKept, Kept
    <3>4. d.since = c.since BY <1>11, <1>13, <2>4
    <3>5. Remains(d, kernel.tick) = Remains(c, kernel.tick) BY <1>13, <3>4 DEF Remains
    <3> QED BY <1>13, <1>17, <2>2, <2>4, <3>3, <3>4, <3>5
  <2> QED BY <2>3, <2>4
<1>19. Kept(kernel, d, n, t)
  <2>1. ~(0 > 0) OBVIOUS
  <2> QED BY <1>5, <1>13, <1>18, <2>1 DEF Kept, Late
<1>20. ASSUME NEW u \in Task PROVE Kept(kernel', call'[u], left'[u], u)
  <2>1. CASE u = t
    <3>1. call'[u] = d /\ left'[u] = n BY <1>14, <1>15, <1>16, <2>1 DEF Moves
    <3> QED BY <1>2, <1>19, <2>1, <3>1
  <2>2. CASE u # t
    <3>1. call'[u] = call[u] /\ left'[u] = left[u] BY <1>14, <1>15, <1>17, <2>2 DEF Moves
    <3> QED BY <1>2, <3>1 DEF DeadlineInv, Deadlines, AllKept
  <2> QED BY <2>1, <2>2
<1>21. InTime(kernel') /\ kernel'.ticks <= MaxPended BY <1>2 DEF DeadlineInv, Deadlines
<1> QED BY <1>20, <1>21 DEF Deadlines, AllKept

(* xTaskCheckForTimeOut says it is over exactly when nothing is left.      *)
LEMMA LockDeadlines ==
  ASSUME DeadlineInv, KernelInv', NEW t \in Task, Lock(t)
  PROVE  Deadlines'
<1>1. KernelInv BY DEF DeadlineInv
<1>2. PICK c \in Calls : c = call[t] BY <1>1, KernelsAre
<1>3. /\ kernel.current = t /\ c.pc = "lock" /\ kernel' = kernel /\ left' = left
      /\ call' = [call EXCEPT ![t] =
                    IF TimedOut(c) THEN [c EXCEPT !.pc = "unlock_late", !.xTicksToWait = 0]
                    ELSE [StillWaiting(c) EXCEPT !.pc = "look"]]
  BY <1>2 DEF Lock, At
<1>4. c.pc \notin Gone BY <1>3 DEF Gone
<1>5. ~Awaits(kernel, t) /\ t \notin ToSet(kernel.pending) /\ Rest(kernel, t) = 0
  BY <1>2, <1>3, <1>4, RunsAwake
<1>6. kernel \in Kernels /\ kernel.tick \in Ticks BY <1>1, KernelsAre DEF Kernels
<1>7. /\ c.set \in BOOLEAN /\ c.xTicksToWait \in Ticks /\ c.since \in Ticks
      /\ c.wrapped \in BOOLEAN
  BY DEF Calls
<1>8. PICK max \in Nat \ {0} : max = portMAX_DELAY BY TickAssumption
<1>9. PICK tick \in 0 .. max : tick = kernel.tick BY <1>6, <1>8 DEF Ticks
<1>10. PICK wait \in 0 .. max : wait = c.xTicksToWait BY <1>7, <1>8 DEF Ticks
<1>11. PICK since \in 0 .. max : since = c.since BY <1>7, <1>8 DEF Ticks
<1>12. PICK gone \in Nat : gone = Elapsed(since, tick)
  <2>1. kernel.tick \in Int /\ c.since \in Int BY <1>6, <1>7, TicksAre
  <2>2. Elapsed(c.since, kernel.tick) \in Ticks BY <2>1, TicksAre
  <2> QED BY <1>9, <1>11, <2>2, TicksAre
<1>13. Limited(c) <=> wait # max BY <1>3, <1>8, <1>10 DEF Limited
<1>14. wait # max => c.set /\ (~c.wrapped => c.since <= kernel.tick)
                     /\ left[t] = Remains(c, kernel.tick)
  BY <1>2, <1>13 DEF DeadlineInv, Deadlines, AllKept, Kept
<1>15. Remains(c, kernel.tick) =
         IF c.wrapped /\ tick >= since THEN 0 ELSE IF wait > gone THEN wait - gone ELSE 0
  BY <1>9, <1>10, <1>11, <1>12 DEF Remains, Less
<1>16. TimedOut(c) <=> wait # max /\ ((c.wrapped /\ tick >= since) \/ gone >= wait)
  BY <1>8, <1>9, <1>10, <1>11, <1>12 DEF TimedOut
<1>17. 0 \in Ticks /\ ~(0 > 0) BY TicksAre
<1>18. PICK d \in Calls :
         call' = [call EXCEPT ![t] = d] /\ Kept(kernel, d, left[t], t)
  <2>1. CASE TimedOut(c)
    <3>1. PICK d : d = [c EXCEPT !.pc = "unlock_late", !.xTicksToWait = 0] OBVIOUS
    <3>2. /\ d \in Calls /\ d.pc = "unlock_late" /\ d.xTicksToWait = 0 /\ d.set = c.set
          /\ d.since = c.since /\ d.wrapped = c.wrapped
      BY <1>17, <3>1 DEF Calls, Critical
    <3>3. left[t] = 0 /\ c.set /\ (~c.wrapped => c.since <= kernel.tick)
      BY <1>14, <1>15, <1>16, <2>1
    <3>4. Remains(d, kernel.tick) = 0
      <4>1. Less(0, gone) = 0 BY DEF Less
      <4> QED BY <1>9, <1>11, <1>12, <3>2, <4>1 DEF Remains
    <3>5. Kept(kernel, d, left[t], t) BY <1>5, <1>17, <3>2, <3>3, <3>4 DEF Kept
    <3>6. call' = [call EXCEPT ![t] = d] BY <1>3, <2>1, <3>1
    <3> QED BY <3>2, <3>5, <3>6
  <2>2. CASE ~TimedOut(c) /\ wait = max
    <3>1. PICK d : d = [c EXCEPT !.pc = "look"] OBVIOUS
    <3>2. d \in Calls /\ d.pc = "look" /\ d.xTicksToWait = max
      BY <1>10, <2>2, <3>1 DEF Calls, Critical
    <3>3. StillWaiting(c) = c BY <1>8, <1>10, <2>2 DEF StillWaiting
    <3>4. ~Limited(d) BY <1>8, <3>2 DEF Limited
    <3>5. Kept(kernel, d, left[t], t) BY <1>5, <1>17, <3>2, <3>4 DEF Kept, Late
    <3>6. call' = [call EXCEPT ![t] = d] BY <1>3, <2>2, <3>1, <3>3
    <3> QED BY <3>2, <3>5, <3>6
  <2>3. CASE ~TimedOut(c) /\ wait # max
    <3>1. ~(c.wrapped /\ tick >= since) /\ wait > gone BY <1>16, <2>3
    <3>2. PICK rest \in 0 .. max : rest = wait - gone /\ rest > 0 BY <3>1
    <3>3. rest \in Ticks BY <1>8 DEF Ticks
    <3>4. PICK d : d = [c EXCEPT !.xTicksToWait = rest, !.since = tick, !.wrapped = FALSE,
                                 !.pc = "look"]
      OBVIOUS
    <3>5. /\ d \in Calls /\ d.pc = "look" /\ d.xTicksToWait = rest /\ d.since = tick
          /\ ~d.wrapped /\ d.set = c.set
      BY <1>6, <1>9, <3>3, <3>4 DEF Calls, Critical
    <3>6. [StillWaiting(c) EXCEPT !.pc = "look"] = d
      <4>1. StillWaiting(c) = [c EXCEPT !.xTicksToWait = rest, !.since = tick,
                                        !.wrapped = FALSE]
        <5>1. c.xTicksToWait # portMAX_DELAY BY <1>8, <1>10, <2>3
        <5>2. Elapsed(c.since, kernel.tick) = gone BY <1>9, <1>11, <1>12
        <5>3. c.xTicksToWait - gone = rest BY <1>10, <3>2
        <5> QED BY <1>9, <5>1, <5>2, <5>3 DEF StillWaiting, Calls
      <4> QED BY <3>4, <4>1 DEF Calls
    <3>7. left[t] = rest BY <1>14, <1>15, <2>3, <3>1, <3>2
    <3>8. Elapsed(tick, tick) = 0
      <4>1. tick \in Ticks BY <1>8 DEF Ticks
      <4>2. Elapsed(tick, tick) = IF tick >= tick THEN tick - tick
                                  ELSE tick - tick + portMAX_DELAY + 1
        BY <4>1, ElapsedIs
      <4>3. tick >= tick /\ tick - tick = 0 OBVIOUS
      <4> QED BY <4>2, <4>3
    <3>9. Less(rest, 0) = rest BY DEF Less
    <3>10. Remains(d, kernel.tick) = rest BY <1>9, <3>5, <3>8, <3>9 DEF Remains
    <3>11. d.since <= kernel.tick /\ d.since = kernel.tick BY <1>9, <3>5
    <3>12. d.set BY <1>14, <2>3, <3>5
    <3>13. Kept(kernel, d, left[t], t)
      BY <1>5, <1>17, <3>2, <3>5, <3>7, <3>10, <3>11, <3>12 DEF Kept, Late
    <3>14. call' = [call EXCEPT ![t] = d] BY <1>3, <2>3, <3>6
    <3> QED BY <3>5, <3>13, <3>14
  <2> QED BY <2>1, <2>2, <2>3
<1>19. PICK mid : mid = call' OBVIOUS
<1>20. Moves(mid, t, d) BY <1>18, <1>19, MovesIs
<1> QED BY <1>3, <1>5, <1>18, <1>19, <1>20, SameKernel, TaskMoves

(* What has not changed for a task stays true of its call.                 *)
LEMMA KeptStill ==
  ASSUME NEW k \in Kernels, NEW l \in Kernels, NEW t, NEW c \in Calls, NEW m \in Ticks,
         Kept(k, c, m, t), l.tick = k.tick, Awaits(l, t) => Awaits(k, t),
         Awaits(k, t) => c.pc \in Awaiting,
         Rest(l, t) = Rest(k, t) \/ (Rest(l, t) = 0 /\ Awaits(k, t))
  PROVE  Kept(l, c, m, t)
<1>1. k.tick \in Ticks /\ 0 \in Ticks /\ 0 + 0 \in Ticks BY TicksAre DEF Kernels
<1>2. PICK n \in Ticks : n = 0 BY <1>1
<1>3. l.tick = Later(k.tick, n) BY <1>1, <1>2, LaterTwice
<1>4. PICK x \in Nat : x = Rest(k, t) BY RestIs
<1>5. m \in Nat BY TicksAre
<1>6. 0 \in Nat OBVIOUS
<1>7. Less(x, n) = x /\ Less(m, n) = m BY <1>2, <1>5, <1>6, LessIs
<1>8. Rest(l, t) = Less(Rest(k, t), n) \/ (Rest(l, t) = 0 /\ Awaits(k, t))
  BY <1>4, <1>7
<1>9. Seen(k, l, c) = c BY SeenIs
<1>10. n = 0 \/ c.pc # "look" BY <1>2
<1>11. Kept(l, Seen(k, l, c), Less(m, n), t) BY <1>3, <1>8, <1>10, KeptAged
<1> QED BY <1>7, <1>9, <1>11

(* The current task puts itself away, from a kernel in which time stood still. *)
LEMMA SleepMoves ==
  ASSUME DeadlineInv, KernelInv', NEW t \in Task, NEW m \in Kernels, RingsInv(m),
         IsInjective(m.delayed), IsInjective(m.overflowed), InTime(m), t = m.current,
         m.tick = kernel.tick,
         \A u \in Task : u # t => Rest(m, u) = Rest(kernel, u)
                                  \/ (Rest(m, u) = 0 /\ Awaits(kernel, u)),
         NEW ticks \in Ticks, ticks > 0, NEW indefinitely \in BOOLEAN,
         kernel' = Delay(m, ticks, indefinitely),
         \A u \in Task : u # t /\ Awaits(kernel', u) => Awaits(kernel, u),
         kernel'.ticks <= MaxPended, NEW d, Moves(call', t, d),
         kernel'.tick = kernel.tick /\ Rest(kernel', t) = Allowed(ticks, indefinitely) =>
           Kept(kernel', d, left'[t], t),
         \A u \in Task : u # t => left'[u] = left[u]
  PROVE  Deadlines'
<1>1. PICK l : l = kernel' OBVIOUS
<1>2. l \in Kernels BY <1>1 DEF KernelInv, TypeOK
<1>3. Asleep(l, m, t, Allowed(ticks, indefinitely)) BY <1>1, DelaySleeps
<1>4. /\ InTime(l) /\ l.tick = kernel.tick /\ Rest(l, t) = Allowed(ticks, indefinitely)
      /\ \A u : u # t => Rest(l, u) = Rest(m, u)
  BY <1>3 DEF Asleep
<1>5. /\ kernel \in Kernels /\ call \in [Task -> Calls] /\ left \in [Task -> Ticks]
  BY KernelsAre DEF DeadlineInv
<1>6. ASSUME NEW u \in Task PROVE Kept(l, call'[u], left'[u], u)
  <2>1. CASE u = t
    <3>1. call'[u] = d BY <2>1 DEF Moves
    <3> QED BY <1>1, <1>4, <2>1, <3>1
  <2>2. CASE u # t
    <3>1. PICK c \in Calls : c = call[u] BY <1>5
    <3>2. PICK n \in Ticks : n = left[u] BY <1>5
    <3>3. call'[u] = c /\ left'[u] = n BY <2>2, <3>1, <3>2 DEF Moves
    <3>4. Kept(kernel, c, n, u) BY <3>1, <3>2 DEF DeadlineInv, Deadlines, AllKept
    <3>5. Awaits(kernel, u) => c.pc \in Awaiting BY <3>1, AwaitingIs
    <3>6. Awaits(l, u) => Awaits(kernel, u) BY <1>1, <2>2
    <3>7. Rest(l, u) = Rest(kernel, u) \/ (Rest(l, u) = 0 /\ Awaits(kernel, u))
      BY <1>4, <2>2
    <3>8. Kept(l, c, n, u) BY <1>2, <1>4, <1>5, <3>4, <3>5, <3>6, <3>7, KeptStill
    <3> QED BY <3>3, <3>8
  <2> QED BY <2>1, <2>2
<1> QED BY <1>1, <1>4, <1>6 DEF Deadlines, AllKept

(* vTaskDelay, up to xTaskResumeAll                                        *)
LEMMA DelayDeadlines ==
  ASSUME DeadlineInv, KernelInv', NEW t \in Task, vTaskDelay(t)
  PROVE  Deadlines'
<1>1. KernelInv BY DEF DeadlineInv
<1>2. PICK c \in Asked(t) :
        /\ c.op = "delay"
        /\ kernel' = Delay([kernel EXCEPT !.suspended = TRUE], c.xTicksToWait, FALSE)
        /\ left' = [left EXCEPT ![t] = c.xTicksToWait]
        /\ call' = [call EXCEPT ![t] = [c EXCEPT !.pc = "resume_delay"]]
  BY DEF vTaskDelay
<1>3. Asks(t, c) /\ kernel.current = t /\ call[t].pc \notin Critical BY <1>1, <1>2, AskedIs
<1>4. call[t].pc \notin Gone BY <1>3 DEF Critical, Gone
<1>5. t \in ReadyTasks(kernel) /\ t \notin ToSet(kernel.pending)
  BY <1>3, <1>4, RunsAwake
<1>6. /\ kernel \in Kernels /\ ListsInv(kernel) /\ InTime(kernel) /\ left \in [Task -> Ticks]
  BY <1>1, KernelsAre DEF DeadlineInv, Deadlines
<1>7. c \in Calls /\ "delay" \notin Sides BY <1>3 DEF Asks, Sides
<1>8. c.xTicksToWait > 0
  <2>1. call[t].pc # "test" BY <1>2, <1>3, <1>7, AskedAnew DEF Asks
  <2> QED BY <1>1, <1>2, <2>1, AskedAnew
<1>9. PICK ticks \in Ticks : ticks = c.xTicksToWait BY <1>7 DEF Calls
<1>10. PICK m : m = [kernel EXCEPT !.suspended = TRUE] OBVIOUS
<1>11. m \in Kernels /\ Alike(m, kernel) /\ SameTimes(m, kernel) /\ m.current = t
  BY <1>3, <1>6, <1>10 DEF Kernels, Alike, SameTimes
<1>12. /\ RingsInv(m) /\ IsInjective(m.delayed) /\ IsInjective(m.overflowed) /\ InTime(m)
       /\ \A u : Rest(m, u) = Rest(kernel, u)
  BY <1>6, <1>11, AlikeLists, SameTimesIs DEF ListsInv, WaitsInv
<1>13. PICK never \in BOOLEAN : never = FALSE OBVIOUS
<1>14. kernel' = Delay(m, ticks, never) BY <1>2, <1>9, <1>10, <1>13
<1>15. kernel'.ticks = kernel.ticks /\ kernel'.events = kernel.events
       /\ kernel'.pending = kernel.pending
  <2>1. kernel' = Delay([kernel EXCEPT !.suspended = TRUE], ticks, FALSE) BY <1>2, <1>9
  <2> QED BY <1>3, <1>5, <1>6, <2>1, TaskDelayIs
<1>16. PICK d : d = [c EXCEPT !.pc = "resume_delay"] OBVIOUS
<1>17. d \in Calls /\ d.pc = "resume_delay" BY <1>7, <1>16 DEF Calls, Critical
<1>18. PICK mid : mid = call' OBVIOUS
<1>19. Moves(mid, t, d) BY <1>2, <1>16, <1>17, <1>18, MovesIs
<1>20. left'[t] = ticks /\ \A u \in Task : u # t => left'[u] = left[u]
  BY <1>2, <1>6, <1>9
<1>21. ASSUME Rest(kernel', t) = Allowed(ticks, never) PROVE Kept(kernel', d, left'[t], t)
  <2>1. Rest(kernel', t) = left'[t] BY <1>13, <1>20, <1>21 DEF Allowed
  <2>2. t \notin ToSet(kernel'.pending) BY <1>5, <1>15
  <2>3. ~Limited(d) /\ d.pc \notin Late BY <1>17 DEF Limited, Late
  <2> QED BY <1>17, <2>1, <2>2, <2>3 DEF Kept
<1>22. \A u \in Task : Awaits(kernel', u) => Awaits(kernel, u)
  BY <1>15 DEF Awaits, Listed
<1>23. kernel'.ticks <= MaxPended BY <1>15 DEF DeadlineInv, Deadlines
<1>24. m.tick = kernel.tick BY <1>11 DEF SameTimes
<1>25. Moves(call', t, d) BY <1>18, <1>19
<1>26. ticks > 0 BY <1>8, <1>9
<1> QED BY <1>11, <1>12, <1>14, <1>20, <1>21, <1>22, <1>23, <1>24, <1>25, <1>26, SleepMoves

(* vTaskPlaceOnEventList                                                   *)
LEMMA PlaceDeadlines ==
  ASSUME DeadlineInv, KernelInv', NEW t \in Task, Place(t)
  PROVE  Deadlines'
<1>1. KernelInv BY DEF DeadlineInv
<1>2. PICK c \in Calls : c = call[t] BY <1>1, KernelsAre
<1>3. PICK pc \in {"unlock_blocked"} :
        /\ kernel.current = t /\ c.pc = "look" /\ Blocked(call[t])
        /\ kernel' = vTaskPlaceOnEventList(Heir(call[t]), Waiters(c), c.xTicksToWait)
        /\ Goto(t, pc) /\ left' = left
  BY <1>2 DEF Place, At, Heir
<1>4. c.pc \notin Gone BY <1>3 DEF Gone
<1>5. /\ kernel \in Kernels /\ ListsInv(kernel) /\ InTime(kernel) /\ left \in [Task -> Ticks]
  BY <1>1, KernelsAre DEF DeadlineInv, Deadlines
<1>6. PICK q : q = call[t].q OBVIOUS
<1>7. PICK list : list = Waiters(c) OBVIOUS
<1>8. Placed(t, q, list) /\ list \in Events BY <1>1, <1>2, <1>6, <1>7, PlacedIs
<1>9. PICK k : k = Heir(call[t]) OBVIOUS
<1>10. Repriced(k, kernel) /\ (q \notin Mutexes => k = kernel)
  BY <1>1, <1>2, <1>3, <1>6, <1>9, HeirIs
<1>11. /\ k \in Kernels /\ ListsInv(k) /\ k.current = t /\ k.events = kernel.events
       /\ k.pending = kernel.pending
  BY <1>3, <1>10 DEF Repriced
<1>12. Aged(k, kernel, 0)
  <2>1. CASE q \notin Mutexes
    <3>1. k = kernel BY <1>10, <2>1
    <3> QED BY <1>5, <3>1, SameAged DEF SameTimes
  <2>2. CASE q \in Mutexes
    <3>1. PICK h : h = queue[q].holder OBVIOUS
    <3>2. h \in Task /\ (kernel.priority[h] < kernel.priority[kernel.current]
                            => ~Listed(kernel, h))
      <4>1. queue[q].holder # None BY <1>1, <1>2, <1>6, <2>2, PlacedIs
      <4>2. h \in Task /\ h \in Tasks /\ (BasePriority[h] = Highest \/ ~Listed(kernel, h))
        BY <1>1, <2>2, <3>1, <4>1, HolderIs
      <4>3. CASE BasePriority[h] = Highest
        <5>1. kernel.priority[h] = Highest
          BY <1>1, <4>2, <4>3, BaseIs DEF KernelInv, MayCall
        <5>2. PICK p \in Nat : p = kernel.priority[kernel.current] /\ p <= Highest
          BY <1>5, HighestAre DEF Kernels
        <5>3. ~(kernel.priority[h] < kernel.priority[kernel.current])
          BY <5>1, <5>2, HighestAre
        <5> QED BY <4>2, <5>3
      <4> QED BY <4>2, <4>3
    <3>3. k = xTaskPriorityInherit(kernel, h) BY <1>6, <1>9, <2>2, <3>1 DEF Heir
    <3> QED BY <1>5, <3>2, <3>3, InheritAges
  <2> QED BY <2>1, <2>2
<1>13. PICK place : place = Insert(k.events[list], k.current, EventValue(k)) OBVIOUS
<1>14. PICK events : events = [k.events EXCEPT ![list] = place] OBVIOUS
<1>15. PICK m : m = [k EXCEPT !.events = events] OBVIOUS
<1>16. PICK ticks \in Ticks : ticks = c.xTicksToWait BY DEF Calls
<1>17. kernel' = Delay(m, ticks, TRUE)
  <2>1. m = [k EXCEPT !.events[list] = Insert(@, k.current, EventValue(k))]
    BY <1>11, <1>13, <1>14, <1>15 DEF Kernels
  <2> QED BY <1>3, <1>7, <1>9, <1>16, <2>1 DEF vTaskPlaceOnEventList
<1>18. /\ SameTimes(m, k) /\ m.current = t /\ m.ready = k.ready /\ m.priority = k.priority
       /\ m.pending = k.pending
  BY <1>11, <1>15 DEF Kernels, SameTimes
<1>19. events \in [Events -> Seq(Task)]
  <2>1. k.events \in [Events -> Seq(Task)] /\ k.priority \in [Tasks -> Priorities]
    BY <1>11 DEF Kernels
  <2>2. PICK value : value = EventValue(k) OBVIOUS
  <2>3. \A u \in Task : value[u] \in Int
    <3>1. \A p \in Priorities : p \in Int BY PrioritiesAre
    <3>2. \A u \in Task : value[u] = -k.priority[u] /\ k.priority[u] \in Int
      BY <2>1, <2>2, <3>1, PrioritiesAre DEF EventValue
    <3> QED BY <3>2
  <2>4. t \notin ToSet(k.events[list]) /\ IsInjective(k.events[list])
    <3>1. ~Awaits(kernel, t) BY <1>2, <1>3, <1>4, RunsAwake
    <3> QED BY <1>8, <1>11, <3>1 DEF Awaits, Listed, ListsInv, EventsInv
  <2>5. k.events[list] \in Seq(Task) BY <1>8, <2>1
  <2>6. place \in Seq(Task) BY <1>11, <1>13, <2>2, <2>3, <2>4, <2>5, InsertIs
  <2> QED BY <1>14, <2>1, <2>6
<1>20. m \in Kernels BY <1>11, <1>15, <1>19 DEF Kernels
<1>21. RingsInv(m)
  <2>1. ReadyTasks(m) = ReadyTasks(k) BY <1>18 DEF ReadyTasks
  <2> QED BY <1>11, <1>18, <2>1 DEF ListsInv, RingsInv
<1>22. IsInjective(m.delayed) /\ IsInjective(m.overflowed)
  BY <1>11, <1>18 DEF ListsInv, WaitsInv, SameTimes
<1>23. kernel.tick \in Ticks /\ 0 \in Ticks /\ 0 + 0 \in Ticks BY <1>5, TicksAre DEF Kernels
<1>24. InTime(m) /\ m.tick = kernel.tick
  <2>1. Later(kernel.tick, 0) = kernel.tick BY <1>23, LaterTwice
  <2> QED BY <1>12, <1>18, <2>1, SameTimesIs DEF Aged, SameTimes
<1>25. \A u : Rest(m, u) = Rest(kernel, u) \/ (Rest(m, u) = 0 /\ Awaits(kernel, u))
  <2>1. \A u : Rest(m, u) = Rest(k, u) BY <1>18, SameTimesIs
  <2>2. \A u : Rest(kernel, u) \in Nat BY <1>5, RestIs
  <2>3. \A n \in Nat : Less(n, 0) = n
    <3>1. 0 \in Nat OBVIOUS
    <3> QED BY <3>1, LessIs
  <2> QED BY <1>12, <2>1, <2>2, <2>3 DEF Aged
<1>26. /\ Kept(kernel, c, left[t], t)
  BY <1>2 DEF DeadlineInv, Deadlines, AllKept
<1>27. ticks > 0
  <2>1. portMAX_DELAY > 0 BY TickAssumption
  <2>2. ticks # portMAX_DELAY => Limited(c) BY <1>3, <1>16 DEF Limited
  <2> QED BY <1>3, <1>16, <1>26, <2>1, <2>2 DEF Kept
<1>28. ASSUME NEW u \in Task, u # t, Awaits(kernel', u) PROVE Awaits(kernel, u)
  <2>1. kernel'.pending = kernel.pending
    <3>1. kernel' = Delay(m, ticks, TRUE) BY <1>17
    <3>2. Delay(m, ticks, TRUE).pending = m.pending
      <4>1. PICK yes \in BOOLEAN : yes = TRUE OBVIOUS
      <4>2. ToSet(m.delayed) \cap ToSet(m.overflowed) = {}
        BY <1>11, <1>18 DEF ListsInv, WaitsInv, SameTimes
      <4>3. m.current \in Task BY <1>18
      <4>4. Delayed(Delay(m, ticks, yes), m)
        BY <1>20, <1>21, <1>22, <4>2, <4>3, DelayIs
      <4> QED BY <4>1, <4>4 DEF Delayed
    <3> QED BY <1>11, <1>18, <3>1, <3>2
  <2>2. \A other \in Events : u \in ToSet(kernel'.events[other]) =>
          u \in ToSet(kernel.events[other])
    BY <1>8, <1>28 DEF Placed
  <2> QED BY <1>28, <2>1, <2>2 DEF Awaits, Listed
<1>29. kernel'.ticks <= MaxPended BY <1>8 DEF Placed, DeadlineInv, Deadlines
<1>30. PICK d : d = [c EXCEPT !.pc = pc] OBVIOUS
<1>31. /\ d \in Calls /\ d.pc = "unlock_blocked" /\ d.set = c.set /\ d.since = c.since
       /\ d.wrapped = c.wrapped /\ d.xTicksToWait = c.xTicksToWait
  BY <1>3, <1>30 DEF Calls, Critical
<1>32. PICK mid : mid = call' OBVIOUS
<1>33. Moves(mid, t, d)
  <2>1. call' = [call EXCEPT ![t] = d] BY <1>2, <1>3, <1>30 DEF Goto
  <2> QED BY <1>31, <1>32, <2>1, MovesIs
<1>34. PICK yes \in BOOLEAN : yes = TRUE OBVIOUS
<1>35. ASSUME kernel'.tick = kernel.tick, Rest(kernel', t) = Allowed(ticks, yes)
       PROVE  Kept(kernel', d, left'[t], t)
  <2>1. Limited(d) <=> Limited(c) BY <1>3, <1>31 DEF Limited
  <2>2. Remains(d, kernel.tick) = Remains(c, kernel.tick) BY <1>31 DEF Remains
  <2>3. Limited(d) => d.set /\ (~d.wrapped => d.since <= kernel'.tick)
                      /\ left'[t] = Remains(d, kernel'.tick)
    BY <1>3, <1>26, <1>31, <1>35, <2>1, <2>2 DEF Kept
  <2>4. Rest(kernel', t) > 0 => left'[t] = Rest(kernel', t)
    <3> SUFFICES ASSUME Rest(kernel', t) > 0 PROVE left'[t] = Rest(kernel', t) OBVIOUS
    <3>1. ticks # portMAX_DELAY /\ Rest(kernel', t) = ticks
      <4>1. ~(0 > 0) OBVIOUS
      <4> QED BY <1>34, <1>35, <4>1 DEF Allowed
    <3>2. Limited(c) BY <1>3, <1>16, <3>1 DEF Limited
    <3>3. ~c.wrapped /\ c.since = kernel.tick /\ left[t] = Remains(c, kernel.tick)
      BY <1>3, <1>26, <3>2 DEF Kept
    <3>4. PICK tick \in Nat : tick = kernel.tick BY <1>23, TicksAre
    <3>5. Elapsed(tick, tick) = 0
      <4>1. tick \in Ticks BY <1>23, <3>4
      <4>2. Elapsed(tick, tick) = IF tick >= tick THEN tick - tick
                                  ELSE tick - tick + portMAX_DELAY + 1
        BY <4>1, ElapsedIs
      <4> QED BY <4>2
    <3>6. ticks \in Nat BY TicksAre
    <3>7. Less(ticks, 0) = ticks BY <3>6 DEF Less
    <3>8. Remains(c, kernel.tick) = ticks
      BY <1>16, <3>3, <3>4, <3>5, <3>7 DEF Remains
    <3> QED BY <1>3, <3>1, <3>3, <3>8
  <2> QED BY <1>31, <2>3, <2>4 DEF Kept, Awaiting, Late
<1>36. Moves(call', t, d) BY <1>32, <1>33
<1>37. kernel' = Delay(m, ticks, yes) BY <1>17, <1>34
<1>38. \A u \in Task : u # t => left'[u] = left[u] BY <1>3
<1>39. t = m.current BY <1>18
<1> QED BY <1>20, <1>21, <1>22, <1>24, <1>25, <1>27, <1>28, <1>29, <1>35, <1>36, <1>37, <1>38,
           <1>39, SleepMoves

(* A switch that was asked for changes nothing that has to do with time.   *)
LEMMA SwitchAges ==
  ASSUME NEW k, NEW out \in Kernels, ListsInv(out), NEW n, Aged(out, k, n),
         NEW pendsv \in BOOLEAN, NEW m, m = [out EXCEPT !.pendsv = pendsv], NEW l, l = PendSV(m)
  PROVE  Aged(l, k, n) /\ l.tick = out.tick
<1>1. m \in Kernels /\ ListsInv(m) BY RequestedIs
<1>2. SameTimes(m, out) /\ m.events = out.events /\ m.pending = out.pending
  BY DEF Kernels, SameTimes
<1>3. Aged(m, k, n) BY <1>2, AlikeAged
<1>4. SameTimes(l, m) /\ l.events = m.events /\ l.pending = m.pending
  BY <1>1, PendSVTimes, PendSVKeeps
<1>5. Aged(l, k, n) BY <1>3, <1>4, AlikeAged
<1> QED BY <1>2, <1>4, <1>5 DEF SameTimes

(* xTaskResumeAll: the ticks that were put off pass at once for all.       *)
LEMMA ResumeDeadlines ==
  ASSUME DeadlineInv, KernelInv', NEW t \in Task, Resume(t)
  PROVE  Deadlines'
<1>1. PICK next : next = [resume |-> "test", resume_blocked |-> "test", resume_late |-> "last",
                          resume_delay |-> "slept"]
  OBVIOUS
<1>2. /\ DOMAIN next = {"resume", "resume_blocked", "resume_late", "resume_delay"}
      /\ next["resume"] = "test" /\ next["resume_blocked"] = "test"
      /\ next["resume_late"] = "last" /\ next["resume_delay"] = "slept"
  BY <1>1
<1>3. PICK was : was = call[t].pc OBVIOUS
<1>4. PICK pc : pc = next[was] OBVIOUS
<1>5. PICK out : out = xTaskResumeAll(kernel) OBVIOUS
<1>6. PICK mid : mid = [call EXCEPT ![t].pc = pc] OBVIOUS
<1>7. /\ kernel.current = t /\ was \in DOMAIN next
      /\ kernel' = PendSV([out EXCEPT
                             !.pendsv = @ \/ was \in {"resume_blocked", "resume_delay"}])
      /\ call' = WrapSeen(kernel, out, mid) /\ left' = Left(kernel, out)
  BY <1>1, <1>3, <1>4, <1>5, <1>6 DEF Resume, At
<1> HIDE <1>1
<1>8. /\ \/ was \in {"resume", "resume_blocked"} /\ pc = "test"
         \/ was = "resume_late" /\ pc = "last"
         \/ was = "resume_delay" /\ pc = "slept"
      /\ was \in Critical /\ was \notin {"app", "slept"} /\ pc \notin Critical /\ pc # "look"
      /\ pc \in PCs /\ pc \notin {"app", "resume_delay"}
  BY <1>2, <1>4, <1>7 DEF Critical, PCs
<1>9. KernelInv BY DEF DeadlineInv
<1>10. /\ kernel \in Kernels /\ ListsInv(kernel) /\ InTime(kernel)
       /\ kernel.ticks <= MaxPended /\ left \in [Task -> Ticks]
  BY <1>9, KernelsAre DEF DeadlineInv, Deadlines
<1>11. \A u \in Task : call[u].pc \in Critical <=> u = t BY <1>3, <1>7, <1>8, <1>9, Busy
<1>12. PICK n \in Nat : n = kernel.ticks BY <1>10 DEF Kernels
<1>13. n \in Ticks
  <2>1. PICK max \in Nat \ {0} : max = portMAX_DELAY BY TickAssumption
  <2>2. MaxPended \in 1 .. max BY <2>1, QueueAssumption
  <2> QED BY <1>10, <1>12, <2>1, <2>2 DEF Ticks
<1>14. out \in Kernels /\ ListsInv(out) BY <1>5, <1>10, ResumeAllIs DEF Resumed
<1>15. Aged(out, kernel, n) BY <1>5, <1>10, <1>12, ResumeAllAges
<1>16. PICK pendsv \in BOOLEAN :
         pendsv = (out.pendsv \/ was \in {"resume_blocked", "resume_delay"})
  BY <1>14 DEF Kernels
<1>17. PICK m : m = [out EXCEPT !.pendsv = pendsv] OBVIOUS
<1>18. kernel' = PendSV(m) BY <1>7, <1>14, <1>16, <1>17 DEF Kernels
<1>19. Aged(kernel', kernel, n) /\ kernel'.tick = out.tick
  BY <1>14, <1>15, <1>17, <1>18, SwitchAges
<1>20. PICK c \in Calls : c = call[t] BY <1>9, KernelsAre
<1>21. PICK d : d = [c EXCEPT !.pc = pc] OBVIOUS
<1>22. Kept(kernel, c, left[t], t) /\ c.pc = was
  BY <1>3, <1>20 DEF DeadlineInv, Deadlines, AllKept
<1>23. Awaits(kernel, t) => was = "resume_blocked"
  BY <1>3, <1>8, AwaitingIs DEF Awaiting
<1>24. Awaits(kernel, t) => pc \in Awaiting BY <1>8, <1>23 DEF Awaiting
<1>25. d \in Calls /\ d.pc = pc /\ Kept(kernel, d, left[t], t)
  <2>1. t \in ToSet(kernel.pending) => pc \in Awaiting BY <1>24 DEF Awaits
  <2>2. CASE was # "resume_delay"
    <3>1. pc \in Late => c.xTicksToWait = 0 BY <1>8, <1>22 DEF Kept, Late
    <3>2. pc \notin {"app", "slept", "resume_delay", "look"} BY <1>8, <2>2
    <3>3. c.pc \notin {"app", "slept", "resume_delay"} BY <1>8, <1>22, <2>2
    <3> QED BY <1>8, <1>21, <1>22, <2>1, <3>1, <3>2, <3>3, MovesOn
  <2>3. CASE was = "resume_delay"
    <3>1. d \in Calls /\ d.pc = "slept" /\ pc = "slept" BY <1>8, <1>21, <2>3 DEF Calls
    <3>2. left[t] = Rest(kernel, t) BY <1>22, <2>3 DEF Kept
    <3>3. t \notin ToSet(kernel.pending) BY <2>1, <3>1 DEF Awaiting
    <3>4. ~Limited(d) /\ d.pc \notin Late BY <3>1 DEF Limited, Late
    <3> QED BY <3>1, <3>2, <3>3, <3>4 DEF Kept
  <2> QED BY <2>2, <2>3
<1>26. mid = [call EXCEPT ![t] = d] BY <1>6, <1>20, <1>21
<1>27. Moves(mid, t, d) BY <1>25, <1>26, MovesIs
<1>28. Calling(mid) BY <1>24, <1>25, <1>27, MovesCalling
<1>29. \A u \in Task : mid[u].pc # "look" /\ mid[u].pc \notin Critical
  <2>1. "look" \in Critical BY DEF Critical
  <2>2. \A u \in Task : mid[u].pc \notin Critical BY <1>8, <1>11, <1>25, <1>27 DEF Moves
  <2> QED BY <2>1, <2>2
<1>30. \A u \in Task : call'[u] = Seen(kernel, kernel', mid[u])
  <2>1. \A u \in Task : call'[u] = Seen(kernel, out, mid[u]) BY <1>7, WrapSeenIs
  <2>2. \A u \in Task : Seen(kernel, out, mid[u]) = Seen(kernel, kernel', mid[u])
    BY <1>19 DEF Seen
  <2> QED BY <2>1, <2>2
<1>31. \A u \in Task : left'[u] = Less(left[u], n)
  <2>1. out.tick = Later(kernel.tick, n) BY <1>15 DEF Aged
  <2> QED BY <1>7, <1>10, <1>13, <2>1, LeftLess
<1>32. kernel'.ticks <= MaxPended
  <2>1. mid \in [Task -> Calls] BY <1>27 DEF Moves
  <2>2. \A u \in Task : call'[u].pc = mid[u].pc BY <1>7, <2>1, WrapIs
  <2> QED BY <1>29, <2>2, RunsOnTime
<1> QED BY <1>13, <1>19, <1>28, <1>29, <1>30, <1>31, <1>32, AllAged

(* The tick passes for all, or is put off.                                 *)
LEMMA TickDeadlines ==
  ASSUME DeadlineInv, KernelInv', Tick
  PROVE  Deadlines'
<1>1. KernelInv BY DEF DeadlineInv
<1>2. /\ kernel \in Kernels /\ ListsInv(kernel) /\ InTime(kernel) /\ left \in [Task -> Ticks]
  BY <1>1, KernelsAre DEF DeadlineInv, Deadlines
<1>3. /\ ~kernel.pendsv
      /\ (kernel.suspended \/ (Running(kernel) /\ kernel.pending = <<>> /\ kernel.ticks = 0))
  BY <1>1 DEF KernelInv, ControlInv
<1>4. PICK required \in BOOLEAN : required = SwitchRequired(kernel)
  BY <1>2 DEF Kernels, SwitchRequired
<1>5. PICK on : on = IncrementTick(kernel) OBVIOUS
<1>6. PICK out : out = [on EXCEPT !.pendsv = required] OBVIOUS
<1>7. /\ kernel.ticks < MaxPended /\ kernel' = PendSV(out)
      /\ call' = WrapSeen(kernel, out, call) /\ left' = Left(kernel, out)
  BY <1>4, <1>5, <1>6 DEF Tick
<1>8. Ticked(kernel', kernel)
  <2>1. Ticked(PendSV([IncrementTick(kernel) EXCEPT !.pendsv = required]), kernel)
    BY <1>2, <1>3, <1>4, TickedIs
  <2> QED BY <1>5, <1>6, <1>7, <2>1
<1>9. Calling(call) BY CallingIs
<1>10. PICK n \in {0, 1} : n = IF kernel.suspended THEN 0 ELSE 1 BY DEF Kernels
<1>11. n \in Ticks
  <2>1. PICK max \in Nat \ {0} : max = portMAX_DELAY BY TickAssumption
  <2> QED BY <2>1 DEF Ticks
<1>12. /\ on \in Kernels /\ ListsInv(on) /\ Aged(on, kernel, n) /\ kernel'.ticks <= MaxPended
  <2>1. CASE kernel.suspended
    <3>1. PICK ticks \in Nat : ticks = kernel.ticks + 1 BY <1>2 DEF Kernels
    <3>2. on = [kernel EXCEPT !.ticks = ticks]
      <4>1. on = [kernel EXCEPT !.ticks = @ + 1] BY <1>5, <2>1 DEF IncrementTick
      <4> QED BY <1>2, <3>1, <4>1 DEF Kernels
    <3>3. /\ on \in Kernels /\ Alike(on, kernel) /\ SameTimes(on, kernel) /\ on.ticks = ticks
          /\ on.suspended
      BY <1>2, <2>1, <3>2 DEF Kernels, Alike, SameTimes
    <3>4. ListsInv(on) BY <1>2, <3>3, AlikeLists
    <3>5. \A u : Awaits(on, u) => Awaits(kernel, u) BY <3>3 DEF Awaits, Listed, Alike
    <3>6. Aged(on, kernel, n) BY <1>2, <1>10, <2>1, <3>3, <3>5, SameAged
    <3>7. out \in Kernels /\ ListsInv(out) /\ out.suspended /\ out.ticks = ticks
      BY <1>6, <3>3, <3>4, RequestedIs
    <3>8. PICK l : l = PendSV(out) OBVIOUS
    <3>9. l.ticks = ticks BY <3>7, <3>8, PendSVIs DEF Steady
    <3>10. kernel'.ticks <= MaxPended
      <4>1. PICK max \in Nat \ {0} : max = portMAX_DELAY BY TickAssumption
      <4>2. MaxPended \in 1 .. max BY <4>1, QueueAssumption
      <4>3. kernel.ticks \in Nat BY <1>2 DEF Kernels
      <4> QED BY <1>7, <3>1, <3>8, <3>9, <4>2, <4>3
    <3> QED BY <3>3, <3>4, <3>6, <3>10
  <2>2. CASE ~kernel.suspended
    <3>1. kernel.pending = <<>> BY <1>3, <2>2
    <3>2. Aged(on, kernel, n) BY <1>2, <1>5, <1>10, <2>2, <3>1, TickAges
    <3>3. on \in Kernels /\ ListsInv(on) BY <1>2, <1>5, <2>2, <3>1, TickIs DEF Wakes
    <3>4. ~kernel'.suspended BY <1>8, <2>2 DEF Ticked
    <3> QED BY <3>2, <3>3, <3>4, NothingPutOff
  <2> QED BY <2>1, <2>2
<1>13. Aged(kernel', kernel, n) /\ kernel'.tick = out.tick /\ on.tick = out.tick
  <2>1. PICK l : l = kernel' OBVIOUS
  <2>2. Aged(l, kernel, n) /\ l.tick = on.tick BY <1>6, <1>7, <1>12, <2>1, SwitchAges
  <2>3. on.tick = out.tick BY <1>6, <1>12 DEF Kernels
  <2> QED BY <2>1, <2>2, <2>3
<1>14. n = 0 \/ \A u \in Task : call[u].pc # "look"
  <2>1. CASE kernel.suspended BY <1>10, <2>1
  <2>2. CASE ~kernel.suspended
    <3>1. {u \in Task : call[u].pc \in Critical} = {}
      BY <1>1, <2>2 DEF KernelInv, ControlInv
    <3>2. "look" \in Critical BY DEF Critical
    <3> QED BY <3>1, <3>2
  <2> QED BY <2>1, <2>2
<1>15. \A u \in Task : call'[u] = Seen(kernel, kernel', call[u])
  <2>1. \A u \in Task : call'[u] = Seen(kernel, out, call[u]) BY <1>7, WrapSeenIs
  <2>2. \A u \in Task : Seen(kernel, out, call[u]) = Seen(kernel, kernel', call[u])
    BY <1>13 DEF Seen
  <2> QED BY <2>1, <2>2
<1>16. \A u \in Task : left'[u] = Less(left[u], n)
  <2>1. out.tick = Later(kernel.tick, n) BY <1>12, <1>13 DEF Aged
  <2> QED BY <1>2, <1>7, <1>11, <2>1, LeftLess
<1> QED BY <1>9, <1>11, <1>12, <1>13, <1>14, <1>15, <1>16, AllAged

(* An interrupt wakes one task at most, and takes no time.                 *)
LEMMA InterruptDeadlines ==
  ASSUME DeadlineInv, KernelInv', NEW q \in FromISR, GiveFromISR(q)
  PROVE  Deadlines'
<1>1. KernelInv BY DEF DeadlineInv
<1>2. PICK list : list = <<q, "receive">> OBVIOUS
<1>3. list \in Events BY <1>2, QueueAssumption DEF Handles, Events, Sides
<1>4. call' = call /\ left' = left BY DEF GiveFromISR
<1>5. Aged(kernel', kernel, 0) /\ kernel'.ticks <= MaxPended
  <2>1. CASE queue[q].txLock = queueUNLOCKED
    <3>1. kernel' = PendSV(Wake(kernel, list)) BY <1>2, <2>1 DEF GiveFromISR
    <3>2. /\ kernel \in Kernels /\ ListsInv(kernel) /\ InTime(kernel) /\ ~kernel.pendsv
          /\ (kernel.suspended \/ Running(kernel))
      BY <1>1, KernelsAre DEF DeadlineInv, Deadlines, KernelInv, ControlInv
    <3>3. Aged(kernel', kernel, 0) BY <1>3, <3>1, <3>2, HandAges
    <3>4. Told(kernel', kernel, list) BY <1>3, <3>1, <3>2, TellIs
    <3> QED BY <3>3, <3>4 DEF Told, DeadlineInv, Deadlines
  <2>2. CASE queue[q].txLock # queueUNLOCKED
    <3>1. kernel' = kernel BY <2>2 DEF GiveFromISR
    <3> QED BY <3>1, SameKernel
  <2> QED BY <2>1, <2>2
<1>6. PICK mid : mid = call OBVIOUS
<1>7. Calling(mid) BY <1>6, CallingIs
<1>8. \A t \in Task : call'[t] = mid[t] /\ left'[t] = left[t] BY <1>4, <1>6
<1> QED BY <1>5, <1>7, <1>8, NoneAged

LEMMA StutterDeadlines ==
  ASSUME DeadlineInv, KernelInv', UNCHANGED vars
  PROVE  Deadlines'
<1>1. kernel' = kernel /\ call' = call /\ left' = left BY DEF vars
<1>2. PICK mid : mid = call OBVIOUS
<1>3. Calling(mid) BY <1>2, CallingIs
<1>4. \A t \in Task : call'[t] = mid[t] /\ left'[t] = left[t] BY <1>1, <1>2
<1>5. Aged(kernel', kernel, 0) /\ kernel'.ticks <= MaxPended BY <1>1, SameKernel
<1> QED BY <1>3, <1>4, <1>5, NoneAged

-----------------------------------------------------------------------------
(* Every step *)

LEMMA DeadlineSteps ==
  ASSUME DeadlineInv, [Next]_vars
  PROVE  DeadlineInv'
<1>1. KernelInv' BY StepKeeps DEF DeadlineInv
<1>2. ASSUME NEW t \in Task, Step(t) PROVE Deadlines'
  <2>1. CASE Send(t) BY <1>1, <2>1, SendDeadlines
  <2>2. CASE Receive(t) \/ Take(t) BY <1>1, <2>2, FetchDeadlines
  <2>3. CASE Refused(t) \/ GiveUp(t) \/ Awake(t) BY <1>1, <2>3, ReturnDeadlines
  <2>4. CASE Enter(t) BY <1>1, <2>4, EnterDeadlines
  <2>5. CASE vTaskSuspendAll(t) BY <1>1, <2>5, SuspendDeadlines
  <2>6. CASE Lock(t) BY <1>1, <2>6, LockDeadlines
  <2>7. CASE Place(t) BY <1>1, <2>7, PlaceDeadlines
  <2>8. CASE TryAgain(t) \/ LookAgain(t) BY <1>1, <2>8, GoesOnDeadlines
  <2>9. CASE prvUnlockQueue(t) BY <1>1, <2>9, UnlockDeadlines
  <2>10. CASE vTaskDelay(t) BY <1>1, <2>10, DelayDeadlines
  <2>11. CASE Resume(t) BY <1>1, <2>11, ResumeDeadlines
  <2> QED BY <1>2, <2>1, <2>2, <2>3, <2>4, <2>5, <2>6, <2>7, <2>8, <2>9, <2>10, <2>11 DEF Step
<1>3. ASSUME NEW q \in FromISR, GiveFromISR(q) PROVE Deadlines'
  BY <1>1, <1>3, InterruptDeadlines
<1>4. ASSUME Tick PROVE Deadlines' BY <1>1, <1>4, TickDeadlines
<1>5. ASSUME UNCHANGED vars PROVE Deadlines' BY <1>1, <1>5, StutterDeadlines
<1>6. Deadlines' BY <1>2, <1>3, <1>4, <1>5 DEF Next
<1> QED BY <1>1, <1>6 DEF DeadlineInv

LEMMA DeadlineStart ==
  ASSUME Init
  PROVE  DeadlineInv
<1>1. KernelInv BY InitStep
<1>2. PICK k : k = kernel OBVIOUS
<1>3. /\ k \in Kernels /\ k.delayed = <<>> /\ k.overflowed = <<>> /\ k.pending = <<>>
      /\ k.ticks = 0
  <2>1. k.delayed = <<>> /\ k.overflowed = <<>> BY <1>2 DEF Init
  <2> QED BY <1>2, <2>1, InitKernel
<1>4. ToSet(<<>>) = {} BY DEF ToSet
<1>5. InTime(k)
  <2>1. DOMAIN <<>> = {} OBVIOUS
  <2>2. InOrder(k) BY <1>3, <2>1 DEF InOrder, Sorted
  <2> QED BY <1>3, <1>4, <2>2 DEF InTime
<1>6. k.ticks <= MaxPended
  <2>1. PICK max \in Nat \ {0} : max = portMAX_DELAY BY TickAssumption
  <2> QED BY <1>3, <2>1, QueueAssumption
<1>7. ASSUME NEW t \in Task PROVE Kept(k, call[t], left[t], t)
  <2>1. call[t] = NoCall BY DEF Init
  <2>2. Rest(k, t) = 0 /\ t \notin ToSet(k.pending) BY <1>3, <1>4 DEF Rest, Sleeping
  <2> QED BY <2>1, <2>2, NoCallKept
<1> QED BY <1>1, <1>2, <1>5, <1>6, <1>7 DEF DeadlineInv, Deadlines, AllKept

(* What is left of every wait with a limit is, between any two steps, both *)
(* what the delayed lists have of it and what the call itself will make of *)
(* the tick count: the invariant from which the deadlines follow.          *)
THEOREM DeadlineInvariant == Spec => []DeadlineInv
<1>1. Init => DeadlineInv BY DeadlineStart
<1>2. DeadlineInv /\ [Next]_vars => DeadlineInv' BY DeadlineSteps
<1> QED BY <1>1, <1>2, PTL DEF Spec

(* A wait with a limit of xQueueReceive or vTaskDelay ends when it was     *)
(* promised to: who sleeps has as much left as the caller was promised,    *)
(* who gives up has nothing left, and xTaskIncrementTick finds the delays  *)
(* in order and xNextTaskUnblockTime not after the first, however often    *)
(* the count wraps, a wait is taken up again or ticks are put off.         *)
THEOREM DeadlinesKeptAlways == Spec => []DeadlinesKept
<1>1. DeadlineInv => DeadlinesKept
  <2> SUFFICES ASSUME DeadlineInv PROVE DeadlinesKept OBVIOUS
  <2>1. PICK k \in Kernels : k = kernel BY KernelsAre DEF DeadlineInv
  <2>2. InTime(k) /\ left \in [Task -> Ticks] BY <2>1, KernelsAre DEF DeadlineInv, Deadlines
  <2>3. k.delayed # <<>> => k.unblock <= k.wake[k.delayed[1]]
    <3>1. k.delayed \in Seq(Task) BY DEF Kernels
    <3>2. k.delayed # <<>> => k.delayed[1] \in ToSet(k.delayed) BY <3>1, ToSetOf
    <3> QED BY <2>2, <3>2 DEF InTime
  <2>4. \A i, j \in DOMAIN k.delayed : i < j => k.wake[k.delayed[i]] <= k.wake[k.delayed[j]]
    BY <2>2 DEF InTime, InOrder, Sorted
  <2>5. \A t \in Task : Timed(t) <=> t \in Sleeping(k) BY <2>1 DEF Timed, Sleeping
  <2>6. \A t \in Task : Kept(k, call[t], left[t], t)
    BY <2>1 DEF DeadlineInv, Deadlines, AllKept
  <2>7. ASSUME NEW t \in Task, Timed(t)
        PROVE  left[t] > 0 /\ Elapsed(k.tick, k.wake[t]) = left[t]
    <3>1. t \in Sleeping(k) BY <2>5, <2>7
    <3>2. Rest(k, t) > 0 BY <2>2, <3>1, RestIs
    <3>3. left[t] = Rest(k, t) BY <2>6, <3>2 DEF Kept
    <3> QED BY <3>1, <3>2, <3>3 DEF Rest
  <2>8. ASSUME NEW t \in Task,
               call[t].pc \in {"unlock_late", "resume_late", "last", "slept"}
        PROVE  Timed(t) \/ left[t] = 0
    <3>1. CASE call[t].pc = "slept"
      <4>1. left[t] = Rest(k, t) BY <2>6, <3>1 DEF Kept
      <4>2. Rest(k, t) = 0 \/ t \in Sleeping(k) BY DEF Rest
      <4> QED BY <2>5, <4>1, <4>2
    <3>2. CASE call[t].pc \in Late
      <4>1. PICK c : c = call[t] OBVIOUS
      <4>2. Kept(k, c, left[t], t) /\ c.pc \in Late BY <2>6, <3>2, <4>1
      <4>3. c.xTicksToWait = 0 BY <4>2 DEF Kept
      <4>4. 0 # portMAX_DELAY BY TickAssumption
      <4>5. Limited(c) BY <4>2, <4>3, <4>4 DEF Limited, Late
      <4>6. left[t] = Remains(c, k.tick) BY <4>2, <4>5 DEF Kept
      <4>7. Less(0, Elapsed(c.since, k.tick)) = 0
        <5>1. c \in Calls BY <4>1, KernelsAre DEF DeadlineInv
        <5>2. c.since \in Ticks /\ k.tick \in Ticks BY <5>1 DEF Calls, Kernels
        <5>3. PICK n \in Nat : n = Elapsed(c.since, k.tick)
          <6>1. c.since \in Int /\ k.tick \in Int BY <5>2, TicksAre
          <6> QED BY <6>1, TicksAre
        <5>4. Less(0, n) = 0
          <6>1. 0 \in Nat OBVIOUS
          <6> QED BY <6>1, LessIs
        <5> QED BY <5>3, <5>4
      <4> QED BY <4>3, <4>6, <4>7 DEF Remains
    <3> QED BY <2>8, <3>1, <3>2 DEF Late
  <2> QED BY <2>1, <2>3, <2>4, <2>7, <2>8 DEF DeadlinesKept
<1> QED BY <1>1, DeadlineInvariant, PTL
=============================================================================
