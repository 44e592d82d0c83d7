----------------------------- MODULE QueueProofs -----------------------------
(***************************************************************************)
(* KernelInv is an invariant for any tasks, queues, programs and lengths,  *)
(* and with it the scheduler runs the highest task that is ready, no task  *)
(* waits for a mutex of one with less priority, and no wake-up is lost.    *)
(* With the order of the store, Queue implements Buffers.                  *)
(***************************************************************************)
EXTENDS Queue, FiniteSetTheorems, SequenceTheorems, WellFoundedInduction, TLAPS

-----------------------------------------------------------------------------
(* Induction up to a bound, for the loops of the kernel *)

LessNat == {pair \in Nat \X Nat : pair[1] < pair[2]}

LEMMA Least ==
  ASSUME NEW S \in SUBSET Nat, S # {}
  PROVE  \E n \in S : \A k \in S : n <= k
<1>1. \A x, y \in Nat : <<y, x>> \in LessNat <=> y < x BY DEF LessNat
<1>2. IsWellFoundedOn(LessNat, Nat)
  BY NatLessThanWellFounded, Zenon DEF LessNat, OpToRel
<1>3. PICK n \in S : \A k \in S : ~(<<k, n>> \in LessNat) BY <1>2, WFMin
<1>4. \A k \in S : ~(k < n) BY <1>1, <1>3
<1> QED BY <1>4

(* What holds before a loop and is kept by each round holds after it.      *)
LEMMA Rounds ==
  ASSUME NEW n \in Nat, NEW S, 0 \in S,
         \A i \in 1 .. n : i - 1 \in S => i \in S
  PROVE  n \in S
<1>1. SUFFICES ASSUME n \notin S PROVE FALSE OBVIOUS
<1> DEFINE out == {i \in 0 .. n : i \notin S}
<1>2. PICK i \in out : \A k \in out : i <= k
  <2>1. out \in SUBSET Nat /\ n \in out BY <1>1
  <2> HIDE DEF out
  <2> QED BY <2>1, Least
<1>3. i \in 1 .. n /\ i - 1 \in 0 .. n BY <1>2
<1>4. i - 1 \in S BY <1>2, <1>3
<1> QED BY <1>2, <1>3, <1>4

(* A loop of n rounds has a result: step is what a round makes of it.      *)
Loops(f, n, k, step) ==
  \A i \in 0 .. n : f[i] = IF i = 0 THEN k ELSE step[<<f[i - 1], i>>]

LEMMA LoopRuns ==
  ASSUME NEW n \in Nat, NEW K, NEW k \in K, NEW step \in [K \X (1 .. n) -> K]
  PROVE  \E f \in [0 .. n -> K] : Loops(f, n, k, step)
<1> DEFINE Runs(f, m) ==
             f = [i \in 0 .. m |-> IF i = 0 THEN k ELSE step[<<f[i - 1], i>>]]
           S == {m \in 0 .. n : \E f \in [0 .. m -> K] : Runs(f, m)}
<1>1. 0 \in S
  <2> DEFINE f == [i \in 0 .. 0 |-> k]
  <2>1. f \in [0 .. 0 -> K] OBVIOUS
  <2>2. Runs(f, 0) OBVIOUS
  <2>3. 0 \in 0 .. n OBVIOUS
  <2> HIDE DEF f
  <2> QED BY <2>1, <2>2, <2>3
<1>2. ASSUME NEW m \in 1 .. n, m - 1 \in S PROVE m \in S
  <2>1. PICK f \in [0 .. m - 1 -> K] : Runs(f, m - 1) BY <1>2
  <2> DEFINE last == step[<<f[m - 1], m>>]
             g == [i \in 0 .. m |-> IF i = m THEN last ELSE f[i]]
  <2>2. m \in Nat /\ m # 0 /\ m - 1 \in 0 .. m - 1 /\ m - 1 # m /\ m - 1 \in 0 .. m OBVIOUS
  <2>3. last \in K
    <3>1. <<f[m - 1], m>> \in K \X (1 .. n) BY <2>1, <2>2
    <3> QED BY <3>1
  <2>4. \A i \in 0 .. m - 1 : i \in 0 .. m /\ i # m BY <2>2
  <2>5. \A i \in 0 .. m : i # m => i \in 0 .. m - 1 BY <2>2
  <2> HIDE DEF last
  <2>6. g \in [0 .. m -> K] BY <2>1, <2>3, <2>5
  <2>7. ASSUME NEW i \in 0 .. m
        PROVE  g[i] = IF i = 0 THEN k ELSE step[<<g[i - 1], i>>]
    <3>1. CASE i = m
      <4>1. g[i] = last /\ g[i - 1] = f[m - 1] /\ i # 0 BY <2>2, <3>1
      <4> QED BY <3>1, <4>1 DEF last
    <3>2. CASE i # m
      <4>1. i \in 0 .. m - 1 /\ g[i] = f[i] BY <2>5, <3>2
      <4>2. f[i] = IF i = 0 THEN k ELSE step[<<f[i - 1], i>>] BY <2>1, <4>1
      <4>3. i # 0 => i - 1 \in 0 .. m /\ i - 1 # m BY <4>1
      <4>4. i # 0 => g[i - 1] = f[i - 1] BY <4>3
      <4> QED BY <4>1, <4>2, <4>4
    <3> QED BY <3>1, <3>2
  <2>8. Runs(g, m)
    <3> HIDE DEF g
    <3>1. DOMAIN g = 0 .. m BY <2>6
    <3>2. g = [i \in 0 .. m |-> g[i]] BY <2>6
    <3> QED BY <2>7, <3>2
  <2> HIDE DEF g
  <2>9. m \in 0 .. n OBVIOUS
  <2> QED BY <2>6, <2>8, <2>9
<1>3. n \in S
  <2> HIDE DEF S
  <2> QED BY <1>1, <1>2, Rounds
<1>4. PICK f \in [0 .. n -> K] : Runs(f, n) BY <1>3
<1>5. Loops(f, n, k, step) BY <1>4 DEF Loops
<1> QED BY <1>5

-----------------------------------------------------------------------------
(* Lists *)

(* What an element of a list is, and that a list is as long as its set.    *)
LEMMA ToSetOf ==
  ASSUME NEW S, NEW list \in Seq(S)
  PROVE  /\ Len(list) \in Nat /\ DOMAIN list = 1 .. Len(list)
         /\ ToSet(list) \subseteq S
         /\ \A i \in DOMAIN list : list[i] \in ToSet(list)
         /\ \A x \in ToSet(list) : \E i \in DOMAIN list : list[i] = x
         /\ ToSet(list) = {} <=> list = <<>>
<1>1. Len(list) \in Nat /\ DOMAIN list = 1 .. Len(list) /\ \A i \in DOMAIN list : list[i] \in S
  BY LenProperties
<1>2. list # <<>> => 1 \in DOMAIN list BY <1>1, EmptySeq
<1>3. list = <<>> => DOMAIN list = {} OBVIOUS
<1> QED BY <1>1, <1>2, <1>3 DEF ToSet

LEMMA LengthIsCount ==
  ASSUME NEW S, NEW list \in Seq(S), IsInjective(list)
  PROVE  IsFiniteSet(ToSet(list)) /\ Cardinality(ToSet(list)) = Len(list)
<1>1. /\ Len(list) \in Nat /\ DOMAIN list = 1 .. Len(list)
      /\ list \in [1 .. Len(list) -> ToSet(list)]
  BY ToSetOf, LenProperties
<1>2. list \in Bijection(1 .. Len(list), ToSet(list))
  BY <1>1, ToSetOf DEF Bijection, Injection, Surjection, IsInjective
<1>3. ExistsBijection(1 .. Len(list), ToSet(list)) BY <1>2 DEF ExistsBijection
<1>4. IsFiniteSet(ToSet(list)) BY <1>1, <1>3, FS_NatBijection
<1> QED BY <1>1, <1>3, <1>4, FS_CountingElements

(* A list whose element i is what another has at[i], no two at one place.  *)
Reindexes(at, m, list, X) ==
  /\ at \in [DOMAIN m -> DOMAIN list] /\ IsInjective(at)
  /\ \A i \in DOMAIN m : m[i] = list[at[i]]
  /\ \A a \in DOMAIN list : list[a] \in X <=> ~(\E i \in DOMAIN m : at[i] = a)

LEMMA Reindexed ==
  ASSUME NEW S, NEW list \in Seq(S), IsInjective(list),
         NEW m \in Seq(S), NEW at, NEW X, Reindexes(at, m, list, X)
  PROVE  IsInjective(m) /\ ToSet(m) = ToSet(list) \ X
<1> USE DEF Reindexes
<1>1. IsInjective(m) BY DEF IsInjective
<1>2. ASSUME NEW x \in ToSet(m) PROVE x \in ToSet(list) \ X
  <2>1. PICK i \in DOMAIN m : m[i] = x BY ToSetOf
  <2>2. x = list[at[i]] /\ at[i] \in DOMAIN list BY <2>1
  <2>3. x \notin X BY <2>2
  <2> QED BY <2>2, <2>3 DEF ToSet
<1>3. ASSUME NEW x \in ToSet(list) \ X PROVE x \in ToSet(m)
  <2>1. PICK a \in DOMAIN list : list[a] = x BY ToSetOf
  <2>2. PICK i \in DOMAIN m : at[i] = a BY <2>1
  <2> QED BY <2>1, <2>2 DEF ToSet
<1> QED BY <1>1, <1>2, <1>3

\* sub has of list all but t, in the order of list.
Lacks(sub, list, t) ==
  /\ IsInjective(sub) /\ ToSet(sub) = ToSet(list) \ {t}
  /\ \A i, j \in DOMAIN sub : i < j =>
       \E a, b \in DOMAIN list : a < b /\ sub[i] = list[a] /\ sub[j] = list[b]

LEMMA RemoveAtIs ==
  ASSUME NEW S, NEW list \in Seq(S), NEW n \in DOMAIN list
  PROVE  /\ RemoveAt(list, n) \in Seq(S) /\ DOMAIN RemoveAt(list, n) = 1 .. Len(list) - 1
         /\ Len(RemoveAt(list, n)) = Len(list) - 1
         /\ \A i \in 1 .. Len(list) - 1 :
              RemoveAt(list, n)[i] = list[IF i < n THEN i ELSE i + 1]
<1>1. /\ Len(list) \in Nat /\ n \in Int /\ 1 <= n /\ n <= Len(list)
      /\ \A i \in 1 .. Len(list) : list[i] \in S
  BY LenProperties
<1> DEFINE front == SubSeq(list, 1, n - 1)
           back == SubSeq(list, n + 1, Len(list))
<1>2. front \in Seq(S) /\ Len(front) = n - 1 /\ \A i \in 1 .. n - 1 : front[i] = list[i]
  <2>1. \A i \in 1 .. n - 1 : list[i] \in S BY <1>1
  <2> QED BY <1>1, <2>1, SubSeqProperties
<1>3. /\ back \in Seq(S) /\ Len(back) = Len(list) - n
      /\ \A i \in 1 .. Len(list) - n : back[i] = list[n + i]
  <2>1. \A i \in n + 1 .. Len(list) : list[i] \in S BY <1>1
  <2>2. /\ back \in Seq(S) /\ Len(back) = IF n + 1 <= Len(list) THEN Len(list) - (n + 1) + 1 ELSE 0
        /\ \A i \in 1 .. Len(list) - (n + 1) + 1 : back[i] = list[n + 1 + i - 1]
    BY <1>1, <2>1, SubSeqProperties
  <2> HIDE DEF back
  <2> QED BY <1>1, <2>2
<1>4. RemoveAt(list, n) = front \o back BY DEF RemoveAt
<1> HIDE DEF front, back
<1>5. /\ front \o back \in Seq(S) /\ Len(front \o back) = Len(front) + Len(back)
      /\ \A i \in 1 .. Len(front) + Len(back) :
           (front \o back)[i] = IF i <= Len(front) THEN front[i] ELSE back[i - Len(front)]
  BY <1>2, <1>3, ConcatProperties
<1>6. ASSUME NEW i \in 1 .. Len(list) - 1
      PROVE  (front \o back)[i] = list[IF i < n THEN i ELSE i + 1]
  <2>1. CASE i < n
    <3>1. /\ i \in 1 .. n - 1 /\ i <= Len(front) /\ i \in 1 .. Len(front) + Len(back)
      BY <1>1, <1>2, <1>3, <2>1
    <3>2. (front \o back)[i] = front[i] BY <1>5, <3>1
    <3> QED BY <1>2, <2>1, <3>1, <3>2
  <2>2. CASE ~(i < n)
    <3>1. i - (n - 1) \in 1 .. Len(list) - n /\ n + (i - (n - 1)) = i + 1 BY <1>1, <2>2
    <3>2. back[i - (n - 1)] = list[i + 1] BY <1>3, <3>1
    <3>3. /\ i \in 1 .. Len(front) + Len(back) /\ ~(i <= Len(front))
          /\ i - Len(front) = i - (n - 1)
      BY <1>1, <1>2, <1>3, <2>2
    <3>4. (front \o back)[i] = back[i - (n - 1)] BY <1>5, <3>3
    <3> QED BY <2>2, <3>2, <3>4
  <2> QED BY <2>1, <2>2
<1>7. Len(front \o back) = Len(list) - 1 BY <1>1, <1>2, <1>3, <1>5
<1>8. DOMAIN (front \o back) = 1 .. Len(list) - 1 BY <1>5, <1>7, LenProperties
<1> QED BY <1>4, <1>5, <1>6, <1>7, <1>8

(* uxListRemove takes an element out and leaves the others in their order. *)
LEMMA WithoutIs ==
  ASSUME NEW S, NEW list \in Seq(S), IsInjective(list), NEW t
  PROVE  Without(list, t) \in Seq(S) /\ Lacks(Without(list, t), list, t)
<1>1. CASE t \notin ToSet(list)
  <2>1. Without(list, t) = list BY <1>1 DEF Without
  <2> QED BY <1>1, <2>1 DEF Lacks
<1>2. CASE t \in ToSet(list)
  <2>1. PICK n \in DOMAIN list : list[n] = t /\ Without(list, t) = RemoveAt(list, n)
    BY <1>2 DEF ToSet, Without
  <2>2. PICK sub : sub = RemoveAt(list, n) OBVIOUS
  <2>3. /\ Len(list) \in Nat /\ DOMAIN list = 1 .. Len(list) /\ n \in 1 .. Len(list)
        /\ sub \in Seq(S) /\ DOMAIN sub = 1 .. Len(list) - 1
        /\ \A i \in DOMAIN sub : sub[i] = list[IF i < n THEN i ELSE i + 1]
    BY <2>1, <2>2, RemoveAtIs, LenProperties
  <2> DEFINE at == [i \in DOMAIN sub |-> IF i < n THEN i ELSE i + 1]
  <2>4. at \in [DOMAIN sub -> DOMAIN list] BY <2>3
  <2>5. \A i, j \in DOMAIN sub : i < j => at[i] < at[j] BY <2>3
  <2>6. IsInjective(at) BY <2>3 DEF IsInjective
  <2>7. \A i \in DOMAIN sub : sub[i] = list[at[i]] BY <2>3
  <2>8. ASSUME NEW a \in DOMAIN list
        PROVE  list[a] \in {t} <=> ~(\E i \in DOMAIN sub : at[i] = a)
    <3>1. a # n => \E i \in DOMAIN sub : at[i] = a
      <4>0. HAVE a # n
      <4>1. PICK i \in DOMAIN sub : i = IF a < n THEN a ELSE a - 1 BY <2>3, <4>0
      <4> QED BY <2>3, <4>0, <4>1
    <3>2. ~(\E i \in DOMAIN sub : at[i] = n) BY <2>3
    <3>3. list[a] = t <=> a = n BY <2>1 DEF IsInjective
    <3> QED BY <3>1, <3>2, <3>3
  <2> HIDE DEF at
  <2>9. IsInjective(sub) /\ ToSet(sub) = ToSet(list) \ {t}
    <3>1. Reindexes(at, sub, list, {t}) BY <2>4, <2>6, <2>7, <2>8 DEF Reindexes
    <3> QED BY <2>3, <3>1, Reindexed
  <2>10. ASSUME NEW i \in DOMAIN sub, NEW j \in DOMAIN sub, i < j
         PROVE  \E a, b \in DOMAIN list : a < b /\ sub[i] = list[a] /\ sub[j] = list[b]
    BY <2>4, <2>5, <2>7, <2>10
  <2> QED BY <2>1, <2>2, <2>3, <2>9, <2>10 DEF Lacks
<1> QED BY <1>1, <1>2

LEMMA TailIs ==
  ASSUME NEW S, NEW list \in Seq(S), IsInjective(list), list # <<>>
  PROVE  /\ Tail(list) \in Seq(S) /\ Lacks(Tail(list), list, list[1])
         /\ Len(Tail(list)) = Len(list) - 1
         /\ 1 \in DOMAIN list /\ list[1] \in ToSet(list) /\ list[1] \in S
<1>1. PICK sub : sub = Tail(list) OBVIOUS
<1>2. /\ Len(list) \in Nat \ {0} /\ DOMAIN list = 1 .. Len(list)
      /\ sub \in Seq(S) /\ Len(sub) = Len(list) - 1 /\ DOMAIN sub = 1 .. Len(list) - 1
      /\ \A i \in DOMAIN sub : sub[i] = list[i + 1]
      /\ 1 \in DOMAIN list /\ list[1] \in S
  <2>1. Len(list) \in Nat \ {0} BY EmptySeq
  <2>2. /\ sub \in Seq(S) /\ Len(sub) = Len(list) - 1
        /\ \A i \in 1 .. Len(sub) : sub[i] = list[i + 1]
    BY <1>1, HeadTailProperties
  <2>3. DOMAIN list = 1 .. Len(list) /\ DOMAIN sub = 1 .. Len(sub) BY <2>2, LenProperties
  <2> QED BY <2>1, <2>2, <2>3, LenProperties
<1> DEFINE at == [i \in DOMAIN sub |-> i + 1]
<1>3. at \in [DOMAIN sub -> DOMAIN list] BY <1>2
<1>4. \A i, j \in DOMAIN sub : i < j => at[i] < at[j] BY <1>2
<1>5. IsInjective(at) BY <1>2 DEF IsInjective
<1>6. \A i \in DOMAIN sub : sub[i] = list[at[i]] BY <1>2
<1>7. ASSUME NEW a \in DOMAIN list
      PROVE  list[a] \in {list[1]} <=> ~(\E i \in DOMAIN sub : at[i] = a)
  <2>1. a # 1 => a - 1 \in DOMAIN sub /\ (a - 1) + 1 = a BY <1>2
  <2>2. ~(\E i \in DOMAIN sub : at[i] = 1) BY <1>2
  <2>3. list[a] = list[1] <=> a = 1 BY <1>2 DEF IsInjective
  <2> QED BY <2>1, <2>2, <2>3
<1> HIDE DEF at
<1>8. IsInjective(sub) /\ ToSet(sub) = ToSet(list) \ {list[1]}
  <2>1. Reindexes(at, sub, list, {list[1]}) BY <1>3, <1>5, <1>6, <1>7 DEF Reindexes
  <2> QED BY <1>2, <2>1, Reindexed
<1>9. ASSUME NEW i \in DOMAIN sub, NEW j \in DOMAIN sub, i < j
      PROVE  \E a, b \in DOMAIN list : a < b /\ sub[i] = list[a] /\ sub[j] = list[b]
  BY <1>3, <1>4, <1>6, <1>9
<1>10. list[1] \in ToSet(list) BY <1>2 DEF ToSet
<1> QED BY <1>1, <1>2, <1>8, <1>9, <1>10 DEF Lacks

LEMMA AppendIs ==
  ASSUME NEW S, NEW list \in Seq(S), IsInjective(list), NEW t \in S, t \notin ToSet(list)
  PROVE  /\ Append(list, t) \in Seq(S) /\ IsInjective(Append(list, t))
         /\ ToSet(Append(list, t)) = ToSet(list) \cup {t}
<1> DEFINE more == Append(list, t)
<1>1. /\ Len(list) \in Nat /\ DOMAIN list = 1 .. Len(list)
      /\ more \in Seq(S) /\ DOMAIN more = 1 .. Len(list) + 1
      /\ \A i \in 1 .. Len(list) : more[i] = list[i]
      /\ more[Len(list) + 1] = t
  OBVIOUS
<1> HIDE DEF more
<1>2. ToSet(more) = ToSet(list) \cup {t}
  <2>1. ASSUME NEW i \in DOMAIN more PROVE more[i] \in ToSet(list) \cup {t}
    BY <1>1 DEF ToSet
  <2>2. \A i \in DOMAIN list : i \in DOMAIN more /\ list[i] = more[i] BY <1>1
  <2>3. t \in ToSet(more) BY <1>1 DEF ToSet
  <2> QED BY <2>1, <2>2, <2>3 DEF ToSet
<1>3. IsInjective(more)
  <2> SUFFICES ASSUME NEW i \in DOMAIN more, NEW j \in DOMAIN more, more[i] = more[j]
               PROVE  i = j
    BY DEF IsInjective
  <2>1. \A a \in 1 .. Len(list) : list[a] # t BY <1>1 DEF ToSet
  <2> QED BY <1>1, <2>1 DEF IsInjective
<1> QED BY <1>1, <1>2, <1>3 DEF more

LEMMA MinIs ==
  ASSUME NEW S \in SUBSET Nat, S # {}
  PROVE  Min(S) \in S /\ \A x \in S : Min(S) <= x
<1>1. \E n \in S : \A k \in S : n <= k BY Least
<1> QED BY <1>1 DEF Min

LEMMA InsertAtIs ==
  ASSUME NEW S, NEW list \in Seq(S), NEW n \in 1 .. Len(list) + 1, NEW t \in S
  PROVE  /\ InsertAt(list, n, t) \in Seq(S) /\ Len(InsertAt(list, n, t)) = Len(list) + 1
         /\ \A i \in 1 .. Len(list) + 1 :
              InsertAt(list, n, t)[i] = IF i = n THEN t ELSE list[IF i < n THEN i ELSE i - 1]
<1>1. /\ Len(list) \in Nat /\ n \in Int /\ 1 <= n /\ n <= Len(list) + 1
      /\ \A i \in 1 .. Len(list) : list[i] \in S
  BY LenProperties
<1> DEFINE front == SubSeq(list, 1, n - 1)
           back == SubSeq(list, n, Len(list))
           here == <<t>>
<1>2. front \in Seq(S) /\ Len(front) = n - 1 /\ \A i \in 1 .. n - 1 : front[i] = list[i]
  <2>1. \A i \in 1 .. n - 1 : list[i] \in S BY <1>1
  <2> QED BY <1>1, <2>1, SubSeqProperties
<1>3. /\ back \in Seq(S) /\ Len(back) = Len(list) - n + 1
      /\ \A i \in 1 .. Len(list) - n + 1 : back[i] = list[n + i - 1]
  <2>1. \A i \in n .. Len(list) : list[i] \in S BY <1>1
  <2>2. /\ back \in Seq(S) /\ Len(back) = IF n <= Len(list) THEN Len(list) - n + 1 ELSE 0
        /\ \A i \in 1 .. Len(list) - n + 1 : back[i] = list[n + i - 1]
    BY <1>1, <2>1, SubSeqProperties
  <2> HIDE DEF back
  <2> QED BY <1>1, <2>2
<1>4. here \in Seq(S) /\ Len(here) = 1 /\ here[1] = t OBVIOUS
<1> DEFINE upto == front \o here
<1>5. InsertAt(list, n, t) = upto \o back BY DEF InsertAt
<1> HIDE DEF front, back, here
<1>6. /\ upto \in Seq(S) /\ Len(upto) = n
      /\ \A i \in 1 .. n : upto[i] = IF i = n THEN t ELSE list[i]
  <2>1. /\ upto \in Seq(S) /\ Len(upto) = Len(front) + Len(here)
        /\ \A i \in 1 .. Len(front) + Len(here) :
             upto[i] = IF i <= Len(front) THEN front[i] ELSE here[i - Len(front)]
    BY <1>2, <1>4, ConcatProperties
  <2> HIDE DEF upto
  <2>2. Len(front) + Len(here) = n BY <1>1, <1>2, <1>4
  <2>3. ASSUME NEW i \in 1 .. n PROVE upto[i] = IF i = n THEN t ELSE list[i]
    <3>1. upto[i] = IF i <= n - 1 THEN front[i] ELSE here[i - (n - 1)] BY <1>2, <2>1, <2>2
    <3>2. i # n => i \in 1 .. n - 1 BY <1>1
    <3>3. i = n => ~(i <= n - 1) /\ i - (n - 1) = 1 BY <1>1
    <3> QED BY <1>2, <1>4, <3>1, <3>2, <3>3
  <2> QED BY <2>1, <2>2, <2>3
<1> HIDE DEF upto
<1>7. /\ upto \o back \in Seq(S) /\ Len(upto \o back) = Len(upto) + Len(back)
      /\ \A i \in 1 .. Len(upto) + Len(back) :
           (upto \o back)[i] = IF i <= Len(upto) THEN upto[i] ELSE back[i - Len(upto)]
  BY <1>3, <1>6, ConcatProperties
<1>8. Len(upto) + Len(back) = Len(list) + 1 BY <1>1, <1>3, <1>6
<1>9. ASSUME NEW i \in 1 .. Len(list) + 1
      PROVE  (upto \o back)[i] = IF i = n THEN t ELSE list[IF i < n THEN i ELSE i - 1]
  <2>1. CASE i <= n
    <3>1. i \in 1 .. n /\ i <= Len(upto) /\ i \in 1 .. Len(upto) + Len(back)
      BY <1>1, <1>6, <1>8, <2>1
    <3>2. (upto \o back)[i] = upto[i] BY <1>7, <3>1
    <3> QED BY <1>1, <1>6, <3>1, <3>2
  <2>2. CASE ~(i <= n)
    <3>1. /\ i \in 1 .. Len(upto) + Len(back) /\ ~(i <= Len(upto)) /\ i - Len(upto) = i - n
          /\ i - n \in 1 .. Len(list) - n + 1 /\ n + (i - n) - 1 = i - 1
      BY <1>1, <1>6, <1>8, <2>2
    <3>2. (upto \o back)[i] = back[i - n] BY <1>7, <3>1
    <3>3. back[i - n] = list[i - 1] BY <1>3, <3>1
    <3>4. i # n /\ ~(i < n) BY <1>1, <2>2
    <3> QED BY <3>2, <3>3, <3>4
  <2> QED BY <1>1, <2>1, <2>2
<1> QED BY <1>5, <1>7, <1>8, <1>9

Sorted(list, value) == \A i, j \in DOMAIN list : i < j => value[list[i]] <= value[list[j]]

(* vListInsert adds an element and keeps the order.                        *)
LEMMA InsertIs ==
  ASSUME NEW S, NEW list \in Seq(S), IsInjective(list), NEW t \in S, t \notin ToSet(list),
         NEW value, \A x \in S : value[x] \in Int
  PROVE  /\ Insert(list, t, value) \in Seq(S) /\ IsInjective(Insert(list, t, value))
         /\ ToSet(Insert(list, t, value)) = ToSet(list) \cup {t}
         /\ Len(Insert(list, t, value)) = Len(list) + 1
         /\ Sorted(list, value) => Sorted(Insert(list, t, value), value)
<1> DEFINE greater == {i \in DOMAIN list : value[list[i]] > value[t]}
<1>1. PICK n : n = Min(greater \cup {Len(list) + 1}) OBVIOUS
<1>2. Len(list) \in Nat /\ DOMAIN list = 1 .. Len(list) /\ \A i \in 1 .. Len(list) : list[i] \in S
  BY LenProperties
<1>3. /\ n \in 1 .. Len(list) + 1
      /\ \A i \in DOMAIN list : i < n => value[list[i]] <= value[t]
      /\ n \in DOMAIN list => value[list[n]] > value[t]
  <2>1. greater \cup {Len(list) + 1} \in SUBSET Nat BY <1>2
  <2>2. n \in greater \cup {Len(list) + 1} /\ \A x \in greater \cup {Len(list) + 1} : n <= x
    BY <1>1, <2>1, MinIs
  <2>3. \A i \in DOMAIN list : i < n => ~(value[list[i]] > value[t]) BY <1>2, <2>2
  <2>4. \A i \in DOMAIN list : value[list[i]] \in Int /\ value[t] \in Int BY <1>2
  <2> QED BY <1>2, <2>2, <2>3, <2>4
<1>4. PICK m : m = InsertAt(list, n, t) OBVIOUS
<1>5. Insert(list, t, value) = m BY <1>1, <1>4 DEF Insert
<1> DEFINE at(i) == IF i < n THEN i ELSE i - 1
<1>6. /\ m \in Seq(S) /\ Len(m) = Len(list) + 1 /\ DOMAIN m = 1 .. Len(list) + 1
      /\ \A i \in DOMAIN m : m[i] = IF i = n THEN t ELSE list[at(i)]
  <2>1. /\ m \in Seq(S) /\ Len(m) = Len(list) + 1
        /\ \A i \in 1 .. Len(list) + 1 :
             m[i] = IF i = n THEN t ELSE list[IF i < n THEN i ELSE i - 1]
    <3>1. n \in 1 .. Len(list) + 1 BY <1>3
    <3> QED BY <1>4, <3>1, InsertAtIs
  <2>2. DOMAIN m = 1 .. Len(list) + 1 BY <2>1, LenProperties
  <2> QED BY <2>1, <2>2
<1>7. \A i \in DOMAIN m : i # n => at(i) \in DOMAIN list BY <1>2, <1>3, <1>6
<1>8. \A i, j \in DOMAIN m : i # n /\ j # n /\ at(i) = at(j) => i = j BY <1>3, <1>6
<1>9. ASSUME NEW a \in DOMAIN list PROVE \E i \in DOMAIN m : i # n /\ at(i) = a
  <2>1. PICK i : i = IF a < n THEN a ELSE a + 1 OBVIOUS
  <2>2. a \in Nat /\ 1 <= a /\ a <= Len(list) /\ Len(list) \in Nat /\ n \in Int
    BY <1>2, <1>3
  <2>3. i \in 1 .. Len(list) + 1 /\ i # n /\ (IF i < n THEN i ELSE i - 1) = a
    BY <2>1, <2>2
  <2> QED BY <1>6, <2>3
<1>10. n \in DOMAIN m BY <1>3, <1>6
<1>11. \A i, j \in DOMAIN m : i < j /\ i # n /\ j # n => at(i) < at(j) BY <1>3, <1>6
<1>12. \A i \in DOMAIN m : /\ i < n => at(i) < n
                           /\ i > n => at(i) >= n
  BY <1>3, <1>6
<1> HIDE DEF at
<1>13. ToSet(m) = ToSet(list) \cup {t}
  <2>1. ASSUME NEW x \in ToSet(m) PROVE x \in ToSet(list) \cup {t}
    <3>1. PICK i \in DOMAIN m : m[i] = x BY <1>6, ToSetOf
    <3> QED BY <1>6, <1>7, <3>1 DEF ToSet
  <2>2. ASSUME NEW x \in ToSet(list) PROVE x \in ToSet(m)
    <3>1. PICK a \in DOMAIN list : list[a] = x BY ToSetOf
    <3>2. PICK i \in DOMAIN m : i # n /\ at(i) = a BY <1>9
    <3> QED BY <1>6, <3>1, <3>2 DEF ToSet
  <2>3. t \in ToSet(m) BY <1>6, <1>10 DEF ToSet
  <2> QED BY <2>1, <2>2, <2>3
<1>14. IsInjective(m)
  <2> SUFFICES ASSUME NEW i \in DOMAIN m, NEW j \in DOMAIN m, m[i] = m[j] PROVE i = j
    BY DEF IsInjective
  <2>1. \A a \in DOMAIN list : list[a] # t BY DEF ToSet
  <2>2. i = n <=> j = n BY <1>6, <1>7, <2>1
  <2>3. i # n /\ j # n => at(i) = at(j) BY <1>6, <1>7 DEF IsInjective
  <2> QED BY <1>8, <2>2, <2>3
<1>15. ASSUME Sorted(list, value), NEW i \in DOMAIN m, NEW j \in DOMAIN m, i < j
       PROVE  value[m[i]] <= value[m[j]]
  <2>1. value[t] \in Int /\ \A a \in DOMAIN list : value[list[a]] \in Int BY <1>2
  <2>2. CASE i # n /\ j # n
    <3>1. at(i) < at(j) BY <1>11, <1>15, <2>2
    <3> QED BY <1>6, <1>7, <1>15, <2>2, <3>1 DEF Sorted
  <2>3. CASE j = n
    <3>1. i # n /\ i < n /\ at(i) < n BY <1>3, <1>6, <1>12, <1>15, <2>3
    <3> QED BY <1>3, <1>6, <1>7, <2>3, <3>1
  <2>4. CASE i = n
    <3>1. j # n /\ j > n /\ at(j) >= n /\ at(j) \in DOMAIN list
      BY <1>3, <1>6, <1>7, <1>12, <1>15, <2>4
    <3>2. n \in DOMAIN list BY <1>2, <1>3, <3>1
    <3>3. value[t] < value[list[n]] /\ value[list[n]] <= value[list[at(j)]]
      <4>1. value[list[n]] > value[t] BY <1>3, <3>2
      <4>2. CASE at(j) = n BY <2>1, <3>2, <4>1, <4>2
      <4>3. CASE at(j) # n
        <5>1. n < at(j) BY <1>2, <1>3, <3>1, <4>3
        <5>2. value[list[n]] <= value[list[at(j)]] BY <1>15, <3>1, <3>2, <5>1 DEF Sorted
        <5> QED BY <2>1, <3>2, <4>1, <5>2
      <4> QED BY <4>2, <4>3
    <3>4. value[t] <= value[list[at(j)]] BY <2>1, <3>1, <3>2, <3>3
    <3> QED BY <1>6, <2>4, <3>1, <3>4
  <2> QED BY <2>2, <2>3, <2>4
<1> QED BY <1>5, <1>6, <1>13, <1>14, <1>15 DEF Sorted

-----------------------------------------------------------------------------
(* Rings: ready lists with their end marker in them *)

\* m has what ring has, each once.
Turned(m, ring) == IsInjective(m) /\ ToSet(m) = ToSet(ring)

LEMMA RotateIs ==
  ASSUME NEW S, NEW ring \in Seq(S), IsInjective(ring), ring # <<>>
  PROVE  /\ Rotate(ring) \in Seq(S) /\ Turned(Rotate(ring), ring)
         /\ Len(Rotate(ring)) = Len(ring)
         /\ Len(ring) > 1 => Rotate(ring)[1] = ring[2]
<1>1. /\ Tail(ring) \in Seq(S) /\ Lacks(Tail(ring), ring, ring[1])
      /\ ring[1] \in ToSet(ring) /\ ring[1] \in S /\ Len(Tail(ring)) = Len(ring) - 1
  BY TailIs
<1>2. PICK tail : tail = Tail(ring) OBVIOUS
<1>3. PICK head : head = ring[1] OBVIOUS
<1>4. Rotate(ring) = Append(tail, head) BY <1>2, <1>3 DEF Rotate
<1>5. /\ tail \in Seq(S) /\ IsInjective(tail) /\ ToSet(tail) = ToSet(ring) \ {head}
      /\ head \in ToSet(ring) /\ head \in S /\ Len(tail) = Len(ring) - 1
  BY <1>1, <1>2, <1>3 DEF Lacks
<1>6. /\ Append(tail, head) \in Seq(S) /\ IsInjective(Append(tail, head))
      /\ ToSet(Append(tail, head)) = ToSet(tail) \cup {head}
  <2>1. head \notin ToSet(tail) BY <1>5
  <2> QED BY <1>5, <2>1, AppendIs
<1>7. Turned(Append(tail, head), ring) BY <1>5, <1>6 DEF Turned
<1>8. Len(ring) \in Nat /\ Len(tail) \in Nat BY <1>5, LenProperties
<1>9. Len(Append(tail, head)) = Len(ring) BY <1>5, <1>8
<1>10. Len(ring) > 1 => Append(tail, head)[1] = ring[2]
  <2>1. Len(ring) > 1 => Append(tail, head)[1] = tail[1] BY <1>5, <1>8
  <2>2. Len(ring) > 1 => tail[1] = ring[2]
    <3>1. \A i \in 1 .. Len(tail) : tail[i] = ring[i + 1] BY <1>2, HeadTailProperties
    <3>2. Len(ring) > 1 => 1 \in 1 .. Len(tail) BY <1>5, <1>8
    <3> QED BY <3>1, <3>2
  <2> QED BY <2>1, <2>2
<1> QED BY <1>4, <1>6, <1>7, <1>9, <1>10

(* The index comes to a task when there is one in the ring.                *)
LEMMA RingNextIs ==
  ASSUME NEW S, NEW ring \in Seq(S), IsInjective(ring), Len(ring) > 1
  PROVE  /\ RingNext(ring) \in Seq(S) /\ Turned(RingNext(ring), ring)
         /\ RingNext(ring)[1] \in ToSet(ring) /\ RingNext(ring)[1] # End
         /\ Len(RingNext(ring)) = Len(ring)
<1>1. PICK next : next = Rotate(ring) OBVIOUS
<1>2. Len(ring) \in Nat /\ ring # <<>> BY LenProperties, EmptySeq
<1>3. /\ next \in Seq(S) /\ IsInjective(next) /\ ToSet(next) = ToSet(ring)
      /\ Len(next) = Len(ring) /\ next # <<>>
  BY <1>1, <1>2, RotateIs, EmptySeq DEF Turned
<1>4. PICK last : last = Rotate(next) OBVIOUS
<1>5. /\ last \in Seq(S) /\ IsInjective(last) /\ ToSet(last) = ToSet(ring)
      /\ Len(last) = Len(ring) /\ last[1] = next[2] /\ last # <<>>
  BY <1>2, <1>3, <1>4, RotateIs, EmptySeq DEF Turned
<1>6. 1 \in DOMAIN next /\ 2 \in DOMAIN next /\ 1 \in DOMAIN last
  BY <1>2, <1>3, <1>5, LenProperties
<1>7. next[1] # next[2] BY <1>3, <1>6 DEF IsInjective
<1>8. next[1] \in ToSet(ring) /\ last[1] \in ToSet(ring) BY <1>3, <1>5, <1>6 DEF ToSet
<1>9. RingNext(ring) = IF next[1] = End THEN last ELSE next BY <1>1, <1>4 DEF RingNext
<1> QED BY <1>3, <1>5, <1>7, <1>8, <1>9 DEF Turned

LEMMA RingRemoveIs ==
  ASSUME NEW S, NEW ring \in Seq(S), IsInjective(ring), NEW t, t # End, End \in ToSet(ring)
  PROVE  /\ RingRemove(ring, t) \in Seq(S) /\ IsInjective(RingRemove(ring, t))
         /\ ToSet(RingRemove(ring, t)) = ToSet(ring) \ {t}
<1>1. CASE ring[1] # t
  <2>1. RingRemove(ring, t) = Without(ring, t) BY <1>1 DEF RingRemove
  <2> QED BY <2>1, WithoutIs DEF Lacks
<1>2. CASE ring[1] = t
  <2>1. PICK m : m = <<Last(ring)>> \o SubSeq(ring, 2, Len(ring) - 1) OBVIOUS
  <2>2. RingRemove(ring, t) = m BY <1>2, <2>1 DEF RingRemove
  <2>3. PICK e \in DOMAIN ring : ring[e] = End BY ToSetOf
  <2>4. /\ Len(ring) \in Nat /\ DOMAIN ring = 1 .. Len(ring)
        /\ \A i \in 1 .. Len(ring) : ring[i] \in S
    BY LenProperties
  <2>5. e # 1 /\ Len(ring) >= 2 BY <1>2, <2>3, <2>4
  <2>6. /\ m \in Seq(S) /\ Len(m) = Len(ring) - 1 /\ DOMAIN m = 1 .. Len(ring) - 1
        /\ \A i \in DOMAIN m : m[i] = ring[IF i = 1 THEN Len(ring) ELSE i]
    <3>1. PICK here : here = <<ring[Len(ring)]>> OBVIOUS
    <3>2. here \in Seq(S) /\ Len(here) = 1 /\ here[1] = ring[Len(ring)]
      BY <2>4, <2>5, <3>1
    <3>3. PICK rest : rest = SubSeq(ring, 2, Len(ring) - 1) OBVIOUS
    <3>4. /\ rest \in Seq(S) /\ Len(rest) = Len(ring) - 2
          /\ \A i \in 1 .. Len(ring) - 2 : rest[i] = ring[i + 1]
      <4>1. \A i \in 2 .. Len(ring) - 1 : ring[i] \in S BY <2>4
      <4>2. /\ rest \in Seq(S)
            /\ Len(rest) = IF 2 <= Len(ring) - 1 THEN Len(ring) - 1 - 2 + 1 ELSE 0
            /\ \A i \in 1 .. Len(ring) - 1 - 2 + 1 : rest[i] = ring[2 + i - 1]
        BY <2>4, <3>3, <4>1, SubSeqProperties
      <4>3. \A i \in 1 .. Len(ring) - 2 : 2 + i - 1 = i + 1 BY <2>4
      <4>4. /\ Len(ring) - 1 - 2 + 1 = Len(ring) - 2
            /\ ~(2 <= Len(ring) - 1) => Len(ring) - 2 = 0
        BY <2>4, <2>5
      <4> QED BY <4>2, <4>3, <4>4
    <3>5. m = here \o rest BY <2>1, <3>1, <3>3 DEF Last
    <3>6. /\ here \o rest \in Seq(S) /\ Len(here \o rest) = Len(here) + Len(rest)
          /\ \A i \in 1 .. Len(here) + Len(rest) :
               (here \o rest)[i] = IF i <= Len(here) THEN here[i] ELSE rest[i - Len(here)]
      BY <3>2, <3>4, ConcatProperties
    <3>7. Len(m) = Len(ring) - 1 BY <2>4, <3>2, <3>4, <3>5, <3>6
    <3>8. DOMAIN m = 1 .. Len(ring) - 1 BY <3>5, <3>6, <3>7, LenProperties
    <3>9. ASSUME NEW i \in DOMAIN m PROVE m[i] = ring[IF i = 1 THEN Len(ring) ELSE i]
      <4>0. i \in 1 .. Len(here) + Len(rest) BY <2>4, <3>2, <3>4, <3>8
      <4>1. m[i] = IF i <= 1 THEN here[i] ELSE rest[i - 1] BY <3>2, <3>5, <3>6, <4>0
      <4>2. CASE i = 1 BY <3>2, <4>1, <4>2
      <4>3. CASE i # 1
        <5>1. i - 1 \in 1 .. Len(ring) - 2 /\ ~(i <= 1) /\ (i - 1) + 1 = i
          BY <2>4, <3>8, <4>3
        <5> QED BY <3>4, <4>1, <4>3, <5>1
      <4> QED BY <4>2, <4>3
    <3> QED BY <3>5, <3>6, <3>7, <3>8, <3>9
  <2> DEFINE at == [i \in DOMAIN m |-> IF i = 1 THEN Len(ring) ELSE i]
  <2>7. at \in [DOMAIN m -> DOMAIN ring] BY <2>4, <2>5, <2>6
  <2>8. IsInjective(at) BY <2>4, <2>6 DEF IsInjective
  <2>9. \A i \in DOMAIN m : m[i] = ring[at[i]] BY <2>6
  <2>10. ASSUME NEW a \in DOMAIN ring
         PROVE  ring[a] \in {t} <=> ~(\E i \in DOMAIN m : at[i] = a)
    <3>1. ring[a] = t <=> a = 1 BY <1>2, <2>4, <2>5 DEF IsInjective
    <3>2. ~(\E i \in DOMAIN m : at[i] = 1) BY <2>4, <2>5, <2>6
    <3>3. a # 1 /\ a # Len(ring) => a \in DOMAIN m /\ at[a] = a BY <2>4, <2>6
    <3>4. 1 \in DOMAIN m /\ at[1] = Len(ring) BY <2>4, <2>5, <2>6
    <3> QED BY <3>1, <3>2, <3>3, <3>4
  <2> HIDE DEF at
  <2>11. Reindexes(at, m, ring, {t}) BY <2>7, <2>8, <2>9, <2>10 DEF Reindexes
  <2> QED BY <2>2, <2>6, <2>11, Reindexed
<1> QED BY <1>1, <1>2

(* A finite set of numbers has a greatest.                                 *)
LEMMA MaxIs ==
  ASSUME NEW S \in SUBSET Int, S # {}, IsFiniteSet(S)
  PROVE  Max(S) \in S /\ \A x \in S : x <= Max(S)
<1>1. PICK n \in Nat : ExistsSurjection(1 .. n, S) BY FS_NatSurjection
<1>2. PICK f \in Surjection(1 .. n, S) : TRUE BY <1>1 DEF ExistsSurjection
<1>3. /\ f \in [1 .. n -> S] /\ \A x \in S : \E i \in 1 .. n : f[i] = x
      /\ \A x \in S : x \in Int
  BY <1>2 DEF Surjection
<1> DEFINE Upto == {m \in 0 .. n : \E x \in S : \A i \in 1 .. m : f[i] <= x}
<1>4. 0 \in Upto
  <2>1. PICK x \in S : TRUE OBVIOUS
  <2>2. \A i \in 1 .. 0 : f[i] <= x OBVIOUS
  <2> QED BY <2>2
<1>5. ASSUME NEW m \in 1 .. n, m - 1 \in Upto PROVE m \in Upto
  <2>1. PICK x \in S : \A i \in 1 .. m - 1 : f[i] <= x BY <1>5
  <2>2. PICK y \in S : y = IF f[m] <= x THEN x ELSE f[m] BY <1>3
  <2>0. x \in Int /\ f[m] \in Int BY <1>3
  <2>3. x \in Int /\ f[m] \in Int /\ y \in Int /\ x <= y /\ f[m] <= y BY <2>0, <2>2
  <2>4. \A i \in 1 .. m : f[i] <= y
    <3> TAKE i \in 1 .. m
    <3>1. f[i] \in Int
      <4>1. i \in 1 .. n OBVIOUS
      <4> QED BY <1>3, <4>1
    <3>2. i = m \/ i \in 1 .. m - 1 OBVIOUS
    <3> QED BY <2>1, <2>3, <3>1, <3>2
  <2> QED BY <2>4
<1>6. n \in Upto
  <2> HIDE DEF Upto
  <2> QED BY <1>4, <1>5, Rounds
<1>7. PICK x \in S : \A i \in 1 .. n : f[i] <= x BY <1>6
<1>8. \A y \in S : x >= y BY <1>3, <1>7
<1>9. Max(S) \in S /\ \A y \in S : Max(S) >= y BY <1>8 DEF Max
<1> QED BY <1>9

-----------------------------------------------------------------------------
(* The ready lists *)

LEMMA PrioritiesAre ==
  /\ Priorities \subseteq Nat /\ IsFiniteSet(Priorities) /\ IsFiniteSet(Tasks)
  /\ BasePriority \in [Tasks -> Priorities] /\ Idle \in Tasks
  /\ End \notin Tasks /\ Task \subseteq Tasks /\ \A t \in Tasks : t # Idle => t \in Task
<1>1. BasePriority \in [Tasks -> Nat] /\ Tasks = Task \cup {Idle} /\ IsFiniteSet(Task)
  BY PriorityAssumption DEF Tasks
<1>2. IsFiniteSet(Tasks) BY <1>1, FS_AddElement
<1>3. BasePriority \in Surjection(Tasks, Priorities) BY <1>1 DEF Priorities, Surjection
<1>4. IsFiniteSet(Priorities) BY <1>2, <1>3, FS_Surjection
<1>5. End \notin Tasks BY PriorityAssumption, <1>1
<1> QED BY <1>1, <1>2, <1>4, <1>5 DEF Priorities

(* What a ready list holds.                                                *)
LEMMA RingIs ==
  ASSUME NEW k \in Kernels, RingsInv(k), NEW p \in Priorities
  PROVE  /\ k.ready[p] \in Seq(Tasks \cup {End}) /\ IsInjective(k.ready[p])
         /\ End \in ToSet(k.ready[p])
         /\ ToSet(k.ready[p]) = {End} \cup {t \in ReadyTasks(k) : k.priority[t] = p}
<1>1. /\ k.ready[p] \in Seq(Tasks \cup {End}) /\ k.priority \in [Tasks -> Priorities]
      /\ IsInjective(k.ready[p]) /\ End \in ToSet(k.ready[p])
      /\ \A t \in ToSet(k.ready[p]) \ {End} : k.priority[t] = p
  BY DEF Kernels, RingsInv
<1>2. ToSet(k.ready[p]) \subseteq Tasks \cup {End} BY <1>1, ToSetOf
<1> QED BY <1>1, <1>2 DEF ReadyTasks

(* The fields that the lists' operations leave alone.                      *)
Keeps(l, k) ==
  /\ l.current = k.current /\ l.priority = k.priority /\ l.held = k.held
  /\ l.tick = k.tick /\ l.suspended = k.suspended /\ l.ticks = k.ticks
  /\ l.pendsv = k.pendsv

(* Rings that hold the tasks of a set are ready lists of it.               *)
LEMMA RingsOf ==
  ASSUME NEW l \in Kernels, NEW R \in SUBSET Tasks, Idle \in R,
         \A p \in Priorities :
           /\ IsInjective(l.ready[p])
           /\ ToSet(l.ready[p]) = {End} \cup {t \in R : l.priority[t] = p}
  PROVE  RingsInv(l) /\ ReadyTasks(l) = R
<1>1. l.priority \in [Tasks -> Priorities] BY DEF Kernels
<1>2. \A t \in Tasks : t # End BY PrioritiesAre
<1>3. ReadyTasks(l) = R BY <1>1, <1>2 DEF ReadyTasks
<1> QED BY <1>1, <1>2, <1>3 DEF RingsInv

LEMMA AddToReadyIs ==
  ASSUME NEW k \in Kernels, RingsInv(k), NEW t \in Tasks, t \notin ReadyTasks(k)
  PROVE  LET l == AddToReady(k, t)
         IN  /\ l \in Kernels /\ RingsInv(l) /\ ReadyTasks(l) = ReadyTasks(k) \cup {t}
             /\ Keeps(l, k) /\ l = [k EXCEPT !.ready = l.ready]
<1>1. PICK l : l = AddToReady(k, t) OBVIOUS
<1>2. PICK q \in Priorities : q = k.priority[t]
  BY DEF Kernels
<1>3. PICK ring : ring = Append(k.ready[q], t) OBVIOUS
<1>4. /\ ring \in Seq(Tasks \cup {End}) /\ IsInjective(ring)
      /\ ToSet(ring) = ToSet(k.ready[q]) \cup {t}
  <2>1. t \notin ToSet(k.ready[q]) BY <1>2, PrioritiesAre, RingIs
  <2> QED BY <1>3, <2>1, RingIs, AppendIs
<1>5. PICK ready : ready = [k.ready EXCEPT ![q] = ring] OBVIOUS
<1>6. ready \in [Priorities -> Seq(Tasks \cup {End})] BY <1>4, <1>5 DEF Kernels
<1>7. l = [k EXCEPT !.ready = ready] BY <1>1, <1>2, <1>3, <1>5 DEF AddToReady
<1>8. l \in Kernels /\ l.ready = ready /\ Keeps(l, k) BY <1>6, <1>7 DEF Kernels, Keeps
<1>9. ASSUME NEW p \in Priorities
      PROVE  /\ IsInjective(l.ready[p])
             /\ ToSet(l.ready[p]) =
                  {End} \cup {u \in ReadyTasks(k) \cup {t} : l.priority[u] = p}
  <2>1. l.priority = k.priority /\ l.ready[p] = IF p = q THEN ring ELSE k.ready[p]
    BY <1>5, <1>8 DEF Kernels, Keeps
  <2>2. IsInjective(k.ready[p]) BY RingIs
  <2>3. ToSet(k.ready[p]) = {End} \cup {u \in ReadyTasks(k) : k.priority[u] = p} BY RingIs
  <2> QED BY <1>2, <1>4, <2>1, <2>2, <2>3
<1>10. ReadyTasks(k) \cup {t} \in SUBSET Tasks /\ Idle \in ReadyTasks(k)
  BY DEF ReadyTasks, RingsInv
<1>11. RingsInv(l) /\ ReadyTasks(l) = ReadyTasks(k) \cup {t} BY <1>8, <1>9, <1>10, RingsOf
<1> QED BY <1>1, <1>7, <1>8, <1>11

LEMMA UnlistIs ==
  ASSUME NEW k \in Kernels, RingsInv(k), IsInjective(k.delayed), IsInjective(k.overflowed),
         NEW t \in Task
  PROVE  LET l == Unlist(k, t)
         IN  /\ l \in Kernels /\ RingsInv(l) /\ ReadyTasks(l) = ReadyTasks(k) \ {t}
             /\ IsInjective(l.delayed) /\ ToSet(l.delayed) = ToSet(k.delayed) \ {t}
             /\ IsInjective(l.overflowed) /\ ToSet(l.overflowed) = ToSet(k.overflowed) \ {t}
             /\ Keeps(l, k)
             /\ l = [k EXCEPT !.ready = l.ready, !.delayed = l.delayed,
                              !.overflowed = l.overflowed, !.wake = l.wake]
<1>1. PICK l : l = Unlist(k, t) OBVIOUS
<1>2. t \in Tasks /\ t # End /\ t # Idle BY PrioritiesAre, PriorityAssumption
<1>3. PICK ready : ready = [p \in Priorities |-> RingRemove(k.ready[p], t)] OBVIOUS
<1>4. ASSUME NEW p \in Priorities
      PROVE  /\ ready[p] \in Seq(Tasks \cup {End}) /\ IsInjective(ready[p])
             /\ ToSet(ready[p]) = ToSet(k.ready[p]) \ {t}
  BY <1>2, <1>3, RingIs, RingRemoveIs
<1>5. ready \in [Priorities -> Seq(Tasks \cup {End})]
  <2>1. DOMAIN ready = Priorities /\ ready = [p \in Priorities |-> ready[p]] BY <1>3
  <2> QED BY <1>4, <2>1
<1>6. PICK delayed : delayed = Without(k.delayed, t) OBVIOUS
<1>7. /\ delayed \in Seq(Task) /\ IsInjective(delayed)
      /\ ToSet(delayed) = ToSet(k.delayed) \ {t}
  <2>1. k.delayed \in Seq(Task) BY DEF Kernels
  <2> QED BY <1>6, <2>1, WithoutIs DEF Lacks
<1>8. PICK overflowed : overflowed = Without(k.overflowed, t) OBVIOUS
<1>9. /\ overflowed \in Seq(Task) /\ IsInjective(overflowed)
      /\ ToSet(overflowed) = ToSet(k.overflowed) \ {t}
  <2>1. k.overflowed \in Seq(Task) BY DEF Kernels
  <2> QED BY <1>8, <2>1, WithoutIs DEF Lacks
<1>10. PICK wake : wake = [k.wake EXCEPT ![t] = 0] OBVIOUS
<1>11. wake \in [Tasks -> Ticks] BY <1>2, <1>10, TickAssumption DEF Kernels, Ticks
<1>12. l = [k EXCEPT !.ready = ready, !.delayed = delayed, !.overflowed = overflowed,
                     !.wake = wake]
  BY <1>1, <1>3, <1>6, <1>8, <1>10 DEF Unlist, Kernels
<1>13. /\ l \in Kernels /\ l.ready = ready /\ l.delayed = delayed
       /\ l.overflowed = overflowed /\ l.wake = wake /\ Keeps(l, k)
  BY <1>5, <1>7, <1>9, <1>11, <1>12 DEF Kernels, Keeps
<1>14. ASSUME NEW p \in Priorities
       PROVE  /\ IsInjective(l.ready[p])
              /\ ToSet(l.ready[p]) = {End} \cup {u \in ReadyTasks(k) \ {t} : l.priority[u] = p}
  <2>1. l.priority = k.priority BY <1>13 DEF Keeps
  <2>2. ToSet(k.ready[p]) = {End} \cup {u \in ReadyTasks(k) : k.priority[u] = p} BY RingIs
  <2> QED BY <1>2, <1>4, <1>13, <2>1, <2>2
<1>15. ReadyTasks(k) \ {t} \in SUBSET Tasks /\ Idle \in ReadyTasks(k) \ {t}
  BY <1>2 DEF ReadyTasks, RingsInv
<1>16. RingsInv(l) /\ ReadyTasks(l) = ReadyTasks(k) \ {t} BY <1>13, <1>14, <1>15, RingsOf
<1> QED BY <1>1, <1>7, <1>9, <1>12, <1>13, <1>16

(* What Unlist and AddToReady do together, for a task that waits.          *)
Readied(l, k, t) ==
  /\ l \in Kernels /\ RingsInv(l) /\ ReadyTasks(l) = ReadyTasks(k) \cup {t}
  /\ IsInjective(l.delayed) /\ ToSet(l.delayed) = ToSet(k.delayed) \ {t}
  /\ IsInjective(l.overflowed) /\ ToSet(l.overflowed) = ToSet(k.overflowed) \ {t}
  /\ Keeps(l, k)
  /\ l.yield = k.yield /\ l.unblock = k.unblock

LEMMA ReadyIs ==
  ASSUME NEW k \in Kernels, RingsInv(k), IsInjective(k.delayed), IsInjective(k.overflowed),
         NEW t \in Task
  PROVE  LET l == AddToReady(Unlist(k, t), t)
         IN  Readied(l, k, t) /\ l.events = k.events /\ l.pending = k.pending
<1>1. PICK m : m = Unlist(k, t) OBVIOUS
<1>2. /\ m \in Kernels /\ RingsInv(m) /\ ReadyTasks(m) = ReadyTasks(k) \ {t}
      /\ IsInjective(m.delayed) /\ ToSet(m.delayed) = ToSet(k.delayed) \ {t}
      /\ IsInjective(m.overflowed) /\ ToSet(m.overflowed) = ToSet(k.overflowed) \ {t}
      /\ Keeps(m, k)
      /\ m = [k EXCEPT !.ready = m.ready, !.delayed = m.delayed,
                       !.overflowed = m.overflowed, !.wake = m.wake]
  BY <1>1, UnlistIs
<1>3. m.events = k.events /\ m.pending = k.pending /\ m.yield = k.yield /\ m.unblock = k.unblock
  BY <1>2 DEF Kernels
<1>4. t \in Tasks BY PrioritiesAre
<1>5. PICK l : l = AddToReady(m, t) OBVIOUS
<1>6. /\ l \in Kernels /\ RingsInv(l) /\ ReadyTasks(l) = ReadyTasks(m) \cup {t}
      /\ Keeps(l, m) /\ l = [m EXCEPT !.ready = l.ready]
  BY <1>2, <1>4, <1>5, AddToReadyIs
<1>7. /\ l.delayed = m.delayed /\ l.overflowed = m.overflowed /\ l.events = m.events
      /\ l.pending = m.pending /\ l.yield = m.yield /\ l.unblock = m.unblock
  BY <1>2, <1>6 DEF Kernels
<1>8. Readied(l, k, t) BY <1>2, <1>3, <1>6, <1>7 DEF Readied, Keeps
<1> QED BY <1>1, <1>3, <1>5, <1>7, <1>8

LEMMA TopIs ==
  ASSUME NEW k \in Kernels, RingsInv(k)
  PROVE  /\ TopPriority(k) \in Priorities /\ Len(k.ready[TopPriority(k)]) > 1
         /\ \A t \in ReadyTasks(k) : k.priority[t] <= TopPriority(k)
         /\ \E t \in ReadyTasks(k) : k.priority[t] = TopPriority(k)
<1>1. ASSUME NEW p \in Priorities
      PROVE  HasReady(k, p) <=> \E t \in ReadyTasks(k) : k.priority[t] = p
  <2>1. PICK ring : ring = k.ready[p] OBVIOUS
  <2>2. /\ ring \in Seq(Tasks \cup {End}) /\ IsInjective(ring) /\ End \in ToSet(ring)
        /\ ToSet(ring) = {End} \cup {t \in ReadyTasks(k) : k.priority[t] = p}
    BY <2>1, RingIs
  <2>3. PICK e \in DOMAIN ring : ring[e] = End BY <2>2, ToSetOf
  <2>4. Len(ring) \in Nat /\ DOMAIN ring = 1 .. Len(ring) BY <2>2, LenProperties
  <2>5. ASSUME Len(ring) > 1 PROVE \E t \in ReadyTasks(k) : k.priority[t] = p
    <3>1. PICK i \in DOMAIN ring : i # e
      <4>1. 1 \in DOMAIN ring /\ 2 \in DOMAIN ring /\ 1 # 2 BY <2>4, <2>5
      <4> QED BY <4>1
    <3>2. ring[i] # End /\ ring[i] \in ToSet(ring) BY <2>2, <2>3, <3>1 DEF IsInjective, ToSet
    <3> QED BY <2>2, <3>2
  <2>6. ASSUME NEW t \in ReadyTasks(k), k.priority[t] = p PROVE Len(ring) > 1
    <3>1. t # End BY PrioritiesAre DEF ReadyTasks
    <3>2. PICK i \in DOMAIN ring : ring[i] = t BY <2>2, <2>6, ToSetOf
    <3>3. i # e BY <2>3, <3>1, <3>2
    <3> QED BY <2>4, <3>3
  <2> QED BY <2>1, <2>5, <2>6 DEF HasReady
<1> DEFINE S == {p \in Priorities : HasReady(k, p)}
<1>2. k.priority \in [Tasks -> Priorities] /\ Idle \in ReadyTasks(k) BY DEF Kernels, RingsInv
<1>3. \A t \in ReadyTasks(k) : k.priority[t] \in Priorities /\ k.priority[t] \in S
  BY <1>1, <1>2 DEF ReadyTasks
<1>4. S \in SUBSET Int /\ S # {}
  <2>1. \A p \in Priorities : p \in Int BY PrioritiesAre
  <2> QED BY <1>2, <1>3, <2>1
<1>5. IsFiniteSet(S)
  <2>1. S \in SUBSET Priorities /\ IsFiniteSet(Priorities) BY PrioritiesAre
  <2> HIDE DEF S
  <2> QED BY <2>1, FS_Subset
<1>6. Max(S) \in S /\ \A x \in S : x <= Max(S)
  <2> HIDE DEF S
  <2> QED BY <1>4, <1>5, MaxIs
<1>7. TopPriority(k) = Max(S) BY DEF TopPriority
<1> QED BY <1>1, <1>3, <1>6, <1>7 DEF HasReady

(* taskSELECT_HIGHEST_PRIORITY_TASK                                        *)
LEMMA SelectIs ==
  ASSUME NEW k \in Kernels, RingsInv(k)
  PROVE  LET l == SelectHighest(k)
         IN  /\ l \in Kernels /\ RingsInv(l) /\ ReadyTasks(l) = ReadyTasks(k) /\ Running(l)
             /\ l = [k EXCEPT !.ready = l.ready, !.current = l.current]
<1>1. PICK l : l = SelectHighest(k) OBVIOUS
<1>2. PICK top : top = TopPriority(k) OBVIOUS
<1>3. /\ top \in Priorities /\ Len(k.ready[top]) > 1
      /\ \A t \in ReadyTasks(k) : k.priority[t] <= top
  BY <1>2, TopIs
<1>4. PICK ring : ring = RingNext(k.ready[top]) OBVIOUS
<1>5. /\ ring \in Seq(Tasks \cup {End}) /\ IsInjective(ring)
      /\ ToSet(ring) = {End} \cup {t \in ReadyTasks(k) : k.priority[t] = top}
      /\ ring[1] \in ReadyTasks(k) /\ k.priority[ring[1]] = top
  <2>1. /\ k.ready[top] \in Seq(Tasks \cup {End}) /\ IsInjective(k.ready[top])
        /\ ToSet(k.ready[top]) = {End} \cup {t \in ReadyTasks(k) : k.priority[t] = top}
    BY <1>3, RingIs
  <2>2. /\ ring \in Seq(Tasks \cup {End}) /\ Turned(ring, k.ready[top])
        /\ ring[1] \in ToSet(k.ready[top]) /\ ring[1] # End
    BY <1>3, <1>4, <2>1, RingNextIs
  <2> QED BY <2>1, <2>2 DEF Turned
<1>6. PICK ready : ready = [k.ready EXCEPT ![top] = ring] OBVIOUS
<1>7. ready \in [Priorities -> Seq(Tasks \cup {End})] BY <1>5, <1>6 DEF Kernels
<1>8. l = [k EXCEPT !.ready = ready, !.current = ring[1]]
  BY <1>1, <1>2, <1>4, <1>6 DEF SelectHighest
<1>9. ring[1] \in Tasks BY <1>5 DEF ReadyTasks
<1>10. l \in Kernels /\ l.ready = ready /\ l.current = ring[1] /\ l.priority = k.priority
  BY <1>7, <1>8, <1>9 DEF Kernels
<1>11. ASSUME NEW p \in Priorities
       PROVE  /\ IsInjective(l.ready[p])
              /\ ToSet(l.ready[p]) = {End} \cup {u \in ReadyTasks(k) : l.priority[u] = p}
  <2>1. l.ready[p] = IF p = top THEN ring ELSE k.ready[p] BY <1>6, <1>10 DEF Kernels
  <2>2. /\ IsInjective(k.ready[p])
        /\ ToSet(k.ready[p]) = {End} \cup {u \in ReadyTasks(k) : k.priority[u] = p}
    BY RingIs
  <2> QED BY <1>5, <1>10, <2>1, <2>2
<1>12. ReadyTasks(k) \in SUBSET Tasks /\ Idle \in ReadyTasks(k) BY DEF ReadyTasks, RingsInv
<1>13. RingsInv(l) /\ ReadyTasks(l) = ReadyTasks(k) BY <1>10, <1>11, <1>12, RingsOf
<1>14. Running(l) BY <1>3, <1>5, <1>10, <1>13 DEF Running
<1> QED BY <1>1, <1>8, <1>10, <1>13, <1>14

(* What a context switch leaves alone.                                     *)
Steady(l, k) ==
  /\ l.priority = k.priority /\ l.held = k.held /\ l.delayed = k.delayed
  /\ l.overflowed = k.overflowed /\ l.events = k.events /\ l.pending = k.pending
  /\ l.suspended = k.suspended /\ l.ticks = k.ticks

LEMMA SteadyLists ==
  ASSUME NEW k, NEW l, ListsInv(k), RingsInv(l), ReadyTasks(l) = ReadyTasks(k), Steady(l, k)
  PROVE  ListsInv(l)
<1>1. WaitsInv(l) BY DEF ListsInv, WaitsInv, Steady, Sleeping, Listed
<1>2. EventsInv(l) BY DEF ListsInv, EventsInv, Steady, Sleeping, Listed
<1> QED BY <1>1, <1>2 DEF ListsInv

(* A switch that is requested, or not needed, leaves the highest running.  *)
LEMMA PendSVIs ==
  ASSUME NEW k \in Kernels, ListsInv(k), k.suspended \/ k.pendsv \/ Running(k)
  PROVE  LET l == PendSV(k)
         IN  /\ l \in Kernels /\ ListsInv(l) /\ ReadyTasks(l) = ReadyTasks(k)
             /\ Steady(l, k) /\ ~l.pendsv
             /\ IF k.suspended THEN l.current = k.current ELSE Running(l)
<1>1. PICK l : l = PendSV(k) OBVIOUS
<1>2. k.suspended \in BOOLEAN /\ k.pendsv \in BOOLEAN /\ RingsInv(k) BY DEF Kernels, ListsInv
<1>3. CASE ~k.pendsv
  <2>1. l = k BY <1>1, <1>3 DEF PendSV
  <2> QED BY <1>1, <1>2, <1>3, <2>1 DEF Steady
<1>4. CASE k.pendsv /\ k.suspended
  <2>1. l = [k EXCEPT !.pendsv = FALSE, !.yield = TRUE]
    BY <1>1, <1>4 DEF PendSV, vTaskSwitchContext
  <2>2. l \in Kernels /\ l.ready = k.ready /\ l.current = k.current /\ Steady(l, k) /\ ~l.pendsv
    BY <2>1 DEF Kernels, Steady
  <2>3. ReadyTasks(l) = ReadyTasks(k) BY <2>2 DEF ReadyTasks, Steady
  <2>4. RingsInv(l) BY <1>2, <2>2, <2>3 DEF RingsInv, Steady
  <2>5. ListsInv(l) BY <2>2, <2>3, <2>4, SteadyLists
  <2> QED BY <1>1, <1>4, <2>2, <2>3, <2>5
<1>5. CASE k.pendsv /\ ~k.suspended
  <2>1. PICK m : m = [k EXCEPT !.pendsv = FALSE, !.yield = FALSE] OBVIOUS
  <2>2. l = SelectHighest(m) BY <1>1, <1>5, <2>1 DEF PendSV, vTaskSwitchContext
  <2>3. m \in Kernels /\ m.ready = k.ready /\ Steady(m, k) /\ ~m.pendsv
    BY <2>1 DEF Kernels, Steady
  <2>4. ReadyTasks(m) = ReadyTasks(k) BY <2>3 DEF ReadyTasks, Steady
  <2>5. RingsInv(m) BY <1>2, <2>3, <2>4 DEF RingsInv, Steady
  <2>6. /\ l \in Kernels /\ RingsInv(l) /\ ReadyTasks(l) = ReadyTasks(m) /\ Running(l)
        /\ l = [m EXCEPT !.ready = l.ready, !.current = l.current]
    BY <2>2, <2>3, <2>5, SelectIs
  <2>7. Steady(l, k) /\ ~l.pendsv BY <2>3, <2>6 DEF Steady, Kernels
  <2>8. ListsInv(l) BY <2>4, <2>6, <2>7, SteadyLists
  <2> QED BY <1>1, <1>5, <2>4, <2>6, <2>7, <2>8
<1> QED BY <1>2, <1>3, <1>4, <1>5

-----------------------------------------------------------------------------
(* Leaving an event list *)

LEMMA EventsShrink ==
  ASSUME NEW k \in Kernels, NEW l \in Kernels, EventsInv(k), l.priority = k.priority,
         Sleeping(l) \subseteq Sleeping(k),
         \A list \in Events :
           \/ l.events[list] = k.events[list]
           \/ \E t : Lacks(l.events[list], k.events[list], t)
  PROVE  /\ EventsInv(l)
         /\ \A list \in Events : ToSet(l.events[list]) \subseteq ToSet(k.events[list])
         /\ \A t : Listed(l, t) => Listed(k, t)
<1>1. \A list \in Events : ToSet(l.events[list]) \subseteq ToSet(k.events[list]) BY DEF Lacks
<1>2. \A t : Listed(l, t) => Listed(k, t) BY <1>1 DEF Listed
<1>3. ASSUME NEW list \in Events
      PROVE  /\ IsInjective(l.events[list])
             /\ \A i, j \in DOMAIN l.events[list] :
                  i < j => BasePriority[l.events[list][i]] >= BasePriority[l.events[list][j]]
  <2>1. /\ IsInjective(k.events[list])
        /\ \A i, j \in DOMAIN k.events[list] :
             i < j => BasePriority[k.events[list][i]] >= BasePriority[k.events[list][j]]
    BY DEF EventsInv
  <2>2. CASE l.events[list] = k.events[list] BY <2>1, <2>2
  <2>3. CASE \E t : Lacks(l.events[list], k.events[list], t)
    <3>1. IsInjective(l.events[list]) BY <2>3 DEF Lacks
    <3>2. ASSUME NEW i \in DOMAIN l.events[list], NEW j \in DOMAIN l.events[list], i < j
          PROVE  BasePriority[l.events[list][i]] >= BasePriority[l.events[list][j]]
      <4>1. PICK a, b \in DOMAIN k.events[list] :
              a < b /\ l.events[list][i] = k.events[list][a] /\ l.events[list][j] = k.events[list][b]
        BY <2>3, <3>2 DEF Lacks
      <4> QED BY <2>1, <4>1
    <3> QED BY <3>1, <3>2
  <2> QED BY <2>2, <2>3
<1>4. ASSUME NEW list \in Events, NEW t \in ToSet(l.events[list])
      PROVE  /\ list[1] \in Mutexes => t \notin Sleeping(l)
             /\ \A other \in Events : t \in ToSet(l.events[other]) => other = list
  <2>1. t \in ToSet(k.events[list]) BY <1>1
  <2>2. /\ list[1] \in Mutexes => t \notin Sleeping(k)
        /\ \A other \in Events : t \in ToSet(k.events[other]) => other = list
    BY <2>1 DEF EventsInv
  <2> QED BY <1>1, <2>2
<1>5. \A t \in Tasks : Listed(l, t) => l.priority[t] = BasePriority[t] BY <1>2 DEF EventsInv
<1> QED BY <1>1, <1>2, <1>3, <1>4, <1>5 DEF EventsInv

(* The first of a list is woken, or put by while the scheduler is suspended. *)
Woken(m, k, list) ==
  /\ m \in Kernels /\ ListsInv(m)
  /\ m.current = k.current /\ m.priority = k.priority /\ m.held = k.held
  /\ m.suspended = k.suspended /\ m.ticks = k.ticks
  /\ m.events = [k.events EXCEPT ![list] = Tail(@)]
  /\ ReadyTasks(m) = ReadyTasks(k) \cup (IF k.suspended THEN {} ELSE {k.events[list][1]})
  /\ m.pending = IF k.suspended THEN Append(k.pending, k.events[list][1]) ELSE k.pending

LEMMA FirstIs ==
  ASSUME NEW k \in Kernels, ListsInv(k), NEW list \in Events, k.events[list] # <<>>
  PROVE  LET t == k.events[list][1]
         IN  /\ t \in Task /\ t \in Tasks /\ Listed(k, t) /\ t \in ToSet(k.events[list])
             /\ t \notin ReadyTasks(k) /\ t \notin ToSet(k.pending)
             /\ k.events[list] \in Seq(Task) /\ IsInjective(k.events[list])
             /\ k.priority[t] = BasePriority[t]
             /\ Tail(k.events[list]) \in Seq(Task)
             /\ Lacks(Tail(k.events[list]), k.events[list], t)
             /\ \A u \in ToSet(k.events[list]) : k.priority[u] <= k.priority[t]
<1>1. PICK first : first = k.events[list][1] OBVIOUS
<1>2. k.events[list] \in Seq(Task) /\ IsInjective(k.events[list])
  BY DEF Kernels, ListsInv, EventsInv
<1>3. /\ Tail(k.events[list]) \in Seq(Task) /\ Lacks(Tail(k.events[list]), k.events[list], first)
      /\ first \in ToSet(k.events[list]) /\ first \in Task /\ 1 \in DOMAIN k.events[list]
  BY <1>1, <1>2, TailIs
<1>4. Listed(k, first) /\ first \in Tasks BY <1>3, PrioritiesAre DEF Listed
<1>5. first \notin ReadyTasks(k) /\ first \notin ToSet(k.pending)
  BY <1>4 DEF ListsInv, WaitsInv
<1>6. k.priority[first] = BasePriority[first] BY <1>4 DEF ListsInv, EventsInv
<1>7. ASSUME NEW u \in ToSet(k.events[list]) PROVE k.priority[u] <= k.priority[first]
  <2>1. PICK i \in DOMAIN k.events[list] : k.events[list][i] = u BY <1>2, ToSetOf
  <2>2. u \in Task /\ u \in Tasks /\ Listed(k, u) BY <1>2, ToSetOf, PrioritiesAre DEF Listed
  <2>3. k.priority[u] = BasePriority[u] BY <2>2 DEF ListsInv, EventsInv
  <2>4. BasePriority[u] \in Nat /\ BasePriority[first] \in Nat
    BY <1>4, <2>2, PriorityAssumption DEF Tasks
  <2>5. i = 1 \/ 1 < i BY <1>2, LenProperties
  <2>6. 1 < i => BasePriority[first] >= BasePriority[u]
    BY <1>1, <1>3, <2>1 DEF ListsInv, EventsInv
  <2> QED BY <1>1, <1>6, <2>1, <2>3, <2>4, <2>5, <2>6
<1> QED BY <1>1, <1>2, <1>3, <1>4, <1>5, <1>6, <1>7

(* xTaskRemoveFromEventList                                                *)
LEMMA RemoveIs ==
  ASSUME NEW k \in Kernels, ListsInv(k), NEW list \in Events, k.events[list] # <<>>
  PROVE  LET m == RemoveFromEventList(k, list)
         IN  /\ Woken(m, k, list) /\ m.pendsv = k.pendsv
             /\ m.yield = (k.yield \/ k.priority[k.events[list][1]] > k.priority[k.current])
<1>1. PICK t : t = k.events[list][1] OBVIOUS
<1>2. /\ t \in Task /\ t \in Tasks /\ Listed(k, t) /\ t \in ToSet(k.events[list])
      /\ t \notin ReadyTasks(k) /\ t \notin ToSet(k.pending)
      /\ Tail(k.events[list]) \in Seq(Task)
      /\ Lacks(Tail(k.events[list]), k.events[list], t)
  BY <1>1, FirstIs
<1>3. PICK events : events = [k.events EXCEPT ![list] = Tail(@)] OBVIOUS
<1>4. events \in [Events -> Seq(Task)] BY <1>2, <1>3 DEF Kernels
<1>5. PICK yield : yield = (k.yield \/ k.priority[t] > k.priority[k.current]) OBVIOUS
<1>6. PICK out : out = [k EXCEPT !.events = events, !.yield = yield] OBVIOUS
<1>7. RemoveFromEventList(k, list) =
        IF k.suspended THEN [out EXCEPT !.pending = Append(@, t)]
                       ELSE AddToReady(Unlist(out, t), t)
  BY <1>1, <1>3, <1>5, <1>6 DEF RemoveFromEventList, Kernels
<1>8. /\ out \in Kernels /\ out.events = events /\ out.yield = yield
      /\ out.current = k.current /\ out.priority = k.priority /\ out.held = k.held
      /\ out.ready = k.ready /\ out.delayed = k.delayed /\ out.overflowed = k.overflowed
      /\ out.pending = k.pending /\ out.suspended = k.suspended /\ out.ticks = k.ticks
      /\ out.pendsv = k.pendsv
  BY <1>4, <1>5, <1>6 DEF Kernels
<1>9. ReadyTasks(out) = ReadyTasks(k) /\ RingsInv(k) BY <1>8 DEF ReadyTasks, ListsInv
<1>10. RingsInv(out) BY <1>8, <1>9 DEF RingsInv
<1>11. PICK m : m = RemoveFromEventList(k, list) OBVIOUS
<1>12. /\ \A other \in Events :
            events[other] = IF other = list THEN Tail(k.events[list]) ELSE k.events[other]
       /\ \A other \in Events : t \in ToSet(k.events[other]) => other = list
       /\ ToSet(events[list]) = ToSet(k.events[list]) \ {t}
  BY <1>2, <1>3 DEF Kernels, ListsInv, EventsInv, Lacks
<1>13. \A other \in Events : t \notin ToSet(events[other]) BY <1>12
<1>14. CASE k.suspended
  <2>1. m = [out EXCEPT !.pending = Append(k.pending, t)] BY <1>7, <1>8, <1>11, <1>14
  <2>2. PICK pending : pending = Append(k.pending, t) OBVIOUS
  <2>3. /\ pending \in Seq(Task) /\ IsInjective(pending)
        /\ ToSet(pending) = ToSet(k.pending) \cup {t}
    <3>1. k.pending \in Seq(Task) /\ IsInjective(k.pending) BY DEF Kernels, ListsInv, WaitsInv
    <3> QED BY <1>2, <2>2, <3>1, AppendIs
  <2>4. /\ m \in Kernels /\ m.pending = pending /\ m.events = events /\ m.yield = yield
        /\ m.current = k.current /\ m.priority = k.priority /\ m.held = k.held
        /\ m.ready = k.ready /\ m.delayed = k.delayed /\ m.overflowed = k.overflowed
        /\ m.suspended = k.suspended /\ m.ticks = k.ticks /\ m.pendsv = k.pendsv
    BY <1>8, <2>1, <2>2, <2>3 DEF Kernels
  <2>5. ReadyTasks(m) = ReadyTasks(k) BY <2>4 DEF ReadyTasks
  <2>6. RingsInv(m) BY <1>9, <2>4, <2>5 DEF RingsInv
  <2>7. Sleeping(m) = Sleeping(k) BY <2>4 DEF Sleeping
  <2>8. EventsInv(m) /\ \A u : Listed(m, u) => Listed(k, u)
    BY <1>2, <1>12, <2>4, <2>7, EventsShrink DEF ListsInv
  <2>9. ~Listed(m, t) BY <1>13, <2>4 DEF Listed
  <2>10. WaitsInv(m)
    BY <1>2, <2>3, <2>4, <2>5, <2>7, <2>8, <2>9 DEF ListsInv, WaitsInv
  <2>11. ListsInv(m) BY <2>6, <2>8, <2>10 DEF ListsInv
  <2>12. Woken(m, k, list) BY <1>1, <1>3, <1>14, <2>2, <2>4, <2>5, <2>11 DEF Woken
  <2> QED BY <1>1, <1>5, <1>11, <2>4, <2>12
<1>15. CASE ~k.suspended
  <2>1. m = AddToReady(Unlist(out, t), t) BY <1>7, <1>11, <1>15
  <2>2. IsInjective(out.delayed) /\ IsInjective(out.overflowed)
    BY <1>8 DEF ListsInv, WaitsInv
  <2>3. Readied(m, out, t) /\ m.events = events /\ m.pending = k.pending
    BY <1>2, <1>8, <1>10, <2>1, <2>2, ReadyIs
  <2>4. /\ m \in Kernels /\ RingsInv(m) /\ ReadyTasks(m) = ReadyTasks(k) \cup {t}
        /\ IsInjective(m.delayed) /\ ToSet(m.delayed) = ToSet(k.delayed) \ {t}
        /\ IsInjective(m.overflowed) /\ ToSet(m.overflowed) = ToSet(k.overflowed) \ {t}
        /\ m.yield = yield /\ m.current = k.current /\ m.priority = k.priority
        /\ m.held = k.held /\ m.suspended = k.suspended /\ m.ticks = k.ticks
        /\ m.pendsv = k.pendsv
    BY <1>8, <1>9, <2>3 DEF Readied, Keeps
  <2>5. Sleeping(m) = Sleeping(k) \ {t} BY <2>4 DEF Sleeping
  <2>6. EventsInv(m) /\ \A u : Listed(m, u) => Listed(k, u)
    BY <1>2, <1>12, <2>3, <2>4, <2>5, EventsShrink DEF ListsInv
  <2>7. ~Listed(m, t) BY <1>13, <2>3 DEF Listed
  <2>8. WaitsInv(m)
    BY <1>2, <2>3, <2>4, <2>5, <2>6, <2>7 DEF ListsInv, WaitsInv
  <2>9. ListsInv(m) BY <2>4, <2>6, <2>8 DEF ListsInv
  <2>10. Woken(m, k, list) BY <1>1, <1>3, <1>15, <2>3, <2>4, <2>9 DEF Woken
  <2> QED BY <1>1, <1>5, <1>11, <2>4, <2>10
<1> QED BY <1>11, <1>14, <1>15 DEF Kernels

(* Two kernels that differ in no list are alike in what holds of the lists. *)
Alike(l, k) ==
  /\ l.ready = k.ready /\ l.priority = k.priority /\ l.delayed = k.delayed
  /\ l.overflowed = k.overflowed /\ l.events = k.events /\ l.pending = k.pending

LEMMA AlikeLists ==
  ASSUME NEW k, NEW l, ListsInv(k), Alike(l, k)
  PROVE  ListsInv(l) /\ ReadyTasks(l) = ReadyTasks(k)
<1>1. /\ ReadyTasks(l) = ReadyTasks(k) /\ Sleeping(l) = Sleeping(k)
      /\ \A t : Listed(l, t) <=> Listed(k, t)
  BY DEF ReadyTasks, Sleeping, Listed, Alike
<1>2. RingsInv(l) BY <1>1 DEF ListsInv, RingsInv, Alike
<1>3. WaitsInv(l) BY <1>1 DEF ListsInv, WaitsInv, Alike
<1>4. EventsInv(l) BY <1>1 DEF ListsInv, EventsInv, Alike
<1> QED BY <1>1, <1>2, <1>3, <1>4 DEF ListsInv

LEMMA WakeIs ==
  ASSUME NEW k \in Kernels, ListsInv(k), NEW list \in Events, k.events[list] # <<>>
  PROVE  LET m == Wake(k, list)
         IN  /\ Woken(m, k, list)
             /\ m.pendsv = (k.pendsv \/ k.priority[k.events[list][1]] > k.priority[k.current])
<1>1. PICK out : out = RemoveFromEventList(k, list) OBVIOUS
<1>2. Woken(out, k, list) /\ out.pendsv = k.pendsv BY <1>1, RemoveIs
<1>3. PICK pendsv :
        pendsv = (k.pendsv \/ k.priority[k.events[list][1]] > k.priority[k.current])
  OBVIOUS
<1>4. PICK m : m = [out EXCEPT !.pendsv = pendsv] OBVIOUS
<1>5. pendsv \in BOOLEAN BY <1>3
<1>6. Wake(k, list) = m BY <1>1, <1>2, <1>3, <1>4 DEF Wake, Woken, Kernels
<1>7. /\ m \in Kernels /\ Alike(m, out) /\ m.pendsv = pendsv
      /\ m.current = out.current /\ m.held = out.held /\ m.suspended = out.suspended
      /\ m.ticks = out.ticks /\ m.events = out.events /\ m.pending = out.pending
      /\ m.priority = out.priority
  BY <1>2, <1>4, <1>5 DEF Woken, Kernels, Alike
<1>8. ListsInv(m) /\ ReadyTasks(m) = ReadyTasks(out) BY <1>2, <1>7, AlikeLists DEF Woken
<1>9. Woken(m, k, list) BY <1>2, <1>7, <1>8 DEF Woken
<1> QED BY <1>3, <1>6, <1>7, <1>9

LEMMA DrainOneIs ==
  ASSUME NEW k \in Kernels, ListsInv(k), NEW list \in Events, k.events[list] # <<>>
  PROVE  LET m == DrainOne(k, list)
         IN  /\ Woken(m, k, list) /\ m.pendsv = k.pendsv
             /\ k.yield => m.yield
             /\ k.priority[k.events[list][1]] > k.priority[k.current] => m.yield
<1>1. PICK out : out = RemoveFromEventList(k, list) OBVIOUS
<1>2. /\ Woken(out, k, list) /\ out.pendsv = k.pendsv
      /\ out.yield = (k.yield \/ k.priority[k.events[list][1]] > k.priority[k.current])
  BY <1>1, RemoveIs
<1>3. PICK yield :
        yield = (out.yield \/ k.priority[k.events[list][1]] > k.priority[k.current])
  OBVIOUS
<1>4. PICK m : m = [out EXCEPT !.yield = yield] OBVIOUS
<1>5. yield \in BOOLEAN BY <1>3
<1>6. DrainOne(k, list) = m BY <1>1, <1>2, <1>3, <1>4 DEF DrainOne, Woken, Kernels
<1>7. /\ m \in Kernels /\ Alike(m, out) /\ m.pendsv = out.pendsv /\ m.yield = yield
      /\ m.current = out.current /\ m.held = out.held /\ m.suspended = out.suspended
      /\ m.ticks = out.ticks /\ m.events = out.events /\ m.pending = out.pending
      /\ m.priority = out.priority
  BY <1>2, <1>4, <1>5 DEF Woken, Kernels, Alike
<1>8. ListsInv(m) /\ ReadyTasks(m) = ReadyTasks(out) BY <1>2, <1>7, AlikeLists DEF Woken
<1>9. Woken(m, k, list) BY <1>2, <1>7, <1>8 DEF Woken
<1> QED BY <1>2, <1>3, <1>6, <1>7, <1>9

-----------------------------------------------------------------------------
(* Waiting *)

LEMMA TicksAre ==
  /\ 0 \in Ticks /\ portMAX_DELAY \in Ticks /\ Ticks \subseteq Nat
  /\ \A a \in Ticks : a \in Int
  /\ \A a, b \in Int : Later(a, b) \in Ticks /\ Elapsed(a, b) \in Ticks
<1>1. \A n \in Nat \ {0} : \A a \in Int : a % n \in 0 .. n - 1 OBVIOUS
<1>2. portMAX_DELAY + 1 \in Nat \ {0} /\ (portMAX_DELAY + 1) - 1 = portMAX_DELAY
  BY TickAssumption
<1>3. \A a \in Int : a % (portMAX_DELAY + 1) \in 0 .. portMAX_DELAY BY <1>1, <1>2
<1>4. \A a, b \in Int : a + b \in Int /\ b - a \in Int OBVIOUS
<1> QED BY <1>3, <1>4, TickAssumption DEF Ticks, Later, Elapsed

(* prvAddCurrentTaskToDelayedList: the current task is no longer ready; it has a time
   set unless it waits without limit. *)
Delayed(l, k) ==
  /\ l \in Kernels /\ RingsInv(l) /\ ReadyTasks(l) = ReadyTasks(k) \ {k.current}
  /\ IsInjective(l.delayed) /\ IsInjective(l.overflowed)
  /\ ToSet(l.delayed) \cap ToSet(l.overflowed) = {}
  /\ Sleeping(l) \ {k.current} = Sleeping(k) \ {k.current}
  /\ Keeps(l, k) /\ l.events = k.events /\ l.pending = k.pending /\ l.yield = k.yield

LEMMA DelayIs ==
  ASSUME NEW k \in Kernels, RingsInv(k), IsInjective(k.delayed), IsInjective(k.overflowed),
         ToSet(k.delayed) \cap ToSet(k.overflowed) = {}, k.current \in Task,
         NEW ticks \in Ticks, NEW indefinitely \in BOOLEAN
  PROVE  /\ Delayed(Delay(k, ticks, indefinitely), k)
         /\ ticks = portMAX_DELAY /\ indefinitely =>
              k.current \notin Sleeping(Delay(k, ticks, indefinitely))
<1> USE DEF Delayed
<1>1. PICK t \in Task : t = k.current OBVIOUS
<1>2. PICK m : m = Unlist(k, t) OBVIOUS
<1>3. /\ m \in Kernels /\ RingsInv(m) /\ ReadyTasks(m) = ReadyTasks(k) \ {t}
      /\ IsInjective(m.delayed) /\ ToSet(m.delayed) = ToSet(k.delayed) \ {t}
      /\ IsInjective(m.overflowed) /\ ToSet(m.overflowed) = ToSet(k.overflowed) \ {t}
      /\ Keeps(m, k)
      /\ m = [k EXCEPT !.ready = m.ready, !.delayed = m.delayed,
                       !.overflowed = m.overflowed, !.wake = m.wake]
  BY <1>2, UnlistIs
<1>4. m.events = k.events /\ m.pending = k.pending /\ m.yield = k.yield /\ m.unblock = k.unblock
  BY <1>3 DEF Kernels
<1>5. PICK time : time = Later(k.tick, ticks) OBVIOUS
<1>6. time \in Ticks
  <2>1. k.tick \in Int /\ ticks \in Int BY TicksAre DEF Kernels
  <2> QED BY <1>5, <2>1, TicksAre
<1>7. t \in Tasks BY PrioritiesAre
<1>8. PICK wake : wake = [m.wake EXCEPT ![t] = time] OBVIOUS
<1>9. wake \in [Tasks -> Ticks] BY <1>3, <1>6, <1>8 DEF Kernels
<1>10. PICK out : out = [m EXCEPT !.wake = wake] OBVIOUS
<1>11. /\ out \in Kernels /\ out.ready = m.ready /\ out.delayed = m.delayed
       /\ out.overflowed = m.overflowed /\ Keeps(out, m) /\ out.wake = wake
       /\ out.events = m.events /\ out.pending = m.pending /\ out.yield = m.yield
       /\ out.unblock = m.unblock /\ out.delayed \in Seq(Task) /\ out.overflowed \in Seq(Task)
  BY <1>3, <1>9, <1>10 DEF Kernels, Keeps
<1>12. Delay(k, ticks, indefinitely) =
         IF ticks = portMAX_DELAY /\ indefinitely THEN m
         ELSE IF time < k.tick THEN [out EXCEPT !.overflowed = Insert(@, t, out.wake)]
         ELSE [out EXCEPT !.delayed = Insert(@, t, out.wake), !.unblock = Min({@, time})]
  BY <1>1, <1>2, <1>5, <1>8, <1>10 DEF Delay
<1>13. PICK l : l = Delay(k, ticks, indefinitely) OBVIOUS
<1>14. \A u \in Task : wake[u] \in Int BY <1>9, PrioritiesAre, TicksAre
<1>15. CASE ticks = portMAX_DELAY /\ indefinitely
  <2>1. l = m BY <1>12, <1>13, <1>15
  <2> QED BY <1>1, <1>3, <1>4, <1>13, <2>1 DEF Sleeping
<1>16. CASE ~(ticks = portMAX_DELAY /\ indefinitely) /\ time < k.tick
  <2>1. PICK list : list = Insert(out.overflowed, t, wake) OBVIOUS
  <2>2. l = [out EXCEPT !.overflowed = list] BY <1>11, <1>12, <1>13, <1>16, <2>1
  <2>3. list \in Seq(Task) /\ IsInjective(list) /\ ToSet(list) = ToSet(out.overflowed) \cup {t}
    BY <1>3, <1>11, <1>14, <2>1, InsertIs
  <2>4. /\ l \in Kernels /\ l.ready = out.ready /\ l.delayed = out.delayed
        /\ l.overflowed = list /\ Keeps(l, out) /\ l.events = out.events
        /\ l.pending = out.pending /\ l.yield = out.yield
    BY <1>11, <2>2, <2>3 DEF Kernels, Keeps
  <2>5. ReadyTasks(l) = ReadyTasks(m) BY <1>11, <2>4 DEF ReadyTasks, Keeps
  <2>6. RingsInv(l) BY <1>3, <1>11, <2>4, <2>5 DEF RingsInv, Keeps
  <2>7. Keeps(l, k) BY <1>3, <1>11, <2>4 DEF Keeps
  <2> QED BY <1>1, <1>3, <1>4, <1>11, <1>13, <1>16, <2>3, <2>4, <2>5, <2>6, <2>7 DEF Sleeping
<1>17. CASE ~(ticks = portMAX_DELAY /\ indefinitely) /\ ~(time < k.tick)
  <2>1. PICK list : list = Insert(out.delayed, t, wake) OBVIOUS
  <2>2. PICK unblock : unblock = Min({out.unblock, time}) OBVIOUS
  <2>3. l = [out EXCEPT !.delayed = list, !.unblock = unblock]
    BY <1>11, <1>12, <1>13, <1>17, <2>1, <2>2
  <2>4. list \in Seq(Task) /\ IsInjective(list) /\ ToSet(list) = ToSet(out.delayed) \cup {t}
    BY <1>3, <1>11, <1>14, <2>1, InsertIs
  <2>5. unblock \in Ticks
    <3>1. out.unblock \in Ticks BY <1>11 DEF Kernels
    <3>2. {out.unblock, time} \in SUBSET Nat BY <1>6, <3>1, TicksAre
    <3>3. unblock \in {out.unblock, time} BY <2>2, <3>2, MinIs
    <3> QED BY <1>6, <3>1, <3>3
  <2>6. /\ l \in Kernels /\ l.ready = out.ready /\ l.overflowed = out.overflowed
        /\ l.delayed = list /\ Keeps(l, out) /\ l.events = out.events
        /\ l.pending = out.pending /\ l.yield = out.yield
    BY <1>11, <2>3, <2>4, <2>5 DEF Kernels, Keeps
  <2>7. ReadyTasks(l) = ReadyTasks(m) BY <1>11, <2>6 DEF ReadyTasks, Keeps
  <2>8. RingsInv(l) BY <1>3, <1>11, <2>6, <2>7 DEF RingsInv, Keeps
  <2>9. Keeps(l, k) BY <1>3, <1>11, <2>6 DEF Keeps
  <2> QED BY <1>1, <1>3, <1>4, <1>11, <1>13, <1>17, <2>4, <2>6, <2>7, <2>8, <2>9 DEF Sleeping
<1> QED BY <1>15, <1>16, <1>17

LEMMA PlaceIs ==
  ASSUME NEW k \in Kernels, ListsInv(k), k.current \in Task, k.current \in ReadyTasks(k),
         k.priority[k.current] = BasePriority[k.current],
         NEW list \in Events, NEW ticks \in Ticks,
         list[1] \in Mutexes => ticks = portMAX_DELAY
  PROVE  LET l == vTaskPlaceOnEventList(k, list, ticks)
         IN  /\ l \in Kernels /\ ListsInv(l) /\ ReadyTasks(l) = ReadyTasks(k) \ {k.current}
             /\ Keeps(l, k) /\ l.pending = k.pending /\ l.yield = k.yield
             /\ ToSet(l.events[list]) = ToSet(k.events[list]) \cup {k.current}
             /\ \A other \in Events : other # list => l.events[other] = k.events[other]
<1>1. PICK t : t = k.current OBVIOUS
<1>2. t \in Task /\ t \in Tasks /\ t \in ReadyTasks(k) BY <1>1, PrioritiesAre
<1>3. ~Listed(k, t) /\ t \notin ToSet(k.pending) /\ t \notin Sleeping(k)
  BY <1>2 DEF ListsInv, WaitsInv
<1>4. PICK place : place = Insert(k.events[list], t, EventValue(k)) OBVIOUS
<1>5. /\ place \in Seq(Task) /\ IsInjective(place)
      /\ ToSet(place) = ToSet(k.events[list]) \cup {t}
      /\ \A i, j \in DOMAIN place :
           i < j => BasePriority[place[i]] >= BasePriority[place[j]]
  <2>1. PICK value : value = EventValue(k) OBVIOUS
  <2>2. \A u \in Tasks : value[u] = -k.priority[u] BY <2>1 DEF EventValue
  <2>3. k.priority \in [Tasks -> Priorities] BY DEF Kernels
  <2>4. \A u \in Tasks : k.priority[u] \in Int
    <3>1. \A p \in Priorities : p \in Int BY PrioritiesAre
    <3> QED BY <2>3, <3>1
  <2>5. \A u \in Task : value[u] \in Int BY <2>2, <2>4, PrioritiesAre
  <2>6. k.events[list] \in Seq(Task) /\ IsInjective(k.events[list]) /\ t \notin ToSet(k.events[list])
    BY <1>3 DEF Kernels, ListsInv, EventsInv, Listed
  <2>7. /\ place \in Seq(Task) /\ IsInjective(place)
        /\ ToSet(place) = ToSet(k.events[list]) \cup {t}
        /\ Sorted(k.events[list], value) => Sorted(place, value)
    BY <1>2, <1>4, <2>1, <2>5, <2>6, InsertIs
  <2>8. ASSUME NEW u \in ToSet(k.events[list]) \cup {t}
        PROVE  u \in Tasks /\ value[u] = -BasePriority[u] /\ BasePriority[u] \in Nat
    <3>1. ToSet(k.events[list]) \subseteq Task BY <2>6, ToSetOf
    <3>2. u \in Task /\ u \in Tasks BY <1>2, <3>1, PrioritiesAre
    <3>3. k.priority[u] = BasePriority[u]
      <4>1. u # t => Listed(k, u) BY DEF Listed
      <4> QED BY <1>1, <3>2, <4>1 DEF ListsInv, EventsInv
    <3> QED BY <2>2, <3>2, <3>3, PriorityAssumption DEF Tasks
  <2>9. Sorted(k.events[list], value)
    <3> SUFFICES ASSUME NEW i \in DOMAIN k.events[list], NEW j \in DOMAIN k.events[list], i < j
                 PROVE  value[k.events[list][i]] <= value[k.events[list][j]]
      BY DEF Sorted
    <3>1. BasePriority[k.events[list][i]] >= BasePriority[k.events[list][j]]
      BY DEF ListsInv, EventsInv
    <3>2. k.events[list][i] \in ToSet(k.events[list]) /\ k.events[list][j] \in ToSet(k.events[list])
      BY DEF ToSet
    <3> QED BY <2>8, <3>1, <3>2
  <2>10. ASSUME NEW i \in DOMAIN place, NEW j \in DOMAIN place, i < j
         PROVE  BasePriority[place[i]] >= BasePriority[place[j]]
    <3>1. value[place[i]] <= value[place[j]] BY <2>7, <2>9, <2>10 DEF Sorted
    <3>2. place[i] \in ToSet(place) /\ place[j] \in ToSet(place) BY DEF ToSet
    <3> QED BY <2>7, <2>8, <3>1, <3>2
  <2> QED BY <2>7, <2>10
<1>6. PICK events : events = [k.events EXCEPT ![list] = place] OBVIOUS
<1>7. events \in [Events -> Seq(Task)] BY <1>5, <1>6 DEF Kernels
<1>8. PICK m : m = [k EXCEPT !.events = events] OBVIOUS
<1>9. /\ m \in Kernels /\ m.ready = k.ready /\ m.delayed = k.delayed
      /\ m.overflowed = k.overflowed /\ m.pending = k.pending /\ m.yield = k.yield
      /\ m.events = events /\ Keeps(m, k)
  BY <1>7, <1>8 DEF Kernels, Keeps
<1>10. ReadyTasks(m) = ReadyTasks(k) /\ Sleeping(m) = Sleeping(k)
  BY <1>9 DEF ReadyTasks, Sleeping, Keeps
<1>11. RingsInv(m) BY <1>9, <1>10 DEF ListsInv, RingsInv, Keeps
<1>12. vTaskPlaceOnEventList(k, list, ticks) = Delay(m, ticks, TRUE)
  BY <1>1, <1>4, <1>6, <1>8 DEF vTaskPlaceOnEventList, Kernels
<1>13. PICK l : l = Delay(m, ticks, TRUE) OBVIOUS
<1>14. m.current = t BY <1>1, <1>9 DEF Keeps
<1>15. /\ l \in Kernels /\ RingsInv(l) /\ ReadyTasks(l) = ReadyTasks(m) \ {t}
       /\ IsInjective(l.delayed) /\ IsInjective(l.overflowed)
       /\ ToSet(l.delayed) \cap ToSet(l.overflowed) = {}
       /\ Sleeping(l) \ {t} = Sleeping(m) \ {t}
       /\ ticks = portMAX_DELAY => t \notin Sleeping(l)
       /\ Keeps(l, m) /\ l.events = m.events /\ l.pending = m.pending /\ l.yield = m.yield
  <2>1. /\ IsInjective(m.delayed) /\ IsInjective(m.overflowed)
        /\ ToSet(m.delayed) \cap ToSet(m.overflowed) = {}
    BY <1>9 DEF ListsInv, WaitsInv
  <2>2. PICK indefinitely \in BOOLEAN : indefinitely /\ l = Delay(m, ticks, indefinitely)
    BY <1>13
  <2>3. m.current \in Task BY <1>2, <1>14
  <2>4. m \in Kernels BY <1>9
  <2>5. /\ Delayed(Delay(m, ticks, indefinitely), m)
        /\ ticks = portMAX_DELAY /\ indefinitely =>
             m.current \notin Sleeping(Delay(m, ticks, indefinitely))
    BY <1>11, <2>1, <2>3, <2>4, DelayIs
  <2> QED BY <1>14, <2>2, <2>5 DEF Delayed
<1>16. \A other \in Events :
         /\ l.events[other] = IF other = list THEN place ELSE k.events[other]
         /\ t \notin ToSet(k.events[other])
  <2>1. l.events = events BY <1>9, <1>15
  <2>2. k.events \in [Events -> Seq(Task)] BY DEF Kernels
  <2> QED BY <1>3, <1>6, <2>1, <2>2 DEF Listed
<1>17. \A u : u # t /\ Listed(l, u) => Listed(k, u) BY <1>5, <1>16 DEF Listed
<1>18. WaitsInv(l)
  BY <1>3, <1>9, <1>10, <1>15, <1>17 DEF ListsInv, WaitsInv
<1>19. EventsInv(l)
  <2>1. l.priority = k.priority BY <1>9, <1>15 DEF Keeps
  <2>2. \A u \in Tasks : Listed(l, u) => l.priority[u] = BasePriority[u]
    BY <1>1, <1>17, <2>1 DEF ListsInv, EventsInv
  <2>3. ASSUME NEW other \in Events, NEW u \in ToSet(l.events[other])
        PROVE  /\ other[1] \in Mutexes => u \notin Sleeping(l)
               /\ \A third \in Events : u \in ToSet(l.events[third]) => third = other
    <3>1. CASE u = t
      <4>1. \A third \in Events : u \in ToSet(l.events[third]) => third = list
        BY <1>16, <3>1
      <4>2. other = list BY <4>1
      <4> QED BY <1>15, <3>1, <4>1, <4>2
    <3>2. CASE u # t
      <4>1. \A third \in Events : u \in ToSet(l.events[third]) => u \in ToSet(k.events[third])
        BY <1>5, <1>16, <3>2
      <4>2. u \in Sleeping(l) => u \in Sleeping(k) BY <1>10, <1>15, <3>2
      <4> QED BY <4>1, <4>2 DEF ListsInv, EventsInv
    <3> QED BY <3>1, <3>2
  <2>4. ASSUME NEW other \in Events
        PROVE  /\ IsInjective(l.events[other])
               /\ \A i, j \in DOMAIN l.events[other] :
                    i < j => BasePriority[l.events[other][i]] >= BasePriority[l.events[other][j]]
    <3>1. CASE other = list BY <1>5, <1>16, <3>1
    <3>2. CASE other # list
      <4>1. l.events[other] = k.events[other] BY <1>16, <3>2
      <4> QED BY <4>1 DEF ListsInv, EventsInv
    <3> QED BY <3>1, <3>2
  <2> QED BY <2>2, <2>3, <2>4 DEF EventsInv
<1>20. Keeps(l, k) BY <1>9, <1>15 DEF Keeps
<1> QED BY <1>1, <1>5, <1>9, <1>10, <1>12, <1>13, <1>15, <1>16, <1>18, <1>19, <1>20 DEF ListsInv

(* A priority that changes changes no list but the ready lists.            *)
LEMMA SetPriorityIs ==
  ASSUME NEW k \in Kernels, ListsInv(k), NEW t \in Task, NEW p \in Priorities, ~Listed(k, t)
  PROVE  LET l == SetPriority(k, t, p)
         IN  /\ l \in Kernels /\ ListsInv(l) /\ ReadyTasks(l) = ReadyTasks(k)
             /\ l.priority = [k.priority EXCEPT ![t] = p]
             /\ l.current = k.current /\ l.held = k.held /\ l.suspended = k.suspended
             /\ l.ticks = k.ticks /\ l.pendsv = k.pendsv /\ l.yield = k.yield
             /\ l.events = k.events /\ l.pending = k.pending
<1>1. t \in Tasks /\ k.priority \in [Tasks -> Priorities] BY PrioritiesAre DEF Kernels
<1>2. PICK priority : priority = [k.priority EXCEPT ![t] = p] OBVIOUS
<1>3. /\ priority \in [Tasks -> Priorities] /\ priority[t] = p
      /\ \A u \in Tasks : u # t => priority[u] = k.priority[u]
  BY <1>1, <1>2
<1>4. PICK l : l = SetPriority(k, t, p) OBVIOUS
<1>5. t \in ToSet(k.ready[k.priority[t]]) <=> t \in ReadyTasks(k) BY <1>1 DEF ReadyTasks
<1>6. RingsInv(k) /\ IsInjective(k.delayed) /\ IsInjective(k.overflowed)
  BY DEF ListsInv, WaitsInv
<1>7. /\ l \in Kernels /\ RingsInv(l) /\ ReadyTasks(l) = ReadyTasks(k)
      /\ l.priority = priority /\ IsInjective(l.delayed) /\ IsInjective(l.overflowed)
      /\ ToSet(l.delayed) = ToSet(k.delayed) /\ ToSet(l.overflowed) = ToSet(k.overflowed)
      /\ l.current = k.current /\ l.held = k.held /\ l.suspended = k.suspended
      /\ l.ticks = k.ticks /\ l.pendsv = k.pendsv /\ l.yield = k.yield
      /\ l.events = k.events /\ l.pending = k.pending
  <2>1. CASE t \notin ReadyTasks(k)
    <3>1. l = [k EXCEPT !.priority = priority]
      BY <1>2, <1>4, <1>5, <2>1 DEF SetPriority, Kernels
    <3>2. /\ l \in Kernels /\ l.ready = k.ready /\ l.priority = priority
          /\ l.delayed = k.delayed /\ l.overflowed = k.overflowed
          /\ l.current = k.current /\ l.held = k.held /\ l.suspended = k.suspended
          /\ l.ticks = k.ticks /\ l.pendsv = k.pendsv /\ l.yield = k.yield
          /\ l.events = k.events /\ l.pending = k.pending
      BY <1>3, <3>1 DEF Kernels
    <3>3. ASSUME NEW q \in Priorities
          PROVE  /\ IsInjective(l.ready[q])
                 /\ ToSet(l.ready[q]) = {End} \cup {u \in ReadyTasks(k) : l.priority[u] = q}
      <4>1. /\ IsInjective(k.ready[q])
            /\ ToSet(k.ready[q]) = {End} \cup {u \in ReadyTasks(k) : k.priority[u] = q}
        BY <1>6, RingIs
      <4>2. \A u \in ReadyTasks(k) : l.priority[u] = k.priority[u]
        BY <1>3, <2>1, <3>2 DEF ReadyTasks
      <4> QED BY <3>2, <4>1, <4>2
    <3>4. ReadyTasks(k) \in SUBSET Tasks /\ Idle \in ReadyTasks(k)
      BY <1>6 DEF ReadyTasks, RingsInv
    <3>5. RingsInv(l) /\ ReadyTasks(l) = ReadyTasks(k) BY <3>2, <3>3, <3>4, RingsOf
    <3> QED BY <1>6, <3>2, <3>5
  <2>2. CASE t \in ReadyTasks(k)
    <3>1. PICK m : m = Unlist(k, t) OBVIOUS
    <3>2. /\ m \in Kernels /\ RingsInv(m) /\ ReadyTasks(m) = ReadyTasks(k) \ {t}
          /\ IsInjective(m.delayed) /\ ToSet(m.delayed) = ToSet(k.delayed) \ {t}
          /\ IsInjective(m.overflowed) /\ ToSet(m.overflowed) = ToSet(k.overflowed) \ {t}
          /\ Keeps(m, k)
          /\ m = [k EXCEPT !.ready = m.ready, !.delayed = m.delayed,
                           !.overflowed = m.overflowed, !.wake = m.wake]
      BY <1>6, <3>1, UnlistIs
    <3>3. m.events = k.events /\ m.pending = k.pending /\ m.yield = k.yield
      BY <3>2 DEF Kernels
    <3>4. PICK out : out = [m EXCEPT !.priority = priority] OBVIOUS
    <3>5. l = AddToReady(out, t)
      BY <1>2, <1>4, <1>5, <2>2, <3>1, <3>2, <3>4 DEF SetPriority, Keeps, Kernels
    <3>6. /\ out \in Kernels /\ out.ready = m.ready /\ out.priority = priority
          /\ out.delayed = m.delayed /\ out.overflowed = m.overflowed
          /\ out.current = m.current /\ out.held = m.held /\ out.suspended = m.suspended
          /\ out.ticks = m.ticks /\ out.pendsv = m.pendsv /\ out.yield = m.yield
          /\ out.events = m.events /\ out.pending = m.pending
      BY <1>3, <3>2, <3>4 DEF Kernels
    <3>7. ASSUME NEW q \in Priorities
          PROVE  /\ IsInjective(out.ready[q])
                 /\ ToSet(out.ready[q]) = {End} \cup {u \in ReadyTasks(m) : out.priority[u] = q}
      <4>1. /\ IsInjective(m.ready[q])
            /\ ToSet(m.ready[q]) = {End} \cup {u \in ReadyTasks(m) : m.priority[u] = q}
        BY <3>2, RingIs
      <4>2. \A u \in ReadyTasks(m) : out.priority[u] = m.priority[u]
        BY <1>3, <3>2, <3>6 DEF ReadyTasks, Keeps
      <4> QED BY <3>6, <4>1, <4>2
    <3>8. ReadyTasks(m) \in SUBSET Tasks /\ Idle \in ReadyTasks(m)
      BY <3>2 DEF ReadyTasks, RingsInv
    <3>9. RingsInv(out) /\ ReadyTasks(out) = ReadyTasks(m) BY <3>6, <3>7, <3>8, RingsOf
    <3>10. /\ l \in Kernels /\ RingsInv(l) /\ ReadyTasks(l) = ReadyTasks(out) \cup {t}
           /\ Keeps(l, out) /\ l = [out EXCEPT !.ready = l.ready]
      BY <1>1, <3>2, <3>5, <3>6, <3>9, AddToReadyIs
    <3>11. /\ l.delayed = out.delayed /\ l.overflowed = out.overflowed
           /\ l.events = out.events /\ l.pending = out.pending /\ l.yield = out.yield
      BY <3>6, <3>10 DEF Kernels
    <3>12. t \notin ToSet(k.delayed) /\ t \notin ToSet(k.overflowed)
      BY <2>2 DEF ListsInv, WaitsInv, Sleeping
    <3> QED BY <2>2, <3>2, <3>3, <3>6, <3>9, <3>10, <3>11, <3>12 DEF Keeps
  <2> QED BY <2>1, <2>2
<1>8. Sleeping(l) = Sleeping(k) /\ \A u : Listed(l, u) <=> Listed(k, u)
  BY <1>7 DEF Sleeping, Listed
<1>9. WaitsInv(l) BY <1>7, <1>8 DEF ListsInv, WaitsInv
<1>10. EventsInv(l)
  <2>1. \A u \in Tasks : Listed(l, u) => l.priority[u] = BasePriority[u]
    BY <1>3, <1>7, <1>8 DEF ListsInv, EventsInv
  <2> QED BY <1>7, <1>8, <2>1 DEF ListsInv, EventsInv
<1> QED BY <1>2, <1>4, <1>7, <1>9, <1>10 DEF ListsInv

-----------------------------------------------------------------------------
(* Time *)

\* l is k with some more tasks ready, none of them from the list of a mutex.
Wakes(l, k) ==
  /\ l \in Kernels /\ ListsInv(l)
  /\ l.current = k.current /\ l.priority = k.priority /\ l.held = k.held
  /\ l.suspended = k.suspended /\ l.pendsv = k.pendsv
  /\ ReadyTasks(k) \subseteq ReadyTasks(l)
  /\ \A list \in Events :
       /\ ToSet(l.events[list]) \subseteq ToSet(k.events[list])
       /\ list[1] \in Mutexes => l.events[list] = k.events[list]

LEMMA WakesAgain ==
  ASSUME NEW k, NEW l, NEW m, Wakes(l, k), Wakes(m, l)
  PROVE  Wakes(m, k)
<1>1. \A list \in Events :
        /\ ToSet(m.events[list]) \subseteq ToSet(k.events[list])
        /\ list[1] \in Mutexes => m.events[list] = k.events[list]
  BY DEF Wakes
<1> QED BY <1>1 DEF Wakes

LEMMA AlikeWakes ==
  ASSUME NEW k, NEW l \in Kernels, ListsInv(k), Alike(l, k), l.current = k.current,
         l.held = k.held, l.suspended = k.suspended, l.pendsv = k.pendsv
  PROVE  Wakes(l, k) /\ ReadyTasks(l) = ReadyTasks(k)
BY AlikeLists DEF Wakes, Alike

LEMMA ResetUnblockIs ==
  ASSUME NEW k \in Kernels, ListsInv(k)
  PROVE  LET l == ResetUnblock(k)
         IN  /\ Wakes(l, k) /\ ReadyTasks(l) = ReadyTasks(k) /\ l.pending = k.pending
             /\ l.yield = k.yield /\ l.ticks = k.ticks
<1>1. PICK unblock : unblock = IF k.delayed = <<>> THEN portMAX_DELAY ELSE k.wake[k.delayed[1]]
  OBVIOUS
<1>2. unblock \in Ticks
  <2>1. k.delayed \in Seq(Task) /\ k.wake \in [Tasks -> Ticks] BY DEF Kernels
  <2>2. k.delayed # <<>> => 1 \in 1 .. Len(k.delayed) BY <2>1, EmptySeq
  <2>3. k.delayed # <<>> => k.delayed[1] \in Tasks BY <2>1, <2>2, ElementOfSeq, PrioritiesAre
  <2> QED BY <1>1, <2>1, <2>3, TicksAre
<1>3. PICK l : l = [k EXCEPT !.unblock = unblock] OBVIOUS
<1>4. ResetUnblock(k) = l BY <1>1, <1>3 DEF ResetUnblock
<1>5. /\ l \in Kernels /\ Alike(l, k) /\ l.current = k.current /\ l.held = k.held
      /\ l.suspended = k.suspended /\ l.pendsv = k.pendsv /\ l.pending = k.pending
      /\ l.yield = k.yield /\ l.ticks = k.ticks
  BY <1>2, <1>3 DEF Kernels, Alike
<1> QED BY <1>4, <1>5, AlikeWakes

LEMMA AdvanceIs ==
  ASSUME NEW k \in Kernels, ListsInv(k)
  PROVE  LET l == Advance(k)
         IN  /\ Wakes(l, k) /\ ReadyTasks(l) = ReadyTasks(k) /\ l.pending = k.pending
             /\ l.yield = k.yield /\ l.ticks = k.ticks
<1>1. PICK tick : tick = Later(k.tick, 1) OBVIOUS
<1>2. tick \in Ticks
  <2>1. k.tick \in Int BY TicksAre DEF Kernels
  <2> QED BY <1>1, <2>1, TicksAre
<1>3. PICK next : next = [k EXCEPT !.tick = tick] OBVIOUS
<1>4. /\ next \in Kernels /\ Alike(next, k) /\ next.current = k.current
      /\ next.held = k.held /\ next.suspended = k.suspended /\ next.pendsv = k.pendsv
      /\ next.pending = k.pending /\ next.yield = k.yield /\ next.ticks = k.ticks
      /\ next.tick = tick
  BY <1>2, <1>3 DEF Kernels, Alike
<1>5. Wakes(next, k) /\ ReadyTasks(next) = ReadyTasks(k) BY <1>4, AlikeWakes
<1>6. PICK turn : turn = [next EXCEPT !.delayed = k.overflowed, !.overflowed = <<>>] OBVIOUS
<1>7. Advance(k) = IF tick # 0 THEN next ELSE ResetUnblock(turn)
  BY <1>1, <1>3, <1>4, <1>6 DEF Advance
<1>8. /\ turn \in Kernels /\ turn.delayed = k.overflowed /\ turn.overflowed = <<>>
      /\ turn.ready = k.ready /\ turn.priority = k.priority /\ turn.events = k.events
      /\ turn.pending = k.pending /\ turn.current = k.current
      /\ turn.held = k.held /\ turn.suspended = k.suspended /\ turn.pendsv = k.pendsv
      /\ turn.yield = k.yield /\ turn.ticks = k.ticks
  <2>1. <<>> \in Seq(Task) BY EmptySeq
  <2> QED BY <1>4, <1>6, <2>1 DEF Kernels, Alike
<1>9. ToSet(<<>>) = {} /\ IsInjective(<<>>) BY DEF ToSet, IsInjective
<1>10. /\ ReadyTasks(turn) = ReadyTasks(k) /\ Sleeping(turn) \subseteq Sleeping(k)
       /\ \A t : Listed(turn, t) <=> Listed(k, t)
  BY <1>8, <1>9 DEF ReadyTasks, Sleeping, Listed
<1>11. ListsInv(turn)
  <2>1. RingsInv(turn) BY <1>8, <1>10 DEF ListsInv, RingsInv
  <2>2. WaitsInv(turn) BY <1>8, <1>9, <1>10 DEF ListsInv, WaitsInv
  <2>3. EventsInv(turn) BY <1>8, <1>10, EventsShrink DEF ListsInv
  <2> QED BY <2>1, <2>2, <2>3 DEF ListsInv
<1>12. Wakes(turn, k) BY <1>8, <1>10, <1>11 DEF Wakes
<1>13. PICK l : l = ResetUnblock(turn) OBVIOUS
<1>14. /\ Wakes(l, turn) /\ ReadyTasks(l) = ReadyTasks(turn) /\ l.pending = turn.pending
       /\ l.yield = turn.yield /\ l.ticks = turn.ticks
  BY <1>8, <1>11, <1>13, ResetUnblockIs
<1>15. Wakes(l, k) BY <1>12, <1>14, WakesAgain
<1> QED BY <1>4, <1>5, <1>7, <1>8, <1>10, <1>13, <1>14, <1>15

LEMMA DueIs ==
  ASSUME NEW k \in Kernels
  PROVE  Due(k) \in 0 .. Len(k.delayed)
<1>1. k.delayed \in Seq(Task) BY DEF Kernels
<1>2. Len(k.delayed) \in Nat BY <1>1, LenProperties
<1> DEFINE S == {n \in 0 .. Len(k.delayed) :
                   \A i \in 1 .. n : k.wake[k.delayed[i]] <= k.tick}
<1>3. 0 \in S BY <1>2
<1>4. S \in SUBSET Int /\ S \in SUBSET (0 .. Len(k.delayed)) BY <1>2
<1>5. IsFiniteSet(0 .. Len(k.delayed)) BY <1>2, FS_Interval
<1>6. IsFiniteSet(S)
  <2> HIDE DEF S
  <2> QED BY <1>4, <1>5, FS_Subset
<1>7. Max(S) \in S
  <2> HIDE DEF S
  <2> QED BY <1>3, <1>4, <1>6, MaxIs
<1>8. Due(k) = IF k.tick < k.unblock THEN 0 ELSE Max(S) BY DEF Due
<1> HIDE DEF S
<1>9. 0 \in 0 .. Len(k.delayed) /\ Max(S) \in 0 .. Len(k.delayed) BY <1>3, <1>4, <1>7
<1> QED BY <1>8, <1>9

(* A task whose time has come becomes ready.                               *)
LEMMA ExpireIs ==
  ASSUME NEW k \in Kernels, ListsInv(k), k.pending = <<>>, NEW t \in Task,
         \A list \in Events : list[1] \in Mutexes => t \notin ToSet(k.events[list])
  PROVE  LET l == Expire(k, t)
         IN  /\ Wakes(l, k) /\ ReadyTasks(l) = ReadyTasks(k) \cup {t}
             /\ l.pending = <<>> /\ l.yield = k.yield /\ l.ticks = k.ticks
<1>1. PICK m : m = Unlist(k, t) OBVIOUS
<1>2. RingsInv(k) /\ IsInjective(k.delayed) /\ IsInjective(k.overflowed)
  BY DEF ListsInv, WaitsInv
<1>3. /\ m \in Kernels /\ RingsInv(m) /\ ReadyTasks(m) = ReadyTasks(k) \ {t}
      /\ IsInjective(m.delayed) /\ ToSet(m.delayed) = ToSet(k.delayed) \ {t}
      /\ IsInjective(m.overflowed) /\ ToSet(m.overflowed) = ToSet(k.overflowed) \ {t}
      /\ Keeps(m, k)
      /\ m = [k EXCEPT !.ready = m.ready, !.delayed = m.delayed,
                       !.overflowed = m.overflowed, !.wake = m.wake]
  BY <1>1, <1>2, UnlistIs
<1>4. m.events = k.events /\ m.pending = k.pending /\ m.yield = k.yield
  BY <1>3 DEF Kernels
<1>5. PICK events : events = [list \in Events |-> Without(k.events[list], t)] OBVIOUS
<1>6. ASSUME NEW list \in Events
      PROVE  events[list] \in Seq(Task) /\ Lacks(events[list], k.events[list], t)
  <2>1. k.events[list] \in Seq(Task) /\ IsInjective(k.events[list])
    BY DEF Kernels, ListsInv, EventsInv
  <2> QED BY <1>5, <2>1, WithoutIs
<1>7. events \in [Events -> Seq(Task)]
  <2>1. DOMAIN events = Events /\ events = [list \in Events |-> events[list]] BY <1>5
  <2> QED BY <1>6, <2>1
<1>8. PICK out : out = [m EXCEPT !.events = events] OBVIOUS
<1>9. Expire(k, t) = AddToReady(out, t)
  <2>1. DOMAIN m.events = Events BY <1>3 DEF Kernels
  <2> QED BY <1>1, <1>3, <1>4, <1>5, <1>8, <2>1 DEF Expire, Kernels
<1>10. /\ out \in Kernels /\ out.events = events /\ out.ready = m.ready
       /\ out.delayed = m.delayed /\ out.overflowed = m.overflowed
       /\ out.pending = m.pending /\ out.yield = m.yield /\ Keeps(out, m)
  BY <1>3, <1>7, <1>8 DEF Kernels, Keeps
<1>11. ReadyTasks(out) = ReadyTasks(m) BY <1>10 DEF ReadyTasks, Keeps
<1>12. RingsInv(out) BY <1>3, <1>10, <1>11 DEF RingsInv, Keeps
<1>13. t \in Tasks BY PrioritiesAre
<1>14. PICK l : l = AddToReady(out, t) OBVIOUS
<1>15. /\ l \in Kernels /\ RingsInv(l) /\ ReadyTasks(l) = ReadyTasks(out) \cup {t}
       /\ Keeps(l, out) /\ l = [out EXCEPT !.ready = l.ready]
  BY <1>3, <1>10, <1>11, <1>12, <1>13, <1>14, AddToReadyIs
<1>16. /\ l.delayed = out.delayed /\ l.overflowed = out.overflowed
       /\ l.events = out.events /\ l.pending = out.pending /\ l.yield = out.yield
  BY <1>10, <1>15 DEF Kernels
<1>17. Keeps(l, k) /\ ReadyTasks(l) = ReadyTasks(k) \cup {t}
  BY <1>3, <1>10, <1>11, <1>15 DEF Keeps
<1>18. Sleeping(l) = Sleeping(k) \ {t} BY <1>3, <1>10, <1>16 DEF Sleeping
<1>19. \A list \in Events : Lacks(l.events[list], k.events[list], t)
  BY <1>6, <1>10, <1>16
<1>20. /\ EventsInv(l) /\ \A u : Listed(l, u) => Listed(k, u)
       /\ \A list \in Events : ToSet(l.events[list]) \subseteq ToSet(k.events[list])
  <2>1. Sleeping(l) \subseteq Sleeping(k) /\ l.priority = k.priority
    BY <1>17, <1>18 DEF Keeps
  <2>2. EventsInv(k) BY DEF ListsInv
  <2>3. \A list \in Events :
          \/ l.events[list] = k.events[list]
          \/ \E u : Lacks(l.events[list], k.events[list], u)
    BY <1>19
  <2> QED BY <1>15, <2>1, <2>2, <2>3, EventsShrink
<1>21. ~Listed(l, t) BY <1>19 DEF Listed, Lacks
<1>22. WaitsInv(l)
  <2>1. ToSet(l.pending) = {} /\ IsInjective(l.pending)
    BY <1>4, <1>10, <1>16 DEF ToSet, IsInjective
  <2>2. /\ IsInjective(l.delayed) /\ IsInjective(l.overflowed)
        /\ ToSet(l.delayed) \cap ToSet(l.overflowed) = {}
    BY <1>3, <1>10, <1>16 DEF ListsInv, WaitsInv
  <2>3. Sleeping(l) \cap ReadyTasks(l) = {} /\ \A u \in ReadyTasks(l) : ~Listed(l, u)
    BY <1>17, <1>18, <1>20, <1>21 DEF ListsInv, WaitsInv
  <2> QED BY <2>1, <2>2, <2>3 DEF WaitsInv
<1>23. \A list \in Events : list[1] \in Mutexes => l.events[list] = k.events[list]
  <2> TAKE list \in Events
  <2> HAVE list[1] \in Mutexes
  <2>1. t \notin ToSet(k.events[list]) OBVIOUS
  <2>2. Without(k.events[list], t) = k.events[list] BY <2>1 DEF Without
  <2> QED BY <1>5, <1>10, <1>16, <2>2
<1>24. Wakes(l, k)
  BY <1>15, <1>17, <1>20, <1>22, <1>23 DEF Wakes, Keeps, ListsInv
<1> QED BY <1>4, <1>9, <1>10, <1>14, <1>16, <1>17, <1>24 DEF Keeps

\* The ticks that are counted while the tasks due become ready.
Expired(on) ==
  CHOOSE out : out = [i \in 0 .. Due(on) |->
                        IF i = 0 THEN on ELSE Expire(out[i - 1], on.delayed[i])]

(* The loop of xTaskIncrementTick readies the tasks that are due.          *)
LEMMA ExpiredIs ==
  ASSUME NEW on \in Kernels, ListsInv(on), on.pending = <<>>
  PROVE  LET l == Expired(on)[Due(on)]
         IN  /\ Wakes(l, on) /\ l.pending = <<>> /\ l.yield = on.yield /\ l.ticks = on.ticks
             /\ ReadyTasks(l) =
                  ReadyTasks(on) \cup {on.delayed[i] : i \in 1 .. Due(on)}
<1>1. PICK n : n = Due(on) OBVIOUS
<1>2. n \in Nat /\ \A i \in 1 .. n : i \in DOMAIN on.delayed
  <2>1. on.delayed \in Seq(Task) BY DEF Kernels
  <2>2. Len(on.delayed) \in Nat /\ DOMAIN on.delayed = 1 .. Len(on.delayed)
    BY <2>1, LenProperties
  <2> QED BY <1>1, <2>2, DueIs
<1>3. ASSUME NEW i \in 1 .. n
      PROVE  /\ on.delayed[i] \in Task
             /\ \A list \in Events : list[1] \in Mutexes =>
                  on.delayed[i] \notin ToSet(on.events[list])
  <2>1. on.delayed \in Seq(Task) BY DEF Kernels
  <2>2. on.delayed[i] \in ToSet(on.delayed) /\ on.delayed[i] \in Task
    BY <1>2, <2>1, LenProperties DEF ToSet
  <2> QED BY <2>2 DEF Sleeping, ListsInv, EventsInv
<1> DEFINE K == {l \in Kernels :
                   /\ Wakes(l, on) /\ l.pending = <<>> /\ l.yield = on.yield
                   /\ l.ticks = on.ticks}
<1>4. on \in K BY DEF Wakes
<1>5. ASSUME NEW l \in K, NEW i \in 1 .. n
      PROVE  /\ Expire(l, on.delayed[i]) \in K
             /\ ReadyTasks(Expire(l, on.delayed[i])) = ReadyTasks(l) \cup {on.delayed[i]}
  <2>1. PICK t \in Task : t = on.delayed[i] BY <1>3
  <2>2. \A list \in Events : list[1] \in Mutexes => t \notin ToSet(l.events[list])
    BY <1>3, <2>1 DEF Wakes
  <2>3. l \in Kernels /\ ListsInv(l) /\ l.pending = <<>> BY DEF Wakes
  <2>4. PICK m : m = Expire(l, t) OBVIOUS
  <2>5. /\ Wakes(m, l) /\ ReadyTasks(m) = ReadyTasks(l) \cup {t}
        /\ m.pending = <<>> /\ m.yield = l.yield /\ m.ticks = l.ticks
    BY <2>2, <2>3, <2>4, ExpireIs
  <2>6. Wakes(m, on) BY <2>5, WakesAgain
  <2>7. m \in K BY <2>5, <2>6 DEF Wakes
  <2> QED BY <2>1, <2>4, <2>5, <2>7
<1> HIDE DEF K
<1> DEFINE step == [x \in K \X (1 .. n) |-> Expire(x[1], on.delayed[x[2]])]
<1>6. step \in [K \X (1 .. n) -> K] BY <1>5
<1>7. \A l \in K : \A i \in 1 .. n : step[<<l, i>>] = Expire(l, on.delayed[i])
  OBVIOUS
<1> HIDE DEF step
<1>8. PICK f \in [0 .. n -> K] : Loops(f, n, on, step)
  BY <1>2, <1>4, <1>6, LoopRuns
<1>9. f = [i \in 0 .. n |-> IF i = 0 THEN on ELSE Expire(f[i - 1], on.delayed[i])]
  <2>1. ASSUME NEW i \in 0 .. n
        PROVE  f[i] = IF i = 0 THEN on ELSE Expire(f[i - 1], on.delayed[i])
    <3>1. i # 0 => i \in 1 .. n /\ i - 1 \in 0 .. n BY <1>2
    <3>2. i # 0 => f[i - 1] \in K BY <1>8, <3>1
    <3>3. f[i] = IF i = 0 THEN on ELSE step[<<f[i - 1], i>>] BY <1>8 DEF Loops
    <3> QED BY <1>7, <3>1, <3>2, <3>3
  <2>2. f = [i \in 0 .. n |-> f[i]] BY <1>8
  <2> QED BY <2>1, <2>2
<1>10. PICK out : out = Expired(on) OBVIOUS
<1>11. out = [i \in 0 .. n |-> IF i = 0 THEN on ELSE Expire(out[i - 1], on.delayed[i])]
  BY <1>1, <1>9, <1>10, Zenon DEF Expired
<1>12. \A i \in 0 .. n : out[i] = IF i = 0 THEN on ELSE Expire(out[i - 1], on.delayed[i])
  BY <1>11
<1> DEFINE Good == {i \in 0 .. n :
                      /\ out[i] \in K
                      /\ ReadyTasks(out[i]) = ReadyTasks(on) \cup {on.delayed[j] : j \in 1 .. i}}
<1>13. 0 \in Good
  <2>1. 0 \in 0 .. n BY <1>2
  <2>2. out[0] = on BY <1>12, <2>1
  <2> QED BY <1>4, <2>1, <2>2
<1>14. ASSUME NEW i \in 1 .. n, i - 1 \in Good PROVE i \in Good
  <2>1. out[i] = Expire(out[i - 1], on.delayed[i]) BY <1>2, <1>12
  <2>2. out[i] \in K /\ ReadyTasks(out[i]) = ReadyTasks(out[i - 1]) \cup {on.delayed[i]}
    BY <1>5, <1>14, <2>1
  <2>3. {on.delayed[j] : j \in 1 .. i} = {on.delayed[j] : j \in 1 .. i - 1} \cup {on.delayed[i]}
    <3>1. \A j \in 1 .. i : j \in 1 .. i - 1 \/ j = i OBVIOUS
    <3>2. \A j \in 1 .. i - 1 : j \in 1 .. i OBVIOUS
    <3>3. i \in 1 .. i OBVIOUS
    <3> QED BY <3>1, <3>2, <3>3
  <2> QED BY <1>14, <2>2, <2>3
<1>15. n \in Good
  <2> HIDE DEF Good
  <2> QED BY <1>2, <1>13, <1>14, Rounds
<1> QED BY <1>1, <1>10, <1>15 DEF K

(* xTaskIncrementTick                                                      *)
LEMMA TickIs ==
  ASSUME NEW k \in Kernels, ListsInv(k), k.pending = <<>>
  PROVE  LET l == IncrementTick(k)
         IN  /\ Wakes(l, k) /\ l.pending = <<>> /\ l.yield = k.yield
             /\ l.ticks = IF k.suspended THEN k.ticks + 1 ELSE k.ticks
             /\ Running(k) /\ ~SwitchRequired(k) => Running(l)
             /\ k.suspended => ReadyTasks(l) = ReadyTasks(k)
<1>1. PICK l : l = IncrementTick(k) OBVIOUS
<1>2. PICK on : on = Advance(k) OBVIOUS
<1>3. /\ Wakes(on, k) /\ ReadyTasks(on) = ReadyTasks(k) /\ on.pending = k.pending
      /\ on.yield = k.yield /\ on.ticks = k.ticks
  BY <1>2, AdvanceIs
<1>4. on \in Kernels /\ ListsInv(on) /\ on.pending = <<>> /\ on.current = k.current
  BY <1>3 DEF Wakes
<1>5. PICK last : last = Expired(on)[Due(on)] OBVIOUS
<1>6. /\ Wakes(last, on) /\ last.pending = <<>> /\ last.yield = on.yield
      /\ last.ticks = on.ticks
      /\ ReadyTasks(last) = ReadyTasks(on) \cup {on.delayed[i] : i \in 1 .. Due(on)}
  BY <1>4, <1>5, ExpiredIs
<1>7. l = IF k.suspended THEN [k EXCEPT !.ticks = @ + 1]
          ELSE IF on.tick < on.unblock THEN on ELSE ResetUnblock(last)
  BY <1>1, <1>2, <1>5 DEF IncrementTick, Expired
<1>8. k.suspended \in BOOLEAN /\ k.ticks \in Nat BY DEF Kernels
<1>9. CASE k.suspended
  <2>1. PICK ticks \in Nat : ticks = k.ticks + 1 BY <1>8
  <2>2. l = [k EXCEPT !.ticks = ticks] BY <1>7, <1>9, <2>1
  <2>3. /\ l \in Kernels /\ Alike(l, k) /\ l.current = k.current /\ l.held = k.held
        /\ l.suspended = k.suspended /\ l.pendsv = k.pendsv /\ l.pending = k.pending
        /\ l.yield = k.yield /\ l.ticks = k.ticks + 1
    BY <2>1, <2>2 DEF Kernels, Alike
  <2>4. Wakes(l, k) /\ ReadyTasks(l) = ReadyTasks(k) BY <2>3, AlikeWakes
  <2>5. Running(k) => Running(l) BY <2>3, <2>4 DEF Running, Alike
  <2> QED BY <1>1, <1>9, <2>3, <2>4, <2>5
<1>10. CASE ~k.suspended /\ on.tick < on.unblock
  <2>1. l = on BY <1>7, <1>10
  <2>2. Running(k) => Running(l) BY <1>3, <2>1 DEF Running, Wakes
  <2> QED BY <1>1, <1>3, <1>4, <1>10, <2>1, <2>2
<1>11. CASE ~k.suspended /\ ~(on.tick < on.unblock)
  <2>1. l = ResetUnblock(last) BY <1>7, <1>11
  <2>2. last \in Kernels /\ ListsInv(last) BY <1>6 DEF Wakes
  <2>3. /\ Wakes(l, last) /\ ReadyTasks(l) = ReadyTasks(last) /\ l.pending = last.pending
        /\ l.yield = last.yield /\ l.ticks = last.ticks
    BY <2>1, <2>2, ResetUnblockIs
  <2>4. Wakes(l, k) BY <1>3, <1>6, <2>3, WakesAgain
  <2>5. ASSUME Running(k), ~SwitchRequired(k) PROVE Running(l)
    <3>1. \A i \in 1 .. Due(on) : ~(k.priority[on.delayed[i]] >= k.priority[k.current])
      BY <1>2, <1>11, <2>5 DEF SwitchRequired
    <3>2. l.current = k.current /\ l.priority = k.priority /\ ReadyTasks(k) \subseteq ReadyTasks(l)
      BY <2>4 DEF Wakes
    <3>3. \A t \in Tasks : k.priority[t] \in Int
      <4>1. \A p \in Priorities : p \in Int BY PrioritiesAre
      <4> QED BY <4>1 DEF Kernels
    <3>4. \A t \in ReadyTasks(l) : t \in Tasks BY DEF ReadyTasks
    <3>5. ASSUME NEW t \in ReadyTasks(l) PROVE k.priority[t] <= k.priority[k.current]
      <4>1. CASE t \in ReadyTasks(k) BY <2>5, <4>1 DEF Running
      <4>2. CASE t \notin ReadyTasks(k)
        <5>1. PICK i \in 1 .. Due(on) : t = on.delayed[i] BY <1>3, <1>6, <2>3, <4>2
        <5>2. k.current \in Tasks BY DEF Kernels
        <5> QED BY <3>1, <3>3, <3>4, <5>1, <5>2
      <4> QED BY <4>1, <4>2
    <3> QED BY <2>5, <3>2, <3>5 DEF Running
  <2> QED BY <1>1, <1>3, <1>6, <1>11, <2>3, <2>4, <2>5
<1> QED BY <1>8, <1>9, <1>10, <1>11

-----------------------------------------------------------------------------
(* xTaskResumeAll *)

\* A switch is due, or not needed.
Quiet(k) == k.yield \/ Running(k)

(* A task that was unblocked while the scheduler was suspended.            *)
LEMMA ReadyOneIs ==
  ASSUME NEW k \in Kernels, ListsInv(k), k.pending = <<>>, NEW t \in Task, ~Listed(k, t)
  PROVE  LET l == ReadyOne(k, t)
         IN  /\ Wakes(l, k) /\ l.events = k.events /\ l.pending = <<>> /\ l.ticks = k.ticks
             /\ Quiet(k) => Quiet(l)
<1>1. PICK m : m = AddToReady(Unlist(k, t), t) OBVIOUS
<1>2. RingsInv(k) /\ IsInjective(k.delayed) /\ IsInjective(k.overflowed)
  BY DEF ListsInv, WaitsInv
<1>3. Readied(m, k, t) /\ m.events = k.events /\ m.pending = k.pending
  BY <1>1, <1>2, ReadyIs
<1>4. k.yield \in BOOLEAN BY DEF Kernels
<1>5. PICK yield \in BOOLEAN : yield = (k.yield \/ k.priority[t] >= k.priority[k.current])
  BY <1>4
<1>6. PICK l : l = [m EXCEPT !.yield = yield] OBVIOUS
<1>7. ReadyOne(k, t) = l BY <1>1, <1>3, <1>5, <1>6 DEF ReadyOne, Readied, Kernels
<1>8. /\ l \in Kernels /\ l.ready = m.ready /\ l.delayed = m.delayed
      /\ l.overflowed = m.overflowed /\ l.events = m.events /\ l.pending = m.pending
      /\ l.yield = yield /\ Keeps(l, m)
  BY <1>3, <1>5, <1>6 DEF Readied, Kernels, Keeps
<1>9. Keeps(l, k) /\ ReadyTasks(l) = ReadyTasks(k) \cup {t}
  BY <1>3, <1>8 DEF Readied, Keeps, ReadyTasks
<1>10. RingsInv(l) BY <1>3, <1>8, <1>9 DEF Readied, RingsInv, Keeps
<1>11. Sleeping(l) = Sleeping(k) \ {t} /\ \A u : Listed(l, u) <=> Listed(k, u)
  BY <1>3, <1>8 DEF Readied, Sleeping, Listed
<1>12. EventsInv(l)
  <2>1. l.events = k.events /\ l.priority = k.priority BY <1>3, <1>8, <1>9 DEF Keeps
  <2> QED BY <1>11, <2>1 DEF EventsInv, ListsInv
<1>13. WaitsInv(l)
  <2>1. ToSet(l.pending) = {} /\ IsInjective(l.pending)
    BY <1>3, <1>8 DEF ToSet, IsInjective
  <2>2. /\ IsInjective(l.delayed) /\ IsInjective(l.overflowed)
        /\ ToSet(l.delayed) \cap ToSet(l.overflowed) = {}
    BY <1>3, <1>8 DEF Readied, ListsInv, WaitsInv
  <2>3. Sleeping(l) \cap ReadyTasks(l) = {} /\ \A u \in ReadyTasks(l) : ~Listed(l, u)
    BY <1>9, <1>11 DEF ListsInv, WaitsInv
  <2> QED BY <2>1, <2>2, <2>3 DEF WaitsInv
<1>14. Wakes(l, k) BY <1>3, <1>8, <1>9, <1>10, <1>12, <1>13 DEF Wakes, Keeps, ListsInv
<1>15. ASSUME Quiet(k) PROVE Quiet(l)
  <2>1. CASE yield BY <1>8, <2>1 DEF Quiet
  <2>2. CASE ~yield
    <3>1. Running(k) /\ ~(k.priority[t] >= k.priority[k.current])
      BY <1>5, <1>15, <2>2 DEF Quiet
    <3>2. t \in Tasks /\ k.current \in Tasks BY PrioritiesAre DEF Kernels
    <3>3. k.priority[t] \in Int /\ k.priority[k.current] \in Int
      <4>1. \A p \in Priorities : p \in Int BY PrioritiesAre
      <4> QED BY <3>2, <4>1 DEF Kernels
    <3>4. k.priority[t] <= k.priority[k.current] BY <3>1, <3>3
    <3>5. Running(l) BY <1>9, <3>1, <3>4 DEF Running, Keeps
    <3> QED BY <3>5 DEF Quiet
  <2> QED BY <2>1, <2>2
<1> QED BY <1>3, <1>7, <1>8, <1>9, <1>14, <1>15 DEF Keeps

\* The pending ready list while it is emptied.
Pended(k) ==
  CHOOSE out : out = [i \in 0 .. Len(k.pending) |->
                        IF i = 0 THEN [k EXCEPT !.pending = <<>>]
                        ELSE ReadyOne(out[i - 1], k.pending[i])]

LEMMA PendedIs ==
  ASSUME NEW k \in Kernels, ListsInv(k)
  PROVE  LET l == Pended(k)[Len(k.pending)]
         IN  /\ Wakes(l, k) /\ l.pending = <<>> /\ l.ticks = k.ticks
             /\ Quiet(k) => Quiet(l)
<1>1. PICK n : n = Len(k.pending) OBVIOUS
<1>2. n \in Nat /\ \A i \in 1 .. n : k.pending[i] \in Task /\ ~Listed(k, k.pending[i])
  <2>1. k.pending \in Seq(Task) BY DEF Kernels
  <2>2. \A t \in ToSet(k.pending) : ~Listed(k, t) BY DEF ListsInv, WaitsInv
  <2>3. n \in Nat /\ DOMAIN k.pending = 1 .. n /\ \A i \in 1 .. n : k.pending[i] \in ToSet(k.pending)
    BY <1>1, <2>1, ToSetOf
  <2> QED BY <2>1, <2>2, <2>3, ToSetOf
<1>3. PICK first : first = [k EXCEPT !.pending = <<>>] OBVIOUS
<1> DEFINE K == {l \in Kernels :
                   /\ Wakes(l, k) /\ l.events = k.events /\ l.pending = <<>>
                   /\ l.ticks = k.ticks
                   /\ Quiet(k) => Quiet(l)}
<1>4. first \in K
  <2>1. <<>> \in Seq(Task) /\ ToSet(<<>>) = {} /\ IsInjective(<<>>)
    BY EmptySeq DEF ToSet, IsInjective
  <2>2. /\ first \in Kernels /\ first.ready = k.ready /\ first.priority = k.priority
        /\ first.delayed = k.delayed /\ first.overflowed = k.overflowed
        /\ first.events = k.events /\ first.pending = <<>> /\ first.yield = k.yield
        /\ first.ticks = k.ticks /\ Keeps(first, k)
    BY <1>3, <2>1 DEF Kernels, Keeps
  <2>3. /\ ReadyTasks(first) = ReadyTasks(k) /\ Sleeping(first) = Sleeping(k)
        /\ \A t : Listed(first, t) <=> Listed(k, t)
    BY <2>2 DEF ReadyTasks, Sleeping, Listed
  <2>4. RingsInv(first) BY <2>2, <2>3 DEF ListsInv, RingsInv
  <2>5. WaitsInv(first) BY <2>1, <2>2, <2>3 DEF ListsInv, WaitsInv
  <2>6. EventsInv(first) BY <2>2, <2>3 DEF ListsInv, EventsInv
  <2>7. Wakes(first, k) BY <2>2, <2>3, <2>4, <2>5, <2>6 DEF Wakes, Keeps, ListsInv
  <2>8. Quiet(k) => Quiet(first) BY <2>2, <2>3 DEF Quiet, Running, Keeps
  <2> QED BY <2>2, <2>7, <2>8
<1>5. ASSUME NEW l \in K, NEW i \in 1 .. n PROVE ReadyOne(l, k.pending[i]) \in K
  <2>1. PICK t \in Task : t = k.pending[i] BY <1>2
  <2>2. ~Listed(l, t) BY <1>2, <2>1 DEF Listed
  <2>3. l \in Kernels /\ ListsInv(l) /\ l.pending = <<>> BY DEF Wakes
  <2>4. PICK m : m = ReadyOne(l, t) OBVIOUS
  <2>5. /\ Wakes(m, l) /\ m.events = l.events /\ m.pending = <<>> /\ m.ticks = l.ticks
        /\ Quiet(l) => Quiet(m)
    BY <2>2, <2>3, <2>4, ReadyOneIs
  <2>6. Wakes(m, k) BY <2>5, WakesAgain
  <2>7. m \in K BY <2>5, <2>6 DEF Wakes
  <2> QED BY <2>1, <2>4, <2>7
<1> HIDE DEF K
<1> DEFINE step == [x \in K \X (1 .. n) |-> ReadyOne(x[1], k.pending[x[2]])]
<1>6. step \in [K \X (1 .. n) -> K] BY <1>5
<1>7. \A l \in K : \A i \in 1 .. n : step[<<l, i>>] = ReadyOne(l, k.pending[i])
  OBVIOUS
<1> HIDE DEF step
<1>8. PICK f \in [0 .. n -> K] : Loops(f, n, first, step) BY <1>2, <1>4, <1>6, LoopRuns
<1>9. f = [i \in 0 .. n |-> IF i = 0 THEN first ELSE ReadyOne(f[i - 1], k.pending[i])]
  <2>1. ASSUME NEW i \in 0 .. n
        PROVE  f[i] = IF i = 0 THEN first ELSE ReadyOne(f[i - 1], k.pending[i])
    <3>1. i # 0 => i \in 1 .. n /\ i - 1 \in 0 .. n BY <1>2
    <3>2. i # 0 => f[i - 1] \in K BY <1>8, <3>1
    <3>3. f[i] = IF i = 0 THEN first ELSE step[<<f[i - 1], i>>] BY <1>8 DEF Loops
    <3> QED BY <1>7, <3>1, <3>2, <3>3
  <2>2. f = [i \in 0 .. n |-> f[i]] BY <1>8
  <2> QED BY <2>1, <2>2
<1>10. PICK out : out = Pended(k) OBVIOUS
<1>11. out = [i \in 0 .. n |-> IF i = 0 THEN first ELSE ReadyOne(out[i - 1], k.pending[i])]
  BY <1>1, <1>3, <1>9, <1>10, Zenon DEF Pended
<1>12. \A i \in 0 .. n : out[i] = IF i = 0 THEN first ELSE ReadyOne(out[i - 1], k.pending[i])
  BY <1>11
<1> DEFINE Good == {i \in 0 .. n : out[i] \in K}
<1>13. 0 \in Good
  <2>1. 0 \in 0 .. n BY <1>2
  <2>2. out[0] = first BY <1>12, <2>1
  <2> QED BY <1>4, <2>1, <2>2
<1>14. ASSUME NEW i \in 1 .. n, i - 1 \in Good PROVE i \in Good
  <2>1. out[i] = ReadyOne(out[i - 1], k.pending[i]) BY <1>2, <1>12
  <2> QED BY <1>5, <1>14, <2>1
<1>15. n \in Good
  <2> HIDE DEF Good
  <2> QED BY <1>2, <1>13, <1>14, Rounds
<1>16. out[n] \in K BY <1>15
<1>17. PICK l \in K : l = out[n] BY <1>16
<1>18. /\ Wakes(l, k) /\ l.pending = <<>> /\ l.ticks = k.ticks
       /\ Quiet(k) => Quiet(l)
  <2>1. l \in K OBVIOUS
  <2> QED BY ONLY <2>1 DEF K
<1>19. Pended(k)[Len(k.pending)] = l BY <1>1, <1>10, <1>17
<1> QED BY <1>18, <1>19

LEMMA ReadyPendingIs ==
  ASSUME NEW k \in Kernels, ListsInv(k)
  PROVE  LET l == ReadyPending(k)
         IN  /\ Wakes(l, k) /\ l.pending = <<>> /\ l.ticks = k.ticks
             /\ Quiet(k) => Quiet(l)
<1>1. PICK last : last = Pended(k)[Len(k.pending)] OBVIOUS
<1>2. /\ Wakes(last, k) /\ last.pending = <<>> /\ last.ticks = k.ticks
      /\ Quiet(k) => Quiet(last)
  BY <1>1, PendedIs
<1>3. last \in Kernels /\ ListsInv(last) BY <1>2 DEF Wakes
<1>4. PICK m : m = ResetUnblock(last) OBVIOUS
<1>5. /\ Wakes(m, last) /\ ReadyTasks(m) = ReadyTasks(last) /\ m.pending = last.pending
      /\ m.yield = last.yield /\ m.ticks = last.ticks
  BY <1>3, <1>4, ResetUnblockIs
<1>6. Wakes(m, k) BY <1>2, <1>5, WakesAgain
<1>7. Quiet(last) => Quiet(m) BY <1>5 DEF Quiet, Running, Wakes
<1>8. ReadyPending(k) = IF k.pending = <<>> THEN k ELSE m
  BY <1>1, <1>4 DEF ReadyPending, Pended
<1>9. Wakes(k, k) BY DEF Wakes
<1> QED BY <1>2, <1>5, <1>6, <1>7, <1>8, <1>9

(* A tick that was put off.                                                *)
LEMMA CatchUpOneIs ==
  ASSUME NEW k \in Kernels, ListsInv(k), k.pending = <<>>, ~k.suspended
  PROVE  LET l == CatchUpOne(k)
         IN  /\ Wakes(l, k) /\ l.pending = <<>> /\ l.ticks = k.ticks
             /\ Quiet(k) => Quiet(l)
<1>1. PICK m : m = IncrementTick(k) OBVIOUS
<1>2. /\ Wakes(m, k) /\ m.pending = <<>> /\ m.ticks = k.ticks
      /\ Running(k) /\ ~SwitchRequired(k) => Running(m)
  BY <1>1, TickIs
<1>3. PICK yield \in BOOLEAN : yield = SwitchRequired(k)
  <2>1. k.yield \in BOOLEAN BY DEF Kernels
  <2> QED BY <2>1 DEF SwitchRequired
<1>4. PICK l : l = [m EXCEPT !.yield = yield] OBVIOUS
<1>5. CatchUpOne(k) = l BY <1>1, <1>3, <1>4 DEF CatchUpOne
<1>6. m \in Kernels /\ ListsInv(m) BY <1>2 DEF Wakes
<1>7. /\ l \in Kernels /\ Alike(l, m) /\ l.current = m.current /\ l.held = m.held
      /\ l.suspended = m.suspended /\ l.pendsv = m.pendsv /\ l.pending = m.pending
      /\ l.yield = yield /\ l.ticks = m.ticks
  BY <1>4, <1>6 DEF Kernels, Alike
<1>8. Wakes(l, m) /\ ReadyTasks(l) = ReadyTasks(m) BY <1>6, <1>7, AlikeWakes
<1>9. Wakes(l, k) BY <1>2, <1>8, WakesAgain
<1>10. ASSUME Quiet(k), ~yield PROVE Running(l)
  <2>1. ~k.yield BY <1>3, <1>10 DEF SwitchRequired
  <2>2. Running(m) BY <1>2, <1>3, <1>10, <2>1 DEF Quiet
  <2> QED BY <1>7, <1>8, <2>2 DEF Running, Wakes
<1> QED BY <1>2, <1>5, <1>7, <1>9, <1>10 DEF Quiet

\* The ticks that were put off while they are counted.
Caught(k) ==
  CHOOSE out : out = [i \in 0 .. k.ticks |->
                        IF i = 0 THEN [k EXCEPT !.ticks = 0] ELSE CatchUpOne(out[i - 1])]

LEMMA CatchUpIs ==
  ASSUME NEW k \in Kernels, ListsInv(k), k.pending = <<>>, ~k.suspended
  PROVE  LET l == CatchUp(k)
         IN  /\ Wakes(l, k) /\ l.pending = <<>> /\ l.ticks = 0
             /\ Quiet(k) => Quiet(l)
<1>1. PICK n \in Nat : n = k.ticks BY DEF Kernels
<1>2. PICK first : first = [k EXCEPT !.ticks = 0] OBVIOUS
<1> DEFINE K == {l \in Kernels :
                   /\ Wakes(l, k) /\ l.pending = <<>> /\ l.ticks = 0
                   /\ Quiet(k) => Quiet(l)}
<1>3. first \in K
  <2>1. first \in Kernels BY <1>2 DEF Kernels
  <2>2. /\ Alike(first, k) /\ first.current = k.current /\ first.held = k.held
        /\ first.suspended = k.suspended /\ first.pendsv = k.pendsv
        /\ first.pending = k.pending /\ first.yield = k.yield /\ first.ticks = 0
    BY <1>2 DEF Kernels, Alike
  <2>3. Wakes(first, k) /\ ReadyTasks(first) = ReadyTasks(k) BY <2>1, <2>2, AlikeWakes
  <2>4. Quiet(k) => Quiet(first) BY <2>2, <2>3 DEF Quiet, Running, Wakes
  <2> QED BY <2>1, <2>2, <2>3, <2>4
<1>4. ASSUME NEW l \in K PROVE CatchUpOne(l) \in K
  <2>1. l \in Kernels /\ ListsInv(l) /\ l.pending = <<>> /\ ~l.suspended BY DEF Wakes
  <2>2. PICK m : m = CatchUpOne(l) OBVIOUS
  <2>3. /\ Wakes(m, l) /\ m.pending = <<>> /\ m.ticks = l.ticks
        /\ Quiet(l) => Quiet(m)
    BY <2>1, <2>2, CatchUpOneIs
  <2>4. Wakes(m, k) BY <2>3, WakesAgain
  <2>5. m \in K BY <2>3, <2>4 DEF Wakes
  <2> QED BY <2>2, <2>5
<1> HIDE DEF K
<1> DEFINE step == [x \in K \X (1 .. n) |-> CatchUpOne(x[1])]
<1>5. step \in [K \X (1 .. n) -> K] BY <1>4
<1>6. \A l \in K : \A i \in 1 .. n : step[<<l, i>>] = CatchUpOne(l) OBVIOUS
<1> HIDE DEF step
<1>7. PICK f \in [0 .. n -> K] : Loops(f, n, first, step) BY <1>3, <1>5, LoopRuns
<1>8. f = [i \in 0 .. n |-> IF i = 0 THEN first ELSE CatchUpOne(f[i - 1])]
  <2>1. ASSUME NEW i \in 0 .. n
        PROVE  f[i] = IF i = 0 THEN first ELSE CatchUpOne(f[i - 1])
    <3>1. i # 0 => i \in 1 .. n /\ i - 1 \in 0 .. n OBVIOUS
    <3>2. i # 0 => f[i - 1] \in K BY <1>7, <3>1
    <3>3. f[i] = IF i = 0 THEN first ELSE step[<<f[i - 1], i>>] BY <1>7 DEF Loops
    <3> QED BY <1>6, <3>1, <3>2, <3>3
  <2>2. f = [i \in 0 .. n |-> f[i]] BY <1>7
  <2> QED BY <2>1, <2>2
<1>9. PICK out : out = Caught(k) OBVIOUS
<1>10. out = [i \in 0 .. n |-> IF i = 0 THEN first ELSE CatchUpOne(out[i - 1])]
  BY <1>1, <1>2, <1>8, <1>9, Zenon DEF Caught
<1>11. \A i \in 0 .. n : out[i] = IF i = 0 THEN first ELSE CatchUpOne(out[i - 1])
  BY <1>10
<1> DEFINE Good == {i \in 0 .. n : out[i] \in K}
<1>12. 0 \in Good
  <2>1. 0 \in 0 .. n OBVIOUS
  <2>2. out[0] = first BY <1>11, <2>1
  <2> QED BY <1>3, <2>1, <2>2
<1>13. ASSUME NEW i \in 1 .. n, i - 1 \in Good PROVE i \in Good
  <2>1. out[i] = CatchUpOne(out[i - 1]) BY <1>11
  <2> QED BY <1>4, <1>13, <2>1
<1>14. n \in Good
  <2> HIDE DEF Good
  <2> QED BY <1>12, <1>13, Rounds
<1>15. out[n] \in K BY <1>14
<1>16. CatchUp(k) = out[n] BY <1>1, <1>9 DEF CatchUp, Caught
<1> QED BY <1>15, <1>16 DEF K

\* The scheduler runs again, with nothing put off.
Resumed(l, k) ==
  /\ l \in Kernels /\ ListsInv(l)
  /\ l.current = k.current /\ l.priority = k.priority /\ l.held = k.held
  /\ ~l.suspended /\ l.pending = <<>> /\ l.ticks = 0
  /\ ReadyTasks(k) \subseteq ReadyTasks(l)
  /\ \A list \in Events :
       /\ ToSet(l.events[list]) \subseteq ToSet(k.events[list])
       /\ list[1] \in Mutexes => l.events[list] = k.events[list]
  /\ Running(k) => l.pendsv \/ Running(l)

LEMMA ResumeAllIs ==
  ASSUME NEW k \in Kernels, ListsInv(k)
  PROVE  Resumed(xTaskResumeAll(k), k)
<1>1. PICK first : first = [k EXCEPT !.suspended = FALSE] OBVIOUS
<1>2. /\ first \in Kernels /\ Alike(first, k) /\ first.current = k.current
      /\ first.held = k.held /\ ~first.suspended
  BY <1>1 DEF Kernels, Alike
<1>3. ListsInv(first) /\ ReadyTasks(first) = ReadyTasks(k) BY <1>2, AlikeLists
<1>4. PICK mid : mid = ReadyPending(first) OBVIOUS
<1>5. Wakes(mid, first) /\ mid.pending = <<>> /\ (Quiet(first) => Quiet(mid))
  BY <1>2, <1>3, <1>4, ReadyPendingIs
<1>6. mid \in Kernels /\ ListsInv(mid) /\ ~mid.suspended BY <1>2, <1>5 DEF Wakes
<1>7. PICK out : out = CatchUp(mid) OBVIOUS
<1>8. Wakes(out, mid) /\ out.pending = <<>> /\ out.ticks = 0 /\ (Quiet(mid) => Quiet(out))
  BY <1>5, <1>6, <1>7, CatchUpIs
<1>9. Wakes(out, first) BY <1>5, <1>8, WakesAgain
<1>10. out \in Kernels /\ ListsInv(out) /\ ~out.suspended BY <1>2, <1>9 DEF Wakes
<1>11. out.pendsv \in BOOLEAN /\ out.yield \in BOOLEAN BY <1>10 DEF Kernels
<1>12. PICK pendsv \in BOOLEAN : pendsv = (out.pendsv \/ out.yield) BY <1>11
<1>13. PICK l : l = [out EXCEPT !.pendsv = pendsv] OBVIOUS
<1>14. xTaskResumeAll(k) = l
  <2>1. out = CatchUp(ReadyPending([k EXCEPT !.suspended = FALSE])) BY <1>1, <1>4, <1>7
  <2>2. l = [out EXCEPT !.pendsv = @ \/ out.yield] BY <1>10, <1>12, <1>13 DEF Kernels
  <2> QED BY <2>1, <2>2 DEF xTaskResumeAll
<1>15. l \in Kernels BY <1>10, <1>13 DEF Kernels
<1>16. /\ Alike(l, out) /\ l.current = out.current /\ l.held = out.held
       /\ l.suspended = out.suspended /\ l.pendsv = pendsv /\ l.ticks = out.ticks
  BY <1>10, <1>13 DEF Kernels, Alike
<1>17. ListsInv(l) /\ ReadyTasks(l) = ReadyTasks(out) BY <1>10, <1>16, AlikeLists
<1>18. /\ l.current = k.current /\ l.priority = k.priority /\ l.held = k.held
       /\ l.pending = <<>> /\ l.events = out.events /\ first.events = k.events
  BY <1>2, <1>8, <1>9, <1>16 DEF Wakes, Alike
<1>19. ReadyTasks(k) \subseteq ReadyTasks(l) BY <1>3, <1>9, <1>17 DEF Wakes
<1>20. \A list \in Events :
         /\ ToSet(l.events[list]) \subseteq ToSet(k.events[list])
         /\ list[1] \in Mutexes => l.events[list] = k.events[list]
  BY <1>9, <1>18 DEF Wakes
<1>21. ASSUME Running(k) PROVE l.pendsv \/ Running(l)
  <2>1. Running(first) BY <1>2, <1>3, <1>21 DEF Running, Alike
  <2>2. out.yield \/ Running(out) BY <1>5, <1>8, <2>1 DEF Quiet
  <2>3. CASE out.yield BY <1>12, <1>16, <2>3
  <2>4. CASE Running(out) BY <1>16, <1>17, <2>4 DEF Running, Alike
  <2> QED BY <2>2, <2>3, <2>4
<1> QED BY <1>8, <1>10, <1>14, <1>15, <1>16, <1>17, <1>18, <1>19, <1>20, <1>21 DEF Resumed

-----------------------------------------------------------------------------
(* prvUnlockQueue *)

\* Some that waited in a list are put by; the scheduler is suspended.
Drained(l, k, list) ==
  /\ l \in Kernels /\ ListsInv(l) /\ l.suspended
  /\ l.current = k.current /\ l.priority = k.priority /\ l.held = k.held
  /\ l.ticks = k.ticks /\ l.pendsv = k.pendsv
  /\ ReadyTasks(l) = ReadyTasks(k)
  /\ ToSet(l.events[list]) \subseteq ToSet(k.events[list])
  /\ \A other \in Events : other # list => l.events[other] = k.events[other]

LEMMA DrainRoundIs ==
  ASSUME NEW k, NEW list \in Events, NEW l \in Kernels, Drained(l, k, list)
  PROVE  LET m == DrainOne(l, list)
         IN  /\ Drained(m, k, list)
             /\ IF l.events[list] = <<>> THEN m.events[list] = <<>>
                ELSE Len(m.events[list]) + 1 = Len(l.events[list])
<1>1. PICK m : m = DrainOne(l, list) OBVIOUS
<1>2. CASE l.events[list] = <<>>
  <2>1. m = l BY <1>1, <1>2 DEF DrainOne
  <2> QED BY <1>1, <1>2, <2>1
<1>3. CASE l.events[list] # <<>>
  <2>1. ListsInv(l) /\ l.suspended BY DEF Drained
  <2>2. Woken(m, l, list) /\ m.pendsv = l.pendsv BY <1>1, <1>3, <2>1, DrainOneIs
  <2>3. PICK t : t = l.events[list][1] OBVIOUS
  <2>4. l.events[list] \in Seq(Task) /\ Lacks(Tail(l.events[list]), l.events[list], t)
    BY <1>3, <2>1, <2>3, FirstIs
  <2>5. l.events \in [Events -> Seq(Task)] BY DEF Kernels
  <2>6. /\ m.events[list] = Tail(l.events[list])
        /\ \A other \in Events : other # list => m.events[other] = l.events[other]
    BY <2>2, <2>5 DEF Woken
  <2>7. ToSet(m.events[list]) \subseteq ToSet(l.events[list]) BY <2>4, <2>6 DEF Lacks
  <2>8. Len(m.events[list]) + 1 = Len(l.events[list])
    <3>1. Len(Tail(l.events[list])) = Len(l.events[list]) - 1 /\ Len(l.events[list]) \in Nat
      BY <1>3, <2>4, HeadTailProperties, LenProperties
    <3> QED BY <2>6, <3>1
  <2>9. /\ m \in Kernels /\ ListsInv(m) /\ m.suspended /\ ReadyTasks(m) = ReadyTasks(l)
        /\ m.current = l.current /\ m.priority = l.priority /\ m.held = l.held
        /\ m.ticks = l.ticks
    BY <2>1, <2>2 DEF Woken
  <2>10. Drained(m, k, list) BY <2>2, <2>6, <2>7, <2>9 DEF Drained
  <2> QED BY <1>1, <1>3, <2>8, <2>10
<1> QED BY <1>2, <1>3

\* An event list while one is woken for each that a lock counted.
Draining(k, list, lock) ==
  CHOOSE out : out = [i \in 0 .. lock |-> IF i = 0 THEN k ELSE DrainOne(out[i - 1], list)]

LEMMA DrainIs ==
  ASSUME NEW k \in Kernels, ListsInv(k), k.suspended, NEW list \in Events, NEW lock \in Nat
  PROVE  LET l == Drain(k, list, lock)
         IN  /\ Drained(l, k, list)
             /\ l.events[list] = <<>> \/ Len(l.events[list]) + lock = Len(k.events[list])
             /\ lock = 0 => l = k
<1> DEFINE K == {l \in Kernels : Drained(l, k, list)}
<1>1. k \in K BY DEF Drained
<1>2. ASSUME NEW l \in K
      PROVE  /\ DrainOne(l, list) \in K
             /\ IF l.events[list] = <<>> THEN DrainOne(l, list).events[list] = <<>>
                ELSE Len(DrainOne(l, list).events[list]) + 1 = Len(l.events[list])
  <2>1. PICK m : m = DrainOne(l, list) OBVIOUS
  <2>2. /\ Drained(m, k, list)
        /\ IF l.events[list] = <<>> THEN m.events[list] = <<>>
           ELSE Len(m.events[list]) + 1 = Len(l.events[list])
    BY <2>1, DrainRoundIs
  <2>3. m \in K BY <2>2 DEF Drained
  <2> QED BY <2>1, <2>2, <2>3
<1>3. \A l \in K : Len(l.events[list]) \in Nat
  <2> TAKE l \in K
  <2>1. l.events[list] \in Seq(Task) BY DEF Kernels
  <2> QED BY <2>1, LenProperties
<1> HIDE DEF K
<1> DEFINE step == [x \in K \X (1 .. lock) |-> DrainOne(x[1], list)]
<1>4. step \in [K \X (1 .. lock) -> K] BY <1>2
<1>5. \A l \in K : \A i \in 1 .. lock : step[<<l, i>>] = DrainOne(l, list) OBVIOUS
<1> HIDE DEF step
<1>6. PICK f \in [0 .. lock -> K] : Loops(f, lock, k, step) BY <1>1, <1>4, LoopRuns
<1>7. f = [i \in 0 .. lock |-> IF i = 0 THEN k ELSE DrainOne(f[i - 1], list)]
  <2>1. ASSUME NEW i \in 0 .. lock
        PROVE  f[i] = IF i = 0 THEN k ELSE DrainOne(f[i - 1], list)
    <3>1. i # 0 => i \in 1 .. lock /\ i - 1 \in 0 .. lock OBVIOUS
    <3>2. i # 0 => f[i - 1] \in K BY <1>6, <3>1
    <3>3. f[i] = IF i = 0 THEN k ELSE step[<<f[i - 1], i>>] BY <1>6 DEF Loops
    <3> QED BY <1>5, <3>1, <3>2, <3>3
  <2>2. f = [i \in 0 .. lock |-> f[i]] BY <1>6
  <2> QED BY <2>1, <2>2
<1>8. PICK out : out = Draining(k, list, lock) OBVIOUS
<1>9. out = [i \in 0 .. lock |-> IF i = 0 THEN k ELSE DrainOne(out[i - 1], list)]
  BY <1>7, <1>8, Zenon DEF Draining
<1>10. \A i \in 0 .. lock : out[i] = IF i = 0 THEN k ELSE DrainOne(out[i - 1], list)
  BY <1>9
<1> DEFINE Good == {i \in 0 .. lock :
                      /\ out[i] \in K
                      /\ \/ out[i].events[list] = <<>>
                         \/ Len(out[i].events[list]) + i = Len(k.events[list])}
<1>11. out[0] = k
  <2>1. 0 \in 0 .. lock OBVIOUS
  <2> QED BY <1>10, <2>1
<1>12. 0 \in Good
  <2>1. 0 \in 0 .. lock OBVIOUS
  <2>2. Len(k.events[list]) + 0 = Len(k.events[list]) BY <1>1, <1>3
  <2> QED BY <1>1, <1>11, <2>1, <2>2
<1>13. ASSUME NEW i \in 1 .. lock, i - 1 \in Good PROVE i \in Good
  <2>1. PICK l : l = out[i - 1] OBVIOUS
  <2>2. PICK m : m = out[i] OBVIOUS
  <2>3. m = DrainOne(l, list) BY <1>10, <2>1, <2>2
  <2>4. l \in K /\ (l.events[list] = <<>> \/ Len(l.events[list]) + (i - 1) = Len(k.events[list]))
    BY <1>13, <2>1
  <2>5. /\ m \in K
        /\ IF l.events[list] = <<>> THEN m.events[list] = <<>>
           ELSE Len(m.events[list]) + 1 = Len(l.events[list])
    BY <1>2, <2>3, <2>4
  <2>6. m.events[list] = <<>> \/ Len(m.events[list]) + i = Len(k.events[list])
    <3>1. /\ Len(m.events[list]) \in Nat /\ Len(l.events[list]) \in Nat
          /\ Len(k.events[list]) \in Nat
      BY <1>1, <1>3, <2>4, <2>5
    <3>2. CASE l.events[list] = <<>> BY <2>5, <3>2
    <3>3. CASE l.events[list] # <<>>
      <4>1. PICK a \in Nat : a = Len(m.events[list]) BY <3>1
      <4>2. PICK b \in Nat : b = Len(l.events[list]) BY <3>1
      <4>3. PICK c \in Nat : c = Len(k.events[list]) BY <3>1
      <4>4. a + 1 = b /\ b + (i - 1) = c BY <2>4, <2>5, <3>3, <4>1, <4>2, <4>3
      <4>5. a + i = c BY <4>4
      <4> QED BY <4>1, <4>3, <4>5
    <3> QED BY <3>2, <3>3
  <2> QED BY <2>2, <2>5, <2>6
<1>14. lock \in Good
  <2> HIDE DEF Good
  <2> QED BY <1>12, <1>13, Rounds
<1>15. Drain(k, list, lock) = out[lock] BY <1>8 DEF Drain, Draining
<1> QED BY <1>11, <1>14, <1>15 DEF K

-----------------------------------------------------------------------------
(* Mutexes and delays *)

\* What a change of priority leaves alone.
Repriced(l, k) ==
  /\ l \in Kernels /\ ListsInv(l) /\ ReadyTasks(l) = ReadyTasks(k)
  /\ l.current = k.current /\ l.suspended = k.suspended /\ l.ticks = k.ticks
  /\ l.pendsv = k.pendsv /\ l.yield = k.yield /\ l.events = k.events
  /\ l.pending = k.pending

LEMMA InheritIs ==
  ASSUME NEW k \in Kernels, ListsInv(k), NEW holder \in Task, ~Listed(k, holder)
  PROVE  LET l == xTaskPriorityInherit(k, holder)
         IN  /\ Repriced(l, k) /\ l.held = k.held
             /\ l.priority = [k.priority EXCEPT ![holder] =
                  IF k.priority[holder] < k.priority[k.current]
                  THEN k.priority[k.current] ELSE k.priority[holder]]
<1>1. holder \in Tasks BY PrioritiesAre
<1>2. k.priority \in [Tasks -> Priorities] /\ k.current \in Tasks BY DEF Kernels
<1>3. PICK p \in Priorities : p = k.priority[k.current] BY <1>2
<1>4. PICK l : l = SetPriority(k, holder, p) OBVIOUS
<1>5. /\ l \in Kernels /\ ListsInv(l) /\ ReadyTasks(l) = ReadyTasks(k)
      /\ l.priority = [k.priority EXCEPT ![holder] = p]
      /\ l.current = k.current /\ l.held = k.held /\ l.suspended = k.suspended
      /\ l.ticks = k.ticks /\ l.pendsv = k.pendsv /\ l.yield = k.yield
      /\ l.events = k.events /\ l.pending = k.pending
  BY <1>3, <1>4, SetPriorityIs
<1>6. xTaskPriorityInherit(k, holder) = IF k.priority[holder] < p THEN l ELSE k
  BY <1>1, <1>3, <1>4 DEF xTaskPriorityInherit
<1>7. k.priority = [k.priority EXCEPT ![holder] = k.priority[holder]] BY <1>1, <1>2
<1>8. CASE k.priority[holder] < p BY <1>3, <1>5, <1>6, <1>8 DEF Repriced
<1>9. CASE ~(k.priority[holder] < p) BY <1>3, <1>6, <1>7, <1>9 DEF Repriced
<1> QED BY <1>8, <1>9

LEMMA DisinheritIs ==
  ASSUME NEW k \in Kernels, ListsInv(k), NEW t \in Task, k.held[t] > 0,
         k.priority[t] = BasePriority[t] \/ (k.held[t] = 1 /\ ~Listed(k, t))
  PROVE  LET l == xTaskPriorityDisinherit(k, t)
         IN  /\ Repriced(l, k) /\ l.held = [k.held EXCEPT ![t] = k.held[t] - 1]
             /\ l.priority = [k.priority EXCEPT ![t] = BasePriority[t]]
<1>1. t \in Tasks /\ BasePriority[t] \in Priorities BY PrioritiesAre
<1>2. PICK out : out = [k EXCEPT !.held[t] = @ - 1] OBVIOUS
<1>3. /\ out \in Kernels /\ Alike(out, k) /\ out.current = k.current
      /\ out.suspended = k.suspended /\ out.ticks = k.ticks /\ out.pendsv = k.pendsv
      /\ out.yield = k.yield /\ out.held = [k.held EXCEPT ![t] = k.held[t] - 1]
  <2>1. k.held \in [Tasks -> Nat] BY DEF Kernels
  <2>2. PICK less : less = k.held[t] - 1 OBVIOUS
  <2>3. less \in Nat BY <1>1, <2>1, <2>2
  <2>4. [k.held EXCEPT ![t] = less] \in [Tasks -> Nat] BY <2>1, <2>3, Zenon
  <2>5. [k.held EXCEPT ![t] = @ - 1] = [k.held EXCEPT ![t] = less] BY <1>1, <2>1, <2>2
  <2>6. out = [k EXCEPT !.held = [k.held EXCEPT ![t] = less]] BY <1>2, <2>5 DEF Kernels
  <2>7. [k.held EXCEPT ![t] = less] = [k.held EXCEPT ![t] = k.held[t] - 1] BY <2>2
  <2> QED BY <2>4, <2>6, <2>7 DEF Kernels, Alike
<1>4. /\ ListsInv(out) /\ ReadyTasks(out) = ReadyTasks(k)
      /\ Listed(out, t) <=> Listed(k, t)
  BY <1>3, AlikeLists DEF Alike, Listed
<1>5. PICK l : l = SetPriority(out, t, BasePriority[t]) OBVIOUS
<1>6. xTaskPriorityDisinherit(k, t) =
        IF k.priority[t] # BasePriority[t] /\ k.held[t] = 1 THEN l ELSE out
  BY <1>2, <1>5 DEF xTaskPriorityDisinherit, MustDisinherit
<1>7. CASE k.priority[t] # BasePriority[t]
  <2>1. ~Listed(out, t) /\ k.held[t] = 1 BY <1>4, <1>7
  <2>2. /\ l \in Kernels /\ ListsInv(l) /\ ReadyTasks(l) = ReadyTasks(out)
        /\ l.priority = [out.priority EXCEPT ![t] = BasePriority[t]]
        /\ l.current = out.current /\ l.held = out.held /\ l.suspended = out.suspended
        /\ l.ticks = out.ticks /\ l.pendsv = out.pendsv /\ l.yield = out.yield
        /\ l.events = out.events /\ l.pending = out.pending
    BY <1>1, <1>3, <1>4, <1>5, <2>1, SetPriorityIs
  <2>3. xTaskPriorityDisinherit(k, t) = l BY <1>6, <1>7, <2>1
  <2> QED BY <1>3, <1>4, <2>2, <2>3 DEF Repriced, Alike
<1>8. CASE k.priority[t] = BasePriority[t]
  <2>1. k.priority = [k.priority EXCEPT ![t] = BasePriority[t]] BY <1>1, <1>8 DEF Kernels
  <2>2. xTaskPriorityDisinherit(k, t) = out BY <1>6, <1>8
  <2> QED BY <1>3, <1>4, <2>1, <2>2 DEF Repriced, Alike
<1> QED BY <1>7, <1>8

(* vTaskDelay, up to xTaskResumeAll                                        *)
LEMMA TaskDelayIs ==
  ASSUME NEW k \in Kernels, ListsInv(k), k.current \in Task, k.current \in ReadyTasks(k),
         NEW ticks \in Ticks
  PROVE  LET l == Delay([k EXCEPT !.suspended = TRUE], ticks, FALSE)
         IN  /\ l \in Kernels /\ ListsInv(l) /\ ReadyTasks(l) = ReadyTasks(k) \ {k.current}
             /\ l.current = k.current /\ l.priority = k.priority /\ l.held = k.held
             /\ l.suspended /\ l.ticks = k.ticks /\ l.pendsv = k.pendsv
             /\ l.events = k.events /\ l.pending = k.pending
<1>1. PICK out : out = [k EXCEPT !.suspended = TRUE] OBVIOUS
<1>2. /\ out \in Kernels /\ Alike(out, k) /\ out.current = k.current /\ out.held = k.held
      /\ out.suspended /\ out.ticks = k.ticks /\ out.pendsv = k.pendsv
  BY <1>1 DEF Kernels, Alike
<1>3. ListsInv(out) /\ ReadyTasks(out) = ReadyTasks(k) BY <1>2, AlikeLists
<1>4. /\ RingsInv(out) /\ IsInjective(out.delayed) /\ IsInjective(out.overflowed)
      /\ ToSet(out.delayed) \cap ToSet(out.overflowed) = {} /\ out.current \in Task
  BY <1>2, <1>3 DEF ListsInv, WaitsInv
<1>5. PICK l : l = Delay(out, ticks, FALSE) OBVIOUS
<1>6. Delayed(l, out) BY <1>2, <1>4, <1>5, DelayIs
<1>7. /\ l \in Kernels /\ RingsInv(l) /\ ReadyTasks(l) = ReadyTasks(k) \ {k.current}
      /\ l.current = k.current /\ l.priority = k.priority /\ l.held = k.held
      /\ l.suspended /\ l.ticks = k.ticks /\ l.pendsv = k.pendsv
      /\ l.events = k.events /\ l.pending = k.pending
  BY <1>2, <1>3, <1>6 DEF Delayed, Keeps, Alike
<1>8. \A t : Listed(l, t) <=> Listed(k, t) BY <1>7 DEF Listed
<1>9. ~Listed(k, k.current) /\ k.current \notin ToSet(k.pending)
  BY DEF ListsInv, WaitsInv
<1>10. Sleeping(l) \subseteq Sleeping(k) \cup {k.current}
  BY <1>2, <1>6 DEF Delayed, Alike, Sleeping
<1>11. WaitsInv(l)
  <2>1. /\ IsInjective(l.delayed) /\ IsInjective(l.overflowed) /\ IsInjective(l.pending)
        /\ ToSet(l.delayed) \cap ToSet(l.overflowed) = {}
    BY <1>6, <1>7 DEF Delayed, ListsInv, WaitsInv
  <2>2. Sleeping(l) \cap ReadyTasks(l) = {} BY <1>7, <1>10 DEF ListsInv, WaitsInv
  <2>3. \A t \in ToSet(l.pending) \cup ReadyTasks(l) : ~Listed(l, t)
    BY <1>7, <1>8 DEF ListsInv, WaitsInv
  <2>4. ToSet(l.pending) \cap ReadyTasks(l) = {} BY <1>7 DEF ListsInv, WaitsInv
  <2> QED BY <2>1, <2>2, <2>3, <2>4 DEF WaitsInv
<1>12. EventsInv(l)
  <2>1. \A t \in Tasks : Listed(l, t) => l.priority[t] = BasePriority[t]
    BY <1>7, <1>8 DEF ListsInv, EventsInv
  <2>2. ASSUME NEW list \in Events
        PROVE  /\ IsInjective(l.events[list])
               /\ \A i, j \in DOMAIN l.events[list] :
                    i < j => BasePriority[l.events[list][i]] >= BasePriority[l.events[list][j]]
    BY <1>7 DEF ListsInv, EventsInv
  <2>3. ASSUME NEW list \in Events, NEW t \in ToSet(l.events[list])
        PROVE  /\ list[1] \in Mutexes => t \notin Sleeping(l)
               /\ \A other \in Events : t \in ToSet(l.events[other]) => other = list
    <3>1. t # k.current BY <1>7, <1>9, <2>3 DEF Listed
    <3> QED BY <1>7, <1>10, <2>3, <3>1 DEF ListsInv, EventsInv
  <2> QED BY <2>1, <2>2, <2>3 DEF EventsInv
<1> QED BY <1>1, <1>5, <1>7, <1>11, <1>12 DEF ListsInv

(* Who runs has the highest priority that is ready.                        *)
LEMMA HighestIs ==
  ASSUME NEW k \in Kernels, RingsInv(k), Running(k)
  PROVE  k.priority[k.current] = TopPriority(k)
<1>1. /\ TopPriority(k) \in Priorities
      /\ \A t \in ReadyTasks(k) : k.priority[t] <= TopPriority(k)
      /\ \E t \in ReadyTasks(k) : k.priority[t] = TopPriority(k)
  BY TopIs
<1>2. PICK t \in ReadyTasks(k) : k.priority[t] = TopPriority(k) BY <1>1
<1>3. PICK p \in Priorities : p = k.priority[k.current] BY DEF Kernels
<1>4. p \in Int /\ TopPriority(k) \in Int BY <1>1, PrioritiesAre
<1>5. p <= TopPriority(k) /\ TopPriority(k) <= p BY <1>1, <1>2, <1>3 DEF Running
<1> QED BY <1>3, <1>4, <1>5

-----------------------------------------------------------------------------
(* The calls *)

(* A task that runs outside the scheduler's suspension.                    *)
LEMMA Free ==
  ASSUME KernelInv, NEW t \in Task, kernel.current = t, call[t].pc \notin Critical
  PROVE  /\ ~kernel.suspended /\ Running(kernel) /\ t \in ReadyTasks(kernel)
         /\ ~Listed(kernel, t) /\ kernel.pending = <<>> /\ kernel.ticks = 0
         /\ \A u \in Task : call[u].pc \notin Critical
<1>1. {u \in Task : call[u].pc \in Critical} =
        IF kernel.suspended THEN {kernel.current} ELSE {}
  BY DEF KernelInv, ControlInv
<1>2. ~kernel.suspended BY <1>1
<1>3. /\ Running(kernel) /\ kernel.pending = <<>> /\ kernel.ticks = 0
      /\ \A u \in Task : call[u].pc \notin Critical
  BY <1>1, <1>2 DEF KernelInv, ControlInv
<1>4. t \in ReadyTasks(kernel) BY <1>3 DEF Running
<1>5. ~Listed(kernel, t) BY <1>4 DEF KernelInv, ListsInv, WaitsInv
<1> QED BY <1>2, <1>3, <1>4, <1>5

(* And one that has suspended it.                                          *)
LEMMA Busy ==
  ASSUME KernelInv, NEW t \in Task, kernel.current = t, call[t].pc \in Critical
  PROVE  /\ kernel.suspended
         /\ \A u \in Task : call[u].pc \in Critical <=> u = t
         /\ call[t].pc \notin Gone =>
              Running(kernel) /\ t \in ReadyTasks(kernel) /\ ~Listed(kernel, t)
<1>1. {u \in Task : call[u].pc \in Critical} =
        IF kernel.suspended THEN {kernel.current} ELSE {}
  BY DEF KernelInv, ControlInv
<1>2. kernel.suspended /\ \A u \in Task : call[u].pc \in Critical <=> u = t BY <1>1
<1>3. ASSUME call[t].pc \notin Gone
      PROVE  Running(kernel) /\ t \in ReadyTasks(kernel) /\ ~Listed(kernel, t)
  <2>1. Running(kernel) BY <1>3 DEF KernelInv, ControlInv
  <2>2. t \in ReadyTasks(kernel) BY <2>1 DEF Running
  <2>3. ~Listed(kernel, t) BY <2>2 DEF KernelInv, ListsInv, WaitsInv
  <2> QED BY <2>1, <2>2, <2>3
<1> QED BY <1>2, <1>3

\* Who calls holds no mutex, or has the highest priority.
MayCall(k, t) == k.held[t] > 0 => BasePriority[t] = Highest

(* What a task may ask for.                                                *)
Asks(t, c) ==
  /\ c \in Calls /\ c.pc = "test" /\ c.op \in Sides \cup {"delay"}
  /\ c.op \in Sides => c.q \in Handles
  /\ c.op = "delay" => c.q = None
  /\ call[t].pc = "app" \/ (call[t].pc = "test" /\ c = call[t] /\ c.op \in Sides)
  /\ c.q \in Mutexes /\ c.op = "receive" =>
       MayCall(kernel, t) /\ c.xTicksToWait \in {0, portMAX_DELAY}
  /\ c.q \in Mutexes /\ c.op = "send" =>
       /\ call[t].pc = "app" /\ queue[c.q].holder = t /\ queue[c.q].waiting = 0
       /\ kernel.held[t] > 0 /\ c.xTicksToWait = 0
  /\ MayCall(kernel, t) \/ (c.q \in Mutexes /\ c.op = "send")

LEMMA NoCallIs == NoCall \in Calls
<1>1. 0 \in Ticks BY TicksAre
<1> QED BY <1>1 DEF NoCall, Calls

LEMMA RequestIs ==
  ASSUME NEW c, c.op \in Sides \cup {"delay"}, c.q \in Handles \cup {None},
         c.xTicksToWait \in Ticks
  PROVE  /\ Called(c) \in Calls /\ Called(c).pc = "test" /\ Called(c).op = c.op
         /\ Called(c).q = c.q /\ Called(c).xTicksToWait = c.xTicksToWait
<1>1. 0 \in Ticks BY TicksAre
<1> QED BY <1>1 DEF Called, NoCall, Calls

LEMMA HandlesAre ==
  /\ \A q \in Handles : Length[q] \in Nat \ {0}
  /\ \A q \in Mutexes : q \in Handles /\ Length[q] = 1 /\ q \notin Mailboxes
  /\ None \notin Task /\ None \notin Tasks /\ None \notin Handles
BY QueueAssumption DEF Handles, Tasks

LEMMA HighestAre ==
  /\ Highest \in Priorities /\ Highest \in Nat
  /\ \A p \in Priorities : p \in Nat /\ p <= Highest
<1>1. Priorities # {} /\ Priorities \subseteq Nat /\ IsFiniteSet(Priorities)
  BY PrioritiesAre DEF Priorities
<1>2. Priorities \in SUBSET Int BY <1>1
<1>3. Highest \in Priorities /\ \A p \in Priorities : p <= Highest
  BY <1>1, <1>2, MaxIs DEF Highest
<1> QED BY <1>1, <1>3

LEMMA HeldIs ==
  ASSUME NEW t
  PROVE  /\ IsFiniteSet(Held(t)) /\ Cardinality(Held(t)) \in Nat
         /\ Cardinality(Held(t)) = 0 <=> Held(t) = {}
<1>1. IsFiniteSet(Mutexes) /\ Held(t) \in SUBSET Mutexes BY QueueAssumption DEF Held
<1>2. IsFiniteSet(Held(t)) BY <1>1, FS_Subset
<1> QED BY <1>2, FS_CardinalityType, FS_EmptySet

(* The count of the mutexes that a task holds.                             *)
LEMMA Holds ==
  ASSUME TypeOK, MutexInv, NEW t \in Tasks
  PROVE  /\ kernel.held[t] \in Nat
         /\ \A q \in Mutexes : queue[q].holder = t =>
              kernel.held[t] > 0 /\ (kernel.held[t] = 1 \/ BasePriority[t] = Highest)
         /\ Held(t) = {} <=> kernel.held[t] = 0
<1>1. kernel.held[t] \in Nat BY DEF TypeOK, Kernels
<1>2. PICK n : n = Cardinality(Held(t)) OBVIOUS
<1>3. kernel.held[t] = n BY <1>2 DEF MutexInv
<1>4. ASSUME NEW q \in Mutexes, queue[q].holder = t
      PROVE  kernel.held[t] > 0 /\ (kernel.held[t] = 1 \/ BasePriority[t] = Highest)
  <2>1. Held(t) # {} BY <1>4 DEF Held
  <2>2. n # 0 BY <1>2, <2>1, HeldIs
  <2>3. ASSUME BasePriority[t] # Highest PROVE n = 1
    <3>1. t # None BY HandlesAre
    <3>2. \A r \in Mutexes : queue[r].holder = t => r = q
      BY <1>4, <2>3, <3>1 DEF MutexInv
    <3>3. Held(t) = {q} BY <1>4, <3>2 DEF Held
    <3> QED BY <1>2, <3>3, FS_Singleton
  <2> QED BY <1>1, <1>3, <2>2, <2>3
<1> QED BY <1>1, <1>2, <1>3, <1>4, HeldIs

LEMMA AskedIs ==
  ASSUME KernelInv, NEW t \in Task, NEW c \in Asked(t)
  PROVE  Asks(t, c) /\ kernel.current = t /\ call[t].pc \notin Critical
<1>1. kernel.current = t /\ call[t].pc \in {"app", "test"} BY DEF Asked, At
<1>2. call[t].pc \notin Critical BY <1>1 DEF Critical
<1>3. call[t] \in Calls /\ program \in Programs BY DEF KernelInv, TypeOK
<1>4. t \in Tasks BY PrioritiesAre
<1>5. kernel.held[t] \in Nat /\ (Held(t) = {} <=> kernel.held[t] = 0)
  BY <1>4, Holds DEF KernelInv
<1>6. CASE call[t].pc = "test"
  <2>1. c = call[t] BY <1>1, <1>6 DEF Asked, At
  <2>2. c.op \in Sides /\ c.q \in Handles /\ MayCall(kernel, t)
        /\ (c.q \in Mutexes => c.op = "receive" /\ c.xTicksToWait = portMAX_DELAY)
    BY <1>6, <2>1 DEF KernelInv, CallsInv, MayCall
  <2>3. "send" # "receive" /\ "delay" \notin Sides BY DEF Sides
  <2> QED BY <1>1, <1>2, <1>3, <1>6, <2>1, <2>2, <2>3 DEF Asks
<1>7. ASSUME call[t].pc = "app", NEW m \in Mutexes \cup {None}, NEW r \in program[t][m],
             c = Called(r), MayCall(kernel, t)
      PROVE  Asks(t, c)
  <2>1. program \in [Task -> [Mutexes \cup {None} -> SUBSET Requests]]
    BY <1>3, CallsAssumption
  <2>2. program[t] \in [Mutexes \cup {None} -> SUBSET Requests] BY <2>1
  <2>3. r \in Requests BY <2>2
  <2>4. /\ r.op \in Sides \cup {"delay"} /\ r.q \in Handles \cup {None}
        /\ r.xTicksToWait \in Ticks /\ (r.op \in Sides => r.q \in Handles)
        /\ (r.op = "delay" => r.q = None)
    BY <2>3 DEF Requests, Sides
  <2>5. \/ r.op = "delay" \/ (r.q \in Mailboxes /\ r.op = "receive")
        \/ r.xTicksToWait \in {0, portMAX_DELAY} /\ (r.q \in Mutexes => r.op = "receive")
    BY <1>3, CallsAssumption
  <2>6. r.q \in Mutexes => r.q \notin Mailboxes BY HandlesAre
  <2>7. /\ c \in Calls /\ c.pc = "test" /\ c.op = r.op /\ c.q = r.q
        /\ c.xTicksToWait = r.xTicksToWait
    BY <1>7, <2>4, RequestIs
  <2>8. c.q \in Mutexes => c.op = "receive" \/ c.op = "delay" BY <2>5, <2>6, <2>7
  <2>9. c.op = "delay" => c.q \notin Mutexes
    BY <2>4, <2>7, HandlesAre
  <2> QED BY <1>7, <2>4, <2>5, <2>6, <2>7, <2>8, <2>9 DEF Asks
<1>8. CASE call[t].pc = "app"
  <2>1. PICK r \in Menu(t) : c = Called(r) BY <1>1, <1>8 DEF Asked, At
  <2>2. CASE Held(t) = {}
    <3>1. r \in program[t][None] BY <2>1, <2>2 DEF Menu
    <3>2. MayCall(kernel, t) BY <1>5, <2>2 DEF MayCall
    <3> QED BY <1>1, <1>2, <1>7, <1>8, <2>1, <3>1, <3>2
  <2>3. ASSUME NEW m \in Inner(t), r \in program[t][m] PROVE Asks(t, c)
    <3>1. m \in Mutexes BY DEF Inner, Held
    <3>2. m \in Nests(program, t) BY <2>3, <3>1 DEF Nests
    <3>3. MayCall(kernel, t) BY <1>3, <3>2, NestingAssumption DEF MayCall
    <3> QED BY <1>7, <1>8, <2>1, <2>3, <3>1, <3>3
  <2>4. ASSUME NEW q \in Inner(t), r = [op |-> "send", q |-> q, xTicksToWait |-> 0]
        PROVE  Asks(t, c)
    <3>1. q \in Mutexes /\ queue[q].holder = t BY DEF Inner, Held
    <3>2. q \in Handles /\ 0 \in Ticks BY <3>1, HandlesAre, TicksAre
    <3>3. r.op = "send" /\ r.q = q /\ r.xTicksToWait = 0 /\ "send" # "delay" BY <2>4
    <3>4. /\ c \in Calls /\ c.pc = "test" /\ c.op = "send" /\ c.q = q
          /\ c.xTicksToWait = 0
      BY <2>1, <3>2, <3>3, RequestIs DEF Sides
    <3>5. queue[q].waiting = 0
      <4>1. queue[q].waiting # 1 BY <3>1, HandlesAre DEF KernelInv, MutexInv
      <4>2. queue[q].waiting \in 0 .. 1
        BY <3>1, <3>2, HandlesAre DEF KernelInv, TypeOK, QueueType
      <4> QED BY <4>1, <4>2
    <3>6. kernel.held[t] > 0 BY <1>4, <3>1, Holds DEF KernelInv
    <3> QED BY <1>8, <3>1, <3>2, <3>3, <3>4, <3>5, <3>6 DEF Asks, Sides
  <2>5. Held(t) # {} =>
          \/ \E m \in Inner(t) : r \in program[t][m]
          \/ \E q \in Inner(t) : r = [op |-> "send", q |-> q, xTicksToWait |-> 0]
    BY <2>1 DEF Menu
  <2> QED BY <1>1, <1>2, <2>2, <2>3, <2>4, <2>5
<1> QED BY <1>1, <1>6, <1>8

-----------------------------------------------------------------------------
(* The store of a queue *)

LEMMA SuccIs ==
  ASSUME NEW q \in Handles, NEW i \in Int
  PROVE  Succ(q, i) \in 0 .. Length[q] - 1
<1>1. PICK n \in Nat \ {0} : n = Length[q] BY HandlesAre
<1>2. (i + 1) % n \in 0 .. n - 1 OBVIOUS
<1> QED BY <1>1, <1>2 DEF Succ

LEMMA QueueIs ==
  ASSUME TypeOK, NEW q \in Handles
  PROVE  /\ queue[q] \in QueueType(q)
         /\ queue[q].waiting \in 0 .. Length[q] /\ queue[q].waiting \in Nat
         /\ Length[q] \in Nat \ {0}
         /\ queue[q].items \in [0 .. Length[q] - 1 -> Message]
         /\ queue[q].writeTo \in 0 .. Length[q] - 1 /\ queue[q].writeTo \in Int
         /\ queue[q].readFrom \in 0 .. Length[q] - 1 /\ queue[q].readFrom \in Int
<1>1. queue[q] \in QueueType(q) BY DEF TypeOK
<1>2. PICK n \in Nat \ {0} : n = Length[q] BY HandlesAre
<1>3. /\ queue[q].waiting \in 0 .. n /\ queue[q].items \in [0 .. n - 1 -> Message]
      /\ queue[q].writeTo \in 0 .. n - 1 /\ queue[q].readFrom \in 0 .. n - 1
  BY <1>1, <1>2 DEF QueueType
<1>4. (\A i \in 0 .. n : i \in Nat) /\ \A i \in 0 .. n - 1 : i \in Int OBVIOUS
<1> QED BY <1>1, <1>2, <1>3, <1>4

(* prvCopyDataToQueue                                                      *)
LEMMA CopyToIs ==
  ASSUME TypeOK, NEW q \in Handles, NEW sender \in Message, ~IsQueueFull(q)
  PROVE  LET s == CopyDataToQueue(q, sender)
         IN  /\ s \in QueueType(q) /\ s.waiting = queue[q].waiting + 1
             /\ s.txLock = queue[q].txLock /\ s.rxLock = queue[q].rxLock
             /\ s.holder = IF q \in Mailboxes THEN queue[q].holder ELSE None
<1>1. PICK r : r = queue[q] OBVIOUS
<1>2. PICK n \in Nat \ {0} : n = Length[q] BY HandlesAre
<1>3. /\ r \in QueueType(q) /\ r.waiting \in 0 .. n /\ r.waiting # n
      /\ r.items \in [0 .. n - 1 -> Message] /\ r.writeTo \in 0 .. n - 1
  BY <1>1, <1>2, QueueIs DEF IsQueueFull
<1>4. PICK waiting \in 0 .. n : waiting = r.waiting + 1 BY <1>3
<1>5. PICK to \in 0 .. n - 1 : to = Succ(q, r.writeTo)
  <2>1. r.writeTo \in Int BY <1>3
  <2> QED BY <1>2, <2>1, SuccIs
<1>6. PICK items : items = [r.items EXCEPT ![r.writeTo] = sender] OBVIOUS
<1>7. items \in [0 .. n - 1 -> Message] BY <1>3, <1>6
<1>8. CASE q \in Mailboxes
  <2>1. PICK s : s = [r EXCEPT !.items = items, !.writeTo = to, !.waiting = waiting] OBVIOUS
  <2>2. CopyDataToQueue(q, sender) = s
    BY <1>1, <1>3, <1>4, <1>5, <1>6, <1>8, <2>1 DEF CopyDataToQueue, QueueType
  <2>3. /\ s \in QueueType(q) /\ s.waiting = waiting /\ s.txLock = r.txLock
        /\ s.rxLock = r.rxLock /\ s.holder = r.holder
    BY <1>2, <1>3, <1>7, <2>1 DEF QueueType
  <2> QED BY <1>1, <1>4, <1>8, <2>2, <2>3
<1>9. CASE q \notin Mailboxes
  <2>1. PICK s : s = [r EXCEPT !.waiting = waiting, !.holder = None] OBVIOUS
  <2>2. CopyDataToQueue(q, sender) = s
    BY <1>1, <1>3, <1>4, <1>9, <2>1 DEF CopyDataToQueue, QueueType
  <2>3. /\ s \in QueueType(q) /\ s.waiting = waiting /\ s.txLock = r.txLock
        /\ s.rxLock = r.rxLock /\ s.holder = None
    BY <1>2, <1>3, <2>1 DEF QueueType
  <2> QED BY <1>1, <1>4, <1>9, <2>2, <2>3
<1> QED BY <1>8, <1>9

(* prvCopyDataFromQueue                                                    *)
LEMMA CopyFromIs ==
  ASSUME TypeOK, NEW q \in Handles, ~IsQueueEmpty(q)
  PROVE  LET s == CopyDataFromQueue(q)
         IN  /\ s \in QueueType(q) /\ s.waiting = queue[q].waiting - 1
             /\ s.txLock = queue[q].txLock /\ s.rxLock = queue[q].rxLock
             /\ s.holder = queue[q].holder
<1>1. PICK r : r = queue[q] OBVIOUS
<1>2. PICK n \in Nat \ {0} : n = Length[q] BY HandlesAre
<1>3. /\ r \in QueueType(q) /\ r.waiting \in 0 .. n /\ r.waiting # 0
      /\ r.items \in [0 .. n - 1 -> Message] /\ r.readFrom \in 0 .. n - 1
  BY <1>1, <1>2, QueueIs DEF IsQueueEmpty
<1>4. PICK waiting \in 0 .. n : waiting = r.waiting - 1 BY <1>3
<1>5. PICK from \in 0 .. n - 1 : from = Succ(q, r.readFrom)
  <2>1. r.readFrom \in Int BY <1>3
  <2> QED BY <1>2, <2>1, SuccIs
<1>6. PICK items : items = [r.items EXCEPT ![from] = None] OBVIOUS
<1>7. items \in [0 .. n - 1 -> Message] BY <1>3, <1>5, <1>6 DEF Message
<1>8. CASE q \in Mailboxes
  <2>1. PICK s : s = [r EXCEPT !.items = items, !.readFrom = from, !.waiting = waiting] OBVIOUS
  <2>2. CopyDataFromQueue(q) = s
    BY <1>1, <1>3, <1>4, <1>5, <1>6, <1>8, <2>1 DEF CopyDataFromQueue, QueueType
  <2>3. /\ s \in QueueType(q) /\ s.waiting = waiting /\ s.txLock = r.txLock
        /\ s.rxLock = r.rxLock /\ s.holder = r.holder
    BY <1>2, <1>3, <1>7, <2>1 DEF QueueType
  <2> QED BY <1>1, <1>4, <2>2, <2>3
<1>9. CASE q \notin Mailboxes
  <2>1. PICK s : s = [r EXCEPT !.waiting = waiting] OBVIOUS
  <2>2. CopyDataFromQueue(q) = s
    BY <1>1, <1>3, <1>4, <1>9, <2>1 DEF CopyDataFromQueue, QueueType
  <2>3. /\ s \in QueueType(q) /\ s.waiting = waiting /\ s.txLock = r.txLock
        /\ s.rxLock = r.rxLock /\ s.holder = r.holder
    BY <1>2, <1>3, <2>1 DEF QueueType
  <2> QED BY <1>1, <1>4, <2>2, <2>3
<1> QED BY <1>8, <1>9

\* One queue changes.
OneQueue(q, s) ==
  /\ queue'[q] = s /\ \A r \in Handles : r # q => queue'[r] = queue[r]
  /\ queue' = [r \in Handles |-> queue'[r]] /\ \A r \in Handles : queue'[r] \in QueueType(r)

LEMMA OneQueueIs ==
  ASSUME TypeOK, NEW q \in Handles, NEW s \in QueueType(q), queue' = [queue EXCEPT ![q] = s]
  PROVE  OneQueue(q, s)
<1>1. DOMAIN queue = Handles BY DEF TypeOK
<1>2. queue' = [r \in Handles |-> IF r = q THEN s ELSE queue[r]] BY <1>1
<1>3. queue'[q] = s /\ \A r \in Handles : r # q => queue'[r] = queue[r] BY <1>2
<1>4. \A r \in Handles : queue'[r] \in QueueType(r) BY <1>3 DEF TypeOK
<1>5. queue' = [r \in Handles |-> queue'[r]] BY <1>2
<1> QED BY <1>3, <1>4, <1>5 DEF OneQueue

-----------------------------------------------------------------------------
(* What a step leaves as it was *)

\* The calls of all tasks but one, or of all.
Others(t) ==
  \A u \in Task : u # t =>
    /\ call'[u].pc = call[u].pc /\ call'[u].op = call[u].op /\ call'[u].q = call[u].q
    /\ call'[u].xTicksToWait = call[u].xTicksToWait

OneCall(t, c) == call' \in [Task -> Calls] /\ call'[t] = c /\ Others(t)

LEMMA OneCallIs ==
  ASSUME TypeOK, NEW t \in Task, NEW c \in Calls, call' = [call EXCEPT ![t] = c]
  PROVE  OneCall(t, c)
<1>1. call \in [Task -> Calls] BY DEF TypeOK
<1>2. call' \in [Task -> Calls] /\ call'[t] = c /\ \A u \in Task : u # t => call'[u] = call[u]
  BY <1>1
<1> QED BY <1>2 DEF OneCall, Others

PCs == {"app", "test", "suspend", "last", "slept"} \cup Critical

LEMMA GotoIs ==
  ASSUME TypeOK, NEW t \in Task, NEW pc \in PCs, Goto(t, pc)
  PROVE  /\ OneCall(t, call'[t]) /\ call'[t].pc = pc /\ call'[t].op = call[t].op
         /\ call'[t].q = call[t].q /\ call'[t].xTicksToWait = call[t].xTicksToWait
<1>1. PICK r : r = call[t] OBVIOUS
<1>2. r \in Calls BY <1>1 DEF TypeOK
<1>3. PICK c : c = [r EXCEPT !.pc = pc] OBVIOUS
<1>4. /\ c \in Calls /\ c.pc = pc /\ c.op = r.op /\ c.q = r.q
      /\ c.xTicksToWait = r.xTicksToWait
  BY <1>2, <1>3 DEF Calls, PCs
<1>5. call' = [call EXCEPT ![t] = c] BY <1>1, <1>3 DEF Goto
<1>6. OneCall(t, c) BY <1>4, <1>5, OneCallIs
<1> QED BY <1>1, <1>4, <1>6 DEF OneCall

LEMMA ReturnIs ==
  ASSUME TypeOK, NEW t \in Task, Return(t)
  PROVE  OneCall(t, call'[t]) /\ call'[t].pc = "app"
<1>1. call' = [call EXCEPT ![t] = NoCall] BY DEF Return
<1>2. OneCall(t, NoCall) BY <1>1, NoCallIs, OneCallIs
<1> QED BY <1>2 DEF OneCall, NoCall

\* CallsInv, of one task.
Sound(c) ==
  /\ c.pc \in {"slept", "resume_delay"} => c.op = "delay"
  /\ c.pc \notin {"app", "slept", "resume_delay"} => c.op \in Sides /\ c.q \in Handles
  /\ c.pc # "app" /\ c.q \in Mutexes =>
       c.op = "receive" /\ c.xTicksToWait = portMAX_DELAY

CallOK(k, c, t) ==
  /\ Sound(c)
  /\ \A list \in Events : t \in ToSet(k.events[list]) =>
       list = Waiters(c) /\ c.pc \in {"test", "unlock_blocked", "resume_blocked"}
  /\ c.pc = "app" \/ MayCall(k, t)

LEMMA CallsKept ==
  ASSUME CallsInv, NEW t, Others(t),
         \A u \in Task : u # t => kernel'.held[u] = kernel.held[u],
         \A u \in Task : \A list \in Events :
           u # t /\ u \in ToSet(kernel'.events[list]) => u \in ToSet(kernel.events[list]),
         t \in Task => CallOK(kernel', call'[t], t)
  PROVE  CallsInv'
<1>1. ASSUME NEW u \in Task PROVE CallOK(kernel', call'[u], u)
  <2>1. CASE u = t BY <2>1
  <2>2. CASE u # t
    <3>1. PICK c : c = call[u] OBVIOUS
    <3>2. PICK d : d = call'[u] OBVIOUS
    <3>3. /\ d.pc = c.pc /\ d.op = c.op /\ d.q = c.q /\ d.xTicksToWait = c.xTicksToWait
          /\ kernel'.held[u] = kernel.held[u]
      BY <2>2, <3>1, <3>2 DEF Others
    <3>4. CallOK(kernel, c, u) BY <3>1 DEF CallsInv, CallOK, MayCall, Sound, Waiting
    <3>5. CallOK(kernel', d, u) BY <2>2, <3>3, <3>4 DEF CallOK, MayCall, Sound, Waiters
    <3> QED BY <3>2, <3>5
  <2> QED BY <2>1, <2>2
<1> QED BY <1>1 DEF CallsInv, CallOK, MayCall, Sound, Waiting

LEMMA LocksKept ==
  ASSUME LocksInv, NEW t, Others(t),
         \A q \in Handles : queue'[q].txLock = queue[q].txLock
                              /\ queue'[q].rxLock = queue[q].rxLock,
         t \in Task => /\ call'[t].pc \in Locking <=> call[t].pc \in Locking
                       /\ call'[t].pc \in Locking => call'[t].q = call[t].q
  PROVE  LocksInv'
<1>1. \A u \in Task : \A q \in Handles :
        call'[u].q = q /\ call'[u].pc \in Locking <=> call[u].q = q /\ call[u].pc \in Locking
  BY DEF Others
<1> QED BY <1>1 DEF LocksInv

(* The scheduler runs after a step.                                        *)
LEMMA ControlRuns ==
  ASSUME \A u \in Task : call'[u].pc \notin Critical,
         ~kernel'.suspended, kernel'.pending = <<>>, kernel'.ticks = 0, ~kernel'.pendsv,
         Running(kernel')
  PROVE  ControlInv'
<1>1. {u \in Task : call'[u].pc \in Critical} = {} OBVIOUS
<1> QED BY <1>1 DEF ControlInv

(* The scheduler is suspended after a step.                                *)
LEMMA ControlSuspended ==
  ASSUME NEW t \in Task, kernel'.suspended, kernel'.current = t, ~kernel'.pendsv,
         \A u \in Task : call'[u].pc \in Critical <=> u = t,
         Running(kernel') \/ call'[t].pc \in Gone
  PROVE  ControlInv'
<1>1. {u \in Task : call'[u].pc \in Critical} = {t} OBVIOUS
<1> QED BY <1>1 DEF ControlInv

(* A step that leaves the mutexes, their lists and who is about to take one. *)
LEMMA MutexKept ==
  ASSUME MutexInv,
         kernel'.priority = kernel.priority, kernel'.held = kernel.held,
         \A q \in Mutexes :
           /\ queue'[q].holder = queue[q].holder /\ queue'[q].waiting = queue[q].waiting
           /\ kernel'.events[<<q, "receive">>] = kernel.events[<<q, "receive">>],
         \A u \in Task :
           /\ u \in ReadyTasks(kernel) /\ call[u].pc = "test"
           /\ call[u].q \in Mutexes /\ queue[call[u].q].holder = None
           => /\ u \in ReadyTasks(kernel') /\ call'[u].pc = "test"
              /\ call'[u].q = call[u].q /\ call'[u].op = call[u].op
  PROVE  MutexInv'
<1>1. ASSUME NEW q \in Mutexes, queue'[q].holder = None,
             ToSet(kernel'.events[<<q, "receive">>]) # {}
      PROVE  \E u \in Task :
               /\ u \in ReadyTasks(kernel') /\ call'[u].pc = "test"
               /\ Waiters(call'[u]) = <<q, "receive">>
               /\ \A v \in ToSet(kernel'.events[<<q, "receive">>]) :
                    kernel'.priority[v] <= kernel'.priority[u]
  <2>1. PICK u \in Task :
          /\ u \in ReadyTasks(kernel) /\ call[u].pc = "test"
          /\ Waiters(call[u]) = <<q, "receive">>
          /\ \A v \in ToSet(kernel.events[<<q, "receive">>]) :
               kernel.priority[v] <= kernel.priority[u]
    BY <1>1 DEF MutexInv
  <2>2. call[u].q = q BY <2>1 DEF Waiters
  <2>3. /\ u \in ReadyTasks(kernel') /\ call'[u].pc = "test"
        /\ Waiters(call'[u]) = <<q, "receive">>
    BY <1>1, <2>1, <2>2 DEF Waiters
  <2> QED BY <2>1, <2>3
<1>2. ASSUME NEW q \in Mutexes
      PROVE  /\ queue'[q].holder = None <=> queue'[q].waiting = 1
             /\ queue'[q].holder # None =>
                  /\ \A t \in ToSet(kernel'.events[<<q, "receive">>]) :
                       kernel'.priority[t] <= kernel'.priority[queue'[q].holder]
                  /\ \A r \in Mutexes : queue'[r].holder = queue'[q].holder =>
                       r = q \/ BasePriority[queue'[q].holder] = Highest
  <2>1. /\ queue[q].holder = None <=> queue[q].waiting = 1
        /\ queue[q].holder # None =>
             /\ \A t \in ToSet(kernel.events[<<q, "receive">>]) :
                  kernel.priority[t] <= kernel.priority[queue[q].holder]
             /\ \A r \in Mutexes : queue[r].holder = queue[q].holder =>
                  r = q \/ BasePriority[queue[q].holder] = Highest
    BY DEF MutexInv
  <2> QED BY <2>1
<1>3. ASSUME NEW t \in Tasks
      PROVE  /\ kernel'.priority[t] >= BasePriority[t]
             /\ kernel'.priority[t] # BasePriority[t] =>
                  \E q \in Mutexes :
                    /\ queue'[q].holder = t
                    /\ \E u \in ToSet(kernel'.events[<<q, "receive">>]) :
                         kernel'.priority[u] = kernel'.priority[t]
  <2>1. kernel.priority[t] >= BasePriority[t] BY DEF MutexInv
  <2>2. ASSUME kernel.priority[t] # BasePriority[t]
        PROVE  \E q \in Mutexes :
                 /\ queue'[q].holder = t
                 /\ \E u \in ToSet(kernel'.events[<<q, "receive">>]) :
                      kernel'.priority[u] = kernel'.priority[t]
    <3>1. PICK q \in Mutexes :
            /\ queue[q].holder = t
            /\ \E u \in ToSet(kernel.events[<<q, "receive">>]) :
                 kernel.priority[u] = kernel.priority[t]
      BY <2>2 DEF MutexInv
    <3> QED BY <3>1
  <2> QED BY <2>1, <2>2
<1>4. \A t \in Tasks : kernel'.held[t] = Cardinality(Held(t)')
  <2>1. \A t \in Tasks : Held(t)' = Held(t) BY DEF Held
  <2> QED BY <2>1 DEF MutexInv
<1> QED BY <1>1, <1>2, <1>3, <1>4 DEF MutexInv

\* How many may be served at once that do op on q: messages, or places for them.
Room(q, op) ==
  IF op = "receive" THEN queue[q].waiting ELSE Length[q] - queue[q].waiting

\* Nothing comes to a queue or goes, and while there is room no one who looks for it
\* stops, or starts to wait.
Calm ==
  /\ \A q \in Handles :
       /\ queue'[q].waiting = queue[q].waiting
       /\ \/ queue'[q].txLock = queue[q].txLock
          \/ queue[q].txLock = queueUNLOCKED /\ queue'[q].txLock = queueLOCKED_UNMODIFIED
  /\ \A q \in Handles : \A op \in Sides :
       \/ Room(q, op) = 0
       \/ /\ Looking(q, op) \subseteq Looking(q, op)'
          /\ ToSet(kernel'.events[<<q, op>>]) \subseteq ToSet(kernel.events[<<q, op>>])

LEMMA BlockedIs ==
  ASSUME TypeOK, NEW c, c.q \in Handles, c.op \in Sides, Blocked(c)
  PROVE  Room(c.q, c.op) = 0
<1>1. PICK n \in Nat : n = Length[c.q] BY HandlesAre
<1>2. CASE c.op = "send"
  <2>1. queue[c.q].waiting = n BY <1>1, <1>2 DEF Blocked, IsQueueFull
  <2>2. n - n = 0 OBVIOUS
  <2> QED BY <1>1, <1>2, <2>1, <2>2 DEF Room
<1>3. CASE c.op = "receive" BY <1>3 DEF Blocked, IsQueueEmpty, Room
<1> QED BY <1>2, <1>3 DEF Sides

(* Who is in a call of op on q looks on, unless that is what is left.      *)
LEMMA LookingStays ==
  ASSUME NEW t, Others(t), NEW q, NEW op,
         ToSet(kernel'.events[<<q, op>>]) \subseteq ToSet(kernel.events[<<q, op>>])
  PROVE  /\ Looking(q, op) \ {t} \subseteq Looking(q, op)'
         /\ (t \in Looking(q, op) =>
               call'[t].q = q /\ call'[t].op = op /\ call'[t].pc # "app")
              => Looking(q, op) \subseteq Looking(q, op)'
<1>1. ASSUME NEW u \in Looking(q, op),
             u # t \/ (call'[u].q = q /\ call'[u].op = op /\ call'[u].pc # "app")
      PROVE  u \in Looking(q, op)'
  <2>1. u \in Task /\ call[u].q = q /\ call[u].op = op /\ call[u].pc # "app"
        /\ ~(u \in ToSet(kernel.events[<<q, op>>]))
    BY DEF Looking, Waiting
  <2>2. call'[u].q = q /\ call'[u].op = op /\ call'[u].pc # "app"
    BY <1>1, <2>1 DEF Others
  <2> QED BY <2>1, <2>2 DEF Looking, Waiting
<1> QED BY <1>1

LEMMA CalmIs ==
  ASSUME TypeOK, NEW t, Others(t),
         \A q \in Handles :
           /\ queue'[q].waiting = queue[q].waiting
           /\ \/ queue'[q].txLock = queue[q].txLock
              \/ queue[q].txLock = queueUNLOCKED /\ queue'[q].txLock = queueLOCKED_UNMODIFIED,
         \A q \in Handles : \A op \in Sides :
           \/ Room(q, op) = 0
           \/ ToSet(kernel'.events[<<q, op>>]) \subseteq ToSet(kernel.events[<<q, op>>]),
         t \in Task /\ call[t].pc # "app" /\ call[t].q \in Handles /\ call[t].op \in Sides =>
           \/ Blocked(call[t])
           \/ call'[t].pc # "app" /\ call'[t].q = call[t].q /\ call'[t].op = call[t].op
  PROVE  Calm
<1>1. ASSUME NEW q \in Handles, NEW op \in Sides, Room(q, op) # 0
      PROVE  /\ Looking(q, op) \subseteq Looking(q, op)'
             /\ ToSet(kernel'.events[<<q, op>>]) \subseteq ToSet(kernel.events[<<q, op>>])
  <2>1. ToSet(kernel'.events[<<q, op>>]) \subseteq ToSet(kernel.events[<<q, op>>]) BY <1>1
  <2>2. ASSUME t \in Looking(q, op)
        PROVE  call'[t].q = q /\ call'[t].op = op /\ call'[t].pc # "app"
    <3>1. t \in Task /\ call[t].q = q /\ call[t].op = op /\ call[t].pc # "app"
      BY <2>2 DEF Looking
    <3>2. ~Blocked(call[t]) BY <1>1, <3>1, BlockedIs
    <3> QED BY <3>1, <3>2
  <2> QED BY <2>1, <2>2, LookingStays
<1> QED BY <1>1 DEF Calm

(* A step that changes nothing but the call of the task that runs.         *)
LEMMA CallOnly ==
  ASSUME KernelInv, NEW t \in Task, kernel.current = t, ~Listed(kernel, t),
         UNCHANGED <<kernel, queue, program>>, OneCall(t, call'[t]), left' \in [Task -> Ticks],
         call'[t].pc \in Critical <=> call[t].pc \in Critical, call[t].pc \notin Gone,
         call'[t].pc \in Locking <=> call[t].pc \in Locking,
         call'[t].pc \in Locking => call'[t].q = call[t].q,
         call[t].pc = "test" /\ call[t].q \in Mutexes => queue[call[t].q].holder # None,
         Sound(call'[t]), call'[t].pc = "app" \/ MayCall(kernel, t)
  PROVE  KernelInv'
<1>1. Others(t) /\ call' \in [Task -> Calls] BY DEF OneCall
<1>2. TypeOK' BY <1>1 DEF KernelInv, TypeOK
<1>3. ListsInv(kernel)' BY DEF KernelInv
<1>4. ControlInv'
  <2>1. \A u \in Task : call'[u].pc \in Critical <=> call[u].pc \in Critical
    BY <1>1 DEF Others
  <2>2. {u \in Task : call'[u].pc \in Critical} = {u \in Task : call[u].pc \in Critical}
    BY <2>1
  <2>3. Running(kernel) BY DEF KernelInv, ControlInv
  <2> QED BY <2>2, <2>3 DEF KernelInv, ControlInv
<1>5. CallsInv'
  <2>1. CallOK(kernel, call'[t], t) BY DEF CallOK, Listed
  <2> QED BY <1>1, <2>1, CallsKept DEF KernelInv
<1>6. LocksInv' BY <1>1, LocksKept DEF KernelInv
<1>7. MutexInv'
  <2>1. ASSUME NEW u \in Task, call[u].pc = "test", call[u].q \in Mutexes,
               queue[call[u].q].holder = None
        PROVE  call'[u].pc = "test" /\ call'[u].q = call[u].q /\ call'[u].op = call[u].op
    <3>1. u # t BY <2>1
    <3> QED BY <1>1, <2>1, <3>1 DEF Others
  <2> QED BY <2>1, MutexKept DEF KernelInv
<1> QED BY <1>2, <1>3, <1>4, <1>5, <1>6, <1>7 DEF KernelInv

(* Who is refused a mutex looks for one that is held.                      *)
LEMMA BlockedMutex ==
  ASSUME KernelInv, NEW t \in Task, NEW c \in Asked(t), c.op \in Sides, Blocked(c)
  PROVE  /\ call[t].pc = "test" /\ call[t].q \in Mutexes => queue[call[t].q].holder # None
         /\ c.xTicksToWait > 0 => MayCall(kernel, t)
<1>1. Asks(t, c) BY AskedIs
<1>2. ASSUME call[t].pc = "test", call[t].q \in Mutexes
      PROVE  queue[call[t].q].holder # None
  <2>1. c = call[t] BY <1>1, <1>2 DEF Asks
  <2>2. c.op = "receive" BY <1>2, <2>1 DEF KernelInv, CallsInv
  <2>3. queue[c.q].waiting = 0 BY <2>2 DEF Blocked, IsQueueEmpty
  <2>4. queue[c.q].holder = None => queue[c.q].waiting = 1
    BY <1>2, <2>1 DEF KernelInv, MutexInv
  <2> QED BY <2>1, <2>3, <2>4
<1>3. ASSUME ~MayCall(kernel, t) PROVE ~(c.xTicksToWait > 0)
  <2>1. c.xTicksToWait = 0 BY <1>1, <1>3 DEF Asks
  <2> QED BY <2>1
<1> QED BY <1>2, <1>3

LEMMA RefusedStep ==
  ASSUME KernelInv, NEW t \in Task, Refused(t)
  PROVE  KernelInv' /\ Calm
<1>1. PICK c \in Asked(t) :
        /\ c.op \in Sides /\ Blocked(c) /\ Return(t)
        /\ UNCHANGED <<kernel, queue, left, program>>
  BY DEF Refused
<1>2. kernel.current = t /\ call[t].pc \notin Critical BY AskedIs
<1>3. ~Listed(kernel, t) BY <1>2, Free
<1>4. OneCall(t, call'[t]) /\ call'[t].pc = "app" BY <1>1, ReturnIs DEF KernelInv
<1>5. left' \in [Task -> Ticks] BY <1>1 DEF KernelInv, TypeOK
<1>6. call[t].pc = "test" /\ call[t].q \in Mutexes => queue[call[t].q].holder # None
  BY <1>1, BlockedMutex
<1>7. /\ call'[t].pc \notin Critical /\ call'[t].pc \notin Locking /\ call[t].pc \notin Locking
      /\ call[t].pc \notin Gone
  BY <1>2, <1>4 DEF Critical, Locking, Gone
<1>8. Sound(call'[t]) BY <1>4 DEF Sound
<1>9. KernelInv' BY <1>1, <1>2, <1>3, <1>4, <1>5, <1>6, <1>7, <1>8, CallOnly
<1>10. Calm
  <2>1. call[t].pc # "app" => Blocked(call[t])
    <3>1. call[t].pc # "app" => c = call[t] BY AskedIs DEF Asks
    <3> QED BY <1>1, <3>1
  <2> QED BY <1>1, <1>4, <2>1, CalmIs DEF KernelInv, OneCall
<1> QED BY <1>9, <1>10

LEMMA EnterStep ==
  ASSUME KernelInv, NEW t \in Task, Enter(t)
  PROVE  KernelInv' /\ Calm
<1>1. PICK c \in Asked(t) :
        LET starts == ~c.set /\ c.xTicksToWait # portMAX_DELAY
        IN  /\ c.op \in Sides /\ Blocked(c) /\ c.xTicksToWait > 0
            /\ call' = [call EXCEPT ![t] =
                          [c EXCEPT !.pc = "suspend", !.set = c.set \/ starts,
                                    !.since = IF starts THEN kernel.tick ELSE c.since]]
            /\ left' = IF starts THEN [left EXCEPT ![t] = c.xTicksToWait] ELSE left
            /\ UNCHANGED <<kernel, queue, program>>
  BY DEF Enter
<1>2. Asks(t, c) /\ kernel.current = t /\ call[t].pc \notin Critical BY AskedIs
<1>3. ~Listed(kernel, t) BY <1>2, Free
<1>4. c \in Calls /\ kernel.tick \in Ticks /\ left \in [Task -> Ticks]
  BY <1>2 DEF Asks, KernelInv, TypeOK, Kernels
<1>5. c.set \in BOOLEAN /\ c.xTicksToWait \in Ticks /\ c.since \in Ticks BY <1>4 DEF Calls
<1>6. PICK starts \in BOOLEAN : starts = (~c.set /\ c.xTicksToWait # portMAX_DELAY)
  BY <1>5
<1>7. PICK set \in BOOLEAN : set = (c.set \/ starts) BY <1>5
<1>8. PICK since \in Ticks : since = IF starts THEN kernel.tick ELSE c.since BY <1>4, <1>5
<1>9. PICK d : d = [c EXCEPT !.pc = "suspend", !.set = set, !.since = since] OBVIOUS
<1>10. /\ d \in Calls /\ d.pc = "suspend" /\ d.op = c.op /\ d.q = c.q
       /\ d.xTicksToWait = c.xTicksToWait
  BY <1>4, <1>9 DEF Calls
<1>11. call' = [call EXCEPT ![t] = d] BY <1>1, <1>6, <1>7, <1>8, <1>9
<1>12. OneCall(t, d) BY <1>10, <1>11, OneCallIs DEF KernelInv
<1>13. call'[t] = d BY <1>12 DEF OneCall
<1>14. left' \in [Task -> Ticks] BY <1>1, <1>4, <1>5
<1>15. /\ call[t].pc = "test" /\ call[t].q \in Mutexes => queue[call[t].q].holder # None
       /\ MayCall(kernel, t)
  BY <1>1, BlockedMutex
<1>16. /\ d.pc \notin Critical /\ d.pc \notin Locking /\ call[t].pc \notin Locking
       /\ call[t].pc \notin Gone
  BY <1>2, <1>10 DEF Critical, Locking, Gone
<1>17. Sound(d)
  <2>1. c.q \in Handles /\ (c.q \in Mutexes => c.op # "send")
    <3>1. ~(0 > 0) OBVIOUS
    <3> QED BY <1>1, <1>2, <3>1 DEF Asks
  <2>2. c.q \in Mutexes => c.op = "receive" /\ c.xTicksToWait = portMAX_DELAY
    <3>1. ~(0 > 0) OBVIOUS
    <3> QED BY <1>1, <1>2, <2>1, <3>1 DEF Asks, Sides
  <2> QED BY <1>1, <1>10, <2>1, <2>2 DEF Sound
<1>18. MayCall(kernel, t) BY <1>15
<1>19. UNCHANGED <<kernel, queue, program>> BY <1>1
<1>20. KernelInv'
  BY <1>2, <1>3, <1>12, <1>13, <1>14, <1>15, <1>16, <1>17, <1>18, <1>19, CallOnly
<1>21. Calm
  <2>1. call[t].pc # "app" => Blocked(call[t]) BY <1>1, <1>2 DEF Asks
  <2> QED BY <1>12, <1>19, <2>1, CalmIs DEF KernelInv, OneCall
<1> QED BY <1>20, <1>21

LEMMA TryAgainStep ==
  ASSUME KernelInv, NEW t \in Task, TryAgain(t)
  PROVE  KernelInv' /\ Calm
<1>1. /\ kernel.current = t /\ call[t].pc = "look" /\ Goto(t, "unlock")
      /\ UNCHANGED <<kernel, queue, left, program>>
  BY DEF TryAgain, At
<1>2. /\ call[t].pc \in Critical /\ call[t].pc \notin Gone /\ call[t].pc \in Locking
      /\ call[t].pc # "test"
  BY <1>1 DEF Critical, Gone, Locking
<1>3. ~Listed(kernel, t) BY <1>1, <1>2, Busy
<1>4. /\ OneCall(t, call'[t]) /\ call'[t].pc = "unlock" /\ call'[t].op = call[t].op
      /\ call'[t].q = call[t].q /\ call'[t].xTicksToWait = call[t].xTicksToWait
  BY <1>1, GotoIs DEF KernelInv, PCs, Critical
<1>5. left' \in [Task -> Ticks] BY <1>1 DEF KernelInv, TypeOK
<1>6. call'[t].pc \in Critical /\ call'[t].pc \in Locking BY <1>4 DEF Critical, Locking
<1>7. Sound(call'[t]) /\ MayCall(kernel, t)
  BY <1>1, <1>4 DEF Sound, KernelInv, CallsInv, MayCall
<1>8. KernelInv' BY <1>1, <1>2, <1>3, <1>4, <1>5, <1>6, <1>7, CallOnly
<1>9. Calm BY <1>1, <1>4, CalmIs DEF KernelInv, OneCall
<1> QED BY <1>8, <1>9

LEMMA LookAgainStep ==
  ASSUME KernelInv, NEW t \in Task, LookAgain(t)
  PROVE  KernelInv' /\ Calm
<1>1. /\ kernel.current = t /\ call[t].pc = "last" /\ Goto(t, "test")
      /\ UNCHANGED <<kernel, queue, left, program>>
  BY DEF LookAgain, At
<1>2. /\ call[t].pc \notin Critical /\ call[t].pc \notin Gone /\ call[t].pc \notin Locking
      /\ call[t].pc # "test"
  BY <1>1 DEF Critical, Gone, Locking
<1>3. ~Listed(kernel, t) BY <1>1, <1>2, Free
<1>4. /\ OneCall(t, call'[t]) /\ call'[t].pc = "test" /\ call'[t].op = call[t].op
      /\ call'[t].q = call[t].q /\ call'[t].xTicksToWait = call[t].xTicksToWait
  BY <1>1, GotoIs DEF KernelInv, PCs, Critical
<1>5. left' \in [Task -> Ticks] BY <1>1 DEF KernelInv, TypeOK
<1>6. call'[t].pc \notin Critical /\ call'[t].pc \notin Locking BY <1>4 DEF Critical, Locking
<1>7. Sound(call'[t]) /\ MayCall(kernel, t)
  BY <1>1, <1>4 DEF Sound, KernelInv, CallsInv, MayCall
<1>8. KernelInv' BY <1>1, <1>2, <1>3, <1>4, <1>5, <1>6, <1>7, CallOnly
<1>9. Calm BY <1>1, <1>4, CalmIs DEF KernelInv, OneCall
<1> QED BY <1>8, <1>9

(* A call returns without more: it has given up, or slept.                 *)
LEMMA ReturnStep ==
  ASSUME KernelInv, NEW t \in Task, GiveUp(t) \/ Awake(t)
  PROVE  KernelInv' /\ Calm
<1>1. /\ kernel.current = t /\ call[t].pc \in {"last", "slept"} /\ Return(t)
      /\ UNCHANGED <<kernel, queue, left, program>>
  BY DEF GiveUp, Awake, At
<1>2. /\ call[t].pc \notin Critical /\ call[t].pc \notin Gone /\ call[t].pc \notin Locking
      /\ call[t].pc # "test"
  BY <1>1 DEF Critical, Gone, Locking
<1>3. ~Listed(kernel, t) BY <1>1, <1>2, Free
<1>4. OneCall(t, call'[t]) /\ call'[t].pc = "app" BY <1>1, ReturnIs DEF KernelInv
<1>5. left' \in [Task -> Ticks] BY <1>1 DEF KernelInv, TypeOK
<1>6. call'[t].pc \notin Critical /\ call'[t].pc \notin Locking BY <1>4 DEF Critical, Locking
<1>7. Sound(call'[t]) BY <1>4 DEF Sound
<1>8. KernelInv' BY <1>1, <1>2, <1>3, <1>4, <1>5, <1>6, <1>7, CallOnly
<1>9. Calm
  <2>1. Blocked(call[t]) \/ call[t].op \notin Sides
    <3>1. CASE GiveUp(t) BY <3>1 DEF GiveUp
    <3>2. CASE Awake(t)
      <4>1. call[t].op = "delay" BY <3>2 DEF Awake, At, KernelInv, CallsInv
      <4> QED BY <4>1 DEF Sides
    <3> QED BY <3>1, <3>2
  <2> QED BY <1>1, <1>4, <2>1, CalmIs DEF KernelInv, OneCall
<1> QED BY <1>8, <1>9

LEMMA SuspendStep ==
  ASSUME KernelInv, NEW t \in Task, vTaskSuspendAll(t)
  PROVE  KernelInv' /\ Calm
<1>1. /\ kernel.current = t /\ call[t].pc = "suspend" /\ Goto(t, "lock")
      /\ kernel' = [kernel EXCEPT !.suspended = TRUE]
      /\ UNCHANGED <<queue, left, program>>
  BY DEF vTaskSuspendAll, At
<1>2. /\ call[t].pc \notin Critical /\ call[t].pc \notin Gone /\ call[t].pc \notin Locking
      /\ call[t].pc # "test"
  BY <1>1 DEF Critical, Gone, Locking
<1>3. /\ Running(kernel) /\ ~Listed(kernel, t)
      /\ \A u \in Task : call[u].pc \notin Critical
  BY <1>1, <1>2, Free
<1>4. /\ OneCall(t, call'[t]) /\ call'[t].pc = "lock" /\ call'[t].op = call[t].op
      /\ call'[t].q = call[t].q /\ call'[t].xTicksToWait = call[t].xTicksToWait
  BY <1>1, GotoIs DEF KernelInv, PCs, Critical
<1>5. Others(t) /\ call' \in [Task -> Calls] BY <1>4 DEF OneCall
<1>6. PICK k \in Kernels : k = kernel BY DEF KernelInv, TypeOK
<1>7. /\ kernel' \in Kernels /\ Alike(kernel', kernel) /\ kernel'.current = t
      /\ kernel'.held = kernel.held /\ kernel'.suspended
      /\ kernel'.pendsv = kernel.pendsv
  BY <1>1, <1>6 DEF Kernels, Alike
<1>8. ListsInv(kernel') /\ ReadyTasks(kernel') = ReadyTasks(kernel)
  BY <1>7, AlikeLists DEF KernelInv
<1>9. TypeOK' BY <1>1, <1>5, <1>7 DEF KernelInv, TypeOK
<1>10. ControlInv'
  <2>1. \A u \in Task : call'[u].pc \in Critical <=> u = t
    BY <1>3, <1>4, <1>5 DEF Others, Critical
  <2>2. Running(kernel') BY <1>3, <1>7, <1>8, <1>1 DEF Running, Alike
  <2>3. ~kernel'.pendsv BY <1>7 DEF KernelInv, ControlInv
  <2> QED BY <1>7, <2>1, <2>2, <2>3, ControlSuspended
<1>11. CallsInv'
  <2>1. Sound(call'[t]) /\ MayCall(kernel, t)
    BY <1>1, <1>4 DEF Sound, KernelInv, CallsInv, MayCall
  <2>2. CallOK(kernel', call'[t], t) BY <1>3, <1>7, <2>1 DEF CallOK, MayCall, Listed, Alike
  <2> QED BY <1>5, <1>7, <2>2, CallsKept DEF KernelInv, Alike
<1>12. LocksInv'
  <2>1. call'[t].pc \notin Locking BY <1>4 DEF Locking
  <2> QED BY <1>1, <1>2, <1>5, <2>1, LocksKept DEF KernelInv
<1>13. MutexInv'
  <2>1. \A u \in Task : call[u].pc = "test" =>
          call'[u].pc = "test" /\ call'[u].q = call[u].q /\ call'[u].op = call[u].op
    BY <1>2, <1>5 DEF Others
  <2> QED BY <1>1, <1>7, <1>8, <2>1, MutexKept DEF KernelInv, Alike
<1>14. Calm BY <1>1, <1>4, <1>5, <1>7, CalmIs DEF KernelInv, Alike
<1> QED BY <1>8, <1>9, <1>10, <1>11, <1>12, <1>13, <1>14 DEF KernelInv

(* xTaskCheckForTimeOut                                                    *)
LEMMA StillWaitingIs ==
  ASSUME TypeOK, NEW c \in Calls, ~TimedOut(c)
  PROVE  LET d == StillWaiting(c)
         IN  /\ d \in Calls /\ d.op = c.op /\ d.q = c.q
             /\ c.xTicksToWait = portMAX_DELAY => d.xTicksToWait = portMAX_DELAY
<1>1. CASE c.xTicksToWait = portMAX_DELAY
  <2>1. StillWaiting(c) = c BY <1>1 DEF StillWaiting
  <2> QED BY <1>1, <2>1
<1>2. CASE c.xTicksToWait # portMAX_DELAY
  <2>1. kernel.tick \in Ticks /\ c.since \in Ticks /\ c.xTicksToWait \in Ticks
    BY DEF TypeOK, Kernels, Calls
  <2>2. PICK gone \in Ticks : gone = Elapsed(c.since, kernel.tick) BY <2>1, TicksAre
  <2>3. ~(gone >= c.xTicksToWait) BY <1>2, <2>2 DEF TimedOut
  <2>4. PICK max \in Nat : max = portMAX_DELAY BY TickAssumption
  <2>5. gone \in 0 .. max /\ c.xTicksToWait \in 0 .. max BY <2>1, <2>2, <2>4 DEF Ticks
  <2>6. c.xTicksToWait - gone \in 0 .. max BY <2>3, <2>5
  <2>7. PICK rest \in Ticks : rest = c.xTicksToWait - gone BY <2>4, <2>6 DEF Ticks
  <2>8. PICK tick \in Ticks : tick = kernel.tick BY <2>1
  <2>9. PICK d : d = [c EXCEPT !.xTicksToWait = rest, !.since = tick, !.wrapped = FALSE]
    OBVIOUS
  <2>10. StillWaiting(c) = d BY <1>2, <2>2, <2>7, <2>8, <2>9 DEF StillWaiting, Calls
  <2>11. d \in Calls /\ d.op = c.op /\ d.q = c.q BY <2>9 DEF Calls
  <2> QED BY <1>2, <2>10, <2>11
<1> QED BY <1>1, <1>2

LEMMA LockingIs ==
  /\ \A pc \in Locking : pc \in Critical /\ pc # "app" /\ pc # "test"
  /\ \A pc \in Gone : pc \in Critical
BY DEF Locking, Gone, Critical

LEMMA LockStep ==
  ASSUME KernelInv, NEW t \in Task, Lock(t)
  PROVE  KernelInv' /\ Calm
<1>1. PICK c : c = call[t] OBVIOUS
<1>2. /\ kernel.current = t /\ c.pc = "lock" /\ UNCHANGED <<kernel, left, program>>
      /\ queue' = [queue EXCEPT
           ![c.q].txLock = IF @ = queueUNLOCKED THEN queueLOCKED_UNMODIFIED ELSE @,
           ![c.q].rxLock = IF @ = queueUNLOCKED THEN queueLOCKED_UNMODIFIED ELSE @]
      /\ call' = [call EXCEPT ![t] =
                    IF TimedOut(c) THEN [c EXCEPT !.pc = "unlock_late", !.xTicksToWait = 0]
                    ELSE [StillWaiting(c) EXCEPT !.pc = "look"]]
  BY <1>1 DEF Lock, At
<1>3. /\ call[t].pc \in Critical /\ call[t].pc \notin Gone /\ call[t].pc \notin Locking
      /\ call[t].pc # "test"
  BY <1>1, <1>2 DEF Critical, Gone, Locking
<1>4. /\ kernel.suspended /\ Running(kernel) /\ ~Listed(kernel, t)
      /\ \A u \in Task : call[u].pc \in Critical <=> u = t
  BY <1>2, <1>3, Busy
<1>5. c \in Calls BY <1>1 DEF KernelInv, TypeOK
<1>6. c.op \in Sides /\ c.q \in Handles /\ MayCall(kernel, t)
      /\ (c.q \in Mutexes => c.op = "receive" /\ c.xTicksToWait = portMAX_DELAY)
  BY <1>1, <1>2 DEF KernelInv, CallsInv, MayCall
<1>7. PICK d \in Calls : /\ call' = [call EXCEPT ![t] = d]
                         /\ d.pc \in {"unlock_late", "look"} /\ d.op = c.op /\ d.q = c.q
                         /\ c.xTicksToWait = portMAX_DELAY => d.xTicksToWait = portMAX_DELAY
  <2>1. CASE TimedOut(c)
    <3>1. PICK d : d = [c EXCEPT !.pc = "unlock_late", !.xTicksToWait = 0] OBVIOUS
    <3>2. 0 \in Ticks BY TicksAre
    <3>3. d \in Calls /\ d.pc = "unlock_late" /\ d.op = c.op /\ d.q = c.q
      BY <1>5, <3>1, <3>2 DEF Calls, Critical
    <3>4. c.xTicksToWait # portMAX_DELAY BY <2>1 DEF TimedOut
    <3> QED BY <1>2, <2>1, <3>1, <3>3, <3>4
  <2>2. CASE ~TimedOut(c)
    <3>1. PICK e : e = StillWaiting(c) OBVIOUS
    <3>2. /\ e \in Calls /\ e.op = c.op /\ e.q = c.q
          /\ c.xTicksToWait = portMAX_DELAY => e.xTicksToWait = portMAX_DELAY
      BY <1>5, <2>2, <3>1, StillWaitingIs DEF KernelInv
    <3>3. PICK d : d = [e EXCEPT !.pc = "look"] OBVIOUS
    <3>4. /\ d \in Calls /\ d.pc = "look" /\ d.op = e.op /\ d.q = e.q
          /\ d.xTicksToWait = e.xTicksToWait
      BY <3>2, <3>3 DEF Calls, Critical
    <3> QED BY <1>2, <2>2, <3>1, <3>2, <3>3, <3>4
  <2> QED BY <2>1, <2>2
<1>8. OneCall(t, d) BY <1>7, OneCallIs DEF KernelInv
<1>9. Others(t) /\ call' \in [Task -> Calls] /\ call'[t] = d BY <1>8 DEF OneCall
<1>10. PICK q \in Handles : q = c.q BY <1>6
<1>11. \A u \in Task : call[u].pc \notin Locking BY <1>3, <1>4, LockingIs
<1>12. \A r \in Handles : queue[r].txLock = queueUNLOCKED /\ queue[r].rxLock = queueUNLOCKED
  BY <1>11 DEF KernelInv, LocksInv
<1>13. PICK s : s = [queue[q] EXCEPT !.txLock = 0, !.rxLock = 0] OBVIOUS
<1>14. /\ s \in QueueType(q) /\ s.txLock = 0 /\ s.rxLock = 0 /\ s.holder = queue[q].holder
       /\ s.waiting = queue[q].waiting
  <2>1. queue[q] \in QueueType(q) BY DEF KernelInv, TypeOK
  <2> QED BY <1>13, <2>1 DEF QueueType, queueUNLOCKED, queueLOCKED_UNMODIFIED
<1>15. queue' = [queue EXCEPT ![q] = s]
  <2>1. queue[q].txLock = queueUNLOCKED /\ queue[q].rxLock = queueUNLOCKED BY <1>12
  <2> QED BY <1>2, <1>10, <1>13, <2>1 DEF queueLOCKED_UNMODIFIED
<1>16. OneQueue(q, s) BY <1>14, <1>15, OneQueueIs DEF KernelInv
<1>17. TypeOK' BY <1>2, <1>9, <1>16 DEF KernelInv, TypeOK, OneQueue
<1>18. ControlInv'
  <2>1. \A u \in Task : call'[u].pc \in Critical <=> u = t
    BY <1>4, <1>7, <1>9 DEF Others, Critical
  <2>2. ~kernel.pendsv BY DEF KernelInv, ControlInv
  <2> QED BY <1>2, <1>4, <2>1, <2>2, ControlSuspended
<1>19. CallsInv'
  <2>1. Sound(d) BY <1>6, <1>7 DEF Sound
  <2>2. CallOK(kernel, d, t) BY <1>4, <1>6, <2>1 DEF CallOK, Listed
  <2> QED BY <1>2, <1>9, <2>2, CallsKept DEF KernelInv
<1>20. LocksInv'
  <2>1. call'[t].pc \in Locking BY <1>7, <1>9 DEF Locking
  <2>2. \A u \in Task : u # t => call'[u].pc \notin Locking BY <1>9, <1>11 DEF Others
  <2>3. queue'[q].txLock = 0 /\ queue'[q].rxLock = 0 BY <1>14, <1>16 DEF OneQueue
  <2>4. \A r \in Handles : r # q =>
          queue'[r].txLock = queueUNLOCKED /\ queue'[r].rxLock = queueUNLOCKED
    BY <1>12, <1>16 DEF OneQueue
  <2>5. call'[t].q = q BY <1>7, <1>9, <1>10
  <2> QED BY <2>1, <2>2, <2>3, <2>4, <2>5 DEF LocksInv, queueUNLOCKED, queueLOCKED_UNMODIFIED
<1>21. MutexInv'
  <2>1. \A u \in Task : call[u].pc = "test" =>
          call'[u].pc = "test" /\ call'[u].q = call[u].q /\ call'[u].op = call[u].op
    BY <1>3, <1>9 DEF Others
  <2>2. \A r \in Mutexes : queue'[r].holder = queue[r].holder
                             /\ queue'[r].waiting = queue[r].waiting
    BY <1>14, <1>16, HandlesAre DEF OneQueue
  <2> QED BY <1>2, <2>1, <2>2, MutexKept DEF KernelInv
<1>22. Calm
  <2>1. \A r \in Handles :
          /\ queue'[r].waiting = queue[r].waiting
          /\ \/ queue'[r].txLock = queue[r].txLock
             \/ queue[r].txLock = queueUNLOCKED /\ queue'[r].txLock = queueLOCKED_UNMODIFIED
    BY <1>12, <1>14, <1>16 DEF OneQueue, queueLOCKED_UNMODIFIED
  <2>2. call'[t].pc # "app" /\ call'[t].q = call[t].q /\ call'[t].op = call[t].op
    BY <1>1, <1>7, <1>9
  <2> QED BY <1>2, <1>9, <2>1, <2>2, CalmIs DEF KernelInv
<1> QED BY <1>2, <1>17, <1>18, <1>19, <1>20, <1>21, <1>22 DEF KernelInv

(* Who holds a mutex is in no call, and waits for nothing, unless it has the *)
(* highest priority.                                                         *)
LEMMA HolderIs ==
  ASSUME KernelInv, NEW q \in Mutexes, queue[q].waiting # 1 \/ queue[q].holder # None
  PROVE  LET h == queue[q].holder
         IN  /\ h \in Task /\ h \in Tasks /\ kernel.held[h] > 0
             /\ \/ BasePriority[h] = Highest
                \/ kernel.held[h] = 1 /\ call[h].pc = "app" /\ ~Listed(kernel, h)
<1>1. PICK h : h = queue[q].holder OBVIOUS
<1>2. h # None
  <2>1. queue[q].holder = None <=> queue[q].waiting = 1 BY DEF KernelInv, MutexInv
  <2> QED BY <1>1, <2>1
<1>3. h \in Task
  <2>1. queue[q] \in QueueType(q) BY HandlesAre DEF KernelInv, TypeOK
  <2> QED BY <1>1, <1>2, <2>1 DEF QueueType
<1>4. h \in Tasks BY <1>3, PrioritiesAre
<1>5. kernel.held[h] > 0 /\ (kernel.held[h] = 1 \/ BasePriority[h] = Highest)
  BY <1>1, <1>4, Holds DEF KernelInv
<1>6. call[h].pc = "app" \/ BasePriority[h] = Highest
  BY <1>3, <1>5 DEF KernelInv, CallsInv
<1>7. call[h].pc = "app" => ~Listed(kernel, h)
  <2>1. \A list \in Events : Waiting(h, list) =>
          call[h].pc \in {"test", "unlock_blocked", "resume_blocked"}
    BY <1>3 DEF KernelInv, CallsInv
  <2> QED BY <2>1 DEF Waiting, Listed
<1> QED BY <1>1, <1>3, <1>4, <1>5, <1>6, <1>7

(* No one inherits more than the highest priority, nor who calls anything.  *)
LEMMA BaseIs ==
  ASSUME TypeOK, MutexInv, NEW t \in Tasks, MayCall(kernel, t)
  PROVE  kernel.priority[t] = BasePriority[t]
<1>1. CASE BasePriority[t] = Highest
  <2>1. kernel.priority[t] \in Priorities BY DEF TypeOK, Kernels
  <2>2. PICK p \in Nat : p = kernel.priority[t] BY <2>1, HighestAre
  <2>3. PICK high \in Nat : high = Highest BY HighestAre
  <2>4. p <= high /\ p >= high BY <1>1, <2>1, <2>2, <2>3, HighestAre DEF MutexInv
  <2> QED BY <1>1, <2>2, <2>3, <2>4
<1>2. CASE BasePriority[t] # Highest
  <2>1. SUFFICES ASSUME kernel.priority[t] # BasePriority[t] PROVE FALSE OBVIOUS
  <2>2. PICK q \in Mutexes : queue[q].holder = t BY <2>1 DEF MutexInv
  <2> QED BY <1>2, <2>2, Holds DEF MayCall
<1> QED BY <1>1, <1>2

\* What vTaskPlaceOnEventList is given: the holder of a mutex has inherited.
Heir(c) ==
  IF c.q \in Mutexes THEN xTaskPriorityInherit(kernel, queue[c.q].holder) ELSE kernel

LEMMA HeirIs ==
  ASSUME KernelInv, NEW t \in Task, kernel.current = t, call[t].pc = "look", Blocked(call[t])
  PROVE  LET k == Heir(call[t])
             q == call[t].q
         IN  /\ Repriced(k, kernel) /\ k.held = kernel.held
             /\ IF q \in Mutexes
                THEN /\ queue[q].holder \in Task
                     /\ \A u \in Tasks :
                          u = t \/ Listed(kernel, u) \/ call[u].pc = "test" =>
                            k.priority[u] = kernel.priority[u]
                     /\ k.priority = [kernel.priority EXCEPT ![queue[q].holder] =
                          IF kernel.priority[queue[q].holder] < kernel.priority[t]
                          THEN kernel.priority[t] ELSE kernel.priority[queue[q].holder]]
                ELSE k = kernel
<1>1. PICK q : q = call[t].q OBVIOUS
<1>2. PICK k : k = Heir(call[t]) OBVIOUS
<1>3. kernel \in Kernels /\ ListsInv(kernel) BY DEF KernelInv, TypeOK
<1>4. CASE q \notin Mutexes
  <2>1. k = kernel BY <1>1, <1>2, <1>4 DEF Heir
  <2> QED BY <1>1, <1>2, <1>3, <1>4, <2>1 DEF Repriced
<1>5. CASE q \in Mutexes
  <2>1. PICK h : h = queue[q].holder OBVIOUS
  <2>2. call[t].op = "receive" BY <1>1, <1>5 DEF KernelInv, CallsInv
  <2>3. queue[q].waiting # 1 BY <1>1, <2>2 DEF Blocked, IsQueueEmpty
  <2>4. /\ h \in Task /\ h \in Tasks
        /\ \/ BasePriority[h] = Highest
           \/ call[h].pc = "app" /\ ~Listed(kernel, h)
    BY <1>5, <2>1, <2>3, HolderIs
  <2>5. k = xTaskPriorityInherit(kernel, h) BY <1>1, <1>2, <1>5, <2>1 DEF Heir
  <2>6. kernel.priority \in [Tasks -> Priorities] /\ t \in Tasks
    BY <1>3, PrioritiesAre DEF Kernels
  <2>7. CASE BasePriority[h] = Highest
    <3>1. kernel.priority[h] = Highest
      BY <2>4, <2>7, BaseIs DEF KernelInv, MayCall
    <3>2. PICK p \in Nat : p = kernel.priority[t] /\ p <= Highest BY <2>6, HighestAre
    <3>3. ~(kernel.priority[h] < kernel.priority[t]) BY <3>1, <3>2, HighestAre
    <3>4. k = kernel BY <2>5, <3>3 DEF xTaskPriorityInherit
    <3>5. k.priority = [kernel.priority EXCEPT ![h] =
             IF kernel.priority[h] < kernel.priority[t]
             THEN kernel.priority[t] ELSE kernel.priority[h]]
      BY <2>4, <2>6, <3>3, <3>4
    <3> QED BY <1>1, <1>2, <1>3, <1>5, <2>1, <2>4, <3>4, <3>5 DEF Repriced
  <2>8. CASE call[h].pc = "app" /\ ~Listed(kernel, h)
    <3>1. /\ Repriced(k, kernel) /\ k.held = kernel.held
          /\ k.priority = [kernel.priority EXCEPT ![h] =
               IF kernel.priority[h] < kernel.priority[kernel.current]
               THEN kernel.priority[kernel.current] ELSE kernel.priority[h]]
      BY <1>3, <2>4, <2>5, <2>8, InheritIs
    <3>2. \A u \in Tasks : u # h => k.priority[u] = kernel.priority[u] BY <2>6, <3>1
    <3>3. h # t BY <2>8
    <3> QED BY <1>1, <1>2, <1>5, <2>1, <2>4, <2>8, <3>1, <3>2, <3>3
  <2> QED BY <2>4, <2>7, <2>8
<1> QED BY <1>4, <1>5

\* What Place makes of the kernel.
Placed(t, q, list) ==
  /\ kernel' \in Kernels /\ ListsInv(kernel') /\ kernel'.held = kernel.held
  /\ ReadyTasks(kernel') = ReadyTasks(kernel) \ {t}
  /\ kernel'.current = t /\ kernel'.suspended = kernel.suspended
  /\ kernel'.pendsv = kernel.pendsv /\ kernel'.ticks = kernel.ticks
  /\ ToSet(kernel'.events[list]) = ToSet(kernel.events[list]) \cup {t}
  /\ \A other \in Events : other # list => kernel'.events[other] = kernel.events[other]
  /\ IF q \in Mutexes
     THEN LET h == queue[q].holder
          IN  /\ h \in Task
              /\ \A u \in Tasks :
                   u = t \/ Listed(kernel, u) \/ call[u].pc = "test" =>
                     kernel'.priority[u] = kernel.priority[u]
              /\ kernel'.priority = [kernel.priority EXCEPT ![h] =
                   IF kernel.priority[h] < kernel.priority[t]
                   THEN kernel.priority[t] ELSE kernel.priority[h]]
     ELSE kernel'.priority = kernel.priority

LEMMA PlacedIs ==
  ASSUME KernelInv, NEW t \in Task, Place(t)
  PROVE  /\ Placed(t, call[t].q, Waiters(call[t])) /\ Waiters(call[t]) \in Events
         /\ call[t].q \in Mutexes =>
              call[t].op = "receive" /\ queue[call[t].q].holder # None
<1>1. /\ kernel.current = t /\ call[t].pc = "look" /\ Blocked(call[t])
      /\ kernel' = vTaskPlaceOnEventList(Heir(call[t]), Waiters(call[t]), call[t].xTicksToWait)
  BY DEF Place, At, Heir
<1>2. call[t].pc \in Critical /\ call[t].pc \notin Gone BY <1>1 DEF Critical, Gone
<1>3. /\ kernel.suspended /\ t \in ReadyTasks(kernel) /\ ~Listed(kernel, t)
  BY <1>1, <1>2, Busy
<1>4. PICK k : k = Heir(call[t]) OBVIOUS
<1>5. PICK q : q = call[t].q OBVIOUS
<1>6. PICK list : list = Waiters(call[t]) OBVIOUS
<1>7. PICK ticks : ticks = call[t].xTicksToWait OBVIOUS
<1>8. /\ Repriced(k, kernel) /\ k.held = kernel.held
      /\ IF q \in Mutexes
         THEN /\ queue[q].holder \in Task
              /\ \A u \in Tasks : u = t \/ Listed(kernel, u) \/ call[u].pc = "test" =>
                   k.priority[u] = kernel.priority[u]
              /\ k.priority = [kernel.priority EXCEPT ![queue[q].holder] =
                   IF kernel.priority[queue[q].holder] < kernel.priority[t]
                   THEN kernel.priority[t] ELSE kernel.priority[queue[q].holder]]
         ELSE k = kernel
  BY <1>1, <1>4, <1>5, HeirIs
<1>9. /\ call[t].op \in Sides /\ q \in Handles /\ MayCall(kernel, t)
      /\ (q \in Mutexes => call[t].op = "receive" /\ ticks = portMAX_DELAY)
  BY <1>1, <1>5, <1>7 DEF KernelInv, CallsInv, MayCall
<1>10. list \in Events /\ list[1] = q BY <1>5, <1>6, <1>9 DEF Events, Waiters
<1>11. ticks \in Ticks BY <1>7 DEF KernelInv, TypeOK, Calls
<1>12. k.priority[t] = BasePriority[t]
  <2>1. t \in Tasks BY PrioritiesAre
  <2>2. kernel.priority[t] = BasePriority[t] BY <1>9, <2>1, BaseIs DEF KernelInv
  <2>3. k.priority[t] = kernel.priority[t] BY <1>8, <2>1
  <2> QED BY <2>2, <2>3
<1>13. /\ k \in Kernels /\ ListsInv(k) /\ k.current = t /\ ReadyTasks(k) = ReadyTasks(kernel)
       /\ k.suspended = kernel.suspended /\ k.ticks = kernel.ticks /\ k.pendsv = kernel.pendsv
       /\ k.events = kernel.events
  BY <1>1, <1>8 DEF Repriced
<1>14. /\ kernel' \in Kernels /\ ListsInv(kernel')
       /\ ReadyTasks(kernel') = ReadyTasks(k) \ {k.current} /\ Keeps(kernel', k)
       /\ ToSet(kernel'.events[list]) = ToSet(k.events[list]) \cup {k.current}
       /\ \A other \in Events : other # list => kernel'.events[other] = k.events[other]
  <2>1. kernel' = vTaskPlaceOnEventList(k, list, ticks) BY <1>1, <1>4, <1>6, <1>7
  <2> QED BY <1>3, <1>9, <1>10, <1>11, <1>12, <1>13, <2>1, PlaceIs
<1>15. Placed(t, q, list) BY <1>8, <1>13, <1>14 DEF Placed, Keeps
<1>16. ASSUME q \in Mutexes
       PROVE  call[t].op = "receive" /\ queue[q].holder # None
  BY <1>8, <1>9, <1>16, HandlesAre
<1> QED BY <1>5, <1>6, <1>10, <1>15, <1>16

(* The mutexes when a task begins to wait for one that is held.            *)
LEMMA PlaceMutex ==
  ASSUME KernelInv, NEW t \in Task, NEW q \in Mutexes, Placed(t, q, <<q, "receive">>),
         UNCHANGED queue, queue[q].holder # None, call[t].pc # "test", Others(t)
  PROVE  MutexInv'
<1>1. PICK h : h = queue[q].holder OBVIOUS
<1>2. PICK k : k = kernel OBVIOUS
<1>3. PICK l : l = kernel' OBVIOUS
<1>4. /\ h \in Task /\ h \in Tasks /\ t \in Tasks /\ h # None
  BY <1>1, PrioritiesAre DEF Placed
<1>5. k.priority \in [Tasks -> Priorities] /\ l.priority \in [Tasks -> Priorities]
  BY <1>2, <1>3 DEF KernelInv, TypeOK, Placed, Kernels
<1>6. \A u \in Tasks : k.priority[u] \in Int /\ l.priority[u] \in Int /\ BasePriority[u] \in Int
  <2>1. \A p \in Priorities : p \in Int BY PrioritiesAre
  <2> QED BY <1>5, <2>1, PrioritiesAre
<1>7. /\ l.priority[h] = IF k.priority[h] < k.priority[t] THEN k.priority[t] ELSE k.priority[h]
      /\ \A u \in Tasks : u # h => l.priority[u] = k.priority[u]
      /\ \A u \in Tasks : u = t \/ Listed(k, u) \/ call[u].pc = "test" =>
           l.priority[u] = k.priority[u]
  BY <1>1, <1>2, <1>3, <1>4, <1>5 DEF Placed
<1>8. k.priority[h] <= l.priority[h] /\ k.priority[t] <= l.priority[h]
  BY <1>4, <1>6, <1>7
<1>9. /\ l.held = k.held /\ ReadyTasks(l) = ReadyTasks(k) \ {t}
      /\ ToSet(l.events[<<q, "receive">>]) = ToSet(k.events[<<q, "receive">>]) \cup {t}
  BY <1>2, <1>3 DEF Placed
<1>10. ASSUME NEW r \in Mutexes
       PROVE  /\ <<r, "receive">> \in Events
              /\ r # q => l.events[<<r, "receive">>] = k.events[<<r, "receive">>]
              /\ \A u \in ToSet(k.events[<<r, "receive">>]) :
                   u \in Tasks /\ l.priority[u] = k.priority[u]
  <2>1. <<r, "receive">> \in Events BY HandlesAre DEF Events, Sides
  <2>2. k.events[<<r, "receive">>] \in Seq(Task) BY <1>2, <2>1 DEF KernelInv, TypeOK, Kernels
  <2>3. \A u \in ToSet(k.events[<<r, "receive">>]) : u \in Tasks
    BY <2>2, ToSetOf, PrioritiesAre
  <2>4. r # q => l.events[<<r, "receive">>] = k.events[<<r, "receive">>]
    BY <1>2, <1>3, <2>1 DEF Placed
  <2> QED BY <1>7, <2>1, <2>3, <2>4 DEF Listed
<1>11. ASSUME NEW r \in Mutexes
       PROVE  /\ queue[r].holder = None <=> queue[r].waiting = 1
              /\ queue[r].holder # None =>
                   /\ \A u \in ToSet(l.events[<<r, "receive">>]) :
                        l.priority[u] <= l.priority[queue[r].holder]
                   /\ \A s \in Mutexes : queue[s].holder = queue[r].holder =>
                        s = r \/ BasePriority[queue[r].holder] = Highest
  <2>1. /\ queue[r].holder = None <=> queue[r].waiting = 1
        /\ queue[r].holder # None =>
             /\ \A u \in ToSet(k.events[<<r, "receive">>]) :
                  k.priority[u] <= k.priority[queue[r].holder]
             /\ \A s \in Mutexes : queue[s].holder = queue[r].holder =>
                  s = r \/ BasePriority[queue[r].holder] = Highest
    BY <1>2 DEF KernelInv, MutexInv
  <2>2. ASSUME queue[r].holder # None, NEW u \in ToSet(l.events[<<r, "receive">>])
        PROVE  l.priority[u] <= l.priority[queue[r].holder]
    <3>1. PICK g : g = queue[r].holder OBVIOUS
    <3>2. g \in Tasks BY <2>2, <3>1, HolderIs
    <3>3. k.priority[g] <= l.priority[g] BY <1>6, <1>7, <1>8, <3>2
    <3>4. CASE u \in ToSet(k.events[<<r, "receive">>])
      <4>1. u \in Tasks /\ l.priority[u] = k.priority[u] BY <1>10, <3>4
      <4>2. k.priority[u] <= k.priority[g] BY <2>1, <2>2, <3>1, <3>4
      <4> QED BY <1>6, <3>1, <3>2, <3>3, <4>1, <4>2
    <3>5. CASE u \notin ToSet(k.events[<<r, "receive">>])
      <4>1. r = q /\ u = t BY <1>9, <1>10, <2>2, <3>5
      <4>2. l.priority[u] = k.priority[t] BY <1>4, <1>7, <4>1
      <4> QED BY <1>1, <1>8, <4>1, <4>2
    <3> QED BY <3>4, <3>5
  <2> QED BY <2>1, <2>2
<1>12. ASSUME NEW r \in Mutexes, queue[r].holder = None,
              ToSet(l.events[<<r, "receive">>]) # {}
       PROVE  \E u \in Task :
                /\ u \in ReadyTasks(l) /\ call'[u].pc = "test"
                /\ Waiters(call'[u]) = <<r, "receive">>
                /\ \A v \in ToSet(l.events[<<r, "receive">>]) :
                     l.priority[v] <= l.priority[u]
  <2>1. r # q BY <1>1, <1>4, <1>12
  <2>2. l.events[<<r, "receive">>] = k.events[<<r, "receive">>] BY <1>10, <2>1
  <2>3. PICK u \in Task :
          /\ u \in ReadyTasks(k) /\ call[u].pc = "test"
          /\ Waiters(call[u]) = <<r, "receive">>
          /\ \A v \in ToSet(k.events[<<r, "receive">>]) : k.priority[v] <= k.priority[u]
    BY <1>2, <1>12, <2>2 DEF KernelInv, MutexInv
  <2>4. u # t /\ u \in Tasks /\ l.priority[u] = k.priority[u]
    BY <1>7, <2>3, PrioritiesAre
  <2>5. u \in ReadyTasks(l) /\ call'[u].pc = "test" /\ Waiters(call'[u]) = <<r, "receive">>
    BY <1>9, <2>3, <2>4 DEF Others, Waiters
  <2>6. \A v \in ToSet(k.events[<<r, "receive">>]) : l.priority[v] <= l.priority[u]
    BY <1>7, <1>10, <2>3, <2>4
  <2> QED BY <2>2, <2>5, <2>6
<1>13. ASSUME NEW u \in Tasks
       PROVE  /\ l.priority[u] >= BasePriority[u]
              /\ l.priority[u] # BasePriority[u] =>
                   \E r \in Mutexes :
                     /\ queue[r].holder = u
                     /\ \E v \in ToSet(l.events[<<r, "receive">>]) :
                          l.priority[v] = l.priority[u]
  <2>1. k.priority[u] >= BasePriority[u] BY <1>2 DEF KernelInv, MutexInv
  <2>2. k.priority[u] <= l.priority[u] BY <1>6, <1>7, <1>8
  <2>3. CASE l.priority[u] = k.priority[u]
    <3>1. ASSUME l.priority[u] # BasePriority[u]
          PROVE  \E r \in Mutexes :
                   /\ queue[r].holder = u
                   /\ \E v \in ToSet(l.events[<<r, "receive">>]) :
                        l.priority[v] = l.priority[u]
      <4>1. PICK r \in Mutexes :
              /\ queue[r].holder = u
              /\ \E v \in ToSet(k.events[<<r, "receive">>]) : k.priority[v] = k.priority[u]
        <5>1. MutexInv /\ k.priority[u] # BasePriority[u] BY <1>2, <2>3, <3>1 DEF KernelInv
        <5> QED BY <1>2, <5>1 DEF MutexInv
      <4>2. PICK v \in ToSet(k.events[<<r, "receive">>]) : k.priority[v] = k.priority[u]
        BY <4>1
      <4>3. v \in ToSet(l.events[<<r, "receive">>]) /\ l.priority[v] = k.priority[v]
        BY <1>9, <1>10
      <4> QED BY <2>3, <4>1, <4>2, <4>3
    <3> QED BY <1>6, <2>1, <2>3, <3>1
  <2>4. CASE l.priority[u] # k.priority[u]
    <3>1. u = h /\ l.priority[u] = k.priority[t] BY <1>7, <2>4
    <3>2. l.priority[t] = k.priority[t] /\ t \in ToSet(l.events[<<q, "receive">>])
      BY <1>4, <1>7, <1>9
    <3> QED BY <1>1, <1>6, <2>1, <2>2, <3>1, <3>2
  <2> QED BY <2>3, <2>4
<1>14. \A u \in Tasks : l.held[u] = Cardinality(Held(u)')
  <2>1. \A u \in Tasks : Held(u)' = Held(u) BY DEF Held
  <2>2. \A u \in Tasks : k.held[u] = Cardinality(Held(u)) BY <1>2 DEF KernelInv, MutexInv
  <2> QED BY <1>9, <2>1, <2>2
<1> QED BY <1>3, <1>11, <1>12, <1>13, <1>14 DEF MutexInv

LEMMA PlaceStep ==
  ASSUME KernelInv, NEW t \in Task, Place(t)
  PROVE  KernelInv' /\ Calm
<1>1. /\ kernel.current = t /\ call[t].pc = "look" /\ Goto(t, "unlock_blocked")
      /\ UNCHANGED <<queue, left, program>>
  BY DEF Place, At
<1>2. call[t].pc \in Critical /\ call[t].pc \notin Gone /\ call[t].pc # "test"
  BY <1>1 DEF Critical, Gone
<1>3. /\ kernel.suspended /\ ~Listed(kernel, t)
      /\ \A u \in Task : call[u].pc \in Critical <=> u = t
  BY <1>1, <1>2, Busy
<1>4. PICK q : q = call[t].q OBVIOUS
<1>5. PICK list : list = Waiters(call[t]) OBVIOUS
<1>6. /\ Placed(t, q, list) /\ list \in Events
      /\ q \in Mutexes => call[t].op = "receive" /\ queue[q].holder # None
  BY <1>4, <1>5, PlacedIs
<1>7. /\ OneCall(t, call'[t]) /\ call'[t].pc = "unlock_blocked" /\ call'[t].op = call[t].op
      /\ call'[t].q = call[t].q /\ call'[t].xTicksToWait = call[t].xTicksToWait
  BY <1>1, GotoIs DEF KernelInv, PCs, Critical
<1>8. Others(t) /\ call' \in [Task -> Calls] BY <1>7 DEF OneCall
<1>9. TypeOK' BY <1>1, <1>6, <1>8 DEF KernelInv, TypeOK, Placed
<1>10. ControlInv'
  <2>1. \A u \in Task : call'[u].pc \in Critical <=> u = t
    BY <1>3, <1>7, <1>8 DEF Others, Critical
  <2>2. ~kernel'.pendsv BY <1>6 DEF KernelInv, ControlInv, Placed
  <2>3. call'[t].pc \in Gone BY <1>7 DEF Gone
  <2>4. kernel'.suspended /\ kernel'.current = t BY <1>3, <1>6 DEF Placed
  <2> QED BY <2>1, <2>2, <2>3, <2>4, ControlSuspended
<1>11. \A u \in Task : \A other \in Events :
         u # t /\ u \in ToSet(kernel'.events[other]) => u \in ToSet(kernel.events[other])
  BY <1>6 DEF Placed
<1>12. CallsInv'
  <2>1. Sound(call'[t]) /\ MayCall(kernel, t)
    BY <1>1, <1>7 DEF Sound, KernelInv, CallsInv, MayCall
  <2>2. \A other \in Events : t \in ToSet(kernel'.events[other]) => other = list
    BY <1>3, <1>6 DEF Placed, Listed
  <2>3. kernel'.held = kernel.held BY <1>6 DEF Placed
  <2>4. Waiters(call'[t]) = list BY <1>5, <1>7 DEF Waiters
  <2>5. CallOK(kernel', call'[t], t) BY <1>7, <2>1, <2>2, <2>3, <2>4 DEF CallOK, MayCall
  <2> QED BY <1>8, <1>11, <2>3, <2>5, CallsKept DEF KernelInv
<1>13. LocksInv'
  <2>1. call'[t].pc \in Locking /\ call[t].pc \in Locking BY <1>1, <1>7 DEF Locking
  <2> QED BY <1>1, <1>7, <1>8, <2>1, LocksKept DEF KernelInv
<1>14. MutexInv'
  <2>1. CASE q \in Mutexes
    <3>1. list = <<q, "receive">> BY <1>4, <1>5, <1>6, <2>1 DEF Waiters
    <3> QED BY <1>1, <1>2, <1>3, <1>6, <1>8, <2>1, <3>1, PlaceMutex
  <2>2. CASE q \notin Mutexes
    <3>1. kernel'.priority = kernel.priority /\ kernel'.held = kernel.held
      BY <1>6, <2>2 DEF Placed
    <3>2. ASSUME NEW r \in Mutexes
          PROVE  kernel'.events[<<r, "receive">>] = kernel.events[<<r, "receive">>]
      <4>1. <<r, "receive">> \in Events BY HandlesAre DEF Events, Sides
      <4>2. list[1] = q BY <1>4, <1>5 DEF Waiters
      <4>3. <<r, "receive">> # list BY <2>2, <4>2
      <4> QED BY <1>6, <4>1, <4>3 DEF Placed
    <3>3. \A u \in Task : u \in ReadyTasks(kernel) /\ call[u].pc = "test" =>
            /\ u \in ReadyTasks(kernel') /\ call'[u].pc = "test"
            /\ call'[u].q = call[u].q /\ call'[u].op = call[u].op
      BY <1>2, <1>6, <1>8 DEF Others, Placed
    <3> QED BY <1>1, <3>1, <3>2, <3>3, MutexKept DEF KernelInv
  <2> QED BY <2>1, <2>2
<1>15. ListsInv(kernel') BY <1>6 DEF Placed
<1>16. Calm
  <2>1. ASSUME NEW r \in Handles, NEW op \in Sides
        PROVE  \/ Room(r, op) = 0
               \/ ToSet(kernel'.events[<<r, op>>]) \subseteq ToSet(kernel.events[<<r, op>>])
    <3>1. <<r, op>> \in Events BY DEF Events
    <3>2. CASE <<r, op>> # list BY <1>6, <3>1, <3>2 DEF Placed
    <3>3. CASE <<r, op>> = list
      <4>1. call[t].q = r /\ call[t].op = op BY <1>5, <3>3 DEF Waiters
      <4>2. Blocked(call[t]) BY DEF Place
      <4> QED BY <4>1, <4>2, BlockedIs DEF KernelInv
    <3> QED BY <3>2, <3>3
  <2> QED BY <1>1, <1>7, <1>8, <2>1, CalmIs DEF KernelInv
<1> QED BY <1>9, <1>10, <1>12, <1>13, <1>14, <1>15, <1>16 DEF KernelInv

LEMMA AfterIs ==
  /\ DOMAIN After = {"unlock", "unlock_blocked", "unlock_late"}
  /\ After["unlock"] = "resume" /\ After["unlock_blocked"] = "resume_blocked"
  /\ After["unlock_late"] = "resume_late"
BY DEF After

\* What prvUnlockQueue makes of the kernel: with no more than one list drained.
Unlocked(t) ==
  LET q == call[t].q
      list == <<q, "receive">>
  IN  /\ q \in Handles /\ list \in Events /\ queue[q].txLock \in Nat
      /\ queue[q].rxLock = queueLOCKED_UNMODIFIED
      /\ Drained(kernel', kernel, list)
      /\ kernel'.events[list] = <<>>
           \/ Len(kernel'.events[list]) + queue[q].txLock = Len(kernel.events[list])
      /\ q \in Mutexes => kernel' = kernel

LEMMA UnlockedIs ==
  ASSUME KernelInv, NEW t \in Task, prvUnlockQueue(t)
  PROVE  Unlocked(t)
<1>1. PICK q : q = call[t].q OBVIOUS
<1>2. /\ kernel.current = t /\ call[t].pc \in {"unlock", "unlock_blocked", "unlock_late"}
      /\ kernel' = Drain(Drain(kernel, <<q, "receive">>, queue[q].txLock), <<q, "send">>,
                         queue[q].rxLock)
  BY <1>1, AfterIs DEF prvUnlockQueue, At
<1>3. call[t].pc \in Critical /\ call[t].pc \in Locking BY <1>2 DEF Critical, Locking
<1>4. kernel.suspended /\ kernel \in Kernels /\ ListsInv(kernel)
  BY <1>2, <1>3, Busy DEF KernelInv, TypeOK
<1>5. q \in Handles BY <1>1, <1>2 DEF KernelInv, CallsInv
<1>6. <<q, "receive">> \in Events /\ <<q, "send">> \in Events BY <1>5 DEF Events, Sides
<1>7. /\ queue[q].txLock \in Nat /\ queue[q].rxLock = queueLOCKED_UNMODIFIED
      /\ q \in Mutexes => queue[q].txLock = 0
  <2>1. queue[q].txLock >= 0 /\ queue[q].rxLock = queueLOCKED_UNMODIFIED
        /\ (q \in Mutexes => queue[q].txLock <= 0)
    BY <1>1, <1>3, <1>5 DEF KernelInv, LocksInv
  <2>2. queue[q].txLock \in Nat \cup {-1}
    BY <1>5 DEF KernelInv, TypeOK, QueueType, queueUNLOCKED
  <2> QED BY <2>1, <2>2
<1>8. PICK lock \in Nat : lock = queue[q].txLock BY <1>7
<1>9. PICK m : m = Drain(kernel, <<q, "receive">>, lock) OBVIOUS
<1>10. /\ Drained(m, kernel, <<q, "receive">>)
       /\ \/ m.events[<<q, "receive">>] = <<>>
          \/ Len(m.events[<<q, "receive">>]) + lock = Len(kernel.events[<<q, "receive">>])
       /\ lock = 0 => m = kernel
  BY <1>4, <1>6, <1>8, <1>9, DrainIs
<1>11. m \in Kernels /\ ListsInv(m) /\ m.suspended BY <1>10 DEF Drained
<1>12. kernel' = m
  <2>1. PICK none \in Nat : none = 0 OBVIOUS
  <2>2. kernel' = Drain(m, <<q, "send">>, none)
    BY <1>2, <1>7, <1>8, <1>9, <2>1 DEF queueLOCKED_UNMODIFIED
  <2>3. none = 0 => Drain(m, <<q, "send">>, none) = m BY <1>6, <1>11, <2>1, DrainIs
  <2> QED BY <2>1, <2>2, <2>3
<1> QED BY <1>1, <1>5, <1>6, <1>7, <1>8, <1>10, <1>12 DEF Unlocked

LEMMA UnlockStep ==
  ASSUME KernelInv, NEW t \in Task, prvUnlockQueue(t)
  PROVE  KernelInv'
<1>1. PICK q : q = call[t].q OBVIOUS
<1>2. PICK list : list = <<q, "receive">> OBVIOUS
<1>3. /\ kernel.current = t /\ call[t].pc \in {"unlock", "unlock_blocked", "unlock_late"}
      /\ Goto(t, After[call[t].pc]) /\ UNCHANGED <<left, program>>
      /\ queue' = [queue EXCEPT ![q].txLock = queueUNLOCKED, ![q].rxLock = queueUNLOCKED]
  BY <1>1, AfterIs DEF prvUnlockQueue, At
<1>4. /\ Drained(kernel', kernel, list) /\ q \in Handles
      /\ q \in Mutexes => kernel' = kernel
  BY <1>1, <1>2, UnlockedIs DEF Unlocked
<1>5. call[t].pc \in Critical /\ call[t].pc \in Locking /\ call[t].pc # "test"
  BY <1>3 DEF Critical, Locking
<1>6. /\ kernel.suspended /\ \A u \in Task : call[u].pc \in Critical <=> u = t
      /\ call[t].pc \notin Gone => Running(kernel)
  BY <1>3, <1>5, Busy
<1>7. /\ OneCall(t, call'[t]) /\ call'[t].pc \in {"resume", "resume_blocked", "resume_late"}
      /\ call[t].pc = "unlock_blocked" <=> call'[t].pc = "resume_blocked"
      /\ call'[t].op = call[t].op /\ call'[t].q = call[t].q
      /\ call'[t].xTicksToWait = call[t].xTicksToWait
  <2>1. PICK pc : pc = After[call[t].pc] OBVIOUS
  <2>2. /\ pc \in {"resume", "resume_blocked", "resume_late"}
        /\ call[t].pc = "unlock_blocked" <=> pc = "resume_blocked"
    BY <1>3, <2>1, AfterIs
  <2>3. pc \in PCs BY <2>2 DEF PCs, Critical
  <2>4. Goto(t, pc) BY <1>3, <2>1
  <2> QED BY <2>2, <2>3, <2>4, GotoIs DEF KernelInv
<1>8. Others(t) /\ call' \in [Task -> Calls] BY <1>7 DEF OneCall
<1>9. PICK s : s = [queue[q] EXCEPT !.txLock = -1, !.rxLock = -1] OBVIOUS
<1>10. /\ s \in QueueType(q) /\ s.txLock = queueUNLOCKED /\ s.rxLock = queueUNLOCKED
       /\ s.holder = queue[q].holder /\ s.waiting = queue[q].waiting
  <2>1. queue[q] \in QueueType(q) BY <1>4 DEF KernelInv, TypeOK
  <2> QED BY <1>9, <2>1 DEF QueueType, queueUNLOCKED
<1>11. OneQueue(q, s)
  <2>1. queue' = [queue EXCEPT ![q] = s] BY <1>3, <1>9 DEF queueUNLOCKED
  <2> QED BY <1>4, <1>10, <2>1, OneQueueIs DEF KernelInv
<1>12. TypeOK' BY <1>3, <1>4, <1>8, <1>11 DEF KernelInv, TypeOK, Drained, OneQueue
<1>13. ControlInv'
  <2>1. \A u \in Task : call'[u].pc \in Critical <=> u = t
    BY <1>6, <1>7, <1>8 DEF Others, Critical
  <2>2. ~kernel'.pendsv /\ kernel'.suspended /\ kernel'.current = t
    BY <1>3, <1>4 DEF KernelInv, ControlInv, Drained
  <2>3. Running(kernel) => Running(kernel') BY <1>4 DEF Running, Drained
  <2>4. Running(kernel') \/ call'[t].pc \in Gone
    <3>1. CASE call[t].pc = "unlock_blocked" BY <1>7, <3>1 DEF Gone
    <3>2. CASE call[t].pc # "unlock_blocked"
      <4>1. call[t].pc \notin Gone BY <1>3, <3>2 DEF Gone
      <4> QED BY <1>6, <2>3, <4>1
    <3> QED BY <3>1, <3>2
  <2> QED BY <2>1, <2>2, <2>4, ControlSuspended
<1>14. \A u : \A other \in Events :
         u \in ToSet(kernel'.events[other]) => u \in ToSet(kernel.events[other])
  BY <1>4 DEF Drained
<1>15. CallsInv'
  <2>1. Sound(call'[t]) /\ MayCall(kernel, t)
    BY <1>3, <1>7 DEF Sound, KernelInv, CallsInv, MayCall
  <2>2. kernel'.held = kernel.held BY <1>4 DEF Drained
  <2>3. ASSUME NEW other \in Events, t \in ToSet(kernel'.events[other])
        PROVE  other = Waiters(call'[t]) /\ call'[t].pc = "resume_blocked"
    <3>1. Waiting(t, other) BY <1>14, <2>3 DEF Waiting
    <3>2. other = Waiters(call[t]) /\ call[t].pc \in {"test", "unlock_blocked", "resume_blocked"}
      BY <3>1 DEF KernelInv, CallsInv
    <3> QED BY <1>3, <1>7, <3>2 DEF Waiters
  <2>4. CallOK(kernel', call'[t], t) BY <2>1, <2>2, <2>3 DEF CallOK, MayCall
  <2> QED BY <1>8, <1>14, <2>2, <2>4, CallsKept DEF KernelInv
<1>16. LocksInv'
  <2>1. \A u \in Task : call'[u].pc \notin Locking
    <3>1. call'[t].pc \notin Locking BY <1>7 DEF Locking
    <3> QED BY <1>6, <1>8, <3>1, LockingIs DEF Others
  <2>2. \A r \in Handles : r # q =>
          /\ queue[r].txLock = queueUNLOCKED /\ queue[r].rxLock = queueUNLOCKED
    <3>1. \A r \in Handles : r # q => ~(\E u \in Task : call[u].q = r /\ call[u].pc \in Locking)
      BY <1>1, <1>6, LockingIs
    <3> QED BY <3>1 DEF KernelInv, LocksInv
  <2>3. \A r \in Handles : queue'[r].txLock = queueUNLOCKED /\ queue'[r].rxLock = queueUNLOCKED
    BY <1>10, <1>11, <2>2 DEF OneQueue
  <2> QED BY <2>1, <2>3 DEF LocksInv, queueUNLOCKED
<1>17. MutexInv'
  <2>1. \A r \in Mutexes : queue'[r].holder = queue[r].holder
                             /\ queue'[r].waiting = queue[r].waiting
    BY <1>10, <1>11, HandlesAre DEF OneQueue
  <2>2. ASSUME NEW r \in Mutexes
        PROVE  kernel'.events[<<r, "receive">>] = kernel.events[<<r, "receive">>]
    <3>1. CASE r = q BY <1>4, <3>1
    <3>2. CASE r # q
      <4>1. <<r, "receive">> \in Events /\ <<r, "receive">> # list
        BY <1>2, <3>2, HandlesAre DEF Events, Sides
      <4> QED BY <1>4, <4>1 DEF Drained
    <3> QED BY <3>1, <3>2
  <2>3. \A u \in Task : u \in ReadyTasks(kernel) /\ call[u].pc = "test" =>
          /\ u \in ReadyTasks(kernel') /\ call'[u].pc = "test"
          /\ call'[u].q = call[u].q /\ call'[u].op = call[u].op
    BY <1>4, <1>5, <1>8 DEF Others, Drained
  <2>4. kernel'.priority = kernel.priority /\ kernel'.held = kernel.held
    BY <1>4 DEF Drained
  <2> QED BY <2>1, <2>2, <2>3, <2>4, MutexKept DEF KernelInv
<1>18. ListsInv(kernel') BY <1>4 DEF Drained
<1> QED BY <1>12, <1>13, <1>15, <1>16, <1>17, <1>18 DEF KernelInv

LEMMA DelayStep ==
  ASSUME KernelInv, NEW t \in Task, vTaskDelay(t)
  PROVE  KernelInv' /\ Calm
<1>1. PICK c \in Asked(t) :
        /\ c.op = "delay"
        /\ kernel' = Delay([kernel EXCEPT !.suspended = TRUE], c.xTicksToWait, FALSE)
        /\ left' = [left EXCEPT ![t] = c.xTicksToWait]
        /\ call' = [call EXCEPT ![t] = [c EXCEPT !.pc = "resume_delay"]]
        /\ UNCHANGED <<queue, program>>
  BY DEF vTaskDelay
<1>2. Asks(t, c) /\ kernel.current = t /\ call[t].pc \notin Critical BY AskedIs
<1>3. /\ ~kernel.suspended /\ t \in ReadyTasks(kernel) /\ ~Listed(kernel, t)
      /\ \A u \in Task : call[u].pc \notin Critical
  BY <1>2, Free
<1>4. c \in Calls /\ c.q = None /\ call[t].pc = "app" /\ MayCall(kernel, t)
  BY <1>1, <1>2, HandlesAre DEF Asks, Sides
<1>5. c.xTicksToWait \in Ticks BY <1>4 DEF Calls
<1>6. kernel \in Kernels /\ ListsInv(kernel) BY DEF KernelInv, TypeOK
<1>7. /\ kernel' \in Kernels /\ ListsInv(kernel')
      /\ ReadyTasks(kernel') = ReadyTasks(kernel) \ {t}
      /\ kernel'.current = t /\ kernel'.priority = kernel.priority
      /\ kernel'.held = kernel.held /\ kernel'.suspended /\ kernel'.ticks = kernel.ticks
      /\ kernel'.pendsv = kernel.pendsv /\ kernel'.events = kernel.events
  BY <1>1, <1>2, <1>3, <1>5, <1>6, TaskDelayIs
<1>8. PICK d : d = [c EXCEPT !.pc = "resume_delay"] OBVIOUS
<1>9. d \in Calls /\ d.pc = "resume_delay" /\ d.op = "delay" /\ d.q = None
  BY <1>1, <1>4, <1>8 DEF Calls, Critical
<1>10. OneCall(t, d)
  <2>1. call' = [call EXCEPT ![t] = d] BY <1>1, <1>8
  <2> QED BY <1>9, <2>1, OneCallIs DEF KernelInv
<1>11. Others(t) /\ call' \in [Task -> Calls] /\ call'[t] = d BY <1>10 DEF OneCall
<1>12. TypeOK'
  <2>1. left' \in [Task -> Ticks] BY <1>1, <1>5 DEF KernelInv, TypeOK
  <2> QED BY <1>1, <1>7, <1>11, <2>1 DEF KernelInv, TypeOK
<1>13. ControlInv'
  <2>1. \A u \in Task : call'[u].pc \in Critical <=> u = t
    BY <1>3, <1>9, <1>11 DEF Others, Critical
  <2>2. ~kernel'.pendsv BY <1>7 DEF KernelInv, ControlInv
  <2>3. call'[t].pc \in Gone BY <1>9, <1>11 DEF Gone
  <2> QED BY <1>7, <2>1, <2>2, <2>3, ControlSuspended
<1>14. CallsInv'
  <2>1. Sound(d) BY <1>9, HandlesAre DEF Sound, Handles
  <2>2. MayCall(kernel, t) BY <1>4
  <2>3. CallOK(kernel', d, t) BY <1>3, <1>7, <2>1, <2>2 DEF CallOK, MayCall, Listed
  <2> QED BY <1>7, <1>11, <2>3, CallsKept DEF KernelInv
<1>15. LocksInv'
  <2>1. call'[t].pc \notin Locking /\ call[t].pc \notin Locking
    BY <1>4, <1>9, <1>11 DEF Locking
  <2> QED BY <1>1, <1>11, <2>1, LocksKept DEF KernelInv
<1>16. MutexInv'
  <2>1. \A u \in Task : u \in ReadyTasks(kernel) /\ call[u].pc = "test" =>
          /\ u \in ReadyTasks(kernel') /\ call'[u].pc = "test"
          /\ call'[u].q = call[u].q /\ call'[u].op = call[u].op
    BY <1>4, <1>7, <1>11 DEF Others
  <2> QED BY <1>1, <1>7, <2>1, MutexKept DEF KernelInv
<1>17. Calm BY <1>1, <1>4, <1>7, <1>11, CalmIs DEF KernelInv
<1> QED BY <1>7, <1>12, <1>13, <1>14, <1>15, <1>16, <1>17 DEF KernelInv

-----------------------------------------------------------------------------
(* The ticks that pass *)

LEMMA LeftIs ==
  ASSUME NEW k \in Kernels, NEW l \in Kernels, left \in [Task -> Ticks]
  PROVE  Left(k, l) \in [Task -> Ticks]
<1>1. ASSUME NEW t \in Task
      PROVE  Max({0, left[t] - Elapsed(k.tick, l.tick)}) \in Ticks
  <2>1. PICK max \in Nat : max = portMAX_DELAY BY TickAssumption
  <2>2. k.tick \in Int /\ l.tick \in Int BY TicksAre DEF Kernels
  <2>3. PICK gone \in Ticks : gone = Elapsed(k.tick, l.tick) BY <2>2, TicksAre
  <2>4. left[t] \in 0 .. max /\ gone \in 0 .. max BY <2>1, <2>3 DEF Ticks
  <2>5. PICK rest \in Int : rest = left[t] - gone BY <2>4
  <2>6. rest <= max BY <2>4, <2>5
  <2>7. {0, rest} \in SUBSET Int /\ {0, rest} # {} OBVIOUS
  <2>8. IsFiniteSet({0, rest})
    <3>1. IsFiniteSet({}) BY FS_EmptySet
    <3>2. IsFiniteSet({} \cup {0}) BY <3>1, FS_AddElement
    <3>3. IsFiniteSet(({} \cup {0}) \cup {rest}) BY <3>2, FS_AddElement
    <3>4. ({} \cup {0}) \cup {rest} = {0, rest} OBVIOUS
    <3> QED BY <3>3, <3>4
  <2>9. PICK m : m = Max({0, rest}) OBVIOUS
  <2>10. m \in {0, rest} /\ 0 <= m BY <2>7, <2>8, <2>9, MaxIs
  <2>11. m \in 0 .. max BY <2>1, <2>5, <2>6, <2>10
  <2> QED BY <2>1, <2>3, <2>5, <2>9, <2>11 DEF Ticks
<1> QED BY <1>1 DEF Left

LEMMA WrapIs ==
  ASSUME NEW k, NEW l, NEW c \in [Task -> Calls]
  PROVE  LET d == WrapSeen(k, l, c)
         IN  /\ d \in [Task -> Calls]
             /\ \A u \in Task : /\ d[u].pc = c[u].pc /\ d[u].op = c[u].op /\ d[u].q = c[u].q
                                /\ d[u].xTicksToWait = c[u].xTicksToWait
<1>1. PICK d : d = WrapSeen(k, l, c) OBVIOUS
<1>2. d = [t \in Task |->
             IF ~c[t].set \/ l.tick >= k.tick THEN c[t]
             ELSE [c[t] EXCEPT !.wrapped = TRUE, !.since = IF c[t].wrapped THEN 0 ELSE @]]
  BY <1>1 DEF WrapSeen
<1>3. ASSUME NEW u \in Task
      PROVE  /\ d[u] \in Calls /\ d[u].pc = c[u].pc /\ d[u].op = c[u].op /\ d[u].q = c[u].q
             /\ d[u].xTicksToWait = c[u].xTicksToWait
  <2>1. PICK r \in Calls : r = c[u] OBVIOUS
  <2>2. 0 \in Ticks /\ r.since \in Ticks BY TicksAre DEF Calls
  <2>3. PICK since \in Ticks : since = IF r.wrapped THEN 0 ELSE r.since BY <2>2
  <2>4. PICK e : e = [r EXCEPT !.wrapped = TRUE, !.since = since] OBVIOUS
  <2>5. /\ e \in Calls /\ e.pc = r.pc /\ e.op = r.op /\ e.q = r.q
        /\ e.xTicksToWait = r.xTicksToWait
    BY <2>4 DEF Calls
  <2>6. d[u] = IF ~r.set \/ l.tick >= k.tick THEN r ELSE e BY <1>2, <2>1, <2>3, <2>4 DEF Calls
  <2> QED BY <2>1, <2>5, <2>6
<1>4. DOMAIN d = Task BY <1>2
<1>5. d \in [Task -> Calls]
  <2>1. d = [u \in Task |-> d[u]] BY <1>2
  <2> QED BY <1>3, <2>1
<1> QED BY <1>1, <1>3, <1>5

-----------------------------------------------------------------------------
(* Steps that end in a context switch, or could *)

\* The scheduler has chosen who runs.
Switched(l, k) ==
  /\ l \in Kernels /\ ListsInv(l) /\ ReadyTasks(l) = ReadyTasks(k) /\ Running(l)
  /\ ~l.suspended /\ l.pending = k.pending /\ l.ticks = k.ticks /\ ~l.pendsv
  /\ l.priority = k.priority /\ l.held = k.held /\ l.events = k.events

LEMMA SwitchIs ==
  ASSUME NEW k \in Kernels, ListsInv(k), ~k.suspended, k.pendsv \/ Running(k)
  PROVE  Switched(PendSV(k), k)
<1>1. PICK l : l = PendSV(k) OBVIOUS
<1>2. /\ l \in Kernels /\ ListsInv(l) /\ ReadyTasks(l) = ReadyTasks(k)
      /\ Steady(l, k) /\ ~l.pendsv
      /\ IF k.suspended THEN l.current = k.current ELSE Running(l)
  BY <1>1, PendSVIs
<1> QED BY <1>1, <1>2 DEF Switched, Steady

\* A switch is requested, or not.
LEMMA RequestedIs ==
  ASSUME NEW k \in Kernels, ListsInv(k), NEW pendsv \in BOOLEAN
  PROVE  LET l == [k EXCEPT !.pendsv = pendsv]
         IN  /\ l \in Kernels /\ ListsInv(l) /\ Alike(l, k) /\ l.pendsv = pendsv
             /\ l.current = k.current /\ l.held = k.held /\ l.suspended = k.suspended
             /\ l.ticks = k.ticks /\ ReadyTasks(l) = ReadyTasks(k)
             /\ Running(k) => Running(l)
<1>1. PICK l : l = [k EXCEPT !.pendsv = pendsv] OBVIOUS
<1>2. l \in Kernels BY <1>1 DEF Kernels
<1>3. /\ Alike(l, k) /\ l.pendsv = pendsv /\ l.current = k.current /\ l.held = k.held
      /\ l.suspended = k.suspended /\ l.ticks = k.ticks
  BY <1>1 DEF Kernels, Alike
<1>4. ListsInv(l) /\ ReadyTasks(l) = ReadyTasks(k) BY <1>3, AlikeLists
<1>5. Running(k) => Running(l) BY <1>3, <1>4 DEF Running, Alike
<1> QED BY <1>1, <1>2, <1>3, <1>4, <1>5

LEMMA ResumeStep ==
  ASSUME KernelInv, NEW t \in Task, Resume(t)
  PROVE  KernelInv' /\ Calm
<1>1. PICK next : next = [resume |-> "test", resume_blocked |-> "test", resume_late |-> "last",
                          resume_delay |-> "slept"]
  OBVIOUS
<1>2. /\ DOMAIN next = {"resume", "resume_blocked", "resume_late", "resume_delay"}
      /\ next["resume"] = "test" /\ next["resume_blocked"] = "test"
      /\ next["resume_late"] = "last" /\ next["resume_delay"] = "slept"
  BY <1>1
<1>3. PICK was : was = call[t].pc OBVIOUS
<1>4. PICK pc : pc = next[was] OBVIOUS
<1>5. PICK out : out = xTaskResumeAll(kernel) OBVIOUS
<1>6. PICK mid : mid = [call EXCEPT ![t].pc = pc] OBVIOUS
<1>7. /\ kernel.current = t /\ was \in DOMAIN next
      /\ kernel' = PendSV([out EXCEPT
                             !.pendsv = @ \/ was \in {"resume_blocked", "resume_delay"}])
      /\ call' = WrapSeen(kernel, out, mid) /\ left' = Left(kernel, out)
      /\ UNCHANGED <<queue, program>>
  BY <1>1, <1>3, <1>4, <1>5, <1>6 DEF Resume, At
<1> HIDE <1>1
<1>8. /\ was \in {"resume", "resume_blocked", "resume_late", "resume_delay"}
      /\ pc \in {"test", "last", "slept"}
      /\ was \in {"resume", "resume_blocked"} <=> pc = "test"
      /\ was = "resume_delay" <=> pc = "slept"
  BY <1>2, <1>4, <1>7
<1>9. /\ was \in Critical /\ was \notin Locking /\ was \notin {"app", "test", "slept"}
      /\ was \in Gone <=> was \in {"resume_blocked", "resume_delay"}
      /\ pc \notin Critical /\ pc \notin Locking
  BY <1>8 DEF Critical, Locking, Gone
<1>10. /\ \A u \in Task : call[u].pc \in Critical <=> u = t
       /\ was \notin Gone => Running(kernel)
  BY <1>3, <1>7, <1>9, Busy
<1>11. kernel \in Kernels /\ ListsInv(kernel) BY DEF KernelInv, TypeOK
<1>12. Resumed(out, kernel) BY <1>5, <1>11, ResumeAllIs
<1>13. /\ out \in Kernels /\ ListsInv(out) /\ ~out.suspended /\ out.pending = <<>>
       /\ out.ticks = 0
  BY <1>12 DEF Resumed
<1>14. PICK pendsv \in BOOLEAN :
         pendsv = (out.pendsv \/ was \in {"resume_blocked", "resume_delay"})
  BY <1>13 DEF Kernels
<1>15. PICK m : m = [out EXCEPT !.pendsv = pendsv] OBVIOUS
<1>16. /\ m \in Kernels /\ ListsInv(m) /\ Alike(m, out) /\ m.pendsv = pendsv
       /\ m.current = out.current /\ m.held = out.held /\ ~m.suspended
       /\ m.ticks = 0 /\ ReadyTasks(m) = ReadyTasks(out) /\ (Running(out) => Running(m))
  BY <1>13, <1>15, RequestedIs
<1>17. m.pendsv \/ Running(m)
  BY <1>9, <1>10, <1>12, <1>14, <1>16 DEF Resumed
<1>18. Switched(kernel', m)
  <2>1. kernel' = PendSV(m) BY <1>7, <1>13, <1>14, <1>15 DEF Kernels
  <2> QED BY <1>16, <1>17, <2>1, SwitchIs
<1>19. /\ kernel'.priority = kernel.priority /\ kernel'.held = kernel.held
       /\ kernel'.events = out.events /\ kernel'.pending = <<>> /\ kernel'.ticks = 0
       /\ ReadyTasks(kernel) \subseteq ReadyTasks(kernel')
  BY <1>12, <1>13, <1>16, <1>18 DEF Resumed, Switched, Alike
<1>20. \A list \in Events :
         /\ ToSet(kernel'.events[list]) \subseteq ToSet(kernel.events[list])
         /\ list[1] \in Mutexes => kernel'.events[list] = kernel.events[list]
  BY <1>12, <1>19 DEF Resumed
<1>21. /\ OneCall(t, call'[t]) /\ call'[t].pc = pc /\ call'[t].op = call[t].op
       /\ call'[t].q = call[t].q /\ call'[t].xTicksToWait = call[t].xTicksToWait
  <2>1. call \in [Task -> Calls] BY DEF KernelInv, TypeOK
  <2>2. PICK r \in Calls : r = call[t] BY <2>1
  <2>3. PICK d : d = [r EXCEPT !.pc = pc] OBVIOUS
  <2>4. /\ d \in Calls /\ d.pc = pc /\ d.op = r.op /\ d.q = r.q
        /\ d.xTicksToWait = r.xTicksToWait
    BY <1>8, <2>3 DEF Calls
  <2>5. mid = [call EXCEPT ![t] = d] BY <1>6, <2>2, <2>3
  <2>6. mid \in [Task -> Calls] /\ mid[t] = d /\ \A u \in Task : u # t => mid[u] = call[u]
    BY <2>1, <2>4, <2>5
  <2>7. /\ call' \in [Task -> Calls]
        /\ \A u \in Task : /\ call'[u].pc = mid[u].pc /\ call'[u].op = mid[u].op
                           /\ call'[u].q = mid[u].q
                           /\ call'[u].xTicksToWait = mid[u].xTicksToWait
    BY <1>7, <2>6, WrapIs
  <2> QED BY <2>2, <2>4, <2>6, <2>7 DEF OneCall, Others
<1>22. Others(t) /\ call' \in [Task -> Calls] BY <1>21 DEF OneCall
<1>23. TypeOK'
  <2>1. left' \in [Task -> Ticks] BY <1>7, <1>11, <1>13, LeftIs DEF KernelInv, TypeOK
  <2> QED BY <1>7, <1>18, <1>22, <2>1 DEF KernelInv, TypeOK, Switched
<1>24. ControlInv'
  <2>1. \A u \in Task : call'[u].pc \notin Critical BY <1>9, <1>10, <1>21, <1>22 DEF Others
  <2> QED BY <1>18, <1>19, <2>1, ControlRuns DEF Switched
<1>25. CallsInv'
  <2>1. Sound(call[t]) /\ MayCall(kernel, t)
    BY <1>3, <1>9 DEF Sound, KernelInv, CallsInv, MayCall
  <2>2. Sound(call'[t]) BY <1>3, <1>8, <1>9, <1>21, <2>1 DEF Sound
  <2>3. ASSUME NEW list \in Events, t \in ToSet(kernel'.events[list])
        PROVE  list = Waiters(call'[t]) /\ call'[t].pc = "test"
    <3>1. Waiting(t, list) BY <1>20, <2>3 DEF Waiting
    <3>2. list = Waiters(call[t]) /\ was \in {"test", "unlock_blocked", "resume_blocked"}
      BY <1>3, <3>1 DEF KernelInv, CallsInv
    <3> QED BY <1>8, <1>21, <3>2 DEF Waiters
  <2>4. CallOK(kernel', call'[t], t) BY <1>19, <2>1, <2>2, <2>3 DEF CallOK, MayCall
  <2>5. \A u \in Task : \A list \in Events :
          u # t /\ u \in ToSet(kernel'.events[list]) => u \in ToSet(kernel.events[list])
    BY <1>20
  <2> QED BY <1>19, <1>22, <2>4, <2>5, CallsKept DEF KernelInv
<1>26. LocksInv' BY <1>3, <1>7, <1>9, <1>21, <1>22, LocksKept DEF KernelInv
<1>27. MutexInv'
  <2>1. ASSUME NEW r \in Mutexes
        PROVE  kernel'.events[<<r, "receive">>] = kernel.events[<<r, "receive">>]
    <3>1. <<r, "receive">> \in Events BY HandlesAre DEF Events, Sides
    <3> QED BY <1>20, <3>1
  <2>2. \A u \in Task : u \in ReadyTasks(kernel) /\ call[u].pc = "test" =>
          /\ u \in ReadyTasks(kernel') /\ call'[u].pc = "test"
          /\ call'[u].q = call[u].q /\ call'[u].op = call[u].op
    BY <1>3, <1>9, <1>19, <1>22 DEF Others
  <2> QED BY <1>7, <1>19, <2>1, <2>2, MutexKept DEF KernelInv
<1>28. ListsInv(kernel') BY <1>18 DEF Switched
<1>29. Calm
  <2>1. \A q \in Handles : \A op \in Sides : <<q, op>> \in Events BY DEF Events
  <2>2. call'[t].pc # "app" BY <1>8, <1>21
  <2> QED BY <1>7, <1>20, <1>21, <1>22, <2>1, <2>2, CalmIs DEF KernelInv
<1> QED BY <1>23, <1>24, <1>25, <1>26, <1>27, <1>28, <1>29 DEF KernelInv

-----------------------------------------------------------------------------
(* Steps that wake one task at most *)

\* The first of a list is woken, if it has one, and the scheduler has chosen who runs.
Handed(l, k, list) ==
  /\ l \in Kernels /\ ListsInv(l) /\ Running(l)
  /\ ~l.suspended /\ l.pending = k.pending /\ l.ticks = k.ticks /\ ~l.pendsv
  /\ l.priority = k.priority /\ l.held = k.held
  /\ \A other \in Events : other # list => l.events[other] = k.events[other]
  /\ ToSet(l.events[list]) \subseteq ToSet(k.events[list])
  /\ IF k.events[list] = <<>> THEN l.events[list] = <<>> /\ ReadyTasks(l) = ReadyTasks(k)
     ELSE /\ l.events[list] = Tail(k.events[list])
          /\ ReadyTasks(l) = ReadyTasks(k) \cup {k.events[list][1]}

LEMMA HandIs ==
  ASSUME NEW k \in Kernels, ListsInv(k), ~k.suspended, NEW list \in Events,
         \/ Running(k) \/ k.pendsv
         \/ k.events[list] # <<>> /\ k.priority[k.events[list][1]] > k.priority[k.current]
  PROVE  Handed(PendSV(Wake(k, list)), k, list)
<1>1. PICK m : m = Wake(k, list) OBVIOUS
<1>2. PICK l : l = PendSV(m) OBVIOUS
<1>3. CASE k.events[list] = <<>>
  <2>1. m = k BY <1>1, <1>3 DEF Wake
  <2>2. Switched(l, k) BY <1>2, <1>3, <2>1, SwitchIs
  <2> QED BY <1>1, <1>2, <1>3, <2>2 DEF Switched, Handed
<1>4. CASE k.events[list] # <<>>
  <2>1. PICK t : t = k.events[list][1] OBVIOUS
  <2>2. Woken(m, k, list) /\ m.pendsv = (k.pendsv \/ k.priority[t] > k.priority[k.current])
    BY <1>1, <1>4, <2>1, WakeIs
  <2>3. t \in Tasks /\ Lacks(Tail(k.events[list]), k.events[list], t) BY <1>4, <2>1, FirstIs
  <2>4. /\ m \in Kernels /\ ListsInv(m) /\ ~m.suspended /\ m.current = k.current
        /\ m.priority = k.priority /\ m.held = k.held /\ m.ticks = k.ticks
        /\ m.pending = k.pending /\ ReadyTasks(m) = ReadyTasks(k) \cup {t}
        /\ m.events = [k.events EXCEPT ![list] = Tail(@)]
    BY <2>1, <2>2 DEF Woken
  <2>5. m.pendsv \/ Running(m)
    <3>1. CASE k.pendsv \/ k.priority[t] > k.priority[k.current] BY <2>2, <3>1
    <3>2. CASE Running(k) /\ ~(k.priority[t] > k.priority[k.current])
      <4>1. k.priority[t] \in Int /\ k.priority[k.current] \in Int
        <5>1. k.priority \in [Tasks -> Priorities] /\ k.current \in Tasks BY DEF Kernels
        <5>2. \A p \in Priorities : p \in Int BY PrioritiesAre
        <5> QED BY <2>3, <5>1, <5>2
      <4>2. k.priority[t] <= k.priority[k.current] BY <3>2, <4>1
      <4> QED BY <2>4, <3>2, <4>2 DEF Running
    <3> QED BY <1>4, <2>1, <3>1, <3>2
  <2>6. Switched(l, m) BY <1>2, <2>4, <2>5, SwitchIs
  <2>7. k.events \in [Events -> Seq(Task)] BY DEF Kernels
  <2>8. /\ m.events[list] = Tail(k.events[list])
        /\ \A other \in Events : other # list => m.events[other] = k.events[other]
    BY <2>4, <2>7
  <2>9. ToSet(m.events[list]) \subseteq ToSet(k.events[list]) BY <2>3, <2>8 DEF Lacks
  <2> QED BY <1>1, <1>2, <1>4, <2>1, <2>4, <2>6, <2>8, <2>9 DEF Switched, Handed
<1> QED BY <1>3, <1>4

\* One message comes to a queue or leaves it.
Moved(q, op) ==
  queue'[q].waiting = IF op = "send" THEN queue[q].waiting + 1 ELSE queue[q].waiting - 1

\* A task does op on q, and one that waited to do other, if there is one, is woken.
Passes(t, q, op, other) ==
  /\ op # other /\ Others(t) /\ ~Listed(kernel, t) /\ Moved(q, op)
  /\ call[t].pc # "app" => call[t].q = q /\ call[t].op = op
  /\ queue'[q].txLock = queue[q].txLock
  /\ \A r \in Handles : r # q => queue'[r] = queue[r]
  /\ \A list \in Events : list # <<q, other>> => kernel'.events[list] = kernel.events[list]
  /\ kernel'.events[<<q, other>>] # <<>> =>
       /\ kernel.events[<<q, other>>] # <<>>
       /\ kernel'.events[<<q, other>>] = Tail(kernel.events[<<q, other>>])

Passing(t) == \E q \in Handles : \E op, other \in Sides : Passes(t, q, op, other)

(* A call on a mailbox or a semaphore that finds what it asks for.         *)
LEMMA HandStep ==
  ASSUME KernelInv, NEW t \in Task, kernel.current = t, call[t].pc \notin Critical,
         NEW q \in Handles, q \notin Mutexes, NEW op \in Sides, NEW done \in Sides,
         done # op, NEW s \in QueueType(q),
         s.txLock = queue[q].txLock, s.rxLock = queue[q].rxLock,
         queue' = [queue EXCEPT ![q] = s], Handed(kernel', kernel, <<q, op>>),
         s.waiting = IF done = "send" THEN queue[q].waiting + 1 ELSE queue[q].waiting - 1,
         call[t].pc # "app" => call[t].q = q /\ call[t].op = done, Return(t), UNCHANGED <<left, program>>
  PROVE  KernelInv' /\ Passing(t)
<1>1. OneCall(t, call'[t]) /\ call'[t].pc = "app" BY ReturnIs DEF KernelInv
<1>2. Others(t) /\ call' \in [Task -> Calls] BY <1>1 DEF OneCall
<1>3. OneQueue(q, s) BY OneQueueIs DEF KernelInv
<1>4. <<q, op>> \in Events BY DEF Events
<1>5. /\ kernel.pending = <<>> /\ kernel.ticks = 0 /\ \A u \in Task : call[u].pc \notin Critical
  BY Free
<1>6. TypeOK' BY <1>2, <1>3 DEF KernelInv, TypeOK, Handed, OneQueue
<1>7. ListsInv(kernel') BY DEF Handed
<1>8. ControlInv'
  <2>1. \A u \in Task : call'[u].pc \notin Critical BY <1>1, <1>2, <1>5 DEF Others, Critical
  <2> QED BY <1>5, <2>1, ControlRuns DEF Handed
<1>9. \A u : \A list \in Events :
        u \in ToSet(kernel'.events[list]) => u \in ToSet(kernel.events[list])
  BY DEF Handed
<1>10. CallsInv'
  <2>1. Sound(call'[t]) BY <1>1 DEF Sound
  <2>2. \A list \in Events : t \notin ToSet(kernel'.events[list])
    <3>1. ~Listed(kernel, t) BY Free
    <3> QED BY <1>9, <3>1 DEF Listed
  <2>3. CallOK(kernel', call'[t], t) BY <1>1, <2>1, <2>2 DEF CallOK
  <2>4. kernel'.held = kernel.held BY DEF Handed
  <2> QED BY <1>2, <1>9, <2>3, <2>4, CallsKept DEF KernelInv
<1>11. LocksInv'
  <2>1. call'[t].pc \notin Locking /\ call[t].pc \notin Locking
    BY <1>1 DEF Locking, Critical
  <2>2. \A r \in Handles : queue'[r].txLock = queue[r].txLock
                             /\ queue'[r].rxLock = queue[r].rxLock
    BY <1>3 DEF OneQueue
  <2> QED BY <1>2, <2>1, <2>2, LocksKept DEF KernelInv
<1>12. MutexInv'
  <2>1. \A r \in Mutexes : r \in Handles /\ r # q /\ <<r, "receive">> \in Events
    BY HandlesAre DEF Events, Sides
  <2>2. \A r \in Mutexes : queue'[r].holder = queue[r].holder
                             /\ queue'[r].waiting = queue[r].waiting
    BY <1>3, <2>1 DEF OneQueue
  <2>3. \A r \in Mutexes : kernel'.events[<<r, "receive">>] = kernel.events[<<r, "receive">>]
    <3> TAKE r \in Mutexes
    <3>1. <<r, "receive">> # <<q, op>> BY <2>1
    <3> QED BY <2>1, <3>1 DEF Handed
  <2>4. kernel'.priority = kernel.priority /\ kernel'.held = kernel.held
        /\ ReadyTasks(kernel) \subseteq ReadyTasks(kernel')
    BY DEF Handed
  <2>5. ASSUME NEW u \in Task, u \in ReadyTasks(kernel), call[u].pc = "test",
               call[u].q \in Mutexes, queue[call[u].q].holder = None
        PROVE  /\ u \in ReadyTasks(kernel') /\ call'[u].pc = "test"
               /\ call'[u].q = call[u].q /\ call'[u].op = call[u].op
    <3>1. u # t BY <2>5
    <3> QED BY <1>2, <2>4, <2>5, <3>1 DEF Others
  <2> QED BY <2>2, <2>3, <2>4, <2>5, MutexKept DEF KernelInv
<1>13. Passing(t)
  <2>1. Moved(q, done) /\ queue'[q].txLock = queue[q].txLock
        /\ \A r \in Handles : r # q => queue'[r] = queue[r]
    BY <1>3 DEF OneQueue, Moved
  <2>2. ~Listed(kernel, t) BY Free
  <2>3. Passes(t, q, done, op) BY <1>2, <2>1, <2>2 DEF Passes, Handed
  <2> QED BY <2>3 DEF Passing
<1> QED BY <1>6, <1>7, <1>8, <1>10, <1>11, <1>12, <1>13 DEF KernelInv

LEMMA ReceiveStep ==
  ASSUME KernelInv, NEW t \in Task, Receive(t)
  PROVE  KernelInv' /\ Passing(t)
<1>1. PICK c \in Asked(t) :
        /\ c.op = "receive" /\ c.q \in Mailboxes /\ ~IsQueueEmpty(c.q)
        /\ queue' = [queue EXCEPT ![c.q] = CopyDataFromQueue(c.q)]
        /\ kernel' = PendSV(Wake(kernel, <<c.q, "send">>))
        /\ Return(t)
        /\ UNCHANGED <<left, program>>
  BY DEF Receive
<1>2. PICK q : q = c.q OBVIOUS
<1>3. /\ q \in Handles /\ q \notin Mutexes /\ "send" \in Sides /\ "receive" \in Sides
      /\ <<q, "send">> \in Events
  BY <1>1, <1>2, QueueAssumption DEF Handles, Sides, Events
<1>4. Asks(t, c) /\ kernel.current = t /\ call[t].pc \notin Critical BY AskedIs
<1>5. call[t].pc # "app" => call[t].q = q /\ call[t].op = "receive"
  BY <1>1, <1>2, <1>4 DEF Asks
<1>6. ~kernel.suspended /\ Running(kernel) BY <1>4, Free
<1>7. Handed(kernel', kernel, <<q, "send">>)
  BY <1>1, <1>2, <1>3, <1>6, HandIs DEF KernelInv, TypeOK
<1>8. PICK s : s = CopyDataFromQueue(q) OBVIOUS
<1>9. /\ s \in QueueType(q) /\ s.txLock = queue[q].txLock /\ s.rxLock = queue[q].rxLock
      /\ s.waiting = queue[q].waiting - 1
  BY <1>1, <1>2, <1>3, <1>8, CopyFromIs DEF KernelInv
<1>10. queue' = [queue EXCEPT ![q] = s] BY <1>1, <1>2, <1>8
<1> QED BY <1>1, <1>3, <1>4, <1>5, <1>7, <1>9, <1>10, HandStep

(* No one waits to give a mutex.                                           *)
LEMMA NoGivers ==
  ASSUME KernelInv, NEW q \in Mutexes
  PROVE  <<q, "send">> \in Events /\ kernel.events[<<q, "send">>] = <<>>
<1>1. PICK list : list = <<q, "send">> OBVIOUS
<1>2. list \in Events BY <1>1, HandlesAre DEF Events, Sides
<1>3. SUFFICES ASSUME kernel.events[list] # <<>> PROVE FALSE BY <1>1, <1>2
<1>4. PICK t : t = kernel.events[list][1] OBVIOUS
<1>5. t \in Task /\ t \in ToSet(kernel.events[list])
  BY <1>2, <1>3, <1>4, FirstIs DEF KernelInv, TypeOK
<1>6. list = Waiters(call[t]) /\ call[t].pc # "app"
  BY <1>2, <1>5 DEF KernelInv, CallsInv, Waiting
<1>7. call[t].q = q /\ call[t].op = "send" BY <1>1, <1>6 DEF Waiters
<1>8. call[t].op = "receive" BY <1>5, <1>6, <1>7 DEF KernelInv, CallsInv
<1> QED BY <1>7, <1>8

LEMMA TakeMutex ==
  ASSUME KernelInv, NEW t \in Task, kernel.current = t, call[t].pc \notin Critical,
         NEW q \in Mutexes, MayCall(kernel, t), queue[q].holder = None,
         call[t].pc = "test" => call[t].q = q,
         queue'[q].holder = t, queue'[q].waiting = 0,
         \A r \in Mutexes : r # q => queue'[r] = queue[r],
         Others(t), kernel'.held = [kernel.held EXCEPT ![t] = kernel.held[t] + 1],
         kernel'.priority = kernel.priority, kernel'.events = kernel.events,
         ReadyTasks(kernel) \subseteq ReadyTasks(kernel')
  PROVE  MutexInv'
<1>1. t \in Tasks /\ t # None /\ t # Idle BY PrioritiesAre, HandlesAre, PriorityAssumption
<1>2. kernel.held \in [Tasks -> Nat] /\ kernel.priority \in [Tasks -> Priorities]
  BY DEF KernelInv, TypeOK, Kernels
<1>3. /\ kernel'.held[t] = kernel.held[t] + 1
      /\ \A u \in Tasks : u # t => kernel'.held[u] = kernel.held[u]
  BY <1>1, <1>2
<1>4. \A u \in Tasks : kernel.priority[u] \in Int
  <2>1. \A p \in Priorities : p \in Int BY PrioritiesAre
  <2> QED BY <1>2, <2>1
<1>5. \A r \in Mutexes : queue[r].holder = t => BasePriority[t] = Highest
  BY <1>1, Holds DEF KernelInv, MayCall
<1>6. \A u \in ToSet(kernel.events[<<q, "receive">>]) : kernel.priority[u] <= kernel.priority[t]
  <2> TAKE u \in ToSet(kernel.events[<<q, "receive">>])
  <2>1. PICK v \in Task : /\ v \in ReadyTasks(kernel)
                          /\ \A w \in ToSet(kernel.events[<<q, "receive">>]) :
                               kernel.priority[w] <= kernel.priority[v]
    BY DEF KernelInv, MutexInv
  <2>2. kernel.priority[u] <= kernel.priority[v] BY <2>1
  <2>3. kernel.priority[v] <= kernel.priority[t] BY <2>1, Free DEF Running
  <2>4. u \in Tasks
    <3>1. <<q, "receive">> \in Events BY HandlesAre DEF Events, Sides
    <3>2. kernel.events[<<q, "receive">>] \in Seq(Task)
      BY <3>1 DEF KernelInv, TypeOK, Kernels
    <3> QED BY <3>2, ToSetOf, PrioritiesAre
  <2>5. v \in Tasks BY <2>1, PrioritiesAre
  <2> QED BY <1>1, <1>4, <2>2, <2>3, <2>4, <2>5
<1>7. ASSUME NEW r \in Mutexes
      PROVE  /\ queue'[r].holder = None <=> queue'[r].waiting = 1
             /\ queue'[r].holder # None =>
                  /\ \A u \in ToSet(kernel'.events[<<r, "receive">>]) :
                       kernel'.priority[u] <= kernel'.priority[queue'[r].holder]
                  /\ \A o \in Mutexes : queue'[o].holder = queue'[r].holder =>
                       o = r \/ BasePriority[queue'[r].holder] = Highest
  <2>1. CASE r = q
    <3>1. \A o \in Mutexes : queue'[o].holder = t => o = q \/ BasePriority[t] = Highest
      BY <1>5
    <3> QED BY <1>1, <1>6, <2>1, <3>1
  <2>2. CASE r # q
    <3>1. PICK h : h = queue[r].holder OBVIOUS
    <3>2. queue'[r] = queue[r] BY <2>2
    <3>3. /\ h = None <=> queue[r].waiting = 1
          /\ h # None =>
               /\ \A u \in ToSet(kernel.events[<<r, "receive">>]) :
                    kernel.priority[u] <= kernel.priority[h]
               /\ \A o \in Mutexes : queue[o].holder = h =>
                    o = r \/ BasePriority[h] = Highest
      BY <3>1 DEF KernelInv, MutexInv
    <3>4. h # None => \A o \in Mutexes : queue'[o].holder = h =>
                          o = r \/ BasePriority[h] = Highest
      BY <1>5, <3>1, <3>3
    <3> QED BY <3>1, <3>2, <3>3, <3>4
  <2> QED BY <2>1, <2>2
<1>8. ASSUME NEW r \in Mutexes, queue'[r].holder = None,
             ToSet(kernel'.events[<<r, "receive">>]) # {}
      PROVE  \E u \in Task :
               /\ u \in ReadyTasks(kernel') /\ call'[u].pc = "test"
               /\ Waiters(call'[u]) = <<r, "receive">>
               /\ \A v \in ToSet(kernel'.events[<<r, "receive">>]) :
                    kernel'.priority[v] <= kernel'.priority[u]
  <2>1. r # q /\ queue[r].holder = None BY <1>1, <1>8
  <2>2. PICK u \in Task :
          /\ u \in ReadyTasks(kernel) /\ call[u].pc = "test"
          /\ Waiters(call[u]) = <<r, "receive">>
          /\ \A v \in ToSet(kernel.events[<<r, "receive">>]) :
               kernel.priority[v] <= kernel.priority[u]
    BY <1>8, <2>1 DEF KernelInv, MutexInv
  <2>3. u # t BY <2>1, <2>2 DEF Waiters
  <2>4. call'[u].pc = "test" /\ Waiters(call'[u]) = <<r, "receive">>
    BY <2>2, <2>3 DEF Others, Waiters
  <2> QED BY <2>2, <2>4
<1>9. ASSUME NEW u \in Tasks
      PROVE  /\ kernel'.priority[u] >= BasePriority[u]
             /\ kernel'.priority[u] # BasePriority[u] =>
                  \E r \in Mutexes :
                    /\ queue'[r].holder = u
                    /\ \E v \in ToSet(kernel'.events[<<r, "receive">>]) :
                         kernel'.priority[v] = kernel'.priority[u]
  <2>1. kernel.priority[u] >= BasePriority[u] BY DEF KernelInv, MutexInv
  <2>2. ASSUME kernel.priority[u] # BasePriority[u]
        PROVE  \E r \in Mutexes :
                 /\ queue'[r].holder = u
                 /\ \E v \in ToSet(kernel'.events[<<r, "receive">>]) :
                      kernel'.priority[v] = kernel'.priority[u]
    <3>1. PICK r \in Mutexes :
            /\ queue[r].holder = u
            /\ \E v \in ToSet(kernel.events[<<r, "receive">>]) :
                 kernel.priority[v] = kernel.priority[u]
      BY <2>2 DEF KernelInv, MutexInv
    <3>2. r # q BY <3>1, HandlesAre
    <3> QED BY <3>1, <3>2
  <2> QED BY <2>1, <2>2
<1>10. ASSUME NEW u \in Tasks PROVE kernel'.held[u] = Cardinality(Held(u)')
  <2>1. kernel.held[u] = Cardinality(Held(u)) BY DEF KernelInv, MutexInv
  <2>2. CASE u = t
    <3>1. Held(t)' = Held(t) \cup {q} BY DEF Held
    <3>2. q \notin Held(t) BY <1>1 DEF Held
    <3>3. Cardinality(Held(t) \cup {q}) = Cardinality(Held(t)) + 1
      BY <3>2, HeldIs, FS_AddElement
    <3> QED BY <1>3, <2>1, <2>2, <3>1, <3>3
  <2>3. CASE u # t
    <3>1. Held(u)' = Held(u) BY <1>1, <2>3, HandlesAre DEF Held
    <3> QED BY <1>3, <2>1, <2>3, <3>1
  <2> QED BY <2>2, <2>3
<1> QED BY <1>7, <1>8, <1>9, <1>10 DEF MutexInv

LEMMA TakeStep ==
  ASSUME KernelInv, NEW t \in Task, Take(t)
  PROVE  KernelInv' /\ Passing(t)
<1>1. PICK c \in Asked(t) :
        /\ c.op = "receive" /\ c.q \notin Mailboxes /\ ~IsQueueEmpty(c.q)
        /\ queue' = [queue EXCEPT ![c.q] =
                       IF c.q \in Mutexes THEN [CopyDataFromQueue(c.q) EXCEPT !.holder = t]
                       ELSE CopyDataFromQueue(c.q)]
        /\ kernel' = PendSV(Wake(
             IF c.q \in Mutexes THEN [kernel EXCEPT !.held[t] = @ + 1] ELSE kernel,
             <<c.q, "send">>))
        /\ Return(t)
        /\ UNCHANGED <<left, program>>
  BY DEF Take
<1>2. PICK q : q = c.q OBVIOUS
<1>3. Asks(t, c) /\ kernel.current = t /\ call[t].pc \notin Critical BY AskedIs
<1>4. call[t].pc # "app" => call[t].q = q /\ call[t].op = "receive"
  BY <1>1, <1>2, <1>3 DEF Asks
<1>5. q \in Handles /\ "send" \in Sides /\ "receive" \in Sides /\ <<q, "send">> \in Events
  BY <1>1, <1>2, <1>3 DEF Asks, Sides, Events
<1>6. /\ ~kernel.suspended /\ Running(kernel) /\ kernel.pending = <<>> /\ kernel.ticks = 0
      /\ ~Listed(kernel, t) /\ \A u \in Task : call[u].pc \notin Critical
  BY <1>3, Free
<1>7. PICK s : s = CopyDataFromQueue(q) OBVIOUS
<1>8. /\ s \in QueueType(q) /\ s.txLock = queue[q].txLock /\ s.rxLock = queue[q].rxLock
      /\ s.waiting = queue[q].waiting - 1
  BY <1>1, <1>2, <1>5, <1>7, CopyFromIs DEF KernelInv
<1>9. CASE q \notin Mutexes
  <2>1. queue' = [queue EXCEPT ![q] = s] /\ kernel' = PendSV(Wake(kernel, <<q, "send">>))
    BY <1>1, <1>2, <1>7, <1>9
  <2>2. Handed(kernel', kernel, <<q, "send">>)
    BY <1>5, <1>6, <2>1, HandIs DEF KernelInv, TypeOK
  <2> QED BY <1>1, <1>3, <1>4, <1>5, <1>8, <1>9, <2>1, <2>2, HandStep
<1>10. CASE q \in Mutexes
  <2>1. MayCall(kernel, t) BY <1>1, <1>2, <1>3, <1>10 DEF Asks
  <2>2. queue[q].waiting = 1
    <3>1. queue[q].waiting \in 0 .. 1 BY <1>5, <1>10, HandlesAre, QueueIs DEF KernelInv
    <3>2. queue[q].waiting # 0 BY <1>1, <1>2 DEF IsQueueEmpty
    <3> QED BY <3>1, <3>2
  <2>3. queue[q].holder = None BY <1>10, <2>2 DEF KernelInv, MutexInv
  <2>4. PICK r : r = [s EXCEPT !.holder = t] OBVIOUS
  <2>5. /\ r \in QueueType(q) /\ r.txLock = queue[q].txLock /\ r.rxLock = queue[q].rxLock
        /\ r.waiting = 0 /\ r.holder = t
    BY <1>8, <2>2, <2>4 DEF QueueType
  <2>6. OneQueue(q, r)
    <3>1. queue' = [queue EXCEPT ![q] = r] BY <1>1, <1>2, <1>7, <1>10, <2>4
    <3> QED BY <1>5, <2>5, <3>1, OneQueueIs DEF KernelInv
  <2>7. PICK held : held = [kernel.held EXCEPT ![t] = kernel.held[t] + 1] OBVIOUS
  <2>8. PICK k : k = [kernel EXCEPT !.held = held] OBVIOUS
  <2>9. held \in [Tasks -> Nat] /\ held = [kernel.held EXCEPT ![t] = @ + 1]
    <3>1. kernel.held \in [Tasks -> Nat] /\ t \in Tasks
      BY PrioritiesAre DEF KernelInv, TypeOK, Kernels
    <3>2. PICK more \in Nat : more = kernel.held[t] + 1 BY <3>1
    <3>3. [kernel.held EXCEPT ![t] = more] \in [Tasks -> Nat] BY <3>1, Zenon
    <3> QED BY <2>7, <3>1, <3>2, <3>3
  <2>10. kernel \in Kernels /\ ListsInv(kernel) BY DEF KernelInv, TypeOK
  <2>11. /\ k \in Kernels /\ Alike(k, kernel) /\ k.held = held /\ k.current = t
         /\ ~k.suspended /\ k.ticks = 0 /\ k.pending = <<>>
    BY <1>3, <1>6, <2>8, <2>9, <2>10 DEF Kernels, Alike
  <2>12. ListsInv(k) /\ ReadyTasks(k) = ReadyTasks(kernel) BY <2>10, <2>11, AlikeLists
  <2>13. Running(k) BY <1>3, <1>6, <2>11, <2>12 DEF Running, Alike
  <2>14. Handed(kernel', k, <<q, "send">>)
    <3>1. k = [kernel EXCEPT !.held[t] = @ + 1] BY <2>8, <2>9, <2>10 DEF Kernels
    <3>2. kernel' = PendSV(Wake(k, <<q, "send">>)) BY <1>1, <1>2, <1>10, <3>1
    <3> QED BY <1>5, <2>11, <2>12, <2>13, <3>2, HandIs
  <2>15. /\ kernel' \in Kernels /\ kernel'.events = kernel.events
         /\ ReadyTasks(kernel') = ReadyTasks(kernel)
         /\ kernel'.priority = kernel.priority /\ kernel'.held = held
         /\ ~kernel'.suspended /\ kernel'.pending = <<>> /\ kernel'.ticks = 0
         /\ ~kernel'.pendsv /\ Running(kernel') /\ ListsInv(kernel')
    <3>1. k.events = kernel.events /\ k.events[<<q, "send">>] = <<>>
      BY <1>10, <2>11, NoGivers DEF Alike
    <3>2. \A list \in Events : kernel'.events[list] = k.events[list]
      BY <2>14, <3>1 DEF Handed
    <3>3. kernel'.events = k.events
      <4>1. kernel' \in Kernels BY <2>14 DEF Handed
      <4>2. k.events \in [Events -> Seq(Task)] /\ kernel'.events \in [Events -> Seq(Task)]
        BY <2>11, <4>1 DEF Kernels
      <4> QED BY <3>2, <4>2
    <3> QED BY <2>11, <2>12, <2>14, <3>1, <3>3 DEF Handed, Alike
  <2>16. OneCall(t, call'[t]) /\ call'[t].pc = "app" BY <1>1, ReturnIs DEF KernelInv
  <2>17. Others(t) /\ call' \in [Task -> Calls] BY <2>16 DEF OneCall
  <2>18. TypeOK' BY <1>1, <2>6, <2>15, <2>17 DEF KernelInv, TypeOK, OneQueue
  <2>19. ControlInv'
    <3>1. \A u \in Task : call'[u].pc \notin Critical
      BY <1>6, <2>16, <2>17 DEF Others, Critical
    <3> QED BY <2>15, <3>1, ControlRuns
  <2>20. CallsInv'
    <3>1. Sound(call'[t]) BY <2>16 DEF Sound
    <3>2. CallOK(kernel', call'[t], t) BY <1>6, <2>15, <2>16, <3>1 DEF CallOK, MayCall, Listed
    <3>3. \A u \in Task : u # t => kernel'.held[u] = kernel.held[u]
      <4>1. kernel.held \in [Tasks -> Nat] BY <2>10 DEF Kernels
      <4> QED BY <2>7, <2>15, <4>1, PrioritiesAre
    <3> QED BY <2>15, <2>17, <3>2, <3>3, CallsKept DEF KernelInv
  <2>21. LocksInv'
    <3>1. call'[t].pc \notin Locking /\ call[t].pc \notin Locking
      BY <1>3, <2>16 DEF Locking, Critical
    <3>2. \A o \in Handles : queue'[o].txLock = queue[o].txLock
                               /\ queue'[o].rxLock = queue[o].rxLock
      BY <2>5, <2>6 DEF OneQueue
    <3> QED BY <2>17, <3>1, <3>2, LocksKept DEF KernelInv
  <2>22. MutexInv'
    <3>1. queue'[q].holder = t /\ queue'[q].waiting = 0
          /\ \A o \in Mutexes : o # q => queue'[o] = queue[o]
      BY <2>5, <2>6, HandlesAre DEF OneQueue
    <3>2. call[t].pc = "test" => call[t].q = q BY <1>4
    <3> QED BY <1>3, <1>10, <2>1, <2>3, <2>7, <2>15, <2>17, <3>1, <3>2, TakeMutex
  <2>23. Passing(t)
    <3>1. Moved(q, "receive") /\ queue'[q].txLock = queue[q].txLock
          /\ \A o \in Handles : o # q => queue'[o] = queue[o]
      <4>1. 1 - 1 = 0 OBVIOUS
      <4> QED BY <2>2, <2>5, <2>6, <4>1 DEF OneQueue, Moved
    <3>2. kernel'.events[<<q, "send">>] = <<>> BY <1>10, <2>15, NoGivers
    <3>3. Passes(t, q, "receive", "send")
      BY <1>4, <1>6, <2>15, <2>17, <3>1, <3>2 DEF Passes
    <3> QED BY <1>5, <3>3 DEF Passing
  <2> QED BY <2>15, <2>18, <2>19, <2>20, <2>21, <2>22, <2>23 DEF KernelInv
<1> QED BY <1>9, <1>10

(* Who gives a mutex back has its own priority, and the first of those that *)
(* wait for it is about to take it.                                         *)
LEMMA GiveMutex ==
  ASSUME KernelInv, NEW t \in Task, kernel.current = t, call[t].pc = "app",
         NEW q \in Mutexes, queue[q].holder = t,
         queue'[q].holder = None, queue'[q].waiting = 1,
         \A r \in Mutexes : r # q => queue'[r] = queue[r], Others(t),
         NEW k, Repriced(k, kernel), k.held = [kernel.held EXCEPT ![t] = kernel.held[t] - 1],
         k.priority = [kernel.priority EXCEPT ![t] = BasePriority[t]],
         Handed(kernel', k, <<q, "receive">>)
  PROVE  MutexInv'
<1>1. PICK list : list = <<q, "receive">> OBVIOUS
<1>2. /\ t \in Tasks /\ t # None /\ t # Idle /\ call[t].pc \notin Critical
      /\ \A u \in Task : u \in Tasks
  BY PrioritiesAre, HandlesAre, PriorityAssumption DEF Critical
<1>3. ~Listed(kernel, t) /\ \A u \in Task : call[u].pc \notin Critical BY <1>2, Free
<1>4. list \in Events BY <1>1, HandlesAre DEF Events, Sides
<1>5. k \in Kernels /\ ListsInv(k) /\ k.events = kernel.events
      /\ ReadyTasks(k) = ReadyTasks(kernel)
  BY DEF Repriced
<1>6. kernel'.priority = k.priority /\ kernel'.held = k.held BY DEF Handed
<1>7. /\ kernel'.priority[t] = BasePriority[t] /\ kernel'.held[t] = kernel.held[t] - 1
      /\ \A u \in Tasks : u # t \/ BasePriority[u] = Highest =>
           kernel'.priority[u] = kernel.priority[u]
      /\ \A u \in Tasks : u # t => kernel'.held[u] = kernel.held[u]
  <2>1. kernel.held \in [Tasks -> Nat] /\ kernel.priority \in [Tasks -> Priorities]
    BY DEF KernelInv, TypeOK, Kernels
  <2>2. BasePriority[t] = Highest => kernel.priority[t] = BasePriority[t]
    BY <1>2, BaseIs DEF KernelInv, MayCall
  <2> QED BY <1>2, <1>6, <2>1, <2>2
<1>8. \A other \in Events : \A u \in ToSet(kernel.events[other]) : u \in Tasks /\ u # t
  <2> TAKE other \in Events
  <2>1. kernel.events[other] \in Seq(Task) BY DEF KernelInv, TypeOK, Kernels
  <2> QED BY <1>2, <1>3, <2>1, ToSetOf DEF Listed
<1>9. ToSet(kernel'.events[list]) \subseteq ToSet(kernel.events[list])
      /\ \A other \in Events : other # list => kernel'.events[other] = kernel.events[other]
  BY <1>1, <1>5 DEF Handed
<1>10. \A r \in Mutexes : r # q =>
         /\ <<r, "receive">> \in Events
         /\ kernel'.events[<<r, "receive">>] = kernel.events[<<r, "receive">>]
         /\ queue[r].holder = t => BasePriority[t] = Highest
  <2> TAKE r \in Mutexes
  <2> SUFFICES ASSUME r # q
               PROVE  /\ <<r, "receive">> \in Events
                      /\ kernel'.events[<<r, "receive">>] = kernel.events[<<r, "receive">>]
                      /\ queue[r].holder = t => BasePriority[t] = Highest
    OBVIOUS
  <2>1. <<r, "receive">> \in Events /\ <<r, "receive">> # list
    BY <1>1, HandlesAre DEF Events, Sides
  <2>2. queue[q].holder # None =>
          \A o \in Mutexes : queue[o].holder = queue[q].holder =>
            o = q \/ BasePriority[queue[q].holder] = Highest
    BY DEF KernelInv, MutexInv
  <2> QED BY <1>2, <1>9, <2>1, <2>2
<1>11. ASSUME NEW r \in Mutexes
       PROVE  /\ queue'[r].holder = None <=> queue'[r].waiting = 1
              /\ queue'[r].holder # None =>
                   /\ \A u \in ToSet(kernel'.events[<<r, "receive">>]) :
                        kernel'.priority[u] <= kernel'.priority[queue'[r].holder]
                   /\ \A o \in Mutexes : queue'[o].holder = queue'[r].holder =>
                        o = r \/ BasePriority[queue'[r].holder] = Highest
  <2>1. CASE r = q BY <2>1
  <2>2. CASE r # q
    <3>1. PICK h : h = queue[r].holder OBVIOUS
    <3>2. queue'[r] = queue[r] /\ (h = t => BasePriority[h] = Highest)
      BY <1>10, <2>2, <3>1
    <3>3. /\ h = None <=> queue[r].waiting = 1
          /\ h # None =>
               /\ \A u \in ToSet(kernel.events[<<r, "receive">>]) :
                    kernel.priority[u] <= kernel.priority[h]
               /\ \A o \in Mutexes : queue[o].holder = h =>
                    o = r \/ BasePriority[h] = Highest
      BY <3>1 DEF KernelInv, MutexInv
    <3>4. h # None => h \in Tasks BY <3>1, HolderIs
    <3>5. h # None => \A o \in Mutexes : queue'[o].holder = h =>
                          o = r \/ BasePriority[h] = Highest
      BY <3>3
    <3>6. h # None => \A u \in ToSet(kernel'.events[<<r, "receive">>]) :
                        kernel'.priority[u] <= kernel'.priority[h]
      BY <1>7, <1>8, <1>10, <2>2, <3>2, <3>3, <3>4
    <3> QED BY <3>1, <3>2, <3>3, <3>5, <3>6
  <2> QED BY <2>1, <2>2
<1>12. ASSUME NEW r \in Mutexes, queue'[r].holder = None,
              ToSet(kernel'.events[<<r, "receive">>]) # {}
       PROVE  \E u \in Task :
                /\ u \in ReadyTasks(kernel') /\ call'[u].pc = "test"
                /\ Waiters(call'[u]) = <<r, "receive">>
                /\ \A v \in ToSet(kernel'.events[<<r, "receive">>]) :
                     kernel'.priority[v] <= kernel'.priority[u]
  <2>1. CASE r = q
    <3>1. k.events[list] # <<>>
      <4>1. ToSet(<<>>) = {} BY DEF ToSet
      <4>2. k.events[list] = <<>> => kernel'.events[list] = <<>> BY <1>1 DEF Handed
      <4> QED BY <1>1, <1>12, <2>1, <4>1, <4>2
    <3>2. PICK u : u = k.events[list][1] OBVIOUS
    <3>3. /\ u \in Task /\ u \in ToSet(k.events[list])
          /\ \A v \in ToSet(k.events[list]) : k.priority[v] <= k.priority[u]
      BY <1>4, <1>5, <3>1, <3>2, FirstIs
    <3>4. u \in ReadyTasks(kernel') BY <1>1, <3>1, <3>2 DEF Handed
    <3>5. /\ list = Waiters(call[u])
          /\ call[u].pc \in {"test", "unlock_blocked", "resume_blocked"}
      BY <1>4, <1>5, <3>3 DEF KernelInv, CallsInv, Waiting
    <3>6. call[u].pc = "test" BY <1>3, <3>3, <3>5 DEF Critical
    <3>7. u # t BY <1>4, <1>5, <1>8, <3>3
    <3>8. call'[u].pc = "test" /\ Waiters(call'[u]) = list
      BY <3>3, <3>5, <3>6, <3>7 DEF Others, Waiters
    <3> QED BY <1>1, <1>5, <1>6, <1>9, <2>1, <3>3, <3>4, <3>8
  <2>2. CASE r # q
    <3>1. /\ queue[r].holder = None
          /\ kernel'.events[<<r, "receive">>] = kernel.events[<<r, "receive">>]
          /\ <<r, "receive">> \in Events
      BY <1>10, <1>12, <2>2
    <3>2. PICK u \in Task :
            /\ u \in ReadyTasks(kernel) /\ call[u].pc = "test"
            /\ Waiters(call[u]) = <<r, "receive">>
            /\ \A v \in ToSet(kernel.events[<<r, "receive">>]) :
                 kernel.priority[v] <= kernel.priority[u]
      BY <1>12, <3>1 DEF KernelInv, MutexInv
    <3>3. u # t /\ u \in Tasks BY <1>2, <3>2
    <3>4. call'[u].pc = "test" /\ Waiters(call'[u]) = <<r, "receive">>
      BY <3>2, <3>3 DEF Others, Waiters
    <3>5. u \in ReadyTasks(kernel') BY <1>5, <3>2 DEF Handed
    <3>6. \A v \in ToSet(kernel.events[<<r, "receive">>]) :
            kernel'.priority[v] <= kernel'.priority[u]
      BY <1>7, <1>8, <3>1, <3>2, <3>3
    <3> QED BY <3>1, <3>4, <3>5, <3>6
  <2> QED BY <2>1, <2>2
<1>13. ASSUME NEW u \in Tasks
       PROVE  /\ kernel'.priority[u] >= BasePriority[u]
              /\ kernel'.priority[u] # BasePriority[u] =>
                   \E r \in Mutexes :
                     /\ queue'[r].holder = u
                     /\ \E v \in ToSet(kernel'.events[<<r, "receive">>]) :
                          kernel'.priority[v] = kernel'.priority[u]
  <2>1. CASE u = t
    <3>1. BasePriority[t] \in Nat BY <1>2, PriorityAssumption DEF Tasks
    <3>2. BasePriority[t] >= BasePriority[t] BY <3>1
    <3> QED BY <1>7, <2>1, <3>2
  <2>2. CASE u # t
    <3>1. kernel.priority[u] >= BasePriority[u] BY DEF KernelInv, MutexInv
    <3>2. ASSUME kernel.priority[u] # BasePriority[u]
          PROVE  \E r \in Mutexes :
                   /\ queue'[r].holder = u
                   /\ \E v \in ToSet(kernel'.events[<<r, "receive">>]) :
                        kernel'.priority[v] = kernel'.priority[u]
      <4>1. PICK r \in Mutexes :
              /\ queue[r].holder = u
              /\ \E v \in ToSet(kernel.events[<<r, "receive">>]) :
                   kernel.priority[v] = kernel.priority[u]
        BY <3>2 DEF KernelInv, MutexInv
      <4>2. r # q BY <2>2, <4>1
      <4> QED BY <1>7, <1>8, <1>10, <2>2, <4>1, <4>2
    <3> QED BY <1>7, <2>2, <3>1, <3>2
  <2> QED BY <2>1, <2>2
<1>14. ASSUME NEW u \in Tasks PROVE kernel'.held[u] = Cardinality(Held(u)')
  <2>1. kernel.held[u] = Cardinality(Held(u)) BY DEF KernelInv, MutexInv
  <2>2. CASE u = t
    <3>1. Held(t)' = Held(t) \ {q} BY <1>2 DEF Held
    <3>2. q \in Held(t) BY DEF Held
    <3>3. Cardinality(Held(t) \ {q}) = Cardinality(Held(t)) - 1
      BY <3>2, HeldIs, FS_RemoveElement
    <3> QED BY <1>7, <2>1, <2>2, <3>1, <3>3
  <2>3. CASE u # t
    <3>1. Held(u)' = Held(u) BY <1>2, <2>3, HandlesAre DEF Held
    <3> QED BY <1>7, <2>1, <2>3, <3>1
  <2> QED BY <2>2, <2>3
<1> QED BY <1>11, <1>12, <1>13, <1>14 DEF MutexInv

(* xQueueGenericSend with a mutex: who is woken has the priority that was   *)
(* inherited from it, so that a switch is requested if there was one.       *)
LEMMA GiveIs ==
  ASSUME KernelInv, NEW t \in Task, kernel.current = t, call[t].pc = "app",
         NEW q \in Mutexes, queue[q].holder = t,
         NEW k, k = xTaskPriorityDisinherit(kernel, t)
  PROVE  LET list == <<q, "receive">>
         IN  /\ Repriced(k, kernel) /\ k.held = [kernel.held EXCEPT ![t] = kernel.held[t] - 1]
             /\ k.priority = [kernel.priority EXCEPT ![t] = BasePriority[t]]
             /\ Handed(PendSV(IF k.events[list] # <<>> THEN Wake(k, list)
                              ELSE [k EXCEPT !.pendsv = MustDisinherit(kernel, t)]), k, list)
<1>1. PICK list : list = <<q, "receive">> OBVIOUS
<1>2. list \in Events BY <1>1, HandlesAre DEF Events, Sides
<1>3. t \in Tasks /\ t # None /\ call[t].pc \notin Critical
  BY PrioritiesAre, HandlesAre DEF Critical
<1>4. ~Listed(kernel, t) /\ ~kernel.suspended /\ Running(kernel) BY <1>3, Free
<1>5. kernel \in Kernels /\ ListsInv(kernel) BY DEF KernelInv, TypeOK
<1>6. /\ Repriced(k, kernel) /\ k.held = [kernel.held EXCEPT ![t] = kernel.held[t] - 1]
      /\ k.priority = [kernel.priority EXCEPT ![t] = BasePriority[t]]
  <2>1. kernel.held[t] > 0 /\ (kernel.held[t] = 1 \/ BasePriority[t] = Highest)
    BY <1>3, Holds DEF KernelInv
  <2>2. BasePriority[t] = Highest => kernel.priority[t] = BasePriority[t]
    BY <1>3, BaseIs DEF KernelInv, MayCall
  <2> QED BY <1>4, <1>5, <2>1, <2>2, DisinheritIs
<1>7. /\ k \in Kernels /\ ListsInv(k) /\ k.current = t /\ ~k.suspended
      /\ k.events = kernel.events /\ ReadyTasks(k) = ReadyTasks(kernel)
  BY <1>4, <1>6 DEF Repriced
<1>8. kernel.priority \in [Tasks -> Priorities] BY <1>5 DEF Kernels
<1>9. k.priority[t] = BasePriority[t] /\ \A u \in Tasks : u # t => k.priority[u] = kernel.priority[u]
  BY <1>3, <1>6, <1>8
<1>10. \A u \in Tasks : kernel.priority[u] \in Int /\ BasePriority[u] \in Int
                        /\ k.priority[u] \in Int
  <2>1. \A p \in Priorities : p \in Int BY PrioritiesAre
  <2>2. \A u \in Tasks : BasePriority[u] \in Int BY <2>1, PrioritiesAre
  <2> QED BY <1>8, <1>9, <2>1, <2>2
<1>11. kernel.priority[t] = BasePriority[t] => Running(k)
  <2> HAVE kernel.priority[t] = BasePriority[t]
  <2>1. k.priority = kernel.priority BY <1>3, <1>6, <1>8
  <2> QED BY <1>4, <1>7, <2>1 DEF Running
<1>12. kernel.priority[t] # BasePriority[t] =>
         k.events[list] # <<>> /\ k.priority[k.events[list][1]] > k.priority[k.current]
  <2> SUFFICES ASSUME kernel.priority[t] # BasePriority[t]
               PROVE  /\ k.events[list] # <<>>
                      /\ k.priority[k.events[list][1]] > k.priority[k.current]
    OBVIOUS
  <2>1. PICK r \in Mutexes :
          /\ queue[r].holder = t
          /\ \E v \in ToSet(kernel.events[<<r, "receive">>]) :
               kernel.priority[v] = kernel.priority[t]
    BY <1>3 DEF KernelInv, MutexInv
  <2>2. r = q
    <3>1. queue[q].holder # None =>
            \A o \in Mutexes : queue[o].holder = queue[q].holder =>
              o = q \/ BasePriority[queue[q].holder] = Highest
      BY DEF KernelInv, MutexInv
    <3>2. BasePriority[t] # Highest BY <1>3, BaseIs DEF KernelInv, MayCall
    <3> QED BY <1>3, <2>1, <3>1, <3>2
  <2>3. PICK v \in ToSet(k.events[list]) : kernel.priority[v] = kernel.priority[t]
    BY <1>1, <1>7, <2>1, <2>2
  <2>4. k.events[list] \in Seq(Task) BY <1>2, <1>7 DEF Kernels
  <2>5. v \in Task /\ v \in Tasks /\ v # t
    <3>1. v \in Task BY <2>3, <2>4, ToSetOf
    <3>2. v # t BY <1>2, <1>4, <1>7, <2>3 DEF Listed
    <3> QED BY <3>1, <3>2, PrioritiesAre
  <2>6. k.events[list] # <<>>
    <3>1. ToSet(k.events[list]) # {} BY <2>3
    <3> QED BY <3>1 DEF ToSet
  <2>7. PICK u : u = k.events[list][1] OBVIOUS
  <2>8. u \in Tasks /\ k.priority[v] <= k.priority[u]
    BY <1>2, <1>7, <2>3, <2>6, <2>7, FirstIs
  <2>9. kernel.priority[t] >= BasePriority[t] BY <1>3 DEF KernelInv, MutexInv
  <2> QED BY <1>3, <1>7, <1>9, <1>10, <2>3, <2>5, <2>6, <2>7, <2>8, <2>9
<1>13. CASE k.events[list] # <<>>
  <2>1. Handed(PendSV(Wake(k, list)), k, list)
    BY <1>2, <1>7, <1>11, <1>12, HandIs
  <2> QED BY <1>1, <1>6, <1>13, <2>1
<1>14. CASE k.events[list] = <<>>
  <2>1. PICK must \in BOOLEAN : must = MustDisinherit(kernel, t) BY DEF MustDisinherit
  <2>2. PICK l : l = [k EXCEPT !.pendsv = must] OBVIOUS
  <2>3. /\ l \in Kernels /\ ListsInv(l) /\ Alike(l, k) /\ l.held = k.held /\ ~l.suspended
        /\ l.ticks = k.ticks /\ ReadyTasks(l) = ReadyTasks(k) /\ (Running(k) => Running(l))
    BY <1>7, <2>2, RequestedIs
  <2>4. Running(l) BY <1>11, <1>12, <1>14, <2>3
  <2>5. Handed(PendSV(Wake(l, list)), l, list) BY <1>2, <2>3, <2>4, HandIs
  <2>6. Wake(l, list) = l BY <1>14, <2>3 DEF Wake, Alike
  <2>7. Handed(PendSV(l), k, list) BY <2>3, <2>5, <2>6 DEF Handed, Alike
  <2> QED BY <1>1, <1>6, <1>14, <2>1, <2>2, <2>7
<1> QED BY <1>13, <1>14

LEMMA SendStep ==
  ASSUME KernelInv, NEW t \in Task, Send(t)
  PROVE  KernelInv' /\ Passing(t)
<1>1. PICK c \in Asked(t) :
        LET given == IF c.q \in Mutexes THEN xTaskPriorityDisinherit(kernel, t) ELSE kernel
            list == <<c.q, "receive">>
        IN  /\ c.op = "send" /\ ~IsQueueFull(c.q)
            /\ queue' = [queue EXCEPT ![c.q] = CopyDataToQueue(c.q, t)]
            /\ kernel' = PendSV(
                 IF given.events[list] # <<>> THEN Wake(given, list)
                 ELSE [given EXCEPT !.pendsv = c.q \in Mutexes /\ MustDisinherit(kernel, t)])
            /\ Return(t)
            /\ UNCHANGED <<left, program>>
  BY DEF Send
<1>2. PICK q : q = c.q OBVIOUS
<1>3. PICK list : list = <<q, "receive">> OBVIOUS
<1>4. Asks(t, c) /\ kernel.current = t /\ call[t].pc \notin Critical BY AskedIs
<1>5. call[t].pc # "app" => call[t].q = q /\ call[t].op = "send"
  BY <1>1, <1>2, <1>4 DEF Asks
<1>6. q \in Handles /\ "receive" \in Sides /\ "send" \in Sides /\ list \in Events
  BY <1>1, <1>2, <1>3, <1>4 DEF Asks, Sides, Events
<1>7. /\ ~kernel.suspended /\ Running(kernel) /\ kernel.pending = <<>> /\ kernel.ticks = 0
      /\ ~Listed(kernel, t) /\ \A u \in Task : call[u].pc \notin Critical
  BY <1>4, Free
<1>8. kernel \in Kernels /\ ListsInv(kernel) /\ ~kernel.pendsv
  BY DEF KernelInv, TypeOK, ControlInv
<1>9. PICK s : s = CopyDataToQueue(q, t) OBVIOUS
<1>10. /\ s \in QueueType(q) /\ s.txLock = queue[q].txLock /\ s.rxLock = queue[q].rxLock
       /\ s.waiting = queue[q].waiting + 1 /\ (q \notin Mailboxes => s.holder = None)
  <2>1. t \in Message BY DEF Message
  <2> QED BY <1>1, <1>2, <1>6, <1>9, <2>1, CopyToIs DEF KernelInv
<1>11. queue' = [queue EXCEPT ![q] = s] BY <1>1, <1>2, <1>9
<1>12. CASE q \notin Mutexes
  <2>1. kernel' = PendSV(IF kernel.events[list] # <<>> THEN Wake(kernel, list)
                         ELSE [kernel EXCEPT !.pendsv = FALSE])
    BY <1>1, <1>2, <1>3, <1>12
  <2>2. kernel = [kernel EXCEPT !.pendsv = FALSE]
    <3>1. kernel.pendsv = FALSE BY <1>8 DEF Kernels
    <3> QED BY <1>8, <3>1 DEF Kernels
  <2>3. kernel' = PendSV(Wake(kernel, list))
    <3>1. CASE kernel.events[list] # <<>> BY <2>1, <3>1
    <3>2. CASE kernel.events[list] = <<>>
      <4>1. Wake(kernel, list) = kernel BY <3>2 DEF Wake
      <4>2. kernel' = PendSV([kernel EXCEPT !.pendsv = FALSE]) BY <2>1, <3>2
      <4> QED BY <2>2, <4>1, <4>2
    <3> QED BY <3>1, <3>2
  <2>4. Handed(kernel', kernel, list) BY <1>6, <1>7, <1>8, <2>3, HandIs
  <2> QED BY <1>1, <1>3, <1>4, <1>5, <1>6, <1>10, <1>11, <1>12, <2>4, HandStep
<1>13. CASE q \in Mutexes
  <2>1. /\ call[t].pc = "app" /\ queue[q].holder = t /\ queue[q].waiting = 0
    BY <1>1, <1>2, <1>4, <1>13 DEF Asks
  <2>2. PICK k : k = xTaskPriorityDisinherit(kernel, t) OBVIOUS
  <2>3. kernel' = PendSV(IF k.events[list] # <<>> THEN Wake(k, list)
                         ELSE [k EXCEPT !.pendsv = MustDisinherit(kernel, t)])
    <3>1. PICK must \in BOOLEAN : must = MustDisinherit(kernel, t) BY DEF MustDisinherit
    <3>2. (c.q \in Mutexes /\ MustDisinherit(kernel, t)) = must BY <1>2, <1>13, <3>1
    <3> QED BY <1>1, <1>2, <1>3, <1>13, <2>2, <3>1, <3>2
  <2>4. /\ Repriced(k, kernel) /\ k.held = [kernel.held EXCEPT ![t] = kernel.held[t] - 1]
        /\ k.priority = [kernel.priority EXCEPT ![t] = BasePriority[t]]
        /\ Handed(kernel', k, list)
    BY <1>3, <1>4, <1>13, <2>1, <2>2, <2>3, GiveIs
  <2>5. k.events = kernel.events /\ k.pending = <<>> /\ k.ticks = 0
    BY <1>7, <2>4 DEF Repriced
  <2>6. OneQueue(q, s) BY <1>6, <1>10, <1>11, OneQueueIs DEF KernelInv
  <2>7. OneCall(t, call'[t]) /\ call'[t].pc = "app" BY <1>1, ReturnIs DEF KernelInv
  <2>8. Others(t) /\ call' \in [Task -> Calls] BY <2>7 DEF OneCall
  <2>9. TypeOK' BY <1>1, <2>4, <2>6, <2>8 DEF KernelInv, TypeOK, OneQueue, Handed
  <2>10. ControlInv'
    <3>1. \A u \in Task : call'[u].pc \notin Critical
      BY <1>7, <2>7, <2>8 DEF Others, Critical
    <3> QED BY <2>4, <2>5, <3>1, ControlRuns DEF Handed
  <2>11. CallsInv'
    <3>1. Sound(call'[t]) BY <2>7 DEF Sound
    <3>2. \A u : \A other \in Events :
            u \in ToSet(kernel'.events[other]) => u \in ToSet(kernel.events[other])
      BY <2>4, <2>5 DEF Handed
    <3>3. CallOK(kernel', call'[t], t) BY <1>7, <2>7, <3>1, <3>2 DEF CallOK, MayCall, Listed
    <3>4. \A u \in Task : u # t => kernel'.held[u] = kernel.held[u]
      <4>1. kernel.held \in [Tasks -> Nat] BY <1>8 DEF Kernels
      <4>2. kernel'.held = [kernel.held EXCEPT ![t] = kernel.held[t] - 1] BY <2>4 DEF Handed
      <4> QED BY <4>1, <4>2, PrioritiesAre
    <3> QED BY <2>8, <3>2, <3>3, <3>4, CallsKept DEF KernelInv
  <2>12. LocksInv'
    <3>1. call'[t].pc \notin Locking /\ call[t].pc \notin Locking
      BY <1>4, <2>7 DEF Locking, Critical
    <3>2. \A o \in Handles : queue'[o].txLock = queue[o].txLock
                               /\ queue'[o].rxLock = queue[o].rxLock
      BY <1>10, <2>6 DEF OneQueue
    <3> QED BY <2>8, <3>1, <3>2, LocksKept DEF KernelInv
  <2>13. MutexInv'
    <3>1. s.waiting = 1 /\ s.holder = None BY <1>10, <1>13, <2>1, HandlesAre
    <3>2. queue'[q].holder = None /\ queue'[q].waiting = 1
          /\ \A o \in Mutexes : o # q => queue'[o] = queue[o]
      BY <2>6, <3>1, HandlesAre DEF OneQueue
    <3> QED BY <1>3, <1>4, <1>13, <2>1, <2>4, <2>8, <3>2, GiveMutex
  <2>14. ListsInv(kernel') BY <2>4 DEF Handed
  <2>15. Passing(t)
    <3>1. Moved(q, "send") /\ queue'[q].txLock = queue[q].txLock
          /\ \A o \in Handles : o # q => queue'[o] = queue[o]
      BY <1>10, <2>6 DEF OneQueue, Moved
    <3>2. /\ \A other \in Events : other # list => kernel'.events[other] = kernel.events[other]
          /\ kernel'.events[list] # <<>> =>
               kernel.events[list] # <<>> /\ kernel'.events[list] = Tail(kernel.events[list])
      BY <2>4, <2>5 DEF Handed
    <3>3. Passes(t, q, "send", "receive")
      BY <1>3, <1>5, <1>7, <2>8, <3>1, <3>2 DEF Passes
    <3> QED BY <1>6, <3>3 DEF Passing
  <2> QED BY <2>9, <2>10, <2>11, <2>12, <2>13, <2>14, <2>15 DEF KernelInv
<1> QED BY <1>12, <1>13

-----------------------------------------------------------------------------
(* Interrupts *)

\* What an interrupt does to the kernel: it wakes a task of a list, or none.
Told(l, k, list) ==
  /\ l \in Kernels /\ ListsInv(l) /\ ~l.pendsv
  /\ l.priority = k.priority /\ l.held = k.held /\ l.suspended = k.suspended
  /\ l.ticks = k.ticks /\ ReadyTasks(k) \subseteq ReadyTasks(l)
  /\ \A other \in Events : other # list => l.events[other] = k.events[other]
  /\ ToSet(l.events[list]) \subseteq ToSet(k.events[list])
  /\ l.events[list] # <<>> => l.events[list] = Tail(k.events[list]) /\ k.events[list] # <<>>
  /\ IF k.suspended THEN l.current = k.current /\ (Running(k) => Running(l))
     ELSE Running(l) /\ l.pending = k.pending

LEMMA TellIs ==
  ASSUME NEW k \in Kernels, ListsInv(k), ~k.pendsv, k.suspended \/ Running(k),
         NEW list \in Events
  PROVE  Told(PendSV(Wake(k, list)), k, list)
<1>1. PICK m : m = Wake(k, list) OBVIOUS
<1>2. PICK l : l = PendSV(m) OBVIOUS
<1>3. CASE ~k.suspended
  <2>1. Handed(l, k, list) BY <1>1, <1>2, <1>3, HandIs
  <2>2. ReadyTasks(k) \subseteq ReadyTasks(l) BY <2>1 DEF Handed
  <2>3. l.events[list] # <<>> => l.events[list] = Tail(k.events[list]) /\ k.events[list] # <<>>
    BY <2>1 DEF Handed
  <2>4. ~l.suspended /\ l.suspended = k.suspended BY <1>3, <2>1 DEF Handed, Kernels
  <2> QED BY <1>1, <1>2, <1>3, <2>1, <2>2, <2>3, <2>4 DEF Handed, Told
<1>4. CASE k.suspended /\ k.events[list] = <<>>
  <2>1. m = k BY <1>1, <1>4 DEF Wake
  <2>2. l = k BY <1>2, <2>1 DEF PendSV
  <2> QED BY <1>1, <1>2, <1>4, <2>2 DEF Told
<1>5. CASE k.suspended /\ k.events[list] # <<>>
  <2>1. PICK t : t = k.events[list][1] OBVIOUS
  <2>2. Woken(m, k, list) BY <1>1, <1>5, WakeIs
  <2>3. Lacks(Tail(k.events[list]), k.events[list], t) BY <1>5, <2>1, FirstIs
  <2>4. /\ m \in Kernels /\ ListsInv(m) /\ m.suspended /\ m.current = k.current
        /\ m.priority = k.priority /\ m.held = k.held /\ m.ticks = k.ticks
        /\ ReadyTasks(m) = ReadyTasks(k) /\ m.events = [k.events EXCEPT ![list] = Tail(@)]
    BY <1>5, <2>2 DEF Woken
  <2>5. /\ l \in Kernels /\ ListsInv(l) /\ ReadyTasks(l) = ReadyTasks(m) /\ Steady(l, m)
        /\ ~l.pendsv /\ l.current = m.current
    BY <1>2, <2>4, PendSVIs
  <2>6. k.events \in [Events -> Seq(Task)] BY DEF Kernels
  <2>7. /\ l.events[list] = Tail(k.events[list])
        /\ \A other \in Events : other # list => l.events[other] = k.events[other]
    BY <2>4, <2>5, <2>6 DEF Steady
  <2>8. ToSet(l.events[list]) \subseteq ToSet(k.events[list]) BY <2>3, <2>7 DEF Lacks
  <2>9. Running(k) => Running(l) BY <2>4, <2>5 DEF Running, Steady
  <2> QED BY <1>1, <1>2, <1>5, <2>4, <2>5, <2>7, <2>8, <2>9 DEF Told, Steady
<1> QED BY <1>3, <1>4, <1>5

\* What GiveFromISR does, in terms of the invariant.
Noted(q, s) ==
  LET list == <<q, "receive">>
  IN  /\ OneQueue(q, s) /\ s.waiting = queue[q].waiting + 1 /\ s.rxLock = queue[q].rxLock
      /\ \/ /\ queue[q].txLock = queueUNLOCKED /\ s.txLock = queueUNLOCKED
            /\ Told(kernel', kernel, list)
         \/ /\ queue[q].txLock \in Nat /\ s.txLock = queue[q].txLock + 1
            /\ kernel' = kernel

LEMMA NotedIs ==
  ASSUME KernelInv, NEW q \in FromISR, GiveFromISR(q)
  PROVE  q \in Handles /\ q \notin Mutexes /\ Noted(q, queue'[q])
<1>1. q \in Handles /\ q \notin Mutexes /\ <<q, "receive">> \in Events
  BY QueueAssumption DEF Handles, Events, Sides
<1>2. PICK s : s = CopyDataToQueue(q, Isr) OBVIOUS
<1>3. /\ s \in QueueType(q) /\ s.txLock = queue[q].txLock /\ s.rxLock = queue[q].rxLock
      /\ s.waiting = queue[q].waiting + 1
  <2>1. Isr \in Message /\ ~IsQueueFull(q) BY DEF Message, GiveFromISR
  <2> QED BY <1>1, <1>2, <2>1, CopyToIs DEF KernelInv
<1>4. queue[q].txLock \in Nat \cup {queueUNLOCKED}
  BY <1>1 DEF KernelInv, TypeOK, QueueType
<1>5. CASE queue[q].txLock = queueUNLOCKED
  <2>1. queue' = [queue EXCEPT ![q] = s] /\ kernel' = PendSV(Wake(kernel, <<q, "receive">>))
    BY <1>2, <1>5 DEF GiveFromISR
  <2>2. OneQueue(q, s) BY <1>1, <1>3, <2>1, OneQueueIs DEF KernelInv
  <2>3. kernel \in Kernels /\ ListsInv(kernel) /\ ~kernel.pendsv
        /\ (kernel.suspended \/ Running(kernel))
    BY DEF KernelInv, TypeOK, ControlInv
  <2>4. Told(kernel', kernel, <<q, "receive">>) BY <1>1, <2>1, <2>3, TellIs
  <2>5. queue'[q] = s BY <2>2 DEF OneQueue
  <2> QED BY <1>1, <1>3, <1>5, <2>2, <2>4, <2>5 DEF Noted
<1>6. CASE queue[q].txLock # queueUNLOCKED
  <2>1. PICK lock \in Nat : lock = s.txLock + 1 BY <1>3, <1>4, <1>6
  <2>2. PICK r : r = [s EXCEPT !.txLock = lock] OBVIOUS
  <2>3. /\ r \in QueueType(q) /\ r.txLock = lock /\ r.rxLock = s.rxLock
        /\ r.waiting = s.waiting
    BY <1>3, <2>2 DEF QueueType
  <2>4. queue' = [queue EXCEPT ![q] = r]
    <3>1. queue' = [queue EXCEPT ![q] = [s EXCEPT !.txLock = @ + 1]]
      BY <1>2, <1>6 DEF GiveFromISR
    <3>2. r = [s EXCEPT !.txLock = @ + 1] BY <1>3, <2>1, <2>2 DEF QueueType
    <3> QED BY <3>1, <3>2
  <2>5. OneQueue(q, r) BY <1>1, <2>3, <2>4, OneQueueIs DEF KernelInv
  <2>6. kernel' = kernel BY <1>6 DEF GiveFromISR
  <2>7. queue'[q] = r BY <2>5 DEF OneQueue
  <2> QED BY <1>1, <1>3, <1>4, <1>6, <2>1, <2>3, <2>5, <2>6, <2>7 DEF Noted
<1> QED BY <1>5, <1>6

LEMMA GiveFromISRStep ==
  ASSUME KernelInv, NEW q \in FromISR, GiveFromISR(q)
  PROVE  KernelInv'
<1>1. PICK list : list = <<q, "receive">> OBVIOUS
<1>2. PICK s : s = queue'[q] OBVIOUS
<1>3. q \in Handles /\ q \notin Mutexes /\ Noted(q, s) BY <1>2, NotedIs
<1>4. UNCHANGED <<call, left, program>> BY DEF GiveFromISR
<1>5. OneQueue(q, s) BY <1>3 DEF Noted
<1>6. /\ kernel' \in Kernels /\ ListsInv(kernel') /\ ~kernel'.pendsv
      /\ kernel'.priority = kernel.priority /\ kernel'.held = kernel.held
      /\ kernel'.suspended = kernel.suspended /\ kernel'.ticks = kernel.ticks
      /\ ReadyTasks(kernel) \subseteq ReadyTasks(kernel')
      /\ \A other \in Events : other # list => kernel'.events[other] = kernel.events[other]
      /\ ToSet(kernel'.events[list]) \subseteq ToSet(kernel.events[list])
      /\ IF kernel.suspended
         THEN kernel'.current = kernel.current /\ (Running(kernel) => Running(kernel'))
         ELSE Running(kernel') /\ kernel'.pending = kernel.pending
  <2>1. CASE kernel' = kernel BY <2>1 DEF KernelInv, TypeOK, ControlInv
  <2>2. CASE Told(kernel', kernel, list) BY <2>2 DEF Told
  <2> QED BY <1>1, <1>3, <2>1, <2>2 DEF Noted
<1>7. TypeOK' BY <1>4, <1>5, <1>6 DEF KernelInv, TypeOK, OneQueue
<1>8. ControlInv'
  <2>1. {u \in Task : call'[u].pc \in Critical} = {u \in Task : call[u].pc \in Critical}
    BY <1>4
  <2> QED BY <1>4, <1>6, <2>1 DEF KernelInv, ControlInv
<1>9. Others(None) /\ None \notin Task BY <1>4, HandlesAre DEF Others
<1>10. CallsInv'
  <2>1. \A u \in Task : \A other \in Events :
          u \in ToSet(kernel'.events[other]) => u \in ToSet(kernel.events[other])
    BY <1>6
  <2> QED BY <1>6, <1>9, <2>1, CallsKept DEF KernelInv
<1>11. LocksInv'
  <2>1. ASSUME NEW r \in Handles
        PROVE  /\ IF \E t \in Task : call[t].q = r /\ call[t].pc \in Locking
                  THEN /\ queue'[r].txLock >= 0
                       /\ queue'[r].rxLock = queueLOCKED_UNMODIFIED
                  ELSE queue'[r].txLock = queueUNLOCKED /\ queue'[r].rxLock = queueUNLOCKED
               /\ r \in Mutexes => queue'[r].txLock <= 0
    <3>1. /\ IF \E t \in Task : call[t].q = r /\ call[t].pc \in Locking
             THEN queue[r].txLock >= 0 /\ queue[r].rxLock = queueLOCKED_UNMODIFIED
             ELSE queue[r].txLock = queueUNLOCKED /\ queue[r].rxLock = queueUNLOCKED
          /\ r \in Mutexes => queue[r].txLock <= 0
      BY DEF KernelInv, LocksInv
    <3>2. CASE r # q
      <4>1. queue'[r] = queue[r] BY <1>5, <3>2 DEF OneQueue
      <4> QED BY <3>1, <4>1
    <3>3. CASE r = q /\ queue[q].txLock = queueUNLOCKED
      <4>1. queue'[r].txLock = queueUNLOCKED /\ queue'[r].rxLock = queue[r].rxLock
        BY <1>2, <1>3, <3>3 DEF Noted, queueUNLOCKED
      <4> QED BY <1>3, <3>1, <3>3, <4>1
    <3>4. CASE r = q /\ queue[q].txLock # queueUNLOCKED
      <4>1. queue[q].txLock \in Nat /\ s.txLock = queue[q].txLock + 1
            /\ s.rxLock = queue[q].rxLock
        BY <1>3, <3>4 DEF Noted
      <4>2. s.txLock >= 0 BY <4>1
      <4> QED BY <1>2, <1>3, <3>1, <3>4, <4>1, <4>2
    <3> QED BY <3>2, <3>3, <3>4
  <2> QED BY <1>4, <2>1 DEF LocksInv
<1>12. MutexInv'
  <2>1. ASSUME NEW r \in Mutexes
        PROVE  /\ queue'[r].holder = queue[r].holder /\ queue'[r].waiting = queue[r].waiting
               /\ kernel'.events[<<r, "receive">>] = kernel.events[<<r, "receive">>]
    <3>1. r \in Handles /\ r # q /\ <<r, "receive">> \in Events
      BY <1>3, HandlesAre DEF Events, Sides
    <3>2. queue'[r] = queue[r] BY <1>5, <3>1 DEF OneQueue
    <3>3. <<r, "receive">> # list BY <1>1, <3>1
    <3> QED BY <1>6, <3>1, <3>2, <3>3
  <2> QED BY <1>4, <1>6, <2>1, MutexKept DEF KernelInv
<1> QED BY <1>6, <1>7, <1>8, <1>10, <1>11, <1>12 DEF KernelInv

\* What the tick does to the kernel.
Ticked(l, k) ==
  /\ l \in Kernels /\ ListsInv(l) /\ ~l.pendsv
  /\ l.priority = k.priority /\ l.held = k.held /\ l.suspended = k.suspended
  /\ ReadyTasks(k) \subseteq ReadyTasks(l)
  /\ \A list \in Events :
       /\ ToSet(l.events[list]) \subseteq ToSet(k.events[list])
       /\ list[1] \in Mutexes => l.events[list] = k.events[list]
  /\ IF k.suspended THEN l.current = k.current /\ (Running(k) => Running(l))
     ELSE Running(l) /\ l.pending = <<>> /\ l.ticks = 0

LEMMA TickedIs ==
  ASSUME NEW k \in Kernels, ListsInv(k), ~k.pendsv,
         k.suspended \/ (Running(k) /\ k.pending = <<>> /\ k.ticks = 0),
         NEW required \in BOOLEAN, required = SwitchRequired(k)
  PROVE  LET out == [IncrementTick(k) EXCEPT !.pendsv = required]
         IN  out \in Kernels /\ Ticked(PendSV(out), k)
<1>1. PICK m : m = IncrementTick(k) OBVIOUS
<1>2. PICK out : out = [m EXCEPT !.pendsv = required] OBVIOUS
<1>3. PICK l : l = PendSV(out) OBVIOUS
<1>4. CASE k.suspended
  <2>1. PICK ticks \in Nat : ticks = k.ticks + 1
    <3>1. k.ticks \in Nat BY DEF Kernels
    <3> QED BY <3>1
  <2>2. m = [k EXCEPT !.ticks = ticks]
    <3>1. m = [k EXCEPT !.ticks = @ + 1] BY <1>1, <1>4 DEF IncrementTick
    <3> QED BY <2>1, <3>1 DEF Kernels
  <2>3. /\ m \in Kernels /\ Alike(m, k) /\ m.current = k.current /\ m.held = k.held
        /\ m.suspended = k.suspended
    BY <2>1, <2>2 DEF Kernels, Alike
  <2>4. ListsInv(m) /\ ReadyTasks(m) = ReadyTasks(k) BY <2>3, AlikeLists
  <2>5. /\ out \in Kernels /\ ListsInv(out) /\ Alike(out, m) /\ out.current = m.current
        /\ out.held = m.held /\ out.suspended = m.suspended
        /\ ReadyTasks(out) = ReadyTasks(m)
    BY <1>2, <2>3, <2>4, RequestedIs
  <2>6. /\ l \in Kernels /\ ListsInv(l) /\ ReadyTasks(l) = ReadyTasks(out) /\ Steady(l, out)
        /\ ~l.pendsv /\ l.current = out.current
    BY <1>3, <1>4, <2>3, <2>5, PendSVIs
  <2>7. /\ l.priority = k.priority /\ l.held = k.held /\ l.suspended = k.suspended
        /\ l.events = k.events /\ l.current = k.current /\ ReadyTasks(l) = ReadyTasks(k)
    BY <2>3, <2>4, <2>5, <2>6 DEF Steady, Alike
  <2>8. Running(k) => Running(l) BY <2>7 DEF Running
  <2>9. Ticked(l, k) BY <1>4, <2>6, <2>7, <2>8 DEF Ticked
  <2> QED BY <1>1, <1>2, <1>3, <2>5, <2>9
<1>5. CASE ~k.suspended
  <2>1. Running(k) /\ k.pending = <<>> /\ k.ticks = 0 BY <1>5
  <2>2. /\ Wakes(m, k) /\ m.pending = <<>> /\ m.ticks = k.ticks
        /\ (Running(k) /\ ~required => Running(m))
    BY <1>1, <1>5, <2>1, TickIs
  <2>3. /\ m \in Kernels /\ ListsInv(m) /\ m.current = k.current /\ m.priority = k.priority
        /\ m.held = k.held /\ m.suspended = k.suspended
        /\ ReadyTasks(k) \subseteq ReadyTasks(m)
        /\ \A list \in Events :
             /\ ToSet(m.events[list]) \subseteq ToSet(k.events[list])
             /\ list[1] \in Mutexes => m.events[list] = k.events[list]
    BY <2>2 DEF Wakes, Keeps
  <2>4. /\ out \in Kernels /\ ListsInv(out) /\ Alike(out, m) /\ out.pendsv = required
        /\ out.held = m.held /\ out.suspended = m.suspended /\ out.ticks = m.ticks
        /\ ReadyTasks(out) = ReadyTasks(m) /\ (Running(m) => Running(out))
    BY <1>2, <2>3, RequestedIs
  <2>5. Switched(l, out) BY <1>3, <1>5, <2>1, <2>2, <2>3, <2>4, SwitchIs
  <2>6. /\ l \in Kernels /\ ListsInv(l) /\ Running(l) /\ ~l.suspended /\ ~l.pendsv
        /\ l.pending = <<>> /\ l.ticks = 0 /\ l.priority = k.priority /\ l.held = k.held
        /\ l.events = m.events /\ ReadyTasks(l) = ReadyTasks(m)
    BY <2>1, <2>2, <2>3, <2>4, <2>5 DEF Switched, Alike
  <2>7. l.suspended = k.suspended BY <1>5, <2>6 DEF Kernels
  <2>8. Ticked(l, k) BY <1>5, <2>3, <2>6, <2>7 DEF Ticked
  <2> QED BY <1>1, <1>2, <1>3, <2>4, <2>8
<1> QED BY <1>4, <1>5

LEMMA TickStep ==
  ASSUME KernelInv, Tick
  PROVE  KernelInv' /\ Calm
<1>1. kernel \in Kernels /\ ListsInv(kernel) /\ ~kernel.pendsv
      /\ (kernel.suspended \/ (Running(kernel) /\ kernel.pending = <<>> /\ kernel.ticks = 0))
  BY DEF KernelInv, TypeOK, ControlInv
<1>2. PICK required \in BOOLEAN : required = SwitchRequired(kernel)
  BY <1>1 DEF Kernels, SwitchRequired
<1>3. PICK out : out = [IncrementTick(kernel) EXCEPT !.pendsv = required] OBVIOUS
<1>4. /\ kernel' = PendSV(out) /\ call' = WrapSeen(kernel, out, call)
      /\ left' = Left(kernel, out) /\ UNCHANGED <<queue, program>>
  BY <1>2, <1>3 DEF Tick
<1>5. out \in Kernels /\ Ticked(kernel', kernel) BY <1>1, <1>2, <1>3, <1>4, TickedIs
<1>6. /\ kernel' \in Kernels /\ ListsInv(kernel') /\ ~kernel'.pendsv
      /\ kernel'.priority = kernel.priority /\ kernel'.held = kernel.held
      /\ kernel'.suspended = kernel.suspended
      /\ ReadyTasks(kernel) \subseteq ReadyTasks(kernel')
      /\ \A list \in Events :
           /\ ToSet(kernel'.events[list]) \subseteq ToSet(kernel.events[list])
           /\ list[1] \in Mutexes => kernel'.events[list] = kernel.events[list]
      /\ IF kernel.suspended
         THEN kernel'.current = kernel.current /\ (Running(kernel) => Running(kernel'))
         ELSE Running(kernel') /\ kernel'.pending = <<>> /\ kernel'.ticks = 0
  BY <1>5 DEF Ticked
<1>7. call \in [Task -> Calls] /\ left \in [Task -> Ticks] BY DEF KernelInv, TypeOK
<1>8. /\ call' \in [Task -> Calls]
      /\ \A u \in Task : /\ call'[u].pc = call[u].pc /\ call'[u].op = call[u].op
                         /\ call'[u].q = call[u].q
                         /\ call'[u].xTicksToWait = call[u].xTicksToWait
  BY <1>4, <1>7, WrapIs
<1>9. TypeOK'
  <2>1. left' \in [Task -> Ticks] BY <1>1, <1>4, <1>5, <1>7, LeftIs
  <2> QED BY <1>4, <1>6, <1>8, <2>1 DEF KernelInv, TypeOK
<1>10. ControlInv'
  <2>1. {u \in Task : call'[u].pc \in Critical} = {u \in Task : call[u].pc \in Critical}
    BY <1>8
  <2>2. CASE kernel.suspended
    <3>1. {u \in Task : call'[u].pc \in Critical} = {kernel.current}
      BY <2>1, <2>2 DEF KernelInv, ControlInv
    <3>2. Running(kernel') \/ call'[kernel.current].pc \in Gone
      <4>1. CASE Running(kernel) BY <1>6, <2>2, <4>1
      <4>2. CASE call[kernel.current].pc \in Gone
        <5>1. kernel.current \in Task BY <3>1
        <5> QED BY <1>8, <4>2, <5>1
      <4> QED BY <4>1, <4>2 DEF KernelInv, ControlInv
    <3> QED BY <1>6, <2>2, <3>1, <3>2 DEF ControlInv
  <2>3. CASE ~kernel.suspended
    <3>1. {u \in Task : call'[u].pc \in Critical} = {}
      BY <2>1, <2>3 DEF KernelInv, ControlInv
    <3> QED BY <1>6, <2>3, <3>1 DEF ControlInv
  <2> QED BY <2>2, <2>3
<1>11. Others(None) /\ None \notin Task BY <1>8, HandlesAre DEF Others
<1>12. CallsInv'
  <2>1. \A u \in Task : \A list \in Events :
          u \in ToSet(kernel'.events[list]) => u \in ToSet(kernel.events[list])
    BY <1>6
  <2> QED BY <1>6, <1>11, <2>1, CallsKept DEF KernelInv
<1>13. LocksInv' BY <1>4, <1>11, LocksKept DEF KernelInv
<1>14. MutexInv'
  <2>1. ASSUME NEW r \in Mutexes
        PROVE  kernel'.events[<<r, "receive">>] = kernel.events[<<r, "receive">>]
    <3>1. <<r, "receive">> \in Events BY HandlesAre DEF Events, Sides
    <3> QED BY <1>6, <3>1
  <2>2. \A u \in Task : u \in ReadyTasks(kernel) /\ call[u].pc = "test" =>
          /\ u \in ReadyTasks(kernel') /\ call'[u].pc = "test"
          /\ call'[u].q = call[u].q /\ call'[u].op = call[u].op
    BY <1>6, <1>8
  <2> QED BY <1>4, <1>6, <2>1, <2>2, MutexKept DEF KernelInv
<1>15. Calm
  <2>1. \A q \in Handles : \A op \in Sides : <<q, op>> \in Events BY DEF Events
  <2> QED BY <1>4, <1>6, <1>11, <2>1, CalmIs DEF KernelInv
<1> QED BY <1>6, <1>9, <1>10, <1>12, <1>13, <1>14, <1>15 DEF KernelInv

-----------------------------------------------------------------------------
(* The start *)

LEMMA SetToSeqIs ==
  ASSUME NEW S, IsFiniteSet(S)
  PROVE  SetToSeq(S) \in Seq(S) /\ IsInjective(SetToSeq(S)) /\ ToSet(SetToSeq(S)) = S
<1>1. PICK n \in Nat : n = Cardinality(S) BY FS_CardinalityType
<1>2. ExistsBijection(1 .. n, S) BY <1>1, FS_CardinalityType
<1>3. PICK f \in Bijection(1 .. n, S) : TRUE BY <1>2 DEF ExistsBijection
<1>4. f \in [1 .. n -> S] /\ IsInjective(f)
  BY <1>3 DEF Bijection, Injection, IsInjective
<1>5. PICK m : m = SetToSeq(S) OBVIOUS
<1>6. m = CHOOSE g \in [1 .. n -> S] : IsInjective(g) BY <1>1, <1>5 DEF SetToSeq
<1>7. m \in [1 .. n -> S] /\ IsInjective(m) BY <1>4, <1>6
<1>8. m \in Injection(1 .. n, S) BY <1>7 DEF Injection, IsInjective
<1>9. Cardinality(1 .. n) = n
  <2>1. 1 \in Int /\ n \in Int BY <1>1
  <2>2. Cardinality(1 .. n) = IF 1 > n THEN 0 ELSE n - 1 + 1 BY <2>1, FS_Interval
  <2> QED BY <2>1, <2>2
<1>10. m \in Surjection(1 .. n, S) BY <1>1, <1>8, <1>9, FS_Injection
<1>11. m \in Seq(S) /\ DOMAIN m = 1 .. n BY <1>7
<1>12. ToSet(m) = S BY <1>10, <1>11 DEF Surjection, ToSet
<1> QED BY <1>5, <1>7, <1>11, <1>12

LEMMA FirstRing ==
  ASSUME NEW R \in SUBSET Tasks
  PROVE  LET ring == <<End>> \o SetToSeq(R)
         IN  /\ ring \in Seq(Tasks \cup {End}) /\ IsInjective(ring)
             /\ ToSet(ring) = {End} \cup R
<1>1. IsFiniteSet(R) BY PrioritiesAre, FS_Subset
<1>2. PICK m : m = SetToSeq(R) OBVIOUS
<1>3. m \in Seq(R) /\ IsInjective(m) /\ ToSet(m) = R BY <1>1, <1>2, SetToSeqIs
<1>4. PICK n \in Nat : n = Len(m) BY <1>3, LenProperties
<1>5. PICK ring : ring = <<End>> \o m OBVIOUS
<1>6. m \in Seq(Tasks \cup {End}) /\ <<End>> \in Seq(Tasks \cup {End}) BY <1>3
<1>7. ring \in Seq(Tasks \cup {End}) /\ Len(ring) = n + 1 BY <1>4, <1>5, <1>6
<1>8. DOMAIN ring = 1 .. n + 1 /\ DOMAIN m = 1 .. n BY <1>3, <1>4, <1>7, LenProperties
<1>9. ring[1] = End /\ \A i \in 1 .. n : ring[i + 1] = m[i] BY <1>4, <1>5, <1>6
<1>10. \A i \in 1 .. n + 1 : i = 1 \/ \E j \in 1 .. n : i = j + 1
  <2> TAKE i \in 1 .. n + 1
  <2> SUFFICES ASSUME i # 1 PROVE \E j \in 1 .. n : i = j + 1 OBVIOUS
  <2>1. i - 1 \in 1 .. n /\ i = (i - 1) + 1 OBVIOUS
  <2> QED BY <2>1
<1>11. \A i \in 1 .. n : m[i] \in R /\ m[i] # End BY <1>3, <1>8, ToSetOf, PrioritiesAre
<1>12. IsInjective(ring)
  <2>1. ASSUME NEW i \in 1 .. n + 1, NEW j \in 1 .. n + 1, ring[i] = ring[j] PROVE i = j
    <3>1. CASE i = 1 BY <1>9, <1>10, <1>11, <2>1, <3>1
    <3>2. CASE j = 1 BY <1>9, <1>10, <1>11, <2>1, <3>2
    <3>3. CASE i # 1 /\ j # 1
      <4>1. PICK a \in 1 .. n, b \in 1 .. n : i = a + 1 /\ j = b + 1 BY <1>10, <3>3
      <4>2. m[a] = m[b] BY <1>9, <2>1, <4>1
      <4>3. a = b BY <1>3, <1>8, <4>2 DEF IsInjective
      <4> QED BY <4>1, <4>3
    <3> QED BY <3>1, <3>2, <3>3
  <2> QED BY <1>8, <2>1 DEF IsInjective
<1>13. ToSet(ring) = {End} \cup R
  <2>1. ToSet(ring) = {ring[i] : i \in 1 .. n + 1} BY <1>8 DEF ToSet
  <2>2. R = {m[i] : i \in 1 .. n} BY <1>3, <1>8 DEF ToSet
  <2>3. ASSUME NEW x \in ToSet(ring) PROVE x \in {End} \cup R
    <3>1. PICK i \in 1 .. n + 1 : x = ring[i] BY <2>1, <2>3
    <3> QED BY <1>9, <1>10, <1>11, <3>1
  <2>4. End \in ToSet(ring)
    <3>1. 1 \in 1 .. n + 1 OBVIOUS
    <3> QED BY <1>9, <2>1, <3>1
  <2>5. ASSUME NEW x \in R PROVE x \in ToSet(ring)
    <3>1. PICK i \in 1 .. n : x = m[i] BY <2>2
    <3>2. i + 1 \in 1 .. n + 1 OBVIOUS
    <3> QED BY <1>9, <2>1, <3>1, <3>2
  <2> QED BY <2>3, <2>4, <2>5
<1> QED BY <1>2, <1>5, <1>7, <1>12, <1>13

(* A task of the highest priority runs first.                              *)
LEMMA FirstTask ==
  LET first == CHOOSE t \in Task : \A u \in Task : BasePriority[u] <= BasePriority[t]
  IN  first \in Task /\ \A t \in Tasks : BasePriority[t] <= BasePriority[first]
<1>1. PICK P : P = {BasePriority[t] : t \in Task} OBVIOUS
<1>2. BasePriority \in [Tasks -> Nat] /\ Tasks = Task \cup {Idle}
  BY PriorityAssumption DEF Tasks
<1>3. P \in SUBSET Int /\ P # {} BY <1>1, <1>2, PriorityAssumption
<1>4. IsFiniteSet(P)
  <2>1. PICK f : f = [t \in Task |-> BasePriority[t]] OBVIOUS
  <2>2. f \in Surjection(Task, P) BY <1>1, <2>1 DEF Surjection
  <2> QED BY <2>2, PriorityAssumption, FS_Surjection
<1>5. PICK max : max = Max(P) OBVIOUS
<1>6. max \in P /\ \A p \in P : p <= max BY <1>3, <1>4, <1>5, MaxIs
<1>7. \E t \in Task : \A u \in Task : BasePriority[u] <= BasePriority[t]
  <2>1. PICK t \in Task : max = BasePriority[t] BY <1>1, <1>6
  <2> QED BY <1>1, <1>6, <2>1
<1>8. PICK first :
        first = CHOOSE t \in Task : \A u \in Task : BasePriority[u] <= BasePriority[t]
  OBVIOUS
<1>9. first \in Task /\ \A u \in Task : BasePriority[u] <= BasePriority[first] BY <1>7, <1>8
<1>10. BasePriority[Idle] <= BasePriority[first]
  <2>1. BasePriority[first] > BasePriority[Idle] BY <1>9, PriorityAssumption
  <2>2. BasePriority[first] \in Nat /\ BasePriority[Idle] \in Nat BY <1>2, <1>9
  <2> QED BY <2>1, <2>2
<1> QED BY <1>2, <1>8, <1>9, <1>10

LEMMA InitKernel ==
  ASSUME Init
  PROVE  /\ kernel \in Kernels /\ ListsInv(kernel) /\ Running(kernel)
         /\ kernel.priority = BasePriority /\ kernel.held = [t \in Tasks |-> 0]
         /\ \A list \in Events : kernel.events[list] = <<>>
         /\ ~kernel.suspended /\ kernel.pending = <<>> /\ kernel.ticks = 0 /\ ~kernel.pendsv
<1>1. PICK first :
        first = CHOOSE t \in Task : \A u \in Task : BasePriority[u] <= BasePriority[t]
  OBVIOUS
<1>2. PICK ready : ready = [p \in Priorities |->
                              <<End>> \o SetToSeq({t \in Tasks : BasePriority[t] = p})]
  OBVIOUS
<1>3. PICK k : k = kernel OBVIOUS
<1>4. /\ k.current = first /\ k.priority = BasePriority /\ k.held = [t \in Tasks |-> 0]
      /\ k.ready = ready /\ k.delayed = <<>> /\ k.overflowed = <<>>
      /\ k.events = [list \in Handles \X Sides |-> <<>>] /\ k.pending = <<>>
      /\ ~k.suspended /\ k.ticks = 0 /\ ~k.pendsv
  BY <1>1, <1>2, <1>3 DEF Init
<1>5. first \in Task /\ first \in Tasks
      /\ \A t \in Tasks : BasePriority[t] <= BasePriority[first]
  BY <1>1, FirstTask, PrioritiesAre
<1>6. ASSUME NEW p \in Priorities
      PROVE  /\ ready[p] \in Seq(Tasks \cup {End}) /\ IsInjective(ready[p])
             /\ ToSet(ready[p]) = {End} \cup {t \in Tasks : BasePriority[t] = p}
  <2>1. PICK R : R = {t \in Tasks : BasePriority[t] = p} OBVIOUS
  <2>2. R \in SUBSET Tasks /\ ready[p] = <<End>> \o SetToSeq(R) BY <1>2, <2>1
  <2> QED BY <2>1, <2>2, FirstRing
<1>7. ready \in [Priorities -> Seq(Tasks \cup {End})]
  <2>1. ready = [p \in Priorities |-> ready[p]] BY <1>2
  <2> QED BY <1>6, <2>1
<1>8. /\ BasePriority \in [Tasks -> Priorities] /\ 0 \in Ticks /\ portMAX_DELAY \in Ticks
      /\ <<>> \in Seq(Task) /\ 0 \in 0 .. 1 /\ 0 \in Nat
  BY PrioritiesAre, TicksAre
<1>9. PICK zero : zero = 0 OBVIOUS
<1>10. /\ [t \in Tasks |-> zero] \in [Tasks -> 0 .. 1]
       /\ [t \in Tasks |-> zero] \in [Tasks -> Ticks]
       /\ [list \in Handles \X Sides |-> <<>>] \in [Events -> Seq(Task)]
  <2>1. zero \in 0 .. 1 /\ zero \in Ticks BY <1>8, <1>9
  <2> QED BY <1>8, <2>1 DEF Events
<1>11. k \in Kernels
  <2>1. k = [current |-> first, priority |-> BasePriority, held |-> [t \in Tasks |-> zero],
             ready |-> ready, delayed |-> <<>>, overflowed |-> <<>>,
             wake |-> [t \in Tasks |-> zero],
             events |-> [list \in Handles \X Sides |-> <<>>], pending |-> <<>>,
             tick |-> zero, unblock |-> portMAX_DELAY,
             suspended |-> FALSE, ticks |-> zero, yield |-> FALSE, pendsv |-> FALSE]
    BY <1>1, <1>2, <1>3, <1>9 DEF Init
  <2>2. zero \in Ticks /\ zero \in Nat BY <1>8, <1>9
  <2> QED BY <1>5, <1>7, <1>8, <1>10, <2>1, <2>2 DEF Kernels
<1>12. RingsInv(k) /\ ReadyTasks(k) = Tasks
  <2>1. \A p \in Priorities :
          /\ IsInjective(k.ready[p])
          /\ ToSet(k.ready[p]) = {End} \cup {t \in Tasks : k.priority[t] = p}
    BY <1>4, <1>6
  <2> QED BY <1>11, <2>1, PrioritiesAre, RingsOf
<1>13. ToSet(<<>>) = {} /\ IsInjective(<<>>) BY DEF ToSet, IsInjective
<1>14. \A list \in Events : k.events[list] = <<>> BY <1>4 DEF Events
<1>15. (\A t : ~Listed(k, t)) /\ Sleeping(k) = {}
  BY <1>4, <1>13, <1>14 DEF Listed, Sleeping
<1>16. WaitsInv(k) BY <1>4, <1>13, <1>15 DEF WaitsInv
<1>17. EventsInv(k) BY <1>13, <1>14, <1>15 DEF EventsInv
<1>18. Running(k) BY <1>4, <1>5, <1>12 DEF Running
<1> QED BY <1>3, <1>4, <1>11, <1>12, <1>14, <1>16, <1>17, <1>18 DEF ListsInv

LEMMA InitQueue ==
  ASSUME Init
  PROVE  /\ queue = [q \in Handles |-> queue[q]]
         /\ \A q \in Handles :
              /\ queue[q] \in QueueType(q)
              /\ queue[q].txLock = queueUNLOCKED /\ queue[q].rxLock = queueUNLOCKED
              /\ queue[q].holder = None
              /\ queue[q].waiting = IF q \in Mutexes THEN 1 ELSE 0
<1>1. queue = [q \in Handles |->
        [items |-> [i \in 0 .. Length[q] - 1 |-> None],
         waiting |-> IF q \in Mutexes THEN 1 ELSE 0,
         writeTo |-> 0, readFrom |-> Length[q] - 1,
         txLock |-> queueUNLOCKED, rxLock |-> queueUNLOCKED, holder |-> None]]
  BY DEF Init
<1>2. ASSUME NEW q \in Handles
      PROVE  /\ queue[q] \in QueueType(q)
             /\ queue[q].txLock = queueUNLOCKED /\ queue[q].rxLock = queueUNLOCKED
             /\ queue[q].holder = None
             /\ queue[q].waiting = IF q \in Mutexes THEN 1 ELSE 0
  <2>1. PICK n \in Nat \ {0} : n = Length[q] BY HandlesAre
  <2>2. PICK waiting : waiting = IF q \in Mutexes THEN 1 ELSE 0 OBVIOUS
  <2>3. waiting \in 0 .. n BY <2>1, <2>2
  <2>4. 0 \in 0 .. n - 1 /\ n - 1 \in 0 .. n - 1 BY <2>1
  <2>5. PICK zero, last : zero = 0 /\ last = n - 1 OBVIOUS
  <2>6. zero \in 0 .. n - 1 /\ last \in 0 .. n - 1 BY <2>4, <2>5
  <2>7. [i \in 0 .. n - 1 |-> None] \in [0 .. n - 1 -> Message] BY DEF Message
  <2>8. queue[q] = [items |-> [i \in 0 .. n - 1 |-> None], waiting |-> waiting,
                    writeTo |-> zero, readFrom |-> last,
                    txLock |-> queueUNLOCKED, rxLock |-> queueUNLOCKED, holder |-> None]
    BY <1>1, <2>1, <2>2, <2>5
  <2> QED BY <2>1, <2>2, <2>3, <2>6, <2>7, <2>8 DEF QueueType
<1> QED BY <1>1, <1>2

LEMMA InitStep ==
  ASSUME Init
  PROVE  KernelInv
<1>1. /\ call = [t \in Task |-> NoCall] /\ left = [t \in Task |-> 0] /\ program \in Programs
  BY DEF Init
<1>2. \A t \in Task : call[t] = NoCall BY <1>1
<1>3. NoCall.pc = "app" /\ NoCall \in Calls BY NoCallIs DEF NoCall
<1>4. \A t \in Task : call[t].pc = "app" /\ call[t].pc \notin Critical
                        /\ call[t].pc \notin Locking
  BY <1>2, <1>3 DEF Critical, Locking
<1>5. TypeOK
  <2>1. PICK zero \in Ticks : zero = 0 BY TicksAre
  <2>2. left \in [Task -> Ticks] BY <1>1, <2>1
  <2> QED BY <1>1, <1>3, <2>2, InitKernel, InitQueue DEF TypeOK
<1>6. ListsInv(kernel) BY InitKernel
<1>7. ControlInv
  <2>1. {t \in Task : call[t].pc \in Critical} = {} BY <1>4
  <2> QED BY <2>1, InitKernel DEF ControlInv
<1>8. ToSet(<<>>) = {} BY DEF ToSet
<1>9. CallsInv
  <2>1. \A t \in Task : kernel.held[t] = 0 BY InitKernel, PrioritiesAre
  <2>2. \A t \in Task : \A list \in Events : ~Waiting(t, list) BY <1>8, InitKernel DEF Waiting
  <2>3. ~(0 > 0) OBVIOUS
  <2> QED BY <1>4, <2>1, <2>2, <2>3 DEF CallsInv
<1>10. LocksInv BY <1>4, InitQueue DEF LocksInv, queueUNLOCKED
<1>11. MutexInv
  <2>1. ASSUME NEW q \in Mutexes
        PROVE  /\ queue[q].holder = None /\ queue[q].waiting = 1
               /\ ToSet(kernel.events[<<q, "receive">>]) = {}
    <3>1. q \in Handles /\ <<q, "receive">> \in Events BY HandlesAre DEF Events, Sides
    <3> QED BY <1>8, <3>1, InitKernel, InitQueue
  <2>2. \A t \in Tasks : kernel.priority[t] = BasePriority[t] /\ BasePriority[t] \in Nat
    BY InitKernel, PriorityAssumption DEF Tasks
  <2>3. ASSUME NEW t \in Tasks PROVE kernel.held[t] = Cardinality(Held(t))
    <3>1. None # t BY HandlesAre, QueueAssumption
    <3>2. Held(t) = {} BY <2>1, <3>1 DEF Held
    <3> QED BY <3>2, InitKernel, FS_EmptySet
  <2> QED BY <2>1, <2>2, <2>3 DEF MutexInv
<1> QED BY <1>5, <1>6, <1>7, <1>9, <1>10, <1>11 DEF KernelInv

-----------------------------------------------------------------------------
(* The invariant *)

LEMMA StepKeeps ==
  ASSUME KernelInv, [Next]_vars
  PROVE  KernelInv'
<1>1. ASSUME NEW t \in Task, Step(t) PROVE KernelInv'
  BY <1>1, SendStep, ReceiveStep, TakeStep, RefusedStep, EnterStep, SuspendStep, LockStep,
     PlaceStep, TryAgainStep, UnlockStep, DelayStep, ResumeStep, LookAgainStep, ReturnStep
     DEF Step
<1>2. ASSUME NEW q \in FromISR, GiveFromISR(q) PROVE KernelInv' BY <1>2, GiveFromISRStep
<1>3. CASE Tick BY <1>3, TickStep
<1>4. CASE UNCHANGED vars
  <2>1. /\ kernel' = kernel /\ queue' = queue /\ call' = call /\ left' = left
        /\ program' = program
    BY <1>4 DEF vars
  <2>2. TypeOK' BY <2>1 DEF KernelInv, TypeOK
  <2>3. ListsInv(kernel') BY <2>1 DEF KernelInv
  <2>4. ControlInv' BY <2>1 DEF KernelInv, ControlInv
  <2>5. Others(None) /\ None \notin Task BY <2>1, HandlesAre DEF Others
  <2>6. CallsInv' BY <2>1, <2>5, CallsKept DEF KernelInv
  <2>7. LocksInv' BY <2>1, <2>5, LocksKept DEF KernelInv
  <2>8. MutexInv' BY <2>1, MutexKept DEF KernelInv
  <2> QED BY <2>2, <2>3, <2>4, <2>6, <2>7, <2>8 DEF KernelInv
<1> QED BY <1>1, <1>2, <1>3, <1>4 DEF Next

(* Between any two steps the lists, the state of the scheduler, the calls, the *)
(* locks and the mutexes agree: who is ready waits for nothing, who waits does *)
(* so in the list of the event its call is for, the scheduler is suspended by  *)
(* the task that runs, a queue is locked by one that is between prvLockQueue   *)
(* and prvUnlockQueue, and what a task inherited comes from one who waits.  A  *)
(* task holds as many mutexes as its count of them says, and one that calls    *)
(* anything while it holds some has the highest priority.                      *)
THEOREM KernelInvariant == Spec => []KernelInv
<1>1. Init => KernelInv BY InitStep
<1>2. KernelInv /\ [Next]_vars => KernelInv' BY StepKeeps
<1> QED BY <1>1, <1>2, PTL DEF Spec

(* Unless the scheduler is suspended, the task that runs is ready and none that *)
(* is ready has a higher priority: no context switch that a call, an interrupt, *)
(* the tick or xTaskResumeAll owes is left out.                                 *)
THEOREM HighestRunsAlways == Spec => []HighestRuns
<1>1. KernelInv => HighestRuns
  <2> HAVE KernelInv
  <2> SUFFICES ASSUME ~kernel.suspended
               PROVE  /\ IsReady(kernel.current)
                      /\ kernel.priority[kernel.current] = TopPriority(kernel)
    BY DEF HighestRuns
  <2>1. kernel \in Kernels /\ RingsInv(kernel) /\ Running(kernel)
    BY DEF KernelInv, TypeOK, ListsInv, ControlInv
  <2>2. kernel.priority[kernel.current] = TopPriority(kernel) BY <2>1, HighestIs
  <2>3. IsReady(kernel.current) BY <2>1 DEF IsReady, Running, ReadyTasks
  <2> QED BY <2>2, <2>3
<1> QED BY <1>1, KernelInvariant, PTL

(* No task waits for a mutex that one of less priority holds, and who holds none *)
(* has its own priority, as long as only tasks of the highest priority call      *)
(* anything with a mutex taken (NestingAssumption): one that takes a mutex       *)
(* within another waits for it without having inherited anything, so that what   *)
(* vTaskPriorityInherit does not hand on, and what vTaskPriorityDisinherit keeps *)
(* until the last mutex is given, are never missed.                              *)
THEOREM NoInversionAlways == Spec => []NoInversion
<1>1. KernelInv => NoInversion
  <2> HAVE KernelInv
  <2>1. ASSUME NEW q \in Mutexes, NEW t \in ToSet(kernel.events[<<q, "receive">>]),
               queue[q].holder \in Task
        PROVE  kernel.priority[queue[q].holder] >= kernel.priority[t]
    <3>1. queue[q].holder # None BY <2>1, HandlesAre
    <3>2. kernel.priority[t] <= kernel.priority[queue[q].holder]
      BY <3>1 DEF KernelInv, MutexInv
    <3> QED BY <3>2
  <2>2. ASSUME NEW t \in Tasks, kernel.held[t] = 0
        PROVE  kernel.priority[t] = BasePriority[t]
    <3>1. ~(0 > 0) OBVIOUS
    <3>2. MayCall(kernel, t) BY <2>2, <3>1 DEF MayCall
    <3> QED BY <3>2, BaseIs DEF KernelInv
  <2> QED BY <2>1, <2>2 DEF NoInversion
<1> QED BY <1>1, KernelInvariant, PTL

-----------------------------------------------------------------------------
(* No wake-up is lost *)

\* The wake-ups of those that do op on q that are noted in the lock.
Noticed(q, op) == IF op = "receive" /\ queue[q].txLock >= 0 THEN queue[q].txLock ELSE 0

\* NoLostWakeup, of one list.
Served(q, op) ==
  kernel.events[<<q, op>>] # <<>> =>
    Room(q, op) <= Cardinality(Looking(q, op)) + Noticed(q, op)

AllServed == \A q \in Handles : \A op \in Sides : Served(q, op)

LEMMA MaxZero ==
  ASSUME NEW x \in Int
  PROVE  Max({0, x}) = IF x >= 0 THEN x ELSE 0
<1>1. IsFiniteSet({0, x})
  <2>1. IsFiniteSet({}) BY FS_EmptySet
  <2>2. IsFiniteSet({} \cup {0}) BY <2>1, FS_AddElement
  <2>3. IsFiniteSet(({} \cup {0}) \cup {x}) BY <2>2, FS_AddElement
  <2>4. ({} \cup {0}) \cup {x} = {0, x} OBVIOUS
  <2> QED BY <2>3, <2>4
<1>2. PICK m : m = Max({0, x}) OBVIOUS
<1>3. m \in {0, x} /\ 0 <= m /\ x <= m
  <2>1. {0, x} \in SUBSET Int /\ {0, x} # {} OBVIOUS
  <2> QED BY <1>1, <1>2, <2>1, MaxIs
<1> QED BY <1>2, <1>3

(* What the lists say of each queue, put together.                         *)
LEMMA ServedIs == KernelInv /\ AllServed => NoLostWakeup
<1> SUFFICES ASSUME KernelInv, AllServed, NEW q \in Handles
             PROVE  /\ kernel.events[<<q, "receive">>] # <<>>
                         => queue[q].waiting <= Cardinality(Looking(q, "receive"))
                                                  + Max({0, queue[q].txLock})
                    /\ kernel.events[<<q, "send">>] # <<>>
                         => Length[q] - queue[q].waiting
                              <= Cardinality(Looking(q, "send")) + Max({0, queue[q].rxLock})
  BY DEF NoLostWakeup
<1>1. queue[q].txLock \in Nat \cup {-1} /\ queue[q].rxLock \in {-1, 0}
  BY DEF KernelInv, TypeOK, QueueType, queueUNLOCKED, queueLOCKED_UNMODIFIED
<1>2. "send" \in Sides /\ "receive" \in Sides BY DEF Sides
<1>3. Max({0, queue[q].txLock}) = Noticed(q, "receive")
  <2>1. PICK x \in Int : x = queue[q].txLock BY <1>1
  <2> QED BY <2>1, MaxZero DEF Noticed
<1>4. Max({0, queue[q].rxLock}) = Noticed(q, "send")
  <2>1. PICK x \in {-1, 0} : x = queue[q].rxLock BY <1>1
  <2>2. Max({0, x}) = 0 BY <2>1, MaxZero
  <2> QED BY <2>1, <2>2 DEF Noticed
<1>5. Served(q, "receive") /\ Served(q, "send") BY <1>2 DEF AllServed
<1> QED BY <1>3, <1>4, <1>5 DEF Served, Room

\* The numbers that Served compares.
Numbers(q, op) ==
  /\ Room(q, op) \in Nat /\ Noticed(q, op) \in Nat
  /\ IsFiniteSet(Looking(q, op)) /\ Cardinality(Looking(q, op)) \in Nat
  /\ kernel.events[<<q, op>>] \in Seq(Task) /\ IsInjective(kernel.events[<<q, op>>])

LEMMA NumbersAre == KernelInv => \A q \in Handles : \A op \in Sides : Numbers(q, op)
<1> SUFFICES ASSUME KernelInv, NEW q \in Handles, NEW op \in Sides PROVE Numbers(q, op)
  OBVIOUS
<1>1. PICK n \in Nat : n = Length[q] BY HandlesAre
<1>2. queue[q].waiting \in 0 .. n /\ queue[q].txLock \in Nat \cup {-1}
  BY <1>1 DEF KernelInv, TypeOK, QueueType, queueUNLOCKED
<1>3. Room(q, op) \in Nat
  <2>1. PICK w \in 0 .. n : w = queue[q].waiting BY <1>2
  <2>2. w \in Nat /\ n - w \in Nat OBVIOUS
  <2> QED BY <1>1, <2>1, <2>2 DEF Room
<1>4. Noticed(q, op) \in Nat BY <1>2 DEF Noticed
<1>5. IsFiniteSet(Looking(q, op)) /\ Cardinality(Looking(q, op)) \in Nat
  <2>1. IsFiniteSet(Task) BY PriorityAssumption
  <2>2. Looking(q, op) \in SUBSET Task BY DEF Looking
  <2>3. IsFiniteSet(Looking(q, op)) BY <2>1, <2>2, FS_Subset
  <2> QED BY <2>3, FS_CardinalityType
<1>6. <<q, op>> \in Events BY DEF Events
<1>7. kernel.events[<<q, op>>] \in Seq(Task) /\ IsInjective(kernel.events[<<q, op>>])
  BY <1>6 DEF KernelInv, TypeOK, Kernels, ListsInv, EventsInv
<1> QED BY <1>3, <1>4, <1>5, <1>7 DEF Numbers

AllNumbers == \A q \in Handles : \A op \in Sides : Numbers(q, op)

LEMMA NumbersNext == KernelInv' => AllNumbers'
<1>1. KernelInv => AllNumbers BY NumbersAre DEF AllNumbers
<1> QED BY <1>1, PTL

LEMMA NotEmpty ==
  ASSUME NEW S, NEW list \in Seq(S), NEW sub \in Seq(S), ToSet(sub) \subseteq ToSet(list),
         sub # <<>>
  PROVE  list # <<>>
<1>1. ToSet(sub) # {} BY ToSetOf
<1>2. ToSet(list) # {} BY <1>1
<1> QED BY <1>2, ToSetOf

(* A step that neither brings anything nor keeps anyone from looking.      *)
LEMMA CalmServes ==
  ASSUME KernelInv, KernelInv', AllServed, Calm
  PROVE  AllServed'
<1> SUFFICES ASSUME NEW q \in Handles, NEW op \in Sides, kernel'.events[<<q, op>>] # <<>>
             PROVE  Room(q, op)' <= Cardinality(Looking(q, op)') + Noticed(q, op)'
  BY DEF AllServed, Served
<1>1. Numbers(q, op) /\ Numbers(q, op)' BY NumbersAre, NumbersNext DEF AllNumbers
<1>2. Room(q, op)' = Room(q, op) BY DEF Calm, Room
<1>3. Noticed(q, op)' = Noticed(q, op) BY DEF Calm, Noticed, queueUNLOCKED, queueLOCKED_UNMODIFIED
<1>4. PICK n \in Nat, c \in Nat, d \in Nat, m \in Nat :
        /\ n = Room(q, op) /\ m = Noticed(q, op)
        /\ c = Cardinality(Looking(q, op)) /\ d = Cardinality(Looking(q, op)')
  BY <1>1 DEF Numbers
<1>5. CASE n = 0
  <2>1. 0 <= d + m OBVIOUS
  <2> QED BY <1>2, <1>3, <1>4, <1>5, <2>1
<1>6. CASE n # 0
  <2>1. /\ Looking(q, op) \subseteq Looking(q, op)'
        /\ ToSet(kernel'.events[<<q, op>>]) \subseteq ToSet(kernel.events[<<q, op>>])
    BY <1>4, <1>6 DEF Calm
  <2>2. c <= d
    <3>1. PICK S, T : S = Looking(q, op) /\ T = Looking(q, op)' OBVIOUS
    <3>2. IsFiniteSet(T) /\ S \in SUBSET T BY <1>1, <2>1, <3>1 DEF Numbers
    <3>3. Cardinality(S) <= Cardinality(T) BY <3>2, FS_Subset
    <3> QED BY <1>4, <3>1, <3>3
  <2>3. kernel.events[<<q, op>>] # <<>> BY <1>1, <2>1, NotEmpty DEF Numbers
  <2>4. n <= c + m BY <1>4, <2>3 DEF AllServed, Served
  <2>5. n <= d + m BY <2>2, <2>4
  <2> QED BY <1>2, <1>3, <1>4, <2>5
<1> QED BY <1>5, <1>6

(* Who leaves a list of waiters looks again: he is in the call it is for.  *)
LEMMA LookersGain ==
  ASSUME KernelInv, KernelInv', NEW q \in Handles, NEW op \in Sides, NEW t, Others(t),
         ToSet(kernel'.events[<<q, op>>]) \subseteq ToSet(kernel.events[<<q, op>>]),
         t \in Task /\ call[t].pc # "app" /\ call[t].q = q /\ call[t].op = op =>
           call'[t].pc # "app" /\ call'[t].q = q /\ call'[t].op = op
  PROVE  Cardinality(Looking(q, op)) + Len(kernel.events[<<q, op>>])
           <= Cardinality(Looking(q, op)') + Len(kernel'.events[<<q, op>>])
<1>1. Numbers(q, op) /\ Numbers(q, op)' BY NumbersAre, NumbersNext DEF AllNumbers
<1>2. PICK list \in Seq(Task), sub \in Seq(Task) :
        list = kernel.events[<<q, op>>] /\ sub = kernel'.events[<<q, op>>]
  BY <1>1 DEF Numbers
<1>3. PICK S, T : S = Looking(q, op) /\ T = Looking(q, op)' OBVIOUS
<1>4. PICK W, V : W = ToSet(list) /\ V = ToSet(sub) OBVIOUS
<1>5. IsFiniteSet(W) /\ Cardinality(W) = Len(list) /\ IsFiniteSet(V) /\ Cardinality(V) = Len(sub)
  BY <1>1, <1>2, <1>4, LengthIsCount DEF Numbers
<1>6. V \subseteq W BY <1>2, <1>4
<1>7. S \cup W \subseteq T \cup V
  <2>1. ASSUME NEW u \in S \cup W PROVE u \in T \cup V
    <3>1. <<q, op>> \in Events BY DEF Events
    <3>2. u \in Task /\ call[u].q = q /\ call[u].op = op /\ call[u].pc # "app"
      <4>1. CASE u \in S BY <1>3, <4>1 DEF Looking
      <4>2. CASE u \in W
        <5>1. u \in Task /\ Waiting(u, <<q, op>>) BY <1>2, <1>4, <4>2, ToSetOf DEF Waiting
        <5>2. <<q, op>> = Waiters(call[u])
              /\ call[u].pc \in {"test", "unlock_blocked", "resume_blocked"}
          BY <3>1, <5>1 DEF KernelInv, CallsInv
        <5> QED BY <5>1, <5>2 DEF Waiters
      <4> QED BY <4>1, <4>2
    <3>3. call'[u].q = q /\ call'[u].op = op /\ call'[u].pc # "app"
      <4>1. CASE u = t BY <3>2, <4>1
      <4>2. CASE u # t BY <3>2, <4>2 DEF Others
      <4> QED BY <4>1, <4>2
    <3>4. u \in V \/ u \in T BY <1>2, <1>3, <1>4, <3>2, <3>3 DEF Looking, Waiting
    <3> QED BY <3>4
  <2> QED BY <2>1
<1>8. S \cap W = {} BY <1>2, <1>3, <1>4 DEF Looking, Waiting
<1>9. IsFiniteSet(S) /\ IsFiniteSet(T) /\ Cardinality(S) \in Nat /\ Cardinality(T) \in Nat
  BY <1>1, <1>3 DEF Numbers
<1>10. IsFiniteSet(S \cup W) /\ Cardinality(S \cup W) = Cardinality(S) + Cardinality(W)
  <2>1. /\ IsFiniteSet(S \cup W)
        /\ Cardinality(S \cup W) = Cardinality(S) + Cardinality(W) - Cardinality(S \cap W)
    BY <1>5, <1>9, FS_Union
  <2>2. Cardinality(S \cap W) = 0 BY <1>8, FS_EmptySet
  <2>3. Cardinality(W) \in Nat BY <1>5, FS_CardinalityType
  <2> QED BY <1>9, <2>1, <2>2, <2>3
<1>11. /\ IsFiniteSet(T \cup V) /\ Cardinality(T \cup V) \in Nat
       /\ Cardinality(T \cup V) <= Cardinality(T) + Cardinality(V)
  <2>1. /\ IsFiniteSet(T \cup V)
        /\ Cardinality(T \cup V) = Cardinality(T) + Cardinality(V) - Cardinality(T \cap V)
    BY <1>5, <1>9, FS_Union
  <2>2. IsFiniteSet(T \cap V) BY <1>9, FS_Intersection
  <2>3. Cardinality(T \cap V) \in Nat /\ Cardinality(V) \in Nat /\ Cardinality(T \cup V) \in Nat
    BY <1>5, <2>1, <2>2, FS_CardinalityType
  <2> QED BY <1>9, <2>1, <2>3
<1>12. Cardinality(S \cup W) <= Cardinality(T \cup V)
  <2>1. S \cup W \in SUBSET (T \cup V) BY <1>7
  <2>2. PICK A, B : A = S \cup W /\ B = T \cup V OBVIOUS
  <2> QED BY <1>11, <2>1, <2>2, FS_Subset
<1>13. Cardinality(S) + Cardinality(W) <= Cardinality(T) + Cardinality(V)
  <2>1. Cardinality(W) \in Nat /\ Cardinality(V) \in Nat BY <1>5, FS_CardinalityType
  <2> QED BY <1>9, <1>10, <1>11, <1>12, <2>1
<1> QED BY <1>2, <1>3, <1>5, <1>13

(* A step that serves one task and wakes another.                          *)
LEMMA PassingServes ==
  ASSUME KernelInv, KernelInv', AllServed, NEW t \in Task, Passing(t)
  PROVE  AllServed'
<1>1. PICK q \in Handles, op \in Sides, other \in Sides : Passes(t, q, op, other)
  BY DEF Passing
<1> SUFFICES ASSUME NEW r \in Handles, NEW side \in Sides, kernel'.events[<<r, side>>] # <<>>
             PROVE  Room(r, side)' <= Cardinality(Looking(r, side)') + Noticed(r, side)'
  BY DEF AllServed, Served
<1>2. Numbers(r, side) /\ Numbers(r, side)' BY NumbersAre, NumbersNext DEF AllNumbers
<1>3. PICK n \in Nat, m \in Nat, c \in Nat, d \in Nat :
        /\ n = Room(r, side) /\ m = Noticed(r, side)
        /\ c = Cardinality(Looking(r, side)) /\ d = Cardinality(Looking(r, side)')
  BY <1>2 DEF Numbers
<1>4. PICK S, T : S = Looking(r, side) /\ T = Looking(r, side)' OBVIOUS
<1>5. IsFiniteSet(S) /\ IsFiniteSet(T) /\ c = Cardinality(S) /\ d = Cardinality(T)
  BY <1>2, <1>3, <1>4 DEF Numbers
<1>6. <<r, side>> \in Events BY DEF Events
<1>7. Others(t) BY <1>1 DEF Passes
<1>8. Noticed(r, side)' = Noticed(r, side) BY <1>1 DEF Passes, Noticed
<1>9. CASE r # q
  <2>1. Room(r, side)' = Room(r, side) BY <1>1, <1>9 DEF Passes, Room
  <2>2. kernel'.events[<<r, side>>] = kernel.events[<<r, side>>]
    <3>1. <<r, side>> # <<q, other>> BY <1>9
    <3> QED BY <1>1, <1>6, <3>1 DEF Passes
  <2>3. S \subseteq T
    <3>1. t \notin S BY <1>1, <1>4, <1>9 DEF Passes, Looking
    <3>2. S \ {t} \subseteq T BY <1>4, <1>7, <2>2, LookingStays
    <3> QED BY <3>1, <3>2
  <2>4. c <= d BY <1>5, <2>3, FS_Subset
  <2>5. n <= c + m BY <1>3, <2>2 DEF AllServed, Served
  <2>6. n <= d + m BY <2>4, <2>5
  <2> QED BY <1>3, <1>8, <2>1, <2>6
<1>10. CASE r = q /\ side = op
  <2>1. Room(r, side)' = Room(r, side) - 1
    <3>1. PICK l \in Nat, w \in Nat : l = Length[q] /\ w = queue[q].waiting
      <4>1. Length[q] \in Nat BY HandlesAre
      <4>2. queue[q].waiting \in 0 .. Length[q] BY DEF KernelInv, TypeOK, QueueType
      <4> QED BY <4>1, <4>2
    <3>2. l - (w + 1) = (l - w) - 1 OBVIOUS
    <3>3. Moved(q, op) BY <1>1 DEF Passes
    <3> QED BY <1>10, <3>1, <3>2, <3>3 DEF Moved, Room, Sides
  <2>2. kernel'.events[<<r, side>>] = kernel.events[<<r, side>>]
    <3>1. <<r, side>> # <<q, other>> BY <1>1, <1>10 DEF Passes
    <3> QED BY <1>1, <1>6, <3>1 DEF Passes
  <2>3. S \ {t} \subseteq T BY <1>4, <1>7, <2>2, LookingStays
  <2>4. c - 1 <= d
    <3>1. IsFiniteSet(S \ {t}) /\ Cardinality(S \ {t}) \in {c - 1, c}
      BY <1>5, FS_RemoveElement
    <3>2. Cardinality(S \ {t}) <= d BY <1>5, <2>3, FS_Subset
    <3> QED BY <3>1, <3>2
  <2>5. n <= c + m BY <1>3, <2>2 DEF AllServed, Served
  <2>6. n - 1 <= d + m BY <2>4, <2>5
  <2> QED BY <1>3, <1>8, <2>1, <2>6
<1>11. CASE r = q /\ side = other
  <2>1. Room(r, side)' = Room(r, side) + 1
    <3>1. PICK l \in Nat, w \in Nat : l = Length[q] /\ w = queue[q].waiting
      <4>1. Length[q] \in Nat BY HandlesAre
      <4>2. queue[q].waiting \in 0 .. Length[q] BY DEF KernelInv, TypeOK, QueueType
      <4> QED BY <4>1, <4>2
    <3>2. l - (w - 1) = (l - w) + 1 OBVIOUS
    <3>3. Moved(q, op) /\ op # other BY <1>1 DEF Passes
    <3> QED BY <1>11, <3>1, <3>2, <3>3 DEF Moved, Room, Sides
  <2>2. PICK list \in Seq(Task), sub \in Seq(Task) :
          list = kernel.events[<<r, side>>] /\ sub = kernel'.events[<<r, side>>]
    BY <1>2 DEF Numbers
  <2>3. list # <<>> /\ sub = Tail(list) BY <1>1, <1>11, <2>2 DEF Passes
  <2>4. Len(sub) = Len(list) - 1 /\ Len(list) \in Nat BY <2>3
  <2>5. ToSet(sub) \subseteq ToSet(list)
    <3>1. IsInjective(list) BY <1>2, <2>2 DEF Numbers
    <3> QED BY <2>3, <3>1, TailIs DEF Lacks
  <2>6. c + Len(list) <= d + Len(sub)
    <3>1. ~(call[t].pc # "app" /\ call[t].q = r /\ call[t].op = side)
      BY <1>1, <1>11 DEF Passes
    <3> QED BY <1>3, <1>7, <2>2, <2>5, <3>1, LookersGain
  <2>7. n <= c + m BY <1>3, <2>2, <2>3 DEF AllServed, Served
  <2>8. n + 1 <= d + m BY <2>4, <2>6, <2>7
  <2> QED BY <1>3, <1>8, <2>1, <2>8
<1>12. r = q => side = op \/ side = other BY <1>1 DEF Passes, Sides
<1> QED BY <1>9, <1>10, <1>11, <1>12

(* prvUnlockQueue wakes one for each message noted in the lock, if it can. *)
LEMMA UnlockServes ==
  ASSUME KernelInv, KernelInv', AllServed, NEW t \in Task, prvUnlockQueue(t)
  PROVE  AllServed'
<1>1. PICK q : q = call[t].q OBVIOUS
<1>2. /\ kernel.current = t /\ call[t].pc \in {"unlock", "unlock_blocked", "unlock_late"}
      /\ Goto(t, After[call[t].pc])
      /\ queue' = [queue EXCEPT ![q].txLock = queueUNLOCKED, ![q].rxLock = queueUNLOCKED]
  BY <1>1, AfterIs DEF prvUnlockQueue, At
<1>3. /\ q \in Handles /\ <<q, "receive">> \in Events /\ queue[q].txLock \in Nat
      /\ Drained(kernel', kernel, <<q, "receive">>)
      /\ kernel'.events[<<q, "receive">>] = <<>>
           \/ Len(kernel'.events[<<q, "receive">>]) + queue[q].txLock
                = Len(kernel.events[<<q, "receive">>])
  BY <1>1, UnlockedIs DEF Unlocked
<1>4. /\ Others(t) /\ call'[t].pc # "app" /\ call'[t].q = call[t].q /\ call'[t].op = call[t].op
  <2>1. PICK pc : pc = After[call[t].pc] OBVIOUS
  <2>2. pc \in {"resume", "resume_blocked", "resume_late"} BY <1>2, <2>1, AfterIs
  <2>3. pc \in PCs /\ pc # "app" BY <2>2 DEF PCs, Critical
  <2>4. Goto(t, pc) BY <1>2, <2>1
  <2> QED BY <2>3, <2>4, GotoIs DEF KernelInv, OneCall
<1>5. /\ \A r \in Handles : queue'[r].waiting = queue[r].waiting
      /\ \A r \in Handles : r # q => queue'[r] = queue[r]
      /\ queue'[q].txLock = -1
  <2>1. PICK s : s = [queue[q] EXCEPT !.txLock = -1, !.rxLock = -1] OBVIOUS
  <2>2. s \in QueueType(q) /\ s.txLock = -1 /\ s.waiting = queue[q].waiting
    <3>1. queue[q] \in QueueType(q) BY <1>3 DEF KernelInv, TypeOK
    <3> QED BY <2>1, <3>1 DEF QueueType, queueUNLOCKED
  <2>3. queue' = [queue EXCEPT ![q] = s] BY <1>2, <2>1 DEF queueUNLOCKED
  <2>4. OneQueue(q, s) BY <1>3, <2>2, <2>3, OneQueueIs DEF KernelInv
  <2> QED BY <2>2, <2>4 DEF OneQueue
<1> SUFFICES ASSUME NEW r \in Handles, NEW op \in Sides, kernel'.events[<<r, op>>] # <<>>
             PROVE  Room(r, op)' <= Cardinality(Looking(r, op)') + Noticed(r, op)'
  BY DEF AllServed, Served
<1>6. Numbers(r, op) /\ Numbers(r, op)' BY NumbersAre, NumbersNext DEF AllNumbers
<1>7. PICK n \in Nat, m \in Nat, c \in Nat, d \in Nat :
        /\ n = Room(r, op) /\ m = Noticed(r, op)
        /\ c = Cardinality(Looking(r, op)) /\ d = Cardinality(Looking(r, op)')
  BY <1>6 DEF Numbers
<1>8. Room(r, op)' = Room(r, op) BY <1>5 DEF Room
<1>9. PICK list \in Seq(Task), sub \in Seq(Task) :
        list = kernel.events[<<r, op>>] /\ sub = kernel'.events[<<r, op>>]
  BY <1>6 DEF Numbers
<1>10. <<r, op>> \in Events BY DEF Events
<1>11. ToSet(sub) \subseteq ToSet(list) BY <1>3, <1>9, <1>10 DEF Drained
<1>12. list # <<>> BY <1>9, <1>11, NotEmpty
<1>13. n <= c + m BY <1>7, <1>9, <1>12 DEF AllServed, Served
<1>14. c + Len(list) <= d + Len(sub) BY <1>4, <1>7, <1>9, <1>11, LookersGain
<1>15. PICK many \in Nat, few \in Nat : many = Len(list) /\ few = Len(sub) BY <1>9
<1>16. CASE <<r, op>> = <<q, "receive">>
  <2>1. r = q /\ op = "receive" BY <1>16
  <2>2. m = queue[q].txLock BY <1>3, <1>7, <2>1 DEF Noticed
  <2>3. few + m = many BY <1>3, <1>9, <1>15, <2>1, <2>2
  <2>4. n <= d BY <1>13, <1>14, <1>15, <2>3
  <2>5. Noticed(r, op)' \in Nat BY <1>6 DEF Numbers
  <2> QED BY <1>7, <1>8, <2>4, <2>5
<1>17. CASE <<r, op>> # <<q, "receive">>
  <2>1. sub = list BY <1>3, <1>9, <1>10, <1>17 DEF Drained
  <2>2. c <= d BY <1>14, <1>15, <2>1
  <2>3. Noticed(r, op)' = m
    <3>1. op # "receive" \/ r # q BY <1>17
    <3> QED BY <1>5, <1>7, <3>1 DEF Noticed
  <2>4. n <= d + m BY <1>13, <2>2
  <2> QED BY <1>7, <1>8, <2>3, <2>4
<1> QED BY <1>16, <1>17

(* What an interrupt gives wakes a task, or is noted in the lock.          *)
LEMMA GiveServes ==
  ASSUME KernelInv, KernelInv', AllServed, NEW q \in FromISR, GiveFromISR(q)
  PROVE  AllServed'
<1>1. PICK s : s = queue'[q] OBVIOUS
<1>2. q \in Handles /\ Noted(q, s) BY <1>1, NotedIs
<1>3. /\ s.waiting = queue[q].waiting + 1 /\ \A r \in Handles : r # q => queue'[r] = queue[r]
  BY <1>2 DEF Noted, OneQueue
<1>4. call' = call BY DEF GiveFromISR
<1>5. Others(None) /\ None \notin Task BY <1>4, HandlesAre DEF Others
<1> SUFFICES ASSUME NEW r \in Handles, NEW op \in Sides, kernel'.events[<<r, op>>] # <<>>
             PROVE  Room(r, op)' <= Cardinality(Looking(r, op)') + Noticed(r, op)'
  BY DEF AllServed, Served
<1>6. Numbers(r, op) /\ Numbers(r, op)' BY NumbersAre, NumbersNext DEF AllNumbers
<1>7. PICK n \in Nat, m \in Nat, c \in Nat, d \in Nat :
        /\ n = Room(r, op) /\ m = Noticed(r, op)
        /\ c = Cardinality(Looking(r, op)) /\ d = Cardinality(Looking(r, op)')
  BY <1>6 DEF Numbers
<1>8. PICK list \in Seq(Task), sub \in Seq(Task) :
        list = kernel.events[<<r, op>>] /\ sub = kernel'.events[<<r, op>>]
  BY <1>6 DEF Numbers
<1>9. <<r, op>> \in Events BY DEF Events
<1>10. ToSet(sub) \subseteq ToSet(list)
  <2>1. CASE kernel' = kernel BY <1>8, <2>1
  <2>2. CASE Told(kernel', kernel, <<q, "receive">>) BY <1>8, <1>9, <2>2 DEF Told
  <2> QED BY <1>2, <2>1, <2>2 DEF Noted
<1>11. list # <<>> BY <1>8, <1>10, NotEmpty
<1>12. n <= c + m BY <1>7, <1>8, <1>11 DEF AllServed, Served
<1>13. c + Len(list) <= d + Len(sub) BY <1>5, <1>7, <1>8, <1>10, LookersGain
<1>14. PICK many \in Nat, few \in Nat : many = Len(list) /\ few = Len(sub) BY <1>8
<1>15. queue[q].waiting \in Nat /\ Length[q] \in Nat
  <2>1. Length[q] \in Nat BY <1>2, HandlesAre
  <2>2. queue[q].waiting \in 0 .. Length[q] BY <1>2 DEF KernelInv, TypeOK, QueueType
  <2> QED BY <2>1, <2>2
<1>16. CASE r = q /\ op = "receive"
  <2>1. Room(r, op)' = n + 1 BY <1>1, <1>3, <1>7, <1>16 DEF Room
  <2>2. CASE queue[q].txLock = queueUNLOCKED
    <3>1. Told(kernel', kernel, <<q, "receive">>) BY <1>2, <2>2 DEF Noted, queueUNLOCKED
    <3>2. sub = Tail(list) BY <1>8, <1>16, <3>1 DEF Told
    <3>3. few + 1 = many BY <1>11, <1>14, <3>2
    <3>4. m = 0 BY <1>7, <1>16, <2>2 DEF Noticed, queueUNLOCKED
    <3>5. Noticed(r, op)' \in Nat BY <1>6 DEF Numbers
    <3>6. n + 1 <= d BY <1>12, <1>13, <1>14, <3>3, <3>4
    <3> QED BY <1>7, <2>1, <3>5, <3>6
  <2>3. CASE queue[q].txLock # queueUNLOCKED
    <3>1. queue[q].txLock \in Nat /\ s.txLock = queue[q].txLock + 1 /\ kernel' = kernel
      BY <1>2, <2>3 DEF Noted
    <3>2. Noticed(r, op)' = m + 1 BY <1>1, <1>7, <1>16, <3>1 DEF Noticed
    <3>3. c <= d BY <1>8, <1>13, <1>14, <3>1
    <3>4. n + 1 <= d + (m + 1) BY <1>12, <3>3
    <3> QED BY <1>7, <2>1, <3>2, <3>4
  <2> QED BY <2>2, <2>3
<1>17. CASE ~(r = q /\ op = "receive")
  <2>1. sub = list
    <3>1. CASE kernel' = kernel BY <1>8, <3>1
    <3>2. CASE Told(kernel', kernel, <<q, "receive">>)
      <4>1. <<r, op>> # <<q, "receive">> BY <1>17
      <4> QED BY <1>8, <1>9, <3>2, <4>1 DEF Told
    <3> QED BY <1>2, <3>1, <3>2 DEF Noted
  <2>2. c <= d BY <1>13, <1>14, <2>1
  <2>3. Noticed(r, op)' = m BY <1>3, <1>7, <1>17 DEF Noticed
  <2>4. Room(r, op)' <= n
    <3>1. CASE r # q BY <1>3, <1>7, <3>1 DEF Room
    <3>2. CASE r = q
      <4>1. PICK l \in Nat, w \in Nat : l = Length[q] /\ w = queue[q].waiting BY <1>15
      <4>2. l - (w + 1) <= l - w OBVIOUS
      <4>3. op # "receive" BY <1>17, <3>2
      <4> QED BY <1>1, <1>3, <1>7, <3>2, <4>1, <4>2, <4>3 DEF Room
    <3> QED BY <3>1, <3>2
  <2>5. Room(r, op)' \in Nat BY <1>6 DEF Numbers
  <2>6. Room(r, op)' <= d + m BY <1>12, <2>2, <2>4, <2>5
  <2> QED BY <1>7, <2>3, <2>6
<1> QED BY <1>16, <1>17

(* While a task waits on a queue there are no more messages in it, or places   *)
(* for one, than tasks on their way to take them and wake-ups noted in the     *)
(* lock: between the look at a queue and the wait for it, prvLockQueue and the *)
(* interrupts it holds off, nothing that comes is forgotten.                   *)
THEOREM NoLostWakeupAlways == Spec => []NoLostWakeup
<1>1. Init => KernelInv /\ AllServed
  <2> SUFFICES ASSUME Init PROVE KernelInv /\ AllServed OBVIOUS
  <2>1. \A q \in Handles : \A op \in Sides : kernel.events[<<q, op>>] = <<>>
    BY InitKernel DEF Events
  <2> QED BY <2>1, InitStep DEF AllServed, Served
<1>2. KernelInv /\ AllServed /\ [Next]_vars => (KernelInv /\ AllServed)'
  <2> SUFFICES ASSUME KernelInv, AllServed, [Next]_vars PROVE KernelInv' /\ AllServed'
    OBVIOUS
  <2>1. KernelInv' BY StepKeeps
  <2>2. ASSUME NEW t \in Task, Step(t) PROVE AllServed'
    <3>1. CASE Send(t) \/ Receive(t) \/ Take(t)
      BY <2>1, <3>1, SendStep, ReceiveStep, TakeStep, PassingServes
    <3>2. CASE prvUnlockQueue(t) BY <2>1, <3>2, UnlockServes
    <3>3. CASE \/ Refused(t) \/ Enter(t) \/ vTaskSuspendAll(t) \/ Lock(t) \/ Place(t)
               \/ TryAgain(t) \/ vTaskDelay(t) \/ Resume(t) \/ LookAgain(t) \/ GiveUp(t)
               \/ Awake(t)
      <4>1. Calm
        BY <3>3, RefusedStep, EnterStep, SuspendStep, LockStep, PlaceStep, TryAgainStep,
           DelayStep, ResumeStep, LookAgainStep, ReturnStep
      <4> QED BY <2>1, <4>1, CalmServes
    <3> QED BY <2>2, <3>1, <3>2, <3>3 DEF Step
  <2>3. ASSUME NEW q \in FromISR, GiveFromISR(q) PROVE AllServed'
    BY <2>1, <2>3, GiveServes
  <2>4. CASE Tick BY <2>1, <2>4, TickStep, CalmServes
  <2>5. CASE UNCHANGED vars
    <3>1. kernel' = kernel /\ queue' = queue /\ call' = call BY <2>5 DEF vars
    <3>2. Others(None) /\ None \notin Task BY <3>1, HandlesAre DEF Others
    <3>3. Calm BY <3>1, <3>2, CalmIs DEF KernelInv
    <3> QED BY <2>1, <3>3, CalmServes
  <2> QED BY <2>1, <2>2, <2>3, <2>4, <2>5 DEF Next
<1> QED BY <1>1, <1>2, ServedIs, PTL DEF Spec

-----------------------------------------------------------------------------
(* What a queue holds, and how the two indexes of its store agree *)

\* The store of a mailbox is full from its index to read, up to the one to write.
Stored(q, s) ==
  q \in Mailboxes => s.writeTo = (s.readFrom + 1 + s.waiting) % Length[q]

Filled(q, s) ==
  [i \in 1 .. s.waiting |->
     IF q \in Mailboxes THEN s.items[(s.readFrom + i) % Length[q]] ELSE None]

\* An index that has gone round once, or twice.
Round(a, n) == IF a < n THEN a ELSE IF a < 2 * n THEN a - n ELSE a - 2 * n

LEMMA DivisionIs ==
  ASSUME NEW n \in Nat \ {0}, NEW j \in Int
  PROVE  j = n * (j \div n) + (j % n) /\ j % n \in 0 .. n - 1 /\ j \div n \in Int
OBVIOUS

LEMMA OnceRound ==
  ASSUME NEW n \in Nat \ {0}, NEW j \in Nat
  PROVE  (j + n) % n = j % n
<1>1. PICK r \in 0 .. n - 1, p \in Int : r = j % n /\ j = n * p + r
  <2>1. PICK r, p : r = j % n /\ p = j \div n OBVIOUS
  <2>2. r \in 0 .. n - 1 /\ p \in Int /\ j = n * p + r BY <2>1, DivisionIs
  <2> QED BY <2>1, <2>2
<1>2. j + n \in Int OBVIOUS
<1>3. PICK s \in 0 .. n - 1, q \in Int : s = (j + n) % n /\ j + n = n * q + s
  <2>1. PICK s, q : s = (j + n) % n /\ q = (j + n) \div n OBVIOUS
  <2>2. s \in 0 .. n - 1 /\ q \in Int /\ j + n = n * q + s BY <1>2, <2>1, DivisionIs
  <2> QED BY <2>1, <2>2
<1>4. PICK d \in Int : d = q - (p + 1) BY <1>1, <1>3
<1>5. n * d = r - s
  <2>1. n * (q - (p + 1)) = n * q - (n * p + n) OBVIOUS
  <2>2. PICK a \in Int, b \in Int : a = n * p /\ b = n * q OBVIOUS
  <2>3. n * d = b - (a + n) BY <1>4, <2>1, <2>2
  <2>4. j = a + r /\ j + n = b + s BY <1>1, <1>3, <2>2
  <2> QED BY <2>3, <2>4
<1>6. d = 0
  <2>1. ASSUME d >= 1 PROVE FALSE
    <3>1. n * d >= n BY <2>1
    <3> QED BY <1>1, <1>3, <1>5, <3>1
  <2>2. ASSUME d <= -1 PROVE FALSE
    <3>1. n * d <= -n BY <2>2
    <3> QED BY <1>1, <1>3, <1>5, <3>1
  <2> QED BY <2>1, <2>2
<1>7. n * d = 0 BY <1>6
<1> QED BY <1>1, <1>3, <1>5, <1>7

LEMMA RoundIs ==
  ASSUME NEW n \in Nat \ {0}, NEW a \in 0 .. 2 * n
  PROVE  a % n = Round(a, n) /\ Round(a, n) \in 0 .. n - 1
<1>1. \A j \in 0 .. n - 1 : j % n = j OBVIOUS
<1>2. \A j \in Nat : (j + n) % n = j % n BY OnceRound
<1>3. CASE a < n BY <1>1, <1>3 DEF Round
<1>4. CASE a >= n /\ a < 2 * n
  <2>1. PICK b \in 0 .. n - 1 : b = a - n BY <1>4
  <2>2. a = b + n BY <2>1
  <2> QED BY <1>1, <1>2, <1>4, <2>1, <2>2 DEF Round
<1>5. CASE a = 2 * n
  <2>1. (0 + n) % n = 0 BY <1>1, <1>2
  <2>2. (n + n) % n = n % n BY <1>2
  <2>3. a = n + n BY <1>5
  <2> QED BY <1>5, <2>1, <2>2, <2>3 DEF Round
<1> QED BY <1>3, <1>4, <1>5

LEMMA FilledIs ==
  ASSUME NEW q \in Handles, NEW s \in QueueType(q)
  PROVE  /\ Filled(q, s) \in Seq(Message) /\ Len(Filled(q, s)) = s.waiting
         /\ s.waiting \in Nat /\ s.waiting <= Length[q]
         /\ Filled(q, s) = <<>> <=> s.waiting = 0
         /\ \A i \in 1 .. s.waiting :
              Filled(q, s)[i] = IF q \in Mailboxes
                                THEN s.items[Round(s.readFrom + i, Length[q])] ELSE None
<1>1. PICK n \in Nat \ {0} : n = Length[q] BY HandlesAre
<1>2. PICK w \in 0 .. n, from \in 0 .. n - 1, items \in [0 .. n - 1 -> Message] :
        w = s.waiting /\ from = s.readFrom /\ items = s.items
  BY <1>1 DEF QueueType
<1>3. w \in Nat /\ from \in Nat /\ w <= n OBVIOUS
<1>4. ASSUME NEW i \in 1 .. w
      PROVE  /\ (from + i) % n = Round(from + i, n)
             /\ Round(from + i, n) \in 0 .. n - 1
  <2>1. from + i \in 0 .. 2 * n BY <1>3
  <2> QED BY <2>1, RoundIs
<1>5. PICK f : f = Filled(q, s) OBVIOUS
<1>6. f = [i \in 1 .. w |-> IF q \in Mailboxes THEN items[(from + i) % n] ELSE None]
  BY <1>1, <1>2, <1>5 DEF Filled
<1>7. \A i \in 1 .. w :
        f[i] = IF q \in Mailboxes THEN items[Round(from + i, n)] ELSE None
  BY <1>4, <1>6
<1>8. \A i \in 1 .. w : f[i] \in Message BY <1>4, <1>7 DEF Message
<1>9. f \in [1 .. w -> Message] BY <1>6, <1>8
<1>10. f \in Seq(Message) /\ Len(f) = w BY <1>3, <1>9
<1>11. f = <<>> <=> w = 0 BY <1>3, <1>10, EmptySeq
<1> QED BY <1>1, <1>2, <1>3, <1>5, <1>7, <1>10, <1>11

\* Nothing that is told of what a queue holds has changed.
SameStore(d, s) ==
  /\ d.waiting = s.waiting /\ d.items = s.items
  /\ d.writeTo = s.writeTo /\ d.readFrom = s.readFrom

LEMMA SameFilled ==
  ASSUME NEW q, NEW s, NEW d, SameStore(d, s)
  PROVE  Filled(q, d) = Filled(q, s) /\ (Stored(q, s) => Stored(q, d))
BY DEF SameStore, Filled, Stored

\* What is sent to a mailbox goes where it writes next, a token nowhere.
Posted(d, s, q, message) ==
  /\ d.waiting = s.waiting + 1 /\ d.readFrom = s.readFrom
  /\ q \in Mailboxes => /\ d.items = [s.items EXCEPT ![s.writeTo] = message]
                        /\ d.writeTo = Succ(q, s.writeTo)

LEMMA PostedIs ==
  ASSUME NEW q \in Handles, NEW s \in QueueType(q), NEW d \in QueueType(q),
         NEW message \in Message, Posted(d, s, q, message), Stored(q, s),
         q \notin Mailboxes => message = None
  PROVE  Filled(q, d) = Append(Filled(q, s), message) /\ Stored(q, d)
<1>1. PICK n \in Nat \ {0} : n = Length[q] BY HandlesAre
<1>2. PICK w \in 0 .. n, from \in 0 .. n - 1 : w = s.waiting /\ from = s.readFrom
  BY <1>1 DEF QueueType
<1>3. w \in Nat /\ from \in Nat /\ from <= n - 1 OBVIOUS
<1>4. d.waiting = w + 1 /\ d.readFrom = from /\ w + 1 <= n
  <2>1. d.waiting = w + 1 /\ d.readFrom = from BY <1>2 DEF Posted
  <2>2. d.waiting \in 0 .. n BY <1>1 DEF QueueType
  <2> QED BY <2>1, <2>2
<1>5. PICK f \in Seq(Message), g \in Seq(Message) :
        /\ f = Filled(q, s) /\ g = Filled(q, d) /\ Len(f) = w /\ Len(g) = w + 1
        /\ \A i \in 1 .. w :
             f[i] = IF q \in Mailboxes THEN s.items[Round(from + i, n)] ELSE None
        /\ \A i \in 1 .. w + 1 :
             g[i] = IF q \in Mailboxes THEN d.items[Round(from + i, n)] ELSE None
  <2>1. PICK f, g : f = Filled(q, s) /\ g = Filled(q, d) OBVIOUS
  <2> QED BY <1>1, <1>2, <1>4, <2>1, FilledIs
<1>6. PICK h \in Seq(Message) : h = Append(f, message) BY AppendProperties
<1>7. /\ Len(h) = w + 1 /\ h[w + 1] = message /\ \A i \in 1 .. w : h[i] = f[i]
  BY <1>3, <1>5, <1>6
<1>8. CASE q \in Mailboxes
  <2>1. from + 1 + w \in 0 .. 2 * n BY <1>3, <1>4
  <2>2. PICK to \in 0 .. n - 1 :
          s.writeTo = to /\ to = Round(from + 1 + w, n)
    <3>1. s.writeTo = (from + 1 + w) % n BY <1>1, <1>2, <1>8 DEF Stored
    <3> QED BY <2>1, <3>1, RoundIs
  <2>3. PICK items \in [0 .. n - 1 -> Message],
              after \in [0 .. n - 1 -> Message] :
          items = s.items /\ after = d.items /\ after = [items EXCEPT ![to] = message]
    BY <1>1, <1>8, <2>2 DEF Posted, QueueType
  <2>4. ASSUME NEW i \in 1 .. w PROVE g[i] = f[i]
    <3>1. PICK at \in 0 .. n - 1 : at = Round(from + i, n)
      <4>1. from + i \in 0 .. 2 * n BY <1>3, <1>4
      <4> QED BY <4>1, RoundIs
    <3>2. at # to BY <1>3, <1>4, <2>2, <3>1 DEF Round
    <3>3. i \in 1 .. w + 1 BY <1>3
    <3>4. after[at] = items[at] BY <2>3, <3>2
    <3> QED BY <1>5, <1>8, <2>3, <3>1, <3>3, <3>4
  <2>5. g[w + 1] = message
    <3>1. from + (w + 1) = from + 1 + w BY <1>3
    <3>2. w + 1 \in 1 .. w + 1 BY <1>3
    <3>3. g[w + 1] = after[to] BY <1>5, <1>8, <2>2, <2>3, <3>1, <3>2
    <3> QED BY <2>3, <3>3
  <2>6. \A i \in 1 .. w + 1 : g[i] = h[i]
    <3>1. \A i \in 1 .. w + 1 : i \in 1 .. w \/ i = w + 1 BY <1>3
    <3> QED BY <1>7, <2>4, <2>5, <3>1
  <2>7. g = h BY <1>5, <1>7, <2>6, SeqEqual
  <2>8. Stored(q, d)
    <3>1. PICK next : next = (to + 1) % n OBVIOUS
    <3>2. d.writeTo = next BY <1>1, <1>8, <2>2, <3>1 DEF Posted, Succ
    <3>3. to + 1 \in 0 .. 2 * n OBVIOUS
    <3>4. next = Round(to + 1, n) BY <3>1, <3>3, RoundIs
    <3>5. PICK sum : sum = from + 1 + (w + 1) OBVIOUS
    <3>6. sum \in 0 .. 2 * n BY <1>3, <1>4, <3>5
    <3>7. sum % n = Round(sum, n) BY <3>6, RoundIs
    <3>8. Round(sum, n) = Round(to + 1, n) BY <1>3, <1>4, <2>2, <3>5 DEF Round
    <3>9. d.writeTo = (d.readFrom + 1 + d.waiting) % Length[q]
      BY <1>1, <1>4, <3>2, <3>4, <3>5, <3>7, <3>8
    <3> QED BY <3>9 DEF Stored
  <2> QED BY <1>5, <1>6, <2>7, <2>8
<1>9. CASE q \notin Mailboxes
  <2>1. message = None BY <1>9
  <2>2. \A i \in 1 .. w : i \in 1 .. w + 1 BY <1>3
  <2>3. \A i \in 1 .. w + 1 : i \in 1 .. w \/ i = w + 1 BY <1>3
  <2>4. \A i \in 1 .. w + 1 : g[i] = h[i] BY <1>5, <1>7, <1>9, <2>1, <2>2, <2>3
  <2>5. g = h BY <1>5, <1>7, <2>4, SeqEqual
  <2> QED BY <1>5, <1>6, <1>9, <2>5 DEF Stored
<1> QED BY <1>8, <1>9

\* What is received from a mailbox is where it reads next, and is forgotten.
Fetched(d, s, q) ==
  /\ d.waiting = s.waiting - 1
  /\ q \in Mailboxes =>
       LET from == Succ(q, s.readFrom)
       IN  /\ d.items = [s.items EXCEPT ![from] = None]
           /\ d.readFrom = from /\ d.writeTo = s.writeTo

LEMMA FetchedIs ==
  ASSUME NEW q \in Handles, NEW s \in QueueType(q), NEW d \in QueueType(q),
         Fetched(d, s, q), Stored(q, s), s.waiting # 0
  PROVE  Filled(q, s) # <<>> /\ Filled(q, d) = Tail(Filled(q, s)) /\ Stored(q, d)
<1>1. PICK n \in Nat \ {0} : n = Length[q] BY HandlesAre
<1>2. PICK w \in 0 .. n, from \in 0 .. n - 1 : w = s.waiting /\ from = s.readFrom
  BY <1>1 DEF QueueType
<1>3. w \in Nat \ {0} /\ from \in Nat /\ from <= n - 1 /\ w <= n BY <1>2
<1>4. PICK v \in Nat : v = w - 1 BY <1>3
<1>5. d.waiting = v BY <1>2, <1>4 DEF Fetched
<1>6. PICK f \in Seq(Message), g \in Seq(Message) :
        /\ f = Filled(q, s) /\ g = Filled(q, d) /\ Len(f) = w /\ Len(g) = v
        /\ f # <<>>
        /\ \A i \in 1 .. w :
             f[i] = IF q \in Mailboxes THEN s.items[Round(from + i, n)] ELSE None
        /\ \A i \in 1 .. v :
             g[i] = IF q \in Mailboxes THEN d.items[Round(d.readFrom + i, n)] ELSE None
  <2>1. PICK f, g : f = Filled(q, s) /\ g = Filled(q, d) OBVIOUS
  <2> QED BY <1>1, <1>2, <1>3, <1>5, <2>1, FilledIs
<1>7. PICK h \in Seq(Message) : h = Tail(f) BY <1>6, HeadTailProperties
<1>8. Len(h) = v /\ \A i \in 1 .. v : h[i] = f[i + 1]
  BY <1>4, <1>6, <1>7, HeadTailProperties
<1>9. \A i \in 1 .. v : i + 1 \in 1 .. w BY <1>4
<1>10. CASE q \in Mailboxes
  <2>1. from + 1 \in 0 .. 2 * n BY <1>3
  <2>2. PICK at \in 0 .. n - 1 : at = (from + 1) % n /\ at = Round(from + 1, n)
    BY <2>1, RoundIs
  <2>3. PICK items \in [0 .. n - 1 -> Message],
              after \in [0 .. n - 1 -> Message] :
          /\ items = s.items /\ after = d.items /\ after = [items EXCEPT ![at] = None]
          /\ d.readFrom = at /\ d.writeTo = s.writeTo
    BY <1>1, <1>2, <1>10, <2>2 DEF Fetched, Succ, QueueType
  <2>4. ASSUME NEW i \in 1 .. v PROVE g[i] = h[i]
    <3>1. PICK here \in 0 .. n - 1 : here = Round(at + i, n)
      <4>1. at + i \in 0 .. 2 * n BY <1>3, <1>4
      <4> QED BY <4>1, RoundIs
    <3>2. here = Round(from + (i + 1), n) BY <1>3, <1>4, <2>2, <3>1 DEF Round
    <3>3. here # at BY <1>3, <1>4, <2>2, <3>1 DEF Round
    <3>4. after[here] = items[here] BY <2>3, <3>3
    <3>5. g[i] = after[here] BY <1>6, <1>10, <2>3, <3>1
    <3>6. f[i + 1] = items[here] BY <1>6, <1>9, <1>10, <2>3, <3>2
    <3> QED BY <1>8, <3>4, <3>5, <3>6
  <2>5. g = h BY <1>6, <1>8, <2>4, SeqEqual
  <2>6. Stored(q, d)
    <3>1. s.writeTo = (from + 1 + w) % n BY <1>1, <1>2, <1>10 DEF Stored
    <3>2. from + 1 + w \in 0 .. 2 * n /\ at + 1 + v \in 0 .. 2 * n BY <1>3, <1>4
    <3>3. (from + 1 + w) % n = Round(from + 1 + w, n) BY <3>2, RoundIs
    <3>4. (at + 1 + v) % n = Round(at + 1 + v, n) BY <3>2, RoundIs
    <3>5. Round(at + 1 + v, n) = Round(from + 1 + w, n)
      <4>1. CASE from + 1 < n
        <5>1. at = from + 1 BY <2>2, <4>1 DEF Round
        <5>2. at + 1 + v = from + 1 + w BY <1>3, <1>4, <5>1
        <5> QED BY <5>2
      <4>2. CASE ~(from + 1 < n)
        <5>1. from + 1 = n BY <1>3, <4>2
        <5>2. at = 0 BY <2>2, <5>1 DEF Round
        <5>3. at + 1 + v = w /\ from + 1 + w = n + w BY <1>3, <1>4, <5>1, <5>2
        <5>4. Round(w, n) = Round(n + w, n) BY <1>3 DEF Round
        <5> QED BY <5>3, <5>4
      <4> QED BY <4>1, <4>2
    <3>6. d.writeTo = (d.readFrom + 1 + d.waiting) % Length[q]
      BY <1>1, <1>5, <2>3, <3>1, <3>3, <3>4, <3>5
    <3> QED BY <3>6 DEF Stored
  <2> QED BY <1>6, <1>7, <2>5, <2>6
<1>11. CASE q \notin Mailboxes
  <2>1. \A i \in 1 .. v : g[i] = h[i] BY <1>6, <1>8, <1>9, <1>11
  <2>2. g = h BY <1>6, <1>8, <2>1, SeqEqual
  <2> QED BY <1>6, <1>7, <1>11, <2>2 DEF Stored
<1> QED BY <1>10, <1>11

-----------------------------------------------------------------------------
(* The state of Buffers, and its steps *)

Promises == [op : Sides, q : Handles, patience : {"forever", "some"}]
Buffer == [q \in Handles |-> Contents(q)]
Wanting == [t \in Task |-> Wants(t)]
View(c) == IF c.op \in Sides THEN [op |-> c.op, q |-> c.q, patience |-> Patience(c)] ELSE None
Said(q, sender) == IF q \in Mailboxes THEN sender ELSE None

Mapped == [Promised!Next]_(Promised!vars)

LEMMA MapsStutter ==
  ASSUME Buffer' = Buffer, Wanting' = Wanting
  PROVE  Mapped
BY DEF Mapped, Promised!vars, Buffer, Wanting

LEMMA MapsWait ==
  ASSUME NEW t \in Task, NEW c \in Promises, Wanting[t] = None,
         Wanting' = [Wanting EXCEPT ![t] = c], Buffer' = Buffer
  PROVE  Mapped
<1>1. Promised!Wait(t) BY DEF Promised!Wait, Promises, Buffer, Wanting
<1> QED BY <1>1 DEF Mapped, Promised!Next

LEMMA MapsPost ==
  ASSUME NEW t \in Task, NEW c \in Promises, Wanting[t] \in {None, c}, c.op = "send",
         Len(Buffer[c.q]) < Length[c.q],
         Buffer' = [Buffer EXCEPT ![c.q] = Append(Buffer[c.q], Said(c.q, t))],
         Wanting' = [Wanting EXCEPT ![t] = None]
  PROVE  Mapped
<1>1. c \in Promised!Wanted(t) BY DEF Promised!Wanted, Promises, Wanting
<1>2. Promised!Post(t) BY <1>1 DEF Promised!Post, Promised!Content, Said, Buffer, Wanting
<1> QED BY <1>2 DEF Mapped, Promised!Next

LEMMA MapsFetch ==
  ASSUME NEW t \in Task, NEW c \in Promises, Wanting[t] \in {None, c}, c.op = "receive",
         Buffer[c.q] # <<>>,
         Buffer' = [Buffer EXCEPT ![c.q] = Tail(Buffer[c.q])],
         Wanting' = [Wanting EXCEPT ![t] = None]
  PROVE  Mapped
<1>1. c \in Promised!Wanted(t) BY DEF Promised!Wanted, Promises, Wanting
<1>2. Promised!Fetch(t) BY <1>1 DEF Promised!Fetch, Buffer, Wanting
<1> QED BY <1>2 DEF Mapped, Promised!Next

LEMMA MapsGiveUp ==
  ASSUME NEW t \in Task, NEW c \in Promises, Wanting[t] = c, c.patience = "some",
         c.op = "receive" => Buffer[c.q] = <<>>,
         Wanting' = [Wanting EXCEPT ![t] = None], Buffer' = Buffer
  PROVE  Mapped
<1>1. CASE Wanting[t] = None
  <2>1. Wanting' = Wanting BY <1>1 DEF Wanting
  <2> QED BY <2>1, MapsStutter
<1>2. CASE Wanting[t] # None
  <2>1. Promised!GiveUp(t) BY <1>2 DEF Promised!GiveUp, Buffer, Wanting
  <2> QED BY <2>1 DEF Mapped, Promised!Next
<1> QED BY <1>1, <1>2

LEMMA MapsInterrupt ==
  ASSUME NEW q \in FromISR, Len(Buffer[q]) < Length[q],
         Buffer' = [Buffer EXCEPT ![q] = Append(Buffer[q], Said(q, Isr))],
         Wanting' = Wanting
  PROVE  Mapped
<1>1. Promised!Interrupt(q) BY DEF Promised!Interrupt, Promised!Content, Said, Buffer, Wanting
<1> QED BY <1>1 DEF Mapped, Promised!Next

-----------------------------------------------------------------------------
(* The invariant that the mapping needs *)

\* Who is in no call asks for nothing, and who was late had a limit.
Late == {"unlock_late", "resume_late", "last"}
Caller(c) ==
  /\ c.pc = "app" => c.op = "none"
  /\ c.pc \in Late => c.xTicksToWait # portMAX_DELAY

StoreInv == \A q \in Handles : Stored(q, queue[q])
CallerInv == \A t \in Task : Caller(call[t])
PromiseInv == KernelInv /\ StoreInv /\ CallerInv

LEMMA BufferIs ==
  ASSUME NEW q \in Handles
  PROVE  Buffer[q] = Filled(q, queue[q])
BY DEF Buffer, Contents, Filled

\* As FilledIs has it, of the queue now.
LEMMA BufferHolds ==
  ASSUME TypeOK, NEW q \in Handles
  PROVE  /\ Len(Buffer[q]) = queue[q].waiting /\ queue[q].waiting <= Length[q]
         /\ Buffer[q] = <<>> <=> queue[q].waiting = 0
         /\ queue[q].waiting \in Nat /\ Length[q] \in Nat
<1>1. queue[q] \in QueueType(q) BY DEF TypeOK
<1> QED BY <1>1, BufferIs, FilledIs, HandlesAre

LEMMA BufferKept ==
  ASSUME StoreInv, \A q \in Handles : SameStore(queue'[q], queue[q])
  PROVE  Buffer' = Buffer /\ StoreInv'
<1>1. \A q \in Handles : Filled(q, queue'[q]) = Filled(q, queue[q]) /\ Stored(q, queue'[q])
  BY SameFilled DEF StoreInv
<1>2. \A q \in Handles : Contents(q)' = Contents(q) BY <1>1 DEF Contents, Filled
<1> QED BY <1>1, <1>2 DEF Buffer, StoreInv

LEMMA BufferMoves ==
  ASSUME StoreInv, NEW q \in Handles, Stored(q, queue'[q]),
         \A r \in Handles : r # q => queue'[r] = queue[r]
  PROVE  Buffer' = [Buffer EXCEPT ![q] = Filled(q, queue'[q])] /\ StoreInv'
<1>1. \A r \in Handles : r # q => Contents(r)' = Contents(r) BY DEF Contents
<1>2. Contents(q)' = Filled(q, queue'[q]) BY DEF Contents, Filled
<1>3. StoreInv' BY DEF StoreInv
<1> QED BY <1>1, <1>2, <1>3 DEF Buffer

LEMMA WantingIs ==
  ASSUME NEW t \in Task
  PROVE  Wanting[t] = View(call[t])
BY DEF Wanting, Wants, View

LEMMA WantingMoves ==
  ASSUME NEW t, Others(t)
  PROVE  /\ t \in Task => Wanting' = [Wanting EXCEPT ![t] = View(call'[t])]
         /\ (t \in Task => View(call'[t]) = View(call[t])) => Wanting' = Wanting
<1>1. ASSUME NEW u \in Task, u # t PROVE Wants(u)' = Wants(u)
  BY <1>1 DEF Others, Wants, Patience
<1>2. t \in Task => Wants(t)' = View(call'[t]) /\ Wants(t) = View(call[t]) BY DEF Wants, View
<1> QED BY <1>1, <1>2 DEF Wanting

LEMMA CallersKept ==
  ASSUME CallerInv, NEW t, Others(t), t \in Task => Caller(call'[t])
  PROVE  CallerInv'
<1>1. ASSUME NEW u \in Task, u # t PROVE Caller(call'[u])
  BY <1>1 DEF Others, CallerInv, Caller
<1> QED BY <1>1 DEF CallerInv

LEMMA ViewIs ==
  ASSUME NEW c, c.op \in Sides, c.q \in Handles
  PROVE  /\ View(c) \in Promises /\ View(c).op = c.op /\ View(c).q = c.q
         /\ View(c).patience = "some" <=> c.xTicksToWait # portMAX_DELAY
<1>1. "some" # "forever" OBVIOUS
<1> QED BY <1>1 DEF View, Promises, Patience

LEMMA NoView ==
  /\ View(NoCall) = None /\ Caller(NoCall)
  /\ \A c : c.op \in {"none", "delay"} => View(c) = None
BY DEF View, NoCall, Sides, Caller, Late

-----------------------------------------------------------------------------
(* Each step does what Buffers allows, or nothing to it *)

Promise == StoreInv' /\ CallerInv' /\ Mapped

LEMMA StutterPromise ==
  ASSUME PromiseInv, NEW t, Others(t),
         \A q \in Handles : SameStore(queue'[q], queue[q]),
         t \in Task => View(call'[t]) = View(call[t]) /\ Caller(call'[t])
  PROVE  Promise
<1>1. Buffer' = Buffer /\ StoreInv' BY BufferKept DEF PromiseInv
<1>2. Wanting' = Wanting BY WantingMoves
<1>3. CallerInv' BY CallersKept DEF PromiseInv
<1> QED BY <1>1, <1>2, <1>3, MapsStutter DEF Promise

LEMMA SameStoreSame == \A q \in Handles : SameStore(queue[q], queue[q])
BY DEF SameStore

\* The task moves on within its call.
LEMMA GotoPromise ==
  ASSUME PromiseInv, NEW t \in Task, NEW pc \in PCs \ {"app"}, Goto(t, pc),
         pc \in Late => call[t].pc \in Late,
         \A q \in Handles : SameStore(queue'[q], queue[q])
  PROVE  Promise
<1>1. /\ Others(t) /\ call'[t].pc = pc /\ call'[t].op = call[t].op
      /\ call'[t].q = call[t].q /\ call'[t].xTicksToWait = call[t].xTicksToWait
  BY GotoIs DEF PromiseInv, KernelInv, OneCall
<1>2. View(call'[t]) = View(call[t]) BY <1>1 DEF View, Patience
<1>3. Caller(call[t]) BY DEF PromiseInv, CallerInv
<1>4. Caller(call'[t]) BY <1>1, <1>3 DEF Caller
<1> QED BY <1>1, <1>2, <1>4, StutterPromise

LEMMA ReturnView ==
  ASSUME TypeOK, NEW t \in Task, Return(t)
  PROVE  /\ Others(t) /\ View(call'[t]) = None /\ Caller(call'[t])
         /\ Wanting' = [Wanting EXCEPT ![t] = None]
<1>1. call' = [call EXCEPT ![t] = NoCall] BY DEF Return
<1>2. Others(t) /\ call'[t] = NoCall BY <1>1, NoCallIs, OneCallIs DEF OneCall
<1> QED BY <1>2, NoView, WantingMoves

\* What a call asks for now, or asked for before.
LEMMA AskedView ==
  ASSUME PromiseInv, NEW t \in Task, NEW c \in Asked(t), c.op \in Sides
  PROVE  /\ c \in Calls /\ c.q \in Handles /\ View(c) \in Promises
         /\ Wanting[t] \in {None, View(c)}
         /\ call[t].pc = "app" => Wanting[t] = None
         /\ call[t].pc # "app" => c = call[t] /\ Wanting[t] = View(c)
<1>1. Asks(t, c) BY AskedIs DEF PromiseInv
<1>2. c \in Calls /\ c.q \in Handles /\ (call[t].pc = "app" \/ c = call[t]) BY <1>1 DEF Asks
<1>3. View(c) \in Promises BY <1>2, ViewIs
<1>4. call[t].pc = "app" => Wanting[t] = None
  <2>1. call[t].pc = "app" => call[t].op = "none" BY DEF PromiseInv, CallerInv, Caller
  <2> QED BY <2>1, NoView, WantingIs
<1>5. call[t].pc # "app" => c = call[t] /\ Wanting[t] = View(c) BY <1>2, WantingIs
<1> QED BY <1>2, <1>3, <1>4, <1>5

\* A call that ends in failure.
LEMMA FailPromise ==
  ASSUME PromiseInv, NEW t \in Task, Return(t), queue' = queue,
         \/ Wanting[t] = None
         \/ /\ call[t].op \in Sides /\ call[t].q \in Handles
            /\ Blocked(call[t]) /\ call[t].xTicksToWait # portMAX_DELAY
  PROVE  Promise
<1>1. /\ Others(t) /\ View(call'[t]) = None /\ Caller(call'[t])
      /\ Wanting' = [Wanting EXCEPT ![t] = None]
  BY ReturnView DEF PromiseInv, KernelInv
<1>2. \A q \in Handles : SameStore(queue'[q], queue[q]) BY SameStoreSame
<1>3. CASE Wanting[t] = None
  <2>1. View(call'[t]) = View(call[t]) BY <1>1, <1>3, WantingIs
  <2> QED BY <1>1, <1>2, <2>1, StutterPromise
<1>4. CASE Wanting[t] # None
  <2>1. PICK c : c = call[t] OBVIOUS
  <2>2. PICK v \in Promises :
          /\ v = Wanting[t] /\ v.op = c.op /\ v.q = c.q /\ v.patience = "some"
    BY <1>4, <2>1, ViewIs, WantingIs
  <2>3. v.op = "receive" => Buffer[v.q] = <<>>
    <3>1. Blocked(c) /\ c.q \in Handles BY <1>4, <2>1
    <3>2. v.op = "receive" => queue[c.q].waiting = 0
      BY <2>2, <3>1 DEF Blocked, IsQueueEmpty
    <3> QED BY <2>2, <3>1, <3>2, BufferHolds DEF PromiseInv, KernelInv
  <2>4. Buffer' = Buffer /\ StoreInv' BY <1>2, BufferKept DEF PromiseInv
  <2>5. CallerInv' BY <1>1, CallersKept DEF PromiseInv
  <2>6. Mapped BY <1>1, <2>2, <2>3, <2>4, MapsGiveUp
  <2> QED BY <2>4, <2>5, <2>6 DEF Promise
<1> QED BY <1>3, <1>4

LEMMA RefusedPromise ==
  ASSUME PromiseInv, NEW t \in Task, Refused(t)
  PROVE  Promise
<1>1. PICK c \in Asked(t) :
        /\ c.op \in Sides /\ Blocked(c) /\ c.xTicksToWait = 0 /\ Return(t) /\ queue' = queue
  BY DEF Refused
<1>2. /\ c.q \in Handles /\ (call[t].pc = "app" => Wanting[t] = None)
      /\ (call[t].pc # "app" => c = call[t])
  BY <1>1, AskedView
<1>3. 0 # portMAX_DELAY BY TickAssumption
<1> QED BY <1>1, <1>2, <1>3, FailPromise

LEMMA GiveUpPromise ==
  ASSUME PromiseInv, NEW t \in Task, GiveUp(t)
  PROVE  Promise
<1>1. call[t].pc = "last" /\ Blocked(call[t]) /\ Return(t) /\ queue' = queue
  BY DEF GiveUp, At
<1>2. call[t].op \in Sides /\ call[t].q \in Handles
  BY <1>1 DEF PromiseInv, KernelInv, CallsInv
<1>3. call[t].xTicksToWait # portMAX_DELAY
  BY <1>1 DEF PromiseInv, CallerInv, Caller, Late
<1> QED BY <1>1, <1>2, <1>3, FailPromise

LEMMA AwakePromise ==
  ASSUME PromiseInv, NEW t \in Task, Awake(t)
  PROVE  Promise
<1>1. call[t].pc = "slept" /\ Return(t) /\ queue' = queue BY DEF Awake, At
<1>2. call[t].op = "delay" BY <1>1 DEF PromiseInv, KernelInv, CallsInv
<1>3. Wanting[t] = None BY <1>2, NoView, WantingIs
<1> QED BY <1>1, <1>3, FailPromise

\* What the call asks for is put down, the first time; then it waits as before.
LEMMA EnterPromise ==
  ASSUME PromiseInv, NEW t \in Task, Enter(t)
  PROVE  Promise
<1>1. PICK c \in Asked(t) :
        LET starts == ~c.set /\ c.xTicksToWait # portMAX_DELAY
        IN  /\ c.op \in Sides /\ queue' = queue
            /\ call' = [call EXCEPT ![t] =
                         [c EXCEPT !.pc = "suspend", !.set = c.set \/ starts,
                                   !.since = IF starts THEN kernel.tick ELSE c.since]]
  BY DEF Enter
<1>2. /\ c \in Calls /\ c.q \in Handles /\ View(c) \in Promises
      /\ (call[t].pc = "app" => Wanting[t] = None)
      /\ (call[t].pc # "app" => Wanting[t] = View(c))
  BY <1>1, AskedView
<1>3. kernel.tick \in Ticks BY DEF PromiseInv, KernelInv, TypeOK, Kernels
<1>4. PICK starts \in BOOLEAN : starts = (~c.set /\ c.xTicksToWait # portMAX_DELAY) OBVIOUS
<1>5. PICK set \in BOOLEAN : set = (c.set \/ starts) OBVIOUS
<1>6. PICK since \in Ticks : since = IF starts THEN kernel.tick ELSE c.since
  BY <1>2, <1>3 DEF Calls
<1>7. PICK d : d = [c EXCEPT !.pc = "suspend", !.set = set, !.since = since] OBVIOUS
<1>8. /\ d \in Calls /\ d.pc = "suspend" /\ d.op = c.op /\ d.q = c.q
      /\ d.xTicksToWait = c.xTicksToWait
  BY <1>2, <1>7 DEF Calls
<1>9. call' = [call EXCEPT ![t] = d] BY <1>1, <1>4, <1>5, <1>6, <1>7
<1>10. Others(t) /\ call'[t] = d BY <1>8, <1>9, OneCallIs DEF OneCall, PromiseInv, KernelInv
<1>11. View(d) = View(c) BY <1>8 DEF View, Patience
<1>12. Caller(d) BY <1>8 DEF Caller, Late
<1>13. \A q \in Handles : SameStore(queue'[q], queue[q]) BY <1>1, SameStoreSame
<1>14. CASE call[t].pc = "app"
  <2>1. Buffer' = Buffer /\ StoreInv' BY <1>13, BufferKept DEF PromiseInv
  <2>2. Wanting' = [Wanting EXCEPT ![t] = View(c)] BY <1>10, <1>11, WantingMoves
  <2>3. Mapped BY <1>2, <1>14, <2>1, <2>2, MapsWait
  <2>4. CallerInv' BY <1>10, <1>12, CallersKept DEF PromiseInv
  <2> QED BY <2>1, <2>3, <2>4 DEF Promise
<1>15. CASE call[t].pc # "app"
  <2>1. View(call'[t]) = View(call[t]) BY <1>2, <1>10, <1>11, <1>15, WantingIs
  <2> QED BY <1>10, <1>12, <1>13, <2>1, StutterPromise
<1> QED BY <1>14, <1>15

LEMMA SuspendPromise ==
  ASSUME PromiseInv, NEW t \in Task, vTaskSuspendAll(t)
  PROVE  Promise
<1>1. Goto(t, "lock") /\ queue' = queue BY DEF vTaskSuspendAll
<1>2. "lock" \in PCs \ {"app"} /\ "lock" \notin Late BY DEF PCs, Critical, Late
<1> QED BY <1>1, <1>2, SameStoreSame, GotoPromise

LEMMA PlacePromise ==
  ASSUME PromiseInv, NEW t \in Task, Place(t)
  PROVE  Promise
<1>1. Goto(t, "unlock_blocked") /\ queue' = queue BY DEF Place
<1>2. "unlock_blocked" \in PCs \ {"app"} /\ "unlock_blocked" \notin Late
  BY DEF PCs, Critical, Late
<1> QED BY <1>1, <1>2, SameStoreSame, GotoPromise

LEMMA TryAgainPromise ==
  ASSUME PromiseInv, NEW t \in Task, TryAgain(t) \/ LookAgain(t)
  PROVE  Promise
<1>1. PICK pc \in {"unlock", "test"} : Goto(t, pc) /\ queue' = queue
  BY DEF TryAgain, LookAgain
<1>2. pc \in PCs \ {"app"} /\ pc \notin Late BY DEF PCs, Critical, Late
<1> QED BY <1>1, <1>2, SameStoreSame, GotoPromise

\* The locks of a queue are no part of its store.
LEMMA LocksSame ==
  ASSUME TypeOK, NEW q \in Handles, NEW tx, NEW rx,
         queue' = [queue EXCEPT ![q].txLock = tx, ![q].rxLock = rx]
  PROVE  \A r \in Handles : SameStore(queue'[r], queue[r])
<1>1. PICK s \in QueueType(q) : s = queue[q] BY DEF TypeOK
<1>2. PICK d : d = [s EXCEPT !.txLock = tx, !.rxLock = rx] OBVIOUS
<1>3. SameStore(d, s) BY <1>1, <1>2 DEF SameStore, QueueType
<1>4. DOMAIN queue = Handles BY DEF TypeOK
<1>5. queue' = [queue EXCEPT ![q] = d] BY <1>1, <1>2
<1>6. queue'[q] = d /\ \A r \in Handles : r # q => queue'[r] = queue[r] BY <1>4, <1>5
<1> QED BY <1>1, <1>3, <1>6, SameStoreSame

LEMMA UnlockPromise ==
  ASSUME PromiseInv, NEW t \in Task, prvUnlockQueue(t)
  PROVE  Promise
<1>1. PICK q : q = call[t].q OBVIOUS
<1>2. PICK pc : pc = After[call[t].pc] OBVIOUS
<1>3. /\ call[t].pc \in {"unlock", "unlock_blocked", "unlock_late"} /\ Goto(t, pc)
      /\ queue' = [queue EXCEPT ![q].txLock = queueUNLOCKED, ![q].rxLock = queueUNLOCKED]
  BY <1>1, <1>2, AfterIs DEF prvUnlockQueue, At
<1>4. pc \in {"resume", "resume_blocked", "resume_late"}
      /\ (pc = "resume_late" => call[t].pc = "unlock_late")
  BY <1>2, <1>3, AfterIs
<1>5. pc \in PCs \ {"app"} /\ (pc \in Late => call[t].pc \in Late)
  BY <1>4 DEF PCs, Critical, Late
<1>6. q \in Handles
  BY <1>1, <1>3 DEF PromiseInv, KernelInv, CallsInv
<1>7. \A r \in Handles : SameStore(queue'[r], queue[r])
  BY <1>3, <1>6, LocksSame DEF PromiseInv, KernelInv
<1> QED BY <1>3, <1>5, <1>7, GotoPromise

\* What is left of a wait with a limit has one too.
LEMMA StillWaitingHasLimit ==
  ASSUME TypeOK, NEW c \in Calls, ~TimedOut(c), c.xTicksToWait # portMAX_DELAY
  PROVE  StillWaiting(c).xTicksToWait # portMAX_DELAY
<1>1. kernel.tick \in Ticks /\ c.since \in Ticks /\ c.xTicksToWait \in Ticks
  BY DEF TypeOK, Kernels, Calls
<1>2. PICK gone \in Ticks : gone = Elapsed(c.since, kernel.tick) BY <1>1, TicksAre
<1>3. PICK max \in Nat : max = portMAX_DELAY BY TickAssumption
<1>4. PICK wait \in 0 .. max : wait = c.xTicksToWait BY <1>1, <1>3 DEF Ticks
<1>5. gone \in 0 .. max /\ wait # max BY <1>2, <1>3, <1>4 DEF Ticks
<1>6. PICK rest : rest = wait - gone OBVIOUS
<1>7. rest # max BY <1>5, <1>6
<1>8. StillWaiting(c).xTicksToWait = rest BY <1>2, <1>4, <1>6 DEF StillWaiting, Calls
<1> QED BY <1>3, <1>7, <1>8

LEMMA LockPromise ==
  ASSUME PromiseInv, NEW t \in Task, Lock(t)
  PROVE  Promise
<1>1. PICK c : c = call[t] OBVIOUS
<1>2. PICK q : q = c.q OBVIOUS
<1>3. /\ c.pc = "lock"
      /\ queue' = [queue EXCEPT
           ![q].txLock = IF @ = queueUNLOCKED THEN queueLOCKED_UNMODIFIED ELSE @,
           ![q].rxLock = IF @ = queueUNLOCKED THEN queueLOCKED_UNMODIFIED ELSE @]
      /\ call' = [call EXCEPT ![t] =
                    IF TimedOut(c) THEN [c EXCEPT !.pc = "unlock_late", !.xTicksToWait = 0]
                    ELSE [StillWaiting(c) EXCEPT !.pc = "look"]]
  BY <1>1, <1>2 DEF Lock, At
<1>4. TypeOK /\ c \in Calls BY <1>1 DEF PromiseInv, KernelInv, TypeOK
<1>5. q \in Handles BY <1>1, <1>2, <1>3 DEF PromiseInv, KernelInv, CallsInv
<1>6. \A r \in Handles : SameStore(queue'[r], queue[r])
  <2>1. PICK s \in QueueType(q) : s = queue[q] BY <1>4, <1>5 DEF TypeOK
  <2>2. PICK tx, rx : /\ tx = IF s.txLock = queueUNLOCKED THEN queueLOCKED_UNMODIFIED
                              ELSE s.txLock
                      /\ rx = IF s.rxLock = queueUNLOCKED THEN queueLOCKED_UNMODIFIED
                              ELSE s.rxLock
    OBVIOUS
  <2>3. PICK d : d = [s EXCEPT !.txLock = tx, !.rxLock = rx] OBVIOUS
  <2>4. SameStore(d, s) BY <2>1, <2>3 DEF SameStore, QueueType
  <2>5. DOMAIN queue = Handles BY <1>4 DEF TypeOK
  <2>6. queue' = [queue EXCEPT ![q] = d] BY <1>3, <2>1, <2>2, <2>3, <2>5 DEF QueueType
  <2>7. queue'[q] = d /\ \A r \in Handles : r # q => queue'[r] = queue[r]
    BY <1>5, <2>5, <2>6
  <2> QED BY <2>1, <2>4, <2>7, SameStoreSame
<1>7. PICK d \in Calls : /\ call' = [call EXCEPT ![t] = d]
                         /\ d.pc \in {"unlock_late", "look"} /\ d.op = c.op /\ d.q = c.q
                         /\ c.xTicksToWait = portMAX_DELAY <=> d.xTicksToWait = portMAX_DELAY
                         /\ d.pc = "unlock_late" => d.xTicksToWait # portMAX_DELAY
  <2>1. CASE TimedOut(c)
    <3>1. PICK d : d = [c EXCEPT !.pc = "unlock_late", !.xTicksToWait = 0] OBVIOUS
    <3>2. 0 \in Ticks /\ 0 # portMAX_DELAY BY TicksAre, TickAssumption
    <3>3. /\ d \in Calls /\ d.pc = "unlock_late" /\ d.op = c.op /\ d.q = c.q
          /\ d.xTicksToWait = 0
      BY <1>4, <3>1, <3>2 DEF Calls, Critical
    <3>4. c.xTicksToWait # portMAX_DELAY BY <2>1 DEF TimedOut
    <3> QED BY <1>3, <2>1, <3>1, <3>2, <3>3, <3>4
  <2>2. CASE ~TimedOut(c)
    <3>1. PICK e : e = StillWaiting(c) OBVIOUS
    <3>2. /\ e \in Calls /\ e.op = c.op /\ e.q = c.q
          /\ c.xTicksToWait = portMAX_DELAY <=> e.xTicksToWait = portMAX_DELAY
      BY <1>4, <2>2, <3>1, StillWaitingIs, StillWaitingHasLimit
    <3>3. PICK d : d = [e EXCEPT !.pc = "look"] OBVIOUS
    <3>4. /\ d \in Calls /\ d.pc = "look" /\ d.op = e.op /\ d.q = e.q
          /\ d.xTicksToWait = e.xTicksToWait
      BY <3>2, <3>3 DEF Calls, Critical
    <3> QED BY <1>3, <2>2, <3>1, <3>2, <3>3, <3>4
  <2> QED BY <2>1, <2>2
<1>8. Others(t) /\ call'[t] = d BY <1>4, <1>7, OneCallIs DEF OneCall
<1>9. View(d) = View(c) BY <1>7 DEF View, Patience
<1>10. Caller(d) BY <1>7 DEF Caller, Late
<1> QED BY <1>1, <1>6, <1>8, <1>9, <1>10, StutterPromise

LEMMA DelayPromise ==
  ASSUME PromiseInv, NEW t \in Task, vTaskDelay(t)
  PROVE  Promise
<1>1. PICK c \in Asked(t) :
        /\ c.op = "delay" /\ queue' = queue
        /\ call' = [call EXCEPT ![t] = [c EXCEPT !.pc = "resume_delay"]]
  BY DEF vTaskDelay
<1>2. Asks(t, c) BY AskedIs DEF PromiseInv
<1>3. c \in Calls /\ call[t].pc = "app" BY <1>1, <1>2 DEF Asks, Sides
<1>4. call[t].op = "none" BY <1>3 DEF PromiseInv, CallerInv, Caller
<1>5. PICK d : d = [c EXCEPT !.pc = "resume_delay"] OBVIOUS
<1>6. d \in Calls /\ d.pc = "resume_delay" /\ d.op = "delay"
  BY <1>1, <1>3, <1>5 DEF Calls, Critical
<1>7. call' = [call EXCEPT ![t] = d] BY <1>1, <1>5
<1>8. Others(t) /\ call'[t] = d BY <1>6, <1>7, OneCallIs DEF OneCall, PromiseInv, KernelInv
<1>9. View(d) = None /\ View(call[t]) = None BY <1>4, <1>6, NoView
<1>10. Caller(d) BY <1>6 DEF Caller, Late
<1> QED BY <1>1, <1>8, <1>9, <1>10, SameStoreSame, StutterPromise

LEMMA ResumePromise ==
  ASSUME PromiseInv, NEW t \in Task, Resume(t)
  PROVE  Promise
<1>1. PICK next : next = [resume |-> "test", resume_blocked |-> "test", resume_late |-> "last",
                          resume_delay |-> "slept"]
  OBVIOUS
<1>2. /\ DOMAIN next = {"resume", "resume_blocked", "resume_late", "resume_delay"}
      /\ next["resume"] = "test" /\ next["resume_blocked"] = "test"
      /\ next["resume_late"] = "last" /\ next["resume_delay"] = "slept"
  BY <1>1
<1>3. PICK was : was = call[t].pc OBVIOUS
<1>4. PICK pc : pc = next[was] OBVIOUS
<1>5. PICK out : out = xTaskResumeAll(kernel) OBVIOUS
<1>6. PICK mid : mid = [call EXCEPT ![t].pc = pc] OBVIOUS
<1>7. was \in DOMAIN next /\ call' = WrapSeen(kernel, out, mid) /\ queue' = queue
  BY <1>1, <1>3, <1>4, <1>5, <1>6 DEF Resume, At
<1> HIDE <1>1
<1>8. pc \in {"test", "last", "slept"} /\ (pc = "last" => was = "resume_late")
  BY <1>2, <1>4, <1>7
<1>9. TypeOK /\ call \in [Task -> Calls] BY DEF PromiseInv, KernelInv, TypeOK
<1>10. PICK r \in Calls : r = call[t] BY <1>9
<1>11. PICK d : d = [r EXCEPT !.pc = pc] OBVIOUS
<1>12. /\ d \in Calls /\ d.pc = pc /\ d.op = r.op /\ d.q = r.q
       /\ d.xTicksToWait = r.xTicksToWait
  BY <1>8, <1>10, <1>11 DEF Calls
<1>13. mid = [call EXCEPT ![t] = d] BY <1>6, <1>9, <1>10, <1>11
<1>14. mid \in [Task -> Calls] /\ mid[t] = d /\ \A u \in Task : u # t => mid[u] = call[u]
  BY <1>9, <1>12, <1>13
<1>15. \A u \in Task :
         /\ call'[u].pc = mid[u].pc /\ call'[u].op = mid[u].op /\ call'[u].q = mid[u].q
         /\ call'[u].xTicksToWait = mid[u].xTicksToWait
  BY <1>7, <1>14, WrapIs
<1>16. Others(t) BY <1>14, <1>15 DEF Others
<1>17. /\ call'[t].pc = pc /\ call'[t].op = r.op /\ call'[t].q = r.q
       /\ call'[t].xTicksToWait = r.xTicksToWait
  BY <1>12, <1>14, <1>15
<1>18. View(call'[t]) = View(call[t]) BY <1>10, <1>17 DEF View, Patience
<1>19. Caller(call'[t])
  <2>1. Caller(r) BY <1>10 DEF PromiseInv, CallerInv
  <2> QED BY <1>3, <1>8, <1>10, <1>17, <2>1 DEF Caller, Late
<1> QED BY <1>7, <1>16, <1>18, <1>19, SameStoreSame, StutterPromise

LEMMA TickPromise ==
  ASSUME PromiseInv, Tick
  PROVE  Promise
<1>1. PICK out : call' = WrapSeen(kernel, out, call) /\ queue' = queue BY DEF Tick
<1>2. call \in [Task -> Calls] BY DEF PromiseInv, KernelInv, TypeOK
<1>3. Others(None) /\ None \notin Task BY <1>1, <1>2, WrapIs, HandlesAre DEF Others
<1> QED BY <1>1, <1>3, SameStoreSame, StutterPromise

-----------------------------------------------------------------------------
(* The steps that act on a buffer *)

LEMMA CopyToPosts ==
  ASSUME TypeOK, NEW q \in Handles, NEW sender \in Message, ~IsQueueFull(q)
  PROVE  Posted(CopyDataToQueue(q, sender), queue[q], q, Said(q, sender))
<1>1. PICK s \in QueueType(q) : s = queue[q] BY DEF TypeOK
<1>2. PICK n \in Nat \ {0} : n = Length[q] BY HandlesAre
<1>3. PICK w \in Nat : w = s.waiting BY <1>1, QueueIs
<1>4. PICK more, to, items : /\ more = w + 1 /\ to = Succ(q, s.writeTo)
                             /\ items = [s.items EXCEPT ![s.writeTo] = sender]
  OBVIOUS
<1>5. CASE q \in Mailboxes
  <2>1. PICK d : d = [s EXCEPT !.items = items, !.writeTo = to, !.waiting = more] OBVIOUS
  <2>2. CopyDataToQueue(q, sender) = d
    BY <1>1, <1>3, <1>4, <1>5, <2>1 DEF CopyDataToQueue, QueueType
  <2>3. /\ d.waiting = more /\ d.readFrom = s.readFrom /\ d.items = items /\ d.writeTo = to
    BY <1>1, <2>1 DEF QueueType
  <2> QED BY <1>1, <1>3, <1>4, <1>5, <2>2, <2>3 DEF Posted, Said
<1>6. CASE q \notin Mailboxes
  <2>1. PICK d : d = [s EXCEPT !.waiting = more, !.holder = None] OBVIOUS
  <2>2. CopyDataToQueue(q, sender) = d
    BY <1>1, <1>3, <1>4, <1>6, <2>1 DEF CopyDataToQueue, QueueType
  <2>3. d.waiting = more /\ d.readFrom = s.readFrom BY <1>1, <2>1 DEF QueueType
  <2> QED BY <1>1, <1>3, <1>4, <1>6, <2>2, <2>3 DEF Posted
<1> QED BY <1>5, <1>6

LEMMA CopyFromFetches ==
  ASSUME TypeOK, NEW q \in Handles, ~IsQueueEmpty(q)
  PROVE  Fetched(CopyDataFromQueue(q), queue[q], q)
<1>1. PICK s \in QueueType(q) : s = queue[q] BY DEF TypeOK
<1>2. PICK w \in Nat : w = s.waiting BY <1>1, QueueIs
<1>3. PICK less, from, items : /\ less = w - 1 /\ from = Succ(q, s.readFrom)
                               /\ items = [s.items EXCEPT ![from] = None]
  OBVIOUS
<1>4. CASE q \in Mailboxes
  <2>1. PICK d : d = [s EXCEPT !.items = items, !.readFrom = from, !.waiting = less] OBVIOUS
  <2>2. CopyDataFromQueue(q) = d
    BY <1>1, <1>2, <1>3, <1>4, <2>1 DEF CopyDataFromQueue, QueueType
  <2>3. /\ d.waiting = less /\ d.readFrom = from /\ d.items = items /\ d.writeTo = s.writeTo
    BY <1>1, <2>1 DEF QueueType
  <2> QED BY <1>1, <1>2, <1>3, <1>4, <2>2, <2>3 DEF Fetched
<1>5. CASE q \notin Mailboxes
  <2>1. PICK d : d = [s EXCEPT !.waiting = less] OBVIOUS
  <2>2. CopyDataFromQueue(q) = d
    BY <1>1, <1>2, <1>3, <1>5, <2>1 DEF CopyDataFromQueue, QueueType
  <2>3. d.waiting = less BY <1>1, <2>1 DEF QueueType
  <2> QED BY <1>1, <1>2, <1>3, <1>5, <2>2, <2>3 DEF Fetched
<1> QED BY <1>4, <1>5

\* The store of one queue takes a message.
LEMMA BufferGains ==
  ASSUME PromiseInv, KernelInv', NEW q \in Handles, NEW sender \in Message,
         ~IsQueueFull(q), \A r \in Handles : r # q => queue'[r] = queue[r],
         SameStore(queue'[q], CopyDataToQueue(q, sender))
  PROVE  /\ Buffer' = [Buffer EXCEPT ![q] = Append(Buffer[q], Said(q, sender))] /\ StoreInv'
         /\ Len(Buffer[q]) < Length[q]
<1>1. TypeOK /\ TypeOK' BY DEF PromiseInv, KernelInv
<1>2. queue[q] \in QueueType(q) /\ queue'[q] \in QueueType(q) BY <1>1 DEF TypeOK
<1>3. Posted(CopyDataToQueue(q, sender), queue[q], q, Said(q, sender))
  BY <1>1, CopyToPosts
<1>4. Posted(queue'[q], queue[q], q, Said(q, sender)) BY <1>3 DEF Posted, SameStore
<1>5. Said(q, sender) \in Message /\ (q \notin Mailboxes => Said(q, sender) = None)
  BY DEF Said, Message
<1>6. Stored(q, queue[q]) BY DEF PromiseInv, StoreInv
<1>7. Filled(q, queue'[q]) = Append(Filled(q, queue[q]), Said(q, sender))
      /\ Stored(q, queue'[q])
  BY <1>2, <1>4, <1>5, <1>6, PostedIs
<1>8. Buffer' = [Buffer EXCEPT ![q] = Filled(q, queue'[q])] /\ StoreInv'
  BY <1>7, BufferMoves DEF PromiseInv
<1>9. Len(Buffer[q]) < Length[q]
  <2>1. PICK n \in Nat, w \in Nat :
          n = Length[q] /\ w = queue[q].waiting /\ w <= n /\ Len(Buffer[q]) = w
    BY <1>1, BufferHolds
  <2>2. w # n BY <2>1 DEF IsQueueFull
  <2>3. w < n BY <2>1, <2>2
  <2> QED BY <2>1, <2>3
<1> QED BY <1>7, <1>8, <1>9, BufferIs

\* The store of one queue gives a message.
LEMMA BufferLoses ==
  ASSUME PromiseInv, KernelInv', NEW q \in Handles, ~IsQueueEmpty(q),
         \A r \in Handles : r # q => queue'[r] = queue[r],
         SameStore(queue'[q], CopyDataFromQueue(q))
  PROVE  /\ Buffer' = [Buffer EXCEPT ![q] = Tail(Buffer[q])] /\ StoreInv'
         /\ Buffer[q] # <<>>
<1>1. TypeOK /\ TypeOK' BY DEF PromiseInv, KernelInv
<1>2. queue[q] \in QueueType(q) /\ queue'[q] \in QueueType(q) BY <1>1 DEF TypeOK
<1>3. Fetched(CopyDataFromQueue(q), queue[q], q) BY <1>1, CopyFromFetches
<1>4. Fetched(queue'[q], queue[q], q) BY <1>3 DEF Fetched, SameStore
<1>5. Stored(q, queue[q]) BY DEF PromiseInv, StoreInv
<1>6. queue[q].waiting # 0 BY DEF IsQueueEmpty
<1>7. /\ Filled(q, queue[q]) # <<>> /\ Filled(q, queue'[q]) = Tail(Filled(q, queue[q]))
      /\ Stored(q, queue'[q])
  BY <1>2, <1>4, <1>5, <1>6, FetchedIs
<1>8. Buffer' = [Buffer EXCEPT ![q] = Filled(q, queue'[q])] /\ StoreInv'
  BY <1>7, BufferMoves DEF PromiseInv
<1> QED BY <1>7, <1>8, BufferIs

LEMMA SendPromise ==
  ASSUME PromiseInv, KernelInv', NEW t \in Task, Send(t)
  PROVE  Promise
<1>1. PICK c \in Asked(t) :
        /\ c.op = "send" /\ ~IsQueueFull(c.q) /\ Return(t)
        /\ queue' = [queue EXCEPT ![c.q] = CopyDataToQueue(c.q, t)]
  BY DEF Send
<1>2. /\ c.q \in Handles /\ View(c) \in Promises /\ Wanting[t] \in {None, View(c)}
      /\ View(c).op = "send" /\ View(c).q = c.q
  BY <1>1, AskedView, ViewIs DEF Sides
<1>3. PICK q \in Handles : q = c.q BY <1>2
<1>4. DOMAIN queue = Handles BY DEF PromiseInv, KernelInv, TypeOK
<1>5. /\ queue'[q] = CopyDataToQueue(q, t) /\ \A r \in Handles : r # q => queue'[r] = queue[r]
  BY <1>1, <1>3, <1>4
<1>6. SameStore(queue'[q], CopyDataToQueue(q, t)) BY <1>5 DEF SameStore
<1>7. t \in Message BY DEF Message
<1>8. /\ Buffer' = [Buffer EXCEPT ![q] = Append(Buffer[q], Said(q, t))] /\ StoreInv'
      /\ Len(Buffer[q]) < Length[q]
  BY <1>1, <1>3, <1>5, <1>6, <1>7, BufferGains
<1>9. Others(t) /\ Caller(call'[t]) /\ Wanting' = [Wanting EXCEPT ![t] = None]
  BY <1>1, ReturnView DEF PromiseInv, KernelInv
<1>10. CallerInv' BY <1>9, CallersKept DEF PromiseInv
<1>11. PICK v \in Promises : v = View(c) BY <1>2
<1>12. Mapped BY <1>2, <1>3, <1>8, <1>9, <1>11, MapsPost
<1> QED BY <1>8, <1>10, <1>12 DEF Promise

LEMMA FetchPromise ==
  ASSUME PromiseInv, KernelInv', NEW t \in Task, Receive(t) \/ Take(t)
  PROVE  Promise
<1>1. PICK c \in Asked(t) :
        /\ c.op = "receive" /\ ~IsQueueEmpty(c.q) /\ Return(t)
        /\ \/ queue' = [queue EXCEPT ![c.q] = CopyDataFromQueue(c.q)]
           \/ queue' = [queue EXCEPT ![c.q] = [CopyDataFromQueue(c.q) EXCEPT !.holder = t]]
  BY DEF Receive, Take
<1>2. /\ c.q \in Handles /\ View(c) \in Promises /\ Wanting[t] \in {None, View(c)}
      /\ View(c).op = "receive" /\ View(c).q = c.q
  BY <1>1, AskedView, ViewIs DEF Sides
<1>3. PICK q \in Handles : q = c.q BY <1>2
<1>4. DOMAIN queue = Handles /\ TypeOK BY DEF PromiseInv, KernelInv, TypeOK
<1>5. PICK s \in QueueType(q) : s = CopyDataFromQueue(q) BY <1>1, <1>3, <1>4, CopyFromIs
<1>6. PICK d : d = [s EXCEPT !.holder = t] OBVIOUS
<1>7. SameStore(d, s) /\ SameStore(s, s) BY <1>5, <1>6 DEF SameStore, QueueType
<1>8. /\ queue'[q] \in {s, d} /\ \A r \in Handles : r # q => queue'[r] = queue[r]
  BY <1>1, <1>3, <1>4, <1>5, <1>6
<1>9. SameStore(queue'[q], CopyDataFromQueue(q)) BY <1>5, <1>7, <1>8
<1>10. /\ Buffer' = [Buffer EXCEPT ![q] = Tail(Buffer[q])] /\ StoreInv' /\ Buffer[q] # <<>>
  BY <1>1, <1>3, <1>8, <1>9, BufferLoses
<1>11. Others(t) /\ Caller(call'[t]) /\ Wanting' = [Wanting EXCEPT ![t] = None]
  BY <1>1, ReturnView DEF PromiseInv, KernelInv
<1>12. CallerInv' BY <1>11, CallersKept DEF PromiseInv
<1>13. PICK v \in Promises : v = View(c) BY <1>2
<1>14. Mapped BY <1>2, <1>3, <1>10, <1>11, <1>13, MapsFetch
<1> QED BY <1>10, <1>12, <1>14 DEF Promise

LEMMA InterruptPromise ==
  ASSUME PromiseInv, KernelInv', NEW q \in FromISR, GiveFromISR(q)
  PROVE  Promise
<1>1. q \in Handles BY QueueAssumption DEF Handles
<1>2. PICK s : s = CopyDataToQueue(q, Isr) OBVIOUS
<1>3. ~IsQueueFull(q) /\ call' = call BY DEF GiveFromISR
<1>4. Isr \in Message BY DEF Message
<1>5. TypeOK /\ DOMAIN queue = Handles BY DEF PromiseInv, KernelInv, TypeOK
<1>6. s \in QueueType(q) BY <1>1, <1>2, <1>3, <1>4, <1>5, CopyToIs
<1>7. PICK d : d = [s EXCEPT !.txLock = @ + 1] OBVIOUS
<1>8. SameStore(d, s) /\ SameStore(s, s) BY <1>6, <1>7 DEF SameStore, QueueType
<1>9. queue' = [queue EXCEPT ![q] = s] \/ queue' = [queue EXCEPT ![q] = d]
  BY <1>2, <1>7 DEF GiveFromISR
<1>10. queue'[q] \in {s, d} /\ \A r \in Handles : r # q => queue'[r] = queue[r]
  BY <1>1, <1>5, <1>9
<1>11. SameStore(queue'[q], CopyDataToQueue(q, Isr)) BY <1>2, <1>8, <1>10
<1>12. /\ Buffer' = [Buffer EXCEPT ![q] = Append(Buffer[q], Said(q, Isr))] /\ StoreInv'
       /\ Len(Buffer[q]) < Length[q]
  BY <1>1, <1>3, <1>4, <1>10, <1>11, BufferGains
<1>13. Others(None) /\ None \notin Task BY <1>3, HandlesAre DEF Others
<1>14. Wanting' = Wanting BY <1>13, WantingMoves
<1>15. CallerInv' BY <1>13, CallersKept DEF PromiseInv
<1>16. Mapped BY <1>12, <1>14, MapsInterrupt
<1> QED BY <1>12, <1>15, <1>16 DEF Promise

LEMMA StepPromise ==
  ASSUME PromiseInv, [Next]_vars
  PROVE  PromiseInv' /\ Mapped
<1>1. KernelInv' BY StepKeeps DEF PromiseInv
<1>2. ASSUME NEW t \in Task, Step(t) PROVE Promise
  <2>1. CASE Send(t) BY <1>1, <2>1, SendPromise
  <2>2. CASE Receive(t) \/ Take(t) BY <1>1, <2>2, FetchPromise
  <2>3. CASE Refused(t) BY <2>3, RefusedPromise
  <2>4. CASE Enter(t) BY <2>4, EnterPromise
  <2>5. CASE vTaskSuspendAll(t) \/ Place(t) \/ prvUnlockQueue(t)
    BY <2>5, SuspendPromise, PlacePromise, UnlockPromise
  <2>6. CASE Lock(t) BY <2>6, LockPromise
  <2>7. CASE TryAgain(t) \/ LookAgain(t) BY <2>7, TryAgainPromise
  <2>8. CASE vTaskDelay(t) \/ Resume(t) BY <2>8, DelayPromise, ResumePromise
  <2>9. CASE GiveUp(t) \/ Awake(t) BY <2>9, GiveUpPromise, AwakePromise
  <2> QED BY <1>2, <2>1, <2>2, <2>3, <2>4, <2>5, <2>6, <2>7, <2>8, <2>9 DEF Step
<1>3. ASSUME NEW q \in FromISR, GiveFromISR(q) PROVE Promise
  BY <1>1, <1>3, InterruptPromise
<1>4. ASSUME Tick PROVE Promise BY <1>4, TickPromise
<1>5. ASSUME UNCHANGED vars PROVE Promise
  <2>1. queue' = queue /\ call' = call BY <1>5 DEF vars
  <2>2. Others(None) /\ None \notin Task BY <2>1, HandlesAre DEF Others
  <2> QED BY <2>1, <2>2, SameStoreSame, StutterPromise
<1>6. Promise BY <1>2, <1>3, <1>4, <1>5 DEF Next
<1> QED BY <1>1, <1>6 DEF Promise, PromiseInv

LEMMA InitPromise ==
  ASSUME Init
  PROVE  PromiseInv /\ Promised!Init
<1>1. KernelInv BY InitStep
<1>2. \A q \in Handles : /\ queue[q].writeTo = 0 /\ queue[q].readFrom = Length[q] - 1
                         /\ queue[q].waiting = IF q \in Mutexes THEN 1 ELSE 0
  BY DEF Init
<1>3. ASSUME NEW q \in Handles, q \in Mailboxes PROVE Stored(q, queue[q])
  <2>1. PICK n \in Nat \ {0} : n = Length[q] BY HandlesAre
  <2>2. q \notin Mutexes BY <1>3, HandlesAre
  <2>3. PICK sum : sum = (n - 1) + 1 + 0 OBVIOUS
  <2>4. sum = n /\ sum \in 0 .. 2 * n /\ Round(sum, n) = 0 BY <2>3 DEF Round
  <2>5. sum % n = 0 BY <2>4, RoundIs
  <2> QED BY <1>2, <2>1, <2>2, <2>3, <2>5 DEF Stored
<1>4. StoreInv BY <1>3 DEF StoreInv, Stored
<1>5. \A t \in Task : call[t] = NoCall BY DEF Init
<1>6. CallerInv BY <1>5, NoView DEF CallerInv
<1>7. Wanting = [t \in Task |-> None] BY <1>5, NoView, WantingIs DEF Wanting
<1>8. ASSUME NEW q \in Handles PROVE Buffer[q] \in {<<>>, <<None>>}
  <2>1. PICK s \in QueueType(q) : s = queue[q] BY <1>1 DEF KernelInv, TypeOK
  <2>2. PICK f \in Seq(Message) :
          /\ f = Buffer[q] /\ Len(f) = s.waiting /\ (f = <<>> <=> s.waiting = 0)
          /\ \A i \in 1 .. s.waiting : q \notin Mailboxes => f[i] = None
    <3>1. PICK f : f = Filled(q, s) OBVIOUS
    <3> QED BY <2>1, <3>1, BufferIs, FilledIs
  <2>3. CASE q \in Mutexes
    <3>1. s.waiting = 1 /\ q \notin Mailboxes BY <1>2, <2>1, <2>3, HandlesAre
    <3>2. Len(f) = 1 /\ f[1] = None BY <2>2, <3>1
    <3>3. None \in Message BY DEF Message
    <3>4. PICK one : one = <<None>> OBVIOUS
    <3>5. one \in Seq(Message) /\ Len(one) = 1 /\ one[1] = None BY <3>3, <3>4
    <3>6. \A i \in 1 .. 1 : f[i] = one[i] BY <3>2, <3>5
    <3>7. f = one BY <3>2, <3>5, <3>6, SeqEqual
    <3> QED BY <2>2, <3>4, <3>7
  <2>4. CASE q \notin Mutexes BY <1>2, <2>1, <2>2, <2>4
  <2> QED BY <2>3, <2>4
<1>9. Buffer \in [Handles -> {<<>>, <<None>>}] BY <1>8 DEF Buffer
<1> QED BY <1>1, <1>4, <1>6, <1>7, <1>9 DEF PromiseInv, Promised!Init, Buffer, Wanting

(* queue.c does what Buffers promises, for any tasks, queues, lengths and      *)
(* programs: the locks, the event lists, the two indexes of the store, the     *)
(* interrupts and the waits come to one step for every call that succeeds, in  *)
(* the order of the store, and a call that fails had a limit and, to receive,  *)
(* nothing to get.                                                             *)
THEOREM BuffersImplemented == Spec => ImplementsBuffers
<1>1. Init => PromiseInv /\ Promised!Init BY InitPromise
<1>2. PromiseInv /\ [Next]_vars => PromiseInv' /\ [Promised!Next]_(Promised!vars)
  BY StepPromise DEF Mapped
<1> QED BY <1>1, <1>2, PTL DEF Spec, ImplementsBuffers, Promised!Spec
=============================================================================
