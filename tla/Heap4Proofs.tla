----------------------------- MODULE Heap4Proofs -----------------------------
(***************************************************************************)
(* The heap tiles its memory and keeps the promise of Allocator for every  *)
(* size of the heap, every size asked for and every order of calls.        *)
(***************************************************************************)
EXTENDS Heap4, FiniteSetTheorems, WellFoundedInduction, TLAPS

-----------------------------------------------------------------------------
(* Induction, for the recursive function of FreeList *)

LessNat == {pair \in Nat \X Nat : pair[1] < pair[2]}

(* A set of numbers that is not empty has a least element.                 *)
LEMMA Least ==
  ASSUME NEW S \in SUBSET Nat, S # {}
  PROVE  \E n \in S : \A k \in S : n <= k
<1>1. \A x, y \in Nat : <<y, x>> \in LessNat <=> y < x BY DEF LessNat
<1>2. IsWellFoundedOn(LessNat, Nat)
  BY NatLessThanWellFounded, Zenon DEF LessNat, OpToRel
<1>3. PICK n \in S : \A k \in S : ~(<<k, n>> \in LessNat) BY <1>2, WFMin
<1>4. \A k \in S : ~(k < n) BY <1>1, <1>3
<1> QED BY <1>4

LEMMA Induct ==
  ASSUME NEW S \in SUBSET Nat, 0 \in S, \A n \in S : n + 1 \in S
  PROVE  S = Nat
<1>1. SUFFICES ASSUME Nat \ S # {} PROVE FALSE OBVIOUS
<1>2. PICK n \in Nat \ S : \A k \in Nat \ S : n <= k BY <1>1, Least
<1>3. n - 1 \in Nat /\ n - 1 \notin Nat \ S BY <1>2
<1> QED BY <1>2, <1>3

(* Min finds it.                                                           *)
LEMMA MinIsLeast ==
  ASSUME NEW S \in SUBSET Nat, S # {}
  PROVE  Min(S) \in S /\ \A k \in S : Min(S) <= k
BY Least DEF Min

-----------------------------------------------------------------------------
(* The free list *)

\* f says what has been met after each number of steps up to n.
Meets(m, f, n) ==
  \A i \in 0 .. n : f[i] = IF i = 0 THEN <<xStart>> ELSE FollowNext(m, f[i - 1])

LEMMA MeetsSome ==
  ASSUME NEW m, NEW n \in Nat PROVE \E f : Meets(m, f, n)
<1> DEFINE S == {k \in Nat : \E f : Meets(m, f, k)}
<1>1. 0 \in S
  <2>1. Meets(m, [i \in {0} |-> <<xStart>>], 0) BY DEF Meets
  <2> QED BY <2>1
<1>2. ASSUME NEW k \in S PROVE k + 1 \in S
  <2>1. PICK f : Meets(m, f, k) OBVIOUS
  <2> DEFINE g == [i \in 0 .. k + 1 |-> IF i = k + 1 THEN FollowNext(m, f[k]) ELSE f[i]]
  <2>2. k \in Nat OBVIOUS
  <2>3. ASSUME NEW i \in 0 .. k + 1
        PROVE  g[i] = IF i = 0 THEN <<xStart>> ELSE FollowNext(m, g[i - 1])
    <3>1. CASE i = k + 1
      <4>1. g[i] = FollowNext(m, f[k]) /\ g[k] = f[k] /\ i - 1 = k /\ i # 0 BY <2>2, <3>1
      <4> QED BY <4>1
    <3>2. CASE i # k + 1
      <4>1. i \in 0 .. k /\ g[i] = f[i] /\ (i # 0 => g[i - 1] = f[i - 1]) BY <2>2, <3>2
      <4> QED BY <2>1, <4>1 DEF Meets
    <3> QED BY <3>1, <3>2
  <2>4. Meets(m, g, k + 1) BY <2>3 DEF Meets
  <2> QED BY <2>2, <2>4
<1>3. S = Nat
  <2> HIDE DEF S
  <2>1. S \in SUBSET Nat BY DEF S
  <2> QED BY <1>1, <1>2, <2>1, Induct
<1> QED BY <1>3

LEMMA MeetsOne ==
  ASSUME NEW m, NEW f, NEW g, NEW n \in Nat, NEW k \in Nat,
         Meets(m, f, n), Meets(m, g, k),
         NEW i \in Nat, i <= n, i <= k
  PROVE  f[i] = g[i]
<1> DEFINE S == {j \in Nat : j <= n /\ j <= k => f[j] = g[j]}
<1>1. 0 \in S BY DEF Meets
<1>2. ASSUME NEW j \in S PROVE j + 1 \in S
  <2>1. SUFFICES ASSUME j + 1 <= n, j + 1 <= k PROVE f[j + 1] = g[j + 1] OBVIOUS
  <2>2. f[j] = g[j] BY <2>1
  <2>3. (j + 1) \in 0 .. n /\ (j + 1) \in 0 .. k /\ (j + 1) - 1 = j /\ j + 1 # 0 BY <2>1
  <2> QED BY <2>2, <2>3 DEF Meets
<1>3. S = Nat
  <2> HIDE DEF S
  <2>1. S \in SUBSET Nat BY DEF S
  <2> QED BY <1>1, <1>2, <2>1, Induct
<1> QED BY <1>3

LEMMA FreeListStep ==
  ASSUME NEW m, End \in Nat
  PROVE  \E met : /\ met[0] = <<xStart>>
                  /\ \A n \in Nat : met[n + 1] = FollowNext(m, met[n])
                  /\ FreeList(m) = met[End \div ALIGNMENT + 1]
<1> DEFINE met == CHOOSE met : met =
                    [n \in Nat |-> IF n = 0 THEN <<xStart>> ELSE FollowNext(m, met[n - 1])]
           some(n) == CHOOSE f : Meets(m, f, n)
           g == [n \in Nat |-> some(n)[n]]
<1>1. \A n \in Nat : Meets(m, some(n), n) BY MeetsSome
<1>2. ASSUME NEW n \in Nat
      PROVE  g[n] = IF n = 0 THEN <<xStart>> ELSE FollowNext(m, g[n - 1])
  <2> HIDE DEF some
  <2>1. g[n] = some(n)[n] OBVIOUS
  <2>2. some(n)[n] = IF n = 0 THEN <<xStart>> ELSE FollowNext(m, some(n)[n - 1])
    BY <1>1 DEF Meets
  <2>3. ASSUME n # 0 PROVE some(n)[n - 1] = g[n - 1]
    <3>1. n - 1 \in Nat /\ n - 1 <= n BY <2>3
    <3>2. g[n - 1] = some(n - 1)[n - 1] BY <3>1
    <3> QED BY <1>1, <3>1, <3>2, MeetsOne
  <2> QED BY <2>1, <2>2, <2>3
<1>3. g = [n \in Nat |-> IF n = 0 THEN <<xStart>> ELSE FollowNext(m, g[n - 1])]
  <2> HIDE DEF some
  <2> QED BY <1>2
<1>4. met = [n \in Nat |-> IF n = 0 THEN <<xStart>> ELSE FollowNext(m, met[n - 1])]
  <2> HIDE DEF g
  <2> QED BY <1>3
<1>5. FreeList(m) = met[End \div ALIGNMENT + 1] BY DEF FreeList
<1> HIDE DEF met
<1>6. met[0] = <<xStart>> BY <1>4
<1>7. \A n \in Nat : met[n + 1] = FollowNext(m, met[n])
  <2> TAKE n \in Nat
  <2>1. n + 1 \in Nat /\ n + 1 # 0 /\ (n + 1) - 1 = n OBVIOUS
  <2>2. met[n + 1] = IF n + 1 = 0 THEN <<xStart>> ELSE FollowNext(m, met[(n + 1) - 1])
    BY <1>4, <2>1
  <2> QED BY <2>1, <2>2
<1> QED BY <1>5, <1>6, <1>7
\* What is known of the list after n steps.
Shape(m, free, list, n) ==
  /\ list \in Seq(Places) /\ Len(list) \in Nat \ {0} /\ list[1] = xStart
  /\ \A i \in 1 .. Len(list) - 1 :
       list[i] \in free \cup {xStart} /\ list[i + 1] = m[list[i]].next
  /\ \A i \in 1 .. Len(list) : ALIGNMENT * (i - 2) <= list[i]
  /\ list[Len(list)] \in free \cup {xStart, End}
  /\ list[Len(list)] # End => Len(list) = n + 1

LEMMA AddressesAreNumbers ==
  /\ \A a \in Addresses : a \in Nat /\ a < End /\ a % 8 = 0
  /\ \A a \in Places : a \in Int /\ a % 8 = 0 /\ -8 <= a /\ a <= End
  /\ xStart \notin Addresses /\ End \notin Addresses /\ xStart < End
  /\ xStart \in Places /\ End \in Places /\ Addresses \subseteq Places
  /\ NULL \notin Places
BY HeapAssumption DEF Addresses, Places, ALIGNMENT, HeapStructSize, xStart, NULL

LEMMA FollowShape ==
  ASSUME NEW m, NEW free \in SUBSET Addresses, Linked(m, free),
         NEW list, NEW n \in Nat, Shape(m, free, list, n)
  PROVE  Shape(m, free, FollowNext(m, list), n + 1)
<1> DEFINE k == Len(list)
           a == list[k]
<1> USE AddressesAreNumbers
<1>1. list \in Seq(Places) /\ k \in Nat \ {0} /\ Last(list) = a BY DEF Shape, Last
<1>2. CASE a = End
  <2>1. FollowNext(m, list) = list BY <1>1, <1>2 DEF FollowNext
  <2> QED BY <1>2, <2>1 DEF Shape
<1>3. CASE a # End
  <2> DEFINE b == m[a].next
             more == Append(list, b)
  <2>1. FollowNext(m, list) = more BY <1>1, <1>3 DEF FollowNext
  <2>2. a \in free \cup {xStart} /\ k = n + 1 BY <1>3 DEF Shape
  <2>3. b \in free \cup {End} /\ a < b BY <2>2 DEF Linked
  <2>4. a \in Places /\ b \in Places BY <2>2, <2>3
  <2>5. /\ more \in Seq(Places) /\ Len(more) = k + 1 /\ more[k + 1] = b
        /\ \A i \in 1 .. k : more[i] = list[i]
    BY <1>1, <2>4
  <2> HIDE DEF more, b
  <2>6. a + 8 <= b BY <2>3, <2>4, SMTT(30)
  <2>7. ALIGNMENT * (k - 2) <= a BY <1>1 DEF Shape
  <2>8. ALIGNMENT * ((k + 1) - 2) <= b BY <1>1, <2>4, <2>6, <2>7 DEF ALIGNMENT
  <2> HIDE DEF a
  <2>9. ASSUME NEW i \in 1 .. k
        PROVE  more[i] \in free \cup {xStart} /\ more[i + 1] = m[more[i]].next
    <3>1. CASE i = k BY <1>1, <2>2, <2>5, <3>1 DEF a, b
    <3>2. CASE i # k
      <4>1. i \in 1 .. k - 1 /\ i + 1 \in 1 .. k BY <1>1, <3>2
      <4> QED BY <2>5, <4>1 DEF Shape
    <3> QED BY <3>1, <3>2
  <2>10. ASSUME NEW i \in 1 .. k + 1 PROVE ALIGNMENT * (i - 2) <= more[i]
    <3>1. CASE i = k + 1 BY <2>5, <2>8, <3>1
    <3>2. CASE i # k + 1
      <4>1. i \in 1 .. k BY <1>1, <3>2
      <4> QED BY <2>5, <4>1 DEF Shape
    <3> QED BY <3>1, <3>2
  <2>11. more[1] = xStart
    <3>1. 1 \in 1 .. k /\ list[1] = xStart BY <1>1 DEF Shape
    <3> QED BY <2>5, <3>1
  <2>12. Len(more) - 1 = k /\ Len(more) \in Nat \ {0} BY <1>1, <2>5
  <2> QED BY <2>1, <2>2, <2>3, <2>5, <2>9, <2>10, <2>11, <2>12 DEF Shape
<1> QED BY <1>2, <1>3

(* FreeList reaches pxEnd.                                                 *)
LEMMA FreeListShape ==
  ASSUME NEW m, NEW free \in SUBSET Addresses, Linked(m, free)
  PROVE  LET list == FreeList(m)
         IN  /\ list \in Seq(Places) /\ Len(list) \in Nat /\ Len(list) >= 2
             /\ list[1] = xStart /\ list[Len(list)] = End
             /\ \A i \in 1 .. Len(list) - 1 :
                  list[i] \in free \cup {xStart} /\ list[i + 1] = m[list[i]].next
<1> USE AddressesAreNumbers
<1>1. PICK met : /\ met[0] = <<xStart>>
                 /\ \A n \in Nat : met[n + 1] = FollowNext(m, met[n])
                 /\ FreeList(m) = met[End \div ALIGNMENT + 1]
  BY FreeListStep, HeapAssumption
<1> DEFINE S == {n \in Nat : Shape(m, free, met[n], n)}
<1>2. 0 \in S
  <2>1. Shape(m, free, <<xStart>>, 0) BY DEF Shape, ALIGNMENT, xStart
  <2> QED BY <1>1, <2>1
<1>3. ASSUME NEW n \in S PROVE n + 1 \in S
  BY <1>1, FollowShape
<1>4. S = Nat
  <2> HIDE DEF S
  <2>1. S \in SUBSET Nat BY DEF S
  <2> QED BY <1>2, <1>3, <2>1, Induct
<1> DEFINE last_n == End \div ALIGNMENT + 1
           list == FreeList(m)
<1>5. last_n \in Nat /\ 8 * (last_n - 1) = End
  BY HeapAssumption DEF ALIGNMENT
<1>6. Shape(m, free, list, last_n) BY <1>1, <1>4, <1>5
<1> HIDE DEF last_n, list, S
<1> DEFINE k == Len(list)
<1>7. list[k] = End
  <2>1. SUFFICES ASSUME list[k] # End PROVE FALSE OBVIOUS
  <2>2. k = last_n + 1 /\ list[k] \in free \cup {xStart} BY <1>6, <2>1 DEF Shape
  <2>3. ALIGNMENT * (k - 2) <= list[k] BY <1>5, <1>6, <2>2 DEF Shape
  <2>4. k - 2 = last_n - 1 BY <1>5, <2>2
  <2>5. list[k] \in Int /\ list[k] < End BY <2>2
  <2> QED BY <1>5, <2>3, <2>4, <2>5, HeapAssumption DEF ALIGNMENT
<1>8. k # 1 BY <1>6, <1>7 DEF Shape
<1> QED BY <1>6, <1>7, <1>8 DEF Shape, list

LEMMA FreeListIncreases ==
  ASSUME NEW m, NEW free \in SUBSET Addresses, Linked(m, free),
         NEW i \in 1 .. Len(FreeList(m)), NEW j \in 1 .. Len(FreeList(m)), i < j
  PROVE  FreeList(m)[i] < FreeList(m)[j]
<1> DEFINE list == FreeList(m)
           n == Len(list)
           S == {k \in Nat : i + 1 + k <= n => list[i] < list[i + 1 + k]}
<1>1. /\ n \in Nat
      /\ \A k \in 1 .. n : list[k] \in Int
      /\ \A k \in 1 .. n - 1 : list[k] < list[k + 1]
  <2>1. /\ list \in Seq(Places) /\ n \in Nat /\ n >= 2
        /\ \A k \in 1 .. n - 1 : list[k] \in free \cup {xStart} /\ list[k + 1] = m[list[k]].next
    BY FreeListShape
  <2>2. \A k \in 1 .. n : list[k] \in Places BY <2>1
  <2> HIDE DEF list
  <2> QED BY <2>1, <2>2, AddressesAreNumbers DEF Linked
<1> HIDE DEF list
<1>2. 0 \in S BY <1>1
<1>3. ASSUME NEW k \in S PROVE k + 1 \in S
  <2>1. SUFFICES ASSUME i + 1 + (k + 1) <= n PROVE list[i] < list[i + 1 + (k + 1)] OBVIOUS
  <2>2. list[i] < list[i + 1 + k] BY <1>1, <2>1 DEF list
  <2>3. /\ i + 1 + k \in 1 .. n - 1 /\ (i + 1 + k) + 1 = i + 1 + (k + 1)
        /\ i + 1 + (k + 1) \in 1 .. n /\ i \in 1 .. n
    BY <1>1, <2>1 DEF list
  <2>4. list[i + 1 + k] < list[i + 1 + (k + 1)] BY <1>1, <2>3
  <2> QED BY <1>1, <2>2, <2>3, <2>4
<1>4. S = Nat
  <2> HIDE DEF S
  <2>1. S \in SUBSET Nat BY DEF S
  <2> QED BY <1>2, <1>3, <2>1, Induct
<1>5. j - (i + 1) \in Nat /\ i + 1 + (j - (i + 1)) = j BY <1>1 DEF list
<1>6. j - (i + 1) \in S BY <1>4, <1>5
<1> QED BY <1>5, <1>6 DEF list

(* The blocks of the list are those that are linked.                       *)
LEMMA FreeBlocksAre ==
  ASSUME NEW m, NEW free \in SUBSET Addresses, Linked(m, free)
  PROVE  FreeBlocks(m) = free
<1> DEFINE list == FreeList(m)
           n == Len(list)
<1>1. /\ list \in Seq(Places) /\ n \in Nat /\ n >= 2
      /\ list[1] = xStart /\ list[n] = End
      /\ \A i \in 1 .. n - 1 :
           list[i] \in free \cup {xStart} /\ list[i + 1] = m[list[i]].next
  BY FreeListShape
<1>2. ToSet(list) = {list[i] : i \in 1 .. n} BY <1>1 DEF ToSet
<1>3. FreeBlocks(m) = {list[i] : i \in 1 .. n} \ {xStart, End}
  BY <1>2 DEF FreeBlocks
<1> HIDE DEF list
<1>4. \A i \in 1 .. n : i \in 1 .. n - 1 \/ i = n BY <1>1
<1>5. FreeBlocks(m) \subseteq free BY <1>1, <1>3, <1>4
<1>6. ASSUME NEW b \in free PROVE \E i \in 1 .. n : list[i] = b
  <2> DEFINE above == {i \in 1 .. n : b < list[i]}
  <2>1. n \in above BY <1>1, AddressesAreNumbers
  <2>2. above \subseteq Nat BY <1>1
  <2>3. PICK i \in above : \A k \in above : i <= k BY <2>1, <2>2, Least
  <2>4. i # 1 BY <1>1, <2>3, AddressesAreNumbers DEF xStart
  <2>5. i - 1 \in 1 .. n - 1 /\ (i - 1) + 1 = i /\ i - 1 \in 1 .. n BY <1>1, <2>3, <2>4
  <2>6. ~(b < list[i - 1]) BY <2>3, <2>5
  <2>7. /\ list[i - 1] \in free \cup {xStart}
        /\ list[i] = m[list[i - 1]].next
    BY <1>1, <2>5
  <2>8. ~(list[i - 1] < b)
    <3>1. SUFFICES ASSUME list[i - 1] < b PROVE FALSE OBVIOUS
    <3>2. list[i] <= b BY <2>7, <3>1 DEF Linked
    <3>3. list[i] \in Int /\ b \in Int BY <1>1, AddressesAreNumbers
    <3> QED BY <2>3, <3>2, <3>3
  <2>9. list[i - 1] \in Int /\ b \in Int BY <2>7, AddressesAreNumbers
  <2> QED BY <2>5, <2>6, <2>8, <2>9
<1>7. free \subseteq FreeBlocks(m) BY <1>3, <1>6, AddressesAreNumbers
<1> QED BY <1>5, <1>7

(* Where prvInsertBlockIntoFreeList stops: between the blocks around it.   *)
LEMMA IteratorIsBefore ==
  ASSUME NEW m, NEW free \in SUBSET Addresses, Linked(m, free),
         NEW block \in Addresses, block \notin free
  PROVE  /\ Iterator(m, block) \in free \cup {xStart}
         /\ Iterator(m, block) < block /\ block < m[Iterator(m, block)].next
<1> DEFINE list == FreeList(m)
           n == Len(list)
           beyond == {i \in 1 .. n : m[list[i]].next >= block}
           at == SelectInSeq(list, LAMBDA a : m[a].next >= block)
<1>1. /\ list \in Seq(Places) /\ n \in Nat /\ n >= 2
      /\ list[1] = xStart /\ list[n] = End
      /\ \A i \in 1 .. n - 1 :
           list[i] \in free \cup {xStart} /\ list[i + 1] = m[list[i]].next
  BY FreeListShape
<1>2. at = IF beyond # {} THEN Min(beyond) ELSE 0 BY DEF SelectInSeq
<1> HIDE DEF at, list
<1>3. n - 1 \in beyond
  <2>1. n - 1 \in 1 .. n /\ n - 1 \in 1 .. n - 1 /\ (n - 1) + 1 = n BY <1>1
  <2>2. m[list[n - 1]].next = End BY <1>1, <2>1
  <2> QED BY <2>1, <2>2, AddressesAreNumbers
<1>4. beyond \subseteq Nat BY <1>1
<1>5. at \in beyond /\ \A i \in beyond : at <= i BY <1>2, <1>3, <1>4, MinIsLeast
<1>6. at \in 1 .. n - 1 BY <1>1, <1>3, <1>5
<1>7. list[at] \in free \cup {xStart} /\ m[list[at]].next >= block
  BY <1>1, <1>5, <1>6
<1>8. block < m[list[at]].next
  <2>1. m[list[at]].next \in free \cup {End} BY <1>7 DEF Linked
  <2> QED BY <1>7, <2>1, AddressesAreNumbers
<1>9. list[at] < block
  <2>1. CASE at = 1 BY <1>1, <2>1, AddressesAreNumbers DEF xStart
  <2>2. CASE at # 1
    <3>1. at - 1 \in 1 .. n - 1 /\ at - 1 \in 1 .. n /\ (at - 1) + 1 = at BY <1>6, <2>2, <1>1
    <3>2. ~(m[list[at - 1]].next >= block) BY <1>5, <3>1
    <3>3. m[list[at - 1]].next = list[at] BY <1>1, <3>1
    <3> QED BY <1>7, <3>2, <3>3, AddressesAreNumbers
  <2> QED BY <2>1, <2>2
<1>10. Iterator(m, block) = list[at] BY DEF Iterator, at, list
<1> QED BY <1>7, <1>8, <1>9, <1>10

-----------------------------------------------------------------------------
(* Blocks that tile the heap *)

LEMMA EndOfType ==
  ASSUME NEW m \in Memory, NEW a \in Places
  PROVE  /\ m[a].size \in 0 .. End /\ EndOf(m, a) \in Int /\ EndOf(m, a) = a + m[a].size
         /\ a <= EndOf(m, a)
BY AddressesAreNumbers, HeapAssumption DEF EndOf, Memory

LEMMA InBytes ==
  ASSUME NEW m, NEW blocks, NEW x
  PROVE  x \in BytesOf(m, blocks) <=> \E b \in blocks : x \in Bytes(m, b)
BY DEF BytesOf

(* Two blocks that touch may be made one.                                  *)
LEMMA JoinTiles ==
  ASSUME NEW m \in Memory, NEW m2 \in Memory, NEW blocks \in SUBSET Addresses,
         Tiles(m, blocks), NEW a \in blocks, NEW b \in blocks,
         EndOf(m, a) = b, EndOf(m2, a) = EndOf(m, b),
         \A c \in blocks \ {a, b} : EndOf(m2, c) = EndOf(m, c)
  PROVE  /\ Tiles(m2, blocks \ {b})
         /\ Bytes(m2, a) = Bytes(m, a) \cup Bytes(m, b)
<1> DEFINE rest == blocks \ {b}
<1>1. \A c \in blocks : c \in Int /\ EndOf(m, c) \in Int /\ EndOf(m2, c) \in Int
  BY EndOfType, AddressesAreNumbers
<1>2. \A c \in blocks : c < EndOf(m, c) /\ EndOf(m, c) <= End BY DEF Tiles
<1>3. \A c, d \in blocks : c < d => EndOf(m, c) <= d BY DEF Tiles
<1>4. a < b BY <1>1, <1>2
<1>5. \A c \in rest : c < EndOf(m2, c) /\ EndOf(m2, c) <= End
  BY <1>1, <1>2, <1>4
<1>6. ASSUME NEW c \in rest, NEW d \in rest, c < d PROVE EndOf(m2, c) <= d
  <2>1. CASE c = a
    <3>1. b <= d BY <1>3, <2>1, <1>6
    <3>2. b < d BY <1>1, <3>1
    <3> QED BY <1>3, <2>1, <3>2
  <2>2. CASE c # a BY <1>3, <1>6, <2>2
  <2> QED BY <2>1, <2>2
<1>7. Bytes(m2, a) = Bytes(m, a) \cup Bytes(m, b)
  BY <1>1, <1>2, <1>4 DEF Bytes
<1>8. \A c \in rest \ {a} : Bytes(m2, c) = Bytes(m, c) BY DEF Bytes
<1>9. ASSUME NEW x \in 0 .. End - 1 PROVE x \in BytesOf(m2, rest)
  <2>1. x \in BytesOf(m, blocks) BY DEF Tiles
  <2>2. PICK c \in blocks : x \in Bytes(m, c) BY <2>1, InBytes
  <2>3. a \in rest BY <1>1, <1>4
  <2>4. \E d \in rest : x \in Bytes(m2, d) BY <1>7, <1>8, <2>2, <2>3
  <2> QED BY <2>4, InBytes
<1> QED BY <1>5, <1>6, <1>7, <1>9 DEF Tiles

\* What prvInsertBlockIntoFreeList finds, and what it makes of it.
Between(m, free, block, iterator) ==
  /\ iterator \in free \cup {xStart}
  /\ iterator < block /\ block < m[iterator].next

Touches(m, a, b) == EndOf(m, a) = b

\* The blocks that are no more on their own.
Absorbed(m, block, iterator) ==
  (IF Touches(m, iterator, block) THEN {block} ELSE {})
    \cup (IF Touches(m, block, m[iterator].next) /\ m[iterator].next # End
            THEN {m[iterator].next} ELSE {})

First(m, block, iterator) == IF Touches(m, iterator, block) THEN iterator ELSE block
NewEnd(m, block, iterator) ==
  LET next == m[iterator].next
  IN  IF Touches(m, block, next) /\ next # End THEN EndOf(m, next) ELSE EndOf(m, block)
NewNext(m, block, iterator) ==
  LET next == m[iterator].next
  IN  IF Touches(m, block, next) /\ next # End THEN m[next].next ELSE next

\* The blocks around one that is inserted, before.
Insertable(m, free, used, block) ==
  m \in Memory /\ used \subseteq Addresses /\ block \in used /\ Sound(m, free, used)

LEMMA Around ==
  ASSUME NEW m, NEW free, NEW used, NEW block, Insertable(m, free, used, block),
         NEW iterator, Between(m, free, block, iterator)
  PROVE  LET next == m[iterator].next
         IN  /\ next \in free \cup {End} /\ iterator \in Places /\ block \in Addresses
             /\ next \in Places
             /\ \A b \in free : b <= iterator \/ next <= b
             /\ EndOf(m, iterator) <= block /\ EndOf(m, block) <= next
             /\ Touches(m, iterator, block) => iterator \in free
             /\ First(m, block, iterator) \in Addresses
             /\ First(m, block, iterator) <= block
             /\ block < EndOf(m, block)
             /\ EndOf(m, block) <= NewEnd(m, block, iterator)
             /\ NewEnd(m, block, iterator) \in Int /\ NewEnd(m, block, iterator) <= End
<1> DEFINE next == m[iterator].next
<1> USE AddressesAreNumbers
<1>1. iterator \in free \cup {xStart} /\ iterator < block /\ block < next BY DEF Between
<1>2. /\ next \in free \cup {End} /\ iterator \in Places /\ block \in Addresses
      /\ next \in Places
  BY <1>1 DEF Insertable, Sound, Linked
<1>3. \A b \in free : b <= iterator \/ next <= b
  BY <1>1, <1>2 DEF Insertable, Sound, Linked
<1>4. EndOf(m, iterator) <= block /\ (Touches(m, iterator, block) => iterator \in free)
  <2>1. CASE iterator = xStart
    BY <2>1, <1>1, <1>2 DEF Insertable, Sound, EndOf, Touches, xStart
  <2>2. CASE iterator \in free BY <1>1, <2>2 DEF Insertable, Sound, Tiles
  <2> QED BY <1>1, <2>1, <2>2
<1>5. EndOf(m, block) <= next
  <2>1. CASE next = End BY <2>1 DEF Insertable, Sound, Tiles
  <2>2. CASE next \in free BY <1>1, <2>2 DEF Insertable, Sound, Tiles
  <2> QED BY <1>2, <2>1, <2>2
<1>6. First(m, block, iterator) \in Addresses /\ First(m, block, iterator) <= block
  BY <1>1, <1>2, <1>4 DEF First, Insertable, Sound
<1>7. block < EndOf(m, block) /\ EndOf(m, block) <= End BY DEF Insertable, Sound, Tiles
<1>8. /\ EndOf(m, block) <= NewEnd(m, block, iterator)
      /\ NewEnd(m, block, iterator) \in Int /\ NewEnd(m, block, iterator) <= End
  <2>1. EndOf(m, block) \in Int BY <1>2, EndOfType DEF Insertable, Sound
  <2>2. CASE Touches(m, block, next) /\ next # End
    <3>1. next \in free /\ NewEnd(m, block, iterator) = EndOf(m, next)
      BY <1>2, <2>2 DEF NewEnd
    <3>2. EndOf(m, next) \in Int BY <1>2, EndOfType DEF Insertable, Sound
    <3>3. next < EndOf(m, next) /\ EndOf(m, next) <= End BY <3>1 DEF Insertable, Sound, Tiles
    <3> QED BY <1>2, <1>5, <2>1, <3>1, <3>2, <3>3
  <2>3. CASE ~(Touches(m, block, next) /\ next # End)
    <3>1. NewEnd(m, block, iterator) = EndOf(m, block) BY <2>3 DEF NewEnd
    <3> QED BY <1>7, <2>1, <3>1
  <2> QED BY <2>2, <2>3
<1> QED BY <1>2, <1>3, <1>4, <1>5, <1>6, <1>7, <1>8

\* What the code writes: the block's end, or that of the one it is merged with, and
\* the two links.
Inserted(m, m2, block, iterator) ==
  LET first == First(m, block, iterator)
  IN  /\ m2 \in Memory
      /\ EndOf(m2, first) = NewEnd(m, block, iterator)
      /\ m2[first].next = NewNext(m, block, iterator)
      /\ first # iterator =>
           m2[iterator].next = block /\ EndOf(m2, iterator) = EndOf(m, iterator)
      /\ \A a \in Places \ {first, iterator} : m2[a] = m[a]
      /\ \A a \in Places : m2[a].canary = m[a].canary

LEMMA InsertMakes ==
  ASSUME NEW m, NEW free, NEW used, NEW block, Insertable(m, free, used, block)
  PROVE  \E iterator : /\ Between(m, free, block, iterator)
                       /\ Inserted(m, Insert(m, block), block, iterator)
<1> DEFINE iterator == Iterator(m, block)
           next == m[iterator].next
           first == First(m, block, iterator)
           before == EndOf(m, iterator) = block
           size == IF before THEN m[iterator].size + m[block].size ELSE m[block].size
           behind == first + size = next /\ next # End
           newSize == IF behind THEN size + m[next].size ELSE size
           newNext == IF behind THEN m[next].next ELSE next
           merged == [m EXCEPT ![first].size = newSize, ![first].next = newNext]
           m2 == Insert(m, block)
<1>1. Between(m, free, block, iterator)
  <2>1. /\ free \in SUBSET Addresses /\ Linked(m, free)
        /\ block \in Addresses /\ block \notin free
    BY DEF Insertable, Sound
  <2>2. /\ iterator \in free \cup {xStart}
        /\ iterator < block /\ block < m[iterator].next
    BY <2>1, IteratorIsBefore
  <2> HIDE DEF iterator
  <2> QED BY <2>2 DEF Between
<1>2. m2 = IF before THEN merged ELSE [merged EXCEPT ![iterator].next = block]
  BY DEF Insert, First, Touches
<1> HIDE DEF m2, iterator
<1>3. /\ next \in free \cup {End} /\ iterator \in Places /\ block \in Addresses
      /\ next \in Places /\ first \in Addresses /\ first \in Places /\ block \in Places
      /\ first <= block /\ block < EndOf(m, block)
      /\ EndOf(m, block) <= NewEnd(m, block, iterator)
      /\ NewEnd(m, block, iterator) \in Int /\ NewEnd(m, block, iterator) <= End
      /\ EndOf(m, iterator) <= block
  BY <1>1, Around, AddressesAreNumbers
<1>4. m \in Memory /\ (~before => first # iterator)
  BY <1>1, <1>3, AddressesAreNumbers DEF Insertable, Sound, First, Touches, Between
<1>5. first + size = EndOf(m, block)
  <2>1. m[block].size \in Int /\ m[iterator].size \in Int /\ first \in Int
    BY <1>3, <1>4, EndOfType, AddressesAreNumbers
  <2>2. CASE before BY <2>1, <2>2, <1>3 DEF First, EndOf, Touches
  <2>3. CASE ~before BY <2>1, <2>3, <1>3 DEF First, EndOf, Touches
  <2> QED BY <2>2, <2>3
<1>6. behind <=> Touches(m, block, next) /\ next # End BY <1>5 DEF Touches
<1>7. newNext = NewNext(m, block, iterator) BY <1>6 DEF NewNext
<1>8. first + newSize = NewEnd(m, block, iterator)
  <2>1. m[next].size \in Int /\ m[block].size \in Int /\ m[iterator].size \in Int /\ first \in Int
    BY <1>3, <1>4, EndOfType, AddressesAreNumbers
  <2>2. CASE behind BY <2>1, <2>2, <1>3, <1>5, <1>6 DEF NewEnd, EndOf
  <2>3. CASE ~behind BY <2>1, <2>3, <1>3, <1>5, <1>6 DEF NewEnd
  <2> QED BY <2>2, <2>3
<1>9. newSize \in 0 .. End
  <2>1. newSize \in Int
    BY <1>3, <1>4, EndOfType, AddressesAreNumbers
  <2>2. first \in Nat /\ block \in Int /\ EndOf(m, block) \in Int
    BY <1>3, <1>4, EndOfType, AddressesAreNumbers
  <2> HIDE DEF newSize
  <2> QED BY <1>3, <1>8, <2>1, <2>2, HeapAssumption
<1>10. newNext \in Places \cup {NULL, Wild} BY <1>3, <1>4 DEF Memory
<1> HIDE DEF newSize, newNext, first, size, behind
<1>11. merged \in Memory BY <1>3, <1>4, <1>9, <1>10 DEF Memory
<1>12. /\ merged[first].size = newSize /\ merged[first].next = newNext
       /\ \A a \in Places \ {first} : merged[a] = m[a]
       /\ \A a \in Places : merged[a].owned = m[a].owned /\ merged[a].canary = m[a].canary
  BY <1>3, <1>4 DEF Memory
<1> HIDE DEF merged
<1>13. CASE before
  <2>1. m2 = merged /\ first = iterator BY <1>2, <1>13 DEF first, First, Touches
  <2> QED BY <1>1, <1>7, <1>8, <1>11, <1>12, <2>1 DEF Inserted, EndOf, m2, first
<1>14. CASE ~before
  <2>1. m2 = [merged EXCEPT ![iterator].next = block] BY <1>2, <1>14
  <2>2. m2 \in Memory BY <1>3, <1>11, <2>1 DEF Memory
  <2>3. first # iterator BY <1>4, <1>14
  <2>4. /\ m2[first] = merged[first] /\ m2[iterator].next = block
        /\ m2[iterator].size = merged[iterator].size
        /\ \A a \in Places \ {iterator} : m2[a] = merged[a]
        /\ \A a \in Places : m2[a].owned = merged[a].owned /\ m2[a].canary = merged[a].canary
    BY <1>3, <1>11, <2>1, <2>3 DEF Memory
  <2>5. EndOf(m2, first) = NewEnd(m, block, iterator) /\ m2[first].next = NewNext(m, block, iterator)
    BY <1>7, <1>8, <1>12, <2>4 DEF EndOf
  <2>6. EndOf(m2, iterator) = EndOf(m, iterator) BY <1>3, <1>12, <2>3, <2>4 DEF EndOf
  <2> QED BY <1>1, <1>12, <2>2, <2>3, <2>4, <2>5, <2>6 DEF Inserted, m2, first
<1> QED BY <1>13, <1>14

\* The free blocks once block is one of them.
Joined(m, free, block, iterator) == (free \cup {block}) \ Absorbed(m, block, iterator)

LEMMA TilesSame ==
  ASSUME NEW m, NEW m2, NEW blocks, Tiles(m, blocks),
         \A b \in blocks : EndOf(m2, b) = EndOf(m, b)
  PROVE  Tiles(m2, blocks) /\ BytesOf(m2, blocks) = BytesOf(m, blocks)
<1>1. BytesOf(m2, blocks) = BytesOf(m, blocks) BY DEF BytesOf, Bytes
<1> QED BY <1>1 DEF Tiles

LEMMA InsertTiles ==
  ASSUME NEW m, NEW free, NEW used, NEW block, Insertable(m, free, used, block),
         NEW iterator, Between(m, free, block, iterator),
         NEW m2, Inserted(m, m2, block, iterator)
  PROVE  /\ Tiles(m2, (free \cup used) \ Absorbed(m, block, iterator))
         /\ \A x : x \in Bytes(m2, First(m, block, iterator)) <=>
              \/ x \in Bytes(m, block)
              \/ Touches(m, iterator, block) /\ x \in Bytes(m, iterator)
              \/ /\ m[iterator].next \in Absorbed(m, block, iterator)
                 /\ x \in Bytes(m, m[iterator].next)
<1> DEFINE next == m[iterator].next
           first == First(m, block, iterator)
           before == Touches(m, iterator, block)
           behind == Touches(m, block, next) /\ next # End
           blocks == free \cup used
           size1 == EndOf(m, block) - iterator
           m1 == IF before THEN [m EXCEPT ![iterator].size = size1] ELSE m
           blocks1 == IF before THEN blocks \ {block} ELSE blocks
<1> USE AddressesAreNumbers
<1>1. /\ next \in free \cup {End} /\ iterator \in Places /\ block \in Addresses
      /\ first \in Addresses
      /\ EndOf(m, block) <= End /\ EndOf(m, block) \in Int /\ block < EndOf(m, block)
      /\ before => iterator \in free
  BY Around, EndOfType DEF Insertable, Sound, Tiles
<1>2. /\ m \in Memory /\ blocks \in SUBSET Addresses /\ Tiles(m, blocks)
      /\ block \in blocks /\ block \notin free
  BY DEF Insertable, Sound
<1>3. iterator < block /\ block < next BY DEF Between
<1>4. /\ m1 \in Memory /\ EndOf(m1, first) = EndOf(m, block) /\ first \in blocks1
      /\ \A c \in Places \ {first} : m1[c] = m[c]
  <2>1. CASE before
    <3>1. size1 \in 0 .. End BY <1>1, <1>2, <1>3, <2>1, HeapAssumption
    <3>2. m1 = [m EXCEPT ![iterator].size = size1] /\ first = iterator BY <2>1 DEF First
    <3>3. m1 \in Memory
      <4>1. iterator \in Places /\ m \in Memory BY <1>1, <1>2
      <4> HIDE DEF size1, m1
      <4> QED BY ONLY <3>1, <3>2, <4>1 DEF Memory
    <3>4. m1[iterator].size = size1 BY <1>1, <1>2, <3>2 DEF Memory
    <3>5. EndOf(m1, first) = EndOf(m, block) BY <1>1, <3>2, <3>4 DEF EndOf
    <3>6. \A c \in Places \ {first} : m1[c] = m[c] BY <1>2, <3>2 DEF Memory
    <3>7. iterator \in blocks1 BY <1>1, <1>2, <2>1
    <3> QED BY <3>2, <3>3, <3>5, <3>6, <3>7
  <2>2. CASE ~before BY <1>2, <2>2 DEF First
  <2> QED BY <2>1, <2>2
<1>5. /\ Tiles(m1, blocks1)
      /\ Bytes(m1, first) =
           Bytes(m, block) \cup (IF before THEN Bytes(m, iterator) ELSE {})
  <2>1. CASE before
    <3>1. first = iterator /\ iterator \in blocks BY <1>1, <2>1 DEF First
    <3>2. \A c \in blocks \ {iterator, block} : EndOf(m1, c) = EndOf(m, c)
      BY <1>4, <3>1 DEF EndOf
    <3>3. EndOf(m, iterator) = block BY <2>1 DEF Touches
    <3>4. /\ Tiles(m1, blocks \ {block})
          /\ Bytes(m1, iterator) = Bytes(m, iterator) \cup Bytes(m, block)
      <4> HIDE DEF m1, blocks, first
      <4>1. EndOf(m1, iterator) = EndOf(m, block) BY <1>4, <3>1
      <4> QED BY <1>2, <1>4, <3>1, <3>2, <3>3, <4>1, JoinTiles
    <3> QED BY <2>1, <3>1, <3>4
  <2>2. CASE ~before BY <1>2, <2>2 DEF First
  <2> QED BY <2>1, <2>2
<1>6. next # block /\ next # first /\ (next # End => next \in blocks1)
  BY <1>1, <1>2, <1>3 DEF First
<1>7. m2 \in Memory /\ EndOf(m2, first) = NewEnd(m, block, iterator)
  BY DEF Inserted
<1>8. \A c \in Places \ {first} : EndOf(m2, c) = EndOf(m1, c)
  <2> TAKE c \in Places \ {first}
  <2>1. EndOf(m1, c) = EndOf(m, c) BY <1>4 DEF EndOf
  <2>2. EndOf(m2, c) = EndOf(m, c) BY DEF Inserted, EndOf
  <2> QED BY <2>1, <2>2
<1>9. Absorbed(m, block, iterator) =
        (IF before THEN {block} ELSE {}) \cup (IF behind THEN {next} ELSE {})
  BY DEF Absorbed
<1>10. blocks1 \in SUBSET Addresses BY <1>2
<1> HIDE DEF m1, blocks1, first
<1>11. CASE behind
  <2>1. next \in free /\ next \in blocks1 BY <1>1, <1>6, <1>11
  <2>2. EndOf(m1, first) = next BY <1>4, <1>11 DEF Touches
  <2>3. EndOf(m1, next) = EndOf(m, next) BY <1>4, <1>6, <2>1, <1>2 DEF EndOf
  <2>4. EndOf(m2, first) = EndOf(m1, next) BY <1>7, <1>11, <2>3 DEF NewEnd
  <2>5. \A c \in blocks1 \ {first, next} : EndOf(m2, c) = EndOf(m1, c) BY <1>8, <1>10
  <2>6. /\ Tiles(m2, blocks1 \ {next})
        /\ Bytes(m2, first) = Bytes(m1, first) \cup Bytes(m1, next)
    <3> HIDE DEF next
    <3> QED BY <1>4, <1>5, <1>7, <1>10, <2>1, <2>2, <2>4, <2>5, JoinTiles
  <2>7. blocks1 \ {next} = blocks \ Absorbed(m, block, iterator)
    BY <1>9, <1>11 DEF blocks1
  <2>8. Bytes(m1, next) = Bytes(m, next) BY <2>3 DEF Bytes
  <2>9. next \in Absorbed(m, block, iterator) BY <1>9, <1>11
  <2> QED BY <1>5, <2>6, <2>7, <2>8, <2>9 DEF first
<1>12. CASE ~behind
  <2>1. EndOf(m2, first) = EndOf(m1, first) BY <1>4, <1>7, <1>12 DEF NewEnd
  <2>2. \A c \in blocks1 : EndOf(m2, c) = EndOf(m1, c) BY <1>8, <1>10, <2>1
  <2>3. Tiles(m2, blocks1) BY <1>5, <2>2, TilesSame
  <2>4. Bytes(m2, first) = Bytes(m1, first) BY <2>1 DEF Bytes
  <2>5. blocks1 = blocks \ Absorbed(m, block, iterator) BY <1>9, <1>12 DEF blocks1
  <2>6. next \notin Absorbed(m, block, iterator) BY <1>6, <1>9, <1>12
  <2> QED BY <1>5, <2>3, <2>4, <2>5, <2>6 DEF first
<1> QED BY <1>11, <1>12

LEMMA InsertLinks ==
  ASSUME NEW m, NEW free, NEW used, NEW block, Insertable(m, free, used, block),
         NEW iterator, Between(m, free, block, iterator),
         NEW m2, Inserted(m, m2, block, iterator)
  PROVE  Linked(m2, Joined(m, free, block, iterator))
<1> DEFINE next == m[iterator].next
           first == First(m, block, iterator)
           before == Touches(m, iterator, block)
           behind == Touches(m, block, next) /\ next # End
           free2 == Joined(m, free, block, iterator)
<1> USE AddressesAreNumbers
<1>1. /\ next \in free \cup {End} /\ iterator \in Places /\ block \in Addresses
      /\ first \in Addresses /\ next \in Places
      /\ \A b \in free : b <= iterator \/ next <= b
      /\ before => iterator \in free
  BY Around
<1>2. free \in SUBSET Addresses /\ block \notin free /\ Linked(m, free) BY DEF Insertable, Sound
<1>3. iterator \in free \cup {xStart} /\ iterator < block /\ block < next BY DEF Between
<1>4. \A b : b \in free2 <=>
        (b \in free \/ b = block) /\ ~(before /\ b = block) /\ ~(behind /\ b = next)
  BY DEF Joined, Absorbed
<1>5. /\ m2[first].next = IF behind THEN m[next].next ELSE next
      /\ ~before => m2[iterator].next = block
      /\ \A a \in Places \ {first, iterator} : m2[a].next = m[a].next
  BY <1>1, <1>3 DEF Inserted, NewNext, First
<1>6. first = IF before THEN iterator ELSE block BY DEF First
<1>7. /\ \A b \in free : b \in Nat /\ b < End
      /\ block \in Nat /\ block < End /\ iterator \in Int /\ next \in Int /\ End \in Nat
      /\ first \in Int /\ xStart \in Int /\ xStart < block
  <2>1. \A b \in free : b \in Nat /\ b < End BY <1>2
  <2>2. block \in Nat /\ xStart < block BY <1>1 DEF xStart
  <2>3. block < End /\ iterator \in Int /\ next \in Int /\ first \in Int BY <1>1
  <2> QED BY <2>1, <2>2, <2>3, HeapAssumption DEF xStart
<1>8. \A a \in free \cup {xStart} :
        /\ m[a].next \in free \cup {End} /\ a < m[a].next
        /\ \A b \in free : a < b => m[a].next <= b
  BY <1>2 DEF Linked
<1> HIDE DEF next, first, before, behind, free2
<1>9. ASSUME NEW a \in free2 \cup {xStart}
      PROVE  /\ m2[a].next \in free2 \cup {End} /\ a < m2[a].next
             /\ \A b \in free2 : a < b => m2[a].next <= b
  <2>1. a \in Int /\ a \in Places BY <1>4, <1>1, <1>2
  <2>2. CASE a = first
    <3>1. CASE behind
      <4>1. next \in free BY <1>1, <3>1 DEF behind
      <4>2. m2[a].next = m[next].next BY <1>5, <2>2, <3>1
      <4>3. /\ m[next].next \in free \cup {End} /\ next < m[next].next
            /\ \A b \in free : next < b => m[next].next <= b
        BY <1>8, <4>1
      <4>4. m[next].next \in Int BY <4>3, <1>7
      <4>5. m[next].next # block /\ m[next].next # next BY <1>3, <1>7, <4>3, <4>4
      <4>6. a < m[next].next BY <1>3, <1>6, <1>7, <2>2, <4>3, <4>4
      <4>7. ASSUME NEW b \in free2, a < b PROVE m[next].next <= b
        <5>1. b \in free /\ b # next
          BY <1>4, <1>6, <1>7, <2>2, <3>1, <4>7
        <5>2. next <= b BY <1>1, <1>3, <1>6, <1>7, <2>2, <4>7, <5>1
        <5> QED BY <1>7, <4>3, <5>1, <5>2
      <4>8. m[next].next \in free2 \cup {End} BY <1>4, <4>3, <4>5
      <4> QED BY <4>2, <4>6, <4>7, <4>8
    <3>2. CASE ~behind
      <4>1. m2[a].next = next BY <1>5, <2>2, <3>2
      <4>2. a < next BY <1>3, <1>6, <1>7, <2>2
      <4>3. next \in free2 \cup {End} BY <1>1, <1>3, <1>4, <1>7, <3>2
      <4>4. ASSUME NEW b \in free2, a < b PROVE next <= b
        <5>1. b \in free BY <1>4, <1>6, <1>7, <2>2, <4>4
        <5> QED BY <1>1, <1>3, <1>6, <1>7, <2>2, <4>4, <5>1
      <4> QED BY <4>1, <4>2, <4>3, <4>4
    <3> QED BY <3>1, <3>2
  <2>3. CASE a # first /\ a = iterator
    <3>1. ~before /\ m2[a].next = block BY <1>5, <1>6, <2>3
    <3>2. block \in free2 BY <1>3, <1>4, <1>7, <3>1
    <3>3. ASSUME NEW b \in free2, a < b PROVE block <= b
      <4>1. b = block \/ b \in free BY <1>4
      <4>2. b \in free => next <= b BY <1>1, <1>7, <2>3, <3>3
      <4>3. CASE b = block BY <1>7, <4>3
      <4>4. CASE b \in free BY <1>3, <1>7, <4>2, <4>4
      <4> QED BY <4>1, <4>3, <4>4
    <3> QED BY <1>3, <2>3, <3>1, <3>2, <3>3
  <2>4. CASE a # first /\ a # iterator
    <3>1. m2[a].next = m[a].next BY <1>5, <2>1, <2>4
    <3>2. a # block BY <1>4, <1>6, <2>4, <1>7
    <3>3. a \in free \cup {xStart} BY <1>4, <3>2
    <3>4. /\ m[a].next \in free \cup {End} /\ a < m[a].next
          /\ \A b \in free : a < b => m[a].next <= b
      BY <1>8, <3>3
    <3>5. m[a].next \in Int BY <3>4, <1>7
    <3>6. a < iterator => m[a].next <= iterator
      BY <1>3, <1>7, <2>1, <3>4, <3>3 DEF xStart
    <3>7. iterator < a => next <= a
      BY <1>1, <1>3, <1>7, <3>3 DEF xStart
    <3>8. m[a].next # next BY <1>3, <1>7, <2>1, <2>4, <3>4, <3>5, <3>6, <3>7
    <3>9. m[a].next # block BY <1>2, <1>7, <3>4
    <3>10. m[a].next \in free2 \cup {End} BY <1>4, <3>4, <3>8, <3>9
    <3>11. ASSUME NEW b \in free2, a < b PROVE m[a].next <= b
      <4>1. CASE b \in free BY <3>4, <3>11, <4>1
      <4>2. CASE b = block
        <5>1. a < iterator BY <1>3, <1>7, <2>1, <2>4, <3>7, <3>11, <4>2
        <5> QED BY <1>3, <1>7, <3>5, <3>6, <4>2, <5>1
      <4> QED BY <1>4, <4>1, <4>2
    <3> QED BY <3>1, <3>4, <3>10, <3>11
  <2> QED BY <2>2, <2>3, <2>4
<1> QED BY <1>9 DEF Linked, free2

LEMMA InsertNoneTouch ==
  ASSUME NEW m, NEW free, NEW used, NEW block, Insertable(m, free, used, block),
         NEW iterator, Between(m, free, block, iterator),
         NEW m2, Inserted(m, m2, block, iterator)
  PROVE  NoneTouch(m2, Joined(m, free, block, iterator))
<1> DEFINE next == m[iterator].next
           first == First(m, block, iterator)
           before == Touches(m, iterator, block)
           behind == Touches(m, block, next) /\ next # End
           free2 == Joined(m, free, block, iterator)
<1> USE AddressesAreNumbers
<1>1. /\ next \in free \cup {End} /\ iterator \in Places /\ block \in Addresses
      /\ \A b \in free : b <= iterator \/ next <= b
      /\ EndOf(m, iterator) <= block /\ EndOf(m, block) <= next
      /\ before => iterator \in free
  BY Around
<1>2. /\ free \in SUBSET Addresses /\ block \notin free /\ NoneTouch(m, free) /\ m \in Memory
  BY DEF Insertable, Sound
<1>3. iterator \in free \cup {xStart} /\ iterator < block /\ block < next BY DEF Between
<1>4. \A b : b \in free2 <=>
        (b \in free \/ b = block) /\ ~(before /\ b = block) /\ ~(behind /\ b = next)
  BY DEF Joined, Absorbed
<1>5. /\ EndOf(m2, first) = IF behind THEN EndOf(m, next) ELSE EndOf(m, block)
      /\ \A a \in Places \ {first} : EndOf(m2, a) = EndOf(m, a)
  BY <1>1 DEF Inserted, NewEnd, EndOf
<1>6. first = IF before THEN iterator ELSE block BY DEF First
<1>7. /\ \A b \in free : b \in Nat /\ b < End /\ b \in Places
      /\ block \in Nat /\ block < End /\ iterator \in Int /\ next \in Int /\ End \in Nat
      /\ first \in Int
      /\ \A b \in free : EndOf(m, b) \in Int
      /\ EndOf(m, block) \in Int /\ EndOf(m, iterator) \in Int
      /\ iterator <= EndOf(m, iterator)
  BY <1>1, <1>2, <1>6, EndOfType, HeapAssumption
<1>8. \A a, b \in free : a < b => EndOf(m, a) < b BY <1>2 DEF NoneTouch
<1>9. before <=> EndOf(m, iterator) = block BY DEF Touches
<1>10. behind <=> EndOf(m, block) = next /\ next # End BY DEF Touches
<1> HIDE DEF next, first, before, behind, free2
<1>11. ASSUME NEW a \in free2, NEW b \in free2, a < b PROVE EndOf(m2, a) < b
  <2>1. a \in Int /\ a \in Places /\ b \in Int BY <1>4, <1>1, <1>7
  <2>2. CASE a = first
    <3>1. b \in free /\ next <= b /\ ~(behind /\ b = next)
      BY <1>1, <1>3, <1>4, <1>6, <1>7, <1>11, <2>2
    <3>2. next \in free BY <1>1, <1>7, <3>1
    <3>3. CASE behind
      <4>1. next < b BY <1>7, <3>1, <3>3
      <4> QED BY <1>5, <1>8, <2>2, <3>1, <3>2, <3>3, <4>1
    <3>4. CASE ~behind
      <4>1. EndOf(m, block) < next BY <1>1, <1>7, <1>10, <3>2, <3>4
      <4> QED BY <1>5, <1>7, <2>2, <3>1, <3>4, <4>1
    <3> QED BY <3>3, <3>4
  <2>3. CASE a # first
    <3>1. a \in free /\ EndOf(m2, a) = EndOf(m, a) BY <1>4, <1>5, <1>6, <2>1, <2>3
    <3>2. CASE b \in free BY <1>8, <1>11, <3>1, <3>2
    <3>3. CASE b = block
      <4>1. ~before BY <1>4, <3>3
      <4>2. a <= iterator BY <1>1, <1>3, <1>7, <1>11, <3>1, <3>3
      <4>3. CASE a = iterator BY <1>1, <1>7, <1>9, <3>1, <3>3, <4>1, <4>3
      <4>4. CASE a # iterator
        <5>1. iterator \in free BY <1>3, <1>7, <3>1, <4>2, <4>4 DEF xStart
        <5>2. EndOf(m, a) < iterator BY <1>7, <1>8, <3>1, <4>2, <4>4, <5>1
        <5> QED BY <1>3, <1>7, <3>1, <3>3, <5>2
      <4> QED BY <4>3, <4>4
    <3> QED BY <1>4, <3>2, <3>3
  <2> QED BY <2>2, <2>3
<1> QED BY <1>11 DEF NoneTouch, free2

LEMMA InsertBytes ==
  ASSUME NEW m, NEW free, NEW used, NEW block, Insertable(m, free, used, block),
         NEW iterator, Between(m, free, block, iterator),
         NEW m2, Inserted(m, m2, block, iterator)
  PROVE  BytesOf(m2, Joined(m, free, block, iterator)) = BytesOf(m, free) \cup Bytes(m, block)
<1> DEFINE next == m[iterator].next
           first == First(m, block, iterator)
           before == Touches(m, iterator, block)
           absorbed == Absorbed(m, block, iterator)
           behind == Touches(m, block, next) /\ next # End
           free2 == Joined(m, free, block, iterator)
<1>1. /\ next \in free \cup {End} /\ iterator \in Places /\ block \in Addresses
      /\ before => iterator \in free
  BY Around
<1>2. \A x : x \in Bytes(m2, first) <=>
        \/ x \in Bytes(m, block)
        \/ before /\ x \in Bytes(m, iterator)
        \/ next \in absorbed /\ x \in Bytes(m, next)
  BY InsertTiles
<1>3. free \in SUBSET Addresses /\ block \notin free BY DEF Insertable, Sound
<1>4. \A b : b \in absorbed <=> (before /\ b = block) \/ (behind /\ b = next)
  BY DEF Absorbed
<1>5. next # block /\ iterator # block /\ iterator # next
  <2>1. iterator < block /\ block < next BY DEF Between
  <2>2. iterator \in Int /\ block \in Int /\ next \in Int
    BY <1>1, <1>3, AddressesAreNumbers
  <2> QED BY <2>1, <2>2
<1>6. \A b : b \in free2 <=> (b \in free \/ b = block) /\ b \notin absorbed BY DEF Joined
<1>7. first \in free2 BY <1>1, <1>3, <1>4, <1>5, <1>6 DEF First
<1>8. \A b \in Places \ {first} : Bytes(m2, b) = Bytes(m, b)
  BY <1>1 DEF Inserted, EndOf, Bytes
<1>9. behind => next \in free BY <1>1
<1>10. first = IF before THEN iterator ELSE block BY DEF First
<1>11. \A b \in free \cup {block} : b \in Places BY <1>1, <1>3, AddressesAreNumbers
<1>12. \A x : x \in BytesOf(m2, free2) <=> \E b \in free2 : x \in Bytes(m2, b) BY DEF BytesOf
<1>13. \A x : x \in BytesOf(m, free) <=> \E b \in free : x \in Bytes(m, b) BY DEF BytesOf
<1>14. next \in absorbed <=> behind BY <1>4, <1>5
<1> HIDE DEF next, first, before, behind, free2, absorbed
<1>15. ASSUME NEW x \in BytesOf(m2, free2) PROVE x \in BytesOf(m, free) \cup Bytes(m, block)
  <2>1. PICK b \in free2 : x \in Bytes(m2, b) BY <1>12
  <2>2. CASE b = first BY <1>1, <1>2, <1>9, <1>13, <1>14, <2>1, <2>2
  <2>3. CASE b # first
    <3>1. b \in free \/ b = block BY <1>6
    <3>2. x \in Bytes(m, b) BY <1>8, <1>11, <2>1, <2>3, <3>1
    <3> QED BY <1>13, <3>1, <3>2
  <2> QED BY <2>2, <2>3
<1>16. ASSUME NEW x \in BytesOf(m, free) \cup Bytes(m, block) PROVE x \in BytesOf(m2, free2)
  <2>1. PICK b \in free \cup {block} : x \in Bytes(m, b) BY <1>13
  <2>2. CASE b \in absorbed \/ b = first
    <3>1. x \in Bytes(m2, first)
      BY <1>2, <1>4, <1>10, <1>14, <2>1, <2>2
    <3> QED BY <1>7, <1>12, <3>1
  <2>3. CASE b \notin absorbed /\ b # first
    <3>1. b \in free2 /\ x \in Bytes(m2, b) BY <1>6, <1>8, <1>11, <2>1, <2>3
    <3> QED BY <1>12, <3>1
  <2> QED BY <2>2, <2>3
<1> QED BY <1>15, <1>16 DEF free2

(* What prvInsertBlockIntoFreeList does for its callers.                   *)
Inserts(m, free, used, block, m2) ==
  /\ m2 \in Memory /\ Sound(m2, FreeBlocks(m2), used \ {block})
  /\ BytesOf(m2, FreeBlocks(m2)) = BytesOf(m, free) \cup Bytes(m, block)
  /\ \A a \in used \ {block} : m2[a] = m[a]
  /\ \A a \in Places : m2[a].canary = m[a].canary
  /\ FreeBlocks(m2) \subseteq free \cup {block}

LEMMA InsertKeeps ==
  ASSUME NEW m, NEW free, NEW used, NEW block, Insertable(m, free, used, block)
  PROVE  Inserts(m, free, used, block, Insert(m, block))
<1> DEFINE m2 == Insert(m, block)
<1>1. PICK iterator : Between(m, free, block, iterator) /\ Inserted(m, m2, block, iterator)
  BY InsertMakes
<1> HIDE DEF m2
<1> DEFINE free2 == Joined(m, free, block, iterator)
           absorbed == Absorbed(m, block, iterator)
           first == First(m, block, iterator)
<1> USE AddressesAreNumbers
<1>2. /\ free \subseteq Addresses /\ used \subseteq Addresses /\ block \in used
      /\ free \cap used = {} /\ m[xStart].size = 0 /\ m \in Memory
  BY DEF Insertable, Sound
<1>3. /\ iterator \in free \cup {xStart} /\ m[iterator].next \in free \cup {End}
      /\ iterator \in Places /\ first \in Addresses
  BY <1>1, Around DEF Between
<1>4. free2 \subseteq Addresses /\ free2 \subseteq free \cup {block} BY <1>2 DEF Joined
<1>5. /\ Linked(m2, free2) /\ NoneTouch(m2, free2)
      /\ BytesOf(m2, free2) = BytesOf(m, free) \cup Bytes(m, block)
      /\ Tiles(m2, (free \cup used) \ absorbed)
  BY <1>1, InsertLinks, InsertNoneTouch, InsertBytes, InsertTiles
<1>6. FreeBlocks(m2) = free2 BY <1>4, <1>5, FreeBlocksAre
<1>7. absorbed \cap (used \ {block}) = {} BY <1>2, <1>3 DEF Absorbed
<1>8. (free \cup used) \ absorbed = free2 \cup (used \ {block})
  BY <1>2, <1>7 DEF Joined
<1>9. free2 \cap (used \ {block}) = {} BY <1>2, <1>4
<1>10. \A a \in used \ {block} : m2[a] = m[a]
  <2>1. first = iterator \/ first = block BY DEF First
  <2>2. \A a \in used \ {block} : a \in Places \ {first, iterator} BY <1>2, <1>3, <2>1
  <2> QED BY <1>1, <2>2 DEF Inserted
<1>11. m2[xStart].size = 0
  <2>1. CASE iterator = xStart
    <3>1. EndOf(m2, xStart) = EndOf(m, xStart) BY <1>1, <1>3, <2>1 DEF Inserted
    <3>2. m2 \in Memory BY <1>1 DEF Inserted
    <3>3. m2[xStart].size \in Int BY <3>2, EndOfType
    <3> QED BY <1>2, <3>1, <3>3 DEF EndOf, xStart
  <2>2. CASE iterator # xStart
    <3>1. m2[xStart] = m[xStart] BY <1>1, <1>3, <2>2 DEF Inserted
    <3> QED BY <1>2, <3>1
  <2> QED BY <2>1, <2>2
<1>12. Sound(m2, free2, used \ {block})
  BY <1>4, <1>5, <1>8, <1>9, <1>11 DEF Sound
<1>13. /\ m2 \in Memory
       /\ \A a \in Places : m2[a].canary = m[a].canary
  BY <1>1 DEF Inserted
<1> HIDE DEF free2
<1> QED BY <1>4, <1>5, <1>6, <1>10, <1>12, <1>13 DEF m2, Inserts

(* What is not a link or a size of a free block may change.                *)
LEMMA SoundSame ==
  ASSUME NEW m, NEW m2, NEW free, NEW used, Sound(m, free, used),
         \A a \in free \cup {xStart} : m2[a].next = m[a].next /\ m2[a].size = m[a].size,
         \A a \in used : m2[a].size = m[a].size
  PROVE  /\ Sound(m2, free, used) /\ FreeBlocks(m2) = free
         /\ BytesOf(m2, free) = BytesOf(m, free)
<1>1. \A a \in free \cup used : EndOf(m2, a) = EndOf(m, a) BY DEF EndOf
<1>2. Tiles(m2, free \cup used) BY <1>1, TilesSame DEF Sound
<1>3. Linked(m2, free) BY DEF Sound, Linked
<1>4. NoneTouch(m2, free) BY <1>1 DEF Sound, NoneTouch
<1>5. Sound(m2, free, used) BY <1>2, <1>3, <1>4 DEF Sound
<1>6. FreeBlocks(m2) = free BY <1>3, FreeBlocksAre DEF Sound
<1>7. BytesOf(m2, free) = BytesOf(m, free) BY <1>1 DEF BytesOf, Bytes
<1> QED BY <1>5, <1>6, <1>7

(* A block leaves the list.                                                *)
LEMMA UnlinkKeeps ==
  ASSUME NEW m \in Memory, NEW free, NEW used \in SUBSET Addresses, Sound(m, free, used),
         NEW previous \in free \cup {xStart}, NEW block \in free, m[previous].next = block
  PROVE  LET m2 == [m EXCEPT ![previous].next = m[block].next]
         IN  /\ m2 \in Memory /\ Sound(m2, free \ {block}, used \cup {block})
             /\ \A a \in Places : m2[a].size = m[a].size /\ m2[a].canary = m[a].canary
             /\ \A a \in Places \ {previous} : m2[a] = m[a]
<1> DEFINE m2 == [m EXCEPT ![previous].next = m[block].next]
           free2 == free \ {block}
<1> USE AddressesAreNumbers
<1>1. free \subseteq Addresses /\ previous \in Places /\ block \in Places BY DEF Sound
<1>2. m2 \in Memory BY <1>1 DEF Memory
<1>3. /\ m2[previous].next = m[block].next
      /\ \A a \in Places \ {previous} : m2[a] = m[a]
      /\ \A a \in Places : m2[a].size = m[a].size /\ m2[a].canary = m[a].canary
  BY <1>1 DEF Memory
<1> HIDE DEF m2
<1>4. \A a \in free \cup {xStart} :
        /\ m[a].next \in free \cup {End} /\ a < m[a].next
        /\ \A b \in free : a < b => m[a].next <= b
  BY DEF Sound, Linked
<1>5. \A a \in free \cup {xStart} : a \in Int /\ m[a].next \in Int /\ a \in Places
  BY <1>1, <1>4, HeapAssumption
<1>6. ASSUME NEW a \in free2 \cup {xStart}
      PROVE  /\ m2[a].next \in free2 \cup {End} /\ a < m2[a].next
             /\ \A b \in free2 : a < b => m2[a].next <= b
  <2>1. CASE a = previous
    <3>1. m2[a].next = m[block].next BY <1>3, <2>1
    <3>2. previous < block /\ block < m[block].next BY <1>4
    <3>3. m[block].next \in free2 \cup {End} BY <1>4, <1>5, <3>2
    <3>4. ASSUME NEW b \in free2, a < b PROVE m[block].next <= b
      <4>1. block <= b BY <1>4, <2>1, <3>4
      <4>2. block < b BY <1>5, <4>1
      <4> QED BY <1>4, <4>2
    <3> QED BY <1>5, <2>1, <3>1, <3>2, <3>3, <3>4
  <2>2. CASE a # previous
    <3>1. m2[a].next = m[a].next BY <1>3, <1>5, <2>2
    <3>2. m[a].next # block
      <4>1. a < previous => m[a].next <= previous
        <5>1. previous # xStart \/ ~(a < previous) BY <1>1, <1>5 DEF xStart
        <5> QED BY <1>4, <5>1
      <4>2. previous < a => block <= a
        <5>1. a # xStart \/ ~(previous < a) BY <1>1, <1>5 DEF xStart
        <5> QED BY <1>4, <5>1
      <4>3. previous < block /\ a < m[a].next BY <1>4
      <4> QED BY <1>5, <2>2, <4>1, <4>2, <4>3
    <3> QED BY <1>4, <3>1, <3>2
  <2> QED BY <2>1, <2>2
<1>7. Linked(m2, free2) BY <1>6 DEF Linked
<1>8. \A a \in free \cup used : EndOf(m2, a) = EndOf(m, a)
  BY <1>1, <1>3 DEF EndOf
<1>9. NoneTouch(m2, free2) BY <1>8 DEF Sound, NoneTouch
<1>10. Tiles(m2, free2 \cup (used \cup {block}))
  <2>1. free2 \cup (used \cup {block}) = free \cup used OBVIOUS
  <2>2. Tiles(m2, free \cup used) BY <1>8, TilesSame DEF Sound
  <2> QED BY <2>1, <2>2
<1>11. m2[xStart].size = 0 BY <1>3 DEF Sound
<1>12. free2 \cap (used \cup {block}) = {} BY DEF Sound
<1>13. Sound(m2, free2, used \cup {block})
  BY <1>1, <1>7, <1>9, <1>10, <1>11, <1>12 DEF Sound
<1> QED BY <1>2, <1>3, <1>13 DEF m2

(* A block is cut in two.                                                  *)
Splits(m, free, used, block, size, rest, m2) ==
  /\ rest \in Addresses /\ rest \notin free \cup used
  /\ m2 \in Memory /\ Sound(m2, free, used \cup {rest})
  /\ BytesOf(m2, free) = BytesOf(m, free)
  /\ m2[block].size = size
  /\ Bytes(m, block) = Bytes(m2, block) \cup Bytes(m2, rest)
  /\ \A a \in Places \ {block, rest} : m2[a] = m[a]
  /\ \A a \in Places : m2[a].canary = m[a].canary

LEMMA SplitKeeps ==
  ASSUME NEW m \in Memory, NEW free, NEW used \in SUBSET Addresses, Sound(m, free, used),
         NEW block \in used, NEW size \in Nat \ {0}, size % ALIGNMENT = 0,
         size < m[block].size
  PROVE  Splits(m, free, used, block, size, block + size, Split(m, block, size))
<1> DEFINE rest == block + size
           m2 == Split(m, block, size)
           blocks == free \cup used
           end == EndOf(m, block)
<1> USE AddressesAreNumbers
<1>1. /\ free \subseteq Addresses /\ free \cap used = {} /\ block \in Places
      /\ block \in Addresses
  BY DEF Sound
<1>2. /\ \A b \in blocks : b < EndOf(m, b) /\ EndOf(m, b) <= End
      /\ \A a, b \in blocks : a < b => EndOf(m, a) <= b
      /\ \A x \in 0 .. End - 1 : \E b \in blocks : x \in Bytes(m, b)
  BY InBytes DEF Sound, Tiles
<1>3. /\ block \in Nat /\ m[block].size \in Nat /\ end = block + m[block].size
      /\ end \in Int /\ end <= End
  BY <1>1, <1>2, EndOfType
<1>4. rest \in Nat /\ block < rest /\ rest < end BY <1>3
<1>5. rest \in Addresses
  <2>1. block % 8 = 0 BY <1>1
  <2>2. rest % 8 = 0 BY <1>3, <2>1 DEF ALIGNMENT
  <2>3. rest < End BY <1>3, <1>4, HeapAssumption
  <2> QED BY <1>4, <2>2, <2>3, HeapAssumption DEF Addresses, ALIGNMENT
<1>6. rest \notin blocks
  <2>1. SUFFICES ASSUME rest \in blocks PROVE FALSE OBVIOUS
  <2>2. end <= rest BY <1>2, <1>4, <2>1
  <2> QED BY <1>3, <1>4, <2>2
<1>7. size \in 0 .. End /\ m[block].size - size \in 0 .. End
  BY <1>3, HeapAssumption
<1>8. rest \in Places /\ rest # block /\ rest # xStart BY <1>4, <1>5, <1>3 DEF xStart
<1> HIDE DEF rest
<1>9. m2 \in Memory BY <1>1, <1>7, <1>8 DEF Memory, Split, rest
<1>10. /\ m2[block].size = size /\ m2[rest].size = m[block].size - size
       /\ \A a \in Places \ {block, rest} : m2[a] = m[a]
       /\ \A a \in Places : m2[a].canary = m[a].canary
  BY <1>1, <1>8 DEF Memory, Split, rest
<1> HIDE DEF m2
<1>11. EndOf(m2, block) = rest /\ EndOf(m2, rest) = end
  BY <1>3, <1>10 DEF EndOf, rest
<1>12. \A a \in blocks \ {block} : EndOf(m2, a) = EndOf(m, a) /\ a \in Int /\ EndOf(m, a) \in Int
  <2> TAKE a \in blocks \ {block}
  <2>1. a \in Places \ {block, rest} BY <1>1, <1>6
  <2> QED BY <1>10, <2>1, EndOfType DEF EndOf
<1> HIDE DEF end
<1>13. Tiles(m2, blocks \cup {rest})
  <2>1. ASSUME NEW b \in blocks \cup {rest} PROVE b < EndOf(m2, b) /\ EndOf(m2, b) <= End
    <3>1. CASE b = rest BY <1>3, <1>4, <1>11, <3>1
    <3>2. CASE b = block BY <1>3, <1>4, <1>11, <3>2, HeapAssumption
    <3>3. CASE b # rest /\ b # block BY <1>2, <1>12, <3>3
    <3> QED BY <3>1, <3>2, <3>3
  <2>2. ASSUME NEW a \in blocks \cup {rest}, NEW b \in blocks \cup {rest}, a < b
        PROVE  EndOf(m2, a) <= b
    <3>1. CASE a = rest
      <4>1. b \in blocks /\ block < b BY <1>3, <1>4, <1>12, <2>2, <3>1
      <4>2. EndOf(m, block) <= b BY <1>2, <4>1
      <4> QED BY <1>11, <3>1, <4>2 DEF end
    <3>2. CASE a = block
      <4>1. CASE b = rest BY <1>4, <1>11, <3>2, <4>1
      <4>2. CASE b # rest
        <5>1. EndOf(m, block) <= b BY <1>2, <2>2, <3>2, <4>2
        <5> QED BY <1>3, <1>4, <1>11, <1>12, <3>2, <4>2, <5>1 DEF end
      <4> QED BY <4>1, <4>2
    <3>3. CASE a # rest /\ a # block
      <4>1. EndOf(m2, a) = EndOf(m, a) /\ a \in Int /\ EndOf(m, a) \in Int BY <1>12, <3>3
      <4>2. CASE b = rest
        <5>1. block < a => end <= a BY <1>2, <3>3 DEF end
        <5>2. a < block BY <1>3, <1>4, <2>2, <3>3, <4>1, <4>2, <5>1
        <5>3. EndOf(m, a) <= block BY <1>2, <3>3, <5>2
        <5> QED BY <1>3, <1>4, <4>1, <4>2, <5>3
      <4>3. CASE b # rest BY <1>2, <2>2, <3>3, <4>1, <4>3
      <4> QED BY <4>2, <4>3
    <3> QED BY <3>1, <3>2, <3>3
  <2>3. ASSUME NEW x \in 0 .. End - 1 PROVE x \in BytesOf(m2, blocks \cup {rest})
    <3>1. PICK b \in blocks : x \in Bytes(m, b) BY <1>2
    <3>2. \E c \in blocks \cup {rest} : x \in Bytes(m2, c)
      <4>1. CASE b # block
        <5>1. Bytes(m2, b) = Bytes(m, b) BY <1>12, <4>1 DEF Bytes
        <5> QED BY <3>1, <5>1
      <4>2. CASE b = block
        <5>1. x \in block .. end - 1 BY <3>1, <4>2 DEF Bytes, end
        <5>2. x \in block .. rest - 1 \/ x \in rest .. end - 1 BY <1>3, <1>4, <5>1
        <5> QED BY <1>11, <5>2 DEF Bytes
      <4> QED BY <4>1, <4>2
    <3> QED BY <3>2, InBytes
  <2> QED BY <2>1, <2>2, <2>3 DEF Tiles
<1>14. \A a \in free \cup {xStart} : m2[a].next = m[a].next /\ m2[a].size = m[a].size
  <2> TAKE a \in free \cup {xStart}
  <2>1. a \in Places \ {block, rest} BY <1>1, <1>6, <1>8
  <2> QED BY <1>10, <2>1
<1>15. Linked(m2, free) BY <1>14 DEF Sound, Linked
<1>16. NoneTouch(m2, free) BY <1>14 DEF Sound, NoneTouch, EndOf
<1>17. m2[xStart].size = 0 BY <1>14 DEF Sound
<1>18. free \cup (used \cup {rest}) = blocks \cup {rest} OBVIOUS
<1>19. free \cap (used \cup {rest}) = {} BY <1>1, <1>6
<1>20. Sound(m2, free, used \cup {rest})
  BY <1>1, <1>13, <1>15, <1>16, <1>17, <1>18, <1>19 DEF Sound
<1>21. BytesOf(m2, free) = BytesOf(m, free) BY <1>14 DEF BytesOf, Bytes, EndOf
<1>22. Bytes(m, block) = Bytes(m2, block) \cup Bytes(m2, rest)
  <2>1. Bytes(m, block) = block .. end - 1 BY DEF Bytes, end
  <2>2. Bytes(m2, block) = block .. rest - 1 /\ Bytes(m2, rest) = rest .. end - 1
    BY <1>11 DEF Bytes
  <2>3. \A x : x \in block .. end - 1 <=> x \in block .. rest - 1 \/ x \in rest .. end - 1
    BY <1>3, <1>4
  <2> QED BY <2>1, <2>2, <2>3
<1> QED BY <1>5, <1>6, <1>9, <1>10, <1>20, <1>21, <1>22 DEF m2, rest, Splits

(* No byte is in a free block and in one that is in use.                   *)
LEMMA UsedIsNotFree ==
  ASSUME NEW m \in Memory, NEW free, NEW used \in SUBSET Addresses, Sound(m, free, used),
         NEW a \in used, NEW b \in free \cup used, a # b
  PROVE  Bytes(m, a) \cap Bytes(m, b) = {}
<1>1. /\ a \in Int /\ b \in Int /\ EndOf(m, a) \in Int /\ EndOf(m, b) \in Int
  BY EndOfType, AddressesAreNumbers DEF Sound
<1>2. EndOf(m, a) <= b \/ EndOf(m, b) <= a BY <1>1 DEF Sound, Tiles
<1> QED BY <1>1, <1>2 DEF Bytes

(* What pvPortMalloc does once it has found a block.                       *)
Takes(m, free, used, block, size, m2) ==
  /\ m2 \in Memory /\ Sound(m2, FreeBlocks(m2), used \cup {block})
  /\ BytesOf(m, free) = BytesOf(m2, FreeBlocks(m2)) \cup Bytes(m2, block)
  /\ size <= m2[block].size /\ m2[block].size <= size + heapMINIMUM_BLOCK_SIZE
  /\ m2[block].owned /\ m2[block].next = NULL
  /\ \A a \in used : m2[a] = m[a]
  /\ \A a \in Places : m2[a].canary = m[a].canary

LEMMA TakeKeeps ==
  ASSUME NEW m \in Memory, NEW free, NEW used \in SUBSET Addresses, Sound(m, free, used),
         NEW previous \in free \cup {xStart}, NEW block \in free, m[previous].next = block,
         NEW size \in Nat \ {0}, size % ALIGNMENT = 0, size <= m[block].size
  PROVE  Takes(m, free, used, block, size, Take(m, previous, block, size))
<1> DEFINE unlinked == [m EXCEPT ![previous].next = m[block].next]
           rest == block + size
           split == Split(unlinked, block, size)
           cut == m[block].size - size > heapMINIMUM_BLOCK_SIZE
           left == IF cut THEN Insert(split, rest) ELSE unlinked
           m2 == Take(m, previous, block, size)
           used2 == used \cup {block}
<1> USE AddressesAreNumbers
<1>1. m2 = [left EXCEPT ![block].owned = TRUE, ![block].next = NULL]
  BY DEF Take
<1> HIDE DEF m2
<1>2. /\ unlinked \in Memory /\ Sound(unlinked, free \ {block}, used2)
      /\ \A a \in Places : unlinked[a].size = m[a].size /\ unlinked[a].canary = m[a].canary
      /\ \A a \in Places \ {previous} : unlinked[a] = m[a]
  BY UnlinkKeeps
<1>3. /\ free \subseteq Addresses /\ block \in Addresses /\ used2 \in SUBSET Addresses
      /\ free \cap used = {} /\ previous \in Places /\ block \in Places
      /\ previous \notin used
  BY DEF Sound
<1>4. previous # block
  <2>1. previous < m[previous].next BY DEF Sound, Linked
  <2> QED BY <1>3, <2>1
<1>5. unlinked[block] = m[block] /\ \A a \in used : unlinked[a] = m[a]
  BY <1>2, <1>3, <1>4
<1>7. BytesOf(m, free) = BytesOf(unlinked, free \ {block}) \cup Bytes(unlinked, block)
  <2>1. \A a \in free : Bytes(unlinked, a) = Bytes(m, a)
    BY <1>2, <1>3 DEF Bytes, EndOf
  <2> HIDE DEF unlinked
  <2> QED BY <2>1 DEF BytesOf
<1> HIDE DEF unlinked
<1>8. m[block].size \in Nat BY <1>3 DEF Memory
<1>9. /\ left \in Memory /\ Sound(left, FreeBlocks(left), used2)
      /\ BytesOf(m, free) = BytesOf(left, FreeBlocks(left)) \cup Bytes(left, block)
      /\ size <= left[block].size /\ left[block].size <= size + heapMINIMUM_BLOCK_SIZE
      /\ \A a \in used : left[a] = m[a]
      /\ \A a \in Places : left[a].canary = m[a].canary
  <2>1. CASE ~cut
    <3>1. left = unlinked BY <2>1
    <3>2. FreeBlocks(unlinked) = free \ {block} BY <1>2, FreeBlocksAre DEF Sound
    <3>3. unlinked[block].size <= size + heapMINIMUM_BLOCK_SIZE
      BY <1>5, <1>8, <2>1 DEF heapMINIMUM_BLOCK_SIZE, HeapStructSize
    <3> HIDE DEF left, cut
    <3> QED BY <1>2, <1>5, <1>7, <3>1, <3>2, <3>3
  <2>2. CASE cut
    <3>1. size < unlinked[block].size
      BY <1>5, <1>8, <2>2 DEF heapMINIMUM_BLOCK_SIZE, HeapStructSize
    <3> HIDE DEF cut
    <3> DEFINE free2 == free \ {block}
    <3>2. Splits(unlinked, free2, used2, block, size, rest, split)
      <4>1. block \in used2 OBVIOUS
      <4>2. used2 \in SUBSET Addresses /\ Sound(unlinked, free2, used2) BY <1>2, <1>3
      <4> HIDE DEF used2, free2
      <4> QED BY <1>2, <3>1, <4>1, <4>2, SplitKeeps
    <3> HIDE DEF split, rest
    <3>3. /\ rest \in Addresses /\ rest \notin free2 \cup used2
          /\ split \in Memory /\ Sound(split, free2, used2 \cup {rest})
          /\ BytesOf(split, free2) = BytesOf(unlinked, free2)
          /\ split[block].size = size
          /\ Bytes(unlinked, block) = Bytes(split, block) \cup Bytes(split, rest)
          /\ \A a \in Places \ {block, rest} : split[a] = unlinked[a]
          /\ \A a \in Places : split[a].canary = unlinked[a].canary
      <4> HIDE DEF free2, used2
      <4> QED BY <3>2 DEF Splits
    <3>4. Insertable(split, free2, used2 \cup {rest}, rest)
      BY <1>3, <3>3 DEF Insertable
    <3> DEFINE whole == Insert(split, rest)
    <3>5. Inserts(split, free2, used2 \cup {rest}, rest, whole)
      <4> HIDE DEF free2, used2
      <4> QED BY <3>4, InsertKeeps
    <3> HIDE DEF whole
    <3>6. (used2 \cup {rest}) \ {rest} = used2 BY <3>3
    <3>7. /\ whole \in Memory /\ Sound(whole, FreeBlocks(whole), used2)
          /\ BytesOf(whole, FreeBlocks(whole)) = BytesOf(split, free2) \cup Bytes(split, rest)
          /\ \A a \in used2 : whole[a] = split[a]
          /\ \A a \in Places : whole[a].canary = split[a].canary
      <4> HIDE DEF free2, used2
      <4> QED BY <3>5, <3>6 DEF Inserts
    <3>8. whole[block] = split[block] BY <3>7
    <3>9. Bytes(whole, block) = Bytes(split, block) BY <3>8 DEF Bytes, EndOf
    <3>10. \A a \in used : whole[a] = m[a]
      <4> TAKE a \in used
      <4>1. a \in Places \ {block, rest} /\ a \in used2 BY <1>3, <3>3
      <4> QED BY <1>5, <3>3, <3>7, <4>1
    <3>11. \A a \in Places : whole[a].canary = m[a].canary BY <1>2, <3>3, <3>7
    <3>12. left = whole BY <2>2 DEF whole
    <3>13. BytesOf(m, free) = BytesOf(whole, FreeBlocks(whole)) \cup Bytes(whole, block)
      BY <1>7, <3>3, <3>7, <3>9
    <3>14. size <= whole[block].size /\ whole[block].size <= size + heapMINIMUM_BLOCK_SIZE
      BY <3>3, <3>8 DEF heapMINIMUM_BLOCK_SIZE, HeapStructSize
    <3> HIDE DEF left, free2
    <3> QED BY <3>7, <3>10, <3>11, <3>12, <3>13, <3>14
  <2> QED BY <2>1, <2>2
<1> HIDE DEF left
<1>10. /\ m2 \in Memory /\ m2[block].owned /\ m2[block].next = NULL
       /\ m2[block].size = left[block].size
       /\ \A a \in Places \ {block} : m2[a] = left[a]
       /\ \A a \in Places : m2[a].canary = left[a].canary /\ m2[a].size = left[a].size
  <2>1. left \in Memory /\ block \in Places BY <1>3, <1>9
  <2>2. m2 \in Memory
    <3> DEFINE T == [next: Places \cup {NULL, Wild}, size: 0 .. End,
                     owned: BOOLEAN, canary: BOOLEAN]
    <3>1. left[block] \in T BY <2>1 DEF Memory
    <3> DEFINE h == left[block]
    <3> HIDE DEF h
    <3>2. [[h EXCEPT !.owned = TRUE] EXCEPT !.next = NULL] \in T BY <3>1 DEF h
    <3> HIDE DEF T
    <3>3. left \in [Places -> T] BY <2>1 DEF Memory, T
    <3>4. m2 = [left EXCEPT ![block] = [[h EXCEPT !.owned = TRUE] EXCEPT !.next = NULL]]
      BY <1>1, <3>3, <2>1 DEF h
    <3> QED BY <2>1, <3>2, <3>3, <3>4 DEF Memory, T
  <2>3. m2[block] = [left[block] EXCEPT !.owned = TRUE, !.next = NULL]
    BY <1>1, <2>1 DEF Memory
  <2>4. \A a \in Places \ {block} : m2[a] = left[a] BY <1>1, <2>1 DEF Memory
  <2>5. /\ m2[block].owned = TRUE /\ m2[block].next = NULL
        /\ m2[block].size = left[block].size /\ m2[block].canary = left[block].canary
    BY <2>1, <2>3 DEF Memory
  <2> QED BY <2>2, <2>4, <2>5
<1>11. block \notin FreeBlocks(left) /\ FreeBlocks(left) \subseteq Addresses
  BY <1>9 DEF Sound
<1>12. \A a \in FreeBlocks(left) \cup {xStart} : m2[a].next = left[a].next /\ m2[a].size = left[a].size
  <2>1. xStart # block BY <1>3
  <2> QED BY <1>10, <1>11, <2>1
<1>13. \A a \in used2 : m2[a].size = left[a].size BY <1>3, <1>10
<1>14. /\ Sound(m2, FreeBlocks(left), used2) /\ FreeBlocks(m2) = FreeBlocks(left)
       /\ BytesOf(m2, FreeBlocks(left)) = BytesOf(left, FreeBlocks(left))
  BY <1>9, <1>12, <1>13, SoundSame
<1>15. Bytes(m2, block) = Bytes(left, block) BY <1>10 DEF Bytes, EndOf
<1>16. \A a \in used : m2[a] = m[a]
  <2> TAKE a \in used
  <2>1. a \in Places \ {block} BY <1>3
  <2> QED BY <1>9, <1>10, <2>1
<1> QED BY <1>9, <1>10, <1>14, <1>15, <1>16 DEF m2, Takes

(* What vPortUpdateFreeBlockList does for its callers.                     *)
Marks(m, used, m2) ==
  /\ m2 \in Memory /\ Sound(m2, FreeBlocks(m2), used)
  /\ FreeBlocks(m2) = FreeBlocks(m)
  /\ BytesOf(m2, FreeBlocks(m2)) = BytesOf(m, FreeBlocks(m))
  /\ \A a \in used : m2[a] = m[a]
  /\ \A a \in FreeBlocks(m2) \cup {xStart} : m2[a].canary

LEMMA MarksFree ==
  ASSUME NEW m \in Memory, NEW used \in SUBSET Addresses, Sound(m, FreeBlocks(m), used)
  PROVE  Marks(m, used, UpdateFreeBlockList(m))
<1> DEFINE m2 == UpdateFreeBlockList(m)
           free == FreeBlocks(m)
<1>1. /\ free \subseteq Places /\ xStart \in Places /\ DOMAIN m = Places
      /\ xStart \notin used /\ used \subseteq Places /\ free \cap used = {}
  BY AddressesAreNumbers DEF Sound, Memory
<1>2. m2 = [a \in Places |->
              IF a \in free \cup {xStart} THEN [m[a] EXCEPT !.canary = TRUE] ELSE m[a]]
  BY <1>1 DEF UpdateFreeBlockList
<1> HIDE DEF m2, free
<1>3. m2 \in Memory BY <1>2 DEF Memory
<1>4. \A a \in free \cup {xStart} :
        m2[a].canary /\ m2[a].next = m[a].next /\ m2[a].size = m[a].size
  BY <1>1, <1>2 DEF Memory
<1>5. \A a \in used : m2[a] = m[a] BY <1>1, <1>2
<1>6. /\ Sound(m2, free, used) /\ FreeBlocks(m2) = free
      /\ BytesOf(m2, free) = BytesOf(m, free)
  BY <1>4, <1>5, SoundSame DEF free
<1> QED BY <1>3, <1>4, <1>5, <1>6 DEF m2, free, Marks

(* The bytes of the free blocks and of one in use are counted together.    *)
LEMMA Counts ==
  ASSUME NEW m \in Memory, NEW free, NEW used \in SUBSET Addresses, Sound(m, free, used)
  PROVE  /\ BytesOf(m, free) \subseteq 0 .. End - 1
         /\ IsFiniteSet(BytesOf(m, free)) /\ Cardinality(BytesOf(m, free)) \in 0 .. End
         /\ \A block \in used :
              Cardinality(BytesOf(m, free) \cup Bytes(m, block))
                = Cardinality(BytesOf(m, free)) + m[block].size
<1> DEFINE bytes == BytesOf(m, free)
<1>1. bytes \subseteq 0 .. End - 1
  <2>1. \A b \in free : b \in Nat /\ EndOf(m, b) \in Int /\ EndOf(m, b) <= End
    BY AddressesAreNumbers, EndOfType DEF Sound, Tiles
  <2>2. \A b \in free : Bytes(m, b) \subseteq 0 .. End - 1
    BY <2>1, HeapAssumption DEF Bytes
  <2> QED BY <2>2 DEF BytesOf
<1>2. IsFiniteSet(0 .. End - 1) /\ Cardinality(0 .. End - 1) = End
  <2>1. 0 \in Int /\ End - 1 \in Int /\ ~(0 > End - 1)
    BY HeapAssumption DEF HeapStructSize
  <2>2. (End - 1) - 0 + 1 = End BY HeapAssumption
  <2> QED BY <2>1, <2>2, FS_Interval
<1> HIDE DEF bytes
<1>3. IsFiniteSet(bytes) /\ Cardinality(bytes) \in Nat /\ Cardinality(bytes) <= End
  BY <1>1, <1>2, FS_Subset, FS_CardinalityType
<1>4. ASSUME NEW block \in used
      PROVE  Cardinality(bytes \cup Bytes(m, block)) = Cardinality(bytes) + m[block].size
  <2>1. /\ block \in Int /\ EndOf(m, block) = block + m[block].size
        /\ m[block].size \in Nat /\ EndOf(m, block) \in Int
    BY AddressesAreNumbers, EndOfType
  <2>2. block < EndOf(m, block) BY DEF Sound, Tiles
  <2>3. bytes \cap Bytes(m, block) = {}
    <3>1. \A b \in free : b # block BY DEF Sound
    <3>2. \A b \in free : Bytes(m, block) \cap Bytes(m, b) = {} BY <3>1, UsedIsNotFree
    <3> QED BY <3>2 DEF BytesOf, bytes
  <2>4. IsFiniteSet(Bytes(m, block)) /\ Cardinality(Bytes(m, block)) = m[block].size
    <3>1. ~(block > EndOf(m, block) - 1) /\ EndOf(m, block) - 1 \in Int BY <2>1, <2>2
    <3>2. (EndOf(m, block) - 1) - block + 1 = m[block].size BY <2>1
    <3> QED BY <2>1, <3>1, <3>2, FS_Interval DEF Bytes
  <2>5. Cardinality(bytes \cap Bytes(m, block)) = 0 BY <2>3, FS_EmptySet
  <2>6. Cardinality(bytes \cup Bytes(m, block))
          = Cardinality(bytes) + Cardinality(Bytes(m, block)) - 0
    BY <1>3, <2>4, <2>5, FS_Union
  <2> QED BY <1>3, <2>1, <2>4, <2>6
<1>5. Cardinality(bytes) \in 0 .. End BY <1>3, HeapAssumption
<1> QED BY <1>1, <1>3, <1>4, <1>5 DEF bytes

-----------------------------------------------------------------------------
(* The calls *)

LEMMA MinOfTwo ==
  ASSUME NEW a \in Int, NEW b \in Int
  PROVE  Min({a, b}) \in {a, b} /\ Min({a, b}) <= a /\ Min({a, b}) <= b
<1>1. \E x \in {a, b} : \A y \in {a, b} : x <= y
  <2>1. CASE a <= b BY <2>1
  <2>2. CASE b <= a BY <2>2
  <2> QED BY <2>1, <2>2
<1> QED BY <1>1 DEF Min

(* prvHeapInit                                                             *)
LEMMA InitInvariant == ASSUME Init PROVE HeapInv
<1> USE AddressesAreNumbers, HeapAssumption
<1>1. End \in Nat /\ End >= 16 BY DEF HeapStructSize
<1>2. DOMAIN mem = Places /\ 0 \in Addresses /\ 0 \in Places
  BY <1>1 DEF Init, Places, Addresses, ALIGNMENT
<1>3. xStart # 0 /\ xStart # End /\ End # 0 BY <1>1 DEF xStart
<1>4. Addresses \cup {xStart, End} = Places BY DEF Places
<1>5. \A a \in Places :
        mem[a] = CASE a = xStart -> Header(0, 0, FALSE)
                   [] a = End    -> Header(NULL, 0, FALSE)
                   [] a = 0      -> Header(End, End, FALSE)
                   [] OTHER      -> NoHeader
  BY <1>4, Zenon DEF Init
<1>6. /\ mem[xStart] = Header(0, 0, FALSE) /\ mem[End] = Header(NULL, 0, FALSE)
      /\ mem[0] = Header(End, End, FALSE)
      /\ \A a \in Places \ {xStart, End, 0} : mem[a] = NoHeader
  <2> HIDE DEF xStart
  <2>1. xStart \in Places /\ End \in Places OBVIOUS
  <2>2. mem[xStart] = Header(0, 0, FALSE) BY <1>3, <1>5, <2>1, Zenon
  <2>3. mem[End] = Header(NULL, 0, FALSE) BY <1>3, <1>5, <2>1, Zenon
  <2>4. mem[0] = Header(End, End, FALSE) BY <1>2, <1>3, <1>5, Zenon
  <2>5. \A a \in Places \ {xStart, End, 0} : mem[a] = NoHeader BY <1>5, Zenon
  <2> QED BY <2>2, <2>3, <2>4, <2>5
<1>7. mem \in Memory
  <2>1. mem = [a \in Places |-> mem[a]]
    <3> DEFINE first(a) == CASE a = xStart -> Header(0, 0, FALSE)
                             [] a = End    -> Header(NULL, 0, FALSE)
                             [] a = 0      -> Header(End, End, FALSE)
                             [] OTHER      -> NoHeader
    <3>1. mem = [a \in Places |-> first(a)] BY <1>4, Zenon DEF Init
    <3> HIDE DEF first
    <3> QED BY <3>1
  <2>2. \A a \in Places :
          mem[a] \in [next: Places \cup {NULL, Wild}, size: 0 .. End,
                     owned: BOOLEAN, canary: BOOLEAN]
    <3> TAKE a \in Places
    <3>1. 0 \in 0 .. End /\ End \in 0 .. End BY <1>1
    <3>2. PICK next \in Places \cup {NULL, Wild}, size \in 0 .. End :
            mem[a] = Header(next, size, FALSE)
      BY <1>2, <1>6, <3>1 DEF NoHeader
    <3>3. Header(next, size, FALSE) \in [next: Places \cup {NULL, Wild}, size: 0 .. End,
                                        owned: BOOLEAN, canary: BOOLEAN]
      BY DEF Header
    <3> QED BY <3>2, <3>3
  <2> QED BY <2>1, <2>2 DEF Memory
<1>8. /\ mem[xStart].next = 0 /\ mem[xStart].size = 0
      /\ mem[0].next = End /\ mem[0].size = End
  BY <1>6 DEF Header
<1> DEFINE free == {0}
<1>9. EndOf(mem, 0) = End BY <1>1, <1>8 DEF EndOf
<1>10. Bytes(mem, 0) = 0 .. End - 1 BY <1>9 DEF Bytes
<1>11. BytesOf(mem, free) = 0 .. End - 1 BY <1>10 DEF BytesOf
<1>12. Linked(mem, free) BY <1>1, <1>8 DEF Linked, xStart
<1>13. Tiles(mem, free) BY <1>1, <1>9, <1>11 DEF Tiles
<1>14. NoneTouch(mem, free) BY DEF NoneTouch
<1>15. held = {} /\ free \cup held = free BY DEF Init
<1>16. FreeBlocks(mem) = free BY <1>2, <1>12, FreeBlocksAre
<1>17. Sound(mem, FreeBlocks(mem), held)
  BY <1>2, <1>8, <1>12, <1>13, <1>14, <1>15, <1>16 DEF Sound
<1>18. Cardinality(0 .. End - 1) = End
  <2>1. ~(0 > End - 1) /\ (End - 1) - 0 + 1 = End BY <1>1
  <2> QED BY <1>1, <2>1, FS_Interval
<1>19. xFreeBytesRemaining = End /\ xMinimumEverFreeBytesRemaining = End
  BY DEF Init
<1>20. allocList \in [0 .. Slots - 1 -> Addresses \cup {NULL}] BY DEF Init
<1> QED BY <1>1, <1>7, <1>11, <1>15, <1>16, <1>17, <1>18, <1>19, <1>20
     DEF HeapInv, TypeOK

\* A call that takes size bytes.
Taken(size, block) ==
  /\ mem' \in Memory /\ Sound(mem', FreeBlocks(mem'), held \cup {block})
  /\ block \in FreeBlocks(mem)
  /\ BytesOf(mem, FreeBlocks(mem)) = BytesOf(mem', FreeBlocks(mem')) \cup Bytes(mem', block)
  /\ size <= mem'[block].size /\ mem'[block].size <= size + heapMINIMUM_BLOCK_SIZE
  /\ mem'[block].owned /\ mem'[block].next = NULL /\ mem'[block].canary
  /\ \A a \in held : mem'[a] = mem[a]
  /\ \A a \in FreeBlocks(mem') \cup {xStart} : mem'[a].canary
  /\ held' = held \cup {block}
  /\ allocList' = AddToList(allocList, block)
  /\ xFreeBytesRemaining' = xFreeBytesRemaining - mem'[block].size
  /\ xMinimumEverFreeBytesRemaining' =
       Min({xMinimumEverFreeBytesRemaining, xFreeBytesRemaining'})
  /\ last' = <<size, block>>

LEMMA BlockSizeIs ==
  ASSUME NEW n \in Nat PROVE BlockSize(n) \in Nat \ {0} /\ BlockSize(n) % ALIGNMENT = 0
BY DEF BlockSize, RoundUp, ALIGNMENT, HeapStructSize, TAIL_CANARY_SIZE

LEMMA MallocTakes ==
  ASSUME HeapInv, NEW n \in Wanted, MallocSucceeds(n)
  PROVE  \E block : Taken(BlockSize(n), block)
<1> USE AddressesAreNumbers
<1> DEFINE list == FreeList(mem)
           free == FreeBlocks(mem)
           size == BlockSize(n)
           i == Min(Candidates(size))
           block == list[i]
           taken == Take(mem, list[i - 1], block, size)
           marked == [taken EXCEPT ![block].canary = TRUE]
           left == xFreeBytesRemaining - taken[block].size
<1>1. /\ ~Refused(n)
      /\ mem' = UpdateFreeBlockList(marked)
      /\ allocList' = AddToList(allocList, block)
      /\ held' = held \cup {block}
      /\ xFreeBytesRemaining' = left
      /\ xMinimumEverFreeBytesRemaining' = Min({xMinimumEverFreeBytesRemaining, left})
      /\ last' = <<size, block>>
  BY DEF MallocSucceeds, Charge
<1>2. /\ mem \in Memory /\ held \in SUBSET Addresses /\ Sound(mem, free, held)
      /\ free \in SUBSET Addresses /\ Linked(mem, free)
  BY DEF HeapInv, TypeOK, Sound
<1>3. /\ list \in Seq(Places) /\ Len(list) \in Nat /\ Len(list) >= 2
      /\ list[1] = xStart /\ list[Len(list)] = End
      /\ \A k \in 1 .. Len(list) - 1 :
           list[k] \in free \cup {xStart} /\ list[k + 1] = mem[list[k]].next
  BY <1>2, FreeListShape
<1>4. size \in Nat \ {0} /\ size % ALIGNMENT = 0 BY BlockSizeIs, HeapAssumption
<1>5. Candidates(size) # {} /\ Candidates(size) = {k \in 2 .. Len(list) - 1 : mem[list[k]].size >= size}
  BY <1>1 DEF Refused, Candidates, Fits
<1> HIDE DEF size, list
<1>6. i \in Candidates(size)
  <2>1. Candidates(size) \subseteq Nat BY <1>3, <1>5
  <2> QED BY <1>5, <2>1, MinIsLeast
<1> HIDE DEF i
<1>7. /\ i \in 2 .. Len(list) - 1 /\ i - 1 \in 1 .. Len(list) - 1 /\ (i - 1) + 1 = i
      /\ i \in 1 .. Len(list) - 1 /\ mem[block].size >= size
  <2>1. i \in 2 .. Len(list) - 1 /\ mem[list[i]].size >= size BY <1>5, <1>6
  <2>2. Len(list) \in Int BY <1>3
  <2> QED BY <2>1, <2>2
<1>8. block # xStart
  <2>1. 1 \in 1 .. Len(list) /\ i \in 1 .. Len(list) /\ 1 < i BY <1>3, <1>7
  <2>2. list[1] < list[i] BY <1>2, <2>1, FreeListIncreases DEF list
  <2> QED BY <1>3, <2>2
<1>9. block \in free /\ list[i - 1] \in free \cup {xStart} /\ mem[list[i - 1]].next = block
  BY <1>3, <1>7, <1>8
<1>10. size <= mem[block].size BY <1>2, <1>4, <1>7, <1>9 DEF Memory
<1> HIDE DEF block
<1>11. Takes(mem, free, held, block, size, taken)
  <2> HIDE DEF free
  <2> QED BY <1>2, <1>4, <1>9, <1>10, TakeKeeps
<1> HIDE DEF taken
<1> DEFINE used == held \cup {block}
<1>12. /\ taken \in Memory /\ Sound(taken, FreeBlocks(taken), used)
       /\ BytesOf(mem, free) = BytesOf(taken, FreeBlocks(taken)) \cup Bytes(taken, block)
       /\ size <= taken[block].size /\ taken[block].size <= size + heapMINIMUM_BLOCK_SIZE
       /\ taken[block].owned /\ taken[block].next = NULL
       /\ \A a \in held : taken[a] = mem[a]
  BY <1>11 DEF Takes
<1>13. /\ block \in Places /\ used \in SUBSET Addresses /\ block \notin held
       /\ used \subseteq Places /\ block \in used
  BY <1>2, <1>9 DEF Sound
<1>14. /\ marked \in Memory /\ marked[block].canary
       /\ marked[block].next = taken[block].next /\ marked[block].size = taken[block].size
       /\ marked[block].owned = taken[block].owned
       /\ \A a \in Places \ {block} : marked[a] = taken[a]
  BY <1>12, <1>13 DEF Memory
<1> HIDE DEF marked
<1>15. /\ Sound(marked, FreeBlocks(taken), used) /\ FreeBlocks(marked) = FreeBlocks(taken)
       /\ BytesOf(marked, FreeBlocks(taken)) = BytesOf(taken, FreeBlocks(taken))
  <2>1. \A a \in FreeBlocks(taken) \cup {xStart} : a \in Places \ {block}
    BY <1>12, <1>13 DEF Sound
  <2>2. \A a \in used : marked[a].size = taken[a].size BY <1>13, <1>14
  <2> HIDE DEF used
  <2> QED BY <1>12, <1>14, <2>1, <2>2, SoundSame
<1>16. Marks(marked, used, mem') BY <1>1, <1>13, <1>14, <1>15, MarksFree
<1> HIDE DEF used
<1>17. /\ mem' \in Memory /\ Sound(mem', FreeBlocks(mem'), used)
       /\ FreeBlocks(mem') = FreeBlocks(marked)
       /\ BytesOf(mem', FreeBlocks(mem')) = BytesOf(marked, FreeBlocks(marked))
       /\ \A a \in used : mem'[a] = marked[a]
       /\ \A a \in FreeBlocks(mem') \cup {xStart} : mem'[a].canary
  BY <1>16 DEF Marks
<1>18. mem'[block] = marked[block] BY <1>13, <1>17
<1>19. Bytes(mem', block) = Bytes(taken, block) BY <1>14, <1>18 DEF Bytes, EndOf
<1>20. \A a \in held : mem'[a] = mem[a]
  <2> TAKE a \in held
  <2>1. a \in used /\ a \in Places \ {block} BY <1>13 DEF used
  <2> QED BY <1>12, <1>14, <1>17, <2>1
<1>21. mem'[block].owned
  <2>1. mem'[block].owned = taken[block].owned BY <1>14, <1>18
  <2> QED BY <1>12, <2>1
<1>22. /\ mem'[block].size = taken[block].size /\ mem'[block].next = NULL
       /\ mem'[block].canary
  BY <1>12, <1>14, <1>18
<1>23. BytesOf(mem, free) = BytesOf(mem', FreeBlocks(mem')) \cup Bytes(mem', block)
  BY <1>12, <1>15, <1>17, <1>19
<1>24. Taken(size, block)
  BY <1>1, <1>9, <1>12, <1>17, <1>20, <1>21, <1>22, <1>23 DEF Taken, used
<1> QED BY <1>24 DEF size

\* A call that gives block back.
Freed(block) ==
  /\ mem' \in Memory /\ Sound(mem', FreeBlocks(mem'), held \ {block})
  /\ BytesOf(mem', FreeBlocks(mem')) = BytesOf(mem, FreeBlocks(mem)) \cup Bytes(mem, block)
  /\ \A a \in held \ {block} : mem'[a] = mem[a]
  /\ \A a \in FreeBlocks(mem') \cup {xStart} : mem'[a].canary

LEMMA FreeFrees ==
  ASSUME HeapInv, NEW block \in held, vPortFree(block)
  PROVE  Freed(block)
<1> USE AddressesAreNumbers
<1> DEFINE free == FreeBlocks(mem)
           mine == [mem EXCEPT ![block].owned = FALSE]
           put == Insert(mine, block)
           rest == held \ {block}
<1>1. mem' = UpdateFreeBlockList(put) BY DEF vPortFree
<1>2. /\ mem \in Memory /\ held \in SUBSET Addresses /\ Sound(mem, free, held)
      /\ free \subseteq Places /\ free \subseteq Addresses
  BY DEF HeapInv, TypeOK, Sound
<1>3. block \in Places /\ held \subseteq Places /\ rest \in SUBSET Addresses BY <1>2
<1>4. /\ mine \in Memory
      /\ \A a \in Places : mine[a].next = mem[a].next /\ mine[a].size = mem[a].size
      /\ \A a \in Places \ {block} : mine[a] = mem[a]
  BY <1>2, <1>3 DEF Memory
<1> HIDE DEF mine
<1>5. /\ Sound(mine, free, held) /\ BytesOf(mine, free) = BytesOf(mem, free)
  <2>1. \A a \in free \cup {xStart} : mine[a].next = mem[a].next /\ mine[a].size = mem[a].size
    BY <1>2, <1>4
  <2>2. \A a \in held : mine[a].size = mem[a].size BY <1>3, <1>4
  <2> HIDE DEF free
  <2> QED BY <1>2, <2>1, <2>2, SoundSame
<1>6. Bytes(mine, block) = Bytes(mem, block) BY <1>3, <1>4 DEF Bytes, EndOf
<1>7. Insertable(mine, free, held, block) BY <1>2, <1>4, <1>5 DEF Insertable
<1>8. Inserts(mine, free, held, block, put) BY <1>7, InsertKeeps
<1> HIDE DEF put
<1>9. /\ put \in Memory /\ Sound(put, FreeBlocks(put), rest)
      /\ BytesOf(put, FreeBlocks(put)) = BytesOf(mine, free) \cup Bytes(mine, block)
      /\ \A a \in rest : put[a] = mine[a]
  BY <1>8 DEF Inserts
<1> HIDE DEF rest
<1>10. Marks(put, rest, mem') BY <1>1, <1>3, <1>9, MarksFree
<1>11. /\ mem' \in Memory /\ Sound(mem', FreeBlocks(mem'), rest)
       /\ FreeBlocks(mem') = FreeBlocks(put)
       /\ BytesOf(mem', FreeBlocks(mem')) = BytesOf(put, FreeBlocks(put))
       /\ \A a \in rest : mem'[a] = put[a]
       /\ \A a \in FreeBlocks(mem') \cup {xStart} : mem'[a].canary
  BY <1>10 DEF Marks
<1>12. \A a \in rest : mem'[a] = mem[a]
  <2> TAKE a \in rest
  <2>1. a \in Places \ {block} BY <1>3 DEF rest
  <2> QED BY <1>4, <1>9, <1>11, <2>1
<1>13. BytesOf(mem', FreeBlocks(mem')) = BytesOf(mem, free) \cup Bytes(mem, block)
  BY <1>5, <1>6, <1>9, <1>11
<1> QED BY <1>11, <1>12, <1>13 DEF Freed, rest

(* What a task writes in a block is behind its header.                     *)
LEMMA UseKeepsHeaders ==
  ASSUME HeapInv, NEW block \in held, Use(block)
  PROVE  /\ mem' \in Memory
         /\ \A a \in FreeBlocks(mem) \cup held \cup {xStart} : mem'[a] = mem[a]
<1> USE AddressesAreNumbers
<1> DEFINE free == FreeBlocks(mem)
           inside == {a \in Places : block + HeapStructSize <= a /\ a < EndOf(mem, block)}
<1>1. /\ mem \in Memory /\ held \in SUBSET Addresses /\ Sound(mem, free, held)
      /\ free \subseteq Places /\ DOMAIN mem = Places
  BY DEF HeapInv, TypeOK, Sound, Memory
<1>2. block \in Nat /\ block \in Places BY <1>1
<1>3. mem' = [a \in Places |-> IF a \in inside THEN NoHeader ELSE mem[a]]
  BY <1>1 DEF Use
<1>4. ASSUME NEW a \in free \cup held \cup {xStart} PROVE a \in Places \ inside
  <2>1. a \in Places BY <1>1
  <2>2. CASE a = xStart BY <1>2, <2>1, <2>2 DEF xStart, HeapStructSize
  <2>3. CASE a \in free \cup held
    <3>1. block < a => EndOf(mem, block) <= a BY <1>1, <2>3 DEF Sound, Tiles
    <3>2. EndOf(mem, block) \in Int BY <1>1, <1>2, EndOfType
    <3> QED BY <1>2, <2>1, <3>1, <3>2 DEF HeapStructSize
  <2> QED BY <2>2, <2>3
<1>5. mem' \in Memory
  <2>1. 0 \in 0 .. End BY HeapAssumption
  <2>2. NoHeader \in [next: Places \cup {NULL, Wild}, size: 0 .. End,
                      owned: BOOLEAN, canary: BOOLEAN]
    BY <2>1 DEF NoHeader, Header
  <2> HIDE DEF inside
  <2> QED BY <1>1, <1>3, <2>2 DEF Memory
<1> HIDE DEF inside
<1> QED BY <1>3, <1>4, <1>5

(* The calls keep what they find.                                          *)
LEMMA MallocKeeps ==
  ASSUME HeapInv, NEW size, NEW block, Taken(size, block)
  PROVE  HeapInv'
<1> USE AddressesAreNumbers
<1> DEFINE free == FreeBlocks(mem)
           free2 == FreeBlocks(mem')
           count == Cardinality(BytesOf(mem', free2))
<1>1. /\ mem' \in Memory /\ Sound(mem', free2, held')
      /\ BytesOf(mem, free) = BytesOf(mem', free2) \cup Bytes(mem', block)
      /\ \A a \in held : mem'[a] = mem[a]
      /\ \A a \in free2 \cup {xStart} : mem'[a].canary
      /\ held' = held \cup {block}
      /\ xFreeBytesRemaining' = xFreeBytesRemaining - mem'[block].size
      /\ xMinimumEverFreeBytesRemaining' =
           Min({xMinimumEverFreeBytesRemaining, xFreeBytesRemaining'})
      /\ allocList' = AddToList(allocList, block)
  BY DEF Taken
<1>2. mem'[block].owned /\ mem'[block].next = NULL /\ mem'[block].canary BY DEF Taken
<1>3. block \in Addresses /\ block \in held' /\ held' \in SUBSET Addresses
  BY <1>1 DEF HeapInv, TypeOK, Sound, Taken
<1>4. \A b \in held : mem[b].owned /\ mem[b].next = NULL /\ mem[b].canary
  BY DEF HeapInv
<1>5. \A b \in held' : mem'[b].owned /\ mem'[b].next = NULL /\ mem'[b].canary
  BY <1>1, <1>2, <1>4
<1>6. /\ Cardinality(BytesOf(mem, free)) = xFreeBytesRemaining
      /\ xFreeBytesRemaining \in 0 .. End
      /\ xMinimumEverFreeBytesRemaining \in 0 .. xFreeBytesRemaining
      /\ allocList \in [0 .. Slots - 1 -> Addresses \cup {NULL}]
  BY DEF HeapInv, TypeOK
<1> HIDE DEF free, free2
<1>7. /\ count \in 0 .. End
      /\ Cardinality(BytesOf(mem, free)) = count + mem'[block].size
  <2>1. count \in 0 .. End BY <1>1, <1>3, Counts
  <2>2. Cardinality(BytesOf(mem', free2) \cup Bytes(mem', block)) = count + mem'[block].size
    BY <1>1, <1>3, Counts
  <2> QED BY <1>1, <2>1, <2>2
<1> HIDE DEF count
<1>8. mem'[block].size \in Nat BY <1>1, <1>3 DEF Memory
<1>9. xFreeBytesRemaining' = count BY <1>1, <1>6, <1>7, <1>8
<1>10. xMinimumEverFreeBytesRemaining' \in 0 .. xFreeBytesRemaining'
  <2>1. xMinimumEverFreeBytesRemaining \in Int /\ xFreeBytesRemaining' \in Int
    BY <1>6, <1>7, <1>9, HeapAssumption
  <2>2. /\ xMinimumEverFreeBytesRemaining'
             \in {xMinimumEverFreeBytesRemaining, xFreeBytesRemaining'}
        /\ xMinimumEverFreeBytesRemaining' <= xFreeBytesRemaining'
    BY <1>1, <2>1, MinOfTwo
  <2> QED BY <1>6, <1>7, <1>9, <2>1, <2>2
<1>11. allocList' \in [0 .. Slots - 1 -> Addresses \cup {NULL}]
  <2> DEFINE empty == {i \in DOMAIN allocList : allocList[i] = NULL}
  <2>1. empty # {} => Min(empty) \in 0 .. Slots - 1
    <3>1. empty \subseteq 0 .. Slots - 1 BY <1>6
    <3>2. empty \subseteq Nat BY <3>1, HeapAssumption
    <3> QED BY <3>1, <3>2, MinIsLeast
  <2> HIDE DEF empty
  <2>2. allocList' = IF empty = {} THEN allocList ELSE [allocList EXCEPT ![Min(empty)] = block]
    BY <1>1 DEF AddToList, empty
  <2> QED BY <1>3, <1>6, <2>1, <2>2
<1>12. TypeOK' BY <1>1, <1>3, <1>7, <1>9, <1>10, <1>11 DEF TypeOK
<1> QED BY <1>1, <1>5, <1>9, <1>12 DEF HeapInv, free2, count

LEMMA FreeKeeps ==
  ASSUME HeapInv, NEW block \in held, vPortFree(block)
  PROVE  HeapInv'
<1> USE AddressesAreNumbers
<1> DEFINE free == FreeBlocks(mem)
           free2 == FreeBlocks(mem')
           count == Cardinality(BytesOf(mem', free2))
<1>1. /\ mem' \in Memory /\ Sound(mem', free2, held')
      /\ BytesOf(mem', free2) = BytesOf(mem, free) \cup Bytes(mem, block)
      /\ \A a \in held' : mem'[a] = mem[a]
      /\ \A a \in free2 \cup {xStart} : mem'[a].canary
  BY FreeFrees DEF Freed, vPortFree
<1>2. /\ held' = held \ {block}
      /\ xFreeBytesRemaining' = xFreeBytesRemaining + mem[block].size
      /\ xMinimumEverFreeBytesRemaining' = xMinimumEverFreeBytesRemaining
      /\ allocList' = RmFromList(allocList, block)
  BY DEF vPortFree
<1>3. held' \in SUBSET Addresses BY <1>2 DEF HeapInv, TypeOK
<1>4. \A b \in held : mem[b].owned /\ mem[b].next = NULL /\ mem[b].canary
  BY DEF HeapInv
<1>5. \A b \in held' : mem'[b].owned /\ mem'[b].next = NULL /\ mem'[b].canary
  BY <1>1, <1>2, <1>4
<1>6. /\ Cardinality(BytesOf(mem, free)) = xFreeBytesRemaining
      /\ xFreeBytesRemaining \in 0 .. End
      /\ xMinimumEverFreeBytesRemaining \in 0 .. xFreeBytesRemaining
      /\ allocList \in [0 .. Slots - 1 -> Addresses \cup {NULL}]
      /\ mem \in Memory /\ held \in SUBSET Addresses /\ Sound(mem, free, held)
  BY DEF HeapInv, TypeOK
<1> HIDE DEF free, free2
<1>7. Cardinality(BytesOf(mem, free) \cup Bytes(mem, block))
        = Cardinality(BytesOf(mem, free)) + mem[block].size
  BY <1>6, Counts
<1>8. count \in 0 .. End BY <1>1, <1>3, Counts
<1>9. count = xFreeBytesRemaining + mem[block].size BY <1>1, <1>6, <1>7
<1> HIDE DEF count
<1>10. mem[block].size \in Nat BY <1>6 DEF Memory
<1>11. xFreeBytesRemaining' \in 0 .. End /\ xMinimumEverFreeBytesRemaining' \in 0 .. xFreeBytesRemaining'
  BY <1>2, <1>6, <1>8, <1>9, <1>10
<1>12. allocList' \in [0 .. Slots - 1 -> Addresses \cup {NULL}]
  <2> DEFINE found == {i \in DOMAIN allocList : allocList[i] = block}
             pos == Min(found)
             moved == [i \in DOMAIN allocList |->
                         IF i < pos THEN allocList[i]
                         ELSE IF i < Slots - 1 THEN allocList[i + 1]
                         ELSE IF i = pos THEN NULL ELSE allocList[i]]
  <2>1. DOMAIN allocList = 0 .. Slots - 1 BY <1>6
  <2>2. ASSUME NEW i \in 0 .. Slots - 1, i < Slots - 1 PROVE i + 1 \in 0 .. Slots - 1
    BY <2>2, HeapAssumption
  <2>3. moved \in [0 .. Slots - 1 -> Addresses \cup {NULL}]
    <3> HIDE DEF pos
    <3> QED BY <1>6, <2>1, <2>2
  <2>4. allocList' = IF found = {} THEN allocList ELSE moved
    BY <1>2 DEF RmFromList
  <2> QED BY <1>6, <2>3, <2>4
<1>13. TypeOK' BY <1>1, <1>3, <1>11, <1>12 DEF TypeOK
<1> QED BY <1>1, <1>2, <1>5, <1>9, <1>13 DEF HeapInv, free2, count

LEMMA UseKeeps ==
  ASSUME HeapInv, NEW block \in held, Use(block)
  PROVE  HeapInv'
<1> DEFINE free == FreeBlocks(mem)
<1>1. /\ mem \in Memory /\ held \in SUBSET Addresses /\ Sound(mem, free, held)
      /\ Cardinality(BytesOf(mem, free)) = xFreeBytesRemaining
      /\ \A b \in held : mem[b].owned /\ mem[b].next = NULL /\ mem[b].canary
      /\ \A b \in free \cup {xStart} : mem[b].canary
  BY DEF HeapInv, TypeOK
<1>2. mem' \in Memory /\ \A a \in free \cup held \cup {xStart} : mem'[a] = mem[a]
  BY UseKeepsHeaders
<1> HIDE DEF free
<1>3. /\ Sound(mem', free, held) /\ FreeBlocks(mem') = free
      /\ BytesOf(mem', free) = BytesOf(mem, free)
  BY <1>1, <1>2, SoundSame
<1>4. /\ \A b \in held : mem'[b].owned /\ mem'[b].next = NULL /\ mem'[b].canary
      /\ \A b \in free \cup {xStart} : mem'[b].canary
  BY <1>1, <1>2
<1>5. UNCHANGED <<allocList, held, xFreeBytesRemaining, xMinimumEverFreeBytesRemaining>>
  BY DEF Use
<1> QED BY <1>1, <1>2, <1>3, <1>4, <1>5 DEF HeapInv, TypeOK

LEMMA FailKeeps ==
  ASSUME HeapInv, UNCHANGED <<mem, allocList, held, xFreeBytesRemaining,
                              xMinimumEverFreeBytesRemaining>>
  PROVE  HeapInv'
BY DEF HeapInv, TypeOK

LEMMA NextKeeps ==
  ASSUME HeapInv, [Next]_vars
  PROVE  HeapInv'
<1>1. CASE UNCHANGED vars BY <1>1, FailKeeps DEF vars
<1>2. ASSUME NEW n \in Wanted, MallocFails(n) PROVE HeapInv'
  BY <1>2, FailKeeps DEF MallocFails
<1>3. ASSUME NEW n \in Wanted, MallocSucceeds(n) PROVE HeapInv'
  BY <1>3, MallocTakes, MallocKeeps
<1>4. ASSUME NEW block \in held, vPortFree(block) PROVE HeapInv' BY <1>4, FreeKeeps
<1>5. ASSUME NEW block \in held, Use(block) PROVE HeapInv' BY <1>5, UseKeeps
<1> QED BY <1>1, <1>2, <1>3, <1>4, <1>5 DEF Next, pvPortMalloc

(* Between calls, whatever the sizes asked for and the order of the calls, *)
(* the list of the free blocks is in the order of their addresses and      *)
(* merged, the blocks in use are not in it, and the two tile the heap.     *)
THEOREM HeapInvariant == Spec => []HeapInv
BY InitInvariant, NextKeeps, PTL DEF Spec

(* HeapTiled, of the list itself.                                          *)
LEMMA InvTiles == ASSUME HeapInv PROVE HeapTiled
<1> USE AddressesAreNumbers
<1> DEFINE list == FreeList(mem)
           free == FreeBlocks(mem)
<1>1. /\ free \in SUBSET Addresses /\ Linked(mem, free) /\ NoneTouch(mem, free)
      /\ Tiles(mem, free \cup held) /\ free \cap held = {}
      /\ Cardinality(BytesOf(mem, free)) = xFreeBytesRemaining
  BY DEF HeapInv, Sound
<1>2. /\ list \in Seq(Places) /\ Len(list) \in Nat /\ Len(list) >= 2
      /\ list[1] = xStart /\ list[Len(list)] = End
      /\ \A i \in 1 .. Len(list) - 1 :
           list[i] \in free \cup {xStart} /\ list[i + 1] = mem[list[i]].next
  BY <1>1, FreeListShape
<1>3. ASSUME NEW i \in 2 .. Len(list) - 2 PROVE EndOf(mem, list[i]) < list[i + 1]
  <2>1. /\ 1 \in 1 .. Len(list) /\ i \in 1 .. Len(list) /\ i + 1 \in 1 .. Len(list)
        /\ 1 < i /\ 1 < i + 1 /\ i < i + 1
        /\ i \in 1 .. Len(list) - 1 /\ i + 1 \in 1 .. Len(list) - 1
    <3> HIDE DEF list, free
    <3>1. Len(list) \in Nat /\ i \in 2 .. Len(list) - 2 BY <1>2, <1>3
    <3> QED BY ONLY <3>1
  <2>2. list[1] < list[i] /\ list[1] < list[i + 1] /\ list[i] < list[i + 1]
    BY <1>1, <2>1, FreeListIncreases
  <2> HIDE DEF list, free
  <2>3. list[i] \in free \cup {xStart} /\ list[i + 1] \in free \cup {xStart}
    BY <1>2, <2>1
  <2>4. list[i] \in free /\ list[i + 1] \in free
    <3>1. xStart < list[i] /\ xStart < list[i + 1] /\ xStart \in Int
      BY <1>2, <2>2 DEF xStart
    <3>2. list[i] # xStart /\ list[i + 1] # xStart BY <3>1
    <3> QED BY <2>3, <3>2
  <2> QED BY <1>1, <2>2, <2>4 DEF NoneTouch
<1> QED BY <1>1, <1>2, <1>3 DEF HeapTiled

(* From the list's first block to pxEnd, no block overlaps another or      *)
(* touches a free one, and what MEM_INFO reports is what is free.          *)
THEOREM HeapTiledAlways == Spec => []HeapTiled
BY HeapInvariant, InvTiles, PTL

-----------------------------------------------------------------------------
(* The table *)

\* What the table holds while it has room: the blocks in use, before the first NULL.
Table ==
  LET n == Cardinality(held)
  IN  /\ \A i \in 0 .. Slots - 1 : allocList[i] # NULL <=> i < n
      /\ {allocList[i] : i \in 0 .. n - 1} = held
      /\ \A i, j \in 0 .. n - 1 : allocList[i] = allocList[j] => i = j

\* A slot is left, for the block taken next.
Room == Cardinality(held) < Slots

LEMMA HeldFinite ==
  ASSUME HeapInv
  PROVE  IsFiniteSet(held) /\ Cardinality(held) \in Nat
<1>1. held \subseteq 0 .. End BY AddressesAreNumbers DEF HeapInv, TypeOK
<1>2. IsFiniteSet(0 .. End) BY HeapAssumption, FS_Interval
<1>3. IsFiniteSet(held) BY <1>1, <1>2, FS_Subset
<1> QED BY <1>3, FS_CardinalityType

LEMMA AddKeepsTable ==
  ASSUME HeapInv, Table, NEW block \in Addresses, block \notin held, Room',
         held' = held \cup {block}, allocList' = AddToList(allocList, block)
  PROVE  Table'
<1> DEFINE n == Cardinality(held)
           empty == {i \in DOMAIN allocList : allocList[i] = NULL}
<1>1. IsFiniteSet(held) /\ n \in Nat BY HeldFinite
<1>2. Cardinality(held') = n + 1 BY <1>1, FS_AddElement
<1>3. n + 1 < Slots BY <1>2 DEF Room
<1>4. allocList \in [0 .. Slots - 1 -> Addresses \cup {NULL}] BY DEF HeapInv, TypeOK
<1>5. /\ \A i \in 0 .. Slots - 1 : allocList[i] # NULL <=> i < n
      /\ \A b \in held : \E i \in 0 .. n - 1 : allocList[i] = b
      /\ \A i \in 0 .. n - 1 : allocList[i] \in held
      /\ \A i, j \in 0 .. n - 1 : allocList[i] = allocList[j] => i = j
  BY DEF Table
<1> HIDE DEF n
<1>6. empty = n .. Slots - 1 BY <1>1, <1>3, <1>4, <1>5
<1>7. Min(empty) = n
  <2>1. empty \subseteq Nat /\ n \in empty BY <1>1, <1>3, <1>6, HeapAssumption
  <2> HIDE DEF empty
  <2>2. Min(empty) \in empty /\ Min(empty) <= n BY <2>1, MinIsLeast
  <2> QED BY <1>1, <1>6, <2>2, HeapAssumption
<1>8. allocList' = [allocList EXCEPT ![n] = block]
  <2>1. empty # {} BY <1>1, <1>3, <1>6, HeapAssumption
  <2> QED BY <1>7, <2>1 DEF AddToList
<1> HIDE DEF empty
<1>9. /\ allocList'[n] = block /\ \A i \in 0 .. Slots - 1 : i # n => allocList'[i] = allocList[i]
  BY <1>1, <1>3, <1>4, <1>8, HeapAssumption
<1>10. block # NULL BY AddressesAreNumbers
<1>11. \A i \in 0 .. n : i \in 0 .. Slots - 1 /\ (i = n \/ i \in 0 .. n - 1)
  BY <1>1, <1>3, HeapAssumption
<1>12. (n + 1) - 1 = n BY <1>1
<1>13. \A i \in 0 .. Slots - 1 : allocList'[i] # NULL <=> i < n + 1
  BY <1>1, <1>5, <1>9, <1>10, HeapAssumption
<1>14. {allocList'[i] : i \in 0 .. n} = held'
  <2>1. ASSUME NEW i \in 0 .. n PROVE allocList'[i] \in held'
    BY <1>5, <1>9, <1>11
  <2>2. ASSUME NEW b \in held' PROVE \E i \in 0 .. n : allocList'[i] = b
    <3>1. CASE b = block BY <1>1, <1>9, <3>1
    <3>2. CASE b # block
      <4>1. PICK i \in 0 .. n - 1 : allocList[i] = b BY <1>5, <3>2
      <4>2. i \in 0 .. n /\ i # n BY <1>1
      <4> QED BY <1>9, <1>11, <4>1, <4>2
    <3> QED BY <3>1, <3>2
  <2> QED BY <2>1, <2>2
<1>15. ASSUME NEW i \in 0 .. n, NEW j \in 0 .. n, allocList'[i] = allocList'[j] PROVE i = j
  BY <1>5, <1>9, <1>11, <1>15
<1> QED BY <1>2, <1>12, <1>13, <1>14, <1>15 DEF Table

LEMMA RemoveKeepsTable ==
  ASSUME HeapInv, Table, Room, NEW block \in held,
         held' = held \ {block}, allocList' = RmFromList(allocList, block)
  PROVE  Table'
<1> DEFINE n == Cardinality(held)
           found == {i \in DOMAIN allocList : allocList[i] = block}
           pos == Min(found)
           moved == [i \in 0 .. Slots - 1 |->
                       IF i < pos THEN allocList[i]
                       ELSE IF i < Slots - 1 THEN allocList[i + 1]
                       ELSE IF i = pos THEN NULL ELSE allocList[i]]
<1>1. IsFiniteSet(held) /\ n \in Nat BY HeldFinite
<1>2. Cardinality(held') = n - 1 BY <1>1, FS_RemoveElement
<1>3. n < Slots BY DEF Room
<1>4. /\ allocList \in [0 .. Slots - 1 -> Addresses \cup {NULL}]
      /\ block # NULL
  BY AddressesAreNumbers DEF HeapInv, TypeOK
<1>5. /\ \A i \in 0 .. Slots - 1 : allocList[i] # NULL <=> i < n
      /\ \A b \in held : \E i \in 0 .. n - 1 : allocList[i] = b
      /\ \A i \in 0 .. n - 1 : allocList[i] \in held
      /\ \A i, j \in 0 .. n - 1 : allocList[i] = allocList[j] => i = j
  BY DEF Table
<1> HIDE DEF n
<1>6. PICK k \in 0 .. n - 1 : allocList[k] = block BY <1>5
<1>7. found = {k} /\ k \in 0 .. Slots - 1
  <2>1. k \in 0 .. Slots - 1 BY <1>1, <1>3, HeapAssumption
  <2>2. ASSUME NEW i \in 0 .. Slots - 1, allocList[i] = block PROVE i = k
    <3>1. i < n BY <1>4, <1>5, <2>2
    <3>2. i \in 0 .. n - 1 BY <1>1, <3>1, HeapAssumption
    <3> QED BY <1>5, <1>6, <2>2, <3>2
  <2> QED BY <1>4, <1>6, <2>1, <2>2
<1>8. pos = k
  <2>1. found \subseteq Nat /\ found # {} BY <1>7, HeapAssumption
  <2> HIDE DEF found
  <2>2. Min(found) \in found BY <2>1, MinIsLeast
  <2> QED BY <1>7, <2>2
<1>9. allocList' = moved
  <2>1. found # {} /\ DOMAIN allocList = 0 .. Slots - 1 BY <1>4, <1>7
  <2> QED BY <2>1 DEF RmFromList
<1> HIDE DEF found, pos
<1>10. \A i \in 0 .. Slots - 1 :
         allocList'[i] = IF i < k THEN allocList[i]
                         ELSE IF i < Slots - 1 THEN allocList[i + 1] ELSE allocList[i]
  <2> TAKE i \in 0 .. Slots - 1
  <2>1. k < Slots - 1 BY <1>1, <1>3, HeapAssumption
  <2> QED BY <1>8, <1>9, <2>1
<1> HIDE DEF moved
<1> DEFINE from(i) == IF i < k THEN i ELSE i + 1
<1>11. \A i \in 0 .. n - 2 :
         /\ i \in 0 .. Slots - 1 /\ from(i) \in 0 .. n - 1 /\ from(i) # k
         /\ allocList'[i] = allocList[from(i)]
  BY <1>1, <1>3, <1>10, HeapAssumption
<1>12. \A j \in 0 .. n - 1 : j # k => \E i \in 0 .. n - 2 : from(i) = j
  <2> TAKE j \in 0 .. n - 1
  <2>1. CASE j < k
    <3>1. j \in 0 .. n - 2 /\ from(j) = j BY <1>1, <2>1
    <3> QED BY <3>1
  <2>2. CASE j > k
    <3>1. j - 1 \in 0 .. n - 2 /\ from(j - 1) = j BY <1>1, <2>2
    <3> QED BY <3>1
  <2> QED BY <1>1, <2>1, <2>2
<1>13. \A i, j \in 0 .. n - 2 : from(i) = from(j) => i = j BY <1>1
<1>14. (n - 1) - 1 = n - 2 BY <1>1
<1>15. ASSUME NEW i \in 0 .. Slots - 1 PROVE allocList'[i] # NULL <=> i < n - 1
  <2>1. CASE i < k BY <1>1, <1>3, <1>5, <1>10, <2>1, HeapAssumption
  <2>2. CASE ~(i < k) /\ i < Slots - 1
    <3>1. allocList'[i] = allocList[i + 1] /\ i + 1 \in 0 .. Slots - 1
      BY <1>10, <2>2, HeapAssumption
    <3>2. allocList[i + 1] # NULL <=> i + 1 < n BY <1>5, <3>1
    <3> QED BY <1>1, <3>1, <3>2
  <2>3. CASE ~(i < k) /\ ~(i < Slots - 1)
    <3>1. allocList'[i] = allocList[i] /\ ~(i < n) BY <1>1, <1>3, <1>10, <2>3, HeapAssumption
    <3> QED BY <1>1, <1>5, <3>1
  <2> QED BY <2>1, <2>2, <2>3
<1> HIDE DEF from
<1>16. {allocList'[i] : i \in 0 .. n - 2} = held'
  <2>1. ASSUME NEW i \in 0 .. n - 2 PROVE allocList'[i] \in held'
    BY <1>5, <1>6, <1>11
  <2>2. ASSUME NEW b \in held' PROVE \E i \in 0 .. n - 2 : allocList'[i] = b
    <3>1. PICK j \in 0 .. n - 1 : allocList[j] = b BY <1>5
    <3>2. j # k BY <1>6, <3>1
    <3> QED BY <1>11, <1>12, <3>1, <3>2
  <2> QED BY <2>1, <2>2
<1>17. \A i, j \in 0 .. n - 2 : allocList'[i] = allocList'[j] => i = j
  BY <1>5, <1>11, <1>13
<1> QED BY <1>2, <1>14, <1>15, <1>16, <1>17 DEF Table

LEMMA TableInit == ASSUME Init PROVE Table
<1>1. /\ held = {} /\ Cardinality(held) = 0 /\ \A i \in 0 .. Slots - 1 : allocList[i] = NULL
  BY FS_EmptySet DEF Init
<1>2. 0 .. 0 - 1 = {} OBVIOUS
<1> QED BY <1>1, <1>2 DEF Table

LEMMA TableNext ==
  ASSUME HeapInv, Table, Room, Room', [Next]_vars
  PROVE  Table'
<1>1. CASE UNCHANGED <<allocList, held>> BY <1>1 DEF Table
<1>2. ASSUME NEW n \in Wanted, MallocSucceeds(n) PROVE Table'
  <2>1. PICK block : Taken(BlockSize(n), block) BY <1>2, MallocTakes
  <2>2. block \in Addresses /\ block \notin held BY <2>1 DEF Taken, HeapInv, Sound
  <2> QED BY <2>1, <2>2, AddKeepsTable DEF Taken
<1>3. ASSUME NEW block \in held, vPortFree(block) PROVE Table'
  BY <1>3, RemoveKeepsTable DEF vPortFree
<1> QED BY <1>1, <1>2, <1>3 DEF Next, pvPortMalloc, MallocFails, Use, vars

LEMMA TableIsTracked ==
  ASSUME HeapInv, Table, Room
  PROVE  TableTracks
<1> DEFINE n == Cardinality(held)
<1>1. n \in Nat /\ n < Slots BY HeldFinite DEF Room
<1>2. /\ \A i \in 0 .. Slots - 1 : allocList[i] # NULL <=> i < n
      /\ {allocList[i] : i \in 0 .. n - 1} = held
      /\ \A i, j \in 0 .. n - 1 : allocList[i] = allocList[j] => i = j
  BY DEF Table
<1> HIDE DEF n
<1>3. InTable = 0 .. n - 1
  <2>1. ASSUME NEW i \in InTable PROVE i \in 0 .. n - 1
    <3>1. i \in 0 .. Slots - 1 /\ i \in 0 .. i BY HeapAssumption DEF InTable
    <3>2. allocList[i] # NULL BY <3>1 DEF InTable
    <3> QED BY <1>1, <1>2, <3>1, <3>2, HeapAssumption
  <2>2. ASSUME NEW i \in 0 .. n - 1 PROVE i \in InTable
    <3>1. \A j \in 0 .. i : j \in 0 .. Slots - 1 /\ j < n BY <1>1, HeapAssumption
    <3>2. i \in 0 .. Slots - 1 BY <1>1, HeapAssumption
    <3> QED BY <1>2, <3>1, <3>2 DEF InTable
  <2> QED BY <2>1, <2>2
<1> QED BY <1>2, <1>3 DEF TableTracks

(* As long as the tasks hold fewer blocks than allocList has slots, what   *)
(* vPortAddToList and vPortRmFromList leave is every block in use, once,   *)
(* before the first empty slot.                                            *)
THEOREM TableFollows == Spec /\ []Room => []TableTracks
<1>1. Init => Table BY TableInit
<1>2. HeapInv /\ Table /\ Room /\ Room' /\ [Next]_vars => Table' BY TableNext
<1>3. HeapInv /\ Table /\ Room => TableTracks BY TableIsTracked
<1> QED BY <1>1, <1>2, <1>3, HeapInvariant, PTL DEF Spec

(* The assertions of vPortFree and of vPortCheckIntegrity hold as long as  *)
(* the tasks hold fewer blocks than allocList has slots: every header that *)
(* is read has its canary.                                                 *)
THEOREM IntegrityKept == Spec /\ []Room => []IntegrityHolds
<1>1. ASSUME HeapInv, TableTracks PROVE IntegrityHolds
  <2>1. SUFFICES ASSUME held # {}
        PROVE /\ \A b \in held : mem[b].owned /\ mem[b].next = NULL
              /\ mem[xStart].canary
              /\ \A b \in FreeBlocks(mem) : mem[b].canary
              /\ allocList[0] # NULL
              /\ \A i \in InTable : mem[allocList[i]].canary
    BY DEF IntegrityHolds
  <2>2. /\ \A b \in held : mem[b].owned /\ mem[b].next = NULL /\ mem[b].canary
        /\ \A b \in FreeBlocks(mem) \cup {xStart} : mem[b].canary
    BY <1>1, <2>1 DEF HeapInv
  <2>3. \A i \in InTable : allocList[i] \in held BY <1>1 DEF TableTracks
  <2>4. PICK i \in InTable : allocList[i] \in held BY <1>1, <2>1 DEF TableTracks
  <2>5. allocList[0] # NULL
    <3>1. 0 \in 0 .. i BY <2>4, HeapAssumption DEF InTable
    <3> QED BY <2>4, <3>1 DEF InTable
  <2> QED BY <2>2, <2>3, <2>5
<1> QED BY <1>1, HeapInvariant, TableFollows, PTL

-----------------------------------------------------------------------------
(* The promise *)

\* The blocks in use as Allocator sees them.
Given == {[at |-> b, len |-> mem[b].size] : b \in held}

LEMMA GivenIsFree ==
  ASSUME HeapInv, NEW at \in Int, NEW len \in Int
  PROVE  Promise!Free(at, len)
           <=> /\ at >= 0 /\ at + len <= End
               /\ \A b \in held : Bytes(mem, b) \cap (at .. at + len - 1) = {}
<1> DEFINE apart(from, size) == (from .. from + size - 1) \cap (at .. at + len - 1) = {}
<1>1. Promise!Free(at, len)
        <=> at >= 0 /\ at + len <= End /\ \A g \in Given : apart(g.at, g.len)
  BY DEF Promise!Free, Promise!Range, Given
<1>2. ASSUME NEW b \in held
      PROVE  Bytes(mem, b) \cap (at .. at + len - 1) = {} <=> apart(b, mem[b].size)
  <2>1. b \in Int /\ mem[b].size \in Int
    BY AddressesAreNumbers, EndOfType DEF HeapInv, TypeOK
  <2>2. EndOf(mem, b) - 1 = b + mem[b].size - 1 BY <2>1 DEF EndOf
  <2> QED BY <2>2 DEF Bytes
<1> HIDE DEF apart
<1>3. ASSUME NEW b \in held
      PROVE  \E g \in Given : g.at = b /\ g.len = mem[b].size
  <2>1. [at |-> b, len |-> mem[b].size] \in Given BY DEF Given
  <2> QED BY <2>1
<1>4. ASSUME NEW g \in Given
      PROVE  \E b \in held : g.at = b /\ g.len = mem[b].size
  BY DEF Given
<1>5. (\A g \in Given : apart(g.at, g.len)) <=> \A b \in held : apart(b, mem[b].size)
  BY <1>3, <1>4, Zenon
<1> QED BY <1>1, <1>2, <1>5

(* Bytes that are in no block in use are in one free block, for no two     *)
(* free blocks touch.                                                      *)
LEMMA GapInOneBlock ==
  ASSUME HeapInv, NEW at \in Nat, NEW len \in Nat \ {0}, at + len <= End,
         \A b \in held : Bytes(mem, b) \cap (at .. at + len - 1) = {}
  PROVE  /\ at .. at + len - 1 \subseteq BytesOf(mem, FreeBlocks(mem))
         /\ \E b \in FreeBlocks(mem) : len <= mem[b].size
<1> DEFINE free == FreeBlocks(mem)
           gap == at .. at + len - 1
<1>1. /\ mem \in Memory /\ free \subseteq Addresses /\ held \subseteq Addresses
      /\ \A a, b \in free : a < b => EndOf(mem, a) < b
      /\ \A a, b \in free : a < b => EndOf(mem, a) <= b
      /\ 0 .. End - 1 \subseteq BytesOf(mem, free \cup held)
  BY DEF HeapInv, TypeOK, Sound, NoneTouch, Tiles
<1> HIDE DEF free
<1>2. ASSUME NEW x \in gap PROVE \E b \in free : x \in Bytes(mem, b)
  <2>1. x \in 0 .. End - 1 BY HeapAssumption
  <2>2. PICK b \in free \cup held : x \in Bytes(mem, b) BY <1>1, <2>1, InBytes
  <2> QED BY <2>2
<1>3. gap \subseteq BytesOf(mem, free) BY <1>2, InBytes
<1>4. at \in gap OBVIOUS
<1>5. PICK b \in free : at \in Bytes(mem, b) BY <1>2, <1>4
<1>6. /\ b \in Int /\ EndOf(mem, b) \in Int /\ EndOf(mem, b) = b + mem[b].size
      /\ mem[b].size \in Int /\ b <= at /\ at < EndOf(mem, b)
  <2>1. b \in Places /\ b \in Int BY <1>1, AddressesAreNumbers
  <2>2. EndOf(mem, b) \in Int /\ EndOf(mem, b) = b + mem[b].size /\ mem[b].size \in 0 .. End
    BY <1>1, <2>1, EndOfType
  <2> QED BY <1>5, <2>1, <2>2, HeapAssumption DEF Bytes
<1>7. at + len <= EndOf(mem, b)
  <2>1. SUFFICES ASSUME EndOf(mem, b) < at + len PROVE FALSE BY <1>6
  <2>2. EndOf(mem, b) \in gap BY <1>6, <2>1
  <2>3. PICK c \in free : EndOf(mem, b) \in Bytes(mem, c) BY <1>2, <2>2
  <2>4. c \in Int /\ EndOf(mem, c) \in Int BY <1>1, AddressesAreNumbers, EndOfType
  <2>5. c <= EndOf(mem, b) /\ EndOf(mem, b) < EndOf(mem, c) BY <1>6, <2>3, <2>4 DEF Bytes
  <2>6. b < c => EndOf(mem, b) < c BY <1>1
  <2>7. c < b => EndOf(mem, c) < b BY <1>1
  <2> QED BY <1>6, <2>4, <2>5, <2>6, <2>7
<1> QED BY <1>3, <1>6, <1>7 DEF free

(* pvPortMalloc refuses a size only when no gap is as long.                *)
LEMMA RefusalIsRight ==
  ASSUME HeapInv, NEW n \in Nat \ {0}, Refused(n), NEW at \in 0 .. End - BlockSize(n)
  PROVE  ~Promise!Free(at, BlockSize(n))
<1> DEFINE size == BlockSize(n)
           list == FreeList(mem)
           free == FreeBlocks(mem)
<1>1. size \in Nat \ {0} BY BlockSizeIs
<1>2. at \in Nat /\ at + size <= End BY <1>1, HeapAssumption
<1>3. SUFFICES ASSUME Promise!Free(at, size) PROVE FALSE OBVIOUS
<1>4. \A b \in held : Bytes(mem, b) \cap (at .. at + size - 1) = {}
  BY <1>1, <1>2, <1>3, GivenIsFree
<1>5. size > xFreeBytesRemaining \/ Candidates(size) = {} BY DEF Refused
<1> HIDE DEF size
<1>6. PICK b \in free : size <= mem[b].size BY <1>1, <1>2, <1>4, GapInOneBlock
<1>7. at .. at + size - 1 \subseteq BytesOf(mem, free) BY <1>1, <1>2, <1>4, GapInOneBlock
<1>8. /\ mem \in Memory /\ held \in SUBSET Addresses /\ Sound(mem, free, held)
      /\ Cardinality(BytesOf(mem, free)) = xFreeBytesRemaining
      /\ free \in SUBSET Addresses /\ Linked(mem, free)
  BY DEF HeapInv, TypeOK, Sound
<1>9. ~(size > xFreeBytesRemaining)
  <2>1. IsFiniteSet(BytesOf(mem, free)) BY <1>8, Counts
  <2>2. Cardinality(at .. at + size - 1) <= Cardinality(BytesOf(mem, free))
    BY <1>7, <2>1, FS_Subset
  <2>3. Cardinality(at .. at + size - 1) = size
    <3>1. at \in Int /\ at + size - 1 \in Int /\ ~(at > at + size - 1) BY <1>1, <1>2
    <3>2. (at + size - 1) - at + 1 = size BY <1>1, <1>2
    <3> QED BY <3>1, <3>2, FS_Interval
  <2>4. xFreeBytesRemaining \in Int BY HeapAssumption DEF HeapInv, TypeOK
  <2> QED BY <1>1, <1>8, <2>2, <2>3, <2>4
<1>10. Candidates(size) # {}
  <2>1. /\ list \in Seq(Places) /\ Len(list) \in Nat /\ Len(list) >= 2
        /\ list[1] = xStart /\ list[Len(list)] = End
    BY <1>8, FreeListShape
  <2>2. free = {list[i] : i \in 1 .. Len(list)} \ {xStart, End}
    <3>1. ToSet(list) = {list[i] : i \in 1 .. Len(list)} BY <2>1 DEF ToSet
    <3> QED BY <3>1 DEF FreeBlocks
  <2> HIDE DEF list, free
  <2>3. PICK i \in 1 .. Len(list) : list[i] = b BY <2>2
  <2>4. i # 1 /\ i # Len(list) BY <2>1, <2>2, <2>3
  <2>5. i \in 2 .. Len(list) - 1 BY <2>1, <2>4
  <2>6. mem[list[i]].size >= size BY <1>1, <1>6, <1>8, <2>3, AddressesAreNumbers, EndOfType
  <2> QED BY <2>5, <2>6 DEF Candidates, Fits, list
<1> QED BY <1>5, <1>9, <1>10

LEMMA GivenSame ==
  ASSUME \A b \in held' : mem'[b].size = mem[b].size
  PROVE  Given' = {[at |-> b, len |-> mem[b].size] : b \in held'}
BY DEF Given

LEMMA AllocateStep ==
  ASSUME HeapInv, NEW n \in Wanted, NEW block, Taken(BlockSize(n), block)
  PROVE  Promise!Allocate(BlockSize(n))
<1> DEFINE new == [at |-> block, len |-> mem'[block].size]
<1>1. /\ mem' \in Memory /\ Sound(mem', FreeBlocks(mem'), held \cup {block})
      /\ block \in FreeBlocks(mem) /\ held' = held \cup {block}
      /\ BlockSize(n) <= mem'[block].size
      /\ mem'[block].size <= BlockSize(n) + heapMINIMUM_BLOCK_SIZE
      /\ \A a \in held : mem'[a] = mem[a]
      /\ last' = <<BlockSize(n), block>>
  BY DEF Taken
<1>2. held \in SUBSET Addresses /\ block \in Addresses /\ block \notin held
  BY <1>1 DEF HeapInv, TypeOK, Sound
<1>3. Given' = Given \cup {new}
  <2>1. Given' = {[at |-> b, len |-> mem'[b].size] : b \in held} \cup {new}
    BY <1>1 DEF Given
  <2>2. {[at |-> b, len |-> mem'[b].size] : b \in held} = Given
    BY <1>1 DEF Given
  <2> QED BY <2>1, <2>2
<1>4. new \in Given' \ Given
  <2>1. \A g \in Given : g.at \in held BY DEF Given
  <2> QED BY <1>2, <1>3, <2>1
<1>5. Promise!Free(block, mem'[block].size)
  <2>1. /\ block \in Int /\ block >= 0 /\ mem'[block].size \in Int
        /\ EndOf(mem', block) = block + mem'[block].size
    BY <1>1, <1>2, AddressesAreNumbers, EndOfType
  <2>2. block + mem'[block].size <= End
    <3>1. EndOf(mem', block) <= End BY <1>1 DEF Sound, Tiles
    <3> QED BY <2>1, <3>1
  <2>3. ASSUME NEW b \in held
        PROVE  Bytes(mem, b) \cap (block .. block + mem'[block].size - 1) = {}
    <3>1. Bytes(mem', b) = Bytes(mem, b) BY <1>1 DEF Bytes, EndOf
    <3>2. Bytes(mem', block) = block .. block + mem'[block].size - 1 BY <2>1 DEF Bytes
    <3>3. b \in held \cup {block} /\ block \in held \cup {block} /\ b # block
          /\ held \cup {block} \in SUBSET Addresses
      BY <1>2
    <3>4. Bytes(mem', b) \cap Bytes(mem', block) = {} BY <1>1, <3>3, UsedIsNotFree
    <3> QED BY <3>1, <3>2, <3>4
  <2> QED BY <2>1, <2>2, <2>3, GivenIsFree
<1> QED BY <1>1, <1>3, <1>4, <1>5 DEF Promise!Allocate, Given

(* Every call is one of Allocator's.                                       *)
LEMMA PromiseStep ==
  ASSUME HeapInv, [Next]_vars
  PROVE  [Promise!Next]_(Promise!vars)
<1>1. ASSUME NEW n \in Wanted, MallocFails(n) PROVE Promise!Next
  <2>1. Given' = Given BY <1>1 DEF MallocFails, Given
  <2>2. CASE n = 0
    <3>1. last' = <<0, NULL>> BY <1>1, <2>2 DEF MallocFails
    <3>2. Promise!RefuseNothing BY <2>1, <3>1 DEF Promise!RefuseNothing, Given
    <3> QED BY <3>2 DEF Promise!Next
  <2>3. CASE n # 0
    <3>1. last' = <<BlockSize(n), NULL>> /\ Refused(n) BY <1>1, <2>3 DEF MallocFails
    <3>2. \A at \in 0 .. End - BlockSize(n) : ~Promise!Free(at, BlockSize(n))
      BY <2>3, <3>1, RefusalIsRight, HeapAssumption
    <3>3. Promise!Refuse(BlockSize(n)) BY <2>1, <3>1, <3>2 DEF Promise!Refuse, Given
    <3> QED BY <3>3 DEF Promise!Next
  <2> QED BY <2>2, <2>3
<1>2. ASSUME NEW n \in Wanted, MallocSucceeds(n) PROVE Promise!Next
  BY <1>2, MallocTakes, AllocateStep DEF Promise!Next
<1>3. ASSUME NEW block \in held, vPortFree(block) PROVE Promise!Next
  <2> DEFINE b == [at |-> block, len |-> mem[block].size]
  <2>1. held' = held \ {block} /\ last' = <<>> BY <1>3 DEF vPortFree
  <2>2. \A a \in held' : mem'[a] = mem[a] BY <1>3, <2>1, FreeFrees DEF Freed
  <2>3. Given' = {[at |-> a, len |-> mem[a].size] : a \in held'} BY <2>2, GivenSame
  <2>4. b \in Given /\ Given' = Given \ {b} BY <2>1, <2>3 DEF Given
  <2>5. Promise!Release BY <2>1, <2>4 DEF Promise!Release, Given
  <2> QED BY <2>5 DEF Promise!Next
<1>4. ASSUME NEW block \in held, Use(block) PROVE UNCHANGED Promise!vars
  <2>1. held' = held /\ last' = last BY <1>4 DEF Use
  <2>2. \A a \in held' : mem'[a] = mem[a] BY <1>4, <2>1, UseKeepsHeaders
  <2>3. Given' = Given BY <2>1, <2>2, GivenSame DEF Given
  <2> QED BY <2>1, <2>3 DEF Promise!vars, Given
<1>5. CASE UNCHANGED vars
  <2>1. Given' = Given /\ last' = last BY <1>5 DEF vars, Given
  <2> QED BY <2>1 DEF Promise!vars, Given
<1> QED BY <1>1, <1>2, <1>3, <1>4, <1>5 DEF Next, pvPortMalloc

(* pvPortMalloc gives no byte to two tasks, and refuses a size only when   *)
(* no gap between the blocks in use is as long: the heap, with its list    *)
(* and its merging, keeps the promise of Allocator.                        *)
THEOREM HeapImplements == Spec => ImplementsAllocator
<1>1. Init => Promise!Init
  <2>1. ASSUME held = {} PROVE Given = {} BY <2>1 DEF Given
  <2> QED BY <2>1 DEF Init, Promise!Init, Given
<1>2. HeapInv /\ [Next]_vars => [Promise!Next]_(Promise!vars) BY PromiseStep
<1> QED BY <1>1, <1>2, HeapInvariant, PTL DEF Spec, ImplementsAllocator, Promise!Spec
=============================================================================
