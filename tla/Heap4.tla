------------------------------- MODULE Heap4 -------------------------------
(***************************************************************************)
(* The heap: heap_4.c with the local additions of configUSE_MALLOC_DEBUG,  *)
(* the canary at the head of every block and the table allocList of the    *)
(* blocks in use.  The memory is modelled by its block headers: what is at *)
(* an address that a header may be at.                                     *)
(*                                                                         *)
(* pvPortMalloc and vPortFree run with the scheduler suspended, so a call  *)
(* is one step; no ISR calls them.                                         *)
(*                                                                         *)
(* The tail canaries are left out: only a task that writes past its block, *)
(* which no task is taken to do, or two blocks that overlap could change   *)
(* one.                                                                    *)
(***************************************************************************)
EXTENDS Integers, Sequences, SequencesExt, FiniteSetsExt

CONSTANTS
  End,      \* address of pxEnd: the heap is 0 .. End - 1, and what follows it
  Wanted,   \* the sizes, in bytes, that the tasks ask for
  Slots     \* length of allocList (256)

\* portBYTE_ALIGNMENT, sizeof(BlockLink_t) with the debug fields, the tail canary.
ALIGNMENT == 8
HeapStructSize == 16
TAIL_CANARY_SIZE == 4
heapMINIMUM_BLOCK_SIZE == 2 * HeapStructSize

ASSUME HeapAssumption ==
  /\ End \in Nat /\ End % ALIGNMENT = 0 /\ End >= HeapStructSize
  /\ Wanted \subseteq Nat
  /\ Slots \in Nat \ {0}

VARIABLES
  mem,        \* the header at an address
  allocList,  \* [0 .. Slots - 1 -> an address or NULL]
  held,       \* the blocks the tasks hold, by the address of their header
  xFreeBytesRemaining,
  xMinimumEverFreeBytesRemaining,
  last        \* what the last call asked for and got

vars == <<mem, allocList, held, xFreeBytesRemaining,
          xMinimumEverFreeBytesRemaining, last>>
-----------------------------------------------------------------------------
Addresses == {a \in 0 .. End - 1 : a % ALIGNMENT = 0}
xStart == -8
NULL == -16
Wild == -24      \* a word that is no pointer

\* xBlockSize is kept apart from its top bit, owned.
Header(next, size, canary) ==
  [next |-> next, size |-> size, owned |-> FALSE, canary |-> canary]
NoHeader == Header(Wild, 0, FALSE)

\* prvHeapInit, at the first call.
Init ==
  /\ mem = [a \in Addresses \cup {xStart, End} |->
              CASE a = xStart -> Header(0, 0, FALSE)
                [] a = End    -> Header(NULL, 0, FALSE)
                [] a = 0      -> Header(End, End, FALSE)
                [] OTHER      -> NoHeader]
  /\ allocList = [i \in 0 .. Slots - 1 |-> NULL]
  /\ held = {}
  /\ xFreeBytesRemaining = End
  /\ xMinimumEverFreeBytesRemaining = End
  /\ last = <<>>

-----------------------------------------------------------------------------
(***************************************************************************)
(* The free list, from xStart to pxEnd, and its two algorithms.            *)
(***************************************************************************)
\* The blocks met by following m from xStart, xStart first and pxEnd last: there
\* are at most as many as there are places for a header.
FollowNext(m, list) ==
  IF Last(list) = End THEN list ELSE Append(list, m[Last(list)].next)
FreeList(m) ==
  LET met[n \in Nat] == IF n = 0 THEN <<xStart>> ELSE FollowNext(m, met[n - 1])
  IN  met[End \div ALIGNMENT + 1]

FreeBlocks(m) == ToSet(FreeList(m)) \ {xStart, End}
EndOf(m, a) == a + m[a].size

\* Where the search for a block's place ends: the last that is before it.
Iterator(m, block) ==
  LET list == FreeList(m) IN list[SelectInSeq(list, LAMBDA a : m[a].next >= block)]

\* Mutant of Insert: a block is not merged with the one behind it.
InsertBeforeOnly(m, block) ==
  LET iterator == Iterator(m, block)
  IN  IF EndOf(m, iterator) = block
      THEN [m EXCEPT ![iterator].size = @ + m[block].size]
      ELSE [m EXCEPT ![block].next = m[iterator].next, ![iterator].next = block]

\* prvInsertBlockIntoFreeList: between the blocks around it by address, merged
\* with the one before and with the one behind when they touch.
Insert(m, block) ==
  LET iterator == Iterator(m, block)
      next     == m[iterator].next
      before   == EndOf(m, iterator) = block
      first    == IF before THEN iterator ELSE block
      size     == IF before THEN m[iterator].size + m[block].size
                            ELSE m[block].size
      behind   == first + size = next /\ next # End
      merged   == [m EXCEPT
                     ![first].size = IF behind THEN size + m[next].size ELSE size,
                     ![first].next = IF behind THEN m[next].next ELSE next]
  IN  IF before THEN merged ELSE [merged EXCEPT ![iterator].next = block]

\* xWantedSize once the header, the tail canary and the alignment are added.
RoundUp(n) == ((n + ALIGNMENT - 1) \div ALIGNMENT) * ALIGNMENT
BlockSize(n) == RoundUp(n + HeapStructSize + TAIL_CANARY_SIZE)

\* Mutant of Fits: an exact fit is passed over.
FitsLoosely(m, a, size) == m[a].size > size

Fits(m, a, size) == m[a].size >= size

\* A block is cut in two.
Split(m, block, size) ==
  [m EXCEPT ![block].size = size, ![block + size].size = m[block].size - size]

\* The memory once block, found after previous, is taken for size bytes: unlinked,
\* and split when what is left over is worth a block.
Take(m, previous, block, size) ==
  LET unlinked == [m EXCEPT ![previous].next = m[block].next]
      left     == IF m[block].size - size > heapMINIMUM_BLOCK_SIZE
                  THEN Insert(Split(unlinked, block, size), block + size) ELSE unlinked
  IN  [left EXCEPT ![block].owned = TRUE, ![block].next = NULL]

-----------------------------------------------------------------------------
(***************************************************************************)
(* The table and the canaries.                                             *)
(***************************************************************************)
\* Mutant of UpdateFreeBlockList: the canaries are set when blocks are taken only.
UpdateNothing(m) == m

\* vPortUpdateFreeBlockList
UpdateFreeBlockList(m) ==
  [a \in DOMAIN m |->
     IF a \in FreeBlocks(m) \cup {xStart} THEN [m[a] EXCEPT !.canary = TRUE] ELSE m[a]]

\* vPortAddToList: the first empty slot, if there is one.
AddToList(list, block) ==
  LET empty == {i \in DOMAIN list : list[i] = NULL}
  IN  IF empty = {} THEN list ELSE [list EXCEPT ![Min(empty)] = block]

\* Mutant of RmFromList: the slot is emptied and the others stay where they are.
RmLeavingHole(list, block) ==
  LET found == {i \in DOMAIN list : list[i] = block}
  IN  IF found = {} THEN list ELSE [list EXCEPT ![Min(found)] = NULL]

\* vPortRmFromList: the slots behind move up by one; the last keeps what it has.
RmFromList(list, block) ==
  LET found == {i \in DOMAIN list : list[i] = block}
      pos   == Min(found)
  IN  IF found = {} THEN list
      ELSE [i \in DOMAIN list |->
              IF i < pos THEN list[i]
              ELSE IF i < Slots - 1 THEN list[i + 1]
              ELSE IF i = pos THEN NULL ELSE list[i]]

-----------------------------------------------------------------------------
(***************************************************************************)
(* The tasks.                                                              *)
(***************************************************************************)
\* Where the traversal of the free list stops: the first block that fits, or pxEnd.
Candidates(size) == {i \in 2 .. Len(FreeList(mem)) - 1 : Fits(mem, FreeList(mem)[i], size)}
Refused(n) ==
  n = 0 \/ BlockSize(n) > xFreeBytesRemaining \/ Candidates(BlockSize(n)) = {}

\* Mutant of Charge: the size asked for, not what the block has.
ChargeAsked(m, block, size) == size

\* What xFreeBytesRemaining loses when block is taken for size bytes.
Charge(m, block, size) == m[block].size

MallocFails(n) ==
  /\ Refused(n)
  /\ last' = <<IF n = 0 THEN 0 ELSE BlockSize(n), NULL>>
  /\ UNCHANGED <<mem, allocList, held, xFreeBytesRemaining,
                 xMinimumEverFreeBytesRemaining>>

MallocSucceeds(n) ==
  /\ ~Refused(n)
  /\ LET list  == FreeList(mem)
         i     == Min(Candidates(BlockSize(n)))
         block == list[i]
         taken == Take(mem, list[i - 1], block, BlockSize(n))
         left  == xFreeBytesRemaining - Charge(taken, block, BlockSize(n))
     IN  /\ mem' = UpdateFreeBlockList([taken EXCEPT ![block].canary = TRUE])
         /\ allocList' = AddToList(allocList, block)
         /\ held' = held \cup {block}
         /\ xFreeBytesRemaining' = left
         /\ xMinimumEverFreeBytesRemaining' =
              Min({xMinimumEverFreeBytesRemaining, left})
         /\ last' = <<BlockSize(n), block>>

pvPortMalloc(n) == MallocFails(n) \/ MallocSucceeds(n)

\* A task frees a block it holds.
vPortFree(block) ==
  /\ xFreeBytesRemaining' = xFreeBytesRemaining + mem[block].size
  /\ allocList' = RmFromList(allocList, block)
  /\ mem' = UpdateFreeBlockList(Insert([mem EXCEPT ![block].owned = FALSE], block))
  /\ held' = held \ {block}
  /\ last' = <<>>
  /\ UNCHANGED xMinimumEverFreeBytesRemaining

\* A task fills a block it holds: headers that once were there are gone.
Use(block) ==
  /\ mem' = [a \in DOMAIN mem |->
               IF block + HeapStructSize <= a /\ a < EndOf(mem, block)
               THEN NoHeader ELSE mem[a]]
  /\ UNCHANGED <<allocList, held, xFreeBytesRemaining,
                 xMinimumEverFreeBytesRemaining, last>>

Next ==
  \/ \E n \in Wanted : pvPortMalloc(n)
  \/ \E block \in held : vPortFree(block) \/ Use(block)

Spec == Init /\ [][Next]_vars

-----------------------------------------------------------------------------
(***************************************************************************)
(* Properties.                                                             *)
(***************************************************************************)
Places == Addresses \cup {xStart, End}
Memory == [Places -> [next: Places \cup {NULL, Wild}, size: 0 .. End,
                      owned: BOOLEAN, canary: BOOLEAN]]
TypeOK ==
  /\ mem \in Memory
  /\ allocList \in [0 .. Slots - 1 -> Addresses \cup {NULL}]
  /\ held \subseteq Addresses
  /\ xFreeBytesRemaining \in 0 .. End
  /\ xMinimumEverFreeBytesRemaining \in 0 .. xFreeBytesRemaining

Bytes(m, b) == b .. EndOf(m, b) - 1
BytesOf(m, blocks) == UNION {Bytes(m, b) : b \in blocks}

\* No byte is in two of the blocks or in none.
Tiles(m, blocks) ==
  /\ \A b \in blocks : b < EndOf(m, b) /\ EndOf(m, b) <= End
  /\ \A a, b \in blocks : a < b => EndOf(m, a) <= b
  /\ 0 .. End - 1 \subseteq BytesOf(m, blocks)

\* The free blocks are linked in the order of their addresses.
Linked(m, free) ==
  \A a \in free \cup {xStart} :
    /\ m[a].next \in free \cup {End} /\ a < m[a].next
    /\ \A b \in free : a < b => m[a].next <= b

NoneTouch(m, free) == \A a, b \in free : a < b => EndOf(m, a) < b

\* The free blocks are linked and merged, and with the blocks in use they tile the
\* heap.
Sound(m, free, used) ==
  /\ free \subseteq Addresses /\ free \cap used = {}
  /\ Linked(m, free) /\ NoneTouch(m, free) /\ Tiles(m, free \cup used)
  /\ m[xStart].size = 0

\* What holds between calls.
HeapInv ==
  /\ TypeOK
  /\ Sound(mem, FreeBlocks(mem), held)
  /\ Cardinality(BytesOf(mem, FreeBlocks(mem))) = xFreeBytesRemaining
  /\ \A b \in held : mem[b].owned /\ mem[b].next = NULL /\ mem[b].canary
  /\ held # {} => \A b \in FreeBlocks(mem) \cup {xStart} : mem[b].canary

\* The free list is in the order of the addresses and no two of its blocks touch
\* (prvInsertBlockIntoFreeList); with the blocks the tasks hold it covers the heap,
\* no byte in two blocks or in none; and the count MEM_INFO reports is what is free.
HeapTiled ==
  LET list == FreeList(mem)
  IN  /\ list[1] = xStart /\ list[Len(list)] = End
      /\ \A i \in 2 .. Len(list) - 2 : EndOf(mem, list[i]) < list[i + 1]
      /\ Tiles(mem, FreeBlocks(mem) \cup held)
      /\ FreeBlocks(mem) \cap held = {}
      /\ Cardinality(BytesOf(mem, FreeBlocks(mem))) = xFreeBytesRemaining

\* allocList is what its readers take it for: up to its first NULL, every block in
\* use, once.
InTable == {i \in 0 .. Slots - 1 : \A j \in 0 .. i : allocList[j] # NULL}
TableTracks ==
  /\ {allocList[i] : i \in InTable} = held
  /\ \A i, j \in InTable : allocList[i] = allocList[j] => i = j

\* The assertions of vPortFree, for every block a task may free, and those of
\* vPortCheckIntegrity, for every header it would read if it ran in one go: the
\* canaries are there when no task writes past its block.
IntegrityHolds ==
  held # {} =>
    /\ \A b \in held : mem[b].owned /\ mem[b].next = NULL
    /\ mem[xStart].canary
    /\ \A b \in FreeBlocks(mem) : mem[b].canary
    /\ allocList[0] # NULL
    /\ \A i \in InTable : mem[allocList[i]].canary

-----------------------------------------------------------------------------
\* The heap keeps the promise of Allocator: no block is given twice, and a request
\* fails only when no gap between the blocks is large enough, however the heap has
\* been cut up before.
Promise == INSTANCE Allocator
  WITH Limit <- End,
       Lengths <- {BlockSize(n) : n \in Wanted},
       Slack <- heapMINIMUM_BLOCK_SIZE,
       NoAddress <- NULL,
       blocks <- {[at |-> b, len |-> mem[b].size] : b \in held},
       answer <- last
ImplementsAllocator == Promise!Spec
=============================================================================
