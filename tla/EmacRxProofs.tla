----------------------------- MODULE EmacRxProofs -----------------------------
(***************************************************************************)
(* The inductive invariant of the receive ring, for any number of          *)
(* descriptors, any memory and any frames: one lemma for each actor and    *)
(* one for each access of the task that moves an index.                    *)
(***************************************************************************)
EXTENDS EmacRx, FiniteSetTheorems, SequenceTheorems, TLAPS

USE RxDescsAssumption, BuffersAssumption, FramesAssumption

(* The index arithmetic stays in the ring. *)
LEMMA IndexType ==
    ASSUME NEW i \in RxIndex
    PROVE  Succ(RxDescs, i) \in RxIndex
  BY DEF RxIndex, Indexes, Succ

(* The ring after setup is empty. *)
LEMMA RxInitInv == RxInit => RxInv
  <1> SUFFICES ASSUME RxInit PROVE RxInv OBVIOUS
  <1> USE DEF RxInit
  <1>0. 0 \in RxIndex /\ RxDescs \in 0 .. RxDescs BY DEF RxIndex, Indexes
  <1>1. RxTypeOK BY <1>0 DEF RxTypeOK
  <1>2. Brackets(0)
    BY DEF Brackets, Advance, InSegment, RxIndex, Indexes, Frame
  <1>3. RingBracketed BY <1>2 DEF RingBracketed
  <1>4. BuffersApart
    BY DEF BuffersApart, Filled, InSegment, RxIndex, Indexes
  <1>5. HandInv BY DEF HandInv
  <1> QED BY <1>1, <1>3, <1>4, <1>5 DEF RxInv

(* A frame stored moves the DMA's index over the first descriptor it owns. *)
LEMMA StoreBrackets ==
    ASSUME RxTypeOK, NEW n \in 0 .. RxDescs - rx_free_descs, Brackets(n),
           NEW frame \in Frame, Store(frame)
    PROVE  n > 0 /\ n - 1 \in 0 .. RxDescs - rx_free_descs' /\ Brackets(n - 1)'
  <1> USE DEF Store
  <1>1. n \in 1 .. RxDescs BY DEF Brackets, RxTypeOK, InSegment, RxIndex, Indexes
  <1>2. rx_next_idx' = Advance(RxDescs, dma', n - 1)
    BY <1>1 DEF Brackets, RxTypeOK, Advance, Succ, RxIndex, Indexes
  <1>3. dma' = Advance(RxDescs, rx_get_idx', RxDescs - rx_free_descs' - (n - 1))
    BY <1>1 DEF Brackets, RxTypeOK, Advance, Succ, RxIndex, Indexes
  <1>4. ASSUME NEW i \in RxIndex
        PROVE  prdesc'[i] = Owned <=> InSegment(RxDescs, dma', n - 1, i)
    <2>1. prdesc[i] = Owned <=> InSegment(RxDescs, dma, n, i) BY DEF Brackets
    <2>2. prdesc'[i] = IF i = dma THEN frame ELSE prdesc[i] BY DEF RxTypeOK
    <2>3. frame # Owned BY DEF Frame
    <2>4. InSegment(RxDescs, dma', n - 1, i)
            <=> InSegment(RxDescs, dma, n, i) /\ i # dma
      BY <1>1 DEF RxTypeOK, InSegment, Succ, RxIndex, Indexes
    <2> QED BY <2>1, <2>2, <2>3, <2>4
  <1>5. n - 1 \in 0 .. RxDescs - rx_free_descs' BY <1>1 DEF RxTypeOK
  <1> QED BY <1>1, <1>2, <1>3, <1>4, <1>5 DEF Brackets

LEMMA StoreInv ==
    ASSUME RxInv, NEW frame \in Frame, Store(frame)
    PROVE  RxInv'
  <1> USE DEF RxInv, Store
  <1>1. RxTypeOK' BY IndexType DEF RxTypeOK, ring, Frame
  <1>2. RingBracketed'
    <2>1. PICK n \in 0 .. RxDescs - rx_free_descs : Brackets(n)
      BY DEF RingBracketed
    <2> QED BY <2>1, StoreBrackets DEF RingBracketed
  <1>3. BuffersApart' BY DEF BuffersApart, Filled
  <1>4. HandInv' BY DEF HandInv, Frame, RxTypeOK
  <1> QED BY <1>1, <1>2, <1>3, <1>4

(* Steps that move no index and no pbuf. *)
LEMMA QuietInv ==
    ASSUME RxInv, RxTypeOK', HandInv',
           UNCHANGED <<prdesc, rxpbufs, rx_free_descs, rx_get_idx, rx_next_idx, p,
                       lwip, dma>>
    PROVE  RxInv'
  BY DEF RxInv, RingBracketed, Brackets, BuffersApart, Filled

(* A frame taken: the descriptor behind the others that wait. *)
LEMMA InputBrackets ==
    ASSUME RxTypeOK, HandInv, NEW n \in 0 .. RxDescs - rx_free_descs, Brackets(n), Input
    PROVE  n \in 0 .. RxDescs - rx_free_descs' /\ Brackets(n)'
  <1> USE DEF Input
  <1>1. n < RxDescs - rx_free_descs
    BY DEF Brackets, RxTypeOK, HandInv, InSegment, Advance, RxIndex, Indexes
  <1>2. dma = Advance(RxDescs, rx_get_idx', RxDescs - rx_free_descs' - n)
    BY <1>1 DEF Brackets, RxTypeOK, Advance, Succ, RxIndex, Indexes
  <1>3. ASSUME NEW i \in RxIndex
        PROVE  prdesc'[i] = Owned <=> InSegment(RxDescs, dma, n, i)
    BY DEF Brackets, RxTypeOK, HandInv
  <1>4. n \in 0 .. RxDescs - rx_free_descs' BY <1>1 DEF RxTypeOK
  <1> QED BY <1>2, <1>3, <1>4 DEF Brackets, device

LEMMA InputInv ==
    ASSUME RxInv, Input
    PROVE  RxInv'
  <1> USE DEF RxInv, Input
  <1>1. Filled(rx_get_idx) /\ rxpbufs[rx_get_idx] \in Buffers \ lwip
    BY DEF Filled, InSegment, RxTypeOK, BuffersApart, RxIndex, Indexes
  <1>2. RxTypeOK'
    BY <1>1, IndexType DEF RxTypeOK, device, irq, HandInv, Frame
  <1>3. RingBracketed'
    <2>1. PICK n \in 0 .. RxDescs - rx_free_descs : Brackets(n)
      BY DEF RingBracketed
    <2> QED BY <2>1, InputBrackets DEF RingBracketed
  <1>4. \A i \in RxIndex : Filled(i)' => Filled(i) /\ i # rx_get_idx
    BY DEF Filled, InSegment, Succ, RxTypeOK, RxIndex, Indexes
  <1>5. BuffersApart'
    <2>1. \A i \in RxIndex : Filled(i)' => rxpbufs'[i] = rxpbufs[i]
      BY <1>4 DEF RxTypeOK
    <2> QED BY <1>1, <1>4, <2>1 DEF BuffersApart, RxTypeOK
  <1>6. HandInv' BY <1>1 DEF HandInv, RxTypeOK
  <1> QED BY <1>2, <1>3, <1>5, <1>6

(* A pbuf queued goes behind the last descriptor the DMA owns. *)
LEMMA QueueBrackets ==
    ASSUME RxTypeOK, rx_free_descs > 0, NEW n \in 0 .. RxDescs - rx_free_descs,
           Brackets(n), NEW b, lpc_rxqueue_pbuf(b), UNCHANGED <<rx_get_idx, dma>>
    PROVE  /\ n + 1 \in 0 .. RxDescs - rx_free_descs' /\ Brackets(n + 1)'
           /\ rx_next_idx = Advance(RxDescs, rx_get_idx, RxDescs - rx_free_descs)
  <1> USE DEF lpc_rxqueue_pbuf
  <1>1. rx_next_idx' = Advance(RxDescs, dma, n + 1)
    BY DEF Brackets, RxTypeOK, Advance, Succ, RxIndex, Indexes
  <1>2. dma = Advance(RxDescs, rx_get_idx, RxDescs - rx_free_descs' - (n + 1))
    BY DEF Brackets, RxTypeOK
  <1>3. ASSUME NEW i \in RxIndex
        PROVE  prdesc'[i] = Owned <=> InSegment(RxDescs, dma, n + 1, i)
    <2>1. prdesc[i] = Owned <=> InSegment(RxDescs, dma, n, i) BY DEF Brackets
    <2>2. prdesc'[i] = IF i = rx_next_idx THEN Owned ELSE prdesc[i] BY DEF RxTypeOK
    <2>3. InSegment(RxDescs, dma, n + 1, i)
            <=> InSegment(RxDescs, dma, n, i) \/ i = rx_next_idx
      BY DEF Brackets, RxTypeOK, InSegment, Advance, RxIndex, Indexes
    <2> QED BY <2>1, <2>2, <2>3
  <1>4. n + 1 \in 0 .. RxDescs - rx_free_descs' BY DEF RxTypeOK
  <1>5. rx_next_idx = Advance(RxDescs, rx_get_idx, RxDescs - rx_free_descs)
    BY DEF Brackets, RxTypeOK, Advance, RxIndex, Indexes
  <1> QED BY <1>1, <1>2, <1>3, <1>4, <1>5 DEF Brackets

LEMMA QueueInv ==
    ASSUME RxInv, rx_free_descs > 0, NEW b \in Buffers, lpc_rxqueue_pbuf(b),
           b \notin InRing \cup lwip, p' \in {p, NoBuffer}, p' # b,
           receive' \in {"setup", "refill", "poll"}, receive' = "setup" => p' = NoBuffer,
           UNCHANGED <<rx_get_idx, got, lwip, device, irq>>
    PROVE  RxInv'
  <1> USE DEF RxInv, lpc_rxqueue_pbuf, device, irq
  <1>1. RxTypeOK' BY IndexType DEF RxTypeOK
  <1>2. PICK n \in 0 .. RxDescs - rx_free_descs : Brackets(n)
    BY DEF RingBracketed
  <1>3. /\ n + 1 \in 0 .. RxDescs - rx_free_descs' /\ Brackets(n + 1)'
        /\ rx_next_idx = Advance(RxDescs, rx_get_idx, RxDescs - rx_free_descs)
    BY <1>2, QueueBrackets
  <1>4. RingBracketed' BY <1>3 DEF RingBracketed
  <1>5. \A i \in RxIndex : Filled(i)' <=> Filled(i) \/ i = rx_next_idx
    BY <1>3 DEF Filled, InSegment, Advance, RxTypeOK, RxIndex, Indexes
  <1>6. ~Filled(rx_next_idx)
    BY <1>3 DEF Filled, InSegment, Advance, RxTypeOK, RxIndex, Indexes
  <1>7. BuffersApart'
    <2>1. \A i \in RxIndex : rxpbufs'[i] = IF i = rx_next_idx THEN b ELSE rxpbufs[i]
      BY DEF RxTypeOK
    <2>2. \A i \in RxIndex : Filled(i) => rxpbufs[i] # b BY DEF InRing
    <2>3. \A i \in RxIndex : Filled(i)' => rxpbufs'[i] \in Buffers \ (lwip \cup {p'})
      BY <1>5, <2>1 DEF BuffersApart
    <2>4. \A i, j \in RxIndex :
            Filled(i)' /\ Filled(j)' /\ rxpbufs'[i] = rxpbufs'[j] => i = j
      BY <1>5, <2>1, <2>2 DEF BuffersApart
    <2>5. p' \notin lwip' BY DEF BuffersApart, RxTypeOK
    <2> QED BY <2>3, <2>4, <2>5 DEF BuffersApart
  <1>8. HandInv' BY DEF HandInv, RxTypeOK
  <1> QED BY <1>1, <1>4, <1>7, <1>8

(* What the task holds of the ring, or lwIP gets, is in no descriptor. *)
LEMMA DeliverInv ==
    ASSUME RxInv, Deliver
    PROVE  RxInv'
  <1> USE DEF RxInv, Deliver, ring, device, irq
  <1>1. RxTypeOK' BY DEF RxTypeOK, HandInv
  <1>2. RingBracketed' BY DEF RingBracketed, Brackets
  <1>3. BuffersApart'
    <2>1. lwip' \subseteq Buffers /\ p' = NoBuffer BY DEF RxTypeOK, HandInv
    <2>2. \A i \in RxIndex : Filled(i) => rxpbufs[i] \notin lwip'
      BY DEF BuffersApart
    <2> QED BY <2>1, <2>2 DEF BuffersApart, Filled
  <1>4. HandInv' BY DEF HandInv
  <1> QED BY <1>1, <1>2, <1>3, <1>4

(* The receive task keeps the invariant. *)
LEMMA TaskInv == RxInv /\ ReceiveTask => RxInv'
  <1> SUFFICES ASSUME RxInv, ReceiveTask PROVE RxInv' OBVIOUS
  <1> USE DEF ring, device, irq
  <1>1. CASE Wait
    BY <1>1, QuietInv DEF Wait, RxInv, RxTypeOK, HandInv
  <1>2. CASE Test
    BY <1>2, QuietInv DEF Test, RxInv, RxTypeOK, HandInv
  <1>3. CASE InputNothing
    BY <1>3, QuietInv DEF InputNothing, RxInv, RxTypeOK, HandInv
  <1>4. CASE Input
    BY <1>4, InputInv
  <1>5. CASE Requeue
    <2>1. p \in Buffers /\ rx_free_descs > 0 /\ p \notin InRing \cup lwip
      BY <1>5 DEF Requeue, RxInv, HandInv, BuffersApart, InRing
    <2> QED BY <1>5, <2>1, QueueInv DEF Requeue
  <1>6. CASE RefillOne
    <2>1. PICK b \in FreeMemory : lpc_rxqueue_pbuf(b) BY <1>6 DEF RefillOne
    <2>2. b \in Buffers /\ b \notin InRing \cup lwip /\ p # b BY DEF FreeMemory
    <2>3. receive = "setup" => p = NoBuffer BY DEF RxInv, HandInv
    <2> QED BY <1>6, <2>1, <2>2, <2>3, QueueInv DEF RefillOne
  <1>7. CASE RefillEnd
    <2>1. p \in Buffers \cup {NoBuffer} BY DEF RxInv, RxTypeOK
    <2> QED BY <1>7, <2>1, QuietInv DEF RefillEnd, RxInv, RxTypeOK, HandInv
  <1>8. CASE Poll
    <2>1. p \in Buffers \cup {NoBuffer} BY DEF RxInv, RxTypeOK
    <2> QED BY <1>8, <2>1, QuietInv DEF Poll, RxInv, RxTypeOK, HandInv
  <1>9. CASE Deliver
    BY <1>9, DeliverInv
  <1> QED BY <1>1, <1>2, <1>3, <1>4, <1>5, <1>6, <1>7, <1>8, <1>9 DEF ReceiveTask

(* The DMA, the interrupt and lwIP keep it. *)
LEMMA DmaInv == RxInv /\ RxDma => RxInv'
  <1> SUFFICES ASSUME RxInv, RxDma PROVE RxInv' OBVIOUS
  <1>1. CASE Suspend
    BY <1>1, QuietInv DEF Suspend, RxInv, RxTypeOK, HandInv, ring
  <1>2. CASE \E frame \in Frame : Store(frame)
    BY <1>2, StoreInv
  <1> QED BY <1>1, <1>2 DEF RxDma

LEMMA IsrInv == RxInv /\ RxIsr => RxInv'
  <1> SUFFICES ASSUME RxInv, RxIsr PROVE RxInv' OBVIOUS
  <1> USE DEF RxInv, RxTypeOK, HandInv, ring, device
  <1>1. CASE IsrRead BY <1>1, QuietInv DEF IsrRead
  <1>2. CASE IsrClear BY <1>2, QuietInv DEF IsrClear
  <1> QED BY <1>1, <1>2 DEF RxIsr

LEMMA LwipInv == RxInv /\ (LwipTakes \/ LwipFrees) => RxInv'
  <1> SUFFICES ASSUME RxInv, LwipTakes \/ LwipFrees PROVE RxInv' OBVIOUS
  <1> USE DEF RxInv, ring, device, irq
  <1>1. lwip' \subseteq lwip \cup FreeMemory BY DEF LwipTakes, LwipFrees
  <1>2. UNCHANGED <<ring, rx_get_idx, receive, p, got, device, irq>>
    BY DEF LwipTakes, LwipFrees
  <1>3. RxTypeOK' BY <1>1, <1>2 DEF RxTypeOK, FreeMemory
  <1>4. RingBracketed' BY <1>2 DEF RingBracketed, Brackets
  <1>5. BuffersApart'
    BY <1>1, <1>2 DEF BuffersApart, Filled, FreeMemory, InRing
  <1>6. HandInv' BY <1>2 DEF HandInv
  <1> QED BY <1>3, <1>4, <1>5, <1>6

(* The DMA owns exactly the descriptors between its index and the next one *)
(* to fill, the filled ones wait in order behind it, and a pbuf is in one  *)
(* place only, whatever task, DMA, interrupt and lwIP do to each other.    *)
THEOREM RxInvariant == RxSpec => []RxInv
  <1>1. RxInv /\ [RxNext]_rxVars => RxInv'
    <2> SUFFICES ASSUME RxInv, [RxNext]_rxVars PROVE RxInv' OBVIOUS
    <2>1. CASE RxNext
      BY <2>1, DmaInv, IsrInv, TaskInv, LwipInv DEF RxNext
    <2>2. CASE UNCHANGED rxVars
      BY <2>2, QuietInv DEF rxVars, ring, device, irq, RxInv, RxTypeOK, HandInv
    <2> QED BY <2>1, <2>2
  <1> QED BY RxInitInv, <1>1, PTL DEF RxSpec

-----------------------------------------------------------------------------
(* The queue of FrameFifo: with n descriptors owned, what waits is what is *)
(* in the others, in order.                                                *)
LEMMA FunctionIsSeq ==
    ASSUME NEW S, NEW n \in Nat, NEW f \in [1 .. n -> S]
    PROVE  f \in Seq(S) /\ Len(f) = n
  OBVIOUS

Content == Frame \cup {Cleared}
Behind(n) == RxDescs - rx_free_descs - n

LEMMA StoredBehind ==
    ASSUME RxTypeOK, NEW n \in 0 .. RxDescs - rx_free_descs, Brackets(n),
           NEW k \in RxIndex
    PROVE  /\ Stored(k) <=> k < Behind(n)
           /\ k < Behind(n) =>
                /\ Advance(RxDescs, rx_get_idx, k) \in RxIndex
                /\ prdesc[Advance(RxDescs, rx_get_idx, k)] \in Content
  <1>1. /\ Behind(n) \in 0 .. RxDescs /\ k \in Nat /\ k < RxDescs
        /\ rx_get_idx \in Nat /\ rx_get_idx < RxDescs
    BY DEF Behind, RxTypeOK, RxIndex, Indexes
  <1>2. \A j \in 0 .. Behind(n) - 1 :
          /\ Advance(RxDescs, rx_get_idx, j) \in RxIndex
          /\ ~InSegment(RxDescs, dma, n, Advance(RxDescs, rx_get_idx, j))
    BY DEF Brackets, Behind, RxTypeOK, Advance, InSegment, RxIndex, Indexes
  <1>3. \A j \in 0 .. Behind(n) - 1 :
          /\ prdesc[Advance(RxDescs, rx_get_idx, j)] # Owned
          /\ prdesc[Advance(RxDescs, rx_get_idx, j)] \in Content
    BY <1>2 DEF Brackets, RxTypeOK, Content
  <1>4. ASSUME k < Behind(n) PROVE Stored(k)
    BY <1>1, <1>3, <1>4 DEF Stored, Behind, RxTypeOK
  <1>5. ASSUME k >= Behind(n), Stored(k) PROVE FALSE
    <2>1. n > 0 BY <1>1, <1>5 DEF Stored, Behind, RxTypeOK
    <2>2. dma = Advance(RxDescs, rx_get_idx, Behind(n)) BY DEF Brackets, Behind
    <2>3. InSegment(RxDescs, dma, n, dma)
      BY <2>1 DEF InSegment, RxTypeOK, RxIndex, Indexes
    <2>4. prdesc[dma] = Owned BY <2>3 DEF Brackets, RxTypeOK
    <2> QED BY <1>1, <1>5, <2>2, <2>4 DEF Stored
  <1> QED BY <1>1, <1>2, <1>3, <1>4, <1>5

WaitsBehind(n) ==
    /\ Behind(n) \in Nat /\ Len(Waiting) = Behind(n) /\ Waiting \in Seq(Content)
    /\ Waiting = [k \in 1 .. Behind(n) |-> prdesc[Advance(RxDescs, rx_get_idx, k - 1)]]

WaitingKnown ==
    RxTypeOK => \A n \in 0 .. RxDescs - rx_free_descs : Brackets(n) => WaitsBehind(n)

LEMMA WaitingBehind == WaitingKnown
  <1> SUFFICES ASSUME RxTypeOK, NEW n \in 0 .. RxDescs - rx_free_descs, Brackets(n)
               PROVE  WaitsBehind(n)
    BY DEF WaitingKnown
  <1>1. Behind(n) \in 0 .. RxDescs BY DEF Behind, RxTypeOK
  <1>2. {k \in RxIndex : Stored(k)} = 0 .. Behind(n) - 1
    BY <1>1, StoredBehind DEF RxIndex, Indexes
  <1>3. Cardinality({k \in RxIndex : Stored(k)}) = Behind(n)
    <2>1. Cardinality(0 .. Behind(n) - 1) = Behind(n)
      BY <1>1, FS_Interval, SMTT(30)
    <2> QED BY <1>2, <2>1
  <1>4. Waiting = [k \in 1 .. Behind(n) |-> prdesc[Advance(RxDescs, rx_get_idx, k - 1)]]
    BY <1>3 DEF Waiting
  <1>5. \A k \in 1 .. Behind(n) :
          prdesc[Advance(RxDescs, rx_get_idx, k - 1)] \in Content
    BY <1>1, StoredBehind DEF RxIndex, Indexes
  <1>6. Waiting \in [1 .. Behind(n) -> Content] BY <1>4, <1>5
  <1> QED BY <1>1, <1>4, <1>6, FunctionIsSeq DEF WaitsBehind

LEMMA WaitingBehindNext == WaitingKnown'
  BY WaitingBehind, PTL

(* The step of the FIFO each access is. *)
LEMMA StorePuts ==
    ASSUME RxInv, RxInv', NEW frame \in Frame, Store(frame)
    PROVE  Fifo!Put
  <1> USE DEF RxInv
  <1>1. PICK n \in 0 .. RxDescs - rx_free_descs : Brackets(n) BY DEF RingBracketed
  <1>2. n > 0 /\ n - 1 \in 0 .. RxDescs - rx_free_descs' /\ Brackets(n - 1)'
    BY <1>1, StoreBrackets
  <1>3. WaitsBehind(n) BY <1>1, WaitingBehind DEF WaitingKnown
  <1>4. WaitsBehind(n - 1)' BY <1>2, WaitingBehindNext DEF WaitingKnown
  <1>5. /\ rx_get_idx' = rx_get_idx /\ rx_free_descs' = rx_free_descs /\ got' = got
        /\ prdesc \in [RxIndex -> Content \cup {Owned}]
        /\ prdesc' = [prdesc EXCEPT ![dma] = frame] /\ frame \in Content
        /\ dma \in RxIndex /\ rx_free_descs \in 0 .. RxDescs /\ rx_get_idx \in RxIndex
    BY DEF Store, RxTypeOK, Content
  <1>6. Behind(n) \in Nat /\ Behind(n) < RxDescs /\ Behind(n - 1)' = Behind(n) + 1
    BY <1>1, <1>2, <1>5 DEF Behind
  <1>7. dma = Advance(RxDescs, rx_get_idx, Behind(n)) BY <1>1 DEF Brackets, Behind
  <1>8. Waiting' = Append(Waiting, frame)
    <2>1. /\ Append(Waiting, frame) \in Seq(Content)
          /\ Len(Append(Waiting, frame)) = Behind(n) + 1
          /\ \A k \in 1 .. Behind(n) : Append(Waiting, frame)[k] = Waiting[k]
          /\ Append(Waiting, frame)[Behind(n) + 1] = frame
      BY <1>3, <1>5, AppendProperties DEF WaitsBehind
    <2>2. \A k \in 1 .. Behind(n) + 1 :
            Waiting'[k] = prdesc'[Advance(RxDescs, rx_get_idx, k - 1)]
      BY <1>4, <1>5, <1>6 DEF WaitsBehind
    <2>3. ASSUME NEW k \in 1 .. Behind(n) PROVE Waiting'[k] = Waiting[k]
      <3>1. k - 1 \in RxIndex /\ k - 1 < Behind(n) /\ k \in 1 .. Behind(n) + 1
        BY <1>6 DEF RxIndex, Indexes
      <3>2. Advance(RxDescs, rx_get_idx, k - 1) \in RxIndex \ {dma}
        BY <1>5, <1>6, <1>7, <3>1 DEF Advance, RxIndex, Indexes
      <3>3. Waiting[k] = prdesc[Advance(RxDescs, rx_get_idx, k - 1)]
        BY <1>3 DEF WaitsBehind
      <3> QED BY <1>5, <2>2, <3>1, <3>2, <3>3
    <2>4. Waiting'[Behind(n) + 1] = frame
      <3>1. PICK k \in 1 .. Behind(n) + 1 : k = Behind(n) + 1 BY <1>6
      <3>2. Waiting'[k] = prdesc'[Advance(RxDescs, rx_get_idx, k - 1)] BY <2>2
      <3>3. k - 1 = Behind(n) BY <1>6, <3>1
      <3> QED BY <1>5, <1>7, <3>1, <3>2, <3>3
    <2>5. Waiting' \in Seq(Content) /\ Len(Waiting') = Behind(n) + 1
      BY <1>4, <1>6 DEF WaitsBehind
    <2>6. \A k \in 1 .. Len(Waiting') : Waiting'[k] = Append(Waiting, frame)[k]
      BY <1>6, <2>1, <2>3, <2>4, <2>5
    <2> QED BY <2>1, <2>5, <2>6, SeqEqual
  <1> QED BY <1>3, <1>5, <1>6, <1>8 DEF Fifo!Put, WaitsBehind, Content

LEMMA InputGets ==
    ASSUME RxInv, RxInv', Input
    PROVE  Fifo!Get
  <1> USE DEF RxInv
  <1>1. PICK n \in 0 .. RxDescs - rx_free_descs : Brackets(n) BY DEF RingBracketed
  <1>2. n \in 0 .. RxDescs - rx_free_descs' /\ Brackets(n)' BY <1>1, InputBrackets
  <1>3. WaitsBehind(n) BY <1>1, WaitingBehind DEF WaitingKnown
  <1>4. WaitsBehind(n)' BY <1>2, WaitingBehindNext DEF WaitingKnown
  <1>5. /\ rx_get_idx' = Succ(RxDescs, rx_get_idx)
        /\ rx_free_descs' = rx_free_descs + 1 /\ got' = prdesc[rx_get_idx]
        /\ prdesc \in [RxIndex -> Content \cup {Owned}]
        /\ prdesc' = [prdesc EXCEPT ![rx_get_idx] = Cleared]
        /\ rx_free_descs \in 0 .. RxDescs /\ rx_get_idx \in RxIndex
    BY DEF Input, RxTypeOK, Content
  <1>6. /\ Behind(n) \in 1 .. RxDescs /\ Behind(n)' = Behind(n) - 1
    BY <1>1, <1>2, <1>5 DEF Behind
  <1>7. Waiting # << >> BY <1>3, <1>6 DEF WaitsBehind
  <1>8. got' = Head(Waiting)
    <2>1. Head(Waiting) = Waiting[1] BY <1>3, <1>7 DEF WaitsBehind
    <2>2. Waiting[1] = prdesc[Advance(RxDescs, rx_get_idx, 1 - 1)]
      BY <1>3, <1>6 DEF WaitsBehind
    <2>3. Advance(RxDescs, rx_get_idx, 1 - 1) = rx_get_idx
      BY <1>5 DEF Advance, RxIndex, Indexes
    <2> QED BY <1>5, <2>1, <2>2, <2>3
  <1>9. Waiting' = Tail(Waiting)
    <2>1. /\ Tail(Waiting) \in Seq(Content) /\ Len(Tail(Waiting)) = Behind(n) - 1
          /\ \A k \in 1 .. Behind(n) - 1 : Tail(Waiting)[k] = Waiting[k + 1]
      BY <1>3, <1>7, HeadTailProperties DEF WaitsBehind
    <2>2. Waiting' \in Seq(Content) /\ Len(Waiting') = Behind(n) - 1
      BY <1>4, <1>6 DEF WaitsBehind
    <2>3. ASSUME NEW k \in 1 .. Behind(n) - 1 PROVE Waiting'[k] = Waiting[k + 1]
      <3>1. k + 1 \in 1 .. Behind(n) /\ k + 1 - 1 = k BY <1>6
      <3>2. Waiting[k + 1] = prdesc[Advance(RxDescs, rx_get_idx, k)]
        BY <1>3, <3>1 DEF WaitsBehind
      <3>3. Waiting'[k] = prdesc'[Advance(RxDescs, rx_get_idx', k - 1)]
        BY <1>4, <1>6 DEF WaitsBehind
      <3>4. Advance(RxDescs, rx_get_idx', k - 1) = Advance(RxDescs, rx_get_idx, k)
        BY <1>5, <1>6 DEF Advance, Succ, RxIndex, Indexes
      <3>5. Advance(RxDescs, rx_get_idx, k) \in RxIndex \ {rx_get_idx}
        BY <1>5, <1>6 DEF Advance, RxIndex, Indexes
      <3> QED BY <1>5, <3>2, <3>3, <3>4, <3>5
    <2>4. \A k \in 1 .. Len(Waiting') : Waiting'[k] = Tail(Waiting)[k]
      BY <2>1, <2>2, <2>3
    <2> QED BY <2>1, <2>2, <2>4, SeqEqual
  <1> QED BY <1>7, <1>8, <1>9 DEF Fifo!Get

LEMMA QueueStutters ==
    ASSUME RxInv, RxInv', rx_free_descs > 0, NEW b, lpc_rxqueue_pbuf(b),
           UNCHANGED <<rx_get_idx, dma>>
    PROVE  UNCHANGED Waiting
  <1> USE DEF RxInv
  <1>1. PICK n \in 0 .. RxDescs - rx_free_descs : Brackets(n) BY DEF RingBracketed
  <1>2. /\ n + 1 \in 0 .. RxDescs - rx_free_descs' /\ Brackets(n + 1)'
        /\ rx_next_idx = Advance(RxDescs, rx_get_idx, RxDescs - rx_free_descs)
    BY <1>1, QueueBrackets
  <1>3. WaitsBehind(n) BY <1>1, WaitingBehind DEF WaitingKnown
  <1>4. WaitsBehind(n + 1)' BY <1>2, WaitingBehindNext DEF WaitingKnown
  <1>5. /\ prdesc' = [prdesc EXCEPT ![rx_next_idx] = Owned]
        /\ rx_free_descs' = rx_free_descs - 1 /\ rx_free_descs \in 0 .. RxDescs
        /\ prdesc \in [RxIndex -> Content \cup {Owned}] /\ rx_get_idx \in RxIndex
    BY DEF lpc_rxqueue_pbuf, RxTypeOK, Content
  <1>6. /\ Behind(n) \in 0 .. RxDescs - rx_free_descs
        /\ Behind(n + 1)' = Behind(n)
    BY <1>1, <1>2, <1>5 DEF Behind
  <1>7. ASSUME NEW k \in 1 .. Behind(n) PROVE Waiting'[k] = Waiting[k]
    <2>1. Waiting[k] = prdesc[Advance(RxDescs, rx_get_idx, k - 1)]
      BY <1>3 DEF WaitsBehind
    <2>2. Waiting'[k] = prdesc'[Advance(RxDescs, rx_get_idx, k - 1)]
      BY <1>4, <1>6 DEF WaitsBehind
    <2>3. Advance(RxDescs, rx_get_idx, k - 1) \in RxIndex \ {rx_next_idx}
      BY <1>2, <1>5, <1>6 DEF Advance, RxIndex, Indexes
    <2> QED BY <1>5, <2>1, <2>2, <2>3
  <1>8. /\ Waiting \in Seq(Content) /\ Len(Waiting) = Behind(n)
        /\ Waiting' \in Seq(Content) /\ Len(Waiting') = Behind(n)
    BY <1>3, <1>4, <1>6 DEF WaitsBehind
  <1> QED BY <1>7, <1>8, SeqEqual

(* What the network stores in the ring reaches lpc_low_level_input once,   *)
(* whole and in order: the ring implements the FIFO, but for liveness.     *)
THEOREM RxRefinesFifo == RxSpec => Fifo!Safety
  <1>1. RxInit => Fifo!Init
    <2> SUFFICES ASSUME RxInit PROVE Fifo!Init OBVIOUS
    <2>1. RxInv BY RxInitInv
    <2>2. Brackets(0) /\ 0 \in 0 .. RxDescs - rx_free_descs
      <3>1. PICK n \in 0 .. RxDescs - rx_free_descs : Brackets(n)
        BY <2>1 DEF RxInv, RingBracketed
      <3>2. n = 0 BY <3>1 DEF RxInit
      <3> QED BY <3>1, <3>2
    <2>3. WaitsBehind(0) BY <2>1, <2>2, WaitingBehind DEF WaitingKnown, RxInv
    <2>4. Behind(0) = 0 BY DEF RxInit, Behind
    <2>5. Waiting = << >> BY <2>3, <2>4, EmptySeq DEF WaitsBehind
    <2> QED BY <2>5 DEF Fifo!Init, RxInit
  <1>2. RxInv /\ RxInv' /\ [RxNext]_rxVars => [Fifo!Next]_<<Waiting, got>>
    <2> SUFFICES ASSUME RxInv, RxInv', [RxNext]_rxVars
                 PROVE  [Fifo!Next]_<<Waiting, got>>
      OBVIOUS
    <2>1. CASE \E frame \in Frame : Store(frame)
      BY <2>1, StorePuts DEF Fifo!Next
    <2>2. CASE Input BY <2>2, InputGets DEF Fifo!Next
    <2>3. CASE Requeue
      <3>1. rx_free_descs > 0 BY <2>3 DEF Requeue, RxInv, HandInv
      <3> QED BY <2>3, <3>1, QueueStutters DEF Requeue, device
    <2>4. CASE RefillOne
      BY <2>4, QueueStutters DEF RefillOne, device
    <2>5. CASE UNCHANGED <<prdesc, rx_free_descs, rx_get_idx, got>>
      BY <2>5 DEF Waiting, Stored
    <2>6. UNCHANGED <<prdesc, rx_free_descs, rx_get_idx, got>>
          \/ (\E frame \in Frame : Store(frame)) \/ Input \/ Requeue \/ RefillOne
      BY DEF RxNext, RxDma, RxIsr, ReceiveTask, Suspend, IsrRead, IsrClear, Wait, Test,
             InputNothing, RefillEnd, Poll, Deliver, LwipTakes, LwipFrees, rxVars, ring
    <2> QED BY <2>1, <2>2, <2>3, <2>4, <2>5, <2>6
  <1> QED BY <1>1, <1>2, RxInvariant, PTL DEF RxSpec, Fifo!Safety
=============================================================================
