----------------------------- MODULE EmacTxProofs -----------------------------
(***************************************************************************)
(* The inductive invariant of the send ring, for any number of             *)
(* descriptors, any packets and any chains: first the places of the ring,  *)
(* then the entries counted, then a lemma for each access that moves one.  *)
(* On top of it, the chains the ring holds, and that it implements a FIFO. *)
(***************************************************************************)
EXTENDS EmacTx, FiniteSetTheorems, SequenceTheorems, WellFoundedInduction, TLAPS

USE TxDescsAssumption

(* The index arithmetic. *)
LEMMA SuccType ==
    ASSUME NEW i \in TxIndex
    PROVE  Succ(TxDescs, i) \in TxIndex
  BY DEF TxIndex, Indexes, Succ

LEMMA SegmentTail ==
    ASSUME NEW a \in TxIndex, NEW k \in 1 .. TxDescs, NEW i \in TxIndex
    PROVE  InSegment(TxDescs, Succ(TxDescs, a), k - 1, i)
             <=> InSegment(TxDescs, a, k, i) /\ i # a
  BY DEF TxIndex, Indexes, InSegment, Succ

LEMMA SegmentGrown ==
    ASSUME NEW a \in TxIndex, NEW k \in 0 .. TxDescs - 1, NEW i \in TxIndex
    PROVE  InSegment(TxDescs, a, k + 1, i)
             <=> InSegment(TxDescs, a, k, i) \/ i = Advance(TxDescs, a, k)
  BY DEF TxIndex, Indexes, InSegment, Advance

LEMMA IdleType == Idle \in Call
  <1>1. 0 \in TxIndex /\ 0 \in 0 .. TxDescs - 1 BY DEF TxIndex, Indexes
  <1> QED BY <1>1 DEF Idle, Call

LEMMA EntriesFinite ==
    ASSUME NEW S \in SUBSET TxIndex
    PROVE  IsFiniteSet(S) /\ Cardinality(S) \in Nat
  <1>1. IsFiniteSet(TxIndex) BY FS_Interval DEF TxIndex, Indexes
  <1> QED BY <1>1, FS_Subset, FS_CardinalityType

(* Where the references to a packet are. *)
Entries(q) == {i \in TxIndex : Used(i) /\ txpbufs[i] = q}

LEMMA RingRefsType ==
    \A q : RingRefs(q) = Cardinality(Entries(q)) /\ RingRefs(q) \in Nat
  BY EntriesFinite DEF RingRefs, Entries

(* An entry made, and an entry taken back. *)
LEMMA EntryMade ==
    ASSUME NEW q, NEW i \in TxIndex, i \notin Entries(q),
           Entries(q)' = Entries(q) \cup {i}
    PROVE  RingRefs(q)' = RingRefs(q) + 1
  <1>1. IsFiniteSet(Entries(q)) BY EntriesFinite DEF Entries
  <1>2. RingRefs(q)' = Cardinality(Entries(q)') BY DEF RingRefs, Entries
  <1> QED BY <1>1, <1>2, FS_AddElement, RingRefsType

LEMMA EntryReclaimed ==
    ASSUME NEW q, NEW i \in Entries(q), Entries(q)' = Entries(q) \ {i}
    PROVE  RingRefs(q)' = RingRefs(q) - 1
  <1>1. IsFiniteSet(Entries(q)) BY EntriesFinite DEF Entries
  <1>2. RingRefs(q)' = Cardinality(Entries(q)') BY DEF RingRefs, Entries
  <1> QED BY <1>1, <1>2, FS_RemoveElement, RingRefsType

LEMMA EntriesKept ==
    ASSUME NEW q, Entries(q)' = Entries(q)
    PROVE  RingRefs(q)' = RingRefs(q)
  BY DEF RingRefs, Entries

(* The ring after setup is empty. *)
LEMMA TxInitInv == TxInit => TxInv
  <1> SUFFICES ASSUME TxInit PROVE TxInv OBVIOUS
  <1> USE DEF TxInit, Idle
  <1>0. 0 \in TxIndex /\ TxDescs \in 0 .. TxDescs BY DEF TxIndex, Indexes
  <1>1. TxTypeOK
    <2>1. ptdesc \in [TxIndex -> Desc] BY DEF Desc
    <2>2. refs \in [Packet -> Nat] OBVIOUS
    <2> QED BY <1>0, <2>1, <2>2, IdleType DEF TxTypeOK, Flag
  <1>2. OutputInv BY DEF OutputInv
  <1>3. Filling = 0 BY DEF Filling
  <1>4. Owns(0)
    BY <1>3 DEF Owns, Oldest, Advance, InSegment, TxIndex, Indexes
  <1>5. RingInOrder
    BY <1>4 DEF RingInOrder, FillIdx, Oldest, Advance, TxIndex, Indexes
  <1>6. \A i \in TxIndex : ~Used(i)
    BY DEF Used, InSegment, Oldest, TxIndex, Indexes
  <1>7. EntriesFollow BY <1>6 DEF EntriesFollow
  <1>8. RefsCounted
    <2>1. \A q : Entries(q) = {} BY <1>6 DEF Entries
    <2>2. \A q : RingRefs(q) = 0 BY <2>1, RingRefsType, FS_EmptySet, Zenon
    <2>3. \A q : OutputRefs(q) = 0 BY DEF OutputRefs
    <2> QED BY <2>2, <2>3 DEF RefsCounted
  <1> QED BY <1>1, <1>2, <1>5, <1>7, <1>8 DEF TxInv

(* Any step keeps the variables it does not name: the ring and its entries *)
(* are the same when the descriptors, the count and the oldest are.        *)
LEMMA RingKept ==
    ASSUME UNCHANGED <<ptdesc, txpbufs, tx_free_descs, tx_fill_idx, tx_dma>>,
           UNCHANGED <<Oldest, Filling, FillIdx>>, Filling > 0 => UNCHANGED output.fidx
    PROVE  /\ RingInOrder => RingInOrder'
           /\ \A q : RingRefs(q)' = RingRefs(q)
           /\ \A i : (Used(i)' <=> Used(i)) /\ Age(i)' = Age(i)
  <1>1. RingInOrder => RingInOrder' BY DEF RingInOrder, Owns
  <1>2. \A i : (Used(i)' <=> Used(i)) /\ Age(i)' = Age(i) BY DEF Used, Age
  <1>3. \A q : Entries(q)' = Entries(q) BY <1>2 DEF Entries
  <1>4. \A q : RingRefs(q)' = RingRefs(q) BY <1>3, EntriesKept
  <1> QED BY <1>1, <1>2, <1>4

(* lwIP makes a packet, drops one, and sends one. *)
LEMMA MakeInv ==
    ASSUME TxInv, NEW q \in Packets, Make(q)
    PROVE  TxInv'
  <1> USE DEF TxInv, Make, slots, mac, irqs
  <1>1. UNCHANGED <<Oldest, Filling, FillIdx>> BY DEF Oldest, Filling, FillIdx
  <1>2. TxTypeOK' BY DEF TxTypeOK, Packet
  <1>3. OutputInv' BY DEF OutputInv, Room
  <1>4. RingInOrder' BY <1>1, RingKept
  <1>5. EntriesFollow' BY <1>1, RingKept DEF EntriesFollow, EntryFollows
  <1>6. RefsCounted'
    <2>1. \A r : OutputRefs(r)' = OutputRefs(r) BY DEF OutputRefs
    <2>2. OutputRefs(q) \in Nat /\ RingRefs(q) \in Nat
      BY RingRefsType DEF OutputRefs
    <2>3. q \notin sender /\ OutputRefs(q) = 0 /\ RingRefs(q) = 0
      BY <2>2 DEF RefsCounted, Packet
    <2> QED BY <1>1, <2>1, <2>3, RingKept DEF RefsCounted, TxTypeOK
  <1> QED BY <1>2, <1>3, <1>4, <1>5, <1>6

LEMMA DropInv ==
    ASSUME TxInv, NEW q \in Packets, Drop(q)
    PROVE  TxInv'
  <1> USE DEF TxInv, Drop, slots, mac, irqs
  <1>1. UNCHANGED <<Oldest, Filling, FillIdx>> BY DEF Oldest, Filling, FillIdx
  <1>2. OutputInv' BY DEF OutputInv, Room
  <1>3. RingInOrder' BY <1>1, RingKept
  <1>4. EntriesFollow' BY <1>1, RingKept DEF EntriesFollow, EntryFollows
  <1>5. \A r : OutputRefs(r)' = OutputRefs(r) /\ OutputRefs(r) \in Nat
    BY DEF OutputRefs
  <1>6. refs[q] > 0 BY <1>5, RingRefsType DEF RefsCounted, Packet
  <1>7. TxTypeOK' BY <1>6 DEF TxTypeOK, Packet
  <1>8. RefsCounted'
    BY <1>1, <1>5, RingKept, RingRefsType DEF RefsCounted, TxTypeOK
  <1> QED BY <1>2, <1>3, <1>4, <1>7, <1>8

LEMMA OutputCallInv ==
    ASSUME TxInv, NEW q \in Packets, Output(q)
    PROVE  TxInv'
  <1> USE DEF TxInv
  <1>0. PICK r \in Packet :
          /\ output' = [pc |-> "room", packet |-> r, frag |-> 0, fidx |-> 0,
                        idx |-> 0, pcopy |-> r \in Copies]
          /\ IF r \in Copies THEN refs[r] = 0 /\ refs' = [refs EXCEPT ![r] = 1]
                           ELSE UNCHANGED refs
    <2> USE DEF Output, Idle
    <2>1. CASE q \in Slow
      <3>1. PICK c \in Copies :
              /\ refs[c] = 0
              /\ refs' = [refs EXCEPT ![c] = 1]
              /\ output' = [Idle EXCEPT !.pc = "room", !.packet = c, !.pcopy = TRUE]
        BY <2>1
      <3>2. output' = [pc |-> "room", packet |-> c, frag |-> 0, fidx |-> 0,
                       idx |-> 0, pcopy |-> TRUE]
        BY <3>1
      <3> QED BY <3>1, <3>2 DEF Packet
    <2>2. CASE q \notin Slow
      <3>1. output' = [pc |-> "room", packet |-> q, frag |-> 0, fidx |-> 0,
                       idx |-> 0, pcopy |-> FALSE]
        BY <2>2
      <3>2. UNCHANGED refs BY <2>2
      <3> HIDE DEF Output, Idle, TxInv
      <3>3. (q \in Copies) = FALSE BY PacketsAssumption
      <3> QED BY <3>1, <3>2, <3>3 DEF Packet
    <2> QED BY <2>1, <2>2
  <1>u. /\ output.pc = "idle" /\ q \in sender
        /\ UNCHANGED <<ptdesc, txpbufs, tx_free_descs, tx_fill_idx, tx_reclaim_idx,
                       cleanup, ridx, lock, sender, tx_dma, tx_suspended, tx_stat,
                       tx_ints, TxCleanSem>>
    BY DEF Output, slots, mac, irqs
  <1> USE <1>u
  <1>1. UNCHANGED <<Oldest, Filling, FillIdx>>
    BY <1>0 DEF Oldest, Filling, FillIdx
  <1>2. Filling = 0 BY DEF Filling
  <1>3. \A s : OutputRefs(s) = 0 BY DEF OutputRefs
  <1>4. RingInOrder' BY <1>1, <1>2, RingKept
  <1>5. EntriesFollow'
    BY <1>1, <1>2, RingKept DEF EntriesFollow, EntryFollows
  <1>6. TxTypeOK'
    <2>1. 0 \in TxIndex /\ 0 \in 0 .. TxDescs - 1 BY DEF TxIndex, Indexes
    <2>2. output' \in Call BY <1>0, <2>1 DEF Call
    <2>3. refs' \in [Packet -> Nat] BY <1>0 DEF TxTypeOK
    <2> QED BY <2>2, <2>3 DEF TxTypeOK
  <1>7. OutputInv' BY <1>0 DEF OutputInv
  <1>8. RefsCounted'
    <2>1. \A s : OutputRefs(s)' = IF s = r /\ r \in Copies THEN 1 ELSE 0
      BY <1>0 DEF OutputRefs
    <2>2. \A s \in Packet : refs'[s] = refs[s] + OutputRefs(s)'
      BY <1>0, <2>1 DEF TxTypeOK
    <2> QED BY <1>1, <1>2, <1>3, <2>1, <2>2, RingKept, RingRefsType DEF RefsCounted
  <1> QED BY <1>4, <1>5, <1>6, <1>7, <1>8

(* Steps that move no descriptor and no packet. *)
LEMMA QuietInv ==
    ASSUME TxInv, TxTypeOK', OutputInv',
           UNCHANGED <<ptdesc, txpbufs, tx_free_descs, tx_fill_idx, tx_dma, count>>,
           UNCHANGED <<Oldest, Filling, FillIdx>>, \A q : UNCHANGED OutputRefs(q),
           output.pc = "fill" /\ output.frag > 0 => UNCHANGED output,
           Filling > 0 => UNCHANGED output.fidx
    PROVE  TxInv'
  <1> USE DEF TxInv, count
  <1>1. RingInOrder' BY RingKept
  <1>2. EntriesFollow' BY RingKept DEF EntriesFollow, EntryFollows
  <1>3. RefsCounted' BY RingKept DEF RefsCounted
  <1> QED BY <1>1, <1>2, <1>3

(* lpc_low_level_output, but for the two accesses to the descriptors. *)
LEMMA OutputQuiet ==
    ASSUME TxInv, FindRoom \/ Lock \/ PollDemand \/ Unlock
    PROVE  TxInv'
  <1> USE DEF TxInv, slots, count, mac, irqs
  <1>1. CASE FindRoom
    <2> USE <1>1 DEF FindRoom
    <2>1. output'.pc = "lock" /\ TxTypeOK' BY DEF TxTypeOK, Call
    <2>2. OutputInv' BY DEF OutputInv, Room, TxTypeOK, Call
    <2>3. UNCHANGED <<Oldest, Filling, FillIdx>> BY <2>1 DEF Oldest, Filling, FillIdx
    <2>4. \A q : UNCHANGED OutputRefs(q) BY DEF OutputRefs, TxTypeOK, Call
    <2> QED BY <2>1, <2>2, <2>3, <2>4, QuietInv DEF Filling
  <1>2. CASE Lock
    <2> USE <1>2 DEF Lock
    <2>1. output'.pc = "fill" /\ TxTypeOK' BY DEF TxTypeOK, Call
    <2>2. output.frag = 0 /\ output'.frag = 0 /\ UNCHANGED output.idx
      BY DEF OutputInv, TxTypeOK, Call
    <2>3. OutputInv'
      BY <2>2, PacketsAssumption
      DEF OutputInv, Room, TxTypeOK, Call, Packet, Advance, TxIndex, Indexes
    <2>4. UNCHANGED <<Oldest, Filling, FillIdx>>
      BY <2>1, <2>2 DEF Oldest, Filling, FillIdx, OutputInv
    <2>5. \A q : UNCHANGED OutputRefs(q)
      BY <2>1, <2>2 DEF OutputRefs, TxTypeOK, Call
    <2> QED BY <2>1, <2>3, <2>4, <2>5, QuietInv DEF Filling
  <1>3. CASE PollDemand
    <2> USE <1>3 DEF PollDemand
    <2>1. output'.pc = "unlock" /\ TxTypeOK' BY DEF TxTypeOK, Call
    <2>2. OutputInv' BY <2>1 DEF OutputInv
    <2>3. UNCHANGED <<Oldest, Filling, FillIdx>> BY <2>1 DEF Oldest, Filling, FillIdx
    <2>4. \A q : UNCHANGED OutputRefs(q) BY <2>1 DEF OutputRefs
    <2> QED BY <2>1, <2>2, <2>3, <2>4, QuietInv DEF Filling
  <1>4. CASE Unlock
    <2> USE <1>4 DEF Unlock
    <2>1. output'.pc = "idle" /\ TxTypeOK' BY IdleType DEF TxTypeOK, Idle
    <2>2. OutputInv' BY <2>1 DEF OutputInv, TxTypeOK
    <2>3. UNCHANGED <<Oldest, Filling, FillIdx>> BY <2>1 DEF Oldest, Filling, FillIdx
    <2>4. \A q : UNCHANGED OutputRefs(q) BY <2>1 DEF OutputRefs
    <2> QED BY <2>1, <2>2, <2>3, <2>4, QuietInv DEF Filling
  <1> QED BY <1>1, <1>2, <1>3, <1>4

(* The cleanup task, but for the descriptor it takes back. *)
LEMMA CleanupQuiet ==
    ASSUME TxInv, WaitClean \/ LockClean \/ ReclaimEnd
    PROVE  TxInv'
  <1> USE DEF TxInv, slots, count, mac, irqs, WaitClean, LockClean, ReclaimEnd
  <1>1. TxTypeOK' BY DEF TxTypeOK
  <1>2. OutputInv' BY DEF OutputInv, Room, TxTypeOK
  <1>3. UNCHANGED <<output, Oldest, Filling, FillIdx>> BY DEF Oldest, Filling, FillIdx
  <1>4. \A q : UNCHANGED OutputRefs(q) BY <1>3 DEF OutputRefs
  <1> QED BY <1>1, <1>2, <1>3, <1>4, QuietInv

(* The DMA when it has nothing to send, the other ring and the interrupt. *)
LEMMA DeviceQuiet ==
    ASSUME TxInv, SuspendTx \/ Received \/ TxIsr
    PROVE  TxInv'
  <1> USE DEF TxInv, slots, count, mac, irqs
  <1>1. TxTypeOK'
    BY DEF TxTypeOK, Flag, SuspendTx, Received, TxIsr, TxIsrRead, TxIsrClear, Left
  <1>2. UNCHANGED <<ptdesc, txpbufs, tx_free_descs, tx_fill_idx, tx_reclaim_idx, output,
                    cleanup, ridx, lock, count, tx_dma>>
    BY DEF SuspendTx, Received, TxIsr, TxIsrRead, TxIsrClear
  <1>3. OutputInv' BY <1>2 DEF OutputInv, Room
  <1>4. UNCHANGED <<Oldest, Filling, FillIdx>> BY <1>2 DEF Oldest, Filling, FillIdx
  <1>5. \A q : UNCHANGED OutputRefs(q) BY <1>2 DEF OutputRefs
  <1> QED BY <1>1, <1>2, <1>3, <1>4, <1>5, QuietInv

(* The DMA sends the first descriptor it owns. *)
LEMMA SendInv ==
    ASSUME TxInv, Send
    PROVE  TxInv'
  <1>1. /\ ptdesc[tx_dma].own /\ tx_dma' = Succ(TxDescs, tx_dma)
        /\ ptdesc' = [ptdesc EXCEPT ![tx_dma].own = FALSE]
        /\ tx_stat' \in {tx_stat, tx_stat \cup {"TI"}}
        /\ UNCHANGED <<txpbufs, tx_free_descs, tx_fill_idx, tx_reclaim_idx, output,
                       cleanup, ridx, lock, count, tx_suspended, tx_ints, TxCleanSem>>
    BY DEF Send
  <1> USE DEF TxInv, count
  <1>2. ptdesc' \in [TxIndex -> Desc] BY <1>1 DEF TxTypeOK, Desc
  <1>3. \A i \in TxIndex : /\ ptdesc'[i].own = (ptdesc[i].own /\ i # tx_dma)
                           /\ ptdesc'[i].packet = ptdesc[i].packet
    BY <1>1 DEF TxTypeOK, Desc
  <1>4. TxTypeOK' BY <1>1, <1>2, SuccType DEF TxTypeOK, Flag
  <1>5. OutputInv' BY <1>1 DEF OutputInv, Room
  <1>6. UNCHANGED <<Oldest, Filling, FillIdx>> BY <1>1 DEF Oldest, Filling, FillIdx
  <1>7. Filling \in 0 .. TxDescs
    BY PacketsAssumption DEF Filling, TxTypeOK, Call, OutputInv, Packet
  <1>8. Oldest \in TxIndex BY DEF Oldest, TxTypeOK
  <1>9. RingInOrder'
    <2>1. PICK n \in 0 .. TxDescs : Owns(n) BY DEF RingInOrder
    <2>2. tx_dma \in TxIndex /\ tx_free_descs \in 0 .. TxDescs BY DEF TxTypeOK
    <2>3. n > 0
      <3>1. InSegment(TxDescs, tx_dma, n + Filling, tx_dma)
            /\ (Filling > 0 => tx_dma # output.fidx)
        BY <1>1, <2>1, <2>2 DEF Owns
      <3>2. SUFFICES ASSUME n = 0 PROVE FALSE BY <2>1
      <3>3. Filling > 0 BY <3>1, <3>2, <1>7, <2>2 DEF InSegment, TxIndex, Indexes
      <3>4. output.fidx = tx_dma
        BY <2>1, <2>2, <3>2, <3>3 DEF Owns, Advance, TxIndex, Indexes
      <3> QED BY <3>1, <3>3, <3>4
    <2>4. n - 1 + Filling <= TxDescs - tx_free_descs BY <2>1, <2>2, <1>7 DEF Owns
    <2>5. tx_dma' = Advance(TxDescs, Oldest, TxDescs - tx_free_descs - (n - 1) - Filling)
      BY <1>1, <1>7, <1>8, <2>1, <2>2, <2>3 DEF Owns, Advance, Succ, TxIndex, Indexes
    <2>6. Filling > 0 => output.fidx = Advance(TxDescs, tx_dma', n - 1)
      BY <1>1, <1>7, <2>1, <2>2, <2>3 DEF Owns, Advance, Succ, TxIndex, Indexes
    <2>7. ASSUME NEW i \in TxIndex
          PROVE  ptdesc'[i].own <=> ( /\ InSegment(TxDescs, tx_dma', n - 1 + Filling, i)
                                      /\ Filling > 0 => i # output.fidx )
      <3>1. ptdesc[i].own <=> ( /\ InSegment(TxDescs, tx_dma, n + Filling, i)
                                /\ Filling > 0 => i # output.fidx )
        BY <2>1 DEF Owns
      <3>2. n + Filling \in 1 .. TxDescs /\ n + Filling - 1 = n - 1 + Filling
        BY <1>7, <2>1, <2>2, <2>3 DEF Owns
      <3>3. InSegment(TxDescs, tx_dma', n - 1 + Filling, i)
              <=> InSegment(TxDescs, tx_dma, n + Filling, i) /\ i # tx_dma
        <4>1. PICK k \in 1 .. TxDescs : k = n + Filling BY <3>2
        <4>2. InSegment(TxDescs, Succ(TxDescs, tx_dma), k - 1, i)
                <=> InSegment(TxDescs, tx_dma, k, i) /\ i # tx_dma
          BY <2>2, SegmentTail
        <4>3. k - 1 = n - 1 + Filling BY <1>7, <2>1, <4>1
        <4>4. tx_dma' = Succ(TxDescs, tx_dma) BY <1>1
        <4> QED BY <4>1, <4>2, <4>3, <4>4
      <3> QED BY <1>3, <3>1, <3>3
    <2>8. Owns(n - 1)' BY <1>1, <1>6, <2>4, <2>5, <2>6, <2>7 DEF Owns
    <2> QED BY <1>1, <1>6, <2>3, <2>8 DEF RingInOrder
  <1>10. \A i : (Used(i)' <=> Used(i)) /\ Age(i)' = Age(i) BY <1>1, <1>6 DEF Used, Age
  <1>11. EntriesFollow' BY <1>1, <1>3, <1>10 DEF EntriesFollow, EntryFollows
  <1>12. RefsCounted'
    <2>1. \A q : Entries(q)' = Entries(q) BY <1>1, <1>10 DEF Entries
    <2>2. \A q : RingRefs(q)' = RingRefs(q) /\ OutputRefs(q)' = OutputRefs(q)
      BY <1>1, <2>1, EntriesKept DEF OutputRefs
    <2> QED BY <1>1, <2>2 DEF RefsCounted
  <1> QED BY <1>4, <1>5, <1>9, <1>11, <1>12

(* The chain is given to the DMA with its first descriptor. *)
LEMMA GiveInv ==
    ASSUME TxInv, Give
    PROVE  TxInv'
  <1>1. /\ output.pc = "give" /\ output' = [output EXCEPT !.pc = "poll"]
        /\ ptdesc' = [ptdesc EXCEPT ![output.fidx].own = TRUE]
        /\ UNCHANGED <<txpbufs, tx_free_descs, tx_fill_idx, tx_reclaim_idx, cleanup,
                       ridx, lock, count, tx_dma, tx_suspended, tx_stat, tx_ints,
                       TxCleanSem>>
    BY DEF Give, mac, irqs
  <1> USE DEF TxInv, count
  <1>2. ptdesc' \in [TxIndex -> Desc] BY <1>1 DEF TxTypeOK, Desc
  <1>3. \A i \in TxIndex : /\ ptdesc'[i].own <=> (ptdesc[i].own \/ i = output.fidx)
                           /\ ptdesc'[i].packet = ptdesc[i].packet
    BY <1>1 DEF TxTypeOK, Desc, Call
  <1>4. TxTypeOK' BY <1>1, <1>2 DEF TxTypeOK, Call
  <1>5. output'.pc = "poll" BY <1>1 DEF TxTypeOK, Call
  <1>6. OutputInv' BY <1>1, <1>5 DEF OutputInv
  <1>7. UNCHANGED <<Oldest, FillIdx>> /\ Filling' = 0
    BY <1>1, <1>5 DEF Oldest, Filling, FillIdx
  <1>8. Filling \in 1 .. TxDescs
    BY <1>1, PacketsAssumption DEF Filling, TxTypeOK, Call, OutputInv, Packet
  <1>9. RingInOrder'
    <2>1. PICK n \in 0 .. TxDescs : Owns(n) BY DEF RingInOrder
    <2>2. tx_dma \in TxIndex /\ tx_free_descs \in 0 .. TxDescs BY DEF TxTypeOK
    <2>3. n + Filling \in 0 .. TxDescs - tx_free_descs BY <1>8, <2>1, <2>2 DEF Owns
    <2>4. ASSUME NEW i \in TxIndex
          PROVE  ptdesc'[i].own <=> InSegment(TxDescs, tx_dma, n + Filling, i)
      <3>0. Filling > 0 BY <1>8
      <3>1. ptdesc[i].own
              <=> InSegment(TxDescs, tx_dma, n + Filling, i) /\ i # output.fidx
        BY <2>1, <3>0 DEF Owns
      <3>2. output.fidx = Advance(TxDescs, tx_dma, n) BY <2>1, <3>0 DEF Owns
      <3>3. i = output.fidx => InSegment(TxDescs, tx_dma, n + Filling, i)
        BY <1>8, <2>1, <2>2, <2>3, <3>2 DEF Advance, InSegment, TxIndex, Indexes
      <3> QED BY <1>3, <3>1, <3>3 DEF InSegment
    <2>5. PICK m \in 0 .. TxDescs : m = n + Filling BY <2>2, <2>3
    <2>6. Owns(m)'
      BY <1>1, <1>7, <1>8, <2>1, <2>2, <2>3, <2>4, <2>5 DEF Owns
    <2> QED BY <1>1, <1>7, <2>6 DEF RingInOrder
  <1>10. \A i : (Used(i)' <=> Used(i)) /\ Age(i)' = Age(i) BY <1>1, <1>7 DEF Used, Age
  <1>11. EntriesFollow' BY <1>1, <1>3, <1>10 DEF EntriesFollow, EntryFollows
  <1>12. RefsCounted'
    <2>1. \A q : Entries(q)' = Entries(q) BY <1>1, <1>10 DEF Entries
    <2>2. \A q : RingRefs(q)' = RingRefs(q) /\ OutputRefs(q)' = OutputRefs(q)
      BY <1>1, <1>5, <2>1, EntriesKept DEF OutputRefs
    <2> QED BY <1>1, <2>2 DEF RefsCounted
  <1> QED BY <1>4, <1>6, <1>9, <1>11, <1>12

(* One descriptor more is filled: the place behind the used ones. *)
LEMMA FillInv ==
    ASSUME TxInv, Fill
    PROVE  TxInv'
  <1> USE DEF TxInv
  <1>0. PICK i, q : i = output.idx /\ q = output.packet OBVIOUS
  <1> USE <1>0
  <1>1. /\ output \in Call /\ output.pc = "fill" /\ i \in TxIndex /\ q \in Packet
        /\ output.frag \in 0 .. Frags[q] - 1 /\ Frags[q] \in 1 .. TxDescs
        /\ lock = "output" /\ cleanup # "reclaim"
    BY PacketsAssumption DEF Fill, TxTypeOK, Call, OutputInv, Packet
  <1>2. /\ tx_free_descs \in Frags[q] - output.frag .. TxDescs
        /\ tx_free_descs' = tx_free_descs - 1 /\ tx_free_descs > 0
    BY <1>1 DEF Fill, TxTypeOK, OutputInv
  <1>3. UNCHANGED <<tx_reclaim_idx, cleanup, ridx, lock, sender, tx_dma, tx_suspended,
                    tx_stat, tx_ints, TxCleanSem, Oldest>>
    BY DEF Fill, mac, irqs, Oldest
  <1>4. output.fidx \in TxIndex /\ i = Advance(TxDescs, output.fidx, output.frag)
    BY <1>1 DEF OutputInv, Call
  <1>5. i = output.fidx <=> output.frag = 0
    BY <1>1, <1>4 DEF Advance, TxIndex, Indexes
  <1>6. i = Advance(TxDescs, Oldest, TxDescs - tx_free_descs) /\ Oldest \in TxIndex
    BY <1>1 DEF RingInOrder, FillIdx, Oldest, TxTypeOK
  <1>7. Filling = output.frag BY <1>1 DEF Filling
  <1>8. /\ Filling' = output.frag + 1 /\ FillIdx' = Succ(TxDescs, i)
        /\ output'.fidx = output.fidx /\ output'.packet = q
        /\ output'.pcopy = output.pcopy
    <2>1. CASE LastFrag
      <3>1. output' = [output EXCEPT !.pc = "give"] /\ tx_fill_idx' = Succ(TxDescs, i)
        BY <2>1 DEF Fill
      <3> QED BY <1>1, <2>1, <3>1 DEF LastFrag, Filling, FillIdx, Call
    <2>2. CASE ~LastFrag
      <3>1. output' = [output EXCEPT !.frag = @ + 1, !.idx = Succ(TxDescs, i)]
        BY <2>2 DEF Fill
      <3> QED BY <1>1, <3>1 DEF Filling, FillIdx, Call
    <2> QED BY <2>1, <2>2
  <1>9. /\ output' \in Call /\ tx_fill_idx' \in TxIndex
        /\ IF LastFrag THEN output'.pc = "give" /\ tx_fill_idx' = Succ(TxDescs, i)
           ELSE /\ output'.pc = "fill" /\ output'.frag = output.frag + 1
                /\ output'.idx = Succ(TxDescs, i)
    <2>0. Succ(TxDescs, i) \in TxIndex BY <1>1, SuccType
    <2>1. CASE LastFrag
      <3>1. output' = [output EXCEPT !.pc = "give"] /\ tx_fill_idx' = Succ(TxDescs, i)
        BY <2>1 DEF Fill
      <3> QED BY <1>1, <2>0, <2>1, <3>1 DEF Call
    <2>2. CASE ~LastFrag
      <3>1. /\ output' = [output EXCEPT !.frag = @ + 1, !.idx = Succ(TxDescs, i)]
            /\ tx_fill_idx' = tx_fill_idx
        BY <2>2 DEF Fill
      <3>2. output.frag + 1 \in 0 .. TxDescs - 1 BY <1>1, <2>2 DEF LastFrag
      <3> QED BY <1>1, <2>0, <2>2, <3>1, <3>2 DEF Call, TxTypeOK
    <2> QED BY <2>1, <2>2
  <1>10. /\ ptdesc' \in [TxIndex -> Desc]
         /\ \A j \in TxIndex :
              /\ ptdesc'[j].own <=> (ptdesc[j].own \/ (j = i /\ output.frag > 0))
              /\ ptdesc'[j].packet = IF j = i THEN q ELSE ptdesc[j].packet
    <2>1. ptdesc \in [TxIndex -> Desc] BY DEF TxTypeOK
    <2>2. ptdesc' = [ptdesc EXCEPT ![i] =
            [own |-> ptdesc[i].own \/ ~(i = output.fidx),
             fs |-> ptdesc[i].fs \/ i = output.fidx,
             ls |-> ptdesc[i].ls \/ LastFrag,
             packet |-> q, frag |-> output.frag + 1]]
      BY <1>1, <2>1 DEF Fill, Desc
    <2>3. output.frag + 1 \in 0 .. TxDescs BY <1>1
    <2>4. ptdesc'[i] \in Desc BY <1>1, <2>1, <2>2, <2>3 DEF Desc
    <2>5. ptdesc' \in [TxIndex -> Desc] BY <2>1, <2>2, <2>4
    <2>6. \A j \in TxIndex : ptdesc'[j].packet = IF j = i THEN q ELSE ptdesc[j].packet
      BY <1>1, <2>1, <2>2
    <2>7. ptdesc'[i].own <=> ptdesc[i].own \/ i # output.fidx
      BY <1>1, <2>1, <2>2
    <2>8. \A j \in TxIndex \ {i} : ptdesc'[j] = ptdesc[j] BY <1>1, <2>1, <2>2
    <2>9. output.frag > 0 <=> i # output.fidx BY <1>1, <1>5
    <2> QED BY <2>5, <2>6, <2>7, <2>8, <2>9
  <1>11. txpbufs' = [txpbufs EXCEPT ![i] = IF LastFrag THEN q ELSE NoPacket]
    BY DEF Fill, Saved
  <1>12. /\ refs' \in [Packet -> Nat]
         /\ \A s \in Packet :
              refs'[s] = IF s = q /\ output.frag = 0 /\ ~output.pcopy
                         THEN refs[s] + 1 ELSE refs[s]
    BY <1>1, <1>5 DEF Fill, TxTypeOK
  <1>13. TxTypeOK' BY <1>1, <1>2, <1>3, <1>9, <1>10, <1>11, <1>12 DEF TxTypeOK
  <1>14. OutputInv'
    <2>1. Succ(TxDescs, i) = Advance(TxDescs, output.fidx, output.frag + 1)
      BY <1>1, <1>4 DEF Succ, Advance, TxIndex, Indexes
    <2>2. CASE LastFrag
      BY <1>1, <1>3, <1>8, <1>9, <2>1, <2>2 DEF OutputInv, LastFrag
    <2>3. CASE ~LastFrag
      BY <1>1, <1>2, <1>3, <1>8, <1>9, <2>1, <2>3 DEF OutputInv, LastFrag
    <2> QED BY <2>2, <2>3
  <1>15. RingInOrder'
    <2>1. PICK n \in 0 .. TxDescs : Owns(n) BY DEF RingInOrder
    <2>2. tx_dma \in TxIndex BY DEF TxTypeOK
    <2>3. n + output.frag \in 0 .. TxDescs - tx_free_descs BY <1>1, <1>2, <1>7, <2>1 DEF Owns
    <2>4. i = Advance(TxDescs, tx_dma, n + output.frag)
      BY <1>1, <1>2, <1>6, <1>7, <2>1, <2>2, <2>3 DEF Owns, Advance, TxIndex, Indexes
    <2>5. output.fidx = Advance(TxDescs, tx_dma, n)
      BY <1>1, <1>5, <1>7, <2>1, <2>4 DEF Owns
    <2>6. ~InSegment(TxDescs, tx_dma, n + output.frag, i)
      BY <1>1, <1>2, <2>2, <2>3, <2>4 DEF InSegment, Advance, TxIndex, Indexes
    <2>7. ASSUME NEW j \in TxIndex
          PROVE  ptdesc'[j].own
                   <=> InSegment(TxDescs, tx_dma, n + output.frag + 1, j) /\ j # output.fidx
      <3>1. InSegment(TxDescs, tx_dma, n + output.frag + 1, j)
              <=> InSegment(TxDescs, tx_dma, n + output.frag, j) \/ j = i
        BY <1>1, <1>2, <2>2, <2>3, <2>4
        DEF InSegment, Advance, TxIndex, Indexes
      <3>2. CASE output.frag = 0
        <4>1. ptdesc[j].own <=> InSegment(TxDescs, tx_dma, n, j)
          BY <1>7, <2>1, <3>2 DEF Owns
        <4>2. n + output.frag = n BY <2>1, <3>2
        <4>3. i = output.fidx BY <1>5, <3>2
        <4> QED BY <1>10, <2>6, <3>1, <3>2, <4>1, <4>2, <4>3
      <3>3. CASE output.frag > 0
        <4>1. ptdesc[j].own
                <=> InSegment(TxDescs, tx_dma, n + output.frag, j) /\ j # output.fidx
          BY <1>7, <2>1, <3>3 DEF Owns
        <4>2. i # output.fidx BY <1>5, <3>3
        <4> QED BY <1>10, <3>1, <3>3, <4>1, <4>2
      <3> QED BY <1>1, <3>2, <3>3
    <2>8. Owns(n)'
      <3>1. n + (output.frag + 1) <= TxDescs - tx_free_descs'
        BY <1>1, <1>2, <2>1, <2>3
      <3>2. tx_dma = Advance(TxDescs, Oldest, TxDescs - tx_free_descs' - n - (output.frag + 1))
        BY <1>1, <1>2, <1>7, <2>1 DEF Owns
      <3>3. output.frag + 1 > 0 /\ n + (output.frag + 1) = n + output.frag + 1
        BY <1>1, <2>1
      <3> QED BY <1>3, <1>8, <2>5, <2>7, <3>1, <3>2, <3>3 DEF Owns
    <2>9. Succ(TxDescs, i) = Advance(TxDescs, Oldest, TxDescs - tx_free_descs')
      BY <1>1, <1>2, <1>6 DEF Succ, Advance, TxIndex, Indexes
    <2> QED BY <1>3, <1>8, <2>1, <2>8, <2>9 DEF RingInOrder
  <1>16. ~Used(i) /\ \A j \in TxIndex : /\ Used(j)' <=> Used(j) \/ j = i
                                        /\ Age(j)' = Age(j)
                                        /\ Used(j) => Age(j) <= Age(i)
    BY <1>1, <1>2, <1>3, <1>6 DEF Used, Age, InSegment, Advance, TxIndex, Indexes
  <1>17. EntriesFollow'
    <2> SUFFICES ASSUME NEW j \in TxIndex, Used(j)'
                 PROVE  ptdesc'[j].packet \in Packet /\ EntryFollows(j)'
      BY DEF EntriesFollow
    <2>1. CASE j = i
      <3>1. ptdesc'[j].packet = q BY <1>10, <2>1
      <3>2. CASE LastFrag
        <4>1. txpbufs'[i] = q BY <1>1, <1>11, <3>2 DEF TxTypeOK
        <4>2. Age(i)' <= Age(i)' BY <1>1, <1>3, <1>6 DEF Age, TxIndex, Indexes
        <4> QED BY <1>1, <1>16, <2>1, <3>1, <4>1, <4>2 DEF EntryFollows
      <3>3. CASE ~LastFrag BY <1>1, <1>8, <1>9, <3>1, <3>3 DEF EntryFollows
      <3> QED BY <3>2, <3>3
    <2>2. CASE j # i
      <3>1. /\ Used(j) /\ ptdesc'[j].packet = ptdesc[j].packet
            /\ ptdesc[j].packet \in Packet /\ EntryFollows(j)
        BY <1>10, <1>16, <2>2 DEF EntriesFollow
      <3>2. CASE \E k \in TxIndex :
                   Used(k) /\ Age(j) <= Age(k) /\ txpbufs[k] = ptdesc[j].packet
        <4>1. PICK k \in TxIndex :
                Used(k) /\ Age(j) <= Age(k) /\ txpbufs[k] = ptdesc[j].packet
          BY <3>2
        <4>2. k # i /\ txpbufs'[k] = txpbufs[k] BY <1>11, <1>16, <4>1 DEF TxTypeOK
        <4> QED BY <1>16, <3>1, <4>1, <4>2 DEF EntryFollows
      <3>3. CASE output.frag > 0 /\ q = ptdesc[j].packet
        <4>1. CASE LastFrag
          <5>1. txpbufs'[i] = q BY <1>1, <1>11, <4>1 DEF TxTypeOK
          <5>2. Used(i)' /\ Age(j)' <= Age(i)' BY <1>1, <1>16, <3>1
          <5> QED BY <1>1, <3>1, <3>3, <5>1, <5>2 DEF EntryFollows
        <4>2. CASE ~LastFrag
          BY <1>1, <1>8, <1>9, <3>1, <3>3, <4>2 DEF EntryFollows
        <4> QED BY <4>1, <4>2
      <3> QED BY <3>1, <3>2, <3>3 DEF EntryFollows
    <2> QED BY <2>1, <2>2
  <1>18. \A s \in Packet : RingRefs(s)' = RingRefs(s) + IF LastFrag /\ s = q THEN 1 ELSE 0
    <2> SUFFICES ASSUME NEW s \in Packet
                 PROVE  RingRefs(s)' = RingRefs(s) + IF LastFrag /\ s = q THEN 1 ELSE 0
      OBVIOUS
    <2>1. s # NoPacket BY PacketsAssumption DEF Packet
    <2>2. CASE LastFrag /\ s = q
      <3>1. i \notin Entries(s) BY <1>16 DEF Entries
      <3>2. Entries(s)' = Entries(s) \cup {i}
        BY <1>1, <1>11, <1>16, <2>2 DEF Entries, TxTypeOK
      <3> QED BY <1>1, <2>2, <3>1, <3>2, EntryMade
    <2>3. CASE ~(LastFrag /\ s = q)
      <3>1. Entries(s)' = Entries(s)
        BY <1>1, <1>11, <1>16, <2>1, <2>3 DEF Entries, TxTypeOK
      <3> QED BY <2>3, <3>1, EntriesKept, RingRefsType
    <2> QED BY <2>2, <2>3
  <1>19. RefsCounted'
    <2> SUFFICES ASSUME NEW s \in Packet
                 PROVE  refs'[s] = (IF s \in sender' THEN 1 ELSE 0)
                                     + OutputRefs(s)' + RingRefs(s)'
      BY DEF RefsCounted
    <2>1. refs[s] = (IF s \in sender THEN 1 ELSE 0) + OutputRefs(s) + RingRefs(s)
      BY DEF RefsCounted
    <2>2. OutputRefs(s) = IF s = q /\ (output.pcopy \/ output.frag > 0) THEN 1 ELSE 0
      BY <1>1 DEF OutputRefs, Call
    <2>3. OutputRefs(s)' = IF s = q /\ ~LastFrag THEN 1 ELSE 0
      BY <1>1, <1>8, <1>9 DEF OutputRefs, Call
    <2>4. RingRefs(s) \in Nat BY RingRefsType
    <2> QED BY <1>1, <1>3, <1>12, <1>18, <2>1, <2>2, <2>3, <2>4
  <1> QED BY <1>13, <1>14, <1>15, <1>17, <1>19

(* The oldest used descriptor is taken back, with its entry. *)
LEMMA ReclaimInv ==
    ASSUME TxInv, Reclaim
    PROVE  TxInv'
  <1> USE DEF TxInv
  <1>1. /\ cleanup = "reclaim" /\ tx_free_descs < TxDescs /\ ~ptdesc[ridx].own
        /\ tx_free_descs' = tx_free_descs + 1 /\ ridx' = Succ(TxDescs, ridx)
        /\ UNCHANGED <<txpbufs, tx_fill_idx, tx_reclaim_idx, output, cleanup, lock,
                       sender, tx_dma, tx_suspended, tx_stat, tx_ints, TxCleanSem>>
    BY DEF Reclaim, Reclaimable, mac, irqs
  <1>2. ptdesc' = [ptdesc EXCEPT ![ridx].fs = FALSE, ![ridx].ls = FALSE]
    BY DEF Reclaim, FlagsReset
  <1>3. /\ ridx \in TxIndex /\ tx_dma \in TxIndex /\ tx_free_descs \in 0 .. TxDescs
        /\ ptdesc \in [TxIndex -> Desc] /\ txpbufs \in [TxIndex -> Packet \cup {NoPacket}]
        /\ refs \in [Packet -> Nat]
    BY DEF TxTypeOK
  <1>4. /\ ptdesc' \in [TxIndex -> Desc]
        /\ \A j \in TxIndex : /\ ptdesc'[j].own = ptdesc[j].own
                              /\ ptdesc'[j].packet = ptdesc[j].packet
    BY <1>2, <1>3 DEF Desc
  <1>5. Oldest = ridx /\ Oldest' = Succ(TxDescs, ridx) BY <1>1 DEF Oldest
  <1>6. Filling = 0 /\ Filling' = 0 /\ UNCHANGED FillIdx
    BY <1>1 DEF Filling, FillIdx, OutputInv
  <1>7. OutputInv'
    <2>1. output.pc = "lock" => Room'
      <3>1. output.pc = "lock" => Frags[output.packet] \in Nat
        BY PacketsAssumption DEF OutputInv, Packet
      <3> QED BY <1>1, <1>3, <3>1 DEF OutputInv, Room
    <2>2. output.pc # "fill" BY <1>1 DEF OutputInv
    <2> QED BY <1>1, <2>1, <2>2 DEF OutputInv
  <1>8. RingInOrder'
    <2>1. PICK n \in 0 .. TxDescs : Owns(n) BY DEF RingInOrder
    <2>2. n <= TxDescs - tx_free_descs
          /\ tx_dma = Advance(TxDescs, ridx, TxDescs - tx_free_descs - n)
      BY <1>3, <1>5, <1>6, <2>1 DEF Owns
    <2>3. \A j \in TxIndex : ptdesc[j].own <=> InSegment(TxDescs, tx_dma, n, j)
      BY <1>6, <2>1 DEF Owns
    <2>4. n < TxDescs - tx_free_descs
      <3> SUFFICES ASSUME n = TxDescs - tx_free_descs PROVE FALSE BY <1>3, <2>1, <2>2
      <3>1. tx_dma = ridx BY <1>1, <1>3, <2>2 DEF Advance, TxIndex, Indexes
      <3>2. InSegment(TxDescs, tx_dma, n, ridx)
        BY <1>1, <1>3, <3>1 DEF InSegment, TxIndex, Indexes
      <3> QED BY <1>1, <1>3, <2>3, <3>2
    <2>5. tx_dma = Advance(TxDescs, Oldest', TxDescs - tx_free_descs' - n)
      BY <1>1, <1>3, <1>5, <2>1, <2>2, <2>4 DEF Advance, Succ, TxIndex, Indexes
    <2>6. n + 0 <= TxDescs - tx_free_descs' BY <1>1, <1>3, <2>1, <2>4
    <2>7. n + 0 = n /\ TxDescs - tx_free_descs' - n - 0 = TxDescs - tx_free_descs' - n
      BY <1>1, <1>3, <2>1
    <2>8. Owns(n)' BY <1>1, <1>4, <1>6, <2>3, <2>5, <2>6, <2>7 DEF Owns
    <2>9. FillIdx = Advance(TxDescs, ridx, TxDescs - tx_free_descs)
      BY <1>5 DEF RingInOrder
    <2>10. FillIdx' = Advance(TxDescs, Oldest', TxDescs - tx_free_descs')
      BY <1>1, <1>3, <1>5, <1>6, <2>9 DEF Advance, Succ, TxIndex, Indexes
    <2> QED BY <2>1, <2>8, <2>10 DEF RingInOrder
  <1>9. Used(ridx) /\ \A j \in TxIndex : Used(j)' <=> Used(j) /\ j # ridx
    BY <1>1, <1>3, <1>5 DEF Used, InSegment, Succ, TxIndex, Indexes
  <1>10. Age(ridx) = 0 /\ \A j \in TxIndex : j # ridx => /\ Age(j) > 0
                                                        /\ Age(j)' = Age(j) - 1
                                                        /\ Age(j) \in Nat
    BY <1>1, <1>3, <1>5 DEF Age, Succ, TxIndex, Indexes
  <1>11. EntriesFollow'
    <2> SUFFICES ASSUME NEW j \in TxIndex, Used(j)'
                 PROVE  ptdesc'[j].packet \in Packet /\ EntryFollows(j)'
      BY DEF EntriesFollow
    <2>1. j # ridx /\ ptdesc[j].packet \in Packet /\ EntryFollows(j)
      BY <1>9 DEF EntriesFollow
    <2>2. output.pc # "fill" BY <1>1 DEF OutputInv
    <2>3. PICK k \in TxIndex :
            Used(k) /\ Age(j) <= Age(k) /\ txpbufs[k] = ptdesc[j].packet
      BY <2>1, <2>2 DEF EntryFollows
    <2>4. k # ridx BY <1>10, <2>1, <2>3
    <2>5. Used(k)' /\ Age(j)' <= Age(k)' BY <1>9, <1>10, <2>1, <2>3, <2>4
    <2> QED BY <1>1, <1>4, <2>1, <2>3, <2>5 DEF EntryFollows
  <1>12. \A s \in Packet :
           RingRefs(s)' = RingRefs(s) - IF s = txpbufs[ridx] THEN 1 ELSE 0
    <2> SUFFICES ASSUME NEW s \in Packet
                 PROVE  RingRefs(s)' = RingRefs(s) - IF s = txpbufs[ridx] THEN 1 ELSE 0
      OBVIOUS
    <2>1. CASE s = txpbufs[ridx]
      <3>1. ridx \in Entries(s) BY <1>3, <1>9, <2>1 DEF Entries
      <3>2. Entries(s)' = Entries(s) \ {ridx} BY <1>1, <1>9 DEF Entries
      <3> QED BY <2>1, <3>1, <3>2, EntryReclaimed
    <2>2. CASE s # txpbufs[ridx]
      <3>1. Entries(s)' = Entries(s) BY <1>1, <1>9, <2>2 DEF Entries
      <3> QED BY <2>2, <3>1, EntriesKept, RingRefsType
    <2> QED BY <2>1, <2>2
  <1>13. \A s \in Packet :
           refs'[s] = refs[s] - IF s = txpbufs[ridx] THEN 1 ELSE 0
    <2>1. NoPacket \notin Packet BY PacketsAssumption DEF Packet
    <2> QED BY <1>3, <2>1 DEF Reclaim
  <1>14. RefsCounted'
    <2>1. \A s : OutputRefs(s)' = OutputRefs(s) /\ OutputRefs(s) \in Nat
      BY <1>1 DEF OutputRefs
    <2> SUFFICES ASSUME NEW s \in Packet
                 PROVE  refs'[s] = (IF s \in sender' THEN 1 ELSE 0)
                                     + OutputRefs(s)' + RingRefs(s)'
      BY DEF RefsCounted
    <2>2. refs[s] = (IF s \in sender THEN 1 ELSE 0) + OutputRefs(s) + RingRefs(s)
      BY DEF RefsCounted
    <2>3. RingRefs(s) \in Nat BY RingRefsType
    <2> QED BY <1>1, <1>12, <1>13, <2>1, <2>2, <2>3
  <1>15. refs' \in [Packet -> Nat]
    <2>1. \A s \in Packet : RingRefs(s)' \in Nat BY RingRefsType, <1>12, <1>9, EntriesFinite DEF RingRefs
    <2>2. \A s \in Packet : OutputRefs(s)' \in Nat BY DEF OutputRefs
    <2>3. \A s \in Packet : refs'[s] \in Nat BY <1>14, <2>1, <2>2 DEF RefsCounted
    <2>4. refs' = [s \in Packet |-> refs'[s]] BY <1>3 DEF Reclaim
    <2> QED BY <2>3, <2>4
  <1>16. TxTypeOK' BY <1>1, <1>3, <1>4, <1>15, SuccType DEF TxTypeOK
  <1> QED BY <1>7, <1>8, <1>11, <1>14, <1>16

-----------------------------------------------------------------------------
(* Every reachable state satisfies the invariant, for any number of        *)
(* descriptors: it and the properties of the run that follow from it.      *)
THEOREM TxInvariant == TxSpec => []TxInv
  <1>1. TxInit => TxInv BY TxInitInv
  <1>2. TxInv /\ [TxNext]_txVars => TxInv'
    <2> SUFFICES ASSUME TxInv, [TxNext]_txVars PROVE TxInv' OBVIOUS
    <2>1. CASE OutputStep
      BY <2>1, OutputQuiet, GiveInv, FillInv DEF OutputStep
    <2>2. CASE CleanupTask BY <2>2, CleanupQuiet, ReclaimInv DEF CleanupTask
    <2>3. CASE TxDma \/ Received \/ TxIsr
      BY <2>3, SendInv, DeviceQuiet DEF TxDma
    <2>4. ASSUME NEW q \in Packets, Make(q) \/ Drop(q) \/ Output(q)
          PROVE  TxInv'
      BY <2>4, MakeInv, DropInv, OutputCallInv
    <2>5. CASE UNCHANGED txVars
      <3>1. UNCHANGED <<ptdesc, txpbufs, tx_free_descs, tx_fill_idx, tx_reclaim_idx,
                        output, cleanup, ridx, lock, refs, sender, tx_dma,
                        tx_suspended, tx_stat, tx_ints, TxCleanSem>>
        BY <2>5 DEF txVars, slots, count, mac, irqs
      <3>2. TxTypeOK' BY <3>1 DEF TxInv, TxTypeOK
      <3>3. OutputInv' BY <3>1 DEF TxInv, OutputInv, Room
      <3>4. UNCHANGED <<Oldest, Filling, FillIdx>> BY <3>1 DEF Oldest, Filling, FillIdx
      <3>5. \A q : UNCHANGED OutputRefs(q) BY <3>1 DEF OutputRefs
      <3> QED BY <3>1, <3>2, <3>3, <3>4, <3>5, QuietInv DEF count
    <2> QED BY <2>1, <2>2, <2>3, <2>4, <2>5 DEF TxNext
  <1> QED BY <1>1, <1>2, PTL DEF TxSpec

(* Of the packets, each reference has one owner: none is freed twice, and  *)
(* none is left allocated for nobody.                                      *)
THEOREM PacketsCounted == TxSpec => []RefsCounted
  <1>1. TxInv => RefsCounted BY DEF TxInv
  <1> QED BY <1>1, TxInvariant, PTL

(* The DMA reads no packet that was freed: what it owns is used, and the   *)
(* entry behind it, or the call that is to make it, holds a reference.     *)
THEOREM SentLive == TxSpec => []SentFromLivePackets
  <1>1. TxInv => SentFromLivePackets
    <2> SUFFICES ASSUME TxInv, NEW i \in TxIndex, ptdesc[i].own
                 PROVE  refs[ptdesc[i].packet] > 0
      BY DEF SentFromLivePackets
    <2> DEFINE q == ptdesc[i].packet
    <2>1. Filling \in 0 .. TxDescs /\ Oldest \in TxIndex /\ tx_dma \in TxIndex
          /\ tx_free_descs \in 0 .. TxDescs
      BY PacketsAssumption
      DEF TxInv, TxTypeOK, Filling, Oldest, OutputInv, Call, Packet
    <2>2. Used(i)
      <3>1. PICK n \in 0 .. TxDescs : Owns(n) BY DEF TxInv, RingInOrder
      <3>2. InSegment(TxDescs, tx_dma, n + Filling, i) BY <3>1 DEF Owns
      <3> QED BY <2>1, <3>1, <3>2 DEF Owns, Used, InSegment, Advance, TxIndex, Indexes
    <2>3. q \in Packet /\ EntryFollows(i) BY <2>2 DEF TxInv, EntriesFollow
    <2>4. refs[q] = (IF q \in sender THEN 1 ELSE 0) + OutputRefs(q) + RingRefs(q)
      BY <2>3 DEF TxInv, RefsCounted
    <2>5. OutputRefs(q) \in {0, 1} BY DEF OutputRefs
    <2>6. RingRefs(q) \in Nat BY RingRefsType
    <2>7. CASE output.pc = "fill" /\ output.frag > 0 /\ output.packet = q
      <3>1. OutputRefs(q) = 1 BY <2>7 DEF OutputRefs
      <3> QED BY <2>4, <2>6, <3>1
    <2>8. CASE \E j \in TxIndex :
                 Used(j) /\ Age(i) <= Age(j) /\ txpbufs[j] = q
      <3>1. Entries(q) # {} BY <2>8 DEF Entries
      <3>2. IsFiniteSet(Entries(q)) BY EntriesFinite DEF Entries
      <3>3. RingRefs(q) # 0
        BY <3>1, <3>2, FS_EmptySet, RingRefsType
      <3> QED BY <2>4, <2>5, <2>6, <3>3
    <2> QED BY <2>3, <2>7, <2>8 DEF EntryFollows
  <1> QED BY <1>1, TxInvariant, PTL

-----------------------------------------------------------------------------
(* The ring implements the FIFO.  The chains it holds, in the order of the *)
(* places from where the DMA is: the n descriptors the DMA owns hold what  *)
(* is left of a frame, of which the wire has the rest, and whole ones; the *)
(* call under way has filled its chain up to where it is; no flag is left  *)
(* in a free descriptor.                                                   *)
HoldsPbuf(d) ==
    /\ d.packet \in Packet /\ d.frag \in 1 .. Frags[d.packet]
    /\ (d.fs <=> d.frag = 1) /\ (d.ls <=> d.frag = Frags[d.packet])

Follows(d, e) ==
    IF d.ls THEN e.frag = 1 ELSE e.packet = d.packet /\ e.frag = d.frag + 1

Pbufs(q, n) == [k \in 1 .. n |-> <<q, k>>]

Chained(n) ==
    /\ \A k \in 1 .. n + Filling : HoldsPbuf(DescAt(k))
    /\ \A k \in 2 .. n + Filling : Follows(DescAt(k - 1), DescAt(k))
    /\ \A k \in n + Filling + 1 .. n + Filling + tx_free_descs :
         ~DescAt(k).fs /\ ~DescAt(k).ls
    /\ n > 0 => DescAt(n).ls
    /\ \A k \in 1 .. Filling :
         DescAt(n + k).packet = output.packet /\ DescAt(n + k).frag = k
    /\ wire = IF n = 0 THEN << >> ELSE Pbufs(DescAt(1).packet, DescAt(1).frag - 1)

ChainsInv == \E n \in 0 .. TxDescs : IsGiven(n) /\ Owns(n) /\ Chained(n)

-----------------------------------------------------------------------------
(* EndsIn: that there is a function of this recursion, by induction up to  *)
(* the number of descriptors.                                              *)
LessNat == {pair \in Nat \X Nat : pair[1] < pair[2]}

LEMMA Least ==
    ASSUME NEW S \in SUBSET Nat, S # {}
    PROVE  \E n \in S : \A k \in S : n <= k
  <1>1. \A x, y \in Nat : <<y, x>> \in LessNat <=> y < x BY DEF LessNat
  <1>2. IsWellFoundedOn(LessNat, Nat)
    BY NatLessThanWellFounded, Zenon DEF LessNat, OpToRel
  <1>3. PICK n \in S : \A k \in S : ~(<<k, n>> \in LessNat) BY <1>2, WFMin
  <1>4. \A k \in S : ~(k < n) BY <1>1, <1>3
  <1> QED BY <1>4

LEMMA Upwards ==
    ASSUME NEW n \in Nat, NEW S, 0 \in S, \A k \in 1 .. n : k - 1 \in S => k \in S
    PROVE  n \in S
  <1> SUFFICES ASSUME n \notin S PROVE FALSE OBVIOUS
  <1> DEFINE out == {k \in 0 .. n : k \notin S}
  <1>1. PICK k \in out : \A j \in out : k <= j
    <2>1. out \in SUBSET Nat /\ n \in out OBVIOUS
    <2> HIDE DEF out
    <2> QED BY <2>1, Least
  <1>2. k \in 1 .. n /\ k - 1 \in 0 .. n BY <1>1
  <1>3. k - 1 \in S BY <1>1, <1>2
  <1> QED BY <1>1, <1>2, <1>3

EndPacket(k) == IF DescAt(k).ls THEN <<DescAt(k).packet>> ELSE << >>

Held == Packet \cup {NoPacket}

LEMMA PlaceType ==
    ASSUME TxTypeOK, NEW k \in 1 .. TxDescs
    PROVE  Advance(TxDescs, tx_dma, k - 1) \in TxIndex /\ DescAt(k) \in Desc
  <1>1. Advance(TxDescs, tx_dma, k - 1) \in TxIndex
    BY DEF TxTypeOK, Advance, TxIndex, Indexes
  <1> QED BY <1>1 DEF TxTypeOK, DescAt

EndsStep(s, k) == IF DescAt(k).ls THEN Append(s, DescAt(k).packet) ELSE s

EndsRecursion ==
    /\ EndsIn \in [0 .. TxDescs -> Seq(Held)]
    /\ EndsIn[0] = << >>
    /\ \A k \in 1 .. TxDescs : EndsIn[k] = EndsStep(EndsIn[k - 1], k)

EndsKnown == TxTypeOK => EndsRecursion

LEMMA EndsAre == EndsKnown
  <1> SUFFICES ASSUME TxTypeOK PROVE EndsRecursion BY DEF EndsKnown
  <1>p. \A k \in 1 .. TxDescs : DescAt(k).packet \in Held BY PlaceType DEF Held, Desc
  <1> DEFINE Ends(f, m) == f = [k \in 0 .. m |-> IF k = 0 THEN << >>
                                                 ELSE EndsStep(f[k - 1], k)]
             S == {m \in 0 .. TxDescs : \E f \in [0 .. m -> Seq(Held)] : Ends(f, m)}
  <1>1. 0 \in S
    <2> DEFINE f == [k \in 0 .. 0 |-> << >>]
    <2>1. f \in [0 .. 0 -> Seq(Held)] /\ Ends(f, 0) /\ 0 \in 0 .. TxDescs
      BY EmptySeq
    <2> HIDE DEF f
    <2> QED BY <2>1
  <1>2. ASSUME NEW m \in 1 .. TxDescs, m - 1 \in S PROVE m \in S
    <2>1. PICK f \in [0 .. m - 1 -> Seq(Held)] : Ends(f, m - 1) BY <1>2
    <2>2. PICK s : s = EndsStep(f[m - 1], m) OBVIOUS
    <2>3. s \in Seq(Held)
      <3>1. f[m - 1] \in Seq(Held) /\ DescAt(m).packet \in Held BY <1>p, <2>1
      <3> QED BY <2>2, <3>1, AppendProperties DEF EndsStep
    <2> DEFINE g == [k \in 0 .. m |-> IF k = m THEN s ELSE f[k]]
    <2>4. \A k \in 0 .. m : k # m => k \in 0 .. m - 1 OBVIOUS
    <2>5. g \in [0 .. m -> Seq(Held)] BY <2>1, <2>3, <2>4
    <2>6. ASSUME NEW k \in 0 .. m
          PROVE  g[k] = IF k = 0 THEN << >> ELSE EndsStep(g[k - 1], k)
      <3>1. CASE k = m
        <4>1. g[k] = s /\ k - 1 \in 0 .. m - 1 /\ k # 0 /\ k - 1 # m BY <3>1
        <4>2. g[k - 1] = f[m - 1] BY <3>1, <4>1
        <4> QED BY <2>2, <3>1, <4>1, <4>2
      <3>2. CASE k # m
        <4>1. k \in 0 .. m - 1 /\ g[k] = f[k] BY <3>2, <2>4
        <4>2. f[k] = IF k = 0 THEN << >> ELSE EndsStep(f[k - 1], k) BY <2>1, <4>1
        <4>3. k # 0 => k - 1 \in 0 .. m /\ k - 1 # m BY <4>1
        <4>4. k # 0 => g[k - 1] = f[k - 1] BY <4>3
        <4> QED BY <4>1, <4>2, <4>4
      <3> QED BY <3>1, <3>2
    <2>7. Ends(g, m)
      <3> HIDE DEF g
      <3>1. g = [k \in 0 .. m |-> g[k]] BY <2>5
      <3> QED BY <2>6, <3>1
    <2> HIDE DEF g
    <2>8. m \in 0 .. TxDescs OBVIOUS
    <2> QED BY <2>5, <2>7, <2>8
  <1>3. TxDescs \in S
    <2> HIDE DEF S
    <2> QED BY <1>1, <1>2, Upwards
  <1>4. PICK f \in [0 .. TxDescs -> Seq(Held)] : Ends(f, TxDescs) BY <1>3
  <1>5. Ends(EndsIn, TxDescs)
    <2>1. EndsIn = CHOOSE h : h = [k \in 0 .. TxDescs |->
                     IF k = 0 THEN << >>
                     ELSE IF DescAt(k).ls THEN Append(h[k - 1], DescAt(k).packet)
                     ELSE h[k - 1]]
      BY DEF EndsIn
    <2> QED BY <1>4, <2>1 DEF EndsStep
  <1>6. \A k \in 0 .. TxDescs :
          EndsIn[k] = IF k = 0 THEN << >> ELSE EndsStep(EndsIn[k - 1], k)
    BY <1>5
  <1>7. \A k \in 1 .. TxDescs : EndsIn[k] = EndsStep(EndsIn[k - 1], k) BY <1>6
  <1>8. EndsIn[0] = << >> BY <1>6
  <1>9. ASSUME NEW k \in 0 .. TxDescs PROVE EndsIn[k] \in Seq(Held)
    <2> DEFINE T == {j \in 0 .. TxDescs : EndsIn[j] \in Seq(Held)}
    <2>1. 0 \in T
      <3>1. << >> \in Seq(Held) BY EmptySeq
      <3>2. 0 \in 0 .. TxDescs OBVIOUS
      <3> QED BY <1>8, <3>1, <3>2, Zenon
    <2>2. ASSUME NEW j \in 1 .. k, j - 1 \in T PROVE j \in T
      <3>1. j \in 1 .. TxDescs BY <2>2
      <3>2. PICK s, x : s = EndsIn[j - 1] /\ x = DescAt(j).packet OBVIOUS
      <3>3. s \in Seq(Held) /\ x \in Held BY <1>p, <2>2, <3>1, <3>2
      <3>4. EndsIn[j] = IF DescAt(j).ls THEN Append(s, x) ELSE s
        BY <1>7, <3>1, <3>2 DEF EndsStep
      <3>5. Append(s, x) \in Seq(Held) BY <3>3, AppendProperties
      <3>6. EndsIn[j] \in Seq(Held) BY <3>3, <3>4, <3>5, Zenon
      <3>7. j \in 0 .. TxDescs BY <3>1
      <3> QED BY <3>6, <3>7, Zenon
    <2> HIDE DEF T
    <2>3. k \in T BY <2>1, <2>2, Upwards
    <2> QED BY <2>3 DEF T
  <1>10. EndsIn \in [0 .. TxDescs -> Seq(Held)]
    <2>1. EndsIn = [k \in 0 .. TxDescs |-> EndsIn[k]] BY <1>5
    <2> QED BY <1>9, <2>1
  <1> QED BY <1>7, <1>8, <1>10 DEF EndsRecursion

LEMMA EndsAreNext == EndsKnown'
  BY EndsAre, PTL

(* The packets are the same if the descriptors are.                        *)
SameAt(k) == DescAt(k)'.ls = DescAt(k).ls /\ DescAt(k)'.packet = DescAt(k).packet

LEMMA EndsSame ==
    ASSUME TxTypeOK, TxTypeOK', NEW n \in 0 .. TxDescs, \A k \in 1 .. n : SameAt(k)
    PROVE  EndsIn'[n] = EndsIn[n]
  <1> DEFINE S == {k \in 0 .. n : EndsIn'[k] = EndsIn[k]}
  <1>0. EndsRecursion /\ EndsRecursion' BY EndsAre, EndsAreNext DEF EndsKnown
  <1>1. 0 \in S BY <1>0 DEF EndsRecursion
  <1>2. ASSUME NEW k \in 1 .. n, k - 1 \in S PROVE k \in S
    <2>1. k \in 1 .. TxDescs /\ k \in 0 .. n OBVIOUS
    <2>2. EndsIn[k] = IF DescAt(k).ls THEN Append(EndsIn[k - 1], DescAt(k).packet)
                      ELSE EndsIn[k - 1]
      BY <1>0, <2>1 DEF EndsRecursion, EndsStep
    <2>3. EndsIn'[k] = IF DescAt(k)'.ls THEN Append(EndsIn'[k - 1], DescAt(k)'.packet)
                       ELSE EndsIn'[k - 1]
      BY <1>0, <2>1 DEF EndsRecursion, EndsStep
    <2> QED BY <1>2, <2>1, <2>2, <2>3 DEF SameAt
  <1> HIDE DEF S
  <1>3. n \in S BY <1>1, <1>2, Upwards
  <1> QED BY <1>3 DEF S

(* No packet ends between two places.                                      *)
LEMMA EndsSkipped ==
    ASSUME TxTypeOK, NEW n \in 0 .. TxDescs, NEW m \in n .. TxDescs,
           \A k \in n + 1 .. m : ~DescAt(k).ls
    PROVE  EndsIn[m] = EndsIn[n]
  <1> DEFINE S == {k \in 0 .. m - n : EndsIn[n + k] = EndsIn[n]}
  <1>1. 0 \in S OBVIOUS
  <1>2. ASSUME NEW k \in 1 .. m - n, k - 1 \in S PROVE k \in S
    <2>1. n + k \in 1 .. TxDescs /\ n + k \in n + 1 .. m /\ n + k - 1 = n + (k - 1)
      OBVIOUS
    <2>2. EndsIn[n + k] = EndsStep(EndsIn[n + (k - 1)], n + k)
      BY <2>1, EndsAre DEF EndsKnown, EndsRecursion
    <2> QED BY <1>2, <2>1, <2>2 DEF EndsStep
  <1> HIDE DEF S
  <1>3. m - n \in S BY <1>1, <1>2, Upwards
  <1>4. n + (m - n) = m OBVIOUS
  <1> QED BY <1>3, <1>4 DEF S

(* The DMA is one descriptor further: so are the packets.                  *)
ShiftedAt(k) == /\ DescAt(k)'.ls = DescAt(k + 1).ls
                /\ DescAt(k)'.packet = DescAt(k + 1).packet

LEMMA EndsShifted ==
    ASSUME TxTypeOK, TxTypeOK', NEW n \in 1 .. TxDescs,
           \A k \in 1 .. n - 1 : ShiftedAt(k)
    PROVE  IF DescAt(1).ls
           THEN EndsIn[n] # << >> /\ Head(EndsIn[n]) = DescAt(1).packet
                /\ EndsIn'[n - 1] = Tail(EndsIn[n])
           ELSE EndsIn'[n - 1] = EndsIn[n]
  <1>1. PICK f, g, first : /\ f = EndsIn /\ g = EndsIn'
                          /\ first = EndsStep(<< >>, 1)
    OBVIOUS
  <1>2. /\ f \in [0 .. TxDescs -> Seq(Held)] /\ f[0] = << >>
        /\ \A k \in 1 .. TxDescs : f[k] = EndsStep(f[k - 1], k)
    BY <1>1, EndsAre DEF EndsKnown, EndsRecursion
  <1>3. /\ g \in [0 .. TxDescs -> Seq(Held)] /\ g[0] = << >>
        /\ \A k \in 1 .. TxDescs :
             g[k] = IF DescAt(k)'.ls THEN Append(g[k - 1], DescAt(k)'.packet)
                    ELSE g[k - 1]
    BY <1>1, EndsAreNext DEF EndsKnown, EndsRecursion, EndsStep, Held, Packet
  <1>4. \A k \in 1 .. TxDescs : DescAt(k).packet \in Held BY PlaceType DEF Held, Desc
  <1>5. first \in Seq(Held)
    <2>1. DescAt(1).packet \in Held BY <1>4
    <2>2. << >> \in Seq(Held) BY EmptySeq
    <2> QED BY <1>1, <2>1, <2>2, AppendProperties DEF EndsStep
  <1> DEFINE S == {k \in 0 .. n - 1 : f[k + 1] = first \o g[k]}
  <1>6. 0 \in S
    <2>1. f[1] = first
      <3>1. f[1] = EndsStep(f[1 - 1], 1) BY <1>2
      <3>2. 1 - 1 = 0 OBVIOUS
      <3> QED BY <1>1, <1>2, <3>1, <3>2
    <2>2. first \o << >> = first BY <1>5, ConcatEmptySeq
    <2>3. f[0 + 1] = first \o g[0] /\ 0 \in 0 .. n - 1 BY <1>3, <2>1, <2>2
    <2> QED BY <2>3
  <1>7. ASSUME NEW k \in 1 .. n - 1, k - 1 \in S PROVE k \in S
    <2>1. PICK s, x : s = g[k - 1] /\ x = DescAt(k + 1).packet OBVIOUS
    <2>2. k \in 1 .. TxDescs /\ k - 1 \in 0 .. TxDescs /\ k + 1 \in 1 .. TxDescs
          /\ k - 1 + 1 = k /\ k + 1 - 1 = k /\ k \in 0 .. n - 1
      OBVIOUS
    <2>3. f[k] = first \o s BY <1>7, <2>1, <2>2
    <2>4. s \in Seq(Held) /\ x \in Held BY <1>3, <1>4, <2>1, <2>2
    <2>5. f[k + 1] = IF DescAt(k + 1).ls THEN Append(first \o s, x) ELSE first \o s
      <3>1. f[k + 1] = EndsStep(f[k + 1 - 1], k + 1) BY <1>2, <2>2
      <3> QED BY <2>1, <2>2, <2>3, <3>1 DEF EndsStep
    <2>6. g[k] = IF DescAt(k + 1).ls THEN Append(s, x) ELSE s
      BY <1>3, <2>1, <2>2 DEF ShiftedAt
    <2>7. Append(first \o s, x) = first \o Append(s, x)
      <3>1. s \o <<x>> = Append(s, x) BY <2>4, AppendIsConcat
      <3>2. first \o s \in Seq(Held) BY <1>5, <2>4, ConcatProperties
      <3>3. Append(first \o s, x) = (first \o s) \o <<x>> BY <2>4, <3>2, AppendIsConcat
      <3>4. PICK t : t = <<x>> OBVIOUS
      <3>5. t \in Seq(Held) BY <2>4, <3>4
      <3>6. (first \o s) \o t = first \o (s \o t)
        BY <1>5, <2>4, <3>5, ConcatAssociative
      <3> QED BY <3>1, <3>3, <3>4, <3>6
    <2> QED BY <2>2, <2>5, <2>6, <2>7
  <1>8. n - 1 \in S
    <2> HIDE DEF S
    <2>1. n - 1 \in Nat OBVIOUS
    <2> QED BY <1>6, <1>7, <2>1, Upwards
  <1>9. f[n] = first \o g[n - 1] /\ g[n - 1] \in Seq(Held) BY <1>3, <1>8
  <1>10. CASE ~DescAt(1).ls
    BY <1>1, <1>9, <1>10, ConcatEmptySeq DEF EndsStep
  <1>11. CASE DescAt(1).ls
    <2>1. PICK s, x : s = g[n - 1] /\ x = DescAt(1).packet OBVIOUS
    <2>2. first = <<x>> BY <1>1, <1>11, <2>1 DEF EndsStep
    <2>3. s \in Seq(Held) /\ x \in Held BY <1>4, <1>9, <2>1
    <2>4. <<x>> \o s # << >> /\ Head(<<x>> \o s) = x /\ Tail(<<x>> \o s) = s
      BY <2>3
    <2> QED BY <1>1, <1>9, <1>11, <2>1, <2>2, <2>4
  <1> QED BY <1>10, <1>11
LEMMA EndsShort ==
    ASSUME TxTypeOK, NEW n \in 0 .. TxDescs
    PROVE  EndsIn[n] \in Seq(Held) /\ Len(EndsIn[n]) <= n
  <1>1. PICK f : f = EndsIn OBVIOUS
  <1>2. /\ f \in [0 .. TxDescs -> Seq(Held)] /\ f[0] = << >>
        /\ \A k \in 1 .. TxDescs : f[k] = EndsStep(f[k - 1], k)
    BY <1>1, EndsAre DEF EndsKnown, EndsRecursion
  <1> DEFINE S == {k \in 0 .. n : Len(f[k]) <= k}
  <1>3. 0 \in S BY <1>2
  <1>4. ASSUME NEW k \in 1 .. n, k - 1 \in S PROVE k \in S
    <2>1. PICK s, x : s = f[k - 1] /\ x = DescAt(k).packet OBVIOUS
    <2>2. s \in Seq(Held) /\ x \in Held /\ Len(s) <= k - 1
      <3>1. k \in 1 .. TxDescs /\ k - 1 \in 0 .. TxDescs OBVIOUS
      <3>2. x \in Held BY <2>1, <3>1, PlaceType DEF Held, Desc
      <3>3. s \in Seq(Held) BY <1>2, <2>1, <3>1
      <3> QED BY <1>4, <2>1, <3>2, <3>3
    <2>3. f[k] = IF DescAt(k).ls THEN Append(s, x) ELSE s BY <1>2, <2>1 DEF EndsStep
    <2>4. Len(Append(s, x)) = Len(s) + 1 /\ Len(s) \in Nat
      BY <2>2, AppendProperties, LenProperties
    <2>5. Len(f[k]) <= k BY <2>2, <2>3, <2>4
    <2> QED BY <2>5
  <1>5. n \in S
    <2> HIDE DEF S
    <2> QED BY <1>3, <1>4, Upwards
  <1> QED BY <1>1, <1>2, <1>5

-----------------------------------------------------------------------------
(* The places.                                                             *)
Place(k) == Advance(TxDescs, tx_dma, k - 1)

LEMMA PlacesApart ==
    ASSUME TxTypeOK, NEW j \in 1 .. TxDescs, NEW k \in 1 .. TxDescs, Place(j) = Place(k)
    PROVE  j = k
  BY DEF Place, TxTypeOK, Advance, TxIndex, Indexes

LEMMA PlaceIn ==
    ASSUME TxTypeOK, NEW k \in 1 .. TxDescs
    PROVE  /\ Place(k) \in TxIndex /\ DescAt(k) = ptdesc[Place(k)] /\ DescAt(k) \in Desc
           /\ \A n \in 0 .. TxDescs : InSegment(TxDescs, tx_dma, n, Place(k)) <=> k <= n
  <1>1. Place(k) \in TxIndex /\ DescAt(k) = ptdesc[Place(k)] /\ DescAt(k) \in Desc
    BY PlaceType DEF Place, DescAt
  <1>2. \A n \in 0 .. TxDescs : InSegment(TxDescs, tx_dma, n, Place(k)) <=> k <= n
    BY DEF Place, TxTypeOK, Advance, InSegment, TxIndex, Indexes
  <1> QED BY <1>1, <1>2

LEMMA GivenOnce ==
    ASSUME NEW n \in 0 .. TxDescs, NEW m \in 0 .. TxDescs, IsGiven(n), IsGiven(m)
    PROVE  n = m
  <1>1. ASSUME NEW i \in 0 .. TxDescs, NEW j \in 0 .. TxDescs,
               IsGiven(i), IsGiven(j), i < j
        PROVE  FALSE
    <2>1. i + 1 \in 1 .. j /\ i < TxDescs BY <1>1
    <2> QED BY <1>1, <2>1 DEF IsGiven
  <1>2. ~(n < m) /\ ~(m < n) BY <1>1
  <1> QED BY <1>2

LEMMA FillingType ==
    ASSUME TxInv
    PROVE  Filling \in 0 .. TxDescs
  BY PacketsAssumption DEF TxInv, Filling, TxTypeOK, Call, OutputInv, Packet

OwnedKnown ==
    TxInv => \A n \in 0 .. TxDescs :
               /\ Owns(n) <=> IsGiven(n)
               /\ IsGiven(n) => /\ ToSend = EndsIn[n]
                                /\ n + Filling + tx_free_descs <= TxDescs

LEMMA OwnedIsGiven == OwnedKnown
  <1> SUFFICES ASSUME TxInv, NEW n \in 0 .. TxDescs
               PROVE  /\ Owns(n) <=> IsGiven(n)
                      /\ IsGiven(n) => /\ ToSend = EndsIn[n]
                                       /\ n + Filling + tx_free_descs <= TxDescs
    BY DEF OwnedKnown
  <1>1. TxTypeOK /\ tx_free_descs \in 0 .. TxDescs /\ Filling \in 0 .. TxDescs
    BY FillingType DEF TxInv, TxTypeOK
  <1>2. ASSUME NEW m \in 0 .. TxDescs, Owns(m)
        PROVE  IsGiven(m) /\ m + Filling + tx_free_descs <= TxDescs
    <2>1. m + Filling + tx_free_descs <= TxDescs BY <1>1, <1>2 DEF Owns
    <2>2. m + Filling \in 0 .. TxDescs BY <1>1, <2>1
    <2>3. ASSUME NEW k \in 1 .. TxDescs
          PROVE  DescAt(k).own <=> k <= m + Filling /\ (Filling > 0 => k # m + 1)
      <3>1. Filling > 0 => output.fidx = Place(m + 1) /\ m + 1 \in 1 .. TxDescs
        BY <1>1, <1>2, <2>1 DEF Owns, Place
      <3>2. Filling > 0 => (Place(k) = output.fidx <=> k = m + 1)
        BY <1>1, <3>1, PlacesApart
      <3>3. Place(k) \in TxIndex /\ DescAt(k) = ptdesc[Place(k)] BY <1>1, PlaceIn
      <3>4. InSegment(TxDescs, tx_dma, m + Filling, Place(k)) <=> k <= m + Filling
        BY <1>1, <2>2, PlaceIn
      <3> QED BY <1>2, <3>2, <3>3, <3>4 DEF Owns
    <2>4. \A k \in 1 .. m : DescAt(k).own BY <1>1, <2>2, <2>3
    <2>5. m < TxDescs => ~DescAt(m + 1).own
      <3>1. m < TxDescs => m + 1 \in 1 .. TxDescs BY <1>2
      <3> QED BY <1>1, <2>3, <3>1
    <2> QED BY <2>1, <2>4, <2>5 DEF IsGiven
  <1>3. PICK m \in 0 .. TxDescs : Owns(m) BY DEF TxInv, RingInOrder
  <1>4. IsGiven(m) /\ m + Filling + tx_free_descs <= TxDescs BY <1>2, <1>3
  <1>5. IsGiven(n) => n = m BY <1>4, GivenOnce
  <1>6. Given \in 0 .. TxDescs /\ IsGiven(Given)
    <2>1. Given = CHOOSE k \in 0 .. TxDescs : IsGiven(k) BY DEF Given
    <2> QED BY <1>4, <2>1
  <1>7. IsGiven(n) => ToSend = EndsIn[n] BY <1>6, GivenOnce DEF ToSend
  <1> QED BY <1>2, <1>3, <1>4, <1>5, <1>7

LEMMA OwnedIsGivenNext == OwnedKnown'
  BY OwnedIsGiven, PTL
(* The packet on the wire.                                                 *)
LEMMA PbufsGrow ==
    ASSUME NEW q, NEW k \in Nat
    PROVE  Pbufs(q, 0) = << >> /\ Append(Pbufs(q, k), <<q, k + 1>>) = Pbufs(q, k + 1)
  <1>1. PICK x : x = <<q, k + 1>> OBVIOUS
  <1> DEFINE V == {q} \X Nat
  <1>2. Pbufs(q, k) \in Seq(V) /\ Len(Pbufs(q, k)) = k
    <2>1. Pbufs(q, k) \in [1 .. k -> V] BY DEF Pbufs
    <2> QED BY <2>1 DEF Pbufs
  <1>3. Pbufs(q, k + 1) \in Seq(V) /\ Len(Pbufs(q, k + 1)) = k + 1
    <2>1. Pbufs(q, k + 1) \in [1 .. k + 1 -> V] BY DEF Pbufs
    <2> QED BY <2>1 DEF Pbufs
  <1>4. x \in V BY <1>1
  <1> HIDE DEF V
  <1>5. PICK a, b : a = Append(Pbufs(q, k), x) /\ b = Pbufs(q, k + 1) OBVIOUS
  <1>6. /\ a \in Seq(V) /\ Len(a) = k + 1 /\ a[k + 1] = x
        /\ \A j \in 1 .. k : a[j] = Pbufs(q, k)[j]
    BY <1>2, <1>4, <1>5, AppendProperties
  <1>7. \A j \in 1 .. k + 1 : b[j] = <<q, j>> BY <1>5 DEF Pbufs
  <1>8. \A j \in 1 .. k : Pbufs(q, k)[j] = <<q, j>> BY DEF Pbufs
  <1>9. \A j \in 1 .. Len(a) : a[j] = b[j] BY <1>1, <1>6, <1>7, <1>8
  <1>10. b \in Seq(V) /\ Len(b) = k + 1 BY <1>3, <1>5
  <1>11. a = b BY <1>6, <1>9, <1>10, SeqEqual
  <1>12. Pbufs(q, 0) = << >> BY DEF Pbufs
  <1> QED BY <1>1, <1>5, <1>11, <1>12

SentKnown == \A q \in Packet : sent = Chain(q) => Sent = q

LEMMA SentIs == SentKnown
  <1> SUFFICES ASSUME NEW q \in Packet, sent = Chain(q) PROVE Sent = q BY DEF SentKnown
  <1>1. ASSUME NEW r \in Packet, Chain(r) = Chain(q) PROVE r = q
    <2>1. Frags[r] \in Nat /\ Frags[r] >= 1 /\ Frags[q] \in Nat /\ Frags[q] >= 1
      BY PacketsAssumption DEF Packet
    <2>2. Chain(r)[1] = <<r, 1>> /\ Chain(q)[1] = <<q, 1>> BY <2>1 DEF Chain
    <2> QED BY <1>1, <2>2
  <1>2. Sent \in Packet /\ sent = Chain(Sent) BY DEF Sent
  <1> QED BY <1>1, <1>2

LEMMA SentIsNext == SentKnown'
  BY SentIs, PTL

-----------------------------------------------------------------------------
(* What each access does to the chains, and to the FIFO.                   *)

(* The invariant of the next state has the count that its descriptors show. *)
LEMMA ChainsNext ==
    ASSUME TxInv', NEW n \in 0 .. TxDescs, IsGiven(n)', Chained(n)'
    PROVE  ChainsInv'
  <1>1. Owns(n)' BY OwnedIsGivenNext DEF OwnedKnown
  <1> QED BY <1>1 DEF ChainsInv

(* Steps that keep the descriptors the DMA owns.                           *)
LEMMA ToSendSame ==
    ASSUME TxInv, TxInv', NEW n \in 0 .. TxDescs, IsGiven(n), IsGiven(n)',
           \A k \in 1 .. n : SameAt(k)
    PROVE  UNCHANGED ToSend
  <1>1. ToSend = EndsIn[n] /\ ToSend' = EndsIn'[n]
    BY OwnedIsGiven, OwnedIsGivenNext DEF OwnedKnown
  <1> QED BY <1>1, EndsSame DEF TxInv

LEMMA SentSame == ASSUME UNCHANGED sent PROVE UNCHANGED Sent
  BY DEF Sent

LEMMA QuietKeeps ==
    ASSUME TxInv, TxInv', ChainsInv,
           UNCHANGED <<ptdesc, tx_free_descs, tx_dma, wire, sent, Filling>>,
           Filling > 0 => UNCHANGED output.packet
    PROVE  ChainsInv' /\ UNCHANGED <<ToSend, Sent>>
  <1>1. PICK n \in 0 .. TxDescs : IsGiven(n) /\ Chained(n) BY DEF ChainsInv
  <1>2. \A k : DescAt(k)' = DescAt(k) BY DEF DescAt
  <1>3. IsGiven(n)' BY <1>1, <1>2 DEF IsGiven
  <1>4. Filling \in 0 .. TxDescs BY FillingType
  <1>5. Chained(n)'
    <2>1. ASSUME NEW k \in 1 .. Filling
          PROVE  DescAt(n + k).packet = output'.packet
      <3>1. output'.packet = output.packet BY <1>4
      <3>2. DescAt(n + k).packet = output.packet BY <1>1 DEF Chained
      <3> QED BY <3>1, <3>2
    <2> QED BY <1>1, <1>2, <2>1 DEF Chained
  <1>6. ChainsInv' BY <1>3, <1>5, ChainsNext
  <1>7. \A k \in 1 .. n : SameAt(k) BY <1>2 DEF SameAt
  <1> QED BY <1>1, <1>3, <1>6, <1>7, ToSendSame, SentSame
LEMMA FillKeeps ==
    ASSUME TxInv, TxInv', ChainsInv, Fill
    PROVE  ChainsInv' /\ UNCHANGED <<ToSend, Sent>>
  <1>1. PICK n \in 0 .. TxDescs : IsGiven(n) /\ Owns(n) /\ Chained(n) BY DEF ChainsInv
  <1>2. PICK i, q, frag : i = output.idx /\ q = output.packet /\ frag = output.frag OBVIOUS
  <1>3. /\ output \in Call /\ output.pc = "fill" /\ i \in TxIndex /\ q \in Packet
        /\ frag \in 0 .. Frags[q] - 1 /\ Frags[q] \in 1 .. TxDescs /\ tx_dma \in TxIndex
        /\ tx_free_descs \in Frags[q] - frag .. TxDescs
    BY <1>2, PacketsAssumption DEF Fill, TxInv, TxTypeOK, Call, OutputInv, Packet
  <1>4. /\ tx_free_descs' = tx_free_descs - 1 /\ tx_free_descs > 0
        /\ UNCHANGED <<tx_dma, wire, sent>>
    BY <1>3 DEF Fill, mac
  <1>5. Filling = frag BY <1>2, <1>3 DEF Filling
  <1>6. n + frag + tx_free_descs <= TxDescs
    BY <1>1, <1>5, OwnedIsGiven DEF OwnedKnown
  <1>7. n + frag + 1 \in 1 .. TxDescs BY <1>3, <1>4, <1>6
  <1>8. i = Advance(TxDescs, output.fidx, frag) /\ output.fidx \in TxIndex
    BY <1>2, <1>3 DEF TxInv, OutputInv, Call
  <1>9. i = output.fidx <=> frag = 0
    BY <1>3, <1>8 DEF Advance, TxIndex, Indexes
  <1>10. i = Place(n + frag + 1)
    <2>1. FillIdx = i /\ FillIdx = Advance(TxDescs, Oldest, TxDescs - tx_free_descs)
      BY <1>2, <1>3 DEF FillIdx, TxInv, RingInOrder
    <2>2. tx_dma = Advance(TxDescs, Oldest, TxDescs - tx_free_descs - n - frag)
      BY <1>1, <1>5 DEF Owns
    <2>3. Oldest \in TxIndex BY DEF Oldest, TxInv, TxTypeOK
    <2>4. n + frag + 1 - 1 = n + frag BY <1>3
    <2> QED BY <1>3, <1>6, <2>1, <2>2, <2>3, <2>4 DEF Place, Advance, TxIndex, Indexes
  <1>11. /\ Filling' = frag + 1 /\ output'.packet = q
    <2>1. CASE LastFrag
      <3>1. output' = [output EXCEPT !.pc = "give"] BY <2>1 DEF Fill
      <3> QED BY <1>2, <1>3, <2>1, <3>1 DEF LastFrag, Filling, Call
    <2>2. CASE ~LastFrag
      <3>1. output' = [output EXCEPT !.frag = @ + 1, !.idx = Succ(TxDescs, i)]
        BY <1>2, <2>2 DEF Fill
      <3> QED BY <1>2, <1>3, <3>1 DEF Filling, Call
    <2> QED BY <2>1, <2>2
  <1>12. PICK d, e : d = DescAt(n + frag + 1) /\ e = DescAt(n + frag + 1)' OBVIOUS
  <1>13. d = ptdesc[i] /\ d \in Desc /\ ptdesc \in [TxIndex -> Desc]
    BY <1>7, <1>10, <1>12, PlaceIn DEF TxInv, TxTypeOK
  <1>14. ptdesc' = [ptdesc EXCEPT ![i] =
           [own |-> d.own \/ frag > 0, fs |-> d.fs \/ frag = 0, ls |-> d.ls \/ LastFrag,
            packet |-> q, frag |-> frag + 1]]
    <2>1. ptdesc' = [ptdesc EXCEPT ![i] =
            [own |-> ptdesc[i].own \/ ~(i = output.fidx),
             fs |-> ptdesc[i].fs \/ i = output.fidx,
             ls |-> ptdesc[i].ls \/ LastFrag,
             packet |-> q, frag |-> frag + 1]]
      BY <1>2, <1>3, <1>13 DEF Fill
    <2>2. ~(i = output.fidx) <=> frag > 0 BY <1>3, <1>9
    <2> QED BY <1>9, <1>13, <2>1, <2>2
  <1>15. /\ e.own <=> d.own \/ frag > 0
         /\ e.fs <=> d.fs \/ frag = 0
         /\ e.ls <=> d.ls \/ LastFrag
         /\ e.packet = q /\ e.frag = frag + 1
    <2>1. DescAt(n + frag + 1)' = ptdesc'[Place(n + frag + 1)] BY <1>4 DEF DescAt, Place
    <2>2. e = [own |-> d.own \/ frag > 0, fs |-> d.fs \/ frag = 0,
               ls |-> d.ls \/ LastFrag, packet |-> q, frag |-> frag + 1]
      BY <1>3, <1>10, <1>12, <1>13, <1>14, <2>1
    <2> QED BY <2>2
  <1>16. ASSUME NEW k \in 1 .. TxDescs, k # n + frag + 1 PROVE DescAt(k)' = DescAt(k)
    <2>1. Place(k) # i BY <1>7, <1>10, <1>16, PlacesApart DEF TxInv
    <2>2. DescAt(k)' = ptdesc'[Place(k)] BY <1>4 DEF DescAt, Place
    <2>3. Place(k) \in TxIndex /\ DescAt(k) = ptdesc[Place(k)] BY PlaceIn DEF TxInv
    <2> QED BY <1>3, <1>13, <1>14, <2>1, <2>2, <2>3
  <1>17. \A k \in 1 .. n + frag : k \in 1 .. TxDescs /\ k # n + frag + 1 BY <1>3, <1>7
  <1>18. \A k \in 1 .. n : k \in 1 .. n + frag BY <1>3
  <1>19. IsGiven(n)'
    <2>1. \A k \in 1 .. n : DescAt(k)'.own
      BY <1>1, <1>16, <1>17, <1>18 DEF IsGiven
    <2>2. n < TxDescs => ~DescAt(n + 1).own BY <1>1 DEF IsGiven
    <2>3. CASE frag = 0
      <3>1. n + frag + 1 = n + 1 BY <2>3
      <3>2. n < TxDescs => ~e.own BY <1>12, <1>15, <2>2, <2>3, <3>1
      <3> QED BY <1>12, <2>1, <3>1, <3>2 DEF IsGiven
    <2>4. CASE frag > 0
      <3>1. n + 1 \in 1 .. TxDescs /\ n + 1 # n + frag + 1 BY <1>3, <1>7, <2>4
      <3> QED BY <1>16, <2>1, <2>2, <3>1 DEF IsGiven
    <2> QED BY <1>3, <2>3, <2>4
  <1>20. ~d.fs /\ ~d.ls
    <2>1. n + frag + 1 \in n + frag + 1 .. n + frag + tx_free_descs BY <1>3, <1>4
    <2> QED BY <1>1, <1>5, <1>12, <2>1 DEF Chained
  <1>21. e.packet = q /\ e.frag = frag + 1 /\ HoldsPbuf(e)
    <2>1. e.packet = q /\ e.frag = frag + 1 /\ (e.fs <=> frag = 0) /\ (e.ls <=> LastFrag)
      BY <1>15, <1>20
    <2>2. LastFrag <=> frag + 1 = Frags[q] BY <1>2 DEF LastFrag
    <2>3. e.fs <=> e.frag = 1 BY <1>3, <2>1
    <2> QED BY <1>3, <2>1, <2>2, <2>3 DEF HoldsPbuf
  <1>22. Chained(n)'
    <2>1. \A k \in 1 .. n + (frag + 1) : HoldsPbuf(DescAt(k)')
      <3> TAKE k \in 1 .. n + (frag + 1)
      <3>1. k # n + frag + 1 => k \in 1 .. n + frag BY <1>3
      <3>2. k # n + frag + 1 => HoldsPbuf(DescAt(k)) /\ DescAt(k)' = DescAt(k)
        BY <1>1, <1>5, <1>16, <1>17, <3>1 DEF Chained
      <3> QED BY <1>12, <1>21, <3>2
    <2>2. \A k \in 2 .. n + (frag + 1) : Follows(DescAt(k - 1)', DescAt(k)')
      <3> TAKE k \in 2 .. n + (frag + 1)
      <3>1. k - 1 \in 1 .. n + frag /\ DescAt(k - 1)' = DescAt(k - 1)
        <4>1. k - 1 \in 1 .. n + frag BY <1>3
        <4> QED BY <1>16, <1>17, <4>1
      <3>2. CASE k # n + frag + 1
        <4>1. k \in 2 .. n + frag /\ k \in 1 .. n + frag BY <1>3, <3>2
        <4> QED BY <1>1, <1>5, <1>16, <1>17, <3>1, <4>1 DEF Chained
      <3>3. CASE k = n + frag + 1 /\ frag = 0
        <4>1. n > 0 /\ k - 1 = n BY <3>3
        <4>2. DescAt(k - 1)'.ls BY <1>1, <3>1, <4>1 DEF Chained
        <4> QED BY <1>12, <1>21, <3>3, <4>2 DEF Follows
      <3>4. CASE k = n + frag + 1 /\ frag > 0
        <4>1. k - 1 = n + frag /\ frag \in 1 .. frag BY <1>3, <3>4
        <4>2. DescAt(n + frag).packet = q /\ DescAt(n + frag).frag = frag
          BY <1>1, <1>2, <1>5, <4>1 DEF Chained
        <4>3. HoldsPbuf(DescAt(n + frag)) BY <1>1, <1>5, <3>1, <4>1 DEF Chained
        <4>4. ~DescAt(n + frag).ls BY <1>3, <4>2, <4>3 DEF HoldsPbuf
        <4> QED BY <1>12, <1>21, <3>1, <3>4, <4>1, <4>2, <4>4 DEF Follows
      <3> QED BY <1>3, <3>2, <3>3, <3>4
    <2>3. \A k \in n + (frag + 1) + 1 .. n + (frag + 1) + (tx_free_descs - 1) :
            ~DescAt(k)'.fs /\ ~DescAt(k)'.ls
      <3> TAKE k \in n + (frag + 1) + 1 .. n + (frag + 1) + (tx_free_descs - 1)
      <3>1. /\ k \in 1 .. TxDescs /\ k # n + frag + 1
            /\ k \in n + frag + 1 .. n + frag + tx_free_descs
        BY <1>3, <1>6
      <3> QED BY <1>1, <1>5, <1>16, <3>1 DEF Chained
    <2>4. n > 0 => DescAt(n)'.ls
      <3>1. n > 0 => n \in 1 .. n OBVIOUS
      <3> QED BY <1>1, <1>16, <1>17, <1>18, <3>1 DEF Chained
    <2>5. \A k \in 1 .. frag + 1 : DescAt(n + k)'.packet = q /\ DescAt(n + k)'.frag = k
      <3> TAKE k \in 1 .. frag + 1
      <3>1. CASE k = frag + 1
        <4>1. n + k = n + frag + 1 BY <1>3, <3>1
        <4> QED BY <1>12, <1>21, <3>1, <4>1
      <3>2. CASE k # frag + 1
        <4>1. k \in 1 .. frag /\ n + k \in 1 .. n + frag BY <1>3, <3>2
        <4> QED BY <1>1, <1>2, <1>5, <1>16, <1>17, <4>1 DEF Chained
      <3> QED BY <3>1, <3>2
    <2>6. wire = IF n = 0 THEN << >> ELSE Pbufs(DescAt(1)'.packet, DescAt(1)'.frag - 1)
      <3>1. n # 0 => 1 \in 1 .. n OBVIOUS
      <3>2. n # 0 => DescAt(1)' = DescAt(1) BY <1>16, <1>17, <1>18, <3>1
      <3> QED BY <1>1, <3>2 DEF Chained
    <2> QED BY <1>4, <1>11, <2>1, <2>2, <2>3, <2>4, <2>5, <2>6
        DEF Chained, HoldsPbuf, Follows
  <1>23. \A k \in 1 .. n : SameAt(k) BY <1>16, <1>17, <1>18 DEF SameAt
  <1> QED BY <1>1, <1>4, <1>19, <1>22, <1>23, ChainsNext, ToSendSame, SentSame
LEMMA ReclaimKeeps ==
    ASSUME TxInv, TxInv', ChainsInv, Reclaim
    PROVE  ChainsInv' /\ UNCHANGED <<ToSend, Sent>>
  <1>1. PICK n \in 0 .. TxDescs : IsGiven(n) /\ Owns(n) /\ Chained(n) BY DEF ChainsInv
  <1>2. /\ cleanup = "reclaim" /\ tx_free_descs < TxDescs /\ ~ptdesc[ridx].own
        /\ tx_free_descs' = tx_free_descs + 1 /\ Oldest = ridx
        /\ UNCHANGED <<output, tx_dma, wire, sent>>
    BY DEF Reclaim, Reclaimable, mac, Oldest
  <1>3. ptdesc' = [ptdesc EXCEPT ![ridx].fs = FALSE, ![ridx].ls = FALSE]
    BY DEF Reclaim, FlagsReset
  <1>4. /\ ridx \in TxIndex /\ tx_dma \in TxIndex /\ tx_free_descs \in 0 .. TxDescs
        /\ ptdesc \in [TxIndex -> Desc] /\ TxTypeOK
    BY DEF TxInv, TxTypeOK
  <1>5. Filling = 0 /\ Filling' = 0 BY <1>2 DEF Filling, TxInv, OutputInv
  <1>6. n + tx_free_descs <= TxDescs
        /\ tx_dma = Advance(TxDescs, ridx, TxDescs - tx_free_descs - n)
    BY <1>1, <1>2, <1>4, <1>5 DEF Owns
  <1>7. n + tx_free_descs < TxDescs
    <2> SUFFICES ASSUME n + tx_free_descs = TxDescs PROVE FALSE BY <1>4, <1>6
    <2>1. TxDescs - tx_free_descs - n = 0 BY <1>4
    <2>2. tx_dma = ridx BY <1>4, <1>6, <2>1 DEF Advance, TxIndex, Indexes
    <2>3. n > 0 /\ 1 \in 1 .. n BY <1>2, <1>4
    <2>4. Advance(TxDescs, tx_dma, 1 - 1) = ridx
      BY <1>4, <2>2 DEF Advance, TxIndex, Indexes
    <2>5. DescAt(1).own BY <1>1, <2>3 DEF IsGiven
    <2> QED BY <1>2, <2>4, <2>5 DEF DescAt
  <1>8. n + tx_free_descs + 1 \in 1 .. TxDescs BY <1>4, <1>7
  <1>9. Place(n + tx_free_descs + 1) = ridx
    BY <1>4, <1>6, <1>7 DEF Place, Advance, TxIndex, Indexes
  <1>10. ASSUME NEW k \in 1 .. TxDescs
         PROVE  /\ DescAt(k)' \in Desc
                /\ (DescAt(k)'.own <=> DescAt(k).own)
                /\ DescAt(k)'.packet = DescAt(k).packet
                /\ k # n + tx_free_descs + 1 => DescAt(k)' = DescAt(k)
                /\ k = n + tx_free_descs + 1 => ~DescAt(k)'.fs /\ ~DescAt(k)'.ls
    <2>1. DescAt(k)' = ptdesc'[Place(k)] BY <1>2 DEF DescAt, Place
    <2>2. Place(k) \in TxIndex /\ DescAt(k) = ptdesc[Place(k)] BY <1>4, PlaceIn
    <2>3. k # n + tx_free_descs + 1 => Place(k) # ridx BY <1>4, <1>8, <1>9, PlacesApart
    <2>4. DescAt(k) \in Desc BY <1>4, <2>2
    <2>5. CASE k # n + tx_free_descs + 1
      <3>1. DescAt(k)' = DescAt(k) BY <1>3, <1>4, <2>1, <2>2, <2>3, <2>5
      <3> QED BY <2>4, <2>5, <3>1
    <2>6. CASE k = n + tx_free_descs + 1
      <3>1. DescAt(k)' = [DescAt(k) EXCEPT !.fs = FALSE, !.ls = FALSE]
        BY <1>3, <1>4, <1>9, <2>1, <2>2, <2>6 DEF Desc
      <3> QED BY <2>4, <2>6, <3>1 DEF Desc
    <2> QED BY <2>5, <2>6
  <1>11. IsGiven(n)'
    <2>1. n < TxDescs => n + 1 \in 1 .. TxDescs OBVIOUS
    <2> QED BY <1>1, <1>10, <2>1 DEF IsGiven
  <1>12. ASSUME NEW k \in 1 .. n + tx_free_descs
         PROVE  k \in 1 .. TxDescs /\ DescAt(k)' = DescAt(k)
    BY <1>4, <1>7, <1>10
  <1>13. \A k \in 1 .. n : k \in 1 .. n + tx_free_descs BY <1>4
  <1>14. Chained(n)'
    <2>1. \A k \in 1 .. n : HoldsPbuf(DescAt(k)')
      BY <1>1, <1>5, <1>12, <1>13 DEF Chained
    <2>2. \A k \in 2 .. n : Follows(DescAt(k - 1)', DescAt(k)')
      <3> TAKE k \in 2 .. n
      <3>1. k \in 1 .. n /\ k - 1 \in 1 .. n OBVIOUS
      <3>2. Follows(DescAt(k - 1), DescAt(k)) BY <1>1, <1>5 DEF Chained
      <3> QED BY <1>12, <1>13, <3>1, <3>2
    <2>3. \A k \in n + 1 .. n + (tx_free_descs + 1) : ~DescAt(k)'.fs /\ ~DescAt(k)'.ls
      <3> TAKE k \in n + 1 .. n + (tx_free_descs + 1)
      <3>1. CASE k = n + tx_free_descs + 1 BY <1>8, <1>10, <3>1
      <3>2. CASE k # n + tx_free_descs + 1
        <4>1. k \in n + 1 .. n + tx_free_descs /\ k \in 1 .. n + tx_free_descs
          BY <1>4, <3>2
        <4>2. ~DescAt(k).fs /\ ~DescAt(k).ls BY <1>1, <1>5, <4>1 DEF Chained
        <4> QED BY <1>12, <4>1, <4>2
      <3> QED BY <3>1, <3>2
    <2>4. n > 0 => DescAt(n)'.ls
      <3>1. n > 0 => n \in 1 .. n OBVIOUS
      <3> QED BY <1>1, <1>12, <1>13, <3>1 DEF Chained
    <2>5. wire = IF n = 0 THEN << >> ELSE Pbufs(DescAt(1)'.packet, DescAt(1)'.frag - 1)
      <3>1. n # 0 => 1 \in 1 .. n OBVIOUS
      <3>2. n # 0 => DescAt(1)' = DescAt(1) BY <1>12, <1>13, <3>1
      <3> QED BY <1>1, <3>2 DEF Chained
    <2>6. n + 0 = n BY <1>1
    <2>7. n + Filling' + tx_free_descs' = n + (tx_free_descs + 1) BY <1>2, <1>4, <1>5
    <2>8. \A k \in 1 .. Filling' : FALSE BY <1>5
    <2> QED BY <1>2, <1>5, <2>1, <2>2, <2>3, <2>4, <2>5, <2>6, <2>7, <2>8
        DEF Chained, HoldsPbuf, Follows
  <1>15. \A k \in 1 .. n : SameAt(k) BY <1>12, <1>13 DEF SameAt
  <1> QED BY <1>1, <1>2, <1>11, <1>14, <1>15, ChainsNext, ToSendSame, SentSame

(* The first descriptor gives the DMA the whole chain: a packet is put in. *)
LEMMA GivePuts ==
    ASSUME TxInv, TxInv', ChainsInv, Give
    PROVE  ChainsInv' /\ Out!Put
  <1>1. PICK n \in 0 .. TxDescs : IsGiven(n) /\ Owns(n) /\ Chained(n) BY DEF ChainsInv
  <1>2. PICK q : q = output.packet OBVIOUS
  <1>3. /\ output.pc = "give" /\ output' = [output EXCEPT !.pc = "poll"]
        /\ ptdesc' = [ptdesc EXCEPT ![output.fidx].own = TRUE]
        /\ UNCHANGED <<tx_free_descs, tx_dma, wire, sent>>
    BY DEF Give, mac
  <1>4. /\ output \in Call /\ output.fidx \in TxIndex /\ tx_dma \in TxIndex
        /\ tx_free_descs \in 0 .. TxDescs /\ ptdesc \in [TxIndex -> Desc]
        /\ TxTypeOK /\ TxTypeOK' /\ q \in Packet
    BY <1>2, <1>3 DEF TxInv, TxTypeOK, Call, OutputInv
  <1>5. output'.pc = "poll" BY <1>3, <1>4 DEF Call
  <1>6. PICK chain : chain = Frags[q] OBVIOUS
  <1>7. Filling = chain /\ Filling' = 0 /\ chain \in 1 .. TxDescs
    BY <1>2, <1>3, <1>4, <1>5, <1>6, PacketsAssumption DEF Filling, Packet
  <1>8. n + chain + tx_free_descs <= TxDescs
    BY <1>1, <1>7, OwnedIsGiven DEF OwnedKnown
  <1>9. n + chain \in 1 .. TxDescs /\ n + 1 \in 1 .. TxDescs /\ n + chain \in 0 .. TxDescs
    BY <1>4, <1>7, <1>8
  <1>10. Place(n + 1) = output.fidx
    <2>1. n + 1 - 1 = n OBVIOUS
    <2> QED BY <1>1, <1>7, <2>1 DEF Owns, Place
  <1>11. ASSUME NEW k \in 1 .. TxDescs
         PROVE  /\ DescAt(k)'.fs = DescAt(k).fs /\ DescAt(k)'.ls = DescAt(k).ls
                /\ DescAt(k)'.packet = DescAt(k).packet /\ DescAt(k)'.frag = DescAt(k).frag
                /\ (DescAt(k)'.own <=> DescAt(k).own \/ k = n + 1)
    <2>1. DescAt(k)' = ptdesc'[Place(k)] BY <1>3 DEF DescAt, Place
    <2>2. Place(k) \in TxIndex /\ DescAt(k) = ptdesc[Place(k)] BY <1>4, PlaceIn
    <2>3. k # n + 1 => Place(k) # output.fidx BY <1>4, <1>9, <1>10, PlacesApart
    <2> QED BY <1>3, <1>4, <1>10, <2>1, <2>2, <2>3 DEF Desc
  <1>12. ASSUME NEW k \in 1 .. TxDescs
         PROVE  DescAt(k).own <=> k <= n + chain /\ k # n + 1
    <2>1. Place(k) \in TxIndex /\ DescAt(k) = ptdesc[Place(k)] BY <1>4, PlaceIn
    <2>2. InSegment(TxDescs, tx_dma, n + chain, Place(k)) <=> k <= n + chain
      BY <1>4, <1>9, PlaceIn
    <2>3. Place(k) = output.fidx <=> k = n + 1 BY <1>4, <1>9, <1>10, PlacesApart
    <2>4. Filling > 0 BY <1>7
    <2> QED BY <1>1, <1>7, <2>1, <2>2, <2>3, <2>4 DEF Owns
  <1>13. IsGiven(n + chain)'
    <2>1. \A k \in 1 .. n + chain : DescAt(k)'.own BY <1>9, <1>11, <1>12
    <2>2. n + chain < TxDescs => ~DescAt(n + chain + 1)'.own
      <3> SUFFICES ASSUME n + chain < TxDescs PROVE ~DescAt(n + chain + 1)'.own OBVIOUS
      <3>1. /\ n + chain + 1 \in 1 .. TxDescs /\ n + chain + 1 # n + 1
            /\ ~(n + chain + 1 <= n + chain)
        BY <1>7, <1>9
      <3> QED BY <1>11, <1>12, <3>1
    <2> QED BY <2>1, <2>2 DEF IsGiven
  <1>14. \A k \in 1 .. n + chain : k \in 1 .. TxDescs BY <1>9
  <1>15. \A k \in 1 .. chain :
           DescAt(n + k).packet = q /\ DescAt(n + k).frag = k /\ HoldsPbuf(DescAt(n + k))
    <2> TAKE k \in 1 .. chain
    <2>1. n + k \in 1 .. n + chain BY <1>7
    <2> QED BY <1>1, <1>2, <1>7, <2>1 DEF Chained
  <1>16. DescAt(n + chain).ls
    <2>1. chain \in 1 .. chain BY <1>7
    <2> QED BY <1>6, <1>15, <2>1 DEF HoldsPbuf
  <1>17. Chained(n + chain)'
    <2>1. \A k \in 1 .. n + chain : HoldsPbuf(DescAt(k)')
      <3> TAKE k \in 1 .. n + chain
      <3>1. HoldsPbuf(DescAt(k)) BY <1>1, <1>7 DEF Chained
      <3> QED BY <1>11, <1>14, <3>1 DEF HoldsPbuf
    <2>2. \A k \in 2 .. n + chain : Follows(DescAt(k - 1)', DescAt(k)')
      <3> TAKE k \in 2 .. n + chain
      <3>1. k \in 1 .. n + chain /\ k - 1 \in 1 .. n + chain BY <1>9
      <3>2. Follows(DescAt(k - 1), DescAt(k)) BY <1>1, <1>7 DEF Chained
      <3> QED BY <1>11, <1>14, <3>1, <3>2 DEF Follows
    <2>3. \A k \in n + chain + 1 .. n + chain + tx_free_descs :
            ~DescAt(k)'.fs /\ ~DescAt(k)'.ls
      <3> TAKE k \in n + chain + 1 .. n + chain + tx_free_descs
      <3>1. k \in 1 .. TxDescs BY <1>4, <1>8, <1>9
      <3> QED BY <1>1, <1>7, <1>11, <3>1 DEF Chained
    <2>4. DescAt(n + chain)'.ls BY <1>9, <1>11, <1>16
    <2>5. wire = Pbufs(DescAt(1)'.packet, DescAt(1)'.frag - 1)
      <3>0. 1 \in 1 .. TxDescs BY <1>9
      <3>1. CASE n > 0 BY <1>1, <1>11, <3>0, <3>1 DEF Chained
      <3>2. CASE n = 0
        <4>1. n + 1 = 1 /\ 1 \in 1 .. chain BY <1>7, <3>2
        <4>2. DescAt(1)'.frag - 1 = 0 BY <1>11, <1>15, <3>0, <4>1
        <4>3. wire = << >> BY <1>1, <3>2 DEF Chained
        <4> QED BY <4>2, <4>3, PbufsGrow
      <3> QED BY <3>1, <3>2
    <2>6. n + chain + 0 = n + chain /\ n + chain # 0 BY <1>7, <1>9
    <2>8. \A k \in 1 .. Filling' : FALSE BY <1>7
    <2> QED BY <1>3, <1>7, <2>1, <2>2, <2>3, <2>4, <2>5, <2>6, <2>8
        DEF Chained, HoldsPbuf, Follows
  <1>18. ChainsInv' BY <1>9, <1>13, <1>17, ChainsNext
  <1>19. ToSend = EndsIn[n] /\ ToSend' = EndsIn'[n + chain]
    BY <1>1, <1>9, <1>13, OwnedIsGiven, OwnedIsGivenNext DEF OwnedKnown
  <1>20. EndsIn'[n + chain] = EndsIn[n + chain]
    <2>1. \A k \in 1 .. n + chain : SameAt(k) BY <1>11, <1>14 DEF SameAt
    <2> QED BY <1>4, <1>9, <2>1, EndsSame
  <1>21. PICK m : m = n + chain - 1 OBVIOUS
  <1>22. m \in n .. TxDescs /\ m + 1 = n + chain /\ n + chain - 1 = m BY <1>7, <1>9, <1>21
  <1>23. EndsIn[m] = EndsIn[n]
    <2>1. ASSUME NEW k \in n + 1 .. m PROVE ~DescAt(k).ls
      <3>1. PICK j : j = k - n OBVIOUS
      <3>2. j \in 1 .. chain - 1 /\ j \in 1 .. chain /\ n + j = k BY <1>7, <1>22, <3>1
      <3> QED BY <1>6, <1>15, <3>2 DEF HoldsPbuf
    <2> QED BY <1>4, <1>22, <2>1, EndsSkipped
  <1>24. EndsIn[n + chain] = Append(EndsIn[n], q)
    <2>1. EndsIn[n + chain] = EndsStep(EndsIn[m], n + chain)
      BY <1>4, <1>9, <1>22, EndsAre DEF EndsKnown, EndsRecursion
    <2>2. chain \in 1 .. chain BY <1>7
    <2> QED BY <1>15, <1>16, <1>23, <2>1, <2>2 DEF EndsStep
  <1>25. Len(ToSend) < TxDescs
    <2>1. EndsIn[n] \in Seq(Held) /\ Len(EndsIn[n]) <= n BY <1>4, EndsShort
    <2>2. Len(EndsIn[n]) \in Nat BY <2>1, LenProperties
    <2> QED BY <1>9, <1>19, <2>1, <2>2
  <1>26. UNCHANGED Sent BY <1>3, SentSame
  <1> QED BY <1>4, <1>18, <1>19, <1>20, <1>24, <1>25, <1>26 DEF Out!Put
(* The DMA sends a pbuf, and with the last one of a chain a packet.        *)
LEMMA SendGets ==
    ASSUME TxInv, TxInv', ChainsInv, Send
    PROVE  ChainsInv' /\ (Out!Get \/ UNCHANGED <<ToSend, Sent>>)
  <1>1. PICK n \in 0 .. TxDescs : IsGiven(n) /\ Owns(n) /\ Chained(n) BY DEF ChainsInv
  <1>2. /\ ptdesc[tx_dma].own /\ tx_dma' = Succ(TxDescs, tx_dma)
        /\ ptdesc' = [ptdesc EXCEPT ![tx_dma].own = FALSE]
        /\ UNCHANGED <<tx_free_descs, output, tx_fill_idx>>
    BY DEF Send
  <1>3. /\ tx_dma \in TxIndex /\ tx_free_descs \in 0 .. TxDescs
        /\ ptdesc \in [TxIndex -> Desc] /\ TxTypeOK /\ TxTypeOK'
    BY DEF TxInv, TxTypeOK
  <1>4. PICK F : F = Filling OBVIOUS
  <1>5. Filling = F /\ Filling' = F /\ F \in 0 .. TxDescs
    BY <1>2, <1>4, FillingType DEF Filling
  <1>6. n + F + tx_free_descs <= TxDescs BY <1>1, <1>5, OwnedIsGiven DEF OwnedKnown
  <1>7. Advance(TxDescs, tx_dma, 1 - 1) = tx_dma
    BY <1>3 DEF Advance, TxIndex, Indexes
  <1>8. PICK d : d = DescAt(1) OBVIOUS
  <1>9. d = ptdesc[tx_dma] /\ d.own BY <1>2, <1>7, <1>8 DEF DescAt
  <1>10. n > 0
    <2>1. 0 + 1 = 1 /\ 0 < TxDescs OBVIOUS
    <2>2. n = 0 => ~DescAt(1).own BY <1>1, <2>1 DEF IsGiven
    <2> QED BY <1>1, <1>8, <1>9, <2>2
  <1>11. PICK m : m = n - 1 OBVIOUS
  <1>12. m \in 0 .. TxDescs /\ m + 1 = n /\ n \in 1 .. TxDescs /\ n - 1 = m
    BY <1>10, <1>11
  <1>13. ASSUME NEW k \in 1 .. TxDescs - 1
         PROVE  k + 1 \in 1 .. TxDescs /\ DescAt(k)' = DescAt(k + 1)
    <2>1. k + 1 \in 1 .. TxDescs OBVIOUS
    <2>2. Advance(TxDescs, tx_dma', k - 1) = Place(k + 1) /\ Place(k + 1) # tx_dma
      BY <1>2, <1>3 DEF Place, Advance, Succ, TxIndex, Indexes
    <2>3. Place(k + 1) \in TxIndex /\ DescAt(k + 1) = ptdesc[Place(k + 1)]
      BY <1>3, <2>1, PlaceIn
    <2>4. DescAt(k)' = ptdesc'[Place(k + 1)] BY <2>2 DEF DescAt
    <2> QED BY <1>2, <1>3, <2>1, <2>2, <2>3, <2>4
  <1>14. DescAt(TxDescs)'.own = FALSE
    <2>1. Advance(TxDescs, tx_dma', TxDescs - 1) = tx_dma
      BY <1>2, <1>3 DEF Advance, Succ, TxIndex, Indexes
    <2> QED BY <1>2, <1>3, <2>1 DEF DescAt, Desc
  <1>15. IsGiven(m)'
    <2>1. ASSUME NEW k \in 1 .. m PROVE DescAt(k)'.own
      <3>1. k \in 1 .. TxDescs - 1 /\ k + 1 \in 1 .. n BY <1>12
      <3> QED BY <1>1, <1>13, <3>1 DEF IsGiven
    <2>2. ~DescAt(n)'.own
      <3>1. CASE n = TxDescs BY <1>14, <3>1
      <3>2. CASE n < TxDescs
        <4>1. n \in 1 .. TxDescs - 1 BY <1>12, <3>2
        <4> QED BY <1>1, <1>13, <3>2, <4>1 DEF IsGiven
      <3> QED BY <1>12, <3>1, <3>2
    <2> QED BY <1>12, <2>1, <2>2 DEF IsGiven
  <1>16. ASSUME NEW k \in 1 .. m + F + tx_free_descs
         PROVE  k \in 1 .. TxDescs - 1 /\ k + 1 \in 2 .. n + F + tx_free_descs
    BY <1>3, <1>5, <1>6, <1>12
  <1>17. \A k \in 1 .. m + F : k \in 1 .. m + F + tx_free_descs /\ k + 1 \in 2 .. n + F
    BY <1>3, <1>5, <1>12
  <1>18. HoldsPbuf(d)
    <2>1. 1 \in 1 .. n + F BY <1>5, <1>12
    <2> QED BY <1>1, <1>5, <1>8, <2>1 DEF Chained
  <1>19. PICK q, frag : q = d.packet /\ frag = d.frag OBVIOUS
  <1>20. /\ q \in Packet /\ Frags[q] \in 1 .. TxDescs /\ frag \in 1 .. Frags[q]
         /\ d.fs <=> frag = 1
         /\ d.ls <=> frag = Frags[q]
    BY <1>18, <1>19, PacketsAssumption DEF HoldsPbuf, Packet
  <1>21. PICK frame : frame = Append(IF d.fs THEN << >> ELSE wire, <<q, frag>>) OBVIOUS
  <1>22. frame = Pbufs(q, frag)
    <2>1. PICK j \in Nat : j = frag - 1 BY <1>20
    <2>2. j + 1 = frag BY <1>20, <2>1
    <2>3. (IF d.fs THEN << >> ELSE wire) = Pbufs(q, j)
      <3>1. n # 0 => wire = Pbufs(q, frag - 1) BY <1>1, <1>8, <1>19 DEF Chained
      <3>2. d.fs => j = 0 BY <1>20, <2>1
      <3> QED BY <1>10, <2>1, <3>1, <3>2, PbufsGrow
    <2> QED BY <1>21, <2>2, <2>3, PbufsGrow
  <1>23. /\ wire' = IF d.ls THEN << >> ELSE frame
         /\ sent' = IF d.ls THEN frame ELSE sent
    BY <1>9, <1>19, <1>21 DEF Send
  <1>24. m > 0 => Follows(d, DescAt(1)')
    <2> SUFFICES ASSUME m > 0 PROVE Follows(d, DescAt(1)') OBVIOUS
    <2>1. 2 \in 2 .. n + F /\ 1 \in 1 .. TxDescs - 1 BY <1>5, <1>12
    <2>2. Follows(DescAt(2 - 1), DescAt(2)) BY <1>1, <1>5, <2>1 DEF Chained
    <2>3. 1 + 1 = 2 /\ 2 - 1 = 1 OBVIOUS
    <2>4. DescAt(1)' = DescAt(2) BY <1>13, <2>1, <2>3
    <2> QED BY <1>8, <2>2, <2>3, <2>4
  <1>25. m = 0 => d.ls BY <1>1, <1>8, <1>12 DEF Chained
  <1>26. Chained(m)'
    <2>1. \A k \in 1 .. m + F : HoldsPbuf(DescAt(k)')
      <3> TAKE k \in 1 .. m + F
      <3>1. k + 1 \in 1 .. n + F BY <1>17
      <3>2. HoldsPbuf(DescAt(k + 1)) BY <1>1, <1>5, <3>1 DEF Chained
      <3> QED BY <1>13, <1>16, <1>17, <3>2
    <2>2. \A k \in 2 .. m + F : Follows(DescAt(k - 1)', DescAt(k)')
      <3> TAKE k \in 2 .. m + F
      <3>1. /\ k \in 1 .. m + F /\ k - 1 \in 1 .. m + F /\ k + 1 \in 2 .. n + F
            /\ k - 1 + 1 = k /\ k + 1 - 1 = k
        BY <1>5, <1>12
      <3>2. Follows(DescAt(k + 1 - 1), DescAt(k + 1)) BY <1>1, <1>5, <3>1 DEF Chained
      <3>3. DescAt(k - 1)' = DescAt(k - 1 + 1) /\ DescAt(k)' = DescAt(k + 1)
        BY <1>13, <1>16, <1>17, <3>1
      <3> QED BY <3>1, <3>2, <3>3
    <2>3. \A k \in m + F + 1 .. m + F + tx_free_descs : ~DescAt(k)'.fs /\ ~DescAt(k)'.ls
      <3> TAKE k \in m + F + 1 .. m + F + tx_free_descs
      <3>1. k \in 1 .. m + F + tx_free_descs
            /\ k + 1 \in n + F + 1 .. n + F + tx_free_descs
        BY <1>3, <1>5, <1>12
      <3>2. ~DescAt(k + 1).fs /\ ~DescAt(k + 1).ls BY <1>1, <1>5, <3>1 DEF Chained
      <3> QED BY <1>13, <1>16, <3>1, <3>2
    <2>4. m > 0 => DescAt(m)'.ls
      <3>1. m > 0 => m \in 1 .. TxDescs - 1 BY <1>12
      <3> QED BY <1>1, <1>10, <1>12, <1>13, <3>1 DEF Chained
    <2>5. \A k \in 1 .. F :
            DescAt(m + k)'.packet = output.packet /\ DescAt(m + k)'.frag = k
      <3> TAKE k \in 1 .. F
      <3>1. m + k \in 1 .. m + F /\ m + k + 1 = n + k BY <1>5, <1>12
      <3>2. DescAt(m + k)' = DescAt(n + k) BY <1>13, <1>16, <1>17, <3>1
      <3> QED BY <1>1, <1>5, <3>2 DEF Chained
    <2>6. wire' = IF m = 0 THEN << >> ELSE Pbufs(DescAt(1)'.packet, DescAt(1)'.frag - 1)
      <3>1. CASE m = 0 BY <1>23, <1>25, <3>1
      <3>2. CASE m > 0 /\ d.ls
        <4>1. DescAt(1)'.frag - 1 = 0 BY <1>24, <3>2 DEF Follows
        <4> QED BY <1>23, <3>2, <4>1, PbufsGrow
      <3>3. CASE m > 0 /\ ~d.ls
        <4>1. DescAt(1)'.packet = q /\ DescAt(1)'.frag = frag + 1
          BY <1>19, <1>24, <3>3 DEF Follows
        <4>2. DescAt(1)'.frag - 1 = frag BY <1>20, <4>1
        <4> QED BY <1>22, <1>23, <3>3, <4>1, <4>2
      <3> QED BY <1>12, <3>1, <3>2, <3>3
    <2> QED BY <1>2, <1>5, <2>1, <2>2, <2>3, <2>4, <2>5, <2>6
        DEF Chained, HoldsPbuf, Follows
  <1>27. ChainsInv' BY <1>12, <1>15, <1>26, ChainsNext
  <1>28. ToSend = EndsIn[n] /\ ToSend' = EndsIn'[m]
    BY <1>1, <1>12, <1>15, OwnedIsGiven, OwnedIsGivenNext DEF OwnedKnown
  <1>29. IF d.ls
         THEN /\ EndsIn[n] # << >> /\ Head(EndsIn[n]) = q
              /\ EndsIn'[m] = Tail(EndsIn[n])
         ELSE EndsIn'[m] = EndsIn[n]
    <2>1. \A k \in 1 .. n - 1 : ShiftedAt(k)
      <3> TAKE k \in 1 .. n - 1
      <3>1. k \in 1 .. TxDescs - 1 BY <1>12
      <3> QED BY <1>13, <3>1 DEF ShiftedAt
    <2> QED BY <1>3, <1>8, <1>12, <1>19, <2>1, EndsShifted
  <1>30. CASE d.ls
    <2>1. sent' = Chain(q) BY <1>20, <1>22, <1>23, <1>30 DEF Chain, Pbufs
    <2>2. Sent' = q BY <1>20, <2>1, SentIsNext DEF SentKnown, Packet
    <2> QED BY <1>27, <1>28, <1>29, <1>30, <2>2 DEF Out!Get
  <1>31. CASE ~d.ls BY <1>23, <1>27, <1>28, <1>29, <1>31, SentSame
  <1> QED BY <1>30, <1>31

-----------------------------------------------------------------------------
(* The chains stay whole: a descriptor the DMA owns holds the next pbuf of *)
(* the frame on the wire, or begins a frame, with the flags that say so.   *)
LEMMA ChainsInit == TxInit => ChainsInv /\ IsGiven(0)
  <1> SUFFICES ASSUME TxInit PROVE ChainsInv /\ IsGiven(0) OBVIOUS
  <1>1. TxInv BY TxInitInv
  <1>2. Filling = 0 BY DEF TxInit, Idle, Filling
  <1>3. PICK n \in 0 .. TxDescs : Owns(n) BY <1>1 DEF TxInv, RingInOrder
  <1>4. n = 0 BY <1>2, <1>3 DEF Owns, TxInit
  <1>5. IsGiven(0) /\ Owns(0) BY <1>1, <1>3, <1>4, OwnedIsGiven DEF OwnedKnown
  <1>6. \A k \in 1 .. TxDescs : ~DescAt(k).fs /\ ~DescAt(k).ls
    <2> TAKE k \in 1 .. TxDescs
    <2>1. Place(k) \in TxIndex /\ DescAt(k) = ptdesc[Place(k)] BY <1>1, PlaceIn DEF TxInv
    <2> QED BY <2>1 DEF TxInit
  <1>7. Chained(0) BY <1>2, <1>6 DEF TxInit, Chained
  <1> QED BY <1>5, <1>7 DEF ChainsInv

(* What is put in the ring goes over the wire once, whole and in the order *)
(* of the calls: the ring implements the FIFO, but for liveness.           *)
THEOREM TxRefinesFifo == TxSpec => Out!Safety
  <1>1. TxInit => ChainsInv /\ Out!Init
    <2> SUFFICES ASSUME TxInit PROVE ChainsInv /\ Out!Init OBVIOUS
    <2>1. TxInv /\ ChainsInv /\ IsGiven(0) BY TxInitInv, ChainsInit
    <2>2. ToSend = << >>
      BY <2>1, OwnedIsGiven, EndsAre DEF OwnedKnown, EndsKnown, EndsRecursion, TxInv
    <2>3. Sent \in Packet \cup {NoPacket} BY DEF Sent
    <2> QED BY <2>1, <2>2, <2>3 DEF Out!Init
  <1>2. TxInv /\ TxInv' /\ ChainsInv /\ [TxNext]_txVars
          => ChainsInv' /\ [Out!Next]_<<ToSend, Sent>>
    <2> SUFFICES ASSUME TxInv, TxInv', ChainsInv, [TxNext]_txVars
                 PROVE  ChainsInv' /\ [Out!Next]_<<ToSend, Sent>>
      OBVIOUS
    <2>1. CASE Fill BY <2>1, FillKeeps
    <2>2. CASE Give BY <2>2, GivePuts DEF Out!Next
    <2>3. CASE Send BY <2>3, SendGets DEF Out!Next
    <2>4. CASE Reclaim BY <2>4, ReclaimKeeps
    <2>5. ASSUME UNCHANGED <<ptdesc, tx_free_descs, tx_dma, wire, sent, Filling>>,
                 Filling > 0 => UNCHANGED output.packet
          PROVE  ChainsInv' /\ [Out!Next]_<<ToSend, Sent>>
      BY <2>5, QuietKeeps
    <2>6. CASE \/ FindRoom \/ Lock \/ PollDemand \/ Unlock
      <3>1. UNCHANGED <<ptdesc, tx_free_descs, tx_dma, wire, sent>>
        BY <2>6 DEF FindRoom, Lock, PollDemand, Unlock, slots, mac
      <3>2. Filling = 0 /\ Filling' = 0
        BY <2>6 DEF FindRoom, Lock, PollDemand, Unlock, Idle, Filling, TxInv, TxTypeOK,
                    Call, OutputInv
      <3> QED BY <2>5, <3>1, <3>2
    <2>7. CASE \E q \in Packets : Output(q)
      <3>1. UNCHANGED <<ptdesc, tx_free_descs, tx_dma, wire, sent>> /\ output.pc = "idle"
        BY <2>7 DEF Output, slots, mac
      <3>2. output'.pc = "room" BY <2>7 DEF Output, Idle
      <3>3. Filling = 0 /\ Filling' = 0 BY <3>1, <3>2 DEF Filling
      <3> QED BY <2>5, <3>1, <3>3
    <2>8. CASE \/ SuspendTx \/ Received \/ TxIsr \/ WaitClean \/ LockClean \/ ReclaimEnd
               \/ \E q \in Packets : Make(q) \/ Drop(q)
               \/ UNCHANGED txVars
      <3>1. UNCHANGED <<ptdesc, tx_free_descs, tx_dma, wire, sent, output>>
        BY <2>8 DEF SuspendTx, Received, TxIsr, TxIsrRead, TxIsrClear, WaitClean,
                    LockClean, ReclaimEnd, Make, Drop, txVars, slots, mac
      <3>2. UNCHANGED Filling BY <3>1 DEF Filling
      <3> QED BY <2>5, <3>1, <3>2
    <2> QED BY <2>1, <2>2, <2>3, <2>4, <2>6, <2>7, <2>8
        DEF TxNext, OutputStep, CleanupTask, TxDma
  <1> QED BY <1>1, <1>2, TxInvariant, PTL DEF TxSpec, Out!Safety
=============================================================================
