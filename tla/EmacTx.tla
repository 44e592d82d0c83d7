------------------------------- MODULE EmacTx --------------------------------
(***************************************************************************)
(* The send side of lpc18xx_43xx_emac.c: lpc_low_level_output, run by      *)
(* tcpip_thread, the DMA that sends what the descriptors point to, the     *)
(* interrupt, and vTransmitCleanupTask, which takes the descriptors back   *)
(* and frees the packets.                                                  *)
(*                                                                         *)
(* A packet is a chain of pbufs, a descriptor each.  lwIP may send it      *)
(* again, or drop it, while an earlier copy of it is still in the ring.    *)
(***************************************************************************)
EXTENDS Naturals, Sequences, FiniteSets, RingIndex

CONSTANTS TxDescs,    \* LPC_NUM_BUFF_TXDESCS
          Packets,
          Frags,      \* the number of pbufs of each packet's chain
          Slow,       \* the packets with data in the slow memory of LPC_SLOWMEM_ARRAY
          Copies,     \* the packets such a packet can be copied to
          NoPacket

ASSUME TxDescsAssumption == TxDescs \in Nat /\ TxDescs >= 2     \* #error otherwise
ASSUME PacketsAssumption ==
    /\ Slow \subseteq Packets
    /\ Copies \cap Packets = {} /\ NoPacket \notin Packets \cup Copies
    /\ Frags \in [Packets \cup Copies -> 1 .. TxDescs]
    /\ \A c \in Copies : Frags[c] = 1

VARIABLES
    ptdesc,          \* per descriptor: OWN, FS and LS, and the pbuf of B1ADD
    txpbufs, tx_free_descs, tx_fill_idx, tx_reclaim_idx,
    output,          \* where lpc_low_level_output is, and its locals
    cleanup, ridx,   \* where vTransmitCleanupTask is, and lpc_tx_reclaim's ridx
    lock,            \* who holds TXLockMutex
    refs,            \* the reference count of each packet; 0: not allocated
    sender,          \* the packets lwIP itself refers to
    tx_dma, tx_suspended,
    wire, sent,      \* the pbufs of the frame being sent, and of the last one
    tx_stat, tx_ints, TxCleanSem

slots  == <<ptdesc, txpbufs, tx_free_descs>>
count  == <<refs, sender>>
mac    == <<tx_dma, tx_suspended, wire, sent>>
irqs   == <<tx_stat, tx_ints, TxCleanSem>>
txVars == <<slots, tx_fill_idx, tx_reclaim_idx, output, cleanup, ridx, lock, count,
            mac, irqs>>

Packet == Packets \cup Copies
TxIndex == Indexes(TxDescs)

Idle == [pc |-> "idle", packet |-> NoPacket, frag |-> 0, fidx |-> 0, idx |-> 0,
         pcopy |-> FALSE]

TxInit ==
    /\ ptdesc = [i \in TxIndex |-> [own |-> FALSE, fs |-> FALSE, ls |-> FALSE,
                                    packet |-> NoPacket, frag |-> 0]]
    /\ txpbufs = [i \in TxIndex |-> NoPacket]
    /\ tx_free_descs = TxDescs /\ tx_fill_idx = 0 /\ tx_reclaim_idx = 0
    /\ output = Idle
    /\ cleanup = "wait" /\ ridx = 0
    /\ lock = "free"
    /\ refs = [q \in Packet |-> 0] /\ sender = {}
    /\ tx_dma = 0 /\ tx_suspended = FALSE /\ wire = << >> /\ sent = << >>
    /\ tx_stat = {} /\ tx_ints = {} /\ TxCleanSem = FALSE

-----------------------------------------------------------------------------
(* lwIP makes a packet and drops its own reference to one. *)
Make(q) ==
    /\ refs[q] = 0 /\ q \in Packets
    /\ refs' = [refs EXCEPT ![q] = 1]
    /\ sender' = sender \cup {q}
    /\ UNCHANGED <<slots, tx_fill_idx, tx_reclaim_idx, output, cleanup, ridx, lock,
                   mac, irqs>>

Drop(q) ==
    /\ output.pc = "idle" /\ q \in sender
    /\ refs' = [refs EXCEPT ![q] = @ - 1]
    /\ sender' = sender \ {q}
    /\ UNCHANGED <<slots, tx_fill_idx, tx_reclaim_idx, output, cleanup, ridx, lock,
                   mac, irqs>>

-----------------------------------------------------------------------------
(* lpc_low_level_output. *)

(* Mutant: the copy, which only the ring refers to, is counted twice. *)
OutputCountingCopy(q) ==
    /\ output.pc = "idle" /\ q \in sender
    /\ IF q \in Slow
       THEN \E c \in Copies :
              /\ refs[c] = 0
              /\ refs' = [refs EXCEPT ![c] = 1]
              /\ output' = [Idle EXCEPT !.pc = "room", !.packet = c]
       ELSE /\ output' = [Idle EXCEPT !.pc = "room", !.packet = q]
            /\ UNCHANGED refs
    /\ UNCHANGED <<slots, tx_fill_idx, tx_reclaim_idx, cleanup, ridx, lock, sender,
                   mac, irqs>>

(* The call; without memory for a copy it returns ERR_MEM, which changes   *)
(* nothing.                                                                *)
Output(q) ==
    /\ output.pc = "idle" /\ q \in sender
    /\ IF q \in Slow
       THEN \E c \in Copies :
              /\ refs[c] = 0
              /\ refs' = [refs EXCEPT ![c] = 1]
              /\ output' = [Idle EXCEPT !.pc = "room", !.packet = c, !.pcopy = TRUE]
       ELSE /\ output' = [Idle EXCEPT !.pc = "room", !.packet = q]
            /\ UNCHANGED refs
    /\ UNCHANGED <<slots, tx_fill_idx, tx_reclaim_idx, cleanup, ridx, lock, sender,
                   mac, irqs>>

Room == Frags[output.packet] <= tx_free_descs

(* The loop on lpc_tx_ready polls: xSemaphoreTake with no time to wait     *)
(* does not block.                                                         *)
FindRoom ==
    /\ output.pc = "room" /\ Room
    /\ output' = [output EXCEPT !.pc = "lock", !.fidx = tx_fill_idx,
                                !.idx = tx_fill_idx]
    /\ UNCHANGED <<slots, tx_fill_idx, tx_reclaim_idx, cleanup, ridx, lock, count,
                   mac, irqs>>

Lock ==
    /\ output.pc = "lock" /\ lock = "free"
    /\ lock' = "output"
    /\ output' = [output EXCEPT !.pc = "fill"]
    /\ UNCHANGED <<slots, tx_fill_idx, tx_reclaim_idx, cleanup, ridx, count, mac,
                   irqs>>

LastFrag == output.frag + 1 = Frags[output.packet]

(* Mutant: the packet is saved with the first pbuf of its chain. *)
SavedFirst == IF output.idx = output.fidx THEN output.packet ELSE NoPacket

Saved == IF LastFrag THEN output.packet ELSE NoPacket

(* One turn of the loop that fills the descriptors: flags are only added.  *)
Fill ==
    /\ output.pc = "fill"
    /\ LET i == output.idx
           first == i = output.fidx
       IN  /\ ptdesc' = [ptdesc EXCEPT ![i] =
                 [own |-> @.own \/ ~first, fs |-> @.fs \/ first,
                  ls |-> @.ls \/ LastFrag,
                  packet |-> output.packet, frag |-> output.frag + 1]]
           /\ txpbufs' = [txpbufs EXCEPT ![i] = Saved]
           /\ refs' = IF first /\ ~output.pcopy
                      THEN [refs EXCEPT ![output.packet] = @ + 1] ELSE refs
           /\ tx_free_descs' = tx_free_descs - 1
           /\ IF LastFrag
              THEN /\ tx_fill_idx' = Succ(TxDescs, i)
                   /\ output' = [output EXCEPT !.pc = "give"]
              ELSE /\ output' = [output EXCEPT !.frag = @ + 1, !.idx = Succ(TxDescs, i)]
                   /\ UNCHANGED tx_fill_idx
    /\ UNCHANGED <<tx_reclaim_idx, cleanup, ridx, lock, sender, mac, irqs>>

Give ==
    /\ output.pc = "give"
    /\ ptdesc' = [ptdesc EXCEPT ![output.fidx].own = TRUE]
    /\ output' = [output EXCEPT !.pc = "poll"]
    /\ UNCHANGED <<txpbufs, tx_free_descs, tx_fill_idx, tx_reclaim_idx, cleanup,
                   ridx, lock, count, mac, irqs>>

(* DMA_TRANS_POLL_DEMAND: a suspended DMA looks at its descriptor again.   *)
PollDemand ==
    /\ output.pc = "poll"
    /\ tx_suspended' = (tx_suspended /\ ~ptdesc[tx_dma].own)
    /\ output' = [output EXCEPT !.pc = "unlock"]
    /\ UNCHANGED <<slots, tx_fill_idx, tx_reclaim_idx, cleanup, ridx, lock, count,
                   tx_dma, wire, sent, irqs>>

Unlock ==
    /\ output.pc = "unlock"
    /\ lock' = "free"
    /\ output' = Idle
    /\ UNCHANGED <<slots, tx_fill_idx, tx_reclaim_idx, cleanup, ridx, count, mac,
                   irqs>>

(* The thread runs while no interrupt does. *)
OutputStep ==
    /\ tx_ints = {}
    /\ FindRoom \/ Lock \/ Fill \/ Give \/ PollDemand \/ Unlock

-----------------------------------------------------------------------------
(* The DMA: it sends the pbuf of the descriptor it is at and gives the     *)
(* descriptor back; at the last one of a frame it interrupts.              *)
Send ==
    /\ ~tx_suspended /\ ptdesc[tx_dma].own
    /\ LET d == ptdesc[tx_dma]
           frame == Append(IF d.fs THEN << >> ELSE wire, <<d.packet, d.frag>>)
       IN  /\ wire' = IF d.ls THEN << >> ELSE frame
           /\ sent' = IF d.ls THEN frame ELSE sent
           /\ tx_stat' = IF d.ls THEN tx_stat \cup {"TI"} ELSE tx_stat
    /\ ptdesc' = [ptdesc EXCEPT ![tx_dma].own = FALSE]
    /\ tx_dma' = Succ(TxDescs, tx_dma)
    /\ UNCHANGED <<txpbufs, tx_free_descs, tx_fill_idx, tx_reclaim_idx, output,
                   cleanup, ridx, lock, count, tx_suspended, tx_ints, TxCleanSem>>

SuspendTx ==
    /\ ~tx_suspended /\ ~ptdesc[tx_dma].own
    /\ tx_suspended' = TRUE
    /\ tx_stat' = tx_stat \cup {"TU"}
    /\ UNCHANGED <<slots, tx_fill_idx, tx_reclaim_idx, output, cleanup, ridx, lock,
                   count, tx_dma, wire, sent, tx_ints, TxCleanSem>>

(* The other ring. *)
Received ==
    /\ "RI" \notin tx_stat
    /\ tx_stat' = tx_stat \cup {"RI"}
    /\ UNCHANGED <<slots, tx_fill_idx, tx_reclaim_idx, output, cleanup, ridx, lock,
                   count, mac, tx_ints, TxCleanSem>>

TxDma == Send \/ SuspendTx

(* ETH_IRQHandler reads DMA_STAT once, wakes the task for the bits of this *)
(* ring, and clears what it read.                                          *)
TxIsrRead ==
    /\ tx_ints = {} /\ tx_stat # {}
    /\ tx_ints' = tx_stat
    /\ TxCleanSem' = (TxCleanSem \/ tx_stat \cap {"TI", "TU"} # {})
    /\ UNCHANGED <<slots, tx_fill_idx, tx_reclaim_idx, output, cleanup, ridx, lock,
                   count, mac, tx_stat>>

(* Mutant: the interrupts that came meanwhile are cleared too. *)
LeftNone == {}

Left == tx_stat \ tx_ints

TxIsrClear ==
    /\ tx_ints # {}
    /\ tx_stat' = Left
    /\ tx_ints' = {}
    /\ UNCHANGED <<slots, tx_fill_idx, tx_reclaim_idx, output, cleanup, ridx, lock,
                   count, mac, TxCleanSem>>

TxIsr == TxIsrRead \/ TxIsrClear

-----------------------------------------------------------------------------
(* vTransmitCleanupTask. *)
WaitClean ==
    /\ cleanup = "wait" /\ TxCleanSem
    /\ TxCleanSem' = FALSE
    /\ cleanup' = "lock"
    /\ UNCHANGED <<slots, tx_fill_idx, tx_reclaim_idx, output, ridx, lock, count, mac,
                   tx_stat, tx_ints>>

LockClean ==
    /\ cleanup = "lock" /\ lock = "free"
    /\ lock' = "cleanup"
    /\ ridx' = tx_reclaim_idx
    /\ cleanup' = "reclaim"
    /\ UNCHANGED <<slots, tx_fill_idx, tx_reclaim_idx, output, count, mac, irqs>>

(* Mutant: any descriptor the DMA does not own counts as sent. *)
ReclaimableUnused == ~ptdesc[ridx].own

Reclaimable == tx_free_descs < TxDescs /\ ~ptdesc[ridx].own

(* Mutant: the flags of the frame just sent stay. *)
FlagsKept == ptdesc

FlagsReset == [ptdesc EXCEPT ![ridx].fs = FALSE, ![ridx].ls = FALSE]

(* One turn of lpc_tx_reclaim's loop. *)
Reclaim ==
    /\ cleanup = "reclaim" /\ Reclaimable
    /\ ptdesc' = FlagsReset
    /\ refs' = IF txpbufs[ridx] # NoPacket
               THEN [refs EXCEPT ![txpbufs[ridx]] = @ - 1] ELSE refs
    /\ tx_free_descs' = tx_free_descs + 1
    /\ ridx' = Succ(TxDescs, ridx)
    /\ UNCHANGED <<txpbufs, tx_fill_idx, tx_reclaim_idx, output, cleanup, lock,
                   sender, mac, irqs>>

ReclaimEnd ==
    /\ cleanup = "reclaim" /\ ~Reclaimable
    /\ tx_reclaim_idx' = ridx
    /\ lock' = "free"
    /\ cleanup' = "wait"
    /\ UNCHANGED <<slots, tx_fill_idx, output, ridx, count, mac, irqs>>

CleanupTask ==
    /\ tx_ints = {}
    /\ WaitClean \/ LockClean \/ Reclaim \/ ReclaimEnd

-----------------------------------------------------------------------------
TxNext ==
    \/ OutputStep \/ CleanupTask \/ TxDma \/ Received \/ TxIsr
    \/ \E q \in Packets : Make(q) \/ Drop(q) \/ Output(q)

(* The DMA sends what it is given, the interrupt is taken, and the two     *)
(* tasks, of one priority, both get the processor; the mutex between them  *)
(* may be taken again and again, but each waits for it in turn.            *)
TxFairness ==
    /\ WF_txVars(TxDma) /\ WF_txVars(TxIsr)
    /\ SF_txVars(OutputStep) /\ SF_txVars(CleanupTask)

TxSpec == TxInit /\ [][TxNext]_txVars
TxFairSpec == TxSpec /\ TxFairness

-----------------------------------------------------------------------------
Flag == {"TI", "TU", "RI"}
Desc == [own : BOOLEAN, fs : BOOLEAN, ls : BOOLEAN, packet : Packet \cup {NoPacket},
         frag : 0 .. TxDescs]
Call == [pc : {"idle", "room", "lock", "fill", "give", "poll", "unlock"},
         packet : Packet \cup {NoPacket}, frag : 0 .. TxDescs - 1,
         fidx : TxIndex, idx : TxIndex, pcopy : BOOLEAN]

TxTypeOK ==
    /\ ptdesc \in [TxIndex -> Desc]
    /\ txpbufs \in [TxIndex -> Packet \cup {NoPacket}]
    /\ tx_free_descs \in 0 .. TxDescs
    /\ {tx_fill_idx, tx_reclaim_idx, ridx, tx_dma} \subseteq TxIndex
    /\ output \in Call
    /\ cleanup \in {"wait", "lock", "reclaim"}
    /\ lock \in {"free", "output", "cleanup"}
    /\ refs \in [Packet -> Nat] /\ sender \subseteq Packets
    /\ tx_suspended \in BOOLEAN /\ TxCleanSem \in BOOLEAN
    /\ tx_stat \subseteq Flag /\ tx_ints \subseteq Flag

(* Where the next descriptor to reclaim really is. *)
Oldest == IF cleanup = "reclaim" THEN ridx ELSE tx_reclaim_idx

Used(i) == InSegment(TxDescs, Oldest, TxDescs - tx_free_descs, i)

(* The ring's reference to a packet is the entry of its last pbuf; while   *)
(* the chain is being filled, or the copy waits for room, it has none yet. *)
RingRefs(q) == Cardinality({i \in TxIndex : Used(i) /\ txpbufs[i] = q})

OutputRefs(q) ==
    IF \/ /\ output.packet = q /\ output.pcopy
          /\ output.pc \in {"room", "lock", "fill"}
       \/ output.packet = q /\ output.pc = "fill" /\ output.frag > 0
    THEN 1 ELSE 0

(* A packet has as many references as there are owners of it: lwIP, the    *)
(* call under way, and each of its entries in the ring.  None is freed     *)
(* twice and none is left allocated for nobody.                            *)
RefsCounted ==
    \A q \in Packet :
      refs[q] = (IF q \in sender THEN 1 ELSE 0) + OutputRefs(q) + RingRefs(q)

(* What the DMA may still read is allocated. *)
SentFromLivePackets ==
    \A i \in TxIndex : ptdesc[i].own => refs[ptdesc[i].packet] > 0

-----------------------------------------------------------------------------
(* What holds between any two steps, from which the above follows. *)

(* The descriptors filled for the call under way and not yet the DMA's: it *)
(* stops at the first of them, which Give gives it.                        *)
Filling == IF output.pc = "fill" THEN output.frag
           ELSE IF output.pc = "give" THEN Frags[output.packet] ELSE 0

FillIdx == IF output.pc = "fill" THEN output.idx ELSE tx_fill_idx

(* Each task holds the mutex where the code does, and the locals of the    *)
(* call agree with the ring: what it found free stays free.                *)
OutputInv ==
    /\ lock = "output" <=> output.pc \in {"fill", "give", "poll", "unlock"}
    /\ lock = "cleanup" <=> cleanup = "reclaim"
    /\ output.pc \in {"room", "lock", "fill", "give"} => output.packet \in Packet
    /\ output.pc \in {"room", "lock"} => output.frag = 0
    /\ output.pc = "lock" => /\ Room
                             /\ output.fidx = tx_fill_idx /\ output.idx = tx_fill_idx
    /\ output.pc = "fill" => /\ output.frag < Frags[output.packet]
                             /\ Frags[output.packet] - output.frag <= tx_free_descs
                             /\ output.idx = Advance(TxDescs, output.fidx, output.frag)
    /\ output.pc = "give" =>
         tx_fill_idx = Advance(TxDescs, output.fidx, Frags[output.packet])

(* From the oldest used descriptor the ring holds what the DMA sent, then  *)
(* the n it owns, then those being filled, then the free ones.             *)
Owns(n) ==
    /\ n + Filling <= TxDescs - tx_free_descs
    /\ tx_dma = Advance(TxDescs, Oldest, TxDescs - tx_free_descs - n - Filling)
    /\ Filling > 0 => output.fidx = Advance(TxDescs, tx_dma, n)
    /\ \A i \in TxIndex :
         ptdesc[i].own <=> ( /\ InSegment(TxDescs, tx_dma, n + Filling, i)
                             /\ Filling > 0 => i # output.fidx )

RingInOrder ==
    /\ FillIdx = Advance(TxDescs, Oldest, TxDescs - tx_free_descs)
    /\ \E n \in 0 .. TxDescs : Owns(n)

Age(i) == IF i >= Oldest THEN i - Oldest ELSE i + TxDescs - Oldest

(* A used descriptor is reclaimed no later than the entry which frees its  *)
(* packet, unless that entry is still to be made by the call under way.    *)
EntryFollows(i) ==
    \/ \E j \in TxIndex :
         Used(j) /\ Age(i) <= Age(j) /\ txpbufs[j] = ptdesc[i].packet
    \/ output.pc = "fill" /\ output.frag > 0 /\ output.packet = ptdesc[i].packet

EntriesFollow ==
    \A i \in TxIndex : Used(i) => ptdesc[i].packet \in Packet /\ EntryFollows(i)

TxInv == TxTypeOK /\ OutputInv /\ RingInOrder /\ EntriesFollow /\ RefsCounted

-----------------------------------------------------------------------------
(* The descriptors from where the DMA is, and how many of them in a row it *)
(* owns.                                                                   *)
DescAt(k) == ptdesc[Advance(TxDescs, tx_dma, k - 1)]

IsGiven(n) == /\ \A k \in 1 .. n : DescAt(k).own
              /\ n < TxDescs => ~DescAt(n + 1).own

Given == CHOOSE n \in 0 .. TxDescs : IsGiven(n)

(* The packets the DMA has been given and not sent to the end: those whose *)
(* last pbuf one of these descriptors holds.                               *)
EndsIn[k \in 0 .. TxDescs] ==
    IF k = 0 THEN << >>
    ELSE IF DescAt(k).ls THEN Append(EndsIn[k - 1], DescAt(k).packet)
    ELSE EndsIn[k - 1]

ToSend == EndsIn[Given]

Chain(q) == [k \in 1 .. Frags[q] |-> <<q, k>>]

(* The packet that was on the wire last, if it was a whole one. *)
Sent == IF \E q \in Packet : sent = Chain(q)
        THEN CHOOSE q \in Packet : sent = Chain(q) ELSE NoPacket

Out == INSTANCE FrameFifo WITH Frame <- Packet \cup {NoPacket}, Capacity <- TxDescs,
                               queue <- ToSend, last <- Sent

(* Every packet given to the DMA goes over the wire once, whole and in the *)
(* order of the calls, and eventually, however the filling of the next     *)
(* chain, the DMA and the reclaiming meet.                                 *)
TxImplementsFifo == Out!Spec

(* A call returns: the descriptors it waits for are reclaimed in the end.  *)
OutputReturns == []<>(output.pc = "idle")
=============================================================================
