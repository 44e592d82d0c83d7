------------------------------- MODULE EmacRx --------------------------------
(***************************************************************************)
(* The receive side of lpc18xx_43xx_emac.c: the ring of RX descriptors,    *)
(* the task vPacketReceiveTask, the DMA that fills the descriptors and the *)
(* interrupt that wakes the task.                                          *)
(*                                                                         *)
(* The task, the DMA and the interrupt share prdesc[].STATUS, DMA_STAT and *)
(* RxSem, and there is no lock: the task takes a step per access to one of *)
(* them.  The indexes are the task's alone.                                *)
(***************************************************************************)
EXTENDS Naturals, Sequences, FiniteSets, RingIndex

CONSTANTS RxDescs,   \* LPC_NUM_BUFF_RXDESCS
          Buffers,   \* the pbufs of EMAC_ETH_MAX_FLEN the memory has room for
          NoBuffer,
          GoodFrame, \* what arrives whole ...
          BadFrame,  \* ... and with an error in its status
          Owned,     \* the STATUS RDES_OWN
          Cleared    \* the STATUS of a descriptor never used

ASSUME RxDescsAssumption == RxDescs \in Nat /\ RxDescs >= 3   \* #error otherwise
ASSUME BuffersAssumption == NoBuffer \notin Buffers
ASSUME FramesAssumption ==
    /\ Owned # Cleared
    /\ {Owned, Cleared} \cap (GoodFrame \cup BadFrame) = {}

VARIABLES
    prdesc,         \* STATUS of each descriptor: Owned, or what the DMA stored
    rxpbufs, rx_free_descs, rx_get_idx, rx_next_idx,
    receive,        \* where vPacketReceiveTask is
    p,              \* lpc_low_level_input's local of that name
    got,            \* the status it read last
    lwip,           \* the pbufs lwIP holds
    dma,            \* the descriptor the DMA is at
    rx_suspended,   \* the DMA has found it not owned
    dma_stat,       \* the bits RI and RU of DMA_STAT
    rx_ints,        \* ints, while ETH_IRQHandler runs; {} when it does not
    RxSem

ring   == <<prdesc, rxpbufs, rx_free_descs, rx_next_idx>>
device == <<dma, rx_suspended>>
irq    == <<dma_stat, rx_ints, RxSem>>
rxVars == <<ring, rx_get_idx, receive, p, got, lwip, device, irq>>

Frame == GoodFrame \cup BadFrame
RxIndex == Indexes(RxDescs)

(* The descriptors that have a pbuf: from the next one to receive to the   *)
(* next one to fill.                                                       *)
Filled(i) == InSegment(RxDescs, rx_get_idx, RxDescs - rx_free_descs, i)

InRing == {rxpbufs[i] : i \in {j \in RxIndex : Filled(j)}}

(* What pbuf_alloc can still find. *)
FreeMemory == Buffers \ (InRing \cup lwip \cup {p})

(* lpc_rx_setup; it goes on with lpc_rx_queue before the DMA is enabled.   *)
RxInit ==
    /\ prdesc = [i \in RxIndex |-> Cleared]
    /\ rxpbufs = [i \in RxIndex |-> NoBuffer]
    /\ rx_free_descs = RxDescs
    /\ rx_get_idx = 0 /\ rx_next_idx = 0
    /\ receive = "setup" /\ p = NoBuffer /\ got = Cleared
    /\ lwip = {}
    /\ dma = 0 /\ rx_suspended = FALSE
    /\ dma_stat = {} /\ rx_ints = {} /\ RxSem = FALSE

-----------------------------------------------------------------------------
(* The DMA.  A frame that finds no descriptor is lost; it changes nothing  *)
(* but the status.                                                         *)
Store(frame) ==
    /\ receive # "setup"
    /\ prdesc[dma] = Owned
    /\ prdesc' = [prdesc EXCEPT ![dma] = frame]
    /\ dma' = Succ(RxDescs, dma)
    /\ rx_suspended' = FALSE
    /\ dma_stat' = dma_stat \cup {"RI"}
    /\ UNCHANGED <<rxpbufs, rx_free_descs, rx_next_idx, rx_get_idx, receive, p,
                   got, lwip, rx_ints, RxSem>>

Suspend ==
    /\ receive # "setup"
    /\ prdesc[dma] # Owned /\ ~rx_suspended
    /\ rx_suspended' = TRUE
    /\ dma_stat' = dma_stat \cup {"RU"}
    /\ UNCHANGED <<ring, rx_get_idx, receive, p, got, lwip, dma, rx_ints, RxSem>>

RxDma == Suspend \/ \E frame \in Frame : Store(frame)

-----------------------------------------------------------------------------
(* ETH_IRQHandler, for the bits of this ring: it reads DMA_STAT once,      *)
(* wakes the task and clears what it read; the DMA may set bits between.   *)
IsrRead ==
    /\ rx_ints = {} /\ dma_stat # {}
    /\ rx_ints' = dma_stat
    /\ RxSem' = TRUE
    /\ UNCHANGED <<ring, rx_get_idx, receive, p, got, lwip, device, dma_stat>>

IsrClear ==
    /\ rx_ints # {}
    /\ dma_stat' = dma_stat \ rx_ints
    /\ rx_ints' = {}
    /\ UNCHANGED <<ring, rx_get_idx, receive, p, got, lwip, device, RxSem>>

RxIsr == IsrRead \/ IsrClear

-----------------------------------------------------------------------------
(* vPacketReceiveTask.  It runs while no interrupt does. *)

Wait ==
    /\ receive = "wait" /\ RxSem
    /\ RxSem' = FALSE
    /\ receive' = "test"
    /\ UNCHANGED <<ring, rx_get_idx, p, got, lwip, device, dma_stat, rx_ints>>

Test ==
    /\ receive = "test"
    /\ receive' = IF prdesc[rx_get_idx] = Owned THEN "wait" ELSE "input"
    /\ UNCHANGED <<ring, rx_get_idx, p, got, lwip, device, irq>>

(* lpc_low_level_input with a ring that has no pbuf left. *)
InputNothing ==
    /\ receive = "input" /\ rx_free_descs = RxDescs
    /\ receive' = "refill"
    /\ UNCHANGED <<ring, rx_get_idx, p, got, lwip, device, irq>>

(* Its second test of OWN finds what Test found: only the task sets it.    *)
(* What the descriptor held is not read again before it is queued anew;    *)
(* the code leaves it there, here it is forgotten.                         *)
Input ==
    /\ receive = "input" /\ rx_free_descs < RxDescs
    /\ p' = rxpbufs[rx_get_idx]
    /\ got' = prdesc[rx_get_idx]
    /\ rx_free_descs' = rx_free_descs + 1
    /\ rx_get_idx' = Succ(RxDescs, rx_get_idx)
    /\ receive' = IF prdesc[rx_get_idx] \in BadFrame THEN "requeue" ELSE "refill"
    /\ prdesc' = [prdesc EXCEPT ![rx_get_idx] = Cleared]
    /\ rxpbufs' = [rxpbufs EXCEPT ![rx_get_idx] = NoBuffer]
    /\ UNCHANGED <<rx_next_idx, lwip, device, irq>>

lpc_rxqueue_pbuf(b) ==
    /\ rxpbufs' = [rxpbufs EXCEPT ![rx_next_idx] = b]
    /\ prdesc' = [prdesc EXCEPT ![rx_next_idx] = Owned]
    /\ rx_free_descs' = rx_free_descs - 1
    /\ rx_next_idx' = Succ(RxDescs, rx_next_idx)

(* Mutant: the pbuf of a bad frame is queued again and passed on as well.  *)
RequeueAndPass ==
    /\ receive = "requeue"
    /\ lpc_rxqueue_pbuf(p)
    /\ receive' = "poll"
    /\ UNCHANGED <<rx_get_idx, p, got, lwip, device, irq>>

Requeue ==
    /\ receive = "requeue"
    /\ lpc_rxqueue_pbuf(p)
    /\ p' = NoBuffer
    /\ receive' = "poll"
    /\ UNCHANGED <<rx_get_idx, got, lwip, device, irq>>

(* One turn of lpc_rx_queue's loop, and its end. *)
RefillOne ==
    /\ receive \in {"setup", "refill"} /\ rx_free_descs > 0
    /\ \E b \in FreeMemory : lpc_rxqueue_pbuf(b)
    /\ UNCHANGED <<rx_get_idx, receive, p, got, lwip, device, irq>>

RefillEnd ==
    /\ receive \in {"setup", "refill"}
    /\ rx_free_descs = 0 \/ FreeMemory = {}
    /\ receive' = CASE receive = "setup" -> "wait"
                    [] receive = "refill" /\ p = NoBuffer -> "test"
                    [] receive = "refill" /\ p # NoBuffer -> "poll"
    /\ UNCHANGED <<ring, rx_get_idx, p, got, lwip, device, irq>>

(* DMA_REC_POLL_DEMAND: the DMA looks at its descriptor again. *)
Poll ==
    /\ receive = "poll"
    /\ rx_suspended' = (rx_suspended /\ prdesc[dma] # Owned)
    /\ receive' = IF p = NoBuffer THEN "test" ELSE "deliver"
    /\ UNCHANGED <<ring, rx_get_idx, p, got, lwip, dma, irq>>

(* Mutant: the task takes one frame for each time it is woken. *)
DeliverOnce ==
    /\ receive = "deliver"
    /\ lwip' \in {lwip, lwip \cup {p}}
    /\ p' = NoBuffer
    /\ receive' = "wait"
    /\ UNCHANGED <<ring, rx_get_idx, got, device, irq>>

(* lpc_enetif_input: lwIP takes the pbuf, or it is freed: of another type, *)
(* or the mailbox of tcpip_thread is full.                                 *)
Deliver ==
    /\ receive = "deliver"
    /\ lwip' \in {lwip, lwip \cup {p}}
    /\ p' = NoBuffer
    /\ receive' = "test"
    /\ UNCHANGED <<ring, rx_get_idx, got, device, irq>>

ReceiveTask ==
    /\ rx_ints = {}
    /\ \/ Wait \/ Test \/ InputNothing \/ Input \/ Requeue \/ RefillOne
       \/ RefillEnd \/ Poll \/ Deliver

-----------------------------------------------------------------------------
(* lwIP takes memory for itself and gives back what it holds. *)
LwipTakes ==
    /\ receive # "setup"
    /\ \E b \in FreeMemory : lwip' = lwip \cup {b}
    /\ UNCHANGED <<ring, rx_get_idx, receive, p, got, device, irq>>

LwipFrees ==
    /\ \E b \in lwip : lwip' = lwip \ {b}
    /\ UNCHANGED <<ring, rx_get_idx, receive, p, got, device, irq>>

RxNext == RxDma \/ RxIsr \/ ReceiveTask \/ LwipTakes \/ LwipFrees

(* The interrupt is taken, and interrupts do not take the processor from   *)
(* the task for ever.  Nothing is assumed of the network or of lwIP.       *)
RxFairness == WF_rxVars(RxIsr) /\ SF_rxVars(ReceiveTask)

RxSpec == RxInit /\ [][RxNext]_rxVars
RxFairSpec == RxSpec /\ RxFairness

-----------------------------------------------------------------------------
RxTypeOK ==
    /\ prdesc \in [RxIndex -> Frame \cup {Owned, Cleared}]
    /\ rxpbufs \in [RxIndex -> Buffers \cup {NoBuffer}]
    /\ rx_free_descs \in 0 .. RxDescs
    /\ rx_get_idx \in RxIndex /\ rx_next_idx \in RxIndex /\ dma \in RxIndex
    /\ receive \in {"setup", "wait", "test", "input", "requeue", "refill", "poll",
                    "deliver"}
    /\ p \in Buffers \cup {NoBuffer}
    /\ got \in Frame \cup {Cleared}
    /\ lwip \subseteq Buffers
    /\ rx_suspended \in BOOLEAN /\ RxSem \in BOOLEAN
    /\ dma_stat \subseteq {"RI", "RU"} /\ rx_ints \subseteq {"RI", "RU"}

(* The DMA owns n descriptors, those from its own index up to rx_next_idx, *)
(* and the rest of the filled ones, behind it, wait for the task.          *)
Brackets(n) ==
    /\ rx_next_idx = Advance(RxDescs, dma, n)
    /\ dma = Advance(RxDescs, rx_get_idx, RxDescs - rx_free_descs - n)
    /\ \A i \in RxIndex : prdesc[i] = Owned <=> InSegment(RxDescs, dma, n, i)

(* rx_get_idx, the DMA and rx_next_idx stay in this order around the ring, *)
(* whatever the task, the DMA and the interrupt do to each other: a        *)
(* descriptor is owned exactly when it is between the last two.            *)
RingBracketed == \E n \in 0 .. RxDescs - rx_free_descs : Brackets(n)

(* A pbuf is in one place: in one descriptor, with lwIP, or in the task's  *)
(* hand; so the DMA never writes where lwIP reads.                         *)
BuffersApart ==
    /\ \A i \in RxIndex : Filled(i) => rxpbufs[i] \in Buffers \ (lwip \cup {p})
    /\ \A i, j \in RxIndex : Filled(i) /\ Filled(j) /\ rxpbufs[i] = rxpbufs[j] => i = j
    /\ p \notin lwip

(* The task holds a pbuf while it has one to requeue or to deliver, and a  *)
(* descriptor is free for it then.                                         *)
HandInv ==
    /\ receive \in {"requeue", "deliver"} => p \in Buffers
    /\ receive \in {"setup", "wait", "test", "input"} => p = NoBuffer
    /\ receive = "requeue" => rx_free_descs > 0
    /\ receive = "input" => prdesc[rx_get_idx] # Owned

RxInv == RxTypeOK /\ RingBracketed /\ BuffersApart /\ HandInv

(* The frames in the ring: stored by the DMA and not yet taken. *)
Stored(k) ==
    /\ k < RxDescs - rx_free_descs
    /\ \A j \in 0 .. k : prdesc[Advance(RxDescs, rx_get_idx, j)] # Owned

Waiting ==
    LET n == Cardinality({k \in RxIndex : Stored(k)})
    IN  [k \in 1 .. n |-> prdesc[Advance(RxDescs, rx_get_idx, k - 1)]]

Fifo == INSTANCE FrameFifo WITH Frame <- Frame \cup {Cleared}, Capacity <- RxDescs,
                                queue <- Waiting, last <- got

(* Every frame the DMA has stored reaches lpc_low_level_input, once, in    *)
(* order, and eventually: no wake-up is lost between the last look at the  *)
(* descriptor, the interrupt and the wait for RxSem.                       *)
RxImplementsFifo == Fifo!Spec
=============================================================================
