---------------------------- MODULE EmacRxStarved ----------------------------
(***************************************************************************)
(* EmacRx with an application: what lwIP holds are packets that wait in    *)
(* the mailboxes of connections for tcp_server_task.  That task has        *)
(* priority 3 and the receive task 4, so it takes them only while the      *)
(* receive task is blocked.                                                *)
(***************************************************************************)
EXTENDS EmacRx

ApplicationReads ==
    /\ receive = "wait" /\ ~RxSem
    /\ rx_ints = {}
    /\ LwipFrees

ServedNext == RxDma \/ RxIsr \/ ReceiveTask \/ ApplicationReads

ServedSpec ==
    /\ RxInit /\ [][ServedNext]_rxVars
    /\ RxFairness /\ SF_rxVars(ApplicationReads)

(* "If there are no used descriptors, ... try to setup some descriptors    *)
(* now" (lpc18xx_43xx_emac.c:226): a ring that has run out of pbufs gets   *)
(* some again.                                                             *)
RingRefills == rx_free_descs = RxDescs ~> rx_free_descs < RxDescs
=============================================================================
