------------------------------- MODULE MCEmac --------------------------------
(***************************************************************************)
(* Both rings of the EMAC driver.  They share no variable, so what one of  *)
(* them does between two steps of the other changes nothing for it, and    *)
(* the instance lets one of them at a time have traffic, instead of        *)
(* exploring the product.                                                  *)
(***************************************************************************)
EXTENDS EmacRx, EmacTx, TLC

CONSTANTS a, b, c
MCFrags == a :> 2 @@ b :> 1 @@ c :> 1

VARIABLE traffic
vars == <<rxVars, txVars, traffic>>

Init == RxInit /\ TxInit /\ traffic \in {"rx", "tx"}

RxTurn(A) == traffic = "rx" /\ A /\ UNCHANGED <<txVars, traffic>>
TxTurn(A) == traffic = "tx" /\ A /\ UNCHANGED <<rxVars, traffic>>

Next == RxTurn(RxNext) \/ TxTurn(TxNext)

Spec ==
    /\ Init /\ [][Next]_vars
    /\ WF_vars(RxTurn(RxIsr)) /\ SF_vars(RxTurn(ReceiveTask))
    /\ WF_vars(TxTurn(TxDma)) /\ WF_vars(TxTurn(TxIsr))
    /\ SF_vars(TxTurn(OutputStep)) /\ SF_vars(TxTurn(CleanupTask))
=============================================================================
