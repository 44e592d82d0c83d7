----------------------------- MODULE MCSettings -----------------------------
(***************************************************************************)
(* The instance of Settings that TLC checks.                               *)
(***************************************************************************)
EXTENDS Settings

\* No word a client sends is one of the defaults'.
DefaultWords == [f \in Fields |-> 9]
=============================================================================
