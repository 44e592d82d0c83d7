------------------------------- MODULE SeqNum -------------------------------
(***************************************************************************)
(* Sequence numbers and the macros of tcp_impl.h that compare them.  They  *)
(* are u32_t, so they wrap; a difference is read as an s32_t, which gives  *)
(* the right answer for numbers less than half the circle apart.           *)
(***************************************************************************)
EXTENDS Integers

CONSTANT Modulus   \* 2^32 in the program

ASSUME ModulusAssumption == Modulus \in Nat \ {0} /\ Modulus % 2 = 0

SeqNo == 0 .. Modulus - 1

Plus(a, n) == (a + n) % Modulus

\* (u32_t)(a - b)
Dist(a, b) == (a - b) % Modulus

\* (s32_t)(a - b)
Diff(a, b) == IF Dist(a, b) < Modulus \div 2 THEN Dist(a, b) ELSE Dist(a, b) - Modulus

TCP_SEQ_LT(a, b) == Diff(a, b) < 0
TCP_SEQ_LEQ(a, b) == Diff(a, b) <= 0
TCP_SEQ_GT(a, b) == Diff(a, b) > 0
TCP_SEQ_GEQ(a, b) == Diff(a, b) >= 0
TCP_SEQ_BETWEEN(a, b, c) == TCP_SEQ_GEQ(a, b) /\ TCP_SEQ_LEQ(a, c)
=============================================================================
