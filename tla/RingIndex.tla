------------------------------ MODULE RingIndex ------------------------------
(***************************************************************************)
(* The arithmetic of the indexes of lpc18xx_43xx_emac.c: a ring of size    *)
(* descriptors, numbered from 0, walked in one direction.  Written without *)
(* a remainder, as the code writes it, and so that it stays linear for the *)
(* provers.                                                                *)
(***************************************************************************)
LOCAL INSTANCE Naturals

Indexes(size) == 0 .. size - 1

(* idx++; if (idx >= size) idx = 0; *)
Succ(size, idx) == IF idx + 1 >= size THEN 0 ELSE idx + 1

(* The index count places after idx, for a count of at most one turn. *)
Advance(size, idx, count) ==
    IF idx + count >= size THEN idx + count - size ELSE idx + count

(* i is one of the count places that begin at idx. *)
InSegment(size, idx, count, i) ==
    \/ idx <= i /\ i < idx + count
    \/ i + size < idx + count
=============================================================================
