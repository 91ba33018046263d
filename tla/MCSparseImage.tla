--------------------------- MODULE MCSparseImage ---------------------------
(***************************************************************************)
(* Every raw image of up to five blocks with a zero and two other          *)
(* contents, onto a blank partition and onto one full of old data.         *)
(***************************************************************************)
EXTENDS SparseImage

MCOlds == {[b \in 0 .. Part - 1 |-> v] : v \in {0, 2}}

=============================================================================
