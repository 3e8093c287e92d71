--------------------------- MODULE MCPairedReceipts ---------------------------
(***************************************************************************)
(* Rounds and native ids are alike: nothing but equality is asked of them. *)
(***************************************************************************)
EXTENDS PairedReceipts, TLC

CONSTANTS r1, r2, t1, t2

MCSymmetry == Permutations({r1, r2}) \cup Permutations({t1, t2})
=============================================================================
