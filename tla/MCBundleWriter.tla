--------------------------- MODULE MCBundleWriter ---------------------------
(***************************************************************************)
(* BundleWriter on a small instance: two workers, a budget that some runs  *)
(* of records exceed and others do not, payloads and lines of more than    *)
(* one byte so that a write or a crash can cut through them.               *)
(***************************************************************************)
EXTENDS BundleWriter, TLC

CONSTANTS t1, t2

MCThread == {t1, t2}
MCSizes  == {0, 1, 2}

Symmetry == Permutations(MCThread)
=============================================================================
