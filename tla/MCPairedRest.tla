----------------------------- MODULE MCPairedRest -----------------------------
(***************************************************************************)
(* PairedRest on a small instance: eight rows of two bytes meet the        *)
(* capacity exactly, an answer of 16 never fits.                           *)
(***************************************************************************)
EXTENDS PairedRest

MCBodies == [standard |-> {1, 16}, aws |-> {1}]
=============================================================================
