--------------------------- MODULE MCCaptureRound ---------------------------
(***************************************************************************)
(* CaptureRound on small instances: two channels a and b.                  *)
(***************************************************************************)
EXTENDS CaptureRound

CONSTANTS a, b

Pair      == {a, b}
PairOrder == <<a, b>>
OnlyA     == {a}
NoChannel == {}
OneTick   == {1}
=============================================================================
