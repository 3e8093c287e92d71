------------------------ MODULE MCBookReconstruction ------------------------
(***************************************************************************)
(* The instance of BookReconstruction that TLC checks: a venue whose book  *)
(* starts with one bid and one ask, and room for a level between them.     *)
(***************************************************************************)
EXTENDS BookReconstruction

MCFirstBooks == {[side \in Side |-> IF side = "bids" THEN {1} ELSE {3}]}
=============================================================================
