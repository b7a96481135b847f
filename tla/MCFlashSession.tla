--------------------------- MODULE MCFlashSession ---------------------------
EXTENDS FlashSession

(* Past the crowding click the runs have nothing left to check.             *)
Uncrowded == ~crowded
=============================================================================
