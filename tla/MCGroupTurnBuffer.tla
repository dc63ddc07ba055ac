--------------------------- MODULE MCGroupTurnBuffer ---------------------------
(***************************************************************************)
(* Instances of GroupTurnBuffer for TLC.                                   *)
(***************************************************************************)
EXTENDS GroupTurnBuffer

CONSTANTS p1, p2, emily

Two == {p1, p2}
===============================================================================
