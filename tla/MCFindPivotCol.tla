--------------------------- MODULE MCFindPivotCol ---------------------------
(* Three columns; entries of both signs and of magnitude zero, two finite   *)
(* ones and infinite.                                                       *)
EXTENDS FindPivotCol
=============================================================================
