-------------------------- MODULE MCChoosePivotRow --------------------------
(* The constants are numbers: the configurations give them.                 *)
EXTENDS ChoosePivotRow
=============================================================================
