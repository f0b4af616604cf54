--------------------------- MODULE MCPivotUpdate ---------------------------
(* The constants are numbers: the configurations give them.                 *)
EXTENDS PivotUpdate
=============================================================================
