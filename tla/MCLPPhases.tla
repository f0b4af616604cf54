----------------------------- MODULE MCLPPhases -----------------------------
(* A tableau of three rows and two columns at address 4 of a small memory.    *)
EXTENDS LPPhases

MCNumCols == 2
MCNumRows == 3
MCDdrStart == 4
MCAddrSpace == 32
=============================================================================
