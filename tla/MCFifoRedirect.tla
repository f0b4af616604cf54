--------------------------- MODULE MCFifoRedirect ---------------------------
(* The constants are numbers: the configuration gives them.                 *)
EXTENDS FifoRedirect
=============================================================================
