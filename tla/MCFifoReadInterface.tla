------------------------ MODULE MCFifoReadInterface ------------------------
(* Bursts of four beats and sizes of less than one burst, one, more than    *)
(* one, and 0, into a FIFO of two words.                                     *)
EXTENDS FifoReadInterface

MCBase == 8
MCSizes == {0, 1, 4, 6}
=============================================================================
