--------------------------- MODULE MBlazeSolution ---------------------------
(***************************************************************************)
(* What mblaze_send_callback of main.c reads off the final tableau, which  *)
(* the engine has left in DDR, with its last column in a BRAM.             *)
(***************************************************************************)
EXTENDS Tableaux

\* Behind its last row the BRAM holds what an earlier problem left there.
bram_rhs(T, i) == IF i \in Rows(T) THEN T[i][RHS(T)] ELSE Outside

\* Mutation: the zeroes of the column are not counted.
BasisRow_AnyZeroes(T, a) ==
  LET ones == {b \in Rows(T) : T[b][a] = One}
  IN  IF Cardinality(ones) = 1 THEN Max(ones) ELSE None

\* The row of the only one of a column whose other entries are zero.
BasisRow(T, a) ==
  LET ones == {b \in Rows(T) : T[b][a] = One}
      zeroes == {b \in Rows(T) : T[b][a] = Zero}
  IN  IF Cardinality(ones) = 1 /\ Cardinality(zeroes) = Cardinality(Rows(T)) - 1
      THEN Max(ones) ELSE None

\* At the right-hand side the number of the column is taken for that of a row.
formatted_solution(T) ==
  [a \in Columns(T) |->
    IF a = RHS(T) THEN bram_rhs(T, a)
    ELSE IF BasisRow(T, a) = None THEN Zero
    ELSE bram_rhs(T, BasisRow(T, a))]
=============================================================================
