---------------------------- MODULE SimplexPyToC ----------------------------
(***************************************************************************)
(* simplex_py_to_c.c: the notebook's solver as it was first brought to C,  *)
(* with the objective in the last row and the tableau in the text of the   *)
(* program.  Here it is what simplex_original_can_oscillate.c promises:    *)
(* that program moves the objective to the first row and reads a file, and *)
(* should otherwise make the same pivots.                                  *)
(***************************************************************************)
EXTENDS Tableaux

CONSTANT Largest   \* 9999999

VARIABLES A_test, A, pc, flag_soln

vars == <<A, pc, flag_soln>>

Objective == Max(Rows(A))

Init == A = <<>> /\ pc = "start" /\ flag_soln = TRUE

Call == pc = "start" /\ A' = A_test /\ pc' = "loop" /\ UNCHANGED flag_soln

pivot_col ==
  LET negative == {j \in Columns(A) : Negative(A[Objective][j])}
  IN  IF negative = {} THEN None ELSE FirstLeast([j \in negative |-> A[Objective][j]])

pivot_row ==
  LET ratios == [i \in {i \in Rows(A) \ {Objective} : A[i][pivot_col] # Zero}
                   |-> Ratio(A, i, pivot_col)]
      small == RestrictValues(ratios, LAMBDA x : Less(x, <<Largest, 1>>) /\ ~Negative(x))
  IN  IF DOMAIN small = {} THEN None ELSE FirstLeast(small)

NoColumn == pc = "loop" /\ pivot_col = None /\ pc' = "left" /\ UNCHANGED <<A, flag_soln>>

NoRow ==
  /\ pc = "loop" /\ pivot_col # None /\ pivot_row = None
  /\ flag_soln' = FALSE /\ pc' = "left" /\ UNCHANGED A

Pivot ==
  /\ pc = "loop" /\ pivot_col # None /\ pivot_row # None
  /\ A' = Pivoted(A, pivot_row, pivot_col)
  /\ UNCHANGED <<pc, flag_soln>>

Next == Call \/ NoColumn \/ NoRow \/ Pivot

Spec == Init /\ [][Next]_vars
=============================================================================
