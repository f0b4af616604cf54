-------------------------- MODULE SimplexOriginal --------------------------
(***************************************************************************)
(* simplex_original_can_oscillate.c: the solver before it was repaired.    *)
(* It takes the most negative cost, pivots on entries of any sign as long  *)
(* as the ratio is not negative, and stops at the first column that has no *)
(* row.                                                                    *)
(***************************************************************************)
EXTENDS Tableaux

CONSTANT Largest   \* 9999999

VARIABLES file, A, pc, flag_soln, outfile

vars == <<A, pc, flag_soln, outfile>>

Init == A = <<>> /\ pc = "start" /\ flag_soln = TRUE /\ outfile = <<>>

Load ==
  /\ pc = "start"
  /\ \/ A' = file /\ pc' = "loop"
     \/ A' = A /\ pc' = "failed"
  /\ UNCHANGED <<flag_soln, outfile>>

\* The most negative cost, the first of several.
pivot_col(T) ==
  LET negative == {j \in Columns(T) : Negative(T[0][j])}
  IN  IF negative = {} THEN None ELSE FirstLeast([j \in negative |-> T[0][j]])

\* Mutation: the last of several rows.
pivot_row_Last(T, c) ==
  LET ratios == [i \in {i \in Constraints(T) : T[i][c] # Zero} |-> Ratio(T, i, c)]
      small == RestrictValues(ratios, LAMBDA x : Less(x, <<Largest, 1>>) /\ ~Negative(x))
  IN  IF DOMAIN small = {} THEN None
      ELSE Max({i \in DOMAIN small : small[i] = small[FirstLeast(small)]})

\* The smallest ratio that is not negative; the first row of several.
pivot_row(T, c) ==
  LET ratios == [i \in {i \in Constraints(T) : T[i][c] # Zero} |-> Ratio(T, i, c)]
      small == RestrictValues(ratios, LAMBDA x : Less(x, <<Largest, 1>>) /\ ~Negative(x))
  IN  IF DOMAIN small = {} THEN None ELSE FirstLeast(small)

col == pivot_col(A)
row == pivot_row(A, col)

NoColumn ==
  /\ pc = "loop" /\ col = None
  /\ pc' = "left"
  /\ UNCHANGED <<A, flag_soln, outfile>>

NoRow ==
  /\ pc = "loop" /\ col # None
  /\ row = None
  /\ flag_soln' = FALSE
  /\ pc' = "left"
  /\ UNCHANGED <<A, outfile>>

Pivot ==
  /\ pc = "loop" /\ col # None
  /\ row # None
  /\ A' = Pivoted(A, row, col)
  /\ UNCHANGED <<pc, flag_soln, outfile>>

\* What the program's own copy of store_soln() writes.
solution == store_soln(A)

\* The solution is stored even if there is none.
Store ==
  /\ pc = "left"
  /\ \/ outfile' = solution /\ pc' = "stored"
     \/ outfile' = outfile /\ pc' = "failed"
  /\ UNCHANGED <<A, flag_soln>>

Next == Load \/ NoColumn \/ NoRow \/ Pivot \/ Store

=============================================================================
