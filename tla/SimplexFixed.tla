---------------------------- MODULE SimplexFixed ----------------------------
(***************************************************************************)
(* simplex_fixed_no_osc.c: the solver the hardware is measured against.    *)
(* The program reads a tableau from a file, pivots until it finds no       *)
(* column or believes it is in a cycle, and stores the values of the       *)
(* variables.  One step is one turn of the loop of simplex().              *)
(*                                                                         *)
(* The iteration counter, which is only printed, is left out.              *)
(***************************************************************************)
EXTENDS Tableaux

CONSTANT Largest   \* where the search for the smallest ratio starts: 9999999

ASSUME LargestAssumption == Largest \in Nat \ {0}

VARIABLES
  file,                      \* the tableau in the file
  A, pc, flag_soln,
  two_iter_ago, one_iter_ago,    \* the pivot column and row of these turns
  prev_fail_pivot_col_idx,
  outfile                    \* what store_soln has written

fixed_vars == <<A, pc, flag_soln, two_iter_ago, one_iter_ago, prev_fail_pivot_col_idx, outfile>>

FixedInit ==
  /\ A = <<>> /\ pc = "start" /\ flag_soln = TRUE
  /\ two_iter_ago = <<None, None>> /\ one_iter_ago = <<None, None>>
  /\ prev_fail_pivot_col_idx = None
  /\ outfile = <<>>

\* Every check of main() on the file ends the program, and so does the debug file
\* of simplex() that cannot be opened.
Load ==
  /\ pc = "start"
  /\ \/ A' = file /\ pc' = "loop"
     \/ A' = A /\ pc' = "failed"
  /\ UNCHANGED <<flag_soln, two_iter_ago, one_iter_ago, prev_fail_pivot_col_idx, outfile>>

-----------------------------------------------------------------------------
(* The choice of the pivot.                                                 *)

\* Mutation: the largest cost decides, as in the program's first version.
pivot_col_Largest(T, failed) ==
  LET negative == {j \in Columns(T) : Negative(T[0][j]) /\ j > failed}
  IN  IF negative = {} THEN None ELSE FirstLeast([j \in negative |-> T[0][j]])

\* Bland's rule: the first negative cost, behind the column that has just failed.
pivot_col(T, failed) ==
  LET negative == {j \in Columns(T) : Negative(T[0][j]) /\ j > failed}
  IN  IF negative = {} THEN None ELSE Min(negative)

\* Mutation: the rule of the program's first version, which pivots on negative
\* entries too.
pivot_row_AnySign(T, c) ==
  LET ratios == [i \in {i \in Constraints(T) : T[i][c] # Zero} |-> Ratio(T, i, c)]
      small == RestrictValues(ratios, LAMBDA x : Less(x, <<Largest, 1>>) /\ ~Negative(x))
  IN  IF DOMAIN small = {} THEN None ELSE FirstLeast(small)

\* Mutation: the smallest ratio so far is not kept.
pivot_row_NotKept(T, c) ==
  LET ratios == [i \in {i \in Constraints(T) : Positive(T[i][c])} |-> Ratio(T, i, c)]
      small == RestrictValues(ratios, LAMBDA x : Less(x, <<Largest, 1>>))
  IN  IF DOMAIN small = {} THEN None ELSE Max(DOMAIN small)

\* The smallest ratio over the positive entries; the first row of several.
pivot_row(T, c) ==
  LET ratios == [i \in {i \in Constraints(T) : Positive(T[i][c])} |-> Ratio(T, i, c)]
      small == RestrictValues(ratios, LAMBDA x : Less(x, <<Largest, 1>>))
  IN  IF DOMAIN small = {} THEN None ELSE FirstLeast(small)

col == pivot_col(A, prev_fail_pivot_col_idx)
row == pivot_row(A, col)

-----------------------------------------------------------------------------

NoColumn ==
  /\ pc = "loop" /\ col = None
  /\ pc' = "no column"
  /\ UNCHANGED <<A, flag_soln, two_iter_ago, one_iter_ago, prev_fail_pivot_col_idx, outfile>>

\* The same column and row as two turns ago, a row that was not found included.
SameAsTwoAgo == two_iter_ago = <<col, row>>

CycleDetected ==
  /\ pc = "loop" /\ col # None /\ SameAsTwoAgo
  /\ pc' = "cycle"
  /\ UNCHANGED <<A, flag_soln, two_iter_ago, one_iter_ago, prev_fail_pivot_col_idx, outfile>>

Remember ==
  /\ two_iter_ago' = one_iter_ago
  /\ one_iter_ago' = <<col, row>>

\* No row: another column is tried.
NoRow ==
  /\ pc = "loop" /\ col # None /\ ~SameAsTwoAgo
  /\ row = None
  /\ Remember
  /\ flag_soln' = FALSE
  /\ prev_fail_pivot_col_idx' = col
  /\ UNCHANGED <<A, pc, outfile>>

\* Mutation: the columns before the one that failed stay excluded.
Pivot_KeepFailed ==
  /\ pc = "loop" /\ col # None /\ ~SameAsTwoAgo
  /\ row # None
  /\ Remember
  /\ A' = Pivoted(A, row, col)
  /\ UNCHANGED <<pc, flag_soln, prev_fail_pivot_col_idx, outfile>>

Pivot ==
  /\ pc = "loop" /\ col # None /\ ~SameAsTwoAgo
  /\ row # None
  /\ Remember
  /\ A' = Pivoted(A, row, col)
  /\ prev_fail_pivot_col_idx' = None
  /\ UNCHANGED <<pc, flag_soln, outfile>>

-----------------------------------------------------------------------------

\* Called however the loop was left.
Store ==
  /\ pc \in {"no column", "cycle"}
  /\ \/ outfile' = store_soln(A) /\ pc' = "stored"
     \/ outfile' = outfile /\ pc' = "failed"   \* no file to write to
  /\ UNCHANGED <<A, flag_soln, two_iter_ago, one_iter_ago, prev_fail_pivot_col_idx>>

FixedNext == Load \/ NoColumn \/ CycleDetected \/ NoRow \/ Pivot \/ Store

=============================================================================
