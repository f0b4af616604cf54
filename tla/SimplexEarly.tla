---------------------------- MODULE SimplexEarly ----------------------------
(***************************************************************************)
(* simplex_early_version.c: a first solver, written for itself.  It keeps  *)
(* the objective z apart from the tableau and with the opposite sign, and  *)
(* "assumes problem has feasible optimal solution": when a column has no   *)
(* row it computes with row -1, and nothing is known of it after that.     *)
(* Here it is what simplex_fixed_no_osc.c promises of such problems.       *)
(***************************************************************************)
EXTENDS Tableaux

CONSTANT Infinity   \* 9999999999999, "basically positive infinity"

VARIABLES
  A, b, c,      \* the problem: constraints, their right-hand sides, objective
  tableau, z,   \* rows from 1; the last column is the right-hand side
  pc

vars == <<tableau, z, pc>>

Last == Max(DOMAIN z)

Init == tableau = <<>> /\ z = <<>> /\ pc = "start"

Construct ==
  /\ pc = "start"
  /\ LET n == Max(DOMAIN c) + 1
     IN  /\ z' = [j \in 0..n |-> IF j = n THEN Zero ELSE c[j]]
         /\ tableau' = [i \in DOMAIN A |-> [j \in 0..n |-> IF j = n THEN b[i] ELSE A[i][j]]]
  /\ pc' = "loop"

Improving == {j \in DOMAIN z \ {Last} : Positive(z[j])}
column_index == Min(Improving)

\* The rows that restrict the column: the others count as infinite, and so does a
\* restriction that reaches the number that stands for it.
restriction(i) == Over(tableau[i][Last], tableau[i][column_index])
Restricting ==
  {i \in DOMAIN tableau :
     Positive(tableau[i][column_index]) /\ Less(restriction(i), <<Infinity, 1>>)}
restrictions == [i \in Restricting |-> restriction(i)]

Optimal == pc = "loop" /\ Improving = {} /\ pc' = "optimal" /\ UNCHANGED <<tableau, z>>

Cleared(r, pivot) == [j \in DOMAIN r |-> Minus(r[j], Times(r[column_index], pivot[j]))]

Pivot ==
  /\ pc = "loop" /\ Improving # {} /\ DOMAIN restrictions # {}
  /\ LET row_index == FirstLeast(restrictions)
         pivot == [j \in DOMAIN z |->
                     Over(tableau[row_index][j], tableau[row_index][column_index])]
     IN  /\ tableau' = [i \in DOMAIN tableau |->
                          IF i = row_index THEN pivot ELSE Cleared(tableau[i], pivot)]
         /\ z' = Cleared(z, pivot)
  /\ UNCHANGED pc

NoRow ==
  /\ pc = "loop" /\ Improving # {} /\ DOMAIN restrictions = {}
  /\ pc' = "undefined"

\* What is printed in the end: a column is basic when, with its entry of z, it
\* sums to one and is zero but in one place.
solution ==
  [j \in DOMAIN z |->
    LET column == [i \in {0} \union DOMAIN tableau |-> IF i = 0 THEN z[j] ELSE tableau[i][j]]
        zeroes == {i \in DOMAIN column : column[i] = Zero}
        one == Max({0} \union {i \in DOMAIN column : column[i] = One})
    IN  IF FoldFunction(Plus, Zero, column) # One \/ Cardinality(zeroes) # Cardinality(DOMAIN tableau)
        THEN Zero
        ELSE IF one = 0 THEN z[Last] ELSE tableau[one][Last]]

Next == Construct \/ Optimal \/ Pivot \/ NoRow \/ (pc = "undefined" /\ pc' = "undefined")

Spec == Init /\ [][Next]_vars
=============================================================================
