------------------------------ MODULE Solvers ------------------------------
(***************************************************************************)
(* The benchmark on one file: the repaired solver is run, then the one it  *)
(* was repaired from.                                                      *)
(***************************************************************************)
EXTENDS SimplexFixed

CONSTANTS
  Files,      \* tableaux of fractions
  Infinity    \* of the early solver, 9999999999999

ASSUME InfinityAssumption == Infinity \in Nat /\ Infinity >= Largest

\* What tableau_generator.py writes: rows of one length, an objective that starts
\* at zero, and right-hand sides that are not negative.  The numbers are random, and
\* each float is a fraction.
ASSUME FilesAssumption ==
  \A f \in Files :
    /\ \E m \in DOMAIN f, n \in DOMAIN f[0] :
         m \in Nat /\ n \in Nat \ {0} /\ f \in [0..m -> [0..n -> Fractions]]
    /\ f[0][RHS(f)] = Zero
    /\ \A i \in Constraints(f) : ~Negative(f[i][RHS(f)])

VARIABLES A_o, pc_o, flag_soln_o, outfile_o

Original ==
  INSTANCE SimplexOriginal WITH
    A <- A_o, pc <- pc_o, flag_soln <- flag_soln_o, outfile <- outfile_o

original_vars == <<A_o, pc_o, flag_soln_o, outfile_o>>
solvers_vars == <<file, fixed_vars, original_vars>>

SolversInit ==
  /\ file \in Files
  /\ FixedInit
  /\ Original!Init

SolversNext ==
  \/ FixedNext /\ UNCHANGED <<file, original_vars>>
  \/ pc = "stored" /\ Original!Next /\ UNCHANGED <<file, fixed_vars>>

SolversSpec == SolversInit /\ [][SolversNext]_solvers_vars

(* Fairness: the operating system goes on running the first program until it *)
(* has ended, which is weak fairness of its steps, for they are its only ones. *)
Ended == pc \in {"stored", "failed"}
FairSolversSpec == SolversSpec /\ ([]<>Ended \/ []<><<TRUE>>_fixed_vars)

-----------------------------------------------------------------------------

\* A pivot of the repaired solver never lowers the objective, and never makes a
\* right-hand side negative: every vertex it visits is feasible and no worse.
NeverWorse ==
  [][A # <<>> =>
       /\ ~Less(A'[0][RHS(A)], A[0][RHS(A)])
       /\ \A i \in Constraints(A) : ~Negative(A'[i][RHS(A)])]_A

\* When it leaves because it finds no column, each variable that would still
\* raise the objective can do so without bound, as far as the program can tell:
\* no constraint stops it below the ratio that stands for infinity.  A column
\* that failed is only passed over while it would fail again.
NothingOverlooked ==
  pc = "no column" =>
    \A j \in Columns(A) : Negative(A[0][j]) =>
      \A i \in Constraints(A) :
        Positive(A[i][j]) => ~Less(Ratio(A, i, j), <<Largest, 1>>)

\* The final tableau can be read: what is taken for a basic column is a unit
\* column, and no two belong to one constraint.  One that belongs to the objective
\* row stands for the objective itself.
Readable ==
  /\ \A j \in Columns(A) \ {RHS(A)} :
       Basic(A, j) => \E r \in Rows(A) : UnitColumn(A, j, r)
  /\ \A j, k \in Columns(A) \ {RHS(A)} :
       \A r \in Constraints(A) : UnitColumn(A, j, r) /\ UnitColumn(A, k, r) => j = k
Variables == {j \in Columns(A) \ {RHS(A)} : ~UnitColumn(A, j, 0)}

Feasible(values) ==
  LET Sum(coefs) == FoldFunction(Plus, Zero, [j \in Variables |-> Times(values[j], coefs[j])])
  IN  /\ \A j \in Variables : ~Negative(values[j])
      /\ \A i \in Constraints(file) : ~Less(file[i][RHS(file)], Sum(file[i]))
      /\ Sum(file[0]) = Negated(A[0][RHS(A)])

Board == INSTANCE MBlazeSolution

Early ==
  INSTANCE SimplexEarly WITH
    A <- [i \in Constraints(file) |-> [j \in Columns(file) \ {RHS(file)} |-> file[i][j]]],
    b <- [i \in Constraints(file) |-> file[i][RHS(file)]],
    c <- [j \in Columns(file) \ {RHS(file)} |-> Negated(file[0][j])],
    tableau <- IF A = <<>> THEN <<>> ELSE [i \in Constraints(A) |-> A[i]],
    z <- IF A = <<>> THEN <<>> ELSE [j \in Columns(A) |-> Negated(A[0][j])],
    pc <- IF A = <<>> THEN "start" ELSE IF ~flag_soln THEN "undefined"
          ELSE IF pc = "loop" THEN "loop" ELSE "optimal"

\* Where the final tableau can be read, the values stored satisfy the constraints
\* of the file and the objective is theirs.  So do those that the board's program
\* reads off the same tableau, and, where each column had its row, those that the
\* early solver prints: three ways to tell a basic column.
StoredIsFeasible ==
  pc = "stored" /\ Readable =>
    /\ Feasible(outfile) /\ outfile[RHS(A)] = A[0][RHS(A)]
    /\ Feasible(Board!formatted_solution(A))
    /\ flag_soln => Feasible(Early!solution)

\* The program comes to its end.
Ends == <>Ended

\* The two programs agree on the optimum of a problem with a slack variable in
\* each constraint, when neither met a column without a row.
HasSlacks(T) ==
  \A i \in Constraints(T) : \E j \in Columns(T) \ {RHS(T)} : UnitColumn(T, j, i)
SameOptimum ==
  /\ pc = "stored" /\ pc_o = "stored"
  /\ flag_soln /\ flag_soln_o
  /\ HasSlacks(file)
  => outfile[RHS(file)] = outfile_o[RHS(file)]

-----------------------------------------------------------------------------
(* Refinements.                                                             *)

\* The repaired solver makes the pivots of the early one, until a column has no row.
ImplementsEarly == Early!Spec

ObjectiveLast(T) ==
  [i \in Rows(T) |-> IF i = Max(Rows(T)) THEN T[0] ELSE T[i + 1]]

PyToC ==
  INSTANCE SimplexPyToC WITH
    A_test <- ObjectiveLast(file),
    A <- IF A_o = <<>> THEN <<>> ELSE ObjectiveLast(A_o),
    pc <- IF A_o = <<>> THEN "start" ELSE IF pc_o = "loop" THEN "loop" ELSE "left",
    flag_soln <- flag_soln_o

\* The first version makes the pivots of the translation it comes from.
ImplementsPyToC == PyToC!Spec
=============================================================================
