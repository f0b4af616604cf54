------------------------------ MODULE Tableaux ------------------------------
(***************************************************************************)
(* Tableaux of exact fractions, the pivot that all the C solvers make, and *)
(* the solution that the two of the benchmark read off a tableau.          *)
(* The solvers compute in float; the rounding is left out, so what is said *)
(* of them here is said of the algorithm they carry out.                   *)
(*                                                                         *)
(* A fraction is <<numerator, denominator>>, in lowest terms, with a       *)
(* positive denominator: equal fractions are equal values.  A tableau is a *)
(* function of its rows, from 0, and a row one of its columns, from 0.     *)
(***************************************************************************)
EXTENDS Integers, FiniteSetsExt, Functions

gcd[p \in Nat \X Nat] == IF p[2] = 0 THEN p[1] ELSE gcd[<<p[2], p[1] % p[2]>>]

Size(n) == IF n < 0 THEN -n ELSE n

Fraction(n, d) ==
  LET g == gcd[<<Size(n), Size(d)>>]
      s == IF d < 0 THEN -1 ELSE 1
  IN  <<(s * n) \div g, (s * d) \div g>>

Fractions == {x \in Int \X (Nat \ {0}) : Fraction(x[1], x[2]) = x}

Zero == <<0, 1>>
One == <<1, 1>>

Plus(x, y) == Fraction(x[1] * y[2] + y[1] * x[2], x[2] * y[2])
Minus(x, y) == Fraction(x[1] * y[2] - y[1] * x[2], x[2] * y[2])
Times(x, y) == Fraction(x[1] * y[1], x[2] * y[2])
Over(x, y) == Fraction(x[1] * y[2], x[2] * y[1])
Negated(x) == <<-x[1], x[2]>>

Less(x, y) == x[1] * y[2] < y[1] * x[2]
Negative(x) == x[1] < 0
Positive(x) == x[1] > 0

\* What a search for "smaller than the best so far" leaves: the first of the
\* places where f, which is not empty, is least.
FirstLeast(f) == Min({i \in DOMAIN f : \A k \in DOMAIN f : ~Less(f[k], f[i])})

None == -1

Rows(T) == DOMAIN T
Constraints(T) == Rows(T) \ {0}
Columns(T) == DOMAIN T[0]
RHS(T) == Max(Columns(T))
Ratio(T, i, c) == Over(T[i][RHS(T)], T[i][c])

\* Row r is divided by its entry in column c, and as much of it taken from each
\* other row as clears the column there.
Pivoted(T, r, c) ==
  LET row == [j \in DOMAIN T[r] |-> Over(T[r][j], T[r][c])]
  IN  [i \in DOMAIN T |->
        IF i = r THEN row
        ELSE [j \in DOMAIN T[i] |-> Minus(T[i][j], Times(T[i][c], row[j]))]]

\* The column has a single one, in row r, and zeroes elsewhere.
UnitColumn(T, j, r) == \A i \in Rows(T) : T[i][j] = IF i = r THEN One ELSE Zero

-----------------------------------------------------------------------------
(* store_soln(), the same in both programs.                                 *)

Outside == <<0, 0>>   \* the word read outside the tableau

\* A column is taken for a basic one when it has no negative entry and sums to
\* one, though it may have no entry that is one.
Basic(T, j) ==
  LET column == [i \in Rows(T) |-> T[i][j]]
  IN  /\ \A i \in Rows(T) : ~Negative(column[i])
      /\ FoldFunction(Plus, Zero, column) = One

Value(T, j) ==
  LET ones == {i \in Rows(T) : T[i][j] = One}
  IN  IF ~Basic(T, j) THEN Zero
      ELSE IF ones = {} THEN Outside ELSE T[Max(ones)][RHS(T)]

\* One value for each variable, and behind them that of the objective.
store_soln(T) ==
  [j \in Columns(T) |-> IF j = RHS(T) THEN T[0][j] ELSE Value(T, j)]

=============================================================================
