----------------------------- MODULE MCSolvers -----------------------------
(* Tableaux of three rows, with and without slack variables, of integers and *)
(* of halves, and the two of the repository that are small enough.           *)
EXTENDS Solvers, Sequences

Costs == {-2, -1, 1}
Entries == {-1, 0, 1, 2}
Bounds == {0, 1, 2}

RowOf(s, d) == [j \in 0..Len(s)-1 |-> Fraction(s[j+1], d)]
Over2(rows) == [i \in 0..Len(rows)-1 |-> RowOf(rows[i+1], 2)]
TableauOf(rows) == [i \in 0..Len(rows)-1 |-> RowOf(rows[i+1], 1)]

WithSlacks ==
  {TableauOf(<<c \o <<0, 0, 0>>, a \o <<1, 0, p>>, b \o <<0, 1, q>> >>) :
     c \in [1..2 -> Costs], a, b \in [1..2 -> Entries], p \in Bounds, q \in {0, 1}}

WithoutSlacks ==
  {TableauOf(<<c \o <<0>>, a \o <<p>>, b \o <<q>> >>) :
     c \in [1..3 -> {-2, -1}], a, b \in [1..3 -> {-1, 1}], p, q \in {1, 2}}

\* Columns that sum to one without a one, among them.
Halves ==
  {Over2(<<c \o <<0, 0, 0>>, a \o <<2, 0, p>>, b \o <<0, 2, q>> >>) :
     c \in [1..2 -> {-3, -1}], a, b \in [1..2 -> {-1, 1, 3}], p, q \in {1, 2}}

\* simplex_py_to_c.c:129 and Simplex_Algo.ipynb, objective first.
Repository ==
  {TableauOf(<< <<-40, -30, 0, 0, 0, 1, 0>>, <<1, 2, 1, 0, 0, 0, 16>>,
                <<1, 1, 0, 1, 0, 0, 9>>, <<3, 2, 0, 0, 1, 0, 24>> >>),
   TableauOf(<< <<-5, -4, -3, 0, 0, 0, 0, 1, 0>>, <<1, 0, 0, 1, 0, 0, 0, 0, 30>>,
                <<0, 1, 0, 0, 1, 0, 0, 0, 50>>, <<0, 0, 1, 0, 0, 1, 0, 0, 100>>,
                <<1, 1, 1, 0, 0, 0, 1, 0, 140>> >>)}

MCFiles == WithSlacks \union WithoutSlacks \union Halves \union Repository
=============================================================================
