--------------------------- MODULE Programs_proofs ---------------------------
(***************************************************************************)
(* Proofs about the programs in C.                                         *)
(*                                                                         *)
(* The first half is about the program of the MicroBlaze, for every size   *)
(* of the tableau, every cutting of its bytes into packets and every limit *)
(* of lwIP.  Data of unbounded length grow at their end: the bytes of a    *)
(* packet, the writes that wait for their acknowledgement.  What is said   *)
(* of all of them follows from the least number for which it would fail.   *)
(*                                                                         *)
(* The second half is about the solvers of the benchmark, for every file   *)
(* of integers of every size.  It begins with the fractions they are       *)
(* modelled with, whose lowest terms come from Euclid's algorithm.         *)
(***************************************************************************)
EXTENDS MBlazeApp, Solvers, SequenceTheorems, FiniteSetTheorems, WellFoundedInduction,
        TLAPS

(* The inductive invariant.                                                 *)

\* What is stored of the first w words: the words themselves, and, of their e
\* elements of the tableau, the ends of the rows and the first row.
WordsStored(w) == [i \in 1..w |-> HostWord(i - 1)]
RowEndsStored(e) == [r \in 1..(e \div NumCols) |-> r * NumCols - 1]
FirstRowStored(e) == [c \in 1..(IF e < NumCols THEN e ELSE NumCols) |-> c - 1]

Elements(w) == IF w >= 2 THEN w - 2 ELSE 0
BytesHeld(w, c) == [b \in 1..c |-> [word |-> w, byte |-> b - 1]]

\* The reception after w words and c bytes of the next one.
ReceptionOf(w, c) ==
  [r_element_counter |-> w,
   recv_counter |-> c,
   recv_placeholder |-> BytesHeld(w, c),
   num_rows |-> IF w >= 1 THEN NumRows ELSE 0,
   num_cols |-> IF w >= 2 THEN NumCols ELSE 0,
   ddr |-> WordsStored(w),
   bram_rhs |-> RowEndsStored(Elements(w)),
   bram_obj |-> FirstRowStored(Elements(w))]

ReceptionAt(k) == ReceptionOf(k \div BytesPerWord, k % BytesPerWord)

\* What the reception keeps depends only on how many bytes have come.
BytesCounted ==
  /\ arrived \in 0..HostBytes
  /\ Reception = ReceptionAt(arrived)

\* The start is given with the last byte, never before and never twice.
StartedAtEnd ==
  /\ starts = IF arrived = HostBytes THEN 1 ELSE 0
  /\ starts = 1 =>
       bridge = [num_rows |-> NumRows, num_rows_1 |-> NumRows - 1, num_cols |-> NumCols,
                 num_cols_1 |-> NumCols - 1, tableau_size |-> Total]

\* Nothing has come or gone before there is a connection.
Silent ==
  /\ main_pc \in {"start", "returned", "dhcp", "setup"} => conn = "none"
  /\ conn \in {"none", "connecting"} => arrived = 0 /\ received = <<>> /\ unacked = <<>>

\* Before the engine has answered, no element of a solution is sent.
SendsAfterAnswer ==
  /\ s_element_counter \in 0..NumCols
  /\ starts = 0 => engine = "idle"
  /\ starts = 0 \/ engine \in {"running", "done"} =>
       send_state = 0 /\ sender = "none" /\ s_element_counter = 0

\* What is written is the request, then the solution up to the counter.
Sent == received \o FlattenSeq(unacked)
SentInOrder ==
  /\ received \in Seq(Int) /\ unacked \in Seq(Seq(Int))
  /\ starts = 0 => Sent \in {<<>>, <<Ready>>}
  /\ starts = 1 => Sent = <<Ready>> \o [i \in 1..s_element_counter |-> i - 1]

IInv == BytesCounted /\ StartedAtEnd /\ Silent /\ SendsAfterAnswer /\ SentInOrder

-----------------------------------------------------------------------------
(* Numbers.                                                                 *)

LEMMA Ranges ==
  /\ NumRows \in Nat \ {0} /\ NumCols \in Nat \ {0} /\ BytesPerWord \in Nat \ {0}
  /\ Total \in Nat \ {0} /\ HostBytes \in Nat /\ HostBytes # 0
<1>1. NumRows \in Nat \ {0} /\ NumCols \in Nat \ {0} /\ BytesPerWord \in Nat \ {0}
  BY AppAssumption
<1>2. Total \in Nat \ {0}
  BY <1>1 DEF Total
<1>3. HostBytes \in Nat /\ HostBytes # 0
  BY <1>1, <1>2 DEF HostBytes
<1> QED
  BY <1>1, <1>2, <1>3

\* Quotient and remainder, their being the only ones, and those of the next number.
LEMMA Division ==
  ASSUME NEW a \in Nat, NEW n \in Nat \ {0}
  PROVE  /\ a \div n \in Nat /\ a % n \in 0..n-1
         /\ a = (a \div n) * n + (a % n)
<1> DEFINE q == a \div n
           p == a % n
<1>1. q \in Int /\ p \in 0..n-1 /\ a = n * q + p
  OBVIOUS
<1> HIDE DEF q, p
<1>2. q \in Nat
  <2> SUFFICES ASSUME q < 0 PROVE FALSE
    BY <1>1
  <2>1. n * q <= n * (0 - 1)
    BY <1>1
  <2> QED
    BY <2>1, <1>1
<1>3. n * q = q * n
  BY <1>1
<1>4. q \in Nat /\ p \in 0..n-1 /\ a = q * n + p
  BY <1>1, <1>2, <1>3
<1> QED
  BY <1>4 DEF q, p

LEMMA Unique ==
  ASSUME NEW n \in Nat \ {0}, NEW q \in Nat, NEW p \in 0..n-1, NEW r \in Nat, NEW d \in 0..n-1,
         q * n + p = r * n + d
  PROVE  q = r /\ p = d
<1>1. ASSUME NEW a \in Nat, NEW b \in Nat, a < b
      PROVE  a * n + n <= b * n
  <2>1. a + 1 \in Nat /\ a + 1 <= b /\ b - (a + 1) \in Nat
    BY <1>1
  <2>3. (a + 1) * n + (b - (a + 1)) * n = b * n
    BY <2>1
  <2>4. (b - (a + 1)) * n \in Nat /\ (a + 1) * n \in Int
    BY <2>1
  <2>2. (a + 1) * n = a * n + n
    OBVIOUS
  <2> QED
    BY <2>2, <2>3, <2>4
<1>2. q * n \in Int /\ r * n \in Int
  OBVIOUS
<1>3. CASE q < r
  BY <1>1, <1>2, <1>3
<1>4. CASE r < q
  BY <1>1, <1>2, <1>4
<1>5. CASE q = r
  BY <1>2, <1>5
<1> QED
  BY <1>3, <1>4, <1>5

LEMMA Quotient ==
  ASSUME NEW a \in Nat, NEW n \in Nat \ {0}, NEW q \in Nat, NEW p \in 0..n-1, a = q * n + p
  PROVE  a \div n = q /\ a % n = p
<1> DEFINE r == a \div n
           d == a % n
<1>1. r \in Nat /\ d \in 0..n-1 /\ a = r * n + d
  BY Division
<1> HIDE DEF r, d
<1>2. q = r /\ p = d
  BY <1>1, Unique
<1> QED
  BY <1>2 DEF r, d

LEMMA NextQuotient ==
  ASSUME NEW a \in Nat, NEW n \in Nat \ {0}
  PROVE  IF (a % n) + 1 = n
         THEN (a + 1) % n = 0 /\ (a + 1) \div n = (a \div n) + 1
         ELSE (a + 1) % n = (a % n) + 1 /\ (a + 1) \div n = a \div n
<1> DEFINE q == a \div n
           p == a % n
<1>1. q \in Nat /\ p \in 0..n-1 /\ a = q * n + p
  BY Division
<1> HIDE DEF q, p
<1>2. CASE p + 1 = n
  <2>1. (q + 1) * n = q * n + n /\ q * n \in Int
    BY <1>1
  <2>2. a + 1 = (q + 1) * n + 0 /\ a + 1 \in Nat /\ q + 1 \in Nat /\ 0 \in 0..n-1
    BY <2>1, <1>1, <1>2
  <2>3. (a + 1) \div n = q + 1 /\ (a + 1) % n = 0
    BY <2>2, Quotient
  <2> QED
    BY <2>3, <1>2 DEF q, p
<1>3. CASE p + 1 # n
  <2>1. q * n \in Int
    BY <1>1
  <2>2. a + 1 = q * n + (p + 1) /\ a + 1 \in Nat /\ p + 1 \in 0..n-1
    BY <2>1, <1>1, <1>3
  <2>3. (a + 1) \div n = q /\ (a + 1) % n = p + 1
    BY <2>2, <1>1, Quotient
  <2> QED
    BY <2>3, <1>3 DEF q, p
<1> QED
  BY <1>2, <1>3 DEF q, p

-----------------------------------------------------------------------------
(* Numbers and sequences, one after the other.                              *)

\* A set of numbers has a least one.
LEMMA Least ==
  ASSUME NEW T, T \subseteq Nat, T # {}
  PROVE  \E x \in T : \A y \in T : x <= y
<1> DEFINE R == OpToRel(<, Nat)
<1>1. \A x, y \in Nat : <<y, x>> \in R <=> y < x
  BY SMT DEF OpToRel
<1>2. IsWellFoundedOn(R, Nat)
  BY NatLessThanWellFounded
<1> HIDE DEF R
<1>3. PICK x \in T : \A y \in T : ~ (<<y, x>> \in R)
  BY <1>2, WFMin
<1>4. ASSUME NEW y \in T PROVE x <= y
  <2>1. ~ (<<y, x>> \in R)
    BY <1>3
  <2>2. x \in Nat /\ y \in Nat
    OBVIOUS
  <2>3. ~ (y < x)
    BY <1>1, <2>1, <2>2
  <2> QED
    BY <2>2, <2>3
<1> QED
  BY <1>4

\* A set that holds 0, and with each number the next, holds all.
LEMMA Induction ==
  ASSUME NEW T, T \subseteq Nat, 0 \in T, \A n \in T : n + 1 \in T
  PROVE  T = Nat
<1> SUFFICES ASSUME Nat \ T # {} PROVE FALSE
  OBVIOUS
<1>1. PICK x \in Nat \ T : \A y \in Nat \ T : x <= y
  BY Least
<1>2. x # 0 /\ x - 1 \in Nat /\ x - 1 \notin Nat \ T
  BY <1>1
<1> QED
  BY <1>1, <1>2

\* Three sequences may be joined in either order.
LEMMA Associative ==
  ASSUME NEW S, NEW p \in Seq(S), NEW q \in Seq(S), NEW r \in Seq(S)
  PROVE  (p \o q) \o r = p \o (q \o r)
BY ConcatAssociative

\* g holds the concatenations of the first sequences of s, as FlattenSeq builds them.
Flattens(g, s, n) ==
  g = [i \in 1..n |-> IF i = 1 THEN s[i] ELSE g[i - 1] \o s[i]]

LEMMA FlattenExists ==
  ASSUME NEW s, NEW n \in Nat
  PROVE  \E g : Flattens(g, s, n)
<1> DEFINE T == {m \in Nat : \E g : Flattens(g, s, m)}
<1>1. 0 \in T
  <2>1. Flattens([i \in 1..0 |-> 0], s, 0)
    BY DEF Flattens
  <2> QED
    BY <2>1
<1>2. ASSUME NEW m \in T PROVE m + 1 \in T
  <2>1. PICK g : Flattens(g, s, m)
    OBVIOUS
  <2> DEFINE h == [i \in 1..m+1 |-> IF i = m + 1 THEN IF i = 1 THEN s[1] ELSE g[m] \o s[m + 1]
                                    ELSE g[i]]
  <2>2. h = [i \in 1..m+1 |-> IF i = 1 THEN s[i] ELSE h[i - 1] \o s[i]]
    <3>1. ASSUME NEW i \in 1..m+1
          PROVE  h[i] = IF i = 1 THEN s[i] ELSE h[i - 1] \o s[i]
      <4>1. CASE i = m + 1
        <5>1. CASE i = 1
          BY <4>1, <5>1
        <5>2. CASE i # 1
          <6>1. i - 1 \in 1..m+1 /\ i - 1 # m + 1 /\ i - 1 = m
            BY <4>1, <5>2
          <6>2. h[i - 1] = g[m]
            BY <6>1
          <6>3. h[i] = g[m] \o s[m + 1]
            BY <4>1, <5>2
          <6> QED
            BY <6>2, <6>3, <4>1, <5>2
        <5> QED
          BY <5>1, <5>2
      <4>2. CASE i # m + 1
        <5>1. i \in 1..m /\ h[i] = g[i]
          BY <4>2
        <5>2. g[i] = IF i = 1 THEN s[i] ELSE g[i - 1] \o s[i]
          BY <2>1, <5>1 DEF Flattens
        <5>3. i # 1 => i - 1 \in 1..m+1 /\ i - 1 # m + 1
          BY <5>1
        <5>4. i # 1 => h[i - 1] = g[i - 1]
          BY <5>3
        <5> QED
          BY <5>1, <5>2, <5>4
      <4> QED
        BY <4>1, <4>2
    <3> QED
      BY <3>1
  <2> HIDE DEF h
  <2>3. Flattens(h, s, m + 1)
    BY <2>2 DEF Flattens
  <2> QED
    BY <2>3
<1> HIDE DEF T
<1>3. T = Nat
  <2>1. T \subseteq Nat
    BY DEF T
  <2> QED
    BY <1>1, <1>2, <2>1, Induction
<1> QED
  BY <1>3 DEF T

\* What FlattenSeq computes.
LEMMA FlattenDef ==
  ASSUME NEW s, Len(s) \in Nat, Len(s) # 0
  PROVE  \E g : Flattens(g, s, Len(s)) /\ FlattenSeq(s) = g[Len(s)]
<1> DEFINE g == CHOOSE f : f = [i \in 1..Len(s) |-> IF i = 1 THEN s[i] ELSE f[i - 1] \o s[i]]
<1>1. g = [i \in 1..Len(s) |-> IF i = 1 THEN s[i] ELSE g[i - 1] \o s[i]]
  BY FlattenExists, Zenon DEF Flattens
<1>2. FlattenSeq(s) = g[Len(s)]
  BY Zenon DEF FlattenSeq
<1> HIDE DEF g
<1> QED
  BY <1>1, <1>2 DEF Flattens

\* A set that holds 1, and with each number up to n the next, holds the first n.
LEMMA UpTo ==
  ASSUME NEW n \in Nat, NEW T, T \subseteq Nat, 1 \in T,
         \A m \in 1..n : m \in T => m + 1 \in T
  PROVE  \A m \in 1..n : m \in T
<1> DEFINE U == {k \in Nat : k + 1 \in 1..n => k + 1 \in T}
<1>1. 0 \in U
  OBVIOUS
<1>2. ASSUME NEW k \in U PROVE k + 1 \in U
  BY SMT
<1> HIDE DEF U
<1>3. U = Nat
  <2>1. U \subseteq Nat
    BY DEF U
  <2> QED
    BY <1>1, <1>2, <2>1, Induction
<1>4. ASSUME NEW m \in 1..n PROVE m \in T
  <2>1. m - 1 \in U /\ (m - 1) + 1 = m
    BY <1>3
  <2> QED
    BY <2>1 DEF U
<1> QED
  BY <1>4

LEMMA FlattenElement ==
  ASSUME NEW S, NEW s \in Seq(Seq(S)), NEW g, Flattens(g, s, Len(s))
  PROVE  \A n \in 1..Len(s) : g[n] \in Seq(S)
<1> DEFINE T == {m \in Nat : m \in 1..Len(s) => g[m] \in Seq(S)}
<1>1. ASSUME NEW i \in 1..Len(s)
      PROVE  s[i] \in Seq(S) /\ g[i] = IF i = 1 THEN s[i] ELSE g[i - 1] \o s[i]
  BY ElementOfSeq DEF Flattens
<1>2. 1 \in T
  BY <1>1
<1>3. ASSUME NEW m \in 1..Len(s), m \in T PROVE m + 1 \in T
  <2> SUFFICES ASSUME m + 1 \in 1..Len(s) PROVE g[m + 1] \in Seq(S)
    OBVIOUS
  <2> DEFINE j == m + 1
  <2>1. j \in 1..Len(s) /\ j # 1 /\ j - 1 = m /\ g[m] \in Seq(S)
    BY <1>3
  <2> HIDE DEF j, T
  <2>2. g[j] = g[m] \o s[j] /\ s[j] \in Seq(S)
    BY <2>1, <1>1
  <2> QED
    BY <2>1, <2>2, ConcatProperties DEF j
<1>4. Len(s) \in Nat /\ T \subseteq Nat
  OBVIOUS
<1> HIDE DEF T
<1>5. \A m \in 1..Len(s) : m \in T
  BY <1>2, <1>3, <1>4, UpTo
<1> QED
  BY <1>5 DEF T

\* The same, said of each place alone.
Sums(g, s, n) == \A i \in 1..n : g[i] = IF i = 1 THEN s[i] ELSE g[i - 1] \o s[i]

LEMMA FlattenUnique ==
  ASSUME NEW s, NEW n \in Nat, NEW g, NEW h, Sums(g, s, n), Sums(h, s, n)
  PROVE  \A m \in 1..n : g[m] = h[m]
<1> USE DEF Sums
<1> DEFINE T == {m \in Nat : m \in 1..n => g[m] = h[m]}
<1>1. 1 \in T
  OBVIOUS
<1>2. ASSUME NEW m \in 1..n, m \in T PROVE m + 1 \in T
  <2> SUFFICES ASSUME m + 1 \in 1..n PROVE g[m + 1] = h[m + 1]
    OBVIOUS
  <2> DEFINE j == m + 1
  <2>1. j \in 1..n /\ j # 1 /\ j - 1 = m /\ g[m] = h[m]
    BY <1>2
  <2> HIDE DEF j, T
  <2>2. g[j] = g[m] \o s[j] /\ h[j] = h[m] \o s[j]
    BY <2>1
  <2> QED
    BY <2>1, <2>2 DEF j
<1>3. T \subseteq Nat
  OBVIOUS
<1> HIDE DEF T
<1>4. \A m \in 1..n : m \in T
  BY <1>1, <1>2, <1>3, UpTo
<1> QED
  BY <1>4 DEF T

LEMMA FlattenType ==
  ASSUME NEW S, NEW s \in Seq(Seq(S))
  PROVE  FlattenSeq(s) \in Seq(S)
<1>1. Len(s) \in Nat /\ (Len(s) = 0 => s = <<>>)
  OBVIOUS
<1>2. CASE Len(s) = 0
  BY <1>1, <1>2, EmptySeq DEF FlattenSeq
<1>3. CASE Len(s) # 0
  <2>1. PICK g : Flattens(g, s, Len(s)) /\ FlattenSeq(s) = g[Len(s)]
    BY <1>1, <1>3, FlattenDef
  <2>2. Len(s) \in 1..Len(s)
    BY <1>1, <1>3
  <2>3. \A n \in 1..Len(s) : g[n] \in Seq(S)
    BY <2>1, FlattenElement
  <2> QED
    BY <2>1, <2>2, <2>3
<1> QED
  BY <1>2, <1>3

\* A sequence joined at the end, and a concatenation cut in two.
LEMMA FlattenAppend ==
  ASSUME NEW S, NEW s \in Seq(Seq(S)), NEW x \in Seq(S)
  PROVE  FlattenSeq(Append(s, x)) = FlattenSeq(s) \o x
<1> DEFINE t == Append(s, x)
<1>1. /\ t \in Seq(Seq(S)) /\ Len(t) = Len(s) + 1 /\ Len(s) \in Nat
      /\ t[Len(s) + 1] = x /\ \A i \in 1..Len(s) : t[i] = s[i]
  OBVIOUS
<1>2. FlattenSeq(<<>>) = <<>>
  BY DEF FlattenSeq
<1> HIDE DEF t
<1>3. PICK h : Flattens(h, t, Len(s) + 1) /\ FlattenSeq(t) = h[Len(s) + 1]
  BY <1>1, FlattenDef, SMTT(30)
<1>4. CASE Len(s) = 0
  <2>1. 1 \in 1..Len(s)+1 /\ Len(s) + 1 = 1 /\ s = <<>>
    BY <1>4
  <2>2. h[1] = t[1]
    BY <1>3, <2>1 DEF Flattens
  <2>3. FlattenSeq(t) = x /\ FlattenSeq(s) = <<>>
    BY <1>1, <1>2, <1>3, <2>1, <2>2
  <2> QED
    BY <2>3, ConcatEmptySeq DEF t
<1>5. CASE Len(s) # 0
  <2>1. PICK g : Flattens(g, s, Len(s)) /\ FlattenSeq(s) = g[Len(s)]
    BY <1>1, <1>5, FlattenDef
  <2> DEFINE n == Len(s)
  <2>2. n \in Nat /\ n # 0
    BY <1>1, <1>5
  <2>3. Flattens(g, s, n) /\ FlattenSeq(s) = g[n]
    BY <2>1
  <2>4. /\ t \in Seq(Seq(S)) /\ Len(t) = n + 1 /\ t[n + 1] = x /\ \A i \in 1..n : s[i] = t[i]
        /\ Flattens(h, t, Len(t)) /\ FlattenSeq(t) = h[n + 1]
    BY <1>1, <1>3
  <2> HIDE DEF n
  <2>5. n \in 1..Len(t) /\ n + 1 \in 1..n+1 /\ n + 1 # 1 /\ (n + 1) - 1 = n
    BY <2>2, <2>4
  <2>6. h[n] = g[n]
    <3>1. Sums(g, s, n)
      BY <2>3 DEF Flattens, Sums
    <3>2. Sums(h, s, n)
      <4> SUFFICES ASSUME NEW i \in 1..n
                   PROVE  h[i] = IF i = 1 THEN s[i] ELSE h[i - 1] \o s[i]
        BY DEF Sums
      <4>1. i \in 1..n+1 /\ s[i] = t[i]
        BY <2>2, <2>4
      <4>2. h[i] = IF i = 1 THEN t[i] ELSE h[i - 1] \o t[i]
        BY <4>1, <2>4 DEF Flattens
      <4> QED
        BY <4>1, <4>2
    <3>3. n \in 1..n
      BY <2>2
    <3>4. \A m \in 1..n : g[m] = h[m]
      BY <3>1, <3>2, <2>2, FlattenUnique
    <3> QED
      BY <3>3, <3>4
  <2>7. h[n + 1] = h[n] \o t[n + 1]
    BY <2>4, <2>5 DEF Flattens
  <2> QED
    BY <2>3, <2>4, <2>6, <2>7 DEF t
<1> QED
  BY <1>4, <1>5

LEMMA FlattenSplit ==
  ASSUME NEW S, NEW s \in Seq(Seq(S)), NEW k \in 0..Len(s)
  PROVE  FlattenSeq(s) = FlattenSeq(SubSeq(s, 1, k)) \o FlattenSeq(SubSeq(s, k + 1, Len(s)))
<1> DEFINE P(n) == FlattenSeq(SubSeq(s, 1, n))
                     = FlattenSeq(SubSeq(s, 1, k)) \o FlattenSeq(SubSeq(s, k + 1, n))
           T == {m \in Nat : k + m <= Len(s) => P(k + m)}
<1>1. Len(s) \in Nat /\ k \in Nat /\ k <= Len(s)
  OBVIOUS
<1>2. ASSUME NEW a \in 1..Len(s)+1, NEW b \in 0..Len(s)
      PROVE  /\ SubSeq(s, a, b) \in Seq(Seq(S))
             /\ FlattenSeq(SubSeq(s, a, b)) \in Seq(S)
  <2>1. \A i \in a..b : s[i] \in Seq(S)
    BY <1>1, ElementOfSeq
  <2>2. SubSeq(s, a, b) \in Seq(Seq(S))
    BY <1>1, <2>1, SubSeqProperties
  <2> QED
    BY <2>2, FlattenType
<1>3. ASSUME NEW a \in 1..Len(s), NEW b \in a-1..Len(s)-1
      PROVE  FlattenSeq(SubSeq(s, a, b + 1)) = FlattenSeq(SubSeq(s, a, b)) \o s[b + 1]
  <2>1. b + 1 \in a..Len(s) /\ (b + 1) - 1 = b /\ b \in 0..Len(s) /\ a \in 1..Len(s)+1
        /\ b + 1 \in 1..Len(s)
    BY <1>1
  <2>2. SubSeq(s, a, b + 1) = SubSeq(s, a, b) \o <<s[b + 1]>>
    BY <2>1, SubSeqRecursiveSecond
  <2>3. s[b + 1] \in Seq(S) /\ SubSeq(s, a, b) \in Seq(Seq(S))
    BY <2>1, <1>2, ElementOfSeq
  <2>4. SubSeq(s, a, b) \o <<s[b + 1]>> = Append(SubSeq(s, a, b), s[b + 1])
    BY <2>3
  <2> QED
    BY <2>2, <2>3, <2>4, FlattenAppend
<1>10. \A p, q, r \in Seq(S) : (p \o q) \o r = p \o (q \o r)
  BY Associative, SMTT(30)
<1>4. 0 \in T
  <2>1. SubSeq(s, k + 1, k) = <<>>
    BY <1>1, SubSeqEmpty
  <2>2. FlattenSeq(<<>>) = <<>>
    BY DEF FlattenSeq
  <2>3. 1 \in 1..Len(s)+1 /\ k \in 0..Len(s)
    BY <1>1
  <2>4. FlattenSeq(SubSeq(s, 1, k)) \in Seq(S)
    BY <2>3, <1>2
  <2>5. P(k)
    BY <2>1, <2>2, <2>4, ConcatEmptySeq
  <2>6. k + 0 = k
    BY <1>1
  <2> HIDE DEF P
  <2> QED
    BY <2>5, <2>6
<1>5. ASSUME NEW m \in T PROVE m + 1 \in T
  <2> SUFFICES ASSUME k + (m + 1) <= Len(s) PROVE P(k + (m + 1))
    OBVIOUS
  <2> DEFINE b == k + m
             First == FlattenSeq(SubSeq(s, 1, k))
             B == FlattenSeq(SubSeq(s, k + 1, b))
  <2>1. /\ b \in Nat /\ b + 1 = k + (m + 1) /\ b <= Len(s) - 1
        /\ 1 \in 1..Len(s) /\ b \in 1-1..Len(s)-1
        /\ k + 1 \in 1..Len(s) /\ b \in (k + 1)-1..Len(s)-1
        /\ b + 1 \in 1..Len(s) /\ b \in 0..Len(s)
        /\ 1 \in 1..Len(s)+1 /\ k + 1 \in 1..Len(s)+1
    BY <1>1
  <2>2. FlattenSeq(SubSeq(s, 1, b)) = First \o B
    BY <2>1, <1>1
  <2> HIDE DEF b
  <2>3. /\ FlattenSeq(SubSeq(s, 1, b + 1)) = FlattenSeq(SubSeq(s, 1, b)) \o s[b + 1]
        /\ FlattenSeq(SubSeq(s, k + 1, b + 1)) = B \o s[b + 1]
    BY <2>1, <1>3
  <2>4. First \in Seq(S) /\ B \in Seq(S) /\ s[b + 1] \in Seq(S)
    BY <2>1, <1>1, <1>2, ElementOfSeq
  <2> DEFINE c == s[b + 1]
  <2>8. c \in Seq(S)
    BY <2>4
  <2> HIDE DEF First, B, P, T, c
  <2>5. (First \o B) \o c = First \o (B \o c)
    BY <2>4, <2>8, <1>10, Zenon
  <2>6. P(b + 1)
    BY <2>2, <2>3, <2>5 DEF First, P, c
  <2> QED
    BY <2>1, <2>6
<1> HIDE DEF T, P
<1>6. T = Nat
  <2>1. T \subseteq Nat
    BY DEF T
  <2> QED
    BY <1>4, <1>5, <2>1, Induction
<1>7. Len(s) - k \in T /\ k + (Len(s) - k) = Len(s)
  BY <1>1, <1>6
<1>8. P(Len(s))
  BY <1>7, <1>1 DEF T
<1>9. SubSeq(s, 1, Len(s)) = s
  BY SubSeqFull
<1> QED
  BY <1>8, <1>9 DEF P

-----------------------------------------------------------------------------
(* Reception.                                                               *)

\* A sequence is its beginning with its last element behind it.
LEMMA AppendLast ==
  ASSUME NEW S, NEW n \in Nat, NEW f \in [1..n+1 -> S]
  PROVE  Append([i \in 1..n |-> f[i]], f[n + 1]) = f
<1> DEFINE s == [i \in 1..n |-> f[i]]
<1>1. s \in Seq(S) /\ Len(s) = n /\ f \in Seq(S) /\ Len(f) = n + 1
  OBVIOUS
<1>2. \A i \in 1..n : s[i] = f[i]
  OBVIOUS
<1> HIDE DEF s
<1>3. Append(s, f[n + 1]) \in Seq(S) /\ Len(Append(s, f[n + 1])) = n + 1
  BY <1>1
<1>4. \A i \in 1..n+1 : Append(s, f[n + 1])[i] = f[i]
  BY <1>1, <1>2
<1>5. Append(s, f[n + 1]) = f
  BY <1>1, <1>3, <1>4
<1> QED
  BY <1>5 DEF s

\* What is stored grows by what has come.
LEMMA HostWordType ==
  ASSUME NEW k \in Nat
  PROVE  HostWord(k) \in Int
BY Ranges DEF HostWord

LEMMA StoreWord ==
  ASSUME NEW w \in Nat
  PROVE  Append(WordsStored(w), HostWord(w)) = WordsStored(w + 1)
<1> DEFINE f == [i \in 1..w+1 |-> HostWord(i - 1)]
<1>1. f \in [1..w+1 -> Int]
  BY HostWordType
<1>2. [i \in 1..w |-> f[i]] = WordsStored(w) /\ f[w + 1] = HostWord(w)
  BY DEF WordsStored
<1>3. f = WordsStored(w + 1)
  BY DEF WordsStored
<1> HIDE DEF f
<1> QED
  BY <1>1, <1>2, <1>3, AppendLast

LEMMA HoldByte ==
  ASSUME NEW w \in Nat, NEW c \in Nat
  PROVE  Append(BytesHeld(w, c), [word |-> w, byte |-> c]) = BytesHeld(w, c + 1)
<1> DEFINE f == [b \in 1..c+1 |-> [word |-> w, byte |-> b - 1]]
<1>1. f \in [1..c+1 -> [word : Nat, byte : Int]]
  OBVIOUS
<1>2. [i \in 1..c |-> f[i]] = BytesHeld(w, c) /\ f[c + 1] = [word |-> w, byte |-> c]
  BY DEF BytesHeld
<1>3. f = BytesHeld(w, c + 1)
  BY DEF BytesHeld
<1> HIDE DEF f
<1> QED
  BY <1>1, <1>2, <1>3, AppendLast

\* Element e of the tableau ends a row when e + 1 is a multiple of the columns.
LEMMA StoreRowEnd ==
  ASSUME NEW e \in Nat
  PROVE  RowEndsStored(e + 1) =
           IF (e + 1) % NumCols = 0 THEN Append(RowEndsStored(e), e) ELSE RowEndsStored(e)
<1> DEFINE q == e \div NumCols
           p == e % NumCols
<1>1. q \in Nat /\ p \in 0..NumCols-1 /\ e = q * NumCols + p
  BY Division, Ranges
<1>2. /\ p + 1 = NumCols => (e + 1) % NumCols = 0 /\ (e + 1) \div NumCols = q + 1
      /\ p + 1 # NumCols => (e + 1) % NumCols = p + 1 /\ (e + 1) \div NumCols = q
  BY NextQuotient, Ranges
<1>3. RowEndsStored(e) = [r \in 1..q |-> r * NumCols - 1]
  BY DEF RowEndsStored
<1> HIDE DEF q, p
<1>4. CASE p + 1 # NumCols
  <2>1. (e + 1) % NumCols # 0 /\ RowEndsStored(e + 1) = RowEndsStored(e)
    BY <1>1, <1>2, <1>3, <1>4 DEF RowEndsStored
  <2> QED
    BY <2>1
<1>5. CASE p + 1 = NumCols
  <2> DEFINE f == [r \in 1..q+1 |-> r * NumCols - 1]
  <2>1. f \in [1..q+1 -> Int]
    BY Ranges
  <2>2. (q + 1) * NumCols = q * NumCols + NumCols /\ q * NumCols \in Int
    BY <1>1, Ranges
  <2>3. f[q + 1] = (q + 1) * NumCols - 1
    BY <1>1
  <2>4. f[q + 1] = e
    BY <2>2, <2>3, <1>1, <1>5, Ranges
  <2>5. [i \in 1..q |-> f[i]] = RowEndsStored(e)
    <3>1. \A i \in 1..q : f[i] = i * NumCols - 1
      BY <1>1
    <3> HIDE DEF f
    <3> QED
      BY <3>1, <1>3
  <2>6. f = RowEndsStored(e + 1)
    BY <1>2, <1>5 DEF RowEndsStored
  <2> HIDE DEF f
  <2>7. Append(RowEndsStored(e), e) = RowEndsStored(e + 1)
    BY <1>1, <2>1, <2>4, <2>5, <2>6, AppendLast
  <2> QED
    BY <2>7, <1>2, <1>5
<1> QED
  BY <1>4, <1>5

LEMMA StoreFirstRow ==
  ASSUME NEW e \in Nat
  PROVE  FirstRowStored(e + 1) =
           IF e < NumCols THEN Append(FirstRowStored(e), e) ELSE FirstRowStored(e)
<1>1. CASE e < NumCols
  <2> DEFINE f == [c \in 1..e+1 |-> c - 1]
  <2>1. f \in [1..e+1 -> Int] /\ f[e + 1] = e
    OBVIOUS
  <2>2. [i \in 1..e |-> f[i]] = FirstRowStored(e)
    BY <1>1 DEF FirstRowStored
  <2>3. (IF e + 1 < NumCols THEN e + 1 ELSE NumCols) = e + 1
    BY <1>1, Ranges
  <2>4. f = FirstRowStored(e + 1)
    BY <2>3 DEF FirstRowStored
  <2> HIDE DEF f
  <2> QED
    BY <1>1, <2>1, <2>2, <2>4, AppendLast
<1>2. CASE ~ (e < NumCols)
  BY <1>2, Ranges DEF FirstRowStored
<1> QED
  BY <1>1, <1>2

LEMMA NothingStored ==
  /\ RowEndsStored(0) = <<>> /\ FirstRowStored(0) = <<>> /\ WordsStored(0) = <<>>
  /\ \A w \in Nat : BytesHeld(w, 0) = <<>>
<1>1. 0 = 0 * NumCols + 0 /\ 0 \in 0..NumCols-1
  BY Ranges
<1>2. 0 \div NumCols = 0
  BY <1>1, Quotient, Ranges
<1> QED
  BY <1>2, Ranges DEF RowEndsStored, FirstRowStored, WordsStored, BytesHeld

Fields == {"r_element_counter", "recv_counter", "recv_placeholder", "num_rows", "num_cols",
           "ddr", "bram_rhs", "bram_obj"}

\* Two receptions are the same when their fields are.
LEMMA SameReception ==
  ASSUME NEW m, NEW n, m = [x \in Fields |-> m[x]], n = [x \in Fields |-> n[x]],
         m.r_element_counter = n.r_element_counter, m.recv_counter = n.recv_counter,
         m.recv_placeholder = n.recv_placeholder,
         m.num_rows = n.num_rows, m.num_cols = n.num_cols,
         m.ddr = n.ddr, m.bram_rhs = n.bram_rhs, m.bram_obj = n.bram_obj
  PROVE  m = n
<1>1. [x \in Fields |-> m[x]] = [x \in Fields |-> n[x]]
  BY DEF Fields
<1> QED
  BY <1>1, Zenon

LEMMA ReceptionFields ==
  ASSUME NEW w, NEW c
  PROVE  ReceptionOf(w, c) = [x \in Fields |-> ReceptionOf(w, c)[x]]
BY DEF ReceptionOf, Fields

\* The word is whole with its last byte.
LEMMA StoreElementNext ==
  ASSUME NEW w \in Nat
  PROVE  [StoreElement(ReceptionOf(w, BytesPerWord - 1), HostWord(w)) EXCEPT
            !.recv_placeholder = <<>>, !.recv_counter = 0] = ReceptionOf(w + 1, 0)
<1> DEFINE m == ReceptionOf(w, BytesPerWord - 1)
           e == Elements(w)
<1>1. e \in Nat
  BY DEF Elements
<1>2. /\ m.r_element_counter = w
      /\ m.num_rows = IF w >= 1 THEN NumRows ELSE 0
      /\ m.num_cols = IF w >= 2 THEN NumCols ELSE 0
      /\ m.ddr = WordsStored(w) /\ m.bram_rhs = RowEndsStored(e) /\ m.bram_obj = FirstRowStored(e)
  BY DEF ReceptionOf
<1>3. (IF w = 0 THEN HostWord(w) ELSE m.num_rows) = IF w + 1 >= 1 THEN NumRows ELSE 0
  BY <1>2 DEF HostWord
<1>4. (IF w = 1 THEN HostWord(w) ELSE m.num_cols) = IF w + 1 >= 2 THEN NumCols ELSE 0
  BY <1>2 DEF HostWord
<1>5. Append(m.ddr, HostWord(w)) = WordsStored(w + 1)
  BY <1>2, StoreWord
<1>6. /\ (IF w >= 2 /\ RowEnd(w, m.num_cols) THEN Append(m.bram_rhs, HostWord(w)) ELSE m.bram_rhs)
           = RowEndsStored(Elements(w + 1))
      /\ (IF w >= 2 /\ FirstRow(w, m.num_cols) THEN Append(m.bram_obj, HostWord(w)) ELSE m.bram_obj)
           = FirstRowStored(Elements(w + 1))
  <2>1. CASE w >= 2
    <3>1. e = w - 2 /\ Elements(w + 1) = e + 1 /\ HostWord(w) = e /\ m.num_cols = NumCols
      BY <2>1, <1>2 DEF Elements, HostWord
    <3>2. /\ RowEnd(w, NumCols) <=> (e + 1) % NumCols = 0
          /\ FirstRow(w, NumCols) <=> e < NumCols
      BY <3>1, <2>1 DEF RowEnd, FirstRow
    <3> HIDE DEF m, e
    <3> QED
      BY <2>1, <3>1, <3>2, <1>1, <1>2, StoreRowEnd, StoreFirstRow
  <2>2. CASE ~ (w >= 2)
    BY <2>2, <1>2 DEF Elements
  <2> QED
    BY <2>1, <2>2
<1>7. BytesHeld(w + 1, 0) = <<>>
  BY NothingStored
<1>8. m = [x \in Fields |-> m[x]]
  BY ReceptionFields
<1> HIDE DEF m, e
<1> DEFINE n == [StoreElement(m, HostWord(w)) EXCEPT !.recv_placeholder = <<>>, !.recv_counter = 0]
<1>9. n = [x \in Fields |-> n[x]]
  BY <1>8 DEF StoreElement, Fields
<1>10. /\ n.r_element_counter = w + 1 /\ n.recv_counter = 0 /\ n.recv_placeholder = <<>>
       /\ n.num_rows = IF w = 0 THEN HostWord(w) ELSE m.num_rows
       /\ n.num_cols = IF w = 1 THEN HostWord(w) ELSE m.num_cols
       /\ n.ddr = Append(m.ddr, HostWord(w))
       /\ n.bram_rhs = IF w >= 2 /\ RowEnd(w, m.num_cols)
                       THEN Append(m.bram_rhs, HostWord(w)) ELSE m.bram_rhs
       /\ n.bram_obj = IF w >= 2 /\ FirstRow(w, m.num_cols)
                       THEN Append(m.bram_obj, HostWord(w)) ELSE m.bram_obj
  BY <1>2, <1>8 DEF StoreElement, Fields
<1> DEFINE r == ReceptionOf(w + 1, 0)
<1>11. /\ r.r_element_counter = w + 1 /\ r.recv_counter = 0 /\ r.recv_placeholder = <<>>
       /\ r.num_rows = IF w + 1 >= 1 THEN NumRows ELSE 0
       /\ r.num_cols = IF w + 1 >= 2 THEN NumCols ELSE 0
       /\ r.ddr = WordsStored(w + 1)
       /\ r.bram_rhs = RowEndsStored(Elements(w + 1))
       /\ r.bram_obj = FirstRowStored(Elements(w + 1))
  BY <1>7 DEF ReceptionOf
<1>12. r = [x \in Fields |-> r[x]]
  BY ReceptionFields
<1> HIDE DEF n, r
<1>13. n = r
  BY <1>3, <1>4, <1>5, <1>6, <1>9, <1>10, <1>11, <1>12, SameReception
<1> QED
  BY <1>13 DEF n, r, m

LEMMA ReceiveByteNext ==
  ASSUME NEW w \in Nat, NEW c \in 0..BytesPerWord-1
  PROVE  ReceiveByte(ReceptionOf(w, c), [word |-> w, byte |-> c])
           = IF c + 1 = BytesPerWord THEN ReceptionOf(w + 1, 0) ELSE ReceptionOf(w, c + 1)
<1> DEFINE m == ReceptionOf(w, c)
           bytes == Append(m.recv_placeholder, [word |-> w, byte |-> c])
<1>1. c \in Nat /\ m.recv_counter = c /\ m.recv_placeholder = BytesHeld(w, c)
  BY Ranges DEF ReceptionOf
<1>2. bytes = BytesHeld(w, c + 1)
  BY <1>1, HoldByte
<1>3. CASE c + 1 = BytesPerWord
  <2>1. (c + 1) % BytesPerWord = 0
    <3>1. c + 1 = 1 * BytesPerWord + 0 /\ c + 1 \in Nat /\ 0 \in 0..BytesPerWord-1
      BY <1>3, Ranges
    <3> QED
      BY <3>1, Quotient, Ranges
  <2>2. 1 \in 1..c+1 /\ \A b \in 1..BytesPerWord : bytes[b] = [word |-> w, byte |-> b - 1]
    BY <1>1, <1>2, <1>3 DEF BytesHeld
  <2> HIDE DEF bytes
  <2>3. bytes[1].word = w
    <3>1. bytes[1] = [word |-> w, byte |-> 1 - 1]
      BY <2>2, Ranges
    <3> QED
      BY <3>1
  <2>4. Shifted(bytes) = HostWord(w)
    BY <2>2, <2>3 DEF Shifted
  <2>5. ReceiveByte(m, [word |-> w, byte |-> c])
          = [StoreElement(m, Shifted(bytes)) EXCEPT !.recv_placeholder = <<>>, !.recv_counter = 0]
    <3> HIDE DEF m
    <3> QED
      BY <1>1, <2>1 DEF ReceiveByte, bytes
  <2>6. c = BytesPerWord - 1
    BY <1>3, Ranges
  <2> QED
    BY <2>4, <2>5, <2>6, <1>3, StoreElementNext
<1>4. CASE c + 1 # BytesPerWord
  <2>1. (c + 1) % BytesPerWord # 0
    <3>1. c + 1 = 0 * BytesPerWord + (c + 1) /\ c + 1 \in Nat /\ c + 1 \in 0..BytesPerWord-1
      BY <1>4, Ranges
    <3>2. (c + 1) % BytesPerWord = c + 1
      BY <3>1, Quotient, Ranges
    <3> QED
      BY <3>1, <3>2, <1>1
  <2>2. ReceiveByte(m, [word |-> w, byte |-> c])
          = [m EXCEPT !.recv_placeholder = bytes, !.recv_counter = @ + 1]
    <3> HIDE DEF m
    <3> QED
      BY <1>1, <2>1 DEF ReceiveByte
  <2> DEFINE n == [m EXCEPT !.recv_placeholder = bytes, !.recv_counter = @ + 1]
             r == ReceptionOf(w, c + 1)
  <2>3. m = [x \in Fields |-> m[x]] /\ r = [x \in Fields |-> r[x]]
    BY ReceptionFields
  <2>4. /\ r.recv_counter = c + 1 /\ r.recv_placeholder = bytes
        /\ r.r_element_counter = m.r_element_counter
        /\ r.num_rows = m.num_rows /\ r.num_cols = m.num_cols
        /\ r.ddr = m.ddr /\ r.bram_rhs = m.bram_rhs /\ r.bram_obj = m.bram_obj
    BY <1>2 DEF ReceptionOf
  <2> HIDE DEF m, r, bytes
  <2>5. n = [x \in Fields |-> n[x]]
    BY <2>3 DEF Fields
  <2>6. /\ n.recv_counter = c + 1 /\ n.recv_placeholder = bytes
        /\ n.r_element_counter = m.r_element_counter
        /\ n.num_rows = m.num_rows /\ n.num_cols = m.num_cols
        /\ n.ddr = m.ddr /\ n.bram_rhs = m.bram_rhs /\ n.bram_obj = m.bram_obj
    BY <2>3, <1>1 DEF Fields
  <2> HIDE DEF n
  <2>7. n = r
    BY <2>3, <2>4, <2>5, <2>6, SameReception
  <2>8. ReceiveByte(m, [word |-> w, byte |-> c]) = ReceptionOf(w, c + 1)
    BY <2>2, <2>7 DEF n, r
  <2> QED
    BY <2>8, <1>4 DEF m
<1> QED
  BY <1>3, <1>4

LEMMA NextByte ==
  ASSUME NEW k \in Nat
  PROVE  ReceiveByte(ReceptionAt(k), ByteOf(k)) = ReceptionAt(k + 1)
<1> DEFINE w == k \div BytesPerWord
           c == k % BytesPerWord
<1>1. w \in Nat /\ c \in 0..BytesPerWord-1
  BY Division, Ranges
<1>2. /\ c + 1 = BytesPerWord =>
           (k + 1) % BytesPerWord = 0 /\ (k + 1) \div BytesPerWord = w + 1
      /\ c + 1 # BytesPerWord =>
           (k + 1) % BytesPerWord = c + 1 /\ (k + 1) \div BytesPerWord = w
  BY NextQuotient, Ranges
<1>3. ByteOf(k) = [word |-> w, byte |-> c] /\ ReceptionAt(k) = ReceptionOf(w, c)
  BY DEF ByteOf, ReceptionAt
<1>4. ReceptionAt(k + 1) =
        IF c + 1 = BytesPerWord THEN ReceptionOf(w + 1, 0) ELSE ReceptionOf(w, c + 1)
  BY <1>2 DEF ReceptionAt
<1> HIDE DEF w, c
<1> QED
  BY <1>1, <1>3, <1>4, ReceiveByteNext

\* However the bytes are cut: a packet brings the reception on by its bytes.
LEMMA PacketReceived ==
  ASSUME arrived \in Nat, Reception = ReceptionAt(arrived), NEW n \in Nat
  PROVE  AfterBytes(n) = ReceptionAt(arrived + n)
<1> DEFINE Run(f) == f = [i \in 0..n |-> IF i = 0 THEN Reception
                            ELSE ReceiveByte(f[i - 1], ByteOf(arrived + i - 1))]
           g == CHOOSE f : Run(f)
           h == [i \in 0..n |-> ReceptionAt(arrived + i)]
<1>1. Run(h)
  <2>1. ASSUME NEW i \in 0..n
        PROVE  h[i] = IF i = 0 THEN Reception ELSE ReceiveByte(h[i - 1], ByteOf(arrived + i - 1))
    <3>1. CASE i = 0
      BY <3>1
    <3>2. CASE i # 0
      <4> DEFINE k == arrived + i - 1
      <4>1. k \in Nat /\ k + 1 = arrived + i /\ i - 1 \in 0..n /\ arrived + (i - 1) = k
        BY <3>2
      <4>2. h[i] = ReceptionAt(k + 1) /\ h[i - 1] = ReceptionAt(k)
        BY <4>1
      <4> HIDE DEF k, h
      <4>3. ReceiveByte(h[i - 1], ByteOf(k)) = h[i]
        BY <4>1, <4>2, NextByte
      <4> QED
        BY <4>3, <3>2 DEF k
    <3> QED
      BY <3>1, <3>2
  <2> QED
    BY <2>1
<1>2. Run(g)
  <2> HIDE DEF Run, h
  <2> QED
    BY <1>1
<1>3. AfterBytes(n) = g[n]
  BY Zenon DEF AfterBytes
<1>4. ASSUME NEW i \in 0..n
      PROVE  g[i] = IF i = 0 THEN Reception ELSE ReceiveByte(g[i - 1], ByteOf(arrived + i - 1))
  <2> HIDE DEF g
  <2> QED
    BY <1>2
<1> HIDE DEF g, h, Run
<1> DEFINE T == {i \in Nat : i \in 0..n => g[i] = ReceptionAt(arrived + i)}
<1>5. 0 \in T
  BY <1>4
<1>6. ASSUME NEW i \in T PROVE i + 1 \in T
  <2> SUFFICES ASSUME i + 1 \in 0..n PROVE g[i + 1] = ReceptionAt(arrived + (i + 1))
    OBVIOUS
  <2> DEFINE j == i + 1
             k == arrived + i
  <2>1. /\ j \in 0..n /\ j # 0 /\ j - 1 = i /\ arrived + j - 1 = k
        /\ k \in Nat /\ arrived + j = k + 1 /\ g[i] = ReceptionAt(k)
    OBVIOUS
  <2> HIDE DEF j, k, T
  <2>2. g[j] = ReceiveByte(ReceptionAt(k), ByteOf(k))
    BY <2>1, <1>4
  <2> QED
    BY <2>1, <2>2, NextByte DEF j
<1>7. T \subseteq Nat
  OBVIOUS
<1> HIDE DEF T
<1>8. n \in T
  BY <1>5, <1>6, <1>7, Induction
<1> QED
  BY <1>3, <1>8 DEF T

-----------------------------------------------------------------------------
(* The whole tableau.                                                       *)

LEMMA LastReception ==
  ReceptionAt(HostBytes) =
    [r_element_counter |-> Total + 2, recv_counter |-> 0, recv_placeholder |-> <<>>,
     num_rows |-> NumRows, num_cols |-> NumCols,
     ddr |-> [k \in 1..Total+2 |-> HostWord(k - 1)],
     bram_rhs |-> [r \in 1..NumRows |-> r * NumCols - 1],
     bram_obj |-> [c \in 1..NumCols |-> c - 1]]
<1>1. HostBytes \div BytesPerWord = Total + 2 /\ HostBytes % BytesPerWord = 0
  <2>1. HostBytes = (Total + 2) * BytesPerWord + 0 /\ 0 \in 0..BytesPerWord-1 /\ Total + 2 \in Nat
    BY Ranges DEF HostBytes
  <2> QED
    BY <2>1, Quotient, Ranges
<1>2. Elements(Total + 2) = Total /\ Total + 2 >= 2
  BY Ranges DEF Elements
<1>3. Total \div NumCols = NumRows
  <2>1. Total = NumRows * NumCols + 0 /\ 0 \in 0..NumCols-1
    BY Ranges DEF Total
  <2> QED
    BY <2>1, Quotient, Ranges
<1>4. (IF Total < NumCols THEN Total ELSE NumCols) = NumCols
  <2>1. NumRows - 1 \in Nat /\ NumRows = (NumRows - 1) + 1
    BY Ranges
  <2>2. NumRows * NumCols = (NumRows - 1) * NumCols + NumCols /\ (NumRows - 1) * NumCols \in Nat
    BY <2>1, Ranges
  <2> QED
    BY <2>2, Ranges DEF Total
<1>5. /\ WordsStored(Total + 2) = [k \in 1..Total+2 |-> HostWord(k - 1)]
      /\ RowEndsStored(Total) = [r \in 1..NumRows |-> r * NumCols - 1]
      /\ FirstRowStored(Total) = [c \in 1..NumCols |-> c - 1]
  BY <1>3, <1>4, Zenon DEF WordsStored, RowEndsStored, FirstRowStored
<1>6. (IF Total + 2 >= 1 THEN NumRows ELSE 0) = NumRows
      /\ (IF Total + 2 >= 2 THEN NumCols ELSE 0) = NumCols
  BY <1>2, Ranges
<1>7. BytesHeld(Total + 2, 0) = <<>>
  BY NothingStored, Ranges
<1> QED
  BY <1>1, <1>2, <1>5, <1>6, <1>7, Zenon DEF ReceptionAt, ReceptionOf

\* The words are counted as those of the whole tableau with its last byte only.
LEMMA WholeAtEnd ==
  ASSUME NEW k \in 0..HostBytes
  PROVE  Whole(ReceptionAt(k)) <=> k = HostBytes
<1> DEFINE w == k \div BytesPerWord
           c == k % BytesPerWord
<1>0. k \in Nat
  BY Ranges
<1>1. k \in Nat /\ w \in Nat /\ c \in 0..BytesPerWord-1 /\ k = w * BytesPerWord + c
  BY <1>0, Division, Ranges
<1>2. /\ ReceptionAt(k).r_element_counter = w
      /\ ReceptionAt(k).num_rows = IF w >= 1 THEN NumRows ELSE 0
      /\ ReceptionAt(k).num_cols = IF w >= 2 THEN NumCols ELSE 0
  BY DEF ReceptionAt, ReceptionOf
<1>3. NumRows * NumCols = Total
  BY DEF Total
<1>4. ASSUME k = HostBytes PROVE Whole(ReceptionAt(k))
  BY <1>3, <1>4, LastReception, Ranges DEF Whole
<1> HIDE DEF w, c
<1>5. ASSUME Whole(ReceptionAt(k)) PROVE k = HostBytes
  <2>1. w = (IF w >= 1 THEN NumRows ELSE 0) * (IF w >= 2 THEN NumCols ELSE 0) + 2
    BY <1>2, <1>5 DEF Whole
  <2>2. w >= 2
    <3> SUFFICES ASSUME ~ (w >= 2) PROVE FALSE
      OBVIOUS
    <3>1. w = (IF w >= 1 THEN NumRows ELSE 0) * 0 + 2
      BY <2>1
    <3>2. (IF w >= 1 THEN NumRows ELSE 0) \in Int
      BY Ranges
    <3> QED
      BY <3>1, <3>2, <1>1
  <2>3. w = Total + 2
    BY <2>1, <2>2, <1>1, <1>3
  <2>4. k = HostBytes + c
    BY <1>1, <2>3 DEF HostBytes
  <2> QED
    BY <2>4, <1>1, Ranges
<1> QED
  BY <1>4, <1>5

-----------------------------------------------------------------------------
(* The beginning.                                                           *)

LEMMA NothingReceived ==
  ReceptionAt(0) =
    [r_element_counter |-> 0, recv_counter |-> 0, recv_placeholder |-> <<>>,
     num_rows |-> 0, num_cols |-> 0, ddr |-> <<>>, bram_rhs |-> <<>>, bram_obj |-> <<>>]
<1>1. 0 \div BytesPerWord = 0 /\ 0 % BytesPerWord = 0
  <2>1. 0 = 0 * BytesPerWord + 0 /\ 0 \in 0..BytesPerWord-1
    BY Ranges
  <2> QED
    BY <2>1, Quotient, Ranges
<1>2. Elements(0) = 0 /\ ~ (0 >= 1) /\ ~ (0 >= 2)
  BY DEF Elements
<1>3. BytesHeld(0, 0) = <<>>
  BY NothingStored
<1> QED
  BY <1>1, <1>2, <1>3, NothingStored, Zenon DEF ReceptionAt, ReceptionOf

LEMMA FlattenEmpty == FlattenSeq(<<>>) = <<>>
BY DEF FlattenSeq

LEMMA InitInvariant ==
  ASSUME Init
  PROVE  IInv
<1>1. BytesCounted
  <2>1. Reception = ReceptionAt(0)
    BY NothingReceived DEF Init, Reception
  <2>2. arrived = 0
    BY DEF Init
  <2> QED
    BY <2>1, <2>2, Ranges DEF BytesCounted
<1>2. StartedAtEnd
  BY Ranges DEF Init, StartedAtEnd
<1>3. Silent
  BY DEF Init, BoardInit, Silent
<1>4. SendsAfterAnswer
  BY Ranges DEF Init, SendsAfterAnswer
<1>5. SentInOrder
  <2>1. Sent = <<>>
    BY FlattenEmpty, ConcatEmptySeq DEF Init, Sent
  <2> QED
    BY <2>1 DEF Init, SentInOrder
<1> QED
  BY <1>1, <1>2, <1>3, <1>4, <1>5 DEF IInv

-----------------------------------------------------------------------------
(* What a step leaves alone.                                                *)

LEMMA BytesCountedRests ==
  ASSUME BytesCounted, UNCHANGED <<counters, memories, arrived>>
  PROVE  BytesCounted'
<1>1. Reception' = Reception
  BY DEF Reception, counters, memories
<1>2. ReceptionAt(arrived)' = ReceptionAt(arrived)
  BY Zenon DEF ReceptionAt, ReceptionOf, WordsStored, RowEndsStored, FirstRowStored, Elements,
    BytesHeld, HostWord
<1>3. arrived' = arrived /\ HostBytes' = HostBytes
  BY DEF HostBytes
<1> QED
  BY <1>1, <1>2, <1>3 DEF BytesCounted

LEMMA StartedAtEndRests ==
  ASSUME StartedAtEnd, UNCHANGED <<start_vars, arrived>>
  PROVE  StartedAtEnd'
BY DEF StartedAtEnd, start_vars

LEMMA SilentRests ==
  ASSUME Silent, UNCHANGED <<arrived, received, unacked>>,
         conn' \in {conn, "up", "over"},
         main_pc' \in {"start", "returned", "dhcp", "setup"} =>
           main_pc \in {"start", "returned", "dhcp", "setup"} /\ conn' = conn
  PROVE  Silent'
BY DEF Silent

LEMMA SendsAfterAnswerRests ==
  ASSUME SendsAfterAnswer, UNCHANGED <<starts, sending, engine>>
  PROVE  SendsAfterAnswer'
BY DEF SendsAfterAnswer, sending

LEMMA SentInOrderRests ==
  ASSUME SentInOrder, UNCHANGED <<starts, s_element_counter, received, unacked>>
  PROVE  SentInOrder'
<1>1. Sent' = Sent
  BY DEF Sent
<1> QED
  BY <1>1 DEF SentInOrder

LEMMA AppRests ==
  ASSUME IInv, UNCHANGED app_vars
  PROVE  BytesCounted' /\ StartedAtEnd' /\ SendsAfterAnswer' /\ SentInOrder'
<1>1. UNCHANGED <<counters, memories, start_vars, sending, engine, arrived, tcp>>
  BY DEF app_vars
<1>2. UNCHANGED <<starts, s_element_counter, received, unacked>>
  BY <1>1 DEF start_vars, sending, tcp
<1> QED
  BY <1>1, <1>2, BytesCountedRests, StartedAtEndRests, SendsAfterAnswerRests, SentInOrderRests
    DEF IInv

-----------------------------------------------------------------------------
(* Steps of the board.                                                      *)

LEMMA MainStepInvariant ==
  ASSUME IInv, MainStep
  PROVE  IInv'
<1>1. UNCHANGED app_vars /\ UNCHANGED <<arrived, received, unacked>>
  BY DEF MainStep, app_vars, tcp
<1>2. Silent
  BY DEF IInv
<1>3. Silent'
  <2>1. CASE setup_client_conn
    BY <2>1, <1>1, <1>2 DEF setup_client_conn, Silent
  <2>2. CASE StartFails \/ Start \/ LeaveWait
    BY <2>2, <1>1, <1>2, SilentRests DEF StartFails, Start, LeaveWait, conn_vars
  <2>3. CASE FastTimer \/ ClearFast \/ ClearSlow \/ Input
    BY <2>3, <1>1, <1>2, SilentRests
      DEF FastTimer, ClearFast, ClearSlow, Input, Turn, loop_same, conn_vars
  <2> QED
    BY <2>1, <2>2, <2>3 DEF MainStep
<1> QED
  BY <1>1, <1>3, AppRests DEF IInv

LEMMA BoardInvariant ==
  ASSUME IInv, Tick \/ Offer \/ ConnectionEnds
  PROVE  IInv'
<1>1. UNCHANGED app_vars /\ UNCHANGED <<arrived, received, unacked>>
  BY DEF Tick, Offer, ConnectionEnds, app_vars, tcp
<1>2. Silent
  BY DEF IInv
<1>3. Silent'
  <2>1. CASE Tick \/ Offer
    BY <2>1, <1>1, <1>2, SilentRests DEF Tick, Offer, xadapter_timer_handler, Lease, conn_vars
  <2>2. CASE ConnectionEnds
    <3>1. main_pc' = "fast" /\ conn' \in {conn, "over"}
      BY <2>2 DEF ConnectionEnds, Refused, HostCloses, Reset, LateLease, Turn, conn_vars,
        tcp_client_err, tcp_client_close
    <3> QED
      BY <3>1, <1>1, <1>2, SilentRests
  <2> QED
    BY <2>1, <2>2
<1> QED
  BY <1>1, <1>3, AppRests DEF IInv

LEMMA StutterInvariant ==
  ASSUME IInv, UNCHANGED vars
  PROVE  IInv'
<1>1. UNCHANGED app_vars /\ UNCHANGED <<arrived, received, unacked>> /\ UNCHANGED <<main_pc, conn>>
  BY DEF vars, app_vars, tcp, board_vars, conn_vars
<1>2. Silent'
  BY <1>1, SilentRests DEF IInv
<1> QED
  BY <1>1, <1>2, AppRests DEF IInv

LEMMA ConnectedInvariant ==
  ASSUME IInv, tcp_client_connected
  PROVE  IInv'
<1>1. /\ conn = "connecting" /\ conn' = "up" /\ main_pc' = "fast"
      /\ UNCHANGED <<memories, start_vars, sender, engine, arrived, received>>
      /\ send_state' = 0 /\ s_element_counter' = 0
      /\ unacked' = <<>> \/ unacked' = <<<<Ready>>>>
  BY DEF tcp_client_connected, Connected, Turn
<1>2. arrived = 0 /\ received = <<>> /\ unacked = <<>>
  BY <1>1 DEF IInv, Silent
<1>3. starts = 0 /\ starts' = 0
  BY <1>1, <1>2, Ranges DEF IInv, StartedAtEnd, start_vars
<1>4. BytesCounted'
  <2>1. Reception' = ReceptionAt(0)
    <3>1. Reception = ReceptionAt(0)
      BY <1>2 DEF IInv, BytesCounted
    <3>2. ddr = <<>> /\ bram_rhs = <<>> /\ bram_obj = <<>>
      BY <3>1, NothingReceived DEF Reception
    <3> QED
      BY <3>2, <1>1, NothingReceived DEF Reception, memories, tcp_client_connected
  <2>2. arrived' = 0
    BY <1>1, <1>2
  <2>3. ReceptionAt(arrived)' = ReceptionAt(arrived')
    BY Zenon DEF ReceptionAt, ReceptionOf, WordsStored, RowEndsStored, FirstRowStored, Elements,
      BytesHeld, HostWord
  <2> QED
    BY <2>1, <2>2, <2>3, Ranges DEF BytesCounted
<1>5. StartedAtEnd'
  BY <1>1, StartedAtEndRests DEF IInv
<1>6. Silent'
  BY <1>1, <1>2 DEF Silent
<1>7. SendsAfterAnswer'
  <2>1. engine = "idle" /\ sender = "none"
    BY <1>3 DEF IInv, SendsAfterAnswer
  <2> QED
    BY <2>1, <1>1, <1>3, Ranges DEF SendsAfterAnswer
<1>8. SentInOrder'
  <2>1. FlattenSeq(<<<<Ready>>>>) = <<Ready>>
    <3>1. <<Ready>> \in Seq(Int) /\ <<>> \in Seq(Seq(Int)) /\ Append(<<>>, <<Ready>>) = <<<<Ready>>>>
      BY DEF Ready
    <3>2. FlattenSeq(Append(<<>>, <<Ready>>)) = FlattenSeq(<<>>) \o <<Ready>>
      BY <3>1, FlattenAppend
    <3> QED
      BY <3>1, <3>2, FlattenEmpty, ConcatEmptySeq
  <2>2. Sent' \in {<<>>, <<Ready>>}
    <3>1. <<Ready>> \in Seq(Int)
      BY DEF Ready
    <3> QED
      BY <3>1, <2>1, <1>1, <1>2, FlattenEmpty, ConcatEmptySeq DEF Sent
  <2>3. received' \in Seq(Int) /\ unacked' \in Seq(Seq(Int))
    <3>1. <<Ready>> \in Seq(Int) /\ <<>> \in Seq(Int) /\ <<>> \in Seq(Seq(Int))
      BY DEF Ready
    <3>2. <<<<Ready>>>> = Append(<<>>, <<Ready>>)
      OBVIOUS
    <3>3. <<<<Ready>>>> \in Seq(Seq(Int))
      BY <3>1, <3>2, AppendProperties
    <3> QED
      BY <3>1, <3>3, <1>1, <1>2
  <2> QED
    BY <2>2, <2>3, <1>3 DEF SentInOrder
<1> QED
  BY <1>4, <1>5, <1>6, <1>7, <1>8 DEF IInv

-----------------------------------------------------------------------------
(* Reception and the start.                                                 *)

LEMMA ReceiveInvariant ==
  ASSUME IInv, Receive
  PROVE  IInv'
<1>1. PICK n \in 1..MaxPacket :
        arrived + n <= HostBytes /\ tcp_client_recv(n) /\ arrived' = arrived + n
  BY DEF Receive
<1>2. /\ conn = "up" /\ received # <<>> /\ arrived < HostBytes /\ sender = "none"
      /\ UNCHANGED <<sending, tcp, conn>> /\ main_pc' = "fast"
  BY DEF Receive, HostSends, Input, Turn, conn_vars
<1>3. /\ n \in Nat /\ arrived \in Nat /\ Reception = ReceptionAt(arrived)
      /\ arrived' \in 0..HostBytes /\ arrived' > 0
  BY <1>1, Ranges, AppAssumption DEF IInv, BytesCounted
<1>4. starts = 0
  <2>1. arrived # HostBytes
    BY <1>2, <1>3, Ranges
  <2> QED
    BY <2>1 DEF IInv, StartedAtEnd
<1> DEFINE k == arrived + n
           after == ReceptionAt(k)
<1>5. AfterBytes(n) = after
  BY <1>3, PacketReceived
<1>6. /\ Reception' = after
      /\ IF Whole(after)
         THEN start_LP(after.num_rows, after.num_cols)
         ELSE UNCHANGED <<start_vars, engine>>
  <2> HIDE DEF after
  <2>1. /\ r_element_counter' = after.r_element_counter
        /\ recv_counter' = after.recv_counter
        /\ recv_placeholder' = after.recv_placeholder
        /\ num_rows' = after.num_rows /\ num_cols' = after.num_cols
        /\ ddr' = after.ddr
        /\ bram_rhs' = after.bram_rhs /\ bram_obj' = after.bram_obj
        /\ IF Whole(after)
           THEN start_LP(after.num_rows, after.num_cols)
           ELSE UNCHANGED <<start_vars, engine>>
    BY <1>1, <1>5 DEF tcp_client_recv
  <2>2. Reception' = [x \in Fields |-> Reception'[x]]
    BY DEF Reception, Fields
  <2>3. after = [x \in Fields |-> after[x]]
    BY ReceptionFields DEF after, ReceptionAt
  <2>4. /\ Reception'.r_element_counter = r_element_counter'
        /\ Reception'.recv_counter = recv_counter'
        /\ Reception'.recv_placeholder = recv_placeholder'
        /\ Reception'.num_rows = num_rows' /\ Reception'.num_cols = num_cols'
        /\ Reception'.ddr = ddr'
        /\ Reception'.bram_rhs = bram_rhs' /\ Reception'.bram_obj = bram_obj'
    BY DEF Reception
  <2> QED
    BY <2>1, <2>2, <2>3, <2>4, SameReception
<1>7. BytesCounted'
  <2>1. ReceptionAt(arrived)' = ReceptionAt(arrived')
    BY Zenon DEF ReceptionAt, ReceptionOf, WordsStored, RowEndsStored, FirstRowStored, Elements,
      BytesHeld, HostWord
  <2> QED
    BY <1>1, <1>3, <1>6, <2>1 DEF BytesCounted, HostBytes
<1>8. Whole(after) <=> k = HostBytes
  BY <1>1, <1>3, WholeAtEnd
<1>9. Silent'
  BY <1>2, <1>3 DEF Silent
<1>10. s_element_counter = 0 /\ send_state = 0 /\ engine = "idle"
  BY <1>4 DEF IInv, SendsAfterAnswer
<1>11. Sent' = Sent /\ Sent \in {<<>>, <<Ready>>} /\ received \in Seq(Int) /\ unacked \in Seq(Seq(Int))
  BY <1>2, <1>4 DEF IInv, SentInOrder, Sent, tcp
<1>12. UNCHANGED <<sender, send_state, s_element_counter, received, unacked>>
  BY <1>2 DEF sending, tcp
<1>13. CASE k = HostBytes
  <2>1. start_LP(NumRows, NumCols)
    BY <1>6, <1>8, <1>13, LastReception
  <2>2. starts' = 1 /\ engine' = "running"
    BY <2>1, <1>4 DEF start_LP
  <2>3. StartedAtEnd'
    <3>1. bridge' = [num_rows |-> NumRows, num_rows_1 |-> NumRows - 1, num_cols |-> NumCols,
                     num_cols_1 |-> NumCols - 1, tableau_size |-> Total]
      BY <2>1 DEF start_LP, Total
    <3> QED
      BY <3>1, <2>2, <1>1, <1>13 DEF StartedAtEnd, HostBytes, Total
  <2>4. SendsAfterAnswer'
    BY <2>2, <1>2, <1>10, <1>12, Ranges DEF SendsAfterAnswer
  <2>5. SentInOrder'
    <3>1. Sent = <<Ready>>
      <4> SUFFICES ASSUME Sent = <<>> PROVE FALSE
        BY <1>11
      <4>1. FlattenSeq(unacked) \in Seq(Int)
        BY <1>11, FlattenType
      <4>2. Len(received) + Len(FlattenSeq(unacked)) = 0 /\ Len(received) \in Nat
            /\ Len(FlattenSeq(unacked)) \in Nat
        BY <4>1, <1>11, ConcatProperties DEF Sent
      <4> QED
        BY <4>2, <1>2, <1>11, EmptySeq
    <3>2. [i \in 1..0 |-> i - 1] = <<>>
      OBVIOUS
    <3>3. <<Ready>> \o <<>> = <<Ready>>
      BY ConcatEmptySeq DEF Ready
    <3> QED
      BY <3>1, <3>2, <3>3, <2>2, <1>10, <1>11, <1>12 DEF SentInOrder
  <2> QED
    BY <2>3, <2>4, <2>5, <1>7, <1>9 DEF IInv
<1>14. CASE k # HostBytes
  <2>1. UNCHANGED <<start_vars, engine>>
    BY <1>6, <1>8, <1>14
  <2>2. starts' = 0
    BY <2>1, <1>4 DEF start_vars
  <2>3. StartedAtEnd'
    BY <2>2, <1>1, <1>14 DEF StartedAtEnd, HostBytes, Total
  <2>4. SendsAfterAnswer'
    BY <2>1, <2>2, <1>12, SendsAfterAnswerRests DEF IInv, SendsAfterAnswer, start_vars, sending
  <2>5. SentInOrder'
    BY <2>2, <1>4, <1>12, SentInOrderRests DEF IInv
  <2> QED
    BY <2>3, <2>4, <2>5, <1>7, <1>9 DEF IInv
<1> QED
  BY <1>13, <1>14

-----------------------------------------------------------------------------
(* The engine and the sending.                                              *)

LEMMA LossInvariant ==
  ASSUME IInv, Lose \/ Retransmit
  PROVE  IInv'
<1>1. /\ UNCHANGED <<counters, memories, start_vars, sending, engine, arrived, unacked, received>>
      /\ conn' = conn
      /\ main_pc' = main_pc \/ main_pc' = "slow called" \/ main_pc' = "input"
  BY DEF Lose, Retransmit, board_vars, conn_vars, SlowTimer, loop_same
<1>2. UNCHANGED <<starts, s_element_counter>>
  BY <1>1 DEF start_vars, sending
<1>3. BytesCounted' /\ StartedAtEnd'
  BY <1>1, BytesCountedRests, StartedAtEndRests DEF IInv
<1>4. Silent'
  BY <1>1, SilentRests DEF IInv
<1>5. SendsAfterAnswer' /\ SentInOrder'
  BY <1>1, <1>2, SendsAfterAnswerRests, SentInOrderRests DEF IInv
<1> QED
  BY <1>3, <1>4, <1>5 DEF IInv

\* While the program sends, it has been started with the whole tableau.
LEMMA SendsLater ==
  ASSUME IInv, engine # "idle" \/ sender # "none" \/ send_state # 0
  PROVE  starts = 1
BY Ranges DEF IInv, StartedAtEnd, SendsAfterAnswer

LEMMA EngineInvariant ==
  ASSUME IInv, EngineDone \/ mblaze_send_callback
  PROVE  IInv'
<1>1. /\ UNCHANGED <<board_vars, counters, memories, start_vars, arrived, tcp>>
      /\ engine \in {"running", "done"}
      /\ \/ engine' = "done" /\ UNCHANGED sending
         \/ engine' = "idle" /\ s_element_counter' = 0
  BY DEF EngineDone, mblaze_send_callback
<1>2. UNCHANGED <<starts, received, unacked, main_pc, conn>> /\ starts = 1
  BY <1>1, SendsLater DEF start_vars, tcp, board_vars, conn_vars
<1>3. s_element_counter = 0 /\ send_state = 0 /\ sender = "none"
  BY <1>1 DEF IInv, SendsAfterAnswer
<1>4. s_element_counter' = s_element_counter
  BY <1>1, <1>3 DEF sending
<1>5. BytesCounted' /\ StartedAtEnd'
  BY <1>1, BytesCountedRests, StartedAtEndRests DEF IInv
<1>6. Silent'
  BY <1>1, <1>2, SilentRests DEF IInv
<1>7. SendsAfterAnswer'
  BY <1>1, <1>2, <1>3, Ranges DEF SendsAfterAnswer, sending
<1>8. SentInOrder'
  BY <1>2, <1>4, SentInOrderRests DEF IInv
<1> QED
  BY <1>5, <1>6, <1>7, <1>8 DEF IInv

\* A batch goes on where the counter stands.
LEMMA BatchAppended ==
  ASSUME NEW s \in Nat, NEW b \in Nat, NEW S, S = [i \in 1..s |-> i - 1]
  PROVE  S \o [i \in 1..b |-> s + i - 1] = [i \in 1..s+b |-> i - 1]
<1> DEFINE B == [i \in 1..b |-> s + i - 1]
           C == [i \in 1..s+b |-> i - 1]
<1>1. S \in Seq(Int) /\ Len(S) = s /\ B \in Seq(Int) /\ Len(B) = b /\ C \in Seq(Int) /\ Len(C) = s + b
  OBVIOUS
<1>2. \A i \in 1..s+b : C[i] = IF i <= s THEN S[i] ELSE B[i - s]
  OBVIOUS
<1> HIDE DEF B, C
<1>3. /\ S \o B \in Seq(Int) /\ Len(S \o B) = s + b
      /\ \A i \in 1..s+b : (S \o B)[i] = IF i <= s THEN S[i] ELSE B[i - s]
  BY <1>1, ConcatProperties
<1>4. S \o B = C
  BY <1>1, <1>2, <1>3, SeqEqual
<1> QED
  BY <1>4 DEF B, C

LEMMA ColumnsKnown ==
  ASSUME IInv, starts = 1
  PROVE  num_cols = NumCols
<1>1. arrived = HostBytes
  BY DEF IInv, StartedAtEnd
<1>2. Reception = ReceptionAt(HostBytes)
  BY <1>1 DEF IInv, BytesCounted
<1> QED
  BY <1>2, LastReception DEF Reception

LEMMA SentAssociative ==
  \A p, q, r \in Seq(Int) : (p \o q) \o r = p \o (q \o r)
<1> DEFINE I == Int
<1> HIDE DEF I
<1>1. \A p, q, r \in Seq(I) : (p \o q) \o r = p \o (q \o r)
  BY Associative
<1> QED
  BY <1>1, Zenon DEF I

LEMMA EnqueueInvariant ==
  ASSUME IInv, Enqueue
  PROVE  IInv'
<1>1. /\ UNCHANGED <<board_vars, counters, memories, start_vars, send_state, engine, arrived,
                     received>>
      /\ sender \in {"main", "interrupt"}
      /\ unacked' = Append(unacked, BatchElements)
      /\ s_element_counter' = s_element_counter + BatchSize
  BY DEF Enqueue, Sending, send_same
<1>2. UNCHANGED <<starts, received, main_pc, conn>> /\ starts = 1
  BY <1>1, SendsLater DEF start_vars, board_vars, conn_vars
<1>3. num_cols = NumCols /\ s_element_counter \in 0..NumCols /\ engine \notin {"running", "done"}
  BY <1>1, <1>2, ColumnsKnown DEF IInv, SendsAfterAnswer
<1>4. BatchSize \in 0..NumCols /\ s_element_counter + BatchSize \in 0..NumCols
  BY <1>3, Ranges, AppAssumption DEF BatchSize
<1>5. BytesCounted' /\ StartedAtEnd'
  BY <1>1, BytesCountedRests, StartedAtEndRests DEF IInv
<1>6. Silent'
  <2>1. arrived # 0
    BY <1>2, Ranges DEF IInv, StartedAtEnd
  <2> QED
    BY <2>1, <1>1, <1>2 DEF IInv, Silent
<1>7. SendsAfterAnswer'
  BY <1>1, <1>2, <1>3, <1>4 DEF SendsAfterAnswer
<1>8. SentInOrder'
  <2> DEFINE s == s_element_counter
             b == BatchSize
             S == [i \in 1..s |-> i - 1]
             F == FlattenSeq(unacked)
  <2>1. /\ s \in Nat /\ b \in Nat /\ s_element_counter' = s + b
        /\ BatchElements = [i \in 1..b |-> s + i - 1]
    BY <1>1, <1>3, <1>4 DEF BatchElements
  <2> HIDE DEF b
  <2>2. /\ BatchElements \in Seq(Int) /\ S \in Seq(Int) /\ <<Ready>> \in Seq(Int)
        /\ received \in Seq(Int) /\ unacked \in Seq(Seq(Int))
    BY <2>1 DEF Ready, IInv, SentInOrder
  <2>3. F \in Seq(Int)
    BY <2>2, FlattenType
  <2>4. received \o F = <<Ready>> \o S
    BY <1>2 DEF IInv, SentInOrder, Sent
  <2>5. FlattenSeq(unacked') = F \o BatchElements
    BY <1>1, <2>2, FlattenAppend
  <2>6. S \o BatchElements = [i \in 1..s+b |-> i - 1]
    BY <2>1, BatchAppended
  <2> HIDE DEF S, F, s
  <2>7. received \o (F \o BatchElements) = (received \o F) \o BatchElements
    BY <2>2, <2>3, SentAssociative, Zenon
  <2>8. (<<Ready>> \o S) \o BatchElements = <<Ready>> \o (S \o BatchElements)
    BY <2>2, SentAssociative, Zenon
  <2>9. Sent' = <<Ready>> \o [i \in 1..s+b |-> i - 1]
    BY <1>2, <2>4, <2>5, <2>6, <2>7, <2>8 DEF Sent
  <2>10. unacked' \in Seq(Seq(Int))
    BY <1>1, <2>2, AppendProperties
  <2> QED
    BY <2>1, <2>2, <2>9, <2>10, <1>2 DEF SentInOrder
<1> QED
  BY <1>5, <1>6, <1>7, <1>8 DEF IInv

LEMMA FailedInvariant ==
  ASSUME IInv, EnqueueFails \/ EnqueueNowhere
  PROVE  IInv'
<1>1. /\ UNCHANGED <<board_vars, counters, memories, start_vars, send_state, engine, arrived,
                     received>>
      /\ sender \in {"main", "interrupt"}
      /\ UNCHANGED <<s_element_counter, unacked>>
  BY DEF EnqueueFails, EnqueueNowhere, Sending, send_same
<1>2. UNCHANGED <<starts, main_pc, conn>> /\ starts = 1
  BY <1>1, SendsLater DEF start_vars, board_vars, conn_vars
<1>3. BytesCounted' /\ StartedAtEnd'
  BY <1>1, BytesCountedRests, StartedAtEndRests DEF IInv
<1>4. Silent'
  BY <1>1, <1>2, SilentRests DEF IInv
<1>5. SendsAfterAnswer'
  BY <1>1, <1>2 DEF IInv, SendsAfterAnswer
<1>6. SentInOrder'
  BY <1>1, <1>2, SentInOrderRests DEF IInv
<1> QED
  BY <1>3, <1>4, <1>5, <1>6 DEF IInv

LEMMA AcknowledgedInvariant ==
  ASSUME IInv, Acknowledged
  PROVE  IInv'
<1>1. PICK k \in 1..Len(unacked) :
        /\ received' = received \o FlattenSeq(SubSeq(unacked, 1, k))
        /\ unacked' = SubSeq(unacked, k + 1, Len(unacked))
  BY DEF Acknowledged
<1>2. /\ conn = "up" /\ sender = "none" /\ main_pc' = "fast" /\ conn' = conn
      /\ UNCHANGED <<counters, memories, start_vars, s_element_counter, engine, arrived>>
      /\ send_state = 0 => send_state' = 0
      /\ send_state' = 0 => sender' = "none"
  BY DEF Acknowledged, OnItsWay, Input, Turn, conn_vars, tcp_client_sent
<1>3. UNCHANGED starts
  BY <1>2 DEF start_vars
<1>4. BytesCounted' /\ StartedAtEnd'
  BY <1>2, BytesCountedRests, StartedAtEndRests DEF IInv
<1>5. Silent'
  BY <1>2 DEF Silent
<1>6. SendsAfterAnswer'
  BY <1>2, <1>3 DEF IInv, SendsAfterAnswer
<1>7. received \in Seq(Int) /\ unacked \in Seq(Seq(Int)) /\ Len(unacked) \in Nat
      /\ k \in 0..Len(unacked)
  BY DEF IInv, SentInOrder
<1> DEFINE First == SubSeq(unacked, 1, k)
           B == SubSeq(unacked, k + 1, Len(unacked))
<1>8. First \in Seq(Seq(Int)) /\ B \in Seq(Seq(Int))
  <2>1. \A i \in 1..Len(unacked) : unacked[i] \in Seq(Int)
    BY <1>7, ElementOfSeq
  <2>2. (\A i \in 1..k : unacked[i] \in Seq(Int))
        /\ (\A i \in k+1..Len(unacked) : unacked[i] \in Seq(Int))
    BY <2>1, <1>7
  <2> QED
    BY <2>2, <1>7, SubSeqProperties
<1>9. FlattenSeq(unacked) = FlattenSeq(First) \o FlattenSeq(B)
  BY <1>7, FlattenSplit
<1> HIDE DEF First, B
<1>10. FlattenSeq(First) \in Seq(Int) /\ FlattenSeq(B) \in Seq(Int)
  BY <1>8, FlattenType
<1>11. received' = received \o FlattenSeq(First) /\ unacked' = B
  BY <1>1 DEF First, B
<1>12. (received \o FlattenSeq(First)) \o FlattenSeq(B) = received \o (FlattenSeq(First) \o FlattenSeq(B))
  BY <1>7, <1>10, SentAssociative, Zenon
<1>13. Sent' = Sent
  BY <1>9, <1>11, <1>12 DEF Sent
<1>14. received' \in Seq(Int) /\ unacked' \in Seq(Seq(Int))
  BY <1>7, <1>8, <1>10, <1>11, ConcatProperties
<1>15. SentInOrder'
  BY <1>2, <1>3, <1>13, <1>14 DEF IInv, SentInOrder
<1> QED
  BY <1>4, <1>5, <1>6, <1>15 DEF IInv

-----------------------------------------------------------------------------
(* The theorems.                                                            *)

LEMMA NextInvariant ==
  ASSUME IInv, [Next]_vars
  PROVE  IInv'
<1>1. CASE UNCHANGED vars
  BY <1>1, StutterInvariant
<1>2. CASE Halted
  BY <1>2, StutterInvariant DEF Halted
<1>3. CASE MainStep
  BY <1>3, MainStepInvariant
<1>4. CASE Tick \/ Offer \/ ConnectionEnds
  BY <1>4, BoardInvariant
<1>5. CASE tcp_client_connected
  BY <1>5, ConnectedInvariant
<1>6. CASE Receive
  BY <1>6, ReceiveInvariant
<1>7. CASE Lose \/ Retransmit
  BY <1>7, LossInvariant
<1>8. CASE EngineDone \/ mblaze_send_callback
  BY <1>8, EngineInvariant
<1>9. CASE Enqueue
  BY <1>9, EnqueueInvariant
<1>10. CASE EnqueueFails \/ EnqueueNowhere
  BY <1>10, FailedInvariant
<1>11. CASE Acknowledged
  BY <1>11, AcknowledgedInvariant
<1> QED
  BY <1>1, <1>2, <1>3, <1>4, <1>5, <1>6, <1>7, <1>8, <1>9, <1>10, <1>11 DEF Next

\* The inductive invariant holds of the program.
THEOREM Invariant == Spec => []IInv
<1>1. Init => IInv
  BY InitInvariant
<1>2. IInv /\ [Next]_vars => IInv'
  BY NextInvariant
<1> QED
  BY <1>1, <1>2, PTL DEF Spec

\* start_LP is called once, when the whole tableau is stored behind its two sizes, with
\* its first row, its last column and the parameters that agree with it, whichever
\* packets tcp_client_recv has been given.
THEOREM WholeTableauStarts == Spec => []StartedWithWhole
<1>1. IInv => StartedWithWhole
  <2> SUFFICES ASSUME IInv PROVE StartedWithWhole
    OBVIOUS
  <2>1. starts <= 1
    BY DEF IInv, StartedAtEnd
  <2>2. ASSUME starts = 1
        PROVE  /\ ddr = [k \in 1..Total+2 |-> HostWord(k - 1)]
               /\ bram_obj = [c \in 1..NumCols |-> c - 1]
               /\ bram_rhs = [r \in 1..NumRows |-> r * NumCols - 1]
    <3>1. arrived = HostBytes
      BY <2>2 DEF IInv, StartedAtEnd
    <3>2. Reception = ReceptionAt(HostBytes)
      BY <3>1 DEF IInv, BytesCounted
    <3> QED
      BY <3>2, LastReception DEF Reception
  <2> QED
    BY <2>1, <2>2 DEF IInv, StartedAtEnd, StartedWithWhole
<1> QED
  BY <1>1, Invariant, PTL

\* mblaze_send writes the elements of the solution each once and in order behind the
\* request, though the interrupt and tcp_client_sent both call it, writes are refused and
\* several are acknowledged together.
THEOREM SolutionSentInOrder == Spec => []SolutionInOrder
<1>1. IInv => SolutionInOrder
  BY DEF IInv, SentInOrder, Sent, SolutionInOrder
<1> QED
  BY <1>1, Invariant, PTL

-----------------------------------------------------------------------------
(* The benchmark: the greatest common divisor.                              *)

CommonDivisors(a, b) ==
  {d \in Nat \ {0} : (\E k \in Nat : a = d * k) /\ (\E k \in Nat : b = d * k)}

\* A multiple is not less than what it is a multiple of.
LEMMA ProductAtLeast ==
  ASSUME NEW d \in Nat \ {0}, NEW k \in Nat \ {0}
  PROVE  d * k >= d /\ d * k \in Nat \ {0}
OBVIOUS

\* The common divisors of two numbers are those of the second and the remainder.
LEMMA SameDivisors ==
  ASSUME NEW a \in Nat, NEW b \in Nat \ {0}
  PROVE  CommonDivisors(a, b) = CommonDivisors(b, a % b)
<1> DEFINE q == a \div b
           p == a % b
<1>1. q \in Nat /\ p \in Nat /\ a = q * b + p
  BY Division
<1> HIDE DEF q, p
<1>2. ASSUME NEW d \in Nat \ {0}, NEW k \in Nat, b = d * k
      PROVE  (\E l \in Nat : a = d * l) <=> (\E l \in Nat : p = d * l)
  <2>1. q * b = d * (q * k) /\ q * k \in Nat
    BY <1>1, <1>2
  <2>2. ASSUME NEW l \in Nat, p = d * l PROVE a = d * (q * k + l) /\ q * k + l \in Nat
    <3>1. d * (q * k + l) = d * (q * k) + d * l
      BY <2>1
    <3> QED
      BY <2>1, <2>2, <3>1, <1>1
  <2>3. ASSUME NEW l \in Nat, a = d * l PROVE p = d * (l - q * k) /\ l - q * k \in Nat
    <3>1. d * (l - q * k) = d * l - d * (q * k)
      BY <2>1
    <3>2. p = d * (l - q * k)
      BY <2>1, <2>3, <3>1, <1>1
    <3>3. CASE l - q * k < 0
      <4> DEFINE m == l - q * k
      <4>1. m \in Int /\ m <= 0 - 1
        BY <2>1, <3>3
      <4> HIDE DEF m
      <4>2. d * m <= d * (0 - 1)
        BY <4>1
      <4>3. d * m < 0
        BY <4>1, <4>2
      <4> QED
        BY <4>3, <3>2, <1>1 DEF m
    <3> QED
      BY <2>1, <3>2, <3>3
  <2> QED
    BY <2>2, <2>3
<1>3. CommonDivisors(a, b) = CommonDivisors(b, p)
  BY <1>2 DEF CommonDivisors
<1> QED
  BY <1>3 DEF p

\* The function that gcd stands for.
Greatest(a, b) == IF b = 0 THEN a ELSE Max(CommonDivisors(a, b))

\* The greatest of the common divisors follows Euclid's equation.
LEMMA GreatestStep ==
  ASSUME NEW a \in Nat, NEW b \in Nat
  PROVE  Greatest(a, b) = IF b = 0 THEN a ELSE Greatest(b, a % b)
<1>1. CASE b = 0
  BY <1>1 DEF Greatest
<1>2. CASE b # 0
  <2>1. (a % b) \in Nat /\ a = (a \div b) * b + (a % b) /\ (a \div b) \in Nat
    BY <1>2, Division
  <2>2. CASE (a % b) # 0
    BY <1>2, <2>1, <2>2, SameDivisors DEF Greatest
  <2>3. CASE (a % b) = 0
    <3>1. b \in CommonDivisors(a, b)
      <4>1. a = b * (a \div b) /\ b = b * 1
        BY <2>1, <2>3
      <4> QED
        BY <1>2, <2>1, <4>1 DEF CommonDivisors
    <3>2. ASSUME NEW d \in CommonDivisors(a, b) PROVE d \in Nat /\ d <= b
      <4>1. PICK k \in Nat : b = d * k
        BY DEF CommonDivisors
      <4>2. d \in Nat \ {0} /\ k # 0
        BY <4>1, <1>2 DEF CommonDivisors
      <4> QED
        BY <4>1, <4>2, ProductAtLeast
    <3>3. Max(CommonDivisors(a, b)) = b
      BY <3>1, <3>2 DEF Max
    <3> QED
      BY <1>2, <2>3, <3>3 DEF Greatest
  <2> QED
    BY <2>2, <2>3
<1> QED
  BY <1>1, <1>2

\* So does gcd, which is defined by it: there is one such function, and it exists.
LEMMA GcdEquation ==
  ASSUME NEW a \in Nat, NEW b \in Nat
  PROVE  gcd[<<a, b>>] = IF b = 0 THEN a ELSE gcd[<<b, a % b>>]
<1> DEFINE Pairs == Nat \X Nat
           Is(f) == f = [p \in Pairs |-> IF p[2] = 0 THEN p[1] ELSE f[<<p[2], p[1] % p[2]>>]]
           g == [p \in Pairs |-> Greatest(p[1], p[2])]
<1>1. ASSUME NEW p \in Pairs
      PROVE  g[p] = IF p[2] = 0 THEN p[1] ELSE g[<<p[2], p[1] % p[2]>>]
  <2>1. p[1] \in Nat /\ p[2] \in Nat
    OBVIOUS
  <2>2. p[2] # 0 => (p[1] % p[2]) \in Nat
    BY <2>1, Division
  <2>3. g[p] = Greatest(p[1], p[2])
    OBVIOUS
  <2>4. CASE p[2] = 0
    BY <2>1, <2>3, <2>4, GreatestStep
  <2>5. CASE p[2] # 0
    <3>1. <<p[2], p[1] % p[2]>> \in Pairs
      BY <2>1, <2>2, <2>5
    <3>2. g[<<p[2], p[1] % p[2]>>] = Greatest(p[2], p[1] % p[2])
      BY <3>1
    <3>3. Greatest(p[1], p[2]) = Greatest(p[2], p[1] % p[2])
      BY <2>1, <2>5, GreatestStep
    <3> QED
      BY <2>3, <2>5, <3>2, <3>3
  <2> QED
    BY <2>4, <2>5
<1>2. Is(g)
  <2> HIDE DEF Pairs
  <2> DEFINE h == [p \in Pairs |-> IF p[2] = 0 THEN p[1] ELSE g[<<p[2], p[1] % p[2]>>]]
  <2>1. \A p \in Pairs : g[p] = h[p]
    BY <1>1 DEF h
  <2>2. g = h
    BY <2>1
  <2> QED
    BY <2>2
<1>3. Is(gcd)
  <2> HIDE DEF g
  <2>1. gcd = CHOOSE f : Is(f)
    BY Zenon DEF gcd
  <2> HIDE DEF Is
  <2> QED
    BY Zenon, <1>2, <2>1
<1>4. <<a, b>> \in Pairs /\ <<a, b>>[1] = a /\ <<a, b>>[2] = b
  OBVIOUS
<1> HIDE DEF Pairs
<1> QED
  BY <1>3, <1>4

\* It divides both numbers.
LEMMA GcdDivides ==
  ASSUME NEW a \in Nat, NEW b \in Nat, a # 0 \/ b # 0
  PROVE  gcd[<<a, b>>] \in CommonDivisors(a, b) \/ (b = 0 /\ gcd[<<a, b>>] = a)
<1> DEFINE P(x, y) == (x # 0 \/ y # 0) =>
                        gcd[<<x, y>>] \in Nat \ {0} /\ (y # 0 => gcd[<<x, y>>] \in CommonDivisors(x, y))
           T == {y \in Nat : \E x \in Nat : ~P(x, y)}
<1>1. ASSUME NEW y \in Nat, NEW x \in Nat, \A z \in 0..y-1 : \A w \in Nat : P(w, z)
      PROVE  P(x, y)
  <2>1. CASE y = 0
    BY <2>1, GcdEquation
  <2>2. CASE y # 0
    <3>0. y \in Nat \ {0}
      BY <2>2
    <3>a. (x % y) \in 0..y-1 /\ x = (x \div y) * y + (x % y) /\ (x \div y) \in Nat
      BY <3>0, Division
    <3>1. (x % y) \in Nat /\ (x % y) \in 0..y-1 /\ x = (x \div y) * y + (x % y) /\ (x \div y) \in Nat
      BY <3>a
    <3>2. gcd[<<x, y>>] = gcd[<<y, x % y>>]
      BY <2>2, GcdEquation
    <3>3. P(y, x % y)
      BY <1>1, <3>1
    <3>4. gcd[<<x, y>>] \in Nat \ {0}
      BY <3>2, <3>3, <2>2
    <3>5. CASE (x % y) # 0
      <4>1. gcd[<<y, x % y>>] \in CommonDivisors(y, x % y)
        BY <3>3, <3>5, <2>2
      <4> QED
        BY <4>1, <3>2, <3>4, <2>2, SameDivisors
    <3>6. CASE (x % y) = 0
      <4>0. gcd[<<y, 0>>] = y
        BY GcdEquation
      <4>1. gcd[<<x, y>>] = y
        BY Zenon, <3>2, <3>6, <4>0
      <4>2. x = y * (x \div y) /\ y = y * 1
        BY <3>1, <3>6
      <4>3. y \in CommonDivisors(x, y)
        BY <2>2, <3>1, <4>2 DEF CommonDivisors
      <4> QED
        BY <3>4, <4>1, <4>3
    <3> QED
      BY <3>5, <3>6
  <2> QED
    BY <2>1, <2>2
<1>2. T = {}
  <2> SUFFICES ASSUME T # {} PROVE FALSE
    OBVIOUS
  <2>1. T \subseteq Nat
    OBVIOUS
  <2>2. PICK y \in T : \A z \in T : y <= z
    BY <2>1, Least
  <2>3. y \in Nat /\ \E x \in Nat : ~P(x, y)
    OBVIOUS
  <2>4. PICK x \in Nat : ~P(x, y)
    BY <2>3
  <2>5. ASSUME NEW z \in 0..y-1, NEW w \in Nat
        PROVE  P(w, z)
    <3>1. z \in Nat /\ ~(y <= z)
      BY <2>3
    <3>2. z \notin T
      BY <2>2, <3>1
    <3> QED
      BY <3>1, <3>2
  <2>6. \A z \in 0..y-1 : \A w \in Nat : P(w, z)
    BY Zenon, <2>5
  <2>7. y \in Nat
    BY <2>3
  <2>8. P(x, y)
    BY <1>1, <2>6, <2>7
  <2> QED
    BY <2>4, <2>8
<1>3. P(a, b)
  BY <1>2
<1> HIDE DEF T
<1>4. CASE b = 0
  BY <1>4, GcdEquation
<1> QED
  BY <1>3, <1>4

\* The greatest common divisor divides both numbers, and is not zero if one is not.
LEMMA GcdDivisor ==
  ASSUME NEW a \in Nat, NEW b \in Nat \ {0}
  PROVE  /\ gcd[<<a, b>>] \in Nat \ {0}
         /\ \E k \in Nat : a = gcd[<<a, b>>] * k
         /\ \E k \in Nat \ {0} : b = gcd[<<a, b>>] * k
<1>1. gcd[<<a, b>>] \in CommonDivisors(a, b)
  BY GcdDivides
<1> DEFINE g == gcd[<<a, b>>]
<1> HIDE DEF g
<1>2. g \in CommonDivisors(a, b)
  BY <1>1 DEF g
<1>3. g \in Nat \ {0} /\ (\E k \in Nat : a = g * k) /\ (\E k \in Nat : b = g * k)
  BY <1>2 DEF CommonDivisors
<1>4. ASSUME NEW k \in Nat, b = g * k PROVE k # 0
  BY <1>3, <1>4
<1> QED
  BY <1>3, <1>4 DEF g

\* Two special cases: what a fraction that is zero or one is reduced by.
LEMMA GcdOfEqual ==
  ASSUME NEW m \in Nat \ {0}
  PROVE  gcd[<<m, m>>] = m /\ gcd[<<0, m>>] = m
<1>1. (m % m) = 0 /\ (0 % m) = 0
  OBVIOUS
<1>2. gcd[<<m, 0>>] = m
  BY GcdEquation
<1> QED
  BY <1>1, <1>2, GcdEquation

\* Denominators multiply to denominators.
LEMMA PositiveProduct ==
  ASSUME NEW d \in Nat \ {0}, NEW e \in Nat \ {0}
  PROVE  d * e \in Nat \ {0}
OBVIOUS

\* A common factor of both numbers is one of their greatest common divisor.
LEMMA GcdScaled ==
  ASSUME NEW k \in Nat \ {0}, NEW a \in Nat, NEW b \in Nat
  PROVE  gcd[<<k * a, k * b>>] = k * gcd[<<a, b>>]
<1> DEFINE P(x, y) == gcd[<<k * x, k * y>>] = k * gcd[<<x, y>>]
           T == {y \in Nat : \E x \in Nat : ~P(x, y)}
<1>1. ASSUME NEW y \in Nat, NEW x \in Nat, \A z \in 0..y-1 : \A w \in Nat : P(w, z)
      PROVE  P(x, y)
  <2>0. k * x \in Nat /\ k * y \in Nat
    OBVIOUS
  <2>1. CASE y = 0
    <3>1. k * y = 0
      BY <2>1
    <3>2. gcd[<<k * x, 0>>] = k * x
      BY <2>0, GcdEquation
    <3>3. gcd[<<x, 0>>] = x
      BY GcdEquation
    <3> QED
      BY <2>1, <3>1, <3>2, <3>3
  <2>2. CASE y # 0
    <3>0. y \in Nat \ {0}
      BY <2>2
    <3> DEFINE q == x \div y
               z == x % y
    <3>1. z \in 0..y-1 /\ x = q * y + z /\ q \in Nat
      BY <3>0, Division
    <3>2. gcd[<<x, y>>] = gcd[<<y, z>>]
      BY <2>2, GcdEquation
    <3> HIDE DEF q, z
    <3>3. k * y \in Nat \ {0}
      BY <3>0, PositiveProduct
    <3>4. k * x = q * (k * y) + k * z
      <4>1. k * (q * y + z) = q * (k * y) + k * z
        BY <3>1
      <4> QED
        BY <3>1, <4>1
    <3>5. k * z \in 0..(k * y)-1
      <4>1. k * z \in Nat /\ y - z >= 1
        BY <3>1
      <4>2. k * (y - z) >= k * 1
        BY <3>1, <4>1
      <4>3. k * (y - z) = k * y - k * z
        BY <3>1
      <4> QED
        BY <4>1, <4>2, <4>3
    <3>6. (k * x) % (k * y) = k * z
      BY <2>0, <3>1, <3>3, <3>4, <3>5, Quotient
    <3>7. gcd[<<k * x, k * y>>] = gcd[<<k * y, k * z>>]
      <4>1. ASSUME NEW u \in Nat, NEW v \in Nat \ {0}
            PROVE  gcd[<<u, v>>] = gcd[<<v, u % v>>]
        BY GcdEquation
      <4>2. k * x \in Nat /\ k * y \in Nat \ {0}
        BY Zenon, <2>0, <3>3
      <4>3. gcd[<<k * x, k * y>>] = gcd[<<k * y, (k * x) % (k * y)>>]
        BY Zenon, <4>1, <4>2
      <4> QED
        BY Zenon, <3>6, <4>3
    <3>8. P(y, z)
      BY <1>1, <3>1
    <3> QED
      BY <3>2, <3>7, <3>8
  <2> QED
    BY <2>1, <2>2
<1>2. T = {}
  <2> SUFFICES ASSUME T # {} PROVE FALSE
    OBVIOUS
  <2>1. T \subseteq Nat
    OBVIOUS
  <2>2. PICK y \in T : \A z \in T : y <= z
    BY <2>1, Least
  <2>3. y \in Nat /\ \E x \in Nat : ~P(x, y)
    OBVIOUS
  <2>4. PICK x \in Nat : ~P(x, y)
    BY <2>3
  <2>5. ASSUME NEW z \in 0..y-1, NEW w \in Nat
        PROVE  P(w, z)
    <3>1. z \in Nat /\ ~(y <= z)
      BY <2>3
    <3>2. z \notin T
      BY <2>2, <3>1
    <3> QED
      BY <3>1, <3>2
  <2>6. \A z \in 0..y-1 : \A w \in Nat : P(w, z)
    BY Zenon, <2>5
  <2>7. y \in Nat
    BY <2>3
  <2>8. P(x, y)
    BY <1>1, <2>6, <2>7
  <2> QED
    BY <2>4, <2>8
<1> QED
  BY <1>2

-----------------------------------------------------------------------------
(* Fractions.                                                               *)

\* A product divided by one factor is the other.
LEMMA ExactQuotient ==
  ASSUME NEW g \in Nat \ {0}, NEW k \in Int
  PROVE  (g * k) \div g = k
<1>1. g * k = k * g + 0
  OBVIOUS
<1> DEFINE n == g * k
           q == n \div g
           p == n % g
<1>2. n \in Int
  OBVIOUS
<1>3. q \in Int /\ p \in 0..g-1 /\ n = g * q + p
  BY <1>2
<1> HIDE DEF q, p
<1>4. p = g * (k - q)
  <2>1. g * (k - q) = g * k - g * q
    BY <1>3
  <2> QED
    BY <1>3, <2>1
<1>5. CASE k - q >= 1
  <2>1. g * (k - q) >= g * 1
    BY <1>3, <1>5
  <2> QED
    BY <1>3, <1>4, <2>1
<1>6. CASE k - q <= 0 - 1
  <2>1. g * (k - q) <= g * (0 - 1)
    BY <1>3, <1>6
  <2> QED
    BY <1>3, <1>4, <2>1
<1>7. k = q
  BY <1>3, <1>5, <1>6
<1> QED
  BY <1>7 DEF q

\* A fraction is what its numerator and denominator share a factor with.
LEMMA FractionParts ==
  ASSUME NEW n \in Int, NEW d \in Int \ {0}
  PROVE  \E g \in Nat \ {0}, p \in Int, q \in Nat \ {0} :
           /\ n = (IF d < 0 THEN -1 ELSE 1) * (g * p)
           /\ d = (IF d < 0 THEN -1 ELSE 1) * (g * q)
           /\ Fraction(n, d) = <<p, q>>
           /\ Fraction(-n, d) = <<-p, q>>
           /\ n = 0 => q = 1
<1> DEFINE g == gcd[<<Size(n), Size(d)>>]
           s == IF d < 0 THEN -1 ELSE 1
<1>1. Size(n) \in Nat /\ Size(d) \in Nat \ {0} /\ Size(-n) = Size(n)
  BY DEF Size
<1>2. /\ g \in Nat \ {0}
      /\ \E k \in Nat : Size(n) = g * k
      /\ \E k \in Nat \ {0} : Size(d) = g * k
  BY <1>1, GcdDivisor
<1>0. n = 0 => g = Size(d)
  BY <1>1, GcdOfEqual DEF Size
<1>f. /\ Fraction(n, d) = <<(s * n) \div g, (s * d) \div g>>
      /\ Fraction(-n, d) = <<(s * (-n)) \div g, (s * d) \div g>>
  BY Zenon, <1>1 DEF Fraction
<1> HIDE DEF g
<1>3. PICK k \in Nat : Size(n) = g * k
  BY <1>2
<1>4. PICK q \in Nat \ {0} : Size(d) = g * q
  BY <1>2
<1> DEFINE p == IF s * n < 0 THEN -k ELSE k
<1>5. p \in Int /\ g * p = (IF s * n < 0 THEN -(g * k) ELSE g * k)
  BY <1>2, <1>3
<1>6. s * n = g * p /\ s * d = g * q /\ s * (-n) = g * (-p)
  <2>1. s * d = Size(d)
    BY DEF Size
  <2>2. s * n = (IF s * n < 0 THEN -Size(n) ELSE Size(n))
    BY DEF Size
  <2>3. g * (-p) = -(g * p) /\ s * (-n) = -(s * n)
    BY <1>2, <1>5
  <2> HIDE DEF s, p
  <2> QED
    BY <1>3, <1>4, <1>5, <2>1, <2>2, <2>3
<1>7. n = s * (g * p) /\ d = s * (g * q)
  <2>1. s * (s * n) = n /\ s * (s * d) = d
    OBVIOUS
  <2> HIDE DEF s, p
  <2> QED
    BY <1>6, <2>1
<1>8. (g * p) \div g = p /\ (g * q) \div g = q /\ (g * (-p)) \div g = -p
  <2>1. p \in Int /\ -p \in Int /\ q \in Int
    BY <1>5
  <2> HIDE DEF s, p
  <2> QED
    BY <1>2, <2>1, ExactQuotient
<1>9. n = 0 => q = 1
  <2>1. ASSUME g * q = g PROVE q = 1
    <3>1. CASE q >= 2
      <4>1. g * q >= g * 2
        BY <1>2, <3>1
      <4> QED
        BY <1>2, <2>1, <4>1
    <3> QED
      BY <3>1
  <2> QED
    BY <1>0, <1>4, <2>1
<1>10. Fraction(n, d) = <<p, q>> /\ Fraction(-n, d) = <<-p, q>>
  <2> HIDE DEF s, p
  <2> QED
    BY <1>f, <1>6, <1>8
<1> HIDE DEF p
<1> QED
  BY <1>2, <1>5, <1>7, <1>9, <1>10

\* A factor of numerator and denominator falls out, and so does a sign of both.
LEMMA FractionScaled ==
  ASSUME NEW n \in Int, NEW d \in Int \ {0}
  PROVE  /\ \A k \in Nat \ {0} : d > 0 => Fraction(k * n, k * d) = Fraction(n, d)
         /\ d < 0 => Fraction(n, d) = Fraction(-n, -d)
<1>1. ASSUME NEW k \in Nat \ {0}, d > 0
      PROVE  Fraction(k * n, k * d) = Fraction(n, d)
  <2> DEFINE g == gcd[<<Size(n), Size(d)>>]
  <2>1. Size(n) \in Nat /\ Size(d) \in Nat \ {0} /\ Size(d) = d
    BY <1>1 DEF Size
  <2>2. k * d \in Nat \ {0}
    BY <1>1, PositiveProduct
  <2>3. Size(k * d) = k * Size(d) /\ Size(k * n) = k * Size(n)
    <3>1. Size(k * d) = k * Size(d)
      BY <2>1, <2>2 DEF Size
    <3>2. CASE n >= 0
      <4>1. k * n \in Nat
        BY <3>2
      <4> QED
        BY <3>1, <3>2, <4>1 DEF Size
    <3>3. CASE n < 0
      <4>1. -n \in Nat \ {0} /\ k * (-n) = -(k * n)
        BY <3>3
      <4>2. k * (-n) \in Nat \ {0}
        BY <4>1, PositiveProduct
      <4> QED
        BY <3>1, <3>3, <4>1, <4>2 DEF Size
    <3> QED
      BY <3>2, <3>3
  <2>4. gcd[<<Size(k * n), Size(k * d)>>] = k * g
    BY <2>1, <2>3, GcdScaled
  <2>5. /\ g \in Nat \ {0}
        /\ \E x \in Nat : Size(n) = g * x
        /\ \E x \in Nat \ {0} : Size(d) = g * x
    BY <2>1, GcdDivisor, ZenonT(30)
  <2>6. Fraction(n, d) = <<n \div g, d \div g>>
    <3>1. ~(d < 0) /\ 1 * n = n /\ 1 * d = d
      BY <1>1
    <3> QED
      BY Zenon, <3>1 DEF Fraction
  <2>7. Fraction(k * n, k * d) = <<(k * n) \div (k * g), (k * d) \div (k * g)>>
    <3>1. ~(k * d < 0) /\ 1 * (k * n) = k * n /\ 1 * (k * d) = k * d
      BY <2>2
    <3> QED
      BY Zenon, <2>4, <3>1 DEF Fraction
  <2> HIDE DEF g
  <2>8. PICK x \in Nat : Size(n) = g * x
    BY <2>5
  <2>9. PICK y \in Nat \ {0} : d = g * y
    BY <2>1, <2>5
  <2> DEFINE p == IF n < 0 THEN -x ELSE x
  <2>10. p \in Int /\ n = g * p
    BY <2>5, <2>8 DEF Size
  <2> HIDE DEF p
  <2>11. k * g \in Nat \ {0} /\ k * n = (k * g) * p /\ k * d = (k * g) * y
    BY <2>5, <2>9, <2>10, PositiveProduct
  <2>12. /\ n \div g = p /\ d \div g = y
         /\ (k * n) \div (k * g) = p /\ (k * d) \div (k * g) = y
    BY <2>5, <2>9, <2>10, <2>11, ExactQuotient
  <2> QED
    BY <2>6, <2>7, <2>12
<1>2. ASSUME d < 0 PROVE Fraction(n, d) = Fraction(-n, -d)
  <2>1. /\ Size(-n) = Size(n) /\ Size(-d) = Size(d) /\ ~(-d < 0)
        /\ (-1) * n = 1 * (-n) /\ (-1) * d = 1 * (-d)
    BY <1>2 DEF Size
  <2> QED
    BY Zenon, <1>2, <2>1 DEF Fraction
<1> QED
  BY <1>1, <1>2

\* Equal values have one fraction.
LEMMA SameFraction ==
  ASSUME NEW n \in Int, NEW d \in Nat \ {0}, NEW p \in Int, NEW q \in Nat \ {0}, n * q = p * d
  PROVE  Fraction(n, d) = Fraction(p, q)
<1>1. Fraction(q * n, q * d) = Fraction(n, d)
  BY FractionScaled
<1>2. Fraction(d * p, d * q) = Fraction(p, q)
  BY FractionScaled
<1>3. q * n = d * p /\ q * d = d * q
  OBVIOUS
<1> QED
  BY <1>1, <1>2, <1>3

\* Its value and its sign, and the fraction of the opposite.
LEMMA FractionValue ==
  ASSUME NEW n \in Int, NEW d \in Nat \ {0}
  PROVE  /\ Fraction(n, d) \in Fractions
         /\ Fraction(n, d)[1] * d = n * Fraction(n, d)[2]
         /\ Fraction(n, d)[1] < 0 <=> n < 0
         /\ Fraction(n, d)[1] > 0 <=> n > 0
         /\ Fraction(-n, d) = Negated(Fraction(n, d))
<1>1. d \in Int \ {0} /\ ~(d < 0)
  OBVIOUS
<1>2. PICK g \in Nat \ {0}, p \in Int, q \in Nat \ {0} :
           /\ n = (IF d < 0 THEN -1 ELSE 1) * (g * p)
           /\ d = (IF d < 0 THEN -1 ELSE 1) * (g * q)
           /\ Fraction(n, d) = <<p, q>>
           /\ Fraction(-n, d) = <<-p, q>>
           /\ n = 0 => q = 1
  BY <1>1, FractionParts
<1>3. n = g * p /\ d = g * q
  BY <1>1, <1>2
<1>4. (p < 0 <=> n < 0) /\ (p > 0 <=> n > 0)
  <2>1. CASE p >= 1
    <3>1. g * p >= g * 1
      BY <2>1
    <3> QED
      BY <2>1, <3>1, <1>3
  <2>2. CASE p <= 0 - 1
    <3>1. g * p <= g * (0 - 1)
      BY <2>2
    <3> QED
      BY <2>2, <3>1, <1>3
  <2>3. CASE p = 0
    BY <2>3, <1>3
  <2> QED
    BY <2>1, <2>2, <2>3
<1>5. p * d = n * q
  BY <1>3
<1>6. <<p, q>> \in Fractions
  <2>1. Fraction(g * p, g * q) = Fraction(p, q)
    BY FractionScaled
  <2>2. Fraction(p, q) = <<p, q>>
    BY <1>2, <1>3, <2>1
  <2> QED
    BY <2>2 DEF Fractions
<1> QED
  BY <1>2, <1>4, <1>5, <1>6 DEF Negated

\* Numerator and denominator.
LEMMA FractionFields ==
  ASSUME NEW x \in Fractions
  PROVE  /\ x[1] \in Int /\ x[2] \in Nat \ {0} /\ (x[1] = 0 => x[2] = 1)
         /\ x = <<x[1], x[2]>> /\ x = Fraction(x[1], x[2])
<1>1. x[1] \in Int /\ x[2] \in Nat \ {0} /\ x = <<x[1], x[2]>> /\ x = Fraction(x[1], x[2])
  BY DEF Fractions
<1>2. x[2] \in Int \ {0} /\ ~(x[2] < 0)
  BY <1>1
<1>3. PICK g \in Nat \ {0}, p \in Int, q \in Nat \ {0} :
           /\ x[1] = (IF x[2] < 0 THEN -1 ELSE 1) * (g * p)
           /\ x[2] = (IF x[2] < 0 THEN -1 ELSE 1) * (g * q)
           /\ Fraction(x[1], x[2]) = <<p, q>>
           /\ Fraction(-x[1], x[2]) = <<-p, q>>
           /\ x[1] = 0 => q = 1
  BY <1>1, <1>2, FractionParts
<1>4. x[2] = q
  BY <1>1, <1>3
<1> QED
  BY <1>1, <1>3, <1>4

\* Integers are fractions.
LEMMA WholeFraction ==
  ASSUME NEW k \in Int
  PROVE  <<k, 1>> \in Fractions /\ Fraction(k, 1) = <<k, 1>>
<1>0. k \in Int /\ 1 \in Int \ {0}
  OBVIOUS
<1>1. PICK g \in Nat \ {0}, p \in Int, q \in Nat \ {0} :
           /\ k = (IF 1 < 0 THEN -1 ELSE 1) * (g * p)
           /\ 1 = (IF 1 < 0 THEN -1 ELSE 1) * (g * q)
           /\ Fraction(k, 1) = <<p, q>>
           /\ Fraction(-k, 1) = <<-p, q>>
           /\ k = 0 => q = 1
  BY <1>0, FractionParts, ZenonT(30)
<1>2. k = g * p /\ 1 = g * q
  BY <1>1
<1>3. g = 1
  <2>1. CASE g >= 2
    <3>1. g * q >= 2 * q
      BY <2>1
    <3> QED
      BY <1>2, <3>1
  <2> QED
    BY <2>1
<1>4. k = p /\ q = 1
  BY <1>2, <1>3
<1>5. Fraction(k, 1) = <<k, 1>>
  BY <1>1, <1>4
<1>6. 1 \in Nat \ {0}
  OBVIOUS
<1>7. Fraction(k, 1) \in Fractions
  BY <1>6, FractionValue
<1> QED
  BY <1>5, <1>7

\* A difference: its sign tells the order, and it changes with those of both.
LEMMA MinusValue ==
  ASSUME NEW x \in Fractions, NEW y \in Fractions
  PROVE  /\ Minus(x, y) \in Fractions
         /\ Negative(Minus(x, y)) <=> Less(x, y)
         /\ Positive(Minus(x, y)) <=> Less(y, x)
         /\ Minus(Negated(x), Negated(y)) = Negated(Minus(x, y))
<1>1. x[1] \in Int /\ x[2] \in Nat \ {0} /\ y[1] \in Int /\ y[2] \in Nat \ {0}
  BY FractionFields
<1> DEFINE n == x[1] * y[2] - y[1] * x[2]
           d == x[2] * y[2]
<1>2. n \in Int /\ d \in Nat \ {0}
  BY <1>1, PositiveProduct
<1>3. Minus(x, y) = Fraction(n, d)
  BY Zenon DEF Minus
<1>4. Minus(Negated(x), Negated(y)) = Fraction(-n, d)
  <2>1. (-x[1]) * y[2] - (-y[1]) * x[2] = -n
    BY <1>1
  <2>2. Negated(x)[1] = -x[1] /\ Negated(x)[2] = x[2] /\ Negated(y)[1] = -y[1] /\ Negated(y)[2] = y[2]
    BY DEF Negated
  <2>3. Minus(Negated(x), Negated(y)) = Fraction((-x[1]) * y[2] - (-y[1]) * x[2], x[2] * y[2])
    BY <2>2 DEF Minus
  <2> QED
    BY <2>1, <2>3
<1>5. (n < 0 <=> Less(x, y)) /\ (n > 0 <=> Less(y, x))
  BY <1>1 DEF Less
<1> HIDE DEF n, d
<1> QED
  BY <1>2, <1>3, <1>4, <1>5, FractionValue DEF Negative, Positive

\* The sign of a product of integers.
LEMMA SignOfProduct ==
  ASSUME NEW a \in Int, NEW b \in Int
  PROVE  /\ a > 0 => (a * b < 0 <=> b < 0) /\ (a * b > 0 <=> b > 0)
         /\ a < 0 => (a * b < 0 <=> b > 0) /\ (a * b > 0 <=> b < 0)
         /\ a = 0 => a * b = 0
<1>1. ASSUME NEW c \in Int, NEW e \in Int, c >= 1, e >= 1 PROVE c * e >= 1
  BY <1>1
<1>2. a * b = -((-a) * b) /\ a * b = -(a * (-b)) /\ a * b = (-a) * (-b)
  OBVIOUS
<1>3. a = 0 \/ b = 0 => a * b = 0
  OBVIOUS
<1>4. /\ a >= 1 /\ b >= 1 => a * b >= 1
      /\ a <= 0 - 1 /\ b >= 1 => (-a) * b >= 1
      /\ a >= 1 /\ b <= 0 - 1 => a * (-b) >= 1
      /\ a <= 0 - 1 /\ b <= 0 - 1 => (-a) * (-b) >= 1
  BY <1>1
<1>5. a * b \in Int /\ (-a) * b \in Int /\ a * (-b) \in Int /\ (-a) * (-b) \in Int
  OBVIOUS
<1> QED
  BY <1>2, <1>3, <1>4, <1>5

\* A product of fractions: its value, its sign, and that of the opposite.
LEMMA TimesValue ==
  ASSUME NEW x \in Fractions, NEW y \in Fractions
  PROVE  /\ Times(x, y) \in Fractions
         /\ Times(x, y)[1] * (x[2] * y[2]) = (x[1] * y[1]) * Times(x, y)[2]
         /\ Positive(x) => (Negative(Times(x, y)) <=> Negative(y)) /\ (Positive(Times(x, y)) <=> Positive(y))
         /\ Negative(x) => (Negative(Times(x, y)) <=> Positive(y)) /\ (Positive(Times(x, y)) <=> Negative(y))
         /\ x[1] = 0 => Times(x, y)[1] = 0
         /\ Times(Negated(x), y) = Negated(Times(x, y))
<1>1. x[1] \in Int /\ x[2] \in Nat \ {0} /\ y[1] \in Int /\ y[2] \in Nat \ {0}
  BY FractionFields
<1> DEFINE n == x[1] * y[1]
           d == x[2] * y[2]
<1>2. n \in Int /\ d \in Nat \ {0}
  BY <1>1, PositiveProduct
<1>3. Times(x, y) = Fraction(n, d)
  BY Zenon DEF Times
<1>4. Times(Negated(x), y) = Fraction(-n, d)
  <2>1. (-x[1]) * y[1] = -n
    BY <1>1
  <2>2. Negated(x)[1] = -x[1] /\ Negated(x)[2] = x[2]
    BY DEF Negated
  <2>3. Times(Negated(x), y) = Fraction((-x[1]) * y[1], x[2] * y[2])
    BY <2>2 DEF Times
  <2> QED
    BY <2>1, <2>3
<1>5. /\ x[1] > 0 => (n < 0 <=> y[1] < 0) /\ (n > 0 <=> y[1] > 0)
      /\ x[1] < 0 => (n < 0 <=> y[1] > 0) /\ (n > 0 <=> y[1] < 0)
      /\ x[1] = 0 => n = 0
  BY <1>1, SignOfProduct
<1>6. Fraction(n, d)[1] \in Int
  <2> HIDE DEF n, d
  <2> QED
    BY <1>2, FractionValue, FractionFields
<1>7. /\ Fraction(n, d) \in Fractions
      /\ Fraction(n, d)[1] * d = n * Fraction(n, d)[2]
      /\ Fraction(n, d)[1] < 0 <=> n < 0
      /\ Fraction(n, d)[1] > 0 <=> n > 0
      /\ Fraction(-n, d) = Negated(Fraction(n, d))
  <2> HIDE DEF n, d
  <2> QED
    BY <1>2, FractionValue
<1>8. n = 0 => Fraction(n, d)[1] = 0
  <2> HIDE DEF n, d
  <2> QED
    BY <1>2, <1>6, <1>7
<1>9. Times(x, y)[1] * (x[2] * y[2]) = (x[1] * y[1]) * Times(x, y)[2]
  BY Zenon, <1>3, <1>7
<1> HIDE DEF n, d
<1> QED
  BY <1>3, <1>4, <1>5, <1>7, <1>8, <1>9 DEF Negative, Positive

\* A quotient by a fraction that is not zero.
LEMMA OverType ==
  ASSUME NEW x \in Fractions, NEW y \in Fractions, y[1] # 0
  PROVE  Over(x, y) \in Fractions
<1>1. x[1] \in Int /\ x[2] \in Nat \ {0} /\ y[1] \in Int \ {0} /\ y[2] \in Nat \ {0}
  BY FractionFields
<1> DEFINE n == x[1] * y[2]
           d == x[2] * y[1]
<1>2. n \in Int /\ d \in Int \ {0}
  <2>1. CASE y[1] > 0
    BY <1>1, <2>1, PositiveProduct
  <2>2. CASE y[1] < 0
    <3>1. -y[1] \in Nat \ {0} /\ d = -(x[2] * (-y[1]))
      BY <1>1, <2>2
    <3>2. x[2] * (-y[1]) \in Nat \ {0}
      BY <1>1, <3>1, PositiveProduct
    <3> QED
      BY <1>1, <3>1, <3>2
  <2> QED
    BY <1>1, <2>1, <2>2
<1>3. Over(x, y) = Fraction(n, d)
  BY Zenon DEF Over
<1> HIDE DEF n, d
<1>4. PICK g \in Nat \ {0}, p \in Int, q \in Nat \ {0} :
           /\ n = (IF d < 0 THEN -1 ELSE 1) * (g * p)
           /\ d = (IF d < 0 THEN -1 ELSE 1) * (g * q)
           /\ Fraction(n, d) = <<p, q>>
           /\ Fraction(-n, d) = <<-p, q>>
           /\ n = 0 => q = 1
  BY <1>2, FractionParts, ZenonT(30)
<1>5. Fraction(g * p, g * q) = Fraction(p, q)
  <2>1. q \in Int \ {0} /\ q > 0
    OBVIOUS
  <2> QED
    BY <2>1, FractionScaled
<1>6. Fraction(n, d) = Fraction(g * p, g * q)
  <2>1. CASE d < 0
    <3>1. -n = g * p /\ -d = g * q
      BY <1>4, <2>1
    <3> QED
      BY <1>2, <2>1, <3>1, FractionScaled
  <2>2. CASE ~(d < 0)
    <3>1. n = g * p /\ d = g * q
      BY <1>4, <2>2
    <3> QED
      BY <3>1
  <2> QED
    BY <2>1, <2>2
<1>7. <<p, q>> = Fraction(p, q)
  BY <1>4, <1>5, <1>6
<1> QED
  BY <1>3, <1>4, <1>7 DEF Fractions

\* A quotient by a positive fraction: its value and its sign.
LEMMA OverValue ==
  ASSUME NEW x \in Fractions, NEW y \in Fractions, Positive(y)
  PROVE  /\ Over(x, y) \in Fractions
         /\ Over(x, y)[1] * (x[2] * y[1]) = (x[1] * y[2]) * Over(x, y)[2]
         /\ Negative(Over(x, y)) <=> Negative(x)
         /\ Positive(Over(x, y)) <=> Positive(x)
<1>1. x[1] \in Int /\ x[2] \in Nat \ {0} /\ y[1] \in Nat \ {0} /\ y[2] \in Nat \ {0}
  BY FractionFields DEF Positive
<1> DEFINE n == x[1] * y[2]
           d == x[2] * y[1]
<1>2. n \in Int /\ d \in Nat \ {0}
  BY <1>1, PositiveProduct
<1>3. Over(x, y) = Fraction(n, d)
  BY Zenon DEF Over
<1>5. (n < 0 <=> x[1] < 0) /\ (n > 0 <=> x[1] > 0)
  <2>1. n = y[2] * x[1]
    BY <1>1
  <2> QED
    BY <1>1, <2>1, SignOfProduct
<1>7. /\ Fraction(n, d) \in Fractions
      /\ Fraction(n, d)[1] * d = n * Fraction(n, d)[2]
      /\ Fraction(n, d)[1] < 0 <=> n < 0
      /\ Fraction(n, d)[1] > 0 <=> n > 0
  <2> HIDE DEF n, d
  <2> QED
    BY <1>2, FractionValue
<1>9. Over(x, y)[1] * (x[2] * y[1]) = (x[1] * y[2]) * Over(x, y)[2]
  BY Zenon, <1>3, <1>7
<1> HIDE DEF n, d
<1> QED
  BY <1>3, <1>5, <1>7, <1>9 DEF Negative, Positive

-----------------------------------------------------------------------------
(* Order.                                                                   *)

\* A positive factor does not change the order of two products.
LEMMA Cancelled ==
  ASSUME NEW k \in Nat \ {0}, NEW a \in Int, NEW b \in Int, k * a <= k * b
  PROVE  a <= b
<1>1. CASE a - b >= 1
  <2>1. k * (a - b) >= k * 1
    BY <1>1
  <2>2. k * (a - b) = k * a - k * b
    OBVIOUS
  <2> QED
    BY <2>1, <2>2
<1> QED
  BY <1>1

\* A factor that is not negative keeps the order of two numbers.
LEMMA Scaled ==
  ASSUME NEW k \in Nat, NEW a \in Int, NEW b \in Int, a <= b
  PROVE  k * a <= k * b
<1>1. b - a \in Nat
  OBVIOUS
<1>2. k * (b - a) \in Nat
  BY <1>1
<1>3. k * (b - a) = k * b - k * a
  OBVIOUS
<1> QED
  BY <1>2, <1>3

\* Fractions are ordered.
LEMMA LessTransitive ==
  ASSUME NEW x \in Fractions, NEW y \in Fractions, NEW z \in Fractions,
         ~Less(y, x), ~Less(z, y)
  PROVE  ~Less(z, x)
<1>1. /\ x[1] \in Int /\ x[2] \in Nat \ {0} /\ y[1] \in Int /\ y[2] \in Nat \ {0}
      /\ z[1] \in Int /\ z[2] \in Nat \ {0}
  BY FractionFields
<1>2. x[1] * y[2] <= y[1] * x[2] /\ y[1] * z[2] <= z[1] * y[2]
  BY <1>1 DEF Less
<1>3. z[2] * (x[1] * y[2]) <= z[2] * (y[1] * x[2])
  BY <1>1, <1>2, Scaled
<1>4. x[2] * (y[1] * z[2]) <= x[2] * (z[1] * y[2])
  BY <1>1, <1>2, Scaled
<1>5. /\ z[2] * (x[1] * y[2]) = y[2] * (x[1] * z[2])
      /\ z[2] * (y[1] * x[2]) = x[2] * (y[1] * z[2])
      /\ x[2] * (z[1] * y[2]) = y[2] * (z[1] * x[2])
  BY <1>1
<1>6. y[2] * (x[1] * z[2]) <= y[2] * (z[1] * x[2])
  BY <1>1, <1>3, <1>4, <1>5
<1>7. x[1] * z[2] <= z[1] * x[2]
  BY <1>1, <1>6, Cancelled
<1> QED
  BY <1>1, <1>7 DEF Less

\* Of two fractions, one is not less than the other.
LEMMA LessTotal ==
  ASSUME NEW x \in Fractions, NEW y \in Fractions
  PROVE  ~Less(x, y) \/ ~Less(y, x)
<1>1. x[1] \in Int /\ x[2] \in Nat \ {0} /\ y[1] \in Int /\ y[2] \in Nat \ {0}
  BY FractionFields
<1> QED
  BY <1>1 DEF Less

\* The opposite of a fraction.
LEMMA NegatedValue ==
  ASSUME NEW x \in Fractions
  PROVE  /\ Negated(x) \in Fractions /\ Negated(Negated(x)) = x
         /\ Negative(Negated(x)) <=> Positive(x)
         /\ Positive(Negated(x)) <=> Negative(x)
<1>1. x[1] \in Int /\ x[2] \in Nat \ {0} /\ (x[1] = 0 => x[2] = 1) /\ x = <<x[1], x[2]>>
  BY FractionFields
<1>2. Negated(x) = <<-x[1], x[2]>>
  BY DEF Negated
<1>3. -x[1] \in Int /\ -(-x[1]) = x[1] /\ (-x[1] = 0 => x[1] = 0)
  BY <1>1
<1>4. Negated(x) \in Fractions
  <2>1. x = Fraction(x[1], x[2])
    BY FractionFields
  <2>2. Fraction(-x[1], x[2]) = Negated(x)
    BY <1>1, <2>1, FractionValue
  <2> QED
    BY <1>1, <1>3, <2>2, FractionValue
<1>5. Negated(Negated(x)) = <<-(-x[1]), x[2]>>
  BY <1>2 DEF Negated
<1> QED
  BY <1>1, <1>2, <1>3, <1>4, <1>5 DEF Negative, Positive

\* The ratio test: as much of the pivot row as clears the column is not more than
\* the right-hand side when the pivot row has the smallest ratio.
LEMMA RatioTest ==
  ASSUME NEW b \in Fractions, NEW a \in Fractions, NEW u \in Fractions,
         Positive(a), ~Less(Over(b, a), u)
  PROVE  ~Less(b, Times(a, u))
<1> DEFINE w == Over(b, a)
           t == Times(a, u)
<1>1. /\ b[1] \in Int /\ b[2] \in Nat \ {0} /\ a[1] \in Nat \ {0} /\ a[2] \in Nat \ {0}
      /\ u[1] \in Int /\ u[2] \in Nat \ {0}
  BY FractionFields DEF Positive
<1>2. w \in Fractions /\ w[1] * (b[2] * a[1]) = (b[1] * a[2]) * w[2]
  BY OverValue
<1>3. t \in Fractions /\ t[1] * (a[2] * u[2]) = (a[1] * u[1]) * t[2]
  BY TimesValue
<1>4. ~Less(w, u)
  OBVIOUS
<1> HIDE DEF w, t
<1>5. w[1] \in Int /\ w[2] \in Nat \ {0} /\ t[1] \in Int /\ t[2] \in Nat \ {0}
  BY <1>2, <1>3, FractionFields
<1>6. u[1] * w[2] <= w[1] * u[2]
  BY <1>1, <1>4, <1>5 DEF Less
<1> DEFINE k == w[2] * (a[2] * u[2])
           l == t[2] * (b[2] * a[1])
<1>7. k \in Nat \ {0} /\ l \in Nat \ {0}
  BY <1>1, <1>5, PositiveProduct
<1>8. l * (u[1] * w[2]) <= l * (w[1] * u[2])
  BY <1>1, <1>5, <1>6, <1>7, Scaled
<1>9. k * (t[1] * b[2]) = l * (u[1] * w[2])
  <2>1. k * (t[1] * b[2]) = (w[2] * b[2]) * (t[1] * (a[2] * u[2]))
    BY <1>1, <1>5
  <2>2. (w[2] * b[2]) * ((a[1] * u[1]) * t[2]) = l * (u[1] * w[2])
    BY <1>1, <1>5
  <2> QED
    BY <1>3, <2>1, <2>2
<1>10. k * (b[1] * t[2]) = l * (w[1] * u[2])
  <2>1. k * (b[1] * t[2]) = (t[2] * u[2]) * ((b[1] * a[2]) * w[2])
    BY <1>1, <1>5
  <2>2. (t[2] * u[2]) * (w[1] * (b[2] * a[1])) = l * (w[1] * u[2])
    BY <1>1, <1>5
  <2> QED
    BY <1>2, <2>1, <2>2
<1>11. k * (t[1] * b[2]) <= k * (b[1] * t[2])
  BY <1>8, <1>9, <1>10
<1>12. t[1] * b[2] <= b[1] * t[2]
  <2>1. t[1] * b[2] \in Int /\ b[1] * t[2] \in Int
    BY <1>1, <1>5
  <2> HIDE DEF k
  <2> QED
    BY <1>7, <1>11, <2>1, Cancelled
<1> QED
  BY <1>1, <1>5, <1>12 DEF Less, t

\* What takes nothing away does not lower a value.
LEMMA MinusRaises ==
  ASSUME NEW x \in Fractions, NEW y \in Fractions, ~Positive(y)
  PROVE  ~Less(Minus(x, y), x)
<1> DEFINE n == x[1] * y[2] - y[1] * x[2]
           d == x[2] * y[2]
           t == Minus(x, y)
<1>1. x[1] \in Int /\ x[2] \in Nat \ {0} /\ y[1] \in Int /\ y[2] \in Nat \ {0} /\ y[1] <= 0
  BY FractionFields DEF Positive
<1>2. n \in Int /\ d \in Nat \ {0}
  BY <1>1, PositiveProduct
<1>3. t = Fraction(n, d)
  BY Zenon DEF Minus
<1>4. t \in Fractions /\ t[1] * d = n * t[2]
  <2> HIDE DEF n, d
  <2> QED
    BY <1>2, <1>3, FractionValue
<1> HIDE DEF t
<1>5. t[1] \in Int /\ t[2] \in Nat \ {0}
  BY <1>4, FractionFields
<1>6. y[2] * (x[1] * t[2]) <= y[2] * (t[1] * x[2])
  <2>1. y[2] * (t[1] * x[2]) = t[1] * d
    BY <1>1, <1>5
  <2>2. n * t[2] = y[2] * (x[1] * t[2]) + (-y[1]) * (x[2] * t[2])
    BY <1>1, <1>5
  <2>3. (-y[1]) * (x[2] * t[2]) \in Nat
    <3>1. -y[1] \in Nat /\ x[2] * t[2] \in Nat
      BY <1>1, <1>5
    <3> QED
      BY <3>1
  <2>4. y[2] * (x[1] * t[2]) \in Int /\ y[2] * (t[1] * x[2]) \in Int
    BY <1>1, <1>5
  <2> HIDE DEF n, d
  <2> QED
    BY <1>4, <2>1, <2>2, <2>3, <2>4
<1>7. x[1] * t[2] <= t[1] * x[2]
  BY <1>1, <1>5, <1>6, Cancelled
<1> QED
  BY <1>1, <1>5, <1>7 DEF Less, t

\* An entry of the pivot's own column is cleared, or becomes positive.
LEMMA ClearedEntry ==
  ASSUME NEW x \in Fractions, NEW y \in Fractions, Positive(x)
  PROVE  /\ Positive(Over(x, x))
         /\ Minus(y, Times(y, Over(x, x)))[1] = 0
<1> DEFINE u == Over(x, x)
           t == Times(y, u)
<1>1. x[1] \in Nat \ {0} /\ x[2] \in Nat \ {0} /\ y[1] \in Int /\ y[2] \in Nat \ {0}
  BY FractionFields DEF Positive
<1>2. u \in Fractions /\ u[1] * (x[2] * x[1]) = (x[1] * x[2]) * u[2] /\ Positive(u)
  BY OverValue
<1> HIDE DEF u
<1>3. t \in Fractions /\ t[1] * (y[2] * u[2]) = (y[1] * u[1]) * t[2]
  BY <1>2, TimesValue
<1> HIDE DEF t
<1>4. u[1] \in Int /\ u[2] \in Nat \ {0} /\ t[1] \in Int /\ t[2] \in Nat \ {0}
  BY <1>2, <1>3, FractionFields
<1>5. u[1] = u[2]
  <2>1. (x[1] * x[2]) * u[1] = (x[1] * x[2]) * u[2] /\ x[1] * x[2] \in Nat \ {0}
    BY <1>1, <1>2, <1>4, PositiveProduct
  <2>2. u[1] <= u[2] /\ u[2] <= u[1]
    BY <1>4, <2>1, Cancelled
  <2> QED
    BY <1>4, <2>2
<1>6. t[1] * y[2] = y[1] * t[2]
  <2>1. u[2] * (t[1] * y[2]) = u[2] * (y[1] * t[2])
    BY <1>1, <1>3, <1>4, <1>5
  <2>2. t[1] * y[2] \in Int /\ y[1] * t[2] \in Int
    BY <1>1, <1>4
  <2>3. t[1] * y[2] <= y[1] * t[2] /\ y[1] * t[2] <= t[1] * y[2]
    BY <1>4, <2>1, <2>2, Cancelled
  <2> QED
    BY <2>2, <2>3
<1>7. ~Less(y, t) /\ ~Less(t, y)
  BY <1>1, <1>4, <1>6 DEF Less
<1>8. Minus(y, t) \in Fractions /\ ~Negative(Minus(y, t)) /\ ~Positive(Minus(y, t))
  BY <1>3, <1>7, MinusValue
<1>9. Minus(y, t)[1] = 0
  BY <1>8, FractionFields DEF Negative, Positive
<1> QED
  BY <1>2, <1>9 DEF u, t

-----------------------------------------------------------------------------
(* The least of several, and the first of them.                             *)

\* The least of a set of numbers is in it.
LEMMA MinOf ==
  ASSUME NEW S, S \subseteq Nat, S # {}
  PROVE  Min(S) \in S /\ \A y \in S : Min(S) <= y
<1>1. \E x \in S : \A y \in S : x <= y
  BY Least
<1> QED
  BY <1>1 DEF Min

\* The last of the numbers up to n.
LEMMA MaxOf ==
  ASSUME NEW n \in Nat
  PROVE  Max(0..n) = n
<1>1. n \in 0..n /\ \A y \in 0..n : n >= y
  OBVIOUS
<1>2. Max(0..n) \in 0..n /\ \A y \in 0..n : Max(0..n) >= y
  BY <1>1 DEF Max
<1> QED
  BY <1>1, <1>2

\* Of finitely many fractions one is least.
LEMMA SomeLeast ==
  ASSUME NEW n \in Nat, NEW D, D \subseteq 0..n, D # {}, NEW f \in [D -> Fractions]
  PROVE  \E i \in D : \A k \in D : ~Less(f[k], f[i])
<1> DEFINE T == {m \in Nat : D \cap (0..m) # {} =>
                   \E i \in D \cap (0..m) : \A k \in D \cap (0..m) : ~Less(f[k], f[i])}
<1>0. D \subseteq Nat
  OBVIOUS
<1>1. 0 \in T
  <2>1. ASSUME D \cap (0..0) # {}
        PROVE  \E i \in D \cap (0..0) : \A k \in D \cap (0..0) : ~Less(f[k], f[i])
    <3>1. D \cap (0..0) = {0} /\ 0 \in D
      BY <2>1
    <3>2. ~Less(f[0], f[0])
      <4>1. f[0] \in Fractions
        BY <3>1
      <4> QED
        BY <4>1, LessTotal
    <3> QED
      BY <3>1, <3>2
  <2> QED
    BY <2>1
<1>2. ASSUME NEW m \in T PROVE m + 1 \in T
  <2>0. m \in Nat /\ m + 1 \in Nat
    OBVIOUS
  <2>1. CASE m + 1 \notin D
    <3>1. D \cap (0..(m + 1)) = D \cap (0..m)
      BY <2>0, <2>1, <1>0
    <3> QED
      BY <2>0, <3>1
  <2>2. CASE m + 1 \in D
    <3>0. D \cap (0..(m + 1)) = (D \cap (0..m)) \union {m + 1} /\ f[m + 1] \in Fractions
      BY <2>0, <2>2, <1>0
    <3>1. CASE D \cap (0..m) = {}
      <4>1. ~Less(f[m + 1], f[m + 1])
        BY <3>0, LessTotal
      <4> QED
        BY <2>0, <3>0, <3>1, <4>1
    <3>2. CASE D \cap (0..m) # {}
      <4>1. PICK i \in D \cap (0..m) : \A k \in D \cap (0..m) : ~Less(f[k], f[i])
        BY <3>2
      <4>2. f[i] \in Fractions /\ \A k \in D : f[k] \in Fractions
        OBVIOUS
      <4>3. CASE ~Less(f[m + 1], f[i])
        <5>1. \A k \in D \cap (0..(m + 1)) : ~Less(f[k], f[i])
          BY <3>0, <4>1, <4>3
        <5> QED
          BY <2>0, <3>0, <5>1
      <4>4. CASE Less(f[m + 1], f[i])
        <5>1. ~Less(f[i], f[m + 1])
          BY <3>0, <4>2, <4>4, LessTotal
        <5>2. \A k \in D \cap (0..m) : ~Less(f[k], f[m + 1])
          BY <3>0, <4>1, <4>2, <5>1, LessTransitive
        <5>3. ~Less(f[m + 1], f[m + 1])
          BY <3>0, LessTotal
        <5>4. \A k \in D \cap (0..(m + 1)) : ~Less(f[k], f[m + 1])
          BY <3>0, <5>2, <5>3
        <5> QED
          BY <2>0, <3>0, <5>4
      <4> QED
        BY <4>3, <4>4
    <3> QED
      BY <3>1, <3>2
  <2> QED
    BY <2>1, <2>2
<1>3. T = Nat
  <2>1. T \subseteq Nat
    OBVIOUS
  <2> HIDE DEF T
  <2> QED
    BY <1>1, <1>2, <2>1, Induction
<1>4. n \in T /\ D \cap (0..n) = D
  BY <1>3
<1> QED
  BY <1>4

\* The search for the smallest finds a place where none is smaller.
LEMMA FirstLeastOf ==
  ASSUME NEW n \in Nat, NEW D, D \subseteq 0..n, D # {}, NEW f \in [D -> Fractions]
  PROVE  /\ FirstLeast(f) \in D
         /\ \A k \in D : ~Less(f[k], f[FirstLeast(f)])
<1>1. DOMAIN f = D
  OBVIOUS
<1> DEFINE S == {i \in D : \A k \in D : ~Less(f[k], f[i])}
<1>2. S \subseteq Nat /\ S # {}
  <2>1. PICK i \in D : \A k \in D : ~Less(f[k], f[i])
    BY Zenon, SomeLeast
  <2>2. i \in S
    BY Zenon, <2>1
  <2>3. S \subseteq D /\ D \subseteq Nat
    OBVIOUS
  <2> HIDE DEF S
  <2> QED
    BY <2>2, <2>3
<1>3. FirstLeast(f) = Min(S)
  BY <1>1 DEF FirstLeast
<1>4. Min(S) \in S
  <2> HIDE DEF S
  <2> QED
    BY <1>2, MinOf
<1> QED
  BY <1>3, <1>4

-----------------------------------------------------------------------------
(* Tableaux.                                                                *)

Shaped(T, m, n) == T \in [0..m -> [0..n -> Fractions]]

\* The rows, the columns and the entries of a tableau of m + 1 rows and n + 1 columns.
LEMMA TableauParts ==
  ASSUME NEW m \in Nat, NEW n \in Nat, NEW T, Shaped(T, m, n)
  PROVE  /\ Rows(T) = 0..m /\ Constraints(T) = 1..m
         /\ Columns(T) = 0..n /\ RHS(T) = n
         /\ \A i \in 0..m : DOMAIN T[i] = 0..n
         /\ \A i \in 0..m, j \in 0..n : T[i][j] \in Fractions
<1>1. Rows(T) = 0..m
  BY DEF Shaped, Rows
<1>2. \A i \in 0..m : T[i] \in [0..n -> Fractions]
  BY DEF Shaped
<1>3. \A i \in 0..m : DOMAIN T[i] = 0..n
  BY <1>2
<1>4. Columns(T) = 0..n
  BY <1>3 DEF Columns
<1>5. RHS(T) = n
  BY <1>4, MaxOf DEF RHS
<1>6. Constraints(T) = 1..m
  BY <1>1 DEF Constraints
<1>7. \A i \in 0..m, j \in 0..n : T[i][j] \in Fractions
  BY <1>2
<1> QED
  BY <1>1, <1>3, <1>4, <1>5, <1>6, <1>7

\* An entry after a pivot on an entry that is not zero.
LEMMA PivotedEntries ==
  ASSUME NEW m \in Nat, NEW n \in Nat, NEW T, Shaped(T, m, n),
         NEW r \in 0..m, NEW c \in 0..n, T[r][c][1] # 0
  PROVE  /\ Shaped(Pivoted(T, r, c), m, n)
         /\ \A j \in 0..n : Over(T[r][j], T[r][c]) \in Fractions
         /\ \A i \in 0..m, j \in 0..n :
              Pivoted(T, r, c)[i][j] =
                IF i = r THEN Over(T[r][j], T[r][c])
                ELSE Minus(T[i][j], Times(T[i][c], Over(T[r][j], T[r][c])))
<1>1. /\ DOMAIN T = 0..m /\ \A i \in 0..m : DOMAIN T[i] = 0..n
      /\ \A i \in 0..m, j \in 0..n : T[i][j] \in Fractions
  BY TableauParts DEF Rows
<1>2. \A j \in 0..n : Over(T[r][j], T[r][c]) \in Fractions
  BY <1>1, OverType
<1> DEFINE p == [j \in 0..n |-> Over(T[r][j], T[r][c])]
           U == [i \in 0..m |-> IF i = r THEN p
                   ELSE [j \in 0..n |-> Minus(T[i][j], Times(T[i][c], p[j]))]]
<1>3. Pivoted(T, r, c) = U
  <2>1. Pivoted(T, r, c) = [i \in 0..m |-> IF i = r THEN p
                   ELSE [j \in DOMAIN T[i] |-> Minus(T[i][j], Times(T[i][c], p[j]))]]
    BY Zenon, <1>1 DEF Pivoted
  <2> HIDE DEF p
  <2> QED
    BY <1>1, <2>1
<1>4. \A j \in 0..n : p[j] = Over(T[r][j], T[r][c]) /\ p[j] \in Fractions
  BY <1>2
<1>5. \A i \in 0..m, j \in 0..n :
        Minus(T[i][j], Times(T[i][c], p[j])) \in Fractions
  <2> HIDE DEF p
  <2> QED
    BY <1>1, <1>4, TimesValue, MinusValue
<1>6. \A i \in 0..m : U[i] \in [0..n -> Fractions]
  <2>1. p \in [0..n -> Fractions]
    BY <1>4
  <2> HIDE DEF p
  <2> QED
    BY <1>5, <2>1
<1>7. \A i \in 0..m, j \in 0..n :
         U[i][j] = IF i = r THEN p[j] ELSE Minus(T[i][j], Times(T[i][c], p[j]))
  <2> HIDE DEF p
  <2> QED
    OBVIOUS
<1>8. Shaped(U, m, n)
  <2>1. DOMAIN U = 0..m /\ U = [i \in 0..m |-> U[i]]
    OBVIOUS
  <2> HIDE DEF U
  <2> QED
    BY <1>6, <2>1 DEF Shaped
<1> HIDE DEF p, U
<1> QED
  BY <1>2, <1>3, <1>4, <1>7, <1>8

-----------------------------------------------------------------------------
(* The choice of the pivot.                                                 *)

\* The column chosen is the first negative one behind the column that failed.
LEMMA ColumnChosen ==
  ASSUME NEW m \in Nat, NEW n \in Nat, NEW T, Shaped(T, m, n), NEW failed \in Int
  PROVE  \/ /\ pivot_col(T, failed) = None
            /\ \A j \in 0..n : Negative(T[0][j]) => j <= failed
         \/ /\ pivot_col(T, failed) \in 0..n
            /\ pivot_col(T, failed) > failed
            /\ Negative(T[0][pivot_col(T, failed)])
            /\ \A j \in 0..n :
                 Negative(T[0][j]) /\ j < pivot_col(T, failed) => j <= failed
<1> DEFINE S == {j \in 0..n : Negative(T[0][j]) /\ j > failed}
<1>0. Columns(T) = 0..n
  BY TableauParts
<1>1. pivot_col(T, failed) = IF S = {} THEN None ELSE Min(S)
  BY Zenon, <1>0 DEF pivot_col
<1>2. S \subseteq Nat
  OBVIOUS
<1>3. CASE S = {}
  <2>1. \A j \in 0..n : Negative(T[0][j]) => j <= failed
    BY <1>3
  <2> QED
    BY <1>1, <1>3, <2>1
<1>4. CASE S # {}
  <2>1. Min(S) \in S /\ \A j \in S : Min(S) <= j
    <3> HIDE DEF S
    <3> QED
      BY <1>2, <1>4, MinOf
  <2>2. \A j \in 0..n : Negative(T[0][j]) /\ j < Min(S) => j <= failed
    BY <2>1
  <2> QED
    BY <1>1, <1>4, <2>1, <2>2
<1> QED
  BY <1>3, <1>4

\* The rows whose ratio counts.
Small(T, c) == {i \in Constraints(T) : Positive(T[i][c]) /\ Less(Ratio(T, i, c), <<Largest, 1>>)}

\* The ratio of a row whose entry is not zero is a fraction.
LEMMA RatioValue ==
  ASSUME NEW m \in Nat, NEW n \in Nat, NEW T, Shaped(T, m, n),
         NEW c \in 0..n, NEW i \in 1..m, T[i][c][1] # 0
  PROVE  Ratio(T, i, c) = Over(T[i][n], T[i][c]) /\ Ratio(T, i, c) \in Fractions
<1>1. RHS(T) = n /\ i \in 0..m /\ n \in 0..n /\ \A k \in 0..m, j \in 0..n : T[k][j] \in Fractions
  BY TableauParts
<1>2. T[i][n] \in Fractions /\ T[i][c] \in Fractions
  BY <1>1
<1> QED
  BY <1>1, <1>2, OverType DEF Ratio

\* The row chosen is the first that has the smallest of the ratios that count.
LEMMA RowOfSmall ==
  ASSUME NEW T, NEW c
  PROVE  pivot_row(T, c) =
           IF Small(T, c) = {} THEN None
           ELSE FirstLeast([i \in Small(T, c) |-> Ratio(T, i, c)])
<1> DEFINE P == {i \in Constraints(T) : Positive(T[i][c])}
           ratios == [i \in P |-> Ratio(T, i, c)]
           small == [i \in {k \in P : Less(ratios[k], <<Largest, 1>>)} |-> ratios[i]]
<1>1. DOMAIN ratios = P /\ \A i \in P : ratios[i] = Ratio(T, i, c)
  OBVIOUS
<1>2. pivot_row(T, c) = IF DOMAIN small = {} THEN None ELSE FirstLeast(small)
  BY Zenon, <1>1 DEF pivot_row, RestrictValues, Restrict
<1>3. {k \in P : Less(ratios[k], <<Largest, 1>>)} = Small(T, c)
  BY <1>1 DEF Small
<1>4. small = [i \in Small(T, c) |-> Ratio(T, i, c)]
  <2>1. \A i \in Small(T, c) : i \in P
    BY DEF Small
  <2> HIDE DEF P
  <2> QED
    BY <1>1, <1>3, <2>1
<1>5. DOMAIN small = Small(T, c)
  BY <1>4
<1> HIDE DEF small
<1> QED
  BY <1>2, <1>4, <1>5

\* The number that stands for infinity is a fraction.
LEMMA LargestFraction == <<Largest, 1>> \in Fractions
<1>1. Largest \in Int
  BY LargestAssumption
<1> QED
  BY <1>1, WholeFraction

\* A row is found just when some ratio counts, and then it has the smallest ratio
\* of all positive entries.
LEMMA RowChosen ==
  ASSUME NEW m \in Nat, NEW n \in Nat, NEW T, Shaped(T, m, n), NEW c \in 0..n
  PROVE  \/ pivot_row(T, c) = None /\ Small(T, c) = {}
         \/ /\ pivot_row(T, c) \in 1..m
            /\ pivot_row(T, c) \in Small(T, c)
            /\ Positive(T[pivot_row(T, c)][c])
            /\ \A k \in 1..m : Positive(T[k][c]) =>
                 ~Less(Ratio(T, k, c), Ratio(T, pivot_row(T, c), c))
<1>1. Constraints(T) = 1..m /\ \A i \in 0..m, j \in 0..n : T[i][j] \in Fractions
  BY TableauParts
<1>2. \A i \in 1..m : Positive(T[i][c]) => Ratio(T, i, c) \in Fractions
  <2> SUFFICES ASSUME NEW i \in 1..m, Positive(T[i][c]) PROVE Ratio(T, i, c) \in Fractions
    OBVIOUS
  <2>1. T[i][c][1] # 0
    BY DEF Positive
  <2> QED
    BY <2>1, RatioValue
<1> DEFINE f == [i \in Small(T, c) |-> Ratio(T, i, c)]
           r == FirstLeast(f)
<1>3. Small(T, c) \subseteq 1..m /\ Small(T, c) \subseteq 0..m
      /\ \A i \in Small(T, c) : Positive(T[i][c]) /\ Less(Ratio(T, i, c), <<Largest, 1>>)
  BY <1>1 DEF Small
<1>4. CASE Small(T, c) = {}
  BY <1>4, RowOfSmall
<1>5. CASE Small(T, c) # {}
  <2>1. f \in [Small(T, c) -> Fractions]
    BY <1>2, <1>3
  <2>2. r \in Small(T, c) /\ \A k \in Small(T, c) : ~Less(f[k], f[r])
    <3> HIDE DEF f
    <3> QED
      BY <1>3, <1>5, <2>1, FirstLeastOf
  <2>3. \A k \in Small(T, c) : ~Less(Ratio(T, k, c), Ratio(T, r, c))
    <3>1. \A k \in Small(T, c) : f[k] = Ratio(T, k, c)
      OBVIOUS
    <3> HIDE DEF f, r
    <3> QED
      BY <2>2, <3>1
  <2>4. pivot_row(T, c) = r
    BY <1>5, RowOfSmall
  <2> HIDE DEF f, r
  <2>5. ASSUME NEW k \in 1..m, Positive(T[k][c])
        PROVE  ~Less(Ratio(T, k, c), Ratio(T, r, c))
    <3>1. CASE k \in Small(T, c)
      BY <2>3, <3>1
    <3>2. CASE k \notin Small(T, c)
      <4>1. ~Less(Ratio(T, k, c), <<Largest, 1>>)
        BY <1>1, <2>5, <3>2 DEF Small
      <4>2. Ratio(T, k, c) \in Fractions /\ Ratio(T, r, c) \in Fractions
        BY <1>2, <1>3, <2>2, <2>5
      <4>3. ~Less(<<Largest, 1>>, Ratio(T, r, c))
        BY <1>3, <2>2, <4>2, LargestFraction, LessTotal
      <4> QED
        BY <4>1, <4>2, <4>3, LargestFraction, LessTransitive
    <3> QED
      BY <3>1, <3>2
  <2> QED
    BY <1>3, <2>2, <2>4, <2>5
<1> QED
  BY <1>4, <1>5

-----------------------------------------------------------------------------
(* What a pivot keeps.                                                      *)

\* What is not less than a value that is not negative is not negative.
LEMMA NotBelow ==
  ASSUME NEW x \in Fractions, NEW y \in Fractions, ~Negative(x), ~Less(y, x)
  PROVE  ~Negative(y)
<1>1. x[1] \in Nat /\ x[2] \in Nat \ {0} /\ y[1] \in Int /\ y[2] \in Nat \ {0}
  BY FractionFields DEF Negative
<1>2. x[1] * y[2] <= y[1] * x[2] /\ x[1] * y[2] \in Nat
  BY <1>1 DEF Less
<1>3. y[1] < 0 => y[1] * x[2] < 0
  BY <1>1, SignOfProduct
<1> QED
  BY <1>1, <1>2, <1>3 DEF Negative

\* No right-hand side of a constraint is negative.
NonNegative(T, m, n) == \A i \in 1..m : ~Negative(T[i][n])

\* The ratio of a positive entry is not negative.
LEMMA RatioNotNegative ==
  ASSUME NEW m \in Nat, NEW n \in Nat, NEW T, Shaped(T, m, n), NonNegative(T, m, n),
         NEW c \in 0..n, NEW r \in 1..m, Positive(T[r][c])
  PROVE  ~Negative(Ratio(T, r, c))
<1>1. /\ T[r][n] \in Fractions /\ T[r][c] \in Fractions /\ T[r][c][1] # 0
      /\ ~Negative(T[r][n])
  BY TableauParts, SMTT(30) DEF Positive, NonNegative
<1>2. ~Negative(Over(T[r][n], T[r][c]))
  BY <1>1, OverValue
<1> QED
  BY <1>1, <1>2, RatioValue

\* The ratio test: after the pivot no right-hand side is negative.
LEMMA PivotFeasible ==
  ASSUME NEW m \in Nat, NEW n \in Nat, NEW T, Shaped(T, m, n), NonNegative(T, m, n),
         NEW c \in 0..n, NEW r \in 1..m, T[r][c][1] # 0, ~Negative(Ratio(T, r, c)),
         \A k \in 1..m : Positive(T[k][c]) => ~Less(Ratio(T, k, c), Ratio(T, r, c))
  PROVE  NonNegative(Pivoted(T, r, c), m, n)
<1> DEFINE u == Over(T[r][n], T[r][c])
<1>1. /\ r \in 0..m /\ n \in 0..n
      /\ \A i \in 0..m, j \in 0..n : T[i][j] \in Fractions
  BY TableauParts
<1>2. T[r][n] \in Fractions /\ T[r][c] \in Fractions /\ T[r][c][1] # 0
  BY <1>1
<1>3. u \in Fractions /\ ~Negative(u)
  BY <1>2, RatioValue
<1>4. /\ Pivoted(T, r, c)[r][n] = u
      /\ \A i \in 1..m : i # r => Pivoted(T, r, c)[i][n] = Minus(T[i][n], Times(T[i][c], u))
  BY <1>1, <1>2, PivotedEntries
<1>5. Ratio(T, r, c) = u
  BY <1>2, RatioValue
<1> HIDE DEF u
<1>6. ASSUME NEW i \in 1..m, i # r
      PROVE  ~Negative(Minus(T[i][n], Times(T[i][c], u)))
  <2>1. i \in 0..m /\ T[i][n] \in Fractions /\ T[i][c] \in Fractions /\ ~Negative(T[i][n])
    BY <1>1 DEF NonNegative
  <2>2. Times(T[i][c], u) \in Fractions
    BY <1>3, <2>1, TimesValue
  <2>3. CASE Positive(T[i][c])
    <3>1. ~Less(Ratio(T, i, c), u)
      BY <1>5, <2>3
    <3>0. T[i][c][1] # 0
      BY <2>1, <2>3, FractionFields DEF Positive
    <3>2. Ratio(T, i, c) = Over(T[i][n], T[i][c])
      BY <3>0, RatioValue
    <3>3. ~Less(T[i][n], Times(T[i][c], u))
      BY <1>3, <2>1, <2>3, <3>1, <3>2, RatioTest
    <3> QED
      BY <2>1, <2>2, <3>3, MinusValue
  <2>4. CASE ~Positive(T[i][c])
    <3>1. ~Positive(Times(T[i][c], u))
      <4>1. CASE Negative(T[i][c])
        BY <1>3, <2>1, <4>1, TimesValue
      <4>2. CASE ~Negative(T[i][c])
        <5>1. T[i][c][1] = 0
          BY <2>1, <2>4, <4>2, FractionFields DEF Negative, Positive
        <5> QED
          BY <1>3, <2>1, <5>1, TimesValue DEF Positive
      <4> QED
        BY <4>1, <4>2
    <3>2. ~Less(Minus(T[i][n], Times(T[i][c], u)), T[i][n])
      BY <2>1, <2>2, <3>1, MinusRaises
    <3>3. Minus(T[i][n], Times(T[i][c], u)) \in Fractions
      BY <2>1, <2>2, MinusValue
    <3> DEFINE w == Minus(T[i][n], Times(T[i][c], u))
    <3>4. w \in Fractions /\ ~Less(w, T[i][n])
      BY <3>2, <3>3
    <3> HIDE DEF w
    <3>5. ~Negative(w)
      BY <2>1, <3>4, NotBelow
    <3> QED
      BY <3>5 DEF w
  <2> QED
    BY <2>3, <2>4
<1> QED
  BY <1>3, <1>4, <1>6 DEF NonNegative

\* A pivot in a column of negative cost does not lower the objective.
LEMMA PivotRaises ==
  ASSUME NEW m \in Nat, NEW n \in Nat, NEW T, Shaped(T, m, n), NEW c \in 0..n, NEW r \in 1..m,
         T[r][c][1] # 0, ~Negative(Ratio(T, r, c)), Negative(T[0][c])
  PROVE  ~Less(Pivoted(T, r, c)[0][n], T[0][n])
<1> DEFINE u == Over(T[r][n], T[r][c])
<1>1. /\ r \in 0..m /\ n \in 0..n /\ 0 \in 0..m /\ r # 0
      /\ \A i \in 0..m, j \in 0..n : T[i][j] \in Fractions
  BY TableauParts
<1>2. /\ T[r][n] \in Fractions /\ T[r][c] \in Fractions /\ T[r][c][1] # 0
      /\ T[0][n] \in Fractions /\ T[0][c] \in Fractions
  BY <1>1
<1>3. u \in Fractions /\ ~Negative(u)
  BY <1>2, RatioValue
<1>4. Pivoted(T, r, c)[0][n] = Minus(T[0][n], Times(T[0][c], u))
  BY <1>1, <1>2, PivotedEntries
<1> HIDE DEF u
<1>5. Times(T[0][c], u) \in Fractions /\ ~Positive(Times(T[0][c], u))
  BY <1>2, <1>3, TimesValue
<1> QED
  BY <1>2, <1>4, <1>5, MinusRaises

\* A tableau is not the empty one that stands for none.
LEMMA ShapedNotEmpty ==
  ASSUME NEW m \in Nat, NEW n \in Nat, NEW T, Shaped(T, m, n)
  PROVE  T # <<>>
<1>1. DOMAIN T = 0..m /\ 0 \in 0..m
  BY DEF Shaped
<1>2. DOMAIN <<>> = {}
  OBVIOUS
<1> QED
  BY Zenon, <1>1, <1>2

-----------------------------------------------------------------------------
(* The inductive invariant.                                                 *)

FileInv(m, n) ==
  Shaped(file, m, n) /\ NonNegative(file, m, n) /\ file[0][n] = Zero

\* Every tableau of the repaired solver is a feasible one of the file's shape.
FeasibleInv(m, n) ==
  /\ pc \in {"start", "loop", "no column", "cycle", "stored", "failed"}
  /\ prev_fail_pivot_col_idx \in Int
  /\ pc = "start" => A = <<>>
  /\ pc \in {"loop", "no column", "cycle"} => A # <<>>
  /\ A # <<>> => Shaped(A, m, n) /\ NonNegative(A, m, n) /\ ~Negative(A[0][n])

\* A column that is passed over would fail again.
PassedInv(m, n) ==
  /\ pc = "start" => prev_fail_pivot_col_idx = None
  /\ pc \in {"loop", "no column"} =>
       \A j \in 0..n :
         Negative(A[0][j]) /\ j <= prev_fail_pivot_col_idx => Small(A, j) = {}
  /\ pc = "no column" =>
       \A j \in 0..n : Negative(A[0][j]) => j <= prev_fail_pivot_col_idx

\* As long as no column has failed, the column of the turn before is cleared, and
\* that of two turns ago does not come up again: what is taken for a cycle needs a
\* column without a row.
CycleInv(m, n) ==
  /\ pc = "start" =>
       flag_soln /\ one_iter_ago = <<None, None>> /\ two_iter_ago = <<None, None>>
  /\ flag_soln => prev_fail_pivot_col_idx = None /\ pc # "cycle"
  /\ pc = "loop" /\ flag_soln =>
       /\ one_iter_ago[1] # None =>
            /\ one_iter_ago[1] \in 0..n /\ A[0][one_iter_ago[1]][1] = 0
            /\ \A i \in 1..m : ~Negative(A[i][one_iter_ago[1]])
       /\ two_iter_ago[1] # None =>
            two_iter_ago[1] \in 0..n /\ ~Negative(A[0][two_iter_ago[1]])

\* Every tableau of the original solver is a feasible one too, though it may pivot on a
\* negative entry: the right-hand side of that row is zero then.
OriginalInv(m, n) ==
  /\ pc_o \in {"start", "loop", "left", "stored", "failed"}
  /\ pc_o = "start" => A_o = <<>>
  /\ pc_o \in {"loop", "left"} => A_o # <<>>
  /\ A_o # <<>> => Shaped(A_o, m, n) /\ NonNegative(A_o, m, n) /\ ~Negative(A_o[0][n])

SolversInv(m, n) ==
  /\ FileInv(m, n) /\ FeasibleInv(m, n) /\ PassedInv(m, n) /\ CycleInv(m, n)
  /\ OriginalInv(m, n)

SomeInv == \E m \in Nat, n \in Nat \ {0} : SolversInv(m, n)

\* The invariant holds of every file when the programs begin.
LEMMA SolversStart == SolversInit => SomeInv
<1> SUFFICES ASSUME SolversInit PROVE SomeInv
  OBVIOUS
<1>1. file \in Files
  BY DEF SolversInit
<1>2. PICK m \in Nat, n \in Nat \ {0} : file \in [0..m -> [0..n -> Fractions]]
  BY <1>1, FilesAssumption
<1>3. file[0][RHS(file)] = Zero /\ \A i \in Constraints(file) : ~Negative(file[i][RHS(file)])
  BY <1>1, FilesAssumption
<1>4. Rows(file) = 0..m /\ Columns(file) = 0..n
  BY <1>2 DEF Rows, Columns
<1>5. RHS(file) = n /\ Constraints(file) = 1..m
  BY <1>4, MaxOf DEF RHS, Constraints
<1>8. Shaped(file, m, n)
  BY <1>2 DEF Shaped
<1>9. file[0][n] = Zero
  BY <1>3, <1>5
<1>10. NonNegative(file, m, n)
  BY <1>3, <1>5 DEF NonNegative
<1>11. /\ A = <<>> /\ pc = "start" /\ prev_fail_pivot_col_idx = None /\ flag_soln
       /\ one_iter_ago = <<None, None>> /\ two_iter_ago = <<None, None>>
       /\ A_o = <<>> /\ pc_o = "start"
  BY DEF SolversInit, FixedInit, Original!Init
<1>12. SolversInv(m, n)
  BY <1>8, <1>9, <1>10, <1>11
  DEF SolversInv, FileInv, FeasibleInv, PassedInv, CycleInv, OriginalInv, None
<1> QED
  BY <1>12 DEF SomeInv

-----------------------------------------------------------------------------
(* The steps of the repaired solver.                                        *)

\* Reading the file.
LEMMA LoadKeeps ==
  ASSUME NEW m \in Nat, NEW n \in Nat \ {0},
         FileInv(m, n), FeasibleInv(m, n), PassedInv(m, n), Load
  PROVE  FeasibleInv(m, n)' /\ PassedInv(m, n)'
<1>1. pc = "start" /\ A = <<>> /\ prev_fail_pivot_col_idx' = None
  BY DEF Load, FeasibleInv, PassedInv
<1>0. prev_fail_pivot_col_idx' \in Int
  BY <1>1 DEF None
<1>2. CASE A' = file /\ pc' = "loop"
  <2>1. Shaped(file, m, n) /\ NonNegative(file, m, n) /\ ~Negative(file[0][n])
    BY DEF FileInv, Zero, Negative
  <2>2. Shaped(A', m, n) /\ NonNegative(A', m, n) /\ ~Negative(A'[0][n]) /\ A' # <<>>
    BY <1>2, <2>1, ShapedNotEmpty
  <2>3. FeasibleInv(m, n)'
    BY <1>0, <1>2, <2>2 DEF FeasibleInv, NonNegative, Shaped
  <2>4. \A j \in 0..n : ~(j <= prev_fail_pivot_col_idx')
    BY <1>1 DEF None
  <2>5. PassedInv(m, n)'
    BY <1>2, <2>4 DEF PassedInv
  <2> QED
    BY <2>3, <2>5
<1>3. CASE A' = A /\ pc' = "failed"
  <2>1. FeasibleInv(m, n)'
    BY <1>0, <1>1, <1>3 DEF FeasibleInv
  <2>2. PassedInv(m, n)'
    BY <1>3 DEF PassedInv
  <2> QED
    BY <2>1, <2>2
<1> QED
  BY <1>2, <1>3 DEF Load

\* The tableau of a turn, and the column and the row that it chooses.
LEMMA ChosenTurn ==
  ASSUME NEW m \in Nat, NEW n \in Nat \ {0}, FeasibleInv(m, n), pc = "loop"
  PROVE  /\ Shaped(A, m, n) /\ NonNegative(A, m, n) /\ ~Negative(A[0][n])
         /\ Rows(A) = 0..m /\ Constraints(A) = 1..m /\ Columns(A) = 0..n /\ RHS(A) = n
         /\ prev_fail_pivot_col_idx \in Int
         /\ col = None =>
              \A j \in 0..n : Negative(A[0][j]) => j <= prev_fail_pivot_col_idx
         /\ col # None =>
              /\ col \in 0..n /\ col # n /\ col > prev_fail_pivot_col_idx
              /\ Negative(A[0][col])
              /\ \A j \in 0..n : Negative(A[0][j]) /\ j < col => j <= prev_fail_pivot_col_idx
         /\ col # None /\ row = None => Small(A, col) = {}
         /\ col # None /\ row # None =>
              /\ row \in 1..m /\ row \in Small(A, col) /\ Positive(A[row][col])
              /\ \A k \in 1..m : Positive(A[k][col]) =>
                   ~Less(Ratio(A, k, col), Ratio(A, row, col))
<1>1. /\ Shaped(A, m, n) /\ NonNegative(A, m, n) /\ ~Negative(A[0][n])
      /\ prev_fail_pivot_col_idx \in Int
  BY DEF FeasibleInv
<1>2. Rows(A) = 0..m /\ Constraints(A) = 1..m /\ Columns(A) = 0..n /\ RHS(A) = n
  BY <1>1, TableauParts
<1>3. col = pivot_col(A, prev_fail_pivot_col_idx) /\ row = pivot_row(A, col)
  BY DEF col, row
<1>4. None \notin 0..n /\ None \notin 1..m
  BY DEF None
<1>5. \/ /\ col = None
         /\ \A j \in 0..n : Negative(A[0][j]) => j <= prev_fail_pivot_col_idx
      \/ /\ col \in 0..n
         /\ col > prev_fail_pivot_col_idx
         /\ Negative(A[0][col])
         /\ \A j \in 0..n : Negative(A[0][j]) /\ j < col => j <= prev_fail_pivot_col_idx
  BY <1>1, <1>3, ColumnChosen
<1>6. col # None =>
        \/ row = None /\ Small(A, col) = {}
        \/ /\ row \in 1..m /\ row \in Small(A, col) /\ Positive(A[row][col])
           /\ \A k \in 1..m : Positive(A[k][col]) =>
                ~Less(Ratio(A, k, col), Ratio(A, row, col))
  BY <1>1, <1>3, <1>5, RowChosen
<1> HIDE DEF col, row
<1>7. col # None => col # n
  BY <1>1, <1>5
<1> QED
  BY <1>1, <1>2, <1>4, <1>5, <1>6, <1>7

\* The end of the search: what was passed over is all that is left.
LEMMA NoColumnKeeps ==
  ASSUME NEW m \in Nat, NEW n \in Nat \ {0}, FeasibleInv(m, n), PassedInv(m, n), NoColumn
  PROVE  FeasibleInv(m, n)' /\ PassedInv(m, n)'
<1>1. /\ pc = "loop" /\ col = None /\ pc' = "no column"
      /\ A' = A /\ prev_fail_pivot_col_idx' = prev_fail_pivot_col_idx
  BY DEF NoColumn
<1>2. \A j \in 0..n : Negative(A[0][j]) => j <= prev_fail_pivot_col_idx
  BY <1>1, ChosenTurn
<1>3. FeasibleInv(m, n)'
  BY <1>1 DEF FeasibleInv, NonNegative, Shaped
<1>4. PassedInv(m, n)'
  BY <1>1, <1>2 DEF PassedInv, Small
<1> QED
  BY <1>3, <1>4

\* The end for what is taken for a cycle.
LEMMA CycleDetectedKeeps ==
  ASSUME NEW m \in Nat, NEW n \in Nat \ {0}, FeasibleInv(m, n), PassedInv(m, n), CycleDetected
  PROVE  FeasibleInv(m, n)' /\ PassedInv(m, n)'
<1>1. /\ pc = "loop" /\ pc' = "cycle"
      /\ A' = A /\ prev_fail_pivot_col_idx' = prev_fail_pivot_col_idx
  BY DEF CycleDetected
<1>3. FeasibleInv(m, n)'
  BY <1>1 DEF FeasibleInv, NonNegative, Shaped
<1>4. PassedInv(m, n)'
  BY <1>1 DEF PassedInv
<1> QED
  BY <1>3, <1>4

\* A column that fails: it and those before it would fail again.
LEMMA NoRowKeeps ==
  ASSUME NEW m \in Nat, NEW n \in Nat \ {0}, FeasibleInv(m, n), PassedInv(m, n), NoRow
  PROVE  FeasibleInv(m, n)' /\ PassedInv(m, n)'
<1>1. /\ pc = "loop" /\ col # None /\ row = None
      /\ pc' = pc /\ A' = A /\ prev_fail_pivot_col_idx' = col
  BY DEF NoRow
<1>2. /\ col \in 0..n /\ Small(A, col) = {} /\ prev_fail_pivot_col_idx \in Int
      /\ \A j \in 0..n : Negative(A[0][j]) /\ j < col => j <= prev_fail_pivot_col_idx
  BY <1>1, ChosenTurn
<1> HIDE DEF col, row
<1>3. FeasibleInv(m, n)'
  BY <1>1, <1>2 DEF FeasibleInv, NonNegative, Shaped
<1>4. ASSUME NEW j \in 0..n, Negative(A[0][j]), j <= col PROVE Small(A, j) = {}
  <2>1. CASE j = col
    BY <1>2, <2>1
  <2>2. CASE j < col
    BY <1>1, <1>2, <1>4, <2>2 DEF PassedInv
  <2> QED
    BY <1>2, <1>4, <2>1, <2>2
<1>5. \A j \in 0..n : Small(A, j)' = Small(A, j)
  BY <1>1 DEF Small
<1>6. PassedInv(m, n)'
  BY <1>1, <1>4, <1>5 DEF PassedInv
<1> QED
  BY <1>3, <1>6

\* A pivot: the tableau stays feasible and nothing is passed over any more.
LEMMA PivotKeeps ==
  ASSUME NEW m \in Nat, NEW n \in Nat \ {0}, FeasibleInv(m, n), Pivot
  PROVE  /\ FeasibleInv(m, n)' /\ PassedInv(m, n)'
         /\ A' = Pivoted(A, row, col) /\ Shaped(A', m, n) /\ NonNegative(A', m, n)
         /\ ~Less(A'[0][n], A[0][n])
<1>1. /\ pc = "loop" /\ col # None /\ row # None
      /\ pc' = pc /\ A' = Pivoted(A, row, col) /\ prev_fail_pivot_col_idx' = None
  BY DEF Pivot
<1>2. /\ Shaped(A, m, n) /\ NonNegative(A, m, n) /\ ~Negative(A[0][n])
      /\ col \in 0..n /\ Negative(A[0][col])
      /\ row \in 1..m /\ Positive(A[row][col])
      /\ \A k \in 1..m : Positive(A[k][col]) =>
           ~Less(Ratio(A, k, col), Ratio(A, row, col))
  BY <1>1, ChosenTurn
<1> HIDE DEF col, row
<1>3. /\ row \in 0..m /\ A[row][col][1] # 0 /\ n \in 0..n /\ 0 \in 0..m
      /\ ~Negative(Ratio(A, row, col))
  BY <1>2, RatioNotNegative DEF Positive
<1>4. Shaped(A', m, n)
  BY <1>1, <1>2, <1>3, PivotedEntries
<1>5. NonNegative(A', m, n)
  BY <1>1, <1>2, <1>3, PivotFeasible
<1>6. ~Less(A'[0][n], A[0][n])
  BY <1>1, <1>2, <1>3, PivotRaises
<1>7. A[0][n] \in Fractions /\ A'[0][n] \in Fractions /\ A' # <<>>
  BY <1>2, <1>3, <1>4, TableauParts, ShapedNotEmpty
<1>8. ~Negative(A'[0][n])
  BY <1>2, <1>6, <1>7, NotBelow
<1>9. FeasibleInv(m, n)'
  BY <1>1, <1>4, <1>5, <1>7, <1>8 DEF FeasibleInv, NonNegative, Shaped, None
<1>10. \A j \in 0..n : ~(j <= prev_fail_pivot_col_idx')
  BY <1>1 DEF None
<1>11. PassedInv(m, n)'
  BY <1>1, <1>10 DEF PassedInv
<1> QED
  BY <1>1, <1>4, <1>5, <1>6, <1>9, <1>11

\* Writing the solution.
LEMMA StoreKeeps ==
  ASSUME NEW m \in Nat, NEW n \in Nat \ {0}, FeasibleInv(m, n), Store
  PROVE  FeasibleInv(m, n)' /\ PassedInv(m, n)'
<1>1. /\ pc' \in {"stored", "failed"} /\ A' = A
      /\ prev_fail_pivot_col_idx' = prev_fail_pivot_col_idx
  BY DEF Store
<1>2. FeasibleInv(m, n)'
  BY <1>1 DEF FeasibleInv, NonNegative, Shaped
<1>3. PassedInv(m, n)'
  BY <1>1 DEF PassedInv
<1> QED
  BY <1>2, <1>3

-----------------------------------------------------------------------------
(* The steps of the original solver.                                        *)

\* The rows whose ratio counts there: their entries may have either sign.
AnySign(T, c) ==
  {i \in Constraints(T) :
     /\ T[i][c] # Zero
     /\ Less(Ratio(T, i, c), <<Largest, 1>>) /\ ~Negative(Ratio(T, i, c))}

\* The instance's tableaux are those of this module.
LEMMA OriginalTerms ==
  /\ Original!None = None /\ Original!Zero = Zero
  /\ \A f : Original!FirstLeast(f) = FirstLeast(f)
  /\ \A x, y : /\ Original!Over(x, y) = Over(x, y)
               /\ Original!Minus(x, y) = Minus(x, y) /\ Original!Times(x, y) = Times(x, y)
               /\ Original!Less(x, y) = Less(x, y)
  /\ \A x : Original!Negative(x) = Negative(x) /\ Original!Positive(x) = Positive(x)
  /\ \A T : /\ Original!Rows(T) = Rows(T) /\ Original!Columns(T) = Columns(T)
            /\ Original!Constraints(T) = Constraints(T) /\ Original!RHS(T) = RHS(T)
  /\ \A T, i, c : /\ Original!Ratio(T, i, c) = Ratio(T, i, c)
                  /\ Original!Pivoted(T, i, c) = Pivoted(T, i, c)
<1>1. Original!None = None /\ Original!Zero = Zero
  BY DEF Original!None, None, Original!Zero, Zero
<1>2. ASSUME NEW f PROVE Original!FirstLeast(f) = FirstLeast(f)
  BY Zenon DEF Original!FirstLeast, FirstLeast, Original!Min, Min, Original!Less, Less
<1>3. ASSUME NEW n, NEW d PROVE Original!Fraction(n, d) = Fraction(n, d)
  BY Zenon DEF Original!Fraction, Fraction, Original!gcd, gcd, Original!Size, Size
<1>4. ASSUME NEW T
      PROVE  /\ Original!Rows(T) = Rows(T) /\ Original!Columns(T) = Columns(T)
             /\ Original!Constraints(T) = Constraints(T) /\ Original!RHS(T) = RHS(T)
  BY Zenon DEF Original!Rows, Rows, Original!Columns, Columns, Original!Constraints, Constraints,
               Original!RHS, RHS, Original!Max, Max
<1>5. ASSUME NEW x, NEW y
      PROVE  /\ Original!Over(x, y) = Over(x, y)
             /\ Original!Minus(x, y) = Minus(x, y) /\ Original!Times(x, y) = Times(x, y)
             /\ Original!Less(x, y) = Less(x, y)
             /\ Original!Negative(x) = Negative(x) /\ Original!Positive(x) = Positive(x)
  BY Zenon, <1>3 DEF Original!Over, Over, Original!Minus, Minus, Original!Times, Times,
                     Original!Less, Less, Original!Negative, Negative, Original!Positive, Positive
<1>6. ASSUME NEW T, NEW i, NEW c PROVE Original!Ratio(T, i, c) = Ratio(T, i, c)
  BY Zenon, <1>4, <1>5 DEF Original!Ratio, Ratio
<1>7. ASSUME NEW T, NEW i, NEW c PROVE Original!Pivoted(T, i, c) = Pivoted(T, i, c)
  BY <1>5 DEF Original!Pivoted, Pivoted
<1> QED
  BY <1>1, <1>2, <1>4, <1>5, <1>6, <1>7

\* The row that the original solver chooses.
LEMMA RowOfAnySign ==
  ASSUME NEW T, NEW c
  PROVE  Original!pivot_row(T, c) =
           IF AnySign(T, c) = {} THEN None
           ELSE FirstLeast([i \in AnySign(T, c) |-> Ratio(T, i, c)])
<1> DEFINE P == {i \in Constraints(T) : T[i][c] # Zero}
           ratios == [i \in P |-> Ratio(T, i, c)]
           S == {k \in P : Less(ratios[k], <<Largest, 1>>) /\ ~Negative(ratios[k])}
           small == [i \in S |-> ratios[i]]
<1>1. DOMAIN ratios = P /\ \A i \in P : ratios[i] = Ratio(T, i, c)
  OBVIOUS
<1>2. Original!pivot_row(T, c) = IF DOMAIN small = {} THEN None ELSE FirstLeast(small)
  BY Zenon, <1>1, OriginalTerms
  DEF Original!pivot_row, Original!RestrictValues, Original!Restrict
<1>3. S = AnySign(T, c)
  BY <1>1 DEF AnySign
<1>4. small = [i \in AnySign(T, c) |-> Ratio(T, i, c)]
  <2>1. \A i \in AnySign(T, c) : i \in P
    BY DEF AnySign
  <2> HIDE DEF P, S
  <2> QED
    BY <1>1, <1>3, <2>1
<1>5. DOMAIN small = AnySign(T, c)
  BY <1>4
<1> HIDE DEF small
<1> QED
  BY <1>2, <1>4, <1>5

\* A fraction is zero when its numerator is.
LEMMA NotZero ==
  ASSUME NEW x \in Fractions
  PROVE  x # Zero <=> x[1] # 0
BY FractionFields DEF Zero

\* The column and the row of a turn of the original solver are of the tableau.
LEMMA OriginalTurn ==
  ASSUME NEW m \in Nat, NEW n \in Nat \ {0}, OriginalInv(m, n), pc_o = "loop"
  PROVE  /\ Shaped(A_o, m, n) /\ NonNegative(A_o, m, n) /\ ~Negative(A_o[0][n])
         /\ Original!col = None => \A j \in 0..n : ~Negative(A_o[0][j])
         /\ Original!col # None =>
              Original!col \in 0..n /\ Original!col # n /\ Negative(A_o[0][Original!col])
         /\ AnySign(A_o, Original!col) \subseteq 1..m
         /\ Original!col # None =>
              [i \in AnySign(A_o, Original!col) |-> Ratio(A_o, i, Original!col)]
                \in [AnySign(A_o, Original!col) -> Fractions]
         /\ Original!col # None /\ Original!row # None =>
              /\ Original!row \in 1..m /\ A_o[Original!row][Original!col][1] # 0
              /\ ~Negative(Ratio(A_o, Original!row, Original!col))
              /\ \A k \in 1..m : Positive(A_o[k][Original!col]) =>
                   ~Less(Ratio(A_o, k, Original!col), Ratio(A_o, Original!row, Original!col))
<1> DEFINE c == Original!col
           r == Original!row
           D == {j \in Columns(A_o) : Negative(A_o[0][j])}
           f == [j \in D |-> A_o[0][j]]
           R == AnySign(A_o, c)
           g == [i \in R |-> Ratio(A_o, i, c)]
<1>1. Shaped(A_o, m, n) /\ NonNegative(A_o, m, n) /\ ~Negative(A_o[0][n])
  BY DEF OriginalInv
<1>2. /\ Constraints(A_o) = 1..m /\ Columns(A_o) = 0..n /\ 0 \in 0..m
      /\ \A i \in 0..m, j \in 0..n : A_o[i][j] \in Fractions
  BY <1>1, TableauParts
<1>3. c = IF D = {} THEN None ELSE FirstLeast(f)
  BY Zenon, OriginalTerms DEF Original!col, Original!pivot_col
<1>4. D # {} => FirstLeast(f) \in 0..n /\ Negative(A_o[0][FirstLeast(f)])
  <2>1. D \subseteq 0..n
    BY <1>2
  <2>2. f \in [D -> Fractions]
    BY <1>2, <2>1
  <2>3. D # {} => FirstLeast(f) \in D
    <3> HIDE DEF f, D
    <3> QED
      BY <2>1, <2>2, FirstLeastOf
  <2> HIDE DEF f
  <2> QED
    BY <2>1, <2>3
<1>12. D = {} => \A j \in 0..n : ~Negative(A_o[0][j])
  BY <1>2
<1>5. /\ c # None => c \in 0..n /\ c # n /\ Negative(A_o[0][c])
      /\ c = None => \A j \in 0..n : ~Negative(A_o[0][j])
  <2>1. None \notin 0..n
    BY DEF None
  <2> HIDE DEF c, D, f
  <2> QED
    BY <1>1, <1>3, <1>4, <1>12, <2>1
<1>6. r = IF R = {} THEN None ELSE FirstLeast(g)
  BY RowOfAnySign DEF Original!row
<1> HIDE DEF c, r
<1>7. /\ R \subseteq 1..m
      /\ \A i \in R : /\ A_o[i][c] # Zero /\ ~Negative(Ratio(A_o, i, c))
                     /\ Less(Ratio(A_o, i, c), <<Largest, 1>>)
  BY <1>2 DEF AnySign
<1>13. ASSUME c # None, NEW k \in 1..m, Positive(A_o[k][c]), k \notin R
       PROVE  ~Less(Ratio(A_o, k, c), <<Largest, 1>>)
  <2>1. A_o[k][c] \in Fractions /\ c \in 0..n
    BY <1>2, <1>5, <1>13
  <2>2. A_o[k][c] # Zero
    BY <1>13, <2>1, NotZero DEF Positive
  <2>3. ~Negative(Ratio(A_o, k, c))
    BY <1>1, <1>13, <2>1, RatioNotNegative
  <2> QED
    BY <1>2, <1>13, <2>2, <2>3 DEF AnySign
<1>8. ASSUME c # None, NEW i \in R PROVE Ratio(A_o, i, c) \in Fractions /\ A_o[i][c][1] # 0
  <2>1. A_o[i][c] \in Fractions /\ i \in 1..m /\ c \in 0..n
    BY <1>2, <1>5, <1>7, <1>8
  <2>2. A_o[i][c][1] # 0
    BY <1>7, <2>1, NotZero
  <2> QED
    BY <1>1, <2>1, <2>2, RatioValue
<1> HIDE DEF R
<1>9. c # None => g \in [R -> Fractions]
  BY <1>8
<1>10. c # None /\ R # {} =>
         /\ FirstLeast(g) \in R
         /\ \A k \in R : ~Less(Ratio(A_o, k, c), Ratio(A_o, FirstLeast(g), c))
  <2>1. R \subseteq 0..m
    BY <1>7
  <2>2. c # None /\ R # {} =>
          FirstLeast(g) \in R /\ \A k \in R : ~Less(g[k], g[FirstLeast(g)])
    <3> HIDE DEF g
    <3> QED
      BY <1>9, <2>1, FirstLeastOf
  <2>3. \A k \in R : g[k] = Ratio(A_o, k, c)
    OBVIOUS
  <2> HIDE DEF g
  <2> QED
    BY <2>2, <2>3
<1>11. c # None /\ r # None =>
         r \in 1..m /\ A_o[r][c][1] # 0 /\ r \in R
           /\ \A k \in R : ~Less(Ratio(A_o, k, c), Ratio(A_o, r, c))
  <2> HIDE DEF g
  <2> QED
    BY <1>6, <1>7, <1>8, <1>10
<1>14. ASSUME c # None, r # None, NEW k \in 1..m, Positive(A_o[k][c])
       PROVE  ~Less(Ratio(A_o, k, c), Ratio(A_o, r, c))
  <2>1. CASE k \in R
    BY <1>11, <1>14, <2>1
  <2>2. CASE k \notin R
    <3>1. ~Less(Ratio(A_o, k, c), <<Largest, 1>>)
      BY <1>13, <1>14, <2>2
    <3>2. /\ Ratio(A_o, r, c) \in Fractions /\ Less(Ratio(A_o, r, c), <<Largest, 1>>)
      BY <1>7, <1>8, <1>11, <1>14
    <3>3. A_o[k][c][1] # 0 /\ c \in 0..n
      BY <1>2, <1>5, <1>14, FractionFields DEF Positive
    <3>4. Ratio(A_o, k, c) \in Fractions
      BY <1>1, <3>3, RatioValue
    <3>5. ~Less(<<Largest, 1>>, Ratio(A_o, r, c))
      BY <3>2, LargestFraction, LessTotal
    <3> QED
      BY <3>1, <3>2, <3>4, <3>5, LargestFraction, LessTransitive
  <2> QED
    BY <2>1, <2>2
<1>15. c # None /\ r # None => ~Negative(Ratio(A_o, r, c))
  BY <1>7, <1>11
<1> QED
  BY <1>1, <1>5, <1>7, <1>9, <1>11, <1>14, <1>15 DEF c, r, R

\* Its steps keep its tableau feasible.
LEMMA OriginalKeeps ==
  ASSUME NEW m \in Nat, NEW n \in Nat \ {0}, FileInv(m, n), OriginalInv(m, n), Original!Next
  PROVE  OriginalInv(m, n)'
<1>1. CASE Original!Load
  <2>1. /\ Shaped(file, m, n) /\ file # <<>> /\ NonNegative(file, m, n)
        /\ ~Negative(file[0][n])
    BY ShapedNotEmpty DEF FileInv, Zero, Negative
  <2> QED
    BY <1>1, <2>1 DEF Original!Load, OriginalInv, Shaped, NonNegative
<1>2. CASE Original!NoColumn \/ Original!NoRow
  BY <1>2 DEF Original!NoColumn, Original!NoRow, OriginalInv, Shaped, NonNegative
<1>3. CASE Original!Pivot
  <2>1. /\ pc_o = "loop" /\ Original!col # None /\ Original!row # None /\ pc_o' = pc_o
        /\ A_o' = Pivoted(A_o, Original!row, Original!col)
    BY <1>3, OriginalTerms DEF Original!Pivot
  <2> DEFINE c == Original!col
             r == Original!row
  <2>2. /\ Shaped(A_o, m, n) /\ NonNegative(A_o, m, n) /\ ~Negative(A_o[0][n])
        /\ c \in 0..n /\ Negative(A_o[0][c]) /\ r \in 1..m
        /\ A_o[r][c][1] # 0 /\ ~Negative(Ratio(A_o, r, c))
        /\ \A k \in 1..m : Positive(A_o[k][c]) => ~Less(Ratio(A_o, k, c), Ratio(A_o, r, c))
    BY <2>1, OriginalTurn
  <2>6. A_o' = Pivoted(A_o, r, c)
    BY <2>1
  <2> HIDE DEF c, r
  <2>3. r \in 0..m /\ 0 \in 0..m /\ n \in 0..n
    BY <2>2
  <2>4. Shaped(A_o', m, n)
    BY <2>2, <2>3, <2>6, PivotedEntries
  <2>5. A_o' # <<>> /\ A_o[0][n] \in Fractions /\ A_o'[0][n] \in Fractions
    BY <2>2, <2>3, <2>4, TableauParts, ShapedNotEmpty
  <2>7. NonNegative(A_o', m, n)
    BY <2>2, <2>6, PivotFeasible
  <2>8. ~Less(A_o'[0][n], A_o[0][n])
    BY <2>2, <2>6, PivotRaises
  <2>9. ~Negative(A_o'[0][n])
    BY <2>2, <2>5, <2>8, NotBelow
  <2> QED
    BY <2>1, <2>4, <2>5, <2>7, <2>9 DEF OriginalInv, Shaped, NonNegative
<1>4. CASE Original!Store
  BY <1>4 DEF Original!Store, OriginalInv, Shaped, NonNegative
<1> QED
  BY <1>1, <1>2, <1>3, <1>4 DEF Original!Next

-----------------------------------------------------------------------------
(* The invariant.                                                           *)

\* The steps of the repaired solver, together.
LEMMA FixedKeeps ==
  ASSUME NEW m \in Nat, NEW n \in Nat \ {0},
         FileInv(m, n), FeasibleInv(m, n), PassedInv(m, n), FixedNext
  PROVE  FeasibleInv(m, n)' /\ PassedInv(m, n)'
BY LoadKeeps, NoColumnKeeps, CycleDetectedKeeps, NoRowKeeps, PivotKeeps, StoreKeeps DEF FixedNext

\* While no column has failed, two turns never choose what the turn before last did.
LEMMA NoCycle ==
  ASSUME NEW m \in Nat, NEW n \in Nat \ {0}, FeasibleInv(m, n), CycleInv(m, n),
         pc = "loop", col # None, flag_soln
  PROVE  ~SameAsTwoAgo
<1>1. Negative(A[0][col])
  BY ChosenTurn
<1>2. SameAsTwoAgo => two_iter_ago[1] = col
  BY DEF SameAsTwoAgo
<1> HIDE DEF col
<1> QED
  BY <1>1, <1>2 DEF CycleInv

\* A pivot clears its column, and that of the turn before does not become negative.
LEMMA PivotKeepsCycle ==
  ASSUME NEW m \in Nat, NEW n \in Nat \ {0}, FeasibleInv(m, n), CycleInv(m, n), Pivot
  PROVE  CycleInv(m, n)'
<1>1. /\ pc = "loop" /\ col # None /\ row # None
      /\ pc' = pc /\ A' = Pivoted(A, row, col) /\ prev_fail_pivot_col_idx' = None
      /\ flag_soln' = flag_soln
      /\ two_iter_ago' = one_iter_ago /\ one_iter_ago' = <<col, row>>
  BY DEF Pivot, Remember
<1>2. /\ Shaped(A, m, n) /\ col \in 0..n /\ Negative(A[0][col])
      /\ row \in 1..m /\ Positive(A[row][col])
  BY <1>1, ChosenTurn
<1> DEFINE c == col
           r == row
           u(j) == Over(A[r][j], A[r][c])
<1> HIDE DEF col, row
<1>3. /\ r \in 0..m /\ 0 \in 0..m /\ 0 # r /\ c \in 0..n /\ A[r][c][1] # 0
      /\ \A i \in 0..m, j \in 0..n : A[i][j] \in Fractions
  BY <1>2, TableauParts, SMTT(30) DEF Positive
<1>4. \A i \in 0..m, j \in 0..n :
         A'[i][j] = IF i = r THEN u(j) ELSE Minus(A[i][j], Times(A[i][c], u(j)))
  BY <1>1, <1>2, <1>3, PivotedEntries
<1>5. Positive(A[r][c]) /\ Negative(A[0][c])
  BY <1>2
<1>6. A'[0][c][1] = 0 /\ \A i \in 1..m : ~Negative(A'[i][c])
  <2>1. ASSUME NEW i \in 0..m, i # r PROVE A'[i][c][1] = 0
    <3>1. A'[i][c] = Minus(A[i][c], Times(A[i][c], Over(A[r][c], A[r][c])))
      BY <1>3, <1>4, <2>1
    <3> QED
      BY <1>3, <1>5, <3>1, ClearedEntry
  <2>2. ~Negative(A'[r][c])
    <3>1. A'[r][c] = Over(A[r][c], A[r][c])
      BY <1>3, <1>4
    <3>2. ~Negative(Over(A[r][c], A[r][c]))
      <4>1. A[r][c] \in Fractions /\ ~Negative(A[r][c])
        BY <1>3, <1>5, FractionFields DEF Negative, Positive
      <4> QED
        BY <1>5, <4>1, OverValue
    <3> QED
      BY <3>1, <3>2
  <2>3. \A i \in 1..m : i \in 0..m
    OBVIOUS
  <2> QED
    BY <1>3, <2>1, <2>2, <2>3 DEF Negative
<1>7. ASSUME NEW d \in 0..n, A[0][d][1] = 0, \A i \in 1..m : ~Negative(A[i][d])
      PROVE  ~Negative(A'[0][d])
  <2>1. A[0][d] \in Fractions /\ A[0][c] \in Fractions /\ ~Negative(A[0][d])
    BY <1>3, <1>7 DEF Negative
  <2>2. A[r][d] \in Fractions /\ A[r][c] \in Fractions /\ ~Negative(A[r][d])
    BY <1>2, <1>3, <1>7
  <2>3. u(d) \in Fractions /\ ~Negative(u(d))
    BY <1>5, <2>2, OverValue
  <2> DEFINE v == u(d)
             w == A[0][d]
  <2>4. A'[0][d] = Minus(w, Times(A[0][c], v))
    BY <1>3, <1>4
  <2>5. v \in Fractions /\ ~Negative(v) /\ w \in Fractions /\ ~Negative(w)
    BY <2>1, <2>3
  <2> HIDE DEF v, w
  <2>6. Times(A[0][c], v) \in Fractions /\ ~Positive(Times(A[0][c], v))
    BY <1>5, <2>1, <2>5, TimesValue
  <2>7. ~Less(A'[0][d], w) /\ A'[0][d] \in Fractions
    BY <2>4, <2>5, <2>6, MinusRaises, MinusValue
  <2> QED
    BY <2>5, <2>7, NotBelow
<1>8. one_iter_ago'[1] = c
  BY <1>1
<1>9. pc' = "loop" /\ flag_soln' = flag_soln /\ prev_fail_pivot_col_idx' = None
  BY <1>1
<1> HIDE DEF c, r, u
<1>10. flag_soln /\ one_iter_ago[1] # None =>
         one_iter_ago[1] \in 0..n /\ ~Negative(A'[0][one_iter_ago[1]])
  BY <1>1, <1>7 DEF CycleInv
<1>11. two_iter_ago'[1] = one_iter_ago[1]
  BY <1>1
<1> QED
  BY <1>3, <1>6, <1>8, <1>9, <1>10, <1>11 DEF CycleInv

\* What is known of cycles, after each step of the repaired solver.
LEMMA FixedKeepsCycle ==
  ASSUME NEW m \in Nat, NEW n \in Nat \ {0},
         FileInv(m, n), FeasibleInv(m, n), PassedInv(m, n), CycleInv(m, n), FixedNext
  PROVE  CycleInv(m, n)'
<1>1. CASE Load
  <2>1. /\ flag_soln' /\ one_iter_ago' = <<None, None>> /\ two_iter_ago' = <<None, None>>
        /\ pc' \in {"loop", "failed"} /\ prev_fail_pivot_col_idx' = None
    BY <1>1 DEF Load, CycleInv
  <2> QED
    BY <2>1 DEF CycleInv
<1>2. CASE NoColumn
  <2>1. /\ flag_soln' = flag_soln /\ pc' = "no column"
        /\ prev_fail_pivot_col_idx' = prev_fail_pivot_col_idx
    BY <1>2 DEF NoColumn
  <2> QED
    BY <2>1 DEF CycleInv
<1>3. CASE CycleDetected
  <2>1. /\ flag_soln' = flag_soln /\ pc' = "cycle" /\ pc = "loop" /\ col # None /\ SameAsTwoAgo
        /\ prev_fail_pivot_col_idx' = prev_fail_pivot_col_idx
    BY <1>3 DEF CycleDetected
  <2>2. ~flag_soln
    BY <2>1, NoCycle
  <2> QED
    BY <2>1, <2>2 DEF CycleInv
<1>4. CASE NoRow
  <2>1. flag_soln' = FALSE /\ pc' = "loop"
    BY <1>4 DEF NoRow
  <2> QED
    BY <2>1 DEF CycleInv
<1>5. CASE Pivot
  BY <1>5, PivotKeepsCycle
<1>6. CASE Store
  <2>1. /\ flag_soln' = flag_soln /\ pc' \in {"stored", "failed"}
        /\ prev_fail_pivot_col_idx' = prev_fail_pivot_col_idx
    BY <1>6 DEF Store
  <2> QED
    BY <2>1 DEF CycleInv
<1> QED
  BY <1>1, <1>2, <1>3, <1>4, <1>5, <1>6 DEF FixedNext

\* A step of either program keeps the invariant.
LEMMA SolversStep ==
  ASSUME NEW m \in Nat, NEW n \in Nat \ {0}, SolversInv(m, n), [SolversNext]_solvers_vars
  PROVE  SolversInv(m, n)'
<1>1. /\ FileInv(m, n) /\ FeasibleInv(m, n) /\ PassedInv(m, n) /\ CycleInv(m, n)
      /\ OriginalInv(m, n)
  BY DEF SolversInv
<1>2. ASSUME file' = file PROVE FileInv(m, n)'
  BY <1>1, <1>2 DEF FileInv, Shaped, NonNegative
<1>3. ASSUME UNCHANGED original_vars PROVE OriginalInv(m, n)'
  BY <1>1, <1>3 DEF original_vars, OriginalInv, Shaped, NonNegative
<1>4. ASSUME UNCHANGED fixed_vars
      PROVE  FeasibleInv(m, n)' /\ PassedInv(m, n)' /\ CycleInv(m, n)'
  <2>1. FeasibleInv(m, n)' /\ PassedInv(m, n)'
    BY <1>1, <1>4 DEF fixed_vars, FeasibleInv, PassedInv, Shaped, NonNegative, Small
  <2>2. CycleInv(m, n)'
    BY <1>1, <1>4 DEF fixed_vars, CycleInv
  <2> QED
    BY <2>1, <2>2
<1>5. CASE FixedNext /\ UNCHANGED <<file, original_vars>>
  BY <1>1, <1>2, <1>3, <1>5, FixedKeeps, FixedKeepsCycle DEF SolversInv
<1>6. CASE Original!Next /\ UNCHANGED <<file, fixed_vars>>
  BY <1>1, <1>2, <1>4, <1>6, OriginalKeeps DEF SolversInv
<1>7. CASE UNCHANGED solvers_vars
  BY <1>2, <1>3, <1>4, <1>7 DEF SolversInv, solvers_vars
<1> QED
  BY <1>5, <1>6, <1>7 DEF SolversNext

\* The invariant of the benchmark.
LEMMA SolversInvariant == SolversSpec => []SomeInv
<1>1. SomeInv /\ [SolversNext]_solvers_vars => SomeInv'
  BY SolversStep DEF SomeInv
<1> QED
  BY <1>1, SolversStart, PTL DEF SolversSpec

\* For every file: no pivot of simplex() lowers the objective or makes a right-hand side
\* negative, because the search for a row keeps the smallest ratio over the positive
\* entries and the column it is given has a negative cost.
THEOREM ObjectiveNeverWorse == SolversSpec => NeverWorse
<1>1. SomeInv /\ [SolversNext]_solvers_vars =>
        [A # <<>> => /\ ~Less(A'[0][RHS(A)], A[0][RHS(A)])
                     /\ \A i \in Constraints(A) : ~Negative(A'[i][RHS(A)])]_A
  <2> SUFFICES ASSUME SomeInv, [SolversNext]_solvers_vars, A' # A, A # <<>>
               PROVE  /\ ~Less(A'[0][RHS(A)], A[0][RHS(A)])
                      /\ \A i \in Constraints(A) : ~Negative(A'[i][RHS(A)])
    OBVIOUS
  <2>1. PICK m \in Nat, n \in Nat \ {0} : SolversInv(m, n)
    BY DEF SomeInv
  <2>2. Shaped(A, m, n) /\ pc # "start" /\ FeasibleInv(m, n)
    BY <2>1 DEF SolversInv, FeasibleInv
  <2>3. Pivot
    BY <2>2 DEF SolversNext, solvers_vars, fixed_vars, FixedNext, Load, NoColumn, CycleDetected, NoRow, Store
  <2>4. NonNegative(A', m, n) /\ ~Less(A'[0][n], A[0][n])
    BY <2>2, <2>3, PivotKeeps
  <2>5. RHS(A) = n /\ Constraints(A) = 1..m
    BY <2>2, TableauParts
  <2> QED
    BY <2>4, <2>5 DEF NonNegative
<1> QED
  BY <1>1, SolversInvariant, PTL DEF SolversSpec, NeverWorse

\* For every file: when the search for a column finds none and the loop is left, no column
\* of negative cost has a ratio that counts, though prev_fail_pivot_col_idx has hidden
\* every column up to the one that failed last.
THEOREM NothingIsOverlooked == SolversSpec => []NothingOverlooked
<1>1. SomeInv => NothingOverlooked
  <2> SUFFICES ASSUME SomeInv, pc = "no column",
                      NEW j \in Columns(A), Negative(A[0][j]),
                      NEW i \in Constraints(A), Positive(A[i][j])
               PROVE  ~Less(Ratio(A, i, j), <<Largest, 1>>)
    BY DEF NothingOverlooked
  <2>1. PICK m \in Nat, n \in Nat \ {0} : SolversInv(m, n)
    BY DEF SomeInv
  <2>2. Shaped(A, m, n)
    BY <2>1 DEF SolversInv, FeasibleInv
  <2>3. j \in 0..n
    BY <2>2, TableauParts
  <2>4. Small(A, j) = {}
    BY <2>1, <2>3 DEF SolversInv, PassedInv
  <2> QED
    BY <2>4 DEF Small
<1> QED
  BY <1>1, SolversInvariant, PTL

-----------------------------------------------------------------------------
(* The original solver makes the pivots of the translation.                 *)

\* Tableaux with the same entries are the same.
LEMMA SameTableau ==
  ASSUME NEW m \in Nat, NEW n \in Nat, NEW T, NEW U, Shaped(T, m, n), Shaped(U, m, n),
         \A i \in 0..m, j \in 0..n : T[i][j] = U[i][j]
  PROVE  T = U
<1>1. \A i \in 0..m : T[i] \in [0..n -> Fractions] /\ U[i] \in [0..n -> Fractions]
  BY DEF Shaped
<1>2. \A i \in 0..m : T[i] = U[i]
  BY <1>1
<1> QED
  BY <1>2 DEF Shaped

\* The rows of a tableau whose objective is moved behind the constraints.
LEMMA ObjectiveLastParts ==
  ASSUME NEW m \in Nat, NEW n \in Nat, NEW T, Shaped(T, m, n)
  PROVE  /\ Shaped(ObjectiveLast(T), m, n)
         /\ ObjectiveLast(T)[m] = T[0]
         /\ \A i \in 0..m : i # m => ObjectiveLast(T)[i] = T[i + 1]
<1>1. Rows(T) = 0..m /\ Max(Rows(T)) = m
  BY TableauParts, MaxOf
<1>2. ObjectiveLast(T) = [i \in 0..m |-> IF i = m THEN T[0] ELSE T[i + 1]]
  BY <1>1 DEF ObjectiveLast
<1>3. \A i \in 0..m : T[i] \in [0..n -> Fractions]
  BY DEF Shaped
<1>4. \A i \in 0..m : i # m => i + 1 \in 0..m
  OBVIOUS
<1>5. m \in 0..m /\ 0 \in 0..m
  OBVIOUS
<1> QED
  BY <1>2, <1>3, <1>4, <1>5 DEF Shaped

\* The first of the least, in rows numbered from 0 instead of 1.
LEMMA ShiftedFirstLeast ==
  ASSUME NEW m \in Nat, NEW R, R \subseteq 1..m, R # {}, NEW f \in [R -> Fractions],
         NEW S, S = {i \in 0..m : i + 1 \in R}, NEW g, DOMAIN g = S, \A i \in S : g[i] = f[i + 1]
  PROVE  FirstLeast(g) = FirstLeast(f) - 1
<1> DEFINE P == {i \in R : \A k \in R : ~Less(f[k], f[i])}
           Q == {i \in S : \A k \in S : ~Less(g[k], g[i])}
<1>1. FirstLeast(f) = Min(P) /\ FirstLeast(g) = Min(Q)
  BY DEF FirstLeast
<1>2. \A i \in R : i - 1 \in S /\ g[i - 1] = f[i]
  OBVIOUS
<1>3. \A i \in S : i + 1 \in R /\ g[i] = f[i + 1]
  OBVIOUS
<1>4. \A i \in P : i \in R /\ \A k \in R : ~Less(f[k], f[i])
  OBVIOUS
<1>5. \A i \in Q : i \in S /\ \A k \in S : ~Less(g[k], g[i])
  OBVIOUS
<1>6. ASSUME NEW i \in P PROVE i - 1 \in Q
  <2>1. \A k \in S : ~Less(g[k], g[i - 1])
    BY <1>2, <1>3, <1>4
  <2> QED
    BY <1>2, <1>4, <2>1
<1>7. ASSUME NEW i \in Q PROVE i + 1 \in P
  <2>1. \A k \in R : ~Less(f[k], f[i + 1])
    <3>1. ASSUME NEW k \in R PROVE ~Less(f[k], f[i + 1])
      <4>1. ~Less(g[k - 1], g[i])
        BY <1>2, <1>5
      <4> QED
        BY <1>2, <1>3, <1>5, <4>1
    <3> QED
      BY <3>1
  <2>2. i + 1 \in R
    BY <1>3, <1>5
  <2> QED
    BY Zenon, <2>1, <2>2
<1>8. P \subseteq Nat /\ Q \subseteq Nat /\ P # {}
  <2>1. R \subseteq 0..m
    OBVIOUS
  <2>2. PICK i \in R : \A k \in R : ~Less(f[k], f[i])
    BY Zenon, <2>1, SomeLeast
  <2>3. i \in P
    BY Zenon, <2>2
  <2>4. P \subseteq R /\ Q \subseteq S /\ R \subseteq Nat /\ S \subseteq Nat
    OBVIOUS
  <2> HIDE DEF P, Q
  <2> QED
    BY <2>3, <2>4
<1> HIDE DEF P, Q
<1>9. Q # {}
  BY <1>6, <1>8
<1>10. /\ Min(P) \in P /\ \A y \in P : Min(P) <= y
       /\ Min(Q) \in Q /\ \A y \in Q : Min(Q) <= y
  BY <1>8, <1>9, MinOf
<1>11. Min(Q) <= Min(P) - 1 /\ Min(P) <= Min(Q) + 1 /\ Min(P) \in Nat /\ Min(Q) \in Nat
  BY <1>6, <1>7, <1>8, <1>10
<1> QED
  BY <1>1, <1>11

\* The instance's tableaux are those of this module.
LEMMA PyToCTerms ==
  /\ PyToC!None = None /\ PyToC!Zero = Zero
  /\ \A f : PyToC!FirstLeast(f) = FirstLeast(f)
  /\ \A x, y : /\ PyToC!Over(x, y) = Over(x, y)
               /\ PyToC!Minus(x, y) = Minus(x, y) /\ PyToC!Times(x, y) = Times(x, y)
               /\ PyToC!Less(x, y) = Less(x, y)
  /\ \A x : PyToC!Negative(x) = Negative(x) /\ PyToC!Positive(x) = Positive(x)
  /\ \A T : /\ PyToC!Rows(T) = Rows(T) /\ PyToC!Columns(T) = Columns(T)
            /\ PyToC!Constraints(T) = Constraints(T) /\ PyToC!RHS(T) = RHS(T)
  /\ \A T, i, c : /\ PyToC!Ratio(T, i, c) = Ratio(T, i, c)
                  /\ PyToC!Pivoted(T, i, c) = Pivoted(T, i, c)
<1>1. PyToC!None = None /\ PyToC!Zero = Zero
  BY DEF PyToC!None, None, PyToC!Zero, Zero
<1>2. ASSUME NEW f PROVE PyToC!FirstLeast(f) = FirstLeast(f)
  BY Zenon DEF PyToC!FirstLeast, FirstLeast, PyToC!Min, Min, PyToC!Less, Less
<1>3. ASSUME NEW n, NEW d PROVE PyToC!Fraction(n, d) = Fraction(n, d)
  BY Zenon DEF PyToC!Fraction, Fraction, PyToC!gcd, gcd, PyToC!Size, Size
<1>4. ASSUME NEW T
      PROVE  /\ PyToC!Rows(T) = Rows(T) /\ PyToC!Columns(T) = Columns(T)
             /\ PyToC!Constraints(T) = Constraints(T) /\ PyToC!RHS(T) = RHS(T)
  BY Zenon DEF PyToC!Rows, Rows, PyToC!Columns, Columns, PyToC!Constraints, Constraints,
               PyToC!RHS, RHS, PyToC!Max, Max
<1>5. ASSUME NEW x, NEW y
      PROVE  /\ PyToC!Over(x, y) = Over(x, y)
             /\ PyToC!Minus(x, y) = Minus(x, y) /\ PyToC!Times(x, y) = Times(x, y)
             /\ PyToC!Less(x, y) = Less(x, y)
             /\ PyToC!Negative(x) = Negative(x) /\ PyToC!Positive(x) = Positive(x)
  BY Zenon, <1>3 DEF PyToC!Over, Over, PyToC!Minus, Minus, PyToC!Times, Times,
                     PyToC!Less, Less, PyToC!Negative, Negative, PyToC!Positive, Positive
<1>6. ASSUME NEW T, NEW i, NEW c PROVE PyToC!Ratio(T, i, c) = Ratio(T, i, c)
  BY Zenon, <1>4, <1>5 DEF PyToC!Ratio, Ratio
<1>7. ASSUME NEW T, NEW i, NEW c PROVE PyToC!Pivoted(T, i, c) = Pivoted(T, i, c)
  BY <1>5 DEF PyToC!Pivoted, Pivoted
<1> QED
  BY <1>1, <1>2, <1>4, <1>5, <1>6, <1>7

\* Column and row of the translation.
LEMMA TranslatedTurn ==
  ASSUME NEW m \in Nat, NEW n \in Nat \ {0}, OriginalInv(m, n), pc_o = "loop"
  PROVE  /\ PyToC!pivot_col = Original!col
         /\ Original!col # None =>
              PyToC!pivot_row = IF Original!row = None THEN None ELSE Original!row - 1
<1> DEFINE c == Original!col
           L == ObjectiveLast(A_o)
           D == {j \in Columns(A_o) : Negative(A_o[0][j])}
           R == AnySign(A_o, c)
           f == [i \in R |-> Ratio(A_o, i, c)]
<1>1. A_o # <<>> /\ Shaped(A_o, m, n)
  BY DEF OriginalInv
<1>2. /\ Shaped(L, m, n) /\ L[m] = A_o[0]
      /\ \A i \in 0..m : i # m => L[i] = A_o[i + 1]
  BY <1>1, ObjectiveLastParts
<1>3. (IF A_o = <<>> THEN <<>> ELSE L) = L
  BY <1>1
<1>4. /\ Rows(L) = 0..m /\ Columns(L) = 0..n /\ RHS(L) = n
      /\ Constraints(A_o) = 1..m /\ Columns(A_o) = 0..n /\ RHS(A_o) = n
  BY <1>1, <1>2, TableauParts
<1>5. PyToC!Objective = m
  <2>1. PyToC!Max(Rows(L)) = m
    BY <1>4, MaxOf DEF PyToC!Max, Max
  <2> QED
    BY <1>3, <2>1, PyToCTerms DEF PyToC!Objective
<1>6. PyToC!pivot_col = IF D = {} THEN None ELSE FirstLeast([j \in D |-> A_o[0][j]])
  BY Zenon, <1>2, <1>3, <1>4, <1>5, PyToCTerms DEF PyToC!pivot_col
<1>7. Original!col = IF D = {} THEN None ELSE FirstLeast([j \in D |-> A_o[0][j]])
  BY Zenon, OriginalTerms DEF Original!col, Original!pivot_col
<1>8. PyToC!pivot_col = c
  BY <1>6, <1>7
<1> DEFINE P == {i \in Rows(L) \ {m} : L[i][c] # Zero}
           ratios == [i \in P |-> Ratio(L, i, c)]
           S == {k \in P : Less(ratios[k], <<Largest, 1>>) /\ ~Negative(ratios[k])}
           small == [i \in S |-> ratios[i]]
<1>10. DOMAIN small = S /\ DOMAIN ratios = P
  OBVIOUS
<1>9. PyToC!pivot_row = IF DOMAIN small = {} THEN None ELSE FirstLeast(small)
  BY ZenonT(40), <1>3, <1>5, <1>8, <1>10, PyToCTerms
  DEF PyToC!pivot_row, PyToC!RestrictValues, PyToC!Restrict
<1>11. Original!row = IF R = {} THEN None ELSE FirstLeast(f)
  BY RowOfAnySign DEF Original!row
<1>12. ASSUME c # None
       PROVE  /\ c \in 0..n /\ R \subseteq 1..m /\ f \in [R -> Fractions]
  BY <1>12, OriginalTurn
<1> HIDE DEF c
<1>13. ASSUME NEW i \in 0..m, i # m
       PROVE  Ratio(L, i, c) = Ratio(A_o, i + 1, c) /\ L[i][c] = A_o[i + 1][c]
  BY <1>2, <1>4, <1>13 DEF Ratio
<1>14. S = {i \in 0..m : i + 1 \in R}
  <2>1. ASSUME NEW i \in 0..m, i # m PROVE i \in S <=> i + 1 \in R
    <3>1. i + 1 \in 1..m /\ i \in Rows(L) \ {m}
      BY <1>4, <2>1
    <3>2. i \in S <=> /\ L[i][c] # Zero /\ Less(Ratio(L, i, c), <<Largest, 1>>)
                      /\ ~Negative(Ratio(L, i, c))
      <4> HIDE DEF L
      <4> QED
        BY <3>1
    <3>3. i + 1 \in R <=> /\ A_o[i + 1][c] # Zero /\ Less(Ratio(A_o, i + 1, c), <<Largest, 1>>)
                          /\ ~Negative(Ratio(A_o, i + 1, c))
      BY <1>4, <3>1 DEF AnySign
    <3> QED
      BY <1>13, <2>1, <3>2, <3>3
  <2>2. S \subseteq (0..m) \ {m}
    BY <1>4
  <2>3. m + 1 \notin R
    BY <1>4 DEF AnySign
  <2> HIDE DEF S, R
  <2> QED
    BY <2>1, <2>2, <2>3
<1>15. \A i \in S : small[i] = f[i + 1]
  <2>1. ASSUME NEW i \in S PROVE small[i] = f[i + 1]
    <3>1. i \in 0..m /\ i # m /\ i + 1 \in R /\ i \in P
      <4>1. i \in P
        OBVIOUS
      <4> HIDE DEF S
      <4>2. i \in 0..m /\ i + 1 \in R
        BY <1>14
      <4>3. i # m
        BY <4>1
      <4> QED
        BY <4>1, <4>2, <4>3
    <3>2. small[i] = Ratio(L, i, c)
      BY <3>1
    <3>3. f[i + 1] = Ratio(A_o, i + 1, c)
      BY <3>1
    <3> QED
      BY <1>13, <3>1, <3>2, <3>3
  <2> QED
    BY <2>1
<1> HIDE DEF small, S, R, f
<1>16. CASE c # None /\ R = {}
  <2>1. S = {}
    BY <1>14, <1>16
  <2> QED
    BY <1>8, <1>9, <1>10, <1>11, <1>16, <2>1 DEF c
<1>17. CASE c # None /\ R # {}
  <2>1. S # {} /\ FirstLeast(small) = FirstLeast(f) - 1
    <3>1. PICK k \in R : TRUE
      BY <1>17
    <3>2. k \in 1..m /\ k - 1 \in 0..m /\ (k - 1) + 1 = k
      BY <1>12, <1>17
    <3>3. S # {}
      BY <1>14, <3>1, <3>2
    <3> QED
      BY <1>10, <1>12, <1>14, <1>15, <1>17, <3>3, ShiftedFirstLeast, SMTT(30)
  <2>2. FirstLeast(f) \in R
    <3>1. R \subseteq 0..m
      BY <1>12, <1>17
    <3> QED
      BY <1>12, <1>17, <3>1, FirstLeastOf
  <2>3. FirstLeast(f) # None
    BY <1>12, <1>17, <2>2 DEF None
  <2> QED
    BY <1>8, <1>9, <1>10, <1>11, <1>17, <2>1, <2>3 DEF c
<1> QED
  BY <1>8, <1>16, <1>17 DEF c

\* The pivot is the same wherever the objective is.
LEMMA PivotedLast ==
  ASSUME NEW m \in Nat, NEW n \in Nat, NEW T, Shaped(T, m, n),
         NEW r \in 1..m, NEW c \in 0..n, T[r][c][1] # 0
  PROVE  Pivoted(ObjectiveLast(T), r - 1, c) = ObjectiveLast(Pivoted(T, r, c))
<1> DEFINE L == ObjectiveLast(T)
           U == Pivoted(T, r, c)
           V == Pivoted(L, r - 1, c)
           W == ObjectiveLast(U)
           p(j) == Over(T[r][j], T[r][c])
<1>1. /\ Shaped(L, m, n) /\ L[m] = T[0]
      /\ \A i \in 0..m : i # m => L[i] = T[i + 1]
  BY ObjectiveLastParts
<1>2. r \in 0..m /\ r - 1 \in 0..m /\ r - 1 # m /\ (r - 1) + 1 = r
  OBVIOUS
<1>3. L[r - 1] = T[r]
  BY <1>1, <1>2
<1>4. /\ Shaped(U, m, n)
      /\ \A i \in 0..m, j \in 0..n :
           U[i][j] = IF i = r THEN p(j) ELSE Minus(T[i][j], Times(T[i][c], p(j)))
  BY <1>2, PivotedEntries
<1> HIDE DEF L
<1>5. /\ Shaped(V, m, n)
      /\ \A i \in 0..m, j \in 0..n :
           V[i][j] = IF i = r - 1 THEN Over(L[r - 1][j], L[r - 1][c])
                     ELSE Minus(L[i][j], Times(L[i][c], Over(L[r - 1][j], L[r - 1][c])))
  <2>1. ASSUME NEW k \in 0..m, L[k][c][1] # 0
        PROVE  /\ Shaped(Pivoted(L, k, c), m, n)
               /\ \A i \in 0..m, j \in 0..n :
                    Pivoted(L, k, c)[i][j] =
                      IF i = k THEN Over(L[k][j], L[k][c])
                      ELSE Minus(L[i][j], Times(L[i][c], Over(L[k][j], L[k][c])))
    <3>1. Shaped(L, m, n)
      BY <1>1
    <3> QED
      BY <2>1, <3>1, PivotedEntries
  <2>2. r - 1 \in 0..m /\ L[r - 1][c][1] # 0
    BY <1>2, <1>3
  <2> QED
    BY Zenon, <2>1, <2>2
<1> HIDE DEF U, V
<1>6. /\ Shaped(W, m, n) /\ W[m] = U[0]
      /\ \A i \in 0..m : i # m => W[i] = U[i + 1]
  BY <1>4, ObjectiveLastParts
<1> HIDE DEF W
<1>7. ASSUME NEW i \in 0..m, NEW j \in 0..n PROVE V[i][j] = W[i][j]
  <2>1. V[i][j] = IF i = r - 1 THEN p(j) ELSE Minus(L[i][j], Times(L[i][c], p(j)))
    BY <1>3, <1>5
  <2>2. CASE i = m
    <3>1. i # r - 1 /\ 0 \in 0..m /\ 0 # r /\ L[i] = T[0] /\ W[i] = U[0]
      BY <1>1, <1>2, <1>6, <2>2
    <3> QED
      BY <1>4, <2>1, <3>1
  <2>3. CASE i # m
    <3>1. i + 1 \in 0..m /\ (i = r - 1 <=> i + 1 = r) /\ L[i] = T[i + 1] /\ W[i] = U[i + 1]
      BY <1>1, <1>6, <2>3
    <3> QED
      BY <1>4, <2>1, <3>1
  <2> QED
    BY <2>2, <2>3
<1>8. V = W
  BY <1>5, <1>6, <1>7, SameTableau
<1> QED
  BY <1>8 DEF L, U, V, W

\* The translation begins when the original does.
LEMMA TranslatedStart == SolversInit => PyToC!Init
BY DEF SolversInit, Original!Init, PyToC!Init

\* A step of the original solver is one of the translation, or none.
LEMMA TranslatedStep ==
  ASSUME NEW m \in Nat, NEW n \in Nat \ {0}, FileInv(m, n), OriginalInv(m, n),
         file' = file, Original!Next
  PROVE  [PyToC!Next]_(PyToC!vars)
<1>1. CASE Original!Load
  <2>1. file # <<>>
    BY ShapedNotEmpty DEF FileInv
  <2>2. A_o = <<>> /\ flag_soln_o' = flag_soln_o
    BY <1>1 DEF Original!Load, OriginalInv
  <2>3. CASE A_o' = file /\ pc_o' = "loop"
    <3>1. PyToC!Call
      BY <2>1, <2>2, <2>3 DEF PyToC!Call
    <3> QED
      BY <3>1 DEF PyToC!Next
  <2>4. CASE A_o' = A_o
    BY <2>2, <2>4 DEF PyToC!vars
  <2> QED
    BY <1>1, <2>3, <2>4 DEF Original!Load
<1>2. CASE Original!NoColumn
  <2>1. /\ pc_o = "loop" /\ Original!col = None /\ pc_o' = "left"
        /\ A_o' = A_o /\ flag_soln_o' = flag_soln_o /\ A_o # <<>>
    BY <1>2, OriginalTerms DEF Original!NoColumn, OriginalInv
  <2>2. PyToC!pivot_col = None
    BY <2>1, TranslatedTurn
  <2>3. PyToC!NoColumn
    BY <2>1, <2>2, PyToCTerms DEF PyToC!NoColumn
  <2> QED
    BY <2>3 DEF PyToC!Next
<1>3. CASE Original!NoRow
  <2>1. /\ pc_o = "loop" /\ Original!col # None /\ Original!row = None /\ pc_o' = "left"
        /\ A_o' = A_o /\ flag_soln_o' = FALSE /\ A_o # <<>>
    BY <1>3, OriginalTerms DEF Original!NoRow, OriginalInv
  <2>2. PyToC!pivot_col # None /\ PyToC!pivot_row = None
    BY <2>1, TranslatedTurn
  <2>3. PyToC!NoRow
    BY <2>1, <2>2, PyToCTerms DEF PyToC!NoRow
  <2> QED
    BY <2>3 DEF PyToC!Next
<1>4. CASE Original!Pivot
  <2>1. /\ pc_o = "loop" /\ Original!col # None /\ Original!row # None /\ pc_o' = pc_o
        /\ A_o' = Pivoted(A_o, Original!row, Original!col)
        /\ flag_soln_o' = flag_soln_o /\ A_o # <<>>
    BY <1>4, OriginalTerms DEF Original!Pivot, OriginalInv
  <2>2. /\ Shaped(A_o, m, n) /\ Original!col \in 0..n /\ Original!row \in 1..m
        /\ A_o[Original!row][Original!col][1] # 0
    BY <2>1, OriginalTurn
  <2>3. PyToC!pivot_col = Original!col /\ PyToC!pivot_row = Original!row - 1
    BY <2>1, TranslatedTurn
  <2>4. PyToC!pivot_row # None
    BY <2>2, <2>3 DEF None
  <2>5. ObjectiveLast(A_o') = Pivoted(ObjectiveLast(A_o), Original!row - 1, Original!col)
    BY <2>1, <2>2, PivotedLast
  <2>6. A_o' # <<>>
    <3>1. Original!row \in 0..m
      BY <2>2
    <3>2. Shaped(A_o', m, n)
      BY <2>1, <2>2, <3>1, PivotedEntries
    <3> QED
      BY <3>2, ShapedNotEmpty
  <2>7. PyToC!Pivot
    BY <2>1, <2>3, <2>4, <2>5, <2>6, PyToCTerms DEF PyToC!Pivot
  <2> QED
    BY <2>7 DEF PyToC!Next
<1>5. CASE Original!Store
  BY <1>5 DEF Original!Store, PyToC!vars
<1> QED
  BY <1>1, <1>2, <1>3, <1>4, <1>5 DEF Original!Next

\* For every file: each turn of simplex_original.c is one of simplex_py_to_c.c, on the
\* tableau with the objective moved from the last row to the first.
THEOREM OriginalImplementsPyToC == SolversSpec => ImplementsPyToC
<1>1. SomeInv /\ [SolversNext]_solvers_vars => [PyToC!Next]_(PyToC!vars)
  <2> SUFFICES ASSUME SomeInv, [SolversNext]_solvers_vars PROVE [PyToC!Next]_(PyToC!vars)
    OBVIOUS
  <2>1. PICK m \in Nat, n \in Nat \ {0} : SolversInv(m, n)
    BY DEF SomeInv
  <2>2. FileInv(m, n) /\ OriginalInv(m, n)
    BY <2>1 DEF SolversInv
  <2>3. CASE UNCHANGED original_vars
    BY <2>3 DEF original_vars, PyToC!vars
  <2>4. CASE Original!Next /\ UNCHANGED <<file, fixed_vars>>
    BY <2>2, <2>4, TranslatedStep
  <2> QED
    BY <2>3, <2>4 DEF SolversNext, solvers_vars
<1> QED
  BY <1>1, TranslatedStart, SolversInvariant, PTL DEF SolversSpec, ImplementsPyToC, PyToC!Spec

-----------------------------------------------------------------------------
(* The repaired solver makes the pivots of the early one.                   *)

\* As long as each column had a row, a column for which the search finds none has no
\* positive entry: it fails because nothing stops it, and not because its ratios are
\* all 9999999 or more.
RowWhereStopped ==
  pc = "loop" /\ flag_soln /\ col # None /\ row = None =>
    \A i \in Constraints(A) : ~Positive(A[i][col])

\* The instance's tableaux are those of this module.
LEMMA EarlyTerms ==
  /\ Early!None = None /\ Early!Zero = Zero
  /\ \A f : Early!FirstLeast(f) = FirstLeast(f)
  /\ \A x, y : /\ Early!Over(x, y) = Over(x, y)
               /\ Early!Minus(x, y) = Minus(x, y) /\ Early!Times(x, y) = Times(x, y)
               /\ Early!Less(x, y) = Less(x, y)
  /\ \A x : Early!Negative(x) = Negative(x) /\ Early!Positive(x) = Positive(x)
  /\ \A T : /\ Early!Rows(T) = Rows(T) /\ Early!Columns(T) = Columns(T)
            /\ Early!Constraints(T) = Constraints(T) /\ Early!RHS(T) = RHS(T)
  /\ \A T, i, c : /\ Early!Ratio(T, i, c) = Ratio(T, i, c)
                  /\ Early!Pivoted(T, i, c) = Pivoted(T, i, c)
<1>1. Early!None = None /\ Early!Zero = Zero
  BY DEF Early!None, None, Early!Zero, Zero
<1>2. ASSUME NEW f PROVE Early!FirstLeast(f) = FirstLeast(f)
  BY Zenon DEF Early!FirstLeast, FirstLeast, Early!Min, Min, Early!Less, Less
<1>3. ASSUME NEW n, NEW d PROVE Early!Fraction(n, d) = Fraction(n, d)
  BY Zenon DEF Early!Fraction, Fraction, Early!gcd, gcd, Early!Size, Size
<1>4. ASSUME NEW T
      PROVE  /\ Early!Rows(T) = Rows(T) /\ Early!Columns(T) = Columns(T)
             /\ Early!Constraints(T) = Constraints(T) /\ Early!RHS(T) = RHS(T)
  BY Zenon DEF Early!Rows, Rows, Early!Columns, Columns, Early!Constraints, Constraints,
               Early!RHS, RHS, Early!Max, Max
<1>5. ASSUME NEW x, NEW y
      PROVE  /\ Early!Over(x, y) = Over(x, y)
             /\ Early!Minus(x, y) = Minus(x, y) /\ Early!Times(x, y) = Times(x, y)
             /\ Early!Less(x, y) = Less(x, y)
             /\ Early!Negative(x) = Negative(x) /\ Early!Positive(x) = Positive(x)
  BY Zenon, <1>3 DEF Early!Over, Over, Early!Minus, Minus, Early!Times, Times,
                     Early!Less, Less, Early!Negative, Negative, Early!Positive, Positive
<1>6. ASSUME NEW T, NEW i, NEW c PROVE Early!Ratio(T, i, c) = Ratio(T, i, c)
  BY Zenon, <1>4, <1>5 DEF Early!Ratio, Ratio
<1>7. ASSUME NEW T, NEW i, NEW c PROVE Early!Pivoted(T, i, c) = Pivoted(T, i, c)
  BY <1>5 DEF Early!Pivoted, Pivoted
<1> QED
  BY <1>1, <1>2, <1>4, <1>5, <1>6, <1>7

\* The value of the objective that a file begins with has no sign.
LEMMA NegatedZero == Negated(Zero) = Zero
<1>1. Zero \in Fractions /\ ~Negative(Zero) /\ ~Positive(Zero)
  <2>1. 0 \in Int
    OBVIOUS
  <2> QED
    BY <2>1, WholeFraction DEF Zero, Negative, Positive
<1>2. Negated(Zero) \in Fractions /\ ~Negative(Negated(Zero)) /\ ~Positive(Negated(Zero))
  BY <1>1, NegatedValue
<1>3. Negated(Zero)[1] = 0
  BY <1>2, FractionFields DEF Negative, Positive
<1> QED
  BY <1>2, <1>3, FractionFields DEF Zero

\* Larger values do not matter to where a function is first least.
LEMMA LargerLeftOut ==
  ASSUME NEW P, NEW f, DOMAIN f = P,
         NEW S, S \subseteq P, S # {},
         \A i \in S, k \in P \ S : ~Less(f[k], f[i]) /\ Less(f[i], f[k]),
         NEW g, g = [i \in S |-> f[i]]
  PROVE  FirstLeast(g) = FirstLeast(f)
<1> DEFINE U == {i \in P : \A k \in P : ~Less(f[k], f[i])}
           V == {i \in S : \A k \in S : ~Less(g[k], g[i])}
<1>1. FirstLeast(f) = Min(U) /\ FirstLeast(g) = Min(V)
  BY DEF FirstLeast
<1>0. \A i \in S : i \in P /\ g[i] = f[i]
  OBVIOUS
<1>2. ASSUME NEW i \in U PROVE i \in V
  <2>1. i \in P /\ \A k \in P : ~Less(f[k], f[i])
    OBVIOUS
  <2>2. i \in S
    <3>1. PICK s \in S : TRUE
      OBVIOUS
    <3>2. s \in P /\ ~Less(f[s], f[i])
      BY <2>1
    <3> QED
      BY <2>1, <3>2
  <2>3. \A k \in S : ~Less(g[k], g[i])
    BY <1>0, <2>1, <2>2
  <2> QED
    BY Zenon, <2>2, <2>3
<1>3. ASSUME NEW i \in V PROVE i \in U
  <2>1. i \in S /\ \A k \in S : ~Less(g[k], g[i])
    OBVIOUS
  <2>2. \A k \in P : ~Less(f[k], f[i])
    BY <1>0, <2>1
  <2>3. i \in P
    BY <1>0, <2>1
  <2> QED
    BY Zenon, <2>2, <2>3
<1>4. U = V
  BY Zenon, <1>2, <1>3
<1> QED
  BY <1>1, <1>4

\* The tableau and the objective of the early solver.
EarlyTableau(T) == [i \in Constraints(T) |-> T[i]]
EarlyObjective(T) == [j \in Columns(T) |-> Negated(T[0][j])]

\* What the repaired solver does not count as infinite, the early one does not either.
LEMMA BelowInfinity ==
  ASSUME NEW x \in Fractions, Less(x, <<Largest, 1>>)
  PROVE  Less(x, <<Infinity, 1>>)
<1>1. <<Infinity, 1>> \in Fractions /\ <<Largest, 1>> \in Fractions
  BY InfinityAssumption, WholeFraction, LargestFraction
<1>2. ~Less(<<Infinity, 1>>, <<Largest, 1>>)
  BY InfinityAssumption, LargestAssumption DEF Less
<1> QED
  BY <1>1, <1>2, LessTotal, LessTransitive

\* The state of the early solver, and its column and row.
LEMMA EarlyTurn ==
  ASSUME NEW m \in Nat, NEW n \in Nat \ {0}, FeasibleInv(m, n), CycleInv(m, n),
         pc = "loop", flag_soln, RowWhereStopped
  PROVE  /\ Early!Improving = {} <=> col = None
         /\ col # None => /\ Early!column_index = col
                          /\ DOMAIN Early!restrictions = {} <=> row = None
                          /\ row # None => Early!FirstLeast(Early!restrictions) = row
<1> DEFINE z == EarlyObjective(A)
           B == EarlyTableau(A)
           D == {j \in 0..n : Negative(A[0][j])}
<1>1. /\ Shaped(A, m, n) /\ A # <<>> /\ ~Negative(A[0][n])
      /\ prev_fail_pivot_col_idx = None
  BY DEF FeasibleInv, CycleInv
<1>2. /\ Rows(A) = 0..m /\ Constraints(A) = 1..m /\ Columns(A) = 0..n /\ RHS(A) = n
      /\ \A i \in 0..m, j \in 0..n : A[i][j] \in Fractions
  BY <1>1, TableauParts
<1>3. /\ (IF A = <<>> THEN <<>> ELSE [i \in Constraints(A) |-> A[i]]) = B
      /\ (IF A = <<>> THEN <<>> ELSE [j \in Columns(A) |-> Negated(A[0][j])]) = z
  BY <1>1 DEF EarlyTableau, EarlyObjective
<1>4. /\ DOMAIN z = 0..n /\ \A j \in 0..n : z[j] = Negated(A[0][j])
      /\ DOMAIN B = 1..m /\ \A i \in 1..m : B[i] = A[i]
  BY <1>2 DEF EarlyTableau, EarlyObjective
<1> HIDE DEF z, B
<1>5. Early!Last = n
  <2>1. Early!Max(0..n) = n
    BY MaxOf DEF Early!Max, Max
  <2> QED
    BY <1>3, <1>4, <2>1 DEF Early!Last
<1>6. \A j \in 0..n : Positive(z[j]) <=> Negative(A[0][j])
  <2>1. \A j \in 0..n : A[0][j] \in Fractions
    BY <1>2
  <2> QED
    BY <1>4, <2>1, NegatedValue
<1>7. Early!Improving = D
  <2>1. Early!Improving = {j \in (0..n) \ {n} : Positive(z[j])}
    BY Zenon, <1>3, <1>4, <1>5, EarlyTerms DEF Early!Improving
  <2> QED
    BY <1>1, <1>6, <2>1
<1>8. col = IF D = {} THEN None ELSE Min(D)
  <2>1. {j \in Columns(A) : Negative(A[0][j]) /\ j > None} = D
    BY <1>2 DEF None
  <2> QED
    BY Zenon, <1>1, <2>1 DEF col, pivot_col
<1>9. D # {} => Min(D) \in D
  <2>1. D \subseteq Nat
    OBVIOUS
  <2> HIDE DEF D
  <2> QED
    BY <2>1, MinOf
<1>10. Early!column_index = Min(D)
  BY Zenon, <1>7 DEF Early!column_index, Early!Min, Min
<1> DEFINE c == col
           P == {i \in 1..m : Positive(A[i][c]) /\ Less(Ratio(A, i, c), <<Infinity, 1>>)}
           f == [i \in P |-> Ratio(A, i, c)]
           S == Small(A, c)
<1>11. None \notin D
  BY DEF None
<1>12. Early!Improving = {} <=> c = None
  <2> HIDE DEF D
  <2> QED
    BY <1>7, <1>8, <1>9, <1>11
<1>13. c # None => Early!column_index = c
  BY <1>8, <1>10
<1>14. c # None => c \in 0..n
  <2>1. D \subseteq 0..n
    OBVIOUS
  <2> HIDE DEF D
  <2> QED
    BY <1>8, <1>9, <2>1
<1>15. row = IF S = {} THEN None ELSE FirstLeast([i \in S |-> Ratio(A, i, c)])
  BY RowOfSmall DEF row
<1>16. row = None => c = None \/ P = {}
  BY <1>2 DEF RowWhereStopped
<1> HIDE DEF c
<1>17. ASSUME c # None PROVE Early!restrictions = f
  <2>1. ASSUME NEW i \in 1..m PROVE Over(B[i][n], B[i][c]) = Ratio(A, i, c)
    BY <1>2, <1>4 DEF Ratio
  <2> DEFINE over(i) == Over(B[i][n], B[i][c])
             R == {i \in DOMAIN B : Positive(B[i][c]) /\ Less(over(i), <<Infinity, 1>>)}
  <2>2. R = P
    BY <1>4, <2>1
  <2>3. ASSUME NEW i PROVE Early!restriction(i) = over(i)
    BY Zenon, <1>3, <1>5, <1>13, <1>17, EarlyTerms DEF Early!restriction
  <2>4. Early!Restricting = R
    BY Zenon, <1>3, <1>13, <1>17, <2>3, EarlyTerms DEF Early!Restricting
  <2>5. Early!restrictions = [i \in R |-> over(i)]
    BY Zenon, <2>3, <2>4 DEF Early!restrictions
  <2>6. \A i \in P : i \in 1..m
    OBVIOUS
  <2> HIDE DEF P, R
  <2> QED
    BY <2>1, <2>2, <2>5, <2>6
<1>18. DOMAIN f = P
  OBVIOUS
<1>19. ASSUME c # None, NEW i \in P PROVE Ratio(A, i, c) \in Fractions
  <2>1. i \in 1..m /\ A[i][c][1] # 0
    BY DEF Positive
  <2> QED
    BY <1>1, <1>14, <1>19, <2>1, RatioValue
<1>20. ASSUME c # None
       PROVE  S \subseteq P /\ \A i \in P : i \in S <=> Less(Ratio(A, i, c), <<Largest, 1>>)
  <2>1. ASSUME NEW i \in S PROVE i \in P
    <3>1. i \in 1..m /\ Positive(A[i][c]) /\ Less(Ratio(A, i, c), <<Largest, 1>>)
      BY <1>2 DEF Small
    <3>2. A[i][c][1] # 0
      BY <3>1 DEF Positive
    <3>3. Ratio(A, i, c) \in Fractions
      BY <1>1, <1>14, <1>20, <3>1, <3>2, RatioValue
    <3>4. Less(Ratio(A, i, c), <<Infinity, 1>>)
      BY <3>1, <3>3, BelowInfinity
    <3> QED
      BY <3>1, <3>4
  <2>2. \A i \in P : i \in S <=> Less(Ratio(A, i, c), <<Largest, 1>>)
    BY <1>2 DEF Small
  <2> QED
    BY <2>1, <2>2
<1>21. CASE c # None /\ S = {}
  <2>1. row = None /\ P = {}
    BY <1>15, <1>16, <1>21
  <2> QED
    BY <1>12, <1>13, <1>17, <1>18, <1>21, <2>1 DEF c
<1>22. CASE c # None /\ S # {}
  <2> DEFINE g == [i \in S |-> Ratio(A, i, c)]
  <2>1. ASSUME NEW i \in S, NEW k \in P \ S
        PROVE  ~Less(Ratio(A, k, c), Ratio(A, i, c)) /\ Less(Ratio(A, i, c), Ratio(A, k, c))
    <3> DEFINE x == Ratio(A, i, c)
               y == Ratio(A, k, c)
               l == <<Largest, 1>>
    <3>1. i \in P /\ k \in P /\ k \notin S
      BY <1>20, <1>22
    <3>2. x \in Fractions /\ y \in Fractions /\ l \in Fractions
      BY <1>19, <1>22, <3>1, LargestFraction
    <3>3. Less(x, l) /\ ~Less(y, l)
      BY <1>20, <1>22, <3>1
    <3> HIDE DEF x, y, l
    <3>4. Less(x, y)
      BY <3>2, <3>3, LessTransitive
    <3>5. ~Less(y, x)
      BY <3>2, <3>4, LessTotal
    <3> QED
      BY <3>4, <3>5 DEF x, y
  <2>2. P \subseteq 0..m /\ f \in [P -> Fractions] /\ \A i \in P : f[i] = Ratio(A, i, c)
    BY <1>19, <1>22
  <2>3. g = [i \in S |-> f[i]]
    <3>1. \A i \in S : f[i] = Ratio(A, i, c)
      BY <1>20, <1>22
    <3> HIDE DEF S, f
    <3> QED
      BY <3>1
  <2>4. P # {}
    BY <1>20, <1>22
  <2>10. S \subseteq P /\ \A i \in P : f[i] = Ratio(A, i, c)
    BY <1>20, <1>22, <2>2
  <2> HIDE DEF P, S, f, g
  <2>5. \A i \in S, k \in P \ S : ~Less(f[k], f[i]) /\ Less(f[i], f[k])
    BY <2>1, <2>10
  <2>6. FirstLeast(g) = FirstLeast(f)
    <3>1. DOMAIN f = P /\ S \subseteq P /\ S # {}
      BY <1>20, <1>22, <2>2
    <3> QED
      BY <2>3, <2>5, <3>1, LargerLeftOut
  <2>7. row = FirstLeast(g)
    BY <1>15, <1>22 DEF g
  <2>8. FirstLeast(f) \in P
    BY <2>2, <2>4, FirstLeastOf
  <2>9. row # None
    BY <2>2, <2>6, <2>7, <2>8 DEF None
  <2> QED
    BY <1>12, <1>13, <1>17, <1>18, <1>22, <2>4, <2>6, <2>7, <2>9, EarlyTerms DEF c
<1> QED
  BY <1>12, <1>21, <1>22 DEF c

\* A pivot on the tableau and the objective apart is one on both.
LEMMA PivotedApart ==
  ASSUME NEW m \in Nat, NEW n \in Nat, NEW T, Shaped(T, m, n),
         NEW r \in 1..m, NEW c \in 0..n, T[r][c][1] # 0
  PROVE  LET p == [j \in 0..n |-> Over(T[r][j], T[r][c])]
         IN  /\ EarlyTableau(Pivoted(T, r, c)) =
                  [i \in 1..m |-> IF i = r THEN p
                                 ELSE [j \in 0..n |-> Minus(T[i][j], Times(T[i][c], p[j]))]]
             /\ EarlyObjective(Pivoted(T, r, c)) =
                  [j \in 0..n |-> Minus(Negated(T[0][j]), Times(Negated(T[0][c]), p[j]))]
<1> DEFINE U == Pivoted(T, r, c)
<1>0. PICK p : p = [j \in 0..n |-> Over(T[r][j], T[r][c])]
  OBVIOUS
<1>1. r \in 0..m /\ 0 \in 0..m /\ 0 # r
  OBVIOUS
<1>2. /\ Shaped(U, m, n)
      /\ \A j \in 0..n : p[j] = Over(T[r][j], T[r][c]) /\ p[j] \in Fractions
      /\ \A i \in 0..m, j \in 0..n :
           U[i][j] = IF i = r THEN Over(T[r][j], T[r][c])
                     ELSE Minus(T[i][j], Times(T[i][c], Over(T[r][j], T[r][c])))
  BY <1>0, <1>1, PivotedEntries
<1> HIDE DEF U
<1>3. \A i \in 0..m, j \in 0..n :
        U[i][j] = IF i = r THEN p[j] ELSE Minus(T[i][j], Times(T[i][c], p[j]))
  BY <1>2
<1>4. /\ Constraints(U) = 1..m /\ Columns(U) = 0..n
      /\ \A i \in 0..m, j \in 0..n : T[i][j] \in Fractions
  <2>1. Constraints(U) = 1..m /\ Columns(U) = 0..n
    BY <1>2, TableauParts
  <2>2. \A i \in 0..m, j \in 0..n : T[i][j] \in Fractions
    BY TableauParts
  <2> QED
    BY <2>1, <2>2
<1>5. \A i \in 0..m : U[i] \in [0..n -> Fractions]
  BY <1>2 DEF Shaped
<1>6. EarlyTableau(U) =
        [i \in 1..m |-> IF i = r THEN p
                       ELSE [j \in 0..n |-> Minus(T[i][j], Times(T[i][c], p[j]))]]
  <2>1. ASSUME NEW i \in 1..m
        PROVE  U[i] = IF i = r THEN p
                      ELSE [j \in 0..n |-> Minus(T[i][j], Times(T[i][c], p[j]))]
    <3>1. i \in 0..m /\ U[i] \in [0..n -> Fractions]
      BY <1>5
    <3>2. U[i] = [j \in 0..n |-> U[i][j]]
      BY <3>1
    <3>3. p = [j \in 0..n |-> p[j]]
      BY <1>0
    <3>4. CASE i = r
      <4>1. \A j \in 0..n : U[i][j] = p[j]
        BY <1>3, <3>1, <3>4
      <4> QED
        BY <3>2, <3>3, <3>4, <4>1
    <3>5. CASE i # r
      <4>1. \A j \in 0..n : U[i][j] = Minus(T[i][j], Times(T[i][c], p[j]))
        BY <1>3, <3>1, <3>5
      <4> QED
        BY <3>2, <3>5, <4>1
    <3> QED
      BY <3>4, <3>5
  <2> QED
    BY <1>4, <2>1 DEF EarlyTableau
<1>7. ASSUME NEW j \in 0..n
      PROVE  Negated(U[0][j]) = Minus(Negated(T[0][j]), Times(Negated(T[0][c]), p[j]))
  <2>1. U[0][j] = Minus(T[0][j], Times(T[0][c], p[j]))
    BY <1>1, <1>3
  <2>2. T[0][j] \in Fractions /\ T[0][c] \in Fractions /\ p[j] \in Fractions
    BY <1>1, <1>2, <1>4
  <2>3. /\ Times(T[0][c], p[j]) \in Fractions
        /\ Times(Negated(T[0][c]), p[j]) = Negated(Times(T[0][c], p[j]))
    BY <2>2, TimesValue
  <2> QED
    BY <2>1, <2>2, <2>3, MinusValue
<1>8. EarlyObjective(U) =
        [j \in 0..n |-> Minus(Negated(T[0][j]), Times(Negated(T[0][c]), p[j]))]
  BY <1>4, <1>7 DEF EarlyObjective
<1> QED
  BY <1>0, <1>6, <1>8 DEF U
\* The early solver begins when the repaired one does.
LEMMA EarlyStart == SolversInit => Early!Init
BY DEF SolversInit, FixedInit, Early!Init

\* Reading the file is constructing the tableau and the objective apart.
LEMMA EarlyConstructed ==
  ASSUME NEW m \in Nat, NEW n \in Nat \ {0}, FileInv(m, n), FeasibleInv(m, n),
         CycleInv(m, n), Load, file' = file, A' = file, pc' = "loop"
  PROVE  Early!Construct
<1> DEFINE c == [j \in Columns(file) \ {RHS(file)} |-> Negated(file[0][j])]
           b == [i \in Constraints(file) |-> file[i][RHS(file)]]
           a == [i \in Constraints(file) |-> [j \in Columns(file) \ {RHS(file)} |-> file[i][j]]]
<1>1. /\ pc = "start" /\ A = <<>> /\ flag_soln /\ flag_soln' = flag_soln /\ A' # <<>>
      /\ Shaped(file, m, n) /\ file[0][n] = Zero
  BY ShapedNotEmpty DEF Load, FeasibleInv, CycleInv, FileInv
<1>2. /\ Constraints(file) = 1..m /\ Columns(file) = 0..n /\ RHS(file) = n
      /\ \A i \in 0..m : DOMAIN file[i] = 0..n
  BY <1>1, TableauParts
<1>3. DOMAIN c = 0..n-1
  BY <1>2
<1>4. /\ \A j \in 0..n-1 : c[j] = Negated(file[0][j])
      /\ DOMAIN a = 1..m
      /\ \A i \in 1..m : b[i] = file[i][n] /\ \A j \in 0..n-1 : a[i][j] = file[i][j]
  BY <1>2
<1> HIDE DEF a, b, c
<1>5. Early!Max(DOMAIN c) + 1 = n
  <2>1. Max(0..n-1) = n - 1
    BY MaxOf
  <2>2. Early!Max(0..n-1) = Max(0..n-1)
    BY DEF Early!Max, Max
  <2> QED
    BY <1>3, <2>1, <2>2
<1>6. EarlyObjective(file) = [j \in 0..n |-> IF j = n THEN Zero ELSE c[j]]
  <2>1. Negated(file[0][n]) = Zero
    BY <1>1, NegatedZero
  <2>2. \A j \in 0..n : Negated(file[0][j]) = IF j = n THEN Zero ELSE c[j]
    BY <1>4, <2>1
  <2> QED
    BY <1>2, <2>2 DEF EarlyObjective
<1>7. EarlyTableau(file) = [i \in 1..m |-> [j \in 0..n |-> IF j = n THEN b[i] ELSE a[i][j]]]
  <2>1. ASSUME NEW i \in 1..m
        PROVE  file[i] = [j \in 0..n |-> IF j = n THEN b[i] ELSE a[i][j]]
    <3>1. file[i] = [j \in 0..n |-> file[i][j]]
      BY <1>1 DEF Shaped
    <3>2. \A j \in 0..n : file[i][j] = IF j = n THEN b[i] ELSE a[i][j]
      BY <1>4
    <3> QED
      BY <3>1, <3>2
  <2> QED
    BY <1>2, <2>1 DEF EarlyTableau
<1>8. /\ (IF A' = <<>> THEN <<>> ELSE [i \in Constraints(A') |-> A'[i]]) = EarlyTableau(file)
      /\ (IF A' = <<>> THEN <<>> ELSE [j \in Columns(A') |-> Negated(A'[0][j])])
          = EarlyObjective(file)
  BY <1>1 DEF EarlyTableau, EarlyObjective
<1>9. Early!Zero = Zero
  BY EarlyTerms
<1>10. /\ (IF A = <<>> THEN "start" ELSE IF ~flag_soln THEN "undefined"
            ELSE IF pc = "loop" THEN "loop" ELSE "optimal") = "start"
       /\ (IF A' = <<>> THEN "start" ELSE IF ~flag_soln' THEN "undefined"
            ELSE IF pc' = "loop" THEN "loop" ELSE "optimal") = "loop"
  BY <1>1
<1> DEFINE k == Early!Max(DOMAIN c) + 1
<1>11. (IF A' = <<>> THEN <<>> ELSE [j \in Columns(A') |-> Negated(A'[0][j])])
         = [j \in 0..k |-> IF j = k THEN Early!Zero ELSE c[j]]
  BY <1>5, <1>6, <1>8, <1>9
<1>12. (IF A' = <<>> THEN <<>> ELSE [i \in Constraints(A') |-> A'[i]])
         = [i \in DOMAIN a |-> [j \in 0..k |-> IF j = k THEN b[i] ELSE a[i][j]]]
  BY <1>4, <1>5, <1>7, <1>8
<1> QED
  BY Zenon, <1>10, <1>11, <1>12 DEF Early!Construct, a, b, c

\* A pivot is one of the early solver, as long as no column has failed.
LEMMA EarlyPivots ==
  ASSUME NEW m \in Nat, NEW n \in Nat \ {0}, FeasibleInv(m, n), CycleInv(m, n),
         flag_soln, RowWhereStopped, Pivot
  PROVE  Early!Pivot
<1> DEFINE z == EarlyObjective(A)
           B == EarlyTableau(A)
           c == col
           r == row
<1>1. /\ pc = "loop" /\ pc' = "loop" /\ col # None /\ row # None /\ A # <<>>
      /\ A' = Pivoted(A, r, c) /\ flag_soln' = flag_soln
  BY DEF Pivot, FeasibleInv
<1>2. /\ Shaped(A, m, n) /\ c \in 0..n /\ r \in 1..m /\ A[r][c][1] # 0
      /\ Constraints(A) = 1..m /\ Columns(A) = 0..n
  BY <1>1, ChosenTurn DEF Positive
<1>3. /\ Early!Improving # {} /\ Early!column_index = c
      /\ DOMAIN Early!restrictions # {} /\ Early!FirstLeast(Early!restrictions) = r
  BY <1>1, EarlyTurn
<1> HIDE DEF col, row
<1>0. PICK p : /\ p = [j \in 0..n |-> Over(A[r][j], A[r][c])]
               /\ EarlyTableau(Pivoted(A, r, c)) =
                    [i \in 1..m |-> IF i = r THEN p
                                   ELSE [j \in 0..n |-> Minus(A[i][j], Times(A[i][c], p[j]))]]
               /\ EarlyObjective(Pivoted(A, r, c)) =
                    [j \in 0..n |-> Minus(Negated(A[0][j]), Times(Negated(A[0][c]), p[j]))]
  <2>1. n \in Nat
    OBVIOUS
  <2>2. LET p == [j \in 0..n |-> Over(A[r][j], A[r][c])]
        IN  /\ EarlyTableau(Pivoted(A, r, c)) =
                 [i \in 1..m |-> IF i = r THEN p
                                ELSE [j \in 0..n |-> Minus(A[i][j], Times(A[i][c], p[j]))]]
            /\ EarlyObjective(Pivoted(A, r, c)) =
                 [j \in 0..n |-> Minus(Negated(A[0][j]), Times(Negated(A[0][c]), p[j]))]
    <3>1. Shaped(A, m, n) /\ c \in 0..n /\ r \in 1..m /\ A[r][c][1] # 0
      BY <1>2
    <3> QED
      BY <2>1, <3>1, PivotedApart, SMTT(30)
  <2> QED
    BY Zenon, <2>2
<1>4. /\ EarlyTableau(A') =
           [i \in 1..m |-> IF i = r THEN p
                          ELSE [j \in 0..n |-> Minus(A[i][j], Times(A[i][c], p[j]))]]
      /\ EarlyObjective(A') =
           [j \in 0..n |-> Minus(Negated(A[0][j]), Times(Negated(A[0][c]), p[j]))]
  BY <1>0, <1>1
<1>5. /\ DOMAIN z = 0..n /\ \A j \in 0..n : z[j] = Negated(A[0][j])
      /\ DOMAIN B = 1..m /\ \A i \in 1..m : B[i] = A[i]
      /\ \A i \in 1..m : DOMAIN A[i] = 0..n
  <2>1. \A i \in 1..m : i \in 0..m
    OBVIOUS
  <2> QED
    BY <1>2, <2>1, TableauParts DEF EarlyTableau, EarlyObjective
<1>6. A' # <<>>
  <2>1. r \in 0..m
    BY <1>2
  <2>2. Shaped(A', m, n)
    BY <1>1, <1>2, <2>1, PivotedEntries
  <2> QED
    BY <2>2, ShapedNotEmpty
<1>7. /\ (IF A = <<>> THEN <<>> ELSE [i \in Constraints(A) |-> A[i]]) = B
      /\ (IF A = <<>> THEN <<>> ELSE [j \in Columns(A) |-> Negated(A[0][j])]) = z
      /\ (IF A' = <<>> THEN <<>> ELSE [i \in Constraints(A') |-> A'[i]]) = EarlyTableau(A')
      /\ (IF A' = <<>> THEN <<>> ELSE [j \in Columns(A') |-> Negated(A'[0][j])])
          = EarlyObjective(A')
  BY <1>1, <1>6 DEF EarlyTableau, EarlyObjective
<1>8. /\ (IF A = <<>> THEN "start" ELSE IF ~flag_soln THEN "undefined"
           ELSE IF pc = "loop" THEN "loop" ELSE "optimal") = "loop"
      /\ (IF A' = <<>> THEN "start" ELSE IF ~flag_soln' THEN "undefined"
           ELSE IF pc' = "loop" THEN "loop" ELSE "optimal") = "loop"
  BY <1>1, <1>6
<1> DEFINE Cleared(w) == [j \in DOMAIN w |-> Minus(w[j], Times(w[c], p[j]))]
<1>9. [j \in DOMAIN z |-> Over(B[r][j], B[r][c])] = p
  <2> HIDE DEF z, B
  <2> QED
    BY <1>0, <1>2, <1>5
<1>10. /\ DOMAIN p = 0..n
       /\ EarlyTableau(A') = [i \in DOMAIN B |-> IF i = r THEN p ELSE Cleared(B[i])]
       /\ EarlyObjective(A') = Cleared(z)
  <2> HIDE DEF z, B
  <2>1. ASSUME NEW i \in 1..m
        PROVE  Cleared(B[i]) = [j \in 0..n |-> Minus(A[i][j], Times(A[i][c], p[j]))]
    BY <1>5
  <2>2. Cleared(z) = [j \in 0..n |-> Minus(Negated(A[0][j]), Times(Negated(A[0][c]), p[j]))]
    BY <1>2, <1>5
  <2>3. DOMAIN p = 0..n
    BY <1>0
  <2> HIDE DEF Cleared
  <2> QED
    BY <1>4, <1>5, <2>1, <2>2, <2>3
<1>11. \A w : Early!Cleared(w, p) = Cleared(w)
  <2> SUFFICES ASSUME NEW w PROVE Early!Cleared(w, p) = Cleared(w)
    OBVIOUS
  <2> QED
    BY <1>3, EarlyTerms DEF Early!Cleared
<1> HIDE DEF z, B, Cleared
<1> DEFINE V == IF A = <<>> THEN <<>> ELSE [j \in Columns(A) |-> Negated(A[0][j])]
           W == IF A = <<>> THEN <<>> ELSE [i \in Constraints(A) |-> A[i]]
           row_index == Early!FirstLeast(Early!restrictions)
           column_index == Early!column_index
           pivot == [j \in DOMAIN V |->
                       Early!Over(W[row_index][j], W[row_index][column_index])]
<1>12. /\ V = z /\ W = B /\ V' = EarlyObjective(A') /\ W' = EarlyTableau(A')
       /\ row_index = r /\ column_index = c
  BY <1>3, <1>7
<1> HIDE DEF V, W, row_index, column_index
<1>13. pivot = p
  BY <1>9, <1>12, EarlyTerms
<1> HIDE DEF pivot
<1>14. /\ W' = [i \in DOMAIN W |-> IF i = row_index THEN pivot ELSE Early!Cleared(W[i], pivot)]
       /\ V' = Early!Cleared(V, pivot)
  BY <1>10, <1>11, <1>12, <1>13
<1> QED
  BY Zenon, <1>3, <1>8, <1>14 DEF Early!Pivot, V, W, row_index, column_index, pivot

\* A step of the repaired solver is one of the early solver, or none.
LEMMA EarlyStep ==
  ASSUME NEW m \in Nat, NEW n \in Nat \ {0}, FileInv(m, n), FeasibleInv(m, n),
         CycleInv(m, n), RowWhereStopped, file' = file, FixedNext
  PROVE  [Early!Next]_(Early!vars)
<1>1. CASE Load
  <2>1. pc = "start" /\ A = <<>>
    BY <1>1 DEF Load, FeasibleInv
  <2>2. CASE A' = file /\ pc' = "loop"
    BY <1>1, <2>2, EarlyConstructed DEF Early!Next
  <2>3. CASE A' = A
    BY <2>1, <2>3 DEF Early!vars
  <2> QED
    BY <1>1, <2>2, <2>3 DEF Load
<1>2. CASE NoColumn
  <2>1. /\ pc = "loop" /\ pc' = "no column" /\ col = None /\ A' = A
        /\ flag_soln' = flag_soln /\ A # <<>>
    BY <1>2 DEF NoColumn, FeasibleInv
  <2>2. CASE flag_soln
    <3>1. Early!Improving = {}
      BY <2>1, <2>2, EarlyTurn
    <3>2. Early!Optimal
      BY <2>1, <2>2, <3>1 DEF Early!Optimal
    <3> QED
      BY <3>2 DEF Early!Next
  <2>3. CASE ~flag_soln
    BY <2>1, <2>3 DEF Early!vars
  <2> QED
    BY <2>2, <2>3
<1>3. CASE CycleDetected
  <2>1. /\ pc = "loop" /\ pc' = "cycle" /\ col # None /\ SameAsTwoAgo /\ A' = A
        /\ flag_soln' = flag_soln /\ A # <<>>
    BY <1>3 DEF CycleDetected, FeasibleInv
  <2>2. ~flag_soln
    BY <2>1, NoCycle
  <2> QED
    BY <2>1, <2>2 DEF Early!vars
<1>4. CASE NoRow
  <2>1. /\ pc = "loop" /\ pc' = "loop" /\ col # None /\ row = None /\ A' = A
        /\ flag_soln' = FALSE /\ A # <<>>
    BY <1>4 DEF NoRow, FeasibleInv
  <2>2. CASE flag_soln
    <3>1. Early!Improving # {} /\ DOMAIN Early!restrictions = {}
      BY <2>1, <2>2, EarlyTurn
    <3>2. Early!NoRow
      BY <2>1, <2>2, <3>1 DEF Early!NoRow
    <3> QED
      BY <3>2 DEF Early!Next
  <2>3. CASE ~flag_soln
    BY <2>1, <2>3 DEF Early!vars
  <2> QED
    BY <2>2, <2>3
<1>5. CASE Pivot
  <2>1. CASE flag_soln
    BY <1>5, <2>1, EarlyPivots DEF Early!Next
  <2>2. CASE ~flag_soln
    <3>1. flag_soln' = flag_soln /\ A # <<>>
      BY <1>5 DEF Pivot, FeasibleInv
    <3>2. FeasibleInv(m, n)' /\ Shaped(A', m, n)
      BY <1>5, PivotKeeps
    <3>3. A' # <<>>
      BY <3>2, ShapedNotEmpty
    <3> QED
      BY <2>2, <3>1, <3>3 DEF Early!Next
  <2> QED
    BY <2>1, <2>2
<1>6. CASE Store
  <2>1. /\ pc \in {"no column", "cycle"} /\ pc' \in {"stored", "failed"} /\ A' = A
        /\ flag_soln' = flag_soln /\ A # <<>>
    BY <1>6 DEF Store, FeasibleInv
  <2> QED
    BY <2>1 DEF Early!vars
<1> QED
  BY <1>1, <1>2, <1>3, <1>4, <1>5, <1>6 DEF FixedNext

\* For every file: as long as each column has its row, the turns of simplex() in
\* simplex_fixed_no_osc.c are those of simplex_early_version.c, pivot by pivot, and what
\* is taken for a cycle never comes up.  The hypothesis says that none has failed for a
\* ratio that the repaired solver does not see: there the early one would have pivoted.
THEOREM FixedImplementsEarly == SolversSpec /\ []RowWhereStopped => ImplementsEarly
<1>1. SomeInv /\ RowWhereStopped /\ [SolversNext]_solvers_vars => [Early!Next]_(Early!vars)
  <2> SUFFICES ASSUME SomeInv, RowWhereStopped, [SolversNext]_solvers_vars
               PROVE  [Early!Next]_(Early!vars)
    OBVIOUS
  <2>1. PICK m \in Nat, n \in Nat \ {0} : SolversInv(m, n)
    BY DEF SomeInv
  <2>2. FileInv(m, n) /\ FeasibleInv(m, n) /\ CycleInv(m, n)
    BY <2>1 DEF SolversInv
  <2>3. CASE UNCHANGED fixed_vars
    BY <2>3 DEF fixed_vars, Early!vars
  <2>4. CASE FixedNext /\ file' = file
    BY <2>2, <2>4, EarlyStep
  <2> QED
    BY <2>3, <2>4 DEF SolversNext, solvers_vars
<1> QED
  BY <1>1, EarlyStart, SolversInvariant, PTL DEF SolversSpec, ImplementsEarly, Early!Spec

-----------------------------------------------------------------------------
(* The laws of arithmetic, for fractions in lowest terms.                   *)

\* The operations on fractions that are not in lowest terms.
LEMMA FractionsJoined ==
  ASSUME NEW a \in Int, NEW b \in Nat \ {0}, NEW c \in Int, NEW d \in Nat \ {0}
  PROVE  /\ Plus(Fraction(a, b), Fraction(c, d)) = Fraction(a * d + c * b, b * d)
         /\ Minus(Fraction(a, b), Fraction(c, d)) = Fraction(a * d - c * b, b * d)
         /\ Times(Fraction(a, b), Fraction(c, d)) = Fraction(a * c, b * d)
<1> DEFINE x == Fraction(a, b)
           y == Fraction(c, d)
<1>1. /\ x[1] \in Int /\ x[2] \in Nat \ {0} /\ x[1] * b = a * x[2]
      /\ y[1] \in Int /\ y[2] \in Nat \ {0} /\ y[1] * d = c * y[2]
  BY FractionValue, FractionFields
<1>2. /\ Plus(x, y) = Fraction(x[1] * y[2] + y[1] * x[2], x[2] * y[2])
      /\ Minus(x, y) = Fraction(x[1] * y[2] - y[1] * x[2], x[2] * y[2])
      /\ Times(x, y) = Fraction(x[1] * y[1], x[2] * y[2])
  BY Zenon DEF Plus, Minus, Times
<1> HIDE DEF x, y
<1>3. PICK p \in Int, q \in Nat \ {0}, r \in Int, s \in Nat \ {0} :
        p = x[1] /\ q = x[2] /\ r = y[1] /\ s = y[2]
  BY <1>1
<1>4. p * b = a * q /\ r * d = c * s
  BY <1>1, <1>3
<1>5. q * s \in Nat \ {0} /\ b * d \in Nat \ {0}
  BY PositiveProduct
<1>6. (p * s) * (b * d) = (a * d) * (q * s)
  <2>1. (p * s) * (b * d) = (p * b) * (s * d)
    OBVIOUS
  <2>2. (a * d) * (q * s) = (a * q) * (s * d)
    OBVIOUS
  <2> QED
    BY <1>4, <2>1, <2>2
<1>7. (r * q) * (b * d) = (c * b) * (q * s)
  <2>1. (r * q) * (b * d) = (r * d) * (q * b)
    OBVIOUS
  <2>2. (c * b) * (q * s) = (c * s) * (q * b)
    OBVIOUS
  <2> QED
    BY <1>4, <2>1, <2>2
<1>8. (p * s + r * q) * (b * d) = (a * d + c * b) * (q * s)
  <2>1. (p * s + r * q) * (b * d) = (p * s) * (b * d) + (r * q) * (b * d)
    OBVIOUS
  <2>2. (a * d + c * b) * (q * s) = (a * d) * (q * s) + (c * b) * (q * s)
    OBVIOUS
  <2> QED
    BY <1>6, <1>7, <2>1, <2>2
<1>9. (p * s - r * q) * (b * d) = (a * d - c * b) * (q * s)
  <2>1. (p * s - r * q) * (b * d) = (p * s) * (b * d) - (r * q) * (b * d)
    OBVIOUS
  <2>2. (a * d - c * b) * (q * s) = (a * d) * (q * s) - (c * b) * (q * s)
    OBVIOUS
  <2> QED
    BY <1>6, <1>7, <2>1, <2>2
<1>10. (p * r) * (b * d) = (a * c) * (q * s)
  <2>1. (p * r) * (b * d) = (p * b) * (r * d)
    OBVIOUS
  <2>2. (a * c) * (q * s) = (a * q) * (c * s)
    OBVIOUS
  <2> QED
    BY <1>4, <2>1, <2>2
<1>11. /\ p * s + r * q \in Int /\ p * s - r * q \in Int /\ p * r \in Int
       /\ a * d + c * b \in Int /\ a * d - c * b \in Int /\ a * c \in Int
  OBVIOUS
<1>12. Fraction(p * s + r * q, q * s) = Fraction(a * d + c * b, b * d)
  BY <1>5, <1>8, <1>11, SameFraction
<1>13. Fraction(p * s - r * q, q * s) = Fraction(a * d - c * b, b * d)
  BY <1>5, <1>9, <1>11, SameFraction
<1>14. Fraction(p * r, q * s) = Fraction(a * c, b * d)
  BY <1>5, <1>10, <1>11, SameFraction
<1> QED
  BY <1>2, <1>3, <1>12, <1>13, <1>14 DEF x, y

\* A sum is a fraction, and not negative if its terms are not.
LEMMA PlusValue ==
  ASSUME NEW x \in Fractions, NEW y \in Fractions
  PROVE  /\ Plus(x, y) \in Fractions
         /\ ~Negative(x) /\ ~Negative(y) => ~Negative(Plus(x, y))
<1>1. /\ x[1] \in Int /\ x[2] \in Nat \ {0}
      /\ y[1] \in Int /\ y[2] \in Nat \ {0}
  BY FractionFields
<1>2. PICK a \in Int, b \in Nat \ {0}, c \in Int, d \in Nat \ {0} :
        a = x[1] /\ b = x[2] /\ c = y[1] /\ d = y[2]
  BY <1>1
<1>3. Plus(x, y) = Fraction(a * d + c * b, b * d)
  BY <1>2 DEF Plus
<1>4. b * d \in Nat \ {0} /\ a * d + c * b \in Int
  BY PositiveProduct
<1>5. a >= 0 /\ c >= 0 => a * d + c * b >= 0
  <2> SUFFICES ASSUME a >= 0, c >= 0 PROVE a * d + c * b >= 0
    OBVIOUS
  <2>1. a * d \in Nat /\ c * b \in Nat
    OBVIOUS
  <2> QED
    BY <2>1
<1>6. /\ Plus(x, y) \in Fractions
      /\ Plus(x, y)[1] < 0 <=> a * d + c * b < 0
  BY <1>3, <1>4, FractionValue
<1> QED
  BY <1>2, <1>4, <1>5, <1>6 DEF Negative

\* Zero and one.
LEMMA Units ==
  /\ Zero \in Fractions /\ One \in Fractions
  /\ Zero[1] = 0 /\ One[1] = 1 /\ Zero # One
  /\ ~Negative(Zero) /\ ~Positive(Zero) /\ ~Negative(One) /\ Positive(One)
<1>1. 0 \in Int /\ 1 \in Int
  OBVIOUS
<1> QED
  BY <1>1, WholeFraction DEF Zero, One, Negative, Positive

\* What they do as operands.
LEMMA UnitLaws ==
  ASSUME NEW x \in Fractions
  PROVE  /\ Plus(x, Zero) = x /\ Plus(Zero, x) = x
         /\ Minus(x, Zero) = x /\ Minus(x, x) = Zero /\ Minus(Zero, x) = Negated(x)
         /\ Times(x, Zero) = Zero /\ Times(Zero, x) = Zero /\ Times(x, One) = x
         /\ x[1] # 0 => Over(x, x) = One /\ Over(Zero, x) = Zero
<1>1. x[1] \in Int /\ x[2] \in Nat \ {0} /\ x = Fraction(x[1], x[2])
  BY FractionFields
<1>2. PICK a \in Int, b \in Nat \ {0} : a = x[1] /\ b = x[2] /\ x = Fraction(a, b)
  BY <1>1
<1>3. /\ Fraction(0, 1) = Zero /\ Fraction(1, 1) = One
      /\ Zero[1] = 0 /\ Zero[2] = 1 /\ One[1] = 1 /\ One[2] = 1
  <2>1. 0 \in Int /\ 1 \in Int
    OBVIOUS
  <2> QED
    BY <2>1, WholeFraction DEF Zero, One
<1>4. /\ Plus(x, Zero) = Fraction(a * 1 + 0 * b, b * 1)
      /\ Plus(Zero, x) = Fraction(0 * b + a * 1, 1 * b)
      /\ Minus(x, Zero) = Fraction(a * 1 - 0 * b, b * 1)
      /\ Minus(Zero, x) = Fraction(0 * b - a * 1, 1 * b)
      /\ Minus(x, x) = Fraction(a * b - a * b, b * b)
      /\ Times(x, Zero) = Fraction(a * 0, b * 1) /\ Times(Zero, x) = Fraction(0 * a, 1 * b)
      /\ Times(x, One) = Fraction(a * 1, b * 1)
      /\ Over(x, x) = Fraction(a * b, b * a)
      /\ Over(Zero, x) = Fraction(0 * b, 1 * a)
  BY Zenon, <1>2, <1>3 DEF Plus, Minus, Times, Over
<1>5. /\ a * 1 + 0 * b = a /\ 0 * b + a * 1 = a /\ a * 1 - 0 * b = a /\ 0 * b - a * 1 = -a
      /\ a * b - a * b = 0 /\ a * 0 = 0 /\ 0 * a = 0 /\ a * 1 = a /\ b * 1 = b /\ 1 * b = b
      /\ b * a = a * b /\ 0 * b = 0 /\ 1 * a = a
  OBVIOUS
<1>6. /\ Plus(x, Zero) = x /\ Plus(Zero, x) = x /\ Minus(x, Zero) = x /\ Times(x, One) = x
      /\ Minus(Zero, x) = Fraction(-a, b) /\ Minus(x, x) = Fraction(0, b * b)
      /\ Times(x, Zero) = Fraction(0, b) /\ Times(Zero, x) = Fraction(0, b)
      /\ Over(x, x) = Fraction(a * b, a * b) /\ Over(Zero, x) = Fraction(0, a)
  BY Zenon, <1>2, <1>4, <1>5
<1>7. ASSUME NEW d \in Nat \ {0} PROVE Fraction(0, d) = Zero /\ Fraction(d, d) = One
  <2>1. 0 * 1 = 0 * d /\ d * 1 = 1 * d
    OBVIOUS
  <2>2. Fraction(0, d) = Fraction(0, 1) /\ Fraction(d, d) = Fraction(1, 1)
    BY <2>1, SameFraction
  <2> QED
    BY <1>3, <2>2
<1>8. Fraction(-a, b) = Negated(x)
  BY <1>2, FractionValue
<1>9. Fraction(0, b) = Zero /\ Fraction(0, b * b) = Zero
  <2>1. b * b \in Nat \ {0}
    BY PositiveProduct
  <2> QED
    BY <1>7, <2>1
<1>10. ASSUME a # 0 PROVE Fraction(a * b, a * b) = One /\ Fraction(0, a) = Zero
  <2>1. CASE a > 0
    <3>1. a \in Nat \ {0} /\ a * b \in Nat \ {0}
      BY <2>1, PositiveProduct
    <3> QED
      BY <1>7, <3>1
  <2>2. CASE a < 0
    <3>1. -a \in Nat \ {0} /\ (-a) * b = -(a * b)
      BY <2>2
    <3>2. (-a) * b \in Nat \ {0}
      BY <3>1, PositiveProduct
    <3>3. /\ a * b \in Int \ {0} /\ a * b \in Int /\ a * b < 0
          /\ a \in Int \ {0} /\ a < 0 /\ 0 \in Int /\ -0 = 0
      <4>1. a * b \in Int /\ -(a * b) \in Nat \ {0}
        BY <3>1, <3>2
      <4>2. ASSUME NEW e \in Int, -e \in Nat \ {0} PROVE e \in Int \ {0} /\ e < 0
        BY <4>2
      <4>3. a \in Int \ {0} /\ a < 0 /\ 0 \in Int /\ 0 - 0 = 0
        BY <2>2
      <4>4. \A e \in Int : -e = 0 - e
        OBVIOUS
      <4>5. -0 = 0
        BY Zenon, <4>3, <4>4
      <4> QED
        BY Zenon, <4>1, <4>2, <4>3, <4>5
    <3>4. Fraction(a * b, a * b) = Fraction(-(a * b), -(a * b))
      BY ZenonT(30), <3>3, FractionScaled
    <3>5. Fraction(0, a) = Fraction(-0, -a)
      BY ZenonT(30), <3>3, FractionScaled
    <3>6. Fraction((-a) * b, (-a) * b) = One /\ Fraction(0, -a) = Zero
      BY Zenon, <1>7, <3>1, <3>2
    <3> QED
      BY Zenon, <3>1, <3>3, <3>4, <3>5, <3>6
  <2> QED
    BY <1>10, <2>1, <2>2
<1> QED
  BY <1>2, <1>6, <1>8, <1>9, <1>10

\* A fraction as numerator and denominator.
LEMMA AsFraction ==
  ASSUME NEW x \in Fractions
  PROVE  \E a \in Int, b \in Nat \ {0} : x = Fraction(a, b) /\ a = x[1] /\ b = x[2]
BY FractionFields

\* Sums of differences.
LEMMA DifferencesAdded ==
  ASSUME NEW x \in Fractions, NEW y \in Fractions, NEW u \in Fractions, NEW v \in Fractions
  PROVE  Plus(Minus(x, y), Minus(u, v)) = Minus(Plus(x, u), Plus(y, v))
<1>1. PICK a \in Int, b \in Nat \ {0} : x = Fraction(a, b)
  BY AsFraction
<1>2. PICK c \in Int, d \in Nat \ {0} : y = Fraction(c, d)
  BY AsFraction
<1>3. PICK p \in Int, q \in Nat \ {0} : u = Fraction(p, q)
  BY AsFraction
<1>4. PICK r \in Int, s \in Nat \ {0} : v = Fraction(r, s)
  BY AsFraction
<1>5. /\ b * d \in Nat \ {0} /\ q * s \in Nat \ {0} /\ b * q \in Nat \ {0} /\ d * s \in Nat \ {0}
      /\ a * d - c * b \in Int /\ p * s - r * q \in Int
      /\ a * q + p * b \in Int /\ c * s + r * d \in Int
  BY PositiveProduct
<1>6. /\ Minus(x, y) = Fraction(a * d - c * b, b * d)
      /\ Minus(u, v) = Fraction(p * s - r * q, q * s)
      /\ Plus(x, u) = Fraction(a * q + p * b, b * q)
      /\ Plus(y, v) = Fraction(c * s + r * d, d * s)
  <2>1. Minus(x, y) = Fraction(a * d - c * b, b * d)
    <3>1. Minus(Fraction(a, b), Fraction(c, d))
            = Fraction(a * d - c * b, b * d)
      BY FractionsJoined
    <3> QED
      BY Zenon, <3>1, <1>1, <1>2
  <2>2. Minus(u, v) = Fraction(p * s - r * q, q * s)
    <3>1. Minus(Fraction(p, q), Fraction(r, s))
            = Fraction(p * s - r * q, q * s)
      BY FractionsJoined
    <3> QED
      BY Zenon, <3>1, <1>3, <1>4
  <2>3. Plus(x, u) = Fraction(a * q + p * b, b * q)
    <3>1. Plus(Fraction(a, b), Fraction(p, q))
            = Fraction(a * q + p * b, b * q)
      BY FractionsJoined
    <3> QED
      BY Zenon, <3>1, <1>1, <1>3
  <2>4. Plus(y, v) = Fraction(c * s + r * d, d * s)
    <3>1. Plus(Fraction(c, d), Fraction(r, s))
            = Fraction(c * s + r * d, d * s)
      BY FractionsJoined
    <3> QED
      BY Zenon, <3>1, <1>2, <1>4
  <2> QED
    BY <2>1, <2>2, <2>3, <2>4
<1>7. Plus(Minus(x, y), Minus(u, v))
        = Fraction((a * d - c * b) * (q * s) + (p * s - r * q) * (b * d), (b * d) * (q * s))
  BY <1>5, <1>6, FractionsJoined
<1>8. Minus(Plus(x, u), Plus(y, v))
        = Fraction((a * q + p * b) * (d * s) - (c * s + r * d) * (b * q), (b * q) * (d * s))
  BY <1>5, <1>6, FractionsJoined
<1>9. (b * d) * (q * s) = (b * q) * (d * s)
  OBVIOUS
<1>10. (a * d - c * b) * (q * s) + (p * s - r * q) * (b * d)
         = (a * q + p * b) * (d * s) - (c * s + r * d) * (b * q)
  <2>1. (a * d - c * b) * (q * s) = (a * q) * (d * s) - (c * s) * (b * q)
    OBVIOUS
  <2>2. (p * s - r * q) * (b * d) = (p * b) * (d * s) - (r * d) * (b * q)
    OBVIOUS
  <2>3. (a * q + p * b) * (d * s) = (a * q) * (d * s) + (p * b) * (d * s)
    OBVIOUS
  <2>4. (c * s + r * d) * (b * q) = (c * s) * (b * q) + (r * d) * (b * q)
    OBVIOUS
  <2> QED
    BY <2>1, <2>2, <2>3, <2>4
<1> QED
  BY <1>7, <1>8, <1>9, <1>10

\* The same taken from both leaves the difference.
LEMMA DifferenceShifted ==
  ASSUME NEW x \in Fractions, NEW y \in Fractions, NEW t \in Fractions
  PROVE  Minus(Minus(x, t), Minus(y, t)) = Minus(x, y)
<1>1. PICK a \in Int, b \in Nat \ {0} : x = Fraction(a, b)
  BY AsFraction
<1>2. PICK c \in Int, d \in Nat \ {0} : y = Fraction(c, d)
  BY AsFraction
<1>3. PICK p \in Int, q \in Nat \ {0} : t = Fraction(p, q)
  BY AsFraction
<1>5. /\ b * d \in Nat \ {0} /\ b * q \in Nat \ {0} /\ d * q \in Nat \ {0}
      /\ a * q - p * b \in Int /\ c * q - p * d \in Int /\ a * d - c * b \in Int
  BY PositiveProduct
<1>6. /\ Minus(x, t) = Fraction(a * q - p * b, b * q)
      /\ Minus(y, t) = Fraction(c * q - p * d, d * q)
      /\ Minus(x, y) = Fraction(a * d - c * b, b * d)
  <2>1. Minus(x, t) = Fraction(a * q - p * b, b * q)
    <3>1. Minus(Fraction(a, b), Fraction(p, q))
            = Fraction(a * q - p * b, b * q)
      BY FractionsJoined
    <3> QED
      BY Zenon, <3>1, <1>1, <1>3
  <2>2. Minus(y, t) = Fraction(c * q - p * d, d * q)
    <3>1. Minus(Fraction(c, d), Fraction(p, q))
            = Fraction(c * q - p * d, d * q)
      BY FractionsJoined
    <3> QED
      BY Zenon, <3>1, <1>2, <1>3
  <2>3. Minus(x, y) = Fraction(a * d - c * b, b * d)
    <3>1. Minus(Fraction(a, b), Fraction(c, d))
            = Fraction(a * d - c * b, b * d)
      BY FractionsJoined
    <3> QED
      BY Zenon, <3>1, <1>1, <1>2
  <2> QED
    BY <2>1, <2>2, <2>3
<1>7. Minus(Minus(x, t), Minus(y, t))
        = Fraction((a * q - p * b) * (d * q) - (c * q - p * d) * (b * q), (b * q) * (d * q))
  BY <1>5, <1>6, FractionsJoined
<1>8. q * q \in Nat \ {0}
  BY PositiveProduct
<1>9. (b * q) * (d * q) = (q * q) * (b * d)
  OBVIOUS
<1>10. (a * q - p * b) * (d * q) - (c * q - p * d) * (b * q) = (q * q) * (a * d - c * b)
  <2>1. (a * q - p * b) * (d * q) = (q * q) * (a * d) - (p * b) * (d * q)
    OBVIOUS
  <2>2. (c * q - p * d) * (b * q) = (q * q) * (c * b) - (p * b) * (d * q)
    OBVIOUS
  <2>3. (q * q) * (a * d - c * b) = (q * q) * (a * d) - (q * q) * (c * b)
    OBVIOUS
  <2> QED
    BY <2>1, <2>2, <2>3
<1>11. b * d \in Int \ {0} /\ b * d > 0
  BY <1>5
<1>12. Fraction((q * q) * (a * d - c * b), (q * q) * (b * d)) = Fraction(a * d - c * b, b * d)
  BY <1>5, <1>8, <1>11, FractionScaled
<1> QED
  BY <1>6, <1>7, <1>9, <1>10, <1>12

\* A factor of a sum, of a difference and of a product.
LEMMA Distributed ==
  ASSUME NEW t \in Fractions, NEW x \in Fractions, NEW y \in Fractions
  PROVE  /\ Times(t, Plus(x, y)) = Plus(Times(t, x), Times(t, y))
         /\ Times(t, Minus(x, y)) = Minus(Times(t, x), Times(t, y))
         /\ Times(t, Times(x, y)) = Times(x, Times(t, y))
<1>1. PICK a \in Int, b \in Nat \ {0} : x = Fraction(a, b)
  BY AsFraction
<1>2. PICK c \in Int, d \in Nat \ {0} : y = Fraction(c, d)
  BY AsFraction
<1>3. PICK p \in Int, q \in Nat \ {0} : t = Fraction(p, q)
  BY AsFraction
<1>5. /\ b * d \in Nat \ {0} /\ q * b \in Nat \ {0} /\ q * d \in Nat \ {0}
      /\ a * d + c * b \in Int /\ a * d - c * b \in Int /\ p * a \in Int /\ p * c \in Int
      /\ a * c \in Int
  BY PositiveProduct
<1>6. /\ Plus(x, y) = Fraction(a * d + c * b, b * d)
      /\ Minus(x, y) = Fraction(a * d - c * b, b * d)
      /\ Times(x, y) = Fraction(a * c, b * d)
      /\ Times(t, x) = Fraction(p * a, q * b)
      /\ Times(t, y) = Fraction(p * c, q * d)
  <2>1. Plus(x, y) = Fraction(a * d + c * b, b * d)
    <3>1. Plus(Fraction(a, b), Fraction(c, d))
            = Fraction(a * d + c * b, b * d)
      BY FractionsJoined
    <3> QED
      BY Zenon, <3>1, <1>1, <1>2
  <2>2. Minus(x, y) = Fraction(a * d - c * b, b * d)
    <3>1. Minus(Fraction(a, b), Fraction(c, d))
            = Fraction(a * d - c * b, b * d)
      BY FractionsJoined
    <3> QED
      BY Zenon, <3>1, <1>1, <1>2
  <2>3. Times(x, y) = Fraction(a * c, b * d)
    <3>1. Times(Fraction(a, b), Fraction(c, d))
            = Fraction(a * c, b * d)
      BY FractionsJoined
    <3> QED
      BY Zenon, <3>1, <1>1, <1>2
  <2>4. Times(t, x) = Fraction(p * a, q * b)
    <3>1. Times(Fraction(p, q), Fraction(a, b))
            = Fraction(p * a, q * b)
      BY FractionsJoined
    <3> QED
      BY Zenon, <3>1, <1>1, <1>3
  <2>5. Times(t, y) = Fraction(p * c, q * d)
    <3>1. Times(Fraction(p, q), Fraction(c, d))
            = Fraction(p * c, q * d)
      BY FractionsJoined
    <3> QED
      BY Zenon, <3>1, <1>2, <1>3
  <2> QED
    BY <2>1, <2>2, <2>3, <2>4, <2>5
<1>7. /\ Times(t, Plus(x, y)) = Fraction(p * (a * d + c * b), q * (b * d))
      /\ Times(t, Minus(x, y)) = Fraction(p * (a * d - c * b), q * (b * d))
      /\ Times(t, Times(x, y)) = Fraction(p * (a * c), q * (b * d))
  <2>1. Times(t, Plus(x, y)) = Fraction(p * (a * d + c * b), q * (b * d))
    <3>1. Times(Fraction(p, q), Fraction(a * d + c * b, b * d))
            = Fraction(p * (a * d + c * b), q * (b * d))
      BY <1>5, FractionsJoined
    <3> QED
      BY Zenon, <3>1, <1>3, <1>6
  <2>2. Times(t, Minus(x, y)) = Fraction(p * (a * d - c * b), q * (b * d))
    <3>1. Times(Fraction(p, q), Fraction(a * d - c * b, b * d))
            = Fraction(p * (a * d - c * b), q * (b * d))
      BY <1>5, FractionsJoined
    <3> QED
      BY Zenon, <3>1, <1>3, <1>6
  <2>3. Times(t, Times(x, y)) = Fraction(p * (a * c), q * (b * d))
    <3>1. Times(Fraction(p, q), Fraction(a * c, b * d))
            = Fraction(p * (a * c), q * (b * d))
      BY <1>5, FractionsJoined
    <3> QED
      BY Zenon, <3>1, <1>3, <1>6
  <2> QED
    BY <2>1, <2>2, <2>3
<1>8. /\ Plus(Times(t, x), Times(t, y))
           = Fraction((p * a) * (q * d) + (p * c) * (q * b), (q * b) * (q * d))
      /\ Minus(Times(t, x), Times(t, y))
           = Fraction((p * a) * (q * d) - (p * c) * (q * b), (q * b) * (q * d))
  <2>1. Plus(Times(t, x), Times(t, y))
           = Fraction((p * a) * (q * d) + (p * c) * (q * b), (q * b) * (q * d))
    <3>1. Plus(Fraction(p * a, q * b), Fraction(p * c, q * d))
            = Fraction((p * a) * (q * d) + (p * c) * (q * b), (q * b) * (q * d))
      BY <1>5, FractionsJoined
    <3> QED
      BY Zenon, <3>1, <1>6
  <2>2. Minus(Times(t, x), Times(t, y))
           = Fraction((p * a) * (q * d) - (p * c) * (q * b), (q * b) * (q * d))
    <3>1. Minus(Fraction(p * a, q * b), Fraction(p * c, q * d))
            = Fraction((p * a) * (q * d) - (p * c) * (q * b), (q * b) * (q * d))
      BY <1>5, FractionsJoined
    <3> QED
      BY Zenon, <3>1, <1>6
  <2> QED
    BY <2>1, <2>2
<1>9. Times(x, Times(t, y)) = Fraction(a * (p * c), b * (q * d))
  BY <1>1, <1>5, <1>6, FractionsJoined
<1>10. (q * b) * (q * d) = q * (q * (b * d)) /\ b * (q * d) = q * (b * d) /\ a * (p * c) = p * (a * c)
  OBVIOUS
<1>11. /\ (p * a) * (q * d) + (p * c) * (q * b) = q * (p * (a * d + c * b))
       /\ (p * a) * (q * d) - (p * c) * (q * b) = q * (p * (a * d - c * b))
  <2>1. (p * a) * (q * d) = q * (p * (a * d)) /\ (p * c) * (q * b) = q * (p * (c * b))
    OBVIOUS
  <2>2. /\ q * (p * (a * d + c * b)) = q * (p * (a * d)) + q * (p * (c * b))
        /\ q * (p * (a * d - c * b)) = q * (p * (a * d)) - q * (p * (c * b))
    OBVIOUS
  <2> QED
    BY <2>1, <2>2
<1>12. /\ q * (b * d) \in Int \ {0} /\ q * (b * d) > 0
       /\ p * (a * d + c * b) \in Int /\ p * (a * d - c * b) \in Int
  BY <1>5, PositiveProduct
<1>13. /\ Fraction(q * (p * (a * d + c * b)), q * (q * (b * d))) = Fraction(p * (a * d + c * b), q * (b * d))
       /\ Fraction(q * (p * (a * d - c * b)), q * (q * (b * d))) = Fraction(p * (a * d - c * b), q * (b * d))
  BY <1>12, FractionScaled
<1> QED
  BY <1>7, <1>8, <1>9, <1>10, <1>11, <1>13

\* A quotient times what it was divided by.
LEMMA TimesOver ==
  ASSUME NEW x \in Fractions, NEW y \in Fractions, y[1] # 0
  PROVE  Times(y, Over(x, y)) = x
<1>1. PICK a \in Int, b \in Nat \ {0} : x = Fraction(a, b) /\ a = x[1] /\ b = x[2]
  BY AsFraction
<1>2. PICK c \in Int, d \in Nat \ {0} : y = Fraction(c, d) /\ c = y[1] /\ d = y[2]
  BY AsFraction
<1>3. Over(x, y) = Fraction(a * d, b * c)
  BY <1>1, <1>2 DEF Over
<1>4. CASE c > 0
  <2>1. c \in Nat \ {0}
    BY <1>4
  <2>2. b * c \in Nat \ {0} /\ d * c \in Nat \ {0} /\ a * d \in Int
    BY <2>1, PositiveProduct
  <2>3. Times(y, Over(x, y)) = Fraction(c * (a * d), d * (b * c))
    <3>1. Times(Fraction(c, d), Fraction(a * d, b * c))
            = Fraction(c * (a * d), d * (b * c))
      BY <2>2, FractionsJoined
    <3> QED
      BY Zenon, <3>1, <1>2, <1>3
  <2>4. c * (a * d) = (d * c) * a /\ d * (b * c) = (d * c) * b
    OBVIOUS
  <2>5. b \in Int \ {0} /\ b > 0
    OBVIOUS
  <2>6. Fraction((d * c) * a, (d * c) * b) = Fraction(a, b)
    BY <2>2, <2>5, FractionScaled
  <2> QED
    BY <1>1, <2>3, <2>4, <2>6
<1>5. CASE c < 0
  <2>1. -c \in Nat \ {0}
    BY <1>5
  <2>2. b * (-c) \in Nat \ {0} /\ d * (-c) \in Nat \ {0} /\ a * d \in Int
    BY <2>1, PositiveProduct
  <2>3. b * c = -(b * (-c)) /\ -(b * c) = b * (-c) /\ -(a * d) = (-a) * d /\ (-a) * d \in Int
    OBVIOUS
  <2>4. b * c \in Int \ {0} /\ b * c < 0
    BY <2>2, <2>3
  <2>5. Over(x, y) = Fraction((-a) * d, b * (-c))
    BY <1>3, <2>2, <2>3, <2>4, FractionScaled
  <2>6. Times(y, Over(x, y)) = Fraction(c * ((-a) * d), d * (b * (-c)))
    <3>1. Times(Fraction(c, d), Fraction((-a) * d, b * (-c)))
            = Fraction(c * ((-a) * d), d * (b * (-c)))
      <4>1. ASSUME NEW e \in Int, NEW k \in Nat \ {0}
            PROVE  Times(Fraction(c, d), Fraction(e, k)) = Fraction(c * e, d * k)
        BY FractionsJoined
      <4>2. (-a) * d \in Int /\ b * (-c) \in Nat \ {0}
        BY Zenon, <2>2, <2>3
      <4> QED
        BY Zenon, <4>1, <4>2
    <3> QED
      BY Zenon, <3>1, <1>2, <2>5
  <2>7. c * ((-a) * d) = (d * (-c)) * a /\ d * (b * (-c)) = (d * (-c)) * b
    OBVIOUS
  <2>8. b \in Int \ {0} /\ b > 0
    OBVIOUS
  <2>9. Fraction((d * (-c)) * a, (d * (-c)) * b) = Fraction(a, b)
    BY <2>2, <2>8, FractionScaled
  <2> QED
    BY <1>1, <2>6, <2>7, <2>9
<1> QED
  BY <1>2, <1>4, <1>5

-----------------------------------------------------------------------------
(* Sums.                                                                    *)

\* The element that a fold takes from a set.
Chosen(s) == CHOOSE x \in s : TRUE

\* g holds the sums of f over the subsets of S, as FoldFunction builds them.
Adds(g, f, S) ==
  g = [s \in SUBSET S |->
        IF s = {} THEN Zero ELSE Plus(f[Chosen(s)], g[s \ {Chosen(s)}])]

SumOf(f) == FoldFunction(Plus, Zero, f)

\* What is taken out of a finite set leaves a smaller one.
LEMMA ChosenOut ==
  ASSUME NEW S, IsFiniteSet(S), NEW s \in SUBSET S
  PROVE  /\ Cardinality(s) \in Nat /\ Cardinality({}) = 0
         /\ s # {} => /\ Chosen(s) \in s /\ Chosen(s) \in S
                      /\ s \ {Chosen(s)} \in SUBSET S
                      /\ Cardinality(s) # 0
                      /\ Cardinality(s \ {Chosen(s)}) = Cardinality(s) - 1
<1>1. IsFiniteSet(s)
  BY FS_Subset
<1>2. Cardinality(s) \in Nat /\ Cardinality({}) = 0 /\ (Cardinality(s) = 0 <=> s = {})
  BY <1>1, FS_CardinalityType, FS_EmptySet
<1>3. s # {} => Chosen(s) \in s
  BY DEF Chosen
<1> QED
  BY <1>1, <1>2, <1>3, FS_RemoveElement, ZenonT(30)

\* What holds of the empty set, and of each set when it holds of the set without the
\* element chosen from it, holds of all.
LEMMA SubsetsInduction ==
  ASSUME NEW S, IsFiniteSet(S), NEW Z, {} \in Z,
         \A s \in SUBSET S : s # {} /\ s \ {Chosen(s)} \in Z => s \in Z
  PROVE  S \in Z /\ \A s \in SUBSET S : s \in Z
<1> DEFINE T == {n \in Nat : \A s \in SUBSET S : Cardinality(s) = n => s \in Z}
<1>1. 0 \in T
  <2>1. ASSUME NEW s \in SUBSET S, Cardinality(s) = 0 PROVE s \in Z
    BY <2>1, ChosenOut
  <2> QED
    BY <2>1
<1>2. ASSUME NEW n \in T PROVE n + 1 \in T
  <2>1. ASSUME NEW s \in SUBSET S, Cardinality(s) = n + 1 PROVE s \in Z
    <3>0. n \in Nat /\ Cardinality({}) = 0
      BY FS_EmptySet
    <3>1. s # {}
      <4> SUFFICES ASSUME s = {} PROVE FALSE
        OBVIOUS
      <4>1. Cardinality({}) = n + 1
        BY <2>1
      <4> QED
        BY <3>0, <4>1
    <3>2. s \ {Chosen(s)} \in SUBSET S /\ Cardinality(s \ {Chosen(s)}) = n
      <4>1. /\ s \ {Chosen(s)} \in SUBSET S
            /\ Cardinality(s \ {Chosen(s)}) = Cardinality(s) - 1
        BY <3>1, ChosenOut
      <4> QED
        BY <2>1, <3>0, <4>1
    <3> QED
      BY <3>1, <3>2
  <2> QED
    BY <2>1
<1> HIDE DEF T
<1>3. T = Nat
  <2>1. T \subseteq Nat
    BY DEF T
  <2> QED
    BY <1>1, <1>2, <2>1, Induction
<1>4. ASSUME NEW s \in SUBSET S PROVE s \in Z
  <2>1. Cardinality(s) \in Nat
    BY ChosenOut
  <2> QED
    BY <1>3, <2>1 DEF T
<1> QED
  BY <1>4

\* Such sums exist.
LEMMA AddsExists ==
  ASSUME NEW S, IsFiniteSet(S), NEW f
  PROVE  \E g : Adds(g, f, S)
<1> DEFINE Next1(g, s) == IF s = {} THEN Zero ELSE Plus(f[Chosen(s)], g[s \ {Chosen(s)}])
           Upto(g, n) == /\ g = [s \in SUBSET S |-> g[s]]
                         /\ \A s \in SUBSET S : Cardinality(s) <= n => g[s] = Next1(g, s)
           T == {n \in Nat : \E g : Upto(g, n)}
<1>1. 0 \in T
  <2> DEFINE g == [s \in SUBSET S |-> Zero]
  <2>1. ASSUME NEW s \in SUBSET S, Cardinality(s) <= 0 PROVE g[s] = Next1(g, s)
    <3>1. s = {}
      <4> SUFFICES ASSUME s # {} PROVE FALSE
        OBVIOUS
      <4>1. Cardinality(s) \in Nat /\ Cardinality(s) # 0
        BY ChosenOut
      <4> QED
        BY <2>1, <4>1
    <3> QED
      BY <3>1
  <2>2. g = [s \in SUBSET S |-> g[s]]
    OBVIOUS
  <2> HIDE DEF g, Next1
  <2>3. Upto(g, 0)
    BY <2>1, <2>2
  <2> QED
    BY <2>3
<1>2. ASSUME NEW n \in T PROVE n + 1 \in T
  <2>1. PICK g : Upto(g, n)
    OBVIOUS
  <2> DEFINE h == [s \in SUBSET S |-> IF Cardinality(s) <= n THEN g[s] ELSE Next1(g, s)]
  <2>2. ASSUME NEW s \in SUBSET S, Cardinality(s) <= n + 1 PROVE h[s] = Next1(h, s)
    <3>1. h[s] = Next1(g, s)
      BY <2>1
    <3>2. CASE s = {}
      BY <3>1, <3>2
    <3>3. CASE s # {}
      <4>1. /\ s \ {Chosen(s)} \in SUBSET S
            /\ Cardinality(s \ {Chosen(s)}) <= n
        BY <2>2, <3>3, ChosenOut
      <4>2. h[s \ {Chosen(s)}] = g[s \ {Chosen(s)}]
        BY <4>1
      <4> QED
        BY <3>1, <3>3, <4>2
    <3> QED
      BY <3>2, <3>3
  <2>3. h = [s \in SUBSET S |-> h[s]]
    OBVIOUS
  <2> HIDE DEF h, Next1
  <2>4. Upto(h, n + 1)
    BY <2>2, <2>3
  <2> HIDE DEF Upto
  <2> QED
    BY <2>4
<1>3. T = Nat
  <2> HIDE DEF Upto
  <2>1. T \subseteq Nat
    OBVIOUS
  <2> HIDE DEF T
  <2> QED
    BY <1>1, <1>2, <2>1, Induction
<1>4. Cardinality(S) \in Nat
  BY ChosenOut
<1>5. PICK g : Upto(g, Cardinality(S))
  <2> HIDE DEF Upto
  <2> QED
    BY <1>3, <1>4
<1>6. \A s \in SUBSET S : g[s] = Next1(g, s)
  <2>1. ASSUME NEW s \in SUBSET S PROVE Cardinality(s) <= Cardinality(S)
    BY FS_Subset
  <2> HIDE DEF Next1
  <2> QED
    BY <1>5, <2>1
<1>7. g = [s \in SUBSET S |-> Next1(g, s)]
  <2>1. g = [s \in SUBSET S |-> g[s]]
    BY <1>5
  <2> HIDE DEF Next1
  <2> QED
    BY <1>6, <2>1
<1> QED
  BY <1>7 DEF Adds

\* What FoldFunction computes.
LEMMA SumDef ==
  ASSUME NEW S, IsFiniteSet(S), NEW f, DOMAIN f = S
  PROVE  \E g : Adds(g, f, S) /\ SumOf(f) = g[S]
<1> DEFINE Step(h) == [s \in SUBSET S |->
                         IF s = {} THEN Zero
                         ELSE Plus(f[CHOOSE x \in s : TRUE], h[s \ {CHOOSE x \in s : TRUE}])]
           g == CHOOSE h : h = Step(h)
<1>1. Adds(g, f, S)
  <2>1. PICK h : Adds(h, f, S)
    BY AddsExists
  <2>2. h = Step(h)
    BY Zenon, <2>1 DEF Adds, Chosen
  <2>3. g = Step(g)
    <3> HIDE DEF Step
    <3>1. \E k : k = Step(k)
      BY Zenon, <2>2
    <3> QED
      BY Zenon, <3>1
  <2> HIDE DEF g
  <2> QED
    BY Zenon, <2>3 DEF Adds, Chosen
<1>2. SumOf(f) = g[S]
  BY Zenon DEF SumOf, FoldFunction, FoldFunctionOnSet, MapThenFoldSet
<1> HIDE DEF g
<1> QED
  BY <1>1, <1>2

\* g holds the running sums of f, which are fractions.
Running(g, f, S) ==
  /\ g[{}] = Zero
  /\ \A s \in SUBSET S : g[s] \in Fractions
  /\ \A s \in SUBSET S : s # {} => g[s] = Plus(f[Chosen(s)], g[s \ {Chosen(s)}])

\* Every sum of fractions is built up of such.
LEMMA SumSteps ==
  ASSUME NEW S, IsFiniteSet(S), NEW f \in [S -> Fractions]
  PROVE  \E g : Running(g, f, S) /\ SumOf(f) = g[S]
<1>0. PICK g : Adds(g, f, S) /\ SumOf(f) = g[S]
  BY SumDef
<1>1. \A s \in SUBSET S : s # {} => g[s] = Plus(f[Chosen(s)], g[s \ {Chosen(s)}])
  BY <1>0 DEF Adds
<1>2. g[{}] = Zero
  BY <1>0 DEF Adds
<1> DEFINE Z == {s \in SUBSET S : g[s] \in Fractions}
<1>3. {} \in Z
  BY <1>2, Units
<1>4. ASSUME NEW s \in SUBSET S, s # {}, s \ {Chosen(s)} \in Z PROVE s \in Z
  <2>1. Chosen(s) \in S /\ f[Chosen(s)] \in Fractions /\ g[s \ {Chosen(s)}] \in Fractions
    BY <1>4, ChosenOut
  <2> QED
    BY <1>1, <1>4, <2>1, PlusValue
<1> HIDE DEF Z
<1>5. \A s \in SUBSET S : s \in Z
  BY <1>3, <1>4, SubsetsInduction
<1>6. \A s \in SUBSET S : g[s] \in Fractions
  BY <1>5 DEF Z
<1>7. Running(g, f, S)
  BY Zenon, <1>1, <1>2, <1>6 DEF Running
<1> QED
  BY <1>0, <1>7

\* The sum of fractions is one.
LEMMA SumType ==
  ASSUME NEW S, IsFiniteSet(S), NEW f \in [S -> Fractions]
  PROVE  SumOf(f) \in Fractions
<1>1. PICK g : Running(g, f, S) /\ SumOf(f) = g[S]
  BY SumSteps
<1>2. S \in SUBSET S
  OBVIOUS
<1> QED
  BY <1>1, <1>2 DEF Running

\* The sum of differences.
LEMMA SumOfDifferences ==
  ASSUME NEW S, IsFiniteSet(S), NEW f \in [S -> Fractions], NEW h \in [S -> Fractions],
         NEW d \in [S -> Fractions], \A j \in S : d[j] = Minus(f[j], h[j])
  PROVE  SumOf(d) = Minus(SumOf(f), SumOf(h))
<1>1. PICK a : Running(a, f, S) /\ SumOf(f) = a[S]
  BY SumSteps
<1>2. PICK b : Running(b, h, S) /\ SumOf(h) = b[S]
  BY SumSteps
<1>3. PICK c : Running(c, d, S) /\ SumOf(d) = c[S]
  BY SumSteps
<1>4. /\ a[{}] = Zero /\ b[{}] = Zero /\ c[{}] = Zero
      /\ \A s \in SUBSET S : a[s] \in Fractions /\ b[s] \in Fractions
      /\ \A s \in SUBSET S : s # {} =>
           /\ a[s] = Plus(f[Chosen(s)], a[s \ {Chosen(s)}])
           /\ b[s] = Plus(h[Chosen(s)], b[s \ {Chosen(s)}])
           /\ c[s] = Plus(d[Chosen(s)], c[s \ {Chosen(s)}])
  BY <1>1, <1>2, <1>3 DEF Running
<1> DEFINE Z == {s \in SUBSET S : c[s] = Minus(a[s], b[s])}
<1>5. {} \in Z
  BY <1>4, Units, UnitLaws
<1>6. ASSUME NEW s \in SUBSET S, s # {}, s \ {Chosen(s)} \in Z PROVE s \in Z
  <2> DEFINE x == Chosen(s)
             r == s \ {Chosen(s)}
  <2>1. x \in S /\ r \in SUBSET S
    BY <1>6, ChosenOut
  <2>2. c[r] = Minus(a[r], b[r])
    BY <1>6
  <2>3. /\ a[s] = Plus(f[x], a[r]) /\ b[s] = Plus(h[x], b[r]) /\ c[s] = Plus(d[x], c[r])
    BY <1>4, <1>6
  <2> HIDE DEF x, r
  <2>4. /\ f[x] \in Fractions /\ h[x] \in Fractions /\ d[x] = Minus(f[x], h[x])
        /\ a[r] \in Fractions /\ b[r] \in Fractions
    BY <1>4, <2>1
  <2>5. Plus(Minus(f[x], h[x]), Minus(a[r], b[r])) = Minus(Plus(f[x], a[r]), Plus(h[x], b[r]))
    BY <2>4, DifferencesAdded
  <2>6. c[s] = Minus(a[s], b[s])
    BY <2>2, <2>3, <2>4, <2>5
  <2> QED
    BY <2>6
<1> HIDE DEF Z
<1>7. S \in Z
  BY <1>5, <1>6, SubsetsInduction
<1> QED
  BY <1>1, <1>2, <1>3, <1>7 DEF Z

\* The sum of multiples.
LEMMA SumOfMultiples ==
  ASSUME NEW S, IsFiniteSet(S), NEW f \in [S -> Fractions], NEW t \in Fractions,
         NEW d \in [S -> Fractions], \A j \in S : d[j] = Times(t, f[j])
  PROVE  SumOf(d) = Times(t, SumOf(f))
<1>1. PICK a : Running(a, f, S) /\ SumOf(f) = a[S]
  BY SumSteps
<1>3. PICK c : Running(c, d, S) /\ SumOf(d) = c[S]
  BY SumSteps
<1>4. /\ a[{}] = Zero /\ c[{}] = Zero
      /\ \A s \in SUBSET S : a[s] \in Fractions
      /\ \A s \in SUBSET S : s # {} =>
           /\ a[s] = Plus(f[Chosen(s)], a[s \ {Chosen(s)}])
           /\ c[s] = Plus(d[Chosen(s)], c[s \ {Chosen(s)}])
  BY <1>1, <1>3 DEF Running
<1> DEFINE Z == {s \in SUBSET S : c[s] = Times(t, a[s])}
<1>5. {} \in Z
  BY <1>4, UnitLaws
<1>6. ASSUME NEW s \in SUBSET S, s # {}, s \ {Chosen(s)} \in Z PROVE s \in Z
  <2> DEFINE x == Chosen(s)
             r == s \ {Chosen(s)}
  <2>1. x \in S /\ r \in SUBSET S
    BY <1>6, ChosenOut
  <2>2. c[r] = Times(t, a[r])
    BY <1>6
  <2>3. a[s] = Plus(f[x], a[r]) /\ c[s] = Plus(d[x], c[r])
    BY <1>4, <1>6
  <2> HIDE DEF x, r
  <2>4. f[x] \in Fractions /\ d[x] = Times(t, f[x]) /\ a[r] \in Fractions
    BY <1>4, <2>1
  <2>5. Times(t, Plus(f[x], a[r])) = Plus(Times(t, f[x]), Times(t, a[r]))
    BY <2>4, Distributed
  <2>6. c[s] = Times(t, a[s])
    BY <2>2, <2>3, <2>4, <2>5
  <2> QED
    BY <2>6
<1> HIDE DEF Z
<1>7. S \in Z
  BY <1>5, <1>6, SubsetsInduction
<1> QED
  BY <1>1, <1>3, <1>7 DEF Z

\* The sum when nothing, or one term alone, is not zero.
LEMMA SumOfOne ==
  ASSUME NEW S, IsFiniteSet(S), NEW f \in [S -> Fractions], NEW x,
         \A j \in S : j # x => f[j] = Zero
  PROVE  SumOf(f) = IF x \in S THEN f[x] ELSE Zero
<1>1. PICK a : Running(a, f, S) /\ SumOf(f) = a[S]
  BY SumSteps
<1>2. /\ a[{}] = Zero
      /\ \A s \in SUBSET S : s # {} => a[s] = Plus(f[Chosen(s)], a[s \ {Chosen(s)}])
  BY <1>1 DEF Running
<1> DEFINE Z == {s \in SUBSET S : a[s] = IF x \in s THEN f[x] ELSE Zero}
<1>3. {} \in Z
  BY <1>2
<1>4. ASSUME NEW s \in SUBSET S, s # {}, s \ {Chosen(s)} \in Z PROVE s \in Z
  <2> DEFINE y == Chosen(s)
             r == s \ {Chosen(s)}
  <2>1. y \in S /\ y \in s /\ r \in SUBSET S /\ r = s \ {y}
    BY <1>4, ChosenOut
  <2>2. a[r] = IF x \in r THEN f[x] ELSE Zero
    BY <1>4
  <2>3. a[s] = Plus(f[y], a[r])
    BY <1>2, <1>4
  <2> HIDE DEF y, r
  <2>4. f[y] \in Fractions /\ (x \in S => f[x] \in Fractions) /\ Zero \in Fractions
    BY <2>1, Units
  <2>5. CASE x = y
    <3>1. a[r] = Zero
      BY <2>1, <2>2, <2>5
    <3>2. a[s] = f[y]
      BY <2>3, <2>4, <3>1, UnitLaws
    <3> QED
      BY <2>1, <2>5, <3>2
  <2>6. CASE x # y
    <3>1. f[y] = Zero /\ (x \in r <=> x \in s)
      BY <2>1, <2>6
    <3>2. a[r] \in Fractions
      BY <2>1, <2>2, <2>4
    <3>3. a[s] = a[r]
      BY <2>3, <3>1, <3>2, UnitLaws
    <3> QED
      BY <2>2, <3>1, <3>3
  <2> QED
    BY <2>5, <2>6
<1> HIDE DEF Z
<1>5. S \in Z
  BY <1>3, <1>4, SubsetsInduction
<1> QED
  BY <1>1, <1>5 DEF Z

\* The sum when nothing is negative.
LEMMA SumNotNegative ==
  ASSUME NEW S, IsFiniteSet(S), NEW f \in [S -> Fractions], \A j \in S : ~Negative(f[j])
  PROVE  ~Negative(SumOf(f))
<1>1. PICK a : Running(a, f, S) /\ SumOf(f) = a[S]
  BY SumSteps
<1>2. /\ a[{}] = Zero /\ \A s \in SUBSET S : a[s] \in Fractions
      /\ \A s \in SUBSET S : s # {} => a[s] = Plus(f[Chosen(s)], a[s \ {Chosen(s)}])
  BY <1>1 DEF Running
<1> DEFINE Z == {s \in SUBSET S : ~Negative(a[s])}
<1>3. {} \in Z
  BY <1>2, Units
<1>4. ASSUME NEW s \in SUBSET S, s # {}, s \ {Chosen(s)} \in Z PROVE s \in Z
  <2>1. /\ Chosen(s) \in S /\ s \ {Chosen(s)} \in SUBSET S /\ ~Negative(a[s \ {Chosen(s)}])
    BY <1>4, ChosenOut
  <2>2. a[s] = Plus(f[Chosen(s)], a[s \ {Chosen(s)}])
    BY <1>2, <1>4
  <2>3. /\ f[Chosen(s)] \in Fractions /\ ~Negative(f[Chosen(s)])
        /\ a[s \ {Chosen(s)}] \in Fractions
    BY <1>2, <2>1
  <2>4. ~Negative(Plus(f[Chosen(s)], a[s \ {Chosen(s)}]))
    BY <2>1, <2>3, PlusValue
  <2> QED
    BY <2>2, <2>4
<1> HIDE DEF Z
<1>5. S \in Z
  BY <1>3, <1>4, SubsetsInduction
<1> QED
  BY <1>1, <1>5 DEF Z

-----------------------------------------------------------------------------
(* The solutions of the equations, which a pivot keeps.                     *)

\* Fractions of equal value are the same.
LEMMA EqualValues ==
  ASSUME NEW x \in Fractions, NEW y \in Fractions, ~Less(x, y), ~Less(y, x)
  PROVE  x = y
<1>1. /\ x[1] \in Int /\ x[2] \in Nat \ {0} /\ y[1] \in Int /\ y[2] \in Nat \ {0}
      /\ x = Fraction(x[1], x[2]) /\ y = Fraction(y[1], y[2])
  BY FractionFields
<1>2. x[1] * y[2] \in Int /\ y[1] * x[2] \in Int
  BY <1>1
<1>3. x[1] * y[2] = y[1] * x[2]
  BY <1>2 DEF Less
<1> QED
  BY <1>1, <1>3, SameFraction

\* A difference is zero when there is none.
LEMMA NoDifference ==
  ASSUME NEW x \in Fractions, NEW y \in Fractions
  PROVE  Minus(x, y) = Zero <=> x = y
<1>1. Minus(x, y) = Zero => x = y
  BY MinusValue, Units, EqualValues
<1>2. x = y => Minus(x, y) = Zero
  BY UnitLaws
<1> QED
  BY <1>1, <1>2

\* A factor that is not zero can be taken out.
LEMMA FactorOut ==
  ASSUME NEW t \in Fractions, t[1] # 0, NEW x \in Fractions, NEW y \in Fractions,
         Times(t, x) = Times(t, y)
  PROVE  x = y
<1> DEFINE d == Minus(x, y)
<1>1. d \in Fractions /\ Times(t, x) \in Fractions
  BY MinusValue, TimesValue
<1>2. Times(t, d) = Minus(Times(t, x), Times(t, y))
  BY Distributed
<1>3. Times(t, d) = Zero
  BY <1>1, <1>2, UnitLaws
<1>4. Positive(t) \/ Negative(t)
  BY FractionFields DEF Positive, Negative
<1>5. ~Negative(d) /\ ~Positive(d)
  BY <1>1, <1>3, <1>4, TimesValue, Units
<1> QED
  BY <1>5, MinusValue, EqualValues

\* The left-hand side of row i, for values v of some of the columns.
Dot(T, i, v) == SumOf([j \in DOMAIN v |-> Times(v[j], T[i][j])])

Places(n) == SUBSET (0..(n - 1))

\* It is a fraction.
LEMMA DotType ==
  ASSUME NEW m \in Nat, NEW n \in Nat \ {0}, NEW T, Shaped(T, m, n),
         NEW V \in Places(n), NEW v \in [V -> Fractions], NEW i \in 0..m
  PROVE  /\ IsFiniteSet(V)
         /\ \A j \in V : j \in 0..n /\ T[i][j] \in Fractions /\ v[j] \in Fractions
         /\ [j \in V |-> Times(v[j], T[i][j])] \in [V -> Fractions]
         /\ Dot(T, i, v) = SumOf([j \in V |-> Times(v[j], T[i][j])])
         /\ Dot(T, i, v) \in Fractions /\ T[i][n] \in Fractions
<1>0. n - 1 \in Int /\ n \in 0..n
  OBVIOUS
<1>1. IsFiniteSet(V)
  <2>1. IsFiniteSet(0..(n - 1))
    BY <1>0, FS_Interval
  <2> QED
    BY <2>1, FS_Subset DEF Places
<1>2. \A j \in V : j \in 0..n
  BY DEF Places
<1>3. \A j \in 0..n : T[i][j] \in Fractions
  BY TableauParts
<1>4. \A j \in V : T[i][j] \in Fractions /\ v[j] \in Fractions
  BY <1>2, <1>3
<1>5. \A j \in V : Times(v[j], T[i][j]) \in Fractions
  BY <1>4, TimesValue
<1>6. [j \in V |-> Times(v[j], T[i][j])] \in [V -> Fractions]
  BY <1>5
<1>7. Dot(T, i, v) = SumOf([j \in V |-> Times(v[j], T[i][j])])
  BY DEF Dot
<1>8. SumOf([j \in V |-> Times(v[j], T[i][j])]) \in Fractions
  BY <1>1, <1>6, SumType
<1> QED
  BY <1>0, <1>1, <1>2, <1>3, <1>4, <1>6, <1>7, <1>8

\* The left-hand sides before a pivot and after it.
LEMMA PivotedDots ==
  ASSUME NEW m \in Nat, NEW n \in Nat \ {0}, NEW T, Shaped(T, m, n),
         NEW r \in 0..m, NEW c \in 0..n, T[r][c][1] # 0,
         NEW V \in Places(n), NEW v \in [V -> Fractions]
  PROVE  /\ Dot(T, r, v) = Times(T[r][c], Dot(Pivoted(T, r, c), r, v))
         /\ \A i \in 0..m : i # r =>
              Dot(Pivoted(T, r, c), i, v)
                = Minus(Dot(T, i, v), Times(T[i][c], Dot(Pivoted(T, r, c), r, v)))
<1> DEFINE U == Pivoted(T, r, c)
           before(i) == [j \in V |-> Times(v[j], T[i][j])]
           after(i) == [j \in V |-> Times(v[j], U[i][j])]
<1>1. /\ Shaped(U, m, n)
      /\ \A j \in 0..n : Over(T[r][j], T[r][c]) \in Fractions
      /\ \A j \in 0..n : U[r][j] = Over(T[r][j], T[r][c])
      /\ \A i \in 0..m, j \in 0..n : i # r =>
           U[i][j] = Minus(T[i][j], Times(T[i][c], Over(T[r][j], T[r][c])))
  BY PivotedEntries
<1>2. \A i \in 0..m, j \in 0..n : T[i][j] \in Fractions
  BY TableauParts
<1> HIDE DEF U
<1>3. IsFiniteSet(V) /\ \A j \in V : j \in 0..n /\ v[j] \in Fractions
  BY DotType
<1>4. \A i \in 0..m : /\ before(i) \in [V -> Fractions] /\ after(i) \in [V -> Fractions]
                      /\ Dot(T, i, v) = SumOf(before(i)) /\ Dot(U, i, v) = SumOf(after(i))
  BY <1>1, DotType
<1>5. Dot(T, r, v) = Times(T[r][c], Dot(U, r, v))
  <2>1. ASSUME NEW j \in V
        PROVE  Times(v[j], T[r][j]) = Times(T[r][c], Times(v[j], U[r][j]))
    <3>1. /\ T[r][j] \in Fractions /\ T[r][c] \in Fractions /\ v[j] \in Fractions
          /\ U[r][j] = Over(T[r][j], T[r][c]) /\ U[r][j] \in Fractions
      BY <1>1, <1>2, <1>3
    <3>2. Times(T[r][c], U[r][j]) = T[r][j]
      BY <3>1, TimesOver
    <3>3. Times(T[r][c], Times(v[j], U[r][j])) = Times(v[j], Times(T[r][c], U[r][j]))
      BY <3>1, Distributed
    <3> QED
      BY <3>2, <3>3
  <2>2. \A j \in V : before(r)[j] = Times(T[r][c], after(r)[j])
    BY <2>1
  <2>3. /\ before(r) \in [V -> Fractions] /\ after(r) \in [V -> Fractions]
        /\ T[r][c] \in Fractions
    BY <1>2, <1>4
  <2> HIDE DEF before, after
  <2>4. SumOf(before(r)) = Times(T[r][c], SumOf(after(r)))
    BY <1>3, <2>2, <2>3, SumOfMultiples
  <2> QED
    BY <1>4, <2>4
<1>6. ASSUME NEW i \in 0..m, i # r
      PROVE  Dot(U, i, v) = Minus(Dot(T, i, v), Times(T[i][c], Dot(U, r, v)))
  <2> DEFINE part == [j \in V |-> Times(T[i][c], after(r)[j])]
  <2>1. T[i][c] \in Fractions /\ after(r) \in [V -> Fractions]
    BY <1>2, <1>4
  <2>2. ASSUME NEW j \in V
        PROVE  /\ Times(T[i][c], Times(v[j], U[r][j])) \in Fractions
               /\ Times(v[j], U[i][j])
                    = Minus(Times(v[j], T[i][j]), Times(T[i][c], Times(v[j], U[r][j])))
    <3>1. /\ T[i][j] \in Fractions /\ T[i][c] \in Fractions /\ v[j] \in Fractions
          /\ U[r][j] = Over(T[r][j], T[r][c]) /\ U[r][j] \in Fractions
          /\ U[i][j] = Minus(T[i][j], Times(T[i][c], U[r][j]))
      BY <1>1, <1>2, <1>3, <1>6
    <3>2. Times(T[i][c], U[r][j]) \in Fractions /\ Times(v[j], U[r][j]) \in Fractions
      BY <3>1, TimesValue
    <3>3. Times(v[j], Minus(T[i][j], Times(T[i][c], U[r][j])))
            = Minus(Times(v[j], T[i][j]), Times(v[j], Times(T[i][c], U[r][j])))
      BY <3>1, <3>2, Distributed
    <3>4. Times(v[j], Times(T[i][c], U[r][j])) = Times(T[i][c], Times(v[j], U[r][j]))
      BY <3>1, Distributed
    <3>5. Times(T[i][c], Times(v[j], U[r][j])) \in Fractions
      BY <3>1, <3>2, TimesValue
    <3> QED
      BY <3>1, <3>3, <3>4, <3>5
  <2>3. \A j \in V : after(r)[j] = Times(v[j], U[r][j])
    OBVIOUS
  <2>4. part \in [V -> Fractions] /\ \A j \in V : part[j] = Times(T[i][c], after(r)[j])
    BY <2>2, <2>3
  <2>5. \A j \in V : after(i)[j] = Minus(before(i)[j], part[j])
    BY <2>2, <2>3
  <2>6. before(i) \in [V -> Fractions] /\ after(i) \in [V -> Fractions]
    BY <1>4
  <2> HIDE DEF before, after, part
  <2>7. SumOf(part) = Times(T[i][c], SumOf(after(r)))
    BY <1>3, <2>1, <2>4, SumOfMultiples
  <2>8. SumOf(after(i)) = Minus(SumOf(before(i)), SumOf(part))
    BY <1>3, <2>4, <2>5, <2>6, SumOfDifferences
  <2> QED
    BY <1>4, <2>7, <2>8
<1> QED
  BY <1>5, <1>6 DEF U

\* How far row i is from being an equation.
Gap(T, i, v, n) == Minus(Dot(T, i, v), T[i][n])
Solves(T, i, v, n) == Dot(T, i, v) = T[i][n]

\* A row is solved when there is no gap.
LEMMA NoGap ==
  ASSUME NEW m \in Nat, NEW n \in Nat \ {0}, NEW T, Shaped(T, m, n),
         NEW V \in Places(n), NEW v \in [V -> Fractions], NEW i \in 0..m
  PROVE  Solves(T, i, v, n) <=> Gap(T, i, v, n) = Zero
<1>1. Dot(T, i, v) \in Fractions /\ T[i][n] \in Fractions
  BY DotType
<1> QED
  BY <1>1, NoDifference DEF Solves, Gap

\* Values that solve the pivot's row solve it after the pivot, and the other way round;
\* and no other row's gap changes for them.
LEMMA PivotedSolutions ==
  ASSUME NEW m \in Nat, NEW n \in Nat \ {0}, NEW T, Shaped(T, m, n),
         NEW r \in 0..m, NEW c \in 0..n, T[r][c][1] # 0,
         NEW V \in Places(n), NEW v \in [V -> Fractions]
  PROVE  /\ Solves(Pivoted(T, r, c), r, v, n) <=> Solves(T, r, v, n)
         /\ Solves(T, r, v, n) =>
              \A i \in 0..m : i # r => Gap(Pivoted(T, r, c), i, v, n) = Gap(T, i, v, n)
<1> DEFINE U == Pivoted(T, r, c)
<1>1. Shaped(U, m, n)
  BY PivotedEntries
<1>2. n \in 0..n /\ \A i \in 0..m, j \in 0..n : T[i][j] \in Fractions
  BY TableauParts
<1>3. /\ U[r][n] = Over(T[r][n], T[r][c])
      /\ \A i \in 0..m : i # r => U[i][n] = Minus(T[i][n], Times(T[i][c], U[r][n]))
  BY <1>2, PivotedEntries
<1>4. /\ Dot(T, r, v) = Times(T[r][c], Dot(U, r, v))
      /\ \A i \in 0..m : i # r => Dot(U, i, v) = Minus(Dot(T, i, v), Times(T[i][c], Dot(U, r, v)))
  BY PivotedDots
<1> HIDE DEF U
<1>5. /\ T[r][n] \in Fractions /\ T[r][c] \in Fractions
      /\ Dot(U, r, v) \in Fractions /\ U[r][n] \in Fractions
  BY <1>1, <1>2, DotType
<1>6. T[r][n] = Times(T[r][c], U[r][n])
  BY <1>3, <1>5, TimesOver
<1>7. Dot(U, r, v) = U[r][n] <=> Dot(T, r, v) = T[r][n]
  BY <1>4, <1>5, <1>6, FactorOut
<1>8. ASSUME Dot(U, r, v) = U[r][n], NEW i \in 0..m, i # r
      PROVE  Gap(U, i, v, n) = Gap(T, i, v, n)
  <2> DEFINE t == Times(T[i][c], U[r][n])
  <2>1. /\ T[i][c] \in Fractions /\ T[i][n] \in Fractions /\ Dot(T, i, v) \in Fractions
    BY <1>2, DotType
  <2>2. t \in Fractions
    BY <1>5, <2>1, TimesValue
  <2>3. U[i][n] = Minus(T[i][n], t) /\ Dot(U, i, v) = Minus(Dot(T, i, v), t)
    BY <1>3, <1>4, <1>8
  <2> HIDE DEF t
  <2> QED
    BY <2>1, <2>2, <2>3, DifferenceShifted DEF Gap
<1> QED
  BY <1>7, <1>8 DEF Solves, U

\* A pivot makes a unit column of its own, and keeps those of the other rows.
LEMMA PivotedUnits ==
  ASSUME NEW m \in Nat, NEW n \in Nat \ {0}, NEW T, Shaped(T, m, n),
         NEW r \in 0..m, NEW c \in 0..n, T[r][c][1] # 0
  PROVE  /\ UnitColumn(Pivoted(T, r, c), c, r)
         /\ \A j \in 0..n, k \in 0..m :
              k # r /\ UnitColumn(T, j, k) => UnitColumn(Pivoted(T, r, c), j, k)
<1> DEFINE U == Pivoted(T, r, c)
<1>1. Shaped(U, m, n)
  BY PivotedEntries
<1>2. /\ Rows(T) = 0..m /\ \A i \in 0..m, j \in 0..n : T[i][j] \in Fractions
  BY TableauParts
<1>3. /\ \A j \in 0..n : U[r][j] = Over(T[r][j], T[r][c])
      /\ \A i \in 0..m, j \in 0..n : i # r =>
           U[i][j] = Minus(T[i][j], Times(T[i][c], Over(T[r][j], T[r][c])))
  BY PivotedEntries
<1> HIDE DEF U
<1>4. Rows(U) = 0..m
  BY <1>1, TableauParts
<1>5. T[r][c] \in Fractions
  BY <1>2
<1>6. UnitColumn(U, c, r)
  <2>1. U[r][c] = One
    BY <1>3, <1>5, UnitLaws
  <2>2. ASSUME NEW i \in 0..m, i # r PROVE U[i][c] = Zero
    <3>1. T[i][c] \in Fractions /\ Over(T[r][c], T[r][c]) = One
      BY <1>2, <1>5, UnitLaws
    <3>2. U[i][c] = Minus(T[i][c], Times(T[i][c], One))
      BY <1>3, <2>2, <3>1
    <3> QED
      BY <3>1, <3>2, UnitLaws
  <2> QED
    BY <1>4, <2>1, <2>2 DEF UnitColumn
<1>7. ASSUME NEW j \in 0..n, NEW k \in 0..m, k # r, UnitColumn(T, j, k)
      PROVE  UnitColumn(U, j, k)
  <2>1. T[r][j] = Zero /\ \A i \in 0..m : T[i][j] = IF i = k THEN One ELSE Zero
    BY <1>2, <1>7 DEF UnitColumn
  <2>2. Over(T[r][j], T[r][c]) = Zero
    BY <1>5, <2>1, UnitLaws
  <2>3. U[r][j] = Zero
    BY <1>3, <2>2
  <2>4. ASSUME NEW i \in 0..m, i # r PROVE U[i][j] = T[i][j]
    <3>1. T[i][c] \in Fractions /\ T[i][j] \in Fractions
      BY <1>2
    <3>2. U[i][j] = Minus(T[i][j], Times(T[i][c], Zero))
      BY <1>3, <2>2, <2>4
    <3> QED
      BY <3>1, <3>2, UnitLaws
  <2>5. ASSUME NEW i \in 0..m PROVE U[i][j] = IF i = k THEN One ELSE Zero
    <3>1. CASE i = r
      BY <1>7, <2>3, <3>1
    <3>2. CASE i # r
      BY <2>1, <2>4, <3>2
    <3> QED
      BY <3>1, <3>2
  <2> QED
    BY <1>4, <2>5 DEF UnitColumn
<1> QED
  BY <1>6, <1>7 DEF U

HasUnit(T, n, k) == \E j \in 0..(n - 1) : UnitColumn(T, j, k)

\* What solves the rows of P solves those of F, and the other rows stand as far
\* from being equations as in F.
LeadsBack(F, T, P, m, n) ==
  \A V \in Places(n) : \A v \in [V -> Fractions] :
    (\A k \in P : Solves(T, k, v, n)) =>
      /\ \A k \in P : Solves(F, k, v, n)
      /\ \A i \in (0..m) \ P : Gap(F, i, v, n) = Gap(T, i, v, n)

\* What solves all rows of F solves all of T, and the objective is worth the same.
Follows(F, T, m, n) ==
  \A V \in Places(n) : \A v \in [V -> Fractions] :
    (\A k \in 1..m : Solves(F, k, v, n)) =>
      /\ \A k \in 1..m : Solves(T, k, v, n)
      /\ Gap(T, 0, v, n) = Gap(F, 0, v, n)

\* The rows of P have been pivoted on, or had a slack variable to begin with.
SoundFor(F, T, P, m, n) ==
  /\ \A k \in 1..m : HasUnit(F, n, k) => k \in P
  /\ \A k \in P : HasUnit(T, n, k)
  /\ LeadsBack(F, T, P, m, n)
  /\ Follows(F, T, m, n)

Sound(F, T, m, n) == \E P \in SUBSET (1..m) : SoundFor(F, T, P, m, n)

\* A tableau is sound for itself.
LEMMA FileSound ==
  ASSUME NEW m \in Nat, NEW n \in Nat \ {0}, NEW F
  PROVE  Sound(F, F, m, n)
<1> DEFINE P == {k \in 1..m : HasUnit(F, n, k)}
<1>1. P \in SUBSET (1..m)
  OBVIOUS
<1>2. (\A k \in 1..m : HasUnit(F, n, k) => k \in P) /\ (\A k \in P : HasUnit(F, n, k))
  OBVIOUS
<1>3. LeadsBack(F, F, P, m, n)
  BY DEF LeadsBack
<1>4. Follows(F, F, m, n)
  BY DEF Follows
<1> HIDE DEF P
<1> QED
  BY <1>1, <1>2, <1>3, <1>4 DEF Sound, SoundFor

\* A pivot of a constraint, on an entry that is not zero, keeps it sound.
LEMMA PivotSound ==
  ASSUME NEW m \in Nat, NEW n \in Nat \ {0}, NEW F, Shaped(F, m, n),
         NEW T, Shaped(T, m, n), Sound(F, T, m, n),
         NEW r \in 1..m, NEW c \in 0..(n - 1), T[r][c][1] # 0
  PROVE  Sound(F, Pivoted(T, r, c), m, n)
<1>1. PICK P \in SUBSET (1..m) : SoundFor(F, T, P, m, n)
  BY DEF Sound
<1>2. r \in 0..m /\ c \in 0..n /\ 0 \in 0..m /\ r # 0 /\ \A k \in 1..m : k \in 0..m
  OBVIOUS
<1> DEFINE U == Pivoted(T, r, c)
           Q == P \union {r}
<1>3. Shaped(U, m, n)
  BY <1>2, PivotedEntries
<1>4. Q \in SUBSET (1..m) /\ \A k \in 1..m : HasUnit(F, n, k) => k \in Q
  BY <1>1 DEF SoundFor
<1>5. ASSUME NEW k \in Q PROVE HasUnit(U, n, k)
  <2>1. CASE k = r
    <3>1. UnitColumn(U, c, r)
      BY <1>2, PivotedUnits
    <3> HIDE DEF U
    <3> QED
      BY <2>1, <3>1 DEF HasUnit
  <2>2. CASE k # r
    <3>1. PICK j \in 0..(n - 1) : UnitColumn(T, j, k)
      BY <1>1, <2>2 DEF SoundFor, HasUnit
    <3>2. j \in 0..n /\ k \in 0..m
      BY <1>2, <1>4
    <3>3. UnitColumn(U, j, k)
      BY <1>2, <2>2, <3>1, <3>2, PivotedUnits
    <3> HIDE DEF U
    <3> QED
      BY <3>3 DEF HasUnit
  <2> QED
    BY <2>1, <2>2
<1>6. ASSUME NEW V \in Places(n), NEW v \in [V -> Fractions]
      PROVE  /\ Solves(U, r, v, n) <=> Solves(T, r, v, n)
             /\ Solves(T, r, v, n) => \A i \in 0..m : i # r =>
                  /\ Gap(U, i, v, n) = Gap(T, i, v, n)
                  /\ Solves(U, i, v, n) <=> Solves(T, i, v, n)
  <2>1. /\ Solves(U, r, v, n) <=> Solves(T, r, v, n)
        /\ Solves(T, r, v, n) =>
             \A i \in 0..m : i # r => Gap(U, i, v, n) = Gap(T, i, v, n)
    BY <1>2, PivotedSolutions
  <2> HIDE DEF U
  <2>2. \A i \in 0..m : /\ Solves(U, i, v, n) <=> Gap(U, i, v, n) = Zero
                        /\ Solves(T, i, v, n) <=> Gap(T, i, v, n) = Zero
    BY <1>3, NoGap
  <2> QED
    BY <2>1, <2>2
<1> HIDE DEF U
<1>7. LeadsBack(F, U, Q, m, n)
  <2> SUFFICES ASSUME NEW V \in Places(n), NEW v \in [V -> Fractions],
                      \A k \in Q : Solves(U, k, v, n)
               PROVE  /\ \A k \in Q : Solves(F, k, v, n)
                      /\ \A i \in (0..m) \ Q : Gap(F, i, v, n) = Gap(U, i, v, n)
    BY DEF LeadsBack
  <2>1. Solves(T, r, v, n)
    BY <1>6
  <2>2. \A k \in P : Solves(T, k, v, n)
    BY <1>2, <1>6, <2>1
  <2>3. /\ \A k \in P : Solves(F, k, v, n)
        /\ \A i \in (0..m) \ P : Gap(F, i, v, n) = Gap(T, i, v, n)
    BY <1>1, <2>2 DEF SoundFor, LeadsBack
  <2>4. Solves(F, r, v, n)
    <3>1. CASE r \in P
      BY <2>3, <3>1
    <3>2. CASE r \notin P
      <4>1. Gap(F, r, v, n) = Gap(T, r, v, n)
        BY <1>2, <2>3, <3>2
      <4> QED
        BY <1>2, <2>1, <4>1, NoGap
    <3> QED
      BY <3>1, <3>2
  <2>5. ASSUME NEW i \in (0..m) \ Q PROVE Gap(F, i, v, n) = Gap(U, i, v, n)
    BY <1>6, <2>1, <2>3
  <2> QED
    BY <2>3, <2>4, <2>5
<1>8. Follows(F, U, m, n)
  <2> SUFFICES ASSUME NEW V \in Places(n), NEW v \in [V -> Fractions],
                      \A k \in 1..m : Solves(F, k, v, n)
               PROVE  /\ \A k \in 1..m : Solves(U, k, v, n)
                      /\ Gap(U, 0, v, n) = Gap(F, 0, v, n)
    BY DEF Follows
  <2>1. /\ \A k \in 1..m : Solves(T, k, v, n)
        /\ Gap(T, 0, v, n) = Gap(F, 0, v, n)
    BY <1>1 DEF SoundFor, Follows
  <2> QED
    BY <1>2, <1>6, <2>1
<1> HIDE DEF Q
<1>9. SoundFor(F, U, Q, m, n)
  BY <1>4, <1>5, <1>7, <1>8 DEF SoundFor
<1> QED
  BY <1>4, <1>9 DEF Sound, U
-----------------------------------------------------------------------------
(* What the programs store.                                                 *)

\* The original solver's copy of store_soln() writes what this one does.
LEMMA OriginalStores ==
  ASSUME NEW T
  PROVE  Original!store_soln(T) = store_soln(T)
<1>1. ASSUME NEW f
      PROVE  Original!FoldFunction(Original!Plus, Original!Zero, f) = FoldFunction(Plus, Zero, f)
  BY Zenon DEF Original!FoldFunction, FoldFunction, Original!FoldFunctionOnSet, FoldFunctionOnSet,
    Original!MapThenFoldSet, MapThenFoldSet, Original!Plus, Plus, Original!Zero, Zero,
    Original!Fraction, Fraction, Original!gcd, gcd, Original!Size, Size
<1>2. Original!One = One /\ Original!Outside = Outside
  BY DEF Original!One, One, Original!Outside, Outside
<1>3. ASSUME NEW S PROVE Original!Max(S) = Max(S)
  BY Zenon DEF Original!Max, Max
<1>4. ASSUME NEW j PROVE Original!Basic(T, j) <=> Basic(T, j)
  BY Zenon, <1>1, <1>2, OriginalTerms DEF Original!Basic, Basic
<1>5. ASSUME NEW j PROVE Original!Value(T, j) = Value(T, j)
  BY Zenon, <1>2, <1>3, <1>4, OriginalTerms DEF Original!Value, Value
<1> QED
  BY Zenon, <1>5, OriginalTerms DEF Original!store_soln, store_soln

\* What the repaired solver has in the end: a tableau with the solutions of the file, what
\* store_soln() makes of it, and no negative cost unless a column was left without a row.
EndInv(m, n) ==
  /\ A # <<>> => Sound(file, A, m, n)
  /\ pc = "stored" => A # <<>> /\ outfile = store_soln(A)
  /\ pc \in {"no column", "stored"} /\ flag_soln => \A j \in 0..n : ~Negative(A[0][j])

\* And the original one.
OriginalEndInv(m, n) ==
  /\ A_o # <<>> => Sound(file, A_o, m, n)
  /\ pc_o = "stored" => A_o # <<>> /\ outfile_o = store_soln(A_o)
  /\ pc_o \in {"left", "stored"} /\ flag_soln_o => \A j \in 0..n : ~Negative(A_o[0][j])

SomeEnd ==
  \E m \in Nat, n \in Nat \ {0} : SolversInv(m, n) /\ EndInv(m, n) /\ OriginalEndInv(m, n)

\* It holds when the programs begin.
LEMMA EndStart == SolversInit => SomeEnd
<1> SUFFICES ASSUME SolversInit PROVE SomeEnd
  OBVIOUS
<1>1. PICK m \in Nat, n \in Nat \ {0} : SolversInv(m, n)
  BY SolversStart DEF SomeInv
<1>2. A = <<>> /\ pc = "start" /\ A_o = <<>> /\ pc_o = "start"
  BY DEF SolversInit, FixedInit, Original!Init
<1>3. EndInv(m, n) /\ OriginalEndInv(m, n)
  BY <1>2 DEF EndInv, OriginalEndInv
<1> QED
  BY <1>1, <1>3 DEF SomeEnd

\* The steps of the repaired solver keep it.
LEMMA FixedKeepsEnd ==
  ASSUME NEW m \in Nat, NEW n \in Nat \ {0}, SolversInv(m, n), EndInv(m, n),
         FixedNext, file' = file
  PROVE  EndInv(m, n)'
<1>0. /\ FileInv(m, n) /\ FeasibleInv(m, n) /\ PassedInv(m, n) /\ CycleInv(m, n)
      /\ Shaped(file, m, n)
  BY DEF SolversInv, FileInv
<1>1. CASE Load
  <2>1. pc' \in {"loop", "failed"} /\ (A' = file \/ A' = A)
    BY <1>1 DEF Load
  <2>2. Sound(file, file, m, n)
    BY FileSound
  <2>3. A' # <<>> => Sound(file', A', m, n)
    BY <2>1, <2>2 DEF EndInv
  <2> QED
    BY <2>1, <2>3 DEF EndInv
<1>2. CASE NoColumn
  <2>1. pc = "loop" /\ col = None /\ pc' = "no column" /\ A' = A /\ flag_soln' = flag_soln
    BY <1>2 DEF NoColumn
  <2>2. \A j \in 0..n : Negative(A[0][j]) => j <= prev_fail_pivot_col_idx
    BY <1>0, <2>1, ChosenTurn
  <2>3. flag_soln => \A j \in 0..n : ~Negative(A[0][j])
    BY <1>0, <2>2 DEF CycleInv, None
  <2> QED
    BY <2>1, <2>3 DEF EndInv
<1>3. CASE CycleDetected \/ NoRow
  <2>1. pc' \in {"loop", "cycle"} /\ A' = A
    BY <1>3 DEF CycleDetected, NoRow
  <2> QED
    BY <2>1 DEF EndInv
<1>4. CASE Pivot
  <2>1. pc = "loop" /\ col # None /\ row # None /\ pc' = pc /\ A' = Pivoted(A, row, col)
    BY <1>4 DEF Pivot
  <2>2. /\ Shaped(A, m, n) /\ col \in 0..n /\ col # n /\ row \in 1..m /\ Positive(A[row][col])
    BY <1>0, <2>1, ChosenTurn
  <2> HIDE DEF col, row
  <2>3. A[row][col][1] # 0 /\ col \in 0..(n - 1)
    BY <2>2 DEF Positive
  <2>4. Sound(file, A, m, n)
    BY <1>0, <2>1 DEF EndInv, FeasibleInv
  <2>5. Sound(file', A', m, n)
    BY <1>0, <2>1, <2>2, <2>3, <2>4, PivotSound
  <2> QED
    BY <2>1, <2>5 DEF EndInv
<1>5. CASE Store
  <2>1. /\ pc \in {"no column", "cycle"} /\ A' = A /\ flag_soln' = flag_soln
        /\ \/ outfile' = store_soln(A) /\ pc' = "stored"
           \/ outfile' = outfile /\ pc' = "failed"
    BY <1>5 DEF Store
  <2>2. A # <<>> /\ (flag_soln => pc # "cycle")
    BY <1>0, <2>1 DEF FeasibleInv, CycleInv
  <2>3. flag_soln => \A j \in 0..n : ~Negative(A[0][j])
    BY <2>1, <2>2 DEF EndInv
  <2> QED
    BY <2>1, <2>2, <2>3 DEF EndInv
<1> QED
  BY <1>1, <1>2, <1>3, <1>4, <1>5 DEF FixedNext

\* So do those of the original one.
LEMMA OriginalKeepsEnd ==
  ASSUME NEW m \in Nat, NEW n \in Nat \ {0}, SolversInv(m, n), OriginalEndInv(m, n),
         Original!Next, file' = file
  PROVE  OriginalEndInv(m, n)'
<1>0. FileInv(m, n) /\ OriginalInv(m, n) /\ Shaped(file, m, n)
  BY DEF SolversInv, FileInv
<1>1. CASE Original!Load
  <2>1. pc_o' \in {"loop", "failed"} /\ (A_o' = file \/ A_o' = A_o)
    BY <1>1 DEF Original!Load
  <2>2. Sound(file, file, m, n)
    BY FileSound
  <2>3. A_o' # <<>> => Sound(file', A_o', m, n)
    BY <2>1, <2>2 DEF OriginalEndInv
  <2> QED
    BY <2>1, <2>3 DEF OriginalEndInv
<1>2. CASE Original!NoColumn
  <2>1. pc_o = "loop" /\ Original!col = None /\ pc_o' = "left" /\ A_o' = A_o
    BY <1>2, OriginalTerms DEF Original!NoColumn
  <2>2. \A j \in 0..n : ~Negative(A_o[0][j])
    BY <1>0, <2>1, OriginalTurn
  <2> QED
    BY <2>1, <2>2 DEF OriginalEndInv
<1>3. CASE Original!NoRow
  <2>1. pc_o' = "left" /\ A_o' = A_o /\ flag_soln_o' = FALSE
    BY <1>3 DEF Original!NoRow
  <2> QED
    BY <2>1 DEF OriginalEndInv
<1>4. CASE Original!Pivot
  <2> DEFINE c == Original!col
             r == Original!row
  <2>1. /\ pc_o = "loop" /\ Original!col # None /\ Original!row # None /\ pc_o' = pc_o
        /\ A_o' = Pivoted(A_o, Original!row, Original!col)
    BY <1>4, OriginalTerms DEF Original!Pivot
  <2>2. Shaped(A_o, m, n) /\ c \in 0..n /\ c # n /\ r \in 1..m /\ A_o[r][c][1] # 0
    BY <1>0, <2>1, OriginalTurn
  <2>3. A_o' = Pivoted(A_o, r, c)
    BY <2>1
  <2> HIDE DEF c, r
  <2>4. c \in 0..(n - 1)
    BY <2>2
  <2>5. Sound(file, A_o, m, n)
    BY <1>0, <2>1 DEF OriginalEndInv, OriginalInv
  <2>6. Sound(file', A_o', m, n)
    BY <1>0, <2>2, <2>3, <2>4, <2>5, PivotSound
  <2> QED
    BY <2>1, <2>6 DEF OriginalEndInv
<1>5. CASE Original!Store
  <2>1. /\ pc_o = "left" /\ A_o' = A_o /\ flag_soln_o' = flag_soln_o
        /\ \/ outfile_o' = store_soln(A_o) /\ pc_o' = "stored"
           \/ outfile_o' = outfile_o /\ pc_o' = "failed"
    BY <1>5, OriginalStores DEF Original!Store, Original!solution
  <2>2. A_o # <<>>
    BY <1>0, <2>1 DEF OriginalInv
  <2> QED
    BY <2>1, <2>2 DEF OriginalEndInv
<1> QED
  BY <1>1, <1>2, <1>3, <1>4, <1>5 DEF Original!Next

\* The invariant of the benchmark, with its end.
LEMMA EndInvariant == SolversSpec => []SomeEnd
<1>1. SomeEnd /\ [SolversNext]_solvers_vars => SomeEnd'
  <2> SUFFICES ASSUME SomeEnd, [SolversNext]_solvers_vars PROVE SomeEnd'
    OBVIOUS
  <2>1. PICK m \in Nat, n \in Nat \ {0} :
           SolversInv(m, n) /\ EndInv(m, n) /\ OriginalEndInv(m, n)
    BY DEF SomeEnd
  <2>2. SolversInv(m, n)'
    BY <2>1, SolversStep
  <2>3. ASSUME file' = file, UNCHANGED fixed_vars PROVE EndInv(m, n)'
    BY <2>1, <2>3 DEF fixed_vars, EndInv
  <2>4. ASSUME file' = file, UNCHANGED original_vars PROVE OriginalEndInv(m, n)'
    BY <2>1, <2>4 DEF original_vars, OriginalEndInv
  <2>5. CASE FixedNext /\ UNCHANGED <<file, original_vars>>
    <3>1. EndInv(m, n)'
      BY <2>1, <2>5, FixedKeepsEnd
    <3> QED
      BY <2>2, <2>4, <2>5, <3>1 DEF SomeEnd
  <2>6. CASE Original!Next /\ UNCHANGED <<file, fixed_vars>>
    <3>1. OriginalEndInv(m, n)'
      BY <2>1, <2>6, OriginalKeepsEnd
    <3> QED
      BY <2>2, <2>3, <2>6, <3>1 DEF SomeEnd
  <2>7. CASE UNCHANGED solvers_vars
    <3>1. EndInv(m, n)' /\ OriginalEndInv(m, n)'
      BY <2>3, <2>4, <2>7 DEF solvers_vars
    <3> QED
      BY <2>2, <3>1 DEF SomeEnd
  <2> QED
    BY <2>5, <2>6, <2>7 DEF SolversNext
<1> QED
  BY <1>1, EndStart, PTL DEF SolversSpec

-----------------------------------------------------------------------------
(* What is read off a tableau.                                              *)

\* Values read off the unit columns solve the rows that have one, and the others come to
\* nothing.
LEMMA BasicValues ==
  ASSUME NEW m \in Nat, NEW n \in Nat \ {0}, NEW T, Shaped(T, m, n), NonNegative(T, m, n),
         NEW V \in Places(n), NEW v \in [V -> Fractions],
         \A j \in V : \/ \E k \in 1..m : UnitColumn(T, j, k) /\ v[j] = T[k][n]
                      \/ v[j] = Zero /\ \A k \in 1..m : ~UnitColumn(T, j, k),
         \A k \in 1..m : \A j, l \in V : UnitColumn(T, j, k) /\ UnitColumn(T, l, k) => j = l
  PROVE  /\ \A j \in V : ~Negative(v[j])
         /\ \A k \in 1..m : (\E j \in V : UnitColumn(T, j, k)) => Solves(T, k, v, n)
         /\ \A k \in 1..m : (\A j \in V : ~UnitColumn(T, j, k)) => Dot(T, k, v) = Zero
         /\ Dot(T, 0, v) = Zero
<1>1. /\ Rows(T) = 0..m /\ 0 \in 0..m /\ n \in 0..n
      /\ \A i \in 0..m, j \in 0..n : T[i][j] \in Fractions
  BY TableauParts
<1>2. ASSUME NEW j \in V PROVE ~Negative(v[j])
  <2>1. CASE v[j] = Zero
    BY <2>1, Units
  <2>2. CASE \E k \in 1..m : v[j] = T[k][n]
    BY <2>2 DEF NonNegative
  <2> QED
    BY <2>1, <2>2
<1> DEFINE f(i) == [j \in V |-> Times(v[j], T[i][j])]
<1>3. ASSUME NEW i \in 0..m
      PROVE  /\ IsFiniteSet(V) /\ f(i) \in [V -> Fractions] /\ Dot(T, i, v) = SumOf(f(i))
             /\ \A j \in V : f(i)[j] = Times(v[j], T[i][j])
             /\ \A j \in V : T[i][j] \in Fractions /\ v[j] \in Fractions
  BY DotType
<1>4. ASSUME NEW i \in 0..m, NEW j \in V, i = 0 \/ ~UnitColumn(T, j, i)
      PROVE  f(i)[j] = Zero
  <2>1. CASE v[j] = Zero
    BY <1>3, <2>1, UnitLaws
  <2>2. CASE \E k \in 1..m : UnitColumn(T, j, k)
    <3>1. PICK k \in 1..m : UnitColumn(T, j, k)
      BY <2>2
    <3>2. i # k
      BY <1>4, <3>1
    <3>3. T[i][j] = Zero
      BY <1>1, <3>1, <3>2 DEF UnitColumn
    <3>4. Times(v[j], Zero) = Zero
      BY <1>3, UnitLaws
    <3> HIDE DEF f
    <3> QED
      BY <1>3, <3>3, <3>4
  <2> QED
    BY <2>1, <2>2
<1>5. ASSUME NEW k \in 1..m, NEW j \in V, UnitColumn(T, j, k)
      PROVE  f(k)[j] = T[k][n] /\ \A l \in V : l # j => f(k)[l] = Zero
  <2>0. k \in 0..m
    OBVIOUS
  <2>1. T[k][j] = One /\ \A i \in 0..m : i # k => T[i][j] = Zero
    BY <1>1, <1>5, <2>0 DEF UnitColumn
  <2>2. v[j] = T[k][n]
    <3>1. PICK i \in 1..m : UnitColumn(T, j, i) /\ v[j] = T[i][n]
      BY <1>5
    <3>2. T[i][j] = One /\ i \in 0..m
      BY <1>1, <3>1 DEF UnitColumn
    <3> QED
      BY <2>1, <3>1, <3>2, Units
  <2>3. Times(v[j], One) = v[j]
    BY <1>3, <2>0, UnitLaws
  <2>4. f(k)[j] = Times(v[j], T[k][j])
    BY <1>3, <2>0
  <2>5. ASSUME NEW l \in V, l # j PROVE f(k)[l] = Zero
    <3>1. ~UnitColumn(T, l, k)
      BY <1>5, <2>5
    <3> HIDE DEF f
    <3> QED
      BY <1>4, <2>0, <3>1
  <2> HIDE DEF f
  <2> QED
    BY <2>1, <2>2, <2>3, <2>4, <2>5
<1> HIDE DEF f
<1>6. ASSUME NEW k \in 1..m, NEW j \in V, UnitColumn(T, j, k) PROVE Solves(T, k, v, n)
  <2>1. /\ IsFiniteSet(V) /\ f(k) \in [V -> Fractions] /\ Dot(T, k, v) = SumOf(f(k))
    BY <1>3
  <2>2. f(k)[j] = T[k][n] /\ \A l \in V : l # j => f(k)[l] = Zero
    BY <1>5, <1>6
  <2>3. SumOf(f(k)) = f(k)[j]
    BY <2>1, <2>2, SumOfOne
  <2> QED
    BY <2>1, <2>2, <2>3 DEF Solves
<1>7. ASSUME NEW i \in 0..m, \A j \in V : f(i)[j] = Zero PROVE Dot(T, i, v) = Zero
  <2>1. /\ IsFiniteSet(V) /\ f(i) \in [V -> Fractions] /\ Dot(T, i, v) = SumOf(f(i))
    BY <1>3
  <2>2. SumOf(f(i)) = IF 0 \in V THEN f(i)[0] ELSE Zero
    BY <1>7, <2>1, SumOfOne
  <2> QED
    BY <1>7, <2>1, <2>2
<1>8. ASSUME NEW k \in 1..m, \A j \in V : ~UnitColumn(T, j, k) PROVE Dot(T, k, v) = Zero
  <2>1. k \in 0..m
    OBVIOUS
  <2> QED
    BY <1>4, <1>7, <1>8, <2>1
<1>9. Dot(T, 0, v) = Zero
  BY <1>1, <1>4, <1>7
<1> QED
  BY <1>2, <1>6, <1>8, <1>9

\* Read off a sound tableau they satisfy the file's constraints, and the objective is theirs.
LEMMA BasicFeasible ==
  ASSUME NEW m \in Nat, NEW n \in Nat \ {0},
         NEW F, Shaped(F, m, n), F[0][n] = Zero,
         NEW T, Shaped(T, m, n), NonNegative(T, m, n), Sound(F, T, m, n),
         NEW V \in Places(n), NEW v \in [V -> Fractions],
         \A j \in V : \/ \E k \in 1..m : UnitColumn(T, j, k) /\ v[j] = T[k][n]
                      \/ v[j] = Zero /\ \A k \in 1..m : ~UnitColumn(T, j, k),
         \A k \in 1..m : \A j, l \in V : UnitColumn(T, j, k) /\ UnitColumn(T, l, k) => j = l,
         \A k \in 1..m : HasUnit(T, n, k) => \E j \in V : UnitColumn(T, j, k)
  PROVE  /\ \A j \in V : ~Negative(v[j])
         /\ \A i \in 1..m : ~Less(F[i][n], Dot(F, i, v))
         /\ \A k \in 1..m : HasUnit(F, n, k) => Solves(F, k, v, n)
         /\ Dot(F, 0, v) = Negated(T[0][n])
<1>1. /\ \A j \in V : ~Negative(v[j])
      /\ \A k \in 1..m : (\E j \in V : UnitColumn(T, j, k)) => Solves(T, k, v, n)
      /\ \A k \in 1..m : (\A j \in V : ~UnitColumn(T, j, k)) => Dot(T, k, v) = Zero
      /\ Dot(T, 0, v) = Zero
  BY BasicValues
<1>2. PICK P \in SUBSET (1..m) : SoundFor(F, T, P, m, n)
  BY DEF Sound
<1>3. \A k \in P : Solves(T, k, v, n)
  BY <1>1, <1>2 DEF SoundFor
<1>4. /\ \A k \in P : Solves(F, k, v, n)
      /\ \A i \in (0..m) \ P : Gap(F, i, v, n) = Gap(T, i, v, n)
  BY <1>2, <1>3 DEF SoundFor, LeadsBack
<1>5. \A i \in 0..m : /\ Dot(F, i, v) \in Fractions /\ F[i][n] \in Fractions
                      /\ Dot(T, i, v) \in Fractions /\ T[i][n] \in Fractions
  BY DotType
<1>6. ASSUME NEW i \in 1..m PROVE ~Less(F[i][n], Dot(F, i, v))
  <2>0. i \in 0..m
    OBVIOUS
  <2>1. CASE i \in P
    <3>1. Dot(F, i, v) = F[i][n]
      BY <1>4, <2>1 DEF Solves
    <3>2. F[i][n][1] * F[i][n][2] \in Int
      BY <1>5, <2>0, FractionFields
    <3> QED
      BY <3>1, <3>2 DEF Less
  <2>2. CASE i \notin P
    <3>1. Gap(F, i, v, n) = Minus(Dot(F, i, v), F[i][n])
      BY DEF Gap
    <3>2. Gap(F, i, v, n) = Minus(Dot(T, i, v), T[i][n])
      BY <1>4, <2>0, <2>2 DEF Gap
    <3>3. Dot(T, i, v) = T[i][n] \/ Dot(T, i, v) = Zero
      BY <1>1 DEF Solves
    <3>4. ~Positive(Minus(Dot(T, i, v), T[i][n]))
      <4>1. CASE Dot(T, i, v) = T[i][n]
        BY <1>5, <2>0, <4>1, UnitLaws, Units
      <4>2. CASE Dot(T, i, v) = Zero
        <5>1. Minus(Zero, T[i][n]) = Negated(T[i][n]) /\ ~Negative(T[i][n])
          BY <1>5, <2>0, UnitLaws DEF NonNegative
        <5>2. ~Positive(Negated(T[i][n]))
          BY <1>5, <2>0, <5>1, NegatedValue
        <5> QED
          BY <4>2, <5>1, <5>2
      <4> QED
        BY <3>3, <4>1, <4>2
    <3>5. Dot(F, i, v) \in Fractions /\ F[i][n] \in Fractions
      BY <1>5, <2>0
    <3>6. Positive(Minus(Dot(F, i, v), F[i][n])) <=> Less(F[i][n], Dot(F, i, v))
      BY Zenon, <3>5, MinusValue
    <3> QED
      BY Zenon, <3>1, <3>2, <3>4, <3>6
  <2> QED
    BY <2>1, <2>2
<1>7. Dot(F, 0, v) = Negated(T[0][n])
  <2>0. 0 \in 0..m /\ 0 \notin P
    OBVIOUS
  <2>1. Minus(Dot(F, 0, v), Zero) = Minus(Zero, T[0][n])
    BY <1>1, <1>4, <2>0 DEF Gap
  <2> QED
    BY <1>5, <2>0, <2>1, UnitLaws
<1> QED
  BY <1>1, <1>2, <1>4, <1>6, <1>7 DEF SoundFor

-----------------------------------------------------------------------------
(* Both programs find the same optimum.                                     *)

\* When what is not negative exceeds y by the opposite of x, y is not below x.
LEMMA DifferenceOpposite ==
  ASSUME NEW d \in Fractions, NEW x \in Fractions, NEW y \in Fractions,
         ~Negative(d), Minus(d, y) = Negated(x)
  PROVE  ~Less(y, x)
<1>1. PICK a \in Int, b \in Nat \ {0} : a = d[1] /\ b = d[2]
  BY FractionFields
<1>2. PICK c \in Int, e \in Nat \ {0} : c = y[1] /\ e = y[2]
  BY FractionFields
<1>3. PICK p \in Int, q \in Nat \ {0} : p = x[1] /\ q = x[2]
  BY FractionFields
<1>4. b * e \in Nat \ {0} /\ a * e - c * b \in Int /\ a \in Nat
  BY <1>1, PositiveProduct DEF Negative
<1>5. Minus(d, y) = Fraction(a * e - c * b, b * e)
  BY <1>1, <1>2 DEF Minus
<1>6. Fraction(a * e - c * b, b * e)[1] * (b * e)
        = (a * e - c * b) * Fraction(a * e - c * b, b * e)[2]
  BY <1>4, FractionValue
<1>7. Negated(x)[1] = -p /\ Negated(x)[2] = q
  BY <1>3 DEF Negated
<1>8. (-p) * (b * e) = (a * e - c * b) * q
  BY <1>5, <1>6, <1>7
<1>9. ASSUME c * q < p * e PROVE FALSE
  <2>1. (a * e - c * b) * q + p * (b * e) = (a * e) * q + b * (p * e - c * q)
    OBVIOUS
  <2>2. (-p) * (b * e) = -(p * (b * e))
    OBVIOUS
  <2>3. p * e - c * q \in Nat \ {0}
    BY <1>9
  <2>4. b * (p * e - c * q) \in Nat \ {0}
    BY <2>3, PositiveProduct
  <2>5. (a * e) * q \in Nat
    BY <1>4
  <2>6. (a * e - c * b) * q \in Int /\ p * (b * e) \in Int
    OBVIOUS
  <2> QED
    BY <1>8, <2>1, <2>2, <2>4, <2>5, <2>6
<1> QED
  BY <1>2, <1>3, <1>9 DEF Less

\* Of two sound tableaux with a unit column for each constraint, one without a negative
\* cost has at least the other's objective: what is read off the other solves its rows.
LEMMA NoBetter ==
  ASSUME NEW m \in Nat, NEW n \in Nat \ {0},
         NEW F, Shaped(F, m, n), F[0][n] = Zero, \A k \in 1..m : HasUnit(F, n, k),
         NEW T, Shaped(T, m, n), NonNegative(T, m, n), Sound(F, T, m, n),
         NEW U, Shaped(U, m, n), Sound(F, U, m, n), \A j \in 0..n : ~Negative(U[0][j])
  PROVE  ~Less(U[0][n], T[0][n])
<1>1. PICK P \in SUBSET (1..m) : SoundFor(F, T, P, m, n)
  BY DEF Sound
<1>2. P = 1..m /\ \A k \in 1..m : HasUnit(T, n, k)
  BY <1>1 DEF SoundFor
<1>3. /\ Rows(T) = 0..m /\ n \in 0..n /\ 0 \in 0..m
      /\ \A i \in 0..m, j \in 0..n : T[i][j] \in Fractions /\ U[i][j] \in Fractions
  BY TableauParts
<1> DEFINE place == [k \in 1..m |-> CHOOSE j \in 0..(n - 1) : UnitColumn(T, j, k)]
           V == {place[k] : k \in 1..m}
           of(j) == CHOOSE k \in 1..m : UnitColumn(T, j, k)
           v == [j \in V |-> T[of(j)][n]]
<1>4. \A k \in 1..m : place[k] \in 0..(n - 1) /\ UnitColumn(T, place[k], k)
  BY <1>2 DEF HasUnit
<1> HIDE DEF place
<1>5. \A j, k, l : k \in 1..m /\ l \in 1..m /\ UnitColumn(T, j, k) /\ UnitColumn(T, j, l) => k = l
  <2>1. \A k \in 1..m : k \in 0..m
    OBVIOUS
  <2> QED
    BY <1>3, <2>1, Units DEF UnitColumn
<1>6. V \in Places(n)
  BY <1>4 DEF Places
<1>7. \A j \in V : of(j) \in 1..m /\ UnitColumn(T, j, of(j)) /\ j = place[of(j)]
  <2>1. ASSUME NEW k \in 1..m
        PROVE  of(place[k]) \in 1..m /\ UnitColumn(T, place[k], of(place[k]))
    BY <1>4
  <2>2. \A k \in 1..m : of(place[k]) = k
    <3> HIDE DEF of
    <3> QED
      BY <1>4, <1>5, <2>1
  <2> HIDE DEF of
  <2> QED
    BY <2>1, <2>2
<1> HIDE DEF of, V
<1>8. v \in [V -> Fractions] /\ \A j \in V : v[j] = T[of(j)][n]
  BY <1>3, <1>7
<1> HIDE DEF v
<1>9. \A j \in V : \E k \in 1..m : UnitColumn(T, j, k) /\ v[j] = T[k][n]
  BY <1>7, <1>8
<1>10. ASSUME NEW k \in 1..m, NEW j \in V, NEW l \in V, UnitColumn(T, j, k), UnitColumn(T, l, k)
       PROVE  j = l
  BY <1>5, <1>7, <1>10
<1>11. \A k \in 1..m : \E j \in V : UnitColumn(T, j, k)
  BY <1>4 DEF V
<1>12. /\ \A j \in V : ~Negative(v[j])
       /\ \A k \in 1..m : Solves(F, k, v, n)
       /\ Dot(F, 0, v) = Negated(T[0][n])
  <2>1. /\ \A j \in V : \/ \E k \in 1..m : UnitColumn(T, j, k) /\ v[j] = T[k][n]
                        \/ v[j] = Zero /\ \A k \in 1..m : ~UnitColumn(T, j, k)
        /\ \A k \in 1..m : \A j, l \in V : UnitColumn(T, j, k) /\ UnitColumn(T, l, k) => j = l
        /\ \A k \in 1..m : HasUnit(T, n, k) => \E j \in V : UnitColumn(T, j, k)
    BY <1>9, <1>10, <1>11
  <2>2. /\ \A j \in V : ~Negative(v[j])
        /\ \A k \in 1..m : HasUnit(F, n, k) => Solves(F, k, v, n)
        /\ Dot(F, 0, v) = Negated(T[0][n])
    BY <1>6, <1>8, <2>1, BasicFeasible
  <2> QED
    BY <2>2
<1>13. Gap(U, 0, v, n) = Gap(F, 0, v, n)
  <2>1. Follows(F, U, m, n)
    BY DEF Sound, SoundFor
  <2> QED
    BY <1>6, <1>8, <1>12, <2>1 DEF Follows
<1> DEFINE x == T[0][n]
           y == U[0][n]
           d == Dot(U, 0, v)
<1>14. x \in Fractions /\ y \in Fractions /\ d \in Fractions
  BY <1>3, <1>6, <1>8, DotType
<1>15. Minus(d, y) = Negated(x)
  <2>1. Minus(d, y) = Minus(Negated(x), Zero)
    BY <1>12, <1>13 DEF Gap
  <2>2. Negated(x) \in Fractions
    BY <1>14, NegatedValue
  <2> HIDE DEF x, y, d
  <2> QED
    BY <2>1, <2>2, UnitLaws
<1>16. ~Negative(d)
  <2> DEFINE f == [j \in V |-> Times(v[j], U[0][j])]
  <2>1. IsFiniteSet(V) /\ f \in [V -> Fractions] /\ d = SumOf(f)
    BY <1>3, <1>6, <1>8, DotType
  <2>2. ASSUME NEW j \in V PROVE ~Negative(f[j])
    <3>1. /\ v[j] \in Fractions /\ ~Negative(v[j]) /\ U[0][j] \in Fractions
          /\ ~Negative(U[0][j])
      BY <1>3, <1>6, <1>8, <1>12 DEF Places
    <3>2. ~Negative(Times(v[j], U[0][j]))
      <4>1. CASE Positive(v[j])
        BY <3>1, <4>1, TimesValue
      <4>2. CASE v[j][1] = 0
        BY <3>1, <4>2, TimesValue DEF Negative
      <4> QED
        BY <3>1, <4>1, <4>2, FractionFields DEF Positive, Negative
    <3> QED
      BY <3>2
  <2> HIDE DEF f, d
  <2> QED
    BY <2>1, <2>2, SumNotNegative
<1> HIDE DEF x, y, d
<1>17. ~Less(y, x)
  BY <1>14, <1>15, <1>16, DifferenceOpposite
<1> QED
  BY <1>17 DEF x, y

\* For every file with a slack variable in each constraint: the right-hand side of the
\* objective that the repaired program stores is the one that the original stores, when
\* neither has met a column without a row; each stops at a feasible tableau of the file's
\* equations in which no cost is negative.
THEOREM SameOptimumFound == SolversSpec => []SameOptimum
<1>1. SomeEnd => SameOptimum
  <2> SUFFICES ASSUME SomeEnd, pc = "stored", pc_o = "stored", flag_soln, flag_soln_o,
                      HasSlacks(file)
               PROVE  outfile[RHS(file)] = outfile_o[RHS(file)]
    BY DEF SameOptimum
  <2>1. PICK m \in Nat, n \in Nat \ {0} :
           SolversInv(m, n) /\ EndInv(m, n) /\ OriginalEndInv(m, n)
    BY DEF SomeEnd
  <2>2. Shaped(file, m, n) /\ file[0][n] = Zero
    BY <2>1 DEF SolversInv, FileInv
  <2>3. /\ A # <<>> /\ Sound(file, A, m, n) /\ outfile = store_soln(A)
        /\ \A j \in 0..n : ~Negative(A[0][j])
    BY <2>1 DEF EndInv
  <2>4. /\ A_o # <<>> /\ Sound(file, A_o, m, n) /\ outfile_o = store_soln(A_o)
        /\ \A j \in 0..n : ~Negative(A_o[0][j])
    BY <2>1 DEF OriginalEndInv
  <2>5. Shaped(A, m, n) /\ NonNegative(A, m, n)
    BY <2>1, <2>3 DEF SolversInv, FeasibleInv
  <2>6. Shaped(A_o, m, n) /\ NonNegative(A_o, m, n)
    BY <2>1, <2>4 DEF SolversInv, OriginalInv
  <2>7. /\ Constraints(file) = 1..m /\ RHS(file) = n /\ Columns(file) = 0..n
        /\ RHS(A) = n /\ Columns(A) = 0..n /\ RHS(A_o) = n /\ Columns(A_o) = 0..n
        /\ n \in 0..n /\ 0 \in 0..m
        /\ A[0][n] \in Fractions /\ A_o[0][n] \in Fractions
    BY <2>2, <2>5, <2>6, TableauParts
  <2>8. \A k \in 1..m : HasUnit(file, n, k)
    <3>1. (0..n) \ {n} = 0..(n - 1)
      OBVIOUS
    <3> QED
      BY <2>7, <3>1 DEF HasSlacks, HasUnit
  <2>9. ~Less(A[0][n], A_o[0][n]) /\ ~Less(A_o[0][n], A[0][n])
    BY <2>2, <2>3, <2>4, <2>5, <2>6, <2>8, NoBetter
  <2>10. A[0][n] = A_o[0][n]
    BY <2>7, <2>9, EqualValues
  <2>11. outfile[n] = A[0][n] /\ outfile_o[n] = A_o[0][n]
    BY <2>3, <2>4, <2>7 DEF store_soln
  <2> QED
    BY <2>7, <2>10, <2>11
<1> QED
  BY <1>1, EndInvariant, PTL

-----------------------------------------------------------------------------
(* The three ways to tell a basic column.                                   *)

\* Values read off the unit columns of the final tableau are feasible, when each constraint
\* has at most one.
LEMMA ReadFeasible ==
  ASSUME NEW m \in Nat, NEW n \in Nat \ {0}, SolversInv(m, n), EndInv(m, n), A # <<>>,
         \A j, k \in Columns(A) \ {RHS(A)} :
           \A r \in Constraints(A) : UnitColumn(A, j, r) /\ UnitColumn(A, k, r) => j = k,
         NEW values,
         \A j \in Variables : \/ \E k \in 1..m : UnitColumn(A, j, k) /\ values[j] = A[k][n]
                              \/ values[j] = Zero /\ \A k \in 1..m : ~UnitColumn(A, j, k)
  PROVE  Feasible(values)
<1>1. /\ Shaped(file, m, n) /\ file[0][n] = Zero
      /\ Shaped(A, m, n) /\ NonNegative(A, m, n) /\ Sound(file, A, m, n)
  BY DEF SolversInv, FileInv, FeasibleInv, EndInv
<1>2. /\ Constraints(file) = 1..m /\ RHS(file) = n
      /\ Rows(A) = 0..m /\ Constraints(A) = 1..m /\ RHS(A) = n /\ Columns(A) = 0..n
      /\ \A i \in 0..m, j \in 0..n : A[i][j] \in Fractions
  BY <1>1, TableauParts
<1>3. (0..n) \ {n} = 0..(n - 1) /\ n \in 0..n /\ 0 \in 0..m /\ \A k \in 1..m : k \in 0..m /\ k # 0
  OBVIOUS
<1>4. Columns(A) \ {RHS(A)} = 0..(n - 1)
  BY <1>2, <1>3
<1>5. Variables \in Places(n) /\ \A j \in 0..(n - 1) : ~UnitColumn(A, j, 0) => j \in Variables
  BY <1>4 DEF Variables, Places
<1> DEFINE V == Variables
           v == [j \in V |-> values[j]]
<1> HIDE DEF V
<1>6. V \in Places(n)
  BY <1>5 DEF V
<1>7. \A j \in V : \/ \E k \in 1..m : UnitColumn(A, j, k) /\ values[j] = A[k][n]
                   \/ values[j] = Zero /\ \A k \in 1..m : ~UnitColumn(A, j, k)
  BY DEF V
<1>8. v \in [V -> Fractions]
  BY <1>2, <1>3, <1>7, Units
<1>9. \A j \in V : v[j] = values[j]
  OBVIOUS
<1>10. \A k \in 1..m : \A j, l \in V : UnitColumn(A, j, k) /\ UnitColumn(A, l, k) => j = l
  BY <1>2, <1>4, <1>6 DEF Places
<1>11. \A k \in 1..m : HasUnit(A, n, k) => \E j \in V : UnitColumn(A, j, k)
  <2>1. ASSUME NEW k \in 1..m, NEW j \in 0..(n - 1), UnitColumn(A, j, k)
        PROVE  ~UnitColumn(A, j, 0)
    BY <1>2, <1>3, <2>1, Units DEF UnitColumn
  <2> QED
    BY <1>5, <2>1 DEF HasUnit, V
<1> HIDE DEF v
<1>12. \A j \in V : \/ \E k \in 1..m : UnitColumn(A, j, k) /\ v[j] = A[k][n]
                    \/ v[j] = Zero /\ \A k \in 1..m : ~UnitColumn(A, j, k)
  BY <1>7, <1>9
<1>13. /\ \A j \in V : ~Negative(v[j])
       /\ \A i \in 1..m : ~Less(file[i][n], Dot(file, i, v))
       /\ Dot(file, 0, v) = Negated(A[0][n])
  BY <1>1, <1>6, <1>8, <1>10, <1>11, <1>12, BasicFeasible
<1> DEFINE Sum(coefs) == FoldFunction(Plus, Zero, [j \in V |-> Times(values[j], coefs[j])])
<1>14. ASSUME NEW i PROVE Sum(file[i]) = Dot(file, i, v)
  <2>1. DOMAIN v = V
    BY <1>8
  <2>2. [j \in V |-> Times(values[j], file[i][j])] = [j \in V |-> Times(v[j], file[i][j])]
    BY <1>9
  <2>3. SumOf([j \in V |-> Times(values[j], file[i][j])]) = Dot(file, i, v)
    BY <2>1, <2>2 DEF Dot
  <2> QED
    BY Zenon, <2>3 DEF SumOf
<1>15. \A j \in V : ~Negative(values[j])
  BY <1>9, <1>13
<1> HIDE DEF Sum
<1>16. /\ \A j \in V : ~Negative(values[j])
       /\ \A i \in Constraints(file) : ~Less(file[i][RHS(file)], Sum(file[i]))
       /\ Sum(file[0]) = Negated(A[0][RHS(A)])
  BY <1>2, <1>13, <1>14, <1>15
<1> QED
  BY Zenon, <1>16 DEF Feasible, Sum, V

IsUnit(f, m, r) == \A i \in 0..m : f[i] = IF i = r THEN One ELSE Zero
OnesOf(f, m) == {i \in 0..m : f[i] = One}
ZeroesOf(f, m) == {i \in 0..m : f[i] = Zero}

\* The ones, the zeroes and the sum of a unit column.
LEMMA UnitParts ==
  ASSUME NEW m \in Nat, NEW f \in [0..m -> Fractions], NEW r \in 0..m, IsUnit(f, m, r)
  PROVE  /\ OnesOf(f, m) = {r} /\ Cardinality(OnesOf(f, m)) = 1
         /\ Cardinality(ZeroesOf(f, m)) = m /\ SumOf(f) = One
         /\ Max({r}) = r /\ Max({0} \union {r}) = r
<1>1. IsFiniteSet(0..m) /\ Cardinality(0..m) = m + 1
  BY FS_Interval
<1>2. OnesOf(f, m) = {r} /\ ZeroesOf(f, m) = (0..m) \ {r}
  BY Units DEF IsUnit, OnesOf, ZeroesOf
<1>3. Cardinality({r}) = 1
  BY FS_Singleton
<1>4. Cardinality((0..m) \ {r}) = m
  <2>1. Cardinality((0..m) \ {r})
          = IF r \in 0..m THEN Cardinality(0..m) - 1 ELSE Cardinality(0..m)
    BY Zenon, <1>1, FS_RemoveElement
  <2>2. Cardinality((0..m) \ {r}) = Cardinality(0..m) - 1
    BY Zenon, <2>1
  <2> QED
    BY <1>1, <2>2
<1>5. SumOf(f) = f[r]
  BY <1>1, SumOfOne DEF IsUnit
<1>6. Max({r}) = r
  <2>1. r \in {r} /\ \A y \in {r} : r >= y
    OBVIOUS
  <2>2. Max({r}) \in {r}
    BY <2>1 DEF Max
  <2> QED
    BY <2>2
<1>7. Max({0} \union {r}) = r
  <2> DEFINE S == {0} \union {r}
  <2>1. r \in S /\ \A y \in S : r >= y
    OBVIOUS
  <2>2. Max(S) \in S /\ \A y \in S : Max(S) >= y
    <3> HIDE DEF S
    <3> QED
      BY <2>1 DEF Max
  <2>3. Max(S) \in 0..m /\ Max(S) >= r /\ r >= Max(S)
    <3>1. \A y \in S : y \in 0..m
      OBVIOUS
    <3> HIDE DEF S
    <3> QED
      BY <2>1, <2>2, <3>1
  <2>4. Max(S) = r
    <3> HIDE DEF S
    <3> QED
      BY <2>3
  <2> QED
    BY Zenon, <2>4
<1> QED
  BY <1>2, <1>3, <1>4, <1>5, <1>6, <1>7 DEF IsUnit

\* A column that is zero but in one place is a unit column when it has a single one, or
\* sums to one.
LEMMA UnitTold ==
  ASSUME NEW m \in Nat, NEW f \in [0..m -> Fractions], Cardinality(ZeroesOf(f, m)) = m,
         Cardinality(OnesOf(f, m)) = 1 \/ SumOf(f) = One
  PROVE  \E r \in 0..m : IsUnit(f, m, r)
<1> DEFINE Z == ZeroesOf(f, m)
           R == (0..m) \ Z
<1>1. IsFiniteSet(0..m) /\ Cardinality(0..m) = m + 1
  BY FS_Interval
<1>2. Z \subseteq 0..m /\ Cardinality(Z) = m /\ (0..m) \cap Z = Z
  BY DEF ZeroesOf
<1> HIDE DEF Z
<1>3. IsFiniteSet(R) /\ Cardinality(R) = (m + 1) - m
  <2>1. IsFiniteSet(R) /\ Cardinality(R) = Cardinality(0..m) - Cardinality((0..m) \cap Z)
    BY Zenon, <1>1, FS_Difference
  <2> QED
    BY Zenon, <1>1, <1>2, <2>1
<1>4. PICK r : R = {r}
  <2>1. Cardinality(R) = 1
    BY <1>3
  <2> HIDE DEF R
  <2> QED
    BY <1>3, <2>1, FS_Singleton
<1>5. r \in 0..m /\ f[r] # Zero /\ \A i \in 0..m : i # r => f[i] = Zero
  BY <1>4 DEF Z, ZeroesOf
<1>6. CASE Cardinality(OnesOf(f, m)) = 1
  <2>1. IsFiniteSet(OnesOf(f, m))
    BY <1>1, FS_Subset DEF OnesOf
  <2>2. PICK x : OnesOf(f, m) = {x}
    BY <1>6, <2>1, FS_Singleton
  <2>3. x \in 0..m /\ f[x] = One
    BY <2>2 DEF OnesOf
  <2>4. x = r
    BY <1>5, <2>3, Units
  <2> QED
    BY <1>5, <2>3, <2>4 DEF IsUnit
<1>7. CASE SumOf(f) = One
  <2>1. SumOf(f) = f[r]
    BY <1>1, <1>5, SumOfOne
  <2> QED
    BY <1>5, <1>7, <2>1 DEF IsUnit
<1> QED
  BY <1>6, <1>7

\* The column of a tableau.
Column(T, j, m) == [i \in 0..m |-> T[i][j]]

LEMMA ColumnUnit ==
  ASSUME NEW m \in Nat, NEW n \in Nat \ {0}, NEW T, Shaped(T, m, n), NEW j \in 0..n
  PROVE  /\ Column(T, j, m) \in [0..m -> Fractions]
         /\ \A i \in 0..m : Column(T, j, m)[i] = T[i][j]
         /\ \A r : UnitColumn(T, j, r) <=> IsUnit(Column(T, j, m), m, r)
<1>1. Rows(T) = 0..m /\ \A i \in 0..m : T[i][j] \in Fractions
  BY TableauParts
<1>2. /\ Column(T, j, m) \in [0..m -> Fractions]
      /\ \A i \in 0..m : Column(T, j, m)[i] = T[i][j]
  BY <1>1 DEF Column
<1> QED
  BY <1>1, <1>2 DEF UnitColumn, IsUnit

\* What store_soln() writes of a column.
LEMMA StoreReads ==
  ASSUME NEW m \in Nat, NEW n \in Nat \ {0}, NEW T, Shaped(T, m, n), NEW j \in 0..(n - 1)
  PROVE  /\ store_soln(T)[n] = T[0][n]
         /\ \A r \in 0..m : UnitColumn(T, j, r) => Basic(T, j) /\ store_soln(T)[j] = T[r][n]
         /\ ~Basic(T, j) => store_soln(T)[j] = Zero
<1>1. Rows(T) = 0..m /\ Columns(T) = 0..n /\ RHS(T) = n /\ j \in 0..n /\ n \in 0..n /\ j # n
  BY TableauParts
<1>2. store_soln(T)[n] = T[0][n] /\ store_soln(T)[j] = Value(T, j)
  BY <1>1 DEF store_soln
<1> DEFINE f == Column(T, j, m)
<1>3. f \in [0..m -> Fractions] /\ \A i \in 0..m : f[i] = T[i][j]
  BY <1>1, ColumnUnit
<1>4. Basic(T, j) <=> (\A i \in 0..m : ~Negative(f[i])) /\ SumOf(f) = One
  <2>1. [i \in Rows(T) |-> T[i][j]] = f
    BY <1>1 DEF Column
  <2>2. Basic(T, j) <=> (\A i \in Rows(T) : ~Negative(f[i])) /\ FoldFunction(Plus, Zero, f) = One
    <3> HIDE DEF f
    <3> QED
      BY Zenon, <2>1 DEF Basic
  <2> HIDE DEF f
  <2> QED
    BY Zenon, <1>1, <2>2 DEF SumOf
<1>5. ASSUME NEW r \in 0..m, UnitColumn(T, j, r)
      PROVE  Basic(T, j) /\ Value(T, j) = T[r][n]
  <2>1. IsUnit(f, m, r)
    BY <1>1, <1>5, ColumnUnit
  <2> HIDE DEF f
  <2>2. OnesOf(f, m) = {r} /\ SumOf(f) = One /\ Max({r}) = r
    BY <1>3, <2>1, UnitParts
  <2>3. Basic(T, j)
    BY <1>4, <2>1, <2>2, Units DEF IsUnit
  <2>4. {i \in Rows(T) : T[i][j] = One} = {r}
    BY <1>1, <1>3, <2>2 DEF OnesOf
  <2>5. Value(T, j) = T[Max({r})][RHS(T)]
    BY <2>3, <2>4 DEF Value
  <2> QED
    BY <1>1, <2>2, <2>3, <2>5
<1>6. ~Basic(T, j) => Value(T, j) = Zero
  BY DEF Value
<1> QED
  BY <1>2, <1>5, <1>6

\* What the board's program reads of one.
LEMMA BoardReads ==
  ASSUME NEW m \in Nat, NEW n \in Nat \ {0}, NEW T, Shaped(T, m, n), NEW j \in 0..(n - 1)
  PROVE  /\ \A r \in 0..m : UnitColumn(T, j, r) => Board!formatted_solution(T)[j] = T[r][n]
         /\ (\A r \in 0..m : ~UnitColumn(T, j, r)) => Board!formatted_solution(T)[j] = Zero
<1>1. Rows(T) = 0..m /\ Columns(T) = 0..n /\ RHS(T) = n /\ j \in 0..n /\ j # n
  BY TableauParts
<1>2. /\ Board!Rows(T) = Rows(T) /\ Board!Columns(T) = Columns(T) /\ Board!RHS(T) = RHS(T)
      /\ Board!One = One /\ Board!Zero = Zero /\ Board!None = None
      /\ \A S : Board!Cardinality(S) = Cardinality(S) /\ Board!Max(S) = Max(S)
  <2>1. Board!Rows(T) = Rows(T) /\ Board!Columns(T) = Columns(T) /\ Board!RHS(T) = RHS(T)
    BY Zenon DEF Board!Rows, Rows, Board!Columns, Columns, Board!RHS, RHS, Board!Max, Max
  <2>2. Board!One = One /\ Board!Zero = Zero /\ Board!None = None
    BY DEF Board!One, One, Board!Zero, Zero, Board!None, None
  <2>3. ASSUME NEW S PROVE Board!Cardinality(S) = Cardinality(S) /\ Board!Max(S) = Max(S)
    BY Zenon DEF Board!Cardinality, Cardinality, Board!Max, Max
  <2> QED
    BY <2>1, <2>2, <2>3
<1> DEFINE f == Column(T, j, m)
<1>3. f \in [0..m -> Fractions] /\ \A i \in 0..m : f[i] = T[i][j]
  BY <1>1, ColumnUnit
<1>4. \A r : UnitColumn(T, j, r) <=> IsUnit(f, m, r)
  BY <1>1, ColumnUnit
<1> HIDE DEF f
<1>5. /\ {b \in Rows(T) : T[b][j] = One} = OnesOf(f, m)
      /\ {b \in Rows(T) : T[b][j] = Zero} = ZeroesOf(f, m)
  BY <1>1, <1>3 DEF OnesOf, ZeroesOf
<1>6. Cardinality(Rows(T)) - 1 = m
  BY <1>1, FS_Interval
<1>7. Board!BasisRow(T, j) =
        IF Cardinality(OnesOf(f, m)) = 1 /\ Cardinality(ZeroesOf(f, m)) = m
        THEN Max(OnesOf(f, m)) ELSE None
  BY Zenon, <1>2, <1>5, <1>6 DEF Board!BasisRow
<1>8. Board!formatted_solution(T)[j] =
        IF Board!BasisRow(T, j) = None THEN Zero
        ELSE IF Board!BasisRow(T, j) \in 0..m THEN T[Board!BasisRow(T, j)][n] ELSE Board!Outside
  BY <1>1, <1>2 DEF Board!formatted_solution, Board!bram_rhs
<1>9. ASSUME NEW r \in 0..m, UnitColumn(T, j, r)
      PROVE  Board!formatted_solution(T)[j] = T[r][n]
  <2>1. /\ OnesOf(f, m) = {r} /\ Cardinality(OnesOf(f, m)) = 1
        /\ Cardinality(ZeroesOf(f, m)) = m /\ Max({r}) = r
    BY <1>3, <1>4, <1>9, UnitParts
  <2>2. Board!BasisRow(T, j) = r
    BY <1>7, <2>1
  <2>3. r # None
    BY DEF None
  <2> QED
    BY <1>8, <2>2, <2>3
<1>10. ASSUME \A r \in 0..m : ~UnitColumn(T, j, r)
       PROVE  Board!formatted_solution(T)[j] = Zero
  <2>1. ~(Cardinality(OnesOf(f, m)) = 1 /\ Cardinality(ZeroesOf(f, m)) = m)
    BY <1>3, <1>4, <1>10, UnitTold
  <2> QED
    BY <1>7, <1>8, <2>1
<1> QED
  BY <1>9, <1>10

\* What the early solver prints of one, where no cost is negative.
EarlyColumn(L, Z, j) == [i \in {0} \union DOMAIN L |-> IF i = 0 THEN Z[j] ELSE L[i][j]]

EarlyRead(L, Z, column) ==
  LET zeroes == {i \in DOMAIN column : column[i] = Early!Zero}
      last == Early!Max({0} \union {i \in DOMAIN column : column[i] = Early!One})
  IN  IF \/ Early!FoldFunction(Early!Plus, Early!Zero, column) # Early!One
         \/ Early!Cardinality(zeroes) # Early!Cardinality(DOMAIN L)
      THEN Early!Zero
      ELSE IF last = 0 THEN Z[Early!Last] ELSE L[last][Early!Last]

LEMMA EarlyReads ==
  ASSUME NEW m \in Nat, NEW n \in Nat \ {0}, A # <<>>, Shaped(A, m, n), NEW j \in 0..(n - 1),
         ~Negative(A[0][j])
  PROVE  /\ \A r \in 1..m : UnitColumn(A, j, r) => Early!solution[j] = A[r][n]
         /\ (\A r \in 1..m : ~UnitColumn(A, j, r)) => Early!solution[j] = Zero
<1>1. /\ Rows(A) = 0..m /\ Constraints(A) = 1..m /\ Columns(A) = 0..n /\ j \in 0..n /\ n \in 0..n
      /\ \A i \in 0..m : A[i][j] \in Fractions
  BY TableauParts
<1> DEFINE L == [i \in 1..m |-> A[i]]
           Z == [k \in 0..n |-> Negated(A[0][k])]
           f == [i \in 0..m |-> IF i = 0 THEN Z[j] ELSE L[i][j]]
<1>2. /\ (IF A = <<>> THEN <<>> ELSE [i \in Constraints(A) |-> A[i]]) = L
      /\ (IF A = <<>> THEN <<>> ELSE [k \in Columns(A) |-> Negated(A[0][k])]) = Z
  BY <1>1, EarlyTerms DEF Early!Negated, Negated
<1>3. DOMAIN L = 1..m /\ DOMAIN Z = 0..n /\ Z[j] = Negated(A[0][j]) /\ {0} \union 1..m = 0..m
  BY <1>1
<1>4. /\ f \in [0..m -> Fractions] /\ f[0] = Negated(A[0][j])
      /\ \A i \in 1..m : f[i] = A[i][j] /\ L[i] = A[i]
  <2>1. Negated(A[0][j]) \in Fractions
    BY <1>1, NegatedValue
  <2> QED
    BY <1>1, <1>3, <2>1
<1>5. Early!FoldFunction(Early!Plus, Early!Zero, f) = SumOf(f)
  BY Zenon DEF Early!FoldFunction, FoldFunction, Early!FoldFunctionOnSet, FoldFunctionOnSet,
    Early!MapThenFoldSet, MapThenFoldSet, Early!Plus, Plus, Early!Zero, Zero,
    Early!Fraction, Fraction, Early!gcd, gcd, Early!Size, Size, SumOf
<1>6. /\ Early!One = One /\ Early!Zero = Zero
      /\ \A S : Early!Cardinality(S) = Cardinality(S) /\ Early!Max(S) = Max(S)
  <2>1. Early!One = One /\ Early!Zero = Zero
    BY DEF Early!One, One, Early!Zero, Zero
  <2>2. ASSUME NEW S PROVE Early!Cardinality(S) = Cardinality(S) /\ Early!Max(S) = Max(S)
    BY Zenon DEF Early!Cardinality, Cardinality, Early!Max, Max
  <2> QED
    BY <2>1, <2>2
<1>7. Early!Last = n
  <2>1. Early!Last = Max(0..n)
    BY Zenon, <1>2, <1>3, <1>6 DEF Early!Last
  <2> QED
    BY <2>1, MaxOf
<1> HIDE DEF L, Z
<1>8. [i \in {0} \union DOMAIN L |-> IF i = 0 THEN Z[j] ELSE L[i][j]] = f /\ DOMAIN f = 0..m
  BY <1>3
<1>9. Cardinality(DOMAIN L) = m
  BY <1>3, FS_Interval
<1> HIDE DEF f
<1>10. {i \in DOMAIN f : f[i] = Zero} = ZeroesOf(f, m) /\ {i \in DOMAIN f : f[i] = One} = OnesOf(f, m)
  BY <1>8 DEF ZeroesOf, OnesOf
<1> DEFINE one == Max({0} \union OnesOf(f, m))
<1>11. Early!solution[j] =
         IF SumOf(f) # One \/ Cardinality(ZeroesOf(f, m)) # m
         THEN Zero
         ELSE IF one = 0 THEN Z[n] ELSE L[one][n]
  <2> DEFINE X == IF A = <<>> THEN <<>> ELSE [i \in Constraints(A) |-> A[i]]
             Y == IF A = <<>> THEN <<>> ELSE [k \in Columns(A) |-> Negated(A[0][k])]
  <2>1. Early!solution = [k \in DOMAIN Y |-> EarlyRead(X, Y, EarlyColumn(X, Y, k))]
    BY Zenon DEF Early!solution, EarlyRead, EarlyColumn
  <2>2. X = L /\ Y = Z
    BY Zenon, <1>2
  <2> HIDE DEF X, Y
  <2>3. Early!solution[j] = EarlyRead(L, Z, EarlyColumn(L, Z, j))
    BY Zenon, <1>1, <1>3, <2>1, <2>2
  <2>4. EarlyColumn(L, Z, j) = f
    BY Zenon, <1>8 DEF EarlyColumn
  <2>5. /\ {i \in DOMAIN f : f[i] = Early!Zero} = ZeroesOf(f, m)
        /\ {i \in DOMAIN f : f[i] = Early!One} = OnesOf(f, m)
    BY <1>6, <1>10
  <2>6. EarlyRead(L, Z, f) =
          IF \/ Early!FoldFunction(Early!Plus, Early!Zero, f) # Early!One
             \/ Early!Cardinality(ZeroesOf(f, m)) # Early!Cardinality(DOMAIN L)
          THEN Early!Zero
          ELSE IF Early!Max({0} \union OnesOf(f, m)) = 0 THEN Z[Early!Last]
               ELSE L[Early!Max({0} \union OnesOf(f, m))][Early!Last]
    BY Zenon, <2>5 DEF EarlyRead
  <2>7. Early!Max({0} \union OnesOf(f, m)) = one
    BY Zenon, <1>6
  <2> HIDE DEF one
  <2> QED
    BY Zenon, <1>5, <1>6, <1>7, <1>9, <2>3, <2>4, <2>6, <2>7
<1>12. ASSUME NEW r \in 1..m, UnitColumn(A, j, r)
       PROVE  Early!solution[j] = A[r][n]
  <2>0. r \in 0..m /\ 0 \in 0..m /\ r # 0
    OBVIOUS
  <2>1. \A i \in 0..m : A[i][j] = IF i = r THEN One ELSE Zero
    BY <1>1, <1>12 DEF UnitColumn
  <2>2. f[0] = Zero
    BY <1>4, <2>0, <2>1, NegatedZero
  <2>3. IsUnit(f, m, r)
    <3>1. ASSUME NEW i \in 0..m PROVE f[i] = IF i = r THEN One ELSE Zero
      <4>1. CASE i = 0
        BY <2>0, <2>2, <4>1
      <4>2. CASE i # 0
        BY <1>4, <2>1, <4>2
      <4> QED
        BY <4>1, <4>2
    <3> QED
      BY <3>1 DEF IsUnit
  <2>4. /\ OnesOf(f, m) = {r} /\ Cardinality(ZeroesOf(f, m)) = m /\ SumOf(f) = One
        /\ Max({0} \union {r}) = r
    BY <1>4, <2>0, <2>3, UnitParts
  <2>5. one = r
    BY <2>4
  <2> HIDE DEF one
  <2> QED
    BY <1>4, <1>11, <2>0, <2>4, <2>5
<1>13. ASSUME \A r \in 1..m : ~UnitColumn(A, j, r)
       PROVE  Early!solution[j] = Zero
  <2>1. ASSUME SumOf(f) = One, Cardinality(ZeroesOf(f, m)) = m PROVE FALSE
    <3>1. PICK r \in 0..m : IsUnit(f, m, r)
      BY <1>4, <2>1, UnitTold
    <3>2. r # 0
      <4>1. ASSUME r = 0 PROVE FALSE
        <5>1. Negated(A[0][j]) = One
          BY <1>4, <3>1, <4>1 DEF IsUnit
        <5>2. A[0][j] \in Fractions /\ Positive(Negated(A[0][j]))
          BY <1>1, <5>1, Units
        <5> QED
          BY <5>2, NegatedValue
      <4> QED
        BY <4>1
    <3>3. A[0][j] = Zero
      <4>1. Negated(A[0][j]) = Zero
        BY <1>4, <3>1, <3>2 DEF IsUnit
      <4>2. A[0][j] = Negated(Negated(A[0][j]))
        BY <1>1, NegatedValue
      <4> QED
        BY <4>1, <4>2, NegatedZero
    <3>4. ASSUME NEW i \in 0..m PROVE A[i][j] = IF i = r THEN One ELSE Zero
      <4>1. CASE i = 0
        BY <3>2, <3>3, <4>1
      <4>2. CASE i # 0
        BY <1>4, <3>1, <4>2 DEF IsUnit
      <4> QED
        BY <4>1, <4>2
    <3>5. UnitColumn(A, j, r) /\ r \in 1..m
      BY <1>1, <3>2, <3>4 DEF UnitColumn
    <3> QED
      BY <1>13, <3>5
  <2> QED
    BY <1>11, <2>1
<1> QED
  BY <1>12, <1>13

\* For every file: where the final tableau can be read, the values that store_soln() writes
\* are not negative, satisfy the file's constraints and have the objective written behind
\* them; so have those that mblaze_send_callback reads off the same tableau, and, where each
\* column had its row, those that the early solver prints.
THEOREM StoredSolutionFeasible == SolversSpec => []StoredIsFeasible
<1>1. SomeEnd => StoredIsFeasible
  <2> SUFFICES ASSUME SomeEnd, pc = "stored", Readable
               PROVE  /\ Feasible(outfile) /\ outfile[RHS(A)] = A[0][RHS(A)]
                      /\ Feasible(Board!formatted_solution(A))
                      /\ flag_soln => Feasible(Early!solution)
    BY DEF StoredIsFeasible
  <2>1. PICK m \in Nat, n \in Nat \ {0} :
           SolversInv(m, n) /\ EndInv(m, n) /\ OriginalEndInv(m, n)
    BY DEF SomeEnd
  <2>2. A # <<>> /\ outfile = store_soln(A) /\ (flag_soln => \A j \in 0..n : ~Negative(A[0][j]))
    BY <2>1 DEF EndInv
  <2>3. Shaped(A, m, n)
    BY <2>1, <2>2 DEF SolversInv, FeasibleInv
  <2>4. /\ Rows(A) = 0..m /\ RHS(A) = n /\ Columns(A) = 0..n
        /\ \A k \in 1..m : k \in 0..m /\ k # 0
    BY <2>3, TableauParts
  <2>5. \A j, k \in Columns(A) \ {RHS(A)} :
          \A r \in Constraints(A) : UnitColumn(A, j, r) /\ UnitColumn(A, k, r) => j = k
    BY DEF Readable
  <2>6. \A j \in Variables : j \in 0..(n - 1) /\ j \in 0..n /\ ~UnitColumn(A, j, 0)
    <3>1. (0..n) \ {n} = 0..(n - 1)
      OBVIOUS
    <3> QED
      BY <2>4, <3>1 DEF Variables
  <2>7. ASSUME NEW values,
               \A j \in Variables :
                 /\ \A k \in 1..m : UnitColumn(A, j, k) => values[j] = A[k][n]
                 /\ (\A k \in 1..m : ~UnitColumn(A, j, k)) => values[j] = Zero
        PROVE  Feasible(values)
    <3>1. \A j \in Variables : \/ \E k \in 1..m : UnitColumn(A, j, k) /\ values[j] = A[k][n]
                               \/ values[j] = Zero /\ \A k \in 1..m : ~UnitColumn(A, j, k)
      BY <2>7
    <3> QED
      BY <2>1, <2>2, <2>5, <3>1, ReadFeasible
  <2>8. Feasible(outfile)
    <3>1. ASSUME NEW j \in Variables
          PROVE  /\ \A k \in 1..m : UnitColumn(A, j, k) => outfile[j] = A[k][n]
                 /\ (\A k \in 1..m : ~UnitColumn(A, j, k)) => outfile[j] = Zero
      <4>1. /\ \A r \in 0..m : UnitColumn(A, j, r) => Basic(A, j) /\ store_soln(A)[j] = A[r][n]
            /\ ~Basic(A, j) => store_soln(A)[j] = Zero
        BY <2>3, <2>6, StoreReads
      <4>2. Basic(A, j) => \E r \in 0..m : UnitColumn(A, j, r)
        <5>1. j \in Columns(A) \ {RHS(A)}
          BY DEF Variables
        <5> QED
          BY <2>4, <5>1 DEF Readable
      <4>3. \A r \in 0..m : UnitColumn(A, j, r) => r \in 1..m
        BY <2>6
      <4> QED
        BY <2>2, <2>4, <4>1, <4>2, <4>3
    <3> QED
      BY <2>7, <3>1
  <2>9. outfile[RHS(A)] = A[0][RHS(A)]
    <3>1. 0 \in 0..(n - 1)
      OBVIOUS
    <3> QED
      BY <2>2, <2>3, <2>4, <3>1, StoreReads
  <2>10. Feasible(Board!formatted_solution(A))
    <3> DEFINE values == Board!formatted_solution(A)
    <3>1. ASSUME NEW j \in Variables
          PROVE  /\ \A k \in 1..m : UnitColumn(A, j, k) => values[j] = A[k][n]
                 /\ (\A k \in 1..m : ~UnitColumn(A, j, k)) => values[j] = Zero
      <4>1. /\ \A r \in 0..m : UnitColumn(A, j, r) => values[j] = A[r][n]
            /\ (\A r \in 0..m : ~UnitColumn(A, j, r)) => values[j] = Zero
        BY <2>3, <2>6, BoardReads
      <4>2. \A r \in 0..m : UnitColumn(A, j, r) => r \in 1..m
        BY <2>6
      <4> HIDE DEF values
      <4> QED
        BY <2>4, <4>1, <4>2
    <3> HIDE DEF values
    <3>2. Feasible(values)
      BY <2>7, <3>1
    <3> QED
      BY <3>2 DEF values
  <2>11. flag_soln => Feasible(Early!solution)
    <3> DEFINE values == Early!solution
    <3>1. ASSUME flag_soln, NEW j \in Variables
          PROVE  /\ \A k \in 1..m : UnitColumn(A, j, k) => values[j] = A[k][n]
                 /\ (\A k \in 1..m : ~UnitColumn(A, j, k)) => values[j] = Zero
      BY <2>2, <2>3, <2>6, <3>1, EarlyReads
    <3> HIDE DEF values
    <3>2. flag_soln => Feasible(values)
      BY <2>7, <3>1
    <3> QED
      BY <3>2 DEF values
  <2> QED
    BY <2>8, <2>9, <2>10, <2>11
<1> QED
  BY <1>1, EndInvariant, PTL
=============================================================================
