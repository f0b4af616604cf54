------------------------ MODULE FindPivotCol_proofs ------------------------
(***************************************************************************)
(* Proofs about the search for the pivot column, for every width of the    *)
(* tableau and every range of magnitudes.                                  *)
(***************************************************************************)
EXTENDS FindPivotCol, TLAPS

\* b, kept with column p, is the most negative of the first n words of q, the
\* leftmost of its equals, or zero when none of them is negative.
BestIn(q, n, b, p) ==
  \/ /\ b = Zero
     /\ \A i \in 1..n : ~Negative(q[i])
  \/ /\ Negative(b)
     /\ p < n
     /\ b = q[p + 1]
     /\ \A i \in 1..n :
          Negative(q[i]) => /\ q[i].mag <= b.mag
                            /\ i <= p => q[i].mag < b.mag

\* The words of the row are those taken, followed by those in the FIFO.
SplitAt(q, n, rest) ==
  /\ Len(q) = n + Len(rest)
  /\ \A i \in 1..Len(rest) : rest[i] = q[n + i]

RowSplit == SplitAt(row, curr_col, fifo)

Best(n) == BestIn(row, n, value_pivot_col_last_row, pivot_col)

ErrorSeen == \E i \in 1..Len(row) : row[i].mag = Infinite

Optimal ==
  /\ Len(row) = NumCols
  /\ \A i \in 1..NumCols : ~Negative(row[i])

Progress ==
  clean /\ resetn =>
    /\ tready => RowSplit /\ Best(curr_col)
    /\ cont => /\ Len(row) = NumCols /\ fifo = <<>>
               /\ Negative(value_pivot_col_last_row) /\ Best(NumCols)
    /\ terminate => ErrorSeen \/ Optimal

IInv ==
  /\ TypeOK
  /\ ~resetn => row = <<>> /\ (clean => fifo = <<>>)
  /\ Progress

-----------------------------------------------------------------------------

LEMMA FloatFields ==
  /\ \A w \in Float : w.neg \in BOOLEAN /\ w.mag \in Nat /\ w.mag <= Infinite
  /\ Zero \in Float /\ ~Zero.neg /\ Zero.mag = 0 /\ ~Negative(Zero)
BY RowAssumption DEF Float, Zero, Negative

\* A sequence without its head, and one with a word added.
LEMMA HeadTail ==
  ASSUME NEW S, NEW q \in Seq(S), q # <<>>
  PROVE  /\ Len(q) \in Nat /\ Len(q) > 0
         /\ Head(q) = q[1] /\ Head(q) \in S
         /\ Tail(q) \in Seq(S) /\ Len(Tail(q)) = Len(q) - 1
         /\ \A i \in 1..Len(Tail(q)) : Tail(q)[i] = q[i + 1]
OBVIOUS

LEMMA AppendOne ==
  ASSUME NEW S, NEW q \in Seq(S), NEW w \in S
  PROVE  /\ Append(q, w) \in Seq(S)
         /\ Len(q) \in Nat /\ Len(Append(q, w)) = Len(q) + 1
         /\ \A i \in 1..Len(q) : Append(q, w)[i] = q[i]
         /\ Append(q, w)[Len(q) + 1] = w
OBVIOUS

LEMMA EmptySeq ==
  ASSUME NEW S
  PROVE  <<>> \in Seq(S) /\ Len(<<>>) = 0
OBVIOUS

-----------------------------------------------------------------------------
(* What one comparison does to the best word so far.                        *)

LEMMA BestStep ==
  ASSUME NEW q \in Seq(Float), NEW n \in Nat, n + 1 <= Len(q),
         NEW b \in Float, NEW p \in Nat, BestIn(q, n, b, p),
         NEW b2, NEW p2,
         IF Beats(q[n + 1], b) THEN b2 = q[n + 1] /\ p2 = n ELSE b2 = b /\ p2 = p
  PROVE  BestIn(q, n + 1, b2, p2)
<1>1. /\ Len(q) \in Nat
      /\ \A i \in 1..Len(q) : q[i] \in Float
  OBVIOUS
<1>2. /\ \A i \in 1..Len(q) : q[i].mag \in Nat
      /\ b.mag \in Nat
  BY <1>1, FloatFields
<1>3. /\ n + 1 \in 1..Len(q)
      /\ \A i \in 1..n + 1 : i \in 1..n \/ i = n + 1
      /\ \A i \in 1..n + 1 : i \in 1..Len(q)
  BY <1>1
<1>4. CASE Beats(q[n + 1], b)
  <2>1. b2 = q[n + 1] /\ p2 = n /\ q[n + 1].neg /\ q[n + 1].mag > b.mag
    BY <1>4 DEF Beats
  <2>2. Negative(q[n + 1])
    BY <2>1, <1>2, <1>3 DEF Negative
  <2>3. \A i \in 1..n : Negative(q[i]) => q[i].mag < q[n + 1].mag
    BY <2>1, <1>2, <1>3 DEF BestIn
  <2>4. \A i \in 1..n + 1 : Negative(q[i]) => /\ q[i].mag <= q[n + 1].mag
                                              /\ i <= n => q[i].mag < q[n + 1].mag
    BY <2>3, <1>2, <1>3
  <2> QED
    BY <2>1, <2>2, <2>4 DEF BestIn
<1>5. CASE ~Beats(q[n + 1], b)
  <2>1. b2 = b /\ p2 = p
    BY <1>5
  <2>2. Negative(q[n + 1]) => q[n + 1].mag <= b.mag
    BY <1>5, <1>2, <1>3 DEF Beats, Negative
  <2>3. CASE b = Zero /\ \A i \in 1..n : ~Negative(q[i])
    <3>1. ~Negative(q[n + 1])
      BY <2>2, <2>3, <1>2, <1>3, FloatFields DEF Negative
    <3> QED
      BY <2>1, <2>3, <3>1, <1>3 DEF BestIn
  <2>4. CASE /\ Negative(b)
             /\ p < n
             /\ b = q[p + 1]
             /\ \A i \in 1..n :
                  Negative(q[i]) => /\ q[i].mag <= b.mag
                                    /\ i <= p => q[i].mag < b.mag
    <3>1. p < n + 1 /\ ~(n + 1 <= p)
      BY <2>4
    <3>2. \A i \in 1..n + 1 : Negative(q[i]) => /\ q[i].mag <= b.mag
                                                /\ i <= p => q[i].mag < b.mag
      BY <2>2, <2>4, <3>1, <1>3
    <3> QED
      BY <2>1, <2>4, <3>1, <3>2 DEF BestIn
  <2> QED
    BY <2>3, <2>4 DEF BestIn
<1> QED
  BY <1>4, <1>5

\* Words added behind the first n change nothing of what is said about those.
LEMMA BestAppend ==
  ASSUME NEW q \in Seq(Float), NEW n \in Nat, n <= Len(q),
         NEW b \in Float, NEW p \in Nat, BestIn(q, n, b, p), NEW w \in Float
  PROVE  BestIn(Append(q, w), n, b, p)
<1>1. \A i \in 1..n : Append(q, w)[i] = q[i]
  BY AppendOne
<1>2. p < n => p + 1 \in 1..n
  OBVIOUS
<1> QED
  BY <1>1, <1>2 DEF BestIn

-----------------------------------------------------------------------------

LEMMA InitInv == Init => IInv
<1> SUFFICES ASSUME Init PROVE IInv
  OBVIOUS
<1>1. /\ curr_col \in 0..NumCols /\ pivot_col \in 0..NumCols-1
      /\ rounds \in 0..MaxRounds
  BY RowAssumption DEF Init
<1>2. fifo \in Seq(Float) /\ row \in Seq(Float) /\ Len(row) <= NumCols
  BY RowAssumption, EmptySeq DEF Init
<1>3. TypeOK
  BY <1>1, <1>2, FloatFields DEF Init, TypeOK
<1>4. ~resetn => row = <<>> /\ (clean => fifo = <<>>)
  BY DEF Init
<1>5. RowSplit
  BY EmptySeq DEF Init, RowSplit, SplitAt
<1>6. Best(curr_col)
  BY DEF Init, Best, BestIn
<1>7. Progress
  BY <1>5, <1>6 DEF Init, Progress
<1> QED
  BY <1>3, <1>4, <1>7 DEF IInv

-----------------------------------------------------------------------------
(* What the environment does at an edge.                                    *)

EnvTypes ==
  /\ resetn \in BOOLEAN
  /\ fifo \in Seq(Float)
  /\ row \in Seq(Float) /\ Len(row) <= NumCols
  /\ clean \in BOOLEAN /\ rounds \in 0..MaxRounds

LEMMA PoppedType ==
  ASSUME fifo \in Seq(Float) PROVE Popped \in Seq(Float)
BY HeadTail DEF Popped

LEMMA FifoEdgeTypes ==
  ASSUME TypeOK, FifoEdge
  PROVE  fifo' \in Seq(Float) /\ row' \in Seq(Float) /\ Len(row') <= NumCols
<1>1. Popped \in Seq(Float)
  BY PoppedType DEF TypeOK
<1>2. CASE fifo' = Popped /\ UNCHANGED row
  BY <1>1, <1>2 DEF TypeOK
<1>3. ASSUME Len(row) < NumCols, NEW w \in Float,
             row' = Append(row, w), fifo' = Append(Popped, w)
      PROVE  fifo' \in Seq(Float) /\ row' \in Seq(Float) /\ Len(row') <= NumCols
  BY <1>1, <1>3, AppendOne, RowAssumption DEF TypeOK
<1> QED
  BY <1>2, <1>3 DEF FifoEdge

LEMMA EnvTypesStep ==
  ASSUME TypeOK, ControlEdge PROVE EnvTypes'
<1>1. CASE resetn' = TRUE /\ FifoEdge /\ UNCHANGED <<clean, rounds>>
  BY <1>1, FifoEdgeTypes DEF EnvTypes, TypeOK
<1>2. CASE /\ rounds < MaxRounds /\ resetn' = FALSE /\ fifo' = Popped /\ row' = <<>>
           /\ clean' = (fifo = <<>>) /\ rounds' = rounds + 1
  <2>1. clean' \in BOOLEAN /\ resetn' \in BOOLEAN
    BY <1>2
  <2>2. rounds' \in 0..MaxRounds
    BY <1>2, RowAssumption DEF TypeOK
  <2>3. fifo' \in Seq(Float)
    BY <1>2, PoppedType DEF TypeOK
  <2>4. row' \in Seq(Float) /\ Len(row') <= NumCols
    BY <1>2, EmptySeq, RowAssumption
  <2> QED
    BY <2>1, <2>2, <2>3, <2>4 DEF EnvTypes
<1> QED
  BY <1>1, <1>2 DEF ControlEdge

BlockTypes ==
  /\ cont \in BOOLEAN /\ terminate \in BOOLEAN
  /\ curr_col \in 0..NumCols /\ pivot_col \in 0..NumCols-1
  /\ value_pivot_col_last_row \in Float

LEMMA BlockTypesStep ==
  ASSUME TypeOK, BlockEdge PROVE BlockTypes'
<1> USE DEF BlockTypes, latches, search
<1>1. CASE Reset
  <2>1. curr_col' \in 0..NumCols /\ pivot_col' \in 0..NumCols-1
    BY <1>1, RowAssumption DEF Reset
  <2>2. /\ value_pivot_col_last_row' \in Float
        /\ cont' \in BOOLEAN /\ terminate' \in BOOLEAN
    BY <1>1, FloatFields DEF Reset
  <2> QED
    BY <2>1, <2>2
<1>2. CASE Rest \/ Starve
  BY <1>2 DEF TypeOK, Rest, Starve
<1>3. CASE Decide
  <2>1. UNCHANGED search /\ cont' \in BOOLEAN /\ terminate' \in BOOLEAN
    BY <1>3 DEF Decide, TypeOK
  <2> QED
    BY <2>1 DEF TypeOK
<1>4. CASE TakeWord
  <2>1. fifo # <<>> /\ fifo \in Seq(Float) /\ Head(fifo) \in Float
    BY <1>4, HeadTail DEF TakeWord, TypeOK
  <2>2. /\ curr_col \in 0..NumCols-1
        /\ curr_col' = curr_col + 1
    BY <1>4, RowAssumption DEF TakeWord, TypeOK
  <2>3. curr_col' \in 0..NumCols
    BY <2>2, RowAssumption
  <2>4. pivot_col' \in {pivot_col, curr_col}
    BY <1>4 DEF TakeWord
  <2>5. pivot_col' \in 0..NumCols-1
    BY <2>2, <2>4 DEF TypeOK
  <2>6. cont' \in BOOLEAN /\ terminate' \in BOOLEAN /\ value_pivot_col_last_row' \in Float
    BY <1>4, <2>1 DEF TakeWord, TypeOK
  <2> QED
    BY <2>3, <2>5, <2>6
<1> QED
  BY <1>1, <1>2, <1>3, <1>4 DEF BlockEdge

LEMMA TypeStep == TypeOK /\ [Next]_vars => TypeOK'
<1> SUFFICES ASSUME TypeOK, [Next]_vars PROVE TypeOK'
  OBVIOUS
<1>1. CASE Next
  BY <1>1, EnvTypesStep, BlockTypesStep DEF Next, EnvTypes, BlockTypes, TypeOK
<1>2. CASE UNCHANGED vars
  BY <1>2 DEF vars, latches, search, TypeOK
<1> QED
  BY <1>1, <1>2

-----------------------------------------------------------------------------
(* A word taken from the FIFO and a word added behind it.                   *)

LEMMA SplitTail ==
  ASSUME NEW q \in Seq(Float), NEW n \in Nat, NEW rest \in Seq(Float),
         rest # <<>>, SplitAt(q, n, rest)
  PROVE  /\ SplitAt(q, n + 1, Tail(rest))
         /\ n + 1 <= Len(q) /\ Head(rest) = q[n + 1]
<1>1. /\ Len(rest) \in Nat /\ Len(rest) > 0 /\ Len(Tail(rest)) = Len(rest) - 1
      /\ Head(rest) = rest[1]
      /\ \A i \in 1..Len(Tail(rest)) : Tail(rest)[i] = rest[i + 1]
  BY HeadTail
<1>2. Len(q) = n + Len(rest) /\ \A i \in 1..Len(rest) : rest[i] = q[n + i]
  BY DEF SplitAt
<1>3. n + 1 <= Len(q) /\ Head(rest) = q[n + 1]
  BY <1>1, <1>2
<1>4. Len(q) = n + 1 + Len(Tail(rest))
  BY <1>1, <1>2
<1>5. \A i \in 1..Len(Tail(rest)) : Tail(rest)[i] = q[n + 1 + i]
  <2> TAKE i \in 1..Len(Tail(rest))
  <2>1. i + 1 \in 1..Len(rest) /\ n + 1 + i = n + (i + 1)
    BY <1>1
  <2> QED
    BY <2>1, <1>1, <1>2
<1> QED
  BY <1>3, <1>4, <1>5 DEF SplitAt

LEMMA SplitAppend ==
  ASSUME NEW q \in Seq(Float), NEW n \in Nat, NEW rest \in Seq(Float),
         SplitAt(q, n, rest), NEW w \in Float
  PROVE  SplitAt(Append(q, w), n, Append(rest, w))
<1>1. /\ Len(rest) \in Nat /\ Len(Append(rest, w)) = Len(rest) + 1
      /\ \A i \in 1..Len(rest) : Append(rest, w)[i] = rest[i]
      /\ Append(rest, w)[Len(rest) + 1] = w
  BY AppendOne
<1>2. /\ Len(q) \in Nat /\ Len(Append(q, w)) = Len(q) + 1
      /\ \A i \in 1..Len(q) : Append(q, w)[i] = q[i]
      /\ Append(q, w)[Len(q) + 1] = w
  BY AppendOne
<1>3. Len(q) = n + Len(rest) /\ \A i \in 1..Len(rest) : rest[i] = q[n + i]
  BY DEF SplitAt
<1>4. \A i \in 1..Len(rest) + 1 : Append(rest, w)[i] = Append(q, w)[n + i]
  <2> TAKE i \in 1..Len(rest) + 1
  <2>1. CASE i \in 1..Len(rest)
    <3>1. n + i \in 1..Len(q)
      BY <2>1, <1>1, <1>3
    <3> QED
      BY <2>1, <3>1, <1>1, <1>2, <1>3
  <2>2. CASE i = Len(rest) + 1
    <3>1. n + i = Len(q) + 1
      BY <2>2, <1>1, <1>3
    <3>2. Append(rest, w)[i] = w
      BY <2>2, <1>1, Zenon
    <3>3. Append(q, w)[n + i] = w
      BY <3>1, <1>2, Zenon
    <3> QED
      BY <3>2, <3>3, Zenon
  <2>3. i \in 1..Len(rest) \/ i = Len(rest) + 1
    BY <1>1
  <2> QED
    BY <2>1, <2>2, <2>3, Zenon
<1>5. Len(Append(q, w)) = n + Len(Append(rest, w))
  <2>1. Len(q) + 1 = n + (Len(rest) + 1)
    BY <1>1, <1>3
  <2> QED
    BY <2>1, <1>1, <1>2, Zenon
<1>6. \A i \in 1..Len(Append(rest, w)) : Append(rest, w)[i] = Append(q, w)[n + i]
  BY <1>1, <1>4, Zenon
<1> QED
  BY <1>5, <1>6, Zenon DEF SplitAt

\* The row only grows, and not at all once it is complete.
LEMMA RowGrows ==
  ASSUME TypeOK, FifoEdge
  PROVE  /\ Len(row) \in Nat /\ Len(row') \in Nat /\ Len(row) <= Len(row')
         /\ \A i \in 1..Len(row) : row'[i] = row[i]
         /\ Len(row) = NumCols => row' = row /\ fifo' = Popped
<1>1. row \in Seq(Float) /\ Len(row) \in Nat /\ NumCols \in Nat
  BY RowAssumption DEF TypeOK
<1>2. CASE fifo' = Popped /\ UNCHANGED row
  BY <1>1, <1>2
<1>3. ASSUME Len(row) < NumCols, NEW w \in Float, row' = Append(row, w)
      PROVE  /\ Len(row') \in Nat /\ Len(row) <= Len(row')
             /\ \A i \in 1..Len(row) : row'[i] = row[i]
             /\ Len(row) # NumCols
  <2>1. /\ Len(row') = Len(row) + 1
        /\ \A i \in 1..Len(row) : row'[i] = row[i]
    BY <1>1, <1>3, AppendOne
  <2> QED
    BY <1>1, <1>3, <2>1
<1> QED
  BY <1>1, <1>2, <1>3 DEF FifoEdge

\* The words left by the block, and the best of those it has taken, survive
\* what the reader does at the same edge.
LEMMA SearchGoesOn ==
  ASSUME TypeOK, FifoEdge, curr_col' \in Nat, pivot_col' \in Nat,
         value_pivot_col_last_row' \in Float,
         SplitAt(row, curr_col', Popped),
         BestIn(row, curr_col', value_pivot_col_last_row', pivot_col')
  PROVE  RowSplit' /\ Best(curr_col)'
<1>1. Popped \in Seq(Float) /\ row \in Seq(Float)
  BY PoppedType DEF TypeOK
<1>2. CASE fifo' = Popped /\ UNCHANGED row
  BY <1>2 DEF RowSplit, Best
<1>3. ASSUME NEW w \in Float, row' = Append(row, w), fifo' = Append(Popped, w)
      PROVE  RowSplit' /\ Best(curr_col)'
  <2>1. SplitAt(row', curr_col', fifo')
    BY <1>1, <1>3, SplitAppend
  <2>2. Len(row) \in Nat /\ Len(Popped) \in Nat /\ curr_col' <= Len(row)
    BY <1>1 DEF SplitAt
  <2>3. BestIn(row', curr_col', value_pivot_col_last_row', pivot_col')
    BY <1>1, <1>3, <2>2, BestAppend
  <2> QED
    BY <2>1, <2>3 DEF RowSplit, Best
<1> QED
  BY <1>2, <1>3 DEF FifoEdge

-----------------------------------------------------------------------------
(* One step per action of the block, at an edge that leaves it running.     *)

Running ==
  /\ TypeOK /\ Progress /\ resetn /\ clean
  /\ resetn' = TRUE /\ clean' = clean /\ FifoEdge

LEMMA NatTypes ==
  ASSUME TypeOK
  PROVE  /\ curr_col \in Nat /\ pivot_col \in Nat /\ curr_col <= NumCols
         /\ NumCols \in Nat
         /\ Len(row) \in Nat /\ Len(fifo) \in Nat /\ Len(row) <= NumCols
BY RowAssumption DEF TypeOK

LEMMA RestStep ==
  ASSUME Running, Rest PROVE Progress'
<1>1. /\ cont' = cont /\ terminate' = terminate
      /\ value_pivot_col_last_row' = value_pivot_col_last_row
      /\ pivot_col' = pivot_col
      /\ cont \/ terminate
  BY DEF Rest, latches, search
<1>2. ~tready' /\ Popped = fifo
  BY <1>1 DEF tready, Popped
<1>3. cont => /\ Len(row') = NumCols /\ fifo' = <<>>
              /\ Negative(value_pivot_col_last_row') /\ Best(NumCols)'
  BY <1>1, <1>2, RowGrows DEF Running, Progress, Best
<1>4. terminate => (ErrorSeen \/ Optimal)'
  <2> SUFFICES ASSUME terminate PROVE (ErrorSeen \/ Optimal)'
    OBVIOUS
  <2>1. CASE ErrorSeen
    <3>1. PICK i \in 1..Len(row) : row[i].mag = Infinite
      BY <2>1 DEF ErrorSeen
    <3>2. i \in 1..Len(row') /\ row'[i] = row[i]
      BY RowGrows DEF Running
    <3> QED
      BY <3>1, <3>2 DEF ErrorSeen
  <2>2. CASE Optimal
    BY <2>2, RowGrows DEF Running, Optimal
  <2> QED
    BY <2>1, <2>2 DEF Running, Progress
<1> QED
  BY <1>1, <1>2, <1>3, <1>4 DEF Progress

LEMMA StarveStep ==
  ASSUME Running, Starve PROVE Progress'
<1>1. /\ cont' = cont /\ terminate' = terminate /\ ~cont /\ ~terminate
      /\ UNCHANGED search /\ fifo = <<>> /\ tready
  BY DEF Starve, latches, tready
<1>2. RowSplit /\ Best(curr_col) /\ Popped = fifo
  BY <1>1 DEF Running, Progress, Popped
<1>3. curr_col \in Nat /\ pivot_col \in Nat /\ value_pivot_col_last_row \in Float
  BY NatTypes DEF Running, TypeOK
<1>4. RowSplit' /\ Best(curr_col)'
  BY <1>1, <1>2, <1>3, SearchGoesOn DEF Running, RowSplit, Best, search
<1> QED
  BY <1>1, <1>4 DEF Progress

LEMMA DecideStep ==
  ASSUME Running, Decide PROVE Progress'
<1>1. tready /\ curr_col = NumCols /\ ~cont /\ ~terminate
  BY DEF Decide, tready
<1>2. RowSplit /\ Best(NumCols)
  BY <1>1 DEF Running, Progress
<1>3. Len(row) = NumCols /\ fifo = <<>>
  <2>1. Len(fifo) = 0
    BY <1>1, <1>2, NatTypes DEF RowSplit, SplitAt, Running
  <2> QED
    BY <1>1, <1>2, <2>1, NatTypes, EmptySeq DEF RowSplit, SplitAt, Running, TypeOK
<1>4. row' = row /\ fifo' = <<>>
  BY <1>3, RowGrows DEF Running, Popped
<1>5. UNCHANGED search
  BY DEF Decide
<1>6. CASE value_pivot_col_last_row.neg
  <2>1. cont' = TRUE /\ terminate' = FALSE
    BY <1>1, <1>6 DEF Decide
  <2>2. Negative(value_pivot_col_last_row)
    BY <1>2, <1>6, FloatFields DEF Best, BestIn
  <2> QED
    BY <1>2, <1>3, <1>4, <1>5, <2>1, <2>2 DEF Progress, Best, search, tready
<1>7. CASE ~value_pivot_col_last_row.neg
  <2>1. terminate' = TRUE /\ cont' = FALSE
    BY <1>1, <1>7 DEF Decide
  <2>2. Optimal
    BY <1>2, <1>3, <1>7 DEF Best, BestIn, Negative, Optimal
  <2> QED
    BY <1>4, <2>1, <2>2 DEF Progress, Optimal, tready
<1> QED
  BY <1>6, <1>7

LEMMA TakeWordStep ==
  ASSUME Running, TakeWord PROVE Progress'
<1> DEFINE w == Head(fifo)
<1>1. /\ tready /\ ~cont /\ ~terminate /\ cont' = FALSE /\ fifo # <<>>
      /\ curr_col' = curr_col + 1 /\ Popped = Tail(fifo)
  BY DEF TakeWord, tready, Popped
<1>2. RowSplit /\ Best(curr_col)
  BY <1>1 DEF Running, Progress
<1>3. /\ row \in Seq(Float) /\ fifo \in Seq(Float)
      /\ curr_col \in Nat /\ pivot_col \in Nat /\ value_pivot_col_last_row \in Float
  BY NatTypes DEF Running, TypeOK
<1>4. /\ SplitAt(row, curr_col + 1, Popped)
      /\ curr_col + 1 <= Len(row) /\ w = row[curr_col + 1] /\ w \in Float
  BY <1>1, <1>2, <1>3, SplitTail, HeadTail DEF RowSplit
<1>5. CASE w.mag = Infinite
  <2>1. terminate' = TRUE
    BY <1>5 DEF TakeWord
  <2>2. curr_col + 1 \in 1..Len(row') /\ row'[curr_col + 1] = w
    BY <1>3, <1>4, RowGrows DEF Running
  <2>3. ErrorSeen'
    BY <1>5, <2>2 DEF ErrorSeen
  <2> QED
    BY <1>1, <2>1, <2>3 DEF Progress, tready
<1>6. CASE w.mag # Infinite
  <2>1. /\ terminate' = FALSE
        /\ IF Beats(w, value_pivot_col_last_row)
           THEN value_pivot_col_last_row' = w /\ pivot_col' = curr_col
           ELSE value_pivot_col_last_row' = value_pivot_col_last_row /\ pivot_col' = pivot_col
    BY <1>1, <1>6 DEF TakeWord
  <2>2. BestIn(row, curr_col + 1, value_pivot_col_last_row', pivot_col')
    BY <1>2, <1>3, <1>4, <2>1, BestStep DEF Best
  <2>3. curr_col' \in Nat /\ pivot_col' \in Nat /\ value_pivot_col_last_row' \in Float
    BY <1>1, <1>3, <1>4, <2>1
  <2>4. RowSplit' /\ Best(curr_col)'
    BY <1>1, <1>4, <2>2, <2>3, SearchGoesOn DEF Running
  <2> QED
    BY <1>1, <2>1, <2>4 DEF Progress
<1> QED
  BY <1>5, <1>6

LEMMA ResetStep ==
  ASSUME IInv, ~resetn, Reset, clean, resetn' = TRUE, FifoEdge PROVE Progress'
<1>1. row = <<>> /\ fifo = <<>> /\ TypeOK
  BY DEF IInv
<1>2. /\ cont' = FALSE /\ terminate' = FALSE /\ curr_col' = 0 /\ pivot_col' = 0
      /\ value_pivot_col_last_row' = Zero
  BY DEF Reset
<1>3. fifo' = <<>> /\ row' = <<>>
  BY <1>1 DEF FifoEdge, Popped
<1>4. RowSplit' /\ Best(curr_col)'
  BY <1>2, <1>3, EmptySeq DEF RowSplit, SplitAt, Best, BestIn
<1> QED
  BY <1>2, <1>4 DEF Progress

LEMMA StepInv == IInv /\ [Next]_vars => IInv'
<1> SUFFICES ASSUME IInv, [Next]_vars PROVE IInv'
  OBVIOUS
<1>1. TypeOK'
  BY TypeStep DEF IInv
<1>2. CASE UNCHANGED vars
  <2>1. (~resetn => row = <<>> /\ (clean => fifo = <<>>))'
    BY <1>2 DEF IInv, vars
  <2>2. Progress'
    BY <1>2 DEF IInv, vars, latches, search, Progress, tready, RowSplit, Best, ErrorSeen,
                Optimal
  <2> QED
    BY <1>1, <2>1, <2>2 DEF IInv
<1>3. CASE BlockEdge /\ resetn' = TRUE /\ FifoEdge /\ UNCHANGED <<clean, rounds>>
  <2>1. CASE ~clean
    BY <1>1, <1>3, <2>1 DEF IInv, Progress
  <2>2. CASE clean /\ ~resetn
    BY <1>1, <1>3, <2>2, ResetStep DEF IInv, BlockEdge, Rest, Decide, TakeWord, Starve, tready
  <2>3. CASE clean /\ resetn
    <3>1. Running
      BY <1>3, <2>3 DEF Running, IInv
    <3>2. Progress'
      BY <1>3, <2>3, <3>1, RestStep, DecideStep, TakeWordStep, StarveStep DEF BlockEdge, Reset
    <3> QED
      BY <1>1, <1>3, <3>2 DEF IInv
  <2> QED
    BY <2>1, <2>2, <2>3
<1>4. CASE resetn' = FALSE /\ fifo' = Popped /\ row' = <<>> /\ clean' = (fifo = <<>>)
  BY <1>1, <1>4 DEF IInv, Progress, Popped
<1> QED
  BY <1>2, <1>3, <1>4 DEF Next, ControlEdge

-----------------------------------------------------------------------------

\* The inductive invariant: the registers hold the best of the words taken,
\* and those and the FIFO make up the row.
THEOREM Inductive == Spec => []IInv
BY InitInv, StepInv, PTL DEF Spec

\* Registers and latches stay in their ranges, for every width of the row.
THEOREM TypeCorrect == Spec => []TypeOK
<1>1. IInv => TypeOK
  BY DEF IInv
<1> QED
  BY <1>1, Inductive, PTL

\* "Continue" names the leftmost most negative entry of the whole row.
THEOREM ChoosesMostNegative == Spec => []MostNegative
<1>1. IInv => MostNegative
  <2> SUFFICES ASSUME IInv, cont, resetn, clean PROVE MostNegative
    BY DEF MostNegative
  <2> DEFINE best == value_pivot_col_last_row
  <2>1. Len(row) = NumCols /\ Negative(best) /\ BestIn(row, NumCols, best, pivot_col)
    BY DEF IInv, Progress, Best
  <2>2. /\ best = row[pivot_col + 1]
        /\ \A i \in 1..NumCols :
             Negative(row[i]) => /\ row[i].mag <= best.mag
                                 /\ i <= pivot_col => row[i].mag < best.mag
    BY <2>1, FloatFields DEF BestIn
  <2> QED
    BY <2>1, <2>2 DEF MostNegative
<1> QED
  BY <1>1, Inductive, PTL

\* "Terminate" means that the tableau is optimal or holds an error.
THEOREM TerminatesRightly == Spec => []OptimalOrError
<1>1. IInv => OptimalOrError
  BY DEF IInv, Progress, OptimalOrError, ErrorSeen, Optimal
<1> QED
  BY <1>1, Inductive, PTL

\* A round that ends with "continue" leaves its FIFO empty.
THEOREM ConsumesRow == Spec => []RowConsumed
<1>1. IInv => RowConsumed
  BY DEF IInv, Progress, RowConsumed
<1> QED
  BY <1>1, Inductive, PTL
=============================================================================
