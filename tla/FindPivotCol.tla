---------------------------- MODULE FindPivotCol ----------------------------
(***************************************************************************)
(* find_pivot_col.v: takes the objective row from a FIFO, one word at an   *)
(* edge, and says "continue" with the column of the most negative entry,   *)
(* or "terminate" when there is none or an entry is infinite or no number. *)
(*                                                                         *)
(* A word is an IEEE 754 number of which the sign bit and the 31 bits of   *)
(* magnitude are kept, the only parts the code looks at.  The all-ones     *)
(* exponent is a magnitude of its own, above the finite ones.              *)
(***************************************************************************)
EXTENDS Integers, Sequences

CONSTANTS
  NumCols,     \* num_cols
  Infinite,    \* the magnitude of infinities and NaNs; below it are the finite ones
  MaxRounds    \* bound: times the block is started in a behaviour

ASSUME RowAssumption ==
  NumCols \in Nat \ {0} /\ Infinite \in Nat \ {0} /\ MaxRounds \in Nat

VARIABLES
  resetn,                    \* active-low start line from the control unit
  cont, terminate,
  curr_col, pivot_col,
  value_pivot_col_last_row,  \* the most negative entry so far, or 0
  fifo,                      \* words on their way from the reader
  row,                       \* history: words the reader has sent in this round
  clean,                     \* history: the FIFO was empty when this round began
  rounds                     \* history: times the block was started

latches == <<cont, terminate>>
search == <<curr_col, pivot_col, value_pivot_col_last_row>>
vars == <<resetn, latches, search, fifo, row, clean, rounds>>

Float == [neg : BOOLEAN, mag : 0..Infinite]
Zero == [neg |-> FALSE, mag |-> 0]

Init ==
  /\ resetn = TRUE
  /\ cont = FALSE /\ terminate = FALSE
  /\ curr_col = 0 /\ pivot_col = 0 /\ value_pivot_col_last_row = Zero
  /\ fifo = <<>> /\ row = <<>> /\ clean = TRUE /\ rounds = 0

-----------------------------------------------------------------------------
(* The block.                                                               *)

tready == ~terminate /\ ~cont /\ resetn

Reset ==
  /\ ~resetn
  /\ cont' = FALSE /\ terminate' = FALSE
  /\ curr_col' = 0 /\ pivot_col' = 0 /\ value_pivot_col_last_row' = Zero

Rest ==
  /\ resetn /\ (cont \/ terminate)
  /\ UNCHANGED <<latches, search>>

\* Mutation: column 0 is taken for "none found".
Decide_ColumnZero ==
  /\ tready /\ curr_col = NumCols
  /\ IF pivot_col # 0
     THEN cont' = TRUE /\ UNCHANGED terminate
     ELSE terminate' = TRUE /\ UNCHANGED cont
  /\ UNCHANGED search

Decide ==
  /\ tready /\ curr_col = NumCols
  /\ IF value_pivot_col_last_row.neg
     THEN cont' = TRUE /\ UNCHANGED terminate
     ELSE terminate' = TRUE /\ UNCHANGED cont
  /\ UNCHANGED search

\* Mutation: a tie goes to the later column, and a negative zero is accepted.
Beats_OrEqual(w, best) == w.neg /\ w.mag >= best.mag

Beats(w, best) == w.neg /\ w.mag > best.mag

\* Mutation: only the entries that are kept count as columns.
TakeWord_CountKept ==
  /\ tready /\ curr_col # NumCols /\ fifo # <<>>
  /\ LET w == Head(fifo)
     IN  IF w.mag = Infinite
         THEN terminate' = TRUE /\ UNCHANGED search
         ELSE IF Beats(w, value_pivot_col_last_row)
         THEN /\ value_pivot_col_last_row' = w
              /\ pivot_col' = curr_col
              /\ curr_col' = curr_col + 1
              /\ UNCHANGED terminate
         ELSE UNCHANGED <<terminate, search>>
  /\ UNCHANGED cont

TakeWord ==
  /\ tready /\ curr_col # NumCols /\ fifo # <<>>
  /\ curr_col' = curr_col + 1
  /\ LET w == Head(fifo)
     IN  IF w.mag = Infinite
         THEN terminate' = TRUE /\ UNCHANGED <<pivot_col, value_pivot_col_last_row>>
         ELSE IF Beats(w, value_pivot_col_last_row)
         THEN /\ value_pivot_col_last_row' = w
              /\ pivot_col' = curr_col
              /\ UNCHANGED terminate
         ELSE UNCHANGED <<terminate, pivot_col, value_pivot_col_last_row>>
  /\ UNCHANGED cont

Starve ==
  /\ tready /\ curr_col # NumCols /\ fifo = <<>>
  /\ UNCHANGED <<latches, search>>

BlockEdge == Reset \/ Rest \/ Decide \/ TakeWord \/ Starve

-----------------------------------------------------------------------------
(* The FIFO, the reader and the control unit.                               *)

\* A word offered while TREADY is up leaves the FIFO, wanted or not.
Popped == IF tready /\ fifo # <<>> THEN Tail(fifo) ELSE fifo

\* The reader sends one row for each start.
FifoEdge ==
  \/ /\ fifo' = Popped
     /\ UNCHANGED row
  \/ /\ resetn /\ rounds > 0 /\ Len(row) < NumCols
     /\ \E w \in Float : row' = Append(row, w) /\ fifo' = Append(Popped, w)

\* The start line is low for one edge, and only after the last row is done with
\* and sent in full; the FIFO keeps what the block has left in it.
ControlEdge ==
  \/ /\ resetn' = TRUE
     /\ FifoEdge
     /\ UNCHANGED <<clean, rounds>>
  \/ /\ resetn /\ rounds < MaxRounds
     /\ rounds > 0 => (cont \/ terminate) /\ Len(row) = NumCols
     /\ resetn' = FALSE
     /\ fifo' = Popped
     /\ row' = <<>>
     /\ clean' = (fifo = <<>>)
     /\ rounds' = rounds + 1

Next == BlockEdge /\ ControlEdge

Spec == Init /\ [][Next]_vars

(* Fairness: the clock runs and the reader gets the words from memory.      *)
Fairness ==
  /\ WF_vars(Next)
  /\ WF_vars(Next /\ Len(row') > Len(row))

FairSpec == Spec /\ Fairness

-----------------------------------------------------------------------------

\* Registers, latches and FIFO stay in their ranges.
TypeOK ==
  /\ resetn \in BOOLEAN /\ cont \in BOOLEAN /\ terminate \in BOOLEAN
  /\ curr_col \in 0..NumCols /\ pivot_col \in 0..NumCols-1
  /\ value_pivot_col_last_row \in Float
  /\ fifo \in Seq(Float)
  /\ row \in Seq(Float) /\ Len(row) <= NumCols
  /\ clean \in BOOLEAN /\ rounds \in 0..MaxRounds

Negative(w) == w.neg /\ w.mag > 0

\* "Continue" names the leftmost of the most negative entries of the row.
MostNegative ==
  cont /\ resetn /\ clean =>
    /\ Len(row) = NumCols
    /\ Negative(row[pivot_col + 1])
    /\ \A i \in 1..NumCols :
         Negative(row[i]) =>
           /\ row[i].mag <= row[pivot_col + 1].mag
           /\ i <= pivot_col => row[i].mag < row[pivot_col + 1].mag

\* "Terminate" means an entry that is infinite or no number, or an optimal
\* tableau: no entry of the row is negative, a negative zero counting as zero.
OptimalOrError ==
  terminate /\ resetn /\ clean =>
    \/ \E i \in 1..Len(row) : row[i].mag = Infinite
    \/ /\ Len(row) = NumCols
       /\ \A i \in 1..NumCols : ~Negative(row[i])

\* "Continue" leaves nothing in the FIFO that the next round could take for its
\* own first word; only a round ended by an error does.
RowConsumed ==
  cont /\ resetn /\ clean => fifo = <<>>

\* A started block reports.
Reports == ~resetn ~> (cont \/ terminate) /\ resetn
=============================================================================
