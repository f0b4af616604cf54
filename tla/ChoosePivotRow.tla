--------------------------- MODULE ChoosePivotRow ---------------------------
(***************************************************************************)
(* choose_pivot_row.v: the ratio test.  The right hand sides and the pivot *)
(* column arrive in two FIFOs, each at its own pace, meet in a pipelined   *)
(* divider, and the quotients come out in order with the row number and    *)
(* the pivot column's word beside them.  The block keeps the smallest and  *)
(* says "continue", or "terminate" when there is none.                     *)
(*                                                                         *)
(* A word in a FIFO is the number of its row.  A quotient is its sign, its *)
(* magnitude and whether the divider flagged it (by zero, overflow ...).   *)
(***************************************************************************)
EXTENDS Integers, Sequences

CONSTANTS
  NumRows,     \* num_rows: rows below the objective row
  Top,         \* the largest magnitude, which no quotient has
  Capacity,    \* operands of one side the divider holds
  MaxRounds    \* bound: times the block is started in a behaviour

ASSUME RatioAssumption ==
  /\ NumRows \in Nat \ {0} /\ Top \in Nat \ {0}
  /\ Capacity \in Nat \ {0} /\ MaxRounds \in Nat

VARIABLES
  reset_left,                  \* edges the active-low start line still stays low
  cont, terminate,
  counter_a, counter_b,        \* operands taken from either FIFO
  best_ratio, ratio_updated, pivot_row_index, pivot_col_pivot_row_data,
  fifo_rhs, fifo_col,          \* words on their way from the two readers
  div_a, div_b,                \* operands in the divider, a with its row number
  sent_rhs, sent_col,          \* history: words the readers have sent in this round
  ratios,                      \* history: quotients of this round
  rounds                       \* history: times the block was started

latches == <<cont, terminate>>
counters == <<counter_a, counter_b>>
best == <<best_ratio, ratio_updated, pivot_row_index, pivot_col_pivot_row_data>>
readers == <<fifo_rhs, fifo_col, sent_rhs, sent_col, rounds>>
vars == <<reset_left, latches, counters, best, div_a, div_b, readers, ratios>>

Float == [neg : BOOLEAN, mag : 0..Top]
Ratio == [flag : BOOLEAN, neg : BOOLEAN, mag : 0..Top-1]
Quotient(r) == [neg |-> r.neg, mag |-> r.mag]

\* 32'hffff_ffff, above every quotient.
NoRatio == [neg |-> TRUE, mag |-> Top]

\* The bits of a number, compared without regard to what the first one means.
Bits(f) == IF f.neg THEN Top + 1 + f.mag ELSE f.mag

resetn == reset_left = 0

Init ==
  /\ reset_left = 0
  /\ cont = FALSE /\ terminate = FALSE
  /\ counter_a = 0 /\ counter_b = 0
  /\ best_ratio = NoRatio /\ ratio_updated = FALSE
  /\ pivot_row_index = 0 /\ pivot_col_pivot_row_data = 0
  /\ fifo_rhs = <<>> /\ fifo_col = <<>> /\ div_a = <<>> /\ div_b = <<>>
  /\ sent_rhs = 0 /\ sent_col = 0 /\ ratios = <<>> /\ rounds = 0

-----------------------------------------------------------------------------
(* The operands.  The FIFOs are told "ready" only while there is no answer; *)
(* the divider looks at its own ready lines alone.                          *)

Open(ready) == ~cont /\ ~terminate /\ resetn /\ ready

Popped(fifo, ready) == IF Open(ready) /\ fifo # <<>> THEN Tail(fifo) ELSE fifo

Fed(queue, fifo, word, ready) ==
  IF ready /\ fifo # <<>> THEN Append(queue, word) ELSE queue

Count(counter, fifo, ready) ==
  IF ~resetn THEN 0 ELSE IF Open(ready) /\ fifo # <<>> THEN counter + 1 ELSE counter

OperandEdge(divaready, divbready) ==
  /\ counter_a' = Count(counter_a, fifo_rhs, divaready)
  /\ counter_b' = Count(counter_b, fifo_col, divbready)

\* The divider: reset by the start line, it pairs its operands in the order
\* they came and gives their quotient some edges later.
DividerEdge(divaready, divbready, out) ==
  /\ divaready => Len(div_a) < Capacity
  /\ divbready => Len(div_b) < Capacity
  /\ out => resetn /\ div_a # <<>> /\ div_b # <<>>
  /\ LET rest_a == IF out THEN Tail(div_a) ELSE div_a
         rest_b == IF out THEN Tail(div_b) ELSE div_b
     IN  IF ~resetn
         THEN div_a' = <<>> /\ div_b' = <<>>
         ELSE /\ div_a' = Fed(rest_a, fifo_rhs, counter_a, divaready)
              /\ div_b' = Fed(rest_b, fifo_col, Head(fifo_col), divbready)

-----------------------------------------------------------------------------
(* The quotients.                                                           *)

Reset ==
  /\ ~resetn
  /\ best_ratio' = NoRatio /\ ratio_updated' = FALSE
  /\ pivot_row_index' = 0 /\ pivot_col_pivot_row_data' = 0
  /\ cont' = FALSE /\ terminate' = FALSE

\* No quotient at this edge, or one that comes after the answer.
NoResult(out) ==
  /\ resetn
  /\ ~out \/ cont \/ terminate
  /\ UNCHANGED <<latches, best>>

Judging(out) == resetn /\ out /\ ~cont /\ ~terminate

LastRow == Head(div_a) = NumRows - 1

\* Mutation: a flagged last row always ends the problem.
Flagged_Terminate(out, r) ==
  /\ Judging(out) /\ r.flag
  /\ cont' = FALSE
  /\ terminate' = LastRow
  /\ UNCHANGED best

\* A flagged quotient is passed over; on the last row the answer depends on
\* whether an earlier row was accepted.
Flagged(out, r) ==
  /\ Judging(out) /\ r.flag
  /\ cont' = (LastRow /\ ratio_updated)
  /\ terminate' = (LastRow /\ ~ratio_updated)
  /\ UNCHANGED best

\* Mutation: of two equal quotients the later one is kept.
Better_OrEqual(r) ==
  /\ ~r.neg \/ r.mag = 0
  /\ Bits(r) <= Bits(best_ratio)

Better(r) ==
  /\ ~r.neg \/ r.mag = 0
  /\ Bits(r) < Bits(best_ratio)

\* Mutation: the row counter is read when the quotient comes out.
Accept_LateRow(out, r) ==
  /\ Judging(out) /\ ~r.flag /\ Better(r)
  /\ best_ratio' = Quotient(r)
  /\ ratio_updated' = TRUE
  /\ pivot_row_index' = counter_b - 1
  /\ pivot_col_pivot_row_data' = Head(div_b)
  /\ cont' = LastRow
  /\ UNCHANGED terminate

Accept(out, r) ==
  /\ Judging(out) /\ ~r.flag /\ Better(r)
  /\ best_ratio' = Quotient(r)
  /\ ratio_updated' = TRUE
  /\ pivot_row_index' = Head(div_a)
  /\ pivot_col_pivot_row_data' = Head(div_b)
  /\ cont' = LastRow
  /\ UNCHANGED terminate

\* Mutation: a last row that is passed over is not noticed.
PassOver_Forget(out, r) ==
  /\ Judging(out) /\ ~r.flag /\ ~Better(r)
  /\ UNCHANGED <<latches, best>>

\* Mutation: any row passed over after an accepted one ends the search.
PassOver_Early(out, r) ==
  /\ Judging(out) /\ ~r.flag /\ ~Better(r)
  /\ cont' = ratio_updated
  /\ UNCHANGED <<terminate, best>>

PassOver(out, r) ==
  /\ Judging(out) /\ ~r.flag /\ ~Better(r)
  /\ cont' = (LastRow /\ ratio_updated)
  /\ UNCHANGED <<terminate, best>>

ResultEdge(out, r) ==
  \/ Reset
  \/ NoResult(out)
  \/ Flagged(out, r)
  \/ Accept(out, r)
  \/ PassOver(out, r)

-----------------------------------------------------------------------------
(* The readers and the control unit.                                        *)

\* Each reader sends one column for each start, a word at a time.
ReaderEdge(divaready, divbready) ==
  \E more_rhs, more_col \in BOOLEAN :
    LET rhs == Popped(fifo_rhs, divaready)
        col == Popped(fifo_col, divbready)
    IN  /\ more_rhs => resetn /\ rounds > 0 /\ sent_rhs < NumRows
        /\ more_col => resetn /\ rounds > 0 /\ sent_col < NumRows
        /\ fifo_rhs' = IF more_rhs THEN Append(rhs, sent_rhs) ELSE rhs
        /\ fifo_col' = IF more_col THEN Append(col, sent_col) ELSE col
        /\ sent_rhs' = IF more_rhs THEN sent_rhs + 1 ELSE sent_rhs
        /\ sent_col' = IF more_col THEN sent_col + 1 ELSE sent_col

\* The start line is low for two edges; the next round follows an answer.
ControlEdge(divaready, divbready) ==
  \/ /\ reset_left' = IF reset_left = 0 THEN 0 ELSE reset_left - 1
     /\ ReaderEdge(divaready, divbready)
     /\ UNCHANGED rounds
  \/ /\ resetn /\ rounds < MaxRounds
     /\ rounds > 0 => cont \/ terminate
     /\ reset_left' = 2
     /\ fifo_rhs' = Popped(fifo_rhs, divaready)
     /\ fifo_col' = Popped(fifo_col, divbready)
     /\ sent_rhs' = 0 /\ sent_col' = 0
     /\ rounds' = rounds + 1

Record(out, r) ==
  ratios' = IF ~resetn THEN <<>> ELSE IF out THEN Append(ratios, r) ELSE ratios

\* A quotient that does not come out is not looked at.
AnyRatio == CHOOSE r \in Ratio : TRUE

Edge(divaready, divbready, out, r) ==
  /\ OperandEdge(divaready, divbready)
  /\ DividerEdge(divaready, divbready, out)
  /\ ResultEdge(out, r)
  /\ ControlEdge(divaready, divbready)
  /\ Record(out, r)

Next ==
  \E divaready, divbready, out \in BOOLEAN :
  \E r \in IF out THEN Ratio ELSE {AnyRatio} :
    Edge(divaready, divbready, out, r)

Spec == Init /\ [][Next]_vars

(* Fairness: the clock runs, the readers get their words from memory, and   *)
(* the divider takes what it has room for and divides what it has taken.    *)
Fairness ==
  /\ WF_vars(Next)
  /\ WF_vars(Next /\ sent_rhs' > sent_rhs)
  /\ WF_vars(Next /\ sent_col' > sent_col)
  /\ WF_vars(Next /\ counter_a' > counter_a)
  /\ WF_vars(Next /\ counter_b' > counter_b)
  /\ WF_vars(Next /\ Len(ratios') > Len(ratios))

FairSpec == Spec /\ Fairness

-----------------------------------------------------------------------------

\* Registers, latches, divider and FIFOs stay in their ranges.
TypeOK ==
  /\ reset_left \in 0..2 /\ cont \in BOOLEAN /\ terminate \in BOOLEAN
  /\ counter_a \in 0..NumRows /\ counter_b \in 0..NumRows
  /\ best_ratio \in Float /\ ratio_updated \in BOOLEAN
  /\ pivot_row_index \in 0..NumRows-1 /\ pivot_col_pivot_row_data \in 0..NumRows-1
  /\ fifo_rhs \in Seq(0..NumRows-1) /\ fifo_col \in Seq(0..NumRows-1)
  /\ div_a \in Seq(0..NumRows-1) /\ Len(div_a) <= Capacity
  /\ div_b \in Seq(0..NumRows-1) /\ Len(div_b) <= Capacity
  /\ sent_rhs \in 0..NumRows /\ sent_col \in 0..NumRows
  /\ ratios \in Seq(Ratio) /\ Len(ratios) <= NumRows
  /\ rounds \in 0..MaxRounds

Positive(r) == ~r.flag /\ ~r.neg
Eligible(r) == ~r.flag /\ (~r.neg \/ r.mag = 0)

Chosen == ratios[pivot_row_index + 1]

\* "Continue" comes after the last row, with the first of the rows whose ratio
\* is smallest among the positive ones; a row with ratio minus zero is taken
\* only where no positive one exists.
SmallestRatio ==
  cont /\ resetn =>
    /\ Len(ratios) = NumRows
    /\ Eligible(Chosen)
    /\ \A i \in 1..NumRows :
         Positive(ratios[i]) =>
           /\ Positive(Chosen) /\ Chosen.mag <= ratios[i].mag
           /\ i <= pivot_row_index => Chosen.mag < ratios[i].mag

\* The pivot handed to update_pivot_row is the word of the pivot column in the
\* chosen row, however the two columns drifted apart on their way.
PivotOfRow ==
  cont /\ resetn => pivot_col_pivot_row_data = pivot_row_index

\* "Terminate" comes after the last row, when no row is eligible and the last ratio
\* is flagged: where only the flag is missing there is no answer at all.
Unbounded ==
  terminate /\ resetn =>
    /\ Len(ratios) = NumRows
    /\ \A i \in 1..NumRows : ~Eligible(ratios[i])
    /\ ratios[NumRows].flag

\* An answer leaves nothing behind for the next round to take for its own: both
\* columns were sent and taken in full and the divider is empty.
AllConsumed ==
  (cont \/ terminate) /\ resetn =>
    /\ sent_rhs = NumRows /\ sent_col = NumRows
    /\ fifo_rhs = <<>> /\ fifo_col = <<>>
    /\ div_a = <<>> /\ div_b = <<>>

Answered == (cont \/ terminate) /\ resetn

\* All ratios are in, no row is eligible, and the last one was not flagged either.
Silent ==
  /\ Len(ratios) = NumRows
  /\ \A i \in 1..NumRows : ~Eligible(ratios[i])
  /\ ~ratios[NumRows].flag

\* A started block reports, unless it is silent in that sense.
ReportsOrSilent == ~resetn ~> Answered \/ Silent

\* That silence is for good: no answer is given, neither "terminate", which the
\* same tableau gets when its last ratio is flagged (line 122), nor "continue" with
\* a row that was never accepted: SmallestRatio and Unbounded together.
SilentForGood == Silent /\ resetn => ~cont /\ ~terminate
=============================================================================
