------------------------ MODULE PivotUpdate_proofs ------------------------
(***************************************************************************)
(* Proofs about the second half of a round, for every size of the tableau, *)
(* every depth of the FIFOs and of the pipelines, every pattern of stalls, *)
(* and any number of rounds and of problems.                               *)
(***************************************************************************)
EXTENDS PivotUpdate, TLAPS

WordType == [place : Int, version : Int]
Operand == [word : WordType, number : Nat, flag : BOOLEAN]
Result == [a : WordType, c : WordType, flag : BOOLEAN, skip : BOOLEAN]
            \cup [a : WordType, b : WordType, c : WordType, flag : BOOLEAN, skip : BOOLEAN]

ControlTypes ==
  /\ phase \in Phase /\ reset_left \in 0..2 /\ start \in BOOLEAN /\ pivot_row \in 2..NumRows
  /\ addressed \in BOOLEAN /\ rst_busy \in BOOLEAN
  /\ version \in Int /\ continuing \in BOOLEAN /\ clean \in BOOLEAN /\ rounds \in Nat
RowTypes ==
  /\ row_cont \in BOOLEAN /\ row_terminate \in BOOLEAN
  /\ input_counter \in Nat /\ waddr \in Nat
  /\ div \in Seq(Operand) /\ bram \in [0..NumCols-1 -> WordType]
  /\ fifo_row \in Seq(WordType) /\ row_busy \in BOOLEAN /\ row_sent \in Nat
ColTypes ==
  /\ dma_state \in Dma!FsmState /\ dma_counter \in Nat
  /\ dma_busy \in BOOLEAN /\ dma_done \in BOOLEAN
  /\ araddr \in Int /\ arvalid \in BOOLEAN /\ rready \in BOOLEAN
  /\ tdata \in WordType /\ tvalid \in BOOLEAN
  /\ owed \in BOOLEAN /\ rvalid \in BOOLEAN /\ fifo_col \in Seq(WordType)
BlockTypes ==
  /\ cont \in BOOLEAN /\ terminate \in BOOLEAN
  /\ row_index \in Nat \ {0} /\ col_index \in 1..NumCols
  /\ bram_state \in 0..2 /\ bram_wait_counter \in Int /\ bram_valid \in BOOLEAN
  /\ pc_state \in {0, 1, 2, 4} /\ pc_tready \in BOOLEAN /\ pc_valid \in BOOLEAN
  /\ pc_data \in WordType /\ bram_stage \in WordType /\ bram_data \in WordType
StreamTypes ==
  /\ unit \in Seq(Result) /\ unit_tvalid \in BOOLEAN
  /\ fifo_tab \in Seq(WordType) /\ tab_busy \in BOOLEAN /\ tab_sent \in Nat
  /\ ddr \in [Place -> Int] /\ landed \in 0..Total /\ writeback_done \in BOOLEAN
Types == ControlTypes /\ RowTypes /\ ColTypes /\ BlockTypes /\ StreamTypes

-----------------------------------------------------------------------------
(* Whether or not the problem found everything at rest.                     *)

\* The start line and the latches of the blocks are those of the phase.
ControlLines ==
  /\ start => phase = "update_tableau"
  /\ phase # "idle" => addressed /\ continuing /\ ~rst_busy
  /\ phase = "update_row" /\ reset_left = 1 => ~row_cont /\ ~row_terminate
  /\ phase = "update_tableau" /\ reset_left = 1 => ~cont /\ ~terminate
  /\ phase = "update_tableau" => row_cont /\ ~row_terminate
  /\ phase = "update_tableau" /\ ~start => reset_left = 0 /\ cont
  /\ unit_tvalid => unit # <<>>

\* The lines of the strided reader are those of its state.
DmaLines ==
  /\ arvalid <=> dma_state = "S2_COL"
  /\ rready <=> dma_state = "S3_COL"
  /\ tvalid <=> dma_state = "S5_COL"
  /\ owed <=> dma_state = "S3_COL"
  /\ rvalid => owed
  /\ dma_state = "S0" => dma_counter = 0
  /\ dma_state \in {"S1_COL", "S2_COL", "S3_COL", "S4_COL", "S5_COL"} => dma_counter < NumRows
  /\ dma_state = "S6_COL" => dma_counter \in 1..NumRows /\ fifo_col # <<>>
  /\ rst_busy => dma_state = "S0"

-----------------------------------------------------------------------------
(* Of a problem that found everything at rest.                              *)

\* A block is at work from the edge after its reset and the start of its reader.
RowOn == phase = "update_row" /\ reset_left < 2
TabOn == phase = "update_tableau" /\ reset_left < 2
Resting == phase \in {"row", "update_row"} \/ (phase = "update_tableau" /\ reset_left = 2)

\* The words of the pivot row, of the pivot column and of the tableau, and what
\* is made of them, each in its order.
RowBase == (pivot_row - 1) * NumCols
RowWords == [n \in Nat |-> {Before(RowBase + n)}]
RowOperands == [n \in Nat |-> {d \in Operand : d.word = Before(RowBase + n) /\ d.number = n}]
ColWords == [n \in Nat |-> {Before(n * NumCols + PivotCol)}]
TabWords == [n \in Nat |-> {Before(n)}]
Results == [n \in Nat |-> {u \in Result : RightOperands(u, n)}]

\* A queue holds what comes in an order, from number k on.
Line(q, order, k) == \A i \in 1..Len(q) : q[i] \in order[k + i - 1]

RowQuiet == ~RowOn /\ (phase # "idle" \/ continuing) => fifo_row = <<>> /\ ~row_busy

RowReading ==
  /\ row_sent = input_counter + Len(fifo_row) /\ row_sent <= NumCols
  /\ row_busy <=> row_sent < NumCols
  /\ Line(fifo_row, RowWords, input_counter)
RowDividing ==
  /\ input_counter = waddr + Len(div)
  /\ Line(div, RowOperands, waddr)
  /\ \A c \in 0..NumCols-1 : c < waddr => bram[c] = Before(RowBase + c)
  /\ row_cont <=> waddr = NumCols
RowFlow == RowOn =>
  /\ RowReading
  /\ ~row_terminate => RowDividing
  /\ reset_left = 1 => input_counter = 0 /\ waddr = 0 /\ div = <<>>

\* What the strided reader has pushed, and update_tableau taken, in this round.
ColSent ==
  IF dma_state # "S0" THEN dma_counter
  ELSE IF phase = "row" /\ reset_left = 2 THEN 0 ELSE NumRows
ColTaken == IF ~TabOn THEN 0 ELSE IF pc_valid THEN row_index ELSE row_index - 1

ColFlow == phase # "idle" =>
  /\ ColSent = ColTaken + Len(fifo_col)
  /\ Line(fifo_col, ColWords, ColTaken)
  /\ phase = "row" /\ reset_left = 2 => dma_state = "S0"
  /\ dma_state \in {"S2_COL", "S3_COL"} => araddr = dma_counter * NumCols + PivotCol
  /\ dma_state \in {"S4_COL", "S5_COL"} => tdata = Before(dma_counter * NumCols + PivotCol)
ColIdle == phase = "idle" /\ continuing => dma_state = "S0" /\ fifo_col = <<>>
ColDeaf == Resting => ~pc_tready

TabQuiet == Resting \/ (phase = "idle" /\ continuing) =>
  /\ fifo_tab = <<>> /\ ~tab_busy /\ unit = <<>> /\ landed = 0
  /\ ddr = [p \in Place |-> version]
  /\ ~writeback_done

\* Elements that have entered the arithmetic unit.
Entered == (row_index - 1) * NumCols + (col_index - 1)

Indices == TabOn =>
  /\ row_index \in 1..NumRows+1
  /\ row_index = NumRows + 1 => col_index = 1
  /\ cont <=> row_index = NumRows + 1

TabFlow == TabOn =>
  /\ tab_sent = Entered + Len(fifo_tab) /\ tab_sent <= Total
  /\ tab_busy <=> tab_sent < Total
  /\ Line(fifo_tab, TabWords, Entered)

\* What has landed is the prefix of the tableau that is of the next version.
Landing == TabOn =>
  IF writeback_done
  THEN landed = 0 /\ unit = <<>> /\ cont /\ ddr = [p \in Place |-> version + 1]
  ELSE /\ landed + Len(unit) = Entered
       /\ ddr = [p \in Place |-> IF p < landed THEN version + 1 ELSE version]

TabFresh == TabOn /\ reset_left = 1 =>
  /\ row_index = 1 /\ col_index = 1 /\ unit = <<>>
  /\ bram_state = 0 /\ bram_wait_counter = 2
  /\ pc_state = 0

\* The wait of two edges is that of the stages of the BRAM.
BramFlow == TabOn =>
  /\ bram_valid <=> bram_state = 2
  /\ bram_state = 0 => bram_wait_counter \in {1, 2}
  /\ bram_state = 2 => bram_wait_counter = 2
  /\ bram_state = 0 /\ bram_wait_counter = 1 => bram_stage = bram[col_index - 1]
  /\ bram_state # 0 => bram_stage = bram[col_index - 1] /\ bram_data = bram[col_index - 1]

ColumnFsm == TabOn =>
  /\ pc_valid <=> pc_state = 2
  /\ pc_tready <=> pc_state = 1
  /\ pc_state = 4 => cont
  /\ cont => pc_state \in {0, 4}
  /\ ~pc_valid => col_index = 1
  /\ pc_valid => pc_data = Before((row_index - 1) * NumCols + PivotCol)

CleanRound ==
  /\ RowQuiet /\ RowFlow /\ RowInPlace
  /\ ColFlow /\ ColIdle /\ ColDeaf /\ ColumnFsm
  /\ TabQuiet /\ Indices /\ TabFlow /\ Landing /\ TabFresh
  /\ BramFlow /\ OperandsAlways

IInv == Types /\ ControlLines /\ DmaLines /\ (clean => CleanRound)

-----------------------------------------------------------------------------
(* Numbers.                                                                 *)

LEMMA Ranges ==
  /\ NumRows \in Nat /\ NumRows > 1 /\ NumCols \in Nat /\ NumCols > 0
  /\ PivotCol \in 0..NumCols-1 /\ Depth \in Nat /\ Depth > 0
  /\ Total \in Nat /\ Total > 0 /\ Total = NumRows * NumCols
<1>1. /\ NumRows \in Nat /\ NumRows > 1 /\ NumCols \in Nat /\ NumCols > 0
      /\ PivotCol \in 0..NumCols-1 /\ Depth \in Nat /\ Depth > 0
  BY UpdateAssumption
<1>2. Total \in Nat /\ Total = NumRows * NumCols
  BY <1>1 DEF Total
<1>3. NumRows * NumCols >= 1 * 1
  BY <1>1
<1> QED
  BY <1>1, <1>2, <1>3

\* Where a row begins.
LEMMA Multiples ==
  ASSUME NEW r \in Nat
  PROVE  /\ r * NumCols \in Nat
         /\ (r + 1) * NumCols = r * NumCols + NumCols
         /\ r < NumRows => r * NumCols + NumCols <= Total
         /\ r = NumRows => r * NumCols = Total
<1>1. r * NumCols \in Nat /\ (r + 1) * NumCols = r * NumCols + NumCols
  BY Ranges
<1>2. ASSUME r < NumRows PROVE (r + 1) * NumCols <= NumRows * NumCols
  BY <1>2, Ranges
<1> QED
  BY <1>1, <1>2, Ranges

LEMMA OfRow ==
  ASSUME NEW r \in 0..NumRows-1, NEW c \in 0..NumCols-1
  PROVE  r * NumCols + c \in Place
BY Multiples, Ranges DEF Place

\* Row and column of a place.
LEMMA Division ==
  ASSUME NEW r \in Nat, NEW c \in 0..NumCols-1
  PROVE  (r * NumCols + c) \div NumCols = r /\ (r * NumCols + c) % NumCols = c
<1> DEFINE p == r * NumCols + c
           q == p \div NumCols
           d == p % NumCols
<1>1. p \in Nat
  BY Multiples, Ranges
<1>2. q \in Int /\ d \in 0..NumCols-1 /\ p = (NumCols * q) + d
  BY <1>1, Ranges
<1>3. r * NumCols + c = p
  OBVIOUS
<1> HIDE DEF p, q, d
<1>4. ASSUME NEW a \in Int, NEW b \in Int, a < b
      PROVE  a * NumCols + NumCols <= b * NumCols
  <2>1. (a + 1) * NumCols <= b * NumCols
    BY <1>4, Ranges
  <2>2. (a + 1) * NumCols = a * NumCols + NumCols
    BY Ranges
  <2> QED
    BY <2>1, <2>2
<1>5. NumCols * q = q * NumCols /\ q * NumCols \in Int /\ r * NumCols \in Int
  BY <1>2, Ranges
<1>6. q = r
  <2>1. CASE q < r
    BY <2>1, <1>4, <1>5, <1>1, <1>2, <1>3, Ranges
  <2>2. CASE r < q
    BY <2>2, <1>4, <1>5, <1>1, <1>2, <1>3, Ranges
  <2> QED
    BY <2>1, <2>2, <1>2
<1>7. d = c
  BY <1>6, <1>5, <1>1, <1>2, <1>3, Ranges
<1> QED
  BY <1>6, <1>7 DEF p, q, d

-----------------------------------------------------------------------------
(* Queues.                                                                  *)

\* A queue in order stays so when its head goes and the next of the order comes.
LEMMA LineHead ==
  ASSUME NEW S, NEW q \in Seq(S), NEW order, NEW k \in Nat, Line(q, order, k), q # <<>>
  PROVE  /\ Head(q) \in S /\ Head(q) \in order[k]
         /\ Tail(q) \in Seq(S) /\ Len(Tail(q)) = Len(q) - 1 /\ Len(q) > 0
         /\ Line(Tail(q), order, k + 1)
<1>1. /\ Head(q) \in S /\ Tail(q) \in Seq(S) /\ Len(Tail(q)) = Len(q) - 1
      /\ Len(q) \in Nat /\ Len(q) > 0
      /\ q[1] = Head(q) /\ \A i \in 1..Len(q)-1 : Tail(q)[i] = q[i + 1]
  OBVIOUS
<1>2. Head(q) \in order[k]
  <2>1. 1 \in 1..Len(q) /\ k + 1 - 1 = k
    BY <1>1
  <2>2. q[1] \in order[k + 1 - 1]
    BY <2>1 DEF Line
  <2> QED
    BY <2>1, <2>2, <1>1
<1>3. ASSUME NEW i \in 1..Len(q)-1 PROVE Tail(q)[i] \in order[(k + 1) + i - 1]
  <2>1. i + 1 \in 1..Len(q) /\ k + (i + 1) - 1 = (k + 1) + i - 1
    BY <1>1
  <2>2. q[i + 1] \in order[k + (i + 1) - 1]
    BY <2>1 DEF Line
  <2> QED
    BY <2>1, <2>2, <1>1
<1> QED
  BY <1>1, <1>2, <1>3 DEF Line

LEMMA LineAppend ==
  ASSUME NEW S, NEW q \in Seq(S), NEW order, NEW k \in Nat, Line(q, order, k),
         NEW x \in S, x \in order[k + Len(q)]
  PROVE  /\ Append(q, x) \in Seq(S) /\ Len(Append(q, x)) = Len(q) + 1
         /\ Append(q, x) # <<>>
         /\ Line(Append(q, x), order, k)
<1>1. /\ Append(q, x) \in Seq(S) /\ Len(Append(q, x)) = Len(q) + 1 /\ Len(q) \in Nat
      /\ Append(q, x)[Len(q) + 1] = x
      /\ \A i \in 1..Len(q) : Append(q, x)[i] = q[i]
  OBVIOUS
<1>2. ASSUME NEW i \in 1..Len(q)+1 PROVE Append(q, x)[i] \in order[k + i - 1]
  <2>1. CASE i = Len(q) + 1
    <3>1. k + i - 1 = k + Len(q)
      BY <2>1, <1>1
    <3> QED
      BY <3>1, <2>1, <1>1
  <2>2. CASE i # Len(q) + 1
    <3>1. i \in 1..Len(q)
      BY <2>2, <1>1
    <3> QED
      BY <3>1, <1>1 DEF Line
  <2> QED
    BY <2>1, <2>2
<1>3. Append(q, x) # <<>>
  BY <1>1
<1> QED
  BY <1>1, <1>2, <1>3 DEF Line

LEMMA LineEmpty ==
  ASSUME NEW order, NEW k
  PROVE  Line(<<>>, order, k) /\ Len(<<>>) = 0
BY DEF Line

LEMMA SeqLen ==
  ASSUME NEW S, NEW q \in Seq(S)
  PROVE  Len(q) \in Nat /\ (Len(q) = 0 <=> q = <<>>)
OBVIOUS

-----------------------------------------------------------------------------
(* Types.                                                                   *)

LEMMA WordTypes ==
  ASSUME StreamTypes
  PROVE  NoWord \in WordType /\ \A p \in Int : Word(p) \in WordType
BY DEF StreamTypes, NoWord, Word, WordType, Place

LEMMA ControlTypesStep ==
  ASSUME ControlTypes, ControlEdge
  PROVE  ControlTypes'
<1> USE DEF ControlEdge, BeginRound, RowChosen, RowDivided, TableauStored, Stop, Wait, Enter
<1>1. phase' \in Phase
  BY DEF ControlTypes, Phase
<1>2. reset_left' \in 0..2
  BY DEF ControlTypes
<1>3. start' \in BOOLEAN
  BY DEF ControlTypes
<1>4. pivot_row' \in 2..NumRows
  BY DEF ControlTypes
<1>5. addressed' \in BOOLEAN
  BY DEF ControlTypes
<1>6. rst_busy' \in BOOLEAN
  BY DEF ControlTypes, Maybe
<1>7. version' \in Int /\ rounds' \in Nat
  BY DEF ControlTypes
<1>8. continuing' \in BOOLEAN
  BY DEF ControlTypes
<1>9. clean' \in BOOLEAN
  <2>1. AtRest \in BOOLEAN
    BY DEF AtRest
  <2>2. clean' = clean \/ clean' = AtRest
    OBVIOUS
  <2> QED
    BY <2>1, <2>2 DEF ControlTypes
<1> QED
  BY <1>1, <1>2, <1>3, <1>4, <1>5, <1>6, <1>7, <1>8, <1>9 DEF ControlTypes

LEMMA PopType ==
  ASSUME NEW q \in Seq(WordType), NEW taken \in BOOLEAN
  PROVE  Pop(q, taken) \in Seq(WordType)
BY DEF Pop

LEMMA AddressTypes ==
  ASSUME ControlTypes
  PROVE  row_addr \in Int /\ col_addr \in Int
<1>1. pivot_row - 1 \in Nat
  BY Ranges DEF ControlTypes
<1>2. (pivot_row - 1) * NumCols \in Int
  BY <1>1, Multiples
<1> QED
  BY <1>2, Ranges DEF ControlTypes, row_addr, col_addr, AddressZero

\* What update_pivot_row, its divider, its FIFO and the reader do at an edge.
RowStep(ready, out, flag, push) ==
  /\ ready => fifo_row # <<>> /\ Len(div) < Capacity
  /\ out => div # <<>>
  /\ push => row_busy /\ Len(fifo_row) < Depth
  /\ Row!BlockEdge(row_resetn, fifo_row, ready, out, flag)
  /\ RowReaderEdge(Row!tready(row_resetn, ready), push)

LEMMA RowCases ==
  ASSUME RowEdge
  PROVE  \E ready, out, flag, push \in BOOLEAN : RowStep(ready, out, flag, push)
<1>1. PICK ready \in Maybe(fifo_row # <<>> /\ Len(div) < Capacity), out \in Maybe(div # <<>>) :
        \E flag \in Maybe(ready) :
        \E push \in Maybe(row_busy /\ Len(fifo_row) < Depth) :
          /\ Row!BlockEdge(row_resetn, fifo_row, ready, out, flag)
          /\ RowReaderEdge(Row!tready(row_resetn, ready), push)
  BY DEF RowEdge
<1>2. PICK flag \in Maybe(ready), push \in Maybe(row_busy /\ Len(fifo_row) < Depth) :
          /\ Row!BlockEdge(row_resetn, fifo_row, ready, out, flag)
          /\ RowReaderEdge(Row!tready(row_resetn, ready), push)
  BY <1>1
<1>3. ready \in BOOLEAN /\ out \in BOOLEAN /\ flag \in BOOLEAN /\ push \in BOOLEAN
  BY <1>1, <1>2 DEF Maybe
<1>4. RowStep(ready, out, flag, push)
  BY <1>1, <1>2 DEF RowStep, Maybe
<1> QED
  BY <1>3, <1>4

LEMMA RowTypesStep ==
  ASSUME ControlTypes, RowTypes, StreamTypes, RowEdge
  PROVE  RowTypes'
<1>1. PICK ready \in BOOLEAN, out \in BOOLEAN, flag \in BOOLEAN, push \in BOOLEAN :
        RowStep(ready, out, flag, push)
  BY RowCases
<1>2. /\ Row!BlockEdge(row_resetn, fifo_row, ready, out, flag)
      /\ RowReaderEdge(Row!tready(row_resetn, ready), push)
  BY <1>1 DEF RowStep
<1>3. ready \in BOOLEAN /\ out \in BOOLEAN /\ flag \in BOOLEAN /\ push \in BOOLEAN
  OBVIOUS
<1>4. row_cont' \in BOOLEAN
  BY <1>2 DEF RowTypes, Row!BlockEdge, Row!Reset, Row!NoResult, Row!Flagged, Row!Quotient, Row!latches
<1>5. row_terminate' \in BOOLEAN
  BY <1>2 DEF RowTypes, Row!BlockEdge, Row!Reset, Row!NoResult, Row!Flagged, Row!Quotient, Row!latches
<1>6. waddr' \in Nat
  BY <1>2 DEF RowTypes, Row!BlockEdge, Row!Reset, Row!NoResult, Row!Flagged, Row!Quotient
<1>7. input_counter' \in Nat
  BY <1>2 DEF RowTypes, Row!BlockEdge, Row!CountEdge
<1>8. bram' \in [0..NumCols-1 -> WordType]
  <2>1. CASE Row!Quotient(row_resetn, out)
    <3>1. div # <<>>
      BY <2>1, <1>2 DEF Row!BlockEdge, Row!DividerEdge, Row!Quotient
    <3>2. Head(div) \in Operand
      BY <3>1 DEF RowTypes
    <3>3. Head(div).word \in WordType
      BY <3>2 DEF Operand
    <3> QED
      BY <3>3, <2>1 DEF Row!Quotient, RowTypes
  <2>2. CASE ~Row!Quotient(row_resetn, out)
    BY <2>2, <1>2 DEF RowTypes, Row!BlockEdge, Row!Reset, Row!NoResult, Row!Flagged
  <2> QED
    BY <2>1, <2>2
<1>9. div' \in Seq(Operand)
  <2> DEFINE rest == IF out THEN Tail(div) ELSE div
  <2>1. out => div # <<>>
    BY <1>2 DEF Row!BlockEdge, Row!DividerEdge
  <2>2. rest \in Seq(Operand)
    BY <2>1 DEF RowTypes
  <2>3. fifo_row # <<>> =>
          [word |-> Head(fifo_row), number |-> input_counter, flag |-> flag] \in Operand
    BY <1>3 DEF RowTypes, Operand
  <2>4. div' = IF ~row_resetn THEN <<>>
               ELSE IF ready /\ fifo_row # <<>>
               THEN Append(rest, [word |-> Head(fifo_row), number |-> input_counter, flag |-> flag])
               ELSE rest
    BY <1>2 DEF Row!BlockEdge, Row!DividerEdge
  <2> HIDE DEF rest
  <2> QED
    BY <2>2, <2>3, <2>4
<1>10. RowReaderEdge(Row!tready(row_resetn, ready), push)
  BY <1>2
<1>11. row_busy' \in BOOLEAN
  BY <1>10, <1>3 DEF RowTypes, RowReaderEdge, Reader, Entering
<1>12. row_sent' \in Nat
  BY <1>10, <1>3 DEF RowTypes, RowReaderEdge, Reader, Entering
<1>13. fifo_row' \in Seq(WordType)
  <2> DEFINE rest == Pop(fifo_row, Row!tready(row_resetn, ready))
  <2>1. fifo_row' = IF push THEN Append(rest, Word(row_addr + row_sent)) ELSE rest
    BY <1>10 DEF RowReaderEdge, Reader
  <2>2. rest \in Seq(WordType)
    BY DEF Pop, RowTypes
  <2>3. Word(row_addr + row_sent) \in WordType
    BY WordTypes, AddressTypes DEF RowTypes
  <2> HIDE DEF rest
  <2> QED
    BY <2>1, <2>2, <2>3
<1> QED
  BY <1>4, <1>5, <1>6, <1>7, <1>8, <1>9, <1>11, <1>12, <1>13 DEF RowTypes

\* What the strided reader, its memory and its FIFO do at an edge.
DmaStep(arready, offer, tready) ==
  /\ arready => arvalid
  /\ offer => owed /\ ~rvalid
  /\ tready => tvalid /\ Len(fifo_col) < Depth
  /\ \/ Dma!Hold(rst_busy)
     \/ Dma!Idle(Entering("row"))
     \/ Dma!Start(Entering("row"))
     \/ Dma!RequestElement(col_addr)
     \/ Dma!RequestTaken(arready)
     \/ Dma!TakeWord(rvalid, Word(araddr))
     \/ Dma!OfferWord(Len(fifo_col) >= Depth)
     \/ Dma!WordTaken(tready)
     \/ Dma!NextElement
     \/ Dma!Finish(NoWord)
     \/ Dma!Stall(arready, rvalid, Len(fifo_col) >= Depth, tready)
  /\ rst_busy => Dma!Hold(rst_busy)
  /\ DmaMemoryEdge(arready, offer)
  /\ fifo_col' = IF tready THEN Append(Pop(fifo_col, pc_tready), tdata)
                 ELSE Pop(fifo_col, pc_tready)

LEMMA DmaCases ==
  ASSUME DmaEdge
  PROVE  \E arready, offer, tready \in BOOLEAN : DmaStep(arready, offer, tready)
<1>1. PICK arready \in Maybe(arvalid), offer \in Maybe(owed /\ ~rvalid),
           tready \in Maybe(tvalid /\ Len(fifo_col) < Depth) :
        /\ \/ Dma!Hold(rst_busy)
           \/ /\ ~rst_busy
              /\ \/ Dma!Idle(Entering("row"))
                 \/ Dma!Start(Entering("row"))
                 \/ Dma!RequestElement(col_addr)
                 \/ Dma!RequestTaken(arready)
                 \/ Dma!TakeWord(rvalid, Word(araddr))
                 \/ Dma!OfferWord(Len(fifo_col) >= Depth)
                 \/ Dma!WordTaken(tready)
                 \/ Dma!NextElement
                 \/ Dma!Finish(NoWord)
                 \/ Dma!Stall(arready, rvalid, Len(fifo_col) >= Depth, tready)
        /\ DmaMemoryEdge(arready, offer)
        /\ fifo_col' = IF tready THEN Append(Pop(fifo_col, pc_tready), tdata)
                       ELSE Pop(fifo_col, pc_tready)
  BY DEF DmaEdge
<1>2. arready \in BOOLEAN /\ offer \in BOOLEAN /\ tready \in BOOLEAN
  BY <1>1 DEF Maybe
<1>3. /\ arready => arvalid
      /\ offer => owed /\ ~rvalid
      /\ tready => tvalid /\ Len(fifo_col) < Depth
  BY DEF Maybe
<1>4. DmaStep(arready, offer, tready)
  BY <1>1, <1>3 DEF DmaStep
<1> QED
  BY <1>2, <1>4

LEMMA ColTypesStep ==
  ASSUME ControlTypes, ColTypes, StreamTypes, BlockTypes, DmaEdge
  PROVE  ColTypes'
<1>1. PICK arready \in BOOLEAN, offer \in BOOLEAN, tready \in BOOLEAN :
        DmaStep(arready, offer, tready)
  BY DmaCases
<1>2. arready \in BOOLEAN /\ offer \in BOOLEAN /\ tready \in BOOLEAN
  OBVIOUS
<1>3. PICK full :
        \/ Dma!Hold(rst_busy)
        \/ Dma!Idle(Entering("row"))
        \/ Dma!Start(Entering("row"))
        \/ Dma!RequestElement(col_addr)
        \/ Dma!RequestTaken(arready)
        \/ Dma!TakeWord(rvalid, Word(araddr))
        \/ Dma!OfferWord(full)
        \/ Dma!WordTaken(tready)
        \/ Dma!NextElement
        \/ Dma!Finish(NoWord)
        \/ Dma!Stall(arready, rvalid, full, tready)
  BY <1>1 DEF DmaStep
<1> USE DEF Dma!Hold, Dma!Idle, Dma!Start, Dma!RequestElement, Dma!RequestTaken, Dma!TakeWord,
            Dma!OfferWord, Dma!WordTaken, Dma!NextElement, Dma!Finish, Dma!Stall,
            Dma!fsm, Dma!axi, Dma!axis
<1>4. dma_state' \in Dma!FsmState
  BY <1>3 DEF ColTypes, Dma!FsmState
<1>5. dma_counter' \in Nat
  BY <1>3 DEF ColTypes
<1>6. dma_busy' \in BOOLEAN
  BY <1>3 DEF ColTypes
<1>7. dma_done' \in BOOLEAN
  BY <1>3 DEF ColTypes
<1>8. araddr' \in Int
  <2>1. col_addr + Dma!Offset(dma_counter) \in Int
    BY AddressTypes, Ranges DEF Dma!Offset, ColTypes
  <2> QED
    BY <2>1, <1>3 DEF ColTypes
<1>9. arvalid' \in BOOLEAN
  BY <1>3 DEF ColTypes
<1>10. rready' \in BOOLEAN
  BY <1>3 DEF ColTypes
<1>11. tdata' \in WordType
  <2>1. NoWord \in WordType /\ Word(araddr) \in WordType
    BY WordTypes DEF ColTypes
  <2> QED
    BY <2>1, <1>3 DEF ColTypes
<1>12. tvalid' \in BOOLEAN
  BY <1>3 DEF ColTypes
<1>13. owed' \in BOOLEAN
  BY <1>1, <1>2 DEF DmaStep, DmaMemoryEdge, ColTypes
<1>14. rvalid' \in BOOLEAN
  BY <1>1, <1>2 DEF DmaStep, DmaMemoryEdge, ColTypes
<1>15. fifo_col' \in Seq(WordType)
  <2>1. Pop(fifo_col, pc_tready) \in Seq(WordType)
    BY PopType DEF ColTypes, BlockTypes
  <2> QED
    BY <2>1, <1>1 DEF DmaStep, ColTypes
<1> QED
  BY <1>4, <1>5, <1>6, <1>7, <1>8, <1>9, <1>10, <1>11, <1>12, <1>13, <1>14, <1>15 DEF ColTypes

\* What update_tableau does at an edge: whether an element enters, and whether a
\* result is taken.
Enters(ready) == Tab!S_AXIS_TABLEAU_TREADY(tab_resetn, start, fifo_tab, ready)
TableauStep(ready, enter, flag, taken, push) ==
  /\ enter <=> Enters(ready)
  /\ taken => unit_tvalid /\ landed < Total
  /\ push => tab_busy /\ Len(fifo_tab) < Depth
  /\ Tab!ContEdge(tab_resetn, enter)
  /\ Tab!TerminateEdge(tab_resetn)
  /\ Tab!BramEdge(tab_resetn, enter)
  /\ Tab!ColumnEdge(tab_resetn, start, fifo_col, enter, NoWord)
  /\ Tab!IndexEdge(tab_resetn, enter)
  /\ Tab!MemoryEdge(bram)
  /\ Tab!UnitEdge(tab_resetn, enter, Tab!Operands(fifo_tab, pivot_row, flag), ready, taken)
  /\ TabReaderEdge(enter, push)
  /\ WriterEdge(taken)

LEMMA TableauCases ==
  ASSUME TableauEdge
  PROVE  \E ready, enter, flag, taken, push \in BOOLEAN :
           TableauStep(ready, enter, flag, taken, push)
<1> DEFINE Edge(ready, enter, flag, taken, push) ==
             /\ Tab!ContEdge(tab_resetn, enter)
             /\ Tab!TerminateEdge(tab_resetn)
             /\ Tab!BramEdge(tab_resetn, enter)
             /\ Tab!ColumnEdge(tab_resetn, start, fifo_col, enter, NoWord)
             /\ Tab!IndexEdge(tab_resetn, enter)
             /\ Tab!MemoryEdge(bram)
             /\ Tab!UnitEdge(tab_resetn, enter, Tab!Operands(fifo_tab, pivot_row, flag),
                             ready, taken)
             /\ TabReaderEdge(enter, push)
             /\ WriterEdge(taken)
<1>1. PICK ready \in Maybe(fifo_tab # <<>> /\ bram_valid /\ pc_valid /\ Len(unit) < Capacity) :
        \E flag \in Maybe(Enters(ready)),
           taken \in Maybe(unit_tvalid /\ landed < Total),
           push \in Maybe(tab_busy /\ Len(fifo_tab) < Depth) :
             Edge(ready, Enters(ready), flag, taken, push)
  BY DEF TableauEdge, Enters
<1> HIDE DEF Edge
<1>2. PICK flag \in Maybe(Enters(ready)),
           taken \in Maybe(unit_tvalid /\ landed < Total),
           push \in Maybe(tab_busy /\ Len(fifo_tab) < Depth) :
             Edge(ready, Enters(ready), flag, taken, push)
  BY <1>1
<1>3. /\ ready \in BOOLEAN /\ flag \in BOOLEAN /\ taken \in BOOLEAN /\ push \in BOOLEAN
      /\ Enters(ready) \in BOOLEAN
  BY DEF Maybe, Enters, Tab!S_AXIS_TABLEAU_TREADY
<1>4. /\ taken => unit_tvalid /\ landed < Total
      /\ push => tab_busy /\ Len(fifo_tab) < Depth
  BY DEF Maybe
<1>5. TableauStep(ready, Enters(ready), flag, taken, push)
  BY <1>2, <1>4 DEF TableauStep, Edge
<1> QED
  BY <1>3, <1>5

LEMMA OperandsType ==
  ASSUME BlockTypes, fifo_tab \in Seq(WordType), fifo_tab # <<>>, NEW flag \in BOOLEAN
  PROVE  Tab!Operands(fifo_tab, pivot_row, flag) \in Result
<1>1. Head(fifo_tab) \in WordType
  OBVIOUS
<1> QED
  BY <1>1 DEF BlockTypes, Tab!Operands, Result

LEMMA BlockTypesStep ==
  ASSUME ControlTypes, RowTypes, ColTypes, BlockTypes, StreamTypes, TableauEdge
  PROVE  BlockTypes'
<1>1. PICK ready \in BOOLEAN, enter \in BOOLEAN, flag \in BOOLEAN, taken \in BOOLEAN,
           push \in BOOLEAN : TableauStep(ready, enter, flag, taken, push)
  BY TableauCases
<1>2. cont' \in BOOLEAN
  BY <1>1 DEF TableauStep, Tab!ContEdge
<1>3. terminate' \in BOOLEAN
  BY <1>1 DEF TableauStep, Tab!TerminateEdge
<1>4. row_index' \in Nat \ {0} /\ col_index' \in 1..NumCols
  BY <1>1, Ranges DEF TableauStep, Tab!IndexEdge, Tab!indices, Tab!LastColumn, BlockTypes
<1>5. bram_state' \in 0..2 /\ bram_wait_counter' \in Int
  BY <1>1 DEF TableauStep, Tab!BramEdge, Tab!BramReset, Tab!BramWait, Tab!BramValid,
              Tab!BramUsed, BlockTypes
<1>6. bram_valid' \in BOOLEAN
  BY <1>1 DEF TableauStep, Tab!BramEdge, Tab!BramReset, Tab!BramWait, Tab!BramValid,
              Tab!BramUsed, BlockTypes
<1>7. Tab!ColumnEdge(tab_resetn, start, fifo_col, enter, NoWord)
  BY <1>1 DEF TableauStep
<1> USE DEF Tab!ColumnEdge, Tab!ColumnReset, Tab!ColumnRest, Tab!ColumnAsk, Tab!ColumnTake,
            Tab!ColumnHold, Tab!pc
<1>8. pc_state' \in {0, 1, 2, 4}
  BY <1>7 DEF BlockTypes
<1>9. pc_tready' \in BOOLEAN
  BY <1>7 DEF BlockTypes
<1>10. pc_valid' \in BOOLEAN
  BY <1>7 DEF BlockTypes
<1>11. pc_data' \in WordType
  <2>1. NoWord \in WordType /\ (fifo_col # <<>> => Head(fifo_col) \in WordType)
    BY WordTypes DEF ColTypes
  <2> QED
    BY <2>1, <1>7 DEF BlockTypes
<1>12. bram_stage' \in WordType /\ bram_data' \in WordType
  BY <1>1, Ranges DEF TableauStep, Tab!MemoryEdge, BlockTypes, RowTypes
<1> QED
  BY <1>2, <1>3, <1>4, <1>5, <1>6, <1>8, <1>9, <1>10, <1>11, <1>12 DEF BlockTypes

LEMMA StreamTypesStep ==
  ASSUME ControlTypes, ColTypes, BlockTypes, StreamTypes, unit_tvalid => unit # <<>>,
         TableauEdge
  PROVE  StreamTypes' /\ (unit_tvalid' => unit' # <<>>)
<1>1. PICK ready \in BOOLEAN, enter \in BOOLEAN, flag \in BOOLEAN, taken \in BOOLEAN,
           push \in BOOLEAN : TableauStep(ready, enter, flag, taken, push)
  BY TableauCases
<1>2. Tab!UnitEdge(tab_resetn, enter, Tab!Operands(fifo_tab, pivot_row, flag), ready, taken)
  BY <1>1 DEF TableauStep
<1>3. unit' \in Seq(Result)
  <2>1. enter => Tab!Operands(fifo_tab, pivot_row, flag) \in Result
    BY <1>1, OperandsType DEF TableauStep, Enters, Tab!S_AXIS_TABLEAU_TREADY, StreamTypes
  <2>2. unit_tvalid => Tail(unit) \in Seq(Result)
    BY DEF StreamTypes
  <2> QED
    BY <1>2, <2>1, <2>2 DEF Tab!UnitEdge, StreamTypes
<1>4. unit_tvalid' \in BOOLEAN /\ (unit_tvalid' => unit' # <<>>)
  BY <1>2 DEF Tab!UnitEdge
<1>5. fifo_tab' \in Seq(WordType)
  <2>1. fifo_tab' = IF push THEN Append(Pop(fifo_tab, enter), Word(tab_sent))
                    ELSE Pop(fifo_tab, enter)
    BY <1>1 DEF TableauStep, TabReaderEdge, Reader
  <2>2. Pop(fifo_tab, enter) \in Seq(WordType)
    BY PopType DEF StreamTypes
  <2>3. tab_sent \in Int
    BY DEF StreamTypes
  <2>4. Word(tab_sent) \in WordType
    BY <2>3, WordTypes
  <2> QED
    BY <2>1, <2>2, <2>4
<1>6. tab_busy' \in BOOLEAN
  BY <1>1 DEF TableauStep, TabReaderEdge, Reader, Entering, StreamTypes
<1>7. tab_sent' \in Nat
  BY <1>1 DEF TableauStep, TabReaderEdge, Reader, Entering, StreamTypes
<1>8. ddr' \in [Place -> Int]
  <2>1. version + 1 \in Int /\ ddr \in [Place -> Int]
    BY DEF ControlTypes, StreamTypes
  <2>2. ddr' \in {[p \in Place |-> version + 1], [ddr EXCEPT ![landed] = version + 1], ddr}
    BY <1>1 DEF TableauStep, WriterEdge
  <2> QED
    BY <2>1, <2>2
<1>9. landed' \in 0..Total
  BY <1>1, Ranges DEF TableauStep, WriterEdge, StreamTypes
<1>10. writeback_done' \in BOOLEAN
  BY <1>1 DEF TableauStep, WriterEdge
<1> QED
  BY <1>3, <1>4, <1>5, <1>6, <1>7, <1>8, <1>9, <1>10 DEF StreamTypes

LEMMA TypesStep ==
  ASSUME Types, ControlLines, Next
  PROVE  Types'
<1>1. unit_tvalid => unit # <<>>
  BY DEF ControlLines
<1> QED
  BY <1>1, ControlTypesStep, RowTypesStep, ColTypesStep, BlockTypesStep, StreamTypesStep
  DEF Types, Next

-----------------------------------------------------------------------------
(* The lines.                                                               *)

\* Where a step of the control unit leads.
LEMMA ControlSteps ==
  ASSUME ControlTypes, ControlLines, ControlEdge
  PROVE  /\ phase' = "row" => phase \in {"idle", "row"}
         /\ phase' = "row" /\ phase = "idle" => BeginRound /\ reset_left' = 2
         /\ phase' = "update_row" => phase \in {"row", "update_row"}
         /\ phase' = "update_row" /\ phase = "row" => reset_left' = 2
         /\ phase' = "update_tableau" => phase \in {"update_row", "update_tableau"}
         /\ phase' = "update_tableau" /\ phase = "update_row" => RowDivided /\ reset_left' = 2
         /\ phase' = "idle" => TableauStored \/ Stop \/ phase = "idle"
         /\ phase' = phase => Wait
BY DEF ControlTypes, Phase, ControlLines, ControlEdge, BeginRound, RowChosen, RowDivided,
       TableauStored, Stop, Wait, Enter

\* Once the row is divided, its latches stand.
LEMMA RowLatches ==
  ASSUME NEW ready \in BOOLEAN, NEW out \in BOOLEAN, NEW flag \in BOOLEAN, NEW push \in BOOLEAN,
         RowStep(ready, out, flag, push)
  PROVE  /\ ~row_resetn => ~row_cont' /\ ~row_terminate'
         /\ row_resetn /\ row_cont /\ ~row_terminate => row_cont' /\ ~row_terminate' /\ bram' = bram
BY DEF RowStep, Row!BlockEdge, Row!Reset, Row!NoResult, Row!Flagged, Row!Quotient, Row!latches

LEMMA ResetEnds ==
  ASSUME ControlEdge
  PROVE  rst_busy' => rst_busy
BY DEF ControlEdge, BeginRound, RowChosen, RowDivided, TableauStored, Stop, Wait, Enter, Maybe

LEMMA ControlLinesStep ==
  ASSUME Types, ControlLines, Next
  PROVE  ControlLines'
<1>1. ControlEdge /\ ControlTypes
  BY DEF Next, Types
<1>2. PICK ready \in BOOLEAN, out \in BOOLEAN, flag \in BOOLEAN, push \in BOOLEAN :
        RowStep(ready, out, flag, push)
  BY RowCases DEF Next
<1>3. cont' = (tab_resetn /\ (cont \/ cont'))
      /\ (cont /\ tab_resetn => cont')
      /\ terminate' = (tab_resetn /\ terminate')
  BY TableauCases DEF Next, TableauStep, Tab!ContEdge, Tab!TerminateEdge
<1>4. start' => phase' = "update_tableau"
  BY <1>1 DEF ControlTypes, Phase, ControlLines, ControlEdge, BeginRound, RowChosen, RowDivided,
              TableauStored, Stop, Wait, Enter
<1>5. phase' # "idle" => addressed' /\ continuing' /\ ~rst_busy'
  <2>1. rst_busy' => rst_busy
    BY <1>1, ResetEnds
  <2>2. phase' # "idle" => ~rst_busy
    BY <1>1 DEF ControlTypes, ControlLines, ControlEdge, BeginRound, RowChosen, RowDivided,
                TableauStored, Stop, Wait, Enter
  <2>3. phase' # "idle" => addressed'
    BY <1>1 DEF ControlTypes, ControlLines, ControlEdge, BeginRound, RowChosen, RowDivided,
                TableauStored, Stop, Wait, Enter
  <2>4. phase' # "idle" => continuing'
    BY <1>1 DEF ControlTypes, ControlLines, ControlEdge, BeginRound, RowChosen, RowDivided,
                TableauStored, Stop, Wait, Enter
  <2> QED
    BY <2>1, <2>2, <2>3, <2>4
<1>6. phase' = "update_row" /\ reset_left' = 1 => ~row_cont' /\ ~row_terminate'
  <2> SUFFICES ASSUME phase' = "update_row", reset_left' = 1
               PROVE  ~row_cont' /\ ~row_terminate'
    OBVIOUS
  <2>1. phase = "update_row" /\ Wait
    BY <1>1, ControlSteps
  <2>2. reset_left = 2
    BY <2>1, <1>1 DEF Wait, ControlTypes
  <2> QED
    BY <2>1, <2>2, <1>2, RowLatches DEF row_resetn
<1>7. phase' = "update_tableau" /\ reset_left' = 1 => ~cont' /\ ~terminate'
  <2> SUFFICES ASSUME phase' = "update_tableau", reset_left' = 1
               PROVE  ~cont' /\ ~terminate'
    OBVIOUS
  <2>1. phase = "update_tableau" /\ Wait
    BY <1>1, ControlSteps
  <2>2. reset_left = 2
    BY <2>1, <1>1 DEF Wait, ControlTypes
  <2>3. ~tab_resetn
    BY <2>1, <2>2 DEF tab_resetn
  <2> QED
    BY <2>3, <1>3
<1>8. phase' = "update_tableau" => row_cont' /\ ~row_terminate'
  <2> SUFFICES ASSUME phase' = "update_tableau" PROVE row_cont' /\ ~row_terminate'
    OBVIOUS
  <2>1. row_resetn /\ row_cont /\ ~row_terminate
    <3>1. CASE phase = "update_row"
      <4>1. RowDivided
        BY <3>1, <1>1, ControlSteps
      <4>2. row_cont /\ ~row_terminate /\ reset_left # 2
        BY <4>1 DEF RowDivided
      <4>3. reset_left # 1
        BY <4>2, <3>1 DEF ControlLines
      <4>4. reset_left = 0
        BY <4>2, <4>3, <1>1 DEF ControlTypes
      <4> QED
        BY <4>2, <4>4 DEF row_resetn
    <3>2. CASE phase = "update_tableau"
      BY <3>2 DEF ControlLines, row_resetn
    <3> QED
      BY <3>1, <3>2, <1>1, ControlSteps
  <2> QED
    BY <2>1, <1>2, RowLatches
<1>9. phase' = "update_tableau" /\ ~start' => reset_left' = 0 /\ cont'
  <2> SUFFICES ASSUME phase' = "update_tableau", ~start'
               PROVE  reset_left' = 0 /\ cont'
    OBVIOUS
  <2>1. phase = "update_tableau" /\ Wait
    BY <1>1, ControlSteps DEF RowDivided
  <2>2. reset_left # 2 /\ cont
    <3>1. CASE start
      <4>1. start' = (start /\ ~(reset_left # 2 /\ cont))
        BY <2>1 DEF Wait
      <4> QED
        BY <4>1, <3>1
    <3>2. CASE ~start
      BY <3>2, <2>1 DEF ControlLines
    <3> QED
      BY <3>1, <3>2
  <2>3. reset_left # 1
    BY <2>1, <2>2 DEF ControlLines
  <2>4. reset_left = 0
    BY <2>2, <2>3, <1>1 DEF ControlTypes
  <2>5. tab_resetn
    BY <2>4 DEF tab_resetn
  <2>6. reset_left' = 0
    BY <2>1, <2>4 DEF Wait
  <2> QED
    BY <2>2, <2>5, <2>6, <1>3
<1>10. unit_tvalid' => unit' # <<>>
  BY StreamTypesStep DEF Next, Types, ControlLines
<1> QED
  BY <1>4, <1>5, <1>6, <1>7, <1>8, <1>9, <1>10 DEF ControlLines

LEMMA DmaLinesStep ==
  ASSUME Types, ControlLines, DmaLines, Next
  PROVE  DmaLines'
<1>1. PICK arready \in BOOLEAN, offer \in BOOLEAN, tready \in BOOLEAN :
        DmaStep(arready, offer, tready)
  BY DmaCases DEF Next
<1>2. ColTypes /\ BlockTypes
  BY DEF Types
<1>3. /\ arready => arvalid
      /\ offer => owed /\ ~rvalid
      /\ tready => tvalid
      /\ DmaMemoryEdge(arready, offer)
  BY <1>1 DEF DmaStep
<1>4. PICK full :
        \/ Dma!Hold(rst_busy)
        \/ Dma!Idle(Entering("row"))
        \/ Dma!Start(Entering("row"))
        \/ Dma!RequestElement(col_addr)
        \/ Dma!RequestTaken(arready)
        \/ Dma!TakeWord(rvalid, Word(araddr))
        \/ Dma!OfferWord(full)
        \/ Dma!WordTaken(tready)
        \/ Dma!NextElement
        \/ Dma!Finish(NoWord)
        \/ Dma!Stall(arready, rvalid, full, tready)
  BY <1>1 DEF DmaStep
<1>5. tready => fifo_col' # <<>>
  <2>1. Pop(fifo_col, pc_tready) \in Seq(WordType)
    BY <1>2, PopType DEF ColTypes, BlockTypes
  <2>2. tready => fifo_col' = Append(Pop(fifo_col, pc_tready), tdata)
    BY <1>1 DEF DmaStep
  <2> QED
    BY <2>1, <2>2, <1>2 DEF ColTypes
<1> USE DEF Dma!Hold, Dma!Idle, Dma!Start, Dma!RequestElement, Dma!RequestTaken, Dma!TakeWord,
            Dma!OfferWord, Dma!WordTaken, Dma!NextElement, Dma!Finish, Dma!Stall,
            Dma!fsm, Dma!axi, Dma!axis
<1>6. rst_busy' => rst_busy
  BY ResetEnds DEF Next
<1>7. rst_busy => Dma!Hold(rst_busy)
  BY <1>1 DEF DmaStep
<1>8. rst_busy' => dma_state' = "S0"
  BY <1>6, <1>7 DEF DmaLines
<1>9. arvalid' <=> dma_state' = "S2_COL"
  BY <1>4, <1>3 DEF DmaLines
<1>10. rready' <=> dma_state' = "S3_COL"
  BY <1>4, <1>3 DEF DmaLines
<1>11. tvalid' <=> dma_state' = "S5_COL"
  BY <1>4, <1>3 DEF DmaLines
<1>12. owed' <=> dma_state' = "S3_COL"
  BY <1>4, <1>3 DEF DmaLines, DmaMemoryEdge
<1>13. rvalid' => owed'
  BY <1>4, <1>3 DEF DmaLines, DmaMemoryEdge
<1>14. /\ dma_state' = "S0" => dma_counter' = 0
       /\ dma_state' \in {"S1_COL", "S2_COL", "S3_COL", "S4_COL", "S5_COL"} => dma_counter' < NumRows
       /\ dma_state' = "S6_COL" => dma_counter' \in 1..NumRows /\ fifo_col' # <<>>
  BY <1>4, <1>3, <1>2, <1>5, <1>7, Ranges DEF DmaLines, ColTypes
<1> QED
  BY <1>8, <1>9, <1>10, <1>11, <1>12, <1>13, <1>14 DEF DmaLines

-----------------------------------------------------------------------------
(* The pivot row on its way through the divider.                            *)

\* Where a problem begins, and what a step keeps within it.
Fresh == BeginRound /\ ~continuing /\ AtRest
LEMMA CleanSteps ==
  ASSUME ControlTypes, ControlEdge, clean'
  PROVE  /\ clean \/ Fresh
         /\ continuing' /\ ~continuing => Fresh
         /\ phase' = "idle" /\ continuing' => TableauStored \/ (Wait /\ phase = "idle" /\ continuing)
         /\ Fresh \/ ~BeginRound \/ continuing
         /\ ~Fresh /\ ~TableauStored => version' = version
         /\ ~RowChosen => pivot_row' = pivot_row
<1> USE DEF Fresh, ControlEdge, BeginRound, RowChosen, RowDivided, TableauStored, Stop, Wait, Enter
<1>1. clean \/ Fresh
  OBVIOUS
<1>2. continuing' /\ ~continuing => Fresh
  BY <1>1
<1>3. phase' = "idle" /\ continuing' => TableauStored \/ (Wait /\ phase = "idle" /\ continuing)
  OBVIOUS
<1>4. Fresh \/ ~BeginRound \/ continuing
  OBVIOUS
<1>5. ~Fresh /\ ~TableauStored => version' = version
  OBVIOUS
<1>6. ~RowChosen => pivot_row' = pivot_row
  OBVIOUS
<1> QED
  BY <1>1, <1>2, <1>3, <1>4, <1>5, <1>6

LEMMA RowRest ==
  ASSUME fifo_row = <<>>, ~row_busy, ~Entering("update_row"), RowEdge
  PROVE  fifo_row' = <<>> /\ ~row_busy'
<1>1. PICK ready \in BOOLEAN, out \in BOOLEAN, flag \in BOOLEAN, push \in BOOLEAN :
        RowStep(ready, out, flag, push)
  BY RowCases
<1>2. ~push /\ RowReaderEdge(Row!tready(row_resetn, ready), push)
  BY <1>1 DEF RowStep
<1> QED
  BY <1>2 DEF RowReaderEdge, Reader, Pop

\* The whole row has been taken when the last quotient is written.
LEMMA RowWhole ==
  ASSUME Types, ControlLines, RowOn, RowFlow, row_cont, ~row_terminate
  PROVE  fifo_row = <<>> /\ ~row_busy /\ waddr = NumCols
<1>1. RowReading /\ RowDividing
  BY DEF RowFlow
<1>2. waddr = NumCols /\ input_counter = waddr + Len(div)
      /\ row_sent = input_counter + Len(fifo_row) /\ row_sent <= NumCols
  BY <1>1 DEF RowReading, RowDividing
<1>3. Len(div) \in Nat /\ Len(fifo_row) \in Nat /\ (Len(fifo_row) = 0 => fifo_row = <<>>)
  BY SeqLen DEF Types, RowTypes
<1>4. Len(fifo_row) = 0 /\ row_sent = NumCols
  BY <1>2, <1>3, Ranges
<1> QED
  BY <1>1, <1>2, <1>3, <1>4, Ranges DEF RowReading

LEMMA RowQuietStep ==
  ASSUME Types, ControlLines, clean => CleanRound, Next, clean'
  PROVE  RowQuiet'
<1> SUFFICES ASSUME ~RowOn', phase' # "idle" \/ continuing'
             PROVE  fifo_row' = <<>> /\ ~row_busy'
  BY DEF RowQuiet
<1>1. ControlEdge /\ RowEdge /\ ControlTypes
  BY DEF Next, Types
<1>2. ~Entering("update_row")
  <2> SUFFICES ASSUME phase = "update_row", reset_left = 2 PROVE FALSE
    BY DEF Entering
  <2>1. Wait
    BY <1>1 DEF ControlEdge, BeginRound, RowChosen, RowDivided, TableauStored, Stop
  <2> QED
    BY <2>1 DEF Wait, RowOn
<1>3. fifo_row = <<>> /\ ~row_busy
  <2>1. CASE Fresh
    BY <2>1 DEF Fresh, AtRest
  <2>2. CASE clean /\ RowOn
    <3>1. RowDivided
      BY <2>2, <1>1 DEF RowOn, ControlTypes, ControlEdge, BeginRound, RowChosen, RowDivided,
                        TableauStored, Stop, Wait
    <3> QED
      BY <3>1, <2>2, RowWhole DEF RowDivided, CleanRound
  <2>3. CASE clean /\ ~RowOn /\ ~Fresh
    <3>1. phase # "idle" \/ continuing
      BY <2>3, <1>1, CleanSteps DEF ControlEdge, BeginRound, RowChosen, RowDivided,
                                     TableauStored, Stop, Wait
    <3> QED
      BY <3>1, <2>3 DEF CleanRound, RowQuiet
  <2> QED
    BY <2>1, <2>2, <2>3, <1>1, CleanSteps
<1> QED
  BY <1>1, <1>2, <1>3, RowRest

LEMMA RowOrders ==
  ASSUME NEW n \in Nat
  PROVE  /\ RowWords[n] = {Before(RowBase + n)}
         /\ RowOperands[n] = {d \in Operand : d.word = Before(RowBase + n) /\ d.number = n}
BY DEF RowWords, RowOperands

\* What is read while the tableau stands is of this round.
LEMMA RowWordRead ==
  ASSUME Types, addressed, ddr = [p \in Place |-> version], NEW n \in Nat, n < NumCols
  PROVE  Word(row_addr + n) = Before(RowBase + n)
<1>1. pivot_row - 1 \in 0..NumRows-1 /\ n \in 0..NumCols-1
  BY Ranges DEF Types, ControlTypes
<1>2. RowBase + n \in Place
  BY <1>1, OfRow DEF RowBase
<1>3. row_addr = RowBase
  BY DEF row_addr, RowBase
<1> QED
  BY <1>2, <1>3 DEF Word, Before

\* What a step does to the FIFO and to the count of the words taken from it.
LEMMA RowReadingStep ==
  ASSUME Types, phase = "update_row", reset_left < 2, addressed, RowReading,
         ddr = [p \in Place |-> version],
         RowWords' = RowWords, NEW taken \in BOOLEAN, NEW push \in BOOLEAN,
         RowReaderEdge(taken, push), push => row_busy, taken => fifo_row # <<>>,
         input_counter' = IF taken THEN input_counter + 1 ELSE input_counter
  PROVE  RowReading'
<1>1. RowTypes /\ ~Entering("update_row")
  BY DEF Types, Entering
<1> DEFINE rest == Pop(fifo_row, taken)
<1>2. rest \in Seq(WordType) /\ input_counter' \in Nat /\ input_counter' + Len(rest) = row_sent
      /\ Line(rest, RowWords, input_counter') /\ Len(rest) \in Nat
  <2>1. CASE taken
    <3>1. rest = Tail(fifo_row) /\ input_counter' = input_counter + 1
      BY <2>1 DEF Pop
    <3>2. /\ Tail(fifo_row) \in Seq(WordType) /\ Len(Tail(fifo_row)) = Len(fifo_row) - 1
          /\ Len(fifo_row) > 0 /\ Line(Tail(fifo_row), RowWords, input_counter + 1)
      BY <2>1, <1>1, LineHead DEF RowTypes, RowReading
    <3>3. Len(fifo_row) \in Nat
      BY <1>1 DEF RowTypes
    <3> QED
      BY <3>1, <3>2, <3>3, <1>1 DEF RowTypes, RowReading
  <2>2. CASE ~taken
    BY <2>2, <1>1, SeqLen DEF Pop, RowTypes, RowReading
  <2> QED
    BY <2>1, <2>2
<1>3. /\ row_sent' = IF push THEN row_sent + 1 ELSE row_sent
      /\ fifo_row' = IF push THEN Append(rest, Word(row_addr + row_sent)) ELSE rest
  BY <1>1 DEF RowReaderEdge, Reader
<1>4. row_busy' <=> row_busy /\ ~(push /\ row_sent = NumCols - 1)
  <2>1. row_busy' = IF row_busy THEN ~(push /\ row_sent = NumCols - 1)
                    ELSE Entering("update_row")
    BY DEF RowReaderEdge, Reader
  <2> QED
    BY <2>1, <1>1
<1> HIDE DEF rest
<1>5. CASE push
  <2>1. row_sent < NumCols /\ row_busy
    BY <1>5 DEF RowReading
  <2>2. Word(row_addr + row_sent) = Before(RowBase + row_sent)
    BY <2>1, <1>1, RowWordRead DEF RowTypes
  <2>3. Before(RowBase + row_sent) \in RowWords[row_sent]
    BY <1>1, RowOrders DEF RowTypes
  <2>4. Word(row_addr + row_sent) \in WordType
    BY WordTypes, AddressTypes, <1>1 DEF Types, RowTypes
  <2>5. LET x == Word(row_addr + row_sent)
        IN  Len(Append(rest, x)) = Len(rest) + 1 /\ Line(Append(rest, x), RowWords, input_counter')
    <3>1. Word(row_addr + row_sent) \in RowWords[input_counter' + Len(rest)]
      BY <2>2, <2>3, <1>2
    <3> QED
      BY <3>1, <2>4, <1>2, LineAppend
  <2>6. /\ fifo_row' = Append(rest, Word(row_addr + row_sent))
        /\ row_sent' = row_sent + 1
        /\ row_busy' <=> ~(row_sent = NumCols - 1)
    BY <1>3, <1>5, <1>4, <2>1
  <2>7. Len(fifo_row') = Len(rest) + 1 /\ Line(fifo_row', RowWords, input_counter')
    BY <2>5, <2>6
  <2>8. Line(fifo_row, RowWords, input_counter)'
    BY <2>7
  <2>9. row_sent' = input_counter' + Len(fifo_row') /\ row_sent' <= NumCols
    BY <2>1, <2>6, <2>7, <1>1, <1>2, Ranges DEF RowTypes
  <2>10. row_busy' <=> row_sent' < NumCols
    BY <2>1, <2>6, <1>1, Ranges DEF RowTypes
  <2> QED
    BY <2>8, <2>9, <2>10 DEF RowReading
<1>6. CASE ~push
  <2>1. fifo_row' = rest /\ row_sent' = row_sent /\ (row_busy' <=> row_busy)
    BY <1>3, <1>6, <1>4
  <2>2. Line(fifo_row, RowWords, input_counter)'
    BY <2>1, <1>2
  <2> QED
    BY <2>1, <2>2, <1>1, <1>2 DEF RowReading, RowTypes
<1> QED
  BY <1>5, <1>6

\* What a step does to the divider and the BRAM before the last quotient.
LEMMA RowDividingStep ==
  ASSUME Types, row_resetn, ~row_cont, ~row_terminate, RowReading, RowDividing,
         NEW ready \in BOOLEAN, NEW out \in BOOLEAN, NEW flag \in BOOLEAN, NEW push \in BOOLEAN,
         RowStep(ready, out, flag, push),
         RowOperands' = RowOperands, UNCHANGED <<pivot_row, version>>, ~row_terminate'
  PROVE  RowDividing'
<1>1. /\ RowTypes
      /\ ready => fifo_row # <<>>
      /\ out => div # <<>>
      /\ input_counter' = IF ready THEN input_counter + 1 ELSE input_counter
  BY DEF Types, RowStep, Row!BlockEdge, Row!CountEdge, Row!Taken, Row!tready
<1> DEFINE rest == IF out THEN Tail(div) ELSE div
           operand == [word |-> Head(fifo_row), number |-> input_counter, flag |-> flag]
<1>2. div' = IF ready THEN Append(rest, operand) ELSE rest
  BY <1>1 DEF RowStep, Row!BlockEdge, Row!DividerEdge
<1>3. \/ ~out /\ UNCHANGED <<row_cont, waddr, bram>>
      \/ /\ out /\ bram' = [bram EXCEPT ![waddr] = Head(div).word]
         /\ waddr' = waddr + 1
         /\ row_cont' = (Head(div).number = NumCols - 1)
  BY DEF RowStep, Row!BlockEdge, Row!Reset, Row!NoResult, Row!Flagged, Row!Quotient, Row!latches
<1>4. waddr' = IF out THEN waddr + 1 ELSE waddr
  BY <1>3
<1>5. out => /\ Head(div) \in RowOperands[waddr]
             /\ Len(div) > 0 /\ Len(Tail(div)) = Len(div) - 1
             /\ Tail(div) \in Seq(Operand) /\ Line(Tail(div), RowOperands, waddr + 1)
  BY <1>1, LineHead DEF RowDividing, RowTypes
<1>6. out => Head(div).word = Before(RowBase + waddr) /\ Head(div).number = waddr
  BY <1>1, <1>5, RowOrders DEF RowTypes
<1>7. /\ rest \in Seq(Operand) /\ Len(rest) \in Nat /\ waddr' \in Nat
      /\ input_counter = waddr' + Len(rest)
      /\ Line(rest, RowOperands, waddr')
  <2>1. Len(div) \in Nat /\ div \in Seq(Operand) /\ waddr \in Nat
    BY <1>1 DEF RowTypes
  <2> QED
    BY <2>1, <1>4, <1>5 DEF RowDividing
<1>8. ready => operand \in Operand /\ operand \in RowOperands[input_counter]
  <2> SUFFICES ASSUME ready PROVE operand \in Operand /\ operand \in RowOperands[input_counter]
    OBVIOUS
  <2>1. Head(fifo_row) \in WordType /\ Head(fifo_row) \in RowWords[input_counter]
    BY <1>1, LineHead DEF RowReading, RowTypes
  <2>2. Head(fifo_row) = Before(RowBase + input_counter)
    BY <2>1, <1>1, RowOrders DEF RowTypes
  <2>3. operand \in Operand
    BY <2>1, <1>1 DEF Operand, RowTypes
  <2> QED
    BY <2>2, <2>3, <1>1, RowOrders DEF RowTypes
<1> HIDE DEF rest, operand
<1>9. input_counter' = waddr' + Len(div') /\ Line(div', RowOperands, waddr')
  <2>1. CASE ready
    <3>1. Len(Append(rest, operand)) = Len(rest) + 1
          /\ Line(Append(rest, operand), RowOperands, waddr')
      BY <2>1, <1>7, <1>8, LineAppend
    <3> QED
      BY <3>1, <2>1, <1>1, <1>2, <1>7
  <2>2. CASE ~ready
    BY <2>2, <1>1, <1>2, <1>7
  <2> QED
    BY <2>1, <2>2
<1>10. Line(div, RowOperands, waddr)'
  BY <1>9
<1>11. ASSUME NEW c \in 0..NumCols-1, c < waddr' PROVE bram'[c] = Before(RowBase + c)
  <2>1. c < waddr => bram[c] = Before(RowBase + c)
    BY DEF RowDividing
  <2>2. CASE ~out
    BY <2>1, <2>2, <1>3, <1>4, <1>11
  <2>3. CASE out
    <3>1. bram' = [bram EXCEPT ![waddr] = Before(RowBase + waddr)] /\ waddr' = waddr + 1
      BY <2>3, <1>3, <1>6
    <3> QED
      BY <3>1, <2>1, <1>1, <1>11 DEF RowTypes
  <2> QED
    BY <2>2, <2>3
<1>12. row_cont' <=> waddr' = NumCols
  <2>1. CASE ~out
    BY <2>1, <1>3 DEF RowDividing
  <2>2. CASE out
    <3>1. row_cont' = (waddr = NumCols - 1) /\ waddr' = waddr + 1
      BY <2>2, <1>3, <1>6
    <3>2. waddr \in Nat /\ NumCols \in Nat
      BY <1>1, Ranges DEF RowTypes
    <3>3. waddr = NumCols - 1 <=> waddr + 1 = NumCols
      BY <3>2
    <3>4. row_cont' <=> waddr = NumCols - 1
      BY <3>1
    <3> QED
      BY <3>1, <3>3, <3>4
  <2> QED
    BY <2>1, <2>2
<1>13. (Before(RowBase + 0))' = Before(RowBase + 0) /\ RowBase' = RowBase /\ version' = version
  BY DEF Before, RowBase
<1>14. \A c \in 0..NumCols-1 : c < waddr' => bram'[c] = (Before(RowBase + c))'
  BY <1>11, <1>13 DEF Before
<1> QED
  BY <1>9, <1>10, <1>12, <1>14 DEF RowDividing

LEMMA RowFlowStep ==
  ASSUME Types, ControlLines, clean => CleanRound, Next, clean'
  PROVE  RowFlow'
<1> SUFFICES ASSUME RowOn'
             PROVE  /\ RowReading'
                    /\ ~row_terminate' => RowDividing'
                    /\ reset_left' = 1 => input_counter' = 0 /\ waddr' = 0 /\ div' = <<>>
  BY DEF RowFlow
<1>1. ControlEdge /\ RowEdge /\ ControlTypes /\ RowTypes
  BY DEF Next, Types
<1>2. Wait /\ phase = "update_row" /\ phase' = "update_row" /\ addressed
  <2>1. phase' = "update_row" /\ reset_left' # 2
    BY <1>1 DEF RowOn, ControlTypes
  <2>2. phase = "update_row" /\ Wait
    BY <2>1, <1>1, ControlSteps
  <2> QED
    BY <2>1, <2>2 DEF ControlLines
<1>3. clean /\ UNCHANGED <<pivot_row, version>>
  BY <1>2 DEF Wait
<1>4. CleanRound
  BY <1>3
<1>5. ddr = [p \in Place |-> version]
  BY <1>2, <1>4 DEF CleanRound, TabQuiet, Resting
<1>6. RowWords' = RowWords /\ RowOperands' = RowOperands
  BY <1>3 DEF RowWords, RowOperands, RowBase, Before
<1>7. PICK ready \in BOOLEAN, out \in BOOLEAN, flag \in BOOLEAN, push \in BOOLEAN :
        RowStep(ready, out, flag, push)
  BY <1>1, RowCases
<1>8. CASE reset_left = 2
  <2>1. fifo_row = <<>> /\ ~row_busy
    BY <1>2, <1>4, <1>8 DEF CleanRound, RowQuiet, RowOn
  <2>2. Entering("update_row") /\ ~row_resetn
    BY <1>2, <1>8 DEF Entering, row_resetn
  <2>3. ~push /\ RowReaderEdge(Row!tready(row_resetn, ready), push)
    BY <1>7, <2>1 DEF RowStep
  <2>4. fifo_row' = <<>> /\ row_sent' = 0
    BY <2>1, <2>2, <2>3 DEF RowReaderEdge, Reader, Pop
  <2>5. row_busy'
    BY <2>1, <2>2, <2>3 DEF RowReaderEdge, Reader
  <2>6. input_counter' = 0 /\ waddr' = 0 /\ div' = <<>> /\ ~row_cont' /\ ~row_terminate'
    BY <1>7, <2>2 DEF RowStep, Row!BlockEdge, Row!CountEdge, Row!DividerEdge, Row!Reset,
                      Row!NoResult, Row!Flagged, Row!Quotient
  <2>7. RowReading'
    <3>1. Line(fifo_row, RowWords, input_counter)'
      BY <2>4, LineEmpty
    <3>2. Len(fifo_row') = 0
      BY <2>4
    <3> QED
      BY <2>4, <2>5, <2>6, <3>1, <3>2, Ranges DEF RowReading
  <2>8. RowDividing'
    <3>1. Line(div, RowOperands, waddr)'
      BY <2>6, LineEmpty
    <3>2. Len(div') = 0
      BY <2>6
    <3> QED
      BY <2>6, <3>1, <3>2, Ranges DEF RowDividing
  <2> QED
    BY <2>6, <2>7, <2>8
<1>9. CASE reset_left # 2
  <2>1. RowOn /\ RowReading /\ ~row_cont /\ ~row_terminate /\ RowDividing /\ reset_left' = 0
    <3>1. RowOn /\ reset_left' = 0
      BY <1>1, <1>2, <1>9 DEF RowOn, Wait, ControlTypes
    <3>2. ~row_cont /\ ~row_terminate
      BY <1>2, <1>9 DEF Wait
    <3> QED
      BY <3>1, <3>2, <1>4 DEF CleanRound, RowFlow
  <2> DEFINE taken == Row!tready(row_resetn, ready)
  <2>2. taken \in BOOLEAN /\ (taken => fifo_row # <<>>) /\ RowReaderEdge(taken, push)
        /\ (push => row_busy)
    BY <1>7 DEF RowStep, Row!tready
  <2>3. input_counter' = IF taken THEN input_counter + 1 ELSE input_counter
    <3>1. row_resetn \/ input_counter = 0
      BY <1>1, <1>2, <1>4, <1>9, <2>1 DEF row_resetn, ControlTypes, CleanRound, RowFlow
    <3>2. input_counter' = IF ~row_resetn THEN 0
                           ELSE IF taken /\ fifo_row # <<>> THEN input_counter + 1
                           ELSE input_counter
      BY <1>7 DEF RowStep, Row!BlockEdge, Row!CountEdge, Row!Taken
    <3>3. taken => row_resetn
      BY DEF Row!tready
    <3> QED
      BY <3>1, <3>2, <3>3, <2>2
  <2> HIDE DEF taken
  <2>4. RowReading'
    <3>1. reset_left < 2 /\ push \in BOOLEAN
      BY <2>1 DEF RowOn
    <3> QED
      BY <3>1, <2>1, <2>2, <2>3, <1>2, <1>5, <1>6, RowReadingStep
  <2>5. ASSUME ~row_terminate' PROVE RowDividing'
    <3>1. CASE row_resetn
      BY <3>1, <2>1, <2>5, <1>3, <1>6, <1>7, RowDividingStep
    <3>2. CASE ~row_resetn
      <4>1. input_counter' = 0 /\ waddr' = 0 /\ div' = <<>> /\ ~row_cont'
        BY <1>7, <3>2 DEF RowStep, Row!BlockEdge, Row!CountEdge, Row!DividerEdge, Row!Reset,
                          Row!NoResult, Row!Flagged, Row!Quotient
      <4>2. Line(div, RowOperands, waddr)'
        BY <4>1, LineEmpty
      <4>3. Len(div') = 0
        BY <4>1
      <4> QED
        BY <4>1, <4>2, <4>3, Ranges DEF RowDividing
    <3> QED
      BY <3>1, <3>2
  <2> QED
    BY <2>1, <2>4, <2>5
<1> QED
  BY <1>8, <1>9

LEMMA RowInPlaceStep ==
  ASSUME Types, ControlLines, clean => CleanRound, Next, clean'
  PROVE  RowInPlace'
<1> SUFFICES ASSUME phase' = "update_tableau", NEW c \in 0..NumCols-1
             PROVE  bram'[c] = (Before((pivot_row - 1) * NumCols + c))'
  BY DEF RowInPlace
<1>1. ControlEdge /\ ControlTypes
  BY DEF Next, Types
<1>2. \/ phase = "update_row" /\ RowDivided
      \/ phase = "update_tableau" /\ Wait
  BY <1>1, ControlSteps
<1>3. clean /\ UNCHANGED <<pivot_row, version>>
  BY <1>2 DEF Wait, RowDivided, Enter
<1>4. row_cont /\ ~row_terminate /\ row_resetn
  <2>1. CASE phase = "update_row" /\ RowDivided
    <3>1. reset_left = 0
      BY <2>1, <1>1 DEF RowDivided, ControlLines, ControlTypes
    <3> QED
      BY <2>1, <3>1 DEF RowDivided, row_resetn
  <2>2. CASE phase = "update_tableau"
    BY <2>2 DEF ControlLines, row_resetn
  <2> QED
    BY <2>1, <2>2, <1>2
<1>5. bram' = bram
  BY <1>4, RowCases, RowLatches DEF Next
<1>6. bram[c] = Before(RowBase + c)
  <2>1. CASE phase = "update_row" /\ RowDivided
    <3>1. RowOn
      BY <2>1, <1>1 DEF RowDivided, ControlTypes, RowOn
    <3>2. RowDividing /\ waddr = NumCols
      BY <3>1, <1>3, <1>4, RowWhole DEF CleanRound, RowFlow
    <3> QED
      BY <3>2, Ranges DEF RowDividing
  <2>2. CASE phase = "update_tableau"
    BY <2>2, <1>3 DEF CleanRound, RowInPlace, RowBase
  <2> QED
    BY <2>1, <2>2, <1>2
<1> QED
  BY <1>3, <1>5, <1>6 DEF Before, RowBase

-----------------------------------------------------------------------------
(* The tableau on its way through the arithmetic unit.                      *)

\* A step on which update_tableau is at work, or will be.
LEMMA TabOnSteps ==
  ASSUME Types, ControlLines, ControlEdge, TabOn'
  PROVE  /\ Wait /\ phase = "update_tableau" /\ phase' = "update_tableau"
         /\ UNCHANGED <<pivot_row, version, clean, continuing>>
         /\ reset_left = 2 => reset_left' = 1
         /\ reset_left # 2 => TabOn /\ reset_left' = 0 /\ ~terminate /\ ~(cont /\ writeback_done)
<1>1. ControlTypes
  BY DEF Types
<1>2. phase' = "update_tableau" /\ reset_left' # 2
  BY <1>1 DEF TabOn
<1>3. phase = "update_tableau" /\ Wait
  BY <1>1, <1>2, ControlSteps
<1>4. UNCHANGED <<pivot_row, version, clean, continuing>>
  BY <1>3 DEF Wait
<1>5. reset_left = 2 => reset_left' = 1
  BY <1>3 DEF Wait
<1>6. reset_left # 2 => TabOn /\ reset_left' = 0
  BY <1>1, <1>3 DEF Wait, TabOn, ControlTypes
<1>7. reset_left # 2 => ~terminate /\ ~(cont /\ writeback_done)
  BY <1>3 DEF Wait
<1> QED
  BY <1>2, <1>3, <1>4, <1>5, <1>6, <1>7

\* The start line of the phase and the start pulse of the reader.
LEMMA TabBegins ==
  ASSUME Types, ControlLines, CleanRound, phase = "update_tableau", reset_left = 2, TableauEdge
  PROVE  /\ ~cont' /\ ~terminate' /\ row_index' = 1 /\ col_index' = 1
         /\ bram_state' = 0 /\ bram_wait_counter' = 2 /\ ~bram_valid'
         /\ pc_state' = 0 /\ ~pc_tready' /\ ~pc_valid'
         /\ unit' = <<>> /\ fifo_tab' = <<>> /\ tab_busy' /\ tab_sent' = 0
         /\ ddr' = ddr /\ landed' = 0 /\ ~writeback_done'
<1>1. PICK ready \in BOOLEAN, enter \in BOOLEAN, flag \in BOOLEAN, taken \in BOOLEAN,
           push \in BOOLEAN : TableauStep(ready, enter, flag, taken, push)
  BY TableauCases
<1>2. ~tab_resetn /\ start /\ Entering("update_tableau")
  BY DEF tab_resetn, ControlLines, Entering
<1>3. /\ fifo_tab = <<>> /\ ~tab_busy /\ unit = <<>> /\ landed = 0
      /\ ddr = [p \in Place |-> version] /\ ~writeback_done
  BY DEF CleanRound, TabQuiet, Resting
<1>4. ~taken /\ ~push
  BY <1>1, <1>3 DEF TableauStep, ControlLines
<1>5. ~cont' /\ ~terminate' /\ row_index' = 1 /\ col_index' = 1
  BY <1>1, <1>2 DEF TableauStep, Tab!ContEdge, Tab!TerminateEdge, Tab!IndexEdge
<1>6. bram_state' = 0 /\ bram_wait_counter' = 2 /\ ~bram_valid'
  BY <1>1, <1>2 DEF TableauStep, Tab!BramEdge, Tab!BramReset, Tab!BramWait, Tab!BramValid,
                    Tab!BramUsed
<1>7. pc_state' = 0 /\ ~pc_tready' /\ ~pc_valid'
  BY <1>1, <1>2 DEF TableauStep, Tab!ColumnEdge, Tab!ColumnReset
<1>8. unit' = <<>>
  BY <1>1, <1>2 DEF TableauStep, Tab!UnitEdge
<1>9. TabReaderEdge(enter, push)
  BY <1>1 DEF TableauStep
<1>10. fifo_tab' = <<>> /\ tab_sent' = 0
  BY <1>2, <1>3, <1>4, <1>9 DEF TabReaderEdge, Reader, Pop
<1>11. tab_busy'
  BY <1>2, <1>3, <1>4, <1>9 DEF TabReaderEdge, Reader
<1>12. ddr' = ddr /\ landed' = 0 /\ ~writeback_done'
  BY <1>1, <1>3, <1>4, Ranges DEF TableauStep, WriterEdge
<1> QED
  BY <1>5, <1>6, <1>7, <1>8, <1>10, <1>11, <1>12

\* A block of update_tableau that waits lets nothing in.
LEMMA TabRest ==
  ASSUME Types, ControlLines, fifo_tab = <<>>, ~tab_busy, unit = <<>>, landed = 0,
         ~Entering("update_tableau"), TableauEdge
  PROVE  /\ fifo_tab' = <<>> /\ ~tab_busy' /\ unit' = <<>> /\ landed' = 0 /\ ~writeback_done'
         /\ ddr' = IF phase = "idle" /\ phase' = "row" /\ ~continuing
                   THEN [p \in Place |-> version + 1] ELSE ddr
<1>1. PICK ready \in BOOLEAN, enter \in BOOLEAN, flag \in BOOLEAN, taken \in BOOLEAN,
           push \in BOOLEAN : TableauStep(ready, enter, flag, taken, push)
  BY TableauCases
<1>2. ~taken /\ ~push /\ ~enter
  BY <1>1 DEF TableauStep, ControlLines, Enters, Tab!S_AXIS_TABLEAU_TREADY
<1>3. unit' = <<>>
  BY <1>1, <1>2 DEF TableauStep, Tab!UnitEdge
<1>4. TabReaderEdge(enter, push)
  BY <1>1 DEF TableauStep
<1>5. fifo_tab' = <<>> /\ ~tab_busy'
  BY <1>2, <1>4 DEF TabReaderEdge, Reader, Pop
<1>6. landed' = 0 /\ ~writeback_done'
  BY <1>1, <1>2, Ranges DEF TableauStep, WriterEdge
<1>7. ddr' = IF phase = "idle" /\ phase' = "row" /\ ~continuing
             THEN [p \in Place |-> version + 1] ELSE ddr
  BY <1>1, <1>2 DEF TableauStep, WriterEdge
<1> QED
  BY <1>3, <1>5, <1>6, <1>7

\* The place of the element that comes next, and how it moves.
LEMMA EnteredType ==
  ASSUME Types
  PROVE  /\ row_index - 1 \in Nat /\ col_index - 1 \in 0..NumCols-1
         /\ (row_index - 1) * NumCols \in Nat /\ Entered \in Nat
<1>1. row_index - 1 \in Nat /\ col_index - 1 \in 0..NumCols-1
  BY Ranges DEF Types, BlockTypes
<1>2. (row_index - 1) * NumCols \in Nat
  BY <1>1, Multiples
<1> QED
  BY <1>1, <1>2, Ranges DEF Entered

LEMMA EnteredAll ==
  ASSUME Types, TabOn, Indices
  PROVE  cont <=> Entered = Total
<1>1. /\ row_index - 1 \in Nat /\ col_index - 1 \in 0..NumCols-1
      /\ (row_index - 1) * NumCols \in Nat
  BY EnteredType
<1>2. CASE cont
  <2>1. row_index - 1 = NumRows /\ col_index = 1
    BY <1>2, Ranges DEF Indices
  <2> QED
    BY <1>1, <1>2, <2>1, Multiples, Ranges DEF Entered
<1>3. CASE ~cont
  <2>1. row_index - 1 < NumRows
    BY <1>1, <1>3, Ranges DEF Indices
  <2>2. (row_index - 1) * NumCols + NumCols <= Total
    BY <1>1, <2>1, Multiples
  <2>3. Entered < Total
    BY <1>1, <2>2, Ranges DEF Entered
  <2> QED
    BY <1>3, <2>3, Ranges
<1> QED
  BY <1>2, <1>3

\* All elements are in once the last is, and none is under way.
LEMMA TabAllIn ==
  ASSUME Types, TabOn, Indices, TabFlow, Entered = Total
  PROVE  fifo_tab = <<>> /\ ~tab_busy
<1>1. Len(fifo_tab) \in Nat /\ (Len(fifo_tab) = 0 => fifo_tab = <<>>) /\ tab_sent \in Nat
  BY SeqLen DEF Types, StreamTypes
<1>2. tab_sent = Total + Len(fifo_tab) /\ tab_sent <= Total /\ (tab_busy <=> tab_sent < Total)
  BY DEF TabFlow
<1>3. tab_sent = Total /\ Len(fifo_tab) = 0
  BY <1>1, <1>2, Ranges
<1> QED
  BY <1>1, <1>2, <1>3, Ranges

\* What an edge does to the indices while update_tableau is at work.
LEMMA TabRun ==
  ASSUME Types, ControlLines, Indices, TabFresh, TabOn,
         NEW ready \in BOOLEAN, NEW enter \in BOOLEAN, NEW flag \in BOOLEAN,
         NEW taken \in BOOLEAN, NEW push \in BOOLEAN,
         TableauStep(ready, enter, flag, taken, push)
  PROVE  /\ enter => /\ reset_left = 0 /\ tab_resetn /\ fifo_tab # <<>> /\ bram_valid /\ pc_valid
                     /\ ~cont /\ row_index \in 1..NumRows
         /\ row_index' = IF enter /\ col_index = NumCols THEN row_index + 1 ELSE row_index
         /\ col_index' = IF ~enter THEN col_index
                         ELSE IF col_index = NumCols THEN 1 ELSE col_index + 1
         /\ cont' <=> cont \/ (enter /\ row_index = NumRows /\ col_index = NumCols)
         /\ Entered' = IF enter THEN Entered + 1 ELSE Entered
<1>1. enter => /\ tab_resetn /\ fifo_tab # <<>> /\ bram_valid /\ pc_valid /\ ~cont
  BY DEF TableauStep, Enters, Tab!S_AXIS_TABLEAU_TREADY
<1>2. BlockTypes /\ ControlTypes
  BY DEF Types
<1>3. tab_resetn <=> reset_left = 0
  BY <1>2 DEF TabOn, tab_resetn, ControlTypes
<1>4. enter => row_index \in 1..NumRows
  BY <1>1, <1>2, Ranges DEF Indices, BlockTypes
<1>5. ~tab_resetn => row_index = 1 /\ col_index = 1 /\ ~cont /\ ~enter
  BY <1>1, <1>2, <1>3 DEF TabFresh, TabOn, ControlLines, ControlTypes
<1>6. /\ row_index' = IF enter /\ col_index = NumCols THEN row_index + 1 ELSE row_index
      /\ col_index' = IF ~enter THEN col_index
                      ELSE IF col_index = NumCols THEN 1 ELSE col_index + 1
  BY <1>5 DEF TableauStep, Tab!IndexEdge, Tab!LastColumn, Tab!indices
<1>7. cont' <=> cont \/ (enter /\ row_index = NumRows /\ col_index = NumCols)
  BY <1>5 DEF TableauStep, Tab!ContEdge, Tab!LastColumn
<1>8. Entered' = IF enter THEN Entered + 1 ELSE Entered
  <2>1. row_index - 1 \in Nat /\ (row_index - 1) * NumCols \in Nat /\ col_index \in 1..NumCols
        /\ row_index \in Nat
    BY EnteredType, <1>2 DEF BlockTypes
  <2>2. ((row_index - 1) + 1) * NumCols = (row_index - 1) * NumCols + NumCols
    BY <2>1, Multiples
  <2>3. CASE enter /\ col_index = NumCols
    <3>1. row_index' = row_index + 1 /\ col_index' = 1
      BY <1>6, <2>3
    <3>2. row_index' - 1 = (row_index - 1) + 1
      BY <3>1, <2>1
    <3>3. (row_index' - 1) * NumCols = (row_index - 1) * NumCols + NumCols
      BY <3>2, <2>2
    <3> QED
      BY <3>1, <3>3, <2>1, <2>3, Ranges DEF Entered
  <2>4. CASE enter /\ col_index # NumCols
    <3>1. row_index' = row_index /\ col_index' = col_index + 1
      BY <1>6, <2>4
    <3> QED
      BY <3>1, <2>1, <2>4, Ranges DEF Entered
  <2>5. CASE ~enter
    BY <1>6, <2>5 DEF Entered
  <2> QED
    BY <2>3, <2>4, <2>5
<1> QED
  BY <1>1, <1>3, <1>4, <1>6, <1>7, <1>8

LEMMA IndicesStep ==
  ASSUME Types, ControlLines, clean => CleanRound, Next, clean'
  PROVE  Indices' /\ TabFresh'
<1> SUFFICES ASSUME TabOn' PROVE Indices' /\ TabFresh'
  BY DEF Indices, TabFresh
<1>1. ControlEdge /\ TableauEdge
  BY DEF Next
<1>2. /\ Wait /\ phase = "update_tableau" /\ phase' = "update_tableau"
      /\ clean' = clean
      /\ reset_left # 2 => TabOn /\ reset_left' = 0
  BY <1>1, TabOnSteps
<1>3. CleanRound
  BY <1>2
<1>4. CASE reset_left = 2
  BY <1>2, <1>3, <1>1, <1>4, TabBegins, Ranges DEF Indices, TabFresh
<1>5. CASE reset_left # 2
  <2>1. PICK ready \in BOOLEAN, enter \in BOOLEAN, flag \in BOOLEAN, taken \in BOOLEAN,
             push \in BOOLEAN : TableauStep(ready, enter, flag, taken, push)
    BY <1>1, TableauCases
  <2>2. TabOn /\ Indices /\ TabFresh /\ reset_left' = 0
    BY <1>2, <1>3, <1>5 DEF CleanRound
  <2>3. /\ enter => ~cont /\ row_index \in 1..NumRows
        /\ row_index' = IF enter /\ col_index = NumCols THEN row_index + 1 ELSE row_index
        /\ col_index' = IF ~enter THEN col_index
                        ELSE IF col_index = NumCols THEN 1 ELSE col_index + 1
        /\ cont' <=> cont \/ (enter /\ row_index = NumRows /\ col_index = NumCols)
    BY <2>1, <2>2, TabRun
  <2>4. /\ row_index \in 1..NumRows+1
        /\ row_index = NumRows + 1 => col_index = 1
        /\ cont <=> row_index = NumRows + 1
    BY <2>2 DEF Indices
  <2>5. row_index' \in 1..NumRows+1 /\ (row_index' = NumRows + 1 => col_index' = 1)
    BY <2>3, <2>4, Ranges
  <2>6. cont' <=> row_index' = NumRows + 1
    BY <2>3, <2>4, Ranges
  <2> QED
    BY <2>2, <2>5, <2>6 DEF Indices, TabFresh
<1> QED
  BY <1>4, <1>5

LEMMA OtherOrders ==
  ASSUME NEW n \in Nat
  PROVE  /\ TabWords[n] = {Before(n)}
         /\ ColWords[n] = {Before(n * NumCols + PivotCol)}
         /\ Results[n] = {u \in Result : RightOperands(u, n)}
BY DEF TabWords, ColWords, Results

\* A word is read before its place is overwritten.
LEMMA TabWordRead ==
  ASSUME Types, TabOn, Indices, TabFlow, Landing, tab_busy
  PROVE  Word(tab_sent) = Before(tab_sent)
<1>1. tab_sent < Total /\ tab_sent = Entered + Len(fifo_tab)
      /\ tab_sent \in Nat /\ Len(fifo_tab) \in Nat /\ Entered \in Nat
  BY SeqLen, EnteredType DEF TabFlow, Types, StreamTypes
<1>2. Entered # Total
  BY <1>1, Ranges
<1>3. ~writeback_done
  BY <1>2, EnteredAll DEF Landing
<1>4. landed + Len(unit) = Entered
      /\ ddr = [p \in Place |-> IF p < landed THEN version + 1 ELSE version]
  BY <1>3 DEF Landing
<1>5. Len(unit) \in Nat /\ landed \in Nat
  BY SeqLen, Ranges DEF Types, StreamTypes
<1>6. tab_sent \in Place /\ ~(tab_sent < landed)
  BY <1>1, <1>4, <1>5, Ranges DEF Place
<1>7. ddr[tab_sent] = version
  BY <1>4, <1>6
<1> QED
  BY <1>6, <1>7 DEF Word, Before

LEMMA TabFlowStep ==
  ASSUME Types, ControlLines, clean => CleanRound, Next, clean'
  PROVE  TabFlow'
<1> SUFFICES ASSUME TabOn'
             PROVE  /\ tab_sent' = Entered' + Len(fifo_tab') /\ tab_sent' <= Total
                    /\ tab_busy' <=> tab_sent' < Total
                    /\ Line(fifo_tab', TabWords', Entered')
  BY DEF TabFlow, Line
<1>1. ControlEdge /\ TableauEdge
  BY DEF Next
<1>2. /\ Wait /\ phase = "update_tableau" /\ phase' = "update_tableau"
      /\ clean' = clean /\ version' = version
      /\ reset_left # 2 => TabOn /\ reset_left' = 0
  BY <1>1, TabOnSteps
<1>3. CleanRound
  BY <1>2
<1>4. TabWords' = TabWords
  BY <1>2 DEF TabWords, Before
<1>5. CASE reset_left = 2
  <2>1. row_index' = 1 /\ col_index' = 1 /\ fifo_tab' = <<>> /\ tab_busy' /\ tab_sent' = 0
    BY <1>2, <1>3, <1>1, <1>5, TabBegins
  <2>2. Entered' = 0
    BY <2>1, Ranges DEF Entered
  <2>3. Len(fifo_tab') = 0 /\ Line(fifo_tab', TabWords', Entered')
    BY <2>1, LineEmpty
  <2> QED
    BY <2>1, <2>2, <2>3, Ranges
<1>6. CASE reset_left # 2
  <2>1. PICK ready \in BOOLEAN, enter \in BOOLEAN, flag \in BOOLEAN, taken \in BOOLEAN,
             push \in BOOLEAN : TableauStep(ready, enter, flag, taken, push)
    BY <1>1, TableauCases
  <2>2. TabOn /\ Indices /\ TabFresh /\ TabFlow /\ Landing /\ ~Entering("update_tableau")
    BY <1>2, <1>3, <1>6 DEF CleanRound, Entering
  <2>3. /\ enter => fifo_tab # <<>>
        /\ Entered' = IF enter THEN Entered + 1 ELSE Entered
    BY <2>1, <2>2, TabRun
  <2>4. /\ fifo_tab \in Seq(WordType) /\ Len(fifo_tab) \in Nat /\ tab_sent \in Nat
        /\ tab_busy \in BOOLEAN /\ Entered \in Nat
    BY SeqLen, EnteredType DEF Types, StreamTypes
  <2>5. /\ tab_sent = Entered + Len(fifo_tab) /\ tab_sent <= Total
        /\ tab_busy <=> tab_sent < Total
        /\ Line(fifo_tab, TabWords, Entered)
    BY <2>2 DEF TabFlow
  <2> DEFINE rest == Pop(fifo_tab, enter)
  <2>6. /\ rest \in Seq(WordType) /\ Entered' \in Nat /\ Len(rest) \in Nat
        /\ Entered' + Len(rest) = tab_sent /\ Line(rest, TabWords, Entered')
    <3>1. CASE enter
      <4>1. rest = Tail(fifo_tab) /\ Entered' = Entered + 1
        BY <3>1, <2>3 DEF Pop
      <4>2. /\ Tail(fifo_tab) \in Seq(WordType) /\ Len(Tail(fifo_tab)) = Len(fifo_tab) - 1
            /\ Len(fifo_tab) > 0 /\ Line(Tail(fifo_tab), TabWords, Entered + 1)
        BY <3>1, <2>3, <2>4, <2>5, LineHead
      <4> QED
        BY <4>1, <4>2, <2>4, <2>5
    <3>2. CASE ~enter
      BY <3>2, <2>3, <2>4, <2>5 DEF Pop
    <3> QED
      BY <3>1, <3>2
  <2>7. TabReaderEdge(enter, push) /\ (push => tab_busy)
    BY <2>1 DEF TableauStep
  <2>8. /\ tab_sent' = IF push THEN tab_sent + 1 ELSE tab_sent
        /\ fifo_tab' = IF push THEN Append(rest, Word(tab_sent)) ELSE rest
    BY <2>2, <2>7 DEF TabReaderEdge, Reader
  <2>9. tab_busy' <=> tab_busy /\ ~(push /\ tab_sent = Total - 1)
    <3>1. tab_busy' = IF tab_busy THEN ~(push /\ tab_sent = Total - 1)
                      ELSE Entering("update_tableau")
      BY <2>7 DEF TabReaderEdge, Reader
    <3> QED
      BY <3>1, <2>2
  <2> HIDE DEF rest
  <2>10. tab_sent' <= Total /\ (tab_busy' <=> tab_sent' < Total)
    BY <2>4, <2>5, <2>7, <2>8, <2>9, Ranges
  <2>11. tab_sent' = Entered' + Len(fifo_tab') /\ Line(fifo_tab', TabWords, Entered')
    <3>1. CASE push
      <4>1. Word(tab_sent) = Before(tab_sent)
        BY <3>1, <2>2, <2>7, TabWordRead
      <4>2. Word(tab_sent) \in WordType /\ Word(tab_sent) \in TabWords[Entered' + Len(rest)]
        <5>1. tab_sent \in Int /\ StreamTypes
          BY <2>4 DEF Types
        <5> QED
          BY <4>1, <5>1, <2>4, <2>6, OtherOrders, WordTypes
      <4>3. /\ Len(Append(rest, Word(tab_sent))) = Len(rest) + 1
            /\ Line(Append(rest, Word(tab_sent)), TabWords, Entered')
        BY <4>2, <2>6, LineAppend
      <4> QED
        BY <4>3, <3>1, <2>6, <2>8
    <3>2. CASE ~push
      BY <3>2, <2>6, <2>8
    <3> QED
      BY <3>1, <3>2
  <2> QED
    BY <2>10, <2>11, <1>4
<1> QED
  BY <1>5, <1>6

\* The operands that enter are those of their place.
LEMMA EnteringRight ==
  ASSUME Types, TabOn, clean, RowInPlace, TabFlow, BramFlow, ColumnFsm,
         fifo_tab # <<>>, bram_valid, pc_valid, NEW flag \in BOOLEAN
  PROVE  RightOperands(Tab!Operands(fifo_tab, pivot_row, flag), Entered)
<1> DEFINE c == col_index - 1
           r == row_index - 1
           word == Head(fifo_tab)
<1>1. r \in Nat /\ c \in 0..NumCols-1 /\ Entered \in Nat /\ Entered = r * NumCols + c
  BY EnteredType DEF Entered
<1>2. Entered \div NumCols = r /\ Entered % NumCols = c
  <2> HIDE DEF r, c
  <2> QED
    BY <1>1, Division
<1>3. bram_data = Before((pivot_row - 1) * NumCols + c)
  <2>1. bram_data = bram[c] /\ phase = "update_tableau"
    BY DEF BramFlow, TabOn
  <2> HIDE DEF c
  <2> QED
    BY <2>1, <1>1 DEF RowInPlace
<1>4. pc_data = Before(r * NumCols + PivotCol)
  BY DEF ColumnFsm
<1>5. word = Before(Entered)
  <2>1. fifo_tab \in Seq(WordType) /\ Line(fifo_tab, TabWords, Entered)
    BY DEF Types, StreamTypes, TabFlow
  <2>2. word \in TabWords[Entered]
    BY <2>1, <1>1, LineHead
  <2> QED
    BY <2>2, <1>1, OtherOrders
<1>6. r + 1 = row_index
  BY DEF Types, BlockTypes
<1> HIDE DEF c, r, word
<1> DEFINE op == Tab!Operands(fifo_tab, pivot_row, flag)
<1>7. op = IF row_index = pivot_row
           THEN [a |-> bram_data, c |-> bram_data, flag |-> flag, skip |-> TRUE]
           ELSE [a |-> bram_data, b |-> pc_data, c |-> word, flag |-> flag, skip |-> FALSE]
  BY DEF Tab!Operands, word
<1>8. /\ op.a = bram_data
      /\ op.skip <=> row_index = pivot_row
      /\ ~op.skip => op.b = pc_data /\ op.c = word
  <2>1. CASE row_index = pivot_row
    BY <2>1, <1>7
  <2>2. CASE row_index # pivot_row
    BY <2>2, <1>7
  <2> QED
    BY <2>1, <2>2
<1> HIDE DEF op
<1>9. RightOperands(op, Entered)
  BY <1>2, <1>3, <1>4, <1>5, <1>6, <1>8 DEF RightOperands
<1> QED
  BY <1>9 DEF op

\* The results that are made, in the order in which they land.
LEMMA OperandsInLine ==
  ASSUME Types
  PROVE  OperandsAlways <=> (phase = "update_tableau" => Line(unit, Results, landed))
<1>1. unit \in Seq(Result) /\ landed \in Nat
  BY Ranges DEF Types, StreamTypes
<1>2. ASSUME NEW i \in 1..Len(unit)
      PROVE  unit[i] \in Results[landed + i - 1] <=> RightOperands(unit[i], landed + i - 1)
  <2>1. unit[i] \in Result /\ landed + i - 1 \in Nat
    BY <1>1
  <2> QED
    BY <2>1, OtherOrders
<1> QED
  BY <1>2 DEF OperandsAlways, Line

\* What an edge does to the elements in the arithmetic unit.
LEMMA UnitRun ==
  ASSUME Types, ControlLines, CleanRound, clean, TabOn, ~writeback_done,
         NEW ready \in BOOLEAN, NEW enter \in BOOLEAN, NEW flag \in BOOLEAN,
         NEW taken \in BOOLEAN, NEW push \in BOOLEAN,
         TableauStep(ready, enter, flag, taken, push)
  PROVE  LET landing == IF taken THEN landed + 1 ELSE landed
         IN  landing + Len(unit') = Entered' /\ Line(unit', Results, landing)
<1> DEFINE landing == IF taken THEN landed + 1 ELSE landed
           rest == IF taken THEN Tail(unit) ELSE unit
           op == Tab!Operands(fifo_tab, pivot_row, flag)
<1>1. /\ Indices /\ TabFresh /\ TabFlow /\ BramFlow /\ ColumnFsm /\ RowInPlace
      /\ landed + Len(unit) = Entered
      /\ Line(unit, Results, landed)
  BY OperandsInLine DEF CleanRound, Landing, TabOn
<1>2. /\ enter => tab_resetn /\ fifo_tab # <<>> /\ bram_valid /\ pc_valid
      /\ Entered' = IF enter THEN Entered + 1 ELSE Entered
  BY <1>1, TabRun
<1>3. /\ unit \in Seq(Result) /\ Len(unit) \in Nat /\ landed \in Nat /\ Entered \in Nat
  BY SeqLen, EnteredType, Ranges DEF Types, StreamTypes
<1>4. taken => unit_tvalid /\ unit # <<>>
  BY DEF TableauStep, ControlLines
<1>5. ~tab_resetn => unit = <<>>
  BY <1>1 DEF tab_resetn, TabOn, TabFresh, Types, ControlTypes
<1>6. unit' = IF enter THEN Append(rest, op) ELSE rest
  <2>1. unit' = IF ~tab_resetn THEN <<>>
                ELSE IF enter THEN Append(IF unit_tvalid /\ taken THEN Tail(unit) ELSE unit, op)
                ELSE IF unit_tvalid /\ taken THEN Tail(unit) ELSE unit
    BY DEF TableauStep, Tab!UnitEdge
  <2>2. rest = IF unit_tvalid /\ taken THEN Tail(unit) ELSE unit
    BY <1>4
  <2>3. ~tab_resetn => rest = <<>> /\ ~enter
    BY <1>2, <1>4, <1>5
  <2> HIDE DEF rest, op
  <2> QED
    BY <2>1, <2>2, <2>3
<1>7. /\ rest \in Seq(Result) /\ Len(rest) \in Nat /\ landing \in Nat
      /\ landing + Len(rest) = Entered /\ Line(rest, Results, landing)
  <2>1. CASE taken
    <3>1. /\ Tail(unit) \in Seq(Result) /\ Len(Tail(unit)) = Len(unit) - 1 /\ Len(unit) > 0
          /\ Line(Tail(unit), Results, landed + 1)
      BY <2>1, <1>1, <1>3, <1>4, LineHead
    <3> QED
      BY <2>1, <3>1, <1>1, <1>3
  <2>2. CASE ~taken
    BY <2>2, <1>1, <1>3
  <2> QED
    BY <2>1, <2>2
<1>8. enter => op \in Result /\ op \in Results[Entered]
  <2> SUFFICES ASSUME enter PROVE op \in Result /\ op \in Results[Entered]
    OBVIOUS
  <2>1. op \in Result
    BY <1>2, OperandsType DEF Types, StreamTypes
  <2>2. RightOperands(op, Entered)
    BY <1>1, <1>2, EnteringRight
  <2> HIDE DEF op
  <2> QED
    BY <2>1, <2>2, <1>3, OtherOrders
<1> HIDE DEF landing, rest, op
<1>9. landing + Len(unit') = Entered' /\ Line(unit', Results, landing)
  <2>1. CASE enter
    <3>1. op \in Results[landing + Len(rest)]
      BY <2>1, <1>7, <1>8
    <3>2. Len(Append(rest, op)) = Len(rest) + 1 /\ Line(Append(rest, op), Results, landing)
      BY <3>1, <2>1, <1>7, <1>8, LineAppend
    <3>3. unit' = Append(rest, op) /\ Entered' = Entered + 1
      BY <2>1, <1>2, <1>6
    <3>4. Len(unit') = Len(rest) + 1 /\ Line(unit', Results, landing)
      BY <3>2, <3>3
    <3> QED
      BY <3>3, <3>4, <1>3, <1>7
  <2>2. CASE ~enter
    BY <2>2, <1>2, <1>6, <1>7
  <2> QED
    BY <2>1, <2>2
<1> QED
  BY <1>9 DEF landing

\* What an edge does to the memory behind it.
LEMMA LandingStep ==
  ASSUME Types, ControlLines, clean => CleanRound, Next, clean'
  PROVE  Landing' /\ OperandsAlways'
<1>1. Types' /\ ControlEdge /\ TableauEdge /\ ControlTypes
  BY TypesStep DEF Next, Types
<1>2. CASE ~TabOn'
  <2>1. Landing'
    BY <1>2 DEF Landing
  <2>2. ASSUME phase' = "update_tableau" PROVE unit' = <<>>
    <3>1. reset_left' = 2
      BY <1>1, <1>2, <2>2 DEF TabOn, Types, ControlTypes
    <3>2. phase = "update_row" /\ RowDivided
      <4>1. ~Wait
        <5> SUFFICES ASSUME Wait PROVE FALSE
          OBVIOUS
        <5>1. reset_left' = IF reset_left = 0 THEN 0 ELSE reset_left - 1
          BY DEF Wait
        <5>2. reset_left \in 0..2
          BY <1>1 DEF ControlTypes
        <5> QED
          BY <3>1, <5>1, <5>2
      <4> QED
        BY <4>1, <2>2, <1>1, ControlSteps
    <3>3. clean
      BY <3>2 DEF RowDivided, Enter
    <3>4. /\ fifo_tab = <<>> /\ ~tab_busy /\ unit = <<>> /\ landed = 0
          /\ ~Entering("update_tableau")
      BY <3>2, <3>3 DEF CleanRound, TabQuiet, Resting, Entering
    <3> QED
      BY <3>4, <1>1, TabRest
  <2>3. phase' = "update_tableau" => Line(unit', Results', landed')
    BY <2>2, LineEmpty
  <2>4. (phase = "update_tableau" => Line(unit, Results, landed))'
    BY <2>3
  <2>5. OperandsAlways'
    BY <2>4, <1>1, OperandsInLine, PTL
  <2> QED
    BY <2>1, <2>5
<1>3. CASE TabOn'
  <2>1. /\ Wait /\ phase = "update_tableau" /\ phase' = "update_tableau"
        /\ UNCHANGED <<pivot_row, version, clean>>
        /\ reset_left # 2 => TabOn /\ ~(cont /\ writeback_done)
    BY <1>1, <1>3, TabOnSteps
  <2>2. clean /\ CleanRound
    BY <2>1
  <2>3. Results' = Results
    BY <2>1 DEF Results, RightOperands, Before
  <2> SUFFICES Landing' /\ Line(unit', Results, landed')
    <3>1. (phase = "update_tableau" => Line(unit, Results, landed))'
      BY <2>3
    <3>2. OperandsAlways'
      BY <3>1, <1>1, OperandsInLine, PTL
    <3> QED
      BY <3>2
  <2>4. CASE reset_left = 2
    <3>1. /\ row_index' = 1 /\ col_index' = 1 /\ unit' = <<>> /\ ddr' = ddr
          /\ landed' = 0 /\ ~writeback_done'
      BY <2>1, <2>2, <2>4, <1>1, TabBegins
    <3>2. ddr' = [p \in Place |-> IF p < 0 THEN version + 1 ELSE version]
      BY <2>1, <2>2, <2>4, <3>1, Ranges DEF CleanRound, TabQuiet, Resting, Place
    <3>3. Entered' = 0 /\ Len(unit') = 0
      BY <3>1, Ranges DEF Entered
    <3>4. Line(unit', Results, landed')
      BY <3>1, LineEmpty
    <3> QED
      BY <2>1, <3>1, <3>2, <3>3, <3>4 DEF Landing
  <2>5. CASE reset_left # 2
    <3>1. PICK ready \in BOOLEAN, enter \in BOOLEAN, flag \in BOOLEAN, taken \in BOOLEAN,
               push \in BOOLEAN : TableauStep(ready, enter, flag, taken, push)
      BY <1>1, TableauCases
    <3>2. /\ TabOn /\ ~writeback_done /\ Indices /\ TabFlow /\ TabFresh
          /\ landed + Len(unit) = Entered
          /\ ddr = [p \in Place |-> IF p < landed THEN version + 1 ELSE version]
      BY <2>1, <2>2, <2>5 DEF CleanRound, Landing
    <3> DEFINE landing == IF taken THEN landed + 1 ELSE landed
    <3>3. landing + Len(unit') = Entered' /\ Line(unit', Results, landing)
      BY <2>2, <3>1, <3>2, UnitRun
    <3>4. ddr' = IF taken THEN [ddr EXCEPT ![landed] = version + 1] ELSE ddr
      BY <2>1, <3>1 DEF TableauStep, WriterEdge
    <3>5. /\ ddr \in [Place -> Int] /\ landed \in Nat /\ landed <= Total
          /\ unit \in Seq(Result) /\ Len(unit) \in Nat /\ (Len(unit) = 0 => unit = <<>>)
          /\ Entered \in Nat /\ version \in Int
      BY SeqLen, EnteredType, Ranges DEF Types, StreamTypes, ControlTypes
    <3>6. /\ taken => landed < Total /\ unit_tvalid
          /\ \/ landed = Total /\ writeback_done' = TRUE /\ landed' = 0
             \/ writeback_done' = FALSE /\ landed' = landing
      BY <3>1 DEF TableauStep, WriterEdge
    <3> HIDE DEF landing
    <3>7. ddr' = [p \in Place |-> IF p < landing THEN version + 1 ELSE version]
      <4>1. CASE taken
        <5>1. landing = landed + 1
          BY <4>1 DEF landing
        <5>2. ddr' = [ddr EXCEPT ![landed] = version + 1]
          BY <4>1, <3>4
        <5>3. ASSUME NEW p \in Place
              PROVE  ddr'[p] = IF p < landing THEN version + 1 ELSE version
          <6>1. ddr[p] = IF p < landed THEN version + 1 ELSE version
            BY <3>2
          <6>2. ddr'[p] = IF p = landed THEN version + 1 ELSE ddr[p]
            BY <5>2, <3>5
          <6>3. p \in Int
            BY DEF Place
          <6> QED
            BY <6>1, <6>2, <6>3, <5>1, <3>5
        <5>4. ddr' = [p \in Place |-> ddr'[p]]
          BY <5>2, <3>5
        <5> QED
          BY <5>3, <5>4
      <4>2. CASE ~taken
        BY <4>2, <3>2, <3>4 DEF landing
      <4> QED
        BY <4>1, <4>2
    <3>8. CASE writeback_done' = FALSE /\ landed' = landing
      <4>1. landed' + Len(unit') = Entered' /\ Line(unit', Results, landed')
        BY <3>3, <3>8
      <4>2. ddr' = [p \in Place |-> IF p < landed' THEN version' + 1 ELSE version']
        BY <2>1, <3>7, <3>8
      <4> QED
        BY <3>8, <4>1, <4>2 DEF Landing
    <3>9. CASE landed = Total /\ writeback_done' = TRUE /\ landed' = 0
      <4>1. Entered <= Total
        <5>1. tab_sent = Entered + Len(fifo_tab) /\ tab_sent <= Total /\ tab_sent \in Nat
              /\ Len(fifo_tab) \in Nat
          BY <3>2, SeqLen DEF TabFlow, Types, StreamTypes
        <5> QED
          BY <5>1, <3>5, Ranges
      <4>2. Entered = Total /\ unit = <<>>
        BY <4>1, <3>2, <3>5, <3>9, Ranges
      <4>3. cont /\ fifo_tab = <<>>
        BY <4>2, <3>2, EnteredAll, TabAllIn
      <4>4. ~enter /\ ~taken
        BY <4>3, <4>2, <3>1, <3>2, <3>6, TabRun DEF ControlLines
      <4>5. cont' /\ Entered' = Entered
        BY <4>3, <4>4, <3>1, <3>2, TabRun
      <4>6. unit' = <<>>
        <5>1. landing = landed
          BY <4>4 DEF landing
        <5>2. landed + Len(unit') = Entered
          BY <5>1, <4>5, <3>3
        <5>3. Len(unit') \in Nat /\ (Len(unit') = 0 => unit' = <<>>)
          BY <1>1, SeqLen DEF Types, StreamTypes
        <5> QED
          BY <5>2, <5>3, <4>2, <3>9, Ranges
      <4>7. ddr' = [p \in Place |-> version' + 1]
        <5>1. \A p \in Place : p < landing
          BY <4>4, <3>9, Ranges DEF landing, Place
        <5> QED
          BY <5>1, <3>7, <2>1
      <4>8. Line(unit', Results, landed')
        BY <4>6, LineEmpty
      <4> QED
        BY <4>5, <4>6, <4>7, <4>8, <3>9 DEF Landing
    <3> QED
      BY <3>6, <3>8, <3>9
  <2> QED
    BY <2>4, <2>5
<1> QED
  BY <1>2, <1>3

\* When the tableau is stored all has landed.
LEMMA TabStored ==
  ASSUME Types, ControlLines, CleanRound, TableauStored
  PROVE  /\ TabOn /\ cont /\ fifo_tab = <<>> /\ ~tab_busy /\ unit = <<>> /\ landed = 0
         /\ ddr = [p \in Place |-> version + 1]
<1>1. TabOn /\ cont /\ writeback_done
  BY DEF TableauStored, TabOn, Types, ControlTypes
<1>2. Indices /\ TabFlow /\ Landing
  BY DEF CleanRound
<1>3. unit = <<>> /\ landed = 0 /\ ddr = [p \in Place |-> version + 1]
  BY <1>1, <1>2 DEF Landing
<1>4. fifo_tab = <<>> /\ ~tab_busy
  BY <1>1, <1>2, EnteredAll, TabAllIn
<1> QED
  BY <1>1, <1>3, <1>4

LEMMA TabQuietStep ==
  ASSUME Types, ControlLines, clean => CleanRound, Next, clean'
  PROVE  TabQuiet'
<1> SUFFICES ASSUME Resting' \/ (phase' = "idle" /\ continuing')
             PROVE  /\ fifo_tab' = <<>> /\ ~tab_busy' /\ unit' = <<>> /\ landed' = 0
                    /\ ddr' = [p \in Place |-> version']
                    /\ ~writeback_done'
  BY DEF TabQuiet
<1>1. ControlEdge /\ TableauEdge /\ ControlTypes
  BY DEF Next, Types
<1>2. ~Entering("update_tableau")
  <2> SUFFICES ASSUME phase = "update_tableau", reset_left = 2 PROVE FALSE
    BY DEF Entering
  <2>1. Wait
    BY <1>1 DEF ControlEdge, BeginRound, RowChosen, RowDivided, TableauStored, Stop
  <2> QED
    BY <2>1 DEF Wait, Resting
<1>3. CASE Fresh
  <2>1. fifo_tab = <<>> /\ ~tab_busy /\ unit = <<>> /\ landed = 0
    BY <1>3 DEF Fresh, AtRest
  <2>2. phase = "idle" /\ phase' = "row" /\ ~continuing /\ version' = version + 1
    BY <1>3 DEF Fresh, BeginRound
  <2> QED
    BY <1>1, <1>2, <2>1, <2>2, TabRest
<1>4. CASE clean /\ TableauStored
  <2>1. fifo_tab = <<>> /\ ~tab_busy /\ unit = <<>> /\ landed = 0
        /\ ddr = [p \in Place |-> version + 1]
    BY <1>4, TabStored
  <2>2. phase = "update_tableau" /\ version' = version + 1
    BY <1>4 DEF TableauStored
  <2> QED
    BY <1>1, <1>2, <2>1, <2>2, TabRest
<1>5. CASE clean /\ ~Fresh /\ ~TableauStored
  <2>1. Resting \/ (phase = "idle" /\ continuing)
    <3>1. CASE phase = "idle"
      <4>1. continuing \/ BeginRound
        BY <3>1, <1>1, <1>5, CleanSteps DEF Resting, ControlEdge, BeginRound, RowChosen,
                                            RowDivided, TableauStored, Stop, Wait
      <4> QED
        BY <3>1, <4>1, <1>1, <1>5, CleanSteps
    <3>2. CASE phase \in {"row", "update_row"}
      BY <3>2 DEF Resting
    <3>3. CASE phase = "update_tableau"
      <4>1. reset_left = 2
        BY <3>3, <1>1, <1>5 DEF Resting, ControlTypes, ControlEdge, BeginRound, RowChosen,
                                RowDivided, Stop, Wait
      <4> QED
        BY <3>3, <4>1 DEF Resting
    <3> QED
      BY <3>1, <3>2, <3>3, <1>1 DEF ControlTypes, Phase
  <2>2. /\ fifo_tab = <<>> /\ ~tab_busy /\ unit = <<>> /\ landed = 0
        /\ ddr = [p \in Place |-> version]
    BY <2>1, <1>5 DEF CleanRound, TabQuiet
  <2>3. version' = version
    BY <1>1, <1>5, CleanSteps
  <2>4. ~(phase = "idle" /\ phase' = "row" /\ ~continuing)
    BY <1>1, <1>5, CleanSteps, ControlSteps
  <2> QED
    BY <1>1, <1>2, <2>2, <2>3, <2>4, TabRest
<1> QED
  BY <1>1, <1>3, <1>4, <1>5, CleanSteps

\* The two stages of the BRAM.
LEMMA BramFlowStep ==
  ASSUME Types, ControlLines, clean => CleanRound, Next, clean'
  PROVE  BramFlow'
<1> SUFFICES ASSUME TabOn'
             PROVE  /\ bram_valid' <=> bram_state' = 2
                    /\ bram_state' = 0 => bram_wait_counter' \in {1, 2}
                    /\ bram_state' = 2 => bram_wait_counter' = 2
                    /\ bram_state' = 0 /\ bram_wait_counter' = 1 =>
                         bram_stage' = bram'[col_index' - 1]
                    /\ bram_state' # 0 => /\ bram_stage' = bram'[col_index' - 1]
                                          /\ bram_data' = bram'[col_index' - 1]
  BY DEF BramFlow
<1>1. ControlEdge /\ TableauEdge /\ RowEdge
  BY DEF Next
<1>2. /\ Wait /\ phase = "update_tableau" /\ phase' = "update_tableau"
      /\ clean' = clean
      /\ reset_left # 2 => TabOn
  BY <1>1, TabOnSteps
<1>3. CleanRound
  BY <1>2
<1>4. CASE reset_left = 2
  BY <1>2, <1>3, <1>1, <1>4, TabBegins
<1>5. CASE reset_left # 2
  <2>1. PICK ready \in BOOLEAN, enter \in BOOLEAN, flag \in BOOLEAN, taken \in BOOLEAN,
             push \in BOOLEAN : TableauStep(ready, enter, flag, taken, push)
    BY <1>1, TableauCases
  <2>2. /\ enter => bram_valid
        /\ ~enter => col_index' = col_index
    BY <1>2, <1>3, <1>5, <2>1, TabRun DEF CleanRound
  <2>3. bram' = bram
    <3>1. row_cont /\ ~row_terminate /\ row_resetn
      BY <1>2 DEF ControlLines, row_resetn
    <3> QED
      BY <3>1, <1>1, RowCases, RowLatches
  <2>4. bram_stage' = bram[col_index - 1] /\ bram_data' = bram_stage
    BY <2>1 DEF TableauStep, Tab!MemoryEdge
  <2>5. Tab!BramEdge(tab_resetn, enter)
    BY <2>1 DEF TableauStep
  <2>6. /\ bram_valid <=> bram_state = 2
        /\ bram_state = 0 => bram_wait_counter \in {1, 2}
        /\ bram_state = 2 => bram_wait_counter = 2
        /\ bram_state = 0 /\ bram_wait_counter = 1 => bram_stage = bram[col_index - 1]
        /\ bram_state # 0 => bram_stage = bram[col_index - 1] /\ bram_data = bram[col_index - 1]
    BY <1>2, <1>3, <1>5 DEF CleanRound, BramFlow
  <2>7. CASE Tab!BramReset(tab_resetn)
    BY <2>7 DEF Tab!BramReset
  <2>8. CASE Tab!BramWait(tab_resetn)
    <3>1. ~enter /\ bram_state = 0 /\ ~bram_valid
      BY <2>2, <2>6, <2>8 DEF Tab!BramWait
    <3>2. bram_stage' = bram'[col_index' - 1]
      BY <2>2, <2>3, <2>4, <3>1
    <3>3. bram_valid' = bram_valid /\ bram_wait_counter' = bram_wait_counter - 1
          /\ bram_state' = IF bram_wait_counter = 1 THEN 1 ELSE 0
      BY <2>8 DEF Tab!BramWait
    <3>4. bram_wait_counter = 1 => bram_data' = bram'[col_index' - 1]
      BY <2>2, <2>3, <2>4, <2>6, <3>1
    <3> QED
      BY <2>6, <3>1, <3>2, <3>3, <3>4
  <2>9. CASE Tab!BramValid(tab_resetn)
    <3>1. ~enter /\ bram_state = 1 /\ bram_valid' /\ bram_state' = 2 /\ bram_wait_counter' = 2
      BY <2>2, <2>6, <2>9 DEF Tab!BramValid
    <3> QED
      BY <2>2, <2>3, <2>4, <2>6, <3>1
  <2>10. CASE Tab!BramUsed(tab_resetn, enter)
    <3>1. CASE enter
      <4>1. bram_state' = 0 /\ ~bram_valid' /\ bram_wait_counter' = 2
        BY <2>6, <2>10, <3>1 DEF Tab!BramUsed
      <4> QED
        BY <4>1
    <3>2. CASE ~enter
      <4>1. bram_state' = 2 /\ bram_valid' /\ bram_state = 2 /\ bram_wait_counter' = 2
        BY <2>6, <2>10, <3>2 DEF Tab!BramUsed
      <4> QED
        BY <4>1, <2>2, <2>3, <2>4, <2>6, <3>2
    <3> QED
      BY <3>1, <3>2
  <2> QED
    BY <2>5, <2>7, <2>8, <2>9, <2>10 DEF Tab!BramEdge
<1> QED
  BY <1>4, <1>5

-----------------------------------------------------------------------------
(* The pivot column on its way to update_tableau.                           *)

\* Before update_tableau is started, it does not listen.
LEMMA ColDeafStep ==
  ASSUME Types, ControlLines, Next
  PROVE  ColDeaf'
<1> SUFFICES ASSUME Resting' PROVE ~pc_tready'
  BY DEF ColDeaf
<1>1. ControlEdge /\ ControlTypes
  BY DEF Next, Types
<1>2. phase # "update_tableau"
  <2> SUFFICES ASSUME phase = "update_tableau" PROVE FALSE
    OBVIOUS
  <2>1. Wait /\ phase' = "update_tableau" /\ reset_left' = 2
    BY <1>1, ControlSteps DEF Resting
  <2>2. reset_left' = IF reset_left = 0 THEN 0 ELSE reset_left - 1
    BY <2>1 DEF Wait
  <2>3. reset_left \in 0..2
    BY <1>1 DEF ControlTypes
  <2> QED
    BY <2>1, <2>2, <2>3
<1>3. ~start /\ tab_resetn
  BY <1>2 DEF ControlLines, tab_resetn
<1>4. PICK enter \in BOOLEAN : Tab!ColumnEdge(tab_resetn, start, fifo_col, enter, NoWord)
  BY TableauCases DEF Next, TableauStep
<1> QED
  BY <1>3, <1>4 DEF Tab!ColumnEdge, Tab!ColumnReset, Tab!ColumnRest

\* What an edge does to the word of the pivot column and to the index of the row.
LEMMA ColumnRun ==
  ASSUME Types, ControlLines, CleanRound, TabOn, ~terminate,
         NEW ready \in BOOLEAN, NEW enter \in BOOLEAN, NEW flag \in BOOLEAN,
         NEW taken \in BOOLEAN, NEW push \in BOOLEAN,
         TableauStep(ready, enter, flag, taken, push)
  PROVE  /\ pc_valid' <=> pc_state' = 2
         /\ pc_tready' <=> pc_state' = 1
         /\ pc_state' = 4 => cont'
         /\ cont' => pc_state' \in {0, 4}
         /\ ~pc_valid' => col_index' = 1
         /\ pc_valid' => pc_data' = Before((row_index' - 1) * NumCols + PivotCol)
         /\ (IF pc_valid' THEN row_index' ELSE row_index' - 1) =
              IF pc_tready /\ fifo_col # <<>> THEN ColTaken + 1 ELSE ColTaken
<1>1. Indices /\ TabFresh /\ ColFlow /\ BlockTypes /\ ControlTypes
  BY DEF CleanRound, Types
<1>2. /\ enter => reset_left = 0 /\ tab_resetn /\ pc_valid /\ ~cont
      /\ row_index' = IF enter /\ col_index = NumCols THEN row_index + 1 ELSE row_index
      /\ col_index' = IF ~enter THEN col_index
                      ELSE IF col_index = NumCols THEN 1 ELSE col_index + 1
      /\ cont' <=> cont \/ (enter /\ row_index = NumRows /\ col_index = NumCols)
  BY <1>1, TabRun
<1>3. /\ pc_valid <=> pc_state = 2
      /\ pc_tready <=> pc_state = 1
      /\ pc_state = 4 => cont
      /\ cont => pc_state \in {0, 4}
      /\ ~pc_valid => col_index = 1
      /\ pc_valid => pc_data = Before((row_index - 1) * NumCols + PivotCol)
  BY DEF CleanRound, ColumnFsm
<1>4. ColTaken = (IF pc_valid THEN row_index ELSE row_index - 1) /\ row_index - 1 \in Nat
      /\ row_index \in Nat
  BY EnteredType, <1>1 DEF ColTaken, BlockTypes
<1>5. Tab!ColumnEdge(tab_resetn, start, fifo_col, enter, NoWord)
  BY DEF TableauStep
<1>6. ~start => cont
  BY DEF ControlLines, TabOn
<1>7. CASE ~tab_resetn
  <2>1. reset_left = 1
    BY <1>7, <1>1 DEF tab_resetn, TabOn, ControlTypes
  <2>2. start /\ ~cont /\ pc_state = 0 /\ row_index = 1 /\ col_index = 1 /\ ~enter
    BY <2>1, <1>1, <1>2 DEF TabFresh, ControlLines, TabOn
  <2>3. ~pc_valid' /\ ~pc_tready' /\ pc_state' = 0
    BY <2>2, <1>5, <1>7 DEF Tab!ColumnEdge, Tab!ColumnReset
  <2>4. ~cont' /\ row_index' = 1 /\ col_index' = 1 /\ ~pc_valid /\ ~pc_tready
    BY <2>2, <1>2, <1>3
  <2> QED
    BY <2>2, <2>3, <2>4, <1>4
<1>8. CASE tab_resetn /\ cont
  <2>1. ~pc_valid' /\ ~pc_tready' /\ pc_state' = 4
    BY <1>5, <1>8 DEF Tab!ColumnEdge, Tab!ColumnReset, Tab!ColumnRest
  <2>2. ~enter /\ cont' /\ row_index' = row_index /\ col_index' = 1
    BY <1>1, <1>2, <1>8, Ranges DEF Indices
  <2>3. ~pc_valid /\ ~pc_tready
    BY <1>3, <1>8
  <2> QED
    BY <2>1, <2>2, <2>3, <1>4
<1>9. CASE tab_resetn /\ ~cont
  <2>1. Tab!ColumnAsk \/ Tab!ColumnTake(fifo_col) \/ Tab!ColumnHold(enter)
    BY <1>3, <1>5, <1>6, <1>9 DEF Tab!ColumnEdge, Tab!ColumnReset
  <2>2. CASE Tab!ColumnAsk
    <3>1. pc_state = 0 /\ ~pc_valid /\ ~pc_tready /\ ~enter
      BY <2>2, <1>2, <1>3 DEF Tab!ColumnAsk
    <3>2. pc_tready' /\ pc_state' = 1 /\ ~pc_valid'
      BY <2>2, <3>1 DEF Tab!ColumnAsk
    <3>3. ~cont' /\ row_index' = row_index /\ col_index' = 1
      BY <3>1, <1>2, <1>3, <1>9
    <3> QED
      BY <3>1, <3>2, <3>3, <1>4
  <2>3. CASE Tab!ColumnTake(fifo_col)
    <3>1. pc_state = 1 /\ ~pc_valid /\ pc_tready /\ ~enter
      BY <2>3, <1>2, <1>3 DEF Tab!ColumnTake
    <3>2. ~cont' /\ row_index' = row_index /\ col_index' = 1
      BY <3>1, <1>2, <1>3, <1>9
    <3>3. CASE fifo_col # <<>>
      <4>1. ~pc_tready' /\ pc_data' = Head(fifo_col) /\ pc_valid' /\ pc_state' = 2
        BY <2>3, <3>3 DEF Tab!ColumnTake
      <4>2. fifo_col \in Seq(WordType) /\ Line(fifo_col, ColWords, row_index - 1)
        BY <3>1, <1>1, <1>4 DEF ColFlow, TabOn, Types, ColTypes
      <4>3. Head(fifo_col) \in ColWords[row_index - 1]
        BY <4>2, <3>3, <1>4, LineHead
      <4>4. Head(fifo_col) = Before((row_index - 1) * NumCols + PivotCol)
        BY <4>3, <1>4, OtherOrders
      <4> QED
        BY <3>1, <3>2, <3>3, <4>1, <4>4, <1>4
    <3>4. CASE fifo_col = <<>>
      <4>1. pc_tready' = pc_tready /\ pc_valid' = pc_valid /\ pc_state' = pc_state
        BY <2>3, <3>4 DEF Tab!ColumnTake, Tab!pc
      <4> QED
        BY <3>1, <3>2, <3>4, <4>1, <1>4
    <3> QED
      BY <3>3, <3>4
  <2>4. CASE Tab!ColumnHold(enter)
    <3>1. pc_state = 2 /\ pc_valid /\ ~pc_tready
      BY <2>4, <1>3 DEF Tab!ColumnHold
    <3>2. pc_tready' = pc_tready /\ pc_data' = pc_data
      BY <2>4 DEF Tab!ColumnHold
    <3>3. CASE col_index = NumCols /\ enter
      <4>1. ~pc_valid' /\ pc_state' = 0
        BY <2>4, <3>3 DEF Tab!ColumnHold, Tab!LastColumn
      <4>2. row_index' = row_index + 1 /\ col_index' = 1
        BY <3>3, <1>2
      <4> QED
        BY <3>1, <3>2, <4>1, <4>2, <1>4
    <3>4. CASE ~(col_index = NumCols /\ enter)
      <4>1. pc_valid' = pc_valid /\ pc_state' = pc_state
        BY <2>4, <3>4 DEF Tab!ColumnHold, Tab!LastColumn
      <4>2. row_index' = row_index /\ ~cont'
        BY <3>4, <1>2, <1>9
      <4>3. pc_data' = Before((row_index' - 1) * NumCols + PivotCol)
        BY <4>2, <3>1, <3>2, <1>3
      <4> QED
        BY <3>1, <3>2, <4>1, <4>2, <4>3, <1>4
    <3> QED
      BY <3>3, <3>4
  <2> QED
    BY <2>1, <2>2, <2>3, <2>4
<1> QED
  BY <1>7, <1>8, <1>9

LEMMA ColumnFsmStep ==
  ASSUME Types, ControlLines, clean => CleanRound, Next, clean'
  PROVE  ColumnFsm'
<1> SUFFICES ASSUME TabOn'
             PROVE  /\ pc_valid' <=> pc_state' = 2
                    /\ pc_tready' <=> pc_state' = 1
                    /\ pc_state' = 4 => cont'
                    /\ cont' => pc_state' \in {0, 4}
                    /\ ~pc_valid' => col_index' = 1
                    /\ pc_valid' => pc_data' = Before((row_index - 1) * NumCols + PivotCol)'
  BY DEF ColumnFsm
<1>1. ControlEdge /\ TableauEdge
  BY DEF Next
<1>2. /\ phase = "update_tableau" /\ clean' = clean /\ version' = version
      /\ reset_left # 2 => TabOn /\ ~terminate
  BY <1>1, TabOnSteps
<1>3. CleanRound
  BY <1>2
<1>4. CASE reset_left = 2
  BY <1>2, <1>3, <1>1, <1>4, TabBegins
<1>5. CASE reset_left # 2
  <2>1. PICK ready \in BOOLEAN, enter \in BOOLEAN, flag \in BOOLEAN, taken \in BOOLEAN,
             push \in BOOLEAN : TableauStep(ready, enter, flag, taken, push)
    BY <1>1, TableauCases
  <2>2. Before((row_index - 1) * NumCols + PivotCol)'
          = Before((row_index' - 1) * NumCols + PivotCol)
    BY <1>2 DEF Before
  <2> QED
    BY <1>2, <1>3, <1>5, <2>1, <2>2, ColumnRun
<1> QED
  BY <1>4, <1>5

\* A word of the column is read before its place is overwritten.
LEMMA ColWordRead ==
  ASSUME Types, ControlLines, DmaLines, CleanRound, phase # "idle", dma_state = "S3_COL"
  PROVE  Word(araddr) = Before(dma_counter * NumCols + PivotCol)
<1> DEFINE p == dma_counter * NumCols + PivotCol
<1>1. dma_counter \in 0..NumRows-1 /\ araddr = p
  BY Ranges DEF DmaLines, CleanRound, ColFlow, Types, ColTypes
<1>2. p \in Place
  BY <1>1, OfRow, Ranges
<1>3. ddr[p] = version
  <2>1. CASE Resting
    BY <2>1, <1>2 DEF CleanRound, TabQuiet
  <2>2. CASE TabOn
    <3>1. /\ Indices /\ TabFlow /\ Landing /\ ColumnFsm
          /\ dma_counter = ColTaken + Len(fifo_col)
      BY DEF CleanRound, ColFlow, ColSent
    <3>2. /\ ColTaken = (IF pc_valid THEN row_index ELSE row_index - 1)
          /\ row_index \in Nat \ {0} /\ col_index \in 1..NumCols /\ Len(fifo_col) \in Nat
          /\ landed \in Nat /\ Len(unit) \in Nat
      BY <2>2, SeqLen, Ranges DEF ColTaken, Types, BlockTypes, ColTypes, StreamTypes
    <3>3. ~cont
      <4> SUFFICES ASSUME cont PROVE FALSE
        OBVIOUS
      <4>1. row_index = NumRows + 1 /\ ~pc_valid
        BY <2>2, <3>1 DEF Indices, ColumnFsm
      <4> QED
        BY <4>1, <3>1, <3>2, <1>1, Ranges
    <3>4. /\ landed + Len(unit) = Entered
          /\ ddr = [q \in Place |-> IF q < landed THEN version + 1 ELSE version]
      BY <2>2, <3>1, <3>3 DEF Landing
    <3>5. Entered <= p
      <4>1. (row_index - 1) * NumCols \in Nat /\ dma_counter * NumCols \in Nat
            /\ ((row_index - 1) + 1) * NumCols = (row_index - 1) * NumCols + NumCols
            /\ (row_index - 1) + 1 = row_index
        <5>1. row_index - 1 \in Nat /\ dma_counter \in Nat
          BY <3>2, <1>1
        <5>2. (row_index - 1) + 1 = row_index
          BY <3>2
        <5> QED
          BY <5>1, <5>2, Multiples
      <4>2. ASSUME NEW a \in Nat, NEW b \in Nat, a <= b PROVE a * NumCols <= b * NumCols
        BY <4>2, Ranges
      <4>3. CASE pc_valid
        <5>1. row_index <= dma_counter
          BY <4>3, <3>1, <3>2, <1>1
        <5>2. row_index * NumCols <= dma_counter * NumCols
          BY <5>1, <4>2, <3>2, <1>1
        <5>3. row_index * NumCols = (row_index - 1) * NumCols + NumCols
          BY <4>1
        <5> QED
          BY <5>2, <5>3, <4>1, <3>2, Ranges DEF Entered
      <4>4. CASE ~pc_valid
        <5>1. row_index - 1 <= dma_counter /\ col_index = 1 /\ row_index - 1 \in Nat
          BY <4>4, <2>2, <3>1, <3>2, <1>1 DEF ColumnFsm
        <5>2. (row_index - 1) * NumCols <= dma_counter * NumCols
          BY <5>1, <4>2, <1>1
        <5> QED
          BY <5>1, <5>2, <4>1, Ranges DEF Entered
      <4> QED
        BY <4>3, <4>4
    <3>6. ~(p < landed)
      <4>1. Entered \in Nat /\ p \in Int
        BY EnteredType, <1>2 DEF Place
      <4> HIDE DEF p
      <4> QED
        BY <4>1, <3>2, <3>4, <3>5
    <3> HIDE DEF p
    <3> QED
      BY <3>4, <3>6, <1>2
  <2>3. Resting \/ TabOn
    BY DEF Resting, TabOn, Types, ControlTypes, Phase
  <2> QED
    BY <2>1, <2>2, <2>3
<1> HIDE DEF p
<1>4. Word(araddr) = Before(p)
  BY <1>1, <1>2, <1>3 DEF Word, Before
<1> QED
  BY <1>4 DEF p

\* A strided reader that waits pushes nothing.
LEMMA DmaRest ==
  ASSUME Types, DmaLines, dma_state = "S0", fifo_col = <<>>, ~Entering("row"), DmaEdge
  PROVE  dma_state' = "S0" /\ fifo_col' = <<>>
<1>1. PICK arready \in BOOLEAN, offer \in BOOLEAN, tready \in BOOLEAN :
        DmaStep(arready, offer, tready)
  BY DmaCases
<1>2. ~tready
  BY <1>1 DEF DmaStep, DmaLines
<1>3. fifo_col' = <<>>
  BY <1>1, <1>2 DEF DmaStep, Pop
<1>4. PICK full :
        \/ Dma!Hold(rst_busy)
        \/ Dma!Idle(Entering("row"))
        \/ Dma!Start(Entering("row"))
        \/ Dma!RequestElement(col_addr)
        \/ Dma!RequestTaken(arready)
        \/ Dma!TakeWord(rvalid, Word(araddr))
        \/ Dma!OfferWord(full)
        \/ Dma!WordTaken(tready)
        \/ Dma!NextElement
        \/ Dma!Finish(NoWord)
        \/ Dma!Stall(arready, rvalid, full, tready)
  BY <1>1 DEF DmaStep
<1>5. dma_state' = "S0"
  BY <1>4 DEF Dma!Hold, Dma!Idle, Dma!Start, Dma!RequestElement, Dma!RequestTaken, Dma!TakeWord,
              Dma!OfferWord, Dma!WordTaken, Dma!NextElement, Dma!Finish, Dma!Stall,
              Dma!fsm, Dma!axi, Dma!axis
<1> QED
  BY <1>3, <1>5

\* The column has been read and taken to its last word when the tableau is in.
LEMMA ColWhole ==
  ASSUME Types, DmaLines, CleanRound, TabOn, cont
  PROVE  dma_state = "S0" /\ fifo_col = <<>>
<1>1. row_index = NumRows + 1 /\ ~pc_valid
  BY DEF CleanRound, Indices, ColumnFsm
<1>2. ColTaken = NumRows
  BY <1>1, Ranges DEF ColTaken
<1>3. ColSent = NumRows + Len(fifo_col)
  BY <1>2 DEF CleanRound, ColFlow, TabOn
<1>4. Len(fifo_col) \in Nat /\ (Len(fifo_col) = 0 <=> fifo_col = <<>>) /\ dma_counter \in Nat
  BY SeqLen DEF Types, ColTypes
<1>5. CASE dma_state = "S0"
  <2>1. ColSent = NumRows
    BY <1>5 DEF ColSent, TabOn
  <2> QED
    BY <2>1, <1>3, <1>4, <1>5, Ranges
<1>6. CASE dma_state # "S0"
  <2>1. dma_counter = NumRows + Len(fifo_col)
    BY <1>3, <1>6 DEF ColSent
  <2>2. dma_counter < NumRows \/ (dma_counter <= NumRows /\ fifo_col # <<>>)
    BY <1>6, Ranges DEF DmaLines, Types, ColTypes, Dma!FsmState
  <2> QED
    BY <2>1, <2>2, <1>4, Ranges
<1> QED
  BY <1>5, <1>6

LEMMA ColIdleStep ==
  ASSUME Types, ControlLines, DmaLines, clean => CleanRound, Next, clean'
  PROVE  ColIdle'
<1> SUFFICES ASSUME phase' = "idle", continuing' PROVE dma_state' = "S0" /\ fifo_col' = <<>>
  BY DEF ColIdle
<1>1. ControlEdge /\ DmaEdge /\ ControlTypes
  BY DEF Next, Types
<1>2. TableauStored \/ (Wait /\ phase = "idle" /\ continuing)
  BY <1>1, CleanSteps
<1>3. clean /\ ~Entering("row")
  BY <1>2 DEF TableauStored, Wait, Entering
<1>4. dma_state = "S0" /\ fifo_col = <<>>
  <2>1. CASE TableauStored
    BY <2>1, <1>3, TabStored, ColWhole
  <2>2. CASE phase = "idle" /\ continuing
    BY <2>2, <1>3 DEF CleanRound, ColIdle
  <2> QED
    BY <2>1, <2>2, <1>2
<1> QED
  BY <1>1, <1>3, <1>4, DmaRest

\* How the reader of the column counts.
LEMMA ColSentStep ==
  ASSUME Types, ControlLines, DmaLines, ControlEdge, phase # "idle", phase' # "idle",
         phase = "row" /\ reset_left = 2 => dma_state = "S0",
         NEW arready \in BOOLEAN, NEW offer \in BOOLEAN, NEW tready \in BOOLEAN,
         DmaStep(arready, offer, tready)
  PROVE  /\ ColSent' = IF tready THEN ColSent + 1 ELSE ColSent
         /\ tready => dma_state = "S5_COL"
         /\ phase' = "row" => reset_left' # 2
<1>1. ControlTypes /\ ColTypes
  BY DEF Types
<1>2. phase' = "row" => reset_left' # 2
  <2> SUFFICES ASSUME phase' = "row" PROVE reset_left' # 2
    OBVIOUS
  <2>1. Wait
    BY <1>1, ControlSteps
  <2>2. reset_left' = IF reset_left = 0 THEN 0 ELSE reset_left - 1
    BY <2>1 DEF Wait
  <2> QED
    BY <2>2, <1>1 DEF ControlTypes
<1>3. tready => dma_state = "S5_COL"
  BY DEF DmaStep, DmaLines
<1>4. ColSent' = IF dma_state' # "S0" THEN dma_counter' ELSE NumRows
  BY <1>2 DEF ColSent
<1>5. PICK full :
        \/ Dma!Hold(rst_busy)
        \/ Dma!Idle(Entering("row"))
        \/ Dma!Start(Entering("row"))
        \/ Dma!RequestElement(col_addr)
        \/ Dma!RequestTaken(arready)
        \/ Dma!TakeWord(rvalid, Word(araddr))
        \/ Dma!OfferWord(full)
        \/ Dma!WordTaken(tready)
        \/ Dma!NextElement
        \/ Dma!Finish(NoWord)
        \/ Dma!Stall(arready, rvalid, full, tready)
  BY DEF DmaStep
<1>6. ~rst_busy
  BY DEF ControlLines
<1> USE DEF Dma!Hold, Dma!Idle, Dma!Start, Dma!RequestElement, Dma!RequestTaken, Dma!TakeWord,
            Dma!OfferWord, Dma!WordTaken, Dma!NextElement, Dma!Finish, Dma!Stall,
            Dma!fsm, Dma!axi, Dma!axis
<1>7. CASE dma_state = "S0"
  <2>1. CASE Entering("row")
    <3>1. dma_state' = "S1_COL" /\ dma_counter' = dma_counter
      BY <1>5, <1>6, <1>7, <2>1
    <3>2. dma_counter = 0 /\ ColSent = 0
      BY <1>7, <2>1 DEF ColSent, Entering, DmaLines
    <3> QED
      BY <3>1, <3>2, <1>2, <1>3, <1>4, <1>7
  <2>2. CASE ~Entering("row")
    <3>1. dma_state' = "S0"
      BY <1>5, <1>6, <1>7, <2>2
    <3>2. ColSent = NumRows
      BY <1>7, <2>2 DEF ColSent, Entering
    <3> QED
      BY <3>1, <3>2, <1>2, <1>3, <1>4, <1>7
  <2> QED
    BY <2>1, <2>2
<1>8. CASE dma_state = "S6_COL"
  <2>1. \/ dma_state' = "S0" /\ dma_counter = NumRows
        \/ dma_state' = "S1_COL" /\ dma_counter' = dma_counter
    BY <1>5, <1>6, <1>8
  <2>2. ColSent = dma_counter
    BY <1>8 DEF ColSent
  <2> QED
    BY <2>1, <2>2, <1>2, <1>3, <1>4, <1>8
<1>9. CASE dma_state = "S5_COL"
  <2>1. dma_state' # "S0" /\ dma_counter' = IF tready THEN dma_counter + 1 ELSE dma_counter
    BY <1>5, <1>6, <1>9
  <2>2. ColSent = dma_counter
    BY <1>9 DEF ColSent
  <2> QED
    BY <2>1, <2>2, <1>2, <1>3, <1>4, <1>9
<1>10. CASE dma_state \notin {"S0", "S5_COL", "S6_COL"}
  <2>1. dma_state' # "S0" /\ dma_counter' = dma_counter
    BY <1>5, <1>6, <1>10
  <2>2. ColSent = dma_counter
    BY <1>10 DEF ColSent
  <2> QED
    BY <2>1, <2>2, <1>2, <1>3, <1>4, <1>10
<1> QED
  BY <1>7, <1>8, <1>9, <1>10

\* The address and the word of the element in hand.
LEMMA ColWordStep ==
  ASSUME Types, ControlLines, DmaLines, CleanRound, phase # "idle",
         NEW arready \in BOOLEAN, NEW offer \in BOOLEAN, NEW tready \in BOOLEAN,
         DmaStep(arready, offer, tready)
  PROVE  /\ dma_state' \in {"S2_COL", "S3_COL"} => araddr' = dma_counter' * NumCols + PivotCol
         /\ dma_state' \in {"S4_COL", "S5_COL"} =>
              tdata' = Before(dma_counter' * NumCols + PivotCol)
<1>1. PICK full :
        \/ Dma!Hold(rst_busy)
        \/ Dma!Idle(Entering("row"))
        \/ Dma!Start(Entering("row"))
        \/ Dma!RequestElement(col_addr)
        \/ Dma!RequestTaken(arready)
        \/ Dma!TakeWord(rvalid, Word(araddr))
        \/ Dma!OfferWord(full)
        \/ Dma!WordTaken(tready)
        \/ Dma!NextElement
        \/ Dma!Finish(NoWord)
        \/ Dma!Stall(arready, rvalid, full, tready)
  BY DEF DmaStep
<1>2. ~rst_busy /\ dma_counter \in Nat
  BY DEF ControlLines, Types, ColTypes
<1>3. /\ dma_state \in {"S2_COL", "S3_COL"} => araddr = dma_counter * NumCols + PivotCol
      /\ dma_state \in {"S4_COL", "S5_COL"} => tdata = Before(dma_counter * NumCols + PivotCol)
  BY DEF CleanRound, ColFlow
<1> USE DEF Dma!Hold, Dma!Idle, Dma!Start, Dma!RequestElement, Dma!RequestTaken, Dma!TakeWord,
            Dma!OfferWord, Dma!WordTaken, Dma!NextElement, Dma!Finish, Dma!Stall,
            Dma!fsm, Dma!axi, Dma!axis
<1>4. CASE dma_state' = "S2_COL"
  <2>1. \/ UNCHANGED <<araddr, dma_counter, dma_state>>
        \/ araddr' = col_addr + Dma!Offset(dma_counter) /\ dma_counter' = dma_counter
    BY <1>1, <1>2, <1>4
  <2>2. col_addr + Dma!Offset(dma_counter) = dma_counter * NumCols + PivotCol
    <3>1. col_addr = PivotCol
      BY DEF ControlLines, col_addr
    <3>2. NumCols * dma_counter = dma_counter * NumCols /\ dma_counter * NumCols \in Int
      BY <1>2, Ranges
    <3> QED
      BY <3>1, <3>2, Ranges DEF Dma!Offset
  <2> QED
    BY <2>1, <2>2, <1>3, <1>4
<1>5. CASE dma_state' = "S3_COL"
  <2>1. UNCHANGED <<araddr, dma_counter>> /\ dma_state \in {"S2_COL", "S3_COL"}
    BY <1>1, <1>2, <1>5
  <2> QED
    BY <2>1, <1>3, <1>5
<1>6. CASE dma_state' = "S4_COL"
  <2>1. \/ UNCHANGED <<tdata, dma_counter, dma_state>>
        \/ dma_state = "S3_COL" /\ tdata' = Word(araddr) /\ dma_counter' = dma_counter
    BY <1>1, <1>2, <1>6
  <2> QED
    BY <2>1, <1>3, <1>6, ColWordRead
<1>7. CASE dma_state' = "S5_COL"
  <2>1. UNCHANGED <<tdata, dma_counter>> /\ dma_state \in {"S4_COL", "S5_COL"}
    BY <1>1, <1>2, <1>7
  <2> QED
    BY <2>1, <1>3, <1>7
<1> QED
  BY <1>4, <1>5, <1>6, <1>7

\* How update_tableau takes it.
LEMMA ColTakenStep ==
  ASSUME Types, ControlLines, CleanRound, Next, phase # "idle", phase' # "idle"
  PROVE  /\ ColTaken \in Nat
         /\ ColTaken' = IF pc_tready /\ fifo_col # <<>> THEN ColTaken + 1 ELSE ColTaken
<1>1. ControlEdge /\ TableauEdge /\ ControlTypes
  BY DEF Next, Types
<1>2. ColTaken \in Nat
  BY EnteredType DEF ColTaken, Types, BlockTypes
<1>3. CASE TabOn
  <2>1. Wait /\ phase = "update_tableau" /\ phase' = "update_tableau"
    <3>1. phase' \in Phase
      BY <1>1, ControlTypesStep DEF ControlTypes
    <3> QED
      BY <3>1, <1>1, <1>3, ControlSteps DEF TabOn, Phase
  <2>2. TabOn' /\ ~terminate
    BY <2>1, <1>1, <1>3 DEF Wait, TabOn, ControlTypes
  <2>3. PICK ready \in BOOLEAN, enter \in BOOLEAN, flag \in BOOLEAN, taken \in BOOLEAN,
             push \in BOOLEAN : TableauStep(ready, enter, flag, taken, push)
    BY <1>1, TableauCases
  <2>4. (IF pc_valid' THEN row_index' ELSE row_index' - 1) =
           IF pc_tready /\ fifo_col # <<>> THEN ColTaken + 1 ELSE ColTaken
    BY <1>3, <2>2, <2>3, ColumnRun
  <2> QED
    BY <1>2, <2>2, <2>4 DEF ColTaken
<1>4. CASE ~TabOn
  <2>1. ColTaken = 0
    BY <1>4 DEF ColTaken
  <2>2. ~pc_tready
    <3>1. Resting
      BY <1>1, <1>4 DEF Resting, TabOn, ControlTypes, Phase
    <3> QED
      BY <3>1 DEF CleanRound, ColDeaf
  <2>3. ColTaken' = 0
    <3>1. CASE TabOn'
      <4>1. phase = "update_tableau" /\ reset_left = 2
        BY <3>1, <1>1, <1>4, TabOnSteps
      <4>2. row_index' = 1 /\ ~pc_valid'
        BY <4>1, <1>1, TabBegins
      <4> QED
        BY <4>2 DEF ColTaken
    <3>2. CASE ~TabOn'
      BY <3>2 DEF ColTaken
    <3> QED
      BY <3>1, <3>2
  <2> QED
    BY <2>1, <2>2, <2>3
<1> QED
  BY <1>3, <1>4

LEMMA ColFlowStep ==
  ASSUME Types, ControlLines, DmaLines, clean => CleanRound, Next, clean'
  PROVE  ColFlow'
<1> SUFFICES ASSUME phase' # "idle"
             PROVE  /\ ColSent' = ColTaken' + Len(fifo_col')
                    /\ Line(fifo_col', ColWords', ColTaken')
                    /\ phase' = "row" /\ reset_left' = 2 => dma_state' = "S0"
                    /\ dma_state' \in {"S2_COL", "S3_COL"} =>
                         araddr' = dma_counter' * NumCols + PivotCol
                    /\ dma_state' \in {"S4_COL", "S5_COL"} =>
                         tdata' = Before(dma_counter * NumCols + PivotCol)'
  BY DEF ColFlow, Line
<1>1. ControlEdge /\ DmaEdge /\ ControlTypes
  BY DEF Next, Types
<1>2. CASE phase = "idle"
  <2>1. BeginRound /\ phase' = "row" /\ reset_left' = 2
    BY <1>1, <1>2, ControlSteps DEF ControlTypes, Phase, ControlEdge, BeginRound, RowChosen,
                                    RowDivided, TableauStored, Stop, Wait
  <2>2. dma_state = "S0" /\ fifo_col = <<>>
    <3>1. CASE Fresh
      BY <3>1 DEF Fresh, AtRest
    <3>2. CASE ~Fresh
      <4>1. clean /\ continuing
        BY <1>1, <2>1, <3>2, CleanSteps
      <4> QED
        BY <4>1, <1>2 DEF CleanRound, ColIdle
    <3> QED
      BY <3>1, <3>2
  <2>3. dma_state' = "S0" /\ fifo_col' = <<>>
    BY <1>1, <1>2, <2>2, DmaRest DEF Entering
  <2>4. ColSent' = 0 /\ ColTaken' = 0
    BY <2>1, <2>3 DEF ColSent, ColTaken, TabOn
  <2>5. Len(fifo_col') = 0 /\ Line(fifo_col', ColWords', ColTaken')
    BY <2>3, LineEmpty
  <2> QED
    BY <2>3, <2>4, <2>5
<1>3. CASE phase # "idle"
  <2>1. clean /\ version' = version
    BY <1>1, <1>3, CleanSteps DEF Fresh, BeginRound, TableauStored
  <2>2. CleanRound /\ ColFlow
    BY <2>1 DEF CleanRound
  <2>3. PICK arready \in BOOLEAN, offer \in BOOLEAN, tready \in BOOLEAN :
          DmaStep(arready, offer, tready)
    BY <1>1, DmaCases
  <2>4. /\ ColSent = ColTaken + Len(fifo_col)
        /\ Line(fifo_col, ColWords, ColTaken)
        /\ phase = "row" /\ reset_left = 2 => dma_state = "S0"
        /\ dma_state = "S5_COL" => tdata = Before(dma_counter * NumCols + PivotCol)
    BY <1>3, <2>2 DEF ColFlow
  <2>5. /\ ColSent' = IF tready THEN ColSent + 1 ELSE ColSent
        /\ tready => dma_state = "S5_COL"
        /\ phase' = "row" => reset_left' # 2
    BY <1>1, <1>3, <2>3, <2>4, ColSentStep
  <2>6. /\ ColTaken \in Nat
        /\ ColTaken' = IF pc_tready /\ fifo_col # <<>> THEN ColTaken + 1 ELSE ColTaken
    BY <1>3, <2>2, ColTakenStep
  <2>7. /\ fifo_col \in Seq(WordType) /\ Len(fifo_col) \in Nat /\ tdata \in WordType
        /\ dma_counter \in Nat
    BY SeqLen DEF Types, ColTypes
  <2> DEFINE rest == Pop(fifo_col, pc_tready)
  <2>8. /\ rest \in Seq(WordType) /\ Len(rest) \in Nat /\ ColTaken' \in Nat
        /\ ColTaken' + Len(rest) = ColSent /\ Line(rest, ColWords, ColTaken')
    <3>1. CASE pc_tready /\ fifo_col # <<>>
      <4>1. /\ Tail(fifo_col) \in Seq(WordType) /\ Len(Tail(fifo_col)) = Len(fifo_col) - 1
            /\ Len(fifo_col) > 0 /\ Line(Tail(fifo_col), ColWords, ColTaken + 1)
        BY <3>1, <2>4, <2>6, <2>7, LineHead
      <4>2. rest = Tail(fifo_col) /\ ColTaken' = ColTaken + 1
        BY <3>1, <2>6 DEF Pop
      <4> QED
        BY <4>1, <4>2, <2>4, <2>6, <2>7
    <3>2. CASE ~(pc_tready /\ fifo_col # <<>>)
      <4>1. rest = fifo_col /\ ColTaken' = ColTaken
        BY <3>2, <2>6 DEF Pop
      <4> QED
        BY <4>1, <2>4, <2>6, <2>7
    <3> QED
      BY <3>1, <3>2
  <2>9. fifo_col' = IF tready THEN Append(rest, tdata) ELSE rest
    BY <2>3 DEF DmaStep
  <2> HIDE DEF rest
  <2>10. ColSent' = ColTaken' + Len(fifo_col') /\ Line(fifo_col', ColWords, ColTaken')
    <3>1. CASE tready
      <4>1. ColSent = dma_counter /\ tdata \in ColWords[dma_counter]
        BY <3>1, <2>4, <2>5, <2>7, OtherOrders DEF ColSent
      <4>2. /\ Len(Append(rest, tdata)) = Len(rest) + 1
            /\ Line(Append(rest, tdata), ColWords, ColTaken')
        <5>1. tdata \in ColWords[ColTaken' + Len(rest)]
          BY <4>1, <2>8
        <5> QED
          BY <5>1, <2>7, <2>8, LineAppend
      <4>3. fifo_col' = Append(rest, tdata)
        BY <3>1, <2>9
      <4>4. Len(fifo_col') = Len(rest) + 1 /\ Line(fifo_col', ColWords, ColTaken')
        BY <4>2, <4>3
      <4> QED
        BY <3>1, <4>4, <2>5, <2>8
    <3>2. CASE ~tready
      BY <3>2, <2>5, <2>8, <2>9
    <3> QED
      BY <3>1, <3>2
  <2>11. ColWords' = ColWords
    BY <2>1 DEF ColWords, Before
  <2>12. /\ dma_state' \in {"S2_COL", "S3_COL"} => araddr' = dma_counter' * NumCols + PivotCol
         /\ dma_state' \in {"S4_COL", "S5_COL"} =>
              tdata' = Before(dma_counter' * NumCols + PivotCol)
    BY <1>3, <2>2, <2>3, ColWordStep
  <2>13. Before(dma_counter * NumCols + PivotCol)' = Before(dma_counter' * NumCols + PivotCol)
    BY <2>1 DEF Before
  <2> QED
    BY <2>5, <2>10, <2>11, <2>12, <2>13
<1> QED
  BY <1>2, <1>3

-----------------------------------------------------------------------------
(* The theorems.                                                            *)

LEMMA Initially == Init => IInv
<1> SUFFICES ASSUME Init PROVE IInv
  OBVIOUS
<1>1. NoWord \in WordType
  BY DEF NoWord, WordType
<1>2. ControlTypes
  <2>1. /\ phase \in Phase /\ reset_left \in 0..2 /\ pivot_row \in 2..NumRows
        /\ version \in Int /\ rounds \in Nat
    BY Ranges DEF Init, Phase
  <2>2. /\ start \in BOOLEAN /\ addressed \in BOOLEAN /\ rst_busy \in BOOLEAN
        /\ continuing \in BOOLEAN /\ clean \in BOOLEAN
    BY DEF Init
  <2> QED
    BY <2>1, <2>2 DEF ControlTypes
<1>3. RowTypes
  <2>1. /\ row_cont \in BOOLEAN /\ row_terminate \in BOOLEAN /\ row_busy \in BOOLEAN
    BY DEF Init
  <2>2. input_counter \in Nat /\ waddr \in Nat /\ row_sent \in Nat
    BY DEF Init
  <2>3. bram \in [0..NumCols-1 -> WordType]
    BY <1>1 DEF Init
  <2>4. div \in Seq(Operand) /\ fifo_row \in Seq(WordType)
    BY DEF Init
  <2> QED
    BY <2>1, <2>2, <2>3, <2>4 DEF RowTypes
<1>4. ColTypes
  <2>1. Dma!ResetTo(NoWord) /\ owed = FALSE /\ rvalid = FALSE /\ fifo_col = <<>>
    BY DEF Init
  <2>2. dma_state \in Dma!FsmState /\ dma_counter \in Nat /\ araddr \in Int /\ tdata \in WordType
    BY <1>1, <2>1 DEF Dma!ResetTo, Dma!FsmState
  <2>3. /\ dma_busy \in BOOLEAN /\ dma_done \in BOOLEAN /\ arvalid \in BOOLEAN
        /\ rready \in BOOLEAN /\ tvalid \in BOOLEAN /\ owed \in BOOLEAN /\ rvalid \in BOOLEAN
    BY <2>1 DEF Dma!ResetTo
  <2>4. fifo_col \in Seq(WordType)
    BY <2>1
  <2> QED
    BY <2>2, <2>3, <2>4 DEF ColTypes
<1>5. BlockTypes
  <2>1. /\ cont \in BOOLEAN /\ terminate \in BOOLEAN /\ bram_valid \in BOOLEAN
        /\ pc_tready \in BOOLEAN /\ pc_valid \in BOOLEAN
    BY DEF Init
  <2>2. /\ row_index \in Nat \ {0} /\ col_index \in 1..NumCols
        /\ bram_state \in 0..2 /\ bram_wait_counter \in Int /\ pc_state \in {0, 1, 2, 4}
    BY Ranges DEF Init
  <2>3. pc_data \in WordType /\ bram_stage \in WordType /\ bram_data \in WordType
    BY <1>1 DEF Init
  <2> QED
    BY <2>1, <2>2, <2>3 DEF BlockTypes
<1>6. StreamTypes
  <2>1. unit_tvalid \in BOOLEAN /\ tab_busy \in BOOLEAN /\ writeback_done \in BOOLEAN
    BY DEF Init
  <2>2. unit \in Seq(Result) /\ fifo_tab \in Seq(WordType)
    BY DEF Init
  <2>3. tab_sent \in Nat /\ ddr \in [Place -> Int] /\ landed \in 0..Total
    BY Ranges DEF Init
  <2> QED
    BY <2>1, <2>2, <2>3 DEF StreamTypes
<1>7. ControlLines
  BY DEF Init, ControlLines
<1>8. DmaLines
  BY DEF Init, DmaLines, Dma!ResetTo
<1>9. phase = "idle" /\ ~continuing
  BY DEF Init
<1>10. CleanRound
  BY <1>9 DEF CleanRound, RowQuiet, RowFlow, RowInPlace, ColFlow, ColIdle, ColDeaf, ColumnFsm,
              TabQuiet, Indices, TabFlow, Landing, TabFresh, BramFlow, OperandsAlways,
              RowOn, TabOn, Resting
<1> QED
  BY <1>2, <1>3, <1>4, <1>5, <1>6, <1>7, <1>8, <1>10 DEF IInv, Types

LEMMA Preserved == IInv /\ [Next]_vars => IInv'
<1> SUFFICES ASSUME IInv, [Next]_vars PROVE IInv'
  OBVIOUS
<1>1. CASE Next
  <2>1. Types /\ ControlLines /\ DmaLines /\ (clean => CleanRound)
    BY DEF IInv
  <2>2. Types' /\ ControlLines' /\ DmaLines'
    BY <1>1, <2>1, TypesStep, ControlLinesStep, DmaLinesStep
  <2>3. ASSUME clean' PROVE CleanRound'
    <3>1. RowQuiet' /\ RowFlow' /\ RowInPlace'
      BY <1>1, <2>1, <2>3, RowQuietStep, RowFlowStep, RowInPlaceStep
    <3>2. ColFlow' /\ ColIdle' /\ ColDeaf' /\ ColumnFsm'
      BY <1>1, <2>1, <2>3, ColFlowStep, ColIdleStep, ColDeafStep, ColumnFsmStep
    <3>3. TabQuiet' /\ Indices' /\ TabFlow' /\ TabFresh'
      BY <1>1, <2>1, <2>3, TabQuietStep, IndicesStep, TabFlowStep
    <3>4. Landing' /\ BramFlow' /\ OperandsAlways'
      BY <1>1, <2>1, <2>3, LandingStep, BramFlowStep
    <3> QED
      BY <3>1, <3>2, <3>3, <3>4 DEF CleanRound
  <2> QED
    BY <2>2, <2>3 DEF IInv
<1>2. CASE UNCHANGED vars
  <2>1. /\ UNCHANGED <<phase, reset_left, start, pivot_row, addressed, rst_busy>>
        /\ UNCHANGED <<row_cont, row_terminate, input_counter, waddr, div, bram>>
        /\ UNCHANGED <<fifo_row, row_busy, row_sent>>
        /\ UNCHANGED <<dma_state, dma_counter, dma_busy, dma_done, araddr, arvalid, rready,
                       tdata, tvalid, owed, rvalid, fifo_col>>
        /\ UNCHANGED <<cont, terminate, row_index, col_index, bram_state, bram_wait_counter,
                       bram_valid, pc_state, pc_tready, pc_valid, pc_data, bram_stage,
                       bram_data, unit, unit_tvalid>>
        /\ UNCHANGED <<fifo_tab, tab_busy, tab_sent, ddr, landed, writeback_done>>
        /\ UNCHANGED <<version, continuing, clean, rounds>>
    BY <1>2 DEF vars, control, row_vars, row_reader, dma, dma_env, tab_vars, tab_reader, writer,
                history
  <2>2. ControlTypes' /\ RowTypes' /\ ColTypes' /\ BlockTypes' /\ StreamTypes'
    <3>1. ControlTypes' = ControlTypes
      BY <2>1 DEF ControlTypes
    <3>2. RowTypes' = RowTypes
      BY <2>1 DEF RowTypes
    <3>3. ColTypes' = ColTypes
      BY <2>1 DEF ColTypes, Dma!FsmState
    <3>4. BlockTypes' = BlockTypes
      BY <2>1 DEF BlockTypes
    <3>5. StreamTypes' = StreamTypes
      BY <2>1 DEF StreamTypes
    <3> QED
      BY <3>1, <3>2, <3>3, <3>4, <3>5 DEF IInv, Types
  <2>3. ControlLines' = ControlLines
    BY <2>1 DEF ControlLines
  <2>4. DmaLines' = DmaLines
    BY <2>1 DEF DmaLines
  <2>5. RowQuiet' = RowQuiet
    BY <2>1 DEF RowQuiet, RowOn
  <2>6. RowFlow' = RowFlow
    <3>1. RowWords' = RowWords /\ RowOperands' = RowOperands /\ RowBase' = RowBase
      BY <2>1 DEF RowWords, RowOperands, RowBase, Before
    <3>2. RowReading' = RowReading
      BY <2>1, <3>1 DEF RowReading, Line
    <3>3. RowDividing' = RowDividing
      BY <2>1, <3>1 DEF RowDividing, Line, Before
    <3> QED
      BY <2>1, <3>2, <3>3 DEF RowFlow, RowOn
  <2>7. RowInPlace' = RowInPlace
    BY <2>1 DEF RowInPlace, Before
  <2>8. ColFlow' = ColFlow
    <3>1. ColWords' = ColWords /\ ColSent' = ColSent /\ ColTaken' = ColTaken
      BY <2>1 DEF ColWords, ColSent, ColTaken, TabOn, Before
    <3> QED
      BY <2>1, <3>1 DEF ColFlow, Line, Before
  <2>9. ColIdle' = ColIdle /\ ColDeaf' = ColDeaf
    BY <2>1 DEF ColIdle, ColDeaf, Resting
  <2>10. ColumnFsm' = ColumnFsm
    BY <2>1 DEF ColumnFsm, TabOn, Before
  <2>11. TabQuiet' = TabQuiet
    BY <2>1 DEF TabQuiet, Resting
  <2>12. Indices' = Indices /\ TabFresh' = TabFresh
    BY <2>1 DEF Indices, TabFresh, TabOn
  <2>13. TabFlow' = TabFlow
    BY <2>1 DEF TabFlow, TabOn, TabWords, Before, Entered, Line
  <2>14. Landing' = Landing
    BY <2>1 DEF Landing, TabOn, Entered
  <2>15. BramFlow' = BramFlow
    BY <2>1 DEF BramFlow, TabOn
  <2>16. OperandsAlways' = OperandsAlways
    BY <2>1 DEF OperandsAlways, RightOperands, Before
  <2>17. (clean => CleanRound)' = (clean => CleanRound)
    <3>1. CleanRound' = CleanRound
      BY <2>5, <2>6, <2>7, <2>8, <2>9, <2>10, <2>11, <2>12, <2>13, <2>14, <2>15, <2>16 DEF CleanRound
    <3> QED
      BY <2>1, <3>1
  <2> QED
    BY <2>2, <2>3, <2>4, <2>17 DEF IInv, Types
<1> QED
  BY <1>1, <1>2

\* The inductive invariant.
THEOREM Inductive == Spec => []IInv
BY Initially, Preserved, PTL DEF Spec

\* Every register, FIFO and stored word stays in its type, whatever stalls and
\* however a problem ends.
THEOREM TypeCorrect == Spec => []Types
BY Inductive, PTL DEF IInv

\* While the tableau is updated the BRAM holds the whole divided pivot row of this
\* round, word k at place k.
THEOREM DividedRowInPlace == Spec => []RowInPlace
<1>1. IInv => RowInPlace
  BY DEF IInv, CleanRound, RowInPlace
<1> QED
  BY <1>1, Inductive, PTL

\* Every result under way is made of the operands of its own place, as they were
\* before the round, though the tableau is overwritten under its readers.
THEOREM OperandsRight == Spec => []OperandsBelong
<1>1. IInv => OperandsBelong
  BY DEF IInv, CleanRound, OperandsBelong
<1> QED
  BY <1>1, Inductive, PTL

\* A stored tableau leaves every FIFO, reader and pipeline empty.
THEOREM RoundLeavesClean == Spec => []LeavesClean
<1>1. ASSUME IInv, phase = "idle", continuing, clean PROVE AtRest
  <2>1. RowQuiet /\ ColIdle /\ TabQuiet
    BY <1>1 DEF IInv, CleanRound
  <2>2. fifo_row = <<>> /\ ~row_busy
    BY <1>1, <2>1 DEF RowQuiet, RowOn
  <2>3. fifo_col = <<>> /\ dma_state = "S0"
    BY <1>1, <2>1 DEF ColIdle
  <2>4. fifo_tab = <<>> /\ ~tab_busy /\ unit = <<>> /\ landed = 0
    BY <1>1, <2>1 DEF TabQuiet
  <2> QED
    BY <2>2, <2>3, <2>4 DEF AtRest
<1>2. IInv => LeavesClean
  BY <1>1 DEF LeavesClean
<1> QED
  BY <1>2, Inductive, PTL

=============================================================================
