---------------------------- MODULE PivotUpdate ----------------------------
(***************************************************************************)
(* The second half of a round: update_pivot_row divides the pivot row into *)
(* a BRAM, update_tableau subtracts it from the tableau, with the readers  *)
(* that feed them, the tableau in DDR, which is overwritten while it is    *)
(* still being read, and the start lines of the control unit.  The reader  *)
(* of the pivot column is the whole of fifo_dma; it is started early,      *)
(* together with choose_pivot_row, as the design wires it.                 *)
(*                                                                         *)
(* A word of DDR is its place in the tableau and the version of the        *)
(* tableau it belongs to.  One step is one clock edge.                     *)
(***************************************************************************)
EXTENDS Integers, Sequences

CONSTANTS
  NumRows, NumCols,   \* of the tableau, objective row and right hand side included
  PivotCol,           \* the pivot column, from 0
  Depth,              \* words a FIFO holds
  Capacity,           \* words the divider and the arithmetic unit hold
  MaxRounds,          \* bound: rounds begun in a behaviour
  Restarts            \* bound: whether a problem may follow one that ended

ASSUME UpdateAssumption ==
  /\ NumRows \in Nat \ {0, 1} /\ NumCols \in Nat \ {0}
  /\ PivotCol \in 0..NumCols-1
  /\ Depth \in Nat \ {0} /\ Capacity \in Nat \ {0} /\ MaxRounds \in Nat
  /\ Restarts \in BOOLEAN

VARIABLES
  \* the control unit, as far as it drives this half of the round
  phase, reset_left, start, pivot_row, addressed,
  rst_busy,
  \* update_pivot_row, its FIFO and the reader before it
  row_cont, row_terminate, input_counter, waddr, div, bram,
  fifo_row, row_busy, row_sent,
  \* fifo_dma, the memory it reads, its FIFO
  dma_state, dma_counter, dma_busy, dma_done, araddr, arvalid, rready, tdata, tvalid,
  owed, rvalid, fifo_col,
  \* update_tableau, its FIFO and the reader before it
  cont, terminate, row_index, col_index,
  bram_state, bram_wait_counter, bram_valid,
  pc_state, pc_tready, pc_valid, pc_data, bram_stage, bram_data, unit, unit_tvalid,
  fifo_tab, tab_busy, tab_sent,
  \* DDR and the writer
  ddr, landed, writeback_done,
  \* history: version of the tableau now in DDR, whether the next round goes on
  \* with it, whether this problem found everything at rest, rounds begun
  version, continuing, clean, rounds

control == <<phase, reset_left, start, pivot_row, addressed, rst_busy>>
row_vars == <<row_cont, row_terminate, input_counter, waddr, div, bram>>
row_reader == <<fifo_row, row_busy, row_sent>>
dma == <<dma_state, dma_counter, dma_busy, dma_done, araddr, arvalid, rready, tdata, tvalid>>
dma_env == <<owed, rvalid, fifo_col>>
tab_vars == <<cont, terminate, row_index, col_index, bram_state, bram_wait_counter,
              bram_valid, pc_state, pc_tready, pc_valid, pc_data, bram_stage, bram_data,
              unit, unit_tvalid>>
tab_reader == <<fifo_tab, tab_busy, tab_sent>>
writer == <<ddr, landed, writeback_done>>
history == <<version, continuing, clean, rounds>>
vars == <<control, row_vars, row_reader, dma, dma_env, tab_vars, tab_reader, writer, history>>

Row == INSTANCE UpdatePivotRow WITH
         cont <- row_cont, terminate <- row_terminate, num_cols <- NumCols

Dma == INSTANCE FifoDma WITH
         stride <- NumCols, num_elements <- NumRows,
         state <- dma_state, element_counter <- dma_counter, busy <- dma_busy,
         done <- dma_done

Tab == INSTANCE UpdateTableau WITH
         num_rows <- NumRows, num_cols <- NumCols, BRAM_READ_LATENCY <- 2,
         pivot_row_BRAM_valid <- bram_valid, pc_s_axis_tready <- pc_tready,
         pivot_row_BRAM_data <- bram_data

Total == NumRows * NumCols
Place == 0..Total-1

\* What a place outside the tableau holds.
NoWord == [place |-> -1, version |-> -1]
Word(p) == IF p \in Place THEN [place |-> p, version |-> ddr[p]] ELSE NoWord

\* A terminate sets the addresses to 0; the tableau does not begin there.
AddressZero == 0 - Total
col_addr == IF addressed THEN PivotCol ELSE AddressZero
row_addr == IF addressed THEN (pivot_row - 1) * NumCols ELSE AddressZero

Phase == {"idle", "row", "update_row", "update_tableau"}

Init ==
  /\ phase = "idle" /\ reset_left = 0 /\ start = FALSE /\ pivot_row = 2
  /\ addressed = FALSE /\ rst_busy = TRUE
  /\ row_cont = FALSE /\ row_terminate = FALSE /\ input_counter = 0 /\ waddr = 0
  /\ div = <<>> /\ bram = [c \in 0..NumCols-1 |-> NoWord]
  /\ fifo_row = <<>> /\ row_busy = FALSE /\ row_sent = 0
  /\ Dma!ResetTo(NoWord)
  /\ owed = FALSE /\ rvalid = FALSE /\ fifo_col = <<>>
  /\ cont = FALSE /\ terminate = FALSE /\ row_index = 1 /\ col_index = 1
  /\ bram_state = 0 /\ bram_wait_counter = 2 /\ bram_valid = FALSE
  /\ pc_state = 4 /\ pc_tready = FALSE /\ pc_valid = FALSE /\ pc_data = NoWord
  /\ bram_stage = NoWord /\ bram_data = NoWord /\ unit = <<>> /\ unit_tvalid = FALSE
  /\ fifo_tab = <<>> /\ tab_busy = FALSE /\ tab_sent = 0
  /\ ddr = [p \in Place |-> 0] /\ landed = 0 /\ writeback_done = FALSE
  /\ version = 0 /\ continuing = FALSE /\ clean = TRUE /\ rounds = 0

-----------------------------------------------------------------------------

\* A partner of a handshake has a choice only where its answer is looked at.
Maybe(condition) == IF condition THEN BOOLEAN ELSE {FALSE}

\* The start line of a block is low for the first two edges of its phase, and
\* its readers are started at the first.
Entering(p) == phase = p /\ reset_left = 2
row_resetn == ~(phase = "update_row" /\ reset_left > 0)
tab_resetn == ~(phase = "update_tableau" /\ reset_left > 0)

Pop(fifo, taken) == IF taken /\ fifo # <<>> THEN Tail(fifo) ELSE fifo

\* A burst reader moves its words in order: busy from the start pulse to the
\* last word, deaf to a pulse that comes before.
Reader(pulse, busy, sent, n, fifo, rest, word, push) ==
  [busy |-> IF busy THEN ~(push /\ sent = n - 1) ELSE pulse,
   sent |-> IF ~busy /\ pulse THEN 0 ELSE IF push THEN sent + 1 ELSE sent,
   fifo |-> IF push THEN Append(rest, word) ELSE rest]

RowReaderEdge(taken, push) ==
  LET after == Reader(Entering("update_row"), row_busy, row_sent, NumCols, fifo_row,
                      Pop(fifo_row, taken), Word(row_addr + row_sent), push)
  IN  row_busy' = after.busy /\ row_sent' = after.sent /\ fifo_row' = after.fifo

TabReaderEdge(taken, push) ==
  LET after == Reader(Entering("update_tableau"), tab_busy, tab_sent, Total, fifo_tab,
                      Pop(fifo_tab, taken), Word(tab_sent), push)
  IN  tab_busy' = after.busy /\ tab_sent' = after.sent /\ fifo_tab' = after.fifo

RowEdge ==
  \E ready \in Maybe(fifo_row # <<>> /\ Len(div) < Capacity), out \in Maybe(div # <<>>) :
  \E flag \in Maybe(ready) :
  \E push \in Maybe(row_busy /\ Len(fifo_row) < Depth) :
    /\ Row!BlockEdge(row_resetn, fifo_row, ready, out, flag)
    /\ RowReaderEdge(Row!tready(row_resetn, ready), push)

\* The memory owes one word for each request; the word is the one DDR holds when it
\* is handed over.
DmaMemoryEdge(arready, offer) ==
  /\ owed' = ((owed /\ ~(rvalid /\ rready)) \/ arready)
  /\ rvalid' = ((rvalid /\ ~rready) \/ offer)

DmaEdge ==
  \E arready \in Maybe(arvalid), offer \in Maybe(owed /\ ~rvalid),
     tready \in Maybe(tvalid /\ Len(fifo_col) < Depth) :
    LET full == Len(fifo_col) >= Depth
        rest == Pop(fifo_col, pc_tready)
    IN  /\ \/ Dma!Hold(rst_busy)
           \/ /\ ~rst_busy
              /\ \/ Dma!Idle(Entering("row"))
                 \/ Dma!Start(Entering("row"))
                 \/ Dma!RequestElement(col_addr)
                 \/ Dma!RequestTaken(arready)
                 \/ Dma!TakeWord(rvalid, Word(araddr))
                 \/ Dma!OfferWord(full)
                 \/ Dma!WordTaken(tready)
                 \/ Dma!NextElement
                 \/ Dma!Finish(NoWord)
                 \/ Dma!Stall(arready, rvalid, full, tready)
        /\ DmaMemoryEdge(arready, offer)
        /\ fifo_col' = IF tready THEN Append(rest, tdata) ELSE rest

\* A result that is taken reaches its place in DDR through the redirector, a
\* FIFO and the writer, at the earliest at once; the writer is done some time
\* after the last of them.
WriterEdge(taken) ==
  /\ ddr' = IF phase = "idle" /\ phase' = "row" /\ ~continuing
            THEN [p \in Place |-> version + 1]
            ELSE IF taken THEN [ddr EXCEPT ![landed] = version + 1] ELSE ddr
  /\ \/ landed = Total /\ writeback_done' = TRUE /\ landed' = 0
     \/ writeback_done' = FALSE /\ landed' = IF taken THEN landed + 1 ELSE landed

TableauEdge ==
  \E ready \in Maybe(fifo_tab # <<>> /\ bram_valid /\ pc_valid /\ Len(unit) < Capacity) :
  LET enter == Tab!S_AXIS_TABLEAU_TREADY(tab_resetn, start, fifo_tab, ready)
  IN  \E flag \in Maybe(enter),
         taken \in Maybe(unit_tvalid /\ landed < Total),
         push \in Maybe(tab_busy /\ Len(fifo_tab) < Depth) :
        /\ Tab!ContEdge(tab_resetn, enter)
        /\ Tab!TerminateEdge(tab_resetn)
        /\ Tab!BramEdge(tab_resetn, enter)
        /\ Tab!ColumnEdge(tab_resetn, start, fifo_col, enter, NoWord)
        /\ Tab!IndexEdge(tab_resetn, enter)
        /\ Tab!MemoryEdge(bram)
        /\ Tab!UnitEdge(tab_resetn, enter, Tab!Operands(fifo_tab, pivot_row, flag), ready, taken)
        /\ TabReaderEdge(enter, push)
        /\ WriterEdge(taken)

-----------------------------------------------------------------------------
(* The control unit.                                                        *)

AtRest ==
  /\ fifo_row = <<>> /\ ~row_busy
  /\ fifo_col = <<>> /\ dma_state = "S0"
  /\ fifo_tab = <<>> /\ ~tab_busy
  /\ unit = <<>> /\ landed = 0

\* The next pivot of this problem, or the first of a new one, whose tableau the
\* host has put in DDR.
BeginRound ==
  /\ phase = "idle" /\ ~rst_busy /\ rounds < MaxRounds
  /\ continuing \/ rounds = 0 \/ Restarts
  /\ phase' = "row" /\ reset_left' = 2
  /\ addressed' = TRUE
  /\ rounds' = rounds + 1
  /\ clean' = IF continuing THEN clean ELSE AtRest
  /\ version' = IF continuing THEN version ELSE version + 1
  /\ continuing' = TRUE
  /\ UNCHANGED <<start, pivot_row, rst_busy>>

Enter(p) ==
  /\ phase' = p /\ reset_left' = 2
  /\ UNCHANGED <<addressed, rst_busy, version, continuing, clean, rounds>>

RowChosen ==
  /\ phase = "row" /\ reset_left # 2
  /\ pivot_row' \in 2..NumRows
  /\ Enter("update_row")
  /\ UNCHANGED start

RowDivided ==
  /\ phase = "update_row" /\ reset_left # 2
  /\ row_cont /\ ~row_terminate
  /\ start' = TRUE
  /\ Enter("update_tableau")
  /\ UNCHANGED pivot_row

TableauStored ==
  /\ phase = "update_tableau" /\ reset_left # 2
  /\ cont /\ writeback_done /\ ~terminate
  /\ phase' = "idle"
  /\ start' = FALSE
  /\ version' = version + 1
  /\ UNCHANGED <<reset_left, pivot_row, addressed, rst_busy, continuing, clean, rounds>>

\* The problem ends: unbounded, or an exception.
Stop ==
  /\ reset_left # 2
  /\ \/ phase = "row"
     \/ phase = "update_row" /\ row_terminate
     \/ phase = "update_tableau" /\ terminate
  /\ phase' = "idle" /\ reset_left' = 0
  /\ start' = FALSE
  /\ addressed' = FALSE
  /\ continuing' = FALSE
  /\ UNCHANGED <<pivot_row, rst_busy, version, clean, rounds>>

\* Waiting; update_tableau is told to rest once its last element is in.
Wait ==
  /\ \/ reset_left = 2
     \/ phase \in {"idle", "row"}
     \/ phase = "update_row" /\ ~row_cont /\ ~row_terminate
     \/ phase = "update_tableau" /\ ~(cont /\ writeback_done) /\ ~terminate
  /\ reset_left' = IF reset_left = 0 THEN 0 ELSE reset_left - 1
  /\ start' = (start /\ ~(phase = "update_tableau" /\ reset_left # 2 /\ cont))
  /\ rst_busy' \in Maybe(rst_busy)
  /\ UNCHANGED <<phase, pivot_row, addressed, version, continuing, clean, rounds>>

ControlEdge == BeginRound \/ RowChosen \/ RowDivided \/ TableauStored \/ Stop \/ Wait

Next == ControlEdge /\ RowEdge /\ DmaEdge /\ TableauEdge

Spec == Init /\ [][Next]_vars

-----------------------------------------------------------------------------

\* The word of the tableau before this round at place p.
Before(p) == [place |-> p, version |-> version]

\* The result that goes to place p is made of the operands of that place, all of
\* them as they were before the round, though the tableau is overwritten under
\* the readers.
RightOperands(result, p) ==
  LET r == p \div NumCols
      c == p % NumCols
  IN  /\ result.a = Before((pivot_row - 1) * NumCols + c)
      /\ result.skip <=> r + 1 = pivot_row
      /\ ~result.skip => result.b = Before(r * NumCols + PivotCol) /\ result.c = Before(p)

\* The same in a problem that found everything at rest.
OperandsAlways ==
  phase = "update_tableau" =>
    \A i \in 1..Len(unit) : RightOperands(unit[i], landed + i - 1)
OperandsBelong == clean => OperandsAlways

\* While the tableau is updated, the BRAM holds the whole divided pivot row of
\* this round, word k at place k.
RowInPlace ==
  phase = "update_tableau" /\ clean =>
    \A c \in 0..NumCols-1 : bram[c] = Before((pivot_row - 1) * NumCols + c)

\* In such a problem a round that ends with a stored tableau leaves nothing in any
\* FIFO, reader or pipeline, so that the next one finds everything at rest too.
LeavesClean == phase = "idle" /\ continuing /\ clean => AtRest

(* Fairness: the clock runs, choose_pivot_row answers, and no partner of a   *)
(* handshake leaves it open for ever: the memory, the readers, the divider,  *)
(* the arithmetic unit, and the writer behind it.                            *)
DividerPending == div # <<>> /\ ~row_cont /\ ~row_terminate
DividerIdle == div = <<>> /\ Row!Taken(row_resetn, fifo_row, TRUE)
\* The unit has no result on offer and drives an exception bit all the same: it may,
\* but a clock that runs does not make it.
FlagsOfNothing == ~unit_tvalid /\ ~terminate /\ terminate'
UnitIdle == unit = <<>> /\ Tab!S_AXIS_TABLEAU_TREADY(tab_resetn, start, fifo_tab, TRUE)

Fairness ==
  /\ WF_vars(Next /\ ~FlagsOfNothing)
  /\ []<>(~rst_busy)
  /\ []<>(phase # "row")
  /\ []<>(~(row_busy /\ fifo_row = <<>>)) /\ []<>(~(tab_busy /\ fifo_tab = <<>>))
  /\ []<>(~DividerIdle) /\ []<>(~DividerPending)
  /\ []<>(~arvalid) /\ []<>(~owed \/ rvalid)
  /\ []<>(~tvalid \/ Len(fifo_col) = Depth)
  /\ []<>(~UnitIdle) /\ []<>(unit = <<>> \/ unit_tvalid)
  /\ []<>(~unit_tvalid \/ landed = Total) /\ []<>(landed # Total)

FairSpec == Spec /\ Fairness

\* In such a problem every round ends.
RoundEnds == (phase = "row" /\ clean) ~> phase = "idle"
=============================================================================
