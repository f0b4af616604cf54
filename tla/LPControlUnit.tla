--------------------------- MODULE LPControlUnit ---------------------------
(***************************************************************************)
(* The registers of lp_control_unit.v and what one rising clock edge does  *)
(* to them.  The status lines of the four blocks, the start pulse of the   *)
(* bridge and the writeback pulse are inputs, driven by the module that    *)
(* composes the control unit with its environment (LPPhases).              *)
(***************************************************************************)
EXTENDS Integers

CONSTANTS
  NumCols,    \* columns of the tableau, the right hand side included
  NumRows,    \* rows of the tableau, the objective row included
  DdrStart,   \* byte address of the tableau
  AddrSpace   \* addresses are computed modulo this (2^32 in the code)

ASSUME TableauAssumption == NumCols \in Nat \ {0} /\ NumRows \in Nat \ {0, 1}

ASSUME AddressAssumption == AddrSpace \in Nat \ {0} /\ DdrStart \in 0..AddrSpace-1

VARIABLES
  state,                \* current_state
  previous_terminate,   \* the OR of the terminates at the previous edge
  mblaze_done,          \* the output port, the interrupt of the processor
  mblz_done,            \* what reset_signals assigns: a name that is not declared
  start,                \* active-low start line of each block
  fifo_start,           \* start pulse of the readers that feed each block
  update_tableau_busy,
  skip_first_row_addr,
  pivot_col_addr,
  pivot_col_addr_skip_OR,
  pivot_row_addr,
  update_tableau_pivot_row_index,
  \* inputs
  cont, terminate,      \* status latches of each block
  pivot_col_idx, pivot_row_idx,
  bridge_start,
  ddr_writeback_done

addresses == <<skip_first_row_addr, pivot_col_addr, pivot_col_addr_skip_OR,
               pivot_row_addr, update_tableau_pivot_row_index>>
dones == <<mblaze_done, mblz_done>>
outputs == <<dones, start, fifo_start, update_tableau_busy, addresses>>
inputs == <<cont, terminate, pivot_col_idx, pivot_row_idx, bridge_start,
            ddr_writeback_done>>

Block == {"find_pivot_col", "choose_pivot_row", "update_pivot_row", "update_tableau"}

Transient == [find_pivot_col   |-> "PIVOT_COL_TRANSIENT",
              choose_pivot_row |-> "PIVOT_ROW_TRANSIENT",
              update_pivot_row |-> "UPDATE_PIVOT_ROW_TRANSIENT",
              update_tableau   |-> "UPDATE_TABLEAU_TRANSIENT"]

Waiting == [find_pivot_col   |-> "PIVOT_COL_CONTINUE",
            choose_pivot_row |-> "PIVOT_ROW_CONTINUE",
            update_pivot_row |-> "UPDATE_PIVOT_ROW_CONTINUE",
            update_tableau   |-> "UPDATE_TABLEAU_WRITEBACK"]

State == {"START"} \union {Transient[b] : b \in Block} \union {Waiting[b] : b \in Block}

Addr(x) == x % AddrSpace
WordsAfter(base, n) == Addr(base + 4 * n)

AnyTerminate == \E b \in Block : terminate[b]
TerminateEdge == AnyTerminate /\ ~previous_terminate

\* The state after aresetn, with every start line deasserted.
ControlInit ==
  /\ state = "START"
  /\ previous_terminate = FALSE
  /\ mblaze_done = FALSE
  /\ mblz_done = FALSE
  /\ start = [b \in Block |-> TRUE]
  /\ fifo_start = [b \in Block |-> FALSE]
  /\ update_tableau_busy = FALSE
  /\ skip_first_row_addr = 0
  /\ pivot_col_addr = 0
  /\ pivot_col_addr_skip_OR = 0
  /\ pivot_row_addr = 0
  /\ update_tableau_pivot_row_index = 0

\* Mutation: the state machine is not among the signals reset.
reset_signals_KeepState(done) ==
  /\ mblz_done' = done
  /\ start' = [b \in Block |-> TRUE]
  /\ fifo_start' = [b \in Block |-> FALSE]
  /\ update_tableau_busy' = FALSE
  /\ UNCHANGED <<state, mblaze_done, addresses>>

\* The task names mblz_done where the port is mblaze_done, so the port keeps what
\* it showed.
reset_signals(done) ==
  /\ mblz_done' = done
  /\ state' = "START"
  /\ start' = [b \in Block |-> TRUE]
  /\ fifo_start' = [b \in Block |-> FALSE]
  /\ update_tableau_busy' = FALSE
  /\ skip_first_row_addr' = 0
  /\ pivot_col_addr' = 0
  /\ pivot_col_addr_skip_OR' = 0
  /\ pivot_row_addr' = 0
  /\ update_tableau_pivot_row_index' = 0
  /\ UNCHANGED mblaze_done

\* A block has terminated: report it and drop whatever was going on.
TerminateLP ==
  /\ TerminateEdge
  /\ reset_signals(TRUE)

-----------------------------------------------------------------------------

Idle ==
  /\ ~TerminateEdge
  /\ state = "START"
  /\ ~bridge_start
  /\ mblaze_done' = FALSE
  /\ UNCHANGED <<state, mblz_done, start, fifo_start, update_tableau_busy, addresses>>

BridgeStart ==
  /\ ~TerminateEdge
  /\ state = "START"
  /\ bridge_start
  /\ mblaze_done' = FALSE
  /\ state' = "PIVOT_COL_TRANSIENT"
  /\ start' = [start EXCEPT !["find_pivot_col"] = FALSE]
  /\ fifo_start' = [fifo_start EXCEPT !["find_pivot_col"] = TRUE]
  /\ skip_first_row_addr' = WordsAfter(DdrStart, NumCols)
  /\ UNCHANGED <<mblz_done, update_tableau_busy, pivot_col_addr,
                 pivot_col_addr_skip_OR, pivot_row_addr, update_tableau_pivot_row_index>>

PivotColTransient ==
  /\ ~TerminateEdge
  /\ state = "PIVOT_COL_TRANSIENT"
  /\ state' = "PIVOT_COL_CONTINUE"
  /\ start' = [start EXCEPT !["find_pivot_col"] = TRUE]
  /\ fifo_start' = [fifo_start EXCEPT !["find_pivot_col"] = FALSE]
  /\ UNCHANGED <<dones, update_tableau_busy, addresses>>

PivotColContinue ==
  /\ ~TerminateEdge
  /\ state = "PIVOT_COL_CONTINUE"
  /\ cont["find_pivot_col"]
  /\ state' = "PIVOT_ROW_TRANSIENT"
  /\ pivot_col_addr_skip_OR' = WordsAfter(skip_first_row_addr, pivot_col_idx)
  /\ pivot_col_addr' = WordsAfter(DdrStart, pivot_col_idx)
  /\ start' = [start EXCEPT !["choose_pivot_row"] = FALSE]
  /\ fifo_start' = [fifo_start EXCEPT !["choose_pivot_row"] = TRUE]
  /\ UNCHANGED <<dones, update_tableau_busy, skip_first_row_addr,
                 pivot_row_addr, update_tableau_pivot_row_index>>

\* The second cycle of a start pulse: only the reader's pulse is dropped.
TransientOf(b) ==
  /\ ~TerminateEdge
  /\ state = Transient[b]
  /\ state' = Waiting[b]
  /\ fifo_start' = [fifo_start EXCEPT ![b] = FALSE]
  /\ UNCHANGED <<dones, start, update_tableau_busy, addresses>>

PivotRowTransient == TransientOf("choose_pivot_row")
UpdatePivotRowTransient == TransientOf("update_pivot_row")
UpdateTableauTransient == TransientOf("update_tableau")

\* Mutation: the row index counts from 1 without the objective row.
PivotRowContinue_IndexOffByOne ==
  /\ ~TerminateEdge
  /\ state = "PIVOT_ROW_CONTINUE"
  /\ cont["choose_pivot_row"]
  /\ state' = "UPDATE_PIVOT_ROW_TRANSIENT"
  /\ pivot_row_addr' = WordsAfter(skip_first_row_addr, pivot_row_idx * NumCols)
  /\ update_tableau_pivot_row_index' = pivot_row_idx + 1
  /\ start' = [start EXCEPT !["choose_pivot_row"] = TRUE, !["update_pivot_row"] = FALSE]
  /\ fifo_start' = [fifo_start EXCEPT !["update_pivot_row"] = TRUE]
  /\ UNCHANGED <<dones, update_tableau_busy, skip_first_row_addr,
                 pivot_col_addr, pivot_col_addr_skip_OR>>

\* Mutation: the readers of the next block are not started.
PivotRowContinue_NoReader ==
  /\ ~TerminateEdge
  /\ state = "PIVOT_ROW_CONTINUE"
  /\ cont["choose_pivot_row"]
  /\ state' = "UPDATE_PIVOT_ROW_TRANSIENT"
  /\ pivot_row_addr' = WordsAfter(skip_first_row_addr, pivot_row_idx * NumCols)
  /\ update_tableau_pivot_row_index' = pivot_row_idx + 2
  /\ start' = [start EXCEPT !["choose_pivot_row"] = TRUE, !["update_pivot_row"] = FALSE]
  /\ UNCHANGED <<dones, fifo_start, update_tableau_busy, skip_first_row_addr,
                 pivot_col_addr, pivot_col_addr_skip_OR>>

PivotRowContinue ==
  /\ ~TerminateEdge
  /\ state = "PIVOT_ROW_CONTINUE"
  /\ cont["choose_pivot_row"]
  /\ state' = "UPDATE_PIVOT_ROW_TRANSIENT"
  /\ pivot_row_addr' = WordsAfter(skip_first_row_addr, pivot_row_idx * NumCols)
  /\ update_tableau_pivot_row_index' = pivot_row_idx + 2
  /\ start' = [start EXCEPT !["choose_pivot_row"] = TRUE, !["update_pivot_row"] = FALSE]
  /\ fifo_start' = [fifo_start EXCEPT !["update_pivot_row"] = TRUE]
  /\ UNCHANGED <<dones, update_tableau_busy, skip_first_row_addr,
                 pivot_col_addr, pivot_col_addr_skip_OR>>

\* Mutation: the row being normalised is not waited for.
UpdatePivotRowContinue_NoWait ==
  /\ ~TerminateEdge
  /\ state = "UPDATE_PIVOT_ROW_CONTINUE"
  /\ state' = "UPDATE_TABLEAU_TRANSIENT"
  /\ start' = [start EXCEPT !["update_pivot_row"] = TRUE, !["update_tableau"] = FALSE]
  /\ update_tableau_busy' = TRUE
  /\ fifo_start' = [fifo_start EXCEPT !["update_tableau"] = TRUE]
  /\ UNCHANGED <<dones, addresses>>

UpdatePivotRowContinue ==
  /\ ~TerminateEdge
  /\ state = "UPDATE_PIVOT_ROW_CONTINUE"
  /\ cont["update_pivot_row"]
  /\ state' = "UPDATE_TABLEAU_TRANSIENT"
  /\ start' = [start EXCEPT !["update_pivot_row"] = TRUE, !["update_tableau"] = FALSE]
  /\ update_tableau_busy' = TRUE
  /\ fifo_start' = [fifo_start EXCEPT !["update_tableau"] = TRUE]
  /\ UNCHANGED <<dones, addresses>>

\* Mutation: the next round starts without the TRANSIENT state.
UpdateTableauWriteback_NoTransient ==
  /\ ~TerminateEdge
  /\ state = "UPDATE_TABLEAU_WRITEBACK"
  /\ cont["update_tableau"]
  /\ ddr_writeback_done
  /\ state' = "PIVOT_COL_CONTINUE"
  /\ start' = [start EXCEPT !["update_tableau"] = TRUE, !["find_pivot_col"] = FALSE]
  /\ update_tableau_busy' = FALSE
  /\ fifo_start' = [fifo_start EXCEPT !["find_pivot_col"] = TRUE]
  /\ UNCHANGED <<dones, addresses>>

\* Mutation: the writer to DDR is not waited for.
UpdateTableauWriteback_NoDone ==
  /\ ~TerminateEdge
  /\ state = "UPDATE_TABLEAU_WRITEBACK"
  /\ cont["update_tableau"]
  /\ state' = "PIVOT_COL_TRANSIENT"
  /\ start' = [start EXCEPT !["update_tableau"] = TRUE, !["find_pivot_col"] = FALSE]
  /\ update_tableau_busy' = FALSE
  /\ fifo_start' = [fifo_start EXCEPT !["find_pivot_col"] = TRUE]
  /\ UNCHANGED <<dones, addresses>>

UpdateTableauWriteback ==
  /\ ~TerminateEdge
  /\ state = "UPDATE_TABLEAU_WRITEBACK"
  /\ cont["update_tableau"]
  /\ ddr_writeback_done
  /\ state' = "PIVOT_COL_TRANSIENT"
  /\ start' = [start EXCEPT !["update_tableau"] = TRUE, !["find_pivot_col"] = FALSE]
  /\ update_tableau_busy' = FALSE
  /\ fifo_start' = [fifo_start EXCEPT !["find_pivot_col"] = TRUE]
  /\ UNCHANGED <<dones, addresses>>

\* Not yet done: the start line of the block is deasserted all the same (that
\* of find_pivot_col already is), and update_tableau is told to rest as soon
\* as it has taken its last element.
Wait(b) ==
  /\ ~TerminateEdge
  /\ state = Waiting[b]
  /\ ~cont[b] \/ (b = "update_tableau" /\ ~ddr_writeback_done)
  /\ start' = [start EXCEPT ![b] = TRUE]
  /\ update_tableau_busy' = (update_tableau_busy /\ ~(b = "update_tableau" /\ cont[b]))
  /\ UNCHANGED <<state, dones, fifo_start, addresses>>

ControlEdge ==
  /\ previous_terminate' = AnyTerminate
  /\ \/ TerminateLP
     \/ Idle
     \/ BridgeStart
     \/ PivotColTransient
     \/ PivotColContinue
     \/ PivotRowTransient
     \/ PivotRowContinue
     \/ UpdatePivotRowTransient
     \/ UpdatePivotRowContinue
     \/ UpdateTableauTransient
     \/ UpdateTableauWriteback
     \/ \E b \in Block : Wait(b)

ControlTypeOK ==
  /\ state \in State
  /\ previous_terminate \in BOOLEAN
  /\ mblaze_done \in BOOLEAN
  /\ mblz_done \in BOOLEAN
  /\ start \in [Block -> BOOLEAN]
  /\ fifo_start \in [Block -> BOOLEAN]
  /\ update_tableau_busy \in BOOLEAN
  /\ skip_first_row_addr \in 0..AddrSpace-1
  /\ pivot_col_addr \in 0..AddrSpace-1
  /\ pivot_col_addr_skip_OR \in 0..AddrSpace-1
  /\ pivot_row_addr \in 0..AddrSpace-1
  /\ update_tableau_pivot_row_index \in 0..NumRows
=============================================================================
