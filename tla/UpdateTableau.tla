--------------------------- MODULE UpdateTableau ---------------------------
(***************************************************************************)
(* update_tableau.v: for each element C of the tableau, row by row, takes  *)
(* the element A of the divided pivot row from the BRAM and the element B  *)
(* of the pivot column, and has A*B - C computed; in the pivot row itself, *)
(* A alone.                                                                *)
(*                                                                         *)
(* The operators say what one clock edge does to the registers, to the     *)
(* output stages of the BRAM and to the arithmetic unit.  A result is the  *)
(* record of its operands.                                                 *)
(***************************************************************************)
EXTENDS Integers, Sequences

CONSTANTS
  num_rows, num_cols,
  BRAM_READ_LATENCY,
  Capacity             \* elements in the arithmetic unit

VARIABLES
  cont, terminate,
  row_index, col_index,                                   \* both from 1
  bram_state, bram_wait_counter, pivot_row_BRAM_valid,
  pc_state, pc_s_axis_tready, pc_valid, pc_data,
  bram_stage, pivot_row_BRAM_data,                        \* BRAM outputs, two edges
  unit, unit_tvalid                                       \* arithmetic unit, and its offer

latches == <<cont, terminate>>
indices == <<row_index, col_index>>
bram == <<bram_state, bram_wait_counter, pivot_row_BRAM_valid>>
pc == <<pc_state, pc_s_axis_tready, pc_valid, pc_data>>

\* One element enters the unit: all its operands are there at once.
S_AXIS_TABLEAU_TREADY(resetn, start, tableau, ready) ==
  /\ resetn /\ start
  /\ ready /\ tableau # <<>> /\ pivot_row_BRAM_valid /\ pc_valid
  /\ ~terminate /\ ~cont

LastColumn == col_index = num_cols

\* Mutation: "continue" waits for a row after the last.
ContEdge_RowAfter(resetn, enter) ==
  cont' = (resetn /\ (cont \/ (enter /\ row_index > num_rows /\ LastColumn)))

ContEdge(resetn, enter) ==
  cont' = (resetn /\ (cont \/ (enter /\ row_index = num_rows /\ LastColumn)))

\* The exception bits are latched whether a result is on offer or not: those of the
\* result, or whatever the unit drives without one.
TerminateEdge(resetn) ==
  \E flags \in IF unit_tvalid THEN {Head(unit).flag} ELSE BOOLEAN :
    terminate' = (resetn /\ (terminate \/ flags))

\* Each element is followed by the wait for the next word of the pivot row.
BramReset(resetn) ==
  /\ ~resetn
  /\ bram_wait_counter' = BRAM_READ_LATENCY
  /\ pivot_row_BRAM_valid' = FALSE
  /\ bram_state' = 0

BramWait(resetn) ==
  /\ resetn /\ bram_state = 0
  /\ bram_wait_counter' = bram_wait_counter - 1
  /\ bram_state' = IF bram_wait_counter = 1 THEN 1 ELSE 0
  /\ UNCHANGED pivot_row_BRAM_valid

BramValid(resetn) ==
  /\ resetn /\ bram_state = 1
  /\ pivot_row_BRAM_valid' = TRUE
  /\ bram_wait_counter' = BRAM_READ_LATENCY
  /\ bram_state' = 2

\* Mutation: the word is believed valid for the next element too.
BramUsed_StayValid(resetn, enter) ==
  /\ resetn /\ bram_state = 2
  /\ bram_state' = IF enter THEN 0 ELSE 2
  /\ UNCHANGED <<bram_wait_counter, pivot_row_BRAM_valid>>

BramUsed(resetn, enter) ==
  /\ resetn /\ bram_state = 2
  /\ pivot_row_BRAM_valid' = ~enter
  /\ bram_state' = IF enter THEN 0 ELSE 2
  /\ UNCHANGED bram_wait_counter

BramEdge(resetn, enter) ==
  BramReset(resetn) \/ BramWait(resetn) \/ BramValid(resetn) \/ BramUsed(resetn, enter)

\* The pivot column: one word for each row.  States: 0 ask, 1 take, 2 hold,
\* 4 at rest.  The reset needs the start input as well.
ColumnReset(resetn, start, zero) ==
  /\ ~resetn /\ start
  /\ pc_valid' = FALSE /\ pc_s_axis_tready' = FALSE /\ pc_data' = zero
  /\ pc_state' = 0

ColumnAsk ==
  /\ pc_state = 0
  /\ IF ~pc_valid
     THEN pc_s_axis_tready' = TRUE /\ pc_state' = 1
     ELSE UNCHANGED <<pc_s_axis_tready, pc_state>>
  /\ UNCHANGED <<pc_valid, pc_data>>

ColumnTake(column) ==
  /\ pc_state = 1
  /\ IF column # <<>>
     THEN /\ pc_s_axis_tready' = FALSE
          /\ pc_data' = Head(column)
          /\ pc_valid' = TRUE
          /\ pc_state' = 2
     ELSE UNCHANGED pc

ColumnHold(enter) ==
  /\ pc_state = 2
  /\ IF LastColumn /\ enter
     THEN /\ pc_valid' = FALSE
          /\ pc_state' = 0
     ELSE UNCHANGED <<pc_valid, pc_state>>
  /\ UNCHANGED <<pc_s_axis_tready, pc_data>>

ColumnRest(zero) ==
  /\ pc_valid' = FALSE /\ pc_s_axis_tready' = FALSE /\ pc_data' = zero
  /\ pc_state' = 4

ColumnEdge(resetn, start, column, enter, zero) ==
  \/ ColumnReset(resetn, start, zero)
  \/ /\ resetn \/ ~start
     /\ IF cont \/ terminate \/ ~start \/ pc_state = 4
        THEN ColumnRest(zero)
        ELSE ColumnAsk \/ ColumnTake(column) \/ ColumnHold(enter)

IndexEdge(resetn, enter) ==
  IF ~resetn THEN row_index' = 1 /\ col_index' = 1
  ELSE IF ~enter THEN UNCHANGED indices
  ELSE /\ row_index' = IF LastColumn THEN row_index + 1 ELSE row_index
       /\ col_index' = IF LastColumn THEN 1 ELSE col_index + 1

\* The BRAM answers an address two edges later.
MemoryEdge(words) ==
  /\ bram_stage' = words[col_index - 1]
  /\ pivot_row_BRAM_data' = bram_stage

\* What the unit is given: in the pivot row A and, for C, A again.
Operands(tableau, pivot_row_index, flag) ==
  IF row_index = pivot_row_index
  THEN [a |-> pivot_row_BRAM_data, c |-> pivot_row_BRAM_data, flag |-> flag, skip |-> TRUE]
  ELSE [a |-> pivot_row_BRAM_data, b |-> pc_data, c |-> Head(tableau), flag |-> flag,
        skip |-> FALSE]

\* A result on offer stands until it is taken.
UnitEdge(resetn, enter, operands, ready, taken) ==
  /\ ready => Len(unit) < Capacity
  /\ LET rest == IF unit_tvalid /\ taken THEN Tail(unit) ELSE unit
     IN  unit' = IF ~resetn THEN <<>> ELSE IF enter THEN Append(rest, operands) ELSE rest
  /\ unit_tvalid' \in IF ~resetn \/ unit' = <<>> THEN {FALSE}
                      ELSE IF unit_tvalid /\ ~taken THEN {TRUE} ELSE BOOLEAN
=============================================================================
