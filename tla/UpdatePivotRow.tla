--------------------------- MODULE UpdatePivotRow ---------------------------
(***************************************************************************)
(* update_pivot_row.v: divides the pivot row by the pivot, a word at a     *)
(* time, through a pipelined divider, and writes the quotients to a BRAM.  *)
(*                                                                         *)
(* The operators say what one clock edge does to the registers, the        *)
(* divider and the BRAM.  A quotient is known by the word it was made of;  *)
(* flagged ones are those with an exception bit.                           *)
(***************************************************************************)
EXTENDS Integers, Sequences

CONSTANTS
  num_cols,
  Capacity    \* operands in the divider

VARIABLES
  cont, terminate,
  input_counter,    \* words taken
  waddr,            \* BRAM address, in words
  div,              \* the divider: words with their numbers and flags
  bram              \* the BRAM, by word address

latches == <<cont, terminate>>

\* Both ports of the divider get the same valid line, so that they agree on
\* their ready lines.  The divider is offered a word even when the FIFO is not
\* told "ready".
tready(resetn, ready) == ~cont /\ ~terminate /\ resetn /\ ready

Taken(resetn, fifo, ready) == tready(resetn, ready) /\ fifo # <<>>

CountEdge(resetn, fifo, ready) ==
  input_counter' = IF ~resetn THEN 0
                   ELSE IF Taken(resetn, fifo, ready) THEN input_counter + 1
                   ELSE input_counter

\* The divider takes a word when it is ready and gives the oldest quotient when
\* "out".
DividerEdge(resetn, fifo, ready, out, flag) ==
  /\ ready => Len(div) < Capacity
  /\ out => div # <<>>
  /\ LET rest == IF out THEN Tail(div) ELSE div
     IN  div' = IF ~resetn THEN <<>>
                ELSE IF ready /\ fifo # <<>>
                THEN Append(rest, [word |-> Head(fifo), number |-> input_counter, flag |-> flag])
                ELSE rest

Reset(resetn) ==
  /\ ~resetn
  /\ cont' = FALSE /\ terminate' = FALSE
  /\ waddr' = 0
  /\ UNCHANGED bram

NoResult(resetn, out) ==
  /\ resetn
  /\ ~out \/ cont \/ terminate
  /\ UNCHANGED <<latches, waddr, bram>>

\* An exception ends the problem and is not written.
Flagged(resetn, out) ==
  /\ resetn /\ out /\ ~cont /\ ~terminate
  /\ Head(div).flag
  /\ terminate' = TRUE
  /\ UNCHANGED <<cont, waddr, bram>>

\* Mutation: the row is done a word too soon.
Quotient_Early(resetn, out) ==
  /\ resetn /\ out /\ ~cont /\ ~terminate
  /\ ~Head(div).flag
  /\ bram' = [bram EXCEPT ![waddr] = Head(div).word]
  /\ waddr' = waddr + 1
  /\ cont' = (Head(div).number = num_cols - 2)
  /\ UNCHANGED terminate

Quotient(resetn, out) ==
  /\ resetn /\ out /\ ~cont /\ ~terminate
  /\ ~Head(div).flag
  /\ bram' = [bram EXCEPT ![waddr] = Head(div).word]
  /\ waddr' = waddr + 1
  /\ cont' = (Head(div).number = num_cols - 1)
  /\ UNCHANGED terminate

BlockEdge(resetn, fifo, ready, out, flag) ==
  /\ CountEdge(resetn, fifo, ready)
  /\ DividerEdge(resetn, fifo, ready, out, flag)
  /\ \/ Reset(resetn)
     \/ NoResult(resetn, out)
     \/ Flagged(resetn, out)
     \/ Quotient(resetn, out)
=============================================================================
