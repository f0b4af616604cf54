------------------------------ MODULE FifoDma ------------------------------
(***************************************************************************)
(* fifo_dma.v: on a start pulse, read num_elements words that lie a stride *)
(* apart, one word for each request, and push them into a FIFO.            *)
(*                                                                         *)
(* The operators say what one clock edge does to the registers; memory,    *)
(* FIFO and start pulse are inputs, driven by the module that composes the *)
(* reader with them (PivotUpdate).                                         *)
(***************************************************************************)
EXTENDS Integers

CONSTANTS
  stride,         \* words from one element to the next: the columns of the tableau
  num_elements    \* elements of a job: the rows of the tableau

VARIABLES
  state, element_counter, busy, done,
  araddr, arvalid, rready,           \* AXI master registers
  tdata, tvalid                      \* AXI stream registers

axi == <<araddr, arvalid, rready>>
axis == <<tdata, tvalid>>
fsm == <<state, element_counter, busy, done, axi, axis>>

FsmState == {"S0", "S1_COL", "S2_COL", "S3_COL", "S4_COL", "S5_COL", "S6_COL"}

\* The offset of an element from that of the first, in words.
Offset(i) == stride * i

\* Nothing is said of tdata until a word has been read.
ResetTo(nothing) ==
  /\ state = "S0" /\ element_counter = 0 /\ busy = FALSE /\ done = FALSE
  /\ araddr = 0 /\ arvalid = FALSE /\ rready = FALSE
  /\ tdata = nothing /\ tvalid = FALSE

Hold(rst_busy) ==
  /\ rst_busy
  /\ UNCHANGED fsm

Idle(start) ==
  /\ state = "S0" /\ ~start
  /\ done' = FALSE
  /\ UNCHANGED <<state, element_counter, busy, axi, axis>>

Start(start) ==
  /\ state = "S0" /\ start
  /\ done' = FALSE
  /\ busy' = TRUE
  /\ state' = "S1_COL"
  /\ UNCHANGED <<element_counter, axi, axis>>

\* The base address is read anew for each element.
RequestElement(addr_offset) ==
  /\ state = "S1_COL"
  /\ araddr' = addr_offset + Offset(element_counter)
  /\ arvalid' = TRUE
  /\ state' = "S2_COL"
  /\ UNCHANGED <<element_counter, busy, done, rready, axis>>

RequestTaken(arready) ==
  /\ state = "S2_COL" /\ arready
  /\ state' = "S3_COL"
  /\ arvalid' = FALSE
  /\ rready' = TRUE
  /\ UNCHANGED <<element_counter, busy, done, araddr, axis>>

TakeWord(rvalid, rdata) ==
  /\ state = "S3_COL" /\ rvalid
  /\ state' = "S4_COL"
  /\ tdata' = rdata
  /\ rready' = FALSE
  /\ UNCHANGED <<element_counter, busy, done, araddr, arvalid, tvalid>>

OfferWord(fifo_full) ==
  /\ state = "S4_COL" /\ ~fifo_full
  /\ state' = "S5_COL"
  /\ tvalid' = TRUE
  /\ UNCHANGED <<element_counter, busy, done, axi, tdata>>

WordTaken(tready) ==
  /\ state = "S5_COL" /\ tready
  /\ state' = "S6_COL"
  /\ tvalid' = FALSE
  /\ element_counter' = element_counter + 1
  /\ UNCHANGED <<busy, done, axi, tdata>>

\* Mutation: the counter is left where the job ended.
Finish_KeepCounter(zero) ==
  /\ state = "S6_COL" /\ element_counter = num_elements
  /\ busy' = FALSE /\ done' = TRUE
  /\ tdata' = zero /\ tvalid' = FALSE
  /\ araddr' = 0 /\ arvalid' = FALSE /\ rready' = FALSE
  /\ state' = "S0"
  /\ UNCHANGED element_counter

Finish(zero) ==
  /\ state = "S6_COL" /\ element_counter = num_elements
  /\ element_counter' = 0
  /\ busy' = FALSE /\ done' = TRUE
  /\ tdata' = zero /\ tvalid' = FALSE
  /\ araddr' = 0 /\ arvalid' = FALSE /\ rready' = FALSE
  /\ state' = "S0"

NextElement ==
  /\ state = "S6_COL" /\ element_counter # num_elements
  /\ state' = "S1_COL"
  /\ UNCHANGED <<element_counter, busy, done, axi, axis>>

Stall(arready, rvalid, fifo_full, tready) ==
  /\ \/ state = "S2_COL" /\ ~arready
     \/ state = "S3_COL" /\ ~rvalid
     \/ state = "S4_COL" /\ fifo_full
     \/ state = "S5_COL" /\ ~tready
  /\ UNCHANGED fsm
=============================================================================
