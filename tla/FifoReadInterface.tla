------------------------- MODULE FifoReadInterface -------------------------
(***************************************************************************)
(* fifo_read_interface.v: on a start pulse, read num_elements consecutive  *)
(* words from memory in AXI bursts and push them into a FIFO, one by one.  *)
(* One step is one clock edge, at which the state machine, the memory, the *)
(* FIFO, its consumer and whoever gives the start pulse all move.          *)
(*                                                                         *)
(* The memory returns for a word its own address, so that the stream shows *)
(* which words were read and in which order.                               *)
(***************************************************************************)
EXTENDS Integers, Sequences

CONSTANTS
  Base,          \* addr_offset: byte address of the first word
  Sizes,         \* the values of num_elements that occur
  MaxBurst,      \* beats in the longest burst (2^8: ARLEN has 8 bits)
  CounterSpace,  \* values of element_counter (2^NUM_ELEMENTS_WIDTH)
  Depth,         \* words the FIFO holds
  ProgFull,      \* words at which its full flag goes up
  MaxJobs        \* bound: start pulses given in a behaviour

ASSUME BurstAssumption ==
  /\ MaxBurst \in Nat \ {0}
  /\ CounterSpace \in Nat \ {0}
  /\ CounterSpace % MaxBurst = 0

ASSUME SizesAssumption == Base \in Nat /\ Sizes \subseteq 0..CounterSpace-1

ASSUME FifoAssumption ==
  Depth \in Nat \ {0} /\ ProgFull \in 1..Depth /\ MaxJobs \in Nat

VARIABLES
  state, element_counter, busy, done,
  araddr, arlen, arvalid, rready,   \* AXI master registers
  tdata, tvalid,                    \* AXI stream registers
  rst_busy, start, num_elements,    \* inputs
  beat_addr, beats, rvalid,         \* memory: next word owed, words owed, offer
  fifo,
  sent, last,                       \* history: words pushed for this job; the last one
  jobs                              \* history: start pulses given

axi == <<araddr, arlen, arvalid, rready>>
axis == <<tdata, tvalid>>
fsm == <<state, element_counter, busy, done, axi, axis>>
control == <<rst_busy, start, num_elements, jobs>>
memory == <<beat_addr, beats, rvalid>>
vars == <<fsm, control, memory, fifo, sent, last>>

FsmState == {"S0", "S1_ROW", "S2_ROW", "S3_ROW", "S4_ROW_NOT_LAST", "S4_ROW_LAST",
             "S5_ROW_NOT_LAST", "S5_ROW_LAST", "S6_ROW"}

Word(i) == Base + 4 * i

\* A size of 0 runs the counter once round.
Words(n) == IF n = 0 THEN CounterSpace ELSE n

\* ARLEN, one less than the beats asked for.  The difference is unsigned, so a
\* counter beyond the size counts as far away, and 0 - 1 in eight bits is a full
\* burst as well.
ArLen(num, counter) ==
  IF num - counter \in 1..MaxBurst THEN num - counter - 1 ELSE MaxBurst - 1

Inc(counter) == IF counter = CounterSpace - 1 THEN 0 ELSE counter + 1

Init ==
  /\ state = "S0" /\ element_counter = 0 /\ busy = FALSE /\ done = FALSE
  /\ araddr = 0 /\ arlen = 0 /\ arvalid = FALSE /\ rready = FALSE
  /\ tdata = 0 /\ tvalid = FALSE
  /\ rst_busy = TRUE /\ start = FALSE /\ num_elements \in Sizes
  /\ beat_addr = 0 /\ beats = 0 /\ rvalid = FALSE
  /\ fifo = <<>>
  /\ sent = 0 /\ last = Base /\ jobs = 0

-----------------------------------------------------------------------------
(* The state machine.                                                       *)

fifo_full == Len(fifo) >= ProgFull

Hold ==
  /\ rst_busy
  /\ UNCHANGED fsm

Idle ==
  /\ state = "S0" /\ ~start
  /\ done' = FALSE
  /\ UNCHANGED <<state, element_counter, busy, axi, axis>>

Start ==
  /\ state = "S0" /\ start
  /\ done' = FALSE
  /\ busy' = TRUE
  /\ state' = "S1_ROW"
  /\ UNCHANGED <<element_counter, axi, axis>>

\* Mutation: ARVALID is not raised.
RequestBurst_NoValid ==
  /\ state = "S1_ROW"
  /\ araddr' = Word(element_counter)
  /\ arlen' = ArLen(num_elements, element_counter)
  /\ state' = "S2_ROW"
  /\ UNCHANGED <<element_counter, busy, done, arvalid, rready, axis>>

RequestBurst ==
  /\ state = "S1_ROW"
  /\ araddr' = Word(element_counter)
  /\ arlen' = ArLen(num_elements, element_counter)
  /\ arvalid' = TRUE
  /\ state' = "S2_ROW"
  /\ UNCHANGED <<element_counter, busy, done, rready, axis>>

RequestTaken(arready) ==
  /\ state = "S2_ROW" /\ arready
  /\ state' = "S3_ROW"
  /\ arvalid' = FALSE
  /\ rready' = TRUE
  /\ UNCHANGED <<element_counter, busy, done, araddr, arlen, axis>>

\* Mutation: the memory is still told "ready" while the beat waits for room.
TakeBeat_StayReady ==
  /\ state = "S3_ROW" /\ rvalid
  /\ state' = IF beats = 1 THEN "S4_ROW_LAST" ELSE "S4_ROW_NOT_LAST"
  /\ tdata' = beat_addr
  /\ UNCHANGED <<element_counter, busy, done, axi, tvalid>>

TakeBeat ==
  /\ state = "S3_ROW" /\ rvalid
  /\ state' = IF beats = 1 THEN "S4_ROW_LAST" ELSE "S4_ROW_NOT_LAST"
  /\ tdata' = beat_addr
  /\ rready' = FALSE
  /\ UNCHANGED <<element_counter, busy, done, araddr, arlen, arvalid, tvalid>>

OfferWord ==
  /\ state \in {"S4_ROW_NOT_LAST", "S4_ROW_LAST"} /\ ~fifo_full
  /\ state' = IF state = "S4_ROW_LAST" THEN "S5_ROW_LAST" ELSE "S5_ROW_NOT_LAST"
  /\ tvalid' = TRUE
  /\ UNCHANGED <<element_counter, busy, done, axi, tdata>>

\* Mutation: the word is taken for pushed without waiting for TREADY.
WordTaken_NoWait(tready) ==
  /\ state \in {"S5_ROW_NOT_LAST", "S5_ROW_LAST"}
  /\ state' = IF state = "S5_ROW_LAST" THEN "S6_ROW" ELSE "S3_ROW"
  /\ tvalid' = FALSE
  /\ rready' = (rready \/ state = "S5_ROW_NOT_LAST")
  /\ element_counter' = Inc(element_counter)
  /\ UNCHANGED <<busy, done, araddr, arlen, arvalid, tdata>>

WordTaken(tready) ==
  /\ state \in {"S5_ROW_NOT_LAST", "S5_ROW_LAST"} /\ tready
  /\ state' = IF state = "S5_ROW_LAST" THEN "S6_ROW" ELSE "S3_ROW"
  /\ tvalid' = FALSE
  /\ rready' = (rready \/ state = "S5_ROW_NOT_LAST")
  /\ element_counter' = Inc(element_counter)
  /\ UNCHANGED <<busy, done, araddr, arlen, arvalid, tdata>>

\* Mutation: the counter is left where the job ended.
Finish_KeepCounter ==
  /\ state = "S6_ROW" /\ element_counter = num_elements
  /\ busy' = FALSE /\ done' = TRUE
  /\ tdata' = 0 /\ tvalid' = FALSE
  /\ araddr' = 0 /\ arlen' = 0 /\ arvalid' = FALSE /\ rready' = FALSE
  /\ state' = "S0"
  /\ UNCHANGED element_counter

Finish ==
  /\ state = "S6_ROW" /\ element_counter = num_elements
  /\ element_counter' = 0
  /\ busy' = FALSE /\ done' = TRUE
  /\ tdata' = 0 /\ tvalid' = FALSE
  /\ araddr' = 0 /\ arlen' = 0 /\ arvalid' = FALSE /\ rready' = FALSE
  /\ state' = "S0"

NextBurst ==
  /\ state = "S6_ROW" /\ element_counter # num_elements
  /\ state' = "S1_ROW"
  /\ UNCHANGED <<element_counter, busy, done, axi, axis>>

Stall(arready, tready) ==
  /\ \/ state = "S2_ROW" /\ ~arready
     \/ state = "S3_ROW" /\ ~rvalid
     \/ state \in {"S4_ROW_NOT_LAST", "S4_ROW_LAST"} /\ fifo_full
     \/ state \in {"S5_ROW_NOT_LAST", "S5_ROW_LAST"} /\ ~tready
  /\ UNCHANGED fsm

FsmEdge(arready, tready) ==
  \/ Hold
  \/ /\ ~rst_busy
     /\ \/ Idle
        \/ Start
        \/ RequestBurst \/ RequestTaken(arready)
        \/ TakeBeat \/ OfferWord \/ WordTaken(tready)
        \/ NextBurst \/ Finish
        \/ Stall(arready, tready)

-----------------------------------------------------------------------------
(* Memory, FIFO, and the start pulse.                                       *)

\* A beat is transferred when it is offered and the master is ready; an offer
\* stands until then.
MemoryEdge(arready) ==
  \/ /\ arvalid /\ arready /\ beats = 0
     /\ beat_addr' = araddr
     /\ beats' = arlen + 1
     /\ rvalid' \in BOOLEAN
  \/ /\ ~(arvalid /\ arready)
     /\ rvalid /\ rready
     /\ beat_addr' = beat_addr + 4
     /\ beats' = beats - 1
     /\ rvalid' \in (IF beats = 1 THEN {FALSE} ELSE BOOLEAN)
  \/ /\ ~(arvalid /\ arready)
     /\ ~(rvalid /\ rready)
     /\ rvalid' \in (IF rvalid THEN {TRUE} ELSE IF beats > 0 THEN BOOLEAN ELSE {FALSE})
     /\ UNCHANGED <<beat_addr, beats>>

\* The FIFO takes a word when it says "ready", which it does only with room.
FifoEdge(tready) ==
  /\ tready => Len(fifo) < Depth /\ ~rst_busy
  /\ \E pop \in BOOLEAN :
       LET rest == IF pop THEN Tail(fifo) ELSE fifo
       IN  /\ pop => fifo # <<>>
           /\ fifo' = IF tvalid /\ tready THEN Append(rest, tdata) ELSE rest

\* A size is set up before the pulse and stays until the job is done; the FIFO
\* has come out of reset before the first job, and does not go back.
ControlEdge ==
  /\ rst_busy' \in (IF rst_busy THEN BOOLEAN ELSE {FALSE})
  /\ \/ /\ start' = FALSE
        /\ UNCHANGED <<num_elements, jobs>>
     \/ /\ jobs < MaxJobs
        /\ ~rst_busy' /\ ~busy /\ ~start
        /\ start' = TRUE
        /\ num_elements' \in Sizes
        /\ jobs' = jobs + 1

Record(tready) ==
  /\ sent' = IF ~busy /\ busy' THEN 0 ELSE IF tvalid /\ tready THEN sent + 1 ELSE sent
  /\ last' = IF tvalid /\ tready THEN tdata ELSE last

Edge(arready, tready) ==
  /\ FsmEdge(arready, tready)
  /\ MemoryEdge(arready)
  /\ FifoEdge(tready)
  /\ ControlEdge
  /\ Record(tready)

Next == \E arready, tready \in BOOLEAN : Edge(arready, tready)

Spec == Init /\ [][Next]_vars

(* Fairness: the clock runs, the FIFO leaves reset, the memory takes each   *)
(* request and offers each beat it owes, the FIFO takes what it has room    *)
(* for and its consumer empties it.                                         *)
Fairness ==
  /\ WF_vars(Next)
  /\ WF_vars(Next /\ ~rst_busy')
  /\ WF_vars(Next /\ arvalid /\ ~arvalid')
  /\ WF_vars(Next /\ ~rvalid /\ rvalid')
  /\ WF_vars(Next /\ tvalid /\ ~tvalid')
  /\ WF_vars(Next /\ fifo # <<>> /\ fifo' \in {Tail(fifo), Append(Tail(fifo), tdata)})

FairSpec == Spec /\ Fairness

-----------------------------------------------------------------------------

\* Registers, inputs, memory and FIFO stay in their ranges.
TypeOK ==
  /\ state \in FsmState
  /\ element_counter \in 0..CounterSpace-1
  /\ busy \in BOOLEAN /\ done \in BOOLEAN
  /\ araddr \in Nat /\ arlen \in 0..MaxBurst-1
  /\ arvalid \in BOOLEAN /\ rready \in BOOLEAN
  /\ tdata \in Nat /\ tvalid \in BOOLEAN
  /\ rst_busy \in BOOLEAN /\ start \in BOOLEAN /\ num_elements \in Sizes
  /\ beat_addr \in Nat /\ beats \in 0..MaxBurst /\ rvalid \in BOOLEAN
  /\ fifo \in Seq(Nat) /\ Len(fifo) <= Depth
  /\ sent \in 0..CounterSpace /\ last \in Nat /\ jobs \in 0..MaxJobs

\* What this job has put in the FIFO and the consumer has not taken yet is the
\* end of an unbroken run of words from the first address on: no beat of a
\* burst is lost, doubled or swapped, whoever stalls and however bursts break.
InOrder ==
  \A i \in 1..Len(fifo) :
    Len(fifo) - i < sent => fifo[i] = Word(sent - 1 - (Len(fifo) - i))

\* A burst asks only for words of the job that have not been asked for before.
BurstWithinJob ==
  arvalid => /\ araddr = Word(sent)
             /\ araddr + 4 * (arlen + 1) <= Word(Words(num_elements))

\* At the done pulse all words have gone and the memory owes none, so that no
\* beat of this job can be taken for one of the next.
DoneComplete ==
  done => /\ sent = Words(num_elements)
          /\ beats = 0

\* A start pulse leads to the done pulse of its job.
JobCompletes == start ~> done

Stream == INSTANCE StreamCopy WITH
            Stride <- 4,
            active <- busy,
            need <- IF busy THEN Words(num_elements) ELSE 0

\* The reader is a mover of words: from the start pulse to the done pulse it
\* pushes exactly the words of the job, each once and in order.
ImplementsStream == Stream!Spec
=============================================================================
