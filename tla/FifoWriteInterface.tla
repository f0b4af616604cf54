------------------------- MODULE FifoWriteInterface -------------------------
(***************************************************************************)
(* fifo_write_interface.v: on a start pulse, take num_elements words from  *)
(* a FIFO and write them to consecutive addresses in AXI bursts.  One step *)
(* is one clock edge of the state machine, the FIFO, the memory and the    *)
(* giver of the start pulse.                                               *)
(*                                                                         *)
(* The words of a job are numbered in the order they leave the FIFO: the   *)
(* number is the datum.                                                    *)
(***************************************************************************)
EXTENDS Integers

CONSTANTS
  Base,          \* addr_offset: byte address of the first word
  Sizes,         \* the values of num_elements that occur
  MaxBurst,      \* beats in the longest burst (2^8: AWLEN has 8 bits)
  CounterSpace,  \* values of element_counter (2^NUM_ELEMENTS_WIDTH)
  MaxJobs        \* bound: start pulses given in a behaviour

ASSUME BurstAssumption ==
  /\ MaxBurst \in Nat \ {0}
  /\ CounterSpace \in Nat \ {0}
  /\ CounterSpace % MaxBurst = 0

ASSUME SizesAssumption ==
  Base \in Nat /\ Sizes \subseteq 0..CounterSpace-1 /\ MaxJobs \in Nat

VARIABLES
  state, element_counter, burst_element_counter, busy, done,
  awaddr, awlen, awvalid, wdata, wlast, wvalid, bready,   \* AXI master registers
  tready,                                                  \* AXI stream register
  rst_busy, start, num_elements,                           \* inputs
  tvalid,                                                  \* the FIFO offers a word
  beat_addr, beats, answer,  \* memory: place of the next beat, beats to come,
                             \* state of the write response
  next,                      \* number of the word the FIFO offers next
  sent, last,                \* history: words written for this job; where the last went
  jobs                       \* history: start pulses given

aw == <<awaddr, awlen, awvalid>>
w == <<wdata, wlast, wvalid>>
fsm == <<state, element_counter, burst_element_counter, busy, done, aw, w, bready, tready>>
control == <<rst_busy, start, num_elements, jobs>>
memory == <<beat_addr, beats, answer>>
vars == <<fsm, control, tvalid, memory, next, sent, last>>

FsmState == {"S0", "S1", "S2", "S3", "S4_NOT_LAST", "S4_LAST", "S5_LAST", "S6"}

Word(i) == Base + 4 * i

\* A size of 0 runs the counter once round.
Words(n) == IF n = 0 THEN CounterSpace ELSE n

\* Mutation: full bursts all the way.
AwLen_AlwaysFull(num, counter) == MaxBurst - 1

\* AWLEN, one less than the beats of the burst.  The difference is unsigned, so
\* a counter beyond the size counts as far away, and 0 - 1 in eight bits is a
\* full burst as well.
AwLen(num, counter) ==
  IF num - counter \in 1..MaxBurst THEN num - counter - 1 ELSE MaxBurst - 1

Inc(counter) == IF counter = CounterSpace - 1 THEN 0 ELSE counter + 1

IncBurst(counter) == IF counter = MaxBurst - 1 THEN 0 ELSE counter + 1

Init ==
  /\ state = "S0" /\ element_counter = 0 /\ burst_element_counter = 0
  /\ busy = FALSE /\ done = FALSE
  /\ awaddr = 0 /\ awlen = 0 /\ awvalid = FALSE
  /\ wdata = 0 /\ wlast = FALSE /\ wvalid = FALSE
  /\ bready = FALSE /\ tready = FALSE
  /\ rst_busy = TRUE /\ start = FALSE /\ num_elements \in Sizes /\ jobs = 0
  /\ tvalid = FALSE
  /\ beat_addr = 0 /\ beats = 0 /\ answer = "none"
  /\ next = 0 /\ sent = 0 /\ last = Base

-----------------------------------------------------------------------------
(* The state machine.                                                       *)

Hold ==
  /\ rst_busy
  /\ UNCHANGED fsm

Idle ==
  /\ state = "S0" /\ ~start
  /\ done' = FALSE
  /\ UNCHANGED <<state, element_counter, burst_element_counter, busy, aw, w, bready, tready>>

Start ==
  /\ state = "S0" /\ start
  /\ done' = FALSE
  /\ busy' = TRUE
  /\ state' = "S1"
  /\ UNCHANGED <<element_counter, burst_element_counter, aw, w, bready, tready>>

\* Mutation: AWVALID is not raised.
RequestBurst_NoValid ==
  /\ state = "S1"
  /\ awaddr' = Word(element_counter)
  /\ awlen' = AwLen(num_elements, element_counter)
  /\ burst_element_counter' = 0
  /\ state' = "S2"
  /\ UNCHANGED <<element_counter, busy, done, awvalid, w, bready, tready>>

RequestBurst ==
  /\ state = "S1"
  /\ awaddr' = Word(element_counter)
  /\ awlen' = AwLen(num_elements, element_counter)
  /\ burst_element_counter' = 0
  /\ awvalid' = TRUE
  /\ state' = "S2"
  /\ UNCHANGED <<element_counter, busy, done, w, bready, tready>>

RequestTaken(awready) ==
  /\ state = "S2" /\ awready
  /\ state' = "S3"
  /\ awvalid' = FALSE
  /\ bready' = TRUE
  /\ tready' = TRUE
  /\ UNCHANGED <<element_counter, burst_element_counter, busy, done, awaddr, awlen, w>>

\* Mutation: the FIFO is still told "ready" while the word is being written.
TakeWord_StayReady ==
  /\ state = "S3" /\ tvalid
  /\ wdata' = next
  /\ wvalid' = TRUE
  /\ IF burst_element_counter = awlen
     THEN wlast' = TRUE /\ state' = "S4_LAST"
     ELSE wlast' = wlast /\ state' = "S4_NOT_LAST"
  /\ UNCHANGED <<element_counter, burst_element_counter, busy, done, aw, bready, tready>>

TakeWord ==
  /\ state = "S3" /\ tvalid
  /\ wdata' = next
  /\ wvalid' = TRUE
  /\ tready' = FALSE
  /\ IF burst_element_counter = awlen
     THEN wlast' = TRUE /\ state' = "S4_LAST"
     ELSE wlast' = wlast /\ state' = "S4_NOT_LAST"
  /\ UNCHANGED <<element_counter, burst_element_counter, busy, done, aw, bready>>

\* Mutation: the FIFO is told "ready" after the last beat as well.
BeatWritten_ReadyAfterLast(wready) ==
  /\ state \in {"S4_NOT_LAST", "S4_LAST"} /\ wready
  /\ state' = IF state = "S4_LAST" THEN "S5_LAST" ELSE "S3"
  /\ wvalid' = FALSE
  /\ wlast' = (wlast /\ state # "S4_LAST")
  /\ tready' = TRUE
  /\ element_counter' = Inc(element_counter)
  /\ burst_element_counter' = IncBurst(burst_element_counter)
  /\ UNCHANGED <<busy, done, aw, wdata, bready>>

BeatWritten(wready) ==
  /\ state \in {"S4_NOT_LAST", "S4_LAST"} /\ wready
  /\ state' = IF state = "S4_LAST" THEN "S5_LAST" ELSE "S3"
  /\ wvalid' = FALSE
  /\ wlast' = (wlast /\ state # "S4_LAST")
  /\ tready' = (tready \/ state = "S4_NOT_LAST")
  /\ element_counter' = Inc(element_counter)
  /\ burst_element_counter' = IncBurst(burst_element_counter)
  /\ UNCHANGED <<busy, done, aw, wdata, bready>>

BurstAnswered ==
  /\ state = "S5_LAST" /\ answer = "offered"
  /\ bready' = FALSE
  /\ state' = "S6"
  /\ UNCHANGED <<element_counter, burst_element_counter, busy, done, aw, w, tready>>

Finish ==
  /\ state = "S6" /\ element_counter = num_elements
  /\ element_counter' = 0 /\ burst_element_counter' = 0
  /\ awaddr' = 0 /\ awlen' = 0 /\ awvalid' = FALSE
  /\ wdata' = 0 /\ wlast' = FALSE /\ wvalid' = FALSE
  /\ bready' = FALSE /\ tready' = FALSE
  /\ busy' = FALSE /\ done' = TRUE
  /\ state' = "S0"

NextBurst ==
  /\ state = "S6" /\ element_counter # num_elements
  /\ state' = "S1"
  /\ UNCHANGED <<element_counter, burst_element_counter, busy, done, aw, w, bready, tready>>

Stall(awready, wready) ==
  /\ \/ state = "S2" /\ ~awready
     \/ state = "S3" /\ ~tvalid
     \/ state \in {"S4_NOT_LAST", "S4_LAST"} /\ ~wready
     \/ state = "S5_LAST" /\ answer # "offered"
  /\ UNCHANGED fsm

FsmEdge(awready, wready) ==
  \/ Hold
  \/ /\ ~rst_busy
     /\ \/ Idle
        \/ Start
        \/ RequestBurst
        \/ RequestTaken(awready)
        \/ TakeWord
        \/ BeatWritten(wready)
        \/ BurstAnswered
        \/ NextBurst
        \/ Finish
        \/ Stall(awready, wready)

-----------------------------------------------------------------------------
(* Memory, FIFO, and the start pulse.                                       *)

\* The memory takes a request, then its beats, then offers a response that
\* stands until the master takes it.
MemoryEdge(awready, wready) ==
  /\ IF awvalid /\ awready
     THEN beat_addr' = awaddr /\ beats' = awlen + 1
     ELSE IF wvalid /\ wready
     THEN beat_addr' = beat_addr + 4 /\ beats' = beats - 1
     ELSE UNCHANGED <<beat_addr, beats>>
  /\ answer' \in
       IF wvalid /\ wready /\ beats = 1 THEN {"due", "offered"}
       ELSE IF answer = "due" THEN {"due", "offered"}
       ELSE IF answer = "offered" /\ bready THEN {"none"}
       ELSE {answer}

\* An offered word stands until it is taken.
FifoEdge ==
  tvalid' \in IF tvalid /\ ~tready THEN {TRUE} ELSE BOOLEAN

\* A size is set up before the pulse and stays until the job is done; the FIFO
\* has come out of reset before the first job, and does not go back.
ControlEdge ==
  /\ rst_busy' \in (IF rst_busy THEN BOOLEAN ELSE {FALSE})
  /\ \/ /\ start' = FALSE
        /\ UNCHANGED <<num_elements, jobs>>
     \/ /\ jobs < MaxJobs
        /\ ~rst_busy' /\ ~busy /\ ~start
        /\ start' = TRUE
        /\ num_elements' \in Sizes
        /\ jobs' = jobs + 1

Record(wready) ==
  /\ next' = IF ~busy /\ busy' THEN 0 ELSE IF tvalid /\ tready THEN next + 1 ELSE next
  /\ sent' = IF ~busy /\ busy' THEN 0 ELSE IF wvalid /\ wready THEN sent + 1 ELSE sent
  /\ last' = IF wvalid /\ wready THEN beat_addr ELSE last

Edge(awready, wready) ==
  /\ FsmEdge(awready, wready)
  /\ MemoryEdge(awready, wready)
  /\ FifoEdge
  /\ ControlEdge
  /\ Record(wready)

Next == \E awready, wready \in BOOLEAN : Edge(awready, wready)

Spec == Init /\ [][Next]_vars

(* Fairness: the clock runs, the FIFO leaves reset and gets its words, and  *)
(* the memory takes each request and each beat and answers each burst.      *)
Fairness ==
  /\ WF_vars(Next)
  /\ WF_vars(Next /\ ~rst_busy')
  /\ WF_vars(Next /\ awvalid /\ ~awvalid')
  /\ WF_vars(Next /\ ~tvalid /\ tvalid')
  /\ WF_vars(Next /\ wvalid /\ ~wvalid')
  /\ WF_vars(Next /\ answer = "due" /\ answer' = "offered")

FairSpec == Spec /\ Fairness

-----------------------------------------------------------------------------

\* Registers, inputs and memory stay in their ranges.
TypeOK ==
  /\ state \in FsmState
  /\ element_counter \in 0..CounterSpace-1 /\ burst_element_counter \in 0..MaxBurst-1
  /\ busy \in BOOLEAN /\ done \in BOOLEAN
  /\ awaddr \in Nat /\ awlen \in 0..MaxBurst-1 /\ awvalid \in BOOLEAN
  /\ wdata \in Nat /\ wlast \in BOOLEAN /\ wvalid \in BOOLEAN
  /\ bready \in BOOLEAN /\ tready \in BOOLEAN
  /\ rst_busy \in BOOLEAN /\ start \in BOOLEAN /\ num_elements \in Sizes
  /\ jobs \in 0..MaxJobs
  /\ tvalid \in BOOLEAN
  /\ beat_addr \in Nat /\ beats \in 0..MaxBurst /\ answer \in {"none", "due", "offered"}
  /\ next \in 0..CounterSpace /\ sent \in 0..CounterSpace /\ last \in Nat

\* The beat offered to the memory is the one it is owed next: the word that
\* left the FIFO k-th goes to the k-th address, and the memory expects its last
\* beat exactly when WLAST says so.
InPlace ==
  wvalid => /\ wdata = sent /\ beat_addr = Word(wdata)
            /\ wlast <=> beats = 1

\* At the done pulse exactly the words of the job have left the FIFO, all of
\* them are in memory and every burst is answered.
DoneComplete ==
  done => /\ sent = Words(num_elements) /\ next = sent
          /\ beats = 0 /\ answer = "none"

\* A start pulse leads to the done pulse of its job.
JobCompletes == start ~> done

Stream == INSTANCE StreamCopy WITH
            Stride <- 4,
            active <- busy,
            need <- IF busy THEN Words(num_elements) ELSE 0

\* The writer is a mover of words: from the start pulse to the done pulse it
\* writes exactly the places of the job, each once and in order.
ImplementsStream == Stream!Spec
=============================================================================
