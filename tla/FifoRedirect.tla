---------------------------- MODULE FifoRedirect ----------------------------
(***************************************************************************)
(* fifo_redirect.v: forks the results of update_tableau into three FIFOs:  *)
(* all of them for DDR, those of the first row for the objective row, the  *)
(* last of each row for the right hand side; and starts the three writers  *)
(* behind them with the first.                                             *)
(*                                                                         *)
(* A result is a record of its tableau and its place in it, from 0.  One   *)
(* step is one clock edge.                                                 *)
(***************************************************************************)
EXTENDS Integers, Sequences, SequencesExt

CONSTANTS
  NumRows, NumCols,
  Depth,          \* words a FIFO holds
  MaxTableaus     \* bound: tableaus begun in a behaviour

ASSUME RedirectAssumption ==
  /\ NumRows \in Nat \ {0} /\ NumCols \in Nat \ {0}
  /\ Depth \in Nat \ {0} /\ MaxTableaus \in Nat

Copy == {"ddr", "obj_row", "rhs_col"}
Total == NumRows * NumCols

VARIABLES
  current_state, element_counter, row_end_counter,
  busy, done, start, s_axis_tready, m_axis_tvalid,
  rst_busy,            \* FIFOs that reset themselves
  word, offered,       \* the result on offer, or the one to come
  fifo,
  writing, stored,     \* writers at work; words they have taken in this job
  aborted,             \* update_tableau stopped with results outstanding
  clean,               \* history: this tableau found everything at rest
  tableaus             \* history: tableaus begun

fsm == <<current_state, element_counter, row_end_counter, busy, done, start,
         s_axis_tready, m_axis_tvalid>>
producer == <<word, offered, aborted, clean, tableaus>>
sinks == <<fifo, writing, stored>>
vars == <<fsm, rst_busy, producer, sinks>>

NoValid == [x \in Copy |-> FALSE]

Init ==
  /\ current_state = "S0" /\ element_counter = 1 /\ row_end_counter = 1
  /\ busy = FALSE /\ done = FALSE /\ start = FALSE
  /\ s_axis_tready = FALSE /\ m_axis_tvalid = NoValid
  /\ rst_busy \in SUBSET Copy
  /\ word = [tableau |-> 0, place |-> Total] /\ offered = FALSE
  /\ aborted = FALSE /\ clean = FALSE /\ tableaus = 0
  /\ fifo = [x \in Copy |-> <<>>]
  /\ writing = NoValid /\ stored = [x \in Copy |-> <<>>]

-----------------------------------------------------------------------------
(* The state machine.                                                       *)

Hold ==
  /\ rst_busy # {}
  /\ UNCHANGED fsm

Restart ==
  /\ current_state = "S0"
  /\ current_state' = "S1"
  /\ element_counter' = 1 /\ row_end_counter' = 1
  /\ busy' = FALSE /\ done' = FALSE /\ start' = FALSE
  /\ s_axis_tready' = FALSE /\ m_axis_tvalid' = NoValid

\* The FIFOs that get the element the counters stand at.
Receivers ==
  {"ddr"} \cup (IF element_counter <= NumCols THEN {"obj_row"} ELSE {})
          \cup (IF row_end_counter = NumCols THEN {"rhs_col"} ELSE {})

AwaitResult ==
  /\ current_state = "S1" /\ ~offered
  /\ s_axis_tready' = FALSE
  /\ UNCHANGED <<current_state, element_counter, row_end_counter, busy, done, start,
                 m_axis_tvalid>>

OfferCopies ==
  /\ current_state = "S1" /\ offered
  /\ current_state' = "S2"
  /\ s_axis_tready' = FALSE
  /\ start' = (start \/ element_counter = 1)
  /\ busy' = TRUE
  /\ m_axis_tvalid' = [x \in Copy |-> m_axis_tvalid[x] \/ x \in Receivers]
  /\ row_end_counter' = IF "rhs_col" \in Receivers THEN 0 ELSE row_end_counter
  /\ UNCHANGED <<element_counter, done>>

\* Mutation: the result is let go when DDR has its copy.
CopiesTaken_DdrOnly(tready) ==
  /\ current_state = "S2"
  /\ start' = FALSE
  /\ m_axis_tvalid' = [x \in Copy |-> m_axis_tvalid[x] /\ x \notin tready]
  /\ s_axis_tready' = (s_axis_tready \/ ~m_axis_tvalid["ddr"])
  /\ current_state' = IF ~m_axis_tvalid["ddr"] THEN "S3" ELSE "S2"
  /\ UNCHANGED <<element_counter, row_end_counter, busy, done>>

\* Each copy is taken by itself; the result is let go when none is left.
CopiesTaken(tready) ==
  /\ current_state = "S2"
  /\ start' = FALSE
  /\ m_axis_tvalid' = [x \in Copy |-> m_axis_tvalid[x] /\ x \notin tready]
  /\ s_axis_tready' = (s_axis_tready \/ m_axis_tvalid = NoValid)
  /\ current_state' = IF m_axis_tvalid = NoValid THEN "S3" ELSE "S2"
  /\ UNCHANGED <<element_counter, row_end_counter, busy, done>>

\* Mutation: the counters go on into the next tableau.
Count_OnAndOn ==
  /\ current_state = "S3"
  /\ s_axis_tready' = FALSE
  /\ current_state' = "S1"
  /\ element_counter' = element_counter + 1
  /\ row_end_counter' = row_end_counter + 1
  /\ UNCHANGED <<busy, done, start, m_axis_tvalid>>

Count ==
  /\ current_state = "S3"
  /\ s_axis_tready' = FALSE
  /\ IF element_counter = Total
     THEN /\ current_state' = "S0"
          /\ done' = TRUE /\ busy' = FALSE
          /\ UNCHANGED <<element_counter, row_end_counter>>
     ELSE /\ current_state' = "S1"
          /\ element_counter' = element_counter + 1
          /\ row_end_counter' = row_end_counter + 1
          /\ UNCHANGED <<done, busy>>
  /\ UNCHANGED <<start, m_axis_tvalid>>

FsmEdge(tready) ==
  \/ Hold
  \/ /\ rst_busy = {}
     /\ Restart \/ AwaitResult \/ OfferCopies \/ CopiesTaken(tready) \/ Count

-----------------------------------------------------------------------------
(* The FIFOs, the writers behind them, and update_tableau before.           *)

\* What the writer of a copy is told to take, and the results that belong there, in
\* their order: the first of the tableau, or the last of each row.
num_elements == [ddr |-> Total, obj_row |-> NumCols, rhs_col |-> NumRows]
PlaceOf(x, k) == IF x = "rhs_col" THEN k * NumCols - 1 ELSE k - 1
Expected(x, tableau) ==
  [k \in 1..num_elements[x] |-> [tableau |-> tableau, place |-> PlaceOf(x, k)]]

MayTake(x) == writing[x] /\ Len(stored[x]) < num_elements[x] /\ fifo[x] # <<>>

\* A writer is deaf to the start pulse while it is at work.
SinkEdge(tready, taking, finishing) ==
  LET pushed(x) == IF m_axis_tvalid[x] /\ x \in tready THEN <<word>> ELSE <<>>
      rest(x) == IF x \in taking THEN Tail(fifo[x]) ELSE fifo[x]
  IN  /\ fifo' = [x \in Copy |-> rest(x) \o pushed(x)]
      /\ stored' = [x \in Copy |->
           IF start /\ ~writing[x] THEN <<>>
           ELSE IF x \in taking THEN Append(stored[x], Head(fifo[x]))
           ELSE stored[x]]
      /\ writing' = [x \in Copy |-> IF writing[x] THEN x \notin finishing ELSE start]

AtRest ==
  /\ current_state \in {"S0", "S1"} /\ ~s_axis_tready
  /\ current_state = "S1" => element_counter = 1 /\ row_end_counter = 1
  /\ \A x \in Copy : fifo[x] = <<>> /\ ~writing[x]

Outstanding == word.place < Total

\* The control unit lets a round begin when the writer to DDR is done, or after
\* a problem that ended.
BeginTableau ==
  /\ ~Outstanding \/ aborted
  /\ ~aborted => ~writing["ddr"] /\ (tableaus = 0 \/ stored["ddr"] # <<>>)
  /\ rst_busy = {} /\ tableaus < MaxTableaus /\ ~s_axis_tready
  /\ word' = [tableau |-> word.tableau + 1, place |-> 0]
  /\ tableaus' = tableaus + 1
  /\ clean' = AtRest
  /\ aborted' = FALSE
  /\ offered' = FALSE

\* An exception stops update_tableau; what is on offer is still taken.
Abort ==
  /\ Outstanding /\ ~aborted /\ ~offered
  /\ aborted' = TRUE
  /\ UNCHANGED <<word, offered, clean, tableaus>>

Produce ==
  /\ Outstanding /\ ~aborted /\ ~offered
  /\ offered' = TRUE
  /\ UNCHANGED <<word, aborted, clean, tableaus>>

ResultTaken ==
  /\ offered /\ s_axis_tready
  /\ word' = [word EXCEPT !.place = @ + 1]
  /\ offered' \in IF word'.place < Total THEN BOOLEAN ELSE {FALSE}
  /\ UNCHANGED <<aborted, clean, tableaus>>

Linger ==
  /\ ~(offered /\ s_axis_tready)
  /\ UNCHANGED producer

ProducerEdge == BeginTableau \/ Abort \/ Produce \/ ResultTaken \/ Linger

Edge ==
  /\ \E tready \in SUBSET {x \in Copy : m_axis_tvalid[x] /\ Len(fifo[x]) < Depth} :
     \E taking \in SUBSET {x \in Copy : MayTake(x)} :
     \E finishing \in SUBSET {x \in Copy : writing[x] /\ Len(stored[x]) = num_elements[x]} :
       FsmEdge(tready) /\ SinkEdge(tready, taking, finishing)
  /\ ProducerEdge
  /\ rst_busy' \in SUBSET rst_busy

Next == Edge
Spec == Init /\ [][Next]_vars

(* Fairness: the clock, the FIFOs, the writers, and update_tableau as long as *)
(* it is not stopped.                                                         *)
Fairness ==
  /\ WF_vars(Next)
  /\ []<>(rst_busy = {})
  /\ []<>(offered \/ ~Outstanding \/ aborted)
  /\ \A x \in Copy :
       /\ []<>(~m_axis_tvalid[x] \/ Len(fifo[x]) = Depth)
       /\ []<>(~MayTake(x))
       /\ []<>(~writing[x] \/ Len(stored[x]) # num_elements[x])
FairSpec == Spec /\ Fairness

-----------------------------------------------------------------------------

\* What has been handed to a copy's FIFO of the tableau under way; its writer
\* starts its job with the first result.
Delivered(x) == stored[x] \o fifo[x]
Begun(x) == writing[x] \/ word.place > 0

\* For a tableau that found everything at rest, each copy is an unbroken run of
\* the results that belong there, each once and in order, however the three FIFOs
\* fill and stall; what one writer takes at a start is never of the tableau before.
CopiesInOrder ==
  clean => \A x \in Copy :
    Begun(x) => IsPrefix(Delivered(x), Expected(x, word.tableau))

\* A tableau that found everything at rest, and is not stopped, comes to be stored
\* in all three places with everything at rest again, unless the next one begins
\* before the side writers are done: the control unit waits for the writer to DDR
\* alone.
AllStored == \A x \in Copy : stored[x] = Expected(x, word.tableau)
TableauStored == (clean /\ offered) ~> ((AllStored /\ AtRest) \/ aborted \/ ~clean)
=============================================================================
