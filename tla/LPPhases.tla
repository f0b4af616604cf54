------------------------------ MODULE LPPhases ------------------------------
(***************************************************************************)
(* The control unit among the blocks it drives.  One step is one rising    *)
(* edge of the clock common to all: every register takes its next value    *)
(* from the present ones.                                                  *)
(*                                                                         *)
(* Of a block only the handshake is kept: its start line (a synchronous    *)
(* reset) clears the two status latches, and some time later, once its     *)
(* reader was started, the block raises one of them.  A latch then stays   *)
(* up until the block's own next start, whatever happens to the others.    *)
(*                                                                         *)
(* The results of update_tableau go through the redirector to the writer   *)
(* that puts them in DDR.  These two count words, they know nothing of the *)
(* control unit: an update that is stopped in the middle leaves them in    *)
(* the middle of a tableau, the next update fills that tableau up, and     *)
(* from then on the jobs of the writer and the updates are out of step     *)
(* (astray).                                                               *)
(***************************************************************************)
EXTENDS LPControlUnit

CONSTANT MaxStarts   \* bound: start pulses the bridge sends in a behaviour

ASSUME MaxStartsAssumption == MaxStarts \in Nat

VARIABLES
  running,     \* the block has left reset and has not raised a latch yet
  fed,         \* the readers of the block were started for this visit
  writing,     \* redirector and writer are in the middle of a tableau
  owed,        \* words of the latest update are not in DDR yet
  astray,      \* an update began while they were
  stopped,     \* a block was stopped in the middle of its operands
  reset_edges, \* history: edges the start line of a block was low in this pulse
  starts,      \* history: pulses the bridge has sent
  accepted,    \* history: pulses that took the control unit out of START
  reported     \* history: edges at which a terminate was acted on

blocks == <<running, fed, writing, owed, astray, stopped, reset_edges>>
history == <<starts, accepted, reported>>
vars == <<state, previous_terminate, outputs, inputs, blocks, history>>

Init ==
  /\ ControlInit
  /\ cont = [b \in Block |-> FALSE]
  /\ terminate = [b \in Block |-> FALSE]
  /\ pivot_col_idx = 0
  /\ pivot_row_idx = 0
  /\ bridge_start = FALSE
  /\ ddr_writeback_done = FALSE
  /\ running = [b \in Block |-> FALSE]
  /\ fed = [b \in Block |-> FALSE]
  /\ writing = FALSE
  /\ owed = FALSE
  /\ astray = FALSE
  /\ stopped = FALSE
  /\ reset_edges = [b \in Block |-> 0]
  /\ starts = 0
  /\ accepted = 0
  /\ reported = 0

-----------------------------------------------------------------------------

\* Blocks whose operands are all there: update_tableau also needs its start
\* input, which the control unit calls busy.
MayFinish(b) ==
  /\ start[b] /\ running[b] /\ fed[b]
  /\ b = "update_tableau" => update_tableau_busy

\* update_tableau says "continue" when its last element enters the arithmetic
\* pipeline: the flags of the elements still in there can raise terminate.
MayFlagLate ==
  /\ start["update_tableau"]
  /\ cont["update_tableau"] /\ ~terminate["update_tableau"]
  /\ owed

\* The status latches, with the blocks in C raising cont and those in T
\* raising terminate at this edge.
Latches(C, T) ==
  /\ cont' = [b \in Block |-> start[b] /\ (cont[b] \/ b \in C)]
  /\ terminate' = [b \in Block |-> start[b] /\ (terminate[b] \/ b \in T)]
  /\ running' = [b \in Block |-> ~start[b] \/ (running[b] /\ b \notin C \union T)]
  /\ fed' = [b \in Block |-> fifo_start[b] \/ (fed[b] /\ b \notin C \union T)]
  /\ reset_edges' = [b \in Block |-> IF start[b] THEN 0 ELSE reset_edges[b] + 1]

\* The indices the blocks hand over are settled when they say "continue".
Indices(C) ==
  /\ IF "find_pivot_col" \in C THEN pivot_col_idx' \in 0..NumCols-1
     ELSE pivot_col_idx' = IF start["find_pivot_col"] THEN pivot_col_idx ELSE 0
  /\ IF "choose_pivot_row" \in C THEN pivot_row_idx' \in 0..NumRows-2
     ELSE pivot_row_idx' = IF start["choose_pivot_row"] THEN pivot_row_idx ELSE 0

\* A terminate for want of a column or a row comes after the last operand, an
\* exception may come before it: words are then left in FIFOs and readers.  Of
\* update_tableau "continue" tells whether the last operand was taken.
StoppedAfter(C, T) ==
  LET ended == {b \in T : running[b]}
  IN  IF "update_tableau" \in ended \ C THEN {TRUE}
      ELSE IF ended = {} THEN {stopped} ELSE {stopped, TRUE}

BlockEdge ==
  \E C \in SUBSET {b \in Block : MayFinish(b)} :
  \E T \in SUBSET {b \in Block : MayFinish(b) \/ (b = "update_tableau" /\ MayFlagLate)} :
    /\ C \intersect T \subseteq {"update_tableau"}
    /\ Latches(C, T)
    /\ Indices(C)
    /\ stopped' \in StoppedAfter(C, T)

\* Redirector and writer begin with the update and are done some time after its
\* last element went in; by then every flag of the pipeline has been seen.  Out
\* of step with the updates, done may come while any word of the update is yet
\* to come, and what is left over begins a job of its own.
WriterEdge ==
  /\ astray' = (astray \/ (writing /\ fifo_start["update_tableau"]))
  /\ \/ /\ writing
        /\ astray' \/ (/\ cont'["update_tableau"]
                       /\ terminate'["update_tableau"] = terminate["update_tableau"])
        /\ ddr_writeback_done' = TRUE
        /\ writing' = FALSE
     \/ /\ ddr_writeback_done' = FALSE
        /\ \/ writing' = (writing \/ fifo_start["update_tableau"])
           \/ astray' /\ writing' = TRUE
  /\ owed' = (fifo_start["update_tableau"] \/ (owed /\ ~(ddr_writeback_done' /\ ~astray')))

\* The bridge pulses whenever the processor writes its start register.
BridgeEdge ==
  \/ /\ bridge_start' = FALSE
     /\ UNCHANGED starts
  \/ /\ starts < MaxStarts
     /\ bridge_start' = TRUE
     /\ starts' = starts + 1

Count ==
  /\ accepted' = IF state = "START" /\ state' # "START" THEN accepted + 1 ELSE accepted
  /\ reported' = IF TerminateEdge THEN reported + 1 ELSE reported

Next == ControlEdge /\ BlockEdge /\ WriterEdge /\ BridgeEdge /\ Count

Spec == Init /\ [][Next]_vars

-----------------------------------------------------------------------------
(* Fairness: the clock runs; a started block whose operands arrive whole     *)
(* raises a latch in the end, and the writer completes a job whose words all *)
(* come.  choose_pivot_row promises no answer: it may stay silent for ever.  *)

BlockReports(b) ==
  /\ Next
  /\ ~stopped
  /\ running[b] /\ ~running'[b]

WriterDone ==
  /\ Next
  /\ ~astray
  /\ ddr_writeback_done'

\* An edge at which nobody answers and nobody asks: the clock makes no one speak up.
OnlyClock ==
  /\ Next
  /\ ~bridge_start' /\ ~ddr_writeback_done'
  /\ writing' = (writing \/ fifo_start["update_tableau"])
  /\ \A b \in Block : start[b] => cont'[b] = cont[b] /\ terminate'[b] = terminate[b]

Fairness ==
  /\ WF_vars(OnlyClock)
  /\ \A b \in Block \ {"choose_pivot_row"} : WF_vars(BlockReports(b))
  /\ WF_vars(WriterDone)

FairSpec == Spec /\ Fairness

-----------------------------------------------------------------------------

\* Registers, latches and histories stay in their ranges.
TypeOK ==
  /\ ControlTypeOK
  /\ cont \in [Block -> BOOLEAN]
  /\ terminate \in [Block -> BOOLEAN]
  /\ pivot_col_idx \in 0..NumCols-1
  /\ pivot_row_idx \in 0..NumRows-2
  /\ bridge_start \in BOOLEAN
  /\ ddr_writeback_done \in BOOLEAN
  /\ running \in [Block -> BOOLEAN]
  /\ fed \in [Block -> BOOLEAN]
  /\ writing \in BOOLEAN
  /\ owed \in BOOLEAN
  /\ astray \in BOOLEAN
  /\ stopped \in BOOLEAN
  /\ reset_edges \in [Block -> 0..2]
  /\ starts \in 0..MaxStarts
  /\ accepted \in Nat
  /\ reported \in Nat

\* A block computes only while the state machine waits for that very block, so
\* no two ever run together and a latch left by an earlier round is never taken
\* for the answer of this one (the TRANSIENT states are there for that).
OneBlockAtATime ==
  ~astray => \A b \in Block : running[b] => state = Waiting[b]

\* Start pulses last as long as the floating-point cores behind them ask: two
\* edges for the blocks that hold one, a single edge for find_pivot_col.
PulseLengths ==
  ~astray => \A b \in Block :
    start[b] /\ reset_edges[b] > 0
      => reset_edges[b] = IF b = "find_pivot_col" THEN 1 ELSE 2

\* For every problem taken on, the branch that reports it done is taken once, at
\* the moment the state machine gives the problem up, and never twice (line 94),
\* though latches stay up and blocks run on when it does.
ReportedOnce ==
  accepted - reported = IF state = "START" THEN 0 ELSE 1

\* update_tableau computes only under its busy line.
BusyThroughUpdate ==
  ~astray /\ running["update_tableau"] => update_tableau_busy

NextRound == state = "UPDATE_TABLEAU_WRITEBACK" /\ state' = "PIVOT_COL_TRANSIENT"

\* The search for the next pivot column never starts over a tableau of which a
\* word is still on its way to DDR, as long as no update began while the writer
\* was in the middle of a tableau.
StoredBeforeNextRound == [][NextRound /\ ~astray => ~owed]_vars

\* The address the pivot row is read from and the row index at which
\* update_tableau puts the normalised row back name the same row, and both
\* column addresses name the same column, until the next round picks another.
PivotAgrees ==
  /\ state \in {Transient[b] : b \in {"choose_pivot_row", "update_pivot_row", "update_tableau"}}
               \union {Waiting[b] : b \in {"choose_pivot_row", "update_pivot_row", "update_tableau"}}
     => /\ pivot_col_addr = WordsAfter(DdrStart, pivot_col_idx)
        /\ pivot_col_addr_skip_OR = WordsAfter(pivot_col_addr, NumCols)
  /\ state \in {Transient[b] : b \in {"update_pivot_row", "update_tableau"}}
               \union {Waiting[b] : b \in {"update_pivot_row", "update_tableau"}}
     => pivot_row_addr
          = WordsAfter(DdrStart, (update_tableau_pivot_row_index - 1) * NumCols)

\* "If any terminate asserted, tell MBLAZE" (line 93): the edge that acts on a
\* terminate raises the port.
TerminateTells == [][TerminateEdge => mblaze_done']_vars

AcceptsStart == state = "START" /\ bridge_start /\ ~TerminateEdge
Loops == []<>(state = "PIVOT_COL_TRANSIENT")
RowNeverChosen == <>[](state = "PIVOT_ROW_CONTINUE")

\* A problem taken on over whole streams is reported in the end, unless pivoting
\* goes on for ever or choose_pivot_row never answers.
StartAnswered ==
  (AcceptsStart /\ ~stopped ~> TerminateEdge) \/ Loops \/ RowNeverChosen

\* The same for a problem that starts with no terminate latch left over by one
\* of the three blocks that the first phase does not clear.
CleanStart ==
  /\ AcceptsStart
  /\ ~stopped /\ ~astray
  /\ \A b \in Block \ {"find_pivot_col"} : ~terminate[b]
CleanStartAnswered == (CleanStart ~> TerminateEdge) \/ Loops \/ RowNeverChosen

-----------------------------------------------------------------------------
(* The engine keeps the promise of SimplexLoop.                             *)

phase ==
  IF state = "START" THEN "idle"
  ELSE CHOOSE b \in Block : state \in {Transient[b], Waiting[b]}

\* Latches count from the edge that ends the TRANSIENT state: before it they
\* may still be those of the round before.
outcome ==
  IF state \notin {Waiting[b] : b \in Block} THEN "none"
  ELSE IF terminate[phase] THEN "stop"
  ELSE IF cont[phase] THEN "go" ELSE "none"

Loop == INSTANCE SimplexLoop WITH
          stored <- state = "UPDATE_TABLEAU_WRITEBACK" /\ ddr_writeback_done,
          intact <- ~astray

\* Each step of the engine is a step of the loop it promises, or none.
ImplementsLoop == Loop!Spec
=============================================================================
