-------------------------- MODULE LPPhases_proofs --------------------------
(***************************************************************************)
(* Proofs about the control unit and its blocks, for every tableau size,   *)
(* address and number of problems.                                         *)
(***************************************************************************)
EXTENDS LPPhases, TLAPS

-----------------------------------------------------------------------------
(* The inductive invariant: what holds however the writer is doing, and what *)
(* holds as long as it is in step with the updates.                          *)

\* A block at work shows neither latch; a latch says one thing only, except
\* for update_tableau, whose pipeline can fail after it said "continue".
LatchesAgree ==
  \A b \in Block :
    /\ running[b] => ~cont[b] /\ ~terminate[b]
    /\ b # "update_tableau" => ~(cont[b] /\ terminate[b])

\* A start line is low exactly in the TRANSIENT state of its block and, for
\* the blocks with two-cycle pulses, in the first cycle after it, when the
\* block has just been reset.
StartLines ==
  \A b \in Block :
    /\ state = Transient[b] => ~start[b]
    /\ ~start[b] =>
         /\ state \in {Transient[b], Waiting[b]}
         /\ reset_edges[b] = IF state = Transient[b] THEN 0 ELSE 1
         /\ state = Waiting[b] => running[b] /\ b # "find_pivot_col"

\* update_tableau is fed and told to be busy from its TRANSIENT state on.
UpdateLines ==
  /\ fifo_start["update_tableau"] <=> state = "UPDATE_TABLEAU_TRANSIENT"
  /\ state = "UPDATE_TABLEAU_TRANSIENT" => update_tableau_busy
  /\ state = "UPDATE_TABLEAU_WRITEBACK" /\ ~cont["update_tableau"] => update_tableau_busy

\* A block that was passed in this round said "continue": it is at rest, and
\* does not show terminate.
AtRest(b) == ~running[b] /\ ~terminate[b]
PassedBlocks ==
  /\ state \in {"PIVOT_ROW_TRANSIENT", "PIVOT_ROW_CONTINUE"}
       => AtRest("find_pivot_col")
  /\ state \in {"UPDATE_PIVOT_ROW_TRANSIENT", "UPDATE_PIVOT_ROW_CONTINUE"}
       => AtRest("find_pivot_col") /\ AtRest("choose_pivot_row")
  /\ state \in {"UPDATE_TABLEAU_TRANSIENT", "UPDATE_TABLEAU_WRITEBACK"}
       => /\ AtRest("find_pivot_col") /\ AtRest("choose_pivot_row")
          /\ AtRest("update_pivot_row")

\* A block still at work when its phase is over was left so by a late flag of
\* update_tableau, whose latch then stays; update_tableau itself lacks its busy
\* line.
Leftovers ==
  \A b \in Block : running[b] /\ state \notin {Transient[b], Waiting[b]} =>
    IF b = "update_tableau" THEN ~update_tableau_busy
    ELSE terminate["update_tableau"] /\ start["update_tableau"]

\* A terminate of another block than the one waited for is an old one, and in
\* the writeback phase a new one is acted upon at once.
TerminatesSeen ==
  /\ \A b \in Block \ {"update_tableau"} :
       terminate[b] /\ state # Waiting[b] => previous_terminate
  /\ state = "UPDATE_TABLEAU_WRITEBACK" /\ terminate["update_tableau"]
       => ~previous_terminate

\* Between problems no terminate is new, and none can become so.
NoneInStart ==
  state = "START" => ~TerminateEdge /\ (AnyTerminate \/ ~cont["update_tableau"])

\* As long as the writer is in step: a block computes only in its phase; the
\* writer holds words of the update that is waited for or of one that ended the
\* problem before, whose latch stays until the next update; and done follows
\* the last element.
InStep ==
  /\ \A b \in Block : running[b] => state = Waiting[b]
  /\ owed <=> writing
  /\ ddr_writeback_done => ~writing /\ cont["update_tableau"]
  /\ writing /\ state # "UPDATE_TABLEAU_WRITEBACK" => terminate["update_tableau"]
  /\ terminate["update_tableau"] /\ state # "UPDATE_TABLEAU_WRITEBACK" => previous_terminate

IInv ==
  /\ TypeOK
  /\ LatchesAgree
  /\ StartLines
  /\ UpdateLines
  /\ PassedBlocks
  /\ Leftovers
  /\ TerminatesSeen
  /\ NoneInStart
  /\ PulseLengths
  /\ ~astray => InStep

-----------------------------------------------------------------------------

USE DEF Block

\* The states that go with each block, spelled out.
LEMMA StatesOfBlocks ==
  /\ Transient["find_pivot_col"] = "PIVOT_COL_TRANSIENT"
  /\ Transient["choose_pivot_row"] = "PIVOT_ROW_TRANSIENT"
  /\ Transient["update_pivot_row"] = "UPDATE_PIVOT_ROW_TRANSIENT"
  /\ Transient["update_tableau"] = "UPDATE_TABLEAU_TRANSIENT"
  /\ Waiting["find_pivot_col"] = "PIVOT_COL_CONTINUE"
  /\ Waiting["choose_pivot_row"] = "PIVOT_ROW_CONTINUE"
  /\ Waiting["update_pivot_row"] = "UPDATE_PIVOT_ROW_CONTINUE"
  /\ Waiting["update_tableau"] = "UPDATE_TABLEAU_WRITEBACK"
BY DEF Transient, Waiting

LEMMA StateSet ==
  State = {"START", "PIVOT_COL_TRANSIENT", "PIVOT_COL_CONTINUE", "PIVOT_ROW_TRANSIENT",
           "PIVOT_ROW_CONTINUE", "UPDATE_PIVOT_ROW_TRANSIENT", "UPDATE_PIVOT_ROW_CONTINUE",
           "UPDATE_TABLEAU_TRANSIENT", "UPDATE_TABLEAU_WRITEBACK"}
<1>1. \A t : (\E b \in Block : t = Transient[b])
               <=> t \in {Transient["find_pivot_col"], Transient["choose_pivot_row"],
                         Transient["update_pivot_row"], Transient["update_tableau"]}
  OBVIOUS
<1>2. \A t : (\E b \in Block : t = Waiting[b])
               <=> t \in {Waiting["find_pivot_col"], Waiting["choose_pivot_row"],
                         Waiting["update_pivot_row"], Waiting["update_tableau"]}
  OBVIOUS
<1>3. QED  BY <1>1, <1>2, StatesOfBlocks DEF State

LEMMA InitIInv == Init => IInv
<1> SUFFICES ASSUME Init PROVE IInv
  OBVIOUS
<1> USE StatesOfBlocks DEF Init, ControlInit
<1>1. ControlTypeOK
  <2>1. start \in [Block -> BOOLEAN] /\ fifo_start \in [Block -> BOOLEAN]
    OBVIOUS
  <2>2. 0 \in 0..AddrSpace-1 /\ 0 \in 0..NumRows
    BY ONLY TableauAssumption, AddressAssumption
  <2>3. QED  BY <2>1, <2>2, StateSet DEF ControlTypeOK
<1>2. TypeOK
  <2>1. 0 \in 0..NumCols-1 /\ 0 \in 0..NumRows-2 /\ 0 \in 0..MaxStarts
    BY ONLY TableauAssumption, MaxStartsAssumption
  <2>2. reset_edges \in [Block -> 0..2]
    OBVIOUS
  <2>3. /\ cont \in [Block -> BOOLEAN] /\ terminate \in [Block -> BOOLEAN]
        /\ running \in [Block -> BOOLEAN] /\ fed \in [Block -> BOOLEAN]
    OBVIOUS
  <2>4. QED  BY <1>1, <2>1, <2>2, <2>3 DEF TypeOK
<1>3. \A b \in Block : start[b] /\ ~running[b] /\ reset_edges[b] = 0 /\ ~cont[b] /\ ~terminate[b]
  OBVIOUS
<1>4. PulseLengths /\ LatchesAgree /\ StartLines
  BY <1>3 DEF PulseLengths, LatchesAgree, StartLines
<1>5. UpdateLines /\ PassedBlocks /\ Leftovers /\ TerminatesSeen
  BY <1>3 DEF UpdateLines, PassedBlocks, Leftovers, TerminatesSeen
<1>6. NoneInStart /\ InStep
  BY <1>3 DEF NoneInStart, InStep, TerminateEdge, AnyTerminate
<1>7. QED  BY <1>2, <1>4, <1>5, <1>6 DEF IInv

\* An address is reduced to the address space.
LEMMA WordsInRange ==
  ASSUME NEW base \in Int, NEW n \in Int
  PROVE  WordsAfter(base, n) \in 0..AddrSpace-1
BY AddressAssumption DEF WordsAfter, Addr

\* The control registers keep their types.
LEMMA ControlTypeStep ==
  ASSUME TypeOK, ControlEdge
  PROVE  ControlTypeOK'
<1> USE TableauAssumption, AddressAssumption, StatesOfBlocks, StateSet DEF TypeOK, ControlTypeOK, dones
<1>0. previous_terminate' \in BOOLEAN
  BY DEF ControlEdge, AnyTerminate
<1>1. CASE TerminateLP
  <2>1. start' \in [Block -> BOOLEAN] /\ fifo_start' \in [Block -> BOOLEAN]
    BY <1>1 DEF TerminateLP, reset_signals
  <2>2. /\ state' \in State /\ mblaze_done' \in BOOLEAN /\ mblz_done' \in BOOLEAN
        /\ update_tableau_busy' \in BOOLEAN
    BY <1>1 DEF TerminateLP, reset_signals
  <2>3. /\ skip_first_row_addr' \in 0..AddrSpace-1 /\ pivot_row_addr' \in 0..AddrSpace-1
        /\ pivot_col_addr' \in 0..AddrSpace-1 /\ pivot_col_addr_skip_OR' \in 0..AddrSpace-1
        /\ update_tableau_pivot_row_index' \in 0..NumRows
    BY <1>1 DEF TerminateLP, reset_signals
  <2>4. QED  BY <1>0, <2>1, <2>2, <2>3
<1>2. CASE Idle
  <2>1. start' \in [Block -> BOOLEAN] /\ fifo_start' \in [Block -> BOOLEAN]
    BY <1>2 DEF Idle, addresses
  <2>2. QED  BY <1>0, <1>2, <2>1 DEF Idle, addresses
<1>3. CASE BridgeStart
  <2>1. start' \in [Block -> BOOLEAN] /\ fifo_start' \in [Block -> BOOLEAN]
    BY <1>3 DEF BridgeStart
  <2>2. skip_first_row_addr' \in 0..AddrSpace-1
    BY <1>3, WordsInRange DEF BridgeStart
  <2>3. QED  BY <1>0, <1>3, <2>1, <2>2 DEF BridgeStart
<1>4. CASE PivotColTransient
  <2>1. start' \in [Block -> BOOLEAN] /\ fifo_start' \in [Block -> BOOLEAN]
    BY <1>4 DEF PivotColTransient, addresses
  <2>2. QED  BY <1>0, <1>4, <2>1 DEF PivotColTransient, addresses
<1>5. CASE PivotColContinue
  <2>1. start' \in [Block -> BOOLEAN] /\ fifo_start' \in [Block -> BOOLEAN]
    BY <1>5 DEF PivotColContinue
  <2>2. pivot_col_addr' \in 0..AddrSpace-1 /\ pivot_col_addr_skip_OR' \in 0..AddrSpace-1
    BY <1>5, WordsInRange DEF PivotColContinue
  <2>3. QED  BY <1>0, <1>5, <2>1, <2>2 DEF PivotColContinue
<1>6. CASE \E b \in Block \ {"find_pivot_col"} : TransientOf(b)
  <2>1. start' \in [Block -> BOOLEAN] /\ fifo_start' \in [Block -> BOOLEAN]
    BY <1>6 DEF TransientOf, addresses
  <2>2. state' \in State
    BY <1>6 DEF TransientOf
  <2>3. QED  BY <1>0, <1>6, <2>1, <2>2 DEF TransientOf, addresses
<1>7. CASE PivotRowContinue
  <2>1. start' \in [Block -> BOOLEAN] /\ fifo_start' \in [Block -> BOOLEAN]
    BY <1>7 DEF PivotRowContinue
  <2>2. pivot_row_addr' \in 0..AddrSpace-1
    BY <1>7, WordsInRange DEF PivotRowContinue
  <2>3. update_tableau_pivot_row_index' \in 0..NumRows /\ state' \in State
    BY <1>7 DEF PivotRowContinue
  <2>4. QED  BY <1>0, <1>7, <2>1, <2>2, <2>3 DEF PivotRowContinue
<1>8. CASE UpdatePivotRowContinue
  <2>1. start' \in [Block -> BOOLEAN] /\ fifo_start' \in [Block -> BOOLEAN]
    BY <1>8 DEF UpdatePivotRowContinue, addresses
  <2>2. QED  BY <1>0, <1>8, <2>1 DEF UpdatePivotRowContinue, addresses
<1>9. CASE UpdateTableauWriteback
  <2>1. start' \in [Block -> BOOLEAN] /\ fifo_start' \in [Block -> BOOLEAN]
    BY <1>9 DEF UpdateTableauWriteback, addresses
  <2>2. QED  BY <1>0, <1>9, <2>1 DEF UpdateTableauWriteback, addresses
<1>10. CASE \E b \in Block : Wait(b)
  <2>1. start' \in [Block -> BOOLEAN] /\ fifo_start' \in [Block -> BOOLEAN]
    BY <1>10 DEF Wait, addresses
  <2>2. QED  BY <1>0, <1>10, <2>1 DEF Wait, addresses
<1>11. QED
  BY <1>1, <1>2, <1>3, <1>4, <1>5, <1>6, <1>7, <1>8, <1>9, <1>10
     DEF ControlEdge, PivotRowTransient, UpdatePivotRowTransient, UpdateTableauTransient

\* What an edge does to one block, whatever the others do: a low start line
\* resets it, a block at rest keeps its latches (but for a late flag of
\* update_tableau), a block at work either goes on or raises one of them.
LEMMA BlockStep ==
  ASSUME TypeOK, BlockEdge, NEW b \in Block
  PROVE  /\ ~start[b] => ~cont'[b] /\ ~terminate'[b] /\ running'[b]
         /\ reset_edges'[b] = IF start[b] THEN 0 ELSE reset_edges[b] + 1
         /\ start[b] /\ ~running[b] =>
              /\ ~running'[b] /\ (cont'[b] <=> cont[b])
              /\ terminate[b] => terminate'[b]
              /\ terminate'[b] => terminate[b] \/ (b = "update_tableau" /\ MayFlagLate)
         /\ start[b] /\ running[b] /\ running'[b] =>
              /\ cont'[b] <=> cont[b]
              /\ terminate'[b] => terminate[b] \/ (b = "update_tableau" /\ MayFlagLate)
              /\ terminate[b] => terminate'[b]
         /\ start[b] /\ running[b] /\ ~running'[b] =>
              \/ cont'[b] /\ (b # "update_tableau" /\ ~terminate[b] => ~terminate'[b])
              \/ terminate'[b] /\ (cont'[b] <=> cont[b])
<1>1. PICK C \in SUBSET {c \in Block : MayFinish(c)} :
      \E T \in SUBSET {c \in Block : MayFinish(c) \/ (c = "update_tableau" /\ MayFlagLate)} :
        C \intersect T \subseteq {"update_tableau"} /\ Latches(C, T)
  BY DEF BlockEdge
<1>2. PICK T \in SUBSET {c \in Block : MayFinish(c) \/ (c = "update_tableau" /\ MayFlagLate)} :
        C \intersect T \subseteq {"update_tableau"} /\ Latches(C, T)
  BY <1>1
<1>3. /\ cont'[b] <=> start[b] /\ (cont[b] \/ b \in C)
      /\ terminate'[b] <=> start[b] /\ (terminate[b] \/ b \in T)
      /\ running'[b] <=> ~start[b] \/ (running[b] /\ b \notin C \union T)
      /\ reset_edges'[b] = IF start[b] THEN 0 ELSE reset_edges[b] + 1
  BY <1>2 DEF Latches
<1>4. b \in C => start[b] /\ running[b]
  BY DEF MayFinish
<1>5. b \in T => (start[b] /\ running[b]) \/ (b = "update_tableau" /\ MayFlagLate)
  BY DEF MayFinish
<1>6. b \in C /\ b \in T => b = "update_tableau"
  BY <1>2
<1>7. QED  BY <1>3, <1>4, <1>5, <1>6

\* The latches and what the environment keeps have their types.
LEMMA BlockTypeStep ==
  ASSUME TypeOK, BlockEdge
  PROVE  /\ cont' \in [Block -> BOOLEAN]
         /\ terminate' \in [Block -> BOOLEAN]
         /\ running' \in [Block -> BOOLEAN]
         /\ fed' \in [Block -> BOOLEAN]
         /\ pivot_col_idx' \in 0..NumCols-1
         /\ pivot_row_idx' \in 0..NumRows-2
<1>1. PICK C, T : Latches(C, T) /\ Indices(C)
  BY DEF BlockEdge
<1>2. QED  BY <1>1, TableauAssumption DEF Latches, Indices, TypeOK

LEMMA TypeStep == IInv /\ Next => TypeOK'
<1> SUFFICES ASSUME IInv, Next PROVE TypeOK'
  OBVIOUS
<1>1. TypeOK /\ StartLines
  BY DEF IInv
<1>2. ControlTypeOK'
  BY <1>1, ControlTypeStep DEF Next
<1>3. reset_edges' \in [Block -> 0..2]
  <2>1. \A b \in Block : reset_edges'[b] \in 0..2
    <3> TAKE b \in Block
    <3>1. reset_edges'[b] = IF start[b] THEN 0 ELSE reset_edges[b] + 1
      BY <1>1, BlockStep DEF Next
    <3>2. ~start[b] => reset_edges[b] \in {0, 1}
      BY <1>1 DEF StartLines
    <3>3. QED  BY <3>1, <3>2
  <2>2. QED  BY <2>1 DEF Next, BlockEdge, Latches
<1>4. bridge_start' \in BOOLEAN
  BY DEF Next, BridgeEdge
<1>5. starts' \in 0..MaxStarts
  BY <1>1, MaxStartsAssumption DEF Next, BridgeEdge, TypeOK
<1>6. /\ ddr_writeback_done' \in BOOLEAN /\ writing' \in BOOLEAN
      /\ astray' \in BOOLEAN /\ owed' \in BOOLEAN
  BY <1>1 DEF Next, WriterEdge, TypeOK, ControlTypeOK
<1>7. accepted' \in Nat /\ reported' \in Nat
  BY <1>1 DEF Next, Count, TypeOK
<1>8. stopped' \in BOOLEAN
  BY <1>1 DEF Next, BlockEdge, StoppedAfter, TypeOK
<1>9. QED
  BY <1>1, <1>2, <1>3, <1>4, <1>5, <1>6, <1>7, <1>8, BlockTypeStep DEF Next, TypeOK

\* The moves of the state machine, with what they do to the start lines.
LEMMA Moves ==
  ASSUME TypeOK, ControlEdge
  PROVE
    \/ TerminateEdge /\ state' = "START" /\ start' = [b \in Block |-> TRUE]
    \/ /\ ~TerminateEdge
       /\ \/ state = "START" /\ state' = "START" /\ ~bridge_start /\ start' = start
          \/ /\ state = "START" /\ bridge_start
             /\ state' = "PIVOT_COL_TRANSIENT"
             /\ start' = [start EXCEPT !["find_pivot_col"] = FALSE]
          \/ /\ state = "PIVOT_COL_TRANSIENT" /\ state' = "PIVOT_COL_CONTINUE"
             /\ start' = [start EXCEPT !["find_pivot_col"] = TRUE]
          \/ \E b \in Block \ {"find_pivot_col"} :
               state = Transient[b] /\ state' = Waiting[b] /\ start' = start
          \/ /\ state = "PIVOT_COL_CONTINUE" /\ cont["find_pivot_col"]
             /\ state' = "PIVOT_ROW_TRANSIENT"
             /\ start' = [start EXCEPT !["choose_pivot_row"] = FALSE]
          \/ /\ state = "PIVOT_ROW_CONTINUE" /\ cont["choose_pivot_row"]
             /\ state' = "UPDATE_PIVOT_ROW_TRANSIENT"
             /\ start' = [start EXCEPT !["choose_pivot_row"] = TRUE, !["update_pivot_row"] = FALSE]
          \/ /\ state = "UPDATE_PIVOT_ROW_CONTINUE" /\ cont["update_pivot_row"]
             /\ state' = "UPDATE_TABLEAU_TRANSIENT"
             /\ start' = [start EXCEPT !["update_pivot_row"] = TRUE, !["update_tableau"] = FALSE]
          \/ /\ state = "UPDATE_TABLEAU_WRITEBACK" /\ cont["update_tableau"] /\ ddr_writeback_done
             /\ state' = "PIVOT_COL_TRANSIENT"
             /\ start' = [start EXCEPT !["update_tableau"] = TRUE, !["find_pivot_col"] = FALSE]
          \/ \E b \in Block :
               /\ state = Waiting[b] /\ state' = state
               /\ start' = [start EXCEPT ![b] = TRUE]
<1> USE StatesOfBlocks
<1>1. CASE TerminateLP
  BY <1>1 DEF TerminateLP, reset_signals
<1>2. CASE Idle
  BY <1>2 DEF Idle
<1>3. CASE BridgeStart
  BY <1>3 DEF BridgeStart
<1>4. CASE PivotColTransient
  BY <1>4 DEF PivotColTransient
<1>5. CASE PivotColContinue
  BY <1>5 DEF PivotColContinue
<1>6. CASE PivotRowContinue
  BY <1>6 DEF PivotRowContinue
<1>7. CASE UpdatePivotRowContinue
  BY <1>7 DEF UpdatePivotRowContinue
<1>8. CASE UpdateTableauWriteback
  BY <1>8 DEF UpdateTableauWriteback
<1>9. CASE PivotRowTransient \/ UpdatePivotRowTransient \/ UpdateTableauTransient
  BY <1>9 DEF PivotRowTransient, UpdatePivotRowTransient, UpdateTableauTransient, TransientOf
<1>10. CASE \E b \in Block : Wait(b)
  BY <1>10 DEF Wait
<1>11. QED
  BY <1>1, <1>2, <1>3, <1>4, <1>5, <1>6, <1>7, <1>8, <1>9, <1>10 DEF ControlEdge

LEMMA StartLinesStep == IInv /\ Next => StartLines'
<1> SUFFICES ASSUME IInv, Next, NEW b \in Block
             PROVE  /\ state' = Transient[b] => ~start'[b]
                    /\ ~start'[b] =>
                         /\ state' \in {Transient[b], Waiting[b]}
                         /\ reset_edges'[b] = IF state' = Transient[b] THEN 0 ELSE 1
                         /\ state' = Waiting[b] => running'[b] /\ b # "find_pivot_col"
  BY DEF StartLines
<1>1. /\ TypeOK /\ start \in [Block -> BOOLEAN]
      /\ \A c \in Block : running[c] => ~cont[c]
      /\ StartLines
  BY DEF IInv, TypeOK, ControlTypeOK, LatchesAgree
<1>2. BlockEdge /\ ControlEdge
  BY DEF Next
<1> USE StatesOfBlocks DEF StartLines
<1>3. QED
  BY <1>1, <1>2, BlockStep, Moves

\* What the steps below use of the invariant and of the step.
LEMMA Facts ==
  ASSUME IInv, Next
  PROVE  /\ TypeOK /\ start \in [Block -> BOOLEAN] /\ BlockEdge /\ ControlEdge
         /\ \A b \in Block : running[b] => ~cont[b] /\ ~terminate[b]
         /\ \A b \in Block : ~start[b] => state = Transient[b] \/ (state = Waiting[b] /\ running[b])
         /\ StartLines /\ StartLines'
         /\ previous_terminate' = AnyTerminate
BY StartLinesStep
   DEF Next, ControlEdge, IInv, TypeOK, ControlTypeOK, LatchesAgree, StartLines

LEMMA LatchesStep == IInv /\ Next => LatchesAgree'
<1> SUFFICES ASSUME IInv, Next, NEW b \in Block
             PROVE  /\ running'[b] => ~cont'[b] /\ ~terminate'[b]
                    /\ b # "update_tableau" => ~(cont'[b] /\ terminate'[b])
  BY DEF LatchesAgree
<1>1. b = "update_tableau" /\ running[b] => ~MayFlagLate
  BY Facts DEF MayFlagLate
<1>2. b # "update_tableau" => ~(cont[b] /\ terminate[b])
  BY DEF IInv, LatchesAgree
<1>3. QED
  BY <1>1, <1>2, Facts, BlockStep

LEMMA UpdateStep == IInv /\ Next => UpdateLines'
<1> SUFFICES ASSUME IInv, Next PROVE UpdateLines'
  OBVIOUS
<1>1. UpdateLines /\ TypeOK
  BY DEF IInv
<1>2. cont["update_tableau"] /\ state = "UPDATE_TABLEAU_WRITEBACK" => cont'["update_tableau"]
  BY Facts, BlockStep, StatesOfBlocks DEF StartLines
<1>3. QED
  BY <1>1, <1>2, Facts, StatesOfBlocks
     DEF ControlEdge, TerminateLP, reset_signals, Idle, BridgeStart, PivotColTransient,
         PivotColContinue, TransientOf, PivotRowTransient, PivotRowContinue,
         UpdatePivotRowTransient, UpdatePivotRowContinue, UpdateTableauTransient,
         UpdateTableauWriteback, Wait, UpdateLines, TypeOK, ControlTypeOK

\* A block that is left because it said "continue" is at rest and does not show
\* terminate; one at rest stays so until its own start.
LEMMA PassedStep == IInv /\ Next => PassedBlocks'
<1> SUFFICES ASSUME IInv, Next PROVE PassedBlocks'
  OBVIOUS
<1>1. /\ PassedBlocks
      /\ \A b \in Block : b # "update_tableau" => ~(cont[b] /\ terminate[b])
  BY DEF IInv, LatchesAgree
<1>2. ASSUME NEW b \in Block, b # "update_tableau", AtRest(b), start[b]
      PROVE  AtRest(b)'
  BY <1>2, Facts, BlockStep DEF AtRest
<1>3. ASSUME NEW b \in Block, b # "update_tableau", cont[b], state = Waiting[b]
      PROVE  AtRest(b)'
  BY <1>1, <1>3, Facts, BlockStep, StatesOfBlocks DEF AtRest
<1>4. \A b \in Block : state \notin {Transient[b], Waiting[b]} => start[b]
  BY Facts
<1>5. QED
  BY <1>1, <1>2, <1>3, <1>4, Facts, Moves, StatesOfBlocks DEF PassedBlocks

\* What makes the state machine act on a terminate: the latch of the block that
\* is waited for, or a late flag of update_tableau.
LEMMA WhoTerminates ==
  ASSUME IInv, Next, TerminateEdge
  PROVE  \/ terminate["update_tableau"]
         \/ \E b \in Block : state = Waiting[b] /\ terminate[b] /\ start[b] /\ ~running[b]
<1>1. PICK b \in Block : terminate[b]
  BY DEF TerminateEdge, AnyTerminate
<1>2. ~previous_terminate
  BY DEF TerminateEdge
<1>3. CASE b # "update_tableau"
  <2>1. state = Waiting[b]
    BY <1>1, <1>2, <1>3 DEF IInv, TerminatesSeen
  <2>2. QED  BY <1>1, <2>1, Facts, StatesOfBlocks
<1>4. QED  BY <1>1, <1>3

LEMMA LeftoversStep == IInv /\ Next => Leftovers'
<1> SUFFICES ASSUME IInv, Next, NEW b \in Block, running'[b],
                    state' \notin {Transient[b], Waiting[b]}
             PROVE  IF b = "update_tableau" THEN ~update_tableau_busy'
                    ELSE terminate'["update_tableau"] /\ start'["update_tableau"]
  BY DEF Leftovers
<1>1. Leftovers /\ PassedBlocks
  BY DEF IInv
<1>2. running[b] \/ ~start[b]
  BY Facts, BlockStep
<1>3. CASE state \in {Transient[b], Waiting[b]}
  <2>1. TerminateEdge
    <3>1. SUFFICES ASSUME ~TerminateEdge PROVE FALSE
      OBVIOUS
    <3>2. state = Waiting[b] => ~cont[b]
      BY <1>2, Facts, StatesOfBlocks
    <3>3. QED  BY <1>3, <3>1, <3>2, Facts, Moves, StatesOfBlocks
  <2>2. CASE b = "update_tableau"
    <3>1. TerminateLP
      BY <2>1, Facts
         DEF ControlEdge, Idle, BridgeStart, PivotColTransient, PivotColContinue, TransientOf,
             PivotRowTransient, PivotRowContinue, UpdatePivotRowTransient,
             UpdatePivotRowContinue, UpdateTableauTransient, UpdateTableauWriteback, Wait
    <3>2. QED  BY <2>2, <3>1 DEF TerminateLP, reset_signals
  <2>3. CASE b # "update_tableau"
    <3>1. start["update_tableau"] /\ start'["update_tableau"]
      BY <1>3, <2>1, <2>3, Facts, Moves, StatesOfBlocks
    <3>2. ~(\E c \in Block : state = Waiting[c] /\ terminate[c] /\ start[c] /\ ~running[c])
          \/ terminate["update_tableau"]
      BY <1>2, <1>3, StatesOfBlocks
    <3>3. terminate["update_tableau"]
      BY <2>1, <3>2, WhoTerminates
    <3>4. terminate'["update_tableau"]
      BY <3>1, <3>3, Facts, BlockStep
    <3>5. QED  BY <2>3, <3>1, <3>4
  <2>4. QED  BY <2>2, <2>3
<1>4. CASE state \notin {Transient[b], Waiting[b]}
  <2>1. running[b]
    BY <1>2, <1>4, Facts
  <2>2. CASE b = "update_tableau"
    <3>1. ~update_tableau_busy /\ state' # "UPDATE_TABLEAU_TRANSIENT"
      BY <1>1, <1>4, <2>1, <2>2, StatesOfBlocks DEF Leftovers
    <3>2. ~update_tableau_busy'
      BY <3>1, Facts, StatesOfBlocks
         DEF ControlEdge, TerminateLP, reset_signals, Idle, BridgeStart, PivotColTransient,
             PivotColContinue, TransientOf, PivotRowTransient, PivotRowContinue,
             UpdatePivotRowTransient, UpdatePivotRowContinue, UpdateTableauTransient,
             UpdateTableauWriteback, Wait
    <3>3. QED  BY <2>2, <3>2
  <2>3. CASE b # "update_tableau"
    <3>1. terminate["update_tableau"] /\ start["update_tableau"]
      BY <1>1, <1>4, <2>1, <2>3 DEF Leftovers
    <3>2. terminate'["update_tableau"]
      BY <3>1, Facts, BlockStep
    <3>3. state' # "UPDATE_TABLEAU_TRANSIENT"
      <4>1. SUFFICES ASSUME state' = "UPDATE_TABLEAU_TRANSIENT" PROVE FALSE
        OBVIOUS
      <4>2. state = "UPDATE_PIVOT_ROW_CONTINUE"
        BY <4>1, Facts, Moves, StatesOfBlocks
      <4>3. AtRest("find_pivot_col") /\ AtRest("choose_pivot_row")
        BY <1>1, <4>2 DEF PassedBlocks
      <4>4. QED  BY <1>4, <2>1, <2>3, <4>2, <4>3, StatesOfBlocks DEF AtRest
    <3>4. start'["update_tableau"]
      BY <3>1, <3>3, Facts, Moves, StatesOfBlocks
    <3>5. QED  BY <2>3, <3>2, <3>4
  <2>4. QED  BY <2>2, <2>3
<1>5. QED  BY <1>3, <1>4

LEMMA TerminatesStep == IInv /\ Next => TerminatesSeen'
<1> SUFFICES ASSUME IInv, Next PROVE TerminatesSeen'
  OBVIOUS
<1>1. PassedBlocks /\ TerminatesSeen /\ Leftovers
  BY DEF IInv
<1>2. ASSUME NEW b \in Block \ {"update_tableau"}, terminate'[b], state' # Waiting[b],
             ~AnyTerminate
      PROVE  FALSE
  <2>1. ~terminate[b] /\ ~TerminateEdge /\ ~terminate["update_tableau"]
    BY <1>2 DEF AnyTerminate, TerminateEdge
  <2>2. running[b] /\ start[b]
    BY <1>2, <2>1, Facts, BlockStep
  <2>3. state = Waiting[b]
    BY <1>1, <2>1, <2>2, Facts DEF Leftovers, StartLines
  <2>4. ~cont[b]
    BY <2>2, Facts
  <2>5. QED  BY <1>2, <2>1, <2>3, <2>4, Facts, Moves, StatesOfBlocks
<1>3. ASSUME state' = "UPDATE_TABLEAU_WRITEBACK", terminate'["update_tableau"], AnyTerminate
      PROVE  FALSE
  <2>1. CASE state = "UPDATE_TABLEAU_WRITEBACK"
    <3>1. terminate["update_tableau"]
      BY <1>1, <1>3, <2>1 DEF PassedBlocks, AtRest, AnyTerminate
    <3>2. TerminateEdge
      BY <1>1, <2>1, <3>1 DEF TerminatesSeen, TerminateEdge, AnyTerminate
    <3>3. QED  BY <1>3, <3>2, Facts, Moves
  <2>2. CASE state = "UPDATE_TABLEAU_TRANSIENT"
    BY <1>3, <2>2, Facts, BlockStep, StatesOfBlocks DEF StartLines
  <2>3. QED  BY <1>3, <2>1, <2>2, Facts, Moves, StatesOfBlocks
<1>4. QED
  BY <1>2, <1>3, Facts, TypeStep DEF TerminatesSeen, TypeOK, ControlTypeOK

LEMMA NoneInStartStep == IInv /\ Next => NoneInStart'
<1> SUFFICES ASSUME IInv, Next, state' = "START"
             PROVE  /\ AnyTerminate' => AnyTerminate
                    /\ AnyTerminate' \/ ~cont'["update_tableau"]
  BY Facts DEF NoneInStart, TerminateEdge
<1>1. NoneInStart /\ Leftovers
  BY DEF IInv
<1>2. CASE TerminateEdge
  <2>1. AnyTerminate
    BY <1>2 DEF TerminateEdge
  <2>2. CASE terminate["update_tableau"] /\ ~start["update_tableau"]
    BY <2>1, <2>2, Facts, BlockStep
  <2>3. CASE terminate["update_tableau"] /\ start["update_tableau"]
    <3>1. terminate'["update_tableau"]
      BY <2>3, Facts, BlockStep
    <3>2. QED  BY <2>1, <3>1 DEF AnyTerminate
  <2>4. CASE ~terminate["update_tableau"]
    <3>1. PICK b \in Block : terminate[b] /\ start[b]
      BY <1>2, <2>4, WhoTerminates
    <3>2. terminate'[b]
      BY <3>1, Facts, BlockStep
    <3>3. QED  BY <2>1, <3>2 DEF AnyTerminate
  <2>5. QED  BY <2>2, <2>3, <2>4
<1>3. CASE ~TerminateEdge
  <2>1. state = "START"
    BY <1>3, Facts, Moves, StatesOfBlocks
  <2>2. \A b \in Block : start[b]
    BY <2>1, Facts, StatesOfBlocks
  <2>3. CASE AnyTerminate
    <3>1. PICK b \in Block : terminate[b]
      BY <2>3 DEF AnyTerminate
    <3>2. terminate'[b]
      BY <2>2, <3>1, Facts, BlockStep
    <3>3. QED  BY <2>3, <3>2 DEF AnyTerminate
  <2>4. CASE ~AnyTerminate
    <3>1. ~cont["update_tableau"] /\ \A b \in Block : ~terminate[b]
      BY <1>1, <2>1, <2>4 DEF NoneInStart, AnyTerminate
    <3>2. \A b \in Block : running[b] => b = "update_tableau" /\ ~update_tableau_busy
      BY <1>1, <2>1, <3>1, StatesOfBlocks DEF Leftovers
    <3>3. \A b \in Block : ~MayFinish(b)
      BY <3>2 DEF MayFinish
    <3>4. ~MayFlagLate
      BY <3>1 DEF MayFlagLate
    <3>5. PICK C \in SUBSET {b \in Block : MayFinish(b)},
               T \in SUBSET {b \in Block : MayFinish(b) \/ (b = "update_tableau" /\ MayFlagLate)} :
            Latches(C, T)
      BY Facts DEF BlockEdge
    <3>6. C = {} /\ T = {}
      BY <3>3, <3>4, <3>5
    <3>7. \A b \in Block : ~terminate'[b] /\ (cont'[b] => cont[b])
      BY <3>1, <3>5, <3>6 DEF Latches
    <3>8. QED  BY <3>1, <3>7 DEF AnyTerminate
  <2>5. QED  BY <2>3, <2>4
<1>4. QED  BY <1>2, <1>3

\* The rest is about a writer that is in step, and was so before.
LEMMA InStepFacts ==
  ASSUME IInv, Next, ~astray
  PROVE  /\ InStep
         /\ \A b \in Block : running[b] => state = Waiting[b] /\ ~cont[b] /\ ~terminate[b]
         /\ TerminateEdge => \E b \in Block : state = Waiting[b] /\ terminate[b] /\ start[b]
         /\ MayFlagLate => state = "UPDATE_TABLEAU_WRITEBACK" /\ ~ddr_writeback_done
<1>1. InStep
  BY DEF IInv
<1>2. ASSUME TerminateEdge
      PROVE  \E b \in Block : state = Waiting[b] /\ terminate[b] /\ start[b]
  <2>1. CASE terminate["update_tableau"]
    <3>1. state = Waiting["update_tableau"]
      BY <1>1, <1>2, <2>1, StatesOfBlocks DEF InStep, TerminateEdge
    <3>2. QED  BY <2>1, <3>1, Facts, StatesOfBlocks
  <2>2. QED  BY <1>2, <2>1, WhoTerminates
<1>3. MayFlagLate => state = "UPDATE_TABLEAU_WRITEBACK" /\ ~ddr_writeback_done
  BY <1>1 DEF MayFlagLate, InStep
<1>4. QED  BY <1>1, <1>2, <1>3, Facts DEF InStep

LEMMA AstrayStays == IInv /\ Next /\ ~astray' => ~astray
BY DEF Next, WriterEdge, IInv, TypeOK

\* A block in reset or at work is not interrupted.
LEMMA Undisturbed ==
  ASSUME IInv, Next, ~astray, NEW b \in Block, ~start[b] \/ running[b]
  PROVE  ~TerminateEdge /\ state \in {Transient[b], Waiting[b]}
<1>1. state \in {Transient[b], Waiting[b]}
  BY Facts, InStepFacts
<1>2. ASSUME NEW c \in Block, state = Waiting[c], terminate[c], start[c]
      PROVE  FALSE
  <2>1. c = b
    BY <1>1, <1>2, StatesOfBlocks
  <2>2. QED  BY <1>2, <2>1, Facts
<1>3. QED  BY <1>1, <1>2, InStepFacts

LEMMA PulseStep == IInv /\ Next => PulseLengths'
<1> SUFFICES ASSUME IInv, Next, ~astray', NEW b \in Block, start'[b], reset_edges'[b] > 0
             PROVE  reset_edges'[b] = IF b = "find_pivot_col" THEN 1 ELSE 2
  BY DEF PulseLengths
<1>1. ~start[b] /\ reset_edges'[b] = reset_edges[b] + 1
  BY Facts, BlockStep
<1>2. /\ state \in {Transient[b], Waiting[b]}
      /\ reset_edges[b] = IF state = Transient[b] THEN 0 ELSE 1
      /\ state = Waiting[b] => running[b] /\ b # "find_pivot_col"
  BY <1>1, Facts DEF StartLines
<1>3. state = Transient[b] => b = "find_pivot_col"
  BY <1>1, Facts, Moves, StatesOfBlocks, AstrayStays, Undisturbed
<1>4. QED
  BY <1>1, <1>2, <1>3, StatesOfBlocks

LEMMA OneBlockStep ==
  ASSUME IInv, Next, ~astray', NEW b \in Block, running'[b]
  PROVE  state' = Waiting[b]
<1>1. running[b] \/ ~start[b]
  BY Facts, BlockStep
<1>2. ~TerminateEdge /\ state \in {Transient[b], Waiting[b]}
  BY <1>1, AstrayStays, Undisturbed
<1>3. state = Waiting[b] => ~cont[b]
  BY <1>1, Facts, StatesOfBlocks
<1>4. QED
  BY <1>2, <1>3, Facts, Moves, StatesOfBlocks

\* What is left for the writer when the update is over belongs to a problem
\* that update_tableau has ended.
LEMMA WriterStep ==
  ASSUME IInv, Next, ~astray', writing', state' # "UPDATE_TABLEAU_WRITEBACK"
  PROVE  terminate'["update_tableau"]
<1>1. /\ WriterEdge /\ PassedBlocks /\ ~astray /\ InStep
      /\ fifo_start["update_tableau"] <=> state = "UPDATE_TABLEAU_TRANSIENT"
  BY AstrayStays, InStepFacts DEF Next, IInv, UpdateLines
<1>2. writing \/ fifo_start["update_tableau"]
  BY <1>1 DEF WriterEdge
<1>3. CASE fifo_start["update_tableau"]
  <2>1. ~start["update_tableau"] /\ state = "UPDATE_TABLEAU_TRANSIENT"
    BY <1>1, <1>3, Facts, StatesOfBlocks DEF StartLines
  <2>2. ~TerminateEdge
    BY <1>1, <2>1, Undisturbed
  <2>3. QED  BY <2>1, <2>2, Facts, Moves, StatesOfBlocks
<1>4. CASE writing /\ state = "UPDATE_TABLEAU_WRITEBACK"
  <2>1. ~ddr_writeback_done
    BY <1>1, <1>4 DEF InStep
  <2>2. TerminateEdge
    BY <1>4, <2>1, Facts, Moves, StatesOfBlocks
  <2>3. terminate["update_tableau"] /\ start["update_tableau"]
    BY <1>1, <1>4, <2>2, InStepFacts, StatesOfBlocks
  <2>4. QED  BY <2>3, Facts, BlockStep
<1>5. CASE writing /\ state # "UPDATE_TABLEAU_WRITEBACK" /\ ~fifo_start["update_tableau"]
  <2>1. terminate["update_tableau"]
    BY <1>1, <1>5 DEF InStep
  <2>2. start["update_tableau"]
    BY <1>1, <1>5, Facts, StatesOfBlocks
  <2>3. QED  BY <2>1, <2>2, Facts, BlockStep
<1>6. QED  BY <1>2, <1>3, <1>4, <1>5

LEMMA InStepStep ==
  ASSUME IInv, Next, ~astray'
  PROVE  InStep'
<1>1. /\ WriterEdge /\ ~astray /\ InStep /\ TypeOK
  BY AstrayStays, InStepFacts, Facts DEF Next
<1>2. owed' <=> writing'
  BY <1>1 DEF WriterEdge, InStep, TypeOK
<1>3. ddr_writeback_done' => ~writing' /\ cont'["update_tableau"]
  BY <1>1 DEF WriterEdge
<1>4. ASSUME terminate'["update_tableau"], state' # "UPDATE_TABLEAU_WRITEBACK"
      PROVE  AnyTerminate
  <2>1. SUFFICES ASSUME ~AnyTerminate PROVE FALSE
    OBVIOUS
  <2>2. ~terminate["update_tableau"] /\ ~TerminateEdge
    BY <2>1 DEF AnyTerminate, TerminateEdge
  <2>3. running["update_tableau"] \/ MayFlagLate
    BY <1>4, <2>2, Facts, BlockStep
  <2>4. CASE running["update_tableau"]
    <3>1. state = "UPDATE_TABLEAU_WRITEBACK" /\ ~cont["update_tableau"]
      BY <1>1, <2>4, InStepFacts, StatesOfBlocks
    <3>2. QED  BY <1>4, <2>2, <3>1, Facts, Moves, StatesOfBlocks
  <2>5. CASE MayFlagLate
    <3>1. state = "UPDATE_TABLEAU_WRITEBACK" /\ ~ddr_writeback_done
      BY <1>1, <2>5, InStepFacts
    <3>2. QED  BY <1>4, <2>2, <3>1, Facts, Moves, StatesOfBlocks
  <2>6. QED  BY <2>3, <2>4, <2>5
<1>5. QED
  BY <1>2, <1>3, <1>4, Facts, OneBlockStep, WriterStep DEF InStep

\* The inductive invariant holds of every reachable state: for any tableau,
\* address space and number of problems.
THEOREM Inductive == Spec => []IInv
<1>1. IInv /\ UNCHANGED vars => IInv'
  BY DEF IInv, vars, outputs, dones, inputs, blocks, history, addresses, TypeOK, ControlTypeOK,
         PulseLengths, LatchesAgree, StartLines, UpdateLines, TerminateEdge, AnyTerminate,
         AtRest, PassedBlocks, Leftovers, TerminatesSeen, NoneInStart, InStep
<1>2. IInv /\ [Next]_vars => IInv'
  BY <1>1, TypeStep, LatchesStep, PulseStep, StartLinesStep, UpdateStep, PassedStep,
     LeftoversStep, TerminatesStep, NoneInStartStep, InStepStep DEF IInv
<1>3. QED  BY InitIInv, <1>2, PTL DEF Spec

-----------------------------------------------------------------------------
(* What the invariant gives.                                                *)

\* The registers of lp_control_unit and the status latches keep their types.
THEOREM TypeCorrect == Spec => []TypeOK
<1>1. IInv => TypeOK
  BY DEF IInv
<1>2. QED  BY <1>1, Inductive, PTL

\* As long as the writer is in step, no two blocks ever compute together, and
\* none computes that the state machine does not wait for.
THEOREM MutualExclusion == Spec => []OneBlockAtATime
<1>1. IInv => OneBlockAtATime
  BY DEF IInv, InStep, OneBlockAtATime
<1>2. QED  BY <1>1, Inductive, PTL

\* The reset pulses of the blocks last as long as their arithmetic cores ask.
THEOREM PulsesLongEnough == Spec => []PulseLengths
<1>1. IInv => PulseLengths
  BY DEF IInv
<1>2. QED  BY <1>1, Inductive, PTL

\* update_tableau keeps its busy line as long as it computes.
THEOREM BusyHeld == Spec => []BusyThroughUpdate
<1>1. IInv => BusyThroughUpdate
  <2> SUFFICES ASSUME IInv, ~astray, running["update_tableau"] PROVE update_tableau_busy
    BY DEF BusyThroughUpdate
  <2>1. state = "UPDATE_TABLEAU_WRITEBACK" /\ ~cont["update_tableau"]
    BY StatesOfBlocks DEF IInv, InStep, LatchesAgree
  <2>2. QED  BY <2>1 DEF IInv, UpdateLines
<1>2. QED  BY <1>1, Inductive, PTL

\* As long as the writer is in step, a round starts on a tableau that is back
\* in DDR in full.
THEOREM StoredBeforeRound == Spec => StoredBeforeNextRound
<1>1. ASSUME IInv, Next, NextRound, ~astray
      PROVE  ~owed
  <2>1. ~TerminateEdge
    BY <1>1, Facts, Moves, StatesOfBlocks DEF NextRound
  <2>2. ddr_writeback_done
    BY <1>1, <2>1, Facts, Moves, StatesOfBlocks DEF NextRound
  <2>3. QED  BY <1>1, <2>2, InStepFacts DEF InStep
<1>2. IInv /\ [Next]_vars => [NextRound /\ ~astray => ~owed]_vars
  BY <1>1
<1>3. QED  BY <1>2, Inductive, PTL DEF Spec, StoredBeforeNextRound

\* However the writer is doing: a terminate is acted upon once for every problem
\* taken on, and never between problems.
THEOREM OneReportEach == Spec => []ReportedOnce
<1>1. Init => ReportedOnce
  BY DEF Init, ControlInit, ReportedOnce
<1>2. IInv /\ ReportedOnce /\ Next => ReportedOnce'
  <2> SUFFICES ASSUME IInv, ReportedOnce, Next PROVE ReportedOnce'
    OBVIOUS
  <2>1. Count /\ accepted \in Nat /\ reported \in Nat
    BY DEF Next, IInv, TypeOK
  <2>2. TerminateEdge => state # "START" /\ state' = "START"
    BY Facts, Moves DEF IInv, NoneInStart
  <2>3. ~TerminateEdge /\ state # "START" => state' # "START"
    BY Facts, Moves, StatesOfBlocks
  <2>4. QED  BY <2>1, <2>2, <2>3 DEF Count, ReportedOnce
<1>3. ReportedOnce /\ UNCHANGED vars => ReportedOnce'
  BY DEF ReportedOnce, vars, history
<1>4. IInv /\ ReportedOnce /\ [Next]_vars => ReportedOnce'
  BY <1>2, <1>3
<1>5. QED  BY <1>1, <1>4, Inductive, PTL DEF Spec

-----------------------------------------------------------------------------
(* The addresses of the pivot.                                              *)

\* A number is divided in one way only.
LEMMA DivisionUnique ==
  ASSUME NEW q \in Int, NEW r \in 0..AddrSpace-1, NEW p \in Int, NEW s \in 0..AddrSpace-1,
         AddrSpace * q + r = AddrSpace * p + s
  PROVE  r = s
<1>1. ASSUME NEW a \in Int, NEW b \in Int, a < b
      PROVE  AddrSpace * a + AddrSpace <= AddrSpace * b
  <2>1. AddrSpace * (a + 1) <= AddrSpace * b
    BY <1>1, AddressAssumption
  <2>2. AddrSpace * (a + 1) = AddrSpace * a + AddrSpace
    BY AddressAssumption
  <2> QED
    BY <2>1, <2>2
<1>2. AddrSpace * q \in Int /\ AddrSpace * p \in Int
  BY AddressAssumption
<1>3. CASE q < p
  BY <1>1, <1>2, <1>3, AddressAssumption
<1>4. CASE p < q
  BY <1>1, <1>2, <1>4, AddressAssumption
<1>5. CASE q = p
  BY <1>2, <1>5, AddressAssumption
<1> QED
  BY <1>3, <1>4, <1>5

LEMMA DivisionOf ==
  ASSUME NEW z \in Int
  PROVE  /\ z \div AddrSpace \in Int /\ z % AddrSpace \in 0..AddrSpace-1
         /\ z = AddrSpace * (z \div AddrSpace) + (z % AddrSpace)
BY AddressAssumption

\* It does not matter where in a sum an address wraps around.
LEMMA WrapLate ==
  ASSUME NEW x \in Int, NEW y \in Int
  PROVE  Addr(Addr(x) + y) = Addr(x + y)
<1> DEFINE r == x % AddrSpace
           q == x \div AddrSpace
           s == (r + y) % AddrSpace
           p == (r + y) \div AddrSpace
           u == (x + y) % AddrSpace
           v == (x + y) \div AddrSpace
<1>1. q \in Int /\ r \in 0..AddrSpace-1 /\ x = (AddrSpace * q) + r
  BY AddressAssumption
<1>2. r + y \in Int
  BY <1>1, AddressAssumption
<1>3. p \in Int /\ s \in 0..AddrSpace-1 /\ r + y = (AddrSpace * p) + s
  BY <1>2, DivisionOf
<1>4. v \in Int /\ u \in 0..AddrSpace-1 /\ x + y = (AddrSpace * v) + u
  BY AddressAssumption
<1> HIDE DEF r, q, s, p, u, v
<1>5. AddrSpace * (q + p) + s = AddrSpace * v + u
  <2>1. AddrSpace * (q + p) = AddrSpace * q + AddrSpace * p
    BY <1>1, <1>3, AddressAssumption
  <2>2. AddrSpace * q \in Int /\ AddrSpace * p \in Int /\ AddrSpace * v \in Int
    BY <1>1, <1>3, <1>4, AddressAssumption
  <2> QED
    BY <2>1, <2>2, <1>1, <1>3, <1>4, AddressAssumption
<1>6. q + p \in Int
  BY <1>1, <1>3
<1>7. s = u
  BY <1>3, <1>4, <1>5, <1>6, DivisionUnique
<1> QED
  BY <1>7 DEF Addr, r, s, u

LEMMA WordsAdd ==
  ASSUME NEW base \in Int, NEW m \in Int, NEW n \in Int
  PROVE  WordsAfter(WordsAfter(base, m), n) = WordsAfter(base, m + n)
<1>1. base + 4 * m \in Int /\ 4 * n \in Int /\ base + 4 * m + 4 * n = base + 4 * (m + n)
  OBVIOUS
<1>2. Addr(Addr(base + 4 * m) + 4 * n) = Addr(base + 4 * m + 4 * n)
  BY <1>1, WrapLate, Zenon
<1> QED
  BY <1>1, <1>2 DEF WordsAfter

\* The address below the objective row, from which the others are counted.
SkipsFirstRow == state # "START" => skip_first_row_addr = WordsAfter(DdrStart, NumCols)

\* The pivot column's addresses, reached by two ways round the tableau.
LEMMA ColumnAddresses ==
  ASSUME TypeOK, SkipsFirstRow, state # "START"
  PROVE  WordsAfter(skip_first_row_addr, pivot_col_idx)
           = WordsAfter(WordsAfter(DdrStart, pivot_col_idx), NumCols)
<1>1. DdrStart \in Int /\ NumCols \in Int /\ pivot_col_idx \in Int
  BY AddressAssumption, TableauAssumption DEF TypeOK
<1>2. WordsAfter(WordsAfter(DdrStart, NumCols), pivot_col_idx) = WordsAfter(DdrStart, NumCols + pivot_col_idx)
  BY <1>1, WordsAdd, Zenon
<1>3. WordsAfter(WordsAfter(DdrStart, pivot_col_idx), NumCols) = WordsAfter(DdrStart, pivot_col_idx + NumCols)
  BY <1>1, WordsAdd, Zenon
<1>4. NumCols + pivot_col_idx = pivot_col_idx + NumCols
  BY <1>1
<1> QED
  BY <1>2, <1>3, <1>4, Zenon DEF SkipsFirstRow

\* Row i below the objective row is row i + 1 of the tableau.
LEMMA RowAddress ==
  ASSUME TypeOK, SkipsFirstRow, state # "START", NEW i, i = pivot_row_idx + 2
  PROVE  WordsAfter(skip_first_row_addr, pivot_row_idx * NumCols)
           = WordsAfter(DdrStart, (i - 1) * NumCols)
<1>1. /\ DdrStart \in Int /\ NumCols \in Int /\ pivot_row_idx \in Int
      /\ pivot_row_idx * NumCols \in Int
  BY AddressAssumption, TableauAssumption DEF TypeOK
<1>2. WordsAfter(WordsAfter(DdrStart, NumCols), pivot_row_idx * NumCols)
        = WordsAfter(DdrStart, NumCols + pivot_row_idx * NumCols)
  BY <1>1, WordsAdd, Zenon
<1>3. NumCols + pivot_row_idx * NumCols = (i - 1) * NumCols
  <2>1. (pivot_row_idx + 1) * NumCols = pivot_row_idx * NumCols + NumCols
    BY <1>1
  <2>2. i - 1 = pivot_row_idx + 1
    BY <1>1
  <2> QED
    BY <2>1, <2>2, <1>1
<1> QED
  BY <1>2, <1>3, Zenon DEF SkipsFirstRow

LEMMA SkipStep == IInv /\ SkipsFirstRow /\ Next => SkipsFirstRow'
<1> SUFFICES ASSUME IInv, SkipsFirstRow, Next, state' # "START"
             PROVE  skip_first_row_addr' = WordsAfter(DdrStart, NumCols)
  BY DEF SkipsFirstRow, WordsAfter, Addr
<1>1. ControlEdge
  BY DEF Next
<1>2. ~TerminateLP /\ ~Idle
  BY DEF TerminateLP, reset_signals, Idle
<1>3. CASE BridgeStart
  BY <1>3 DEF BridgeStart
<1>4. CASE ~BridgeStart
  <2>1. state # "START" /\ skip_first_row_addr' = skip_first_row_addr
    BY <1>1, <1>2, <1>4, StatesOfBlocks
       DEF ControlEdge, PivotColTransient, PivotColContinue, TransientOf, PivotRowTransient,
           PivotRowContinue, UpdatePivotRowTransient, UpdatePivotRowContinue,
           UpdateTableauTransient, UpdateTableauWriteback, Wait, addresses
  <2> QED
    BY <2>1 DEF SkipsFirstRow
<1> QED
  BY <1>3, <1>4

\* The index of the pivot column stands until find_pivot_col is started again.
LEMMA ColumnStands ==
  ASSUME IInv, Next, state # "START", state # "PIVOT_COL_TRANSIENT",
         ~running["find_pivot_col"]
  PROVE  pivot_col_idx' = pivot_col_idx
<1>1. start["find_pivot_col"]
  BY Facts, StatesOfBlocks DEF StartLines
<1>2. PICK C \in SUBSET {b \in Block : MayFinish(b)} : Indices(C)
  BY DEF Next, BlockEdge
<1>3. "find_pivot_col" \notin C
  BY <1>2 DEF MayFinish
<1> QED
  BY <1>1, <1>2, <1>3 DEF Indices

LEMMA PivotStep == IInv /\ SkipsFirstRow /\ PivotAgrees /\ Next => PivotAgrees'
<1> SUFFICES ASSUME IInv, SkipsFirstRow, PivotAgrees, Next PROVE PivotAgrees'
  OBVIOUS
<1> DEFINE RowOn == {"UPDATE_PIVOT_ROW_TRANSIENT", "UPDATE_PIVOT_ROW_CONTINUE",
                     "UPDATE_TABLEAU_TRANSIENT", "UPDATE_TABLEAU_WRITEBACK"}
           ColOn == RowOn \cup {"PIVOT_ROW_TRANSIENT", "PIVOT_ROW_CONTINUE"}
           Columns == /\ pivot_col_addr = WordsAfter(DdrStart, pivot_col_idx)
                      /\ pivot_col_addr_skip_OR = WordsAfter(pivot_col_addr, NumCols)
           Rows == pivot_row_addr
                     = WordsAfter(DdrStart, (update_tableau_pivot_row_index - 1) * NumCols)
<1>1. /\ {Transient[b] : b \in {"choose_pivot_row", "update_pivot_row", "update_tableau"}}
             \union {Waiting[b] : b \in {"choose_pivot_row", "update_pivot_row", "update_tableau"}}
           = ColOn
      /\ {Transient[b] : b \in {"update_pivot_row", "update_tableau"}}
             \union {Waiting[b] : b \in {"update_pivot_row", "update_tableau"}}
           = RowOn
  BY StatesOfBlocks
<1>2. (state \in ColOn => Columns) /\ (state \in RowOn => Rows)
  BY <1>1 DEF PivotAgrees
<1>3. SUFFICES (state' \in ColOn => Columns') /\ (state' \in RowOn => Rows')
  BY <1>1 DEF PivotAgrees
<1>4. TypeOK /\ ControlEdge
  BY Facts
<1>5. ASSUME state \in ColOn
      PROVE  pivot_col_idx' = pivot_col_idx
  BY <1>5, ColumnStands, StatesOfBlocks DEF IInv, PassedBlocks, AtRest
<1>6. CASE PivotColContinue
  <2>1. state = "PIVOT_COL_CONTINUE" /\ cont["find_pivot_col"]
    BY <1>6 DEF PivotColContinue
  <2>2. pivot_col_idx' = pivot_col_idx
    BY <2>1, ColumnStands, Facts
  <2>3. /\ pivot_col_addr_skip_OR' = WordsAfter(skip_first_row_addr, pivot_col_idx)
        /\ pivot_col_addr' = WordsAfter(DdrStart, pivot_col_idx)
        /\ state' = "PIVOT_ROW_TRANSIENT"
    BY <1>6 DEF PivotColContinue
  <2>4. Columns'
    BY <2>1, <2>2, <2>3, <1>4, ColumnAddresses DEF WordsAfter, Addr
  <2> QED
    BY <2>3, <2>4
<1>7. CASE PivotRowContinue
  <2>1. state = "PIVOT_ROW_CONTINUE" /\ state' = "UPDATE_PIVOT_ROW_TRANSIENT"
    BY <1>7 DEF PivotRowContinue
  <2>2. /\ pivot_row_addr' = WordsAfter(skip_first_row_addr, pivot_row_idx * NumCols)
        /\ update_tableau_pivot_row_index' = pivot_row_idx + 2
        /\ UNCHANGED <<pivot_col_addr, pivot_col_addr_skip_OR>>
    BY <1>7 DEF PivotRowContinue
  <2>3. Rows'
    <3>1. pivot_row_addr' = WordsAfter(DdrStart, (update_tableau_pivot_row_index' - 1) * NumCols)
      BY <2>1, <2>2, <1>4, RowAddress
    <3> QED
      BY <3>1, Zenon DEF WordsAfter, Addr
  <2>4. Columns'
    BY <2>1, <2>2, <1>2, <1>5 DEF WordsAfter, Addr
  <2> QED
    BY <2>3, <2>4
<1>8. CASE ~PivotColContinue /\ ~PivotRowContinue
  <2>1. ASSUME state' \in ColOn
        PROVE  /\ state \in ColOn /\ (state' \in RowOn => state \in RowOn)
               /\ UNCHANGED <<pivot_col_addr, pivot_col_addr_skip_OR, pivot_row_addr,
                              update_tableau_pivot_row_index>>
    BY <2>1, <1>4, <1>8, StatesOfBlocks
       DEF ControlEdge, TerminateLP, reset_signals, Idle, BridgeStart, PivotColTransient,
           TransientOf, PivotRowTransient, UpdatePivotRowTransient,
           UpdatePivotRowContinue, UpdateTableauTransient, UpdateTableauWriteback, Wait, addresses
  <2> QED
    BY <2>1, <1>2, <1>5 DEF WordsAfter, Addr
<1> QED
  BY <1>6, <1>7, <1>8

\* For every address and address space, wrapping round or not: the row the
\* divider is fed from is the row in which update_tableau puts it back, and both
\* column addresses are those of the column that was found.
THEOREM OnePivot == Spec => []PivotAgrees
<1>1. Init => SkipsFirstRow /\ PivotAgrees
  BY StatesOfBlocks DEF Init, ControlInit, SkipsFirstRow, PivotAgrees
<1>2. SkipsFirstRow /\ PivotAgrees /\ UNCHANGED vars => SkipsFirstRow' /\ PivotAgrees'
  BY DEF SkipsFirstRow, PivotAgrees, vars, outputs, inputs, addresses, WordsAfter, Addr
<1>3. IInv /\ SkipsFirstRow /\ PivotAgrees /\ [Next]_vars => SkipsFirstRow' /\ PivotAgrees'
  BY <1>2, SkipStep, PivotStep
<1>4. QED  BY <1>1, <1>3, Inductive, PTL DEF Spec

-----------------------------------------------------------------------------
(* The engine implements SimplexLoop.                                       *)

LEMMA PhaseOf ==
  /\ state = "START" => phase = "idle"
  /\ \A b \in Block : state \in {Transient[b], Waiting[b]} => phase = b
<1>1. ASSUME NEW b \in Block, state \in {Transient[b], Waiting[b]}
      PROVE  phase = b
  <2>1. state # "START"
    BY <1>1, StatesOfBlocks
  <2>2. \A c \in Block : state \in {Transient[c], Waiting[c]} => c = b
    BY <1>1, StatesOfBlocks
  <2>3. QED  BY <1>1, <2>1, <2>2 DEF phase
<1>2. QED  BY <1>1 DEF phase

LEMMA PhaseOfNext ==
  /\ state' = "START" => phase' = "idle"
  /\ \A b \in Block : state' \in {Transient[b], Waiting[b]} => phase' = b
<1>1. ASSUME NEW b \in Block, state' \in {Transient[b], Waiting[b]}
      PROVE  phase' = b
  <2>1. state' # "START"
    BY <1>1, StatesOfBlocks
  <2>2. \A c \in Block : state' \in {Transient[c], Waiting[c]} => c = b
    BY <1>1, StatesOfBlocks
  <2>3. QED  BY <1>1, <2>1, <2>2 DEF phase
<1>2. QED  BY <1>1 DEF phase

\* What a block has said is read off its latches only while it is waited for.
LEMMA OutcomeOf ==
  /\ (\A b \in Block : state # Waiting[b]) => outcome = "none"
  /\ \A b \in Block : state = Waiting[b] =>
       outcome = IF terminate[b] THEN "stop" ELSE IF cont[b] THEN "go" ELSE "none"
<1>1. ASSUME NEW b \in Block, state = Waiting[b]
      PROVE  outcome = IF terminate[b] THEN "stop" ELSE IF cont[b] THEN "go" ELSE "none"
  BY <1>1, PhaseOf DEF outcome
<1>2. QED  BY <1>1 DEF outcome

LEMMA OutcomeOfNext ==
  /\ (\A b \in Block : state' # Waiting[b]) => outcome' = "none"
  /\ \A b \in Block : state' = Waiting[b] =>
       outcome' = IF terminate'[b] THEN "stop" ELSE IF cont'[b] THEN "go" ELSE "none"
<1>1. ASSUME NEW b \in Block, state' = Waiting[b]
      PROVE  outcome' = IF terminate'[b] THEN "stop" ELSE IF cont'[b] THEN "go" ELSE "none"
  BY <1>1, PhaseOfNext DEF outcome
<1>2. QED  BY <1>1 DEF outcome

\* As long as the writer stays in step, a step of the engine is a step of the
\* loop, in one of four ways, or none.

LEMMA ReportDoneStep ==
  ASSUME IInv, Next, ~astray', TerminateEdge
  PROVE  Loop!ReportDone
<1>1. state # "START" /\ state' = "START" /\ ~astray
  BY Facts, Moves, AstrayStays DEF IInv, NoneInStart
<1>2. PICK b \in Block : state = Waiting[b] /\ terminate[b]
  BY <1>1, InStepFacts
<1>3. phase = b /\ outcome = "stop" /\ phase' = "idle" /\ outcome' = "none"
  BY <1>1, <1>2, PhaseOf, PhaseOfNext, OutcomeOf, OutcomeOfNext, StatesOfBlocks
<1>4. accepted' = accepted /\ reported' = reported + 1
  BY <1>1 DEF Next, Count
<1>5. QED  BY <1>1, <1>3, <1>4 DEF Loop!ReportDone

LEMMA ReportStep ==
  ASSUME IInv, Next, ~astray', ~TerminateEdge,
         NEW b \in Block, state = Waiting[b], state' = Waiting[b]
  PROVE  Loop!Report \/ Loop!Store \/ UNCHANGED Loop!vars
<1>1. phase = b /\ phase' = b /\ ~astray
  BY PhaseOf, PhaseOfNext, AstrayStays
<1>2. /\ outcome = IF terminate[b] THEN "stop" ELSE IF cont[b] THEN "go" ELSE "none"
      /\ outcome' = IF terminate'[b] THEN "stop" ELSE IF cont'[b] THEN "go" ELSE "none"
  BY OutcomeOf, OutcomeOfNext
<1>3. accepted' = accepted /\ reported' = reported
  BY StatesOfBlocks DEF Next, Count
<1>4. start[b] \/ (~start[b] /\ ~cont[b] /\ ~terminate[b] /\ ~cont'[b] /\ ~terminate'[b])
  BY Facts, BlockStep DEF StartLines
<1>5. b # "update_tableau" => ~(state = "UPDATE_TABLEAU_WRITEBACK") /\ ~(state' = "UPDATE_TABLEAU_WRITEBACK")
  BY StatesOfBlocks
<1>6. ~(state = "UPDATE_TABLEAU_WRITEBACK" /\ ddr_writeback_done)
  <2>1. ddr_writeback_done => cont["update_tableau"]
    BY <1>1, InStepFacts DEF InStep
  <2>2. ~(state = "UPDATE_TABLEAU_WRITEBACK" /\ ddr_writeback_done /\ cont["update_tableau"])
    BY Facts, StatesOfBlocks
       DEF ControlEdge, TerminateLP, Idle, BridgeStart, PivotColTransient, PivotColContinue,
           TransientOf, PivotRowTransient, PivotRowContinue, UpdatePivotRowTransient,
           UpdatePivotRowContinue, UpdateTableauTransient, UpdateTableauWriteback, Wait
  <2>3. QED  BY <2>1, <2>2
<1>7. CASE b # "update_tableau"
  <2>1. cont[b] => cont'[b]
    BY <1>4, Facts, BlockStep
  <2>2. terminate[b] => terminate'[b]
    BY <1>4, Facts, BlockStep
  <2>3. outcome = "go" => outcome' = "go"
    BY <1>2, <1>4, <1>7, <2>1, Facts, BlockStep
  <2>4. outcome = "stop" => outcome' = "stop"
    BY <1>2, <2>2
  <2>5. QED
    BY <1>1, <1>2, <1>3, <1>5, <1>7, <2>3, <2>4 DEF Loop!Report, Loop!vars
<1>8. CASE b = "update_tableau"
  <2>1. ~terminate[b]
    BY <1>8, StatesOfBlocks DEF IInv, TerminatesSeen, TerminateEdge, AnyTerminate
  <2>2. cont[b] => cont'[b]
    BY <1>4, Facts, BlockStep
  <2>3. ddr_writeback_done' => cont'[b] /\ ~terminate'[b]
    BY <1>8, <2>1 DEF Next, WriterEdge, IInv, TypeOK
  <2>4. CASE ddr_writeback_done'
    BY <1>1, <1>2, <1>3, <1>6, <1>8, <2>1, <2>3, <2>4, StatesOfBlocks DEF Loop!Store
  <2>5. CASE ~ddr_writeback_done'
    BY <1>1, <1>2, <1>3, <1>6, <1>8, <2>1, <2>2, <2>5 DEF Loop!Report, Loop!vars
  <2>6. QED  BY <2>4, <2>5
<1>9. QED  BY <1>7, <1>8

LEMMA AdvanceStep ==
  ASSUME IInv, Next, ~astray', ~TerminateEdge,
         NEW b \in Block, NEW c \in Block, c = Loop!NextBlock[b],
         state = Waiting[b], cont[b], state' = Transient[c],
         b = "update_tableau" => ddr_writeback_done
  PROVE  Loop!Advance
<1>1. phase = b /\ phase' = c /\ outcome' = "none" /\ ~astray
  BY PhaseOf, PhaseOfNext, OutcomeOfNext, StatesOfBlocks, AstrayStays
<1>2. ~terminate[b]
  <2>1. CASE b # "update_tableau"
    BY <2>1 DEF IInv, LatchesAgree
  <2>2. CASE b = "update_tableau"
    BY <2>2, StatesOfBlocks DEF IInv, TerminatesSeen, TerminateEdge, AnyTerminate
  <2>3. QED  BY <2>1, <2>2
<1>3. outcome = "go"
  BY <1>2, OutcomeOf
<1>4. accepted' = accepted /\ reported' = reported
  BY StatesOfBlocks DEF Next, Count
<1>5. QED
  BY <1>1, <1>3, <1>4, StatesOfBlocks DEF Loop!Advance

LEMMA LoopStep ==
  ASSUME IInv, Next, ~astray'
  PROVE  \/ Loop!Accept \/ Loop!Report \/ Loop!Store \/ Loop!Advance \/ Loop!ReportDone
         \/ UNCHANGED Loop!vars
<1>1. CASE TerminateEdge
  BY <1>1, ReportDoneStep
<1>2. CASE ~TerminateEdge /\ state = "START" /\ state' = "START"
  <2>1. phase = "idle" /\ phase' = "idle" /\ outcome = "none" /\ outcome' = "none"
    BY <1>2, PhaseOf, PhaseOfNext, OutcomeOf, OutcomeOfNext, StatesOfBlocks
  <2>2. accepted' = accepted /\ reported' = reported
    BY <1>2 DEF Next, Count
  <2>3. QED  BY <1>2, <2>1, <2>2, AstrayStays DEF Loop!vars
<1>3. CASE ~TerminateEdge /\ state = "START" /\ state' = "PIVOT_COL_TRANSIENT"
  <2>1. phase = "idle" /\ phase' = "find_pivot_col" /\ outcome = "none" /\ outcome' = "none"
    BY <1>3, PhaseOf, PhaseOfNext, OutcomeOf, OutcomeOfNext, StatesOfBlocks
  <2>2. accepted' = accepted + 1 /\ reported' = reported
    BY <1>3 DEF Next, Count
  <2>3. QED  BY <1>3, <2>1, <2>2, AstrayStays DEF Loop!Accept
<1>4. ASSUME ~TerminateEdge, NEW b \in Block, state = Transient[b], state' = Waiting[b]
      PROVE  UNCHANGED Loop!vars
  <2>1. phase = b /\ phase' = b /\ outcome = "none"
    BY <1>4, PhaseOf, PhaseOfNext, OutcomeOf, StatesOfBlocks
  <2>2. ~cont'[b] /\ ~terminate'[b]
    BY <1>4, Facts, BlockStep DEF StartLines
  <2>3. outcome' = "none"
    BY <1>4, <2>2, OutcomeOfNext
  <2>4. ~(state' = "UPDATE_TABLEAU_WRITEBACK" /\ ddr_writeback_done')
    BY <1>4, <2>2, StatesOfBlocks DEF Next, WriterEdge
  <2>5. accepted' = accepted /\ reported' = reported
    BY <1>4, StatesOfBlocks DEF Next, Count
  <2>6. QED
    BY <1>4, <2>1, <2>3, <2>4, <2>5, StatesOfBlocks, AstrayStays DEF Loop!vars
<1>5. ASSUME ~TerminateEdge, NEW b \in Block, state = Waiting[b], state' = Waiting[b]
      PROVE  Loop!Report \/ Loop!Store \/ UNCHANGED Loop!vars
  BY <1>5, ReportStep
<1>6. ASSUME ~TerminateEdge, NEW b \in Block, NEW c \in Block, c = Loop!NextBlock[b],
             state = Waiting[b], cont[b], state' = Transient[c],
             b = "update_tableau" => ddr_writeback_done
      PROVE  Loop!Advance
  BY <1>6, AdvanceStep
<1>7. /\ Loop!NextBlock["find_pivot_col"] = "choose_pivot_row"
      /\ Loop!NextBlock["choose_pivot_row"] = "update_pivot_row"
      /\ Loop!NextBlock["update_pivot_row"] = "update_tableau"
      /\ Loop!NextBlock["update_tableau"] = "find_pivot_col"
  BY DEF Loop!NextBlock
<1>8. QED
  BY <1>1, <1>2, <1>3, <1>4, <1>5, <1>6, <1>7, Facts, Moves, StatesOfBlocks

\* The writer gets out of step as an update begins, and at no other time.
LEMMA StrayStep ==
  ASSUME IInv, Next, ~astray, astray'
  PROVE  Loop!Stray
<1>1. state = "UPDATE_TABLEAU_TRANSIENT"
  BY DEF Next, WriterEdge, IInv, UpdateLines
<1>2. phase = "update_tableau" /\ outcome = "none"
  BY <1>1, PhaseOf, OutcomeOf, StatesOfBlocks
<1>3. QED  BY <1>2 DEF Loop!Stray

\* Every step of the engine is a step of the loop or leaves it as it is.
THEOREM Refinement == Spec => ImplementsLoop
<1>1. Init => Loop!Init
  <2> SUFFICES ASSUME Init PROVE Loop!Init
    OBVIOUS
  <2>1. state = "START" /\ accepted = 0 /\ reported = 0 /\ ~astray
    BY DEF Init, ControlInit
  <2>2. phase = "idle" /\ outcome = "none"
    BY <2>1, PhaseOf, OutcomeOf, StatesOfBlocks
  <2>3. QED  BY <2>1, <2>2 DEF Loop!Init
<1>2. ASSUME IInv, Next PROVE Loop!Next \/ UNCHANGED Loop!vars
  <2>1. CASE ~astray'
    BY <1>2, <2>1, LoopStep, AstrayStays DEF Loop!Next
  <2>2. CASE ~astray /\ astray'
    BY <1>2, <2>2, StrayStep DEF Loop!Next
  <2>3. CASE astray /\ astray'
    BY <2>3 DEF Loop!Next, Loop!Unpromised
  <2>4. QED  BY <2>1, <2>2, <2>3
<1>3. UNCHANGED vars => UNCHANGED Loop!vars
  BY DEF vars, inputs, blocks, history, Loop!vars, phase, outcome
<1>4. IInv /\ [Next]_vars => [Loop!Next]_(Loop!vars)
  BY <1>2, <1>3
<1>5. QED
  BY <1>1, <1>4, Inductive, PTL DEF Spec, ImplementsLoop, Loop!Spec
=============================================================================
