---------------------------- MODULE SimplexLoop ----------------------------
(***************************************************************************)
(* What the LP engine promises, without a clock, start pulses or status    *)
(* latches.  A problem that is accepted runs the four blocks in turn,      *)
(* round and round; each block is done when it says "go" (continue) or     *)
(* "stop" (terminate); the loop moves on only after "go" and, for the      *)
(* last block, after the new tableau is in DDR; "stop" ends the problem    *)
(* and reports it.  All this is promised as long as the writer to DDR is   *)
(* in step with the updates: one that begins while the writer is in the    *)
(* middle of a tableau makes it stray, and nothing is promised after that. *)
(***************************************************************************)
EXTENDS Naturals

VARIABLES
  phase,      \* the block at work, or "idle"
  outcome,    \* what that block has said: "none", "go" or "stop"
  stored,     \* the tableau of this round has been written back
  accepted,   \* number of problems taken on
  reported,   \* number of problems reported done
  intact      \* no update began in the middle of a tableau of the writer

vars == <<phase, outcome, stored, accepted, reported, intact>>

\* The order of the blocks in a round.
NextBlock == [find_pivot_col   |-> "choose_pivot_row",
              choose_pivot_row |-> "update_pivot_row",
              update_pivot_row |-> "update_tableau",
              update_tableau   |-> "find_pivot_col"]

Phase == DOMAIN NextBlock \union {"idle"}

Init ==
  /\ phase = "idle" /\ outcome = "none" /\ stored = FALSE
  /\ accepted = 0 /\ reported = 0
  /\ intact = TRUE

Accept ==
  /\ phase = "idle"
  /\ phase' = "find_pivot_col"
  /\ accepted' = accepted + 1
  /\ UNCHANGED <<outcome, stored, reported, intact>>

\* The block at work reports; update_tableau may still report an error of an
\* element that was in its arithmetic pipeline after it said "go".
Report ==
  /\ phase # "idle"
  /\ outcome # "stop"
  /\ outcome' \in {"go", "stop"}
  /\ outcome = "go" => phase = "update_tableau"
  /\ UNCHANGED <<phase, stored, accepted, reported, intact>>

Store ==
  /\ phase = "update_tableau"
  /\ outcome' = "go"
  /\ stored' = TRUE
  /\ outcome # "stop"
  /\ UNCHANGED <<phase, accepted, reported, intact>>

Advance ==
  /\ phase # "idle"
  /\ outcome = "go"
  /\ phase = "update_tableau" => stored
  /\ phase' = NextBlock[phase]
  /\ outcome' = "none"
  /\ stored' = FALSE
  /\ UNCHANGED <<accepted, reported, intact>>

ReportDone ==
  /\ phase # "idle"
  /\ outcome = "stop"
  /\ phase' = "idle"
  /\ outcome' = "none"
  /\ stored' = FALSE
  /\ reported' = reported + 1
  /\ UNCHANGED <<accepted, intact>>

\* The update begins while the writer is in the middle of a tableau.
Stray ==
  /\ phase = "update_tableau" /\ outcome = "none"
  /\ intact' = FALSE

Unpromised == ~intact /\ ~intact'

Next == (intact /\ (Accept \/ Report \/ Store \/ Advance \/ ReportDone \/ Stray)) \/ Unpromised

Spec == Init /\ [][Next]_vars
=============================================================================
