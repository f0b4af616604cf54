----------------------------- MODULE StreamCopy -----------------------------
(***************************************************************************)
(* What a mover of words promises: it is given a number of words, hands    *)
(* them on one at a time, each exactly once and in the order of their      *)
(* addresses, and comes to rest when the last one has gone.                *)
(***************************************************************************)
EXTENDS Integers

CONSTANTS
  Base,     \* address of the first word
  Stride    \* from one word to the next

VARIABLES
  active,   \* a job is under way
  need,     \* words in the job under way, 0 when there is none
  sent,     \* words handed on since the job began
  last      \* the word handed on last

vars == <<active, need, sent, last>>

Word(i) == Base + Stride * i

Init == ~active /\ need = 0 /\ sent = 0 /\ last = Base

Begin ==
  /\ ~active
  /\ active' = TRUE
  /\ need' \in Nat \ {0}
  /\ sent' = 0
  /\ UNCHANGED last

Deliver ==
  /\ active
  /\ sent < need
  /\ last' = Word(sent)
  /\ sent' = sent + 1
  /\ UNCHANGED <<active, need>>

Finish ==
  /\ active
  /\ sent = need
  /\ active' = FALSE
  /\ need' = 0
  /\ UNCHANGED <<sent, last>>

Next == Begin \/ Deliver \/ Finish

Spec == Init /\ [][Next]_vars
=============================================================================
