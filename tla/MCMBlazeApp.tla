---------------------------- MODULE MCMBlazeApp ----------------------------
(* The constants are numbers: the configuration gives them.  The run also    *)
(* remembers whether the program was stranded, which its state does not tell *)
(* from a state in which the resumption of the transfer was lost.            *)
EXTENDS MBlazeApp

VARIABLE
  stranded   \* history: mblaze_send gave a batch up with nothing on its way

\* No acknowledgement will have the batch tried again.
GivenUp == Sending /\ c_pcb = "live" /\ sender' = "none" /\ unacked' = <<>>

MCInit == Init /\ stranded = FALSE
MCNext == Next /\ stranded' = (stranded \/ GivenUp)
MCSpec == MCInit /\ [][MCNext]_<<vars, stranded>> /\ Fairness

\* Once the engine has answered, the host gets the whole solution and the program
\* comes to rest, unless the connection ends, mblaze_send waits for room, or it is
\* stranded: what is refused while a write is on its way is taken up again by
\* tcp_client_sent, and what is lost by the timer.
SolutionArrives ==
  (engine = "done" /\ conn = "up")
    ~> \/ conn = "over" \/ Waiting \/ stranded
       \/ Len(received) = NumCols + 1 /\ send_state = 0
=============================================================================
