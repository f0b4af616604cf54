----------------------------- MODULE MBlazeApp -----------------------------
(***************************************************************************)
(* main.c: the MicroBlaze program.  It asks the host for the tableau,      *)
(* stores it for the engine, starts the engine, and sends the solution     *)
(* when the engine interrupts.  A callback of lwIP or the interrupt        *)
(* handler is one step, but for mblaze_send, whose loop is a step for each *)
(* batch: while it runs, nothing of lwIP does.  The board, the event loop  *)
(* and the connection are those of MBlazeBoard.                            *)
(*                                                                         *)
(* TCP delivers in order but cuts the bytes into packets as it likes.  An  *)
(* element of the tableau is its place in it, from 0; one of the solution  *)
(* is its column.                                                          *)
(***************************************************************************)
EXTENDS MBlazeBoard, Sequences, SequencesExt

CONSTANTS
  NumRows, NumCols,     \* of the tableau of the host
  BytesPerWord,         \* 4
  MaxPacket,            \* bytes in the longest packet
  SEND_ELEMENT_LIMIT,   \* elements in a batch
  SendQueue,            \* writes that lwIP keeps until they are acknowledged
  SendBuffer            \* elements that lwIP keeps

ASSUME AppAssumption ==
  /\ {NumRows, NumCols, BytesPerWord, MaxPacket} \subseteq Nat \ {0}
  /\ {SEND_ELEMENT_LIMIT, SendQueue, SendBuffer} \subseteq Nat \ {0}

VARIABLES
  \* reception
  r_element_counter, recv_counter, recv_placeholder, num_rows, num_cols,
  ddr, bram_rhs, bram_obj,
  bridge, starts,       \* bridge registers 1 to 6; writes of register 0
  \* sending
  send_state, s_element_counter,
  sender,               \* who is in mblaze_send: none, main, interrupt; or stuck
  \* engine, lwIP and host
  engine,
  arrived,              \* bytes of the host that have arrived
  unacked, received,    \* writes on their way; what the host has
  lost                  \* what is on its way must be sent again

counters == <<r_element_counter, recv_counter, recv_placeholder, num_rows, num_cols>>
memories == <<ddr, bram_rhs, bram_obj>>
start_vars == <<bridge, starts>>
sending == <<send_state, s_element_counter, sender>>
tcp == <<unacked, received, lost>>
app_vars == <<counters, memories, start_vars, sending, engine, arrived, tcp>>
vars == <<board_vars, app_vars>>

Total == NumRows * NumCols

\* What the host sends: rows, columns, and the elements row by row.
HostWord(k) == CASE k = 0 -> NumRows [] k = 1 -> NumCols [] OTHER -> k - 2
Garbage == -1
ByteOf(n) == [word |-> n \div BytesPerWord, byte |-> n % BytesPerWord]
HostBytes == (Total + 2) * BytesPerWord
Ready == -2   \* the request of the board, "READY!"

Init ==
  /\ BoardInit
  /\ r_element_counter = 0 /\ recv_counter = 0 /\ recv_placeholder = <<>>
  /\ num_rows = 0 /\ num_cols = 0
  /\ ddr = <<>> /\ bram_rhs = <<>> /\ bram_obj = <<>>
  /\ bridge = <<>> /\ starts = 0
  /\ send_state = 0 /\ s_element_counter = 0 /\ sender = "none"
  /\ engine = "idle" /\ arrived = 0
  /\ unacked = <<>> /\ received = <<>> /\ lost = FALSE

-----------------------------------------------------------------------------
(* Reception: byte after byte, whatever packets they come in.               *)

\* The word whose bytes have been shifted together, the first to the top.
Shifted(bytes) ==
  IF \A b \in 1..BytesPerWord : bytes[b] = [word |-> bytes[1].word, byte |-> b - 1]
  THEN HostWord(bytes[1].word)
  ELSE Garbage

\* Element r of the reception is the last of a row, or one of the first row.
RowEnd(r, cols) == (r - 1) % cols = 0
FirstRow(r, cols) == r - 2 < cols

StoreElement(m, word) ==
  LET r == m.r_element_counter
      data == r >= 2
  IN  [m EXCEPT
        !.num_rows = IF r = 0 THEN word ELSE @,
        !.num_cols = IF r = 1 THEN word ELSE @,
        !.ddr = Append(@, word),
        !.bram_rhs = IF data /\ RowEnd(r, m.num_cols) THEN Append(@, word) ELSE @,
        !.bram_obj = IF data /\ FirstRow(r, m.num_cols) THEN Append(@, word) ELSE @,
        !.r_element_counter = r + 1]

ReceiveByte(m, byte) ==
  LET bytes == Append(m.recv_placeholder, byte)
  IN  IF (m.recv_counter + 1) % BytesPerWord = 0
      THEN [StoreElement(m, Shifted(bytes)) EXCEPT
              !.recv_placeholder = <<>>, !.recv_counter = 0]
      ELSE [m EXCEPT !.recv_placeholder = bytes, !.recv_counter = @ + 1]

Reception ==
  [r_element_counter |-> r_element_counter, recv_counter |-> recv_counter,
   recv_placeholder |-> recv_placeholder, num_rows |-> num_rows, num_cols |-> num_cols,
   ddr |-> ddr, bram_rhs |-> bram_rhs, bram_obj |-> bram_obj]

\* Mutation: the start is given a word too soon.
Whole_Early(m) == m.r_element_counter = m.num_rows * m.num_cols + 1

Whole(m) == m.r_element_counter = m.num_rows * m.num_cols + 2

\* The parameters go to the bridge before the start bit.
start_LP(rows, cols) ==
  /\ bridge' = [num_rows |-> rows, num_rows_1 |-> rows - 1, num_cols |-> cols,
                num_cols_1 |-> cols - 1, tableau_size |-> rows * cols]
  /\ starts' = starts + 1
  /\ engine' = "running"

\* The reception after n more bytes.
AfterBytes(n) ==
  LET after[i \in 0..n] ==
        IF i = 0 THEN Reception ELSE ReceiveByte(after[i - 1], ByteOf(arrived + i - 1))
  IN  after[n]

\* The words are counted over packets, the start is considered after each.
tcp_client_recv(n) ==
  LET after == AfterBytes(n)
  IN  /\ r_element_counter' = after.r_element_counter
      /\ recv_counter' = after.recv_counter
      /\ recv_placeholder' = after.recv_placeholder
      /\ num_rows' = after.num_rows /\ num_cols' = after.num_cols
      /\ ddr' = after.ddr
      /\ bram_rhs' = after.bram_rhs /\ bram_obj' = after.bram_obj
      /\ IF Whole(after)
         THEN start_LP(after.num_rows, after.num_cols)
         ELSE UNCHANGED <<start_vars, engine>>

\* LP_sender.py sends when it has the request.
HostSends == conn = "up" /\ received # <<>> /\ arrived < HostBytes

Receive ==
  /\ HostSends /\ sender = "none"
  /\ \E n \in 1..MaxPacket :
       /\ arrived + n <= HostBytes
       /\ tcp_client_recv(n)
       /\ arrived' = arrived + n
  /\ Input
  /\ UNCHANGED <<sending, tcp>>

-----------------------------------------------------------------------------
(* The connection.                                                          *)

\* All counters are set back, and the tableau is asked for, unless lwIP refuses
\* the write.
tcp_client_connected ==
  /\ Connected /\ sender = "none"
  /\ r_element_counter' = 0 /\ recv_counter' = 0 /\ recv_placeholder' = <<>>
  /\ num_rows' = 0 /\ num_cols' = 0
  /\ send_state' = 0 /\ s_element_counter' = 0
  /\ unacked' \in {<<>>, <<<<Ready>>>>}
  /\ UNCHANGED <<memories, start_vars, sender, engine, arrived, received, lost>>

ConnectionEnds ==
  /\ sender = "none"
  /\ Refused \/ HostCloses \/ Reset \/ LateLease
  /\ UNCHANGED app_vars

\* Segments, or their acknowledgements, are lost.
Lose ==
  /\ unacked # <<>> /\ ~lost /\ conn = "up"
  /\ lost' = TRUE
  /\ UNCHANGED <<board_vars, counters, memories, start_vars, sending, engine, arrived,
                 unacked, received>>

\* tcp_slowtmr sends again what has not been acknowledged.
Retransmit ==
  /\ SlowTimer /\ sender = "none"
  /\ lost' = (lost /\ TcpSlowTmrFlag = 0)
  /\ UNCHANGED <<counters, memories, start_vars, sending, engine, arrived, unacked, received>>

-----------------------------------------------------------------------------
(* Sending.                                                                 *)

EngineDone ==
  /\ engine = "running"
  /\ engine' = "done"
  /\ UNCHANGED <<board_vars, counters, memories, start_vars, sending, arrived, tcp>>

\* The interrupt comes between two callbacks or in the middle of the loop.
mblaze_send_callback ==
  /\ interrupts /\ "LP done" \in enabled
  /\ engine = "done" /\ sender = "none"
  /\ engine' = "idle"
  /\ s_element_counter' = 0
  /\ send_state' = 1
  /\ sender' = "interrupt"
  /\ UNCHANGED <<board_vars, counters, memories, start_vars, arrived, tcp>>

\* Never 0: mblaze_send is called only with elements left.
BatchSize ==
  IF num_cols - s_element_counter < SEND_ELEMENT_LIMIT
  THEN num_cols - s_element_counter ELSE SEND_ELEMENT_LIMIT
BatchElements == [i \in 1..BatchSize |-> s_element_counter + i - 1]

tcp_sndbuf == SendBuffer - Len(FlattenSeq(unacked))
Room == tcp_sndbuf >= BatchSize

\* In the loop of mblaze_send.
Sending == sender \in {"main", "interrupt"}
send_same ==
  UNCHANGED <<board_vars, counters, memories, start_vars, send_state, engine, arrived,
              received, lost>>

\* The loop that waits for room.  No callback runs in it, so no acknowledgement is
\* taken in that could make room.
Waiting == Sending /\ c_pcb = "live" /\ ~Room

\* A batch is written; when tcp_output then fails, lwIP sends it later.
Enqueue ==
  /\ Sending /\ c_pcb = "live" /\ Room /\ Len(unacked) < SendQueue
  /\ unacked' = Append(unacked, BatchElements)
  /\ s_element_counter' = s_element_counter + BatchSize
  /\ sender' \in IF s_element_counter' = num_cols THEN {"none"} ELSE {"none", sender}
  /\ send_same

\* Mutation: the counter is not set back.
EnqueueFails_NoBackTrack ==
  /\ Sending /\ c_pcb = "live" /\ Room
  /\ s_element_counter' = s_element_counter + BatchSize
  /\ sender' = "none"
  /\ UNCHANGED unacked
  /\ send_same

\* lwIP has no memory for the batch, or keeps too many writes; the counter goes back
\* to where the batch began.  It is tried again in tcp_client_sent, which is called
\* for what is on its way: with nothing on its way, it never is.
EnqueueFails ==
  /\ Sending /\ c_pcb = "live" /\ Room
  /\ sender' = "none"
  /\ UNCHANGED <<s_element_counter, unacked>>
  /\ send_same

\* The connection has ended: what the pointer finds refuses the write, or never
\* shows the room that is waited for.
EnqueueNowhere ==
  /\ Sending /\ c_pcb # "live"
  /\ sender' \in {"none", "stuck"}
  /\ UNCHANGED <<s_element_counter, unacked>>
  /\ send_same

\* Mutation: the rest is left to the next interrupt.
tcp_client_sent_NoResume ==
  /\ send_state' = IF send_state = 1 /\ s_element_counter = num_cols THEN 0 ELSE send_state
  /\ UNCHANGED sender

\* What an acknowledgement sets going.
tcp_client_sent ==
  /\ send_state' = IF send_state = 1 /\ s_element_counter = num_cols THEN 0 ELSE send_state
  /\ sender' = IF send_state' = 1 THEN "main" ELSE "none"

OnItsWay == conn = "up" /\ unacked # <<>> /\ ~lost

Acknowledged ==
  /\ OnItsWay /\ sender = "none"
  /\ \E k \in 1..Len(unacked) :
       /\ received' = received \o FlattenSeq(SubSeq(unacked, 1, k))
       /\ unacked' = SubSeq(unacked, k + 1, Len(unacked))
  /\ tcp_client_sent
  /\ Input
  /\ UNCHANGED <<counters, memories, start_vars, s_element_counter, engine, arrived, lost>>

-----------------------------------------------------------------------------

\* Steps of the board that leave the transfer alone.
MainStep ==
  /\ sender = "none"
  /\ \/ StartFails \/ Start \/ LeaveWait \/ setup_client_conn
     \/ FastTimer \/ ClearFast \/ ClearSlow \/ Input
  /\ UNCHANGED app_vars

Tick ==
  /\ sender \in {"none", "main"}
  /\ xadapter_timer_handler
  /\ UNCHANGED app_vars

Offer == Lease /\ UNCHANGED app_vars

\* main() has returned, or the handler waits for room that never comes.
Halted ==
  /\ main_pc = "returned" \/ sender = "stuck" \/ (sender = "interrupt" /\ Waiting)
  /\ UNCHANGED vars

Next ==
  \/ MainStep \/ Tick \/ Offer
  \/ tcp_client_connected \/ ConnectionEnds \/ Lose \/ Retransmit
  \/ Receive \/ EngineDone \/ mblaze_send_callback
  \/ Enqueue \/ EnqueueFails \/ EnqueueNowhere \/ Acknowledged
  \/ Halted

Spec == Init /\ [][Next]_vars

(* Fairness: the timer ticks; the processor runs, and takes its interrupts;   *)
(* the engine answers; and, where packets are asked for again and again, TCP  *)
(* keeps its promise: what is sent again and again gets through.              *)
Listening == main_pc = "input" /\ sender = "none"
Fairness ==
  /\ WF_vars(Tick) /\ WF_vars(MainStep \/ Retransmit)
  /\ WF_vars(EngineDone) /\ WF_vars(mblaze_send_callback)
  /\ WF_vars(Enqueue \/ EnqueueFails \/ EnqueueNowhere)
  /\ <>[]~Listening \/ <>[]~HostSends \/ []<><<TRUE>>_arrived
  /\ <>[]~Listening \/ <>[]~OnItsWay \/ []<><<TRUE>>_received

-----------------------------------------------------------------------------

\* The engine is started once, with the whole tableau in DDR behind its two
\* sizes, its first row and its last column in their BRAMs, and parameters that
\* agree with it, however TCP has cut the bytes.
StartedWithWhole ==
  /\ starts <= 1
  /\ starts = 1 =>
       /\ ddr = [k \in 1..Total+2 |-> HostWord(k - 1)]
       /\ bram_obj = [c \in 1..NumCols |-> c - 1]
       /\ bram_rhs = [r \in 1..NumRows |-> r * NumCols - 1]
       /\ bridge = [num_rows |-> NumRows, num_rows_1 |-> NumRows - 1, num_cols |-> NumCols,
                    num_cols_1 |-> NumCols - 1, tableau_size |-> Total]

\* What the host has and what is on its way are the request and the elements of
\* the solution up to the counter, each once and in order, whichever writes fail.
SolutionInOrder ==
  starts = 1 =>
    received \o FlattenSeq(unacked) = <<Ready>> \o [i \in 1..s_element_counter |-> i - 1]

\* The board comes to its event loop with an address, though no server of DHCP
\* answers.
ReachesLoop == (main_pc = "dhcp") ~> (main_pc = "fast" /\ ip_addr # "none")

\* Each time the timer has raised its slow flag, lwIP's slow timer is called, though
\* interrupts come at any time: what stops the board is the loop that waits for room,
\* or the use of a connection that has ended.
TimersServed ==
  (TcpSlowTmrFlag = 1) ~> (main_pc = "slow called" \/ sender = "stuck" \/ Waiting)
=============================================================================
