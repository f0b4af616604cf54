---------------------------- MODULE MBlazeBoard ----------------------------
(***************************************************************************)
(* platform.c, platform_mb.c and the frame of main.c: the board starts,    *)
(* its timer ticks, the event loop serves lwIP, and the one connection to  *)
(* the host comes and goes.  The timer interrupts main() between any two   *)
(* steps.  An operator says only what becomes of the variables of this     *)
(* module; MBlazeApp adds the rest.                                        *)
(*                                                                         *)
(* The build is that of the repository's configuration: MicroBlaze, IPv4.  *)
(* is_connected and the link status are written but never looked at, so    *)
(* only the times at which the link is looked at are kept.                 *)
(***************************************************************************)
EXTENDS Integers

CONSTANTS
  LWIP_DHCP,                  \* the build option
  DHCP_TIMEOUT,               \* half seconds, 24
  DHCP_COARSE_PERIOD,         \* half seconds, 120
  ETH_LINK_DETECT_INTERVAL    \* ticks, of the vendor's header

ASSUME BoardAssumption ==
  /\ LWIP_DHCP \in BOOLEAN
  /\ {DHCP_TIMEOUT, DHCP_COARSE_PERIOD, ETH_LINK_DETECT_INTERVAL} \subseteq Nat \ {0}

VARIABLES
  enabled, interrupts,        \* interrupts of the controller; of the processor
  DetectEthLinkStatus, odd, dhcp_timer, dhcp_timoutcntr,
  TcpFastTmrFlag, TcpSlowTmrFlag,
  main_pc,                         \* where main() is
  ip_addr,                    \* none, leased, or the default
  conn,                       \* none, connecting, up, over
  c_pcb                       \* NULL, live, or freed by lwIP

interrupt_vars == <<enabled, interrupts>>
timer_vars == <<DetectEthLinkStatus, odd, dhcp_timer>>
flags == <<TcpFastTmrFlag, TcpSlowTmrFlag>>
conn_vars == <<conn, c_pcb>>
board_vars ==
  <<interrupt_vars, timer_vars, dhcp_timoutcntr, flags, main_pc, ip_addr, conn_vars>>

BoardInit ==
  /\ enabled = {} /\ interrupts = FALSE
  /\ DetectEthLinkStatus = 0 /\ odd = 1 /\ dhcp_timer = 0
  /\ dhcp_timoutcntr = DHCP_TIMEOUT
  /\ TcpFastTmrFlag = 0 /\ TcpSlowTmrFlag = 0
  /\ main_pc = "start" /\ ip_addr = "none"
  /\ conn = "none" /\ c_pcb = "NULL"

-----------------------------------------------------------------------------
(* The timer, every 250 ms.                                                 *)

Cycled(n, period) == IF n + 1 >= period THEN 0 ELSE n + 1

\* Mutation: the countdown is left out.
EverySecondTick_NoTimeout ==
  /\ TcpSlowTmrFlag' = 1
  /\ dhcp_timer' = IF LWIP_DHCP THEN Cycled(dhcp_timer, DHCP_COARSE_PERIOD) ELSE dhcp_timer
  /\ UNCHANGED dhcp_timoutcntr

\* The countdown goes on below zero, where all values are alike.
EverySecondTick ==
  /\ TcpSlowTmrFlag' = 1
  /\ dhcp_timer' = IF LWIP_DHCP THEN Cycled(dhcp_timer, DHCP_COARSE_PERIOD) ELSE dhcp_timer
  /\ dhcp_timoutcntr' =
       IF LWIP_DHCP /\ dhcp_timoutcntr > 0 THEN dhcp_timoutcntr - 1 ELSE dhcp_timoutcntr

timer_callback ==
  /\ DetectEthLinkStatus' = Cycled(DetectEthLinkStatus, ETH_LINK_DETECT_INTERVAL)
  /\ TcpFastTmrFlag' = 1
  /\ odd' = 1 - odd
  /\ IF odd' = 1 THEN EverySecondTick ELSE UNCHANGED <<TcpSlowTmrFlag, dhcp_timer, dhcp_timoutcntr>>

\* The handler loads the timer again and acknowledges the interrupt.
xadapter_timer_handler ==
  /\ interrupts /\ "timer" \in enabled
  /\ timer_callback
  /\ UNCHANGED <<interrupt_vars, main_pc, ip_addr, conn_vars>>

-----------------------------------------------------------------------------
(* main() up to the event loop.                                             *)

\* The timer runs, and its handler and that of the engine are registered.
platform_setup_timer == {"timer"}
platform_setup_interrupts == platform_setup_timer \cup {"LP done", "ethernet"}
init_platform == enabled' = platform_setup_interrupts

\* The interface cannot be added: main() returns with the interrupts still off.
StartFails ==
  /\ main_pc = "start"
  /\ init_platform
  /\ main_pc' = "returned"
  /\ UNCHANGED <<interrupts, timer_vars, dhcp_timoutcntr, flags, ip_addr, conn_vars>>

Start ==
  /\ main_pc = "start"
  /\ init_platform
  /\ interrupts' = TRUE
  /\ IF LWIP_DHCP
     THEN main_pc' = "dhcp" /\ dhcp_timoutcntr' = DHCP_TIMEOUT /\ UNCHANGED ip_addr
     ELSE main_pc' = "setup" /\ ip_addr' = "default" /\ UNCHANGED dhcp_timoutcntr
  /\ UNCHANGED <<timer_vars, flags, conn_vars>>

\* An offer of the server, which xemacif_input takes in.
Lease ==
  /\ main_pc = "dhcp" /\ ip_addr = "none"
  /\ ip_addr' = "leased"
  /\ UNCHANGED <<interrupt_vars, timer_vars, dhcp_timoutcntr, flags, main_pc, conn_vars>>

LeaveWait ==
  /\ main_pc = "dhcp"
  /\ ip_addr # "none" \/ dhcp_timoutcntr <= 0
  /\ ip_addr' = IF ip_addr = "none" THEN "default" ELSE ip_addr
  /\ main_pc' = "setup"
  /\ UNCHANGED <<interrupt_vars, timer_vars, dhcp_timoutcntr, flags, conn_vars>>

\* Its result is not looked at: without a control block, or a port, or memory for
\* the request the event loop runs for nothing.
setup_client_conn ==
  /\ main_pc = "setup"
  /\ conn' \in {"connecting", "none"}
  /\ main_pc' = "fast"
  /\ UNCHANGED <<interrupt_vars, timer_vars, dhcp_timoutcntr, flags, ip_addr, c_pcb>>

-----------------------------------------------------------------------------
(* The event loop.  A tick that comes while the flag of the last one is     *)
(* still to be cleared is forgotten.                                        *)

loop_same == UNCHANGED <<interrupt_vars, timer_vars, dhcp_timoutcntr, ip_addr, conn_vars>>

FastTimer ==
  /\ main_pc = "fast"
  /\ main_pc' = IF TcpFastTmrFlag = 1 THEN "fast called" ELSE "slow"
  /\ UNCHANGED flags /\ loop_same

\* Mutation: the slow flag is looked at only where the fast one was down.
ClearFast_Else ==
  /\ main_pc = "fast called"
  /\ TcpFastTmrFlag' = 0
  /\ main_pc' = "input"
  /\ UNCHANGED TcpSlowTmrFlag /\ loop_same

ClearFast ==
  /\ main_pc = "fast called"
  /\ TcpFastTmrFlag' = 0
  /\ main_pc' = "slow"
  /\ UNCHANGED TcpSlowTmrFlag /\ loop_same

SlowTimer ==
  /\ main_pc = "slow"
  /\ main_pc' = IF TcpSlowTmrFlag = 1 THEN "slow called" ELSE "input"
  /\ UNCHANGED flags /\ loop_same

ClearSlow ==
  /\ main_pc = "slow called"
  /\ TcpSlowTmrFlag' = 0
  /\ main_pc' = "input"
  /\ UNCHANGED TcpFastTmrFlag /\ loop_same

\* xemacif_input takes at most one packet, and the loop comes round.
Turn ==
  /\ main_pc = "input"
  /\ main_pc' = "fast"
  /\ UNCHANGED <<interrupt_vars, timer_vars, dhcp_timoutcntr, flags>>

Input == Turn /\ UNCHANGED <<ip_addr, conn_vars>>

-----------------------------------------------------------------------------
(* The connection.  None is made a second time.                             *)

\* tcp_client_close: lwIP ends the connection, and frees the control block.
tcp_client_close == conn' = "over"

\* tcp_client_connected, up to the request for the tableau.
Connected ==
  /\ Turn /\ conn = "connecting"
  /\ conn' = "up" /\ c_pcb' = "live"
  /\ UNCHANGED ip_addr

\* No callback for errors is set while the connection is being made.
Refused ==
  /\ Turn /\ conn = "connecting"
  /\ tcp_client_close
  /\ UNCHANGED <<c_pcb, ip_addr>>

\* tcp_client_recv without a packet: c_pcb still points to what is freed.
HostCloses ==
  /\ Turn /\ conn = "up"
  /\ tcp_client_close
  /\ c_pcb' = "freed"
  /\ UNCHANGED ip_addr

\* lwIP has freed the control block when it reports the error, and tcp_client_err
\* closes it once more.
tcp_client_err == tcp_client_close /\ c_pcb' = "NULL"

Reset ==
  /\ Turn /\ conn = "up"
  /\ tcp_client_err
  /\ UNCHANGED ip_addr

\* The client of DHCP goes on after the timeout: an offer that comes late changes
\* the address, and lwIP aborts what is bound to the old one.
LateLease ==
  /\ Turn /\ LWIP_DHCP /\ ip_addr = "default"
  /\ ip_addr' = "leased"
  /\ CASE conn = "up" -> tcp_client_err
       [] conn = "connecting" -> tcp_client_close /\ UNCHANGED c_pcb
       [] OTHER -> UNCHANGED conn_vars

=============================================================================
