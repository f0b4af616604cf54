# The LP engine: models, checks and proofs

The repository is a hardware engine for linear programs: a tableau arrives
over TCP at a MicroBlaze, lies in DDR memory, and is pivoted by four Verilog
blocks under a control unit until it is optimal, unbounded or in error. This
directory holds TLA+ modules of its parts, the TLC configurations that check
them on small instances, and proofs, checked by the TLA+ proof system, of the
properties that matter most for every size.

The Verilog and the C are the reference. Each definition carries the name the
source gives the thing; `PROJECT.json` ("map") gives the lines it stands for.

## 1. The system

    host (LP_sender.py)  <-- TCP -->  MicroBlaze (main.c)
                                        |  registers        ^ interrupt mblaze_done
                                        v                   |
                                 mblaze_lp_bridge --start--> lp_control_unit ----> lp_timer
                                                            | start lines, reader pulses, addresses
      DDR --- readers ---> FIFOs ---> find_pivot_col, choose_pivot_row,
       ^                              update_pivot_row, update_tableau
       |                                                    |
       +------- writers <--- FIFOs <--- fifo_redirect <-----+

All Verilog runs on one clock. A round of the simplex method is: choose the
column (`find_pivot_col`), choose the row (`choose_pivot_row`), divide the row
(`update_pivot_row`, result in a BRAM), subtract it from every other row
(`update_tableau`, result through `fifo_redirect` into DDR and into the BRAMs
of the objective row and the right hand side). A block that finishes raises
`cont` or `terminate`; a latch stays up until the block's own next start.

| Component | State | Operations | What makes it correct |
|---|---|---|---|
| `lp_control_unit.v` | 9 states, start lines, reader pulses, addresses, edge detector of the terminates | start of a problem, a step per phase, the end of a problem | one block at a time; every problem given up once and the processor told; a round only over a stored tableau; addresses and indices that name the same row |
| `fifo_read_interface.v` | 9 states, counter, AXI read and stream registers | job of N words in bursts | each word once, in order, all of them before done |
| `fifo_write_interface.v` | 8 states, two counters, AXI write and stream registers | job of N words in bursts | each word to its place, all of them answered before done |
| `fifo_dma.v` | as the reader, one beat at a time with a stride | a column of the tableau | the same |
| `fifo_redirect.v` | 4 states, two counters, three valid lines | fork of each result to DDR, objective row, right hand side | each result exactly once to each place it belongs to |
| `find_pivot_col.v` | counter, best value and index, latches | search over the objective row | leftmost most negative entry; terminate only when optimal or in error |
| `choose_pivot_row.v` | operand counters, divider pipeline, best ratio, latches | ratio test | first row with the smallest ratio; the pivot belongs to that row |
| `update_pivot_row.v` | counter, divider pipeline, BRAM address, latches | row divided by the pivot | column k in place k |
| `update_tableau.v` | BRAM wait states, pivot-column states, indices, latches | A*B - C over the tableau | the three operands of a result belong together |
| `mblaze_lp_bridge*.v` | eight registers, start pulse | register writes and reads | one pulse for each start |
| `lp_timer.v` | counters, a held read | start, stop, read | every problem timed; the read answered at last |
| `main.c` | reception and sending counters, tableau, solution, the connection | start-up, event loop, TCP callbacks, done interrupt | the loop reached whatever DHCP does; the start only with the whole tableau; the whole solution sent, once; lwIP served on |
| `platform.c`, `platform_mb.c` | timer flags, countdowns | timer interrupt, set-up | every tick served; the wait for an address ends |
| `LP_sender.py` | - | sends a tableau, receives a solution | ends |
| `simplex_*.c` | tableau, last two pivots, the column that failed | the same method in software, and the values written to a file | ends; feasible throughout; nothing overlooked; the values are those of the final tableau |

Components interact in three ways: by registers sampled at a common clock edge
(so a value seen is always one edge old), by FIFOs and AXI channels with
valid/ready handshakes in which every partner may stall, and, at the
processor, by callbacks of lwIP and one interrupt.

What is hard about them, and hardly reached by the test benches of the
repository, is listed in `PROJECT.json` under "hazards", at the line where it
bites. The main themes: latches that outlive the round they speak for; pulses
that must be long enough for the floating-point cores and short enough not to
be taken twice; two operand streams that drift apart; burst arithmetic at the
ends of a job; a terminate in the middle of everything; unsigned comparison of
floating-point bits.

## 2. Modules

### The control unit: `LPControlUnit`, `LPPhases`, `SimplexLoop`

`LPControlUnit` has the registers of `lp_control_unit.v` and one action for
each branch of its always block. The order of the branches (terminate before
the state machine) is the conjunct `~TerminateEdge` in every other action.
`TransientOf(b)` is the TRANSIENT state of the three blocks whose start line is
low for two edges, `PivotColTransient` that of the block whose line is low for
one; `Wait(b)` are the else branches. Addresses are computed modulo
`AddrSpace` (2^32). The output port `mblaze_done` and the name `mblz_done` that
`reset_signals` assigns (line 253; it is declared nowhere) are two variables, as in
the file. A tool that rejects the undeclared name builds nothing at all; the model
takes it for a net of its own, and then a terminate never raises the port
(`phases_done`). `MBlazeApp` presupposes an engine whose interrupt does come.

`LPPhases` closes it with its environment. One step is one edge: every
component takes its next state from the same old one. Of a block it keeps the
handshake: the start line clears the latches, the readers' pulse feeds it, and
some time later it raises one latch. `update_tableau` may say `cont` and then
raise `terminate` for an element still in its pipeline (`MayFlagLate`), because
its two latches are written in separate always blocks. The bridge pulses at any
time, during a problem and between problems.

Redirector and writer to DDR are one job that is begun with an update and knows
nothing of the control unit. They count words: an update that an exception stops in
the middle leaves them in the middle of a tableau (`writing`), the next update fills
that one up, and from then on done pulse and updates are out of step (`astray`; what
the writer does then is any pulse at any time, and `owed` is whether the words of the
latest update are in DDR). `stopped` records that a block was stopped before it had
taken all its operands, so that FIFOs and readers hold words of the problem before.

`SimplexLoop` is what the engine promises, without clock, pulses or latches:
accept, report, store, advance, give up; promised as long as the writer is in step
with the updates. `ImplementsLoop` is the refinement.

### Moving words: `FifoReadInterface`, `FifoWriteInterface`, `StreamCopy`

The two burst movers, with one action for each state of the state machine,
plus memory, FIFO and the giver of the start pulse, each with every stall the
handshake allows. A memory word is its own address, so that the FIFO shows
which words were read and in which order. For the writer the k-th word of a
job carries the number k. `ArLen` and `AwLen` do the truncated unsigned
arithmetic of the source: the size minus the counter, cut to eight bits, less
one. A job of size 0 runs the counter once round (`Words`).

`StreamCopy` is the promise of both: words `Base + Stride * i`, each handed on
once and in order, and rest only when all have gone. `ImplementsStream` is the
refinement, `sent` and `last` the history it maps.

### The searches: `FindPivotCol`, `ChoosePivotRow`

`FindPivotCol` is the block with the FIFO and the reader before it. A word is a
sign and a magnitude, the only things the code looks at; `Infinite` stands for
the all-ones exponent. A terminate in the middle of the row leaves the rest in
the FIFO; `clean` records that a round began with an empty one.

`ChoosePivotRow` has the two FIFOs, the operand counters and the divider as two
operand queues in front of it: a word is its row number, and a quotient is any
of flag, sign and magnitude, chosen when it comes out. The divider sees the
operands' valid lines without the gate that the FIFOs get (`Fed` against
`Open`). `Bits` is the unsigned comparison.

### The second half of a round: `UpdatePivotRow`, `UpdateTableau`, `FifoDma`, `PivotUpdate`

The first three hold what one clock edge does to the registers of their Verilog
module, as operators whose parameters are the input ports. `PivotUpdate`
instantiates them together with what lies between: the readers of the pivot row
and of the whole tableau (as the promise of `StreamCopy`, which
`FifoReadInterface` keeps), the memory, the FIFOs, the BRAM, and the control unit
as far as it drives them. One step is one edge of all of them.

What the model tells apart is where a word comes from: a word of DDR is its place
and the version of the tableau it was written for, a quotient is the word it was
made of, a result the record of its operands. The results of a round go back to
DDR while the rest of it is still being read; `WriterEdge` lets them arrive at
once, which is the hardest case. The reader of the pivot column is started with
`choose_pivot_row`, a phase before anybody takes its words, because the design
wires it to `pivot_row_fifo_start`. A divider or an arithmetic unit is a queue:
its latency is any, its capacity bounded.

`fifo_redirect` is left out of that composition (a result lands in its place) and
has a module of its own.

### The fork of the results: `FifoRedirect`

The state machine and both counters, the three FIFOs with every pattern of full
and ready, the three writers as handshakes that may miss a start pulse while they
are at work, and `update_tableau` as a producer that an exception may stop in the
middle. A result is its tableau and its place, so that the three copies can be
compared with what belongs there (`Expected`, by the place of its k-th result).

### The program of the processor: `MBlazeBoard`, `MBlazeApp`, `MBlazeSolution`

`MBlazeBoard` is the frame: `platform.c` and `platform_mb.c` with the timer
interrupt and its flags, `main()` from `init_platform` through the wait for an
address to the event loop, and the one connection to the host. The event loop has
a place for each point at which the timer may come in (`main_pc`), the calls of lwIP's
timers and the clearing of their flags among them. The connection is made, refused,
closed by the host, reset, or ended by a DHCP offer that comes after the timeout
(the client is not stopped, and lwIP aborts what is bound to the old address).
`c_pcb` tells whether the program's pointer is NULL, live, or points to what lwIP
has freed. A build without DHCP is the constant `LWIP_DHCP`.

`MBlazeApp` EXTENDS it with the callbacks of `main.c`, each a step, and
`mblaze_send`, whose loop is a step for each batch. `sender` says who is in that
loop: `main` (from the acknowledgement callback, where the timer still ticks) or
the interrupt handler (where nothing else runs). TCP keeps the order and cuts the
bytes as it likes, so `Receive` takes any number of bytes up to `MaxPacket` and
brings the counters on byte by byte, as the loop over the packet does (`AfterBytes`). Of lwIP the model
keeps the writes that wait for an acknowledgement, and whether a segment of theirs
is lost; the slow timer sends it again (`Retransmit`). `tcp_write` may fail at any time
for lack of memory, and does beyond `SendQueue` writes; the program then counts back.
What it counts on to try again is the callback of an acknowledgement, and `refused`
records that a write failed when there was nothing to acknowledge. `Waiting` is the
loop at line 603 that waits for room in the send buffer (`SendBuffer` elements): it
runs inside a callback or the interrupt handler, so no acknowledgement is taken in
while it does, and in the handler no timer ticks. A write through a pointer that is no
longer live may fail or wait for ever (`EnqueueNowhere`).

In `MBlazeApp` an element of the solution is its column; what its value is, the
double loop of `mblaze_send_callback` over the final tableau, is the operator
`formatted_solution` of `MBlazeSolution`.

### The solvers in software: `Tableaux`, `SimplexFixed`, `SimplexOriginal`, `SimplexPyToC`, `SimplexEarly`, `Solvers`

`Tableaux` has fractions, the pivot, and `store_soln`, which the two programs of
the benchmark share word for word. `SimplexFixed` is the one the hardware is
measured against: Bland's rule, positive pivots, a column without a row passed over
until the next pivot, and a test for cycles of two turns. `SimplexOriginal` is the
one before the repair. One step is one turn of the loop, or reading or writing a
file, which may fail. `pivot_col` and `pivot_row` are functions of the tableau:
the for-loops that keep the best so far are "the first of the least".

`SimplexPyToC` (objective in the last row) and `SimplexEarly` (objective apart and
with the opposite sign) are the predecessors that the authors kept under `ignore/`.
They are used as abstract specifications: `ImplementsPyToC` and `ImplementsEarly`
are refinements with a mapping that moves the objective. The early solver computes
with row -1 when there is none; from there on its specification promises nothing. It
gives up restrictions of 9999999999999 or more, the constant `Infinity`.

`Solvers` runs the two programs on the same file, of fractions (the generator writes
random reals, and each float is a fraction), and states what is expected of
them. `Readable` says of a final tableau that a column which `store_soln` takes for a
basic one is a unit column (otherwise it reads a word in front of the tableau,
`Outside`), and that no two of them belong to one constraint (otherwise both variables
are given the value of one). The search for the smallest ratio begins at 9999999 (`Largest`) and not at
infinity: a column whose ratios are all that large is given up although a constraint
stops it, and `NothingOverlooked` is stated of ratios below that number.

## 3. What is checked

Nearly all runs take the specification with its fairness, so that the same run
checks invariants, refinement and liveness. Only `solvers` turns the deadlock check
off: the two programs come to their ends, and `Ends` says that the repaired one
does. Everywhere else the clock, or the timer of the board, always ticks.

| Run | Shows | Instance |
|---|---|---|
| `phases` | `OneBlockAtATime`, `ReportedOnce`, `StoredBeforeNextRound`, `PivotAgrees`, `ImplementsLoop`, `CleanStartAnswered` | 3 rows, 2 columns, 3 start pulses |
| `phases_done` | violates `TerminateTells` | 1 start pulse |
| `phases_stale` | violates `StartAnswered` | 2 start pulses |
| `reader` | `InOrder`, `DoneComplete`, `ImplementsStream`, `JobCompletes` | bursts of 4; jobs of 0, 1, 4 and 6 words; two jobs |
| `writer` | `InPlace`, `DoneComplete`, `ImplementsStream`, `JobCompletes` | the same |
| `pivot_col` | `MostNegative`, `OptimalOrError`, `Reports` | every row of 3 columns, two rounds |
| `pivot_row` | `SmallestRatio`, `PivotOfRow`, `Unbounded`, `AllConsumed`, `ReportsOrSilent` | every outcome of 3 ratios, two rounds |
| `update` | `OperandsBelong`, `RowInPlace`, `LeavesClean`, `RoundEnds` | 3 rows, 2 columns, FIFOs of 2, two rounds of a problem |
| `update_abort` | violates `OperandsAlways` | 2 rows, 2 columns, two problems |
| `redirect` | `CopiesInOrder`, `TableauStored` | 3 rows, 2 columns, FIFOs of 2, two tableaus |
| `app` | `StartedWithWhole`, `SolutionInOrder`, `SolutionArrives`, `ReachesLoop`, `TimersServed` | 2 rows, 9 columns, words of 4 bytes, packets of up to 9 bytes, batches of 2, at most 2 writes and 5 elements outstanding |
| `solvers` | `NothingOverlooked`, `StoredIsFeasible`, `SameOptimum`, `NeverWorse`, `Ends`, `ImplementsEarly`, `ImplementsPyToC` | 16,898 tableaus |

What some of the properties say:

* `OneBlockAtATime`, `StoredBeforeNextRound` and `ImplementsLoop` are claimed as long as
  no update began while the writer was in the middle of a tableau (`~astray`);
  they cannot be claimed without that (see the disagreements below). `ReportedOnce` and
  `PivotAgrees` hold whatever the writer does.
* `ReportedOnce`: each problem taken on is given up by the terminate branch, once. That
  this tells the processor is `TerminateTells`, which the code does not keep.
* `CleanStartAnswered`: a problem that finds no stale latch, no words of a stopped
  problem and the writer in step is given up in the end, unless pivoting goes on for
  ever or `choose_pivot_row` stays silent.
* `ReportsOrSilent`, `Unbounded` and `SmallestRatio`: the ratio test answers, but for one case
  (`Silent`: no row is eligible, and the last ratio is not flagged), in which it never
  does. The first says that there is no other case, the other two that there is no
  answer in this one (`SilentForGood`, which is proved from them).
* `ReachesLoop`: no server of DHCP need answer, because the countdown runs in the
  timer interrupt, which is enabled before the wait.
* `TimersServed`: whenever the slow flag is up, lwIP's slow timer is called, through
  a tick lost between the call and the clearing of the flag, the loop of
  `mblaze_send` and the done interrupt. The exceptions are the wait for room and a
  send over a connection that has ended.
* `SolutionArrives`: through failing writes and lost segments the host comes to have
  the whole solution, unless the connection ends, a write is refused with nothing on
  its way (`stranded`), or the program comes to wait for room (`Waiting`). None of the
  three ways out can be dropped. `stranded` is a history variable of `MCMBlazeApp`: the
  state of the program does not tell it from a resumption that was lost.
* `NeverWorse`: every pivot of the repaired solver keeps the right-hand sides from
  becoming negative and the objective from falling.
* `NothingOverlooked`: columns are passed over only while they would fail again.
* `StoredIsFeasible`: where the final tableau is `Readable`, the values written for the
  variables satisfy the constraints of the file and give the objective of the final tableau; those the board would read off the same
  tableau do so too, and those of the early solver. The three tell a basic column in
  three different ways.
* `SameOptimum`: with a slack variable in each constraint both programs report the
  same objective, though the original one pivots on entries of any sign. Without a
  slack variable the first pivot on a constraint makes an equation of it for good, and
  programs that choose different pivots may end at different optima.

The type invariants (`TypeOK`) are proved for the modules that have proofs, and
no run repeats them. Every property of a passing run has a
mutation of the code (a definition whose name ends in what was changed) that
makes TLC find it violated.

### Bounds, and why they are enough

* `MaxStarts = 3`: a problem, a second one over the latches of the first, and a
  pulse that comes while one is being solved. The rounds of a problem are not
  bounded, and the state space closes over them because nothing counts them.
* `AddrSpace = 32` with a tableau of 24 bytes at 4: sums wrap for the larger
  rows, so the addresses are also checked where they wrap.
* Bursts of 4 beats and a counter of 8 values for bursts of 256 and a counter of
  2^16 or 2^32: the sizes 1, 4, 6 and 0 are a short burst, a full one, a full one
  with a rest, and the counter run round. The proofs have no such bound.
* The FIFO of the reader has two words, with the full flag at two: empty, partly
  full, full, and the stall between flag and ready all occur. Two jobs show what
  one leaves to the next.
* Three columns with a zero, two finite magnitudes and an infinite one: ties,
  three different values, an error before and after the best one.
* Three rows, magnitudes 0 to 2 and two places in the divider: ties, an order of
  three, and each stream ahead of the other by as much as the queues allow.
* `MaxRounds = 2`, `MaxJobs = 2`: what the first leaves is all that the second can
  see; there is no other memory.
* `update`: rows before and after the pivot row, each as the pivot row; a FIFO
  shorter than a column and than a row, so that readers stall in the middle of
  both; two rounds, of which the second starts over what the first has left.
  `Restarts = FALSE` keeps it to one problem; `update_abort` allows a second one
  and shows why the properties are claimed of problems that find everything at rest
  (`clean`). The proofs allow any number of both. `clean` is a property of the
  problem, not of the round: where the arithmetic unit can hold a whole tableau, what
  a stopped problem has left in the count of landed results lets the next round
  "store" a tableau it never wrote and come to rest, so that a later round of the
  same problem would find everything at rest over a tableau that is wrong.
* `redirect`: FIFOs of 2 words for copies of 6, 2 and 3 words, so that each of the
  three can be the one that stalls; two tableaus, for what the first leaves.
* `app`: packets from less than a word to more than two; nine columns make five
  batches of at most two, more than the two writes that may be outstanding, the last of
  them short. Two full batches outstanding leave room for one element: a full batch
  then waits, in the callback as well as in the handler, and the short one does not.
  Countdowns and periods of two to four ticks for 24, 120 and the vendor's interval: each wraps,
  and each can run out before and after what it is there for. A segment is lost at
  most once at a time, but again and again.
* `solvers`: two constraints over two variables with slack variables, right-hand
  sides with zeroes (degenerate pivots) and entries of any sign (unbounded problems,
  columns that fail, negative pivots for the original program); two constraints over
  three variables without slack variables, in which the programs find no basis;
  problems in halves, with entries that add up to one without being one; and
  the two problems that the repository itself gives. Three rows are the smallest size
  at which ties between rows and columns, a failed column before an eligible one, and
  several pivots in a row occur. The cycle test fires too, but only after a column
  has failed: a problem in which none fails is never given up (`ImplementsEarly`).
  `Infinity` is 19999999 for 9999999999999, beyond what TLC's integers hold; the proofs
  want it no smaller than `Largest`.

### Fairness

The clock ticks (`WF_vars(Next)`), which makes no one speak up: in `LPPhases` it is
`OnlyClock`, an edge at which no block, writer or bridge says anything, and in
`PivotUpdate` an edge without exception bits of a result that is not there. Each partner of a handshake does at some time
what it was asked: memory takes a request and returns its beats, a FIFO takes a
word when it has room, the consumer behind it reads on, the divider gives a
result, a FIFO leaves its reset. These are hardware cores that progress by
themselves. Of the blocks of this repository something is assumed in two places:

* In `LPPhases`, where a block is its handshake, the three blocks other than
  `choose_pivot_row` are assumed to report, and the writer to finish its job, as long as
  no block was stopped in the middle of its operands (`~stopped`) and the writer is in
  step (`~astray`). `FindPivotCol` (`Reports`) and `PivotUpdate` (`RoundEnds`) show that of
  the blocks. Nothing is assumed of `choose_pivot_row`, which may stay silent
  (`SilentForGood`); what is claimed names its silence as a way out.
* In `PivotUpdate`, where `choose_pivot_row` is left out, it is assumed to answer:
  `[]<>(phase # "row")`. `RoundEnds` is about the rounds in which it does, by
  `ReportsOrSilent` all but the silent ones.

Weak fairness is enough throughout: what is waited for stays possible until it happens. In `PivotUpdate` and `FifoRedirect`, whose every
step is the one action `Next`, it is written as a condition on states:
`[]<>(div = <<>> ...)` says that a divider with an operand in it does not hold it
for ever. `MBlazeApp` assumes that the timer ticks, that the engine answers, that the
processor runs and takes its interrupts, and that TCP keeps its promise: where the
event loop asks for packets again and again and something is on its way that is not
lost, it arrives. Nothing brings a lost segment back but the slow timer, and nothing
is assumed about the connection staying up or about a server of DHCP. In `Solvers` the
operating system goes on running the first program.

### Disagreements between the source and what it says

1. `phases_stale`: the control unit acts on the rising edge of the OR of four
   terminates. The latches of three blocks are cleared only at their own next
   start, so after a problem that one of them ended the OR is up; when the next
   problem is ended by `find_pivot_col` there is no edge, and the problem is never
   given up. One that starts with no such latch is (`CleanStartAnswered`).
2. `update_abort`: the pivot column for `update_tableau` is fetched from the start of
   the ratio test on. A problem that ends there (unbounded) or in an exception
   leaves its words in the FIFO and the reader; nothing resets them, and the next
   problem takes them for its own column. A round that ends with a stored tableau
   leaves nothing (`LeavesClean`).

3. `phases_done`: "If any terminate asserted, tell MBLAZE" (`lp_control_unit.v:93`), but the
   task that should do it assigns `mblz_done` (line 253), which is declared nowhere, and not
   the port.

Eight more were met and have no run of their own; the first four are in the models, as
exceptions that properties name:

* `choose_pivot_row.v:137`: a last row that is neither flagged nor eligible, with no
  eligible row before it, raises neither latch, while a flagged last row in the same
  situation terminates ("div by zero in last row so skip, but no valid pivot row found
  earlier", line 122). The engine then waits for ever (`SilentForGood`).
* `lp_control_unit.v:227`: "Once everything written back to DDR, go back to waiting on pivot
  column continue". After an exception in the middle of an update, redirector and
  writer stand in the middle of a tableau; they fill it up with the first words of the
  next update, and the next search starts when that is stored. Without its `~astray`
  `StoredBeforeNextRound` is violated by the second problem.
* `main.c:613`: "need to back track and try again". The trying again is left to
  `tcp_client_sent`, which is called only for bytes that are acknowledged: when the first
  batch is refused, or a later one after everything before was acknowledged, there are
  none, and the rest of the solution is never sent. Without `stranded`
  `SolutionArrives` is violated.
* `main.c:602`: "Loop until enough room in buffer (should be right away)". The loop waits for
  an acknowledgement that cannot be taken in before the loop has ended. Whether a build
  comes to it depends on the size of lwIP's send buffer and of its list of writes,
  which are not in the repository: where the list runs out first, `tcp_write` fails
  instead. Without `Waiting` `TimersServed` is violated.
* `choose_pivot_row.v:126` admits a quotient of minus zero, which
  `update_tableau.v:248` does produce (it inverts the sign of A*B - C, so a
  difference that cancels is stored as minus zero), but compares it as an unsigned
  word, in which it is larger than every positive one. `SmallestRatio` is stated in
  that order.
* `main.c:287` says of the event loop that it "can check is_connected global var to see
  if connection open"; the variable is set at the connection and never cleared.
* `main.c:651` reads the last element of the solution, at the right-hand side's own
  column, from `bram_rhs` at the number of the column, not of a row.
* `simplex_fixed_no_osc.c:214` reports "cycle detected" when column and row are those of
  two turns ago, though no tableau has been met twice: a column that fails, a pivot
  elsewhere, and the same column failing again are enough. In the run this happens in
  problems without a bound, and the values then stored are those of a vertex at which
  another column could still be pivoted on (`NothingOverlooked` is claimed of the other
  way out).

## 4. What is proved

Proofs are in the modules `*_proofs`, for every value of the constants that meets
the assumptions named in the modules: sizes of the tableau, bursts, counters,
FIFOs and pipelines, and (for the counts of starts, jobs, rounds and tableaus) for
behaviours of any length. Each has an inductive invariant `IInv`, the conjunction
of a type invariant and the parts named below; a lemma for each part, or for each
neighbour of the block, says that an edge preserves it. The invariants were
checked by TLC on small instances before they were proved, except `Sound` of the
solvers, which speaks of all values of the variables.

**`LPPhases_proofs`**, from `TableauAssumption`, `AddressAssumption` and
`MaxStartsAssumption`. `OneBlockAtATime` is not inductive: that no latch
is believed early depends on which start line is low in which state
(`StartLines`), that no terminate is acted on twice, or in START, depends on what the
edge detector remembers of the latches that problems leave behind (`TerminatesSeen`,
`Leftovers`, `PassedBlocks`, `NoneInStart`), and that blocks and writer are where the state
machine takes them to be (`InStep`) is true only while the writer is in step with the
updates. So the invariant has two parts: what holds whatever the writer does, and
`~astray => InStep`. From the first follow `OneReportEach` and `OnePivot`, without any
condition and for a bridge that pulses at any time; from both follow `MutualExclusion`,
`PulsesLongEnough`, `BusyHeld`, `StoredBeforeRound` and `Refinement` (every edge is a step of
`SimplexLoop` or none), whose statements name the condition. None is about the port,
which the code does not drive. `OnePivot` needs two facts more: the address of the row
below the objective row is right from the start pulse on (`SkipsFirstRow`), and the
index of the pivot column stands until the search is started again
(`ColumnStands`). Its arithmetic modulo `AddrSpace` rests on one lemma,
`WordsAdd`: words counted in two goes are words counted in one, wrapped or not.

**`FifoReadInterface_proofs`** and **`FifoWriteInterface_proofs`**. `Lines` ties
the output registers to the state; `Account` says for each state where the words of
the job are (handed on, in the data register, owed, being asked for) and that
together they stay within the job. `Whole` is there for jobs of size 0, which end
when the counter has run round: all their bursts are whole, so that the counter,
whose range is a multiple of a burst, meets 0 exactly and not in the middle of one.
From the first follow `StreamInOrder`, `BurstsWithinJob`, `DoneMeansComplete` and
`ReaderRefinement`, from the second `WordsInPlace`, `DoneMeansComplete` and
`WriterRefinement`: both implement `StreamCopy`.

**`FindPivotCol_proofs`**. `Progress` says that the row is the words taken followed by
those in the FIFO (`RowSplit`) and that the kept value is the best of those taken
(`Best`); the lemmas `BestStep` and `BestAppend` are facts about sequences alone.
From it follow `ChoosesMostNegative`, `TerminatesRightly` and `ConsumesRow`.

**`ChoosePivotRow_proofs`**. `Flow` says that each FIFO and each operand queue of the
divider holds consecutive row numbers (`Run`), and at which row each begins: the two
sides may be any distance apart, but a ratio is always that of one row. `Judged` says
what is kept of the ratios so far (`Kept`), with `Beats` for the unsigned comparison
that puts minus zero last. `Resets` is needed because a start clears the block at
its first edge only: nothing may be under way then. From it follow `PivotIsOfRow`,
`NothingLeftBehind` and `RatioTest`, with `FlaggedEnd` (what ends the search in vain is a
flagged ratio) `TerminatesRightly`, and from these `SilenceStays`.

**`FifoRedirect_proofs`**. `InStep` ties both counters of the redirector to the place
of the result on offer, and `Filled` says how many results a copy has been given so
far (`Given`: the ones before the place on offer that belong to it, `Copies`, and
that one from the edge at which its FIFO took it). Both hold of clean tableaus only.
That `Copies` grows by one exactly where a result belongs (`OneMoreCopy`) is
division by the number of columns. From it follows `CopiesRight`.

**`PivotUpdate_proofs`**, from `UpdateAssumption`. All queues are described in
one way: `Line(q, order, k)` says that a queue holds what comes in an order from
number k on. Three of the orders are those of the words of the pivot row
(through the reader, the FIFO, the divider and into the BRAM: `RowQuiet`,
`RowFlow`), of the pivot column (`ColFlow`, `ColIdle`, `ColDeaf`) and of the tableau
(`TabQuiet`, `TabFlow`); the fourth is that of the results, `OperandsAlways`
itself. It is not inductive for three reasons. The operands meet only because the
indices of `update_tableau` stand at the head of two of the queues and at the
address of the BRAM (`Indices`, `ColumnFsm`, and `BramFlow` for the wait of two
edges, which must be that of the two stages of the BRAM). They are of the version
before the round only because what has landed in DDR is a prefix of the tableau
(`Landing`), behind every place still to be read; for the pivot column this is the
comparison of a place in row r with the results of the rows before r. And nothing of
another round is among them only because each round ends at rest, with the control
lines in step (`ControlLines`, `DmaLines`, which hold of every problem, and
`TabFresh`). From it follow `OperandsRight`, `DividedRowInPlace` and
`RoundLeavesClean`. `clean` is a hypothesis of the properties, as in the runs; it is
true of the first problem and of each one that follows a problem which left
everything at rest, and `update_abort` shows that it cannot be dropped.

**`Programs_proofs`, first half: the program of the processor**, from `AppAssumption`:
for every size of the tableau and of the solution, every way TCP cuts the bytes, every packet length, batch and queue,
and every course of the connection. `BytesCounted` says that all the program keeps of
the reception, its memories included, depends only on how many bytes have come
(`ReceptionAt`, in closed form): a byte more makes it that of a byte more (`NextByte`,
division by the bytes of a word and by the columns of a row), and so does a packet
(`PacketReceived`). `StartedAtEnd` ties the start to the last byte; that nothing else
satisfies the test of `tcp_client_recv`, which compares with sizes that are still 0
at first, is `WholeAtEnd`. `Silent` is needed because `tcp_client_connected` sets the
counters back: it may only come before the first byte. `SendsAfterAnswer` is
needed because the interrupt sets the counter of the solution back, which is
harmless only while nothing of the solution has been written; `SentInOrder` is then
kept by each batch (`BatchAppended`) and by each acknowledgement of several writes
(`FlattenSplit`). From it follow `WholeTableauStarts` and `SolutionSentInOrder`. A
packet and the list of outstanding writes have no bound, so these are inductions
over data; they are carried out in terms of sets, from the least number at which a claim
would fail (`Least`, `Induction`, `UpTo`, on `WFMin` of the library).

**`Programs_proofs`, second half: the solvers**, from `FilesAssumption` (what the
generator writes: rows of one length, an objective that starts at zero, right-hand sides
that are not negative; the numbers are any fractions, for the generator writes random
reals and every float is one), `LargestAssumption` and `InfinityAssumption`, for every
file of every size and both programs. `SolversInv(m, n)` is the inductive invariant for
the files of m constraints and n variables:

* `FeasibleInv`: every tableau is one of fractions in the shape of the file, its
  right-hand sides are not negative, nor is its objective.
* `PassedInv`: a column up to `prev_fail_pivot_col_idx` that would raise the objective
  has no ratio below `Largest`, and behind `no column` there is no column beyond it.
* `CycleInv`: as long as no column has failed, the test for cycles does not fire. The
  pivot has left the column of one turn ago a unit column with a cost of zero; the next
  pivot adds to that cost a multiple of its entry in the pivot row, and neither is
  negative. So two turns on the column is not one that could be chosen, and the test,
  which compares with the column of two turns ago, fails.
* `OriginalInv`: the original solver's tableaus are feasible ones of that shape as well.
  It pivots on negative entries only where the right-hand side is zero, for it wants a
  ratio that is not negative.

Beneath it lies the arithmetic of `Tableaux`. `Fraction` divides by the greatest common
divisor, which is a recursive function; that it divides both and is not zero is proved by
the least pair for which it would not (`WFMin` again), and from it that fractions are
in lowest terms (so that equal values are the same fraction, `SameFraction`), are
closed under the four operations and agree with multiplying out (`Plus`, `Minus`,
`Times`, `Over`), and that `Less` is a strict order. The ratio test is
then three lemmas: the row found has the smallest ratio, it is the first that has it, and
a pivot on it keeps each right-hand side from becoming negative, because the difference is
an entry times a difference of ratios. From all this follow `ObjectiveNeverWorse` and
`NothingIsOverlooked`.

`StoredSolutionFeasible` and `SameOptimumFound` are about the values stored, and need
what a pivot leaves of the file's equations. `Dot(T, i, v)` is the left-hand side of row i
for values v of any set of the columns, a fold like that of `store_soln()`; that it is linear
is an induction over the subsets of the columns (`SubsetsInduction`, `SumDef`,
`SumOfDifferences`, `SumOfMultiples`). A pivot in row r keeps whether v solves r, and for
values that solve it how far every other row is from being an equation, its `Gap`
(`PivotedSolutions`). So each tableau is `Sound(file, T, m, n)`: there is a set P of
constraints, those pivoted on and those with a slack variable, which have a unit column
each, such that

* values that solve the rows P of T solve those of the file, and leave the other rows as far
  from being equations as they are in T (`LeadsBack`);
* values that solve all rows of the file solve all of T, and the objective row gives
  them the same worth (`Follows`).

`EndInv` and `OriginalEndInv` add that what is stored is `store_soln()` of such a tableau, and
that no cost is negative in it when no column has failed; the first of these needs
`CycleInv`, for a cycle ends the search with negative costs left. Values read off the unit
columns solve the rows that have one and come to nothing in the others (`BasicValues`), where
the right-hand side is not negative: by `LeadsBack` the constraints of the file hold, and the
objective is the one written (`BasicFeasible`). It remains that each of the three programs
recognises the unit columns: by sign and sum, which `Readable` assumes to be enough
(`StoreReads`), by counting ones and zeroes (`BoardReads`), and by sum and zeroes, where an
entry of the objective could pass for the one if its cost were negative (`EarlyReads`).
`Readable` is a real limit: a file in fractions can end in a tableau with a column that
sums to one without a one in it, or with two unit columns in one constraint, and of
what is stored then the theorem says nothing.
`SameOptimumFound` is weak duality: where P is all constraints, what is read off one
final tableau solves the rows of the other, whose costs are not negative, so the other's
objective is at least as high (`NoBetter`); this holds both ways.

Two refinements are proved. `OriginalImplementsPyToC` moves the objective from the first
row to the last: pivot column, pivot row and pivot of the two programs commute with that
(the first of the least row stays the first). `FixedImplementsEarly` splits the tableau into
`z`, with signs reversed, and the rest; it needs `CycleInv`, because the early program has
no test for cycles, and it has `[]RowWhereStopped` as a hypothesis, because the early
program takes the least of all its ratios and not of those below 9999999. It says of the
first column that fails that it has no positive entry. Where that is false the early
program pivots and the repaired one does not, so the hypothesis cannot be dropped; that the
files of `solvers` meet it is part of what `ImplementsEarly` checks there.

Only model-checked:

* Liveness (`JobCompletes`, `Reports`, `ReportsOrSilent`, `RoundEnds`,
  `CleanStartAnswered`, `TableauStored`, `SolutionArrives`, `ReachesLoop`, `TimersServed`,
  `Ends`): the prover knows neither fairness nor `ENABLED`. `Ends` besides would need
  that Bland's rule meets no tableau twice.

Every other property of a passing run is proved.

## 5. Left out, and why

* Numbers. Floating-point results are any value the code can tell apart; the
  arithmetic of the Xilinx cores is not modelled, only what their flags do.
* AXI details without effect on control: IDs, protection bits, error responses
  (ignored by the code), and the 4 KB boundary that a burst must not cross (the
  bursts start at any word address; what the interconnect does then is outside the
  repository).
* `aresetn` during operation, and a FIFO that resets itself in the middle: the
  design gives the reset once, and `rst_busy` follows it.
* What a stopped round leaves in `fifo_redirect` and its writers: in `FifoRedirect` a
  tableau that does not find everything at rest is let run (its actions are in the model)
  but nothing is claimed of it. `LPPhases` has of it that the jobs of the writer are out of
  step from then on, with a done pulse that may come at any time.
* The arithmetic unit of `update_tableau` without a valid result: line 107 latches its
  exception flags all the same, and what the core shows on them then is not in the
  repository. `UpdateTableau` lets them be anything; `LPPhases` lets a flag come only from
  the first operand of an update to its last result, for a core that shows none between
  updates. One that did would raise a terminate between problems.
* In `main.c`: an interrupt in the middle of a call of lwIP, IPv6, printing with its
  progress counter. In `platform.c`: the caches (nothing reads the tableau back before
  the engine is done), and the call for the link status, which is given `echo_netif`, a
  pointer that `main.c:64` declares and nothing sets. In `LP_sender.py`: the loop that
  waits for rows times columns elements where the board sends one for each column.
* In the solvers: rounding (the programs compute in float, the models in exact
  fractions, so what is shown is shown of the algorithm), the counter of iterations with
  the debug lines that depend on it (`simplex_fixed_no_osc.c:210` reads column 2227
  whatever the size), the display on the terminal, sizes of more than 16 bits, and a
  `malloc` that fails.
* `mblaze_lp_bridge` beyond its start pulse and the registers the program writes, and
  `lp_timer` (planned).
* Vendor code for other boards (`platform_zynq*.c`, `platform_ppc.c`, PHY and clock
  set-up), which the MicroBlaze build leaves out, generated IP,
  the block design script (read for the wiring), and what lies under `ignore/`.

## 6. Plan

Done: the control unit with its refinement, both burst movers, all four blocks, the
strided reader, the redirector, the program with its board, and the solvers; the safety
properties of all the hardware, of the program and of the solvers proved. In order, what
comes next:

1. The blocks in place of their handshakes in `LPPhases`, at least
   `find_pivot_col`, so that the stale FIFO after an error meets the next problem.
2. `FifoRedirect` and `FifoWriteInterface` in place of the writer of `LPPhases`: which words
   a stopped tableau leaves to the next problem, and where they land.
3. `FifoDma` as a second refinement of `StreamCopy`, with a stride.
4. `LPTimer` with the bridge and the control unit: the count, and a read that is held back.
5. `FindPivotCol` and `ChoosePivotRow` against `SimplexOriginal`, whose rules they carry
   out, and the host's receive loop.
