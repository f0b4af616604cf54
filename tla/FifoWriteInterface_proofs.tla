---------------------- MODULE FifoWriteInterface_proofs ----------------------
(***************************************************************************)
(* Proofs about the writer, for every base address, burst length, counter  *)
(* width and set of sizes, the size of 0 (for which the counter runs once  *)
(* round) included, and every stall of the FIFO and of the memory.         *)
(***************************************************************************)
EXTENDS FifoWriteInterface, TLAPS

\* The counter after n words: it has run round when it stands at 0 again.
Wrap(n) == IF n = CounterSpace THEN 0 ELSE n

Aligned(n) == \E k \in Nat : n = k * MaxBurst

Writing == state \in {"S4_NOT_LAST", "S4_LAST"}

\* The output lines are those of the state, and the inputs come when the
\* writer can take them.
Lines ==
  /\ busy <=> (state # "S0")
  /\ awvalid <=> (state = "S2")
  /\ wvalid <=> Writing
  /\ wlast <=> (state = "S4_LAST")
  /\ tready <=> (state = "S3")
  /\ bready <=> (Writing \/ state \in {"S3", "S5_LAST"})
  /\ rst_busy => state = "S0" /\ ~start /\ ~done
  /\ start => state = "S0"
  /\ answer # "none" => state = "S5_LAST"

\* Where the words are: in memory, in the data register, owed to the burst
\* under way, or still to be asked for; together they never exceed the job.
Account ==
  /\ state # "S0" => element_counter = Wrap(sent)
  /\ state = "S0" => element_counter = 0 /\ beats = 0
  /\ state = "S1" => beats = 0 /\ next = sent /\ sent < Words(num_elements)
  /\ state = "S2" =>
       /\ beats = 0 /\ next = sent /\ awaddr = Word(sent)
       /\ burst_element_counter = 0 /\ sent + awlen + 1 <= Words(num_elements)
  /\ state = "S3" => next = sent
  /\ Writing => next = sent + 1 /\ wdata = sent /\ (state = "S4_LAST" <=> beats = 1)
  /\ state = "S3" \/ Writing =>
       /\ beats > 0 /\ beat_addr = Word(sent)
       /\ burst_element_counter + beats = awlen + 1
       /\ sent + beats <= Words(num_elements)
  /\ state \in {"S5_LAST", "S6"} =>
       beats = 0 /\ next = sent /\ sent > 0 /\ sent <= Words(num_elements)
  /\ done => state = "S0" /\ next = sent /\ sent = Words(num_elements)

\* A job of size 0 is made of whole bursts: that is why its counter stands at 0
\* again at the end of one.
Whole ==
  num_elements = 0 =>
    /\ state \in {"S1", "S2"} => Aligned(sent)
    /\ state = "S2" => awlen + 1 = MaxBurst
    /\ state \notin {"S0", "S1", "S2"} => Aligned(sent + beats)

IInv == TypeOK /\ Lines /\ Account /\ Whole

-----------------------------------------------------------------------------

LEMMA Ranges ==
  /\ MaxBurst \in Nat /\ MaxBurst > 0
  /\ CounterSpace \in Nat /\ CounterSpace > 0
  /\ Base \in Nat /\ Sizes \subseteq 0..CounterSpace-1 /\ MaxJobs \in Nat
  /\ \A n \in Nat : Word(n) \in Nat /\ Word(n + 1) = Word(n) + 4
BY BurstAssumption, SizesAssumption DEF Word

\* Every job has a word, and no more than the counter counts.
LEMMA SizeOfJob ==
  ASSUME NEW n \in Sizes
  PROVE  /\ n \in Nat /\ Words(n) \in 1..CounterSpace
         /\ n # 0 => Words(n) = n /\ n < CounterSpace
         /\ n = 0 => Words(n) = CounterSpace
BY Ranges DEF Words

\* The counter stands at the size when the job is over, and not before.
LEMMA CounterAtSize ==
  ASSUME NEW n \in Sizes, NEW s \in Nat, s > 0, s <= Words(n)
  PROVE  Wrap(s) = n <=> s = Words(n)
BY SizeOfJob, Ranges DEF Wrap

LEMMA CounterCounts ==
  ASSUME NEW s \in Nat, s < CounterSpace
  PROVE  /\ Wrap(s) = s
         /\ Inc(Wrap(s)) = Wrap(s + 1)
         /\ Wrap(s + 1) \in 0..CounterSpace-1
BY Ranges DEF Wrap, Inc

\* Where whole bursts have gone, another whole one has room.
LEMMA WholeBurstFits ==
  ASSUME NEW s \in Nat, s < CounterSpace, Aligned(s)
  PROVE  s + MaxBurst <= CounterSpace /\ Aligned(s + MaxBurst)
<1>1. PICK k \in Nat : s = k * MaxBurst
  BY DEF Aligned
<1>2. PICK m \in Int : CounterSpace = m * MaxBurst
  <2> DEFINE q == CounterSpace \div MaxBurst
  <2>1. q \in Int /\ CounterSpace = (MaxBurst * q) + (CounterSpace % MaxBurst)
    BY Ranges
  <2>2. CounterSpace = q * MaxBurst
    BY <2>1, BurstAssumption
  <2> QED
    BY <2>1, <2>2
<1>3. k < m
  <2> SUFFICES ASSUME m <= k PROVE FALSE
    BY <1>1, <1>2
  <2>1. m * MaxBurst <= k * MaxBurst
    BY <1>2, Ranges
  <2> QED
    BY <2>1, <1>1, <1>2, Ranges
<1>4. (k + 1) * MaxBurst <= m * MaxBurst
  BY <1>2, <1>3, Ranges
<1>5. (k + 1) * MaxBurst = s + MaxBurst
  BY <1>1, Ranges
<1>6. Aligned(s + MaxBurst)
  BY <1>5 DEF Aligned
<1> QED
  BY <1>2, <1>4, <1>5, <1>6

\* A burst asked for has at least one beat and none beyond the job.
LEMMA AwLenBound ==
  ASSUME NEW n \in Sizes, NEW s \in Nat, s < Words(n), n = 0 => Aligned(s)
  PROVE  /\ AwLen(n, s) \in 0..MaxBurst-1
         /\ s + AwLen(n, s) + 1 <= Words(n)
         /\ n = 0 => AwLen(n, s) + 1 = MaxBurst
<1>1. CASE n = 0
  <2>1. ~(n - s \in 1..MaxBurst)
    BY <1>1
  <2>2. AwLen(n, s) = MaxBurst - 1
    BY <2>1 DEF AwLen
  <2>3. s + MaxBurst <= Words(n)
    BY <1>1, SizeOfJob, WholeBurstFits
  <2> QED
    BY <1>1, <2>2, <2>3, SizeOfJob, Ranges
<1>2. CASE n # 0
  BY <1>2, SizeOfJob, Ranges DEF AwLen
<1> QED
  BY <1>1, <1>2

LEMMA InitInv == Init => IInv
<1> SUFFICES ASSUME Init PROVE IInv
  OBVIOUS
<1>1. /\ 0 \in 0..CounterSpace-1 /\ 0 \in 0..MaxBurst-1 /\ 0 \in 0..MaxBurst
      /\ 0 \in 0..CounterSpace /\ 0 \in 0..MaxJobs
  BY Ranges
<1>2. TypeOK
  BY <1>1, Ranges DEF Init, TypeOK, FsmState
<1>3. Lines /\ Account /\ Whole
  BY DEF Init, Lines, Account, Whole, Writing
<1> QED
  BY <1>2, <1>3 DEF IInv

-----------------------------------------------------------------------------
(* What each neighbour of the state machine does at an edge.                *)

\* The job at work does not change.
LEMMA JobStays ==
  ASSUME IInv, ControlEdge
  PROVE  /\ num_elements \in Sizes
         /\ busy \/ start => num_elements' = num_elements
         /\ start' => ~rst_busy' /\ ~busy /\ ~start
         /\ num_elements' \in Sizes
         /\ start' \in BOOLEAN /\ rst_busy' \in BOOLEAN
         /\ rst_busy' => rst_busy
         /\ jobs' \in 0..MaxJobs
<1>1. jobs' \in 0..MaxJobs
  BY Ranges DEF ControlEdge, IInv, TypeOK
<1> QED
  BY <1>1 DEF ControlEdge, IInv, TypeOK

\* The memory takes the request in S2 and a beat in S4; after the last beat it
\* owes an answer, which the writer takes in S5_LAST.
LEMMA MemoryMoves ==
  ASSUME IInv, NEW awready \in BOOLEAN, NEW wready \in BOOLEAN, MemoryEdge(awready, wready)
  PROVE  /\ answer' \in {"none", "due", "offered"}
         /\ state = "S2" /\ awready => beat_addr' = awaddr /\ beats' = awlen + 1
         /\ Writing /\ wready => beat_addr' = beat_addr + 4 /\ beats' = beats - 1
         /\ ~(state = "S2" /\ awready) /\ ~(Writing /\ wready)
              => beat_addr' = beat_addr /\ beats' = beats
         /\ answer' # "none" =>
              \/ state = "S4_LAST" /\ wready
              \/ state = "S5_LAST" /\ answer # "offered"
<1>1. /\ awvalid <=> state = "S2"
      /\ wvalid <=> Writing
      /\ state = "S5_LAST" => bready
      /\ answer # "none" => state = "S5_LAST"
      /\ Writing => (state = "S4_LAST" <=> beats = 1)
      /\ answer \in {"none", "due", "offered"}
  BY DEF IInv, TypeOK, Lines, Account
<1>2. /\ state = "S2" /\ awready => beat_addr' = awaddr /\ beats' = awlen + 1
      /\ Writing /\ wready => beat_addr' = beat_addr + 4 /\ beats' = beats - 1
      /\ ~(state = "S2" /\ awready) /\ ~(Writing /\ wready)
           => beat_addr' = beat_addr /\ beats' = beats
  BY <1>1 DEF MemoryEdge, Writing
<1>3. answer' \in {"none", "due", "offered"}
  BY <1>1 DEF MemoryEdge
<1>4. ASSUME answer' # "none"
      PROVE  \/ state = "S4_LAST" /\ wready
             \/ state = "S5_LAST" /\ answer # "offered"
  <2>1. CASE wvalid /\ wready /\ beats = 1
    BY <2>1, <1>1
  <2>2. CASE ~(wvalid /\ wready /\ beats = 1) /\ answer = "due"
    BY <2>2, <1>1
  <2>3. CASE ~(wvalid /\ wready /\ beats = 1) /\ answer # "due"
    BY <2>3, <1>1, <1>4 DEF MemoryEdge
  <2> QED
    BY <2>1, <2>2, <2>3
<1> QED
  BY <1>2, <1>3, <1>4

\* What the histories record: a word leaves the FIFO in S3 and is in memory
\* after S4.
LEMMA RecordMoves ==
  ASSUME IInv, NEW wready \in BOOLEAN, Record(wready)
  PROVE  /\ busy' /\ state = "S0" => sent' = 0 /\ next' = 0
         /\ state = "S3" /\ tvalid => next' = next + 1 /\ sent' = sent
         /\ Writing /\ wready => sent' = sent + 1 /\ next' = next /\ last' = beat_addr
         /\ ~(busy' /\ state = "S0") /\ ~(state = "S3" /\ tvalid) /\ ~(Writing /\ wready)
              => sent' = sent /\ next' = next
         /\ ~(Writing /\ wready) => last' = last
<1>1. /\ busy <=> state # "S0"
      /\ wvalid <=> Writing
      /\ tready <=> state = "S3"
  BY DEF IInv, Lines
<1> QED
  BY <1>1 DEF Record, Writing

-----------------------------------------------------------------------------
(* The moves of the state machine.                                          *)

\* What the neighbours do at an edge, in terms of the state alone.
Neighbours(awready, wready) ==
  /\ num_elements \in Sizes /\ num_elements' \in Sizes
  /\ busy \/ start => num_elements' = num_elements
  /\ start' => ~rst_busy' /\ ~busy /\ ~start
  /\ rst_busy' => rst_busy
  /\ state = "S2" /\ awready => beat_addr' = awaddr /\ beats' = awlen + 1
  /\ Writing /\ wready => beat_addr' = beat_addr + 4 /\ beats' = beats - 1
  /\ ~(state = "S2" /\ awready) /\ ~(Writing /\ wready)
       => beat_addr' = beat_addr /\ beats' = beats
  /\ answer' # "none" =>
       \/ state = "S4_LAST" /\ wready
       \/ state = "S5_LAST" /\ answer # "offered"
  /\ busy' /\ state = "S0" => sent' = 0 /\ next' = 0
  /\ state = "S3" /\ tvalid => next' = next + 1 /\ sent' = sent
  /\ Writing /\ wready => sent' = sent + 1 /\ next' = next /\ last' = beat_addr
  /\ ~(busy' /\ state = "S0") /\ ~(state = "S3" /\ tvalid) /\ ~(Writing /\ wready)
       => sent' = sent /\ next' = next
  /\ ~(Writing /\ wready) => last' = last

LEMMA NeighboursMove ==
  ASSUME IInv, NEW awready \in BOOLEAN, NEW wready \in BOOLEAN, Edge(awready, wready)
  PROVE  Neighbours(awready, wready)
<1>1. ControlEdge /\ MemoryEdge(awready, wready) /\ Record(wready)
  BY DEF Edge
<1>2. /\ num_elements \in Sizes /\ num_elements' \in Sizes
      /\ busy \/ start => num_elements' = num_elements
      /\ start' => ~rst_busy' /\ ~busy /\ ~start
      /\ rst_busy' => rst_busy
  BY <1>1, JobStays
<1>3. /\ state = "S2" /\ awready => beat_addr' = awaddr /\ beats' = awlen + 1
      /\ Writing /\ wready => beat_addr' = beat_addr + 4 /\ beats' = beats - 1
      /\ ~(state = "S2" /\ awready) /\ ~(Writing /\ wready)
           => beat_addr' = beat_addr /\ beats' = beats
      /\ answer' # "none" =>
           \/ state = "S4_LAST" /\ wready
           \/ state = "S5_LAST" /\ answer # "offered"
  BY <1>1, MemoryMoves
<1>4. /\ busy' /\ state = "S0" => sent' = 0 /\ next' = 0
      /\ state = "S3" /\ tvalid => next' = next + 1 /\ sent' = sent
      /\ Writing /\ wready => sent' = sent + 1 /\ next' = next /\ last' = beat_addr
      /\ ~(busy' /\ state = "S0") /\ ~(state = "S3" /\ tvalid) /\ ~(Writing /\ wready)
           => sent' = sent /\ next' = next
      /\ ~(Writing /\ wready) => last' = last
  BY <1>1, RecordMoves
<1> QED
  BY <1>2, <1>3, <1>4 DEF Neighbours

\* The numbers of the writer and of its memory are in their ranges.
Numbers ==
  /\ element_counter \in 0..CounterSpace-1 /\ burst_element_counter \in 0..MaxBurst-1
  /\ awaddr \in Nat /\ awlen \in 0..MaxBurst-1 /\ wdata \in Nat
  /\ beat_addr \in Nat /\ beats \in 0..MaxBurst
  /\ next \in 0..CounterSpace /\ sent \in 0..CounterSpace /\ last \in Nat

LineTypes ==
  /\ state \in FsmState
  /\ busy \in BOOLEAN /\ done \in BOOLEAN /\ awvalid \in BOOLEAN
  /\ wlast \in BOOLEAN /\ wvalid \in BOOLEAN /\ bready \in BOOLEAN /\ tready \in BOOLEAN

Preserved == Lines' /\ Account' /\ Whole' /\ Numbers' /\ LineTypes'


\* While a FIFO resets itself nothing moves.
LEMMA HoldKeeps ==
  ASSUME IInv, NEW awready \in BOOLEAN, NEW wready \in BOOLEAN,
         Neighbours(awready, wready), Hold
  PROVE  Preserved
<1>1. Lines'
  BY DEF Hold, fsm, aw, w, Neighbours, IInv, Lines, Writing
<1>2. Account'
  BY SizeOfJob, Ranges DEF Hold, fsm, aw, w, Neighbours, IInv, TypeOK, Lines, Account, Writing
<1>3. Whole'
  BY SizeOfJob, Ranges DEF Hold, fsm, aw, w, Neighbours, IInv, TypeOK, Lines, Whole, Writing
<1>4. Numbers'
  BY SizeOfJob, Ranges DEF Hold, fsm, aw, w, Neighbours, IInv, TypeOK, Lines, Numbers, Account, Writing
<1>5. LineTypes'
  BY DEF Hold, fsm, aw, w, IInv, TypeOK, FsmState, LineTypes
<1> QED
  BY <1>1, <1>2, <1>3, <1>4, <1>5 DEF Preserved

\* At rest the done pulse ends.
LEMMA IdleKeeps ==
  ASSUME IInv, NEW awready \in BOOLEAN, NEW wready \in BOOLEAN,
         Neighbours(awready, wready), Idle
  PROVE  Preserved
<1>1. Lines'
  BY DEF Idle, aw, w, Neighbours, IInv, Lines, Writing
<1>2. Account'
  BY SizeOfJob, Ranges DEF Idle, aw, w, Neighbours, IInv, TypeOK, Lines, Account, Writing
<1>3. Whole'
  BY SizeOfJob, Ranges DEF Idle, aw, w, Neighbours, IInv, TypeOK, Lines, Whole, Writing
<1>4. Numbers'
  BY SizeOfJob, Ranges DEF Idle, aw, w, Neighbours, IInv, TypeOK, Lines, Numbers, Account, Writing
<1>5. LineTypes'
  BY DEF Idle, aw, w, IInv, TypeOK, FsmState, LineTypes
<1> QED
  BY <1>1, <1>2, <1>3, <1>4, <1>5 DEF Preserved

\* A start pulse begins a job with a word to write.
LEMMA StartKeeps ==
  ASSUME IInv, NEW awready \in BOOLEAN, NEW wready \in BOOLEAN,
         Neighbours(awready, wready), ~rst_busy, Start
  PROVE  Preserved
<1>1. Lines'
  BY DEF Start, aw, w, Neighbours, IInv, Lines, Writing
<1>2. Account'
  <2>1. state' = "S1" /\ sent' = 0 /\ next' = 0 /\ beats' = 0 /\ element_counter' = 0
        /\ done' = FALSE
    BY DEF Start, Neighbours, IInv, Account, Writing
  <2>2. Words(num_elements') \in Nat /\ 0 < Words(num_elements')
    BY SizeOfJob DEF Neighbours
  <2>3. Words(num_elements)' = Words(num_elements')
    BY DEF Words
  <2>4. Wrap(sent)' = 0
    BY <2>1, Ranges DEF Wrap
  <2> QED
    BY <2>1, <2>2, <2>3, <2>4 DEF Account, Writing
<1>3. Whole'
  <2>1. state' = "S1" /\ sent' = 0
    BY DEF Start, Neighbours
  <2>2. Aligned(0)
    BY Ranges DEF Aligned
  <2>3. Aligned(sent)'
    BY <2>1, <2>2 DEF Aligned
  <2> QED
    BY <2>1, <2>3 DEF Whole
<1>4. Numbers'
  BY SizeOfJob, Ranges DEF Start, aw, w, Neighbours, IInv, TypeOK, Lines, Numbers, Account, Writing
<1>5. LineTypes'
  BY DEF Start, aw, w, IInv, TypeOK, FsmState, LineTypes
<1> QED
  BY <1>1, <1>2, <1>3, <1>4, <1>5 DEF Preserved

\* A burst is asked for from the next place, and not beyond the job.
LEMMA RequestBurstKeeps ==
  ASSUME IInv, NEW awready \in BOOLEAN, NEW wready \in BOOLEAN,
         Neighbours(awready, wready), RequestBurst
  PROVE  Preserved
<1>1. /\ state = "S1" /\ state' = "S2" /\ busy /\ ~done /\ done' = done
      /\ awaddr' = Word(element_counter) /\ awlen' = AwLen(num_elements, element_counter)
      /\ burst_element_counter' = 0 /\ element_counter' = element_counter
      /\ num_elements \in Sizes /\ num_elements' = num_elements
      /\ sent' = sent /\ next' = next /\ beats' = beats
  <2>1. /\ state = "S1" /\ state' = "S2" /\ busy /\ ~done /\ done' = done
        /\ awaddr' = Word(element_counter) /\ awlen' = AwLen(num_elements, element_counter)
        /\ burst_element_counter' = 0 /\ element_counter' = element_counter
    BY DEF RequestBurst, IInv, Lines, Account
  <2> QED
    BY <2>1 DEF Neighbours, Writing
<1>2. /\ beats = 0 /\ next = sent /\ element_counter = Wrap(sent)
      /\ sent \in Nat /\ sent < Words(num_elements)
      /\ num_elements = 0 => Aligned(sent)
  <2>1. sent \in Nat
    BY Ranges DEF IInv, TypeOK
  <2>2. num_elements = 0 => Aligned(sent)
    BY <1>1 DEF IInv, Whole
  <2>3. beats = 0 /\ next = sent /\ element_counter = Wrap(sent) /\ sent < Words(num_elements)
    <3>1. state = "S1" /\ state # "S0"
      BY <1>1
    <3>2. Account
      BY DEF IInv
    <3> QED
      BY <3>1, <3>2 DEF Account
  <2> QED
    BY <2>1, <2>2, <2>3
<1>3. element_counter = sent
  <2>1. Words(num_elements) \in 1..CounterSpace
    BY <1>1, SizeOfJob
  <2>2. sent < CounterSpace
    BY <2>1, <1>2, Ranges
  <2> QED
    BY <2>2, <1>2, CounterCounts
<1>4. /\ awlen' \in 0..MaxBurst-1
      /\ sent + awlen' + 1 <= Words(num_elements)
      /\ num_elements = 0 => awlen' + 1 = MaxBurst
  BY <1>1, <1>2, <1>3, AwLenBound
<1>5. Words(num_elements)' = Words(num_elements) /\ Wrap(sent)' = Wrap(sent)
      /\ Word(sent)' = Word(sent) /\ (Aligned(sent)' <=> Aligned(sent))
  BY <1>1 DEF Words, Wrap, Word, Aligned
<1>6. Lines'
  BY DEF RequestBurst, aw, w, Neighbours, IInv, Lines, Writing
<1>7. Account'
  BY <1>1, <1>2, <1>3, <1>4, <1>5 DEF Account, Writing
<1>8. Whole'
  BY <1>1, <1>2, <1>4, <1>5 DEF Whole
<1>9. Numbers'
  BY <1>1, <1>2, <1>3, <1>4, Ranges DEF RequestBurst, w, Neighbours, IInv, TypeOK, Writing, Numbers
<1>10. LineTypes'
  BY DEF RequestBurst, aw, w, IInv, TypeOK, FsmState, LineTypes
<1> QED
  BY <1>6, <1>7, <1>8, <1>9, <1>10 DEF Preserved

\* The memory owes as many beats as were asked for.
LEMMA RequestTakenKeeps ==
  ASSUME IInv, NEW awready \in BOOLEAN, NEW wready \in BOOLEAN,
         Neighbours(awready, wready), RequestTaken(awready)
  PROVE  Preserved
<1>1. Lines'
  BY DEF RequestTaken, aw, w, Neighbours, IInv, Lines, Writing
<1>2. Account'
  BY SizeOfJob, Ranges DEF RequestTaken, aw, w, Neighbours, IInv, TypeOK, Lines, Account, Writing
<1>3. Whole'
  <2>1. /\ state = "S2" /\ state' = "S3" /\ beats' = awlen + 1 /\ sent' = sent
        /\ num_elements' = num_elements /\ num_elements \in Sizes /\ sent \in Nat
        /\ awlen \in Nat /\ sent + awlen + 1 <= Words(num_elements)
    BY Ranges DEF RequestTaken, Neighbours, IInv, TypeOK, Lines, Account, Writing
  <2>2. ASSUME num_elements = 0 PROVE Aligned(sent' + beats')
    <3>1. Aligned(sent) /\ awlen + 1 = MaxBurst
      BY <2>1, <2>2 DEF IInv, Whole
    <3>2. sent < CounterSpace
      BY <2>1, <2>2, SizeOfJob
    <3> QED
      BY <2>1, <3>1, <3>2, WholeBurstFits
  <2>3. Aligned(sent + beats)' <=> Aligned(sent' + beats')
    BY DEF Aligned
  <2> QED
    BY <2>1, <2>2, <2>3 DEF Whole
<1>4. Numbers'
  BY SizeOfJob, Ranges DEF RequestTaken, aw, w, Neighbours, IInv, TypeOK, Lines, Numbers, Account, Writing
<1>5. LineTypes'
  BY DEF RequestTaken, aw, w, IInv, TypeOK, FsmState, LineTypes
<1> QED
  BY <1>1, <1>2, <1>3, <1>4, <1>5 DEF Preserved

\* A word goes from the FIFO to the data register.
LEMMA TakeWordKeeps ==
  ASSUME IInv, NEW awready \in BOOLEAN, NEW wready \in BOOLEAN,
         Neighbours(awready, wready), TakeWord
  PROVE  Preserved
<1>1. Lines'
  BY DEF TakeWord, aw, w, Neighbours, IInv, Lines, Writing
<1>2. Account'
  BY SizeOfJob, Ranges DEF TakeWord, aw, w, Neighbours, IInv, TypeOK, Lines, Account, Writing
<1>3. Whole'
  BY SizeOfJob, Ranges DEF TakeWord, aw, w, Neighbours, IInv, TypeOK, Lines, Whole, Writing
<1>4. Numbers'
  BY SizeOfJob, Ranges DEF TakeWord, aw, w, Neighbours, IInv, TypeOK, Lines, Numbers, Account, Writing
<1>5. LineTypes'
  BY DEF TakeWord, aw, w, IInv, TypeOK, FsmState, LineTypes
<1> QED
  BY <1>1, <1>2, <1>3, <1>4, <1>5 DEF Preserved

\* A word goes from the data register to its place, and both counters go on.
LEMMA BeatWrittenKeeps ==
  ASSUME IInv, NEW awready \in BOOLEAN, NEW wready \in BOOLEAN,
         Neighbours(awready, wready), BeatWritten(wready)
  PROVE  Preserved
<1>1. /\ Writing /\ wready /\ busy /\ ~done /\ done' = done /\ busy' = busy
      /\ state' = IF state = "S4_LAST" THEN "S5_LAST" ELSE "S3"
      /\ element_counter' = Inc(element_counter)
      /\ burst_element_counter' = IncBurst(burst_element_counter)
      /\ UNCHANGED <<awaddr, awlen, wdata>>
      /\ num_elements \in Sizes /\ num_elements' = num_elements
  BY DEF BeatWritten, aw, Neighbours, IInv, Lines, Account, Writing
<1>2. /\ sent' = sent + 1 /\ next' = next /\ last' = beat_addr
      /\ beat_addr' = beat_addr + 4 /\ beats' = beats - 1
  BY <1>1 DEF Neighbours, Writing
<1>3. /\ element_counter = Wrap(sent) /\ next = sent + 1 /\ beat_addr = Word(sent)
      /\ beats > 0 /\ (state = "S4_LAST" <=> beats = 1)
      /\ burst_element_counter + beats = awlen + 1
      /\ sent + beats <= Words(num_elements)
      /\ num_elements = 0 => Aligned(sent + beats)
  BY <1>1 DEF IInv, Account, Whole, Writing
<1>4. /\ sent \in Nat /\ beats \in 0..MaxBurst /\ awlen \in 0..MaxBurst-1
      /\ burst_element_counter \in 0..MaxBurst-1 /\ beat_addr \in Nat
  BY Ranges DEF IInv, TypeOK
<1>5. sent < CounterSpace /\ sent + 1 <= Words(num_elements) /\ Words(num_elements) \in 1..CounterSpace
  BY <1>1, <1>3, <1>4, SizeOfJob, Ranges
<1>6. element_counter' = Wrap(sent') /\ element_counter' \in 0..CounterSpace-1
  BY <1>1, <1>2, <1>3, <1>4, <1>5, CounterCounts
<1>7. /\ burst_element_counter' \in 0..MaxBurst-1
      /\ state' = "S3" => burst_element_counter' = burst_element_counter + 1
  BY <1>1, <1>3, <1>4, Ranges DEF IncBurst
<1>8. beat_addr' = Word(sent')
  BY <1>2, <1>3, <1>4, Ranges
<1>9. Words(num_elements)' = Words(num_elements) /\ Wrap(sent)' = Wrap(sent')
      /\ Word(sent)' = Word(sent') /\ (Aligned(sent + beats)' <=> Aligned(sent' + beats'))
  BY <1>1 DEF Words, Wrap, Word, Aligned
<1>10. Lines'
  BY DEF BeatWritten, aw, Neighbours, IInv, Lines, Account, Writing
<1>11. Account'
  <2>1. state' \in {"S3", "S5_LAST"} /\ ~done'
    BY <1>1
  <2>2. ASSUME state' = "S3"
        PROVE  /\ next' = sent' /\ beats' > 0 /\ beat_addr' = Word(sent')
               /\ burst_element_counter' + beats' = awlen' + 1
               /\ sent' + beats' <= Words(num_elements)
    <3>1. beats # 1
      BY <2>2, <1>1, <1>3
    <3>2. beats > 1 /\ awlen' = awlen
      BY <3>1, <1>1, <1>3, <1>4
    <3> QED
      BY <2>2, <3>2, <1>2, <1>3, <1>4, <1>5, <1>7, <1>8, Ranges
  <2>3. state' = "S5_LAST" =>
          beats' = 0 /\ next' = sent' /\ sent' > 0 /\ sent' <= Words(num_elements)
    BY <1>1, <1>2, <1>3, <1>4, <1>5
  <2> QED
    BY <2>1, <2>2, <2>3, <1>6, <1>9 DEF Account, Writing
<1>12. Whole'
  <2>1. sent' + beats' = sent + beats
    BY <1>2, <1>4, Ranges
  <2> QED
    BY <2>1, <1>1, <1>3, <1>9 DEF Whole
<1>13. Numbers'
  BY <1>1, <1>2, <1>3, <1>4, <1>5, <1>6, <1>7, Ranges DEF IInv, TypeOK, Numbers
<1>14. LineTypes'
  BY DEF BeatWritten, aw, IInv, TypeOK, FsmState, LineTypes
<1> QED
  BY <1>10, <1>11, <1>12, <1>13, <1>14 DEF Preserved

\* The answer of a burst is taken.
LEMMA BurstAnsweredKeeps ==
  ASSUME IInv, NEW awready \in BOOLEAN, NEW wready \in BOOLEAN,
         Neighbours(awready, wready), BurstAnswered
  PROVE  Preserved
<1>1. Lines'
  BY DEF BurstAnswered, aw, w, Neighbours, IInv, Lines, Writing
<1>2. Account'
  BY SizeOfJob, Ranges DEF BurstAnswered, aw, w, Neighbours, IInv, TypeOK, Lines, Account, Writing
<1>3. Whole'
  BY SizeOfJob, Ranges DEF BurstAnswered, aw, w, Neighbours, IInv, TypeOK, Lines, Whole, Writing
<1>4. Numbers'
  BY SizeOfJob, Ranges DEF BurstAnswered, aw, w, Neighbours, IInv, TypeOK, Lines, Numbers, Account, Writing
<1>5. LineTypes'
  BY DEF BurstAnswered, aw, w, IInv, TypeOK, FsmState, LineTypes
<1> QED
  BY <1>1, <1>2, <1>3, <1>4, <1>5 DEF Preserved

\* The counter is not at the size, so a word is left.
LEMMA NextBurstKeeps ==
  ASSUME IInv, NEW awready \in BOOLEAN, NEW wready \in BOOLEAN,
         Neighbours(awready, wready), NextBurst
  PROVE  Preserved
<1>1. /\ state = "S6" /\ state' = "S1" /\ element_counter # num_elements
      /\ UNCHANGED <<element_counter, burst_element_counter, busy, done, awaddr, awlen, wdata>>
      /\ ~done /\ num_elements \in Sizes /\ num_elements' = num_elements
      /\ sent' = sent /\ next' = next /\ last' = last /\ beats' = beats /\ beat_addr' = beat_addr
  BY DEF NextBurst, aw, w, Neighbours, IInv, Lines, Account, Writing
<1>2. /\ element_counter = Wrap(sent) /\ beats = 0 /\ next = sent
      /\ sent > 0 /\ sent <= Words(num_elements) /\ sent \in Nat
      /\ num_elements = 0 => Aligned(sent + beats)
  BY <1>1, Ranges DEF IInv, TypeOK, Account, Whole
<1>3. sent < Words(num_elements) /\ sent + beats = sent
  BY <1>1, <1>2, SizeOfJob, CounterAtSize
<1>4. Words(num_elements)' = Words(num_elements) /\ Wrap(sent)' = Wrap(sent)
      /\ (Aligned(sent)' <=> Aligned(sent))
  BY <1>1 DEF Words, Wrap, Aligned
<1>5. Lines'
  BY DEF NextBurst, aw, w, Neighbours, IInv, Lines, Writing
<1>6. Account'
  BY <1>1, <1>2, <1>3, <1>4 DEF Account, Writing
<1>7. Whole'
  BY <1>1, <1>2, <1>3, <1>4 DEF Whole
<1>8. Numbers'
  BY <1>1 DEF IInv, TypeOK, Numbers
<1>9. LineTypes'
  BY DEF NextBurst, aw, w, IInv, TypeOK, FsmState, LineTypes
<1> QED
  BY <1>5, <1>6, <1>7, <1>8, <1>9 DEF Preserved

\* The counter is at the size, so the job is done.
LEMMA FinishKeeps ==
  ASSUME IInv, NEW awready \in BOOLEAN, NEW wready \in BOOLEAN,
         Neighbours(awready, wready), Finish
  PROVE  Preserved
<1>1. Lines'
  BY DEF Finish, aw, w, Neighbours, IInv, Lines, Writing
<1>2. Account'
  <2>1. /\ state = "S6" /\ state' = "S0" /\ element_counter = num_elements
        /\ element_counter' = 0 /\ num_elements \in Sizes /\ num_elements' = num_elements
        /\ sent' = sent /\ next' = next /\ beats' = beats
    BY DEF Finish, Neighbours, IInv, Lines, Writing
  <2>2. /\ element_counter = Wrap(sent) /\ beats = 0 /\ next = sent
        /\ sent > 0 /\ sent <= Words(num_elements) /\ sent \in Nat
    BY <2>1, Ranges DEF IInv, TypeOK, Account
  <2>3. sent = Words(num_elements) /\ Words(num_elements)' = Words(num_elements)
    BY <2>1, <2>2, CounterAtSize DEF Words
  <2> QED
    BY <2>1, <2>2, <2>3 DEF Account, Writing
<1>3. Whole'
  BY SizeOfJob, Ranges DEF Finish, aw, w, Neighbours, IInv, TypeOK, Lines, Whole, Writing
<1>4. Numbers'
  BY SizeOfJob, Ranges DEF Finish, aw, w, Neighbours, IInv, TypeOK, Lines, Numbers, Account, Writing
<1>5. LineTypes'
  BY DEF Finish, aw, w, IInv, TypeOK, FsmState, LineTypes
<1> QED
  BY <1>1, <1>2, <1>3, <1>4, <1>5 DEF Preserved

\* The writer waits for the FIFO or the memory.
LEMMA StallKeeps ==
  ASSUME IInv, NEW awready \in BOOLEAN, NEW wready \in BOOLEAN,
         Neighbours(awready, wready), Stall(awready, wready)
  PROVE  Preserved
<1>1. Lines'
  BY DEF Stall, fsm, aw, w, Neighbours, IInv, Lines, Writing
<1>2. Account'
  BY SizeOfJob, Ranges DEF Stall, fsm, aw, w, Neighbours, IInv, TypeOK, Lines, Account, Writing
<1>3. Whole'
  BY SizeOfJob, Ranges DEF Stall, fsm, aw, w, Neighbours, IInv, TypeOK, Lines, Whole, Writing
<1>4. Numbers'
  BY SizeOfJob, Ranges DEF Stall, fsm, aw, w, Neighbours, IInv, TypeOK, Lines, Numbers, Account, Writing
<1>5. LineTypes'
  BY DEF Stall, fsm, aw, w, IInv, TypeOK, FsmState, LineTypes
<1> QED
  BY <1>1, <1>2, <1>3, <1>4, <1>5 DEF Preserved

-----------------------------------------------------------------------------

LEMMA FsmStep ==
  ASSUME IInv, NEW awready \in BOOLEAN, NEW wready \in BOOLEAN, Edge(awready, wready)
  PROVE  Preserved
<1>1. FsmEdge(awready, wready)
  BY DEF Edge
<1>2. Neighbours(awready, wready)
  BY NeighboursMove
<1>3. CASE Hold
  BY <1>2, <1>3, HoldKeeps
<1>4. CASE ~rst_busy /\ Idle
  BY <1>2, <1>4, IdleKeeps
<1>5. CASE ~rst_busy /\ Start
  BY <1>2, <1>5, StartKeeps
<1>6. CASE ~rst_busy /\ RequestBurst
  BY <1>2, <1>6, RequestBurstKeeps
<1>7. CASE ~rst_busy /\ RequestTaken(awready)
  BY <1>2, <1>7, RequestTakenKeeps
<1>8. CASE ~rst_busy /\ TakeWord
  BY <1>2, <1>8, TakeWordKeeps
<1>9. CASE ~rst_busy /\ BeatWritten(wready)
  BY <1>2, <1>9, BeatWrittenKeeps
<1>10. CASE ~rst_busy /\ BurstAnswered
  BY <1>2, <1>10, BurstAnsweredKeeps
<1>11. CASE ~rst_busy /\ NextBurst
  BY <1>2, <1>11, NextBurstKeeps
<1>12. CASE ~rst_busy /\ Finish
  BY <1>2, <1>12, FinishKeeps
<1>13. CASE ~rst_busy /\ Stall(awready, wready)
  BY <1>2, <1>13, StallKeeps
<1> QED
  BY <1>1, <1>3, <1>4, <1>5, <1>6, <1>7, <1>8, <1>9, <1>10, <1>11, <1>12, <1>13 DEF FsmEdge

LEMMA StepInv == ASSUME IInv, [Next]_vars PROVE IInv'
<1>1. CASE Next
  <2>1. PICK awready \in BOOLEAN, wready \in BOOLEAN : Edge(awready, wready)
    BY <1>1 DEF Next
  <2>2. Preserved
    BY <2>1, FsmStep
  <2>3. ControlEdge /\ MemoryEdge(awready, wready) /\ FifoEdge
    BY <2>1 DEF Edge
  <2>4. answer' \in {"none", "due", "offered"}
    BY <2>3, MemoryMoves
  <2>5. tvalid' \in BOOLEAN
    BY <2>3 DEF FifoEdge
  <2>6. /\ num_elements' \in Sizes /\ start' \in BOOLEAN /\ rst_busy' \in BOOLEAN
        /\ jobs' \in 0..MaxJobs
    BY <2>3, JobStays
  <2>7. TypeOK'
    BY <2>2, <2>4, <2>5, <2>6 DEF Preserved, Numbers, LineTypes, TypeOK
  <2> QED
    BY <2>2, <2>7 DEF Preserved, IInv
<1>2. CASE UNCHANGED vars
  BY <1>2 DEF IInv, TypeOK, Lines, Account, Whole, Writing, Words, Wrap, Word, Aligned,
              vars, fsm, aw, w, control, memory
<1> QED
  BY <1>1, <1>2

\* The strengthening holds in every state the writer reaches.
THEOREM Inductive == Spec => []IInv
BY InitInv, StepInv, PTL DEF Spec

\* TypeOK for every instance.
THEOREM TypeCorrect == Spec => []TypeOK
<1>1. IInv => TypeOK
  BY DEF IInv
<1> QED
  BY <1>1, Inductive, PTL

\* Whatever the sizes, the burst length and the stalls of FIFO and memory, the
\* k-th word to leave the FIFO is offered for the k-th address, and WLAST stands
\* exactly with the beat the memory takes for the last.
THEOREM WordsInPlace == Spec => []InPlace
<1>1. IInv => InPlace
  BY DEF IInv, Lines, Account, InPlace, Writing
<1> QED
  BY <1>1, Inductive, PTL

\* The done pulse means that all words of the job, and no other, have gone from
\* the FIFO to memory and that no burst is owed a beat or an answer.
THEOREM DoneMeansComplete == Spec => []DoneComplete
<1>1. IInv => DoneComplete
  BY DEF IInv, Lines, Account, DoneComplete
<1> QED
  BY <1>1, Inductive, PTL

-----------------------------------------------------------------------------
(* The writer is a mover of words.                                          *)

StreamNeed == IF busy THEN Words(num_elements) ELSE 0

LEMMA StreamStep ==
  ASSUME IInv, [Next]_vars
  PROVE  [Stream!Next]_(Stream!vars)
<1>1. CASE Next
  <2>1. PICK awready \in BOOLEAN, wready \in BOOLEAN : Edge(awready, wready)
    BY <1>1 DEF Next
  <2>2. FsmEdge(awready, wready)
    BY <2>1 DEF Edge
  <2>3. Neighbours(awready, wready)
    BY <2>1, NeighboursMove
  <2>4. /\ num_elements \in Sizes /\ num_elements' \in Sizes
        /\ busy \/ start => num_elements' = num_elements
        /\ busy' /\ state = "S0" => sent' = 0
        /\ Writing /\ wready => sent' = sent + 1 /\ last' = beat_addr
        /\ ~(Writing /\ wready) => last' = last
        /\ ~(busy' /\ state = "S0") /\ ~(Writing /\ wready) => sent' = sent
    BY <2>3 DEF Neighbours
  <2>5. (busy <=> state # "S0") /\ (rst_busy => state = "S0") /\ busy \in BOOLEAN
    BY DEF IInv, Lines, TypeOK
  <2>6. Words(num_elements) \in Nat \ {0}
    BY <2>4, SizeOfJob
  <2>7. CASE busy' = busy /\ ~(Writing /\ wready)
    <3>1. sent' = sent /\ last' = last
      BY <2>4, <2>5, <2>7
    <3>2. StreamNeed' = StreamNeed
      BY <2>4, <2>7 DEF StreamNeed, Words
    <3> QED
      BY <2>7, <3>1, <3>2 DEF Stream!vars, StreamNeed
  <2>8. CASE ~rst_busy /\ Start
    <3>1. /\ ~busy /\ busy' = TRUE /\ sent' = 0 /\ last' = last
          /\ StreamNeed' = Words(num_elements)
      BY <2>4, <2>5, <2>8 DEF Start, Writing, StreamNeed, Words
    <3> QED
      BY <3>1, <2>6 DEF Stream!Next, Stream!Begin, StreamNeed
  <2>9. CASE ~rst_busy /\ BeatWritten(wready)
    <3>1. busy /\ busy' = busy /\ Writing /\ wready
      BY <2>5, <2>9 DEF BeatWritten, Writing
    <3>2. sent' = sent + 1 /\ last' = beat_addr
      BY <2>4, <3>1
    <3>3. beat_addr = Word(sent) /\ beats > 0 /\ sent + beats <= Words(num_elements)
      BY <3>1 DEF IInv, Account
    <3>4. sent < Words(num_elements)
      <4>1. sent \in Nat /\ beats \in Nat
        BY Ranges DEF IInv, TypeOK
      <4> QED
        BY <4>1, <3>3, <2>6
    <3>5. StreamNeed = Words(num_elements) /\ StreamNeed' = StreamNeed
      BY <2>4, <3>1 DEF StreamNeed, Words
    <3>6. beat_addr = Stream!Word(sent)
      BY <3>3 DEF Word, Stream!Word
    <3> QED
      BY <3>1, <3>2, <3>4, <3>5, <3>6 DEF Stream!Next, Stream!Deliver, StreamNeed
  <2>10. CASE ~rst_busy /\ Finish
    <3>1. busy /\ busy' = FALSE /\ ~Writing
      BY <2>5, <2>10 DEF Finish, Writing
    <3>2. sent' = sent /\ last' = last
      BY <2>4, <3>1
    <3>3. sent = Words(num_elements)
      <4>1. /\ element_counter = num_elements /\ element_counter = Wrap(sent)
            /\ sent > 0 /\ sent <= Words(num_elements)
        BY <2>10 DEF Finish, IInv, Account
      <4>2. sent \in Nat
        BY Ranges DEF IInv, TypeOK
      <4> QED
        BY <4>1, <4>2, <2>4, CounterAtSize
    <3>4. StreamNeed = Words(num_elements) /\ StreamNeed' = 0
      BY <3>1 DEF StreamNeed
    <3> QED
      BY <3>1, <3>2, <3>3, <3>4 DEF Stream!Next, Stream!Finish, StreamNeed
  <2>11. CASE Hold
    BY <2>5, <2>7, <2>11 DEF Hold, fsm, IInv, Lines, Writing
  <2>12. CASE ~rst_busy /\ (Idle \/ RequestBurst \/ RequestTaken(awready) \/ TakeWord
                            \/ BurstAnswered \/ NextBurst \/ Stall(awready, wready))
    <3>1. busy' = busy /\ ~(Writing /\ wready)
      BY <2>12 DEF Idle, RequestBurst, RequestTaken, TakeWord, BurstAnswered, NextBurst, Stall,
                   fsm, Writing
    <3> QED
      BY <3>1, <2>7
  <2> QED
    BY <2>2, <2>8, <2>9, <2>10, <2>11, <2>12 DEF FsmEdge
<1>2. CASE UNCHANGED vars
  BY <1>2 DEF vars, fsm, control, Stream!vars
<1> QED
  BY <1>1, <1>2

\* The writer implements StreamCopy: the places of each job, each once and in
\* order, and rest after the last one.
THEOREM WriterRefinement == Spec => ImplementsStream
<1>1. Init => Stream!Init
  BY DEF Init, Stream!Init
<1> QED
  BY <1>1, Inductive, StreamStep, PTL DEF Spec, Stream!Spec, ImplementsStream
=============================================================================
