---------------------- MODULE FifoReadInterface_proofs ----------------------
(***************************************************************************)
(* Proofs about the reader, for every base address, burst length, counter  *)
(* width, FIFO and set of sizes, the size of 0 (for which the counter runs *)
(* once round) included, and every stall of memory, FIFO and consumer.     *)
(***************************************************************************)
EXTENDS FifoReadInterface, TLAPS

\* The counter after n words: it has run round when it stands at 0 again.
Wrap(n) == IF n = CounterSpace THEN 0 ELSE n

Aligned(n) == \E k \in Nat : n = k * MaxBurst

Pushing == state \in {"S5_ROW_NOT_LAST", "S5_ROW_LAST"}

\* A word is in the stream register.
Holding == Pushing \/ state \in {"S4_ROW_NOT_LAST", "S4_ROW_LAST"}

Last == state \in {"S4_ROW_LAST", "S5_ROW_LAST"}

\* The output lines are those of the state, and the inputs come when the
\* reader can take them.
Lines ==
  /\ busy <=> (state # "S0")
  /\ arvalid <=> (state = "S2_ROW")
  /\ rready <=> (state = "S3_ROW")
  /\ tvalid <=> Pushing
  /\ rst_busy => state = "S0" /\ ~start /\ ~done
  /\ start => state = "S0"
  /\ rvalid => beats > 0

\* Where the words are: pushed, in the stream register, owed by the memory, or
\* still to be asked for; together they never exceed the job.
Account ==
  /\ state # "S0" => element_counter = Wrap(sent)
  /\ state = "S0" => element_counter = 0 /\ beats = 0
  /\ state = "S1_ROW" => beats = 0 /\ sent < Words(num_elements)
  /\ state = "S2_ROW" =>
       beats = 0 /\ araddr = Word(sent) /\ sent + arlen + 1 <= Words(num_elements)
  /\ state = "S3_ROW" =>
       beats > 0 /\ beat_addr = Word(sent) /\ sent + beats <= Words(num_elements)
  /\ Holding =>
       /\ tdata = Word(sent) /\ beat_addr = Word(sent + 1)
       /\ sent + 1 + beats <= Words(num_elements)
       /\ Last <=> beats = 0
  /\ state = "S6_ROW" => beats = 0 /\ sent > 0 /\ sent <= Words(num_elements)
  /\ done => state = "S0" /\ sent = Words(num_elements)

\* A job of size 0 is made of whole bursts: that is why its counter stands at 0
\* again at the end of one.
Whole ==
  num_elements = 0 =>
    /\ state \in {"S1_ROW", "S2_ROW", "S6_ROW"} => Aligned(sent)
    /\ state = "S2_ROW" => arlen + 1 = MaxBurst
    /\ state = "S3_ROW" => Aligned(sent + beats)
    /\ Holding => Aligned(sent + 1 + beats)

IInv == TypeOK /\ Lines /\ Account /\ Whole /\ InOrder

-----------------------------------------------------------------------------

LEMMA Ranges ==
  /\ MaxBurst \in Nat /\ MaxBurst > 0
  /\ CounterSpace \in Nat /\ CounterSpace > 0
  /\ Base \in Nat /\ Sizes \subseteq 0..CounterSpace-1
  /\ Depth \in Nat /\ Depth > 0 /\ MaxJobs \in Nat
  /\ \A n \in Nat : Word(n) \in Nat /\ Word(n + 1) = Word(n) + 4
BY BurstAssumption, SizesAssumption, FifoAssumption DEF Word

\* Every job has a word, and no more than the counter counts.
LEMMA SizeOfJob ==
  ASSUME NEW n \in Sizes
  PROVE  /\ n \in Nat /\ Words(n) \in 1..CounterSpace
         /\ n # 0 => Words(n) = n /\ n < CounterSpace
         /\ n = 0 => Words(n) = CounterSpace
BY Ranges DEF Words

\* The counter stands at the size when the job is over, and not before.
LEMMA CounterAtSize ==
  ASSUME NEW n \in Sizes, NEW s \in Nat, s > 0, s <= Words(n)
  PROVE  Wrap(s) = n <=> s = Words(n)
BY SizeOfJob, Ranges DEF Wrap

LEMMA CounterCounts ==
  ASSUME NEW s \in Nat, s < CounterSpace
  PROVE  /\ Wrap(s) = s
         /\ Inc(Wrap(s)) = Wrap(s + 1)
         /\ Wrap(s + 1) \in 0..CounterSpace-1
BY Ranges DEF Wrap, Inc

\* Where whole bursts have gone, another whole one has room.
LEMMA WholeBurstFits ==
  ASSUME NEW s \in Nat, s < CounterSpace, Aligned(s)
  PROVE  s + MaxBurst <= CounterSpace /\ Aligned(s + MaxBurst)
<1>1. PICK k \in Nat : s = k * MaxBurst
  BY DEF Aligned
<1>2. PICK m \in Int : CounterSpace = m * MaxBurst
  <2> DEFINE q == CounterSpace \div MaxBurst
  <2>1. q \in Int /\ CounterSpace = (MaxBurst * q) + (CounterSpace % MaxBurst)
    BY Ranges
  <2>2. CounterSpace = q * MaxBurst
    BY <2>1, BurstAssumption
  <2> QED
    BY <2>1, <2>2
<1>3. k < m
  <2> SUFFICES ASSUME m <= k PROVE FALSE
    BY <1>1, <1>2
  <2>1. m * MaxBurst <= k * MaxBurst
    BY <1>2, Ranges
  <2> QED
    BY <2>1, <1>1, <1>2, Ranges
<1>4. (k + 1) * MaxBurst <= m * MaxBurst
  BY <1>2, <1>3, Ranges
<1>5. (k + 1) * MaxBurst = s + MaxBurst
  BY <1>1, Ranges
<1>6. Aligned(s + MaxBurst)
  BY <1>5 DEF Aligned
<1> QED
  BY <1>2, <1>4, <1>5, <1>6

\* A burst asked for has at least one beat and none beyond the job.
LEMMA ArLenBound ==
  ASSUME NEW n \in Sizes, NEW s \in Nat, s < Words(n), n = 0 => Aligned(s)
  PROVE  /\ ArLen(n, s) \in 0..MaxBurst-1
         /\ s + ArLen(n, s) + 1 <= Words(n)
         /\ n = 0 => ArLen(n, s) + 1 = MaxBurst
<1>1. CASE n = 0
  <2>1. ~(n - s \in 1..MaxBurst)
    BY <1>1
  <2>2. ArLen(n, s) = MaxBurst - 1
    BY <2>1 DEF ArLen
  <2>3. s + MaxBurst <= Words(n)
    BY <1>1, SizeOfJob, WholeBurstFits
  <2> QED
    BY <1>1, <2>2, <2>3, SizeOfJob, Ranges
<1>2. CASE n # 0
  BY <1>2, SizeOfJob, Ranges DEF ArLen
<1> QED
  BY <1>1, <1>2

LEMMA InitInv == Init => IInv
<1> SUFFICES ASSUME Init PROVE IInv
  OBVIOUS
<1>1. TypeOK
  <2>1. /\ 0 \in 0..CounterSpace-1 /\ 0 \in 0..MaxBurst-1 /\ 0 \in 0..MaxBurst
        /\ 0 \in 0..CounterSpace /\ 0 \in 0..MaxJobs
    BY Ranges
  <2>2. fifo \in Seq(Nat) /\ Len(fifo) <= Depth
    BY Ranges DEF Init
  <2> QED
    BY <2>1, <2>2, Ranges DEF Init, TypeOK, FsmState
<1>2. Lines /\ Account /\ Whole
  BY DEF Init, Lines, Account, Whole, Pushing, Holding, Last
<1>3. InOrder
  BY DEF Init, InOrder
<1> QED
  BY <1>1, <1>2, <1>3 DEF IInv

-----------------------------------------------------------------------------
(* What each neighbour of the state machine does at an edge.                *)

\* The job at work does not change.
LEMMA JobStays ==
  ASSUME IInv, ControlEdge
  PROVE  /\ num_elements \in Sizes
         /\ busy \/ start => num_elements' = num_elements
         /\ start' => ~rst_busy' /\ ~busy /\ ~start
         /\ num_elements' \in Sizes
         /\ start' \in BOOLEAN /\ rst_busy' \in BOOLEAN
         /\ rst_busy' => rst_busy
         /\ jobs' \in 0..MaxJobs
<1>1. jobs' \in 0..MaxJobs
  <2>1. jobs \in 0..MaxJobs /\ MaxJobs \in Nat
    BY Ranges DEF IInv, TypeOK
  <2> QED
    BY <2>1 DEF ControlEdge
<1> QED
  BY <1>1 DEF ControlEdge, IInv, TypeOK

\* What the FIFO gains is the word the stream register holds.
LEMMA FifoStep ==
  ASSUME IInv, NEW tready \in BOOLEAN, FifoEdge(tready), Record(tready)
  PROVE  /\ fifo' \in Seq(Nat) /\ Len(fifo') <= Depth
         /\ InOrder'
<1> DEFINE rest(pop) == IF pop THEN Tail(fifo) ELSE fifo
<1>1. PICK pop \in BOOLEAN :
        /\ pop => fifo # <<>>
        /\ fifo' = IF tvalid /\ tready THEN Append(rest(pop), tdata) ELSE rest(pop)
  BY DEF FifoEdge
<1>2. fifo \in Seq(Nat) /\ Len(fifo) <= Depth /\ Len(fifo) \in Nat /\ tdata \in Nat /\ sent \in Nat
  BY Ranges DEF IInv, TypeOK
<1>3. /\ rest(pop) \in Seq(Nat)
      /\ Len(rest(pop)) <= Len(fifo)
      /\ \A i \in 1..Len(rest(pop)) : rest(pop)[i] = fifo[i + Len(fifo) - Len(rest(pop))]
  <2>1. CASE pop
    <3>1. /\ Tail(fifo) \in Seq(Nat)
          /\ Len(Tail(fifo)) = Len(fifo) - 1
          /\ \A i \in 1..Len(Tail(fifo)) : Tail(fifo)[i] = fifo[i + 1]
      BY <1>1, <1>2, <2>1
    <3>2. rest(pop) = Tail(fifo)
      BY <2>1
    <3> HIDE DEF rest
    <3>3. ASSUME NEW i \in 1..Len(Tail(fifo))
          PROVE  i + Len(fifo) - Len(Tail(fifo)) = i + 1
      BY <3>1, <1>2
    <3> QED
      BY <3>1, <3>2, <3>3, <1>2
  <2>2. CASE ~pop
    <3>1. rest(pop) = fifo
      BY <2>2
    <3> HIDE DEF rest
    <3>2. \A i \in 1..Len(fifo) : i + Len(fifo) - Len(fifo) = i
      BY <1>2
    <3> QED
      BY <3>1, <3>2, <1>2
  <2> QED
    BY <2>1, <2>2
<1> HIDE DEF rest
<1>4. \A i \in 1..Len(rest(pop)) :
        Len(rest(pop)) - i < sent => rest(pop)[i] = Word(sent - 1 - (Len(rest(pop)) - i))
  <2> SUFFICES ASSUME NEW i \in 1..Len(rest(pop)), Len(rest(pop)) - i < sent
               PROVE  rest(pop)[i] = Word(sent - 1 - (Len(rest(pop)) - i))
    OBVIOUS
  <2> DEFINE j == i + Len(fifo) - Len(rest(pop))
  <2>1. j \in 1..Len(fifo) /\ Len(fifo) - j = Len(rest(pop)) - i
    BY <1>2, <1>3
  <2>2. rest(pop)[i] = fifo[j]
    BY <1>3
  <2> QED
    BY <2>1, <2>2 DEF IInv, InOrder
<1>5. CASE tvalid /\ tready
  <2>1. fifo' = Append(rest(pop), tdata) /\ sent' \in {0, sent + 1}
    BY <1>1, <1>5 DEF Record
  <2>2. tdata = Word(sent)
    BY <1>5 DEF IInv, Lines, Account, Holding
  <2>3. Len(fifo) < Depth
    BY <1>5 DEF FifoEdge
  <2>4. fifo' \in Seq(Nat) /\ Len(fifo') = Len(rest(pop)) + 1
    BY <2>1, <1>2, <1>3
  <2>5. ASSUME NEW i \in 1..Len(fifo'), Len(fifo') - i < sent'
        PROVE  fifo'[i] = Word(sent' - 1 - (Len(fifo') - i))
    <3>1. sent' = sent + 1
      BY <2>1, <2>4, <2>5, <1>3
    <3>2. CASE i = Len(rest(pop)) + 1
      <4>1. fifo'[i] = tdata
        BY <3>2, <2>1, <1>3
      <4>2. sent' - 1 - (Len(fifo') - i) = sent
        BY <3>1, <3>2, <2>4, <1>2, <1>3
      <4> QED
        BY <4>1, <4>2, <2>2
    <3>3. CASE i \in 1..Len(rest(pop))
      <4>1. fifo'[i] = rest(pop)[i]
        BY <3>3, <2>1, <1>3
      <4>2. Len(rest(pop)) - i < sent
            /\ sent' - 1 - (Len(fifo') - i) = sent - 1 - (Len(rest(pop)) - i)
        BY <3>1, <3>3, <2>4, <2>5, <1>2, <1>3
      <4> QED
        BY <4>1, <4>2, <3>3, <1>4
    <3> QED
      BY <3>2, <3>3, <2>4, <2>5, <1>3
  <2>6. Len(fifo') <= Depth
    BY <2>3, <2>4, <1>2, <1>3, Ranges
  <2>7. InOrder'
    BY <2>5 DEF InOrder
  <2> QED
    BY <2>4, <2>6, <2>7
<1>6. CASE ~(tvalid /\ tready)
  <2>1. fifo' = rest(pop) /\ sent' \in {0, sent}
    BY <1>1, <1>6 DEF Record
  <2>2. fifo' \in Seq(Nat) /\ Len(fifo') <= Depth
    BY <2>1, <1>2, <1>3, Ranges
  <2>3. ASSUME NEW i \in 1..Len(fifo'), Len(fifo') - i < sent'
        PROVE  sent' = sent
    BY <2>1, <2>2, <2>3
  <2>4. ASSUME NEW i \in 1..Len(fifo'), Len(fifo') - i < sent'
        PROVE  fifo'[i] = Word(sent' - 1 - (Len(fifo') - i))
    BY <2>1, <2>3, <2>4, <1>4
  <2>5. InOrder'
    BY <2>4 DEF InOrder
  <2> QED
    BY <2>2, <2>5
<1> QED
  BY <1>5, <1>6

\* What the memory does in each state: it takes the request in S2_ROW, hands
\* over a beat in S3_ROW, and otherwise only makes offers.
LEMMA MemoryMoves ==
  ASSUME IInv, NEW arready \in BOOLEAN, MemoryEdge(arready)
  PROVE  /\ rvalid' \in BOOLEAN
         /\ rvalid' => beats' > 0
         /\ state = "S2_ROW" /\ arready => beat_addr' = araddr /\ beats' = arlen + 1
         /\ state = "S3_ROW" /\ rvalid => beat_addr' = beat_addr + 4 /\ beats' = beats - 1
         /\ ~(state = "S2_ROW" /\ arready) /\ ~(state = "S3_ROW" /\ rvalid)
              => beat_addr' = beat_addr /\ beats' = beats
<1>1. /\ beats \in Nat /\ arlen \in Nat
      /\ rvalid => beats > 0
      /\ arvalid <=> state = "S2_ROW"
      /\ rready <=> state = "S3_ROW"
      /\ rvalid \in BOOLEAN
  BY Ranges DEF IInv, TypeOK, Lines
<1>2. state = "S2_ROW" => beats = 0
  BY DEF IInv, Account
<1>3. CASE arvalid /\ arready /\ beats = 0 /\ beat_addr' = araddr /\ beats' = arlen + 1
           /\ rvalid' \in BOOLEAN
  BY <1>1, <1>3
<1>4. CASE /\ ~(arvalid /\ arready) /\ rvalid /\ rready
           /\ beat_addr' = beat_addr + 4 /\ beats' = beats - 1
           /\ rvalid' \in (IF beats = 1 THEN {FALSE} ELSE BOOLEAN)
  <2>1. state = "S3_ROW" /\ beats > 0
    BY <1>1, <1>4
  <2>2. rvalid' \in BOOLEAN /\ (rvalid' => beats # 1)
    BY <1>4
  <2> QED
    BY <2>1, <2>2, <1>1, <1>4
<1>5. CASE /\ ~(arvalid /\ arready) /\ ~(rvalid /\ rready)
           /\ rvalid' \in (IF rvalid THEN {TRUE} ELSE IF beats > 0 THEN BOOLEAN ELSE {FALSE})
           /\ UNCHANGED <<beat_addr, beats>>
  BY <1>1, <1>5
<1> QED
  BY <1>3, <1>4, <1>5 DEF MemoryEdge

\* What the histories record.
LEMMA RecordMoves ==
  ASSUME IInv, NEW tready \in BOOLEAN, Record(tready)
  PROVE  /\ busy' /\ state = "S0" => sent' = 0
         /\ Pushing /\ tready => sent' = sent + 1 /\ last' = tdata
         /\ ~(busy' /\ state = "S0") /\ ~(Pushing /\ tready) => sent' = sent
         /\ ~(Pushing /\ tready) => last' = last
BY DEF Record, IInv, Lines, Pushing

-----------------------------------------------------------------------------
(* The moves of the state machine.                                          *)

\* What the neighbours do at an edge, in terms of the state alone.
Neighbours(arready, tready) ==
  /\ num_elements \in Sizes /\ num_elements' \in Sizes
  /\ busy \/ start => num_elements' = num_elements
  /\ start' => ~rst_busy' /\ ~busy /\ ~start
  /\ rst_busy' => rst_busy
  /\ rvalid' => beats' > 0
  /\ state = "S2_ROW" /\ arready => beat_addr' = araddr /\ beats' = arlen + 1
  /\ state = "S3_ROW" /\ rvalid => beat_addr' = beat_addr + 4 /\ beats' = beats - 1
  /\ ~(state = "S2_ROW" /\ arready) /\ ~(state = "S3_ROW" /\ rvalid)
       => beat_addr' = beat_addr /\ beats' = beats
  /\ busy' /\ state = "S0" => sent' = 0
  /\ Pushing /\ tready => sent' = sent + 1 /\ last' = tdata
  /\ ~(busy' /\ state = "S0") /\ ~(Pushing /\ tready) => sent' = sent
  /\ ~(Pushing /\ tready) => last' = last

LEMMA NeighboursMove ==
  ASSUME IInv, NEW arready \in BOOLEAN, NEW tready \in BOOLEAN, Edge(arready, tready)
  PROVE  Neighbours(arready, tready)
<1>1. ControlEdge /\ MemoryEdge(arready) /\ Record(tready)
  BY DEF Edge
<1>2. /\ num_elements \in Sizes /\ num_elements' \in Sizes
      /\ busy \/ start => num_elements' = num_elements
      /\ start' => ~rst_busy' /\ ~busy /\ ~start
      /\ rst_busy' => rst_busy
  BY <1>1, JobStays
<1>3. /\ rvalid' => beats' > 0
      /\ state = "S2_ROW" /\ arready => beat_addr' = araddr /\ beats' = arlen + 1
      /\ state = "S3_ROW" /\ rvalid => beat_addr' = beat_addr + 4 /\ beats' = beats - 1
      /\ ~(state = "S2_ROW" /\ arready) /\ ~(state = "S3_ROW" /\ rvalid)
           => beat_addr' = beat_addr /\ beats' = beats
  BY <1>1, MemoryMoves
<1>4. /\ busy' /\ state = "S0" => sent' = 0
      /\ Pushing /\ tready => sent' = sent + 1 /\ last' = tdata
      /\ ~(busy' /\ state = "S0") /\ ~(Pushing /\ tready) => sent' = sent
      /\ ~(Pushing /\ tready) => last' = last
  BY <1>1, RecordMoves
<1> QED
  BY <1>2, <1>3, <1>4 DEF Neighbours

\* The numbers of the reader and of its memory are in their ranges.
Numbers ==
  /\ element_counter \in 0..CounterSpace-1
  /\ araddr \in Nat /\ arlen \in 0..MaxBurst-1 /\ tdata \in Nat
  /\ beat_addr \in Nat /\ beats \in 0..MaxBurst
  /\ sent \in 0..CounterSpace /\ last \in Nat

LineTypes ==
  /\ state \in FsmState
  /\ busy \in BOOLEAN /\ done \in BOOLEAN
  /\ arvalid \in BOOLEAN /\ rready \in BOOLEAN /\ tvalid \in BOOLEAN

Preserved == Lines' /\ Account' /\ Whole' /\ Numbers' /\ LineTypes'

\* While the FIFO resets itself nothing moves.
LEMMA HoldKeeps ==
  ASSUME IInv, NEW arready \in BOOLEAN, NEW tready \in BOOLEAN,
         Neighbours(arready, tready), Hold
  PROVE  Preserved
<1>1. Lines'
  BY DEF Hold, fsm, axi, axis, Neighbours, IInv, Lines, Pushing
<1>2. Account'
  BY SizeOfJob, Ranges
  DEF Hold, fsm, axi, axis, Neighbours, IInv, TypeOK, Lines, Account, Pushing, Holding, Last
<1>3. Whole'
  BY SizeOfJob, Ranges
  DEF Hold, fsm, axi, axis, Neighbours, IInv, TypeOK, Lines, Whole, Pushing, Holding, Last
<1>4. Numbers'
  BY SizeOfJob, Ranges
  DEF Hold, fsm, axi, axis, Neighbours, IInv, TypeOK, Lines, Numbers, Account, Pushing, Holding, Last
<1>5. LineTypes'
  BY DEF Hold, fsm, axi, axis, IInv, TypeOK, FsmState, LineTypes
<1> QED
  BY <1>1, <1>2, <1>3, <1>4, <1>5 DEF Preserved

\* At rest the done pulse ends.
LEMMA IdleKeeps ==
  ASSUME IInv, NEW arready \in BOOLEAN, NEW tready \in BOOLEAN,
         Neighbours(arready, tready), Idle
  PROVE  Preserved
<1>1. Lines'
  BY DEF Idle, axi, axis, Neighbours, IInv, Lines, Pushing
<1>2. Account'
  BY SizeOfJob, Ranges
  DEF Idle, axi, axis, Neighbours, IInv, TypeOK, Lines, Account, Pushing, Holding, Last
<1>3. Whole'
  BY SizeOfJob, Ranges
  DEF Idle, axi, axis, Neighbours, IInv, TypeOK, Lines, Whole, Pushing, Holding, Last
<1>4. Numbers'
  BY SizeOfJob, Ranges
  DEF Idle, axi, axis, Neighbours, IInv, TypeOK, Lines, Numbers, Account, Pushing, Holding, Last
<1>5. LineTypes'
  BY DEF Idle, axi, axis, IInv, TypeOK, FsmState, LineTypes
<1> QED
  BY <1>1, <1>2, <1>3, <1>4, <1>5 DEF Preserved

\* A start pulse begins a job with a word to read.
LEMMA StartKeeps ==
  ASSUME IInv, NEW arready \in BOOLEAN, NEW tready \in BOOLEAN,
         Neighbours(arready, tready), ~rst_busy, Start
  PROVE  Preserved
<1>1. Lines'
  BY DEF Start, axi, axis, Neighbours, IInv, Lines, Pushing
<1>2. Account'
  <2>1. state' = "S1_ROW" /\ sent' = 0 /\ beats' = 0 /\ element_counter' = 0 /\ done' = FALSE
    BY DEF Start, Neighbours, IInv, Account, Pushing
  <2>2. Words(num_elements') \in Nat /\ 0 < Words(num_elements')
    BY SizeOfJob DEF Neighbours
  <2>3. Words(num_elements)' = Words(num_elements')
    BY DEF Words
  <2>4. Wrap(sent)' = 0
    BY <2>1, Ranges DEF Wrap
  <2> QED
    BY <2>1, <2>2, <2>3, <2>4 DEF Account, Pushing, Holding
<1>3. Whole'
  <2>1. state' = "S1_ROW" /\ sent' = 0
    BY DEF Start, Neighbours
  <2>2. Aligned(0)
    BY Ranges DEF Aligned
  <2>3. Aligned(sent)'
    BY <2>1, <2>2 DEF Aligned
  <2> QED
    BY <2>1, <2>3 DEF Whole, Pushing, Holding
<1>4. Numbers'
  BY SizeOfJob, Ranges
  DEF Start, axi, axis, Neighbours, IInv, TypeOK, Lines, Numbers, Account, Pushing, Holding, Last
<1>5. LineTypes'
  BY DEF Start, axi, axis, IInv, TypeOK, FsmState, LineTypes
<1> QED
  BY <1>1, <1>2, <1>3, <1>4, <1>5 DEF Preserved

\* A burst is asked for from the next place, and not beyond the job.
LEMMA RequestBurstKeeps ==
  ASSUME IInv, NEW arready \in BOOLEAN, NEW tready \in BOOLEAN,
         Neighbours(arready, tready), RequestBurst
  PROVE  Preserved
<1>1. /\ state = "S1_ROW" /\ state' = "S2_ROW" /\ busy /\ ~done /\ done' = done
      /\ araddr' = Word(element_counter) /\ arlen' = ArLen(num_elements, element_counter)
      /\ element_counter' = element_counter
      /\ num_elements \in Sizes /\ num_elements' = num_elements
      /\ sent' = sent /\ beats' = beats
  <2>1. /\ state = "S1_ROW" /\ state' = "S2_ROW" /\ busy /\ ~done /\ done' = done
        /\ araddr' = Word(element_counter) /\ arlen' = ArLen(num_elements, element_counter)
        /\ element_counter' = element_counter
    BY DEF RequestBurst, IInv, Lines, Account
  <2> QED
    BY <2>1 DEF Neighbours, Pushing
<1>2. /\ beats = 0 /\ element_counter = Wrap(sent)
      /\ sent \in Nat /\ sent < Words(num_elements)
      /\ num_elements = 0 => Aligned(sent)
  <2>1. sent \in Nat
    BY Ranges DEF IInv, TypeOK
  <2>2. num_elements = 0 => Aligned(sent)
    BY <1>1 DEF IInv, Whole
  <2>3. beats = 0 /\ element_counter = Wrap(sent) /\ sent < Words(num_elements)
    <3>1. state = "S1_ROW" /\ state # "S0"
      BY <1>1
    <3>2. Account
      BY DEF IInv
    <3> QED
      BY <3>1, <3>2 DEF Account
  <2> QED
    BY <2>1, <2>2, <2>3
<1>3. element_counter = sent
  <2>1. Words(num_elements) \in 1..CounterSpace
    BY <1>1, SizeOfJob
  <2>2. sent < CounterSpace
    BY <2>1, <1>2, Ranges
  <2> QED
    BY <2>2, <1>2, CounterCounts
<1>4. /\ arlen' \in 0..MaxBurst-1
      /\ sent + arlen' + 1 <= Words(num_elements)
      /\ num_elements = 0 => arlen' + 1 = MaxBurst
  BY <1>1, <1>2, <1>3, ArLenBound
<1>5. Words(num_elements)' = Words(num_elements) /\ Wrap(sent)' = Wrap(sent)
      /\ Word(sent)' = Word(sent) /\ (Aligned(sent)' <=> Aligned(sent))
  BY <1>1 DEF Words, Wrap, Word, Aligned
<1>6. Lines'
  BY DEF RequestBurst, axi, axis, Neighbours, IInv, Lines, Pushing
<1>7. Account'
  BY <1>1, <1>2, <1>3, <1>4, <1>5 DEF Account, Pushing, Holding
<1>8. Whole'
  BY <1>1, <1>2, <1>4, <1>5 DEF Whole, Pushing, Holding
<1>9. Numbers'
  BY <1>1, <1>2, <1>3, <1>4, Ranges
  DEF RequestBurst, axis, Neighbours, IInv, TypeOK, Pushing, Numbers
<1>10. LineTypes'
  BY DEF RequestBurst, axi, axis, IInv, TypeOK, FsmState, LineTypes
<1> QED
  BY <1>6, <1>7, <1>8, <1>9, <1>10 DEF Preserved

\* The memory owes as many beats as were asked for.
LEMMA RequestTakenKeeps ==
  ASSUME IInv, NEW arready \in BOOLEAN, NEW tready \in BOOLEAN,
         Neighbours(arready, tready), RequestTaken(arready)
  PROVE  Preserved
<1>1. Lines'
  BY DEF RequestTaken, axi, axis, Neighbours, IInv, Lines, Pushing
<1>2. Account'
  BY SizeOfJob, Ranges
  DEF RequestTaken, axi, axis, Neighbours, IInv, TypeOK, Lines, Account, Pushing, Holding, Last
<1>3. Whole'
  <2>1. /\ state = "S2_ROW" /\ state' = "S3_ROW" /\ beats' = arlen + 1 /\ sent' = sent
        /\ num_elements' = num_elements /\ num_elements \in Sizes /\ sent \in Nat
        /\ arlen \in Nat /\ sent + arlen + 1 <= Words(num_elements)
    BY Ranges DEF RequestTaken, Neighbours, IInv, TypeOK, Lines, Account, Pushing
  <2>2. ASSUME num_elements = 0 PROVE Aligned(sent' + beats')
    <3>1. Aligned(sent) /\ arlen + 1 = MaxBurst
      BY <2>1, <2>2 DEF IInv, Whole
    <3>2. sent < CounterSpace
      BY <2>1, <2>2, SizeOfJob
    <3> QED
      BY <2>1, <3>1, <3>2, WholeBurstFits
  <2>3. Aligned(sent + beats)' <=> Aligned(sent' + beats')
    BY DEF Aligned
  <2> QED
    BY <2>1, <2>2, <2>3 DEF Whole, Pushing, Holding
<1>4. Numbers'
  BY SizeOfJob, Ranges
  DEF RequestTaken, axi, axis, Neighbours, IInv, TypeOK, Lines, Numbers, Account, Pushing, Holding, Last
<1>5. LineTypes'
  BY DEF RequestTaken, axi, axis, IInv, TypeOK, FsmState, LineTypes
<1> QED
  BY <1>1, <1>2, <1>3, <1>4, <1>5 DEF Preserved

\* A beat goes from the memory to the stream register.
LEMMA TakeBeatKeeps ==
  ASSUME IInv, NEW arready \in BOOLEAN, NEW tready \in BOOLEAN,
         Neighbours(arready, tready), TakeBeat
  PROVE  Preserved
<1>1. /\ state = "S3_ROW" /\ rvalid /\ busy
      /\ state' = IF beats = 1 THEN "S4_ROW_LAST" ELSE "S4_ROW_NOT_LAST"
      /\ tdata' = beat_addr
      /\ UNCHANGED <<element_counter, busy, done, araddr, arlen, arvalid, tvalid>>
      /\ rready' = FALSE /\ ~done
  BY DEF TakeBeat, IInv, Lines, Account
<1>2. /\ beat_addr' = beat_addr + 4 /\ beats' = beats - 1
      /\ sent' = sent /\ last' = last
      /\ num_elements \in Sizes /\ num_elements' = num_elements
  BY <1>1 DEF Neighbours, Pushing
<1>3. /\ element_counter = Wrap(sent) /\ beats > 0 /\ beat_addr = Word(sent)
      /\ sent + beats <= Words(num_elements)
      /\ num_elements = 0 => Aligned(sent + beats)
  BY <1>1 DEF IInv, Account, Whole
<1>4. sent \in Nat /\ beats \in 0..MaxBurst /\ beat_addr \in Nat /\ Words(num_elements) \in Nat
  BY <1>2, SizeOfJob, Ranges DEF IInv, TypeOK
<1>5. /\ beat_addr' = Word(sent + 1) /\ beat_addr' \in Nat /\ beats' \in 0..MaxBurst
      /\ sent + 1 + beats' = sent + beats
      /\ state' = "S4_ROW_LAST" <=> beats' = 0
  BY <1>1, <1>2, <1>3, <1>4, Ranges
<1>6. Words(num_elements)' = Words(num_elements) /\ Wrap(sent)' = Wrap(sent)
      /\ Word(sent)' = Word(sent) /\ Word(sent + 1)' = Word(sent + 1)
      /\ (Aligned(sent + 1 + beats)' <=> Aligned(sent + 1 + beats'))
  BY <1>2 DEF Words, Wrap, Word, Aligned
<1>7. Lines'
  BY <1>1 DEF Neighbours, IInv, Lines, Pushing
<1>8. Account'
  BY <1>1, <1>2, <1>3, <1>5, <1>6 DEF Account, Holding, Pushing, Last
<1>9. Whole'
  BY <1>1, <1>2, <1>3, <1>5, <1>6 DEF Whole, Holding, Pushing
<1>10. Numbers'
  BY <1>1, <1>2, <1>4, <1>5 DEF IInv, TypeOK, Numbers
<1>11. LineTypes'
  BY <1>1 DEF IInv, TypeOK, FsmState, LineTypes
<1> QED
  BY <1>7, <1>8, <1>9, <1>10, <1>11 DEF Preserved

\* The word in the stream register is offered.
LEMMA OfferWordKeeps ==
  ASSUME IInv, NEW arready \in BOOLEAN, NEW tready \in BOOLEAN,
         Neighbours(arready, tready), OfferWord
  PROVE  Preserved
<1>1. Lines'
  BY DEF OfferWord, axi, axis, Neighbours, IInv, Lines, Pushing
<1>2. Account'
  BY SizeOfJob, Ranges
  DEF OfferWord, axi, axis, Neighbours, IInv, TypeOK, Lines, Account, Pushing, Holding, Last
<1>3. Whole'
  BY SizeOfJob, Ranges
  DEF OfferWord, axi, axis, Neighbours, IInv, TypeOK, Lines, Whole, Pushing, Holding, Last
<1>4. Numbers'
  BY SizeOfJob, Ranges
  DEF OfferWord, axi, axis, Neighbours, IInv, TypeOK, Lines, Numbers, Account, Pushing, Holding, Last
<1>5. LineTypes'
  BY DEF OfferWord, axi, axis, IInv, TypeOK, FsmState, LineTypes
<1> QED
  BY <1>1, <1>2, <1>3, <1>4, <1>5 DEF Preserved

\* A word goes from the stream register to the FIFO, and the counter goes on.
LEMMA WordTakenKeeps ==
  ASSUME IInv, NEW arready \in BOOLEAN, NEW tready \in BOOLEAN,
         Neighbours(arready, tready), WordTaken(tready)
  PROVE  Preserved
<1>1. /\ Pushing /\ tready /\ busy /\ ~done
      /\ state' = IF state = "S5_ROW_LAST" THEN "S6_ROW" ELSE "S3_ROW"
      /\ tvalid' = FALSE /\ rready' = (rready \/ state = "S5_ROW_NOT_LAST")
      /\ element_counter' = Inc(element_counter)
      /\ UNCHANGED <<busy, done, araddr, arlen, arvalid, tdata>>
  BY DEF WordTaken, IInv, Lines, Account, Pushing
<1>2. /\ sent' = sent + 1 /\ last' = tdata /\ beats' = beats /\ beat_addr' = beat_addr
      /\ num_elements \in Sizes /\ num_elements' = num_elements
  BY <1>1 DEF Neighbours, Pushing
<1>3. /\ element_counter = Wrap(sent) /\ tdata = Word(sent) /\ beat_addr = Word(sent + 1)
      /\ sent + 1 + beats <= Words(num_elements)
      /\ Last <=> beats = 0
      /\ num_elements = 0 => Aligned(sent + 1 + beats)
  BY <1>1 DEF IInv, Account, Whole, Holding, Pushing
<1>4. /\ sent \in Nat /\ beats \in 0..MaxBurst /\ tdata \in Nat
      /\ Words(num_elements) \in 1..CounterSpace
  BY <1>2, SizeOfJob, Ranges DEF IInv, TypeOK
<1>5. sent < CounterSpace /\ sent + 1 <= Words(num_elements)
  BY <1>3, <1>4, Ranges
<1>6. element_counter' = Wrap(sent') /\ element_counter' \in 0..CounterSpace-1
  BY <1>1, <1>2, <1>3, <1>4, <1>5, CounterCounts
<1>7. /\ state' = "S6_ROW" => beats' = 0
      /\ state' = "S3_ROW" => beats' # 0
      /\ state' \in {"S3_ROW", "S6_ROW"}
  BY <1>1, <1>2, <1>3 DEF Pushing, Last
<1>8. Words(num_elements)' = Words(num_elements) /\ Wrap(sent)' = Wrap(sent')
      /\ Word(sent)' = Word(sent') /\ (Aligned(sent)' <=> Aligned(sent'))
      /\ (Aligned(sent + beats)' <=> Aligned(sent' + beats'))
  BY <1>2 DEF Words, Wrap, Word, Aligned
<1>9. Lines'
  BY <1>1 DEF Neighbours, IInv, Lines, Pushing
<1>10. Account'
  <2>1. beats' # 0 => beats' > 0
    BY <1>2, <1>4
  <2>2. sent' > 0 /\ sent' <= Words(num_elements) /\ sent' + beats' <= Words(num_elements)
    BY <1>2, <1>3, <1>4, <1>5, Ranges
  <2> QED
    BY <2>1, <2>2, <1>1, <1>2, <1>3, <1>6, <1>7, <1>8 DEF Account, Holding, Pushing
<1>11. Whole'
  <2>1. sent' + beats' = sent + 1 + beats /\ (beats' = 0 => sent' + beats' = sent')
    BY <1>2, <1>4, Ranges
  <2> QED
    BY <2>1, <1>2, <1>3, <1>7, <1>8 DEF Whole, Holding, Pushing
<1>12. Numbers'
  <2>1. sent' \in 0..CounterSpace
    BY <1>2, <1>4, <1>5, Ranges
  <2> QED
    BY <2>1, <1>1, <1>2, <1>6 DEF IInv, TypeOK, Numbers
<1>13. LineTypes'
  <2>1. rready' \in BOOLEAN /\ state' \in FsmState
    BY <1>1, <1>7 DEF FsmState
  <2> QED
    BY <2>1, <1>1 DEF IInv, TypeOK, LineTypes
<1> QED
  BY <1>9, <1>10, <1>11, <1>12, <1>13 DEF Preserved

\* The counter is not at the size, so a word is left.
LEMMA NextBurstKeeps ==
  ASSUME IInv, NEW arready \in BOOLEAN, NEW tready \in BOOLEAN,
         Neighbours(arready, tready), NextBurst
  PROVE  Preserved
<1>1. /\ state = "S6_ROW" /\ state' = "S1_ROW" /\ element_counter # num_elements
      /\ UNCHANGED <<element_counter, busy, done, araddr, arlen, tdata>>
      /\ ~done /\ num_elements \in Sizes /\ num_elements' = num_elements
      /\ sent' = sent /\ last' = last /\ beats' = beats /\ beat_addr' = beat_addr
  BY DEF NextBurst, axi, axis, Neighbours, IInv, Lines, Account, Pushing
<1>2. /\ element_counter = Wrap(sent) /\ beats = 0
      /\ sent > 0 /\ sent <= Words(num_elements)
      /\ num_elements = 0 => Aligned(sent)
  BY <1>1 DEF IInv, Account, Whole
<1>3. sent \in Nat /\ Words(num_elements) \in Nat
  BY <1>1, SizeOfJob, Ranges DEF IInv, TypeOK
<1>4. sent < Words(num_elements)
  <2>1. sent # Words(num_elements)
    BY <1>1, <1>2, <1>3, CounterAtSize
  <2> QED
    BY <2>1, <1>2, <1>3
<1>5. Words(num_elements)' = Words(num_elements) /\ Wrap(sent)' = Wrap(sent)
      /\ (Aligned(sent)' <=> Aligned(sent))
  BY <1>1 DEF Words, Wrap, Aligned
<1>6. Lines'
  BY DEF NextBurst, axi, axis, Neighbours, IInv, Lines, Pushing
<1>7. Account'
  BY <1>1, <1>2, <1>4, <1>5 DEF Account, Holding, Pushing
<1>8. Whole'
  BY <1>1, <1>2, <1>5 DEF Whole, Holding, Pushing
<1>9. Numbers'
  BY <1>1 DEF IInv, TypeOK, Numbers
<1>10. LineTypes'
  BY DEF NextBurst, axi, axis, IInv, TypeOK, FsmState, LineTypes
<1> QED
  BY <1>6, <1>7, <1>8, <1>9, <1>10 DEF Preserved

\* The counter is at the size, so the job is done.
LEMMA FinishKeeps ==
  ASSUME IInv, NEW arready \in BOOLEAN, NEW tready \in BOOLEAN,
         Neighbours(arready, tready), Finish
  PROVE  Preserved
<1>1. Lines'
  BY DEF Finish, axi, axis, Neighbours, IInv, Lines, Pushing
<1>2. Account'
  <2>1. /\ state = "S6_ROW" /\ state' = "S0" /\ element_counter = num_elements
        /\ element_counter' = 0 /\ num_elements \in Sizes /\ num_elements' = num_elements
        /\ sent' = sent /\ beats' = beats
    BY DEF Finish, Neighbours, IInv, Lines, Pushing
  <2>2. /\ element_counter = Wrap(sent) /\ beats = 0
        /\ sent > 0 /\ sent <= Words(num_elements)
    BY <2>1 DEF IInv, Account
  <2>3. sent \in Nat
    BY Ranges DEF IInv, TypeOK
  <2>4. sent = Words(num_elements) /\ Words(num_elements)' = Words(num_elements)
    BY <2>1, <2>2, <2>3, CounterAtSize DEF Words
  <2> QED
    BY <2>1, <2>2, <2>4 DEF Account, Holding, Pushing
<1>3. Whole'
  BY SizeOfJob, Ranges
  DEF Finish, axi, axis, Neighbours, IInv, TypeOK, Lines, Whole, Pushing, Holding, Last
<1>4. Numbers'
  BY SizeOfJob, Ranges
  DEF Finish, axi, axis, Neighbours, IInv, TypeOK, Lines, Numbers, Account, Pushing, Holding, Last
<1>5. LineTypes'
  BY DEF Finish, axi, axis, IInv, TypeOK, FsmState, LineTypes
<1> QED
  BY <1>1, <1>2, <1>3, <1>4, <1>5 DEF Preserved

\* The reader waits for the memory or the FIFO.
LEMMA StallKeeps ==
  ASSUME IInv, NEW arready \in BOOLEAN, NEW tready \in BOOLEAN,
         Neighbours(arready, tready), Stall(arready, tready)
  PROVE  Preserved
<1>1. Lines'
  BY DEF Stall, fsm, axi, axis, Neighbours, IInv, Lines, Pushing
<1>2. Account'
  BY SizeOfJob, Ranges
  DEF Stall, fsm, axi, axis, Neighbours, IInv, TypeOK, Lines, Account, Pushing, Holding, Last
<1>3. Whole'
  BY SizeOfJob, Ranges
  DEF Stall, fsm, axi, axis, Neighbours, IInv, TypeOK, Lines, Whole, Pushing, Holding, Last
<1>4. Numbers'
  BY SizeOfJob, Ranges
  DEF Stall, fsm, axi, axis, Neighbours, IInv, TypeOK, Lines, Numbers, Account, Pushing, Holding, Last
<1>5. LineTypes'
  BY DEF Stall, fsm, axi, axis, IInv, TypeOK, FsmState, LineTypes
<1> QED
  BY <1>1, <1>2, <1>3, <1>4, <1>5 DEF Preserved

-----------------------------------------------------------------------------

LEMMA FsmStep ==
  ASSUME IInv, NEW arready \in BOOLEAN, NEW tready \in BOOLEAN, Edge(arready, tready)
  PROVE  Preserved
<1>1. FsmEdge(arready, tready)
  BY DEF Edge
<1>2. Neighbours(arready, tready)
  BY NeighboursMove
<1>3. CASE Hold
  BY <1>2, <1>3, HoldKeeps
<1>4. CASE ~rst_busy /\ Idle
  BY <1>2, <1>4, IdleKeeps
<1>5. CASE ~rst_busy /\ Start
  BY <1>2, <1>5, StartKeeps
<1>6. CASE ~rst_busy /\ RequestBurst
  BY <1>2, <1>6, RequestBurstKeeps
<1>7. CASE ~rst_busy /\ RequestTaken(arready)
  BY <1>2, <1>7, RequestTakenKeeps
<1>8. CASE ~rst_busy /\ TakeBeat
  BY <1>2, <1>8, TakeBeatKeeps
<1>9. CASE ~rst_busy /\ OfferWord
  BY <1>2, <1>9, OfferWordKeeps
<1>10. CASE ~rst_busy /\ WordTaken(tready)
  BY <1>2, <1>10, WordTakenKeeps
<1>11. CASE ~rst_busy /\ NextBurst
  BY <1>2, <1>11, NextBurstKeeps
<1>12. CASE ~rst_busy /\ Finish
  BY <1>2, <1>12, FinishKeeps
<1>13. CASE ~rst_busy /\ Stall(arready, tready)
  BY <1>2, <1>13, StallKeeps
<1> QED
  BY <1>1, <1>3, <1>4, <1>5, <1>6, <1>7, <1>8, <1>9, <1>10, <1>11, <1>12, <1>13 DEF FsmEdge

LEMMA StepInv == ASSUME IInv, [Next]_vars PROVE IInv'
<1>1. CASE Next
  <2>1. PICK arready \in BOOLEAN, tready \in BOOLEAN : Edge(arready, tready)
    BY <1>1 DEF Next
  <2>2. Preserved
    BY <2>1, FsmStep
  <2>3. FifoEdge(tready) /\ Record(tready) /\ MemoryEdge(arready) /\ ControlEdge
    BY <2>1 DEF Edge
  <2>4. /\ fifo' \in Seq(Nat) /\ Len(fifo') <= Depth
        /\ InOrder'
    BY <2>3, FifoStep
  <2>5. rvalid' \in BOOLEAN
    BY <2>3, MemoryMoves
  <2>6. /\ num_elements' \in Sizes /\ start' \in BOOLEAN /\ rst_busy' \in BOOLEAN
        /\ jobs' \in 0..MaxJobs
    BY <2>3, JobStays
  <2>7. TypeOK'
    BY <2>2, <2>4, <2>5, <2>6 DEF Preserved, Numbers, LineTypes, TypeOK
  <2> QED
    BY <2>2, <2>4, <2>7 DEF Preserved, IInv
<1>2. CASE UNCHANGED vars
  <2>1. TypeOK' /\ InOrder'
    BY <1>2 DEF IInv, TypeOK, InOrder, vars, fsm, axi, axis, control, memory
  <2>2. Lines' /\ Account' /\ Whole'
    BY <1>2 DEF IInv, Lines, Account, Whole, Pushing, Holding, Last, Words, Wrap, Word, Aligned,
                vars, fsm, axi, axis, control, memory
  <2> QED
    BY <2>1, <2>2 DEF IInv
<1> QED
  BY <1>1, <1>2

\* The strengthening holds in every state the reader reaches.
THEOREM Inductive == Spec => []IInv
BY InitInv, StepInv, PTL DEF Spec

\* TypeOK for every instance.
THEOREM TypeCorrect == Spec => []TypeOK
<1>1. IInv => TypeOK
  BY DEF IInv
<1> QED
  BY <1>1, Inductive, PTL

\* Whatever the sizes, the burst length and the stalls of memory, FIFO and
\* consumer, the words of a job enter the FIFO each once and in order.
THEOREM StreamInOrder == Spec => []InOrder
<1>1. IInv => InOrder
  BY DEF IInv
<1> QED
  BY <1>1, Inductive, PTL

\* No burst asks for a word beyond the job or for one already read.
THEOREM BurstsWithinJob == Spec => []BurstWithinJob
<1>1. IInv => BurstWithinJob
  <2> SUFFICES ASSUME IInv, arvalid PROVE BurstWithinJob
    BY DEF BurstWithinJob
  <2>1. /\ state = "S2_ROW"
        /\ araddr = Word(sent) /\ sent + arlen + 1 <= Words(num_elements)
    BY DEF IInv, Lines, Account
  <2>2. sent \in Nat /\ arlen \in Nat /\ num_elements \in Sizes
    BY Ranges DEF IInv, TypeOK
  <2>3. Words(num_elements) \in Nat
    BY <2>2, SizeOfJob
  <2>4. Word(sent) + 4 * (arlen + 1) <= Word(Words(num_elements))
    BY <2>1, <2>2, <2>3, SizesAssumption DEF Word
  <2> QED
    BY <2>1, <2>4 DEF BurstWithinJob
<1> QED
  BY <1>1, Inductive, PTL

\* The done pulse means that all words have gone and that none is owed.
THEOREM DoneMeansComplete == Spec => []DoneComplete
<1>1. IInv => DoneComplete
  BY DEF IInv, Account, DoneComplete
<1> QED
  BY <1>1, Inductive, PTL

-----------------------------------------------------------------------------
(* The reader is a mover of words.                                          *)

StreamNeed == IF busy THEN Words(num_elements) ELSE 0

LEMMA StreamStep ==
  ASSUME IInv, [Next]_vars
  PROVE  [Stream!Next]_(Stream!vars)
<1>1. CASE Next
  <2>1. PICK arready \in BOOLEAN, tready \in BOOLEAN : Edge(arready, tready)
    BY <1>1 DEF Next
  <2>2. FsmEdge(arready, tready)
    BY <2>1 DEF Edge
  <2>3. Neighbours(arready, tready)
    BY <2>1, NeighboursMove
  <2>4. /\ num_elements \in Sizes /\ num_elements' \in Sizes
        /\ busy \/ start => num_elements' = num_elements
        /\ busy' /\ state = "S0" => sent' = 0
        /\ Pushing /\ tready => sent' = sent + 1 /\ last' = tdata
        /\ ~(Pushing /\ tready) => last' = last
        /\ ~(busy' /\ state = "S0") /\ ~(Pushing /\ tready) => sent' = sent
    BY <2>3 DEF Neighbours
  <2>5. (busy <=> state # "S0") /\ (rst_busy => state = "S0") /\ busy \in BOOLEAN
    BY DEF IInv, Lines, TypeOK
  <2>6. Words(num_elements) \in Nat \ {0}
    BY <2>4, SizeOfJob
  <2>7. CASE busy' = busy /\ ~(Pushing /\ tready)
    <3>1. sent' = sent /\ last' = last
      BY <2>4, <2>5, <2>7
    <3>2. StreamNeed' = StreamNeed
      BY <2>4, <2>7 DEF StreamNeed, Words
    <3> QED
      BY <2>7, <3>1, <3>2 DEF Stream!vars, StreamNeed
  <2>8. CASE ~rst_busy /\ Start
    <3>1. /\ ~busy /\ busy' = TRUE /\ sent' = 0 /\ last' = last
          /\ StreamNeed' = Words(num_elements)
      BY <2>4, <2>5, <2>8 DEF Start, Pushing, StreamNeed, Words
    <3> QED
      BY <3>1, <2>6 DEF Stream!Next, Stream!Begin, StreamNeed
  <2>9. CASE ~rst_busy /\ WordTaken(tready)
    <3>1. busy /\ busy' = busy /\ Pushing /\ tready
      BY <2>5, <2>9 DEF WordTaken, Pushing
    <3>2. sent' = sent + 1 /\ last' = tdata
      BY <2>4, <3>1
    <3>3. tdata = Word(sent) /\ sent + 1 + beats <= Words(num_elements)
      BY <3>1 DEF IInv, Account, Holding
    <3>4. sent < Words(num_elements)
      <4>1. sent \in Nat /\ beats \in Nat
        BY Ranges DEF IInv, TypeOK
      <4> QED
        BY <4>1, <3>3, <2>6
    <3>5. StreamNeed = Words(num_elements) /\ StreamNeed' = StreamNeed
      BY <2>4, <3>1 DEF StreamNeed, Words
    <3>6. tdata = Stream!Word(sent)
      BY <3>3 DEF Word, Stream!Word
    <3> QED
      BY <3>1, <3>2, <3>4, <3>5, <3>6 DEF Stream!Next, Stream!Deliver, StreamNeed
  <2>10. CASE ~rst_busy /\ Finish
    <3>1. busy /\ busy' = FALSE /\ ~Pushing
      BY <2>5, <2>10 DEF Finish, Pushing
    <3>2. sent' = sent /\ last' = last
      BY <2>4, <3>1
    <3>3. sent = Words(num_elements)
      <4>1. /\ element_counter = num_elements /\ element_counter = Wrap(sent)
            /\ sent > 0 /\ sent <= Words(num_elements)
        BY <2>10 DEF Finish, IInv, Account
      <4>2. sent \in Nat
        BY Ranges DEF IInv, TypeOK
      <4> QED
        BY <4>1, <4>2, <2>4, CounterAtSize
    <3>4. StreamNeed = Words(num_elements) /\ StreamNeed' = 0
      BY <3>1 DEF StreamNeed
    <3> QED
      BY <3>1, <3>2, <3>3, <3>4 DEF Stream!Next, Stream!Finish, StreamNeed
  <2>11. CASE Hold
    BY <2>5, <2>7, <2>11 DEF Hold, fsm, IInv, Lines, Pushing
  <2>12. CASE ~rst_busy /\ (Idle \/ RequestBurst \/ RequestTaken(arready) \/ TakeBeat
                            \/ OfferWord \/ NextBurst \/ Stall(arready, tready))
    <3>1. busy' = busy /\ ~(Pushing /\ tready)
      BY <2>12 DEF Idle, RequestBurst, RequestTaken, TakeBeat, OfferWord, NextBurst, Stall,
                   fsm, Pushing
    <3> QED
      BY <3>1, <2>7
  <2> QED
    BY <2>2, <2>8, <2>9, <2>10, <2>11, <2>12 DEF FsmEdge
<1>2. CASE UNCHANGED vars
  BY <1>2 DEF vars, fsm, control, Stream!vars
<1> QED
  BY <1>1, <1>2

\* The reader implements StreamCopy: the words of each job, each once and in
\* order, and rest after the last one.
THEOREM ReaderRefinement == Spec => ImplementsStream
<1>1. Init => Stream!Init
  BY DEF Init, Stream!Init
<1> QED
  BY <1>1, Inductive, StreamStep, PTL DEF Spec, Stream!Spec, ImplementsStream
=============================================================================
