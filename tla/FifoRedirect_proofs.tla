------------------------ MODULE FifoRedirect_proofs ------------------------
(***************************************************************************)
(* Proofs about the redirector, for every size of the tableau and of the   *)
(* FIFOs, every number of tableaus, and every stall of the FIFOs and of    *)
(* the writers behind them.                                                *)
(***************************************************************************)
EXTENDS FifoRedirect, TLAPS

Result == [tableau : Nat, place : 0..Total]

Types ==
  /\ current_state \in {"S0", "S1", "S2", "S3"}
  /\ element_counter \in Nat /\ row_end_counter \in Nat
  /\ start \in BOOLEAN /\ s_axis_tready \in BOOLEAN
  /\ m_axis_tvalid \in [Copy -> BOOLEAN] /\ writing \in [Copy -> BOOLEAN]
  /\ rst_busy \in SUBSET Copy
  /\ word \in Result /\ offered \in BOOLEAN /\ aborted \in BOOLEAN
  /\ clean \in BOOLEAN /\ tableaus \in Nat
  /\ fifo \in [Copy -> Seq(Result)] /\ stored \in [Copy -> Seq(Result)]

\* The lines are those of the state, and a result is not withdrawn.
Lines ==
  /\ start => current_state = "S2"
  /\ m_axis_tvalid # NoValid => current_state = "S2"
  /\ s_axis_tready <=> current_state = "S3"
  /\ current_state \in {"S2", "S3"} => offered
  /\ offered => Outstanding /\ ~aborted
  /\ Outstanding \/ clean => rst_busy = {}

\* The copies that get the result at place p, and how many of the results before
\* that place a copy gets.
Belongs(x, p) ==
  \/ x = "ddr"
  \/ x = "obj_row" /\ p < NumCols
  \/ x = "rhs_col" /\ p % NumCols = NumCols - 1
Copies(x, p) ==
  IF x = "rhs_col" THEN p \div NumCols
  ELSE IF x = "obj_row" /\ p > NumCols THEN NumCols ELSE p

\* The counters stand at the result on offer, or at the one to come; what is
\* offered to a FIFO belongs there, and the writers are started with the first.
InStep ==
  /\ current_state = "S0" => ~Outstanding
  /\ current_state = "S1" =>
       IF Outstanding
       THEN element_counter = word.place + 1 /\ row_end_counter = (word.place % NumCols) + 1
       ELSE element_counter = 1 /\ row_end_counter = 1
  /\ current_state \in {"S2", "S3"} =>
       /\ element_counter = word.place + 1
       /\ row_end_counter = (word.place + 1) % NumCols
  /\ \A x \in Copy :
       /\ m_axis_tvalid[x] => Belongs(x, word.place)
       /\ start /\ Belongs(x, word.place) => m_axis_tvalid[x]
  /\ start => word.place = 0

\* A copy has all that belongs there of the results let go, and the one on offer
\* from the edge its FIFO takes it.
OnOffer(x) == current_state \in {"S2", "S3"} /\ Belongs(x, word.place) /\ ~m_axis_tvalid[x]
Given(x) == Copies(x, word.place) + (IF OnOffer(x) THEN 1 ELSE 0)

\* The writers have not been started for this tableau.
Waiting == word.place = 0 /\ (current_state \in {"S0", "S1"} \/ start)

\* A sequence is made of the first n results of a tableau that belong to a copy.
Run(s, x, tableau, n) ==
  /\ Len(s) = n
  /\ \A k \in 1..n : s[k] = [tableau |-> tableau, place |-> PlaceOf(x, k)]

Filled ==
  \A x \in Copy :
    IF Waiting
    THEN ~writing[x] /\ fifo[x] = <<>>
    ELSE Run(Delivered(x), x, word.tableau, Given(x))

\* Nothing is claimed of a tableau that began while a side writer was still at
\* work or after results were lost.
IInv == Types /\ Lines /\ (clean => InStep /\ Filled)

-----------------------------------------------------------------------------
(* Places, rows and columns.                                                *)

LEMMA Ranges ==
  /\ NumRows \in Nat /\ NumRows > 0 /\ NumCols \in Nat /\ NumCols > 0
  /\ Total \in Nat /\ Total > 0 /\ Total = NumRows * NumCols
<1>1. NumRows \in Nat /\ NumRows > 0 /\ NumCols \in Nat /\ NumCols > 0
  BY RedirectAssumption
<1>2. Total \in Nat /\ Total = NumRows * NumCols
  BY <1>1 DEF Total
<1>3. NumRows * NumCols >= 1 * 1
  BY <1>1
<1> QED
  BY <1>1, <1>2, <1>3

\* A place is that of its column in its row.
LEMMA Division ==
  ASSUME NEW p \in Nat
  PROVE  /\ p \div NumCols \in Nat /\ p % NumCols \in 0..NumCols-1
         /\ p = (p \div NumCols) * NumCols + (p % NumCols)
<1> DEFINE q == p \div NumCols
           c == p % NumCols
<1>1. q \in Int /\ c \in 0..NumCols-1 /\ p = (NumCols * q) + c
  BY Ranges
<1> HIDE DEF q, c
<1>2. q \in Nat
  <2> SUFFICES ASSUME q < 0 PROVE FALSE
    BY <1>1
  <2>1. NumCols * q <= NumCols * (0 - 1)
    BY <1>1, Ranges
  <2> QED
    BY <2>1, <1>1, Ranges
<1>3. NumCols * q = q * NumCols
  BY <1>1, Ranges
<1>4. q \in Nat /\ c \in 0..NumCols-1 /\ p = q * NumCols + c
  BY <1>1, <1>2, <1>3
<1> QED
  BY <1>4 DEF q, c

LEMMA Unique ==
  ASSUME NEW q \in Nat, NEW c \in 0..NumCols-1, NEW r \in Nat, NEW d \in 0..NumCols-1,
         q * NumCols + c = r * NumCols + d
  PROVE  q = r /\ c = d
<1>1. ASSUME NEW a \in Nat, NEW b \in Nat, a < b
      PROVE  a * NumCols + NumCols <= b * NumCols
  <2>1. (a + 1) * NumCols <= b * NumCols
    BY <1>1, Ranges
  <2>2. (a + 1) * NumCols = a * NumCols + NumCols
    BY Ranges
  <2> QED
    BY <2>1, <2>2
<1>2. q * NumCols \in Int /\ r * NumCols \in Int
  BY Ranges
<1>3. CASE q < r
  BY <1>1, <1>2, <1>3, Ranges
<1>4. CASE r < q
  BY <1>1, <1>2, <1>4, Ranges
<1>5. CASE q = r
  BY <1>2, <1>5, Ranges
<1> QED
  BY <1>3, <1>4, <1>5

\* From one place to the next: the next column, or the first of the next row.
LEMMA NextPlace ==
  ASSUME NEW p \in Nat
  PROVE  IF p % NumCols = NumCols - 1
         THEN (p + 1) % NumCols = 0 /\ (p + 1) \div NumCols = (p \div NumCols) + 1
         ELSE (p + 1) % NumCols = (p % NumCols) + 1 /\ (p + 1) \div NumCols = p \div NumCols
<1> DEFINE q == p \div NumCols
           c == p % NumCols
           r == (p + 1) \div NumCols
           d == (p + 1) % NumCols
<1>1. q \in Nat /\ c \in 0..NumCols-1 /\ p = q * NumCols + c
  BY Division
<1>2. r \in Nat /\ d \in 0..NumCols-1 /\ p + 1 = r * NumCols + d
  BY Division
<1> HIDE DEF q, c, r, d
<1>3. CASE c = NumCols - 1
  <2>1. (q + 1) * NumCols + 0 = q * NumCols + NumCols
    BY <1>1, Ranges
  <2>2. q * NumCols \in Int
    BY <1>1, Ranges
  <2>3. (q + 1) * NumCols + 0 = r * NumCols + d
    BY <2>1, <2>2, <1>1, <1>2, <1>3, Ranges
  <2>4. q + 1 \in Nat /\ 0 \in 0..NumCols-1
    BY <1>1, Ranges
  <2>5. q + 1 = r /\ 0 = d
    BY <2>3, <2>4, <1>2, Unique
  <2> QED
    BY <2>5, <1>3 DEF q, c, r, d
<1>4. CASE c # NumCols - 1
  <2>1. q * NumCols \in Int
    BY <1>1, Ranges
  <2>2. q * NumCols + (c + 1) = r * NumCols + d
    BY <2>1, <1>1, <1>2, Ranges
  <2>3. c + 1 \in 0..NumCols-1
    BY <1>1, <1>4, Ranges
  <2>4. q = r /\ c + 1 = d
    BY <2>2, <2>3, <1>1, <1>2, Unique
  <2> QED
    BY <2>4, <1>4 DEF q, c, r, d
<1> QED
  BY <1>3, <1>4

\* The first place, and the counts of copies from one place to the next.
LEMMA FirstPlace ==
  /\ 0 % NumCols = 0 /\ 0 \div NumCols = 0
  /\ \A x \in Copy : Copies(x, 0) = 0
<1>1. 0 = (0 \div NumCols) * NumCols + (0 % NumCols)
      /\ 0 \div NumCols \in Nat /\ 0 % NumCols \in 0..NumCols-1
  BY Division
<1>2. 0 * NumCols + 0 = 0 /\ 0 \in 0..NumCols-1
  BY Ranges
<1>3. 0 \div NumCols = 0 /\ 0 % NumCols = 0
  BY <1>1, <1>2, Unique
<1> QED
  BY <1>3, Ranges DEF Copies

LEMMA CopiesType ==
  ASSUME NEW x \in Copy, NEW p \in Nat
  PROVE  Copies(x, p) \in Nat
BY Division, Ranges DEF Copies

LEMMA OneMoreCopy ==
  ASSUME NEW x \in Copy, NEW p \in Nat
  PROVE  Copies(x, p + 1) = Copies(x, p) + (IF Belongs(x, p) THEN 1 ELSE 0)
<1>1. CASE x = "rhs_col"
  BY <1>1, NextPlace, Division DEF Copies, Belongs
<1>2. CASE x = "obj_row"
  BY <1>2, Ranges DEF Copies, Belongs
<1>3. CASE x = "ddr"
  BY <1>3 DEF Copies, Belongs
<1> QED
  BY <1>1, <1>2, <1>3 DEF Copy

\* The next word of a copy is the result on offer, when it belongs there.
LEMMA NextOfCopy ==
  ASSUME NEW x \in Copy, NEW p \in Nat, Belongs(x, p)
  PROVE  PlaceOf(x, Copies(x, p) + 1) = p
<1>1. CASE x = "rhs_col"
  <2> DEFINE q == p \div NumCols
  <2>1. q \in Nat /\ p = q * NumCols + (NumCols - 1)
    BY <1>1, Division DEF Belongs
  <2> HIDE DEF q
  <2>2. (q + 1) * NumCols - 1 = p
    <3>1. (q + 1) * NumCols = q * NumCols + NumCols /\ q * NumCols \in Int
      BY <2>1, Ranges
    <3> QED
      BY <3>1, <2>1, Ranges
  <2>3. Copies(x, p) = q
    BY <1>1 DEF Copies, q
  <2> QED
    BY <2>2, <2>3, <1>1 DEF PlaceOf
<1>2. CASE x # "rhs_col"
  BY <1>2, Ranges DEF Belongs, Copies, PlaceOf, Copy
<1> QED
  BY <1>1, <1>2

\* No copy gets more words than its writer is told to take.
LEMMA CopiesBound ==
  ASSUME NEW x \in Copy, NEW p \in 0..Total
  PROVE  Copies(x, p) <= num_elements[x]
<1>1. CASE x = "rhs_col"
  <2> DEFINE q == p \div NumCols
             c == p % NumCols
  <2>1. q \in Nat /\ c \in 0..NumCols-1 /\ p = q * NumCols + c
    BY Division, Ranges
  <2> HIDE DEF q, c
  <2>2. q <= NumRows
    <3> SUFFICES ASSUME NumRows + 1 <= q PROVE FALSE
      BY <2>1, Ranges
    <3>1. (NumRows + 1) * NumCols <= q * NumCols
      BY <2>1, Ranges
    <3>2. (NumRows + 1) * NumCols = Total + NumCols
      BY Ranges
    <3>3. q * NumCols \in Int
      BY <2>1, Ranges
    <3> QED
      BY <3>1, <3>2, <3>3, <2>1, Ranges
  <2> QED
    BY <2>2, <1>1 DEF Copies, num_elements, q
<1>2. CASE x = "obj_row"
  BY <1>2, Ranges DEF Copies, num_elements
<1>3. CASE x = "ddr"
  BY <1>3, Ranges DEF Copies, num_elements
<1> QED
  BY <1>1, <1>2, <1>3 DEF Copy

-----------------------------------------------------------------------------
(* What the FIFOs and the writers do to a run of results.                   *)

\* A word that moves from the FIFO to the writer stays in its place.
LEMMA TakeMoves ==
  ASSUME NEW R, NEW s \in Seq(R), NEW f \in Seq(R), f # <<>>
  PROVE  /\ Append(s, Head(f)) \in Seq(R) /\ Tail(f) \in Seq(R)
         /\ Append(s, Head(f)) \o Tail(f) = s \o f
<1>1. /\ Head(f) \in R /\ Tail(f) \in Seq(R) /\ Len(Tail(f)) = Len(f) - 1
      /\ Len(f) \in Nat /\ Len(f) > 0 /\ Len(s) \in Nat
      /\ f[1] = Head(f) /\ \A i \in 1..Len(f)-1 : Tail(f)[i] = f[i + 1]
  OBVIOUS
<1>2. Append(s, Head(f)) \in Seq(R) /\ Len(Append(s, Head(f))) = Len(s) + 1
      /\ Append(s, Head(f))[Len(s) + 1] = Head(f)
      /\ \A i \in 1..Len(s) : Append(s, Head(f))[i] = s[i]
  BY <1>1
<1> DEFINE a == Append(s, Head(f))
           t == Tail(f)
<1>3. a \o t \in Seq(R) /\ Len(a \o t) = Len(s) + Len(f)
      /\ s \o f \in Seq(R) /\ Len(s \o f) = Len(s) + Len(f)
  BY <1>1, <1>2
<1>4. ASSUME NEW i \in 1..Len(s) + Len(f)
      PROVE  (a \o t)[i] = (s \o f)[i]
  <2>1. CASE i <= Len(s)
    BY <2>1, <1>1, <1>2
  <2>2. CASE i = Len(s) + 1
    BY <2>2, <1>1, <1>2
  <2>3. CASE i > Len(s) + 1
    BY <2>3, <1>1, <1>2
  <2> QED
    BY <2>1, <2>2, <2>3, <1>1
<1>5. a \o t = s \o f
  <2> HIDE DEF a, t
  <2> QED
    BY <1>3, <1>4
<1> QED
  BY <1>1, <1>2, <1>5

LEMMA ConcatMoves ==
  ASSUME NEW s \in Seq(Result), NEW f \in Seq(Result), NEW g \in Seq(Result)
  PROVE  s \o (f \o g) = (s \o f) \o g
OBVIOUS

\* A run grows by the word of its next place.
LEMMA RunGrows ==
  ASSUME NEW R, NEW s \in Seq(R), NEW w \in R, NEW x, NEW n \in Nat, NEW tableau,
         Run(s, x, tableau, n),
         w = [tableau |-> tableau, place |-> PlaceOf(x, n + 1)]
  PROVE  Run(s \o <<w>>, x, tableau, n + 1)
<1>1. Len(s) = n /\ \A k \in 1..n : s[k] = [tableau |-> tableau, place |-> PlaceOf(x, k)]
  BY DEF Run
<1>2. /\ Len(s \o <<w>>) = n + 1
      /\ (s \o <<w>>)[n + 1] = w
      /\ \A k \in 1..n : (s \o <<w>>)[k] = s[k]
  BY <1>1
<1> QED
  BY <1>1, <1>2 DEF Run

LEMMA EmptyRun ==
  ASSUME NEW x, NEW tableau
  PROVE  Run(<<>>, x, tableau, 0)
BY DEF Run

\* What an edge of the FIFOs and the writers delivers to a copy.
Pushed(x, tready) == m_axis_tvalid[x] /\ x \in tready
Push(x, tready) == IF Pushed(x, tready) THEN <<word>> ELSE <<>>

LEMMA SinkMoves ==
  ASSUME Types, NEW tready \in SUBSET Copy, NEW finishing \in SUBSET Copy,
         NEW taking \in SUBSET {x \in Copy : MayTake(x)},
         SinkEdge(tready, taking, finishing), NEW x \in Copy
  PROVE  /\ fifo'[x] \in Seq(Result) /\ stored'[x] \in Seq(Result)
         /\ ~start => Delivered(x)' = Delivered(x) \o Push(x, tready)
         /\ start /\ ~writing[x] /\ fifo[x] = <<>> => Delivered(x)' = Push(x, tready)
         /\ ~start /\ ~writing[x] => ~writing'[x]
         /\ x \notin taking /\ ~Pushed(x, tready) => fifo'[x] = fifo[x]
<1>1. /\ fifo[x] \in Seq(Result) /\ stored[x] \in Seq(Result)
      /\ Push(x, tready) \in Seq(Result)
  BY DEF Types, Push
<1> DEFINE rest == IF x \in taking THEN Tail(fifo[x]) ELSE fifo[x]
<1>2. /\ fifo'[x] = rest \o Push(x, tready)
      /\ stored'[x] = IF start /\ ~writing[x] THEN <<>>
                      ELSE IF x \in taking THEN Append(stored[x], Head(fifo[x]))
                      ELSE stored[x]
      /\ writing'[x] = IF writing[x] THEN x \notin finishing ELSE start
  BY DEF SinkEdge, Push, Pushed
<1>3. x \in taking => writing[x] /\ fifo[x] # <<>>
  BY DEF MayTake
<1>4. rest \in Seq(Result)
  BY <1>1, <1>3
<1> HIDE DEF rest
<1>5. fifo'[x] \in Seq(Result) /\ stored'[x] \in Seq(Result)
  <2>1. fifo'[x] \in Seq(Result)
    BY <1>1, <1>2, <1>4
  <2>2. stored'[x] \in Seq(Result)
    BY <1>1, <1>2, <1>3
  <2> QED
    BY <2>1, <2>2
<1>6. ASSUME ~start
      PROVE  Delivered(x)' = Delivered(x) \o Push(x, tready)
  <2>1. CASE x \in taking
    <3>1. /\ Append(stored[x], Head(fifo[x])) \in Seq(Result) /\ Tail(fifo[x]) \in Seq(Result)
          /\ Append(stored[x], Head(fifo[x])) \o Tail(fifo[x]) = stored[x] \o fifo[x]
      BY <2>1, <1>1, <1>3, TakeMoves
    <3>2. /\ stored'[x] = Append(stored[x], Head(fifo[x]))
          /\ fifo'[x] = Tail(fifo[x]) \o Push(x, tready)
      BY <2>1, <1>2, <1>6 DEF rest
    <3>3. stored'[x] \o fifo'[x]
            = Append(stored[x], Head(fifo[x])) \o (Tail(fifo[x]) \o Push(x, tready))
      BY <3>2, Zenon
    <3>4. Append(stored[x], Head(fifo[x])) \o (Tail(fifo[x]) \o Push(x, tready))
            = (Append(stored[x], Head(fifo[x])) \o Tail(fifo[x])) \o Push(x, tready)
      BY <3>1, <1>1, ConcatMoves, Zenon
    <3> QED
      BY <3>1, <3>3, <3>4, Zenon DEF Delivered
  <2>2. CASE x \notin taking
    <3>1. stored'[x] = stored[x] /\ fifo'[x] = fifo[x] \o Push(x, tready)
      BY <2>2, <1>2, <1>6 DEF rest
    <3>2. stored'[x] \o fifo'[x] = stored[x] \o (fifo[x] \o Push(x, tready))
      BY <3>1, Zenon
    <3>3. stored[x] \o (fifo[x] \o Push(x, tready)) = (stored[x] \o fifo[x]) \o Push(x, tready)
      BY <1>1, ConcatMoves, Zenon
    <3> QED
      BY <3>2, <3>3, Zenon DEF Delivered
  <2> QED
    BY <2>1, <2>2
<1>7. ASSUME start, ~writing[x], fifo[x] = <<>>
      PROVE  Delivered(x)' = Push(x, tready)
  <2>1. stored'[x] = <<>> /\ fifo'[x] = <<>> \o Push(x, tready)
    BY <1>2, <1>3, <1>7 DEF rest
  <2>2. stored'[x] \o fifo'[x] = Push(x, tready)
    BY <2>1, <1>1
  <2> QED
    BY <2>2, Zenon DEF Delivered
<1>8. ~start /\ ~writing[x] => ~writing'[x]
  BY <1>2
<1>9. x \notin taking /\ ~Pushed(x, tready) => fifo'[x] = fifo[x]
  BY <1>1, <1>2 DEF rest, Push
<1> QED
  BY <1>5, <1>6, <1>7, <1>8, <1>9

-----------------------------------------------------------------------------
(* Types and lines.                                                         *)

\* The choices of an edge.
FreeChoices(tready, taking, finishing) ==
  /\ tready \in SUBSET {x \in Copy : m_axis_tvalid[x] /\ Len(fifo[x]) < Depth}
  /\ taking \in SUBSET {x \in Copy : MayTake(x)}
  /\ finishing \in SUBSET {x \in Copy : writing[x] /\ Len(stored[x]) = num_elements[x]}

EdgeWith(tready, taking, finishing) ==
  /\ FreeChoices(tready, taking, finishing)
  /\ FsmEdge(tready) /\ SinkEdge(tready, taking, finishing)
  /\ ProducerEdge
  /\ rst_busy' \in SUBSET rst_busy

LEMMA FsmTypes ==
  ASSUME Types, NEW tready \in SUBSET Copy, FsmEdge(tready)
  PROVE  /\ current_state' \in {"S0", "S1", "S2", "S3"}
         /\ element_counter' \in Nat /\ row_end_counter' \in Nat
         /\ start' \in BOOLEAN /\ s_axis_tready' \in BOOLEAN
         /\ m_axis_tvalid' \in [Copy -> BOOLEAN]
<1>1. CASE Hold
  BY <1>1 DEF Types, Hold, fsm
<1>2. CASE Restart
  BY <1>2 DEF Types, Restart, NoValid
<1>3. CASE AwaitResult
  BY <1>3 DEF Types, AwaitResult
<1>4. CASE OfferCopies
  <2>1. start' \in BOOLEAN
    BY <1>4 DEF OfferCopies
  <2>2. m_axis_tvalid' \in [Copy -> BOOLEAN]
    BY <1>4 DEF OfferCopies
  <2>3. row_end_counter' \in Nat /\ element_counter' \in Nat
    BY <1>4 DEF OfferCopies, Types
  <2> QED
    BY <1>4, <2>1, <2>2, <2>3 DEF OfferCopies
<1>5. CASE CopiesTaken(tready)
  <2>1. s_axis_tready' \in BOOLEAN /\ start' \in BOOLEAN
    BY <1>5 DEF CopiesTaken
  <2>2. m_axis_tvalid' \in [Copy -> BOOLEAN]
    BY <1>5 DEF CopiesTaken
  <2> QED
    BY <1>5, <2>1, <2>2 DEF CopiesTaken, Types
<1>6. CASE Count
  <2>1. current_state' \in {"S0", "S1"} /\ s_axis_tready' = FALSE /\ start' = start
        /\ m_axis_tvalid' = m_axis_tvalid
    BY <1>6 DEF Count
  <2>2. element_counter' \in Nat /\ row_end_counter' \in Nat
    BY <1>6 DEF Count, Types
  <2> QED
    BY <2>1, <2>2 DEF Types
<1> QED
  BY <1>1, <1>2, <1>3, <1>4, <1>5, <1>6 DEF FsmEdge

LEMMA ProducerTypes ==
  ASSUME Types, Lines, ProducerEdge
  PROVE  /\ word' \in Result /\ offered' \in BOOLEAN /\ aborted' \in BOOLEAN
         /\ clean' \in BOOLEAN /\ tableaus' \in Nat
<1>1. word.tableau \in Nat /\ word.place \in 0..Total
  BY DEF Types, Result
<1>2. CASE BeginTableau
  <2>1. word' = [tableau |-> word.tableau + 1, place |-> 0]
    BY <1>2 DEF BeginTableau
  <2>2. word' \in Result
    BY <2>1, <1>1, Ranges DEF Result
  <2>3. clean' \in BOOLEAN
    BY <1>2 DEF BeginTableau, AtRest
  <2>4. offered' = FALSE /\ aborted' = FALSE /\ tableaus' = tableaus + 1
    BY <1>2 DEF BeginTableau
  <2>5. tableaus' \in Nat
    BY <2>4 DEF Types
  <2> QED
    BY <2>2, <2>3, <2>4, <2>5
<1>3. CASE Abort \/ Produce \/ Linger
  BY <1>3 DEF Abort, Produce, Linger, producer, Types
<1>4. CASE ResultTaken
  <2>1. word.place + 1 \in 0..Total
    BY <1>1, <1>4, Ranges DEF ResultTaken, Lines, Outstanding
  <2>2. word' \in Result
    BY <2>1, <1>4 DEF ResultTaken, Types, Result
  <2>3. offered' \in BOOLEAN
    BY <1>4 DEF ResultTaken
  <2> QED
    BY <2>2, <2>3, <1>4 DEF ResultTaken, Types
<1> QED
  BY <1>2, <1>3, <1>4 DEF ProducerEdge

LEMMA SinkTypes ==
  ASSUME Types, NEW tready \in SUBSET Copy, NEW finishing \in SUBSET Copy,
         NEW taking \in SUBSET {x \in Copy : MayTake(x)},
         SinkEdge(tready, taking, finishing)
  PROVE  /\ fifo' \in [Copy -> Seq(Result)] /\ stored' \in [Copy -> Seq(Result)]
         /\ writing' \in [Copy -> BOOLEAN]
<1>1. \A x \in Copy : fifo'[x] \in Seq(Result) /\ stored'[x] \in Seq(Result)
  BY SinkMoves
<1>2. fifo' = [x \in Copy |-> fifo'[x]] /\ stored' = [x \in Copy |-> stored'[x]]
  BY DEF SinkEdge
<1>3. writing' \in [Copy -> BOOLEAN]
  BY DEF SinkEdge, Types
<1> QED
  BY <1>1, <1>2, <1>3

LEMMA LinesStep ==
  ASSUME Types, Lines, NEW tready \in SUBSET Copy, FsmEdge(tready), ProducerEdge,
         rst_busy' \in SUBSET rst_busy
  PROVE  Lines'
<1>1. /\ start' => current_state' = "S2"
      /\ m_axis_tvalid' # NoValid => current_state' = "S2"
      /\ s_axis_tready' <=> current_state' = "S3"
  <2>1. CASE Hold
    BY <2>1 DEF Lines, Hold, fsm, NoValid
  <2>2. CASE Restart
    BY <2>2 DEF Restart
  <2>3. CASE AwaitResult
    BY <2>3 DEF Lines, AwaitResult
  <2>4. CASE OfferCopies
    BY <2>4 DEF OfferCopies
  <2>5. CASE CopiesTaken(tready)
    <3>1. m_axis_tvalid = NoValid => m_axis_tvalid' = NoValid
      BY <2>5 DEF CopiesTaken, NoValid
    <3> QED
      BY <2>5, <3>1 DEF CopiesTaken, Lines
  <2>6. CASE Count
    BY <2>6 DEF Count, Lines
  <2> QED
    BY <2>1, <2>2, <2>3, <2>4, <2>5, <2>6 DEF FsmEdge
<1>2. current_state' \in {"S2", "S3"} => (offered /\ current_state # "S3") \/ Hold
  BY DEF FsmEdge, Restart, AwaitResult, OfferCopies, CopiesTaken, Count, Lines
<1>3. word.place \in 0..Total /\ word.tableau \in Nat
  BY DEF Types, Result
<1>4. rst_busy = {} => rst_busy' = {}
  OBVIOUS
<1>5. CASE BeginTableau
  <2>1. ~offered /\ offered' = FALSE /\ rst_busy = {}
    BY <1>5 DEF BeginTableau, Lines
  <2>2. current_state' \notin {"S2", "S3"}
    BY <2>1, <1>2 DEF Hold
  <2> QED
    BY <1>1, <1>4, <2>1, <2>2 DEF Lines
<1>6. CASE ResultTaken
  <2>1. offered /\ current_state = "S3" /\ rst_busy = {} /\ clean' = clean /\ aborted' = aborted
    BY <1>6 DEF ResultTaken, Lines
  <2>2. current_state' \notin {"S2", "S3"}
    BY <2>1, <1>2 DEF Hold
  <2>3. word'.place = word.place + 1 /\ (offered' => word'.place < Total)
    BY <1>3, <1>6, Ranges DEF ResultTaken, Types, Result
  <2> QED
    BY <1>1, <1>4, <2>1, <2>2, <2>3 DEF Lines, Outstanding
<1>7. CASE Abort \/ Produce
  <2>1. /\ ~offered /\ Outstanding /\ rst_busy = {} /\ word' = word /\ clean' = clean
        /\ offered' => ~aborted'
    BY <1>7 DEF Abort, Produce, Lines
  <2>2. current_state' \notin {"S2", "S3"}
    BY <2>1, <1>2 DEF Hold
  <2> QED
    BY <1>1, <1>4, <2>1, <2>2 DEF Lines, Outstanding
<1>8. CASE Linger
  <2>1. UNCHANGED <<word, offered, aborted, clean>>
    BY <1>8 DEF Linger, producer
  <2>2. current_state' \in {"S2", "S3"} => offered
    BY <1>2 DEF Hold, fsm, Lines
  <2> QED
    BY <1>1, <1>4, <2>1, <2>2 DEF Lines, Outstanding
<1> QED
  BY <1>5, <1>6, <1>7, <1>8 DEF ProducerEdge

-----------------------------------------------------------------------------
(* The tableau that found everything at rest.                               *)

LEMMA WordType ==
  ASSUME Types
  PROVE  word.tableau \in Nat /\ word.place \in 0..Total /\ word.place \in Nat
BY Ranges DEF Types, Result

LEMMA GivenType ==
  ASSUME Types, NEW x \in Copy
  PROVE  Given(x) \in Nat
BY WordType, CopiesType DEF Given

\* An edge at which nothing is offered to a FIFO delivers nothing.
LEMMA NothingPushed ==
  ASSUME Types, Filled, ~start, m_axis_tvalid = NoValid,
         NEW tready, NEW taking, NEW finishing, EdgeWith(tready, taking, finishing),
         word'.tableau = word.tableau, Waiting' <=> Waiting,
         \A x \in Copy : Given(x)' = Given(x)
  PROVE  Filled'
<1> SUFFICES ASSUME NEW x \in Copy
             PROVE  IF Waiting' THEN ~writing'[x] /\ fifo'[x] = <<>>
                    ELSE Run(Delivered(x)', x, word'.tableau, Given(x)')
  BY Zenon DEF Filled
<1>1. ~Pushed(x, tready)
  BY DEF Pushed, NoValid
<1>2. /\ fifo'[x] \in Seq(Result) /\ stored'[x] \in Seq(Result)
      /\ Delivered(x)' = Delivered(x) \o Push(x, tready)
      /\ ~writing[x] => ~writing'[x]
      /\ x \notin taking => fifo'[x] = fifo[x]
  BY <1>1, SinkMoves DEF EdgeWith, FreeChoices
<1>3. CASE Waiting
  <2>1. ~writing[x] /\ fifo[x] = <<>>
    BY <1>3 DEF Filled
  <2>2. x \notin taking
    BY <2>1 DEF EdgeWith, FreeChoices, MayTake
  <2> QED
    BY <1>2, <1>3, <2>1, <2>2
<1>4. CASE ~Waiting
  <2>1. Run(Delivered(x), x, word.tableau, Given(x))
    BY <1>4 DEF Filled
  <2>2. Delivered(x)' = Delivered(x)
    <3>1. Push(x, tready) = <<>>
      BY <1>1 DEF Push
    <3>2. Delivered(x) \o <<>> = Delivered(x)
      <4>1. fifo[x] \in Seq(Result) /\ stored[x] \in Seq(Result)
        BY DEF Types
      <4>2. stored[x] \o fifo[x] \in Seq(Result)
        BY <4>1
      <4> QED
        BY <4>2 DEF Delivered
    <3> QED
      BY <1>2, <3>1, <3>2, Zenon
  <2> QED
    BY <1>4, <2>1, <2>2, Zenon
<1> QED
  BY <1>3, <1>4

LEMMA RestartKeeps ==
  ASSUME IInv, clean, NEW tready, NEW taking, NEW finishing,
         EdgeWith(tready, taking, finishing), Restart, ~BeginTableau
  PROVE  InStep' /\ Filled'
<1>1. Types /\ Lines /\ InStep /\ Filled
  BY DEF IInv
<1>2. ~Outstanding /\ ~offered /\ ~start /\ m_axis_tvalid = NoValid
  BY <1>1 DEF InStep, Lines, Restart
<1>3. word' = word
  BY <1>2 DEF EdgeWith, ProducerEdge, Abort, Produce, ResultTaken, Linger, producer
<1>4. word.place = Total /\ Total > 0
  BY <1>1, <1>2, WordType, Ranges DEF Outstanding
<1>5. InStep'
  <2>1. /\ current_state' = "S1" /\ element_counter' = 1 /\ row_end_counter' = 1 /\ ~start'
        /\ \A x \in Copy : ~m_axis_tvalid'[x]
        /\ word'.place = Total
    BY <1>3, <1>4 DEF Restart, NoValid
  <2> QED
    BY <2>1, <1>4, Ranges DEF InStep, Outstanding
<1>6. ASSUME NEW x \in Copy
      PROVE  Given(x)' = Given(x)
  BY <1>3 DEF Given, OnOffer, Restart
<1>7. ~Waiting /\ ~Waiting'
  BY <1>3, <1>4 DEF Waiting
<1> QED
  BY <1>1, <1>2, <1>3, <1>5, <1>6, <1>7, NothingPushed

LEMMA AwaitKeeps ==
  ASSUME IInv, clean, NEW tready, NEW taking, NEW finishing,
         EdgeWith(tready, taking, finishing), AwaitResult, ~BeginTableau
  PROVE  InStep' /\ Filled'
<1>1. Types /\ Lines /\ InStep /\ Filled
  BY DEF IInv
<1>2. ~start /\ m_axis_tvalid = NoValid
  BY <1>1 DEF Lines, AwaitResult
<1>3. word' = word
  BY DEF EdgeWith, ProducerEdge, Abort, Produce, ResultTaken, Linger, producer, AwaitResult
<1>4. InStep'
  BY <1>1, <1>2, <1>3 DEF AwaitResult, InStep, Outstanding, NoValid
<1>5. ASSUME NEW x \in Copy
      PROVE  Given(x)' = Given(x)
  BY <1>3 DEF Given, OnOffer, AwaitResult
<1>6. Waiting' <=> Waiting
  BY <1>3 DEF Waiting, AwaitResult
<1> QED
  BY <1>1, <1>2, <1>3, <1>4, <1>5, <1>6, NothingPushed

\* The FIFOs that are offered a result are those it belongs to.
LEMMA ReceiversRight ==
  ASSUME Types, InStep, offered, Outstanding, current_state = "S1", NEW x \in Copy
  PROVE  x \in Receivers <=> Belongs(x, word.place)
<1>1. element_counter = word.place + 1 /\ row_end_counter = (word.place % NumCols) + 1
  BY DEF InStep
<1>2. word.place \in Nat /\ word.place % NumCols \in 0..NumCols-1
  BY WordType, Division
<1> QED
  BY <1>1, <1>2, Ranges DEF Receivers, Belongs, Copy

LEMMA OfferKeeps ==
  ASSUME IInv, clean, NEW tready, NEW taking, NEW finishing,
         EdgeWith(tready, taking, finishing), OfferCopies, ~BeginTableau
  PROVE  InStep' /\ Filled'
<1>1. Types /\ Lines /\ InStep /\ Filled
  BY DEF IInv
<1>2. /\ ~start /\ m_axis_tvalid = NoValid /\ current_state = "S1" /\ offered /\ Outstanding
      /\ ~s_axis_tready
  BY <1>1 DEF Lines, OfferCopies
<1>3. word' = word
  BY <1>2 DEF EdgeWith, ProducerEdge, Abort, Produce, ResultTaken, Linger, producer
<1>4. element_counter = word.place + 1 /\ row_end_counter = (word.place % NumCols) + 1
  BY <1>1, <1>2 DEF InStep
<1>5. \A x \in Copy : x \in Receivers <=> Belongs(x, word.place)
  BY <1>1, <1>2, ReceiversRight
<1>6. \A x \in Copy : m_axis_tvalid'[x] <=> Belongs(x, word.place)
  <2>1. \A x \in Copy : m_axis_tvalid'[x] = (m_axis_tvalid[x] \/ x \in Receivers)
    BY DEF OfferCopies
  <2>2. \A x \in Copy : ~m_axis_tvalid[x]
    BY <1>2 DEF NoValid
  <2> QED
    BY <2>1, <2>2, <1>5
<1>7. start' <=> word.place = 0
  <2>1. start' <=> start \/ element_counter = 1
    BY DEF OfferCopies
  <2>2. element_counter = 1 <=> word.place = 0
    BY <1>1, <1>4, WordType
  <2> QED
    BY <2>1, <2>2, <1>2
<1>8. row_end_counter' = (word.place + 1) % NumCols
  <2>1. "rhs_col" \in Receivers <=> word.place % NumCols = NumCols - 1
    BY <1>5 DEF Belongs, Copy
  <2>2. word.place \in Nat
    BY <1>1, WordType
  <2> QED
    BY <2>1, <2>2, <1>4, NextPlace DEF OfferCopies
<1>9. InStep'
  BY <1>3, <1>4, <1>6, <1>7, <1>8 DEF InStep, OfferCopies
<1>10. ASSUME NEW x \in Copy
       PROVE  Given(x)' = Given(x)
  <2>1. ~OnOffer(x)
    BY <1>2 DEF OnOffer
  <2>2. ~OnOffer(x)'
    BY <1>3, <1>6 DEF OnOffer
  <2> QED
    BY <2>1, <2>2, <1>3 DEF Given
<1>11. Waiting' <=> Waiting
  BY <1>2, <1>3, <1>7 DEF Waiting, OfferCopies
<1> QED
  BY <1>1, <1>2, <1>3, <1>9, <1>10, <1>11, NothingPushed

LEMMA TakenKeeps ==
  ASSUME IInv, clean, NEW tready, NEW taking, NEW finishing,
         EdgeWith(tready, taking, finishing), CopiesTaken(tready), ~BeginTableau
  PROVE  InStep' /\ Filled'
<1>1. Types /\ Lines /\ InStep /\ Filled
  BY DEF IInv
<1>2. current_state = "S2" /\ offered /\ ~s_axis_tready
  BY <1>1 DEF Lines, CopiesTaken
<1>3. word' = word
  BY <1>2 DEF EdgeWith, ProducerEdge, Abort, Produce, ResultTaken, Linger, producer
<1>4. \A x \in Copy : m_axis_tvalid'[x] = (m_axis_tvalid[x] /\ x \notin tready)
  BY DEF CopiesTaken
<1>5. start' = FALSE /\ current_state' \in {"S2", "S3"} /\ UNCHANGED <<element_counter, row_end_counter>>
  BY DEF CopiesTaken
<1>6. InStep'
  BY <1>1, <1>2, <1>3, <1>4, <1>5 DEF InStep
<1>7. ~Waiting'
  BY <1>5 DEF Waiting
<1>8. ASSUME NEW x \in Copy
      PROVE  Run(Delivered(x)', x, word'.tableau, Given(x)')
  <2>1. m_axis_tvalid[x] => Belongs(x, word.place)
    BY <1>1 DEF InStep
  <2>2. /\ fifo[x] \in Seq(Result) /\ stored[x] \in Seq(Result) /\ word \in Result
        /\ word.place \in Nat /\ Given(x) \in Nat /\ Copies(x, word.place) \in Nat
    BY <1>1, WordType, GivenType, CopiesType DEF Types
  <2>3. /\ Pushed(x, tready) => Given(x) = Copies(x, word.place) /\ Given(x)' = Given(x) + 1
        /\ ~Pushed(x, tready) => Given(x)' = Given(x)
    <3>1. OnOffer(x)' <=> Belongs(x, word.place) /\ ~(m_axis_tvalid[x] /\ x \notin tready)
      BY <1>3, <1>4, <1>5 DEF OnOffer
    <3>2. OnOffer(x) <=> Belongs(x, word.place) /\ ~m_axis_tvalid[x]
      BY <1>2 DEF OnOffer
    <3> QED
      BY <3>1, <3>2, <2>1, <2>2, <1>3 DEF Given, Pushed
  <2>4. \/ /\ Run(Delivered(x), x, word.tableau, Given(x))
           /\ Delivered(x)' = Delivered(x) \o Push(x, tready)
        \/ Given(x) = 0 /\ Delivered(x)' = Push(x, tready)
    <3>1. CASE start
      <4>1. Waiting /\ word.place = 0
        BY <1>1, <3>1 DEF InStep, Waiting
      <4>2. ~writing[x] /\ fifo[x] = <<>>
        BY <1>1, <4>1 DEF Filled
      <4>3. Delivered(x)' = Push(x, tready)
        BY <1>1, <3>1, <4>2, SinkMoves DEF EdgeWith, FreeChoices
      <4>4. Given(x) = 0
        <5>1. ~OnOffer(x)
          BY <1>1, <3>1 DEF InStep, OnOffer
        <5> QED
          BY <5>1, <4>1, FirstPlace DEF Given
      <4> QED
        BY <4>3, <4>4
    <3>2. CASE ~start
      <4>1. ~Waiting
        BY <1>2, <3>2 DEF Waiting
      <4>2. Run(Delivered(x), x, word.tableau, Given(x))
        BY <1>1, <4>1 DEF Filled
      <4>3. Delivered(x)' = Delivered(x) \o Push(x, tready)
        BY <1>1, <3>2, SinkMoves DEF EdgeWith, FreeChoices
      <4> QED
        BY <4>2, <4>3
    <3> QED
      BY <3>1, <3>2
  <2>5. PICK s \in Seq(Result) : Run(s, x, word.tableau, Given(x)) /\ Delivered(x)' = s \o Push(x, tready)
    <3>1. CASE Run(Delivered(x), x, word.tableau, Given(x)) /\ Delivered(x)' = Delivered(x) \o Push(x, tready)
      <4>1. Delivered(x) \in Seq(Result)
        BY <2>2 DEF Delivered
      <4> QED
        BY <3>1, <4>1
    <3>2. CASE Given(x) = 0 /\ Delivered(x)' = Push(x, tready)
      <4>1. Run(<<>>, x, word.tableau, 0)
        BY EmptyRun
      <4>2. Push(x, tready) \in Seq(Result)
        BY <2>2 DEF Push
      <4>3. <<>> \o Push(x, tready) = Push(x, tready) /\ <<>> \in Seq(Result)
        BY <4>2
      <4> QED
        BY <3>2, <4>1, <4>3
    <3> QED
      BY <2>4, <3>1, <3>2
  <2>6. CASE Pushed(x, tready)
    <3>1. word = [tableau |-> word.tableau, place |-> PlaceOf(x, Given(x) + 1)]
      <4>1. PlaceOf(x, Copies(x, word.place) + 1) = word.place
        BY <2>1, <2>2, <2>6, NextOfCopy DEF Pushed
      <4> QED
        BY <4>1, <2>2, <2>3, <2>6 DEF Result
    <3>2. Run(s \o <<word>>, x, word.tableau, Given(x) + 1)
      BY <3>1, <2>2, <2>5, RunGrows
    <3> QED
      BY <3>2, <2>3, <2>5, <2>6, <1>3 DEF Push
  <2>7. CASE ~Pushed(x, tready)
    <3>1. Delivered(x)' = s
      BY <2>5, <2>7 DEF Push
    <3> QED
      BY <3>1, <2>3, <2>5, <2>7, <1>3
  <2> QED
    BY <2>6, <2>7
<1> QED
  BY <1>6, <1>7, <1>8, Zenon DEF Filled

LEMMA CountKeeps ==
  ASSUME IInv, clean, NEW tready, NEW taking, NEW finishing,
         EdgeWith(tready, taking, finishing), Count, ~BeginTableau
  PROVE  InStep' /\ Filled'
<1>1. Types /\ Lines /\ InStep /\ Filled
  BY DEF IInv
<1>2. /\ current_state = "S3" /\ offered /\ s_axis_tready /\ Outstanding
      /\ ~start /\ m_axis_tvalid = NoValid
  BY <1>1 DEF Lines, Count
<1>3. word' = [word EXCEPT !.place = @ + 1]
  BY <1>2 DEF EdgeWith, ProducerEdge, Abort, Produce, ResultTaken, Linger
<1>4. word'.place = word.place + 1 /\ word'.tableau = word.tableau
      /\ word.place \in Nat /\ word.place + 1 \in 0..Total
  BY <1>1, <1>2, <1>3, WordType, Ranges DEF Outstanding, Types, Result
<1>5. element_counter = word.place + 1 /\ row_end_counter = (word.place + 1) % NumCols
  BY <1>1, <1>2 DEF InStep
<1>6. m_axis_tvalid' = NoValid /\ ~start'
  BY <1>2 DEF Count
<1>7. InStep'
  <2>1. CASE element_counter = Total
    BY <2>1, <1>4, <1>5, <1>6 DEF Count, InStep, NoValid, Outstanding
  <2>2. CASE element_counter # Total
    <3>1. /\ current_state' = "S1" /\ element_counter' = word'.place + 1
          /\ row_end_counter' = (word'.place % NumCols) + 1
          /\ word'.place < Total
      BY <2>2, <1>4, <1>5, Ranges DEF Count
    <3> QED
      BY <3>1, <1>6 DEF InStep, NoValid, Outstanding
  <2> QED
    BY <2>1, <2>2
<1>8. ASSUME NEW x \in Copy
      PROVE  Given(x)' = Given(x)
  <2>1. ~OnOffer(x)'
    BY DEF OnOffer, Count
  <2>2. OnOffer(x) <=> Belongs(x, word.place)
    BY <1>2 DEF OnOffer, NoValid
  <2>3. Copies(x, word.place + 1) = Copies(x, word.place) + (IF Belongs(x, word.place) THEN 1 ELSE 0)
    BY <1>4, OneMoreCopy
  <2>4. Copies(x, word.place + 1) \in Nat
    BY <1>4, CopiesType
  <2> QED
    BY <2>1, <2>2, <2>3, <2>4, <1>4 DEF Given
<1>9. ~Waiting /\ ~Waiting'
  BY <1>2, <1>4 DEF Waiting
<1> QED
  BY <1>1, <1>2, <1>4, <1>7, <1>8, <1>9, NothingPushed

\* A tableau that finds everything at rest starts with the counters at its first
\* result.
LEMMA BeginKeeps ==
  ASSUME IInv, NEW tready, NEW taking, NEW finishing,
         EdgeWith(tready, taking, finishing), BeginTableau, clean'
  PROVE  InStep' /\ Filled'
<1>1. Types /\ Lines
  BY DEF IInv
<1>2. AtRest /\ rst_busy = {} /\ ~offered /\ word'.place = 0
  BY <1>1 DEF BeginTableau, Lines
<1>3. ~start /\ m_axis_tvalid = NoValid /\ current_state \in {"S0", "S1"}
  BY <1>1, <1>2 DEF Lines, AtRest
<1>4. Restart \/ AwaitResult
  BY <1>2, <1>3 DEF EdgeWith, FsmEdge, Hold, OfferCopies, CopiesTaken, Count
<1>5. /\ current_state' = "S1" /\ element_counter' = 1 /\ row_end_counter' = 1
      /\ ~start' /\ m_axis_tvalid' = NoValid
  BY <1>2, <1>3, <1>4 DEF Restart, AwaitResult, AtRest
<1>6. InStep'
  BY <1>2, <1>5, FirstPlace, Ranges DEF InStep, NoValid, Outstanding
<1>7. Waiting'
  BY <1>2, <1>5 DEF Waiting
<1>8. ASSUME NEW x \in Copy
      PROVE  ~writing'[x] /\ fifo'[x] = <<>>
  <2>1. ~writing[x] /\ fifo[x] = <<>>
    BY <1>2 DEF AtRest
  <2>2. x \notin taking /\ ~Pushed(x, tready)
    BY <2>1, <1>3 DEF EdgeWith, FreeChoices, MayTake, Pushed, NoValid
  <2> QED
    BY <1>1, <1>3, <2>1, <2>2, SinkMoves DEF EdgeWith, FreeChoices
<1> QED
  BY <1>6, <1>7, <1>8, Zenon DEF Filled

-----------------------------------------------------------------------------
(* The theorems.                                                            *)

LEMMA InitIInv == Init => IInv
<1> SUFFICES ASSUME Init PROVE IInv
  OBVIOUS
<1>1. word \in Result /\ word.place = Total
  BY Ranges DEF Init, Result
<1>2. Types
  <2>1. NoValid \in [Copy -> BOOLEAN] /\ <<>> \in Seq(Result)
    BY DEF NoValid
  <2>2. fifo \in [Copy -> Seq(Result)] /\ stored \in [Copy -> Seq(Result)]
    BY <2>1 DEF Init
  <2> QED
    BY <1>1, <2>1, <2>2 DEF Init, Types
<1>3. Lines
  BY <1>1, Ranges DEF Init, Lines, Outstanding
<1> QED
  BY <1>2, <1>3 DEF IInv, Init

LEMMA StepIInv == IInv /\ [Next]_vars => IInv'
<1> SUFFICES ASSUME IInv, [Next]_vars PROVE IInv'
  OBVIOUS
<1>1. CASE Next
  <2>1. PICK tready \in SUBSET {x \in Copy : m_axis_tvalid[x] /\ Len(fifo[x]) < Depth},
             taking \in SUBSET {x \in Copy : MayTake(x)},
             finishing \in SUBSET {x \in Copy : writing[x] /\ Len(stored[x]) = num_elements[x]} :
          FsmEdge(tready) /\ SinkEdge(tready, taking, finishing)
    BY <1>1 DEF Next, Edge
  <2>2. EdgeWith(tready, taking, finishing) /\ tready \in SUBSET Copy /\ finishing \in SUBSET Copy
    BY <1>1, <2>1 DEF Next, Edge, EdgeWith, FreeChoices
  <2>3. Types /\ Lines
    BY DEF IInv
  <2>4. Types'
    BY <2>1, <2>2, <2>3, FsmTypes, ProducerTypes, SinkTypes DEF EdgeWith, Types
  <2>5. Lines'
    BY <2>2, <2>3, LinesStep DEF EdgeWith
  <2>6. ASSUME clean' PROVE InStep' /\ Filled'
    <3>1. CASE BeginTableau
      BY <3>1, <2>2, <2>6, BeginKeeps
    <3>2. CASE ~BeginTableau
      <4>1. clean
        BY <2>2, <2>6, <3>2 DEF EdgeWith, ProducerEdge, Abort, Produce, ResultTaken, Linger, producer
      <4>2. ~Hold
        BY <2>3, <4>1 DEF Lines, Hold
      <4> QED
        BY <2>2, <3>2, <4>1, <4>2, RestartKeeps, AwaitKeeps, OfferKeeps, TakenKeeps, CountKeeps
        DEF EdgeWith, FsmEdge
    <3> QED
      BY <3>1, <3>2
  <2> QED
    BY <2>4, <2>5, <2>6 DEF IInv
<1>2. CASE UNCHANGED vars
  BY <1>2 DEF vars, fsm, producer, sinks, IInv, Types, Lines, InStep, Filled, Waiting, Given, OnOffer,
    Delivered, Outstanding
<1> QED
  BY <1>1, <1>2

\* The inductive invariant.
THEOREM Inductive == Spec => []IInv
BY InitIInv, StepIInv, PTL DEF Spec

\* The counters, FIFOs and stored words stay in their types, whatever stalls.
THEOREM TypeCorrect == Spec => []Types
BY Inductive, PTL DEF IInv

\* Each copy of a tableau that found everything at rest is an unbroken run of the
\* results that belong there.
THEOREM CopiesRight == Spec => []CopiesInOrder
<1>1. IInv => CopiesInOrder
  <2> SUFFICES ASSUME IInv, clean, NEW x \in Copy, Begun(x)
               PROVE  IsPrefix(Delivered(x), Expected(x, word.tableau))
    BY DEF CopiesInOrder
  <2>1. Types /\ Filled
    BY DEF IInv
  <2>2. ~Waiting
    BY <2>1, WordType DEF Begun, Filled, Waiting
  <2>3. Run(Delivered(x), x, word.tableau, Given(x))
    BY <2>1, <2>2 DEF Filled
  <2>4. Given(x) \in Nat /\ Given(x) <= num_elements[x]
    <3>1. word.place \in 0..Total /\ word.place \in Nat /\ Copies(x, word.place) \in Nat
      BY <2>1, WordType, CopiesType
    <3>2. CASE OnOffer(x)
      <4>1. Outstanding
        BY <3>2 DEF OnOffer, IInv, Lines
      <4>2. word.place + 1 \in 0..Total
        BY <3>1, <4>1, Ranges DEF Outstanding
      <4>3. Copies(x, word.place + 1) = Copies(x, word.place) + 1
        BY <3>1, <3>2, OneMoreCopy DEF OnOffer
      <4> QED
        BY <3>1, <3>2, <4>2, <4>3, CopiesBound DEF Given
    <3>3. CASE ~OnOffer(x)
      BY <3>1, <3>3, CopiesBound DEF Given
    <3> QED
      BY <3>2, <3>3
  <2>5. num_elements[x] \in Nat
    BY Ranges DEF num_elements, Copy
  <2> DEFINE d == Delivered(x)
             e == Expected(x, word.tableau)
             n == Given(x)
  <2>6. Len(d) = n /\ \A k \in 1..n : d[k] = [tableau |-> word.tableau, place |-> PlaceOf(x, k)]
    BY <2>3 DEF Run
  <2>7. /\ Len(e) = num_elements[x]
        /\ \A k \in 1..num_elements[x] : e[k] = [tableau |-> word.tableau, place |-> PlaceOf(x, k)]
    BY <2>5 DEF Expected
  <2>8. d \in Seq(Result)
    BY <2>1 DEF Types, Delivered
  <2> HIDE DEF d, e, n
  <2>9. SubSeq(d, 1, n) = SubSeq(e, 1, n)
    BY <2>4, <2>5, <2>6, <2>7, <2>8 DEF n
  <2> QED
    BY <2>4, <2>6, <2>7, <2>9 DEF IsPrefix, d, e, n
<1> QED
  BY <1>1, Inductive, PTL
=============================================================================
