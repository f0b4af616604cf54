------------------------ MODULE ChoosePivotRow_proofs ------------------------
(***************************************************************************)
(* Proofs about the ratio test, for every number of rows, every range of   *)
(* quotients and every depth of the divider: however the two readers and   *)
(* the divider stall, the row kept is the right one and nothing is left    *)
(* behind by an answer.                                                    *)
(***************************************************************************)
EXTENDS ChoosePivotRow, TLAPS

\* Consecutive row numbers from a first one on.
Run(q, first) == \A i \in 1..Len(q) : q[i] = first + i - 1

\* What a reader has sent is what its counter has counted and what waits.
Side(fifo, sent, counter) ==
  counter + Len(fifo) = sent /\ sent <= NumRows /\ Run(fifo, counter)

\* What a counter has counted has come out as a quotient or is in the divider.
Queue(queue, n, counter) == n + Len(queue) = counter /\ Run(queue, n)

Flow ==
  resetn =>
    /\ Side(fifo_rhs, sent_rhs, counter_a) /\ Side(fifo_col, sent_col, counter_b)
    /\ Queue(div_a, Len(ratios), counter_a) /\ Queue(div_b, Len(ratios), counter_b)

\* Quotient j is the one to keep rather than quotient i.
Beats(rs, j, i) ==
  Positive(rs[j]) /\ rs[j].mag <= rs[i].mag /\ (i < j => rs[j].mag < rs[i].mag)

\* Quotient j is the one to keep of all so far.
BestOf(rs, j) ==
  /\ j \in 1..Len(rs) /\ Eligible(rs[j])
  /\ \A i \in 1..Len(rs) : Positive(rs[i]) => Beats(rs, j, i)

NoneOf(rs) == \A i \in 1..Len(rs) : ~Eligible(rs[i])

\* What is kept after the quotients rs: the best of them, or that there is none.
Kept(rs, updated, p, kept) ==
  /\ updated => BestOf(rs, p + 1) /\ kept = Quotient(rs[p + 1])
  /\ ~updated => NoneOf(rs) /\ kept = NoRatio

Judged ==
  resetn =>
    /\ pivot_col_pivot_row_data = pivot_row_index
    /\ Kept(ratios, ratio_updated, pivot_row_index, best_ratio)
    /\ cont => ratio_updated /\ Len(ratios) = NumRows
    /\ terminate => ~ratio_updated /\ Len(ratios) = NumRows

\* The start line goes low only when nothing is under way, and its first edge
\* clears the block.
Resets ==
  /\ ~resetn => /\ sent_rhs = 0 /\ sent_col = 0
                /\ fifo_rhs = <<>> /\ fifo_col = <<>>
                /\ div_a = <<>> /\ div_b = <<>>
  /\ reset_left = 1 => /\ counter_a = 0 /\ counter_b = 0 /\ ratios = <<>>
                       /\ best_ratio = NoRatio /\ ~ratio_updated
                       /\ pivot_row_index = 0 /\ pivot_col_pivot_row_data = 0
                       /\ ~cont /\ ~terminate
  /\ rounds = 0 => resetn /\ sent_rhs = 0 /\ sent_col = 0

IInv == TypeOK /\ Flow /\ Judged /\ Resets

Row == 0..NumRows-1

-----------------------------------------------------------------------------
(* Queues of consecutive row numbers.                                       *)

LEMMA RunEmpty == ASSUME NEW first \in Nat PROVE Run(<<>>, first)
BY DEF Run

LEMMA RunTail ==
  ASSUME NEW q \in Seq(Nat), NEW first \in Nat, q # <<>>, Run(q, first)
  PROVE  /\ Head(q) = first /\ Tail(q) \in Seq(Nat) /\ Len(Tail(q)) = Len(q) - 1
         /\ Run(Tail(q), first + 1)
<1>1. /\ Tail(q) \in Seq(Nat) /\ Len(Tail(q)) = Len(q) - 1 /\ Head(q) = q[1] /\ Len(q) \in Nat \ {0}
      /\ \A i \in 1..Len(Tail(q)) : Tail(q)[i] = q[i + 1]
  OBVIOUS
<1>2. Head(q) = first
  BY <1>1 DEF Run
<1>3. ASSUME NEW i \in 1..Len(Tail(q)) PROVE Tail(q)[i] = first + 1 + i - 1
  <2>1. i + 1 \in 1..Len(q)
    BY <1>1
  <2>2. Tail(q)[i] = q[i + 1] /\ q[i + 1] = first + (i + 1) - 1
    BY <1>1, <2>1 DEF Run
  <2> QED
    BY <2>2, <1>1
<1> QED
  BY <1>1, <1>2, <1>3 DEF Run

LEMMA RunAppend ==
  ASSUME NEW q \in Seq(Nat), NEW first \in Nat, Run(q, first), NEW x, x = first + Len(q)
  PROVE  /\ Append(q, x) \in Seq(Nat) /\ Len(Append(q, x)) = Len(q) + 1
         /\ Run(Append(q, x), first)
<1>1. Len(q) \in Nat /\ x \in Nat
  OBVIOUS
<1>2. /\ Append(q, x) \in Seq(Nat) /\ Len(Append(q, x)) = Len(q) + 1
      /\ \A i \in 1..Len(q) : Append(q, x)[i] = q[i]
      /\ Append(q, x)[Len(q) + 1] = x
  BY <1>1
<1>3. ASSUME NEW i \in 1..Len(q) + 1 PROVE Append(q, x)[i] = first + i - 1
  <2>1. CASE i = Len(q) + 1
    BY <2>1, <1>1, <1>2
  <2>2. CASE i \in 1..Len(q)
    BY <2>2, <1>2 DEF Run
  <2> QED
    BY <2>1, <2>2, <1>1
<1> QED
  BY <1>2, <1>3 DEF Run

\* A queue whose numbers end below the number of rows holds row numbers.
LEMMA RunOfRows ==
  ASSUME NEW q \in Seq(Nat), NEW first \in Nat, Run(q, first), first + Len(q) <= NumRows
  PROVE  q \in Seq(Row)
<1>1. Len(q) \in Nat /\ NumRows \in Nat
  BY RatioAssumption
<1>2. \A i \in 1..Len(q) : q[i] \in Row
  BY <1>1 DEF Run, Row
<1> QED
  BY <1>1, <1>2

\* The block takes the word in front.
LEMMA SideTake ==
  ASSUME NEW fifo \in Seq(Nat), NEW sent \in Nat, NEW counter \in Nat,
         Side(fifo, sent, counter), fifo # <<>>
  PROVE  /\ Head(fifo) = counter /\ Tail(fifo) \in Seq(Nat)
         /\ Side(Tail(fifo), sent, counter + 1)
<1>1. /\ Tail(fifo) \in Seq(Nat) /\ Len(Tail(fifo)) = Len(fifo) - 1 /\ Head(fifo) = counter
      /\ Run(Tail(fifo), counter + 1)
  BY RunTail DEF Side
<1>2. counter + Len(fifo) = sent /\ sent <= NumRows /\ Len(fifo) \in Nat
  BY DEF Side
<1>3. (counter + 1) + Len(Tail(fifo)) = sent
  BY <1>1, <1>2
<1> QED
  BY <1>1, <1>2, <1>3 DEF Side

\* The reader sends its next word.
LEMMA SideSend ==
  ASSUME NEW fifo \in Seq(Nat), NEW sent \in Nat, NEW counter \in Nat,
         Side(fifo, sent, counter), sent < NumRows
  PROVE  /\ Append(fifo, sent) \in Seq(Nat)
         /\ Side(Append(fifo, sent), sent + 1, counter)
<1>1. counter + Len(fifo) = sent /\ Len(fifo) \in Nat /\ NumRows \in Nat
  BY RatioAssumption DEF Side
<1>2. /\ Append(fifo, sent) \in Seq(Nat) /\ Len(Append(fifo, sent)) = Len(fifo) + 1
      /\ Run(Append(fifo, sent), counter)
  BY <1>1, RunAppend DEF Side
<1>3. counter + Len(Append(fifo, sent)) = sent + 1 /\ sent + 1 <= NumRows
  BY <1>1, <1>2
<1> QED
  BY <1>2, <1>3 DEF Side

\* A quotient comes out of the divider.
LEMMA QueueOut ==
  ASSUME NEW queue \in Seq(Nat), NEW n \in Nat, NEW counter \in Nat,
         Queue(queue, n, counter), queue # <<>>
  PROVE  /\ Head(queue) = n /\ Tail(queue) \in Seq(Nat) /\ Len(Tail(queue)) = Len(queue) - 1
         /\ Queue(Tail(queue), n + 1, counter)
<1>1. /\ Tail(queue) \in Seq(Nat) /\ Len(Tail(queue)) = Len(queue) - 1 /\ Head(queue) = n
      /\ Run(Tail(queue), n + 1)
  BY RunTail DEF Queue
<1>2. n + Len(queue) = counter /\ Len(queue) \in Nat
  BY DEF Queue
<1>3. (n + 1) + Len(Tail(queue)) = counter
  BY <1>1, <1>2
<1> QED
  BY <1>1, <1>3 DEF Queue

\* The operand counted next goes into the divider.
LEMMA QueueIn ==
  ASSUME NEW queue \in Seq(Nat), NEW n \in Nat, NEW counter \in Nat,
         Queue(queue, n, counter)
  PROVE  /\ Append(queue, counter) \in Seq(Nat)
         /\ Len(Append(queue, counter)) = Len(queue) + 1
         /\ Queue(Append(queue, counter), n, counter + 1)
<1>1. n + Len(queue) = counter /\ Len(queue) \in Nat
  BY DEF Queue
<1>2. /\ Append(queue, counter) \in Seq(Nat) /\ Len(Append(queue, counter)) = Len(queue) + 1
      /\ Run(Append(queue, counter), n)
  BY <1>1, RunAppend DEF Queue
<1>3. n + Len(Append(queue, counter)) = counter + 1
  BY <1>1, <1>2
<1> QED
  BY <1>2, <1>3 DEF Queue

-----------------------------------------------------------------------------
(* The best of the quotients so far.                                        *)

\* What the comparison of the bits of two numbers tells.
LEMMA BitsTell ==
  ASSUME NEW r \in Ratio
  PROVE  /\ Positive(r) => Eligible(r)
         /\ Positive(r) => Bits(Quotient(r)) = r.mag /\ Bits(r) = r.mag
         /\ Eligible(r) /\ ~Positive(r) => Bits(Quotient(r)) = Top + 1 /\ Bits(r) = Top + 1
         /\ r.mag \in Nat /\ r.mag < Top
<1>1. r.flag \in BOOLEAN /\ r.neg \in BOOLEAN /\ r.mag \in 0..Top-1
  BY DEF Ratio
<1>2. r.mag \in Nat /\ r.mag < Top
  BY <1>1, RatioAssumption
<1>3. Positive(r) => Eligible(r)
  BY DEF Positive, Eligible
<1>4. ASSUME Positive(r) PROVE Bits(Quotient(r)) = r.mag /\ Bits(r) = r.mag
  BY <1>4 DEF Positive, Bits, Quotient
<1>5. ASSUME Eligible(r), ~Positive(r) PROVE Bits(Quotient(r)) = Top + 1 /\ Bits(r) = Top + 1
  <2>1. r.neg /\ r.mag = 0
    BY <1>5, <1>1 DEF Positive, Eligible
  <2>2. Bits(Quotient(r)) = Top + 1 + r.mag /\ Bits(r) = Top + 1 + r.mag
    BY <2>1 DEF Bits, Quotient
  <2> QED
    BY <2>1, <2>2, RatioAssumption
<1> QED
  BY <1>2, <1>3, <1>4, <1>5

LEMMA BitsOfNone == Bits(NoRatio) = Top + 1 + Top
BY DEF Bits, NoRatio

\* One more quotient changes nothing about those before.
LEMMA AppendKeeps ==
  ASSUME NEW rs \in Seq(Ratio), NEW r \in Ratio
  PROVE  /\ Append(rs, r) \in Seq(Ratio) /\ Len(Append(rs, r)) = Len(rs) + 1
         /\ Len(rs) \in Nat
         /\ \A i \in 1..Len(rs) : Append(rs, r)[i] = rs[i] /\ rs[i] \in Ratio
         /\ Append(rs, r)[Len(rs) + 1] = r
         /\ 1..Len(Append(rs, r)) = (1..Len(rs)) \cup {Len(rs) + 1}
<1>1. /\ Append(rs, r) \in Seq(Ratio) /\ Len(Append(rs, r)) = Len(rs) + 1
      /\ Len(rs) \in Nat
      /\ \A i \in 1..Len(rs) : Append(rs, r)[i] = rs[i] /\ rs[i] \in Ratio
      /\ Append(rs, r)[Len(rs) + 1] = r
  OBVIOUS
<1>2. 1..(Len(rs) + 1) = (1..Len(rs)) \cup {Len(rs) + 1}
  BY <1>1
<1> QED
  BY <1>1, <1>2

\* A quotient that is better than the one kept is the best of all.
LEMMA AcceptedIsBest ==
  ASSUME NEW rs \in Seq(Ratio), NEW r \in Ratio, NEW updated \in BOOLEAN, NEW p, NEW kept,
         Kept(rs, updated, p, kept), Eligible(r), Bits(r) < Bits(kept)
  PROVE  BestOf(Append(rs, r), Len(rs) + 1)
<1> DEFINE rs2 == Append(rs, r)
           n == Len(rs) + 1
<1>1. /\ Len(rs2) = n /\ rs2[n] = r /\ Len(rs) \in Nat
      /\ \A i \in 1..Len(rs) : rs2[i] = rs[i] /\ rs[i] \in Ratio
  BY AppendKeeps
<1> HIDE DEF rs2
<1>2. ASSUME NEW i \in 1..Len(rs), Positive(rs[i])
      PROVE  Positive(r) /\ r.mag < rs[i].mag
  <2>1. updated
    BY <1>1, <1>2, BitsTell DEF Kept, NoneOf
  <2>2. BestOf(rs, p + 1) /\ kept = Quotient(rs[p + 1])
    BY <2>1 DEF Kept
  <2> DEFINE c == rs[p + 1]
  <2>3. c \in Ratio /\ Positive(c) /\ c.mag <= rs[i].mag
    BY <2>2, <1>1, <1>2 DEF BestOf, Beats
  <2>4. Bits(kept) = c.mag /\ c.mag \in Nat /\ c.mag < Top
    BY <2>2, <2>3, BitsTell
  <2> HIDE DEF c
  <2>5. Positive(r)
    <3>1. CASE ~Positive(r)
      <4>1. Bits(r) = Top + 1
        BY <3>1, BitsTell
      <4> QED
        BY <4>1, <2>4, RatioAssumption
    <3> QED
      BY <3>1
  <2>6. Bits(r) = r.mag /\ r.mag \in Nat /\ rs[i].mag \in Nat
    BY <2>5, <1>1, BitsTell
  <2> QED
    BY <2>3, <2>4, <2>5, <2>6
<1>3. ASSUME NEW i \in 1..n, Positive(rs2[i]) PROVE Beats(rs2, n, i)
  <2>1. CASE i = n
    <3>1. Positive(rs2[n]) /\ rs2[n].mag <= rs2[n].mag /\ ~(n < n)
      BY <2>1, <1>1, <1>3, BitsTell
    <3> QED
      BY <2>1, <3>1 DEF Beats
  <2>2. CASE i \in 1..Len(rs)
    <3>1. Positive(r) /\ r.mag < rs[i].mag /\ r.mag \in Nat /\ rs[i].mag \in Nat
      BY <2>2, <1>1, <1>2, <1>3, BitsTell
    <3>2. r.mag <= rs[i].mag
      BY <3>1
    <3> QED
      BY <2>2, <3>1, <3>2, <1>1 DEF Beats
  <2> QED
    BY <2>1, <2>2, <1>1
<1>4. n \in 1..Len(rs2) /\ Eligible(rs2[n])
  BY <1>1
<1> QED
  BY <1>1, <1>3, <1>4 DEF BestOf, rs2

\* A quotient that is flagged or not better leaves the one kept the best.
LEMMA PassedOverKeeps ==
  ASSUME NEW rs \in Seq(Ratio), NEW r \in Ratio, NEW updated \in BOOLEAN, NEW p, NEW kept,
         Kept(rs, updated, p, kept), ~(Eligible(r) /\ Bits(r) < Bits(kept))
  PROVE  Kept(Append(rs, r), updated, p, kept)
<1> DEFINE rs2 == Append(rs, r)
           n == Len(rs) + 1
<1>1. /\ Len(rs2) = n /\ rs2[n] = r /\ Len(rs) \in Nat
      /\ \A i \in 1..Len(rs) : rs2[i] = rs[i] /\ rs[i] \in Ratio
  BY AppendKeeps
<1> HIDE DEF rs2
<1>2. ASSUME updated
      PROVE  BestOf(rs2, p + 1) /\ kept = Quotient(rs2[p + 1])
  <2>1. BestOf(rs, p + 1) /\ kept = Quotient(rs[p + 1])
    BY <1>2 DEF Kept
  <2>2. p + 1 \in 1..Len(rs) /\ rs2[p + 1] = rs[p + 1] /\ rs[p + 1] \in Ratio /\ Eligible(rs[p + 1])
    BY <2>1, <1>1 DEF BestOf
  <2>3. ASSUME NEW i \in 1..n, Positive(rs2[i]) PROVE Beats(rs2, p + 1, i)
    <3>1. CASE i \in 1..Len(rs)
      <4>1. Beats(rs, p + 1, i) /\ rs2[i] = rs[i]
        BY <3>1, <2>1, <2>3, <1>1 DEF BestOf
      <4> QED
        BY <4>1, <2>2 DEF Beats
    <3>2. CASE i = n
      <4>1. Positive(r) /\ Eligible(r) /\ Bits(r) = r.mag /\ r.mag \in Nat /\ r.mag < Top
        BY <3>2, <2>3, <1>1, BitsTell
      <4>2. ~(r.mag < Bits(kept))
        BY <4>1
      <4>3. Positive(rs[p + 1])
        <5>1. CASE ~Positive(rs[p + 1])
          <6>1. Bits(kept) = Top + 1
            BY <5>1, <2>1, <2>2, BitsTell
          <6> QED
            BY <6>1, <4>1, <4>2, RatioAssumption
        <5> QED
          BY <5>1
      <4>4. Bits(kept) = rs[p + 1].mag /\ rs[p + 1].mag \in Nat
        BY <4>3, <2>1, <2>2, BitsTell
      <4>5. rs[p + 1].mag <= r.mag
        BY <4>1, <4>2, <4>4
      <4>6. ~(n < p + 1)
        BY <2>2, <1>1
      <4> QED
        BY <3>2, <4>3, <4>5, <4>6, <2>2, <1>1 DEF Beats
    <3> QED
      BY <3>1, <3>2, <1>1
  <2>4. p + 1 \in 1..n
    BY <2>2, <1>1
  <2> QED
    BY <2>1, <2>2, <2>3, <2>4, <1>1 DEF BestOf
<1>3. ASSUME ~updated
      PROVE  NoneOf(rs2) /\ kept = NoRatio
  <2>1. NoneOf(rs) /\ kept = NoRatio
    BY <1>3 DEF Kept
  <2>2. ~Eligible(r)
    <3>1. CASE Eligible(r)
      <4>1. ~(Bits(r) < Top + 1 + Top)
        BY <3>1, <2>1, BitsOfNone
      <4>2. Bits(r) = r.mag \/ Bits(r) = Top + 1
        BY <3>1, BitsTell
      <4>3. r.mag \in Nat /\ r.mag < Top
        BY BitsTell
      <4> QED
        BY <4>1, <4>2, <4>3, RatioAssumption
    <3> QED
      BY <3>1
  <2>3. ASSUME NEW i \in 1..n PROVE ~Eligible(rs2[i])
    <3>1. CASE i \in 1..Len(rs)
      BY <3>1, <2>1, <1>1 DEF NoneOf
    <3>2. CASE i = n
      BY <3>2, <2>2, <1>1
    <3> QED
      BY <3>1, <3>2, <1>1
  <2> QED
    BY <2>1, <2>3, <1>1 DEF NoneOf
<1> QED
  BY <1>2, <1>3 DEF Kept, rs2

-----------------------------------------------------------------------------
(* The moves of the block.                                                  *)

LEMMA InitInv == Init => IInv
<1> SUFFICES ASSUME Init PROVE IInv
  OBVIOUS
<1>1. reset_left = 0 /\ resetn
  BY DEF Init, resetn
<1>2. TypeOK
  <2>1. NoRatio \in Float
    BY RatioAssumption DEF NoRatio, Float
  <2>2. 0 \in 0..NumRows /\ 0 \in 0..NumRows-1 /\ 0 \in 0..MaxRounds /\ 0 \in 0..2
    BY RatioAssumption
  <2>3. Len(<<>>) <= Capacity /\ Len(<<>>) <= NumRows
    BY RatioAssumption
  <2>4. <<>> \in Seq(0..NumRows-1) /\ <<>> \in Seq(Ratio)
    OBVIOUS
  <2> QED
    BY <2>1, <2>2, <2>3, <2>4 DEF Init, TypeOK
<1>3. Flow
  <2>1. Run(<<>>, 0) /\ Len(<<>>) = 0
    BY RunEmpty
  <2>2. Side(<<>>, 0, 0) /\ Queue(<<>>, 0, 0)
    BY <2>1, RatioAssumption DEF Side, Queue
  <2> QED
    BY <2>1, <2>2 DEF Init, Flow
<1>4. Judged
  BY DEF Init, Judged, Kept, NoneOf
<1>5. Resets
  BY <1>1 DEF Init, Resets
<1> QED
  BY <1>2, <1>3, <1>4, <1>5 DEF IInv

\* The types in the form the lemmas about queues use.
LEMMA Types ==
  ASSUME TypeOK
  PROVE  /\ NumRows \in Nat /\ NumRows > 0 /\ Capacity \in Nat /\ MaxRounds \in Nat
         /\ fifo_rhs \in Seq(Nat) /\ fifo_col \in Seq(Nat)
         /\ div_a \in Seq(Nat) /\ div_b \in Seq(Nat)
         /\ Len(div_a) \in Nat /\ Len(div_b) \in Nat
         /\ Len(fifo_rhs) \in Nat /\ Len(fifo_col) \in Nat
         /\ Len(div_a) <= Capacity /\ Len(div_b) <= Capacity
         /\ sent_rhs \in Nat /\ sent_col \in Nat
         /\ counter_a \in Nat /\ counter_b \in Nat
         /\ ratios \in Seq(Ratio) /\ Len(ratios) \in Nat
<1>1. NumRows \in Nat /\ NumRows > 0 /\ Capacity \in Nat /\ MaxRounds \in Nat
  BY RatioAssumption
<1>2. \A q : q \in Seq(0..NumRows-1) => q \in Seq(Nat) /\ Len(q) \in Nat
  BY <1>1
<1>3. /\ fifo_rhs \in Seq(0..NumRows-1) /\ fifo_col \in Seq(0..NumRows-1)
      /\ div_a \in Seq(0..NumRows-1) /\ div_b \in Seq(0..NumRows-1)
      /\ Len(div_a) <= Capacity /\ Len(div_b) <= Capacity
      /\ ratios \in Seq(Ratio)
  BY DEF TypeOK
<1>4. /\ sent_rhs \in Nat /\ sent_col \in Nat /\ counter_a \in Nat /\ counter_b \in Nat
  BY <1>1 DEF TypeOK
<1> QED
  BY <1>1, <1>2, <1>3, <1>4

\* When the block has answered, or was never started, nothing is under way.
LEMMA RestIsEmpty ==
  ASSUME IInv, resetn, rounds = 0 \/ cont \/ terminate
  PROVE  /\ fifo_rhs = <<>> /\ fifo_col = <<>> /\ div_a = <<>> /\ div_b = <<>>
         /\ cont \/ terminate => sent_rhs = NumRows /\ sent_col = NumRows
<1>1. /\ NumRows \in Nat
      /\ Len(div_a) \in Nat /\ Len(div_b) \in Nat
      /\ Len(fifo_rhs) \in Nat /\ Len(fifo_col) \in Nat
      /\ sent_rhs \in Nat /\ sent_col \in Nat
      /\ counter_a \in Nat /\ counter_b \in Nat /\ Len(ratios) \in Nat
      /\ fifo_rhs \in Seq(Nat) /\ fifo_col \in Seq(Nat)
      /\ div_a \in Seq(Nat) /\ div_b \in Seq(Nat)
  BY Types DEF IInv
<1>2. /\ counter_a + Len(fifo_rhs) = sent_rhs /\ sent_rhs <= NumRows
      /\ counter_b + Len(fifo_col) = sent_col /\ sent_col <= NumRows
      /\ Len(ratios) + Len(div_a) = counter_a
      /\ Len(ratios) + Len(div_b) = counter_b
  BY DEF IInv, Flow, Side, Queue
<1>3. \/ sent_rhs = 0 /\ sent_col = 0
      \/ Len(ratios) = NumRows
  BY DEF IInv, Judged, Resets
<1>4. cont \/ terminate => Len(ratios) = NumRows
  BY DEF IInv, Judged
<1>5. Len(fifo_rhs) = 0 /\ Len(fifo_col) = 0 /\ Len(div_a) = 0 /\ Len(div_b) = 0
  BY <1>1, <1>2, <1>3
<1>6. ASSUME Len(ratios) = NumRows PROVE sent_rhs = NumRows /\ sent_col = NumRows
  BY <1>1, <1>2, <1>6
<1> QED
  BY <1>1, <1>4, <1>5, <1>6

\* An edge with the start line low.
LEMMA ResetStep ==
  ASSUME IInv, ~resetn, NEW divaready \in BOOLEAN, NEW divbready \in BOOLEAN,
         NEW out \in BOOLEAN, NEW r \in Ratio, Edge(divaready, divbready, out, r)
  PROVE  IInv'
<1>1. /\ reset_left \in 1..2
      /\ sent_rhs = 0 /\ sent_col = 0 /\ fifo_rhs = <<>> /\ fifo_col = <<>>
      /\ rounds # 0
  BY DEF IInv, TypeOK, Resets, resetn
<1>2. /\ best_ratio' = NoRatio /\ ratio_updated' = FALSE
      /\ pivot_row_index' = 0 /\ pivot_col_pivot_row_data' = 0
      /\ cont' = FALSE /\ terminate' = FALSE
  BY DEF Edge, ResultEdge, Reset, NoResult, Flagged, Accept, PassOver, Judging
<1>3. /\ counter_a' = 0 /\ counter_b' = 0 /\ div_a' = <<>> /\ div_b' = <<>> /\ ratios' = <<>>
  BY DEF Edge, OperandEdge, Count, DividerEdge, Record
<1>4. /\ reset_left' = IF reset_left = 0 THEN 0 ELSE reset_left - 1
      /\ ReaderEdge(divaready, divbready)
      /\ rounds' = rounds
  BY DEF Edge, ControlEdge
<1>5. /\ fifo_rhs' = <<>> /\ fifo_col' = <<>> /\ sent_rhs' = 0 /\ sent_col' = 0
  BY <1>1, <1>4 DEF ReaderEdge, Popped
<1>6. reset_left' \in 0..1 /\ (resetn' <=> reset_left' = 0)
  BY <1>1, <1>4 DEF resetn
<1>7. Flow'
  <2>1. Run(<<>>, 0) /\ Len(<<>>) = 0
    BY RunEmpty
  <2>2. Side(<<>>, 0, 0) /\ Queue(<<>>, 0, 0)
    BY <2>1, RatioAssumption DEF Side, Queue
  <2> QED
    BY <2>1, <2>2, <1>3, <1>5 DEF Flow, Side, Queue, Run
<1>8. Judged'
  <2>1. Kept(<<>>, FALSE, 0, NoRatio)
    BY DEF Kept, NoneOf
  <2> QED
    BY <2>1, <1>2, <1>3 DEF Judged, Kept, NoneOf
<1>9. Resets'
  BY <1>1, <1>2, <1>3, <1>4, <1>5 DEF Resets
<1>10. TypeOK'
  <2>1. NoRatio \in Float
    BY RatioAssumption DEF NoRatio, Float
  <2>2. 0 \in 0..NumRows /\ 0 \in 0..NumRows-1
    BY RatioAssumption
  <2>3. Len(<<>>) <= Capacity /\ Len(<<>>) <= NumRows
    BY RatioAssumption
  <2>4. <<>> \in Seq(0..NumRows-1) /\ <<>> \in Seq(Ratio)
    OBVIOUS
  <2>5. rounds' \in 0..MaxRounds
    BY <1>4 DEF IInv, TypeOK
  <2>6. reset_left' \in 0..2
    BY <1>6
  <2> QED
    BY <2>1, <2>2, <2>3, <2>4, <2>5, <2>6, <1>2, <1>3, <1>5 DEF TypeOK
<1> QED
  BY <1>7, <1>8, <1>9, <1>10 DEF IInv

-----------------------------------------------------------------------------
(* An edge with the start line high.                                        *)

\* One reader, its FIFO and its counter.
LEMMA ReaderMoves ==
  ASSUME resetn, NEW ready,
         NEW fifo \in Seq(Nat), NEW sent \in Nat, NEW counter \in Nat,
         Side(fifo, sent, counter),
         NEW fifo2, NEW sent2,
         \/ fifo2 = Popped(fifo, ready) /\ sent2 = sent
         \/ sent < NumRows /\ fifo2 = Append(Popped(fifo, ready), sent) /\ sent2 = sent + 1
  PROVE  /\ fifo2 \in Seq(Nat) /\ sent2 \in Nat /\ Count(counter, fifo, ready) \in Nat
         /\ Side(fifo2, sent2, Count(counter, fifo, ready))
<1> DEFINE rest == Popped(fifo, ready)
           counter2 == Count(counter, fifo, ready)
<1>1. rest \in Seq(Nat) /\ counter2 \in Nat /\ Side(rest, sent, counter2)
  <2>1. CASE Open(ready) /\ fifo # <<>>
    <3>1. rest = Tail(fifo) /\ counter2 = counter + 1
      BY <2>1 DEF Popped, Count
    <3>2. Tail(fifo) \in Seq(Nat) /\ Side(Tail(fifo), sent, counter + 1)
      BY <2>1, SideTake
    <3>3. counter2 \in Nat
      BY <3>1
    <3> QED
      BY <3>1, <3>2, <3>3, Zenon
  <2>2. CASE ~(Open(ready) /\ fifo # <<>>)
    <3>1. rest = fifo /\ counter2 = counter
      BY <2>2 DEF Popped, Count
    <3> QED
      BY <3>1, Zenon
  <2> QED
    BY <2>1, <2>2
<1> HIDE DEF rest, counter2
<1>2. CASE fifo2 = rest /\ sent2 = sent
  BY <1>1, <1>2, Zenon DEF counter2
<1>3. CASE sent < NumRows /\ fifo2 = Append(rest, sent) /\ sent2 = sent + 1
  <2>1. Append(rest, sent) \in Seq(Nat) /\ Side(Append(rest, sent), sent + 1, counter2)
    BY <1>1, <1>3, SideSend
  <2>2. sent2 \in Nat
    BY <1>3
  <2> QED
    BY <2>1, <2>2, <1>1, <1>3, Zenon DEF counter2
<1> QED
  BY <1>2, <1>3 DEF rest

\* One side of the divider: a quotient comes out, or none; an operand goes in,
\* or none.
LEMMA DividerMoves ==
  ASSUME NEW queue \in Seq(Nat), Len(queue) <= Capacity,
         NEW n \in Nat, NEW counter \in Nat, Queue(queue, n, counter),
         NEW rest, NEW n2, NEW queue2, NEW counter2,
         \/ rest = queue /\ n2 = n
         \/ queue # <<>> /\ rest = Tail(queue) /\ n2 = n + 1,
         \/ queue2 = rest /\ counter2 = counter
         \/ Len(queue) < Capacity /\ queue2 = Append(rest, counter) /\ counter2 = counter + 1
  PROVE  /\ queue2 \in Seq(Nat) /\ Len(queue2) <= Capacity
         /\ Queue(queue2, n2, counter2)
<1>1. rest \in Seq(Nat) /\ Len(rest) <= Len(queue) /\ n2 \in Nat /\ Queue(rest, n2, counter)
  <2>1. CASE queue # <<>> /\ rest = Tail(queue) /\ n2 = n + 1
    <3>1. /\ Tail(queue) \in Seq(Nat) /\ Len(Tail(queue)) = Len(queue) - 1
          /\ Queue(Tail(queue), n + 1, counter)
      BY <2>1, QueueOut
    <3>2. n2 \in Nat
      BY <2>1
    <3>3. Len(Tail(queue)) <= Len(queue)
      BY <3>1
    <3> QED
      BY <2>1, <3>1, <3>2, <3>3, Zenon
  <2>2. CASE rest = queue /\ n2 = n
    <3>1. Len(queue) <= Len(queue)
      OBVIOUS
    <3> QED
      BY <2>2, <3>1, Zenon
  <2> QED
    BY <2>1, <2>2
<1>2. Len(rest) \in Nat /\ Len(queue) \in Nat /\ Capacity \in Nat
  BY <1>1, RatioAssumption
<1>3. CASE Len(queue) < Capacity /\ queue2 = Append(rest, counter) /\ counter2 = counter + 1
  <2>1. /\ Append(rest, counter) \in Seq(Nat) /\ Len(Append(rest, counter)) = Len(rest) + 1
        /\ Queue(Append(rest, counter), n2, counter + 1)
    BY <1>1, QueueIn
  <2>2. Len(Append(rest, counter)) <= Capacity
    BY <1>1, <1>2, <1>3, <2>1
  <2> QED
    BY <1>3, <2>1, <2>2, Zenon
<1>4. CASE queue2 = rest /\ counter2 = counter
  <2>1. Len(rest) <= Capacity
    BY <1>1, <1>2
  <2> QED
    BY <2>1, <1>1, <1>4, Zenon
<1> QED
  BY <1>3, <1>4

\* Before an answer the FIFOs are told what the divider says; after it they are
\* empty.
LEMMA NothingFedTwice ==
  ASSUME IInv, resetn, NEW ready
  PROVE  /\ ready /\ fifo_rhs # <<>> => Open(ready)
         /\ ready /\ fifo_col # <<>> => Open(ready)
<1>1. CASE cont \/ terminate
  BY <1>1, RestIsEmpty
<1>2. CASE ~cont /\ ~terminate
  BY <1>2 DEF Open
<1> QED
  BY <1>1, <1>2

\* What an edge with the start line high does to the words on their way.
LEMMA FlowMoves ==
  ASSUME IInv, resetn, NEW divaready \in BOOLEAN, NEW divbready \in BOOLEAN,
         NEW out \in BOOLEAN, NEW r \in Ratio, Edge(divaready, divbready, out, r)
  PROVE  /\ div_a' \in Seq(Nat) /\ Len(div_a') <= Capacity
         /\ div_b' \in Seq(Nat) /\ Len(div_b') <= Capacity
         /\ ratios' = IF out THEN Append(ratios, r) ELSE ratios
         /\ ratios' \in Seq(Ratio)
         /\ Queue(div_a', Len(ratios'), counter_a') /\ Queue(div_b', Len(ratios'), counter_b')
         /\ out => Head(div_a) = Len(ratios) /\ Head(div_b) = Len(ratios)
         /\ out => div_a # <<>> /\ div_b # <<>>
<1>1. /\ fifo_rhs \in Seq(Nat) /\ fifo_col \in Seq(Nat)
      /\ div_a \in Seq(Nat) /\ div_b \in Seq(Nat)
      /\ Len(div_a) <= Capacity /\ Len(div_b) <= Capacity
      /\ counter_a \in Nat /\ counter_b \in Nat
      /\ sent_col \in Nat
      /\ ratios \in Seq(Ratio) /\ Len(ratios) \in Nat
  BY Types DEF IInv
<1>2. /\ Side(fifo_col, sent_col, counter_b)
      /\ Queue(div_a, Len(ratios), counter_a) /\ Queue(div_b, Len(ratios), counter_b)
  BY DEF IInv, Flow
<1>3. /\ divaready => Len(div_a) < Capacity
      /\ divbready => Len(div_b) < Capacity
      /\ out => div_a # <<>> /\ div_b # <<>>
      /\ div_a' = Fed(IF out THEN Tail(div_a) ELSE div_a, fifo_rhs, counter_a, divaready)
      /\ div_b' = Fed(IF out THEN Tail(div_b) ELSE div_b, fifo_col, Head(fifo_col), divbready)
  BY DEF Edge, DividerEdge
<1>4. /\ counter_a' = Count(counter_a, fifo_rhs, divaready)
      /\ counter_b' = Count(counter_b, fifo_col, divbready)
  BY DEF Edge, OperandEdge
<1>5. ratios' = IF out THEN Append(ratios, r) ELSE ratios
  BY DEF Edge, Record
<1>6. ratios' \in Seq(Ratio) /\ Len(ratios') = IF out THEN Len(ratios) + 1 ELSE Len(ratios)
  <2>1. CASE out
    BY <2>1, <1>1, <1>5, AppendKeeps
  <2>2. CASE ~out
    BY <2>2, <1>1, <1>5
  <2> QED
    BY <2>1, <2>2
<1>7. /\ div_a' \in Seq(Nat) /\ Len(div_a') <= Capacity
      /\ Queue(div_a', Len(ratios'), counter_a')
      /\ out => Head(div_a) = Len(ratios)
  <2> DEFINE rest == IF out THEN Tail(div_a) ELSE div_a
  <2>1. divaready /\ fifo_rhs # <<>> => Open(divaready)
    BY NothingFedTwice
  <2>2. div_a' = Fed(rest, fifo_rhs, counter_a, divaready)
    BY <1>3
  <2>3. \/ div_a' = rest /\ counter_a' = counter_a
        \/ /\ Len(div_a) < Capacity /\ div_a' = Append(rest, counter_a) /\ counter_a' = counter_a + 1
    <3>1. CASE divaready /\ fifo_rhs # <<>>
      BY <3>1, <2>1, <2>2, <1>3, <1>4 DEF Fed, Count
    <3>2. CASE ~(divaready /\ fifo_rhs # <<>>)
      BY <3>2, <2>2, <1>4 DEF Fed, Count, Open
    <3> QED
      BY <3>1, <3>2
  <2>4. \/ rest = div_a /\ Len(ratios') = Len(ratios)
        \/ div_a # <<>> /\ rest = Tail(div_a) /\ Len(ratios') = Len(ratios) + 1
    BY <1>3, <1>6
  <2>5. out => Head(div_a) = Len(ratios)
    BY <1>1, <1>2, <1>3, QueueOut
  <2> HIDE DEF rest
  <2>6. /\ div_a \in Seq(Nat) /\ Len(div_a) <= Capacity /\ Len(ratios) \in Nat /\ counter_a \in Nat
        /\ Queue(div_a, Len(ratios), counter_a)
    BY <1>1, <1>2
  <2>7. /\ div_a' \in Seq(Nat) /\ Len(div_a') <= Capacity
        /\ Queue(div_a', Len(ratios'), counter_a')
    BY <2>3, <2>4, <2>6, DividerMoves
  <2> QED
    BY <2>5, <2>7
<1>8. /\ div_b' \in Seq(Nat) /\ Len(div_b') <= Capacity
      /\ Queue(div_b', Len(ratios'), counter_b')
      /\ out => Head(div_b) = Len(ratios)
  <2> DEFINE rest == IF out THEN Tail(div_b) ELSE div_b
  <2>1. divbready /\ fifo_col # <<>> => Open(divbready)
    BY NothingFedTwice
  <2>2. fifo_col # <<>> => Head(fifo_col) = counter_b
    BY <1>1, <1>2, SideTake
  <2>3. div_b' = Fed(rest, fifo_col, counter_b, divbready)
    BY <1>3, <2>2 DEF Fed
  <2>4. \/ div_b' = rest /\ counter_b' = counter_b
        \/ /\ Len(div_b) < Capacity /\ div_b' = Append(rest, counter_b) /\ counter_b' = counter_b + 1
    <3>1. CASE divbready /\ fifo_col # <<>>
      BY <3>1, <2>1, <2>3, <1>3, <1>4 DEF Fed, Count
    <3>2. CASE ~(divbready /\ fifo_col # <<>>)
      BY <3>2, <2>3, <1>4 DEF Fed, Count, Open
    <3> QED
      BY <3>1, <3>2
  <2>5. \/ rest = div_b /\ Len(ratios') = Len(ratios)
        \/ div_b # <<>> /\ rest = Tail(div_b) /\ Len(ratios') = Len(ratios) + 1
    BY <1>3, <1>6
  <2>6. out => Head(div_b) = Len(ratios)
    BY <1>1, <1>2, <1>3, QueueOut
  <2> HIDE DEF rest
  <2>7. /\ div_b \in Seq(Nat) /\ Len(div_b) <= Capacity /\ Len(ratios) \in Nat /\ counter_b \in Nat
        /\ Queue(div_b, Len(ratios), counter_b)
    BY <1>1, <1>2
  <2>8. /\ div_b' \in Seq(Nat) /\ Len(div_b') <= Capacity
        /\ Queue(div_b', Len(ratios'), counter_b')
    BY <2>4, <2>5, <2>7, DividerMoves
  <2> QED
    BY <2>6, <2>8
<1> QED
  BY <1>3, <1>4, <1>5, <1>6, <1>7, <1>8, Zenon

\* What an edge with the start line high does to the choice.
LEMMA ChoiceMoves ==
  ASSUME IInv, resetn, NEW divaready \in BOOLEAN, NEW divbready \in BOOLEAN,
         NEW out \in BOOLEAN, NEW r \in Ratio, Edge(divaready, divbready, out, r)
  PROVE  /\ pivot_col_pivot_row_data' = pivot_row_index'
         /\ Kept(ratios', ratio_updated', pivot_row_index', best_ratio')
         /\ cont' => ratio_updated' /\ Len(ratios') = NumRows
         /\ terminate' => ~ratio_updated' /\ Len(ratios') = NumRows
         /\ best_ratio' \in Float /\ ratio_updated' \in BOOLEAN
         /\ pivot_row_index' \in Row
         /\ cont' \in BOOLEAN /\ terminate' \in BOOLEAN
<1>1. /\ ratios' = IF out THEN Append(ratios, r) ELSE ratios
      /\ out => Head(div_a) = Len(ratios) /\ Head(div_b) = Len(ratios)
      /\ out => div_a # <<>> /\ div_b # <<>>
  BY FlowMoves
<1>2. /\ pivot_col_pivot_row_data = pivot_row_index
      /\ Kept(ratios, ratio_updated, pivot_row_index, best_ratio)
      /\ cont => ratio_updated /\ Len(ratios) = NumRows
      /\ terminate => ~ratio_updated /\ Len(ratios) = NumRows
  BY DEF IInv, Judged
<1>3. /\ best_ratio \in Float /\ ratio_updated \in BOOLEAN /\ pivot_row_index \in Row
      /\ cont \in BOOLEAN /\ terminate \in BOOLEAN
      /\ div_a \in Seq(Row) /\ ratios \in Seq(Ratio)
  BY DEF IInv, TypeOK, Row
<1>4. NumRows \in Nat /\ Len(ratios) \in Nat
  BY Types DEF IInv
<1>5. ASSUME out
      PROVE  /\ ratios' = Append(ratios, r)
             /\ LastRow => Len(ratios') = NumRows
             /\ Head(div_a) = Len(ratios) /\ Head(div_b) = Len(ratios)
  <2>1. ratios' = Append(ratios, r) /\ Len(Append(ratios, r)) = Len(ratios) + 1
    BY <1>1, <1>3, <1>5, AppendKeeps
  <2>2. Head(div_a) = Len(ratios) /\ Head(div_b) = Len(ratios)
    BY <1>1, <1>5
  <2> QED
    BY <2>1, <2>2, <1>4 DEF LastRow
<1>6. CASE NoResult(out)
  <2>1. ~out
    BY <1>1, <1>6, RestIsEmpty DEF NoResult
  <2>2. ratios' = ratios /\ UNCHANGED <<latches, best>>
    BY <2>1, <1>1, <1>6 DEF NoResult
  <2> QED
    BY <2>2, <1>2, <1>3, Zenon DEF latches, best
<1>7. CASE Flagged(out, r)
  <2>1. /\ out /\ ~cont /\ ~terminate
        /\ cont' = (LastRow /\ ratio_updated) /\ terminate' = (LastRow /\ ~ratio_updated)
        /\ UNCHANGED best /\ ~Eligible(r)
    BY <1>7 DEF Flagged, Judging, Eligible
  <2>2. Kept(ratios', ratio_updated, pivot_row_index, best_ratio)
    BY <2>1, <1>2, <1>3, <1>5, PassedOverKeeps
  <2>3. /\ pivot_col_pivot_row_data' = pivot_row_index'
        /\ Kept(ratios', ratio_updated', pivot_row_index', best_ratio')
        /\ best_ratio' \in Float /\ ratio_updated' \in BOOLEAN /\ pivot_row_index' \in Row
    BY <2>1, <2>2, <1>2, <1>3, Zenon DEF best
  <2>4. ratio_updated' = ratio_updated
    BY <2>1 DEF best
  <2>5. cont' => ratio_updated' /\ Len(ratios') = NumRows
    BY <2>1, <2>4, <1>5, Zenon
  <2>6. terminate' => ~ratio_updated' /\ Len(ratios') = NumRows
    BY <2>1, <2>4, <1>5, Zenon
  <2>7. cont' \in BOOLEAN /\ terminate' \in BOOLEAN
    BY <2>1, <1>3 DEF LastRow
  <2> QED
    BY <2>3, <2>5, <2>6, <2>7
<1>8. CASE PassOver(out, r)
  <2>1. /\ out /\ ~cont /\ ~terminate
        /\ cont' = (LastRow /\ ratio_updated) /\ terminate' = terminate
        /\ UNCHANGED best /\ ~(Eligible(r) /\ Bits(r) < Bits(best_ratio))
    BY <1>8 DEF PassOver, Judging, Better, Eligible
  <2>2. Kept(ratios', ratio_updated, pivot_row_index, best_ratio)
    BY <2>1, <1>2, <1>3, <1>5, PassedOverKeeps
  <2>3. /\ pivot_col_pivot_row_data' = pivot_row_index'
        /\ Kept(ratios', ratio_updated', pivot_row_index', best_ratio')
        /\ best_ratio' \in Float /\ ratio_updated' \in BOOLEAN /\ pivot_row_index' \in Row
    BY <2>1, <2>2, <1>2, <1>3, Zenon DEF best
  <2>4. ratio_updated' = ratio_updated
    BY <2>1 DEF best
  <2>5. cont' => ratio_updated' /\ Len(ratios') = NumRows
    BY <2>1, <2>4, <1>5, Zenon
  <2>6. terminate' => ~ratio_updated' /\ Len(ratios') = NumRows
    BY <2>1, <2>4, <1>5, Zenon
  <2>7. cont' \in BOOLEAN /\ terminate' \in BOOLEAN
    BY <2>1, <1>3 DEF LastRow
  <2> QED
    BY <2>3, <2>5, <2>6, <2>7
<1>9. CASE Accept(out, r)
  <2>1. /\ out /\ ~cont /\ ~terminate
        /\ best_ratio' = Quotient(r) /\ ratio_updated' = TRUE
        /\ pivot_row_index' = Head(div_a) /\ pivot_col_pivot_row_data' = Head(div_b)
        /\ cont' = LastRow /\ terminate' = terminate
        /\ Eligible(r) /\ Bits(r) < Bits(best_ratio)
    BY <1>9 DEF Accept, Judging, Better, Eligible
  <2>2. /\ BestOf(Append(ratios, r), Len(ratios) + 1)
        /\ Append(ratios, r)[Len(ratios) + 1] = r
    BY <2>1, <1>2, <1>3, AcceptedIsBest, AppendKeeps
  <2>3. /\ ratios' = Append(ratios, r) /\ pivot_row_index' = Len(ratios)
        /\ pivot_col_pivot_row_data' = Len(ratios)
        /\ LastRow => Len(ratios') = NumRows
    BY <2>1, <1>5
  <2>4. BestOf(ratios', pivot_row_index' + 1) /\ ratios'[pivot_row_index' + 1] = r
    BY <2>2, <2>3, Zenon
  <2>5. Kept(ratios', ratio_updated', pivot_row_index', best_ratio')
    BY <2>1, <2>4, Zenon DEF Kept
  <2>6. pivot_row_index' \in Row
    BY <2>1, <1>1, <1>3
  <2>7. best_ratio' \in Float
    <3>1. r.neg \in BOOLEAN /\ r.mag \in 0..Top-1
      BY DEF Ratio
    <3>2. r.mag \in 0..Top
      BY <3>1, RatioAssumption
    <3> QED
      BY <2>1, <3>1, <3>2 DEF Quotient, Float
  <2>8. cont' \in BOOLEAN
    BY <2>1 DEF LastRow
  <2>9. /\ pivot_col_pivot_row_data' = pivot_row_index'
        /\ cont' => Len(ratios') = NumRows
        /\ ratio_updated' /\ ~terminate'
    BY <2>1, <2>3
  <2>10. /\ cont' => ratio_updated' /\ Len(ratios') = NumRows
         /\ terminate' => ~ratio_updated' /\ Len(ratios') = NumRows
    BY <2>9
  <2>11. ratio_updated' \in BOOLEAN /\ terminate' \in BOOLEAN
    BY <2>1, <1>3, Zenon
  <2> QED
    BY <2>5, <2>6, <2>7, <2>8, <2>9, <2>10, <2>11
<1> QED
  <2>1. ~Reset
    BY DEF Reset
  <2> QED
    BY <2>1, <1>6, <1>7, <1>8, <1>9 DEF Edge, ResultEdge

\* An edge on which the start line stays high.
LEMMA RunStep ==
  ASSUME IInv, resetn, NEW divaready \in BOOLEAN, NEW divbready \in BOOLEAN,
         NEW out \in BOOLEAN, NEW r \in Ratio, Edge(divaready, divbready, out, r),
         reset_left' = 0, ReaderEdge(divaready, divbready), rounds' = rounds
  PROVE  IInv'
<1>1. /\ fifo_rhs \in Seq(Nat) /\ fifo_col \in Seq(Nat)
      /\ counter_a \in Nat /\ counter_b \in Nat
      /\ sent_rhs \in Nat /\ sent_col \in Nat
      /\ NumRows \in Nat
  BY Types DEF IInv
<1>2. /\ Side(fifo_rhs, sent_rhs, counter_a) /\ Side(fifo_col, sent_col, counter_b)
  BY DEF IInv, Flow
<1>3. /\ counter_a' = Count(counter_a, fifo_rhs, divaready)
      /\ counter_b' = Count(counter_b, fifo_col, divbready)
  BY DEF Edge, OperandEdge
<1>4. /\ \/ fifo_rhs' = Popped(fifo_rhs, divaready) /\ sent_rhs' = sent_rhs
         \/ /\ sent_rhs < NumRows /\ rounds > 0
            /\ fifo_rhs' = Append(Popped(fifo_rhs, divaready), sent_rhs)
            /\ sent_rhs' = sent_rhs + 1
      /\ \/ fifo_col' = Popped(fifo_col, divbready) /\ sent_col' = sent_col
         \/ /\ sent_col < NumRows /\ rounds > 0
            /\ fifo_col' = Append(Popped(fifo_col, divbready), sent_col)
            /\ sent_col' = sent_col + 1
  BY DEF ReaderEdge
<1>5. /\ fifo_rhs' \in Seq(Nat) /\ sent_rhs' \in Nat /\ counter_a' \in Nat
      /\ Side(fifo_rhs', sent_rhs', counter_a')
  <2>1. /\ fifo_rhs' \in Seq(Nat) /\ sent_rhs' \in Nat /\ Count(counter_a, fifo_rhs, divaready) \in Nat
        /\ Side(fifo_rhs', sent_rhs', Count(counter_a, fifo_rhs, divaready))
    BY <1>1, <1>2, <1>4, ReaderMoves
  <2> QED
    BY <2>1, <1>3, Zenon
<1>6. /\ fifo_col' \in Seq(Nat) /\ sent_col' \in Nat /\ counter_b' \in Nat
      /\ Side(fifo_col', sent_col', counter_b')
  <2>1. /\ fifo_col' \in Seq(Nat) /\ sent_col' \in Nat /\ Count(counter_b, fifo_col, divbready) \in Nat
        /\ Side(fifo_col', sent_col', Count(counter_b, fifo_col, divbready))
    BY <1>1, <1>2, <1>4, ReaderMoves
  <2> QED
    BY <2>1, <1>3, Zenon
<1>7. /\ div_a' \in Seq(Nat) /\ Len(div_a') <= Capacity
      /\ div_b' \in Seq(Nat) /\ Len(div_b') <= Capacity
      /\ ratios' \in Seq(Ratio)
      /\ Queue(div_a', Len(ratios'), counter_a') /\ Queue(div_b', Len(ratios'), counter_b')
  BY FlowMoves
<1>8. Flow'
  BY <1>5, <1>6, <1>7 DEF Flow, Side, Queue, Run
<1>9. Judged'
  BY ChoiceMoves DEF Judged, Kept, BestOf, Beats, NoneOf
<1>10. Resets'
  <2>1. resetn' /\ reset_left' # 1
    BY DEF resetn
  <2>2. rounds' = 0 => sent_rhs' = 0 /\ sent_col' = 0
    BY <1>4 DEF IInv, Resets
  <2> QED
    BY <2>1, <2>2 DEF Resets
<1>11. TypeOK'
  <2>1. /\ fifo_rhs' \in Seq(Row) /\ fifo_col' \in Seq(Row)
        /\ sent_rhs' \in 0..NumRows /\ sent_col' \in 0..NumRows
        /\ counter_a' \in 0..NumRows /\ counter_b' \in 0..NumRows
    <3>1. /\ counter_a' + Len(fifo_rhs') = sent_rhs' /\ sent_rhs' <= NumRows
          /\ counter_b' + Len(fifo_col') = sent_col' /\ sent_col' <= NumRows
          /\ Run(fifo_rhs', counter_a') /\ Run(fifo_col', counter_b')
      BY <1>5, <1>6 DEF Side
    <3>2. Len(fifo_rhs') \in Nat /\ Len(fifo_col') \in Nat
      BY <1>5, <1>6
    <3>3. counter_a' + Len(fifo_rhs') <= NumRows /\ counter_b' + Len(fifo_col') <= NumRows
      BY <3>1, <3>2
    <3>4. fifo_rhs' \in Seq(Row) /\ fifo_col' \in Seq(Row)
      BY <3>1, <3>3, <1>5, <1>6, RunOfRows
    <3>5. /\ sent_rhs' \in 0..NumRows /\ sent_col' \in 0..NumRows
          /\ counter_a' \in 0..NumRows /\ counter_b' \in 0..NumRows
      BY <3>1, <3>2, <1>1, <1>5, <1>6
    <3> QED
      BY <3>4, <3>5
  <2>2. div_a' \in Seq(Row) /\ div_b' \in Seq(Row) /\ Len(ratios') <= NumRows
    <3>1. /\ Len(ratios') + Len(div_a') = counter_a' /\ Run(div_a', Len(ratios'))
          /\ Len(ratios') + Len(div_b') = counter_b' /\ Run(div_b', Len(ratios'))
      BY <1>7 DEF Queue
    <3>2. Len(ratios') \in Nat /\ Len(div_a') \in Nat /\ Len(div_b') \in Nat
      BY <1>7
    <3>3. /\ Len(ratios') + Len(div_a') <= NumRows /\ Len(ratios') + Len(div_b') <= NumRows
          /\ Len(ratios') <= NumRows
      BY <2>1, <3>1, <3>2, <1>1
    <3> QED
      BY <3>1, <3>2, <3>3, <1>7, RunOfRows
  <2>3. /\ best_ratio' \in Float /\ ratio_updated' \in BOOLEAN /\ pivot_row_index' \in Row
        /\ pivot_col_pivot_row_data' \in Row
        /\ cont' \in BOOLEAN /\ terminate' \in BOOLEAN
    BY ChoiceMoves
  <2>4. reset_left' \in 0..2 /\ rounds' \in 0..MaxRounds
    BY DEF IInv, TypeOK
  <2> QED
    BY <2>1, <2>2, <2>3, <2>4, <1>7 DEF TypeOK, Row
<1> QED
  BY <1>8, <1>9, <1>10, <1>11 DEF IInv

\* An edge on which a round begins.
LEMMA BeginStep ==
  ASSUME IInv, resetn, NEW divaready \in BOOLEAN, NEW divbready \in BOOLEAN,
         NEW out \in BOOLEAN, NEW r \in Ratio, Edge(divaready, divbready, out, r),
         rounds < MaxRounds, rounds > 0 => cont \/ terminate,
         reset_left' = 2,
         fifo_rhs' = Popped(fifo_rhs, divaready), fifo_col' = Popped(fifo_col, divbready),
         sent_rhs' = 0, sent_col' = 0, rounds' = rounds + 1
  PROVE  IInv'
<1>1. rounds \in 0..MaxRounds /\ MaxRounds \in Nat
  BY RatioAssumption DEF IInv, TypeOK
<1>2. rounds = 0 \/ cont \/ terminate
  BY <1>1
<1>3. fifo_rhs = <<>> /\ fifo_col = <<>> /\ div_a = <<>> /\ div_b = <<>>
  BY <1>2, RestIsEmpty
<1>4. ~out /\ fifo_rhs' = <<>> /\ fifo_col' = <<>>
  BY <1>3 DEF Edge, DividerEdge, Popped
<1>5. div_a' = <<>> /\ div_b' = <<>>
  BY <1>3, <1>4 DEF Edge, DividerEdge, Fed
<1>6. counter_a' = counter_a /\ counter_b' = counter_b /\ ratios' = ratios
  BY <1>3, <1>4 DEF Edge, OperandEdge, Count, Record
<1>7. ~resetn' /\ reset_left' # 1 /\ rounds' # 0
  BY <1>1 DEF resetn
<1>8. Flow' /\ Judged' /\ Resets'
  BY <1>4, <1>5, <1>7 DEF Flow, Judged, Resets
<1>9. TypeOK'
  <2>1. /\ 0 \in 0..NumRows
        /\ <<>> \in Seq(0..NumRows-1) /\ Len(<<>>) <= Capacity
        /\ reset_left' \in 0..2 /\ rounds' \in 0..MaxRounds
    BY <1>1, RatioAssumption
  <2>2. /\ best_ratio' \in Float /\ ratio_updated' \in BOOLEAN /\ pivot_row_index' \in Row
        /\ pivot_col_pivot_row_data' \in Row
        /\ cont' \in BOOLEAN /\ terminate' \in BOOLEAN
    BY ChoiceMoves
  <2>3. /\ counter_a' \in 0..NumRows /\ counter_b' \in 0..NumRows
        /\ ratios' \in Seq(Ratio) /\ Len(ratios') <= NumRows
    BY <1>6 DEF IInv, TypeOK
  <2> QED
    BY <2>1, <2>2, <2>3, <1>4, <1>5 DEF TypeOK, Row
<1> QED
  BY <1>8, <1>9 DEF IInv

LEMMA StepInv == ASSUME IInv, [Next]_vars PROVE IInv'
<1>1. CASE Next
  <2>1. PICK divaready \in BOOLEAN, divbready \in BOOLEAN, out \in BOOLEAN :
        \E r \in IF out THEN Ratio ELSE {AnyRatio} : Edge(divaready, divbready, out, r)
    BY <1>1 DEF Next
  <2>2. AnyRatio \in Ratio
    <3>1. [flag |-> FALSE, neg |-> FALSE, mag |-> 0] \in Ratio
      BY RatioAssumption DEF Ratio
    <3> QED
      BY <3>1, Zenon DEF AnyRatio
  <2>3. PICK r \in Ratio : Edge(divaready, divbready, out, r)
    BY <2>1, <2>2
  <2>4. CASE ~resetn
    BY <2>3, <2>4, ResetStep
  <2>5. CASE resetn
    <3>1. ControlEdge(divaready, divbready)
      BY <2>3 DEF Edge
    <3>2. CASE reset_left' = 0 /\ ReaderEdge(divaready, divbready) /\ rounds' = rounds
      BY <2>3, <2>5, <3>2, RunStep
    <3>3. CASE /\ rounds < MaxRounds /\ (rounds > 0 => cont \/ terminate)
               /\ reset_left' = 2
               /\ fifo_rhs' = Popped(fifo_rhs, divaready)
               /\ fifo_col' = Popped(fifo_col, divbready)
               /\ sent_rhs' = 0 /\ sent_col' = 0 /\ rounds' = rounds + 1
      BY <2>3, <2>5, <3>3, BeginStep
    <3> QED
      BY <2>5, <3>1, <3>2, <3>3 DEF ControlEdge, resetn
  <2> QED
    BY <2>4, <2>5
<1>2. CASE UNCHANGED vars
  BY <1>2 DEF IInv, TypeOK, Flow, Side, Queue, Run, Judged, Kept, BestOf, Beats, NoneOf, Resets,
              resetn, vars, latches, counters, best, readers
<1> QED
  BY <1>1, <1>2

\* The strengthening holds in every state the block reaches.
THEOREM Inductive == Spec => []IInv
BY InitInv, StepInv, PTL DEF Spec

\* TypeOK for every instance.
THEOREM TypeCorrect == Spec => []TypeOK
<1>1. IInv => TypeOK
  BY DEF IInv
<1> QED
  BY <1>1, Inductive, PTL

\* However the two columns drift apart on their way, the word of the pivot column
\* handed on with "continue" is the one of the chosen row.
THEOREM PivotIsOfRow == Spec => []PivotOfRow
<1>1. IInv => PivotOfRow
  BY DEF IInv, Judged, PivotOfRow
<1> QED
  BY <1>1, Inductive, PTL

\* An answer comes when both columns have been sent, counted and divided in full:
\* the next round finds neither FIFO nor divider with a word of this one.
THEOREM NothingLeftBehind == Spec => []AllConsumed
<1>1. IInv => AllConsumed
  BY RestIsEmpty DEF AllConsumed
<1> QED
  BY <1>1, Inductive, PTL

\* "Continue" means that all rows have been judged and that the first of the
\* smallest positive ratios has been kept.
THEOREM RatioTest == Spec => []SmallestRatio
<1>1. IInv => SmallestRatio
  <2> SUFFICES ASSUME IInv, cont, resetn PROVE SmallestRatio
    BY DEF SmallestRatio
  <2>1. Len(ratios) = NumRows /\ BestOf(ratios, pivot_row_index + 1)
    BY DEF IInv, Judged, Kept
  <2>2. pivot_row_index \in Nat /\ NumRows \in Nat
    BY RatioAssumption DEF IInv, TypeOK
  <2>3. ASSUME NEW i \in 1..NumRows, Positive(ratios[i])
        PROVE  /\ Positive(Chosen) /\ Chosen.mag <= ratios[i].mag
               /\ i <= pivot_row_index => Chosen.mag < ratios[i].mag
    <3>1. Beats(ratios, pivot_row_index + 1, i)
      BY <2>1, <2>3 DEF BestOf
    <3>2. i <= pivot_row_index => i < pivot_row_index + 1
      BY <2>2
    <3> QED
      BY <3>1, <3>2 DEF Beats, Chosen
  <2>4. Eligible(Chosen)
    BY <2>1 DEF BestOf, Chosen
  <2> QED
    BY <2>1, <2>3, <2>4 DEF SmallestRatio
<1> QED
  BY <1>1, Inductive, PTL

\* The quotient that ended the search in vain was flagged.
FlaggedEnd == terminate => ratios[NumRows].flag

LEMMA FlaggedEndRun ==
  ASSUME IInv, FlaggedEnd, resetn, NEW divaready \in BOOLEAN, NEW divbready \in BOOLEAN,
         NEW out \in BOOLEAN, NEW r \in Ratio, Edge(divaready, divbready, out, r)
  PROVE  FlaggedEnd'
<1>1. /\ ratios' = IF out THEN Append(ratios, r) ELSE ratios
      /\ out => div_a # <<>>
      /\ Head(div_a) = Len(ratios) \/ ~out
  BY FlowMoves
<1>2. terminate => div_a = <<>>
  BY RestIsEmpty
<1>3. CASE NoResult(out)
  <2>1. terminate' => terminate /\ ~out
    BY <1>1, <1>2, <1>3 DEF NoResult, latches
  <2> QED
    BY <1>1, <2>1 DEF FlaggedEnd
<1>4. CASE Flagged(out, r)
  <2>1. out /\ r.flag /\ (terminate' => LastRow)
    BY <1>4 DEF Flagged, Judging
  <2>2. ratios' = Append(ratios, r) /\ ratios \in Seq(Ratio) /\ NumRows \in Nat
    BY <1>1, <2>1, Types DEF IInv
  <2>3. terminate' => Len(ratios) + 1 = NumRows
    BY <1>1, <2>1, <2>2 DEF LastRow
  <2>4. terminate' => ratios'[NumRows] = r
    BY <2>2, <2>3
  <2> QED
    BY <2>1, <2>4 DEF FlaggedEnd
<1>5. CASE Accept(out, r) \/ PassOver(out, r)
  <2>1. ~terminate'
    BY <1>5 DEF Accept, PassOver, Judging
  <2> QED
    BY <2>1 DEF FlaggedEnd
<1> QED
  BY <1>3, <1>4, <1>5 DEF Edge, ResultEdge, Reset

LEMMA FlaggedEndStep == ASSUME IInv, FlaggedEnd, [Next]_vars PROVE FlaggedEnd'
<1>1. CASE Next
  <2>1. PICK divaready \in BOOLEAN, divbready \in BOOLEAN, out \in BOOLEAN :
        \E r \in IF out THEN Ratio ELSE {AnyRatio} : Edge(divaready, divbready, out, r)
    BY <1>1 DEF Next
  <2>2. AnyRatio \in Ratio
    <3>1. [flag |-> FALSE, neg |-> FALSE, mag |-> 0] \in Ratio
      BY RatioAssumption DEF Ratio
    <3> QED
      BY <3>1, Zenon DEF AnyRatio
  <2>3. PICK r \in Ratio : Edge(divaready, divbready, out, r)
    BY <2>1, <2>2
  <2>4. CASE ~resetn
    <3>1. ~terminate'
      BY <2>3, <2>4 DEF Edge, ResultEdge, Reset, NoResult, Flagged, Accept, PassOver, Judging
    <3> QED
      BY <3>1 DEF FlaggedEnd
  <2>5. CASE resetn
    BY <2>3, <2>5, FlaggedEndRun
  <2> QED
    BY <2>4, <2>5
<1>2. CASE UNCHANGED vars
  BY <1>2 DEF FlaggedEnd, vars, latches
<1> QED
  BY <1>1, <1>2

LEMMA FlaggedEnds == Spec => []FlaggedEnd
<1>1. Init => FlaggedEnd
  BY DEF Init, FlaggedEnd
<1> QED
  BY <1>1, FlaggedEndStep, Inductive, PTL DEF Spec

\* "Terminate" means that all rows have been judged, that none is eligible and that
\* the last ratio is flagged.
THEOREM TerminatesRightly == Spec => []Unbounded
<1>1. IInv /\ FlaggedEnd => Unbounded
  <2> SUFFICES ASSUME IInv, FlaggedEnd, terminate, resetn PROVE Unbounded
    BY DEF Unbounded
  <2>1. Len(ratios) = NumRows /\ NoneOf(ratios)
    BY DEF IInv, Judged, Kept
  <2>2. ratios[NumRows].flag
    BY DEF FlaggedEnd
  <2> QED
    BY <2>1, <2>2 DEF Unbounded, NoneOf
<1> QED
  BY <1>1, Inductive, FlaggedEnds, PTL

\* Where no row is eligible and the last quotient is not flagged, the block never
\* answers, for every number of rows and every drift of the two columns.
THEOREM SilenceStays == Spec => []SilentForGood
<1>1. IInv /\ SmallestRatio /\ Unbounded => SilentForGood
  <2> SUFFICES ASSUME IInv, SmallestRatio, Unbounded, Silent, resetn
               PROVE ~cont /\ ~terminate
    BY DEF SilentForGood
  <2>1. ~terminate
    BY DEF Unbounded, Silent
  <2>2. pivot_row_index + 1 \in 1..NumRows
    BY RatioAssumption DEF IInv, TypeOK
  <2> QED
    BY <2>1, <2>2 DEF SmallestRatio, Silent, Chosen
<1> QED
  BY <1>1, RatioTest, TerminatesRightly, Inductive, PTL
=============================================================================
