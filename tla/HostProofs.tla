----------------------------- MODULE HostProofs -----------------------------
(***************************************************************************)
(* What the host program keeps, for every value of the constants: the      *)
(* pacer of the sound follows the machine's clock; a capture's ring and    *)
(* its trace file hold the tail of what ran, whatever ends the capture,    *)
(* and its logs every event; the settings come back from one session to    *)
(* the next.                                                               *)
(***************************************************************************)
EXTENDS AudioPacing, StreamCapture, Settings, SequenceTheorems, FiniteSetTheorems, TLAPS

(***************************************************************************)
(* The pacing of the sound.                                                *)
(***************************************************************************)
\* The quotient is the last whole number of times the divisor fits.
LEMMA QuotientBounds ==
  ASSUME NEW a \in Nat, NEW c \in Nat, c > 0
  PROVE  /\ a \div c \in Nat
         /\ (a \div c) * c <= a
         /\ a < (a \div c) * c + c
  OBVIOUS

\* And there is no other such number.
LEMMA QuotientIs ==
  ASSUME NEW a \in Nat, NEW c \in Nat, c > 0, NEW q \in Nat, q * c <= a, a < q * c + c
  PROVE  a \div c = q
<1>1. a \div c \in Nat /\ (a \div c) * c <= a /\ a < (a \div c) * c + c  BY QuotientBounds
<1> DEFINE p == a \div c
<1>2. p \in Nat /\ p * c <= a /\ a < p * c + c  BY <1>1
<1> HIDE DEF p
<1>3. CASE p < q
  <2>1. (p + 1) * c <= q * c  BY <1>2, <1>3
  <2>2. (p + 1) * c = p * c + c  BY <1>2
  <2> QED BY <1>2, <2>1, <2>2
<1>4. CASE q < p
  <2>1. (q + 1) * c <= p * c  BY <1>2, <1>4
  <2>2. (q + 1) * c = q * c + c  BY <1>2
  <2> QED BY <1>2, <2>1, <2>2
<1> QED BY <1>2, <1>3, <1>4 DEF p

\* A product grows with either factor.
LEMMA ProductGrows ==
  ASSUME NEW a \in Nat, NEW b \in Nat, NEW c \in Nat
  PROVE  /\ a * c \in Nat
         /\ a <= b => a * c <= b * c
         /\ a * c < b * c => a < b
<1>1. a * c \in Nat /\ b * c \in Nat  OBVIOUS
<1>2. a <= b => a * c <= b * c  OBVIOUS
<1>3. b <= a => b * c <= a * c  OBVIOUS
<1> QED BY <1>1, <1>2, <1>3

\* scale_cycles divides first and scales the remainder: it gives the same
\* samples as dividing the whole product, without its overflow.
LEMMA ScaleIsFloor ==
  ASSUME NEW x \in Nat
  PROVE  /\ Due(x) \in Nat
         /\ Due(x) * ClockHz <= x * SampleHz
         /\ x * SampleHz < Due(x) * ClockHz + ClockHz
<1> DEFINE q == x \div ClockHz
           r == x % ClockHz
           rest == r * SampleHz
           p == rest \div ClockHz
<1>1. ClockHz \in Nat /\ SampleHz \in Nat /\ ClockHz > 0  BY PacingAssumption
<1>2. q \in Nat /\ r \in Nat /\ x = q * ClockHz + r  BY <1>1
<1>3. Due(x) = q * SampleHz + p  BY DEF Due, ScaleCycles
<1> HIDE DEF q, r
<1>4. rest \in Nat  BY <1>1, <1>2
<1> HIDE DEF rest
<1>5. p \in Nat /\ p * ClockHz <= rest /\ rest < p * ClockHz + ClockHz
  BY <1>1, <1>4, QuotientBounds
<1> HIDE DEF p
<1>6. x * SampleHz = q * SampleHz * ClockHz + rest
  <2>1. x * SampleHz = (q * ClockHz) * SampleHz + r * SampleHz  BY <1>1, <1>2
  <2> QED BY <1>1, <1>2, <2>1 DEF rest
<1>7. Due(x) * ClockHz = q * SampleHz * ClockHz + p * ClockHz
  <2>1. q * SampleHz \in Nat  BY <1>1, <1>2
  <2> QED BY <1>1, <1>3, <1>5, <2>1
<1>8. q * SampleHz \in Nat /\ q * SampleHz * ClockHz \in Nat /\ p * ClockHz \in Nat
  BY <1>1, <1>2, <1>5
<1> QED BY <1>1, <1>3, <1>4, <1>5, <1>6, <1>7, <1>8

\* More time, no fewer samples.
LEMMA DueGrows ==
  ASSUME NEW x \in Nat, NEW y \in Nat, x <= y
  PROVE  Due(x) <= Due(y)
<1>1. ClockHz \in Nat /\ SampleHz \in Nat /\ ClockHz > 0  BY PacingAssumption
<1> DEFINE d == Due(x)
           e == Due(y)
<1>2. d \in Nat /\ d * ClockHz <= x * SampleHz  BY ScaleIsFloor
<1>3. e \in Nat /\ y * SampleHz < e * ClockHz + ClockHz  BY ScaleIsFloor
<1>4. x * SampleHz <= y * SampleHz /\ x * SampleHz \in Nat /\ y * SampleHz \in Nat
  BY <1>1, ProductGrows
<1> HIDE DEF d, e
<1>5. e * ClockHz + ClockHz = (e + 1) * ClockHz  BY <1>1, <1>3
<1>6. d * ClockHz \in Nat /\ (e + 1) * ClockHz \in Nat  BY <1>1, <1>2, <1>3
<1>7. d * ClockHz < (e + 1) * ClockHz  BY <1>2, <1>3, <1>4, <1>5, <1>6
<1>8. d < e + 1  BY <1>1, <1>2, <1>3, <1>7, ProductGrows
<1> QED BY <1>2, <1>3, <1>8 DEF d, e

\* A sample's boundary has not been reached exactly if the sample lies behind
\* the end of the present cycle.
LEMMA BoundaryAhead ==
  ASSUME NEW k \in Nat, NEW x \in Nat
  PROVE  SampleBoundary(k) > x <=> k * ClockHz >= (x + 1) * SampleHz
<1> DEFINE b == SampleBoundary(k)
           a == k * ClockHz
<1>1. ClockHz \in Nat /\ SampleHz \in Nat /\ SampleHz > 0  BY PacingAssumption
<1>2. a \in Nat  BY <1>1
<1> HIDE DEF a
<1>3. b \in Nat /\ b * SampleHz <= a /\ a < b * SampleHz + SampleHz
  BY <1>1, <1>2, QuotientBounds DEF SampleBoundary, a
<1> HIDE DEF b
<1>4. ASSUME b > x  PROVE a >= (x + 1) * SampleHz
  <2>1. (x + 1) * SampleHz <= b * SampleHz  BY <1>1, <1>3, <1>4, ProductGrows
  <2> QED BY <1>1, <1>2, <1>3, <2>1
<1>5. ASSUME a >= (x + 1) * SampleHz  PROVE b > x
  <2>1. b * SampleHz + SampleHz = (b + 1) * SampleHz  BY <1>1, <1>3
  <2>2. (x + 1) * SampleHz < (b + 1) * SampleHz  BY <1>1, <1>2, <1>3, <1>5, <2>1
  <2>3. x + 1 < b + 1  BY <1>1, <1>3, <2>2, ProductGrows
  <2> QED BY <1>3, <2>3
<1> QED BY <1>4, <1>5 DEF a, b

\* The next sample to make, `index`, is the first one whose boundary lies
\* ahead of cycle x.
Ahead(index, x) ==
  /\ index \in Nat \ {0}
  /\ SampleBoundary(index) > x
  /\ index = 1 \/ SampleBoundary(index - 1) <= x

\* So the samples made are those that are due, or one more.
LEMMA MadeAreDue ==
  ASSUME NEW x \in Nat, NEW index, Ahead(index, x)
  PROVE  index - 1 - Due(x) \in {0, 1}
<1> DEFINE d == Due(x)
           s == x * SampleHz
<1>1. ClockHz \in Nat /\ SampleHz \in Nat /\ SampleHz > 0 /\ SampleHz <= ClockHz
  BY PacingAssumption
<1>2. d \in Nat /\ d * ClockHz <= s /\ s < d * ClockHz + ClockHz  BY ScaleIsFloor
<1>3. s \in Nat /\ (x + 1) * SampleHz = s + SampleHz  BY <1>1
<1> HIDE DEF d, s
<1>4. index \in Nat /\ index > 0 /\ index * ClockHz >= s + SampleHz
  BY <1>3, BoundaryAhead DEF Ahead
<1>5. d < index
  <2>1. d * ClockHz < index * ClockHz  BY <1>1, <1>2, <1>3, <1>4
  <2> QED BY <1>1, <1>2, <1>4, <2>1, ProductGrows
<1>6. index - 1 < d + 2
  <2>1. CASE index = 1  BY <1>2, <2>1
  <2>2. CASE index # 1
    <3>1. index - 1 \in Nat /\ ~(SampleBoundary(index - 1) > x)
      <4>1. index - 1 \in Nat /\ SampleBoundary(index - 1) <= x  BY <1>4, <2>2 DEF Ahead
      <4>2. SampleBoundary(index - 1) \in Int
        BY <1>1, <4>1, QuotientBounds, ProductGrows DEF SampleBoundary
      <4> QED BY <4>1, <4>2
    <3>2. ~((index - 1) * ClockHz >= s + SampleHz)  BY <1>3, <3>1, BoundaryAhead
    <3>3. (d + 2) * ClockHz = d * ClockHz + ClockHz + ClockHz  BY <1>1, <1>2
    <3>4. (index - 1) * ClockHz \in Nat /\ d * ClockHz \in Nat  BY <1>1, <1>2, <3>1
    <3>5. (index - 1) * ClockHz < (d + 2) * ClockHz  BY <1>1, <1>2, <1>3, <3>2, <3>3, <3>4
    <3>6. d + 2 \in Nat  BY <1>2
    <3> QED BY <1>1, <3>1, <3>5, <3>6, ProductGrows
  <2> QED BY <2>1, <2>2
<1> QED BY <1>2, <1>4, <1>5, <1>6 DEF d

\* emit_due_audio stops at the first sample that lies ahead, however far the
\* frame went: the CHOOSE in NextIndex has a value, and this is it.
LEMMA NextIsAhead ==
  ASSUME NEW x \in Nat, NEW y \in Nat, x <= y, NEW index, Ahead(index, x)
  PROVE  Ahead(NextIndex(index, y), y) /\ NextIndex(index, y) >= index
<1> DEFINE d == Due(y)
           s == (y + 1) * SampleHz
           First(k) == SampleBoundary(k) > y /\ \A j \in index .. k - 1 : SampleBoundary(j) <= y
           n == NextIndex(index, y)
<1>1. ClockHz \in Nat /\ ClockHz > 0 /\ SampleHz \in Nat /\ SampleHz <= ClockHz
  BY PacingAssumption
<1>2. index \in Nat /\ index > 0  BY DEF Ahead
<1>3. d \in Nat /\ s < (d + 2) * ClockHz
  <2>1. Due(y) \in Nat /\ y * SampleHz < Due(y) * ClockHz + ClockHz  BY ScaleIsFloor
  <2>2. d \in Nat /\ y * SampleHz < d * ClockHz + ClockHz  BY <2>1
  <2> HIDE DEF d
  <2>3. (d + 2) * ClockHz = d * ClockHz + ClockHz + ClockHz  BY <1>1, <2>2
  <2>4. s = y * SampleHz + SampleHz  BY <1>1
  <2>5. y * SampleHz \in Nat /\ d * ClockHz \in Nat  BY <1>1, <2>2
  <2> QED BY <1>1, <2>2, <2>3, <2>4, <2>5
<1>4. s \in Nat  BY <1>1
<1>5. ASSUME NEW k \in Nat  PROVE /\ SampleBoundary(k) \in Int
                                  /\ SampleBoundary(k) > y <=> k * ClockHz >= s
                                  /\ k * ClockHz \in Nat
  BY <1>1, PacingAssumption, BoundaryAhead, QuotientBounds, ProductGrows DEF SampleBoundary
<1> HIDE DEF s
<1>6. \E k \in index .. d + 2 : First(k)
  <2>1. CASE SampleBoundary(index) > y
    <3>1. index - 1 - Due(x) \in {0, 1} /\ Due(x) \in Nat  BY MadeAreDue, ScaleIsFloor
    <3>2. Due(x) <= d  BY DueGrows
    <3>3. index <= d + 2  BY <1>2, <1>3, <3>1, <3>2
    <3> HIDE DEF d
    <3>4. index \in index .. d + 2 /\ First(index)  BY <1>2, <1>3, <2>1, <3>3
    <3> QED BY <3>4
  <2>2. CASE ~(SampleBoundary(index) > y)
    <3> DEFINE a == s + (ClockHz - 1)
               c == a \div ClockHz
    <3>1. a \in Nat  BY <1>1, <1>4
    <3>2. c \in Nat /\ c * ClockHz <= a /\ a < c * ClockHz + ClockHz
      BY <1>1, <3>1, QuotientBounds
    <3> HIDE DEF c, d
    <3>3. c * ClockHz \in Nat /\ c * ClockHz >= s  BY <1>1, <1>4, <3>2
    <3>4. index * ClockHz < s /\ index * ClockHz \in Nat  BY <1>2, <1>4, <1>5, <2>2
    <3>5. index < c  BY <1>1, <1>2, <1>4, <3>2, <3>3, <3>4, ProductGrows
    <3>6. c - 1 \in Nat  BY <1>2, <3>2, <3>5
    <3>7. (c - 1) * ClockHz < s
      <4>1. (c - 1) * ClockHz = c * ClockHz - ClockHz  BY <1>1, <3>2
      <4> QED BY <1>1, <1>4, <3>2, <3>3, <4>1
    <3>8. c <= d + 2
      <4>1. (c - 1) * ClockHz < (d + 2) * ClockHz /\ d + 2 \in Nat
        <5>1. (c - 1) * ClockHz \in Nat /\ (d + 2) * ClockHz \in Nat  BY <1>1, <1>3, <3>6
        <5> QED BY <1>3, <1>4, <3>7, <5>1
      <4>2. c - 1 < d + 2  BY <1>1, <3>6, <4>1, ProductGrows
      <4> QED BY <1>3, <3>2, <4>2
    <3>9. ASSUME NEW j \in index .. c - 1  PROVE SampleBoundary(j) <= y
      <4>1. j \in Nat /\ j <= c - 1  BY <1>2, <3>2
      <4>2. j * ClockHz <= (c - 1) * ClockHz  BY <1>1, <3>6, <4>1, ProductGrows
      <4>3. j * ClockHz \in Nat /\ (c - 1) * ClockHz \in Nat  BY <1>1, <3>6, <4>1
      <4>4. ~(j * ClockHz >= s)  BY <1>4, <3>7, <4>2, <4>3
      <4> QED BY <1>5, <4>1, <4>4
    <3>10. SampleBoundary(c) > y  BY <1>5, <3>2, <3>3
    <3> QED BY <1>2, <1>3, <3>2, <3>5, <3>8, <3>9, <3>10
  <2> QED BY <2>1, <2>2
<1>7. n \in index .. d + 2 /\ First(n)
  <2> HIDE DEF First
  <2>1. n = CHOOSE k \in index .. d + 2 : First(k)  BY DEF NextIndex, First
  <2> QED BY <1>6, <2>1, Zenon
<1> HIDE DEF n, d
<1>8. n \in Nat /\ n >= index /\ SampleBoundary(n) > y  BY <1>2, <1>3, <1>7
<1>9. n = 1 \/ SampleBoundary(n - 1) <= y
  <2>1. CASE n = index
    <3>1. CASE index = 1  BY <2>1, <3>1
    <3>2. CASE index # 1
      <4>1. SampleBoundary(index - 1) <= x /\ index - 1 \in Nat  BY <1>2, <3>2 DEF Ahead
      <4>2. SampleBoundary(index - 1) \in Int  BY <1>5, <4>1
      <4> QED BY <2>1, <4>1, <4>2
    <3> QED BY <3>1, <3>2
  <2>2. CASE n # index
    <3>1. n - 1 \in index .. n - 1  BY <1>2, <1>8, <2>2
    <3> QED BY <1>7, <3>1
  <2> QED BY <2>1, <2>2
<1> QED BY <1>2, <1>8, <1>9 DEF Ahead, n

Paces == [elapsed : Nat, index : Nat, produced : Nat, queue : Nat, made : Nat, pumped : Nat]

\* The inductive invariant.
PacingInv ==
  /\ pace \in Paces
  /\ Ahead(pace.index, pace.elapsed)
  /\ pace.produced = Due(pace.elapsed)
  /\ pace.queue <= QueueLimit

\* At the start the first sample lies ahead and none is due.
LEMMA StartIsAhead == Ahead(1, 0) /\ Due(0) = 0
<1>1. ClockHz \in Nat /\ SampleHz \in Nat /\ SampleHz > 0 /\ SampleHz <= ClockHz
  BY PacingAssumption
<1>2. SampleBoundary(1) > 0  BY <1>1, BoundaryAhead
<1>3. Due(0) = 0
  <2>1. Due(0) \in Nat /\ Due(0) * ClockHz <= 0 * SampleHz  BY ScaleIsFloor
  <2> DEFINE d == Due(0)
  <2>2. d \in Nat /\ d * ClockHz <= 0  BY <1>1, <2>1
  <2> HIDE DEF d
  <2>3. CASE d >= 1
    <3>1. 1 * ClockHz <= d * ClockHz  BY <1>1, <2>2, <2>3, ProductGrows
    <3> QED BY <1>1, <2>2, <3>1
  <2> QED BY <2>2, <2>3 DEF d
<1> QED BY <1>2, <1>3 DEF Ahead

\* What plan() pushes and refills fits in the queue.
LEMMA QueueFits ==
  ASSUME NEW p \in Paces, p.queue <= QueueLimit, NEW x \in Nat, NEW made \in Nat,
         p.produced <= Due(x)
  PROVE  LET plan == Plan(p, x, p.queue)
         IN  /\ plan.pump \in Nat
             /\ plan.produced = Due(x)
             /\ Queued(p, plan, made) \in Nat
             /\ Queued(p, plan, made) <= QueueLimit
<1>1. LowWater \in Nat /\ QueueLimit \in Nat  BY PacingAssumption
<1>2. p.queue \in Nat /\ p.produced \in Nat  BY DEF Paces
<1> DEFINE due == Due(x)
<1>3. due \in Nat /\ p.produced <= due  BY ScaleIsFloor
<1> HIDE DEF due
<1> DEFINE room == IF p.queue >= QueueLimit THEN 0 ELSE QueueLimit - p.queue
           pump == IF due > p.produced THEN due - p.produced ELSE 0
           push == Least(pump, room)
           low == Least(LowWater, QueueLimit)
           silence == IF p.queue = 0 /\ push < low THEN Least(low - push, room - push) ELSE 0
           plan == Plan(p, x, p.queue)
<1>4. /\ plan.pump = pump /\ plan.push = push /\ plan.silence = silence
      /\ plan.produced = p.produced + pump
  BY DEF Plan, due
<1>5. pump \in Nat /\ p.produced + pump = due  BY <1>2, <1>3
<1>6. room \in Nat /\ p.queue + room <= QueueLimit  BY <1>1, <1>2
<1> HIDE DEF room, pump
<1>7. push \in Nat /\ push <= room  BY <1>5, <1>6 DEF Least
<1>8. low \in Nat  BY <1>1 DEF Least
<1> HIDE DEF push, low
<1>9. silence \in Nat /\ silence + push <= room  BY <1>2, <1>6, <1>7, <1>8 DEF Least
<1> HIDE DEF silence, plan
<1>10. Queued(p, plan, made) \in Nat /\ Queued(p, plan, made) <= QueueLimit
  BY <1>1, <1>2, <1>4, <1>6, <1>7, <1>9 DEF Queued, Least
<1> QED BY <1>4, <1>5, <1>10 DEF plan, due

\* Frames, the host's playing and resets keep the pacer in step.
LEMMA PaceStep == PacingInv /\ [PaceNext]_pace_vars => PacingInv'
<1> SUFFICES ASSUME PacingInv, [PaceNext]_pace_vars PROVE PacingInv'  OBVIOUS
<1> USE DEF PacingInv
<1>1. CASE RunOneFrame
  <2>1. PICK overrun \in 0 .. LastInstruction : pace' = RunFrame(pace, overrun)
    BY <1>1 DEF RunOneFrame
  <2> DEFINE x == pace.elapsed
             y == pace.elapsed + FrameLength + overrun
             index == NextIndex(pace.index, y)
             made == index - pace.index
             plan == Plan(pace, y, pace.queue)
  <2>2. pace' = [elapsed |-> y, index |-> index, produced |-> plan.produced,
                 queue |-> Queued(pace, plan, made), made |-> made, pumped |-> plan.pump]
    BY <2>1 DEF RunFrame
  <2>3. x \in Nat /\ y \in Nat /\ x <= y /\ pace.index \in Nat
    BY PacingAssumption DEF Paces
  <2> HIDE DEF x, y
  <2>4. Ahead(index, y) /\ index >= pace.index  BY <2>3, NextIsAhead DEF x
  <2>5. index \in Nat /\ made \in Nat  BY <2>3, <2>4 DEF Ahead
  <2>6. pace.produced <= Due(y)  BY <2>3, DueGrows DEF x
  <2>7. /\ plan.pump \in Nat /\ plan.produced = Due(y)
        /\ Queued(pace, plan, made) \in Nat /\ Queued(pace, plan, made) <= QueueLimit
    BY <2>3, <2>5, <2>6, QueueFits
  <2>8. Due(y) \in Nat  BY <2>3, ScaleIsFloor
  <2> HIDE DEF index, made, plan
  <2> QED BY <2>2, <2>3, <2>4, <2>5, <2>7, <2>8 DEF Paces
<1>2. CASE HostPlays
  BY <1>2, PacingAssumption DEF HostPlays, Paces
<1>3. CASE ResetSoundClock
  BY <1>3, StartIsAhead DEF ResetSoundClock, ResetPacing, StartCursors, Paces
<1>4. CASE UNCHANGED pace_vars
  BY <1>4 DEF pace_vars
<1> QED BY <1>1, <1>2, <1>3, <1>4 DEF PaceNext

\* The counts of the pacer and of the frame loop stay in step, for every pair
\* of rates, length of frame and time between two resets: neither drifts, since
\* each is worked out from the cycles since the reset, and the host's queue
\* keeps its limit (AudioPacer::plan, emit_due_audio, reset_machine).
THEOREM PacerIsInStep == PaceSpec => []PacerFollowsClock
<1>1. PaceInit => PacingInv
  BY StartIsAhead, PacingAssumption DEF PaceInit, PacingInv, Paces
<1>2. PacingInv => PacerFollowsClock
  <2> SUFFICES ASSUME PacingInv PROVE PacerFollowsClock  OBVIOUS
  <2>1. pace.elapsed \in Nat  BY DEF PacingInv, Paces
  <2> QED BY <2>1, MadeAreDue DEF PacingInv, PacerFollowsClock
<1> QED BY <1>1, <1>2, PaceStep, PTL DEF PaceSpec

-----------------------------------------------------------------------------
(***************************************************************************)
(* The ring of a stream capture.                                           *)
(***************************************************************************)
Entries == [sequence : Nat, instruction : Nat]
Reasons == {"FRAME", "MANUAL", "HALT", "CRASH"}

Capture ==
  [active : BOOLEAN, light : BOOLEAN, ring : Seq(Entries), ring_head : Nat, seq : Nat,
   watching : BOOLEAN, window : Nat \X Nat \X Nat \X Nat, rows : Seq(Lines), dropped : Nat,
   ram_observer : BOOLEAN, fdc_observer : BOOLEAN, vdp_observer : BOOLEAN,
   frame : Nat, halted : BOOLEAN, retired : Nat, in_instruction : BOOLEAN, events : Nat,
   watch_log : Seq(Lines), read_log : Seq(Lines), write_log : Seq(Lines),
   trace : Seq(Entries), bundles : Seq(Reasons),
   ran : Seq(Entries), happened : Seq(Lines), written : Seq(Lines)]

\* The ring holds the last of what ran, the oldest at the head; it is written
\* round from there once it is full.
RingHolds(ring, head, ran) ==
  /\ Len(ring) = IF Len(ran) < RingCapacity THEN Len(ran) ELSE RingCapacity
  /\ head \in 0 .. RingCapacity - 1
  /\ Len(ran) < RingCapacity => head = 0
  /\ \A i \in 1 .. Len(ring) :
       ring[((head + i - 1) % Len(ring)) + 1] = ran[Len(ran) - Len(ring) + i]

AllFrames(bundles) == \A i \in 1 .. Len(bundles) : bundles[i] = "FRAME"

\* The inductive invariant.
CaptureInv ==
  /\ cap \in Capture
  /\ cap.active => RingHolds(cap.ring, cap.ring_head, cap.ran) /\ AllFrames(cap.bundles)

\* A slot after the end of the ring is one from its start.
LEMMA SlotAround ==
  ASSUME NEW n \in Nat, n > 0, NEW x \in 0 .. 2 * n - 1
  PROVE  x % n = IF x < n THEN x ELSE x - n
<1>1. CASE x < n  BY <1>1
<1>2. CASE x >= n
  <2>1. x - n \in 0 .. n - 1 /\ x = n + (x - n)  BY <1>2
  <2>2. x \div n = 1
    <3>1. x \div n \in Nat /\ (x \div n) * n <= x /\ x < (x \div n) * n + n  BY QuotientBounds
    <3> QED BY <1>2, QuotientIs
  <2> QED BY <1>2, <2>2
<1> QED BY <1>1, <1>2

\* An entry pushed on a ring that is not full goes to its end; on a full one
\* it takes the place of the oldest, and the next one is the oldest then.
LEMMA PushKeepsRing ==
  ASSUME NEW ring \in Seq(Entries), NEW head \in Nat, NEW ran \in Seq(Entries),
         RingHolds(ring, head, ran), NEW e \in Entries
  PROVE  /\ Len(ring) < RingCapacity =>
              RingHolds(Append(ring, e), head, Append(ran, e))
         /\ Len(ring) >= RingCapacity =>
              RingHolds([ring EXCEPT ![head + 1] = e], (head + 1) % RingCapacity, Append(ran, e))
<1> DEFINE R == RingCapacity
           n == Len(ran)
<1>1. R \in Nat /\ R > 0 /\ n \in Nat  BY CaptureAssumption
<1>2. /\ Len(ring) = IF n < R THEN n ELSE R
      /\ head \in 0 .. R - 1
      /\ n < R => head = 0
      /\ \A i \in 1 .. Len(ring) : ring[((head + i - 1) % Len(ring)) + 1] = ran[n - Len(ring) + i]
  BY DEF RingHolds
<1> DEFINE now == Append(ran, e)
<1>3. /\ Len(now) = n + 1
      /\ \A j \in 1 .. n : now[j] = ran[j]
      /\ now[n + 1] = e
  OBVIOUS
<1> HIDE DEF now
<1>4. ASSUME Len(ring) < R  PROVE RingHolds(Append(ring, e), head, now)
  <2> DEFINE next == Append(ring, e)
  <2>1. n < R /\ Len(ring) = n /\ head = 0  BY <1>1, <1>2, <1>4
  <2>2. Len(next) = n + 1 /\ (\A j \in 1 .. n : next[j] = ring[j]) /\ next[n + 1] = e
    BY <2>1
  <2>3. ASSUME NEW i \in 1 .. n + 1
        PROVE  next[((head + i - 1) % Len(next)) + 1] = now[Len(now) - Len(next) + i]
    <3>1. (head + i - 1) % Len(next) = i - 1
      <4> HIDE DEF next
      <4>1. i - 1 \in 0 .. 2 * (n + 1) - 1 /\ i - 1 < n + 1 /\ n + 1 \in Nat /\ n + 1 > 0
        BY <1>1
      <4>2. (i - 1) % (n + 1) = i - 1  BY <4>1, SlotAround
      <4>3. head + i - 1 = i - 1  BY <1>1, <2>1
      <4> QED BY <2>2, <4>2, <4>3
    <3>2. CASE i <= n
      <4>1. ring[((head + i - 1) % Len(ring)) + 1] = ran[n - Len(ring) + i]
        BY <1>1, <1>2, <2>1, <3>2
      <4>2. (head + i - 1) % n = i - 1  BY <1>1, <2>1, <3>2, SlotAround
      <4> HIDE DEF next
      <4>3. ring[i] = ran[i]  BY <1>1, <2>1, <4>1, <4>2
      <4>4. i \in 1 .. n /\ (i - 1) + 1 = i /\ Len(now) - Len(next) + i = i
        BY <1>1, <1>3, <2>2, <3>2
      <4>5. next[i] = ring[i] /\ now[i] = ran[i]  BY <1>3, <2>2, <4>4
      <4> QED BY <3>1, <4>3, <4>4, <4>5
    <3>3. CASE i = n + 1
      <4>1. ((head + i - 1) % Len(next)) + 1 = n + 1  BY <1>1, <3>1, <3>3
      <4> HIDE DEF next
      <4>2. Len(now) - Len(next) + i = n + 1  BY <1>1, <1>3, <2>2, <3>3
      <4> QED BY <1>3, <2>2, <4>1, <4>2
    <3> QED BY <1>1, <3>2, <3>3
  <2> HIDE DEF next
  <2> QED BY <1>1, <1>2, <1>3, <2>1, <2>2, <2>3 DEF RingHolds, next
<1>5. ASSUME Len(ring) >= R
      PROVE  RingHolds([ring EXCEPT ![head + 1] = e], (head + 1) % R, now)
  <2> DEFINE next == [ring EXCEPT ![head + 1] = e]
             top == (head + 1) % R
  <2>1. n >= R /\ Len(ring) = R  BY <1>1, <1>2, <1>5
  <2>2. /\ Len(next) = R /\ next[head + 1] = e
        /\ \A j \in 1 .. R : j # head + 1 => next[j] = ring[j]
    BY <1>1, <1>2, <2>1
  <2>3. top = IF head + 1 < R THEN head + 1 ELSE 0  BY <1>1, <1>2, SlotAround
  <2> HIDE DEF next, top
  <2>4. ASSUME NEW i \in 1 .. R
        PROVE  next[((top + i - 1) % R) + 1] = now[n + 1 - R + i]
    <3> DEFINE slot == IF head + i < R THEN head + i ELSE head + i - R
    <3>1. (top + i - 1) % R = slot
      <4>1. CASE head + 1 < R
        <5>1. top + i - 1 = head + i /\ head + i \in 0 .. 2 * R - 1  BY <1>1, <1>2, <2>3, <4>1
        <5> QED BY <1>1, <5>1, SlotAround
      <4>2. CASE head + 1 >= R
        <5>1. top + i - 1 = i - 1 /\ i - 1 < R /\ i - 1 \in 0 .. 2 * R - 1 /\ head = R - 1
          BY <1>1, <1>2, <2>3, <4>2
        <5>2. (top + i - 1) % R = i - 1  BY <1>1, <5>1, SlotAround
        <5> QED BY <1>1, <5>1, <5>2
      <4> QED BY <1>1, <1>2, <4>1, <4>2
    <3> HIDE DEF slot
    <3>2. CASE i < R
      <4>1. ring[((head + (i + 1) - 1) % R) + 1] = ran[n - R + (i + 1)]
        <5> DEFINE j == i + 1
        <5>1. j \in 1 .. Len(ring)  BY <1>1, <2>1, <3>2
        <5> HIDE DEF j
        <5>2. ring[((head + j - 1) % R) + 1] = ran[n - R + j]  BY <1>2, <2>1, <5>1
        <5> QED BY <5>2 DEF j
      <4>2. (head + (i + 1) - 1) % R = slot
        <5>1. head + (i + 1) - 1 = head + i /\ head + i \in 0 .. 2 * R - 1  BY <1>1, <1>2, <3>2
        <5> QED BY <1>1, <5>1, SlotAround DEF slot
      <4>3. slot \in 0 .. R - 1 /\ slot # head  BY <1>1, <1>2, <3>2 DEF slot
      <4>4. next[slot + 1] = ring[slot + 1]  BY <1>1, <1>2, <2>2, <4>3
      <4>5. n + 1 - R + i \in 1 .. n /\ n - R + (i + 1) = n + 1 - R + i  BY <1>1, <2>1, <3>2
      <4> QED BY <1>3, <3>1, <4>1, <4>2, <4>4, <4>5
    <3>3. CASE i = R
      <4>1. slot = head /\ n + 1 - R + i = n + 1  BY <1>1, <1>2, <3>3 DEF slot
      <4> QED BY <1>3, <2>2, <3>1, <4>1
    <3> QED BY <1>1, <3>2, <3>3
  <2>5. top \in 0 .. R - 1  BY <1>1, <1>2, <2>3
  <2>6. \A i \in 1 .. Len(next) :
          next[((top + i - 1) % Len(next)) + 1] = now[Len(now) - Len(next) + i]
    BY <1>3, <2>2, <2>4
  <2>7. RingHolds(next, top, now)  BY <1>1, <1>3, <2>1, <2>2, <2>5, <2>6 DEF RingHolds
  <2> QED BY <2>7 DEF next, top
<1> QED BY <1>4, <1>5 DEF now

\* serialize_stream_trace writes the ring from its head: the tail of what ran.
LEMMA TraceIsTheTail ==
  ASSUME NEW c \in Capture, RingHolds(c.ring, c.ring_head, c.ran)
  PROVE  SerializeStreamTrace(c) = RingTail(c.ran) /\ SerializeStreamTrace(c) \in Seq(Entries)
<1> DEFINE R == RingCapacity
           n == Len(c.ran)
           m == Len(c.ring)
           first == IF n > R THEN n - R + 1 ELSE 1
           trace == SerializeStreamTrace(c)
           tail == RingTail(c.ran)
<1>1. /\ c.ring \in Seq(Entries) /\ c.ran \in Seq(Entries) /\ c.ring_head \in Nat
      /\ R \in Nat /\ R > 0 /\ n \in Nat /\ m \in Nat
  <2>1. c.ring \in Seq(Entries) /\ c.ran \in Seq(Entries) /\ c.ring_head \in Nat
    BY DEF Capture
  <2>2. R \in Nat /\ R > 0  BY CaptureAssumption
  <2> QED BY <2>1, <2>2
<1>2. /\ m = IF n < R THEN n ELSE R
      /\ \A i \in 1 .. m : c.ring[((c.ring_head + i - 1) % m) + 1] = c.ran[n - m + i]
  BY DEF RingHolds
<1> HIDE DEF n, m
<1>3. trace = [i \in 1 .. m |-> c.ran[n - m + i]]  BY <1>2 DEF SerializeStreamTrace, n, m
<1>4. first = n - m + 1 /\ first \in 1 .. n + 1  BY <1>1, <1>2
<1>5. /\ tail \in Seq(Entries) /\ Len(tail) = m
      /\ \A i \in 1 .. m : tail[i] = c.ran[first + i - 1]
  <2>1. tail = SubSeq(c.ran, first, n)  BY DEF RingTail, first, n
  <2> HIDE DEF first, tail
  <2>2. \A i \in first .. n : c.ran[i] \in Entries  BY <1>1, <1>4 DEF n
  <2>3. first \in Int /\ n \in Int  BY <1>1, <1>4
  <2>4. /\ SubSeq(c.ran, first, n) \in Seq(Entries)
        /\ Len(SubSeq(c.ran, first, n)) = IF first <= n THEN n - first + 1 ELSE 0
        /\ \A i \in 1 .. n - first + 1 : SubSeq(c.ran, first, n)[i] = c.ran[first + i - 1]
    BY <2>2, <2>3, SubSeqProperties
  <2>5. n - first + 1 = m /\ (IF first <= n THEN n - first + 1 ELSE 0) = m  BY <1>1, <1>2, <1>4
  <2> QED BY <2>1, <2>4, <2>5
<1>6. \A i \in 1 .. m : n - m + i = first + i - 1 /\ n - m + i \in 1 .. n  BY <1>1, <1>2, <1>4
<1> HIDE DEF first, trace, tail
<1>7. \A j \in 1 .. n : c.ran[j] \in Entries  BY <1>1 DEF n
<1>8. trace \in [1 .. m -> Entries]  BY <1>3, <1>6, <1>7
<1>9. trace \in Seq(Entries) /\ Len(trace) = m  BY <1>1, <1>8
<1>10. \A i \in 1 .. m : trace[i] = tail[i]  BY <1>3, <1>5, <1>6
<1>11. trace = tail  BY <1>5, <1>9, <1>10, SeqEqual
<1> QED BY <1>9, <1>11 DEF trace, tail

\* What the observers, the watch and the snapshots leave alone.
SameRing(c, d) ==
  /\ d.active = c.active /\ d.ring = c.ring /\ d.ring_head = c.ring_head
  /\ d.ran = c.ran /\ d.bundles = c.bundles /\ d.retired = c.retired

\* Choosing the observers changes no ring and no trace.
LEMMA RefreshKeeps ==
  ASSUME NEW c \in Capture
  PROVE  RefreshRamWriteObserver(c) \in Capture /\ SameRing(c, RefreshRamWriteObserver(c))
         /\ RefreshRamWriteObserver(c).trace = c.trace
<1> DEFINE b == (c.active /\ c.light) \/ c.watching
<1>1. b \in BOOLEAN  BY DEF Capture
<1>2. RefreshRamWriteObserver(c) = [c EXCEPT !.ram_observer = b]  BY DEF RefreshRamWriteObserver
<1> HIDE DEF b
<1> QED BY <1>1, <1>2 DEF Capture, SameRing

\* A line of a log or a row of the table changes no ring.
LEMMA LogKeeps ==
  ASSUME NEW c \in Capture, NEW l \in Lines
  PROVE  /\ LET d == [c EXCEPT !.watch_log = Append(@, l)] IN d \in Capture /\ SameRing(c, d)
         /\ LET d == [c EXCEPT !.read_log = Append(@, l)] IN d \in Capture /\ SameRing(c, d)
         /\ LET d == [c EXCEPT !.write_log = Append(@, l)] IN d \in Capture /\ SameRing(c, d)
         /\ LET d == [c EXCEPT !.rows = Append(@, l)] IN d \in Capture /\ SameRing(c, d)
         /\ LET d == [c EXCEPT !.dropped = @ + 1] IN d \in Capture /\ SameRing(c, d)
<1>1. ASSUME NEW log \in Seq(Lines), NEW n \in Nat
      PROVE  /\ [c EXCEPT !.watch_log = log] \in Capture /\ SameRing(c, [c EXCEPT !.watch_log = log])
             /\ [c EXCEPT !.read_log = log] \in Capture /\ SameRing(c, [c EXCEPT !.read_log = log])
             /\ [c EXCEPT !.write_log = log] \in Capture /\ SameRing(c, [c EXCEPT !.write_log = log])
             /\ [c EXCEPT !.rows = log] \in Capture /\ SameRing(c, [c EXCEPT !.rows = log])
             /\ [c EXCEPT !.dropped = n] \in Capture /\ SameRing(c, [c EXCEPT !.dropped = n])
  <2>1. [c EXCEPT !.watch_log = log] \in Capture /\ SameRing(c, [c EXCEPT !.watch_log = log])
    BY DEF Capture, SameRing
  <2>2. [c EXCEPT !.read_log = log] \in Capture /\ SameRing(c, [c EXCEPT !.read_log = log])
    BY DEF Capture, SameRing
  <2>3. [c EXCEPT !.write_log = log] \in Capture /\ SameRing(c, [c EXCEPT !.write_log = log])
    BY DEF Capture, SameRing
  <2>4. [c EXCEPT !.rows = log] \in Capture /\ SameRing(c, [c EXCEPT !.rows = log])
    BY DEF Capture, SameRing
  <2>5. [c EXCEPT !.dropped = n] \in Capture /\ SameRing(c, [c EXCEPT !.dropped = n])
    BY DEF Capture, SameRing
  <2> QED BY <2>1, <2>2, <2>3, <2>4, <2>5
<1>2. /\ Append(c.watch_log, l) \in Seq(Lines) /\ Append(c.read_log, l) \in Seq(Lines)
      /\ Append(c.write_log, l) \in Seq(Lines) /\ Append(c.rows, l) \in Seq(Lines)
      /\ c.dropped + 1 \in Nat
  <2>1. /\ c.watch_log \in Seq(Lines) /\ c.read_log \in Seq(Lines) /\ c.write_log \in Seq(Lines)
        /\ c.rows \in Seq(Lines) /\ c.dropped \in Nat
    BY DEF Capture
  <2> QED BY <2>1
<1> QED BY <1>1, <1>2

\* So what the observers do changes none.
LEMMA ObservedKeeps ==
  ASSUME NEW c \in Capture, NEW l \in Lines
  PROVE  Observed(c, l) \in Capture /\ SameRing(c, Observed(c, l))
<1>1. ASSUME NEW d \in Capture
      PROVE  /\ LogStreamMemWrite(d, l) \in Capture /\ SameRing(d, LogStreamMemWrite(d, l))
             /\ MemWatchRecord(d, l) \in Capture /\ SameRing(d, MemWatchRecord(d, l))
             /\ LogStreamVdpRegister(d, l) \in Capture /\ SameRing(d, LogStreamVdpRegister(d, l))
             /\ LogStreamFdcRead(d, l) \in Capture /\ SameRing(d, LogStreamFdcRead(d, l))
             /\ LogStreamFdcWrite(d, l) \in Capture /\ SameRing(d, LogStreamFdcWrite(d, l))
  <2>1. SameRing(d, d)  BY DEF SameRing
  <2>2. LogStreamMemWrite(d, l) \in Capture /\ SameRing(d, LogStreamMemWrite(d, l))
    BY <2>1, LogKeeps, Zenon DEF LogStreamMemWrite
  <2>3. MemWatchRecord(d, l) \in Capture /\ SameRing(d, MemWatchRecord(d, l))
    BY <2>1, LogKeeps, Zenon DEF MemWatchRecord
  <2>4. LogStreamVdpRegister(d, l) \in Capture /\ SameRing(d, LogStreamVdpRegister(d, l))
    BY <2>1, LogKeeps, Zenon DEF LogStreamVdpRegister
  <2>5. LogStreamFdcRead(d, l) \in Capture /\ SameRing(d, LogStreamFdcRead(d, l))
    BY <2>1, LogKeeps, Zenon DEF LogStreamFdcRead
  <2>6. LogStreamFdcWrite(d, l) \in Capture /\ SameRing(d, LogStreamFdcWrite(d, l))
    BY <2>1, LogKeeps, Zenon DEF LogStreamFdcWrite
  <2> QED BY <2>2, <2>3, <2>4, <2>5, <2>6
<1>2. SameRing(c, c)  BY DEF SameRing
<1> DEFINE d == LogStreamMemWrite(c, l)
<1>3. MemWatchRecord(d, l) \in Capture /\ SameRing(c, MemWatchRecord(d, l))
  <2>1. d \in Capture /\ SameRing(c, d)  BY <1>1
  <2> HIDE DEF d
  <2>2. MemWatchRecord(d, l) \in Capture /\ SameRing(d, MemWatchRecord(d, l))  BY <1>1, <2>1
  <2> QED BY <2>1, <2>2 DEF SameRing
<1> QED BY <1>1, <1>2, <1>3 DEF Observed

\* Nor does the note of an event.
LEMMA WitnessedKeeps ==
  ASSUME NEW c \in Capture, NEW l \in Lines
  PROVE  Witnessed(c, l) \in Capture /\ SameRing(c, Witnessed(c, l))
<1> DEFINE happened == IF c.active THEN Append(c.happened, l) ELSE c.happened
           written == IF c.watching /\ l.kind = "ram" THEN Append(c.written, l) ELSE c.written
           events == c.events + 1
           w == [c EXCEPT !.happened = happened, !.written = written, !.in_instruction = TRUE,
                          !.events = events]
<1>1. happened \in Seq(Lines) /\ written \in Seq(Lines) /\ events \in Nat
  <2>1. c.happened \in Seq(Lines) /\ c.written \in Seq(Lines) /\ c.events \in Nat  BY DEF Capture
  <2> QED BY <2>1
<1>2. Witnessed(c, l) = w  BY DEF Witnessed, Capture
<1> HIDE DEF happened, written, events
<1>3. w \in Capture /\ SameRing(c, w)  BY <1>1 DEF Capture, SameRing
<1> QED BY <1>2, <1>3

\* The instruction is retired: what ran grows by it while a capture is on.
LEMMA RetiredKeeps ==
  ASSUME NEW c \in Capture, NEW e \in Entries, NEW h \in BOOLEAN
  PROVE  LET w == Retired(c, e, h)
         IN  /\ w \in Capture /\ w.active = c.active
             /\ w.ring = c.ring /\ w.ring_head = c.ring_head /\ w.bundles = c.bundles
             /\ w.retired = c.retired + 1
             /\ w.ran = IF c.active THEN Append(c.ran, e) ELSE c.ran
<1> DEFINE ran == IF c.active THEN Append(c.ran, e) ELSE c.ran
           retired == c.retired + 1
           w == [c EXCEPT !.ran = ran, !.retired = retired, !.halted = h, !.in_instruction = FALSE]
<1>1. ran \in Seq(Entries) /\ retired \in Nat
  <2>1. c.ran \in Seq(Entries) /\ c.retired \in Nat  BY DEF Capture
  <2> QED BY <2>1
<1>2. Retired(c, e, h) = w  BY DEF Retired, Capture
<1> HIDE DEF ran, retired
<1>3. w \in Capture  BY <1>1 DEF Capture
<1>4. /\ w.active = c.active
      /\ w.ring = c.ring /\ w.ring_head = c.ring_head /\ w.bundles = c.bundles
      /\ w.retired = retired /\ w.ran = ran
  BY DEF Capture
<1> QED BY <1>2, <1>3, <1>4 DEF ran, retired

\* An instruction that is pushed is the last in the ring.
LEMMA PushedKeeps ==
  ASSUME NEW c \in Capture, NEW e \in Entries, NEW ran \in Seq(Entries),
         RingHolds(c.ring, c.ring_head, ran), c.ran = Append(ran, e)
  PROVE  LET p == PushStreamRecord(c, e)
         IN  /\ p \in Capture /\ RingHolds(p.ring, p.ring_head, p.ran)
             /\ p.active = c.active /\ p.bundles = c.bundles /\ p.ran = c.ran
             /\ p.retired = c.retired
<1> DEFINE p == PushStreamRecord(c, e)
<1>1. c.ring \in Seq(Entries) /\ c.ring_head \in Nat /\ c.seq + 1 \in Nat
  <2>1. c.ring \in Seq(Entries) /\ c.ring_head \in Nat /\ c.seq \in Nat  BY DEF Capture
  <2> QED BY <2>1
<1>2. Len(c.ring) \in Nat /\ RingCapacity \in Nat /\ RingCapacity > 0
  BY <1>1, CaptureAssumption
<1>3. CASE Len(c.ring) < RingCapacity
  <2>1. p = [c EXCEPT !.ring = Append(c.ring, e), !.seq = c.seq + 1]
    BY <1>3 DEF PushStreamRecord
  <2>2. RingHolds(Append(c.ring, e), c.ring_head, Append(ran, e))  BY <1>1, <1>3, PushKeepsRing
  <2>3. Append(c.ring, e) \in Seq(Entries)  BY <1>1
  <2> HIDE DEF p
  <2>4. p \in Capture  BY <1>1, <2>1, <2>3 DEF Capture
  <2>5. /\ p.ring = Append(c.ring, e) /\ p.ring_head = c.ring_head /\ p.ran = c.ran
        /\ p.active = c.active /\ p.bundles = c.bundles /\ p.retired = c.retired
    BY <2>1 DEF Capture
  <2> QED BY <2>2, <2>4, <2>5 DEF p
<1>4. CASE ~(Len(c.ring) < RingCapacity)
  <2> DEFINE ring == [c.ring EXCEPT ![c.ring_head + 1] = e]
             head == (c.ring_head + 1) % RingCapacity
  <2>1. p = [c EXCEPT !.ring = ring, !.seq = c.seq + 1, !.ring_head = head]
    BY <1>4 DEF PushStreamRecord
  <2>2. RingHolds(ring, head, Append(ran, e))  BY <1>1, <1>2, <1>4, PushKeepsRing
  <2>3. ring \in Seq(Entries) /\ head \in Nat
    <3>1. c.ring_head + 1 \in 1 .. Len(c.ring)
      BY <1>1, <1>2, <1>4 DEF RingHolds
    <3> QED BY <1>1, <1>2, <3>1, ExceptSeq
  <2> HIDE DEF p, ring, head
  <2>4. p \in Capture  BY <1>1, <2>1, <2>3 DEF Capture
  <2>5. /\ p.ring = ring /\ p.ring_head = head /\ p.ran = c.ran
        /\ p.active = c.active /\ p.bundles = c.bundles /\ p.retired = c.retired
    BY <2>1 DEF Capture
  <2> QED BY <2>2, <2>4, <2>5 DEF p
<1> QED BY <1>3, <1>4

\* The end of a capture, by whatever hand.
LEMMA FinalizeEnds ==
  ASSUME NEW c \in Capture, c.active, RingHolds(c.ring, c.ring_head, c.ran),
         NEW reason \in Reasons
  PROVE  LET f == FinalizeStreamCapture(c, reason)
         IN  /\ f \in Capture /\ ~f.active
             /\ f.trace = RingTail(f.ran) /\ f.ran = c.ran
             /\ f.bundles = Append(c.bundles, reason) /\ f.retired = c.retired
<1> DEFINE trace == SerializeStreamTrace(c)
           bundles == Append(c.bundles, reason)
           g == [c EXCEPT !.trace = trace, !.bundles = bundles, !.fdc_observer = FALSE,
                          !.vdp_observer = FALSE, !.light = FALSE, !.active = FALSE]
<1>1. trace = RingTail(c.ran) /\ trace \in Seq(Entries)  BY TraceIsTheTail
<1>2. bundles \in Seq(Reasons)  BY DEF Capture
<1>3. FinalizeStreamCapture(c, reason) = RefreshRamWriteObserver(g)
  BY DEF FinalizeStreamCapture
<1> HIDE DEF trace, bundles
<1>4. /\ g \in Capture /\ g.active = FALSE /\ g.trace = trace /\ g.ran = c.ran
      /\ g.bundles = bundles /\ g.retired = c.retired
  BY <1>1, <1>2 DEF Capture
<1> HIDE DEF g
<1> QED BY <1>1, <1>3, <1>4, RefreshKeeps DEF SameRing, bundles

\* An event is a line of the current frame.
LEMMA EventLine ==
  ASSUME NEW c \in Capture, NEW event \in BusEvents
  PROVE  LogLine(c, event) \in Lines /\ LogLine(c, event).frame = c.frame
<1>1. event \in BusEvent /\ c.frame \in Nat  BY CaptureAssumption DEF Capture
<1> QED BY <1>1 DEF LogLine, Lines, BusEvent

\* Frames, events and the watch leave the ring alone; only a snapshot is added.
LEMMA OtherStepsKeep ==
  ASSUME CaptureInv,
         VsyncBoundary \/ ColdBoot \/ SetMemWatch \/ ClearMemWatch \/ InstructionEvent
  PROVE  CaptureInv' /\ cap'.active = cap.active
<1> DEFINE quiet(c) == /\ c \in Capture /\ c.active = cap.active /\ c.ring = cap.ring
                       /\ c.ring_head = cap.ring_head /\ c.ran = cap.ran
<1>1. cap \in Capture  BY DEF CaptureInv
<1>2. ASSUME quiet(cap'), cap'.bundles = cap.bundles  PROVE CaptureInv' /\ cap'.active = cap.active
  BY <1>2 DEF CaptureInv
<1>3. CASE VsyncBoundary
  <2> DEFINE frame == cap.frame + 1
             next == [cap EXCEPT !.frame = frame]
             snap == [next EXCEPT !.bundles = Append(@, "FRAME")]
  <2>1. frame \in Nat
    <3>1. cap.frame \in Nat  BY <1>1 DEF Capture
    <3> QED BY <3>1
  <2>2. cap' = next \/ cap' = snap  BY <1>3 DEF VsyncBoundary
  <2> HIDE DEF frame
  <2>3. quiet(next) /\ next.bundles = cap.bundles  BY <1>1, <2>1 DEF Capture
  <2> HIDE DEF next
  <2>4. Append(next.bundles, "FRAME") \in Seq(Reasons)
    <3>1. next.bundles \in Seq(Reasons) /\ "FRAME" \in Reasons  BY <2>3 DEF Capture, Reasons
    <3> QED BY <3>1
  <2>5. quiet(snap) /\ snap.bundles = Append(cap.bundles, "FRAME")  BY <2>3, <2>4 DEF Capture
  <2>6. AllFrames(cap.bundles) => AllFrames(Append(cap.bundles, "FRAME"))
    <3>1. cap.bundles \in Seq(Reasons)  BY <1>1 DEF Capture
    <3> QED BY <3>1 DEF AllFrames
  <2> HIDE DEF snap
  <2> QED BY <1>2, <2>2, <2>3, <2>5, <2>6 DEF CaptureInv
<1>4. CASE ColdBoot
  <2>1. cap' = [cap EXCEPT !.frame = 0, !.halted = FALSE]  BY <1>4 DEF ColdBoot
  <2>2. quiet(cap') /\ cap'.bundles = cap.bundles  BY <1>1, <2>1 DEF Capture
  <2> QED BY <1>2, <2>2
<1>5. CASE SetMemWatch
  <2>1. PICK w \in Windows :
          cap' = RefreshRamWriteObserver(
             [cap EXCEPT !.window = w, !.dropped = 0, !.watching = TRUE, !.rows = << >>,
                         !.written = << >>])
    BY <1>5 DEF SetMemWatch
  <2> DEFINE c == [cap EXCEPT !.window = w, !.dropped = 0, !.watching = TRUE, !.rows = << >>,
                              !.written = << >>]
  <2>2. w \in Nat \X Nat \X Nat \X Nat /\ << >> \in Seq(Lines)  BY CaptureAssumption
  <2>3. quiet(c) /\ c.bundles = cap.bundles  BY <1>1, <2>2 DEF Capture
  <2> HIDE DEF c
  <2>4. cap' = RefreshRamWriteObserver(c)  BY <2>1 DEF c
  <2>5. quiet(cap') /\ cap'.bundles = cap.bundles  BY <2>3, <2>4, RefreshKeeps DEF SameRing
  <2> QED BY <1>2, <2>5
<1>6. CASE ClearMemWatch
  <2> DEFINE c == [cap EXCEPT !.watching = FALSE, !.written = << >>]
  <2>1. << >> \in Seq(Lines)  OBVIOUS
  <2>2. quiet(c) /\ c.bundles = cap.bundles  BY <1>1, <2>1 DEF Capture
  <2> HIDE DEF c
  <2>3. cap' = RefreshRamWriteObserver(c)  BY <1>6 DEF c, ClearMemWatch
  <2>4. quiet(cap') /\ cap'.bundles = cap.bundles  BY <2>2, <2>3, RefreshKeeps DEF SameRing
  <2> QED BY <1>2, <2>4
<1>7. CASE InstructionEvent
  <2>1. PICK event \in BusEvents :
          LET l == LogLine(cap, event) IN cap' = Witnessed(Observed(cap, l), l)
    BY <1>7 DEF InstructionEvent
  <2> DEFINE l == LogLine(cap, event)
             c == Observed(cap, l)
  <2>2. l \in Lines  BY <1>1, EventLine
  <2> HIDE DEF l
  <2>3. c \in Capture /\ SameRing(cap, c)  BY <1>1, <2>2, ObservedKeeps
  <2> HIDE DEF c
  <2>4. cap' = Witnessed(c, l)  BY <2>1 DEF c, l
  <2>5. cap' \in Capture /\ SameRing(c, cap')  BY <2>2, <2>3, <2>4, WitnessedKeeps
  <2>6. quiet(cap') /\ cap'.bundles = cap.bundles  BY <2>3, <2>5 DEF SameRing
  <2> QED BY <1>2, <2>6
<1> QED BY <1>3, <1>4, <1>5, <1>6, <1>7

\* What the end of a capture leaves.
EndedWell(c, d) ==
  /\ d.trace = RingTail(d.ran)
  /\ d.retired > c.retired => d.ran # c.ran
  /\ Len(d.bundles) = Len(c.bundles) + 1
  /\ Last(d.bundles) # "FRAME"

\* An ended capture has one bundle more, and the last one is no frame's.
LEMMA LastBundle ==
  ASSUME NEW c \in Capture, NEW reason \in Reasons \ {"FRAME"}
  PROVE  /\ Len(Append(c.bundles, reason)) = Len(c.bundles) + 1
         /\ Last(Append(c.bundles, reason)) # "FRAME"
<1>1. c.bundles \in Seq(Reasons)  BY DEF Capture
<1> QED BY <1>1 DEF Last

\* An instruction keeps the ring, and ends a capture well if it ends it.
LEMMA RetireStep ==
  ASSUME CaptureInv, Retire
  PROVE  CaptureInv' /\ (cap.active /\ ~cap'.active => EndedWell(cap, cap'))
<1>1. PICK h \in BOOLEAN, low_sp \in BOOLEAN :
        cap' = Recorded(Retired(cap, Entry(cap), h), Entry(cap), ~cap.halted /\ h, low_sp)
  BY DEF Retire
<1> DEFINE e == Entry(cap)
           w == Retired(cap, e, h)
           p == PushStreamRecord(w, e)
<1>2. cap' = Recorded(w, e, ~cap.halted /\ h, low_sp)  BY <1>1
<1>3. cap \in Capture  BY DEF CaptureInv
<1>4. e \in Entries  BY <1>3 DEF Entry, Entries, Capture
<1> HIDE DEF e
<1>7. /\ w \in Capture /\ w.active = cap.active /\ w.ring = cap.ring
      /\ w.ring_head = cap.ring_head /\ w.bundles = cap.bundles
      /\ w.retired = cap.retired + 1
      /\ w.ran = IF cap.active THEN Append(cap.ran, e) ELSE cap.ran
  BY <1>3, <1>4, RetiredKeeps
<1> HIDE DEF w
<1>8. CASE ~cap.active
  <2>1. cap' = w  BY <1>2, <1>7, <1>8 DEF Recorded
  <2> QED BY <1>7, <1>8, <2>1 DEF CaptureInv
<1>9. CASE cap.active
  <2>1. cap.ran \in Seq(Entries) /\ RingHolds(w.ring, w.ring_head, cap.ran)
    BY <1>3, <1>7, <1>9 DEF CaptureInv, Capture
  <2>2. /\ p \in Capture /\ RingHolds(p.ring, p.ring_head, p.ran)
        /\ p.active = w.active /\ p.bundles = w.bundles /\ p.ran = w.ran
        /\ p.retired = w.retired
    BY <1>4, <1>7, <1>9, <2>1, PushedKeeps
  <2>3. \/ cap' = p
        \/ \E reason \in {"HALT", "CRASH"} : cap' = FinalizeStreamCapture(p, reason)
    BY <1>2, <1>7, <1>9 DEF Recorded
  <2> HIDE DEF p
  <2>4. CASE cap' = p
    BY <1>7, <1>9, <2>2, <2>4 DEF CaptureInv
  <2>5. CASE \E reason \in {"HALT", "CRASH"} : cap' = FinalizeStreamCapture(p, reason)
    <3>1. PICK reason \in {"HALT", "CRASH"} : cap' = FinalizeStreamCapture(p, reason)  BY <2>5
    <3>2. reason \in Reasons \ {"FRAME"}  BY DEF Reasons
    <3>3. /\ cap' \in Capture /\ ~cap'.active
          /\ cap'.trace = RingTail(cap'.ran) /\ cap'.ran = p.ran
          /\ cap'.bundles = Append(p.bundles, reason)
      BY <1>7, <1>9, <2>2, <3>1, <3>2, FinalizeEnds
    <3>4. cap'.ran # cap.ran
      <4>1. Len(Append(cap.ran, e)) = Len(cap.ran) + 1 /\ Len(cap.ran) \in Nat  BY <2>1
      <4> QED BY <1>7, <1>9, <2>2, <3>3, <4>1
    <3>5. Len(cap'.bundles) = Len(cap.bundles) + 1 /\ Last(cap'.bundles) # "FRAME"
      BY <1>3, <1>7, <2>2, <3>2, <3>3, LastBundle
    <3> QED BY <3>3, <3>4, <3>5 DEF CaptureInv, EndedWell
  <2> QED BY <2>3, <2>4, <2>5
<1> QED BY <1>8, <1>9

\* So do the key and the option.
LEMMA SwitchStep ==
  ASSUME CaptureInv, NEW light \in BOOLEAN, NEW same_id \in BOOLEAN,
         StreamToggleHotkey(light, same_id)
  PROVE  CaptureInv' /\ (cap.active /\ ~cap'.active => EndedWell(cap, cap'))
<1>1. cap \in Capture  BY DEF CaptureInv
<1>3. CASE ~cap.active
  <2> DEFINE watch_log == IF light \/ ~same_id THEN << >> ELSE cap.watch_log
             trace == IF same_id THEN cap.trace ELSE << >>
             on == [cap EXCEPT !.active = TRUE, !.light = light,
                      !.ring = << >>, !.ring_head = 0, !.seq = 0, !.fdc_observer = TRUE,
                      !.read_log = << >>, !.write_log = << >>,
                      !.watch_log = watch_log, !.trace = trace,
                      !.bundles = << >>, !.ran = << >>, !.happened = << >>]
             lit == [on EXCEPT !.vdp_observer = TRUE]
             Fresh(c) == /\ c \in Capture /\ c.active = TRUE /\ c.ring = << >>
                         /\ c.ring_head = 0 /\ c.ran = << >> /\ c.bundles = << >>
  <2>1. /\ << >> \in Seq(Entries) /\ << >> \in Seq(Reasons) /\ << >> \in Seq(Lines)
        /\ watch_log \in Seq(Lines) /\ trace \in Seq(Entries)
    BY <1>1 DEF Capture
  <2>3. cap' = on \/ cap' = RefreshRamWriteObserver(lit)
    BY <1>3 DEF StreamToggleHotkey, Armed
  <2> HIDE DEF watch_log, trace
  <2>2. Fresh(on)  BY <1>1, <2>1 DEF Capture
  <2> HIDE DEF on
  <2>4. Fresh(lit)  BY <2>2 DEF Capture
  <2> HIDE DEF lit
  <2>5. Fresh(cap')  BY <2>2, <2>3, <2>4, RefreshKeeps DEF SameRing
  <2>6. RingHolds(<< >>, 0, << >>) /\ AllFrames(<< >>)
    BY CaptureAssumption DEF RingHolds, AllFrames
  <2> QED BY <2>5, <2>6 DEF CaptureInv
<1>4. CASE cap.active
  <2>1. cap' = FinalizeStreamCapture(cap, "MANUAL")  BY <1>4 DEF StreamToggleHotkey
  <2>2. "MANUAL" \in Reasons \ {"FRAME"}  BY DEF Reasons
  <2>3. RingHolds(cap.ring, cap.ring_head, cap.ran)  BY <1>4 DEF CaptureInv
  <2>4. /\ cap' \in Capture /\ ~cap'.active
        /\ cap'.trace = RingTail(cap'.ran) /\ cap'.ran = cap.ran
        /\ cap'.bundles = Append(cap.bundles, "MANUAL") /\ cap'.retired = cap.retired
    BY <1>1, <1>4, <2>1, <2>2, <2>3, FinalizeEnds
  <2>5. Len(cap'.bundles) = Len(cap.bundles) + 1 /\ Last(cap'.bundles) # "FRAME"
    BY <1>1, <2>2, <2>4, LastBundle
  <2>6. ~(cap'.retired > cap.retired)  BY <1>1, <2>4 DEF Capture
  <2> QED BY <2>4, <2>5, <2>6 DEF CaptureInv, EndedWell
<1> QED BY <1>3, <1>4

\* At the start nothing is captured.
LEMMA StartCapture ==
  /\ AtStart \in Capture /\ ~AtStart.active
  /\ \A c \in Capture : NewMachine(c) \in Capture /\ ~NewMachine(c).active
<1>1. /\ << >> \in Seq(Entries) /\ << >> \in Seq(Reasons) /\ << >> \in Seq(Lines)
      /\ <<0, 0, 0, 0>> \in Nat \X Nat \X Nat \X Nat
  OBVIOUS
<1>2. AtStart \in Capture /\ ~AtStart.active  BY <1>1 DEF AtStart, Capture
<1>3. ASSUME NEW c \in Capture  PROVE NewMachine(c) \in Capture /\ ~NewMachine(c).active
  <2> DEFINE a == AtStart
  <2>1. a \in Capture /\ ~a.active  BY <1>2
  <2>2. NewMachine(c) = [a EXCEPT !.watch_log = c.watch_log, !.read_log = c.read_log,
                  !.write_log = c.write_log, !.trace = c.trace, !.bundles = c.bundles,
                  !.retired = c.retired, !.events = c.events]
    BY DEF NewMachine
  <2> HIDE DEF a
  <2> QED BY <2>1, <2>2 DEF Capture
<1> QED BY <1>2, <1>3

\* Every step keeps the ring, and ends a capture well.
LEMMA CaptureStep ==
  ASSUME CaptureInv, [CaptureNext]_capture_vars
  PROVE  /\ CaptureInv'
         /\ cap.active /\ ~cap'.active => cap' = NewMachine(cap) \/ EndedWell(cap, cap')
<1>1. CASE \E light, same_id \in BOOLEAN : StreamToggleHotkey(light, same_id)
  BY <1>1, SwitchStep
<1>2. CASE VsyncBoundary \/ ColdBoot \/ SetMemWatch \/ ClearMemWatch \/ InstructionEvent
  BY <1>2, OtherStepsKeep
<1>3. CASE Retire
  BY <1>3, RetireStep
<1>4. CASE MachineReplaced
  BY <1>4, StartCapture DEF MachineReplaced, CaptureInv
<1>5. CASE UNCHANGED capture_vars
  BY <1>5 DEF capture_vars, CaptureInv
<1> QED BY <1>1, <1>2, <1>3, <1>4, <1>5 DEF CaptureNext

\* The ring's invariant holds.
LEMMA CaptureSound == CaptureSpec => []CaptureInv
<1>1. CaptureInit => CaptureInv  BY StartCapture DEF CaptureInit, CaptureInv
<1>2. CaptureInv /\ [CaptureNext]_capture_vars => CaptureInv'  BY CaptureStep
<1> QED BY <1>1, <1>2, PTL DEF CaptureSpec

\* At any moment of a capture, for a ring of any size, writing the ring round
\* from its head gives the tail of the instructions that ran, in order
\* (push_stream_record, serialize_stream_trace).
THEOREM RingIsTail == CaptureSpec => []TraceIsTail
<1>1. CaptureInv => TraceIsTail
  BY TraceIsTheTail DEF CaptureInv, TraceIsTail, AllFrames
<1> QED BY <1>1, CaptureSound, PTL

\* Whatever ends a capture, its trace file holds that tail, with the very
\* instruction that ended it, and the snapshots end with that of the end and
\* have no other but those of frames (finalize_stream_capture).
THEOREM CaptureEndsWithTail == CaptureSpec => EndsWithTail
<1>1. CaptureInv /\ [CaptureNext]_capture_vars =>
        [cap.active /\ ~cap'.active =>
           \/ cap' = NewMachine(cap)
           \/ /\ cap'.trace = RingTail(cap'.ran)
              /\ cap'.retired > cap.retired => cap'.ran # cap.ran
              /\ Len(cap'.bundles) = Len(cap.bundles) + 1
              /\ Last(cap'.bundles) # "FRAME"]_capture_vars
  BY CaptureStep DEF EndedWell
<1> QED BY <1>1, CaptureSound, PTL DEF CaptureSpec, EndsWithTail

(***************************************************************************)
(* The logs of a capture and the table of the memory watch.                *)
(***************************************************************************)
\* Up to a place of s there are as many places more than zero, and no more than
\* all of them.
LEMMA RankBounds ==
  ASSUME NEW n \in Nat, NEW places \in SUBSET (1 .. n)
  PROVE  /\ IsFiniteSet(places) /\ Cardinality(places) \in 0 .. n
         /\ \A i \in places : Rank(places, i) \in 1 .. Cardinality(places)
<1>1. IsFiniteSet(1 .. n) /\ Cardinality(1 .. n) = n  BY FS_Interval
<1>2. IsFiniteSet(places) /\ Cardinality(places) <= n /\ Cardinality(places) \in Nat
  BY <1>1, FS_Subset, FS_CardinalityType
<1>3. ASSUME NEW i \in places  PROVE Rank(places, i) \in 1 .. Cardinality(places)
  <2> DEFINE below == {j \in places : j <= i}
  <2>1. below \in SUBSET places /\ i \in below  OBVIOUS
  <2>2. Rank(places, i) = Cardinality(below)  BY DEF Rank
  <2> HIDE DEF below
  <2>3. /\ IsFiniteSet(below) /\ Cardinality(below) <= Cardinality(places)
        /\ Cardinality(below) \in Nat /\ Cardinality(below) # 0
    BY <1>2, <2>1, FS_Subset, FS_CardinalityType, FS_EmptySet
  <2> QED BY <1>2, <2>2, <2>3
<1> QED BY <1>2, <1>3

\* One line more on s: it is the last of the places, if it is one, and the
\* ranks of the others stay.
LEMMA PlacesGrow ==
  ASSUME NEW s \in Seq(Lines), NEW l \in Lines, NEW lines
  PROVE  LET old == PlacesOf(s, lines)
             new == PlacesOf(Append(s, l), lines)
             n == Len(s) + 1
             hit == l \in lines
         IN  /\ old \in SUBSET (1 .. Len(s))
             /\ new = IF hit THEN old \cup {n} ELSE old
             /\ Cardinality(new) = Cardinality(old) + (IF hit THEN 1 ELSE 0)
             /\ \A i \in old : Rank(new, i) = Rank(old, i)
             /\ hit => Rank(new, n) = Cardinality(old) + 1
<1> DEFINE old == PlacesOf(s, lines)
           new == PlacesOf(Append(s, l), lines)
           n == Len(s) + 1
           hit == l \in lines
<1>1. Len(s) \in Nat /\ DOMAIN s = 1 .. Len(s)  OBVIOUS
<1>2. old \in SUBSET (1 .. Len(s))  BY <1>1 DEF PlacesOf
<1>3. new = IF hit THEN old \cup {n} ELSE old
  <2> DEFINE t == Append(s, l)
  <2>1. DOMAIN t = 1 .. n /\ t[n] = l /\ \A i \in 1 .. Len(s) : t[i] = s[i]  OBVIOUS
  <2> HIDE DEF t
  <2>2. new = {i \in 1 .. n : t[i] \in lines}
    BY <2>1 DEF PlacesOf, t
  <2>3. old = {i \in 1 .. Len(s) : s[i] \in lines}
    BY <1>1 DEF PlacesOf
  <2>4. 1 .. n = (1 .. Len(s)) \cup {n} /\ n \notin 1 .. Len(s)  BY <1>1
  <2> HIDE DEF old, new, n
  <2> QED BY <2>1, <2>2, <2>3, <2>4
<1> HIDE DEF old, new, hit
<1>4. IsFiniteSet(old) /\ n \notin old /\ n \in Nat  BY <1>1, <1>2, RankBounds
<1>5. Cardinality(new) = Cardinality(old) + (IF hit THEN 1 ELSE 0)
  <2>1. Cardinality(old) \in Nat  BY <1>4, FS_CardinalityType
  <2>2. Cardinality(old \cup {n}) = Cardinality(old) + 1  BY <1>4, FS_AddElement
  <2> QED BY <1>3, <2>1, <2>2
<1>6. ASSUME NEW i \in old  PROVE Rank(new, i) = Rank(old, i)
  <2>1. i < n  BY <1>1, <1>2
  <2>2. {j \in new : j <= i} = {j \in old : j <= i}  BY <1>1, <1>2, <1>3, <2>1
  <2> QED BY <2>2 DEF Rank
<1>7. ASSUME hit  PROVE Rank(new, n) = Cardinality(old) + 1
  <2>1. \A j \in new : j <= n  BY <1>1, <1>2, <1>3
  <2>2. {j \in new : j <= n} = new  BY <2>1
  <2> QED BY <1>5, <1>7, <2>2 DEF Rank
<1> QED BY <1>2, <1>3, <1>5, <1>6, <1>7 DEF old, new, hit

\* A log stays right if a line that belongs to it is put at its end, if one
\* that does not is left out, and once it lacks one, if another is left out.
LEMMA LogGrows ==
  ASSUME NEW log \in Seq(Lines), NEW s \in Seq(Lines), NEW l \in Lines, NEW lines
  PROVE  LET old == PlacesOf(s, lines)
             new == PlacesOf(Append(s, l), lines)
             hit == l \in lines
         IN  /\ Cardinality(old) \in Nat
             /\ Cardinality(new) = Cardinality(old) + (IF hit THEN 1 ELSE 0)
             /\ FirstOf(log, s, old) => FirstOf(log, Append(s, l), new)
             /\ hit /\ AllOf(log, s, old) => AllOf(Append(log, l), Append(s, l), new)
             /\ ~hit /\ AllOf(log, s, old) => AllOf(log, Append(s, l), new)
<1> DEFINE old == PlacesOf(s, lines)
           new == PlacesOf(Append(s, l), lines)
           n == Len(s) + 1
           hit == l \in lines
           t == Append(s, l)
           longer == Append(log, l)
<1>1. /\ old \in SUBSET (1 .. Len(s))
      /\ new = IF hit THEN old \cup {n} ELSE old
      /\ Cardinality(new) = Cardinality(old) + (IF hit THEN 1 ELSE 0)
      /\ \A i \in old : Rank(new, i) = Rank(old, i)
      /\ hit => Rank(new, n) = Cardinality(old) + 1
  BY PlacesGrow
<1>2. /\ Cardinality(old) \in Nat
      /\ \A i \in old : Rank(old, i) \in 1 .. Cardinality(old)
  <2>1. Len(s) \in Nat  OBVIOUS
  <2> HIDE DEF old
  <2> QED BY <1>1, <2>1, RankBounds
<1>3. /\ Len(s) \in Nat /\ Len(log) \in Nat
      /\ t[n] = l /\ \A i \in 1 .. Len(s) : t[i] = s[i]
  OBVIOUS
<1>4. Len(longer) = Len(log) + 1 /\ longer[Len(log) + 1] = l
      /\ \A i \in 1 .. Len(log) : longer[i] = log[i]
  OBVIOUS
<1> HIDE DEF old, new, hit, t, longer, n
<1>5. ASSUME FirstOf(log, s, old)  PROVE FirstOf(log, t, new)
  <2>1. Len(log) <= Cardinality(new)  BY <1>1, <1>2, <1>3, <1>5 DEF FirstOf
  <2>2. ASSUME NEW i \in new, Rank(new, i) <= Len(log)  PROVE log[Rank(new, i)] = t[i]
    <3>1. CASE i \in old
      BY <1>1, <1>3, <1>5, <2>2, <3>1 DEF FirstOf
    <3>2. CASE i \notin old
      BY <1>1, <1>2, <1>3, <1>5, <2>2, <3>2 DEF FirstOf
    <3> QED BY <3>1, <3>2
  <2> QED BY <2>1, <2>2 DEF FirstOf
<1>6. ASSUME hit, AllOf(log, s, old)  PROVE AllOf(longer, t, new)
  <2>1. Len(longer) = Cardinality(new)  BY <1>1, <1>2, <1>4, <1>6 DEF AllOf
  <2>2. ASSUME NEW i \in new  PROVE longer[Rank(new, i)] = t[i]
    <3>1. CASE i \in old
      <4>1. Rank(new, i) = Rank(old, i) /\ Rank(old, i) \in 1 .. Len(log)
        BY <1>1, <1>2, <1>6, <3>1 DEF AllOf
      <4>2. log[Rank(old, i)] = s[i]  BY <1>3, <1>6, <3>1, <4>1 DEF AllOf, FirstOf
      <4> QED BY <1>1, <1>3, <1>4, <3>1, <4>1, <4>2
    <3>2. CASE i \notin old
      <4>1. i = n /\ Rank(new, i) = Len(log) + 1  BY <1>1, <1>6, <3>2 DEF AllOf
      <4> QED BY <1>3, <1>4, <4>1
    <3> QED BY <3>1, <3>2
  <2>3. Len(longer) <= Cardinality(new)  BY <1>3, <1>4, <2>1
  <2> QED BY <2>1, <2>2, <2>3 DEF AllOf, FirstOf
<1>7. ASSUME ~hit, AllOf(log, s, old)  PROVE AllOf(log, t, new)
  BY <1>1, <1>2, <1>5, <1>7 DEF AllOf
<1> QED BY <1>1, <1>2, <1>5, <1>6, <1>7 DEF old, new, hit, t, longer

\* Nothing is logged and nothing has run.
LEMMA EmptyLog ==
  ASSUME NEW lines
  PROVE  /\ AllOf(<< >>, << >>, PlacesOf(<< >>, lines))
         /\ Cardinality(PlacesOf(<< >>, lines)) = 0
<1>1. PlacesOf(<< >>, lines) = {}  BY DEF PlacesOf
<1>2. Cardinality({}) = 0  BY FS_EmptySet
<1> QED BY <1>1, <1>2 DEF AllOf, FirstOf

\* Who is called when something happens: the observers are those the capture
\* and the watch need, whichever of the two was ended last.
ObserversOn(c) ==
  /\ c.ram_observer = ((c.active /\ c.light) \/ c.watching)
  /\ c.vdp_observer = (c.active /\ c.light)
  /\ c.fdc_observer = c.active

Watched(c) == PlacesOf(c.written, WindowLines(c.window))

LogsHold(c) ==
  /\ c.active /\ c.light => AllOf(c.watch_log, c.happened, PlacesOf(c.happened, WatchLines))
  /\ c.active => /\ AllOf(c.read_log, c.happened, PlacesOf(c.happened, ReadLines))
                 /\ AllOf(c.write_log, c.happened, PlacesOf(c.happened, WriteLines))
  /\ c.watching => /\ FirstOf(c.rows, c.written, Watched(c))
                   /\ Cardinality(Watched(c)) = Len(c.rows) + c.dropped
                   /\ c.dropped > 0 => WatchIsFull(c)

\* The inductive invariant of the logs.
LogInv(c) == c.light \in BOOLEAN /\ ObserversOn(c) /\ (c.light => c.active) /\ LogsHold(c)

SameLogs(c, d) ==
  /\ d.active = c.active /\ d.light = c.light
  /\ d.watching = c.watching /\ d.window = c.window /\ d.rows = c.rows /\ d.dropped = c.dropped
  /\ d.ram_observer = c.ram_observer /\ d.fdc_observer = c.fdc_observer
  /\ d.vdp_observer = c.vdp_observer /\ d.watch_log = c.watch_log /\ d.read_log = c.read_log
  /\ d.write_log = c.write_log /\ d.happened = c.happened /\ d.written = c.written

\* Who changes no log and no observer keeps them right.
LEMMA SameLogsHold ==
  ASSUME NEW c, NEW d, SameLogs(c, d), LogInv(c)
  PROVE  LogInv(d)
BY DEF SameLogs, LogInv, ObserversOn, LogsHold, Watched, WatchIsFull

\* What no event changes.
Settled(c, d) ==
  /\ d.active = c.active /\ d.light = c.light
  /\ d.watching = c.watching /\ d.window = c.window
  /\ d.ram_observer = c.ram_observer /\ d.fdc_observer = c.fdc_observer
  /\ d.vdp_observer = c.vdp_observer

WriteDue(c, l) == c.watching /\ l.kind = "ram" /\ l \in WindowLines(c.window)

\* The table after an event.
TableAfter(c, d, l) ==
  /\ d.rows = IF WriteDue(c, l) /\ ~WatchIsFull(c) THEN Append(c.rows, l) ELSE c.rows
  /\ d.dropped = IF WriteDue(c, l) /\ WatchIsFull(c) THEN c.dropped + 1 ELSE c.dropped

\* What the observers do with one event.
LEMMA ObservedLogs ==
  ASSUME NEW c \in Capture, NEW l \in Lines, LogInv(c)
  PROVE  LET o == Observed(c, l)
         IN  /\ Settled(c, o) /\ o.happened = c.happened /\ o.written = c.written
             /\ c.active /\ c.light =>
                  o.watch_log = IF l \in WatchLines THEN Append(c.watch_log, l) ELSE c.watch_log
             /\ c.active =>
                  /\ o.read_log = IF l \in ReadLines THEN Append(c.read_log, l) ELSE c.read_log
                  /\ o.write_log = IF l \in WriteLines THEN Append(c.write_log, l) ELSE c.write_log
             /\ TableAfter(c, o, l)
<1> DEFINE o == Observed(c, l)
           Done(d) == /\ Settled(c, d) /\ d.happened = c.happened /\ d.written = c.written
                      /\ c.active /\ c.light =>
                           d.watch_log = IF l \in WatchLines THEN Append(c.watch_log, l)
                                         ELSE c.watch_log
                      /\ c.active =>
                           /\ d.read_log = IF l \in ReadLines THEN Append(c.read_log, l)
                                           ELSE c.read_log
                           /\ d.write_log = IF l \in WriteLines THEN Append(c.write_log, l)
                                            ELSE c.write_log
                      /\ TableAfter(c, d, l)
           Quiet(d) == Settled(c, d) /\ d.happened = c.happened /\ d.written = c.written
<1>1. /\ l \in WatchLines <=> \/ l.kind = "ram" /\ l.at \in VectorBytes
                              \/ l.kind = "register" /\ l.at = 1
      /\ l \in ReadLines <=> l.kind = "read"
      /\ l \in WriteLines <=> l.kind \in {"byte", "finish"}
  BY DEF WatchLines, ReadLines, WriteLines
<1>2. InWindow(c, l) <=> l \in WindowLines(c.window)
  <2>1. c.window \in Nat \X Nat \X Nat \X Nat /\ l.phys \in Nat /\ l.frame \in Nat
    BY DEF Capture, Lines
  <2>2. c.window[1] \in Nat /\ c.window[2] \in Nat /\ c.window[3] \in Nat /\ c.window[4] \in Nat
    BY <2>1
  <2> QED BY <2>1, <2>2 DEF InWindow, WindowLines
<1>3. /\ c.ram_observer = ((c.active /\ c.light) \/ c.watching)
      /\ c.vdp_observer = (c.active /\ c.light) /\ c.fdc_observer = c.active
      /\ c.light => c.active
  BY DEF LogInv, ObserversOn
<1>4. l.kind \in BusKinds  BY DEF Lines
<1>5. CASE l.kind = "ram" /\ c.ram_observer
  <2> DEFINE m == LogStreamMemWrite(c, l)
  <2>1. /\ m \in Capture /\ Settled(c, m) /\ m.happened = c.happened /\ m.written = c.written
        /\ m.read_log = c.read_log /\ m.write_log = c.write_log
        /\ m.rows = c.rows /\ m.dropped = c.dropped
        /\ c.active => m.watch_log = IF l.at \in VectorBytes THEN Append(c.watch_log, l)
                                     ELSE c.watch_log
    <3>1. CASE c.active /\ l.at \in VectorBytes
      <4>1. m = [c EXCEPT !.watch_log = Append(@, l)]  BY <3>1 DEF LogStreamMemWrite
      <4>2. m \in Capture  BY <4>1, LogKeeps, Zenon
      <4> HIDE DEF m
      <4> QED BY <3>1, <4>1, <4>2 DEF Capture, Settled
    <3>2. CASE ~(c.active /\ l.at \in VectorBytes)
      <4>1. m = c  BY <3>2 DEF LogStreamMemWrite
      <4> QED BY <3>2, <4>1 DEF Settled
    <3> QED BY <3>1, <3>2
  <2> HIDE DEF m
  <2>2. o = MemWatchRecord(m, l)  BY <1>5 DEF Observed, m
  <2>3. WatchIsFull(m) = WatchIsFull(c) /\ InWindow(m, l) = InWindow(c, l)
    BY <2>1 DEF WatchIsFull, InWindow, Settled
  <2>4. WriteDue(c, l) <=> m.watching /\ InWindow(m, l)
    BY <1>2, <1>5, <2>1, <2>3 DEF WriteDue, Settled
  <2>5. /\ Quiet(o) /\ TableAfter(c, o, l) /\ o.read_log = c.read_log
        /\ o.write_log = c.write_log /\ o.watch_log = m.watch_log
    <3>1. CASE ~WriteDue(c, l)
      <4>1. o = m  BY <2>2, <2>4, <3>1 DEF MemWatchRecord
      <4> HIDE DEF o
      <4> QED BY <2>1, <3>1, <4>1 DEF TableAfter
    <3>2. CASE WriteDue(c, l) /\ WatchIsFull(c)
      <4>1. o = [m EXCEPT !.dropped = @ + 1]
        BY <2>2, <2>3, <2>4, <3>2 DEF MemWatchRecord
      <4> HIDE DEF o
      <4>2. /\ Settled(m, o) /\ o.happened = m.happened /\ o.written = m.written
            /\ o.read_log = m.read_log /\ o.write_log = m.write_log
            /\ o.watch_log = m.watch_log
            /\ o.rows = m.rows /\ o.dropped = m.dropped + 1
        BY <2>1, <4>1 DEF Capture, Settled
      <4> QED BY <2>1, <3>2, <4>2 DEF TableAfter, Settled
    <3>3. CASE WriteDue(c, l) /\ ~WatchIsFull(c)
      <4>1. o = [m EXCEPT !.rows = Append(@, l)]
        BY <2>2, <2>3, <2>4, <3>3 DEF MemWatchRecord
      <4> HIDE DEF o
      <4>2. /\ Settled(m, o) /\ o.happened = m.happened /\ o.written = m.written
            /\ o.read_log = m.read_log /\ o.write_log = m.write_log
            /\ o.watch_log = m.watch_log
            /\ o.rows = Append(m.rows, l) /\ o.dropped = m.dropped
        BY <2>1, <4>1 DEF Capture, Settled
      <4> QED BY <2>1, <3>3, <4>2 DEF TableAfter, Settled
    <3> QED BY <3>1, <3>2, <3>3
  <2> HIDE DEF o
  <2>6. Done(o)  BY <1>1, <1>5, <2>1, <2>5
  <2> QED BY <2>6 DEF o
<1>6. CASE ~(l.kind = "ram" /\ c.ram_observer)
  <2>1. ~WriteDue(c, l) /\ ~(l.kind = "ram" /\ c.active /\ c.light)
    BY <1>3, <1>6 DEF WriteDue
  <2>2. CASE l.kind = "register" /\ c.active /\ c.light /\ l.at = 1
    <3>1. o = [c EXCEPT !.watch_log = Append(@, l)]
      BY <1>3, <2>2 DEF Observed, LogStreamVdpRegister
    <3> HIDE DEF o
    <3>2. /\ Quiet(o) /\ o.watch_log = Append(c.watch_log, l) /\ o.read_log = c.read_log
          /\ o.write_log = c.write_log /\ o.rows = c.rows /\ o.dropped = c.dropped
      BY <3>1 DEF Capture, Settled
    <3>3. Done(o)  BY <1>1, <2>1, <2>2, <3>2 DEF TableAfter
    <3> QED BY <3>3 DEF o
  <2>3. CASE l.kind = "read" /\ c.active
    <3>1. o = [c EXCEPT !.read_log = Append(@, l)]
      BY <1>3, <2>3 DEF Observed, LogStreamFdcRead
    <3> HIDE DEF o
    <3>2. /\ Quiet(o) /\ o.read_log = Append(c.read_log, l) /\ o.watch_log = c.watch_log
          /\ o.write_log = c.write_log /\ o.rows = c.rows /\ o.dropped = c.dropped
      BY <3>1 DEF Capture, Settled
    <3>3. Done(o)  BY <1>1, <2>1, <2>3, <3>2 DEF TableAfter
    <3> QED BY <3>3 DEF o
  <2>4. CASE l.kind \in {"byte", "finish"} /\ c.active
    <3>1. o = [c EXCEPT !.write_log = Append(@, l)]
      BY <1>3, <2>4 DEF Observed, LogStreamFdcWrite
    <3> HIDE DEF o
    <3>2. /\ Quiet(o) /\ o.write_log = Append(c.write_log, l) /\ o.watch_log = c.watch_log
          /\ o.read_log = c.read_log /\ o.rows = c.rows /\ o.dropped = c.dropped
      BY <3>1 DEF Capture, Settled
    <3>3. Done(o)  BY <1>1, <2>1, <2>4, <3>2 DEF TableAfter
    <3> QED BY <3>3 DEF o
  <2>5. CASE /\ ~(l.kind = "register" /\ c.active /\ c.light /\ l.at = 1)
             /\ ~(l.kind \in {"read", "byte", "finish"} /\ c.active)
    <3>1. o = c
      BY <1>3, <1>6, <2>5 DEF Observed, LogStreamVdpRegister
    <3> HIDE DEF o
    <3>2. Quiet(o) /\ o = c  BY <3>1 DEF Settled
    <3>3. Done(o)  BY <1>1, <2>1, <2>5, <3>2 DEF TableAfter
    <3> QED BY <3>3 DEF o
  <2> QED BY <2>2, <2>3, <2>4, <2>5
<1> QED BY <1>5, <1>6

\* A log with the lines of its own stays right with one event more.
LEMMA LogKeepsUp ==
  ASSUME NEW log \in Seq(Lines), NEW s \in Seq(Lines), NEW l \in Lines, NEW lines,
         AllOf(log, s, PlacesOf(s, lines)), NEW after,
         after = IF l \in lines THEN Append(log, l) ELSE log
  PROVE  AllOf(after, Append(s, l), PlacesOf(Append(s, l), lines))
<1>1. /\ l \in lines =>
           AllOf(Append(log, l), Append(s, l), PlacesOf(Append(s, l), lines))
      /\ l \notin lines => AllOf(log, Append(s, l), PlacesOf(Append(s, l), lines))
  BY LogGrows, Zenon
<1> QED BY <1>1

\* So the logs are still right after an event.
LEMMA EventLogs ==
  ASSUME NEW c \in Capture, NEW l \in Lines, LogInv(c)
  PROVE  LogInv(Witnessed(Observed(c, l), l))
<1> DEFINE o == Observed(c, l)
           d == Witnessed(o, l)
<1>1. /\ Settled(c, o) /\ o.happened = c.happened /\ o.written = c.written
      /\ c.active /\ c.light =>
           o.watch_log = IF l \in WatchLines THEN Append(c.watch_log, l) ELSE c.watch_log
      /\ c.active =>
           /\ o.read_log = IF l \in ReadLines THEN Append(c.read_log, l) ELSE c.read_log
           /\ o.write_log = IF l \in WriteLines THEN Append(c.write_log, l) ELSE c.write_log
      /\ TableAfter(c, o, l)
  BY ObservedLogs
<1>2. o \in Capture  BY ObservedKeeps
<1> HIDE DEF o
<1>3. /\ Settled(o, d) /\ d.rows = o.rows /\ d.dropped = o.dropped
      /\ d.watch_log = o.watch_log /\ d.read_log = o.read_log /\ d.write_log = o.write_log
      /\ d.happened = IF o.active THEN Append(o.happened, l) ELSE o.happened
      /\ d.written = IF o.watching /\ l.kind = "ram" THEN Append(o.written, l) ELSE o.written
  BY <1>2 DEF Witnessed, Capture, Settled
<1> HIDE DEF d
<1>4. /\ d.happened = IF c.active THEN Append(c.happened, l) ELSE c.happened
      /\ d.written = IF c.watching /\ l.kind = "ram" THEN Append(c.written, l) ELSE c.written
      /\ Settled(c, d)
  BY <1>1, <1>3 DEF Settled
<1>5. /\ c.happened \in Seq(Lines) /\ c.written \in Seq(Lines) /\ c.watch_log \in Seq(Lines)
      /\ c.read_log \in Seq(Lines) /\ c.write_log \in Seq(Lines)
      /\ c.rows \in Seq(Lines) /\ c.dropped \in Nat
  BY DEF Capture
<1>6. LogsHold(c) /\ ObserversOn(c) /\ c.light \in BOOLEAN  BY DEF LogInv
<1>7. ASSUME c.active, c.light
      PROVE  AllOf(d.watch_log, d.happened, PlacesOf(d.happened, WatchLines))
  <2>1. AllOf(c.watch_log, c.happened, PlacesOf(c.happened, WatchLines))
    BY <1>6, <1>7 DEF LogsHold
  <2>2. /\ d.happened = Append(c.happened, l)
        /\ d.watch_log = IF l \in WatchLines THEN Append(c.watch_log, l) ELSE c.watch_log
    BY <1>1, <1>3, <1>4, <1>7
  <2> QED BY <1>5, <2>1, <2>2, LogKeepsUp
<1>8. ASSUME c.active
      PROVE  /\ AllOf(d.read_log, d.happened, PlacesOf(d.happened, ReadLines))
             /\ AllOf(d.write_log, d.happened, PlacesOf(d.happened, WriteLines))
  <2>1. /\ AllOf(c.read_log, c.happened, PlacesOf(c.happened, ReadLines))
        /\ AllOf(c.write_log, c.happened, PlacesOf(c.happened, WriteLines))
    BY <1>6, <1>8 DEF LogsHold
  <2>2. /\ d.happened = Append(c.happened, l)
        /\ d.read_log = IF l \in ReadLines THEN Append(c.read_log, l) ELSE c.read_log
        /\ d.write_log = IF l \in WriteLines THEN Append(c.write_log, l) ELSE c.write_log
    BY <1>1, <1>3, <1>4, <1>8
  <2> QED BY <1>5, <2>1, <2>2, LogKeepsUp
<1>9. ASSUME c.watching
      PROVE  /\ FirstOf(d.rows, d.written, Watched(d))
             /\ Cardinality(Watched(d)) = Len(d.rows) + d.dropped
             /\ d.dropped > 0 => WatchIsFull(d)
  <2> DEFINE lines == WindowLines(c.window)
             old == PlacesOf(c.written, lines)
             new == PlacesOf(Append(c.written, l), lines)
  <2>1. /\ FirstOf(c.rows, c.written, old) /\ Cardinality(old) = Len(c.rows) + c.dropped
        /\ c.dropped > 0 => WatchIsFull(c)
    BY <1>6, <1>9 DEF LogsHold, Watched
  <2>2. d.rows = c.rows => WatchIsFull(d) = WatchIsFull(c)  BY DEF WatchIsFull
  <2>3. CASE l.kind # "ram"
    <3>1. d.written = c.written /\ d.rows = c.rows /\ d.dropped = c.dropped
      BY <1>1, <1>3, <1>4, <2>3 DEF WriteDue, TableAfter
    <3>2. Watched(d) = old  BY <1>4, <3>1 DEF Watched, Settled
    <3> HIDE DEF old
    <3> QED BY <2>1, <2>2, <3>1, <3>2
  <2>4. CASE l.kind = "ram"
    <3>1. d.written = Append(c.written, l)  BY <1>4, <1>9, <2>4
    <3>2. Watched(d) = new  BY <1>4, <3>1 DEF Watched, Settled
    <3>3. /\ Cardinality(old) \in Nat
          /\ Cardinality(new) = Cardinality(old) + (IF l \in lines THEN 1 ELSE 0)
          /\ FirstOf(c.rows, Append(c.written, l), new)
          /\ l \in lines /\ AllOf(c.rows, c.written, old) =>
               AllOf(Append(c.rows, l), Append(c.written, l), new)
      <4>1. c.rows \in Seq(Lines) /\ c.written \in Seq(Lines)  BY <1>5
      <4>2. FirstOf(c.rows, c.written, PlacesOf(c.written, lines))  BY <2>1
      <4> HIDE DEF lines
      <4>3. LET was == PlacesOf(c.written, lines)
                now == PlacesOf(Append(c.written, l), lines)
                hit == l \in lines
            IN  /\ Cardinality(was) \in Nat
                /\ Cardinality(now) = Cardinality(was) + (IF hit THEN 1 ELSE 0)
                /\ FirstOf(c.rows, c.written, was) => FirstOf(c.rows, Append(c.written, l), now)
                /\ hit /\ AllOf(c.rows, c.written, was) =>
                     AllOf(Append(c.rows, l), Append(c.written, l), now)
        BY <4>1, LogGrows
      <4> QED BY <4>2, <4>3
    <3>4. WriteDue(c, l) <=> l \in lines  BY <1>9, <2>4 DEF WriteDue
    <3>5. Len(c.rows) \in Nat /\ Len(Append(c.rows, l)) = Len(c.rows) + 1  BY <1>5
    <3>6. /\ d.rows = IF WriteDue(c, l) /\ ~WatchIsFull(c) THEN Append(c.rows, l) ELSE c.rows
          /\ d.dropped = IF WriteDue(c, l) /\ WatchIsFull(c) THEN c.dropped + 1 ELSE c.dropped
      BY <1>1, <1>3 DEF TableAfter
    <3> HIDE DEF lines, old, new
    <3>7. CASE WriteDue(c, l) /\ ~WatchIsFull(c)
      <4>1. c.dropped = 0 /\ AllOf(c.rows, c.written, old)
        BY <1>5, <2>1, <3>5, <3>7 DEF AllOf
      <4>2. d.rows = Append(c.rows, l) /\ d.dropped = 0  BY <3>6, <3>7, <4>1
      <4>3. AllOf(d.rows, d.written, Watched(d))  BY <3>1, <3>2, <3>3, <3>4, <3>7, <4>1, <4>2
      <4> QED BY <3>5, <4>2, <4>3 DEF AllOf
    <3>8. CASE ~(WriteDue(c, l) /\ ~WatchIsFull(c))
      <4>1. d.rows = c.rows /\ d.dropped = IF WriteDue(c, l) THEN c.dropped + 1 ELSE c.dropped
        BY <3>6, <3>8
      <4>2. FirstOf(d.rows, d.written, Watched(d))  BY <3>1, <3>2, <3>3, <4>1
      <4>3. Cardinality(new) = Len(d.rows) + d.dropped
        <5>1. Cardinality(old) = Len(c.rows) + c.dropped /\ c.dropped \in Nat  BY <1>5, <2>1
        <5>2. CASE WriteDue(c, l)
          <6>1. Cardinality(new) = Cardinality(old) + 1 /\ d.dropped = c.dropped + 1
            BY <3>3, <3>4, <4>1, <5>2
          <6> QED BY <3>5, <4>1, <5>1, <6>1
        <5>3. CASE ~WriteDue(c, l)
          <6>1. Cardinality(new) = Cardinality(old) /\ d.dropped = c.dropped
            BY <3>3, <3>4, <4>1, <5>3
          <6> QED BY <4>1, <5>1, <6>1
        <5> QED BY <5>2, <5>3
      <4>4. d.dropped > 0 => WatchIsFull(d)  BY <1>5, <2>1, <2>2, <3>8, <4>1
      <4> QED BY <3>2, <4>2, <4>3, <4>4
    <3> QED BY <3>7, <3>8
  <2> QED BY <2>3, <2>4
<1>10. ObserversOn(d) /\ d.light \in BOOLEAN /\ (d.light => d.active)
  BY <1>4, <1>6 DEF ObserversOn, LogInv, Settled
<1>11. LogsHold(d)  BY <1>4, <1>7, <1>8, <1>9 DEF LogsHold, Settled
<1>12. LogInv(d)  BY <1>10, <1>11 DEF LogInv
<1> QED BY <1>12 DEF d, o

\* The end of a capture takes its own observers off and leaves the watch its.
LEMMA FinalizedLogs ==
  ASSUME NEW c \in Capture, LogInv(c), NEW reason \in Reasons
  PROVE  LogInv(FinalizeStreamCapture(c, reason))
<1>1. CASE ~c.active
  BY <1>1 DEF FinalizeStreamCapture
<1>2. CASE c.active
  <2> DEFINE g == [c EXCEPT !.trace = SerializeStreamTrace(c), !.bundles = Append(@, reason),
                            !.fdc_observer = FALSE, !.vdp_observer = FALSE,
                            !.light = FALSE, !.active = FALSE]
             f == RefreshRamWriteObserver(g)
  <2>1. FinalizeStreamCapture(c, reason) = f  BY <1>2 DEF FinalizeStreamCapture
  <2>2. /\ g.active = FALSE /\ g.light = FALSE
        /\ g.watching = c.watching /\ g.window = c.window /\ g.rows = c.rows
        /\ g.dropped = c.dropped /\ g.fdc_observer = FALSE /\ g.vdp_observer = FALSE
        /\ g.written = c.written /\ DOMAIN g = DOMAIN c
    BY DEF Capture
  <2> HIDE DEF g
  <2>3. /\ f.active = FALSE /\ f.light = FALSE
        /\ f.watching = c.watching /\ f.window = c.window /\ f.rows = c.rows
        /\ f.dropped = c.dropped /\ f.fdc_observer = FALSE /\ f.vdp_observer = FALSE
        /\ f.written = c.written /\ f.ram_observer = c.watching
    BY <2>2 DEF RefreshRamWriteObserver, Capture
  <2> HIDE DEF f
  <2>4. ObserversOn(f)  BY <2>3 DEF ObserversOn, Capture
  <2>5. LogsHold(f)
    <3>1. Watched(f) = Watched(c) /\ WatchIsFull(f) = WatchIsFull(c)
      BY <2>3 DEF Watched, WatchIsFull
    <3> QED BY <2>3, <3>1 DEF LogInv, LogsHold
  <2>6. LogInv(f)  BY <2>3, <2>4, <2>5 DEF LogInv
  <2> QED BY <2>1, <2>6
<1> QED BY <1>1, <1>2

\* The start and the end of a capture.
LEMMA SwitchedLogs ==
  ASSUME cap \in Capture, LogInv(cap), NEW light \in BOOLEAN, NEW same_id \in BOOLEAN,
         StreamToggleHotkey(light, same_id)
  PROVE  LogInv(cap')
<1>1. CASE ~cap.active
  <2> DEFINE watch_log == IF light \/ ~same_id THEN << >> ELSE cap.watch_log
             on == [cap EXCEPT !.active = TRUE, !.light = light,
                      !.ring = << >>, !.ring_head = 0, !.seq = 0, !.fdc_observer = TRUE,
                      !.read_log = << >>, !.write_log = << >>,
                      !.watch_log = watch_log,
                      !.trace = IF same_id THEN @ ELSE << >>,
                      !.bundles = << >>, !.ran = << >>, !.happened = << >>]
             lit == [on EXCEPT !.vdp_observer = TRUE]
  <2>1. /\ cap' = IF light THEN RefreshRamWriteObserver(lit) ELSE on
    BY <1>1 DEF StreamToggleHotkey, Armed
  <2>2. /\ on.active = TRUE /\ on.light = light
        /\ on.watching = cap.watching /\ on.window = cap.window /\ on.rows = cap.rows
        /\ on.dropped = cap.dropped /\ on.ram_observer = cap.ram_observer
        /\ on.fdc_observer = TRUE /\ on.vdp_observer = cap.vdp_observer
        /\ on.watch_log = watch_log /\ on.read_log = << >> /\ on.write_log = << >>
        /\ on.happened = << >> /\ on.written = cap.written
        /\ DOMAIN on = DOMAIN cap
    BY DEF Capture
  <2> HIDE DEF on
  <2>3. RefreshRamWriteObserver(lit) = [lit EXCEPT !.ram_observer = (TRUE /\ light) \/ cap.watching]
    BY <2>2 DEF RefreshRamWriteObserver, Capture
  <2>4. /\ cap'.active = TRUE /\ cap'.light = light
        /\ cap'.watching = cap.watching /\ cap'.window = cap.window /\ cap'.rows = cap.rows
        /\ cap'.dropped = cap.dropped
        /\ cap'.ram_observer = IF light THEN TRUE ELSE cap.ram_observer
        /\ cap'.fdc_observer = TRUE
        /\ cap'.vdp_observer = IF light THEN TRUE ELSE cap.vdp_observer
        /\ cap'.watch_log = watch_log /\ cap'.read_log = << >> /\ cap'.write_log = << >>
        /\ cap'.happened = << >> /\ cap'.written = cap.written
    BY <2>1, <2>2, <2>3 DEF Capture
  <2>5. ObserversOn(cap')  BY <1>1, <2>4 DEF LogInv, ObserversOn, Capture
  <2>6. LogsHold(cap')
    BY <2>4, EmptyLog DEF LogInv, LogsHold, Watched, WatchIsFull
  <2> QED BY <2>4, <2>5, <2>6 DEF LogInv
<1>2. CASE cap.active
  BY <1>2, FinalizedLogs DEF StreamToggleHotkey, Reasons
<1> QED BY <1>1, <1>2

\* The watch begins with an empty table and ends; frames and resets log nothing.
LEMMA OtherLogs ==
  ASSUME cap \in Capture, LogInv(cap), 
         VsyncBoundary \/ ColdBoot \/ SetMemWatch \/ ClearMemWatch \/ InstructionEvent
  PROVE  LogInv(cap')
<1>1. CASE VsyncBoundary
  <2> DEFINE next == [cap EXCEPT !.frame = @ + 1]
             snap == [next EXCEPT !.bundles = Append(@, "FRAME")]
  <2>1. cap' = next \/ cap' = snap  BY <1>1 DEF VsyncBoundary
  <2>2. SameLogs(cap, next)  BY DEF SameLogs, Capture
  <2>3. DOMAIN next = DOMAIN cap  OBVIOUS
  <2> HIDE DEF next
  <2>4. SameLogs(cap, snap)  BY <2>2, <2>3 DEF SameLogs, Capture
  <2> HIDE DEF snap
  <2> QED BY <2>1, <2>2, <2>4, SameLogsHold
<1>2. CASE ColdBoot
  <2>1. cap' = [cap EXCEPT !.frame = 0, !.halted = FALSE]  BY <1>2 DEF ColdBoot
  <2>2. SameLogs(cap, cap')  BY <2>1 DEF SameLogs, Capture
  <2> QED BY <2>2, SameLogsHold
<1>3. CASE SetMemWatch
  <2>1. PICK w \in Windows :
          cap' = RefreshRamWriteObserver(
             [cap EXCEPT !.window = w, !.dropped = 0, !.watching = TRUE, !.rows = << >>,
                         !.written = << >>])
    BY <1>3 DEF SetMemWatch
  <2>2. /\ cap'.active = cap.active /\ cap'.light = cap.light /\ cap'.watching = TRUE
        /\ cap'.rows = << >> /\ cap'.written = << >> /\ cap'.dropped = 0
        /\ cap'.ram_observer = TRUE /\ cap'.fdc_observer = cap.fdc_observer
        /\ cap'.vdp_observer = cap.vdp_observer /\ cap'.watch_log = cap.watch_log
        /\ cap'.read_log = cap.read_log /\ cap'.write_log = cap.write_log
        /\ cap'.happened = cap.happened
    BY <2>1 DEF RefreshRamWriteObserver, Capture
  <2>3. ObserversOn(cap')  BY <2>2 DEF LogInv, ObserversOn
  <2>4. LogsHold(cap')
    <3>1. /\ AllOf(<< >>, << >>, Watched(cap')) /\ Cardinality(Watched(cap')) = 0
      BY <2>2, EmptyLog DEF Watched
    <3> QED BY <2>2, <3>1 DEF LogInv, LogsHold, AllOf
  <2> QED BY <2>2, <2>3, <2>4 DEF LogInv
<1>4. CASE ClearMemWatch
  <2>2. /\ cap'.active = cap.active /\ cap'.light = cap.light /\ cap'.watching = FALSE
        /\ cap'.ram_observer = (cap.active /\ cap.light)
        /\ cap'.fdc_observer = cap.fdc_observer
        /\ cap'.vdp_observer = cap.vdp_observer /\ cap'.watch_log = cap.watch_log
        /\ cap'.read_log = cap.read_log /\ cap'.write_log = cap.write_log
        /\ cap'.happened = cap.happened
    BY <1>4 DEF ClearMemWatch, RefreshRamWriteObserver, Capture
  <2>3. ObserversOn(cap') /\ LogsHold(cap')  BY <2>2 DEF LogInv, ObserversOn, LogsHold
  <2> QED BY <2>2, <2>3 DEF LogInv
<1>5. CASE InstructionEvent
  <2>1. PICK event \in BusEvents :
          LET l == LogLine(cap, event) IN cap' = Witnessed(Observed(cap, l), l)
    BY <1>5 DEF InstructionEvent
  <2> QED BY <2>1, EventLine, EventLogs
<1> QED BY <1>1, <1>2, <1>3, <1>4, <1>5

\* The events of an instruction are logged before it is recorded, and it may end
\* the capture.
LEMMA RecordedLogs ==
  ASSUME CaptureInv, LogInv(cap), Retire
  PROVE  LogInv(cap')
<1>1. PICK h \in BOOLEAN, low_sp \in BOOLEAN :
        cap' = Recorded(Retired(cap, Entry(cap), h), Entry(cap), ~cap.halted /\ h, low_sp)
  BY DEF Retire
<1> DEFINE e == Entry(cap)
           w == Retired(cap, e, h)
           p == PushStreamRecord(w, e)
<1>2. cap' = Recorded(w, e, ~cap.halted /\ h, low_sp)  BY <1>1
<1>0. cap \in Capture  BY DEF CaptureInv
<1>3. e \in Entries  BY <1>0 DEF Entry, Entries, Capture
<1> HIDE DEF e
<1>5. LogInv(w)
  <2>1. SameLogs(cap, w)  BY <1>0 DEF Retired, SameLogs, Capture
  <2> QED BY <2>1, SameLogsHold
<1>6. /\ w \in Capture /\ w.active = cap.active
      /\ w.ring = cap.ring /\ w.ring_head = cap.ring_head
      /\ w.active => w.ran = Append(cap.ran, e)
  <2>1. /\ w \in Capture /\ w.active = cap.active
        /\ w.ring = cap.ring /\ w.ring_head = cap.ring_head
        /\ w.ran = IF cap.active THEN Append(cap.ran, e) ELSE cap.ran
    BY <1>0, <1>3, RetiredKeeps
  <2> HIDE DEF w
  <2> QED BY <2>1
<1> HIDE DEF w
<1>7. ASSUME w.active  PROVE p \in Capture /\ SameLogs(w, p)
  <2>1. cap.ran \in Seq(Entries) /\ RingHolds(w.ring, w.ring_head, cap.ran)
    BY <1>0, <1>6, <1>7 DEF CaptureInv, Capture
  <2>2. p \in Capture  BY <1>3, <1>6, <1>7, <2>1, PushedKeeps
  <2>3. SameLogs(w, p)  BY <1>6 DEF PushStreamRecord, SameLogs, Capture
  <2> QED BY <2>2, <2>3
<1>8. w.active => LogInv(p)  BY <1>5, <1>7, SameLogsHold
<1> HIDE DEF p
<1>9. CASE ~w.active
  BY <1>2, <1>5, <1>9 DEF Recorded
<1>10. CASE w.active
  <2>1. \/ cap' = p
        \/ \E reason \in {"HALT", "CRASH"} : cap' = FinalizeStreamCapture(p, reason)
    BY <1>2, <1>10 DEF Recorded, p
  <2> QED BY <1>7, <1>8, <1>10, <2>1, FinalizedLogs DEF Reasons
<1> QED BY <1>9, <1>10

\* For every size of ring and table and any mix of captures and watches, at
\* any moment the capture has the tail of what ran, its logs have every event
\* since it was armed and the watch every write in its window up to where its
\* table was full (refresh_ram_write_observer, mem_watch_record,
\* push_stream_record).
THEOREM CapturesAreComplete == CaptureSpec => []CaptureComplete
<1>1. CaptureInit => LogInv(cap)
  <2> SUFFICES ASSUME CaptureInit PROVE LogInv(cap)  OBVIOUS
  <2>1. /\ cap.active = FALSE /\ cap.light = FALSE /\ cap.watching = FALSE
        /\ cap.ram_observer = FALSE /\ cap.vdp_observer = FALSE /\ cap.fdc_observer = FALSE
    BY DEF CaptureInit, AtStart
  <2> QED BY <2>1 DEF LogInv, ObserversOn, LogsHold
<1>2. CaptureInv /\ LogInv(cap) /\ [CaptureNext]_capture_vars => LogInv(cap)'
  <2> SUFFICES ASSUME CaptureInv, LogInv(cap), [CaptureNext]_capture_vars PROVE LogInv(cap')
    OBVIOUS
  <2>1. cap \in Capture  BY DEF CaptureInv
  <2>2. CASE MachineReplaced
    BY <2>2 DEF MachineReplaced, NewMachine, AtStart, LogInv, ObserversOn, LogsHold
  <2>3. CASE UNCHANGED capture_vars
    BY <2>3 DEF capture_vars
  <2> QED BY <2>1, <2>2, <2>3, SwitchedLogs, OtherLogs, RecordedLogs DEF CaptureNext
<1>3. LogInv(cap) => NothingMissed
  BY DEF LogInv, LogsHold, NothingMissed, Watched
<1> QED BY <1>1, <1>2, <1>3, CaptureSound, RingIsTail, PTL DEF CaptureSpec, CaptureComplete
-----------------------------------------------------------------------------
(***************************************************************************)
(* The settings file.                                                      *)
(***************************************************************************)
Config == {v \in [Knobs -> Int] : \A k \in Knobs : v[k] \in Valid[k]}

SettingsState ==
  [phase : {"off", "window", "named", "hidden"}, file : Documents, legacy : Documents,
   rooted : BOOLEAN, there : Assets,
   baseline : Config, live : Config, launched : Config, width : Int,
   unmuted : 0 .. 100, last : Documents, settled : BOOLEAN,
   starts : Int, changes : Int,
   authored : Config, lost : BOOLEAN, found : Documents]

\* What a session that saves would write in knobs that are not sampled is what
\* the user wrote by hand.
BaselineIsAuthored(s) ==
  \A k \in Knobs \ Sampled :
    Meant(s.baseline, k) = Meant(s.authored, k) \/ (k = "fmpac_rom" /\ s.lost)

\* The inductive invariant: a session that saves knows what the user wrote by
\* hand, and what it takes to be in the file is in the file.
SettingsInv ==
  /\ settings \in SettingsState
  /\ settings.phase = "off" => ~settings.settled
  /\ settings.phase = "window" =>
       /\ BaselineIsAuthored(settings)
       /\ Untorn => \/ settings.last = settings.file
                    \/ settings.file = NoDocument /\ settings.found = NoDocument
       /\ settings.settled => settings.last = CurrentSettings(settings)
  /\ HandEditsSurvive
  /\ OthersLeaveFile

\* The names that are used are names of knobs.
LEMMA KnobNames ==
  /\ AssetPaths \subseteq Knobs
  /\ {"fast_disk", "disk_writable", "fullscreen", "filter", "persistence_mode", "volume",
      "persistence", "scale", "ram", "fmpac_autoload", "bios_dir", "fmpac_rom"} \subseteq Knobs
<1>1. /\ Order[1] = "fast_disk" /\ Order[2] = "fmpac_autoload" /\ Order[5] = "disk_writable"
      /\ Order[6] = "volume" /\ Order[8] = "scale" /\ Order[9] = "filter"
      /\ Order[10] = "persistence" /\ Order[11] = "persistence_mode" /\ Order[12] = "fullscreen"
      /\ Order[14] = "ram" /\ Order[16] = "bios_dir" /\ Order[18] = "fmpac_rom"
      /\ Order[19] = "fmpac_sram" /\ Order[20] = "cartridge_dir" /\ Order[21] = "disk_dir"
      /\ Order[22] = "softwaredb" /\ Len(Order) = 22
  BY DEF Order
<1>2. \A i \in 1 .. 22 : Order[i] \in Knobs  BY <1>1 DEF Knobs
<1> HIDE DEF Order
<1> QED BY <1>1, <1>2 DEF AssetPaths

\* The defaults are values that are accepted, and so are paths of any spelling.
LEMMA KnobValues ==
  /\ \A k \in Knobs : Valid[k] \subseteq Int /\ Missing \notin Valid[k] /\ Defaults[k] \in Valid[k]
  /\ Defaults \in Config
  /\ Paths \subseteq Int /\ \A k \in AssetPaths : Valid[k] = Paths
  /\ \A p \in Paths : /\ Absolute[p] \in Paths /\ Relative[p] \in Paths
                      /\ Absolute[Absolute[p]] = Absolute[p] /\ Absolute[Relative[p]] = Absolute[p]
<1>1. \A k \in Knobs : Valid[k] \subseteq Int /\ Missing \notin Valid[k] /\ Defaults[k] \in Valid[k]
  BY SettingsAssumption
<1>2. \A k \in AssetPaths : Valid[k] = Paths  BY SettingsAssumption
<1>3. "disk_dir" \in AssetPaths /\ AssetPaths \subseteq Knobs  BY KnobNames DEF AssetPaths
<1>4. Defaults \in Config  BY <1>1, SettingsAssumption DEF Config
<1>5. Absolute \in [Paths -> Paths] /\ Relative \in [Paths -> Paths]
      /\ \A p \in Paths : Absolute[Absolute[p]] = Absolute[p] /\ Absolute[Relative[p]] = Absolute[p]
  BY SettingsAssumption
<1> QED BY <1>1, <1>2, <1>3, <1>4, <1>5

\* A path spelled anew is accepted, and leads where it led.
LEMMA PathsSpelled ==
  ASSUME NEW c \in Config
  PROVE  /\ WithAbsoluteAssetPaths(c) \in Config /\ WithRelativeAssetPaths(c) \in Config
         /\ \A k \in Knobs : /\ Meant(WithAbsoluteAssetPaths(c), k) = Meant(c, k)
                             /\ Meant(WithRelativeAssetPaths(c), k) = Meant(c, k)
<1>1. \A k \in Knobs : c[k] \in Valid[k] /\ (k \in AssetPaths => c[k] \in Paths)
  BY KnobValues DEF Config
<1>2. \A k \in Knobs : /\ WithAbsoluteAssetPaths(c)[k] \in Valid[k]
                       /\ WithRelativeAssetPaths(c)[k] \in Valid[k]
  BY <1>1, KnobValues DEF WithAbsoluteAssetPaths, WithRelativeAssetPaths
<1>3. WithAbsoluteAssetPaths(c) \in Config /\ WithRelativeAssetPaths(c) \in Config
  BY <1>2, KnobValues DEF WithAbsoluteAssetPaths, WithRelativeAssetPaths, Config
<1>4. \A k \in Knobs : /\ Meant(WithAbsoluteAssetPaths(c), k) = Meant(c, k)
                       /\ Meant(WithRelativeAssetPaths(c), k) = Meant(c, k)
  BY <1>1, KnobValues DEF WithAbsoluteAssetPaths, WithRelativeAssetPaths, Meant
<1> QED BY <1>3, <1>4

\* Whatever stands in the file, a session starts with values that are
\* accepted.
LEMMA LoadedType ==
  ASSUME NEW file \in Documents, NEW legacy \in Documents
  PROVE  Parsed(file) \in Config /\ LoadedFrom(file, legacy) \in Config
<1>1. ASSUME NEW d \in Documents  PROVE Parsed(d) \in Config
  BY KnobValues DEF Parsed, Applied, Config, Documents
<1>2. (IF file = NoDocument THEN legacy ELSE file) \in Documents  OBVIOUS
<1> QED BY <1>1, <1>2 DEF LoadedFrom

\* Looking for the assets changes where an FM-PAC ROM leads only when it is
\* away, and where a folder of BIOS files leads, which is sampled.
LEMMA OpenedType ==
  ASSUME NEW c \in Config, NEW rooted \in BOOLEAN, NEW there
  PROVE  /\ Opened(c, rooted, there) \in Config
         /\ \A k \in Knobs \ Sampled : \/ Meant(Opened(c, rooted, there), k) = Meant(c, k)
                                       \/ k = "fmpac_rom" /\ Absolute[c["fmpac_rom"]] \notin there
<1>1. CASE ~rooted  BY <1>1 DEF Opened
<1>2. CASE rooted
  <2> DEFINE a == WithAbsoluteAssetPaths(c)
             o == Opened(c, rooted, there)
  <2>1. a \in Config /\ \A k \in Knobs : Meant(a, k) = Meant(c, k)  BY PathsSpelled
  <2>2. "fmpac_rom" \in AssetPaths /\ "bios_dir" \in AssetPaths /\ "bios_dir" \in Sampled
        /\ AssetPaths \subseteq Knobs
    BY KnobNames DEF AssetPaths, Sampled
  <2>3. a["fmpac_rom"] = Absolute[c["fmpac_rom"]]  BY <2>2 DEF WithAbsoluteAssetPaths
  <2> HIDE DEF a
  <2>4. o = [k \in Knobs |-> IF k \in {"bios_dir", "fmpac_rom"}
                             THEN ResolveExistingAsset(a[k], Absolute[Defaults[k]], there) ELSE a[k]]
    BY <1>2 DEF Opened, a
  <2> HIDE DEF o
  <2>5. \A k \in Knobs : k \in {"bios_dir", "fmpac_rom"} =>
          o[k] = a[k] \/ (o[k] = Absolute[Defaults[k]] /\ a[k] \notin there)
    BY <2>4 DEF ResolveExistingAsset
  <2>6. \A k \in Knobs : k \notin {"bios_dir", "fmpac_rom"} => o[k] = a[k]  BY <2>4
  <2>7. \A k \in Knobs : o[k] \in Valid[k]
    <3>1. \A k \in {"bios_dir", "fmpac_rom"} : Absolute[Defaults[k]] \in Valid[k]
      BY <2>2, KnobValues
    <3>2. \A k \in Knobs : a[k] \in Valid[k]  BY <2>1 DEF Config
    <3> QED BY <2>5, <2>6, <3>1, <3>2
  <2>8. o \in Config
    <3>1. o \in [Knobs -> Int]  BY <2>4, <2>7, KnobValues
    <3> QED BY <2>7, <3>1 DEF Config
  <2>9. ASSUME NEW k \in Knobs \ Sampled
        PROVE  Meant(o, k) = Meant(c, k) \/ (k = "fmpac_rom" /\ Absolute[c["fmpac_rom"]] \notin there)
    <3>1. CASE o[k] = a[k]
      <4>1. Meant(o, k) = Meant(a, k)  BY <3>1 DEF Meant
      <4> QED BY <2>1, <4>1
    <3>2. CASE o[k] # a[k]
      BY <2>2, <2>3, <2>5, <2>6, <3>2
    <3> QED BY <3>1, <3>2
  <2> QED BY <2>8, <2>9 DEF o
<1> QED BY <1>1, <1>2

\* A missing file is a document without values.
LEMMA NoDocumentType == NoDocument \in Documents
  BY DEF NoDocument, Documents, Missing

\* A written file comes back as it was written.
LEMMA WrittenComesBack ==
  ASSUME NEW v \in Config, NEW legacy \in Documents
  PROVE  /\ Written(v) \in Documents /\ Written(v) # NoDocument /\ Written(v).form # "cut"
         /\ Parsed(Written(v)) = v /\ LoadedFrom(Written(v), legacy) = v
<1>1. Written(v) \in Documents /\ Written(v) # NoDocument /\ Written(v).form # "cut"
  BY DEF Written, NoDocument, Documents, Config
<1>2. Parsed(Written(v)) = v
  <2>1. \A k \in Knobs : Applied(Written(v), k) = v[k]  BY DEF Applied, Written, Config
  <2>2. v = [k \in Knobs |-> v[k]]  BY DEF Config
  <2> QED BY <2>1, <2>2 DEF Parsed
<1> QED BY <1>1, <1>2 DEF LoadedFrom

\* A window has a scale that can be written.
LEMMA WindowScaleType ==
  ASSUME NEW s, s.width \in Int
  PROVE  WindowScale(s) \in 1 .. 8
<1> DEFINE w == IF s.live.fullscreen = 1 THEN DisplayWidth ELSE s.width
           n == (w + 1) \div 2
<1>1. w \in Int  BY SettingsAssumption
<1> HIDE DEF w
<1>2. n \in Int  BY <1>1
<1> HIDE DEF n
<1>3. WindowScale(s) = IF n < 1 THEN 1 ELSE Smaller(n, 8)  BY DEF WindowScale, n, w
<1> QED BY <1>2, <1>3 DEF Smaller

\* What is written of a session leads where its own values lead, and of the
\* knobs that are not sampled, where those do that it was configured with.
LEMMA CurrentSettingsType ==
  ASSUME NEW s, s.baseline \in Config, s.live \in Config, s.width \in Int
  PROVE  \E v \in Config :
           /\ CurrentSettings(s) = Written(v)
           /\ \A k \in Knobs : Meant(v, k) = Meant(CurrentConfig(s), k)
           /\ \A k \in Knobs \ Sampled : Meant(v, k) = Meant(s.baseline, k)
<1> DEFINE c == CurrentConfig(s)
           v == IF s.rooted THEN WithRelativeAssetPaths(c) ELSE WithAbsoluteAssetPaths(c)
<1>1. WindowScale(s) \in Valid["scale"]
  BY WindowScaleType, SettingsAssumption
<1>2. \A k \in Knobs : c[k] \in Valid[k]  BY <1>1 DEF Config, CurrentConfig
<1>3. c \in Config  BY <1>2, KnobValues DEF CurrentConfig, Config
<1>4. \A k \in Knobs \ Sampled : c[k] = s.baseline[k]  BY DEF Sampled, CurrentConfig
<1>5. CurrentSettings(s) = Written(v)  BY DEF CurrentSettings
<1> HIDE DEF c
<1>6. v \in Config /\ \A k \in Knobs : Meant(v, k) = Meant(c, k)  BY <1>3, PathsSpelled
<1>7. \A k \in Knobs \ Sampled : Meant(c, k) = Meant(s.baseline, k)  BY <1>4 DEF Meant
<1> HIDE DEF v
<1> QED BY <1>5, <1>6, <1>7 DEF c

\* It is made of four fields.
LEMMA SameCurrentSettings ==
  ASSUME NEW s, NEW t, t.live = s.live, t.baseline = s.baseline, t.width = s.width,
         t.rooted = s.rooted
  PROVE  CurrentSettings(t) = CurrentSettings(s)
<1>1. WindowScale(t) = WindowScale(s)  BY DEF WindowScale
<1>2. CurrentConfig(t) = CurrentConfig(s)  BY <1>1 DEF CurrentConfig
<1> QED BY <1>2 DEF CurrentSettings

\* A window fitted to the display has a width.
LEMMA FittedType ==
  ASSUME NEW scale \in 1 .. 8
  PROVE  Fitted(scale) \in Int
<1> DEFINE half == DisplayWidth \div 2
           fit == Smaller(scale, Smaller(half, DisplayScale))
<1>1. half \in Int /\ DisplayScale \in Int /\ DisplayWidth \in Int  BY SettingsAssumption
<1>2. Fitted(scale) = IF fit >= 1 THEN 2 * fit ELSE Smaller(2 * scale, DisplayWidth)
  BY DEF Fitted
<1> HIDE DEF half
<1>3. fit \in Int  BY <1>1 DEF Smaller
<1> HIDE DEF fit
<1> QED BY <1>1, <1>2, <1>3 DEF Smaller

\* The command line leaves accepted values.
LEMMA ResolvedType ==
  ASSUME NEW c \in Config, NEW flags \in Flags
  PROVE  Resolved(c, flags) \in Config
<1>1. 64 \in Valid["ram"] /\ 0 \in Valid["fast_disk"] /\ 0 \in Valid["fmpac_autoload"]
  BY SettingsAssumption
<1>2. \A k \in Knobs : flags.value[k] \in Valid[k] \cup {Missing}  BY SettingsAssumption
<1>3. \A k \in Knobs : Resolved(c, flags)[k] \in Valid[k]
  BY <1>1, <1>2 DEF Resolved, Config
<1> QED BY <1>3, KnobValues DEF Resolved, Config

\* A change of what is running is not in the file yet, and is no business of
\* the knobs that are not sampled.
LEMMA ChangeKeeps ==
  ASSUME SettingsInv, NEW live \in Config, NEW width \in Int, NEW unmuted \in 0 .. 100, NEW n \in Int,
         settings' = [settings EXCEPT !.live = live, !.width = width, !.settled = FALSE,
                                      !.changes = n, !.unmuted = unmuted]
  PROVE  SettingsInv'
<1>1. settings \in SettingsState  BY DEF SettingsInv
<1>2. settings' \in SettingsState  BY <1>1 DEF SettingsState
<1>3. /\ settings'.phase = settings.phase /\ settings'.lost = settings.lost
      /\ settings'.baseline = settings.baseline /\ settings'.authored = settings.authored
      /\ settings'.last = settings.last /\ settings'.file = settings.file
      /\ settings'.found = settings.found /\ settings'.legacy = settings.legacy
      /\ settings'.settled = FALSE
  BY <1>1 DEF SettingsState
<1> QED BY <1>2, <1>3 DEF SettingsInv, BaselineIsAuthored, Untorn, HandEditsSurvive, OthersLeaveFile

\* Changed changes one knob.
LEMMA ChangedKeeps ==
  ASSUME SettingsInv, NEW knob \in Knobs, NEW value \in Valid[knob], NEW unmuted \in 0 .. 100,
         settings' = [Changed(knob, value) EXCEPT !.unmuted = unmuted]
  PROVE  SettingsInv'
<1> DEFINE next == [settings.live EXCEPT ![knob] = value]
           n == settings.changes + 1
           w == settings.width
<1>1. settings \in SettingsState /\ settings.live \in Config /\ n \in Int /\ w \in Int
  BY DEF SettingsInv, SettingsState
<1>2. value \in Int  BY KnobValues
<1>3. next \in Config  BY <1>1, <1>2 DEF Config
<1>4. Changed(knob, value) = [settings EXCEPT !.live = next, !.settled = FALSE, !.changes = n]
  BY DEF Changed
<1> HIDE DEF next, n, w
<1>5. settings' = [settings EXCEPT !.live = next, !.width = w, !.settled = FALSE, !.changes = n,
                                   !.unmuted = unmuted]
  BY <1>1, <1>4 DEF SettingsState, w
<1> QED BY <1>1, <1>3, <1>5, ChangeKeeps

\* The same, where the volume before the muting is left alone.
LEMMA KnobKeeps ==
  ASSUME SettingsInv, NEW knob \in Knobs, NEW value \in Valid[knob], settings' = Changed(knob, value)
  PROVE  SettingsInv'
<1> DEFINE next == [settings.live EXCEPT ![knob] = value]
           n == settings.changes + 1
           u == settings.unmuted
<1>1. settings \in SettingsState /\ u \in 0 .. 100  BY DEF SettingsInv, SettingsState
<1>2. Changed(knob, value) = [settings EXCEPT !.live = next, !.settled = FALSE, !.changes = n]
  BY DEF Changed
<1> HIDE DEF next, n
<1>3. [settings EXCEPT !.live = next, !.settled = FALSE, !.changes = n]
      = [[settings EXCEPT !.live = next, !.settled = FALSE, !.changes = n] EXCEPT !.unmuted = u]
  BY <1>1 DEF SettingsState
<1>4. settings' = [Changed(knob, value) EXCEPT !.unmuted = u]  BY <1>2, <1>3
<1> HIDE DEF u
<1> QED BY <1>1, <1>4, ChangedKeeps

\* So does another set of values.
LEMMA LiveKeeps ==
  ASSUME SettingsInv, NEW live \in Config,
         settings' = [settings EXCEPT !.live = live, !.settled = FALSE, !.changes = @ + 1]
  PROVE  SettingsInv'
<1> DEFINE n == settings.changes + 1
           w == settings.width
           u == settings.unmuted
<1>1. settings \in SettingsState /\ n \in Int /\ w \in Int /\ u \in 0 .. 100
  BY DEF SettingsInv, SettingsState
<1> HIDE DEF w, u
<1>2. settings' = [settings EXCEPT !.live = live, !.width = w, !.settled = FALSE,
                                   !.changes = n, !.unmuted = u]
  BY <1>1 DEF SettingsState, w, u
<1> HIDE DEF n
<1>3. \A m \in Int : settings' = [settings EXCEPT !.live = live, !.width = w, !.settled = FALSE,
                                                 !.changes = m, !.unmuted = u] => SettingsInv'
  <2> SUFFICES ASSUME NEW m \in Int,
                      settings' = [settings EXCEPT !.live = live, !.width = w, !.settled = FALSE,
                                                 !.changes = m, !.unmuted = u]
               PROVE SettingsInv'  OBVIOUS
  <2> QED BY <1>1, ChangeKeeps
<1> QED BY <1>1, <1>2, <1>3

\* A reset or a new machine, which the disk speed of the launch comes back
\* with, leaves values that are accepted.
LEMMA RebootedType ==
  ASSUME SettingsInv, NEW knob \in Knobs, NEW value \in Valid[knob]
  PROVE  /\ Rebooted(settings.live) \in Config
         /\ [Rebooted(settings.live) EXCEPT ![knob] = value] \in Config
<1> DEFINE f == settings.launched.fast_disk
           c == [settings.live EXCEPT !["fast_disk"] = f]
<1>1. settings.live \in Config /\ settings.launched \in Config /\ "fast_disk" \in Knobs
  BY KnobNames DEF SettingsInv, SettingsState
<1>2. f \in Valid["fast_disk"] /\ f \in Int /\ value \in Int  BY <1>1, KnobValues DEF Config
<1>3. Rebooted(settings.live) = c  BY DEF Rebooted
<1> HIDE DEF f
<1>4. c \in Config  BY <1>1, <1>2 DEF Config
<1> HIDE DEF c
<1>5. [c EXCEPT ![knob] = value] \in Config  BY <1>2, <1>4 DEF Config
<1> QED BY <1>3, <1>4, <1>5

\* What the user does in a frame leaves values that are accepted.
LEMMA KnobStep ==
  ASSUME SettingsInv,
         \/ \E up \in BOOLEAN : StepVolume(up) \/ StepPersistence(up)
         \/ ToggleMute \/ ToggleKnob \/ ResizeWindow \/ ResetTheMachine \/ CycleWithRam
         \/ ChooseBiosFolder
  PROVE  SettingsInv'
<1> DEFINE old == settings.live
           u == settings.unmuted
<1>1. /\ settings \in SettingsState /\ old \in Config /\ u \in 0 .. 100 /\ settings.changes + 1 \in Int
      /\ settings.launched \in Config /\ settings.width \in Int
  BY DEF SettingsInv, SettingsState
<1>2. /\ "volume" \in Knobs /\ "persistence" \in Knobs /\ "fast_disk" \in Knobs /\ "ram" \in Knobs
      /\ "bios_dir" \in Knobs
  BY KnobNames
<1>3. /\ old["volume"] \in 0 .. 100 /\ Valid["volume"] = 0 .. 100
      /\ old["persistence"] \in 0 .. 100 /\ Valid["persistence"] = 0 .. 100
  BY <1>1, <1>2, SettingsAssumption DEF Config
<1> HIDE DEF u
<1>4. CASE \E up \in BOOLEAN : StepVolume(up)
  <2>1. PICK up \in BOOLEAN : StepVolume(up)  BY <1>4
  <2> DEFINE v == old["volume"]
             next == IF up THEN (v \div 10 + 1) * 10 ELSE ((v + 9) \div 10 - 1) * 10
             value == IF next > 100 THEN 100 ELSE IF next < 0 THEN 0 ELSE next
  <2>2. v \div 10 \in Int /\ (v + 9) \div 10 \in Int  BY <1>3
  <2>3. next \in Int  BY <2>2
  <2>4. settings' = Changed("volume", value)  BY <2>1 DEF StepVolume
  <2> HIDE DEF next
  <2>5. value \in Valid["volume"]  BY <1>3, <2>3
  <2> HIDE DEF value, old
  <2> QED BY <1>2, <2>4, <2>5, KnobKeeps
<1>5. CASE \E up \in BOOLEAN : StepPersistence(up)
  <2>1. PICK up \in BOOLEAN : StepPersistence(up)  BY <1>5
  <2> DEFINE nearest == (old["persistence"] + 5) \div 10
             m == nearest + (IF up THEN 12 ELSE 10)
             value == (m % 11) * 10
  <2>2. nearest \in Int  BY <1>3
  <2>3. m \in Int  BY <2>2
  <2>4. settings' = Changed("persistence", value)  BY <2>1 DEF StepPersistence
  <2> HIDE DEF nearest, m
  <2>5. m % 11 \in 0 .. 10  BY <2>3
  <2>6. value \in Valid["persistence"]  BY <1>3, <2>5
  <2> HIDE DEF value, old
  <2> QED BY <1>2, <2>4, <2>6, KnobKeeps
<1>6. CASE ToggleMute
  <2> DEFINE v == old["volume"]
             back == IF u > 0 THEN u ELSE 100
  <2>1. CASE v > 0
    <3>1. settings' = [Changed("volume", 0) EXCEPT !.unmuted = v]
      BY <1>6, <2>1 DEF ToggleMute
    <3>2. 0 \in Valid["volume"] /\ v \in 0 .. 100  BY <1>3
    <3> HIDE DEF v, old
    <3> QED BY <1>2, <3>1, <3>2, ChangedKeeps
  <2>2. CASE ~(v > 0)
    <3>1. settings' = Changed("volume", back)  BY <1>6, <2>2 DEF ToggleMute, u
    <3>2. back \in Valid["volume"]  BY <1>1, <1>3
    <3> HIDE DEF back, old
    <3> QED BY <1>2, <3>1, <3>2, KnobKeeps
  <2> QED BY <2>1, <2>2
<1>7. CASE ToggleKnob
  <2>1. PICK k \in {"fast_disk", "disk_writable", "fullscreen", "filter", "persistence_mode"} :
          settings' = Changed(k, 1 - old[k])
    BY <1>7 DEF ToggleKnob
  <2>2. k \in Knobs  BY KnobNames
  <2>3. Valid[k] = {0, 1}  BY SettingsAssumption
  <2>4. 1 - old[k] \in Valid[k]
    <3>1. old[k] \in {0, 1}  BY <1>1, <2>2, <2>3 DEF Config
    <3> HIDE DEF old
    <3> QED BY <2>3, <3>1
  <2> DEFINE value == 1 - old[k]
  <2>5. settings' = Changed(k, value) /\ value \in Valid[k]  BY <2>1, <2>4
  <2> HIDE DEF value, old
  <2> QED BY <2>2, <2>5, KnobKeeps
<1>8. CASE ResizeWindow
  <2>1. PICK width \in {Fitted(scale) : scale \in 1 .. 8}
                       \cup (IF old.fullscreen = 0 THEN 1 .. DisplayWidth ELSE {}) :
          settings' = [settings EXCEPT !.width = width, !.settled = FALSE, !.changes = @ + 1]
    BY <1>8 DEF ResizeWindow
  <2>2. width \in Int  BY FittedType, SettingsAssumption
  <2> DEFINE n == settings.changes + 1
  <2>3. settings' = [settings EXCEPT !.width = width, !.settled = FALSE, !.changes = n]  BY <2>1
  <2>4. n \in Int  BY <1>1
  <2> HIDE DEF n
  <2>5. settings' = [settings EXCEPT !.live = old, !.width = width, !.settled = FALSE, !.changes = n,
                                     !.unmuted = u]
    BY <1>1, <2>3 DEF SettingsState, u
  <2> HIDE DEF old
  <2> QED BY <1>1, <2>2, <2>4, <2>5, ChangeKeeps
<1>9. CASE ResetTheMachine
  <2> DEFINE next == Rebooted(settings.live)
  <2>1. settings' = [settings EXCEPT !.live = next, !.settled = FALSE, !.changes = @ + 1]
    BY <1>9 DEF ResetTheMachine
  <2>2. next \in Config  BY <1>2, <1>3, RebootedType
  <2> HIDE DEF next, old
  <2> QED BY <2>1, <2>2, LiveKeeps
<1>10. CASE CycleWithRam
  <2>1. PICK kb \in Valid["ram"] :
          settings' = [settings EXCEPT !.live = [Rebooted(@) EXCEPT !["ram"] = kb],
                                       !.settled = FALSE, !.changes = @ + 1]
    BY <1>10 DEF CycleWithRam
  <2> DEFINE next == [Rebooted(settings.live) EXCEPT !["ram"] = kb]
  <2>2. next \in Config  BY <1>2, RebootedType
  <2>3. settings' = [settings EXCEPT !.live = next, !.settled = FALSE, !.changes = @ + 1]  BY <2>1
  <2> HIDE DEF next, old
  <2> QED BY <2>2, <2>3, LiveKeeps
<1>11. CASE ChooseBiosFolder
  <2>1. PICK folder \in Valid["bios_dir"] :
          settings' = [settings EXCEPT !.live = [Rebooted(@) EXCEPT !["bios_dir"] = folder],
                                       !.settled = FALSE, !.changes = @ + 1]
    BY <1>11 DEF ChooseBiosFolder
  <2> DEFINE next == [Rebooted(settings.live) EXCEPT !["bios_dir"] = folder]
  <2>2. next \in Config  BY <1>2, RebootedType
  <2>3. settings' = [settings EXCEPT !.live = next, !.settled = FALSE, !.changes = @ + 1]  BY <2>1
  <2> HIDE DEF next, old
  <2> QED BY <2>2, <2>3, LiveKeeps
<1> HIDE DEF old
<1> QED BY <1>4, <1>5, <1>6, <1>7, <1>8, <1>9, <1>10, <1>11

\* A process that ends leaves the files, and what the user wrote.
LEMMA GoneKeeps ==
  ASSUME SettingsInv, NEW file \in Documents, file = settings.file \/ file.form = "cut",
         settings' = Gone([settings EXCEPT !.file = file])
  PROVE  SettingsInv'
<1> DEFINE legacy == settings.legacy
           rooted == settings.rooted
           there == settings.there
           new == NewUser(file, legacy, rooted, there)
           starts == settings.starts
           authored == settings.authored
           lost == settings.lost
<1>1. /\ settings \in SettingsState /\ legacy \in Documents /\ rooted \in BOOLEAN
      /\ there \in Assets /\ starts \in Int /\ authored \in Config /\ lost \in BOOLEAN
  BY DEF SettingsInv, SettingsState
<1>2. settings' = [new EXCEPT !.starts = starts, !.authored = authored, !.lost = lost]
  BY <1>1 DEF Gone, SettingsState
<1> HIDE DEF legacy, rooted, there, starts, authored, lost
<1>3. /\ new \in SettingsState /\ new.phase = "off" /\ new.file = file /\ new.legacy = legacy
      /\ new.settled = FALSE
  <2>1. LoadedFrom(file, legacy) \in Config /\ Defaults \in Config /\ NoDocument \in Documents
    BY <1>1, LoadedType, KnobValues, NoDocumentType
  <2> QED BY <1>1, <2>1 DEF NewUser, SettingsState
<1> HIDE DEF new
<1>4. settings' \in SettingsState  BY <1>1, <1>2, <1>3 DEF SettingsState
<1>5. /\ settings'.phase = "off" /\ settings'.file = file /\ settings'.legacy = legacy
      /\ settings'.authored = authored /\ settings'.lost = lost /\ settings'.settled = FALSE
  BY <1>2, <1>3 DEF SettingsState
<1>6. HandEditsSurvive'
  BY <1>5 DEF SettingsInv, HandEditsSurvive, Untorn, legacy, authored, lost
<1> QED BY <1>4, <1>5, <1>6 DEF SettingsInv, OthersLeaveFile

\* A frame ends: the file has what was written, or was cut, or is as it was.
LEMMA FrameKeeps ==
  ASSUME SettingsInv, NEW outcome \in {"saved", "refused", "full", "killed"}, EndOfFrame(outcome)
  PROVE  SettingsInv'
<1> DEFINE text == CurrentSettings(settings)
           done == [settings EXCEPT !.settled = TRUE]
<1>1. /\ settings \in SettingsState /\ settings.baseline \in Config /\ settings.live \in Config
      /\ settings.width \in Int /\ settings.legacy \in Documents /\ settings.phase # "off"
  BY DEF SettingsInv, SettingsState, EndOfFrame
<1>2. PICK v \in Config : /\ text = Written(v)
                          /\ \A k \in Knobs \ Sampled : Meant(v, k) = Meant(settings.baseline, k)
  BY <1>1, CurrentSettingsType
<1>3. text \in Documents /\ LoadedFrom(text, settings.legacy) = v
  BY <1>1, <1>2, WrittenComesBack
<1>4. \A n \in CutPoints : /\ CutAfter(n, text.value) \in Documents
                           /\ CutAfter(n, text.value).form = "cut"
  <2>1. text.value = v  BY <1>2 DEF Written
  <2>2. \A k \in Knobs : v[k] \in Int  BY DEF Config
  <2>3. \A n \in CutPoints : CutAfter(n, v) \in Documents
    BY <2>2 DEF CutAfter, Documents, Missing
  <2>4. \A n \in CutPoints : CutAfter(n, v).form = "cut"  BY DEF CutAfter
  <2> HIDE DEF text
  <2> QED BY <2>1, <2>3, <2>4
<1>5. IF settings.phase # "window" \/ text = settings.last THEN outcome = "saved" /\ settings' = done
      ELSE CASE outcome = "saved" -> settings' = [done EXCEPT !.file = text, !.last = text]
             [] outcome = "refused" -> settings' = settings
             [] outcome = "full" ->
                  \E n \in CutPoints :
                    settings' = [done EXCEPT !.file = CutAfter(n, text.value), !.last = text]
             [] outcome = "killed" ->
                  \E n \in CutPoints :
                    settings' = Gone([settings EXCEPT !.file = CutAfter(n, text.value)])
  BY DEF EndOfFrame
<1>6. \A t : t.live = settings.live /\ t.baseline = settings.baseline /\ t.width = settings.width
             /\ t.rooted = settings.rooted => CurrentSettings(t) = text
  BY SameCurrentSettings
<1> HIDE DEF text
<1>7. CASE settings.phase # "window" \/ text = settings.last
  <2>1. settings' = done  BY <1>5, <1>7
  <2>2. settings' \in SettingsState  BY <1>1, <2>1 DEF SettingsState
  <2>3. /\ settings'.phase = settings.phase /\ settings'.lost = settings.lost
        /\ settings'.baseline = settings.baseline /\ settings'.authored = settings.authored
        /\ settings'.last = settings.last /\ settings'.file = settings.file
        /\ settings'.found = settings.found /\ settings'.legacy = settings.legacy
        /\ settings'.live = settings.live /\ settings'.width = settings.width
        /\ settings'.rooted = settings.rooted
    BY <1>1, <2>1 DEF SettingsState
  <2>4. settings'.phase = "window" => settings'.last = CurrentSettings(settings')
    <3>1. CurrentSettings(settings') = text  BY <1>6, <2>3
    <3> QED BY <1>7, <2>3, <3>1
  <2> QED BY <1>1, <2>2, <2>3, <2>4
           DEF SettingsInv, BaselineIsAuthored, Untorn, HandEditsSurvive, OthersLeaveFile
<1>8. ASSUME settings.phase = "window", NEW file \in Documents,
             file.form = "cut" \/ file = text,
             settings' = [done EXCEPT !.file = file, !.last = text]
      PROVE  SettingsInv'
  <2>1. settings' \in SettingsState  BY <1>1, <1>3, <1>8 DEF SettingsState
  <2>2. /\ settings'.phase = "window" /\ settings'.lost = settings.lost
        /\ settings'.baseline = settings.baseline /\ settings'.authored = settings.authored
        /\ settings'.last = text /\ settings'.file = file
        /\ settings'.legacy = settings.legacy
        /\ settings'.live = settings.live /\ settings'.width = settings.width
        /\ settings'.rooted = settings.rooted
    BY <1>1, <1>8 DEF SettingsState
  <2>3. CurrentSettings(settings') = text  BY <1>6, <2>2
  <2>4. BaselineIsAuthored(settings)  BY <1>8 DEF SettingsInv
  <2>5. BaselineIsAuthored(settings')  BY <2>2, <2>4 DEF BaselineIsAuthored
  <2>6. \A k \in Knobs \ Sampled : \/ Meant(v, k) = Meant(settings.authored, k)
                                   \/ k = "fmpac_rom" /\ settings.lost
    BY <1>2, <2>4 DEF BaselineIsAuthored
  <2>7. HandEditsSurvive'
    BY <1>3, <1>8, <2>2, <2>6 DEF HandEditsSurvive, Untorn
  <2>8. Untorn' => settings'.last = settings'.file  BY <1>8, <2>2 DEF Untorn
  <2> QED BY <2>1, <2>2, <2>3, <2>5, <2>7, <2>8 DEF SettingsInv, OthersLeaveFile
<1>9. CASE settings.phase = "window" /\ text # settings.last
  <2> HIDE DEF done
  <2>1. CASE outcome = "saved"
    <3>1. settings' = [done EXCEPT !.file = text, !.last = text]  BY <1>5, <1>9, <2>1
    <3> QED BY <1>3, <1>8, <1>9, <3>1
  <2>2. CASE outcome = "refused"
    <3>1. settings' = settings  BY <1>5, <1>9, <2>2
    <3> QED BY <3>1 DEF SettingsInv, BaselineIsAuthored, Untorn, HandEditsSurvive, OthersLeaveFile
  <2>3. CASE outcome = "full"
    <3>1. PICK n \in CutPoints :
            settings' = [done EXCEPT !.file = CutAfter(n, text.value), !.last = text]
      BY <1>5, <1>9, <2>3
    <3> QED BY <1>4, <1>8, <1>9, <3>1
  <2>4. CASE outcome = "killed"
    <3>1. PICK n \in CutPoints : settings' = Gone([settings EXCEPT !.file = CutAfter(n, text.value)])
      BY <1>5, <1>9, <2>4
    <3> QED BY <1>4, <3>1, GoneKeeps
  <2> QED BY <2>1, <2>2, <2>3, <2>4
<1> QED BY <1>7, <1>9

\* The start of a session keeps the invariant.
LEMMA StartKeeps ==
  ASSUME SettingsInv, NEW kind \in {"window", "named", "hidden"}, StartSession(kind)
  PROVE  SettingsInv'
<1> DEFINE file == settings.file
           byFile == LoadedFrom(file, settings.legacy)
           read == CASE kind = "hidden" -> Defaults
                     [] kind = "named" -> Parsed(file)
                     [] kind = "window" -> byFile
           config == Opened(read, settings.rooted, settings.there)
           torn == file.form = "cut"
           authored == IF torn THEN byFile ELSE settings.authored
           lost == (settings.lost /\ ~torn)
                   \/ (kind = "window" /\ Absolute[read.fmpac_rom] \notin settings.there)
           starts == settings.starts + 1
<1>1. /\ settings \in SettingsState /\ file \in Documents /\ settings.legacy \in Documents
      /\ settings.authored \in Config /\ starts \in Int /\ settings.rooted \in BOOLEAN
      /\ settings.lost \in BOOLEAN /\ settings.phase = "off"
  BY DEF SettingsInv, SettingsState, StartSession
<1>2. byFile \in Config /\ Parsed(file) \in Config /\ Defaults \in Config
  BY <1>1, LoadedType, KnobValues
<1>3. read \in Config /\ (kind = "window" => read = byFile)  BY <1>2
<1>4. config \in Config
      /\ \A k \in Knobs \ Sampled : \/ Meant(config, k) = Meant(read, k)
                                    \/ k = "fmpac_rom" /\ Absolute[read["fmpac_rom"]] \notin settings.there
  BY <1>1, <1>3, OpenedType
<1>5. PICK flags \in Flags :
        LET launched == Resolved(config, flags)
            s == [settings EXCEPT
              !.phase = kind, !.baseline = config, !.launched = launched, !.live = launched,
              !.width = IF kind = "hidden" THEN 2 * launched.scale ELSE Fitted(launched.scale),
              !.starts = @ + 1, !.found = settings.file,
              !.authored = IF torn THEN LoadedFrom(settings.file, settings.legacy) ELSE @,
              !.lost = (@ /\ ~torn) \/ (kind = "window" /\ Absolute[read.fmpac_rom] \notin settings.there)]
        IN  settings' = [s EXCEPT !.last = Seeded(s)]
  BY DEF StartSession
<1> DEFINE launched == Resolved(config, flags)
           width == IF kind = "hidden" THEN 2 * launched.scale ELSE Fitted(launched.scale)
           s == [settings EXCEPT
                   !.phase = kind, !.baseline = config, !.launched = launched, !.live = launched,
                   !.width = width, !.starts = starts, !.found = file,
                   !.authored = authored, !.lost = lost]
<1>6. settings' = [s EXCEPT !.last = Seeded(s)]  BY <1>5
<1>7. lost \in BOOLEAN /\ authored \in Config  BY <1>1, <1>2
<1>8. launched \in Config  BY <1>4, ResolvedType
<1>9. kind = "window" =>
        \A k \in Knobs \ Sampled : Meant(config, k) = Meant(authored, k) \/ (k = "fmpac_rom" /\ lost)
  <2>1. torn => authored = byFile  OBVIOUS
  <2>2. ~torn => authored = settings.authored  OBVIOUS
  <2>3. settings.lost /\ ~torn => lost  BY <1>1
  <2>4. kind = "window" /\ Absolute[read["fmpac_rom"]] \notin settings.there => lost  OBVIOUS
  <2>5. ~torn => \A k \in Knobs \ Sampled : Meant(byFile, k) = Meant(settings.authored, k)
                                            \/ (k = "fmpac_rom" /\ settings.lost)
    BY DEF SettingsInv, HandEditsSurvive, Untorn
  <2> HIDE DEF byFile, read, config, authored, lost, torn
  <2>6. CASE torn  BY <1>3, <1>4, <2>1, <2>4, <2>6
  <2>7. CASE ~torn  BY <1>3, <1>4, <2>2, <2>3, <2>4, <2>5, <2>7
  <2> QED BY <2>6, <2>7
<1>10. ~torn => /\ authored = settings.authored /\ (settings.lost => lost)
  BY <1>1
<1>11. torn <=> file.form = "cut"  OBVIOUS
<1> HIDE DEF byFile, read, config, authored, lost, starts, torn
<1>12. width \in Int
  <2>1. launched["scale"] \in 1 .. 8
    BY <1>8, KnobNames, SettingsAssumption DEF Config
  <2> HIDE DEF launched
  <2> QED BY <2>1, FittedType
<1> HIDE DEF launched, width, file
<1>13. s \in SettingsState
  <2> DEFINE a == [settings EXCEPT !.phase = kind, !.baseline = config, !.launched = launched]
             b == [a EXCEPT !.live = launched, !.width = width, !.starts = starts]
  <2>1. s = [b EXCEPT !.found = file, !.authored = authored, !.lost = lost]
    BY <1>1 DEF SettingsState
  <2>2. a \in SettingsState  BY <1>1, <1>4, <1>8 DEF SettingsState
  <2> HIDE DEF a
  <2>3. b \in SettingsState  BY <1>1, <1>8, <1>12, <2>2 DEF SettingsState
  <2> HIDE DEF b, s
  <2> QED BY <1>1, <1>7, <2>1, <2>3 DEF SettingsState
<1>14. /\ s.phase = kind /\ s.baseline = config /\ s.found = file /\ s.file = file
       /\ s.legacy = settings.legacy /\ s.authored = authored /\ s.lost = lost
       /\ s.settled = settings.settled
  BY <1>1 DEF SettingsState, file
<1> HIDE DEF s
<1> DEFINE last == Seeded(s)
<1>15. last \in Documents /\ (last = file \/ file = NoDocument)
       /\ (file = NoDocument => last = CurrentSettings(s))
  <2>1. s.baseline \in Config /\ s.live \in Config /\ s.width \in Int  BY <1>13 DEF SettingsState
  <2>2. CurrentSettings(s) \in Documents
    BY <1>1, <2>1, CurrentSettingsType, WrittenComesBack
  <2> QED BY <1>1, <1>14, <2>2 DEF Seeded
<1> HIDE DEF last
<1>16. settings' = [s EXCEPT !.last = last]  BY <1>6 DEF last
<1>17. settings' \in SettingsState  BY <1>13, <1>15, <1>16 DEF SettingsState
<1>18. /\ settings'.phase = kind /\ settings'.baseline = config /\ settings'.found = file
       /\ settings'.file = file /\ settings'.legacy = settings.legacy
       /\ settings'.authored = authored /\ settings'.lost = lost
       /\ settings'.settled = settings.settled /\ settings'.last = last
  BY <1>13, <1>14, <1>16 DEF SettingsState
<1>19. HandEditsSurvive'
  <2>1. file.form # "cut" => \A k \in Knobs \ Sampled :
           \/ Meant(LoadedFrom(file, settings.legacy), k) = Meant(settings.authored, k)
           \/ k = "fmpac_rom" /\ settings.lost
    BY DEF SettingsInv, HandEditsSurvive, Untorn, file
  <2> QED BY <1>10, <1>11, <1>18, <2>1 DEF HandEditsSurvive, Untorn
<1>20. OthersLeaveFile'  BY <1>18 DEF OthersLeaveFile
<1>21. kind = "window" => BaselineIsAuthored(settings')  BY <1>9, <1>18 DEF BaselineIsAuthored
<1>22. ~settings.settled
  BY <1>1 DEF SettingsInv
<1> QED BY <1>15, <1>17, <1>18, <1>19, <1>20, <1>21, <1>22 DEF SettingsInv

\* So do edits by hand and files that come and go.
LEMMA BetweenKeeps ==
  ASSUME SettingsInv, EditByHand \/ AssetsMove
  PROVE  SettingsInv'
<1>1. settings \in SettingsState /\ settings.legacy \in Documents
  BY DEF SettingsInv, SettingsState
<1>2. CASE EditByHand
  <2>1. PICK document \in HandEdits \cup {NoDocument} :
          settings' = [settings EXCEPT !.file = document, !.lost = FALSE,
                                       !.authored = LoadedFrom(document, settings.legacy)]
    BY <1>2 DEF EditByHand
  <2> DEFINE authored == LoadedFrom(document, settings.legacy)
  <2>2. document \in Documents  BY SettingsAssumption, NoDocumentType
  <2>3. authored \in Config  BY <1>1, <2>2, LoadedType
  <2>4. settings' = [settings EXCEPT !.file = document, !.lost = FALSE, !.authored = authored]
    BY <2>1
  <2> HIDE DEF authored
  <2>5. settings' \in SettingsState  BY <1>1, <2>2, <2>3, <2>4 DEF SettingsState
  <2>6. /\ settings'.phase = settings.phase /\ settings'.file = document
        /\ settings'.authored = authored /\ settings'.legacy = settings.legacy
        /\ settings.phase = "off" /\ settings'.settled = settings.settled
    BY <1>1, <1>2, <2>4 DEF SettingsState, EditByHand
  <2> QED BY <2>5, <2>6 DEF SettingsInv, HandEditsSurvive, OthersLeaveFile, authored
<1>3. CASE AssetsMove
  <2>1. PICK there \in Assets : settings' = [settings EXCEPT !.there = there]
    BY <1>3 DEF AssetsMove
  <2>2. settings' \in SettingsState  BY <1>1, <2>1 DEF SettingsState
  <2>3. /\ settings'.phase = settings.phase /\ settings'.file = settings.file
        /\ settings'.authored = settings.authored /\ settings'.legacy = settings.legacy
        /\ settings.phase = "off" /\ settings'.settled = settings.settled
        /\ settings'.lost = settings.lost
    BY <1>1, <1>3, <2>1 DEF SettingsState, AssetsMove
  <2> QED BY <2>2, <2>3 DEF SettingsInv, HandEditsSurvive, OthersLeaveFile, Untorn
<1> QED BY <1>2, <1>3

\* The invariant holds at the start.
LEMMA SettingsStart == SettingsInit => SettingsInv
<1> SUFFICES ASSUME SettingsInit PROVE SettingsInv  OBVIOUS
<1>1. PICK file \in HandEdits \cup {NoDocument}, legacy \in Legacies \cup {NoDocument},
           rooted \in BOOLEAN, there \in Assets : settings = NewUser(file, legacy, rooted, there)
  BY DEF SettingsInit
<1>2. file \in Documents /\ legacy \in Documents /\ NoDocument \in Documents
  BY SettingsAssumption, NoDocumentType
<1>3. LoadedFrom(file, legacy) \in Config /\ Defaults \in Config
  BY <1>2, LoadedType, KnobValues
<1>4. settings \in SettingsState  BY <1>1, <1>2, <1>3 DEF NewUser, SettingsState
<1>5. /\ settings.phase = "off" /\ settings.file = file /\ settings.legacy = legacy
      /\ settings.authored = LoadedFrom(file, legacy) /\ settings.settled = FALSE
  BY <1>1 DEF NewUser
<1> QED BY <1>4, <1>5 DEF SettingsInv, HandEditsSurvive, OthersLeaveFile

\* Every step keeps it.
LEMMA SettingsStep == SettingsInv /\ [SettingsNext]_settings_vars => SettingsInv'
<1> SUFFICES ASSUME SettingsInv, [SettingsNext]_settings_vars PROVE SettingsInv'  OBVIOUS
<1>1. CASE UNCHANGED settings_vars
  BY <1>1 DEF settings_vars, SettingsInv, BaselineIsAuthored, Untorn, HandEditsSurvive,
              OthersLeaveFile
<1>2. CASE \E outcome \in {"saved", "refused", "full", "killed"} : EndOfFrame(outcome)
  BY <1>2, FrameKeeps
<1>3. CASE \E kind \in {"window", "named", "hidden"} : StartSession(kind)
  BY <1>3, StartKeeps
<1>4. CASE EditByHand \/ AssetsMove
  BY <1>4, BetweenKeeps
<1>5. CASE SessionEnds
  <2> DEFINE file == settings.file
  <2>1. settings \in SettingsState /\ file \in Documents  BY DEF SettingsInv, SettingsState
  <2>2. settings = [settings EXCEPT !.file = file]  BY <2>1 DEF SettingsState
  <2>3. settings' = Gone([settings EXCEPT !.file = file])  BY <1>5, <2>2 DEF SessionEnds
  <2> QED BY <2>1, <2>3, GoneKeeps
<1> QED BY <1>1, <1>2, <1>3, <1>4, <1>5, KnobStep DEF SettingsNext

\* For every set of documents, paths, assets and command lines, over any number
\* of sessions and changes, with writes that are refused, cut or interrupted:
\* hand edits of the knobs that are not sampled survive as long as the file is
\* whole, what a saving session runs with is in the file when its frame is
\* over, and other sessions leave the file alone (Sdl3App::maybe_save_settings,
\* current_settings_xml, init).
THEOREM SettingsAreKept == SettingsSpec => []SettingsKept
<1>1. SettingsInv => SettingsKept
  <2> SUFFICES ASSUME SettingsInv PROVE LiveKnobsSaved
    BY DEF SettingsInv, SettingsKept
  <2> SUFFICES ASSUME settings.phase = "window", settings.settled, Untorn
               PROVE  LET current == CurrentConfig(settings)
                      IN  \/ \A k \in Knobs : Meant(Parsed(settings.file), k) = Meant(current, k)
                          \/ /\ settings.file = NoDocument /\ settings.found = NoDocument
                             /\ settings.last = CurrentSettings(settings)
    BY DEF LiveKnobsSaved
  <2>1. /\ settings.last = CurrentSettings(settings)
        /\ settings.last = settings.file \/ (settings.file = NoDocument /\ settings.found = NoDocument)
        /\ settings.baseline \in Config /\ settings.live \in Config /\ settings.width \in Int
        /\ settings.legacy \in Documents
    BY DEF SettingsInv, SettingsState
  <2>2. PICK v \in Config : /\ CurrentSettings(settings) = Written(v)
                            /\ \A k \in Knobs : Meant(v, k) = Meant(CurrentConfig(settings), k)
    BY <2>1, CurrentSettingsType
  <2>3. Parsed(CurrentSettings(settings)) = v
    BY <2>1, <2>2, WrittenComesBack
  <2> QED BY <2>1, <2>2, <2>3
<1> QED BY <1>1, SettingsStart, SettingsStep, PTL DEF SettingsSpec
=============================================================================
