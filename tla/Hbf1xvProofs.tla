---------------------------- MODULE Hbf1xvProofs ----------------------------
(***************************************************************************)
(* The interrupt properties of the machine, for every raster geometry,     *)
(* every set of instructions, lengths and register writes; what the memory *)
(* map shows, for every guest and every size of image; and what the ports  *)
(* of the VDP give, for every program.                                     *)
(*                                                                         *)
(* Two facts about a VDP record make the VDP part: Exact, which every      *)
(* operation keeps, and what it leaves of the level.  The line interrupt   *)
(* rests on one equation: the cache holds the next match as it is seen     *)
(* from the last poll (CacheExact).                                        *)
(*                                                                         *)
(* The memory map rests on what every device keeps to itself: a ROM window *)
(* shows blocks of its image only (Inside), Konami's pages are in step     *)
(* (Mirrors), and the FM-PAC's battery RAM is open for its keys (Keys).    *)
(*                                                                         *)
(* The ports of the VDP rest on the account that the program keeps of its  *)
(* streams and pairs: what it knows of the memory, of the address and of   *)
(* the latch is so in the chip (Accounted).                                *)
(***************************************************************************)
EXTENDS Hbf1xv, MemoryMap, VdpPorts, TLAPS

Exact(v) ==
  /\ v \in Vdp
  /\ v.irq_level = IrqActive(v)
  /\ v.irq_vertical <=> v.f /\ IE0(v)
  /\ v.irq_horizontal => IE1(v)

\* The request of CPU c is backed by the line of VDP v.
Backed(c, v) == c \in Cpu /\ (c.pending => v.irq_level)

\* A bit is set or not.
LEMMA BitBoolean == \A x, n : Bit(x, n) \in BOOLEAN  BY DEF Bit

\* After a reset the line is low and no source is up.
LEMMA ResetExact == Exact(ResetVdp)
<1>1. ResetVdp \in Vdp  BY DEF ResetVdp, Vdp, Byte, ModelledRegs
<1> QED BY <1>1 DEF ResetVdp, Exact, IrqActive

\* A write keeps the level exact, and raises no line interrupt.
LEMMA WriteExact ==
  ASSUME NEW v, Exact(v), NEW r \in ModelledRegs, NEW x \in Byte
  PROVE  /\ Exact(AfterChangeRegister(v, r, x))
         /\ AfterChangeRegister(v, r, x).irq_horizontal => v.irq_horizontal
<1> DEFINE w == [v EXCEPT !.regs[r] = x]
<1>1. v \in Vdp  BY DEF Exact
<1>2. w \in Vdp  BY <1>1 DEF Vdp
<1>3. /\ w.f = v.f /\ w.irq_vertical = v.irq_vertical
      /\ w.irq_horizontal = v.irq_horizontal /\ w.irq_level = v.irq_level
  BY <1>1 DEF Vdp
<1>4. \A s \in ModelledRegs : w.regs[s] = IF s = r THEN x ELSE v.regs[s]
  BY <1>1 DEF Vdp
<1>5. 0 \in ModelledRegs /\ 1 \in ModelledRegs  BY DEF ModelledRegs
<1>6. IE0(v) \in BOOLEAN /\ IE1(v) \in BOOLEAN /\ IE0(w) \in BOOLEAN /\ IE1(w) \in BOOLEAN
  BY BitBoolean DEF IE0, IE1
<1>7. CASE r = 0
  <2> DEFINE u == [w EXCEPT !.irq_horizontal = @ /\ IE1(w)]
  <2>1. IE0(w) = IE0(v)  BY <1>4, <1>5, <1>7 DEF IE0
  <2>2. AfterChangeRegister(v, r, x) = IF IE1(v) = IE1(w) THEN w ELSE UpdateIrq(u)
    BY <1>7 DEF AfterChangeRegister, AfterWriteR0
  <2>3. u \in Vdp /\ u.regs = w.regs /\ u.f = w.f /\ u.irq_vertical = w.irq_vertical
          /\ u.irq_horizontal = (w.irq_horizontal /\ IE1(w))
    BY <1>2, <1>6 DEF Vdp
  <2>4. IE0(u) = IE0(w) /\ IE1(u) = IE1(w)  BY <2>3 DEF IE0, IE1
  <2>5. CASE IE1(v) = IE1(w)  BY <2>5, <2>1, <2>2, <1>2, <1>3 DEF Exact, IrqActive
  <2>6. CASE IE1(v) # IE1(w)
    <3>1. AfterChangeRegister(v, r, x) = UpdateIrq(u)  BY <2>2, <2>6
    <3> HIDE DEF w, u
    <3>2. UpdateIrq(u) \in Vdp /\ UpdateIrq(u).regs = u.regs /\ UpdateIrq(u).f = u.f
            /\ UpdateIrq(u).irq_vertical = u.irq_vertical
            /\ UpdateIrq(u).irq_horizontal = u.irq_horizontal
            /\ UpdateIrq(u).irq_level = IrqActive(u)
      BY <2>3 DEF UpdateIrq, Vdp, IrqActive
    <3> QED BY <3>1, <3>2, <2>1, <2>3, <2>4, <1>3 DEF Exact, IrqActive, IE0, IE1
  <2> QED BY <2>5, <2>6
<1>8. CASE r = 1
  <2> DEFINE u == [w EXCEPT !.irq_vertical = IE0(w) /\ (@ \/ v.f)]
  <2>1. IE1(w) = IE1(v)  BY <1>4, <1>5, <1>8 DEF IE1
  <2>2. AfterChangeRegister(v, r, x) = IF IE0(v) = IE0(w) THEN w ELSE UpdateIrq(u)
    BY <1>8 DEF AfterChangeRegister, AfterWriteR1
  <2>3. u \in Vdp /\ u.regs = w.regs /\ u.f = w.f /\ u.irq_horizontal = w.irq_horizontal
          /\ u.irq_vertical = (IE0(w) /\ (w.irq_vertical \/ v.f))
    BY <1>1, <1>2, <1>6 DEF Vdp
  <2>4. IE0(u) = IE0(w) /\ IE1(u) = IE1(w)  BY <2>3 DEF IE0, IE1
  <2>5. CASE IE0(v) = IE0(w)  BY <2>5, <2>1, <2>2, <1>2, <1>3 DEF Exact, IrqActive
  <2>6. CASE IE0(v) # IE0(w)
    <3>1. AfterChangeRegister(v, r, x) = UpdateIrq(u)  BY <2>2, <2>6
    <3> HIDE DEF w, u
    <3>2. UpdateIrq(u) \in Vdp /\ UpdateIrq(u).regs = u.regs /\ UpdateIrq(u).f = u.f
            /\ UpdateIrq(u).irq_vertical = u.irq_vertical
            /\ UpdateIrq(u).irq_horizontal = u.irq_horizontal
            /\ UpdateIrq(u).irq_level = IrqActive(u)
      BY <2>3 DEF UpdateIrq, Vdp, IrqActive
    <3> QED BY <3>1, <3>2, <2>1, <2>3, <2>4, <2>6, <1>3, <1>6 DEF Exact, IrqActive, IE0, IE1
  <2> QED BY <2>5, <2>6
<1>9. CASE r # 0 /\ r # 1
  <2>1. AfterChangeRegister(v, r, x) = w  BY <1>9 DEF AfterChangeRegister
  <2>2. IE0(w) = IE0(v) /\ IE1(w) = IE1(v)  BY <1>4, <1>5, <1>9 DEF IE0, IE1
  <2> QED BY <2>1, <2>2, <1>2, <1>3 DEF Exact, IrqActive
<1> QED BY <1>7, <1>8, <1>9

\* What an operation that reads status or reports an event leaves: the
\* registers, and a level that is the sources.
LEMMA EventExact ==
  ASSUME NEW v, Exact(v)
  PROVE  /\ Exact(AfterReadStatus0(v)) /\ AfterReadStatus0(v).regs = v.regs
         /\ AfterReadStatus0(v).irq_horizontal => v.irq_horizontal
         /\ Exact(AfterReadStatus1(v)) /\ AfterReadStatus1(v).regs = v.regs
         /\ AfterReadStatus1(v).irq_horizontal => v.irq_horizontal
         /\ Exact(AfterVsync(v)) /\ AfterVsync(v).regs = v.regs
         /\ AfterVsync(v).irq_horizontal = v.irq_horizontal
         /\ Exact(AfterLineMatch(v)) /\ AfterLineMatch(v).regs = v.regs
         /\ AfterLineMatch(v).irq_horizontal = (v.irq_horizontal \/ IE1(v))
<1>1. v \in Vdp  BY DEF Exact
<1>2. IE0(v) \in BOOLEAN /\ IE1(v) \in BOOLEAN  BY BitBoolean DEF IE0, IE1
<1>3. ASSUME NEW u \in Vdp, u.regs = v.regs,
             u.irq_vertical <=> u.f /\ IE0(v), u.irq_horizontal => IE1(v)
      PROVE  Exact(UpdateIrq(u)) /\ UpdateIrq(u).regs = v.regs
               /\ UpdateIrq(u).irq_horizontal = u.irq_horizontal
  <2>1. UpdateIrq(u) \in Vdp /\ UpdateIrq(u).regs = u.regs /\ UpdateIrq(u).f = u.f
          /\ UpdateIrq(u).irq_vertical = u.irq_vertical
          /\ UpdateIrq(u).irq_horizontal = u.irq_horizontal
          /\ UpdateIrq(u).irq_level = IrqActive(u)
    BY DEF UpdateIrq, Vdp, IrqActive
  <2> QED BY <1>3, <2>1 DEF Exact, IrqActive, IE0, IE1
<1>4. Exact(AfterReadStatus0(v)) /\ AfterReadStatus0(v).regs = v.regs
        /\ (AfterReadStatus0(v).irq_horizontal => v.irq_horizontal)
  <2> DEFINE u == [v EXCEPT !.f = FALSE, !.irq_vertical = FALSE]
  <2>1. u \in Vdp /\ u.regs = v.regs /\ ~u.f /\ ~u.irq_vertical
          /\ u.irq_horizontal = v.irq_horizontal
    BY <1>1 DEF Vdp
  <2> HIDE DEF u
  <2>2. Exact(UpdateIrq(u)) /\ UpdateIrq(u).regs = v.regs
          /\ UpdateIrq(u).irq_horizontal = u.irq_horizontal
    BY <1>3, <2>1 DEF Exact
  <2> QED BY <2>1, <2>2 DEF AfterReadStatus0, u
<1>5. Exact(AfterReadStatus1(v)) /\ AfterReadStatus1(v).regs = v.regs
        /\ (AfterReadStatus1(v).irq_horizontal => v.irq_horizontal)
  <2> DEFINE u == [v EXCEPT !.irq_horizontal = FALSE]
  <2>1. u \in Vdp /\ u.regs = v.regs /\ u.f = v.f /\ u.irq_vertical = v.irq_vertical
          /\ ~u.irq_horizontal
    BY <1>1 DEF Vdp
  <2> HIDE DEF u
  <2>2. Exact(UpdateIrq(u)) /\ UpdateIrq(u).regs = v.regs
          /\ UpdateIrq(u).irq_horizontal = u.irq_horizontal
    BY <1>3, <2>1 DEF Exact
  <2> QED BY <2>1, <2>2 DEF AfterReadStatus1, u
<1>6. Exact(AfterVsync(v)) /\ AfterVsync(v).regs = v.regs
        /\ AfterVsync(v).irq_horizontal = v.irq_horizontal
  <2> DEFINE u == [v EXCEPT !.f = TRUE, !.irq_vertical = @ \/ IE0(v)]
  <2>1. u \in Vdp /\ u.regs = v.regs /\ u.f /\ u.irq_horizontal = v.irq_horizontal
          /\ u.irq_vertical = (v.irq_vertical \/ IE0(v))
    BY <1>1, <1>2 DEF Vdp
  <2> HIDE DEF u
  <2>2. Exact(UpdateIrq(u)) /\ UpdateIrq(u).regs = v.regs
          /\ UpdateIrq(u).irq_horizontal = u.irq_horizontal
    BY <1>3, <2>1 DEF Exact
  <2> QED BY <2>1, <2>2 DEF AfterVsync, u
<1>7. /\ Exact(AfterLineMatch(v)) /\ AfterLineMatch(v).regs = v.regs
      /\ AfterLineMatch(v).irq_horizontal = (v.irq_horizontal \/ IE1(v))
  <2> DEFINE u == [v EXCEPT !.irq_horizontal = @ \/ IE1(v)]
  <2>1. u \in Vdp /\ u.regs = v.regs /\ u.f = v.f /\ u.irq_vertical = v.irq_vertical
          /\ u.irq_horizontal = (v.irq_horizontal \/ IE1(v))
    BY <1>1, <1>2 DEF Vdp
  <2> HIDE DEF u
  <2>2. Exact(UpdateIrq(u)) /\ UpdateIrq(u).regs = v.regs
          /\ UpdateIrq(u).irq_horizontal = u.irq_horizontal
    BY <1>3, <2>1 DEF Exact
  <2> QED BY <2>1, <2>2 DEF AfterLineMatch, u
<1> QED BY <1>4, <1>5, <1>6, <1>7

\* What acceptance, idling and an instruction do to the request.
LEMMA CpuType ==
  ASSUME NEW c \in Cpu
  PROVE  /\ AfterAccept(c) \in Cpu /\ ~AfterAccept(c).pending
         /\ AfterIdle(c) \in Cpu /\ AfterIdle(c).pending = c.pending
         /\ \A op : AfterExecute(c, op) \in Cpu /\ AfterExecute(c, op).pending = c.pending
<1>1. ASSUME NEW n \in Cpu, n.pending = c.pending
      PROVE  AfterDelay(c, n) \in Cpu /\ AfterDelay(c, n).pending = c.pending
  BY <1>1 DEF AfterDelay, Cpu
<1>2. AfterAccept(c) \in Cpu /\ ~AfterAccept(c).pending  BY DEF AfterAccept, Cpu
<1>3. ASSUME NEW op
      PROVE  AfterExecute(c, op) \in Cpu /\ AfterExecute(c, op).pending = c.pending
  <2> DEFINE n == CASE op = "EI"   -> [c EXCEPT !.iff1 = TRUE, !.iff2 = TRUE, !.ei_delay = TRUE]
                    [] op = "DI"   -> [c EXCEPT !.iff1 = FALSE, !.iff2 = FALSE]
                    [] op = "HALT" -> [c EXCEPT !.halted = TRUE]
                    [] op = "RETN" -> [c EXCEPT !.iff1 = c.iff2]
                    [] OTHER       -> c
  <2>1. n \in Cpu /\ n.pending = c.pending  BY DEF Cpu
  <2> HIDE DEF n
  <2>2. AfterDelay(c, n) \in Cpu /\ AfterDelay(c, n).pending = c.pending  BY <1>1, <2>1
  <2> QED BY <2>2 DEF AfterExecute, n
<1> QED BY <1>1, <1>2, <1>3 DEF AfterIdle

\* A CPU backed by the line before a call is backed by it after the call,
\* once the change of level has been forwarded.
LEMMA ForwardBacked ==
  ASSUME NEW c \in Cpu, NEW v, NEW w, Exact(w), c.pending => v.irq_level
  PROVE  Backed(Forward(c, v, w), w)
<1>1. w.irq_level \in BOOLEAN  BY DEF Exact, Vdp
<1>2. CASE w.irq_level = v.irq_level  BY <1>2 DEF Forward, Backed
<1>3. CASE w.irq_level # v.irq_level
  <2>1. Forward(c, v, w) = [c EXCEPT !.pending = w.irq_level]  BY <1>3 DEF Forward
  <2>2. [c EXCEPT !.pending = w.irq_level] \in Cpu
          /\ [c EXCEPT !.pending = w.irq_level].pending = w.irq_level
    BY <1>1 DEF Cpu
  <2> QED BY <2>1, <2>2 DEF Backed
<1> QED BY <1>2, <1>3

\* A request sampled from the line is backed by it.
LEMMA SampledBacked ==
  ASSUME Exact(vdp), Backed(cpu, vdp)  PROVE Backed(Sampled, vdp)
  BY DEF Sampled, Exact, Backed, Cpu, IrqActive

-----------------------------------------------------------------------------
(***************************************************************************)
(* The line interrupt cache.                                               *)
(***************************************************************************)
\* The match moment as it is seen from a poll at s: this frame's if it is
\* still ahead, else the one a whole frame later.
MatchSeenFrom(v, s) ==
  IF MatchLine(v) >= ActiveLines(LN212(v)) THEN Never
  ELSE IF s < LineStart(MatchLine(v), LN212(v)) THEN LineStart(MatchLine(v), LN212(v))
       ELSE FrameCycles + LineStart(MatchLine(v), LN212(v))

\* The match line is below 256 and its start, when it is displayed, is at
\* least one line after the sync and before the next one.
LEMMA LineBounds ==
  ASSUME NEW v \in Vdp
  PROVE  /\ MatchLine(v) \in 0 .. 255
         /\ FrameCycles \in Nat /\ FrameCycles > 0 /\ CyclesPerLine <= FrameCycles
         /\ LineStart(MatchLine(v), LN212(v)) \in Nat
         /\ LineStart(MatchLine(v), LN212(v)) >= CyclesPerLine
         /\ MatchLine(v) < ActiveLines(LN212(v)) =>
              LineStart(MatchLine(v), LN212(v)) < FrameCycles
<1> DEFINE m == MatchLine(v)
           b == BorderLines(LN212(v))
<1>1. m \in 0 .. 255
  <2>1. v.regs[19] \in Byte /\ v.regs[23] \in Byte  BY DEF Vdp, ModelledRegs
  <2>2. v.regs[19] \in Int /\ v.regs[23] \in Int  BY <2>1 DEF Byte
  <2>3. \A x \in Int : x % 256 \in 0 .. 255  OBVIOUS
  <2>4. \A x, y \in Int : x - y \in Int  OBVIOUS
  <2>5. v.regs[19] - v.regs[23] \in Int  BY <2>2, <2>4
  <2> QED BY <2>5, <2>3 DEF MatchLine
<1>2. b \in 1 .. LinesPerFrame - 1 /\ ActiveLines(LN212(v)) = LinesPerFrame - b
  BY RasterAssumption DEF BorderLines, ActiveLines
<1>3. LineStart(m, LN212(v)) = (b + m) * CyclesPerLine  BY DEF LineStart
<1> HIDE DEF m, b
<1>4. \A x \in Nat \ {0} : x * CyclesPerLine \in Nat /\ x * CyclesPerLine >= CyclesPerLine
  BY RasterAssumption, SMT
<1>5. b + m \in Nat \ {0}  BY <1>1, <1>2, RasterAssumption
<1>6. FrameCycles = LinesPerFrame * CyclesPerLine /\ LinesPerFrame \in Nat \ {0}
  BY <1>2, RasterAssumption DEF FrameCycles
<1>7. FrameCycles \in Nat /\ CyclesPerLine <= FrameCycles  BY <1>4, <1>6
<1>8. ASSUME m < LinesPerFrame - b  PROVE (b + m) * CyclesPerLine < FrameCycles
  <2>1. LinesPerFrame - (b + m) \in Nat \ {0}  BY <1>1, <1>2, <1>8, RasterAssumption
  <2>2. (LinesPerFrame - (b + m)) * CyclesPerLine >= CyclesPerLine  BY <1>4, <2>1
  <2>3. (LinesPerFrame - (b + m)) * CyclesPerLine
          = LinesPerFrame * CyclesPerLine - (b + m) * CyclesPerLine
    BY <1>1, <1>2, RasterAssumption, SMT
  <2>4. (b + m) * CyclesPerLine \in Nat  BY <1>4, <1>5
  <2> QED BY <1>6, <1>7, <2>2, <2>3, <2>4, RasterAssumption
<1> QED BY <1>1, <1>2, <1>3, <1>4, <1>5, <1>7, <1>8, RasterAssumption DEF m

\* NextMatch, for every time a poll can come.
LEMMA NextMatchValue ==
  ASSUME NEW v \in Vdp, NEW t \in Nat, t < FrameCycles + CyclesPerLine
  PROVE  NextMatch(v, t) = MatchSeenFrom(v, t)
<1> DEFINE s == LineStart(MatchLine(v), LN212(v))
<1>1. s \in Nat /\ s >= CyclesPerLine /\ FrameCycles \in Nat /\ FrameCycles > 0
        /\ CyclesPerLine <= FrameCycles
  BY LineBounds
<1>2. CASE MatchLine(v) >= ActiveLines(LN212(v))  BY <1>2 DEF NextMatch, MatchSeenFrom
<1>3. CASE ~(MatchLine(v) >= ActiveLines(LN212(v)))
  <2>1. s < FrameCycles
    <3>1. MatchLine(v) < ActiveLines(LN212(v))
      BY <1>3, LineBounds, RasterAssumption DEF ActiveLines, BorderLines
    <3> QED BY <3>1, LineBounds
  <2> DEFINE w == t \div FrameCycles
  <2>2. NextMatch(v, t) = IF w * FrameCycles + s <= t THEN (w * FrameCycles + s) + FrameCycles
                          ELSE w * FrameCycles + s
    BY <1>3 DEF NextMatch
  <2>3. MatchSeenFrom(v, t) = IF t < s THEN s ELSE FrameCycles + s
    BY <1>3 DEF MatchSeenFrom
  <2>4. CyclesPerLine \in Nat  BY RasterAssumption
  <2> HIDE DEF s
  <2>5. CASE t < FrameCycles
    <3>1. w = 0  BY <1>1, <2>5, SMT
    <3>2. w * FrameCycles = 0  BY <3>1, <1>1
    <3> HIDE DEF w
    <3> QED BY <1>1, <2>2, <2>3, <3>2
  <2>6. CASE t >= FrameCycles
    <3>1. w = 1
      <4>1. t < 2 * FrameCycles  BY <1>1, <2>4
      <4> QED BY <1>1, <2>6, <4>1, SMT
    <3>2. w * FrameCycles = FrameCycles  BY <3>1, <1>1
    <3> HIDE DEF w
    <3> QED BY <1>1, <2>1, <2>2, <2>3, <2>4, <2>6, <3>2
  <2> QED BY <1>1, <2>5, <2>6
<1> QED BY <1>2, <1>3

\* A match since the last poll is the match of this frame.
LEMMA MatchSinceValue ==
  ASSUME NEW v \in Vdp, NEW t \in Nat, t < FrameCycles + CyclesPerLine, polled \in Nat
  PROVE  MatchSince(v, t) <=> /\ MatchLine(v) < ActiveLines(LN212(v))
                              /\ polled < LineStart(MatchLine(v), LN212(v))
                              /\ LineStart(MatchLine(v), LN212(v)) <= t
<1> DEFINE s == LineStart(MatchLine(v), LN212(v))
           shown == MatchLine(v) < ActiveLines(LN212(v))
<1>1. s \in Nat /\ s >= CyclesPerLine /\ FrameCycles \in Nat /\ CyclesPerLine \in Nat
  BY LineBounds, RasterAssumption
<1>2. \A m \in Matches(v) : shown /\ \E k \in 0 .. 1 : m = k * FrameCycles + s
  BY DEF Matches
<1>3. ASSUME shown, s <= FrameCycles + CyclesPerLine  PROVE s \in Matches(v)
  <2>1. s = 0 * FrameCycles + s  BY <1>1
  <2>2. s \in 0 .. FrameCycles + CyclesPerLine  BY <1>1, <1>3
  <2> QED BY <1>3, <2>1, <2>2 DEF Matches
<1> HIDE DEF s, shown
<1>4. ASSUME MatchSince(v, t)  PROVE shown /\ polled < s /\ s <= t
  <2>1. PICK m \in Matches(v) : polled < m /\ m <= t  BY <1>4 DEF MatchSince
  <2>2. shown  BY <1>2, <2>1
  <2>3. PICK k \in 0 .. 1 : m = k * FrameCycles + s  BY <1>2, <2>1
  <2>4. k = 0
    <3>1. CASE k = 1
      <4>1. m = FrameCycles + s  BY <1>1, <2>3, <3>1
      <4> QED BY <1>1, <2>1, <4>1
    <3> QED BY <3>1
  <2>5. m = s  BY <1>1, <2>3, <2>4
  <2> QED BY <2>1, <2>2, <2>5
<1>5. ASSUME shown, polled < s, s <= t  PROVE MatchSince(v, t)
  <2>1. s \in Matches(v)  BY <1>1, <1>3, <1>5
  <2> QED BY <1>5, <2>1 DEF MatchSince
<1> QED BY <1>4, <1>5 DEF s, shown

\* While nobody rebuilt it, the cache is the match seen from the last poll.
CacheExact ==
  line_int.current =>
    /\ line_int.fingerprint = Fingerprint(vdp)
    /\ line_int.next = MatchSeenFrom(vdp, polled)

IInv ==
  /\ TypeOK
  /\ Exact(vdp)
  /\ Backed(cpu, vdp)
  /\ polled <= now /\ now < FrameCycles + CyclesPerLine
  /\ CacheExact

\* Two VDPs with the same inputs have the same match.
LEMMA SameMatch ==
  ASSUME NEW v, NEW w, Fingerprint(v) = Fingerprint(w)
  PROVE  /\ MatchLine(v) = MatchLine(w) /\ LN212(v) = LN212(w)
         /\ \A s : MatchSeenFrom(v, s) = MatchSeenFrom(w, s)
<1>1. v.regs[19] = w.regs[19] /\ v.regs[23] = w.regs[23] /\ v.regs[9] = w.regs[9]
  BY DEF Fingerprint
<1>2. MatchLine(v) = MatchLine(w) /\ LN212(v) = LN212(w)  BY <1>1 DEF MatchLine, LN212
<1> QED BY <1>2 DEF MatchSeenFrom

\* The fingerprint is three bytes.
LEMMA FingerprintType == \A v \in Vdp : Fingerprint(v) \in Byte \X Byte \X Byte
  BY DEF Fingerprint, Vdp, ModelledRegs

\* What the poll at t finds, when the CPU's part of the step leaves VDP v.
LEMMA PollExact ==
  ASSUME IInv, NEW v \in Vdp, NEW t \in Nat, now <= t, t < FrameCycles + CyclesPerLine
  PROVE  /\ Consulted(v, t) \in LineInt /\ Scheduled(v, t) \in LineInt
         /\ Scheduled(v, t).current /\ Scheduled(v, t).fingerprint = Fingerprint(v)
         /\ Scheduled(v, t).next = MatchSeenFrom(v, t)
         /\ Consulted(v, t).current /\ Consulted(v, t).fingerprint = Fingerprint(v)
         /\ Due(Consulted(v, t), t) => MatchSince(v, t)
         /\ ~Due(Consulted(v, t), t) => Consulted(v, t).next = MatchSeenFrom(v, t)
         /\ (line_int.current /\ line_int.fingerprint = Fingerprint(v) /\ MatchSince(v, t))
              => Due(Consulted(v, t), t)
<1> DEFINE s == LineStart(MatchLine(v), LN212(v))
           shown == MatchLine(v) < ActiveLines(LN212(v))
<1>1. /\ s \in Nat /\ s >= CyclesPerLine /\ FrameCycles \in Nat /\ CyclesPerLine \in Nat
      /\ shown => s < FrameCycles
  BY LineBounds, RasterAssumption
<1>2. polled \in Nat /\ polled <= t /\ now \in Nat  BY DEF IInv, TypeOK
<1>3. (~shown) <=> (MatchLine(v) >= ActiveLines(LN212(v)))
  BY LineBounds, RasterAssumption DEF ActiveLines, BorderLines
<1>4. \A p \in Nat : MatchSeenFrom(v, p) = IF ~shown THEN Never
                                         ELSE IF p < s THEN s ELSE FrameCycles + s
  BY <1>3 DEF MatchSeenFrom
<1>5. MatchSince(v, t) <=> shown /\ polled < s /\ s <= t  BY <1>2, MatchSinceValue
<1>6. Scheduled(v, t) = [current |-> TRUE, fingerprint |-> Fingerprint(v),
                         next |-> MatchSeenFrom(v, t)]
  BY NextMatchValue DEF Scheduled
<1> HIDE DEF s, shown
<1>7. MatchSeenFrom(v, t) \in Int /\ MatchSeenFrom(v, polled) \in Int
  BY <1>1, <1>2, <1>4 DEF Never
<1>8. Scheduled(v, t) \in LineInt  BY <1>6, <1>7, FingerprintType DEF LineInt
<1>9. CASE line_int.current /\ line_int.fingerprint = Fingerprint(v)
  <2>1. Consulted(v, t) = line_int /\ line_int \in LineInt
    BY <1>9 DEF Consulted, IInv, TypeOK
  <2>2. line_int.next = MatchSeenFrom(v, polled)
    <3>1. Fingerprint(vdp) = Fingerprint(v)  BY <1>9 DEF IInv, CacheExact
    <3> QED BY <1>9, <3>1, SameMatch DEF IInv, CacheExact
  <2>3. Due(line_int, t) <=> shown /\ polled < s /\ s <= t
    BY <1>1, <1>2, <1>4, <2>2 DEF Due, Never
  <2>4. ~Due(line_int, t) => line_int.next = MatchSeenFrom(v, t)
    BY <1>1, <1>2, <1>4, <2>2, <2>3
  <2> QED BY <1>5, <1>6, <1>8, <1>9, <2>1, <2>3, <2>4
<1>10. CASE ~(line_int.current /\ line_int.fingerprint = Fingerprint(v))
  <2>1. Consulted(v, t) = Scheduled(v, t)  BY <1>10 DEF Consulted
  <2>2. ~Due(Scheduled(v, t), t)
    BY <1>1, <1>4, <1>6 DEF Due, Never
  <2> QED BY <1>6, <1>8, <1>10, <2>1, <2>2
<1> QED BY <1>9, <1>10

-----------------------------------------------------------------------------
(***************************************************************************)
(* The end of a step: the clock, the poll, the forwarded level.            *)
(***************************************************************************)
\* What both properties of the line interrupt say of one step.
LineStepOK ==
  /\ ~vdp.irq_horizontal /\ vdp'.irq_horizontal => MatchSince(vdp', now')
  /\ (line_int.current /\ line_int.fingerprint = Fingerprint(vdp')
        /\ MatchSince(vdp', now') /\ IE1(vdp')) => vdp'.irq_horizontal

\* The end of an instruction: time, the poll and the vertical sync.
LEMMA RetireKeeps ==
  ASSUME IInv, now < FrameCycles, NEW v, Exact(v), v.irq_horizontal => vdp.irq_horizontal,
         NEW c, Backed(c, v), NEW d \in StepCycles, Retire(v, c, d)
  PROVE  IInv' /\ LineStepOK
<1> DEFINE t == now + d
           l == Consulted(v, t)
           w == IF Due(l, t) THEN AfterLineMatch(v) ELSE v
<1>1. /\ now' = t /\ vdp' = w /\ cpu' = Forward(c, v, w)
      /\ line_int' = IF Due(l, t) THEN Scheduled(v, t) ELSE l
      /\ polled' = t /\ pause' = pause
  BY DEF Retire
<1>2. now \in Nat /\ d \in Nat /\ d <= CyclesPerLine /\ v \in Vdp
        /\ CyclesPerLine \in Nat /\ FrameCycles \in Nat
  BY MachineAssumption, RasterAssumption, LineBounds DEF IInv, TypeOK, Exact
<1>3. t \in Nat /\ now <= t /\ t < FrameCycles + CyclesPerLine  BY <1>2
<1> HIDE DEF t
<1>4. /\ l \in LineInt /\ Scheduled(v, t) \in LineInt
      /\ Scheduled(v, t).current /\ Scheduled(v, t).fingerprint = Fingerprint(v)
      /\ Scheduled(v, t).next = MatchSeenFrom(v, t)
      /\ l.current /\ l.fingerprint = Fingerprint(v)
      /\ Due(l, t) => MatchSince(v, t)
      /\ ~Due(l, t) => l.next = MatchSeenFrom(v, t)
      /\ (line_int.current /\ line_int.fingerprint = Fingerprint(v) /\ MatchSince(v, t))
           => Due(l, t)
  BY <1>2, <1>3, PollExact
<1> HIDE DEF l
<1>5. /\ Exact(w) /\ w.regs = v.regs
      /\ w.irq_horizontal <=> v.irq_horizontal \/ (Due(l, t) /\ IE1(v))
  <2>1. CASE Due(l, t)
    <3>1. w = AfterLineMatch(v)  BY <2>1
    <3> HIDE DEF w
    <3> QED BY <2>1, <3>1, EventExact
  <2>2. CASE ~Due(l, t)
    <3>1. w = v  BY <2>2
    <3> HIDE DEF w
    <3> QED BY <2>2, <3>1
  <2> QED BY <2>1, <2>2
<1> HIDE DEF w
<1>6. Fingerprint(w) = Fingerprint(v) /\ IE1(w) = IE1(v) /\ w \in Vdp
  BY <1>5 DEF Fingerprint, IE1, Exact
<1>7. MatchLine(w) = MatchLine(v) /\ LN212(w) = LN212(v)
        /\ MatchSeenFrom(w, t) = MatchSeenFrom(v, t)
  BY <1>6, SameMatch
<1>8. MatchSince(w, t) <=> MatchSince(v, t)
  BY <1>7 DEF MatchSince, Matches
<1>9. Backed(cpu', vdp')
  <2>1. Backed(Forward(c, v, w), w)  BY <1>5, ForwardBacked DEF Backed
  <2> QED BY <1>1, <2>1
<1>10. TypeOK'
  <2>1. vdp' \in Vdp /\ cpu' \in Cpu  BY <1>1, <1>6, <1>9 DEF Backed
  <2>2. line_int' \in LineInt  BY <1>1, <1>4
  <2> QED BY <1>1, <1>3, <2>1, <2>2 DEF TypeOK, IInv
<1>11. CacheExact'
  <2>1. /\ line_int'.current /\ line_int'.fingerprint = Fingerprint(v)
        /\ line_int'.next = MatchSeenFrom(v, t)
    BY <1>1, <1>4
  <2>2. line_int'.fingerprint = Fingerprint(vdp') /\ line_int'.next = MatchSeenFrom(vdp', polled')
    BY <1>1, <1>6, <1>7, <2>1
  <2>3. Fingerprint(vdp)' = Fingerprint(vdp')  BY DEF Fingerprint
  <2>4. MatchSeenFrom(vdp, polled)' = MatchSeenFrom(vdp', polled')
    BY DEF MatchSeenFrom, MatchLine, LN212, Bit
  <2> QED BY <2>2, <2>3, <2>4 DEF CacheExact
<1>12. Exact(vdp)' /\ Backed(cpu, vdp)'
  BY <1>1, <1>5, <1>9 DEF Exact, Backed, IrqActive, IE0, IE1, Bit
<1>13. LineStepOK  BY <1>1, <1>4, <1>5, <1>6, <1>8 DEF LineStepOK
<1> QED BY <1>1, <1>3, <1>10, <1>11, <1>12, <1>13 DEF IInv

-----------------------------------------------------------------------------
\* The machine starts with an exact cache and a low line.
LEMMA InitIInv == Init => IInv
<1> SUFFICES ASSUME Init PROVE IInv  OBVIOUS
<1>1. FrameCycles \in Nat /\ CyclesPerLine \in Nat \ {0}
  BY ResetExact, LineBounds, RasterAssumption DEF Exact
<1>2. cpu \in Cpu /\ ~cpu.pending  BY DEF Init, ResetCpu, Cpu
<1>3. line_int \in LineInt /\ ~line_int.current
  BY DEF Init, NoLineInt, LineInt, Never, Byte
<1>4. pause \in Pause
  BY MachineAssumption DEF Init, ResetPause, Pause
<1>5. TypeOK  BY <1>2, <1>3, <1>4, ResetExact DEF Init, TypeOK, Exact
<1> QED BY <1>1, <1>2, <1>3, <1>5, ResetExact DEF Init, IInv, Backed, CacheExact

\* An instruction with any access keeps the invariant.
LEMMA CpuStepKeeps ==
  ASSUME IInv, CpuStep  PROVE IInv' /\ LineStepOK
<1>1. Exact(vdp) /\ Backed(Sampled, vdp)  BY SampledBacked DEF IInv
<1>2. Sampled \in Cpu /\ (Sampled.pending => vdp.irq_level)  BY <1>1 DEF Backed
<1>3. CASE AcceptInterrupt
  <2>1. Backed(AfterAccept(Sampled), vdp)  BY <1>2, CpuType DEF Backed
  <2> QED BY <1>1, <1>3, <2>1, RetireKeeps DEF AcceptInterrupt, Running
<1>4. CASE IdleInHalt
  <2>1. Backed(AfterIdle(Sampled), vdp)  BY <1>2, CpuType DEF Backed
  <2> QED BY <1>1, <1>4, <2>1, RetireKeeps DEF IdleInHalt, Running
<1>5. CASE \E op \in Ops : Execute(op)
  <2>1. PICK op \in Ops : Execute(op)  BY <1>5
  <2> DEFINE v == CASE op = "ReadStatus0" -> AfterReadStatus0(vdp)
                    [] op = "ReadStatus1" -> AfterReadStatus1(vdp)
                    [] OTHER              -> vdp
  <2>2. Exact(v) /\ (v.irq_horizontal => vdp.irq_horizontal)
    <3>1. CASE op = "ReadStatus0"  BY <1>1, <3>1, EventExact
    <3>2. CASE op = "ReadStatus1"  BY <1>1, <3>2, EventExact
    <3>3. CASE op # "ReadStatus0" /\ op # "ReadStatus1"  BY <1>1, <3>3
    <3> QED BY <3>1, <3>2, <3>3
  <2>3. PICK d \in StepCycles :
          now < FrameCycles /\ Retire(v, Forward(AfterExecute(Sampled, op), vdp, v), d)
    BY <2>1 DEF Execute, Running
  <2> HIDE DEF v
  <2>4. Backed(Forward(AfterExecute(Sampled, op), vdp, v), v)
    BY <1>2, <2>2, CpuType, ForwardBacked
  <2> QED BY <2>2, <2>3, <2>4, RetireKeeps
<1>6. CASE WriteRegister
  <2>1. PICK rx \in RegWrites, d \in StepCycles :
          LET v == AfterChangeRegister(vdp, rx[1], rx[2])
          IN  now < FrameCycles
                /\ Retire(v, Forward(AfterExecute(Sampled, "Other"), vdp, v), d)
    BY <1>6 DEF WriteRegister, Running
  <2> DEFINE v == AfterChangeRegister(vdp, rx[1], rx[2])
  <2>2. rx[1] \in ModelledRegs /\ rx[2] \in Byte  BY MachineAssumption
  <2>3. Exact(v) /\ (v.irq_horizontal => vdp.irq_horizontal)  BY <1>1, <2>2, WriteExact
  <2>4. now < FrameCycles /\ Retire(v, Forward(AfterExecute(Sampled, "Other"), vdp, v), d)
    BY <2>1
  <2> HIDE DEF v
  <2>5. Backed(Forward(AfterExecute(Sampled, "Other"), vdp, v), v)
    BY <1>2, <2>3, CpuType, ForwardBacked
  <2> QED BY <2>3, <2>4, <2>5, RetireKeeps
<1> QED BY <1>3, <1>4, <1>5, <1>6 DEF CpuStep

\* Pausing, speed, frames and resets keep it and raise nothing.
LEMMA QuietStepKeeps ==
  ASSUME IInv, IdlePaused \/ VsyncBoundary \/ PressPause \/ SetSpeedLevel \/ ResetMachine
  PROVE  IInv' /\ ~(~vdp.irq_horizontal /\ vdp'.irq_horizontal)
<1>1. /\ FrameCycles \in Nat /\ FrameCycles > 0 /\ CyclesPerLine \in Nat \ {0}
      /\ PausedCycles \in Nat /\ PausedCycles <= CyclesPerLine
  BY ResetExact, LineBounds, RasterAssumption, MachineAssumption DEF Exact
<1>2. /\ now \in Nat /\ polled \in Nat /\ vdp \in Vdp /\ cpu \in Cpu
      /\ line_int \in LineInt /\ pause \in Pause
      /\ Exact(vdp) /\ Backed(cpu, vdp) /\ CacheExact
      /\ polled <= now /\ now < FrameCycles + CyclesPerLine
  BY DEF IInv, TypeOK
<1>3. CASE IdlePaused
  <2>1. now' = now + PausedCycles /\ now < FrameCycles
          /\ UNCHANGED <<vdp, cpu, line_int, pause, polled>>
    BY <1>3 DEF IdlePaused
  <2>2. now' \in Nat /\ polled' <= now' /\ now' < FrameCycles + CyclesPerLine
    BY <1>1, <1>2, <2>1
  <2>3. TypeOK'  BY <1>2, <2>1, <2>2 DEF TypeOK
  <2>4. Exact(vdp)' /\ Backed(cpu, vdp)' /\ CacheExact'
    BY <1>2, <2>1 DEF Exact, Backed, CacheExact, IrqActive, IE0, IE1, Bit, Fingerprint,
                      MatchSeenFrom, MatchLine, LN212
  <2> QED BY <2>1, <2>2, <2>3, <2>4 DEF IInv
<1>4. CASE VsyncBoundary
  <2>1. /\ now' = 0 /\ polled' = 0 /\ vdp' = AfterVsync(vdp)
        /\ cpu' = Forward(cpu, vdp, vdp') /\ pause' = PauseOnVsync(pause)
        /\ line_int' = [line_int EXCEPT !.current = FALSE]
    BY <1>4 DEF VsyncBoundary
  <2>2. Exact(vdp') /\ vdp'.irq_horizontal = vdp.irq_horizontal  BY <1>2, <2>1, EventExact
  <2>3. Backed(cpu', vdp')  BY <1>2, <2>1, <2>2, ForwardBacked DEF Backed
  <2>4. line_int' \in LineInt /\ ~line_int'.current  BY <1>2, <2>1 DEF LineInt
  <2>5. pause' \in Pause
    <3>1. (pause.frame_index < pause.speed_level) \in BOOLEAN  OBVIOUS
    <3>2. pause.frame_index \in Nat /\ PeriodFrames \in Nat \ {0}
      BY <1>2, MachineAssumption DEF Pause
    <3>3. (pause.frame_index + 1) % PeriodFrames \in 0 .. PeriodFrames - 1  BY <3>2
    <3> QED BY <1>2, <2>1, <3>1, <3>3 DEF PauseOnVsync, Pause
  <2>6. TypeOK'  BY <2>1, <2>2, <2>3, <2>4, <2>5 DEF TypeOK, Exact, Backed
  <2>7. Exact(vdp)' /\ Backed(cpu, vdp)'
    BY <2>2, <2>3 DEF Exact, Backed, IrqActive, IE0, IE1, Bit
  <2> QED BY <1>1, <2>1, <2>2, <2>4, <2>6, <2>7 DEF IInv, CacheExact
<1>5. CASE PressPause \/ SetSpeedLevel
  <2>1. UNCHANGED <<now, vdp, cpu, line_int, polled>>  BY <1>5 DEF PressPause, SetSpeedLevel
  <2>2. pause' \in Pause
    <3>1. CASE PressPause  BY <1>2, <3>1 DEF PressPause, Pause
    <3>2. CASE SetSpeedLevel
      <4>1. PICK n \in {-1, 0, PeriodFrames - 1, PeriodFrames} :
              pause' = [pause EXCEPT !.speed_level = ClampedLevel(n)]
        BY <3>2 DEF SetSpeedLevel
      <4>2. ClampedLevel(n) \in 0 .. PeriodFrames - 1
        BY MachineAssumption DEF ClampedLevel
      <4> QED BY <1>2, <4>1, <4>2 DEF Pause
    <3> QED BY <1>5, <3>1, <3>2
  <2>3. TypeOK'  BY <1>2, <2>1, <2>2 DEF TypeOK
  <2>4. Exact(vdp)' /\ Backed(cpu, vdp)' /\ CacheExact'
    BY <1>2, <2>1 DEF Exact, Backed, CacheExact, IrqActive, IE0, IE1, Bit, Fingerprint,
                      MatchSeenFrom, MatchLine, LN212
  <2> QED BY <1>2, <2>1, <2>3, <2>4 DEF IInv
<1>6. CASE ResetMachine
  <2>1. /\ now' = 0 /\ polled' = 0 /\ vdp' = ResetVdp /\ cpu' = ResetCpu
        /\ pause' = ResetPause
        /\ line_int' = [line_int EXCEPT !.current = FALSE, !.next = Never]
    BY <1>6 DEF ResetMachine
  <2>2. line_int' \in LineInt /\ ~line_int'.current
    <3>1. Never \in Int  BY DEF Never
    <3> QED BY <1>2, <2>1, <3>1 DEF LineInt
  <2>3. pause' \in Pause  BY <2>1, MachineAssumption DEF ResetPause, Pause
  <2>4. cpu' \in Cpu /\ ~cpu'.pending /\ ~vdp'.irq_horizontal
    BY <2>1 DEF ResetCpu, Cpu, ResetVdp
  <2>5. Exact(vdp)'
    BY <2>1, ResetExact DEF Exact, IrqActive, IE0, IE1, Bit
  <2>6. TypeOK'  BY <2>1, <2>2, <2>3, <2>4, ResetExact DEF TypeOK, Exact
  <2> QED BY <1>1, <2>1, <2>2, <2>4, <2>5, <2>6 DEF IInv, CacheExact, Backed
<1> QED BY <1>3, <1>4, <1>5, <1>6

\* So does nothing.
LEMMA StutterKeeps == ASSUME IInv, UNCHANGED vars PROVE IInv'
  BY DEF vars, IInv, TypeOK, Exact, Backed, CacheExact, IrqActive, IE0, IE1, Bit,
         Fingerprint, MatchSeenFrom, MatchLine, LN212

\* Every step keeps it.
LEMMA NextKeeps == IInv /\ [Next]_vars => IInv'
  BY CpuStepKeeps, QuietStepKeeps, StutterKeeps DEF Next, LoopStep

\* The invariant holds.
LEMMA Invariance == Spec => []IInv
<1>1. IInv /\ [Next]_vars => IInv'  BY NextKeeps
<1> QED BY <1>1, InitIInv, PTL DEF Spec

\* Every state of the frame loop has its type.
THEOREM TypeCorrect == Spec => []TypeOK
<1>1. IInv => TypeOK  BY DEF IInv
<1> QED BY <1>1, Invariance, PTL

\* The /INT line is exactly what the sources and their enables say.
THEOREM LineIsSources == Spec => []IrqLineExact
<1>1. IInv => IrqLineExact  BY DEF IInv, Exact, IrqLineExact
<1> QED BY <1>1, Invariance, PTL

\* No interrupt is pending in the CPU once its cause is gone.
THEOREM RequestsBacked == Spec => []NoStaleRequest
<1>1. IInv => NoStaleRequest  BY DEF IInv, Backed, NoStaleRequest
<1> QED BY <1>1, Invariance, PTL

\* The /INT line and the request in the CPU are right in every state.
THEOREM InterruptLineIsExact == Spec => []InterruptLineExact
BY LineIsSources, RequestsBacked, PTL DEF InterruptLineExact

\* A crossing of the match line that the program did not reprogram in the
\* same instruction is delivered.
THEOREM CrossingsDelivered == Spec => LineDelivered
<1> DEFINE A == (CpuStep /\ line_int.current /\ line_int.fingerprint = Fingerprint(vdp')
                   /\ MatchSince(vdp', now') /\ IE1(vdp')) => vdp'.irq_horizontal
<1>1. IInv /\ [Next]_vars => [A]_vars
  BY CpuStepKeeps DEF LineStepOK
<1> QED BY <1>1, Invariance, PTL DEF Spec, LineDelivered

\* The line interrupt is never raised but by a crossing since the last poll.
THEOREM RaisedByCrossing == Spec => RaisedByMatchOnly
<1> DEFINE A == (~vdp.irq_horizontal /\ vdp'.irq_horizontal) => MatchSince(vdp', now')
<1>1. IInv /\ Next => A
  BY CpuStepKeeps, QuietStepKeeps DEF LineStepOK, Next, LoopStep
<1>2. IInv /\ [Next]_vars => [A]_vars  BY <1>1
<1> QED BY <1>2, Invariance, PTL DEF Spec, RaisedByMatchOnly

\* The line interrupt comes for every crossing and for nothing else.
THEOREM LinesExact == Spec => LineInterruptExact
BY CrossingsDelivered, RaisedByCrossing DEF LineInterruptExact

-----------------------------------------------------------------------------
(***************************************************************************)
(* The memory map.  First the bits of a byte, which the fold of a block    *)
(* number goes through.                                                    *)
(***************************************************************************)
\* Every set of bits is that of a byte.
LEMMA BytesOfBits == ASSUME NEW S \in SUBSET (0 .. 7)  PROVE \E v \in Byte : Bits[v] = S
<1> DEFINE b(i) == IF i \in S THEN 1 ELSE 0
           v == b(0) + 2 * b(1) + 4 * b(2) + 8 * b(3) + 16 * b(4) + 32 * b(5) + 64 * b(6) + 128 * b(7)
<1>1. \A i \in 0 .. 7 : b(i) \in {0, 1}  OBVIOUS
<1>2. /\ v \in 0 .. 255
      /\ v % 2 = b(0) /\ (v \div 2) % 2 = b(1) /\ (v \div 4) % 2 = b(2) /\ (v \div 8) % 2 = b(3)
      /\ (v \div 16) % 2 = b(4) /\ (v \div 32) % 2 = b(5)
      /\ (v \div 64) % 2 = b(6) /\ (v \div 128) % 2 = b(7)
  <2> HIDE DEF b
  <2> QED BY <1>1
<1> HIDE DEF v
<1>3. \A i \in 0 .. 7 : (v \div Weight[i + 1]) % 2 = b(i)
  <2> HIDE DEF b
  <2> SUFFICES ASSUME NEW i \in 0 .. 7  PROVE (v \div Weight[i + 1]) % 2 = b(i)  OBVIOUS
  <2>1. v \div 1 = v  BY <1>2
  <2>2. /\ Weight[1] = 1 /\ Weight[2] = 2 /\ Weight[3] = 4 /\ Weight[4] = 8
        /\ Weight[5] = 16 /\ Weight[6] = 32 /\ Weight[7] = 64 /\ Weight[8] = 128
    BY DEF Weight
  <2>3. i = 0 \/ i = 1 \/ i = 2 \/ i = 3 \/ i = 4 \/ i = 5 \/ i = 6 \/ i = 7  OBVIOUS
  <2> QED BY <1>2, <2>1, <2>2, <2>3
<1>4. Bits[v] = {i \in 0 .. 7 : (v \div Weight[i + 1]) % 2 = 1}  BY <1>2 DEF Bits, Byte
<1>5. \A i \in 0 .. 7 : b(i) = 1 <=> i \in S  OBVIOUS
<1>6. Bits[v] = S
  <2> HIDE DEF b
  <2> QED BY <1>3, <1>4, <1>5
<1> QED BY <1>2, <1>6 DEF Byte

\* The bits two bytes share make up a byte, and likewise for words.
LEMMA AndIsByte == ASSUME NEW a \in Byte, NEW b  PROVE And(a, b) \in Byte
<1>1. Bits[a] \cap Bits[b] \in SUBSET (0 .. 7)  BY DEF Bits
<1>2. PICK S \in SUBSET (0 .. 7) : And(a, b) = CHOOSE v \in Byte : Bits[v] = S
  BY <1>1 DEF And, ByteOf
<1> QED BY <1>2, BytesOfBits

\* The bits two words share make up a number (the fold of a block number).
LEMMA AndWordIsNat == ASSUME NEW a \in Word, NEW b  PROVE AndWord(a, b) \in Nat
<1>1. a \div 256 \in Byte /\ a % 256 \in Byte  BY DEF Byte, Word
<1>2. And(a \div 256, b \div 256) \in Byte /\ And(a % 256, b % 256) \in Byte  BY <1>1, AndIsByte
<1>3. \A x, y \in Byte : 256 * x + y \in Nat  BY DEF Byte
<1> QED BY <1>2, <1>3 DEF AndWord

-----------------------------------------------------------------------------
\* A window shows blocks of its image, or nothing.
Window == [blocks : Nat, mask : Int, bank : [0 .. 7 -> Int]]
Inside(win) ==
  /\ win \in Window
  /\ \A s \in 0 .. 7 : win.bank[s] \in 0 .. win.blocks - 1 \cup {Unmapped}

\* Two windows of one image.
SameImage(win, old) == win.blocks = old.blocks /\ win.mask = old.mask

\* A request leads to a block of the image or to none (set_bank of the ROM window).
LEMMA BlockInside ==
  ASSUME NEW win \in Window, NEW n \in Word
  PROVE  BlockFor(win, n) \in 0 .. win.blocks - 1 \cup {Unmapped}
<1>1. AndWord(n, win.mask) \in Nat  BY AndWordIsNat
<1> QED BY <1>1 DEF BlockFor, Window, Unmapped, Word

\* Two windows of one image give a request the same block.
LEMMA BlockOfImage ==
  ASSUME NEW win, NEW old, SameImage(win, old), NEW n
  PROVE  BlockFor(win, n) = BlockFor(old, n)
BY DEF SameImage, BlockFor

\* set_bank changes one slot, and shows a block of the image there.
LEMMA SetBankInside ==
  ASSUME NEW win, Inside(win), NEW slot \in 0 .. 7, NEW n \in Word
  PROVE  /\ Inside(SetBank(win, slot, n)) /\ SameImage(SetBank(win, slot, n), win)
         /\ \A s \in 0 .. 7 :
              SetBank(win, slot, n).bank[s] = IF s = slot THEN BlockFor(win, n) ELSE win.bank[s]
<1>1. BlockFor(win, n) \in 0 .. win.blocks - 1 \cup {Unmapped}  BY BlockInside DEF Inside
<1>2. BlockFor(win, n) \in Int  BY <1>1 DEF Unmapped, Inside, Window
<1> HIDE DEF Unmapped
<1> QED BY <1>1, <1>2 DEF SetBank, Inside, Window, SameImage

\* Laying several slots at once keeps the window in its image.
LEMMA SetBanksInside ==
  ASSUME NEW win, Inside(win), NEW T \in SUBSET (0 .. 7), NEW f \in [T -> Word]
  PROVE  Inside(SetBanks(win, f)) /\ SameImage(SetBanks(win, f), win)
<1>1. \A s \in T : BlockFor(win, f[s]) \in 0 .. win.blocks - 1 \cup {Unmapped}
  BY BlockInside DEF Inside
<1>2. \A s \in T : BlockFor(win, f[s]) \in Int  BY <1>1 DEF Unmapped, Inside, Window
<1>3. DOMAIN f = T  OBVIOUS
<1> QED BY <1>1, <1>2, <1>3 DEF SetBanks, Inside, Window, SameImage

\* A 16 KB bank, which fills two slots, keeps the window in its image.
LEMMA PairInside ==
  ASSUME NEW win, Inside(win), NEW bank \in 0 .. 3, NEW n \in 0 .. 255
  PROVE  Inside(SetPair16(win, bank, n)) /\ SameImage(SetPair16(win, bank, n), win)
<1>1. 2 * bank \in 0 .. 7 /\ 2 * bank + 1 \in 0 .. 7 /\ 2 * n \in Word /\ 2 * n + 1 \in Word
  BY DEF Word
<1>2. LET own == SetBank(win, 2 * bank, 2 * n) IN Inside(own) /\ SameImage(own, win)
  BY <1>1, SetBankInside
<1> QED BY <1>1, <1>2, SetBankInside DEF SetPair16, SameImage

\* Konami's mappers show the pages 2 to 5 a second time, and a switch of one
\* changes both.
Mirrors(type, win) == \A page \in 2 .. 5 : win.bank[page] = win.bank[Mirror(type, page)]
Rebanked(w, type, win, page, n) ==
  /\ Inside(w) /\ SameImage(w, win)
  /\ \A s \in 0 .. 7 :
       w.bank[s] = IF s = page \/ s = Mirror(type, page) THEN BlockFor(win, n) ELSE win.bank[s]

\* A Konami bank switch changes a page and its mirror, and nothing else.
LEMMA BankSwitchInside ==
  ASSUME NEW win, Inside(win), NEW type \in {"Konami", "KonamiSCC"},
         NEW page \in 2 .. 5, NEW n \in Word
  PROVE  Rebanked(BankSwitch(type, win, page, n), type, win, page, n)
<1> DEFINE own == SetBank(win, page, n)
<1>1. page \in 0 .. 7 /\ Mirror(type, page) \in 0 .. 7  BY DEF Mirror
<1>2. /\ Inside(own) /\ SameImage(own, win)
      /\ \A s \in 0 .. 7 : own.bank[s] = IF s = page THEN BlockFor(win, n) ELSE win.bank[s]
  BY <1>1, SetBankInside
<1>3. BlockFor(own, n) = BlockFor(win, n)  BY <1>2, BlockOfImage
<1>4. BankSwitch(type, win, page, n) = SetBank(own, Mirror(type, page), n)  BY DEF BankSwitch
<1> HIDE DEF own
<1>5. /\ Inside(SetBank(own, Mirror(type, page), n)) /\ SameImage(SetBank(own, Mirror(type, page), n), own)
      /\ \A s \in 0 .. 7 : SetBank(own, Mirror(type, page), n).bank[s]
                             = IF s = Mirror(type, page) THEN BlockFor(own, n) ELSE own.bank[s]
  BY <1>1, <1>2, SetBankInside
<1>6. SameImage(SetBank(own, Mirror(type, page), n), win)  BY <1>2, <1>5 DEF SameImage
<1> QED BY <1>2, <1>3, <1>4, <1>5, <1>6 DEF Rebanked

\* A Konami bank switch keeps every page equal to its mirror.
LEMMA SwitchMirrors ==
  ASSUME NEW win, Inside(win), NEW type \in {"Konami", "KonamiSCC"},
         NEW page \in 2 .. 5, NEW n \in Word, Mirrors(type, win)
  PROVE  Mirrors(type, BankSwitch(type, win, page, n))
<1> DEFINE w == BankSwitch(type, win, page, n)
<1>1. Rebanked(w, type, win, page, n)  BY BankSwitchInside
<1> HIDE DEF w
<1>2. \A p \in 2 .. 5 : Mirror(type, p) \in {0, 1, 6, 7}  BY DEF Mirror
<1>3. \A p \in 2 .. 5 : Mirror(type, p) = Mirror(type, page) => p = page  BY DEF Mirror
<1>4. \A p \in 2 .. 5 : w.bank[p] = w.bank[Mirror(type, p)]
  BY <1>1, <1>2, <1>3 DEF Mirrors, Rebanked
<1> QED BY <1>4 DEF Mirrors, w

\* A reset lays the blocks as the mapper of the cartridge has them.
LEMMA ResetInside ==
  ASSUME NEW win, Inside(win), NEW type \in CartTypes
  PROVE  /\ Inside(ResetWindow(type, win)) /\ SameImage(ResetWindow(type, win), win)
         /\ type \in {"Konami", "KonamiSCC"} => Mirrors(type, ResetWindow(type, win))
<1> DEFINE clear == [win EXCEPT !.bank = [s \in 0 .. 7 |-> IF s \in 2 .. 5 THEN @[s] ELSE Unmapped]]
<1>1. Inside(clear) /\ SameImage(clear, win)  BY DEF Inside, Window, SameImage, Unmapped
<1>2. CASE type \in {"Konami", "KonamiSCC"}
  <2> DEFINE w2 == BankSwitch(type, win, 2, 2 - 2)
             w3 == BankSwitch(type, w2, 3, 3 - 2)
             w4 == BankSwitch(type, w3, 4, 4 - 2)
             w5 == BankSwitch(type, w4, 5, 5 - 2)
  <2>0. 2 - 2 \in Word /\ 3 - 2 \in Word /\ 4 - 2 \in Word /\ 5 - 2 \in Word  BY DEF Word
  <2>1. ResetWindow(type, win) = w5  BY <1>2 DEF ResetWindow
  <2>2. Rebanked(w2, type, win, 2, 2 - 2)
    BY <1>2, <2>0, BankSwitchInside
  <2> HIDE DEF w2
  <2>3. Rebanked(w3, type, w2, 3, 3 - 2)
    <3>1. Inside(w2)  BY <2>2 DEF Rebanked
    <3> QED BY <1>2, <2>0, <3>1, BankSwitchInside
  <2> HIDE DEF w3
  <2>4. Rebanked(w4, type, w3, 4, 4 - 2)
    <3>1. Inside(w3)  BY <2>3 DEF Rebanked
    <3> QED BY <1>2, <2>0, <3>1, BankSwitchInside
  <2> HIDE DEF w4
  <2>5. Rebanked(w5, type, w4, 5, 5 - 2)
    <3>1. Inside(w4)  BY <2>4 DEF Rebanked
    <3> QED BY <1>2, <2>0, <3>1, BankSwitchInside
  <2> HIDE DEF w5
  <2>6. Mirrors(type, w5)  BY <1>2, <2>2, <2>3, <2>4, <2>5 DEF Mirrors, Mirror, Rebanked
  <2>7. Inside(w5) /\ SameImage(w5, win)  BY <2>2, <2>3, <2>4, <2>5 DEF SameImage, Rebanked
  <2> QED BY <2>1, <2>6, <2>7
<1>3. CASE type \in {"Mirrored", "Generic8kB", "Ascii8kB"}
  <2>1. \A T \in SUBSET (0 .. 7) : \A f \in [T -> Word] :
          /\ Inside(SetBanks(win, f)) /\ SameImage(SetBanks(win, f), win)
          /\ Inside(SetBanks(clear, f)) /\ SameImage(SetBanks(clear, f), clear)
    <3> HIDE DEF clear
    <3> QED BY <1>1, SetBanksInside
  <2>2. /\ [s \in 0 .. 7 |-> s] \in [0 .. 7 -> Word]
        /\ [s \in 2 .. 5 |-> s - 2] \in [2 .. 5 -> Word]
        /\ [s \in 2 .. 5 |-> 0] \in [2 .. 5 -> Word]
        /\ 0 .. 7 \in SUBSET (0 .. 7) /\ 2 .. 5 \in SUBSET (0 .. 7)
    BY DEF Word
  <2>3. ResetWindow(type, win) \in {SetBanks(win, [s \in 0 .. 7 |-> s]),
                                    SetBanks(clear, [s \in 2 .. 5 |-> s - 2]),
                                    SetBanks(clear, [s \in 2 .. 5 |-> 0])}
    BY <1>3 DEF ResetWindow
  <2> HIDE DEF clear
  <2>4. Inside(ResetWindow(type, win)) /\ SameImage(ResetWindow(type, win), win)
    BY <1>1, <2>1, <2>2, <2>3 DEF SameImage
  <2> QED BY <1>3, <2>4
<1>4. CASE type \in {"Generic16kB", "Ascii16kB"}
  <2> DEFINE pair == SetPair16(clear, 1, 0)
  <2>1. ResetWindow(type, win) \in {SetPair16(pair, 2, 1), SetPair16(pair, 2, 0)}
    BY <1>4 DEF ResetWindow
  <2> HIDE DEF clear
  <2>2. Inside(pair) /\ SameImage(pair, clear)  BY <1>1, PairInside
  <2> HIDE DEF pair
  <2>3. \A n \in {0, 1} : Inside(SetPair16(pair, 2, n)) /\ SameImage(SetPair16(pair, 2, n), pair)
    BY <2>2, PairInside
  <2> QED BY <1>1, <1>4, <2>1, <2>2, <2>3 DEF SameImage
<1>5. CASE type = "FmPac"  BY <1>5 DEF ResetWindow, SameImage
<1> QED BY <1>2, <1>3, <1>4, <1>5 DEF CartTypes

-----------------------------------------------------------------------------
\* A cartridge fits when its window shows its image only, the Konami pages
\* are in step, and the FM-PAC's battery RAM is open for the keys only.
Cartridge(cart) ==
  cart \in [type : CartTypes, win : Window, scc_on : BOOLEAN, scc : {cart.scc}, enable : Byte,
            bank : 0 .. 3, key1 : Byte, key2 : Byte, sram_on : BOOLEAN,
            sram : [SramOffsets -> Byte], opll : {cart.opll}]
Keys(cart) == cart.sram_on => cart.key1 = 77 /\ cart.key2 = 105 /\ TakesKeys(cart)
Fits(cart) ==
  /\ Cartridge(cart) /\ Inside(cart.win) /\ Keys(cart)
  /\ cart.type = "FmPac" => cart.win.blocks \in {2, 4, 6, 8}
  /\ cart.type \in {"Konami", "KonamiSCC"} => Mirrors(cart.type, cart.win)

\* A cartridge that gets another window of the same image fits.
LEMMA RewindowedFits ==
  ASSUME NEW cart, Fits(cart), NEW win, Inside(win), SameImage(win, cart.win),
         cart.type \in {"Konami", "KonamiSCC"} => Mirrors(cart.type, win)
  PROVE  Fits([cart EXCEPT !.win = win]) /\ [cart EXCEPT !.win = win].sram = cart.sram
<1> DEFINE new == [cart EXCEPT !.win = win]
<1>1. /\ new.type = cart.type /\ new.win = win /\ new.scc_on = cart.scc_on /\ new.scc = cart.scc
      /\ new.enable = cart.enable /\ new.bank = cart.bank /\ new.key1 = cart.key1
      /\ new.key2 = cart.key2 /\ new.sram_on = cart.sram_on /\ new.sram = cart.sram
      /\ new.opll = cart.opll
  BY DEF Fits, Cartridge
<1>2. Cartridge(new)  BY <1>1 DEF Fits, Cartridge, Inside
<1> HIDE DEF new
<1>3. Keys(new)  BY <1>1 DEF Fits, Keys, TakesKeys
<1>4. Fits(new)  BY <1>1, <1>2, <1>3 DEF Fits, SameImage
<1> QED BY <1>1, <1>4 DEF new

\* A cartridge fits after a reset, and when it was just put in.
LEMMA ResetFits ==
  ASSUME NEW cart, Cartridge(cart), Inside(cart.win),
         cart.type = "FmPac" => cart.win.blocks \in {2, 4, 6, 8}
  PROVE  Fits(ResetCart(cart)) /\ ResetCart(cart).sram = cart.sram
<1> DEFINE new == ResetCart(cart)
           win == ResetWindow(cart.type, cart.win)
<1>1. cart.type \in CartTypes  BY DEF Cartridge
<1>2. /\ Inside(win) /\ SameImage(win, cart.win)
      /\ cart.type \in {"Konami", "KonamiSCC"} => Mirrors(cart.type, win)
  BY <1>1, ResetInside
<1>3. /\ new.type = cart.type /\ new.win = win /\ new.scc_on = FALSE /\ new.scc = ResetScc
      /\ new.enable = 0 /\ new.bank = 0 /\ new.key1 = 0 /\ new.key2 = 0 /\ new.sram_on = FALSE
      /\ new.sram = cart.sram /\ new.opll = ResetOpll(FALSE)
  BY DEF Cartridge, ResetCart
<1>4. new \in [type : CartTypes, win : Window, scc_on : BOOLEAN, scc : {ResetScc}, enable : Byte,
               bank : 0 .. 3, key1 : Byte, key2 : Byte, sram_on : BOOLEAN,
               sram : [SramOffsets -> Byte], opll : {ResetOpll(FALSE)}]
  <2> HIDE DEF win
  <2>1. win \in Window  BY <1>2 DEF Inside
  <2>2. 0 \in Byte /\ 0 \in 0 .. 3  BY DEF Byte
  <2> QED BY <2>1, <2>2 DEF Cartridge, ResetCart, win
<1> HIDE DEF new, win
<1>5. Cartridge(new)  BY <1>3, <1>4 DEF Cartridge
<1> QED BY <1>2, <1>3, <1>5 DEF Fits, Keys, SameImage, new

\* A cartridge that was just put in fits its image.
LEMMA NewFits ==
  ASSUME NEW type \in CartTypes, NEW blocks \in Word, ValidSize(type, blocks)
  PROVE  Fits(NewCart(type, blocks))
<1> DEFINE win == NewWindow(blocks, IF type = "Konami" THEN 31 ELSE blocks - 1)
           cart == [type |-> type, win |-> win, scc_on |-> FALSE, scc |-> ResetScc, enable |-> 0,
                    bank |-> 0, key1 |-> 0, key2 |-> 0, sram_on |-> FALSE,
                    sram |-> [o \in SramOffsets |-> 0], opll |-> ResetOpll(FALSE)]
<1>1. Inside(win) /\ win.blocks = blocks  BY DEF NewWindow, Inside, Window, Unmapped, Word
<1>2. type = "FmPac" => blocks \in {2, 4, 6, 8}  BY DEF ValidSize
<1>3. NewCart(type, blocks) = ResetCart(cart)  BY DEF NewCart
<1> HIDE DEF win
<1>4. Cartridge(cart)  BY <1>1 DEF Cartridge, Inside, Byte
<1>5. cart.type = type /\ cart.win = win  OBVIOUS
<1> HIDE DEF cart
<1> QED BY <1>1, <1>2, <1>3, <1>4, <1>5, ResetFits

-----------------------------------------------------------------------------
\* What a write leaves of the battery RAM: the byte at the place it shows.
Stored(new, cart, a, v) ==
  \A o \in SramOffsets : new.sram[o] = IF CartPlace(cart, a) = <<"sram", o>> THEN v ELSE cart.sram[o]
\* A cartridge without battery RAM shows none and stores nothing there.
LEMMA RomCartStores ==
  ASSUME NEW cart, NEW a, NEW new, new.sram = cart.sram, cart.type # "FmPac", NEW v
  PROVE  Stored(new, cart, a, v)
<1>1. CartPlace(cart, a)[1] # "sram"  BY DEF CartPlace, WindowPlace, Open
<1>2. \A o : <<"sram", o>>[1] = "sram"  OBVIOUS
<1> QED BY <1>1, <1>2 DEF Stored

\* A 16-bit address has one of eight 8 KB pages and of four 16 KB pages.
LEMMA PageIn == ASSUME NEW a \in Word  PROVE Page(a) \in 0 .. 7 /\ MapPage(a) \in 0 .. 3
BY DEF Word, Page, MapPage, BankSize

\* What happens in the wavetable chip changes neither window nor battery RAM.
LEMMA SccCartFits ==
  ASSUME NEW cart, Fits(cart), NEW x
  PROVE  /\ Fits([cart EXCEPT !.scc = x]) /\ [cart EXCEPT !.scc = x].sram = cart.sram
<1> DEFINE new == [cart EXCEPT !.scc = x]
<1>1. /\ new.type = cart.type /\ new.win = cart.win /\ new.enable = cart.enable /\ new.key1 = cart.key1
      /\ new.key2 = cart.key2 /\ new.sram_on = cart.sram_on /\ new.sram = cart.sram
      /\ new.opll = cart.opll /\ new.scc = x
  BY DEF Fits, Cartridge
<1>2. Cartridge(new)  BY <1>1 DEF Fits, Cartridge
<1> HIDE DEF new
<1> QED BY <1>1, <1>2 DEF Fits, Keys, TakesKeys, new

\* A write to a bank register of Konami's mappers.
LEMMA KonamiFits ==
  ASSUME NEW cart, Fits(cart), cart.type \in {"Konami", "KonamiSCC"}, NEW page \in 2 .. 5, NEW v \in Byte
  PROVE  Fits(Switched(cart, page, v)) /\ Switched(cart, page, v).sram = cart.sram
<1> DEFINE win == BankSwitch(cart.type, cart.win, page, v)
<1>1. v \in Word  BY DEF Byte, Word
<1>2. Inside(cart.win) /\ Mirrors(cart.type, cart.win)  BY DEF Fits
<1>3. Rebanked(win, cart.type, cart.win, page, v)  BY <1>1, <1>2, BankSwitchInside
<1>4. Mirrors(cart.type, win)  BY <1>1, <1>2, SwitchMirrors
<1>5. Inside(win) /\ SameImage(win, cart.win)  BY <1>3 DEF Rebanked
<1>6. Switched(cart, page, v) = [cart EXCEPT !.win = win]  BY DEF Switched
<1> HIDE DEF win
<1> QED BY <1>4, <1>5, <1>6, RewindowedFits

\* A write to the Konami SCC cartridge: the chip, its enable register, the banks.
LEMMA KonamiSccFits ==
  ASSUME NEW cart, Fits(cart), cart.type = "KonamiSCC", NEW a \in Word, NEW v \in Byte
  PROVE  Fits(KonamiSccWrite(cart, a, v)) /\ KonamiSccWrite(cart, a, v).sram = cart.sram
<1> DEFINE on == [cart EXCEPT !.scc_on = v % 64 = 63]
           enabled == IF a \div 2048 = 18 THEN on ELSE cart
<1>1. Fits(on) /\ on.sram = cart.sram /\ on.type = cart.type
  <2>1. /\ on.type = cart.type /\ on.win = cart.win /\ on.enable = cart.enable /\ on.key1 = cart.key1
        /\ on.key2 = cart.key2 /\ on.sram_on = cart.sram_on /\ on.sram = cart.sram
        /\ on.opll = cart.opll /\ on.scc = cart.scc
    BY DEF Fits, Cartridge
  <2>2. Cartridge(on)  BY <2>1 DEF Fits, Cartridge
  <2> HIDE DEF on
  <2> QED BY <2>1, <2>2 DEF Fits, Keys, TakesKeys
<1> HIDE DEF on
<1>2. Fits(enabled) /\ enabled.sram = cart.sram /\ enabled.type = cart.type  BY <1>1
<1>3. CASE a \div 4096 \notin 5 .. 11  BY <1>3 DEF KonamiSccWrite
<1>4. CASE a \div 4096 \in 5 .. 11 /\ SccWindow(cart, a)
  <2>1. KonamiSccWrite(cart, a, v) = [cart EXCEPT !.scc = SccWrite(@, a % 256, v)]
    BY <1>4 DEF KonamiSccWrite
  <2> QED BY <2>1, SccCartFits
<1>5. CASE a \div 4096 \in 5 .. 11 /\ ~SccWindow(cart, a)
  <2>1. KonamiSccWrite(cart, a, v)
          = IF (a \div 2048) % 4 = 2 THEN Switched(enabled, Page(a), v) ELSE enabled
    BY <1>5 DEF KonamiSccWrite, on
  <2>2. Page(a) \in 2 .. 5  BY <1>5 DEF Word, Page, BankSize
  <2> HIDE DEF enabled
  <2>3. Fits(Switched(enabled, Page(a), v)) /\ Switched(enabled, Page(a), v).sram = enabled.sram
    BY <1>2, <2>2, KonamiFits
  <2> QED BY <1>2, <2>1, <2>3
<1> QED BY <1>3, <1>4, <1>5

\* A write to any of the other ROM cartridges.
LEMMA RomCartFits ==
  ASSUME NEW cart, Fits(cart), cart.type \notin {"KonamiSCC", "FmPac"}, NEW a \in Word, NEW v \in Byte
  PROVE  Fits(CartWrite(cart, a, v)) /\ CartWrite(cart, a, v).sram = cart.sram
<1>1. Inside(cart.win) /\ cart.type \in CartTypes  BY DEF Fits, Cartridge
<1>2. Page(a) \in 0 .. 7 /\ MapPage(a) \in 0 .. 3  BY PageIn
<1>3. v \in Word /\ v \in 0 .. 255  BY DEF Byte, Word
<1>4. \A slot \in 0 .. 7 :
        Inside(SetBank(cart.win, slot, v)) /\ SameImage(SetBank(cart.win, slot, v), cart.win)
  BY <1>1, <1>3, SetBankInside
<1>5. \A bank \in 0 .. 3 :
        Inside(SetPair16(cart.win, bank, v)) /\ SameImage(SetPair16(cart.win, bank, v), cart.win)
  BY <1>1, <1>3, PairInside
<1>6. CASE cart.type = "Mirrored"  BY <1>6 DEF CartWrite
<1>7. CASE cart.type = "Konami"
  <2>1. CASE Page(a) \in 3 .. 5
    <3>1. CartWrite(cart, a, v) = Switched(cart, Page(a), v)  BY <1>7, <2>1 DEF CartWrite
    <3> QED BY <1>7, <2>1, <3>1, KonamiFits
  <2>2. CASE Page(a) \notin 3 .. 5  BY <1>7, <2>2 DEF CartWrite
  <2> QED BY <2>1, <2>2
<1>8. CASE cart.type \in {"Generic8kB", "Generic16kB", "Ascii8kB", "Ascii16kB"}
  <2>1. \A win : Inside(win) /\ SameImage(win, cart.win) =>
          Fits([cart EXCEPT !.win = win]) /\ [cart EXCEPT !.win = win].sram = cart.sram
    BY <1>8, RewindowedFits
  <2>2. CASE cart.type = "Generic8kB"
    <3>1. CartWrite(cart, a, v) = [cart EXCEPT !.win = SetBank(cart.win, Page(a), v)]
      BY <2>2 DEF CartWrite
    <3> QED BY <1>2, <1>4, <2>1, <3>1
  <2>3. CASE cart.type = "Generic16kB"
    <3>1. CartWrite(cart, a, v) = [cart EXCEPT !.win = SetPair16(cart.win, MapPage(a), v)]
      BY <2>3 DEF CartWrite, MapPage
    <3> QED BY <1>2, <1>5, <2>1, <3>1
  <2>4. CASE cart.type = "Ascii8kB"
    <3> DEFINE slot == ((a \div 2048) % 4) + 2
    <3>1. slot \in 0 .. 7  BY DEF Word
    <3>2. CartWrite(cart, a, v) \in {cart, [cart EXCEPT !.win = SetBank(cart.win, slot, v)]}
      BY <2>4 DEF CartWrite, Ascii8Write
    <3> HIDE DEF slot
    <3> QED BY <1>4, <2>1, <3>1, <3>2
  <2>5. CASE cart.type = "Ascii16kB"
    <3> DEFINE bank == ((a \div 4096) % 2) + 1
    <3>1. bank \in 0 .. 3  BY DEF Word
    <3>2. CartWrite(cart, a, v) \in {cart, [cart EXCEPT !.win = SetPair16(cart.win, bank, v)]}
      BY <2>5 DEF CartWrite, Ascii16Write
    <3> HIDE DEF bank
    <3> QED BY <1>5, <2>1, <3>1, <3>2
  <2> QED BY <1>8, <2>2, <2>3, <2>4, <2>5
<1> QED BY <1>1, <1>6, <1>7, <1>8 DEF CartTypes

\* The FM-PAC.  Changing what is behind its keys keeps it in shape.
LEMMA KeyedFits ==
  ASSUME NEW cart, Cartridge(cart), cart.type = "FmPac", Inside(cart.win), cart.win.blocks \in {2, 4, 6, 8},
         cart.key1 = 77 /\ cart.key2 = 105 => TakesKeys(cart)
  PROVE  Fits(Keyed(cart)) /\ Keyed(cart).sram = cart.sram
<1> DEFINE new == Keyed(cart)
<1>1. /\ new.type = cart.type /\ new.win = cart.win /\ new.scc_on = cart.scc_on /\ new.scc = cart.scc
      /\ new.enable = cart.enable /\ new.bank = cart.bank /\ new.key1 = cart.key1
      /\ new.key2 = cart.key2 /\ new.sram_on = (cart.key1 = 77 /\ cart.key2 = 105)
      /\ new.sram = cart.sram /\ new.opll = cart.opll
  BY DEF Cartridge, Keyed
<1>2. Cartridge(new)  BY <1>1 DEF Cartridge, Keyed
<1> HIDE DEF new
<1>3. Keys(new)  BY <1>1 DEF Keys, TakesKeys
<1> QED BY <1>1, <1>2, <1>3 DEF Fits, new

\* A write to the FM-PAC: a key, the enable and bank registers, the FM chip, or
\* a byte of the battery RAM, which changes only where the address shows it.
LEMMA FmPacFits ==
  ASSUME NEW cart, Fits(cart), cart.type = "FmPac", NEW a \in Word, NEW v \in Byte
  PROVE  Fits(FmPacWrite(cart, a, v)) /\ Stored(FmPacWrite(cart, a, v), cart, a, v)
<1> DEFINE rel == a % 16384
           new == FmPacWrite(cart, a, v)
<1>1. /\ Cartridge(cart) /\ Inside(cart.win) /\ Keys(cart) /\ cart.win.blocks \in {2, 4, 6, 8}
  BY DEF Fits
<1>2. \A o : <<"sram", o>>[1] = "sram" /\ <<"sram", o>>[2] = o  OBVIOUS
<1>3. CartPlace(cart, a) = FmPacPlace(cart, a)  BY DEF CartPlace
\* Elsewhere than in the battery RAM a write leaves its bytes alone.
<1>4. ASSUME ~(MapPage(a) = 1 /\ cart.sram_on /\ rel < SramWindow), NEW w, w.sram = cart.sram
      PROVE  Stored(w, cart, a, v)
  <2>1. FmPacPlace(cart, a)[1] # "sram"  BY <1>4 DEF FmPacPlace, Open, SramWindow
  <2> QED BY <1>2, <1>3, <1>4, <2>1 DEF Stored
<1>5. CASE MapPage(a) # 1
  <2>1. new = cart  BY <1>5 DEF FmPacWrite
  <2> QED BY <1>4, <1>5, <2>1
<1>6. CASE MapPage(a) = 1 /\ rel \in {8190, 8191}
  <2>1. CASE ~TakesKeys(cart)
    <3>1. new = cart  BY <1>6, <2>1 DEF FmPacWrite
    <3> QED BY <1>4, <1>6, <3>1 DEF SramWindow
  <2>2. CASE TakesKeys(cart)
    <3> DEFINE one == [cart EXCEPT !.key1 = v]
               two == [cart EXCEPT !.key2 = v]
    <3>1. new \in {Keyed(one), Keyed(two)}  BY <1>6, <2>2 DEF FmPacWrite
    <3>2. /\ Cartridge(one) /\ one.type = "FmPac" /\ one.win = cart.win /\ one.enable = cart.enable
          /\ one.sram = cart.sram
      BY <1>1 DEF Cartridge
    <3>3. /\ Cartridge(two) /\ two.type = "FmPac" /\ two.win = cart.win /\ two.enable = cart.enable
          /\ two.sram = cart.sram
      BY <1>1 DEF Cartridge
    <3> HIDE DEF one, two
    <3>4. TakesKeys(one) /\ TakesKeys(two)  BY <2>2, <3>2, <3>3 DEF TakesKeys
    <3>5. Fits(Keyed(one)) /\ Keyed(one).sram = cart.sram  BY <1>1, <3>2, <3>4, KeyedFits
    <3>6. Fits(Keyed(two)) /\ Keyed(two).sram = cart.sram  BY <1>1, <3>3, <3>4, KeyedFits
    <3> HIDE DEF new
    <3> QED BY <1>4, <1>6, <3>1, <3>5, <3>6 DEF SramWindow, new
  <2> QED BY <2>1, <2>2
<1>7. CASE MapPage(a) = 1 /\ rel \in {16372, 16373}
  <2>0. new \in {[cart EXCEPT !.opll = OpllWriteAddress(cart.opll, v, 0)],
                [cart EXCEPT !.opll = OpllWriteData(cart.opll, v, 0)]}
    BY <1>7 DEF FmPacWrite
  <2>1. PICK x : new = [cart EXCEPT !.opll = x]
    <3> HIDE DEF new
    <3> QED BY <2>0
  <2>2. /\ new.type = cart.type /\ new.win = cart.win /\ new.enable = cart.enable
        /\ new.key1 = cart.key1 /\ new.key2 = cart.key2 /\ new.sram_on = cart.sram_on
        /\ new.sram = cart.sram /\ new.scc = cart.scc /\ new.opll = x
    BY <1>1, <2>1 DEF Cartridge
  <2>3. Cartridge(new)  BY <1>1, <2>1, <2>2 DEF Cartridge
  <2> HIDE DEF new
  <2>4. Fits(new)  BY <1>1, <2>2, <2>3 DEF Fits, Keys, TakesKeys
  <2> QED BY <1>4, <1>7, <2>2, <2>4 DEF SramWindow, new
<1>8. CASE MapPage(a) = 1 /\ rel = 16374
  <2> DEFINE set == [cart EXCEPT !.enable = And(v, 17)]
             out == [set EXCEPT !.key1 = 0, !.key2 = 0]
  <2>1. And(v, 17) \in Byte  BY AndIsByte
  <2>2. /\ Cartridge(set) /\ set.type = "FmPac" /\ set.win = cart.win /\ set.key1 = cart.key1
        /\ set.key2 = cart.key2 /\ set.sram_on = cart.sram_on /\ set.sram = cart.sram
    BY <1>1, <2>1 DEF Cartridge
  <2>3. new = IF TakesKeys(set) THEN set ELSE Keyed(out)  BY <1>8 DEF FmPacWrite
  <2> HIDE DEF set
  <2>7. /\ out.type = "FmPac" /\ out.win = cart.win /\ out.key1 = 0 /\ out.sram = cart.sram
        /\ out.scc = set.scc /\ out.opll = set.opll
    BY <2>2 DEF Cartridge
  <2>8. 0 \in Byte  BY DEF Byte
  <2>4. Cartridge(out)  BY <2>2, <2>7, <2>8 DEF Cartridge
  <2> HIDE DEF out
  <2>5. Fits(Keyed(out)) /\ Keyed(out).sram = cart.sram  BY <1>1, <2>4, <2>7, KeyedFits
  <2>6. TakesKeys(set) => Fits(set)  BY <1>1, <2>2 DEF Fits, Keys
  <2> QED BY <1>4, <1>8, <2>2, <2>3, <2>5, <2>6 DEF SramWindow
<1>9. CASE MapPage(a) = 1 /\ rel = 16375
  <2>1. new = [cart EXCEPT !.bank = v % 4]  BY <1>9 DEF FmPacWrite
  <2>2. v % 4 \in 0 .. 3  BY DEF Byte
  <2>3. /\ new.type = cart.type /\ new.win = cart.win /\ new.enable = cart.enable
        /\ new.key1 = cart.key1 /\ new.key2 = cart.key2 /\ new.sram_on = cart.sram_on
        /\ new.sram = cart.sram /\ new.scc = cart.scc /\ new.opll = cart.opll
    BY <1>1, <2>1 DEF Cartridge
  <2>4. Cartridge(new)  BY <1>1, <2>1, <2>2, <2>3 DEF Cartridge
  <2> HIDE DEF new
  <2>5. Fits(new)  BY <1>1, <2>3, <2>4 DEF Fits, Keys, TakesKeys
  <2> QED BY <1>4, <1>9, <2>3, <2>5 DEF SramWindow, new
<1>10. CASE MapPage(a) = 1 /\ rel \notin {8190, 8191, 16372, 16373, 16374, 16375}
  <2>1. DOMAIN cart.sram = SramOffsets  BY <1>1 DEF Cartridge
  <2>2. CASE cart.sram_on /\ rel < SramWindow /\ rel \in SramOffsets
    <3>1. new = [cart EXCEPT !.sram[rel] = v]  BY <1>10, <2>1, <2>2 DEF FmPacWrite
    <3>2. /\ new.type = cart.type /\ new.win = cart.win /\ new.enable = cart.enable
          /\ new.key1 = cart.key1 /\ new.key2 = cart.key2 /\ new.sram_on = cart.sram_on
          /\ new.sram = [cart.sram EXCEPT ![rel] = v] /\ new.scc = cart.scc /\ new.opll = cart.opll
      BY <1>1, <3>1 DEF Cartridge
    <3>3. Cartridge(new)  BY <1>1, <3>1, <3>2 DEF Cartridge
    <3> HIDE DEF new
    <3>4. Fits(new)  BY <1>1, <3>2, <3>3 DEF Fits, Keys, TakesKeys
    <3>5. FmPacPlace(cart, a) = <<"sram", rel>>  BY <1>10, <2>2 DEF FmPacPlace
    <3>6. \A o \in SramOffsets : new.sram[o] = IF o = rel THEN v ELSE cart.sram[o]
      BY <1>1, <3>2 DEF Cartridge
    <3> QED BY <1>2, <1>3, <3>4, <3>5, <3>6 DEF Stored, new
  <2>3. CASE ~(cart.sram_on /\ rel < SramWindow)
    <3>1. new = cart  BY <1>10, <2>3 DEF FmPacWrite
    <3> QED BY <1>4, <2>3, <3>1
  <2>4. CASE cart.sram_on /\ rel < SramWindow /\ rel \notin SramOffsets
    <3>1. new = cart  BY <1>10, <2>1, <2>4 DEF FmPacWrite
    <3>2. FmPacPlace(cart, a) = <<"sram", rel>>  BY <1>10, <2>4 DEF FmPacPlace
    <3> QED BY <1>2, <1>3, <2>4, <3>1, <3>2 DEF Stored
  <2> QED BY <2>2, <2>3, <2>4
<1> QED BY <1>5, <1>6, <1>7, <1>8, <1>9, <1>10

\* What an access makes of any cartridge.
LEMMA CartridgeFits ==
  ASSUME NEW cart, Fits(cart), NEW a \in Word, NEW v \in Byte
  PROVE  Fits(CartWrite(cart, a, v)) /\ Stored(CartWrite(cart, a, v), cart, a, v)
<1>1. cart.type \in CartTypes  BY DEF Fits, Cartridge
<1>2. CASE cart.type = "FmPac"
  <2>1. CartWrite(cart, a, v) = FmPacWrite(cart, a, v)  BY <1>2 DEF CartWrite
  <2> QED BY <1>2, <2>1, FmPacFits
<1>3. CASE cart.type = "KonamiSCC"
  <2>1. CartWrite(cart, a, v) = KonamiSccWrite(cart, a, v)  BY <1>3 DEF CartWrite
  <2> QED BY <1>3, <2>1, KonamiSccFits, RomCartStores
<1>4. CASE cart.type \notin {"KonamiSCC", "FmPac"}  BY <1>4, RomCartFits, RomCartStores
<1> QED BY <1>2, <1>3, <1>4

\* Reading the wavetable chip may change it, and nothing else of the cartridge.
LEMMA ReadFits ==
  ASSUME NEW cart, Fits(cart), NEW a  PROVE Fits(AfterCartRead(cart, a))
BY SccCartFits DEF AfterCartRead

\* No place of a window lies past the end of its image.
LEMMA WindowPlaceInside ==
  ASSUME NEW win, Inside(win), NEW a \in Word, WindowPlace(win, a)[1] = "rom"
  PROVE  WindowPlace(win, a)[2] \in 0 .. win.blocks * BankSize - 1
<1> DEFINE block == win.bank[Page(a)]
<1>1. Page(a) \in 0 .. 7 /\ BankSize \in Nat  BY PageIn DEF BankSize
<1>2. a % BankSize \in Nat /\ a % BankSize < BankSize  BY DEF Word, BankSize
<1>3. block \in 0 .. win.blocks - 1 \/ block = Unmapped  BY <1>1 DEF Inside
<1>4. block # Unmapped  BY DEF WindowPlace, Page, Open
<1>5. WindowPlace(win, a)[2] = block * BankSize + (a % BankSize)  BY <1>4 DEF WindowPlace, Page
<1>6. win.blocks \in Nat  BY DEF Inside, Window
<1>7. \A b, n, size, r \in Nat : b < n /\ r < size => b * size + r \in Nat /\ b * size + r < n * size
  <2> SUFFICES ASSUME NEW b \in Nat, NEW n \in Nat, NEW size \in Nat, NEW r \in Nat, b < n, r < size
               PROVE  b * size + r < n * size
    OBVIOUS
  <2>1. (b + 1) * size <= n * size  OBVIOUS
  <2> QED BY <2>1
<1> HIDE DEF block
<1>8. block \in Nat /\ block < win.blocks  BY <1>3, <1>4, <1>6
<1> QED BY <1>1, <1>5, <1>6, <1>2, <1>7, <1>8

\* No place of a cartridge lies past the end of its image.
LEMMA CartPlaceInside ==
  ASSUME NEW cart, Fits(cart), NEW a \in Word, CartPlace(cart, a)[1] = "rom"
  PROVE  CartPlace(cart, a)[2] \in 0 .. cart.win.blocks * BankSize - 1
<1>1. Inside(cart.win) /\ cart.bank \in 0 .. 3  BY DEF Fits, Cartridge
<1>2. Page(a) \in 0 .. 7 /\ a % BankSize \in 0 .. BankSize - 1 /\ BankSize = 8192
  BY PageIn DEF Word, BankSize
<1>3. ASSUME WindowPlace(cart.win, a)[1] = "rom"
      PROVE  WindowPlace(cart.win, a)[2] \in 0 .. cart.win.blocks * BankSize - 1
  BY <1>1, <1>3, WindowPlaceInside
<1>4. CASE cart.type = "FmPac"
  <2> DEFINE rel == a % 16384
             at  == 16384 * (cart.bank % (cart.win.blocks \div 2)) + rel
  <2>1. cart.win.blocks \in {2, 4, 6, 8}  BY <1>4 DEF Fits
  <2>2. at \in Nat  BY <1>1, <2>1 DEF Word
  <2>3. CartPlace(cart, a) = FmPacPlace(cart, a)  BY <1>4 DEF CartPlace
  <2>4. /\ FmPacPlace(cart, a) = <<"rom", at>>
        /\ at < cart.win.blocks * BankSize
    BY <1>2, <2>1, <2>2, <2>3 DEF FmPacPlace, Open
  <2>5. cart.win.blocks * BankSize \in Int  BY <2>1 DEF BankSize
  <2> HIDE DEF at
  <2> QED BY <2>2, <2>3, <2>4, <2>5
<1>5. CASE cart.type # "FmPac"
  <2>1. CartPlace(cart, a) = WindowPlace(cart.win, a)
    BY <1>5 DEF CartPlace, Open
  <2> QED BY <1>3, <2>1
<1> QED BY <1>4, <1>5

-----------------------------------------------------------------------------
\* The Halnote firmware.
Halnote(hal) ==
  /\ hal \in [win : Window, sub : [1 .. 2 -> Byte], sram_on : BOOLEAN, sub_on : BOOLEAN,
              sram : [DOMAIN hal.sram -> Byte]]
  /\ Inside(hal.win) /\ hal.win.blocks = HalnoteBlocks

\* A reset lays the firmware's first bank in each of its windows.
LEMMA ResetHalnoteFits ==
  ASSUME NEW hal  PROVE Halnote(ResetHalnote(hal))
<1> DEFINE blank == NewWindow(HalnoteBlocks, HalnoteBlocks - 1)
           win   == SetBanks(blank, [s \in 2 .. 5 |-> 0])
           new   == ResetHalnote(hal)
<1>1. Inside(blank) /\ blank.blocks = HalnoteBlocks
  BY DEF NewWindow, Inside, Window, Unmapped, HalnoteBlocks
<1>2. [s \in 2 .. 5 |-> 0] \in [2 .. 5 -> Word] /\ 2 .. 5 \in SUBSET (0 .. 7)  BY DEF Word
<1> HIDE DEF blank
<1>3. Inside(win) /\ win.blocks = HalnoteBlocks  BY <1>1, <1>2, SetBanksInside DEF SameImage
<1>4. new = [win |-> win, sub |-> <<0, 0>>, sram_on |-> FALSE, sub_on |-> FALSE,
             sram |-> [o \in DOMAIN hal.sram |-> 0]]
  BY DEF ResetHalnote, blank
<1> HIDE DEF win, new
<1>5. /\ new.win = win /\ new.sub = <<0, 0>> /\ new.sram = [o \in DOMAIN hal.sram |-> 0]
      /\ new.sram_on = FALSE /\ new.sub_on = FALSE
  BY <1>4
<1>6. 0 \in Byte /\ <<0, 0>> \in [1 .. 2 -> Byte]  BY DEF Byte
<1>7. new.sram \in [DOMAIN new.sram -> Byte]  BY <1>5, <1>6
<1>8. new \in [win : Window, sub : [1 .. 2 -> Byte], sram_on : BOOLEAN, sub_on : BOOLEAN,
               sram : [DOMAIN new.sram -> Byte]]
  <2>1. win \in Window  BY <1>3 DEF Inside
  <2> QED BY <1>4, <1>5, <1>6, <1>7, <2>1
<1> QED BY <1>3, <1>5, <1>8 DEF Halnote, new

\* A bank register of the firmware, two of which also carry a switch.
LEMMA HalnoteBankFits ==
  ASSUME NEW hal, Halnote(hal), NEW bank \in 0 .. 7, NEW v \in Byte
  PROVE  Halnote(HalnoteBank(hal, bank, v)) /\ HalnoteBank(hal, bank, v).sram = hal.sram
<1> DEFINE win == SetBank(hal.win, bank, v)
           w   == [hal EXCEPT !.win = win]
           on  == [w EXCEPT !.sram_on = v >= 128]
           sub == [w EXCEPT !.sub_on = v >= 128]
<1>1. v \in Word  BY DEF Byte, Word
<1>2. Inside(win) /\ win.blocks = HalnoteBlocks  BY <1>1, SetBankInside DEF SameImage, Halnote
<1>3. HalnoteBank(hal, bank, v) \in {w, on, sub}  BY DEF HalnoteBank
<1> HIDE DEF win
<1>4. w.win = win /\ w.sram = hal.sram  BY DEF Halnote
<1>5. w \in [win : Window, sub : [1 .. 2 -> Byte], sram_on : BOOLEAN, sub_on : BOOLEAN,
             sram : [DOMAIN hal.sram -> Byte]]
  BY <1>2 DEF Halnote, Inside
<1> HIDE DEF w
<1>6. on.win = win /\ on.sram = hal.sram /\ sub.win = win /\ sub.sram = hal.sram  BY <1>4, <1>5
<1>7. /\ on \in [win : Window, sub : [1 .. 2 -> Byte], sram_on : BOOLEAN, sub_on : BOOLEAN,
                 sram : [DOMAIN hal.sram -> Byte]]
      /\ sub \in [win : Window, sub : [1 .. 2 -> Byte], sram_on : BOOLEAN, sub_on : BOOLEAN,
                  sram : [DOMAIN hal.sram -> Byte]]
  <2>1. (v >= 128) \in BOOLEAN  BY DEF Byte
  <2>2. \A b \in BOOLEAN :
          /\ [w EXCEPT !.sram_on = b] \in [win : Window, sub : [1 .. 2 -> Byte], sram_on : BOOLEAN,
                                           sub_on : BOOLEAN, sram : [DOMAIN w.sram -> Byte]]
          /\ [w EXCEPT !.sub_on = b] \in [win : Window, sub : [1 .. 2 -> Byte], sram_on : BOOLEAN,
                                          sub_on : BOOLEAN, sram : [DOMAIN w.sram -> Byte]]
    BY <1>4, <1>5
  <2> QED BY <1>4, <2>1, <2>2
<1> HIDE DEF on, sub
<1> QED BY <1>2, <1>3, <1>4, <1>5, <1>6, <1>7 DEF Halnote

\* A write to the firmware keeps it in shape, and changes the byte of its
\* battery RAM that the address shows, if it shows one.
LEMMA HalnoteFits ==
  ASSUME NEW hal, Halnote(hal), NEW a \in Word, NEW v \in Byte
  PROVE  /\ Halnote(HalnoteWrite(hal, a, v))
         /\ DOMAIN HalnoteWrite(hal, a, v).sram = DOMAIN hal.sram
         /\ \A o \in DOMAIN hal.sram :
              HalnoteWrite(hal, a, v).sram[o]
                = IF HalnotePlace(hal, a) = <<"sram", o>> THEN v ELSE hal.sram[o]
<1> DEFINE new == HalnoteWrite(hal, a, v)
<1>1. /\ Inside(hal.win) /\ hal.win.blocks = HalnoteBlocks /\ hal.sub \in [1 .. 2 -> Byte]
      /\ hal.sram_on \in BOOLEAN /\ hal.sub_on \in BOOLEAN /\ hal.win \in Window
      /\ hal.sram \in [DOMAIN hal.sram -> Byte]
  BY DEF Halnote
<1>2. v \in Word /\ Page(a) \in 0 .. 7  BY PageIn DEF Byte, Word
<1>5. \A o : <<"sram", o>>[1] = "sram" /\ <<"sram", o>>[2] = o  OBVIOUS
<1>6. CASE a < 16384
  <2>1. CASE hal.sram_on /\ a \in DOMAIN hal.sram
    <3>1. new = [hal EXCEPT !.sram[a] = v]  BY <1>6, <2>1 DEF HalnoteWrite, MapPage, Word
    <3>2. /\ new.win = hal.win /\ new.sub = hal.sub /\ new.sram_on = hal.sram_on
          /\ new.sub_on = hal.sub_on /\ new.sram = [hal.sram EXCEPT ![a] = v]
      BY <3>1 DEF Halnote
    <3>3. DOMAIN new.sram = DOMAIN hal.sram /\ new.sram \in [DOMAIN hal.sram -> Byte]
      BY <1>1, <3>2
    <3>4. new \in [win : Window, sub : [1 .. 2 -> Byte], sram_on : BOOLEAN, sub_on : BOOLEAN,
                   sram : [DOMAIN hal.sram -> Byte]]
      BY <3>1 DEF Halnote
    <3>5. HalnotePlace(hal, a) = <<"sram", a>>  BY <1>6, <2>1 DEF HalnotePlace, Word
    <3>6. \A o \in DOMAIN hal.sram : new.sram[o] = IF o = a THEN v ELSE hal.sram[o]  BY <1>1, <3>2
    <3> HIDE DEF new
    <3>7. Halnote(new)  BY <1>1, <3>2, <3>3, <3>4 DEF Halnote
    <3> QED BY <1>5, <3>3, <3>5, <3>6, <3>7 DEF new
  <2>2. CASE ~(hal.sram_on /\ a \in DOMAIN hal.sram)
    <3>1. new = hal  BY <1>6, <2>2 DEF HalnoteWrite, MapPage, Word
    <3>2. HalnotePlace(hal, a) \in {<<"sram", a>>, Open}  BY <1>6 DEF HalnotePlace, Word
    <3>3. ~hal.sram_on => HalnotePlace(hal, a)[1] # "sram"  BY <1>6 DEF HalnotePlace, Open, Word
    <3>4. \A o \in DOMAIN hal.sram : HalnotePlace(hal, a) # <<"sram", o>>
      BY <1>5, <2>2, <3>2, <3>3 DEF Open
    <3> QED BY <3>1, <3>4
  <2> QED BY <2>1, <2>2
<1>7. CASE a >= 16384
  <2>1. HalnotePlace(hal, a)[1] # "sram"
    BY <1>7 DEF HalnotePlace, WindowPlace, Open, Word
  <2>2. ASSUME NEW i \in 1 .. 2
        PROVE  Halnote([hal EXCEPT !.sub[i] = v]) /\ [hal EXCEPT !.sub[i] = v].sram = hal.sram
    <3> DEFINE w == [hal EXCEPT !.sub[i] = v]
    <3>1. /\ w.win = hal.win /\ w.sub = [hal.sub EXCEPT ![i] = v] /\ w.sram_on = hal.sram_on
          /\ w.sub_on = hal.sub_on /\ w.sram = hal.sram
      BY DEF Halnote
    <3>2. w \in [win : Window, sub : [1 .. 2 -> Byte], sram_on : BOOLEAN, sub_on : BOOLEAN,
                 sram : [DOMAIN hal.sram -> Byte]]
      BY <1>1, <3>1 DEF Halnote
    <3> HIDE DEF w
    <3> QED BY <1>1, <3>1, <3>2 DEF Halnote, w
  <2>3. CASE a \in {30719, 32767}
    <3>1. \/ new = [hal EXCEPT !.sub[1] = v]
          \/ new = [hal EXCEPT !.sub[2] = v]
      BY <1>7, <2>3 DEF HalnoteWrite, MapPage, Word
    <3> HIDE DEF new
    <3>2. CASE new = [hal EXCEPT !.sub[1] = v]
      <4>1. Halnote(new) /\ new.sram = hal.sram  BY <2>2, <3>2
      <4> QED BY <1>5, <2>1, <4>1 DEF new
    <3>3. CASE new = [hal EXCEPT !.sub[2] = v]
      <4>1. Halnote(new) /\ new.sram = hal.sram  BY <2>2, <3>3
      <4> QED BY <1>5, <2>1, <4>1 DEF new
    <3> QED BY <3>1, <3>2, <3>3
  <2>4. CASE MapPage(a) \in {1, 2} /\ a % 8192 = 4095
    <3>1. a \notin {30719, 32767}  BY <2>4
    <3>2. new = HalnoteBank(hal, Page(a), v)  BY <1>7, <2>4, <3>1 DEF HalnoteWrite, MapPage, Word
    <3>3. Halnote(HalnoteBank(hal, Page(a), v)) /\ HalnoteBank(hal, Page(a), v).sram = hal.sram
      BY <1>2, HalnoteBankFits
    <3> HIDE DEF new
    <3> QED BY <1>5, <2>1, <3>2, <3>3 DEF new
  <2>5. CASE a \notin {30719, 32767} /\ ~(MapPage(a) \in {1, 2} /\ a % 8192 = 4095)
    <3>1. new = hal  BY <1>7, <2>5 DEF HalnoteWrite, MapPage, Word
    <3> QED BY <1>5, <2>1, <3>1
  <2> QED BY <2>3, <2>4, <2>5
<1> QED BY <1>6, <1>7 DEF Word

\* No place of the firmware lies past its end.
LEMMA HalnotePlaceInside ==
  ASSUME NEW hal, Halnote(hal), NEW a \in Word, HalnotePlace(hal, a)[1] = "rom"
  PROVE  HalnotePlace(hal, a)[2] \in 0 .. HalnoteBlocks * BankSize - 1
<1>1. Inside(hal.win) /\ hal.win.blocks = HalnoteBlocks /\ hal.sub \in [1 .. 2 -> Byte]  BY DEF Halnote
<1>2. a >= 16384  BY DEF HalnotePlace, Open, Word
<1>3. CASE hal.sub_on /\ a \div 4096 = 7
  <2> DEFINE i == IF a < 30720 THEN 1 ELSE 2
             spot(x, y) == 524288 + 2048 * x + y
             last == HalnoteBlocks * BankSize
  <2>1. last \in Int  BY DEF HalnoteBlocks, BankSize
  <2>2. \A x, y \in Nat : x < 256 /\ y < 2048 =>
          spot(x, y) \in Int /\ 0 <= spot(x, y) /\ spot(x, y) < last
    BY DEF HalnoteBlocks, BankSize
  <2>3. HalnotePlace(hal, a) = <<"rom", spot(hal.sub[i], a % 2048)>>
    BY <1>2, <1>3 DEF HalnotePlace, Word
  <2>4. hal.sub[i] \in Nat /\ hal.sub[i] < 256  BY <1>1 DEF Byte
  <2>5. a % 2048 \in Nat /\ a % 2048 < 2048  BY DEF Word
  <2> HIDE DEF i, spot, last
  <2>6. HalnotePlace(hal, a)[2] \in 0 .. last - 1  BY <2>1, <2>2, <2>3, <2>4, <2>5
  <2> QED BY <2>6 DEF last
<1>4. CASE ~(hal.sub_on /\ a \div 4096 = 7)
  <2>1. HalnotePlace(hal, a) = WindowPlace(hal.win, a)  BY <1>2, <1>4 DEF HalnotePlace, Word
  <2> QED BY <1>1, <2>1, WindowPlaceInside
<1> QED BY <1>3, <1>4

-----------------------------------------------------------------------------
\* The map: each register in its range, and in each slot nothing or a
\* cartridge that fits.
Slot(cart) == cart = NoCart \/ Fits(cart)
MapOk(m, s) ==
  /\ m \in [primary : Byte, sub : [0 .. 3 -> Byte], segment : [0 .. 3 -> Byte],
            ram : [(0 .. RamSegments - 1) \X CellOffsets(s) -> Byte],
            halnote : {m.halnote}, cart1 : {m.cart1}, cart2 : {m.cart2}]
  /\ Halnote(m.halnote) /\ Slot(m.cart1) /\ Slot(m.cart2)
Devices == {"halnote", "cart1", "cart2"}

\* What a map that differs in one field is.
LEMMA MapChanges ==
  ASSUME NEW s, NEW m, MapOk(m, s)
  PROVE  /\ \A v \in Byte : MapOk([m EXCEPT !.primary = v], s)
         /\ \A f \in [0 .. 3 -> Byte] : MapOk([m EXCEPT !.sub = f], s) /\ MapOk([m EXCEPT !.segment = f], s)
         /\ \A f \in [(0 .. RamSegments - 1) \X CellOffsets(s) -> Byte] : MapOk([m EXCEPT !.ram = f], s)
         /\ \A h : Halnote(h) => MapOk([m EXCEPT !.halnote = h], s)
         /\ \A c : Slot(c) => MapOk([m EXCEPT !.cart1 = c], s) /\ MapOk([m EXCEPT !.cart2 = c], s)
BY DEF MapOk

\* What putting a cartridge in slot d changes, and what it leaves.
LEMMA SlotOf ==
  ASSUME NEW s, NEW m, MapOk(m, s), NEW d \in {"cart1", "cart2"}
  PROVE  /\ Slot(m[d])
         /\ \A c : Slot(c) => /\ MapOk([m EXCEPT ![d] = c], s) /\ [m EXCEPT ![d] = c][d] = c
                              /\ [m EXCEPT ![d] = c].ram = m.ram /\ [m EXCEPT ![d] = c].sub = m.sub
                              /\ \A e \in Devices \ {d} : [m EXCEPT ![d] = c][e] = m[e]
<1>1. CASE d = "cart1"
  <2>1. \A c : Slot(c) => MapOk([m EXCEPT !["cart1"] = c], s)  BY MapChanges
  <2>2. Slot(m["cart1"])  BY DEF MapOk
  <2> QED BY <1>1, <2>1, <2>2 DEF MapOk, Devices
<1>2. CASE d = "cart2"
  <2>1. \A c : Slot(c) => MapOk([m EXCEPT !["cart2"] = c], s)  BY MapChanges
  <2>2. Slot(m["cart2"])  BY DEF MapOk
  <2> QED BY <1>2, <2>1, <2>2 DEF MapOk, Devices
<1> QED BY <1>1, <1>2

-----------------------------------------------------------------------------
\* A write is for one place: every cell but the one at the place keeps its
\* byte, and so does every other device.
OnlyAt(new, m, p, v) ==
  /\ \A c \in Cells(m) : Holds(new, c) = IF c # p THEN Holds(m, c)
                                         ELSE IF c[1] = "subslot" THEN 255 - v ELSE v
  /\ \A d \in Devices \ {p[1]} : new[d] = m[d]
Kept(new, m, p, v) ==
  /\ \A k \in DOMAIN m.ram :
       new.ram[k] = IF p = <<"ram", <<"ram", k[1], k[2]>>>> THEN v ELSE m.ram[k]
  /\ \A q \in 0 .. 3 : new.sub[q] = IF p = <<"subslot", <<"register", q>>>> THEN v ELSE m.sub[q]
  /\ \A d \in Devices : m[d] # NoCart =>
       \A o \in DOMAIN m[d].sram : new[d].sram[o] = IF p = <<d, <<"sram", o>>>> THEN v ELSE m[d].sram[o]
  /\ \A d \in Devices \ {p[1]} : new[d] = m[d]

\* What the fields keep, said of the cells.
LEMMA CellsKept ==
  ASSUME NEW s, NEW m, MapOk(m, s), NEW new, NEW p, NEW v \in Byte, Kept(new, m, p, v)
  PROVE  OnlyAt(new, m, p, v)
<1>1. ASSUME NEW c \in Cells(m)
      PROVE  Holds(new, c) = IF c # p THEN Holds(m, c) ELSE IF c[1] = "subslot" THEN 255 - v ELSE v
  <2>1. CASE \E k \in DOMAIN m.ram : c = <<"ram", <<"ram", k[1], k[2]>>>>
    <3>1. PICK k \in DOMAIN m.ram : c = <<"ram", <<"ram", k[1], k[2]>>>>  BY <2>1
    <3>2. <<k[1], k[2]>> = k  BY DEF MapOk
    <3>3. Holds(new, c) = new.ram[k] /\ Holds(m, c) = m.ram[k] /\ c[1] # "subslot"  BY <3>1, <3>2 DEF Holds
    <3> QED BY <3>1, <3>3 DEF Kept
  <2>2. CASE \E q \in DOMAIN m.sub : c = <<"subslot", <<"register", q>>>>
    <3>1. PICK q \in 0 .. 3 : c = <<"subslot", <<"register", q>>>>  BY <2>2 DEF MapOk
    <3>3. Holds(new, c) = 255 - new.sub[q] /\ Holds(m, c) = 255 - m.sub[q] /\ c[1] = "subslot"
      BY <3>1 DEF Holds
    <3> QED BY <3>1, <3>3 DEF Kept
  <2>3. CASE \E d \in {x \in Devices : m[x] # NoCart} : \E o \in DOMAIN m[d].sram : c = <<d, <<"sram", o>>>>
    <3>1. PICK d \in {x \in Devices : m[x] # NoCart} : \E o \in DOMAIN m[d].sram : c = <<d, <<"sram", o>>>>
      BY <2>3
    <3>2. PICK o \in DOMAIN m[d].sram : c = <<d, <<"sram", o>>>>  BY <3>1
    <3>3. Holds(new, c) = new[d].sram[o] /\ Holds(m, c) = m[d].sram[o] /\ c[1] # "subslot"
      BY <3>1, <3>2 DEF Holds, Devices
    <3> QED BY <3>1, <3>2, <3>3 DEF Kept
  <2> QED BY <2>1, <2>2, <2>3 DEF Cells, Devices
<1> QED BY <1>1 DEF OnlyAt, Kept

\* What stands in a slot after a write to it.
LEMMA SlotWritten ==
  ASSUME NEW cart, Slot(cart), NEW a \in Word, NEW v \in Byte
  PROVE  /\ Slot(CartWrite(cart, a, v))
         /\ cart # NoCart => \A o \in DOMAIN cart.sram :
              CartWrite(cart, a, v).sram[o] = IF CartPlace(cart, a) = <<"sram", o>> THEN v ELSE cart.sram[o]
<1>1. CASE cart = NoCart
  <2>1. CartWrite(cart, a, v) = cart  BY <1>1 DEF CartWrite, NoCart
  <2> QED BY <1>1, <2>1 DEF Slot
<1>2. CASE cart # NoCart
  <2>1. Fits(cart)  BY <1>2 DEF Slot
  <2>2. DOMAIN cart.sram = SramOffsets  BY <2>1 DEF Fits, Cartridge
  <2> QED BY <2>1, <2>2, CartridgeFits DEF Slot, Stored
<1> QED BY <1>1, <1>2

\* A write of the CPU, by the device that is selected at its address.
LEMMA WriteKeeps ==
  ASSUME NEW s, NEW m, MapOk(m, s), NEW a \in Word, NEW v \in Byte
  PROVE  MapOk(Written(m, a, v), s) /\ Kept(Written(m, a, v), m, Place(m, a), v)
<1> DEFINE new == Written(m, a, v)
           p == Place(m, a)
           dev == Device(m, a)
           reg == PrimaryFor(m, 3)
<1>0. RamSegments \in Nat \ {0}  BY SegmentsAssumption
<1>1. CASE IsSubSlotRegister(m, a)
  <2>1. reg \in 0 .. 3  BY <1>1 DEF IsSubSlotRegister, Expanded
  <2>2. new = [m EXCEPT !.sub[reg] = v] /\ p = <<"subslot", <<"register", reg>>>>
    BY <1>1 DEF Written, Place
  <2> HIDE DEF reg, new, p
  <2>3. m.sub \in [0 .. 3 -> Byte]  BY DEF MapOk
  <2>4. [m.sub EXCEPT ![reg] = v] \in [0 .. 3 -> Byte]  BY <2>3
  <2>5. new = [m EXCEPT !.sub = [m.sub EXCEPT ![reg] = v]]  BY <2>2
  <2>6. MapOk(new, s)  BY <2>4, <2>5, MapChanges
  <2>7. /\ new.sub = [m.sub EXCEPT ![reg] = v] /\ new.ram = m.ram
        /\ \A d \in Devices : new[d] = m[d]
    BY <2>5 DEF MapOk, Devices
  <2>8. Kept(new, m, p, v)
    <3>1. \A q \in 0 .. 3 : p = <<"subslot", <<"register", q>>>> <=> q = reg  BY <2>2
    <3>2. \A q \in 0 .. 3 : new.sub[q] = IF q = reg THEN v ELSE m.sub[q]  BY <2>3, <2>7
    <3>3. p[1] = "subslot"  BY <2>2
    <3> QED BY <2>7, <3>1, <3>2, <3>3 DEF Kept, Devices
  <2> QED BY <2>6, <2>8 DEF new, p
<1>2. CASE ~IsSubSlotRegister(m, a) /\ dev = "ram"
  <2> DEFINE k == <<Folded(m.segment[MapPage(a)]), a % 16384>>
  <2>1. new = [m EXCEPT !.ram[k] = v] /\ p = <<"ram", <<"ram", k[1], k[2]>>>>
    BY <1>2 DEF Written, Place, RamPlace
  <2>2. k = <<k[1], k[2]>>  OBVIOUS
  <2> HIDE DEF k, new, p
  <2>3. m.ram \in [(0 .. RamSegments - 1) \X CellOffsets(s) -> Byte]  BY DEF MapOk
  <2>4. [m.ram EXCEPT ![k] = v] \in [(0 .. RamSegments - 1) \X CellOffsets(s) -> Byte]  BY <2>3
  <2>5. new = [m EXCEPT !.ram = [m.ram EXCEPT ![k] = v]]  BY <2>1
  <2>6. MapOk(new, s)  BY <2>4, <2>5, MapChanges
  <2>7. /\ new.ram = [m.ram EXCEPT ![k] = v] /\ new.sub = m.sub
        /\ \A d \in Devices : new[d] = m[d]
    BY <2>5 DEF MapOk, Devices
  <2>8. Kept(new, m, p, v)
    <3>1. \A j \in DOMAIN m.ram : p = <<"ram", <<"ram", j[1], j[2]>>>> <=> j = k
      <4>1. \A j \in DOMAIN m.ram : j = <<j[1], j[2]>>  BY <2>3
      <4> QED BY <2>1, <2>2, <4>1
    <3>2. \A j \in DOMAIN m.ram : new.ram[j] = IF j = k THEN v ELSE m.ram[j]  BY <2>3, <2>7
    <3>3. p[1] = "ram"  BY <2>1
    <3> QED BY <2>7, <3>1, <3>2, <3>3 DEF Kept, Devices
  <2> QED BY <2>6, <2>8 DEF new, p
<1>3. CASE ~IsSubSlotRegister(m, a) /\ dev = "halnote"
  <2> DEFINE hal == HalnoteWrite(m.halnote, a, v)
  <2>1. new = [m EXCEPT !.halnote = hal] /\ p = <<"halnote", HalnotePlace(m.halnote, a)>>
    BY <1>3 DEF Written, Place
  <2>2. /\ Halnote(hal)
        /\ \A o \in DOMAIN m.halnote.sram :
             hal.sram[o] = IF HalnotePlace(m.halnote, a) = <<"sram", o>> THEN v ELSE m.halnote.sram[o]
    <3>1. Halnote(m.halnote)  BY DEF MapOk
    <3> QED BY <3>1, HalnoteFits
  <2> HIDE DEF hal, new, p
  <2>3. MapOk(new, s)  BY <2>1, <2>2, MapChanges
  <2>4. /\ new.halnote = hal /\ new.ram = m.ram /\ new.sub = m.sub
        /\ \A d \in {"cart1", "cart2"} : new[d] = m[d]
    BY <2>1 DEF MapOk
  <2>5. Kept(new, m, p, v)
    <3>1. p[1] = "halnote"  BY <2>1
    <3>2. \A o \in DOMAIN m.halnote.sram :
            new.halnote.sram[o] = IF p = <<"halnote", <<"sram", o>>>> THEN v ELSE m.halnote.sram[o]
      BY <2>1, <2>2, <2>4
    <3> QED BY <2>4, <3>1, <3>2 DEF Kept, Devices
  <2> QED BY <2>3, <2>5 DEF new, p
<1>4. CASE ~IsSubSlotRegister(m, a) /\ dev \in {"cart1", "cart2"}
  <2> DEFINE cart == CartWrite(m[dev], a, v)
  <2>1. new = [m EXCEPT ![dev] = cart] /\ p = <<dev, CartPlace(m[dev], a)>>
    BY <1>4 DEF Written, Place
  <2>2. Slot(m[dev])  BY <1>4, SlotOf
  <2>3. /\ Slot(cart)
        /\ m[dev] # NoCart => \A o \in DOMAIN m[dev].sram :
             cart.sram[o] = IF CartPlace(m[dev], a) = <<"sram", o>> THEN v ELSE m[dev].sram[o]
    <3> HIDE DEF dev
    <3> QED BY <2>2, SlotWritten
  <2> HIDE DEF cart, dev, new, p
  <2>4. /\ MapOk(new, s) /\ new[dev] = cart /\ new.ram = m.ram /\ new.sub = m.sub
        /\ \A e \in Devices \ {dev} : new[e] = m[e]
    <3>1. dev \in {"cart1", "cart2"}  BY <1>4
    <3>2. \A c : Slot(c) => /\ MapOk([m EXCEPT ![dev] = c], s) /\ [m EXCEPT ![dev] = c][dev] = c
                             /\ [m EXCEPT ![dev] = c].ram = m.ram /\ [m EXCEPT ![dev] = c].sub = m.sub
                             /\ \A e \in Devices \ {dev} : [m EXCEPT ![dev] = c][e] = m[e]
      BY <3>1, SlotOf
    <3> QED BY <2>1, <2>3, <3>2
  <2>5. Kept(new, m, p, v)  BY <1>4, <2>1, <2>3, <2>4 DEF Kept, Devices
  <2> QED BY <2>4, <2>5 DEF new, p
<1>5. CASE ~IsSubSlotRegister(m, a) /\ dev \notin {"ram", "halnote", "cart1", "cart2"}
  <2>1. new = m  BY <1>5 DEF Written
  <2>2. \E x : p = <<dev, x>>  BY <1>5 DEF Place
  <2>3. dev \in {"bios", "subrom", "kanji", "fdc", "fmmusic", "none"}  BY <1>5 DEF Device, Attached
  <2> HIDE DEF dev, new, p
  <2>4. p[1] \notin {"ram", "subslot", "halnote", "cart1", "cart2"}  BY <2>2, <2>3
  <2>5. Kept(m, m, p, v)  BY <2>4 DEF Kept, Devices
  <2> QED BY <2>1, <2>5 DEF new, p
<1> QED BY <1>1, <1>2, <1>3, <1>4, <1>5

-----------------------------------------------------------------------------
\* No read leaves what it is for.
LEMMA ReadsStayInside ==
  ASSUME NEW s, MapOk(map, s), NEW a \in Word
  PROVE  LET p == Place(map, a)
         IN  /\ p[2][1] = "rom" => p[2][2] \in 0 .. RomSpace(p[1]) - 1
             /\ p[2][1] = "ram" => p[2][2] \in 0 .. RamSegments - 1
<1> DEFINE p == Place(map, a)
           dev == Device(map, a)
<1>0. RamSegments \in Nat \ {0}  BY SegmentsAssumption
<1>1. CASE IsSubSlotRegister(map, a)
  <2>1. \E x : p = <<"subslot", <<"register", x>>>>  BY <1>1 DEF Place
  <2> QED BY <2>1
<1>2. CASE ~IsSubSlotRegister(map, a) /\ dev = "ram"
  <2>1. p[2] = <<"ram", Folded(map.segment[MapPage(a)]), a % 16384>>  BY <1>2 DEF Place, RamPlace
  <2>2. map.segment[MapPage(a)] \in Nat  BY PageIn DEF MapOk, Byte
  <2>3. Folded(map.segment[MapPage(a)]) \in 0 .. RamSegments - 1  BY <1>0, <2>2 DEF Folded
  <2> HIDE DEF p
  <2> QED BY <2>1, <2>3 DEF p
<1>3. CASE ~IsSubSlotRegister(map, a) /\ dev = "halnote"
  <2>1. p = <<"halnote", HalnotePlace(map.halnote, a)>>  BY <1>3 DEF Place
  <2>2. Halnote(map.halnote)  BY DEF MapOk
  <2>3. HalnotePlace(map.halnote, a)[1] # "ram"  BY DEF HalnotePlace, WindowPlace, Open
  <2>4. RomSpace("halnote") = HalnoteBlocks * BankSize  BY DEF RomSpace
  <2> QED BY <2>1, <2>2, <2>3, <2>4, HalnotePlaceInside
<1>4. CASE ~IsSubSlotRegister(map, a) /\ dev \in {"cart1", "cart2"}
  <2>1. p = <<dev, CartPlace(map[dev], a)>>  BY <1>4 DEF Place
  <2>2. Slot(map[dev])  BY <1>4, SlotOf
  <2>3. CartPlace(map[dev], a)[1] # "ram"  BY DEF CartPlace, FmPacPlace, WindowPlace, Open
  <2>4. RomSpace(dev) = map[dev].win.blocks * BankSize  BY <1>4 DEF RomSpace
  <2>5. map[dev] = NoCart => CartPlace(map[dev], a) = <<"open">>  BY DEF CartPlace, NoCart, Open
  <2> HIDE DEF dev, p
  <2>6. map[dev] # NoCart => Fits(map[dev])  BY <2>2 DEF Slot
  <2>7. CartPlace(map[dev], a)[1] = "rom" =>
          CartPlace(map[dev], a)[2] \in 0 .. map[dev].win.blocks * BankSize - 1
    BY <2>5, <2>6, CartPlaceInside
  <2> QED BY <2>1, <2>3, <2>4, <2>7 DEF p
<1>5. CASE ~IsSubSlotRegister(map, a) /\ dev \in {"none", "fdc"}
  <2>1. p[2][1] \in {"open", "register"}  BY <1>5 DEF Place, Open
  <2> QED BY <2>1
<1>6. CASE ~IsSubSlotRegister(map, a) /\ dev \in {"bios", "subrom", "kanji", "fmmusic"}
  <2>1. p = <<dev, RomPlace(dev, a)>>  BY <1>6 DEF Place
  <2>2. RomSpace(dev) = RomSize[dev]  BY <1>6 DEF RomSpace
  <2>3. RomBase[dev] \in Nat /\ RomSize[dev] \in Nat  BY <1>6 DEF RomBase, RomSize
  <2>4. a \in Nat  BY DEF Word
  <2> HIDE DEF dev, p
  <2>5. RomPlace(dev, a)[1] = "rom" => RomPlace(dev, a)[2] \in 0 .. RomSize[dev] - 1
    BY <2>3, <2>4 DEF RomPlace, Open
  <2>6. RomPlace(dev, a)[1] # "ram"  BY DEF RomPlace, Open
  <2> QED BY <2>1, <2>2, <2>5, <2>6 DEF p
<1>7. dev \in {"ram", "halnote", "cart1", "cart2", "none", "fdc", "bios", "subrom", "kanji", "fmmusic"}
  BY DEF Device, Attached
<1> QED BY <1>1, <1>2, <1>3, <1>4, <1>5, <1>6, <1>7

\* What fits in the slots gives the two properties about cartridges.
LEMMA SlotsSafe ==
  ASSUME NEW s, MapOk(map, s)
  PROVE  /\ SramNeedsKeys
         /\ \A dev \in {"cart1", "cart2"} : map[dev].type \in {"Konami", "KonamiSCC"} =>
              \A page \in 2 .. 5 :
                map[dev].win.bank[page] = map[dev].win.bank[Mirror(map[dev].type, page)]
<1> SUFFICES ASSUME NEW d \in {"cart1", "cart2"}
             PROVE  /\ map[d].type = "FmPac" /\ map[d].sram_on => Keys(map[d])
                    /\ map[d].type \in {"Konami", "KonamiSCC"} => Mirrors(map[d].type, map[d].win)
  BY DEF SramNeedsKeys, Keys, Mirrors
<1>1. Slot(map[d])  BY SlotOf
<1>2. NoCart.type = "none"  BY DEF NoCart
<1> QED BY <1>1, <1>2 DEF Slot, Fits, Keys

\* The map after power-on is in shape.
LEMMA BlankOk == ASSUME NEW s  PROVE MapOk(BlankMap(s), s)
<1> DEFINE m == BlankMap(s)
           hal == ResetHalnote([sram |-> [o \in {a \in Addresses(s) : a < 16384} |-> 0]])
<1>1. Halnote(hal)  BY ResetHalnoteFits
<1> HIDE DEF hal
<1>2. m = [primary |-> 0, sub |-> [q \in 0 .. 3 |-> 0], segment |-> [q \in 0 .. 3 |-> 0],
           ram |-> [c \in (0 .. RamSegments - 1) \X CellOffsets(s) |-> 0],
           halnote |-> hal, cart1 |-> NoCart, cart2 |-> NoCart]
  BY DEF BlankMap, hal
<1> HIDE DEF m
<1>3. m.halnote = hal /\ m.cart1 = NoCart /\ m.cart2 = NoCart  BY <1>2
<1>4. 0 \in Byte  BY DEF Byte
<1>5. m \in [primary : Byte, sub : [0 .. 3 -> Byte], segment : [0 .. 3 -> Byte],
             ram : [(0 .. RamSegments - 1) \X CellOffsets(s) -> Byte],
             halnote : {m.halnote}, cart1 : {m.cart1}, cart2 : {m.cart2}]
  BY <1>2, <1>3, <1>4
<1> QED BY <1>1, <1>3, <1>5 DEF MapOk, Slot, m

\* A cold boot resets what is in a slot.
LEMMA ResetSlotFits == ASSUME NEW cart, Slot(cart)  PROVE Slot(ResetSlot(cart))
BY ResetFits DEF Slot, ResetSlot, Fits

\* CartridgeSlot::load puts a cartridge in that fits, or leaves what is there.
LEMMA LoadFits ==
  ASSUME NEW cart, Slot(cart), NEW type \in CartTypes, NEW blocks \in Word
  PROVE  Slot(Load(cart, type, blocks))
BY NewFits DEF Slot, Load

-----------------------------------------------------------------------------
\* The inductive invariant of the memory map.
MapInv == scene \in Scenes /\ MapOk(map, scene)

\* Every step of a guest keeps the map in shape.
LEMMA MapSteps == MapInv /\ [MapNext]_map_vars => MapInv'
<1> SUFFICES ASSUME MapInv, [MapNext]_map_vars  PROVE MapInv'  OBVIOUS
<1>0. scene \in Scenes /\ MapOk(map, scene)  BY DEF MapInv
<1>a. /\ scene.slots \subseteq {"cart1", "cart2"}
      /\ scene.cart[1] \in CartTypes /\ scene.cart[2] \subseteq Word
      /\ scene.writes \subseteq Word \X Byte
      /\ scene.selects \subseteq Byte /\ scene.segments \subseteq Byte
  BY <1>0, ScenesAssumption
<1>b. SUFFICES scene' = scene /\ MapOk(map', scene)  BY <1>0 DEF MapInv
<1>1. CASE SelectPrimary
  <2>1. PICK v \in scene.selects : map' = [map EXCEPT !.primary = v]  BY <1>1 DEF SelectPrimary
  <2>2. MapOk(map', scene)  BY <1>0, <1>a, <2>1, MapChanges
  <2> QED BY <1>1, <2>2 DEF SelectPrimary
<1>2. CASE SelectSegment
  <2>1. PICK page \in 0 .. 3, v \in scene.segments : map' = [map EXCEPT !.segment[page] = v]
    BY <1>2 DEF SelectSegment
  <2>2. map.segment \in [0 .. 3 -> Byte]  BY <1>0 DEF MapOk
  <2>3. [map.segment EXCEPT ![page] = v] \in [0 .. 3 -> Byte]  BY <1>a, <2>2
  <2>4. map' = [map EXCEPT !.segment = [map.segment EXCEPT ![page] = v]]  BY <2>1
  <2>5. MapOk(map', scene)  BY <1>0, <2>3, <2>4, MapChanges
  <2> QED BY <1>2, <2>5 DEF SelectSegment
<1>3. CASE WriteMemory
  <2>1. PICK w \in scene.writes : map' = Written(map, w[1], w[2])  BY <1>3 DEF WriteMemory
  <2>2. w[1] \in Word /\ w[2] \in Byte  BY <1>a
  <2>3. MapOk(map', scene)  BY <1>0, <2>1, <2>2, WriteKeeps
  <2> QED BY <1>3, <2>3 DEF WriteMemory
<1>4. CASE ReadMemory
  <2>1. PICK w \in scene.writes, dev \in {"cart1", "cart2"} :
          /\ Device(map, w[1]) = dev
          /\ map' = [map EXCEPT ![dev] = AfterCartRead(map[dev], w[1])]
    BY <1>4 DEF ReadMemory
  <2>2. Slot(map[dev])  BY <1>0, SlotOf
  <2>3. Slot(AfterCartRead(map[dev], w[1]))
    <3>1. map[dev] = NoCart => AfterCartRead(map[dev], w[1]) = map[dev]  BY DEF AfterCartRead, NoCart
    <3> QED BY <2>2, <3>1, ReadFits DEF Slot
  <2>4. MapOk(map', scene)
    <3> DEFINE cart == AfterCartRead(map[dev], w[1])
    <3> HIDE DEF cart
    <3>1. Slot(cart) /\ map' = [map EXCEPT ![dev] = cart]  BY <2>1, <2>3 DEF cart
    <3> QED BY <1>0, <3>1, SlotOf
  <2> QED BY <1>4, <2>4 DEF ReadMemory
<1>5. CASE InsertCartridge
  <2>1. PICK dev \in scene.slots, blocks \in scene.cart[2] :
          map' = [map EXCEPT ![dev] = Load(map[dev], scene.cart[1], blocks)]
    BY <1>5 DEF InsertCartridge
  <2>2. dev \in {"cart1", "cart2"} /\ blocks \in Word  BY <1>a
  <2> DEFINE cart == Load(map[dev], scene.cart[1], blocks)
  <2>3. Slot(map[dev])  BY <1>0, <2>2, SlotOf
  <2>4. Slot(cart)  BY <1>a, <2>2, <2>3, LoadFits
  <2> HIDE DEF cart
  <2>5. map' = [map EXCEPT ![dev] = cart]  BY <2>1 DEF cart
  <2>6. MapOk(map', scene)  BY <1>0, <2>2, <2>4, <2>5, SlotOf
  <2> QED BY <1>5, <2>6 DEF InsertCartridge
<1>6. CASE RemoveCartridge
  <2>1. PICK dev \in scene.slots : map' = [map EXCEPT ![dev] = NoCart]  BY <1>6 DEF RemoveCartridge
  <2>2. dev \in {"cart1", "cart2"} /\ Slot(NoCart)  BY <1>a DEF Slot
  <2>3. MapOk(map', scene)  BY <1>0, <2>1, <2>2, SlotOf
  <2> QED BY <1>6, <2>3 DEF RemoveCartridge
<1>7. CASE BootMap
  <2> DEFINE c1 == ResetSlot(map.cart1)
             c2 == ResetSlot(map.cart2)
             blank == BlankMap(scene)
             one == [blank EXCEPT !.cart1 = c1]
             two == [one EXCEPT !.cart2 = c2]
  <2>1. Slot(c1) /\ Slot(c2) /\ map.segment \in [0 .. 3 -> Byte]  BY <1>0, ResetSlotFits DEF MapOk
  <2>2. MapOk(blank, scene)  BY BlankOk
  <2>3. map' = [two EXCEPT !.segment = map.segment]  BY <1>7 DEF BootMap
  <2> HIDE DEF c1, c2, blank
  <2>4. MapOk(one, scene)  BY <2>1, <2>2, MapChanges
  <2> HIDE DEF one
  <2>5. MapOk(two, scene)  BY <2>1, <2>4, MapChanges
  <2> HIDE DEF two
  <2>6. MapOk(map', scene)  BY <2>1, <2>3, <2>5, MapChanges
  <2> QED BY <1>7, <2>6 DEF BootMap
<1>8. CASE UNCHANGED map_vars  BY <1>0, <1>8 DEF map_vars
<1> QED BY <1>1, <1>2, <1>3, <1>4, <1>5, <1>6, <1>7, <1>8 DEF MapNext

\* What a write leaves, said of the step that makes it.
LEMMA WritesOnePlace ==
  MapInv /\ [MapNext]_map_vars => [wrote' # NoWriteYet =>
       LET p == wrote'.place
       IN  /\ \A c \in Cells(map) :
                Holds(map', c) = IF c # p THEN Holds(map, c)
                                 ELSE IF c[1] = "subslot" THEN 255 - wrote'.value ELSE wrote'.value
           /\ \A d \in {"halnote", "cart1", "cart2"} \ {p[1]} : map'[d] = map[d]]_map_vars
<1> SUFFICES ASSUME MapInv, MapNext, wrote' # NoWriteYet
             PROVE  OnlyAt(map', map, wrote'.place, wrote'.value)
  BY DEF OnlyAt, Devices
<1>1. WriteMemory
  BY DEF MapNext, SelectPrimary, SelectSegment, ReadMemory, InsertCartridge, RemoveCartridge, BootMap
<1>2. PICK w \in scene.writes :
        /\ map' = Written(map, w[1], w[2])
        /\ wrote' = [at |-> w[1], value |-> w[2], place |-> Place(map, w[1])]
  BY <1>1 DEF WriteMemory
<1>3. MapOk(map, scene) /\ w[1] \in Word /\ w[2] \in Byte  BY ScenesAssumption DEF MapInv
<1>4. OnlyAt(map', map, Place(map, w[1]), w[2])  BY <1>2, <1>3, WriteKeeps, CellsKept
<1> QED BY <1>2, <1>4

\* For every guest: no read leaves the image, the battery RAM or the segments
\* it is for, the FM-PAC's battery RAM shows only while both keys stand, and
\* a write changes the one place it is for (slot_bus.cpp, cartridge/*.cpp).
THEOREM MemoryIsMapped == MapSpec => MapExact
<1>1. MapInit => MapInv  BY BlankOk DEF MapInit, MapInv
<1>2. MapInv => ReadsInside /\ SramNeedsKeys
  <2> SUFFICES ASSUME MapInv  PROVE ReadsInside /\ SramNeedsKeys  OBVIOUS
  <2>1. scene \in Scenes /\ MapOk(map, scene)  BY DEF MapInv
  <2>2. \A w \in scene.writes : w[1] \in Word  BY <2>1, ScenesAssumption
  <2> QED BY <2>1, <2>2, ReadsStayInside, SlotsSafe DEF ReadsInside
<1> QED BY <1>1, <1>2, MapSteps, WritesOnePlace, PTL DEF MapSpec, MapExact, OnePlaceWritten

(***************************************************************************)
(* The ports of the VDP.                                                   *)
(***************************************************************************)

\* The addresses of the memory, and the values of the pointer.
VideoAddresses == {a \in Nat : a < VramSize}
Pointers == {p \in Nat : p < 16 * K}

\* The pointer and the page of R#14.
NextOf(p) == (p + 1) % (16 * K)
PageOf(r) == (16 * K * r) % VramSize

\* R#14 counts pages of 16K.
LEMMA PageIs ==
  ASSUME NEW r \in Byte
  PROVE  PageOf(r) = 16 * K * (r % 8) /\ r % 8 \in 0 .. 7
BY SMT DEF PageOf, K, VramSize, Byte

\* The pointer steps by one and wraps round at 16K.
LEMMA NextIs ==
  ASSUME NEW p \in Pointers
  PROVE  /\ NextOf(p) = IF p = 16 * K - 1 THEN 0 ELSE p + 1
         /\ NextOf(p) \in Pointers
BY SMT DEF NextOf, K, Pointers

\* An address is in the memory.
LEMMA LinearIn ==
  ASSUME NEW r \in Byte, NEW p \in Pointers
  PROVE  PageOf(r) + p \in VideoAddresses
<1>1. PICK q \in 0 .. 7 : PageOf(r) = 16 * K * q
  BY PageIs, Zenon
<1>2. 16 * K * q + p \in VideoAddresses
  BY SMT DEF VideoAddresses, Pointers, K, VramSize
<1> QED
  BY <1>1, <1>2, Zenon

\* Within a page the pointer steps by one and wraps round.
LEMMA StepInPage ==
  ASSUME NEW r \in Byte, NEW p \in Pointers
  PROVE  LET at == PageOf(r) + p
         IN  (at - (at % (16 * K))) + ((at + 1) % (16 * K)) = PageOf(r) + NextOf(p)
<1>1. PICK q \in 0 .. 7 : PageOf(r) = 16 * K * q
  BY PageIs, Zenon
<1>2. LET at == 16 * K * q + p
      IN  (at - (at % (16 * K))) + ((at + 1) % (16 * K)) = 16 * K * q + NextOf(p)
  BY SMT DEF Pointers, NextOf, K
<1> QED
  BY <1>1, <1>2, Zenon

\* With the carry it steps through the whole memory.
LEMMA StepInMemory ==
  ASSUME NEW r \in Byte, NEW p \in Pointers
  PROVE  ((PageOf(r) + p) + 1) % VramSize
           = IF NextOf(p) = 0 THEN PageOf((r + 1) % 8) + NextOf(p) ELSE PageOf(r) + NextOf(p)
<1>1. PICK q \in 0 .. 7 : PageOf(r) = 16 * K * q /\ q = r % 8
  BY PageIs, Zenon
<1>2. PICK next \in Byte : next = (r + 1) % 8
  BY SMT DEF Byte
<1>3. next = (q + 1) % 8 /\ next % 8 = next
  BY <1>1, <1>2, SMT DEF Byte
<1>4. PageOf(next) = 16 * K * next
  BY PageIs, <1>3, SMT
<1>5. CASE NextOf(p) = 0
  <2>1. ((16 * K * q + p) + 1) % VramSize = 16 * K * next + 0
    BY <1>3, <1>5, SMT DEF Pointers, NextOf, K, VramSize
  <2> QED
    BY <1>1, <1>2, <1>4, <1>5, <2>1, Zenon
<1>6. CASE NextOf(p) # 0
  <2>1. ((16 * K * q + p) + 1) % VramSize = 16 * K * q + NextOf(p)
    BY <1>6, SMT DEF Pointers, NextOf, K, VramSize
  <2> QED
    BY <1>1, <1>6, <2>1, Zenon
<1> QED
  BY <1>5, <1>6, Zenon

\* The fields of the record.
Fields(v) ==
  [regs |-> v.regs, steps |-> v.steps, left |-> v.left, vram |-> v.vram, palette |-> v.palette,
   blink |-> v.blink, latch |-> v.latch, register_stored |-> v.register_stored,
   palette_stored |-> v.palette_stored, pointer |-> v.pointer, ahead |-> v.ahead,
   sprites |-> v.sprites, beam |-> v.beam, last |-> v.last, flat |-> v.flat,
   cursor |-> v.cursor, held |-> v.held, cleared |-> v.cleared]

\* The chip: its registers and latch are bytes, its pointer has 14 bits.
Chip(v) ==
  /\ v = Fields(v)
  /\ v.regs \in [0 .. 31 -> Byte] /\ v.pointer \in Pointers /\ v.latch \in Byte
  /\ v.register_stored \in BOOLEAN /\ v.palette_stored \in BOOLEAN
  /\ v.palette = [i \in 0 .. 15 |-> v.palette[i]]

\* What a step on the way leaves to the steps that come before and after it.
Alike(v, w) == w.steps = v.steps /\ w.flat = v.flat /\ w.palette_stored = v.palette_stored

\* Where the byte of an address is: in its bank in the planar modes.
PlaceOf(v, a) == IF IsPlanarBase(Base(v)) THEN PlanarAddress(a) ELSE a

\* Where the memory is depends on the mode bits of R#0 and R#1 alone.
LEMMA RegsOnly ==
  ASSUME NEW v, NEW w, v.regs[0] = w.regs[0], v.regs[1] = w.regs[1]
  PROVE  Base(v) = Base(w) /\ \A a : PlaceOf(v, a) = PlaceOf(w, a) /\ After(a, v) = After(a, w)
BY DEF Base, PlaceOf, After

\* advance_vram_pointer: the address goes to the next one, and nothing else
\* changes but R#14.
LEMMA AdvancedChip ==
  ASSUME NEW v, NEW w, Chip(v), w = Advanced(v)
  PROVE  /\ Chip(w) /\ Alike(v, w)
         /\ w.latch = v.latch /\ w.register_stored = v.register_stored
         /\ w.ahead = v.ahead /\ w.vram = v.vram /\ w.palette = v.palette
         /\ w.pointer = NextOf(v.pointer)
         /\ \A r \in 0 .. 31 \ {14} : w.regs[r] = v.regs[r]
         /\ LinearAddress(v) \in VideoAddresses
         /\ LinearAddress(w) = After(LinearAddress(v), v)
<1>1. PICK r \in Byte, p \in Pointers : r = v.regs[14] /\ p = v.pointer
  BY SMT DEF Chip
<1>2. PICK next \in Pointers : next = NextOf(p)
  BY NextIs, Zenon
<1>3. PICK more \in Byte : more = (r + 1) % 8
  BY SMT DEF Byte
<1>4. PICK carry \in BOOLEAN : carry = (next = 0 /\ IsV9938Base(Base(v)))
  OBVIOUS
<1>5. w = IF carry THEN [v EXCEPT !.pointer = next, !.regs[14] = more] ELSE [v EXCEPT !.pointer = next]
  BY <1>1, <1>2, <1>3, <1>4, Zenon DEF Advanced, NextOf, Chip, Fields
<1>6. PICK regs : regs = IF carry THEN [v.regs EXCEPT ![14] = more] ELSE v.regs
  OBVIOUS
<1>7. /\ w = Fields(w) /\ w.pointer = next /\ w.regs = regs
      /\ w.latch = v.latch /\ w.register_stored = v.register_stored
      /\ w.ahead = v.ahead /\ w.vram = v.vram
      /\ w.palette_stored = v.palette_stored /\ w.palette = v.palette
      /\ w.steps = v.steps /\ w.flat = v.flat
  <2>1. CASE carry
    <3>1. w = [v EXCEPT !.pointer = next, !.regs[14] = more]
      BY <1>5, <2>1, Zenon
    <3>2. v = Fields(v) /\ regs = [v.regs EXCEPT ![14] = more]
      BY <1>6, <2>1, Zenon DEF Chip
    <3> QED
      BY <3>1, <3>2 DEF Fields
  <2>2. CASE ~carry
    <3>1. w = [v EXCEPT !.pointer = next]
      BY <1>5, <2>2, Zenon
    <3>2. v = Fields(v) /\ regs = v.regs
      BY <1>6, <2>2, Zenon DEF Chip
    <3> QED
      BY <3>1, <3>2, SMT DEF Fields
  <2> QED
    BY <2>1, <2>2, Zenon
<1>8. regs \in [0 .. 31 -> Byte] /\ regs[14] = IF carry THEN more ELSE r
  BY <1>1, <1>6, SMT DEF Chip
<1>9. \A i \in 0 .. 31 \ {14} : w.regs[i] = v.regs[i]
  BY <1>6, <1>7, SMT DEF Chip
<1>10. Chip(w) /\ Alike(v, w)
  BY <1>7, <1>8, SMT DEF Chip, Alike
<1>11. LinearAddress(v) = PageOf(r) + p
  BY <1>1, Zenon DEF LinearAddress, PageOf
<1>12. LinearAddress(w) = IF carry THEN PageOf(more) + next ELSE PageOf(r) + next
  BY <1>7, <1>8, Zenon DEF LinearAddress, PageOf
<1>13. LinearAddress(w) = After(LinearAddress(v), v)
  <2>1. CASE IsV9938Base(Base(v))
    <3>1. (LinearAddress(v) + 1) % VramSize
            = IF NextOf(p) = 0 THEN PageOf((r + 1) % 8) + NextOf(p) ELSE PageOf(r) + NextOf(p)
      BY <1>11, StepInMemory, Zenon
    <3> QED
      BY <2>1, <3>1, <1>2, <1>3, <1>4, <1>12, Zenon DEF After
  <2>2. CASE ~IsV9938Base(Base(v))
    <3> DEFINE at == PageOf(r) + p
    <3>1. (at - (at % (16 * K))) + ((at + 1) % (16 * K)) = PageOf(r) + NextOf(p)
      BY StepInPage, Zenon
    <3> QED
      BY <2>2, <3>1, <1>11, <1>2, <1>4, <1>12, Zenon DEF After
  <2> QED
    BY <2>1, <2>2, Zenon
<1> QED
  BY <1>1, <1>2, <1>7, <1>9, <1>10, <1>11, <1>13, LinearIn, Zenon

-----------------------------------------------------------------------------
\* The banks of the planar modes are in the memory,
LEMMA PlanarIn ==
  ASSUME NEW a \in VideoAddresses
  PROVE  PlanarAddress(a) \in VideoAddresses
<1>1. a % VramSize = a
  BY SMT DEF VideoAddresses, K, VramSize
<1>2. a \div 2 \in Nat /\ 2 * (a \div 2) <= a /\ a % 2 \in {0, 1}
  BY SMT DEF VideoAddresses
<1>3. PICK q \in Nat, m \in {0, 1} : q = a \div 2 /\ m = a % 2 /\ 2 * q <= a
  BY <1>2, Zenon
<1>4. q + 65536 * m \in VideoAddresses
  BY <1>3, SMT DEF VideoAddresses, K, VramSize
<1>5. PlanarAddress(a) = q + 65536 * m
  BY <1>1, <1>3, SMT DEF PlanarAddress
<1> QED
  BY <1>4, <1>5, SMT

\* and no two addresses share a byte in them.
LEMMA PlanarOnce ==
  ASSUME NEW a \in VideoAddresses, NEW b \in VideoAddresses, PlanarAddress(a) = PlanarAddress(b)
  PROVE  a = b
<1>1. a % VramSize = a /\ b % VramSize = b
  BY SMT DEF VideoAddresses, K, VramSize
<1>2. PICK q \in Nat, m \in {0, 1} : q = a \div 2 /\ m = a % 2 /\ a = 2 * q + m
  BY SMT DEF VideoAddresses
<1>3. PICK r \in Nat, n \in {0, 1} : r = b \div 2 /\ n = b % 2 /\ b = 2 * r + n
  BY SMT DEF VideoAddresses
<1>4. q + 65536 * m = r + 65536 * n
  BY <1>1, <1>2, <1>3, SMT DEF PlanarAddress
<1>5. q < 65536 /\ r < 65536
  BY <1>2, <1>3, SMT DEF VideoAddresses, K, VramSize
<1> QED
  BY <1>2, <1>3, <1>4, <1>5, SMT

\* So an address has its byte in the memory, in either kind of mode,
LEMMA PlaceIn ==
  ASSUME NEW v, NEW a \in VideoAddresses
  PROVE  /\ PlaceOf(v, a) \in VideoAddresses
         /\ Vram(v, PlaceOf(v, a)) = VramRead(v.vram, PlaceOf(v, a))
<1>1. PlaceOf(v, a) \in VideoAddresses
  BY PlanarIn, Zenon DEF PlaceOf
<1>2. \A n \in VideoAddresses : n % VramSize = n
  BY SMT DEF VideoAddresses, K, VramSize
<1> QED
  BY <1>1, <1>2, Zenon DEF Vram

\* and it alone has it.
LEMMA PlaceOnce ==
  ASSUME NEW v, NEW a \in VideoAddresses, NEW b \in VideoAddresses, PlaceOf(v, a) = PlaceOf(v, b)
  PROVE  a = b
BY PlanarOnce, Zenon DEF PlaceOf

\* A byte written is read again, and every other stays.
LEMMA ReadAfterWrite ==
  ASSUME NEW vram, NEW a, NEW b, NEW c
  PROVE  VramRead(VramWrite(vram, a, b), c) = IF c = a THEN b ELSE VramRead(vram, c)
BY SMT DEF VramRead, VramWrite

\* Every byte the program knows of is in the memory, at its place.
AsStored(v) == \A l \in DOMAIN v.flat : l \in VideoAddresses /\ VramRead(v.vram, PlaceOf(v, l)) = v.flat[l]

\* A byte stored at its address keeps the array and the memory alike.
LEMMA StoredBoth ==
  ASSUME NEW v, NEW at \in VideoAddresses, NEW b, AsStored(v), NEW w,
         \A a : PlaceOf(w, a) = PlaceOf(v, a),
         w.flat = VramWrite(v.flat, at, b), w.vram = VramWrite(v.vram, PlaceOf(v, at), b)
  PROVE  AsStored(w)
<1>1. SUFFICES ASSUME NEW l \in DOMAIN w.flat
               PROVE  l \in VideoAddresses /\ VramRead(w.vram, PlaceOf(w, l)) = w.flat[l]
  BY Zenon DEF AsStored
<1>2. CASE l = at
  <2>1. w.flat[l] = b
    BY <1>2, SMT DEF VramWrite
  <2>2. PlaceOf(w, l) = PlaceOf(v, at)
    BY <1>2, Zenon
  <2>3. VramRead(w.vram, PlaceOf(w, l)) = b
    BY <2>2, ReadAfterWrite, SMT
  <2> QED
    BY <1>2, <2>1, <2>3, Zenon
<1>3. CASE l # at
  <2>1. l \in DOMAIN v.flat /\ w.flat[l] = v.flat[l]
    BY <1>3, SMT DEF VramWrite
  <2>2. l \in VideoAddresses /\ VramRead(v.vram, PlaceOf(v, l)) = v.flat[l]
    BY <2>1, Zenon DEF AsStored
  <2>3. PlaceOf(v, l) # PlaceOf(v, at)
    BY <1>3, <2>2, PlaceOnce, Zenon
  <2>4. PlaceOf(w, l) = PlaceOf(v, l)
    OBVIOUS
  <2>5. VramRead(w.vram, PlaceOf(w, l)) = VramRead(v.vram, PlaceOf(v, l))
    BY <2>3, <2>4, ReadAfterWrite, SMT
  <2> QED
    BY <2>1, <2>2, <2>5, Zenon
<1> QED
  BY <1>2, <1>3, Zenon

-----------------------------------------------------------------------------
\* What a new value of a register leaves.
Changed(v, w, r, b) ==
  /\ Chip(w) /\ w.steps = v.steps /\ w.flat = v.flat
  /\ w.latch = v.latch /\ w.register_stored = v.register_stored
  /\ w.ahead = v.ahead /\ w.vram = v.vram /\ w.pointer = v.pointer
  /\ w.palette = v.palette
  /\ w.palette_stored = IF r = 16 THEN FALSE ELSE v.palette_stored
  /\ \A i \in 0 .. 31 \ {r} : w.regs[i] = v.regs[i]
  /\ r < 32 => w.regs[r] = b

\* A register is written (write_register): nothing else but the blink phase
\* and the pending colour changes.
LEMMA RegisterChange ==
  ASSUME NEW v, NEW w, Chip(v), NEW r \in Nat, NEW b \in Byte, w = AfterRegisterChange(v, r, b)
  PROVE  Changed(v, w, r, b)
<1> USE DEF Changed
<1>1. CASE r > 31
  <2>1. w = v
    BY <1>1, Zenon DEF AfterRegisterChange
  <2>2. r # 16 /\ ~(r < 32)
    BY <1>1, SMT
  <2> QED
    BY <2>1, <2>2, Zenon
<1>2. CASE ~(r > 31)
  <2>1. r \in 0 .. 31
    BY <1>2, SMT
  <2>2. PICK x : x = [v EXCEPT !.regs[r] = b]
    OBVIOUS
  <2>3. /\ x = Fields(x) /\ x.regs = [v.regs EXCEPT ![r] = b]
        /\ x.latch = v.latch /\ x.register_stored = v.register_stored
        /\ x.ahead = v.ahead /\ x.vram = v.vram /\ x.pointer = v.pointer
        /\ x.palette_stored = v.palette_stored /\ x.palette = v.palette
        /\ x.steps = v.steps /\ x.flat = v.flat
    <3>1. v = Fields(v)
      BY Zenon DEF Chip
    <3> QED
      BY <2>2, <3>1, SMT DEF Fields
  <2>4. /\ w = Fields(w) /\ w.regs = x.regs
        /\ w.latch = x.latch /\ w.register_stored = x.register_stored
        /\ w.ahead = x.ahead /\ w.vram = x.vram /\ w.pointer = x.pointer
        /\ w.palette_stored = (IF r = 16 THEN FALSE ELSE x.palette_stored)
        /\ w.palette = x.palette
        /\ w.steps = x.steps /\ w.flat = x.flat
    <3>1. CASE r = 16
      <4>1. w = [x EXCEPT !.palette_stored = FALSE]
        BY <1>2, <2>2, <3>1, SMT DEF AfterRegisterChange
      <4>2. x = Fields(x)
        BY <2>3, Zenon
      <4> QED
        BY <4>1, <4>2, <3>1 DEF Fields
    <3>2. CASE r = 13
      <4>1. w = [x EXCEPT !.blink = (b \div 16 # 0)]
        BY <1>2, <2>2, <3>2, SMT DEF AfterRegisterChange
      <4>2. x = Fields(x)
        BY <2>3, Zenon
      <4> QED
        BY <4>1, <4>2, <3>2, SMT DEF Fields
    <3>3. CASE r # 16 /\ r # 13
      <4>1. w = x
        BY <1>2, <2>2, <3>3, SMT DEF AfterRegisterChange
      <4> QED
        BY <4>1, <2>3, <3>3, Zenon
    <3> QED
      BY <3>1, <3>2, <3>3, Zenon
  <2>5. x.regs \in [0 .. 31 -> Byte] /\ x.regs[r] = b /\ \A i \in 0 .. 31 \ {r} : x.regs[i] = v.regs[i]
    BY <2>1, <2>3, SMT DEF Chip
  <2>6. Chip(w)
    <3>1. w.register_stored \in BOOLEAN /\ w.latch \in Byte /\ w.pointer \in Pointers
      BY <2>3, <2>4, Zenon DEF Chip
    <3>2. w.palette_stored \in BOOLEAN
      BY <2>3, <2>4, Zenon DEF Chip
    <3>3. w.palette = [i \in 0 .. 15 |-> w.palette[i]]
      BY <2>3, <2>4, Zenon DEF Chip
    <3> QED
      BY <2>4, <2>5, <3>1, <3>2, <3>3, Zenon DEF Chip
  <2> QED
    BY <2>3, <2>4, <2>5, <2>6, Zenon
<1> QED
  BY <1>1, <1>2, Zenon

-----------------------------------------------------------------------------
\* A port ends the pair of another.
LEMMA StoredSet ==
  ASSUME NEW v, NEW w, Chip(v), w = [v EXCEPT !.register_stored = FALSE]
  PROVE  /\ Chip(w) /\ Alike(v, w) /\ w.latch = v.latch /\ w.register_stored = FALSE
         /\ w.ahead = v.ahead /\ w.vram = v.vram /\ w.palette = v.palette /\ w.pointer = v.pointer
         /\ w.regs = v.regs
<1>1. v = Fields(v)
  BY Zenon DEF Chip
<1>2. /\ w = Fields(w) /\ w.latch = v.latch /\ w.register_stored = FALSE
      /\ w.ahead = v.ahead /\ w.vram = v.vram /\ w.palette = v.palette /\ w.pointer = v.pointer
      /\ w.regs = v.regs /\ w.steps = v.steps /\ w.flat = v.flat
      /\ w.palette_stored = v.palette_stored
  BY <1>1 DEF Fields
<1> QED
  BY <1>2, Zenon DEF Chip, Alike

\* A first byte is kept in the latch.
LEMMA LatchSet ==
  ASSUME NEW v, NEW w, Chip(v), NEW n \in BOOLEAN, NEW p \in BOOLEAN, NEW b \in Byte,
         w = [v EXCEPT !.latch = b, !.register_stored = n, !.palette_stored = p]
  PROVE  /\ Chip(w) /\ w.steps = v.steps /\ w.flat = v.flat
         /\ w.latch = b /\ w.register_stored = n /\ w.palette_stored = p
         /\ w.ahead = v.ahead /\ w.vram = v.vram /\ w.palette = v.palette /\ w.pointer = v.pointer
         /\ w.regs = v.regs
<1>1. v = Fields(v)
  BY Zenon DEF Chip
<1>2. /\ w = Fields(w) /\ w.latch = b /\ w.register_stored = n
      /\ w.ahead = v.ahead /\ w.vram = v.vram /\ w.palette = v.palette /\ w.pointer = v.pointer
      /\ w.regs = v.regs /\ w.steps = v.steps /\ w.flat = v.flat
      /\ w.palette_stored = p
  BY <1>1 DEF Fields
<1> QED
  BY <1>2, Zenon DEF Chip

\* A new pointer leaves the rest alone.
LEMMA PointerSet ==
  ASSUME NEW v, NEW w, Chip(v), NEW p \in Pointers, w = [v EXCEPT !.pointer = p]
  PROVE  /\ Chip(w) /\ Alike(v, w) /\ w.latch = v.latch /\ w.register_stored = v.register_stored
         /\ w.ahead = v.ahead /\ w.vram = v.vram /\ w.palette = v.palette /\ w.pointer = p
         /\ w.regs = v.regs
<1>1. v = Fields(v)
  BY Zenon DEF Chip
<1>2. /\ w = Fields(w) /\ w.latch = v.latch /\ w.register_stored = v.register_stored
      /\ w.ahead = v.ahead /\ w.vram = v.vram /\ w.palette = v.palette /\ w.pointer = p
      /\ w.regs = v.regs /\ w.steps = v.steps /\ w.flat = v.flat
      /\ w.palette_stored = v.palette_stored
  BY <1>1, SMT DEF Fields
<1> QED
  BY <1>2, Zenon DEF Chip, Alike

\* effective_address: the place of the address the pointer and R#14 make.
LEMMA EffectiveIs ==
  ASSUME NEW v
  PROVE  EffectiveAddress(v) = PlaceOf(v, LinearAddress(v))
BY Zenon DEF EffectiveAddress, PlaceOf

\* The address and its place depend on the registers and the pointer alone.
LEMMA SameRegs ==
  ASSUME NEW v, NEW w, w.regs = v.regs, w.pointer = v.pointer
  PROVE  LinearAddress(w) = LinearAddress(v) /\ Base(w) = Base(v)
         /\ \A a : PlaceOf(w, a) = PlaceOf(v, a) /\ After(a, w) = After(a, v)
BY Zenon DEF LinearAddress, Base, PlaceOf, After

\* vram_data_write
LEMMA DataWrite ==
  ASSUME NEW v, NEW w, Chip(v), NEW b, w = AfterDataWrite(v, b)
  PROVE  /\ Chip(w) /\ Alike(v, w) /\ w.latch = v.latch /\ w.register_stored = v.register_stored
         /\ w.vram = VramWrite(v.vram, PlaceOf(v, LinearAddress(v)), b) /\ w.palette = v.palette
         /\ \A r \in 0 .. 31 \ {14} : w.regs[r] = v.regs[r]
         /\ LinearAddress(v) \in VideoAddresses
         /\ LinearAddress(w) = After(LinearAddress(v), v)
<1>1. PICK m : m = VramWrite(v.vram, PlaceOf(v, LinearAddress(v)), b)
  OBVIOUS
<1>2. PICK x : x = [v EXCEPT !.ahead = b, !.vram = m]
  OBVIOUS
<1>3. w = Advanced(x)
  BY <1>1, <1>2, EffectiveIs, Zenon DEF AfterDataWrite
<1>4. /\ Chip(x) /\ Alike(v, x) /\ x.latch = v.latch /\ x.register_stored = v.register_stored
      /\ x.vram = m /\ x.palette = v.palette /\ x.pointer = v.pointer /\ x.regs = v.regs
  <2>1. v = Fields(v)
    BY Zenon DEF Chip
  <2>2. /\ x = Fields(x) /\ x.latch = v.latch /\ x.register_stored = v.register_stored
        /\ x.vram = m /\ x.palette = v.palette /\ x.pointer = v.pointer
        /\ x.regs = v.regs /\ x.steps = v.steps /\ x.flat = v.flat
        /\ x.palette_stored = v.palette_stored
    BY <1>2, <2>1 DEF Fields
  <2> QED
    BY <2>2, Zenon DEF Chip, Alike
<1>5. /\ Chip(w) /\ Alike(x, w) /\ w.latch = x.latch /\ w.register_stored = x.register_stored
      /\ w.vram = x.vram /\ w.palette = x.palette
      /\ \A r \in 0 .. 31 \ {14} : w.regs[r] = x.regs[r]
      /\ LinearAddress(x) \in VideoAddresses /\ LinearAddress(w) = After(LinearAddress(x), x)
  BY <1>3, <1>4, AdvancedChip
<1>6. LinearAddress(x) = LinearAddress(v) /\ \A a : After(a, x) = After(a, v)
  BY <1>4, SameRegs, Zenon
<1>7. Alike(v, w)
  BY <1>4, <1>5, Zenon DEF Alike
<1> QED
  BY <1>1, <1>4, <1>5, <1>6, <1>7, Zenon

\* vram_data_read fetches the byte of the address ahead and goes on.
LEMMA DataRead ==
  ASSUME NEW v, NEW w, Chip(v), w = AfterDataRead(v)
  PROVE  /\ Chip(w) /\ Alike(v, w) /\ w.latch = v.latch /\ w.register_stored = v.register_stored
         /\ w.vram = v.vram /\ w.palette = v.palette
         /\ w.pointer = NextOf(v.pointer)
         /\ w.ahead = Vram(v, PlaceOf(v, LinearAddress(v)))
         /\ \A r \in 0 .. 31 \ {14} : w.regs[r] = v.regs[r]
         /\ LinearAddress(v) \in VideoAddresses
         /\ LinearAddress(w) = After(LinearAddress(v), v)
<1>1. PICK n : n = Vram(v, PlaceOf(v, LinearAddress(v)))
  OBVIOUS
<1>2. PICK x : x = [v EXCEPT !.ahead = n]
  OBVIOUS
<1>3. w = Advanced(x)
  BY <1>1, <1>2, EffectiveIs, Zenon DEF AfterDataRead
<1>4. /\ Chip(x) /\ Alike(v, x) /\ x.latch = v.latch /\ x.register_stored = v.register_stored
      /\ x.ahead = n
      /\ x.vram = v.vram /\ x.palette = v.palette /\ x.pointer = v.pointer /\ x.regs = v.regs
  <2>1. v = Fields(v)
    BY Zenon DEF Chip
  <2>2. /\ x = Fields(x) /\ x.latch = v.latch /\ x.register_stored = v.register_stored
        /\ x.ahead = n /\ x.vram = v.vram /\ x.palette = v.palette /\ x.pointer = v.pointer
        /\ x.regs = v.regs /\ x.steps = v.steps /\ x.flat = v.flat
        /\ x.palette_stored = v.palette_stored
    BY <1>2, <2>1, SMT DEF Fields
  <2> QED
    BY <2>2, Zenon DEF Chip, Alike
<1>5. /\ Chip(w) /\ Alike(x, w) /\ w.latch = x.latch /\ w.register_stored = x.register_stored
      /\ w.ahead = x.ahead /\ w.vram = x.vram /\ w.palette = x.palette
      /\ w.pointer = NextOf(x.pointer)
      /\ \A r \in 0 .. 31 \ {14} : w.regs[r] = x.regs[r]
      /\ LinearAddress(x) \in VideoAddresses /\ LinearAddress(w) = After(LinearAddress(x), x)
  BY <1>3, <1>4, AdvancedChip
<1>6. LinearAddress(x) = LinearAddress(v) /\ \A a : After(a, x) = After(a, v)
  BY <1>4, SameRegs, Zenon
<1>7. Alike(v, w)
  BY <1>4, <1>5, Zenon DEF Alike
<1> QED
  BY <1>1, <1>4, <1>5, <1>6, <1>7, Zenon

\* Two bytes make a pointer of 14 bits.
LEMMA AddressBytes ==
  ASSUME NEW b \in Byte, NEW l \in Byte
  PROVE  /\ ((256 * b) + l) % (16 * K) \in Pointers
         /\ NextOf(((256 * b) + l) % (16 * K)) = ((256 * b) + l + 1) % (16 * K)
BY SMT DEF Byte, Pointers, NextOf, K

\* The address of a pair.
PairAddress(v, b) == PageOf(v.regs[14]) + (((256 * b) + v.latch) % (16 * K))

\* An address is set; for reading, its byte is fetched and the pointer is one
\* further.
LEMMA SetAddress ==
  ASSUME NEW v, NEW w, Chip(v), NEW b \in Byte, w = AfterSetAddress(v, b)
  PROVE  /\ Chip(w) /\ Alike(v, w) /\ w.latch = v.latch /\ w.register_stored = v.register_stored
         /\ w.vram = v.vram /\ w.palette = v.palette
         /\ PairAddress(v, b) \in VideoAddresses
         /\ \A r \in 0 .. 31 \ {14} : w.regs[r] = v.regs[r]
         /\ BitOf(b, 6) =>
              /\ LinearAddress(w) = PairAddress(v, b)
              /\ w.pointer = ((256 * b) + v.latch) % (16 * K)
         /\ ~BitOf(b, 6) =>
              /\ LinearAddress(w) = After(PairAddress(v, b), v)
              /\ w.ahead = Vram(v, PlaceOf(v, PairAddress(v, b)))
              /\ w.pointer = ((256 * b) + v.latch + 1) % (16 * K)
<1>1. PICK p \in Pointers : p = ((256 * b) + v.latch) % (16 * K)
  BY AddressBytes, Zenon DEF Chip
<1>2. PICK x : x = [v EXCEPT !.pointer = p]
  OBVIOUS
<1>3. /\ Chip(x) /\ Alike(v, x) /\ x.latch = v.latch /\ x.register_stored = v.register_stored
      /\ x.ahead = v.ahead /\ x.vram = v.vram /\ x.palette = v.palette /\ x.pointer = p
      /\ x.regs = v.regs
  BY <1>2, PointerSet
<1>4. w = IF BitOf(b, 6) THEN x ELSE AfterDataRead(x)
  BY <1>1, <1>2, Zenon DEF AfterSetAddress
<1>5. LinearAddress(x) = PairAddress(v, b)
  BY <1>1, <1>3, Zenon DEF LinearAddress, PairAddress, PageOf
<1>6. \A a : After(a, x) = After(a, v) /\ PlaceOf(x, a) = PlaceOf(v, a) /\ Vram(x, a) = Vram(v, a)
  BY <1>3, Zenon DEF After, PlaceOf, Vram, Base
<1>7. PairAddress(v, b) \in VideoAddresses
  <2>1. v.regs[14] \in Byte
    BY SMT DEF Chip
  <2> QED
    BY <1>1, <2>1, LinearIn, Zenon DEF PairAddress
<1>8. CASE BitOf(b, 6)
  BY <1>1, <1>3, <1>4, <1>5, <1>7, <1>8, Zenon
<1>9. CASE ~BitOf(b, 6)
  <2>1. w = AfterDataRead(x)
    BY <1>4, <1>9, Zenon
  <2>2. /\ Chip(w) /\ Alike(x, w) /\ w.latch = x.latch /\ w.register_stored = x.register_stored
        /\ w.vram = x.vram /\ w.palette = x.palette
        /\ w.pointer = NextOf(x.pointer)
        /\ w.ahead = Vram(x, PlaceOf(x, LinearAddress(x)))
        /\ \A r \in 0 .. 31 \ {14} : w.regs[r] = x.regs[r]
        /\ LinearAddress(w) = After(LinearAddress(x), x)
    BY <1>3, <2>1, DataRead
  <2>3. w.pointer = ((256 * b) + v.latch + 1) % (16 * K)
    <3>1. v.latch \in Byte
      BY Zenon DEF Chip
    <3> QED
      BY <1>1, <1>3, <2>2, <3>1, AddressBytes
  <2>4. Alike(v, w)
    BY <1>3, <2>2, Zenon DEF Alike
  <2>5. w.ahead = Vram(v, PlaceOf(v, PairAddress(v, b))) /\ LinearAddress(w) = After(PairAddress(v, b), v)
    BY <1>5, <1>6, <2>2, Zenon
  <2> QED
    BY <1>3, <1>7, <1>9, <2>2, <2>3, <2>4, <2>5, Zenon
<1> QED
  BY <1>8, <1>9, Zenon

-----------------------------------------------------------------------------
\* The programs write bytes to ports there are.
Steps(v) == \A step \in v.steps : step[1] = "write" => step[2] \in 0 .. 3 /\ step[3] \in Byte

\* While the program knows the address of its next access, the chip has it:
\* the one it writes next, or the one after that of the byte it holds ahead.
Streaming(v) ==
  /\ v.cursor = [at |-> v.cursor.at, writing |-> v.cursor.writing]
  /\ v.cursor.at \in VideoAddresses \cup {None} /\ v.cursor.writing \in BOOLEAN
  /\ v.cursor.at # None =>
       IF v.cursor.writing THEN LinearAddress(v) = v.cursor.at
       ELSE /\ LinearAddress(v) = After(v.cursor.at, v)
            /\ v.ahead = VramRead(v.vram, PlaceOf(v, v.cursor.at))

\* The flags of the chip say which pairs the program is in; a byte it holds for
\* one that nothing has spoilt is in the latch.
Together(v) ==
  /\ v.held = [register |-> v.held.register, palette |-> v.held.palette]
  /\ v.register_stored = (v.held.register # None) /\ v.palette_stored = (v.held.palette # None)
  /\ Holding(v.held.register) => v.held.register = v.latch
  /\ Holding(v.held.palette) => v.held.palette = v.latch

\* The invariant: the account the program keeps is the chip's.
Accounted(v) == Chip(v) /\ Steps(v) /\ AsStored(v) /\ Streaming(v) /\ Together(v)

\* A byte is no mark.
LEMMA ByteHolds == \A b \in Byte : Holding(b) /\ b # None /\ b # Broken
BY SMT DEF Byte, Holding, None, Broken

\* An address is no mark either.
LEMMA AddressIsNoMark == \A a \in VideoAddresses : a # None
BY SMT DEF VideoAddresses, None

\* The pairs as Together has them, when what is held is held.
Pair(w, held) ==
  /\ held = [register |-> held.register, palette |-> held.palette]
  /\ w.register_stored = (held.register # None) /\ w.palette_stored = (held.palette # None)
  /\ Holding(held.register) => held.register = w.latch
  /\ Holding(held.palette) => held.palette = w.latch

\* There are four ports.
LEMMA Ports ==
  ASSUME NEW port \in 0 .. 3
  PROVE  port \in {0, 1, 2, 3}
BY SMT

\* Six bits number a register.
LEMMA Modulo ==
  ASSUME NEW b \in Byte
  PROVE  b % 64 \in 0 .. 63 /\ b % 64 \in Nat /\ b % 64 # None /\ None # 16
BY SMT DEF Byte, None

\* A byte of data: it is stored at the address, which goes to the next one,
\* and it ends a pair that port 1 was to complete.
LEMMA DataPair ==
  ASSUME NEW v, NEW w, Chip(v), Together(v), NEW b \in Byte, w = AfterPortWrite(v, 0, b)
  PROVE  /\ Chip(w) /\ w.steps = v.steps /\ Pair(w, AccountOfWrite(v, 0, b).held)
         /\ w.vram = VramWrite(v.vram, PlaceOf(v, LinearAddress(v)), b)
         /\ \A r \in 0 .. 31 \ {14} : w.regs[r] = v.regs[r]
         /\ LinearAddress(v) \in VideoAddresses
         /\ LinearAddress(w) = After(LinearAddress(v), v)
<1>1. PICK x : x = AfterDataWrite(v, b)
  OBVIOUS
<1>2. w = [x EXCEPT !.register_stored = FALSE]
  BY <1>1 DEF AfterPortWrite
<1>3. /\ Chip(x) /\ Alike(v, x) /\ x.latch = v.latch
      /\ x.vram = VramWrite(v.vram, PlaceOf(v, LinearAddress(v)), b) /\ x.palette = v.palette
      /\ \A r \in 0 .. 31 \ {14} : x.regs[r] = v.regs[r]
      /\ LinearAddress(v) \in VideoAddresses
      /\ LinearAddress(x) = After(LinearAddress(v), v)
  BY <1>1, DataWrite
<1>4. /\ Chip(w) /\ Alike(x, w) /\ w.latch = x.latch /\ w.register_stored = FALSE
      /\ w.vram = x.vram /\ w.pointer = x.pointer /\ w.regs = x.regs
  BY <1>2, <1>3, StoredSet
<1>5. LinearAddress(w) = LinearAddress(x)
  BY <1>4, SameRegs, Zenon
<1>6. RegisterSet(v, 0, b) = None
  BY SMT DEF RegisterSet
<1>7. AccountOfWrite(v, 0, b).held = [register |-> None, palette |-> v.held.palette]
  BY <1>6, Modulo DEF AccountOfWrite
<1>8. Pair(w, AccountOfWrite(v, 0, b).held)
  <2>1. PICK held : held = AccountOfWrite(v, 0, b).held
    OBVIOUS
  <2>2. held = [register |-> held.register, palette |-> held.palette] /\ held.register = None
        /\ held.palette = v.held.palette
    BY <1>7, <2>1
  <2>3. w.palette_stored = v.palette_stored /\ w.latch = v.latch /\ w.register_stored = FALSE
    BY <1>3, <1>4, Zenon DEF Alike
  <2>4. ~Holding(None)
    BY DEF Holding
  <2> QED
    BY <2>1, <2>2, <2>3, <2>4, Zenon DEF Pair, Together
<1> QED
  BY <1>3, <1>4, <1>5, <1>8, Zenon DEF Alike

\* Nothing of the pointer changes but through register r.
Quiet(v, w, r) ==
  /\ w.vram = v.vram /\ w.ahead = v.ahead /\ w.pointer = v.pointer
  /\ \A i \in 0 .. 31 \ {r, 16, 17} : w.regs[i] = v.regs[i]

\* The marks are no bytes.
LEMMA NotHeld == ~Holding(None) /\ ~Holding(Broken) /\ None # Broken
BY SMT DEF Holding, None, Broken

\* The first byte on port 1 is latched; memory and registers stay.
LEMMA FirstByte ==
  ASSUME NEW v, NEW w, Chip(v), Together(v), NEW b \in Byte, w = AfterPortWrite(v, 1, b),
         ~v.register_stored
  PROVE  /\ Chip(w) /\ w.steps = v.steps /\ Pair(w, AccountOfWrite(v, 1, b).held)
         /\ RegisterSet(v, 1, b) = None /\ ~SetsAddress(v, 1, b)
         /\ Quiet(v, w, None)
<1>1. w = [v EXCEPT !.latch = b, !.register_stored = TRUE]
  BY DEF AfterPortWrite, AfterPort1Write
<1>2. /\ Chip(w) /\ w.steps = v.steps /\ w.latch = b /\ w.register_stored = TRUE
      /\ w.palette_stored = v.palette_stored
      /\ w.ahead = v.ahead /\ w.vram = v.vram /\ w.pointer = v.pointer /\ w.regs = v.regs
  <2>1. v = Fields(v)
    BY Zenon DEF Chip
  <2>2. /\ w = Fields(w) /\ w.latch = b /\ w.register_stored = TRUE
        /\ w.ahead = v.ahead /\ w.vram = v.vram /\ w.palette = v.palette /\ w.pointer = v.pointer
        /\ w.regs = v.regs /\ w.steps = v.steps
        /\ w.palette_stored = v.palette_stored
    BY <1>1, <2>1 DEF Fields
  <2> QED
    BY <2>2, Zenon DEF Chip
<1>3. RegisterSet(v, 1, b) = None /\ ~SetsAddress(v, 1, b)
  BY SMT DEF RegisterSet, SetsAddress
<1>4. PICK held : held = AccountOfWrite(v, 1, b).held
  OBVIOUS
<1>5. v.held.register = None
  BY Zenon DEF Together
<1>6. held = [register |-> b, palette |-> IF v.held.palette = None THEN None ELSE Broken]
  BY <1>3, <1>4, <1>5, Modulo DEF AccountOfWrite
<1>7. Pair(w, held)
  <2>1. held = [register |-> held.register, palette |-> held.palette] /\ held.register = b
        /\ held.palette = IF v.held.palette = None THEN None ELSE Broken
    BY <1>6
  <2> QED
    BY <2>1, <1>2, NotHeld, ByteHolds, Zenon DEF Pair, Together
<1> QED
  BY <1>2, <1>3, <1>4, <1>7, Zenon DEF Quiet

\* The pointer after the second byte of an address.
AddressTaken(v, w, b) ==
  /\ w.vram = v.vram
  /\ PairAddress(v, b) \in VideoAddresses
  /\ \A r \in 0 .. 31 \ {14} : w.regs[r] = v.regs[r]
  /\ BitOf(b, 6) =>
       /\ LinearAddress(w) = PairAddress(v, b)
       /\ w.pointer = ((256 * b) + v.latch) % (16 * K)
  /\ ~BitOf(b, 6) =>
       /\ LinearAddress(w) = After(PairAddress(v, b), v)
       /\ w.ahead = Vram(v, PlaceOf(v, PairAddress(v, b)))
       /\ w.pointer = ((256 * b) + v.latch + 1) % (16 * K)

\* The second byte on port 1 sets a register or an address, with the latch.
LEMMA SecondByte ==
  ASSUME NEW v, NEW w, Chip(v), Together(v), NEW b \in Byte, w = AfterPortWrite(v, 1, b),
         v.register_stored
  PROVE  /\ Chip(w) /\ w.steps = v.steps /\ Pair(w, AccountOfWrite(v, 1, b).held)
         /\ BitOf(b, 7) =>
              /\ RegisterSet(v, 1, b) = b % 64 /\ ~SetsAddress(v, 1, b)
              /\ Quiet(v, w, b % 64) /\ (b % 64 < 32 => w.regs[b % 64] = v.latch)
         /\ ~BitOf(b, 7) =>
              /\ RegisterSet(v, 1, b) = None /\ SetsAddress(v, 1, b)
              /\ AddressTaken(v, w, b)
<1>1. PICK held : held = AccountOfWrite(v, 1, b).held
  OBVIOUS
<1>2. v.held.register # None /\ v.latch \in Byte
  BY Zenon DEF Together, Chip
<1>3. CASE BitOf(b, 7)
  <2>1. PICK x : x = AfterRegisterChange(v, b % 64, v.latch)
    OBVIOUS
  <2>2. w = [x EXCEPT !.register_stored = FALSE]
    BY <2>1, <1>3 DEF AfterPortWrite, AfterPort1Write
  <2>3. /\ Chip(x) /\ x.steps = v.steps /\ x.latch = v.latch
        /\ x.ahead = v.ahead /\ x.vram = v.vram /\ x.pointer = v.pointer
        /\ x.palette_stored = IF b % 64 = 16 THEN FALSE ELSE v.palette_stored
        /\ \A i \in 0 .. 31 \ {b % 64} : x.regs[i] = v.regs[i]
        /\ b % 64 < 32 => x.regs[b % 64] = v.latch
    <3>1. PICK r \in Nat, c \in Byte : r = b % 64 /\ c = v.latch
      BY <1>2, Modulo, Zenon
    <3>2. x = AfterRegisterChange(v, r, c)
      BY <2>1, <3>1, Zenon
    <3>3. Changed(v, x, r, c)
      BY <3>2, RegisterChange
    <3> QED
      BY <3>1, <3>3, Zenon DEF Changed
  <2>4. /\ Chip(w) /\ Alike(x, w) /\ w.latch = x.latch /\ w.register_stored = FALSE
        /\ w.ahead = x.ahead /\ w.vram = x.vram /\ w.pointer = x.pointer /\ w.regs = x.regs
    BY <2>2, <2>3, StoredSet
  <2>5. RegisterSet(v, 1, b) = b % 64 /\ ~SetsAddress(v, 1, b)
    BY <1>3, SMT DEF RegisterSet, SetsAddress
  <2>6. held = [register |-> None,
                palette |-> IF b % 64 = 16 THEN None
                            ELSE IF v.held.palette = None THEN None ELSE Broken]
    BY <2>5, <1>1, <1>2, Modulo DEF AccountOfWrite
  <2>7. Pair(w, held)
    <3>1. held = [register |-> held.register, palette |-> held.palette] /\ held.register = None
          /\ held.palette = IF b % 64 = 16 THEN None
                            ELSE IF v.held.palette = None THEN None ELSE Broken
      BY <2>6
    <3>2. w.palette_stored = IF b % 64 = 16 THEN FALSE ELSE v.palette_stored
      BY <2>3, <2>4, Zenon DEF Alike
    <3> QED
      BY <3>1, <3>2, <2>4, NotHeld, Zenon DEF Pair, Together
  <2>8. Quiet(v, w, b % 64)
    BY <2>3, <2>4, Zenon DEF Quiet
  <2> QED
    BY <1>1, <1>3, <2>3, <2>4, <2>5, <2>7, <2>8, Zenon DEF Alike
<1>4. CASE ~BitOf(b, 7)
  <2>1. PICK x : x = AfterSetAddress(v, b)
    OBVIOUS
  <2>2. w = [x EXCEPT !.register_stored = FALSE]
    BY <2>1, <1>4 DEF AfterPortWrite, AfterPort1Write
  <2>3. /\ Chip(x) /\ Alike(v, x) /\ x.latch = v.latch
        /\ x.vram = v.vram
        /\ PairAddress(v, b) \in VideoAddresses
        /\ \A r \in 0 .. 31 \ {14} : x.regs[r] = v.regs[r]
        /\ BitOf(b, 6) =>
             /\ LinearAddress(x) = PairAddress(v, b)
             /\ x.pointer = ((256 * b) + v.latch) % (16 * K)
        /\ ~BitOf(b, 6) =>
             /\ LinearAddress(x) = After(PairAddress(v, b), v)
             /\ x.ahead = Vram(v, PlaceOf(v, PairAddress(v, b)))
             /\ x.pointer = ((256 * b) + v.latch + 1) % (16 * K)
    BY <2>1, SetAddress
  <2>4. /\ Chip(w) /\ Alike(x, w) /\ w.latch = x.latch /\ w.register_stored = FALSE
        /\ w.ahead = x.ahead /\ w.vram = x.vram /\ w.pointer = x.pointer /\ w.regs = x.regs
    <3>1. Chip(x)
      BY <2>3, Zenon
    <3> QED
      BY <2>2, <3>1, StoredSet
  <2>5. RegisterSet(v, 1, b) = None /\ SetsAddress(v, 1, b)
    BY <1>4, SMT DEF RegisterSet, SetsAddress
  <2>6. held = [register |-> None, palette |-> IF v.held.palette = None THEN None ELSE Broken]
    BY <2>5, <1>1, <1>2, Modulo DEF AccountOfWrite
  <2>7. Pair(w, held)
    <3>1. held = [register |-> held.register, palette |-> held.palette] /\ held.register = None
          /\ held.palette = IF v.held.palette = None THEN None ELSE Broken
      BY <2>6
    <3>2. w.palette_stored = v.palette_stored
      BY <2>3, <2>4, Zenon DEF Alike
    <3> QED
      BY <3>1, <3>2, <2>4, NotHeld, Zenon DEF Pair, Together
  <2>8. LinearAddress(w) = LinearAddress(x)
    BY <2>4, SameRegs, Zenon
  <2>9. Chip(w) /\ w.steps = v.steps /\ w.vram = v.vram
    BY <2>3, <2>4, Zenon DEF Alike
  <2>10. AddressTaken(v, w, b)
    BY <2>3, <2>4, <2>8, <2>9, Zenon DEF AddressTaken
  <2> QED
    BY <1>1, <1>4, <2>4, <2>5, <2>7, <2>9, <2>10, Zenon
<1> QED
  BY <1>3, <1>4, Zenon

\* The first byte on port 2 is latched too.
LEMMA PaletteFirst ==
  ASSUME NEW v, NEW w, Chip(v), Together(v), NEW b \in Byte, w = AfterPortWrite(v, 2, b),
         ~v.palette_stored
  PROVE  /\ Chip(w) /\ w.steps = v.steps /\ Pair(w, AccountOfWrite(v, 2, b).held)
         /\ RegisterSet(v, 2, b) = None /\ ~SetsAddress(v, 2, b)
         /\ Quiet(v, w, None)
<1>1. w = [v EXCEPT !.latch = b, !.palette_stored = TRUE]
  BY DEF AfterPortWrite, AfterPaletteWrite
<1>2. /\ Chip(w) /\ w.steps = v.steps /\ w.latch = b /\ w.register_stored = v.register_stored
      /\ w.palette_stored = TRUE
      /\ w.ahead = v.ahead /\ w.vram = v.vram /\ w.pointer = v.pointer /\ w.regs = v.regs
  <2>1. v = Fields(v)
    BY Zenon DEF Chip
  <2>2. /\ w = Fields(w) /\ w.latch = b /\ w.register_stored = v.register_stored
        /\ w.ahead = v.ahead /\ w.vram = v.vram /\ w.palette = v.palette /\ w.pointer = v.pointer
        /\ w.regs = v.regs /\ w.steps = v.steps
        /\ w.palette_stored = TRUE
    BY <1>1, <2>1 DEF Fields
  <2> QED
    BY <2>2, Zenon DEF Chip
<1>3. RegisterSet(v, 2, b) = None /\ ~SetsAddress(v, 2, b)
  BY SMT DEF RegisterSet, SetsAddress
<1>4. PICK held : held = AccountOfWrite(v, 2, b).held
  OBVIOUS
<1>5. v.held.palette = None
  BY Zenon DEF Together
<1>6. held = [register |-> IF v.held.register = None THEN None ELSE Broken, palette |-> b]
  BY <1>3, <1>4, <1>5, Modulo DEF AccountOfWrite
<1>7. Pair(w, held)
  <2>1. held = [register |-> held.register, palette |-> held.palette] /\ held.palette = b
        /\ held.register = IF v.held.register = None THEN None ELSE Broken
    BY <1>6
  <2> QED
    BY <2>1, <1>2, NotHeld, ByteHolds, Zenon DEF Pair, Together
<1> QED
  BY <1>2, <1>3, <1>4, <1>7, Zenon DEF Quiet

\* The second byte on port 2 makes the palette entry, with the latch.
LEMMA PaletteSecond ==
  ASSUME NEW v, NEW w, Chip(v), Together(v), NEW b \in Byte, w = AfterPortWrite(v, 2, b),
         v.palette_stored
  PROVE  /\ Chip(w) /\ w.steps = v.steps /\ Pair(w, AccountOfWrite(v, 2, b).held)
         /\ RegisterSet(v, 2, b) = None /\ ~SetsAddress(v, 2, b)
         /\ Quiet(v, w, None)
         /\ w.palette[v.regs[16] % 16] = (256 * (b % 8)) + And(v.latch, 119)
<1>1. PICK n \in 0 .. 15, m \in Byte : n = v.regs[16] % 16 /\ m = ((v.regs[16] % 16) + 1) % 16
  <2>1. PICK r \in Byte : r = v.regs[16]
    BY SMT DEF Chip
  <2>2. r % 16 \in 0 .. 15 /\ ((r % 16) + 1) % 16 \in Byte
    BY SMT DEF Byte
  <2> QED
    BY <2>1, <2>2, Zenon
<1>2. PICK color : color = (256 * (b % 8)) + And(v.latch, 119)
  OBVIOUS
<1>3. w = [v EXCEPT !.palette[n] = color, !.regs[16] = m, !.palette_stored = FALSE]
  BY <1>1, <1>2, SMT DEF AfterPortWrite, AfterPaletteWrite
<1>4. /\ w = Fields(w) /\ w.latch = v.latch /\ w.register_stored = v.register_stored
      /\ w.ahead = v.ahead /\ w.vram = v.vram /\ w.pointer = v.pointer
      /\ w.palette = [v.palette EXCEPT ![n] = color]
      /\ w.regs = [v.regs EXCEPT ![16] = m] /\ w.steps = v.steps
      /\ w.palette_stored = FALSE
  <2>1. v = Fields(v)
    BY Zenon DEF Chip
  <2> QED
    BY <1>3, <2>1 DEF Fields
<1>5. w.regs \in [0 .. 31 -> Byte] /\ \A i \in 0 .. 31 \ {None, 16, 17} : w.regs[i] = v.regs[i]
  BY <1>4, SMT DEF Chip
<1>6. w.palette = [i \in 0 .. 15 |-> w.palette[i]] /\ w.palette[n] = color
  <2>1. v.palette = [i \in 0 .. 15 |-> v.palette[i]]
    BY Zenon DEF Chip
  <2> QED
    BY <1>4, <2>1, SMT
<1>7. Chip(w)
  BY <1>4, <1>5, <1>6, Zenon DEF Chip
<1>8. RegisterSet(v, 2, b) = None /\ ~SetsAddress(v, 2, b)
  BY SMT DEF RegisterSet, SetsAddress
<1>9. PICK held : held = AccountOfWrite(v, 2, b).held
  OBVIOUS
<1>10. v.held.palette # None
  BY Zenon DEF Together
<1>11. held = [register |-> IF v.held.register = None THEN None ELSE Broken, palette |-> None]
  BY <1>8, <1>9, <1>10, Modulo DEF AccountOfWrite
<1>12. Pair(w, held)
  <2>1. held = [register |-> held.register, palette |-> held.palette] /\ held.palette = None
        /\ held.register = IF v.held.register = None THEN None ELSE Broken
    BY <1>11
  <2> QED
    BY <2>1, <1>4, NotHeld, Zenon DEF Pair, Together
<1> QED
  BY <1>1, <1>2, <1>4, <1>5, <1>6, <1>7, <1>8, <1>9, <1>12, SMT DEF Quiet

\* A byte on port 3 goes to the register of R#17, and spoils the latch.
LEMMA Indirect ==
  ASSUME NEW v, NEW w, Chip(v), Together(v), NEW b \in Byte, w = AfterPortWrite(v, 3, b)
  PROVE  /\ Chip(w) /\ w.steps = v.steps /\ Pair(w, AccountOfWrite(v, 3, b).held)
         /\ RegisterSet(v, 3, b) \in 0 .. 63 /\ ~SetsAddress(v, 3, b)
         /\ Quiet(v, w, RegisterSet(v, 3, b))
<1>1. PICK number \in Byte : number = v.regs[17]
  BY SMT DEF Chip
<1>2. PICK r \in Nat : r = number % 64 /\ r \in 0 .. 63 /\ r # None
  BY Modulo, Zenon
<1>3. PICK next \in Byte : next = ((number % 64) + 1) % 64
  BY SMT DEF Byte
<1>4. PICK x : x = [v EXCEPT !.latch = b]
  OBVIOUS
<1>5. /\ Chip(x) /\ x.steps = v.steps /\ x.latch = b /\ x.register_stored = v.register_stored
      /\ x.palette_stored = v.palette_stored
      /\ x.ahead = v.ahead /\ x.vram = v.vram /\ x.pointer = v.pointer /\ x.regs = v.regs
  <2>1. v = Fields(v)
    BY Zenon DEF Chip
  <2>2. /\ x = Fields(x) /\ x.latch = b /\ x.register_stored = v.register_stored
        /\ x.ahead = v.ahead /\ x.vram = v.vram /\ x.palette = v.palette /\ x.pointer = v.pointer
        /\ x.regs = v.regs /\ x.steps = v.steps
        /\ x.palette_stored = v.palette_stored
    BY <1>4, <2>1 DEF Fields
  <2> QED
    BY <2>2, Zenon DEF Chip
<1>6. PICK y : y = AfterRegisterChange(x, r, b)
  OBVIOUS
<1>7. Changed(x, y, r, b)
  BY <1>5, <1>6, RegisterChange
<1>8. w = IF BitOf(number, 7) THEN y ELSE [y EXCEPT !.regs[17] = next]
  BY <1>1, <1>2, <1>3, <1>4, <1>6 DEF AfterPortWrite, AfterIndirectWrite
<1>9. /\ Chip(w) /\ w.steps = y.steps /\ w.latch = y.latch /\ w.register_stored = y.register_stored
      /\ w.palette_stored = y.palette_stored
      /\ w.ahead = y.ahead /\ w.vram = y.vram /\ w.pointer = y.pointer
      /\ \A i \in 0 .. 31 \ {17} : w.regs[i] = y.regs[i]
  <2>1. CASE BitOf(number, 7)
    BY <1>7, <1>8, <2>1, Zenon DEF Changed
  <2>2. CASE ~BitOf(number, 7)
    <3>1. w = [y EXCEPT !.regs[17] = next]
      BY <1>8, <2>2, Zenon
    <3>2. y = Fields(y) /\ Chip(y)
      BY <1>7, Zenon DEF Changed, Chip
    <3>3. /\ w = Fields(w) /\ w.steps = y.steps /\ w.latch = y.latch
          /\ w.register_stored = y.register_stored /\ w.palette_stored = y.palette_stored
          /\ w.ahead = y.ahead /\ w.vram = y.vram /\ w.pointer = y.pointer
          /\ w.palette = y.palette
          /\ w.regs = [y.regs EXCEPT ![17] = next]
      BY <3>1, <3>2 DEF Fields
    <3>4. w.regs \in [0 .. 31 -> Byte] /\ \A i \in 0 .. 31 \ {17} : w.regs[i] = y.regs[i]
      BY <3>2, <3>3, SMT DEF Chip
    <3> QED
      BY <3>2, <3>3, <3>4, Zenon DEF Chip
  <2> QED
    BY <2>1, <2>2, Zenon
<1>10. RegisterSet(v, 3, b) = r /\ ~SetsAddress(v, 3, b)
  BY <1>1, <1>2, SMT DEF RegisterSet, SetsAddress
<1>11. PICK held : held = AccountOfWrite(v, 3, b).held
  OBVIOUS
<1>12. held = [register |-> IF v.held.register = None THEN None ELSE Broken,
              palette |-> IF r = 16 THEN None ELSE IF v.held.palette = None THEN None ELSE Broken]
  BY <1>2, <1>10, <1>11 DEF AccountOfWrite
<1>13. Pair(w, held)
  <2>1. /\ held = [register |-> held.register, palette |-> held.palette]
        /\ held.register = IF v.held.register = None THEN None ELSE Broken
        /\ held.palette = IF r = 16 THEN None ELSE IF v.held.palette = None THEN None ELSE Broken
    BY <1>12
  <2>2. /\ w.register_stored = v.register_stored
        /\ w.palette_stored = IF r = 16 THEN FALSE ELSE v.palette_stored
    BY <1>5, <1>7, <1>9, Zenon DEF Changed
  <2> QED
    BY <2>1, <2>2, NotHeld, Zenon DEF Pair, Together
<1>14. Quiet(v, w, r)
  BY <1>5, <1>7, <1>9, SMT DEF Changed, Quiet
<1>15. w.steps = v.steps
  BY <1>5, <1>7, <1>9, Zenon DEF Changed
<1> QED
  BY <1>2, <1>9, <1>10, <1>11, <1>13, <1>14, <1>15, Zenon

-----------------------------------------------------------------------------
\* The address of the chip is in the memory.
LEMMA LinearInChip ==
  ASSUME NEW v, Chip(v)
  PROVE  LinearAddress(v) \in VideoAddresses
<1>1. PICK r \in Byte, p \in Pointers : r = v.regs[14] /\ p = v.pointer
  BY SMT DEF Chip
<1> QED
  BY <1>1, LinearIn, Zenon DEF LinearAddress, PageOf

\* A program that knows no byte is right about all of them.
LEMMA EmptyStored ==
  ASSUME NEW v, v.flat = <<>>
  PROVE  AsStored(v)
BY SMT DEF AsStored

\* The array stays right while the memory and the mode stay.
LEMMA StoredKept ==
  ASSUME NEW v, NEW w, AsStored(v), w.flat = v.flat, w.vram = v.vram,
         \A a : PlaceOf(w, a) = PlaceOf(v, a)
  PROVE  AsStored(w)
BY Zenon DEF AsStored

\* A program that knows no address is right about it.
LEMMA StreamLost ==
  ASSUME NEW v, v.cursor = [at |-> None, writing |-> FALSE]
  PROVE  Streaming(v)
BY SMT DEF Streaming

\* The stream goes on while the pointer, the byte ahead and the registers
\* that place it stay.
LEMMA StreamKept ==
  ASSUME NEW v, NEW w, Streaming(v), w.cursor = v.cursor, w.vram = v.vram, w.ahead = v.ahead,
         w.pointer = v.pointer, \A r \in {0, 1, 14} : w.regs[r] = v.regs[r]
  PROVE  Streaming(w)
<1>1. w.regs[0] = v.regs[0] /\ w.regs[1] = v.regs[1] /\ w.regs[14] = v.regs[14]
  OBVIOUS
<1>2. LinearAddress(w) = LinearAddress(v) /\ Base(w) = Base(v)
  BY <1>1, Zenon DEF LinearAddress, Base
<1>3. \A a : After(a, w) = After(a, v) /\ PlaceOf(w, a) = PlaceOf(v, a)
  BY <1>2, Zenon DEF After, PlaceOf
<1> QED
  BY <1>2, <1>3, Zenon DEF Streaming

\* The program knows where its next byte goes; the mode places bytes elsewhere.
Known(v) == v.cursor.at # None /\ v.cursor.writing
Moved(v, port, b) == IsPlanarBase(Base(v)) # IsPlanarBase(Base(AfterPortWrite(v, port, b)))

\* The array of the account after a write.
LEMMA FlatIs ==
  ASSUME NEW v, NEW port, NEW b
  PROVE  AccountOfWrite(v, port, b).flat
           = IF Moved(v, port, b) THEN <<>>
             ELSE IF port # 0 THEN v.flat
             ELSE IF Known(v) THEN VramWrite(v.flat, v.cursor.at, b) ELSE <<>>
BY DEF AccountOfWrite, Known, Moved

\* The address of the account after a write.
LEMMA CursorIs ==
  ASSUME NEW v, NEW port, NEW b
  PROVE  AccountOfWrite(v, port, b).cursor
           = IF SetsAddress(v, port, b) THEN [at |-> PairAddress(v, b), writing |-> BitOf(b, 6)]
             ELSE IF RegisterSet(v, port, b) \in {0, 1, 14} \/ (port = 0 /\ ~Known(v))
             THEN [at |-> None, writing |-> FALSE]
             ELSE IF port = 0 THEN [v.cursor EXCEPT !.at = After(v.cursor.at, v)]
             ELSE v.cursor
BY DEF AccountOfWrite, Known, PairAddress, PageOf

\* What a write leaves in the account.
WriteNoted(v, x, port, b) ==
  /\ x.regs = AfterPortWrite(v, port, b).regs
  /\ x.flat = AccountOfWrite(v, port, b).flat
  /\ x.cursor = AccountOfWrite(v, port, b).cursor

\* The planes of the memory.
LEMMA NotMoved ==
  ASSUME NEW v, NEW port, NEW b, NEW x, ~Moved(v, port, b), x.regs = AfterPortWrite(v, port, b).regs
  PROVE  \A a : PlaceOf(x, a) = PlaceOf(v, a)
<1>1. PICK w : w = AfterPortWrite(v, port, b)
  OBVIOUS
<1>2. Base(x) = Base(w)
  BY <1>1, Zenon DEF Base
<1>3. IsPlanarBase(Base(v)) <=> IsPlanarBase(Base(w))
  BY <1>1, Zenon DEF Moved
<1> QED
  BY <1>2, <1>3, Zenon DEF PlaceOf

\* A write that sets no address and comes through another port than the data.
LEMMA QuietStream ==
  ASSUME NEW v, NEW x, NEW port, port # 0, NEW b, Streaming(v),
         ~SetsAddress(v, port, b), Quiet(v, x, RegisterSet(v, port, b)),
         WriteNoted(v, x, port, b)
  PROVE  Streaming(x)
<1>1. PICK r : r = RegisterSet(v, port, b)
  OBVIOUS
<1>3. x.cursor = IF r \in {0, 1, 14} THEN [at |-> None, writing |-> FALSE] ELSE v.cursor
  <2>1. x.cursor = AccountOfWrite(v, port, b).cursor
    BY Zenon DEF WriteNoted
  <2>2. AccountOfWrite(v, port, b).cursor
          = IF RegisterSet(v, port, b) \in {0, 1, 14} THEN [at |-> None, writing |-> FALSE]
            ELSE v.cursor
    BY CursorIs
  <2> QED
    BY <1>1, <2>1, <2>2, Zenon
<1>4. CASE r \in {0, 1, 14}
  BY <1>3, <1>4, StreamLost, Zenon
<1>5. CASE r \notin {0, 1, 14}
  <2>1. x.cursor = v.cursor
    BY <1>3, <1>5, Zenon
  <2>2. \A i \in {0, 1, 14} : x.regs[i] = v.regs[i]
    BY <1>1, <1>5, SMT DEF Quiet
  <2>3. x.vram = v.vram /\ x.ahead = v.ahead /\ x.pointer = v.pointer
    BY Zenon DEF Quiet
  <2> QED
    BY <2>1, <2>2, <2>3, StreamKept, Zenon
<1> QED
  BY <1>4, <1>5, Zenon

\* An address that is set begins a stream.
LEMMA AddressStream ==
  ASSUME NEW v, NEW x, NEW b \in Byte, SetsAddress(v, 1, b),
         WriteNoted(v, x, 1, b),
         AddressTaken(v, x, b)
  PROVE  Streaming(x)
<1> USE DEF AddressTaken
<1>1. x.cursor = [at |-> PairAddress(v, b), writing |-> BitOf(b, 6)]
  BY CursorIs, Zenon DEF WriteNoted
<1>2. x.cursor.at = PairAddress(v, b) /\ x.cursor.writing = BitOf(b, 6)
      /\ x.cursor = [at |-> x.cursor.at, writing |-> x.cursor.writing]
  BY <1>1
<1>3. BitOf(b, 6) \in BOOLEAN
  BY DEF BitOf
<1>4. x.regs[0] = v.regs[0] /\ x.regs[1] = v.regs[1]
  BY SMT
<1>5. Base(x) = Base(v)
  BY <1>4, Zenon DEF Base
<1>6. \A a : After(a, x) = After(a, v) /\ PlaceOf(x, a) = PlaceOf(v, a)
  BY <1>5, Zenon DEF After, PlaceOf
<1>7. Vram(v, PlaceOf(v, PairAddress(v, b))) = VramRead(v.vram, PlaceOf(v, PairAddress(v, b)))
  BY PlaceIn, Zenon
<1> QED
  BY <1>2, <1>3, <1>6, <1>7, Zenon DEF Streaming

\* A byte of data leaves the stream at the next address.
LEMMA DataStream ==
  ASSUME NEW v, NEW x, NEW b \in Byte, Streaming(v), Chip(x),
         WriteNoted(v, x, 0, b),
         \A r \in 0 .. 31 \ {14} : x.regs[r] = v.regs[r],
         LinearAddress(x) = After(LinearAddress(v), v)
  PROVE  Streaming(x)
<1>1. ~SetsAddress(v, 0, b) /\ RegisterSet(v, 0, b) = None /\ None \notin {0, 1, 14}
  BY SMT DEF SetsAddress, RegisterSet, None
<1>2. x.cursor = IF ~Known(v) THEN [at |-> None, writing |-> FALSE]
                 ELSE [v.cursor EXCEPT !.at = After(v.cursor.at, v)]
  BY <1>1, CursorIs DEF WriteNoted
<1>3. CASE ~Known(v)
  BY <1>2, <1>3, StreamLost, Zenon
<1>4. CASE Known(v)
  <2>1. v.cursor = [at |-> v.cursor.at, writing |-> TRUE] /\ LinearAddress(v) = v.cursor.at
    BY <1>4, Zenon DEF Known, Streaming
  <2>2. PICK n : n = After(v.cursor.at, v)
    OBVIOUS
  <2>3. x.cursor = [v.cursor EXCEPT !.at = n]
    BY <1>2, <1>4, <2>2, Zenon
  <2>4. x.cursor = [at |-> x.cursor.at, writing |-> x.cursor.writing]
        /\ x.cursor.at = n /\ x.cursor.writing = TRUE
    BY <2>1, <2>3
  <2>5. LinearAddress(x) \in VideoAddresses /\ LinearAddress(x) = n
    BY <2>1, <2>2, LinearInChip, Zenon
  <2> QED
    BY <2>4, <2>5, Zenon DEF Streaming
<1> QED
  BY <1>3, <1>4, Zenon

\* The array stays right on a write that stores no byte,
LEMMA QuietStored ==
  ASSUME NEW v, NEW x, NEW port, port # 0, NEW b, AsStored(v), x.vram = v.vram,
         WriteNoted(v, x, port, b)
  PROVE  AsStored(x)
<1>2. x.flat = IF Moved(v, port, b) THEN <<>> ELSE v.flat
  BY FlatIs, Zenon DEF WriteNoted
<1>3. CASE Moved(v, port, b)
  BY <1>2, <1>3, EmptyStored, Zenon
<1>4. CASE ~Moved(v, port, b)
  <2>1. \A a : PlaceOf(x, a) = PlaceOf(v, a)
    BY <1>4, NotMoved DEF WriteNoted
  <2> QED
    BY <1>2, <1>4, <2>1, StoredKept
<1> QED
  BY <1>3, <1>4, Zenon

\* and on one that does.
LEMMA DataStored ==
  ASSUME NEW v, NEW x, NEW b, AsStored(v), Streaming(v),
         x.vram = VramWrite(v.vram, PlaceOf(v, LinearAddress(v)), b),
         WriteNoted(v, x, 0, b)
  PROVE  AsStored(x)
<1>1. x.flat = IF Moved(v, 0, b) THEN <<>>
               ELSE IF Known(v) THEN VramWrite(v.flat, v.cursor.at, b) ELSE <<>>
  BY FlatIs DEF WriteNoted
<1>2. CASE Moved(v, 0, b) \/ ~Known(v)
  BY <1>1, <1>2, EmptyStored, Zenon
<1>3. CASE ~Moved(v, 0, b) /\ Known(v)
  <2>1. PICK at \in VideoAddresses : at = v.cursor.at /\ LinearAddress(v) = at
    BY <1>3, Zenon DEF Known, Streaming
  <2>2. x.flat = VramWrite(v.flat, at, b) /\ x.vram = VramWrite(v.vram, PlaceOf(v, at), b)
    BY <1>1, <1>3, <2>1, Zenon
  <2>3. \A a : PlaceOf(x, a) = PlaceOf(v, a)
    BY <1>3, NotMoved DEF WriteNoted
  <2> QED
    BY <2>2, <2>3, StoredBoth
<1> QED
  BY <1>2, <1>3, Zenon

\* Pairs that stay together in the chip stay so in the account.
LEMMA PairKept ==
  ASSUME NEW v, NEW w, NEW x, NEW held, Pair(w, held), x.held = held, x.latch = w.latch,
         x.register_stored = w.register_stored, x.palette_stored = w.palette_stored
  PROVE  Together(x)
BY Zenon DEF Pair, Together

\* A write of any port keeps the account (io_write).
LEMMA PortWriteKeeps ==
  ASSUME NEW v, NEW x, Accounted(v), NEW port \in 0 .. 3, NEW b \in Byte,
         LET a == AccountOfWrite(v, port, b)
         IN  x = [AfterPortWrite(v, port, b) EXCEPT !.left = @ - 1, !.last = Nothing,
                    !.flat = a.flat, !.cursor = a.cursor, !.held = a.held]
  PROVE  Accounted(x)
<1>1. PICK w : w = AfterPortWrite(v, port, b)
  OBVIOUS
<1>2. PICK a : a = AccountOfWrite(v, port, b)
  OBVIOUS
<1>3. PICK n : n = w.left - 1
  OBVIOUS
<1>4. PICK f, c, h : f = a.flat /\ c = a.cursor /\ h = a.held
  OBVIOUS
<1>5. x = [w EXCEPT !.left = n, !.last = Nothing, !.flat = f, !.cursor = c, !.held = h]
  BY <1>1, <1>2, <1>3, <1>4
<1>6. Chip(v) /\ Steps(v) /\ AsStored(v) /\ Streaming(v) /\ Together(v)
  BY Zenon DEF Accounted
<1>7. SUFFICES ASSUME Chip(w), w.steps = v.steps, Pair(w, h),
                      Chip(x) /\ x.steps = w.steps /\ x.flat = f /\ x.cursor = c /\ x.held = h
                      /\ x.regs = w.regs /\ x.pointer = w.pointer /\ x.ahead = w.ahead
                      /\ x.vram = w.vram /\ x.latch = w.latch
                      /\ x.register_stored = w.register_stored
                      /\ x.palette_stored = w.palette_stored
               PROVE  AsStored(x) /\ Streaming(x)
  <2>1. Chip(w) /\ w.steps = v.steps /\ Pair(w, h)
    <3>1. CASE port = 0
      BY <3>1, <1>1, <1>2, <1>4, <1>6, DataPair
    <3>2. CASE port = 1
      BY <3>2, <1>1, <1>2, <1>4, <1>6, FirstByte, SecondByte
    <3>3. CASE port = 2
      BY <3>3, <1>1, <1>2, <1>4, <1>6, PaletteFirst, PaletteSecond
    <3>4. CASE port = 3
      BY <3>4, <1>1, <1>2, <1>4, <1>6, Indirect
    <3> QED
      BY <3>1, <3>2, <3>3, <3>4, Ports, Zenon
  <2>2. Chip(x) /\ x.steps = w.steps /\ x.flat = f /\ x.cursor = c /\ x.held = h
        /\ x.regs = w.regs /\ x.pointer = w.pointer /\ x.ahead = w.ahead
        /\ x.vram = w.vram /\ x.latch = w.latch
        /\ x.register_stored = w.register_stored
        /\ x.palette_stored = w.palette_stored
    <3>1. w = Fields(w)
      BY <2>1, Zenon DEF Chip
    <3>2. /\ x = Fields(x) /\ x.steps = w.steps /\ x.flat = f /\ x.cursor = c /\ x.held = h
          /\ x.regs = w.regs /\ x.pointer = w.pointer /\ x.ahead = w.ahead /\ x.vram = w.vram
          /\ x.latch = w.latch /\ x.register_stored = w.register_stored
          /\ x.palette_stored = w.palette_stored /\ x.palette = w.palette
      BY <1>5, <3>1 DEF Fields
    <3> QED
      BY <2>1, <3>2, Zenon DEF Chip
  <2>3. Together(x)
    BY <2>1, <2>2, PairKept, Zenon
  <2>4. Steps(x)
    BY <1>6, <2>1, <2>2, Zenon DEF Steps
  <2> QED
    BY <2>1, <2>2, <2>3, <2>4, Zenon DEF Accounted
<1>8. WriteNoted(v, x, port, b)
  BY <1>1, <1>2, <1>4, <1>7, Zenon DEF WriteNoted
<1>9. CASE port = 0
  <2>1. /\ w.vram = VramWrite(v.vram, PlaceOf(v, LinearAddress(v)), b)
        /\ \A r \in 0 .. 31 \ {14} : w.regs[r] = v.regs[r]
        /\ LinearAddress(w) = After(LinearAddress(v), v)
    BY <1>1, <1>6, <1>9, DataPair
  <2>2. LinearAddress(x) = LinearAddress(w)
    BY <1>7, SameRegs, Zenon
  <2>3. AsStored(x)
    <3>1. WriteNoted(v, x, 0, b) /\ x.vram = VramWrite(v.vram, PlaceOf(v, LinearAddress(v)), b)
      BY <1>7, <1>8, <1>9, <2>1, Zenon
    <3> QED
      BY <1>6, <3>1, DataStored
  <2>4. Streaming(x)
    <3>1. \A r \in 0 .. 31 \ {14} : x.regs[r] = v.regs[r]
      BY <1>7, <2>1, Zenon
    <3>2. WriteNoted(v, x, 0, b) /\ Chip(x) /\ Streaming(v)
      BY <1>6, <1>7, <1>8, <1>9, Zenon
    <3>3. LinearAddress(x) = After(LinearAddress(v), v)
      BY <2>1, <2>2, Zenon
    <3> QED
      BY <3>1, <3>2, <3>3, DataStream
  <2> QED
    BY <2>3, <2>4, Zenon
<1>10. CASE port = 1 /\ SetsAddress(v, 1, b)
  <2>1. v.register_stored /\ ~BitOf(b, 7)
    BY <1>10, Zenon DEF SetsAddress
  <2>2. AddressTaken(v, w, b)
    BY <1>1, <1>6, <1>10, <2>1, SecondByte
  <2>3. LinearAddress(x) = LinearAddress(w)
    BY <1>7, SameRegs, Zenon
  <2>4. port # 0 /\ WriteNoted(v, x, 1, b)
    BY <1>8, <1>10, SMT
  <2>5. x.vram = v.vram
    BY <1>7, <2>2, Zenon DEF AddressTaken
  <2>6. AsStored(x)
    BY <1>6, <1>8, <2>4, <2>5, QuietStored
  <2>7. AddressTaken(v, x, b)
    BY <1>7, <2>2, <2>3, Zenon DEF AddressTaken
  <2>8. Streaming(x)
    BY <2>4, <1>10, <2>7, AddressStream
  <2> QED
    BY <2>6, <2>8, Zenon
<1>11. CASE port # 0 /\ ~(port = 1 /\ SetsAddress(v, 1, b))
  <2>2. Quiet(v, w, RegisterSet(v, port, b)) /\ ~SetsAddress(v, port, b)
    <3>1. CASE port = 1
      <4>1. CASE v.register_stored
        <5>1. BitOf(b, 7)
          BY <1>11, <3>1, <4>1, Zenon DEF SetsAddress
        <5> QED
          BY <1>1, <1>6, <3>1, <4>1, <5>1, SecondByte
      <4>2. CASE ~v.register_stored
        BY <1>1, <1>6, <3>1, <4>2, FirstByte
      <4> QED
        BY <4>1, <4>2, Zenon
    <3>2. CASE port = 2
      BY <3>2, <1>1, <1>6, PaletteFirst, PaletteSecond
    <3>3. CASE port = 3
      BY <3>3, <1>1, <1>6, Indirect
    <3> QED
      BY <1>11, <3>1, <3>2, <3>3, Ports, Zenon
  <2>3. Quiet(v, x, RegisterSet(v, port, b))
    BY <1>7, <2>2, Zenon DEF Quiet
  <2>4. AsStored(x)
    <3>1. x.vram = v.vram
      BY <2>3, Zenon DEF Quiet
    <3> QED
      BY <1>6, <1>8, <1>11, <3>1, QuietStored
  <2>5. Streaming(x)
    BY <1>6, <1>8, <1>11, <2>2, <2>3, QuietStream
  <2> QED
    BY <2>4, <2>5, Zenon
<1> QED
  BY <1>9, <1>10, <1>11, Zenon

-----------------------------------------------------------------------------
\* A read of a port keeps the account, and of port 0 gives the byte that was
\* ahead (io_read).
LEMMA PortReadKeeps ==
  ASSUME NEW v, NEW x, Accounted(v), NEW port \in 0 .. 1,
         LET a == AccountOfRead(v, port)
         IN  x = [AfterPortRead(v, port) EXCEPT !.left = @ - 1, !.cursor = a.cursor,
                    !.held = a.held, !.cleared = a.cleared]
  PROVE  /\ Accounted(x)
         /\ port = 0 => x.last = ByteRead(v.ahead)
<1>1. Chip(v) /\ Steps(v) /\ AsStored(v) /\ Streaming(v) /\ Together(v)
  BY Zenon DEF Accounted
<1>2. PICK a : a = AccountOfRead(v, port)
  OBVIOUS
<1>3. PICK u : u = [v EXCEPT !.register_stored = FALSE]
  OBVIOUS
<1>4. /\ Chip(u) /\ Alike(v, u) /\ u.latch = v.latch /\ u.register_stored = FALSE
      /\ u.ahead = v.ahead /\ u.vram = v.vram /\ u.pointer = v.pointer /\ u.regs = v.regs
  BY <1>1, <1>3, StoredSet
<1>5. PICK w : w = AfterPortRead(v, port)
  OBVIOUS
<1>6. PICK n, c, h, l : n = w.left - 1 /\ c = a.cursor /\ h = a.held /\ l = a.cleared
  OBVIOUS
<1>7. x = [w EXCEPT !.left = n, !.cursor = c, !.held = h, !.cleared = l]
  BY <1>2, <1>5, <1>6
<1>8. h = [register |-> None, palette |-> v.held.palette]
  BY <1>1, <1>2, <1>6 DEF AccountOfRead, Together
<1>9. h = [register |-> h.register, palette |-> h.palette] /\ h.register = None
      /\ h.palette = v.held.palette
  BY <1>8
<1>10. ASSUME Chip(w), w.steps = v.steps, w.flat = v.flat, w.vram = v.vram, w.latch = v.latch,
              w.register_stored = FALSE, w.palette_stored = v.palette_stored,
              w.regs[0] = v.regs[0], w.regs[1] = v.regs[1]
       PROVE  /\ Chip(x) /\ Steps(x) /\ AsStored(x) /\ Together(x)
              /\ x.regs = w.regs /\ x.pointer = w.pointer /\ x.ahead = w.ahead /\ x.vram = w.vram
              /\ x.cursor = c /\ x.last = w.last
  <2>1. w = Fields(w)
    BY <1>10, Zenon DEF Chip
  <2>2. /\ x = Fields(x) /\ x.steps = w.steps /\ x.flat = w.flat /\ x.cursor = c /\ x.held = h
        /\ x.regs = w.regs /\ x.pointer = w.pointer /\ x.ahead = w.ahead /\ x.vram = w.vram
        /\ x.latch = w.latch /\ x.register_stored = w.register_stored
        /\ x.palette_stored = w.palette_stored /\ x.palette = w.palette /\ x.last = w.last
    BY <1>7, <2>1 DEF Fields
  <2>3. Chip(x)
    BY <1>10, <2>2, Zenon DEF Chip
  <2>4. Steps(x)
    BY <1>1, <1>10, <2>2, Zenon DEF Steps
  <2>5. Base(x) = Base(v)
    BY <1>10, <2>2, Zenon DEF Base
  <2>6. \A p : PlaceOf(x, p) = PlaceOf(v, p)
    BY <2>5, Zenon DEF PlaceOf
  <2>7. AsStored(x)
    <3>1. x.flat = v.flat /\ x.vram = v.vram
      BY <1>10, <2>2, Zenon
    <3> QED
      BY <1>1, <2>6, <3>1, Zenon DEF AsStored
  <2>8. Together(x)
    <3>1. /\ x.held = [register |-> x.held.register, palette |-> x.held.palette]
          /\ x.held.register = None /\ x.held.palette = v.held.palette
      BY <1>9, <2>2, Zenon
    <3>2. /\ x.register_stored = FALSE /\ x.palette_stored = v.palette_stored
          /\ x.latch = v.latch
      BY <1>10, <2>2, Zenon
    <3> QED
      BY <1>1, <3>1, <3>2, NotHeld, Zenon DEF Together
  <2> QED
    BY <2>2, <2>3, <2>4, <2>7, <2>8, Zenon
<1>11. CASE port = 0
  <2>1. PICK y : y = AfterDataRead(u)
    OBVIOUS
  <2>2. w = [y EXCEPT !.last = ByteRead(v.ahead)]
    BY <1>3, <1>5, <1>11, <2>1 DEF AfterPortRead
  <2>3. /\ Chip(y) /\ Alike(u, y) /\ y.latch = u.latch /\ y.register_stored = u.register_stored
        /\ y.vram = u.vram
        /\ y.ahead = Vram(u, PlaceOf(u, LinearAddress(u)))
        /\ \A r \in 0 .. 31 \ {14} : y.regs[r] = u.regs[r]
        /\ LinearAddress(u) \in VideoAddresses
        /\ LinearAddress(y) = After(LinearAddress(u), u)
    BY <1>4, <2>1, DataRead
  <2>4. /\ w = Fields(w) /\ w.steps = y.steps /\ w.flat = y.flat
        /\ w.regs = y.regs /\ w.pointer = y.pointer /\ w.ahead = y.ahead /\ w.vram = y.vram
        /\ w.latch = y.latch /\ w.register_stored = y.register_stored
        /\ w.palette_stored = y.palette_stored /\ w.palette = y.palette
        /\ w.last = ByteRead(v.ahead)
    <3>1. y = Fields(y)
      BY <2>3, Zenon DEF Chip
    <3> QED
      BY <2>2, <3>1 DEF Fields
  <2>5. /\ Chip(w) /\ w.steps = v.steps /\ w.flat = v.flat /\ w.vram = v.vram
        /\ w.latch = v.latch /\ w.register_stored = FALSE /\ w.palette_stored = v.palette_stored
    BY <1>4, <2>3, <2>4, Zenon DEF Chip, Alike
  <2>6. w.regs[0] = v.regs[0] /\ w.regs[1] = v.regs[1]
    BY <1>4, <2>3, <2>4, SMT
  <2>7. /\ Chip(x) /\ Steps(x) /\ AsStored(x) /\ Together(x)
        /\ x.regs = w.regs /\ x.pointer = w.pointer /\ x.ahead = w.ahead /\ x.vram = w.vram
        /\ x.cursor = c /\ x.last = w.last
    BY <1>10, <2>5, <2>6, Zenon
  <2>8. LinearAddress(u) = LinearAddress(v) /\ Base(u) = Base(v)
        /\ \A p : PlaceOf(u, p) = PlaceOf(v, p) /\ After(p, u) = After(p, v)
    BY <1>4, SameRegs, Zenon
  <2>9. Base(x) = Base(v)
    BY <2>6, <2>7, Zenon DEF Base
  <2>10. \A p : PlaceOf(x, p) = PlaceOf(v, p) /\ After(p, x) = After(p, v)
    BY <2>9, Zenon DEF PlaceOf, After
  <2>11. LinearAddress(v) \in VideoAddresses
    BY <2>3, <2>8, Zenon
  <2>12. LinearAddress(x) = After(LinearAddress(v), v)
    <3>1. LinearAddress(x) = LinearAddress(y)
      BY <2>4, <2>7, SameRegs, Zenon
    <3> QED
      BY <2>3, <2>8, <3>1, Zenon
  <2>13. x.ahead = VramRead(v.vram, PlaceOf(v, LinearAddress(v)))
    <3>1. x.ahead = Vram(u, PlaceOf(u, LinearAddress(u)))
      BY <2>3, <2>4, <2>7, Zenon
    <3>2. Vram(u, PlaceOf(u, LinearAddress(u))) = VramRead(u.vram, PlaceOf(u, LinearAddress(u)))
      BY <2>3, PlaceIn, Zenon
    <3> QED
      BY <1>4, <2>8, <3>1, <3>2, Zenon
  <2>14. Streaming(x)
    <3>1. CASE v.cursor.at = None \/ v.cursor.writing
      <4>1. x.cursor = [at |-> None, writing |-> FALSE]
        BY <1>2, <1>6, <1>11, <2>7, <3>1 DEF AccountOfRead
      <4> QED
        BY <4>1, StreamLost, Zenon
    <3>2. CASE ~(v.cursor.at = None \/ v.cursor.writing)
      <4>1. PICK next : next = After(v.cursor.at, v)
        OBVIOUS
      <4>2. x.cursor = [v.cursor EXCEPT !.at = next]
        BY <1>2, <1>6, <1>11, <2>7, <3>2, <4>1 DEF AccountOfRead
      <4>3. v.cursor = [at |-> v.cursor.at, writing |-> FALSE] /\ LinearAddress(v) = next
        BY <1>1, <3>2, <4>1, Zenon DEF Streaming
      <4>4. x.cursor = [at |-> x.cursor.at, writing |-> x.cursor.writing]
            /\ x.cursor.at = next /\ x.cursor.writing = FALSE
        BY <4>2, <4>3
      <4> QED
        BY <4>3, <4>4, <2>4, <2>5, <2>7, <2>10, <2>11, <2>12, <2>13, Zenon DEF Streaming
    <3> QED
      BY <3>1, <3>2, Zenon
  <2> QED
    BY <2>4, <2>7, <2>14, Zenon DEF Accounted
<1>12. CASE port = 1
  <2>1. w = AfterStatusPort(u)
    BY <1>3, <1>5, <1>12, SMT DEF AfterPortRead
  <2>2. PICK y : y = IF u.regs[15] % 16 = 0 THEN [u EXCEPT !.sprites = AfterSync(u.sprites, u.beam)] ELSE u
    OBVIOUS
  <2>3. /\ y = Fields(y) /\ y.steps = u.steps /\ y.flat = u.flat
        /\ y.regs = u.regs /\ y.pointer = u.pointer /\ y.ahead = u.ahead /\ y.vram = u.vram
        /\ y.latch = u.latch /\ y.register_stored = u.register_stored
        /\ y.palette_stored = u.palette_stored /\ y.palette = u.palette
    <3>1. u = Fields(u)
      BY <1>4, Zenon DEF Chip
    <3>2. CASE u.regs[15] % 16 = 0
      <4>1. y = [u EXCEPT !.sprites = AfterSync(u.sprites, u.beam)]
        BY <2>2, <3>2, Zenon
      <4> QED
        BY <3>1, <4>1 DEF Fields
    <3>3. CASE u.regs[15] % 16 # 0
      BY <2>2, <3>1, <3>3, Zenon
    <3> QED
      BY <3>2, <3>3, Zenon
  <2>4. PICK m, e : m = ByteRead(PeekStatus(y, u.regs[15] % 16))
                    /\ e = AfterStatusRead(y.sprites, u.regs[15] % 16, u.beam)
    OBVIOUS
  <2>5. w = [y EXCEPT !.last = m, !.sprites = e]
    BY <2>1, <2>2, <2>4 DEF AfterStatusPort
  <2>6. /\ w = Fields(w) /\ w.steps = y.steps /\ w.flat = y.flat
        /\ w.regs = y.regs /\ w.pointer = y.pointer /\ w.ahead = y.ahead /\ w.vram = y.vram
        /\ w.latch = y.latch /\ w.register_stored = y.register_stored
        /\ w.palette_stored = y.palette_stored /\ w.palette = y.palette
    <3>1. y = Fields(y)
      BY <2>3, Zenon
    <3> QED
      BY <2>5, <3>1 DEF Fields
  <2>7. /\ Chip(w) /\ w.steps = v.steps /\ w.flat = v.flat /\ w.vram = v.vram
        /\ w.latch = v.latch /\ w.register_stored = FALSE /\ w.palette_stored = v.palette_stored
        /\ w.regs = v.regs /\ w.ahead = v.ahead /\ w.pointer = v.pointer
    BY <1>4, <2>3, <2>6, Zenon DEF Chip, Alike
  <2>8. /\ Chip(x) /\ Steps(x) /\ AsStored(x) /\ Together(x)
        /\ x.regs = w.regs /\ x.pointer = w.pointer /\ x.ahead = w.ahead /\ x.vram = w.vram
        /\ x.cursor = c
    BY <1>10, <2>7, Zenon
  <2>9. x.cursor = v.cursor
    BY <1>2, <1>6, <1>12, <2>8 DEF AccountOfRead
  <2>10. Streaming(x)
    <3>1. /\ x.regs = v.regs /\ x.vram = v.vram /\ x.ahead = v.ahead
          /\ x.pointer = v.pointer
      BY <2>7, <2>8, Zenon
    <3> QED
      BY <1>1, <2>9, <3>1, StreamKept
  <2> QED
    BY <1>12, <2>8, <2>10, SMT DEF Accounted
<1> QED
  BY <1>11, <1>12, SMT

-----------------------------------------------------------------------------
\* The account stays while what it is about stays.
LEMMA OthersKeep ==
  ASSUME NEW v, NEW x, Accounted(v), x = Fields(x), x.regs = v.regs, x.steps = v.steps,
         x.vram = v.vram, x.palette = v.palette, x.latch = v.latch,
         x.register_stored = v.register_stored, x.palette_stored = v.palette_stored,
         x.pointer = v.pointer, x.ahead = v.ahead, x.flat = v.flat, x.cursor = v.cursor,
         x.held = v.held
  PROVE  Accounted(x)
<1>1. Chip(v) /\ Steps(v) /\ AsStored(v) /\ Streaming(v) /\ Together(v)
  BY Zenon DEF Accounted
<1>2. Chip(x)
  BY <1>1, Zenon DEF Chip
<1>3. Steps(x)
  BY <1>1, Zenon DEF Steps
<1>4. \A a : PlaceOf(x, a) = PlaceOf(v, a)
  BY SameRegs, Zenon
<1>5. AsStored(x)
  BY <1>1, <1>4, StoredKept, Zenon
<1>6. Streaming(x)
  <2>1. \A r \in {0, 1, 14} : x.regs[r] = v.regs[r]
    OBVIOUS
  <2> QED
    BY <1>1, <2>1, StreamKept
<1>7. Together(x)
  BY <1>1, Zenon DEF Together
<1> QED
  BY <1>2, <1>3, <1>5, <1>6, <1>7, Zenon DEF Accounted

\* It does at a vertical sync,
LEMMA VsyncKeeps ==
  ASSUME Accounted(video), Vsync
  PROVE  Accounted(video')
<1>1. PICK n, s, e, b : video' = [video EXCEPT !.left = n, !.last = s, !.sprites = e,
                                              !.beam = b, !.cleared = b]
  BY DEF Vsync
<1>2. video = Fields(video)
  BY Zenon DEF Accounted, Chip
<1>3. PICK v, x : v = video /\ x = video'
  OBVIOUS
<1>4. x = [v EXCEPT !.left = n, !.last = s, !.sprites = e, !.beam = b, !.cleared = b] /\ v = Fields(v)
  BY <1>1, <1>2, <1>3, Zenon
<1>5. /\ x = Fields(x) /\ x.regs = v.regs /\ x.steps = v.steps
      /\ x.vram = v.vram /\ x.palette = v.palette /\ x.latch = v.latch
      /\ x.register_stored = v.register_stored /\ x.palette_stored = v.palette_stored
      /\ x.pointer = v.pointer /\ x.ahead = v.ahead /\ x.flat = v.flat /\ x.cursor = v.cursor
      /\ x.held = v.held
  BY <1>4 DEF Fields
<1>6. Accounted(v)
  BY <1>3, Zenon
<1>7. Accounted(x)
  BY <1>5, <1>6, OthersKeep
<1> QED
  BY <1>3, <1>7, Zenon

\* when the beam comes to a line,
LEMMA BeamKeeps ==
  ASSUME Accounted(video), NEW line, Beam(line)
  PROVE  Accounted(video')
<1>1. PICK n : video' = [video EXCEPT !.left = n, !.last = Nothing, !.beam = line]
  BY DEF Beam
<1>2. video = Fields(video)
  BY Zenon DEF Accounted, Chip
<1>3. PICK v, x : v = video /\ x = video'
  OBVIOUS
<1>4. x = [v EXCEPT !.left = n, !.last = Nothing, !.beam = line] /\ v = Fields(v)
  BY <1>1, <1>2, <1>3, Zenon
<1>5. /\ x = Fields(x) /\ x.regs = v.regs /\ x.steps = v.steps
      /\ x.vram = v.vram /\ x.palette = v.palette /\ x.latch = v.latch
      /\ x.register_stored = v.register_stored /\ x.palette_stored = v.palette_stored
      /\ x.pointer = v.pointer /\ x.ahead = v.ahead /\ x.flat = v.flat /\ x.cursor = v.cursor
      /\ x.held = v.held
  BY <1>4 DEF Fields
<1>6. Accounted(v)
  BY <1>3, Zenon
<1>7. Accounted(x)
  BY <1>5, <1>6, OthersKeep
<1> QED
  BY <1>3, <1>7, Zenon

\* and when a line is drawn.
LEMMA DrawKeeps ==
  ASSUME Accounted(video), NEW line, NEW field, Draw(line, field)
  PROVE  Accounted(video')
<1>1. PICK n, s : video' = [video EXCEPT !.left = n, !.last = s]
  BY DEF Draw
<1>2. video = Fields(video)
  BY Zenon DEF Accounted, Chip
<1>3. PICK v, x : v = video /\ x = video'
  OBVIOUS
<1>4. x = [v EXCEPT !.left = n, !.last = s] /\ v = Fields(v)
  BY <1>1, <1>2, <1>3, Zenon
<1>5. /\ x = Fields(x) /\ x.regs = v.regs /\ x.steps = v.steps
      /\ x.vram = v.vram /\ x.palette = v.palette /\ x.latch = v.latch
      /\ x.register_stored = v.register_stored /\ x.palette_stored = v.palette_stored
      /\ x.pointer = v.pointer /\ x.ahead = v.ahead /\ x.flat = v.flat /\ x.cursor = v.cursor
      /\ x.held = v.held
  BY <1>4 DEF Fields
<1>6. Accounted(v)
  BY <1>3, Zenon
<1>7. Accounted(x)
  BY <1>5, <1>6, OthersKeep
<1> QED
  BY <1>3, <1>7, Zenon

\* So every step keeps the account,
LEMMA VideoStepKeeps ==
  ASSUME Accounted(video), [VdpNext]_video_vars
  PROVE  Accounted(video')
<1>1. ASSUME NEW step \in {s \in video.steps : s[1] = "write"}, PortWrite(step[2], step[3])
      PROVE  Accounted(video')
  <2>1. PICK port, b : port = step[2] /\ b = step[3]
    OBVIOUS
  <2>2. port \in 0 .. 3 /\ b \in Byte
    BY <2>1, Zenon DEF Accounted, Steps
  <2>3. PortWrite(port, b)
    BY <1>1, <2>1, Zenon
  <2> QED
    BY <2>2, <2>3, PortWriteKeeps DEF PortWrite
<1>2. ASSUME NEW port \in 0 .. 1, PortRead(port)
      PROVE  Accounted(video')
  BY <1>2, PortReadKeeps DEF PortRead
<1>3. CASE UNCHANGED video_vars
  BY <1>3, Zenon DEF video_vars
<1> QED
  BY <1>1, <1>2, <1>3, VsyncKeeps, BeamKeeps, DrawKeeps, Zenon DEF VdpNext

\* which is right of what a program has set up,
LEMMA SetUpAccounted ==
  ASSUME NEW screen \in Screens
  PROVE  Accounted(SetUp(screen))
<1>1. PICK v : v = SetUp(screen)
  OBVIOUS
<1>2. PICK regs : regs = [r \in 0 .. 31 |-> IF r \in DOMAIN screen.regs THEN screen.regs[r]
                                 ELSE IF r = 21 THEN 59 ELSE IF r = 22 THEN 5 ELSE 0]
  OBVIOUS
<1>3. PICK vram : vram = [a \in {Placed(regs, l) : l \in DOMAIN screen.vram} |->
                   screen.vram[CHOOSE l \in DOMAIN screen.vram : Placed(regs, l) = a]]
  OBVIOUS
<1>4. v = [regs |-> regs, steps |-> screen.steps, left |-> screen.length, vram |-> vram,
       palette |-> BootPalette, blink |-> FALSE, latch |-> 0, register_stored |-> FALSE,
       palette_stored |-> FALSE, pointer |-> 0, ahead |-> 0,
       sprites |-> ResetSprites, beam |-> BeforeFrame, last |-> Nothing,
       flat |-> screen.vram, cursor |-> [at |-> None, writing |-> FALSE],
       held |-> [register |-> None, palette |-> None], cleared |-> BeforeFrame]
  BY <1>1, <1>2, <1>3 DEF SetUp
<1>5. /\ v = Fields(v) /\ v.regs = regs /\ v.steps = screen.steps /\ v.vram = vram
      /\ v.palette = BootPalette /\ v.latch = 0 /\ v.register_stored = FALSE
      /\ v.palette_stored = FALSE /\ v.pointer = 0 /\ v.flat = screen.vram
      /\ v.cursor = [at |-> None, writing |-> FALSE]
      /\ v.held = [register |-> None, palette |-> None]
  BY <1>4 DEF Fields
<1>6. Chip(v)
  <2>1. regs \in [0 .. 31 -> Byte]
    <3>1. \A r \in DOMAIN screen.regs : screen.regs[r] \in Byte
      BY VdpPortsAssumption, Zenon
    <3>2. 59 \in Byte /\ 5 \in Byte /\ 0 \in Byte
      BY SMT DEF Byte
    <3> QED
      BY <1>2, <3>1, <3>2, Zenon
  <2>2. 0 \in Pointers /\ 0 \in Byte
    BY SMT DEF Pointers, K, Byte
  <2>3. BootPalette = [i \in 0 .. 15 |-> BootPalette[i]]
    BY SMT DEF BootPalette
  <2> QED
    BY <1>5, <2>1, <2>2, <2>3, Zenon DEF Chip
<1>7. Steps(v)
  BY <1>5, VdpPortsAssumption, Zenon DEF Steps
<1>8. AsStored(v)
  <2>1. \A l : Placed(regs, l) = PlaceOf(v, l)
    BY <1>5, Zenon DEF Placed, PlaceOf, Base
  <2>2. SUFFICES ASSUME NEW l \in DOMAIN screen.vram
                 PROVE  l \in VideoAddresses /\ VramRead(vram, PlaceOf(v, l)) = screen.vram[l]
    BY <1>5, Zenon DEF AsStored
  <2>3. \A m \in DOMAIN screen.vram : m \in VideoAddresses
    <3>1. DOMAIN screen.vram \subseteq 0 .. VramSize - 1
      BY VdpPortsAssumption, Zenon
    <3>2. \A m \in 0 .. VramSize - 1 : m \in VideoAddresses
      BY SMT DEF VideoAddresses, VramSize, K
    <3> QED
      BY <3>1, <3>2, Zenon
  <2>4. PICK p : p = Placed(regs, l)
    OBVIOUS
  <2>5. PICK m : m = CHOOSE n \in DOMAIN screen.vram : Placed(regs, n) = p
    OBVIOUS
  <2>6. m \in DOMAIN screen.vram /\ Placed(regs, m) = p
    BY <2>4, <2>5, Zenon
  <2>7. m = l
    <3>1. PlaceOf(v, m) = PlaceOf(v, l)
      BY <2>1, <2>4, <2>6
    <3>2. m \in VideoAddresses /\ l \in VideoAddresses
      BY <2>3, <2>6
    <3> QED
      BY <3>1, <3>2, PlaceOnce
  <2>8. p \in DOMAIN vram /\ vram[p] = screen.vram[m]
    BY <1>3, <2>4, <2>5
  <2> QED
    <3>1. PlaceOf(v, l) = p
      BY <2>1, <2>4
    <3> QED
      BY <2>3, <2>7, <2>8, <3>1 DEF VramRead
<1>9. Streaming(v)
  BY <1>5, StreamLost, Zenon
<1>10. Together(v)
  <2>1. v.held.register = None /\ v.held.palette = None
        /\ v.held = [register |-> v.held.register, palette |-> v.held.palette]
    BY <1>5
  <2> QED
    BY <1>5, <2>1, NotHeld, Zenon DEF Together
<1> QED
  BY <1>1, <1>6, <1>7, <1>8, <1>9, <1>10, Zenon DEF Accounted

\* The account of the chip itself.
VideoAccounted == Accounted(video)

\* and it is always right.
LEMMA VdpAccounted == VdpSpec => []VideoAccounted
<1>1. VdpInit => VideoAccounted
  BY SetUpAccounted, Zenon DEF VdpInit, VideoAccounted
<1>2. VideoAccounted /\ [VdpNext]_video_vars => VideoAccounted'
  BY VideoStepKeeps, Zenon DEF VideoAccounted
<1> QED
  BY <1>1, <1>2, PTL DEF VdpSpec

\* The byte ahead is the one stored at the address of the stream.
LEMMA ReadGivesStored ==
  ASSUME Accounted(video), PortRead(0), ~video.cursor.writing,
         video.cursor.at \in DOMAIN video.flat
  PROVE  video'.last = ByteRead(video.flat[video.cursor.at])
<1>1. video'.last = ByteRead(video.ahead)
  <2>1. 0 \in 0 .. 1
    BY SMT
  <2> QED
    BY <2>1, PortReadKeeps DEF PortRead
<1>2. video.cursor.at \in VideoAddresses
      /\ VramRead(video.vram, PlaceOf(video, video.cursor.at)) = video.flat[video.cursor.at]
  BY Zenon DEF Accounted, AsStored
<1>3. video.ahead = VramRead(video.vram, PlaceOf(video, video.cursor.at))
  BY <1>2, AddressIsNoMark, Zenon DEF Accounted, Streaming
<1> QED
  BY <1>1, <1>2, <1>3, Zenon

\* A pair on port 1 gives its register or address both of its bytes.
LEMMA RegisterPair ==
  ASSUME Accounted(video), NEW b \in Byte, PortWrite(1, b)
  PROVE  RegisterPairWhole(b)
<1>1. SUFFICES ASSUME Holding(video.held.register)
      PROVE  IF BitOf(b, 7) THEN b % 64 < 32 => video'.regs[b % 64] = video.held.register
             ELSE video'.pointer = ((256 * b) + video.held.register
                                      + (IF BitOf(b, 6) THEN 0 ELSE 1)) % (16 * K)
  BY Zenon DEF RegisterPairWhole
<1>2. Chip(video) /\ Together(video)
  BY Zenon DEF Accounted
<1>3. video.register_stored /\ video.held.register = video.latch
  BY <1>1, <1>2, NotHeld, Zenon DEF Together
<1>4. PICK w : w = AfterPortWrite(video, 1, b)
  OBVIOUS
<1>5. /\ Chip(w)
      /\ BitOf(b, 7) /\ b % 64 < 32 => w.regs[b % 64] = video.latch
      /\ ~BitOf(b, 7) => AddressTaken(video, w, b)
  BY <1>2, <1>3, <1>4, SecondByte
<1>6. video'.regs = w.regs /\ video'.pointer = w.pointer
  <2>1. PICK n, f, c, h : video' = [w EXCEPT !.left = n, !.last = Nothing, !.flat = f,
                                             !.cursor = c, !.held = h]
    BY <1>4 DEF PortWrite
  <2>2. w = Fields(w)
    BY <1>5, Zenon DEF Chip
  <2>3. PICK x : x = video'
    OBVIOUS
  <2>4. x = [w EXCEPT !.left = n, !.last = Nothing, !.flat = f, !.cursor = c, !.held = h]
    BY <2>1, <2>3, Zenon
  <2>5. x.regs = w.regs /\ x.pointer = w.pointer
    BY <2>2, <2>4 DEF Fields
  <2> QED
    BY <2>3, <2>5, Zenon
<1>7. CASE BitOf(b, 7)
  BY <1>3, <1>5, <1>6, <1>7, Zenon
<1>8. CASE ~BitOf(b, 7) /\ BitOf(b, 6)
  <2>1. PICK l \in Byte : l = video.latch
    BY <1>2, Zenon DEF Chip
  <2>2. w.pointer = ((256 * b) + l) % (16 * K)
    BY <1>5, <1>8, <2>1, Zenon DEF AddressTaken
  <2>3. (256 * b) + l + 0 = (256 * b) + l
    BY SMT DEF Byte
  <2> QED
    BY <1>3, <1>6, <1>8, <2>1, <2>2, <2>3, Zenon
<1>9. CASE ~BitOf(b, 7) /\ ~BitOf(b, 6)
  BY <1>3, <1>5, <1>6, <1>9, Zenon DEF AddressTaken
<1> QED
  BY <1>7, <1>8, <1>9, Zenon

\* A pair on port 2 gives its palette entry both of its bytes.
LEMMA PalettePair ==
  ASSUME Accounted(video), NEW b \in Byte, PortWrite(2, b)
  PROVE  PalettePairWhole(b)
<1>1. SUFFICES ASSUME Holding(video.held.palette)
      PROVE  video'.palette[video.regs[16] % 16] = (256 * (b % 8)) + And(video.held.palette, 119)
  BY Zenon DEF PalettePairWhole
<1>2. Chip(video) /\ Together(video)
  BY Zenon DEF Accounted
<1>3. video.palette_stored /\ video.held.palette = video.latch
  BY <1>1, <1>2, NotHeld, Zenon DEF Together
<1>4. PICK w : w = AfterPortWrite(video, 2, b)
  OBVIOUS
<1>5. /\ Chip(w)
      /\ w.palette[video.regs[16] % 16] = (256 * (b % 8)) + And(video.latch, 119)
  BY <1>2, <1>3, <1>4, PaletteSecond
<1>6. video'.palette = w.palette
  <2>1. PICK n, f, c, h : video' = [w EXCEPT !.left = n, !.last = Nothing, !.flat = f,
                                             !.cursor = c, !.held = h]
    BY <1>4 DEF PortWrite
  <2>2. w = Fields(w)
    BY <1>5, Zenon DEF Chip
  <2>3. PICK x : x = video'
    OBVIOUS
  <2>4. x = [w EXCEPT !.left = n, !.last = Nothing, !.flat = f, !.cursor = c, !.held = h]
    BY <2>1, <2>3, Zenon
  <2>5. x.palette = w.palette
    BY <2>2, <2>4 DEF Fields
  <2> QED
    BY <2>3, <2>5, Zenon
<1> QED
  BY <1>3, <1>5, <1>6, Zenon

\* What the program reads in a stream is what it stored there, in order, and
\* its pairs of bytes stay together (StreamsExact), for every set of programs.
THEOREM StreamsAreExact == VdpSpec => StreamsExact
<1>1. VideoAccounted => LET c == video.cursor
                        IN  PortRead(0) /\ ~c.writing /\ c.at \in DOMAIN video.flat
                              => video'.last = ByteRead(video.flat[c.at])
  BY ReadGivesStored, Zenon DEF VideoAccounted
<1>2. VideoAccounted => \A b \in {step[3] : step \in {s \in video.steps : s[1] = "write"}} :
                          /\ PortWrite(1, b) => RegisterPairWhole(b)
                          /\ PortWrite(2, b) => PalettePairWhole(b)
  <2>1. SUFFICES ASSUME Accounted(video),
                        NEW b \in {step[3] : step \in {s \in video.steps : s[1] = "write"}}
                 PROVE  /\ PortWrite(1, b) => RegisterPairWhole(b)
                        /\ PortWrite(2, b) => PalettePairWhole(b)
    BY Zenon DEF VideoAccounted
  <2>2. b \in Byte
    BY <2>1, Zenon DEF Accounted, Steps
  <2> QED
    BY <2>1, <2>2, RegisterPair, PalettePair, Zenon
<1>3. VdpSpec => ReadsInOrder
  BY <1>1, VdpAccounted, PTL DEF VdpSpec, ReadsInOrder
<1>4. VdpSpec => PairsWhole
  BY <1>2, VdpAccounted, PTL DEF VdpSpec, PairsWhole
<1> QED
  BY <1>3, <1>4, Zenon DEF StreamsExact
=============================================================================
