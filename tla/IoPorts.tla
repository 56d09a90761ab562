------------------------------- MODULE IoPorts -------------------------------
(***************************************************************************)
(* The devices on the I/O ports: IoBus with the 8255 and the keyboard, the *)
(* PSG's two ports with the joysticks, turbo and tape, the switched ports  *)
(* of the S1985, the clock chip with its gate, the Kanji font, the printer *)
(* and the registers #F4 and #F5 (src/src/devices/chipset, kanji,          *)
(* peripherals), as Hbf1xvMachine::wire_bus attaches them.                 *)
(***************************************************************************)
EXTENDS Words, Sequences

(***************************************************************************)
(* The clock chip (src/src/devices/rtc): decoded time brought up to date   *)
(* at an access from the ticks of the machine clock, and the registers it  *)
(* is read from and written to.  Time is counted in ticks of the chip.     *)
(***************************************************************************)
CONSTANT TicksPerSecond  \* 16384 of the chip
ASSUME TicksAssumption == TicksPerSecond \in 1 .. 16384

ModeReg == 13
TestReg == 14
ResetReg == 15
TimeBlock == 0
AlarmBlock == 1
Blocks == 0 .. 3
Regs == 0 .. 12
TimerEnable == 3  \* bits of the mode and the test register
TestSeconds == 0
TestMinutes == 1
TestDays == 2
TestYears == 3

\* The bits a register has.
RegMask ==
  [b \in Blocks |->
     CASE b = 0 -> <<15, 7, 15, 7, 15, 3, 7, 15, 3, 15, 1, 15, 15>>
       [] b = 1 -> <<0, 0, 15, 7, 15, 3, 7, 15, 3, 0, 1, 3, 0>>
       [] OTHER -> [n \in 1 .. 13 |-> 15]]
Masked(b, reg, v) == And(v, RegMask[b][reg + 1])

DaysIn == <<31, 28, 31, 30, 31, 30, 31, 31, 30, 31, 30, 31>>
\* (The table has no place for the month -1: a day may not end in it.)
DaysInMonth(month, leap) ==
  LET m == IF month < 0 THEN month ELSE month % 12
  IN  IF m = 1 /\ leap = 0 THEN 29 ELSE DaysIn[m + 1]

-----------------------------------------------------------------------------
(***************************************************************************)
(* Time.  The counters are unsigned: a month written as 0 is -1, and its   *)
(* year carry is that of 2^32 - 1.                                         *)
(***************************************************************************)
YearsIn(months) == IF months = -1 THEN 357913941 ELSE months \div 12
MonthOf(months) == IF months = -1 THEN 3 ELSE months % 12

\* Whole months leave the day counter.
RECURSIVE FoldDays(_, _, _)
FoldDays(days, months, leap) ==
  IF days < DaysInMonth(months, leap) THEN [days |-> days, months |-> months]
  ELSE FoldDays(days - DaysInMonth(months, leap), months + 1, leap)

Epoch ==
  [fraction |-> 0, seconds |-> 0, minutes |-> 0, hours |-> 0, week |-> 5, days |-> 0,
   months |-> 0, years |-> 8, leap |-> 0]

\* The registers of the time block, with PM as 20 and more in 12-hour mode.
TimeToRegs(r) ==
  LET t     == r.time
      hours == IF r.regs[AlarmBlock][10] = 0 /\ t.hours >= 12 THEN t.hours + 8 ELSE t.hours
      pairs == <<t.seconds, t.minutes, hours>>
      digits == [i \in Regs |->
                   CASE i <= 5 -> IF i % 2 = 0 THEN pairs[(i \div 2) + 1] % 10
                                               ELSE pairs[(i \div 2) + 1] \div 10
                     [] i = 6 -> t.week
                     [] i = 7 -> (t.days + 1) % 10
                     [] i = 8 -> (t.days + 1) \div 10
                     [] i = 9 -> (t.months + 1) % 10
                     [] i = 10 -> (t.months + 1) \div 10
                     [] i = 11 -> t.years % 10
                     [] OTHER -> t.years \div 10]
  IN  [r EXCEPT !.regs[TimeBlock] = digits, !.regs[AlarmBlock][11] = t.leap]
RegsToTime(r) ==
  LET d == r.regs[TimeBlock]
      hours == d[4] + (10 * d[5])
  IN  [r EXCEPT !.time =
         [@ EXCEPT !.seconds = d[0] + (10 * d[1]), !.minutes = d[2] + (10 * d[3]),
                   !.hours = IF r.regs[AlarmBlock][10] = 0 /\ hours >= 20 THEN hours - 8 ELSE hours,
                   !.week = d[6], !.days = d[7] + (10 * d[8]) - 1,
                   !.months = d[9] + (10 * d[10]) - 1, !.years = d[11] + (10 * d[12]),
                   !.leap = r.regs[AlarmBlock][11]]]

\* (a plausible bug: the rest of a second is dropped at an access)
NoRest(fraction) == 0
Rest(fraction) == fraction % TicksPerSecond

\* sync_time: the ticks since the last one are added, unit by unit; a test
\* bit feeds them to its unit directly.
Counted(r, elapsed) ==
  LET t        == r.time
      Test(bit, carry) == IF bit \in Bits[r.test] THEN elapsed ELSE carry
      fraction == t.fraction + (IF TimerEnable \in Bits[r.mode] THEN elapsed ELSE 0)
      seconds  == t.seconds + Test(TestSeconds, fraction \div TicksPerSecond)
      minutes  == t.minutes + Test(TestMinutes, seconds \div 60)
      hours    == t.hours + (minutes \div 60)
      carry    == Test(TestDays, hours \div 24)
      folded   == IF carry = 0 THEN [days |-> t.days, months |-> t.months]
                               ELSE FoldDays(t.days + carry, t.months, t.leap)
      years    == Test(TestYears, YearsIn(folded.months))
  IN  [fraction |-> Rest(fraction), seconds |-> seconds % 60, minutes |-> minutes % 60,
       hours |-> hours % 24, week |-> (t.week + carry) % 7, days |-> folded.days,
       months |-> MonthOf(folded.months), years |-> (t.years + years) % 100,
       leap |-> (t.leap + years) % 4]
RtcSync(r, now) ==
  IF now <= r.last THEN r
  ELSE TimeToRegs([r EXCEPT !.last = now, !.time = Counted(r, now - r.last)])

-----------------------------------------------------------------------------
(***************************************************************************)
(* The chip and its two ports.                                             *)
(***************************************************************************)
ResetRtc ==
  TimeToRegs([regs |-> [b \in Blocks |-> [i \in Regs |-> IF b = 2 /\ i = 0 THEN 10 ELSE 0]],
              latch |-> 0, mode |-> 8, test |-> 0, reset |-> 0, time |-> Epoch, last |-> 0])

RtcBlock(r) == r.mode % 4
TimeLike(b) == b \in {TimeBlock, AlarmBlock}

WriteModeReg(r, v, now) == [RtcSync(r, now) EXCEPT !.mode = v]
WriteResetReg(r, v) ==
  LET alarm == IF 0 \in Bits[v]
               THEN [r EXCEPT !.regs[AlarmBlock] = [i \in Regs |-> IF i \in 2 .. 8 THEN 0 ELSE @[i]]]
               ELSE r
  IN  [alarm EXCEPT !.reset = v, !.time.fraction = IF 1 \in Bits[v] THEN 0 ELSE @]
RtcWriteReg(r, v, now) ==
  LET b   == RtcBlock(r)
      set == [(IF TimeLike(b) THEN RtcSync(r, now) ELSE r) EXCEPT !.regs[b][r.latch] = Masked(b, r.latch, v)]
  IN  CASE r.latch = ModeReg  -> WriteModeReg(r, v, now)
        [] r.latch = TestReg  -> [RtcSync(r, now) EXCEPT !.test = v]
        [] r.latch = ResetReg -> WriteResetReg(r, v)
        [] OTHER -> IF TimeLike(b) THEN RegsToTime(set) ELSE set

RtcWrite(r, port, v, now) ==
  IF port % 2 = 0 THEN [r EXCEPT !.latch = v % 16] ELSE RtcWriteReg(r, v % 16, now)

\* A read of the time brings it up to date; the upper bits float high.
RtcAfterRead(r, port, now) ==
  IF port % 2 = 1 /\ r.latch \in Regs /\ TimeLike(RtcBlock(r)) THEN RtcSync(r, now) ELSE r
RtcPeek(r) ==
  CASE r.latch = ModeReg -> r.mode
    [] r.latch \in {TestReg, ResetReg} -> 15
    [] OTHER -> Masked(RtcBlock(r), r.latch, r.regs[RtcBlock(r)][r.latch])
RtcReads(r, port) == IF port % 2 = 1 THEN 240 + RtcPeek(r) ELSE 255

-----------------------------------------------------------------------------
CONSTANTS
  PortScenes,  \* records [ports, steps, end, keys, sets]: what guest, clock and
               \* user do, and the tick at which the scene ends
  MaxUnread,   \* ticks the clock chip goes unread at most
  MaxPrinted   \* bytes that are printed

VARIABLE io
io_vars == <<io>>

OpenBus == 255
NoAccess == [port |-> -1, value |-> -1]

-----------------------------------------------------------------------------
(***************************************************************************)
(* Ports.  Those of the 8255 have mirrors, 172 .. 175; a device decodes    *)
(* the lower bits itself.                                                  *)
(***************************************************************************)
Attachment ==
  [p \in Byte |->
     CASE p \in 64 .. 79   -> "switched"
       [] p \in 144 .. 151 -> "printer"
       [] p \in 160 .. 162 -> "psg"
       [] p \in 168 .. 175 -> "ppi"
       [] p \in 180 .. 181 -> "rtc"
       [] p \in 216 .. 219 -> "kanji"
       [] p = 244          -> "f4"
       [] p = 245          -> "f5"
       [] p \in 252 .. 255 -> "mapper"
       [] OTHER            -> "none"]
ClockGate(d) == 7 \in Bits[d.f5]

-----------------------------------------------------------------------------
(***************************************************************************)
(* Keyboard, turbo, joysticks and tape.  The phase of the turbo is free    *)
(* while it is on.                                                         *)
(***************************************************************************)
RowCount == 11
Rows == 0 .. RowCount - 1
TurboSignal(d) == d.turbo > 0 /\ d.phase
KeyboardRow(d, row) ==
  LET raw == ByteOf[0 .. 7 \ {k[2] : k \in {h \in d.held : h[1] = row}}]
  IN  IF row \notin Rows THEN 255 ELSE IF row = 8 /\ TurboSignal(d) THEN SetBit(raw, 0) ELSE raw

TapeHigh(d) ==
  LET index == ((IF d.now >= d.tape.start THEN d.now - d.tape.start ELSE 0) \div d.tape.perBit) + 1
  IN  index \in DOMAIN d.tape.bits => d.tape.bits[index]
NoTape == [bits |-> <<>>, perBit |-> 1, start |-> 0]

\* Six switches, low when closed, the layout bit, and the tape.
JoystickBits(d) ==
  LET open == 0 .. 5 \ d.stick[d.selected]
  IN  ByteOf[open \cup {6} \cup (IF TapeHigh(d) THEN {7} ELSE {})
                  \cup (IF TurboSignal(d) THEN {4} ELSE {})]

-----------------------------------------------------------------------------
(***************************************************************************)
(* The 8255.                                                               *)
(***************************************************************************)
ResetControl == 155
\* Only a change of bit 7 reaches the DAC.
SetLatchC(d, v) ==
  [d EXCEPT !.c = v, !.speaker = IF (7 \in Bits[v]) # (7 \in Bits[d.c]) THEN 7 \in Bits[v] ELSE @]
\* (a plausible bug: the bit set/reset command does not reach the speaker)
ControlInSilence(d, v) ==
  LET bit == (v \div 2) % 8
  IN  CASE 7 \in Bits[v] -> [d EXCEPT !.control = v]
        [] OTHER -> [d EXCEPT !.c = IF 0 \in Bits[v] THEN SetBit(@, bit) ELSE ClearBit(@, bit)]
WriteControl(d, v) ==
  LET bit == (v \div 2) % 8
  IN  CASE 7 \in Bits[v] -> [d EXCEPT !.control = v]
        [] OTHER -> SetLatchC(d, IF 0 \in Bits[v] THEN SetBit(d.c, bit) ELSE ClearBit(d.c, bit))
PpiWrite(d, port, v) ==
  CASE port % 4 = 0 -> [d EXCEPT !.a = v]
    [] port % 4 = 1 -> [d EXCEPT !.b = v]
    [] port % 4 = 2 -> SetLatchC(d, v)
    [] OTHER        -> WriteControl(d, v)
SelectedRow(d) == d.c % 16
PpiRead(d, port) ==
  CASE port % 4 = 0 -> d.a
    [] port % 4 = 1 -> IF 1 \in Bits[d.control] THEN KeyboardRow(d, SelectedRow(d)) ELSE d.b
    [] port % 4 = 2 -> Or(IF 3 \in Bits[d.control] THEN 240 ELSE And(d.c, 240),
                          IF 0 \in Bits[d.control] THEN 15 ELSE And(d.c, 15))
    [] OTHER        -> d.control

-----------------------------------------------------------------------------
(***************************************************************************)
(* The S1985 behind the switched ports, the font, the printer, and the     *)
(* PSG's registers 14 and 15.                                              *)
(***************************************************************************)
S1985Id == 254
ResetS1985 == [address |-> 0, pattern |-> 0, color1 |-> 0, color2 |-> 0, sram |-> [i \in 0 .. 15 |-> 0]]
S1985Write(s, reg, v) ==
  CASE reg = 1 -> [s EXCEPT !.address = v % 16]
    [] reg = 2 -> [s EXCEPT !.sram[s.address] = v]
    [] reg = 6 -> [s EXCEPT !.color2 = s.color1, !.color1 = v]
    [] reg = 7 -> [s EXCEPT !.pattern = v]
    [] OTHER   -> s
S1985Read(s, reg) ==
  CASE reg = 0 -> Not(S1985Id)
    [] reg = 2 -> s.sram[s.address]
    [] reg = 7 -> IF 7 \in Bits[s.pattern] THEN s.color2 ELSE s.color1
    [] OTHER   -> OpenBus
\* A read of the pattern turns it.
S1985AfterRead(s, reg) ==
  IF reg = 7 THEN [s EXCEPT !.pattern = ((2 * @) % 256) + (@ \div 128)] ELSE s
\* The first port selects the device, the others are its.
SwitchedWrite(d, reg, v) ==
  CASE reg = 0 -> [d EXCEPT !.switched = v]
    [] reg # 0 /\ d.switched = S1985Id -> [d EXCEPT !.s1985 = S1985Write(@, reg, v)]
    [] OTHER -> d
ResetStatus(f4, v) == Or(And(f4, 32), And(v, 160))

\* A glyph has 32 bytes; the second half of the font has its own address.
SecondHalf == 131072
KanjiRow(a, base, v) == base + (2048 * ((a % SecondHalf) \div 2048)) + (32 * v)
KanjiColumn(a, base, v) == base + (((a % 2048) \div 32) * 32) + (2048 * v)
KanjiWrite(k, port, v) ==
  LET six == v % 64
  IN  CASE port % 4 = 0 -> [k EXCEPT !.adr1 = KanjiRow(@, 0, six)]
        [] port % 4 = 1 -> [k EXCEPT !.adr1 = KanjiColumn(@, 0, six)]
        [] port % 4 = 2 -> [k EXCEPT !.adr2 = KanjiRow(@, SecondHalf, six)]
        [] OTHER        -> [k EXCEPT !.adr2 = KanjiColumn(@, SecondHalf, six)]
NextByte(a) == (a - (a % 32)) + ((a + 1) % 32)
KanjiAfterRead(k, port) ==
  CASE port % 4 = 1 -> [k EXCEPT !.adr1 = NextByte(@)]
    [] port % 4 = 3 -> [k EXCEPT !.adr2 = NextByte(@)]
    [] OTHER        -> k

PrinterWrite(p, port, v) ==
  CASE port % 4 = 0 -> [p EXCEPT !.strobe = v % 2 = 1,
                                 !.out = IF p.strobe /\ v % 2 = 0 THEN Append(@, p.data) ELSE @]
    [] port % 4 = 1 -> [p EXCEPT !.data = v]
    [] OTHER        -> p

\* The registers keep what is written, but register 7 for its bits 6 and 7,
\* which are an input and an output for ever; so register 14 is always the live
\* port, and keeps what was read.
PsgKeeps(reg, v) == IF reg = 7 THEN SetBit(ClearBit(v, 6), 7) ELSE v
\* Register 15 says which joystick port A shows.
StickOf(v) == IF 6 \in Bits[v] THEN 1 ELSE 0
ResetPsgRegs == [reg \in 0 .. 15 |-> PsgKeeps(reg, 0)]
PsgPortWrite(d, port, v) ==
  CASE port % 4 = 0 -> [d EXCEPT !.psg = v % 16]
    [] port % 4 = 1 -> [d EXCEPT !.psg_regs[d.psg] = PsgKeeps(d.psg, v),
                                 !.selected = IF d.psg = 15 THEN StickOf(v) ELSE @]
    [] OTHER -> d
ReadsPortA(d, port) == port % 4 = 2 /\ d.psg = 14 /\ 6 \notin Bits[d.psg_regs[7]]
PsgAfterRead(d, port) ==
  IF ReadsPortA(d, port) THEN [d EXCEPT !.psg_regs[14] = JoystickBits(d)] ELSE d
PsgPortRead(d, port) ==
  IF port % 4 = 2 THEN PsgAfterRead(d, port).psg_regs[d.psg] ELSE OpenBus

-----------------------------------------------------------------------------
(***************************************************************************)
(* IN and OUT.                                                             *)
(***************************************************************************)
IoWrite(d, port, v) ==
  LET dev == Attachment[port]
  IN  CASE dev = "switched" -> SwitchedWrite(d, port % 16, v)
        [] dev = "printer"  -> [d EXCEPT !.printer = PrinterWrite(@, port, v)]
        [] dev = "psg"      -> PsgPortWrite(d, port, v)
        [] dev = "ppi"      -> PpiWrite(d, port, v)
        [] dev = "rtc"      -> IF ClockGate(d) THEN [d EXCEPT !.rtc = RtcWrite(@, port, v, d.now)] ELSE d
        [] dev = "kanji"    -> [d EXCEPT !.kanji = KanjiWrite(@, port, v)]
        [] dev = "f4"       -> [d EXCEPT !.f4 = ResetStatus(@, v)]
        [] dev = "f5"       -> [d EXCEPT !.f5 = v]
        [] dev = "mapper"   -> [d EXCEPT !.segment[port - 252] = v]
        [] OTHER            -> d
IoAfterRead(d, port) ==
  LET dev == Attachment[port]
  IN  CASE dev = "switched" -> IF d.switched = S1985Id
                               THEN [d EXCEPT !.s1985 = S1985AfterRead(@, port % 16)] ELSE d
        [] dev = "rtc"      -> IF ClockGate(d) THEN [d EXCEPT !.rtc = RtcAfterRead(@, port, d.now)] ELSE d
        [] dev = "kanji"    -> [d EXCEPT !.kanji = KanjiAfterRead(@, port)]
        [] dev = "psg"      -> PsgAfterRead(d, port)
        [] OTHER            -> d
IoReads(d, port) ==
  LET dev == Attachment[port]
  IN  CASE dev = "switched" -> IF d.switched = S1985Id THEN S1985Read(d.s1985, port % 16) ELSE OpenBus
        [] dev = "printer"  -> IF port % 4 = 0 THEN 0 ELSE OpenBus
        [] dev = "psg"      -> PsgPortRead(d, port)
        [] dev = "ppi"      -> PpiRead(d, port)
        [] dev = "rtc"      -> IF ClockGate(d) THEN RtcReads(RtcAfterRead(d.rtc, port, d.now), port)
                                               ELSE OpenBus
        [] dev = "f4"       -> d.f4
        [] dev = "f5"       -> d.f5
        [] dev = "mapper"   -> 128 + (d.segment[port - 252] % 32)
        [] OTHER            -> OpenBus

-----------------------------------------------------------------------------
(***************************************************************************)
(* The machine around them.  now counts ticks of the clock chip.           *)
(***************************************************************************)
Powered ==
  [a |-> 0, b |-> 0, c |-> 0, control |-> ResetControl, speaker |-> FALSE, held |-> {},
   stick |-> [n \in {0, 1} |-> {}], selected |-> 0, psg |-> 0, psg_regs |-> ResetPsgRegs,
   tape |-> NoTape, turbo |-> 0, phase |-> FALSE, switched |-> 0, s1985 |-> ResetS1985,
   rtc |-> ResetRtc, f4 |-> 0, f5 |-> 128, kanji |-> [adr1 |-> 0, adr2 |-> SecondHalf],
   printer |-> [strobe |-> TRUE, data |-> 0, out |-> <<>>], segment |-> [p \in 0 .. 3 |-> 0], now |-> 0]

\* cold_boot resets every device but the segments of the mapper.
Rebooted(d) == [Powered EXCEPT !.segment = d.segment]

IoInit == \E s \in PortScenes : io = [d |-> Powered, scene |-> s, read |-> NoAccess, counted |-> 0]

\* Writing a register of the time sets the clock.
SetsClock(d, port) ==
  /\ port = 181 /\ d.rtc.latch \in Regs
  /\ \/ RtcBlock(d.rtc) = TimeBlock
     \/ RtcBlock(d.rtc) = AlarmBlock /\ d.rtc.latch \in {10, 11}

\* Dropping the fraction takes back what the last access left of a second.
ClearsFraction(d, p) ==
  p[1] = 181 /\ d.rtc.latch = ResetReg /\ ClockGate(d) /\ 1 \in Bits[p[2]]

OutPort ==
  \E p \in io.scene.ports :
    /\ p[2] >= 0 /\ (SetsClock(io.d, p[1]) => io.scene.sets)
    /\ Len(io.d.printer.out) = MaxPrinted => Attachment[p[1]] # "printer"
    /\ io' = [io EXCEPT !.d = IoWrite(@, p[1], p[2]), !.read = NoAccess,
                        !.counted = @ - (IF ClearsFraction(io.d, p) THEN io.d.rtc.time.fraction ELSE 0)]
InPort ==
  \E p \in io.scene.ports :
    p[2] < 0 /\ io' = [io EXCEPT !.d = IoAfterRead(@, p[1]),
                                 !.read = [port |-> p[1], value |-> IoReads(io.d, p[1])]]
PassTime ==
  \E n \in io.scene.steps, phase \in BOOLEAN :
    /\ io.d.now + n <= io.scene.end /\ io.d.now + n - io.d.rtc.last <= MaxUnread /\ (phase => io.d.turbo > 0)
    /\ io' = [io EXCEPT !.d.now = @ + n, !.d.phase = phase, !.read = NoAccess,
                        !.counted = @ + (IF TimerEnable \in Bits[io.d.rtc.mode] THEN n ELSE 0)]
PressOrRelease ==
  \E k \in io.scene.keys :
    io' = [io EXCEPT !.d.held = IF k \in @ THEN @ \ {k} ELSE @ \cup {k}, !.read = NoAccess]
\* (the scenes with the PSG's ports have the joysticks and the tape)
ReadsStick == <<162, -1>> \in io.scene.ports
MoveStick ==
  \E n \in {0, 1}, k \in io.scene.keys :
    ReadsStick /\ io' = [io EXCEPT !.d.stick[n] = IF @ = {} THEN {k[2] % 6} ELSE {}, !.read = NoAccess]
SetTurbo ==
  io.scene.keys # {} /\ io' = [io EXCEPT !.d.turbo = 50 - @, !.d.phase = FALSE, !.read = NoAccess]
LoadTape ==
  /\ ReadsStick
  /\ io' = [io EXCEPT !.d.tape = [bits |-> <<FALSE, TRUE, FALSE>>, perBit |-> 1, start |-> io.d.now],
                      !.read = NoAccess]
EjectTape == io.d.tape # NoTape /\ io' = [io EXCEPT !.d.tape = NoTape, !.read = NoAccess]
BootPorts == io' = [io EXCEPT !.d = Rebooted(@), !.read = NoAccess, !.counted = 0]

IoNext ==
  \/ OutPort \/ InPort \/ PassTime \/ PressOrRelease \/ MoveStick \/ SetTurbo \/ LoadTape
  \/ EjectTape \/ BootPorts

IoSpec == IoInit /\ [][IoNext]_io_vars

-----------------------------------------------------------------------------
(***************************************************************************)
(* Properties.                                                             *)
(***************************************************************************)
\* The number of days from the epoch to a date, counted year by year.
DaysBeforeMonth(month, leap) ==
  LET sum[m \in 0 .. 12] == IF m = 0 THEN 0 ELSE sum[m - 1] + DaysInMonth(m - 1, leap)
  IN  sum[month]
DayNumber(t) == LET y == t.years - 8
                IN  (365 * y) + ((y + 3) \div 4) + DaysBeforeMonth(t.months, y % 4) + t.days
SecondsOf(t) == t.seconds + (60 * t.minutes) + (3600 * t.hours)

\* Whenever and however often the clock was looked at in between, whatever
\* its mode and its gate did, it tells the time that ran while its timer was
\* on.  (One catch-up folds all its months with one leap flag: MaxUnread keeps
\* it below the 60 days that can take it past a 29 February.)
RtcTellsTime ==
  LET t   == RtcSync(io.d.rtc, io.d.now).time
      day == TicksPerSecond * 86400
  IN  /\ t.fraction + (TicksPerSecond * SecondsOf(t)) = io.counted % day
      /\ DayNumber(t) = io.counted \div day
      /\ t.week = (5 + (io.counted \div day)) % 7

\* rp5c01.h:24 says the clock "advances its time READ-ONLY off the machine
\* clock": in a step of less than a year the year stands or moves by one,
\* unless the guest writes a register of the year.
WritesYear == io.d.rtc.latch \in {11, 12} /\ RtcBlock(io.d.rtc) = TimeBlock
YearsByClock ==
  [][LET y == io.d.rtc.time.years
     IN  ~WritesYear /\ io'.d.now >= io.d.now =>
           io'.d.rtc.time.years \in {y, (y + 1) % 100}]_io_vars

\* The speaker follows bit 7 of port C, however and by whichever port the bit
\* was written, over resets too.
SpeakerIsBit7 == io.d.speaker <=> 7 \in Bits[io.d.c]

\* Reads walk through a glyph and return to its first byte; nothing moves an
\* address into the other half of the font.
KanjiInGlyph ==
  /\ \A port \in {217, 219} :
       LET after[n \in 0 .. 32] ==
             IF n = 0 THEN io.d.kanji ELSE KanjiAfterRead(after[n - 1], port)
       IN  /\ after[32] = io.d.kanji
           /\ Cardinality({after[n] : n \in 1 .. 32}) = 32
  /\ io.d.kanji.adr1 \in 0 .. SecondHalf - 1
  /\ io.d.kanji.adr2 \in SecondHalf .. (2 * SecondHalf) - 1

\* A key or a button that is not held is never seen; one that is held is
\* seen, but for what the turbo releases: a key by either port of the matrix, a
\* button whatever the guest wrote to the PSG, to register 7 also.
KeysAsHeld ==
  /\ io.read.port \in {169, 173} /\ 1 \in Bits[io.d.control] =>
       \A k \in 0 .. 7 :
         (k \notin Bits[io.read.value]) <=>
           (<<SelectedRow(io.d), k>> \in io.d.held /\ ~(SelectedRow(io.d) = 8 /\ k = 0 /\ TurboSignal(io.d)))
  /\ io.read.port = 162 /\ io.d.psg = 14 =>
       \A k \in 0 .. 5 :
         (k \notin Bits[io.read.value]) <=>
           (k \in io.d.stick[io.d.selected] /\ ~(k = 4 /\ TurboSignal(io.d)))
=============================================================================
