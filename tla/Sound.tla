-------------------------------- MODULE Sound --------------------------------
(***************************************************************************)
(* How the frontend makes samples of the sound chips: Sdl3App's frame loop *)
(* with MachineAudioMixer::produce_synced_sample and ClickDac.  The chips  *)
(* stand still while the CPU runs.  The PSG is brought up to date before   *)
(* each register write and at each sample boundary, the edges of the click *)
(* wait in a queue with their cycle, the SCC and the FM chip are run at    *)
(* each boundary.  Beside them run ideal chips, one cycle at a time, which *)
(* hear each write at its cycle: the samples must not tell the two apart.  *)
(***************************************************************************)
EXTENDS Psg, SccWave, Opll

CONSTANTS
  ClockHz, SampleHz,   \* kSystemClockHz, kSampleRateHz
  ClickUnit, DcShift, DcTau, MaxEdges, \* ClickDac's constants
  InstructionCycles,   \* how long an instruction takes
  Guests,              \* records [psg, scc, fm, click]: the writes <<register, value>>
                       \* a guest makes, and whether it clicks
  SoundEnd             \* cycles a run of the machine lasts, a bound of the model

VARIABLE snd  \* the chips, the cursors of the mixer, and the ideal chips
snd_vars == <<snd>>

-----------------------------------------------------------------------------
\* One channel over n cycles, in chunks that end at a step of its position.
\* A channel whose period is 8 or less stands still.
Sounding(scc, ch) == ch \in Bits[scc.enable]
Heard(scc, ch, n) == IF Sounding(scc, ch) THEN n * scc.out[ch] ELSE 0
ChannelDwell(scc, ch, n) ==
  LET stepped == scc.count[ch] + n = scc.period[ch] + 1
      held    == [scc EXCEPT !.integral = @ + Heard(scc, ch, n),
                             !.count[ch] = IF stepped THEN 0 ELSE @ + n,
                             !.pos[ch] = IF stepped THEN (@ + 1) % WaveLength ELSE @]
  IN  IF stepped THEN [held EXCEPT !.out[ch] = Adjusted(held, ch)] ELSE held

RECURSIVE ChannelAdvance(_, _, _)
ChannelAdvance(scc, ch, n) ==
  LET left  == scc.period[ch] + 1 - scc.count[ch]
      dwell == IF n < left THEN n ELSE left
  IN  CASE n = 0 -> scc
        [] n # 0 /\ scc.period[ch] <= 8 -> [scc EXCEPT !.integral = @ + Heard(scc, ch, n)]
        [] OTHER -> ChannelAdvance(ChannelDwell(scc, ch, dwell), ch, n - dwell)

SccAdvance(scc, n) ==
  LET upto[ch \in -1 .. 4] ==
        IF ch = -1 THEN [scc EXCEPT !.turned = @ + n] ELSE ChannelAdvance(upto[ch - 1], ch, n)
  IN  upto[4]

-----------------------------------------------------------------------------
(***************************************************************************)
(* The click of the keyboard bit: edges with their cycle, in order.        *)
(***************************************************************************)
SilentClick == [edges |-> <<>>, consumed |-> 0, level |-> FALSE, integral |-> 0, dc |-> 0]

\* A full queue gives up its oldest edge, not its level.
RecordEdge(dac, cycle, level) ==
  LET edges == Append(dac.edges, [cycle |-> cycle, level |-> level])
      first == Head(edges)
  IN  IF Len(edges) <= MaxEdges
      THEN [dac EXCEPT !.edges = edges]
      ELSE [dac EXCEPT !.edges = Tail(edges), !.level = first.level,
                       !.consumed = IF first.cycle > @ THEN first.cycle ELSE @]

Unit(level) == IF level THEN ClickUnit ELSE 0
RECURSIVE ConsumeEdges(_, _)
ConsumeEdges(dac, end) ==
  IF dac.edges # <<>> /\ Head(dac.edges).cycle < end
  THEN LET edge == Head(dac.edges)
           at   == IF edge.cycle < dac.consumed THEN dac.consumed ELSE edge.cycle
       IN  ConsumeEdges([edges |-> Tail(dac.edges), consumed |-> at, level |-> edge.level,
                         integral |-> dac.integral + Unit(dac.level) * (at - dac.consumed),
                         dc |-> dac.dc], end)
  ELSE [dac EXCEPT !.integral = @ + Unit(dac.level) * (end - dac.consumed), !.consumed = end]
ClickAdvance(dac, n) == ConsumeEdges(dac, dac.consumed + n)

\* The mean of the window, less a slow average of the means.
Truncated(a, b) == IF a >= 0 THEN a \div b ELSE -((-a) \div b)
ClickMean(dac, window) == Rounded(dac.integral, window)
ClickSample(dac, window) == ClickMean(dac, window) - (dac.dc \div 2^DcShift)
ClickTaken(dac, window) ==
  [dac EXCEPT !.integral = 0,
              !.dc = @ + Truncated(ClickMean(dac, window) * 2^DcShift - dac.dc, 2^DcTau)]

-----------------------------------------------------------------------------
(***************************************************************************)
(* One sample: both sides with all chips, clamped to 16 bits.              *)
(***************************************************************************)
Clamped(v) == CASE v < -32768 -> -32768 [] v > 32767 -> 32767 [] OTHER -> v
SccSample(scc, window) == Rounded(scc.integral, window)
Mixed(psg, scc, dac, window) ==
  LET s     == PsgSample(psg, window)
      click == Truncated(ClickSample(dac, window) * 9374, ClickUnit)
      rest  == 12 * SccSample(scc, window) + click
  IN  <<Clamped(400 * s[1] + rest), Clamped(400 * s[2] + rest)>>

Boundary(index) == (index * ClockHz) \div SampleHz

Heard2(psg, dac, window) == <<PsgSample(psg, window), ClickSample(dac, window)>>

\* produce_synced_sample at the next boundary, and the cursors after it.
Emitted(s) ==
  LET window == s.next - s.prev
      psg    == SyncToCycle(s.psg, s.next)
      scc    == SccAdvance(s.scc, window)
      dac    == ClickAdvance(s.click, window)
  IN  [s EXCEPT !.heard = Append(@, Heard2(psg, dac, window)), !.pcm = Mixed(psg, scc, dac, window),
                !.psg = PsgTaken(psg), !.scc = [scc EXCEPT !.integral = 0],
                !.click = ClickTaken(dac, window), !.fm = OpllAdvance(@, window),
                !.prev = s.next, !.index = @ + 1, !.next = Boundary(s.index + 1)]
RECURSIVE EmitDue(_)
EmitDue(s) == IF s.playing /\ s.next <= s.now THEN EmitDue(Emitted(s)) ELSE s

\* The ideal PSG and click: a cycle passes, and a sample is due or not.
IdealCycle(i) ==
  LET window == Boundary(i.index) - Boundary(i.index - 1)
      psg    == PsgAdvance(i.psg, 1)
      dac    == [i.click EXCEPT !.integral = @ + Unit(i.click.level)]
      passed == [i EXCEPT !.psg = psg, !.click = dac, !.now = @ + 1]
  IN  IF passed.now # Boundary(i.index)
      THEN passed
      ELSE [passed EXCEPT !.heard = Append(@, Heard2(psg, dac, window)), !.psg = PsgTaken(psg),
                          !.click = ClickTaken(dac, window), !.index = @ + 1]
IdealRun(i, n) ==
  LET run[k \in 0 .. n] == IF k = 0 THEN [i EXCEPT !.heard = <<>>] ELSE IdealCycle(run[k - 1])
  IN  run[n]

-----------------------------------------------------------------------------
(***************************************************************************)
(* Cold boot, the writes of the guest, and the frame loop.                 *)
(***************************************************************************)
\* The ideal PSG is never behind: it needs no synchronisation.
SilentIdeal == [ResetPsg(SilentPsg, 0) EXCEPT !.enabled = FALSE]

\* init() and reset_machine(): the machine is at cycle 0 again when its
\* devices reset; capture and synchronisation are switched on after.
Booted(s) ==
  [now |-> 0, psg |-> [ResetPsg(s.psg, 0) EXCEPT !.enabled = TRUE, !.synced = 0],
   scc |-> ResetScc, fm |-> ResetOpll(s.fm.enforced), click |-> SilentClick, bit7 |-> FALSE,
   prev |-> 0, index |-> 1, next |-> Boundary(1), heard |-> <<>>, pcm |-> <<0, 0>>,
   playing |-> s.playing, guest |-> s.guest,
   ideal |-> [psg |-> SilentIdeal, click |-> SilentClick, now |-> 0, index |-> 1, heard |-> <<>>]]

SoundInit ==
  \E playing, enforced \in BOOLEAN, guest \in Guests :
    snd = Booted([psg |-> SilentPsg, fm |-> ResetOpll(enforced), playing |-> playing, guest |-> guest])

\* An instruction makes its write at the cycle it begins; then its cycles
\* pass, and the samples due are made.
Instruction(written) ==
  /\ snd.now < SoundEnd
  /\ \E cycles \in InstructionCycles :
       LET after == EmitDue([written EXCEPT !.now = @ + cycles, !.heard = <<>>])
       IN  snd' = [after EXCEPT !.ideal = IdealRun(written.ideal, cycles)]

NoWrite == Instruction(snd)
WritePsg ==
  \E w \in snd.guest.psg :
    Instruction([snd EXCEPT
      !.psg = WriteData(WriteAddress(@, w[1]), w[2], snd.now),
      !.ideal.psg = WriteData(WriteAddress(@, w[1]), w[2], 0)])
ReadPsg ==
  /\ snd.guest.psg # {}
  /\ \E pins \in {63, 62} :
       Instruction([snd EXCEPT !.psg = AfterReadData(WriteAddress(@, 14), pins),
                               !.ideal.psg = AfterReadData(WriteAddress(@, 14), pins)])
\* The PPI reports a change of its bit 7 only.
ToggleClick ==
  /\ snd.guest.click
  /\ Instruction([snd EXCEPT !.bit7 = ~@, !.click = RecordEdge(@, snd.now, ~snd.bit7),
                             !.ideal.click.level = ~snd.bit7])
WriteScc == \E w \in snd.guest.scc : Instruction([snd EXCEPT !.scc = SccWrite(@, w[1], w[2])])
ReadScc == \E w \in snd.guest.scc : Instruction([snd EXCEPT !.scc = AfterSccRead(@, w[1])])
WriteFmAddress == \E w \in snd.guest.fm : Instruction([snd EXCEPT !.fm = OpllWriteAddress(@, w[1], snd.now)])
WriteFmData == \E w \in snd.guest.fm : Instruction([snd EXCEPT !.fm = OpllWriteData(@, w[2], snd.now)])
ResetSound == snd.now > 0 /\ snd' = Booted(snd)

SoundNext ==
  \/ NoWrite \/ WritePsg \/ ReadPsg \/ ToggleClick \/ WriteScc \/ ReadScc
  \/ WriteFmAddress \/ WriteFmData \/ ResetSound

SoundSpec == SoundInit /\ [][SoundNext]_snd_vars

-----------------------------------------------------------------------------
\* The queue of clicks is bounded and in order, and begins where the last
\* sample ended; nothing was synchronised past the next boundary.
SoundTypeOK ==
  /\ Len(snd.click.edges) <= MaxEdges
  /\ \A k \in 1 .. Len(snd.click.edges) - 1 : snd.click.edges[k].cycle <= snd.click.edges[k + 1].cycle
  /\ snd.playing => snd.prev <= snd.now /\ snd.now < snd.next /\ snd.click.consumed = snd.prev
                    /\ snd.psg.synced <= snd.now
  /\ \A side \in 1 .. 2 : snd.pcm[side] \in -32768 .. 32767

\* The samples of the lazy PSG and of the queued click are those of chips
\* that run along with every cycle and hear every write at its cycle.
SamplesExact == snd.playing => snd.heard = snd.ideal.heard

\* How long the SCC is run at a time does not matter.
SplitInvisible ==
  \A n \in 1 .. Boundary(2) :
    SccAdvance(snd.scc, n) = SccAdvance(SccAdvance(snd.scc, 1), n - 1)

\* An operator attacks, decays or holds only while its key, as the registers
\* stand, is down, and releases only while it is up.
NotesFollowKeys ==
  \A slot \in FmSlots :
    LET s == snd.fm.slots[slot]
    IN  /\ s.key = SlotKey(snd.fm, slot)
        /\ s.state \in (IF s.key THEN {"Attack", "Decay", "Sustain", "Idle"} ELSE {"Release", "Idle"})
        /\ s.state = "Idle" => s.level = Silent
=============================================================================
