--------------------------------- MODULE Psg ---------------------------------
(***************************************************************************)
(* The programmable sound generator, PsgYm2149                             *)
(* (src/src/devices/audio/psg_ym2149.cpp): registers, three tones, the     *)
(* noise, the envelope, and the integral of each channel's level over the  *)
(* CPU cycles since a sample was last taken.  Every function of the class  *)
(* is an operator from a PSG record to a PSG record.                       *)
(***************************************************************************)
EXTENDS Words, Sequences

CONSTANT GeneratorCycles  \* kCyclesPerGeneratorStep, 16 in the code

Channels == 0 .. 2
AtLeast1(v) == IF v < 1 THEN 1 ELSE v
AtMost(v, n) == IF v > n THEN n ELSE v

-----------------------------------------------------------------------------
\* Tone
SetTonePeriod(tone, v) ==
  LET p == AtLeast1(v) IN [tone EXCEPT !.period = p, !.count = AtMost(@, p - 1)]
ToneStep(tone) ==
  IF tone.count + 1 >= tone.period
  THEN [tone EXCEPT !.count = 0, !.output = 1 - @]
  ELSE [tone EXCEPT !.count = @ + 1]

\* Noise: a shift register of 17 bits.
SetNoisePeriod(noise, v) ==
  LET p == 2 * AtLeast1(v) IN [noise EXCEPT !.period = p, !.count = AtMost(@, p - 1)]
ShiftedNoise(lfsr) ==
  (lfsr \div 2) + 65536 * (((lfsr % 2) + ((lfsr \div 8) % 2)) % 2)
NoiseStep(noise) ==
  IF noise.count + 1 >= noise.period
  THEN LET next == ShiftedNoise(noise.lfsr)
       IN  [noise EXCEPT !.count = 0, !.lfsr = next, !.output = next % 2]
  ELSE [noise EXCEPT !.count = @ + 1]

\* Envelope: attack flips the direction the five-bit step is read in.
EnvelopeVolume(env) == IF env.attack THEN 31 - env.step ELSE env.step
SetEnvelopePeriod(env, v) ==
  LET p == AtLeast1(2 * v)
  IN  [env EXCEPT !.period = p, !.count = IF @ >= p THEN p - 1 ELSE @]
SetShape(env, shape) ==
  LET bits == Bits[shape]
      once == 3 \notin bits
  IN  [env EXCEPT !.attack = 2 \in bits,
                  !.hold = once \/ 0 \in bits,
                  !.alternate = IF once THEN 2 \in bits ELSE 1 \in bits,
                  !.count = 0, !.step = 31, !.holding = FALSE]
EnvelopeSteps(env, n) ==
  LET step == env.step - n
  IN  CASE env.holding -> env
        [] ~env.holding /\ step >= 0 -> [env EXCEPT !.step = step]
        [] ~env.holding /\ step < 0 /\ env.hold ->
             [env EXCEPT !.attack = (@ # env.alternate), !.holding = TRUE, !.step = 0]
        [] OTHER ->
             [env EXCEPT !.attack = (@ # (env.alternate /\ step % 32 >= 16)), !.step = step % 32]
EnvelopeStep(env) ==
  LET count == env.count + 2
      n     == count \div env.period
  IN  CASE env.holding -> env
        [] ~env.holding /\ n = 0 -> [env EXCEPT !.count = count]
        [] OTHER -> EnvelopeSteps([env EXCEPT !.count = count - n * env.period], n)

-----------------------------------------------------------------------------
\* What a channel sounds at this moment.
Amplitude(psg, ch) ==
  LET amp == psg.regs[8 + ch]
  IN  CASE 4 \in Bits[amp]    -> EnvelopeVolume(psg.env)
        [] amp % 32 \in 1..15 -> 2 * (amp % 16) + 1
        [] OTHER              -> 0
Audible(psg, ch) ==
  LET off == Bits[psg.regs[7]]
  IN  /\ ch \in off \/ psg.tone[ch].output = 1
      /\ ch + 3 \in off \/ psg.noise.output = 1
Level(psg, ch) == IF Audible(psg, ch) THEN Amplitude(psg, ch) ELSE 0

\* Time runs in chunks that end at a step of the generators.
Dwell(psg, n) ==
  LET stepped == psg.residual + n = GeneratorCycles
      held    == [psg EXCEPT !.integral = [ch \in Channels |-> @[ch] + n * Level(psg, ch)],
                             !.residual = IF stepped THEN 0 ELSE @ + n]
  IN  IF stepped
      THEN [held EXCEPT !.tone = [ch \in Channels |-> ToneStep(@[ch])],
                        !.noise = NoiseStep(@), !.env = EnvelopeStep(@)]
      ELSE held
RECURSIVE PsgAdvance(_, _)
PsgAdvance(psg, n) ==
  LET dwell == AtMost(n, GeneratorCycles - psg.residual)
  IN  IF n = 0 THEN psg ELSE PsgAdvance(Dwell(psg, dwell), n - dwell)

\* Bring the generators up to a cycle, unless they are there already.
SyncToCycle(psg, now) ==
  IF ~psg.enabled \/ now <= psg.synced
  THEN psg
  ELSE [PsgAdvance(psg, now - psg.synced) EXCEPT !.synced = now]

-----------------------------------------------------------------------------
\* Port A reads, port B writes: bits 6 and 7 of the mixer are forced.
Stored(reg, v) == IF reg = 7 THEN SetBit(ClearBit(v, 6), 7) ELSE v

Effect(psg, reg) ==
  LET r == psg.regs
  IN  CASE reg \in 0 .. 5 ->
             LET ch == reg \div 2
             IN  [psg EXCEPT !.tone[ch] =
                    SetTonePeriod(@, r[2 * ch] + 256 * (r[2 * ch + 1] % 16))]
        [] reg = 6           -> [psg EXCEPT !.noise = SetNoisePeriod(@, r[6] % 32)]
        [] reg \in {11, 12}  -> [psg EXCEPT !.env = SetEnvelopePeriod(@, r[11] + 256 * r[12])]
        [] reg = 13          -> [psg EXCEPT !.env = SetShape(@, r[13] % 16)]
        [] OTHER             -> psg

\* Mutant: what has sounded up to now is caught up with the new value.
LateSyncRegister(psg, reg, v, now) ==
  SyncToCycle(Effect([psg EXCEPT !.regs[reg] = Stored(reg, v)], reg), now)

\* What has sounded up to now sounded with the old value.
WritePsgRegister(psg, reg, v, now) ==
  LET before == SyncToCycle(psg, now)
  IN  Effect([before EXCEPT !.regs[reg] = Stored(reg, v)], reg)

WriteAddress(psg, v) == [psg EXCEPT !.address = v % 16]
WriteData(psg, v, now) == WritePsgRegister(psg, psg.address, v, now)

\* Reading port A stores what the joystick shows.
ReadData(psg, pins) == IF psg.address = 14 THEN pins ELSE psg.regs[psg.address]
AfterReadData(psg, pins) == IF psg.address = 14 THEN [psg EXCEPT !.regs[14] = pins] ELSE psg

SilentTone == [period |-> 1, count |-> 0, output |-> 0]
SilentNoise == [period |-> 1, count |-> 0, lfsr |-> 1, output |-> 0]
SilentEnvelope == [period |-> 1, count |-> 0, step |-> 31, attack |-> FALSE, hold |-> FALSE,
                   alternate |-> FALSE, holding |-> FALSE]
SilentPsg ==
  [regs |-> [r \in 0 .. 15 |-> 0], address |-> 0, tone |-> [ch \in Channels |-> SilentTone],
   noise |-> SilentNoise, env |-> SilentEnvelope,
   residual |-> 0, integral |-> [ch \in Channels |-> 0], synced |-> 0, enabled |-> FALSE]

\* Every register is written once; whether writes synchronise survives.
ResetPsg(psg, now) ==
  LET write[r \in -1 .. 15] ==
        IF r = -1 THEN [SilentPsg EXCEPT !.enabled = psg.enabled]
                  ELSE WritePsgRegister(write[r - 1], r, 0, now)
  IN  write[15]

-----------------------------------------------------------------------------
\* dwell_rounding.h: to the nearest, halves away from zero.
Rounded(sum, window) ==
  IF sum >= 0 THEN (2 * sum + window) \div (2 * window)
              ELSE -((window - 2 * sum) \div (2 * window))

\* Channel A is in the middle, B on the left, C on the right.
PsgSample(psg, window) ==
  LET i == psg.integral
  IN  IF window = 0 THEN <<0, 0>> ELSE <<Rounded(i[0] + i[1], window), Rounded(i[0] + i[2], window)>>
PsgTaken(psg) == [psg EXCEPT !.integral = [ch \in Channels |-> 0]]
=============================================================================
