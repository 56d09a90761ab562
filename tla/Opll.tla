--------------------------------- MODULE Opll --------------------------------
(***************************************************************************)
(* The FM chip, Ym2413Opll with its Ym2413Synth                            *)
(* (src/src/devices/audio/ym2413_opll.cpp, ym2413_synth.cpp): the register *)
(* file and its write timing, the keys the registers hold down, and the    *)
(* envelope of each of the 18 operators.  The phases, the wave tables and  *)
(* the sum of the outputs are left out: nothing reads them back.           *)
(***************************************************************************)
EXTENDS Words, Sequences

CONSTANTS AddressWait, DataWait,  \* kAddressWriteMinCycles, kDataWriteMinCycles
          NativeCycles            \* kMasterCyclesPerNativeSample

FmSlots == 0 .. 17
Silent == 127

\* kMelodyPatches, kRhythmBd, kRhythmSdHh, kRhythmTomCym: bytes 0 and 1
\* (flags), 4 to 7 (rates) of each; 2 and 3 shape the tone only.
MelodyPatches ==
  <<<<113, 97, 208, 120, 0, 23>>,  <<19, 65, 216, 247, 35, 19>>, <<19, 1, 242, 196, 17, 35>>,
    <<49, 97, 168, 100, 112, 39>>, <<50, 33, 224, 118, 0, 40>>,  <<49, 34, 224, 113, 0, 24>>,
    <<33, 97, 130, 129, 16, 7>>,   <<35, 33, 162, 114, 0, 7>>,   <<97, 97, 100, 101, 16, 23>>,
    <<65, 97, 133, 247, 113, 7>>,  <<19, 1, 250, 228, 16, 4>>,   <<23, 193, 248, 248, 34, 18>>,
    <<97, 80, 194, 245, 32, 66>>,  <<1, 1, 201, 149, 3, 2>>,     <<97, 65, 241, 228, 64, 19>>>>
RhythmPatches ==
  <<<<1, 1, 223, 248, 106, 109>>, <<1, 1, 200, 216, 167, 72>>, <<5, 1, 248, 170, 89, 85>>>>

\* side 0 is the modulator, side 1 the carrier.
DecodePatch(raw, side) ==
  [sustained |-> 5 \in Bits[raw[1 + side]], ksr |-> 4 \in Bits[raw[1 + side]],
   attack |-> raw[3 + side] \div 16, decay |-> raw[3 + side] % 16,
   level |-> raw[5 + side] \div 16, release |-> raw[5 + side] % 16]

-----------------------------------------------------------------------------
FNumber(fm, ch) == fm.regs[16 + ch] + 256 * (fm.regs[32 + ch] % 2)
Block(fm, ch) == (fm.regs[32 + ch] \div 2) % 8
KeyBit(fm, ch) == 4 \in Bits[fm.regs[32 + ch]]
SustainBit(fm, ch) == 5 \in Bits[fm.regs[32 + ch]]
Rhythm(fm) == 5 \in Bits[fm.regs[14]]

UserPatch(fm) == [i \in 1 .. 6 |-> fm.regs[IF i <= 2 THEN i - 1 ELSE i + 1]]
Patch(fm, slot) ==
  LET ch   == slot \div 2
      inst == fm.regs[48 + ch] \div 16
      raw  == CASE Rhythm(fm) /\ ch >= 6 -> RhythmPatches[ch - 5]
                [] ~(Rhythm(fm) /\ ch >= 6) /\ inst = 0 -> UserPatch(fm)
                [] OTHER -> MelodyPatches[inst]
  IN  DecodePatch(raw, slot % 2)

\* The key of a slot: the drums have a bit each in register #0E, the bass
\* drum one for both of its operators.
DrumBit == [s \in 12 .. 17 |-> <<4, 4, 0, 3, 2, 1>>[s - 11]]
SlotKey(fm, slot) ==
  IF Rhythm(fm) /\ slot >= 12 THEN DrumBit[slot] \in Bits[fm.regs[14]]
                              ELSE KeyBit(fm, slot \div 2)

KeyScale(fm, slot) ==
  LET ch   == slot \div 2
      full == 2 * Block(fm, ch) + (FNumber(fm, ch) \div 256)
  IN  IF Patch(fm, slot).ksr THEN full ELSE full \div 4
EffectiveRate(rate, rks) ==
  CASE rate = 0 -> 0
    [] rate # 0 /\ 4 * rate + rks > 63 -> 63
    [] OTHER -> 4 * rate + rks

-----------------------------------------------------------------------------
\* Keys.
Pressed(fm, slot) ==
  LET s    == fm.slots[slot]
      rate == EffectiveRate(Patch(fm, slot).attack, KeyScale(fm, slot))
  IN  IF rate >= 60 \/ s.level = 0
      THEN [state |-> "Decay", level |-> 0, key |-> TRUE]
      ELSE [s EXCEPT !.state = "Attack", !.key = TRUE]
ApplyKey(fm, slot) ==
  LET s == fm.slots[slot]
      k == SlotKey(fm, slot)
  IN  CASE k /\ ~s.key -> Pressed(fm, slot)
        [] ~k /\ s.key -> [s EXCEPT !.key = FALSE, !.state = IF @ = "Idle" THEN @ ELSE "Release"]
        [] OTHER -> s
RefreshKeys(fm) == [fm EXCEPT !.slots = [slot \in FmSlots |-> ApplyKey(fm, slot)]]

\* A write too soon after the last accepted one is lost.
GateAllows(fm, now) ==
  \/ ~fm.enforced
  \/ fm.last = "none"
  \/ now - fm.since >= (IF fm.last = "address" THEN AddressWait ELSE DataWait)
Accepted(fm, kind, now) == IF fm.enforced THEN [fm EXCEPT !.last = kind, !.since = now] ELSE fm

OpllWriteAddress(fm, v, now) ==
  IF GateAllows(fm, now) THEN [Accepted(fm, "address", now) EXCEPT !.latch = v] ELSE fm

\* Mutant: the keys of the rhythm register are forgotten.
MelodicWriteData(fm, v, now) ==
  LET stored == [Accepted(fm, "data", now) EXCEPT !.regs[fm.latch % 64] = v]
  IN  IF GateAllows(fm, now)
      THEN IF fm.latch \in 32 .. 40 THEN RefreshKeys(stored) ELSE stored
      ELSE fm

OpllWriteData(fm, v, now) ==
  IF GateAllows(fm, now)
  THEN RefreshKeys([Accepted(fm, "data", now) EXCEPT !.regs[fm.latch % 64] = v])
  ELSE fm

SilentSlot == [state |-> "Idle", level |-> Silent, key |-> FALSE]
ResetOpll(enforced) ==
  [regs |-> [r \in 0 .. 63 |-> 0], latch |-> 0, enforced |-> enforced, last |-> "none",
   since |-> 0, counter |-> 0, accum |-> 0,
   slots |-> [s \in FmSlots |-> SilentSlot]]

-----------------------------------------------------------------------------
\* The envelope generator, once per native sample.
EgSelect == <<<<0, 1, 0, 1, 0, 1, 0, 1>>, <<0, 1, 0, 1, 1, 1, 0, 1>>,
              <<0, 1, 1, 1, 0, 1, 1, 1>>, <<0, 1, 1, 1, 1, 1, 1, 1>>>>
GrantedSteps(rate, counter) ==
  LET r4    == rate \div 4
      shift == IF r4 <= 13 THEN 13 - r4 ELSE 0
      steps == EgSelect[(rate % 4) + 1][((counter \div 2^shift) % 8) + 1]
  IN  CASE rate < 4   -> 0
        [] rate >= 60 -> 2
        [] OTHER -> IF counter % 2^shift # 0 THEN 0
                    ELSE IF r4 >= 14 THEN steps * 2^(r4 - 13) ELSE steps

SlotRate(fm, slot) ==
  LET p == Patch(fm, slot)
      r == CASE fm.slots[slot].state = "Attack"  -> p.attack
             [] fm.slots[slot].state = "Decay"   -> p.decay
             [] fm.slots[slot].state = "Sustain" -> IF p.sustained THEN 0 ELSE p.release
             [] OTHER -> IF SustainBit(fm, slot \div 2) THEN 5 ELSE p.release
  IN  EffectiveRate(r, KeyScale(fm, slot))

AttackStep(level) == IF level > 0 THEN level - (level \div 4) - 1 ELSE level
Attacked(s, rate, steps) ==
  LET climb[n \in Nat] == IF n = 0 THEN s.level ELSE AttackStep(climb[n - 1])
      level == IF rate >= 60 THEN 0 ELSE climb[steps]
  IN  IF level <= 0 THEN [s EXCEPT !.level = 0, !.state = "Decay"] ELSE [s EXCEPT !.level = level]
Fallen(s, p, steps) ==
  LET level == IF s.level + steps > Silent THEN Silent ELSE s.level + steps
  IN  CASE steps = 0 -> s
        [] steps # 0 /\ level >= Silent -> [s EXCEPT !.level = Silent, !.state = "Idle"]
        [] OTHER -> [s EXCEPT !.level = level,
                              !.state = IF @ = "Decay" /\ level >= 8 * p.level THEN "Sustain" ELSE @]
EnvelopeTick(fm, slot) ==
  LET s     == fm.slots[slot]
      rate  == SlotRate(fm, slot)
      steps == GrantedSteps(rate, fm.counter)
  IN  CASE s.state = "Idle"   -> s
        [] s.state = "Attack" -> Attacked(s, rate, steps)
        [] OTHER              -> Fallen(s, Patch(fm, slot), steps)
OpllTick(fm) ==
  [fm EXCEPT !.slots = [slot \in FmSlots |-> EnvelopeTick(fm, slot)], !.counter = @ + 1]

OpllAdvance(fm, n) ==
  LET ticks == (fm.accum + n) \div NativeCycles
      run[k \in 0 .. ticks] == IF k = 0 THEN fm ELSE OpllTick(run[k - 1])
  IN  [run[ticks] EXCEPT !.accum = (fm.accum + n) % NativeCycles]
=============================================================================
