------------------------------- MODULE SccWave -------------------------------
(***************************************************************************)
(* The wavetable chip of a Konami cartridge, SccWavetable                  *)
(* (src/src/devices/audio/scc_wavetable.cpp).  Channels 3 and 4 share a    *)
(* wave; the deform register turns waves and locks them.                   *)
(***************************************************************************)
EXTENDS Words

SccChannels == 0 .. 4
WaveLength == 32
AsSigned(b) == IF b < 128 THEN b ELSE b - 256

\* Arithmetic shift right by four.
Adjusted(scc, ch) == (scc.wave[ch][scc.pos[ch]] * scc.volume[ch]) \div 16

ResetScc ==
  [wave |-> [ch \in SccChannels |-> [i \in 0 .. WaveLength - 1 |-> -1]],
   org |-> [ch \in SccChannels |-> 0], period |-> [ch \in SccChannels |-> 0],
   volume |-> [ch \in SccChannels |-> 15], pos |-> [ch \in SccChannels |-> 0],
   count |-> [ch \in SccChannels |-> 0], out |-> [ch \in SccChannels |-> -1],
   rotate |-> {}, locked |-> {}, enable |-> 0, deform |-> 0, turned |-> 0, integral |-> 0]

-----------------------------------------------------------------------------
\* A write to a locked wave is lost; writing channel 3 writes both.
WriteWave(scc, ch, i, v) ==
  LET p == i % WaveLength
      s == AsSigned(v)
  IN  CASE ch \in scc.locked -> scc
        [] ch = 3 /\ ch \notin scc.locked -> [scc EXCEPT !.wave[3][p] = s, !.wave[4][p] = s]
        [] OTHER -> [scc EXCEPT !.wave[ch][p] = s]

SetPeriod(scc, reg, v) ==
  LET ch   == reg \div 2
      per  == IF reg % 2 = 1 THEN 256 * (v % 16) + (scc.org[ch] % 256)
                             ELSE 256 * (scc.org[ch] \div 256) + v
      bits == Bits[scc.deform]
      used == CASE 1 \in bits -> per % 256
                [] 1 \notin bits /\ 0 \in bits -> per \div 256
                [] OTHER -> per
      set  == [scc EXCEPT !.org[ch] = per, !.period[ch] = used, !.count[ch] = 0,
                          !.pos[ch] = IF 5 \in bits THEN 0 ELSE @,
                          !.turned = IF 5 \in bits THEN 0 ELSE @]
  IN  [set EXCEPT !.out[ch] = Adjusted(set, ch)]

\* #80-#9F, mirrored: ten period bytes, five volumes, the channel enables.
SetFreqVol(scc, address, v) ==
  LET reg == address % 16
  IN  CASE reg < 10 -> SetPeriod(scc, reg, v)
        [] reg \in 10 .. 14 -> [scc EXCEPT !.volume[reg - 10] = v % 16]
        [] OTHER -> [scc EXCEPT !.enable = v]

Rotating(deform) ==
  CASE deform \div 64 = 0 -> {}
    [] deform \div 64 = 1 -> SccChannels
    [] deform \div 64 = 2 -> {3, 4}
    [] OTHER -> 0 .. 2
Locked(deform) ==
  CASE deform \div 64 = 0 -> {}
    [] deform \div 64 = 2 -> {3, 4}
    [] OTHER -> SccChannels

SetDeform(scc, v) ==
  IF v = scc.deform
  THEN scc
  ELSE [scc EXCEPT !.deform = v, !.turned = 0, !.rotate = Rotating(v), !.locked = Locked(v)]

-----------------------------------------------------------------------------
\* Reading the deform area writes it.
AfterSccRead(scc, offset) == IF offset >= 224 THEN SetDeform(scc, 255) ELSE scc

SccWrite(scc, offset, v) ==
  CASE offset < 128         -> WriteWave(scc, offset \div 32, offset, v)
    [] offset \in 128..159  -> SetFreqVol(scc, offset, v)
    [] offset \in 160..223  -> scc
    [] OTHER                -> SetDeform(scc, v)

=============================================================================
