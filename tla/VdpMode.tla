------------------------------- MODULE VdpMode -------------------------------
(***************************************************************************)
(* The display modes, the colours and the memory of the VDP (vdp_mode.h,   *)
(* vdp_palette.h and vdp_vram.cpp under src/src/devices/video/).           *)
(*                                                                         *)
(* The video memory is the function of the addresses written since the     *)
(* last clear: every other byte is 0.                                      *)
(***************************************************************************)
EXTENDS Words, FiniteSetsExt, SequencesExt

K == 1024
VramSize == 128 * K
BitOf(b, n) == n \in Bits[b]
BitValue(b, n) == IF BitOf(b, n) THEN 1 ELSE 0

\* 17-bit conjunction, two bytes and a bit at a time.
And17(a, b) ==
  IF a < 65536 \/ b < 65536
  THEN 256 * And(High(Low16(a)), High(Low16(b))) + And(Low(a), Low(b))
  ELSE 65536 + 256 * And(High(Low16(a)), High(Low16(b))) + And(Low(a), Low(b))

-----------------------------------------------------------------------------
\* vdp_mode_base: the mode bits M5..M1 of R#0 and R#1.
ModeBase(r0, r1) == 4 * ((r0 \div 2) % 8) + 2 * BitValue(r1, 3) + BitValue(r1, 4)
IsV9938Base(base) == base \div 8 # 0
IsPlanarBase(base) == (base \div 4) % 2 = 1 /\ base \div 16 = 1
SpriteModeOf(base) == CASE base \in {0, 2, 4} -> 1
                        [] base \in {8, 12, 16, 20, 28} -> 2
                        [] OTHER -> 0

BaseNames == (0 :> "Graphic1" @@ 1 :> "Text1" @@ 2 :> "Multicolor" @@ 4 :> "Graphic2"
              @@ 5 :> "Text1Q" @@ 6 :> "MulticolorQ" @@ 8 :> "Graphic3" @@ 9 :> "Text2"
              @@ 12 :> "Graphic4" @@ 16 :> "Graphic5" @@ 20 :> "Graphic6" @@ 28 :> "Graphic7")

\* decode_vdp_mode
DecodeMode(r0, r1, r25) ==
  LET base == ModeBase(r0, r1)
  IN  IF base = 28 /\ BitOf(r25, 3) THEN IF BitOf(r25, 4) THEN "ScreenYjkYae" ELSE "ScreenYjk"
      ELSE IF base \in DOMAIN BaseNames THEN BaseNames[base] ELSE "Unknown"

-----------------------------------------------------------------------------
\* Five bits of red, green and blue in one number.
PackRgb(r, g, b) == 1024 * r + 32 * g + b
Expand3to5(c) == 4 * c + (c \div 2)

\* A palette entry holds green, red and blue of three bits, a nibble each.
PaletteColor(grb) ==
  PackRgb(Expand3to5((grb \div 16) % 8), Expand3to5((grb \div 256) % 8), Expand3to5(grb % 8))

\* The fixed colours of Graphic7, whose blue has two bits.
FixedColor(b) ==
  PackRgb(Expand3to5((b \div 4) % 8), Expand3to5(b \div 32),
          Expand3to5(IF b % 4 = 3 THEN 7 ELSE 2 * (b % 4)))

Clamp5(n) == IF n < 0 THEN 0 ELSE IF n > 31 THEN 31 ELSE n

\* C++ division, which rounds towards 0.
Quarter(n) == IF n < 0 THEN -((-n) \div 4) ELSE n \div 4

YjkColor(y, j, k) ==
  PackRgb(Clamp5(y + j), Clamp5(y + k), Clamp5(Quarter(5 * y - 2 * j - k + 2)))

-----------------------------------------------------------------------------
VramRead(vram, a) == IF a \in DOMAIN vram THEN vram[a] ELSE 0
VramWrite(vram, a, b) == [x \in DOMAIN vram \cup {a} |-> IF x = a THEN b ELSE vram[x]]

\* Planar modes keep even addresses in the lower 64K and odd ones in the upper.
PlanarAddress(a) == ((a % VramSize) \div 2) + 65536 * (a % 2)
=============================================================================
