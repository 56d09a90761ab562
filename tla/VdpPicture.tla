----------------------------- MODULE VdpPicture -----------------------------
(***************************************************************************)
(* How a line of the picture is made from the registers, the memory, the   *)
(* palette and the sprites (src/src/devices/video/vdp_frame_renderer.cpp): *)
(* the contents of the mode, scrolled; the sprites over it; the mask of    *)
(* the left border over both.                                              *)
(*                                                                         *)
(* v is the VDP: its registers, memory, palette, blink phase and sprite    *)
(* engine.  A line is the function of its dots to their colours.           *)
(***************************************************************************)
EXTENDS Sprites

ModeName(v) == DecodeMode(v.regs[0], v.regs[1], v.regs[25])
Base(v) == ModeBase(v.regs[0], v.regs[1])

\* width and height
Width(v) == CASE ModeName(v) = "Text1" -> 240
              [] ModeName(v) = "Text2" -> 480
              [] ModeName(v) \in {"Graphic5", "Graphic6"} -> 512
              [] OTHER -> 256
Height(v) ==
  IF ModeName(v) \in {"Text1", "Text2", "Text1Q", "MulticolorQ", "Unknown"} THEN 192
  ELSE IF BitOf(v.regs[9], 7) THEN 212 ELSE 192

-----------------------------------------------------------------------------
(* Colours. *)

Pal(v, i) == PaletteColor(v.palette[i % 16])
Color0Transparent(v) == ~BitOf(v.regs[8], 5)

\* content_pal16: colour 0 shows the backdrop unless it is a colour.
ContentPal(v, i) ==
  Pal(v, IF i % 16 = 0 /\ Color0Transparent(v) THEN v.regs[7] % 16 ELSE i)

\* Graphic5 takes two of the backdrop's bits for a dot, by its parity.
ContentPalG5(v, i, x) ==
  IF i = 0 /\ Color0Transparent(v)
  THEN Pal(v, IF x % 2 = 1 THEN v.regs[7] % 4 ELSE (v.regs[7] \div 4) % 4)
  ELSE Pal(v, i)

BorderColor(v) ==
  CASE ModeName(v) = "Graphic7" -> FixedColor(v.regs[7])
    [] ModeName(v) # "Graphic7" /\ Base(v) = 16 -> Pal(v, (v.regs[7] \div 4) % 4)
    [] OTHER -> Pal(v, v.regs[7] % 16)

-----------------------------------------------------------------------------
(* Tables. *)

Vram(v, a) == VramRead(v.vram, a % VramSize)
NameTable(v) == K * v.regs[2]

\* Registers 4, 3 and 10 are masks over the low bits of an index.
PatternByte(v, index) == Vram(v, And17((2 * K * v.regs[4] + 2047) % VramSize, index))
ColorByte(v, index) ==
  Vram(v, And17((16 * K * v.regs[10] + 64 * v.regs[3] + 63) % VramSize, index))
Fill6 == VramSize - 64
Fill9 == VramSize - 512
Fill11 == VramSize - 2 * K
Fill13 == VramSize - 8 * K

VerticalWrap(v, line) == (line + v.regs[23]) % 256
ScrolledCol(v, col) == (col + v.regs[26]) % 32

-----------------------------------------------------------------------------
(* Character modes: the dot x of a line. *)

Dot(pattern, i, fg, bg) == IF BitOf(pattern, 7 - i) THEN fg ELSE bg

\* The text modes scroll within the character only.
Text1Dot(v, line, x) ==
  LET char    == Vram(v, NameTable(v) + 40 * (line \div 8) + (x \div 6))
      pattern == PatternByte(v, Fill11 + (8 * char) + ((line + v.regs[23]) % 8))
  IN  Dot(pattern, x % 6, ContentPal(v, v.regs[7] \div 16), ContentPal(v, v.regs[7] % 16))

Text2Dot(v, line, x) ==
  LET col     == x \div 6
      char    == Vram(v, NameTable(v) + 80 * (line \div 8) + col)
      pattern == PatternByte(v, Fill11 + (8 * char) + ((line + v.regs[23]) % 8))
      blink   == ColorByte(v, Fill9 + 10 * (line \div 8) + (col \div 8))
      fg      == v.regs[12] \div 16
      bg      == v.regs[12] % 16
  IN  IF v.blink /\ BitOf(blink, 7 - (col % 8))
      THEN Dot(pattern, x % 6, Pal(v, IF fg # 0 THEN fg ELSE bg), Pal(v, bg))
      ELSE Dot(pattern, x % 6, ContentPal(v, v.regs[7] \div 16), ContentPal(v, v.regs[7] % 16))

CharAt(v, line, x) == Vram(v, NameTable(v) + 32 * (line \div 8) + ScrolledCol(v, x \div 8))
TwoColors(v, pattern, color, x) ==
  Dot(pattern, x % 8, ContentPal(v, color \div 16), ContentPal(v, color % 16))

Graphic1Dot(v, line, x) ==
  LET char == CharAt(v, line, x)
  IN  TwoColors(v, PatternByte(v, Fill11 + (8 * char) + (line % 8)),
                ColorByte(v, Fill6 + (char \div 8)), x)

\* A third of the screen has tables of its own.
Graphic2Dot(v, line, x) ==
  LET index == Fill13 + (2 * K * (line \div 64)) + (8 * CharAt(v, line, x)) + (line % 8)
  IN  TwoColors(v, PatternByte(v, index), ColorByte(v, index), x)

MulticolorDot(v, line, x) ==
  LET color == PatternByte(v, Fill11 + (8 * CharAt(v, line, x)) + ((line \div 4) % 8))
  IN  ContentPal(v, IF x % 8 < 4 THEN color \div 16 ELSE color % 16)

-----------------------------------------------------------------------------
(* Bitmap modes. *)

MultiPageScrolling(v) == BitOf(v.regs[25], 0) /\ BitOf(v.regs[2], 5)
UseAlternatePage(v, field) == ~v.blink /\ BitOf(v.regs[9], 2) /\ field = "Odd"

PageCount(v) == IF ModeName(v) \in {"Graphic4", "Graphic5"} THEN 4 ELSE 2
PageSize(v) == VramSize \div PageCount(v)

\* Pages are flipped and paired by their last bit.
OtherPage(page) == IF page % 2 = 0 THEN page + 1 ELSE page - 1
ResolvedPage(v, field) ==
  LET page == (v.regs[2] \div 32) % PageCount(v)
      shown == IF UseAlternatePage(v, field) THEN OtherPage(page) ELSE page
  IN  IF MultiPageScrolling(v) THEN shown - (shown % 2) ELSE shown

\* Mutant: the line ends in the page it begins in.
OnePage(v, field) == <<ResolvedPage(v, field), ResolvedPage(v, field)>>

\* bitmap_scroll_pages: the page a line begins in and the one it ends in.
ScrollPages(v, field) ==
  LET page == ResolvedPage(v, field)
  IN  IF ~MultiPageScrolling(v) THEN <<page, page>>
      ELSE IF BitOf(v.regs[26], 5) THEN <<page + 1, page>> ELSE <<page, page + 1>>

\* A planar row alternates between the halves of the memory.
PlanarRowByte(v, row, i) ==
  Vram(v, ((row % VramSize) \div 2) + (i \div 2) + (65536 * (i % 2)))

Graphic4Content(v, row, x) ==
  LET b == Vram(v, row + (x \div 2))
  IN  ContentPal(v, IF x % 2 = 0 THEN b \div 16 ELSE b % 16)

Graphic5Content(v, row, x) ==
  ContentPalG5(v, (Vram(v, row + (x \div 4)) \div 4 ^ (3 - (x % 4))) % 4, x)

Graphic6Content(v, row, x) ==
  LET b == PlanarRowByte(v, row, x \div 2)
  IN  ContentPal(v, IF x % 2 = 0 THEN b \div 16 ELSE b % 16)

Graphic7Content(v, row, x) == FixedColor(PlanarRowByte(v, row, x))

\* Four dots share six bits of colour in each direction, low bits first.
YjkContent(v, row, x) ==
  LET p(n) == PlanarRowByte(v, row, (x - (x % 4)) + n)
      Six(low, high) == (p(low) % 8) + (8 * (p(high) % 4)) - (IF BitOf(p(high), 2) THEN 32 ELSE 0)
  IN  YjkColor(p(x % 4) \div 8, Six(2, 3), Six(0, 1))

\* A dot with the attribute bit is of the palette.
YaeContent(v, row, x) ==
  LET b == PlanarRowByte(v, row, x)
  IN  IF BitOf(b, 3) THEN ContentPal(v, b \div 16) ELSE YjkContent(v, row, x)

Content(v, row, x) ==
  CASE ModeName(v) = "Graphic4" -> Graphic4Content(v, row, x)
    [] ModeName(v) = "Graphic5" -> Graphic5Content(v, row, x)
    [] ModeName(v) = "Graphic6" -> Graphic6Content(v, row, x)
    [] ModeName(v) = "Graphic7" -> Graphic7Content(v, row, x)
    [] ModeName(v) = "ScreenYjk" -> YjkContent(v, row, x)
    [] ModeName(v) = "ScreenYjkYae" -> YaeContent(v, row, x)

BitmapModes == {"Graphic4", "Graphic5", "Graphic6", "Graphic7", "ScreenYjk", "ScreenYjkYae"}

\* Bytes in a row of a bitmap.
Stride(v) == IF IsPlanarBase(Base(v)) THEN 256 ELSE 128
DotsFactor(v) == IF Width(v) = 512 THEN 2 ELSE 1
CoarseShift(v) == (v.regs[26] % 32) * 8 * DotsFactor(v)
FineShift(v) == (v.regs[27] % 8) * DotsFactor(v)

\* The YJK modes are displayed four dots to the right.
ContentLead(v) == IF ModeName(v) \in {"ScreenYjk", "ScreenYjkYae"} THEN 4 ELSE 0

\* compose_bitmap_scroll: R#26 rotates to the left, R#27 shifts to the right
\* and leaves the border behind.
BitmapDot(v, line, field, x) ==
  LET left  == FineShift(v) + ContentLead(v)
      src   == (x - left) + CoarseShift(v)
      page  == ScrollPages(v, field)[IF src < Width(v) THEN 1 ELSE 2]
  IN  IF x < left THEN BorderColor(v)
      ELSE Content(v, page * PageSize(v) + line * Stride(v), src % Width(v))

\* dispatch_content
ContentDot(v, line, field, x) ==
  LET wrapped == VerticalWrap(v, line)
      mode    == ModeName(v)
  IN  CASE mode = "Text1" -> Text1Dot(v, line, x)
        [] mode = "Text2" -> Text2Dot(v, line, x)
        [] mode = "Graphic1" -> Graphic1Dot(v, wrapped, x)
        [] mode \in {"Graphic2", "Graphic3"} -> Graphic2Dot(v, wrapped, x)
        [] mode = "Multicolor" -> MulticolorDot(v, wrapped, x)
        [] mode \in BitmapModes ->
             BitmapDot(v, wrapped,
                       IF IsPlanarBase(Base(v)) THEN field ELSE "Progressive", x)
        [] OTHER -> Pal(v, 15)

-----------------------------------------------------------------------------
(* Sprites over the contents, the last first. *)

Doubled(v) == ModeName(v) \in {"Graphic5", "Graphic6"}

\* The dots of the screen sprite s has, up to the right edge of the picture.
SpriteDots(v, s) ==
  {s.x + d : d \in s.dots} \cap 0 .. (IF Doubled(v) THEN Width(v) \div 2 ELSE Width(v)) - 1

\* The sprites directly after i that lend it their colours (CC).
Followers(sprites, i) ==
  {j \in i + 1 .. Len(sprites) : \A n \in i + 1 .. j : sprites[n].cc}

Or4(S) == FoldSet(Or, 0, S)
SpriteColor(sprites, i, x) ==
  Or4({sprites[i].color} \cup
      {sprites[j].color : j \in {n \in Followers(sprites, i) : x - sprites[n].x \in sprites[n].dots}})

\* A sprite that only lends its colour is not drawn before the first that does not.
FirstDrawn(sprites) ==
  Min({Len(sprites) + 1} \cup {i \in DOMAIN sprites : ~sprites[i].cc})

SpriteDotColor(v, sprites, i, x, half) ==
  LET color == SpriteColor(sprites, i, x)
  IN  IF ModeName(v) = "Graphic5" THEN Pal(v, IF half = 0 THEN color \div 4 ELSE color % 4)
      ELSE Pal(v, color)

\* The sprites that have dot x of the line, in a colour.
Paints(v, s, x) ==
  /\ ~(s.color = 0 /\ Color0Transparent(v))
  /\ (IF Doubled(v) THEN x \div 2 ELSE x) \in SpriteDots(v, s)
Paint(v, sprites, i, x) ==
  IF Doubled(v) THEN SpriteDotColor(v, sprites, i, x \div 2, x % 2)
  ELSE SpriteDotColor(v, sprites, i, x, 0)

\* composite_sprites: what is seen of dot x once the last n sprites are painted.
Composited(v, sprites, content, x) ==
  LET drawn == Len(sprites) - FirstDrawn(sprites) + 1
      seen[n \in 0 .. drawn] ==
        IF n = 0 THEN content
        ELSE LET i == Len(sprites) + 1 - n
             IN  IF Paints(v, sprites[i], x) THEN Paint(v, sprites, i, x) ELSE seen[n - 1]
  IN  seen[drawn]

\* render_line
RenderedLine(v, line, field) ==
  LET sprites == IF ModeOf(v.regs) # 0 /\ line \in DOMAIN v.sprites.lines
                 THEN v.sprites.lines[line] ELSE <<>>
  IN  [x \in 0 .. Width(v) - 1 |->
         IF ~BitOf(v.regs[1], 6) \/ (BitOf(v.regs[25], 1) /\ x < 8) THEN BorderColor(v)
         ELSE Composited(v, sprites, ContentDot(v, line, field, x), x)]
=============================================================================
