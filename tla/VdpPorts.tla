------------------------------ MODULE VdpPorts ------------------------------
(***************************************************************************)
(* The four ports of the VDP, as the program uses them: data with its      *)
(* pointer and read-ahead byte, registers and addresses in pairs of bytes, *)
(* palette entries in pairs, registers through R#17; the status registers  *)
(* of the sprites; and the picture made of it all                          *)
(* (src/src/devices/video/v9958_vdp.cpp, with Sprites and VdpPicture).     *)
(*                                                                         *)
(* Interrupts are V9958's, commands VdpCommands', and when a line is drawn *)
(* RenderSync's: here the sprites of a picture are those the last vertical *)
(* sync found.                                                             *)
(*                                                                         *)
(* The rest of the record is the program's own account of what it does:    *)
(* flat, the bytes it stored by their address, as one array; cursor, where *)
(* in it the next access is; held, the first byte of a pair it is writing  *)
(* with nothing in between that could spoil it; cleared, the line at which *)
(* it last read S#0 in this frame.                                         *)
(***************************************************************************)
EXTENDS VdpPicture

CONSTANT
  Screens   \* what the programs set up and do: [regs, vram, steps, length]

ASSUME VdpPortsAssumption ==
  \A screen \in Screens :
    /\ \A r \in DOMAIN screen.regs : screen.regs[r] \in Byte
    /\ DOMAIN screen.vram \subseteq 0 .. VramSize - 1
    /\ \A step \in screen.steps : step[1] = "write" => step[2] \in 0 .. 3 /\ step[3] \in Byte

VARIABLE video
video_vars == video

None == -1
Broken == -2
BeforeFrame == -1000

\* What the last step brought to light.
Nothing == [kind |-> "nothing"]
ByteRead(b) == [kind |-> "byte", byte |-> b]
Swept(e) == [kind |-> "sweep", fifth |-> e.fifth, collided |-> e.collided]
Drawn(line, field, row) == [kind |-> "line", line |-> line, field |-> field, row |-> row]

BootPalette ==
  [i \in 0 .. 15 |->
     <<0, 0, 1553, 1843, 279, 807, 337, 1575, 369, 883, 1633, 1636, 1041, 613, 1365, 1911>>[i + 1]]

\* reset, and what a program has set up then; wherever its tables are, memory
\* was stored through the port.
Placed(regs, a) == IF IsPlanarBase(ModeBase(regs[0], regs[1])) THEN PlanarAddress(a) ELSE a
SetUp(screen) ==
  LET regs == [r \in 0 .. 31 |-> IF r \in DOMAIN screen.regs THEN screen.regs[r]
                                 ELSE IF r = 21 THEN 59 ELSE IF r = 22 THEN 5 ELSE 0]
  IN  [regs |-> regs, steps |-> screen.steps, left |-> screen.length,
       vram |-> [a \in {Placed(regs, l) : l \in DOMAIN screen.vram} |->
                   screen.vram[CHOOSE l \in DOMAIN screen.vram : Placed(regs, l) = a]],
       palette |-> BootPalette, blink |-> FALSE, latch |-> 0, register_stored |-> FALSE,
       palette_stored |-> FALSE, pointer |-> 0, ahead |-> 0,
       sprites |-> ResetSprites, beam |-> BeforeFrame, last |-> Nothing,
       flat |-> screen.vram, cursor |-> [at |-> None, writing |-> FALSE],
       held |-> [register |-> None, palette |-> None], cleared |-> BeforeFrame]

VdpInit == \E screen \in Screens : video = SetUp(screen)

-----------------------------------------------------------------------------
(* Memory through port 0. *)

LinearAddress(v) == ((16 * K * v.regs[14]) % VramSize) + v.pointer

\* effective_address
EffectiveAddress(v) ==
  IF IsPlanarBase(Base(v)) THEN PlanarAddress(LinearAddress(v)) ELSE LinearAddress(v)

\* Mutant: the carry into R#14 is lost.
AdvancedInPage(v) == [v EXCEPT !.pointer = (@ + 1) % (16 * K)]

\* advance_vram_pointer: the modes of the V9938 carry into R#14.
Advanced(v) ==
  LET p == (v.pointer + 1) % (16 * K)
  IN  IF p = 0 /\ IsV9938Base(Base(v))
      THEN [v EXCEPT !.pointer = p, !.regs[14] = (@ + 1) % 8] ELSE [v EXCEPT !.pointer = p]

AfterDataWrite(v, b) ==
  Advanced([v EXCEPT !.ahead = b, !.vram = VramWrite(@, EffectiveAddress(v), b)])
AfterDataRead(v) == Advanced([v EXCEPT !.ahead = Vram(v, EffectiveAddress(v))])

-----------------------------------------------------------------------------
(* Registers, addresses and colours. *)

\* R#13 starts the blink phase; the frames it lasts are left out.
AfterRegisterChange(v, r, b) ==
  IF r > 31 THEN v
  ELSE LET w == [v EXCEPT !.regs[r] = b]
       IN  CASE r = 16 -> [w EXCEPT !.palette_stored = FALSE]
             [] r = 13 -> [w EXCEPT !.blink = b \div 16 # 0]
             [] OTHER  -> w

\* An address, with its high byte; for reading, the first byte is fetched.
AfterSetAddress(v, b) ==
  LET w == [v EXCEPT !.pointer = ((256 * b) + v.latch) % (16 * K)]
  IN  IF BitOf(b, 6) THEN w ELSE AfterDataRead(w)

\* port1_write
AfterPort1Write(v, b) ==
  IF ~v.register_stored THEN [v EXCEPT !.latch = b, !.register_stored = TRUE]
  ELSE [(IF BitOf(b, 7) THEN AfterRegisterChange(v, b % 64, v.latch) ELSE AfterSetAddress(v, b))
          EXCEPT !.register_stored = FALSE]

\* palette_write
AfterPaletteWrite(v, b) ==
  IF ~v.palette_stored THEN [v EXCEPT !.latch = b, !.palette_stored = TRUE]
  ELSE [v EXCEPT !.palette[v.regs[16] % 16] = (256 * (b % 8)) + And(v.latch, 119),
                 !.regs[16] = ((@ % 16) + 1) % 16, !.palette_stored = FALSE]

\* indirect_write: the register written may be R#17 itself.
AfterIndirectWrite(v, b) ==
  LET number == v.regs[17]
      w == AfterRegisterChange([v EXCEPT !.latch = b], number % 64, b)
  IN  IF BitOf(number, 7) THEN w ELSE [w EXCEPT !.regs[17] = ((number % 64) + 1) % 64]

\* io_write
AfterPortWrite(v, port, b) ==
  CASE port = 0 -> [AfterDataWrite(v, b) EXCEPT !.register_stored = FALSE]
    [] port = 1 -> AfterPort1Write(v, b)
    [] port = 2 -> AfterPaletteWrite(v, b)
    [] port = 3 -> AfterIndirectWrite(v, b)

-----------------------------------------------------------------------------
(* Status registers, those of the sprites. *)

\* peek_status_register
PeekStatus(v, r) ==
  CASE r = 0 -> StatusBits(v.sprites)
    [] r = 3 -> v.sprites.x % 256
    [] r = 4 -> 254 + v.sprites.x \div 256
    [] r = 5 -> v.sprites.y % 256
    [] r = 6 -> 252 + v.sprites.y \div 256
    [] OTHER -> 255

\* Mutant: the collisions the beam has passed stay to be reported.
StatusReadKeepingEvents(e, r, beam) ==
  CASE r = 0 -> AfterResetStatus(e)
    [] r = 5 -> AfterResetCollision(e)
    [] OTHER -> e

AfterStatusRead(e, r, beam) ==
  CASE r = 0 -> AfterConsumed(AfterResetStatus(e), beam)
    [] r = 5 -> AfterResetCollision(e)
    [] OTHER -> e

\* read_status of R#15's register.
AfterStatusPort(v) ==
  LET r == v.regs[15] % 16
      w == IF r = 0 THEN [v EXCEPT !.sprites = AfterSync(@, v.beam)] ELSE v
  IN  [w EXCEPT !.last = ByteRead(PeekStatus(w, r)), !.sprites = AfterStatusRead(@, r, v.beam)]

\* io_read
AfterPortRead(v, port) ==
  LET w == [v EXCEPT !.register_stored = FALSE]
  IN  IF port = 0 THEN [AfterDataRead(w) EXCEPT !.last = ByteRead(v.ahead)] ELSE AfterStatusPort(w)

-----------------------------------------------------------------------------
(* The program's account. *)

\* A second byte on port 1 sets an address unless its top bit is set.
SetsAddress(v, port, b) == port = 1 /\ v.register_stored /\ ~BitOf(b, 7)
RegisterSet(v, port, b) ==
  IF port = 3 THEN v.regs[17] % 64
  ELSE IF port = 1 /\ v.register_stored /\ BitOf(b, 7) THEN b % 64 ELSE None

After(at, v) == IF IsV9938Base(Base(v)) THEN (at + 1) % VramSize
                ELSE (at - (at % (16 * K))) + ((at + 1) % (16 * K))

\* The array is lost when the mode places it elsewhere, or when a byte is
\* stored at an address the program does not know.
AccountOfWrite(v, port, b) ==
  LET r == RegisterSet(v, port, b)
      moved == IsPlanarBase(Base(v)) # IsPlanarBase(Base(AfterPortWrite(v, port, b)))
      known == v.cursor.at # None /\ v.cursor.writing
  IN  [flat |-> IF moved THEN <<>>
                ELSE IF port # 0 THEN v.flat
                ELSE IF known THEN VramWrite(v.flat, v.cursor.at, b) ELSE <<>>,
       cursor |-> IF SetsAddress(v, port, b)
                  THEN [at |-> ((16 * K * v.regs[14]) % VramSize)
                                 + (((256 * b) + v.latch) % (16 * K)), writing |-> BitOf(b, 6)]
                  ELSE IF r \in {0, 1, 14} \/ (port = 0 /\ ~known)
                  THEN [at |-> None, writing |-> FALSE]
                  ELSE IF port = 0 THEN [v.cursor EXCEPT !.at = After(@, v)] ELSE v.cursor,
       held |-> [register |->
                   CASE port = 0 -> None
                     [] port = 1 -> IF v.held.register = None THEN b ELSE None
                     [] OTHER -> IF v.held.register = None THEN None ELSE Broken,
                 palette |->
                   CASE r = 16 -> None
                     [] r # 16 /\ port = 2 -> IF v.held.palette = None THEN b ELSE None
                     [] r # 16 /\ port \in {1, 3} -> IF v.held.palette = None THEN None ELSE Broken
                     [] OTHER -> v.held.palette]]

AccountOfRead(v, port) ==
  [cursor |-> IF port # 0 THEN v.cursor
              ELSE IF v.cursor.at = None \/ v.cursor.writing
                   THEN [at |-> None, writing |-> FALSE]
              ELSE [v.cursor EXCEPT !.at = After(@, v)],
   held |-> [v.held EXCEPT !.register = None],
   cleared |-> IF port = 1 /\ v.regs[15] % 16 = 0 THEN v.beam ELSE v.cleared]

-----------------------------------------------------------------------------
\* A program makes so many steps.
Doing(step) == step \in video.steps /\ video.left > 0

PortWrite(port, b) ==
  LET account == AccountOfWrite(video, port, b)
  IN  /\ Doing(<<"write", port, b>>)
      /\ video' = [AfterPortWrite(video, port, b) EXCEPT
                   !.left = @ - 1, !.last = Nothing, !.flat = account.flat,
                   !.cursor = account.cursor, !.held = account.held]

PortRead(port) ==
  LET account == AccountOfRead(video, port)
  IN  /\ Doing(<<"read", port>>)
      /\ video' = [AfterPortRead(video, port) EXCEPT
                   !.left = @ - 1, !.cursor = account.cursor, !.held = account.held,
                   !.cleared = account.cleared]

\* on_vsync: the beam is below the picture again.
Vsync ==
  /\ Doing(<<"vsync">>)
  /\ video' = [video EXCEPT !.left = @ - 1, !.last = Swept(video.sprites),
                        !.sprites = AfterFrame(@, video.regs, video.vram, Height(video)),
                        !.beam = BeforeFrame, !.cleared = BeforeFrame]

\* The beam comes to a line.
Beam(line) ==
  /\ Doing(<<"beam", line>>) /\ line > video.beam
  /\ video' = [video EXCEPT !.left = @ - 1, !.last = Nothing, !.beam = line]

\* A line is drawn; drawing changes nothing, so it is drawn once.
Draw(line, field) ==
  /\ Doing(<<"draw", line, field>>) /\ video.last.kind # "line"
  /\ video' = [video EXCEPT !.left = @ - 1,
                        !.last = Drawn(line, field, RenderedLine(video, line, field))]

VdpNext ==
  \/ \E step \in {s \in video.steps : s[1] = "write"} : PortWrite(step[2], step[3])
  \/ \E port \in 0 .. 1 : PortRead(port)
  \/ Vsync
  \/ \E step \in {s \in video.steps : s[1] = "beam"} : Beam(step[2])
  \/ \E step \in {s \in video.steps : s[1] = "draw"} : Draw(step[2], step[3])

VdpSpec == VdpInit /\ [][VdpNext]_video_vars
-----------------------------------------------------------------------------
\* What the program reads in a stream is what it stored at the addresses one
\* after the other, across the 16K steps of the pointer and in both banks of
\* the planar modes (vram_data_read, advance_vram_pointer, effective_address).
ReadsInOrder ==
  [][LET c == video.cursor
     IN  PortRead(0) /\ ~c.writing /\ c.at \in DOMAIN video.flat => video'.last = ByteRead(video.flat[c.at])]_video_vars

\* A pair of bytes gives its register, address or palette entry both of them,
\* although the three kinds share one latch, unless the program itself came
\* between them with a byte of another pair (port1_write, palette_write,
\* indirect_write, io_read).
Holding(b) == b \notin {None, Broken}
RegisterPairWhole(b) ==
  Holding(video.held.register) =>
    IF BitOf(b, 7) THEN b % 64 < 32 => video'.regs[b % 64] = video.held.register
    ELSE video'.pointer = ((256 * b) + video.held.register + (IF BitOf(b, 6) THEN 0 ELSE 1)) % (16 * K)
PalettePairWhole(b) ==
  Holding(video.held.palette) =>
    video'.palette[video.regs[16] % 16] = (256 * (b % 8)) + And(video.held.palette, 119)
PairsWhole ==
  [][\A b \in {step[3] : step \in {s \in video.steps : s[1] = "write"}} :
       /\ PortWrite(1, b) => RegisterPairWhole(b)
       /\ PortWrite(2, b) => PalettePairWhole(b)]_video_vars

\* Reads and writes of a port keep their order and their pairs, whatever
\* comes in between (v9958_vdp.cpp).
StreamsExact == ReadsInOrder /\ PairsWhole

\* At a vertical sync the flag tells whether a line has too many sprites and
\* the number which is the first of them on the uppermost such line; the place
\* is the leftmost dot two sprites share on the uppermost line with one.  The
\* sprites are those of the tables in the memory: the first ones of a line,
\* without the transparent ones (unless R#8 says that these count) and without
\* those of mode 2 that have CC or IC set (process_segment, finalize_frame).
OnThatLine(l) == {s \in 0 .. SpriteEnd(video.regs, video.vram) - 1 : OnLine(video.regs, video.vram, s, l)}
RowOn(l, s) == SpriteRow(video.regs, video.vram, s, l) \div (IF Mag(video.regs) THEN 2 ELSE 1)
AttrOn(l, s) ==
  IF ModeOf(video.regs) = 1 THEN AttribByte(video.regs, video.vram, s, 3)
  ELSE TableByte(video.regs, video.vram, Mode2Address(video.regs, (16 * s) + RowOn(l, s)))
TakesPart(l, s) ==
  LET b == AttrOn(l, s)
  IN  /\ b % 16 # 0 \/ 5 \in Bits[video.regs[8]]
      /\ ModeOf(video.regs) = 2 => Bits[b] \cap {5, 6} = {}
DotsOn(l, s) ==
  LET left == AttribByte(video.regs, video.vram, s, 1) - (IF 7 \in Bits[AttrOn(l, s)] THEN 32 ELSE 0)
  IN  {left + d : d \in PatternDots(video.regs, video.vram, s, RowOn(l, s))}
SharedDots(l) ==
  LET here  == OnThatLine(l)
      first == {s \in here : Cardinality({r \in here : r < s}) < MaxPerLine(video.regs)}
      parts == {s \in first : TakesPart(l, s)}
      dots  == [s \in parts |-> DotsOn(l, s)]
  IN  UNION {dots[p[1]] \cap dots[p[2]] : p \in {q \in parts \X parts : q[1] < q[2]}}
        \cap 0 .. 255
FrameStatusExact ==
  LET e == video.sprites
      crowded == {l \in 1 .. Height(video) - 1 :
                    Cardinality(OnThatLine(l)) > MaxPerLine(video.regs)}
      hit == {l \in 1 .. Height(video) - 1 : SharedDots(l) # {}}
  IN  video.last.kind = "sweep" /\ SpritesOn(video.regs) =>
        /\ ~video.last.fifth =>
             /\ e.fifth = (crowded # {})
             /\ e.fifth => /\ e.number \in OnThatLine(Min(crowded))
                           /\ Cardinality({s \in OnThatLine(Min(crowded)) : s < e.number})
                                = MaxPerLine(video.regs)
        /\ ~video.last.collided =>
             /\ e.collided = (hit # {})
             /\ e.collided => /\ e.y = Min(hit) + 8
                              /\ e.x = Min(SharedDots(Min(hit))) + 12

\* A collision read from S#0 after another in the same frame is one of a line
\* the beam has come to since (sync_collision_to_raster,
\* consume_collision_events_up_to).
CollisionsAhead ==
  [][/\ PortRead(1) /\ video.regs[15] % 16 = 0
     /\ BitOf(video'.last.byte, 5) /\ ~video.sprites.collided /\ video.cleared # BeforeFrame
     => video'.sprites.y - 8 \in video.cleared + 1 .. video.beam]_video_vars

-----------------------------------------------------------------------------
Unmasked(v, x) == ~BitOf(v.regs[25], 1) \/ x >= 8
Displayed(v) == BitOf(v.regs[1], 6)

\* Where the program stored the byte for dot x: the bitmap is one page wide,
\* or two next to each other, and the window on it moves to the left.
StoredAt(v, x) ==
  LET place == (x - FineShift(v) - ContentLead(v)) + CoarseShift(v)
      first == ResolvedPage(v, IF IsPlanarBase(Base(v)) THEN v.last.field ELSE "Progressive")
      wide  == place + (IF BitOf(v.regs[26], 5) THEN Width(v) ELSE 0)
      page  == IF MultiPageScrolling(v) THEN first + ((wide \div Width(v)) % 2) ELSE first
      dot   == place % Width(v)
  IN  [at |-> (page * PageSize(v)) + (VerticalWrap(v, v.last.line) * Stride(v))
                + ((dot * Stride(v)) \div Width(v)), dot |-> dot]

\* The bits of a byte that are dot's, and their colour.
DotColor(v, b, dot) ==
  CASE ModeName(v) \in {"Graphic4", "Graphic6"} -> ContentPal(v, IF dot % 2 = 0 THEN b \div 16 ELSE b % 16)
    [] ModeName(v) = "Graphic5" -> ContentPalG5(v, (b \div 4 ^ (3 - (dot % 4))) % 4, dot)
    [] ModeName(v) = "Graphic7" -> FixedColor(b)

\* A bitmap shows each byte where the program stored it, whatever the page, the
\* scrolling and the banks of the memory (compose_bitmap_scroll,
\* bitmap_scroll_pages, planar_row_spans).
PictureAsStored ==
  LET v == video
  IN  /\ v.last.kind = "line" /\ Displayed(v) /\ v.last.line \notin DOMAIN v.sprites.lines
      /\ ModeName(v) \in {"Graphic4", "Graphic5", "Graphic6", "Graphic7"}
      => \A x \in FineShift(v) .. Width(v) - 1 :
           Unmasked(v, x) /\ StoredAt(v, x).at \in DOMAIN v.flat =>
             v.last.row[x] = DotColor(v, v.flat[StoredAt(v, x).at], StoredAt(v, x).dot)

\* Where sprites overlap the one with the lowest number is seen
\* (composite_sprites).
FrontSpriteShown ==
  LET v == video
      sprites == v.sprites.lines[v.last.line]
      Here(x) == {i \in FirstDrawn(sprites) .. Len(sprites) : Paints(v, sprites[i], x)}
  IN  v.last.kind = "line" /\ v.last.line \in DOMAIN v.sprites.lines /\ Displayed(v) /\ ModeOf(v.regs) # 0 =>
        \A x \in DOMAIN v.last.row :
          Unmasked(v, x) /\ Here(x) # {} =>
            v.last.row[x] = Paint(v, sprites, Min(Here(x)), x)
=============================================================================
