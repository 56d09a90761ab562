------------------------------- MODULE Sprites -------------------------------
(***************************************************************************)
(* The sprite engine (src/src/devices/video/sprite_engine.cpp): which      *)
(* sprites each line shows, and what the program can read of them: the     *)
(* flag and number of the first sprite too many on a line, and the place   *)
(* of a collision, which appears when the beam has passed its line.        *)
(*                                                                         *)
(* A pattern is the set of its dots, counted from the left edge.  An       *)
(* engine is a record e; a line nothing was checked in has no sprites.     *)
(***************************************************************************)
EXTENDS VdpMode

NoSprite == -1

ResetSprites == [lines |-> <<>>, events |-> <<>>, next |-> 1, fifth |-> FALSE,
                 collided |-> FALSE, number |-> 0, x |-> 0, y |-> 0]

\* What a frame is checked against: the registers, the memory and the height.
Mag(regs) == BitOf(regs[1], 0)
Size(regs) == IF BitOf(regs[1], 1) THEN 16 ELSE 8
MagSize(regs) == IF Mag(regs) THEN 2 * Size(regs) ELSE Size(regs)
ModeOf(regs) == SpriteModeOf(ModeBase(regs[0], regs[1]))
SpritesOn(regs) == ModeOf(regs) # 0 /\ BitOf(regs[1], 6) /\ ~BitOf(regs[8], 1)
MaxPerLine(regs) == IF ModeOf(regs) = 1 THEN 4 ELSE 8
Sentinel(regs) == IF ModeOf(regs) = 1 THEN 208 ELSE 216

\* read_table_byte: only the tables of sprite mode 2 are planar.
TableByte(regs, vram, a) ==
  IF ModeOf(regs) = 2 /\ IsPlanarBase(ModeBase(regs[0], regs[1]))
  THEN VramRead(vram, PlanarAddress(a)) ELSE VramRead(vram, a % VramSize)

AttribBase(regs) == 32 * K * regs[11] + 128 * regs[5]

\* mode2_attr_addr: the base is a mask over the last ten bits.
Mode2Address(regs, index) ==
  And17((AttribBase(regs) + 127) % VramSize, (VramSize - K) + index)

\* Byte n of sprite s's entry: Y, X and the number of the pattern.
AttribByte(regs, vram, s, n) ==
  TableByte(regs, vram, IF ModeOf(regs) = 1 THEN AttribBase(regs) + (4 * s) + n
                        ELSE Mode2Address(regs, 512 + (4 * s) + n))

\* The sprites before the one whose Y is the end mark.
SpriteEnd(regs, vram) ==
  LET ends == {s \in 0 .. 31 : AttribByte(regs, vram, s, 0) = Sentinel(regs)}
  IN  IF ends = {} THEN 32 ELSE Min(ends)

\* calculate_pattern
PatternDots(regs, vram, s, row) ==
  LET number == AttribByte(regs, vram, s, 2)
      first  == (2 * K * regs[6]) + (8 * (IF Size(regs) = 16 THEN number - (number % 4)
                                                           ELSE number)) + row
      left   == {7 - i : i \in Bits[TableByte(regs, vram, first)]}
      right  == IF Size(regs) = 16 THEN {15 - i : i \in Bits[TableByte(regs, vram, first + 16)]}
                ELSE {}
  IN  IF Mag(regs) THEN {2 * d : d \in left \cup right} \cup {2 * d + 1 : d \in left \cup right}
      ELSE left \cup right

\* The row of sprite s under a line, in dots; it is on the line if it is less
\* than MagSize.
SpriteRow(regs, vram, s, line) ==
  ((line - 1) + regs[23] - AttribByte(regs, vram, s, 0)) % 256
OnLine(regs, vram, s, line) == SpriteRow(regs, vram, s, line) < MagSize(regs)

\* A sprite as line shows it.
VisibleSprite(regs, vram, s, line) ==
  LET row  == SpriteRow(regs, vram, s, line) \div (IF Mag(regs) THEN 2 ELSE 1)
      attr == IF ModeOf(regs) = 1 THEN AttribByte(regs, vram, s, 3)
              ELSE TableByte(regs, vram, Mode2Address(regs, (16 * s) + row))
  IN  [dots |-> PatternDots(regs, vram, s, row), color |-> attr % 16,
       x |-> AttribByte(regs, vram, s, 1) - (IF BitOf(attr, 7) THEN 32 ELSE 0),
       cc |-> ModeOf(regs) = 2 /\ BitOf(attr, 6), ic |-> ModeOf(regs) = 2 /\ BitOf(attr, 5)]

-----------------------------------------------------------------------------
\* The lines of lo..hi-1 some sprite is on.
LinesTouched(regs, vram, lo, hi) ==
  UNION {{(AttribByte(regs, vram, s, 0) + 1 + k - regs[23]) % 256 : k \in 0 .. MagSize(regs) - 1}
         : s \in 0 .. SpriteEnd(regs, vram) - 1} \cap lo .. hi - 1

\* One sprite after the other: those on the line, and the first ones of them.
SpritesOf(regs, vram, line) ==
  SelectSeq([i \in 1 .. SpriteEnd(regs, vram) |-> i - 1],
            LAMBDA s : OnLine(regs, vram, s, line))
SegmentLines(regs, vram, lo, hi) ==
  [line \in LinesTouched(regs, vram, lo, hi) |->
     LET here == SpritesOf(regs, vram, line)
     IN  [i \in 1 .. Min({Len(here), MaxPerLine(regs)}) |->
            VisibleSprite(regs, vram, here[i], line)]]

\* Sprite by sprite, a line that is full before it becomes the line of the
\* first sprite too many if it is above the one found so far.
FifthSprite(regs, vram, lo, hi) ==
  LET touched == LinesTouched(regs, vram, lo, hi)
      Found(best, s) ==
        LET full == {l \in touched :
                       /\ OnLine(regs, vram, s, l)
                       /\ Cardinality({r \in 0 .. s - 1 : OnLine(regs, vram, r, l)})
                            >= MaxPerLine(regs)
                       /\ l < best.line}
        IN  IF full = {} THEN best ELSE [line |-> Min(full), number |-> s]
  IN  FoldLeft(Found, [line |-> hi, number |-> NoSprite],
               [i \in 1 .. SpriteEnd(regs, vram) |-> i - 1])

\* (a plausible bug: only IC excuses a sprite)
CollidesWithCc(regs, sprite) == (BitOf(regs[8], 5) \/ sprite.color # 0) /\ ~sprite.ic
\* A sprite has no part in a collision if it is transparent, or in mode 2 if CC
\* or IC is set.
Collides(regs, sprite) == (BitOf(regs[8], 5) \/ sprite.color # 0) /\ ~sprite.cc /\ ~sprite.ic

\* Where sprites i and j meet, in dots of the screen; 999 if they do not.
Meeting(regs, si, sj) ==
  LET dist == sj.x - si.x
      both == {d \in si.dots : d - dist \in sj.dots /\ si.x + d >= 0}
  IN  IF /\ Collides(regs, si) /\ Collides(regs, sj)
         /\ dist \in (1 - MagSize(regs)) .. (MagSize(regs) - 1) /\ both # {}
      THEN si.x + Min(both) ELSE 999

LineCollision(regs, sprites) ==
  LET n == Len(sprites)
  IN  Min({999} \cup {Meeting(regs, sprites[p[2]], sprites[p[1]]) :
                        p \in {q \in (1 .. n) \X (1 .. n) : q[1] < q[2]}})

\* The collisions of a segment, in the order of the beam.
CollisionEvents(regs, lines) ==
  LET where == [l \in DOMAIN lines |-> LineCollision(regs, lines[l])]
      hit   == SelectSeq([i \in 1 .. 211 |-> i], LAMBDA l : l \in DOMAIN lines /\ where[l] < 256)
  IN  [i \in DOMAIN hit |-> [line |-> hit[i], x |-> where[hit[i]] + 12, y |-> hit[i] + 8]]

-----------------------------------------------------------------------------
Latched(e, event) == [e EXCEPT !.collided = TRUE, !.x = event.x, !.y = event.y]

\* finalize_frame
Finalized(e, regs, vram, height) ==
  LET fifth == FifthSprite(regs, vram, 1, height)
      f == IF e.fifth THEN e
           ELSE IF fifth.number # NoSprite
                THEN [e EXCEPT !.fifth = TRUE, !.number = fifth.number]
                ELSE [e EXCEPT !.number = Min({SpriteEnd(regs, vram), 31})]
  IN  IF ~f.collided /\ f.events # <<>>
      THEN [Latched(f, f.events[1]) EXCEPT !.next = 2] ELSE f

\* recompute_frame: begin_frame and check_until the last line.  A frame without
\* sprites leaves the status and the collisions of the frame before.
AfterFrame(e, regs, vram, height) ==
  IF ~SpritesOn(regs) THEN [e EXCEPT !.lines = <<>>]
  ELSE LET lines == SegmentLines(regs, vram, 1, height)
       IN  Finalized([e EXCEPT !.lines = lines, !.events = CollisionEvents(regs, lines),
                               !.next = 1], regs, vram, height)

\* sync_collision_to_raster
AfterSync(e, beam) ==
  IF ~e.collided /\ e.next <= Len(e.events) /\ e.events[e.next].line <= beam
  THEN [Latched(e, e.events[e.next]) EXCEPT !.next = @ + 1] ELSE e

\* consume_collision_events_up_to
AfterConsumed(e, beam) ==
  [e EXCEPT !.next = Min({n \in e.next .. Len(e.events) + 1 :
                            n = Len(e.events) + 1 \/ e.events[n].line > beam})]

\* reset_status: the number stays.
AfterResetStatus(e) == [e EXCEPT !.fifth = FALSE, !.collided = FALSE]
AfterResetCollision(e) == [e EXCEPT !.x = 0, !.y = 0]
StatusBits(e) == (IF e.fifth THEN 64 ELSE 0) + (IF e.collided THEN 32 ELSE 0) + e.number
=============================================================================
