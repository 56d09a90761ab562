----------------------------- MODULE RenderSync -----------------------------
(***************************************************************************)
(* How a frame is assembled while the guest changes what is displayed:     *)
(* VdpScanlineAccumulator (src/src/devices/video/                          *)
(* vdp_scanline_accumulator.cpp), the per-frame sprite pass of the sprite  *)
(* engine, and the adapter in src/src/machine/hbf1xv_machine.cpp through   *)
(* which V9958Vdp announces a change before it makes it.                   *)
(*                                                                         *)
(* Nothing is drawn as the beam moves.  Before every write to a VDP port   *)
(* the rows the beam has passed are rendered from the state of that        *)
(* moment; the rest of the frame is rendered at the vertical sync.         *)
(*                                                                         *)
(* A picture stands for everything the two planes are drawn from: VRAM,    *)
(* registers and palette.  LN, which moves the display under the beam, is  *)
(* kept apart.  The sprite mode, which the code fixes per frame, the text  *)
(* modes, which ignore LN, and the blink phase are left out.               *)
(***************************************************************************)
EXTENDS Raster

CONSTANTS
  Displays,       \* the states of the display
  PowerOn,        \* the one after a reset
  NoSprites,      \* a sprite line that has not been filled
  NoRow,          \* a row that has not been rendered in this frame
  DestRows,       \* display lines a command's destination row may map to
  MaxCommandRows  \* bound: rows a command writes

ASSUME RenderAssumption ==
  /\ PowerOn \in Displays /\ NoSprites \notin Displays
  /\ DestRows \subseteq Int /\ MaxCommandRows \in Nat

VARIABLES
  now,           \* elapsed_cycles() - last_vsync_cycle_
  d,             \* the display: VDP, sprite engine, accumulator, adapter
  command_rows,  \* rows the running command has still to write
  entered,       \* history: the picture when the beam reached the row above
  steady,        \* history: LN did not change inside the display in this frame
  captured       \* history: a capture was taken inside the display

render_vars == <<now, d, command_rows, entered, steady, captured>>

Lines == 0 .. LinesPerFrame - 1
DisplayRow == [background : Displays, sprites : Displays \cup {NoSprites}]

Display ==
  [picture : Displays, ln212 : BOOLEAN,
   rows : [Lines -> DisplayRow \cup {NoRow}], watermark : Lines,
   completed : [Lines -> DisplayRow \cup {NoRow}], stale : BOOLEAN,
   sprite_lines : [Lines -> Displays \cup {NoSprites}], sprite_watermark : Nat,
   sprite_height : Lines, sprite_split_active : BOOLEAN,
   last_beam_commit_target : Int]

DisplayHeight(s) == ActiveLines(s.ln212)
RasterLine(s, t) == DisplayLine(t, s.ln212)
EveryRow(x) == [l \in Lines |-> x]

RenderInit ==
  /\ now = 0
  /\ d = [picture |-> PowerOn, ln212 |-> FALSE,
          rows |-> EveryRow(NoRow), watermark |-> 0,
          completed |-> EveryRow(NoRow), stale |-> FALSE,
          sprite_lines |-> EveryRow(NoSprites), sprite_watermark |-> 1,
          sprite_height |-> 0, sprite_split_active |-> FALSE,
          last_beam_commit_target |-> -1]
  /\ command_rows = 0
  /\ entered = EveryRow(PowerOn)
  /\ steady = TRUE
  /\ captured = FALSE

-----------------------------------------------------------------------------
(***************************************************************************)
(* The sprite plane.  Line 0 never has sprites, and a line outside the     *)
(* height the pass was begun with has none either.                         *)
(***************************************************************************)
\* begin_frame
BeginFrame(s) ==
  [s EXCEPT !.sprite_lines = EveryRow(NoSprites), !.sprite_watermark = 1,
            !.sprite_height = DisplayHeight(s)]

\* check_until_visible_only(end - 1)
\* Mutant: the lines are checked up to the one before the last.
ShortCheckSprites(s, end) ==
  LET last == IF end - 1 > s.sprite_height THEN s.sprite_height ELSE end - 1
  IN  IF last <= s.sprite_watermark THEN s
      ELSE [s EXCEPT !.sprite_lines =
                       [l \in Lines |-> IF s.sprite_watermark <= l /\ l < last
                                        THEN s.picture ELSE @[l]],
                     !.sprite_watermark = last]

CheckSprites(s, end) ==
  LET last == IF end > s.sprite_height THEN s.sprite_height ELSE end
  IN  IF last <= s.sprite_watermark THEN s
      ELSE [s EXCEPT !.sprite_lines =
                       [l \in Lines |-> IF s.sprite_watermark <= l /\ l < last
                                        THEN s.picture ELSE @[l]],
                     !.sprite_watermark = last]

\* commit_sprite_split: the pass of a frame begins with its first write.
CommitSpriteSplit(s, target, wrap) ==
  CheckSprites(IF s.sprite_split_active /\ ~wrap THEN s
               ELSE [BeginFrame(s) EXCEPT !.sprite_split_active = TRUE], target)

\* commit_sprite_rows
CommitSpriteRows(s, target) ==
  IF s.sprite_split_active THEN CheckSprites(s, target) ELSE s

-----------------------------------------------------------------------------
(***************************************************************************)
(* The accumulator.                                                        *)
(***************************************************************************)
RenderLine(s, l) == [background |-> s.picture, sprites |-> s.sprite_lines[l]]

CommitRows(s, end) ==
  [s EXCEPT !.rows = [l \in Lines |-> IF s.watermark <= l /\ l < end
                                      THEN RenderLine(s, l) ELSE @[l]],
            !.watermark = end]

\* compose: the committed rows, and a projection of the others.
Compose(s) ==
  [l \in Lines |-> CASE l >= DisplayHeight(s)   -> NoRow
                     [] l < s.watermark  -> s.rows[l]
                     [] OTHER            -> RenderLine(s, l)]

\* Mutant: the next frame starts where this one ended.
KeepingFinalize(s) ==
  LET full == IF s.watermark < DisplayHeight(s) THEN CommitRows(s, DisplayHeight(s)) ELSE s
  IN  [full EXCEPT !.completed = Compose(full), !.stale = FALSE]

Finalize(s) ==
  LET full == IF s.watermark < DisplayHeight(s) THEN CommitRows(s, DisplayHeight(s)) ELSE s
  IN  [full EXCEPT !.completed = Compose(full), !.stale = FALSE,
                   !.rows = EveryRow(NoRow), !.watermark = 0]

\* sync_to_line clamps the line to the display.
ClampedEnd(s, line) == IF line < 0 THEN 0 ELSE IF line > DisplayHeight(s) THEN DisplayHeight(s) ELSE line

\* sync_to_line: a line above the watermark can only be the next frame's.
SyncToLine(s, line) ==
  LET end  == ClampedEnd(s, line)
      base == IF 0 < end /\ end < s.watermark THEN Finalize(s) ELSE s
  IN  IF end <= base.watermark THEN base ELSE CommitRows(base, end)

-----------------------------------------------------------------------------
(***************************************************************************)
(* VdpRenderSyncAdapter, outside the debug port.                           *)
(***************************************************************************)
\* The rows that keep the state before a write on line l end here.
\* Mutant: one line earlier, the boundary before the left margin was counted.
EarlyCommitEnd(l) == l + 1
CommitEnd(l) == l + 2

\* on_before_state_change
BeforeStateChange(s, t) ==
  LET target == CommitEnd(RasterLine(s, t))
      wrap   == target < s.last_beam_commit_target
      split  == CommitSpriteSplit([s EXCEPT !.stale = TRUE], target, wrap)
      synced == IF wrap \/ target > split.watermark THEN SyncToLine(split, target) ELSE split
  IN  IF RasterLine(s, t) < 0 THEN [s EXCEPT !.stale = TRUE]
      ELSE [synced EXCEPT !.last_beam_commit_target = target]

\* on_commit_up_to
\* Mutant: the rows ahead of the beam are committed with the row's.
UnboundedCommitUpTo(s, t, line) ==
  LET marked == [s EXCEPT !.stale = TRUE]
  IN  IF RasterLine(s, t) < 0 \/ line <= s.watermark THEN marked
      ELSE SyncToLine(CommitSpriteRows(marked, line), line)

CommitUpTo(s, t, line) ==
  LET marked == [s EXCEPT !.stale = TRUE]
      limit  == CommitEnd(RasterLine(s, t))
      target == IF line < limit THEN line ELSE limit
  IN  IF RasterLine(s, t) < 0 \/ target <= s.watermark THEN marked
      ELSE SyncToLine(CommitSpriteRows(marked, target), target)

-----------------------------------------------------------------------------
InDisplay(s, t) == RasterLine(s, t) >= 0

\* The beam moves on.  Row 0 is decided when the beam enters it, every other
\* row when the beam enters the row above it.
MoveBeam ==
  /\ now < FrameCycles /\ command_rows = 0
  /\ now' = now + 1
  /\ entered' = LET l == RasterLine(d, now')
                IN  IF l < 0 \/ l = RasterLine(d, now) THEN entered
                    ELSE [r \in Lines |-> IF r = l + 1 \/ (l = 0 /\ r = 0)
                                          THEN d.picture ELSE entered[r]]
  /\ UNCHANGED <<d, command_rows, steady, captured>>

\* io_write of a byte that changes the picture, LN, or nothing displayed.
WritePort ==
  /\ now < FrameCycles /\ command_rows = 0
  /\ \E p \in Displays, ln \in BOOLEAN :
       /\ d' = [BeforeStateChange(d, now) EXCEPT !.picture = p, !.ln212 = ln]
       /\ steady' = (steady /\ (ln = d.ln212 \/ ~(InDisplay(d, now) \/ InDisplay(d', now))))
  /\ UNCHANGED <<now, command_rows, entered, captured>>

\* io_write of the byte that starts a command (R#46) or feeds it (R#44).
WriteCommandRegister ==
  /\ now < FrameCycles /\ command_rows = 0
  /\ command_rows' \in 1 .. MaxCommandRows
  /\ d' = BeforeStateChange(d, now)
  /\ UNCHANGED <<now, entered, steady, captured>>

\* Within the same call the command announces each destination row, if it is
\* on a displayed page of a bitmap mode and the beam is in the display, and
\* then writes it.
WriteCommandRow ==
  /\ command_rows > 0
  /\ \E line \in DestRows, displayed \in BOOLEAN, p \in Displays :
       d' = [IF displayed /\ InDisplay(d, now) THEN CommitUpTo(d, now, line) ELSE d
               EXCEPT !.picture = p]
  /\ command_rows' = command_rows - 1
  /\ UNCHANGED <<now, entered, steady, captured>>

\* render_frame commits the rows the beam has passed, as far as this frame
\* has been drawn, before it composes its picture.
AfterRenderFrame(s, t) ==
  IF RasterLine(s, t) >= 0
  THEN SyncToLine(CommitSpriteRows(s, RasterLine(s, t) + 1), RasterLine(s, t) + 1)
  ELSE IF s.watermark > 0 THEN SyncToLine(CommitSpriteRows(s, DisplayHeight(s)), DisplayHeight(s))
  ELSE s

RenderFrame ==
  /\ now < FrameCycles /\ command_rows = 0
  /\ d' = AfterRenderFrame(d, now)
  /\ captured' = (captured \/ InDisplay(d, now))
  /\ UNCHANGED <<now, command_rows, entered, steady>>

\* on_vsync computes the sprites of the whole frame again, and the
\* accumulator completes the frame.
RecomputeFrame(s) ==
  [CheckSprites(BeginFrame(s), DisplayHeight(s)) EXCEPT !.sprite_split_active = FALSE]

VsyncBoundary ==
  /\ now >= FrameCycles /\ command_rows = 0
  /\ now' = 0
  /\ d' = Finalize(RecomputeFrame(d))
  /\ entered' = EveryRow(PowerOn)
  /\ steady' = TRUE
  /\ captured' = FALSE
  /\ UNCHANGED command_rows

\* cold_boot between two frames; the adapter keeps its last target.
ColdBoot ==
  /\ now = 0 /\ command_rows = 0
  /\ d' = [d EXCEPT !.picture = PowerOn, !.ln212 = FALSE,
                    !.sprite_lines = EveryRow(NoSprites), !.sprite_watermark = 1,
                    !.sprite_height = 0, !.sprite_split_active = FALSE,
                    !.rows = EveryRow(NoRow), !.watermark = 0,
                    !.completed = EveryRow(NoRow), !.stale = FALSE]
  /\ UNCHANGED <<now, command_rows, entered, steady, captured>>

RenderNext ==
  \/ MoveBeam \/ WritePort \/ WriteCommandRegister \/ WriteCommandRow
  \/ RenderFrame \/ VsyncBoundary \/ ColdBoot

RenderSpec == RenderInit /\ [][RenderNext]_render_vars

-----------------------------------------------------------------------------
RenderTypeOK ==
  /\ now \in 0 .. FrameCycles
  /\ d \in Display
  /\ command_rows \in 0 .. MaxCommandRows
  /\ entered \in [Lines -> Displays]
  /\ steady \in BOOLEAN /\ captured \in BOOLEAN

\* Every row of a finished frame shows what was there when the beam reached
\* the row above it, however many writes and commands came in the frame and
\* wherever they came.
RowsAsScanned ==
  [][ (VsyncBoundary /\ steady /\ ~captured) =>
        \A l \in 0 .. DisplayHeight(d) - 1 : d'.completed[l].background = entered[l] ]_render_vars

\* The sprites of every row come from the same moment as its background.
SpritesMatchRow ==
  [][ (VsyncBoundary /\ steady /\ ~captured) =>
        \A l \in 1 .. DisplayHeight(d) - 1 :
          d'.completed[l].sprites = d'.completed[l].background ]_render_vars

\* A frame is sealed by the vertical sync only, never in the middle, although
\* the adapter remembers the last line of an earlier frame.
SealedAtVsyncOnly ==
  [][ (d'.completed # d.completed /\ steady' /\ ~captured')
      => (VsyncBoundary \/ ColdBoot) ]_render_vars

\* The rows a command announces are never committed by the announcement: the
\* write that started the command has already committed all that may be.
CommandSinkInert ==
  [][ command_rows > 0 =>
        d' = [d EXCEPT !.picture = d'.picture, !.stale = d'.stale] ]_render_vars

-----------------------------------------------------------------------------
(***************************************************************************)
(* What the header promises of render_frame in the middle of a frame and   *)
(* the code does not do: a capture on the line of the last write asks for  *)
(* fewer rows than are committed, which seals the frame.                   *)
(***************************************************************************)
\* It returns the rows accumulated so far.
CaptureKeepsAccumulation ==
  (InDisplay(d, now) /\ steady /\ command_rows = 0) =>
    \A l \in 0 .. d.watermark - 1 : Compose(AfterRenderFrame(d, now))[l] = d.rows[l]
=============================================================================
