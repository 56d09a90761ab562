-------------------------- MODULE RenderSyncProofs --------------------------
(***************************************************************************)
(* Proofs about RenderSync, for every geometry of the raster and every     *)
(* program: the state is well typed, the commit a command asks for before  *)
(* each of its rows never commits anything, and the frame the vertical     *)
(* sync seals shows in every row, background and sprites, what was there   *)
(* when the beam reached the row above it.                                 *)
(*                                                                         *)
(* The second needs an invariant of the rows a running command has still   *)
(* to write: both planes have been committed as far as the beam allows     *)
(* (Committed), which the write that started the command established.      *)
(*                                                                         *)
(* The last needs an invariant of the rows committed so far (Scanned): the *)
(* sprite pass stands exactly where the background does, no further than   *)
(* the beam lets it, the rows above it show what the beam saw, and the     *)
(* rows the beam has decided below it are still those of the picture.      *)
(***************************************************************************)
EXTENDS RenderSync, TLAPS

USE RenderAssumption, RasterAssumption

-----------------------------------------------------------------------------
(***************************************************************************)
(* The raster.                                                             *)
(***************************************************************************)
\* A display is never empty and fits the frame (the border registers).
LEMMA HeightInLines ==
  ASSUME NEW s \in Display
  PROVE  DisplayHeight(s) \in Lines /\ DisplayHeight(s) \in 1 .. LinesPerFrame - 1
BY DEF DisplayHeight, ActiveLines, BorderLines, Lines, Display

\* The beam is never below the display (raster_display_line).
LEMMA RasterInDisplay ==
  ASSUME NEW s \in Display, NEW t \in Nat
  PROVE  RasterLine(s, t) \in Int /\ RasterLine(s, t) < DisplayHeight(s)
<1>1. t \div CyclesPerLine \in Nat
  BY DEF Display
<1>2. (t \div CyclesPerLine) % LinesPerFrame \in 0 .. LinesPerFrame - 1
  BY <1>1
<1> QED
  BY <1>2 DEF RasterLine, DisplayLine, DisplayHeight, ActiveLines, BorderLines, Display

\* FrameCycles is a natural number.
LEMMA FrameNat == FrameCycles \in Nat
BY DEF FrameCycles

-----------------------------------------------------------------------------
(***************************************************************************)
(* The operators keep the type and say how far the planes are committed.   *)
(***************************************************************************)
\* begin_frame keeps everything but the sprite plane.
LEMMA BeginFrameType ==
  ASSUME NEW s \in Display
  PROVE  /\ BeginFrame(s) \in Display
         /\ BeginFrame(s).watermark = s.watermark
         /\ BeginFrame(s).ln212 = s.ln212
BY HeightInLines DEF BeginFrame, Display, EveryRow

\* check_until_visible_only reaches the line it is asked for, or the height.
LEMMA CheckSpritesType ==
  ASSUME NEW s \in Display, NEW end \in Int
  PROVE  /\ CheckSprites(s, end) \in Display
         /\ CheckSprites(s, end).watermark = s.watermark
         /\ CheckSprites(s, end).ln212 = s.ln212
         /\ CheckSprites(s, end).sprite_height = s.sprite_height
         /\ \/ CheckSprites(s, end).sprite_watermark >= end
            \/ CheckSprites(s, end).sprite_watermark >= s.sprite_height
<1> DEFINE last == IF end > s.sprite_height THEN s.sprite_height ELSE end
<1>1. last \in Int /\ s.sprite_watermark \in Nat /\ s.sprite_height \in Nat
  BY DEF Display, Lines
<1>2. CASE last <= s.sprite_watermark
  BY <1>1, <1>2 DEF CheckSprites
<1>3. CASE ~(last <= s.sprite_watermark)
  <2> DEFINE lines == [l \in Lines |-> IF s.sprite_watermark <= l /\ l < last
                                       THEN s.picture ELSE s.sprite_lines[l]]
  <2>1. CheckSprites(s, end) = [s EXCEPT !.sprite_lines = lines, !.sprite_watermark = last]
    BY <1>3 DEF CheckSprites
  <2>2. lines \in [Lines -> Displays \cup {NoSprites}] /\ last \in Nat
    BY <1>1, <1>3 DEF Display
  <2> QED
    <3> HIDE DEF lines, last
    <3>1. CheckSprites(s, end) \in Display
      BY <2>1, <2>2 DEF Display
    <3>2. /\ CheckSprites(s, end).watermark = s.watermark
          /\ CheckSprites(s, end).ln212 = s.ln212
          /\ CheckSprites(s, end).sprite_height = s.sprite_height
          /\ CheckSprites(s, end).sprite_watermark = last
      BY <2>1, <2>2 DEF Display
    <3>3. last >= end \/ last >= s.sprite_height
      BY <1>1 DEF last
    <3> QED
      BY <3>1, <3>2, <3>3
<1> QED
  BY <1>2, <1>3

\* commit_sprite_split does the same, and keeps the background.
LEMMA CommitSpriteSplitType ==
  ASSUME NEW s \in Display, NEW target \in Int, NEW wrap \in BOOLEAN
  PROVE  LET r == CommitSpriteSplit(s, target, wrap)
         IN  /\ r \in Display
             /\ r.watermark = s.watermark /\ r.ln212 = s.ln212
             /\ r.sprite_watermark >= target \/ r.sprite_watermark >= r.sprite_height
<1> DEFINE b == IF s.sprite_split_active /\ ~wrap THEN s
                ELSE [BeginFrame(s) EXCEPT !.sprite_split_active = TRUE]
<1>1. b \in Display /\ b.watermark = s.watermark /\ b.ln212 = s.ln212
  <2> DEFINE f == BeginFrame(s)
  <2>1. f \in Display /\ f.watermark = s.watermark /\ f.ln212 = s.ln212
    BY BeginFrameType
  <2> HIDE DEF f
  <2>2. LET g == [f EXCEPT !.sprite_split_active = TRUE]
        IN  g \in Display /\ g.watermark = s.watermark /\ g.ln212 = s.ln212
    BY <2>1 DEF Display
  <2> QED
    BY <2>2 DEF f
<1> HIDE DEF b
<1>2. CommitSpriteSplit(s, target, wrap) = CheckSprites(b, target)
  BY DEF CommitSpriteSplit, b
<1> QED
  BY <1>1, <1>2, CheckSpritesType

\* commit_sprite_rows keeps the background.
LEMMA CommitSpriteRowsType ==
  ASSUME NEW s \in Display, NEW target \in Int
  PROVE  LET r == CommitSpriteRows(s, target)
         IN  r \in Display /\ r.watermark = s.watermark /\ r.ln212 = s.ln212
BY CheckSpritesType DEF CommitSpriteRows

\* A rendered row has its type (render_line).
LEMMA RenderLineType ==
  ASSUME NEW s \in Display, NEW l \in Lines
  PROVE  RenderLine(s, l) \in DisplayRow
BY DEF RenderLine, DisplayRow, Display

\* The rows of a commit keep their type and nothing else changes.
LEMMA CommitRowsType ==
  ASSUME NEW s \in Display, NEW end \in Lines
  PROVE  /\ CommitRows(s, end) \in Display
         /\ CommitRows(s, end).watermark = end
         /\ CommitRows(s, end).ln212 = s.ln212
         /\ CommitRows(s, end).sprite_watermark = s.sprite_watermark
         /\ CommitRows(s, end).sprite_height = s.sprite_height
<1> DEFINE committed == [l \in Lines |-> IF s.watermark <= l /\ l < end
                                         THEN RenderLine(s, l) ELSE s.rows[l]]
<1>1. committed \in [Lines -> DisplayRow \cup {NoRow}]
  BY RenderLineType DEF Display
<1>2. CommitRows(s, end) = [s EXCEPT !.rows = committed, !.watermark = end]
  BY DEF CommitRows
<1> QED
  BY <1>1, <1>2 DEF Display

\* finalize starts the next frame at row 0.
LEMMA FinalizeType ==
  ASSUME NEW s \in Display
  PROVE  /\ Finalize(s) \in Display
         /\ Finalize(s).watermark = 0
         /\ Finalize(s).ln212 = s.ln212
         /\ Finalize(s).sprite_watermark = s.sprite_watermark
         /\ Finalize(s).sprite_height = s.sprite_height
<1> DEFINE full == IF s.watermark < DisplayHeight(s) THEN CommitRows(s, DisplayHeight(s)) ELSE s
<1>1. /\ full \in Display /\ full.ln212 = s.ln212
      /\ full.sprite_watermark = s.sprite_watermark
      /\ full.sprite_height = s.sprite_height
  BY CommitRowsType, HeightInLines
<1>2. Compose(full) \in [Lines -> DisplayRow \cup {NoRow}]
  BY <1>1, RenderLineType DEF Compose, Display
<1>3. 0 \in Lines /\ EveryRow(NoRow) \in [Lines -> DisplayRow \cup {NoRow}]
  BY DEF Lines, EveryRow
<1>4. Finalize(s) = [full EXCEPT !.completed = Compose(full), !.stale = FALSE,
                                 !.rows = EveryRow(NoRow), !.watermark = 0]
  BY DEF Finalize
<1> HIDE DEF full
<1> QED
  BY <1>1, <1>2, <1>3, <1>4 DEF Display

\* The line sync_to_line works with is a line of the display.
LEMMA ClampedEndType ==
  ASSUME NEW s \in Display, NEW line \in Int
  PROVE  ClampedEnd(s, line) \in Lines
BY HeightInLines DEF ClampedEnd, Lines

\* sync_to_line leaves the rows above the line committed.
LEMMA SyncToLineType ==
  ASSUME NEW s \in Display, NEW line \in Int
  PROVE  /\ SyncToLine(s, line) \in Display
         /\ SyncToLine(s, line).ln212 = s.ln212
         /\ SyncToLine(s, line).watermark >= ClampedEnd(s, line)
         /\ SyncToLine(s, line).sprite_watermark = s.sprite_watermark
         /\ SyncToLine(s, line).sprite_height = s.sprite_height
<1> DEFINE end == ClampedEnd(s, line)
           base == IF 0 < end /\ end < s.watermark THEN Finalize(s) ELSE s
<1>1. end \in Lines
  BY ClampedEndType
<1>2. /\ base \in Display /\ base.ln212 = s.ln212
      /\ base.sprite_watermark = s.sprite_watermark
      /\ base.sprite_height = s.sprite_height
  BY FinalizeType
<1>3. SyncToLine(s, line) = IF end <= base.watermark THEN base ELSE CommitRows(base, end)
  BY DEF SyncToLine
<1>4. base.watermark \in Lines
  BY <1>2 DEF Display
<1> HIDE DEF end, base
<1>5. SyncToLine(s, line).watermark >= end
  BY <1>1, <1>2, <1>3, <1>4, CommitRowsType DEF Lines
<1> QED
  BY <1>1, <1>2, <1>3, <1>5, CommitRowsType DEF end

-----------------------------------------------------------------------------
(***************************************************************************)
(* The adapter.                                                            *)
(***************************************************************************)
\* Both planes are committed as far as the beam at t allows.
Committed(s, t) ==
  RasterLine(s, t) >= 0 =>
    LET limit == CommitEnd(RasterLine(s, t))
    IN  /\ s.watermark >= ClampedEnd(s, limit)
        /\ s.sprite_watermark >= limit \/ s.sprite_watermark >= s.sprite_height

\* on_before_state_change leaves both planes committed up to the beam.
LEMMA BeforeStateChangeType ==
  ASSUME NEW s \in Display, NEW t \in Nat
  PROVE  /\ BeforeStateChange(s, t) \in Display
         /\ BeforeStateChange(s, t).ln212 = s.ln212
         /\ Committed(BeforeStateChange(s, t), t)
<1> DEFINE target == CommitEnd(RasterLine(s, t))
           wrap   == target < s.last_beam_commit_target
           marked == [s EXCEPT !.stale = TRUE]
           split  == CommitSpriteSplit(marked, target, wrap)
           synced == IF wrap \/ target > split.watermark THEN SyncToLine(split, target)
                     ELSE split
<1>1. RasterLine(s, t) \in Int /\ target \in Int
  BY RasterInDisplay DEF CommitEnd
<1>2. marked \in Display /\ marked.ln212 = s.ln212
  BY DEF Display
<1>3. CASE RasterLine(s, t) < 0
  BY <1>1, <1>2, <1>3 DEF BeforeStateChange, Committed, RasterLine
<1>4. CASE ~(RasterLine(s, t) < 0)
  <2>1. BeforeStateChange(s, t) = [synced EXCEPT !.last_beam_commit_target = target]
    BY <1>4 DEF BeforeStateChange
  <2>2. wrap \in BOOLEAN
    OBVIOUS
  <2> HIDE DEF target, wrap, marked
  <2>3. /\ split \in Display /\ split.ln212 = s.ln212
        /\ split.sprite_watermark >= target \/ split.sprite_watermark >= split.sprite_height
    BY <1>1, <1>2, <2>2, CommitSpriteSplitType
  <2>4. ClampedEnd(split, target) <= target \/ ClampedEnd(split, target) = 0
    BY <1>1, <2>3, HeightInLines DEF ClampedEnd
  <2>5. split.watermark \in Nat
    BY <2>3 DEF Display, Lines
  <2>6. ClampedEnd(split, target) \in Nat
    BY <1>1, <2>3, ClampedEndType DEF Lines
  <2> HIDE DEF split
  <2>7. /\ synced \in Display /\ synced.ln212 = s.ln212
        /\ synced.watermark >= ClampedEnd(split, target)
        /\ synced.sprite_watermark = split.sprite_watermark
        /\ synced.sprite_height = split.sprite_height
    <3>1. CASE wrap \/ target > split.watermark
      BY <1>1, <2>3, <3>1, SyncToLineType
    <3>2. CASE ~(wrap \/ target > split.watermark)
      <4>1. synced = split /\ split.watermark >= ClampedEnd(split, target)
        BY <1>1, <2>4, <2>5, <2>6, <3>2
      <4> QED
        BY <2>3, <4>1
    <3> QED
      BY <3>1, <3>2
  <2> HIDE DEF synced
  <2> DEFINE r == BeforeStateChange(s, t)
  <2>8. /\ r \in Display /\ r.ln212 = s.ln212 /\ r.watermark = synced.watermark
        /\ r.sprite_watermark = split.sprite_watermark
        /\ r.sprite_height = split.sprite_height
    BY <1>1, <2>1, <2>7 DEF Display
  <2>9. RasterLine(r, t) = RasterLine(s, t) /\ ClampedEnd(r, target) = ClampedEnd(split, target)
    BY <2>3, <2>8 DEF RasterLine, ClampedEnd, DisplayHeight
  <2> QED
    BY <2>3, <2>7, <2>8, <2>9 DEF Committed, target
<1> QED
  BY <1>1, <1>3, <1>4

\* on_commit_up_to commits nothing when the planes are committed already.
LEMMA CommitUpToInert ==
  ASSUME NEW s \in Display, NEW t \in Nat, NEW line \in Int, Committed(s, t)
  PROVE  CommitUpTo(s, t, line) = [s EXCEPT !.stale = TRUE]
<1> DEFINE marked == [s EXCEPT !.stale = TRUE]
           limit  == CommitEnd(RasterLine(s, t))
           target == IF line < limit THEN line ELSE limit
<1>1. /\ RasterLine(s, t) \in Int /\ RasterLine(s, t) < DisplayHeight(s)
      /\ limit = RasterLine(s, t) + 2
  BY RasterInDisplay DEF CommitEnd
<1>2. CASE RasterLine(s, t) < 0 \/ target <= s.watermark
  BY <1>2 DEF CommitUpTo
<1>3. CASE ~(RasterLine(s, t) < 0 \/ target <= s.watermark)
  <2>1. CommitUpTo(s, t, line) = SyncToLine(CommitSpriteRows(marked, target), target)
    BY <1>3 DEF CommitUpTo
  <2>2. /\ marked \in Display /\ marked.ln212 = s.ln212
        /\ marked.watermark = s.watermark
        /\ marked.sprite_watermark = s.sprite_watermark
        /\ marked.sprite_height = s.sprite_height
    BY DEF Display
  <2>3. s.watermark \in Nat /\ s.sprite_watermark \in Nat /\ s.sprite_height \in Nat
    BY DEF Display, Lines
  <2>4. DisplayHeight(s) \in Nat /\ DisplayHeight(marked) = DisplayHeight(s)
    BY <2>2, HeightInLines DEF DisplayHeight
  <2>5. /\ s.watermark >= ClampedEnd(s, limit)
        /\ s.sprite_watermark >= limit \/ s.sprite_watermark >= s.sprite_height
    BY <1>1, <1>3 DEF Committed
  <2> HIDE DEF marked
  <2>6. target \in Int /\ target <= limit /\ target > s.watermark
    BY <1>1, <1>3, <2>3
  <2>7. s.watermark = DisplayHeight(s) /\ target > DisplayHeight(s)
    BY <1>1, <1>3, <2>3, <2>4, <2>5, <2>6 DEF ClampedEnd
  <2> HIDE DEF target, limit
  <2>8. CommitSpriteRows(marked, target) = marked
    BY <2>2, <2>3, <2>5, <2>6, <1>1 DEF CommitSpriteRows, CheckSprites
  <2>9. ClampedEnd(marked, target) = DisplayHeight(s)
    BY <2>4, <2>6, <2>7 DEF ClampedEnd
  <2>10. SyncToLine(marked, target) = marked
    BY <2>2, <2>3, <2>4, <2>7, <2>9 DEF SyncToLine
  <2> QED
    BY <2>1, <2>8, <2>10 DEF marked
<1> QED
  BY <1>2, <1>3

-----------------------------------------------------------------------------
(***************************************************************************)
(* The invariant.                                                          *)
(***************************************************************************)
CommandCommitted == command_rows > 0 => Committed(d, now)

IInv == RenderTypeOK /\ CommandCommitted

\* The first frame starts typed and without a command.
LEMMA InitIInv == RenderInit => IInv
<1> SUFFICES ASSUME RenderInit PROVE IInv
  OBVIOUS
<1>1. 0 \in Lines /\ FrameCycles \in Nat
  BY FrameNat DEF Lines
<1>2. /\ EveryRow(NoRow) \in [Lines -> DisplayRow \cup {NoRow}]
      /\ EveryRow(NoSprites) \in [Lines -> Displays \cup {NoSprites}]
      /\ EveryRow(PowerOn) \in [Lines -> Displays]
  BY DEF EveryRow
<1>3. d \in Display
  BY <1>1, <1>2 DEF RenderInit, Display
<1>4. now \in 0 .. FrameCycles /\ command_rows \in 0 .. MaxCommandRows
  BY <1>1 DEF RenderInit
<1>5. steady \in BOOLEAN /\ captured \in BOOLEAN /\ entered \in [Lines -> Displays]
  BY <1>2 DEF RenderInit
<1>6. CommandCommitted
  BY DEF RenderInit, CommandCommitted
<1> QED
  BY <1>3, <1>4, <1>5, <1>6 DEF IInv, RenderTypeOK

\* A change of the flags of a display that no plane is drawn from.
LEMMA PictureType ==
  ASSUME NEW s \in Display, NEW p \in Displays, NEW ln \in BOOLEAN
  PROVE  [s EXCEPT !.picture = p] \in Display /\ [s EXCEPT !.picture = p, !.ln212 = ln] \in Display
BY DEF Display

\* The announcement and the row leave both planes as they are.
LEMMA RowInert ==
  ASSUME IInv, WriteCommandRow
  PROVE  /\ d' \in Display
         /\ d' = [d EXCEPT !.picture = d'.picture, !.stale = d'.stale]
         /\ Committed(d', now)
<1>1. d \in Display /\ now \in Nat /\ Committed(d, now)
  BY FrameNat DEF IInv, RenderTypeOK, CommandCommitted, WriteCommandRow
<1>2. PICK line \in DestRows, displayed \in BOOLEAN, p \in Displays :
        d' = [IF displayed /\ InDisplay(d, now) THEN CommitUpTo(d, now, line) ELSE d
                EXCEPT !.picture = p]
  BY DEF WriteCommandRow
<1>3. CommitUpTo(d, now, line) = [d EXCEPT !.stale = TRUE]
  BY <1>1, CommitUpToInert
<1>4. \/ d' = [d EXCEPT !.picture = p, !.stale = TRUE]
      \/ d' = [d EXCEPT !.picture = p]
  BY <1>1, <1>2, <1>3 DEF Display
<1>5. d' \in Display /\ d' = [d EXCEPT !.picture = d'.picture, !.stale = d'.stale]
  BY <1>1, <1>4 DEF Display
<1>6. /\ d'.ln212 = d.ln212 /\ d'.watermark = d.watermark
      /\ d'.sprite_watermark = d.sprite_watermark
      /\ d'.sprite_height = d.sprite_height
  BY <1>1, <1>4 DEF Display
<1> QED
  BY <1>1, <1>5, <1>6 DEF Committed, RasterLine, ClampedEnd, DisplayHeight

\* Every step keeps the invariant.
LEMMA StepIInv == IInv /\ [RenderNext]_render_vars => IInv'
<1> SUFFICES ASSUME IInv, [RenderNext]_render_vars PROVE IInv'
  OBVIOUS
<1>0. /\ RenderTypeOK /\ d \in Display /\ now \in Nat /\ FrameCycles \in Nat /\ 0 \in Lines
      /\ command_rows \in Nat /\ MaxCommandRows \in Nat
  BY FrameNat DEF IInv, RenderTypeOK, Lines
<1>1. CASE MoveBeam
  <2>1. entered' \in [Lines -> Displays]
    BY <1>0, <1>1 DEF MoveBeam, RenderTypeOK, Display
  <2> QED
    BY <1>0, <1>1, <2>1 DEF MoveBeam, IInv, RenderTypeOK, CommandCommitted
<1>2. CASE WritePort
  <2>1. PICK p \in Displays, ln \in BOOLEAN :
          /\ d' = [BeforeStateChange(d, now) EXCEPT !.picture = p, !.ln212 = ln]
          /\ steady' = (steady /\ (ln = d.ln212 \/ ~(InDisplay(d, now) \/ InDisplay(d', now))))
    BY <1>2 DEF WritePort
  <2>2. d' \in Display
    BY <1>0, <2>1, BeforeStateChangeType, PictureType
  <2>3. steady' \in BOOLEAN
    BY <1>0, <2>1 DEF RenderTypeOK
  <2> QED
    BY <1>0, <1>2, <2>2, <2>3 DEF WritePort, IInv, RenderTypeOK, CommandCommitted
<1>3. CASE WriteCommandRegister
  <2>1. d' \in Display /\ Committed(d', now)
    BY <1>0, <1>3, BeforeStateChangeType DEF WriteCommandRegister
  <2> QED
    BY <1>0, <1>3, <2>1 DEF WriteCommandRegister, IInv, RenderTypeOK, CommandCommitted, Committed, RasterLine
<1>4. CASE WriteCommandRow
  <2>1. d' \in Display /\ Committed(d', now) /\ now' = now
    BY <1>4, RowInert DEF WriteCommandRow
  <2> QED
    BY <1>0, <1>4, <2>1 DEF WriteCommandRow, IInv, RenderTypeOK, CommandCommitted, Committed, RasterLine
<1>5. CASE RenderFrame
  <2> DEFINE below == RasterLine(d, now) + 1
  <2>1. below \in Int /\ DisplayHeight(d) \in Int
    BY <1>0, RasterInDisplay, HeightInLines
  <2>2. CommitSpriteRows(d, below) \in Display /\ CommitSpriteRows(d, DisplayHeight(d)) \in Display
    BY <1>0, <2>1, CommitSpriteRowsType
  <2>3. d' \in Display
    BY <1>0, <1>5, <2>1, <2>2, SyncToLineType DEF RenderFrame, AfterRenderFrame
  <2>4. captured' \in BOOLEAN
    BY <1>0, <1>5 DEF RenderFrame, InDisplay, RenderTypeOK
  <2> QED
    BY <1>0, <1>5, <2>3, <2>4 DEF RenderFrame, IInv, RenderTypeOK, CommandCommitted
<1>6. CASE VsyncBoundary
  <2>1. RecomputeFrame(d) \in Display
    <3>1. BeginFrame(d) \in Display /\ DisplayHeight(d) \in Int
      BY <1>0, BeginFrameType, HeightInLines
    <3>2. CheckSprites(BeginFrame(d), DisplayHeight(d)) \in Display
      BY <3>1, CheckSpritesType
    <3> QED
      BY <3>2 DEF RecomputeFrame, Display
  <2>2. d' \in Display
    BY <1>6, <2>1, FinalizeType DEF VsyncBoundary
  <2>3. entered' \in [Lines -> Displays]
    BY <1>6 DEF VsyncBoundary, EveryRow
  <2>4. now' \in 0 .. FrameCycles /\ command_rows' = 0
    BY <1>0, <1>6 DEF VsyncBoundary
  <2>5. steady' \in BOOLEAN /\ captured' \in BOOLEAN
    BY <1>6 DEF VsyncBoundary
  <2> QED
    BY <1>0, <2>2, <2>3, <2>4, <2>5 DEF IInv, RenderTypeOK, CommandCommitted
<1>7. CASE ColdBoot
  <2>1. /\ EveryRow(NoRow) \in [Lines -> DisplayRow \cup {NoRow}]
        /\ EveryRow(NoSprites) \in [Lines -> Displays \cup {NoSprites}]
    BY DEF EveryRow
  <2>2. d' \in Display
    BY <1>0, <1>7, <2>1 DEF ColdBoot, Display
  <2> QED
    BY <1>0, <1>7, <2>2 DEF ColdBoot, IInv, RenderTypeOK, CommandCommitted
<1>8. CASE UNCHANGED render_vars
  BY <1>8 DEF render_vars, IInv, RenderTypeOK, CommandCommitted, Committed, RasterLine
<1> QED
  BY <1>1, <1>2, <1>3, <1>4, <1>5, <1>6, <1>7, <1>8 DEF RenderNext

-----------------------------------------------------------------------------
\* The invariant holds in every reachable state.
LEMMA Invariance == RenderSpec => []IInv
BY InitIInv, StepIInv, PTL DEF RenderSpec

\* Every state of the frame assembly has its type: no watermark, row or
\* sprite line ever lies outside the buffers, whatever LN does meanwhile.
THEOREM TypeCorrect == RenderSpec => []RenderTypeOK
<1>1. IInv => RenderTypeOK
  BY DEF IInv
<1> QED
  BY <1>1, Invariance, PTL

\* The commit a command asks for before each of its destination rows commits
\* nothing: the port write that drives the command has done it.
THEOREM SinkInert == RenderSpec => CommandSinkInert
<1>1. IInv /\ [RenderNext]_render_vars =>
        [ command_rows > 0 => d' = [d EXCEPT !.picture = d'.picture, !.stale = d'.stale] ]_render_vars
  <2> SUFFICES ASSUME IInv, RenderNext, command_rows > 0
               PROVE  d' = [d EXCEPT !.picture = d'.picture, !.stale = d'.stale]
    OBVIOUS
  <2>1. command_rows # 0
    BY DEF IInv, RenderTypeOK
  <2>2. WriteCommandRow
    BY <2>1 DEF RenderNext, MoveBeam, WritePort, WriteCommandRegister, RenderFrame, VsyncBoundary, ColdBoot
  <2> QED
    BY <2>2, RowInert
<1> QED
  BY <1>1, Invariance, PTL DEF RenderSpec, CommandSinkInert

-----------------------------------------------------------------------------
(***************************************************************************)
(* The rows of a frame.  The beam without the wrap at the end of the frame *)
(* tells the moment before the vertical sync from the start of the frame.  *)
(***************************************************************************)
Beam(s, t) == (t \div CyclesPerLine) - BorderLines(s.ln212)

\* The line a clock of the frame is in begins at or before it (elapsed / 1368).
LEMMA LineOfCycle ==
  ASSUME NEW t \in Nat
  PROVE  /\ t \div CyclesPerLine \in Nat
         /\ (t \div CyclesPerLine) * CyclesPerLine <= t
         /\ t < (t \div CyclesPerLine) * CyclesPerLine + CyclesPerLine
  OBVIOUS

\* A later line begins after an earlier one has ended.
LEMMA LinesOrdered ==
  ASSUME NEW p \in Nat, NEW q \in Nat, p < q
  PROVE  p * CyclesPerLine + CyclesPerLine <= q * CyclesPerLine
<1> DEFINE c == CyclesPerLine
<1>1. c \in Nat  OBVIOUS
<1>2. q = p + 1 + (q - p - 1) /\ q - p - 1 \in Nat  OBVIOUS
<1>3. q * c = p * c + c + (q - p - 1) * c
  <2> DEFINE r == q - p - 1
  <2>1. q = p + 1 + r /\ r \in Nat  BY <1>2
  <2> HIDE DEF r, c
  <2>2. (p + 1 + r) * c = p * c + c + r * c  BY <1>1, <2>1
  <2> QED BY <2>1, <2>2 DEF r
<1>4. (q - p - 1) * c \in Nat  BY <1>1, <1>2
<1>5. p * c \in Nat /\ q * c \in Nat  BY <1>1
<1> HIDE DEF c
<1>6. p * c + c <= q * c  BY <1>1, <1>3, <1>4, <1>5
<1> QED BY <1>6 DEF c

\* Within the frame the line number has not wrapped.
LEMMA LineInFrame ==
  ASSUME NEW t \in Nat
  PROVE  /\ t < FrameCycles => t \div CyclesPerLine < LinesPerFrame
         /\ t = FrameCycles => t \div CyclesPerLine = LinesPerFrame
<1> DEFINE q == t \div CyclesPerLine
<1>1. q \in Nat /\ q * CyclesPerLine <= t /\ t < q * CyclesPerLine + CyclesPerLine
  BY LineOfCycle
<1>2. LinesPerFrame \in Nat /\ FrameCycles \in Nat /\ FrameCycles = LinesPerFrame * CyclesPerLine
  BY FrameNat DEF FrameCycles
<1>3. LinesPerFrame < q => LinesPerFrame * CyclesPerLine + CyclesPerLine <= q * CyclesPerLine
  BY <1>1, <1>2, LinesOrdered
<1>4. q < LinesPerFrame => q * CyclesPerLine + CyclesPerLine <= LinesPerFrame * CyclesPerLine
  BY <1>1, <1>2, LinesOrdered
<1> DEFINE a == q * CyclesPerLine
           f == LinesPerFrame * CyclesPerLine
<1>5. a \in Nat /\ f \in Nat /\ CyclesPerLine \in Nat /\ CyclesPerLine > 0  BY <1>1, <1>2
<1> HIDE DEF q
<1>6. q = LinesPerFrame => a = f  OBVIOUS
<1> HIDE DEF a, f
<1>7. t < FrameCycles => q < LinesPerFrame
  BY <1>1, <1>2, <1>3, <1>5, <1>6 DEF a, f
<1>8. t = FrameCycles => q = LinesPerFrame
  BY <1>1, <1>2, <1>3, <1>4, <1>5 DEF a, f
<1> QED BY <1>7, <1>8 DEF q

\* One clock on, the beam is on the same line or on the next.
LEMMA NextLine ==
  ASSUME NEW t \in Nat
  PROVE  (t + 1) \div CyclesPerLine \in {t \div CyclesPerLine, t \div CyclesPerLine + 1}
<1> DEFINE q == t \div CyclesPerLine
           p == (t + 1) \div CyclesPerLine
<1>1. /\ q \in Nat /\ q * CyclesPerLine <= t /\ t < q * CyclesPerLine + CyclesPerLine
      /\ p \in Nat /\ p * CyclesPerLine <= t + 1 /\ t + 1 < p * CyclesPerLine + CyclesPerLine
  BY LineOfCycle
<1> HIDE DEF p, q
<1>2. /\ p < q => p * CyclesPerLine + CyclesPerLine <= q * CyclesPerLine
      /\ q + 1 < p => (q + 1) * CyclesPerLine + CyclesPerLine <= p * CyclesPerLine
  BY <1>1, LinesOrdered
<1>3. (q + 1) * CyclesPerLine = q * CyclesPerLine + CyclesPerLine  BY <1>1
<1> DEFINE a == q * CyclesPerLine
           f == p * CyclesPerLine
<1>4. a \in Nat /\ f \in Nat /\ CyclesPerLine \in Nat /\ CyclesPerLine > 0  BY <1>1
<1> HIDE DEF a, f
<1>5. ~(p < q)  BY <1>1, <1>2, <1>4 DEF a, f
<1>6. ~(q + 1 < p)  BY <1>1, <1>2, <1>3, <1>4 DEF a, f
<1>7. p = q \/ p = q + 1  BY <1>1, <1>5, <1>6
<1> QED BY <1>7 DEF p, q

\* Before the frame ends the beam is where raster_display_line puts it.
LEMMA BeamIsRaster ==
  ASSUME NEW s \in Display, NEW t \in Nat, t < FrameCycles
  PROVE  /\ RasterLine(s, t) = Beam(s, t)
         /\ Beam(s, t) \in Int /\ Beam(s, t) < DisplayHeight(s)
<1>1. t \div CyclesPerLine \in 0 .. LinesPerFrame - 1  BY LineOfCycle, LineInFrame
<1> DEFINE q == t \div CyclesPerLine
<1> HIDE DEF q
<1>2. q % LinesPerFrame = q  BY <1>1 DEF q
<1> QED BY <1>1, <1>2
        DEF RasterLine, DisplayLine, DisplayHeight, ActiveLines, Beam, BorderLines, Display, q

\* At the end of the frame the beam has left the display; at its start it has
\* not come to it.
LEMMA BeamAtEnd ==
  ASSUME NEW s \in Display
  PROVE  /\ Beam(s, FrameCycles) = DisplayHeight(s)
         /\ Beam(s, 0) < 0 /\ Beam(s, 0) \in Int /\ FrameCycles > 0
         /\ RasterLine(s, FrameCycles) < 0
<1>1. FrameCycles \div CyclesPerLine = LinesPerFrame  BY FrameNat, LineInFrame
<1>2. 0 \div CyclesPerLine = 0  BY LineOfCycle
<1>3. FrameCycles > 0
  <2>1. FrameCycles \in Nat /\ (FrameCycles = 0 => LinesPerFrame = 0)  BY <1>1, <1>2, FrameNat
  <2> QED BY <2>1
<1>4. LinesPerFrame % LinesPerFrame = 0  OBVIOUS
<1> QED BY <1>1, <1>2, <1>3, <1>4
        DEF Beam, DisplayHeight, ActiveLines, BorderLines, Display, RasterLine, DisplayLine
-----------------------------------------------------------------------------
(***************************************************************************)
(* What the operators do to the planes.                                    *)
(***************************************************************************)
SamePicture(r, s) ==
  /\ r.picture = s.picture /\ r.ln212 = s.ln212 /\ r.completed = s.completed
SameRows(r, s) == SamePicture(r, s) /\ r.rows = s.rows /\ r.watermark = s.watermark

\* The lines checked, and no others, are of the picture of this moment.
LEMMA CheckedLines ==
  ASSUME NEW s \in Display, NEW end \in Int
  PROVE  LET r    == CheckSprites(s, end)
             last == IF end > s.sprite_height THEN s.sprite_height ELSE end
         IN  /\ SameRows(r, s) /\ r.sprite_height = s.sprite_height
             /\ r.sprite_split_active = s.sprite_split_active
             /\ r.sprite_watermark = IF last <= s.sprite_watermark THEN s.sprite_watermark ELSE last
             /\ \A l \in Lines : s.sprite_watermark <= l /\ l < last => r.sprite_lines[l] = s.picture
<1> DEFINE last == IF end > s.sprite_height THEN s.sprite_height ELSE end
           lines == [l \in Lines |-> IF s.sprite_watermark <= l /\ l < last
                                     THEN s.picture ELSE s.sprite_lines[l]]
<1>1. last \in Int /\ s.sprite_watermark \in Nat /\ s.sprite_height \in Nat
  BY DEF Display, Lines
<1>2. CASE last <= s.sprite_watermark
  <2>1. CheckSprites(s, end) = s
    BY <1>2 DEF CheckSprites
  <2>2. \A l \in Lines : ~(s.sprite_watermark <= l /\ l < last)
    BY <1>1, <1>2 DEF Lines
  <2> HIDE DEF last
  <2> QED
    BY <1>2, <2>1, <2>2 DEF SameRows, SamePicture, last
<1>3. CASE ~(last <= s.sprite_watermark)
  <2>1. CheckSprites(s, end) = [s EXCEPT !.sprite_lines = lines, !.sprite_watermark = last]
    BY <1>3 DEF CheckSprites
  <2>2. \A l \in Lines : s.sprite_watermark <= l /\ l < last => lines[l] = s.picture
    OBVIOUS
  <2> HIDE DEF last, lines
  <2>3. LET r == CheckSprites(s, end)
        IN  /\ SameRows(r, s) /\ r.sprite_height = s.sprite_height
            /\ r.sprite_split_active = s.sprite_split_active
            /\ r.sprite_watermark = last /\ r.sprite_lines = lines
    BY <2>1 DEF SameRows, SamePicture, Display
  <2> QED
    BY <1>3, <2>2, <2>3 DEF last
<1> QED
  BY <1>2, <1>3

\* The sprite pass stands where the background does.
InPass(s) ==
  s.sprite_split_active =>
    s.watermark >= 1 /\ s.sprite_watermark = s.watermark /\ s.sprite_height = DisplayHeight(s)

\* commit_sprite_split checks the lines that are to be committed next.
LEMMA SplitLines ==
  ASSUME NEW s \in Display, NEW target \in Int, NEW wrap \in BOOLEAN,
         target >= 1, InPass(s), s.sprite_split_active => ~wrap,
         ~s.sprite_split_active => s.watermark = 0,
         s.watermark <= ClampedEnd(s, target)
  PROVE  LET r == CommitSpriteSplit(s, target, wrap)
         IN  /\ SameRows(r, s) /\ r.sprite_split_active
             /\ r.sprite_height = DisplayHeight(s)
             /\ r.sprite_watermark = ClampedEnd(s, target)
             /\ \A l \in Lines : s.watermark <= l /\ l < ClampedEnd(s, target) /\ l > 0
                                 => r.sprite_lines[l] = s.picture
<1> DEFINE H == DisplayHeight(s)
           e == ClampedEnd(s, target)
           b == IF s.sprite_split_active /\ ~wrap THEN s
                ELSE [BeginFrame(s) EXCEPT !.sprite_split_active = TRUE]
<1>1. H \in 1 .. LinesPerFrame - 1 /\ H \in Nat /\ H >= 1
  BY HeightInLines
<1>2. e = (IF target > H THEN H ELSE target) /\ e \in Nat /\ e >= 1
  BY <1>1 DEF ClampedEnd
<1>3. s.watermark \in Nat
  BY DEF Display, Lines
<1>4. /\ b \in Display /\ SameRows(b, s) /\ b.sprite_split_active
      /\ b.sprite_height = H
      /\ b.sprite_watermark = IF s.watermark = 0 THEN 1 ELSE s.watermark
  <2>1. CASE s.sprite_split_active
    BY <1>3, <2>1 DEF InPass, SameRows, SamePicture
  <2>2. CASE ~s.sprite_split_active
    <3> DEFINE f == BeginFrame(s)
    <3>1. /\ f \in Display /\ SameRows(f, s) /\ f.sprite_height = H /\ f.sprite_watermark = 1
      BY BeginFrameType DEF BeginFrame, SameRows, SamePicture, Display
    <3> HIDE DEF f, H
    <3>2. LET g == [f EXCEPT !.sprite_split_active = TRUE]
          IN  /\ g \in Display /\ SameRows(g, s) /\ g.sprite_split_active
              /\ g.sprite_height = H /\ g.sprite_watermark = 1
      BY <3>1 DEF SameRows, SamePicture, Display
    <3>3. b = [f EXCEPT !.sprite_split_active = TRUE]
      BY <2>2 DEF f
    <3> HIDE DEF b
    <3> QED
      BY <2>2, <3>2, <3>3
  <2> QED
    BY <2>1, <2>2
<1> DEFINE r == CommitSpriteSplit(s, target, wrap)
           last == IF target > b.sprite_height THEN b.sprite_height ELSE target
<1>5. r = CheckSprites(b, target)
  BY DEF CommitSpriteSplit
<1> HIDE DEF b
<1>6. /\ SameRows(r, b) /\ r.sprite_height = b.sprite_height
      /\ r.sprite_split_active = b.sprite_split_active
      /\ r.sprite_watermark = IF last <= b.sprite_watermark THEN b.sprite_watermark ELSE last
      /\ \A l \in Lines : b.sprite_watermark <= l /\ l < last => r.sprite_lines[l] = b.picture
  <2> DEFINE c == CheckSprites(b, target)
  <2>1. /\ SameRows(c, b) /\ c.sprite_height = b.sprite_height
        /\ c.sprite_split_active = b.sprite_split_active
        /\ c.sprite_watermark = IF last <= b.sprite_watermark THEN b.sprite_watermark ELSE last
        /\ \A l \in Lines : b.sprite_watermark <= l /\ l < last => c.sprite_lines[l] = b.picture
    BY <1>4, CheckedLines
  <2> HIDE DEF c, r, last
  <2> QED
    BY <1>5, <2>1 DEF c
<1>7. last = e
  BY <1>2, <1>4
<1> HIDE DEF r, last, H, e
<1>8. r.sprite_watermark = e
  BY <1>2, <1>3, <1>4, <1>6, <1>7 DEF e
<1>9. \A l \in Lines : s.watermark <= l /\ l < e /\ l > 0 => r.sprite_lines[l] = s.picture
  BY <1>3, <1>4, <1>6, <1>7 DEF Lines, SameRows, SamePicture
<1> QED
  BY <1>4, <1>6, <1>8, <1>9 DEF SameRows, SamePicture, r, e, H

\* sync_to_line renders the rows below the watermark and does not seal the
\* frame, when the line is not above the watermark.
LEMMA SyncedRows ==
  ASSUME NEW s \in Display, NEW line \in Int, s.watermark <= ClampedEnd(s, line)
  PROVE  LET r == SyncToLine(s, line)
             e == ClampedEnd(s, line)
         IN  /\ SamePicture(r, s) /\ r.watermark = e
             /\ r.sprite_watermark = s.sprite_watermark /\ r.sprite_height = s.sprite_height
             /\ r.sprite_split_active = s.sprite_split_active
             /\ \A l \in Lines : /\ l < s.watermark => r.rows[l] = s.rows[l]
                                 /\ s.watermark <= l /\ l < e => r.rows[l] = RenderLine(s, l)
<1> DEFINE e == ClampedEnd(s, line)
           r == SyncToLine(s, line)
<1>1. e \in Lines /\ e \in Nat /\ s.watermark \in Nat
  BY ClampedEndType DEF Lines, Display
<1>2. r = IF e <= s.watermark THEN s ELSE CommitRows(s, e)
  BY <1>1 DEF SyncToLine
<1> HIDE DEF r, e
<1>3. CASE e <= s.watermark
  <2>1. r = s /\ e = s.watermark
    BY <1>1, <1>2, <1>3 DEF e
  <2>2. \A l \in Lines : ~(s.watermark <= l /\ l < e)
    BY <1>1, <2>1 DEF Lines
  <2> QED
    BY <2>1, <2>2 DEF SamePicture, r, e
<1>4. CASE ~(e <= s.watermark)
  <2> DEFINE rows == [l \in Lines |-> IF s.watermark <= l /\ l < e
                                      THEN RenderLine(s, l) ELSE s.rows[l]]
  <2>1. r = [s EXCEPT !.rows = rows, !.watermark = e]
    BY <1>2, <1>4 DEF CommitRows
  <2>2. \A l \in Lines : /\ l < s.watermark => rows[l] = s.rows[l]
                         /\ s.watermark <= l /\ l < e => rows[l] = RenderLine(s, l)
    BY <1>1 DEF Lines
  <2> HIDE DEF rows
  <2>3. /\ SamePicture(r, s) /\ r.watermark = e /\ r.rows = rows
        /\ r.sprite_watermark = s.sprite_watermark /\ r.sprite_height = s.sprite_height
        /\ r.sprite_split_active = s.sprite_split_active
    BY <2>1 DEF SamePicture, Display
  <2> QED
    BY <2>2, <2>3 DEF r, e
<1> QED
  BY <1>3, <1>4
-----------------------------------------------------------------------------
(***************************************************************************)
(* The rows already committed show what was there when the beam reached    *)
(* the row above, and the sprite pass stands where the background does.    *)
(* en tells what was there.                                                *)
(***************************************************************************)
RowScanned(row, p, l) ==
  row \in DisplayRow /\ row.background = p /\ (l > 0 => row.sprites = p)

Scanned(s, t, en) ==
  /\ Beam(s, t) < 0 => ~s.sprite_split_active
  /\ ~s.sprite_split_active => s.watermark = 0
  /\ InPass(s)
  /\ s.sprite_split_active =>
       /\ s.watermark <= DisplayHeight(s) /\ s.watermark <= Beam(s, t) + 2
       /\ s.last_beam_commit_target <= Beam(s, t) + 2
  /\ \A l \in Lines : l < s.watermark => RowScanned(s.rows[l], en[l], l)
  /\ \A l \in Lines :
       Beam(s, t) >= 0 /\ s.watermark <= l /\ l <= Beam(s, t) + 1 /\ l < DisplayHeight(s)
       => en[l] = s.picture

\* No row the beam has passed is left to commit.
Through(s, t) ==
  Beam(s, t) >= 0 => s.watermark >= DisplayHeight(s) \/ s.watermark >= Beam(s, t) + 2

\* on_before_state_change commits every row the beam has passed, in the
\* picture of this moment, and never seals the frame.
LEMMA BeforeScanned ==
  ASSUME NEW s \in Display, NEW t \in Nat, t < FrameCycles, NEW en, Scanned(s, t, en)
  PROVE  LET r == BeforeStateChange(s, t)
         IN  SamePicture(r, s) /\ Scanned(r, t, en) /\ Through(r, t)
<1> DEFINE beam   == Beam(s, t)
           target == CommitEnd(RasterLine(s, t))
           wrap   == target < s.last_beam_commit_target
           marked == [s EXCEPT !.stale = TRUE]
           split  == CommitSpriteSplit(marked, target, wrap)
           synced == IF wrap \/ target > split.watermark THEN SyncToLine(split, target)
                     ELSE split
           r      == BeforeStateChange(s, t)
           H      == DisplayHeight(s)
           e      == ClampedEnd(s, target)
<1>1. /\ beam \in Int /\ beam < H /\ RasterLine(s, t) = beam /\ target = beam + 2
      /\ H \in 1 .. LinesPerFrame - 1 /\ H \in Nat
  BY BeamIsRaster, HeightInLines DEF CommitEnd
<1>2. /\ marked \in Display /\ SameRows(marked, s) /\ Beam(marked, t) = beam
      /\ DisplayHeight(marked) = H
      /\ marked.sprite_watermark = s.sprite_watermark
      /\ marked.sprite_height = s.sprite_height
      /\ marked.sprite_split_active = s.sprite_split_active
      /\ marked.last_beam_commit_target = s.last_beam_commit_target
  BY DEF Display, SameRows, SamePicture, Beam, DisplayHeight
<1>3. CASE beam < 0
  <2>1. r = marked
    BY <1>1, <1>3 DEF BeforeStateChange
  <2> HIDE DEF r, marked, H
  <2>2. Through(marked, t)
    BY <1>1, <1>2, <1>3 DEF Through
  <2>3. Scanned(marked, t, en)
    BY <1>1, <1>2, <1>3 DEF Scanned, InPass, SameRows, SamePicture, H
  <2> QED
    BY <1>2, <2>1, <2>2, <2>3 DEF SameRows, r
<1>4. CASE ~(beam < 0)
  <2>1. r = [synced EXCEPT !.last_beam_commit_target = target]
    BY <1>1, <1>4 DEF BeforeStateChange
  <2>2. wrap \in BOOLEAN
    OBVIOUS
  <2> HIDE DEF target, wrap, marked, H, beam
  <2>3. target \in Int /\ target >= 2 /\ e = IF target > H THEN H ELSE target
    BY <1>1, <1>4 DEF ClampedEnd, H
  <2>4. /\ s.watermark \in Nat /\ s.last_beam_commit_target \in Int
        /\ s.watermark <= e
        /\ s.sprite_split_active => ~wrap
        /\ ~s.sprite_split_active => s.watermark = 0
        /\ InPass(s)
    BY <1>1, <2>3 DEF Scanned, Display, Lines, H, beam, wrap
  <2>5. ClampedEnd(marked, target) = e /\ InPass(marked)
    BY <1>2, <2>4 DEF ClampedEnd, InPass, SameRows, H
  <2> HIDE DEF e
  <2>6. /\ SameRows(split, marked) /\ split.sprite_split_active
        /\ split.sprite_height = H /\ split.sprite_watermark = e
        /\ \A l \in Lines : marked.watermark <= l /\ l < e /\ l > 0
                            => split.sprite_lines[l] = marked.picture
    <3> DEFINE c == CommitSpriteSplit(marked, target, wrap)
    <3>1. /\ SameRows(c, marked) /\ c.sprite_split_active
          /\ c.sprite_height = DisplayHeight(marked)
          /\ c.sprite_watermark = ClampedEnd(marked, target)
          /\ \A l \in Lines : marked.watermark <= l /\ l < ClampedEnd(marked, target) /\ l > 0
                              => c.sprite_lines[l] = marked.picture
      <4>1. /\ target >= 1 /\ (marked.sprite_split_active => ~wrap)
            /\ (~marked.sprite_split_active => marked.watermark = 0)
            /\ marked.watermark <= ClampedEnd(marked, target)
        BY <1>2, <2>3, <2>4, <2>5 DEF SameRows
      <4> HIDE DEF c
      <4> QED
        BY <1>2, <2>2, <2>3, <2>5, <4>1, SplitLines DEF c
    <3> QED
      BY <1>2, <2>5, <3>1
  <2>7. split \in Display
    BY <1>2, <2>2, <2>3, CommitSpriteSplitType
  <2> HIDE DEF split
  <2>8. /\ SameRows(split, s) /\ DisplayHeight(split) = H /\ ClampedEnd(split, target) = e
        /\ \A l \in Lines : s.watermark <= l /\ l < e /\ l > 0 => split.sprite_lines[l] = s.picture
    BY <1>2, <2>5, <2>6 DEF SameRows, SamePicture, DisplayHeight, ClampedEnd
  <2>9. /\ synced \in Display /\ SamePicture(synced, s) /\ synced.watermark = e
        /\ synced.sprite_watermark = e /\ synced.sprite_height = H
        /\ synced.sprite_split_active
        /\ \A l \in Lines : /\ l < s.watermark => synced.rows[l] = s.rows[l]
                            /\ s.watermark <= l /\ l < e
                               => synced.rows[l] = RenderLine(split, l)
    <3>1. CASE wrap \/ target > split.watermark
      <4> DEFINE c == SyncToLine(split, target)
      <4>1. synced = c
        BY <3>1
      <4>2. /\ SamePicture(c, split) /\ c.watermark = ClampedEnd(split, target)
            /\ c.sprite_watermark = split.sprite_watermark /\ c.sprite_height = split.sprite_height
            /\ c.sprite_split_active = split.sprite_split_active
            /\ \A l \in Lines : /\ l < split.watermark => c.rows[l] = split.rows[l]
                                /\ split.watermark <= l /\ l < ClampedEnd(split, target)
                                   => c.rows[l] = RenderLine(split, l)
        <5>1. split.watermark <= ClampedEnd(split, target)
          BY <2>4, <2>8 DEF SameRows
        <5> QED
          BY <2>3, <2>7, <5>1, SyncedRows
      <4>3. c \in Display
        BY <2>3, <2>7, SyncToLineType
      <4> HIDE DEF c, synced
      <4> QED
        BY <2>6, <2>8, <4>1, <4>2, <4>3 DEF SameRows, SamePicture
    <3>2. CASE ~(wrap \/ target > split.watermark)
      <4>1. synced = split /\ s.watermark = e
        BY <1>1, <2>3, <2>4, <2>8, <3>2 DEF SameRows
      <4>2. \A l \in Lines : ~(s.watermark <= l /\ l < e)
        BY <2>4, <4>1 DEF Lines
      <4> HIDE DEF synced
      <4> QED
        BY <2>6, <2>7, <2>8, <4>1, <4>2 DEF SameRows
    <3> QED
      BY <3>1, <3>2
  <2> HIDE DEF synced, r
  <2>10. /\ r \in Display /\ SamePicture(r, s) /\ r.watermark = e
         /\ r.sprite_watermark = e /\ r.sprite_height = H /\ r.sprite_split_active
         /\ r.rows = synced.rows /\ r.last_beam_commit_target = target
    BY <2>1, <2>3, <2>9 DEF SamePicture, Display
  <2>11. Beam(r, t) = beam /\ DisplayHeight(r) = H
    BY <2>10 DEF SamePicture, Beam, beam, DisplayHeight, H
  <2>12. ASSUME NEW l \in Lines, l < e PROVE RowScanned(r.rows[l], en[l], l)
    <3>1. CASE l < s.watermark
      BY <2>9, <2>10, <3>1 DEF Scanned
    <3>2. CASE ~(l < s.watermark)
      <4>1. l \in Nat /\ l <= beam + 1 /\ l < H /\ s.watermark <= l
        BY <1>1, <2>3, <2>4, <2>12, <3>2 DEF Lines
      <4>2. en[l] = s.picture
        BY <1>1, <1>4, <4>1 DEF Scanned, beam, H
      <4>3. r.rows[l] = RenderLine(split, l)
        BY <2>9, <2>10, <2>12, <4>1
      <4>4. /\ RenderLine(split, l) \in DisplayRow
            /\ RenderLine(split, l).background = s.picture
            /\ l > 0 => RenderLine(split, l).sprites = s.picture
        BY <2>7, <2>8, <2>12, <4>1, RenderLineType DEF RenderLine, SameRows, SamePicture
      <4> QED
        BY <4>2, <4>3, <4>4 DEF RowScanned
    <3> QED
      BY <3>1, <3>2
  <2>13. \A l \in Lines : ~(e <= l /\ l <= beam + 1 /\ l < H)
    BY <1>1, <2>3 DEF Lines
  <2>14. Scanned(r, t, en)
    <3>1. InPass(r) /\ e <= H /\ e <= beam + 2 /\ e >= 1
      BY <1>1, <2>3, <2>10, <2>11 DEF InPass
    <3> QED
      BY <1>1, <1>4, <2>10, <2>11, <2>12, <2>13, <3>1 DEF Scanned
  <2>15. Through(r, t)
    BY <1>1, <2>3, <2>10, <2>11 DEF Through
  <2> QED
    BY <2>10, <2>14, <2>15 DEF r
<1> QED
  BY <1>3, <1>4
-----------------------------------------------------------------------------
(***************************************************************************)
(* The invariant of a frame in which LN kept still in the display and no   *)
(* capture was taken there.                                                *)
(***************************************************************************)
ScanInv == steady /\ ~captured => Scanned(d, now, entered)
CommandInFrame == command_rows > 0 => now < FrameCycles
SInv == IInv /\ CommandInFrame /\ ScanInv

SamePass(r, s) ==
  /\ r.ln212 = s.ln212 /\ r.rows = s.rows /\ r.watermark = s.watermark
  /\ r.sprite_watermark = s.sprite_watermark /\ r.sprite_height = s.sprite_height
  /\ r.sprite_split_active = s.sprite_split_active
  /\ r.last_beam_commit_target = s.last_beam_commit_target

\* Once all that the beam has passed is committed the picture may change.
LEMMA RedrawnScanned ==
  ASSUME NEW s \in Display, NEW r \in Display, NEW t \in Nat, t < FrameCycles, NEW en,
         Scanned(s, t, en), Through(s, t), SamePass(r, s)
  PROVE  Scanned(r, t, en)
<1>1. Beam(r, t) = Beam(s, t) /\ DisplayHeight(r) = DisplayHeight(s)
  BY DEF SamePass, Beam, DisplayHeight
<1>2. Beam(s, t) \in Int /\ s.watermark \in Nat /\ DisplayHeight(s) \in Nat
  <2>1. Beam(s, t) \in Int
    BY BeamIsRaster
  <2>2. s.watermark \in Nat
    BY DEF Display, Lines
  <2>3. DisplayHeight(s) \in Nat
    BY HeightInLines
  <2> QED
    BY <2>1, <2>2, <2>3
<1>3. \A l \in Lines : ~(/\ Beam(s, t) >= 0 /\ s.watermark <= l
                         /\ l <= Beam(s, t) + 1 /\ l < DisplayHeight(s))
  BY <1>2 DEF Through, Lines
<1> QED
  BY <1>1, <1>3 DEF Scanned, InPass, SamePass

\* Nothing has been committed before the beam enters the display.
LEMMA BorderScanned ==
  ASSUME NEW r \in Display, NEW t \in Nat, NEW en, Beam(r, t) < 0,
         ~r.sprite_split_active, r.watermark = 0
  PROVE  Scanned(r, t, en)
<1>1. \A l \in Lines : ~(l < 0)
  BY DEF Lines
<1>2. Beam(r, t) \in Int
  BY LineOfCycle DEF Beam, BorderLines, Display
<1> QED
  BY <1>1, <1>2 DEF Scanned, InPass

\* The beam that moves on decides the row below it.
LEMMA MoveScanned ==
  ASSUME IInv, MoveBeam, Scanned(d, now, entered)
  PROVE  Scanned(d', now', entered')
<1> DEFINE beam  == Beam(d, now)
           next  == Beam(d, now + 1)
           H     == DisplayHeight(d)
           en    == entered'
<1>1. /\ d \in Display /\ now \in Nat /\ now < FrameCycles /\ FrameCycles \in Nat
      /\ entered \in [Lines -> Displays] /\ d' = d /\ now' = now + 1
  BY FrameNat DEF IInv, RenderTypeOK, MoveBeam
<1>2. beam \in Int /\ beam < H /\ RasterLine(d, now) = beam /\ H \in Nat /\ d.watermark \in Nat
  BY <1>1, BeamIsRaster, HeightInLines DEF Display, Lines
<1>3. next \in {beam, beam + 1}
  <2>1. (now + 1) \div CyclesPerLine \in {now \div CyclesPerLine, now \div CyclesPerLine + 1}
    BY <1>1, NextLine
  <2>2. now \div CyclesPerLine \in Nat /\ BorderLines(d.ln212) \in Int
    BY <1>1, LineOfCycle DEF BorderLines, Display
  <2> DEFINE q == now \div CyclesPerLine
             p == (now + 1) \div CyclesPerLine
             b == BorderLines(d.ln212)
  <2> HIDE DEF q, p, b
  <2>3. p - b \in {q - b, q - b + 1}
    BY <2>1, <2>2 DEF p, q, b
  <2> QED
    BY <2>3 DEF Beam, p, q, b
<1>4. en = LET l == RasterLine(d, now + 1)
           IN  IF l < 0 \/ l = RasterLine(d, now) THEN entered
               ELSE [r \in Lines |-> IF r = l + 1 \/ (l = 0 /\ r = 0)
                                     THEN d.picture ELSE entered[r]]
  BY <1>1 DEF MoveBeam
<1>5. \/ en = entered /\ (next = beam \/ next < 0 \/ next = H)
      \/ /\ next = beam + 1 /\ next >= 0
         /\ \A r \in Lines : en[r] = IF r = next + 1 \/ (next = 0 /\ r = 0)
                                     THEN d.picture ELSE entered[r]
  <2>1. CASE now + 1 < FrameCycles
    <3>1. RasterLine(d, now + 1) = next
      BY <1>1, <2>1, BeamIsRaster
    <3> HIDE DEF next, en, beam
    <3> QED
      BY <1>2, <1>3, <1>4, <3>1
  <2>2. CASE ~(now + 1 < FrameCycles)
    <3>1. now + 1 = FrameCycles
      BY <1>1, <2>2
    <3>2. RasterLine(d, now + 1) < 0 /\ next = H
      BY <1>1, <3>1, BeamAtEnd
    <3> HIDE DEF next, en, beam, H
    <3> QED
      BY <1>4, <3>2
  <2> QED
    BY <2>1, <2>2
<1> DEFINE t == now + 1
<1> HIDE DEF beam, next, H, en, t
<1>6. Scanned(d, t, en)
  <2>1. Beam(d, t) = next
    BY DEF next, t
  <2>2. /\ (beam < 0 => ~d.sprite_split_active) /\ (~d.sprite_split_active => d.watermark = 0)
        /\ InPass(d)
        /\ d.sprite_split_active =>
             /\ d.watermark <= H /\ d.watermark <= beam + 2
             /\ d.last_beam_commit_target <= beam + 2
        /\ \A l \in Lines : l < d.watermark => RowScanned(d.rows[l], entered[l], l)
        /\ \A l \in Lines : beam >= 0 /\ d.watermark <= l /\ l <= beam + 1 /\ l < H
                            => entered[l] = d.picture
    BY DEF Scanned, beam, H
  <2>3. d.last_beam_commit_target \in Int
    BY <1>1 DEF Display
  <2>4. /\ next < 0 => ~d.sprite_split_active
        /\ d.sprite_split_active =>
             d.watermark <= H /\ d.watermark <= next + 2 /\ d.last_beam_commit_target <= next + 2
    BY <1>2, <1>3, <2>2, <2>3
  <2>5. ASSUME NEW l \in Lines, l < d.watermark PROVE en[l] = entered[l]
    <3>1. l \in Nat /\ beam >= 0 /\ l < beam + 2
      BY <1>2, <2>2, <2>5 DEF Lines
    <3>2. l # beam + 2 /\ beam + 1 # 0
      BY <1>2, <3>1
    <3> QED
      BY <1>2, <1>5, <3>1, <3>2
  <2>6. ASSUME NEW l \in Lines, next >= 0, d.watermark <= l, l <= next + 1, l < H
        PROVE  en[l] = d.picture
    <3>1. l \in Nat
      BY DEF Lines
    <3>2. CASE en = entered /\ (next = beam \/ next < 0 \/ next = H)
      <4>1. beam >= 0 /\ l <= beam + 1
        BY <1>2, <1>3, <2>6, <3>1, <3>2
      <4> QED
        BY <2>2, <2>6, <3>2, <4>1
    <3>3. CASE /\ next = beam + 1 /\ next >= 0
               /\ \A r \in Lines : en[r] = IF r = next + 1 \/ (next = 0 /\ r = 0)
                                           THEN d.picture ELSE entered[r]
      <4>1. CASE l = next + 1 \/ (next = 0 /\ l = 0)
        BY <3>3, <4>1
      <4>2. CASE ~(l = next + 1 \/ (next = 0 /\ l = 0))
        <5>1. beam >= 0 /\ l <= beam + 1
          BY <1>2, <2>6, <3>1, <3>3, <4>2
        <5> QED
          BY <2>2, <2>6, <3>3, <4>2, <5>1
      <4> QED
        BY <4>1, <4>2
    <3> QED
      BY <1>5, <3>2, <3>3
  <2> QED
    BY <2>1, <2>2, <2>4, <2>5, <2>6 DEF Scanned, H
<1> QED
  BY <1>1, <1>6 DEF en, t

\* A write commits what the beam has passed and changes the picture then.
LEMMA WriteScanned ==
  ASSUME IInv, WritePort, steady', Scanned(d, now, entered)
  PROVE  Scanned(d', now, entered) /\ d'.completed = d.completed
<1> DEFINE r == BeforeStateChange(d, now)
<1>1. d \in Display /\ now \in Nat /\ now < FrameCycles
  BY DEF IInv, RenderTypeOK, WritePort, FrameCycles
<1>2. PICK p \in Displays, ln \in BOOLEAN :
        /\ d' = [r EXCEPT !.picture = p, !.ln212 = ln]
        /\ steady' = (steady /\ (ln = d.ln212 \/ ~(InDisplay(d, now) \/ InDisplay(d', now))))
  BY DEF WritePort
<1>3. r \in Display /\ SamePicture(r, d) /\ Scanned(r, now, entered) /\ Through(r, now)
  BY <1>1, BeforeScanned, BeforeStateChangeType
<1> HIDE DEF r
<1>4. /\ d' \in Display /\ d'.completed = d.completed /\ d'.ln212 = ln
      /\ d'.watermark = r.watermark /\ d'.sprite_split_active = r.sprite_split_active
  BY <1>2, <1>3, PictureType DEF SamePicture, Display
<1>5. CASE ln = d.ln212
  <2>1. SamePass(d', r)
    BY <1>2, <1>3, <1>5 DEF SamePass, SamePicture, Display
  <2>2. Scanned(d', now, entered)
    BY <1>1, <1>3, <1>4, <2>1, RedrawnScanned
  <2> QED
    BY <1>4, <2>2
<1>6. CASE ~(ln = d.ln212)
  <2>1. ~InDisplay(d, now) /\ ~InDisplay(d', now)
    BY <1>2, <1>6
  <2>2. Beam(r, now) < 0 /\ Beam(d', now) < 0
    <3>1. Beam(r, now) = Beam(d, now)
      BY <1>3 DEF Beam, SamePicture
    <3>2. /\ RasterLine(d, now) = Beam(d, now) /\ RasterLine(d', now) = Beam(d', now)
          /\ Beam(d, now) \in Int /\ Beam(d', now) \in Int
      BY <1>1, <1>4, BeamIsRaster
    <3> QED
      BY <2>1, <3>1, <3>2 DEF InDisplay
  <2>3. ~r.sprite_split_active /\ r.watermark = 0
    BY <1>3, <2>2 DEF Scanned
  <2>4. Scanned(d', now, entered)
    BY <1>1, <1>4, <2>2, <2>3, BorderScanned
  <2> QED
    BY <1>4, <2>4
<1> QED
  BY <1>5, <1>6

\* A row of a command comes after the write that committed all there was.
LEMMA RowScannedStep ==
  ASSUME IInv, CommandInFrame, WriteCommandRow, Scanned(d, now, entered)
  PROVE  Scanned(d', now, entered) /\ d'.completed = d.completed
<1>1. d \in Display /\ now \in Nat /\ now < FrameCycles /\ Committed(d, now)
  BY FrameNat DEF IInv, RenderTypeOK, CommandCommitted, CommandInFrame, WriteCommandRow
<1>2. d' \in Display /\ d' = [d EXCEPT !.picture = d'.picture, !.stale = d'.stale]
  BY RowInert
<1>3. Through(d, now)
  <2>1. /\ RasterLine(d, now) = Beam(d, now) /\ Beam(d, now) \in Int
        /\ d.watermark \in Nat /\ DisplayHeight(d) \in Nat
    BY <1>1, BeamIsRaster, HeightInLines DEF Display, Lines
  <2> QED
    BY <1>1, <2>1 DEF Through, Committed, CommitEnd, ClampedEnd
<1>4. SamePass(d', d) /\ d'.completed = d.completed
  BY <1>1, <1>2 DEF SamePass, Display
<1> QED
  BY <1>1, <1>2, <1>3, <1>4, RedrawnScanned

\* render_frame draws nothing while the beam is outside the display.
LEMMA CaptureInBorder ==
  ASSUME IInv, RenderFrame, ~captured', Scanned(d, now, entered)
  PROVE  d' = d
<1>1. d \in Display /\ now \in Nat /\ now < FrameCycles
  BY FrameNat DEF IInv, RenderTypeOK, RenderFrame
<1>2. RasterLine(d, now) = Beam(d, now) /\ Beam(d, now) \in Int /\ ~(RasterLine(d, now) >= 0)
  BY <1>1, BeamIsRaster DEF RenderFrame, InDisplay
<1>3. d.watermark = 0
  BY <1>2 DEF Scanned
<1> QED
  BY <1>2, <1>3 DEF RenderFrame, AfterRenderFrame

\* The frame the vertical sync seals is what the beam scanned.
LEMMA SealedRows ==
  ASSUME IInv, VsyncBoundary, Scanned(d, now, entered),
         NEW l \in Lines, l < DisplayHeight(d)
  PROVE  RowScanned(d'.completed[l], entered[l], l)
<1> DEFINE H == DisplayHeight(d)
           b == BeginFrame(d)
           c == CheckSprites(b, H)
           r == RecomputeFrame(d)
           full == IF r.watermark < DisplayHeight(r) THEN CommitRows(r, DisplayHeight(r)) ELSE r
<1>1. /\ d \in Display /\ now = FrameCycles /\ FrameCycles \in Nat
      /\ H \in Lines /\ H \in Nat /\ H >= 1 /\ l \in Nat
  BY FrameNat, HeightInLines DEF IInv, RenderTypeOK, VsyncBoundary, Lines
<1>2. Beam(d, now) = H
  BY <1>1, BeamAtEnd
<1>3. /\ b \in Display /\ SameRows(b, d) /\ b.sprite_height = H /\ b.sprite_watermark = 1
  BY <1>1, BeginFrameType DEF BeginFrame, SameRows, SamePicture, Display
<1> HIDE DEF b, H
<1>4. /\ c \in Display /\ SameRows(c, d)
      /\ \A k \in Lines : 1 <= k /\ k < H => c.sprite_lines[k] = d.picture
  <2> DEFINE last == IF H > b.sprite_height THEN b.sprite_height ELSE H
  <2>1. /\ SameRows(c, b) /\ c.sprite_height = b.sprite_height
        /\ c.sprite_split_active = b.sprite_split_active
        /\ c.sprite_watermark = IF last <= b.sprite_watermark THEN b.sprite_watermark ELSE last
        /\ \A k \in Lines : b.sprite_watermark <= k /\ k < last => c.sprite_lines[k] = b.picture
    BY <1>1, <1>3, CheckedLines
  <2>2. c \in Display
    BY <1>1, <1>3, CheckSpritesType
  <2> HIDE DEF c
  <2> QED
    BY <1>1, <1>3, <2>1, <2>2 DEF SameRows, SamePicture
<1>5. /\ r \in Display /\ SameRows(r, d) /\ r.sprite_lines = c.sprite_lines
      /\ DisplayHeight(r) = H
  <2> HIDE DEF c
  <2>1. r = [c EXCEPT !.sprite_split_active = FALSE]
    BY DEF RecomputeFrame, c, b, H
  <2> HIDE DEF r
  <2> QED
    BY <1>4, <2>1 DEF SameRows, SamePicture, DisplayHeight, H, Display
<1> HIDE DEF c, r
<1>6. /\ RenderLine(r, l).background = d.picture /\ RenderLine(r, l) \in DisplayRow
      /\ l > 0 => RenderLine(r, l).sprites = d.picture
  <2>1. l > 0 => 1 <= l /\ l < H
    BY <1>1 DEF H
  <2> QED
    BY <1>4, <1>5, <2>1, RenderLineType DEF RenderLine, SameRows, SamePicture
<1>7. RowScanned(full.rows[l], entered[l], l) /\ l < full.watermark /\ DisplayHeight(full) = H
      /\ full \in Display
  <2>1. d.watermark \in Nat /\ d.watermark <= H /\ r.watermark = d.watermark /\ r.rows = d.rows
    BY <1>1, <1>5 DEF Scanned, Display, Lines, SameRows, H
  <2>2. l < d.watermark => RowScanned(r.rows[l], entered[l], l)
    BY <2>1 DEF Scanned
  <2>3. ~(l < d.watermark) => entered[l] = d.picture
    BY <1>1, <1>2, <2>1 DEF Scanned, H
  <2>4. CASE r.watermark < DisplayHeight(r)
    <3>1. full = CommitRows(r, H)
      BY <1>5, <2>4
    <3>2. full \in Display /\ full.watermark = H /\ full.ln212 = r.ln212
      BY <1>1, <1>5, <3>1, CommitRowsType
    <3>3. full.rows[l] = IF r.watermark <= l /\ l < H THEN RenderLine(r, l) ELSE r.rows[l]
      <4> DEFINE rows == [k \in Lines |-> IF r.watermark <= k /\ k < H
                                          THEN RenderLine(r, k) ELSE r.rows[k]]
      <4>1. full = [r EXCEPT !.rows = rows, !.watermark = H]
        BY <3>1 DEF CommitRows
      <4>2. rows[l] = IF r.watermark <= l /\ l < H THEN RenderLine(r, l) ELSE r.rows[l]
        OBVIOUS
      <4> HIDE DEF rows, full
      <4>3. full.rows = rows
        BY <1>5, <4>1 DEF Display
      <4> QED
        BY <4>2, <4>3
    <3>4. l < H /\ DisplayHeight(full) = H
      BY <1>5, <3>2 DEF H, DisplayHeight
    <3> HIDE DEF full
    <3>5. CASE l < d.watermark
      <4>1. full.rows[l] = r.rows[l]
        BY <1>1, <2>1, <3>3, <3>5
      <4> QED
        BY <2>2, <3>2, <3>4, <3>5, <4>1
    <3>6. CASE ~(l < d.watermark)
      <4>1. full.rows[l] = RenderLine(r, l)
        BY <1>1, <2>1, <3>3, <3>4, <3>6
      <4> QED
        BY <1>6, <2>3, <3>2, <3>4, <3>6, <4>1 DEF RowScanned
    <3> QED
      BY <3>5, <3>6
  <2>5. CASE ~(r.watermark < DisplayHeight(r))
    <3>1. full = r /\ l < d.watermark
      BY <1>1, <1>5, <2>1, <2>5 DEF H
    <3> HIDE DEF full
    <3> QED
      BY <1>5, <2>1, <2>2, <3>1
  <2> QED
    BY <2>4, <2>5
<1>8. d'.completed[l] = Compose(full)[l]
  <2> HIDE DEF full
  <2>1. d' = [full EXCEPT !.completed = Compose(full), !.stale = FALSE,
                          !.rows = EveryRow(NoRow), !.watermark = 0]
    BY DEF VsyncBoundary, Finalize, full, r
  <2>2. d'.completed = Compose(full)
    <3> DEFINE g == Compose(full)
    <3> HIDE DEF g
    <3>1. d' = [full EXCEPT !.completed = g, !.stale = FALSE,
                            !.rows = EveryRow(NoRow), !.watermark = 0]
      BY <2>1 DEF g
    <3>2. d'.completed = g
      BY <1>7, <3>1 DEF Display
    <3> QED
      BY <3>2 DEF g
  <2> QED
    BY <2>2
<1> HIDE DEF full
<1>9. Compose(full)[l] = full.rows[l]
  <2>1. ~(l >= DisplayHeight(full)) /\ l < full.watermark
    BY <1>1, <1>7 DEF H
  <2> QED
    BY <2>1 DEF Compose
<1> QED
  BY <1>7, <1>8, <1>9
\* The first frame starts with nothing committed.
LEMMA InitSInv == RenderInit => SInv
<1> SUFFICES ASSUME RenderInit PROVE SInv
  OBVIOUS
<1>1. IInv /\ CommandInFrame
  BY InitIInv DEF RenderInit, CommandInFrame
<1>2. d \in Display
  BY <1>1 DEF IInv, RenderTypeOK
<1>3. Beam(d, 0) < 0
  BY <1>2, BeamAtEnd
<1>4. now = 0 /\ ~d.sprite_split_active /\ d.watermark = 0
  BY DEF RenderInit
<1>5. Scanned(d, now, entered)
  BY <1>2, <1>3, <1>4, BorderScanned
<1> QED
  BY <1>1, <1>5 DEF SInv, ScanInv

\* Every step keeps what the rows show.
LEMMA StepSInv == SInv /\ [RenderNext]_render_vars => SInv'
<1> SUFFICES ASSUME SInv, [RenderNext]_render_vars PROVE SInv'
  OBVIOUS
<1>1. IInv /\ IInv' /\ d \in Display /\ d' \in Display
  BY StepIInv DEF SInv, IInv, RenderTypeOK
<1>2. CommandInFrame'
  <2>1. CASE WriteCommandRow
    BY <2>1 DEF SInv, CommandInFrame, WriteCommandRow
  <2>2. CASE WriteCommandRegister
    BY <2>2 DEF CommandInFrame, WriteCommandRegister
  <2>3. CASE ~WriteCommandRow /\ ~WriteCommandRegister /\ RenderNext
    <3>1. command_rows' = 0
      BY <2>3 DEF RenderNext, MoveBeam, WritePort, RenderFrame, VsyncBoundary, ColdBoot
    <3> QED
      BY <3>1 DEF CommandInFrame
  <2>4. CASE UNCHANGED render_vars
    BY <2>4 DEF SInv, CommandInFrame, render_vars
  <2> QED
    BY <2>1, <2>2, <2>3, <2>4
<1>3. ASSUME steady', ~captured' PROVE Scanned(d', now', entered')
  <2>1. CASE MoveBeam
    <3>1. Scanned(d, now, entered)
      BY <1>3, <2>1 DEF MoveBeam, SInv, ScanInv
    <3> QED
      BY <1>1, <2>1, <3>1, MoveScanned
  <2>2. CASE WritePort
    <3>1. Scanned(d, now, entered)
      BY <1>3, <2>2 DEF WritePort, SInv, ScanInv
    <3>2. Scanned(d', now, entered)
      BY <1>1, <1>3, <2>2, <3>1, WriteScanned
    <3> QED
      BY <2>2, <3>2 DEF WritePort
  <2>3. CASE WriteCommandRegister
    <3>1. Scanned(d, now, entered)
      BY <1>3, <2>3 DEF WriteCommandRegister, SInv, ScanInv
    <3>2. now \in Nat /\ now < FrameCycles
      BY <1>1, <2>3, FrameNat DEF WriteCommandRegister, IInv, RenderTypeOK
    <3>3. Scanned(BeforeStateChange(d, now), now, entered)
      BY <1>1, <3>1, <3>2, BeforeScanned
    <3> QED
      BY <2>3, <3>3 DEF WriteCommandRegister
  <2>4. CASE WriteCommandRow
    <3>1. Scanned(d, now, entered)
      BY <1>3, <2>4 DEF WriteCommandRow, SInv, ScanInv
    <3>2. Scanned(d', now, entered)
      BY <1>1, <2>4, <3>1, RowScannedStep DEF SInv
    <3> QED
      BY <2>4, <3>2 DEF WriteCommandRow
  <2>5. CASE RenderFrame
    <3>1. Scanned(d, now, entered)
      BY <1>3, <2>5 DEF RenderFrame, SInv, ScanInv
    <3>2. d' = d
      BY <1>1, <1>3, <2>5, <3>1, CaptureInBorder
    <3> QED
      BY <2>5, <3>1, <3>2 DEF RenderFrame
  <2>6. CASE VsyncBoundary
    <3>1. d' = Finalize(RecomputeFrame(d)) /\ now' = 0
      BY <2>6 DEF VsyncBoundary
    <3> DEFINE r == RecomputeFrame(d)
    <3>2. r \in Display /\ ~r.sprite_split_active
      <4> DEFINE c == CheckSprites(BeginFrame(d), DisplayHeight(d))
      <4>1. c \in Display
        BY <1>1, BeginFrameType, CheckSpritesType, HeightInLines DEF Lines
      <4> HIDE DEF c
      <4>2. LET g == [c EXCEPT !.sprite_split_active = FALSE]
            IN  g \in Display /\ ~g.sprite_split_active
        BY <4>1 DEF Display
      <4> QED
        BY <4>2 DEF RecomputeFrame, c
    <3> HIDE DEF r
    <3>3. ~Finalize(r).sprite_split_active /\ Finalize(r).watermark = 0
      <4> DEFINE full == IF r.watermark < DisplayHeight(r) THEN CommitRows(r, DisplayHeight(r)) ELSE r
      <4>1. full \in Display /\ full.sprite_split_active = r.sprite_split_active
        BY <3>2, CommitRowsType, HeightInLines DEF CommitRows, Display
      <4>2. Finalize(r) = [full EXCEPT !.completed = Compose(full), !.stale = FALSE,
                                       !.rows = EveryRow(NoRow), !.watermark = 0]
        BY DEF Finalize
      <4> HIDE DEF full
      <4> QED
        BY <3>2, <4>1, <4>2 DEF Display
    <3>4. Beam(d', 0) < 0
      BY <1>1, BeamAtEnd
    <3>5. ~d'.sprite_split_active /\ d'.watermark = 0
      BY <3>1, <3>3 DEF r
    <3>6. Scanned(d', 0, entered')
      BY <1>1, <3>4, <3>5, BorderScanned
    <3> QED
      BY <3>1, <3>6
  <2>7. CASE ColdBoot
    <3>1. Scanned(d, now, entered) /\ now = 0 /\ now' = 0
      BY <1>3, <2>7 DEF ColdBoot, SInv, ScanInv
    <3>2. Beam(d, 0) < 0 /\ Beam(d', 0) < 0
      BY <1>1, BeamAtEnd
    <3>3. ~d.sprite_split_active
      BY <3>1, <3>2 DEF Scanned
    <3>4. ~d'.sprite_split_active /\ d'.watermark = 0
      BY <1>1, <2>7, <3>3 DEF ColdBoot, Display
    <3>5. Scanned(d', 0, entered')
      BY <1>1, <3>2, <3>4, BorderScanned
    <3> QED
      BY <3>1, <3>5
  <2>8. CASE UNCHANGED render_vars
    BY <1>3, <2>8 DEF render_vars, SInv, ScanInv
  <2> QED
    BY <2>1, <2>2, <2>3, <2>4, <2>5, <2>6, <2>7, <2>8 DEF RenderNext
<1> QED
  BY <1>1, <1>2, <1>3 DEF SInv, ScanInv

\* The invariant of the rows holds in every reachable state.
LEMMA ScanInvariance == RenderSpec => []SInv
BY InitSInv, StepSInv, PTL DEF RenderSpec

\* Every row of a frame sealed at the vertical sync shows what was there when
\* the beam reached the row above it, whatever writes and commands came in
\* between: a frame without a capture and without LN moving in the display.
THEOREM RowsScanned == RenderSpec => RowsAsScanned
<1>1. SInv /\ [RenderNext]_render_vars =>
        [ (VsyncBoundary /\ steady /\ ~captured) =>
            \A l \in 0 .. DisplayHeight(d) - 1 : d'.completed[l].background = entered[l] ]_render_vars
  <2> SUFFICES ASSUME SInv, VsyncBoundary, steady, ~captured,
                      NEW l \in 0 .. DisplayHeight(d) - 1
               PROVE  d'.completed[l].background = entered[l]
    OBVIOUS
  <2>1. IInv /\ Scanned(d, now, entered)
    BY DEF SInv, ScanInv
  <2>2. l \in Lines /\ l < DisplayHeight(d)
    <3>1. DisplayHeight(d) \in 1 .. LinesPerFrame - 1
      BY <2>1, HeightInLines DEF IInv, RenderTypeOK
    <3> QED
      BY <3>1 DEF Lines
  <2> QED
    BY <2>1, <2>2, SealedRows DEF RowScanned
<1> QED
  BY <1>1, ScanInvariance, PTL DEF RenderSpec, RowsAsScanned

\* The sprites of every such row but row 0, which never has any, are of the
\* same moment as its background.
THEOREM SpritesOfRow == RenderSpec => SpritesMatchRow
<1>1. SInv /\ [RenderNext]_render_vars =>
        [ (VsyncBoundary /\ steady /\ ~captured) =>
            \A l \in 1 .. DisplayHeight(d) - 1 :
              d'.completed[l].sprites = d'.completed[l].background ]_render_vars
  <2> SUFFICES ASSUME SInv, VsyncBoundary, steady, ~captured,
                      NEW l \in 1 .. DisplayHeight(d) - 1
               PROVE  d'.completed[l].sprites = d'.completed[l].background
    OBVIOUS
  <2>1. IInv /\ Scanned(d, now, entered)
    BY DEF SInv, ScanInv
  <2>2. l \in Lines /\ l < DisplayHeight(d) /\ l > 0
    <3>1. DisplayHeight(d) \in 1 .. LinesPerFrame - 1
      BY <2>1, HeightInLines DEF IInv, RenderTypeOK
    <3> QED
      BY <3>1 DEF Lines
  <2> QED
    BY <2>1, <2>2, SealedRows DEF RowScanned
<1> QED
  BY <1>1, ScanInvariance, PTL DEF RenderSpec, SpritesMatchRow

\* No write, command row or capture outside the display seals a frame: the
\* last line remembered from an earlier frame never makes it look finished.
THEOREM SealedOnce == RenderSpec => SealedAtVsyncOnly
<1>1. SInv /\ [RenderNext]_render_vars =>
        [ (d'.completed # d.completed /\ steady' /\ ~captured')
            => (VsyncBoundary \/ ColdBoot) ]_render_vars
  <2> SUFFICES ASSUME SInv, RenderNext, steady', ~captured', ~VsyncBoundary, ~ColdBoot
               PROVE  d'.completed = d.completed
    OBVIOUS
  <2>1. IInv /\ d \in Display
    BY DEF SInv, IInv, RenderTypeOK
  <2>2. CASE MoveBeam
    BY <2>2 DEF MoveBeam
  <2>3. CASE WritePort
    <3>1. Scanned(d, now, entered)
      BY <2>3 DEF WritePort, SInv, ScanInv
    <3> QED
      BY <2>1, <2>3, <3>1, WriteScanned
  <2>4. CASE WriteCommandRegister
    <3>1. Scanned(d, now, entered)
      BY <2>4 DEF WriteCommandRegister, SInv, ScanInv
    <3>2. now \in Nat /\ now < FrameCycles
      BY <2>1, <2>4, FrameNat DEF WriteCommandRegister, IInv, RenderTypeOK
    <3>3. SamePicture(BeforeStateChange(d, now), d)
      BY <2>1, <3>1, <3>2, BeforeScanned
    <3> QED
      BY <2>4, <3>3 DEF WriteCommandRegister, SamePicture
  <2>5. CASE WriteCommandRow
    <3>1. Scanned(d, now, entered)
      BY <2>5 DEF WriteCommandRow, SInv, ScanInv
    <3> QED
      BY <2>1, <2>5, <3>1, RowScannedStep DEF SInv
  <2>6. CASE RenderFrame
    <3>1. Scanned(d, now, entered)
      BY <2>6 DEF RenderFrame, SInv, ScanInv
    <3> QED
      BY <2>1, <2>6, <3>1, CaptureInBorder
  <2> QED
    BY <2>2, <2>3, <2>4, <2>5, <2>6 DEF RenderNext
<1> QED
  BY <1>1, ScanInvariance, PTL DEF RenderSpec, SealedAtVsyncOnly
=============================================================================
