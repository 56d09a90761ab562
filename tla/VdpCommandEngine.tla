-------------------------- MODULE VdpCommandEngine --------------------------
(***************************************************************************)
(* The command engine of the V9958                                         *)
(* (src/src/devices/video/vdp_command_engine.cpp) and the VRAM it works    *)
(* on.  Ten commands run to their end inside the write to R#46; LMCM, LMMC *)
(* and HMMC then go on one unit at a time, with a write to R#44 or a read  *)
(* of S#7 each.  An engine is a record e; every operator gives the record  *)
(* after the call.                                                         *)
(*                                                                         *)
(* The destination rows a command announces are RenderSync's subject.      *)
(***************************************************************************)
EXTENDS Integers, FiniteSetsExt

(***************************************************************************)
(* How many columns and rows a command of the VDP works on: the clipping   *)
(* functions of src/src/devices/video/vdp_command_engine.cpp.  Columns are *)
(* counted in units, pixels or bytes; the byte versions of the code are    *)
(* these with every coordinate divided by the pixels of a byte.            *)
(***************************************************************************)
CONSTANT MaxRows     \* rows meant by NY = 0, and the modulus of NY: 1024

ASSUME RowsAssumption == MaxRows \in Nat \ {0}

Least(a, b) == IF a <= b THEN a ELSE b
Greatest(a, b) == IF a <= b THEN b ELSE a

\* A register that is zero means all there is.
OrAll(n, all) == IF n = 0 THEN all ELSE n

\* Mutant: the unit of the start is forgotten when going left.
ShortClipNx1(dx, nx, dix, line) ==
  IF dx >= line THEN 1
  ELSE IF dix THEN Least(OrAll(nx, line), dx)
              ELSE Least(OrAll(nx, line), line - dx)

\* clip_nx_1_pixel, clip_nx_1_byte: from unit dx, to the left if dix.
ClipNx1(dx, nx, dix, line) ==
  IF dx >= line THEN 1
  ELSE IF dix THEN Least(OrAll(nx, line), dx + 1)
              ELSE Least(OrAll(nx, line), line - dx)

\* clip_nx_2_pixel, clip_nx_2_byte: neither the source nor the destination
\* may leave its line.
ClipNx2(sx, dx, nx, dix, line) ==
  IF sx >= line \/ dx >= line THEN 1
  ELSE IF dix THEN Least(OrAll(nx, line), Least(sx, dx) + 1)
              ELSE Least(OrAll(nx, line), line - Greatest(sx, dx))

\* clip_ny_1: upwards a command ends at row 0; downwards it is not clipped.
ClipNy1(dy, ny, diy) ==
  IF diy THEN Least(OrAll(ny, MaxRows), dy + 1) ELSE OrAll(ny, MaxRows)

\* clip_ny_2
ClipNy2(sy, dy, ny, diy) ==
  IF diy THEN Least(OrAll(ny, MaxRows), Least(sy, dy) + 1) ELSE OrAll(ny, MaxRows)

-----------------------------------------------------------------------------
CONSTANTS
  ScreenModes,   \* screen modes with commands, five
  Traits,        \* kModeTraits: pixels of a line and of a byte, rows, planar
  ByteBits,      \* 8
  VramSize,      \* 0x20000
  CoordRange     \* values of SX and DX, 512

ASSUME EngineAssumption ==
  /\ Traits \in [ScreenModes -> [line : Nat \ {0}, ppb : Nat \ {0}, rows : Nat \ {0},
                                 planar : BOOLEAN]]
  /\ VramSize \in Nat \ {0} /\ ByteBits \in Nat \ {0} /\ CoordRange \in Nat \ {0}
  /\ \A m \in ScreenModes :
       /\ Traits[m].rows * (Traits[m].line \div Traits[m].ppb) = VramSize
       /\ ByteBits % Traits[m].ppb = 0

NoMode == "none"             \* scr_mode_ = -1
Cell == 0 .. VramSize - 1
Byte == 0 .. 2 ^ ByteBits - 1
Coord == 0 .. CoordRange - 1
Row == 0 .. MaxRows - 1

(***************************************************************************)
(* Pixels                                                                  *)
(***************************************************************************)
\* The five functions of vdp_command_address.h; a planar mode keeps the odd
\* bytes of its lines in the upper half of VRAM.
AddressOf(m, x, y) ==
  LET bytes == Traits[m].line \div Traits[m].ppb
      byte == (x % Traits[m].line) \div Traits[m].ppb
      row == y % Traits[m].rows
  IN  IF Traits[m].planar
      THEN (byte % 2) * (VramSize \div 2) + row * (bytes \div 2) + byte \div 2
      ELSE row * bytes + byte

PixelBits(m) == ByteBits \div Traits[m].ppb
Colours(m) == 2 ^ PixelBits(m)
\* The leftmost pixel of a byte is its highest.
Weight(m, x) == 2 ^ ((Traits[m].ppb - 1 - (x % Traits[m].ppb)) * PixelBits(m))

\* point_pixel
Pixel(m, vram, x, y) == (vram[AddressOf(m, x, y)] \div Weight(m, x)) % Colours(m)

BitsOf(n) == {k \in 0 .. ByteBits - 1 : (n \div 2 ^ k) % 2 = 1}
FromBits(s) == MapThenSumSet(LAMBDA k : 2 ^ k, s)

Combine(m, op, old, new) ==
  CASE op = "Imp" -> new
    [] op = "And" -> FromBits(BitsOf(old) \cap BitsOf(new))
    [] op = "Or"  -> FromBits(BitsOf(old) \cup BitsOf(new))
    [] op = "Xor" -> FromBits((BitsOf(old) \cup BitsOf(new)) \ (BitsOf(old) \cap BitsOf(new)))
    [] op = "Not" -> Colours(m) - 1 - new

\* write_pixel: an undefined operation writes nothing, and a transparent one
\* leaves the pixel alone where the source is colour 0.
WritePixel(m, vram, x, y, colour, how) ==
  LET new == colour % Colours(m)
      old == Pixel(m, vram, x, y)
  IN  IF how.op = "Dummy" \/ (how.transparent /\ new = 0) THEN vram
      ELSE [vram EXCEPT ![AddressOf(m, x, y)] =
              @ + (Combine(m, how.op, old, new) - old) * Weight(m, x)]

WriteByte(m, vram, x, y, value) == [vram EXCEPT ![AddressOf(m, x, y)] = value]

(***************************************************************************)
(* The engine                                                              *)
(***************************************************************************)
How == [op : {"Imp", "And", "Or", "Xor", "Not", "Dummy"}, transparent : BOOLEAN]
Arg == [diy : BOOLEAN, dix : BOOLEAN, eq : BOOLEAN, maj : BOOLEAN]
Block == [sx : Coord, sy : Row, dx : Coord, dy : Row, nx : Row, ny : Row, arg : Arg]
Codes == {"ABRT", "POINT", "PSET", "SRCH", "LINE", "LMMV", "LMMM", "LMCM", "LMMC",
          "HMMV", "HMMM", "YMMM", "HMMC"}
CpuFed == {"LMMC", "HMMC"}
Transfers == CpuFed \cup {"LMCM"}

\* A transfer under way: the next unit and what is left of its row and of
\* the rows, counting both.
Transfer == [kind : Transfers, x : Int, y : Int, nx : Nat, ny : Nat,
             x0 : Int, nx0 : Nat, tx : Int, ty : Int, how : How]
NoTransfer == [kind |-> "none"]

Engine == [vram : [Cell -> Byte], regs : Block, col : Byte, asx : Int,
           ce : BOOLEAN, tr : BOOLEAN, bd : BOOLEAN, pending : BOOLEAN,
           transfer : Transfer \cup {NoTransfer}, scr_mode : ScreenModes \cup {NoMode}]

ResetArg == [diy |-> FALSE, dix |-> FALSE, eq |-> FALSE, maj |-> FALSE]
ResetEngine ==
  [vram |-> [a \in Cell |-> 0],
   regs |-> [sx |-> 0, sy |-> 0, dx |-> 0, dy |-> 0, nx |-> 0, ny |-> 0, arg |-> ResetArg],
   col |-> 0, asx |-> 0, ce |-> FALSE, tr |-> FALSE, bd |-> FALSE, pending |-> FALSE,
   transfer |-> NoTransfer, scr_mode |-> NoMode]

Line(e) == Traits[e.scr_mode].line
PerByte(e) == Traits[e.scr_mode].ppb
StepX(e) == IF e.regs.arg.dix THEN -1 ELSE 1
StepY(e) == IF e.regs.arg.diy THEN -1 ELSE 1

\* The coordinate has left the line: bit test on an unsigned number, so that
\* one step left of column 0 is outside too.
OffLine(e, x) == (x \div Line(e)) % 2 = 1

EndCommand(e) == [e EXCEPT !.ce = FALSE]
Stopped(e) == [EndCommand(e) EXCEPT !.transfer = NoTransfer]

(***************************************************************************)
(* Commands that run at once                                               *)
(***************************************************************************)
\* A command that draws is named for the VRAM it leaves.
Drawn(e, vram) == EndCommand([e EXCEPT !.vram = vram])

\* The nested loop over the units of a rectangle, the state after each unit:
\* a cursor runs through source and destination together.
Loop(e, first, tx, ty, Unit(_, _)) ==
  LET Advance(c) ==
        IF c.nx > 1 THEN [c EXCEPT !.sx = @ + tx, !.dx = @ + tx, !.nx = @ - 1]
        ELSE [first EXCEPT !.sy = c.sy + ty, !.dy = c.dy + ty, !.ny = c.ny - 1]
      state[k \in 0 .. first.nx * first.ny] ==
        IF k = 0 THEN [vram |-> e.vram, c |-> first]
        ELSE LET s == state[k - 1] IN [vram |-> Unit(s.vram, s.c), c |-> Advance(s.c)]
  IN  state[first.nx * first.ny].vram

Cursor(e, sx, nx, ny) ==
  [sx |-> sx, sy |-> e.regs.sy, dx |-> e.regs.dx, dy |-> e.regs.dy, nx |-> nx, ny |-> ny]

RowsTo(e) == ClipNy1(e.regs.dy, e.regs.ny, e.regs.arg.diy)
RowsBetween(e) == ClipNy2(e.regs.sy, e.regs.dy, e.regs.ny, e.regs.arg.diy)
\* Columns of the destination, and of source and destination, in units of
\* `per` pixels.
ColumnsTo(e, nx, per) ==
  ClipNx1(e.regs.dx \div per, nx \div per, e.regs.arg.dix, Line(e) \div per)
ColumnsBetween(e, per) ==
  ClipNx2(e.regs.sx \div per, e.regs.dx \div per, e.regs.nx \div per, e.regs.arg.dix,
          Line(e) \div per)

Hmmv(e) ==
  Loop(e, Cursor(e, 0, ColumnsTo(e, e.regs.nx, PerByte(e)), RowsTo(e)),
       StepX(e) * PerByte(e), StepY(e),
       LAMBDA v, c : WriteByte(e.scr_mode, v, c.dx, c.dy, e.col))

Lmmv(e, how) ==
  Loop(e, Cursor(e, 0, ColumnsTo(e, e.regs.nx, 1), RowsTo(e)), StepX(e), StepY(e),
       LAMBDA v, c : WritePixel(e.scr_mode, v, c.dx, c.dy, e.col, how))

CopyBytes(e, first) ==
  Loop(e, first, StepX(e) * PerByte(e), StepY(e),
       LAMBDA v, c : WriteByte(e.scr_mode, v, c.dx, c.dy, v[AddressOf(e.scr_mode, c.sx, c.sy)]))

Hmmm(e) == CopyBytes(e, Cursor(e, e.regs.sx, ColumnsBetween(e, PerByte(e)), RowsBetween(e)))

\* The source column is the destination column, and the row goes to its end.
Ymmm(e) ==
  CopyBytes(e, Cursor(e, e.regs.dx, ColumnsTo(e, CoordRange, PerByte(e)), RowsBetween(e)))

Lmmm(e, how) ==
  Loop(e, Cursor(e, e.regs.sx, ColumnsBetween(e, 1), RowsBetween(e)), StepX(e), StepY(e),
       LAMBDA v, c : WritePixel(e.scr_mode, v, c.dx, c.dy, Pixel(e.scr_mode, v, c.sx, c.sy), how))

RunPoint(e) ==
  EndCommand([e EXCEPT !.col = Pixel(e.scr_mode, e.vram, e.regs.sx, e.regs.sy)])

Pset(e, how) == WritePixel(e.scr_mode, e.vram, e.regs.dx, e.regs.dy, e.col, how)

\* run_srch looks at column At(k) in its k-th round, from 0.
At(e, k) == e.regs.sx + k * StepX(e)
Matches(e, k) ==
  (Pixel(e.scr_mode, e.vram, At(e, k), e.regs.sy) = e.col % Colours(e.scr_mode)) # e.regs.arg.eq
SearchEnd(e) == Min({k \in 0 .. 2 * Line(e) : Matches(e, k) \/ OffLine(e, At(e, k + 1))})

\* The search stops at the first pixel that is (not) of the colour, or past
\* the border of the line, which leaves BD as it was.
RunSrch(e) ==
  LET k == SearchEnd(e)
      found == Matches(e, k)
  IN  EndCommand([e EXCEPT !.bd = @ \/ found, !.asx = IF found THEN At(e, k) ELSE At(e, k + 1)])

\* One round of the loop of run_line.  The long side is x, or y with MAJ;
\* the error term carries to the short side.
LineRound(e, s, how) ==
  LET m == e.scr_mode
      maj == e.regs.arg.maj
      minor == s.error < e.regs.ny
      x == IF (~maj \/ minor) THEN s.x + StepX(e) ELSE s.x
      y == IF maj \/ minor THEN s.y + StepY(e) ELSE s.y
      \* leaving by the long side ends the loop before the short side steps
      out == IF maj THEN y < 0 ELSE s.anx = e.regs.nx \/ OffLine(e, s.x + StepX(e))
      last == IF maj THEN s.anx = e.regs.nx \/ OffLine(e, x) ELSE y < 0
  IN  [vram |-> WritePixel(m, s.vram, s.x, s.y, e.col, how), x |-> x, y |-> y,
       error |-> ((IF minor THEN s.error + e.regs.nx ELSE s.error) - e.regs.ny) % MaxRows,
       anx |-> s.anx + 1, drawn |-> s.drawn + 1,
       steps |-> IF minor /\ ~out THEN s.steps + 1 ELSE s.steps, done |-> out \/ last]

\* NX - 1 as an unsigned number: with NX = 0 it is larger than any NY.
FirstError(nx) == IF nx = 0 THEN MaxRows ELSE (nx - 1) \div 2

\* The state of the loop when it is done; NX + 1 rounds are enough.
LineEnd(e, how) ==
  LET first == [vram |-> e.vram, x |-> e.regs.dx, y |-> e.regs.dy, error |-> FirstError(e.regs.nx),
                anx |-> 0, drawn |-> 0, steps |-> 0, done |-> FALSE]
      state[k \in 0 .. e.regs.nx + 1] ==
        IF k = 0 THEN first
        ELSE LET s == state[k - 1] IN IF s.done THEN s ELSE LineRound(e, s, how)
  IN  state[e.regs.nx + 1]

(***************************************************************************)
(* Transfers                                                               *)
(***************************************************************************)
\* Mutant: the last unit ends the transfer and leaves the command busy.
StickyNextUnit(e) ==
  LET t == e.transfer
      row == [t EXCEPT !.x = t.x0, !.nx = t.nx0, !.y = @ + t.ty, !.ny = @ - 1]
  IN  IF t.nx > 1 THEN [e EXCEPT !.transfer = [t EXCEPT !.x = @ + t.tx, !.nx = @ - 1]]
      ELSE IF t.ny > 1 THEN [e EXCEPT !.transfer = row]
      ELSE [e EXCEPT !.transfer = NoTransfer]

\* The next unit of a transfer; the last one ends the command.
NextUnit(e) ==
  LET t == e.transfer
      row == [t EXCEPT !.x = t.x0, !.nx = t.nx0, !.y = @ + t.ty, !.ny = @ - 1]
  IN  IF t.nx > 1 THEN [e EXCEPT !.transfer = [t EXCEPT !.x = @ + t.tx, !.nx = @ - 1]]
      ELSE IF t.ny > 1 THEN [e EXCEPT !.transfer = row]
      ELSE Stopped(e)

\* VRAM after the unit in R#44 has gone to its place.
UnitVram(e) ==
  LET t == e.transfer
  IN  IF t.kind = "HMMC" THEN WriteByte(e.scr_mode, e.vram, t.x, t.y, e.col)
      ELSE WritePixel(e.scr_mode, e.vram, t.x, t.y, e.col, t.how)

\* perform_transfer_step
TransferStep(e) == [NextUnit(e) EXCEPT !.vram = UnitVram(e), !.pending = FALSE]

\* A transfer works on a rectangle of its own: later register writes do not
\* move it.
Begin(e, kind, x, y, per, how) ==
  LET nx == ClipNx1(x \div per, e.regs.nx \div per, e.regs.arg.dix, Line(e) \div per)
  IN  [e EXCEPT !.tr = TRUE,
                !.transfer = [kind |-> kind, x |-> x, y |-> y, nx |-> nx,
                              ny |-> ClipNy1(y, e.regs.ny, e.regs.arg.diy),
                              x0 |-> x, nx0 |-> nx, tx |-> StepX(e) * per, ty |-> StepY(e),
                              how |-> how]]

\* Mutant: a command waits for its first unit although one is there.
WaitingFirstUnit(e) == e

\* A value written to R#44 before the command is its first unit.
FirstUnit(e) == IF e.pending THEN TransferStep(e) ELSE e

Plain == [op |-> "Imp", transparent |-> FALSE]
StartLmmc(e, how) == FirstUnit(Begin(e, "LMMC", e.regs.dx, e.regs.dy, 1, how))
StartHmmc(e) == FirstUnit(Begin(e, "HMMC", e.regs.dx, e.regs.dy, PerByte(e), Plain))
StartLmcm(e) ==
  [Begin(e, "LMCM", e.regs.sx, e.regs.sy, 1, Plain) EXCEPT !.asx = e.regs.sx]

(***************************************************************************)
(* Calls of the VDP                                                        *)
(***************************************************************************)
\* R#32 to R#43 and R#45, a block of them in one go.
AfterBlock(e, block) == [e EXCEPT !.regs = block]

\* R#44
AfterColour(e, value) ==
  LET w == [e EXCEPT !.col = value, !.pending = TRUE]
  IN  IF e.ce /\ e.transfer.kind \in CpuFed THEN TransferStep(w)
      ELSE IF ~e.ce THEN [w EXCEPT !.tr = FALSE]
      ELSE w

\* R#46.  Where no command is possible it acts as ABRT.  A command given
\* while a transfer runs takes over; a block command leaves the stopped
\* transfer behind it.
AfterCommand(e, code, how) ==
  LET b == [e EXCEPT !.ce = TRUE]
  IN  IF e.scr_mode = NoMode \/ code = "ABRT" THEN Stopped(e)
      ELSE CASE code = "POINT" -> RunPoint(b)
             [] code = "SRCH"  -> RunSrch(b)
             [] code = "PSET"  -> Drawn(b, Pset(b, how))
             [] code = "LINE"  -> Drawn(b, LineEnd(b, how).vram)
             [] code = "LMMV"  -> Drawn(b, Lmmv(b, how))
             [] code = "LMMM"  -> Drawn(b, Lmmm(b, how))
             [] code = "HMMV"  -> Drawn(b, Hmmv(b))
             [] code = "HMMM"  -> Drawn(b, Hmmm(b))
             [] code = "YMMM"  -> Drawn(b, Ymmm(b))
             [] code = "LMCM"  -> StartLmcm(b)
             [] code = "LMMC"  -> StartLmmc(b, how)
             [] code = "HMMC"  -> StartHmmc(b)

\* A read of S#7 in an LMCM fetches the next pixel; the caller then reads
\* the colour register.
AfterColourRead(e) ==
  IF ~(e.ce /\ e.transfer.kind = "LMCM") THEN e
  ELSE LET t == e.transfer
           n == NextUnit([e EXCEPT !.col = Pixel(e.scr_mode, e.vram, t.x, t.y)])
       IN  IF n.transfer = NoTransfer THEN [n EXCEPT !.asx = t.x0, !.tr = FALSE]
           ELSE [n EXCEPT !.asx = n.transfer.x]

\* A read of S#9
AfterBorderRead(e) == [e EXCEPT !.bd = FALSE]

\* notify_mode_change
AfterModeChange(e, mode) ==
  [(IF e.ce /\ mode = NoMode THEN Stopped(e) ELSE e) EXCEPT !.scr_mode = mode]
=============================================================================
