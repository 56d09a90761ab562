---------------------------- MODULE VdpCommands -----------------------------
(***************************************************************************)
(* Commands as the guest program sees them: the command registers and      *)
(* status registers of V9958Vdp (src/src/devices/video/v9958_vdp.cpp) over *)
(* the engine (VdpCommandEngine).                                          *)
(*                                                                         *)
(* The engine works in no time.  The VDP adds the time a real one would    *)
(* take, for the status bits only: CE reads as set until the busy window   *)
(* of the command has passed, TR reads as clear until the slot of the last *)
(* unit has.  The windows are kept as the time they have still to run.     *)
(*                                                                         *)
(* Each action is an access the program makes, followed by the time of its *)
(* instruction.  The parameters of a command are written as a block, the   *)
(* way programs do it through R#17.                                        *)
(***************************************************************************)
EXTENDS VdpCommandEngine

CONSTANTS
  AccessTime,     \* T-states of an instruction that accesses a port
  Ticks,          \* VDP cycles of a unit, by command
  LineTicks,      \* extra VDP cycles of a row, by command
  LineMinorTicks, \* extra VDP cycles of a step of the short side of a LINE
  Ratio,          \* VDP cycles of a T-state, 6
  Regimes,        \* access slots of a line: display off, sprites off and on
  SlotsOff,       \* kSlotsPerLineDisplayOff, 154
  LineCycles,     \* kVdpCyclesPerLine, 1368
  Blocks,         \* parameter blocks the program writes
  Commands,       \* pairs <<code, how>> it issues
  Colours44,      \* values it writes to R#44
  Writes,         \* pairs <<address, value>> it writes to VRAM through #98
  Pictures,       \* what VRAM may hold at first
  MaxAccesses,    \* bound on the accesses that are neither units nor idle
  MaxUnits,       \* bound on the units of a transfer
  MaxBusy         \* bound on the busy window; a window is never stretched so far

ASSUME ProgramAssumption ==
  /\ AccessTime \in Nat \ {0} /\ Ratio \in Nat \ {0} /\ SlotsOff \in Nat \ {0}
  /\ Ticks \in [Codes -> Nat] /\ LineTicks \in [Codes -> Nat] /\ LineMinorTicks \in Nat
  /\ Regimes \subseteq Nat \ {0} /\ LineCycles \in Nat \ {0}
  /\ Blocks \subseteq Block /\ Commands \subseteq Codes \X How
  /\ Colours44 \subseteq Byte /\ Writes \subseteq Cell \X Byte
  /\ Pictures \subseteq [Cell -> Byte] /\ MaxAccesses \in Nat /\ MaxUnits \in Nat /\ MaxBusy \in Nat

VARIABLES
  e,        \* the engine
  busy,     \* cmd_busy_until_cycles_, from now
  tr_busy,  \* tr_busy_until_cycles_, from now
  accesses, \* accesses made, other than units of a transfer and waiting
  job       \* history: the rectangle of the last transfer and the units served

vars == <<e, busy, tr_busy, accesses, job>>

CeilDiv(a, b) == (a + b - 1) \div b
Later(time) == Greatest(time - AccessTime, 0)
Lapse(b, t) == busy' = Later(b) /\ tr_busy' = Later(t)

\* The bits of S#2
CE == e.ce \/ busy > 0
TR == e.tr /\ tr_busy = 0

(***************************************************************************)
(* The busy window                                                         *)
(***************************************************************************)
\* last_cmd_duration_tstates: the work of a block command with all access
\* slots free.
Duration(x, code, how) ==
  LET rect(nx, ny) ==
        CeilDiv(Ticks[code] * (nx * ny - 1) + LineTicks[code] * (ny - 1), Ratio)
      line == LineEnd(x, how)
  IN  IF x.scr_mode = NoMode THEN 0
      ELSE CASE code = "HMMV" -> rect(ColumnsTo(x, x.regs.nx, PerByte(x)), RowsTo(x))
             [] code = "LMMV" -> rect(ColumnsTo(x, x.regs.nx, 1), RowsTo(x))
             [] code = "HMMM" -> rect(ColumnsBetween(x, PerByte(x)), RowsBetween(x))
             [] code = "YMMM" -> rect(ColumnsTo(x, CoordRange, PerByte(x)), RowsBetween(x))
             [] code = "LMMM" -> rect(ColumnsBetween(x, 1), RowsBetween(x))
             [] code = "LINE" ->
                  CeilDiv(Ticks[code] * (line.drawn - 1) + LineMinorTicks * line.steps, Ratio)
             [] code = "SRCH" -> CeilDiv(Ticks[code] * (SearchEnd(x) + 1), Ratio)
             [] OTHER -> 0

\* arm_command_busy_window: fewer free slots stretch it.
BusyWindow(duration, slots) == CeilDiv(duration * SlotsOff, slots)

\* slot_cost_tstates: the mean distance of the slots of a line.
SlotCost(slots) == CeilDiv(LineCycles, Ratio * slots)

\* Mutant: the cost of a stolen slot is taken in VDP cycles.
UnscaledAfterSteal(b, slots) == IF b > 0 THEN b + SlotCost(slots) * Ratio ELSE b

\* steal_command_slot_for_cpu_vram_access: an access to VRAM while a command
\* is busy costs it a slot.
AfterSteal(b, slots) == IF b > 0 THEN b + SlotCost(slots) ELSE b

\* transfer_unit_cost_tstates: that of the command whose unit is like it.
UnitTime(kind) ==
  CeilDiv(Ticks[CASE kind = "HMMC" -> "HMMV" [] kind = "LMMC" -> "LMMV" [] kind = "LMCM" -> "SRCH"],
          Ratio)

\* arm_transfer_ready_window: a served unit drops TR for the time of a slot;
\* the last one leaves it raised.
TrWindow(after) == IF after.transfer = NoTransfer THEN 0 ELSE UnitTime(after.transfer.kind)

(***************************************************************************)
(* The rectangle of a transfer, for the properties: every unit whose way   *)
(* from the start stays on the line, counted apart from the engine.        *)
(***************************************************************************)
\* Units of `per` pixels from all of the starts in step; one if a start is
\* outside.
Width(x, starts, wanted, per) ==
  LET units == Line(x) \div per
      inside(k) == \A s \in starts : (s \div per) + k * StepX(x) \in 0 .. units - 1
      all == IF wanted \div per = 0 THEN units ELSE wanted \div per
  IN  Greatest(1, Cardinality({k \in 0 .. all - 1 : \A j \in 0 .. k : inside(j)}))

Height(x, starts) ==
  LET all == IF x.regs.ny = 0 THEN MaxRows ELSE x.regs.ny
  IN  Cardinality({k \in 0 .. all - 1 : \A s \in starts : s + k * StepY(x) >= 0})

NoJob == [kind |-> "none"]
JobOf(x, code, how) ==
  LET read == code = "LMCM"
      x0 == IF read THEN x.regs.sx ELSE x.regs.dx
      y0 == IF read THEN x.regs.sy ELSE x.regs.dy
      per == IF code = "HMMC" THEN PerByte(x) ELSE 1
  IN  [kind |-> code, x |-> x0, y |-> y0, tx |-> StepX(x) * per, ty |-> StepY(x),
       nx |-> Width(x, {x0}, x.regs.nx, per), ny |-> Height(x, {y0}), how |-> how, served |-> 0]

\* The place of unit k of a job, row by row.
PlaceX(j, k) == j.x + (k % j.nx) * j.tx
PlaceY(j, k) == j.y + (k \div j.nx) * j.ty
Served(j) == [j EXCEPT !.served = @ + 1]

(***************************************************************************)
(* The accesses of the program                                             *)
(***************************************************************************)
Init ==
  /\ \E picture \in Pictures, m \in ScreenModes :
       e = [ResetEngine EXCEPT !.vram = picture, !.scr_mode = m]
  /\ busy = 0 /\ tr_busy = 0 /\ accesses = 0 /\ job = NoJob

Access == accesses < MaxAccesses /\ accesses' = accesses + 1

WriteBlock ==
  /\ Access
  /\ \E b \in Blocks : e' = AfterBlock(e, b)
  /\ Lapse(busy, tr_busy)
  /\ UNCHANGED job

Feeds == e.ce /\ e.transfer.kind \in CpuFed
Fetches == e.ce /\ e.transfer.kind = "LMCM"

WriteColour ==
  /\ \E v \in Colours44 : e' = AfterColour(e, v)
  /\ IF Feeds THEN Lapse(busy, TrWindow(e')) /\ job' = Served(job) /\ UNCHANGED accesses
              ELSE Lapse(busy, tr_busy) /\ UNCHANGED job /\ Access

WriteCommand(code, how) ==
  LET after == AfterCommand(e, code, how)
      starts == e.scr_mode # NoMode /\ code \in Transfers
      serves == starts /\ code \in CpuFed /\ e.pending
      begun == JobOf(e, code, how)
  IN  /\ Access
      /\ starts => begun.nx * begun.ny <= MaxUnits
      /\ e' = after
      /\ \E slots \in Regimes :
           Lapse(BusyWindow(Duration(e, code, how), slots), IF serves THEN TrWindow(after) ELSE tr_busy)
      /\ job' = IF ~starts THEN NoJob
                ELSE IF serves THEN Served(begun) ELSE begun

ReadColour ==
  /\ e' = AfterColourRead(e)
  /\ Lapse(busy, IF Fetches THEN TrWindow(e') ELSE tr_busy)
  /\ job' = IF Fetches THEN Served(job) ELSE job
  /\ UNCHANGED accesses

ReadBorder ==
  /\ e' = AfterBorderRead(e)
  /\ Lapse(busy, tr_busy)
  /\ UNCHANGED <<accesses, job>>

\* A read of #98 or a write to it
AccessVram ==
  /\ \/ UNCHANGED <<e, accesses>>
     \/ Access /\ \E w \in Writes : e' = [e EXCEPT !.vram[w[1]] = w[2]]
  /\ \E slots \in Regimes :
       AfterSteal(busy, slots) <= MaxBusy /\ Lapse(AfterSteal(busy, slots), tr_busy)
  /\ UNCHANGED job

\* A write to R#0, R#1 or R#25 that changes the mode
ChangeMode ==
  /\ Access
  /\ \E m \in ScreenModes \cup {NoMode} : m # e.scr_mode /\ e' = AfterModeChange(e, m)
  /\ Lapse(busy, tr_busy)
  /\ UNCHANGED job

\* An instruction without effect on the engine, a read of S#2 among them
Wait ==
  /\ Lapse(busy, tr_busy)
  /\ UNCHANGED <<e, accesses, job>>

ResetVdp ==
  /\ Access
  /\ e' = ResetEngine /\ busy' = 0 /\ tr_busy' = 0
  /\ job' = NoJob

Next ==
  \/ WriteBlock \/ WriteColour \/ ReadColour \/ ReadBorder \/ AccessVram \/ ChangeMode
  \/ \E c \in Commands : WriteCommand(c[1], c[2])
  \/ Wait \/ ResetVdp

Spec == Init /\ [][Next]_vars

\* The program goes on running, and in a transfer it serves the units it is
\* asked for by TR.
ServeUnit == TR /\ ((Feeds /\ WriteColour) \/ (Fetches /\ ReadColour))
FairSpec == Spec /\ WF_vars(Wait \/ AccessVram) /\ WF_vars(ServeUnit)

(***************************************************************************)
(* Properties                                                              *)
(***************************************************************************)
Job == [kind : Transfers, x : Coord, y : Row, tx : Int, ty : {-1, 1}, nx : Nat \ {0},
        ny : Nat \ {0}, how : How, served : Nat]

\* Registers, VRAM and windows have their types: no pixel operation puts
\* anything into a byte but pixels of the mode.
TypeOK ==
  /\ e \in Engine
  /\ busy \in Nat /\ tr_busy \in Nat /\ accesses \in 0 .. MaxAccesses
  /\ job = NoJob \/ job \in Job

\* An engine that shows a command under way has units of a transfer left to
\* ask for and a mode to run it in, so that the program can always bring the
\* command to its end; the counters of a transfer never reach zero under way.
BusyHasWork ==
  /\ e.ce => e.scr_mode # NoMode /\ e.transfer # NoTransfer
  /\ e.transfer # NoTransfer => e.transfer.nx \in 1 .. e.transfer.nx0 /\ e.transfer.ny > 0

ByteCodes == {"HMMV", "HMMM", "YMMM"}
CopyCodes == {"HMMM", "YMMM", "LMMM"}
BlockCodes == ByteCodes \cup {"PSET", "LMMV", "LMMM"}

\* What a pixel becomes when a colour is written to it.
Painted(m, old, colour, how) ==
  IF how.op = "Dummy" \/ (how.transparent /\ colour = 0) THEN old
  ELSE Combine(m, how.op, old, colour)

\* The pixel <<px, py>> after a block command, from the picture before it.
Expected(x, code, how, px, py) ==
  LET m == x.scr_mode
      r == x.regs
      per == IF code \in ByteCodes THEN PerByte(x) ELSE 1
      from == IF code = "YMMM" THEN r.dx ELSE r.sx
      columns == CASE code = "PSET" -> 1
                   [] code = "YMMM" -> Width(x, {r.dx}, 0, per)
                   [] code \in {"HMMM", "LMMM"} -> Width(x, {r.sx, r.dx}, r.nx, per)
                   [] OTHER -> Width(x, {r.dx}, r.nx, per)
      rows == CASE code = "PSET" -> 1
                [] code \in CopyCodes -> Height(x, {r.sy, r.dy})
                [] OTHER -> Height(x, {r.dy})
      here == {u \in (0 .. columns - 1) \X (0 .. rows - 1) :
                 /\ px \div per = ((r.dx \div per) + u[1] * StepX(x)) % (Line(x) \div per)
                 /\ py = (r.dy + u[2] * StepY(x)) % Traits[m].rows}
      colour(u) ==
        CASE code = "HMMV" -> (x.col \div Weight(m, px)) % Colours(m)
          [] code \in {"LMMV", "PSET"} -> x.col % Colours(m)
          [] OTHER -> Pixel(m, x.vram, ((from \div per) + u[1] * StepX(x)) * per + (px % per),
                            r.sy + u[2] * StepY(x))
      old == Pixel(m, x.vram, px, py)
  IN  IF here = {} THEN old
      ELSE Painted(m, old, colour(CHOOSE u \in here : TRUE),
                   IF code \in ByteCodes THEN Plain ELSE how)

\* No row is reached twice, and a copy runs away from what it has still to
\* read: from a source behind its destination, in the direction it takes.
Orderly(x, code) ==
  LET r == x.regs
      ahead == CASE code = "YMMM" -> 0
                 [] code = "HMMM" -> ((r.sx \div PerByte(x)) - (r.dx \div PerByte(x))) * StepX(x)
                 [] OTHER -> (r.sx - r.dx) * StepX(x)
      rows == Height(x, {r.dy})
  IN  IF code \notin CopyCodes THEN rows <= Traits[x.scr_mode].rows
      ELSE /\ r.sx < Line(x) /\ r.dx < Line(x)
           /\ r.arg.diy \/ (r.sy + rows <= Traits[x.scr_mode].rows /\ r.dy + rows <= Traits[x.scr_mode].rows)
           /\ r.sy # r.dy => (r.sy - r.dy) * StepY(x) > 0
           /\ r.sy = r.dy => ahead >= 0

\* The program sees the engine at rest and may give it a command.
AtRest == ~CE /\ e.scr_mode # NoMode /\ accesses < MaxAccesses

SameScreen(x, after, Want(_, _)) ==
  \A px \in 0 .. Line(x) - 1, py \in 0 .. Traits[x.scr_mode].rows - 1 :
    Pixel(x.scr_mode, after.vram, px, py) = Want(px, py)

\* A point, a fill or a copy changes exactly the rectangle it is asked for, cut off
\* at the borders of the line and at row 0, and gives every pixel the value
\* it would get if all were done at once; no unit is forgotten or done twice
\* in any direction, mode and logical operation, and copies of overlapping
\* areas come out right when they run the right way round.
BlocksExact ==
  AtRest => \A c \in Commands :
    c[1] \in BlockCodes /\ Orderly(e, c[1]) =>
      SameScreen(e, AfterCommand(e, c[1], c[2]),
                 LAMBDA px, py : Expected(e, c[1], c[2], px, py))

\* A LINE draws, for each step of its long side, the pixel nearest to the
\* ideal line on the short side, and stops at the border of the screen: the
\* error term is never off by one at either end.
LineExact ==
  AtRest => \A c \in Commands :
    LET r == e.regs
        Off(k) == IF r.nx = 0 THEN 0
                  ELSE (k * r.ny + r.nx - 1 - ((r.nx - 1) \div 2)) \div r.nx
        X(k) == r.dx + StepX(e) * (IF r.arg.maj THEN Off(k) ELSE k)
        Y(k) == r.dy + StepY(e) * (IF r.arg.maj THEN k ELSE Off(k))
        inside(k) == X(k) \in 0 .. Line(e) - 1 /\ Y(k) >= 0
        drawn == {k \in 0 .. r.nx : \A j \in 0 .. k : inside(j)}
        rows == Traits[e.scr_mode].rows
    IN  c[1] = "LINE" /\ r.ny <= r.nx /\ r.dx < Line(e) /\ (r.arg.diy \/ r.dy + r.nx < rows) =>
          SameScreen(e, AfterCommand(e, c[1], c[2]),
            LAMBDA px, py :
              IF \E k \in drawn : X(k) = px /\ Y(k) % rows = py
              THEN Painted(e.scr_mode, Pixel(e.scr_mode, e.vram, px, py),
                           e.col % Colours(e.scr_mode), c[2])
              ELSE Pixel(e.scr_mode, e.vram, px, py))

\* SRCH finds the first pixel of its line that answers the question, also
\* when it is the last one before the border; finding none it leaves BD
\* alone and the column one past the border.
SearchExact ==
  AtRest /\ e.regs.sx < Line(e) =>
    LET after == AfterCommand(e, "SRCH", Plain)
        path == {k \in 0 .. Line(e) - 1 : At(e, k) \in 0 .. Line(e) - 1}
        hits == {k \in path : Matches(e, k)}
    IN  IF hits = {} THEN /\ after.bd = e.bd
                          /\ after.asx = IF e.regs.arg.dix THEN -1 ELSE Line(e)
        ELSE after.bd /\ after.asx = At(e, Min(hits))

Serving == job' # job /\ job' # NoJob /\ job'.served > 0

\* The step from engine x to engine y served the last unit counted in j, at
\* its place.
UnitPlaced(x, y, j) ==
  LET px == PlaceX(j, j.served - 1)
      py == PlaceY(j, j.served - 1)
  IN  CASE j.kind = "LMCM" -> y.vram = x.vram /\ y.col = Pixel(x.scr_mode, x.vram, px, py)
        [] j.kind = "HMMC" -> y.vram = WriteByte(x.scr_mode, x.vram, px, py, y.col)
        [] j.kind = "LMMC" -> y.vram = WritePixel(x.scr_mode, x.vram, px, py, y.col, j.how)

\* Unit k of a transfer goes to, or comes from, place k of the rectangle the
\* transfer was started with, whatever the program writes to the command
\* registers, to VRAM or to the mode register meanwhile, and the unit armed
\* before the command is place 0.
UnitsInPlace == [][Serving => UnitPlaced(e, e', job')]_vars

\* A transfer ends with its last unit and not before: the program is never
\* left waiting for CE to drop after it has served all of them, the armed
\* one counted, and no unit is thrown away.
EndsWithLastUnit ==
  [][Serving => (e'.ce <=> job'.served < job'.nx * job'.ny)]_vars

\* Every command ends as long as the program serves the units TR asks for;
\* TR comes back after every unit.
CommandEnds == e.ce ~> ~e.ce

\* The busy window closes, also under a program that accesses VRAM all the
\* time and so takes slots from the command.
BusyCloses == busy > 0 ~> busy = 0
=============================================================================
