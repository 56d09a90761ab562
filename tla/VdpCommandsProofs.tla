------------------------- MODULE VdpCommandsProofs --------------------------
(***************************************************************************)
(* The clipping functions against a count of the units that stay on the    *)
(* screen, and the bookkeeping of transfers: for every screen geometry,    *)
(* parameter block and command.                                            *)
(***************************************************************************)
EXTENDS VdpCommands, FiniteSetTheorems, TLAPS

(***************************************************************************)
(* Clipping                                                                *)
(***************************************************************************)
LEMMA DivNat == \A a \in Nat, b \in Nat \ {0} : a \div b \in Nat
  OBVIOUS

\* A clipped number of columns is never zero.
LEMMA ClipNx1Positive ==
  ASSUME NEW dx \in Nat, NEW nx \in Nat, NEW dix \in BOOLEAN, NEW line \in Nat
  PROVE  ClipNx1(dx, nx, dix, line) \in Nat \ {0}
  BY DEF ClipNx1, OrAll, Least

\* At least one row is drawn.
LEMMA ClipNy1Positive ==
  ASSUME NEW dy \in Nat, NEW ny \in Nat, NEW diy \in BOOLEAN
  PROVE  ClipNy1(dy, ny, diy) \in Nat \ {0}
  BY RowsAssumption DEF ClipNy1, OrAll, Least

\* There are n numbers below n.
LEMMA CardinalityUpTo ==
  ASSUME NEW n \in Nat
  PROVE  Cardinality(0 .. n - 1) = n
  <1>1. CASE n = 0
    BY <1>1, FS_EmptySet
  <1>2. CASE n > 0
    BY <1>2, FS_Interval
  <1>3. QED
    BY <1>1, <1>2

\* clip_nx_1_pixel and clip_nx_1_byte count the units whose way from the
\* start stays on the line, to the left and to the right, for every length
\* of a line and every number of pixels in a unit; they are one where the
\* start is off the line.
THEOREM WidthIsClip ==
  ASSUME NEW x, NEW dx \in Nat, NEW wanted \in Nat, NEW per \in Nat \ {0},
         Line(x) \in Nat, x.regs.arg.dix \in BOOLEAN
  PROVE  Width(x, {dx}, wanted, per) =
         ClipNx1(dx \div per, wanted \div per, x.regs.arg.dix, Line(x) \div per)
  <1> DEFINE d == dx \div per
             w == wanted \div per
             u == Line(x) \div per
             all == IF w = 0 THEN u ELSE w
             S == {k \in 0 .. all - 1 : \A j \in 0 .. k : d + j * StepX(x) \in 0 .. u - 1}
             n == ClipNx1(d, w, x.regs.arg.dix, u)
  <1>1. d \in Nat /\ w \in Nat /\ u \in Nat /\ all \in Nat
    BY DivNat
  <1>2. Width(x, {dx}, wanted, per) = Greatest(1, Cardinality(S))
    BY DEF Width
  <1> HIDE DEF d, w, u
  <1>3. CASE d >= u
    <2>1. S = {}
      BY <1>1, <1>3, 0 \in Nat DEF StepX
    <2>2. QED
      <3>1. n = 1
        BY <1>3 DEF ClipNx1
      <3>2. Width(x, {dx}, wanted, per) = 1
        <4> HIDE DEF S
        <4>1. QED
          BY <1>2, <2>1, FS_EmptySet DEF Greatest
      <3>3. QED
        BY <3>1, <3>2 DEF d, w, u
  <1>4. CASE d < u
    <2>1. n \in Nat /\ n > 0 /\ n <= all
      BY <1>1, <1>4 DEF ClipNx1, OrAll, Least
    <2>2. S = 0 .. n - 1
      <3>1. CASE x.regs.arg.dix
        <4>1. n = IF all <= d + 1 THEN all ELSE d + 1
          BY <1>1, <1>4, <3>1 DEF ClipNx1, OrAll, Least
        <4>2. \A j \in Nat : d + j * StepX(x) = d - j
          BY <1>1, <3>1 DEF StepX
        <4>3. S = {k \in 0 .. all - 1 : \A j \in 0 .. k : d - j \in 0 .. u - 1}
          BY <1>1, <4>2
        <4> HIDE DEF S, n, all
        <4>4. QED
          BY <1>1, <1>4, <4>1, <4>3
      <3>2. CASE ~x.regs.arg.dix
        <4>1. n = IF all <= u - d THEN all ELSE u - d
          BY <1>1, <1>4, <3>2 DEF ClipNx1, OrAll, Least
        <4>2. \A j \in Nat : d + j * StepX(x) = d + j
          BY <1>1, <3>2 DEF StepX
        <4>3. S = {k \in 0 .. all - 1 : \A j \in 0 .. k : d + j \in 0 .. u - 1}
          BY <1>1, <4>2
        <4> HIDE DEF S, n, all
        <4>4. QED
          BY <1>1, <1>4, <4>1, <4>3
      <3>3. QED
        BY <3>1, <3>2
    <2>3. Cardinality(S) = n
      <3> HIDE DEF S, n
      <3>1. QED
        BY <2>1, <2>2, CardinalityUpTo
    <2>4. QED
      <3> HIDE DEF S
      <3>1. QED
        BY <1>2, <2>1, <2>3 DEF Greatest, d, w, u
  <1>5. QED
    BY <1>1, <1>3, <1>4

\* clip_ny_1 counts the rows from the start that exist: going up, those down
\* to row 0; going down, all.
THEOREM HeightIsClip ==
  ASSUME NEW x, NEW dy \in Nat, x.regs.ny \in Nat, x.regs.arg.diy \in BOOLEAN
  PROVE  Height(x, {dy}) = ClipNy1(dy, x.regs.ny, x.regs.arg.diy)
  <1> DEFINE all == IF x.regs.ny = 0 THEN MaxRows ELSE x.regs.ny
             S == {k \in 0 .. all - 1 : dy + k * StepY(x) >= 0}
             n == ClipNy1(dy, x.regs.ny, x.regs.arg.diy)
  <1>1. all \in Nat /\ all > 0
    BY RowsAssumption
  <1>2. Height(x, {dy}) = Cardinality(S)
    BY DEF Height
  <1>3. n \in Nat
    BY ClipNy1Positive
  <1>4. S = 0 .. n - 1
    <2>1. CASE x.regs.arg.diy
      <3>1. n = IF all <= dy + 1 THEN all ELSE dy + 1
        BY <2>1 DEF ClipNy1, OrAll, Least
      <3>2. S = {k \in 0 .. all - 1 : dy - k >= 0}
        BY <1>1, <2>1 DEF StepY
      <3> HIDE DEF S, n, all
      <3>3. QED
        BY <1>1, <3>1, <3>2
    <2>2. CASE ~x.regs.arg.diy
      <3>1. n = all
        BY <2>2 DEF ClipNy1, OrAll
      <3>2. S = {k \in 0 .. all - 1 : dy + k >= 0}
        BY <1>1, <2>2 DEF StepY
      <3> HIDE DEF S, n, all
      <3>3. QED
        BY <1>1, <3>1, <3>2
    <2>3. QED
      BY <2>1, <2>2
  <1>5. QED
    <2> HIDE DEF S
    <2>1. QED
      BY <1>2, <1>3, <1>4, CardinalityUpTo

(***************************************************************************)
(* The bookkeeping of a transfer                                           *)
(***************************************************************************)
LEMMA Division ==
  \A n \in Nat \ {0}, q \in Nat, r \in Nat :
    r < n => (q * n + r) \div n = q /\ (q * n + r) % n = r
  OBVIOUS

\* One factor more.
LEMMA OneMore == \A a \in Int, b \in Int : (a + 1) * b = a * b + b
  OBVIOUS

\* Fewer rows of the same length are no longer.
LEMMA FewerRows == \A n \in Nat, a \in Nat, b \in Nat : a <= b => a * n <= b * n
  OBVIOUS

\* A product of integers is one.
LEMMA ProductType == \A a \in Int, b \in Int : a * b \in Int
  OBVIOUS

Fields == {"vram", "regs", "col", "asx", "ce", "tr", "bd", "pending", "transfer", "scr_mode"}

\* What holds of an engine between two calls, the contents of VRAM and of
\* the colour register left out.
EngineInv(x) ==
  /\ DOMAIN x = Fields
  /\ x.regs \in Block
  /\ x.scr_mode \in ScreenModes \cup {NoMode}
  /\ x.ce \in BOOLEAN
  /\ x.transfer \in Transfer \cup {NoTransfer}
  /\ x.ce => x.scr_mode # NoMode /\ x.transfer # NoTransfer
  /\ x.transfer # NoTransfer => x.transfer.nx \in 1 .. x.transfer.nx0 /\ x.transfer.ny > 0

\* The counters and cursors of transfer t say how many units of j it has had.
Tracks(t, j) ==
  /\ j \in Job
  /\ t \in Transfer
  /\ t.kind = j.kind /\ t.nx0 = j.nx /\ t.x0 = j.x /\ t.tx = j.tx /\ t.ty = j.ty
  /\ t.kind = "LMMC" => t.how = j.how
  /\ t.nx \in 1 .. j.nx /\ t.ny \in 1 .. j.ny
  /\ t.x = j.x + (j.nx - t.nx) * j.tx
  /\ t.y = j.y + (j.ny - t.ny) * j.ty
  /\ j.served = (j.ny - t.ny) * j.nx + (j.nx - t.nx)

IInv ==
  /\ EngineInv(e)
  /\ e.ce => Tracks(e.transfer, job)
  /\ job = NoJob \/ job \in Job

\* The next unit of a transfer belongs to the place its number says.
LEMMA UnitPlace ==
  ASSUME NEW t, NEW j, Tracks(t, j)
  PROVE  t.x = PlaceX(j, j.served) /\ t.y = PlaceY(j, j.served)
  <1>1. j.nx \in Nat \ {0} /\ j.ny \in Nat /\ t.nx \in 1 .. j.nx /\ t.ny \in 1 .. j.ny
    BY DEF Tracks, Job
  <1>2. j.ny - t.ny \in Nat /\ j.nx - t.nx \in Nat /\ j.nx - t.nx < j.nx
    BY <1>1
  <1>3. /\ ((j.ny - t.ny) * j.nx + (j.nx - t.nx)) \div j.nx = j.ny - t.ny
        /\ ((j.ny - t.ny) * j.nx + (j.nx - t.nx)) % j.nx = j.nx - t.nx
    BY <1>1, <1>2, Division
  <1>4. QED
    BY <1>3 DEF Tracks, PlaceX, PlaceY

\* One unit further: the counters follow, and the command is over with the
\* last unit.
LEMMA UnitStep ==
  ASSUME NEW x, NEW j, EngineInv(x), x.ce, Tracks(x.transfer, j)
  PROVE  /\ EngineInv(NextUnit(x))
         /\ NextUnit(x).ce => Tracks(NextUnit(x).transfer, Served(j))
         /\ NextUnit(x).ce <=> Served(j).served < j.nx * j.ny
         /\ Served(j) \in Job
         /\ NextUnit(x).vram = x.vram /\ NextUnit(x).col = x.col
  <1> DEFINE t == x.transfer
             beside == [t EXCEPT !.x = @ + t.tx, !.nx = @ - 1]
             row == [t EXCEPT !.x = t.x0, !.nx = t.nx0, !.y = @ + t.ty, !.ny = @ - 1]
             P == (j.ny - t.ny) * j.nx
  <1>1. /\ t \in Transfer /\ j \in Job /\ t # NoTransfer
        /\ j.nx \in Nat \ {0} /\ j.ny \in Nat \ {0} /\ j.x \in Int /\ j.y \in Int
        /\ j.tx \in Int /\ j.ty \in Int /\ j.served \in Nat
        /\ t.nx \in 1 .. j.nx /\ t.ny \in 1 .. j.ny
    BY DEF EngineInv, Tracks, Job, Coord, Row
  <1>2. /\ Served(j) \in Job /\ Served(j) = [j EXCEPT !.served = j.served + 1]
        /\ Served(j).served = j.served + 1
    BY <1>1 DEF Served, Job
  <1>3. P \in Int /\ j.served = P + (j.nx - t.nx)
    BY <1>1, ProductType DEF Tracks
  <1>4. j.nx * j.ny = j.ny * j.nx /\ j.ny * j.nx \in Int
    BY <1>1, ProductType
  <1>5. P <= (j.ny - 1) * j.nx /\ (j.ny - 1) * j.nx + j.nx = j.ny * j.nx
    <2>1. j.ny - 1 \in Nat /\ j.ny - t.ny \in Nat /\ j.ny - t.ny <= j.ny - 1
      BY <1>1
    <2>2. P <= (j.ny - 1) * j.nx
      BY <2>1, <1>1, FewerRows
    <2>3. ((j.ny - 1) + 1) * j.nx = (j.ny - 1) * j.nx + j.nx
      BY <2>1, <1>1, OneMore
    <2>4. QED
      BY <2>2, <2>3, <1>1
  <1>6. CASE t.nx > 1
    <2>1. NextUnit(x) = [x EXCEPT !.transfer = beside]
      BY <1>6 DEF NextUnit
    <2>2. beside \in Transfer
      <3>1. t.x + t.tx \in Int /\ t.nx - 1 \in Nat
        BY <1>1, <1>6 DEF Transfer
      <3>2. QED
        BY <1>1, <3>1 DEF Transfer
    <2>3. beside # NoTransfer
      BY <2>2 DEF Transfer, NoTransfer, Transfers, CpuFed
    <2>4. EngineInv(NextUnit(x)) /\ NextUnit(x).ce /\ NextUnit(x).transfer = beside
          /\ NextUnit(x).vram = x.vram /\ NextUnit(x).col = x.col
      <3>1. beside.nx \in 1 .. beside.nx0 /\ beside.ny > 0
        BY <1>1, <1>6 DEF EngineInv, Transfer
      <3> HIDE DEF beside
      <3>2. NextUnit(x).transfer = beside /\ DOMAIN NextUnit(x) = Fields
        BY <2>1 DEF EngineInv, Fields
      <3>3. /\ NextUnit(x).ce = x.ce /\ NextUnit(x).regs = x.regs
            /\ NextUnit(x).scr_mode = x.scr_mode
            /\ NextUnit(x).vram = x.vram /\ NextUnit(x).col = x.col
        BY <2>1 DEF EngineInv, Fields
      <3>4. QED
        BY <2>2, <2>3, <3>1, <3>2, <3>3 DEF EngineInv
    <2>5. Served(j).served < j.nx * j.ny
      BY <1>1, <1>2, <1>3, <1>4, <1>5, <1>6, (j.ny - 1) * j.nx \in Int, ProductType
    <2>6. Tracks(beside, Served(j))
      <3>1. ((j.nx - t.nx) + 1) * j.tx = (j.nx - t.nx) * j.tx + j.tx
        BY <1>1, OneMore
      <3>2. (j.nx - t.nx) + 1 = j.nx - (t.nx - 1)
        BY <1>1
      <3>3. beside.x = j.x + (j.nx - (t.nx - 1)) * j.tx
        BY <3>1, <3>2, <1>1, ProductType DEF Tracks, Transfer
      <3>4. j.served + 1 = P + (j.nx - (t.nx - 1))
        BY <1>1, <1>3
      <3>5. QED
        BY <3>3, <3>4, <2>2, <1>1, <1>2, <1>6 DEF Tracks, Transfer, Job
    <2>7. QED
      BY <2>4, <2>5, <2>6, <1>2
  <1>7. CASE t.nx = 1 /\ t.ny > 1
    <2>1. NextUnit(x) = [x EXCEPT !.transfer = row]
      BY <1>7 DEF NextUnit
    <2>2. row \in Transfer
      <3>1. t.x0 \in Int /\ t.nx0 \in Nat /\ t.y + t.ty \in Int /\ t.ny - 1 \in Nat
        BY <1>1, <1>7 DEF Transfer
      <3>2. QED
        BY <1>1, <3>1 DEF Transfer
    <2>3. row # NoTransfer
      BY <2>2 DEF Transfer, NoTransfer, Transfers, CpuFed
    <2>4. row.nx = j.nx /\ row.nx0 = j.nx /\ row.ny = t.ny - 1 /\ row.x = j.x /\ row.y = t.y + j.ty
      BY <1>1 DEF Tracks, Transfer
    <2>5. EngineInv(NextUnit(x)) /\ NextUnit(x).ce /\ NextUnit(x).transfer = row
          /\ NextUnit(x).vram = x.vram /\ NextUnit(x).col = x.col
      <3>1. row.nx \in 1 .. row.nx0 /\ row.ny > 0
        BY <2>4, <1>1, <1>7
      <3> HIDE DEF row
      <3>2. NextUnit(x).transfer = row /\ DOMAIN NextUnit(x) = Fields
        BY <2>1 DEF EngineInv, Fields
      <3>3. /\ NextUnit(x).ce = x.ce /\ NextUnit(x).regs = x.regs
            /\ NextUnit(x).scr_mode = x.scr_mode
            /\ NextUnit(x).vram = x.vram /\ NextUnit(x).col = x.col
        BY <2>1 DEF EngineInv, Fields
      <3>4. QED
        BY <2>2, <2>3, <3>1, <3>2, <3>3 DEF EngineInv
    <2>6. j.ny - (t.ny - 1) = (j.ny - t.ny) + 1
      BY <1>1
    <2>7. j.served + 1 = (j.ny - (t.ny - 1)) * j.nx
      BY <2>6, <1>1, <1>3, <1>7, OneMore
    <2>8. Served(j).served < j.nx * j.ny
      <3>1. j.ny - (t.ny - 1) \in Nat /\ j.ny - (t.ny - 1) <= j.ny - 1
        BY <1>1, <1>7
      <3>2. (j.ny - (t.ny - 1)) * j.nx <= (j.ny - 1) * j.nx
        BY <3>1, <1>1, FewerRows
      <3>3. QED
        BY <3>2, <2>7, <1>1, <1>2, <1>4, <1>5, (j.ny - 1) * j.nx \in Int, ProductType
    <2>9. Tracks(row, Served(j))
      <3>1. t.y + j.ty = j.y + (j.ny - (t.ny - 1)) * j.ty
        BY <2>6, <1>1, OneMore, ProductType DEF Tracks
      <3>2. j.x = j.x + (j.nx - j.nx) * j.tx
        BY <1>1
      <3>3. j.served + 1 = (j.ny - (t.ny - 1)) * j.nx + (j.nx - j.nx)
        BY <2>7, <1>1
      <3>4. QED
        BY <3>1, <3>2, <3>3, <2>2, <2>4, <1>1, <1>2, <1>7 DEF Tracks, Transfer, Job
    <2>10. QED
      BY <2>5, <2>8, <2>9, <1>2
  <1>8. CASE t.nx = 1 /\ t.ny = 1
    <2>1. NextUnit(x) = Stopped(x)
      BY <1>8 DEF NextUnit
    <2>2. EngineInv(NextUnit(x)) /\ NextUnit(x).ce = FALSE
          /\ NextUnit(x).vram = x.vram /\ NextUnit(x).col = x.col
      BY <2>1 DEF EngineInv, Fields, Stopped, EndCommand
    <2>3. ~(Served(j).served < j.nx * j.ny)
      BY <1>1, <1>2, <1>3, <1>4, <1>5, <1>8
    <2>4. QED
      BY <2>2, <2>3, <1>2
  <1>9. QED
    BY <1>1, <1>6, <1>7, <1>8

\* A unit of a transfer is the next of its job, and the last one ends it.
LEMMA TransferStepKeeps ==
  ASSUME NEW x, NEW j, EngineInv(x), x.ce, Tracks(x.transfer, j)
  PROVE  /\ EngineInv(TransferStep(x))
         /\ TransferStep(x).ce => Tracks(TransferStep(x).transfer, Served(j))
         /\ TransferStep(x).ce <=> Served(j).served < j.nx * j.ny
         /\ Served(j) \in Job
         /\ TransferStep(x).vram = UnitVram(x) /\ TransferStep(x).col = x.col
  <1> DEFINE n == NextUnit(x)
             s == TransferStep(x)
  <1>1. /\ EngineInv(n)
        /\ n.ce <=> Served(j).served < j.nx * j.ny
        /\ n.ce => Tracks(n.transfer, Served(j))
        /\ Served(j) \in Job /\ n.col = x.col
    BY UnitStep
  <1>2. s = [n EXCEPT !.vram = UnitVram(x), !.pending = FALSE]
    BY DEF TransferStep
  <1> HIDE DEF n, s
  <1>3. /\ DOMAIN s = Fields /\ s.regs = n.regs /\ s.scr_mode = n.scr_mode /\ s.ce = n.ce
        /\ s.transfer = n.transfer /\ s.vram = UnitVram(x) /\ s.col = n.col
    BY <1>1, <1>2 DEF EngineInv, Fields
  <1>4. EngineInv(s)
    BY <1>1, <1>3 DEF EngineInv
  <1>5. QED
    BY <1>1, <1>3, <1>4 DEF s

\* What the program must know to start a transfer: the record JobOf writes
\* down agrees with the counters the engine starts with.
LEMMA BeginTracks ==
  ASSUME NEW x, DOMAIN x = Fields, x.regs \in Block, x.scr_mode \in ScreenModes \ {NoMode},
         x.ce = TRUE, NEW kind \in Transfers, NEW x0 \in Coord, NEW y0 \in Row,
         NEW per \in Nat \ {0}, NEW h \in How, NEW jh \in How, kind = "LMMC" => jh = h
  PROVE  LET b == Begin(x, kind, x0, y0, per, h)
             j == [kind |-> kind, x |-> x0, y |-> y0, tx |-> StepX(x) * per, ty |-> StepY(x),
                   nx |-> Width(x, {x0}, x.regs.nx, per), ny |-> Height(x, {y0}), how |-> jh,
                   served |-> 0]
         IN  /\ EngineInv(b) /\ b.ce /\ Tracks(b.transfer, j) /\ j \in Job
             /\ b.vram = x.vram /\ b.col = x.col /\ b.scr_mode = x.scr_mode
             /\ b.pending = x.pending
  <1> DEFINE b == Begin(x, kind, x0, y0, per, h)
             nx == ClipNx1(x0 \div per, x.regs.nx \div per, x.regs.arg.dix, Line(x) \div per)
             ny == ClipNy1(y0, x.regs.ny, x.regs.arg.diy)
             t == [kind |-> kind, x |-> x0, y |-> y0, nx |-> nx, ny |-> ny,
                   x0 |-> x0, nx0 |-> nx, tx |-> StepX(x) * per, ty |-> StepY(x), how |-> h]
             j == [kind |-> kind, x |-> x0, y |-> y0, tx |-> StepX(x) * per, ty |-> StepY(x),
                   nx |-> Width(x, {x0}, x.regs.nx, per), ny |-> Height(x, {y0}), how |-> jh,
                   served |-> 0]
  <1>1. /\ x0 \in Nat /\ y0 \in Nat /\ x.regs.nx \in Nat /\ x.regs.ny \in Nat
        /\ x.regs.arg.dix \in BOOLEAN /\ x.regs.arg.diy \in BOOLEAN
    BY RowsAssumption, EngineAssumption DEF Block, Arg, Coord, Row
  <1>2. x.scr_mode # NoMode /\ Line(x) \in Nat \ {0}
    BY EngineAssumption DEF Line
  <1>3. nx \in Nat \ {0} /\ ny \in Nat \ {0}
    BY <1>1, <1>2, DivNat, ClipNx1Positive, ClipNy1Positive
  <1>4. Width(x, {x0}, x.regs.nx, per) = nx /\ Height(x, {y0}) = ny
    BY <1>1, <1>2, WidthIsClip, HeightIsClip
  <1>5. StepX(x) * per \in Int /\ StepY(x) \in {-1, 1}
    BY ProductType DEF StepX, StepY
  <1>6. b = [x EXCEPT !.tr = TRUE, !.transfer = t]
    BY DEF Begin
  <1> HIDE DEF nx, ny
  <1>7. t \in Transfer
    BY <1>1, <1>3, <1>5 DEF Transfer
  <1>8. t # NoTransfer
    BY DEF NoTransfer, Transfers, CpuFed
  <1>9. j \in Job
    BY <1>3, <1>4, <1>5 DEF Job
  <1>10. Tracks(t, j)
    <2>1. /\ x0 = x0 + (nx - nx) * (StepX(x) * per) /\ y0 = y0 + (ny - ny) * StepY(x)
          /\ 0 = (ny - ny) * nx + (nx - nx)
      BY <1>1, <1>3, <1>5
    <2>2. nx \in 1 .. nx /\ ny \in 1 .. ny
      BY <1>3
    <2>3. QED
      BY <1>4, <1>7, <1>9, <2>1, <2>2 DEF Tracks
  <1>11. t.nx \in 1 .. t.nx0 /\ t.ny > 0
    BY <1>3
  <1> HIDE DEF t, b
  <1>12. /\ DOMAIN b = Fields /\ b.regs = x.regs /\ b.scr_mode = x.scr_mode /\ b.ce = x.ce
         /\ b.transfer = t /\ b.vram = x.vram /\ b.col = x.col /\ b.pending = x.pending
    BY <1>6 DEF Fields
  <1>13. EngineInv(b)
    BY <1>2, <1>7, <1>8, <1>11, <1>12 DEF EngineInv
  <1>14. QED
    BY <1>9, <1>10, <1>12, <1>13 DEF b, j

\* A command that is done leaves the transfer before it alone.
LEMMA EndedKeeps ==
  ASSUME NEW x, EngineInv(x), NEW y, DOMAIN y = Fields, y.regs = x.regs,
         y.scr_mode = x.scr_mode, y.transfer = x.transfer
  PROVE  EngineInv(EndCommand(y)) /\ ~EndCommand(y).ce
  <1> DEFINE z == EndCommand(y)
  <1>1. z = [y EXCEPT !.ce = FALSE]
    BY DEF EndCommand
  <1> HIDE DEF z
  <1>2. /\ DOMAIN z = Fields /\ z.regs = x.regs /\ z.scr_mode = x.scr_mode
        /\ z.transfer = x.transfer /\ z.ce = FALSE
    BY <1>1 DEF Fields
  <1>3. EngineInv(z)
    BY <1>2 DEF EngineInv
  <1>4. QED
    BY <1>2, <1>3 DEF z

\* A command that is stopped leaves nothing behind.
LEMMA StoppedKeeps ==
  ASSUME NEW x, EngineInv(x)
  PROVE  EngineInv(Stopped(x)) /\ ~Stopped(x).ce
  BY DEF EngineInv, Fields, Stopped, EndCommand

\* A block command is over when the write to R#46 is.
LEMMA BlockCommandKeeps ==
  ASSUME NEW x, EngineInv(x), NEW how, NEW code \in Codes \ Transfers
  PROVE  EngineInv(AfterCommand(x, code, how)) /\ ~AfterCommand(x, code, how).ce
  <1> DEFINE b == [x EXCEPT !.ce = TRUE]
             a == AfterCommand(x, code, how)
  <1>1. CASE x.scr_mode = NoMode \/ code = "ABRT"
    BY <1>1, StoppedKeeps DEF AfterCommand
  <1>2. CASE ~(x.scr_mode = NoMode \/ code = "ABRT")
    <2>1. /\ DOMAIN b = Fields /\ b.regs = x.regs /\ b.scr_mode = x.scr_mode
          /\ b.transfer = x.transfer
      BY DEF EngineInv, Fields
    <2> HIDE DEF b
    <2>2. \A v : EngineInv(Drawn(b, v)) /\ ~Drawn(b, v).ce
      <3>1. SUFFICES ASSUME NEW v PROVE EngineInv(Drawn(b, v)) /\ ~Drawn(b, v).ce
        OBVIOUS
      <3> DEFINE y == [b EXCEPT !.vram = v]
      <3>2. DOMAIN y = Fields /\ y.regs = x.regs /\ y.scr_mode = x.scr_mode /\ y.transfer = x.transfer
        BY <2>1 DEF Fields
      <3>3. Drawn(b, v) = EndCommand(y)
        BY DEF Drawn
      <3> HIDE DEF y
      <3>4. QED
        BY <3>2, <3>3, EndedKeeps
    <2>3. EngineInv(RunPoint(b)) /\ ~RunPoint(b).ce
      <3> DEFINE y == [b EXCEPT !.col = Pixel(b.scr_mode, b.vram, b.regs.sx, b.regs.sy)]
      <3>1. DOMAIN y = Fields /\ y.regs = x.regs /\ y.scr_mode = x.scr_mode /\ y.transfer = x.transfer
        BY <2>1 DEF Fields
      <3>2. RunPoint(b) = EndCommand(y)
        BY DEF RunPoint
      <3> HIDE DEF y
      <3>3. QED
        BY <3>1, <3>2, EndedKeeps
    <2>4. EngineInv(RunSrch(b)) /\ ~RunSrch(b).ce
      <3> DEFINE k == SearchEnd(b)
                 found == Matches(b, k)
                 y == [b EXCEPT !.bd = @ \/ found, !.asx = IF found THEN At(b, k) ELSE At(b, k + 1)]
      <3>1. DOMAIN y = Fields /\ y.regs = x.regs /\ y.scr_mode = x.scr_mode /\ y.transfer = x.transfer
        <4> HIDE DEF k, found
        <4>1. QED
          BY <2>1 DEF Fields
      <3>2. RunSrch(b) = EndCommand(y)
        BY DEF RunSrch
      <3> HIDE DEF y
      <3>3. QED
        BY <3>1, <3>2, EndedKeeps
    <2>5. a \in {RunPoint(b), RunSrch(b), Drawn(b, Pset(b, how)), Drawn(b, LineEnd(b, how).vram),
                 Drawn(b, Lmmv(b, how)), Drawn(b, Lmmm(b, how)), Drawn(b, Hmmv(b)),
                 Drawn(b, Hmmm(b)), Drawn(b, Ymmm(b))}
      BY <1>2 DEF AfterCommand, Codes, Transfers, CpuFed, b
    <2>6. QED
      <3> HIDE DEF a
      <3>1. EngineInv(a) /\ ~a.ce
        BY <2>2, <2>3, <2>4, <2>5
      <3>2. QED
        BY <3>1 DEF a
  <1>3. QED
    BY <1>1, <1>2

\* What a step with a unit of the CPU has done.
LEMMA TransferStepPlaced ==
  ASSUME NEW x, NEW j, EngineInv(x), x.ce, Tracks(x.transfer, j), j.kind \in CpuFed
  PROVE  UnitPlaced(x, TransferStep(x), Served(j))
  <1> DEFINE s == TransferStep(x)
             k == Served(j)
  <1>1. s.vram = UnitVram(x) /\ s.col = x.col
    BY TransferStepKeeps
  <1>2. /\ k.kind = j.kind /\ k.how = j.how /\ k.nx = j.nx /\ k.x = j.x /\ k.y = j.y
        /\ k.tx = j.tx /\ k.ty = j.ty /\ k.served - 1 = j.served
    BY DEF Served, Tracks, Job
  <1>3. PlaceX(k, j.served) = x.transfer.x /\ PlaceY(k, j.served) = x.transfer.y
    BY <1>2, UnitPlace DEF PlaceX, PlaceY
  <1> HIDE DEF s, k
  <1>4. UnitPlaced(x, s, k)
    <2>1. x.transfer.kind = j.kind
      BY DEF Tracks
    <2>2. CASE j.kind = "HMMC"
      BY <1>1, <1>2, <1>3, <2>1, <2>2 DEF UnitPlaced, UnitVram
    <2>3. CASE j.kind = "LMMC"
      BY <1>1, <1>2, <1>3, <2>1, <2>3 DEF UnitPlaced, UnitVram, Tracks
    <2>4. QED
      BY <2>2, <2>3 DEF CpuFed
  <1>5. QED
    BY <1>4 DEF s, k

\* What the write of a transfer command does, its first unit included.
LEMMA TransferCommandKeeps ==
  ASSUME NEW x, EngineInv(x), x.scr_mode # NoMode, NEW code \in Transfers, NEW how \in How
  PROVE  LET a == AfterCommand(x, code, how)
             j == JobOf(x, code, how)
         IN  /\ EngineInv(a) /\ j \in Job /\ j.served = 0
             /\ IF code \in CpuFed /\ x.pending
                THEN /\ Served(j) \in Job
                     /\ a.ce => Tracks(a.transfer, Served(j))
                     /\ a.ce <=> Served(j).served < j.nx * j.ny
                     /\ UnitPlaced(x, a, Served(j))
                ELSE a.ce => Tracks(a.transfer, j)
  <1> DEFINE b == [x EXCEPT !.ce = TRUE]
             a == AfterCommand(x, code, how)
             j == JobOf(x, code, how)
             per == IF code = "HMMC" THEN PerByte(x) ELSE 1
             x0 == IF code = "LMCM" THEN x.regs.sx ELSE x.regs.dx
             y0 == IF code = "LMCM" THEN x.regs.sy ELSE x.regs.dy
             h == IF code = "LMMC" THEN how ELSE Plain
             first == Begin(b, code, x0, y0, per, h)
             k == [kind |-> code, x |-> x0, y |-> y0, tx |-> StepX(b) * per, ty |-> StepY(b),
                   nx |-> Width(b, {x0}, b.regs.nx, per), ny |-> Height(b, {y0}), how |-> how,
                   served |-> 0]
  <1>1. /\ x0 \in Coord /\ y0 \in Row /\ h \in How
        /\ code = "LMMC" => how = h
    BY DEF EngineInv, Block, Plain, How
  <1>2. /\ per \in Nat \ {0} /\ x.scr_mode \in ScreenModes /\ Line(x) \in Nat
    BY EngineAssumption DEF EngineInv, PerByte, Line
  <1>3. /\ DOMAIN b = Fields /\ b.regs = x.regs /\ b.scr_mode = x.scr_mode /\ b.ce = TRUE
        /\ b.vram = x.vram /\ b.col = x.col /\ b.pending = x.pending /\ b.transfer = x.transfer
    BY DEF EngineInv, Fields
  <1> HIDE DEF b
  <1>4. StepX(b) = StepX(x) /\ StepY(b) = StepY(x) /\ Line(b) = Line(x) /\ PerByte(b) = PerByte(x)
    BY <1>3 DEF StepX, StepY, Line, PerByte
  <1>5. j = k
    <2>1. /\ x0 \in Nat /\ y0 \in Nat /\ x.regs.nx \in Nat /\ x.regs.ny \in Nat
          /\ x.regs.arg.dix \in BOOLEAN /\ x.regs.arg.diy \in BOOLEAN
      BY <1>1, RowsAssumption, EngineAssumption DEF EngineInv, Block, Arg, Coord, Row
    <2>2. Width(b, {x0}, b.regs.nx, per) = Width(x, {x0}, x.regs.nx, per)
      <3> HIDE DEF x0, per
      <3>1. QED
        BY <1>2, <1>3, <1>4, <2>1, WidthIsClip
    <2>3. Height(b, {y0}) = Height(x, {y0})
      <3> HIDE DEF y0
      <3>1. QED
        BY <1>3, <2>1, HeightIsClip
    <2>4. QED
      BY <1>3, <1>4, <2>2, <2>3 DEF JobOf
  <1>6. /\ EngineInv(first) /\ first.ce /\ Tracks(first.transfer, j) /\ j \in Job
        /\ first.vram = x.vram /\ first.col = x.col /\ first.scr_mode = x.scr_mode
        /\ first.pending = x.pending
    <2> HIDE DEF x0, y0, per, h, j
    <2>1. b.regs \in Block /\ b.scr_mode \in ScreenModes \ {NoMode}
      BY <1>2, <1>3 DEF EngineInv
    <2>2. /\ EngineInv(first) /\ first.ce /\ Tracks(first.transfer, k) /\ k \in Job
          /\ first.vram = b.vram /\ first.col = b.col /\ first.scr_mode = b.scr_mode
          /\ first.pending = b.pending
      BY <1>1, <1>2, <1>3, <2>1, BeginTracks
    <2> HIDE DEF first, k
    <2>3. QED
      BY <1>3, <1>5, <2>2
  <1>7. j.served = 0 /\ j.kind = code /\ j.how = how
    BY DEF JobOf
  <1> HIDE DEF j, k
  <1>8. CASE code = "LMCM"
    <2>1. a = [first EXCEPT !.asx = b.regs.sx]
      BY <1>2, <1>3, <1>8 DEF AfterCommand, StartLmcm, b
    <2> HIDE DEF a, first
    <2>2. /\ DOMAIN a = Fields /\ a.regs = first.regs /\ a.scr_mode = first.scr_mode
          /\ a.ce = first.ce /\ a.transfer = first.transfer
      BY <1>6, <2>1 DEF EngineInv, Fields
    <2>3. EngineInv(a)
      BY <1>6, <2>2 DEF EngineInv
    <2>4. QED
      BY <1>6, <1>7, <1>8, <2>2, <2>3 DEF CpuFed, a, j
  <1>9. CASE code \in CpuFed
    <2>1. a = FirstUnit(first)
      <3>1. CASE code = "LMMC"
        BY <1>3, <1>4, <3>1 DEF AfterCommand, StartLmmc, b
      <3>2. CASE code = "HMMC"
        BY <1>3, <1>4, <3>2 DEF AfterCommand, StartHmmc, b
      <3>3. QED
        BY <1>9, <3>1, <3>2 DEF CpuFed
    <2> HIDE DEF a, first
    <2>2. CASE x.pending
      <3>1. a = TransferStep(first)
        BY <1>6, <2>1, <2>2 DEF FirstUnit
      <3>2. /\ EngineInv(a) /\ Served(j) \in Job
            /\ a.ce => Tracks(a.transfer, Served(j))
        BY <1>6, <3>1, TransferStepKeeps
      <3>3. a.ce <=> Served(j).served < j.nx * j.ny
        BY <1>6, <3>1, TransferStepKeeps
      <3>4. UnitPlaced(first, a, Served(j))
        BY <1>6, <1>7, <1>9, <3>1, TransferStepPlaced
      <3>5. UnitPlaced(x, a, Served(j))
        BY <1>6, <3>4 DEF UnitPlaced
      <3>6. QED
        BY <1>6, <1>7, <1>9, <2>2, <3>2, <3>3, <3>5 DEF a, j
    <2>3. CASE ~x.pending
      <3>1. a = first
        BY <1>6, <2>1, <2>3 DEF FirstUnit
      <3>2. QED
        BY <1>6, <1>7, <1>9, <2>3, <3>1 DEF a, j
    <2>4. QED
      BY <2>2, <2>3
  <1>10. QED
    BY <1>8, <1>9 DEF Transfers

(***************************************************************************)
(* The steps                                                               *)
(***************************************************************************)
\* What a step does to the transfer: it goes on, and a unit it serves is the
\* one whose turn it is.
StepInv ==
  /\ IInv'
  /\ Serving => /\ UnitPlaced(e, e', job')
                /\ e'.ce <=> job'.served < job'.nx * job'.ny

\* What leaves parameters, mode and transfer alone keeps the engine
\* consistent.
LEMMA SameWork ==
  ASSUME NEW x, EngineInv(x), NEW y, DOMAIN y = Fields, y.regs \in Block,
         y.scr_mode = x.scr_mode, y.ce = x.ce, y.transfer = x.transfer
  PROVE  EngineInv(y)
  BY DEF EngineInv

\* A step that leaves transfer and job alone serves nothing.
LEMMA QuietStep ==
  ASSUME IInv, DOMAIN e' = Fields, e'.regs \in Block, e'.scr_mode = e.scr_mode,
         e'.ce = e.ce, e'.transfer = e.transfer, job' = job
  PROVE  StepInv
  <1>1. EngineInv(e')
    <2> DEFINE y == e'
    <2>1. DOMAIN y = Fields /\ y.regs \in Block /\ y.scr_mode = e.scr_mode /\ y.ce = e.ce
          /\ y.transfer = e.transfer
      OBVIOUS
    <2> HIDE DEF y
    <2>2. EngineInv(y)
      BY <2>1 DEF EngineInv, IInv
    <2>3. QED
      BY <2>2 DEF y
  <1>2. QED
    BY <1>1 DEF IInv, StepInv, Serving, EngineInv, Tracks

\* A block of parameters keeps the invariant.
LEMMA WriteBlockKeeps ==
  ASSUME IInv, WriteBlock
  PROVE  StepInv
  <1>1. PICK b \in Block : e' = [e EXCEPT !.regs = b]
    BY ProgramAssumption DEF WriteBlock, AfterBlock
  <1>2. /\ DOMAIN e' = Fields /\ e'.regs \in Block /\ e'.scr_mode = e.scr_mode
        /\ e'.ce = e.ce /\ e'.transfer = e.transfer
    BY <1>1 DEF IInv, EngineInv, Fields
  <1>3. QED
    BY <1>2, QuietStep DEF WriteBlock

\* So does a write of the colour register, which may be a unit.
LEMMA WriteColourKeeps ==
  ASSUME IInv, WriteColour
  PROVE  StepInv
  <1>1. PICK v \in Colours44 : e' = AfterColour(e, v)
    BY DEF WriteColour
  <1> DEFINE w == [e EXCEPT !.col = v, !.pending = TRUE]
  <1>2. /\ DOMAIN w = Fields /\ w.regs = e.regs /\ w.scr_mode = e.scr_mode /\ w.ce = e.ce
        /\ w.transfer = e.transfer /\ w.vram = e.vram
    BY DEF IInv, EngineInv, Fields
  <1>3. CASE Feeds
    <2>1. e' = TransferStep(w) /\ job' = Served(job)
      BY <1>1, <1>3 DEF AfterColour, Feeds, WriteColour
    <2> HIDE DEF w
    <2>2. EngineInv(w) /\ w.ce /\ Tracks(w.transfer, job)
      BY <1>2, <1>3 DEF IInv, EngineInv, Feeds
    <2>3. job.kind \in CpuFed /\ job.nx = Served(job).nx /\ job.ny = Served(job).ny
      BY <1>2, <1>3, <2>2 DEF Tracks, Feeds, Served, Job
    <2>4. /\ EngineInv(e') /\ job' \in Job
          /\ e'.ce => Tracks(e'.transfer, job')
      BY <2>1, <2>2, TransferStepKeeps
    <2>5. e'.ce <=> job'.served < job'.nx * job'.ny
      BY <2>1, <2>2, <2>3, TransferStepKeeps
    <2>6. UnitPlaced(w, e', job')
      BY <2>1, <2>2, <2>3, TransferStepPlaced
    <2>7. UnitPlaced(e, e', job')
      BY <1>2, <2>6 DEF UnitPlaced
    <2>8. QED
      BY <2>4, <2>5, <2>7 DEF StepInv, IInv, EngineInv
  <1>4. CASE ~Feeds
    <2>1. job' = job /\ e' \in {w, [w EXCEPT !.tr = FALSE]}
      BY <1>1, <1>4 DEF AfterColour, Feeds, WriteColour
    <2> HIDE DEF w
    <2>2. /\ DOMAIN e' = Fields /\ e'.regs = w.regs /\ e'.scr_mode = w.scr_mode
          /\ e'.ce = w.ce /\ e'.transfer = w.transfer
      BY <1>2, <2>1 DEF Fields
    <2>3. e.regs \in Block
      BY DEF IInv, EngineInv
    <2>4. QED
      BY <1>2, <2>1, <2>2, <2>3, QuietStep
  <1>5. QED
    BY <1>3, <1>4

\* So does a status read, which may fetch a unit.
LEMMA ReadColourKeeps ==
  ASSUME IInv, ReadColour
  PROVE  StepInv
  <1>1. CASE Fetches
    <2> DEFINE t == e.transfer
               p == Pixel(e.scr_mode, e.vram, t.x, t.y)
               w == [e EXCEPT !.col = p]
               n == NextUnit(w)
    <2>1. /\ DOMAIN w = Fields /\ w.regs = e.regs /\ w.scr_mode = e.scr_mode /\ w.ce = e.ce
          /\ w.transfer = e.transfer /\ w.vram = e.vram /\ w.col = p
      BY DEF IInv, EngineInv, Fields
    <2>2. /\ e' = IF n.transfer = NoTransfer THEN [n EXCEPT !.asx = t.x0, !.tr = FALSE]
                                             ELSE [n EXCEPT !.asx = n.transfer.x]
          /\ job' = Served(job)
      BY <1>1 DEF ReadColour, AfterColourRead, Fetches
    <2> HIDE DEF w, p
    <2>3. EngineInv(w) /\ w.ce /\ Tracks(w.transfer, job)
      BY <1>1, <2>1 DEF IInv, EngineInv, Fetches
    <2>4. /\ EngineInv(n) /\ Served(job) \in Job /\ n.vram = w.vram /\ n.col = w.col
          /\ n.ce => Tracks(n.transfer, Served(job))
      BY <2>3, UnitStep
    <2>5. n.ce <=> Served(job).served < job.nx * job.ny
      BY <2>3, UnitStep
    <2> HIDE DEF n
    <2>6. DOMAIN n = Fields
      BY <2>4 DEF EngineInv
    <2>7. /\ DOMAIN e' = Fields /\ e'.regs = n.regs /\ e'.scr_mode = n.scr_mode /\ e'.ce = n.ce
          /\ e'.transfer = n.transfer /\ e'.vram = n.vram /\ e'.col = n.col
      BY <2>2, <2>6 DEF Fields
    <2>8. EngineInv(e')
      <3> DEFINE y == e'
      <3>1. /\ DOMAIN y = Fields /\ y.regs = n.regs /\ y.scr_mode = n.scr_mode /\ y.ce = n.ce
            /\ y.transfer = n.transfer
        BY <2>7
      <3> HIDE DEF y
      <3>2. EngineInv(y)
        BY <2>4, <3>1 DEF EngineInv
      <3>3. QED
        BY <3>2 DEF y
    <2>9. /\ job'.kind = "LMCM" /\ job'.nx = job.nx /\ job'.ny = job.ny
          /\ PlaceX(job', job'.served - 1) = t.x /\ PlaceY(job', job'.served - 1) = t.y
      <3>1. job \in Job /\ job.kind = "LMCM" /\ t.x = PlaceX(job, job.served)
            /\ t.y = PlaceY(job, job.served)
        BY <1>1, <2>1, <2>3, UnitPlace DEF Tracks, Fetches
      <3>2. /\ job'.kind = job.kind /\ job'.nx = job.nx /\ job'.ny = job.ny /\ job'.x = job.x
            /\ job'.y = job.y /\ job'.tx = job.tx /\ job'.ty = job.ty
            /\ job'.served - 1 = job.served
        BY <2>2, <3>1 DEF Served, Job
      <3>3. QED
        BY <3>1, <3>2 DEF PlaceX, PlaceY
    <2>10. UnitPlaced(e, e', job')
      BY <2>1, <2>4, <2>7, <2>9 DEF UnitPlaced, p
    <2>11. e'.ce <=> job'.served < job'.nx * job'.ny
      BY <2>2, <2>5, <2>7, <2>9
    <2>12. (e'.ce => Tracks(e'.transfer, job')) /\ job' \in Job
      BY <2>2, <2>4, <2>7
    <2>13. QED
      BY <2>8, <2>10, <2>11, <2>12 DEF StepInv, IInv, EngineInv
  <1>2. CASE ~Fetches
    <2>1. e' = e /\ job' = job
      BY <1>2 DEF ReadColour, AfterColourRead, Fetches
    <2>2. QED
      BY <2>1, QuietStep DEF IInv, EngineInv
  <1>3. QED
    BY <1>1, <1>2

\* So does a command.
LEMMA WriteCommandKeeps ==
  ASSUME IInv, NEW c \in Commands, WriteCommand(c[1], c[2])
  PROVE  StepInv
  <1> DEFINE code == c[1]
             how == c[2]
             a == AfterCommand(e, code, how)
             j == JobOf(e, code, how)
  <1>1. code \in Codes /\ how \in How
    BY ProgramAssumption
  <1>2. EngineInv(e)
    BY DEF IInv
  <1> HIDE DEF code, how
  <1>3. e' = a
    BY DEF WriteCommand, code, how
  <1>4. CASE e.scr_mode # NoMode /\ code \in Transfers
    <2>1. /\ EngineInv(a) /\ j \in Job /\ j.served = 0
          /\ IF code \in CpuFed /\ e.pending
             THEN /\ Served(j) \in Job
                  /\ a.ce => Tracks(a.transfer, Served(j))
                  /\ a.ce <=> Served(j).served < j.nx * j.ny
                  /\ UnitPlaced(e, a, Served(j))
             ELSE a.ce => Tracks(a.transfer, j)
      BY <1>1, <1>2, <1>4, TransferCommandKeeps
    <2>2. job' = IF code \in CpuFed /\ e.pending THEN Served(j) ELSE j
      BY <1>4 DEF WriteCommand, code, how
    <2> HIDE DEF a, j
    <2>3. CASE code \in CpuFed /\ e.pending
      <3>1. Served(j).nx = j.nx /\ Served(j).ny = j.ny
        BY <2>1 DEF Served, Job
      <3>2. UnitPlaced(e, e', job')
        BY <1>3, <2>1, <2>2, <2>3
      <3>3. e'.ce <=> job'.served < job'.nx * job'.ny
        BY <1>3, <2>1, <2>2, <2>3, <3>1
      <3>4. /\ job' \in Job
            /\ e'.ce => Tracks(e'.transfer, job')
        BY <1>3, <2>1, <2>2, <2>3
      <3>5. EngineInv(e')
        BY <1>3, <2>1
      <3>6. QED
        BY <3>2, <3>3, <3>4, <3>5 DEF StepInv, IInv, EngineInv
    <2>4. CASE ~(code \in CpuFed /\ e.pending)
      <3>1. job' = j /\ ~Serving
        BY <2>1, <2>2, <2>4 DEF Serving
      <3>2. e'.ce => Tracks(e'.transfer, job')
        BY <1>3, <2>1, <2>4, <3>1
      <3>3. EngineInv(e')
        BY <1>3, <2>1
      <3>4. QED
        BY <2>1, <3>1, <3>2, <3>3 DEF StepInv, IInv, EngineInv
    <2>5. QED
      BY <2>3, <2>4
  <1>5. CASE ~(e.scr_mode # NoMode /\ code \in Transfers)
    <2>1. job' = NoJob
      BY <1>5 DEF WriteCommand, code, how
    <2>2. EngineInv(a) /\ ~a.ce
      <3>1. CASE code \in Transfers
        BY <1>2, <1>5, <3>1, StoppedKeeps DEF AfterCommand
      <3>2. CASE code \notin Transfers
        BY <1>1, <1>2, <3>2, BlockCommandKeeps
      <3>3. QED
        BY <3>1, <3>2
    <2> HIDE DEF a
    <2>3. EngineInv(e') /\ ~e'.ce
      BY <1>3, <2>2
    <2>4. QED
      BY <2>1, <2>3 DEF StepInv, IInv, EngineInv, Serving
  <1>6. QED
    BY <1>4, <1>5

\* So does a change of the mode.
LEMMA ChangeModeKeeps ==
  ASSUME IInv, ChangeMode
  PROVE  StepInv
  <1>1. PICK m \in ScreenModes \cup {NoMode} : e' = AfterModeChange(e, m)
    BY DEF ChangeMode
  <1>2. job' = job /\ ~Serving
    BY DEF ChangeMode, Serving
  <1>3. CASE e.ce /\ m = NoMode
    <2> DEFINE s == Stopped(e)
    <2>1. EngineInv(s) /\ ~s.ce
      BY StoppedKeeps DEF IInv
    <2>2. e' = [s EXCEPT !.scr_mode = m]
      BY <1>1, <1>3 DEF AfterModeChange
    <2> HIDE DEF s
    <2>3. EngineInv(e') /\ ~e'.ce
      BY <2>1, <2>2 DEF EngineInv, Fields
    <2>4. QED
      BY <1>2, <2>3 DEF StepInv, IInv, EngineInv
  <1>4. CASE ~(e.ce /\ m = NoMode)
    <2>1. e' = [e EXCEPT !.scr_mode = m]
      BY <1>1, <1>4 DEF AfterModeChange
    <2>2. EngineInv(e') /\ e'.ce = e.ce /\ e'.transfer = e.transfer
      BY <1>4, <2>1 DEF IInv, EngineInv, Fields
    <2>3. QED
      BY <1>2, <2>2 DEF StepInv, IInv, EngineInv
  <1>5. QED
    BY <1>3, <1>4

\* So does an access to VRAM.
LEMMA AccessVramKeeps ==
  ASSUME IInv, AccessVram
  PROVE  StepInv
  <1>1. CASE e' = e
    BY <1>1, QuietStep DEF AccessVram, IInv, EngineInv
  <1>2. CASE \E w \in Writes : e' = [e EXCEPT !.vram[w[1]] = w[2]]
    <2>1. PICK v : e' = [e EXCEPT !.vram = v]
      BY <1>2
    <2>2. /\ DOMAIN e' = Fields /\ e'.regs \in Block /\ e'.scr_mode = e.scr_mode
          /\ e'.ce = e.ce /\ e'.transfer = e.transfer
      BY <2>1 DEF IInv, EngineInv, Fields
    <2>3. QED
      BY <2>2, QuietStep DEF AccessVram
  <1>3. QED
    BY <1>1, <1>2 DEF AccessVram

\* An engine after a reset is idle.
LEMMA ResetInv ==
  ASSUME NEW v, NEW m \in ScreenModes \cup {NoMode}
  PROVE  LET x == [ResetEngine EXCEPT !.vram = v, !.scr_mode = m]
         IN  EngineInv(x) /\ ~x.ce /\ EngineInv(ResetEngine) /\ ~ResetEngine.ce
  <1> DEFINE r == [sx |-> 0, sy |-> 0, dx |-> 0, dy |-> 0, nx |-> 0, ny |-> 0, arg |-> ResetArg]
  <1>1. r \in Block
    BY RowsAssumption, EngineAssumption DEF Block, Arg, ResetArg, Coord, Row
  <1> HIDE DEF r
  <1>2. DOMAIN ResetEngine = Fields /\ ResetEngine.regs = r /\ ResetEngine.ce = FALSE
        /\ ResetEngine.transfer = NoTransfer /\ ResetEngine.scr_mode = NoMode
    BY DEF ResetEngine, Fields, r
  <1> DEFINE x == [ResetEngine EXCEPT !.vram = v, !.scr_mode = m]
  <1>3. /\ DOMAIN x = Fields /\ x.regs = r /\ x.ce = FALSE /\ x.transfer = NoTransfer
        /\ x.scr_mode = m
    BY <1>2 DEF Fields
  <1> HIDE DEF x
  <1>4. EngineInv(x) /\ ~x.ce
    BY <1>1, <1>3 DEF EngineInv
  <1>5. EngineInv(ResetEngine) /\ ~ResetEngine.ce
    BY <1>1, <1>2 DEF EngineInv
  <1>6. QED
    BY <1>4, <1>5 DEF x

\* Every step keeps the invariant.
LEMMA NextKeeps ==
  ASSUME IInv, [Next]_vars
  PROVE  StepInv
  <1>1. CASE WriteBlock
    BY <1>1, WriteBlockKeeps
  <1>2. CASE WriteColour
    BY <1>2, WriteColourKeeps
  <1>3. CASE ReadColour
    BY <1>3, ReadColourKeeps
  <1>4. CASE ReadBorder
    <2>1. e' = [e EXCEPT !.bd = FALSE] /\ job' = job
      BY <1>4 DEF ReadBorder, AfterBorderRead
    <2>2. /\ DOMAIN e' = Fields /\ e'.regs \in Block /\ e'.scr_mode = e.scr_mode
          /\ e'.ce = e.ce /\ e'.transfer = e.transfer
      BY <2>1 DEF IInv, EngineInv, Fields
    <2>3. QED
      BY <2>1, <2>2, QuietStep
  <1>5. CASE AccessVram
    BY <1>5, AccessVramKeeps
  <1>6. CASE ChangeMode
    BY <1>6, ChangeModeKeeps
  <1>7. CASE \E c \in Commands : WriteCommand(c[1], c[2])
    BY <1>7, WriteCommandKeeps
  <1>8. CASE Wait \/ UNCHANGED vars
    BY <1>8, QuietStep DEF Wait, vars, IInv, EngineInv
  <1>9. CASE ResetVdp
    <2>1. EngineInv(e') /\ ~e'.ce
      BY <1>9, ResetInv DEF ResetVdp
    <2>2. QED
      BY <1>9, <2>1 DEF ResetVdp, StepInv, IInv, EngineInv, Serving
  <1>10. QED
    BY <1>1, <1>2, <1>3, <1>4, <1>5, <1>6, <1>7, <1>8, <1>9 DEF Next

\* It holds at the start.
LEMMA InitKeeps ==
  ASSUME Init
  PROVE  IInv
  <1>1. PICK picture \in Pictures, m \in ScreenModes :
          e = [ResetEngine EXCEPT !.vram = picture, !.scr_mode = m]
    BY DEF Init
  <1>2. EngineInv(e) /\ ~e.ce
    BY <1>1, ResetInv
  <1>3. QED
    BY <1>2 DEF Init, IInv

\* The engine and the job of every reachable state agree on what a transfer
\* has still to do.
THEOREM TransferBookkeeping == Spec => []IInv
  <1>1. Init => IInv
    BY InitKeeps
  <1>2. IInv /\ [Next]_vars => IInv'
    BY NextKeeps DEF StepInv
  <1>3. QED
    BY <1>1, <1>2, PTL DEF Spec

\* An engine with a command under way always has a unit of it to ask for and
\* a mode to run it in (command_done and the resets of transfer_kind_).
THEOREM WorkForTheBusy == Spec => []BusyHasWork
  <1>1. IInv => BusyHasWork
    BY DEF IInv, EngineInv, BusyHasWork
  <1>2. QED
    BY <1>1, TransferBookkeeping, PTL

\* Every unit of an LMCM, LMMC or HMMC goes to, or comes from, the place of
\* its number in the rectangle the command was given, whatever happens to
\* registers, VRAM and mode between the units (perform_transfer_step,
\* on_color_register_read).
THEOREM UnitsGoToTheirPlace == Spec => UnitsInPlace
  <1>1. IInv /\ [Next]_vars => [Serving => UnitPlaced(e, e', job')]_vars
    BY NextKeeps DEF StepInv
  <1>2. QED
    BY <1>1, TransferBookkeeping, PTL DEF Spec, UnitsInPlace

\* CE drops with the last unit of a transfer, neither before nor after it:
\* the unit armed before the command is counted, and none is dropped.
THEOREM TransfersEndOnTime == Spec => EndsWithLastUnit
  <1>1. IInv /\ [Next]_vars => [Serving => (e'.ce <=> job'.served < job'.nx * job'.ny)]_vars
    BY NextKeeps DEF StepInv
  <1>2. QED
    BY <1>1, TransferBookkeeping, PTL DEF Spec, EndsWithLastUnit
=============================================================================
