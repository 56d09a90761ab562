------------------------------- MODULE V9958 --------------------------------
(***************************************************************************)
(* The interrupt half of the V9958 (src/src/devices/video/v9958_vdp.cpp):  *)
(* the two interrupt sources, their enable bits, and the /INT level that   *)
(* is reported to the CPU only when it changes.                            *)
(*                                                                         *)
(* A VDP is a record v; every operator gives the record after the call.    *)
(* Of the registers those that decide on interrupts are kept, whole bytes. *)
(* The picture, the commands and the sprite status bits are left out.      *)
(***************************************************************************)
EXTENDS Words

ModelledRegs == {0, 1, 9, 19, 23}
Bit(x, n) == (x \div 2 ^ n) % 2 = 1

Vdp == [regs : [ModelledRegs -> Byte], f : BOOLEAN,
        irq_vertical : BOOLEAN, irq_horizontal : BOOLEAN, irq_level : BOOLEAN]

IE0(v) == Bit(v.regs[1], 5)       \* vertical interrupt enable
IE1(v) == Bit(v.regs[0], 4)       \* line interrupt enable
LN212(v) == Bit(v.regs[9], 7)
MatchLine(v) == (v.regs[19] - v.regs[23]) % 256

IrqActive(v) == v.irq_vertical \/ v.irq_horizontal
UpdateIrq(v) == [v EXCEPT !.irq_level = IrqActive(v)]

ResetVdp == [regs |-> [r \in ModelledRegs |-> 0], f |-> FALSE,
             irq_vertical |-> FALSE, irq_horizontal |-> FALSE, irq_level |-> FALSE]

\* R#0: clearing IE1 releases the line interrupt; setting it arms it only.
AfterWriteR0(v, x) ==
  LET w == [v EXCEPT !.regs[0] = x]
  IN  IF IE1(v) = IE1(w) THEN w
      ELSE UpdateIrq([w EXCEPT !.irq_horizontal = @ /\ IE1(w)])

\* R#1: clearing IE0 releases the vertical interrupt, setting it asserts the
\* interrupt at once when F is still waiting to be read.
AfterWriteR1(v, x) ==
  LET w == [v EXCEPT !.regs[1] = x]
  IN  IF IE0(v) = IE0(w) THEN w
      ELSE UpdateIrq([w EXCEPT !.irq_vertical = IE0(w) /\ (@ \/ v.f)])

\* change_register
AfterChangeRegister(v, r, x) ==
  CASE r = 0 -> AfterWriteR0(v, x)
    [] r = 1 -> AfterWriteR1(v, x)
    [] OTHER -> [v EXCEPT !.regs[r] = x]

\* read_status(0) takes F and the vertical interrupt with it.
AfterReadStatus0(v) == UpdateIrq([v EXCEPT !.f = FALSE, !.irq_vertical = FALSE])

\* read_status(1) releases the line interrupt only while it is enabled.
AfterReadStatus1(v) ==
  IF IE1(v) THEN UpdateIrq([v EXCEPT !.irq_horizontal = FALSE]) ELSE v

\* on_vsync
AfterVsync(v) == UpdateIrq([v EXCEPT !.f = TRUE, !.irq_vertical = @ \/ IE0(v)])

\* on_line_match
AfterLineMatch(v) == UpdateIrq([v EXCEPT !.irq_horizontal = @ \/ IE1(v)])
=============================================================================
