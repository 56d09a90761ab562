------------------------------- MODULE Raster -------------------------------
(***************************************************************************)
(* Where the beam is, as the machine derives it from its cycle counter     *)
(* (raster_display_line in src/src/devices/video/v9958_vdp.cpp and         *)
(* recompute_line_interrupt_cache in src/src/machine/hbf1xv_machine.cpp).  *)
(*                                                                         *)
(* Time is the number of cycles since the last vertical sync, which the    *)
(* VDP reports at the start of the lower border: a frame is the border     *)
(* lines first and the lines of the active display last.                   *)
(***************************************************************************)
EXTENDS Integers

CONSTANTS
  CyclesPerLine,   \* kCpuTstatesPerLine, 228
  LinesPerFrame,   \* 262
  Border212,       \* non-active lines of a 212-line display, 50
  Border192        \* non-active lines of a 192-line display, 70

ASSUME RasterAssumption ==
  /\ CyclesPerLine \in Nat \ {0} /\ LinesPerFrame \in Nat
  /\ Border212 \in 1 .. LinesPerFrame - 1 /\ Border192 \in 1 .. LinesPerFrame - 1

FrameCycles == CyclesPerLine * LinesPerFrame

BorderLines(ln212) == IF ln212 THEN Border212 ELSE Border192
ActiveLines(ln212) == LinesPerFrame - BorderLines(ln212)

\* The display line under the beam; negative in the border.
DisplayLine(t, ln212) == ((t \div CyclesPerLine) % LinesPerFrame) - BorderLines(ln212)

\* When, in a frame, the beam enters display line l.
LineStart(l, ln212) == (BorderLines(ln212) + l) * CyclesPerLine
=============================================================================
