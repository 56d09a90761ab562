------------------------------- MODULE Hbf1xv -------------------------------
(***************************************************************************)
(* The machine's frame loop: Hbf1xvMachine::step_cpu_instruction and       *)
(* on_vsync_boundary (src/src/machine/hbf1xv_machine.cpp) as               *)
(* Sdl3App::run_one_frame (src/src/frontend/sdl3_app.cpp) drives them.  A  *)
(* frame steps the CPU until 262 lines' worth of cycles have passed, and   *)
(* the vertical sync follows at the end of the instruction that crossed    *)
(* that mark.  User events are dispatched before the first step.           *)
(*                                                                         *)
(* now is the number of cycles since the last vertical sync: the code      *)
(* compares its absolute counter with last_vsync_cycle_ only.  A program   *)
(* is any sequence of instructions of any length in StepCycles; of an      *)
(* instruction the access to the VDP or to the interrupt flags is kept.    *)
(***************************************************************************)
EXTENDS Raster, V9958

CONSTANTS
  StepCycles,     \* lengths of an instruction or an interrupt acceptance
  PausedCycles,   \* kPausedIdleTStates, 1
  Ops,            \* the instructions a program may contain
  RegWrites,      \* pairs <<register, value>> a program may write
  PeriodFrames,   \* kPeriodFrames of the speed controller, 8
  InitialLevel,   \* --speed-level
  UserActions     \* subset of {"pause", "speed", "reset"}

ASSUME MachineAssumption ==
  /\ StepCycles \subseteq Nat \ {0} /\ PausedCycles \in Nat \ {0}
  /\ \A d \in StepCycles : d <= CyclesPerLine
  /\ PausedCycles <= CyclesPerLine
  /\ Ops \subseteq {"EI", "DI", "HALT", "RETN", "Other", "ReadStatus0", "ReadStatus1"}
  /\ RegWrites \subseteq ModelledRegs \X Byte
  /\ PeriodFrames \in Nat \ {0} /\ InitialLevel \in 0 .. PeriodFrames - 1

VARIABLES
  now,        \* elapsed_cycles() - last_vsync_cycle_
  vdp,
  cpu,
  line_int,   \* the cached moment of the next line interrupt
  pause,      \* Mb670836PauseController
  polled      \* history: now at the last poll of this frame, 0 before it

vars == <<now, vdp, cpu, line_int, pause, polled>>

\* kLineIntNever
Never == -1

\* line_int_cache_valid_, the fingerprint line_int_r19_ / r23_ / r9_,
\* line_int_vsync_ = last_vsync_cycle_, and line_int_next_cycle_.
LineInt == [current : BOOLEAN, fingerprint : Byte \X Byte \X Byte, next : Int]
NoLineInt == [current |-> FALSE, fingerprint |-> <<0, 0, 0>>, next |-> Never]

Pause == [engaged : BOOLEAN, speed_level : 0 .. PeriodFrames - 1,
          speed_paused : BOOLEAN, frame_index : 0 .. PeriodFrames - 1]
ResetPause == [engaged |-> FALSE, speed_level |-> InitialLevel,
               speed_paused |-> FALSE, frame_index |-> 0]

-----------------------------------------------------------------------------
(***************************************************************************)
(* How the Z80 core decides what a step is (src/src/devices/cpu/           *)
(* z80a_cpu.cpp): accept the maskable interrupt, idle in HALT, or execute  *)
(* an instruction.  The CPU is the record c of the flags that decide it;   *)
(* the registers and the program are left out, and so is the NMI, which    *)
(* nothing in the machine requests.                                        *)
(***************************************************************************)
Cpu == [iff1 : BOOLEAN, iff2 : BOOLEAN, pending : BOOLEAN, halted : BOOLEAN,
        ei_delay : BOOLEAN]

ResetCpu == [iff1 |-> FALSE, iff2 |-> FALSE, pending |-> FALSE, halted |-> FALSE,
             ei_delay |-> FALSE]

Accepts(c) == ~c.ei_delay /\ c.pending /\ c.iff1
Idles(c) == ~Accepts(c) /\ c.halted
Executes(c) == ~Accepts(c) /\ ~c.halted

\* service_maskable_interrupt
AfterAccept(c) ==
  [c EXCEPT !.pending = FALSE, !.halted = FALSE, !.iff1 = FALSE, !.iff2 = FALSE]

\* The shadow of an EI covers the one step after it, whatever that step is.
AfterDelay(c, next) == IF c.ei_delay THEN [next EXCEPT !.ei_delay = FALSE] ELSE next

\* A halted CPU fetches the same opcode again and again.
AfterIdle(c) == AfterDelay(c, c)

\* The instructions that touch the interrupt flags.  Every other one, with
\* or without an access to the VDP, leaves them alone.
AfterExecute(c, op) ==
  AfterDelay(c,
    CASE op = "EI"   -> [c EXCEPT !.iff1 = TRUE, !.iff2 = TRUE, !.ei_delay = TRUE]
      [] op = "DI"   -> [c EXCEPT !.iff1 = FALSE, !.iff2 = FALSE]
      [] op = "HALT" -> [c EXCEPT !.halted = TRUE]
      [] op = "RETN" -> [c EXCEPT !.iff1 = c.iff2]
      [] OTHER       -> c)

-----------------------------------------------------------------------------
Init ==
  /\ now = 0
  /\ vdp = ResetVdp
  /\ cpu = ResetCpu
  /\ line_int = NoLineInt
  /\ pause = ResetPause
  /\ polled = 0

-----------------------------------------------------------------------------
(***************************************************************************)
(* The line interrupt.                                                     *)
(***************************************************************************)
Fingerprint(v) == <<v.regs[19], v.regs[23], v.regs[9]>>

\* Mutant: the border of a 192-line display is used for every display.
ShortBorderNextMatch(v, t) ==
  IF MatchLine(v) >= ActiveLines(LN212(v)) THEN Never
  ELSE LET candidate == (t \div FrameCycles) * FrameCycles + LineStart(MatchLine(v), TRUE)
       IN  IF candidate <= t THEN candidate + FrameCycles ELSE candidate

\* The first time after t at which the beam enters the match line; never
\* when that line is outside the active display.
NextMatch(v, t) ==
  IF MatchLine(v) >= ActiveLines(LN212(v)) THEN Never
  ELSE LET candidate == (t \div FrameCycles) * FrameCycles + LineStart(MatchLine(v), LN212(v))
       IN  IF candidate <= t THEN candidate + FrameCycles ELSE candidate

\* recompute_line_interrupt_cache
Scheduled(v, t) ==
  [current |-> TRUE, fingerprint |-> Fingerprint(v), next |-> NextMatch(v, t)]

\* The cache as poll_line_interrupt consults it at t: rebuilt when an input
\* changed since it was built.
Consulted(v, t) ==
  IF line_int.current /\ line_int.fingerprint = Fingerprint(v)
  THEN line_int ELSE Scheduled(v, t)

Due(l, t) == l.next # Never /\ t >= l.next

\* CpuIrqAdapter::set_irq, called by update_irq on a change of level only.
\* Mutant: a released level leaves the request in the CPU.
RaisingForward(c, v, w) ==
  IF w.irq_level /\ ~v.irq_level THEN [c EXCEPT !.pending = TRUE] ELSE c

Forward(c, v, w) ==
  IF w.irq_level # v.irq_level THEN [c EXCEPT !.pending = w.irq_level] ELSE c

-----------------------------------------------------------------------------
(***************************************************************************)
(* step_cpu_instruction                                                    *)
(***************************************************************************)
CpuPaused == pause.engaged \/ pause.speed_paused

\* The held level is sampled again at every step.
Sampled == IF IrqActive(vdp) THEN [cpu EXCEPT !.pending = TRUE] ELSE cpu

\* What is left of a step that took d cycles once the CPU has done its part:
\* the clock advances and the line interrupt is polled.
Retire(v, c, d) ==
  LET t == now + d
      l == Consulted(v, t)
      w == IF Due(l, t) THEN AfterLineMatch(v) ELSE v
  IN  /\ now' = t
      /\ vdp' = w
      /\ cpu' = Forward(c, v, w)
      /\ line_int' = IF Due(l, t) THEN Scheduled(v, t) ELSE l
      /\ polled' = t
      /\ UNCHANGED pause

Running == now < FrameCycles /\ ~CpuPaused

AcceptInterrupt ==
  /\ Running /\ Accepts(Sampled)
  /\ \E d \in StepCycles : Retire(vdp, AfterAccept(Sampled), d)

IdleInHalt ==
  /\ Running /\ Idles(Sampled)
  /\ \E d \in StepCycles : Retire(vdp, AfterIdle(Sampled), d)

Execute(op) ==
  /\ Running /\ Executes(Sampled)
  /\ LET v == CASE op = "ReadStatus0" -> AfterReadStatus0(vdp)
                [] op = "ReadStatus1" -> AfterReadStatus1(vdp)
                [] OTHER              -> vdp
     IN  \E d \in StepCycles : Retire(v, Forward(AfterExecute(Sampled, op), vdp, v), d)

\* The second write to port #99, or a write to port #9B.
WriteRegister ==
  /\ Running /\ Executes(Sampled)
  /\ \E rx \in RegWrites, d \in StepCycles :
       LET v == AfterChangeRegister(vdp, rx[1], rx[2])
       IN  Retire(v, Forward(AfterExecute(Sampled, "Other"), vdp, v), d)

\* While paused the clock runs, and nothing else does.
IdlePaused ==
  /\ now < FrameCycles /\ CpuPaused
  /\ now' = now + PausedCycles
  /\ UNCHANGED <<vdp, cpu, line_int, pause, polled>>

CpuStep == AcceptInterrupt \/ IdleInHalt \/ (\E op \in Ops : Execute(op)) \/ WriteRegister

-----------------------------------------------------------------------------
\* Mb670836PauseController::on_vsync
\* Mutant: the duty cycle is one frame too long.
LongerPauseOnVsync(p) ==
  [p EXCEPT !.speed_paused = p.frame_index <= p.speed_level,
            !.frame_index = (@ + 1) % PeriodFrames]

PauseOnVsync(p) ==
  [p EXCEPT !.speed_paused = p.frame_index < p.speed_level,
            !.frame_index = (@ + 1) % PeriodFrames]

\* on_vsync_boundary
VsyncBoundary ==
  /\ now >= FrameCycles
  /\ now' = 0
  /\ vdp' = AfterVsync(vdp)
  /\ cpu' = Forward(cpu, vdp, vdp')
  /\ line_int' = [line_int EXCEPT !.current = FALSE]
  /\ pause' = PauseOnVsync(pause)
  /\ polled' = 0

\* set_speed_level clamps what the keys and the menu ask for.
ClampedLevel(n) == IF n < 0 THEN 0 ELSE IF n >= PeriodFrames THEN PeriodFrames - 1 ELSE n

\* Events are dispatched between two frames.
PressPause ==
  /\ "pause" \in UserActions /\ now = 0
  /\ pause' = [pause EXCEPT !.engaged = ~@]
  /\ UNCHANGED <<now, vdp, cpu, line_int, polled>>

SetSpeedLevel ==
  /\ "speed" \in UserActions /\ now = 0
  /\ \E n \in {-1, 0, PeriodFrames - 1, PeriodFrames} :
       pause' = [pause EXCEPT !.speed_level = ClampedLevel(n)]
  /\ UNCHANGED <<now, vdp, cpu, line_int, polled>>

\* reset_machine: cold_boot, and the configured speed level again.
ResetMachine ==
  /\ "reset" \in UserActions /\ now = 0
  /\ now' = 0
  /\ vdp' = ResetVdp
  /\ cpu' = ResetCpu
  /\ line_int' = [line_int EXCEPT !.current = FALSE, !.next = Never]
  /\ pause' = ResetPause
  /\ polled' = 0

LoopStep == CpuStep \/ IdlePaused \/ VsyncBoundary

Next == LoopStep \/ PressPause \/ SetSpeedLevel \/ ResetMachine

Spec == Init /\ [][Next]_vars

\* run_one_frame is called again and again.
FairSpec == Spec /\ WF_vars(LoopStep)

-----------------------------------------------------------------------------
TypeOK ==
  /\ now \in Nat /\ polled \in Nat
  /\ vdp \in Vdp
  /\ cpu \in Cpu
  /\ line_int \in LineInt
  /\ pause \in Pause

\* The /INT line says exactly what the two sources say, the vertical one is
\* asserted exactly while F waits to be read and IE0 is on, and the line
\* interrupt never outlives its enable bit, whatever the order in which
\* enables, syncs, matches and status reads come.
IrqLineExact ==
  /\ vdp.irq_level = IrqActive(vdp)
  /\ vdp.irq_vertical <=> vdp.f /\ IE0(vdp)
  /\ vdp.irq_horizontal => IE1(vdp)

\* The CPU has a request only while /INT is asserted: an interrupt whose
\* cause was acknowledged or disabled is never accepted afterwards.
NoStaleRequest == cpu.pending => vdp.irq_level

\* So the interrupt of the VDP is right at both of its ends.
InterruptLineExact == IrqLineExact /\ NoStaleRequest

\* The moments at which the beam enters the match line.
Matches(v) ==
  {m \in 0 .. FrameCycles + CyclesPerLine :
     \E k \in 0 .. 1 : /\ m = k * FrameCycles + LineStart(MatchLine(v), LN212(v))
                       /\ MatchLine(v) < ActiveLines(LN212(v))}

\* Some match lies after the last poll and not after t.
MatchSince(v, t) == \E m \in Matches(v) : polled < m /\ m <= t

\* A step in which the beam enters the match line ends with the line
\* interrupt raised, if it is enabled and the step did not reprogram the
\* registers the cache was built from.
LineDelivered ==
  [][ (CpuStep /\ line_int.current /\ line_int.fingerprint = Fingerprint(vdp')
         /\ MatchSince(vdp', now') /\ IE1(vdp'))
      => vdp'.irq_horizontal ]_vars

\* The line interrupt is raised only by a match since the last poll: never
\* early, never for the old match line, never twice for one crossing.
RaisedByMatchOnly ==
  [][ (~vdp.irq_horizontal /\ vdp'.irq_horizontal) => MatchSince(vdp', now') ]_vars

\* So the interrupt of a line comes for every crossing of it and for nothing
\* else (poll_line_interrupt, try_line_interrupt_match).
LineInterruptExact == LineDelivered /\ RaisedByMatchOnly

\* A halted CPU that allows interrupts, with the vertical interrupt enabled,
\* wakes up, at any speed level, unless somebody holds the pause button.
HaltWakes ==
  (cpu.halted /\ cpu.iff1 /\ IE0(vdp)) ~> (~cpu.halted \/ pause.engaged)

-----------------------------------------------------------------------------
(***************************************************************************)
(* What a comment promises and the code does not do.                       *)
(***************************************************************************)
\* poll_line_interrupt fires at the first instruction boundary at or after
\* the moment the beam enters the matched line.
FiresAtFirstBoundary ==
  [][ (CpuStep /\ MatchSince(vdp', now') /\ IE1(vdp')
         /\ MatchLine(vdp') = MatchLine(vdp) /\ LN212(vdp') = LN212(vdp))
      => vdp'.irq_horizontal ]_vars
=============================================================================
