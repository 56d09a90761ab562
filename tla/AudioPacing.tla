---------------------------- MODULE AudioPacing ----------------------------
(***************************************************************************)
(* From the machine's cycles to the host's sound queue: the frame loop     *)
(* makes samples while it steps the CPU, the pacer says after each frame   *)
(* how many are due, how many fit in the queue and how much silence a      *)
(* queue found empty is refilled with.  A reset starts the machine's       *)
(* cycles again; the presenter and its pacer outlive it.                   *)
(***************************************************************************)
EXTENDS Integers

CONSTANTS
  ClockHz, SampleHz,    \* 3579545 and 44100, or any two with ClockHz larger
  FrameLength,          \* cycles of a frame
  LastInstruction,      \* by how many cycles the last instruction may overrun
  LowWater, QueueLimit, \* low_water_samples, max_queued_samples
  MaxElapsed            \* bound: cycles since the last reset

ASSUME PacingAssumption ==
  /\ ClockHz \in Nat /\ SampleHz \in Nat \ {0} /\ SampleHz <= ClockHz
  /\ FrameLength \in Nat /\ LastInstruction \in Nat
  /\ LowWater \in Nat /\ QueueLimit \in Nat

VARIABLE pace
pace_vars == <<pace>>

Least(a, b) == IF a < b THEN a ELSE b

ScaleCycles(cycles, numerator, denominator) ==
  (cycles \div denominator) * numerator
    + ((cycles % denominator) * numerator) \div denominator

Due(elapsed) == ScaleCycles(elapsed, SampleHz, ClockHz)
SampleBoundary(index) == (index * ClockHz) \div SampleHz

\* The samples the frame loop has made after `elapsed` cycles, `index` being
\* the next one: every one whose boundary has been reached (emit_due_audio).
NextIndex(index, elapsed) ==
  CHOOSE k \in index .. Due(elapsed) + 2 :
    SampleBoundary(k) > elapsed /\ \A j \in index .. k - 1 : SampleBoundary(j) <= elapsed

\* AudioPacer::plan
Plan(p, elapsed, queued) ==
  LET limit == QueueLimit
      low == Least(LowWater, limit)
      due == Due(elapsed)
      pump == IF due > p.produced THEN due - p.produced ELSE 0
      room == IF queued >= limit THEN 0 ELSE limit - queued
      push == Least(pump, room)
  IN [pump |-> pump, push |-> push,
      silence |-> IF queued = 0 /\ push < low THEN Least(low - push, room - push) ELSE 0,
      produced |-> p.produced + pump]

\* One frame: the step loop leaves the frame at `elapsed`; what was made is
\* paced into the queue (push_produced_paced).
Queued(p, plan, made) ==
  p.queue + plan.silence + (IF plan.push = 0 THEN 0 ELSE Least(plan.push, made))

StartCursors(p) == [p EXCEPT !.elapsed = 0, !.index = 1]
ForgetfulReset(p) == StartCursors(p)
ResetPacing(p) == [StartCursors(p) EXCEPT !.produced = 0]

PaceInit == pace = [elapsed |-> 0, index |-> 1, produced |-> 0, queue |-> 0,
                    made |-> 0, pumped |-> 0]

RunFrame(p, overrun) ==
  LET elapsed == p.elapsed + FrameLength + overrun
      index == NextIndex(p.index, elapsed)
      plan == Plan(p, elapsed, p.queue)
  IN [elapsed |-> elapsed, index |-> index, produced |-> plan.produced,
      queue |-> Queued(p, plan, index - p.index),
      made |-> index - p.index, pumped |-> plan.pump]

RunOneFrame ==
  \E overrun \in 0 .. LastInstruction :
    /\ pace.elapsed + FrameLength + overrun <= MaxElapsed
    /\ pace' = RunFrame(pace, overrun)

\* The host plays what is queued, at its own pace; external to the code.
HostPlays == \E n \in 1 .. pace.queue : pace' = [pace EXCEPT !.queue = @ - n]

\* reset_machine and power_cycle start the machine, the cursors and the pacer
\* again; what is queued plays on.
ResetSoundClock == pace' = ResetPacing(pace)

PaceNext == RunOneFrame \/ HostPlays \/ ResetSoundClock

PaceSpec == PaceInit /\ [][PaceNext]_pace_vars

\* The two counts of samples run along the same clock: after a frame, and
\* however often the machine is reset, what the pacer has accounted for is
\* what is due, what the frame loop made never lags behind it nor leads by
\* more than the one sample whose boundary is rounded down, and the host's
\* queue stays inside its limit (AudioPacer::plan, emit_due_audio, and the
\* baselines reset_machine takes again).
PacerFollowsClock ==
  /\ pace.produced = Due(pace.elapsed)
  /\ pace.index - 1 - pace.produced \in {0, 1}
  /\ pace.queue <= QueueLimit

=============================================================================
