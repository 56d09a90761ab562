---------------------------- MODULE InputReplay ----------------------------
(***************************************************************************)
(* Input scripts: the recorder of the window program, the parser, and the  *)
(* player in the window program and in the headless one, frame by frame or *)
(* as a run of instructions.  A session is played live and recorded, then  *)
(* its file is replayed on the same program of instructions; scripts       *)
(* written by hand are replayed too.  The bytes of the disks that a swap   *)
(* writes back and puts in are DiskMedia's.                                *)
(***************************************************************************)
EXTENDS Naturals, SequencesExt

CONSTANTS
  KeyNames,        \* keys of the MSX matrix that are used
  FrameTarget,     \* frame_cycles_per_frame
  StepLengths,     \* cycles of an instruction
  Scripts,         \* files written by hand
  Disks,           \* disk images on the command line
  Shifts,          \* --input-shift
  Budget,          \* --frames, or the number of steps
  SessionActions,  \* what else the user does: "swap", "reset", "menu"
  MaxSteps,        \* bound: instructions of a session
  MaxEvents        \* bound: key events and swaps of a session

\* Lines of a script: the T value, what they name, pressed or released.
Controls == {"UP", "DOWN", "LEFT", "RIGHT", "A", "B"}
Names == KeyNames \cup Controls \cup {"", "SWAP_DISK"}
ScriptLines == [kind : {"tag", "end", "key", "joy", "comment", "bad"}, at : Nat, name : Names,
          down : BOOLEAN]

\* Every instruction takes time.
ASSUME InputAssumption ==
  /\ Scripts \subseteq Seq(ScriptLines)
  /\ FrameTarget \in Nat \ {0} /\ StepLengths \subseteq Nat \ {0} /\ Shifts \subseteq Nat
  /\ Disks \in Nat /\ Budget \in Nat /\ MaxSteps \in Nat /\ MaxEvents \in Nat

VARIABLE inp

input_vars == <<inp>>

Line(kind, at, name, down) == [kind |-> kind, at |-> at, name |-> name, down |-> down]
Tag == Line("tag", 0, "", FALSE)
End == Line("end", 0, "", FALSE)
KeyLine(at, key, down) == Line("key", at, key, down)
JoyLine(at, control, down) == Line("joy", at, control, down)
SwapLine(frame) == Line("comment", frame, "SWAP_DISK", FALSE)
BadLine == Line("bad", 0, "", FALSE)

\* parse_input_script: [END] ends the script, comments are no events, and the
\* T values of the events may not decrease.
Body(file) == LET end == SelectInSeq(file, LAMBDA l : l.kind = "end")
              IN  SubSeq(file, 2, IF end = 0 THEN Len(file) ELSE end - 1)
IsEvent(l) == l.kind \in {"key", "joy"}
EventsOf(s) == {n \in DOMAIN s : IsEvent(s[n])}
Ordered(s) == \A m, n \in EventsOf(s) : m <= n => s[m].at <= s[n].at

Readable(file) ==
  /\ file # << >> /\ Head(file) = Tag
  /\ \A i \in 1 .. Len(Body(file)) : Body(file)[i].kind # "bad"
  /\ Ordered(Body(file))

\* A set of pressed keys, or controls, after the events at some places of s,
\* one after the other: the last that names one decides on it.
Settled(set, s, places, kind) ==
  LET naming == {n \in places : s[n].kind = kind}
      last == {n \in naming : \A m \in naming : s[m].name = s[n].name => m <= n}
  IN  {s[n].name : n \in {n \in last : s[n].down}} \cup (set \ {s[n].name : n \in naming})

\* A replay: in the window program, which has none of the options of the
\* headless one; there with --frames, or as steps of the CPU.  A run of frames
\* may be told to end at a HALT that nothing ends (SONY_MSX_HALT_BREAK).
InTheWindow == [program |-> "window", frame_start |-> FALSE, halt_break |-> FALSE, shift |-> 0]
Options ==
  {InTheWindow}
    \cup [program : {"frames"}, frame_start : BOOLEAN, halt_break : BOOLEAN, shift : Shifts]
    \cup [program : {"steps"}, frame_start : {FALSE}, halt_break : {FALSE}, shift : Shifts]

NewSession ==
  [phase |-> "live", cycles |-> 0, start |-> 0, frame |-> 0, in_frame |-> FALSE, halted |-> FALSE,
   keys |-> {}, joys |-> {}, disk |-> 0, held |-> {}, menu |-> FALSE,
   file |-> <<Tag>>, told |-> TRUE, seen |-> << >>,
   events |-> << >>, cursor |-> 1, applied |-> 0, shown |-> {}, shown_disk |-> 0, done |-> 0,
   recorded |-> TRUE, options |-> InTheWindow, swap_frame |-> 0]

InputInit == inp = NewSession

(***************************************************************************)
(* The live session.  Host events arrive between two frames.               *)
(***************************************************************************)
\* A bound of the model: what the user does once the recorder was passed by
\* is not followed.
Polling == inp.phase = "live" /\ ~inp.in_frame /\ inp.told
EventsLeft == Len(inp.file) <= MaxEvents

\* Mutant: the recorder stamps the start of the frame that has just run.
LateStamp(i, key, down) == Append(i.file, KeyLine(i.start, key, down))

RecordKey(i, key, down) == Append(i.file, KeyLine(i.cycles, key, down))

\* An event the menu takes goes no further.  Repeats are not recorded, also
\* of a key whose press the menu took; told: the recorder was told of every
\* change of the matrix and of the cycle count.
Dispatched(i, key, down, repeat) ==
  IF i.menu THEN i
  ELSE [i EXCEPT !.file = IF down /\ repeat THEN @ ELSE RecordKey(i, key, down),
                 !.told = @ /\ (repeat => key \in i.keys),
                 !.keys = IF down THEN @ \cup {key} ELSE @ \ {key}]

HostKeyDown(key) ==
  /\ Polling /\ EventsLeft /\ key \notin inp.held
  /\ inp' = Dispatched([inp EXCEPT !.held = @ \cup {key}], key, TRUE, FALSE)

HostKeyRepeats(key) ==
  /\ Polling /\ key \in inp.held
  /\ inp' = Dispatched(inp, key, TRUE, TRUE)

HostKeyUp(key) ==
  /\ Polling /\ EventsLeft /\ key \in inp.held
  /\ inp' = Dispatched([inp EXCEPT !.held = @ \ {key}], key, FALSE, FALSE)

MenuKey == Polling /\ "menu" \in SessionActions /\ inp' = [inp EXCEPT !.menu = ~@]

\* F11.  The swap is stamped with the number of the frame about to run.
DiskSwapHotkey(i) == [i EXCEPT !.disk = (@ + 1) % Disks]

RecordDiskSwap ==
  /\ Polling /\ EventsLeft /\ "swap" \in SessionActions
  /\ ~inp.menu /\ Disks > 1
  /\ inp' = [DiskSwapHotkey(inp) EXCEPT !.file = Append(@, SwapLine(inp.frame))]

\* The same swap from the menu: the recorder is not told.
MenuSwap ==
  /\ Polling /\ "swap" \in SessionActions /\ Disks > 1
  /\ inp' = [DiskSwapHotkey(inp) EXCEPT !.told = FALSE]

\* cold_boot restarts the cycle count and releases the matrix; the recorder
\* is not told.
ResetSession ==
  /\ Polling /\ "reset" \in SessionActions
  /\ inp' = [inp EXCEPT !.cycles = 0, !.keys = {}, !.told = FALSE]

InstructionRun(i, length) == [i EXCEPT !.cycles = @ + length]

FrameBegun(i) == [i EXCEPT !.in_frame = TRUE, !.start = i.cycles]
FrameEnded(i) == [i EXCEPT !.in_frame = FALSE, !.frame = @ + 1]

\* What an instruction sees and, as a history, the frame it is of.
Sight(i, length) ==
  [length |-> length, keys |-> i.keys, disk |-> i.disk,
   cycles |-> i.cycles, start |-> i.start, frame |-> i.frame]

\* The loop of a frame ends after the instruction that reaches the target.
FrameClosed(i) == IF i.cycles - i.start >= FrameTarget THEN FrameEnded(i) ELSE i

LiveStep ==
  /\ inp.phase = "live" /\ Len(inp.seen) < MaxSteps
  /\ \E length \in StepLengths :
       LET begun == IF inp.in_frame THEN inp ELSE FrameBegun(inp)
       IN  inp' = FrameClosed(InstructionRun(
                    [begun EXCEPT !.seen = Append(@, Sight(begun, length))], length))

(***************************************************************************)
(* The replay.                                                             *)
(***************************************************************************)
SwapsOf(file) == {n \in DOMAIN file : file[n].kind = "comment"}
FirstSwap(file) == SelectInSeq(file, LAMBDA l : l.kind = "comment")
Delayed(s, shift) == [n \in DOMAIN s |-> [s[n] EXCEPT !.at = @ + shift]]

\* A new process loads the file, or gives it up; the first recorded swap is
\* passed as --swap-disk-frame (MaxSteps + 1 stands for none).
ScriptLoaded(file, told, recorded, seen, options) ==
  [NewSession EXCEPT
     !.phase = IF Readable(file) THEN "replay" ELSE "refused",
     !.file = file, !.told = told, !.recorded = recorded, !.seen = seen, !.options = options,
     !.events = IF Readable(file) THEN Delayed(Body(file), options.shift) ELSE << >>,
     !.swap_frame = IF SwapsOf(file) = {} THEN MaxSteps + 1 ELSE file[FirstSwap(file)].at]

\* The end of the session closes the file with [END]; an abrupt exit leaves
\* what was flushed, line by line.  A bound of the model: --input-shift is
\* used with scripts written by hand.
CloseRecording ==
  /\ inp.phase = "live" /\ inp.seen # << >>
  /\ \E clean \in BOOLEAN, options \in Options :
       /\ clean => ~inp.in_frame
       /\ options.shift = 0
       /\ inp' = ScriptLoaded(IF clean THEN Append(inp.file, End) ELSE inp.file,
                        inp.told, TRUE, inp.seen, options)

LoadScript ==
  /\ inp = NewSession
  /\ \E s \in Scripts, options \in Options : inp' = ScriptLoaded(s, TRUE, FALSE, << >>, options)

\* The lines from the cursor on that are due: up to the first late event.
DueLines(i, now) ==
  LET late == SelectInSubSeq(i.events, i.cursor, Len(i.events),
                             LAMBDA l : IsEvent(l) /\ l.at > now)
  IN  i.cursor .. (IF late = 0 THEN Len(i.events) ELSE late - 1)

\* Only the headless program attaches the joystick ports to the player.
JoystickAttached(i) == i.options.program # "window"

AppliedDue(i, now) ==
  LET due == DueLines(i, now)
  IN  [i EXCEPT !.cursor = @ + Cardinality(due), !.applied = now,
                !.keys = Settled(@, i.events, due, "key"),
                !.joys = IF JoystickAttached(i) THEN Settled(@, i.events, due, "joy") ELSE @]

\* The instructions of a recorded session again; a bound on the others.
FollowedSteps(i) ==
  IF ~i.recorded THEN IF i.done < MaxSteps THEN StepLengths ELSE {}
  ELSE IF i.done < Len(i.seen) THEN {i.seen[i.done + 1].length} ELSE {}

\* An instruction of a replay, with what it sees.
Ran(i, length) ==
  InstructionRun([i EXCEPT !.shown = i.keys, !.shown_disk = i.disk, !.done = @ + 1], length)

\* Where a HALT ends the run, any instruction may be one.
HaltsRun(i) == IF i.options.halt_break \/ i.options.program = "steps" THEN BOOLEAN ELSE {FALSE}

\* --swap-disk-frame, at the start of that frame.
SwapDue(i) == i.frame = i.swap_frame /\ Disks > 1
DiskSwapped(i) == IF SwapDue(i) THEN DiskSwapHotkey(i) ELSE i

WindowReplayStep ==
  /\ inp.phase = "replay" /\ inp.options.program = "window"
  /\ \E length \in FollowedSteps(inp) :
       LET ran == Ran(IF inp.in_frame THEN inp ELSE FrameBegun(DiskSwapped(inp)), length)
       IN  inp' = FrameClosed(AppliedDue(ran, ran.cycles))

\* --frames: the frames there are, HALT or not.  With --input-frame-start the
\* events are applied at the start of a frame, and no more inside it.
HeadlessFrameBegun(i) ==
  LET begun == FrameBegun(DiskSwapped(i))
  IN  IF i.options.frame_start THEN AppliedDue(begun, begun.cycles) ELSE begun

FramesAreOver(i) == ~i.in_frame /\ (i.frame >= Budget \/ i.halted)

HeadlessFrameStep ==
  /\ inp.phase = "replay" /\ inp.options.program = "frames" /\ ~FramesAreOver(inp)
  /\ \E length \in FollowedSteps(inp), halted \in HaltsRun(inp) :
       LET ran == Ran(IF inp.in_frame THEN inp ELSE HeadlessFrameBegun(inp), length)
           applied == IF ran.options.frame_start THEN ran ELSE AppliedDue(ran, ran.cycles)
       IN  inp' = IF halted THEN FrameEnded([applied EXCEPT !.halted = TRUE])
                  ELSE FrameClosed(applied)

\* Without --frames the headless program steps the CPU up to its first HALT.
StepsAreOver(i) == i.done >= Budget \/ i.halted

PlainReplayStep ==
  /\ inp.phase = "replay" /\ inp.options.program = "steps" /\ ~StepsAreOver(inp)
  /\ \E length \in FollowedSteps(inp), halted \in HaltsRun(inp) :
       LET ran == [Ran(inp, length) EXCEPT !.halted = halted]
       IN  inp' = AppliedDue(ran, ran.cycles)

\* A script that was given up, a run that came to its end, the user of the
\* window program who leaves after a frame; and where no step is followed.
ProgramEnds ==
  /\ \/ inp.phase = "refused"
     \/ /\ inp.phase = "replay"
        /\ \/ inp.options.program = "frames" /\ FramesAreOver(inp)
           \/ inp.options.program = "steps" /\ StepsAreOver(inp)
           \/ inp.options.program = "window" /\ ~inp.in_frame
           \/ FollowedSteps(inp) = {}
  /\ inp' = NewSession

InputNext ==
  \/ \E k \in KeyNames : HostKeyDown(k) \/ HostKeyRepeats(k) \/ HostKeyUp(k)
  \/ MenuKey \/ RecordDiskSwap \/ MenuSwap \/ ResetSession \/ LiveStep \/ CloseRecording
  \/ LoadScript \/ WindowReplayStep \/ HeadlessFrameStep \/ PlainReplayStep \/ ProgramEnds

InputSpec == InputInit /\ [][InputNext]_input_vars

-----------------------------------------------------------------------------
\* Every instruction of a replay sees the keys and the disk it saw in the
\* recorded session, unless a reset, a swap from the menu or a repeat after
\* the menu went past the recorder, whatever the lengths of the instructions by
\* which a frame overruns its target, in the window program and in the
\* headless one (which swaps no disk where it only steps the CPU):
\* an edge stamped with the cycle between two frames is due right after the
\* last instruction of the earlier frame.  Only the first instruction of all
\* runs before the edges of cycle 0 without --input-frame-start, and a
\* second swap cannot be passed on (apply_due, run_one_frame, record_key).
ReplayShowsSession ==
  inp.phase = "replay" /\ inp.recorded /\ inp.told /\ inp.done > 0 =>
    LET live == inp.seen[inp.done]
        swapped == (\A m, n \in SwapsOf(inp.file) : m = n) /\ inp.options.program # "steps"
    IN  /\ inp.done > 1 \/ inp.options.frame_start => inp.shown = live.keys
        /\ swapped => inp.shown_disk = live.disk

\* At any moment of a replay the keys, and the joystick where it is attached,
\* are what all the events of the script up to now make them, although the
\* player never looks back: the cursor stands before the first event that is
\* not due (parse_input_script's order check, apply_due).
ScriptUpToNow ==
  inp.phase = "replay" /\ inp.done > 0 =>
    LET script == Body(inp.file)
        due == {n \in EventsOf(script) : script[n].at + inp.options.shift <= inp.applied}
    IN  /\ inp.keys = Settled({}, script, due, "key")
        /\ inp.joys = IF JoystickAttached(inp) THEN Settled({}, script, due, "joy") ELSE {}

\* So a replay is exact: the live session again, and the script so far.
ReplayExact == ReplayShowsSession /\ ScriptUpToNow

=============================================================================
