---------------------------- MODULE StreamCapture ----------------------------
(***************************************************************************)
(* The debug captures of the machine: the instruction ring of a stream     *)
(* capture, its logs of rare events and of the FDC's sectors, the          *)
(* snapshots and files it leaves, and the watch on a window of the         *)
(* physical DRAM, which shares the observer of RAM writes with the light   *)
(* log.  An instruction makes some bus events, one after the other, and    *)
(* retires; the host works between two instructions.  A step the PAUSE     *)
(* gate holds back returns before all this: it stutters.  The files        *)
(* followed are those of the last id a capture had.                        *)
(***************************************************************************)
EXTENDS Integers, SequencesExt

CONSTANTS
  RingCapacity,      \* kStreamTraceRingCapacity
  SnapshotInterval,  \* kStreamLightSnapshotInterval
  MaxRows,           \* kMemWatchMaxRows
  HeaderBytes,       \* bytes of the header of the watch's table
  RowBytes,          \* bytes of a row of it
  BusEvents,         \* what an instruction may do that an observer is called for
  Windows,           \* memory watches: <<phys_lo, phys_hi, frame_from, frame_to>>
  MaxFrames,         \* bound: frames of a run
  MaxRetired,        \* bound: instructions of a run
  MaxBusEvents       \* bound: bus events of a run

\* A write to mapper RAM at a logical address and the byte of DRAM it falls on,
\* a write to a VDP register, a sector read, a byte of a written sector or
\* its end.
BusKinds == {"ram", "register", "read", "byte", "finish"}
BusEvent == [kind : BusKinds, at : Nat, phys : Nat]

ASSUME CaptureAssumption ==
  /\ RingCapacity \in Nat \ {0} /\ SnapshotInterval \in Nat \ {0}
  /\ MaxRows \in Nat /\ HeaderBytes \in Nat /\ RowBytes \in Nat
  /\ BusEvents \subseteq BusEvent
  /\ Windows \subseteq Nat \X Nat \X Nat \X Nat

\* The bytes of the RST 38h vector's jump, and the flag of a game's sound.
VectorBytes == {57, 58, 42465}

VARIABLE cap

capture_vars == <<cap>>

\* A line of a log: the event with the frame; an entry of the ring.
LogLine(c, event) == [kind |-> event.kind, at |-> event.at, phys |-> event.phys, frame |-> c.frame]
Entry(c) == [sequence |-> c.seq, instruction |-> c.retired]

AtStart ==
  [active |-> FALSE, light |-> FALSE, ring |-> << >>, ring_head |-> 0, seq |-> 0,
   watching |-> FALSE, window |-> <<0, 0, 0, 0>>, rows |-> << >>, dropped |-> 0,
   ram_observer |-> FALSE, fdc_observer |-> FALSE, vdp_observer |-> FALSE,
   frame |-> 0, halted |-> FALSE,
   retired |-> 0, in_instruction |-> FALSE, events |-> 0,
   watch_log |-> << >>, read_log |-> << >>, write_log |-> << >>,
   trace |-> << >>, bundles |-> << >>,
   ran |-> << >>, happened |-> << >>, written |-> << >>]

CaptureInit == cap = AtStart

RefreshRamWriteObserver(c) ==
  [c EXCEPT !.ram_observer = (c.active /\ c.light) \/ c.watching]

\* Mutant: the ring is written out from its first slot.
FromFirstSlot(c) == c.ring

\* serialize_stream_trace: from the oldest entry on, around the ring.
SerializeStreamTrace(c) ==
  [i \in 1 .. Len(c.ring) |-> c.ring[((c.ring_head + i - 1) % Len(c.ring)) + 1]]

FinalizeStreamCapture(c, reason) ==
  IF ~c.active THEN c
  ELSE RefreshRamWriteObserver(
         [c EXCEPT !.trace = SerializeStreamTrace(c), !.bundles = Append(@, reason),
                   !.fdc_observer = FALSE, !.vdp_observer = FALSE,
                   !.light = FALSE, !.active = FALSE])

\* Arming: the logs of the FDC are removed, that of the light mode only in the
\* light mode, which alone installs the observers of RAM and of the VDP.
\* After a reset the frame and cycle that are the id may come again, and so
\* the same files.
Armed(c, light, same_id) ==
  LET on == [c EXCEPT !.active = TRUE, !.light = light,
                      !.ring = << >>, !.ring_head = 0, !.seq = 0, !.fdc_observer = TRUE,
                      !.read_log = << >>, !.write_log = << >>,
                      !.watch_log = IF light \/ ~same_id THEN << >> ELSE @,
                      !.trace = IF same_id THEN @ ELSE << >>,
                      !.bundles = << >>, !.ran = << >>, !.happened = << >>]
  IN  IF light THEN RefreshRamWriteObserver([on EXCEPT !.vdp_observer = TRUE]) ELSE on

\* F10.  (Headless, --stream-light does it at the start and, when the capture is
\* still armed, at the end.)
StreamToggleHotkey(light, same_id) ==
  /\ ~cap.in_instruction
  /\ cap' = IF cap.active THEN FinalizeStreamCapture(cap, "MANUAL")
          ELSE Armed(cap, light, same_id)

SetMemWatch ==
  /\ ~cap.in_instruction
  /\ \E w \in Windows :
       cap' = RefreshRamWriteObserver(
                [cap EXCEPT !.window = w, !.dropped = 0, !.watching = TRUE, !.rows = << >>,
                            !.written = << >>])

ClearMemWatch ==
  /\ ~cap.in_instruction
  /\ cap' = RefreshRamWriteObserver([cap EXCEPT !.watching = FALSE, !.written = << >>])

PushStreamRecord(c, e) ==
  IF Len(c.ring) < RingCapacity
  THEN [c EXCEPT !.ring = Append(@, e), !.seq = @ + 1]
  ELSE [c EXCEPT !.ring[c.ring_head + 1] = e, !.seq = @ + 1,
                 !.ring_head = (@ + 1) % RingCapacity]

InWindow(c, l) ==
  /\ c.window[3] <= l.frame /\ l.frame <= c.window[4]
  /\ c.window[1] <= l.phys /\ l.phys < c.window[2]

\* The cap on the rows is tested on the bytes of the table.
WatchIsFull(c) == (HeaderBytes + RowBytes * Len(c.rows)) \div 48 >= MaxRows

LogStreamMemWrite(c, l) ==
  IF c.active /\ l.at \in VectorBytes THEN [c EXCEPT !.watch_log = Append(@, l)] ELSE c

MemWatchRecord(c, l) ==
  IF ~(c.watching /\ InWindow(c, l)) THEN c
  ELSE IF WatchIsFull(c) THEN [c EXCEPT !.dropped = @ + 1]
  ELSE [c EXCEPT !.rows = Append(@, l)]

\* Only R#1 is logged.
LogStreamVdpRegister(c, l) ==
  IF c.active /\ l.at = 1 THEN [c EXCEPT !.watch_log = Append(@, l)] ELSE c

LogStreamFdcRead(c, l) == IF c.active THEN [c EXCEPT !.read_log = Append(@, l)] ELSE c

\* Each byte, and the end of the sector.
LogStreamFdcWrite(c, l) == IF c.active THEN [c EXCEPT !.write_log = Append(@, l)] ELSE c

\* A device calls the observer it has; the one of RAM writes serves the
\* stream's log, then the watch.
Observed(c, l) ==
  CASE l.kind = "ram" /\ c.ram_observer -> MemWatchRecord(LogStreamMemWrite(c, l), l)
    [] l.kind = "register" /\ c.vdp_observer -> LogStreamVdpRegister(c, l)
    [] l.kind = "read" /\ c.fdc_observer -> LogStreamFdcRead(c, l)
    [] l.kind \in {"byte", "finish"} /\ c.fdc_observer -> LogStreamFdcWrite(c, l)
    [] OTHER -> c

\* What the properties compare with: the events while the capture is on, and
\* the RAM writes while the watch is.
Witnessed(c, l) ==
  [c EXCEPT !.happened = IF c.active THEN Append(@, l) ELSE @,
            !.written = IF c.watching /\ l.kind = "ram" THEN Append(@, l) ELSE @,
            !.in_instruction = TRUE, !.events = @ + 1]

\* One bus event of the instruction that runs.  A halted CPU writes when an
\* interrupt wakes it, which pushes PC.
InstructionEvent ==
  /\ cap.retired < MaxRetired /\ cap.events < MaxBusEvents
  /\ \E event \in BusEvents :
       /\ cap.halted => event.kind = "ram"
       /\ LET l == LogLine(cap, event) IN cap' = Witnessed(Observed(cap, l), l)

\* Mutant: the capture is ended before the last instruction is in the ring.
RecordAfterEnd(c, e, entered_halt, low_sp) ==
  LET ended == IF entered_halt THEN FinalizeStreamCapture(c, "HALT")
               ELSE IF low_sp THEN FinalizeStreamCapture(c, "CRASH") ELSE c
  IN  IF ended.active THEN PushStreamRecord(ended, e) ELSE ended

\* The end of step_cpu_instruction.
Recorded(c, e, entered_halt, low_sp) ==
  IF ~c.active THEN c
  ELSE LET pushed == PushStreamRecord(c, e)
       IN  IF entered_halt THEN FinalizeStreamCapture(pushed, "HALT")
           ELSE IF low_sp THEN FinalizeStreamCapture(pushed, "CRASH") ELSE pushed

\* The instruction retires.  It may leave the CPU halted or not, and SP under
\* kStreamStackFloor or not, also where it was there before.
Retired(c, e, halted) ==
  [c EXCEPT !.ran = IF c.active THEN Append(@, e) ELSE @,
            !.retired = @ + 1, !.halted = halted, !.in_instruction = FALSE]

Retire ==
  /\ cap.retired < MaxRetired
  /\ \E halted, low_sp \in BOOLEAN :
       cap' = Recorded(Retired(cap, Entry(cap), halted), Entry(cap),
                       ~cap.halted /\ halted, low_sp)

\* on_vsync_boundary: every frame's snapshot, in the light mode some.
VsyncBoundary ==
  /\ ~cap.in_instruction /\ cap.frame < MaxFrames
  /\ LET next == [cap EXCEPT !.frame = @ + 1]
     IN  cap' = IF cap.active /\ (~cap.light \/ next.frame % SnapshotInterval = 0)
                THEN [next EXCEPT !.bundles = Append(@, "FRAME")] ELSE next

\* cold_boot restarts the count of frames and the CPU; the capture goes on.  (The bound is on the snapshots.)
ColdBoot ==
  /\ ~cap.in_instruction /\ Len(cap.bundles) <= MaxFrames
  /\ cap' = [cap EXCEPT !.frame = 0, !.halted = FALSE]

\* power_cycle builds a new machine: an armed capture goes with the old one,
\* its ring unwritten; the files stay (and
\* what the bounds count).  (To quit the window program does the
\* same.)
NewMachine(c) ==
  [AtStart EXCEPT !.watch_log = c.watch_log, !.read_log = c.read_log,
                  !.write_log = c.write_log, !.trace = c.trace, !.bundles = c.bundles,
                  !.retired = c.retired, !.events = c.events]

MachineReplaced == ~cap.in_instruction /\ cap' = NewMachine(cap)

CaptureNext ==
  \/ \E light, same_id \in BOOLEAN : StreamToggleHotkey(light, same_id)
  \/ SetMemWatch \/ ClearMemWatch \/ InstructionEvent \/ Retire \/ VsyncBoundary
  \/ ColdBoot \/ MachineReplaced

CaptureSpec == CaptureInit /\ [][CaptureNext]_capture_vars

-----------------------------------------------------------------------------
\* The last entries of a sequence that the ring can hold.
RingTail(s) == SubSeq(s, IF Len(s) > RingCapacity THEN Len(s) - RingCapacity + 1 ELSE 1, Len(s))

\* The trace of a capture is the tail of the instructions that ran while it
\* was on, in their order, as long as the ring holds, wherever the head of
\* the ring stands (push_stream_record, serialize_stream_trace).
TraceIsTail ==
  cap.active => /\ SerializeStreamTrace(cap) = RingTail(cap.ran)
                /\ \A i \in 1 .. Len(cap.bundles) : cap.bundles[i] = "FRAME"

\* In the step that ends a capture, by hand, by HALT or by a runaway stack,
\* the trace file gets that tail, the halting or crashing instruction
\* included, and exactly one last snapshot is written (finalize_stream_capture
\* at the end of step_cpu_instruction).  A capture that goes with its machine
\* leaves no trace.
EndsWithTail ==
  [][cap.active /\ ~cap'.active =>
       \/ cap' = NewMachine(cap)
       \/ /\ cap'.trace = RingTail(cap'.ran)
          /\ cap'.retired > cap.retired => cap'.ran # cap.ran
          /\ Len(cap'.bundles) = Len(cap.bundles) + 1
          /\ Last(cap'.bundles) # "FRAME"]_capture_vars

\* The places of s with one of these lines, and how many there are up to
\* place i.
PlacesOf(s, lines) == {i \in DOMAIN s : s[i] \in lines}
Rank(places, i) == Cardinality({j \in places : j <= i})

\* A log has the first lines at the places, in order; or all of them.
FirstOf(log, s, places) ==
  /\ Len(log) <= Cardinality(places)
  /\ \A i \in places : Rank(places, i) <= Len(log) => log[Rank(places, i)] = s[i]
AllOf(log, s, places) == FirstOf(log, s, places) /\ Len(log) = Cardinality(places)

\* The lines that belong in a log.
Lines == [kind : BusKinds, at : Nat, phys : Nat, frame : Nat]
WatchLines == {l \in Lines : \/ l.kind = "ram" /\ l.at \in VectorBytes
                             \/ l.kind = "register" /\ l.at = 1}
ReadLines == {l \in Lines : l.kind = "read"}
WriteLines == {l \in Lines : l.kind \in {"byte", "finish"}}
WindowLines(w) == {l \in Lines : /\ l.phys \in w[1] .. w[2] - 1
                                 /\ l.frame \in w[3] .. w[4]}

\* The events of the light log, of the FDC's logs and of the memory watch are
\* all there, in order: the features share an observer, and the end of one does
\* not blind the other (refresh_ram_write_observer).
NothingMissed ==
  /\ cap.active /\ cap.light => AllOf(cap.watch_log, cap.happened, PlacesOf(cap.happened, WatchLines))
  /\ cap.active => /\ AllOf(cap.read_log, cap.happened, PlacesOf(cap.happened, ReadLines))
                   /\ AllOf(cap.write_log, cap.happened, PlacesOf(cap.happened, WriteLines))
  /\ cap.watching =>
       LET seen == PlacesOf(cap.written, WindowLines(cap.window))
       IN  /\ FirstOf(cap.rows, cap.written, seen)
           /\ Cardinality(seen) = Len(cap.rows) + cap.dropped

\* So a capture is complete: its trace and its event logs.
CaptureComplete == TraceIsTail /\ NothingMissed
=============================================================================
