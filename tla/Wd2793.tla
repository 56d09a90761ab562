------------------------------- MODULE Wd2793 -------------------------------
(***************************************************************************)
(* The WD2793 floppy-disk controller (src/src/devices/fdc/wd2793.cpp).     *)
(*                                                                         *)
(* The chip is a record f, the mechanism a record d (DiskDrive), the image *)
(* a record i (DiskImage); every operator gives the record after the call  *)
(* at emulated cycle t.  The chip has no clock of its own: each register   *)
(* access first brings the state up to the access time (Sync), so what     *)
(* happened between two accesses is worked out at the second one.          *)
(* Diagnostic counters, observers and the write-only data_reg_fresh_ flag  *)
(* are left out.                                                           *)
(***************************************************************************)
EXTENDS DiskDrive, FiniteSets, Sequences

CONSTANTS
  CyclesPerByte,     \* kCyclesPerByte, the DRQ cadence
  FastCyclesPerByte, \* kFastCyclesPerByte
  HeaderBytes,       \* byte periods from the ID mark to the first data byte
  FastHeaderBytes,   \* the same in fast-disk mode
  StepCycles,        \* kStepCycles, indexed by the rate bits
  FastStepCycles, SettleCycles, FastSettleCycles,
  HldIdleCycles,     \* kHldIdleCycles, head-load idle time-out
  RestorePulses,     \* cap on the step pulses of a Restore, 255
  TrackLength,       \* kStandardTrackLength, bytes of a raw track
  IdCrc,             \* the two CRC bytes of the ID field of a track and side
  GapByte, A1Mark, IdMark, DataMarks, CrcMark   \* bytes with a meaning in a raw track

ASSUME ChipAssumption ==
  /\ CyclesPerByte \in Nat \ {0} /\ FastCyclesPerByte \in Nat \ {0}
  /\ HeaderBytes \in Nat /\ FastHeaderBytes \in Nat
  /\ StepCycles \in [0 .. 3 -> Nat] /\ FastStepCycles \in Nat
  /\ SettleCycles \in Nat /\ FastSettleCycles \in Nat
  /\ HldIdleCycles \in Nat
  /\ RestorePulses \in Nat /\ Tracks <= RestorePulses
  /\ TrackLength \in Nat /\ SectorsPerTrack * (4 + SectorSize) <= TrackLength
  /\ IdCrc \in [Track -> [Side -> [1 .. 2 -> Byte]]]
  /\ {GapByte, A1Mark, IdMark, CrcMark} \subseteq Byte /\ DataMarks \subseteq Byte

Type1Ops == {"Restore", "Seek", "Step", "StepIn", "StepOut"}
Type2Ops == {"ReadSector", "WriteSector"}
Type3Ops == {"ReadAddress", "ReadTrack", "WriteTrack"}

\* A command byte: the operation, its flag bits (V verify, H head load,
\* T update track, M multi-record, I2 index interrupt, I3 immediate
\* interrupt) and the step-rate bits.
Command == [op : Type1Ops \cup Type2Ops \cup Type3Ops \cup {"ForceInterrupt"},
            flags : SUBSET {"V", "H", "T", "M", "I2", "I3"},
            rate : 0 .. 3]

Phase == {"Idle", "Type1Seek", "ReadSector", "WriteSector",
          "ReadAddress", "ReadTrack", "WriteTrack"}
ReadPhases == {"ReadSector", "ReadAddress", "ReadTrack"}
TransferPhases == ReadPhases \cup {"WriteSector", "WriteTrack"}

\* The sticky bits of status_ that are ever set.  Seek error and record not
\* found are the same bit (0x10): "NotFound".
StickyBits == {"Busy", "LostData", "NotFound", "WriteProtected"}

Chip == [status : SUBSET StickyBits, command_reg : Command,
         track_reg : Byte, sector_reg : Byte, data_reg : Byte,
         phase : Phase, direction_in : BOOLEAN,
         intrq_pending : BOOLEAN, immediate_irq : BOOLEAN,
         index_irq_armed : BOOLEAN, index_irq_deadline : Nat,
         hld_active : BOOLEAN, hld_since : Nat,
         busy_until : Nat, drq_deadline : Nat, write_check_deadline : Nat,
         last_sync : Nat, fast_disk : BOOLEAN,
         buffer : Seq(Byte), data_index : Nat, data_available : Nat,
         write_track_num : Track, write_side : Side, write_sector_num : Byte,
         wt_a1 : BOOLEAN, wt_expect_id : BOOLEAN, wt_id_count : 0 .. 4, wt_r : Byte,
         wt_in_data : BOOLEAN, wt_data_count : 0 .. SectorSize, wt_data : Sector,
         wt_sector_num : Byte]

Wrap(n) == n % ByteRange          \* 8-bit register arithmetic

ByteCycles(f) == IF f.fast_disk THEN FastCyclesPerByte ELSE CyclesPerByte
HeaderCycles(f) ==
  IF f.fast_disk THEN FastHeaderBytes * FastCyclesPerByte ELSE HeaderBytes * CyclesPerByte
ReadStartCycles(f) == 2 * ByteCycles(f)
StepRate(f, cmd) == IF f.fast_disk THEN FastStepCycles ELSE StepCycles[cmd.rate]
Settle(f) == IF f.fast_disk THEN FastSettleCycles ELSE SettleCycles
FirstByteWindow == IndexPeriod    \* kWriteFirstByteWindowCycles, one revolution

\* reset(): fast_disk_ survives it, and so do the stale fields of the
\* write-track parser that its next mark overwrites.
ResetChip(f, t) ==
  [f EXCEPT !.status = {}, !.command_reg = [op |-> "Restore", flags |-> {}, rate |-> 0],
            !.track_reg = ByteRange - 1, !.sector_reg = 1, !.data_reg = 0,
            !.phase = "Idle", !.direction_in = TRUE,
            !.intrq_pending = FALSE, !.immediate_irq = FALSE,
            !.index_irq_armed = FALSE, !.index_irq_deadline = 0,
            !.hld_active = FALSE, !.hld_since = 0,
            !.busy_until = 0, !.drq_deadline = 0, !.write_check_deadline = 0,
            !.last_sync = t, !.buffer = << >>,
            !.data_index = 0, !.data_available = 0,
            !.write_track_num = 0, !.write_side = 0, !.write_sector_num = 0,
            !.wt_a1 = FALSE, !.wt_expect_id = FALSE, !.wt_in_data = FALSE]

(***************************************************************************)
(* Ending a command.                                                       *)
(***************************************************************************)
HeadLoaded(f, t) == f.hld_active /\ t >= f.hld_since /\ t < f.hld_since + HldIdleCycles

\* end_command
EndCommand(f, t) ==
  [f EXCEPT !.hld_since = IF HeadLoaded(f, t) THEN t ELSE @,
            !.status = @ \ {"Busy"}, !.intrq_pending = TRUE,
            !.phase = "Idle", !.data_available = 0]

Fail(f, bit, t) == EndCommand([f EXCEPT !.status = @ \cup {bit}], t)

(***************************************************************************)
(* Sector transfers.                                                       *)
(***************************************************************************)
FirstDrq(f, d, t) == t + CyclesUntilSectorId(d, f.sector_reg - 1, t) + HeaderCycles(f)

\* Mutant: the read index of the previous sector is not reset.
StaleIndexBeginReadSector(f, d, i, t) ==
  IF CanRead(d, f.sector_reg)
  THEN [f EXCEPT !.buffer = SectorUnderHead(d, i, f.sector_reg),
                 !.data_available = SectorSize, !.drq_deadline = FirstDrq(f, d, t),
                 !.phase = "ReadSector", !.status = @ \cup {"Busy"}]
  ELSE Fail([f EXCEPT !.buffer = ZeroSector], "NotFound", t)

\* begin_read_sector: the whole sector is copied into the buffer at once.
BeginReadSector(f, d, i, t) ==
  IF CanRead(d, f.sector_reg)
  THEN [f EXCEPT !.buffer = SectorUnderHead(d, i, f.sector_reg),
                 !.data_index = 0, !.data_available = SectorSize,
                 !.drq_deadline = FirstDrq(f, d, t),
                 !.phase = "ReadSector", !.status = @ \cup {"Busy"}]
  ELSE Fail([f EXCEPT !.buffer = ZeroSector], "NotFound", t)

\* begin_write_sector: the target is latched now and committed later.
BeginWriteSector(f, d, t) ==
  [f EXCEPT !.write_sector_num = f.sector_reg,
            !.write_track_num = d.physical_track, !.write_side = d.side,
            !.buffer = ZeroSector, !.data_index = 0, !.data_available = SectorSize,
            !.drq_deadline = FirstDrq(f, d, t),
            !.write_check_deadline = FirstDrq(f, d, t) + FirstByteWindow,
            !.phase = "WriteSector", !.status = @ \cup {"Busy"}]

\* The multi-record commands go on with the next sector of the track.
NextSector(f) == [f EXCEPT !.sector_reg = Wrap(@ + 1)]
OnTrack(f) == f.sector_reg \in 1 .. SectorsPerTrack

\* Mutant: the next sector is served from the buffer of the last one.
NoReloadFinishReadSector(f, d, i, t) ==
  IF "M" \in f.command_reg.flags /\ OnTrack(NextSector(f))
  THEN [NextSector(f) EXCEPT !.data_index = 0, !.data_available = SectorSize,
                             !.drq_deadline = FirstDrq(NextSector(f), d, t)]
  ELSE EndCommand(f, t)

\* finish_read_sector
FinishReadSector(f, d, i, t) ==
  IF "M" \notin f.command_reg.flags THEN EndCommand(f, t)
  ELSE IF OnTrack(NextSector(f)) THEN BeginReadSector(NextSector(f), d, i, t)
  ELSE EndCommand(NextSector(f), t)

\* finish_write_sector, without the image (see the Lays operators).
FinishWriteSector(f, d, t) ==
  IF "M" \notin f.command_reg.flags THEN EndCommand(f, t)
  ELSE IF OnTrack(NextSector(f)) THEN BeginWriteSector(NextSector(f), d, t)
  ELSE EndCommand(NextSector(f), t)

\* commit_write_sector_byte for a byte the CPU wrote.
CommitByte(f, d, v, t) ==
  LET g == [f EXCEPT !.buffer[f.data_index + 1] = v,
                     !.data_index = @ + 1, !.data_available = @ - 1,
                     !.drq_deadline = t + ByteCycles(f)]
  IN  IF g.data_available = 0 THEN FinishWriteSector(g, d, t) ELSE g

\* Mutant: one slot an access.
SingleAbandonedSlot(f, t) ==
  IF f.data_available > 0 /\ t >= f.drq_deadline + FirstByteWindow THEN 1 ELSE 0

\* The slots of an abandoned Write Sector that lie a revolution back at t.
\* The loop in sync() takes them one by one, each a byte period later.
AbandonedSlots(f, t) ==
  Cardinality({k \in 0 .. f.data_available - 1 :
                 t >= f.drq_deadline + k * ByteCycles(f) + FirstByteWindow})

\* The buffer with the next n slots substituted by 0x00.
ZeroFilled(f, n) ==
  [j \in DOMAIN f.buffer |->
     IF j > f.data_index /\ j <= f.data_index + n THEN 0 ELSE f.buffer[j]]

\* commit_write_sector_byte, n times, for slots nobody served.
SubstituteSlots(f, d, n, t) ==
  LET g == [f EXCEPT !.buffer = ZeroFilled(f, n),
                     !.data_index = @ + n, !.data_available = @ - n,
                     !.status = @ \cup {"LostData"},
                     !.drq_deadline = @ + n * ByteCycles(f)]
  IN  IF g.data_available = 0 THEN FinishWriteSector(g, d, t) ELSE g

(***************************************************************************)
(* sync(): catch the state up with the access time.                        *)
(***************************************************************************)
SyncTime(f, t) == IF t < f.last_sync THEN f.last_sync ELSE t

SeekDone(f, t) == f.phase = "Type1Seek" /\ t >= f.busy_until

\* Mutant: a write whose first byte never comes is not given up.
NeverFirstByteMissing(f, t) == FALSE

FirstByteMissing(f, t) ==
  f.phase = "WriteSector" /\ f.data_index = 0 /\ t >= f.write_check_deadline

Abandoned(f, t) ==
  f.phase = "WriteSector" /\ f.data_index > 0 /\ AbandonedSlots(f, t) > 0

CatchUp(f, d, t) ==
  IF SeekDone(f, t) THEN EndCommand(f, t)
  ELSE IF FirstByteMissing(f, t) THEN Fail(f, "LostData", t)
  ELSE IF Abandoned(f, t) THEN SubstituteSlots(f, d, AbandonedSlots(f, t), t)
  ELSE f

FireIndexIrq(f, t) ==
  IF f.index_irq_armed /\ t >= f.index_irq_deadline
  THEN [f EXCEPT !.intrq_pending = TRUE, !.index_irq_armed = FALSE]
  ELSE f

Sync(f, d, now) ==
  LET t == SyncTime(f, now)
  IN  FireIndexIrq(CatchUp([f EXCEPT !.last_sync = t], d, t), t)

\* The image after sync(): substitution may have completed the sector.
SyncLays(f, t) == Abandoned(f, t) /\ AbandonedSlots(f, t) = f.data_available

ImageAfterSync(f, d, i, now) ==
  IF SyncLays(f, SyncTime(f, now))
  THEN WriteSectorAt(d, i, f.write_track_num, f.write_side, f.write_sector_num,
                     ZeroFilled(f, f.data_available))
  ELSE i

(***************************************************************************)
(* Status and the handshake lines.                                         *)
(***************************************************************************)
\* is_type1_status
Type1Status(f) == f.command_reg.op \in Type1Ops \cup {"ForceInterrupt"}

\* transfer_drq
TransferDrq(f, t) ==
  f.phase \in TransferPhases /\ f.data_available > 0 /\ t >= f.drq_deadline

\* peek_status: the sticky bits under the layout of the last command, and
\* the bits read live from the drive.
StatusBits(f, d, i) ==
  LET t == f.last_sync
  IN  (IF Type1Status(f)
       THEN (f.status \cap {"Busy", "NotFound"})
            \cup (IF IndexPulse(d, t) THEN {"Index"} ELSE {})
            \cup (IF IsTrack00(d) THEN {"Track00"} ELSE {})
            \cup (IF HeadLoaded(f, t) THEN {"HeadLoaded"} ELSE {})
            \cup (IF WriteProtected(d, i) THEN {"WriteProtected"} ELSE {})
       ELSE f.status \cup (IF TransferDrq(f, t) THEN {"Drq"} ELSE {}))
      \cup (IF Ready(d) THEN {} ELSE {"NotReady"})

Intrq(f) == f.intrq_pending \/ f.immediate_irq

(***************************************************************************)
(* Register reads and writes, on a chip already synced to t.               *)
(***************************************************************************)
\* read_status acknowledges the interrupt of a completed command.
AfterReadStatus(f) == [f EXCEPT !.intrq_pending = FALSE]

\* The bytes a late CPU has lost: read_data skips every byte whose period
\* is over, all but the last one.
LateBytes(f, t) ==
  IF f.fast_disk THEN 0
  ELSE Cardinality({k \in 1 .. f.data_available - 1 :
                      t >= f.drq_deadline + k * CyclesPerByte})

Delivers(f, t) == f.phase \in ReadPhases /\ TransferDrq(f, t)

\* read_data
AfterReadData(f, d, i, t) ==
  LET n == LateBytes(f, t)
      g == [f EXCEPT !.status = IF n > 0 THEN @ \cup {"LostData"} ELSE @,
                     !.data_reg = f.buffer[f.data_index + n + 1],
                     !.data_index = @ + n + 1, !.data_available = @ - n - 1,
                     !.drq_deadline = @ + n * CyclesPerByte + ByteCycles(f)]
  IN  IF ~Delivers(f, t) THEN f
      ELSE IF g.data_available > 0 THEN g
      ELSE IF g.phase = "ReadSector" THEN FinishReadSector(g, d, i, t)
      ELSE EndCommand(g, t)

(***************************************************************************)
(* parse_write_track_byte: a run of A1 marks makes the next byte a mark,   *)
(* an ID field names the sector of the data field that follows.            *)
(***************************************************************************)
IsIdMark(f, v) == f.wt_a1 /\ v = IdMark
IsDataMark(f, v) == f.wt_a1 /\ v \in DataMarks

ParseTrackByte(f, v) ==
  LET g == [f EXCEPT !.wt_a1 = FALSE]
  IN  IF v = A1Mark THEN [f EXCEPT !.wt_a1 = TRUE]
      ELSE IF IsIdMark(f, v) THEN [g EXCEPT !.wt_expect_id = TRUE, !.wt_id_count = 0]
      ELSE IF IsDataMark(f, v)
      THEN [g EXCEPT !.wt_in_data = TRUE, !.wt_data_count = 0, !.wt_data = ZeroSector]
      ELSE IF f.wt_expect_id
      THEN [g EXCEPT !.wt_r = IF f.wt_id_count = 2 THEN v ELSE @,
                     !.wt_id_count = IF @ < 4 THEN @ + 1 ELSE @,
                     !.wt_sector_num = IF f.wt_id_count = 3 THEN f.wt_r ELSE @,
                     !.wt_expect_id = f.wt_id_count # 3]
      ELSE IF ~f.wt_in_data THEN g
      ELSE IF f.wt_data_count < SectorSize
      THEN [g EXCEPT !.wt_data[f.wt_data_count + 1] = v, !.wt_data_count = @ + 1]
      ELSE [g EXCEPT !.wt_in_data = v # CrcMark]

\* The CRC mark after a full data field lays the sector.
TrackByteLays(f, v) ==
  /\ v = CrcMark /\ v # A1Mark
  /\ ~IsIdMark(f, v) /\ ~IsDataMark(f, v)
  /\ ~f.wt_expect_id /\ f.wt_in_data /\ f.wt_data_count = SectorSize

\* Mutant: a byte written before its request is dropped.
GatedAfterWriteData(f, d, v, t) ==
  LET g == [f EXCEPT !.data_reg = v]
  IN  IF f.phase = "WriteSector" /\ t >= f.drq_deadline THEN CommitByte(g, d, v, t) ELSE g

\* write_data: the byte is taken whatever the DRQ deadline says.
AfterWriteData(f, d, v, t) ==
  LET g == [f EXCEPT !.data_reg = v]
      p == [ParseTrackByte(g, v) EXCEPT !.data_available = @ - 1,
                                        !.drq_deadline = t + ByteCycles(f)]
  IN  IF f.phase = "WriteSector" THEN CommitByte(g, d, v, t)
      ELSE IF f.phase # "WriteTrack" THEN g
      ELSE IF p.data_available = 0 THEN EndCommand(p, t) ELSE p

\* Mutant: the sector goes to the side the latch selects now.
LiveSideImageAfterWriteData(f, d, i, v) ==
  IF f.phase = "WriteSector" /\ f.data_available = 1
  THEN WriteSectorAt(d, i, d.physical_track, d.side, f.write_sector_num,
                     [f.buffer EXCEPT ![f.data_index + 1] = v])
  ELSE IF f.phase = "WriteTrack" /\ TrackByteLays(f, v)
  THEN WriteSectorAt(d, i, d.physical_track, d.side, f.wt_sector_num, f.wt_data)
  ELSE i

\* The image after write_data.
ImageAfterWriteData(f, d, i, v) ==
  IF f.phase = "WriteSector" /\ f.data_available = 1
  THEN WriteSectorAt(d, i, f.write_track_num, f.write_side, f.write_sector_num,
                     [f.buffer EXCEPT ![f.data_index + 1] = v])
  ELSE IF f.phase = "WriteTrack" /\ TrackByteLays(f, v)
  THEN WriteSectorAt(d, i, f.write_track_num, f.write_side, f.wt_sector_num, f.wt_data)
  ELSE i

(***************************************************************************)
(* Commands.                                                               *)
(***************************************************************************)
Clamp(track) == IF track < Tracks THEN track ELSE Tracks - 1

Distance(m, n) == IF m < n THEN n - m ELSE m - n

\* The head after a Type I command.  The step line is not gated by the
\* drive select: the head moves although no drive is selected.
HeadAfter(f, d, cmd) ==
  CASE cmd.op = "Restore" -> [d EXCEPT !.physical_track = 0]
    [] cmd.op = "Seek"    -> [d EXCEPT !.physical_track = Clamp(f.data_reg)]
    [] cmd.op = "Step"    -> StepHead(d, f.direction_in)
    [] cmd.op = "StepIn"  -> StepHead(d, TRUE)
    [] cmd.op = "StepOut" -> StepHead(d, FALSE)
    [] OTHER              -> d

\* The number of step pulses, which takes the time.
Pulses(f, d, cmd) ==
  CASE cmd.op = "Restore" -> IF d.available THEN d.physical_track ELSE RestorePulses
    [] cmd.op = "Seek"    -> Distance(d.physical_track, f.data_reg)
    [] OTHER              -> 1

DirectionAfter(f, d, cmd) ==
  CASE cmd.op = "Seek"                 -> f.data_reg > d.physical_track
    [] cmd.op = "StepIn"               -> TRUE
    [] cmd.op \in {"Restore", "StepOut"} -> FALSE
    [] OTHER                           -> f.direction_in

TrackRegAfter(f, d, cmd) ==
  LET stepped == IF "T" \notin cmd.flags THEN f.track_reg
                 ELSE IF DirectionAfter(f, d, cmd) THEN Wrap(f.track_reg + 1)
                 ELSE Wrap(f.track_reg + ByteRange - 1)
  IN  CASE cmd.op = "Restore" -> IF d.available THEN 0 ELSE ByteRange - 1
        [] cmd.op = "Seek"    -> f.data_reg
        [] cmd.op = "StepOut" -> IF IsTrack00(HeadAfter(f, d, cmd)) THEN 0 ELSE stepped
        [] OTHER              -> stepped

\* start_type1
StartType1(f, d, cmd, t) ==
  [f EXCEPT
     !.status = (@ \ {"NotFound"}) \cup {"Busy"}
                \cup (IF cmd.op = "Restore" /\ ~d.available /\ "V" \in cmd.flags
                      THEN {"NotFound"} ELSE {}),
     !.phase = "Type1Seek",
     !.hld_active = "H" \in cmd.flags,
     !.hld_since = IF "H" \in cmd.flags THEN t ELSE @,
     !.track_reg = TrackRegAfter(f, d, cmd),
     !.data_reg = IF cmd.op = "Restore" THEN 0 ELSE @,
     !.direction_in = DirectionAfter(f, d, cmd),
     !.busy_until = t + Pulses(f, d, cmd) * StepRate(f, cmd)
                    + (IF "V" \in cmd.flags THEN Settle(f) ELSE 0)]

LoadHead(f, t) == [f EXCEPT !.hld_active = TRUE, !.hld_since = t]

\* start_type2
StartType2(f, d, i, cmd, t) ==
  LET g == [f EXCEPT !.status =
              (@ \ {"LostData", "NotFound", "WriteProtected"}) \cup {"Busy"}]
      h == LoadHead(g, t)
  IN  IF ~Ready(d) THEN EndCommand(g, t)
      ELSE IF ~(d.physical_track = f.track_reg /\ OnTrack(f)) THEN Fail(h, "NotFound", t)
      ELSE IF cmd.op = "ReadSector" THEN BeginReadSector(h, d, i, t)
      ELSE IF WriteProtected(d, i) THEN Fail(h, "WriteProtected", t)
      ELSE BeginWriteSector(h, d, t)

\* build_read_address_buffer: the ID field of sector 1 of the track.
IdField(d) ==
  LET crc == IdCrc[d.physical_track][d.side]
  IN  <<d.physical_track, d.side, 1, 2, crc[1], crc[2]>>

\* build_read_track_buffer: per sector the ID and the data, the gaps and
\* marks between them left out, then gap bytes up to the track length.
RawTrack(d, i) ==
  LET frame == 4 + SectorSize
  IN  [j \in 1 .. TrackLength |->
         LET sector == ((j - 1) \div frame) + 1
             offset == (j - 1) % frame
         IN  IF sector > SectorsPerTrack THEN GapByte
             ELSE CASE offset = 0 -> d.physical_track
                    [] offset = 1 -> d.side
                    [] offset = 2 -> sector
                    [] offset = 3 -> 2
                    [] OTHER -> SectorUnderHead(d, i, sector)[offset - 3]]

\* start_type3, which leaves a stale WriteProtected bit alone.
StartType3(f, d, i, cmd, t) ==
  LET g == [f EXCEPT !.status = (@ \ {"LostData", "NotFound"}) \cup {"Busy"}]
      h == [LoadHead(g, t) EXCEPT !.data_index = 0,
                                  !.drq_deadline = t + ReadStartCycles(f)]
  IN  IF ~Ready(d) THEN EndCommand(g, t)
      ELSE IF cmd.op = "ReadAddress"
      THEN [h EXCEPT !.buffer = IdField(d), !.sector_reg = d.physical_track,
                     !.data_available = 6, !.phase = "ReadAddress"]
      ELSE IF cmd.op = "ReadTrack"
      THEN [h EXCEPT !.buffer = RawTrack(d, i), !.data_available = TrackLength,
                     !.phase = "ReadTrack"]
      ELSE IF WriteProtected(d, i) THEN Fail(LoadHead(g, t), "WriteProtected", t)
      ELSE [h EXCEPT !.write_track_num = d.physical_track, !.write_side = d.side,
                     !.wt_a1 = FALSE, !.wt_expect_id = FALSE, !.wt_in_data = FALSE,
                     !.wt_data = ZeroSector,
                     !.data_available = TrackLength, !.phase = "WriteTrack"]

\* start_type4, Force Interrupt: stops any command without completing it.
StartType4(f, d, cmd, t) ==
  LET arms == "I2" \in cmd.flags /\ Ready(d)
  IN  [f EXCEPT !.immediate_irq = IF "I3" \in cmd.flags THEN TRUE
                                  ELSE IF cmd.flags = {} THEN FALSE ELSE @,
                !.intrq_pending = @ \/ "I3" \in cmd.flags,
                !.index_irq_armed = @ \/ arms,
                !.index_irq_deadline = IF arms THEN t + CyclesUntilIndexPulse(t) ELSE @,
                !.phase = "Idle", !.data_available = 0, !.status = @ \ {"Busy"}]

\* write_command, never refused while the chip is busy: any command but
\* Force Interrupt withdraws the pending interrupts, then takes over.
AfterWriteCommand(f, d, i, cmd, t) ==
  LET g == [f EXCEPT !.command_reg = cmd]
      h == [g EXCEPT !.intrq_pending = FALSE, !.immediate_irq = FALSE,
                     !.index_irq_armed = FALSE]
  IN  CASE cmd.op \in Type1Ops -> StartType1(h, d, cmd, t)
        [] cmd.op \in Type2Ops -> StartType2(h, d, i, cmd, t)
        [] cmd.op \in Type3Ops -> StartType3(h, d, i, cmd, t)
        [] OTHER               -> StartType4(g, d, cmd, t)
=============================================================================
