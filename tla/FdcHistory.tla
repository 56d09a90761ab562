----------------------------- MODULE FdcHistory -----------------------------
(***************************************************************************)
(* The disk interface as the CPU's program and the user see it: history    *)
(* variables record what the program sent and got and what it was told,    *)
(* without a look at the latches of the chip.  And the interface           *)
(* implements the sector stream: the buffer up to data_index is what the   *)
(* write has taken, the latched track, side and sector are its target.     *)
(***************************************************************************)
EXTENDS SonyFdc

VARIABLES
  sent,    \* bytes the program wrote for the sector being written
  place,   \* where the head was when that sector began: track, side, sector
  wrote,   \* the sector this access completed on a disk that could take it:
           \* its bytes, what the disk holds at the place, bytes substituted
  got,     \* bytes the program read from the sector being read
  source,  \* what that sector held when its read began
  read,    \* the sector this access read to its end: bytes, contents, loss
  owed     \* the user changed the disk and the program has not been told

history == <<sent, place, wrote, got, source, read, owed>>

NoSector == [bytes |-> << >>, contents |-> << >>, lost |-> FALSE]
Nowhere == <<0, 0, 1>>

HInit ==
  /\ Init
  /\ sent = << >> /\ place = Nowhere /\ wrote = NoSector
  /\ got = << >> /\ source = << >> /\ read = NoSector
  /\ owed = FALSE

Here(c) == <<drive.physical_track, drive.side, c.sector_reg>>
Stored(i, at) == ReadChs(i, at[1], at[2], at[3])

\* A sector write begins by a command, or because the sync of an access
\* completed an abandoned sector of a multi-record write.
SyncStartsWrite == SyncLays(fdc, SyncTime(fdc, now)) /\ Chip0.phase = "WriteSector"
PlaceAfterSync == IF Chip0.phase # "WriteSector" THEN Nowhere
                  ELSE IF SyncStartsWrite THEN Here(Chip0) ELSE place
SentAfterSync == IF Chip0.phase # "WriteSector" \/ Chip0.data_index = 0 THEN << >> ELSE sent

\* The accesses that only sync the chip.
HPoll ==
  /\ Poll \/ ReadStatus \/ WriteTrackReg \/ WriteSectorReg
  /\ sent' = SentAfterSync /\ place' = PlaceAfterSync
  /\ wrote' = NoSector /\ read' = NoSector
  /\ UNCHANGED <<got, source, owed>>

HWriteData ==
  /\ WriteData
  /\ LET writing == Chip0.phase = "WriteSector"
         full == writing /\ Chip0.data_available = 1
         bytes == Append(SentAfterSync, fdc'.data_reg)
     IN  /\ sent' = IF writing /\ ~full THEN bytes ELSE << >>
         /\ place' = IF full /\ fdc'.phase = "WriteSector" THEN Here(fdc')
                     ELSE IF full THEN Nowhere ELSE PlaceAfterSync
         /\ wrote' = IF full /\ drive.attached /\ ~disk.write_protected
                     THEN [bytes |-> bytes, contents |-> Stored(disk', PlaceAfterSync),
                           lost |-> "LostData" \in Chip0.status]
                     ELSE NoSector
  /\ read' = NoSector
  /\ UNCHANGED <<got, source, owed>>

HWriteCommand ==
  /\ WriteCommand
  /\ sent' = << >> /\ got' = << >>
  /\ place' = IF fdc'.phase = "WriteSector" THEN Here(fdc') ELSE Nowhere
  /\ source' = IF fdc'.phase = "ReadSector" THEN SectorUnderHead(drive, disk', fdc'.sector_reg)
               ELSE << >>
  /\ wrote' = NoSector /\ read' = NoSector
  /\ UNCHANGED owed

HReadData ==
  /\ ReadData
  /\ LET reading == Chip0.phase = "ReadSector" /\ Delivers(Chip0, now)
         late == LateBytes(Chip0, now)
         last == reading /\ late + 1 = Chip0.data_available
         bytes == Append(got, fdc'.data_reg)
     IN  /\ got' = IF last THEN << >> ELSE IF reading THEN bytes ELSE got
         /\ read' = IF last THEN [bytes |-> bytes, contents |-> source,
                                  lost |-> "LostData" \in Chip0.status \/ late > 0]
                    ELSE NoSector
         /\ source' = IF last /\ fdc'.phase = "ReadSector"
                      THEN SectorUnderHead(drive, disk, fdc'.sector_reg) ELSE source
  /\ sent' = SentAfterSync /\ place' = PlaceAfterSync
  /\ wrote' = NoSector
  /\ UNCHANGED owed

\* What the user does and the glue registers, which do not sync the chip.
HGlue ==
  /\ \/ InsertDisk /\ owed' = TRUE
     \/ ResetMachine /\ owed' = drive.attached
     \/ ReadDriveReg /\ owed' = (owed /\ ~ReportsDiskChanged)
     \/ /\ WriteSideReg \/ WriteDriveReg \/ Tick \/ EjectDisk \/ ToggleFastDisk
        /\ UNCHANGED owed
  /\ wrote' = NoSector /\ read' = NoSector
  /\ UNCHANGED <<sent, place, got, source>>

HNext == HPoll \/ HWriteData \/ HWriteCommand \/ HReadData \/ HGlue

HSpec == HInit /\ [][HNext]_<<vars, history>>

-----------------------------------------------------------------------------
\* A sector write that completes without Lost Data leaves exactly the bytes
\* the program sent, in order, where the head was when the write began, for
\* early, late and burst writes and with the side latch rewritten in between
\* (write_data, commit_write_sector_byte, finish_write_sector).
WrittenAsSent == wrote.lost \/ wrote.bytes = wrote.contents

\* A sector read to its end without Lost Data gave the program exactly the
\* bytes the sector held when the read began: the catch-up of read_data
\* never skips a byte silently, also when the disk is changed in between.
ReadAsStored == read.lost \/ read.bytes = read.contents

\* A disk change the program was not told of is still latched, so a probe
\* of 0x3FFD made while no drive was selected has not used up the one-shot
\* (mem_read 0x3FFD, take_disk_changed).
ChangeNeverMissed == owed => drive.disk_changed
-----------------------------------------------------------------------------
(***************************************************************************)
(* The refinement of SectorStream.                                         *)
(***************************************************************************)
TrackSectors(track, side) == {ChsToLba(track, side, s) : s \in 1 .. SectorsPerTrack}

WriteUnderWay ==
  IF fdc.phase = "WriteSector"
  THEN [target |-> ChsToLba(fdc.write_track_num, fdc.write_side, fdc.write_sector_num),
        taken |-> SubSeq(fdc.buffer, 1, fdc.data_index)]
  ELSE [target |-> -1, taken |-> << >>]

FormatUnderWay ==
  IF fdc.phase = "WriteTrack" THEN TrackSectors(fdc.write_track_num, fdc.write_side) ELSE {}

Stream == INSTANCE SectorStream WITH
  Sectors <- Lba,
  Tracks <- {TrackSectors(t, s) : t \in Track, s \in Side},
  Values <- Byte,
  Size <- SectorSize,
  Disks <- Media,
  medium <- disk.data,
  writing <- WriteUnderWay,
  formatting <- FormatUnderWay

\* Through every cadence of CPU writes, late or burst, through abandoned
\* sectors, side changes, new commands and disk swaps in mid-transfer, the
\* image changes only by whole sectors, each exactly the bytes taken since
\* its write began, at the place the head was on then (commit_write_sector_byte,
\* finish_write_sector, parse_write_track_byte).
WritesWholeSectors == Stream!Spec
=============================================================================
