------------------------------- MODULE SonyFdc -------------------------------
(***************************************************************************)
(* The disk interface of the machine: the Sony glue registers              *)
(* (src/src/devices/fdc/sony_fdc.cpp) over the controller (Wd2793), the    *)
(* drive (DiskDrive) and the image (DiskImage).                            *)
(*                                                                         *)
(* Three parties act on it, in any order: the CPU accesses registers, the  *)
(* emulated time goes by, and the user changes the disk, toggles the       *)
(* fast-disk mode or resets the machine (Sdl3App).  The chip is only       *)
(* brought up to the current cycle when a register of it is accessed.      *)
(***************************************************************************)
EXTENDS Wd2793

CONSTANTS
  Commands,          \* commands the CPU issues
  DataValues, TrackValues, SectorValues, SideValues,   \* register values it writes
  DriveValues,       \* values of the drive register it writes
  Media,             \* contents of the disks the user owns
  Protection,        \* write-protect tabs of those disks
  FastDiskConfig,    \* config_.fast_disk, re-applied at a reset
  UserActions,       \* what the user does in this instance
  MaxTime,           \* bound on the emulated time
  LastAccess         \* bound: no new command and no data after this cycle

\* The meaningful bits of 0x3FFD: drive select and motor.
DriveReg == [sel : 0 .. 3, motor : BOOLEAN]

ASSUME InterfaceAssumption ==
  /\ Commands \subseteq Command
  /\ DataValues \subseteq Byte /\ TrackValues \subseteq Byte
  /\ SectorValues \subseteq Byte /\ SideValues \subseteq Byte
  /\ DriveValues \subseteq DriveReg
  /\ Media \subseteq [Lba -> Sector]
  /\ Protection \subseteq BOOLEAN
  /\ FastDiskConfig \in BOOLEAN
  /\ UserActions \subseteq {"insert", "eject", "fast", "reset"}
  /\ MaxTime \in Nat /\ LastAccess \in Nat

VARIABLES
  now,        \* the scheduler's cycle count
  fdc,        \* the controller
  drive,      \* the mechanism
  disk,       \* the machine's disk_image_
  side_reg, drive_reg   \* latches of the glue

vars == <<now, fdc, drive, disk, side_reg, drive_reg>>

PowerOnDriveReg == [sel |-> 0, motor |-> FALSE]

\* write_drive_register: 00 and 10 select the one drive there is.
WithDriveReg(d, v, t) == SetMotor([d EXCEPT !.available = v.sel \in {0, 2}], v.motor, t)

BlankChip ==
  [status |-> {}, command_reg |-> [op |-> "Restore", flags |-> {}, rate |-> 0],
   track_reg |-> ByteRange - 1, sector_reg |-> 1, data_reg |-> 0,
   phase |-> "Idle", direction_in |-> TRUE, intrq_pending |-> FALSE,
   immediate_irq |-> FALSE, index_irq_armed |-> FALSE, index_irq_deadline |-> 0,
   hld_active |-> FALSE, hld_since |-> 0, busy_until |-> 0, drq_deadline |-> 0,
   write_check_deadline |-> 0, last_sync |-> 0, fast_disk |-> FastDiskConfig,
   buffer |-> << >>, data_index |-> 0, data_available |-> 0,
   write_track_num |-> 0, write_side |-> 0, write_sector_num |-> 0,
   wt_a1 |-> FALSE, wt_expect_id |-> FALSE, wt_id_count |-> 0, wt_r |-> 0,
   wt_in_data |-> FALSE, wt_data_count |-> 0, wt_data |-> ZeroSector,
   wt_sector_num |-> 0]

BlankDrive ==
  [attached |-> TRUE, physical_track |-> 0, side |-> 0, available |-> TRUE,
   motor_on |-> FALSE, motor_off_pending |-> FALSE, motor_off_deadline |-> 0,
   disk_changed |-> FALSE, fast_disk |-> FastDiskConfig]

Init ==
  /\ now = 0
  /\ fdc = BlankChip
  /\ drive = BlankDrive
  /\ disk \in {[data |-> m, write_protected |-> p, dirty |-> FALSE] :
                 m \in Media, p \in Protection}
  /\ side_reg = 0
  /\ drive_reg = PowerOnDriveReg

(***************************************************************************)
(* CPU accesses.  Chip is the controller synced to the current cycle and   *)
(* Image the image after that sync.                                        *)
(***************************************************************************)
Chip0 == Sync(fdc, drive, now)
Image0 == ImageAfterSync(fdc, drive, disk, now)

\* 0x3FF9, 0x3FFA and 0x3FFF: the track and sector registers and the
\* active-low INTRQ/DRQ byte only sync the chip.
Poll ==
  /\ fdc' = Chip0
  /\ disk' = Image0
  /\ UNCHANGED <<now, drive, side_reg, drive_reg>>

\* 0x3FF8
ReadStatus ==
  /\ fdc' = AfterReadStatus(Chip0)
  /\ disk' = Image0
  /\ UNCHANGED <<now, drive, side_reg, drive_reg>>

\* 0x3FFB
ReadData ==
  /\ fdc' = AfterReadData(Chip0, drive, Image0, now)
  /\ disk' = Image0
  /\ UNCHANGED <<now, drive, side_reg, drive_reg>>

WriteCommand ==
  /\ now <= LastAccess
  /\ \E cmd \in Commands :
       /\ fdc' = AfterWriteCommand(Chip0, drive, Image0, cmd, now)
       /\ drive' = HeadAfter(Chip0, drive, cmd)
  /\ disk' = Image0
  /\ UNCHANGED <<now, side_reg, drive_reg>>

WriteTrackReg ==
  \E v \in TrackValues :
    /\ fdc' = [Chip0 EXCEPT !.track_reg = v]
    /\ disk' = Image0
    /\ UNCHANGED <<now, drive, side_reg, drive_reg>>

WriteSectorReg ==
  \E v \in SectorValues :
    /\ fdc' = [Chip0 EXCEPT !.sector_reg = v]
    /\ disk' = Image0
    /\ UNCHANGED <<now, drive, side_reg, drive_reg>>

WriteData ==
  /\ now <= LastAccess
  /\ \E v \in DataValues :
       /\ fdc' = AfterWriteData(Chip0, drive, v, now)
       /\ disk' = ImageAfterWriteData(Chip0, drive, Image0, v)
  /\ UNCHANGED <<now, drive, side_reg, drive_reg>>

\* 0x3FFC: the side latch follows at once, whatever the chip is doing.
WriteSideReg ==
  \E v \in SideValues :
    /\ side_reg' = v
    /\ drive' = [drive EXCEPT !.side = v % 2]
    /\ UNCHANGED <<now, fdc, disk, drive_reg>>

\* 0x3FFD
WriteDriveReg ==
  \E v \in DriveValues :
    /\ drive_reg' = v
    /\ drive' = WithDriveReg(drive, v, now)
    /\ UNCHANGED <<now, fdc, disk, side_reg>>

\* 0x3FFD reads bit 2 as 0 when the selected drive reports a changed disk,
\* and that read takes the one-shot.
ReportsDiskChanged == drive.available /\ drive.disk_changed

\* Mutant: any read takes the one-shot.
AlwaysTakingReadDriveReg ==
  /\ drive' = TakeDiskChanged(drive)
  /\ UNCHANGED <<now, fdc, disk, side_reg, drive_reg>>

ReadDriveReg ==
  /\ drive' = IF drive.available THEN TakeDiskChanged(drive) ELSE drive
  /\ UNCHANGED <<now, fdc, disk, side_reg, drive_reg>>

(***************************************************************************)
(* Time and the user.                                                      *)
(***************************************************************************)
Tick ==
  /\ now < MaxTime
  /\ now' = now + 1
  /\ UNCHANGED <<fdc, drive, disk, side_reg, drive_reg>>

\* on_disk_swap_hotkey and apply_open_disks: another image takes the place
\* of disk_image_ under the drive, also in the middle of a transfer.
InsertDisk ==
  /\ "insert" \in UserActions
  /\ \E m \in Media, p \in Protection :
       disk' = [data |-> m, write_protected |-> p, dirty |-> FALSE]
  /\ drive' = [drive EXCEPT !.attached = TRUE, !.disk_changed = TRUE]
  /\ UNCHANGED <<now, fdc, side_reg, drive_reg>>

\* eject_disk
EjectDisk ==
  /\ "eject" \in UserActions
  /\ drive.attached
  /\ drive' = [drive EXCEPT !.attached = FALSE]
  /\ UNCHANGED <<now, fdc, disk, side_reg, drive_reg>>

\* set_fast_disk sets the chip and the drive in one go.
ToggleFastDisk ==
  /\ "fast" \in UserActions
  /\ fdc' = [fdc EXCEPT !.fast_disk = ~@]
  /\ drive' = [drive EXCEPT !.fast_disk = ~@]
  /\ UNCHANGED <<now, disk, side_reg, drive_reg>>

\* reset_machine: cold_boot restarts the cycle count and resets the drive,
\* the chip and the glue; the mounted disk is put back as it was and
\* reported as changed; the configured fast-disk mode is applied again.
ResetMachine ==
  /\ "reset" \in UserActions
  /\ now' = 0
  /\ fdc' = [ResetChip(fdc, 0) EXCEPT !.fast_disk = FastDiskConfig]
  /\ drive' = [WithDriveReg(ResetDrive(drive), PowerOnDriveReg, 0)
                 EXCEPT !.disk_changed = drive.attached, !.fast_disk = FastDiskConfig]
  /\ side_reg' = 0
  /\ drive_reg' = PowerOnDriveReg
  /\ UNCHANGED disk

Next ==
  \/ Poll \/ ReadStatus \/ ReadData
  \/ WriteCommand \/ WriteTrackReg \/ WriteSectorReg \/ WriteData
  \/ WriteSideReg \/ WriteDriveReg \/ ReadDriveReg
  \/ Tick \/ InsertDisk \/ EjectDisk \/ ToggleFastDisk \/ ResetMachine

Spec == Init /\ [][Next]_vars

\* Emulated time goes on, and a program that waits for a command polls the
\* status and takes the data it is offered.  A program that stops feeding a
\* Write Sector needs no more: the controller ends the command by itself.
Fairness == WF_vars(Tick) /\ WF_vars(ReadStatus) /\ WF_vars(ReadData)

FairSpec == Spec /\ Fairness

-----------------------------------------------------------------------------
TypeOK ==
  /\ now \in 0 .. MaxTime
  /\ fdc \in Chip
  /\ drive \in Drive
  /\ disk \in Image
  /\ side_reg \in Byte
  /\ drive_reg \in DriveReg

\* A command is running exactly while Busy is set, so a poll loop on Busy
\* can neither miss the end of a command nor wait for one that is over,
\* whichever of the many exits of the command it took (end_command).
BusyIffRunning == "Busy" \in fdc.status <=> fdc.phase # "Idle"

\* While a transfer runs, the bytes done and the bytes left add up to the
\* length of the transfer, and one is left: read_data and write_data index
\* the buffer inside its bounds and no sector has a byte too many or too few.
ByteBalance ==
  /\ fdc.phase \in {"ReadSector", "WriteSector"} =>
       /\ fdc.data_available > 0
       /\ fdc.data_index + fdc.data_available = SectorSize
       /\ Len(fdc.buffer) = SectorSize
  /\ fdc.phase \in {"ReadAddress", "ReadTrack"} =>
       /\ fdc.data_available > 0
       /\ fdc.data_index + fdc.data_available = Len(fdc.buffer)
  /\ fdc.phase = "WriteTrack" => fdc.data_available > 0

\* So the chip is consistent: Busy, the command under way and its counters
\* never disagree, however a command was begun, cut off or ended.
ChipConsistent == BusyIffRunning /\ ByteBalance
=============================================================================
