------------------------------ MODULE DiskDrive ------------------------------
(***************************************************************************)
(* The built-in 3.5" drive (src/src/devices/fdc/disk_drive.cpp): head,     *)
(* side latch, drive select, motor with its delayed switch-off,            *)
(* disk-changed latch and the rotation of the medium; and the sector image *)
(* in it (src/src/devices/fdc/disk_image.cpp): addressing by cylinder,     *)
(* side and sector, and whole-sector access.  Image and drive are records; *)
(* the operators return the one after the call.  attached says that image_ *)
(* is not null (the machine owns one image object, so the pointer is null  *)
(* or points to it).  Times are absolute emulated cycles.                  *)
(***************************************************************************)
EXTENDS Integers

CONSTANTS
  Tracks,            \* kTracks, 80 cylinders
  SectorsPerTrack,   \* kSectorsPerTrack, 9
  SectorSize,        \* kSectorSize, 512 bytes
  ByteRange          \* values of an 8-bit register or byte, 256

ASSUME GeometryAssumption ==
  /\ Tracks \in Nat \ {0}
  /\ SectorsPerTrack \in Nat \ {0}
  /\ SectorSize \in Nat \ {0}
  /\ ByteRange \in Nat
  /\ 2 < ByteRange
  /\ Tracks < ByteRange
  /\ SectorsPerTrack + 1 < ByteRange

Byte == 0 .. ByteRange - 1
Track == 0 .. Tracks - 1
Side == 0 .. 1                      \* kSides = 2
TotalSectors == Tracks * 2 * SectorsPerTrack
Lba == 0 .. TotalSectors - 1

\* The bytes of a sector, a sequence like every buffer of the model.
Sector == [1 .. SectorSize -> Byte]
ZeroSector == [j \in 1 .. SectorSize |-> 0]

\* data_ cut into sectors, write_protected_ and the dirty_ bookkeeping.
Image == [data : [Lba -> Sector], write_protected : BOOLEAN, dirty : BOOLEAN]

ChsToLba(track, side, sector) == (track * 2 + side) * SectorsPerTrack + (sector - 1)

ValidChs(track, side, sector) ==
  /\ track < Tracks
  /\ side < 2
  /\ sector >= 1
  /\ sector <= SectorsPerTrack

\* read_chs succeeds exactly on a valid address.
ReadChs(image, track, side, sector) == image.data[ChsToLba(track, side, sector)]

\* write_chs, which ignores an invalid address and a protected image.
WriteChs(image, track, side, sector, bytes) ==
  IF ValidChs(track, side, sector) /\ ~image.write_protected
  THEN [image EXCEPT !.data[ChsToLba(track, side, sector)] = bytes, !.dirty = TRUE]
  ELSE image

-----------------------------------------------------------------------------
CONSTANTS
  IndexPeriod,       \* kIndexPeriodCycles, one revolution
  IndexPulseWidth,   \* kIndexPulseWidthCycles
  MotorOffCycles     \* kMotorOffCycles, the delayed motor-off

ASSUME RotationAssumption ==
  /\ IndexPeriod \in Nat \ {0}
  /\ IndexPulseWidth \in 1 .. IndexPeriod
  /\ MotorOffCycles \in Nat \ {0}

Drive == [attached : BOOLEAN, physical_track : Track, side : Side,
          available : BOOLEAN, motor_on : BOOLEAN, motor_off_pending : BOOLEAN,
          motor_off_deadline : Nat, disk_changed : BOOLEAN, fast_disk : BOOLEAN]

\* reset() leaves image_ and fast_disk_ alone.
ResetDrive(d) ==
  [d EXCEPT !.physical_track = 0, !.side = 0, !.available = TRUE, !.motor_on = FALSE,
            !.motor_off_pending = FALSE, !.motor_off_deadline = 0, !.disk_changed = FALSE]

SetMotor(d, on, t) ==
  IF on
  THEN [d EXCEPT !.motor_on = TRUE, !.motor_off_pending = FALSE]
  ELSE IF d.motor_on /\ ~d.motor_off_pending
       THEN [d EXCEPT !.motor_off_pending = TRUE, !.motor_off_deadline = t + MotorOffCycles]
       ELSE d

StepHead(d, inward) ==
  IF inward
  THEN [d EXCEPT !.physical_track = IF @ < Tracks - 1 THEN @ + 1 ELSE @]
  ELSE [d EXCEPT !.physical_track = IF @ > 0 THEN @ - 1 ELSE @]

Ready(d) == d.available /\ d.attached

IsTrack00(d) == d.available /\ d.physical_track = 0

WriteProtected(d, image) == d.attached /\ image.write_protected

IndexPulse(d, t) == Ready(d) /\ (t % IndexPeriod) < IndexPulseWidth

CyclesUntilIndexPulse(t) ==
  LET angle == t % IndexPeriod
  IN  IF angle < IndexPulseWidth THEN 0 ELSE IndexPeriod - angle

\* Rotational latency until the ID mark of the zero-based sector k is under
\* the head; none in fast-disk mode.
CyclesUntilSectorId(d, k, t) ==
  LET sectorAngle == (k * IndexPeriod) \div SectorsPerTrack
  IN  IF d.fast_disk THEN 0
      ELSE (sectorAngle + IndexPeriod - (t % IndexPeriod)) % IndexPeriod

\* read_sector fails when no image is attached or the address is invalid.
CanRead(d, sector) == d.attached /\ ValidChs(d.physical_track, d.side, sector)

SectorUnderHead(d, image, sector) == ReadChs(image, d.physical_track, d.side, sector)

\* write_sector_at: the image after a whole sector was laid at an explicit
\* track and side; without an image the data goes nowhere.
WriteSectorAt(d, image, track, side, sector, bytes) ==
  IF d.attached THEN WriteChs(image, track, side, sector, bytes) ELSE image

\* The DSKCHG one-shot after the mutating accessor.
TakeDiskChanged(d) == [d EXCEPT !.disk_changed = FALSE]
=============================================================================
