---------------------------- MODULE SonyFdcProofs ----------------------------
(***************************************************************************)
(* The safety invariants of the disk interface, for every geometry, every  *)
(* timing and every set of commands and values, at every cycle an access   *)
(* may come.  The inductive invariant is the conjunction of the            *)
(* properties: the byte balance is what keeps the counters natural and the *)
(* buffer accesses inside the buffer, so the type needs it, and the chip   *)
(* being in step with the drive needs nothing else.                        *)
(*                                                                         *)
(* Then what the program is promised (FdcHistory).  HInv adds that while a *)
(* sector is under way the record of the program's bytes is the buffer up  *)
(* to data_index, and the record of the place is the chip's latches; from  *)
(* it follow that sectors are written as sent and read as stored, that no  *)
(* change of the disk goes unreported, and that the interface implements   *)
(* the sector stream.                                                      *)
(*                                                                         *)
(* Last, that polls cannot be seen (FdcPolling): PInv says that the two    *)
(* chips, synced to the same cycle, agree but for the head.                *)
(***************************************************************************)
EXTENDS FdcHistory, FdcPolling, Wd2793Proofs

\* The chip and the drive agree on the fast-disk mode.
FastDiskLockstep == fdc.fast_disk = drive.fast_disk

IInv == TypeOK /\ BusyIffRunning /\ ByteBalance /\ FastDiskLockstep

\* The inductive invariant, the chip's part of it put together.
LEMMA IInvParts ==
  IInv <=> /\ now \in 0 .. MaxTime
           /\ Sound(fdc, drive.fast_disk)
           /\ drive \in Drive
           /\ disk \in Image
           /\ side_reg \in Byte
           /\ drive_reg \in DriveReg
  BY DEF IInv, TypeOK, BusyIffRunning, ByteBalance, FastDiskLockstep, Sound, Balanced

\* The parts of the invariant in the next state.
LEMMA IInvPartsPrime ==
  IInv' <=> /\ now' \in 0 .. MaxTime
            /\ Sound(fdc', drive'.fast_disk)
            /\ drive' \in Drive
            /\ disk' \in Image
            /\ side_reg' \in Byte
            /\ drive_reg' \in DriveReg
  BY DEF IInv, TypeOK, BusyIffRunning, ByteBalance, FastDiskLockstep, Sound, Balanced

\* The drive register changes the drive's motor and selection only.
LEMMA DriveRegType ==
  ASSUME NEW d \in Drive, NEW v \in DriveReg, NEW t \in Nat
  PROVE  /\ WithDriveReg(d, v, t) \in Drive
         /\ WithDriveReg(d, v, t).fast_disk = d.fast_disk
<1> DEFINE g == [d EXCEPT !.available = v.sel \in {0, 2}]
<1>1. (v.sel \in {0, 2}) \in BOOLEAN /\ v.motor \in BOOLEAN  BY DEF DriveReg
<1>2. g \in Drive /\ g.fast_disk = d.fast_disk  BY <1>1 DEF Drive
<1>3. WithDriveReg(d, v, t) = SetMotor(g, v.motor, t)  BY DEF WithDriveReg
<1> HIDE DEF g
<1>4. SetMotor(g, v.motor, t) \in Drive  BY <1>1, <1>2, MechanismType
<1>5. SetMotor(g, v.motor, t).fast_disk = g.fast_disk  BY <1>2 DEF SetMotor, Drive
<1> QED BY <1>2, <1>3, <1>4, <1>5

\* The interface starts consistent.
LEMMA InitIInv == Init => IInv
<1> SUFFICES ASSUME Init PROVE IInv  OBVIOUS
<1>1. now \in 0 .. MaxTime  BY InterfaceAssumption DEF Init
<1>2. BlankChip \in Chip
  <2> DEFINE command == [op |-> "Restore", flags |-> {}, rate |-> 0]
             high == ByteRange - 1
  <2>1. command \in Command  BY DEF Command, Type1Ops
  <2>2. high \in Byte /\ 0 \in Byte /\ 1 \in Byte /\ 0 \in Track /\ 0 \in Side  BY ByteConstants
  <2>3. << >> \in Seq(Byte) /\ ZeroSector \in Sector  BY ZeroSectorType
  <2>4. 0 \in 0 .. SectorSize /\ 0 \in 0 .. 4  BY GeometryAssumption
  <2>5. FastDiskConfig \in BOOLEAN  BY InterfaceAssumption
  <2> HIDE DEF command, high
  <2> QED BY <2>1, <2>2, <2>3, <2>4, <2>5 DEF BlankChip, Chip, Phase, command, high
<1>3. Sound(BlankChip, FastDiskConfig)
  <2>1. /\ BlankChip.fast_disk = FastDiskConfig /\ BlankChip.phase = "Idle"
        /\ BlankChip.status = {}
    BY DEF BlankChip
  <2> QED BY <1>2, <2>1 DEF Sound, Balanced
<1>4. BlankDrive \in Drive /\ BlankDrive.fast_disk = FastDiskConfig
  <2>1. FastDiskConfig \in BOOLEAN  BY InterfaceAssumption
  <2> QED BY <2>1, ByteConstants DEF BlankDrive, Drive
<1>5. disk \in Image
  <2>1. PICK m \in Media, p \in Protection :
          disk = [data |-> m, write_protected |-> p, dirty |-> FALSE]
    BY DEF Init
  <2>2. m \in [Lba -> Sector] /\ p \in BOOLEAN  BY InterfaceAssumption
  <2> QED BY <2>1, <2>2 DEF Image
<1>6. side_reg \in Byte /\ drive_reg \in DriveReg
  BY ByteConstants DEF Init, PowerOnDriveReg, DriveReg
<1> QED BY <1>1, <1>3, <1>4, <1>5, <1>6, IInvParts DEF Init

\* The chip an access finds.
LEMMA SyncedSound ==
  ASSUME IInv
  PROVE  /\ now \in Nat
         /\ Chip0 \in Chip /\ Chip0.fast_disk = drive.fast_disk
         /\ Sound(Chip0, drive.fast_disk)
         /\ Image0 \in Image
         /\ now \in 0 .. MaxTime /\ drive \in Drive /\ disk \in Image
         /\ side_reg \in Byte /\ drive_reg \in DriveReg
<1>1. /\ now \in 0 .. MaxTime /\ Sound(fdc, drive.fast_disk) /\ drive \in Drive /\ disk \in Image
      /\ side_reg \in Byte /\ drive_reg \in DriveReg
  BY IInvParts
<1>2. now \in Nat  BY <1>1, InterfaceAssumption
<1>3. Sound(Chip0, drive.fast_disk)  BY <1>1, <1>2, SyncSound DEF Chip0
<1>4. Chip0 \in Chip /\ Chip0.fast_disk = drive.fast_disk  BY <1>3 DEF Sound
<1>5. Image0 \in Image  BY <1>1, <1>2, ImageAfterSyncType DEF Image0
<1> QED BY <1>1, <1>2, <1>3, <1>4, <1>5

\* A register field that no invariant mentions may be set freely.
LEMMA RegisterSet ==
  ASSUME NEW f, NEW fast, Sound(f, fast)
  PROVE  /\ \A v \in Byte : Sound([f EXCEPT !.track_reg = v], fast)
         /\ \A v \in Byte : Sound([f EXCEPT !.sector_reg = v], fast)
         /\ Sound(AfterReadStatus(f), fast)
<1>1. f \in Chip /\ f.fast_disk = fast /\ ("Busy" \in f.status <=> f.phase # "Idle") /\ Balanced(f)
  BY DEF Sound
<1>2. ASSUME NEW v \in Byte  PROVE Sound([f EXCEPT !.track_reg = v], fast)
  <2> DEFINE g == [f EXCEPT !.track_reg = v]
  <2>1. g \in Chip /\ SameTransfer(f, g)  BY <1>1 DEF Chip, SameTransfer
  <2> HIDE DEF g
  <2> QED BY <1>1, <2>1 DEF Sound, Balanced, SameTransfer, g
<1>3. ASSUME NEW v \in Byte  PROVE Sound([f EXCEPT !.sector_reg = v], fast)
  <2> DEFINE g == [f EXCEPT !.sector_reg = v]
  <2>1. g \in Chip /\ SameTransfer(f, g)  BY <1>1 DEF Chip, SameTransfer
  <2> HIDE DEF g
  <2> QED BY <1>1, <2>1 DEF Sound, Balanced, SameTransfer, g
<1>4. Sound(AfterReadStatus(f), fast)
  <2> DEFINE g == AfterReadStatus(f)
  <2>1. g \in Chip /\ SameTransfer(f, g)  BY <1>1 DEF Chip, SameTransfer, AfterReadStatus
  <2> HIDE DEF g
  <2> QED BY <1>1, <2>1 DEF Sound, Balanced, SameTransfer, g
<1> QED BY <1>2, <1>3, <1>4

(***************************************************************************)
(* The steps.                                                              *)
(***************************************************************************)
\* A step that brings a sound chip and well-typed parts keeps the invariant.
LEMMA StepParts ==
  ASSUME now' \in 0 .. MaxTime, Sound(fdc', drive'.fast_disk), drive' \in Drive,
         disk' \in Image, side_reg' \in Byte, drive_reg' \in DriveReg
  PROVE  IInv'
  BY IInvPartsPrime

\* A disk that is inserted is an image.
LEMMA InsertedImageType ==
  ASSUME NEW m \in Media, NEW p \in Protection
  PROVE  [data |-> m, write_protected |-> p, dirty |-> FALSE] \in Image
<1>1. m \in [Lba -> Sector] /\ p \in BOOLEAN  BY InterfaceAssumption
<1> QED BY <1>1 DEF Image

\* A drive after a reset is a drive.
LEMMA ResetDriveSound ==
  ASSUME drive \in Drive
  PROVE  [WithDriveReg(ResetDrive(drive), PowerOnDriveReg, 0)
            EXCEPT !.disk_changed = drive.attached, !.fast_disk = FastDiskConfig] \in Drive
<1> DEFINE d == WithDriveReg(ResetDrive(drive), PowerOnDriveReg, 0)
<1>1. PowerOnDriveReg \in DriveReg  BY DEF PowerOnDriveReg, DriveReg
<1>2. ResetDrive(drive) \in Drive  BY MechanismType
<1>3. d \in Drive  BY <1>1, <1>2, DriveRegType
<1>4. drive.attached \in BOOLEAN /\ FastDiskConfig \in BOOLEAN
  BY InterfaceAssumption DEF Drive
<1> HIDE DEF d
<1>5. ASSUME NEW a \in BOOLEAN, NEW b \in BOOLEAN
      PROVE  [d EXCEPT !.disk_changed = a, !.fast_disk = b] \in Drive
  BY <1>3 DEF Drive
<1>6. [d EXCEPT !.disk_changed = drive.attached, !.fast_disk = FastDiskConfig] \in Drive
  BY <1>4, <1>5
<1> QED BY <1>6 DEF d

\* Setting the mode in the chip and in the drive keeps the chip sound.
LEMMA FastSet ==
  ASSUME NEW f, NEW fast, Sound(f, fast), NEW b \in BOOLEAN
  PROVE  Sound([f EXCEPT !.fast_disk = b], b)
<1>1. f \in Chip /\ ("Busy" \in f.status <=> f.phase # "Idle") /\ Balanced(f)  BY DEF Sound
<1> DEFINE g == [f EXCEPT !.fast_disk = b]
<1>2. g \in Chip  BY <1>1 DEF Chip
<1>3. /\ g.fast_disk = b /\ g.status = f.status /\ g.phase = f.phase /\ g.buffer = f.buffer
      /\ g.data_index = f.data_index /\ g.data_available = f.data_available
  BY <1>1 DEF Chip
<1> HIDE DEF g
<1>4. Balanced(g)  BY <1>1, <1>3 DEF Balanced
<1>5. Sound(g, b)  BY <1>1, <1>2, <1>3, <1>4 DEF Sound
<1> QED BY <1>5 DEF g

\* The accesses to the chip, each with its sync, keep the invariant.
LEMMA AccessStep ==
  ASSUME IInv, Poll \/ ReadStatus \/ ReadData \/ WriteCommand \/ WriteTrackReg
               \/ WriteSectorReg \/ WriteData
  PROVE  IInv'
<1> USE SyncedSound
<1>1. CASE Poll
  BY <1>1, StepParts DEF Poll
<1>2. CASE ReadStatus
  <2>1. Sound(AfterReadStatus(Chip0), drive.fast_disk)  BY RegisterSet
  <2> QED BY <1>2, <2>1, StepParts DEF ReadStatus
<1>3. CASE ReadData
  <2>1. Sound(AfterReadData(Chip0, drive, Image0, now), drive.fast_disk)  BY AfterReadDataSound
  <2> QED BY <1>3, <2>1, StepParts DEF ReadData
<1>4. CASE WriteCommand
  <2>1. PICK cmd \in Commands :
          /\ fdc' = AfterWriteCommand(Chip0, drive, Image0, cmd, now)
          /\ drive' = HeadAfter(Chip0, drive, cmd)
    BY <1>4 DEF WriteCommand
  <2>2. cmd \in Command  BY InterfaceAssumption
  <2>3. drive' \in Drive /\ drive'.fast_disk = drive.fast_disk  BY <2>1, <2>2, HeadAfterType
  <2>4. Sound(fdc', Chip0.fast_disk)  BY <2>1, <2>2, AfterWriteCommandSound
  <2> QED BY <1>4, <2>3, <2>4, StepParts DEF WriteCommand
<1>5. CASE WriteTrackReg
  <2>1. PICK v \in TrackValues : fdc' = [Chip0 EXCEPT !.track_reg = v]
    BY <1>5 DEF WriteTrackReg
  <2>2. v \in Byte  BY InterfaceAssumption
  <2>3. Sound(fdc', drive.fast_disk)  BY <2>1, <2>2, RegisterSet
  <2> QED BY <1>5, <2>3, StepParts DEF WriteTrackReg
<1>6. CASE WriteSectorReg
  <2>1. PICK v \in SectorValues : fdc' = [Chip0 EXCEPT !.sector_reg = v]
    BY <1>6 DEF WriteSectorReg
  <2>2. v \in Byte  BY InterfaceAssumption
  <2>3. Sound(fdc', drive.fast_disk)  BY <2>1, <2>2, RegisterSet
  <2> QED BY <1>6, <2>3, StepParts DEF WriteSectorReg
<1>7. CASE WriteData
  <2>1. PICK v \in DataValues :
          /\ fdc' = AfterWriteData(Chip0, drive, v, now)
          /\ disk' = ImageAfterWriteData(Chip0, drive, Image0, v)
    BY <1>7 DEF WriteData
  <2>2. v \in Byte  BY InterfaceAssumption
  <2>3. Sound(fdc', drive.fast_disk)  BY <2>1, <2>2, AfterWriteDataSound
  <2>4. disk' \in Image  BY <2>1, <2>2, ImageAfterWriteDataType
  <2> QED BY <1>7, <2>3, <2>4, StepParts DEF WriteData
<1> QED BY <1>1, <1>2, <1>3, <1>4, <1>5, <1>6, <1>7

\* The interface's own registers keep the invariant.
LEMMA GlueStep ==
  ASSUME IInv, WriteSideReg \/ WriteDriveReg \/ ReadDriveReg
  PROVE  IInv'
<1>1. /\ now \in 0 .. MaxTime /\ Sound(fdc, drive.fast_disk) /\ drive \in Drive /\ disk \in Image
      /\ side_reg \in Byte /\ drive_reg \in DriveReg
  BY IInvParts
<1>2. now \in Nat  BY <1>1, InterfaceAssumption
<1>3. CASE WriteSideReg
  <2>1. PICK v \in SideValues : side_reg' = v /\ drive' = [drive EXCEPT !.side = v % 2]
    BY <1>3 DEF WriteSideReg
  <2>2. v \in Byte  BY InterfaceAssumption
  <2>3. v % 2 \in Side  BY <2>2, GeometryAssumption DEF Byte, Side
  <2>4. drive' \in Drive /\ drive'.fast_disk = drive.fast_disk  BY <1>1, <2>1, <2>3 DEF Drive
  <2> QED BY <1>1, <1>3, <2>1, <2>2, <2>4, StepParts DEF WriteSideReg
<1>4. CASE WriteDriveReg
  <2>1. PICK v \in DriveValues : drive_reg' = v /\ drive' = WithDriveReg(drive, v, now)
    BY <1>4 DEF WriteDriveReg
  <2>2. v \in DriveReg  BY InterfaceAssumption
  <2>3. drive' \in Drive /\ drive'.fast_disk = drive.fast_disk
    BY <1>1, <1>2, <2>1, <2>2, DriveRegType
  <2> QED BY <1>1, <1>4, <2>1, <2>2, <2>3, StepParts DEF WriteDriveReg
<1>5. CASE ReadDriveReg
  <2>1. TakeDiskChanged(drive) \in Drive /\ TakeDiskChanged(drive).fast_disk = drive.fast_disk
    BY <1>1, <1>2, MechanismType DEF TakeDiskChanged, Drive
  <2>2. drive' \in Drive /\ drive'.fast_disk = drive.fast_disk
    BY <1>1, <1>5, <2>1 DEF ReadDriveReg
  <2> QED BY <1>1, <1>5, <2>2, StepParts DEF ReadDriveReg
<1> QED BY <1>3, <1>4, <1>5

\* Time, the user and a reset keep the invariant.
LEMMA EnvironmentStep ==
  ASSUME IInv, Tick \/ InsertDisk \/ EjectDisk \/ ToggleFastDisk \/ ResetMachine
  PROVE  IInv'
<1>1. /\ now \in 0 .. MaxTime /\ Sound(fdc, drive.fast_disk) /\ drive \in Drive /\ disk \in Image
      /\ side_reg \in Byte /\ drive_reg \in DriveReg
  BY IInvParts
<1>2. CASE Tick
  <2>1. now' \in 0 .. MaxTime  BY <1>1, <1>2, InterfaceAssumption DEF Tick
  <2> QED BY <1>1, <1>2, <2>1, StepParts DEF Tick
<1>3. CASE InsertDisk
  <2>1. disk' \in Image  BY <1>3, InsertedImageType DEF InsertDisk
  <2>2. drive' \in Drive /\ drive'.fast_disk = drive.fast_disk  BY <1>1, <1>3 DEF InsertDisk, Drive
  <2> QED BY <1>1, <1>3, <2>1, <2>2, StepParts DEF InsertDisk
<1>4. CASE EjectDisk
  <2>1. drive' \in Drive /\ drive'.fast_disk = drive.fast_disk  BY <1>1, <1>4 DEF EjectDisk, Drive
  <2> QED BY <1>1, <1>4, <2>1, StepParts DEF EjectDisk
<1>5. CASE ToggleFastDisk
  <2>1. fdc.fast_disk = drive.fast_disk  BY <1>1 DEF Sound
  <2>2. /\ fdc' = [fdc EXCEPT !.fast_disk = ~fdc.fast_disk]
        /\ drive' = [drive EXCEPT !.fast_disk = ~drive.fast_disk]
    BY <1>5 DEF ToggleFastDisk
  <2>3. (~drive.fast_disk) \in BOOLEAN  OBVIOUS
  <2>4. drive' \in Drive /\ drive'.fast_disk = ~drive.fast_disk  BY <1>1, <2>2, <2>3 DEF Drive
  <2>5. Sound(fdc', ~drive.fast_disk)  BY <1>1, <2>1, <2>2, <2>3, FastSet
  <2>6. Sound(fdc', drive'.fast_disk)  BY <2>4, <2>5
  <2> QED BY <1>1, <1>5, <2>4, <2>6, StepParts DEF ToggleFastDisk
<1>6. CASE ResetMachine
  <2>1. FastDiskConfig \in BOOLEAN /\ 0 \in 0 .. MaxTime /\ 0 \in Byte
    BY InterfaceAssumption, ByteConstants
  <2>2. PowerOnDriveReg \in DriveReg  BY DEF PowerOnDriveReg, DriveReg
  <2>3. fdc \in Chip  BY <1>1 DEF Sound
  <2>4. drive' \in Drive /\ drive'.fast_disk = FastDiskConfig
    BY <1>1, <1>6, ResetDriveSound DEF ResetMachine, Drive
  <2>5. Sound(fdc', FastDiskConfig)
    BY <1>6, <2>1, <2>3, ResetChipSound, FastSet DEF ResetMachine
  <2>6. Sound(fdc', drive'.fast_disk)  BY <2>4, <2>5
  <2> QED BY <1>1, <1>6, <2>1, <2>2, <2>4, <2>6, StepParts DEF ResetMachine
<1> QED BY <1>2, <1>3, <1>4, <1>5, <1>6

\* Every step keeps the invariant.
LEMMA NextIInv == IInv /\ [Next]_vars => IInv'
<1> SUFFICES ASSUME IInv, [Next]_vars PROVE IInv'  OBVIOUS
<1>1. CASE UNCHANGED vars
  BY <1>1, IInvParts, StepParts DEF vars
<1> QED BY <1>1, AccessStep, GlueStep, EnvironmentStep DEF Next

\* The invariant holds.
LEMMA InterfaceSound == Spec => []IInv
  BY InitIInv, NextIInv, PTL DEF Spec

(***************************************************************************)
(* The theorems.                                                           *)
(***************************************************************************)
\* Every register, counter and buffer of the interface keeps its type: no
\* counter of the controller goes below zero, the head stays on the medium
\* and every sector laid on the disk is a whole one, wherever a command is
\* cut off by a late access, a swap of the disk, a toggle or a reset.
THEOREM TypeCorrect == Spec => []TypeOK
<1>1. IInv => TypeOK  BY DEF IInv
<1> QED BY <1>1, InterfaceSound, PTL

\* Busy is set exactly while a command runs: every one of the exits of the
\* controller (completion, abort, rejection, Force Interrupt, reset) clears
\* it and no start of a command forgets it.
THEOREM BusyMeansRunning == Spec => []BusyIffRunning
<1>1. IInv => BusyIffRunning  BY DEF IInv
<1> QED BY <1>1, InterfaceSound, PTL

\* In every transfer the bytes done and the bytes left add up to its length,
\* for every cadence, however late the program comes and whatever commands
\* it starts while another one runs.
THEOREM TransfersBalance == Spec => []ByteBalance
<1>1. IInv => ByteBalance  BY DEF IInv
<1> QED BY <1>1, InterfaceSound, PTL

\* Busy, the phase and the counters of a transfer agree in every state.
THEOREM ChipIsConsistent == Spec => []ChipConsistent
BY BusyMeansRunning, TransfersBalance, PTL DEF ChipConsistent
-----------------------------------------------------------------------------
(***************************************************************************)
(* What the program sent and got (FdcHistory).  First what each operation  *)
(* of the chip does to the transfer under way.                             *)
(***************************************************************************)
PlaceOf(f) == <<f.write_track_num, f.write_side, f.write_sector_num>>
Lost(f) == "LostData" \in f.status

\* A sector write that has just begun where the head is.
Begun(f, d) ==
  /\ f.phase = "WriteSector" /\ f.data_index = 0
  /\ f.sector_reg \in 1 .. SectorsPerTrack
  /\ PlaceOf(f) = <<d.physical_track, d.side, f.sector_reg>>

\* A sector read that has just begun where the head is.
Loaded(f, d, i) ==
  /\ f.phase = "ReadSector" /\ f.data_index = 0
  /\ f.buffer = SectorUnderHead(d, i, f.sector_reg)

SameWork(f, g) ==
  /\ g.phase = f.phase /\ g.buffer = f.buffer
  /\ g.data_index = f.data_index /\ g.data_available = f.data_available
  /\ PlaceOf(g) = PlaceOf(f) /\ (Lost(g) <=> Lost(f))
  /\ g.wt_data = f.wt_data /\ g.wt_sector_num = f.wt_sector_num

\* The end of a command leaves the data register.
LEMMA EndCommandOutcome ==
  ASSUME NEW f \in Chip, NEW t \in Nat
  PROVE  EndCommand(f, t).phase = "Idle" /\ EndCommand(f, t).data_reg = f.data_reg
  BY DEF EndCommand, Chip

\* A write begins at its first byte, where the drive stands.
LEMMA BeginWriteOutcome ==
  ASSUME NEW f \in Chip, OnTrack(f), NEW d \in Drive, NEW t \in Nat
  PROVE  Begun(BeginWriteSector(f, d, t), d) /\ BeginWriteSector(f, d, t).data_reg = f.data_reg
<1> DEFINE g == BeginWriteSector(f, d, t)
<1>1. /\ g.phase = "WriteSector" /\ g.data_index = 0 /\ g.sector_reg = f.sector_reg
      /\ g.write_track_num = d.physical_track /\ g.write_side = d.side
      /\ g.write_sector_num = f.sector_reg /\ g.data_reg = f.data_reg
  BY DEF BeginWriteSector, Chip
<1> HIDE DEF g
<1>2. Begun(g, d) /\ g.data_reg = f.data_reg  BY <1>1 DEF Begun, PlaceOf, OnTrack
<1> QED BY <1>2 DEF g

\* A read begins with the bytes of the disk, or not at all.
LEMMA BeginReadOutcome ==
  ASSUME NEW f \in Chip, NEW d \in Drive, NEW i \in Image, NEW t \in Nat
  PROVE  LET g == BeginReadSector(f, d, i, t)
         IN  (g.phase = "Idle" \/ Loaded(g, d, i)) /\ g.data_reg = f.data_reg
<1> DEFINE g == BeginReadSector(f, d, i, t)
<1>1. CASE CanRead(d, f.sector_reg)
  <2> DEFINE s == SectorUnderHead(d, i, f.sector_reg)
             drq == FirstDrq(f, d, t)
  <2>1. g = [f EXCEPT !.buffer = s, !.data_index = 0, !.data_available = SectorSize,
                      !.drq_deadline = drq, !.phase = "ReadSector", !.status = @ \cup {"Busy"}]
    BY <1>1 DEF BeginReadSector
  <2> HIDE DEF s, drq, g
  <2>2. /\ g.phase = "ReadSector" /\ g.data_index = 0 /\ g.sector_reg = f.sector_reg
        /\ g.data_reg = f.data_reg /\ g.buffer = s
    BY <2>1 DEF Chip
  <2> QED BY <2>2 DEF Loaded, s, g
<1>2. CASE ~CanRead(d, f.sector_reg)
  <2> DEFINE z == [f EXCEPT !.buffer = ZeroSector]
             y == [z EXCEPT !.status = @ \cup {"NotFound"}]
  <2>1. z \in Chip /\ z.data_reg = f.data_reg  BY ZeroSectorType DEF Chip
  <2> HIDE DEF z
  <2>2. y \in Chip /\ y.data_reg = f.data_reg  BY <2>1 DEF Chip, StickyBits
  <2>3. g = EndCommand(y, t)  BY <1>2 DEF BeginReadSector, Fail, z
  <2> HIDE DEF y, g
  <2>4. g.phase = "Idle" /\ g.data_reg = f.data_reg  BY <2>2, <2>3, EndCommandOutcome
  <2> QED BY <2>4 DEF g
<1> QED BY <1>1, <1>2

\* The step to the next sector leaves the data register.
LEMMA NextSectorOutcome ==
  ASSUME NEW f \in Chip
  PROVE  NextSector(f) \in Chip /\ NextSector(f).data_reg = f.data_reg
  BY NextSectorType DEF NextSector, Chip

\* What follows the last byte of a written sector.
LEMMA FinishWriteOutcome ==
  ASSUME NEW f \in Chip, NEW d \in Drive, NEW t \in Nat
  PROVE  LET g == FinishWriteSector(f, d, t)
         IN  (g.phase = "Idle" \/ Begun(g, d)) /\ g.data_reg = f.data_reg
  BY NextSectorOutcome, EndCommandOutcome, BeginWriteOutcome DEF FinishWriteSector

\* What follows the last byte of a read sector.
LEMMA FinishReadOutcome ==
  ASSUME NEW f \in Chip, NEW d \in Drive, NEW i \in Image, NEW t \in Nat
  PROVE  LET g == FinishReadSector(f, d, i, t)
         IN  (g.phase = "Idle" \/ Loaded(g, d, i)) /\ g.data_reg = f.data_reg
  BY NextSectorOutcome, EndCommandOutcome, BeginReadOutcome DEF FinishReadSector

\* A byte the CPU writes goes into its slot, and the last one ends the sector.
LEMMA CommitOutcome ==
  ASSUME NEW f, NEW fast, Sound(f, fast), f.phase = "WriteSector",
         NEW d \in Drive, NEW v \in Byte, NEW t \in Nat
  PROVE  LET g == CommitByte(f, d, v, t)
         IN  /\ g.data_reg = f.data_reg
             /\ f.data_available = 1 => g.phase = "Idle" \/ Begun(g, d)
             /\ f.data_available # 1 =>
                  /\ g.phase = "WriteSector" /\ PlaceOf(g) = PlaceOf(f)
                  /\ g.status = f.status /\ g.data_index = f.data_index + 1
                  /\ g.buffer = [f.buffer EXCEPT ![f.data_index + 1] = v]
<1> DEFINE b == [f.buffer EXCEPT ![f.data_index + 1] = v]
           k == f.data_index + 1
           n == f.data_available - 1
           drq == t + ByteCycles(f)
           h == [f EXCEPT !.buffer = b, !.data_index = k, !.data_available = n,
                          !.drq_deadline = drq]
<1>1. f \in Chip /\ Balanced(f)  BY DEF Sound
<1>2. k \in Nat /\ n \in Nat /\ f.data_available \in Nat /\ b \in Seq(Byte) /\ drq \in Nat
  <2>1. /\ k \in 1 .. Len(f.buffer) /\ k \in Nat /\ n \in Nat /\ f.buffer \in Seq(Byte)
    BY <1>1, WritePosition
  <2>2. b \in Seq(Byte)  BY <2>1, ExceptSeq
  <2>3. drq \in Nat  BY <1>1, CycleTypes
  <2>4. f.data_available \in Nat  BY <1>1 DEF Chip
  <2> QED BY <2>1, <2>2, <2>3, <2>4
<1>3. CommitByte(f, d, v, t) = IF h.data_available = 0 THEN FinishWriteSector(h, d, t) ELSE h
  BY DEF CommitByte
<1> HIDE DEF b, k, drq
<1>4. h \in Chip  BY <1>1, <1>2, CommitFieldsType, Zenon
<1>5. /\ h.data_reg = f.data_reg /\ h.phase = "WriteSector" /\ PlaceOf(h) = PlaceOf(f)
      /\ h.status = f.status /\ h.data_index = k /\ h.buffer = b /\ h.data_available = n
  BY <1>1 DEF Chip, PlaceOf
<1> HIDE DEF h
<1>6. CASE f.data_available = 1
  BY <1>3, <1>4, <1>5, <1>6, FinishWriteOutcome
<1>7. CASE f.data_available # 1
  <2>1. n # 0  BY <1>2, <1>7
  <2> QED BY <1>3, <1>5, <1>7, <2>1 DEF b, k
<1> QED BY <1>6, <1>7
\* Substituted slots: the write goes on, or its last slot ended the sector.
LEMMA SubstituteOutcome ==
  ASSUME NEW f, NEW fast, Sound(f, fast), f.phase = "WriteSector",
         NEW d \in Drive, NEW n \in 1 .. f.data_available, NEW t \in Nat
  PROVE  LET g == SubstituteSlots(f, d, n, t)
         IN  /\ n = f.data_available => g.phase = "Idle" \/ Begun(g, d)
             /\ n # f.data_available =>
                  /\ g.phase = "WriteSector" /\ PlaceOf(g) = PlaceOf(f) /\ Lost(g)
                  /\ g.data_index = f.data_index + n /\ g.buffer = ZeroFilled(f, n)
<1> DEFINE b == ZeroFilled(f, n)
           k == f.data_index + n
           m == f.data_available - n
           drq == f.drq_deadline + n * ByteCycles(f)
           h == [f EXCEPT !.buffer = b, !.data_index = k, !.data_available = m,
                          !.drq_deadline = drq]
           g == [h EXCEPT !.status = @ \cup {"LostData"}]
<1>1. f \in Chip /\ f.fast_disk = fast  BY DEF Sound
<1>2. /\ f.data_index \in Nat /\ f.data_available \in Nat
      /\ f.drq_deadline \in Nat /\ ByteCycles(f) \in Nat
  BY <1>1, CycleTypes DEF Chip
<1>3. k \in Nat /\ m \in Nat /\ n \in Nat  BY <1>2
<1>4. b \in Seq(Byte)  BY <1>1, <1>3, ZeroFilledType
<1>5. drq \in Nat
  <2>1. n * ByteCycles(f) \in Nat  BY <1>2, <1>3
  <2> QED BY <1>2, <2>1
<1>6. SubstituteSlots(f, d, n, t) = IF g.data_available = 0 THEN FinishWriteSector(g, d, t) ELSE g
  BY <1>1 DEF SubstituteSlots, Chip
<1> HIDE DEF b, k, drq
<1>7. h \in Chip  BY <1>1, <1>3, <1>4, <1>5, CommitFieldsType, Zenon
<1>8. /\ h.phase = "WriteSector" /\ PlaceOf(h) = PlaceOf(f)
      /\ h.data_index = k /\ h.buffer = b /\ h.data_available = m
  BY <1>1 DEF Chip, PlaceOf
<1> HIDE DEF h
<1>9. /\ g \in Chip /\ g.phase = "WriteSector" /\ PlaceOf(g) = PlaceOf(f)
      /\ g.data_index = k /\ g.buffer = b /\ g.data_available = m /\ Lost(g)
  BY <1>7, <1>8 DEF Chip, StickyBits, PlaceOf, Lost
<1> HIDE DEF g
<1>10. CASE n = f.data_available
  <2>1. m = 0  BY <1>2, <1>10
  <2> QED BY <1>6, <1>9, <1>10, <2>1, FinishWriteOutcome
<1>11. CASE n # f.data_available
  <2>1. m # 0  BY <1>2, <1>3, <1>11
  <2> QED BY <1>6, <1>9, <1>11, <2>1 DEF b, k
<1> QED BY <1>10, <1>11

\* sync() leaves the transfer alone, ends a seek, gives up a write that got no
\* byte, fills up slots of one that got some, or fills it up to its end.
SyncOutcome(f, g, d, laid) ==
  \/ ~laid /\ SameWork(f, g)
  \/ ~laid /\ f.phase = "Type1Seek" /\ g.phase = "Idle"
  \/ ~laid /\ f.phase = "WriteSector" /\ f.data_index = 0 /\ g.phase = "Idle"
  \/ /\ ~laid /\ f.phase = "WriteSector" /\ f.data_index > 0
     /\ g.phase = "WriteSector" /\ PlaceOf(g) = PlaceOf(f) /\ Lost(g)
     /\ \E n \in 1 .. f.data_available - 1 :
          g.data_index = f.data_index + n /\ g.buffer = ZeroFilled(f, n)
  \/ /\ laid /\ f.phase = "WriteSector" /\ f.data_index > 0
     /\ g.phase = "Idle" \/ Begun(g, d)

\* What a catch-up does to the sector that is transferred.
LEMMA CatchUpOutcome ==
  ASSUME NEW f, NEW fast, Sound(f, fast), NEW d \in Drive, NEW t \in Nat
  PROVE  SyncOutcome(f, CatchUp(f, d, t), d, SyncLays(f, t))
<1>1. f \in Chip /\ f.fast_disk = fast /\ Balanced(f)  BY DEF Sound
<1>2. f.data_available \in Nat /\ f.data_index \in Nat  BY <1>1 DEF Chip
<1> DEFINE g == CatchUp(f, d, t)
<1>3. CASE SeekDone(f, t)
  <2>1. ~SyncLays(f, t) /\ f.phase = "Type1Seek"  BY <1>3 DEF SeekDone, SyncLays, Abandoned
  <2>2. g.phase = "Idle"  BY <1>1, <1>3, EndCommandOutcome DEF CatchUp
  <2> QED BY <2>1, <2>2 DEF SyncOutcome
<1>4. CASE ~SeekDone(f, t) /\ FirstByteMissing(f, t)
  <2>1. ~SyncLays(f, t) /\ f.phase = "WriteSector" /\ f.data_index = 0
    BY <1>4 DEF FirstByteMissing, SyncLays, Abandoned
  <2> DEFINE y == [f EXCEPT !.status = @ \cup {"LostData"}]
  <2>2. y \in Chip  BY <1>1 DEF Chip, StickyBits
  <2>3. g = EndCommand(y, t)  BY <1>4 DEF CatchUp, Fail
  <2> HIDE DEF y
  <2>4. g.phase = "Idle"  BY <2>2, <2>3, EndCommandOutcome
  <2> QED BY <2>1, <2>4 DEF SyncOutcome
<1>5. CASE ~SeekDone(f, t) /\ ~FirstByteMissing(f, t) /\ Abandoned(f, t)
  <2> DEFINE n == AbandonedSlots(f, t)
  <2>1. f.phase = "WriteSector" /\ f.data_index > 0 /\ n > 0  BY <1>5 DEF Abandoned
  <2>2. n \in 0 .. f.data_available  BY <1>1, AbandonedSlotsBound
  <2>3. SyncLays(f, t) <=> n = f.data_available  BY <1>5 DEF SyncLays
  <2>4. g = SubstituteSlots(f, d, n, t)  BY <1>5 DEF CatchUp
  <2> HIDE DEF n, g
  <2>5. n \in 1 .. f.data_available  BY <1>2, <2>1, <2>2
  <2>6. /\ n = f.data_available => g.phase = "Idle" \/ Begun(g, d)
        /\ n # f.data_available =>
             /\ g.phase = "WriteSector" /\ PlaceOf(g) = PlaceOf(f) /\ Lost(g)
             /\ g.data_index = f.data_index + n /\ g.buffer = ZeroFilled(f, n)
    BY <2>1, <2>4, <2>5, SubstituteOutcome
  <2>7. n # f.data_available => n \in 1 .. f.data_available - 1  BY <1>2, <2>5
  <2>8. SyncOutcome(f, g, d, SyncLays(f, t))  BY <2>1, <2>3, <2>6, <2>7 DEF SyncOutcome
  <2> QED BY <2>8 DEF g
<1>6. CASE ~SeekDone(f, t) /\ ~FirstByteMissing(f, t) /\ ~Abandoned(f, t)
  <2>1. g = f /\ ~SyncLays(f, t)  BY <1>6 DEF CatchUp, SyncLays
  <2> QED BY <2>1 DEF SyncOutcome, SameWork
<1> QED BY <1>3, <1>4, <1>5, <1>6

\* What the outcome looks at.
Seen(f) ==
  <<f.phase, f.buffer, f.data_index, f.data_available, PlaceOf(f), f.status,
    f.wt_data, f.wt_sector_num, f.sector_reg>>

\* What a sync does to it.
LEMMA SyncStepOutcome ==
  ASSUME NEW f, NEW fast, Sound(f, fast), NEW d \in Drive, NEW now_ \in Nat
  PROVE  SyncOutcome(f, Sync(f, d, now_), d, SyncLays(f, SyncTime(f, now_)))
<1> DEFINE t == SyncTime(f, now_)
           u == [f EXCEPT !.last_sync = t]
           c == CatchUp(u, d, t)
           g == FireIndexIrq(c, t)
<1>1. f \in Chip /\ f.fast_disk = fast  BY DEF Sound
<1>2. t \in Nat  BY <1>1, SyncTimeType
<1>3. Sync(f, d, now_) = g  BY DEF Sync
<1> HIDE DEF t
<1>4. u \in Chip  BY <1>1, <1>2 DEF Chip
<1>5. /\ Seen(u) = Seen(f) /\ u.fast_disk = f.fast_disk
      /\ u.drq_deadline = f.drq_deadline
  BY <1>1 DEF Chip, Seen, PlaceOf
<1> HIDE DEF u
<1>6. Sound(u, fast)  BY <1>1, <1>4, <1>5 DEF Sound, Balanced, Seen
<1>7. SyncLays(u, t) <=> SyncLays(f, t)
  BY <1>5 DEF SyncLays, Abandoned, AbandonedSlots, ByteCycles, Seen
<1>8. SyncOutcome(u, c, d, SyncLays(u, t))  BY <1>2, <1>6, CatchUpOutcome
<1>9. Sound(c, fast)  BY <1>2, <1>6, CatchUpSound
<1>10. c \in Chip  BY <1>9 DEF Sound
<1> HIDE DEF c
<1>11. Seen(g) = Seen(c)
  <2>1. CASE c.index_irq_armed /\ t >= c.index_irq_deadline
    <3> DEFINE e == [c EXCEPT !.intrq_pending = TRUE, !.index_irq_armed = FALSE]
    <3>1. Seen(e) = Seen(c)  BY <1>10 DEF Chip, Seen, PlaceOf
    <3>2. g = e  BY <2>1 DEF FireIndexIrq
    <3> QED BY <3>1, <3>2
  <2>2. CASE ~(c.index_irq_armed /\ t >= c.index_irq_deadline)
    BY <2>2 DEF FireIndexIrq
  <2> QED BY <2>1, <2>2
<1> HIDE DEF g
<1>12. \A n : ZeroFilled(u, n) = ZeroFilled(f, n)  BY <1>5 DEF ZeroFilled, Seen
<1>13. SyncOutcome(f, g, d, SyncLays(f, t))
  BY <1>5, <1>7, <1>8, <1>11, <1>12 DEF SyncOutcome, SameWork, Begun, Lost, Seen
<1> QED BY <1>3, <1>13 DEF t
\* A byte the CPU reads: the last one ends the sector or loads the next.
LEMMA ReadOutcome ==
  ASSUME NEW f, NEW fast, Sound(f, fast), NEW d \in Drive, NEW i \in Image, NEW t \in Nat
  PROVE  LET g == AfterReadData(f, d, i, t)
             late == LateBytes(f, t)
         IN  /\ f.phase \notin ReadPhases => g = f
             /\ f.phase \in ReadPhases => g.phase \in ReadPhases \cup {"Idle"}
             /\ f.phase = "ReadSector" /\ ~Delivers(f, t) => g = f
             /\ f.phase = "ReadSector" /\ Delivers(f, t) =>
                  /\ late \in 0 .. f.data_available - 1
                  /\ g.data_reg = f.buffer[f.data_index + late + 1]
                  /\ late + 1 = f.data_available => g.phase = "Idle" \/ Loaded(g, d, i)
                  /\ late + 1 # f.data_available =>
                       /\ g.phase = "ReadSector" /\ g.buffer = f.buffer
                       /\ g.data_index = f.data_index + late + 1
                       /\ Lost(g) <=> Lost(f) \/ late > 0
<1>1. f \in Chip /\ f.fast_disk = fast /\ Balanced(f)  BY DEF Sound
<1>2. CASE ~Delivers(f, t)
  <2>1. AfterReadData(f, d, i, t) = f  BY <1>2 DEF AfterReadData
  <2> QED BY <1>2, <2>1
<1>3. CASE Delivers(f, t)
  <2> DEFINE late == LateBytes(f, t)
             s == IF late > 0 THEN f.status \cup {"LostData"} ELSE f.status
             v == f.buffer[f.data_index + late + 1]
             k == f.data_index + late + 1
             n == f.data_available - late - 1
             drq == f.drq_deadline + late * CyclesPerByte + ByteCycles(f)
             g == [f EXCEPT !.status = s, !.data_reg = v, !.data_index = k,
                            !.data_available = n, !.drq_deadline = drq]
             h == AfterReadData(f, d, i, t)
  <2>1. f.phase \in ReadPhases  BY <1>3 DEF Delivers
  <2>2. /\ f.data_index \in Nat /\ f.data_available \in Nat /\ f.buffer \in Seq(Byte)
        /\ f.drq_deadline \in Nat /\ f.status \in SUBSET StickyBits
    BY <1>1 DEF Chip
  <2>3. f.data_available > 0 /\ f.data_index + f.data_available = Len(f.buffer)
    BY <1>1, <2>1 DEF Balanced, ReadPhases
  <2>4. late \in 0 .. f.data_available - 1  BY <1>1, <2>3, LateBytesBound
  <2>5. h = IF g.data_available > 0 THEN g
            ELSE IF g.phase = "ReadSector" THEN FinishReadSector(g, d, i, t)
            ELSE EndCommand(g, t)
    BY <1>3 DEF AfterReadData
  <2> HIDE DEF late
  <2>6. late \in Nat  BY <2>2, <2>4
  <2>7. k \in Nat /\ n \in Nat /\ k \in 1 .. Len(f.buffer)  BY <2>2, <2>3, <2>4
  <2>8. v \in Byte  BY <2>2, <2>7, ElementOfSeq
  <2>9. drq \in Nat
    <3>1. late * CyclesPerByte \in Nat  BY <2>6, ChipAssumption
    <3>2. ByteCycles(f) \in Nat  BY <1>1, CycleTypes
    <3> QED BY <2>2, <3>1, <3>2
  <2>10. s \in SUBSET StickyBits /\ ("LostData" \in s <=> Lost(f) \/ late > 0)
    BY <2>2 DEF StickyBits, Lost
  <2>11. n = 0 <=> late + 1 = f.data_available  BY <2>2, <2>6
  <2>g. g = [f EXCEPT !.status = s, !.data_reg = v, !.data_index = k,
                      !.data_available = n, !.drq_deadline = drq]
    OBVIOUS
  <2> HIDE DEF s, n, drq, g, h
  <2>12. g \in Chip
    <3> HIDE DEF v, k
    <3> QED BY <1>1, <2>7, <2>8, <2>9, <2>10, <2>g, ReadFieldsType, Zenon
  <2>13. /\ g.status = s /\ g.phase = f.phase /\ g.buffer = f.buffer /\ g.data_index = k
         /\ g.data_available = n /\ g.data_reg = v
    <3> HIDE DEF v, k
    <3> QED BY <1>1, <2>g DEF Chip
  <2>14. CASE n # 0
    <3>1. h = g  BY <2>5, <2>7, <2>13, <2>14
    <3>2. /\ h.phase = f.phase /\ h.buffer = f.buffer /\ h.data_index = k /\ h.data_reg = v
          /\ Lost(h) <=> Lost(f) \/ late > 0
      BY <2>10, <2>13, <3>1 DEF Lost
    <3> QED BY <1>3, <2>1, <2>4, <2>11, <2>14, <3>2 DEF h, late
  <2>15. CASE n = 0
    <3>1. h = IF g.phase = "ReadSector" THEN FinishReadSector(g, d, i, t) ELSE EndCommand(g, t)
      BY <2>5, <2>13, <2>15
    <3>2. /\ h.phase = "Idle" \/ Loaded(h, d, i)
          /\ h.data_reg = v
      BY <2>12, <2>13, <3>1, FinishReadOutcome, EndCommandOutcome
    <3>3. h.phase \in ReadPhases \cup {"Idle"}  BY <3>2 DEF Loaded, ReadPhases
    <3> QED BY <1>3, <2>1, <2>4, <2>11, <2>15, <3>2, <3>3 DEF h, late
  <2> QED BY <2>14, <2>15
<1> QED BY <1>2, <1>3

\* The other reads never turn into the read of a sector.
LEMMA OtherReadOutcome ==
  ASSUME NEW f, NEW fast, Sound(f, fast), f.phase \in {"ReadAddress", "ReadTrack"},
         NEW d \in Drive, NEW i \in Image, NEW t \in Nat
  PROVE  AfterReadData(f, d, i, t).phase # "ReadSector"
<1> DEFINE late == LateBytes(f, t)
           s == IF late > 0 THEN f.status \cup {"LostData"} ELSE f.status
           v == f.buffer[f.data_index + late + 1]
           k == f.data_index + late + 1
           n == f.data_available - late - 1
           drq == f.drq_deadline + late * CyclesPerByte + ByteCycles(f)
           g == [f EXCEPT !.status = s, !.data_reg = v, !.data_index = k,
                          !.data_available = n, !.drq_deadline = drq]
<1>1. f \in Chip  BY DEF Sound
<1>2. AfterReadData(f, d, i, t) =
        IF ~Delivers(f, t) THEN f ELSE IF g.data_available > 0 THEN g
        ELSE IF g.phase = "ReadSector" THEN FinishReadSector(g, d, i, t)
        ELSE EndCommand(g, t)
  BY DEF AfterReadData
<1> HIDE DEF late, s, v, k, n, drq
<1>3. g.phase = f.phase  BY <1>1 DEF Chip
<1>4. EndCommand(g, t).phase = "Idle"  BY <1>1 DEF EndCommand, Chip
<1> HIDE DEF g
<1> QED BY <1>2, <1>3, <1>4

\* No transfer outlives a reset.
LEMMA ResetChipIdle ==
  ASSUME NEW f \in Chip
  PROVE  ResetChip(f, 0).phase = "Idle"
<1> DEFINE g == ResetChip(f, 0)
<1>1. Sound(g, f.fast_disk)  BY ResetChipSound
<1>2. g.status = {}  BY DEF ResetChip, Chip
<1> HIDE DEF g
<1>3. g.phase = "Idle"  BY <1>1, <1>2 DEF Sound
<1> QED BY <1>3 DEF g

\* A command starts a transfer at its first byte, under the head.
LEMMA CommandOutcome ==
  ASSUME NEW f \in Chip, NEW d \in Drive, NEW i \in Image, NEW cmd \in Command, NEW t \in Nat
  PROVE  LET g == AfterWriteCommand(f, d, i, cmd, t)
         IN  /\ g.phase = "WriteSector" => Begun(g, d)
             /\ g.phase = "ReadSector" => Loaded(g, d, i)
<1> DEFINE c == [f EXCEPT !.command_reg = cmd]
           h == [c EXCEPT !.intrq_pending = FALSE, !.immediate_irq = FALSE,
                          !.index_irq_armed = FALSE]
           g == AfterWriteCommand(f, d, i, cmd, t)
           Starts(x) == /\ x.phase = "WriteSector" => Begun(x, d)
                        /\ x.phase = "ReadSector" => Loaded(x, d, i)
<1>1. c \in Chip  BY DEF Chip
<1>2. g = CASE cmd.op \in Type1Ops -> StartType1(h, d, cmd, t)
            [] cmd.op \in Type2Ops -> StartType2(h, d, i, cmd, t)
            [] cmd.op \in Type3Ops -> StartType3(h, d, i, cmd, t)
            [] OTHER               -> StartType4(c, d, cmd, t)
  BY DEF AfterWriteCommand
<1> HIDE DEF c
<1>3. h \in Chip  BY <1>1 DEF Chip
<1> HIDE DEF h, g
<1>4. CASE cmd.op \in Type1Ops
  <2>1. g = StartType1(h, d, cmd, t)  BY <1>2, <1>4 DEF Type1Ops, Type2Ops, Type3Ops
  <2>2. g.phase = "Type1Seek"
    <3> DEFINE until == h.busy_until
    <3> QED BY <1>3, <2>1 DEF StartType1, Chip
  <2> QED BY <2>2 DEF g
<1>5. CASE cmd.op \in Type2Ops
  <2> DEFINE e == [h EXCEPT !.status =
                     (@ \ {"LostData", "NotFound", "WriteProtected"}) \cup {"Busy"}]
             l == LoadHead(e, t)
  <2>1. e \in Chip  BY <1>3 DEF Chip, StickyBits
  <2>2. g = StartType2(h, d, i, cmd, t)  BY <1>2, <1>5 DEF Type1Ops, Type2Ops, Type3Ops
  <2>3. g = IF ~Ready(d) THEN EndCommand(e, t)
            ELSE IF ~(d.physical_track = h.track_reg /\ OnTrack(h)) THEN Fail(l, "NotFound", t)
            ELSE IF cmd.op = "ReadSector" THEN BeginReadSector(l, d, i, t)
            ELSE IF WriteProtected(d, i) THEN Fail(l, "WriteProtected", t)
            ELSE BeginWriteSector(l, d, t)
    BY <2>2 DEF StartType2
  <2>4. e.sector_reg = h.sector_reg  BY <1>3 DEF Chip
  <2> HIDE DEF e
  <2>5. l \in Chip  BY <2>1, LoadHeadType
  <2>6. l.sector_reg = h.sector_reg  BY <2>1, <2>4 DEF LoadHead, Chip
  <2>7. OnTrack(h) => OnTrack(l)  BY <2>6 DEF OnTrack
  <2> HIDE DEF l
  <2>8. ASSUME NEW x \in Chip, NEW bit \in StickyBits
        PROVE  Fail(x, bit, t).phase = "Idle"
    <3> DEFINE y == [x EXCEPT !.status = @ \cup {bit}]
    <3>1. y \in Chip  BY DEF Chip
    <3> HIDE DEF y
    <3>2. EndCommand(y, t).phase = "Idle"  BY <3>1, EndCommandOutcome
    <3> QED BY <3>2 DEF Fail, y
  <2>9. "NotFound" \in StickyBits /\ "WriteProtected" \in StickyBits  BY DEF StickyBits
  <2>10. \/ g.phase = "Idle"
         \/ Loaded(g, d, i)
         \/ Begun(g, d)
    <3>1. EndCommand(e, t).phase = "Idle"  BY <2>1, EndCommandOutcome
    <3>2. Fail(l, "NotFound", t).phase = "Idle" /\ Fail(l, "WriteProtected", t).phase = "Idle"
      BY <2>5, <2>8, <2>9
    <3>3. LET b == BeginReadSector(l, d, i, t) IN b.phase = "Idle" \/ Loaded(b, d, i)
      BY <2>5, BeginReadOutcome
    <3>4. OnTrack(h) => Begun(BeginWriteSector(l, d, t), d)  BY <2>5, <2>7, BeginWriteOutcome
    <3> QED BY <2>3, <3>1, <3>2, <3>3, <3>4
  <2> QED BY <2>10 DEF g, Loaded, Begun
<1>6. CASE cmd.op \in Type3Ops
  <2>1. g = StartType3(h, d, i, cmd, t)  BY <1>2, <1>6 DEF Type1Ops, Type2Ops, Type3Ops
  <2>2. StartType3(h, d, i, cmd, t).phase \notin {"WriteSector", "ReadSector"}
    <3> DEFINE e == [h EXCEPT !.status = (@ \ {"LostData", "NotFound"}) \cup {"Busy"}]
               l == LoadHead(e, t)
               drq == t + ReadStartCycles(h)
               m == [l EXCEPT !.data_index = 0, !.drq_deadline = drq]
               y == [l EXCEPT !.status = @ \cup {"WriteProtected"}]
    <3>1. e \in Chip  BY <1>3 DEF Chip, StickyBits
    <3> HIDE DEF e
    <3>2. l \in Chip  BY <3>1, LoadHeadType
    <3> HIDE DEF l
    <3>3. y \in Chip  BY <3>2 DEF Chip, StickyBits
    <3>4. drq \in Nat  BY <1>3, CycleTypes
    <3> HIDE DEF drq
    <3>5. m \in Chip  BY <3>2, <3>4 DEF Chip
    <3>6. StartType3(h, d, i, cmd, t) =
            IF ~Ready(d) THEN EndCommand(e, t)
            ELSE IF cmd.op = "ReadAddress"
            THEN [m EXCEPT !.buffer = IdField(d), !.sector_reg = d.physical_track,
                           !.data_available = 6, !.phase = "ReadAddress"]
            ELSE IF cmd.op = "ReadTrack"
            THEN [m EXCEPT !.buffer = RawTrack(d, i), !.data_available = TrackLength,
                           !.phase = "ReadTrack"]
            ELSE IF WriteProtected(d, i) THEN EndCommand(y, t)
            ELSE [m EXCEPT !.write_track_num = d.physical_track, !.write_side = d.side,
                           !.wt_a1 = FALSE, !.wt_expect_id = FALSE, !.wt_in_data = FALSE,
                           !.wt_data = ZeroSector,
                           !.data_available = TrackLength, !.phase = "WriteTrack"]
      BY DEF StartType3, Fail, e, l, drq
    <3> HIDE DEF m, y
    <3>7. EndCommand(e, t).phase = "Idle" /\ EndCommand(y, t).phase = "Idle"
      BY <3>1, <3>3, EndCommandOutcome
    <3>8. [m EXCEPT !.buffer = IdField(d), !.sector_reg = d.physical_track,
                    !.data_available = 6, !.phase = "ReadAddress"].phase = "ReadAddress"
      BY <3>5 DEF Chip
    <3>9. [m EXCEPT !.buffer = RawTrack(d, i), !.data_available = TrackLength,
                    !.phase = "ReadTrack"].phase = "ReadTrack"
      BY <3>5 DEF Chip
    <3>10. [m EXCEPT !.write_track_num = d.physical_track, !.write_side = d.side,
                     !.wt_a1 = FALSE, !.wt_expect_id = FALSE, !.wt_in_data = FALSE,
                     !.wt_data = ZeroSector,
                     !.data_available = TrackLength, !.phase = "WriteTrack"].phase = "WriteTrack"
      BY <3>5 DEF Chip
    <3> QED BY <3>6, <3>7, <3>8, <3>9, <3>10
  <2> QED BY <2>1, <2>2 DEF g
<1>7. CASE cmd.op \notin Type1Ops \cup Type2Ops \cup Type3Ops
  <2>1. g = StartType4(c, d, cmd, t)  BY <1>2, <1>7
  <2>2. g.phase = "Idle"  BY <1>1, <2>1 DEF StartType4, Chip
  <2> QED BY <2>2 DEF g
<1> QED BY <1>4, <1>5, <1>6, <1>7

\* The parser of a track leaves alone where the track is.
LEMMA FormatOutcome ==
  ASSUME NEW f, NEW fast, Sound(f, fast), f.phase = "WriteTrack",
         NEW d \in Drive, NEW v \in Byte, NEW t \in Nat
  PROVE  LET g == AfterWriteData(f, d, v, t)
         IN  \/ g.phase = "Idle"
             \/ /\ g.phase = "WriteTrack" /\ g.write_track_num = f.write_track_num
                /\ g.write_side = f.write_side
<1> DEFINE e == [f EXCEPT !.data_reg = v]
           h == ParseTrackByte(e, v)
           n == h.data_available - 1
           drq == t + ByteCycles(f)
           p == [h EXCEPT !.data_available = n, !.drq_deadline = drq]
           g == AfterWriteData(f, d, v, t)
<1>1. f \in Chip /\ f.fast_disk = fast /\ Balanced(f)  BY DEF Sound
<1>2. /\ e \in Chip /\ e.phase = f.phase /\ e.data_available = f.data_available
      /\ e.write_track_num = f.write_track_num /\ e.write_side = f.write_side
  BY <1>1 DEF Chip
<1>3. g = IF p.data_available = 0 THEN EndCommand(p, t) ELSE p
  BY DEF AfterWriteData
<1> HIDE DEF e
<1>4. /\ h \in Chip /\ h.phase = "WriteTrack" /\ h.data_available = f.data_available
  BY <1>2, ParseTrackByteType DEF SameTransfer
<1>5. h.write_track_num = e.write_track_num /\ h.write_side = e.write_side
  BY <1>2 DEF ParseTrackByte, Chip
<1>6. n \in Nat
  <2>1. f.data_available \in Nat /\ f.data_available > 0  BY <1>1 DEF Balanced, Chip
  <2> QED BY <1>4, <2>1
<1>7. drq \in Nat  BY <1>1, CycleTypes
<1> HIDE DEF h, n, drq
<1>8. p \in Chip  BY <1>4, <1>6, <1>7 DEF Chip
<1>9. /\ p.phase = "WriteTrack" /\ p.write_track_num = f.write_track_num
      /\ p.write_side = f.write_side
  BY <1>2, <1>4, <1>5 DEF Chip
<1> HIDE DEF p, g
<1>10. g.phase = "Idle" \/ g = p  BY <1>3, <1>8, EndCommandOutcome
<1> QED BY <1>9, <1>10 DEF g

\* A sector that is laid changes that sector of the image, or nothing.
Lays(d, i, j, track, side, sector, bytes) ==
  /\ j.write_protected = i.write_protected
  /\ \/ j.data = i.data
     \/ /\ sector \in 1 .. SectorsPerTrack
        /\ j.data = [i.data EXCEPT ![ChsToLba(track, side, sector)] = bytes]
  /\ sector \in 1 .. SectorsPerTrack /\ d.attached /\ ~i.write_protected =>
       j.data[ChsToLba(track, side, sector)] = bytes

\* A sector write changes that sector of the image alone.
LEMMA SectorLaid ==
  ASSUME NEW d \in Drive, NEW i \in Image, NEW track \in Track, NEW side \in Side,
         NEW sector \in Int, NEW bytes \in Sector
  PROVE  Lays(d, i, WriteSectorAt(d, i, track, side, sector, bytes), track, side, sector, bytes)
<1> DEFINE a == ChsToLba(track, side, sector)
           j == WriteSectorAt(d, i, track, side, sector, bytes)
           laid == [i EXCEPT !.data[a] = bytes, !.dirty = TRUE]
<1>1. ValidChs(track, side, sector) <=> sector \in 1 .. SectorsPerTrack
  BY GeometryAssumption DEF ValidChs, Track, Side
<1>2. j = IF d.attached /\ sector \in 1 .. SectorsPerTrack /\ ~i.write_protected THEN laid ELSE i
  BY <1>1 DEF WriteSectorAt, WriteChs
<1>3. sector \in 1 .. SectorsPerTrack => a \in Lba  BY ChsInRange
<1> HIDE DEF a, j
<1>4. /\ laid.write_protected = i.write_protected
      /\ laid.data = [i.data EXCEPT ![a] = bytes]
      /\ i.data \in [Lba -> Sector]
  BY DEF Image
<1>5. a \in Lba => [i.data EXCEPT ![a] = bytes][a] = bytes  BY <1>4
<1> HIDE DEF laid
<1>6. /\ j.write_protected = i.write_protected
      /\ \/ j.data = i.data
         \/ sector \in 1 .. SectorsPerTrack /\ j.data = [i.data EXCEPT ![a] = bytes]
      /\ sector \in 1 .. SectorsPerTrack /\ d.attached /\ ~i.write_protected =>
           j.data[a] = bytes
  BY <1>2, <1>3, <1>4, <1>5
<1> QED BY <1>6 DEF Lays, a, j

\* What a write of the data register does to the sector that is transferred.
LEMMA WriteDataOutcome ==
  ASSUME NEW f, NEW fast, Sound(f, fast), NEW d \in Drive, NEW v \in Byte, NEW t \in Nat
  PROVE  LET g == AfterWriteData(f, d, v, t)
         IN  /\ f.phase \notin {"WriteSector", "WriteTrack"} => SameWork(f, g)
             /\ f.phase = "WriteSector" =>
                  /\ g.data_reg = v
                  /\ f.data_available = 1 => g.phase = "Idle" \/ Begun(g, d)
                  /\ f.data_available # 1 =>
                       /\ g.phase = "WriteSector" /\ PlaceOf(g) = PlaceOf(f)
                       /\ (Lost(g) <=> Lost(f)) /\ g.data_index = f.data_index + 1
                       /\ g.buffer = [f.buffer EXCEPT ![f.data_index + 1] = v]
<1> DEFINE e == [f EXCEPT !.data_reg = v]
           g == AfterWriteData(f, d, v, t)
<1>1. f \in Chip /\ f.fast_disk = fast /\ ("Busy" \in f.status <=> f.phase # "Idle") /\ Balanced(f)
  BY DEF Sound
<1>2. /\ e \in Chip /\ e.data_reg = v /\ SameWork(f, e) /\ SameTransfer(f, e)
  BY <1>1 DEF Chip, SameWork, SameTransfer, PlaceOf, Lost
<1>3. CASE f.phase = "WriteSector"
  <2>1. g = CommitByte(e, d, v, t)  BY <1>3 DEF AfterWriteData
  <2> HIDE DEF e, g
  <2>2. Sound(e, fast)  BY <1>1, <1>2 DEF Sound, Balanced, SameTransfer
  <2>3. e.phase = "WriteSector"  BY <1>2, <1>3 DEF SameTransfer
  <2>4. /\ g.data_reg = e.data_reg
        /\ e.data_available = 1 => g.phase = "Idle" \/ Begun(g, d)
        /\ e.data_available # 1 =>
             /\ g.phase = "WriteSector" /\ PlaceOf(g) = PlaceOf(e)
             /\ g.status = e.status /\ g.data_index = e.data_index + 1
             /\ g.buffer = [e.buffer EXCEPT ![e.data_index + 1] = v]
    BY <2>1, <2>2, <2>3, CommitOutcome
  <2>5. /\ g.data_reg = v
        /\ f.data_available = 1 => g.phase = "Idle" \/ Begun(g, d)
        /\ f.data_available # 1 =>
             /\ g.phase = "WriteSector" /\ PlaceOf(g) = PlaceOf(f)
             /\ (Lost(g) <=> Lost(f)) /\ g.data_index = f.data_index + 1
             /\ g.buffer = [f.buffer EXCEPT ![f.data_index + 1] = v]
    BY <1>2, <2>4 DEF SameWork, Lost
  <2> QED BY <1>3, <2>5 DEF g
<1>4. CASE f.phase \notin {"WriteSector", "WriteTrack"}
  <2>1. g = e  BY <1>4 DEF AfterWriteData
  <2> QED BY <1>2, <1>4, <2>1
<1>5. CASE f.phase = "WriteTrack"
  BY <1>5
<1> QED BY <1>3, <1>4, <1>5

(***************************************************************************)
(* Prefixes of a buffer.                                                   *)
(***************************************************************************)
LEMMA PrefixOfNothing == ASSUME NEW b  PROVE SubSeq(b, 1, 0) = << >>
  OBVIOUS

\* A byte stored behind a prefix makes it longer by that byte.
LEMMA PrefixTakesByte ==
  ASSUME NEW b \in Seq(Byte), NEW k \in Nat, k < Len(b), NEW v \in Byte
  PROVE  SubSeq([b EXCEPT ![k + 1] = v], 1, k + 1) = Append(SubSeq(b, 1, k), v)
<1> DEFINE c == [b EXCEPT ![k + 1] = v]
<1>1. c \in Seq(Byte) /\ Len(c) = Len(b)
  <2>1. k + 1 \in 1 .. Len(b)  OBVIOUS
  <2> QED BY <2>1, ExceptSeq
<1>2. \A j \in 1 .. k : c[j] = b[j]  OBVIOUS
<1>3. c[k + 1] = v  OBVIOUS
<1> HIDE DEF c
<1>4. SubSeq(c, 1, k + 1) = Append(SubSeq(b, 1, k), v)
  BY <1>1, <1>2, <1>3
<1> QED BY <1>4 DEF c

\* The longest prefix is all.
LEMMA PrefixOfAll ==
  ASSUME NEW b \in Seq(Byte)
  PROVE  SubSeq(b, 1, Len(b)) = b
  OBVIOUS

\* The next prefix has the next byte.
LEMMA PrefixReads ==
  ASSUME NEW b \in Seq(Byte), NEW k \in Nat, k < Len(b)
  PROVE  SubSeq(b, 1, k + 1) = Append(SubSeq(b, 1, k), b[k + 1])
  OBVIOUS

\* What a prefix grows by.
LEMMA PrefixGrows ==
  ASSUME NEW b \in Seq(Byte), NEW c \in Seq(Byte), NEW k \in Nat, NEW m \in Nat,
         k <= m, m <= Len(b), Len(c) = Len(b), \A j \in 1 .. k : c[j] = b[j]
  PROVE  /\ SubSeq(c, 1, m) = SubSeq(b, 1, k) \o SubSeq(c, k + 1, m)
         /\ SubSeq(c, k + 1, m) \in [1 .. m - k -> Byte]
         /\ Len(SubSeq(b, 1, k)) = k /\ SubSeq(b, 1, k) \in [1 .. k -> Byte]
<1> DEFINE p == SubSeq(b, 1, k)
           q == SubSeq(c, k + 1, m)
           w == SubSeq(c, 1, m)
<1>1. p \in Seq(Byte) /\ Len(p) = k /\ \A j \in 1 .. k : p[j] = b[j]
  OBVIOUS
<1>2. q \in Seq(Byte) /\ Len(q) = m - k /\ \A j \in 1 .. m - k : q[j] = c[k + j]
  <2>1. k + 1 \in 1 .. Len(c) + 1 /\ m \in k .. Len(c)  OBVIOUS
  <2> QED BY <2>1
<1>3. w \in Seq(Byte) /\ Len(w) = m /\ \A j \in 1 .. m : w[j] = c[j]
  OBVIOUS
<1> HIDE DEF p, q, w
<1>4. /\ p \o q \in Seq(Byte) /\ Len(p \o q) = m
      /\ \A j \in 1 .. m : (p \o q)[j] = IF j <= k THEN p[j] ELSE q[j - k]
  BY <1>1, <1>2
<1>5. \A j \in 1 .. m : (p \o q)[j] = w[j]
  <2> TAKE j \in 1 .. m
  <2>1. CASE j <= k  BY <1>1, <1>3, <1>4, <2>1
  <2>2. CASE ~(j <= k)
    <3>1. j - k \in 1 .. m - k /\ k + (j - k) = j  BY <2>2
    <3> QED BY <1>2, <1>3, <1>4, <2>2, <3>1
  <2> QED BY <2>1, <2>2
<1>6. p \o q = w  BY <1>3, <1>4, <1>5, SeqEqual
<1>7. q \in [1 .. m - k -> Byte] /\ p \in [1 .. k -> Byte]  BY <1>1, <1>2, LenProperties
<1> QED BY <1>1, <1>6, <1>7 DEF p, q, w

(***************************************************************************)
(* The history.                                                            *)
(***************************************************************************)
\* While a sector is written or read, the buffer up to data_index is what the
\* program sent or got, unless bytes were lost, and the latched place is where
\* the transfer began.
WriteRecorded ==
  fdc.phase = "WriteSector" =>
    /\ fdc.write_sector_num \in 1 .. SectorsPerTrack
    /\ place = PlaceOf(fdc)
    /\ Lost(fdc) \/ sent = SubSeq(fdc.buffer, 1, fdc.data_index)

ReadRecorded ==
  fdc.phase = "ReadSector" =>
    /\ source = fdc.buffer
    /\ Lost(fdc) \/ got = SubSeq(fdc.buffer, 1, fdc.data_index)

HInv ==
  /\ IInv
  /\ WriteRecorded /\ ReadRecorded
  /\ WrittenAsSent /\ ReadAsStored /\ ChangeNeverMissed

\* The chip an access finds has its records in order too.
LEMMA SyncedRecords ==
  ASSUME HInv
  PROVE  /\ Chip0.phase = "WriteSector" =>
              /\ Chip0.write_sector_num \in 1 .. SectorsPerTrack
              /\ PlaceAfterSync = PlaceOf(Chip0)
              /\ Lost(Chip0) \/ SentAfterSync = SubSeq(Chip0.buffer, 1, Chip0.data_index)
         /\ Chip0.phase = "ReadSector" =>
              /\ Image0 = disk /\ source = Chip0.buffer
              /\ Lost(Chip0) \/ got = SubSeq(Chip0.buffer, 1, Chip0.data_index)
<1> DEFINE laid == SyncLays(fdc, SyncTime(fdc, now))
<1>1. Sound(fdc, drive.fast_disk) /\ drive \in Drive /\ now \in Nat
  BY IInvParts, InterfaceAssumption DEF HInv
<1>2. SyncOutcome(fdc, Chip0, drive, laid)  BY <1>1, SyncStepOutcome DEF Chip0
<1>3. ~laid => Image0 = disk  BY DEF Image0, ImageAfterSync
<1>4. SyncStartsWrite <=> laid /\ Chip0.phase = "WriteSector"  BY DEF SyncStartsWrite
<1>5. WriteRecorded /\ ReadRecorded  BY DEF HInv
<1> HIDE DEF laid
<1>6. ASSUME Chip0.phase = "WriteSector"
      PROVE  /\ Chip0.write_sector_num \in 1 .. SectorsPerTrack
             /\ PlaceAfterSync = PlaceOf(Chip0)
             /\ Lost(Chip0) \/ SentAfterSync = SubSeq(Chip0.buffer, 1, Chip0.data_index)
  <2>1. CASE laid
    <3>1. Begun(Chip0, drive)  BY <1>2, <1>6, <2>1 DEF SyncOutcome
    <3>2. PlaceAfterSync = Here(Chip0)  BY <1>4, <1>6, <2>1 DEF PlaceAfterSync
    <3>3. Here(Chip0) = PlaceOf(Chip0) /\ Chip0.write_sector_num \in 1 .. SectorsPerTrack
      BY <3>1 DEF Begun, Here, PlaceOf
    <3>4. SentAfterSync = SubSeq(Chip0.buffer, 1, Chip0.data_index)
      BY <1>6, <3>1, PrefixOfNothing DEF SentAfterSync, Begun
    <3> QED BY <3>2, <3>3, <3>4
  <2>2. CASE ~laid
    <3>1. PlaceAfterSync = place  BY <1>4, <1>6, <2>2 DEF PlaceAfterSync
    <3>2. fdc.phase = "WriteSector" /\ PlaceOf(Chip0) = PlaceOf(fdc)
      BY <1>2, <1>6, <2>2 DEF SyncOutcome, SameWork
    <3>3. Lost(Chip0) \/ SameWork(fdc, Chip0)
      BY <1>2, <1>6, <2>2 DEF SyncOutcome
    <3>4. SameWork(fdc, Chip0) =>
            Lost(Chip0) \/ SentAfterSync = SubSeq(Chip0.buffer, 1, Chip0.data_index)
      BY <1>5, <1>6, <3>2, PrefixOfNothing DEF WriteRecorded, SentAfterSync, SameWork
    <3>5. Chip0.write_sector_num = fdc.write_sector_num  BY <3>2 DEF PlaceOf
    <3> QED BY <1>5, <3>1, <3>2, <3>3, <3>4, <3>5 DEF WriteRecorded
  <2> QED BY <2>1, <2>2
<1>7. ASSUME Chip0.phase = "ReadSector"
      PROVE  /\ Image0 = disk /\ source = Chip0.buffer
             /\ Lost(Chip0) \/ got = SubSeq(Chip0.buffer, 1, Chip0.data_index)
  <2>1. ~laid /\ SameWork(fdc, Chip0)  BY <1>2, <1>7 DEF SyncOutcome, Begun
  <2> QED BY <1>3, <1>5, <1>7, <2>1 DEF ReadRecorded, SameWork
<1> QED BY <1>6, <1>7

\* The history changes nothing of the interface.
LEMMA HStepKeepsInterface ==
  ASSUME HInv, HNext
  PROVE  IInv'
<1>1. Next  BY DEF HNext, HPoll, HWriteData, HWriteCommand, HReadData, HGlue, Next
<1> QED BY <1>1, NextIInv DEF HInv

\* The records follow a chip whose transfer is as the sync left it.
LEMMA QuietStep ==
  ASSUME HInv, SameWork(Chip0, fdc'), sent' = SentAfterSync, place' = PlaceAfterSync,
         got' = got, source' = source
  PROVE  WriteRecorded' /\ ReadRecorded'
<1>1. WriteRecorded'
  <2> SUFFICES ASSUME fdc'.phase = "WriteSector"
               PROVE  /\ fdc'.write_sector_num \in 1 .. SectorsPerTrack
                      /\ place' = PlaceOf(fdc)'
                      /\ Lost(fdc)' \/ sent' = SubSeq(fdc'.buffer, 1, fdc'.data_index)
    BY DEF WriteRecorded
  <2>1. Chip0.phase = "WriteSector"  BY DEF SameWork
  <2>2. PlaceOf(fdc)' = PlaceOf(Chip0) /\ fdc'.write_sector_num = Chip0.write_sector_num
        /\ (Lost(fdc)' <=> Lost(Chip0))
        /\ fdc'.buffer = Chip0.buffer /\ fdc'.data_index = Chip0.data_index
    BY DEF SameWork, PlaceOf, Lost
  <2> QED BY <2>1, <2>2, SyncedRecords
<1>2. ReadRecorded'
  <2> SUFFICES ASSUME fdc'.phase = "ReadSector"
               PROVE  /\ source' = fdc'.buffer
                      /\ Lost(fdc)' \/ got' = SubSeq(fdc'.buffer, 1, fdc'.data_index)
    BY DEF ReadRecorded
  <2>1. Chip0.phase = "ReadSector"  BY DEF SameWork
  <2>2. /\ (Lost(fdc)' <=> Lost(Chip0))
        /\ fdc'.buffer = Chip0.buffer /\ fdc'.data_index = Chip0.data_index
    BY DEF SameWork, Lost
  <2> QED BY <2>1, <2>2, SyncedRecords
<1> QED BY <1>1, <1>2

\* There is nothing to compare at first.
LEMMA NoSectorMatches == NoSector.bytes = NoSector.contents
  BY DEF NoSector

\* A poll or a status read keeps the record of what was sent and got.
LEMMA HPollKeeps ==
  ASSUME HInv, HPoll
  PROVE  HInv'
<1>1. IInv'  BY HStepKeepsInterface DEF HNext
<1>2. Chip0 \in Chip  BY SyncedSound DEF HInv
<1>3. SameWork(Chip0, fdc')
  <2>1. SameWork(Chip0, Chip0)  BY DEF SameWork
  <2>2. SameWork(Chip0, AfterReadStatus(Chip0))
    BY <1>2 DEF AfterReadStatus, SameWork, PlaceOf, Lost, Chip
  <2>3. \A v : SameWork(Chip0, [Chip0 EXCEPT !.track_reg = v])
    BY <1>2 DEF SameWork, PlaceOf, Lost, Chip
  <2>4. \A v : SameWork(Chip0, [Chip0 EXCEPT !.sector_reg = v])
    BY <1>2 DEF SameWork, PlaceOf, Lost, Chip
  <2> QED BY <2>1, <2>2, <2>3, <2>4 DEF HPoll, Poll, ReadStatus, WriteTrackReg, WriteSectorReg
<1>4. WriteRecorded' /\ ReadRecorded'  BY <1>3, QuietStep DEF HPoll
<1>5. drive' = drive  BY DEF HPoll, Poll, ReadStatus, WriteTrackReg, WriteSectorReg
<1>6. ChangeNeverMissed'  BY <1>5 DEF HInv, ChangeNeverMissed, HPoll
<1>7. WrittenAsSent' /\ ReadAsStored'
  BY NoSectorMatches DEF HPoll, WrittenAsSent, ReadAsStored
<1> QED BY <1>1, <1>4, <1>6, <1>7 DEF HInv

\* So does a write of the data register.
LEMMA HWriteDataKeeps ==
  ASSUME HInv, HWriteData
  PROVE  HInv'
<1>1. IInv'  BY HStepKeepsInterface DEF HNext
<1>2. /\ Sound(Chip0, drive.fast_disk) /\ drive \in Drive /\ now \in Nat /\ Image0 \in Image
      /\ Chip0 \in Chip /\ Balanced(Chip0)
  BY SyncedSound DEF HInv, Sound
<1>3. PICK v \in DataValues :
        /\ fdc' = AfterWriteData(Chip0, drive, v, now)
        /\ disk' = ImageAfterWriteData(Chip0, drive, Image0, v)
  BY DEF HWriteData, WriteData
<1>4. v \in Byte  BY InterfaceAssumption
<1>5. /\ Chip0.phase \notin {"WriteSector", "WriteTrack"} => SameWork(Chip0, fdc')
      /\ Chip0.phase = "WriteSector" =>
           /\ fdc'.data_reg = v
           /\ Chip0.data_available = 1 => fdc'.phase = "Idle" \/ Begun(fdc', drive)
           /\ Chip0.data_available # 1 =>
                /\ fdc'.phase = "WriteSector" /\ PlaceOf(fdc)' = PlaceOf(Chip0)
                /\ (Lost(fdc)' <=> Lost(Chip0)) /\ fdc'.data_index = Chip0.data_index + 1
                /\ fdc'.buffer = [Chip0.buffer EXCEPT ![Chip0.data_index + 1] = v]
  BY <1>2, <1>3, <1>4, WriteDataOutcome DEF PlaceOf, Lost
<1>6. /\ read' = NoSector /\ got' = got /\ source' = source /\ owed' = owed
      /\ drive' = drive
  BY DEF HWriteData, WriteData
<1>7. ChangeNeverMissed' /\ ReadAsStored'
  BY <1>6, NoSectorMatches DEF HInv, ChangeNeverMissed, ReadAsStored
<1> DEFINE writing == Chip0.phase = "WriteSector"
           full == writing /\ Chip0.data_available = 1
           bytes == Append(SentAfterSync, fdc'.data_reg)
<1>8. /\ sent' = IF writing /\ ~full THEN bytes ELSE << >>
      /\ place' = IF full /\ fdc'.phase = "WriteSector" THEN Here(fdc')
                  ELSE IF full THEN Nowhere ELSE PlaceAfterSync
      /\ wrote' = IF full /\ drive.attached /\ ~disk.write_protected
                  THEN [bytes |-> bytes, contents |-> Stored(disk', PlaceAfterSync),
                        lost |-> "LostData" \in Chip0.status]
                  ELSE NoSector
  BY DEF HWriteData
<1>9. writing => /\ Chip0.data_index \in Nat /\ Chip0.data_index + Chip0.data_available = SectorSize
                 /\ Len(Chip0.buffer) = SectorSize /\ Chip0.buffer \in Seq(Byte)
                 /\ Chip0.data_available \in Nat /\ Chip0.data_index < SectorSize
  <2> SUFFICES ASSUME writing
               PROVE  /\ Chip0.data_index \in Nat
                      /\ Chip0.data_index + Chip0.data_available = SectorSize
                      /\ Len(Chip0.buffer) = SectorSize /\ Chip0.buffer \in Seq(Byte)
                      /\ Chip0.data_available \in Nat /\ Chip0.data_index < SectorSize
    OBVIOUS
  <2>1. Chip0.data_available \in Nat /\ Chip0.data_index \in Nat  BY <1>2 DEF Chip
  <2> QED BY <1>2, <2>1, WritePosition
<1>10. WriteRecorded'
  <2> SUFFICES ASSUME fdc'.phase = "WriteSector"
               PROVE  /\ fdc'.write_sector_num \in 1 .. SectorsPerTrack
                      /\ place' = PlaceOf(fdc)'
                      /\ Lost(fdc)' \/ sent' = SubSeq(fdc'.buffer, 1, fdc'.data_index)
    BY DEF WriteRecorded
  <2>1. CASE full
    <3>1. Begun(fdc', drive)  BY <1>5, <2>1
    <3>2. place' = Here(fdc') /\ sent' = << >>  BY <1>8, <2>1
    <3>3. /\ Here(fdc') = PlaceOf(fdc)' /\ fdc'.write_sector_num \in 1 .. SectorsPerTrack
          /\ fdc'.data_index = 0
      BY <3>1 DEF Begun, Here, PlaceOf
    <3> QED BY <3>2, <3>3, PrefixOfNothing
  <2>2. CASE writing /\ ~full
    <3>1. /\ PlaceOf(fdc)' = PlaceOf(Chip0) /\ (Lost(fdc)' <=> Lost(Chip0))
          /\ fdc'.data_index = Chip0.data_index + 1 /\ fdc'.data_reg = v
          /\ fdc'.buffer = [Chip0.buffer EXCEPT ![Chip0.data_index + 1] = v]
      BY <1>5, <2>2
    <3>2. SubSeq(fdc'.buffer, 1, fdc'.data_index)
            = Append(SubSeq(Chip0.buffer, 1, Chip0.data_index), v)
      BY <1>4, <1>9, <2>2, <3>1, PrefixTakesByte
    <3>3. place' = PlaceAfterSync /\ sent' = Append(SentAfterSync, v)
      BY <1>8, <2>2, <3>1
    <3>4. fdc'.write_sector_num = Chip0.write_sector_num  BY <3>1 DEF PlaceOf
    <3> QED BY <2>2, <3>1, <3>2, <3>3, <3>4, SyncedRecords
  <2>3. CASE ~writing
    <3>1. Chip0.phase = "WriteTrack"  BY <1>5, <2>3 DEF SameWork
    <3>2. fdc'.phase \in {"Idle", "WriteTrack"}  BY <1>2, <1>3, <1>4, <3>1, FormatOutcome
    <3> QED BY <3>2
  <2> QED BY <2>1, <2>2, <2>3
<1>11. ReadRecorded'
  <2> SUFFICES ASSUME fdc'.phase = "ReadSector"
               PROVE  /\ source' = fdc'.buffer
                      /\ Lost(fdc)' \/ got' = SubSeq(fdc'.buffer, 1, fdc'.data_index)
    BY DEF ReadRecorded
  <2>1. ~writing  BY <1>5 DEF Begun
  <2>2. Chip0.phase # "WriteTrack"
    <3>1. Chip0.phase = "WriteTrack" => fdc'.phase \in {"Idle", "WriteTrack"}
      BY <1>2, <1>3, <1>4, FormatOutcome
    <3> QED BY <3>1
  <2>3. SameWork(Chip0, fdc')  BY <1>5, <2>1, <2>2
  <2>4. /\ Chip0.phase = "ReadSector" /\ (Lost(fdc)' <=> Lost(Chip0))
        /\ fdc'.buffer = Chip0.buffer /\ fdc'.data_index = Chip0.data_index
    BY <2>3 DEF SameWork, Lost
  <2> QED BY <1>6, <2>4, SyncedRecords
<1>12. WrittenAsSent'
  <2>1. CASE full /\ drive.attached /\ ~disk.write_protected
    <3> DEFINE b == [Chip0.buffer EXCEPT ![Chip0.data_index + 1] = v]
               a == ChsToLba(Chip0.write_track_num, Chip0.write_side, Chip0.write_sector_num)
    <3>1. /\ Chip0.write_sector_num \in 1 .. SectorsPerTrack
          /\ PlaceAfterSync = PlaceOf(Chip0)
          /\ Lost(Chip0) \/ SentAfterSync = SubSeq(Chip0.buffer, 1, Chip0.data_index)
      BY <2>1, SyncedRecords
    <3>2. Chip0.data_index + 1 = SectorSize  BY <1>9, <2>1
    <3>3. b \in Seq(Byte) /\ Len(b) = SectorSize
      <4>1. Chip0.data_index + 1 \in 1 .. Len(Chip0.buffer)  BY <1>9, <2>1
      <4> QED BY <1>4, <1>9, <2>1, <4>1, ExceptSeq
    <3>4. SubSeq(b, 1, SectorSize) = Append(SubSeq(Chip0.buffer, 1, Chip0.data_index), v)
      BY <1>4, <1>9, <2>1, <3>2, PrefixTakesByte
    <3>5. disk' = WriteSectorAt(drive, Image0, Chip0.write_track_num, Chip0.write_side,
                                Chip0.write_sector_num, b)
      BY <1>3, <2>1 DEF ImageAfterWriteData
    <3>6. /\ Chip0.write_track_num \in Track /\ Chip0.write_side \in Side
          /\ Chip0.write_sector_num \in Int
      BY <1>2, <3>1 DEF Chip
    <3> HIDE DEF b
    <3>7. b = Append(SubSeq(Chip0.buffer, 1, Chip0.data_index), v)
      BY <3>3, <3>4, PrefixOfAll
    <3>8. b \in Sector  BY <3>3, SequenceIsSector
    <3>9. Image0.write_protected = disk.write_protected
      <4> DEFINE laid == SyncLays(fdc, SyncTime(fdc, now))
      <4>1. CASE ~laid  BY <4>1 DEF Image0, ImageAfterSync
      <4>2. CASE laid
        <5>1. Sound(fdc, drive.fast_disk) /\ disk \in Image
          BY IInvParts DEF HInv
        <5>2. fdc \in Chip /\ Balanced(fdc) /\ fdc.phase = "WriteSector"
          BY <4>2, <5>1 DEF Sound, SyncLays, Abandoned
        <5>3. fdc.data_available \in Nat /\ fdc.write_track_num \in Track /\ fdc.write_side \in Side
              /\ fdc.write_sector_num \in Int
          BY <5>2, GeometryAssumption DEF Chip, Byte
        <5>4. ZeroFilled(fdc, fdc.data_available) \in Sector
          BY <5>2, <5>3, ZeroFilledType, WritePosition, SequenceIsSector
        <5>5. Image0 = WriteSectorAt(drive, disk, fdc.write_track_num, fdc.write_side,
                                     fdc.write_sector_num, ZeroFilled(fdc, fdc.data_available))
          BY <4>2 DEF Image0, ImageAfterSync
        <5> DEFINE z == ZeroFilled(fdc, fdc.data_available)
        <5> HIDE DEF laid, z
        <5>6. Lays(drive, disk, Image0, fdc.write_track_num, fdc.write_side,
                   fdc.write_sector_num, z)
          BY <1>2, <5>1, <5>3, <5>4, <5>5, SectorLaid DEF z
        <5> QED BY <5>6 DEF Lays
      <4> QED BY <4>1, <4>2
    <3>10. disk'.data[a] = b
      <4>1. drive.attached /\ ~Image0.write_protected  BY <2>1, <3>9
      <4>2. Lays(drive, Image0, disk', Chip0.write_track_num, Chip0.write_side,
                 Chip0.write_sector_num, b)
        BY <1>2, <3>5, <3>6, <3>8, SectorLaid
      <4> QED BY <3>1, <4>1, <4>2 DEF Lays
    <3>11. Stored(disk', PlaceAfterSync) = b
      BY <3>1, <3>10 DEF Stored, ReadChs, PlaceOf
    <3>12. /\ wrote'.bytes = Append(SentAfterSync, v) /\ wrote'.contents = b
           /\ wrote'.lost <=> Lost(Chip0)
      BY <1>5, <1>8, <2>1, <3>11 DEF Lost
    <3> QED BY <3>1, <3>7, <3>12 DEF WrittenAsSent
  <2>2. CASE ~(full /\ drive.attached /\ ~disk.write_protected)
    BY <1>8, <2>2, NoSectorMatches DEF WrittenAsSent
  <2> QED BY <2>1, <2>2
<1> QED BY <1>1, <1>7, <1>10, <1>11, <1>12 DEF HInv

\* So does a command.
LEMMA HWriteCommandKeeps ==
  ASSUME HInv, HWriteCommand
  PROVE  HInv'
<1>1. IInv'  BY HStepKeepsInterface DEF HNext
<1>2. /\ Chip0 \in Chip /\ drive \in Drive /\ now \in Nat /\ Image0 \in Image
  BY SyncedSound DEF HInv
<1>3. PICK cmd \in Commands :
        /\ fdc' = AfterWriteCommand(Chip0, drive, Image0, cmd, now)
        /\ drive' = HeadAfter(Chip0, drive, cmd)
  BY DEF HWriteCommand, WriteCommand
<1>4. cmd \in Command  BY InterfaceAssumption
<1>5. /\ fdc'.phase = "WriteSector" => Begun(fdc', drive)
      /\ fdc'.phase = "ReadSector" => Loaded(fdc', drive, Image0)
  BY <1>2, <1>3, <1>4, CommandOutcome
<1>6. /\ disk' = Image0 /\ sent' = << >> /\ got' = << >> /\ owed' = owed
      /\ place' = IF fdc'.phase = "WriteSector" THEN Here(fdc') ELSE Nowhere
      /\ source' = IF fdc'.phase = "ReadSector" THEN SectorUnderHead(drive, disk', fdc'.sector_reg)
                   ELSE << >>
      /\ wrote' = NoSector /\ read' = NoSector
  BY DEF HWriteCommand, WriteCommand
<1>7. WriteRecorded'
  BY <1>5, <1>6, PrefixOfNothing DEF WriteRecorded, Begun, Here, PlaceOf
<1>8. ReadRecorded'
  BY <1>5, <1>6, PrefixOfNothing DEF ReadRecorded, Loaded
<1>9. drive'.disk_changed = drive.disk_changed
  <2>1. \A n : [drive EXCEPT !.physical_track = n].disk_changed = drive.disk_changed
    BY <1>2 DEF Drive
  <2>2. \A inward : StepHead(drive, inward).disk_changed = drive.disk_changed
    BY <2>1 DEF StepHead
  <2> QED BY <1>3, <2>1, <2>2 DEF HeadAfter
<1>10. ChangeNeverMissed'  BY <1>6, <1>9 DEF HInv, ChangeNeverMissed
<1>11. WrittenAsSent' /\ ReadAsStored'
  BY <1>6, NoSectorMatches DEF WrittenAsSent, ReadAsStored
<1> QED BY <1>1, <1>7, <1>8, <1>10, <1>11 DEF HInv

\* So does a read of the data register.
LEMMA HReadDataKeeps ==
  ASSUME HInv, HReadData
  PROVE  HInv'
<1>1. IInv'  BY HStepKeepsInterface DEF HNext
<1>2. /\ Sound(Chip0, drive.fast_disk) /\ drive \in Drive /\ now \in Nat /\ Image0 \in Image
      /\ Chip0 \in Chip /\ Balanced(Chip0)
  BY SyncedSound DEF HInv, Sound
<1>3. fdc' = AfterReadData(Chip0, drive, Image0, now) /\ disk' = Image0 /\ drive' = drive
  BY DEF HReadData, ReadData
<1> DEFINE late == LateBytes(Chip0, now)
           reading == Chip0.phase = "ReadSector" /\ Delivers(Chip0, now)
           last == reading /\ late + 1 = Chip0.data_available
           bytes == Append(got, fdc'.data_reg)
<1>4. /\ Chip0.phase \notin ReadPhases => fdc' = Chip0
      /\ Chip0.phase \in ReadPhases => fdc'.phase \in ReadPhases \cup {"Idle"}
      /\ Chip0.phase = "ReadSector" /\ ~Delivers(Chip0, now) => fdc' = Chip0
      /\ reading =>
           /\ late \in 0 .. Chip0.data_available - 1
           /\ fdc'.data_reg = Chip0.buffer[Chip0.data_index + late + 1]
           /\ late + 1 = Chip0.data_available => fdc'.phase = "Idle" \/ Loaded(fdc', drive, Image0)
           /\ late + 1 # Chip0.data_available =>
                /\ fdc'.phase = "ReadSector" /\ fdc'.buffer = Chip0.buffer
                /\ fdc'.data_index = Chip0.data_index + late + 1
                /\ Lost(fdc') <=> Lost(Chip0) \/ late > 0
  BY <1>2, <1>3, ReadOutcome
<1>5. /\ got' = IF last THEN << >> ELSE IF reading THEN bytes ELSE got
      /\ read' = IF last THEN [bytes |-> bytes, contents |-> source,
                               lost |-> "LostData" \in Chip0.status \/ late > 0]
                 ELSE NoSector
      /\ source' = IF last /\ fdc'.phase = "ReadSector"
                   THEN SectorUnderHead(drive, disk, fdc'.sector_reg) ELSE source
      /\ sent' = SentAfterSync /\ place' = PlaceAfterSync
      /\ wrote' = NoSector /\ owed' = owed
  BY DEF HReadData
<1> HIDE DEF late
<1>6. reading =>
        /\ Image0 = disk /\ source = Chip0.buffer
        /\ Lost(Chip0) \/ got = SubSeq(Chip0.buffer, 1, Chip0.data_index)
        /\ Chip0.data_index \in Nat /\ Chip0.data_available \in Nat
        /\ Chip0.data_index + Chip0.data_available = SectorSize
        /\ Len(Chip0.buffer) = SectorSize /\ Chip0.buffer \in Seq(Byte)
        /\ Chip0.data_available > 0
  <2> SUFFICES ASSUME reading
               PROVE  /\ Image0 = disk /\ source = Chip0.buffer
                      /\ Lost(Chip0) \/ got = SubSeq(Chip0.buffer, 1, Chip0.data_index)
                      /\ Chip0.data_index \in Nat /\ Chip0.data_available \in Nat
                      /\ Chip0.data_index + Chip0.data_available = SectorSize
                      /\ Len(Chip0.buffer) = SectorSize /\ Chip0.buffer \in Seq(Byte)
                      /\ Chip0.data_available > 0
    OBVIOUS
  <2>1. /\ Chip0.data_index \in Nat /\ Chip0.data_available \in Nat
        /\ Chip0.buffer \in Seq(Byte)
    BY <1>2 DEF Chip
  <2>2. /\ Chip0.data_index + Chip0.data_available = SectorSize
        /\ Len(Chip0.buffer) = SectorSize /\ Chip0.data_available > 0
    BY <1>2 DEF Balanced
  <2> QED BY <2>1, <2>2, SyncedRecords
\* In time, the byte read is the next one of the buffer.
<1>7. reading /\ ~Lost(Chip0) /\ late = 0 =>
        bytes = SubSeq(Chip0.buffer, 1, Chip0.data_index + 1)
  <2> SUFFICES ASSUME reading, ~Lost(Chip0), late = 0
               PROVE  bytes = SubSeq(Chip0.buffer, 1, Chip0.data_index + 1)
    OBVIOUS
  <2>1. fdc'.data_reg = Chip0.buffer[Chip0.data_index + 1]
    <3>1. Chip0.data_index + late + 1 = Chip0.data_index + 1  BY <1>6
    <3> QED BY <1>4, <3>1
  <2>2. Chip0.data_index < Len(Chip0.buffer)  BY <1>6
  <2> QED BY <1>6, <2>1, <2>2, PrefixReads
<1>8. WriteRecorded' /\ ReadRecorded'
  <2>1. CASE fdc' = Chip0
    <3>1. SameWork(Chip0, fdc')  BY <2>1 DEF SameWork
    <3>2. CASE ~reading
      <4>1. got' = got /\ source' = source  BY <1>5, <3>2
      <4> QED BY <1>5, <3>1, <4>1, QuietStep
    <3>3. CASE reading
      <4>1. fdc'.phase = "ReadSector"  BY <2>1, <3>3
      <4>2. late + 1 # Chip0.data_available => FALSE
        <5>1. late + 1 # Chip0.data_available => fdc'.data_index = Chip0.data_index + late + 1
          BY <1>4, <3>3
        <5>2. late \in Nat  BY <1>4, <1>6, <3>3
        <5> QED BY <1>6, <2>1, <3>3, <5>1, <5>2
      <4>3. Loaded(fdc', drive, Image0) /\ last  BY <1>4, <3>3, <4>1, <4>2
      <4> QED BY <1>5, <1>6, <3>3, <4>1, <4>3, PrefixOfNothing
               DEF WriteRecorded, ReadRecorded, Loaded
    <3> QED BY <3>2, <3>3
  <2>2. CASE fdc' # Chip0
    <3>1. Chip0.phase \in ReadPhases /\ fdc'.phase \in ReadPhases \cup {"Idle"}
      BY <1>4, <2>2
    <3>2. WriteRecorded'  BY <3>1 DEF WriteRecorded, ReadPhases
    <3>3. ReadRecorded'
      <4> SUFFICES ASSUME fdc'.phase = "ReadSector"
                   PROVE  /\ source' = fdc'.buffer
                          /\ Lost(fdc)' \/ got' = SubSeq(fdc'.buffer, 1, fdc'.data_index)
        BY DEF ReadRecorded
      <4>1. CASE last
        <5>1. Loaded(fdc', drive, Image0)  BY <1>4, <4>1
        <5> QED BY <1>5, <1>6, <4>1, <5>1, PrefixOfNothing DEF Loaded
      <4>2. CASE reading /\ ~last
        <5>1. /\ fdc'.buffer = Chip0.buffer /\ fdc'.data_index = Chip0.data_index + late + 1
              /\ Lost(fdc)' <=> Lost(Chip0) \/ late > 0
          BY <1>4, <4>2 DEF Lost
        <5>2. late \in Nat  BY <1>4, <1>6, <4>2
        <5>3. ~Lost(fdc)' => got' = SubSeq(fdc'.buffer, 1, fdc'.data_index)
          <6> SUFFICES ASSUME ~Lost(fdc)'
                       PROVE  got' = SubSeq(fdc'.buffer, 1, fdc'.data_index)
            OBVIOUS
          <6>1. ~Lost(Chip0) /\ late = 0  BY <5>1, <5>2
          <6>2. fdc'.data_index = Chip0.data_index + 1  BY <1>6, <4>2, <5>1, <6>1
          <6> QED BY <1>5, <1>7, <4>2, <5>1, <6>1, <6>2
        <5>4. source' = source  BY <1>5, <4>2
        <5> QED BY <1>6, <4>2, <5>1, <5>3, <5>4
      <4>3. CASE ~reading
        <5>1. Chip0.phase # "ReadSector"  BY <1>4, <2>2, <4>3
        <5>2. Chip0.phase \in {"ReadAddress", "ReadTrack"}  BY <3>1, <5>1 DEF ReadPhases
        <5>3. fdc'.phase # "ReadSector"
          BY <1>2, <1>3, <5>2, OtherReadOutcome
        <5> QED BY <5>3
      <4> QED BY <4>1, <4>2, <4>3
    <3> QED BY <3>2, <3>3
  <2> QED BY <2>1, <2>2
<1>9. ReadAsStored'
  <2>1. CASE last
    <3>1. /\ read'.bytes = bytes /\ read'.contents = source
          /\ read'.lost <=> Lost(Chip0) \/ late > 0
      BY <1>5, <2>1 DEF Lost
    <3>2. late \in Nat  BY <1>4, <1>6, <2>1
    <3>3. ~read'.lost => bytes = source
      <4> SUFFICES ASSUME ~read'.lost PROVE bytes = source  OBVIOUS
      <4>1. ~Lost(Chip0) /\ late = 0  BY <3>1, <3>2
      <4>2. Chip0.data_index + 1 = Len(Chip0.buffer)  BY <1>6, <2>1, <4>1
      <4> QED BY <1>6, <1>7, <2>1, <4>1, <4>2, PrefixOfAll
    <3> QED BY <3>1, <3>3 DEF ReadAsStored
  <2>2. CASE ~last
    BY <1>5, <2>2, NoSectorMatches DEF ReadAsStored
  <2> QED BY <2>1, <2>2
<1>10. WrittenAsSent' /\ ChangeNeverMissed'
  BY <1>3, <1>5, NoSectorMatches DEF HInv, WrittenAsSent, ChangeNeverMissed
<1> QED BY <1>1, <1>8, <1>9, <1>10 DEF HInv

\* So do the interface's registers, time, the user and a reset.
LEMMA HGlueKeeps ==
  ASSUME HInv, HGlue
  PROVE  HInv'
<1>1. IInv'  BY HStepKeepsInterface DEF HNext
<1>2. fdc \in Chip /\ drive \in Drive  BY IInvParts DEF HInv, Sound
<1>3. /\ wrote' = NoSector /\ read' = NoSector
      /\ UNCHANGED <<sent, place, got, source>>
  BY DEF HGlue
<1>4. WriteRecorded' /\ ReadRecorded'
  <2>1. CASE ResetMachine
    <3>1. fdc' = [ResetChip(fdc, 0) EXCEPT !.fast_disk = FastDiskConfig]
      BY <2>1 DEF ResetMachine
    <3>2. fdc'.phase = ResetChip(fdc, 0).phase
      <4>1. ResetChip(fdc, 0) \in Chip  BY <1>2, ResetChipSound DEF Sound
      <4> QED BY <3>1, <4>1 DEF Chip
    <3>3. ResetChip(fdc, 0).phase = "Idle"
      BY <1>2, ResetChipIdle
    <3> QED BY <3>2, <3>3 DEF WriteRecorded, ReadRecorded
  <2>2. CASE ~ResetMachine
    <3>1. fdc' = fdc \/ fdc' = [fdc EXCEPT !.fast_disk = ~@]
      BY <2>2 DEF HGlue, InsertDisk, ReadDriveReg, WriteSideReg, WriteDriveReg, Tick, EjectDisk,
                  ToggleFastDisk
    <3>2. SameWork(fdc, fdc')  BY <1>2, <3>1 DEF SameWork, PlaceOf, Lost, Chip
    <3> QED BY <1>3, <3>2 DEF HInv, WriteRecorded, ReadRecorded, SameWork, PlaceOf, Lost
  <2> QED BY <2>1, <2>2
<1>5. ChangeNeverMissed'
  <2>0. owed => drive.disk_changed  BY DEF HInv, ChangeNeverMissed
  <2>1. CASE InsertDisk
    <3>1. drive'.disk_changed = TRUE  BY <1>2, <2>1 DEF InsertDisk, Drive
    <3> QED BY <3>1 DEF ChangeNeverMissed
  <2>2. CASE ResetMachine /\ owed' = drive.attached
    <3> DEFINE d == WithDriveReg(ResetDrive(drive), PowerOnDriveReg, 0)
               a == drive.attached
    <3>1. drive' = [d EXCEPT !.disk_changed = a, !.fast_disk = FastDiskConfig]
      BY <2>2 DEF ResetMachine
    <3>2. d \in Drive
      <4>1. PowerOnDriveReg \in DriveReg  BY DEF PowerOnDriveReg, DriveReg
      <4> QED BY <1>2, <4>1, MechanismType, DriveRegType
    <3> HIDE DEF d
    <3>3. drive'.disk_changed = a  BY <3>1, <3>2 DEF Drive
    <3> QED BY <2>2, <3>3 DEF ChangeNeverMissed
  <2>3. CASE ReadDriveReg /\ owed' = (owed /\ ~ReportsDiskChanged)
    BY <1>2, <2>0, <2>3 DEF ReadDriveReg, ReportsDiskChanged, TakeDiskChanged, ChangeNeverMissed
  <2>4. CASE /\ WriteSideReg \/ WriteDriveReg \/ Tick \/ EjectDisk \/ ToggleFastDisk
             /\ UNCHANGED owed
    <3>1. CASE WriteDriveReg
      <4>1. PICK v \in DriveValues : drive' = WithDriveReg(drive, v, now)
        BY <3>1 DEF WriteDriveReg
      <4> DEFINE g == [drive EXCEPT !.available = v.sel \in {0, 2}]
      <4>2. g \in Drive /\ g.disk_changed = drive.disk_changed
        <5>1. (v.sel \in {0, 2}) \in BOOLEAN  OBVIOUS
        <5> QED BY <1>2, <5>1 DEF Drive
      <4>3. drive' = SetMotor(g, v.motor, now)  BY <4>1 DEF WithDriveReg
      <4> HIDE DEF g
      <4>4. drive'.disk_changed = g.disk_changed  BY <4>2, <4>3 DEF SetMotor, Drive
      <4> QED BY <2>0, <2>4, <4>2, <4>4 DEF ChangeNeverMissed
    <3>2. CASE ~WriteDriveReg
      <4>1. drive'.disk_changed = drive.disk_changed
        BY <1>2, <2>4, <3>2 DEF WriteSideReg, Tick, EjectDisk, ToggleFastDisk, Drive
      <4> QED BY <2>0, <2>4, <4>1 DEF ChangeNeverMissed
    <3> QED BY <3>1, <3>2
  <2> QED BY <2>1, <2>2, <2>3, <2>4 DEF HGlue
<1>6. WrittenAsSent' /\ ReadAsStored'
  BY <1>3, NoSectorMatches DEF WrittenAsSent, ReadAsStored
<1> QED BY <1>1, <1>4, <1>5, <1>6 DEF HInv

\* Every step keeps it.
LEMMA HInvStep == HInv /\ [HNext]_<<vars, history>> => HInv'
<1> SUFFICES ASSUME HInv, [HNext]_<<vars, history>> PROVE HInv'  OBVIOUS
<1>1. CASE UNCHANGED <<vars, history>>
  <2>1. IInv'  BY <1>1, NextIInv DEF HInv
  <2>2. /\ fdc' = fdc /\ drive' = drive /\ sent' = sent /\ place' = place /\ wrote' = wrote
        /\ got' = got /\ source' = source /\ read' = read /\ owed' = owed
    BY <1>1 DEF vars, history
  <2> QED BY <2>1, <2>2 DEF HInv, WriteRecorded, ReadRecorded, WrittenAsSent, ReadAsStored,
                            ChangeNeverMissed, PlaceOf, Lost
<1> QED BY <1>1, HPollKeeps, HWriteDataKeeps, HWriteCommandKeeps, HReadDataKeeps, HGlueKeeps
        DEF HNext

\* It holds at the start.
LEMMA HInvInit == HInit => HInv
<1> SUFFICES ASSUME HInit PROVE HInv  OBVIOUS
<1>1. IInv  BY InitIInv DEF HInit
<1>2. fdc.phase = "Idle"  BY DEF HInit, Init, BlankChip
<1> QED BY <1>1, <1>2, NoSectorMatches
        DEF HInit, HInv, WriteRecorded, ReadRecorded, WrittenAsSent, ReadAsStored,
            ChangeNeverMissed

\* The invariant with its history holds.
LEMMA HistorySound == HSpec => []HInv
  BY HInvInit, HInvStep, PTL DEF HSpec

\* A sector the program wrote without Lost Data stands on the disk as it was
\* sent, where the head was when the write began, for every cadence of bytes
\* and whatever the program, the user and the time did meanwhile
\* (write_data, commit_write_sector_byte, finish_write_sector).
THEOREM SectorsWrittenAsSent == HSpec => []WrittenAsSent
<1>1. HInv => WrittenAsSent  BY DEF HInv
<1> QED BY <1>1, HistorySound, PTL

\* A sector the program read without Lost Data is the one the disk held when
\* its read began, every byte in its order (read_data, begin_read_sector).
THEOREM SectorsReadAsStored == HSpec => []ReadAsStored
<1>1. HInv => ReadAsStored  BY DEF HInv
<1> QED BY <1>1, HistorySound, PTL

\* No change of the disk is lost before the program was told of it: only a
\* read of the drive register with the drive selected uses the latch up
\* (mem_read 0x3FFD, take_disk_changed).
THEOREM ChangesAreReported == HSpec => []ChangeNeverMissed
<1>1. HInv => ChangeNeverMissed  BY DEF HInv
<1> QED BY <1>1, HistorySound, PTL

(***************************************************************************)
(* The refinement of SectorStream, first what each of its actions takes    *)
(* from the chip before and after the step.                                *)
(***************************************************************************)
TargetOf(f) == ChsToLba(f.write_track_num, f.write_side, f.write_sector_num)
TakenBy(f) == SubSeq(f.buffer, 1, f.data_index)
AllTracks == {TrackSectors(t, s) : t \in Track, s \in Side}

UnderWay(f) ==
  IF f.phase = "WriteSector" THEN [target |-> TargetOf(f), taken |-> TakenBy(f)]
  ELSE [target |-> -1, taken |-> << >>]

OfFormat(f) ==
  IF f.phase = "WriteTrack" THEN TrackSectors(f.write_track_num, f.write_side) ELSE {}

\* The refinement mapping, as a function of the chip.
LEMMA UnderWayIs ==
  /\ WriteUnderWay = UnderWay(fdc) /\ FormatUnderWay = OfFormat(fdc)
  /\ WriteUnderWay' = UnderWay(fdc') /\ FormatUnderWay' = OfFormat(fdc')
  BY DEF WriteUnderWay, FormatUnderWay, UnderWay, OfFormat, TargetOf, TakenBy

\* What a format covers is nothing or a track.
LEMMA FormatIsTrack ==
  ASSUME NEW f \in Chip
  PROVE  OfFormat(f) \in {{}} \cup AllTracks
<1>1. f.write_track_num \in Track /\ f.write_side \in Side  BY DEF Chip
<1> QED BY <1>1 DEF OfFormat, AllTracks

\* What the longer prefix of a buffer adds to the shorter.
Prefixes(b, c, k, m) ==
  /\ SubSeq(c, 1, m) = SubSeq(b, 1, k) \o SubSeq(c, k + 1, m)
  /\ SubSeq(c, k + 1, m) \in [1 .. m - k -> Byte]
  /\ Len(SubSeq(b, 1, k)) = k /\ SubSeq(b, 1, k) \in [1 .. k -> Byte]

\* Of two buffers that agree up to k, what was taken of the first is a
\* beginning of what was taken of the second.
LEMMA PrefixesGrow ==
  ASSUME NEW b \in Seq(Byte), NEW c \in Seq(Byte), NEW k \in Nat, NEW m \in Nat,
         k <= m, m <= Len(b), Len(c) = Len(b), \A j \in 1 .. k : c[j] = b[j]
  PROVE  Prefixes(b, c, k, m)
  BY PrefixGrows DEF Prefixes

StreamStep == Stream!Next \/ UNCHANGED Stream!vars

\* A step that moves no byte and no command is a stutter of the stream.
LEMMA QuietStream ==
  ASSUME UnderWay(fdc') = UnderWay(fdc), OfFormat(fdc') = OfFormat(fdc), disk'.data = disk.data
  PROVE  StreamStep
  BY UnderWayIs DEF StreamStep, Stream!vars

\* A sector write that goes away without laying anything was given up.
LEMMA GivenUpStream ==
  ASSUME fdc' \in Chip, fdc'.phase # "WriteSector", disk'.data = disk.data
  PROVE  StreamStep
<1>1. OfFormat(fdc') \in {{}} \cup AllTracks  BY FormatIsTrack
<1>2. UnderWay(fdc') = [target |-> -1, taken |-> << >>]  BY DEF UnderWay
<1>3. Stream!GiveUp
  BY <1>1, <1>2, UnderWayIs DEF Stream!GiveUp, Stream!NoWrite, AllTracks
<1> QED BY <1>3 DEF StreamStep, Stream!Next

\* No byte is a sequence of bytes.
LEMMA NothingTaken == << >> \in [1 .. 0 -> Byte]
  OBVIOUS

\* A chip that writes, and the sector it writes to.
Writing(f) ==
  /\ f \in Chip /\ f.phase = "WriteSector" /\ Balanced(f)
  /\ f.write_sector_num \in 1 .. SectorsPerTrack

\* The mapping of a sector write under way.
LEMMA WritingFacts ==
  ASSUME NEW f, Writing(f)
  PROVE  /\ UnderWay(f) = [target |-> TargetOf(f), taken |-> TakenBy(f)]
         /\ TargetOf(f) \in Lba
         /\ OfFormat(f) = {}
         /\ f.data_index \in Nat /\ f.data_index < SectorSize
         /\ f.buffer \in Seq(Byte) /\ Len(f.buffer) = SectorSize /\ SectorSize \in Nat
<1>1. f.write_track_num \in Track /\ f.write_side \in Side /\ f.data_index \in Nat
      /\ f.data_available \in Nat
  BY DEF Writing, Chip
<1>2. TargetOf(f) \in Lba  BY <1>1, ChsInRange DEF TargetOf, Writing
<1>3. /\ f.buffer \in Seq(Byte) /\ Len(f.buffer) = SectorSize
      /\ f.data_index + f.data_available = SectorSize /\ f.data_available > 0
  BY WritePosition DEF Writing, Balanced
<1>4. SectorSize \in Nat  BY GeometryAssumption
<1>5. f.data_index < SectorSize  BY <1>1, <1>3
<1>6. /\ UnderWay(f) = [target |-> TargetOf(f), taken |-> TakenBy(f)]
      /\ OfFormat(f) = {}
  BY DEF UnderWay, OfFormat, Writing
<1> QED BY <1>1, <1>2, <1>3, <1>4, <1>5, <1>6

\* A write at its first byte was begun, whatever was there before.
LEMMA BegunStream ==
  ASSUME Writing(fdc'), fdc'.data_index = 0, disk'.data = disk.data
  PROVE  StreamStep
<1>1. /\ UnderWay(fdc') = [target |-> TargetOf(fdc'), taken |-> << >>]
      /\ TargetOf(fdc') \in Lba /\ OfFormat(fdc') = {}
  BY WritingFacts, PrefixOfNothing DEF TakenBy
<1>2. UnderWay(fdc') \in Stream!Writes(TargetOf(fdc'), 0)
  BY <1>1, NothingTaken DEF Stream!Writes, Stream!Taken
<1>3. Stream!Begin  BY <1>1, <1>2, UnderWayIs DEF Stream!Begin
<1> QED BY <1>3 DEF StreamStep, Stream!Next

\* The write goes on: what the buffer held stays as it was.
LEMMA TakenStream ==
  ASSUME Writing(fdc), Writing(fdc'), PlaceOf(fdc)' = PlaceOf(fdc),
         fdc.data_index < fdc'.data_index,
         \A j \in 1 .. fdc.data_index : fdc'.buffer[j] = fdc.buffer[j],
         disk'.data = disk.data
  PROVE  StreamStep
<1> DEFINE k == fdc.data_index
           m == fdc'.data_index
           more == SubSeq(fdc'.buffer, k + 1, m)
           old == UnderWay(fdc)
           new == UnderWay(fdc')
<1>1. /\ old = [target |-> TargetOf(fdc), taken |-> TakenBy(fdc)]
      /\ TargetOf(fdc) \in Lba /\ OfFormat(fdc) = {}
      /\ k \in Nat /\ fdc.buffer \in Seq(Byte) /\ Len(fdc.buffer) = SectorSize
      /\ SectorSize \in Nat
  BY WritingFacts
<1>2. /\ new = [target |-> TargetOf(fdc'), taken |-> TakenBy(fdc')]
      /\ OfFormat(fdc') = {}
      /\ m \in Nat /\ m < SectorSize /\ fdc'.buffer \in Seq(Byte)
      /\ Len(fdc'.buffer) = SectorSize
  BY WritingFacts
<1>3. TargetOf(fdc') = TargetOf(fdc)  BY DEF PlaceOf, TargetOf
<1>4. /\ TakenBy(fdc') = TakenBy(fdc) \o more
      /\ more \in [1 .. m - k -> Byte] /\ Len(TakenBy(fdc)) = k
  <2>1. Prefixes(fdc.buffer, fdc'.buffer, k, m)
    <3>1. k <= m /\ m <= Len(fdc.buffer) /\ Len(fdc'.buffer) = Len(fdc.buffer)
      BY <1>1, <1>2
    <3> HIDE DEF more, k, m
    <3>2. \A j \in 1 .. k : fdc'.buffer[j] = fdc.buffer[j]  BY DEF k
    <3> QED BY <1>1, <1>2, <3>1, <3>2, PrefixesGrow
  <2> QED BY <2>1 DEF TakenBy, Prefixes
<1> HIDE DEF more, old, new
<1>5. m - k \in 1 .. SectorSize - 1 - Len(old.taken)  BY <1>1, <1>2, <1>4
<1>6. new = [old EXCEPT !.taken = @ \o more]
  <2> DEFINE a == TargetOf(fdc)
             p == TakenBy(fdc)
             q == TakenBy(fdc')
  <2>1. old = [target |-> a, taken |-> p] /\ new = [target |-> a, taken |-> q] /\ q = p \o more
    BY <1>1, <1>2, <1>3, <1>4
  <2> HIDE DEF a, p, q
  <2>2. old.taken = p  BY <2>1
  <2>3. [old EXCEPT !.taken = q] = [target |-> a, taken |-> q]
    <3>1. [[target |-> a, taken |-> p] EXCEPT !.taken = q] = [target |-> a, taken |-> q]
      OBVIOUS
    <3>2. old = [target |-> a, taken |-> p]  BY <2>1
    <3> HIDE DEF old
    <3> QED BY <3>1, <3>2
  <2>4. [old EXCEPT !.taken = @ \o more] = [old EXCEPT !.taken = q]  BY <2>1, <2>2
  <2> QED BY <2>1, <2>3, <2>4
<1>7. more \in Stream!Taken(m - k)  BY <1>4 DEF Stream!Taken
<1>8. old.target \in Lba  BY <1>1
<1>9. /\ WriteUnderWay = old /\ WriteUnderWay' = new
      /\ FormatUnderWay' = FormatUnderWay
  BY <1>1, <1>2, UnderWayIs DEF old, new
<1> HIDE DEF k, m
<1>10. Stream!Take  BY <1>5, <1>6, <1>7, <1>8, <1>9 DEF Stream!Take, Stream!Open
<1> QED BY <1>10 DEF StreamStep, Stream!Next

\* The sector is full, whatever filled it up, and what comes after it.
LEMMA LaidStream ==
  ASSUME Writing(fdc), fdc' \in Chip, NEW b \in Sector,
         \A j \in 1 .. fdc.data_index : b[j] = fdc.buffer[j],
         disk'.data \in {disk.data, [disk.data EXCEPT ![TargetOf(fdc)] = b]},
         fdc'.phase = "WriteSector" => Writing(fdc') /\ fdc'.data_index \in {0, 1}
  PROVE  StreamStep
<1> DEFINE k == fdc.data_index
           more == SubSeq(b, k + 1, SectorSize)
           old == UnderWay(fdc)
           new == UnderWay(fdc')
<1>1. /\ old = [target |-> TargetOf(fdc), taken |-> TakenBy(fdc)]
      /\ TargetOf(fdc) \in Lba /\ OfFormat(fdc) = {}
      /\ k \in Nat /\ k < SectorSize /\ fdc.buffer \in Seq(Byte) /\ Len(fdc.buffer) = SectorSize
      /\ SectorSize \in Nat
  BY WritingFacts
<1>2. b \in Seq(Byte) /\ Len(b) = SectorSize /\ SubSeq(b, 1, SectorSize) = b
  BY SectorIsSequence, PrefixOfAll
<1>3. /\ b = TakenBy(fdc) \o more
      /\ more \in [1 .. SectorSize - k -> Byte] /\ Len(TakenBy(fdc)) = k
  <2>1. Prefixes(fdc.buffer, b, k, SectorSize)
    <3>1. k <= SectorSize /\ SectorSize <= Len(fdc.buffer) /\ Len(b) = Len(fdc.buffer)
      BY <1>1, <1>2
    <3> HIDE DEF more, k
    <3>2. \A j \in 1 .. k : b[j] = fdc.buffer[j]  BY DEF k
    <3> QED BY <1>1, <1>2, <3>1, <3>2, PrefixesGrow
  <2> QED BY <1>2, <2>1 DEF TakenBy, Prefixes
<1>4. more \in Stream!Taken(SectorSize - Len(old.taken))  BY <1>1, <1>3 DEF Stream!Taken
<1>5. disk'.data \in {disk.data, [disk.data EXCEPT ![old.target] = old.taken \o more]}
  <2>1. old.target = TargetOf(fdc) /\ old.taken = TakenBy(fdc)  BY <1>1
  <2>2. old.taken \o more = b  BY <1>3, <2>1
  <2> HIDE DEF old, more
  <2> QED BY <2>1, <2>2
<1>6. new = Stream!NoWrite \/ \E s \in Lba, n \in {0, 1} : new \in Stream!Writes(s, n)
  <2>1. CASE fdc'.phase # "WriteSector"  BY <2>1 DEF UnderWay, Stream!NoWrite
  <2>2. CASE fdc'.phase = "WriteSector"
    <3>1. /\ new = [target |-> TargetOf(fdc'), taken |-> TakenBy(fdc')]
          /\ TargetOf(fdc') \in Lba /\ fdc'.buffer \in Seq(Byte)
          /\ Len(fdc'.buffer) = SectorSize /\ fdc'.data_index < SectorSize
          /\ fdc'.data_index \in {0, 1}
      BY <2>2, WritingFacts
    <3>2. TakenBy(fdc') \in [1 .. fdc'.data_index -> Byte]
      <4> DEFINE c == fdc'.buffer
                 n == fdc'.data_index
      <4>1. c \in Seq(Byte) /\ n \in Nat /\ n <= Len(c)  BY <1>1, <3>1
      <4> HIDE DEF c, n
      <4>2. Prefixes(c, c, n, n)  BY <4>1, PrefixesGrow
      <4> QED BY <4>2 DEF TakenBy, Prefixes, c, n
    <3>3. new \in Stream!Writes(TargetOf(fdc'), fdc'.data_index)
      BY <3>1, <3>2 DEF Stream!Writes, Stream!Taken
    <3> QED BY <3>1, <3>3
  <2> QED BY <2>1, <2>2
<1>7. OfFormat(fdc') \in {{}} \cup AllTracks  BY FormatIsTrack
<1>8. old.target \in Lba  BY <1>1
<1> HIDE DEF more, old, new, k
<1>9. /\ WriteUnderWay = old /\ WriteUnderWay' = new
      /\ FormatUnderWay' \in {{}} \cup AllTracks
  BY <1>7, UnderWayIs DEF old, new
<1>10. Stream!Lay
  BY <1>4, <1>5, <1>6, <1>8, <1>9 DEF Stream!Lay, Stream!Open, AllTracks
<1> QED BY <1>10 DEF StreamStep, Stream!Next

-----------------------------------------------------------------------------

\* A chip in a sector write is at a sector of the disk.
LEMMA WritingNow ==
  ASSUME HInv, fdc.phase = "WriteSector"
  PROVE  Writing(fdc)
<1>1. Sound(fdc, drive.fast_disk)  BY IInvParts DEF HInv
<1> QED BY <1>1 DEF Writing, Sound, HInv, WriteRecorded

\* And so it is after a step.
LEMMA WritingNext ==
  ASSUME HInv', fdc'.phase = "WriteSector"
  PROVE  Writing(fdc')
<1>1. Sound(fdc', drive'.fast_disk)  BY IInvPartsPrime DEF HInv
<1> QED BY <1>1 DEF Writing, Sound, HInv, WriteRecorded

\* Zeros are laid behind the bytes already sent.
LEMMA ZeroFilledKeeps ==
  ASSUME NEW f, Writing(f), NEW n \in Nat
  PROVE  /\ ZeroFilled(f, n) \in Sector
         /\ \A j \in 1 .. f.data_index : ZeroFilled(f, n)[j] = f.buffer[j]
<1>1. f \in Chip /\ f.data_index \in Nat /\ f.data_index < SectorSize /\ f.buffer \in Seq(Byte)
      /\ Len(f.buffer) = SectorSize /\ SectorSize \in Nat
  BY WritingFacts DEF Writing
<1>2. ZeroFilled(f, n) \in Sector  BY <1>1, ZeroFilledType, SequenceIsSector
<1>3. \A j \in 1 .. f.data_index : j \in DOMAIN f.buffer  BY <1>1
<1>4. \A j \in 1 .. f.data_index : ZeroFilled(f, n)[j] = f.buffer[j]
  BY <1>1, <1>3 DEF ZeroFilled
<1> QED BY <1>2, <1>4

\* The access finds that nobody served the rest of the sector, which is full.
LEMMA LaidBySync ==
  ASSUME HInv, HInv', SyncLays(fdc, SyncTime(fdc, now)), disk' = Image0,
         fdc'.phase = "WriteSector" => fdc'.data_index \in {0, 1}
  PROVE  StreamStep
<1>1. fdc.phase = "WriteSector"  BY DEF SyncLays, Abandoned
<1>2. Writing(fdc)  BY <1>1, WritingNow
<1>3. fdc.data_available \in Nat /\ fdc.write_track_num \in Track /\ fdc.write_side \in Side
      /\ fdc.write_sector_num \in Int
  BY <1>2 DEF Writing, Chip
<1> DEFINE b == ZeroFilled(fdc, fdc.data_available)
<1>4. b \in Sector /\ \A j \in 1 .. fdc.data_index : b[j] = fdc.buffer[j]
  BY <1>2, <1>3, ZeroFilledKeeps
<1>5. disk' = WriteSectorAt(drive, disk, fdc.write_track_num, fdc.write_side,
                            fdc.write_sector_num, b)
  BY DEF Image0, ImageAfterSync
<1>6. drive \in Drive /\ disk \in Image  BY IInvParts DEF HInv
<1>7. fdc' \in Chip  BY IInvPartsPrime DEF HInv, Sound
<1> HIDE DEF b
<1>8. Lays(drive, disk, disk', fdc.write_track_num, fdc.write_side, fdc.write_sector_num, b)
  BY <1>3, <1>4, <1>5, <1>6, SectorLaid
<1>9. disk'.data \in {disk.data, [disk.data EXCEPT ![TargetOf(fdc)] = b]}
  BY <1>8 DEF Lays, TargetOf
<1>10. fdc'.phase = "WriteSector" => Writing(fdc')  BY WritingNext
<1> QED BY <1>2, <1>4, <1>7, <1>9, <1>10, LaidStream

\* Chips at the same work map to the same stream.
LEMMA SameWorkStream ==
  ASSUME NEW f, NEW g, SameWork(f, g)
  PROVE  /\ UnderWay(g) = UnderWay(f) /\ OfFormat(g) = OfFormat(f)
         /\ TargetOf(g) = TargetOf(f) /\ TakenBy(g) = TakenBy(f)
<1>1. /\ g.phase = f.phase /\ g.buffer = f.buffer /\ g.data_index = f.data_index
      /\ g.write_track_num = f.write_track_num /\ g.write_side = f.write_side
      /\ g.write_sector_num = f.write_sector_num
  BY DEF SameWork, PlaceOf
<1> QED BY <1>1 DEF UnderWay, OfFormat, TargetOf, TakenBy

\* An access that leaves a write as the sync left it.
LEMMA SyncStreams ==
  ASSUME HInv, HInv', disk' = Image0,
         \/ SameWork(Chip0, fdc')
         \/ Chip0.phase \in ReadPhases /\ fdc'.phase \in ReadPhases \cup {"Idle"}
  PROVE  StreamStep
<1> DEFINE laid == SyncLays(fdc, SyncTime(fdc, now))
<1>1. Sound(fdc, drive.fast_disk) /\ drive \in Drive /\ now \in Nat
  BY IInvParts, InterfaceAssumption DEF HInv
<1>2. SyncOutcome(fdc, Chip0, drive, laid)  BY <1>1, SyncStepOutcome DEF Chip0
<1>3. ~laid => disk' = disk  BY DEF Image0, ImageAfterSync
<1>4. fdc' \in Chip  BY IInvPartsPrime DEF HInv, Sound
<1>5. Chip0.phase \notin ReadPhases => SameWork(Chip0, fdc')  OBVIOUS
<1>6. fdc.phase # "WriteSector" /\ fdc'.phase # "WriteSector"
      /\ fdc.phase # "WriteTrack" /\ fdc'.phase # "WriteTrack" =>
        UnderWay(fdc') = UnderWay(fdc) /\ OfFormat(fdc') = OfFormat(fdc)
  BY DEF UnderWay, OfFormat
<1>7. CASE laid
  <2>1. Chip0.phase = "Idle" \/ Begun(Chip0, drive)  BY <1>2, <1>7 DEF SyncOutcome
  <2>2. Chip0.phase \notin ReadPhases  BY <2>1 DEF Begun, ReadPhases
  <2>3. fdc'.phase = "WriteSector" => fdc'.data_index = 0
    BY <1>5, <2>1, <2>2 DEF SameWork, Begun
  <2> QED BY <1>7, <2>3, LaidBySync
<1> HIDE DEF laid
<1>8. CASE ~laid /\ SameWork(fdc, Chip0)
  <2>1. CASE SameWork(Chip0, fdc')
    <3>1. UnderWay(fdc') = UnderWay(fdc) /\ OfFormat(fdc') = OfFormat(fdc)
      BY <1>8, <2>1, SameWorkStream
    <3> QED BY <1>3, <1>8, <3>1, QuietStream
  <2>2. CASE Chip0.phase \in ReadPhases /\ fdc'.phase \in ReadPhases \cup {"Idle"}
    <3>1. fdc.phase \in ReadPhases  BY <1>8, <2>2 DEF SameWork
    <3>2. UnderWay(fdc') = UnderWay(fdc) /\ OfFormat(fdc') = OfFormat(fdc)
      BY <1>6, <2>2, <3>1 DEF ReadPhases
    <3> QED BY <1>3, <1>8, <3>2, QuietStream
  <2> QED BY <2>1, <2>2
<1>9. CASE ~laid /\ fdc.phase = "Type1Seek" /\ Chip0.phase = "Idle"
  <2>1. fdc'.phase = "Idle"  BY <1>5, <1>9 DEF SameWork, ReadPhases
  <2> QED BY <1>3, <1>6, <1>9, <2>1, QuietStream
<1>10. CASE ~laid /\ fdc.phase = "WriteSector" /\ fdc.data_index = 0 /\ Chip0.phase = "Idle"
  <2>1. fdc'.phase = "Idle"  BY <1>5, <1>10 DEF SameWork, ReadPhases
  <2> QED BY <1>3, <1>4, <1>10, <2>1, GivenUpStream
<1>11. CASE /\ ~laid /\ fdc.phase = "WriteSector" /\ fdc.data_index > 0
            /\ Chip0.phase = "WriteSector" /\ PlaceOf(Chip0) = PlaceOf(fdc) /\ Lost(Chip0)
            /\ \E n \in 1 .. fdc.data_available - 1 :
                 Chip0.data_index = fdc.data_index + n /\ Chip0.buffer = ZeroFilled(fdc, n)
  <2>1. SameWork(Chip0, fdc')  BY <1>5, <1>11 DEF ReadPhases
  <2>2. /\ fdc'.phase = "WriteSector" /\ PlaceOf(fdc)' = PlaceOf(fdc)
        /\ fdc'.data_index = Chip0.data_index /\ fdc'.buffer = Chip0.buffer
    BY <1>11, <2>1 DEF SameWork, PlaceOf
  <2>3. Writing(fdc) /\ Writing(fdc')  BY <1>11, <2>2, WritingNow, WritingNext
  <2>4. PICK n \in 1 .. fdc.data_available - 1 :
          fdc'.data_index = fdc.data_index + n /\ fdc'.buffer = ZeroFilled(fdc, n)
    BY <1>11, <2>2
  <2>5. n \in Nat /\ fdc.data_index \in Nat /\ fdc.data_index < fdc'.data_index
    BY <2>3, <2>4, WritingFacts
  <2>6. \A j \in 1 .. fdc.data_index : fdc'.buffer[j] = fdc.buffer[j]
    BY <2>3, <2>4, <2>5, ZeroFilledKeeps
  <2> QED BY <1>3, <1>11, <2>2, <2>3, <2>5, <2>6, TakenStream
<1> QED BY <1>2, <1>7, <1>8, <1>9, <1>10, <1>11 DEF SyncOutcome

\* A poll or a status read is a step of the stream.
LEMMA PollStreams ==
  ASSUME HInv, HInv', HPoll
  PROVE  StreamStep
<1>1. Chip0 \in Chip  BY SyncedSound DEF HInv
<1>2. SameWork(Chip0, fdc')
  <2>1. SameWork(Chip0, Chip0)  BY DEF SameWork
  <2>2. SameWork(Chip0, AfterReadStatus(Chip0))
    BY <1>1 DEF AfterReadStatus, SameWork, PlaceOf, Lost, Chip
  <2>3. \A v : SameWork(Chip0, [Chip0 EXCEPT !.track_reg = v])
    BY <1>1 DEF SameWork, PlaceOf, Lost, Chip
  <2>4. \A v : SameWork(Chip0, [Chip0 EXCEPT !.sector_reg = v])
    BY <1>1 DEF SameWork, PlaceOf, Lost, Chip
  <2> QED BY <2>1, <2>2, <2>3, <2>4 DEF HPoll, Poll, ReadStatus, WriteTrackReg, WriteSectorReg
<1>3. disk' = Image0  BY DEF HPoll, Poll, ReadStatus, WriteTrackReg, WriteSectorReg
<1> QED BY <1>2, <1>3, SyncStreams

\* So is a read of the data register.
LEMMA ReadDataStreams ==
  ASSUME HInv, HInv', HReadData
  PROVE  StreamStep
<1>1. Sound(Chip0, drive.fast_disk) /\ drive \in Drive /\ now \in Nat /\ Image0 \in Image
  BY SyncedSound DEF HInv
<1>2. fdc' = AfterReadData(Chip0, drive, Image0, now) /\ disk' = Image0
  BY DEF HReadData, ReadData
<1>3. /\ Chip0.phase \notin ReadPhases => fdc' = Chip0
      /\ Chip0.phase \in ReadPhases => fdc'.phase \in ReadPhases \cup {"Idle"}
  BY <1>1, <1>2, ReadOutcome
<1>4. SameWork(Chip0, Chip0)  BY DEF SameWork
<1> QED BY <1>2, <1>3, <1>4, SyncStreams

\* So is a command.
LEMMA CommandStreams ==
  ASSUME HInv, HInv', HWriteCommand
  PROVE  StreamStep
<1>1. Chip0 \in Chip /\ drive \in Drive /\ now \in Nat /\ Image0 \in Image
  BY SyncedSound DEF HInv
<1>2. PICK cmd \in Commands : fdc' = AfterWriteCommand(Chip0, drive, Image0, cmd, now)
  BY DEF HWriteCommand, WriteCommand
<1>3. cmd \in Command  BY InterfaceAssumption
<1>4. fdc'.phase = "WriteSector" => Begun(fdc', drive)  BY <1>1, <1>2, <1>3, CommandOutcome
<1>5. fdc'.phase = "WriteSector" => Writing(fdc') /\ fdc'.data_index = 0
  BY <1>4, WritingNext DEF Begun
<1>6. disk' = Image0  BY DEF HWriteCommand, WriteCommand
<1>7. fdc' \in Chip  BY IInvPartsPrime DEF HInv, Sound
<1>8. CASE SyncLays(fdc, SyncTime(fdc, now))  BY <1>5, <1>6, <1>8, LaidBySync
<1>9. CASE ~SyncLays(fdc, SyncTime(fdc, now))
  <2>1. disk' = disk  BY <1>6, <1>9 DEF Image0, ImageAfterSync
  <2>2. CASE fdc'.phase = "WriteSector"  BY <1>5, <2>1, <2>2, BegunStream
  <2>3. CASE fdc'.phase # "WriteSector"  BY <1>7, <2>1, <2>3, GivenUpStream
  <2> QED BY <2>2, <2>3
<1> QED BY <1>8, <1>9

\* A byte of the sector being written: the sync has left the sector alone.
LEMMA SectorByteStreams ==
  ASSUME HInv, HInv', ~SyncLays(fdc, SyncTime(fdc, now)), Chip0.phase = "WriteSector",
         NEW v \in Byte, fdc' = AfterWriteData(Chip0, drive, v, now),
         disk' = ImageAfterWriteData(Chip0, drive, Image0, v)
  PROVE  StreamStep
<1>1. Sound(fdc, drive.fast_disk) /\ drive \in Drive /\ disk \in Image /\ now \in Nat
  BY IInvParts, InterfaceAssumption DEF HInv
<1> DEFINE laid == SyncLays(fdc, SyncTime(fdc, now))
<1>2. SyncOutcome(fdc, Chip0, drive, laid) /\ ~laid  BY <1>1, SyncStepOutcome DEF Chip0
<1> HIDE DEF laid
<1>3. Image0 = disk  BY DEF Image0, ImageAfterSync
<1>4. fdc.phase = "WriteSector" /\ PlaceOf(Chip0) = PlaceOf(fdc)
  BY <1>2 DEF SyncOutcome, SameWork
<1>5. Writing(fdc)  BY <1>4, WritingNow
<1>6. fdc.data_index \in Nat /\ fdc.data_index < SectorSize /\ SectorSize \in Nat
  BY <1>5, WritingFacts
<1>7. /\ fdc.data_index <= Chip0.data_index
      /\ \A j \in 1 .. fdc.data_index : Chip0.buffer[j] = fdc.buffer[j]
  <2>1. CASE SameWork(fdc, Chip0)  BY <1>6, <2>1 DEF SameWork
  <2>2. CASE \E n \in 1 .. fdc.data_available - 1 :
               Chip0.data_index = fdc.data_index + n /\ Chip0.buffer = ZeroFilled(fdc, n)
    <3>1. PICK n \in 1 .. fdc.data_available - 1 :
            Chip0.data_index = fdc.data_index + n /\ Chip0.buffer = ZeroFilled(fdc, n)
      BY <2>2
    <3>2. n \in Nat  BY <3>1
    <3> QED BY <1>5, <1>6, <3>1, <3>2, ZeroFilledKeeps
  <2> QED BY <1>2, <2>1, <2>2 DEF SyncOutcome
<1>8. /\ Sound(Chip0, drive.fast_disk) /\ Chip0 \in Chip /\ Balanced(Chip0)
  BY SyncedSound DEF HInv, Sound
<1>9. /\ Chip0.data_index \in Nat /\ Chip0.data_index + 1 \in 1 .. Len(Chip0.buffer)
      /\ Chip0.buffer \in Seq(Byte) /\ Len(Chip0.buffer) = SectorSize
  BY <1>8, WritePosition DEF Chip
<1>10. /\ Chip0.write_track_num \in Track /\ Chip0.write_side \in Side
       /\ Chip0.write_sector_num = fdc.write_sector_num
       /\ Chip0.write_sector_num \in 1 .. SectorsPerTrack
  BY <1>4, <1>5, <1>8 DEF PlaceOf, Chip, Writing
<1> DEFINE b == [Chip0.buffer EXCEPT ![Chip0.data_index + 1] = v]
<1>11. b \in Seq(Byte) /\ Len(b) = SectorSize  BY <1>9, ExceptSeq
<1>12. \A j \in 1 .. fdc.data_index : b[j] = fdc.buffer[j]
  <2> TAKE j \in 1 .. fdc.data_index
  <2>1. j # Chip0.data_index + 1 /\ j \in DOMAIN Chip0.buffer  BY <1>6, <1>7, <1>9
  <2>2. b[j] = Chip0.buffer[j]  BY <1>9, <2>1
  <2> QED BY <1>7, <2>2
<1>13. /\ Chip0.data_available = 1 => fdc'.phase = "Idle" \/ Begun(fdc', drive)
       /\ Chip0.data_available # 1 =>
            /\ fdc'.phase = "WriteSector" /\ PlaceOf(fdc)' = PlaceOf(Chip0)
            /\ fdc'.data_index = Chip0.data_index + 1 /\ fdc'.buffer = b
  BY <1>1, <1>8, WriteDataOutcome DEF PlaceOf
<1>14. Chip0.data_available = 1 =>
         disk' = WriteSectorAt(drive, disk, Chip0.write_track_num, Chip0.write_side,
                               Chip0.write_sector_num, b)
  BY <1>3 DEF ImageAfterWriteData
<1>15. Chip0.data_available # 1 => disk' = disk  BY <1>3 DEF ImageAfterWriteData
<1> HIDE DEF b
<1>16. b \in Sector  BY <1>11, SequenceIsSector
<1>17. CASE Chip0.data_available = 1
  <2>1. Lays(drive, disk, disk', Chip0.write_track_num, Chip0.write_side,
             Chip0.write_sector_num, b)
    BY <1>1, <1>10, <1>14, <1>16, <1>17, SectorLaid
  <2>2. ChsToLba(Chip0.write_track_num, Chip0.write_side, Chip0.write_sector_num) = TargetOf(fdc)
    BY <1>4 DEF PlaceOf, TargetOf
  <2>3. disk'.data \in {disk.data, [disk.data EXCEPT ![TargetOf(fdc)] = b]}
    BY <2>1, <2>2 DEF Lays
  <2>4. fdc'.phase = "WriteSector" => Writing(fdc') /\ fdc'.data_index \in {0, 1}
    BY <1>13, <1>17, WritingNext DEF Begun
  <2>5. fdc' \in Chip  BY IInvPartsPrime DEF HInv, Sound
  <2> QED BY <1>5, <1>12, <1>16, <2>3, <2>4, <2>5, LaidStream
<1>18. CASE Chip0.data_available # 1
  <2>1. Writing(fdc')  BY <1>13, <1>18, WritingNext
  <2>2. fdc.data_index < fdc'.data_index  BY <1>6, <1>7, <1>9, <1>13, <1>18
  <2>3. PlaceOf(fdc)' = PlaceOf(fdc)  BY <1>4, <1>13, <1>18
  <2> QED BY <1>5, <1>12, <1>13, <1>15, <1>18, <2>1, <2>2, <2>3, TakenStream
<1> QED BY <1>17, <1>18

\* A byte of the track being formatted.
LEMMA TrackByteStreams ==
  ASSUME HInv, HInv', Chip0.phase = "WriteTrack",
         NEW v \in Byte, fdc' = AfterWriteData(Chip0, drive, v, now),
         disk' = ImageAfterWriteData(Chip0, drive, Image0, v)
  PROVE  StreamStep
<1>1. Sound(fdc, drive.fast_disk) /\ drive \in Drive /\ disk \in Image /\ now \in Nat
  BY IInvParts, InterfaceAssumption DEF HInv
<1> DEFINE laid == SyncLays(fdc, SyncTime(fdc, now))
<1>2. SyncOutcome(fdc, Chip0, drive, laid)  BY <1>1, SyncStepOutcome DEF Chip0
<1>3. ~laid /\ SameWork(fdc, Chip0)  BY <1>2 DEF SyncOutcome, Begun
<1>4. Image0 = disk  BY <1>3 DEF Image0, ImageAfterSync
<1>5. Sound(Chip0, drive.fast_disk) /\ Chip0 \in Chip  BY SyncedSound DEF HInv
<1>6. \/ fdc'.phase = "Idle"
      \/ /\ fdc'.phase = "WriteTrack" /\ fdc'.write_track_num = Chip0.write_track_num
         /\ fdc'.write_side = Chip0.write_side
  BY <1>1, <1>5, FormatOutcome
<1>7. /\ fdc.phase = "WriteTrack" /\ fdc.write_track_num = Chip0.write_track_num
      /\ fdc.write_side = Chip0.write_side
  BY <1>3 DEF SameWork, PlaceOf
<1>8. UnderWay(fdc) = UnderWay(fdc') /\ OfFormat(fdc') \in {OfFormat(fdc), {}}
  BY <1>6, <1>7 DEF UnderWay, OfFormat
<1>9. CASE disk'.data = disk.data
  <2>1. CASE fdc'.phase = "Idle"
    <3>1. fdc' \in Chip  BY IInvPartsPrime DEF HInv, Sound
    <3> QED BY <1>9, <2>1, <3>1, GivenUpStream
  <2>2. CASE fdc'.phase = "WriteTrack"
    <3>1. OfFormat(fdc') = OfFormat(fdc)  BY <1>6, <1>7, <2>2 DEF OfFormat
    <3> QED BY <1>8, <1>9, <3>1, QuietStream
  <2> QED BY <1>6, <2>1, <2>2
<1>10. CASE disk'.data # disk.data
  <2> DEFINE track == Chip0.write_track_num
             side == Chip0.write_side
             sector == Chip0.wt_sector_num
             bytes == Chip0.wt_data
             s == ChsToLba(track, side, sector)
  <2>1. disk' = WriteSectorAt(drive, disk, track, side, sector, bytes)
    BY <1>4, <1>10 DEF ImageAfterWriteData
  <2>2. track \in Track /\ side \in Side /\ sector \in Int /\ bytes \in Sector
    BY <1>5, GeometryAssumption DEF Chip, Byte
  <2>3. Lays(drive, disk, disk', track, side, sector, bytes)
    BY <1>1, <2>1, <2>2, SectorLaid
  <2>4. sector \in 1 .. SectorsPerTrack /\ disk'.data = [disk.data EXCEPT ![s] = bytes]
    BY <1>10, <2>3 DEF Lays
  <2>5. s \in OfFormat(fdc)  BY <1>7, <2>4 DEF OfFormat, TrackSectors
  <2>6. bytes \in Stream!Taken(SectorSize)  BY <2>2 DEF Stream!Taken, Sector
  <2> HIDE DEF s, bytes
  <2>7. Stream!Format  BY <1>8, <2>4, <2>5, <2>6, UnderWayIs DEF Stream!Format
  <2> QED BY <2>7 DEF StreamStep, Stream!Next
<1> QED BY <1>9, <1>10

\* A byte that is not the last one moves the buffer by one.
LEMMA CommittedByte ==
  ASSUME NEW f, NEW fast, Sound(f, fast), f.phase = "WriteSector", f.data_available # 1,
         NEW d \in Drive, NEW v \in Byte, NEW t \in Nat
  PROVE  AfterWriteData(f, d, v, t).data_index = f.data_index + 1
<1> DEFINE g == AfterWriteData(f, d, v, t)
<1>1. f.phase = "WriteSector" =>
        /\ g.data_reg = v
        /\ f.data_available = 1 => g.phase = "Idle" \/ Begun(g, d)
        /\ f.data_available # 1 =>
             /\ g.phase = "WriteSector" /\ PlaceOf(g) = PlaceOf(f)
             /\ (Lost(g) <=> Lost(f)) /\ g.data_index = f.data_index + 1
             /\ g.buffer = [f.buffer EXCEPT ![f.data_index + 1] = v]
  BY WriteDataOutcome
<1> QED BY <1>1

\* A write of the data register is a step of the stream.
LEMMA WriteDataStreams ==
  ASSUME HInv, HInv', HWriteData
  PROVE  StreamStep
<1>1. PICK v \in DataValues :
        /\ fdc' = AfterWriteData(Chip0, drive, v, now)
        /\ disk' = ImageAfterWriteData(Chip0, drive, Image0, v)
  BY DEF HWriteData, WriteData
<1>2. v \in Byte  BY InterfaceAssumption
<1>3. /\ Sound(Chip0, drive.fast_disk) /\ drive \in Drive /\ now \in Nat /\ Chip0 \in Chip
      /\ Balanced(Chip0)
  BY SyncedSound DEF HInv, Sound
<1>4. CASE Chip0.phase = "WriteTrack"  BY <1>1, <1>2, <1>4, TrackByteStreams
<1>5. CASE Chip0.phase \notin {"WriteSector", "WriteTrack"}
  <2>1. disk' = Image0  BY <1>1, <1>5 DEF ImageAfterWriteData
  <2>2. SameWork(Chip0, fdc')  BY <1>1, <1>2, <1>3, <1>5, WriteDataOutcome
  <2> QED BY <2>1, <2>2, SyncStreams
<1>6. CASE Chip0.phase = "WriteSector" /\ ~SyncLays(fdc, SyncTime(fdc, now))
  BY <1>1, <1>2, <1>6, SectorByteStreams
<1>7. CASE Chip0.phase = "WriteSector" /\ SyncLays(fdc, SyncTime(fdc, now))
  <2> DEFINE laid == SyncLays(fdc, SyncTime(fdc, now))
  <2>1. Sound(fdc, drive.fast_disk)  BY IInvParts DEF HInv
  <2>2. SyncOutcome(fdc, Chip0, drive, laid)  BY <1>3, <2>1, SyncStepOutcome DEF Chip0
  <2>3. Begun(Chip0, drive) /\ fdc.phase = "WriteSector" /\ fdc.data_index > 0
    BY <1>7, <2>2 DEF SyncOutcome
  <2>4. Chip0.data_available # 1
    <3>1. fdc \in Chip /\ Balanced(fdc)  BY <2>1 DEF Sound
    <3>2. /\ fdc.data_index \in Nat /\ fdc.data_available \in Nat /\ fdc.data_available - 1 \in Nat
          /\ fdc.data_index + fdc.data_available = SectorSize
      BY <2>3, <3>1, WritePosition DEF Chip
    <3>3. /\ Chip0.data_available \in Nat /\ Chip0.data_index = 0
          /\ Chip0.data_index + Chip0.data_available = SectorSize
      BY <1>3, <1>7, <2>3, WritePosition DEF Chip, Begun
    <3> QED BY <2>3, <3>2, <3>3
  <2>5. fdc'.data_index = 1
    <3>1. fdc' = AfterWriteData(Chip0, drive, v, now)  BY <1>1
    <3>2. fdc'.data_index = Chip0.data_index + 1
      BY <1>2, <1>3, <1>7, <2>4, <3>1, CommittedByte
    <3> QED BY <2>3, <3>2 DEF Begun
  <2>6. disk' = Image0  BY <1>1, <1>7, <2>4 DEF ImageAfterWriteData
  <2> QED BY <1>7, <2>5, <2>6, LaidBySync
<1> QED BY <1>4, <1>5, <1>6, <1>7

\* So are the interface's registers, time, the user and a reset.
LEMMA GlueStreams ==
  ASSUME HInv, HInv', HGlue
  PROVE  StreamStep
<1>1. CASE InsertDisk
  <2>1. disk'.data \in Media  BY <1>1 DEF InsertDisk
  <2>2. fdc' = fdc  BY <1>1 DEF InsertDisk
  <2>3. Stream!ChangeDisk  BY <2>1, <2>2, UnderWayIs DEF Stream!ChangeDisk
  <2> QED BY <2>3 DEF StreamStep, Stream!Next
<1>2. CASE ResetMachine
  <2> DEFINE r == ResetChip(fdc, 0)
  <2>1. fdc \in Chip  BY IInvParts DEF HInv, Sound
  <2>2. r \in Chip /\ r.phase = "Idle"
    <3>1. Sound(fdc, drive.fast_disk)  BY IInvParts DEF HInv
    <3> QED BY <2>1, <3>1, ResetChipSound, ResetChipIdle DEF Sound
  <2>3. fdc' = [r EXCEPT !.fast_disk = FastDiskConfig] /\ disk' = disk  BY <1>2 DEF ResetMachine
  <2> HIDE DEF r
  <2>4. fdc'.phase = "Idle"  BY <2>2, <2>3 DEF Chip
  <2>5. fdc' \in Chip  BY IInvPartsPrime DEF HInv, Sound
  <2> QED BY <2>3, <2>4, <2>5, GivenUpStream
<1>3. CASE ToggleFastDisk
  <2>1. fdc \in Chip  BY IInvParts DEF HInv, Sound
  <2>2. SameWork(fdc, fdc') /\ disk' = disk
    BY <1>3, <2>1 DEF ToggleFastDisk, SameWork, PlaceOf, Lost, Chip
  <2> QED BY <2>2, SameWorkStream, QuietStream
<1>4. CASE ReadDriveReg \/ WriteSideReg \/ WriteDriveReg \/ Tick \/ EjectDisk
  <2>1. fdc' = fdc /\ disk' = disk
    BY <1>4 DEF ReadDriveReg, WriteSideReg, WriteDriveReg, Tick, EjectDisk
  <2> QED BY <2>1, QuietStream
<1> QED BY <1>1, <1>2, <1>3, <1>4 DEF HGlue

\* Every step is a step of the stream or a stutter.
LEMMA HStepStreams == HInv /\ HInv' /\ [HNext]_<<vars, history>> => [Stream!Next]_Stream!vars
<1> SUFFICES ASSUME HInv, HInv', [HNext]_<<vars, history>> PROVE StreamStep
  BY DEF StreamStep
<1>1. CASE UNCHANGED <<vars, history>>
  <2>1. fdc' = fdc /\ disk' = disk  BY <1>1 DEF vars
  <2> QED BY <2>1, QuietStream
<1> QED BY <1>1, PollStreams, WriteDataStreams, CommandStreams, ReadDataStreams, GlueStreams
        DEF HNext

\* The start is a start of the stream.
LEMMA HInitStreams == HInit => Stream!Init
<1> SUFFICES ASSUME HInit PROVE Stream!Init  OBVIOUS
<1>1. fdc.phase = "Idle"  BY DEF HInit, Init, BlankChip
<1>2. disk.data \in [Lba -> Sector]  BY InterfaceAssumption DEF HInit, Init
<1>3. Sector = Stream!Taken(SectorSize)  BY DEF Sector, Stream!Taken
<1>4. WriteUnderWay = Stream!NoWrite /\ FormatUnderWay = {}
  BY <1>1 DEF WriteUnderWay, FormatUnderWay, Stream!NoWrite
<1> QED BY <1>2, <1>3, <1>4 DEF Stream!Init

\* The disk interface implements the sector stream: for every cadence of
\* bytes, late, early or not at all, the image changes by whole sectors only,
\* each the bytes taken since its write began, where the head was then
\* (write_data, commit_write_sector_byte, parse_write_track_byte, sync).
THEOREM InterfaceImplementsStream == HSpec => WritesWholeSectors
<1>1. HInit => Stream!Init  BY HInitStreams
<1>2. HInv /\ HInv' /\ [HNext]_<<vars, history>> => [Stream!Next]_Stream!vars  BY HStepStreams
<1> QED BY <1>1, <1>2, HistorySound, PTL DEF HSpec, WritesWholeSectors, Stream!Spec
-----------------------------------------------------------------------------
(***************************************************************************)
(* Polls cannot be seen (FdcPolling), as long as the program writes one    *)
(* sector a command.  The two chips agree but for the head once both are   *)
(* synced, and so do the images; the rest is that every access treats      *)
(* chips alike that agree but for the head, and that a late sync works out *)
(* what several earlier ones do.                                           *)
(***************************************************************************)
SingleWrites == \A cmd \in Commands : cmd.op = "WriteSector" => "M" \notin cmd.flags

InStep == ButHead(Chip0) = ButHead(EagerChip) /\ Image0 = EagerImage

PInv ==
  /\ IInv /\ Sound(eager, drive.fast_disk) /\ eagerDisk \in Image
  /\ Single(fdc) /\ Single(eager) /\ InStep

\* What the program sees has no part in the moment the head was loaded.
LEMMA ShownButHead ==
  ASSUME NEW f \in Chip, NEW i
  PROVE  Shown(ButHead(f), i) = Shown(f, i)
<1> DEFINE h == ButHead(f)
<1>1. /\ h.status = f.status /\ h.command_reg = f.command_reg /\ h.last_sync = f.last_sync
      /\ h.intrq_pending = f.intrq_pending /\ h.immediate_irq = f.immediate_irq
      /\ h.phase = f.phase /\ h.data_available = f.data_available
      /\ h.drq_deadline = f.drq_deadline
      /\ h.track_reg = f.track_reg /\ h.sector_reg = f.sector_reg /\ h.data_reg = f.data_reg
  BY DEF ButHead, Chip
<1> HIDE DEF h
<1>2. \A t : TransferDrq(h, t) <=> TransferDrq(f, t)  BY <1>1 DEF TransferDrq
<1>3. (Intrq(h) <=> Intrq(f)) /\ (Type1Status(h) <=> Type1Status(f))
  BY <1>1 DEF Intrq, Type1Status
<1>4. StatusBits(h, drive, i) \ {"HeadLoaded"} = StatusBits(f, drive, i) \ {"HeadLoaded"}
  BY <1>1, <1>2, <1>3 DEF StatusBits
<1>5. Intrq(h) = Intrq(f) /\ TransferDrq(h, now) = TransferDrq(f, now)
  BY <1>1, Zenon DEF Intrq, TransferDrq
<1>6. Shown(h, i) = Shown(f, i)  BY <1>1, <1>4, <1>5, Zenon DEF Shown
<1> QED BY <1>6 DEF h

\* Chips in step show the program the same.
LEMMA InStepIsInvisible ==
  ASSUME Chip0 \in Chip, EagerChip \in Chip, InStep
  PROVE  PollingInvisible
<1>1. Shown(ButHead(Chip0), Image0) = Shown(Chip0, Image0)  BY ShownButHead
<1>2. Shown(ButHead(EagerChip), EagerImage) = Shown(EagerChip, EagerImage)  BY ShownButHead
<1> QED BY <1>1, <1>2 DEF InStep, PollingInvisible

\* Two chips that agree but for the head stay so when they are synced.
LEMMA SyncAlike ==
  ASSUME NEW f, NEW g, NEW fast, Sound(f, fast), Sound(g, fast), ButHead(f) = ButHead(g),
         NEW d \in Drive, NEW i, NEW t \in Nat
  PROVE  /\ ButHead(Sync(f, d, t)) = ButHead(Sync(g, d, t))
         /\ ImageAfterSync(f, d, i, t) = ImageAfterSync(g, d, i, t)
<1>1. ButHead(Sync(ButHead(f), d, t)) = ButHead(Sync(f, d, t))  BY SyncButHead
<1>2. ButHead(Sync(ButHead(g), d, t)) = ButHead(Sync(g, d, t))  BY SyncButHead
<1>3. ImageAfterSync(ButHead(f), d, i, t) = ImageAfterSync(f, d, i, t)  BY ImageAfterSyncButHead
<1>4. ImageAfterSync(ButHead(g), d, i, t) = ImageAfterSync(g, d, i, t)  BY ImageAfterSyncButHead
<1> QED BY <1>1, <1>2, <1>3, <1>4

\* One access by one chip and the same by the other.
LEMMA AccessInStep ==
  ASSUME Sound(fdc', drive'.fast_disk), Sound(eager', drive'.fast_disk), drive' \in Drive,
         now' \in Nat, ButHead(fdc') = ButHead(eager'), disk' = eagerDisk'
  PROVE  InStep'
<1> DEFINE f == fdc'
           g == eager'
           d == drive'
           i == disk'
           fast == drive'.fast_disk
           t == now'
<1>1. /\ Sound(f, fast) /\ Sound(g, fast) /\ d \in Drive /\ t \in Nat /\ ButHead(f) = ButHead(g)
      /\ i = eagerDisk'
  OBVIOUS
<1>2. /\ Chip0' = Sync(f, d, t) /\ EagerChip' = Sync(g, d, t)
      /\ Image0' = ImageAfterSync(f, d, i, t) /\ EagerImage' = ImageAfterSync(g, d, i, t)
  BY DEF Chip0, EagerChip, Image0, EagerImage
<1> HIDE DEF f, g, d, i, fast, t
<1>3. /\ ButHead(Sync(f, d, t)) = ButHead(Sync(g, d, t))
      /\ ImageAfterSync(f, d, i, t) = ImageAfterSync(g, d, i, t)
  BY <1>1, SyncAlike
<1> QED BY <1>2, <1>3 DEF InStep

\* The twins start in step.
LEMMA PInitInStep == PInit => PInv
<1> SUFFICES ASSUME PInit PROVE PInv  OBVIOUS
<1>1. IInv  BY InitIInv DEF PInit
<1>2. Sound(fdc, drive.fast_disk) /\ disk \in Image /\ eager = fdc /\ eagerDisk = disk
  BY <1>1, IInvParts DEF PInit
<1>3. Single(fdc)  BY DEF PInit, Init, BlankChip, Single
<1>4. InStep  BY <1>2, Zenon DEF InStep, Chip0, EagerChip, Image0, EagerImage
<1> QED BY <1>1, <1>2, <1>3, <1>4 DEF PInv

\* What an access finds in the two chips.
LEMMA BothSynced ==
  ASSUME PInv
  PROVE  /\ now \in Nat /\ drive \in Drive
         /\ Sound(Chip0, drive.fast_disk) /\ Chip0 \in Chip /\ Single(Chip0)
         /\ Sound(EagerChip, drive.fast_disk) /\ EagerChip \in Chip /\ Single(EagerChip)
         /\ Image0 \in Image /\ EagerImage \in Image
         /\ ButHead(Chip0) = ButHead(EagerChip) /\ Image0 = EagerImage
<1>1. /\ IInv /\ Sound(eager, drive.fast_disk) /\ eagerDisk \in Image
      /\ Single(fdc) /\ Single(eager) /\ InStep
  BY DEF PInv
<1>2. /\ now \in Nat /\ drive \in Drive /\ Sound(fdc, drive.fast_disk)
      /\ Sound(Chip0, drive.fast_disk) /\ Chip0 \in Chip /\ Image0 \in Image
  BY <1>1, SyncedSound, IInvParts
<1>3. Sound(EagerChip, drive.fast_disk) /\ EagerImage \in Image
  BY <1>1, <1>2, SyncSound, ImageAfterSyncType DEF EagerChip, EagerImage
<1>4. Single(Chip0) /\ Single(EagerChip)
  BY <1>1, <1>2, SyncSingle DEF Chip0, EagerChip
<1>5. EagerChip \in Chip  BY <1>3 DEF Sound
<1> QED BY <1>1, <1>2, <1>3, <1>4, <1>5 DEF InStep

\* The invariant is what the property needs.
LEMMA PInvIsInvisible == PInv => PollingInvisible
  BY BothSynced, InStepIsInvisible DEF PInv

\* An access that leaves two sound chips, alike but for the head, and one image.
LEMMA AccessKeeps ==
  ASSUME IInv', Sound(eager', drive'.fast_disk), eagerDisk' = disk',
         Single(fdc'), Single(eager'), ButHead(fdc') = ButHead(eager')
  PROVE  PInv'
<1>1. /\ now' \in 0 .. MaxTime /\ Sound(fdc', drive'.fast_disk)
      /\ drive' \in Drive /\ disk' \in Image
  BY IInvPartsPrime
<1>2. now' \in Nat  BY <1>1, InterfaceAssumption
<1>3. InStep'  BY <1>1, <1>2, AccessInStep
<1> QED BY <1>1, <1>3 DEF PInv

\* Polls, and the accesses to the status and the registers.
LEMMA RegisterPolls ==
  ASSUME PInv, IInv', PPoll \/ PReadStatus \/ PWriteTrackReg \/ PWriteSectorReg
  PROVE  PInv'
<1> DEFINE c == Chip0
           e == EagerChip
<1>1. /\ Sound(c, drive.fast_disk) /\ c \in Chip /\ Single(c)
      /\ Sound(e, drive.fast_disk) /\ e \in Chip /\ Single(e)
      /\ ButHead(c) = ButHead(e) /\ Image0 = EagerImage
  BY BothSynced
<1> HIDE DEF c, e
<1>2. ASSUME NEW v
      PROVE  /\ ButHead([c EXCEPT !.track_reg = v]) = ButHead([e EXCEPT !.track_reg = v])
             /\ ButHead([c EXCEPT !.sector_reg = v]) = ButHead([e EXCEPT !.sector_reg = v])
             /\ Single([c EXCEPT !.track_reg = v]) /\ Single([e EXCEPT !.track_reg = v])
             /\ Single([c EXCEPT !.sector_reg = v]) /\ Single([e EXCEPT !.sector_reg = v])
             /\ [c EXCEPT !.track_reg = v].track_reg = v
             /\ [c EXCEPT !.sector_reg = v].sector_reg = v
  <2>1. \A x \in Chip : /\ ButHead([x EXCEPT !.track_reg = v]) = [ButHead(x) EXCEPT !.track_reg = v]
                        /\ ButHead([x EXCEPT !.sector_reg = v]) = [ButHead(x) EXCEPT !.sector_reg = v]
    BY DEF ButHead, Chip
  <2>2. \A x \in Chip : Single(x) => /\ Single([x EXCEPT !.track_reg = v])
                                     /\ Single([x EXCEPT !.sector_reg = v])
    BY DEF Single, Chip
  <2>3. [c EXCEPT !.track_reg = v].track_reg = v /\ [c EXCEPT !.sector_reg = v].sector_reg = v
    BY <1>1 DEF Chip
  <2> QED BY <1>1, <2>1, <2>2, <2>3
<1>3. /\ ButHead(AfterReadStatus(c)) = ButHead(AfterReadStatus(e))
      /\ Single(AfterReadStatus(c)) /\ Single(AfterReadStatus(e))
  <2>1. \A x \in Chip : ButHead(AfterReadStatus(x)) = AfterReadStatus(ButHead(x))
    BY DEF ButHead, AfterReadStatus, Chip
  <2>2. \A x \in Chip : Single(x) => Single(AfterReadStatus(x))
    BY DEF Single, AfterReadStatus, Chip
  <2> QED BY <1>1, <2>1, <2>2
<1>4. CASE PPoll
  <2>1. fdc' = c /\ eager' = e /\ disk' = Image0 /\ eagerDisk' = EagerImage /\ drive' = drive
    BY <1>4 DEF PPoll, Poll, c, e
  <2> QED BY <1>1, <2>1, AccessKeeps
<1>5. CASE PReadStatus
  <2>1. /\ fdc' = AfterReadStatus(c) /\ eager' = AfterReadStatus(e)
        /\ disk' = Image0 /\ eagerDisk' = EagerImage /\ drive' = drive
    BY <1>5 DEF PReadStatus, ReadStatus, c, e
  <2>2. Sound(eager', drive'.fast_disk)  BY <1>1, <2>1, RegisterSet
  <2> QED BY <1>1, <1>3, <2>1, <2>2, AccessKeeps
<1>6. CASE PWriteTrackReg
  <2>1. PICK v \in TrackValues : fdc' = [c EXCEPT !.track_reg = v]
    BY <1>6 DEF PWriteTrackReg, WriteTrackReg, c
  <2>2. /\ eager' = [e EXCEPT !.track_reg = fdc'.track_reg]
        /\ disk' = Image0 /\ eagerDisk' = EagerImage /\ drive' = drive
    BY <1>6 DEF PWriteTrackReg, WriteTrackReg, e
  <2>3. eager' = [e EXCEPT !.track_reg = v]  BY <1>2, <2>1, <2>2
  <2>4. v \in Byte  BY InterfaceAssumption
  <2>5. Sound([e EXCEPT !.track_reg = v], drive.fast_disk)  BY <1>1, <2>4, RegisterSet
  <2>6. Sound(eager', drive'.fast_disk)  BY <2>2, <2>3, <2>5
  <2> QED BY <1>1, <1>2, <2>1, <2>2, <2>3, <2>6, AccessKeeps
<1>7. CASE PWriteSectorReg
  <2>1. PICK v \in SectorValues : fdc' = [c EXCEPT !.sector_reg = v]
    BY <1>7 DEF PWriteSectorReg, WriteSectorReg, c
  <2>2. /\ eager' = [e EXCEPT !.sector_reg = fdc'.sector_reg]
        /\ disk' = Image0 /\ eagerDisk' = EagerImage /\ drive' = drive
    BY <1>7 DEF PWriteSectorReg, WriteSectorReg, e
  <2>3. eager' = [e EXCEPT !.sector_reg = v]  BY <1>2, <2>1, <2>2
  <2>4. v \in Byte  BY InterfaceAssumption
  <2>5. Sound([e EXCEPT !.sector_reg = v], drive.fast_disk)  BY <1>1, <2>4, RegisterSet
  <2>6. Sound(eager', drive'.fast_disk)  BY <2>2, <2>3, <2>5
  <2> QED BY <1>1, <1>2, <2>1, <2>2, <2>3, <2>6, AccessKeeps
<1> QED BY <1>4, <1>5, <1>6, <1>7

\* The data register and the command register.
LEMMA TransferPolls ==
  ASSUME PInv, IInv', PReadData \/ PWriteData  PROVE PInv'
<1> DEFINE c == Chip0
           e == EagerChip
           i == Image0
           fast == drive.fast_disk
<1>1. /\ Sound(c, fast) /\ c \in Chip /\ Single(c)
      /\ Sound(e, fast) /\ e \in Chip /\ Single(e)
      /\ ButHead(c) = ButHead(e) /\ EagerImage = i /\ i \in Image
      /\ now \in Nat /\ drive \in Drive
  BY BothSynced
<1> HIDE DEF c, e, i
<1>2. CASE PReadData
  <2> DEFINE f == AfterReadData(c, drive, i, now)
             g == AfterReadData(e, drive, i, now)
  <2>1. fdc' = f /\ eager' = g /\ disk' = i /\ eagerDisk' = i /\ drive' = drive
    BY <1>1, <1>2 DEF PReadData, ReadData, c, e, i
  <2>2. /\ ButHead(AfterReadData(ButHead(c), drive, i, now)) = ButHead(f)
        /\ ButHead(AfterReadData(ButHead(e), drive, i, now)) = ButHead(g)
    BY <1>1, ReadDataButHead
  <2>3. Single(f) /\ Single(g) /\ Sound(g, fast)
    BY <1>1, ReadDataSingle, AfterReadDataSound
  <2> HIDE DEF f, g
  <2> QED BY <1>1, <2>1, <2>2, <2>3, AccessKeeps
<1>3. CASE PWriteData
  <2>1. PICK v \in DataValues : /\ fdc' = AfterWriteData(c, drive, v, now)
                                /\ disk' = ImageAfterWriteData(c, drive, i, v)
    BY <1>3 DEF PWriteData, WriteData, c, i
  <2>2. v \in Byte  BY InterfaceAssumption
  <2> DEFINE f == AfterWriteData(c, drive, v, now)
             g == AfterWriteData(e, drive, v, now)
  <2>3. f.data_reg = v /\ Single(f) /\ Single(g) /\ Sound(g, fast)
    BY <1>1, <2>2, WriteDataKeeps, AfterWriteDataSound
  <2>4. fdc' = f /\ eager' = g /\ drive' = drive /\ eagerDisk' = ImageAfterWriteData(e, drive, i, v)
    BY <1>1, <1>3, <2>1, <2>3 DEF PWriteData, WriteData, e
  <2>5. /\ ButHead(AfterWriteData(ButHead(c), drive, v, now)) = ButHead(f)
        /\ ButHead(AfterWriteData(ButHead(e), drive, v, now)) = ButHead(g)
    BY <1>1, <2>2, WriteDataButHead
  <2>6. /\ ImageAfterWriteData(ButHead(c), drive, i, v) = ImageAfterWriteData(c, drive, i, v)
        /\ ImageAfterWriteData(ButHead(e), drive, i, v) = ImageAfterWriteData(e, drive, i, v)
    BY <1>1, ImageAfterWriteDataButHead
  <2> HIDE DEF f, g
  <2> QED BY <1>1, <2>1, <2>3, <2>4, <2>5, <2>6, AccessKeeps
<1> QED BY <1>2, <1>3

\* A command keeps the twins in step.
LEMMA CommandPolls ==
  ASSUME SingleWrites, PInv, IInv', PWriteCommand  PROVE PInv'
<1> DEFINE c == Chip0
           e == EagerChip
           i == Image0
           fast == drive.fast_disk
<1>1. /\ Sound(c, fast) /\ c \in Chip /\ Single(c)
      /\ Sound(e, fast) /\ e \in Chip /\ Single(e)
      /\ ButHead(c) = ButHead(e) /\ EagerImage = i /\ i \in Image
      /\ now \in Nat /\ drive \in Drive
  BY BothSynced
<1> HIDE DEF c, e, i
<1>2. PICK cmd \in Commands : /\ fdc' = AfterWriteCommand(c, drive, i, cmd, now)
                              /\ drive' = HeadAfter(c, drive, cmd)
  BY DEF PWriteCommand, WriteCommand, c, i
<1>3. cmd \in Command /\ (cmd.op = "WriteSector" => "M" \notin cmd.flags)
  BY InterfaceAssumption DEF SingleWrites
<1> DEFINE f == AfterWriteCommand(c, drive, i, cmd, now)
           g == AfterWriteCommand(e, drive, i, cmd, now)
<1>4. f.command_reg = cmd /\ Single(f) /\ Single(g)
  BY <1>1, <1>3, WriteCommandKeeps
<1>5. fdc' = f /\ eager' = g /\ disk' = i /\ eagerDisk' = i
  BY <1>1, <1>2, <1>4 DEF PWriteCommand, WriteCommand, e, i
<1>6. /\ ButHead(AfterWriteCommand(ButHead(c), drive, i, cmd, now)) = ButHead(f)
      /\ ButHead(AfterWriteCommand(ButHead(e), drive, i, cmd, now)) = ButHead(g)
  BY <1>1, <1>3, WriteCommandButHead
<1>7. drive'.fast_disk = fast /\ Sound(g, fast)
  <2>1. drive'.fast_disk = drive.fast_disk  BY <1>1, <1>2, <1>3, HeadAfterType
  <2>2. e.fast_disk = fast  BY <1>1 DEF Sound
  <2> QED BY <1>1, <1>3, <2>1, <2>2, AfterWriteCommandSound
<1> HIDE DEF f, g
<1> QED BY <1>1, <1>4, <1>5, <1>6, <1>7, AccessKeeps

\* The latches of the glue, which do not touch the chip.
LEMMA GluePolls ==
  ASSUME PInv, IInv', PGlue  PROVE PInv'
<1>1. /\ IInv /\ Sound(eager, drive.fast_disk) /\ eagerDisk \in Image
      /\ Single(fdc) /\ Single(eager) /\ InStep /\ now \in Nat /\ drive \in Drive
      /\ fdc \in Chip /\ eager \in Chip
  BY BothSynced, IInvParts DEF PInv, Sound
<1>2. UNCHANGED <<eager, eagerDisk, fdc, disk, now>>
  BY DEF PGlue, WriteSideReg, WriteDriveReg, ReadDriveReg
<1>3. drive'.attached = drive.attached /\ drive'.fast_disk = drive.fast_disk
  <2>1. CASE WriteSideReg  BY <1>1, <2>1 DEF WriteSideReg, Drive
  <2>2. CASE ReadDriveReg  BY <1>1, <2>2 DEF ReadDriveReg, TakeDiskChanged, Drive
  <2>3. CASE WriteDriveReg
    <3>1. PICK v \in DriveValues : drive' = WithDriveReg(drive, v, now)
      BY <2>3 DEF WriteDriveReg
    <3> QED BY <1>1, <3>1 DEF WithDriveReg, SetMotor, Drive
  <2> QED BY <2>1, <2>2, <2>3 DEF PGlue
<1>4. /\ Chip0' = Sync(fdc, drive', now) /\ EagerChip' = Sync(eager, drive', now)
      /\ Image0' = ImageAfterSync(fdc, drive', disk, now)
      /\ EagerImage' = ImageAfterSync(eager, drive', eagerDisk, now)
  BY <1>2 DEF Chip0, EagerChip, Image0, EagerImage
<1> DEFINE d == drive'
<1>5. d.attached = drive.attached  BY <1>3
<1>6. /\ Chip0' = Sync(fdc, d, now) /\ EagerChip' = Sync(eager, d, now)
      /\ Image0' = ImageAfterSync(fdc, d, disk, now)
      /\ EagerImage' = ImageAfterSync(eager, d, eagerDisk, now)
  BY <1>4
<1> HIDE DEF d
<1>7. /\ Sync(fdc, d, now) = Chip0 /\ Sync(eager, d, now) = EagerChip
      /\ ImageAfterSync(fdc, d, disk, now) = Image0
      /\ ImageAfterSync(eager, d, eagerDisk, now) = EagerImage
  BY <1>1, <1>5, SyncAnyDrive DEF Chip0, EagerChip, Image0, EagerImage
<1>8. InStep'  BY <1>1, <1>6, <1>7 DEF InStep
<1>9. Single(fdc') /\ Single(eager') /\ Sound(eager', drive'.fast_disk) /\ eagerDisk' \in Image
  BY <1>1, <1>2, <1>3
<1> QED BY <1>8, <1>9 DEF PInv

\* A cycle goes by, and one of the chips is polled.
LEMMA TickPolls ==
  ASSUME PInv, IInv', PTick  PROVE PInv'
<1> DEFINE f == fdc
           g == eager
           d == drive
           fast == drive.fast_disk
           n == now + 1
           h == Sync(g, d, n)
           j == ImageAfterSync(g, d, eagerDisk, n)
<1>1. /\ Sound(f, fast) /\ Single(f) /\ Sound(g, fast) /\ Single(g) /\ eagerDisk \in Image
      /\ now \in Nat /\ d \in Drive
  BY BothSynced, IInvParts DEF PInv
<1>2. n \in Nat /\ now <= n /\ n <= n  BY <1>1
<1>3. /\ fdc' = f /\ drive' = d /\ disk' = disk /\ now' = n /\ eager' = h /\ eagerDisk' = j
  BY DEF PTick, Tick
<1> HIDE DEF n
<1>4. Sound(h, fast) /\ j \in Image /\ Single(h)
  BY <1>1, <1>2, SyncSound, ImageAfterSyncType, SyncSingle
\* What the polled chip does at n it has done at the poll.
<1>5. ButHead(Sync(h, d, n)) = ButHead(h) /\ ImageAfterSync(h, d, j, n) = j
  BY <1>1, <1>2, SyncTwice, ImageTwice
\* A sync at n is one now and one at n, for either chip.
<1>6. /\ ButHead(Sync(Chip0, d, n)) = ButHead(Sync(f, d, n))
      /\ ButHead(Sync(EagerChip, d, n)) = ButHead(h)
      /\ ImageAfterSync(Chip0, d, Image0, n) = ImageAfterSync(f, d, disk, n)
      /\ ImageAfterSync(EagerChip, d, EagerImage, n) = j
  BY <1>1, <1>2, SyncTwice, ImageTwice DEF Chip0, EagerChip, Image0, EagerImage
<1>7. /\ ButHead(Sync(Chip0, d, n)) = ButHead(Sync(EagerChip, d, n))
      /\ ImageAfterSync(Chip0, d, Image0, n) = ImageAfterSync(EagerChip, d, Image0, n)
  BY <1>2, BothSynced, SyncAlike
<1>8. Image0 = EagerImage  BY BothSynced
<1> HIDE DEF h, j
<1>9. /\ Chip0' = Sync(f, d, n) /\ EagerChip' = Sync(h, d, n)
      /\ Image0' = ImageAfterSync(f, d, disk, n) /\ EagerImage' = ImageAfterSync(h, d, j, n)
  BY <1>3 DEF Chip0, EagerChip, Image0, EagerImage
<1>10. InStep'  BY <1>5, <1>6, <1>7, <1>8, <1>9 DEF InStep
<1> QED BY <1>1, <1>3, <1>4, <1>10 DEF PInv

\* Every step does.
LEMMA PNextInStep == SingleWrites /\ PInv /\ [PNext]_<<vars, eager, eagerDisk>> => PInv'
<1> SUFFICES ASSUME SingleWrites, PInv, [PNext]_<<vars, eager, eagerDisk>>  PROVE PInv'
  OBVIOUS
<1>1. CASE UNCHANGED <<vars, eager, eagerDisk>>
  <2>1. /\ UNCHANGED <<vars, eager, eagerDisk>> /\ IInv' /\ InStep'
    BY <1>1 DEF PInv, vars, InStep, Chip0, EagerChip, Image0, EagerImage, IInv, TypeOK,
                BusyIffRunning, ByteBalance, FastDiskLockstep
  <2> QED BY <2>1 DEF PInv, vars
<1>2. CASE PNext
  <2>1. IInv'
    <3>1. Next
      BY <1>2 DEF PNext, Next, PTick, PPoll, PReadStatus, PReadData, PWriteCommand, PWriteData,
                  PWriteTrackReg, PWriteSectorReg, PGlue
    <3> QED BY <3>1, NextIInv DEF PInv
  <2> QED BY <1>2, <2>1, RegisterPolls, TransferPolls, CommandPolls, GluePolls, TickPolls DEF PNext
<1> QED BY <1>1, <1>2

\* A program cannot tell whether the interface was polled in between: what it
\* sees at its next access, and the image, are the same, for every cadence and
\* every timing of its accesses, as long as it writes one sector a command.
\* The controller works out late, in sync(), what happened since the last
\* access; an early end of a command restarts only the window of the head.
THEOREM PollsAreInvisible ==
  ASSUME SingleWrites
  PROVE  PSpec => []PollingInvisible
<1>1. PInv /\ [PNext]_<<vars, eager, eagerDisk>> => PInv'  BY PNextInStep
<1> QED BY <1>1, PInitInStep, PInvIsInvisible, PTL DEF PSpec
=============================================================================
