----------------------------- MODULE FdcPolling -----------------------------
(***************************************************************************)
(* Two identical interfaces with the same CPU accesses; the second one is  *)
(* polled at every cycle in addition.  The chip works out late what        *)
(* happened between two accesses; a program must not see the difference.   *)
(***************************************************************************)
EXTENDS SonyFdc

VARIABLES eager, eagerDisk    \* the chip and the image that are polled

EagerChip == Sync(eager, drive, now)
EagerImage == ImageAfterSync(eager, drive, eagerDisk, now)

PInit == Init /\ eager = fdc /\ eagerDisk = disk

PTick ==
  /\ Tick
  /\ eager' = Sync(eager, drive, now + 1)
  /\ eagerDisk' = ImageAfterSync(eager, drive, eagerDisk, now + 1)

PPoll == Poll /\ eager' = EagerChip /\ eagerDisk' = EagerImage

PReadStatus ==
  ReadStatus /\ eager' = AfterReadStatus(EagerChip) /\ eagerDisk' = EagerImage

PReadData ==
  /\ ReadData
  /\ eager' = AfterReadData(EagerChip, drive, EagerImage, now)
  /\ eagerDisk' = EagerImage

PWriteCommand ==
  /\ WriteCommand
  /\ eager' = AfterWriteCommand(EagerChip, drive, EagerImage, fdc'.command_reg, now)
  /\ eagerDisk' = EagerImage

PWriteData ==
  /\ WriteData
  /\ eager' = AfterWriteData(EagerChip, drive, fdc'.data_reg, now)
  /\ eagerDisk' = ImageAfterWriteData(EagerChip, drive, EagerImage, fdc'.data_reg)

PWriteTrackReg ==
  /\ WriteTrackReg
  /\ eager' = [EagerChip EXCEPT !.track_reg = fdc'.track_reg]
  /\ eagerDisk' = EagerImage

PWriteSectorReg ==
  /\ WriteSectorReg
  /\ eager' = [EagerChip EXCEPT !.sector_reg = fdc'.sector_reg]
  /\ eagerDisk' = EagerImage

PGlue ==
  /\ WriteSideReg \/ WriteDriveReg \/ ReadDriveReg
  /\ UNCHANGED <<eager, eagerDisk>>

PNext == \/ PTick \/ PPoll \/ PReadStatus \/ PReadData \/ PWriteCommand
         \/ PWriteData \/ PWriteTrackReg \/ PWriteSectorReg \/ PGlue

PSpec == PInit /\ [][PNext]_<<vars, eager, eagerDisk>>

-----------------------------------------------------------------------------
\* What an access at this cycle shows the program, but for the head-load
\* bit: end_command restarts its window at the poll that notices the end.
Shown(f, i) ==
  [status |-> StatusBits(f, drive, i) \ {"HeadLoaded"},
   intrq |-> Intrq(f), drq |-> TransferDrq(f, now),
   track |-> f.track_reg, sector |-> f.sector_reg, data |-> f.data_reg]

\* The status, the handshake lines, the registers and the medium depend on
\* the accesses and their times, and not on polls in between: the loop in
\* sync() that substitutes abandoned slots, the first-byte abort and the
\* end of a seek come out the same whenever they are worked out.
PollingInvisible ==
  /\ Shown(Chip0, Image0) = Shown(EagerChip, EagerImage)
  /\ Image0 = EagerImage
=============================================================================
