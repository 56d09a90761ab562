------------------------------ MODULE MCSonyFdc ------------------------------
(***************************************************************************)
(* Small instances of the disk interface: the commands, drive register     *)
(* values and disks each run works with.                                   *)
(***************************************************************************)
EXTENDS SonyFdc

Cmd(op, flags) == [op |-> op, flags |-> flags, rate |-> 0]

MCStepCycles == [r \in 0 .. 3 |-> r + 1]
MCIdCrc == [t \in Track |-> [s \in Side |-> <<3, s>>]]
MCDataMarks == {3}

DriveNone == [sel |-> 3, motor |-> FALSE]

\* One disk full of zeros, and one where every byte tells its sector.
BlankMedium == [l \in Lba |-> ZeroSector]
NumberedMedium == [l \in Lba |-> [j \in 1 .. SectorSize |-> (l + j) % ByteRange]]
MCOneMedium == {BlankMedium}
MCNumberedMedium == {NumberedMedium}

SectorCommands == {Cmd("WriteSector", {"M"}), Cmd("ReadSector", {"M"}), Cmd("ForceInterrupt", {})}
SingleCommands == {Cmd("WriteSector", {}), Cmd("ReadSector", {}), Cmd("Seek", {"H"})}
TransferCommands == {Cmd("ReadSector", {"M"}), Cmd("WriteSector", {}), Cmd("ReadTrack", {}),
                     Cmd("ReadAddress", {}), Cmd("Seek", {"V"}), Cmd("StepIn", {}),
                     Cmd("ForceInterrupt", {"I2"})}
FormatCommands == {Cmd("WriteTrack", {})}
WaitedCommands == {Cmd("WriteSector", {}), Cmd("ReadSector", {}), Cmd("ReadAddress", {}),
                   Cmd("Restore", {"V"})}
MCDriveNone == {DriveNone}
=============================================================================
