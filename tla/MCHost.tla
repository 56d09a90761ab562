------------------------------- MODULE MCHost -------------------------------
(***************************************************************************)
(* What the host program does around the machine: the disks and the file   *)
(* dialogs of the window program, the battery files, the pacing of the     *)
(* sound, recorded input, the captured trace, and the settings.  These     *)
(* parts share no state, so a behaviour follows one of them and the others *)
(* stand still.                                                            *)
(***************************************************************************)
EXTENDS FileDialogs, BatteryFiles, AudioPacing, InputReplay, StreamCapture, Settings

CONSTANT Focuses   \* the parts that are followed

VARIABLE focus

\* Two files, of which "a" may have another size than a 2DD disk, and the lists
\* the user opens.
MCFiles == {"a", "b"}
OneWhole == {"b"}
TwoDisks == {<<"a", "b">>, <<"b">>}
DiskOrOddFile == {<<"b", "a">>, <<"a">>}
NoneOrTwo == {<< >>, <<"a", "b">>}

\* Scripts in order and out of it, without a tag, without an END, with a line
\* that cannot be read and with lines after the END.
HandWritten ==
  {<<Tag, KeyLine(0, "A", TRUE), JoyLine(1, "UP", TRUE), KeyLine(1, "A", FALSE),
     JoyLine(4, "UP", FALSE), End>>,
   <<Tag, KeyLine(2, "A", TRUE), KeyLine(1, "A", FALSE)>>,
   <<Tag, KeyLine(1, "A", TRUE), End, BadLine>>,
   <<Tag, BadLine, End>>,
   <<KeyLine(0, "A", TRUE)>>}

\* A write to a byte of the vector in the watched DRAM and one elsewhere in it,
\* which the memory watch takes in its frame only, R#1, and the sectors.
On(what, at, phys) == [kind |-> what, at |-> at, phys |-> phys]
SomeEvents ==
  {On("ram", 57, 1), On("ram", 7, 1), On("register", 1, 0), On("byte", 0, 0), On("read", 0, 0)}

\* A memory watch over a frame that comes late.
WatchedFrames == {<<0, 2, 1, 1>>}

\* The settings: paths under the project root, relative and absolute, and one
\* elsewhere; ROMs that may be away; a document of an older release, one
\* that lacks knobs or has bad ones; and a command line with and without flags.
SomePaths == 0 .. 5
AbsolutePaths == [p \in SomePaths |-> CASE p = 1 -> 2 [] p = 4 -> 5 [] OTHER -> p]
RelativePaths == [p \in SomePaths |-> CASE p = 2 -> 1 [] p = 5 -> 4 [] OTHER -> p]
SomeAssets == {{2}, {2, 3}}
BuiltIn ==
  [k \in Knobs |-> CASE k = "volume" -> 100 [] k = "scale" -> 3 [] k = "ram" -> 512
                     [] k = "vram" -> 128 [] k = "fmpac_slot" -> 2
                     [] k \in AssetPaths \cup {"fast_disk", "fmpac_autoload", "disk_writable"} -> 1
                     [] OTHER -> 0]
Accepted ==
  [k \in Knobs |-> CASE k \in {"volume", "persistence"} -> 0 .. 100 [] k = "scale" -> 1 .. 8
                     [] k = "ram" -> {64, 512} [] k = "vram" -> {128} [] k = "fmpac_slot" -> {1, 2}
                     [] k = "speed" -> 0 .. 7 [] k = "bios_roms" -> {0, 1}
                     [] k \in AssetPaths -> SomePaths [] OTHER -> {0, 1}]
OlderRelease ==
  [form |-> "written",
   value |-> [BuiltIn EXCEPT !.volume = 35, !.scale = 2, !.ram = 64, !.bios_dir = 2,
                             !.fmpac_rom = 5, !.disk_dir = 3]]
ByHand ==
  [form |-> "edited",
   value |-> [BuiltIn EXCEPT !.volume = 200, !.scale = Missing, !.vram = 64, !.capture = 1,
                             !.fmpac_rom = 3, !.fmpac_sram = 0, !.bios_roms = 1]]
SomeDocuments == {ByHand}
OldDocuments == {OlderRelease}
NoFlags == [stock |-> FALSE, no_fmpac |-> FALSE, value |-> [k \in Knobs |-> Missing]]
SomeFlags == {NoFlags, [NoFlags EXCEPT !.stock = TRUE, !.value.volume = 35, !.value.ram = 512]}

NoBattery ==
  [cart |-> [s \in Slots |-> Empty], bound |-> Unbound, disabled |-> TRUE, shared |-> FALSE,
   user |-> "careful", pc |-> "off", then |-> NoThen,
   files |-> [f \in FmPacs |-> Absent], temp |-> [f \in FmPacs |-> Absent],
   refused |-> FALSE, writes |-> 1, expected |-> [f \in FmPacs |-> 0]]

HostInit ==
  /\ focus \in Focuses
  /\ DInit /\ PaceInit /\ InputInit /\ CaptureInit
  /\ IF focus = "settings" THEN SettingsInit ELSE settings = NewUser(NoDocument, NoDocument, TRUE, {})
  /\ IF focus = "battery" THEN BatInit ELSE bat = NoBattery

HostNext ==
  /\ \/ focus = "disks" /\ DNext /\ UNCHANGED <<bat, pace, inp, cap, settings>>
     \/ focus = "battery" /\ BatNext /\ UNCHANGED <<dialogVars, pace, inp, cap, settings>>
     \/ focus = "pacing" /\ PaceNext /\ UNCHANGED <<dialogVars, bat, inp, cap, settings>>
     \/ focus = "input" /\ InputNext /\ UNCHANGED <<dialogVars, bat, pace, cap, settings>>
     \/ focus = "capture" /\ CaptureNext /\ UNCHANGED <<dialogVars, bat, pace, inp, settings>>
     \/ focus = "settings" /\ SettingsNext /\ UNCHANGED <<dialogVars, bat, pace, inp, cap>>
  /\ UNCHANGED focus

\* Frames go on, so the main loop shows the dialog it was asked for and
\* drains the mailbox (FileDialogs); nothing else is fair.
HostSpec ==
  /\ HostInit /\ [][HostNext]_<<dialogVars, bat, pace, inp, cap, settings, focus>>
  /\ WF_dialogVars(focus = "disks" /\ ShowDialog)
  /\ WF_dialogVars(focus = "disks" /\ DrainMailbox)
=============================================================================
