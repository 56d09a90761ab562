------------------------------ MODULE Settings ------------------------------
(***************************************************************************)
(* The settings of the window program and the file that keeps them from    *)
(* one session to the next: the values of the command line, the file and   *)
(* the program in their order of precedence, what the user changes while   *)
(* it runs, and the file as it is written again at the end of a frame.     *)
(* A value is a number: that of a switch, of a choice or of a path.  The   *)
(* names of the seven BIOS ROMs stand as one knob.  The working directory  *)
(* is the same in every session.                                           *)
(***************************************************************************)
EXTENDS Integers, Sequences

CONSTANTS
  Defaults,      \* EmulatorConfig: the built-in value of every knob
  Valid,         \* the values apply_element accepts for each knob
  Paths,         \* paths, up to their spelling
  EmptyPath,     \* a path that is unset
  Absolute,      \* of each path, the absolute one
  Relative,      \* of each path, the one relative to the project root, if it is under it
  DisplayWidth,  \* width of the display, in halves of the width of scale 1
  DisplayScale,  \* the largest scale whose height has room on the display
  Assets,        \* sets of paths that may exist, from one session to the next
  HandEdits,     \* documents the user may put in the file's place
  Legacies,      \* documents of older releases
  Flags,         \* command lines
  CutPoints,     \* after how many knobs a write may be cut
  MaxStarts,     \* bound: sessions
  MaxChanges     \* bound: changes of a session

\* The order of the knobs in the file.
Order ==
  <<"fast_disk", "fmpac_autoload", "fmpac_slot", "border", "disk_writable", "volume", "speed",
    "scale", "filter", "persistence", "persistence_mode", "fullscreen", "capture",
    "ram", "vram", "bios_dir", "bios_roms", "fmpac_rom", "fmpac_sram", "cartridge_dir",
    "disk_dir", "softwaredb">>
Knobs == {Order[i] : i \in 1 .. Len(Order)}

AssetPaths == {"bios_dir", "cartridge_dir", "disk_dir", "fmpac_rom", "fmpac_sram", "softwaredb"}

\* Knobs the file takes from the running program.  The others it hands on.
Sampled ==
  {"fast_disk", "border", "disk_writable", "volume", "scale", "filter", "persistence",
   "persistence_mode", "fullscreen", "bios_dir", "bios_roms"}

\* Knobs that have a flag of their own.
ByFlag ==
  {"fast_disk", "border", "disk_writable", "volume", "speed", "scale", "filter", "persistence",
   "persistence_mode", "fullscreen", "capture", "ram", "bios_dir", "fmpac_sram", "softwaredb"}

\* A document: who wrote it, and the value of each knob, if it has one.
Missing == -1
Documents == [form : {"written", "edited", "cut", "none"}, value : [Knobs -> Int]]

\* The command line is refused when it has a value that is not accepted.
ASSUME SettingsAssumption ==
  /\ Valid \in [Knobs -> SUBSET Int] /\ \A k \in Knobs : Missing \notin Valid[k]
  /\ \A k \in {"fast_disk", "fmpac_autoload", "border", "disk_writable", "filter",
               "persistence_mode", "fullscreen", "capture"} : Valid[k] = {0, 1}
  /\ Valid["volume"] = 0 .. 100 /\ Valid["persistence"] = 0 .. 100 /\ Valid["scale"] = 1 .. 8
  /\ 64 \in Valid["ram"]
  /\ \A k \in AssetPaths : Valid[k] = Paths
  /\ Defaults \in [Knobs -> Int] /\ \A k \in Knobs : Defaults[k] \in Valid[k]
  /\ Absolute \in [Paths -> Paths] /\ Relative \in [Paths -> Paths]
  /\ EmptyPath \in Paths /\ Absolute[EmptyPath] = EmptyPath
  /\ \A p \in Paths : Absolute[Absolute[p]] = Absolute[p] /\ Absolute[Relative[p]] = Absolute[p]
  /\ DisplayWidth \in Nat \ {0} /\ DisplayScale \in Nat
  /\ HandEdits \subseteq Documents /\ Legacies \subseteq Documents
  /\ CutPoints \subseteq 0 .. Len(Order)
  /\ Flags \subseteq [stock : BOOLEAN, no_fmpac : BOOLEAN, value : [Knobs -> Int]]
  /\ \A flags \in Flags : \A k \in Knobs : flags.value[k] \in Valid[k] \cup {Missing}

VARIABLE settings

settings_vars == <<settings>>

Written(config) == [form |-> "written", value |-> config]
NoDocument == [form |-> "none", value |-> [k \in Knobs |-> Missing]]
CutAfter(n, config) ==
  [form |-> "cut",
   value |-> [k \in Knobs |-> IF \E i \in 1 .. n : Order[i] = k THEN config[k] ELSE Missing]]

\* apply_element: a value that is absent or not accepted leaves the default.
Applied(document, k) ==
  IF document.value[k] \in Valid[k] THEN document.value[k] ELSE Defaults[k]

\* EmulatorConfig::parse: what is no document leaves every default.
Parsed(document) == [k \in Knobs |-> Applied(document, k)]

\* load_config_with_search: the file, or else the one of older releases.
LoadedFrom(file, legacy) == Parsed(IF file = NoDocument THEN legacy ELSE file)

WithAbsoluteAssetPaths(config) ==
  [k \in Knobs |-> IF k \in AssetPaths THEN Absolute[config[k]] ELSE config[k]]
WithRelativeAssetPaths(config) ==
  [k \in Knobs |-> IF k \in AssetPaths THEN Relative[config[k]] ELSE config[k]]

\* An asset that is not there gives way to the standard one, if that is there.
ResolveExistingAsset(path, standard, there) ==
  IF path = EmptyPath \/ path \in there \/ standard \notin there THEN path ELSE standard

\* main: with a project root, the paths are made absolute and the two assets
\* are looked for that a machine cannot do without.
Opened(config, rooted, there) ==
  IF ~rooted THEN config
  ELSE [k \in Knobs |->
         IF k \in {"bios_dir", "fmpac_rom"}
         THEN ResolveExistingAsset(WithAbsoluteAssetPaths(config)[k], Absolute[Defaults[k]], there)
         ELSE WithAbsoluteAssetPaths(config)[k]]

\* resolve_runtime_config, resolve_machine_config, resolve_session_defaults:
\* a flag, then the preset of a bare machine, then the file.
Resolved(config, flags) ==
  [k \in Knobs |->
     IF k \in ByFlag /\ flags.value[k] # Missing THEN flags.value[k]
     ELSE IF k = "ram" /\ flags.stock THEN 64
     ELSE IF k = "fast_disk" /\ flags.stock THEN 0
     ELSE IF k = "fmpac_autoload" /\ (flags.stock \/ flags.no_fmpac) THEN 0
     ELSE config[k]]

Smaller(m, n) == IF m < n THEN m ELSE n

\* fit_window_to_display: the width of a window for the scale asked for.
Fitted(scale) ==
  LET fit == Smaller(scale, Smaller(DisplayWidth \div 2, DisplayScale))
  IN  IF fit >= 1 THEN 2 * fit ELSE Smaller(2 * scale, DisplayWidth)

\* window_scale: of the window as it is, which covers the display in full
\* screen.
WindowScale(s) ==
  LET scale == ((IF s.live.fullscreen = 1 THEN DisplayWidth ELSE s.width) + 1) \div 2
  IN  IF scale < 1 THEN 1 ELSE Smaller(scale, 8)

\* current_settings_xml
CurrentConfig(s) ==
  [k \in Knobs |-> IF k = "scale" THEN WindowScale(s)
                   ELSE IF k \in Sampled THEN s.live[k] ELSE s.baseline[k]]
CurrentSettings(s) ==
  Written(IF s.rooted THEN WithRelativeAssetPaths(CurrentConfig(s))
          ELSE WithAbsoluteAssetPaths(CurrentConfig(s)))

\* Mutant: what is taken to be in the file is what the session starts with.
SeededFromLive(s) == CurrentSettings(s)

\* init(): what the file is taken to hold, before any write.
Seeded(s) == IF s.file = NoDocument THEN CurrentSettings(s) ELSE s.file

\* Where a path leads, or the value of another knob.
Meant(config, k) == IF k \in AssetPaths THEN Absolute[config[k]] ELSE config[k]

\* authored, lost and found are for the properties: what the user last wrote
\* by hand, whether its FM-PAC ROM has been away, and the file a session found.
NewUser(file, legacy, rooted, there) ==
  [phase |-> "off", file |-> file, legacy |-> legacy, rooted |-> rooted, there |-> there,
   baseline |-> Defaults, live |-> Defaults, launched |-> Defaults, width |-> 2,
   unmuted |-> 100, last |-> NoDocument, settled |-> FALSE,
   starts |-> 0, changes |-> 0,
   authored |-> LoadedFrom(file, legacy), lost |-> FALSE, found |-> file]

\* A process ends, and what it knew goes with it.
Gone(s) ==
  [NewUser(s.file, s.legacy, s.rooted, s.there) EXCEPT
     !.starts = s.starts, !.authored = s.authored, !.lost = s.lost]

SettingsInit ==
  \E file \in HandEdits \cup {NoDocument}, legacy \in Legacies \cup {NoDocument},
     rooted \in BOOLEAN, there \in Assets :
    settings = NewUser(file, legacy, rooted, there)

\* Between two sessions the user edits the file, or removes it, and files come
\* and go.
EditByHand ==
  /\ settings.phase = "off"
  /\ \E document \in HandEdits \cup {NoDocument} :
       settings' = [settings EXCEPT !.file = document, !.lost = FALSE,
                                    !.authored = LoadedFrom(document, settings.legacy)]

AssetsMove ==
  /\ settings.phase = "off"
  /\ \E there \in Assets : settings' = [settings EXCEPT !.there = there]

\* main and init(): "window" is a session of a user, "named" one with --config,
\* "hidden" one of a test, which neither reads nor writes the file.
StartSession(kind) ==
  /\ settings.phase = "off"
  /\ settings.starts < MaxStarts
  /\ \E flags \in Flags :
       LET read == CASE kind = "hidden" -> Defaults
                     [] kind = "named" -> Parsed(settings.file)
                     [] kind = "window" -> LoadedFrom(settings.file, settings.legacy)
           config == Opened(read, settings.rooted, settings.there)
           launched == Resolved(config, flags)
           torn == settings.file.form = "cut"
           s == [settings EXCEPT
             !.phase = kind, !.baseline = config, !.launched = launched, !.live = launched,
             !.width = IF kind = "hidden" THEN 2 * launched.scale ELSE Fitted(launched.scale),
             !.starts = @ + 1, !.found = settings.file,
             !.authored = IF torn THEN LoadedFrom(settings.file, settings.legacy) ELSE @,
             !.lost = (@ /\ ~torn) \/ (kind = "window" /\ Absolute[read.fmpac_rom] \notin settings.there)]
       IN  settings' = [s EXCEPT !.last = Seeded(s)]

\* What the user does in a frame, by a key or in the menu.
Changed(knob, value) ==
  [settings EXCEPT !.live[knob] = value, !.settled = FALSE, !.changes = @ + 1]

\* A hidden window gets no events.
MayChange == settings.phase \in {"window", "named"} /\ settings.changes < MaxChanges

\* step_master_volume: the next step of the grid, within its ends.
StepVolume(up) ==
  /\ MayChange
  /\ LET v == settings.live.volume
         next == IF up THEN (v \div 10 + 1) * 10 ELSE ((v + 9) \div 10 - 1) * 10
     IN  settings' = Changed("volume", IF next > 100 THEN 100 ELSE IF next < 0 THEN 0 ELSE next)

ToggleMute ==
  /\ MayChange
  /\ LET v == settings.live.volume
     IN  settings' = IF v > 0 THEN [Changed("volume", 0) EXCEPT !.unmuted = v]
                     ELSE Changed("volume", IF settings.unmuted > 0 THEN settings.unmuted ELSE 100)

\* on_persistence_step_hotkey: from the nearest step of the grid to the next,
\* around its ends.
StepPersistence(up) ==
  /\ MayChange
  /\ LET nearest == (settings.live.persistence + 5) \div 10
     IN  settings' = Changed("persistence", ((nearest + (IF up THEN 12 ELSE 10)) % 11) * 10)

\* A switch of the menu or a key: the speed of the disk, writing to it, full
\* screen, the filter and the way of the persistence.  (Writing also binds the
\* image to its file, which is the disk list's matter.)
ToggleKnob ==
  /\ MayChange
  /\ \E k \in {"fast_disk", "disk_writable", "fullscreen", "filter", "persistence_mode"} :
       settings' = Changed(k, 1 - settings.live[k])

\* The window gets another width, from the menu or by hand, not wider than the
\* display.  In full screen the menu sets the width it will have again.
ResizeWindow ==
  /\ MayChange
  /\ \E width \in {Fitted(scale) : scale \in 1 .. 8}
                  \cup (IF settings.live.fullscreen = 0 THEN 1 .. DisplayWidth ELSE {}) :
       settings' = [settings EXCEPT !.width = width, !.settled = FALSE, !.changes = @ + 1]

\* reset_machine, power_cycle: the disk speed is that of the launch.
Rebooted(live) == [live EXCEPT !.fast_disk = settings.launched.fast_disk]

ResetTheMachine ==
  /\ MayChange
  /\ settings' = [settings EXCEPT !.live = Rebooted(@), !.settled = FALSE, !.changes = @ + 1]

\* A machine of another size.  Where a cartridge cannot be read again the old
\* one goes on.
CycleWithRam ==
  /\ MayChange
  /\ \E kb \in Valid["ram"] \ {settings.live.ram} :
       settings' = [settings EXCEPT !.live = [Rebooted(@) EXCEPT !.ram = kb],
                                    !.settled = FALSE, !.changes = @ + 1]

\* apply_bios_folder: a folder with all its files, and a new machine of the
\* same size, or else the old one and the old folder.
ChooseBiosFolder ==
  /\ MayChange
  /\ \E folder \in settings.there \cap Valid["bios_dir"] :
       /\ Absolute[folder] = folder
       /\ settings' = [settings EXCEPT !.live = [Rebooted(@) EXCEPT !.bios_dir = folder],
                                       !.settled = FALSE, !.changes = @ + 1]

\* maybe_save_settings at the end of a frame.  The file may not open; a write
\* to a full disk is cut and taken for a good one; a kill leaves it cut.
EndOfFrame(outcome) ==
  /\ settings.phase # "off" /\ ~settings.settled
  /\ LET text == CurrentSettings(settings)
         done == [settings EXCEPT !.settled = TRUE]
     IN  IF settings.phase # "window" \/ text = settings.last THEN outcome = "saved" /\ settings' = done
         ELSE CASE outcome = "saved" -> settings' = [done EXCEPT !.file = text, !.last = text]
                [] outcome = "refused" -> settings' = settings
                [] outcome = "full" ->
                     \E n \in CutPoints :
                       settings' = [done EXCEPT !.file = CutAfter(n, text.value), !.last = text]
                [] outcome = "killed" ->
                     \E n \in CutPoints :
                       settings' = Gone([settings EXCEPT !.file = CutAfter(n, text.value)])

\* The loop ends after the frame in which the user quits; a kill comes at any
\* moment.
SessionEnds == settings.phase # "off" /\ settings' = Gone(settings)

SettingsNext ==
  \/ EditByHand \/ AssetsMove
  \/ \E kind \in {"window", "named", "hidden"} : StartSession(kind)
  \/ \E up \in BOOLEAN : StepVolume(up) \/ StepPersistence(up)
  \/ ToggleMute \/ ToggleKnob \/ ResizeWindow \/ ResetTheMachine \/ CycleWithRam \/ ChooseBiosFolder
  \/ \E outcome \in {"saved", "refused", "full", "killed"} : EndOfFrame(outcome)
  \/ SessionEnds

SettingsSpec == SettingsInit /\ [][SettingsNext]_settings_vars

-----------------------------------------------------------------------------
Untorn == settings.file.form # "cut"

\* What the user wrote by hand in knobs that are not sampled comes back in
\* every later session, over any number of rewrites and whatever flags and
\* menus said in between: the file is written from what was loaded
\* (current_settings_xml, the baseline).  Only the path of an FM-PAC ROM that
\* was away when a session started may have become the standard one.
HandEditsSurvive ==
  Untorn => \A k \in Knobs \ Sampled :
              \/ Meant(LoadedFrom(settings.file, settings.legacy), k) = Meant(settings.authored, k)
              \/ k = "fmpac_rom" /\ settings.lost

\* After a frame the next session would start with the knobs of this one:
\* the file is not left stale because the session began with the same values,
\* or because a write before failed.  Only a session that changed nothing and
\* found no file leaves none (maybe_save_settings).
LiveKnobsSaved ==
  settings.phase = "window" /\ settings.settled /\ Untorn =>
    LET current == CurrentConfig(settings)
    IN  \/ \A k \in Knobs : Meant(Parsed(settings.file), k) = Meant(current, k)
        \/ /\ settings.file = NoDocument /\ settings.found = NoDocument
           /\ settings.last = CurrentSettings(settings)

\* A session that was given its configuration, or is a test, leaves the
\* file alone (settings_save_path).
OthersLeaveFile == settings.phase \in {"named", "hidden"} => settings.file = settings.found

\* So the settings are kept.
SettingsKept == HandEditsSurvive /\ LiveKnobsSaved /\ OthersLeaveFile
=============================================================================
